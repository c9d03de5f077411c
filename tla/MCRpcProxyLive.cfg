SPECIFICATION FairSpec
CONSTANTS
  Handler = {h1, h2}
  Queries <- MixedQueries
  Urls = {u1}
  DefaultUrl = u1
  MaxBlock = 1
  DeployedAt = 2
  NullState = FALSE
  MaxAttempts = 2
  InitialDelay = 1
  MaxDelay = 2
  Offline = FALSE
  Empty = FALSE
  MaxKills = 1
PROPERTY Answered
