SPECIFICATION FairSpec
CONSTANTS
  Handler = {h1, h2}
  Queries <- StateQueries
  Urls = {u1, u2}
  DefaultUrl = u1
  MaxBlock = 1
  DeployedAt = 1
  NullState = FALSE
  MaxAttempts = 3
  InitialDelay = 3
  MaxDelay = 4
  Offline = FALSE
  Empty = FALSE
  MaxKills = 1
INVARIANT TypeOK
INVARIANT HitsTrue
INVARIANT DelayBounded
PROPERTY EntriesKept
PROPERTY Answered
PROPERTY CloserToAnswer
