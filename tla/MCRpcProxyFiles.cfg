SPECIFICATION Spec
CONSTANTS
  Handler = {h1, h2}
  Queries <- FileQueries
  Urls = {u1}
  DefaultUrl = u1
  MaxBlock = 1
  DeployedAt = 1
  NullState = FALSE
  MaxAttempts = 1
  InitialDelay = 1
  MaxDelay = 2
  Offline = FALSE
  Empty = FALSE
  MaxKills = 1
SYMMETRY Handlers
INVARIANT HitsTrue
