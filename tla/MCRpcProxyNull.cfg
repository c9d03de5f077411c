SPECIFICATION Spec
CONSTANTS
  Handler = {h1, h2}
  Queries <- OneSlot
  Urls = {u1, u2}
  DefaultUrl = u1
  MaxBlock = 2
  DeployedAt = 2
  NullState = TRUE
  MaxAttempts = 2
  InitialDelay = 1
  MaxDelay = 2
  Offline = FALSE
  Empty = FALSE
  MaxKills = 1
SYMMETRY Handlers
INVARIANT CachedMatches
