SPECIFICATION Spec
CONSTANTS
  Handler = {h1, h2}
  Queries <- OtherMethods
  Urls = {u1, u2}
  DefaultUrl = u1
  MaxBlock = 2
  DeployedAt = 2
  NullState = FALSE
  MaxAttempts = 2
  InitialDelay = 1
  MaxDelay = 2
  Offline = TRUE
  Empty = FALSE
  MaxKills = 1
SYMMETRY Handlers
INVARIANT OfflineStaysLocal
