SPECIFICATION Spec
CONSTANTS
  Handler = {h1}
  Queries <- OneSlot
  Urls = {u1}
  DefaultUrl = u1
  MaxBlock = 1
  DeployedAt = 2
  NullState = FALSE
  MaxAttempts = 30
  InitialDelay = 1000
  MaxDelay = 20000
  Offline = FALSE
  Empty = FALSE
  MaxKills = 0
SYMMETRY Handlers
INVARIANT DelayCapped
