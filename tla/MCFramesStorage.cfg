SPECIFICATION Spec
CONSTANTS
  u = u  a = a  b = b  c = c  d = d  p = p  k = k
  Empty = Empty  Contract = Contract  None = None
  Addr = {u, a, b, c}
  Keys = {k}
  Values <- MCValues
  Genesis <- MCGenesis
  Remote = TRUE
  Precompile = {}
  CreateAddr <- MCCreateAddr
  Create2Addr <- MCCreate2Addr
  Senders = {u}
  Creators = {}
  Operands = {a, b}
  Amounts = {0}
  Ops = {"BALANCE", "SLOAD", "SSTORE", "TSTORE", "CALL", "DELEGATECALL", "STATICCALL"}
  DepthLimit = 3
  MaxNonce = 2
  MaxSteps = 5
  MaxTxs = 1
INVARIANTS
  JournalExact
  WarmSlotsKept
  StaticStorageFrozen
PROPERTIES
  RevertIsAtomic
  ImplementsSnapshots
