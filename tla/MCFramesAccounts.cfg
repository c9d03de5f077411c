SPECIFICATION Spec
CONSTANTS
  u = u  a = a  b = b  c = c  d = d  p = p  k = k
  Empty = Empty  Contract = Contract  None = None
  Addr = {u, a, b, c, d, p}
  Keys = {k}
  Values <- MCValues
  Genesis <- MCGenesis
  Remote = TRUE
  Precompile = {p}
  CreateAddr <- MCCreateAddr
  Create2Addr <- MCCreate2Addr
  Senders = {u}
  Creators = {u}
  Operands = {a, c, d, p}
  Amounts = {1}
  Ops = {"CALL", "CALLCODE", "CREATE", "CREATE2", "SELFDESTRUCT", "SSTORE"}
  DepthLimit = 3
  MaxNonce = 5
  MaxSteps = 2
  MaxTxs = 2
INVARIANTS
  TypeOK
  AccountsRestorable
  RevertIsReverseReplay
  OriginalIsTxStart
PROPERTIES
  NonceConsumed
