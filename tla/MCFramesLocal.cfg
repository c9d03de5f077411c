SPECIFICATION Spec
CONSTANTS
  u = u  a = a  b = b  c = c  d = d  p = p  k = k
  Empty = Empty  Contract = Contract  None = None
  Addr = {u, a, b, c}
  Keys = {k}
  Values <- MCValues
  Genesis <- MCLocalGenesis
  Remote = FALSE
  Precompile = {}
  CreateAddr <- MCCreateAddr
  Create2Addr <- MCCreate2Addr
  Senders = {u}
  Creators = {}
  Operands = {a, b}
  Amounts = {0, 1}
  Ops = {"SSTORE"}
  DepthLimit = 3
  MaxNonce = 4
  MaxSteps = 3
  MaxTxs = 1
INVARIANTS
  OriginalIsTxStart
