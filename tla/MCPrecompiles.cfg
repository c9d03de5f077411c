SPECIFICATION Spec
CONSTANTS
  N = 7
  ByteBits = 2
  HeadLen = 2
  LimbLen = 1
  MaxLen = 3
  U64 = 1073741824
  Usize = 1073741824
  MaxInput = 1024
  MinGas = 2
  Limit = 100000
  BaseCost = 100
  Inputs <- AllInputs
INVARIANT TypeOK
INVARIANT RecoversSigner
INVARIANT ModexpPriced
INVARIANT ModexpResult
INVARIANT RejectedTogether
INVARIANT BnClosed
