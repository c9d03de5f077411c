SPECIFICATION FairSpec
CONSTANTS
  Slot = {s1}
  Words = {0, 1, 2}
  Kinds = {"call"}
  Calldata <- Bare
  AccessListCosts = {0}
  Carries = {FALSE}
  SpareGas = {25000}
  OpCosts = {5000}
  SlotCosts = {2100}
  AccessCosts = {2600}
  CallGas = {5000, 100000}
  PrecompileCosts = {3000}
  InitCosts = {}
  ReturnSizes = {0}
  DepthLimit = 3
INVARIANT RefundsBacked
PROPERTY Terminates
