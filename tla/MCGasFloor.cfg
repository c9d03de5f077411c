SPECIFICATION Spec
CONSTANTS
  Slot = {s1}
  Words = {0}
  Kinds = {"call"}
  Calldata <- Bulky
  AccessListCosts = {0}
  Carries = {TRUE, FALSE}
  SpareGas = {5000}
  OpCosts = {9000}
  SlotCosts = {}
  AccessCosts = {2600}
  CallGas = {0, 100000}
  PrecompileCosts = {3000, 30000}
  InitCosts = {2}
  ReturnSizes = {0, 5, 32}
  DepthLimit = 3
INVARIANT ReportedIsCharged
