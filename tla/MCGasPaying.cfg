SPECIFICATION Spec
CONSTANTS
  Slot = {s1}
  Words = {0}
  Kinds = {"call", "create"}
  Calldata <- Light
  AccessListCosts = {0}
  Carries = {TRUE, FALSE}
  SpareGas = {44000}
  OpCosts = {9000}
  SlotCosts = {}
  AccessCosts = {5200}
  CallGas = {0, 100000}
  PrecompileCosts <- Precompiled
  InitCosts = {2}
  ReturnSizes = {0, 5, 32}
  DepthLimit = 3
INVARIANTS
  GasBounded
  ChargedWithinLimit
PROPERTIES
  CallerKeepsShare
  WorkShrinks
