CONSTANTS
  Starts <- MCStarts
  Words = {0, 33}
  AccessCosts = {100, 2600}
  CalleeCosts = {0, 700}
  ReturnSizes = {0, 33}
  StackLimit = 8
  AllocLimit = 96
  JumpBytes = 2
  LittleGas = 40
  EnoughGas = 36000
SPECIFICATION Spec
INVARIANT StopReturnsNothing
