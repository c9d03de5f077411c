SPECIFICATION Spec
CONSTANTS
  DepthLimit = 2
  MaxRun = 3
INVARIANT HaltsFlagged
