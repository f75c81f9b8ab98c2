CONSTANTS
  Vars = {"n", "y", "b"}
  Labels = {"l", "m", "o"}
  Functions = {"main"}
  NoVar = "-"
  IntMin <- MinusFour
  IntMax = 3
  Programs <- Rotated
  Inputs = {0, 2}
  MaxDepth = 3
  MaxBlocks = 0
  MaxSize = 0
  MaxStray = 0
CHECK_DEADLOCK FALSE
SPECIFICATION Spec
INVARIANT LabelsFound
