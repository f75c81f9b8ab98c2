CONSTANTS
  Vars = {"n", "x", "y", "z", "b", "p", "q"}
  Labels = {"l", "m", "o", "q", "r", "s"}
  Functions = {"main", "f", "g", "void", "put"}
  NoVar = "-"
  IntMin <- MinusFour
  IntMax = 3
  Programs <- Structured
  Inputs = {0, 1, 2}
  MaxDepth = 5
  MaxBlocks = 4
  MaxSize = 2
  MaxStray = 0
CHECK_DEADLOCK FALSE
SPECIFICATION FairSpec
PROPERTIES ImplementsBril Terminates
