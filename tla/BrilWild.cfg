CONSTANTS
  Vars = {"x", "p"}
  Labels = {"l", "m"}
  Functions = {"main", "f"}
  NoVar = "-"
  IntMin <- MinusFour
  IntMax = 3
  Programs <- Wild
  Inputs = {0, 2}
  MaxDepth = 3
  MaxBlocks = 2
  MaxSize = 2
  MaxStray = 1
CHECK_DEADLOCK FALSE
SPECIFICATION Spec
INVARIANTS CacheSound StackSound ValuesSound
PROPERTY StepsAreBril
