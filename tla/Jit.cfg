SPECIFICATION Spec
CHECK_DEADLOCK FALSE
CONSTANTS
  Names <- MCNames
  Index <- MCIndex
  NoArgs = NoArgs
  PartBits = 3
  PrintInt = 1753
  Host <- MCHost
  Garbage <- MCGarbage
  StackSlots = 16
  PageBytes = 1024
  Cases <- MCCases
  BranchRange = 32
  PageSize = 32
  PageRange = 16
  MovRange = 8
  Functions <- MCFunctions
INVARIANTS Agrees ConventionKept CodeDecodes CallReaches

