SPECIFICATION Spec
CHECK_DEADLOCK FALSE
CONSTANTS
  Images <- MCImages
  Stacks <- MCStacks
  MaxRounds = 2
INVARIANTS NamesRight Balanced FreedOnce DefinedUse

