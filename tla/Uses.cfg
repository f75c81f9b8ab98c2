SPECIFICATION Spec
CHECK_DEADLOCK FALSE
CONSTANTS
  None = ""
  Stem <- MCStem
  Mentions <- MCMentions
  Doubled <- MCDoubled
  MaxDepth = 5
  Reads <- MCReads
  Programs <- MCPrograms
INVARIANTS BlocksPartition FlowAgrees LinksSound LinksFound ReachableIsShown
           ShownIsComplete GreenDefines
PROPERTIES Ends
