SPECIFICATION FairSpec
CONSTANTS
  ClusterSize = 4
  Bases <- MCBases
  Exts <- MCExts
  NoExt = ""
  HeapValues = {0, 3, 65535}
  Volumes <- CorruptVolumes
  Workers = {w1}
  Paths <- CorruptPaths
  Sizes = {3, 13}
  Offsets = {0, 1}
  Leftovers <- Junk
  MaxCount = 7
  MaxTokens = 4
INVARIANT BufferOwnership
INVARIANT BufferBounds
INVARIANT ReadsLinked
INVARIANT AbortsOnBroken
PROPERTY AnsweredUnlessCyclic
CHECK_DEADLOCK FALSE
