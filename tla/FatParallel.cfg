SPECIFICATION FairSpec
CONSTANTS
  ClusterSize = 4
  Bases <- MCBases
  Exts <- MCExts
  NoExt = ""
  HeapValues = {0}
  Volumes <- PairVolumes
  Workers = {w1, w2}
  Paths <- PairPaths
  Sizes = {}
  Offsets = {}
  Leftovers <- ClearMemory
  MaxCount = 3
  MaxTokens = 3
INVARIANT BufferOwnership
 
CHECK_DEADLOCK FALSE
