SPECIFICATION Spec
CONSTANTS
  ClusterSize = 4
  Bases <- MCBases
  Exts <- MCExts
  NoExt = ""
  HeapValues = {0}
  Volumes <- SharedVolumes
  Workers = {w1, w2}
  Paths <- TwoFiles
  Sizes = {4}
  Offsets = {0}
  Leftovers <- Junk
  MaxCount = 7
  MaxTokens = 4
INVARIANT ReadsRight
CHECK_DEADLOCK FALSE
