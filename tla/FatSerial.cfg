SPECIFICATION FairSpec
CONSTANTS
  ClusterSize = 4
  Bases <- MCBases
  Exts <- MCExts
  NoExt = ""
  HeapValues = {0}
  Volumes <- SoundVolumes
  Workers = {w1}
  Paths <- SerialPaths
  Sizes = {1, 5, 16}
  Offsets = {0}
  Leftovers <- Junk
  MaxCount = 7
  MaxTokens = 4
PROPERTY ImplementsFs

