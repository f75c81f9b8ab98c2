\* unsigned char of 2 bits, uint16_t of 4, uint32_t of 8, size_t of 12.
CONSTANTS
  U8 = 4
  U16 = 16
  U32 = 256
  U64 = 4096
  DirBytes = 4
  RefBytes = 2
  BootBytes = 8
  MinClusters = 4
  MaxClusters = 14
  Images <- MCImages
SPECIFICATION Spec
INVARIANTS TypeOK ServesIntact Released AreasOrdered
PROPERTY SoundIsMounted
CHECK_DEADLOCK FALSE
