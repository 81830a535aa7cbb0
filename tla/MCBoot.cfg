SPECIFICATION Spec
CONSTANTS
  BytsPerSec = 4
  SecPerTrk = 5
  FATSz = 3
  RootDirSectors = 2
  DirEntries = 2
  NumClusters = 4
  Seg = 3
  ImageSlots = 4
  Tbl = 2
  AddressSpace = 16
  MaxErrors = 1
  MemoryMaps <- MCMemoryMaps
  Programs <- MCPrograms
INVARIANTS
  LoaderIntact
  KernelInPlace
  StopsForAReason
  MemoryMapped
PROPERTY
  BootEnds
