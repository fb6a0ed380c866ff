\* Clusters of two bytes, files of up to four clusters, blocks and clusters
\* below the width of the code's uint16_t locals.  With a MaxSize of 8 and a
\* block of 8 the refinement fails (see the README).
CONSTANTS
  Types = {"FAT12", "FAT16", "FAT32"}
  ClusterSize = 2
  Word = 8
  FatSectorSize = 4
  FatSectors = 6
  Chains <- MCChains
  MaxSize = 7
  Sizes = {0, 1, 2, 3, 5, 7}
  Counts = {0, 1, 2, 3}
  Offsets <- MCOffsets
SPECIFICATION Spec
INVARIANT TypeOK
PROPERTIES ImplementsByteStream ReadReturns
