\* Three entries for four blocks, tags that run out after two accesses, reads only.
CONSTANTS
  DiskbufCount = 3
  UsageTagMax = 2
  Fat32 = TRUE
  SectorsPerCluster = 2
  DataAreaBegin = 2
  RootSectorCount = 1
  SectorLbas = {0, 1}
  Clusters = {2, 3}
  Value = {v1, v2}
  Undef = Undef
  NoEntry = NoEntry
  DriveFaults = FALSE
SPECIFICATION HistSpec
INVARIANT TagsFollowRecency
PROPERTIES ImplementsBlockStore EvictsLeastRecent
