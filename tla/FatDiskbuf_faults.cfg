\* A drive that may transfer fewer sectors than it is asked for.
CONSTANTS
  DiskbufCount = 2
  UsageTagMax = 2
  Fat32 = FALSE
  SectorsPerCluster = 2
  DataAreaBegin = 1
  RootSectorCount = 1
  SectorLbas = {0, 1}
  Clusters = {2}
  Value = {v1, v2}
  Undef = Undef
  NoEntry = NoEntry
  DriveFaults = TRUE
SPECIFICATION ReadSpec
INVARIANT SuccessMeansData
