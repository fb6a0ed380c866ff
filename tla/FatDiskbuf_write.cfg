\* Two entries for three blocks, every operation of the cache, and a boot sector
\* whose buffer is too short for the other sectors.
CONSTANTS
  DiskbufCount = 2
  UsageTagMax = 2
  Fat32 = FALSE
  SectorsPerCluster = 2
  DataAreaBegin = 1
  RootSectorCount = 1
  SectorLbas = {0, 1}
  Clusters = {2}
  Value = {v1, v2}
  Undef = Undef
  NoEntry = NoEntry
  DriveFaults = FALSE
  BootRoom = 0
SPECIFICATION RoomSpec
INVARIANTS TypeOK UniqueBlocks VictimExists CleanCoherent BuffersHold
PROPERTY OtherSectorsKept
