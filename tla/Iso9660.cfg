\* Three cache entries for seven sectors, two iterators.
CONSTANTS
  DiskbufCount = 3
  UsageTagMax = 2
  Lba <- MCLba
  Undef = Undef
  NoEntry = NoEntry
  SectorSize = 4
  DescSets <- MCDescSets
  PathTable = 20
  DirLba = 21
  Directories <- MCDirectories
  Iter = {i1, i2}
  Owners = {"a", "b", "c"}
  Nobody = "nobody"
  Wanted <- MCWanted
  Fold <- MCFold
  RockRidge = TRUE
SPECIFICATION Spec
INVARIANTS TypeOK OnlyTwoUsed CacheCoherent ListsAll
PROPERTIES LookupExact TimestampOwn LoopsReturn
