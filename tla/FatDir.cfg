\* Directories whose end mark is in their first block.
CONSTANTS
  BlockEntries = 5
  BlockWord = 16
  IndexWord = 8
  Types = {"FAT12", "FAT32"}
  Dirs <- ShortDirs
  Owners = {"a", "b", "v"}
  Nobody = Nobody
  Wanted <- MCWanted
  Fold <- MCFold
  CaseSensitive = FALSE
  LfnEnabled = TRUE
SPECIFICATION Spec
INVARIANTS TypeOK ListsAll LabelExact
PROPERTIES LookupExact ScanReturns
