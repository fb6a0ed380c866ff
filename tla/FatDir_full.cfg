\* A directory that goes on in a second block.
CONSTANTS
  BlockEntries = 5
  BlockWord = 16
  IndexWord = 8
  Types = {"FAT32"}
  Dirs <- FullDirs
  Owners = {"a", "b", "v"}
  Nobody = Nobody
  Wanted <- MCWanted
  Fold <- MCFold
  CaseSensitive = FALSE
  LfnEnabled = TRUE
SPECIFICATION Spec
PROPERTY ScanReturns
