\* A root directory with a file and no volume id.
CONSTANTS
  BlockEntries = 5
  BlockWord = 16
  IndexWord = 8
  Types = {"FAT32"}
  Dirs <- UnlabelledDirs
  Owners = {"a", "b", "v"}
  Nobody = Nobody
  Wanted <- MCWanted
  Fold <- MCFold
  CaseSensitive = FALSE
  LfnEnabled = TRUE
SPECIFICATION Spec
PROPERTY LabelReturns
