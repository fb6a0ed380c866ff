CONSTANTS
  NoTable = NoTable
  Undef = Undef
  LfnBuflen = 256
  LfnU8Buflen = 384
  Word32 = 1073741824
  LbaWord = 1073741824
  Billion = 10
  NsecWord = 43
  NameLengths = {1, 12, 13, 14, 26, 95, 96, 97, 127, 128, 191, 192, 247}
  ClusterCounts = {1, 339, 340, 4084, 4085, 65524, 65525}
  Seconds = {0, 1, 2}
SPECIFICATION Spec
INVARIANTS
  LongNamesKept
  ShortNamesFound
  LabelsTrimmed
  RecordsRead
  StampsOrdered
  ClustersInVolume
  EntriesInFat
  DifferencesExact
