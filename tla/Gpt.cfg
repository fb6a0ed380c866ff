CONSTANTS
  Unit <- MCUnit
  Zero <- ZeroUnit
  Images <- MCImages
  SectorSizes = {4, 8}
  SectorWord = 16
  LbaWord = 32
  Lbas = {1}
  MaxCount = 2
  Buffers <- MCBuffers
  MaxLength = 24
  WriteFaults = TRUE
  MaxFaults = 1
  NoDrive = NoDrive
  NoData = NoData
  NoReply = NoReply
  Crashed = Crashed
  Iter = {i1, i2}
  Stack <- MCStack
  NoTable = NoTable
  NoIter = NoIter
  NoEntry = NoEntry
SYMMETRY Symmetry
SPECIFICATION Spec
INVARIANTS TypeOK SpansImage
PROPERTIES ImplementsDevice ListsInOrder
