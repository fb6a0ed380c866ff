\* Files of up to three sectors, blocks of up to one.
CONSTANTS
  SectorSize = 2
  Half = 8
  Word = 16
  LbaData = 5
  MaxSize = 5
  Sizes = {1, 2}
  Counts = {1}
  Offsets = {0, 1}
SPECIFICATION Spec
PROPERTY ReadReturns
