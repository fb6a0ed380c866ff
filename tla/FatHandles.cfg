\* Memory that dir_open gets from malloc holds 0, or something else.
CONSTANTS
  Handle = {h1, h2, h3, h4}
  NoParent = NoParent
  CountWord = 7
  FreshCounts = {0, 2}
  BufCounts = {2, 32}
SPECIFICATION Spec
INVARIANTS TypeOK ParentsOpen
PROPERTY ClosesLeavesOnly
