SPECIFICATION Spec
CONSTANTS
  Header = 2
  MemorySize = 16
  BlockMaxSize = 5
  RootSize = 12
  MinBlock = 3
  Depth = 2
  Word = 8
  Request = {0, 1, 2, 3, 5, 6}
  MaxLive = 4
INVARIANTS
  TypeOK
  HeadersUntouched
  NothingLost
  AllMerged
  NoLeafHidden
PROPERTIES
  AllocatesApart
