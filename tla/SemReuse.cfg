SPECIFICATION ReuseSpec
CONSTANTS
  p1 = p1
  p2 = p2
  Proc = {p1, p2}
  Halt = halt
  MaxVal = 2
  MaxChars = 1
  MaxQueue = 3
  reader = p1
PROPERTIES
  FreshLetsIn
