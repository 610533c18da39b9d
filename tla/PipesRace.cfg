SPECIFICATION Spec
CONSTANTS
  Process = {p1, p2}
  Name = {x}
  Standard = {}
  BadName = {}
  Char = {a, b}
  NoOne = NoOne
  Instances = 1
  Slots = 1
  Size = 3
  MaxVal = 3
PROPERTY ArrivesInOrder
CHECK_DEADLOCK FALSE
