SPECIFICATION Spec
CONSTANTS
  Process = {p1, p2}
  Name = {stdin, x, long}
  Standard = {stdin}
  BadName = {long}
  Char = {a}
  NoOne = NoOne
  Instances = 3
  Slots = 3
  Size = 2
  MaxVal = 2
INVARIANTS
  PipesApart
  
CHECK_DEADLOCK FALSE
