SPECIFICATION Spec
CONSTANTS
  Byte = {b1, b2}
  MaxSize = 2
  BssSize = 4
  FirstTarget = 7
  Gap = 2
  Letter = {"w", "a", "s", "d", "q"}
  BufferSize = 1
  MaxUnread = 1
  LineSize = 3
  SquareSize = 2
  Width = 7
  Height = 9
  InterfaceLength = 2
  DefaultLength = 2
  MaxLength = 4
  StartX = 1
  StartX2 = 3
  StartY = 4
  FaceX = {5}
  FaceY = {5, 7}
INVARIANTS
  ModulesLoaded
  KeysReachTheProgram
  LineAsShown
  SnakeWhole
