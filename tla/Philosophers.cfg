SPECIFICATION Spec
CONSTANTS
  MinPhilos = 3
  MaxPhilos = 4
  Guest = 0
  MaxTokens = 2
INVARIANTS
  MarkedApart
  NobodyForgotten
  NobodyOutlivesDinner
PROPERTIES
  GuestEats
