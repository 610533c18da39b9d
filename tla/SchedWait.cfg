SPECIFICATION KillSpec
CONSTANTS
  MaxPid = 3
  MaxPriority = 3
  SleepTicks = {1, 2}
  MaxTicks = 3
INVARIANTS
  WaiterHasChild
