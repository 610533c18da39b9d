SPECIFICATION OrderlySpec
CONSTANTS
  MaxPid = 3
  MaxPriority = 3
  SleepTicks = {1, 2, 4}
  MaxTicks = 6
INVARIANTS
  WaiterHasChild
  ForegroundHasChild
  SleeperHasTimer
  TimersPending
PROPERTIES
  SleeperWakes
  ReadyRuns
