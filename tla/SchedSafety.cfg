SPECIFICATION Spec
CONSTANTS
  MaxPid = 3
  MaxPriority = 2
  SleepTicks = {2}
  MaxTicks = 3
INVARIANTS
  TypeOK
  Placement
  ProcessCountExact
  KidsNeverUndercounted
PROPERTIES
  HaltOnlyWhenIdle
  ChildDeathWakesParent
  SharesCpu
  QueueMatchesPriority
  QueueOrderKept
  HighestPriorityFirst
