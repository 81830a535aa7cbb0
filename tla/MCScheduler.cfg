\* Three processes, two clock interrupts within schedule().
CONSTANTS
  N = 3
  priority <- MCPriority
  NeverBlocks = {1}
  MaxStray = 2
SPECIFICATION FairSpec
INVARIANTS
  RunsRunnable
  CallerIsReady
PROPERTIES
  ScheduleEnds
  NoStarvation
