\* task_tty, the system task and two clients.  The third user process of the
\* real table would be one more client.
CONSTANTS
  TTY = TTY
  SYS = SYS
  A = A
  B = B
  Proc = {TTY, SYS, A, B}
  proc_table <- MCTable
  priority <- MCPriority
  TASK_SYS = SYS
  Clients = {A, B}
  Body <- Bodies
  ANY = ANY
  NO_TASK = NO_TASK
  NULL = NULL
  Blank = Blank
  Delay = 2
  MaxTicks = 4
SPECIFICATION SystemSpec
INVARIANTS
  NeverStops
  AnswerIsFresh
  NoWaitCircle
PROPERTIES
  DelayIsLongEnough
  CallsReturn
  TurnsForAll
  DelaysEnd
