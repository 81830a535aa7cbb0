\* Three processes, three lines, one key typed; addresses of four binary
\* digits, so that each entry's LDT needs other fields of its descriptor.
CONSTANTS
  tty = tty
  sys = sys
  testA = testA
  timer = timer
  kbd = kbd
  floppy = floppy
  Procs = {tty, sys, testA}
  IRQs = {timer, kbd, floppy}
  Clock = timer
  Keyboard = kbd
  First = tty
  proc_table <- MCTable
  Number <- MCNumber
  NR_TASKS = 2
  StackSize <- MCStacks
  TableAt = 1
  ProcSize = 4
  LdtsAt = 2
  Radix = 2
  MaxKeys = 1
SPECIFICATION UpSpec
INVARIANTS ReturnsToCode OwnRegisters MaskedWhileServed DriversOwnLines OwnMemory
PROPERTIES KeysAreRead StartsUp
