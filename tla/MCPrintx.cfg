\* One task and two user processes.
CONSTANTS
  Tasks = {SYS}
  Users = {A, B}
SPECIFICATION Spec
INVARIANT TaskAssertionHalts
CHECK_DEADLOCK FALSE
