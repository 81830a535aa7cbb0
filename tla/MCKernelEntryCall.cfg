\* The same kernel with system calls.
CONSTANTS
  Procs = {pA, pB}
  IRQs = {clock, keyboard}
  Clock = clock
  First = pA
SPECIFICATION Spec
INVARIANT ReturnsToCode
