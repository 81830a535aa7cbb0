\* Two consoles with five and a half lines of two words, a screen of two
\* lines: the memory and the screen both fill up.
CONSTANTS
  NR_CONSOLES = 2
  TTY_IN_BYTES = 2
  SCREEN_WIDTH = 2
  SCREEN_SIZE = 4
  v_mem_limit = 11
SPECIFICATION Spec
INVARIANTS
  InRegion
  ScrollEnds
  ShowsCurrent
  EchoKeepsUp
