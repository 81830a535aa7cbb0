\* Two consoles with three lines and a half of two words, a screen of two
\* lines; the write a preempted backspace makes.
CONSTANTS
  NR_CONSOLES = 2
  TTY_IN_BYTES = 2
  SCREEN_WIDTH = 2
  SCREEN_SIZE = 4
  v_mem_limit = 7
SPECIFICATION RaceSpec
INVARIANT WritesInRegion
