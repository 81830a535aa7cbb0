\* The ring while task_tty resets it with the keyboard interrupt on.
CONSTANTS
  KB_IN_BYTES = 3
  Codes = {c1, c2}
  NoCode = NoCode
SPECIFICATION BootSpec
INVARIANT RingConsistent
