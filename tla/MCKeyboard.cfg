\* Letters, modifiers, locks and the codes of two, four and six bytes; four
\* events never fill the 32 bytes of kb_in, and the user may stop.
CONSTANTS
  KB_IN_BYTES = 32
  Keys = {"a", "SHIFT_L", "CTRL_R", "ALT_R", "UP", "PAD_UP", "CAPS_LOCK", "NUM_LOCK", "PRINTSCREEN", "PAUSEBREAK"}
  MaxEvents = 4
SPECIFICATION Spec
INVARIANT DecodesInOrder
PROPERTY EveryKeyDecoded
CHECK_DEADLOCK FALSE
