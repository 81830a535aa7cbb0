\* A ring of three places and two codes: it fills, overflows, empties and
\* wraps, with an interrupt between any two steps of the task.
CONSTANTS
  KB_IN_BYTES = 3
  Codes = {c1, c2}
  NoCode = NoCode
SPECIFICATION Spec
INVARIANT RingConsistent
PROPERTY IsQueue
