\* Four processes and two bodies: queues of three senders, so that the first,
\* the middle and the last can each be taken, and chains of four; who got which
\* message matters.
CONSTANTS
  Proc = {p1, p2, p3, p4}
  Body = {b1, b2}
  ANY = ANY
  NO_TASK = NO_TASK
  NULL = NULL
  Blank = Blank
SPECIFICATION Spec
SYMMETRY Symmetry
INVARIANTS
  QueueIntegrity
  AssertsHold
  SendGraphAcyclic
  NoMissedRendezvous
  DeadlockWalkEnds
PROPERTIES
  SendReturnsDelivered
  ReceiveReturnsAsked
  BlockedUndisturbed
  Refines
CHECK_DEADLOCK FALSE
