--------------------------- MODULE IpcRefinement ---------------------------
(***************************************************************************)
(* Two things that module Ipc abstracts from or promises: how its process  *)
(* table implements the contract of module Rendezvous, and that the loop   *)
(* of deadlock(), which Ipc replaces by what it computes, ends.            *)
(***************************************************************************)
EXTENDS Ipc, SequencesExt

ASSUME FiniteAssumption == IsFiniteSet(Proc)

(* s is the list of d: it starts at q_sending and follows next_sending.    *)
Follows(s, d) ==
  \A n \in 1..Len(s) :
    s[n] = IF n = 1 THEN q_sending[d] ELSE next_sending[s[n - 1]]

(* The linked list of d, read as a sequence.                               *)
Queue(d) == CHOOSE s \in SetToSeqs(OnQueue(d)) : Follows(s, d)

Contract == INSTANCE Rendezvous WITH
  queue   <- [d \in Proc |-> Queue(d)],
  waiting <- p_recvfrom,
  buffer  <- msg,
  halted  <- stopped # "no"

(* Ipc, with its process table, implements the rendezvous contract: FIFO   *)
(* queues, the named sender, the message handed over, and a halt exactly   *)
(* when a circle of senders would close.                                   *)
Refines == Contract!Contract

(* One turn of the loop of deadlock() at each process p, and what the rest *)
(* of the turns answer: "found" is return 1, "none" return 0, "loops" that *)
(* it is still going.                                                      *)
Turn(src, rest) ==
  [p \in Proc |-> IF ~Sending(p) THEN "none"
                  ELSE IF p_sendto[p] = src THEN "found"
                  ELSE rest[p_sendto[p]]]

(* What the loop, as the code runs it, answers from each process within as *)
(* many turns as there are processes.                                      *)
DeadlockLoop(src) ==
  LET within[n \in 0..Cardinality(Proc)] ==
        IF n = 0 THEN [p \in Proc |-> "loops"] ELSE Turn(src, within[n - 1])
  IN  within[Cardinality(Proc)]

(* Whenever a running process may send, the `while (1)' of deadlock()      *)
(* ends, after no more turns than there are processes, with the answer of  *)
(* the reachability definition `deadlock' that Ipc uses.                   *)
DeadlockWalkEnds ==
  \A src, dest \in Proc :
    Running(src) /\ src # dest =>
      DeadlockLoop(src)[dest] = IF deadlock(src, dest) THEN "found" ELSE "none"

=============================================================================
