----------------------------- MODULE Rendezvous -----------------------------
(***************************************************************************)
(* What SEND and RECEIVE promise to their callers, with no process table:  *)
(* a rendezvous of a sender and a receiver.  Each process has one queue of *)
(* blocked senders, served in the order in which they called, except that  *)
(* a receiver may name one of them.  A SEND that would close a circle of   *)
(* blocked senders halts the machine instead of blocking.                  *)
(*                                                                         *)
(* Comments of kernel/proc.c state this contract: 280-282 (msg_send),      *)
(* 360-362 (msg_receive), 238-242 (deadlock).  Module IpcRefinement says   *)
(* how Ipc implements it.                                                  *)
(***************************************************************************)
EXTENDS SequencesExt

CONSTANTS Proc, Body, ANY, NO_TASK, Blank

VARIABLES queue,    \* queue[d]: the processes blocked in a SEND to d, in order
          waiting,  \* from whom p is blocked to receive, or NO_TASK
          buffer,   \* the message each process passes or has received
          halted    \* the machine has stopped

abstract == <<queue, waiting, buffer, halted>>

InQueue(p) == \E d \in Proc : p \in ToSet(queue[d])
CanCall(p) == ~halted /\ ~InQueue(p) /\ waiting[p] = NO_TASK

(* With p waiting for dest, some processes wait for each other in a circle *)
Circle(p, dest) ==
  LET waitFor == [d \in Proc |-> ToSet(queue[d]) \cup IF d = dest THEN {p} ELSE {}]
  IN  \E S \in (SUBSET Proc) \ {{}} : \A x \in S : \E y \in S : x \in waitFor[y]

Start ==
  /\ queue = [p \in Proc |-> <<>>]
  /\ waiting = [p \in Proc |-> NO_TASK]
  /\ buffer = [p \in Proc |-> [source |-> p, body |-> Blank]]
  /\ halted = FALSE

(* The receiver is there: it gets the message and both go on.              *)
Hand(p, dest, m) ==
  /\ waiting[dest] \in {p, ANY}
  /\ buffer' = [buffer EXCEPT ![p] = m, ![dest] = m]
  /\ waiting' = [waiting EXCEPT ![dest] = NO_TASK]
  /\ UNCHANGED <<queue, halted>>

(* It is not: the sender joins the end of the queue.                       *)
Join(p, dest, m) ==
  /\ waiting[dest] \notin {p, ANY}
  /\ buffer' = [buffer EXCEPT ![p] = m]
  /\ ~Circle(p, dest)
  /\ queue' = [queue EXCEPT ![dest] = Append(@, p)]
  /\ UNCHANGED <<waiting, halted>>

Halt(p, dest, m) ==
  /\ halted' = TRUE
  /\ buffer' = [buffer EXCEPT ![p] = m]
  /\ Circle(p, dest)
  /\ UNCHANGED <<queue, waiting>>

(* Take the first sender, or the one the receiver names.                   *)
Take(p, src) ==
  \E n \in 1..Len(queue[p]) :
    /\ IF src = ANY THEN n = 1 ELSE src = queue[p][n]
    /\ queue' = [queue EXCEPT ![p] = RemoveAt(@, n)]
    /\ buffer' = [buffer EXCEPT ![p] = buffer[queue[p][n]]]
    /\ UNCHANGED <<waiting, halted>>

Wait(p, src) ==
  /\ IF src = ANY THEN queue[p] = <<>> ELSE src \notin ToSet(queue[p])
  /\ waiting' = [waiting EXCEPT ![p] = src]
  /\ \E b \in {Blank, buffer[p].body} :
       buffer' = [buffer EXCEPT ![p] = [source |-> p, body |-> b]]
  /\ UNCHANGED <<queue, halted>>

Call(p) ==
  /\ CanCall(p)
  /\ \/ \E dest \in Proc \ {p}, b \in Body :
          LET m == [source |-> p, body |-> b]
          IN  Hand(p, dest, m) \/ Join(p, dest, m) \/ Halt(p, dest, m)
     \/ \E src \in (Proc \ {p}) \cup {ANY} : Take(p, src) \/ Wait(p, src)

Contract == Start /\ [][\E p \in Proc : Call(p)]_abstract

=============================================================================
