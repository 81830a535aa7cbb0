-------------------------------- MODULE Ipc --------------------------------
(***************************************************************************)
(* The message-passing core of the kernel: kernel/proc.c, sys_sendrec()    *)
(* and what it calls.  A process calls SEND or RECEIVE; the kernel either  *)
(* copies the message at once, or blocks the caller until its partner      *)
(* calls.  Senders that wait for one destination form a linked list:       *)
(* q_sending of the destination points to the first, next_sending of each  *)
(* to the one behind it.                                                   *)
(*                                                                         *)
(* A system call is one step.  Interrupts are enabled while it runs, but a *)
(* clock interrupt that finds k_reenter # 0 returns before schedule()      *)
(* (kernel/clock.c), so no other process enters the kernel before the call *)
(* has finished.  Any runnable process may make the next call: which one   *)
(* schedule() picks is the subject of module Scheduler.                    *)
(*                                                                         *)
(* has_int_msg is zero from kernel_main() on, because nothing in the       *)
(* source sets it, so the branch of msg_receive() that it guards is dead   *)
(* and left out; no caller passes INTERRUPT or its own index.              *)
(***************************************************************************)

CONSTANTS Proc,     \* the indices of proc_table
          Body,     \* what a message carries besides its source
          ANY,      \* the source of a RECEIVE that takes any sender
          NO_TASK,  \* p_recvfrom and p_sendto of a process not waiting
          NULL,     \* the null pointer
          Blank     \* the body of a message buffer cleared with memset()

ASSUME IpcAssumption ==
  /\ ANY \notin Proc
  /\ NO_TASK \notin Proc \cup {ANY}
  /\ NULL \notin Proc

VARIABLES p_flags,       \* the flags set in PROCESS.p_flags; {} is runnable
          p_msg,         \* whose message buffer PROCESS.p_msg points to
          p_recvfrom,    \* from whom the process waits to receive
          p_sendto,      \* to whom the process waits to send
          q_sending,     \* first process of the queue of senders
          next_sending,  \* the next one in the queue the process is in
          msg,           \* contents of the MESSAGE each process passes
          stopped        \* how the machine has stopped, if it has

vars == <<p_flags, p_msg, p_recvfrom, p_sendto, q_sending, next_sending,
          msg, stopped>>

SENDING   == "SENDING"
RECEIVING == "RECEIVING"

MESSAGE == [source : Proc, body : Body \cup {Blank}]

(* Run states of the machine.  A panic() ends in ud2 and hlt; a failed     *)
(* assert() in the kernel spins for ever with k_reenter >= 0.              *)
StopState == {"no", "panic", "assert"}

Init ==
  /\ p_flags      = [p \in Proc |-> {}]
  /\ p_msg        = [p \in Proc |-> NULL]
  /\ p_recvfrom   = [p \in Proc |-> NO_TASK]
  /\ p_sendto     = [p \in Proc |-> NO_TASK]
  /\ q_sending    = [p \in Proc |-> NULL]
  /\ next_sending = [p \in Proc |-> NULL]
  /\ msg          = [p \in Proc |-> [source |-> p, body |-> Blank]]
  /\ stopped      = "no"

-----------------------------------------------------------------------------
(***************************************************************************)
(* Reading the process table.                                              *)
(***************************************************************************)

Sending(p)   == SENDING \in p_flags[p]
Receiving(p) == RECEIVING \in p_flags[p]

(* The caller of a system call: the machine is up and the process runs.    *)
Running(p) == stopped = "no" /\ p_flags[p] = {}

(* None of the four fields msg_send() and msg_receive() assert on is set.  *)
Idle(p) ==
  /\ p_flags[p] = {}
  /\ p_msg[p] = NULL
  /\ p_recvfrom[p] = NO_TASK
  /\ p_sendto[p] = NO_TASK

(* A set that the queue walk `p = p->next_sending' does not leave.         *)
ClosedUnderNext(S) ==
  \A p \in S : next_sending[p] # NULL => next_sending[p] \in S

(* The processes a walk from q_sending of d along next_sending meets.      *)
OnQueue(d) ==
  {p \in Proc : /\ q_sending[d] # NULL
                /\ \A S \in SUBSET Proc :
                     q_sending[d] \in S /\ ClosedUnderNext(S) => p \in S}

(* Where the walk of msg_send() stops: the last process of the queue.      *)
LastOf(d) == CHOOSE p \in OnQueue(d) : next_sending[p] = NULL

(* Where the walk of msg_receive() leaves prev: the process before `from'. *)
PrevOf(d, from) == CHOOSE p \in OnQueue(d) : next_sending[p] = from

(* Mutant of deadlock: looks at the destination only, not along the chain. *)
deadlock_DirectOnly(src, dest) == Sending(dest) /\ p_sendto[dest] = src

(* deadlock(): following p_sendto from dest through processes that are     *)
(* SENDING leads to src, i.e. every set that contains dest and that the    *)
(* walk does not leave contains src.                                       *)
deadlock(src, dest) ==
  \A S \in SUBSET Proc :
    (dest \in S /\ \A p \in S : Sending(p) => p_sendto[p] \in S) => src \in S

-----------------------------------------------------------------------------
(***************************************************************************)
(* msg_send(): p sends a message with body b to dest.  The caller has      *)
(* filled its buffer; sys_sendrec() writes its index into the source field *)
(* before anything else.                                                   *)
(***************************************************************************)

(* A buffer of p as sys_sendrec() passes it on: mla->source = caller.      *)
Outgoing(p, b) == [source |-> p, body |-> b]

(* Mutant of WaitsFor: forgets to compare p_recvfrom.                      *)
WaitsFor_Anyone(dest, p) == Receiving(dest)

(* The destination is blocked in a RECEIVE that accepts p.                 *)
WaitsFor(dest, p) == Receiving(dest) /\ p_recvfrom[dest] \in {p, ANY}

(* The message would close a cycle of senders: panic().                    *)
SendPanics(p, dest, b) ==
  /\ deadlock(p, dest)
  /\ msg' = [msg EXCEPT ![p] = Outgoing(p, b)]
  /\ stopped' = "panic"
  /\ UNCHANGED <<p_flags, p_msg, p_recvfrom, p_sendto, q_sending,
                 next_sending>>

(* dest is waiting for the message: copy it and unblock dest.              *)
SendDelivers(p, dest, b) ==
  /\ ~deadlock(p, dest)
  /\ WaitsFor(dest, p)
  /\ msg' = [msg EXCEPT ![p] = Outgoing(p, b),
                        ![p_msg[dest]] = Outgoing(p, b)]
  /\ p_msg' = [p_msg EXCEPT ![dest] = NULL]
  /\ p_flags' = [p_flags EXCEPT ![dest] = @ \ {RECEIVING}]
  /\ p_recvfrom' = [p_recvfrom EXCEPT ![dest] = NO_TASK]
  /\ UNCHANGED <<p_sendto, q_sending, next_sending>>
  /\ stopped' = IF p_msg[dest] # NULL /\ Idle(dest)' /\ Idle(p)'
                THEN stopped ELSE "assert"

(* Mutant of SendBlocks: the caller is put at the front of the queue.      *)
SendBlocks_Front(p, dest, b) ==
  /\ ~deadlock(p, dest)
  /\ ~WaitsFor(dest, p)
  /\ msg' = [msg EXCEPT ![p] = Outgoing(p, b)]
  /\ p_flags' = [p_flags EXCEPT ![p] = @ \cup {SENDING}]
  /\ p_sendto' = [p_sendto EXCEPT ![p] = dest]
  /\ p_msg' = [p_msg EXCEPT ![p] = p]
  /\ q_sending' = [q_sending EXCEPT ![dest] = p]
  /\ next_sending' = [next_sending EXCEPT ![p] = q_sending[dest]]
  /\ UNCHANGED <<p_recvfrom, stopped>>

(* Mutant of SendBlocks: `p_dest->p_sendto = dest' instead of sender's.    *)
SendBlocks_WrongSlot(p, dest, b) ==
  /\ ~deadlock(p, dest)
  /\ ~WaitsFor(dest, p)
  /\ msg' = [msg EXCEPT ![p] = Outgoing(p, b)]
  /\ p_flags' = [p_flags EXCEPT ![p] = @ \cup {SENDING}]
  /\ p_sendto' = [p_sendto EXCEPT ![dest] = dest]
  /\ p_msg' = [p_msg EXCEPT ![p] = p]
  /\ q_sending' = [q_sending EXCEPT ![dest] = p]
  /\ UNCHANGED <<next_sending, p_recvfrom, stopped>>

(* dest is not waiting for it: block the caller at the end of dest's queue *)
SendBlocks(p, dest, b) ==
  /\ ~deadlock(p, dest)
  /\ ~WaitsFor(dest, p)
  /\ msg' = [msg EXCEPT ![p] = Outgoing(p, b)]
  /\ p_flags' = [p_flags EXCEPT ![p] = @ \cup {SENDING}]
  /\ p_sendto' = [p_sendto EXCEPT ![p] = dest]
  /\ p_msg' = [p_msg EXCEPT ![p] = p]
  /\ IF q_sending[dest] # NULL
     THEN /\ next_sending' = [next_sending EXCEPT ![LastOf(dest)] = p,
                                                  ![p] = NULL]
          /\ UNCHANGED q_sending
     ELSE /\ q_sending' = [q_sending EXCEPT ![dest] = p]
          /\ next_sending' = [next_sending EXCEPT ![p] = NULL]
  /\ stopped' = IF p_flags'[p] = {SENDING} /\ p_recvfrom[p] = NO_TASK
                THEN stopped ELSE "assert"
  /\ UNCHANGED p_recvfrom

Send(p, dest, b) ==
  /\ Running(p)
  /\ \/ SendPanics(p, dest, b)
     \/ SendDelivers(p, dest, b)
     \/ SendBlocks(p, dest, b)

-----------------------------------------------------------------------------
(***************************************************************************)
(* msg_receive(): p receives from src, a process or ANY, into a buffer     *)
(* with body b: sys_sendrec() has written p into its source, and           *)
(* send_recv() has cleared the rest if the call is a RECEIVE, not if it is *)
(* the second half of BOTH, whose buffer still holds what it sent.         *)
(***************************************************************************)

(* The sender the message is fetched from, when there is one.              *)
SenderFor(p, src) == IF src = ANY THEN q_sending[p] ELSE src

(* Mutant of CopyOk: a named sender is found at the head of the queue only *)
CopyOk_HeadOnly(p, src) ==
  IF src = ANY THEN q_sending[p] # NULL ELSE q_sending[p] = src

(* copyok: ANY takes the first of the queue; a named source has to be      *)
(* blocked sending to p.                                                   *)
CopyOk(p, src) ==
  IF src = ANY THEN q_sending[p] # NULL
               ELSE Sending(src) /\ p_sendto[src] = p

(* The assertions on the caller and on the sender before the copy.         *)
FetchAsserts(p, from) ==
  /\ Idle(p)
  /\ q_sending[p] # NULL
  /\ p_flags[from] = {SENDING}
  /\ p_msg[from] # NULL
  /\ p_recvfrom[from] = NO_TASK
  /\ p_sendto[from] = p

(* Mutant of Unlink: prev is not linked to the sender behind `from'.       *)
Unlink_NoRelink(p, from) ==
  IF q_sending[p] = from
  THEN /\ q_sending' = [q_sending EXCEPT ![p] = next_sending[from]]
       /\ next_sending' = [next_sending EXCEPT ![from] = NULL]
  ELSE /\ next_sending' = [next_sending EXCEPT ![PrevOf(p, from)] = NULL,
                                               ![from] = NULL]
       /\ UNCHANGED q_sending

(* Take `from' out of the queue of p.                                      *)
Unlink(p, from) ==
  IF q_sending[p] = from
  THEN /\ q_sending' = [q_sending EXCEPT ![p] = next_sending[from]]
       /\ next_sending' = [next_sending EXCEPT ![from] = NULL]
  ELSE /\ next_sending' = [next_sending EXCEPT
                             ![PrevOf(p, from)] = next_sending[from],
                             ![from] = NULL]
       /\ UNCHANGED q_sending

(* Mutant of ReceiveFetches: `p_from->p_msg = 0' is forgotten.             *)
ReceiveFetches_KeepsMsg(p, src) ==
  LET from == SenderFor(p, src) IN
  /\ CopyOk(p, src)
  /\ Unlink(p, from)
  /\ msg' = [msg EXCEPT ![p] = msg[p_msg[from]]]
  /\ p_sendto' = [p_sendto EXCEPT ![from] = NO_TASK]
  /\ p_flags' = [p_flags EXCEPT ![from] = @ \ {SENDING}]
  /\ stopped' = IF FetchAsserts(p, from) THEN stopped ELSE "assert"
  /\ UNCHANGED <<p_msg, p_recvfrom>>

(* Mutant of ReceiveFetches: unblocks the head of the queue, whoever the   *)
(* message was fetched from.                                               *)
ReceiveFetches_WakesHead(p, src) ==
  LET from == SenderFor(p, src) IN
  /\ CopyOk(p, src)
  /\ Unlink(p, from)
  /\ msg' = [msg EXCEPT ![p] = msg[p_msg[from]]]
  /\ p_msg' = [p_msg EXCEPT ![from] = NULL]
  /\ p_sendto' = [p_sendto EXCEPT ![from] = NO_TASK]
  /\ p_flags' = [p_flags EXCEPT ![q_sending[p]] = @ \ {SENDING}]
  /\ UNCHANGED <<p_recvfrom, stopped>>

(* A sender is waiting: unlink it, copy its message and unblock it.        *)
ReceiveFetches(p, src) ==
  LET from == SenderFor(p, src) IN
  /\ CopyOk(p, src)
  /\ Unlink(p, from)
  /\ msg' = [msg EXCEPT ![p] = msg[p_msg[from]]]
  /\ p_msg' = [p_msg EXCEPT ![from] = NULL]
  /\ p_sendto' = [p_sendto EXCEPT ![from] = NO_TASK]
  /\ p_flags' = [p_flags EXCEPT ![from] = @ \ {SENDING}]
  /\ stopped' = IF FetchAsserts(p, from) /\ p_flags'[from] = {}
                THEN stopped ELSE "assert"
  /\ UNCHANGED p_recvfrom

(* Nobody is sending: block the caller until somebody does.                *)
ReceiveBlocks(p, src, b) ==
  /\ ~CopyOk(p, src)
  /\ msg' = [msg EXCEPT ![p] = Outgoing(p, b)]
  /\ p_flags' = [p_flags EXCEPT ![p] = @ \cup {RECEIVING}]
  /\ p_msg' = [p_msg EXCEPT ![p] = p]
  /\ p_recvfrom' = [p_recvfrom EXCEPT ![p] = src]
  /\ stopped' = IF p_flags'[p] = {RECEIVING} /\ p_sendto[p] = NO_TASK
                THEN stopped ELSE "assert"
  /\ UNCHANGED <<p_sendto, q_sending, next_sending>>

Receive(p, src, b) ==
  /\ Running(p)
  /\ \/ ReceiveFetches(p, src)
     \/ ReceiveBlocks(p, src, b)

-----------------------------------------------------------------------------
Next ==
  \E p \in Proc :
    \/ \E dest \in Proc \ {p}, b \in Body : Send(p, dest, b)
    \/ \E src \in (Proc \ {p}) \cup {ANY}, b \in {Blank, msg[p].body} :
         Receive(p, src, b)

Spec == Init /\ [][Next]_vars

-----------------------------------------------------------------------------
(***************************************************************************)
(* Properties.                                                             *)
(***************************************************************************)

(* Every field of the process table holds a value of its kind.             *)
TypeOK ==
  /\ p_flags \in [Proc -> SUBSET {SENDING, RECEIVING}]
  /\ p_msg \in [Proc -> Proc \cup {NULL}]
  /\ p_recvfrom \in [Proc -> Proc \cup {ANY, NO_TASK}]
  /\ p_sendto \in [Proc -> Proc \cup {NO_TASK}]
  /\ q_sending \in [Proc -> Proc \cup {NULL}]
  /\ next_sending \in [Proc -> Proc \cup {NULL}]
  /\ msg \in [Proc -> MESSAGE]
  /\ stopped \in StopState

(* The processes blocked in a SEND to d.                                   *)
SendersTo(d) == {p \in Proc : Sending(p) /\ p_sendto[p] = d}

(* The linked list of d holds exactly the processes blocked in a SEND to   *)
(* d: the append of msg_send() and the unlinking of msg_receive(), at the  *)
(* head and in the middle, neither lose a sender nor leave a stale one.    *)
QueueIntegrity == \A d \in Proc : OnQueue(d) = SendersTo(d)

(* No assertion of msg_send() and msg_receive() ever fails.                *)
AssertsHold == stopped # "assert"

(* What deadlock() is for: the processes blocked in a SEND never wait for  *)
(* each other in a circle, of whatever length.                             *)
SendGraphAcyclic ==
  \A S \in SUBSET Proc :
    S # {} => \E p \in S : ~(Sending(p) /\ p_sendto[p] \in S)

(* Two processes that want to meet do meet: nobody is blocked in a SEND to *)
(* a process that is blocked in a RECEIVE accepting that sender.           *)
NoMissedRendezvous ==
  \A p, d \in Proc : ~(p \in SendersTo(d) /\ WaitsFor(d, p))

(* A SEND that had blocked returns only in the step in which its message,  *)
(* as it was when the sender blocked, has been copied to the process it    *)
(* was sent to.                                                            *)
HandedOver ==
  \A p \in Proc :
    Sending(p) /\ ~Sending(p)' => /\ p_sendto[p] \in Proc
                                  /\ msg'[p_sendto[p]] = msg[p]
                                  /\ msg'[p] = msg[p]
SendReturnsDelivered == [][HandedOver]_vars

(* A RECEIVE that had blocked returns with a message of a process it asked *)
(* for, and never with the buffer it blocked with.                         *)
AskedFor ==
  \A p \in Proc :
    Receiving(p) /\ ~Receiving(p)' =>
      /\ msg'[p].source \in Proc \ {p}
      /\ p_recvfrom[p] \in {msg'[p].source, ANY}
      /\ msg'[p].body \in Body
ReceiveReturnsAsked == [][AskedFor]_vars

(* A call of one process changes what a blocked process waits for, or the  *)
(* buffer it passed, only by completing that process's call.               *)
Undisturbed ==
  \A p \in Proc :
    p_flags[p] # {} /\ p_flags'[p] = p_flags[p] =>
      /\ p_msg'[p] = p_msg[p]
      /\ p_recvfrom'[p] = p_recvfrom[p]
      /\ p_sendto'[p] = p_sendto[p]
      /\ msg'[p] = msg[p]
BlockedUndisturbed == [][Undisturbed]_vars

=============================================================================
