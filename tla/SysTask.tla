------------------------------ MODULE SysTask ------------------------------
(***************************************************************************)
(* The system task and the processes that ask it for the time, on top of   *)
(* the message passing of module Ipc: task_sys() of kernel/systask.c,      *)
(* get_ticks() of kernel/main.c, milli_delay() and the counter of          *)
(* clock_handler() of kernel/clock.c.                                      *)
(*                                                                         *)
(* A client sends a request and then, in a second system call, receives    *)
(* the answer: send_recv(BOTH, ...) is two calls, and anything may happen  *)
(* in between.  One process may be preempted between any two of its steps. *)
(***************************************************************************)
EXTENDS Ipc, Naturals, FiniteSets

CONSTANTS TASK_SYS,   \* the index of the system task
          Clients,    \* the processes that call get_ticks()
          Delay,      \* ticks that milli_delay() waits for
          MaxTicks    \* bound on the clock

ASSUME SysTaskAssumption ==
  /\ TASK_SYS \in Proc
  /\ Clients \subseteq Proc \ {TASK_SYS}
  /\ Delay \in Nat /\ MaxTicks \in Nat

VARIABLES ticks,   \* the global clock
          pc,      \* what each process does next
          t,       \* the local of milli_delay(): ticks at its start
          from     \* ghost: the clock when the client's calls began

sysVars == <<ticks, pc, t, from>>
allVars == <<vars, sysVars>>

(* The two fields of a message that matter here: type and RETVAL.          *)
GET_TICKS == "GET_TICKS"
Bodies    == [type : {GET_TICKS}, retval : 0 .. MaxTicks]
Request   == [type |-> GET_TICKS, retval |-> 0]

ASSUME BodyAssumption == Body = Bodies /\ Blank \notin Bodies

Participants == Clients \cup {TASK_SYS}

SysInit ==
  /\ Init
  /\ ticks = 0
  /\ pc = [p \in Proc |-> IF p = TASK_SYS THEN "receive" ELSE "idle"]
  /\ t = [p \in Clients |-> 0]
  /\ from = [p \in Clients |-> [get |-> 0, delay |-> 0]]

Goes(p, here, there) == pc[p] = here /\ pc' = [pc EXCEPT ![p] = there]

(* clock_handler(): ticks++                                                *)
Tick ==
  /\ stopped = "no" /\ ticks < MaxTicks
  /\ ticks' = ticks + 1
  /\ UNCHANGED <<vars, pc, t, from>>

-----------------------------------------------------------------------------
(***************************************************************************)
(* task_sys().                                                             *)
(***************************************************************************)

SysReceives ==
  /\ Goes(TASK_SYS, "receive", "serve")
  /\ Receive(TASK_SYS, ANY, Blank)
  /\ UNCHANGED <<ticks, t, from>>

(* Mutant of SysServes: RETVAL is left as the client sent it.            *)
SysServes_Caches ==
  /\ Goes(TASK_SYS, "serve", "reply")
  /\ Running(TASK_SYS)
  /\ UNCHANGED <<vars, ticks, t, from>>

(* switch (msg.type): read the clock, or panic().                          *)
SysServes ==
  /\ Goes(TASK_SYS, "serve", "reply")
  /\ Running(TASK_SYS)
  /\ IF msg[TASK_SYS].body # Blank /\ msg[TASK_SYS].body.type = GET_TICKS
     THEN /\ msg' = [msg EXCEPT ![TASK_SYS].body.retval = ticks]
          /\ UNCHANGED stopped
     ELSE /\ stopped' = "panic"
          /\ UNCHANGED msg
  /\ UNCHANGED <<p_flags, p_msg, p_recvfrom, p_sendto, q_sending,
                 next_sending, ticks, t, from>>

(* Mutant of SysReplies: RECEIVE where SEND is meant.                      *)
SysReplies_Receives ==
  /\ Goes(TASK_SYS, "reply", "receive")
  /\ Receive(TASK_SYS, msg[TASK_SYS].source, Blank)
  /\ UNCHANGED <<ticks, t, from>>

(* Mutant of SysReplies: `msg.RETVAL = ticks' without the SEND of a reply. *)
SysReplies_Never ==
  /\ Goes(TASK_SYS, "reply", "receive")
  /\ Running(TASK_SYS)
  /\ UNCHANGED <<vars, ticks, t, from>>

(* send_recv(SEND, src, &msg): src is the source of the request.           *)
SysReplies ==
  /\ Goes(TASK_SYS, "reply", "receive")
  /\ Send(TASK_SYS, msg[TASK_SYS].source, msg[TASK_SYS].body)
  /\ UNCHANGED <<ticks, t, from>>

-----------------------------------------------------------------------------
(***************************************************************************)
(* A client: milli_delay() calls get_ticks() once for t, then until Delay  *)
(* ticks have passed.                                                      *)
(***************************************************************************)

(* milli_delay() begins: its first get_ticks().                            *)
StartDelay(p) ==
  /\ Goes(p, "idle", "ask first")
  /\ Running(p)
  /\ from' = [from EXCEPT ![p] = [get |-> ticks, delay |-> ticks]]
  /\ UNCHANGED <<vars, ticks, t>>

(* The SEND half of BOTH, for the first answer or a later one.             *)
Ask(p) ==
  /\ Goes(p, "ask first", "get first") \/ Goes(p, "ask", "get")
  /\ Send(p, TASK_SYS, Request)
  /\ UNCHANGED <<ticks, t, from>>

(* Mutant of Get: `SEND' for `BOTH', the answer is never received.         *)
Get_Skipped(p) ==
  /\ Goes(p, "get first", "note") \/ Goes(p, "get", "compare")
  /\ Running(p)
  /\ UNCHANGED <<vars, ticks, t, from>>

(* The RECEIVE half.                                                       *)
Get(p) ==
  /\ Goes(p, "get first", "note") \/ Goes(p, "get", "compare")
  /\ Receive(p, TASK_SYS, msg[p].body)
  /\ UNCHANGED <<ticks, t, from>>

(* t = get_ticks(), and the next get_ticks() begins.                       *)
Note(p) ==
  /\ Goes(p, "note", "ask")
  /\ Running(p)
  /\ t' = [t EXCEPT ![p] = msg[p].body.retval]
  /\ from' = [from EXCEPT ![p].get = ticks]
  /\ UNCHANGED <<vars, ticks>>

(* Mutant of KeepWaiting: t is taken anew each time round the loop.        *)
KeepWaiting_Restarts(p) ==
  /\ Goes(p, "compare", "ask first")
  /\ Running(p)
  /\ msg[p].body.retval - t[p] < Delay
  /\ from' = [from EXCEPT ![p].get = ticks]
  /\ UNCHANGED <<vars, ticks, t>>

(* (get_ticks() - t) * 1000 / HZ < milli_sec: ask again.                   *)
KeepWaiting(p) ==
  /\ Goes(p, "compare", "ask")
  /\ Running(p)
  /\ msg[p].body.retval - t[p] < Delay
  /\ from' = [from EXCEPT ![p].get = ticks]
  /\ UNCHANGED <<vars, ticks, t>>

(* Mutant of DelayEnds: t is not subtracted.                               *)
DelayEnds_Early(p) ==
  /\ Goes(p, "compare", "idle")
  /\ Running(p)
  /\ ~(msg[p].body.retval < Delay)
  /\ UNCHANGED <<vars, ticks, t, from>>

DelayEnds(p) ==
  /\ Goes(p, "compare", "idle")
  /\ Running(p)
  /\ ~(msg[p].body.retval - t[p] < Delay)
  /\ UNCHANGED <<vars, ticks, t, from>>

Client(p) ==
  StartDelay(p) \/ Ask(p) \/ Get(p) \/ Note(p) \/ KeepWaiting(p) \/ DelayEnds(p)

Sys == SysReceives \/ SysServes \/ SysReplies

SysNext == Tick \/ Sys \/ \E p \in Clients : Client(p)

SysSpec == SysInit /\ [][SysNext]_allVars

(* A process that can run gets to run: Scheduler!NoStarvation.             *)
FairSysSpec ==
  SysSpec /\ WF_allVars(Sys) /\ \A p \in Clients : WF_allVars(Client(p))

-----------------------------------------------------------------------------
(***************************************************************************)
(* Properties.                                                             *)
(***************************************************************************)

(* The protocol of get_ticks() and task_sys() never makes the kernel       *)
(* panic: no deadlock is reported, no unknown message arrives, and no      *)
(* assertion fails.                                                        *)
NeverStops == stopped = "no"

(* The client has its answer.                                              *)
Answered(p) == pc[p] \in {"note", "compare"} /\ p_flags[p] = {}

(* A client gets the answer to its own request: the clock at some moment   *)
(* between its call of get_ticks() and its return, never one read for      *)
(* another client or for an earlier call.                                  *)
AnswerIsFresh ==
  \A p \in Clients : Answered(p) =>
    /\ msg[p].source = TASK_SYS
    /\ msg[p].body.retval \in from[p].get .. ticks

(* milli_delay() never returns before its time is over.                    *)
DelayIsLongEnough ==
  [][\A p \in Clients : DelayEnds(p) => ticks - from[p].delay >= Delay]_allVars

(* Whom a blocked process waits for: the destination of a SEND, or the one *)
(* process that a RECEIVE names.                                           *)
WaitingFor(p) ==
  IF Sending(p) THEN p_sendto[p]
  ELSE IF Receiving(p) /\ p_recvfrom[p] # ANY THEN p_recvfrom[p] ELSE NO_TASK

(* Nobody waits in a circle.  deadlock() looks at blocked senders only; a  *)
(* circle through a RECEIVE is excluded by the protocol alone.             *)
NoWaitCircle ==
  \A S \in SUBSET Participants :
    S # {} => \E p \in S : WaitingFor(p) \notin S

(* Every call of get_ticks() returns, even when the answer is ready before *)
(* the client has called RECEIVE and the system task blocks in its SEND.   *)
CallsReturn ==
  \A p \in Clients : pc[p] \in {"ask first", "ask"} ~> Answered(p)

=============================================================================
