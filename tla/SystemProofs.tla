---------------------------- MODULE SystemProofs ----------------------------
(***************************************************************************)
(* Proofs about modules SysTask and System, for any number of clients, any *)
(* delay and any bound on the clock: the protocol of get_ticks() and       *)
(* task_sys() never stops the machine and never waits in a circle, every   *)
(* answer is fresh, no delay is too short; and the system that schedule()  *)
(* and the clock drive takes only the steps of SysTask.                    *)
(*                                                                         *)
(* The proofs rest on the invariant IInv of module IpcProofs: the steps of *)
(* this protocol are calls of msg_send() and msg_receive().                *)
(***************************************************************************)
EXTENDS System, IpcProofs

Places == {"receive", "serve", "reply", "idle", "ask first", "get first", "note",
           "ask", "get", "compare"}

ProtocolTypeOK ==
  /\ pc \in [Proc -> Places] /\ ticks \in 0 .. MaxTicks
  /\ t \in [Clients -> Int] /\ from \in [Clients -> [get : Int, delay : Int]]

(* The answer to the call that the client p is making now.                 *)
Fresh(p, body) == body \in Bodies /\ body.retval \in from[p].get .. ticks

ClientOK(p) ==
  /\ pc[p] \in {"idle", "ask first", "ask"} => p_flags[p] = {}
  /\ pc[p] \in {"get first", "get"} => p_flags[p] \in {{}, {SENDING}}
  /\ pc[p] \in {"note", "compare"} => p_flags[p] \in {{}, {RECEIVING}}
  /\ pc[p] \notin {"receive", "serve", "reply"}
  /\ Sending(p) => p_sendto[p] = TASK_SYS /\ msg[p] = [source |-> p, body |-> Request]
  /\ Receiving(p) => p_recvfrom[p] = TASK_SYS
  /\ Answered(p) => msg[p].source = TASK_SYS /\ Fresh(p, msg[p].body)

(* The delay began before the call, and before t was read.                 *)
TimesOK(p) ==
  /\ from[p].delay <= from[p].get /\ from[p].get <= ticks
  /\ pc[p] \in {"ask", "get", "compare"} => from[p].delay <= t[p]

(* The request of p has been taken and the answer has not.                 *)
Pending(p) ==
  \/ pc[p] \in {"get first", "get"} /\ p_flags[p] = {}
  \/ pc[p] \in {"note", "compare"} /\ Receiving(p)

(* What the system task has in hand: nothing, or the request of p.         *)
Free ==
  \/ pc[TASK_SYS] = "receive" /\ p_flags[TASK_SYS] = {}
  \/ /\ pc[TASK_SYS] = "serve" /\ p_flags[TASK_SYS] = {RECEIVING}
     /\ p_recvfrom[TASK_SYS] = ANY

InHand(p) ==
  \/ /\ pc[TASK_SYS] = "serve" /\ p_flags[TASK_SYS] = {}
     /\ msg[TASK_SYS] = [source |-> p, body |-> Request]
  \/ /\ pc[TASK_SYS] = "reply" /\ p_flags[TASK_SYS] = {}
     /\ msg[TASK_SYS].source = p /\ Fresh(p, msg[TASK_SYS].body)
  \/ /\ pc[TASK_SYS] = "receive" /\ p_flags[TASK_SYS] = {SENDING}
     /\ p_sendto[TASK_SYS] = p
     /\ msg[TASK_SYS].source = TASK_SYS /\ Fresh(p, msg[TASK_SYS].body)

(* Exactly the client in hand has a request pending.                       *)
TaskOK ==
  \/ Free /\ \A p \in Clients : ~Pending(p)
  \/ \E p \in Clients : InHand(p) /\ \A q \in Clients : Pending(q) <=> q = p

Protocol ==
  /\ ProtocolTypeOK
  /\ \A p \in Clients : ClientOK(p) /\ TimesOK(p)
  /\ TaskOK
  /\ \A p \in Proc \ Participants : p_flags[p] = {}
  /\ stopped = "no"

SInv == IInv /\ Protocol
-----------------------------------------------------------------------------
LEMMA Sizes ==
  /\ TASK_SYS \in Proc /\ Clients \subseteq Proc /\ TASK_SYS \notin Clients
  /\ Delay \in Nat /\ MaxTicks \in Nat
  /\ Request \in Body /\ Body = Bodies /\ Blank \notin Bodies
  /\ ANY \notin Proc /\ NO_TASK \notin Proc /\ NO_TASK # ANY
BY SysTaskAssumption, BodyAssumption, IpcAssumption DEF Request, Bodies

LEMMA InitSystem == SysInit => SInv
<1> SUFFICES ASSUME SysInit PROVE SInv  OBVIOUS
<1>1. IInv
  BY InitInv DEF SysInit
<1>2. ProtocolTypeOK
  BY Sizes DEF SysInit, ProtocolTypeOK, Places
<1>3. ASSUME NEW p \in Clients PROVE pc[p] = "idle" /\ p_flags[p] = {} /\ from[p].get = 0
                                     /\ from[p].delay = 0
  BY Sizes DEF SysInit, Init
<1>4. \A p \in Clients : ClientOK(p) /\ TimesOK(p) /\ ~Pending(p)
  <2> SUFFICES ASSUME NEW p \in Clients PROVE ClientOK(p) /\ TimesOK(p) /\ ~Pending(p)
    OBVIOUS
  <2>1. pc[p] = "idle" /\ ~Sending(p) /\ ~Receiving(p) /\ ticks = 0
    BY <1>3 DEF Sending, Receiving, SysInit
  <2> QED  BY <1>3, <2>1 DEF ClientOK, TimesOK, Pending, Answered
<1>5. Free
  BY Sizes DEF Free, SysInit, Init
<1>6. stopped = "no" /\ \A p \in Proc : p_flags[p] = {}
  BY DEF SysInit, Init
<1> QED  BY <1>1, <1>2, <1>4, <1>5, <1>6 DEF SInv, Protocol, TaskOK

(* What a SEND that closes no circle does.                                 *)
LEMMA SendOutcome ==
  ASSUME IInv, NEW p \in Proc, NEW dest \in Proc \ {p}, NEW b \in Body,
         Send(p, dest, b), ~deadlock(p, dest)
  PROVE  /\ IInv' /\ stopped' = "no"
         /\ \/ /\ WaitsFor(dest, p)
               /\ msg' = [msg EXCEPT ![p] = Outgoing(p, b), ![dest] = Outgoing(p, b)]
               /\ p_flags' = [p_flags EXCEPT ![dest] = {}]
               /\ p_recvfrom' = [p_recvfrom EXCEPT ![dest] = NO_TASK]
               /\ UNCHANGED p_sendto
            \/ /\ ~WaitsFor(dest, p)
               /\ msg' = [msg EXCEPT ![p] = Outgoing(p, b)]
               /\ p_flags' = [p_flags EXCEPT ![p] = {SENDING}]
               /\ p_sendto' = [p_sendto EXCEPT ![p] = dest]
               /\ UNCHANGED p_recvfrom
<1>1. IInv'
  <2>1. Next
    BY DEF Next
  <2> QED  BY <2>1, StepInv
<1>2. stopped = "no" /\ p_flags[p] = {}
  BY DEF Send, Running
<1>3. stopped' = "no"
  BY <1>1, <1>2 DEF Send, SendPanics, SendDelivers, SendBlocks, IInv, AssertsHold
<1>4. CASE SendDelivers(p, dest, b)
  <2>1. p_flags[dest] = {RECEIVING} /\ p_msg[dest] = dest
    BY <1>4 DEF SendDelivers, WaitsFor, IInv, Fields, FieldsOf, Receiving, SENDING, RECEIVING
  <2> QED  BY <1>1, <1>3, <1>4, <2>1 DEF SendDelivers
<1>5. CASE SendBlocks(p, dest, b)
  <2>1. p_flags' = [p_flags EXCEPT ![p] = {SENDING}]
    BY <1>2, <1>5 DEF SendBlocks, IInv, TypeOK
  <2> QED  BY <1>1, <1>3, <1>5, <2>1 DEF SendBlocks
<1> QED  BY <1>4, <1>5 DEF Send, SendPanics

(* What a RECEIVE does.                                                    *)
LEMMA ReceiveOutcome ==
  ASSUME IInv, NEW p \in Proc, NEW src \in (Proc \ {p}) \cup {ANY},
         NEW b \in Body \cup {Blank}, Receive(p, src, b)
  PROVE  /\ IInv' /\ stopped' = "no"
         /\ \/ \E f \in SendersTo(p) :
                 /\ src \in {f, ANY}
                 /\ msg' = [msg EXCEPT ![p] = msg[f]]
                 /\ p_flags' = [p_flags EXCEPT ![f] = {}]
                 /\ p_sendto' = [p_sendto EXCEPT ![f] = NO_TASK]
                 /\ UNCHANGED p_recvfrom
            \/ /\ ~CopyOk(p, src)
               /\ msg' = [msg EXCEPT ![p] = Outgoing(p, b)]
               /\ p_flags' = [p_flags EXCEPT ![p] = {RECEIVING}]
               /\ p_recvfrom' = [p_recvfrom EXCEPT ![p] = src]
               /\ UNCHANGED p_sendto
<1>1. Running(p) /\ stopped = "no" /\ p_flags[p] = {}
  BY DEF Receive, Running
<1>2. CASE ReceiveFetches(p, src)
  <2>1. IInv'
    BY <1>1, <1>2, ReceiveFetchesInv
  <2>2. CopyOk(p, src)
    BY <1>2 DEF ReceiveFetches
  <2>3. PICK f \in SendersTo(p) : f = SenderFor(p, src)
    BY <2>2, FromIsSender
  <2>4. f \in Proc /\ p_flags[f] = {SENDING} /\ p_msg[f] = f /\ p_sendto[f] = p
    BY DEF SendersTo, IInv, Fields, FieldsOf, Sending, SENDING, RECEIVING
  <2>5. /\ src \in {f, ANY}
        /\ msg' = [msg EXCEPT ![p] = msg[f]]
        /\ p_flags' = [p_flags EXCEPT ![f] = {}]
        /\ p_sendto' = [p_sendto EXCEPT ![f] = NO_TASK]
        /\ UNCHANGED p_recvfrom
    BY <1>2, <2>3, <2>4 DEF ReceiveFetches, SenderFor
  <2>6. stopped' = "no"
    BY <1>1, <1>2, <2>1 DEF ReceiveFetches, IInv, AssertsHold
  <2> QED  BY <2>1, <2>5, <2>6
<1>3. CASE ReceiveBlocks(p, src, b)
  <2>1. IInv'
    BY <1>1, <1>3, ReceiveBlocksInv
  <2>2. p_flags' = [p_flags EXCEPT ![p] = {RECEIVING}]
    BY <1>1, <1>3 DEF ReceiveBlocks, IInv, TypeOK
  <2>3. stopped' = "no"
    BY <1>1, <1>3, <2>1 DEF ReceiveBlocks, IInv, AssertsHold
  <2> QED  BY <1>3, <2>1, <2>2, <2>3 DEF ReceiveBlocks
<1> QED  BY <1>2, <1>3 DEF Receive
-----------------------------------------------------------------------------
(* The flags of a process say one thing at a time.                         *)
LEMMA Flags ==
  ASSUME SInv, NEW p \in Proc
  PROVE  /\ p_flags[p] \in {{}, {SENDING}, {RECEIVING}}
         /\ Sending(p) <=> p_flags[p] = {SENDING}
         /\ Receiving(p) <=> p_flags[p] = {RECEIVING}
         /\ {SENDING} # {RECEIVING} /\ {SENDING} # {} /\ {RECEIVING} # {}
BY DEF SInv, IInv, Fields, FieldsOf, Sending, Receiving, SENDING, RECEIVING

(* A client's SEND closes no circle: the system task, if it is sending at  *)
(* all, sends to a client that is not.  Nor does the system task's.        *)
LEMMA NoCircleClosed ==
  ASSUME SInv
  PROVE  /\ \A p \in Clients : p_flags[p] = {} /\ ~Pending(p) => ~deadlock(p, TASK_SYS)
         /\ \A p \in Clients : Pending(p) => ~deadlock(TASK_SYS, p)
<1>1. ASSUME NEW p \in Clients, p_flags[p] = {}, ~Pending(p)
      PROVE  ~deadlock(p, TASK_SYS)
  <2>1. CASE ~Sending(TASK_SYS)
    <3>1. {TASK_SYS} \in SUBSET Proc /\ p \notin {TASK_SYS}
      BY Sizes
    <3> QED  BY <2>1, <3>1 DEF deadlock
  <2>2. CASE Sending(TASK_SYS)
    <3>1. PICK q \in Clients : InHand(q) /\ Pending(q)
      BY <2>2, Flags, Sizes DEF SInv, Protocol, TaskOK, Free
    <3>2. p_sendto[TASK_SYS] = q /\ ~Sending(q) /\ q # p
      BY <1>1, <2>2, <3>1, Flags, Sizes DEF InHand, Pending
    <3>3. {TASK_SYS, q} \in SUBSET Proc /\ p \notin {TASK_SYS, q}
          /\ \A r \in {TASK_SYS, q} : Sending(r) => p_sendto[r] \in {TASK_SYS, q}
      BY <3>2, Sizes
    <3> QED  BY <3>3 DEF deadlock
  <2> QED  BY <2>1, <2>2
<1>2. ASSUME NEW p \in Clients, Pending(p) PROVE ~deadlock(TASK_SYS, p)
  <2>1. ~Sending(p)
    BY <1>2, Flags, Sizes DEF Pending
  <2>2. {p} \in SUBSET Proc /\ TASK_SYS \notin {p}
    BY Sizes
  <2> QED  BY <2>1, <2>2 DEF deadlock
<1> QED  BY <1>1, <1>2

(* What the invariant says of one client.                                  *)
LEMMA ClientFacts ==
  ASSUME SInv, NEW p \in Clients
  PROVE  /\ p \in Proc /\ p # TASK_SYS /\ ClientOK(p) /\ TimesOK(p)
         /\ ticks \in Nat /\ pc \in [Proc -> Places]
         /\ t \in [Clients -> Int] /\ from \in [Clients -> [get : Int, delay : Int]]
         /\ from[p].get \in Int /\ from[p].delay \in Int /\ t[p] \in Int
BY Sizes DEF SInv, Protocol, ProtocolTypeOK

(* The clients that a step leaves alone.                                   *)
LEMMA OthersKept ==
  ASSUME SInv, NEW q \in Clients, pc'[q] = pc[q], p_flags'[q] = p_flags[q],
         p_sendto'[q] = p_sendto[q], p_recvfrom'[q] = p_recvfrom[q], msg'[q] = msg[q],
         t'[q] = t[q], from'[q] = from[q], ticks' \in Int, ticks <= ticks'
  PROVE  ClientOK(q)' /\ TimesOK(q)' /\ (Pending(q)' <=> Pending(q))
<1>1. ticks \in Int /\ from[q].get \in Int /\ from[q].delay \in Int
  BY Sizes DEF SInv, Protocol, ProtocolTypeOK
<1>2. \A b : Fresh(q, b) => Fresh(q, b)'
  BY <1>1, Sizes DEF Fresh, Bodies
<1>3. ClientOK(q) /\ TimesOK(q)
  BY DEF SInv, Protocol
<1>4. ClientOK(q)'
  BY <1>2, <1>3 DEF ClientOK, Answered, Sending, Receiving
<1>5. TimesOK(q)'
  BY <1>1, <1>3 DEF TimesOK
<1> QED  BY <1>4, <1>5 DEF Pending, Receiving

(* A step of the client q alone, outside the kernel: it has no request     *)
(* pending, before or after.                                               *)
LEMMA ClientAlone ==
  ASSUME SInv, NEW q \in Clients, p_flags[q] = {}, ~Pending(q),
         UNCHANGED <<vars, ticks>>, ProtocolTypeOK',
         ~Pending(q)', ClientOK(q)', TimesOK(q)',
         \A p \in Proc \ {q} : pc'[p] = pc[p],
         \A p \in Clients \ {q} : t'[p] = t[p] /\ from'[p] = from[p]
  PROVE  SInv'
<1>1. IInv' /\ stopped' = "no"
  BY StutterInv DEF SInv, Protocol, vars
<1>2. ASSUME NEW p \in Clients \ {q}
      PROVE  ClientOK(p)' /\ TimesOK(p)' /\ (Pending(p)' <=> Pending(p))
             /\ (InHand(p) => InHand(p)')
  <2>1. ticks \in Int
    BY Sizes DEF SInv, Protocol, ProtocolTypeOK
  <2>2. ClientOK(p)' /\ TimesOK(p)' /\ (Pending(p)' <=> Pending(p))
    BY <2>1, Sizes, OthersKept DEF vars
  <2>3. pc'[TASK_SYS] = pc[TASK_SYS] /\ from'[p] = from[p]
    BY Sizes
  <2>4. InHand(p) => InHand(p)'
    BY <2>3 DEF InHand, Fresh, vars
  <2> QED  BY <2>2, <2>4
<1>3. Free => Free'
  BY Sizes DEF Free, vars
<1>4. TaskOK'
  BY <1>2, <1>3 DEF SInv, Protocol, TaskOK
<1> QED  BY <1>1, <1>2, <1>4 DEF SInv, Protocol, vars

(* The steps of a client between its calls.                                *)
LEMMA BetweenCalls ==
  ASSUME SInv, NEW q \in Clients,
         StartDelay(q) \/ Note(q) \/ KeepWaiting(q) \/ DelayEnds(q)
  PROVE  SInv'
<1> DEFINE get == from[q].get
           delay == from[q].delay
<1>1. /\ q \in Proc /\ p_flags[q] = {} /\ UNCHANGED <<vars, ticks>>
      /\ pc[q] \in {"idle", "note", "compare"}
      /\ pc' = [pc EXCEPT ![q] = pc'[q]] /\ pc'[q] \in {"idle", "ask first", "ask"}
  BY Sizes DEF StartDelay, Note, KeepWaiting, DelayEnds, Goes, Running, SInv, Protocol,
               ProtocolTypeOK
<1>2. /\ ticks \in Nat /\ from[q] \in [get : Int, delay : Int] /\ t[q] \in Int
      /\ delay <= get /\ get <= ticks
  BY Sizes DEF SInv, Protocol, ProtocolTypeOK, TimesOK
<1>3. pc[q] \in {"note", "compare"} =>
        msg[q].body.retval \in Int /\ get <= msg[q].body.retval
  <2>1. pc[q] \in {"note", "compare"} => Answered(q)
    BY <1>1 DEF Answered
  <2>2. Answered(q) => Fresh(q, msg[q].body)
    BY ClientFacts DEF ClientOK
  <2> QED  BY <1>2, <2>1, <2>2 DEF Fresh
<1>4. pc[q] = "compare" => delay <= t[q]
  BY DEF SInv, Protocol, TimesOK
<1>5. /\ t' \in [Clients -> Int] /\ from' \in [Clients -> [get : Int, delay : Int]]
      /\ \A p \in Clients \ {q} : t'[p] = t[p] /\ from'[p] = from[p]
      /\ from'[q].delay <= from'[q].get /\ from'[q].get <= ticks
      /\ pc'[q] = "ask" => from'[q].delay <= t'[q]
  <2>1. CASE StartDelay(q)
    <3> DEFINE now == [get |-> ticks, delay |-> ticks]
    <3>1. now \in [get : Int, delay : Int] /\ now.get = ticks /\ now.delay = ticks
      BY <1>2
    <3>2. from' = [from EXCEPT ![q] = now] /\ t' = t /\ pc'[q] = "ask first"
      BY <2>1, ClientFacts DEF StartDelay, Goes
    <3> HIDE DEF now
    <3>3. /\ t \in [Clients -> Int] /\ from \in [Clients -> [get : Int, delay : Int]]
      BY ClientFacts
    <3>4. /\ from' \in [Clients -> [get : Int, delay : Int]] /\ from'[q] = now
          /\ \A p \in Clients \ {q} : from'[p] = from[p]
      BY <3>1, <3>2, <3>3
    <3>5. from'[q].delay = ticks /\ from'[q].get = ticks /\ ticks <= ticks
      BY <1>2, <3>1, <3>4
    <3>6. pc'[q] # "ask"
      BY <3>2
    <3> QED  BY <3>2, <3>3, <3>4, <3>5, <3>6
  <2>2. CASE Note(q)
    BY <1>1, <1>2, <1>3, <2>2 DEF Note, Goes, SInv, Protocol, ProtocolTypeOK
  <2>3. CASE KeepWaiting(q)
    BY <1>1, <1>2, <1>4, <2>3 DEF KeepWaiting, Goes, SInv, Protocol, ProtocolTypeOK
  <2>4. CASE DelayEnds(q)
    BY <1>1, <1>2, <2>4 DEF DelayEnds, Goes, SInv, Protocol, ProtocolTypeOK
  <2> QED  BY <2>1, <2>2, <2>3, <2>4
<1>6. ProtocolTypeOK'
  BY <1>1, <1>5 DEF SInv, Protocol, ProtocolTypeOK, Places
<1>7. ~Pending(q) /\ ~Pending(q)' /\ p_flags'[q] = {}
  BY <1>1, Flags DEF Pending, vars, Receiving
<1>8. ClientOK(q)'
  BY <1>1, <1>7 DEF ClientOK, Answered, Sending, Receiving
<1>9. TimesOK(q)'
  BY <1>1, <1>5 DEF TimesOK
<1>10. \A p \in Proc \ {q} : pc'[p] = pc[p]
  BY <1>1 DEF SInv, Protocol, ProtocolTypeOK
<1> QED  BY <1>1, <1>5, <1>6, <1>7, <1>8, <1>9, <1>10, ClientAlone

(* The clock: what was fresh still is.                                     *)
LEMMA TickKeeps == SInv /\ Tick => SInv'
<1> SUFFICES ASSUME SInv, Tick PROVE SInv'  OBVIOUS
<1>1. /\ ticks \in Nat /\ ticks' = ticks + 1 /\ ticks' \in 0 .. MaxTicks
      /\ UNCHANGED <<vars, pc, t, from>>
  BY Sizes DEF SInv, Protocol, ProtocolTypeOK, Tick
<1>2. IInv'
  BY <1>1, StutterInv DEF SInv
<1>3. ASSUME NEW p \in Clients
      PROVE  /\ ClientOK(p)' /\ TimesOK(p)' /\ (Pending(p)' <=> Pending(p))
             /\ InHand(p) => InHand(p)'
  <2>1. ClientOK(p)' /\ TimesOK(p)' /\ (Pending(p)' <=> Pending(p))
    BY <1>1, OthersKept DEF vars
  <2>2. from[p].get \in Int
    BY DEF SInv, Protocol, ProtocolTypeOK
  <2>3. \A b : Fresh(p, b) => Fresh(p, b)'
    BY <1>1, <2>2, Sizes DEF Fresh, Bodies
  <2>4. InHand(p) => InHand(p)'
    BY <1>1, <2>3 DEF InHand, vars
  <2> QED  BY <2>1, <2>4
<1>4. Free => Free'
  BY <1>1 DEF Free, vars
<1>5. TaskOK'
  BY <1>3, <1>4 DEF SInv, Protocol, TaskOK
<1>6. ProtocolTypeOK'
  BY <1>1 DEF SInv, Protocol, ProtocolTypeOK
<1> QED  BY <1>1, <1>2, <1>3, <1>5, <1>6 DEF SInv, Protocol, vars

(* SEND of a request: it is handed to the waiting task, or waits.          *)
LEMMA AskKeeps == ASSUME SInv, NEW p \in Clients, Ask(p) PROVE SInv'
<1>1. /\ p \in Proc /\ TASK_SYS \in Proc \ {p} /\ Request \in Body
      /\ Send(p, TASK_SYS, Request) /\ p_flags[p] = {} /\ stopped = "no"
      /\ pc[p] \in {"ask first", "ask"}
      /\ pc' = [pc EXCEPT ![p] = IF pc[p] = "ask" THEN "get" ELSE "get first"]
      /\ UNCHANGED <<ticks, t, from>>
  BY Sizes DEF Ask, Send, Running, Goes
<1>2. ~Pending(p)
  BY <1>1 DEF Pending
<1>3. ~deadlock(p, TASK_SYS)
  BY <1>1, <1>2, NoCircleClosed
<1>4. ProtocolTypeOK' /\ pc'[p] \in {"get first", "get"} /\ pc'[TASK_SYS] = pc[TASK_SYS]
      /\ (pc'[p] = "get" => pc[p] = "ask")
      /\ \A q \in Clients \ {p} : pc'[q] = pc[q]
  BY <1>1, Sizes DEF SInv, Protocol, ProtocolTypeOK, Places
<1>5. ticks \in Int /\ TimesOK(p)'
  <2>1. TimesOK(p) /\ ticks \in Int
    BY ClientFacts
  <2> QED  BY <1>1, <1>4, <2>1 DEF TimesOK
<1>6. IInv' /\ stopped' = "no"
  BY <1>1, <1>3, SendOutcome DEF SInv
<1>7. p_flags \in [Proc -> SUBSET {SENDING, RECEIVING}] /\ msg \in [Proc -> MESSAGE]
      /\ p_recvfrom \in [Proc -> Proc \cup {ANY, NO_TASK}]
      /\ p_sendto \in [Proc -> Proc \cup {NO_TASK}]
  BY DEF SInv, IInv, TypeOK
<1>8. CASE /\ WaitsFor(TASK_SYS, p)
           /\ msg' = [msg EXCEPT ![p] = Outgoing(p, Request), ![TASK_SYS] = Outgoing(p, Request)]
           /\ p_flags' = [p_flags EXCEPT ![TASK_SYS] = {}]
           /\ p_recvfrom' = [p_recvfrom EXCEPT ![TASK_SYS] = NO_TASK]
           /\ UNCHANGED p_sendto
  <2>1. pc[TASK_SYS] = "serve" /\ \A q \in Clients : ~Pending(q)
    BY <1>8, Flags, Sizes DEF WaitsFor, SInv, Protocol, TaskOK, Free, InHand
  <2>2. InHand(p)' /\ Pending(p)'
    BY <1>1, <1>4, <1>7, <1>8, <2>1 DEF InHand, Pending, Outgoing
  <2>3. ClientOK(p)'
    BY <1>1, <1>4, <1>7, <1>8 DEF ClientOK, Answered, Sending, Receiving
  <2>4. ASSUME NEW q \in Clients \ {p}
        PROVE  ClientOK(q)' /\ TimesOK(q)' /\ (Pending(q)' <=> Pending(q))
    <3>1. q # TASK_SYS /\ q \in Proc
      BY Sizes
    <3>2. /\ pc'[q] = pc[q] /\ p_flags'[q] = p_flags[q] /\ p_sendto'[q] = p_sendto[q]
          /\ p_recvfrom'[q] = p_recvfrom[q] /\ msg'[q] = msg[q]
          /\ t'[q] = t[q] /\ from'[q] = from[q] /\ ticks' = ticks
      BY <1>1, <1>4, <1>7, <1>8, <3>1
    <3> QED  BY <1>5, <3>2, OthersKept
  <2>5. TaskOK'
    BY <2>1, <2>2, <2>4 DEF TaskOK
  <2>6. \A q \in Proc \ Participants : p_flags'[q] = {}
    BY <1>7, <1>8 DEF SInv, Protocol
  <2> QED  BY <1>4, <1>5, <1>6, <2>3, <2>4, <2>5, <2>6 DEF SInv, Protocol
<1>9. CASE /\ ~WaitsFor(TASK_SYS, p)
           /\ msg' = [msg EXCEPT ![p] = Outgoing(p, Request)]
           /\ p_flags' = [p_flags EXCEPT ![p] = {SENDING}]
           /\ p_sendto' = [p_sendto EXCEPT ![p] = TASK_SYS]
           /\ UNCHANGED p_recvfrom
  <2>1. ClientOK(p)' /\ ~Pending(p)'
    BY <1>1, <1>4, <1>7, <1>9
       DEF ClientOK, Answered, Sending, Receiving, Pending, Outgoing, SENDING, RECEIVING
  <2>2. ASSUME NEW q \in Clients \ {p}
        PROVE  ClientOK(q)' /\ TimesOK(q)' /\ (Pending(q)' <=> Pending(q))
               /\ (InHand(q) => InHand(q)')
    <3>1. q # p /\ q \in Proc /\ TASK_SYS # p
      BY Sizes
    <3>2. InHand(q) => InHand(q)'
      BY <1>1, <1>4, <1>7, <1>9, <3>1 DEF InHand, Fresh
    <3>3. /\ pc'[q] = pc[q] /\ p_flags'[q] = p_flags[q] /\ p_sendto'[q] = p_sendto[q]
          /\ p_recvfrom'[q] = p_recvfrom[q] /\ msg'[q] = msg[q]
          /\ t'[q] = t[q] /\ from'[q] = from[q] /\ ticks' = ticks
      BY <1>1, <1>4, <1>7, <1>9, <3>1
    <3> QED  BY <1>5, <3>2, <3>3, OthersKept
  <2>3. Free => Free'
    BY <1>1, <1>4, <1>7, <1>9 DEF Free
  <2>4. TaskOK'
    BY <1>2, <2>1, <2>2, <2>3 DEF SInv, Protocol, TaskOK
  <2>5. \A q \in Proc \ Participants : p_flags'[q] = {}
    BY <1>7, <1>9 DEF SInv, Protocol, Participants
  <2> QED  BY <1>4, <1>5, <1>6, <2>1, <2>2, <2>4, <2>5 DEF SInv, Protocol
<1> QED  BY <1>1, <1>3, <1>8, <1>9, SendOutcome DEF SInv

(* RECEIVE of the answer: it is there, or will be handed over.             *)
LEMMA GetKeeps == ASSUME SInv, NEW p \in Clients, Get(p) PROVE SInv'
<1>1. /\ p \in Proc /\ TASK_SYS \in Proc \ {p} /\ p_flags[p] = {} /\ stopped = "no"
      /\ Receive(p, TASK_SYS, msg[p].body)
      /\ pc[p] \in {"get first", "get"}
      /\ pc' = [pc EXCEPT ![p] = IF pc[p] = "get" THEN "compare" ELSE "note"]
      /\ UNCHANGED <<ticks, t, from>>
  BY Sizes DEF Get, Receive, Running, Goes
<1>2. Pending(p) /\ msg[p].body \in Body \cup {Blank}
  BY <1>1 DEF Pending, SInv, IInv, TypeOK, MESSAGE
<1>3. InHand(p) /\ \A q \in Clients : Pending(q) <=> q = p
  BY <1>2 DEF SInv, Protocol, TaskOK
<1>4. ProtocolTypeOK' /\ pc'[p] \in {"note", "compare"} /\ pc'[TASK_SYS] = pc[TASK_SYS]
      /\ (pc'[p] = "compare" => pc[p] = "get")
      /\ \A q \in Clients \ {p} : pc'[q] = pc[q]
  BY <1>1, Sizes DEF SInv, Protocol, ProtocolTypeOK, Places
<1>5. ticks \in Int /\ TimesOK(p)'
  <2>1. TimesOK(p) /\ ticks \in Int
    BY ClientFacts
  <2> QED  BY <1>1, <1>4, <2>1 DEF TimesOK
<1>6. IInv' /\ stopped' = "no"
  BY <1>1, <1>2, ReceiveOutcome DEF SInv
<1>7. p_flags \in [Proc -> SUBSET {SENDING, RECEIVING}] /\ msg \in [Proc -> MESSAGE]
      /\ p_recvfrom \in [Proc -> Proc \cup {ANY, NO_TASK}]
      /\ p_sendto \in [Proc -> Proc \cup {NO_TASK}]
  BY DEF SInv, IInv, TypeOK
<1>8. CASE \E f \in SendersTo(p) :
             /\ TASK_SYS \in {f, ANY}
             /\ msg' = [msg EXCEPT ![p] = msg[f]]
             /\ p_flags' = [p_flags EXCEPT ![f] = {}]
             /\ p_sendto' = [p_sendto EXCEPT ![f] = NO_TASK]
             /\ UNCHANGED p_recvfrom
  <2>1. /\ TASK_SYS \in SendersTo(p)
        /\ msg' = [msg EXCEPT ![p] = msg[TASK_SYS]]
        /\ p_flags' = [p_flags EXCEPT ![TASK_SYS] = {}]
        /\ p_sendto' = [p_sendto EXCEPT ![TASK_SYS] = NO_TASK]
        /\ UNCHANGED p_recvfrom
    BY <1>8, Sizes
  <2>2. /\ pc[TASK_SYS] = "receive"
        /\ msg[TASK_SYS].source = TASK_SYS /\ Fresh(p, msg[TASK_SYS].body)
    BY <1>3, <2>1, Flags, Sizes DEF InHand, SendersTo
  <2>3. p_flags'[p] = {} /\ msg'[p] = msg[TASK_SYS]
    BY <1>1, <1>7, <2>1
  <2>4. Fresh(p, msg[p].body)'
    BY <1>1, <2>2, <2>3 DEF Fresh
  <2>5. ClientOK(p)' /\ ~Pending(p)'
    BY <1>4, <2>2, <2>3, <2>4 DEF ClientOK, Answered, Sending, Receiving, Pending
  <2>6. ASSUME NEW q \in Clients \ {p}
        PROVE  ClientOK(q)' /\ TimesOK(q)' /\ (Pending(q)' <=> Pending(q))
    <3>1. q # TASK_SYS /\ q \in Proc
      BY Sizes
    <3>2. /\ pc'[q] = pc[q] /\ p_flags'[q] = p_flags[q] /\ p_sendto'[q] = p_sendto[q]
          /\ p_recvfrom'[q] = p_recvfrom[q] /\ msg'[q] = msg[q]
          /\ t'[q] = t[q] /\ from'[q] = from[q] /\ ticks' = ticks
      BY <1>1, <1>4, <1>7, <2>1, <3>1
    <3> QED  BY <1>5, <3>2, OthersKept
  <2>7. Free'
    BY <1>1, <1>4, <1>7, <2>1, <2>2 DEF Free
  <2>8. TaskOK'
    BY <1>3, <2>5, <2>6, <2>7 DEF TaskOK
  <2>9. \A q \in Proc \ Participants : p_flags'[q] = {}
    BY <1>7, <2>1 DEF SInv, Protocol, Participants
  <2> QED  BY <1>4, <1>5, <1>6, <2>5, <2>6, <2>8, <2>9 DEF SInv, Protocol
<1>9. CASE /\ ~CopyOk(p, TASK_SYS)
           /\ msg' = [msg EXCEPT ![p] = Outgoing(p, msg[p].body)]
           /\ p_flags' = [p_flags EXCEPT ![p] = {RECEIVING}]
           /\ p_recvfrom' = [p_recvfrom EXCEPT ![p] = TASK_SYS]
           /\ UNCHANGED p_sendto
  <2>1. ClientOK(p)' /\ Pending(p)'
    BY <1>1, <1>4, <1>7, <1>9
       DEF ClientOK, Answered, Sending, Receiving, Pending, SENDING, RECEIVING
  <2>2. InHand(p)'
    <3>1. p # TASK_SYS
      BY Sizes
    <3> QED  BY <1>1, <1>3, <1>4, <1>7, <1>9, <3>1 DEF InHand, Fresh
  <2>3. ASSUME NEW q \in Clients \ {p}
        PROVE  ClientOK(q)' /\ TimesOK(q)' /\ (Pending(q)' <=> Pending(q))
    <3>1. q # p /\ q \in Proc
      BY Sizes
    <3>2. /\ pc'[q] = pc[q] /\ p_flags'[q] = p_flags[q] /\ p_sendto'[q] = p_sendto[q]
          /\ p_recvfrom'[q] = p_recvfrom[q] /\ msg'[q] = msg[q]
          /\ t'[q] = t[q] /\ from'[q] = from[q] /\ ticks' = ticks
      BY <1>1, <1>4, <1>7, <1>9, <3>1
    <3> QED  BY <1>5, <3>2, OthersKept
  <2>4. TaskOK'
    BY <1>3, <2>1, <2>2, <2>3 DEF TaskOK
  <2>5. \A q \in Proc \ Participants : p_flags'[q] = {}
    BY <1>7, <1>9 DEF SInv, Protocol, Participants
  <2> QED  BY <1>4, <1>5, <1>6, <2>1, <2>3, <2>4, <2>5 DEF SInv, Protocol
<1> QED  BY <1>1, <1>2, <1>8, <1>9, ReceiveOutcome DEF SInv

(* The clients' places and times when only the system task moves.          *)
LEMMA TaskMoves ==
  ASSUME SInv, NEW there \in Places, pc' = [pc EXCEPT ![TASK_SYS] = there],
         UNCHANGED <<ticks, t, from>>
  PROVE  /\ ProtocolTypeOK' /\ pc'[TASK_SYS] = there
         /\ \A q \in Clients : /\ q \in Proc /\ q # TASK_SYS /\ pc'[q] = pc[q]
                               /\ t'[q] = t[q] /\ from'[q] = from[q] /\ TimesOK(q)'
<1>1. ProtocolTypeOK' /\ pc'[TASK_SYS] = there
  BY Sizes DEF SInv, Protocol, ProtocolTypeOK
<1>2. ASSUME NEW q \in Clients
      PROVE  /\ q \in Proc /\ q # TASK_SYS /\ pc'[q] = pc[q]
             /\ t'[q] = t[q] /\ from'[q] = from[q] /\ TimesOK(q)'
  <2>1. q \in Proc /\ q # TASK_SYS /\ pc'[q] = pc[q] /\ TimesOK(q)
    BY ClientFacts, Sizes DEF SInv, Protocol, ProtocolTypeOK
  <2> QED  BY <2>1 DEF TimesOK
<1> QED  BY <1>1, <1>2

(* RECEIVE from anybody: a request is there, or will be handed over.       *)
LEMMA SysReceivesKeeps == SInv /\ SysReceives => SInv'
<1> SUFFICES ASSUME SInv, SysReceives PROVE SInv'  OBVIOUS
<1> DEFINE Fetches == \E f \in SendersTo(TASK_SYS) :
             /\ msg' = [msg EXCEPT ![TASK_SYS] = msg[f]]
             /\ p_flags' = [p_flags EXCEPT ![f] = {}]
             /\ p_sendto' = [p_sendto EXCEPT ![f] = NO_TASK]
             /\ UNCHANGED p_recvfrom
           Blocks ==
             /\ msg' = [msg EXCEPT ![TASK_SYS] = Outgoing(TASK_SYS, Blank)]
             /\ p_flags' = [p_flags EXCEPT ![TASK_SYS] = {RECEIVING}]
             /\ p_recvfrom' = [p_recvfrom EXCEPT ![TASK_SYS] = ANY]
             /\ UNCHANGED p_sendto
<1>1. /\ p_flags[TASK_SYS] = {} /\ Receive(TASK_SYS, ANY, Blank) /\ stopped = "no"
      /\ pc[TASK_SYS] = "receive" /\ pc' = [pc EXCEPT ![TASK_SYS] = "serve"]
      /\ UNCHANGED <<ticks, t, from>>
  BY DEF SysReceives, Receive, Running, Goes
<1>2. \A q \in Clients : ~Pending(q)
  BY <1>1, Flags, Sizes DEF SInv, Protocol, TaskOK, InHand
<1>3. /\ ProtocolTypeOK' /\ pc'[TASK_SYS] = "serve"
      /\ \A q \in Clients : /\ q \in Proc /\ q # TASK_SYS /\ pc'[q] = pc[q]
                            /\ t'[q] = t[q] /\ from'[q] = from[q] /\ TimesOK(q)'
  BY <1>1, TaskMoves DEF Places
<1>4. IInv' /\ stopped' = "no"
  BY <1>1, Sizes, ReceiveOutcome DEF SInv
<1>5. /\ p_flags \in [Proc -> SUBSET {SENDING, RECEIVING}] /\ msg \in [Proc -> MESSAGE]
      /\ p_recvfrom \in [Proc -> Proc \cup {ANY, NO_TASK}]
      /\ p_sendto \in [Proc -> Proc \cup {NO_TASK}] /\ ticks \in Int
  BY Sizes DEF SInv, IInv, TypeOK, Protocol, ProtocolTypeOK
<1>6. CASE Fetches
  <2>1. PICK f \in SendersTo(TASK_SYS) :
             /\ msg' = [msg EXCEPT ![TASK_SYS] = msg[f]]
             /\ p_flags' = [p_flags EXCEPT ![f] = {}]
             /\ p_sendto' = [p_sendto EXCEPT ![f] = NO_TASK]
             /\ UNCHANGED p_recvfrom
    BY <1>6
  <2>2. f \in Proc /\ f # TASK_SYS /\ p_flags[f] = {SENDING}
    BY <1>1, Flags DEF SendersTo
  <2>3. f \in Clients
    BY <2>2, Flags DEF SInv, Protocol, Participants
  <2>4. ClientOK(f) /\ Sending(f) /\ ~Receiving(f) /\ pc[f] \in Places
    BY <2>2, <2>3, Flags, ClientFacts
  <2>5. pc[f] \in {"get first", "get"} /\ msg[f] = [source |-> f, body |-> Request]
    BY <2>2, <2>4, Flags DEF ClientOK, Places
  <2>6. p_flags'[f] = {} /\ pc'[f] = pc[f]
    BY <1>3, <1>5, <2>2, <2>3, <2>1
  <2>7. ClientOK(f)' /\ Pending(f)'
    BY <2>5, <2>6 DEF ClientOK, Pending, Answered, Sending, Receiving
  <2>8. InHand(f)'
    BY <1>1, <1>3, <1>5, <2>1, <2>2, <2>5, Sizes DEF InHand
  <2>9. ASSUME NEW q \in Clients \ {f}
        PROVE  ClientOK(q)' /\ TimesOK(q)' /\ (Pending(q)' <=> Pending(q))
    <3>1. /\ pc'[q] = pc[q] /\ p_flags'[q] = p_flags[q] /\ p_sendto'[q] = p_sendto[q]
          /\ p_recvfrom'[q] = p_recvfrom[q] /\ msg'[q] = msg[q]
          /\ t'[q] = t[q] /\ from'[q] = from[q] /\ ticks' = ticks
      BY <1>1, <1>3, <1>5, <2>1
    <3> QED  BY <1>5, <3>1, OthersKept
  <2>10. TaskOK'
    BY <1>2, <2>3, <2>7, <2>8, <2>9 DEF TaskOK
  <2>11. \A q \in Proc \ Participants : p_flags'[q] = {}
    BY <1>5, <2>1 DEF SInv, Protocol
  <2> QED  BY <1>3, <1>4, <2>7, <2>9, <2>10, <2>11 DEF SInv, Protocol
<1>7. CASE Blocks
  <2>1. ASSUME NEW q \in Clients
        PROVE  ClientOK(q)' /\ TimesOK(q)' /\ (Pending(q)' <=> Pending(q))
    <3>1. /\ pc'[q] = pc[q] /\ p_flags'[q] = p_flags[q] /\ p_sendto'[q] = p_sendto[q]
          /\ p_recvfrom'[q] = p_recvfrom[q] /\ msg'[q] = msg[q]
          /\ t'[q] = t[q] /\ from'[q] = from[q] /\ ticks' = ticks
      BY <1>1, <1>3, <1>5, <1>7
    <3> QED  BY <1>5, <3>1, OthersKept
  <2>2. Free'
    BY <1>3, <1>5, <1>7, Sizes DEF Free
  <2>3. TaskOK'
    BY <1>2, <2>1, <2>2 DEF TaskOK
  <2>4. \A q \in Proc \ Participants : p_flags'[q] = {}
    BY <1>5, <1>7 DEF SInv, Protocol, Participants
  <2> QED  BY <1>3, <1>4, <2>1, <2>3, <2>4 DEF SInv, Protocol
<1>8. Fetches \/ Blocks
  <2>1. TASK_SYS \in Proc /\ Blank \in Body \cup {Blank} /\ ANY \in (Proc \ {TASK_SYS}) \cup {ANY}
    BY Sizes
  <2> QED  BY <1>1, <2>1, ReceiveOutcome DEF SInv
<1> QED  BY <1>6, <1>7, <1>8

(* The request in hand is one that task_sys() knows, and its answer is the *)
(* clock of this moment.                                                   *)
LEMMA SysServesKeeps == SInv /\ SysServes => SInv'
<1> SUFFICES ASSUME SInv, SysServes PROVE SInv'  OBVIOUS
<1>1. /\ p_flags[TASK_SYS] = {} /\ stopped = "no"
      /\ pc[TASK_SYS] = "serve" /\ pc' = [pc EXCEPT ![TASK_SYS] = "reply"]
      /\ UNCHANGED <<p_flags, p_msg, p_recvfrom, p_sendto, q_sending, next_sending,
                     ticks, t, from>>
  BY DEF SysServes, Running, Goes
<1>2. PICK p \in Clients : /\ InHand(p) /\ \A q \in Clients : Pending(q) <=> q = p
  BY <1>1, Flags, Sizes DEF SInv, Protocol, TaskOK, Free
<1>3. msg[TASK_SYS] = [source |-> p, body |-> Request]
  BY <1>1, <1>2 DEF InHand
<1>4. /\ msg' = [msg EXCEPT ![TASK_SYS].body.retval = ticks] /\ stopped' = "no"
  BY <1>1, <1>3, Sizes DEF SysServes, Request
<1>5. msg \in [Proc -> MESSAGE] /\ ticks \in 0 .. MaxTicks /\ p \in Proc
  BY Sizes DEF SInv, IInv, TypeOK, Protocol, ProtocolTypeOK
<1> DEFINE answer == [type |-> GET_TICKS, retval |-> ticks]
<1>6. msg'[TASK_SYS] = [source |-> p, body |-> answer] /\ answer \in Bodies
      /\ answer.retval = ticks
  BY <1>3, <1>4, <1>5, Sizes DEF Request, Bodies
<1>7. \A q \in Proc \ {TASK_SYS} : msg'[q] = msg[q]
  BY <1>4, <1>5
<1>8. IInv'
  <2>1. msg' \in [Proc -> MESSAGE]
    <3>1. msg'[TASK_SYS] \in MESSAGE
      BY <1>5, <1>6, Sizes DEF MESSAGE
    <3>2. msg' = [q \in Proc |-> msg'[q]]
      BY <1>4, <1>5
    <3> QED  BY <1>5, <1>7, <3>1, <3>2
  <2>2. TypeOK'
    BY <1>1, <1>4, <2>1 DEF SInv, IInv, TypeOK, StopState
  <2>3. Fields' /\ Lists'
    BY <1>1 DEF SInv, IInv, Fields, FieldsOf, Sending, Receiving, Lists, Links, OneBefore,
                Linked, Ends, Begins, SendersTo
  <2>4. SendGraphAcyclic' /\ NoMissedRendezvous' /\ AssertsHold'
    BY <1>1, <1>4 DEF SInv, IInv, SendGraphAcyclic, NoMissedRendezvous, AssertsHold,
                      SendersTo, WaitsFor, Sending, Receiving
  <2> QED  BY <2>2, <2>3, <2>4 DEF IInv
<1>9. /\ ProtocolTypeOK' /\ pc'[TASK_SYS] = "reply"
      /\ \A q \in Clients : /\ q \in Proc /\ q # TASK_SYS /\ pc'[q] = pc[q]
                            /\ t'[q] = t[q] /\ from'[q] = from[q] /\ TimesOK(q)'
  BY <1>1, TaskMoves DEF Places
<1>10. ASSUME NEW q \in Clients
       PROVE  ClientOK(q)' /\ TimesOK(q)' /\ (Pending(q)' <=> Pending(q))
  <2>1. ticks' \in Int /\ ticks <= ticks' /\ msg'[q] = msg[q]
    BY <1>1, <1>5, <1>7, <1>9, Sizes
  <2> QED  BY <1>1, <1>9, <2>1, OthersKept
<1>11. InHand(p)'
  <2>1. from[p].get \in Int /\ from[p].get <= ticks /\ ticks \in Int /\ from' = from
    BY <1>1, ClientFacts DEF TimesOK
  <2>2. ticks \in from[p].get .. ticks
    BY <2>1
  <2>3. answer.retval \in from'[p].get .. ticks'
    BY <1>1, <1>6, <2>2
  <2> HIDE DEF answer
  <2>4. Fresh(p, msg[TASK_SYS].body)' /\ msg'[TASK_SYS].source = p
    BY <1>6, <2>3 DEF Fresh, Bodies
  <2> QED  BY <1>1, <1>9, <2>4 DEF InHand
<1>12. TaskOK'
  BY <1>2, <1>10, <1>11 DEF TaskOK
<1> QED  BY <1>1, <1>4, <1>8, <1>9, <1>10, <1>12 DEF SInv, Protocol

(* SEND of the answer: it is handed to the waiting client, or waits.       *)
LEMMA SysRepliesKeeps == SInv /\ SysReplies => SInv'
<1> SUFFICES ASSUME SInv, SysReplies PROVE SInv'  OBVIOUS
<1> DEFINE body == msg[TASK_SYS].body
<1>1. /\ p_flags[TASK_SYS] = {} /\ stopped = "no"
      /\ Send(TASK_SYS, msg[TASK_SYS].source, body)
      /\ pc[TASK_SYS] = "reply" /\ pc' = [pc EXCEPT ![TASK_SYS] = "receive"]
      /\ UNCHANGED <<ticks, t, from>>
  BY DEF SysReplies, Send, Running, Goes
<1>2. PICK p \in Clients : /\ InHand(p) /\ \A q \in Clients : Pending(q) <=> q = p
  BY <1>1, Flags, Sizes DEF SInv, Protocol, TaskOK, Free
<1>3. /\ msg[TASK_SYS].source = p /\ Fresh(p, body) /\ Pending(p)
      /\ p \in Proc \ {TASK_SYS} /\ TASK_SYS \in Proc
  BY <1>1, <1>2, Sizes DEF InHand
<1>4. Send(TASK_SYS, p, body) /\ ~deadlock(TASK_SYS, p) /\ body \in Body
  BY <1>1, <1>3, NoCircleClosed, Sizes DEF Fresh
<1> HIDE DEF body
<1>5. /\ ProtocolTypeOK' /\ pc'[TASK_SYS] = "receive"
      /\ \A q \in Clients : /\ q \in Proc /\ q # TASK_SYS /\ pc'[q] = pc[q]
                            /\ t'[q] = t[q] /\ from'[q] = from[q] /\ TimesOK(q)'
  BY <1>1, TaskMoves DEF Places
<1>6. IInv' /\ stopped' = "no"
  BY <1>3, <1>4, SendOutcome DEF SInv
<1>7. /\ p_flags \in [Proc -> SUBSET {SENDING, RECEIVING}] /\ msg \in [Proc -> MESSAGE]
      /\ p_recvfrom \in [Proc -> Proc \cup {ANY, NO_TASK}]
      /\ p_sendto \in [Proc -> Proc \cup {NO_TASK}] /\ ticks \in Int
  BY Sizes DEF SInv, IInv, TypeOK, Protocol, ProtocolTypeOK
<1>9. CASE /\ WaitsFor(p, TASK_SYS)
           /\ msg' = [msg EXCEPT ![TASK_SYS] = Outgoing(TASK_SYS, body),
                                 ![p] = Outgoing(TASK_SYS, body)]
           /\ p_flags' = [p_flags EXCEPT ![p] = {}]
           /\ p_recvfrom' = [p_recvfrom EXCEPT ![p] = NO_TASK]
           /\ UNCHANGED p_sendto
  <2>1. /\ p_flags'[p] = {} /\ msg'[p].source = TASK_SYS /\ msg'[p].body = body
        /\ p_flags'[TASK_SYS] = {}
    BY <1>1, <1>3, <1>7, <1>9 DEF Outgoing
  <2>2. pc'[p] \in {"note", "compare"}
    BY <1>3, <1>5, <1>9, Flags DEF WaitsFor, Pending
  <2>3. Fresh(p, msg[p].body)'
    BY <1>1, <1>3, <2>1 DEF Fresh
  <2>4. ClientOK(p)' /\ ~Pending(p)'
    BY <2>1, <2>2, <2>3 DEF ClientOK, Pending, Answered, Sending, Receiving
  <2>5. Free'
    BY <1>5, <2>1 DEF Free
  <2>6. ASSUME NEW q \in Clients \ {p}
        PROVE  ClientOK(q)' /\ TimesOK(q)' /\ (Pending(q)' <=> Pending(q))
    <3>1. /\ pc'[q] = pc[q] /\ p_flags'[q] = p_flags[q] /\ p_sendto'[q] = p_sendto[q]
          /\ p_recvfrom'[q] = p_recvfrom[q] /\ msg'[q] = msg[q]
          /\ t'[q] = t[q] /\ from'[q] = from[q] /\ ticks' = ticks
      BY <1>1, <1>5, <1>7, <1>9
    <3> QED  BY <1>7, <3>1, OthersKept
  <2>7. TaskOK'
    BY <1>2, <2>4, <2>5, <2>6 DEF TaskOK
  <2>8. \A q \in Proc \ Participants : p_flags'[q] = {}
    BY <1>7, <1>9 DEF SInv, Protocol, Participants
  <2> QED  BY <1>5, <1>6, <2>4, <2>6, <2>7, <2>8 DEF SInv, Protocol
<1>10. CASE /\ msg' = [msg EXCEPT ![TASK_SYS] = Outgoing(TASK_SYS, body)]
            /\ p_flags' = [p_flags EXCEPT ![TASK_SYS] = {SENDING}]
            /\ p_sendto' = [p_sendto EXCEPT ![TASK_SYS] = p]
            /\ UNCHANGED p_recvfrom
  <2>1. ASSUME NEW q \in Clients
        PROVE  ClientOK(q)' /\ TimesOK(q)' /\ (Pending(q)' <=> Pending(q))
    <3>1. /\ pc'[q] = pc[q] /\ p_flags'[q] = p_flags[q] /\ p_sendto'[q] = p_sendto[q]
          /\ p_recvfrom'[q] = p_recvfrom[q] /\ msg'[q] = msg[q]
          /\ t'[q] = t[q] /\ from'[q] = from[q] /\ ticks' = ticks
      BY <1>1, <1>5, <1>7, <1>10
    <3> QED  BY <1>7, <3>1, OthersKept
  <2>2. /\ p_flags'[TASK_SYS] = {SENDING} /\ p_sendto'[TASK_SYS] = p
        /\ msg'[TASK_SYS].source = TASK_SYS /\ msg'[TASK_SYS].body = body
    BY <1>3, <1>7, <1>10 DEF Outgoing
  <2>3. Fresh(p, msg[TASK_SYS].body)'
    BY <1>1, <1>3, <2>2 DEF Fresh
  <2>4. InHand(p)'
    BY <1>5, <2>2, <2>3 DEF InHand
  <2>5. TaskOK'
    BY <1>2, <2>1, <2>4 DEF TaskOK
  <2>6. \A q \in Proc \ Participants : p_flags'[q] = {}
    BY <1>7, <1>10 DEF SInv, Protocol, Participants
  <2> QED  BY <1>5, <1>6, <2>1, <2>5, <2>6 DEF SInv, Protocol
<1> QED  BY <1>3, <1>4, <1>9, <1>10, SendOutcome DEF SInv

LEMMA GoesKeep == ASSUME SInv, NEW p \in Clients, Client(p) PROVE SInv'
BY AskKeeps, GetKeeps, BetweenCalls DEF Client

LEMMA StepSystem == SInv /\ [SysNext]_allVars => SInv'
<1> SUFFICES ASSUME SInv, [SysNext]_allVars PROVE SInv'  OBVIOUS
<1>1. CASE Tick
  BY <1>1, TickKeeps
<1>2. CASE Sys
  BY <1>2, SysReceivesKeeps, SysServesKeeps, SysRepliesKeeps DEF Sys
<1>3. CASE \E p \in Clients : Client(p)
  BY <1>3, GoesKeep
<1>4. CASE UNCHANGED allVars
  <2>1. UNCHANGED vars /\ UNCHANGED <<ticks, pc, t, from>>
    BY <1>4 DEF allVars, sysVars
  <2>2. IInv'
    BY <2>1, StutterInv DEF SInv
  <2>3. ASSUME NEW p \in Clients
        PROVE  ClientOK(p)' /\ TimesOK(p)' /\ (Pending(p)' <=> Pending(p))
    <3>1. ticks \in Int
      BY ClientFacts
    <3> QED  BY <2>1, <3>1, OthersKept DEF vars
  <2>4. TaskOK'
    <3>1. (Free => Free') /\ \A p \in Clients : InHand(p) => InHand(p)'
      BY <2>1 DEF Free, InHand, Fresh, vars
    <3> QED  BY <2>3, <3>1 DEF SInv, Protocol, TaskOK
  <2> QED  BY <2>1, <2>2, <2>3, <2>4 DEF SInv, Protocol, ProtocolTypeOK, vars
<1> QED  BY <1>1, <1>2, <1>3, <1>4 DEF SysNext
-----------------------------------------------------------------------------
(* In every reachable state the kernel's tables are in order, and a client *)
(* whose request has been taken and not answered is exactly the one that   *)
(* task_sys() has in hand.                                                 *)
THEOREM SystemInvariant == SysSpec => []SInv
BY InitSystem, StepSystem, PTL DEF SysSpec

(* get_ticks(), milli_delay() and task_sys() never make msg_send() find a  *)
(* deadlock, task_sys() panic or an assertion fail.                        *)
THEOREM ProtocolNeverStops == SysSpec => []NeverStops
<1>1. SInv => NeverStops
  BY DEF SInv, Protocol, NeverStops
<1> QED  BY <1>1, SystemInvariant, PTL

(* get_ticks() returns the clock of a moment of the call itself, although  *)
(* SEND and RECEIVE are two system calls and other clients come between.   *)
THEOREM AnswersAreFresh == SysSpec => []AnswerIsFresh
<1>1. ASSUME SInv PROVE AnswerIsFresh
  <2> SUFFICES ASSUME NEW p \in Clients, Answered(p)
               PROVE  msg[p].source = TASK_SYS /\ msg[p].body.retval \in from[p].get .. ticks
    BY DEF AnswerIsFresh
  <2> QED  BY <1>1, ClientFacts DEF ClientOK, Fresh
<1> QED  BY <1>1, SystemInvariant, PTL

(* No circle of processes waits for each other, be it through the SENDs    *)
(* that deadlock() follows or through a RECEIVE that names its sender.     *)
THEOREM NobodyWaitsInACircle == SysSpec => []NoWaitCircle
<1>1. ASSUME SInv PROVE NoWaitCircle
  <2> SUFFICES ASSUME NEW S \in SUBSET Participants, S # {},
                      \A p \in S : WaitingFor(p) \in S
               PROVE  FALSE
    BY DEF NoWaitCircle
  <2>1. S \subseteq Proc /\ NO_TASK \notin S /\ S \subseteq Clients \cup {TASK_SYS}
    BY Sizes DEF Participants
  <2>2. \A p \in S : p_flags[p] # {}
    BY <2>1 DEF WaitingFor, Sending, Receiving
  <2>3. TASK_SYS \in S
    <3>1. ASSUME NEW p \in Clients, p \in S PROVE WaitingFor(p) = TASK_SYS
      <4>1. Sending(p) \/ Receiving(p)
        BY <1>1, <2>1, <2>2, <3>1, Flags
      <4>2. (Sending(p) => p_sendto[p] = TASK_SYS) /\ (Receiving(p) => p_recvfrom[p] = TASK_SYS)
        BY <1>1, ClientFacts DEF ClientOK
      <4> QED  BY <4>1, <4>2, Sizes DEF WaitingFor
    <3> QED  BY <2>1, <3>1
  <2>4. Sending(TASK_SYS)
    <3>1. p_flags[TASK_SYS] = {RECEIVING} => p_recvfrom[TASK_SYS] = ANY
      BY <1>1, Flags, Sizes DEF SInv, Protocol, TaskOK, Free, InHand
    <3>2. Receiving(TASK_SYS) <=> p_flags[TASK_SYS] = {RECEIVING}
      BY <1>1, Flags, Sizes
    <3>3. Receiving(TASK_SYS) /\ ~Sending(TASK_SYS) => WaitingFor(TASK_SYS) = NO_TASK
      BY <3>1, <3>2 DEF WaitingFor
    <3>4. Sending(TASK_SYS) \/ Receiving(TASK_SYS)
      BY <1>1, <2>2, <2>3, Flags, Sizes
    <3> QED  BY <2>1, <2>3, <3>3, <3>4
  <2>5. PICK p \in Clients : InHand(p) /\ Pending(p)
    BY <1>1, <2>4, Flags, Sizes DEF SInv, Protocol, TaskOK, Free
  <2>6. p_sendto[TASK_SYS] = p /\ p \in Proc
    BY <1>1, <2>4, <2>5, Flags, Sizes DEF InHand
  <2>7. p \in S
    BY <2>3, <2>4, <2>6 DEF WaitingFor
  <2>8. Receiving(p) /\ p_recvfrom[p] = TASK_SYS
    BY <1>1, <2>2, <2>5, <2>7, ClientFacts DEF Pending, ClientOK
  <2>9. TASK_SYS \in SendersTo(p) /\ WaitsFor(p, TASK_SYS) /\ TASK_SYS \in Proc
    BY <2>4, <2>6, <2>8, Sizes DEF SendersTo, WaitsFor
  <2> QED  BY <1>1, <2>6, <2>9 DEF SInv, IInv, NoMissedRendezvous
<1> QED  BY <1>1, SystemInvariant, PTL

(* milli_delay() returns only after Delay ticks or more since its call:    *)
(* neither a tick between its two readings of the clock nor an answer that *)
(* waited in the system task makes it shorter.                             *)
THEOREM DelaysAreLongEnough == SysSpec => DelayIsLongEnough
<1>1. ASSUME SInv, NEW p \in Clients, DelayEnds(p)
      PROVE  ticks - from[p].delay >= Delay
  <2>1. Answered(p) /\ ~(msg[p].body.retval - t[p] < Delay) /\ pc[p] = "compare"
    BY <1>1 DEF DelayEnds, Goes, Running, Answered
  <2>2. /\ ticks \in Nat /\ from[p].get \in Int /\ from[p].delay \in Int /\ t[p] \in Int
        /\ from[p].delay <= t[p] /\ Fresh(p, msg[p].body) /\ Delay \in Nat
    BY <1>1, <2>1, ClientFacts, Sizes DEF ClientOK, TimesOK
  <2>3. msg[p].body.retval \in Int /\ msg[p].body.retval <= ticks
    BY <2>2 DEF Fresh
  <2> QED  BY <2>1, <2>2, <2>3
<1>2. SInv /\ [SysNext]_allVars =>
        [\A p \in Clients : DelayEnds(p) => ticks - from[p].delay >= Delay]_allVars
  BY <1>1
<1> QED  BY <1>2, SystemInvariant, PTL DEF SysSpec, DelayIsLongEnough

(* schedule() and clock_handler() drive the processes through steps of     *)
(* SysTask only: what is proved of SysSpec holds of the whole system.      *)
THEOREM SystemImplementsSysTask == SystemSpec => SysSpec
<1>1. SystemInit => SysInit
  BY DEF SystemInit
<1>2. [SystemNext]_fullVars => [SysNext]_allVars
  <2>1. ASSUME NEW p \in Participants, Steps(p) PROVE SysNext
    BY <2>1 DEF Steps, SysNext
  <2>2. ClockInterrupt \/ ClockInCall => [SysNext]_allVars
    BY DEF ClockInterrupt, ClockInCall, Counts, SysNext
  <2>3. UNCHANGED fullVars => UNCHANGED allVars
    BY DEF fullVars
  <2> QED  BY <2>1, <2>2, <2>3 DEF SystemNext
<1> QED  BY <1>1, <1>2, PTL DEF SysSpec, SystemSpec
=============================================================================
