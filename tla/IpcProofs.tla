----------------------------- MODULE IpcProofs -----------------------------
(***************************************************************************)
(* Proofs about module Ipc, for any set of processes and of bodies.  The   *)
(* invariant IInv strengthens the properties of Ipc with what relates the  *)
(* fields of one process, and with the shape of the lists of senders.      *)
(***************************************************************************)
EXTENDS IpcRefinement, FiniteSetTheorems, WellFoundedInduction, TLAPS

-----------------------------------------------------------------------------
(* The fields of a process agree with its flags.                           *)
FieldsOf(p) ==
  /\ p_flags[p] \in {{}, {SENDING}, {RECEIVING}}
  /\ IF Sending(p) THEN p_sendto[p] \in Proc \ {p}
                   ELSE p_sendto[p] = NO_TASK /\ next_sending[p] = NULL
  /\ IF Receiving(p) THEN p_recvfrom[p] \in (Proc \ {p}) \cup {ANY}
                     ELSE p_recvfrom[p] = NO_TASK
  /\ p_msg[p] = IF p_flags[p] = {} THEN NULL ELSE p

Fields == \A p \in Proc : FieldsOf(p)

(* Links stay among the senders to one destination.                        *)
Links ==
  /\ \A d \in Proc : q_sending[d] # NULL => q_sending[d] \in SendersTo(d)
  /\ \A p \in Proc : next_sending[p] # NULL =>
       /\ Sending(p)
       /\ next_sending[p] \in SendersTo(p_sendto[p])
       /\ next_sending[p] # q_sending[p_sendto[p]]

(* No process is next of two.                                              *)
OneBefore ==
  \A p, r \in Proc :
    next_sending[p] # NULL /\ next_sending[p] = next_sending[r] => p = r

(* Every sender is at the head of its list or behind another of it.        *)
Linked ==
  \A d \in Proc : \A p \in SendersTo(d) :
    q_sending[d] = p \/ \E r \in SendersTo(d) : next_sending[r] = p

(* Lists end, and lists begin.                                             *)
Ends ==
  \A S \in SUBSET Proc : S # {} => \E p \in S : next_sending[p] \notin S
Begins ==
  \A S \in SUBSET Proc :
    S # {} => \E p \in S : \A r \in S : next_sending[r] # p

Lists == Links /\ OneBefore /\ Linked /\ Ends /\ Begins

IInv ==
  /\ TypeOK
  /\ Fields
  /\ Lists
  /\ SendGraphAcyclic
  /\ NoMissedRendezvous
  /\ AssertsHold

-----------------------------------------------------------------------------
(* A walk from the head of d that never leaves the senders to d meets      *)
(* every one of them.                                                      *)
LEMMA ListsGiveIntegrity ==
  ASSUME TypeOK, Lists
  PROVE  QueueIntegrity
<1> SUFFICES ASSUME NEW d \in Proc PROVE OnQueue(d) = SendersTo(d)
  BY DEF QueueIntegrity
<1>1. SendersTo(d) \in SUBSET Proc /\ ClosedUnderNext(SendersTo(d))
  BY DEF SendersTo, ClosedUnderNext, Lists, Links, TypeOK
<1>2. OnQueue(d) \subseteq SendersTo(d)
  BY <1>1 DEF OnQueue, Lists, Links
<1>3. SendersTo(d) \subseteq OnQueue(d)
  <2> DEFINE Lost == SendersTo(d) \ OnQueue(d)
  <2> SUFFICES ASSUME Lost # {} PROVE FALSE
    OBVIOUS
  <2>1. Lost \in SUBSET Proc
    BY <1>1
  <2>2. PICK p \in Lost : \A r \in Lost : next_sending[r] # p
    BY <2>1 DEF Lists, Begins
  <2>3. p \in Proc
    BY <2>1
  <2>4. CASE q_sending[d] = p
    <3>1. q_sending[d] # NULL
      BY <2>3, <2>4, IpcAssumption
    <3> QED BY <3>1, <2>3, <2>4 DEF OnQueue
  <2>5. CASE \E r \in SendersTo(d) : next_sending[r] = p
    <3>1. PICK r \in SendersTo(d) : next_sending[r] = p
      BY <2>5
    <3>2. r \in OnQueue(d) /\ p # NULL
      BY <2>2, <2>3, <3>1, IpcAssumption
    <3> QED BY <3>1, <3>2, <2>3 DEF OnQueue, ClosedUnderNext
  <2> QED BY <2>2, <2>4, <2>5 DEF Lists, Linked
<1> QED BY <1>2, <1>3

(* The loop of msg_send() that looks for the last of a queue finds one.    *)
LEMMA LastExists ==
  ASSUME TypeOK, Lists, NEW d \in Proc, q_sending[d] # NULL
  PROVE  LastOf(d) \in SendersTo(d) /\ next_sending[LastOf(d)] = NULL
<1>1. OnQueue(d) = SendersTo(d)
  BY ListsGiveIntegrity DEF QueueIntegrity
<1>2. OnQueue(d) \in SUBSET Proc /\ OnQueue(d) # {}
  BY <1>1 DEF SendersTo, Lists, Links
<1>3. PICK p \in OnQueue(d) : next_sending[p] \notin OnQueue(d)
  BY <1>2 DEF Lists, Ends
<1>4. next_sending[p] = NULL
  BY <1>1, <1>2, <1>3 DEF Lists, Links, SendersTo
<1> QED BY <1>1, <1>3, <1>4 DEF LastOf

(* The loop of msg_receive() that looks for `from' stops behind the        *)
(* process before it.                                                      *)
LEMMA PrevExists ==
  ASSUME TypeOK, Lists, NEW d \in Proc,
         NEW from \in SendersTo(d), q_sending[d] # from
  PROVE  PrevOf(d, from) \in SendersTo(d)
           /\ next_sending[PrevOf(d, from)] = from
<1>1. OnQueue(d) = SendersTo(d)
  BY ListsGiveIntegrity DEF QueueIntegrity
<1>2. \E r \in OnQueue(d) : next_sending[r] = from
  BY <1>1 DEF Lists, Linked
<1> QED BY <1>1, <1>2 DEF PrevOf

-----------------------------------------------------------------------------
LEMMA InitInv == Init => IInv
<1> SUFFICES ASSUME Init PROVE IInv
  OBVIOUS
<1>1. TypeOK
  BY DEF Init, TypeOK, MESSAGE, StopState
<1>2. Fields
  BY DEF Init, Fields, FieldsOf, Sending, Receiving
<1>3. Lists
  BY IpcAssumption
     DEF Init, Lists, Links, OneBefore, Linked, Ends, Begins, SendersTo,
         Sending
<1>4. SendGraphAcyclic /\ NoMissedRendezvous /\ AssertsHold
  BY DEF Init, SendGraphAcyclic, NoMissedRendezvous, AssertsHold, SendersTo,
         Sending
<1> QED BY <1>1, <1>2, <1>3, <1>4 DEF IInv

(* Nothing IInv says of the table depends on the buffers.                  *)
LEMMA SendPanicsInv ==
  ASSUME IInv, NEW p \in Proc, NEW dest \in Proc \ {p}, NEW b \in Body,
         Running(p), SendPanics(p, dest, b)
  PROVE  IInv'
<1> USE DEF SendPanics
<1>1. TypeOK'
  BY DEF IInv, TypeOK, StopState, MESSAGE, Outgoing
<1>2. Fields' /\ Lists'
  BY DEF IInv, Fields, FieldsOf, Sending, Receiving, Lists, Links, OneBefore,
         Linked, Ends, Begins, SendersTo
<1>3. SendGraphAcyclic' /\ NoMissedRendezvous' /\ AssertsHold'
  BY DEF IInv, SendGraphAcyclic, NoMissedRendezvous, AssertsHold, SendersTo,
         WaitsFor, Sending, Receiving
<1> QED BY <1>1, <1>2, <1>3 DEF IInv

(* The receiver becomes runnable; no sender and no list is touched.        *)
LEMMA SendDeliversInv ==
  ASSUME IInv, NEW p \in Proc, NEW dest \in Proc \ {p}, NEW b \in Body,
         Running(p), SendDelivers(p, dest, b)
  PROVE  IInv'
<1> USE DEF SendDelivers
<1>1. p_flags[dest] = {RECEIVING} /\ ~Sending(dest) /\ p_msg[dest] = dest
  BY DEF WaitsFor, Receiving, Sending, IInv, Fields, FieldsOf, SENDING,
         RECEIVING
<1>2. p_flags' = [p_flags EXCEPT ![dest] = {}]
  BY <1>1
<1>3. \A q \in Proc : Sending(q)' = Sending(q)
  BY <1>1, <1>2 DEF Sending, IInv, TypeOK
<1>4. \A q \in Proc \ {dest} : Receiving(q)' = Receiving(q)
  BY <1>2 DEF Receiving, IInv, TypeOK
<1>5. ~Receiving(dest)'
  BY <1>2 DEF Receiving, IInv, TypeOK
<1>6. TypeOK'
  BY <1>1, <1>2 DEF IInv, TypeOK, StopState, MESSAGE, Outgoing
<1>7. Fields'
  BY <1>1, <1>2, <1>3, <1>4, <1>5
     DEF IInv, TypeOK, Fields, FieldsOf
<1>8. Lists'
  BY <1>3 DEF IInv, Lists, Links, OneBefore, Linked, Ends, Begins, SendersTo
<1>9. SendGraphAcyclic'
  BY <1>3 DEF IInv, SendGraphAcyclic
<1>10. NoMissedRendezvous'
  BY <1>3, <1>4, <1>5
     DEF IInv, NoMissedRendezvous, SendersTo, WaitsFor, TypeOK
<1>11. AssertsHold'
  <2>1. p_msg[dest] # NULL
    BY <1>1, IpcAssumption
  <2>2. Idle(dest)'
    BY <1>1, <1>2 DEF Idle, IInv, TypeOK, Fields, FieldsOf
  <2>3. Idle(p)'
    BY <1>2 DEF Idle, Running, IInv, TypeOK, Fields, FieldsOf, Sending,
                Receiving
  <2> QED BY <2>1, <2>2, <2>3 DEF IInv, AssertsHold
<1> QED BY <1>6, <1>7, <1>8, <1>9, <1>10, <1>11 DEF IInv

(* What SendBlocks does to the links and to the sets of senders.           *)
LEMMA JoinedLinks ==
  ASSUME IInv, NEW p \in Proc, NEW dest \in Proc \ {p}, NEW b \in Body,
         Running(p), SendBlocks(p, dest, b)
  PROVE  /\ q_sending[dest] # NULL => /\ LastOf(dest) \in SendersTo(dest)
                                     /\ next_sending[LastOf(dest)] = NULL
         /\ \A q \in Proc : next_sending[q] # p /\ q_sending[q] # p
         /\ p \notin SendersTo(dest) /\ p # NULL
         /\ next_sending'[p] = NULL
         /\ \A q \in Proc \ {p} :
              next_sending'[q] =
                IF q_sending[dest] # NULL /\ q = LastOf(dest)
                THEN p ELSE next_sending[q]
         /\ q_sending' = IF q_sending[dest] # NULL THEN q_sending
                         ELSE [q_sending EXCEPT ![dest] = p]
         /\ \A d \in Proc :
              SendersTo(d)' = IF d = dest THEN SendersTo(d) \cup {p}
                                          ELSE SendersTo(d)
<1> DEFINE last == LastOf(dest)
<1> USE DEF SendBlocks
<1>1. p_flags[p] = {} /\ ~Sending(p) /\ next_sending[p] = NULL
  BY DEF Running, IInv, Fields, FieldsOf, Sending
<1>2. Sending(p)' /\ \A q \in Proc \ {p} : Sending(q)' = Sending(q)
  BY <1>1 DEF Sending, IInv, TypeOK
<1>3. q_sending[dest] # NULL =>
        last \in SendersTo(dest) /\ next_sending[last] = NULL
  BY LastExists DEF IInv
(* Before the call p is on no list: nothing points to it.                  *)
<1>4. /\ \A q \in Proc : next_sending[q] # p /\ q_sending[q] # p
      /\ p \notin SendersTo(dest) /\ p # NULL
  BY <1>1, IpcAssumption DEF IInv, Lists, Links, SendersTo
(* Afterwards the only new link leads to p.                                *)
<1>5. /\ next_sending'[p] = NULL
      /\ \A q \in Proc \ {p} :
           next_sending'[q] =
             IF q_sending[dest] # NULL /\ q = last THEN p
                                                   ELSE next_sending[q]
  BY <1>1, <1>3, <1>4 DEF IInv, TypeOK, SendersTo
<1>6. q_sending' = IF q_sending[dest] # NULL THEN q_sending
                   ELSE [q_sending EXCEPT ![dest] = p]
  OBVIOUS
<1>7. \A d \in Proc :
        SendersTo(d)' = IF d = dest THEN SendersTo(d) \cup {p}
                                    ELSE SendersTo(d)
  BY <1>1, <1>2 DEF SendersTo, IInv, TypeOK
<1> QED  BY <1>3, <1>4, <1>5, <1>6, <1>7

(* The caller joins the end of the queue of dest.                          *)
LEMMA SendBlocksInv ==
  ASSUME IInv, NEW p \in Proc, NEW dest \in Proc \ {p}, NEW b \in Body,
         Running(p), SendBlocks(p, dest, b)
  PROVE  IInv'
<1> DEFINE last == LastOf(dest)
<1> USE DEF SendBlocks
<1>1. /\ p_flags[p] = {} /\ ~Sending(p) /\ ~Receiving(p)
      /\ p_recvfrom[p] = NO_TASK /\ next_sending[p] = NULL
  BY DEF Running, IInv, Fields, FieldsOf, Sending, Receiving
<1>2. p_flags' = [p_flags EXCEPT ![p] = {SENDING}]
  BY <1>1
<1>3. /\ Sending(p)' /\ ~Receiving(p)'
      /\ \A q \in Proc \ {p} : Sending(q)' = Sending(q)
      /\ \A q \in Proc : Receiving(q)' = Receiving(q)
  BY <1>1, <1>2 DEF Sending, Receiving, IInv, TypeOK, SENDING, RECEIVING
<1>4. q_sending[dest] # NULL =>
        last \in SendersTo(dest) /\ next_sending[last] = NULL
  BY JoinedLinks
<1>5. TypeOK'
  BY <1>2, <1>4 DEF IInv, TypeOK, MESSAGE, Outgoing, StopState, SendersTo
<1>7. /\ \A q \in Proc : next_sending[q] # p /\ q_sending[q] # p
      /\ p \notin SendersTo(dest) /\ p # NULL
  BY JoinedLinks
<1>8. /\ next_sending'[p] = NULL
      /\ \A q \in Proc \ {p} :
           next_sending'[q] =
             IF q_sending[dest] # NULL /\ q = last THEN p
                                                   ELSE next_sending[q]
  BY JoinedLinks
<1>9. q_sending' = IF q_sending[dest] # NULL THEN q_sending
                   ELSE [q_sending EXCEPT ![dest] = p]
  OBVIOUS
<1>10. \A d \in Proc :
         SendersTo(d)' = IF d = dest THEN SendersTo(d) \cup {p}
                                     ELSE SendersTo(d)
  BY JoinedLinks
<1>6. Fields'
  <2> SUFFICES ASSUME NEW q \in Proc PROVE FieldsOf(q)'
    BY DEF Fields
  <2>1. CASE q = p
    <3>1. /\ p_flags'[p] = {SENDING} /\ p_sendto'[p] = dest
          /\ p_msg'[p] = p /\ p_recvfrom'[p] = NO_TASK
      BY <1>1, <1>2 DEF IInv, TypeOK
    <3> QED BY <2>1, <3>1, <1>3 DEF FieldsOf
  <2>2. CASE q # p
    <3>1. FieldsOf(q) /\ (~Sending(q) => next_sending'[q] = NULL)
      BY <2>2, <1>4, <1>8 DEF IInv, Fields, FieldsOf, SendersTo
    <3>2. /\ p_flags'[q] = p_flags[q] /\ p_sendto'[q] = p_sendto[q]
          /\ p_msg'[q] = p_msg[q] /\ p_recvfrom'[q] = p_recvfrom[q]
      BY <2>2, <1>2 DEF IInv, TypeOK
    <3> QED BY <2>2, <3>1, <3>2, <1>3 DEF FieldsOf
  <2> QED BY <2>1, <2>2
<1>11. Links'
  <2>1. ASSUME NEW d \in Proc, q_sending'[d] # NULL
        PROVE  q_sending'[d] \in SendersTo(d)'
    BY <2>1, <1>9, <1>10 DEF IInv, Lists, Links, TypeOK
  <2>2. ASSUME NEW q \in Proc, next_sending'[q] # NULL
        PROVE  /\ Sending(q)'
               /\ next_sending'[q] \in SendersTo(p_sendto[q])'
               /\ next_sending'[q] # q_sending'[p_sendto'[q]]
    <3>1. q # p /\ p_sendto'[q] = p_sendto[q]
      BY <2>2, <1>8 DEF IInv, TypeOK
    <3>2. CASE q_sending[dest] # NULL /\ q = last
      <4>1. Sending(q) /\ p_sendto[q] = dest
        BY <3>2, <1>4 DEF SendersTo
      <4>2. next_sending'[q] = p
        BY <3>1, <3>2, <1>8
      <4> QED BY <4>1, <4>2, <3>1, <3>2, <1>3, <1>7, <1>9, <1>10
    <3>3. CASE ~(q_sending[dest] # NULL /\ q = last)
      <4>1. next_sending'[q] = next_sending[q]
        BY <3>1, <3>3, <1>8
      <4>2. /\ Sending(q)
            /\ next_sending[q] \in SendersTo(p_sendto[q])
            /\ next_sending[q] # q_sending[p_sendto[q]]
        BY <4>1, <2>2 DEF IInv, Lists, Links
      <4>3. p_sendto[q] \in Proc
        BY <4>2 DEF IInv, Fields, FieldsOf
      <4>4. q_sending'[p_sendto[q]] \in {q_sending[p_sendto[q]], p}
        BY <4>3, <1>9 DEF IInv, TypeOK
      <4> QED BY <4>1, <4>2, <4>3, <4>4, <3>1, <1>3, <1>7, <1>10
    <3> QED BY <3>2, <3>3
  <2> QED BY <2>1, <2>2 DEF Links
<1>12. OneBefore'
  BY <1>7, <1>8 DEF IInv, Lists, OneBefore
<1>13. Linked'
  <2> SUFFICES ASSUME NEW d \in Proc, NEW q \in SendersTo(d)'
               PROVE  \/ q_sending'[d] = q
                      \/ \E r \in SendersTo(d)' : next_sending'[r] = q
    BY DEF Linked
  <2>1. CASE q = p
    <3>1. d = dest
      BY <2>1, <1>1, <1>10 DEF SendersTo
    <3>2. CASE q_sending[dest] = NULL
      BY <3>1, <3>2, <2>1, <1>9 DEF IInv, TypeOK
    <3>3. CASE q_sending[dest] # NULL
      <4>1. last \in SendersTo(dest)' /\ last \in Proc \ {p}
        BY <3>3, <1>4, <1>7, <1>10 DEF SendersTo
      <4>2. next_sending'[last] = p
        BY <4>1, <3>3, <1>8
      <4> QED BY <4>1, <4>2, <3>1, <2>1
    <3> QED BY <3>2, <3>3
  <2>2. CASE q # p
    <3>1. q \in SendersTo(d)
      BY <2>2, <1>10
    <3>2. CASE q_sending[d] = q
      <4>1. q # NULL
        BY <3>1, IpcAssumption DEF SendersTo
      <4>2. q_sending'[d] = q_sending[d]
        BY <4>1, <3>2, <1>9 DEF IInv, TypeOK
      <4> QED BY <4>2, <3>2
    <3>3. CASE \E r \in SendersTo(d) : next_sending[r] = q
      <4>1. PICK r \in SendersTo(d) : next_sending[r] = q
        BY <3>3
      <4>2. q # NULL /\ r \in Proc \ {p} /\ r \in SendersTo(d)'
        BY <3>1, <4>1, <1>1, <1>10, IpcAssumption DEF SendersTo
      <4>3. next_sending'[r] = q
        BY <4>1, <4>2, <1>4, <1>8
      <4> QED BY <4>2, <4>3
    <3> QED BY <3>1, <3>2, <3>3 DEF IInv, Lists, Linked
  <2> QED BY <2>1, <2>2
<1>14. Ends'
  <2> SUFFICES ASSUME NEW S \in SUBSET Proc, S # {}
               PROVE  \E q \in S : next_sending'[q] \notin S
    BY DEF Ends
  <2>1. CASE p \in S
    BY <2>1, <1>8, IpcAssumption
  <2>2. CASE p \notin S
    <3>1. PICK q \in S : next_sending[q] \notin S
      BY DEF IInv, Lists, Ends
    <3> QED BY <3>1, <2>2, <1>8
  <2> QED BY <2>1, <2>2
<1>15. Begins'
  <2> SUFFICES ASSUME NEW S \in SUBSET Proc, S # {}
               PROVE  \E q \in S : \A r \in S : next_sending'[r] # q
    BY DEF Begins
  <2>1. CASE S = {p}
    BY <2>1, <1>7, <1>8
  <2>2. CASE S # {p}
    <3>1. PICK q \in S \ {p} : \A r \in S \ {p} : next_sending[r] # q
      <4>1. S \ {p} \in SUBSET Proc /\ S \ {p} # {}
        BY <2>2
      <4> QED BY <4>1 DEF IInv, Lists, Begins
    <3>2. q # NULL
      BY IpcAssumption
    <3> QED BY <3>1, <3>2, <1>8
  <2> QED BY <2>1, <2>2
(* deadlock() found no way back from dest to p: S0 is closed and without p *)
<1>16. SendGraphAcyclic'
  <2> SUFFICES ASSUME NEW S \in SUBSET Proc, S # {},
                      \A q \in S : Sending(q)' /\ p_sendto'[q] \in S
               PROVE  FALSE
    BY DEF SendGraphAcyclic
  <2>1. CASE p \notin S
    <3>1. \A q \in S : Sending(q) /\ p_sendto[q] \in S
      BY <2>1, <1>3 DEF IInv, TypeOK
    <3> QED BY <3>1 DEF IInv, SendGraphAcyclic
  <2>2. CASE p \in S
    <3>1. PICK S0 \in SUBSET Proc :
            /\ dest \in S0 /\ p \notin S0
            /\ \A q \in S0 : Sending(q) => p_sendto[q] \in S0
      BY DEF deadlock
    <3>2. dest \in S
      BY <2>2 DEF IInv, TypeOK
    <3>3. \A q \in S \cap S0 : Sending(q) /\ p_sendto[q] \in S \cap S0
      BY <3>1, <1>3 DEF IInv, TypeOK
    <3>4. S \cap S0 \in SUBSET Proc /\ S \cap S0 # {}
      BY <3>1, <3>2
    <3> QED BY <3>3, <3>4 DEF IInv, SendGraphAcyclic
  <2> QED BY <2>1, <2>2
<1>17. NoMissedRendezvous'
  <2> SUFFICES ASSUME NEW d \in Proc, NEW q \in SendersTo(d)',
                      WaitsFor(d, q)'
               PROVE  FALSE
    BY DEF NoMissedRendezvous, SendersTo
  <2>1. WaitsFor(d, q)
    BY <1>3 DEF WaitsFor
  <2>2. CASE q = p
    BY <2>1, <2>2, <1>1, <1>10 DEF SendersTo
  <2>3. CASE q # p
    BY <2>1, <2>3, <1>10 DEF IInv, NoMissedRendezvous, SendersTo
  <2> QED BY <2>2, <2>3
<1>18. AssertsHold'
  BY <1>1, <1>2 DEF IInv, AssertsHold, TypeOK
<1> QED BY <1>5, <1>6, <1>11, <1>12, <1>13, <1>14, <1>15, <1>16, <1>17, <1>18
        DEF IInv, Lists

(* The sender a RECEIVE fetches from is in the queue of the caller.        *)
LEMMA FromIsSender ==
  ASSUME IInv, NEW p \in Proc, NEW src \in (Proc \ {p}) \cup {ANY},
         CopyOk(p, src)
  PROVE  SenderFor(p, src) \in SendersTo(p)
<1>1. CASE src = ANY
  BY <1>1 DEF SenderFor, CopyOk, IInv, Lists, Links
<1>2. CASE src # ANY
  BY <1>2 DEF SenderFor, CopyOk, SendersTo
<1> QED BY <1>1, <1>2

(* What unlinking the head of a queue, or one from the middle or the end,  *)
(* does to the links and to the sets of senders.                           *)
LEMMA UnlinkedLinks ==
  ASSUME IInv, NEW p \in Proc, NEW from \in SendersTo(p), Unlink(p, from),
         p_flags' = [p_flags EXCEPT ![from] = {}],
         p_sendto' = [p_sendto EXCEPT ![from] = NO_TASK]
  PROVE  /\ from \in Proc /\ from # NULL /\ Sending(from)
         /\ p_sendto[from] = p /\ from # p
         /\ q_sending[p] # from =>
              /\ PrevOf(p, from) \in SendersTo(p)
              /\ PrevOf(p, from) \in Proc /\ PrevOf(p, from) # NULL
              /\ next_sending[PrevOf(p, from)] = from
         /\ \A q \in Proc : next_sending[q] = from =>
              q_sending[p] # from /\ q = PrevOf(p, from)
         /\ next_sending[from] # from
         /\ next_sending'[from] = NULL
         /\ \A q \in Proc \ {from} :
              next_sending'[q] =
                IF q_sending[p] # from /\ q = PrevOf(p, from)
                THEN next_sending[from] ELSE next_sending[q]
         /\ q_sending' = IF q_sending[p] = from
                         THEN [q_sending EXCEPT ![p] = next_sending[from]]
                         ELSE q_sending
         /\ ~Sending(from)'
         /\ \A q \in Proc \ {from} : /\ Sending(q)' = Sending(q)
                                     /\ p_sendto'[q] = p_sendto[q]
         /\ \A d \in Proc :
              SendersTo(d)' = IF d = p THEN SendersTo(d) \ {from}
                                       ELSE SendersTo(d)
<1> DEFINE prev == PrevOf(p, from)
           head == q_sending[p] = from
<1> USE DEF Unlink
<1>1. /\ from \in Proc /\ from # NULL /\ Sending(from) /\ p_sendto[from] = p
      /\ from # p
  BY IpcAssumption DEF SendersTo, IInv, Fields, FieldsOf
<1>2. ~head => /\ prev \in SendersTo(p) /\ prev \in Proc /\ prev # NULL
               /\ next_sending[prev] = from
  BY PrevExists, IpcAssumption DEF IInv, SendersTo
<1>3. \A q \in Proc : next_sending[q] = from => ~head /\ q = prev
  BY <1>1, <1>2 DEF IInv, Lists, Links, OneBefore, SendersTo
<1>4. next_sending[from] # from
  <2>1. {from} \in SUBSET Proc /\ {from} # {}
    BY <1>1
  <2> QED BY <2>1 DEF IInv, Lists, Ends
<1>5. /\ next_sending'[from] = NULL
      /\ \A q \in Proc \ {from} :
           next_sending'[q] = IF ~head /\ q = prev THEN next_sending[from]
                                                   ELSE next_sending[q]
  BY <1>1, <1>2, <1>4 DEF IInv, TypeOK
<1>6. q_sending' = IF head THEN [q_sending EXCEPT ![p] = next_sending[from]]
                           ELSE q_sending
  OBVIOUS
<1>7. /\ ~Sending(from)'
      /\ \A q \in Proc \ {from} : /\ Sending(q)' = Sending(q)
                                  /\ p_sendto'[q] = p_sendto[q]
  BY <1>1 DEF Sending, IInv, TypeOK
<1>8. \A d \in Proc :
        SendersTo(d)' = IF d = p THEN SendersTo(d) \ {from} ELSE SendersTo(d)
  BY <1>1, <1>7 DEF SendersTo, IInv, TypeOK
<1> QED  BY <1>1, <1>2, <1>3, <1>4, <1>5, <1>6, <1>7, <1>8

(* Unlinking keeps the shape of the lists.                                 *)
LEMMA UnlinkLists ==
  ASSUME IInv, NEW p \in Proc, NEW from \in SendersTo(p), Unlink(p, from),
         p_flags' = [p_flags EXCEPT ![from] = {}],
         p_sendto' = [p_sendto EXCEPT ![from] = NO_TASK]
  PROVE  /\ q_sending' \in [Proc -> Proc \cup {NULL}]
         /\ next_sending' \in [Proc -> Proc \cup {NULL}]
         /\ \A q \in Proc : ~Sending(q)' => next_sending'[q] = NULL
         /\ Lists'
<1> DEFINE prev == PrevOf(p, from)
           head == q_sending[p] = from
<1> USE DEF Unlink
<1>1. /\ from \in Proc /\ from # NULL /\ Sending(from) /\ p_sendto[from] = p
      /\ from # p
  BY UnlinkedLinks
<1>2. ~head => /\ prev \in SendersTo(p) /\ prev \in Proc /\ prev # NULL
               /\ next_sending[prev] = from
  BY UnlinkedLinks
<1>3. \A q \in Proc : next_sending[q] = from => ~head /\ q = prev
  BY UnlinkedLinks
<1>4. next_sending[from] # from
  BY UnlinkedLinks
<1>5. /\ next_sending'[from] = NULL
      /\ \A q \in Proc \ {from} :
           next_sending'[q] = IF ~head /\ q = prev THEN next_sending[from]
                                                   ELSE next_sending[q]
  BY UnlinkedLinks
<1>6. q_sending' = IF head THEN [q_sending EXCEPT ![p] = next_sending[from]]
                           ELSE q_sending
  OBVIOUS
<1>7. /\ q_sending' \in [Proc -> Proc \cup {NULL}]
      /\ next_sending' \in [Proc -> Proc \cup {NULL}]
  BY <1>1, <1>2 DEF IInv, TypeOK
<1>8. /\ ~Sending(from)'
      /\ \A q \in Proc \ {from} : /\ Sending(q)' = Sending(q)
                                  /\ p_sendto'[q] = p_sendto[q]
  BY UnlinkedLinks
<1>9. \A d \in Proc :
        SendersTo(d)' = IF d = p THEN SendersTo(d) \ {from} ELSE SendersTo(d)
  BY UnlinkedLinks
<1>10. \A q \in Proc : ~Sending(q)' => next_sending'[q] = NULL
  BY <1>2, <1>5, <1>8 DEF IInv, Fields, FieldsOf, SendersTo
(* Nothing points to `from' any more.                                      *)
<1>11. \A q \in Proc : next_sending'[q] # from /\ q_sending'[q] # from
  <2>1. ASSUME NEW q \in Proc PROVE next_sending'[q] # from
    BY <1>1, <1>3, <1>4, <1>5
  <2>2. ASSUME NEW q \in Proc PROVE q_sending'[q] # from
    <3>1. q # p => q_sending[q] # from
      BY <1>1 DEF IInv, Lists, Links, SendersTo
    <3> QED BY <3>1, <1>4, <1>6 DEF IInv, TypeOK
  <2> QED BY <2>1, <2>2
(* The process behind `from', if there is one, also sends to p.            *)
<1>12. next_sending[from] # NULL =>
         next_sending[from] \in SendersTo(p) \ {from}
           /\ next_sending[from] # q_sending[p]
  BY <1>1, <1>4 DEF IInv, Lists, Links
<1>13. Links'
  <2>1. ASSUME NEW d \in Proc, q_sending'[d] # NULL
        PROVE  q_sending'[d] \in SendersTo(d)'
    <3>1. CASE head /\ d = p
      BY <3>1, <2>1, <1>6, <1>9, <1>12 DEF IInv, TypeOK
    <3>2. CASE ~(head /\ d = p)
      <4>1. q_sending'[d] = q_sending[d]
        BY <3>2, <1>6 DEF IInv, TypeOK
      <4> QED BY <4>1, <2>1, <1>9, <1>11 DEF IInv, Lists, Links
    <3> QED BY <3>1, <3>2
  <2>2. ASSUME NEW q \in Proc, next_sending'[q] # NULL
        PROVE  /\ Sending(q)'
               /\ next_sending'[q] \in SendersTo(p_sendto[q])'
               /\ next_sending'[q] # q_sending'[p_sendto'[q]]
    <3>1. q # from /\ p_sendto'[q] = p_sendto[q]
      BY <2>2, <1>5, <1>8
    <3>2. CASE ~head /\ q = prev
      <4>1. next_sending'[q] = next_sending[from] /\ q \in SendersTo(p)
        BY <3>1, <3>2, <1>2, <1>5
      <4>2. Sending(q) /\ p_sendto[q] = p
        BY <4>1 DEF SendersTo
      <4> QED BY <4>1, <4>2, <3>1, <3>2, <2>2, <1>6, <1>8, <1>9, <1>12
    <3>3. CASE ~(~head /\ q = prev)
      <4>1. next_sending'[q] = next_sending[q]
        BY <3>1, <3>3, <1>5
      <4>2. /\ Sending(q)
            /\ next_sending[q] \in SendersTo(p_sendto[q])
            /\ next_sending[q] # q_sending[p_sendto[q]]
        BY <4>1, <2>2 DEF IInv, Lists, Links
      <4>3. p_sendto[q] \in Proc
        BY <4>2 DEF IInv, Fields, FieldsOf
      <4>4. next_sending[q] # from
        BY <4>1, <1>11
      <4>5. next_sending[q] # q_sending'[p_sendto[q]]
        <5>1. CASE head /\ p_sendto[q] = p
          <6>1. q_sending'[p] = next_sending[from]
            BY <5>1, <1>6 DEF IInv, TypeOK
          <6> QED BY <5>1, <6>1, <4>1, <2>2, <3>1, <1>1
                  DEF IInv, Lists, OneBefore
        <5>2. CASE ~(head /\ p_sendto[q] = p)
          <6>1. q_sending'[p_sendto[q]] = q_sending[p_sendto[q]]
            BY <5>2, <4>3, <1>6 DEF IInv, TypeOK
          <6> QED BY <6>1, <4>2
        <5> QED BY <5>1, <5>2
      <4> QED BY <4>1, <4>2, <4>3, <4>4, <4>5, <3>1, <1>8, <1>9
    <3> QED BY <3>2, <3>3
  <2> QED BY <2>1, <2>2 DEF Links
<1>14. OneBefore'
  BY <1>1, <1>3, <1>5 DEF IInv, Lists, OneBefore
<1>15. Linked'
  <2> SUFFICES ASSUME NEW d \in Proc, NEW q \in SendersTo(d)'
               PROVE  \/ q_sending'[d] = q
                      \/ \E r \in SendersTo(d)' : next_sending'[r] = q
    BY DEF Linked
  <2>1. q \in SendersTo(d) /\ q # from /\ q \in Proc /\ q # NULL
    BY <1>8, <1>9, IpcAssumption DEF SendersTo
  <2>2. CASE q_sending[d] = q
    BY <2>1, <2>2, <1>6 DEF IInv, TypeOK
  <2>3. CASE \E r \in SendersTo(d) : next_sending[r] = q
    <3>1. PICK r \in SendersTo(d) : next_sending[r] = q
      BY <2>3
    <3>2. CASE r # from
      <4>1. r \in SendersTo(d)' /\ r \in Proc \ {from}
        BY <3>2, <1>9 DEF SendersTo
      <4>2. ~head => r # prev
        BY <3>1, <2>1, <1>2
      <4>3. next_sending'[r] = q
        BY <4>1, <4>2, <3>1, <1>5
      <4> QED BY <4>1, <4>3
    <3>3. CASE r = from
      <4>1. d = p
        BY <3>3, <1>1 DEF SendersTo
      <4>2. CASE head
        BY <4>1, <4>2, <3>1, <3>3, <1>6 DEF IInv, TypeOK
      <4>3. CASE ~head
        <5>1. prev \in SendersTo(d)' /\ prev \in Proc \ {from}
          BY <4>1, <4>3, <1>2, <1>4, <1>9
        <5> QED BY <5>1, <4>3, <3>1, <3>3, <1>5
      <4> QED BY <4>2, <4>3
    <3> QED BY <3>2, <3>3
  <2> QED BY <2>1, <2>2, <2>3 DEF IInv, Lists, Linked
<1>16. Ends'
  <2> SUFFICES ASSUME NEW S \in SUBSET Proc, S # {}, from \notin S
               PROVE  \E q \in S : next_sending'[q] \notin S
    BY <1>5, IpcAssumption DEF Ends
  <2>1. CASE ~head /\ prev \in S
    <3>1. S \cup {from} \in SUBSET Proc
      BY <1>1
    <3>2. PICK q \in S \cup {from} : next_sending[q] \notin S \cup {from}
      BY <3>1 DEF IInv, Lists, Ends
    <3>3. CASE q = from
      BY <3>2, <3>3, <2>1, <1>5
    <3>4. CASE q # from
      BY <3>2, <3>4, <1>2, <1>5
    <3> QED BY <3>3, <3>4
  <2>2. CASE ~(~head /\ prev \in S)
    <3>1. PICK q \in S : next_sending[q] \notin S
      BY DEF IInv, Lists, Ends
    <3> QED BY <3>1, <2>2, <1>5
  <2> QED BY <2>1, <2>2
<1>17. Begins'
  <2> SUFFICES ASSUME NEW S \in SUBSET Proc, S # {}, from \notin S
               PROVE  \E q \in S : \A r \in S : next_sending'[r] # q
    BY <1>11 DEF Begins
  <2>1. CASE ~head /\ prev \in S
    <3>1. S \cup {from} \in SUBSET Proc
      BY <1>1
    <3>2. PICK q \in S \cup {from} :
            \A r \in S \cup {from} : next_sending[r] # q
      BY <3>1 DEF IInv, Lists, Begins
    <3>3. q \in S
      BY <3>2, <2>1, <1>2
    <3> QED BY <3>2, <3>3, <1>5
  <2>2. CASE ~(~head /\ prev \in S)
    <3>1. PICK q \in S : \A r \in S : next_sending[r] # q
      BY DEF IInv, Lists, Begins
    <3> QED BY <3>1, <2>2, <1>5
  <2> QED BY <2>1, <2>2
<1> QED BY <1>7, <1>10, <1>13, <1>14, <1>15, <1>16, <1>17 DEF Lists

(* A sender leaves the queue of the caller and becomes runnable.           *)
LEMMA ReceiveFetchesInv ==
  ASSUME IInv, NEW p \in Proc, NEW src \in (Proc \ {p}) \cup {ANY},
         Running(p), ReceiveFetches(p, src)
  PROVE  IInv'
<1> PICK from \in SendersTo(p) : from = SenderFor(p, src)
  BY FromIsSender DEF ReceiveFetches
<1> USE DEF ReceiveFetches
<1>1. from \in Proc /\ Sending(from) /\ p_sendto[from] = p /\ from # p
  BY DEF SendersTo, IInv, Fields, FieldsOf
<1>2. /\ p_flags[from] = {SENDING} /\ p_msg[from] = from
      /\ p_recvfrom[from] = NO_TASK /\ ~Receiving(from)
  BY <1>1 DEF IInv, Fields, FieldsOf, Sending, Receiving, SENDING, RECEIVING
<1>3. p_flags' = [p_flags EXCEPT ![from] = {}]
  BY <1>2
<1>4. /\ ~Sending(from)' /\ ~Receiving(from)'
      /\ \A q \in Proc \ {from} : Sending(q)' = Sending(q)
      /\ \A q \in Proc \ {from} : Receiving(q)' = Receiving(q)
  BY <1>1, <1>3 DEF Sending, Receiving, IInv, TypeOK
<1>5. /\ q_sending' \in [Proc -> Proc \cup {NULL}]
      /\ next_sending' \in [Proc -> Proc \cup {NULL}]
      /\ \A q \in Proc : ~Sending(q)' => next_sending'[q] = NULL
      /\ Lists'
  BY <1>1, <1>3, UnlinkLists
<1>6. TypeOK'
  BY <1>1, <1>2, <1>3, <1>5 DEF IInv, TypeOK, StopState
<1>7. Fields'
  <2> SUFFICES ASSUME NEW q \in Proc PROVE FieldsOf(q)'
    BY DEF Fields
  <2>1. CASE q = from
    BY <2>1, <1>1, <1>2, <1>3, <1>4, <1>5 DEF IInv, TypeOK, FieldsOf
  <2>2. CASE q # from
    <3>1. /\ p_flags'[q] = p_flags[q] /\ p_sendto'[q] = p_sendto[q]
          /\ p_msg'[q] = p_msg[q] /\ p_recvfrom'[q] = p_recvfrom[q]
      BY <2>2, <1>3 DEF IInv, TypeOK
    <3> QED BY <2>2, <3>1, <1>4, <1>5 DEF IInv, Fields, FieldsOf
  <2> QED BY <2>1, <2>2
<1>8. SendGraphAcyclic'
  <2> SUFFICES ASSUME NEW S \in SUBSET Proc, S # {}
               PROVE  \E q \in S : ~(Sending(q)' /\ p_sendto'[q] \in S)
    BY DEF SendGraphAcyclic
  <2>1. PICK q \in S : ~(Sending(q) /\ p_sendto[q] \in S)
    BY DEF IInv, SendGraphAcyclic
  <2> QED BY <2>1, <1>1, <1>4 DEF IInv, TypeOK
<1>9. NoMissedRendezvous'
  <2> SUFFICES ASSUME NEW d \in Proc, NEW q \in Proc,
                      Sending(q)', p_sendto'[q] = d, WaitsFor(d, q)'
               PROVE  FALSE
    BY DEF NoMissedRendezvous, SendersTo
  <2>1. q # from /\ d # from
    BY <1>4 DEF WaitsFor
  <2>2. Sending(q) /\ p_sendto[q] = d /\ WaitsFor(d, q)
    BY <2>1, <1>4 DEF IInv, TypeOK, WaitsFor
  <2> QED BY <2>2 DEF IInv, NoMissedRendezvous, SendersTo
<1>10. AssertsHold'
  <2>1. Idle(p)
    BY DEF Idle, Running, IInv, Fields, FieldsOf, Sending, Receiving
  <2>2. q_sending[p] # NULL
    <3>1. OnQueue(p) = SendersTo(p)
      BY ListsGiveIntegrity DEF QueueIntegrity, IInv
    <3> QED BY <3>1, <1>1 DEF OnQueue
  <2>3. p_msg[from] # NULL
    BY <1>1, <1>2, IpcAssumption
  <2>4. FetchAsserts(p, from)
    BY <2>1, <2>2, <2>3, <1>1, <1>2 DEF FetchAsserts
  <2>5. p_flags'[from] = {}
    BY <1>1, <1>3 DEF IInv, TypeOK
  <2> QED BY <2>4, <2>5 DEF IInv, AssertsHold
<1> QED BY <1>5, <1>6, <1>7, <1>8, <1>9, <1>10 DEF IInv

(* The caller waits; nobody is blocked sending to it that it would accept. *)
LEMMA ReceiveBlocksInv ==
  ASSUME IInv, NEW p \in Proc, NEW src \in (Proc \ {p}) \cup {ANY},
         NEW b \in Body \cup {Blank}, Running(p), ReceiveBlocks(p, src, b)
  PROVE  IInv'
<1> USE DEF ReceiveBlocks
<1>1. /\ p_flags[p] = {} /\ ~Sending(p) /\ ~Receiving(p)
      /\ p_sendto[p] = NO_TASK
  BY DEF Running, IInv, Fields, FieldsOf, Sending, Receiving
<1>2. p_flags' = [p_flags EXCEPT ![p] = {RECEIVING}]
  BY <1>1
<1>3. /\ Receiving(p)'
      /\ \A q \in Proc : Sending(q)' = Sending(q)
      /\ \A q \in Proc \ {p} : Receiving(q)' = Receiving(q)
  BY <1>1, <1>2 DEF Sending, Receiving, IInv, TypeOK, SENDING, RECEIVING
<1>4. TypeOK'
  BY <1>2 DEF IInv, TypeOK, MESSAGE, StopState, Outgoing
<1>5. Fields'
  <2> SUFFICES ASSUME NEW q \in Proc PROVE FieldsOf(q)'
    BY DEF Fields
  <2>1. CASE q = p
    BY <2>1, <1>1, <1>2, <1>3
       DEF IInv, TypeOK, Fields, FieldsOf
  <2>2. CASE q # p
    <3>1. /\ p_flags'[q] = p_flags[q] /\ p_msg'[q] = p_msg[q]
          /\ p_recvfrom'[q] = p_recvfrom[q]
      BY <2>2, <1>2 DEF IInv, TypeOK
    <3> QED BY <2>2, <3>1, <1>3 DEF IInv, Fields, FieldsOf
  <2> QED BY <2>1, <2>2
<1>6. Lists'
  BY <1>3 DEF IInv, Lists, Links, OneBefore, Linked, Ends, Begins, SendersTo
<1>7. SendGraphAcyclic'
  BY <1>3 DEF IInv, SendGraphAcyclic
<1>8. NoMissedRendezvous'
  <2> SUFFICES ASSUME NEW d \in Proc, NEW q \in Proc,
                      Sending(q)', p_sendto'[q] = d, WaitsFor(d, q)'
               PROVE  FALSE
    BY DEF NoMissedRendezvous, SendersTo
  <2>1. Sending(q) /\ p_sendto[q] = d /\ q \in SendersTo(d)
    BY <1>3 DEF SendersTo
  <2>2. CASE d # p
    BY <2>1, <2>2, <1>3
       DEF IInv, TypeOK, NoMissedRendezvous, WaitsFor
  <2>3. CASE d = p /\ src # ANY
    BY <2>1, <2>3 DEF CopyOk, WaitsFor, IInv, TypeOK
  <2>4. CASE d = p /\ src = ANY
    <3>1. q \in OnQueue(p)
      BY <2>1, <2>4, ListsGiveIntegrity DEF QueueIntegrity, IInv
    <3> QED BY <3>1, <2>4 DEF OnQueue, CopyOk
  <2> QED BY <2>2, <2>3, <2>4
<1>9. AssertsHold'
  BY <1>1, <1>2 DEF IInv, AssertsHold, TypeOK
<1> QED BY <1>4, <1>5, <1>6, <1>7, <1>8, <1>9 DEF IInv

LEMMA StutterInv == IInv /\ UNCHANGED vars => IInv'
<1> SUFFICES ASSUME IInv, UNCHANGED vars PROVE IInv'
  OBVIOUS
<1> USE DEF vars
<1>1. TypeOK' /\ AssertsHold'
  BY DEF IInv, TypeOK, AssertsHold
<1>2. Fields'
  BY DEF IInv, Fields, FieldsOf, Sending, Receiving
<1>3. Lists'
  BY DEF IInv, Lists, Links, OneBefore, Linked, Ends, Begins, SendersTo,
         Sending
<1>4. SendGraphAcyclic' /\ NoMissedRendezvous'
  BY DEF IInv, SendGraphAcyclic, NoMissedRendezvous, SendersTo, WaitsFor,
         Sending, Receiving
<1> QED BY <1>1, <1>2, <1>3, <1>4 DEF IInv

LEMMA StepInv == IInv /\ [Next]_vars => IInv'
<1> SUFFICES ASSUME IInv, Next PROVE IInv'
  BY StutterInv
<1>1. ASSUME NEW p \in Proc, NEW dest \in Proc \ {p}, NEW b \in Body,
             Send(p, dest, b)
      PROVE  IInv'
  BY <1>1, SendPanicsInv, SendDeliversInv, SendBlocksInv DEF Send
<1>2. ASSUME NEW p \in Proc, NEW src \in (Proc \ {p}) \cup {ANY},
             NEW b \in {Blank, msg[p].body}, Receive(p, src, b)
      PROVE  IInv'
  <2>1. b \in Body \cup {Blank}
    BY <1>2 DEF IInv, TypeOK, MESSAGE
  <2> QED BY <1>2, <2>1, ReceiveFetchesInv, ReceiveBlocksInv DEF Receive
<1> QED BY <1>1, <1>2 DEF Next

-----------------------------------------------------------------------------
(***************************************************************************)
(* The theorems.                                                           *)
(***************************************************************************)

(* The strengthened invariant holds in every state the kernel can reach.   *)
THEOREM Invariance == Spec => []IInv
  BY InitInv, StepInv, PTL DEF Spec

(* Every field of the process table always holds a value of its kind.      *)
THEOREM TypeCorrect == Spec => []TypeOK
<1>1. IInv => TypeOK
  BY DEF IInv
<1> QED BY <1>1, Invariance, PTL

(* The list of senders of each process is always exactly the set of the    *)
(* processes blocked in a SEND to it.                                      *)
THEOREM QueuesCorrect == Spec => []QueueIntegrity
<1>1. IInv => QueueIntegrity
  BY ListsGiveIntegrity DEF IInv
<1> QED BY <1>1, Invariance, PTL

(* deadlock() does its job: no circle of blocked senders ever exists.      *)
THEOREM NoCircle == Spec => []SendGraphAcyclic
<1>1. IInv => SendGraphAcyclic
  BY DEF IInv
<1> QED BY <1>1, Invariance, PTL

(* No sender stays blocked on a process that is waiting for it.            *)
THEOREM RendezvousMet == Spec => []NoMissedRendezvous
<1>1. IInv => NoMissedRendezvous
  BY DEF IInv
<1> QED BY <1>1, Invariance, PTL

(* None of the assertions in msg_send() and msg_receive() can fail.        *)
THEOREM NoAssertionFails == Spec => []AssertsHold
<1>1. IInv => AssertsHold
  BY DEF IInv
<1> QED BY <1>1, Invariance, PTL

(* A blocked SEND returns only when its message has been handed over.      *)
THEOREM SendDelivered == Spec => SendReturnsDelivered
<1>1. IInv /\ [Next]_vars => [HandedOver]_vars
  <2> SUFFICES ASSUME IInv, Next, NEW q \in Proc,
                      Sending(q), ~Sending(q)'
               PROVE  /\ p_sendto[q] \in Proc
                      /\ msg'[p_sendto[q]] = msg[q]
                      /\ msg'[q] = msg[q]
    BY DEF HandedOver
  <2>1. ASSUME NEW p \in Proc, NEW dest \in Proc \ {p}, NEW b \in Body,
               Send(p, dest, b)
        PROVE  FALSE
    <3>1. CASE SendPanics(p, dest, b)
      BY <3>1 DEF SendPanics, Sending
    <3>2. CASE SendDelivers(p, dest, b)
      BY <3>2 DEF SendDelivers, Sending, IInv, TypeOK, SENDING, RECEIVING
    <3>3. CASE SendBlocks(p, dest, b)
      BY <3>3 DEF SendBlocks, Sending, IInv, TypeOK
    <3> QED BY <2>1, <3>1, <3>2, <3>3 DEF Send
  <2>2. ASSUME NEW p \in Proc, NEW src \in (Proc \ {p}) \cup {ANY},
               NEW b \in {Blank, msg[p].body}, Receive(p, src, b)
        PROVE  /\ p_sendto[q] \in Proc
               /\ msg'[p_sendto[q]] = msg[q]
               /\ msg'[q] = msg[q]
    <3>1. CASE ReceiveBlocks(p, src, b)
      BY <3>1 DEF ReceiveBlocks, Sending, IInv, TypeOK
    <3>2. CASE ReceiveFetches(p, src)
      <4>1. PICK from \in SendersTo(p) : from = SenderFor(p, src)
        BY <3>2, FromIsSender DEF ReceiveFetches
      <4>2. q = from
        BY <3>2, <4>1 DEF ReceiveFetches, Sending, IInv, TypeOK, SendersTo
      <4>3. p_sendto[q] = p /\ p_msg[q] = q /\ p # q
        BY <4>1, <4>2 DEF SendersTo, IInv, Fields, FieldsOf, Sending
      <4> QED BY <3>2, <4>1, <4>2, <4>3 DEF ReceiveFetches, IInv, TypeOK
    <3> QED BY <2>2, <3>1, <3>2 DEF Receive
  <2> QED BY <2>1, <2>2 DEF Next
<1> QED BY <1>1, Invariance, PTL DEF Spec, SendReturnsDelivered

(* A blocked RECEIVE returns with a message of a process it asked for.     *)
THEOREM ReceiveAsked == Spec => ReceiveReturnsAsked
<1>1. IInv /\ [Next]_vars => [AskedFor]_vars
  <2> SUFFICES ASSUME IInv, Next, NEW q \in Proc,
                      Receiving(q), ~Receiving(q)'
               PROVE  /\ msg'[q].source \in Proc \ {q}
                      /\ p_recvfrom[q] \in {msg'[q].source, ANY}
                      /\ msg'[q].body \in Body
    BY DEF AskedFor
  <2>1. ASSUME NEW p \in Proc, NEW dest \in Proc \ {p}, NEW b \in Body,
               Send(p, dest, b)
        PROVE  /\ msg'[q].source \in Proc \ {q}
               /\ p_recvfrom[q] \in {msg'[q].source, ANY}
               /\ msg'[q].body \in Body
    <3>1. CASE SendPanics(p, dest, b)
      BY <3>1 DEF SendPanics, Receiving
    <3>2. CASE SendDelivers(p, dest, b)
      <4>1. q = dest
        BY <3>2 DEF SendDelivers, Receiving, IInv, TypeOK
      <4>2. p_msg[dest] = dest
        BY <4>1 DEF IInv, Fields, FieldsOf, Receiving
      <4>3. msg'[q] = Outgoing(p, b) /\ p_recvfrom[q] \in {p, ANY}
        BY <3>2, <4>1, <4>2 DEF SendDelivers, WaitsFor, IInv, TypeOK
      <4> QED BY <4>1, <4>3 DEF Outgoing
    <3>3. CASE SendBlocks(p, dest, b)
      BY <3>3 DEF SendBlocks, Receiving, IInv, TypeOK
    <3> QED BY <2>1, <3>1, <3>2, <3>3 DEF Send
  <2>2. ASSUME NEW p \in Proc, NEW src \in (Proc \ {p}) \cup {ANY},
               NEW b \in {Blank, msg[p].body}, Receive(p, src, b)
        PROVE  FALSE
    <3>1. CASE ReceiveBlocks(p, src, b)
      BY <3>1 DEF ReceiveBlocks, Receiving, IInv, TypeOK
    <3>2. CASE ReceiveFetches(p, src)
      BY <3>2 DEF ReceiveFetches, Receiving, IInv, TypeOK, SENDING, RECEIVING
    <3> QED BY <2>2, <3>1, <3>2 DEF Receive
  <2> QED BY <2>1, <2>2 DEF Next
<1> QED BY <1>1, Invariance, PTL DEF Spec, ReceiveReturnsAsked

(* What a blocked process waits for, and its buffer, stay as they are.     *)
THEOREM BlockedStays == Spec => BlockedUndisturbed
<1>1. IInv /\ [Next]_vars => [Undisturbed]_vars
  <2> SUFFICES ASSUME IInv, Next, NEW q \in Proc,
                      p_flags[q] # {}, p_flags'[q] = p_flags[q]
               PROVE  /\ p_msg'[q] = p_msg[q]
                      /\ p_recvfrom'[q] = p_recvfrom[q]
                      /\ p_sendto'[q] = p_sendto[q]
                      /\ msg'[q] = msg[q]
    BY DEF Undisturbed
  <2>1. ASSUME NEW p \in Proc, NEW dest \in Proc \ {p}, NEW b \in Body,
               Send(p, dest, b)
        PROVE  /\ p_msg'[q] = p_msg[q]
               /\ p_recvfrom'[q] = p_recvfrom[q]
               /\ p_sendto'[q] = p_sendto[q]
               /\ msg'[q] = msg[q]
    <3>1. q # p
      BY <2>1 DEF Send, Running
    <3>2. CASE SendPanics(p, dest, b)
      BY <3>1, <3>2 DEF SendPanics, IInv, TypeOK
    <3>3. CASE SendDelivers(p, dest, b)
      <4>1. /\ Receiving(dest) /\ p_msg[dest] = dest
            /\ p_flags[dest] = {RECEIVING}
        BY <3>3 DEF SendDelivers, WaitsFor, IInv, Fields, FieldsOf,
                    Receiving, SENDING, RECEIVING
      <4>2. q # dest
        BY <3>3, <4>1 DEF SendDelivers, IInv, TypeOK
      <4> QED BY <3>1, <3>3, <4>1, <4>2 DEF SendDelivers, IInv, TypeOK
    <3>4. CASE SendBlocks(p, dest, b)
      BY <3>1, <3>4 DEF SendBlocks, IInv, TypeOK
    <3> QED BY <2>1, <3>2, <3>3, <3>4 DEF Send
  <2>2. ASSUME NEW p \in Proc, NEW src \in (Proc \ {p}) \cup {ANY},
               NEW b \in {Blank, msg[p].body}, Receive(p, src, b)
        PROVE  /\ p_msg'[q] = p_msg[q]
               /\ p_recvfrom'[q] = p_recvfrom[q]
               /\ p_sendto'[q] = p_sendto[q]
               /\ msg'[q] = msg[q]
    <3>1. q # p
      BY <2>2 DEF Receive, Running
    <3>2. CASE ReceiveBlocks(p, src, b)
      BY <3>1, <3>2 DEF ReceiveBlocks, IInv, TypeOK
    <3>3. CASE ReceiveFetches(p, src)
      <4>1. PICK from \in SendersTo(p) : from = SenderFor(p, src)
        BY <3>3, FromIsSender DEF ReceiveFetches
      <4>2. p_flags[from] = {SENDING} /\ from \in Proc
        BY <4>1 DEF SendersTo, Sending, IInv, Fields, FieldsOf, SENDING,
                    RECEIVING
      <4>3. q # from
        BY <3>3, <4>1, <4>2 DEF ReceiveFetches, IInv, TypeOK
      <4> QED BY <3>1, <3>3, <4>1, <4>3 DEF ReceiveFetches, IInv, TypeOK
    <3> QED BY <2>2, <3>2, <3>3 DEF Receive
  <2> QED BY <2>1, <2>2 DEF Next
<1> QED BY <1>1, Invariance, PTL DEF Spec, BlockedUndisturbed

-----------------------------------------------------------------------------
(***************************************************************************)
(* How Ipc implements Rendezvous.  The list of each process, read from its *)
(* head, is a sequence that holds every sender to the process once; that   *)
(* such a sequence exists is part of the invariant, because a list that is *)
(* only known to end and to begin need not be one.                         *)
(***************************************************************************)

(* Natural numbers have no infinite descent, as a least counterexample.    *)
Less == {ss \in Nat \X Nat : ss[1] < ss[2]}

LEMMA LeastNatural ==
  ASSUME NEW T \in SUBSET Nat, T # {}
  PROVE  \E n \in T : \A m \in T : n <= m
<1>1. IsWellFoundedOn(Less, Nat)
  BY NatLessThanWellFounded DEF OpToRel, Less
<1>2. PICK n \in T : \A m \in T : ~(<<m, n>> \in Less)
  BY <1>1, WFMin
<1>3. \A m \in T : ~(m < n)
  BY <1>2 DEF Less
<1> QED  BY <1>3

(* s is the list of d: each sender to d, once, in the order of the links.  *)
IsQueue(s, d) ==
  /\ s \in Seq(Proc)
  /\ \A n \in 1..Len(s) : s[n] \in SendersTo(d)
  /\ \A p \in SendersTo(d) : \E n \in 1..Len(s) : s[n] = p
  /\ \A m, n \in 1..Len(s) : s[m] = s[n] => m = n
  /\ Follows(s, d)

(* The lists are sequences: what the refinement reads exists.              *)
Readable == \A d \in Proc : IsQueue(Queue(d), d)

RInv == IInv /\ Readable

(* There is one way to read a list.                                        *)
OneReading == \A d \in Proc : \A s \in Seq(Proc) : IsQueue(s, d) => Queue(d) = s

LEMMA QueueIs == IInv => OneReading
<1> SUFFICES ASSUME IInv, NEW d \in Proc, NEW s \in Seq(Proc), IsQueue(s, d)
             PROVE  Queue(d) = s
  BY DEF OneReading
<1> DEFINE S == SendersTo(d)
           n == Len(s)
<1>1. OnQueue(d) = S /\ n \in Nat /\ s \in [1..n -> S]
  BY ListsGiveIntegrity DEF IInv, QueueIntegrity, IsQueue
<1>2. Cardinality(S) = n
  <2>1. s \in Bijection(1..n, S)
    BY <1>1 DEF IsQueue, Bijection, Injection, IsInjective, Surjection
  <2> QED  BY <2>1, <1>1, FS_CountingElements DEF ExistsBijection
<1>3. s \in SetToSeqs(OnQueue(d)) /\ Follows(s, d)
  BY <1>1, <1>2 DEF SetToSeqs, IsQueue
<1>4. ASSUME NEW t \in SetToSeqs(OnQueue(d)), Follows(t, d)
      PROVE  t = s
  <2>1. t \in [1..n -> S]
    BY <1>1, <1>2 DEF SetToSeqs
  <2>2. t \in Seq(S) /\ Len(t) = n
    BY <2>1, <1>1
  <2> DEFINE T == {k \in Nat : k \in 1..n /\ t[k] # s[k]}
  <2>3. CASE T = {}
    <3>1. ASSUME NEW k \in 1..n PROVE t[k] = s[k]
      <4>1. k \in Nat /\ k \notin T
        BY <1>1, <2>3
      <4> QED  BY <4>1
    <3>2. t = [k \in 1..n |-> t[k]] /\ s = [k \in 1..n |-> s[k]]
      BY <2>1, <1>1
    <3> QED  BY <3>1, <3>2
  <2>4. CASE T # {}
    <3>1. PICK k \in T : \A m \in T : k <= m
      BY <2>4, LeastNatural
    <3>2. k # 1
      BY <3>1, <2>2, <1>4, <1>1 DEF IsQueue, Follows
    <3>3. k - 1 \in 1..n /\ t[k - 1] = s[k - 1]
      BY <3>1, <3>2, <1>1
    <3>4. k \in 1..n /\ t[k] # s[k]
      BY <3>1
    <3>5. t[k] = next_sending[t[k - 1]]
      BY <3>2, <3>4, <2>2, <1>4 DEF Follows
    <3>6. s[k] = next_sending[s[k - 1]]
      BY <3>2, <3>4 DEF IsQueue, Follows
    <3> QED  BY <3>3, <3>4, <3>5, <3>6
  <2> QED  BY <2>3, <2>4
<1> QED  BY <1>3, <1>4 DEF Queue

(* The first and the last of a list.                                       *)
LEMMA QueueEnds ==
  ASSUME IInv, NEW d \in Proc, NEW s, IsQueue(s, d)
  PROVE  /\ Len(s) \in Nat
         /\ s = <<>> <=> q_sending[d] = NULL
         /\ s # <<>> => /\ Len(s) \in 1..Len(s)
                        /\ next_sending[s[Len(s)]] = NULL
                        /\ LastOf(d) = s[Len(s)]
<1>1. /\ s \in Seq(Proc) /\ Len(s) \in Nat
      /\ \A n \in 1..Len(s) : s[n] \in SendersTo(d) /\ s[n] \in Proc
  BY DEF IsQueue, SendersTo
<1>2. s # <<>> => 1 \in 1..Len(s) /\ Len(s) \in 1..Len(s)
  BY <1>1
<1>3. s = <<>> <=> q_sending[d] = NULL
  <2>1. CASE s # <<>>
    BY <1>1, <1>2, <2>1, IpcAssumption DEF IsQueue, Follows
  <2>2. CASE s = <<>>
    <3>1. SendersTo(d) = {}
      BY <2>2 DEF IsQueue, SendersTo
    <3> QED  BY <3>1, <2>2 DEF IInv, Lists, Links
  <2> QED  BY <2>1, <2>2
<1>4. ASSUME s # <<>> PROVE next_sending[s[Len(s)]] = NULL
  <2> DEFINE l == s[Len(s)]
  <2> SUFFICES ASSUME next_sending[l] # NULL PROVE FALSE
    OBVIOUS
  <2>1. l \in Proc /\ p_sendto[l] = d
    BY <1>1, <1>2, <1>4 DEF SendersTo
  <2>2. next_sending[l] \in SendersTo(d) /\ next_sending[l] # q_sending[d]
    BY <2>1 DEF IInv, Lists, Links
  <2>3. PICK n \in 1..Len(s) : s[n] = next_sending[l]
    BY <2>2 DEF IsQueue
  <2>4. n # 1 /\ s[n] = next_sending[s[n - 1]]
    BY <2>2, <2>3 DEF IsQueue, Follows
  <2>5. n - 1 \in 1..Len(s) /\ s[n - 1] \in Proc
    BY <2>4, <1>1
  <2>6. s[n - 1] = l
    BY <2>1, <2>3, <2>4, <2>5 DEF IInv, Lists, OneBefore
  <2>7. n - 1 = Len(s)
    BY <2>5, <2>6, <1>2, <1>4 DEF IsQueue
  <2> QED  BY <2>7, <1>1
<1>5. ASSUME s # <<>> PROVE LastOf(d) = s[Len(s)]
  <2>1. OnQueue(d) = SendersTo(d)
    BY ListsGiveIntegrity DEF IInv, QueueIntegrity
  <2>2. LastOf(d) \in SendersTo(d) /\ next_sending[LastOf(d)] = NULL
    BY <1>3, <1>5, LastExists DEF IInv
  <2>3. PICK n \in 1..Len(s) : s[n] = LastOf(d)
    BY <2>2 DEF IsQueue
  <2>4. CASE n # Len(s)
    <3>1. n + 1 \in 1..Len(s) /\ n + 1 # 1
      BY <2>4, <1>1
    <3>2. s[n + 1] = next_sending[s[n]]
      BY <3>1, <1>1 DEF IsQueue, Follows
    <3> QED  BY <3>1, <3>2, <2>2, <2>3, <1>1, IpcAssumption
  <2> QED  BY <2>3, <2>4
<1> QED  BY <1>1, <1>2, <1>3, <1>4, <1>5

(* A list a step does not touch.                                           *)
LEMMA QueueKept ==
  ASSUME NEW d \in Proc, NEW s, IsQueue(s, d),
         SendersTo(d)' = SendersTo(d), q_sending'[d] = q_sending[d],
         \A q \in SendersTo(d) : next_sending'[q] = next_sending[q]
  PROVE  IsQueue(s, d)'
<1>1. Follows(s, d)'
  <2> SUFFICES ASSUME NEW n \in 1..Len(s)
               PROVE  s[n] = IF n = 1 THEN q_sending'[d]
                                      ELSE next_sending'[s[n - 1]]
    BY DEF Follows
  <2>1. s[n] = IF n = 1 THEN q_sending[d] ELSE next_sending[s[n - 1]]
    BY DEF IsQueue, Follows
  <2>2. n # 1 => s[n - 1] \in SendersTo(d)
    BY DEF IsQueue
  <2> QED  BY <2>1, <2>2
<1> QED  BY <1>1 DEF IsQueue

(* msg_send() appends the caller to the list of dest.                      *)
LEMMA QueueJoined ==
  ASSUME IInv, NEW p \in Proc, NEW dest \in Proc \ {p}, NEW b \in Body,
         Running(p), SendBlocks(p, dest, b), NEW s, IsQueue(s, dest)
  PROVE  IsQueue(Append(s, p), dest)'
<1> DEFINE t == Append(s, p)
<1>1. /\ s \in Seq(Proc) /\ Len(s) \in Nat
      /\ \A n \in 1..Len(s) : s[n] \in SendersTo(dest) /\ s[n] # p
  BY JoinedLinks DEF IsQueue
<1>2. /\ t \in Seq(Proc) /\ Len(t) = Len(s) + 1 /\ t[Len(s) + 1] = p
      /\ \A n \in 1..Len(s) : t[n] = s[n]
  BY <1>1
<1>3. SendersTo(dest)' = SendersTo(dest) \cup {p}
  BY JoinedLinks
<1>4. \A n \in 1..Len(t) : t[n] \in SendersTo(dest)'
  BY <1>1, <1>2, <1>3
<1>5. \A q \in SendersTo(dest)' : \E n \in 1..Len(t) : t[n] = q
  <2> SUFFICES ASSUME NEW q \in SendersTo(dest) PROVE \E n \in 1..Len(t) : t[n] = q
    BY <1>1, <1>2, <1>3
  <2>1. PICK n \in 1..Len(s) : s[n] = q
    BY DEF IsQueue
  <2> QED  BY <2>1, <1>1, <1>2
<1>6. \A m, n \in 1..Len(t) : t[m] = t[n] => m = n
  <2> SUFFICES ASSUME NEW m \in 1..Len(t), NEW n \in 1..Len(t), t[m] = t[n]
               PROVE  m = n
    OBVIOUS
  <2>1. CASE m \in 1..Len(s) /\ n \in 1..Len(s)
    BY <2>1, <1>2 DEF IsQueue
  <2>2. CASE ~(m \in 1..Len(s) /\ n \in 1..Len(s))
    BY <2>2, <1>1, <1>2
  <2> QED  BY <2>1, <2>2
<1>7. Follows(t, dest)'
  <2> SUFFICES ASSUME NEW n \in 1..Len(t)
               PROVE  t[n] = IF n = 1 THEN q_sending'[dest]
                                      ELSE next_sending'[t[n - 1]]
    BY DEF Follows
  <2>1. CASE s = <<>>
    <3>1. q_sending'[dest] = p
      BY <2>1, QueueEnds, JoinedLinks DEF IInv, TypeOK
    <3> QED  BY <3>1, <2>1, <1>2
  <2>2. CASE s # <<>>
    <3>1. /\ q_sending[dest] # NULL /\ LastOf(dest) = s[Len(s)]
          /\ Len(s) \in 1..Len(s)
      BY <2>2, QueueEnds
    <3>2. /\ q_sending'[dest] = q_sending[dest]
          /\ \A q \in Proc \ {p} : next_sending'[q] =
               IF q = s[Len(s)] THEN p ELSE next_sending[q]
      BY <3>1, JoinedLinks
    <3>3. CASE n = Len(s) + 1
      <4>1. t[n] = p /\ n # 1 /\ t[n - 1] = s[Len(s)]
        BY <3>3, <3>1, <1>1, <1>2
      <4>2. s[Len(s)] \in Proc \ {p}
        BY <3>1, <1>1
      <4> QED  BY <4>1, <4>2, <3>2
    <3>4. CASE n # Len(s) + 1 /\ n # 1
      <4>1. n \in 1..Len(s) /\ n - 1 \in 1..Len(s) /\ n - 1 # Len(s)
        BY <3>4, <1>1, <1>2
      <4>2. s[n - 1] \in Proc \ {p} /\ s[n - 1] # s[Len(s)]
        BY <4>1, <3>1, <1>1 DEF IsQueue
      <4>3. s[n] = next_sending[s[n - 1]]
        BY <4>1, <3>4 DEF IsQueue, Follows
      <4> QED  BY <4>1, <4>2, <4>3, <3>2, <3>4, <1>2
    <3>5. CASE n # Len(s) + 1 /\ n = 1
      <4>1. 1 \in 1..Len(s)
        BY <3>1, <1>1
      <4>2. s[1] = q_sending[dest]
        BY <4>1 DEF IsQueue, Follows
      <4> QED  BY <4>1, <4>2, <3>2, <3>5, <1>2
    <3> QED  BY <3>3, <3>4, <3>5
  <2> QED  BY <2>1, <2>2
<1> QED  BY <1>2, <1>4, <1>5, <1>6, <1>7 DEF IsQueue

(* msg_receive() takes one out of the list of p, which keeps its order.    *)
LEMMA QueueLeft ==
  ASSUME IInv, NEW p \in Proc, NEW from \in SendersTo(p), Unlink(p, from),
         p_flags' = [p_flags EXCEPT ![from] = {}],
         p_sendto' = [p_sendto EXCEPT ![from] = NO_TASK]
  PROVE  \A s : IsQueue(s, p) =>
           \A k \in 1..Len(s) : s[k] = from => IsQueue(RemoveAt(s, k), p)'
<1>1. \A q \in Proc : next_sending[q] = from =>
        q_sending[p] # from /\ q = PrevOf(p, from)
  BY UnlinkedLinks
<1>2. \A q \in Proc \ {from} :
        next_sending'[q] = IF q_sending[p] # from /\ q = PrevOf(p, from)
                           THEN next_sending[from] ELSE next_sending[q]
  BY UnlinkedLinks
<1>3. q_sending'[p] = IF q_sending[p] = from THEN next_sending[from]
                                             ELSE q_sending[p]
  <2>1. q_sending \in [Proc -> Proc \cup {NULL}]
    BY DEF IInv, TypeOK
  <2>2. q_sending' = IF q_sending[p] = from
                     THEN [q_sending EXCEPT ![p] = next_sending[from]]
                     ELSE q_sending
    BY UnlinkedLinks
  <2> QED  BY <2>1, <2>2
<1>4. SendersTo(p)' = SendersTo(p) \ {from}
  BY UnlinkedLinks
<1> SUFFICES ASSUME NEW s, IsQueue(s, p), NEW k \in 1..Len(s), s[k] = from
             PROVE  IsQueue(RemoveAt(s, k), p)'
  OBVIOUS
<1> DEFINE t == RemoveAt(s, k)
           at(n) == IF n < k THEN n ELSE n + 1
<1>5. /\ s \in Seq(Proc) /\ Len(s) \in Nat /\ k \in Nat \ {0} /\ k <= Len(s)
      /\ \A n \in 1..Len(s) : s[n] \in SendersTo(p) /\ s[n] \in Proc
      /\ \A m, n \in 1..Len(s) : s[m] = s[n] => m = n
  BY DEF IsQueue
<1>6. /\ t \in Seq(Proc) /\ Len(t) = Len(s) - 1
      /\ \A n \in 1..Len(t) : t[n] = s[at(n)] /\ at(n) \in 1..Len(s) /\ at(n) # k
  <2> DEFINE front == SubSeq(s, 1, k - 1)
             back  == SubSeq(s, k + 1, Len(s))
  <2>1. /\ front \in Seq(Proc) /\ Len(front) = k - 1
        /\ \A n \in 1..(k - 1) : front[n] = s[n]
    BY <1>5
  <2>2. /\ back \in Seq(Proc) /\ Len(back) = Len(s) - k
        /\ \A n \in 1..(Len(s) - k) : back[n] = s[k + n]
    BY <1>5
  <2>3. t = front \o back
    BY DEF RemoveAt
  <2> HIDE DEF front, back, t
  <2>4. t \in Seq(Proc) /\ Len(t) = Len(s) - 1
    BY <2>1, <2>2, <2>3, <1>5
  <2>5. ASSUME NEW n \in 1..Len(t)
        PROVE  t[n] = s[at(n)] /\ at(n) \in 1..Len(s) /\ at(n) # k
    <3>1. CASE n < k
      BY <3>1, <2>1, <2>2, <2>3, <2>4, <1>5
    <3>2. CASE ~(n < k)
      <4>1. t[n] = back[n - (k - 1)] /\ n - (k - 1) \in 1..(Len(s) - k)
        BY <3>2, <2>1, <2>2, <2>3, <2>4, <1>5
      <4>2. k + (n - (k - 1)) = n + 1 /\ n + 1 \in 1..Len(s)
        BY <3>2, <2>4, <1>5
      <4> QED  BY <4>1, <4>2, <2>2, <3>2, <1>5
    <3> QED  BY <3>1, <3>2
  <2> QED  BY <2>4, <2>5
<1> HIDE DEF t
<1>7. \A n \in 1..Len(t) : t[n] \in SendersTo(p)'
  BY <1>5, <1>6, <1>4
<1>8. \A q \in SendersTo(p)' : \E n \in 1..Len(t) : t[n] = q
  <2> SUFFICES ASSUME NEW q \in SendersTo(p) \ {from}
               PROVE  \E n \in 1..Len(t) : t[n] = q
    BY <1>4
  <2>1. PICK m \in 1..Len(s) : s[m] = q
    BY DEF IsQueue
  <2>2. m # k
    BY <2>1
  <2>3. CASE m < k
    <3>1. m \in 1..Len(t) /\ at(m) = m
      BY <2>3, <1>5, <1>6
    <3> QED  BY <3>1, <2>1, <1>6
  <2>4. CASE m > k
    <3>1. m - 1 \in 1..Len(t) /\ at(m - 1) = m
      BY <2>4, <1>5, <1>6
    <3> QED  BY <3>1, <2>1, <1>6
  <2> QED  BY <2>2, <2>3, <2>4, <1>5
<1>9. \A m, n \in 1..Len(t) : t[m] = t[n] => m = n
  <2> SUFFICES ASSUME NEW m \in 1..Len(t), NEW n \in 1..Len(t), t[m] = t[n]
               PROVE  m = n
    OBVIOUS
  <2>1. at(m) = at(n)
    BY <1>5, <1>6
  <2> QED  BY <2>1, <1>5, <1>6
<1>10. Follows(t, p)'
  <2> SUFFICES ASSUME NEW n \in 1..Len(t)
               PROVE  t[n] = IF n = 1 THEN q_sending'[p]
                                      ELSE next_sending'[t[n - 1]]
    BY DEF Follows
  <2>1. \A m \in 1..Len(s) : s[m] = IF m = 1 THEN q_sending[p]
                                            ELSE next_sending[s[m - 1]]
    BY DEF IsQueue, Follows
  <2>2. q_sending[p] = s[1] /\ (q_sending[p] = from <=> k = 1)
    <3>1. 1 \in 1..Len(s)
      BY <1>5
    <3> QED  BY <3>1, <2>1, <1>5
  (* What links to the sender taken out is the one before it.              *)
  <2>3. k # 1 => PrevOf(p, from) = s[k - 1] /\ s[k - 1] \in Proc \ {from}
    <3> SUFFICES ASSUME k # 1
                 PROVE  PrevOf(p, from) = s[k - 1] /\ s[k - 1] \in Proc \ {from}
      OBVIOUS
    <3>1. k - 1 \in 1..Len(s) /\ k - 1 # k
      BY <1>5
    <3>2. s[k - 1] \in Proc \ {from} /\ next_sending[s[k - 1]] = from
      BY <3>1, <2>1, <1>5
    <3> QED  BY <3>2, <1>1
  <2>5. CASE n = 1
    <3>1. CASE k = 1
      <4>1. t[1] = s[2] /\ s[2] = next_sending[from]
        BY <3>1, <2>1, <2>5, <1>5, <1>6
      <4>2. q_sending'[p] = next_sending[from]
        BY <3>1, <2>2, <1>1, <1>2, <1>3
      <4> QED  BY <4>1, <4>2, <2>5
    <3>2. CASE k # 1
      <4>1. t[1] = s[1]
        BY <3>2, <2>5, <1>5, <1>6
      <4>2. q_sending'[p] = q_sending[p]
        BY <3>2, <2>2, <1>1, <1>2, <1>3
      <4> QED  BY <4>1, <4>2, <2>2, <2>5
    <3> QED  BY <3>1, <3>2
  <2>6. CASE n # 1
    <3>1. n - 1 \in 1..Len(t) /\ t[n - 1] = s[at(n - 1)]
      BY <2>6, <1>5, <1>6
    <3>2. t[n - 1] \in Proc \ {from}
      BY <3>1, <1>5, <1>6
    <3>3. CASE n = k
      <4>1. k # 1 /\ t[n - 1] = s[k - 1] /\ t[n] = s[k + 1] /\ k + 1 \in 1..Len(s)
        BY <3>1, <3>3, <2>6, <1>5, <1>6
      <4>2. next_sending'[t[n - 1]] = next_sending[from]
        BY <4>1, <3>2, <2>2, <2>3, <1>1, <1>2, <1>3
      <4>3. s[k + 1] = next_sending[from]
        BY <4>1, <2>1, <1>5
      <4> QED  BY <4>1, <4>2, <4>3, <2>6
    <3>4. CASE n # k
      <4>1. /\ at(n) \in 1..Len(s) /\ at(n) # 1 /\ at(n) - 1 = at(n - 1)
            /\ at(n - 1) \in 1..Len(s) /\ t[n] = s[at(n)]
            /\ k # 1 => k - 1 \in 1..Len(s) /\ at(n - 1) # k - 1
        <5>1. n \in Nat /\ n > 1 /\ n <= Len(t) /\ Len(t) = Len(s) - 1
          BY <2>6, <1>5, <1>6
        <5>2. /\ at(n) # 1 /\ at(n) - 1 = at(n - 1)
              /\ k # 1 => k - 1 \in 1..Len(s) /\ at(n - 1) # k - 1
          BY <5>1, <3>4, <1>5
        <5> QED  BY <5>2, <3>1, <1>6
      <4>2. s[at(n)] = next_sending[t[n - 1]]
        BY <4>1, <3>1, <2>1
      <4>3. k # 1 => t[n - 1] # PrevOf(p, from)
        BY <4>1, <3>1, <2>3, <1>5
      <4>4. next_sending'[t[n - 1]] = next_sending[t[n - 1]]
        BY <4>3, <3>2, <2>2, <1>1, <1>2, <1>3
      <4> QED  BY <4>1, <4>2, <4>4, <2>6
    <3> QED  BY <3>3, <3>4
  <2> QED  BY <2>5, <2>6
<1> QED  BY <1>6, <1>7, <1>8, <1>9, <1>10 DEF IsQueue, t

(* The other lists are not touched.                                        *)
LEMMA OtherLists ==
  ASSUME IInv, NEW p \in Proc, NEW from \in SendersTo(p), Unlink(p, from),
         p_flags' = [p_flags EXCEPT ![from] = {}],
         p_sendto' = [p_sendto EXCEPT ![from] = NO_TASK]
  PROVE  \A d \in Proc \ {p} :
           /\ SendersTo(d)' = SendersTo(d)
           /\ q_sending'[d] = q_sending[d]
           /\ \A q \in SendersTo(d) : next_sending'[q] = next_sending[q]
<1>1. \A d \in Proc \ {p} : SendersTo(d)' = SendersTo(d)
  BY UnlinkedLinks
<1>2. q_sending[p] # from => PrevOf(p, from) \in SendersTo(p)
  BY UnlinkedLinks
<1>3. \A q \in Proc \ {from} :
        next_sending'[q] = IF q_sending[p] # from /\ q = PrevOf(p, from)
                           THEN next_sending[from] ELSE next_sending[q]
  BY UnlinkedLinks
<1>4. \A d \in Proc \ {p} : q_sending'[d] = q_sending[d]
  BY DEF Unlink, IInv, TypeOK
<1>5. ASSUME NEW d \in Proc \ {p}, NEW q \in SendersTo(d)
      PROVE  next_sending'[q] = next_sending[q]
  <2>1. q \in Proc \ {from} /\ q \notin SendersTo(p)
    BY DEF SendersTo
  <2> QED  BY <2>1, <1>2, <1>3
<1> QED  BY <1>1, <1>4, <1>5

(* The reading of a list after a step.                                     *)
LEMMA NowReads ==
  ASSUME IInv', NEW d \in Proc, NEW s, IsQueue(s, d)'
  PROVE  Queue(d)' = s /\ IsQueue(Queue(d), d)'
<1>1. IInv' => OneReading'
  BY QueueIs, PTL
<1>2. s \in Seq(Proc)
  BY DEF IsQueue
<1>3. Queue(d)' = s
  BY <1>1, <1>2 DEF OneReading
<1> QED  BY <1>3 DEF IsQueue, Follows

LEMMA ListsKept ==
  ASSUME RInv, IInv', \A d \in Proc : SendersTo(d)' = SendersTo(d),
         UNCHANGED <<q_sending, next_sending>>
  PROVE  Readable' /\ \A d \in Proc : Queue(d)' = Queue(d)
<1> SUFFICES ASSUME NEW d \in Proc
             PROVE  IsQueue(Queue(d), d)' /\ Queue(d)' = Queue(d)
  BY DEF Readable
<1>1. PICK s : s = Queue(d)
  OBVIOUS
<1>2. IsQueue(s, d)
  BY <1>1 DEF RInv, Readable
<1>3. IsQueue(s, d)'
  BY <1>2, QueueKept
<1> QED  BY <1>1, <1>3, NowReads

(* The contract sees a process in a queue exactly when it is SENDING.      *)
LEMMA QueueHolds ==
  ASSUME RInv, NEW d \in Proc
  PROVE  /\ Queue(d) \in Seq(Proc)
         /\ Contract!ToSet([x \in Proc |-> Queue(x)][d]) = SendersTo(d)
<1>1. PICK s : s = Queue(d)
  OBVIOUS
<1>2. IsQueue(s, d)
  BY <1>1 DEF RInv, Readable
<1>3. s \in Seq(Proc) /\ DOMAIN s = 1..Len(s)
  BY <1>2 DEF IsQueue
<1>4. Contract!ToSet(s) = SendersTo(d)
  BY <1>2, <1>3 DEF Contract!ToSet, IsQueue
<1>5. [x \in Proc |-> Queue(x)][d] = s
  BY <1>1
<1> QED  BY <1>1, <1>3, <1>4, <1>5

LEMMA RunningCanCall ==
  ASSUME RInv, NEW p \in Proc, Running(p)
  PROVE  Contract!CanCall(p)
<1>1. ~Sending(p) /\ p_recvfrom[p] = NO_TASK /\ stopped = "no"
  BY DEF Running, RInv, IInv, Fields, FieldsOf, Sending, Receiving
<1>2. \A d \in Proc : p \notin Contract!ToSet([x \in Proc |-> Queue(x)][d])
  BY <1>1, QueueHolds DEF SendersTo
<1>3. ~Contract!InQueue(p)
  BY <1>2 DEF Contract!InQueue
<1> QED  BY <1>1, <1>3 DEF Contract!CanCall

(* Behind a process from which deadlock() finds p is another such process. *)
LEMMA DeadlockChain ==
  ASSUME IInv, NEW p \in Proc, NEW x \in Proc \ {p}, deadlock(p, x)
  PROVE  Sending(x) /\ p_sendto[x] \in Proc /\ deadlock(p, p_sendto[x])
<1>1. Sending(x)
  <2> SUFFICES ASSUME ~Sending(x) PROVE FALSE
    OBVIOUS
  <2>1. {x} \in SUBSET Proc /\ \A q \in {x} : Sending(q) => p_sendto[q] \in {x}
    OBVIOUS
  <2> QED  BY <2>1 DEF deadlock
<1>2. p_sendto[x] \in Proc
  BY <1>1 DEF IInv, Fields, FieldsOf
<1>3. deadlock(p, p_sendto[x])
  <2> SUFFICES ASSUME NEW T \in SUBSET Proc, p_sendto[x] \in T,
                      \A q \in T : Sending(q) => p_sendto[q] \in T
               PROVE  p \in T
    BY DEF deadlock
  <2>1. /\ T \cup {x} \in SUBSET Proc
        /\ \A q \in T \cup {x} : Sending(q) => p_sendto[q] \in T \cup {x}
    OBVIOUS
  <2> QED  BY <2>1 DEF deadlock
<1> QED  BY <1>1, <1>2, <1>3

(* deadlock() answers what the contract asks: would a circle close?        *)
LEMMA CircleIsDeadlock ==
  ASSUME RInv, NEW p \in Proc, NEW dest \in Proc \ {p}, Running(p)
  PROVE  Contract!Circle(p, dest) <=> deadlock(p, dest)
<1> DEFINE W(y) == SendersTo(y) \cup IF y = dest THEN {p} ELSE {}
           Closed(S) == \A x \in S : \E y \in S : x \in W(y)
<1>1. Contract!Circle(p, dest) <=> \E S \in (SUBSET Proc) \ {{}} : Closed(S)
  <2>1. \A y \in Proc : Contract!ToSet([x \in Proc |-> Queue(x)][y]) = SendersTo(y)
    BY QueueHolds
  <2> DEFINE waitFor == [y \in Proc |-> Contract!ToSet([x \in Proc |-> Queue(x)][y])
                                         \cup IF y = dest THEN {p} ELSE {}]
  <2>2. \A y \in Proc : waitFor[y] = W(y)
    BY <2>1
  <2>3. Contract!Circle(p, dest) <=>
          \E S \in (SUBSET Proc) \ {{}} : \A x \in S : \E y \in S : x \in waitFor[y]
    BY DEF Contract!Circle
  <2> HIDE DEF waitFor, W
  <2>4. ASSUME NEW S \in SUBSET Proc
        PROVE  (\A x \in S : \E y \in S : x \in waitFor[y]) <=> Closed(S)
    BY <2>2
  <2> QED  BY <2>3, <2>4
<1>2. /\ ~Sending(p)
      /\ \A x \in Proc : Sending(x) => p_sendto[x] \in Proc
  BY DEF Running, RInv, IInv, Fields, FieldsOf, Sending
<1>3. \A x, y \in Proc :
        x \in W(y) <=> \/ Sending(x) /\ p_sendto[x] = y
                       \/ x = p /\ y = dest
  BY DEF SendersTo
<1>4. ASSUME deadlock(p, dest)
      PROVE  \E S \in (SUBSET Proc) \ {{}} : Closed(S)
  <2> DEFINE S == {x \in Proc : deadlock(p, x)}
  <2>1. p \in S /\ dest \in S
    BY <1>4 DEF deadlock
  <2>2. ASSUME NEW x \in S PROVE \E y \in S : x \in W(y)
    <3>1. CASE x = p
      BY <3>1, <2>1, <1>3
    <3>2. CASE x # p
      <4>1. Sending(x) /\ p_sendto[x] \in Proc /\ deadlock(p, p_sendto[x])
        BY <3>2, DeadlockChain DEF RInv
      <4>2. p_sendto[x] \in S /\ x \in W(p_sendto[x])
        BY <4>1, <1>3
      <4> QED  BY <4>2
    <3> QED  BY <3>1, <3>2
  <2>3. S \in (SUBSET Proc) \ {{}}
    BY <2>1
  <2> QED  BY <2>2, <2>3
<1>5. ASSUME NEW S \in (SUBSET Proc) \ {{}}, Closed(S)
      PROVE  deadlock(p, dest)
  <2> SUFFICES ASSUME NEW T \in SUBSET Proc, dest \in T, p \notin T,
                      \A q \in T : Sending(q) => p_sendto[q] \in T
               PROVE  FALSE
    BY DEF deadlock
  <2>1. ASSUME NEW x \in S
        PROVE  \/ Sending(x) /\ p_sendto[x] \in S
               \/ x = p /\ dest \in S
    <3>1. PICK y \in S : x \in W(y)
      BY <1>5
    <3> QED  BY <3>1, <1>3
  <2>2. CASE p \notin S
    <3>1. \A x \in S : Sending(x) /\ p_sendto[x] \in S
      BY <2>1, <2>2
    <3> QED  BY <3>1 DEF RInv, IInv, SendGraphAcyclic
  <2>3. CASE p \in S
    <3>1. dest \in S
      BY <2>1, <2>3, <1>2
    <3>2. \A x \in S \cap T : Sending(x) /\ p_sendto[x] \in S \cap T
      BY <2>1
    <3>3. S \cap T \in SUBSET Proc /\ S \cap T # {}
      BY <3>1
    <3> QED  BY <3>2, <3>3 DEF RInv, IInv, SendGraphAcyclic
  <2> QED  BY <2>2, <2>3
<1> QED  BY <1>1, <1>4, <1>5

(* A SEND that panics is one that halts.                                   *)
LEMMA PanicsHalts ==
  ASSUME RInv, IInv', NEW p \in Proc, NEW dest \in Proc \ {p}, NEW b \in Body,
         Running(p), SendPanics(p, dest, b)
  PROVE  Readable' /\ Contract!Call(p)
<1> DEFINE m == [source |-> p, body |-> b]
<1>1. \A d \in Proc : SendersTo(d)' = SendersTo(d)
  BY DEF SendPanics, SendersTo, Sending
<1>2. Readable' /\ \A d \in Proc : Queue(d)' = Queue(d)
  BY <1>1, ListsKept DEF SendPanics
<1>3. Contract!Circle(p, dest)
  BY CircleIsDeadlock DEF SendPanics
<1>4. Contract!Halt(p, dest, m)
  BY <1>2, <1>3 DEF Contract!Halt, SendPanics, Outgoing
<1>5. Contract!CanCall(p)
  BY RunningCanCall
<1> QED  BY <1>2, <1>4, <1>5 DEF Contract!Call

(* A SEND that delivers hands the message over.                            *)
LEMMA DeliversHands ==
  ASSUME RInv, IInv', NEW p \in Proc, NEW dest \in Proc \ {p}, NEW b \in Body,
         Running(p), SendDelivers(p, dest, b)
  PROVE  Readable' /\ Contract!Call(p)
<1> DEFINE m == [source |-> p, body |-> b]
<1>1. /\ TypeOK /\ FieldsOf(dest) /\ stopped' = "no"
      /\ p_flags[dest] = {RECEIVING} /\ p_msg[dest] = dest
  BY DEF RInv, IInv, AssertsHold, Running, SendDelivers, WaitsFor, Receiving,
         Sending, Fields, FieldsOf, SENDING, RECEIVING
<1>2. \A d \in Proc : SendersTo(d)' = SendersTo(d)
  BY <1>1 DEF SendDelivers, SendersTo, Sending, TypeOK, SENDING, RECEIVING
<1>3. Readable' /\ \A d \in Proc : Queue(d)' = Queue(d)
  BY <1>2, ListsKept DEF SendDelivers
<1>4. msg' = [msg EXCEPT ![p] = m, ![dest] = m]
  BY <1>1 DEF SendDelivers, Outgoing
<1>5. Contract!Hand(p, dest, m)
  BY <1>1, <1>3, <1>4 DEF Contract!Hand, SendDelivers, WaitsFor, Running
<1>6. Contract!CanCall(p)
  BY RunningCanCall
<1> QED  BY <1>3, <1>5, <1>6 DEF Contract!Call

(* A SEND that blocks joins the queue of its destination.                  *)
LEMMA BlocksJoins ==
  ASSUME RInv, IInv', NEW p \in Proc, NEW dest \in Proc \ {p}, NEW b \in Body,
         Running(p), SendBlocks(p, dest, b)
  PROVE  Readable' /\ Contract!Call(p)
<1> DEFINE m == [source |-> p, body |-> b]
<1>1. /\ IInv /\ TypeOK /\ FieldsOf(dest) /\ stopped = "no" /\ stopped' = "no"
  BY DEF RInv, IInv, AssertsHold, Running, SendBlocks, Fields
<1>2. p_recvfrom[dest] \notin {p, ANY}
  BY <1>1, IpcAssumption DEF SendBlocks, WaitsFor, FieldsOf
<1>3. ASSUME NEW d \in Proc
      PROVE  /\ IsQueue(Queue(d), d)'
             /\ Queue(d)' = IF d = dest THEN Append(Queue(d), p) ELSE Queue(d)
  <2>1. PICK s : s = Queue(d)
    OBVIOUS
  <2>2. IsQueue(s, d)
    BY <2>1 DEF RInv, Readable
  <2>3. CASE d = dest
    <3>1. IsQueue(Append(s, p), d)'
      BY <2>2, <2>3, <1>1, QueueJoined
    <3> QED  BY <3>1, <2>1, <2>3, NowReads
  <2>4. CASE d # dest
    <3>1. SendersTo(d)' = SendersTo(d) /\ q_sending'[d] = q_sending[d]
      BY <2>4, <1>1, JoinedLinks DEF TypeOK
    <3>2. ASSUME NEW q \in SendersTo(d) PROVE next_sending'[q] = next_sending[q]
      <4>1. q \in Proc \ {p} /\ q \notin SendersTo(dest)
        BY <2>4 DEF SendersTo, Running, Sending
      <4> QED  BY <4>1, <1>1, JoinedLinks
    <3>3. IsQueue(s, d)'
      BY <3>1, <3>2, <2>2, QueueKept
    <3> QED  BY <3>3, <2>1, <2>4, NowReads
  <2> QED  BY <2>3, <2>4
<1>4. Readable'
  BY <1>3 DEF Readable
<1>5. ~Contract!Circle(p, dest)
  BY CircleIsDeadlock DEF SendBlocks
<1>6. Contract!Join(p, dest, m)
  <2>1. [d \in Proc |-> Queue(d)]' =
          [[d \in Proc |-> Queue(d)] EXCEPT ![dest] = Append(@, p)]
    BY <1>3
  <2> QED  BY <2>1, <1>1, <1>2, <1>5 DEF Contract!Join, SendBlocks, Outgoing
<1>7. Contract!CanCall(p)
  BY RunningCanCall
<1> QED  BY <1>4, <1>6, <1>7 DEF Contract!Call

(* A RECEIVE that finds a sender takes it out of the queue.                *)
LEMMA FetchesTakes ==
  ASSUME RInv, IInv', NEW p \in Proc, NEW src \in (Proc \ {p}) \cup {ANY},
         Running(p), ReceiveFetches(p, src)
  PROVE  Readable' /\ Contract!Call(p)
<1>1. /\ IInv /\ TypeOK /\ stopped = "no" /\ stopped' = "no"
  BY DEF RInv, IInv, AssertsHold, Running, ReceiveFetches
<1>2. PICK from \in SendersTo(p) : from = SenderFor(p, src)
  BY <1>1, FromIsSender DEF ReceiveFetches
<1>3. from \in Proc /\ p_flags[from] = {SENDING} /\ p_msg[from] = from
  BY <1>1 DEF SendersTo, IInv, Fields, FieldsOf, Sending, SENDING, RECEIVING
<1>4. /\ Unlink(p, from)
      /\ p_flags' = [p_flags EXCEPT ![from] = {}]
      /\ p_sendto' = [p_sendto EXCEPT ![from] = NO_TASK]
      /\ msg' = [msg EXCEPT ![p] = msg[from]]
      /\ UNCHANGED p_recvfrom
  BY <1>2, <1>3 DEF ReceiveFetches
<1>5. PICK s : s = Queue(p)
  OBVIOUS
<1>6. IsQueue(s, p)
  BY <1>5 DEF RInv, Readable
<1>7. PICK k \in 1..Len(s) : s[k] = from
  BY <1>6 DEF IsQueue
<1>8. ASSUME NEW d \in Proc
      PROVE  /\ IsQueue(Queue(d), d)'
             /\ Queue(d)' = IF d = p THEN RemoveAt(Queue(d), k) ELSE Queue(d)
  <2>1. CASE d = p
    <3>1. IsQueue(RemoveAt(s, k), p)'
      BY <1>1, <1>4, <1>6, <1>7, QueueLeft
    <3> QED  BY <3>1, <2>1, <1>5, NowReads
  <2>2. CASE d # p
    <3>1. PICK t : t = Queue(d)
      OBVIOUS
    <3>2. IsQueue(t, d)
      BY <3>1 DEF RInv, Readable
    <3>3. /\ SendersTo(d)' = SendersTo(d)
          /\ q_sending'[d] = q_sending[d]
          /\ \A q \in SendersTo(d) : next_sending'[q] = next_sending[q]
      BY <2>2, <1>1, <1>4, OtherLists
    <3>4. IsQueue(t, d)'
      BY <3>2, <3>3, QueueKept
    <3> QED  BY <3>1, <3>4, <2>2, NowReads
  <2> QED  BY <2>1, <2>2
<1>9. Readable'
  BY <1>8 DEF Readable
<1>10. src = ANY => k = 1
  <2> SUFFICES ASSUME src = ANY PROVE k = 1
    OBVIOUS
  <2>1. from = q_sending[p] /\ Len(s) \in Nat
    BY <1>2, <1>6 DEF SenderFor, IsQueue
  <2>2. 1 \in 1..Len(s)
    BY <2>1, <1>7
  <2>3. s[1] = from
    BY <2>1, <2>2, <1>6 DEF IsQueue, Follows
  <2> QED  BY <2>2, <2>3, <1>6, <1>7 DEF IsQueue
<1>11. src # ANY => src = from
  BY <1>2 DEF SenderFor
<1>12. Contract!Take(p, src)
  <2>1. [d \in Proc |-> Queue(d)]' =
          [[d \in Proc |-> Queue(d)] EXCEPT ![p] = Contract!RemoveAt(@, k)]
    BY <1>8 DEF RemoveAt, Contract!RemoveAt
  <2>2. [d \in Proc |-> Queue(d)][p] = s
    BY <1>5
  <2> QED  BY <2>1, <2>2, <1>1, <1>4, <1>7, <1>10, <1>11 DEF Contract!Take
<1>13. Contract!CanCall(p)
  BY RunningCanCall
<1> QED  BY <1>9, <1>12, <1>13 DEF Contract!Call

(* A RECEIVE that finds none waits.                                        *)
LEMMA BlocksWaits ==
  ASSUME RInv, IInv', NEW p \in Proc, NEW src \in (Proc \ {p}) \cup {ANY},
         NEW b \in {Blank, msg[p].body}, Running(p), ReceiveBlocks(p, src, b)
  PROVE  Readable' /\ Contract!Call(p)
<1>1. /\ IInv /\ TypeOK /\ stopped = "no" /\ stopped' = "no"
  BY DEF RInv, IInv, AssertsHold, Running, ReceiveBlocks
<1>2. \A d \in Proc : SendersTo(d)' = SendersTo(d)
  BY <1>1 DEF ReceiveBlocks, SendersTo, Sending, TypeOK, SENDING, RECEIVING
<1>3. Readable' /\ \A d \in Proc : Queue(d)' = Queue(d)
  BY <1>2, ListsKept DEF ReceiveBlocks
<1>4. IF src = ANY THEN [d \in Proc |-> Queue(d)][p] = <<>>
                   ELSE src \notin Contract!ToSet([x \in Proc |-> Queue(x)][p])
  <2>1. CASE src = ANY
    <3>1. IsQueue(Queue(p), p) /\ q_sending[p] = NULL
      BY <2>1 DEF RInv, Readable, ReceiveBlocks, CopyOk
    <3>2. Queue(p) = <<>>
      BY <3>1, <1>1, QueueEnds
    <3> QED  BY <3>2, <2>1
  <2>2. CASE src # ANY
    <3>1. src \notin SendersTo(p)
      BY <2>2 DEF SendersTo, ReceiveBlocks, CopyOk
    <3> QED  BY <3>1, <2>2, QueueHolds
  <2> QED  BY <2>1, <2>2
<1>5. Contract!Wait(p, src)
  BY <1>1, <1>3, <1>4 DEF Contract!Wait, ReceiveBlocks, Outgoing
<1>6. Contract!CanCall(p)
  BY RunningCanCall
<1> QED  BY <1>3, <1>5, <1>6 DEF Contract!Call

-----------------------------------------------------------------------------
LEMMA StartReads == Init => RInv /\ Contract!Start
<1> SUFFICES ASSUME Init PROVE RInv /\ Contract!Start
  OBVIOUS
<1>1. IInv
  BY InitInv
<1>2. ASSUME NEW d \in Proc PROVE IsQueue(Queue(d), d) /\ Queue(d) = <<>>
  <2>1. SendersTo(d) = {}
    BY DEF Init, SendersTo, Sending
  <2>2. IsQueue(<<>>, d) /\ <<>> \in Seq(Proc)
    BY <2>1 DEF IsQueue, Follows
  <2> QED  BY <2>2, <1>1, QueueIs DEF OneReading
<1>3. Contract!Start
  BY <1>2 DEF Contract!Start, Init
<1> QED  BY <1>1, <1>2, <1>3 DEF RInv, Readable

LEMMA StepReads ==
  RInv /\ [Next]_vars =>
    RInv' /\ [\E p \in Proc : Contract!Call(p)]_(Contract!abstract)
<1> SUFFICES ASSUME RInv, [Next]_vars
             PROVE  RInv' /\ [\E p \in Proc : Contract!Call(p)]_(Contract!abstract)
  OBVIOUS
<1>1. IInv'
  BY StepInv DEF RInv
<1>2. CASE UNCHANGED vars
  <2>1. /\ \A d \in Proc : SendersTo(d)' = SendersTo(d)
        /\ UNCHANGED <<q_sending, next_sending, p_recvfrom, msg, stopped>>
    BY <1>2 DEF vars, SendersTo, Sending
  <2>2. Readable' /\ \A d \in Proc : Queue(d)' = Queue(d)
    BY <1>1, <2>1, ListsKept
  <2>3. UNCHANGED Contract!abstract
    BY <2>1, <2>2 DEF Contract!abstract
  <2> QED  BY <1>1, <2>2, <2>3 DEF RInv
<1>3. ASSUME NEW p \in Proc, NEW dest \in Proc \ {p}, NEW b \in Body,
             Send(p, dest, b)
      PROVE  Readable' /\ Contract!Call(p)
  BY <1>1, <1>3, PanicsHalts, DeliversHands, BlocksJoins DEF Send
<1>4. ASSUME NEW p \in Proc, NEW src \in (Proc \ {p}) \cup {ANY},
             NEW b \in {Blank, msg[p].body}, Receive(p, src, b)
      PROVE  Readable' /\ Contract!Call(p)
  BY <1>1, <1>4, FetchesTakes, BlocksWaits DEF Receive
<1>5. CASE Next
  BY <1>1, <1>3, <1>4, <1>5 DEF Next, RInv
<1> QED  BY <1>2, <1>5

(* Ipc with its process table implements the contract of Rendezvous: the   *)
(* lists are FIFO queues of which a receiver may name one member, no       *)
(* message is lost or handed over twice, and panic() comes exactly when a  *)
(* circle of senders would close.                                          *)
THEOREM ImplementsRendezvous == Spec => Refines
<1>1. Init => RInv /\ Contract!Start
  BY StartReads
<1>2. RInv /\ [Next]_vars =>
        RInv' /\ [\E p \in Proc : Contract!Call(p)]_(Contract!abstract)
  BY StepReads
<1> QED  BY <1>1, <1>2, PTL DEF Spec, Refines, Contract!Contract

-----------------------------------------------------------------------------
(***************************************************************************)
(* The loop of deadlock() ends.  From a process at which n turns are not   *)
(* enough, n different senders are met, none of them the running caller:   *)
(* there are fewer of those than processes.                                *)
(***************************************************************************)
LEMMA InductionOnNat ==
  ASSUME NEW S, 0 \in S, \A n \in Nat : n \in S => n + 1 \in S
  PROVE  Nat \subseteq S
<1> SUFFICES ASSUME Nat \ S # {} PROVE FALSE
  OBVIOUS
<1>1. PICK n \in Nat \ S : \A m \in Nat \ S : n <= m
  BY LeastNatural
<1>2. n # 0 /\ n - 1 \in Nat
  BY <1>1
<1>3. n - 1 \in S
  BY <1>1, <1>2
<1> QED  BY <1>1, <1>2, <1>3

Answer == {"loops", "none", "found"}

(* w[n] is what the loop answers within n turns, for n up to k.            *)
Turns(src, w, k) ==
  /\ w \in [0..k -> [Proc -> Answer]]
  /\ w[0] = [p \in Proc |-> "loops"]
  /\ \A n \in 1..k : w[n] = Turn(src, w[n - 1])

LEMMA TurnsExist ==
  ASSUME IInv, NEW src \in Proc, NEW k \in Nat
  PROVE  \E w : Turns(src, w, k)
<1> DEFINE K == {n \in Nat : \E w : Turns(src, w, n)}
<1>1. 0 \in K
  <2> DEFINE w == [n \in 0..0 |-> [p \in Proc |-> "loops"]]
  <2>1. Turns(src, w, 0)
    BY DEF Turns, Answer
  <2> QED  BY <2>1
<1>2. ASSUME NEW n \in Nat, n \in K PROVE n + 1 \in K
  <2>1. PICK w : Turns(src, w, n)
    BY <1>2
  <2>2. w[n] \in [Proc -> Answer]
    BY <2>1 DEF Turns
  <2>3. Turn(src, w[n]) \in [Proc -> Answer]
    <3>1. \A p \in Proc : Sending(p) => p_sendto[p] \in Proc
      BY DEF IInv, Fields, FieldsOf
    <3> QED  BY <3>1, <2>2 DEF Turn, Answer
  <2> DEFINE v == [m \in 0..(n + 1) |-> IF m = n + 1 THEN Turn(src, w[n]) ELSE w[m]]
  <2>4. v \in [0..(n + 1) -> [Proc -> Answer]]
    BY <2>1, <2>3 DEF Turns
  <2>5. v[0] = [p \in Proc |-> "loops"]
    BY <2>1 DEF Turns
  <2>6. ASSUME NEW m \in 1..(n + 1) PROVE v[m] = Turn(src, v[m - 1])
    <3>1. m - 1 \in 0..(n + 1) /\ v[m - 1] = w[m - 1]
      OBVIOUS
    <3>2. CASE m = n + 1
      <4>1. m - 1 = n /\ v[m] = Turn(src, w[n])
        BY <3>2
      <4> QED  BY <4>1, <3>1
    <3>3. CASE m # n + 1
      <4>1. m \in 1..n /\ v[m] = w[m]
        BY <3>3
      <4> QED  BY <4>1, <3>1, <2>1 DEF Turns
    <3> QED  BY <3>2, <3>3
  <2> HIDE DEF v
  <2>7. Turns(src, v, n + 1)
    BY <2>4, <2>5, <2>6 DEF Turns
  <2> QED  BY <2>7
<1> HIDE DEF K
<1>3. k \in K
  BY <1>1, <1>2, InductionOnNat
<1> QED  BY <1>3 DEF K

LEMMA LoopTurns ==
  ASSUME IInv, NEW src \in Proc
  PROVE  /\ Cardinality(Proc) \in Nat
         /\ \E w : /\ Turns(src, w, Cardinality(Proc))
                   /\ DeadlockLoop(src) = w[Cardinality(Proc)]
<1> DEFINE N == Cardinality(Proc)
           Rec(g) == g = [n \in 0..N |-> IF n = 0 THEN [p \in Proc |-> "loops"]
                                          ELSE Turn(src, g[n - 1])]
           w == CHOOSE g : Rec(g)
<1>1. N \in Nat
  BY FiniteAssumption, FS_CardinalityType
<1> HIDE DEF N
<1>2. PICK v : Turns(src, v, N)
  BY <1>1, TurnsExist
<1>3. Rec(v)
  <2>1. v = [n \in 0..N |-> v[n]]
    BY <1>2 DEF Turns
  <2>2. \A n \in 0..N : v[n] = IF n = 0 THEN [p \in Proc |-> "loops"]
                                        ELSE Turn(src, v[n - 1])
    BY <1>1, <1>2 DEF Turns
  <2> QED  BY <2>1, <2>2
<1>4. DeadlockLoop(src) = w[N]
  BY DEF DeadlockLoop, N
<1> HIDE DEF Rec
<1>5. Rec(w)
  BY <1>3
<1> HIDE DEF w
<1>6. /\ w[0] = [p \in Proc |-> "loops"]
      /\ \A n \in 1..N : w[n] = Turn(src, w[n - 1])
      /\ w = [n \in 0..N |-> w[n]]
  <2> DEFINE H == [n \in 0..N |-> IF n = 0 THEN [p \in Proc |-> "loops"]
                                  ELSE Turn(src, w[n - 1])]
  <2>1. w = H
    BY <1>5 DEF Rec
  <2>2. /\ \A n \in 0..N : H[n] = IF n = 0 THEN [p \in Proc |-> "loops"]
                                           ELSE Turn(src, w[n - 1])
        /\ H = [n \in 0..N |-> H[n]]
    OBVIOUS
  <2> HIDE DEF H
  <2>3. w = [n \in 0..N |-> w[n]]
    BY <2>1, <2>2, Zenon
  <2>4. \A n \in 0..N : w[n] = IF n = 0 THEN [p \in Proc |-> "loops"]
                                        ELSE Turn(src, w[n - 1])
    BY <2>1, <2>2, Zenon
  <2>5. 0 \in 0..N /\ \A n \in 1..N : n \in 0..N /\ n # 0
    BY <1>1
  <2> QED  BY <2>3, <2>4, <2>5
<1>7. w = v
  <2> DEFINE T == {n \in Nat : n <= N /\ w[n] # v[n]}
  <2>1. CASE T = {}
    <3>1. \A n \in 0..N : w[n] = v[n]
      BY <2>1, <1>1
    <3>2. v = [n \in 0..N |-> v[n]]
      BY <1>2 DEF Turns
    <3> QED  BY <3>1, <3>2, <1>6
  <2>2. CASE T # {}
    <3>1. PICK n \in T : \A m \in T : n <= m
      BY <2>2, LeastNatural
    <3>2. n # 0
      BY <3>1, <1>2, <1>6 DEF Turns
    <3>3. n \in 1..N /\ n - 1 \in Nat /\ n - 1 <= N
      BY <3>1, <3>2, <1>1
    <3>4. w[n - 1] = v[n - 1]
      BY <3>1, <3>3
    <3>5. w[n] = v[n]
      BY <3>3, <3>4, <1>2, <1>6 DEF Turns
    <3> QED  BY <3>1, <3>5
  <2> QED  BY <2>1, <2>2
<1> QED  BY <1>1, <1>2, <1>4, <1>7 DEF N

(* A process with n turns behind it has n senders on its way.              *)
Behind(n, p) ==
  \E S \in SUBSET Proc :
    /\ Cardinality(S) = n
    /\ \A x \in S : Sending(x) /\ deadlock(x, p)

LEMMA TurnsMeetSenders ==
  ASSUME IInv, NEW src \in Proc, NEW k \in Nat, NEW w, Turns(src, w, k)
  PROVE  \A p \in Proc : w[k][p] = "loops" => Behind(k, p)
<1> DEFINE K == {n \in Nat : n <= k => \A p \in Proc : w[n][p] = "loops" => Behind(n, p)}
<1>1. 0 \in K
  <2>1. {} \in SUBSET Proc /\ Cardinality({}) = 0
    BY FS_EmptySet
  <2>2. \A p \in Proc : Behind(0, p)
    BY <2>1 DEF Behind
  <2> QED  BY <2>2
<1>2. ASSUME NEW n \in Nat, n \in K PROVE n + 1 \in K
  <2> SUFFICES ASSUME n + 1 <= k, NEW p \in Proc, w[n + 1][p] = "loops"
               PROVE  Behind(n + 1, p)
    OBVIOUS
  <2> DEFINE q == p_sendto[p]
  <2>1. w[n + 1] = Turn(src, w[n])
    <3>1. n + 1 \in 1..k /\ (n + 1) - 1 = n
      OBVIOUS
    <3> QED  BY <3>1 DEF Turns
  <2>2. Sending(p) /\ w[n][q] = "loops"
    BY <2>1 DEF Turn
  <2>3. q \in Proc
    BY <2>2 DEF IInv, Fields, FieldsOf
  <2>4. PICK S \in SUBSET Proc :
          /\ Cardinality(S) = n
          /\ \A x \in S : Sending(x) /\ deadlock(x, q)
    BY <1>2, <2>2, <2>3 DEF Behind
  (* The way from p leads on to q, and does not come back to p.            *)
  <2>5. \A x \in S : deadlock(x, p)
    BY <2>2, <2>4 DEF deadlock
  <2>6. deadlock(p, p)
    BY DEF deadlock
  <2>7. ~deadlock(p, q)
    <3> SUFFICES ASSUME deadlock(p, q) PROVE FALSE
      OBVIOUS
    <3> DEFINE C == {x \in Proc : deadlock(p, x)}
    <3>1. \A x \in C : Sending(x) /\ p_sendto[x] \in C
      BY <2>2, <2>3, DeadlockChain
    <3>2. C \in SUBSET Proc /\ C # {}
      BY <2>6
    <3> QED  BY <3>1, <3>2 DEF IInv, SendGraphAcyclic
  <2>8. S \cup {p} \in SUBSET Proc /\ Cardinality(S \cup {p}) = n + 1
    <3>1. IsFiniteSet(S) /\ p \notin S
      BY <2>4, <2>7, FiniteAssumption, FS_Subset
    <3> QED  BY <3>1, <2>4, FS_AddElement
  <2> QED  BY <2>2, <2>4, <2>5, <2>6, <2>8 DEF Behind
<1> HIDE DEF K
<1>3. k \in K
  BY <1>1, <1>2, InductionOnNat
<1> QED  BY <1>3 DEF K

(* Every answer that ends the loop is that of `deadlock'.                  *)
LEMMA TurnsAnswer ==
  ASSUME IInv, NEW src \in Proc, ~Sending(src), NEW dest \in Proc \ {src},
         NEW k \in Nat, NEW w, Turns(src, w, k)
  PROVE  /\ w[k][dest] = "found" => deadlock(src, dest)
         /\ w[k][dest] = "none" => ~deadlock(src, dest)
<1>1. \A x \in Proc : Sending(x) => p_sendto[x] \in Proc
  BY DEF IInv, Fields, FieldsOf
<1>2. \A n \in 0..k, x \in Proc : w[n][x] # "loops" =>
        /\ n # 0 /\ n - 1 \in 0..k
        /\ w[n][x] = IF ~Sending(x) THEN "none"
                     ELSE IF p_sendto[x] = src THEN "found"
                     ELSE w[n - 1][p_sendto[x]]
  <2> SUFFICES ASSUME NEW n \in 0..k, NEW x \in Proc, w[n][x] # "loops"
               PROVE  /\ n # 0 /\ n - 1 \in 0..k
                      /\ w[n][x] = IF ~Sending(x) THEN "none"
                                   ELSE IF p_sendto[x] = src THEN "found"
                                   ELSE w[n - 1][p_sendto[x]]
    OBVIOUS
  <2>1. n # 0
    BY DEF Turns
  <2>2. w[n] = Turn(src, w[n - 1])
    BY <2>1 DEF Turns
  <2> QED  BY <2>1, <2>2 DEF Turn
<1>3. ASSUME w[k][dest] = "found" PROVE deadlock(src, dest)
  <2> SUFFICES ASSUME NEW S \in SUBSET Proc, dest \in S, src \notin S,
                      \A x \in S : Sending(x) => p_sendto[x] \in S
               PROVE  FALSE
    BY DEF deadlock
  <2> DEFINE T == {n \in Nat : n <= k /\ \E x \in S : w[n][x] = "found"}
  <2>1. k \in T
    BY <1>3
  <2>2. PICK n \in T : \A m \in T : n <= m
    BY <2>1, LeastNatural
  <2>3. PICK x \in S : w[n][x] = "found"
    BY <2>2
  <2>4. n \in 0..k /\ x \in Proc /\ w[n][x] # "loops"
    BY <2>2, <2>3
  <2>5. n - 1 \in 0..k /\ p_sendto[x] \in S /\ w[n - 1][p_sendto[x]] = "found"
    BY <1>2, <2>3, <2>4
  <2>6. n - 1 \in T
    BY <2>5
  <2> QED  BY <2>2, <2>6
<1>4. ASSUME w[k][dest] = "none" PROVE ~deadlock(src, dest)
  <2> DEFINE S == {x \in Proc \ {src} : \E n \in 0..k : w[n][x] = "none"}
  <2>1. dest \in S /\ src \notin S /\ S \in SUBSET Proc
    BY <1>4
  <2>2. ASSUME NEW x \in S, Sending(x) PROVE p_sendto[x] \in S
    <3>1. PICK n \in 0..k : w[n][x] = "none"
      OBVIOUS
    <3>2. x \in Proc /\ p_sendto[x] \in Proc
      BY <1>1, <2>2
    <3>3. /\ n - 1 \in 0..k /\ p_sendto[x] # src
          /\ w[n - 1][p_sendto[x]] = "none"
      BY <1>2, <2>2, <3>1, <3>2
    <3> QED  BY <3>2, <3>3
  <2> QED  BY <2>1, <2>2 DEF deadlock
<1> QED  BY <1>3, <1>4

LEMMA WalkEnds == IInv => DeadlockWalkEnds
<1> DEFINE N == Cardinality(Proc)
<1> SUFFICES ASSUME IInv, NEW src \in Proc, NEW dest \in Proc \ {src}, Running(src)
             PROVE  DeadlockLoop(src)[dest] =
                      IF deadlock(src, dest) THEN "found" ELSE "none"
  BY DEF DeadlockWalkEnds
<1>1. N \in Nat /\ \E w : Turns(src, w, N) /\ DeadlockLoop(src) = w[N]
  BY LoopTurns
<1> HIDE DEF N
<1>2. PICK w : Turns(src, w, N) /\ DeadlockLoop(src) = w[N]
  BY <1>1
<1>3. ~Sending(src)
  BY DEF Running, Sending
<1>4. w[N][dest] \in Answer
  BY <1>1, <1>2 DEF Turns
<1>5. w[N][dest] # "loops"
  <2> SUFFICES ASSUME w[N][dest] = "loops" PROVE FALSE
    OBVIOUS
  <2>1. PICK S \in SUBSET Proc : Cardinality(S) = N /\ \A x \in S : Sending(x)
    BY <1>1, <1>2, TurnsMeetSenders DEF Behind
  <2>2. S \subseteq Proc \ {src}
    BY <2>1, <1>3
  <2>3. IsFiniteSet(Proc \ {src}) /\ Cardinality(Proc \ {src}) = N - 1
    BY FiniteAssumption, FS_RemoveElement DEF N
  <2>4. Cardinality(S) <= N - 1
    BY <2>2, <2>3, FS_Subset
  <2> QED  BY <2>1, <2>4, <1>1
<1>6. /\ w[N][dest] = "found" => deadlock(src, dest)
      /\ w[N][dest] = "none" => ~deadlock(src, dest)
  BY <1>1, <1>2, <1>3, TurnsAnswer
<1> QED  BY <1>2, <1>4, <1>5, <1>6 DEF Answer

(* Whenever a process runs, the loop of deadlock() that its SEND enters    *)
(* ends, within as many turns as there are processes, with the answer of   *)
(* the reachability definition.                                            *)
THEOREM DeadlockLoopEnds == Spec => []DeadlockWalkEnds
<1>1. IInv => DeadlockWalkEnds
  BY WalkEnds
<1> QED  BY <1>1, Invariance, PTL

=============================================================================
