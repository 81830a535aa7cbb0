------------------------ MODULE KeyboardBufferProofs ------------------------
(***************************************************************************)
(* For every size of the ring: its pointers and its count agree between    *)
(* any two steps, and it implements the queue of ScanQueue.                *)
(***************************************************************************)
EXTENDS KeyboardBuffer, SequenceTheorems, TLAPS

\* RingConsistent is inductive with what the task knows at each step: there is
\* a byte once the loop has ended, interrupts are off from DisableInt to
\* EnableInt, and the register holds the count in between.
RingInv ==
  /\ BufferTypeOK
  /\ ~Resetting
  /\ RingConsistent
  /\ at \in {"disable", "fetch", "load", "store"} => count > 0
  /\ ints <=> at \in {"wait", "disable"}
  /\ at = "store" => tmp = count

USE BufferAssumption

\* The invariant holds after init_keyboard.
LEMMA RingInit == Init => RingInv
  BY DEF Init, InitRing, RingInv, BufferTypeOK, Resetting, RingConsistent, Slot, Held

\* Every step of the task and every interrupt preserves it.
LEMMA RingStep == RingInv /\ [Next]_vars => RingInv'
<1> SUFFICES ASSUME RingInv, [Next]_vars
             PROVE  RingInv'
  OBVIOUS
<1> USE DEF RingInv, BufferTypeOK, Resetting, RingConsistent, Slot, Held
<1>1. ASSUME NEW c \in Codes, keyboard_handler(c)
      PROVE  RingInv'
  BY <1>1 DEF keyboard_handler, After
<1>2. CASE Available
  BY <1>2 DEF Available, kb_in
<1>3. CASE DisableInt
  BY <1>3 DEF DisableInt, kb_in
<1>4. CASE Fetch
  BY <1>4 DEF Fetch, After
<1>5. CASE LoadCount
  BY <1>5 DEF LoadCount, kb_in
<1>6. CASE StoreCount
  BY <1>6 DEF StoreCount
<1>7. CASE EnableInt
  BY <1>7 DEF EnableInt, kb_in
<1>8. CASE UNCHANGED vars
  BY <1>8 DEF vars
<1> QED
  BY <1>1, <1>2, <1>3, <1>4, <1>5, <1>6, <1>7, <1>8 DEF Next

\* The invariant of the ring, for every size and every set of codes.
THEOREM RingInvariance == Spec => []RingInv
  BY RingInit, RingStep, PTL DEF Spec

\* Every field of kb_in, and the task's locals, hold values of their kinds.
THEOREM RingTypeCorrect == Spec => []BufferTypeOK
<1>1. RingInv => BufferTypeOK
  BY DEF RingInv
<1> QED
  BY <1>1, RingInvariance, PTL

\* keyboard.h:124-126: the count is always the distance from p_tail to p_head.
THEOREM RingStaysConsistent == Spec => []RingConsistent
<1>1. RingInv => RingConsistent
  BY DEF RingInv
<1> QED
  BY <1>1, RingInvariance, PTL
-----------------------------------------------------------------------------
\* The bytes in the ring, read from the tail on, are a sequence.
LEMMA ContentsIsSeq ==
  ASSUME RingInv
  PROVE  /\ Held \in Nat /\ Held <= KB_IN_BYTES
         /\ Contents \in Seq(Codes \cup {NoCode})
         /\ Len(Contents) = Held
<1>1. Held \in Nat /\ Held <= KB_IN_BYTES
  BY DEF RingInv, BufferTypeOK, Held
<1>2. \A k \in 1..Held : buf[Slot(k-1)] \in Codes \cup {NoCode}
  BY <1>1 DEF RingInv, BufferTypeOK, Slot
<1> QED
  BY <1>1, <1>2 DEF Contents

\* A step that leaves the ring alone leaves its contents alone.
LEMMA SameContents ==
  ASSUME p_tail' = p_tail, buf' = buf, Held' = Held
  PROVE  Contents' = Contents
  BY DEF Contents, Slot

\* A sequence is the function from its indices to its elements.
LEMMA SeqAsFunction ==
  ASSUME NEW S, NEW s \in Seq(S)
  PROVE  s = [k \in 1..Len(s) |-> s[k]]
<1>1. s \in [1..Len(s) -> S]
  BY LenProperties
<1> QED
  BY <1>1

\* keyboard_handler appends the code, or drops it when the queue is full.
LEMMA HandlerPuts ==
  ASSUME RingInv, NEW c \in Codes, keyboard_handler(c)
  PROVE  Promise!Put(c)
<1> DEFINE C == Codes \cup {NoCode}
<1>1. Held = count /\ Held' = count' /\ p_tail' = p_tail /\ scan_code' = scan_code
  BY DEF keyboard_handler, RingInv, Held
<1>2. CASE count = KB_IN_BYTES
  <2>1. Contents' = Contents
    BY <1>1, <1>2, SameContents DEF keyboard_handler
  <2> QED
    BY <1>1, <1>2, <2>1, ContentsIsSeq DEF Promise!Put
<1>3. CASE count < KB_IN_BYTES
  <2>1. count \in Nat /\ count' = count + 1 /\ buf' = [buf EXCEPT ![p_head] = c]
    BY <1>3 DEF keyboard_handler, RingInv, BufferTypeOK
  <2>2. p_head = Slot(count)
    BY <1>1 DEF RingInv, RingConsistent
  <2>3. \A k \in 1..count : Slot(k-1) # p_head /\ Slot(k-1) \in 0..KB_IN_BYTES-1
    BY <1>3, <2>1, <2>2 DEF Slot, RingInv, BufferTypeOK
  <2>4. \A k : Slot(k)' = Slot(k)
    BY <1>1 DEF Slot
  <2>5. \A k \in 1..count : buf'[Slot(k-1)] = buf[Slot(k-1)]
    BY <2>1, <2>3 DEF RingInv, BufferTypeOK
  <2>6. buf'[Slot(count)] = c
    BY <2>1, <2>2 DEF RingInv, BufferTypeOK
  <2>7. Contents' = [k \in 1..count+1 |-> buf'[Slot(k-1)]]
    BY <1>1, <2>1, <2>4 DEF Contents
  <2>8. Contents' = Append(Contents, c)
    <3>1. Contents \in Seq(C) /\ Len(Contents) = count
      BY <1>1, ContentsIsSeq
    <3>2. \A k \in 1..count : Contents[k] = buf[Slot(k-1)]
      BY <1>1 DEF Contents
    <3>3. Append(Contents, c) = [k \in 1..count+1 |-> IF k = count + 1 THEN c ELSE Contents[k]]
      <4> DEFINE a == Append(Contents, c)
      <4>1. /\ a \in Seq(C)
            /\ Len(a) = count + 1
            /\ \A k \in 1..count : a[k] = Contents[k]
            /\ a[count+1] = c
        BY <3>1, AppendProperties
      <4>2. a = [k \in 1..count+1 |-> a[k]]
        BY <4>1, SeqAsFunction
      <4>3. \A k \in 1..count+1 : a[k] = IF k = count + 1 THEN c ELSE Contents[k]
        BY <4>1, <2>1
      <4> HIDE DEF a
      <4>4. a = [k \in 1..count+1 |-> IF k = count + 1 THEN c ELSE Contents[k]]
        BY <4>2, <4>3
      <4> QED
        BY <4>4 DEF a
    <3>4. \A k \in 1..count+1 :
            buf'[Slot(k-1)] = IF k = count + 1 THEN c ELSE Contents[k]
      BY <2>1, <2>5, <2>6, <3>2
    <3> QED
      BY <2>7, <3>3, <3>4
  <2> QED
    BY <1>1, <1>3, <2>8, ContentsIsSeq DEF Promise!Put
<1> QED
  BY <1>2, <1>3 DEF RingInv, BufferTypeOK

\* Fetch takes the oldest code.
LEMMA FetchGets ==
  ASSUME RingInv, Fetch
  PROVE  Promise!Get
<1> DEFINE C == Codes \cup {NoCode}
<1>1. /\ Held = count /\ Held' = count - 1
      /\ count \in Nat \ {0} /\ count <= KB_IN_BYTES
      /\ buf' = buf /\ scan_code' = buf[p_tail]
    BY DEF Fetch, RingInv, BufferTypeOK, Held
<1>2. Contents \in Seq(C) /\ Len(Contents) = count
  BY <1>1, ContentsIsSeq
<1>3. \A k \in 1..count : Contents[k] = buf[Slot(k-1)]
  BY <1>1 DEF Contents
<1>4. Slot(0) = p_tail
  BY DEF Slot, RingInv, BufferTypeOK
<1>5. Head(Contents) = scan_code' /\ Contents # << >>
  BY <1>1, <1>2, <1>3, <1>4
<1>6. \A k \in 1..count-1 : Slot(k-1)' = Slot(k)
  BY <1>1 DEF Slot, Fetch, After, RingInv, BufferTypeOK
<1>7. Contents' = [k \in 1..count-1 |-> Contents[k+1]]
  BY <1>1, <1>3, <1>6 DEF Contents
<1>8. Tail(Contents) = [k \in 1..count-1 |-> Contents[k+1]]
  <2> DEFINE t == Tail(Contents)
  <2>1. /\ t \in Seq(C)
        /\ Len(t) = count - 1
        /\ \A k \in 1..count-1 : t[k] = Contents[k+1]
    BY <1>1, <1>2, <1>5, HeadTailProperties
  <2>2. t = [k \in 1..count-1 |-> t[k]]
    BY <2>1, SeqAsFunction
  <2> HIDE DEF t
  <2>3. t = [k \in 1..count-1 |-> Contents[k+1]]
    BY <2>1, <2>2
  <2> QED
    BY <2>3 DEF t
<1> QED
  BY <1>5, <1>7, <1>8 DEF Promise!Get

\* The ring implements the lossy queue: nothing is lost but on overflow, and
\* nothing is read twice, out of order or before it was sent.
THEOREM RingIsQueue == Spec => IsQueue
<1>1. Init => Promise!QueueInit
  <2> SUFFICES ASSUME Init PROVE Promise!QueueInit
    OBVIOUS
  <2>1. RingInv /\ Held = 0 /\ scan_code = NoCode
    BY RingInit DEF Init, InitRing, Held
  <2>2. Contents = << >>
    BY <2>1, ContentsIsSeq
  <2> QED
    BY <2>1, <2>2 DEF Promise!QueueInit
<1>2. RingInv /\ [Next]_vars => [Promise!QueueNext]_(Promise!queueVars)
  <2> SUFFICES ASSUME RingInv, [Next]_vars
               PROVE  Promise!QueueNext \/ (Contents' = Contents /\ scan_code' = scan_code)
    BY DEF Promise!queueVars
  <2>1. ASSUME NEW c \in Codes, keyboard_handler(c)
        PROVE  Promise!QueueNext
    BY <2>1, HandlerPuts DEF Promise!QueueNext
  <2>2. CASE Fetch
    BY <2>2, FetchGets DEF Promise!QueueNext
  <2>3. CASE Available \/ DisableInt \/ LoadCount \/ EnableInt \/ UNCHANGED vars
    <3>1. Held' = Held /\ p_tail' = p_tail /\ buf' = buf /\ scan_code' = scan_code
      BY <2>3 DEF Available, DisableInt, LoadCount, EnableInt, vars, kb_in, Held
    <3> QED
      BY <3>1, SameContents
  <2>4. CASE StoreCount
    <3>1. Held' = Held /\ p_tail' = p_tail /\ buf' = buf /\ scan_code' = scan_code
      BY <2>4 DEF StoreCount, Held, RingInv, BufferTypeOK
    <3> QED
      BY <3>1, SameContents
  <2> QED
    BY <2>1, <2>2, <2>3, <2>4 DEF Next
<1> QED
  BY <1>1, <1>2, RingInvariance, PTL DEF Spec, IsQueue, Promise!QueueSpec
=============================================================================
