-------------------------- MODULE KeyboardBuffer ---------------------------
(***************************************************************************)
(* The ring of scan codes kb_in between the keyboard interrupt and the     *)
(* terminal task: keyboard_handler, get_byte_from_kbuf and the part of     *)
(* init_keyboard that resets the ring (kernel/keyboard.c).                 *)
(*                                                                         *)
(* The handler interrupts the task, never the other way round, so it is    *)
(* one action, enabled while the task has interrupts on.  The task's code  *)
(* is cut where an interrupt can fall, the read and the write of           *)
(* kb_in.count-- included.  Positions in the ring count from 0.            *)
(***************************************************************************)
EXTENDS Integers, Sequences

CONSTANTS KB_IN_BYTES, Codes, NoCode

ASSUME BufferAssumption == /\ KB_IN_BYTES \in Nat \ {0}
                           /\ NoCode \notin Codes

VARIABLES p_head, p_tail, count, buf,   \* the fields of kb_in
          scan_code,    \* what get_byte_from_kbuf returned last
          at,           \* the step the terminal task is at
          tmp,          \* the register kb_in.count-- goes through
          ints          \* the task runs with interrupts enabled

kb_in == <<p_head, p_tail, count, buf>>
vars  == <<p_head, p_tail, count, buf, scan_code, at, tmp, ints>>

\* The static buffer starts as zeros, which nobody sent.
InitRing ==
  /\ p_head = 0 /\ p_tail = 0 /\ count = 0
  /\ buf = [n \in 0..KB_IN_BYTES-1 |-> NoCode]
  /\ scan_code = NoCode
  /\ tmp = 0
  /\ ints = TRUE

\* The ring after init_keyboard, the task about to read.
Init == InitRing /\ at = "wait"

\* The ring after the call kernel_main makes with interrupts disabled; the
\* keyboard interrupt is on, and task_tty is about to call init_keyboard
\* again.
BootInit == InitRing /\ at = "reset_count"

\* The next position: the pointer wraps at the end of the buffer.
After(n) == IF n + 1 = KB_IN_BYTES THEN 0 ELSE n + 1
-----------------------------------------------------------------------------
\* A bug for the runs to detect: the full ring is overwritten.
keyboard_handler_Overwrites(c) ==
  /\ ints
  /\ buf'    = [buf EXCEPT ![p_head] = c]
  /\ p_head' = After(p_head)
  /\ count'  = IF count < KB_IN_BYTES THEN count + 1 ELSE count
  /\ UNCHANGED <<p_tail, scan_code, at, tmp, ints>>

\* keyboard_handler: store the code, or drop it when the ring is full.
keyboard_handler(c) ==
  /\ ints
  /\ IF count < KB_IN_BYTES
     THEN /\ buf'    = [buf EXCEPT ![p_head] = c]
          /\ p_head' = After(p_head)
          /\ count'  = count + 1
     ELSE UNCHANGED <<buf, p_head, count>>
  /\ UNCHANGED <<p_tail, scan_code, at, tmp, ints>>

\* The loop of get_byte_from_kbuf ends.
Available ==
  /\ at = "wait" /\ count > 0
  /\ at' = "disable"
  /\ UNCHANGED <<kb_in, scan_code, tmp, ints>>

\* A bug for the runs to detect: the critical section is not one.
DisableInt_Not ==
  /\ at = "disable"
  /\ at' = "fetch"
  /\ UNCHANGED <<kb_in, scan_code, tmp, ints>>

DisableInt ==
  /\ at = "disable"
  /\ ints' = FALSE
  /\ at' = "fetch"
  /\ UNCHANGED <<kb_in, scan_code, tmp>>

\* Take the byte at the tail and move the tail on.
Fetch ==
  /\ at = "fetch"
  /\ scan_code' = buf[p_tail]
  /\ p_tail' = After(p_tail)
  /\ at' = "load"
  /\ UNCHANGED <<p_head, count, buf, tmp, ints>>

\* kb_in.count--, the read and the write.
LoadCount ==
  /\ at = "load"
  /\ tmp' = count
  /\ at'  = "store"
  /\ UNCHANGED <<kb_in, scan_code, ints>>

\* A bug for the runs to detect: the count is not decremented.
StoreCount_Not ==
  /\ at = "store"
  /\ at' = "enable"
  /\ UNCHANGED <<kb_in, scan_code, tmp, ints>>

StoreCount ==
  /\ at = "store"
  /\ count' = tmp - 1
  /\ at' = "enable"
  /\ UNCHANGED <<p_head, p_tail, buf, scan_code, tmp, ints>>

EnableInt ==
  /\ at = "enable"
  /\ ints' = TRUE
  /\ at' = "wait"
  /\ UNCHANGED <<kb_in, scan_code, tmp>>

Next ==
  \/ \E c \in Codes : keyboard_handler(c)
  \/ Available \/ DisableInt \/ Fetch \/ LoadCount \/ StoreCount \/ EnableInt

\* init_keyboard: kb_in.count = 0; then kb_in.p_head = kb_in.p_tail =
\* kb_in.buf, which stores the tail first.
ResetCount ==
  /\ at = "reset_count"
  /\ count' = 0
  /\ at' = "reset_tail"
  /\ UNCHANGED <<p_head, p_tail, buf, scan_code, tmp, ints>>

ResetTail ==
  /\ at = "reset_tail"
  /\ p_tail' = 0
  /\ at' = "reset_head"
  /\ UNCHANGED <<p_head, count, buf, scan_code, tmp, ints>>

ResetHead ==
  /\ at = "reset_head"
  /\ p_head' = 0
  /\ at' = "wait"
  /\ UNCHANGED <<p_tail, count, buf, scan_code, tmp, ints>>

\* The driver once the task has reset the ring with no key in the meantime,
\* and the driver from boot.
Spec     == Init /\ [][Next]_vars
BootSpec == BootInit /\ [][Next \/ ResetCount \/ ResetTail \/ ResetHead]_vars
-----------------------------------------------------------------------------
\* The position k places after the tail.
Slot(k) == IF p_tail + k < KB_IN_BYTES THEN p_tail + k ELSE p_tail + k - KB_IN_BYTES

\* The codes in the ring: between Fetch and StoreCount the count is one more.
Held == IF at \in {"load", "store"} THEN count - 1 ELSE count

Resetting == at \in {"reset_count", "reset_tail", "reset_head"}

BufferTypeOK ==
  /\ p_head \in 0..KB_IN_BYTES-1 /\ p_tail \in 0..KB_IN_BYTES-1
  /\ count \in 0..KB_IN_BYTES
  /\ buf \in [0..KB_IN_BYTES-1 -> Codes \cup {NoCode}]
  /\ scan_code \in Codes \cup {NoCode}
  /\ at \in {"reset_count", "reset_tail", "reset_head", "wait", "disable",
             "fetch", "load", "store", "enable"}
  /\ tmp \in 0..KB_IN_BYTES
  /\ ints \in BOOLEAN

\* keyboard.h:124-126 on KB_INPUT: p_head is the next free position, p_tail
\* the byte to be handled next and count the number of bytes in between.
RingConsistent == ~Resetting => p_head = Slot(Held)

\* The ring is the promised queue: nothing lost but on overflow, nothing
\* twice, nothing out of order.
Contents == [k \in 1..Held |-> buf[Slot(k-1)]]
Promise  == INSTANCE ScanQueue WITH Size <- KB_IN_BYTES, queue <- Contents,
                                    code <- scan_code
IsQueue  == Promise!QueueSpec
=============================================================================
