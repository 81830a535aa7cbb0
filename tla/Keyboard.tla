------------------------------ MODULE Keyboard ------------------------------
(***************************************************************************)
(* From the keys a user holds to the keys keyboard_read hands to           *)
(* in_process (kernel/keyboard.c, include/keymap.h): scan codes of one to  *)
(* six bytes that arrive one interrupt at a time and are decoded by a task *)
(* that waits in the middle of a code for its next byte.                   *)
(*                                                                         *)
(* kb_in is the queue of ScanQueue, which KeyboardBuffer implements.  A    *)
(* byte is a number and a key is the name keyboard.h gives it; the ASCII   *)
(* keys stand for themselves.                                              *)
(***************************************************************************)
EXTENDS Integers, Sequences

CONSTANTS KB_IN_BYTES,
          Keys,         \* the keys the user has, a subset of DOMAIN MakeCode
          MaxEvents     \* bound: presses, repeats and releases together

VARIABLES down,         \* the keys the user holds
          lit,          \* the lock keys pressed an odd number of times
          due,          \* what was pressed and not yet passed to in_process
          line,         \* the bytes of a code the controller has yet to deliver
          acks,         \* LED commands the keyboard has yet to acknowledge
          events,       \* presses, repeats and releases so far
          queue,        \* the bytes in kb_in
          scan_code,    \* the byte read last
          prefix,       \* the bytes of the code being read so far
          mods,         \* shift_l, shift_r, ctrl_l, ctrl_r, alt_l and alt_r
          locks         \* caps_lock, num_lock and scroll_lock

user   == <<down, lit, events>>
device == <<line, acks>>
vars   == <<down, lit, due, line, acks, events, queue, scan_code, prefix, mods, locks>>

KbIn == INSTANCE ScanQueue WITH Size <- KB_IN_BYTES, Codes <- 0..255,
                                NoCode <- -1, code <- scan_code

Mods  == {"SHIFT_L", "SHIFT_R", "CTRL_L", "CTRL_R", "ALT_L", "ALT_R"}
Locks == {"CAPS_LOCK", "NUM_LOCK", "SCROLL_LOCK"}

\* What the keyboard sends, as the decoder expects it (set 1).
PauseCode  == <<225, 29, 69, 225, 157, 197>>
MakeCode ==
  [a        |-> <<30>>,      SHIFT_L |-> <<42>>,      SHIFT_R   |-> <<54>>,
   CTRL_L   |-> <<29>>,      CTRL_R  |-> <<224, 29>>, ALT_L     |-> <<56>>,
   ALT_R    |-> <<224, 56>>, UP      |-> <<224, 72>>, PAD_UP    |-> <<72>>,
   CAPS_LOCK |-> <<58>>,     NUM_LOCK |-> <<69>>,     F2        |-> <<60>>,
   PRINTSCREEN |-> <<224, 42, 224, 55>>,              PAUSEBREAK |-> PauseCode]
BreakCode ==
  [k \in DOMAIN MakeCode |->
     IF k = "PAUSEBREAK" THEN <<>>
     ELSE IF k = "PRINTSCREEN" THEN <<224, 183, 224, 170>>
     ELSE [n \in DOMAIN MakeCode[k] |->
             IF MakeCode[k][n] = 224 THEN 224 ELSE MakeCode[k][n] + 128]]
ACK == 250

\* The rows of keymap the codes above select; every other entry is 0.
None   == "0"
Rows ==
  [n \in {29, 30, 42, 54, 56, 58, 60, 69, 72} |->
     CASE n = 29 -> <<"CTRL_L", "CTRL_L", "CTRL_R">>
       [] n = 30 -> <<"a", "A", None>>
       [] n = 42 -> <<"SHIFT_L", "SHIFT_L", None>>
       [] n = 54 -> <<"SHIFT_R", "SHIFT_R", None>>
       [] n = 56 -> <<"ALT_L", "ALT_L", "ALT_R">>
       [] n = 58 -> <<"CAPS_LOCK", "CAPS_LOCK", None>>
       [] n = 60 -> <<"F2", "F2", None>>
       [] n = 69 -> <<"NUM_LOCK", "NUM_LOCK", None>>
       [] n = 72 -> <<"PAD_UP", "8", "UP">>]
keymap(n) == IF n \in DOMAIN Rows THEN Rows[n] ELSE <<None, None, None>>
-----------------------------------------------------------------------------
ASSUME KeyboardAssumption == /\ Keys \subseteq DOMAIN MakeCode
                             /\ KB_IN_BYTES \in Nat /\ MaxEvents \in Nat

\* The members of S that are not in L, and those of L that are not in S.
Toggle(L, S) == (L \cup S) \ (L \cap S)

Shifted(S) == S \cap {"SHIFT_L", "SHIFT_R"} # {}

\* What a key means while the keys S are held and the locks L are on.
Meaning(k, S, L) ==
  CASE k = "a"      -> IF Shifted(S) # ("CAPS_LOCK" \in L) THEN "A" ELSE "a"
    [] k = "PAD_UP" -> IF Shifted(S) \/ "NUM_LOCK" \in L THEN "8" ELSE "UP"
    [] OTHER        -> k

\* in_process does not tell one Alt key from the other.
Flags(S) == {IF k = "ALT_R" THEN "ALT_L" ELSE k : k \in S \cap Mods}

Passes(k) == k \notin {"PRINTSCREEN", "PAUSEBREAK"}

\* After init_keyboard: the number lock is on.
Init ==
  /\ down = {} /\ lit = {"NUM_LOCK"} /\ due = <<>> /\ events = 0
  /\ line = <<>> /\ acks = 0
  /\ KbIn!QueueInit
  /\ prefix = <<>> /\ mods = {} /\ locks = {"NUM_LOCK"}

\* The user presses a key, or holds it until it repeats.
Press(k) ==
  /\ events < MaxEvents
  /\ line = <<>>
  /\ k \in down => k \notin Locks \cup {"PAUSEBREAK"}
  /\ down'  = down \cup {k}
  /\ lit'   = IF k \in Locks THEN Toggle(lit, {k}) ELSE lit
  /\ line'  = MakeCode[k]
  /\ due'   = IF Passes(k)
              THEN Append(due, [key |-> Meaning(k, down', lit'), flags |-> Flags(down')])
              ELSE due
  /\ events' = events + 1
  /\ UNCHANGED <<acks, queue, scan_code, prefix, mods, locks>>

Release(k) ==
  /\ events < MaxEvents
  /\ line = <<>>
  /\ k \in down
  /\ down' = down \ {k}
  /\ line' = BreakCode[k]
  /\ events' = events + 1
  /\ UNCHANGED <<lit, due, acks, queue, scan_code, prefix, mods, locks>>

\* keyboard_handler: the next byte of the code interrupts.
Deliver ==
  /\ line # <<>>
  /\ KbIn!Put(Head(line))
  /\ line' = Tail(line)
  /\ UNCHANGED <<user, due, acks, prefix, mods, locks>>

\* The answer to an LED command, which kb_ack does not wait for (keyboard.c:339
\* assigns where it means to compare), comes as one more scan code.
Acknowledge ==
  /\ line = <<>> /\ acks > 0
  /\ line' = <<ACK>>
  /\ acks' = acks - 1
  /\ UNCHANGED <<user, due, queue, scan_code, prefix, mods, locks>>
-----------------------------------------------------------------------------
Starts(s, t) == Len(s) < Len(t) /\ s = SubSeq(t, 1, Len(s))

\* Bugs for the runs to detect: PrintScreen is not recognised; the loop over
\* the bytes of Pause reads one too many.
More_NoPrint(s) == Starts(s, PauseCode) \/ s = <<224>>
More_OneTooMany(s) == \/ Starts(s, PauseCode) \/ s = PauseCode
                      \/ Starts(s, <<224, 42, 224, 55>>)
                      \/ Starts(s, <<224, 183, 224, 170>>)

\* keyboard_read asks for another byte of the code that starts with s.
More(s) == \/ Starts(s, PauseCode)
           \/ Starts(s, <<224, 42, 224, 55>>)
           \/ Starts(s, <<224, 183, 224, 170>>)

IsPauseOrPrint(s) == s \in {PauseCode, <<224, 42, 224, 55>>, <<224, 183, 224, 170>>}

\* The byte keyboard_read looks up for the complete code s.
Looked(s) == IF s[1] = 224 THEN s[2] ELSE s[1]

\* The column for the flags S and the locks L.
Column(row, e0, S, L) ==
  LET caps == Shifted(S) # ("CAPS_LOCK" \in L /\ row[1] = "a")
  IN  IF e0 THEN 3 ELSE IF caps THEN 2 ELSE 1

\* The switch of keyboard_read: the flag of ALT_R is that of ALT_L.
ModsAfter(key, make, S) ==
  LET flag == IF key = "ALT_R" THEN "ALT_L" ELSE key
  IN  CASE key \in Mods /\ make  -> S \cup {flag}
        [] key \in Mods /\ ~make -> S \ {flag}
        [] OTHER -> S

\* A lock key toggles its lock and sends two LED commands.
Toggles(key, make) == key \in Locks /\ make

Padded(key, L) ==
  IF key = "PAD_UP" THEN IF "NUM_LOCK" \in L THEN "8" ELSE "UP" ELSE key

\* What keyboard_read makes of the complete code s, with the flags S and the
\* locks L: the new flags and locks, the LED commands, and what in_process gets.
Effect(s, S, L) ==
  LET make == Looked(s) < 128
      row  == keymap(Looked(s) % 128)
      key  == row[Column(row, s[1] = 224, S, L)]
      flip == IF Toggles(key, make) THEN {key} ELSE {}
      newS == ModsAfter(key, make, S)
      newL == Toggle(L, flip)
  IN  IF IsPauseOrPrint(s) THEN [mods |-> S, locks |-> L, leds |-> 0, out |-> <<>>]
      ELSE [mods |-> newS, locks |-> newL, leds |-> IF flip = {} THEN 0 ELSE 2,
            out |-> IF make THEN <<[key |-> Padded(key, newL), flags |-> newS]>> ELSE <<>>]

\* in_process(key): what is handed over is what was due.
InProcess(out) ==
  due' = IF out = <<>> THEN due
         ELSE IF due # <<>> /\ Head(due) = out[1] THEN Tail(due)
         ELSE <<[key |-> "wrong", flags |-> out[1].flags]>>

\* keyboard_read on the complete code s.
Decode(s) ==
  LET effect == Effect(s, mods, locks)
  IN  /\ mods' = effect.mods /\ locks' = effect.locks
      /\ acks' = acks + effect.leds
      /\ InProcess(effect.out)

\* get_byte_from_kbuf within keyboard_read.
Read ==
  /\ KbIn!Get
  /\ LET s == Append(prefix, scan_code')
     IN  IF More(s) THEN /\ prefix' = s
                         /\ UNCHANGED <<due, mods, locks, acks>>
         ELSE /\ prefix' = <<>>
              /\ Decode(s)
  /\ UNCHANGED <<user, line>>

Next == \/ \E k \in Keys : Press(k) \/ Release(k)
        \/ Deliver \/ Acknowledge \/ Read

\* The controller raises an interrupt for every byte, and the scheduler runs
\* the terminal task again and again (NoStarvation of Scheduler).
Spec == Init /\ [][Next]_vars /\ WF_vars(Deliver) /\ WF_vars(Acknowledge) /\ WF_vars(Read)
-----------------------------------------------------------------------------
\* Every key passed to in_process is the next key pressed, in the order of
\* the presses, with the meaning and the modifiers it had when it was pressed,
\* however late it is decoded.
DecodesInOrder == \A n \in 1..Len(due) : due[n].key # "wrong"

\* Every press is decoded in the end, the task is never left waiting in the
\* middle of a code, where it would serve no terminal, and once the user stops
\* the modifier flags are the keys held and the locks the lights: the decoder
\* is never out of step with the keyboard for good.
EveryKeyDecoded ==
  <>[](prefix = <<>> /\ due = <<>> /\ mods = Flags(down) /\ locks = lit)
=============================================================================
