--------------------------- MODULE ConsoleProofs ---------------------------
(***************************************************************************)
(* Proofs about module Console, for any number of consoles and any sizes   *)
(* of a line, of the screen and of a console's region: as long as no       *)
(* process prints on a console while the terminal task is printing there,  *)
(* every cursor and every word written stays within the region of its      *)
(* console, every screen reaches less than a line beyond it, the loop that *)
(* scrolls always has a line left, what is typed is echoed where it was    *)
(* typed, and the controller has addresses that are up to date.            *)
(***************************************************************************)
EXTENDS Console, TLAPS

Labels == {"read", "do_write", "dumped", "test", "write", "load", "store",
           "scroll", "set_cursor", "set_start"}

TypeOK ==
  /\ cursor \in [Consoles -> Int] /\ current_start_addr \in [Consoles -> Int]
  /\ nr_current_console \in Consoles /\ p_tty \in Consoles /\ p_con \in Consoles
  /\ in_buf \in [Consoles -> Seq(Chars)]
  /\ at \in Labels /\ after \in {"read", "do_write"}
  /\ ch \in Chars /\ p_vmem \in Int /\ tmp \in Int

(* The console's screen starts n lines after its region does.              *)
WholeLines(c, start) ==
  \E n \in Nat : start = original_addr(c) + SCREEN_WIDTH * n

StartInRegion ==
  \A c \in Consoles :
    /\ WholeLines(c, current_start_addr[c])
    /\ current_start_addr[c] + SCREEN_SIZE < Limit(c) + SCREEN_WIDTH

(* What the steps of out_char have found out about the cursor still holds, *)
(* since nobody else moves it meanwhile.                                   *)
StepFacts ==
  /\ at \in {"load", "store"} \/ (at = "write" /\ ch = "x") => Fits(p_con, ch)
  /\ at = "store" => tmp = Moved(p_con, ch)
  /\ at = "test" \/ (at \in {"load", "store"} /\ ch = "BS") \/ (at = "write" /\ ch = "x")
       => p_vmem = cursor[p_con]
  /\ at = "write" => ch # "LF"
  /\ at = "write" /\ ch = "BS" => p_vmem = cursor[p_con] + 1

ConsInv == TypeOK /\ CursorInRegion /\ StartInRegion /\ StepFacts

-----------------------------------------------------------------------------
LEMMA Sizes ==
  /\ NR_CONSOLES \in Nat \ {0} /\ SCREEN_WIDTH \in Nat \ {0}
  /\ SCREEN_SIZE \in Nat /\ v_mem_limit \in Nat
  /\ v_mem_limit > SCREEN_SIZE /\ v_mem_limit > 2
BY ConsoleAssumption

LEMMA Address ==
  ASSUME NEW c \in Consoles
  PROVE  original_addr(c) \in Nat /\ Limit(c) = original_addr(c) + v_mem_limit
<1>1. c \in Nat /\ v_mem_limit \in Nat
  BY Sizes DEF Consoles
<1>2. c * v_mem_limit \in Nat
  BY <1>1
<1> QED  BY <1>2 DEF original_addr, Limit

(* Whole lines of an offset: what out_char and its loop compute.           *)
LEMMA Division ==
  ASSUME NEW x \in Nat, NEW w \in Nat \ {0}
  PROVE  /\ x \div w \in Nat
         /\ w * (x \div w) \in Nat
         /\ w * (x \div w) <= x
         /\ x < w * (x \div w) + w
  OBVIOUS

LEMMA Times ==
  ASSUME NEW m \in Nat, NEW n \in Nat, NEW w \in Nat
  PROVE  /\ w * n \in Nat
         /\ w * m + w * n = w * (m + n)
         /\ w * (n + 1) = w * n + w
  OBVIOUS

LEMMA LineStarts ==
  ASSUME NEW n \in Nat, NEW w \in Nat \ {0}
  PROVE  (w * n) % w = 0
  OBVIOUS
-----------------------------------------------------------------------------
(* Wherever out_char's tests pass, the cursor it computes is in the region. *)
LEMMA MovedInRegion ==
  ASSUME TypeOK, CursorInRegion, NEW c \in Consoles, NEW k \in Chars, Fits(c, k)
  PROVE  Moved(c, k) \in Region(c)
<1> DEFINE o == original_addr(c)
           x == cursor[c] - o
<1>1. /\ o \in Nat /\ Limit(c) = o + v_mem_limit /\ v_mem_limit \in Nat
      /\ SCREEN_WIDTH \in Nat \ {0}
  BY Address, Sizes
<1>2. cursor[c] \in Int /\ cursor[c] >= o /\ cursor[c] < Limit(c)
  BY <1>1 DEF TypeOK, CursorInRegion, Region
<1>3. CASE k = "LF"
  <2> DEFINE line == x \div SCREEN_WIDTH
  <2>1. x \in Nat /\ cursor[c] < Limit(c) - SCREEN_WIDTH
    BY <1>1, <1>2, <1>3 DEF Fits
  <2>2. /\ line \in Nat /\ SCREEN_WIDTH * line \in Nat /\ SCREEN_WIDTH * line <= x
        /\ SCREEN_WIDTH * (line + 1) = SCREEN_WIDTH * line + SCREEN_WIDTH
    BY <1>1, <2>1, Division, Times
  <2>3. Moved(c, k) = o + SCREEN_WIDTH * (line + 1)
    BY <1>3 DEF Moved
  <2> HIDE DEF line
  <2> QED  BY <1>1, <1>2, <2>1, <2>2, <2>3 DEF Region
<1>4. CASE k = "BS"
  BY <1>1, <1>2, <1>4 DEF Fits, Moved, Region
<1>5. CASE k = "x"
  BY <1>1, <1>2, <1>5 DEF Fits, Moved, Region
<1> QED  BY <1>3, <1>4, <1>5 DEF Chars

(* With the cursor in the region there is a line left to scroll.           *)
LEMMA LineLeft ==
  ASSUME TypeOK, CursorInRegion, NEW c \in Consoles,
         Below(c, cursor[c], current_start_addr[c])
  PROVE  CanScroll(c)
<1>1. /\ original_addr(c) \in Nat /\ Limit(c) = original_addr(c) + v_mem_limit
      /\ v_mem_limit \in Nat /\ SCREEN_SIZE \in Nat
  BY Address, Sizes
<1> QED  BY <1>1 DEF TypeOK, CursorInRegion, Region, Below, CanScroll

(* A start address that scrolls by a line, or back by one, is again one.   *)
LEMMA OneLine ==
  ASSUME NEW c \in Consoles, NEW s \in Int, WholeLines(c, s)
  PROVE  /\ WholeLines(c, s + SCREEN_WIDTH)
         /\ s > original_addr(c) => WholeLines(c, s - SCREEN_WIDTH)
<1>1. original_addr(c) \in Nat /\ SCREEN_WIDTH \in Nat \ {0}
  BY Address, Sizes
<1>2. PICK n \in Nat : s = original_addr(c) + SCREEN_WIDTH * n
  BY DEF WholeLines
<1>3. WholeLines(c, s + SCREEN_WIDTH)
  <2>1. SCREEN_WIDTH * (n + 1) = SCREEN_WIDTH * n + SCREEN_WIDTH
        /\ SCREEN_WIDTH * n \in Nat /\ n + 1 \in Nat
    BY <1>1, Times
  <2>2. s + SCREEN_WIDTH = original_addr(c) + SCREEN_WIDTH * (n + 1)
    BY <1>1, <1>2, <2>1
  <2> QED  BY <2>1, <2>2 DEF WholeLines
<1>4. ASSUME s > original_addr(c) PROVE WholeLines(c, s - SCREEN_WIDTH)
  <2>1. n # 0
    BY <1>1, <1>2, <1>4
  <2>2. PICK m \in Nat : n = m + 1
    BY <2>1
  <2>3. SCREEN_WIDTH * n = SCREEN_WIDTH * m + SCREEN_WIDTH /\ SCREEN_WIDTH * m \in Nat
    BY <1>1, <2>2, Times
  <2>4. s - SCREEN_WIDTH = original_addr(c) + SCREEN_WIDTH * m
    BY <1>1, <1>2, <2>3
  <2> QED  BY <2>4 DEF WholeLines
<1> QED  BY <1>3, <1>4

(* What the loop of out_char leaves as the start address.                  *)
LEMMA ScrolledInRegion ==
  ASSUME TypeOK, StartInRegion, NEW c \in Consoles, NEW place \in Region(c)
  PROVE  /\ Scrolled(c, place) \in Int
         /\ WholeLines(c, Scrolled(c, place))
         /\ Scrolled(c, place) + SCREEN_SIZE < Limit(c) + SCREEN_WIDTH
<1> DEFINE s == current_start_addr[c]
           d == place - (s + SCREEN_SIZE)
<1>1. /\ original_addr(c) \in Nat /\ Limit(c) = original_addr(c) + v_mem_limit
      /\ v_mem_limit \in Nat /\ SCREEN_SIZE \in Nat /\ SCREEN_WIDTH \in Nat \ {0}
  BY Address, Sizes
<1>2. s \in Int /\ WholeLines(c, s) /\ s + SCREEN_SIZE < Limit(c) + SCREEN_WIDTH
  BY DEF TypeOK, StartInRegion
<1>3. place \in Int /\ place < Limit(c)
  BY <1>1 DEF Region
<1>4. CASE ~Below(c, place, s)
  BY <1>2, <1>4 DEF Scrolled
<1>5. CASE Below(c, place, s)
  <2> DEFINE q == d \div SCREEN_WIDTH
  <2>1. d \in Nat
    BY <1>1, <1>2, <1>3, <1>5 DEF Below
  <2>2. /\ q \in Nat /\ SCREEN_WIDTH * q \in Nat /\ SCREEN_WIDTH * q <= d
        /\ SCREEN_WIDTH * (q + 1) = SCREEN_WIDTH * q + SCREEN_WIDTH
    BY <1>1, <2>1, Division, Times
  <2>3. Scrolled(c, place) = s + SCREEN_WIDTH * (q + 1)
    BY <1>5 DEF Scrolled
  <2> HIDE DEF q
  <2>4. PICK n \in Nat : s = original_addr(c) + SCREEN_WIDTH * n
    BY <1>2 DEF WholeLines
  <2>5. SCREEN_WIDTH * n + SCREEN_WIDTH * (q + 1) = SCREEN_WIDTH * (n + (q + 1))
        /\ SCREEN_WIDTH * n \in Nat /\ n + (q + 1) \in Nat /\ SCREEN_WIDTH * (q + 1) \in Nat
    BY <1>1, <2>2, Times
  <2>6. Scrolled(c, place) = original_addr(c) + SCREEN_WIDTH * (n + (q + 1))
    BY <1>1, <2>3, <2>4, <2>5
  <2>7. WholeLines(c, Scrolled(c, place))
    BY <2>5, <2>6 DEF WholeLines
  <2> QED  BY <1>1, <1>2, <1>3, <2>1, <2>2, <2>3, <2>7
<1> QED  BY <1>4, <1>5
-----------------------------------------------------------------------------
LEMMA InitCons == Init => ConsInv
<1> SUFFICES ASSUME Init PROVE ConsInv  OBVIOUS
<1>0. 0 \in Consoles
  BY Sizes DEF Consoles
<1>1. PICK n \in 0..SCREEN_SIZE-1 :
        cursor = [c \in Consoles |-> IF c = 0 THEN n ELSE original_addr(c) + 2]
  BY DEF Init
<1>2. \A c \in Consoles : /\ original_addr(c) \in Nat
                          /\ Limit(c) = original_addr(c) + v_mem_limit
                          /\ c = 0 => original_addr(c) = 0
                          /\ current_start_addr[c] = original_addr(c)
                          /\ cursor[c] = IF c = 0 THEN n ELSE original_addr(c) + 2
  BY <1>1, Address, Sizes DEF Init, original_addr
<1>3. TypeOK
  BY <1>0, <1>1, <1>2, Sizes DEF Init, TypeOK, Labels, Chars
<1>4. CursorInRegion
  BY <1>2, Sizes DEF CursorInRegion, Region
<1>5. StartInRegion
  <2> SUFFICES ASSUME NEW c \in Consoles
               PROVE  /\ WholeLines(c, current_start_addr[c])
                      /\ current_start_addr[c] + SCREEN_SIZE < Limit(c) + SCREEN_WIDTH
    BY DEF StartInRegion
  <2>1. SCREEN_WIDTH * 0 = 0 /\ 0 \in Nat
    BY Sizes
  <2>2. WholeLines(c, current_start_addr[c])
    BY <1>2, <2>1 DEF WholeLines
  <2> QED  BY <1>2, <2>2, Sizes
<1>6. StepFacts
  BY DEF Init, StepFacts
<1> QED  BY <1>3, <1>4, <1>5, <1>6 DEF ConsInv

(* sys_printx on a console where the task is not printing.                 *)
LEMMA PrintCons ==
  ASSUME ConsInv, NEW c \in Consoles, Printing => c # p_con,
         NEW k \in Chars, Printx(c, k)
  PROVE  ConsInv'
<1> DEFINE place == IF Fits(c, k) THEN Moved(c, k) ELSE cursor[c]
<1>1. place \in Region(c)
  BY MovedInRegion DEF ConsInv, CursorInRegion
<1>2. place \in Int
  BY <1>1, Address, Sizes DEF Region
<1>3. /\ cursor' = [cursor EXCEPT ![c] = place]
      /\ current_start_addr' = [current_start_addr EXCEPT ![c] = Scrolled(c, place)]
      /\ UNCHANGED <<nr_current_console, in_buf, task, at, locals>>
  BY DEF Printx
<1> HIDE DEF place
<1>4. /\ Scrolled(c, place) \in Int /\ WholeLines(c, Scrolled(c, place))
      /\ Scrolled(c, place) + SCREEN_SIZE < Limit(c) + SCREEN_WIDTH
  BY <1>1, ScrolledInRegion DEF ConsInv
<1>5. TypeOK'
  BY <1>2, <1>3, <1>4 DEF ConsInv, TypeOK, task, locals
<1>6. CursorInRegion'
  BY <1>1, <1>3 DEF ConsInv, TypeOK, CursorInRegion, Region, Limit, original_addr
<1>7. StartInRegion'
  BY <1>3, <1>4 DEF ConsInv, TypeOK, StartInRegion, WholeLines, Limit, original_addr
<1>8. StepFacts'
  <2>1. CASE Printing
    <3>1. cursor'[p_con] = cursor[p_con]
      BY <1>3, <2>1 DEF ConsInv, TypeOK
    <3> QED
      BY <1>3, <3>1 DEF ConsInv, StepFacts, Fits, Moved, Limit, original_addr, locals
  <2>2. CASE ~Printing
    BY <1>3, <2>2 DEF StepFacts, Printing
  <2> QED  BY <2>1, <2>2
<1> QED  BY <1>5, <1>6, <1>7, <1>8 DEF ConsInv
-----------------------------------------------------------------------------
(* The steps that move no cursor, change no screen and leave out_char's     *)
(* findings behind, or have not started on them.                            *)
LEMMA OutsideCons ==
  ASSUME ConsInv, UNCHANGED consoles, TypeOK', at' \notin {"test", "write", "load", "store"}
  PROVE  ConsInv'
BY DEF ConsInv, CursorInRegion, StartInRegion, StepFacts, consoles, WholeLines,
       Region, Limit, original_addr

(* Shift and an arrow key.                                                  *)
LEMMA ScrollKeyCons == ConsInv /\ (ScrollUp \/ ScrollDown) => ConsInv'
<1> SUFFICES ASSUME ConsInv, ScrollUp \/ ScrollDown PROVE ConsInv'  OBVIOUS
<1> DEFINE s == current_start_addr[p_tty]
<1>1. p_tty \in Consoles /\ s \in Int /\ WholeLines(p_tty, s)
      /\ s + SCREEN_SIZE < Limit(p_tty) + SCREEN_WIDTH
  BY DEF ConsInv, TypeOK, StartInRegion
<1>2. original_addr(p_tty) \in Nat /\ Limit(p_tty) = original_addr(p_tty) + v_mem_limit
      /\ v_mem_limit \in Nat /\ SCREEN_SIZE \in Nat /\ SCREEN_WIDTH \in Nat \ {0}
  BY <1>1, Address, Sizes
<1> DEFINE Kept(z) == /\ current_start_addr' = [current_start_addr EXCEPT ![p_tty] = z]
                      /\ WholeLines(p_tty, z)
                      /\ z + SCREEN_SIZE < Limit(p_tty) + SCREEN_WIDTH
<1>3. PICK z \in Int : Kept(z)
  <2>1. ASSUME current_start_addr' = current_start_addr PROVE \E z \in Int : Kept(z)
    BY <1>1, <2>1 DEF ConsInv, TypeOK
  <2>2. ASSUME ScrollUp, s > original_addr(p_tty) PROVE \E z \in Int : Kept(z)
    <3>1. WholeLines(p_tty, s - SCREEN_WIDTH) /\ s - SCREEN_WIDTH \in Int
      BY <1>1, <1>2, <2>2, OneLine
    <3>2. s - SCREEN_WIDTH + SCREEN_SIZE < Limit(p_tty) + SCREEN_WIDTH
      BY <1>1, <1>2
    <3> QED  BY <2>2, <3>1, <3>2 DEF ScrollUp
  <2>3. ASSUME ScrollDown, CanScroll(p_tty) PROVE \E z \in Int : Kept(z)
    <3>1. WholeLines(p_tty, s + SCREEN_WIDTH) /\ s + SCREEN_WIDTH \in Int
      BY <1>1, <1>2, OneLine
    <3>2. s + SCREEN_WIDTH + SCREEN_SIZE < Limit(p_tty) + SCREEN_WIDTH
      BY <1>1, <1>2, <2>3 DEF CanScroll
    <3> QED  BY <2>3, <3>1, <3>2 DEF ScrollDown
  <2> QED  BY <2>1, <2>2, <2>3 DEF ScrollUp, ScrollDown
<1>4. /\ at' = "set_cursor" /\ after' = "do_write" /\ p_con' = p_tty
      /\ UNCHANGED <<cursor, nr_current_console, in_buf, p_tty, ch, p_vmem, tmp>>
  BY DEF ScrollUp, ScrollDown, Flush
<1>5. TypeOK'
  BY <1>1, <1>3, <1>4 DEF ConsInv, TypeOK, Labels
<1>6. CursorInRegion'
  BY <1>4 DEF ConsInv, CursorInRegion, Region, Limit, original_addr
<1>7. StartInRegion'
  BY <1>3 DEF ConsInv, TypeOK, StartInRegion, WholeLines, Limit, original_addr
<1>8. StepFacts'
  BY <1>4 DEF StepFacts
<1> QED  BY <1>5, <1>6, <1>7, <1>8 DEF ConsInv

(* task_tty around out_char, and flush.                                     *)
LEMMA ServeCons ==
  ASSUME ConsInv,
         \/ NoKey \/ \E k \in Chars : PutKey(k)
         \/ \E n \in 0..NR_CONSOLES : SelectConsole(n)
         \/ Dump \/ Dumped \/ NothingToWrite \/ SetCursor \/ SetStart
  PROVE  ConsInv'
<1>0. TypeOK /\ 0 \in Consoles /\ NextTty \in Consoles
  BY Sizes DEF Consoles, NextTty, ConsInv, TypeOK
<1>1. TypeOK'
  <2>1. CASE NoKey
    BY <1>0, <2>1 DEF NoKey, TypeOK, Labels, consoles, task, locals
  <2>2. ASSUME NEW k \in Chars, PutKey(k) PROVE TypeOK'
    BY <1>0, <2>2 DEF PutKey, TypeOK, Labels, consoles, task, locals
  <2>3. ASSUME NEW n \in 0..NR_CONSOLES, SelectConsole(n) PROVE TypeOK'
    BY <1>0, <2>3 DEF SelectConsole, Flush, TypeOK, Labels, consoles, task, locals
  <2>4. CASE Dump
    BY <1>0, <2>4 DEF Dump, TypeOK, Labels, consoles, task, locals
  <2>5. CASE Dumped
    BY <1>0, <2>5 DEF Dumped, TypeOK, vars, consoles, task, locals
  <2>6. CASE NothingToWrite
    BY <1>0, <2>6 DEF NothingToWrite, TypeOK, Labels, consoles, locals
  <2>7. CASE SetCursor
    BY <1>0, <2>7 DEF SetCursor, TypeOK, Labels, consoles, task, locals
  <2>8. CASE SetStart
    BY <1>0, <2>8 DEF SetStart, TypeOK, Labels, Chars, consoles, task
  <2> QED  BY <2>1, <2>2, <2>3, <2>4, <2>5, <2>6, <2>7, <2>8
<1>2. UNCHANGED consoles
  BY DEF NoKey, PutKey, SelectConsole, Dump, Dumped, NothingToWrite, SetCursor, SetStart,
         consoles, vars
<1>3. at' \notin {"test", "write", "load", "store"}
  BY <1>0 DEF NoKey, PutKey, SelectConsole, Flush, Dump, Dumped, NothingToWrite, SetCursor,
         SetStart, vars, TypeOK
<1> QED  BY <1>1, <1>2, <1>3, OutsideCons

(* out_char up to the change of the cursor, and the write.                  *)
LEMMA OutCharCons == ConsInv /\ (OutChar \/ Test \/ Write \/ Load) => ConsInv'
<1> SUFFICES ASSUME ConsInv, OutChar \/ Test \/ Write \/ Load PROVE ConsInv'  OBVIOUS
<1>1. UNCHANGED consoles
  BY DEF OutChar, Test, Write, Load
<1>2. CursorInRegion' /\ StartInRegion'
  BY <1>1 DEF ConsInv, CursorInRegion, StartInRegion, consoles, WholeLines,
              Region, Limit, original_addr
<1>3. TypeOK'
  <2>1. CASE OutChar
    <3>1. NextTty \in Consoles
      BY Sizes DEF Consoles, NextTty, ConsInv, TypeOK
    <3>2. Head(in_buf[p_tty]) \in Chars /\ Tail(in_buf[p_tty]) \in Seq(Chars)
      BY <2>1 DEF OutChar, ConsInv, TypeOK
    <3> QED  BY <2>1, <3>1, <3>2 DEF OutChar, ConsInv, TypeOK, Labels, consoles
  <2>2. CASE Load
    <3>1. Moved(p_con, ch) \in Int
      BY <2>2, MovedInRegion, Address, Sizes DEF Load, ConsInv, TypeOK, StepFacts, Region
    <3> QED  BY <2>2, <3>1 DEF Load, ConsInv, TypeOK, Labels, consoles, task
  <2>3. CASE Test \/ Write
    BY <2>3 DEF Test, Write, ConsInv, TypeOK, Labels, consoles, task, locals
  <2> QED  BY <2>1, <2>2, <2>3
<1>4. StepFacts'
  <2>1. CASE OutChar
    BY <2>1 DEF OutChar, StepFacts, consoles
  <2>2. CASE Test
    BY <2>2 DEF Test, ConsInv, TypeOK, Chars, StepFacts, consoles, locals, Fits, Limit, original_addr
  <2>3. CASE Write
    BY <2>3 DEF Write, ConsInv, TypeOK, Chars, StepFacts, consoles, locals, Fits, Limit, original_addr
  <2>4. CASE Load
    BY <2>4 DEF Load, ConsInv, TypeOK, Chars, StepFacts, consoles, Fits, Moved, Limit, original_addr
  <2> QED  BY <2>1, <2>2, <2>3, <2>4
<1> QED  BY <1>2, <1>3, <1>4 DEF ConsInv

(* The cursor takes the value computed from what the test saw.              *)
LEMMA StoreCons == ConsInv /\ Store => ConsInv'
<1> SUFFICES ASSUME ConsInv, Store PROVE ConsInv'  OBVIOUS
<1>1. tmp \in Region(p_con) /\ p_con \in Consoles /\ tmp \in Int
  BY MovedInRegion DEF Store, ConsInv, StepFacts, TypeOK
<1>2. /\ cursor' = [cursor EXCEPT ![p_con] = tmp]
      /\ at' = IF ch = "BS" THEN "write" ELSE "scroll"
      /\ UNCHANGED <<current_start_addr, nr_current_console, in_buf, task, locals>>
  BY DEF Store
<1>3. TypeOK'
  BY <1>1, <1>2 DEF ConsInv, TypeOK, Labels, task, locals
<1>4. CursorInRegion'
  BY <1>1, <1>2 DEF ConsInv, TypeOK, CursorInRegion, Region, Limit, original_addr
<1>5. StartInRegion'
  BY <1>2 DEF ConsInv, StartInRegion, WholeLines, Limit, original_addr
<1>6. StepFacts'
  <2>1. ch = "BS" => tmp = p_vmem - 1
    BY DEF Store, ConsInv, StepFacts, Moved
  <2> QED  BY <1>1, <1>2, <2>1 DEF ConsInv, TypeOK, StepFacts, locals
<1> QED  BY <1>3, <1>4, <1>5, <1>6 DEF ConsInv

(* A turn of the loop moves the screen by a line.                           *)
LEMMA ScrollCons == ConsInv /\ Scroll => ConsInv'
<1> SUFFICES ASSUME ConsInv, Scroll PROVE ConsInv'  OBVIOUS
<1>1. at = "scroll" /\ at' \in {"scroll", "set_cursor"}
      /\ UNCHANGED <<cursor, nr_current_console, in_buf, task, locals>>
  BY DEF Scroll
<1>2. CASE current_start_addr' = current_start_addr
  <2>1. TypeOK'
    BY <1>1, <1>2 DEF ConsInv, TypeOK, Labels, task, locals
  <2> QED  BY <1>1, <1>2, <2>1, OutsideCons DEF consoles
<1>3. CASE /\ CanScroll(p_con)
           /\ current_start_addr' = [current_start_addr EXCEPT ![p_con] = @ + SCREEN_WIDTH]
  <2> DEFINE s == current_start_addr[p_con]
  <2>1. p_con \in Consoles /\ s \in Int /\ WholeLines(p_con, s)
    BY DEF ConsInv, TypeOK, StartInRegion
  <2>2. SCREEN_WIDTH \in Nat \ {0} /\ SCREEN_SIZE \in Nat /\ Limit(p_con) \in Int
    BY <2>1, Address, Sizes
  <2>3. /\ WholeLines(p_con, s + SCREEN_WIDTH) /\ s + SCREEN_WIDTH \in Int
        /\ s + SCREEN_WIDTH + SCREEN_SIZE < Limit(p_con) + SCREEN_WIDTH
    BY <1>3, <2>1, <2>2, OneLine DEF CanScroll
  <2>4. TypeOK'
    BY <1>1, <1>3, <2>3 DEF ConsInv, TypeOK, Labels, task, locals
  <2>5. CursorInRegion'
    BY <1>1 DEF ConsInv, CursorInRegion, Region, Limit, original_addr
  <2>6. StartInRegion'
    BY <1>3, <2>3 DEF ConsInv, TypeOK, StartInRegion, WholeLines, Limit, original_addr
  <2>7. StepFacts'
    BY <1>1 DEF StepFacts
  <2> QED  BY <2>4, <2>5, <2>6, <2>7 DEF ConsInv
<1> QED  BY <1>2, <1>3 DEF Scroll

LEMMA StepCons == ConsInv /\ [Task \/ PolitePrint]_vars => ConsInv'
<1> SUFFICES ASSUME ConsInv, [Task \/ PolitePrint]_vars PROVE ConsInv'  OBVIOUS
<1>1. CASE Task
  BY <1>1, ServeCons, ScrollKeyCons, OutCharCons, StoreCons, ScrollCons DEF Task
<1>2. CASE PolitePrint
  BY <1>2, PrintCons DEF PolitePrint, ProcessPrints
<1>3. CASE UNCHANGED vars
  BY <1>3 DEF vars, consoles, task, locals, ConsInv, TypeOK, CursorInRegion,
              StartInRegion, StepFacts, Fits, Moved, WholeLines, Region, Limit, original_addr
<1> QED  BY <1>1, <1>2, <1>3
-----------------------------------------------------------------------------
THEOREM ConsoleInvariant == Spec => []ConsInv
BY InitCons, StepCons, PTL DEF Spec

(* No console is written outside its own part of the video memory, and its *)
(* cursor stays there, whatever the sizes of the memory, the screen and a  *)
(* line (out_char).                                                        *)
THEOREM ConsolesApart == Spec => []InRegion
<1>1. ConsInv => InRegion
  BY DEF ConsInv, TypeOK, Chars, CursorInRegion, StepFacts, WritesInRegion, Place, InRegion
<1> QED  BY <1>1, ConsoleInvariant, PTL

(* The loop that scrolls never runs out of lines, where it would not end,   *)
(* and no screen reaches a whole line beyond the region of its console,    *)
(* however it was scrolled (scroll_screen, out_char).                      *)
THEOREM ScrollingEnds == Spec => []ScrollEnds
<1>1. ConsInv => LineToScroll
  BY LineLeft DEF ConsInv, LineToScroll
<1>2. ConsInv => ScreenOvershoot
  <2> SUFFICES ASSUME ConsInv, NEW c \in Consoles
               PROVE  /\ current_start_addr[c] >= original_addr(c)
                      /\ (current_start_addr[c] - original_addr(c)) % SCREEN_WIDTH = 0
                      /\ current_start_addr[c] + SCREEN_SIZE < Limit(c) + SCREEN_WIDTH
    BY DEF ScreenOvershoot
  <2>1. PICK n \in Nat : current_start_addr[c] = original_addr(c) + SCREEN_WIDTH * n
    BY DEF ConsInv, StartInRegion, WholeLines
  <2>2. original_addr(c) \in Nat /\ SCREEN_WIDTH \in Nat \ {0}
        /\ SCREEN_WIDTH * n \in Nat /\ (SCREEN_WIDTH * n) % SCREEN_WIDTH = 0
    BY Address, Sizes, Times, LineStarts
  <2>3. current_start_addr[c] - original_addr(c) = SCREEN_WIDTH * n
    BY <2>1, <2>2
  <2> QED  BY <2>1, <2>2, <2>3 DEF ConsInv, StartInRegion
<1>3. ConsInv => ScrollEnds
  BY <1>1, <1>2 DEF ScrollEnds
<1> QED  BY <1>3, ConsoleInvariant, PTL
-----------------------------------------------------------------------------
(* Where a typed character is.  It goes into a ring that is empty, and out  *)
(* of it before the next key.                                              *)
Echo ==
  /\ at # "do_write" => \A c \in Consoles : in_buf[c] = <<>>
  /\ at = "do_write" =>
       \A c \in Consoles : \/ in_buf[c] = <<>>
                           \/ c = p_tty /\ c = nr_current_console /\ Tail(in_buf[c]) = <<>>
  /\ Printing => p_con = nr_current_console

(* What the controller has.  Each address is behind only between the        *)
(* change of the console's own and the step of flush that passes it on;    *)
(* other steps of the task leave both, a print of a process sets both.     *)
CursorKnown == \E c \in Consoles : crtc_cursor = cursor[c]
StartKnown  == \E c \in Consoles : crtc_start = current_start_addr[c]

UpToDate ==
  /\ at \notin {"scroll", "set_cursor", "dumped"} /\ ~(at = "write" /\ ch = "BS")
       => CursorKnown
  /\ at \notin {"scroll", "set_cursor", "set_start", "dumped"} => StartKnown

Shown ==
  ~background =>
    /\ Idle => /\ crtc_cursor = cursor[nr_current_console]
               /\ crtc_start = current_start_addr[nr_current_console]
    /\ at = "set_start" => crtc_cursor = cursor[nr_current_console]

KInv == Echo /\ UpToDate /\ Shown

LEMMA InitKeys == Init => KInv
<1> SUFFICES ASSUME Init PROVE KInv  OBVIOUS
<1>1. 0 \in Consoles
  BY Sizes DEF Consoles
<1>2. CursorKnown /\ StartKnown
  BY <1>1 DEF Init, CursorKnown, StartKnown
<1> QED  BY <1>2 DEF Init, KInv, Echo, UpToDate, Shown, Idle, Printing

(* While no console and no register changes, what is known stays so.        *)
LEMMA Unmoved ==
  ASSUME UNCHANGED <<consoles, crtc>>
  PROVE  (CursorKnown => CursorKnown') /\ (StartKnown => StartKnown')
BY DEF consoles, crtc, CursorKnown, StartKnown

(* The keys, but for those that print: the rings are and stay empty.       *)
LEMMA OtherKeys ==
  ASSUME TypeOK, KInv, NoKey \/ (\E n \in 0..NR_CONSOLES : SelectConsole(n))
                       \/ ScrollUp \/ ScrollDown \/ Dump \/ Dumped
  PROVE  KInv'
<1> USE DEF KInv, Echo, UpToDate, Shown, Idle, Printing
<1>1. CASE NoKey
  BY <1>1, Unmoved DEF NoKey, consoles, crtc, task, locals
<1>2. ASSUME NEW n \in 0..NR_CONSOLES, SelectConsole(n) PROVE KInv'
  BY <1>2, Unmoved DEF SelectConsole, Flush, consoles, crtc, task, locals
<1>3. CASE ScrollUp \/ ScrollDown
  BY <1>3 DEF ScrollUp, ScrollDown, Flush, Reads, crtc
<1>4. CASE Dump
  BY <1>4 DEF Dump, consoles
<1>5. CASE Dumped
  BY <1>5 DEF Dumped, vars, consoles, crtc, locals, task
<1> QED  BY <1>1, <1>2, <1>3, <1>4, <1>5

(* A key that prints goes into the ring of the current terminal.           *)
LEMMA PutKeys ==
  ASSUME TypeOK, KInv, NEW k \in Chars, PutKey(k)
  PROVE  KInv'
<1> USE DEF KInv
<1>1. /\ at = "read" /\ at' = "do_write" /\ p_tty = nr_current_console
      /\ UNCHANGED <<consoles, nr_current_console, crtc, background, p_tty>>
  BY DEF PutKey, Reads, task
<1>2. in_buf[p_tty] = <<>> /\ p_tty \in Consoles /\ in_buf \in [Consoles -> Seq(Chars)]
  BY <1>1 DEF Echo, TypeOK
<1>3. \/ in_buf' = in_buf
      \/ in_buf' = [in_buf EXCEPT ![p_tty] = Append(<<>>, k)]
  BY <1>2 DEF PutKey
<1>4. Tail(Append(<<>>, k)) = <<>>
  OBVIOUS
<1>5. \A c \in Consoles : in_buf'[c] = <<>> \/ (c = p_tty /\ Tail(in_buf'[c]) = <<>>)
  BY <1>1, <1>2, <1>3, <1>4 DEF Echo
<1>6. Echo'
  BY <1>1, <1>5 DEF Echo, Printing
<1>7. UpToDate' /\ Shown'
  BY <1>1, Unmoved DEF UpToDate, Shown, Idle, consoles, crtc
<1> QED  BY <1>6, <1>7

(* tty_do_write: the ring is emptied, out_char works on the current console. *)
LEMMA WriteKeys ==
  ASSUME TypeOK, KInv, NothingToWrite \/ OutChar
  PROVE  KInv'
<1> USE DEF KInv
<1>1. CASE NothingToWrite
  <2>1. \A c \in Consoles : in_buf[c] = <<>>
    BY <1>1 DEF NothingToWrite, Echo
  <2>2. Echo'
    BY <1>1, <2>1 DEF NothingToWrite, Echo, Printing, locals
  <2>3. UpToDate' /\ Shown'
    BY <1>1, Unmoved DEF NothingToWrite, UpToDate, Shown, Idle, consoles, crtc, locals
  <2> QED  BY <2>2, <2>3
<1>2. CASE OutChar
  <2>1. /\ at = "do_write" /\ at' = "test" /\ p_con' = p_tty /\ in_buf[p_tty] # <<>>
        /\ in_buf' = [in_buf EXCEPT ![p_tty] = Tail(@)]
        /\ UNCHANGED <<consoles, crtc, nr_current_console>>
    BY <1>2 DEF OutChar
  <2>2. p_tty = nr_current_console /\ Tail(in_buf[p_tty]) = <<>>
    BY <2>1 DEF Echo, TypeOK
  <2>3. \A c \in Consoles : in_buf'[c] = <<>>
    BY <2>1, <2>2 DEF Echo, TypeOK
  <2>4. Echo'
    BY <2>1, <2>2, <2>3 DEF Echo, Printing
  <2>5. UpToDate' /\ Shown'
    BY <2>1, Unmoved DEF UpToDate, Shown, Idle
  <2> QED  BY <2>4, <2>5
<1> QED  BY <1>1, <1>2

(* The steps of out_char and flush.                                        *)
LEMMA EchoSteps ==
  ASSUME TypeOK, KInv,
         Test \/ Write \/ Load \/ Store \/ Scroll \/ SetCursor \/ SetStart
  PROVE  KInv'
<1> USE DEF KInv, Echo, UpToDate, Shown, Idle, Printing
<1>0. p_con \in Consoles /\ ch \in Chars
  BY DEF TypeOK
<1>1. CASE Test
  BY <1>0, <1>1, Unmoved DEF Test, Chars, consoles, crtc, locals
<1>2. CASE Write
  BY <1>0, <1>2, Unmoved DEF Write, Chars, consoles, crtc, locals
<1>3. CASE Load
  BY <1>0, <1>3, Unmoved DEF Load, consoles, crtc
<1>4. CASE Store
  <2>1. StartKnown'
    BY <1>4 DEF Store, StartKnown, crtc
  <2> QED  BY <1>0, <1>4, <2>1 DEF Store, crtc, locals
<1>5. CASE Scroll
  BY <1>0, <1>5 DEF Scroll, crtc, locals
<1>6. CASE SetCursor
  <2>1. CursorKnown'
    BY <1>0, <1>6 DEF SetCursor, CursorKnown, consoles
  <2> QED  BY <1>6, <2>1 DEF SetCursor, consoles, locals
<1>7. CASE SetStart
  <2>1. StartKnown'
    BY <1>0, <1>7 DEF SetStart, StartKnown, consoles
  <2>2. CursorKnown'
    BY <1>7 DEF SetStart, CursorKnown, consoles
  <2> QED  BY <1>7, <2>1, <2>2 DEF SetStart, TypeOK, consoles
<1> QED  BY <1>1, <1>2, <1>3, <1>4, <1>5, <1>6, <1>7

(* A process that prints on the current console shows it; on another one   *)
(* it prints in the background.  Either way both addresses are known.      *)
LEMMA PrintKeys ==
  ASSUME TypeOK, KInv, PolitePrint
  PROVE  KInv'
<1> USE DEF KInv
<1>1. PICK c \in Consoles : (Printing => c # p_con) /\ \E k \in Chars : Printx(c, k)
  BY DEF PolitePrint, ProcessPrints
<1>2. PICK k \in Chars : Printx(c, k)
  BY <1>1
<1>3. /\ crtc_cursor' = cursor'[c] /\ crtc_start' = current_start_addr'[c]
      /\ background' = (background \/ c # nr_current_console)
      /\ UNCHANGED <<nr_current_console, in_buf, task, at, locals>>
  BY <1>1, <1>2 DEF Printx, TypeOK
<1>4. Echo'
  BY <1>3 DEF Echo, Printing, task, locals
<1>5. UpToDate'
  BY <1>1, <1>3 DEF UpToDate, CursorKnown, StartKnown
<1>6. Shown'
  BY <1>3 DEF Shown, Idle
<1> QED  BY <1>4, <1>5, <1>6

LEMMA StepKeys == TypeOK /\ KInv /\ [Task \/ PolitePrint]_vars => KInv'
<1> SUFFICES ASSUME TypeOK, KInv, [Task \/ PolitePrint]_vars
             PROVE  KInv'
  OBVIOUS
<1>1. CASE Task
  BY <1>1, OtherKeys, PutKeys, WriteKeys, EchoSteps DEF Task
<1>2. CASE PolitePrint
  BY <1>2, PrintKeys
<1>3. CASE UNCHANGED vars
  BY <1>3, Unmoved DEF vars, KInv, Echo, UpToDate, Shown, Idle, Printing, consoles, crtc,
                       task, locals
<1> QED  BY <1>1, <1>2, <1>3

THEOREM KeysInvariant == Spec => []KInv
<1>1. ConsInv => TypeOK
  BY DEF ConsInv
<1> QED  BY <1>1, InitKeys, StepKeys, ConsoleInvariant, PTL DEF Spec

(* What is typed is echoed at once and where it was typed, however many    *)
(* terminals there are and however long their rings (tty_do_write).        *)
THEOREM EchoedAtOnce == Spec => []EchoKeepsUp
<1>1. KInv => EchoKeepsUp
  BY DEF KInv, Echo, EchoKeepsUp, Printing
<1> QED  BY <1>1, KeysInvariant, PTL

(* Back in its loop, the task has left the controller with the cursor and  *)
(* the start address of the current console, unless a process has printed  *)
(* on another one since the task began to print or flush; and even then    *)
(* neither is an address that its console has left behind (flush).         *)
THEOREM CurrentIsShown == Spec => []ShowsCurrent
<1>1. KInv => ControllerUpToDate
  BY DEF KInv, UpToDate, CursorKnown, StartKnown, ControllerUpToDate, Idle
<1>2. KInv => ShowsCurrent
  BY <1>1 DEF KInv, Shown, ShowsCurrent
<1> QED  BY <1>2, KeysInvariant, PTL
=============================================================================
