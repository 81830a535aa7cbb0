------------------------------ MODULE Console ------------------------------
(***************************************************************************)
(* The terminals and their consoles, which share the video memory          *)
(* (kernel/tty.c, kernel/console.c): task_tty reads a key for the current  *)
(* terminal, then writes a character of each terminal's input ring to its  *)
(* console, for ever, and can be preempted anywhere.  A process prints on  *)
(* the console of its own terminal inside a system call, which the task    *)
(* never preempts.                                                         *)
(*                                                                         *)
(* Addresses are words of video memory.  The CRT controller keeps the      *)
(* cursor and the start address it was last given, whosever they are; a    *)
(* ring, which only the task uses, is the sequence of its characters.      *)
(***************************************************************************)
EXTENDS Integers, Sequences

CONSTANTS NR_CONSOLES,
          TTY_IN_BYTES,                \* places in a terminal's ring
          SCREEN_WIDTH, SCREEN_SIZE,   \* words in a line and on the screen
          v_mem_limit                  \* words of video memory of a console

\* The region is longer than the screen and than the number and the # that
\* init_screen shows; with 80, 2000 and 16384 / 3 it is not a whole number of
\* lines.
ASSUME ConsoleAssumption ==
  /\ NR_CONSOLES \in Nat \ {0} /\ SCREEN_WIDTH \in Nat \ {0}
  /\ TTY_IN_BYTES \in Nat \ {0}
  /\ SCREEN_SIZE \in Nat
  /\ v_mem_limit \in Nat /\ v_mem_limit > SCREEN_SIZE /\ v_mem_limit > 2

VARIABLES cursor, current_start_addr,   \* of each console
          nr_current_console,
          crtc_cursor, crtc_start,      \* the controller's two registers
          background,  \* history: a process has printed on a console that is not
                       \* the current one since the task last began to print or flush
          in_buf,      \* of each terminal
          p_tty,       \* the terminal task_tty is at
          at,          \* the step of task_tty, out_char or flush it is at
          after,       \* where task_tty goes on when flush returns
          p_con,       \* the console out_char or flush works on
          ch,          \* the character out_char prints
          p_vmem,      \* where it decided to print it
          tmp          \* the register a change of the cursor goes through

consoles == <<cursor, current_start_addr>>
crtc     == <<crtc_cursor, crtc_start>>
locals   == <<p_con, ch, p_vmem, tmp>>
task     == <<p_tty, after>>
vars     == <<consoles, nr_current_console, crtc, background, in_buf, task, at, locals>>

Consoles == 0..NR_CONSOLES-1
Chars    == {"x", "LF", "BS"}   \* a character that prints, \n and \b

original_addr(c) == c * v_mem_limit
Limit(c)         == original_addr(c) + v_mem_limit
Region(c)        == original_addr(c)..Limit(c)-1

\* The loop of task_tty starts: init_tty has emptied every ring; every console
\* but the first shows its number and a #; the first goes on where the boot
\* messages ended.
Init ==
  /\ \E n \in 0..SCREEN_SIZE-1 :
       cursor = [c \in Consoles |-> IF c = 0 THEN n ELSE original_addr(c) + 2]
  /\ current_start_addr = [c \in Consoles |-> original_addr(c)]
  /\ nr_current_console = 0
  /\ crtc_cursor = cursor[0] /\ crtc_start = current_start_addr[0]
  /\ background = FALSE
  /\ in_buf = [c \in Consoles |-> <<>>]
  /\ p_tty = 0 /\ at = "read" /\ after = "read"
  /\ p_con = 0 /\ ch = "x" /\ p_vmem = 0 /\ tmp = 0
-----------------------------------------------------------------------------
\* A bug for the runs to detect: the last place is not kept free.
Fits_OffByOne(c, k) ==
  CASE k = "LF" -> cursor[c] < Limit(c) - SCREEN_WIDTH
    [] k = "BS" -> cursor[c] > original_addr(c)
    [] OTHER    -> cursor[c] < Limit(c)

\* The tests of out_char.
Fits(c, k) ==
  CASE k = "LF" -> cursor[c] < Limit(c) - SCREEN_WIDTH
    [] k = "BS" -> cursor[c] > original_addr(c)
    [] OTHER    -> cursor[c] < Limit(c) - 1

\* Where out_char moves the cursor.
Moved(c, k) ==
  LET line == (cursor[c] - original_addr(c)) \div SCREEN_WIDTH
  IN  CASE k = "LF" -> original_addr(c) + SCREEN_WIDTH * (line + 1)
        [] k = "BS" -> cursor[c] - 1
        [] OTHER    -> cursor[c] + 1

\* A bug for the runs to detect: scrolling stops a line too early.
CanScroll_Short(c) ==
  current_start_addr[c] + SCREEN_SIZE + SCREEN_WIDTH < Limit(c)

\* scroll_screen(p_con, SCR_DN) moves.
CanScroll(c) == current_start_addr[c] + SCREEN_SIZE < Limit(c)

\* The condition of the loop that ends out_char.
Below(c, place, start) == place >= start + SCREEN_SIZE

\* The start address after that loop, every turn of which moves a line (ScrollEnds).
Scrolled(c, place) ==
  LET start == current_start_addr[c]
  IN  IF Below(c, place, start)
      THEN start + SCREEN_WIDTH * ((place - (start + SCREEN_SIZE)) \div SCREEN_WIDTH + 1)
      ELSE start

-----------------------------------------------------------------------------
\* sys_printx in the kernel, on any console: out_char at one go, with a flush
\* that does not ask whether the console is the current one.  Processes print no
\* backspace.
Printx(c, k) ==
  /\ k # "BS"
  /\ at # "dumped"
  /\ LET place == IF Fits(c, k) THEN Moved(c, k) ELSE cursor[c]
     IN  /\ cursor' = [cursor EXCEPT ![c] = place]
         /\ current_start_addr' = [current_start_addr EXCEPT ![c] = Scrolled(c, place)]
         /\ crtc_cursor' = place /\ crtc_start' = Scrolled(c, place)
  /\ background' = (background \/ c # nr_current_console)
  /\ UNCHANGED <<nr_current_console, in_buf, task, at, locals>>
-----------------------------------------------------------------------------
\* A bug for the runs to detect: keys are read for every terminal.
Reads_Any == TRUE

\* is_current_console, in tty_do_read.
Reads == p_tty = nr_current_console

\* keyboard_read has no key to pass on, or is not called.
NoKey ==
  /\ at = "read"
  /\ at' = "do_write"
  /\ UNCHANGED <<consoles, nr_current_console, crtc, background, in_buf, task, locals>>

\* put_key: a key that prints, Enter or Backspace.
PutKey(k) ==
  /\ at = "read" /\ Reads
  /\ in_buf' = IF Len(in_buf[p_tty]) < TTY_IN_BYTES
               THEN [in_buf EXCEPT ![p_tty] = Append(@, k)]
               ELSE in_buf
  /\ at' = "do_write"
  /\ UNCHANGED <<consoles, nr_current_console, crtc, background, task, locals>>

\* flush, and the end of select_console and scroll_screen, on the console c.
Flush(c, label) ==
  /\ p_con' = c /\ at' = "set_cursor" /\ after' = label
  /\ background' = FALSE
  /\ UNCHANGED <<crtc, p_tty, ch, p_vmem, tmp>>

\* Alt and a function key: select_console, which refuses F4 to F12.
SelectConsole(n) ==
  /\ at = "read" /\ Reads
  /\ IF n \in Consoles
     THEN nr_current_console' = n /\ Flush(n, "do_write")
     ELSE /\ at' = "do_write"
          /\ UNCHANGED <<nr_current_console, crtc, background, task, locals>>
  /\ UNCHANGED <<consoles, in_buf>>

\* Shift and an arrow key.  The order in which scroll_screen gives the
\* controller its two addresses is that of flush here.
ScrollUp ==
  /\ at = "read" /\ Reads
  /\ current_start_addr' =
       IF current_start_addr[p_tty] > original_addr(p_tty)
       THEN [current_start_addr EXCEPT ![p_tty] = @ - SCREEN_WIDTH]
       ELSE current_start_addr
  /\ Flush(p_tty, "do_write")
  /\ UNCHANGED <<cursor, nr_current_console, in_buf>>

ScrollDown ==
  /\ at = "read" /\ Reads
  /\ current_start_addr' =
       IF CanScroll(p_tty)
       THEN [current_start_addr EXCEPT ![p_tty] = @ + SCREEN_WIDTH]
       ELSE current_start_addr
  /\ Flush(p_tty, "do_write")
  /\ UNCHANGED <<cursor, nr_current_console, in_buf>>

\* F12 alone: interrupts off, dump_proc shows the start of the memory, and the
\* task loops for ever.
Dump ==
  /\ at = "read" /\ Reads
  /\ at' = "dumped"
  /\ crtc_start' = 0
  /\ UNCHANGED <<consoles, nr_current_console, crtc_cursor, background, in_buf, task, locals>>

Dumped == at = "dumped" /\ UNCHANGED vars
-----------------------------------------------------------------------------
NextTty == (p_tty + 1) % NR_CONSOLES

\* tty_do_write with an empty ring: on to the next terminal.
NothingToWrite ==
  /\ at = "do_write"
  /\ in_buf[p_tty] = <<>>
  /\ p_tty' = NextTty /\ at' = "read"
  /\ UNCHANGED <<consoles, nr_current_console, crtc, background, in_buf, after, locals>>

\* tty_do_write takes a character; out_char begins.
OutChar ==
  /\ at = "do_write"
  /\ in_buf[p_tty] # <<>>
  /\ in_buf' = [in_buf EXCEPT ![p_tty] = Tail(@)]
  /\ p_con' = p_tty /\ ch' = Head(in_buf[p_tty])
  /\ p_vmem' = cursor[p_tty]
  /\ at' = "test" /\ after' = "read" /\ p_tty' = NextTty
  /\ background' = FALSE
  /\ UNCHANGED <<consoles, nr_current_console, crtc, tmp>>

Test ==
  /\ at = "test"
  /\ at' = IF ~Fits(p_con, ch) THEN "scroll" ELSE IF ch = "x" THEN "write" ELSE "load"
  /\ UNCHANGED <<consoles, nr_current_console, crtc, background, in_buf, task, locals>>

\* The word out_char writes.
Place == IF ch = "BS" THEN p_vmem - 1 ELSE p_vmem

\* A character is written, at Place, before the cursor moves, a blank after.
Write ==
  /\ at = "write"
  /\ at' = IF ch = "BS" THEN "scroll" ELSE "load"
  /\ UNCHANGED <<consoles, nr_current_console, crtc, background, in_buf, task, locals>>

Load ==
  /\ at = "load"
  /\ tmp' = Moved(p_con, ch)
  /\ at' = "store"
  /\ UNCHANGED <<consoles, nr_current_console, crtc, background, in_buf, task, p_con, ch, p_vmem>>

Store ==
  /\ at = "store"
  /\ cursor' = [cursor EXCEPT ![p_con] = tmp]
  /\ at' = IF ch = "BS" THEN "write" ELSE "scroll"
  /\ UNCHANGED <<current_start_addr, nr_current_console, crtc, background, in_buf, task, locals>>

\* One turn of the loop, or its end.
Scroll ==
  /\ at = "scroll"
  /\ IF Below(p_con, cursor[p_con], current_start_addr[p_con])
     THEN /\ current_start_addr' = IF CanScroll(p_con)
                THEN [current_start_addr EXCEPT ![p_con] = @ + SCREEN_WIDTH]
                ELSE current_start_addr
          /\ at' = at
     ELSE /\ at' = "set_cursor"
          /\ UNCHANGED current_start_addr
  /\ UNCHANGED <<cursor, nr_current_console, crtc, background, in_buf, task, locals>>

SetCursor ==
  /\ at = "set_cursor"
  /\ crtc_cursor' = cursor[p_con]
  /\ at' = "set_start"
  /\ UNCHANGED <<consoles, nr_current_console, crtc_start, background, in_buf, task, locals>>

\* A bug for the runs to detect: only the cursor is set.
SetStart_Not ==
  /\ at = "set_start"
  /\ at' = after
  /\ p_con' = 0 /\ ch' = "x" /\ p_vmem' = 0 /\ tmp' = 0
  /\ UNCHANGED <<consoles, nr_current_console, crtc, background, in_buf, task>>

\* The locals are dead when flush has returned.
SetStart ==
  /\ at = "set_start"
  /\ crtc_start' = current_start_addr[p_con]
  /\ at' = after
  /\ p_con' = 0 /\ ch' = "x" /\ p_vmem' = 0 /\ tmp' = 0
  /\ UNCHANGED <<consoles, nr_current_console, crtc_cursor, background, in_buf, task>>

Task ==
  \/ NoKey \/ \E k \in Chars : PutKey(k)
  \/ \E n \in 0..NR_CONSOLES : SelectConsole(n)
  \/ ScrollUp \/ ScrollDown \/ Dump \/ Dumped
  \/ NothingToWrite \/ OutChar
  \/ Test \/ Write \/ Load \/ Store \/ Scroll \/ SetCursor \/ SetStart

ProcessPrints(c) == \E k \in Chars : Printx(c, k)

\* The task is in out_char or flush.
Printing == at \notin {"read", "do_write", "dumped"}

\* No process prints on a console while the task is printing or scrolling there:
\* an assumption about the processes, nothing in the code enforces it.
PolitePrint == \E c \in Consoles : (Printing => c # p_con) /\ ProcessPrints(c)

Spec == Init /\ [][Task \/ PolitePrint]_vars

\* The same without the assumption.
RaceSpec == Init /\ [][Task \/ \E c \in Consoles : ProcessPrints(c)]_vars
-----------------------------------------------------------------------------
\* include/console.h:15-16: a console occupies the v_mem_limit words from
\* original_addr on.  out_char writes no word outside, not even the blank of a
\* backspace at the first place.
WritesInRegion == at = "write" => Place \in Region(p_con)

\* The cursor never leaves the console's region, whose last line is not a
\* whole one, however the region fills up.
CursorInRegion == \A c \in Consoles : cursor[c] \in Region(c)

\* No console ever writes over the memory of another one, and the cursor that
\* says where to write next stays in its own (out_char).
InRegion == WritesInRegion /\ CursorInRegion

\* The loop that ends out_char always has a line to scroll, in the task and in
\* the kernel, where it would never return.
LineToScroll ==
  \A c \in Consoles :
    Below(c, cursor[c], current_start_addr[c]) => CanScroll(c)

\* scroll_screen asks whether the screen ends in the region before it moves it by a
\* line, and a region is no whole number of lines (console.c:180): a screen does
\* end outside, 59 words into the next console's with the code's sizes.  It begins
\* with a whole line of its own region, and less than a line of it is outside.
ScreenOvershoot ==
  \A c \in Consoles :
    /\ current_start_addr[c] >= original_addr(c)
    /\ (current_start_addr[c] - original_addr(c)) % SCREEN_WIDTH = 0
    /\ current_start_addr[c] + SCREEN_SIZE < Limit(c) + SCREEN_WIDTH

\* Scrolling by the loop and by keys, in any order: the loop ends, because the screen
\* may still move when the loop asks, and the screen goes no farther than that, to
\* the line that holds the last word of the region.
ScrollEnds == LineToScroll /\ ScreenOvershoot

\* task_tty looks for a key or a character.
Idle == at \in {"read", "do_write"}

\* Whoever printed where, and with a print between the two halves of a flush:
\* when the task is idle the controller has the cursor of some console and the
\* start address of some console as they are now, never as they were
\* (flush, select_console and scroll_screen after each change).
ControllerUpToDate ==
  Idle => /\ \E c \in Consoles : crtc_cursor = cursor[c]
          /\ \E c \in Consoles : crtc_start = current_start_addr[c]

\* A print on another console than the current one takes the screen, since flush
\* has no is_current_console test.  The next character echoed, scroll or change of
\* console gives it back: if no such print has come since the task last began
\* one of these, an idle task leaves the controller with the cursor and the start
\* address of the console the keyboard talks to.  After one, what the controller
\* has may be another console's but is still not stale.
ShowsCurrent ==
  /\ ControllerUpToDate
  /\ Idle /\ ~background =>
       /\ crtc_cursor = cursor[nr_current_console]
       /\ crtc_start = current_start_addr[nr_current_console]

\* What is typed is echoed, on the console it was typed on and before another
\* key is read, whichever console is selected when: put_key never finds a ring
\* full and no character waits in the ring of a console that was left.
EchoKeepsUp ==
  /\ at = "read" => \A c \in Consoles : in_buf[c] = <<>>
  /\ at = "test" => p_con = nr_current_console
=============================================================================
