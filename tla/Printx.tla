------------------------------- MODULE Printx -------------------------------
(***************************************************************************)
(* What happens to a failed assertion: assertion_failure and spin          *)
(* (lib/misc.c) and panic (kernel/main.c) format a message that begins     *)
(* with a magic character, printx takes it into the kernel, and sys_printx *)
(* (kernel/tty.c) decides by that character whether to halt the machine.   *)
(*                                                                         *)
(* A message is a sequence of tokens; a format has conversions among them. *)
(***************************************************************************)
EXTENDS Sequences

CONSTANTS Tasks,   \* the system tasks, the first NR_TASKS entries
          Users    \* the user processes

VARIABLES doing,   \* p -> what p is doing
          s,       \* p -> the string p hands to printx
          machine  \* "up" or "halted"

vars == <<doing, s, machine>>

Procs == Tasks \cup Users

MAG_CH_PANIC  == "panic character"
MAG_CH_ASSERT == "assert character"

\* The formats: conversions are records of the letter and the argument.
Conversion(letter, arg) == [letter |-> letter, arg |-> arg]
Literal(text)           == [letter |-> "", arg |-> text]

AssertFormat == <<Conversion("c", MAG_CH_ASSERT), Literal("assert"),
                  Conversion("s", "exp"), Conversion("d", "line")>>
PanicFormat  == <<Conversion("c", MAG_CH_PANIC), Literal("!!panic!!"),
                  Conversion("s", "message")>>
SpinFormat   == <<Literal("spinning"), Conversion("s", "func_name")>>

\* vsprintf converts %x; the cases of %s and of every other letter are empty.
Converted(token)  == token.letter \in {"", "x"}
vsprintf(fmt) ==
  LET kept == SelectSeq(fmt, Converted)
  IN  [n \in DOMAIN kept |-> kept[n].arg]

Init ==
  /\ doing = [p \in Procs |-> "work"]
  /\ s = [p \in Procs |-> <<>>]
  /\ machine = "up"

Formats(p, from, to, fmt) ==
  /\ machine = "up"
  /\ doing[p] = from
  /\ doing' = [doing EXCEPT ![p] = to]
  /\ s' = [s EXCEPT ![p] = vsprintf(fmt)]
  /\ UNCHANGED machine

AssertionFails(p) == Formats(p, "work", "asserts", AssertFormat)
Panics(p)         == Formats(p, "work", "panics", PanicFormat)
Spins(p)          == Formats(p, "asserted", "spins", SpinFormat)

\* The test of sys_printx.
Halts(p) ==
  /\ s[p] # <<>>
  /\ \/ Head(s[p]) = MAG_CH_PANIC
     \/ Head(s[p]) = MAG_CH_ASSERT /\ p \in Tasks

\* sys_printx on behalf of p; ud2 follows a panic, and the exception halts.
SysPrintx(p) ==
  /\ machine = "up"
  /\ doing[p] \in {"asserts", "panics", "spins"}
  /\ machine' = IF Halts(p) \/ doing[p] = "panics" THEN "halted" ELSE "up"
  /\ doing' = [doing EXCEPT ![p] =
                 CASE doing[p] = "asserts" /\ ~Halts(p) -> "asserted"
                   [] doing[p] = "spins"   -> "loops"
                   [] OTHER -> @]
  /\ UNCHANGED s

Next == \E p \in Procs : \/ AssertionFails(p) \/ Panics(p) \/ Spins(p)
                         \/ SysPrintx(p)

Spec == Init /\ [][Next]_vars
-----------------------------------------------------------------------------
\* lib/misc.c:48-50 and kernel/tty.c:210-213: if an assertion fails in a task,
\* the machine halts before printl returns.
TaskAssertionHalts ==
  \A p \in Tasks : doing[p] \notin {"asserted", "spins", "loops"}
=============================================================================
