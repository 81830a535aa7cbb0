----------------------------- MODULE MCStartUp -----------------------------
(***************************************************************************)
(* A small instance of module StartUp: task_tty, another task and a user   *)
(* process; the timer, the keyboard and a line without a driver.           *)
(***************************************************************************)
EXTENDS StartUp

CONSTANTS tty, sys, testA,       \* the entries
          timer, kbd, floppy     \* the lines

MCTable  == <<tty, sys, testA>>
MCNumber == [i \in IRQs |-> CASE i = timer -> 0 [] i = kbd -> 1 [] i = floppy -> 6]
MCStacks == [p \in Procs |-> IF p = sys THEN 2 ELSE 3]
=============================================================================
