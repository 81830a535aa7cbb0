------------------------------ MODULE MCSystem ------------------------------
(***************************************************************************)
(* A small instance of module System: task_tty first and the clients last, *)
(* as in proc_table, and tasks with more ticks than user processes.        *)
(***************************************************************************)
EXTENDS System

CONSTANTS TTY, SYS, A, B

MCTable    == <<TTY, SYS, A, B>>
MCPriority == [p \in Proc |-> IF p \in {TTY, SYS} THEN 2 ELSE 1]
=============================================================================
