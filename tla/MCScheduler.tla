---------------------------- MODULE MCScheduler ----------------------------
(***************************************************************************)
(* A small instance of module Scheduler for TLC: process 1 stands for      *)
(* task_tty, which polls and never blocks; tasks get more ticks per round  *)
(* than user processes.                                                    *)
(***************************************************************************)
EXTENDS Scheduler

MCPriority == [p \in Proc |-> IF p = 1 THEN 3 ELSE 2]

=============================================================================
