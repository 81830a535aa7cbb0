------------------------------- MODULE System -------------------------------
(***************************************************************************)
(* The system task and its clients on one processor: the steps of module   *)
(* SysTask, with schedule() of kernel/proc.c choosing who takes the next   *)
(* one and clock_handler() of kernel/clock.c taking the processor away.    *)
(* Of the other processes there is task_tty, which polls its devices and   *)
(* neither calls nor blocks.                                               *)
(*                                                                         *)
(* A system call and its schedule() are one step here; module Scheduler    *)
(* looks inside.  A tick that comes during a call charges the caller and   *)
(* does not reschedule, and is a step of its own.                          *)
(***************************************************************************)
EXTENDS SysTask, Sequences, FiniteSetsExt

CONSTANTS proc_table,  \* the processes in the order of their indices
          priority     \* PROCESS.priority

ASSUME SystemAssumption ==
  /\ {proc_table[n] : n \in 1 .. Len(proc_table)} = Proc
  /\ priority \in [Proc -> Nat \ {0}]

VARIABLES p_proc_ready,
          left   \* PROCESS.ticks; 0 stands for every value <= 0

cpuVars  == <<p_proc_ready, left>>
fullVars == <<allVars, cpuVars>>

SystemInit ==
  /\ SysInit
  /\ p_proc_ready = proc_table[1]
  /\ left = priority

-----------------------------------------------------------------------------
Able == {p \in Proc : p_flags[p] = {}}   \* p_flags == 0

(* Mutant of Refilled: `p < &LAST_PROC', the last process gets no ticks.   *)
Refilled_NotLast(ticksLeft, able) ==
  IF \E p \in able : ticksLeft[p] > 0 THEN ticksLeft
  ELSE [p \in Proc |-> IF p \in able /\ p # proc_table[Len(proc_table)]
                       THEN priority[p] ELSE ticksLeft[p]]

(* The second loop of schedule(), when no process that can run has ticks.  *)
Refilled(ticksLeft, able) ==
  IF \E p \in able : ticksLeft[p] > 0 THEN ticksLeft
  ELSE [p \in Proc |-> IF p \in able THEN priority[p] ELSE ticksLeft[p]]

(* The first process, in the order of the table, among those with the most *)
(* ticks.                                                                  *)
Chosen(ticksLeft, able) ==
  LET index(p) == CHOOSE n \in 1 .. Len(proc_table) : proc_table[n] = p
      most     == {p \in able : \A q \in able : ticksLeft[q] <= ticksLeft[p]}
  IN  proc_table[Min({index(p) : p \in most})]

(* schedule(), with the ticks and the flags as they are when it is called. *)
Schedule(ticksLeft, able) ==
  /\ left' = Refilled(ticksLeft, able)
  /\ p_proc_ready' = Chosen(left', able)

(* A process takes its next step; when that blocks it, block() schedules.  *)
Steps(p) ==
  /\ p_proc_ready = p
  /\ (p = TASK_SYS /\ Sys) \/ (p \in Clients /\ Client(p))
  /\ IF p \in Able' THEN UNCHANGED cpuVars ELSE Schedule(left, Able')

Charged == [left EXCEPT ![p_proc_ready] = IF @ > 0 THEN @ - 1 ELSE 0]

(* Global ticks stop at their bound; the interrupts go on.                 *)
Counts ==
  /\ stopped = "no"
  /\ IF ticks < MaxTicks THEN Tick ELSE UNCHANGED allVars

(* clock_handler() when it interrupts a process.                           *)
ClockInterrupt ==
  /\ Counts
  /\ IF Charged[p_proc_ready] > 0
     THEN left' = Charged /\ UNCHANGED p_proc_ready
     ELSE Schedule(Charged, Able)

(* clock_handler() when it interrupts a system call: k_reenter # 0.  It    *)
(* charges the caller or, late in the schedule() of the call, the process  *)
(* chosen, so any process may be the one.                                  *)
ClockInCall ==
  /\ Counts
  /\ left' = Charged
  /\ UNCHANGED p_proc_ready

SystemNext == (\E p \in Participants : Steps(p)) \/ ClockInterrupt \/ ClockInCall

(* A process does something each time it is scheduled, and the clock ticks *)
(* again and again while processes run.  Nothing else is assumed: that     *)
(* every process is scheduled follows.                                     *)
SystemSpec ==
  /\ SystemInit /\ [][SystemNext]_fullVars
  /\ \A p \in Participants : SF_fullVars(Steps(p))
  /\ SF_fullVars(ClockInterrupt)

-----------------------------------------------------------------------------
(* The processor gives each process its turn: the steps are those of       *)
(* SysTask, and a process that could go on in the end does, although       *)
(* task_tty never gives up the processor and has the highest priority.     *)
TurnsForAll == FairSysSpec

(* milli_delay() returns once enough time has passed: the processes it     *)
(* depends on are scheduled often enough to see it.                        *)
DelaysEnd ==
  \A p \in Clients :
    pc[p] = "ask" /\ t[p] + Delay <= MaxTicks ~> pc[p] = "idle"
=============================================================================
