----------------------------- MODULE Scheduler -----------------------------
(***************************************************************************)
(* Who runs, and how the kernel is entered and left: schedule() of         *)
(* kernel/proc.c, clock_handler() of kernel/clock.c, and save, hwint_      *)
(* master, sys_call, restart and restart_reenter of kernel/kernel9.asm.    *)
(*                                                                         *)
(* The kernel runs with interrupts enabled between the `sti' and the `cli' *)
(* of its entry code, so it is re-entered: `frames' is the kernel stack,   *)
(* its last element the code that executes, <<>> means that p_proc_ready   *)
(* runs in user mode.  Every loop iteration of schedule() is a step, so a  *)
(* clock interrupt may come between any two of them.  An interrupt request *)
(* masks its own line until its handler is done.                           *)
(*                                                                         *)
(* What system calls do to p_flags is the subject of module Ipc; here a    *)
(* call blocks its caller and reschedules, makes some other process        *)
(* runnable, or does neither.                                              *)
(***************************************************************************)
EXTENDS Integers, Sequences

CONSTANTS N,         \* the number of processes: proc_table is 1..N here
          priority,  \* PROCESS.priority: a process's ticks in one round
          NeverBlocks, \* processes that make no blocking call (task_tty)
          MaxStray   \* bound on clock interrupts that land in schedule()

Proc == 1 .. N

ASSUME SchedulerAssumption ==
  /\ N \in Nat \ {0}
  /\ priority \in [Proc -> Nat \ {0}]
  /\ NeverBlocks \subseteq Proc
  /\ MaxStray \in Nat

VARIABLES runnable,      \* p_flags = 0
          ticks,         \* PROCESS.ticks; 0 stands for every value <= 0
          p_proc_ready,  \* the process to run, or running, in user mode
          k_reenter,     \* entries into the kernel not yet left, minus one
          masked,        \* interrupt lines masked in the 8259A
          frames,        \* the kernel stack
          stray          \* clock interrupts so far that hit schedule()

vars == <<runnable, ticks, p_proc_ready, k_reenter, masked, frames, stray>>

IRQ == {"clock", "keyboard"}

(* A frame: what entered the kernel, which process had been running, where *)
(* save() makes it return to, its next instruction, and the two locals of  *)
(* schedule(): p and greatest_ticks.                                       *)
Frame == [kind : IRQ \cup {"call"},
          proc : Proc,
          back : {"restart", "restart_reenter"},
          pc   : {"enter", "body", "test", "scan", "refill", "out"},
          p    : 1 .. N + 1,
          best : Nat]

(* restart() has been called by kernel_main(): the first process runs.     *)
Init ==
  /\ runnable = [p \in Proc |-> TRUE]
  /\ ticks = priority
  /\ p_proc_ready = 1
  /\ k_reenter = -1
  /\ masked = {}
  /\ frames = <<>>
  /\ stray = 0

UserMode == frames = <<>>
Top      == frames[Len(frames)]
Depth    == Len(frames)

Charged(t) == IF t > 0 THEN t - 1 ELSE 0

-----------------------------------------------------------------------------
(***************************************************************************)
(* Entering and leaving the kernel.                                        *)
(***************************************************************************)

(* save: count the entry; only the outermost one returns through restart.  *)
Save(kind) ==
  /\ k_reenter' = k_reenter + 1
  /\ frames' = Append(frames,
       [kind |-> kind,
        proc |-> p_proc_ready,
        back |-> IF k_reenter + 1 = 0 THEN "restart" ELSE "restart_reenter",
        pc   |-> "enter", p |-> 1, best |-> 0])

InSchedule == \E i \in 1 .. Depth : frames[i].pc \in {"scan", "refill"}

(* hwint_master up to `sti': mask the line, acknowledge.                   *)
Interrupt(irq) ==
  /\ irq \notin masked
  /\ Save(irq)
  /\ masked' = masked \cup {irq}
  /\ IF irq = "clock" /\ InSchedule
     THEN stray < MaxStray /\ stray' = stray + 1
     ELSE UNCHANGED stray
  /\ UNCHANGED <<runnable, ticks, p_proc_ready>>

(* sys_call up to `sti', for the process that runs.                        *)
SysCall ==
  /\ UserMode
  /\ Save("call")
  /\ UNCHANGED <<runnable, ticks, p_proc_ready, masked, stray>>

(* From `cli' to `iretd': unmask the line; restart takes p_proc_ready and  *)
(* drops whatever is on the kernel stack, restart_reenter pops one frame.  *)
Return ==
  /\ ~UserMode
  /\ Top.pc = "out"
  /\ masked' = masked \ {Top.kind}
  /\ k_reenter' = k_reenter - 1
  /\ frames' = IF Top.back = "restart" THEN <<>>
                                       ELSE SubSeq(frames, 1, Depth - 1)
  /\ UNCHANGED <<runnable, ticks, p_proc_ready, stray>>

-----------------------------------------------------------------------------
(***************************************************************************)
(* What runs between `sti' and `cli'.                                      *)
(***************************************************************************)

At(kind, pc) == ~UserMode /\ Top.kind \in kind /\ Top.pc = pc

Goto(pc) == frames' = [frames EXCEPT ![Depth].pc = pc]

(* Call schedule(): p and greatest_ticks start afresh.                     *)
GotoSchedule ==
  frames' = [frames EXCEPT ![Depth].pc = "scan", ![Depth].p = 1,
                           ![Depth].best = 0]

(* keyboard_handler() does not touch the state of the scheduler.           *)
KeyboardHandler ==
  /\ At({"keyboard"}, "enter")
  /\ Goto("out")
  /\ UNCHANGED <<runnable, ticks, p_proc_ready, k_reenter, masked, stray>>

(* p_proc_ready->ticks--                                                   *)
ClockCount ==
  /\ At({"clock"}, "enter")
  /\ ticks' = [ticks EXCEPT ![p_proc_ready] = Charged(@)]
  /\ Goto("test")
  /\ UNCHANGED <<runnable, p_proc_ready, k_reenter, masked, stray>>

(* Mutant of ClockTest: the test of k_reenter is dropped.                  *)
ClockTest_Reenters ==
  /\ At({"clock"}, "test")
  /\ IF ticks[p_proc_ready] > 0 THEN Goto("out") ELSE GotoSchedule
  /\ UNCHANGED <<runnable, ticks, p_proc_ready, k_reenter, masked, stray>>

(* The two early returns of clock_handler(), or schedule().                *)
ClockTest ==
  /\ At({"clock"}, "test")
  /\ IF k_reenter # 0 \/ ticks[p_proc_ready] > 0 THEN Goto("out")
                                                 ELSE GotoSchedule
  /\ UNCHANGED <<runnable, ticks, p_proc_ready, k_reenter, masked, stray>>

(* The caller that sys_call passes on is p_proc_ready as it is read now,   *)
(* after `sti'.                                                            *)
ReadCaller ==
  /\ At({"call"}, "enter")
  /\ frames' = [frames EXCEPT ![Depth].proc = p_proc_ready,
                              ![Depth].pc = "body"]
  /\ UNCHANGED <<runnable, ticks, p_proc_ready, k_reenter, masked, stray>>

(* Mutant of BlockCaller: task_tty waits for messages too.                 *)
BlockCaller_Everyone ==
  /\ At({"call"}, "body")
  /\ runnable' = [runnable EXCEPT ![Top.proc] = FALSE]
  /\ GotoSchedule
  /\ UNCHANGED <<ticks, p_proc_ready, k_reenter, masked, stray>>

(* msg_send() or msg_receive() blocks the caller: p_flags, then block().   *)
BlockCaller ==
  /\ At({"call"}, "body")
  /\ Top.proc \notin NeverBlocks
  /\ runnable' = [runnable EXCEPT ![Top.proc] = FALSE]
  /\ GotoSchedule
  /\ UNCHANGED <<ticks, p_proc_ready, k_reenter, masked, stray>>

(* They unblock the partner: unblock() does not reschedule.                *)
UnblockPartner ==
  /\ At({"call"}, "body")
  /\ \E q \in Proc : /\ ~runnable[q]
                     /\ runnable' = [runnable EXCEPT ![q] = TRUE]
  /\ Goto("out")
  /\ UNCHANGED <<ticks, p_proc_ready, k_reenter, masked, stray>>

(* sys_printx() does neither.                                              *)
OtherCall ==
  /\ At({"call"}, "body")
  /\ Goto("out")
  /\ UNCHANGED <<runnable, ticks, p_proc_ready, k_reenter, masked, stray>>

(* Mutant of Scan: p_flags is not looked at.                               *)
Scan_IgnoresFlags ==
  /\ ~UserMode /\ Top.pc = "scan" /\ Top.p \in Proc
  /\ IF ticks[Top.p] > Top.best
     THEN /\ p_proc_ready' = Top.p
          /\ frames' = [frames EXCEPT ![Depth].best = ticks[Top.p],
                                      ![Depth].p = @ + 1]
     ELSE /\ frames' = [frames EXCEPT ![Depth].p = @ + 1]
          /\ UNCHANGED p_proc_ready
  /\ UNCHANGED <<runnable, ticks, k_reenter, masked, stray>>

(* One iteration of the first loop of schedule().                          *)
Scan ==
  /\ ~UserMode /\ Top.pc = "scan" /\ Top.p \in Proc
  /\ IF runnable[Top.p] /\ ticks[Top.p] > Top.best
     THEN /\ p_proc_ready' = Top.p
          /\ frames' = [frames EXCEPT ![Depth].best = ticks[Top.p],
                                      ![Depth].p = @ + 1]
     ELSE /\ frames' = [frames EXCEPT ![Depth].p = @ + 1]
          /\ UNCHANGED p_proc_ready
  /\ UNCHANGED <<runnable, ticks, k_reenter, masked, stray>>

(* The end of the first loop: leave, or go and give out new ticks.         *)
ScanEnds ==
  /\ ~UserMode /\ Top.pc = "scan" /\ Top.p = N + 1
  /\ IF Top.best # 0
     THEN Goto("out")
     ELSE frames' = [frames EXCEPT ![Depth].pc = "refill", ![Depth].p = 1]
  /\ UNCHANGED <<runnable, ticks, p_proc_ready, k_reenter, masked, stray>>

(* Mutant of Refill: `p < &LAST_PROC', the last process gets no ticks.     *)
Refill_NotLast ==
  /\ ~UserMode /\ Top.pc = "refill" /\ Top.p \in Proc
  /\ ticks' = IF runnable[Top.p] /\ Top.p < N
              THEN [ticks EXCEPT ![Top.p] = priority[Top.p]]
              ELSE ticks
  /\ frames' = [frames EXCEPT ![Depth].p = @ + 1]
  /\ UNCHANGED <<runnable, p_proc_ready, k_reenter, masked, stray>>

(* One iteration of the second loop.                                       *)
Refill ==
  /\ ~UserMode /\ Top.pc = "refill" /\ Top.p \in Proc
  /\ ticks' = IF runnable[Top.p]
              THEN [ticks EXCEPT ![Top.p] = priority[Top.p]]
              ELSE ticks
  /\ frames' = [frames EXCEPT ![Depth].p = @ + 1]
  /\ UNCHANGED <<runnable, p_proc_ready, k_reenter, masked, stray>>

(* while (!greatest_ticks): scan again.                                    *)
RefillEnds ==
  /\ ~UserMode /\ Top.pc = "refill" /\ Top.p = N + 1
  /\ GotoSchedule
  /\ UNCHANGED <<runnable, ticks, p_proc_ready, k_reenter, masked, stray>>

Schedule == Scan \/ ScanEnds \/ Refill \/ RefillEnds

(* The kernel executes its next instructions.                              *)
KernelStep ==
  \/ KeyboardHandler
  \/ ClockCount \/ ClockTest
  \/ ReadCaller \/ BlockCaller \/ UnblockPartner \/ OtherCall
  \/ Schedule
  \/ Return

Next == (\E irq \in IRQ : Interrupt(irq)) \/ SysCall \/ KernelStep

Spec == Init /\ [][Next]_vars

(* The processor executes what is on top of the stack; interrupts do not   *)
(* come so fast that the code below never gets on; the timer, which is     *)
(* periodic, also ticks while processes run in user mode.                  *)
Fairness ==
  /\ \A d \in 1 .. 3 : SF_vars(KernelStep /\ Depth = d)
  /\ SF_vars(UserMode /\ Interrupt("clock"))

FairSpec == Spec /\ Fairness

-----------------------------------------------------------------------------
(***************************************************************************)
(* Properties.                                                             *)
(***************************************************************************)

(* Every variable holds a value of its kind.                               *)
TypeOK ==
  /\ runnable \in [Proc -> BOOLEAN]
  /\ ticks \in [Proc -> Nat]
  /\ p_proc_ready \in Proc
  /\ k_reenter \in Int
  /\ masked \subseteq IRQ
  /\ frames \in Seq(Frame)
  /\ stray \in Nat

(* Only a process with p_flags = 0 runs in user mode, although schedule()  *)
(* changes p_proc_ready under way and interrupts are enabled meanwhile.    *)
RunsRunnable == UserMode => runnable[p_proc_ready]

(* k_reenter counts the frames, and only the outermost leaves through      *)
(* restart, which drops the kernel stack: no frame is lost or left twice.  *)
(* A handler runs at most once at a time, with its line masked, and a      *)
(* system call is never made by the kernel.                                *)
FramesNest ==
  /\ k_reenter = Depth - 1
  /\ \A i \in 1 .. Depth :
       /\ frames[i].back = "restart" <=> i = 1
       /\ frames[i].kind = "call" => i = 1
       /\ frames[i].kind \in masked \cup {"call"}
       /\ \A j \in 1 .. Depth : frames[i].kind = frames[j].kind => i = j

(* Until a system call reschedules, p_proc_ready is the process that made  *)
(* it: sys_call reads it with interrupts enabled, and sys_sendrec() and    *)
(* sys_printx() act on what it read.                                       *)
CallerIsReady ==
  \A i \in 1 .. Depth :
    frames[i].kind = "call" /\ frames[i].pc \in {"enter", "body"} =>
      p_proc_ready = frames[i].proc

(* schedule() always ends, with a runnable process.                        *)
ScheduleEnds == InSchedule ~> UserMode

(* A process that stays runnable gets to run, again and again, whatever    *)
(* calls the others make.                                                  *)
NoStarvation ==
  \A p \in Proc : []<>(~runnable[p] \/ (UserMode /\ p_proc_ready = p))

=============================================================================
