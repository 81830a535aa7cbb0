---------------------------- MODULE KernelEntry ----------------------------
(***************************************************************************)
(* How the processor enters and leaves the kernel: hwint_master, save,     *)
(* sys_call, restart and restart_reenter of kernel/kernel9.asm, at the     *)
(* grain of the words they leave on the stack.                             *)
(*                                                                         *)
(* A context is what an interrupt can stop: a process, the handler of an   *)
(* IRQ, or the body of a system call made by a process.  A frame is the    *)
(* saved registers of a context.  An interrupt that stops a process        *)
(* switches to the stack the TSS names, which is the register area of a    *)
(* process-table entry; one that stops the kernel pushes onto the stack in *)
(* use.  Code that runs with interrupts disabled is one action.            *)
(***************************************************************************)
EXTENDS Integers, FiniteSets, Sequences

CONSTANTS Procs,   \* the process-table entries
          IRQs,    \* the lines of the master 8259A in use
          Clock,   \* CLOCK_IRQ
          First    \* proc_table: the entry kernel_main() starts

ASSUME EntryAssumption == /\ Clock \in IRQs
                          /\ First \in Procs
                          /\ IsFiniteSet(Procs) /\ IsFiniteSet(IRQs)

VARIABLES cpu,      \* the context that runs, or the label control is at
          k_reenter,
          stack,    \* the words below the stack pointer, the last one on top
          regs,     \* p -> the frame in the register area of p's entry
          esp0,     \* the entry whose register area the TSS points to
          p_proc_ready,
          masked    \* the bits set in the mask register of the 8259A

vars == <<cpu, k_reenter, stack, regs, esp0, p_proc_ready, masked>>

User(p)    == [kind |-> "proc", of |-> p]
Handler(i) == [kind |-> "irq",  of |-> i]
Call(p)    == [kind |-> "call", of |-> p]
Label(l)   == [kind |-> "label", of |-> l]
Nowhere    == [kind |-> "wild", of |-> "wild"]

Contexts == {User(p) : p \in Procs} \cup {Handler(i) : i \in IRQs}
              \cup {Call(p) : p \in Procs}
Labels   == {Label("restart"), Label("restart_reenter")}

Frame(c) == [word |-> "frame", val |-> c]
Ret(l)   == [word |-> "ret", val |-> l]
Arg(a)   == [word |-> "arg", val |-> a]

Running       == cpu \in Contexts
FromUser      == cpu.kind = "proc"
Top(s)        == s[Len(s)]
Drop(s, n)    == SubSeq(s, 1, Len(s) - n)

\* kernel_main() sets k_reenter to 0 and falls into restart; the 8259A lets
\* the lines of the drivers through.
Init ==
  /\ cpu = Label("restart")
  /\ k_reenter = 0
  /\ stack = <<>>
  /\ regs = [p \in Procs |-> Frame(User(p))]
  /\ esp0 = First
  /\ p_proc_ready = First
  /\ masked = {}
-----------------------------------------------------------------------------
\* save: the frame of what was running goes where the privilege change, if
\* any, sends it; the outermost entry then starts an empty kernel stack.  The
\* address save leaves on the stack is where the entry's ret will go.  rest
\* is what the entry pushes after that.
Save(rest) ==
  LET entered == IF FromUser THEN <<Frame(cpu)>> ELSE Append(stack, Frame(cpu))
  IN  /\ k_reenter' = k_reenter + 1
      /\ regs'  = IF FromUser THEN [regs EXCEPT ![esp0] = Frame(cpu)] ELSE regs
      /\ stack' = IF k_reenter' = 0 THEN <<Ret(Label("restart"))>> \o rest
                  ELSE Append(entered, Ret(Label("restart_reenter"))) \o rest

\* ret: control goes to the word on top, if that is a return address.
Return(s) ==
  /\ cpu'   = IF Top(s).word = "ret" THEN Top(s).val ELSE Nowhere
  /\ stack' = Drop(s, 1)

\* A bug for the runs to detect: the line is not masked.
Interrupt_Unmasked(i) ==
  /\ Running
  /\ i \notin masked
  /\ Save(<<Arg(i)>>)
  /\ cpu' = Handler(i)
  /\ UNCHANGED <<esp0, p_proc_ready, masked>>

\* hwint_master up to the call: save, mask the line, acknowledge, sti.
Interrupt(i) ==
  /\ Running
  /\ i \notin masked
  /\ Save(<<Arg(i)>>)
  /\ masked' = masked \cup {i}
  /\ cpu' = Handler(i)
  /\ UNCHANGED <<esp0, p_proc_ready>>

\* clock_handler() calls schedule() at the outermost level only.
ClockSchedules(p) ==
  /\ cpu = Handler(Clock)
  /\ k_reenter = 0
  /\ p_proc_ready' = p
  /\ UNCHANGED <<cpu, k_reenter, stack, regs, esp0, masked>>

\* A bug for the runs to detect: the argument is not popped.
HandlerReturns_KeepsArg(i) ==
  /\ cpu = Handler(i)
  /\ masked' = masked \ {i}
  /\ Return(stack)
  /\ UNCHANGED <<k_reenter, regs, esp0, p_proc_ready>>

\* hwint_master after the call: pop the argument, cli, unmask, ret.
HandlerReturns(i) ==
  /\ cpu = Handler(i)
  /\ masked' = masked \ {i}
  /\ Return(Drop(stack, 1))
  /\ UNCHANGED <<k_reenter, regs, esp0, p_proc_ready>>

\* A bug for the runs to detect: the TSS is not updated.
Restart_StaleTss ==
  /\ cpu = Label("restart")
  /\ stack' = <<regs[p_proc_ready]>>
  /\ cpu'   = Label("restart_reenter")
  /\ UNCHANGED <<k_reenter, regs, esp0, p_proc_ready, masked>>

\* restart: take the register area of p_proc_ready as the stack and make the
\* TSS point to it, then fall into restart_reenter.
Restart ==
  /\ cpu = Label("restart")
  /\ stack' = <<regs[p_proc_ready]>>
  /\ esp0'  = p_proc_ready
  /\ cpu'   = Label("restart_reenter")
  /\ UNCHANGED <<k_reenter, regs, p_proc_ready, masked>>

\* restart_reenter: pop the registers and iretd, which enables interrupts.
RestartReenter ==
  /\ cpu = Label("restart_reenter")
  /\ k_reenter' = k_reenter - 1
  /\ cpu'   = IF Top(stack).word = "frame" THEN Top(stack).val ELSE Nowhere
  /\ stack' = Drop(stack, 1)
  /\ UNCHANGED <<regs, esp0, p_proc_ready, masked>>

\* sys_call up to the call: save, sti, push esi (the address of the caller's
\* entry), then the four arguments.
SysCall(p) ==
  /\ cpu = User(p)
  /\ Save(<<Arg("esi"), Arg("p_proc_ready"), Arg("edx"), Arg("ecx"), Arg("ebx")>>)
  /\ cpu' = Call(p)
  /\ UNCHANGED <<esp0, p_proc_ready, masked>>

\* sys_sendrec() may block the caller and schedule.
CallSchedules(p, q) ==
  /\ cpu = Call(p)
  /\ p_proc_ready' = q
  /\ UNCHANGED <<cpu, k_reenter, stack, regs, esp0, masked>>

\* sys_call after the call: add esp, 4*4; store eax; cli; ret.
SysCallReturns(p) ==
  /\ cpu = Call(p)
  /\ Return(Drop(stack, 4))
  /\ UNCHANGED <<k_reenter, regs, esp0, p_proc_ready, masked>>

InterruptNext ==
  \/ \E i \in IRQs : Interrupt(i) \/ HandlerReturns(i)
  \/ \E p \in Procs : ClockSchedules(p)
  \/ Restart
  \/ RestartReenter

CallNext ==
  \E p \in Procs : \/ SysCall(p)
                   \/ SysCallReturns(p)
                   \/ \E q \in Procs : CallSchedules(p, q)

\* The kernel with hardware interrupts alone, and with system calls too.
InterruptSpec == Init /\ [][InterruptNext]_vars
Spec          == Init /\ [][InterruptNext \/ CallNext]_vars
-----------------------------------------------------------------------------
\* Control only ever goes to an address the entry code pushed: no ret takes
\* an argument or a saved register for one, and no iretd pops something that
\* is not a frame.  kernel9.asm:355 promises the same of sys_call.
ReturnsToCode == cpu # Nowhere

\* A process is only ever interrupted into its own process-table entry, and
\* the registers there are its own: restart has set the TSS, no nested
\* interrupt has written over them.
OwnRegisters ==
  /\ FromUser => cpu.of = esp0
  /\ \A p \in Procs : regs[p] = Frame(User(p))

\* The handlers in progress are the current one and the ones whose frames
\* are on the stack; each line is masked while its handler is in progress,
\* so no handler is ever entered twice and k_reenter counts them.
InProgress == {n \in 1..Len(stack) : stack[n].word = "arg"}
MaskedWhileServed ==
  LET served == [n \in InProgress |-> stack[n].val]
  IN  Running => /\ \A m, n \in InProgress : served[m] = served[n] => m = n
                 /\ {served[n] : n \in InProgress} \subseteq masked
                 /\ k_reenter = Cardinality(InProgress) - 1
=============================================================================
