------------------------------ MODULE StartUp ------------------------------
(***************************************************************************)
(* The kernel from cstart() until task_tty has made its devices work, on   *)
(* top of the entry code of module KernelEntry: start.c, protect.c,        *)
(* i8259.c, kernel_main() of main.c, init_clock() of clock.c and           *)
(* init_keyboard() of keyboard.c, which runs twice, in kernel_main() with  *)
(* interrupts off and in task_tty with interrupts on.                      *)
(*                                                                         *)
(* The devices do not wait: the timer ticks, the keyboard controller has   *)
(* a byte or gets one, and other lines rise, at any moment.  The 8259A     *)
(* latches the rising edge of a line until the processor takes it.         *)
(*                                                                         *)
(* An address has four digits in base Radix (256 in the code), which a     *)
(* descriptor keeps in three fields.                                       *)
(***************************************************************************)
EXTENDS KernelEntry, Functions

CONSTANTS Keyboard,     \* KEYBOARD_IRQ; Clock is CLOCK_IRQ
          Number,       \* line -> its number
          proc_table,   \* the entries in order, task_tty first
          NR_TASKS,
          StackSize,    \* p -> TASK.stacksize
          TableAt,      \* the address of proc_table
          ProcSize,     \* sizeof(PROCESS)
          LdtsAt,       \* the offset of ldts in a PROCESS
          Radix,
          MaxKeys       \* bound on the bytes the user makes the keyboard send

N == Len(proc_table)

ASSUME StartUpAssumption ==
  /\ Keyboard \in IRQs \ {Clock}
  /\ Number \in [IRQs -> 0..7]
  /\ \A i, j \in IRQs : Number[i] = Number[j] => i = j
  /\ proc_table \in Seq(Procs)
  /\ {proc_table[n] : n \in 1..N} = Procs /\ Cardinality(Procs) = N
  /\ First = proc_table[1]
  /\ NR_TASKS \in 1..N
  /\ StackSize \in [Procs -> Nat \ {0}]
  /\ Radix \in Nat \ {0, 1}
  /\ TableAt \in Nat /\ ProcSize \in Nat /\ LdtsAt \in Nat
  /\ LdtsAt < ProcSize /\ TableAt + N * ProcSize < Radix * Radix * Radix * Radix
  /\ MaxKeys \in Nat

VARIABLES pos,        \* the next step of the start-up code, or of task_tty
          gdt,        \* index -> descriptor
          gdt_limit,  \* descriptors that the register of the GDT lets through
          idt,        \* vector -> the line whose hwint it leads to
          entry,      \* p -> what kernel_main() puts into its entry
          ldtr,       \* the base of the LDT in use
          irq_table,
          vector,     \* of line 0, in the 8259A
          irr,        \* the requests latched in the 8259A
          obf,        \* the output buffer of the keyboard controller
          acks, keys  \* bytes the keyboard has to send, and sent so far

tables  == <<gdt, gdt_limit, idt, entry>>
device  == <<obf, acks, keys>>
upVars  == <<vars, pos, tables, ldtr, irq_table, vector, irr, device>>

INDEX_LDT_FIRST    == 5
SELECTOR_LDT_FIRST == 8 * 5
INT_VECTOR_IRQ0    == 32
OldVector          == 8    \* what the BIOS set
OldGdt             == 4    \* descriptors in the table of the loader
GDT_SIZE           == 128

\* BSS and the registers hold anything.  The loader did cli and left the
\* lines as the BIOS had them.
UpInit ==
  /\ cpu = Label("kernel_main") /\ pos = "init_8259A"
  /\ k_reenter \in {-1, 0, 1}
  /\ stack = <<>>
  /\ regs = [p \in Procs |-> Frame(User(p))]
  /\ esp0 = First /\ p_proc_ready = First
  /\ masked \in {{}, IRQs}
  /\ gdt = <<>> /\ gdt_limit = OldGdt /\ idt = <<>> /\ entry = <<>> /\ ldtr = 0
  /\ irq_table = [i \in IRQs |-> "unset"]
  /\ vector = OldVector
  /\ irr \in SUBSET IRQs
  /\ obf \in {"empty", "key"} /\ acks = 0 /\ keys = 0
-----------------------------------------------------------------------------
(***************************************************************************)
(* Descriptors.                                                            *)
(***************************************************************************)

\* A bug for the runs to detect: base_mid keeps the bits above its own.
init_descriptor_Shift(base) ==
  [base_low  |-> base % (Radix * Radix),
   base_mid  |-> (base \div Radix) % Radix,
   base_high |-> (base \div (Radix * Radix * Radix)) % Radix]

\* init_descriptor(), but for limits and attributes.
init_descriptor(base) ==
  [base_low  |-> base % (Radix * Radix),
   base_mid  |-> (base \div (Radix * Radix)) % Radix,
   base_high |-> (base \div (Radix * Radix * Radix)) % Radix]

\* What the processor, seg2phys() and ldt_seg_linear() make of a descriptor.
Base(d) ==
  d.base_high * Radix * Radix * Radix + d.base_mid * Radix * Radix + d.base_low

Ldts(n) == TableAt + (n - 1) * ProcSize + LdtsAt   \* &proc_table[n-1].ldts

\* The task stacks are handed out from the top of task_stack downwards.
StackTop[n \in 1..N+1] ==
  IF n = 1 THEN FoldFunction(+, 0, StackSize)
           ELSE StackTop[n-1] - StackSize[proc_table[n-1]]

\* What one turn of the loop of kernel_main() puts into the n-th entry.
Pcb(n) ==
  LET task == n <= NR_TASKS
  IN  [ldt_sel |-> SELECTOR_LDT_FIRST + 8 * (n - 1),
       rpl     |-> IF task THEN 1 ELSE 3,
       dpl     |-> IF task THEN 1 ELSE 3,
       iopl    |-> IF task THEN 1 ELSE 0,
       esp     |-> StackTop[n]]

IndexOf(p) == CHOOSE n \in 1..N : proc_table[n] = p
-----------------------------------------------------------------------------
(***************************************************************************)
(* The start-up code.  InKernel is kernel_main() and what comes before,    *)
(* InTask is task_tty, which may do I/O if its IOPL lets it.               *)
(***************************************************************************)
InKernel == cpu = Label("kernel_main")
InTask   == cpu = User(First) /\ entry[First].rpl <= entry[First].iopl

At(here, there) ==
  /\ InKernel \/ InTask
  /\ pos = here /\ pos' = there

\* A bug for the runs to detect: the lines are left as ICW1 makes them.
Init8259A_NoOCW1 ==
  /\ At("init_8259A", "init_prot")
  /\ vector' = INT_VECTOR_IRQ0
  /\ irr' = {} /\ masked' = {}
  /\ irq_table' = [i \in IRQs |-> "spurious_irq"]
  /\ UNCHANGED <<cpu, k_reenter, stack, regs, esp0, p_proc_ready, tables, ldtr, device>>

\* init_8259A(): ICW1 forgets the edges seen so far; OCW1 masks every line.
Init8259A ==
  /\ At("init_8259A", "init_prot")
  /\ vector' = INT_VECTOR_IRQ0
  /\ irr' = {} /\ masked' = IRQs
  /\ irq_table' = [i \in IRQs |-> "spurious_irq"]
  /\ UNCHANGED <<cpu, k_reenter, stack, regs, esp0, p_proc_ready, tables, ldtr, device>>

\* The rest of cstart(), lgdt and lidt: gates, the descriptors of the LDTs.
InitProt ==
  /\ At("init_prot", "kernel_main")
  /\ idt' = [v \in {INT_VECTOR_IRQ0 + Number[i] : i \in IRQs} |->
               CHOOSE i \in IRQs : v = INT_VECTOR_IRQ0 + Number[i]]
  /\ gdt' = [x \in INDEX_LDT_FIRST..INDEX_LDT_FIRST+N-1 |->
               init_descriptor(Ldts(x - INDEX_LDT_FIRST + 1))]
  /\ gdt_limit' = GDT_SIZE
  /\ UNCHANGED <<vars, entry, ldtr, irq_table, vector, irr, device>>

\* kernel_main() up to init_clock().
KernelMain ==
  /\ At("kernel_main", "init_clock")
  /\ entry' = [p \in Procs |-> Pcb(IndexOf(p))]
  /\ k_reenter' = 0
  /\ p_proc_ready' = First
  /\ UNCHANGED <<cpu, stack, regs, esp0, masked, gdt, gdt_limit, idt, ldtr,
                 irq_table, vector, irr, device>>

InitClock ==
  /\ At("init_clock", "led")
  /\ irq_table' = [irq_table EXCEPT ![Clock] = "clock_handler"]
  /\ masked' = masked \ {Clock}
  /\ UNCHANGED <<cpu, k_reenter, stack, regs, esp0, p_proc_ready, tables, ldtr,
                 vector, irr, device>>

\* set_leds(): kb_wait() and a byte to the keyboard, which will acknowledge
\* it.  What init_keyboard() does to kb_in is the subject of KeyboardBuffer.
OutByte ==
  /\ At("led", "led ack") \/ At("leds", "leds ack")
  /\ acks' = acks + 1
  /\ UNCHANGED <<vars, tables, ldtr, irq_table, vector, irr, obf, keys>>

\* Reading KB_DATA empties the buffer and drops the line.  Whether a request
\* that the processor has not taken yet goes with it depends on the 8259A.
ReadData ==
  /\ obf' = "empty"
  /\ \/ UNCHANGED irr
     \/ obf # "empty" /\ irr' = irr \ {Keyboard}

\* A bug for the runs to detect: kb_ack() waits, `kb_read != KB_ACK'.
KbAck_Waits ==
  /\ IF obf = "ack"
     THEN At("led ack", "leds") \/ At("leds ack", "disable")
     ELSE At("led ack", "led ack") \/ At("leds ack", "leds ack")
  /\ ReadData
  /\ UNCHANGED <<vars, tables, ldtr, irq_table, vector, acks, keys>>

\* A bug for the runs to detect: kb_ack() does not read the port.
KbAck_Blind ==
  /\ At("led ack", "leds") \/ At("leds ack", "disable")
  /\ UNCHANGED <<vars, tables, ldtr, irq_table, vector, irr, device>>

\* kb_ack() reads once: `kb_read =! KB_ACK' assigns zero.
KbAck ==
  /\ At("led ack", "leds") \/ At("leds ack", "disable")
  /\ ReadData
  /\ UNCHANGED <<vars, tables, ldtr, irq_table, vector, acks, keys>>

\* put_irq_handler(): disable_irq(), then the entry of the table.
DisableIrq ==
  /\ At("disable", "put")
  /\ masked' = masked \cup {Keyboard}
  /\ UNCHANGED <<cpu, k_reenter, stack, regs, esp0, p_proc_ready, tables, ldtr,
                 irq_table, vector, irr, device>>

PutIrqHandler ==
  /\ At("put", "enable")
  /\ irq_table' = [irq_table EXCEPT ![Keyboard] = "keyboard_handler"]
  /\ UNCHANGED <<vars, tables, ldtr, vector, irr, device>>

\* enable_irq(); kernel_main() then calls restart(), task_tty goes on.
EnableIrq ==
  /\ At("enable", IF InKernel THEN "led" ELSE "up")
  /\ masked' = masked \ {Keyboard}
  /\ cpu' = IF InKernel THEN Label("restart") ELSE cpu
  /\ UNCHANGED <<k_reenter, stack, regs, esp0, p_proc_ready, tables, ldtr,
                 irq_table, vector, irr, device>>

StartUpStep ==
  \/ Init8259A \/ InitProt \/ KernelMain \/ InitClock
  \/ OutByte \/ KbAck \/ DisableIrq \/ PutIrqHandler \/ EnableIrq
-----------------------------------------------------------------------------
(***************************************************************************)
(* The entry code, with the tables it looks into.                          *)
(***************************************************************************)

\* The processor acknowledges a request: the vector leads to a hwint.
TakeInterrupt(i) ==
  /\ Interrupt(i)
  /\ i \in irr
  /\ idt[vector + Number[i]] = i
  /\ irr' = irr \ {i}
  /\ UNCHANGED <<pos, tables, ldtr, irq_table, vector, device>>

\* Inside clock_handler().
ClockReschedules(p) ==
  /\ irq_table[Clock] = "clock_handler"
  /\ ClockSchedules(p)
  /\ UNCHANGED <<pos, tables, ldtr, irq_table, vector, irr, device>>

\* The handler that irq_table names, then the return to hwint_master.
HandlerEnds(i) ==
  /\ HandlerReturns(i)
  /\ IF irq_table[i] = "keyboard_handler" THEN ReadData ELSE UNCHANGED <<obf, irr>>
  /\ UNCHANGED <<pos, tables, ldtr, irq_table, vector, acks, keys>>

\* lldt comes before the change of esp0; then into restart_reenter.
RestartLoads ==
  /\ Restart
  /\ LET x == entry[p_proc_ready].ldt_sel \div 8
     IN  x < gdt_limit /\ ldtr' = Base(gdt[x])
  /\ UNCHANGED <<pos, tables, irq_table, vector, irr, device>>

\* iretd to a process needs the privilege of its code segment to fit cs.
Iretd ==
  /\ RestartReenter
  /\ FromUser' => entry[cpu'.of].rpl = entry[cpu'.of].dpl
  /\ UNCHANGED <<pos, tables, ldtr, irq_table, vector, irr, device>>

EntryStep ==
  \/ \E i \in IRQs : TakeInterrupt(i) \/ HandlerEnds(i)
  \/ \E p \in Procs : ClockReschedules(p)
  \/ RestartLoads \/ Iretd
-----------------------------------------------------------------------------
(***************************************************************************)
(* The devices.                                                            *)
(***************************************************************************)
\* The timer, or a line that the kernel has no driver for.
LineRises(i) ==
  /\ i # Keyboard
  /\ irr' = irr \cup {i}
  /\ UNCHANGED <<vars, pos, tables, ldtr, irq_table, vector, device>>

\* The keyboard controller has a byte from the keyboard.
Delivers(byte) ==
  /\ obf = "empty"
  /\ obf' = byte
  /\ irr' = irr \cup {Keyboard}
  /\ UNCHANGED <<vars, pos, tables, ldtr, irq_table, vector>>

DeliversAck ==
  /\ acks > 0
  /\ acks' = acks - 1 /\ UNCHANGED keys
  /\ Delivers("ack")

DeliversKey ==
  /\ keys < MaxKeys
  /\ keys' = keys + 1 /\ UNCHANGED acks
  /\ Delivers("key")

Devices == (\E i \in IRQs : LineRises(i)) \/ DeliversAck \/ DeliversKey

UpNext == StartUpStep \/ EntryStep \/ Devices

\* The processor goes on; an interrupt that is not masked is taken in the
\* end, a handler ends although others interrupt it, the timer ticks, and
\* task_tty is scheduled again and again (Scheduler!NoStarvation).
Fairness ==
  /\ SF_upVars(StartUpStep) /\ WF_upVars(RestartLoads \/ Iretd)
  /\ \A i \in {Clock, Keyboard} : SF_upVars(TakeInterrupt(i)) /\ SF_upVars(HandlerEnds(i))
  /\ WF_upVars(LineRises(Clock)) /\ WF_upVars(DeliversAck)
  /\ SF_upVars(ClockReschedules(First))
  /\ SF_upVars(HandlerEnds(Clock) /\ p_proc_ready = First)

UpSpec == UpInit /\ [][UpNext]_upVars /\ Fairness
-----------------------------------------------------------------------------
Served == {i \in IRQs : cpu = Handler(i)} \cup {stack[n].val.of : n \in
            {k \in 1..Len(stack) : stack[k].word = "frame" /\ stack[k].val.kind = "irq"}}

\* While interrupts can be taken, the lines without a driver are masked, and
\* so is every line being served and, while task_tty replaces its handler,
\* the keyboard: no request is ever answered by spurious_irq() or through an
\* entry of irq_table that start-up has not filled.
Driver == [i \in IRQs |-> IF i = Clock THEN "clock_handler"
                          ELSE IF i = Keyboard THEN "keyboard_handler" ELSE "spurious_irq"]
DriversOwnLines ==
  Running =>
    /\ irq_table = Driver
    /\ masked = Served \cup (IRQs \ {Clock, Keyboard})
                  \cup (IF pos \in {"put", "enable"} THEN {Keyboard} ELSE {})

\* The process that runs uses the LDT in its own entry, and no two processes
\* share a part of task_stack.
OwnSegments == FromUser => ldtr = Ldts(IndexOf(cpu.of))
OwnStacks ==
  Running => \A p \in Procs :
    /\ entry[p].esp - StackSize[p] >= 0
    /\ \A q \in Procs \ {p} : entry[q].esp \notin
         entry[p].esp - StackSize[p] + 1 .. entry[p].esp
OwnMemory == OwnSegments /\ OwnStacks

\* The keyboard never goes deaf: a byte in the controller, whether it came
\* before the 8259A was set up, while its line was masked or later, is read,
\* so that the next one can raise the line again.
KeysAreRead == obf # "empty" ~> obf = "empty"

\* task_tty gets through its init_keyboard(), although the handler that the
\* kernel has installed by then takes the acknowledgements away from it.
StartsUp == <>(pos = "up")
=============================================================================
