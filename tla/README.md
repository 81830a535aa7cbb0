# youngOS in TLA+

youngOS is a small teaching kernel for the 80386: a boot sector and a loader
that read a FAT12 floppy, a re-entrant kernel with priority round-robin
scheduling, synchronous messages between processes, a system task that tells
the time, a keyboard driver, and three virtual consoles.  This directory holds
TLA+ models of it, the TLC configurations that check them, and proofs that
TLAPS checks.  The source is the reference: every definition was read from the
C or assembly it stands for, and `PROJECT.json` gives the lines.

To check:

    tlasany M.tla
    tlc -config X.cfg M        # the runs below; symmetry and fairness are in the .cfg
    tlapm M.tla                # for IpcProofs, SystemProofs, SchedulerProofs,
                               # StartUpProofs, KeyboardBufferProofs,
                               # KeyboardProofs, ConsoleProofs, BootProofs

## 1. Inventory

| Part (source) | State | Operations | Talks to | Hard behaviour | What makes it correct |
|---|---|---|---|---|---|
| Message passing (`kernel/proc.c`: `sys_sendrec`, `msg_send`, `msg_receive`, `deadlock`, `block`, `unblock`) | `p_flags`, `p_msg`, `p_recvfrom`, `p_sendto` of each process; a linked list of blocked senders per process (`q_sending`, `next_sending`) | SEND, RECEIVE from one process or ANY | every process; `schedule()` when a call blocks | a partner that comes later, or never; circles of senders; a sender taken from the middle of the list | lists hold exactly the blocked senders, in order; no two processes wait for each other in vain; no circle is closed; its assertions never fire |
| Scheduler and clock (`proc.c: schedule`, `kernel/clock.c`) | `ticks`, `priority`, `p_proc_ready`, the global `ticks` | clock interrupt, `schedule()` | interrupt entry, message passing | `schedule()` runs with interrupts on, is interrupted by the clock, and loops without a bound | it ends, picks a runnable process, and starves none |
| Kernel entry (`kernel/kernel9.asm`) | `k_reenter`, kernel stack, register areas of the process table, TSS `esp0`, mask of the 8259A | `hwint_master`, `save`, `sys_call`, `restart`, `restart_reenter` | everything | nested interrupts; two ways to enter and two to leave | each return address is one that was left for it; each process gets its own registers; no line is served twice at once |
| System task and time (`kernel/systask.c`, `main.c: get_ticks`, `clock.c: milli_delay`) | global `ticks`, the task's message buffer | GET_TICKS, `milli_delay` | message passing | a request and its answer are two system calls; polling of a clock that moves | answers are fresh and go to who asked; delays are long enough; every call returns |
| Keyboard buffer (`kernel/keyboard.c`: `keyboard_handler`, `get_byte_from_kbuf`, `init_keyboard`) | `kb_in`: buffer, head, tail, count | interrupt puts, task takes | keyboard controller, terminal task | the interrupt may come between any two instructions of the task; the buffer fills | a FIFO queue that loses only what arrives when it is full |
| Keyboard decoding (`keyboard_read`, `set_leds`, `kb_wait`, `kb_ack`) | modifier and lock flags, `code_with_E0`, the LEDs | decode, switch on modifiers, program LEDs | buffer, `in_process` | codes of one to six bytes; the task lags behind the user; acknowledgements share the buffer | keys come out in order, with the modifiers they were typed with |
| Terminals and consoles (`kernel/tty.c`, `kernel/console.c`) | a ring of characters per terminal; `cursor`, `current_start_addr` of each console, `nr_current_console`, the CRT controller's registers | the loop of `task_tty`, `put_key`, `out_char`, `flush`, scrolling, selecting a console, the dump on F12, `sys_printx` | keyboard, printing | a process prints while the terminal task is in the middle of an echo; the console changes between a key and its echo; regions that are no whole number of lines | each console writes its own memory; scrolling ends; what is typed is echoed where it was typed; the controller's registers are never stale, and show the console in use again after a background print |
| Printing and assertions (`vsprintf.c`, `printf.c`, `lib/misc.c`, `main.c: panic`, `tty.c: sys_printx`) | none | format, print, halt | consoles | the halt depends on a character that passes through the formatter | a failed assertion halts the machine |
| Boot sector and loader (`boot/boot1.asm`, `boot/loader2.asm`) | memory below 1M, the registers of the search | find and load a file, ask for the memory map, set up paging, place the kernel | BIOS | FAT entries of 12 bits that straddle sectors; failing reads; loading around oneself | the kernel runs with every segment in place, all memory mapped |
| Start-up (`start.c: cstart`, `main.c: kernel_main`, `global.c`, `clock.c: init_clock`, `keyboard.c: init_keyboard`) | process table, `irq_table`, masks of the 8259A | once; `init_keyboard` twice | all | devices do not wait for it; the second `init_keyboard` runs with interrupts on | no request goes to a missing handler; the keyboard never goes deaf; each process has its own segments and stack |
| Descriptors, interrupt controller (`protect.c`, `i8259.c`) | GDT, LDT, IDT, 8259A | `init_prot`, `init_8259A`, `put_irq_handler`, `enable_irq`, `disable_irq` | start-up, kernel entry | latched requests lost by ICW1; addresses cut into three fields | see start-up |
| Library (`lib/`, `kernel/syscall.asm`) | none | `memcpy`, ports, numbers, stubs | all | | the parts with an effect on interrupts are in the models that use them |
| Older kernels and boot code | | | | | not modelled |
| Lessons (`protect_mode/`) | stand-alone | | | | not modelled |

The hazards that the properties are aimed at are listed with their lines in
`PROJECT.json`, "hazards"; the ones no property covers say why.

### Where the tree is unfinished

The repository is work in progress, and a model has to say which version it
takes:

  - `Makefile` still builds `kernel8.asm` (which lacks a bracket and does not
    assemble) and links neither `systask.o` nor `misc.o`.  The C code calls for
    the entry code of `kernel9.asm`, which the models follow.
  - `kernel/tty.c` and `kernel/console.c` use `SCREEN_WIDTH` and `SCREEN_SIZE`;
    `include/console.h` defines `SCR_WIDTH` and `SCR_SIZE`, with 80 and 2000.
  - `sys_call` of `kernel9.asm` does not balance its stack (finding 1 below).
    `Ipc` and `Scheduler` assume the return through `restart` that it means to
    make; `KernelEntry` shows both what holds without it and the failure.

## 2. Modules

    Rendezvous      what SEND and RECEIVE promise           (abstract)
      ^ implemented by
    Ipc             message passing                         MCIpc, IpcProofs
      |             (IpcRefinement: the mapping to Rendezvous, the loop of deadlock())
      ^ extended by
    SysTask         system task, get_ticks, milli_delay     (any scheduling)
      ^ extended, and implemented, by
    System          the same on one processor with          MCSystem, SystemProofs
                    schedule() and the clock

    Scheduler       schedule(), the clock, nested entries   MCScheduler, SchedulerProofs
    KernelEntry     the same entries, word by word          (proofs in StartUpProofs)
      ^ extended by
    StartUp         cstart to the end of task_tty's own     MCStartUp,
                    initialisation, and the devices         StartUpProofs

    ScanQueue       a lossy queue                           (abstract)
      ^ implemented by             ^ used by
    KeyboardBuffer                 Keyboard                 KeyboardBufferProofs,
                                                            KeyboardProofs

    Console         terminals, consoles, printing           ConsoleProofs
    Printx          a failed assertion's way to the halt
    Boot            boot sector and loader                  MCBoot, BootProofs

**Ipc.** One action per outcome of a system call: `SendPanics` (a circle),
`SendDelivers` (the receiver waits), `SendBlocks`, `ReceiveFetches` (a sender
waits), `ReceiveBlocks`.  A call is one step although interrupts are enabled
during it: a clock interrupt that finds `k_reenter # 0` returns before it calls
`schedule()` (`clock.c:22`), so no other process enters the kernel before the
call is over (`KernelNests` and `CallsAreTheirs` of `SchedulerProofs` show this).
Which process runs next is left open.  `p_msg` is a pointer, modelled by whose
buffer it points to, because the kernel reads the sender's memory when the
receiver comes.  The walks over the list are operators over the set of its
nodes (`OnQueue`, `LastOf`, `PrevOf`), and `QueueIntegrity` says the set is the
right one.  The assertions of the code that a state could break are steps to
`stopped = "assert"`.  Left out: INTERRUPT messages, which nothing sends
(`has_int_msg` stays zero from `kernel_main` on).

**Rendezvous** is the contract in the comments of `proc.c`: a queue of senders
per process, served in order unless the receiver names one.  **IpcRefinement**
reads each linked list from its head as a sequence (`Queue`), which maps `Ipc` to
this contract, and states `Refines`.  It also runs the `while (1)` of
`deadlock()` turn by turn (`DeadlockLoop`): `Ipc` has what the loop computes in
its place, and `DeadlockWalkEnds` says that the loop ends, with that answer.

**SysTask** composes `Ipc` with the program of the system task and of clients
that call `milli_delay`, hence `get_ticks`, hence SEND and then RECEIVE; the
clock ticks between any two steps, and any participant that is not blocked may
take the next one.  `FairSysSpec` adds that each of them does in the end.

**System** takes that freedom away: the step belongs to `p_proc_ready`, a step
that blocks ends in `schedule()`, a tick of the clock charges the process it
interrupts and calls `schedule()` when its ticks are used up.  `task_tty` is there
as what it is for the others, a process of high priority that never blocks.
`TurnsForAll` states that this implements `FairSysSpec`, so the fairness
of `SysTask` is a consequence and not an assumption.  Here `schedule()` is one
step, `Refilled` and then `Chosen`; `Scheduler` is where it is cut up.

**Scheduler.** `frames` is the kernel stack: what entered, and the place its
code has reached.  Each iteration of the two loops of `schedule()` is a step
and an interrupt may come between any two.  `k_reenter`, the masked lines and
the `sti`/`cli` of the entry code are there; the effect of a system call on
`p_flags` is abstracted to block, wake another, or neither.

**KernelEntry** looks at the same code one level down: words on the stack, the
register areas that the TSS points into, what each `ret` and `iretd` pops.
`InterruptSpec` has nested interrupts alone, `Spec` adds system calls.

**StartUp** puts this entry code to work.  `pos` is the next step of `init_8259A`,
`init_prot`, `kernel_main`, `init_clock` and `init_keyboard`; `init_keyboard`
runs first in the kernel with interrupts off, and again as the first thing
`task_tty` does, where every step may be interrupted.  The timer, the keyboard
controller (one byte of output buffer, with the acknowledgements of the LED
commands and what the user types) and a line without a driver act at any time.  The
8259A latches a rising edge until the processor takes it; ICW1 forgets what
is latched; whether reading the byte withdraws a request that is still latched is
left open.  `TakeInterrupt` goes through `idt`, `HandlerEnds` through `irq_table`,
`RestartLoads` through the GDT to the LDT.  Memory and lines start
with anything the loader may leave in them.

**KeyboardBuffer** cuts `get_byte_from_kbuf` and the reset in `init_keyboard`
where an interrupt can fall; `kb_in.count--` is a load and a store.  `Spec`
starts after the reset, `BootSpec` before the second one.  It implements
**ScanQueue**, and **Keyboard** uses ScanQueue as its buffer: the user presses,
repeats and releases keys, the controller delivers bytes, the keyboard
acknowledges LED commands, `Read` is one `get_byte_from_kbuf` with the decoding
that follows.  `due` is a ghost: what was typed and must come out.

**Console** is the loop of `task_tty`: a key of any kind is read for the
current terminal (`PutKey`, `SelectConsole`, `ScrollUp`, `ScrollDown`, `Dump`), then
a character of each terminal's ring in turn is written.  `out_char` and `flush`
are cut at their accesses to shared state; `Printx` is `sys_printx` from a
system call, whole, since the task cannot run during it.  `crtc_cursor` and
`crtc_start` are the addresses last written to the controller, so that a register
whose console has moved on is seen to be stale.  `background` is a history variable:
a print on another console than the current one takes the screen, as `flush` does
not ask which console is current, and keeps it until the task next writes a
character, scrolls or changes the console.  A ring is the sequence of its
characters: one task puts and takes.
**Printx** follows the magic character from `assertion_failure` and
`panic` through `vsprintf` to `sys_printx`.

**Boot.** `stage` tells whose code runs; the search and the load of a file are
the same in both.  A slot of memory holds the number of the disk sector it is a
copy of, so that a read over something else is seen; FAT entries are packed and
unpacked byte by byte.  `ReadFails` is an `int 13h` that leaves part of its
target overwritten and is tried again.  `DispMemInfo` looks at one range of the
memory map per step (`range`), `InitKernel` at one program header (`ph`).

Operators called `X_Something`, next to a definition `X` and introduced as a
mutant of it or a bug to detect, are not part of the models: they are what
"mutants" in `PROJECT.json` puts in the place of `X` to see the property fail.

## 3. Runs

| Run | Instance | Distinct states | Shows |
|---|---|---|---|
| `ipc` | 4 processes, 2 bodies, symmetric | 9,181 | lists, wait graph, assertions, `deadlock()` ends, blocked calls return with what they asked for, `Refines` |
| `system` | `task_tty`, the system task, 2 clients; delay 2, clock to 4 | 92,945 | `NeverStops`, `AnswerIsFresh`, `NoWaitCircle`, `DelayIsLongEnough`, `CallsReturn`, `DelaysEnd`, `TurnsForAll` |
| `scheduler` | 3 processes, 2 lines, 2 ticks inside `schedule()` | 55,807 | `RunsRunnable`, `CallerIsReady`, `ScheduleEnds`, `NoStarvation` |
| `start_up` | 3 processes, 3 lines, 1 key, addresses of 4 bits | 39,264 | `ReturnsToCode`, `OwnRegisters`, `MaskedWhileServed`, `DriversOwnLines`, `OwnMemory`, `KeysAreRead`, `StartsUp` |
| `keyboard_ring` | ring of 3, 2 codes | 1,267 | `RingConsistent`, `IsQueue` |
| `keyboard_decode` | 10 keys, 4 events, ring of 32 | 891,406 | `DecodesInOrder`, `EveryKeyDecoded` |
| `console` | 2 consoles, rings of 2, lines of 2, screen of 4, regions of 11 | 654,028 | `InRegion`, `ScrollEnds`, `ShowsCurrent`, `EchoKeepsUp` |
| `boot` | sectors of 4 bytes, 4 clusters, segments of 3 sectors | 427,584 | `LoaderIntact`, `KernelInPlace`, `StopsForAReason`, `MemoryMapped`, `BootEnds` |
| `kernel_entry_calls`, `keyboard_boot`, `console_race`, `printx_assert` | | | the findings of section 5 |

### Bounds

  - *ipc*: four processes give a list of three senders, so the first, the middle
    and the last can each be taken, and chains of blocked senders of every shape
    `deadlock()` tells apart; two bodies tell messages apart.  All the safety
    results of this run, `Refines` with them, are also proved.
    A panic stops the machine, so deadlock is not checked.
  - *scheduler*: priorities of 3, 2 and 2 give processes that run out together and
    one after another; two lines are enough for every nesting of the clock over
    a call, a handler and both.  `MaxStray` bounds the clock interrupts that land
    inside `schedule()`, see fairness.  Since `ticks` is only compared with
    0, a counter below zero is kept at 0.
  - *system*: the answer to one client can be pending while the other asks, and
    the system task can block in its reply to one and be waited for by the other.
    The tasks have 2 ticks and the clients 1, so that processes run out together and
    one after another; `task_tty` runs first and uses up two ticks, so a delay of 2
    needs a clock to 4 to begin, be polled for too early, and end (with a clock to
    3 none ends and the properties about delays say nothing).
    When the global clock has reached its bound the interrupts go on and still
    schedule.  The safety results of this run are also proved.
  - *start_up*: the clock, the keyboard and a third line nest to depth three, and
    each line occurs at most once in a stack (`MaskedWhileServed`).  One key of
    the user, next to two acknowledgements and the byte that may already be
    there, comes at every step.  With radix 2 the entries of three processes need
    all fields of their descriptors, as 256 does for addresses of 32 bits.
    The safety results are also proved, for every number of lines and processes.
  - *keyboard_ring*: the three slots wrap around with the ring empty, partly
    full and full.  The proofs cover every size.
  - *keyboard_decode*: the keys have codes of one, two, four and six bytes and
    belong to every branch of `keyboard_read`: plain, shifted, with E0, padded
    with and without NumLock (a lock key of the run, lit at the start), the other lock
    keys with LEDs, PrintScreen, Pause.  Four
    events, of at most six bytes with their acknowledgements, cannot overflow
    32 bytes (`EnoughRoom`, proved).  There is one Alt key: with both,
    `DecodesInOrder` fails (section 5).  The user may stop typing: deadlock is not
    checked.  `DecodesInOrder` is also proved.
  - *console*: the region is five lines and a half, as 5461 words are 68 lines
    and 21 words; the screen is smaller than the region by more than a line.
    Both the memory and the screen fill up.  Two consoles are enough for a
    process to print on the current or on the other one, and for a key to be
    typed to one while the other waits.  All four properties are also proved.
  - *boot*: sectors of four bytes make entries of twelve bits straddle them as
    512 does, at odd and at even clusters; files of up to a segment scattered
    in every way; the two directory sectors hold either file or neither; a
    track is smaller than the disk.  `MaxErrors` bounds the failing reads of a good
    sector: with no bound the boot would retry for ever, as it should.  The four
    safety results are also proved, for every geometry and memory map.

### Fairness

  - *scheduler*: the processor executes the kernel, so kernel steps are fair.
    Strong fairness per depth of the stack says that a level of the kernel goes
    on even if it is interrupted again and again, which a clock of 100 Hz and
    handlers of microseconds justify; so does `MaxStray`, by which only finitely
    many clock interrupts fall into `schedule()`.  A clock interrupt comes again
    and again to a process in user mode (the 8253 is never stopped).  No
    fairness for system calls or the keyboard.
  - *system*: a participant that holds the processor again and again takes a step
    in the end, and the clock interrupts again and again.  That each gets
    the processor is not assumed: `TurnsForAll` shows it, and with it the weak
    fairness of `SysTask`'s steps that `CallsReturn` rests on.
  - *start_up*: the start-up code goes on although it is interrupted, interrupts
    that are not masked are taken and their handlers end, the timer ticks, the
    keyboard sends the acknowledgements it owes, and `task_tty` is scheduled again
    and again (`NoStarvation` of `Scheduler`).  The user need not type, and the line
    without a driver may rise or not.
  - *keyboard_decode*: bytes and acknowledgements are delivered (they are
    interrupts), and the terminal task, which never blocks, reads.  The user
    need not do anything.
  - *boot*: one processor, no interrupts: weak fairness of `Next`.

### Assumptions about what is not in the source

The processor pushes and pops what the manual says; a masked line is silent;
the keyboard sends set 1, without the fake shifts that some keyboards put before
arrows, and the byte that acknowledges an LED command never splits a code; the read of
the port in `kb_ack` (`keyboard.c:338`) takes no byte from the interrupt handler, as
interrupts are on and a byte stays readable; the BIOS fails to read a good sector at
most `MaxErrors` times and, with no range to report, sets the carry; usable memory
ends below 4G (`Ranges`, an assumption of `Boot`), where `DispMemInfo`'s addition of
the low halves does not wrap.  A FAT12 volume has fewer clusters
than the numbers from FF0h up, which `GetFATEntry`'s callers take for the end of
a file or a bad cluster.  `KERNEL.BIN` is not longer than a segment, as
`loader2.asm` does not notice when `bx` wraps, and its loaded segments neither
overlap nor reach the copy of the file they are taken from: a linker's layout,
which `InitKernel` does not check.  In `console` no process
prints on the console in use in the middle of an echo (`PolitePrint`); without
that assumption the run `console_race` fails, and so would `ScrollEnds`; it is an
assumption that `TestA` and `TestB`, which print on the first console while the user
types there, do not keep.

## 4. Proofs

`IpcProofs` proves, for every set of processes and of bodies, that `Spec`
implies

  - `TypeCorrect`, `QueuesCorrect` (`QueueIntegrity`), `NoCircle`
    (`SendGraphAcyclic`), `RendezvousMet` (`NoMissedRendezvous`),
    `NoAssertionFails` (`AssertsHold`),
  - the action properties `SendDelivered`, `ReceiveAsked`, `BlockedStays`.

The assumptions are those of `IpcAssumption`: the three special values are not
processes; the results on lists read as sequences add that there are finitely
many processes (`FiniteAssumption`).  The invariants are not inductive.
`QueueIntegrity` says which processes are met when the pointers are followed from
`q_sending`; after an `Unlink` nothing follows about that unless the pointers are
known one by one.  The inductive invariant `IInv` adds `Fields` (which fields go
with which flags: a sender has a destination and its own message and receives from
no one, a runnable process has none of the three) and `Lists`, the shape of the
lists with no mention of their order or length: `Links` (a pointer leads from a
sender to another sender to the same destination, and never back to the first),
`OneBefore` (no process is next of two), `Linked` (every sender is the first or
next of one), and `Ends` and `Begins` (every non-empty set of processes has a
member whose pointer leaves the set, and one that nothing in the set points to: no
rings).  Each of these speaks of pointers one at a time, so that a step which
changes two pointers disturbs it in two places; a definition by a path would need
an induction at every step.
`ListsGiveIntegrity` derives from them that the walk meets every sender, and
`LastExists` and `PrevExists` that the loops of `msg_send` and `msg_receive`
find what they look for.
`SendGraphAcyclic` is kept by
`SendBlocks` because the guard of that action, no circle through the
caller, is what `deadlock()` computes; `NoMissedRendezvous` by
`ReceiveBlocks` because a sender that would fit would be on the list.  One lemma
per action shows `IInv'`; `StepInv` puts them together.

With `FiniteAssumption` the same module proves

  - `ImplementsRendezvous` (`Refines`): each list, read from `q_sending`, is the
    FIFO queue of the contract.  `Readable` adds to `IInv` that some sequence
    follows the pointers and holds each sender once; `QueueIs` shows it to be the
    only one (take the least place where two differ), so that `Queue`'s CHOOSE
    is known.  `QueueJoined` and `QueueLeft` are the core: the two assignments
    at the end of the list append, the two of an unlink remove one place and keep
    the order of the rest, and `OtherLists` says that no other list notices.  One
    lemma per action maps it to the step of `Rendezvous`; `CircleIsDeadlock` shows
    that what the contract calls a circle is what makes `deadlock()` answer yes.
  - `DeadlockLoopEnds` (`DeadlockWalkEnds`): a loop that is still going
    after n turns has met n different senders (`TurnsMeetSenders`: a repeated one
    would be a circle of blocked senders), none of them the caller, which runs.
    So n is less than the number of processes, and `TurnsAnswer` gives
    `deadlock`'s answer for a loop that has ended.

These two do argue by induction over a number of turns or a place in a list: for
one given set of numbers the well-founded order of the naturals gives a least
counterexample (`LeastNatural`), which is how far induction goes without the
library's schemes.

`SystemProofs` proves for every set of clients, every delay and bound on the
clock that `SysSpec` implies `ProtocolNeverStops` (`NeverStops`),
`AnswersAreFresh` (`AnswerIsFresh`), `NobodyWaitsInACircle` (`NoWaitCircle`) and
`DelaysAreLongEnough` (`DelayIsLongEnough`), and that `SystemSpec` implies
`SysSpec` (`SystemImplementsSysTask`), so that they hold of the scheduled
system.  The invariant `SInv` is `IInv` and `Protocol`.  `SendOutcome` and
`ReceiveOutcome` reduce a call to two outcomes, handed over or blocked, given
`IInv`; the rest of the proof speaks of these and never of the lists.
`Protocol` says of each client which flags it can have at each place of its
program and what it sends, and its core is `TaskOK`: a client whose request
was taken and not answered (`Pending`) is exactly the one the system task has
in hand (`InHand`: as the source of the request it is about to serve, as the
address of the reply it is about to send or is blocked in sending).  Without it
an answer could go to another client, or two clients could wait for one answer.
Hence a client's SEND never closes a circle (`NoCircleClosed`): when the system
task is blocked sending, it is to a client whose request is out and who cannot be
sending.  The reply carries a clock value between the start of the client's call
and now (`Fresh`), which a tick preserves and `SysServes` establishes.

`SchedulerProofs` proves `OnlyRunnableRun` (`RunsRunnable`), `CallsAreTheirs`
(`CallerIsReady`) and `KernelNests` (`FramesNest`, with `TypeOK`) for every
number of processes, priorities and lines.  The key facts of `SchedInv` are that
`schedule()` runs only in the outermost frame of the kernel stack
(`SchedulesOutermost`: the clock handler leaves early when `k_reenter # 0`), so
at most one `schedule()` is under way, and that `p_proc_ready` is runnable
at all times but between the step that blocks it and the moment the scan
has found another (`ReadyRunnable`).

`StartUpProofs` begins with `KernelEntry` and proves for `InterruptSpec` `OnlyToCode`, `RegistersAreOwn` and
`ServedAreMasked`, for every number of lines and so every depth.  The
words on the kernel stack come in threes (return address, line, frame of
the interrupted handler), the lowest return address is `restart`, the others
`restart_reenter`; `Control` ties the depth to `k_reenter` at each place control
can be.  System calls are outside this proof, as they break it (finding 1).

Then it proves of `StartUp`, for every table of processes, every size of
stack and every number of lines, `LinesHaveDrivers` (`DriversOwnLines`), `MemoryIsOwn`
(`OwnMemory`) and, with the handlers and masks installed one by one instead of
given, these three results again (`EntryStaysSound`).
`UpInv` has two parts.  `Starting`, before `restart`, says for each place of the
start-up code which tables are filled and that every line without its handler is
masked.  `Started` is `EntryInv` with the tables as they are to stay and
`masked = Lines \cup Off`: what is masked is what is being served or is to stay
off, never both, which is why the second `init_keyboard` may mask its line and
take it back without touching a handler in progress.  `OwnMemory` rests on the
arithmetic of descriptors (`BaseOfDescriptor`: the three fields give the address
back) and on `StackTop`, a sum along the table: tops fall and the stacks between
them cannot meet.

`KeyboardBufferProofs` proves for every size of ring and set of codes that the
fields keep their types, that `p_head` is `count` slots after `p_tail`
(`RingStaysConsistent`), with the one correction between the load and the store of
`count--`, and that the ring implements `ScanQueue` (`RingIsQueue`).  Its
invariant `RingInv` adds that interrupts are off between `disable_int` and
`enable_int`, that the register holds the count, and that the count was positive
on the way in.  The step of the refinement is in `HandlerPuts` and `FetchGets`:
how the contents, a sequence read around the end of the ring, change.

`ConsoleProofs` proves `ConsolesApart` (`InRegion`), `ScrollingEnds`
(`ScrollEnds`), `EchoedAtOnce` (`EchoKeepsUp`) and `CurrentIsShown`
(`ShowsCurrent`) for any number of consoles and any sizes that
`ConsoleAssumption` allows.  `ConsInv` says that every screen starts a
whole number of lines after its region does, and what each step of `out_char`
has found out about the cursor (`StepFacts`), which stays true while nobody else
moves that cursor: this is where `PolitePrint` is used.  `Echo` says that only
the ring of the terminal being visited can hold a character and that its console
is the current one until it has been written.  `UpToDate` says at which steps of
`out_char` and `flush` a register may be behind its console: from the change of the
console's address to the step that passes it on, and at no other.  `CurrentIsShown`
has the exception of a background print in it.  That is what the code does and no weakness
of the proof: `TestC` prints on console 1 for ever, so that the screen jumps there
while another console is in use, and between the two halves of a flush a print
can even leave the cursor of one console with the start address of another.  Both
last until the next echo, scroll or change of console.

`BootProofs` proves of `Boot`, for every floppy, memory map and kernel image that
the assumptions of `Boot` allow, `LoaderRunsWhole` (`LoaderIntact`),
`KernelRunsInPlace` (`KernelInPlace`), `BootStopsForAReason` (`StopsForAReason`) and
`MemoryIsMapped` (`MemoryMapped`).  `BootInv` says what the memory holds at each
place of the code: the entries seen are not the file's (`Seen`); the sectors before
`bx` are the file's, in order, and the two sectors of the FAT that the next entry
lies in are in the buffer below it (`Loading`); no usable range looked at ends above
`memSize` (`Measured`); the segments before `ph` are at their addresses
(`Copying`).  The lemmas are arithmetic: the BIOS reads the sector whose
cylinder, head and sector were computed (`BiosReadsSector`), an entry of 12
bits is found where the packing put it, also across two sectors (`Unpacked`), and
the tables cover `memSize` after the rounding.  The proof showed that "no
ranges" was too narrow a reason for the loader to run away: ranges that are all
reserved or empty leave `memSize` at zero as well, and `StopsForAReason` says so.

`KeyboardProofs` proves of `Keyboard`, for every set of keys, every size of `kb_in`
and every number of events, `DecodedInOrder` (`DecodesInOrder`) and `QuietInStep`:
when no byte is under way `keyboard_read` is not waiting in the middle of a code,
nothing is due, and its flags and locks are those of the keyboard.  The property
speaks of the whole stream between the user and the task, and so does
the invariant.  `KeyInv` says that the bytes in `prefix`, `queue` and `line`, decoded
from the flags and locks as they are, yield what is `due` and end with
`Flags(down)` and `lit`.  Decoding is not a recursive function here: it is a path of
configurations (`At`), each one complete code further than the last (`Step`), and
`KeyInv` says that such a path exists.  A press or a release makes every
configuration longer and adds one at the end (`Sent`); reading a complete code takes the
first one away (`ReadInv`).  Two facts about the keyboard carry it.
No code is the beginning of another (`PartIsMore`, `PartIsNoCode`), so that
`keyboard_read` cuts the stream where the keyboard did (`SameCode`), with
acknowledgements anywhere between codes.  And `keymap` with the flags and locks of
the keyboard gives the key the user meant (`MakeEffect`, `BreakEffect`, `AckEffect`),
which goes through the rows one by one.

Both results have two hypotheses about the behaviour, and without either of
them TLC finds `DecodesInOrder` violated.  `[]Room`: no byte arrives at a full
`kb_in`, where it would be dropped.  `[]OneAlt`: the two Alt keys are not down at
once, as they share `alt_l` (`keyboard.c:186`) and releasing one clears it for the
other.  `EnoughRoom` discharges the first: `InStep` counts the bytes under way and
the acknowledgements owed, at most six for each event, so that a ring of six bytes
per event never overflows, whenever the task reads it; the run is an instance.

Every safety property of the passing runs is proved.  Only model-checked is liveness
(`ScheduleEnds`, `NoStarvation`, `CallsReturn`, `DelaysEnd`, `TurnsForAll`,
`KeysAreRead`, `StartsUp`, `EveryKeyDecoded`, `BootEnds`), which the prover does
not do; of `TurnsForAll` the safety part is proved (`SystemImplementsSysTask`),
and of `EveryKeyDecoded` `QuietInStep` is.

## 5. Findings

1. `kernel_entry_calls`: `sys_call` (`kernel9.asm:342`) pushes `esi`, calls, and
   its `ret` finds the saved `esi` instead of the address `save` left.  The
   first system call returns to nowhere.
2. `keyboard_boot`: `init_keyboard` runs in `kernel_main` and again in
   `task_tty`, there with interrupts on.  A key at the wrong moment leaves the count
   and the pointers apart, for good.
3. `console_race`: `out_char` computes where to write before it moves the cursor
   and uses both later; a process that prints in between makes it write outside
   the console's memory.
4. `printx_assert`: `vsprintf` knows no `%c`, so the magic character that tells
   `sys_printx` to halt is lost, and the assertion of a task, which the comment
   says halts the system, does not.

Seen and not made into runs: `kernel_main` writes `proc_table[NR_TASKS + 3]`,
past its end (`main.c:103`); a right Alt sets the flag of the left one
(`keyboard.c:186`), which `Keyboard` models as it is; `kb_ack` does not wait
(`=!` assigns, `keyboard.c:339`), so acknowledgements are read as codes, which
`Keyboard` shows to be harmless between codes, and writing `!=` instead would hang
the second `init_keyboard`, whose acknowledgement the handler installed by the
first may take (the mutant `KbAck_Waits` of `StartUp`).  When the BIOS sets the
carry flag, `loader2.asm:59` sets the number of ranges to zero, and the loop of
`DispMemInfo`, which the comment at line 617 describes as one that would not start,
tests its counter after the body and runs away; so do the loops of `SetupPaging` when
no range can be used.  `StopsForAReason` admits the "wild" stop of `Boot` in these
two cases only.

Two more are parts of what the consoles' properties say.  `scroll_screen` checks that
the screen ends inside the region and then moves it by a line (`console.c:180`); 5461
words are not a whole number of lines, so a start of 3440 passes and becomes 3520, and
the last line of the screen shows 59 words of the next console, its number and `#`
among them.  `ScreenOvershoot`, a part of `ScrollEnds`, says how far this goes: less
than a line.  And a print on a console takes the screen, current or not
(`console.c:107`), which is the exception in `ShowsCurrent`.

Hazards that no property covers: fake shifts of a
keyboard that sends E0 2A before arrows (`keyboard.c:122`), which the keyboard
modelled does not have; the write past the process table (`main.c:103`), whose
effect the linker chooses.

## 6. Not modelled, and why

INTERRUPT messages (dead code); exceptions (they end in a message and a halt) and
the lines of the slave 8259A (no driver, masked for good); limits and attributes
of descriptors (constants); number formatting, `memcpy`, `memset`, `strcpy` and
the string output of `lib/` (no state of their own, one caller at a time); what is
shown by the dump on F12 beyond its use of the consoles; the older kernels and
loaders; the protected-mode lessons, which are programs of their own.

## 7. Plan

The order was by how much depends on a part and how hard it is to test: message
passing and its contract; scheduler; kernel entry; system task; keyboard ring;
decoding; consoles; assertions; boot; start-up; the system on one processor.  All
of these exist.  What is left:

  - *Model*: `Keyboard` composed with `Console`, so that what was typed is followed
    to the screen; `itoa` and `vsprintf` against a reference; `loader2.asm`'s
    descriptors.
  - *Check*: `StartUp` with system calls, once `sys_call` balances its stack.
  - *Prove*: the two Alt keys together, once `keyboard_read` gives each its own flag.
