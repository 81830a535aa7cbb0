-------------------------- MODULE SchedulerProofs --------------------------
(***************************************************************************)
(* Proofs about module Scheduler, for any number of processes and any      *)
(* priorities: only runnable processes run, and a system call acts for the *)
(* process that made it.  Both need to know how the frames on the kernel   *)
(* stack nest, and at which points of schedule() p_proc_ready is runnable. *)
(***************************************************************************)
EXTENDS Scheduler, TLAPS

(* schedule() runs in the outermost frame only: clock_handler() returns    *)
(* early when it has interrupted the kernel.                               *)
SchedulesOutermost ==
  \A i \in 1 .. Depth : frames[i].pc \in {"scan", "refill"} => i = 1

(* p_proc_ready is runnable except within schedule(), from the moment the  *)
(* caller has been blocked until a runnable process has been found.        *)
Searching == frames[1].pc = "refill" \/ (frames[1].pc = "scan" /\ frames[1].best = 0)
ReadyRunnable == UserMode \/ ~Searching => runnable[p_proc_ready]

SchedInv == TypeOK /\ FramesNest /\ SchedulesOutermost /\ ReadyRunnable /\ CallerIsReady

-----------------------------------------------------------------------------
(* Changing the frame on top changes no other one.                         *)
LEMMA TopChanges ==
  ASSUME NEW s \in Seq(Frame), s # <<>>, NEW g \in Frame,
         NEW t, t = [s EXCEPT ![Len(s)] = g]
  PROVE  /\ t \in Seq(Frame) /\ t # <<>> /\ Len(t) = Len(s)
         /\ t[Len(t)] = g
         /\ \A i \in 1 .. Len(s) : i # Len(s) => t[i] = s[i]
  OBVIOUS

(* The code on top of the stack goes on: what it may not change of its     *)
(* frame for the frames to stay nested.                                    *)
LEMMA GoesOn ==
  ASSUME SchedInv, ~UserMode, NEW g \in Frame,
         frames' = [frames EXCEPT ![Depth] = g],
         g.kind = Top.kind, g.back = Top.back,
         g.pc \in {"scan", "refill"} => Depth = 1,
         UNCHANGED <<k_reenter, masked>>
  PROVE  /\ frames' \in Seq(Frame) /\ frames' # <<>> /\ Depth' = Depth /\ Top' = g
         /\ \A i \in 1 .. Depth : i # Depth => frames'[i] = frames[i]
         /\ FramesNest' /\ SchedulesOutermost'
<1> USE DEF UserMode, Depth, Top
<1>1. /\ frames' \in Seq(Frame) /\ frames' # <<>> /\ Len(frames') = Len(frames)
      /\ frames'[Len(frames')] = g
      /\ \A i \in 1 .. Len(frames) : i # Len(frames) => frames'[i] = frames[i]
  BY TopChanges DEF SchedInv, TypeOK
<1>2. \A i \in 1 .. Len(frames) : /\ frames'[i].kind = frames[i].kind
                                 /\ frames'[i].back = frames[i].back
  BY <1>1
<1>3. FramesNest'
  BY <1>1, <1>2 DEF SchedInv, FramesNest
<1>4. SchedulesOutermost'
  BY <1>1 DEF SchedInv, SchedulesOutermost
<1> QED  BY <1>1, <1>3, <1>4

(* What a step of the kernel finds on top of the stack.                    *)
LEMMA TopTyped ==
  ASSUME SchedInv, ~UserMode
  PROVE  /\ Depth \in Nat /\ Depth >= 1 /\ Top \in Frame
         /\ Top.pc \in {"scan", "refill"} => Depth = 1
         /\ Top.kind = "call" => Depth = 1
         /\ Depth = 1 => Top = frames[1]
<1>1. Depth \in Nat /\ Depth >= 1
  BY DEF SchedInv, TypeOK, UserMode, Depth
<1> QED
  BY <1>1 DEF SchedInv, TypeOK, FramesNest, SchedulesOutermost, Depth, Top

(* The steps of the kernel that leave runnable and p_proc_ready alone, and *)
(* neither start nor go on with a search for a process.                    *)
LEMMA GoesOnReady ==
  ASSUME SchedInv, ~UserMode, ~Searching \/ Depth > 1, NEW g \in Frame,
         frames' = [frames EXCEPT ![Depth] = g],
         g.kind = Top.kind, g.back = Top.back,
         g.pc \notin {"scan", "refill"},
         g.kind = "call" /\ g.pc \in {"enter", "body"} => p_proc_ready = g.proc,
         UNCHANGED <<runnable, p_proc_ready, k_reenter, masked>>,
         ticks' \in [Proc -> Nat], stray' \in Nat
  PROVE  SchedInv'
<1>1. /\ frames' \in Seq(Frame) /\ frames' # <<>> /\ Depth' = Depth /\ Top' = g
      /\ \A i \in 1 .. Depth : i # Depth => frames'[i] = frames[i]
      /\ FramesNest' /\ SchedulesOutermost'
  BY GoesOn
<1>2. TypeOK'
  BY <1>1 DEF SchedInv, TypeOK
<1>3. ReadyRunnable'
  <2>1. CASE Depth = 1
    <3>1. runnable[p_proc_ready]
      BY <2>1 DEF SchedInv, ReadyRunnable
    <3> QED  BY <3>1 DEF ReadyRunnable
  <2>2. CASE Depth > 1
    <3>1. ~UserMode' /\ frames'[1] = frames[1]
      BY <1>1, <2>2, TopTyped DEF UserMode
    <3> QED  BY <3>1 DEF SchedInv, ReadyRunnable, Searching
  <2> QED  BY <2>1, <2>2, TopTyped
<1>4. CallerIsReady'
  BY <1>1 DEF SchedInv, CallerIsReady, UserMode, Depth, Top
<1> QED  BY <1>1, <1>2, <1>3, <1>4 DEF SchedInv

(* The steps of schedule(): the outermost frame, and the only one.         *)
LEMMA Searches ==
  ASSUME SchedInv, ~UserMode, Depth = 1, NEW g \in Frame,
         frames' = [frames EXCEPT ![Depth] = g],
         g.kind = Top.kind, g.back = Top.back,
         g.pc \in {"scan", "refill", "out"},
         \/ g.pc = "refill"
         \/ g.pc = "scan" /\ g.best = 0
         \/ runnable'[p_proc_ready'],
         runnable' \in [Proc -> BOOLEAN], p_proc_ready' \in Proc,
         ticks' \in [Proc -> Nat],
         UNCHANGED <<k_reenter, masked, stray>>
  PROVE  SchedInv'
<1>1. /\ frames' \in Seq(Frame) /\ frames' # <<>> /\ Depth' = Depth /\ Top' = g
      /\ FramesNest' /\ SchedulesOutermost'
  BY GoesOn
<1>2. TypeOK'
  BY <1>1 DEF SchedInv, TypeOK
<1>3. /\ ~UserMode' /\ frames'[1] = g
  BY <1>1 DEF UserMode, Top, Depth
<1>4. ReadyRunnable'
  BY <1>3 DEF ReadyRunnable, Searching
<1>5. CallerIsReady'
  BY <1>1, <1>3 DEF CallerIsReady
<1> QED  BY <1>1, <1>2, <1>4, <1>5 DEF SchedInv

-----------------------------------------------------------------------------
LEMMA InitSched == Init => SchedInv
BY SchedulerAssumption
   DEF Init, SchedInv, TypeOK, FramesNest, SchedulesOutermost, ReadyRunnable,
       Searching, CallerIsReady, UserMode, Depth, Proc

(* An entry, by an interrupt or by a system call, starts a frame on top of *)
(* the others.                                                             *)
LEMMA EntrySched ==
  ASSUME SchedInv, NEW kind \in IRQ \cup {"call"}, Save(kind),
         \/ kind \in IRQ \ masked /\ masked' = masked \cup {kind}
         \/ kind = "call" /\ UserMode /\ masked' = masked,
         stray' \in Nat, UNCHANGED <<runnable, ticks, p_proc_ready>>
  PROVE  SchedInv'
<1> DEFINE g == [kind |-> kind, proc |-> p_proc_ready,
                 back |-> IF k_reenter + 1 = 0 THEN "restart" ELSE "restart_reenter",
                 pc   |-> "enter", p |-> 1, best |-> 0]
<1>1. g \in Frame /\ g.pc = "enter" /\ g.kind = kind /\ g.proc = p_proc_ready
      /\ (g.back = "restart" <=> k_reenter = -1)
  BY SchedulerAssumption DEF SchedInv, TypeOK, Frame, Proc
<1>2. frames' = Append(frames, g) /\ k_reenter' = k_reenter + 1
  BY DEF Save
<1> HIDE DEF g
<1>3. /\ frames' \in Seq(Frame) /\ Depth' = Depth + 1 /\ Depth \in Nat
      /\ frames'[Depth + 1] = g
      /\ \A i \in 1 .. Depth : frames'[i] = frames[i]
  BY <1>1, <1>2 DEF SchedInv, TypeOK, Depth
<1>4. TypeOK'
  BY <1>2, <1>3 DEF SchedInv, TypeOK
<1>5. "call" \notin IRQ /\ (UserMode => Depth = 0)
  BY DEF IRQ, UserMode, Depth
<1>6. FramesNest'
  <2>1. k_reenter = Depth - 1
    BY DEF SchedInv, FramesNest
  <2>2. \A i \in 1 .. Depth : frames'[i].kind # kind
    BY <1>3, <1>5 DEF SchedInv, FramesNest
  <2>3. ASSUME NEW i \in 1 .. Depth'
        PROVE  /\ frames'[i].back = "restart" <=> i = 1
               /\ frames'[i].kind = "call" => i = 1
               /\ frames'[i].kind \in masked' \cup {"call"}
    BY <1>1, <1>3, <1>5, <2>1 DEF SchedInv, FramesNest
  <2>4. ASSUME NEW i \in 1 .. Depth', NEW j \in 1 .. Depth',
               frames'[i].kind = frames'[j].kind
        PROVE  i = j
    BY <1>1, <1>3, <2>2, <2>4 DEF SchedInv, FramesNest
  <2>5. k_reenter' = Depth' - 1
    BY <1>2, <1>3, <2>1
  <2> QED  BY <2>3, <2>4, <2>5 DEF FramesNest
<1>7. SchedulesOutermost'
  BY <1>1, <1>3 DEF SchedInv, SchedulesOutermost
<1>8. ReadyRunnable'
  <2>1. CASE Depth = 0
    BY <1>1, <1>3, <2>1 DEF SchedInv, TypeOK, ReadyRunnable, Searching, UserMode, Depth
  <2>2. CASE Depth # 0
    BY <1>3, <2>2 DEF SchedInv, TypeOK, ReadyRunnable, Searching, UserMode, Depth
  <2> QED  BY <2>1, <2>2
<1>9. CallerIsReady'
  BY <1>1, <1>3 DEF SchedInv, CallerIsReady
<1> QED  BY <1>4, <1>6, <1>7, <1>8, <1>9 DEF SchedInv

(* Leaving through restart, or popping one frame.                          *)
LEMMA ReturnSched == SchedInv /\ Return => SchedInv'
<1> SUFFICES ASSUME SchedInv, Return PROVE SchedInv'  OBVIOUS
<1>1. /\ Depth \in Nat /\ Depth >= 1 /\ Top = frames[Depth] /\ Top.pc = "out"
      /\ (Top.back = "restart" <=> Depth = 1)
  BY TopTyped DEF SchedInv, FramesNest, Return, Top, Depth
<1>2. CASE Depth = 1
  <2>1. frames' = <<>> /\ Depth' = 0 /\ UserMode'
    BY <1>1, <1>2 DEF Return, Depth, UserMode
  <2>2. runnable[p_proc_ready]
    BY <1>1, <1>2 DEF SchedInv, ReadyRunnable, Searching
  <2> QED
    BY <1>2, <2>1, <2>2 DEF Return, SchedInv, TypeOK, FramesNest, SchedulesOutermost,
                            ReadyRunnable, CallerIsReady
<1>3. CASE Depth > 1
  <2>1. /\ frames' \in Seq(Frame) /\ Depth' = Depth - 1
        /\ \A i \in 1 .. Depth - 1 : frames'[i] = frames[i]
    <3>1. frames' = SubSeq(frames, 1, Depth - 1)
      BY <1>1, <1>3 DEF Return
    <3> QED  BY <1>1, <1>3, <3>1 DEF SchedInv, TypeOK, Depth
  <2>2. TypeOK'
    BY <2>1 DEF Return, SchedInv, TypeOK
  <2>3. FramesNest'
    <3>1. ASSUME NEW i \in 1 .. Depth'
          PROVE  frames'[i].kind \in masked' \cup {"call"}
      <4>1. i \in 1 .. Depth /\ i # Depth /\ frames'[i] = frames[i]
        BY <1>1, <2>1
      <4> QED  BY <1>1, <4>1 DEF Return, SchedInv, FramesNest
    <3>2. k_reenter' = Depth' - 1
      BY <1>1, <2>1 DEF Return, SchedInv, FramesNest
    <3> QED
      BY <1>1, <2>1, <3>1, <3>2 DEF SchedInv, FramesNest
  <2>4. SchedulesOutermost'
    BY <1>1, <2>1 DEF SchedInv, SchedulesOutermost
  <2>5. ReadyRunnable'
    <3>1. ~UserMode /\ ~UserMode' /\ frames'[1] = frames[1]
      BY <1>1, <1>3, <2>1 DEF UserMode, Depth
    <3> QED  BY <3>1 DEF Return, SchedInv, ReadyRunnable, Searching
  <2>6. CallerIsReady'
    BY <1>1, <2>1 DEF Return, SchedInv, CallerIsReady
  <2> QED  BY <2>2, <2>3, <2>4, <2>5, <2>6 DEF SchedInv
<1> QED  BY <1>1, <1>2, <1>3
(* The steps of the code between `sti' and `cli'.                          *)
LEMMA HandlerSched ==
  ASSUME SchedInv, KeyboardHandler \/ ClockCount \/ ReadCaller \/ OtherCall
  PROVE  SchedInv'
<1>1. ~UserMode /\ Top.pc \in {"enter", "body"} /\ Top \in Frame /\ Depth \in Nat /\ Depth >= 1
  BY TopTyped DEF KeyboardHandler, ClockCount, ReadCaller, OtherCall, At
<1>2. ~Searching \/ Depth > 1
  BY <1>1, TopTyped DEF Searching
<1>3. CASE KeyboardHandler \/ ClockCount \/ OtherCall
  <2>1. PICK pc \in {"test", "out"} : frames' = [frames EXCEPT ![Depth].pc = pc]
    BY <1>3 DEF KeyboardHandler, ClockCount, OtherCall, Goto
  <2> DEFINE h == [Top EXCEPT !.pc = pc]
  <2>2. frames' = [frames EXCEPT ![Depth] = h]
    BY <2>1 DEF Top, Depth
  <2>3. h \in Frame /\ h.kind = Top.kind /\ h.back = Top.back /\ h.pc = pc
    BY <1>1 DEF Frame
  <2>4. ticks' \in [Proc -> Nat] /\ stray' \in Nat
    BY <1>3 DEF SchedInv, TypeOK, KeyboardHandler, ClockCount, OtherCall, Charged
  <2>5. UNCHANGED <<runnable, p_proc_ready, k_reenter, masked>>
    BY <1>3 DEF KeyboardHandler, ClockCount, OtherCall
  <2> HIDE DEF h
  <2> QED  BY <1>1, <1>2, <2>2, <2>3, <2>4, <2>5, GoesOnReady
<1>4. CASE ReadCaller
  <2> DEFINE h == [Top EXCEPT !.proc = p_proc_ready, !.pc = "body"]
  <2>1. frames' = [frames EXCEPT ![Depth] = h]
    BY <1>4 DEF ReadCaller, Top, Depth
  <2>2. /\ h \in Frame /\ h.kind = Top.kind /\ h.back = Top.back /\ h.pc = "body"
        /\ h.proc = p_proc_ready
    BY <1>1 DEF Frame, SchedInv, TypeOK
  <2>3. ticks' \in [Proc -> Nat] /\ stray' \in Nat
        /\ UNCHANGED <<runnable, p_proc_ready, k_reenter, masked>>
    BY <1>4 DEF SchedInv, TypeOK, ReadCaller
  <2> HIDE DEF h
  <2> QED  BY <1>1, <1>2, <2>1, <2>2, <2>3, GoesOnReady
<1> QED  BY <1>3, <1>4
(* clock_handler() returns early in a nested interrupt, so it searches in  *)
(* the outermost frame only.                                               *)
LEMMA ClockTestSched == SchedInv /\ ClockTest => SchedInv'
<1> SUFFICES ASSUME SchedInv, ClockTest PROVE SchedInv'  OBVIOUS
<1>1. ~UserMode /\ Top.pc = "test" /\ Top.kind = "clock" /\ Top \in Frame
      /\ Depth \in Nat /\ Depth >= 1
  BY TopTyped DEF ClockTest, At
<1>2. UNCHANGED <<runnable, ticks, p_proc_ready, k_reenter, masked, stray>>
  BY DEF ClockTest
<1>3. /\ ticks' \in [Proc -> Nat] /\ stray' \in Nat
      /\ runnable' \in [Proc -> BOOLEAN] /\ p_proc_ready' \in Proc
  BY <1>2 DEF SchedInv, TypeOK
<1>4. CASE Goto("out")
  <2> DEFINE h == [Top EXCEPT !.pc = "out"]
  <2>1. frames' = [frames EXCEPT ![Depth] = h]
    BY <1>4 DEF Goto, Top, Depth
  <2>2. h \in Frame /\ h.kind = Top.kind /\ h.back = Top.back /\ h.pc = "out"
    BY <1>1 DEF Frame
  <2>3. ~Searching \/ Depth > 1
    BY <1>1, TopTyped DEF Searching
  <2> HIDE DEF h
  <2> QED  BY <1>1, <1>2, <1>3, <2>1, <2>2, <2>3, GoesOnReady
<1>5. CASE k_reenter = 0 /\ GotoSchedule
  <2> DEFINE h == [Top EXCEPT !.pc = "scan", !.p = 1, !.best = 0]
  <2>1. frames' = [frames EXCEPT ![Depth] = h]
    BY <1>5 DEF GotoSchedule, Top, Depth
  <2>2. h \in Frame /\ h.kind = Top.kind /\ h.back = Top.back /\ h.pc = "scan" /\ h.best = 0
    <3>1. 1 \in 1 .. N + 1
      BY SchedulerAssumption
    <3> QED  BY <1>1, <3>1 DEF Frame
  <2>3. Depth = 1
    BY <1>1, <1>5 DEF SchedInv, FramesNest
  <2> HIDE DEF h
  <2> QED  BY <1>1, <1>2, <1>3, <2>1, <2>2, <2>3, Searches
<1> QED  BY <1>4, <1>5 DEF ClockTest

(* A call that blocks its caller starts a search in the same step.         *)
LEMMA CallSched == SchedInv /\ (BlockCaller \/ UnblockPartner) => SchedInv'
<1> SUFFICES ASSUME SchedInv, BlockCaller \/ UnblockPartner PROVE SchedInv'  OBVIOUS
<1>1. ~UserMode /\ Top.pc = "body" /\ Top.kind = "call" /\ Top \in Frame /\ Depth = 1
  BY TopTyped DEF BlockCaller, UnblockPartner, At
<1>2. UNCHANGED <<ticks, p_proc_ready, k_reenter, masked, stray>>
  BY DEF BlockCaller, UnblockPartner
<1>3. /\ ticks' \in [Proc -> Nat] /\ p_proc_ready' \in Proc
      /\ runnable' \in [Proc -> BOOLEAN]
  BY <1>2 DEF SchedInv, TypeOK, BlockCaller, UnblockPartner
<1>4. CASE BlockCaller
  <2> DEFINE h == [Top EXCEPT !.pc = "scan", !.p = 1, !.best = 0]
  <2>1. frames' = [frames EXCEPT ![Depth] = h]
    BY <1>4 DEF BlockCaller, GotoSchedule, Top, Depth
  <2>2. h \in Frame /\ h.kind = Top.kind /\ h.back = Top.back /\ h.pc = "scan" /\ h.best = 0
    <3>1. 1 \in 1 .. N + 1
      BY SchedulerAssumption
    <3> QED  BY <1>1, <3>1 DEF Frame
  <2> HIDE DEF h
  <2> QED  BY <1>1, <1>2, <1>3, <2>1, <2>2, Searches
<1>5. CASE UnblockPartner
  <2> DEFINE h == [Top EXCEPT !.pc = "out"]
  <2>1. frames' = [frames EXCEPT ![Depth] = h]
    BY <1>5 DEF UnblockPartner, Goto, Top, Depth
  <2>2. h \in Frame /\ h.kind = Top.kind /\ h.back = Top.back /\ h.pc = "out"
    BY <1>1 DEF Frame
  <2>3. runnable'[p_proc_ready']
    <3>1. runnable[p_proc_ready]
      BY <1>1, TopTyped DEF SchedInv, ReadyRunnable, Searching
    <3>2. PICK q \in Proc : runnable' = [runnable EXCEPT ![q] = TRUE]
      BY <1>5 DEF UnblockPartner
    <3> QED  BY <1>2, <3>1, <3>2 DEF SchedInv, TypeOK
  <2> HIDE DEF h
  <2> QED  BY <1>1, <1>2, <1>3, <2>1, <2>2, <2>3, Searches
<1> QED  BY <1>4, <1>5

(* schedule() leaves its loops only with a runnable process.               *)
LEMMA ScheduleSched == SchedInv /\ Schedule => SchedInv'
<1> SUFFICES ASSUME SchedInv, Schedule PROVE SchedInv'  OBVIOUS
<1>1. ~UserMode /\ Top.pc \in {"scan", "refill"} /\ Top \in Frame /\ Depth = 1
      /\ Top = frames[1]
  BY TopTyped DEF Schedule, Scan, ScanEnds, Refill, RefillEnds
<1>2. UNCHANGED <<runnable, k_reenter, masked, stray>>
  BY DEF Schedule, Scan, ScanEnds, Refill, RefillEnds
<1>3. Top.p \in 1 .. N + 1 /\ Top.best \in Nat /\ N \in Nat /\ 1 \in 1 .. N + 1
  BY <1>1, SchedulerAssumption DEF Frame
<1>4. Top.pc = "scan" /\ Top.best # 0 => runnable[p_proc_ready]
  BY <1>1 DEF SchedInv, ReadyRunnable, Searching
<1>5. runnable' \in [Proc -> BOOLEAN] /\ ticks \in [Proc -> Nat] /\ p_proc_ready \in Proc
  BY <1>2 DEF SchedInv, TypeOK
<1>6. CASE Scan
  <2>1. Top.pc = "scan" /\ Top.p \in Proc /\ Top.p + 1 \in 1 .. N + 1 /\ ticks' = ticks
    BY <1>3, <1>6 DEF Scan, Proc
  <2>2. CASE runnable[Top.p] /\ ticks[Top.p] > Top.best
    <3> DEFINE h == [Top EXCEPT !.best = ticks[Top.p], !.p = Top.p + 1]
    <3>1. frames' = [frames EXCEPT ![Depth] = h] /\ p_proc_ready' = Top.p
      BY <1>6, <2>2 DEF Scan, Top, Depth
    <3>2. h \in Frame /\ h.kind = Top.kind /\ h.back = Top.back /\ h.pc = "scan"
      BY <1>1, <1>5, <2>1 DEF Frame
    <3>3. runnable'[p_proc_ready']
      BY <1>2, <2>2, <3>1
    <3> HIDE DEF h
    <3> QED  BY <1>1, <1>2, <1>5, <2>1, <3>1, <3>2, <3>3, Searches
  <2>3. CASE ~(runnable[Top.p] /\ ticks[Top.p] > Top.best)
    <3> DEFINE h == [Top EXCEPT !.p = Top.p + 1]
    <3>1. frames' = [frames EXCEPT ![Depth] = h] /\ p_proc_ready' = p_proc_ready
      BY <1>6, <2>3 DEF Scan, Top, Depth
    <3>2. h \in Frame /\ h.kind = Top.kind /\ h.back = Top.back /\ h.pc = "scan"
          /\ h.best = Top.best
      BY <1>1, <2>1 DEF Frame
    <3>3. h.best = 0 \/ runnable'[p_proc_ready']
      BY <1>2, <1>4, <2>1, <3>1, <3>2
    <3> HIDE DEF h
    <3> QED  BY <1>1, <1>2, <1>5, <2>1, <3>1, <3>2, <3>3, Searches
  <2> QED  BY <2>2, <2>3
<1>7. CASE ScanEnds
  <2>1. Top.pc = "scan" /\ UNCHANGED <<ticks, p_proc_ready>>
    BY <1>7 DEF ScanEnds
  <2>2. CASE Top.best # 0
    <3> DEFINE h == [Top EXCEPT !.pc = "out"]
    <3>1. frames' = [frames EXCEPT ![Depth] = h]
      BY <1>7, <2>2 DEF ScanEnds, Goto, Top, Depth
    <3>2. h \in Frame /\ h.kind = Top.kind /\ h.back = Top.back /\ h.pc = "out"
      BY <1>1 DEF Frame
    <3> HIDE DEF h
    <3> QED  BY <1>1, <1>2, <1>4, <1>5, <2>1, <2>2, <3>1, <3>2, Searches
  <2>3. CASE Top.best = 0
    <3> DEFINE h == [Top EXCEPT !.pc = "refill", !.p = 1]
    <3>1. frames' = [frames EXCEPT ![Depth] = h]
      BY <1>7, <2>3 DEF ScanEnds, Top, Depth
    <3>2. h \in Frame /\ h.kind = Top.kind /\ h.back = Top.back /\ h.pc = "refill"
      BY <1>1, <1>3 DEF Frame
    <3> HIDE DEF h
    <3> QED  BY <1>1, <1>2, <1>5, <2>1, <3>1, <3>2, Searches
  <2> QED  BY <2>2, <2>3
<1>8. CASE Refill
  <2> DEFINE h == [Top EXCEPT !.p = Top.p + 1]
  <2>1. Top.pc = "refill" /\ Top.p + 1 \in 1 .. N + 1 /\ p_proc_ready' = p_proc_ready
    BY <1>3, <1>8 DEF Refill, Proc
  <2>2. frames' = [frames EXCEPT ![Depth] = h]
    BY <1>8 DEF Refill, Top, Depth
  <2>3. h \in Frame /\ h.kind = Top.kind /\ h.back = Top.back /\ h.pc = "refill"
    BY <1>1, <2>1 DEF Frame
  <2>4. ticks' \in [Proc -> Nat]
    BY <1>5, <1>8, SchedulerAssumption DEF Refill
  <2> HIDE DEF h
  <2> QED  BY <1>1, <1>2, <1>5, <2>1, <2>2, <2>3, <2>4, Searches
<1>9. CASE RefillEnds
  <2> DEFINE h == [Top EXCEPT !.pc = "scan", !.p = 1, !.best = 0]
  <2>1. frames' = [frames EXCEPT ![Depth] = h] /\ UNCHANGED <<ticks, p_proc_ready>>
    BY <1>9 DEF RefillEnds, GotoSchedule, Top, Depth
  <2>2. h \in Frame /\ h.kind = Top.kind /\ h.back = Top.back /\ h.pc = "scan" /\ h.best = 0
    BY <1>1, <1>3 DEF Frame
  <2> HIDE DEF h
  <2> QED  BY <1>1, <1>2, <1>5, <2>1, <2>2, Searches
<1> QED  BY <1>6, <1>7, <1>8, <1>9 DEF Schedule

(* An interrupt, or a system call of the process that runs.                *)
LEMMA EntersSched == SchedInv /\ (SysCall \/ \E irq \in IRQ : Interrupt(irq)) => SchedInv'
<1>1. ASSUME SchedInv, NEW irq \in IRQ, Interrupt(irq) PROVE SchedInv'
  <2>1. irq \in IRQ \ masked /\ Save(irq) /\ masked' = masked \cup {irq}
        /\ UNCHANGED <<runnable, ticks, p_proc_ready>>
    BY <1>1 DEF Interrupt
  <2>2. stray' \in Nat
    BY <1>1 DEF Interrupt, SchedInv, TypeOK
  <2> QED  BY <1>1, <2>1, <2>2, EntrySched
<1>2. ASSUME SchedInv, SysCall PROVE SchedInv'
  <2>1. stray' \in Nat
    BY <1>2 DEF SysCall, SchedInv, TypeOK
  <2> QED  BY <1>2, <2>1, EntrySched DEF SysCall
<1> QED  BY <1>1, <1>2

LEMMA StepSched == SchedInv /\ [Next]_vars => SchedInv'
<1>1. SchedInv /\ UNCHANGED vars => SchedInv'
  BY DEF vars, SchedInv, TypeOK, FramesNest, SchedulesOutermost, ReadyRunnable,
         Searching, CallerIsReady, UserMode, Depth
<1> QED
  BY <1>1, EntersSched, HandlerSched, ClockTestSched, CallSched, ScheduleSched,
     ReturnSched DEF Next, KernelStep
-----------------------------------------------------------------------------
THEOREM SchedulerInvariant == Spec => []SchedInv
BY InitSched, StepSched, PTL DEF Spec

(* Only a process with p_flags = 0 ever runs, for any number of processes, *)
(* any priorities and any depth of nested interrupts.                      *)
THEOREM OnlyRunnableRun == Spec => []RunsRunnable
<1>1. SchedInv => RunsRunnable
  BY DEF SchedInv, ReadyRunnable, RunsRunnable
<1> QED  BY <1>1, SchedulerInvariant, PTL

(* sys_call passes on the entry of the process that made the call, although *)
(* it reads p_proc_ready with interrupts enabled.                          *)
THEOREM CallsAreTheirs == Spec => []CallerIsReady
<1>1. SchedInv => CallerIsReady
  BY DEF SchedInv
<1> QED  BY <1>1, SchedulerInvariant, PTL

(* The kernel is left as often as it is entered, through restart exactly   *)
(* once, and no handler is entered while it runs.                          *)
THEOREM KernelNests == Spec => []FramesNest
<1>1. SchedInv => FramesNest
  BY DEF SchedInv
<1> QED  BY <1>1, SchedulerInvariant, PTL
=============================================================================
