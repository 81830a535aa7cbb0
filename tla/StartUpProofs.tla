--------------------------- MODULE StartUpProofs ---------------------------
(***************************************************************************)
(* Proofs about the entry code, for any number of processes and of lines.  *)
(*                                                                         *)
(* Module KernelEntry with hardware interrupts alone, hence with handlers  *)
(* nested to any depth: control only goes to addresses the entry code      *)
(* pushed, a process's registers stay in its own entry, and a line is      *)
(* masked as long as its handler is in progress.                           *)
(*                                                                         *)
(* Module StartUp, which puts that code to work, whatever the devices do   *)
(* at whatever moment: the same still holds; once interrupts can be taken  *)
(* each is answered by the driver of its line, and the process that runs   *)
(* has its own LDT and its own part of task_stack.  What is added to       *)
(* EntryInv is the mask, the tables and the code that fills them.          *)
(***************************************************************************)
EXTENDS StartUp, FiniteSetTheorems, WellFoundedInduction, TLAPS

Word == {Frame(c) : c \in Contexts} \cup {Ret(l) : l \in Labels} \cup {Arg(i) : i \in IRQs}

TypeOK == /\ k_reenter \in Int /\ stack \in Seq(Word)
          /\ esp0 \in Procs /\ p_proc_ready \in Procs /\ masked \subseteq IRQs

\* The words on the kernel stack come in threes: the return address that save
\* left, the line served, and the frame of its handler when that has been
\* interrupted itself.  Only the first goes back through restart.
Back(m) == IF m = 0 THEN Label("restart") ELSE Label("restart_reenter")
Triple(s, m) ==
  /\ 3 * m + 1 <= Len(s) => s[3 * m + 1] = Ret(Back(m))
  /\ 3 * m + 2 <= Len(s) => \E i \in IRQs : s[3 * m + 2] = Arg(i)
  /\ 3 * m + 3 <= Len(s) => s[3 * m + 3] = Frame(Handler(s[3 * m + 2].val))
Nested(s) == \A m \in Nat : Triple(s, m)

\* What is on the stack, wherever control is.
InUser    == cpu = User(esp0) /\ k_reenter = -1 /\ stack = <<>>
InHandler == \E i \in IRQs :
               /\ cpu = Handler(i) /\ k_reenter \in Nat
               /\ Len(stack) = 3 * k_reenter + 2 /\ Nested(stack)
               /\ stack[Len(stack)] = Arg(i)
AtRestart == cpu = Label("restart") /\ k_reenter = 0 /\ stack = <<>>
AtReenter == /\ cpu = Label("restart_reenter")
             /\ \/ k_reenter = 0 /\ stack = <<Frame(User(esp0))>>
                \/ k_reenter \in Nat \ {0} /\ Len(stack) = 3 * k_reenter /\ Nested(stack)
Control   == InUser \/ InHandler \/ AtRestart \/ AtReenter

\* The lines on the stack: each once, masked, and counted by k_reenter.
LinesServed ==
  /\ \A m, n \in InProgress : stack[m].val = stack[n].val => m = n
  /\ \A n \in InProgress : stack[n].val \in masked
  /\ IsFiniteSet(InProgress)
  /\ Cardinality(InProgress) = IF Running THEN k_reenter + 1 ELSE k_reenter

Lines == {stack[n].val : n \in InProgress}

EntryInv == /\ TypeOK /\ Control /\ LinesServed
            /\ regs = [p \in Procs |-> Frame(User(p))]
-----------------------------------------------------------------------------
\* An interrupt of a handler: its frame, the return address, the new line.
LEMMA PushNested ==
  ASSUME NEW s \in Seq(Word), NEW k \in Nat, NEW i \in IRQs, NEW j \in IRQs,
         Nested(s), Len(s) = 3 * k + 2, s[3 * k + 2] = Arg(i),
         NEW t, t = Append(Append(s, Frame(Handler(i))), Ret(Label("restart_reenter")))
                      \o <<Arg(j)>>
  PROVE  /\ t \in Seq(Word) /\ Len(t) = 3 * (k + 1) + 2 /\ t[Len(t)] = Arg(j)
         /\ t[Len(s) + 1].word = "frame" /\ t[Len(s) + 2].word = "ret"
         /\ \A n \in 1..Len(s) : t[n] = s[n]
         /\ Nested(t)
<1>1. Frame(Handler(i)) \in Word /\ Ret(Label("restart_reenter")) \in Word /\ Arg(j) \in Word
  BY DEF Word, Contexts, Labels
<1>2. /\ t \in Seq(Word) /\ Len(t) = 3 * k + 5
      /\ t[3 * k + 3] = Frame(Handler(i)) /\ t[3 * k + 4] = Ret(Label("restart_reenter"))
      /\ t[3 * k + 5] = Arg(j)
      /\ \A n \in 1..Len(s) : t[n] = s[n]
  <2> HIDE DEF Frame, Ret, Arg, Handler, Label
  <2> QED  BY <1>1
<1>3. Nested(t)
  <2> SUFFICES ASSUME NEW m \in Nat PROVE Triple(t, m)
    BY DEF Nested
  <2>0. Len(t) \in Nat /\ Len(s) \in Nat
    BY <1>2
  <2>1. CASE m < k
    <3>1. 3 * m + 3 <= Len(s) /\ 3 * m + 1 \in 1..Len(s) /\ 3 * m + 2 \in 1..Len(s)
          /\ 3 * m + 3 \in 1..Len(s) /\ 3 * m + 1 <= Len(s) /\ 3 * m + 2 <= Len(s)
      BY <2>1
    <3>2. Triple(s, m)
      BY DEF Nested
    <3>3. /\ t[3 * m + 1] = s[3 * m + 1] /\ t[3 * m + 2] = s[3 * m + 2]
          /\ t[3 * m + 3] = s[3 * m + 3]
      BY <1>2, <3>1
    <3> QED  BY <3>1, <3>2, <3>3 DEF Triple
  <2>2. CASE m = k
    <3>1. 3 * k + 1 \in 1..Len(s) /\ 3 * k + 2 \in 1..Len(s) /\ 3 * k + 1 <= Len(s)
      OBVIOUS
    <3>2. Triple(s, k)
      BY DEF Nested
    <3>3. t[3 * k + 1] = Ret(Back(k)) /\ t[3 * k + 2] = Arg(i)
      BY <1>2, <3>1, <3>2 DEF Triple
    <3>4. t[3 * k + 2].val = i
      BY <3>3 DEF Arg
    <3> QED  BY <1>2, <2>2, <3>3, <3>4 DEF Triple
  <2>3. CASE m = k + 1
    <3>1. 3 * m + 1 = 3 * k + 4 /\ 3 * m + 2 = 3 * k + 5 /\ ~(3 * m + 3 <= Len(t))
      BY <1>2, <2>3
    <3>2. Back(m) = Label("restart_reenter")
      BY <2>3 DEF Back
    <3> QED  BY <1>2, <3>1, <3>2 DEF Triple
  <2>4. CASE m > k + 1
    <3>1. ~(3 * m + 1 <= Len(t)) /\ ~(3 * m + 2 <= Len(t)) /\ ~(3 * m + 3 <= Len(t))
      BY <1>2, <2>4
    <3> QED  BY <3>1 DEF Triple
  <2> QED  BY <2>1, <2>2, <2>3, <2>4
<1>4. t[Len(s) + 1].word = "frame" /\ t[Len(s) + 2].word = "ret"
  <2>1. Len(s) + 1 = 3 * k + 3 /\ Len(s) + 2 = 3 * k + 4
    OBVIOUS
  <2>2. t[Len(s) + 1] = Frame(Handler(i)) /\ t[Len(s) + 2] = Ret(Label("restart_reenter"))
    BY <1>2, <2>1
  <2>3. Frame(Handler(i)).word = "frame" /\ Ret(Label("restart_reenter")).word = "ret"
    BY DEF Frame, Ret
  <2> QED  BY <2>2, <2>3
<1>5. Len(t) = 3 * (k + 1) + 2 /\ t[Len(t)] = Arg(j)
  BY <1>2
<1> QED  BY <1>2, <1>3, <1>4, <1>5

\* What is left after the words on top are popped.
LEMMA PopNested ==
  ASSUME NEW s \in Seq(Word), Nested(s), NEW n \in 0..Len(s), NEW t, t = SubSeq(s, 1, n)
  PROVE  t \in Seq(Word) /\ Len(t) = n /\ Nested(t) /\ \A l \in 1..n : t[l] = s[l]
<1>1. t \in Seq(Word) /\ Len(t) = n /\ \A l \in 1..n : t[l] = s[l]
  OBVIOUS
<1>2. ASSUME NEW m \in Nat PROVE Triple(t, m)
  <2>1. 3 * m + 1 <= n => 3 * m + 1 \in 1..n /\ 3 * m + 1 <= Len(s)
    OBVIOUS
  <2>2. 3 * m + 2 <= n => 3 * m + 2 \in 1..n /\ 3 * m + 2 <= Len(s)
    OBVIOUS
  <2>3. 3 * m + 3 <= n => 3 * m + 3 \in 1..n /\ 3 * m + 2 \in 1..n /\ 3 * m + 3 <= Len(s)
    OBVIOUS
  <2>4. Triple(s, m)
    BY DEF Nested
  <2> QED  BY <1>1, <2>1, <2>2, <2>3, <2>4 DEF Triple
<1> QED  BY <1>1, <1>2 DEF Nested

\* One word popped.
LEMMA PopOne ==
  ASSUME NEW s \in Seq(Word), Nested(s), NEW k \in Nat, Len(s) = k + 1,
         NEW t, t = SubSeq(s, 1, Len(s) - 1)
  PROVE  t \in Seq(Word) /\ Len(t) = k /\ Nested(t) /\ \A l \in 1..k : t[l] = s[l]
<1>1. k \in 0..Len(s) /\ t = SubSeq(s, 1, k)
  OBVIOUS
<1> QED  BY <1>1, PopNested
-----------------------------------------------------------------------------
\* The contexts and the labels are all different.
LEMMA Kinds ==
  /\ \A p \in Procs : User(p) \in Contexts /\ User(p).kind = "proc" /\ User(p).of = p
  /\ \A i \in IRQs : /\ Handler(i) \in Contexts /\ Handler(i).kind = "irq"
                     /\ Handler(i).of = i
  /\ \A l \in {"restart", "restart_reenter"} :
       Label(l) \notin Contexts /\ Label(l).kind = "label" /\ Label(l).of = l
  /\ \A c \in Contexts \cup Labels : c # Nowhere
<1>1. \A p \in Procs : User(p) \in Contexts /\ User(p).kind = "proc" /\ User(p).of = p
  BY DEF Contexts, User
<1>2. \A i \in IRQs : /\ Handler(i) \in Contexts /\ Handler(i).kind = "irq"
                      /\ Handler(i).of = i
  BY DEF Contexts, Handler
<1>3. \A c \in Contexts : c.kind \in {"proc", "irq", "call"}
  BY DEF Contexts, User, Handler, Call
<1>4. \A l \in {"restart", "restart_reenter"} : Label(l).kind = "label" /\ Label(l).of = l
  BY DEF Label
<1>5. \A l \in Labels : l.kind = "label"
  BY DEF Labels, Label
<1>6. Nowhere.kind = "wild"
  BY DEF Nowhere
<1> QED  BY <1>1, <1>2, <1>3, <1>4, <1>5, <1>6

LEMMA Words ==
  /\ \A c : Frame(c).word = "frame" /\ Frame(c).val = c
  /\ \A l : Ret(l).word = "ret" /\ Ret(l).val = l
  /\ \A a : Arg(a).word = "arg" /\ Arg(a).val = a
BY DEF Frame, Ret, Arg

LEMMA InitEntry == Init => EntryInv
<1> SUFFICES ASSUME Init PROVE EntryInv  OBVIOUS
<1>1. TypeOK
  BY EntryAssumption DEF Init, TypeOK
<1>2. Control
  BY DEF Init, Control, AtRestart
<1>3. InProgress = {} /\ ~Running
  <2>1. stack = <<>> /\ cpu = Label("restart")
    BY DEF Init
  <2>2. InProgress = {}
    BY <2>1 DEF InProgress
  <2>3. ~Running
    BY <2>1, Kinds DEF Running
  <2> QED  BY <2>2, <2>3
<1>4. LinesServed
  BY <1>3, FS_EmptySet DEF Init, LinesServed
<1> QED  BY <1>1, <1>2, <1>4 DEF Init, EntryInv

\* An interrupt of a process starts the kernel stack afresh.
LEMMA FirstInterrupt ==
  ASSUME EntryInv, InUser, NEW i \in IRQs, Interrupt(i)
  PROVE  EntryInv' /\ Lines' = Lines \cup {i}
<1>1. FromUser /\ k_reenter = -1 /\ esp0 \in Procs /\ cpu = User(esp0)
  BY Kinds DEF InUser, FromUser, EntryInv, TypeOK
<1>2. /\ k_reenter' = 0 /\ regs' = [regs EXCEPT ![esp0] = Frame(cpu)]
      /\ stack' = <<Ret(Label("restart"))>> \o <<Arg(i)>>
      /\ cpu' = Handler(i) /\ masked' = masked \cup {i}
      /\ UNCHANGED <<esp0, p_proc_ready>>
  <2>1. k_reenter' = 0
    BY <1>1 DEF Interrupt, Save
  <2> QED  BY <1>1, <2>1 DEF Interrupt, Save
<1>3. regs' = [p \in Procs |-> Frame(User(p))]
  BY <1>1, <1>2 DEF EntryInv
<1>4. Ret(Label("restart")) \in Word /\ Arg(i) \in Word
  BY DEF Word, Labels
<1>5. /\ stack' \in Seq(Word) /\ Len(stack') = 2
      /\ stack'[1] = Ret(Label("restart")) /\ stack'[2] = Arg(i)
  <2>1. /\ <<Ret(Label("restart"))>> \in Seq(Word) /\ <<Arg(i)>> \in Seq(Word)
        /\ Len(<<Ret(Label("restart"))>>) = 1 /\ Len(<<Arg(i)>>) = 1
    BY <1>4
  <2> QED  BY <1>2, <2>1
<1>6. TypeOK'
  BY <1>2, <1>5 DEF EntryInv, TypeOK
<1>7. Nested(stack')
  <2> SUFFICES ASSUME NEW m \in Nat PROVE Triple(stack', m)
    BY DEF Nested
  <2>1. CASE m = 0
    BY <1>5, <2>1 DEF Triple, Back
  <2>2. CASE m > 0
    <3>1. ~(3 * m + 1 <= 2) /\ ~(3 * m + 2 <= 2) /\ ~(3 * m + 3 <= 2)
      BY <2>2
    <3> QED  BY <1>5, <3>1 DEF Triple
  <2> QED  BY <2>1, <2>2
<1>8. Control'
  BY <1>2, <1>5, <1>7 DEF Control, InHandler
<1>9. InProgress' = {2} /\ Running' /\ stack'[2].val = i
  BY <1>2, <1>5, Words, Kinds DEF InProgress, Running
<1>10. LinesServed'
  <2>1. IsFiniteSet({2}) /\ Cardinality({2}) = 1
    BY FS_Singleton
  <2>2. IsFiniteSet(InProgress') /\ Cardinality(InProgress') = k_reenter' + 1
    BY <1>2, <1>9, <2>1
  <2>3. \A n \in InProgress' : n = 2 /\ stack'[n].val \in masked'
    BY <1>2, <1>9
  <2> QED  BY <1>9, <2>2, <2>3 DEF LinesServed
<1>11. Lines' = Lines \cup {i}
  <2>1. InProgress = {}
    BY DEF InUser, InProgress
  <2> QED  BY <1>9, <2>1 DEF Lines
<1> QED  BY <1>3, <1>6, <1>8, <1>10, <1>11 DEF EntryInv

\* An interrupt of a handler pushes onto the stack in use.
LEMMA NestedInterrupt ==
  ASSUME EntryInv, InHandler, NEW j \in IRQs, Interrupt(j)
  PROVE  EntryInv' /\ Lines' = Lines \cup {j}
<1>1. PICK i \in IRQs : /\ cpu = Handler(i) /\ k_reenter \in Nat
                        /\ Len(stack) = 3 * k_reenter + 2 /\ Nested(stack)
                        /\ stack[Len(stack)] = Arg(i)
  BY DEF InHandler
<1>2. ~FromUser /\ Running /\ k_reenter + 1 # 0 /\ j \notin masked
  BY <1>1, Kinds DEF FromUser, Running, Interrupt
<1>3. /\ k_reenter' = k_reenter + 1 /\ UNCHANGED <<regs, esp0, p_proc_ready>>
      /\ stack' = Append(Append(stack, Frame(Handler(i))), Ret(Label("restart_reenter")))
                    \o <<Arg(j)>>
      /\ cpu' = Handler(j) /\ masked' = masked \cup {j}
  BY <1>1, <1>2 DEF Interrupt, Save
<1>4. stack \in Seq(Word) /\ stack[3 * k_reenter + 2] = Arg(i)
  BY <1>1 DEF EntryInv, TypeOK
<1>5. /\ stack' \in Seq(Word) /\ Len(stack') = 3 * (k_reenter + 1) + 2
      /\ stack'[Len(stack')] = Arg(j)
      /\ stack'[Len(stack) + 1].word = "frame" /\ stack'[Len(stack) + 2].word = "ret"
      /\ \A n \in 1..Len(stack) : stack'[n] = stack[n]
      /\ Nested(stack')
  <2> DEFINE t == Append(Append(stack, Frame(Handler(i))), Ret(Label("restart_reenter")))
                    \o <<Arg(j)>>
  <2>1. /\ t \in Seq(Word) /\ Len(t) = 3 * (k_reenter + 1) + 2 /\ t[Len(t)] = Arg(j)
        /\ t[Len(stack) + 1].word = "frame" /\ t[Len(stack) + 2].word = "ret"
        /\ \A n \in 1..Len(stack) : t[n] = stack[n]
        /\ Nested(t)
    BY <1>1, <1>4, PushNested
  <2>2. stack' = t
    BY <1>3
  <2> HIDE DEF t
  <2> QED  BY <2>1, <2>2 DEF Nested, Triple
<1>6. TypeOK'
  BY <1>1, <1>3, <1>5 DEF EntryInv, TypeOK
<1>7. Control'
  <2>1. /\ cpu' = Handler(j) /\ k_reenter' \in Nat /\ Len(stack') = 3 * k_reenter' + 2
        /\ Nested(stack') /\ stack'[Len(stack')] = Arg(j)
    BY <1>1, <1>3, <1>5
  <2> QED  BY <2>1 DEF Control, InHandler
<1>8. Len(stack') = Len(stack) + 3 /\ Len(stack) \in Nat
  BY <1>1, <1>5
<1>9. InProgress' = InProgress \cup {Len(stack')} /\ Len(stack') \notin InProgress
      /\ stack'[Len(stack')].val = j
  <2>1. stack'[Len(stack')].word = "arg" /\ stack'[Len(stack')].val = j
    BY <1>5, Words
  <2>2. \A n \in 1..Len(stack') : \/ n \in 1..Len(stack) \/ n = Len(stack) + 1
                                  \/ n = Len(stack) + 2 \/ n = Len(stack')
    BY <1>8
  <2>3. 1..Len(stack) \subseteq 1..Len(stack') /\ Len(stack') \in 1..Len(stack')
        /\ Len(stack') \notin 1..Len(stack)
    BY <1>8
  <2> QED  BY <1>5, <2>1, <2>2, <2>3 DEF InProgress
<1>10. \A n \in InProgress : stack'[n] = stack[n] /\ stack[n].val \in masked
  BY <1>5 DEF EntryInv, LinesServed, InProgress
<1>11. LinesServed'
  <2>1. Running' /\ Cardinality(InProgress) = k_reenter + 1 /\ IsFiniteSet(InProgress)
    BY <1>2, <1>3, Kinds DEF EntryInv, LinesServed, Running
  <2>2. IsFiniteSet(InProgress') /\ Cardinality(InProgress') = k_reenter' + 1
    BY <1>3, <1>9, <2>1, FS_AddElement
  <2>3. \A m, n \in InProgress' : stack'[m].val = stack'[n].val => m = n
    BY <1>2, <1>9, <1>10 DEF EntryInv, LinesServed
  <2>4. \A n \in InProgress' : stack'[n].val \in masked'
    BY <1>3, <1>9, <1>10
  <2> QED  BY <2>1, <2>2, <2>3, <2>4 DEF LinesServed
<1>12. Lines' = Lines \cup {j}
  BY <1>9, <1>10 DEF Lines
<1> QED  BY <1>3, <1>6, <1>7, <1>11, <1>12 DEF EntryInv

LEMMA InterruptEntry ==
  ASSUME EntryInv, NEW i \in IRQs, Interrupt(i)
  PROVE  EntryInv' /\ Lines' = Lines \cup {i}
<1>1. InUser \/ InHandler
  BY Kinds DEF EntryInv, Control, Interrupt, Running, AtRestart, AtReenter
<1> QED  BY <1>1, FirstInterrupt, NestedInterrupt

\* hwint_master returns: to restart from the outermost handler, else to
\* restart_reenter, with the interrupted handler's frame on top.
LEMMA HandlerReturnsEntry ==
  ASSUME EntryInv, NEW i \in IRQs, HandlerReturns(i)
  PROVE  EntryInv' /\ Lines' = Lines \ {i} /\ i \in Lines /\ cpu' \in Labels
<1>1. /\ cpu = Handler(i) /\ k_reenter \in Nat
      /\ Len(stack) = 3 * k_reenter + 2 /\ Nested(stack)
      /\ stack[Len(stack)] = Arg(i)
  <2>1. cpu = Handler(i)
    BY DEF HandlerReturns
  <2>2. InHandler
    <3>1. cpu.kind = "irq" /\ esp0 \in Procs
      BY <2>1, Kinds DEF EntryInv, TypeOK
    <3>2. ~InUser /\ ~AtRestart /\ ~AtReenter
      BY <3>1, Kinds DEF InUser, AtRestart, AtReenter
    <3> QED  BY <3>2 DEF EntryInv, Control
  <2>3. PICK j \in IRQs : /\ cpu = Handler(j) /\ k_reenter \in Nat
                          /\ Len(stack) = 3 * k_reenter + 2 /\ Nested(stack)
                          /\ stack[Len(stack)] = Arg(j)
    BY <2>2 DEF InHandler
  <2>4. j = i
    <3>1. Handler(j).of = j /\ Handler(i).of = i
      BY Kinds
    <3> QED  BY <2>1, <2>3, <3>1
  <2> QED  BY <2>3, <2>4
<1> DEFINE s == SubSeq(stack, 1, Len(stack) - 1)
<1>2. stack \in Seq(Word) /\ Len(stack) - 1 \in 0..Len(stack) /\ Len(stack) \in Nat
  BY <1>1 DEF EntryInv, TypeOK
<1>3. s \in Seq(Word) /\ Len(s) = 3 * k_reenter + 1 /\ Nested(s)
      /\ \A n \in 1..Len(stack) - 1 : s[n] = stack[n]
  <2>1. PICK k \in Nat : k = 3 * k_reenter + 1 /\ Len(stack) = k + 1
    BY <1>1
  <2>2. s \in Seq(Word) /\ Len(s) = k /\ Nested(s) /\ \A l \in 1..k : s[l] = stack[l]
    BY <1>1, <1>2, <2>1, PopOne
  <2> HIDE DEF s
  <2> QED  BY <2>1, <2>2
<1>4. s[Len(s)] = Ret(Back(k_reenter))
  <2>1. Triple(s, k_reenter)
    BY <1>1, <1>3 DEF Nested
  <2> QED  BY <1>1, <1>3, <2>1 DEF Triple
<1>5. /\ cpu' = Back(k_reenter) /\ stack' = SubSeq(s, 1, Len(s) - 1)
      /\ masked' = masked \ {i} /\ UNCHANGED <<k_reenter, regs, esp0, p_proc_ready>>
  BY <1>4, Words DEF HandlerReturns, Return, Drop, Top
<1> HIDE DEF s
<1>6. /\ stack' \in Seq(Word) /\ Len(stack') = 3 * k_reenter /\ Nested(stack')
      /\ \A n \in 1..Len(stack') : stack'[n] = stack[n]
  <2>1. Len(s) - 1 \in 0..Len(s)
    BY <1>1, <1>3
  <2>2. /\ SubSeq(s, 1, Len(s) - 1) \in Seq(Word) /\ Nested(SubSeq(s, 1, Len(s) - 1))
        /\ Len(SubSeq(s, 1, Len(s) - 1)) = Len(s) - 1
        /\ \A n \in 1..Len(s) - 1 : SubSeq(s, 1, Len(s) - 1)[n] = s[n]
    BY <1>3, <2>1, PopNested
  <2>3. stack' \in Seq(Word) /\ Len(stack') = Len(s) - 1
        /\ \A n \in 1..Len(s) - 1 : stack'[n] = s[n]
    BY <1>5, <2>2
  <2>4. Nested(stack')
    BY <1>5, <2>2 DEF Nested, Triple
  <2> QED  BY <1>1, <1>3, <2>3, <2>4
<1>7. TypeOK'
  BY <1>5, <1>6 DEF EntryInv, TypeOK
<1>8. Control'
  <2>1. CASE k_reenter = 0
    <3>1. stack' = <<>>
      BY <1>6, <2>1
    <3> QED  BY <1>5, <2>1, <3>1 DEF Control, AtRestart, Back
  <2>2. CASE k_reenter # 0
    BY <1>1, <1>5, <1>6, <2>2 DEF Control, AtReenter, Back
  <2> QED  BY <2>1, <2>2
<1>9. /\ InProgress' = InProgress \ {Len(stack)} /\ Len(stack) \in InProgress
      /\ stack[Len(stack)].val = i
  <2>1. stack[Len(stack)].word = "arg" /\ stack[Len(stack)].val = i
    BY <1>1, Words
  <2>2. stack[Len(stack) - 1].word = "ret"
    <3>1. Len(s) = Len(stack) - 1 /\ Len(s) \in 1..Len(stack) - 1
      BY <1>1, <1>3
    <3>2. s[Len(s)].word = "ret"
      BY <1>4, Words
    <3> QED  BY <1>3, <3>1, <3>2
  <2>3. \A n \in 1..Len(stack) : n \in 1..Len(stack') \/ n = Len(stack) - 1 \/ n = Len(stack)
    BY <1>1, <1>6
  <2>4. /\ 1..Len(stack') \subseteq 1..Len(stack) /\ Len(stack) \in 1..Len(stack)
        /\ Len(stack) \notin 1..Len(stack') /\ Len(stack) - 1 \notin 1..Len(stack')
    BY <1>1, <1>6
  <2> QED  BY <1>6, <2>1, <2>2, <2>3, <2>4 DEF InProgress
<1>10. LinesServed'
  <2>1. /\ IsFiniteSet(InProgress) /\ Cardinality(InProgress) = k_reenter + 1
        /\ \A m, n \in InProgress : stack[m].val = stack[n].val => m = n
        /\ \A n \in InProgress : stack[n].val \in masked
    BY <1>1, Kinds DEF EntryInv, LinesServed, Running
  <2>2. ~Running'
    BY <1>5, Kinds DEF Running, Back
  <2>3. IsFiniteSet(InProgress') /\ Cardinality(InProgress') = k_reenter'
    BY <1>1, <1>5, <1>9, <2>1, FS_RemoveElement
  <2>4. \A n \in InProgress' : n \in InProgress /\ stack'[n] = stack[n] /\ stack[n].val # i
    BY <1>6, <1>9, <2>1 DEF InProgress
  <2> QED  BY <1>5, <2>1, <2>2, <2>3, <2>4 DEF LinesServed
<1>11. Lines' = Lines \ {i} /\ i \in Lines
  <2>1. \A n \in InProgress' : stack'[n] = stack[n]
    BY <1>6 DEF InProgress
  <2>2. \A m, n \in InProgress : stack[m].val = stack[n].val => m = n
    BY DEF EntryInv, LinesServed
  <2> QED  BY <1>9, <2>1, <2>2 DEF Lines
<1>12. cpu' \in Labels
  BY <1>5 DEF Back, Labels
<1> QED  BY <1>5, <1>7, <1>8, <1>10, <1>11, <1>12 DEF EntryInv

\* restart: the stack becomes the register area of the process to run.
LEMMA RestartEntry ==
  ASSUME EntryInv, Restart
  PROVE  EntryInv' /\ Lines' = Lines
<1>1. AtRestart
  <2>1. cpu = Label("restart") /\ esp0 \in Procs
    BY DEF Restart, EntryInv, TypeOK
  <2>2. cpu.kind = "label" /\ cpu.of = "restart"
    BY <2>1, Kinds
  <2>3. ~InUser /\ ~InHandler /\ ~AtReenter
    BY <2>1, <2>2, Kinds DEF InUser, InHandler, AtReenter
  <2> QED  BY <2>3 DEF EntryInv, Control
<1>2. /\ stack' = <<Frame(User(p_proc_ready))>> /\ esp0' = p_proc_ready
      /\ cpu' = Label("restart_reenter")
      /\ UNCHANGED <<k_reenter, regs, p_proc_ready, masked>>
  BY DEF Restart, EntryInv, TypeOK
<1>3. Frame(User(p_proc_ready)) \in Word
  BY Kinds DEF EntryInv, TypeOK, Word
<1>4. TypeOK'
  BY <1>2, <1>3 DEF EntryInv, TypeOK
<1>5. Control'
  BY <1>1, <1>2 DEF Control, AtRestart, AtReenter
<1>6. InProgress = {} /\ ~Running
  BY <1>1, Kinds DEF AtRestart, InProgress, Running
<1>7. InProgress' = {} /\ ~Running'
  <2>1. Len(stack') = 1 /\ stack'[1] = Frame(User(p_proc_ready))
    BY <1>2
  <2>2. stack'[1].word = "frame"
    BY <2>1, Words
  <2>3. InProgress' = {}
    BY <2>1, <2>2 DEF InProgress
  <2> QED  BY <1>2, <2>3, Kinds DEF Running
<1>8. LinesServed'
  BY <1>2, <1>6, <1>7 DEF EntryInv, LinesServed
<1> QED  BY <1>2, <1>4, <1>5, <1>6, <1>7, <1>8 DEF EntryInv, Lines

\* restart_reenter: to the process, or to the handler that was interrupted.
LEMMA RestartReenterEntry ==
  ASSUME EntryInv, RestartReenter
  PROVE  EntryInv' /\ Lines' = Lines
<1>1. AtReenter
  <2>1. cpu = Label("restart_reenter")
    BY DEF RestartReenter
  <2>2. Label("restart_reenter") # Label("restart")
    BY DEF Label
  <2> QED  BY <2>1, <2>2, Kinds DEF EntryInv, Control, InUser, InHandler, AtRestart, TypeOK
<1>2. k_reenter' = k_reenter - 1 /\ UNCHANGED <<regs, esp0, p_proc_ready, masked>>
  BY DEF RestartReenter
<1>3. CASE k_reenter = 0 /\ stack = <<Frame(User(esp0))>>
  <2>1. Len(stack) = 1 /\ stack[1] = Frame(User(esp0)) /\ SubSeq(stack, 1, 0) = <<>>
    BY <1>3
  <2>2. cpu' = User(esp0) /\ stack' = <<>>
    BY <2>1, Words DEF RestartReenter, Top, Drop
  <2>3. TypeOK'
    BY <1>2, <1>3, <2>2 DEF EntryInv, TypeOK
  <2>4. Control'
    BY <1>2, <1>3, <2>2 DEF Control, InUser
  <2>5. InProgress' = {} /\ Running'
    <3>1. InProgress' = {}
      BY <2>2 DEF InProgress
    <3> QED  BY <2>2, <3>1, Kinds DEF Running, EntryInv, TypeOK
  <2>6. LinesServed'
    BY <1>2, <1>3, <2>5, FS_EmptySet DEF LinesServed
  <2>7. Lines' = Lines
    <3>1. InProgress = {}
      BY <2>1, Words DEF InProgress
    <3> QED  BY <2>5, <3>1 DEF Lines
  <2> QED  BY <1>2, <2>3, <2>4, <2>6, <2>7 DEF EntryInv
<1>4. CASE k_reenter \in Nat \ {0} /\ Len(stack) = 3 * k_reenter /\ Nested(stack)
  <2>1. PICK k \in Nat : k_reenter = k + 1
    BY <1>4
  <2>2. Len(stack) = 3 * k + 3 /\ stack \in Seq(Word) /\ Len(stack) - 1 \in 0..Len(stack)
        /\ Triple(stack, k)
    BY <1>4, <2>1 DEF EntryInv, TypeOK, Nested
  <2>3. PICK i \in IRQs : stack[3 * k + 2] = Arg(i) /\ stack[3 * k + 3] = Frame(Handler(i))
    BY <2>2, Words DEF Triple
  <2>4. cpu' = Handler(i) /\ stack' = SubSeq(stack, 1, Len(stack) - 1)
    BY <2>2, <2>3, Words DEF RestartReenter, Top, Drop
  <2>5. PICK t : t = SubSeq(stack, 1, Len(stack) - 1)
    OBVIOUS
  <2>6. t \in Seq(Word) /\ Len(t) = 3 * k + 2 /\ Nested(t)
        /\ \A l \in 1..3 * k + 2 : t[l] = stack[l]
    <3>1. Nested(stack)
      BY <1>4
    <3>2. PICK n \in Nat : n = 3 * k + 2 /\ Len(stack) = n + 1
      BY <2>2
    <3>3. t \in Seq(Word) /\ Len(t) = n /\ Nested(t) /\ \A l \in 1..n : t[l] = stack[l]
      BY <2>2, <2>5, <3>1, <3>2, PopOne
    <3> QED  BY <3>2, <3>3
  <2>7. /\ stack' \in Seq(Word) /\ Len(stack') = 3 * k + 2 /\ Nested(stack')
        /\ \A n \in 1..Len(stack') : stack'[n] = stack[n]
    <3>1. stack' = t
      BY <2>4, <2>5
    <3> QED  BY <2>6, <3>1 DEF Nested, Triple
  <2>8. stack'[Len(stack')] = Arg(i)
    BY <2>3, <2>7
  <2>9. TypeOK'
    BY <1>2, <2>1, <2>7 DEF EntryInv, TypeOK
  <2>10. Control'
    BY <1>2, <2>1, <2>4, <2>7, <2>8 DEF Control, InHandler
  <2>11. InProgress' = InProgress
    <3>1. stack[Len(stack)].word = "frame"
      BY <2>2, <2>3, Words
    <3>2. \A n \in 1..Len(stack) : n \in 1..Len(stack') \/ n = Len(stack)
      BY <2>2, <2>7
    <3>3. 1..Len(stack') \subseteq 1..Len(stack)
      BY <2>2, <2>7
    <3> QED  BY <2>7, <3>1, <3>2, <3>3 DEF InProgress
  <2>12. LinesServed'
    <3>1. ~Running /\ Running'
      BY <1>1, <2>4, Kinds DEF AtReenter, Running
    <3>2. \A n \in InProgress : stack'[n] = stack[n]
      BY <2>7, <2>11 DEF InProgress
    <3>3. k_reenter = k_reenter' + 1
      BY <1>2, <2>1
    <3> QED  BY <1>2, <2>11, <3>1, <3>2, <3>3 DEF EntryInv, LinesServed
  <2>13. Lines' = Lines
    <3>1. \A n \in InProgress : stack'[n] = stack[n]
      BY <2>7, <2>11 DEF InProgress
    <3> QED  BY <2>11, <3>1 DEF Lines
  <2> QED  BY <1>2, <2>9, <2>10, <2>12, <2>13 DEF EntryInv
<1> QED  BY <1>1, <1>3, <1>4 DEF AtReenter

LEMMA StepEntry == EntryInv /\ [InterruptNext]_vars => EntryInv'
<1> SUFFICES ASSUME EntryInv, [InterruptNext]_vars PROVE EntryInv'  OBVIOUS
<1>1. ASSUME NEW p \in Procs, ClockSchedules(p) PROVE EntryInv'
  BY <1>1 DEF ClockSchedules, EntryInv, TypeOK, Control, InUser, InHandler, AtRestart,
              AtReenter, LinesServed, InProgress, Running, Nested, Triple
<1>2. CASE UNCHANGED vars
  BY <1>2 DEF vars, EntryInv, TypeOK, Control, InUser, InHandler, AtRestart,
              AtReenter, LinesServed, InProgress, Running, Nested, Triple
<1> QED
  BY <1>1, <1>2, InterruptEntry, HandlerReturnsEntry, RestartEntry, RestartReenterEntry
     DEF InterruptNext
-----------------------------------------------------------------------------
LEMMA InvToCode == EntryInv => ReturnsToCode
<1> SUFFICES ASSUME EntryInv PROVE ReturnsToCode  OBVIOUS
<1>1. cpu \in Contexts \cup Labels
  BY Kinds DEF EntryInv, TypeOK, Control, InUser, InHandler, AtRestart, AtReenter, Labels
<1> QED  BY <1>1, Kinds DEF ReturnsToCode

LEMMA InvRegisters == EntryInv => OwnRegisters
<1> SUFFICES ASSUME EntryInv PROVE OwnRegisters  OBVIOUS
<1>1. FromUser => cpu.of = esp0
  BY Kinds DEF EntryInv, TypeOK, Control, InUser, InHandler, AtRestart, AtReenter, FromUser
<1> QED  BY <1>1 DEF EntryInv, OwnRegisters

LEMMA InvMasked == EntryInv => MaskedWhileServed
<1> SUFFICES ASSUME EntryInv, Running PROVE
      LET served == [n \in InProgress |-> stack[n].val]
      IN  /\ \A m, n \in InProgress : served[m] = served[n] => m = n
          /\ {served[n] : n \in InProgress} \subseteq masked
          /\ k_reenter = Cardinality(InProgress) - 1
  BY DEF MaskedWhileServed
<1>1. k_reenter = Cardinality(InProgress) - 1
  BY DEF EntryInv, LinesServed, TypeOK
<1> QED  BY <1>1 DEF EntryInv, LinesServed
-----------------------------------------------------------------------------
\* Control, the kernel stack and the mask fit together, always.
THEOREM EntryInvariant == InterruptSpec => []EntryInv
BY InitEntry, StepEntry, PTL DEF InterruptSpec

\* However deep handlers nest, no return takes another word for an address.
THEOREM OnlyToCode == InterruptSpec => []ReturnsToCode
BY InvToCode, EntryInvariant, PTL

\* The TSS names the entry of the process that runs, and no interrupt writes
\* over the registers of another one.
THEOREM RegistersAreOwn == InterruptSpec => []OwnRegisters
BY InvRegisters, EntryInvariant, PTL

\* No line is served twice at a time, and k_reenter counts the handlers.
THEOREM ServedAreMasked == InterruptSpec => []MaskedWhileServed
BY InvMasked, EntryInvariant, PTL
-----------------------------------------------------------------------------
(***************************************************************************)
(* The start-up.                                                           *)
(***************************************************************************)
\* What each step of the start-up code finds.  Only the keyboard's is run
\* again, by task_tty.
EarlySteps    == {"init_prot", "kernel_main", "init_clock"}
KeyboardSteps == {"led", "led ack", "leds", "leds ack", "disable", "put", "enable"}

Descriptors == [x \in INDEX_LDT_FIRST..INDEX_LDT_FIRST+N-1 |->
                  init_descriptor(Ldts(x - INDEX_LDT_FIRST + 1))]
Entries     == [p \in Procs |-> Pcb(IndexOf(p))]

\* The lines that stay masked, besides the ones being served.
Off == (IRQs \ {Clock, Keyboard}) \cup (IF pos \in {"put", "enable"} THEN {Keyboard} ELSE {})

\* Interrupts are off until restart; every line is masked before its handler
\* is in the table.
Starting ==
  /\ cpu = Label("kernel_main") /\ stack = <<>> /\ esp0 = First /\ p_proc_ready = First
  /\ regs = [p \in Procs |-> Frame(User(p))]
  /\ pos \in {"init_8259A"} \cup EarlySteps \cup KeyboardSteps
  /\ pos \in EarlySteps =>
       irq_table = [i \in IRQs |-> "spurious_irq"] /\ masked = IRQs
  /\ pos \in KeyboardSteps =>
       /\ masked = IRQs \ {Clock} /\ k_reenter = 0 /\ entry = Entries
       /\ irq_table = [i \in IRQs |-> IF i = Clock THEN "clock_handler" ELSE
                         IF i = Keyboard /\ pos = "enable" THEN "keyboard_handler"
                         ELSE "spurious_irq"]
  /\ pos = "init_clock" => k_reenter = 0 /\ entry = Entries
  /\ pos \notin {"init_8259A", "init_prot"} => gdt = Descriptors /\ gdt_limit = GDT_SIZE

\* From then on the tables stay what they are, and a line is masked while it
\* is served or is to stay off, never both.
Started ==
  /\ EntryInv
  /\ pos \in KeyboardSteps \cup {"up"}
  /\ gdt = Descriptors /\ gdt_limit = GDT_SIZE /\ entry = Entries /\ irq_table = Driver
  /\ masked = Lines \cup Off /\ Lines \cap Off = {}
  /\ cpu # Label("restart") => ldtr = Ldts(IndexOf(esp0))

UpInv == Starting \/ Started
-----------------------------------------------------------------------------
(***************************************************************************)
(* Descriptors.                                                            *)
(***************************************************************************)
LEMMA Lengths == N \in Nat \ {0} /\ \A p \in Procs : IndexOf(p) \in 1..N /\ proc_table[IndexOf(p)] = p
<1>1. N \in Nat
  BY FS_CardinalityType, StartUpAssumption, EntryAssumption
<1>2. \A p \in Procs : \E n \in 1..N : proc_table[n] = p
  BY StartUpAssumption
<1>3. \A p \in Procs : IndexOf(p) \in 1..N /\ proc_table[IndexOf(p)] = p
  BY <1>2 DEF IndexOf
<1>4. N # 0
  BY <1>1, <1>2, EntryAssumption
<1> QED  BY <1>1, <1>3, <1>4

LEMMA Division ==
  ASSUME NEW x \in Nat, NEW y \in Nat \ {0}
  PROVE  /\ x \div y \in Nat /\ x % y \in Nat /\ x % y < y
         /\ x = y * (x \div y) + (x % y)
         /\ \A q, m \in Nat : m < y /\ x = y * q + m => x \div y = q /\ x % y = m
OBVIOUS

LEMMA Digits ==
  ASSUME NEW a \in Nat, NEW q \in Nat, NEW m \in Nat, NEW h \in Nat, NEW l \in Nat,
         NEW s \in Nat \ {0}, NEW r \in Nat \ {0},
         a = s * q + m, m < s, q = r * h + l, l < r
  PROVE  /\ a = (s * r) * h + (s * l + m)
         /\ s * l + m < s * r /\ s * r \in Nat \ {0} /\ s * l + m \in Nat
<1>1. s * l \in Nat /\ s * h \in Nat /\ s * r \in Nat
  OBVIOUS
<1>2. s * r # 0
  OBVIOUS
<1>3. s * (l + 1) <= s * r
  OBVIOUS
<1>4. s * (l + 1) = s * l + s
  OBVIOUS
<1>5. s * (r * h + l) = (s * r) * h + s * l
  OBVIOUS
<1> QED  BY <1>1, <1>2, <1>3, <1>4, <1>5

LEMMA TopDigit ==
  ASSUME NEW a \in Nat, NEW t \in Nat \ {0}, NEW h \in Nat, NEW r \in Nat, NEW w \in Nat,
         a = t * h + w, a < t * r
  PROVE  h < r
<1> SUFFICES ASSUME h >= r PROVE FALSE  OBVIOUS
<1>1. t * h >= t * r
  OBVIOUS
<1>2. t * h \in Nat /\ t * r \in Nat
  OBVIOUS
<1> QED  BY <1>1, <1>2

\* The three fields of a descriptor hold an address of four digits.
LEMMA BaseOfDescriptor ==
  ASSUME NEW a \in Nat, a < Radix * Radix * Radix * Radix
  PROVE  Base(init_descriptor(a)) = a
<1>1. PICK r \in Nat \ {0} : r = Radix
  BY StartUpAssumption
<1>2. PICK s \in Nat \ {0} : s = r * r
  <2>1. r * r \in Nat /\ r * r # 0
    OBVIOUS
  <2> QED  BY <2>1
<1>3. PICK m \in Nat, q \in Nat : m = a % s /\ q = a \div s /\ a = s * q + m /\ m < s
  BY Division
<1>4. PICK l \in Nat, h \in Nat : l = q % r /\ h = q \div r /\ q = r * h + l /\ l < r
  BY Division
<1>5. PICK w \in Nat, t \in Nat \ {0} : /\ w = s * l + m /\ t = s * r
                                        /\ a = t * h + w /\ w < t
  <2>1. a = (s * r) * h + (s * l + m)
        /\ s * l + m < s * r /\ s * r \in Nat \ {0} /\ s * l + m \in Nat
    <3>1. a = s * q + m /\ m < s /\ q = r * h + l /\ l < r
      BY <1>3, <1>4
    <3> QED  BY <3>1, Digits
  <2> QED  BY <2>1
<1>6. a \div t = h
  BY <1>5, Division
<1>7. h < r
  <2>1. r * r * r * r = t * r /\ r * r * r = t
    BY <1>2, <1>5
  <2>2. a < t * r
    BY <1>1, <2>1
  <2> QED  BY <1>5, <2>2, TopDigit
<1>8. h % r = h
  BY <1>7, Division
<1>9. init_descriptor(a) = [base_low |-> m, base_mid |-> l, base_high |-> h]
  <2>1. Radix * Radix = s /\ Radix * Radix * Radix = t /\ Radix = r
    BY <1>1, <1>2, <1>5
  <2> QED  BY <2>1, <1>3, <1>4, <1>6, <1>8 DEF init_descriptor
<1>10. Base(init_descriptor(a)) = h * r * r * r + l * r * r + m
  BY <1>1, <1>9 DEF Base
<1>11. h * r * r * r = t * h /\ l * r * r = s * l
  BY <1>2, <1>5
<1> QED  BY <1>3, <1>5, <1>10, <1>11

\* The selector that kernel_main() gives a process names the descriptor of
\* its own LDT, and the GDT reaches that far.
LEMMA OwnDescriptor ==
  ASSUME NEW p \in Procs, gdt = Descriptors, entry = Entries
  PROVE  Base(gdt[entry[p].ldt_sel \div 8]) = Ldts(IndexOf(p))
<1>1. PICK n \in 1..N : n = IndexOf(p)
  BY Lengths
<1>2. entry[p].ldt_sel = 8 * 5 + 8 * (n - 1)
  BY <1>1 DEF Entries, Pcb, SELECTOR_LDT_FIRST
<1>3. entry[p].ldt_sel \div 8 = 5 + n - 1
  BY <1>2, Lengths
<1>4. 5 + n - 1 \in 5..5+N-1 /\ 5 + n - 1 - 5 + 1 = n
  BY Lengths
<1>5. gdt[5 + n - 1] = init_descriptor(Ldts(n))
  BY <1>4 DEF Descriptors, INDEX_LDT_FIRST
<1>6. Ldts(n) \in Nat /\ Ldts(n) < Radix * Radix * Radix * Radix
  <2>1. N \in Nat /\ ProcSize \in Nat /\ TableAt \in Nat /\ LdtsAt \in Nat /\ LdtsAt < ProcSize
    BY Lengths, StartUpAssumption
  <2>2. /\ (n - 1) * ProcSize \in Nat /\ N * ProcSize \in Nat /\ n * ProcSize <= N * ProcSize
        /\ n * ProcSize = (n - 1) * ProcSize + ProcSize
    BY <2>1
  <2>3. Radix * Radix * Radix * Radix \in Nat /\ TableAt + N * ProcSize < Radix * Radix * Radix * Radix
    BY StartUpAssumption
  <2> QED  BY <2>1, <2>2, <2>3 DEF Ldts
<1> QED  BY <1>1, <1>3, <1>5, <1>6, BaseOfDescriptor
-----------------------------------------------------------------------------
(***************************************************************************)
(* task_stack.  kernel_main() starts from the sum of all the sizes and     *)
(* takes one off for each entry, so an entry starts at the sum of its own  *)
(* size and those after it.  Sums and StackTop are recursive: what holds   *)
(* of them is shown by induction, in the form of the least counterexample. *)
(***************************************************************************)
Less == {ss \in Nat \X Nat : ss[1] < ss[2]}

LEMMA LeastNatural ==
  ASSUME NEW T \in SUBSET Nat, T # {}
  PROVE  \E n \in T : \A m \in T : n <= m
<1>1. IsWellFoundedOn(Less, Nat)
  BY NatLessThanWellFounded DEF OpToRel, Less
<1>2. PICK n \in T : \A m \in T : ~(<<m, n>> \in Less)
  BY <1>1, WFMin
<1>3. \A m \in T : ~(m < n)
  BY <1>2 DEF Less
<1> QED  BY <1>3

LEMMA InductionOnNat ==
  ASSUME NEW S, 0 \in S, \A n \in Nat : n \in S => n + 1 \in S
  PROVE  Nat \subseteq S
<1> SUFFICES ASSUME Nat \ S # {} PROVE FALSE  OBVIOUS
<1>1. PICK n \in Nat \ S : \A m \in Nat \ S : n <= m
  BY LeastNatural
<1>2. n # 0 /\ n - 1 \in Nat
  BY <1>1
<1>3. n - 1 \in S
  BY <1>1, <1>2
<1> QED  BY <1>1, <1>2, <1>3

\* What FoldFunction(+, 0, StackSize) computes on the way.
Any(s) == CHOOSE x \in s : TRUE
IsSum(g) == g = [s \in SUBSET Procs |-> IF s = {} THEN 0
                                        ELSE StackSize[Any(s)] + g[s \ {Any(s)}]]

\* Of a set of processes and the set without one of them.
LEMMA OneLess ==
  ASSUME NEW s \in SUBSET Procs
  PROVE  /\ Cardinality(s) \in Nat /\ Cardinality(s) <= Cardinality(Procs)
         /\ Cardinality(s) = 0 => s = {}
         /\ s # {} => Any(s) \in s
         /\ \A x \in s : /\ StackSize[x] \in Nat \ {0}
                         /\ s \ {x} \in SUBSET Procs
                         /\ Cardinality(s \ {x}) = Cardinality(s) - 1
<1>1. IsFiniteSet(s) /\ Cardinality(s) <= Cardinality(Procs)
  BY EntryAssumption, FS_Subset
<1>2. Cardinality(s) \in Nat /\ (Cardinality(s) = 0 => s = {})
  BY <1>1, FS_CardinalityType, FS_EmptySet
<1>3. \A x \in s : Cardinality(s \ {x}) = Cardinality(s) - 1
  BY <1>1, FS_RemoveElement
<1>4. s # {} => Any(s) \in s
  BY DEF Any
<1> QED  BY <1>1, <1>2, <1>3, <1>4, StartUpAssumption

LEMMA SumExists == \E g : IsSum(g)
<1> DEFINE Body(g, s) == IF s = {} THEN 0 ELSE StackSize[Any(s)] + g[s \ {Any(s)}]
           K == {k \in Nat : \E g \in [SUBSET Procs -> Nat] : \A s \in SUBSET Procs :
                               Cardinality(s) <= k => g[s] = Body(g, s)}
<1>1. 0 \in K
  <2> DEFINE g == [s \in SUBSET Procs |-> 0]
  <2>1. \A s \in SUBSET Procs : Cardinality(s) <= 0 => g[s] = Body(g, s)
    BY OneLess
  <2>2. g \in [SUBSET Procs -> Nat]
    OBVIOUS
  <2> QED  BY <2>1, <2>2
<1>2. ASSUME NEW k \in Nat, k \in K PROVE k + 1 \in K
  <2>1. PICK g \in [SUBSET Procs -> Nat] : \A s \in SUBSET Procs :
          Cardinality(s) <= k => g[s] = Body(g, s)
    BY <1>2
  <2> DEFINE h == [s \in SUBSET Procs |-> Body(g, s)]
  <2>2. h \in [SUBSET Procs -> Nat]
    <3> SUFFICES ASSUME NEW s \in SUBSET Procs PROVE Body(g, s) \in Nat  OBVIOUS
    <3> QED  BY OneLess
  <2>3. ASSUME NEW s \in SUBSET Procs, Cardinality(s) <= k + 1 PROVE h[s] = Body(h, s)
    <3>1. CASE s = {}
      BY <3>1
    <3>2. CASE s # {}
      <4>1. /\ Any(s) \in s /\ s \ {Any(s)} \in SUBSET Procs
            /\ Cardinality(s \ {Any(s)}) <= k /\ Cardinality(s) \in Nat
        BY <2>3, <3>2, OneLess
      <4>2. h[s \ {Any(s)}] = g[s \ {Any(s)}]
        BY <2>1, <4>1
      <4> QED  BY <3>2, <4>2
    <3> QED  BY <3>1, <3>2
  <2>4. \E f \in [SUBSET Procs -> Nat] : \A s \in SUBSET Procs :
          Cardinality(s) <= k + 1 => f[s] = Body(f, s)
    <3> HIDE DEF h, Body
    <3> QED  BY <2>2, <2>3
  <2> HIDE DEF h, Body
  <2> QED  BY <2>4
<1>3. Cardinality(Procs) \in K
  <2>1. Cardinality(Procs) \in Nat
    BY EntryAssumption, FS_CardinalityType
  <2> HIDE DEF K
  <2>2. Nat \subseteq K
    BY <1>1, <1>2, InductionOnNat
  <2> QED  BY <2>1, <2>2
<1>4. PICK g \in [SUBSET Procs -> Nat] : \A s \in SUBSET Procs :
        Cardinality(s) <= Cardinality(Procs) => g[s] = Body(g, s)
  BY <1>3
<1>5. g = [s \in SUBSET Procs |-> Body(g, s)]
  BY <1>4, OneLess
<1> QED  BY <1>5 DEF IsSum

LEMMA SumType ==
  ASSUME NEW g, IsSum(g)
  PROVE  g \in [SUBSET Procs -> Nat]
<1> DEFINE K == {k \in Nat : \A s \in SUBSET Procs : Cardinality(s) <= k => g[s] \in Nat}
<1>1. 0 \in K
  BY OneLess DEF IsSum
<1>2. ASSUME NEW k \in Nat, k \in K PROVE k + 1 \in K
  <2> SUFFICES ASSUME NEW s \in SUBSET Procs, Cardinality(s) <= k + 1
               PROVE  g[s] \in Nat
    OBVIOUS
  <2> SUFFICES ASSUME s # {} PROVE g[s] \in Nat
    BY DEF IsSum
  <2>1. /\ Any(s) \in s /\ s \ {Any(s)} \in SUBSET Procs /\ StackSize[Any(s)] \in Nat
        /\ Cardinality(s \ {Any(s)}) <= k
    BY OneLess
  <2>2. g[s] = StackSize[Any(s)] + g[s \ {Any(s)}]
    BY DEF IsSum
  <2> QED  BY <1>2, <2>1, <2>2
<1>3. Cardinality(Procs) \in K
  <2>1. Cardinality(Procs) \in Nat
    BY EntryAssumption, FS_CardinalityType
  <2> HIDE DEF K
  <2>2. Nat \subseteq K
    BY <1>1, <1>2, InductionOnNat
  <2> QED  BY <2>1, <2>2
<1>4. \A s \in SUBSET Procs : g[s] \in Nat
  BY <1>3, OneLess
<1> QED  BY <1>4 DEF IsSum

\* The sum does not depend on the order in which the fold picks them.
LEMMA SumOfOneMore ==
  ASSUME NEW g, IsSum(g), NEW S \in SUBSET Procs, NEW y \in S
  PROVE  g[S] = StackSize[y] + g[S \ {y}]
<1> DEFINE K == {k \in Nat : \A s \in SUBSET Procs : Cardinality(s) <= k =>
                               \A x \in s : g[s] = StackSize[x] + g[s \ {x}]}
<1>1. 0 \in K
  <2> SUFFICES ASSUME NEW s \in SUBSET Procs, Cardinality(s) <= 0 PROVE s = {}
    OBVIOUS
  <2> QED  BY OneLess
<1>2. ASSUME NEW k \in Nat, k \in K PROVE k + 1 \in K
  <2> SUFFICES ASSUME NEW s \in SUBSET Procs, Cardinality(s) <= k + 1, NEW x \in s
               PROVE  g[s] = StackSize[x] + g[s \ {x}]
    OBVIOUS
  <2>1. PICK c : c = Any(s)
    OBVIOUS
  <2>2. c \in s /\ g[s] = StackSize[c] + g[s \ {c}]
    BY <2>1, OneLess DEF IsSum
  <2>3. CASE c = x
    BY <2>2, <2>3
  <2>4. CASE c # x
    <3>1. /\ s \ {c} \in SUBSET Procs /\ Cardinality(s \ {c}) <= k /\ x \in s \ {c}
          /\ s \ {x} \in SUBSET Procs /\ Cardinality(s \ {x}) <= k /\ c \in s \ {x}
          /\ StackSize[c] \in Nat /\ StackSize[x] \in Nat
      BY <2>2, <2>4, OneLess
    <3>2. g[s \ {c}] = StackSize[x] + g[(s \ {c}) \ {x}]
      BY <1>2, <3>1
    <3>3. g[s \ {x}] = StackSize[c] + g[(s \ {x}) \ {c}]
      BY <1>2, <3>1
    <3>4. (s \ {c}) \ {x} = (s \ {x}) \ {c}
      OBVIOUS
    <3>5. PICK w \in Nat : w = g[(s \ {x}) \ {c}]
      BY SumType, <3>1
    <3>6. g[s] = StackSize[c] + (StackSize[x] + w) /\ g[s \ {x}] = StackSize[c] + w
      BY <2>2, <3>2, <3>3, <3>4, <3>5
    <3> QED  BY <3>1, <3>6
  <2> QED  BY <2>3, <2>4
<1>3. Cardinality(S) \in K
  <2>1. Cardinality(S) \in Nat
    BY OneLess
  <2> HIDE DEF K
  <2>2. Nat \subseteq K
    BY <1>1, <1>2, InductionOnNat
  <2> QED  BY <2>1, <2>2
<1> QED  BY <1>3, OneLess

LEMMA TotalSize == \E g : IsSum(g) /\ FoldFunction(+, 0, StackSize) = g[Procs]
<1> DEFINE G == CHOOSE g : g = [s \in SUBSET Procs |-> IF s = {} THEN 0
                                 ELSE StackSize[Any(s)] + g[s \ {Any(s)}]]
<1>1. IsSum(G)
  BY SumExists DEF IsSum
<1>2. FoldFunction(+, 0, StackSize) = G[Procs]
  BY StartUpAssumption DEF FoldFunction, FoldFunctionOnSet, MapThenFoldSet, Any
<1> QED  BY <1>1, <1>2

\* The entries of proc_table from the n-th on, each once.
From(n) == {proc_table[m] : m \in n..N}

LEMMA OneEntryEach == \A m, n \in 1..N : proc_table[m] = proc_table[n] => m = n
<1>1. N \in Nat /\ proc_table \in Surjection(1..N, Procs)
  <2>1. N \in Nat /\ proc_table \in [1..N -> Procs]
    BY Lengths, StartUpAssumption DEF N
  <2>2. \A p \in Procs : \E n \in 1..N : proc_table[n] = p
    BY StartUpAssumption
  <2> QED  BY <2>1, <2>2 DEF Surjection
<1>2. IsFiniteSet(1..N) /\ Cardinality(1..N) = Cardinality(Procs)
  <2>1. N \in Int /\ 1 \in Int /\ ~(1 > N) /\ N - 1 + 1 = N
    BY Lengths
  <2>2. IsFiniteSet(1..N) /\ Cardinality(1..N) = IF 1 > N THEN 0 ELSE N - 1 + 1
    BY <2>1, FS_Interval
  <2>3. Cardinality(Procs) = N
    BY StartUpAssumption
  <2> QED  BY <2>1, <2>2, <2>3
<1>3. proc_table \in Injection(1..N, Procs)
  BY <1>1, <1>2, FS_SurjSameCardinalityImpliesInj
<1> QED  BY <1>3 DEF Injection, IsInjective

LEMMA FromNext ==
  ASSUME NEW n \in 1..N
  PROVE  /\ From(1) = Procs /\ From(n) \in SUBSET Procs /\ From(n + 1) \in SUBSET Procs
         /\ proc_table[n] \in From(n) /\ From(n) \ {proc_table[n]} = From(n + 1)
<1>1. N \in Nat
  BY Lengths
<1>2. From(1) = Procs
  BY StartUpAssumption DEF From
<1>3. From(n) \in SUBSET Procs /\ From(n + 1) \in SUBSET Procs /\ proc_table[n] \in From(n)
  BY <1>1, <1>2 DEF From
<1>4. From(n) \ {proc_table[n]} = From(n + 1)
  BY <1>1, OneEntryEach DEF From
<1> QED  BY <1>2, <1>3, <1>4

LEMMA SumNext ==
  ASSUME NEW g, IsSum(g), NEW n \in 1..N
  PROVE  /\ g[From(n)] \in Nat /\ g[From(n + 1)] \in Nat
         /\ StackSize[proc_table[n]] \in Nat
         /\ g[From(n)] = StackSize[proc_table[n]] + g[From(n + 1)]
<1>1. g \in [SUBSET Procs -> Nat]
  BY SumType
<1>2. PICK s \in SUBSET Procs : s = From(n)
  BY FromNext
<1>3. PICK x \in s : x = proc_table[n]
  BY <1>2, FromNext
<1>4. g[s] = StackSize[x] + g[s \ {x}] /\ StackSize[x] \in Nat
  <2>1. g[s] = StackSize[x] + g[s \ {x}]
    BY SumOfOneMore
  <2>2. StackSize[x] \in Nat
    BY OneLess
  <2> QED  BY <2>1, <2>2
<1>5. s \ {x} = From(n + 1) /\ From(n + 1) \in SUBSET Procs
  BY <1>2, <1>3, FromNext
<1> QED  BY <1>1, <1>2, <1>3, <1>4, <1>5

\* Where kernel_main() puts the stack of the n-th entry.
LEMMA StackTopIsSum ==
  \E g : IsSum(g) /\ \A n \in 1..N+1 : StackTop[n] = g[From(n)]
<1>1. PICK g : IsSum(g) /\ FoldFunction(+, 0, StackSize) = g[Procs]
  BY TotalSize
<1> DEFINE total == FoldFunction(+, 0, StackSize)
           Rec(f) == f = [n \in 1..N+1 |-> IF n = 1 THEN total
                            ELSE f[n-1] - StackSize[proc_table[n-1]]]
           f0 == [n \in 1..N+1 |-> g[From(n)]]
<1> HIDE DEF total
<1>2. ASSUME NEW n \in 1..N
      PROVE  /\ g[From(n)] \in Nat /\ StackSize[proc_table[n]] \in Nat
             /\ g[From(n + 1)] = g[From(n)] - StackSize[proc_table[n]]
             /\ From(1) = Procs
  <2>1. /\ g[From(n)] \in Nat /\ g[From(n + 1)] \in Nat
        /\ StackSize[proc_table[n]] \in Nat
        /\ g[From(n)] = StackSize[proc_table[n]] + g[From(n + 1)]
    BY <1>1, SumNext
  <2> QED  BY <2>1, FromNext
<1>3. Rec(f0)
  <2> SUFFICES ASSUME NEW n \in 1..N+1
               PROVE  f0[n] = IF n = 1 THEN total ELSE f0[n-1] - StackSize[proc_table[n-1]]
    OBVIOUS
  <2>1. N \in Nat \ {0}
    BY Lengths
  <2>2. CASE n = 1
    <3>1. From(1) = Procs /\ 1 \in 1..N
      BY <2>1, FromNext
    <3> QED  BY <1>1, <2>2, <3>1 DEF total
  <2>3. CASE n # 1
    <3>1. n - 1 \in 1..N /\ n - 1 \in 1..N+1 /\ (n - 1) + 1 = n
      BY <2>1, <2>3
    <3>2. g[From(n)] = g[From(n - 1)] - StackSize[proc_table[n - 1]]
      BY <1>2, <3>1
    <3> QED  BY <2>3, <3>1, <3>2
  <2> QED  BY <2>2, <2>3
<1>4. Rec(StackTop)
  <2>1. Rec(CHOOSE f : Rec(f))
    <3> HIDE DEF Rec, f0
    <3> QED  BY <1>3
  <2> QED  BY <2>1 DEF StackTop, total
<1> DEFINE K == {k \in Nat : k + 1 <= N + 1 => StackTop[k + 1] = g[From(k + 1)]}
<1>5. 0 \in K
  <2>1. 1 \in 1..N+1 /\ 1 \in 1..N
    BY Lengths
  <2>2. StackTop[1] = total
    BY <1>4, <2>1
  <2>3. g[From(1)] = total
    BY <1>1, <1>2, <2>1 DEF total
  <2> QED  BY <2>2, <2>3
<1>6. ASSUME NEW k \in Nat, k \in K PROVE k + 1 \in K
  <2> SUFFICES ASSUME k + 2 <= N + 1 PROVE StackTop[k + 2] = g[From(k + 2)]
    OBVIOUS
  <2>1. k + 1 \in 1..N /\ k + 2 \in 1..N+1 /\ (k + 2) - 1 = k + 1 /\ k + 2 # 1
        /\ (k + 1) + 1 = k + 2
    BY Lengths
  <2>2. StackTop[k + 2] = StackTop[k + 1] - StackSize[proc_table[k + 1]]
    <3>1. \A n \in 1..N+1 : StackTop[n] = IF n = 1 THEN total
                                          ELSE StackTop[n-1] - StackSize[proc_table[n-1]]
      BY <1>4
    <3> QED  BY <2>1, <3>1
  <2>3. StackTop[k + 1] = g[From(k + 1)]
    BY <1>6, <2>1, Lengths
  <2> QED  BY <1>2, <2>1, <2>2, <2>3
<1>7. Nat \subseteq K
  <2> HIDE DEF K
  <2> QED  BY <1>5, <1>6, InductionOnNat
<1>8. ASSUME NEW n \in 1..N+1 PROVE StackTop[n] = g[From(n)]
  <2>1. n - 1 \in Nat /\ (n - 1) + 1 = n /\ n <= N + 1
    BY Lengths
  <2>2. n - 1 \in K
    BY <1>7, <2>1
  <2> QED  BY <2>1, <2>2
<1> QED  BY <1>1, <1>8

\* The stacks do not overlap, and none reaches below task_stack.
LEMMA StackParts ==
  /\ \A n \in 1..N+1 : StackTop[n] \in Nat
  /\ \A n \in 1..N : StackTop[n] - StackSize[proc_table[n]] = StackTop[n + 1]
  /\ \A m, n \in 1..N : m < n => StackTop[n] <= StackTop[m + 1]
<1>1. PICK g : IsSum(g) /\ \A n \in 1..N+1 : StackTop[n] = g[From(n)]
  BY StackTopIsSum
<1>2. ASSUME NEW n \in 1..N
      PROVE  /\ StackTop[n] \in Nat /\ StackTop[n + 1] \in Nat
             /\ StackSize[proc_table[n]] \in Nat
             /\ StackTop[n] = StackSize[proc_table[n]] + StackTop[n + 1]
  <2>1. /\ g[From(n)] \in Nat /\ g[From(n + 1)] \in Nat
        /\ StackSize[proc_table[n]] \in Nat
        /\ g[From(n)] = StackSize[proc_table[n]] + g[From(n + 1)]
    BY <1>1, SumNext
  <2>2. n \in 1..N+1 /\ n + 1 \in 1..N+1
    BY Lengths
  <2>3. StackTop[n] = g[From(n)] /\ StackTop[n + 1] = g[From(n + 1)]
    BY <1>1, <2>2
  <2> QED  BY <2>1, <2>3
<1>3. \A n \in 1..N+1 : StackTop[n] \in Nat
  <2> SUFFICES ASSUME NEW n \in 1..N+1 PROVE StackTop[n] \in Nat  OBVIOUS
  <2>1. n \in 1..N \/ (n - 1 \in 1..N /\ (n - 1) + 1 = n)
    BY Lengths
  <2> QED  BY <1>2, <2>1
<1>4. \A n \in 1..N : StackTop[n] - StackSize[proc_table[n]] = StackTop[n + 1]
  BY <1>2
<1>5. ASSUME NEW m \in 1..N, NEW n \in 1..N, m < n PROVE StackTop[n] <= StackTop[m + 1]
  <2> DEFINE K == {k \in Nat : m + 1 + k <= N => StackTop[m + 1 + k] <= StackTop[m + 1]}
  <2>1. N \in Nat
    BY Lengths
  <2>2. 0 \in K
    BY <1>2, <2>1
  <2>3. ASSUME NEW k \in Nat, k \in K PROVE k + 1 \in K
    <3> SUFFICES ASSUME m + 1 + (k + 1) <= N
                 PROVE  StackTop[m + 1 + (k + 1)] <= StackTop[m + 1]
      OBVIOUS
    <3>1. m + 1 + k \in 1..N /\ m + 1 + (k + 1) = (m + 1 + k) + 1 /\ m + 1 \in 1..N
      BY <2>1
    <3>2. StackTop[m + 1 + k] <= StackTop[m + 1]
      BY <2>1, <2>3, <3>1
    <3>3. StackTop[(m + 1 + k) + 1] <= StackTop[m + 1 + k]
      BY <1>2, <3>1
    <3>4. /\ StackTop[m + 1] \in Nat /\ StackTop[m + 1 + k] \in Nat
          /\ StackTop[(m + 1 + k) + 1] \in Nat
      BY <1>2, <3>1
    <3> QED  BY <3>1, <3>2, <3>3, <3>4
  <2>4. Nat \subseteq K
    <3> HIDE DEF K
    <3> QED  BY <2>2, <2>3, InductionOnNat
  <2>5. n - (m + 1) \in Nat /\ m + 1 + (n - (m + 1)) = n /\ n <= N
    BY <1>5, <2>1
  <2>6. n - (m + 1) \in K
    BY <2>4, <2>5
  <2> QED  BY <2>5, <2>6
<1> QED  BY <1>3, <1>4, <1>5

LEMMA StacksApart == entry = Entries => OwnStacks
<1> SUFFICES ASSUME entry = Entries, NEW p \in Procs
             PROVE  /\ entry[p].esp - StackSize[p] >= 0
                    /\ \A q \in Procs \ {p} : entry[q].esp \notin
                         entry[p].esp - StackSize[p] + 1 .. entry[p].esp
  BY DEF OwnStacks
<1>1. \A q \in Procs : /\ entry[q].esp = StackTop[IndexOf(q)]
                       /\ IndexOf(q) \in 1..N /\ proc_table[IndexOf(q)] = q
                       /\ StackSize[q] \in Nat \ {0}
  BY Lengths, StartUpAssumption DEF Entries, Pcb
<1>2. PICK m \in 1..N : m = IndexOf(p) /\ proc_table[m] = p
  BY <1>1
<1>3. N \in Nat /\ m \in 1..N+1 /\ m + 1 \in 1..N+1
  BY Lengths
<1>4. entry[p].esp - StackSize[p] = StackTop[m + 1] /\ StackTop[m + 1] \in Nat
      /\ StackTop[m] \in Nat
  BY <1>1, <1>2, <1>3, StackParts
<1>5. ASSUME NEW q \in Procs \ {p}
      PROVE  entry[q].esp \notin StackTop[m + 1] + 1 .. entry[p].esp
  <2>1. PICK n \in 1..N : n = IndexOf(q) /\ proc_table[n] = q
    BY <1>1
  <2>2. n # m /\ n \in 1..N+1 /\ n + 1 \in 1..N+1
    BY <1>2, <1>3, <2>1
  <2>3. StackTop[n] \in Nat /\ StackTop[n + 1] \in Nat /\ entry[q].esp = StackTop[n]
        /\ entry[p].esp = StackTop[m]
    BY <1>1, <1>2, <2>1, <2>2, StackParts
  <2>4. CASE m < n
    <3>1. StackTop[n] <= StackTop[m + 1]
      BY <2>4, StackParts
    <3> QED  BY <1>4, <2>3, <3>1
  <2>5. CASE n < m
    <3>1. StackTop[m] <= StackTop[n + 1]
      BY <2>5, StackParts
    <3>2. StackTop[n] - StackSize[q] = StackTop[n + 1] /\ StackSize[q] \in Nat \ {0}
      BY <1>1, <2>1, StackParts
    <3> QED  BY <1>4, <2>3, <3>1, <3>2
  <2> QED  BY <2>2, <2>4, <2>5
<1> QED  BY <1>4, <1>5
-----------------------------------------------------------------------------
(***************************************************************************)
(* The lines in progress, and what the start-up code may touch.            *)
(***************************************************************************)
\* While the kernel runs, the handlers that StartUp finds on the stack and
\* in the processor are the ones whose lines the entry code left there.
LEMMA ServedAreLines ==
  ASSUME EntryInv, Running
  PROVE  Served = Lines
<1>1. CASE InUser
  <2>1. stack = <<>> /\ \A i \in IRQs : cpu # Handler(i)
    BY <1>1, Kinds DEF InUser, EntryInv, TypeOK
  <2> QED  BY <2>1 DEF Served, Lines, InProgress
<1>2. CASE InHandler
  <2>1. PICK i \in IRQs : /\ cpu = Handler(i) /\ k_reenter \in Nat
                          /\ Len(stack) = 3 * k_reenter + 2 /\ Nested(stack)
                          /\ stack[Len(stack)] = Arg(i)
    BY <1>2 DEF InHandler
  <2>2. \A j \in IRQs : cpu = Handler(j) <=> j = i
    BY <2>1, Kinds
  <2>3. Len(stack) \in InProgress /\ stack[Len(stack)].val = i
    BY <2>1, Words DEF InProgress
  <2>4. ASSUME NEW n \in InProgress, n # Len(stack)
        PROVE  \E k \in 1..Len(stack) : /\ stack[k].word = "frame" /\ stack[k].val.kind = "irq"
                                        /\ stack[k].val.of = stack[n].val
    <3>1. PICK m \in Nat : n = 3 * m + 1 \/ n = 3 * m + 2 \/ n = 3 * m + 3
      <4>1. n \in Nat \ {0}
        BY <2>1, <2>4 DEF InProgress
      <4>2. n = 3 * ((n - 1) \div 3) + 1 + ((n - 1) % 3) /\ (n - 1) \div 3 \in Nat
            /\ (n - 1) % 3 \in 0..2
        BY <4>1
      <4> QED  BY <4>2
    <3>2. n <= 3 * k_reenter + 1 /\ n \in 1..Len(stack) /\ stack[n].word = "arg"
      BY <2>1, <2>4 DEF InProgress
    <3>3. Triple(stack, m)
      BY <2>1 DEF Nested
    <3>4. n = 3 * m + 2 /\ 3 * m + 3 <= Len(stack)
      BY <2>1, <3>1, <3>2, <3>3, Words DEF Triple
    <3>5. PICK j \in IRQs : stack[3 * m + 2] = Arg(j) /\ stack[3 * m + 3] = Frame(Handler(j))
      BY <2>1, <3>3, <3>4, Words DEF Triple
    <3>6. 3 * m + 3 \in 1..Len(stack)
      BY <2>1, <3>4
    <3> QED  BY <3>4, <3>5, <3>6, Words, Kinds
  <2>5. ASSUME NEW k \in 1..Len(stack), stack[k].word = "frame"
        PROVE  \E n \in InProgress : stack[k].val.of = stack[n].val
    <3>1. PICK m \in Nat : k = 3 * m + 1 \/ k = 3 * m + 2 \/ k = 3 * m + 3
      <4>1. k \in Nat \ {0}
        BY <2>1
      <4>2. k = 3 * ((k - 1) \div 3) + 1 + ((k - 1) % 3) /\ (k - 1) \div 3 \in Nat
            /\ (k - 1) % 3 \in 0..2
        BY <4>1
      <4> QED  BY <4>2
    <3>2. Triple(stack, m)
      BY <2>1 DEF Nested
    <3>3. k = 3 * m + 3 /\ 3 * m + 3 <= Len(stack)
      BY <2>1, <2>5, <3>1, <3>2, Words DEF Triple
    <3>4. PICK j \in IRQs : stack[3 * m + 2] = Arg(j) /\ stack[3 * m + 3] = Frame(Handler(j))
      BY <2>1, <3>2, <3>3, Words DEF Triple
    <3>5. 3 * m + 2 \in 1..Len(stack)
      BY <2>1, <3>3
    <3> QED  BY <3>3, <3>4, <3>5, Words, Kinds DEF InProgress
  <2>6. Served \subseteq Lines
    BY <2>2, <2>3, <2>5 DEF Served, Lines
  <2>7. Lines \subseteq Served
    BY <2>1, <2>3, <2>4 DEF Served, Lines
  <2> QED  BY <2>6, <2>7
<1> QED  BY <1>1, <1>2, Kinds DEF EntryInv, Control, Running, AtRestart, AtReenter

\* The label kernel_main is none of those of the entry code.
LEMMA NotRunning ==
  ASSUME cpu = Label("kernel_main")
  PROVE  /\ ~Running /\ ~FromUser /\ cpu \notin Labels /\ cpu # Nowhere
         /\ \A i \in IRQs : cpu # Handler(i)
         /\ \A p \in Procs : cpu # User(p)
<1>1. cpu.kind = "label" /\ cpu.of = "kernel_main"
  BY DEF Label
<1>2. \A c \in Contexts : c.kind \in {"proc", "irq", "call"}
  BY DEF Contexts, User, Handler, Call
<1>3. \A l \in Labels : l.of # "kernel_main"
  BY Kinds DEF Labels
<1>4. Nowhere.kind = "wild"
  BY DEF Nowhere
<1> QED  BY <1>1, <1>2, <1>3, <1>4, Kinds DEF Running, FromUser

\* The entry code only cares for its own variables.
LEMMA EntryUnchanged ==
  ASSUME UNCHANGED vars
  PROVE  /\ EntryInv => EntryInv'
         /\ Lines' = Lines
<1>1. EntryInv => EntryInv'
  BY StepEntry
<1>2. Lines' = Lines
  BY DEF vars, Lines, InProgress
<1> QED  BY <1>1, <1>2

\* What changes the mask alone keeps the state of the entry code, as long as
\* the lines in progress stay masked.
LEMMA MaskChanges ==
  ASSUME EntryInv, UNCHANGED <<cpu, k_reenter, stack, regs, esp0, p_proc_ready>>,
         masked' \subseteq IRQs, Lines \subseteq masked'
  PROVE  EntryInv' /\ Lines' = Lines
<1>1. Lines' = Lines /\ InProgress' = InProgress /\ Running' = Running
  BY DEF Lines, InProgress, Running
<1>2. TypeOK'
  BY DEF EntryInv, TypeOK
<1>3. Control'
  BY DEF EntryInv, Control, InUser, InHandler, AtRestart, AtReenter, Nested, Triple
<1>4. LinesServed'
  BY <1>1 DEF EntryInv, LinesServed, Lines
<1> QED  BY <1>1, <1>2, <1>3, <1>4 DEF EntryInv

\* Where the start-up code can be, once interrupts can be taken.
LEMMA OnlyInTask ==
  ASSUME Started, InKernel \/ InTask
  PROVE  ~InKernel /\ cpu = User(First) /\ InUser /\ Lines = {}
<1>1. ~InKernel
  <2> SUFFICES ASSUME InKernel PROVE FALSE  OBVIOUS
  <2>1. cpu \in Contexts \cup Labels
    BY Kinds DEF Started, EntryInv, TypeOK, Control, InUser, InHandler, AtRestart, AtReenter,
                 Labels
  <2> QED  BY <2>1, NotRunning DEF InKernel, Running
<1>2. cpu = User(First) /\ cpu.kind = "proc"
  BY <1>1, Kinds, EntryAssumption DEF InTask
<1>3. InUser
  BY <1>2, Kinds DEF Started, EntryInv, Control, InHandler, AtRestart, AtReenter
<1>4. Lines = {}
  BY <1>3 DEF InUser, Lines, InProgress
<1> QED  BY <1>1, <1>2, <1>3, <1>4
-----------------------------------------------------------------------------
LEMMA InitUp == UpInit => UpInv
<1> SUFFICES ASSUME UpInit PROVE Starting  BY DEF UpInv
<1>1. pos \notin EarlySteps /\ pos \notin KeyboardSteps /\ pos = "init_8259A"
  BY DEF UpInit, EarlySteps, KeyboardSteps
<1> QED  BY <1>1 DEF UpInit, Starting

\* The devices, and the steps of task_tty that only talk to the keyboard.
LEMMA Quiet ==
  ASSUME UpInv, UNCHANGED <<vars, pos, tables, ldtr, irq_table>>
  PROVE  UpInv'
<1>1. CASE Starting
  BY <1>1 DEF vars, tables, Starting, UpInv, Entries
<1>2. CASE Started
  <2>1. EntryInv' /\ Lines' = Lines
    BY <1>2, EntryUnchanged DEF Started
  <2>2. Off' = Off
    BY DEF Off
  <2> QED  BY <1>2, <2>1, <2>2 DEF vars, tables, Started, UpInv
<1> QED  BY <1>1, <1>2 DEF UpInv

LEMMA Init8259AUp ==
  ASSUME UpInv, Init8259A
  PROVE  UpInv'
<1>1. Starting
  <2>1. pos = "init_8259A"
    BY DEF Init8259A, At
  <2> QED  BY <2>1 DEF UpInv, Started, KeyboardSteps
<1>2. /\ pos' = "init_prot" /\ masked' = IRQs /\ irq_table' = [i \in IRQs |-> "spurious_irq"]
      /\ UNCHANGED <<cpu, k_reenter, stack, regs, esp0, p_proc_ready>>
  BY DEF Init8259A, At
<1> QED  BY <1>1, <1>2 DEF UpInv, Starting, EarlySteps, KeyboardSteps

LEMMA InitProtUp ==
  ASSUME UpInv, InitProt
  PROVE  UpInv'
<1>1. Starting /\ pos = "init_prot"
  BY DEF InitProt, At, UpInv, Started, KeyboardSteps
<1>2. /\ pos' = "kernel_main" /\ gdt' = Descriptors /\ gdt_limit' = GDT_SIZE
      /\ UNCHANGED <<cpu, k_reenter, stack, regs, esp0, p_proc_ready, masked, irq_table>>
  BY DEF InitProt, At, Descriptors, vars
<1> QED  BY <1>1, <1>2 DEF UpInv, Starting, EarlySteps, KeyboardSteps

LEMMA KernelMainUp ==
  ASSUME UpInv, KernelMain
  PROVE  UpInv'
<1>1. Starting /\ pos = "kernel_main"
  BY DEF KernelMain, At, UpInv, Started, KeyboardSteps
<1>2. /\ pos' = "init_clock" /\ entry' = Entries /\ k_reenter' = 0 /\ p_proc_ready' = First
      /\ UNCHANGED <<cpu, stack, regs, esp0, masked, irq_table, gdt, gdt_limit>>
  BY DEF KernelMain, At, Entries
<1> QED  BY <1>1, <1>2 DEF UpInv, Starting, EarlySteps, KeyboardSteps

LEMMA InitClockUp ==
  ASSUME UpInv, InitClock
  PROVE  UpInv'
<1>1. Starting /\ pos = "init_clock"
  BY DEF InitClock, At, UpInv, Started, KeyboardSteps
<1>2. /\ pos' = "led" /\ masked' = masked \ {Clock}
      /\ irq_table' = [irq_table EXCEPT ![Clock] = "clock_handler"]
      /\ UNCHANGED <<cpu, k_reenter, stack, regs, esp0, p_proc_ready, entry, gdt, gdt_limit>>
  BY DEF InitClock, At, tables
<1>3. masked = IRQs /\ irq_table = [i \in IRQs |-> "spurious_irq"]
  BY <1>1 DEF Starting, EarlySteps
<1>4. irq_table' = [i \in IRQs |-> IF i = Clock THEN "clock_handler" ELSE
                      IF i = Keyboard /\ pos' = "enable" THEN "keyboard_handler"
                      ELSE "spurious_irq"]
  BY <1>2, <1>3
<1> QED  BY <1>1, <1>2, <1>3, <1>4 DEF UpInv, Starting, EarlySteps, KeyboardSteps

\* The dialogue with the keyboard, by either caller.
LEMMA LedsUp ==
  ASSUME UpInv, OutByte \/ KbAck
  PROVE  UpInv'
<1>1. /\ pos \in {"led", "led ack", "leds", "leds ack"}
      /\ pos' \in {"led ack", "leds", "leds ack", "disable"}
      /\ UNCHANGED <<vars, tables, ldtr, irq_table>>
  BY DEF OutByte, KbAck, At
<1>2. pos \in KeyboardSteps /\ pos' \in KeyboardSteps /\ pos \notin EarlySteps
      /\ pos' \notin EarlySteps
  BY <1>1 DEF KeyboardSteps, EarlySteps
<1>3. CASE Starting
  <2>1. UNCHANGED <<cpu, k_reenter, stack, regs, esp0, p_proc_ready, masked, gdt, gdt_limit,
                    entry, irq_table>>
    BY <1>1 DEF vars, tables
  <2>2. Entries' = Entries
    BY DEF Entries
  <2>3. irq_table = [i \in IRQs |-> IF i = Clock THEN "clock_handler" ELSE "spurious_irq"]
    BY <1>1, <1>2, <1>3 DEF Starting
  <2>4. irq_table' = [i \in IRQs |-> IF i = Clock THEN "clock_handler" ELSE
                        IF i = Keyboard /\ pos' = "enable" THEN "keyboard_handler"
                        ELSE "spurious_irq"]
    BY <1>1, <2>1, <2>3
  <2> QED  BY <1>1, <1>2, <1>3, <2>1, <2>2, <2>4 DEF Starting, UpInv
<1>4. CASE Started
  <2>1. EntryInv' /\ Lines' = Lines
    BY <1>1, <1>4, EntryUnchanged DEF Started
  <2>2. Off' = Off
    BY <1>1 DEF Off
  <2> QED  BY <1>1, <1>2, <1>4, <2>1, <2>2 DEF vars, tables, Started, UpInv
<1> QED  BY <1>3, <1>4 DEF UpInv

LEMMA DisableIrqUp ==
  ASSUME UpInv, DisableIrq
  PROVE  UpInv'
<1>1. /\ pos = "disable" /\ pos' = "put" /\ masked' = masked \cup {Keyboard}
      /\ UNCHANGED <<cpu, k_reenter, stack, regs, esp0, p_proc_ready, gdt, gdt_limit,
                     entry, ldtr, irq_table>>
  BY DEF DisableIrq, At, tables
<1>2. pos \in KeyboardSteps /\ pos' \in KeyboardSteps /\ pos' \notin EarlySteps
  BY <1>1 DEF KeyboardSteps, EarlySteps
<1>3. CASE Starting
  <2>1. masked' = IRQs \ {Clock}
    BY <1>1, <1>2, <1>3, StartUpAssumption DEF Starting
  <2>2. Entries' = Entries
    BY DEF Entries
  <2>3. irq_table' = [i \in IRQs |-> IF i = Clock THEN "clock_handler" ELSE
                        IF i = Keyboard /\ pos' = "enable" THEN "keyboard_handler"
                        ELSE "spurious_irq"]
    BY <1>1, <1>2, <1>3 DEF Starting
  <2> QED  BY <1>1, <1>2, <1>3, <2>1, <2>2, <2>3 DEF Starting, UpInv
<1>4. CASE Started
  <2>1. Lines = {} /\ masked' \subseteq IRQs
    BY <1>1, <1>4, OnlyInTask, StartUpAssumption DEF DisableIrq, At, Started, EntryInv, TypeOK
  <2>2. EntryInv' /\ Lines' = Lines
    BY <1>1, <1>4, <2>1, MaskChanges DEF Started
  <2>3. Off' = Off \cup {Keyboard}
    BY <1>1 DEF Off
  <2> QED  BY <1>1, <1>2, <1>4, <2>1, <2>2, <2>3 DEF Started, UpInv
<1> QED  BY <1>3, <1>4 DEF UpInv

LEMMA PutIrqHandlerUp ==
  ASSUME UpInv, PutIrqHandler
  PROVE  UpInv'
<1>1. /\ pos = "put" /\ pos' = "enable"
      /\ irq_table' = [irq_table EXCEPT ![Keyboard] = "keyboard_handler"]
      /\ UNCHANGED <<vars, tables, ldtr>>
  BY DEF PutIrqHandler, At
<1>2. pos \in KeyboardSteps /\ pos' \in KeyboardSteps /\ pos' \notin EarlySteps
  BY <1>1 DEF KeyboardSteps, EarlySteps
<1>3. CASE Starting
  <2>1. UNCHANGED <<cpu, k_reenter, stack, regs, esp0, p_proc_ready, masked, gdt, gdt_limit,
                    entry>>
    BY <1>1 DEF vars, tables
  <2>2. Entries' = Entries
    BY DEF Entries
  <2>3. irq_table = [i \in IRQs |-> IF i = Clock THEN "clock_handler" ELSE "spurious_irq"]
    BY <1>1, <1>2, <1>3 DEF Starting
  <2>4. irq_table' = [i \in IRQs |-> IF i = Clock THEN "clock_handler" ELSE
                        IF i = Keyboard /\ pos' = "enable" THEN "keyboard_handler"
                        ELSE "spurious_irq"]
    BY <1>1, <2>3, StartUpAssumption
  <2> QED  BY <1>1, <1>2, <1>3, <2>1, <2>2, <2>4 DEF Starting, UpInv
<1>4. CASE Started
  <2>1. EntryInv' /\ Lines' = Lines
    BY <1>1, <1>4, EntryUnchanged DEF Started
  <2>2. Off' = Off
    BY <1>1 DEF Off
  <2>3. irq_table' = Driver
    BY <1>1, <1>4, StartUpAssumption DEF Started, Driver
  <2> QED  BY <1>1, <1>2, <1>4, <2>1, <2>2, <2>3 DEF vars, tables, Started, UpInv
<1> QED  BY <1>3, <1>4 DEF UpInv

LEMMA EnableIrqUp ==
  ASSUME UpInv, EnableIrq
  PROVE  UpInv'
<1>1. /\ pos = "enable" /\ masked' = masked \ {Keyboard}
      /\ InKernel \/ InTask
      /\ UNCHANGED <<k_reenter, stack, regs, esp0, p_proc_ready, gdt, gdt_limit,
                     entry, ldtr, irq_table>>
  BY DEF EnableIrq, At, tables
<1>2. pos \in KeyboardSteps /\ pos \notin EarlySteps
  BY <1>1 DEF KeyboardSteps, EarlySteps
<1>3. CASE Starting
  <2>1. pos' = "led" /\ cpu' = Label("restart")
    BY <1>3 DEF EnableIrq, At, InKernel, Starting
  <2>2. masked' = IRQs \ {Clock, Keyboard} /\ k_reenter' = 0 /\ stack' = <<>>
    BY <1>1, <1>2, <1>3 DEF Starting
  <2>3. InProgress' = {} /\ Lines' = {}
    BY <2>2 DEF InProgress, Lines
  <2>4. ~Running'
    BY <2>1, Kinds DEF Running
  <2>5. TypeOK'
    BY <1>1, <1>3, <2>2, EntryAssumption DEF TypeOK, Starting
  <2>6. Control'
    BY <2>1, <2>2 DEF Control, AtRestart
  <2>7. LinesServed'
    BY <2>2, <2>3, <2>4, FS_EmptySet DEF LinesServed
  <2>8. EntryInv'
    BY <1>1, <1>3, <2>5, <2>6, <2>7 DEF EntryInv, Starting
  <2>9. irq_table' = Driver
    BY <1>1, <1>2, <1>3 DEF Starting, Driver
  <2>10. masked' = Lines' \cup Off' /\ Lines' \cap Off' = {}
    BY <2>1, <2>2, <2>3 DEF Off
  <2>11. gdt' = Descriptors /\ gdt_limit' = GDT_SIZE /\ entry' = Entries
    BY <1>1, <1>2, <1>3 DEF Starting, Entries
  <2> QED  BY <2>1, <2>8, <2>9, <2>10, <2>11 DEF Started, UpInv, KeyboardSteps
<1>4. CASE Started
  <2>1. Lines = {} /\ ~InKernel
    BY <1>1, <1>4, OnlyInTask
  <2>2. pos' = "up" /\ cpu' = cpu /\ masked' \subseteq IRQs
    BY <1>1, <1>4, <2>1 DEF EnableIrq, At, Started, EntryInv, TypeOK
  <2>3. EntryInv' /\ Lines' = Lines
    BY <1>1, <1>4, <2>1, <2>2, MaskChanges DEF Started
  <2>4. Off' = Off \ {Keyboard}
    BY <1>1, <2>2 DEF Off
  <2> QED  BY <1>1, <1>4, <2>1, <2>2, <2>3, <2>4 DEF Started, UpInv
<1> QED  BY <1>3, <1>4 DEF UpInv
-----------------------------------------------------------------------------
\* The entry code runs only once start-up has come to restart().
LEMMA EntryStarted ==
  ASSUME UpInv, EntryStep
  PROVE  Started
<1> SUFFICES ASSUME Starting PROVE FALSE  BY DEF UpInv
<1>1. /\ ~Running /\ cpu \notin Labels /\ \A i \in IRQs : cpu # Handler(i)
  BY NotRunning DEF Starting
<1> QED
  BY <1>1, EntryAssumption DEF EntryStep, TakeInterrupt, Interrupt, HandlerEnds,
     HandlerReturns, ClockReschedules, ClockSchedules, RestartLoads, Restart, Iretd,
     RestartReenter, Labels

LEMMA TakeInterruptUp ==
  ASSUME Started, NEW i \in IRQs, TakeInterrupt(i)
  PROVE  UpInv'
<1>1. Interrupt(i) /\ i \notin masked /\ masked' = masked \cup {i} /\ esp0' = esp0
      /\ cpu' = Handler(i) /\ cpu \in Contexts
  BY DEF TakeInterrupt, Interrupt, Running
<1>2. EntryInv' /\ Lines' = Lines \cup {i}
  BY <1>1, InterruptEntry DEF Started
<1>3. Off' = Off
  BY DEF Off, TakeInterrupt
<1>4. cpu # Label("restart")
  BY <1>1, Kinds
<1> QED  BY <1>1, <1>2, <1>3, <1>4 DEF Started, UpInv, TakeInterrupt, tables

LEMMA HandlerEndsUp ==
  ASSUME Started, NEW i \in IRQs, HandlerEnds(i)
  PROVE  UpInv'
<1>1. HandlerReturns(i) /\ masked' = masked \ {i} /\ esp0' = esp0 /\ cpu = Handler(i)
  BY DEF HandlerEnds, HandlerReturns
<1>2. EntryInv' /\ Lines' = Lines \ {i} /\ i \in Lines
  BY <1>1, HandlerReturnsEntry DEF Started
<1>3. Off' = Off
  BY DEF Off, HandlerEnds
<1>4. cpu # Label("restart")
  BY <1>1, Kinds
<1> QED  BY <1>1, <1>2, <1>3, <1>4 DEF Started, UpInv, HandlerEnds, tables

LEMMA ClockReschedulesUp ==
  ASSUME Started, NEW p \in Procs, ClockReschedules(p)
  PROVE  UpInv'
<1>1. ClockSchedules(p)
  BY DEF ClockReschedules
<1>2. EntryInv'
  BY <1>1, StepEntry DEF Started, InterruptNext
<1>3. Lines' = Lines /\ Off' = Off
  BY <1>1 DEF ClockReschedules, ClockSchedules, Lines, InProgress, Off
<1> QED  BY <1>1, <1>2, <1>3 DEF Started, UpInv, ClockReschedules, ClockSchedules, tables

LEMMA RestartLoadsUp ==
  ASSUME Started, RestartLoads
  PROVE  UpInv'
<1>1. Restart /\ esp0' = p_proc_ready /\ masked' = masked
  BY DEF RestartLoads, Restart
<1>2. EntryInv' /\ Lines' = Lines /\ p_proc_ready \in Procs
  BY <1>1, RestartEntry DEF Started, EntryInv, TypeOK
<1>3. Off' = Off
  BY DEF Off, RestartLoads
<1>4. ldtr' = Ldts(IndexOf(p_proc_ready))
  BY <1>2, OwnDescriptor DEF RestartLoads, Started
<1> QED  BY <1>1, <1>2, <1>3, <1>4 DEF Started, UpInv, RestartLoads, tables

LEMMA IretdUp ==
  ASSUME Started, Iretd
  PROVE  UpInv'
<1>1. RestartReenter /\ esp0' = esp0 /\ masked' = masked /\ cpu = Label("restart_reenter")
  BY DEF Iretd, RestartReenter
<1>2. EntryInv' /\ Lines' = Lines
  BY <1>1, RestartReenterEntry DEF Started
<1>3. Off' = Off
  BY DEF Off, Iretd
<1>4. cpu # Label("restart")
  BY <1>1 DEF Label
<1> QED  BY <1>1, <1>2, <1>3, <1>4 DEF Started, UpInv, Iretd, tables

LEMMA UpStep == UpInv /\ [UpNext]_upVars => UpInv'
<1> SUFFICES ASSUME UpInv, [UpNext]_upVars PROVE UpInv'  OBVIOUS
<1>1. CASE StartUpStep
  BY <1>1, Init8259AUp, InitProtUp, KernelMainUp, InitClockUp, LedsUp, DisableIrqUp,
     PutIrqHandlerUp, EnableIrqUp DEF StartUpStep
<1>2. CASE EntryStep
  BY <1>2, EntryStarted, TakeInterruptUp, HandlerEndsUp, ClockReschedulesUp, RestartLoadsUp,
     IretdUp DEF EntryStep
<1>3. CASE Devices \/ UNCHANGED upVars
  <2>1. UNCHANGED <<vars, pos, tables, ldtr, irq_table>>
    BY <1>3 DEF Devices, LineRises, DeliversAck, DeliversKey, Delivers, upVars
  <2> QED  BY <2>1, Quiet
<1> QED  BY <1>1, <1>2, <1>3 DEF UpNext
-----------------------------------------------------------------------------
\* The start-up code hands the entry code a state it can work from, and the
\* tables do not change after that.
THEOREM UpInvariant == UpSpec => []UpInv
BY InitUp, UpStep, PTL DEF UpSpec

\* The entry code keeps its promises from the first instruction on, while
\* task_tty masks and unmasks a line under it.
THEOREM EntryStaysSound ==
  UpSpec => []ReturnsToCode /\ []OwnRegisters /\ []MaskedWhileServed
<1>1. Starting => ReturnsToCode /\ OwnRegisters /\ MaskedWhileServed
  BY NotRunning DEF Starting, ReturnsToCode, OwnRegisters, MaskedWhileServed
<1>2. UpInv => ReturnsToCode /\ OwnRegisters /\ MaskedWhileServed
  BY <1>1, InvToCode, InvRegisters, InvMasked DEF UpInv, Started
<1> QED  BY <1>2, UpInvariant, PTL

\* Whatever rises when, a request is only ever answered by the driver of its
\* line, also while task_tty replaces the keyboard's handler.
THEOREM LinesHaveDrivers == UpSpec => []DriversOwnLines
<1>1. UpInv => DriversOwnLines
  <2> SUFFICES ASSUME UpInv, Running PROVE DriversOwnLines  BY DEF DriversOwnLines
  <2>1. Started
    BY NotRunning DEF UpInv, Starting
  <2>2. Served = Lines
    BY <2>1, ServedAreLines DEF Started
  <2> QED  BY <2>1, <2>2 DEF DriversOwnLines, Started, Off
<1> QED  BY <1>1, UpInvariant, PTL

\* The process that runs is the one whose LDT restart has loaded, and each has
\* a part of task_stack to itself.
THEOREM MemoryIsOwn == UpSpec => []OwnMemory
<1>1. UpInv => OwnSegments
  <2> SUFFICES ASSUME UpInv, FromUser PROVE OwnSegments  BY DEF OwnSegments
  <2>1. Started
    BY NotRunning DEF UpInv, Starting
  <2>2. cpu = User(esp0) /\ esp0 \in Procs
    BY <2>1, Kinds DEF Started, EntryInv, TypeOK, Control, InUser, InHandler, AtRestart,
                       AtReenter, FromUser
  <2>3. cpu.of = esp0 /\ cpu # Label("restart")
    BY <2>2, Kinds
  <2> QED  BY <2>1, <2>3 DEF OwnSegments, Started
<1>2. UpInv => OwnStacks
  <2> SUFFICES ASSUME UpInv, Running PROVE OwnStacks  BY DEF OwnStacks
  <2>1. Started
    BY NotRunning DEF UpInv, Starting
  <2> QED  BY <2>1, StacksApart DEF Started
<1>3. UpInv => OwnMemory
  BY <1>1, <1>2 DEF OwnMemory
<1> QED  BY <1>3, UpInvariant, PTL
=============================================================================
