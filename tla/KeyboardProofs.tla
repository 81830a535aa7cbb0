--------------------------- MODULE KeyboardProofs ---------------------------
(***************************************************************************)
(* keyboard_read passes on what was typed, proved for every set of keys,   *)
(* every size of kb_in and every number of events.                         *)
(*                                                                         *)
(* The bytes under way (in prefix, queue and line) are a sequence of       *)
(* codes.  The invariant KeyInv says that the decoder, replayed over them  *)
(* from its present flags and locks, hands over exactly what is due and    *)
(* ends with the flags of the keys held and the locks of the lights.  A    *)
(* replay is a path of configurations, one complete code to a step; a key  *)
(* that is pressed makes the path longer at its far end, a code that is    *)
(* read takes its first step away.  That the decoder cuts the bytes into   *)
(* codes where the keyboard did (SameCode) holds because no code is the    *)
(* beginning of another.                                                   *)
(***************************************************************************)
EXTENDS Keyboard, SequenceTheorems, TLAPS

Byte  == 0..255
Names == (DOMAIN MakeCode) \cup {"A", "8"}
Item  == [key : Names, flags : SUBSET Mods]

\* keyboard_read takes s for a whole code.
Complete(s) ==
  \/ Len(s) = 1 /\ s[1] \notin {224, 225}
  \/ Len(s) = 2 /\ s[1] = 224 /\ s[2] \notin {42, 183}
  \/ IsPauseOrPrint(s)

\* What pressing k adds to due, with the keys D held and the locks L.
Out(k, D, L) == IF Passes(k) THEN <<[key |-> Meaning(k, D, L), flags |-> Flags(D)]>> ELSE <<>>

LitAfter(k, L) == IF k \in Locks THEN Toggle(L, {k}) ELSE L

\* The keys MakeCode has a code for.
LEMMA KeyNames ==
  DOMAIN MakeCode = {"a", "SHIFT_L", "SHIFT_R", "CTRL_L", "CTRL_R", "ALT_L", "ALT_R", "UP",
                     "PAD_UP", "CAPS_LOCK", "NUM_LOCK", "F2", "PRINTSCREEN", "PAUSEBREAK"}
BY DEF MakeCode

\* The make codes of one byte.
LEMMA MakesOfOne ==
  /\ MakeCode["a"] = <<30>> /\ MakeCode["SHIFT_L"] = <<42>> /\ MakeCode["SHIFT_R"] = <<54>>
  /\ MakeCode["CTRL_L"] = <<29>> /\ MakeCode["ALT_L"] = <<56>> /\ MakeCode["PAD_UP"] = <<72>>
  /\ MakeCode["CAPS_LOCK"] = <<58>> /\ MakeCode["NUM_LOCK"] = <<69>> /\ MakeCode["F2"] = <<60>>
BY DEF MakeCode

\* Those of two bytes.
LEMMA MakesOfTwo ==
  /\ MakeCode["CTRL_R"] = <<224, 29>> /\ MakeCode["ALT_R"] = <<224, 56>>
  /\ MakeCode["UP"] = <<224, 72>>
BY DEF MakeCode

\* PrintScreen and Pause.
LEMMA OtherMakes ==
  MakeCode["PRINTSCREEN"] = <<224, 42, 224, 55>> /\ MakeCode["PAUSEBREAK"] = PauseCode
BY DEF MakeCode

\* A break code of one byte has bit 7 set.
LEMMA BreakOne ==
  ASSUME NEW k \in DOMAIN MakeCode, NEW b \in Byte \ {224}, MakeCode[k] = <<b>>,
         k \notin {"PRINTSCREEN", "PAUSEBREAK"}
  PROVE  BreakCode[k] = <<b + 128>>
<1>1. BreakCode[k] = [n \in DOMAIN <<b>> |-> IF <<b>>[n] = 224 THEN 224 ELSE <<b>>[n] + 128]
  BY DEF BreakCode
<1>2. DOMAIN <<b>> = 1..1 /\ <<b>>[1] = b
  OBVIOUS
<1>3. BreakCode[k] = [n \in 1..1 |-> b + 128]
  BY <1>1, <1>2 DEF Byte
<1> QED  BY <1>3

\* After E0 the second byte has it.
LEMMA BreakTwo ==
  ASSUME NEW k \in DOMAIN MakeCode, NEW b \in Byte \ {224}, MakeCode[k] = <<224, b>>,
         k \notin {"PRINTSCREEN", "PAUSEBREAK"}
  PROVE  BreakCode[k] = <<224, b + 128>>
<1>1. BreakCode[k] = [n \in DOMAIN <<224, b>> |-> IF <<224, b>>[n] = 224 THEN 224
                                                  ELSE <<224, b>>[n] + 128]
  BY DEF BreakCode
<1>2. DOMAIN <<224, b>> = 1..2 /\ <<224, b>>[1] = 224 /\ <<224, b>>[2] = b
  OBVIOUS
<1>3. BreakCode[k] = [n \in 1..2 |-> IF n = 1 THEN 224 ELSE b + 128]
  BY <1>1, <1>2 DEF Byte
<1> QED  BY <1>3

\* The break codes of one byte.
LEMMA BreaksOfOne ==
  /\ BreakCode["a"] = <<158>> /\ BreakCode["SHIFT_L"] = <<170>> /\ BreakCode["SHIFT_R"] = <<182>>
  /\ BreakCode["CTRL_L"] = <<157>> /\ BreakCode["ALT_L"] = <<184>> /\ BreakCode["PAD_UP"] = <<200>>
  /\ BreakCode["CAPS_LOCK"] = <<186>> /\ BreakCode["NUM_LOCK"] = <<197>> /\ BreakCode["F2"] = <<188>>
<1>1. /\ 30 + 128 = 158 /\ 42 + 128 = 170 /\ 54 + 128 = 182 /\ 29 + 128 = 157 /\ 56 + 128 = 184
      /\ 72 + 128 = 200 /\ 58 + 128 = 186 /\ 69 + 128 = 197 /\ 60 + 128 = 188
      /\ {30, 42, 54, 29, 56, 72, 58, 69, 60} \subseteq Byte \ {224}
  BY DEF Byte
<1> QED  BY <1>1, KeyNames, MakesOfOne, BreakOne

\* Those of two bytes.
LEMMA BreaksOfTwo ==
  /\ BreakCode["CTRL_R"] = <<224, 157>> /\ BreakCode["ALT_R"] = <<224, 184>>
  /\ BreakCode["UP"] = <<224, 200>>
<1>1. 29 + 128 = 157 /\ 56 + 128 = 184 /\ 72 + 128 = 200 /\ {29, 56, 72} \subseteq Byte \ {224}
  BY DEF Byte
<1> QED  BY <1>1, KeyNames, MakesOfTwo, BreakTwo

\* PrintScreen has a break code of its own and Pause has none.
LEMMA OtherBreaks ==
  BreakCode["PRINTSCREEN"] = <<224, 183, 224, 170>> /\ BreakCode["PAUSEBREAK"] = <<>>
BY KeyNames DEF BreakCode

\* A complete code of one to six bytes.
Code(s) == s \in Seq(Byte) /\ Complete(s) /\ Len(s) <= 6 /\ s # <<>>

\* The three shapes of a code are complete and no longer than six bytes.
LEMMA Shapes ==
  /\ \A b \in Byte \ {224, 225} : Code(<<b>>) /\ Len(<<b>>) = 1
  /\ \A b \in Byte \ {42, 183} : Code(<<224, b>>)
  /\ Code(PauseCode) /\ Code(<<224, 42, 224, 55>>) /\ Code(<<224, 183, 224, 170>>)
<1>1. {30, 42, 54, 29, 56, 72, 58, 69, 60, 224, 183, 170, 55, 225, 157, 197} \subseteq Byte
  BY DEF Byte
<1>2. \A b \in Byte \ {224, 225} : Code(<<b>>) /\ Len(<<b>>) = 1
  BY DEF Code, Complete
<1>3. \A b \in Byte \ {42, 183} : Code(<<224, b>>)
  BY <1>1 DEF Code, Complete
<1>4. Code(PauseCode)
  <2>1. PauseCode \in Seq(Byte) /\ Len(PauseCode) = 6
    BY <1>1 DEF PauseCode
  <2> QED  BY <2>1 DEF Code, Complete, IsPauseOrPrint
<1>5. Code(<<224, 42, 224, 55>>) /\ Code(<<224, 183, 224, 170>>)
  BY <1>1 DEF Code, Complete, IsPauseOrPrint
<1> QED  BY <1>2, <1>3, <1>4, <1>5

\* Every code a key sends is complete; that of a lock key is one byte, which
\* leaves room for its two acknowledgements.
LEMMA CodesComplete ==
  ASSUME NEW k \in DOMAIN MakeCode
  PROVE  /\ Code(MakeCode[k]) /\ (k \in Locks => Len(MakeCode[k]) = 1)
         /\ k # "PAUSEBREAK" => Code(BreakCode[k])
<1>1. /\ {30, 42, 54, 29, 56, 72, 58, 69, 60} \subseteq Byte \ {224, 225}
      /\ {158, 170, 182, 157, 184, 200, 186, 197, 188} \subseteq Byte \ {224, 225}
      /\ {29, 56, 72, 157, 184, 200} \subseteq Byte \ {42, 183}
  BY DEF Byte
<1>2. Code(MakeCode[k])
  <2>1. CASE k \in {"CTRL_R", "ALT_R", "UP"}
    <3>1. \E b \in Byte \ {42, 183} : MakeCode[k] = <<224, b>>
      BY <1>1, <2>1, MakesOfTwo
    <3> QED  BY <3>1, Shapes
  <2>2. CASE k \in {"PRINTSCREEN", "PAUSEBREAK"}
    BY <2>2, OtherMakes, Shapes
  <2>3. CASE k \in {"a", "SHIFT_L", "SHIFT_R", "CTRL_L", "ALT_L", "PAD_UP", "CAPS_LOCK",
                      "NUM_LOCK", "F2"}
    <3>1. \E b \in Byte \ {224, 225} : MakeCode[k] = <<b>>
      BY <1>1, <2>3, MakesOfOne
    <3> QED  BY <3>1, Shapes
  <2> QED  BY <2>1, <2>2, <2>3, KeyNames
<1>3. k \in Locks => Len(MakeCode[k]) = 1
  <2>1. k = "SCROLL_LOCK" => k \notin DOMAIN MakeCode
    BY KeyNames
  <2>2. CASE k \in {"CAPS_LOCK", "NUM_LOCK"}
    <3>1. \E b \in Byte \ {224, 225} : MakeCode[k] = <<b>>
      BY <1>1, <2>2, MakesOfOne
    <3> QED  BY <3>1, Shapes
  <2> QED  BY <2>1, <2>2 DEF Locks
<1>4. k # "PAUSEBREAK" => Code(BreakCode[k])
  <2>1. CASE k \in {"CTRL_R", "ALT_R", "UP"}
    <3>1. \E b \in Byte \ {42, 183} : BreakCode[k] = <<224, b>>
      BY <1>1, <2>1, BreaksOfTwo
    <3> QED  BY <3>1, Shapes
  <2>2. CASE k = "PRINTSCREEN"
    BY <2>2, OtherBreaks, Shapes
  <2>3. CASE k \in {"a", "SHIFT_L", "SHIFT_R", "CTRL_L", "ALT_L", "PAD_UP", "CAPS_LOCK",
                      "NUM_LOCK", "F2"}
    <3>1. \E b \in Byte \ {224, 225} : BreakCode[k] = <<b>>
      BY <1>1, <2>3, BreaksOfOne
    <3> QED  BY <3>1, Shapes
  <2> QED  BY <2>1, <2>2, <2>3, KeyNames
<1> QED  BY <1>2, <1>3, <1>4

\* The rows of keymap, and the empty one an acknowledgement selects.
LEMMA RowsAre ==
  /\ keymap(29) = <<"CTRL_L", "CTRL_L", "CTRL_R">> /\ keymap(30) = <<"a", "A", None>>
  /\ keymap(42) = <<"SHIFT_L", "SHIFT_L", None>> /\ keymap(54) = <<"SHIFT_R", "SHIFT_R", None>>
  /\ keymap(56) = <<"ALT_L", "ALT_L", "ALT_R">> /\ keymap(58) = <<"CAPS_LOCK", "CAPS_LOCK", None>>
  /\ keymap(60) = <<"F2", "F2", None>> /\ keymap(69) = <<"NUM_LOCK", "NUM_LOCK", None>>
  /\ keymap(72) = <<"PAD_UP", "8", "UP">>
  /\ keymap(122) = <<None, None, None>>
BY DEF keymap, Rows

\* The key of the complete code s, and the one the user meant by k.
KeyOf(s, S, L) ==
  LET row == keymap(Looked(s) % 128) IN row[Column(row, s[1] = 224, S, L)]
Typed(k, S, L) ==
  IF k = "a" THEN (IF Shifted(S) # ("CAPS_LOCK" \in L) THEN "A" ELSE "a")
  ELSE IF k = "PAD_UP" /\ Shifted(S) THEN "8" ELSE k

\* A code of one byte is looked up in the first two columns.
LEMMA KeyOfOne ==
  ASSUME NEW b \in Byte \ {224}, NEW S, NEW L
  PROVE  KeyOf(<<b>>, S, L) =
           LET row == keymap(b % 128)
           IN  IF Shifted(S) # ("CAPS_LOCK" \in L /\ row[1] = "a") THEN row[2] ELSE row[1]
<1>1. <<b>>[1] = b /\ Looked(<<b>>) = b
  BY DEF Looked
<1> QED  BY <1>1 DEF KeyOf, Column

\* A code of two bytes is looked up in the third.
LEMMA KeyOfTwo ==
  ASSUME NEW b \in Byte, NEW S, NEW L
  PROVE  KeyOf(<<224, b>>, S, L) = keymap(b % 128)[3]
<1>1. <<224, b>>[1] = 224 /\ Looked(<<224, b>>) = b
  BY DEF Looked
<1> QED  BY <1>1 DEF KeyOf, Column

\* Clearing bit 7 turns a break code into its make code.
LEMMA LowBits ==
  /\ 30 % 128 = 30 /\ 158 % 128 = 30 /\ 42 % 128 = 42 /\ 170 % 128 = 42
  /\ 54 % 128 = 54 /\ 182 % 128 = 54 /\ 29 % 128 = 29 /\ 157 % 128 = 29
  /\ 56 % 128 = 56 /\ 184 % 128 = 56 /\ 72 % 128 = 72 /\ 200 % 128 = 72
  /\ 58 % 128 = 58 /\ 186 % 128 = 58 /\ 69 % 128 = 69 /\ 197 % 128 = 69
  /\ 60 % 128 = 60 /\ 188 % 128 = 60 /\ 250 % 128 = 122
OBVIOUS

\* A key with the same name in two columns is found whatever is held.
LEMMA SameColumns ==
  ASSUME NEW b \in 1..95, NEW k, keymap(b)[1] = k, keymap(b)[2] = k, NEW S, NEW L
  PROVE  KeyOf(<<b>>, S, L) = k /\ KeyOf(<<b + 128>>, S, L) = k
<1>1. b % 128 = b /\ (b + 128) % 128 = b /\ {b, b + 128} \subseteq Byte \ {224}
  BY DEF Byte
<1> QED  BY <1>1, KeyOfOne

\* The keys of one byte that mean the same whatever is held.
LEMMA OneTyped ==
  ASSUME NEW S, NEW L
  PROVE  /\ KeyOf(<<42>>, S, L) = "SHIFT_L" /\ KeyOf(<<170>>, S, L) = "SHIFT_L"
         /\ KeyOf(<<54>>, S, L) = "SHIFT_R" /\ KeyOf(<<182>>, S, L) = "SHIFT_R"
         /\ KeyOf(<<29>>, S, L) = "CTRL_L" /\ KeyOf(<<157>>, S, L) = "CTRL_L"
         /\ KeyOf(<<56>>, S, L) = "ALT_L" /\ KeyOf(<<184>>, S, L) = "ALT_L"
         /\ KeyOf(<<58>>, S, L) = "CAPS_LOCK" /\ KeyOf(<<186>>, S, L) = "CAPS_LOCK"
         /\ KeyOf(<<69>>, S, L) = "NUM_LOCK" /\ KeyOf(<<197>>, S, L) = "NUM_LOCK"
         /\ KeyOf(<<60>>, S, L) = "F2" /\ KeyOf(<<188>>, S, L) = "F2"
<1>1. KeyOf(<<42>>, S, L) = "SHIFT_L" /\ KeyOf(<<170>>, S, L) = "SHIFT_L"
  <2>1. 42 \in 1..95 /\ 42 + 128 = 170
    OBVIOUS
  <2> QED  BY <2>1, RowsAre, SameColumns
<1>2. KeyOf(<<54>>, S, L) = "SHIFT_R" /\ KeyOf(<<182>>, S, L) = "SHIFT_R"
  <2>1. 54 \in 1..95 /\ 54 + 128 = 182
    OBVIOUS
  <2> QED  BY <2>1, RowsAre, SameColumns
<1>3. KeyOf(<<29>>, S, L) = "CTRL_L" /\ KeyOf(<<157>>, S, L) = "CTRL_L"
  <2>1. 29 \in 1..95 /\ 29 + 128 = 157
    OBVIOUS
  <2> QED  BY <2>1, RowsAre, SameColumns
<1>4. KeyOf(<<56>>, S, L) = "ALT_L" /\ KeyOf(<<184>>, S, L) = "ALT_L"
  <2>1. 56 \in 1..95 /\ 56 + 128 = 184
    OBVIOUS
  <2> QED  BY <2>1, RowsAre, SameColumns
<1>5. KeyOf(<<58>>, S, L) = "CAPS_LOCK" /\ KeyOf(<<186>>, S, L) = "CAPS_LOCK"
  <2>1. 58 \in 1..95 /\ 58 + 128 = 186
    OBVIOUS
  <2> QED  BY <2>1, RowsAre, SameColumns
<1>6. KeyOf(<<69>>, S, L) = "NUM_LOCK" /\ KeyOf(<<197>>, S, L) = "NUM_LOCK"
  <2>1. 69 \in 1..95 /\ 69 + 128 = 197
    OBVIOUS
  <2> QED  BY <2>1, RowsAre, SameColumns
<1>7. KeyOf(<<60>>, S, L) = "F2" /\ KeyOf(<<188>>, S, L) = "F2"
  <2>1. 60 \in 1..95 /\ 60 + 128 = 188
    OBVIOUS
  <2> QED  BY <2>1, RowsAre, SameColumns
<1> QED  BY <1>1, <1>2, <1>3, <1>4, <1>5, <1>6, <1>7

\* The keys of two bytes.
LEMMA TwoTyped ==
  ASSUME NEW S, NEW L
  PROVE  /\ KeyOf(<<224, 29>>, S, L) = "CTRL_R" /\ KeyOf(<<224, 157>>, S, L) = "CTRL_R"
         /\ KeyOf(<<224, 56>>, S, L) = "ALT_R" /\ KeyOf(<<224, 184>>, S, L) = "ALT_R"
         /\ KeyOf(<<224, 72>>, S, L) = "UP" /\ KeyOf(<<224, 200>>, S, L) = "UP"
<1>1. KeyOf(<<224, 29>>, S, L) = "CTRL_R" /\ KeyOf(<<224, 157>>, S, L) = "CTRL_R"
  <2>1. {29, 157} \subseteq Byte
    BY DEF Byte
  <2> QED  BY <2>1, LowBits, RowsAre, KeyOfTwo
<1>2. KeyOf(<<224, 56>>, S, L) = "ALT_R" /\ KeyOf(<<224, 184>>, S, L) = "ALT_R"
  <2>1. {56, 184} \subseteq Byte
    BY DEF Byte
  <2> QED  BY <2>1, LowBits, RowsAre, KeyOfTwo
<1>3. KeyOf(<<224, 72>>, S, L) = "UP" /\ KeyOf(<<224, 200>>, S, L) = "UP"
  <2>1. {72, 200} \subseteq Byte
    BY DEF Byte
  <2> QED  BY <2>1, LowBits, RowsAre, KeyOfTwo
<1> QED  BY <1>1, <1>2, <1>3

\* Make and break code of a key are looked up as the key the user meant.
LEMMA KeysTyped ==
  ASSUME NEW k \in DOMAIN MakeCode, Passes(k), NEW S, NEW L
  PROVE  /\ KeyOf(MakeCode[k], S, L) = Typed(k, S, L)
         /\ KeyOf(BreakCode[k], S, L) = Typed(k, S, L)
<1>1. /\ {30, 42, 54, 29, 56, 72, 58, 69, 60} \subseteq Byte \ {224, 225}
      /\ {158, 170, 182, 157, 184, 200, 186, 197, 188} \subseteq Byte \ {224, 225}
  BY DEF Byte
<1>2. k \in {"a", "SHIFT_L", "SHIFT_R", "CTRL_L", "CTRL_R", "ALT_L", "ALT_R", "UP",
             "PAD_UP", "CAPS_LOCK", "NUM_LOCK", "F2"}
  BY KeyNames DEF Passes
<1>3. CASE k \in {"CTRL_R", "ALT_R", "UP"}
  <2>1. Typed(k, S, L) = k
    BY <1>3 DEF Typed
  <2>2. CASE k = "CTRL_R"
    BY <2>1, <2>2, MakesOfTwo, BreaksOfTwo, TwoTyped
  <2>3. CASE k = "ALT_R"
    BY <2>1, <2>3, MakesOfTwo, BreaksOfTwo, TwoTyped
  <2>4. CASE k = "UP"
    BY <2>1, <2>4, MakesOfTwo, BreaksOfTwo, TwoTyped
  <2> QED  BY <1>3, <2>2, <2>3, <2>4
<1>4. CASE k \in {"SHIFT_L", "SHIFT_R", "CTRL_L", "ALT_L", "CAPS_LOCK", "NUM_LOCK", "F2"}
  <2>1. Typed(k, S, L) = k
    BY <1>4 DEF Typed
  <2>2. CASE k = "SHIFT_L"
    BY <2>1, <2>2, MakesOfOne, BreaksOfOne, OneTyped
  <2>3. CASE k = "SHIFT_R"
    BY <2>1, <2>3, MakesOfOne, BreaksOfOne, OneTyped
  <2>4. CASE k = "CTRL_L"
    BY <2>1, <2>4, MakesOfOne, BreaksOfOne, OneTyped
  <2>5. CASE k = "ALT_L"
    BY <2>1, <2>5, MakesOfOne, BreaksOfOne, OneTyped
  <2>6. CASE k = "CAPS_LOCK"
    BY <2>1, <2>6, MakesOfOne, BreaksOfOne, OneTyped
  <2>7. CASE k = "NUM_LOCK"
    BY <2>1, <2>7, MakesOfOne, BreaksOfOne, OneTyped
  <2>8. CASE k = "F2"
    BY <2>1, <2>8, MakesOfOne, BreaksOfOne, OneTyped
  <2> QED  BY <1>4, <2>2, <2>3, <2>4, <2>5, <2>6, <2>7, <2>8
<1>5. CASE k = "a"
  <2>1. /\ MakeCode[k] = <<30>> /\ BreakCode[k] = <<158>> /\ keymap(30 % 128) = keymap(158 % 128)
        /\ keymap(30 % 128)[1] = "a" /\ keymap(30 % 128)[2] = "A"
    BY <1>5, MakesOfOne, BreaksOfOne, LowBits, RowsAre
  <2> QED  BY <1>1, <1>5, <2>1, KeyOfOne DEF Typed
<1>6. CASE k = "PAD_UP"
  <2>1. /\ MakeCode[k] = <<72>> /\ BreakCode[k] = <<200>> /\ keymap(72 % 128) = keymap(200 % 128)
        /\ keymap(72 % 128)[1] = "PAD_UP" /\ keymap(72 % 128)[2] = "8"
    BY <1>6, MakesOfOne, BreaksOfOne, LowBits, RowsAre
  <2> QED  BY <1>1, <1>6, <2>1, KeyOfOne DEF Typed, Shifted
<1> QED  BY <1>2, <1>3, <1>4, <1>5, <1>6

\* A key that is pressed adds its flag, if it has one.
LEMMA FlagsPressed ==
  ASSUME NEW k, NEW D
  PROVE  Flags(D \cup {k}) = IF k \in Mods THEN Flags(D) \cup {IF k = "ALT_R" THEN "ALT_L" ELSE k}
                                           ELSE Flags(D)
BY DEF Flags

\* With one of the Alt keys a flag is of one key.
LEMMA FlagsReleased ==
  ASSUME NEW k, NEW D, k \in D, ~({"ALT_L", "ALT_R"} \subseteq D)
  PROVE  Flags(D \ {k}) = IF k \in Mods THEN Flags(D) \ {IF k = "ALT_R" THEN "ALT_L" ELSE k}
                                        ELSE Flags(D)
BY DEF Flags, Mods

\* The flags tell whether a shift key is held.
LEMMA ShiftedFlags ==
  ASSUME NEW D
  PROVE  Shifted(Flags(D)) = Shifted(D)
BY DEF Shifted, Flags, Mods

\* What is looked up is a modifier or a lock exactly when the key is one.
LEMMA KeyTyped ==
  ASSUME NEW k \in DOMAIN MakeCode, Passes(k), NEW S, NEW L
  PROVE  LET key == Typed(k, S, L)
         IN  /\ key \in Mods <=> k \in Mods
             /\ key \in Locks <=> k \in Locks
             /\ k \in Mods \cup Locks => key = k
BY DEF Typed, Mods, Locks

\* Bit 7 tells make codes from break codes.
LEMMA Sides ==
  ASSUME NEW k \in DOMAIN MakeCode, Passes(k)
  PROVE  /\ Looked(MakeCode[k]) < 128 /\ ~IsPauseOrPrint(MakeCode[k])
         /\ ~(Looked(BreakCode[k]) < 128) /\ ~IsPauseOrPrint(BreakCode[k])
<1>1. k \in {"a", "SHIFT_L", "SHIFT_R", "CTRL_L", "CTRL_R", "ALT_L", "ALT_R", "UP",
             "PAD_UP", "CAPS_LOCK", "NUM_LOCK", "F2"}
  BY KeyNames DEF Passes
<1>2. CASE k \in {"CTRL_R", "ALT_R", "UP"}
  <2>1. \E m \in 0..127 : MakeCode[k] = <<224, m>>
    BY <1>2, MakesOfTwo
  <2>2. \E b \in 128..255 : BreakCode[k] = <<224, b>>
    BY <1>2, BreaksOfTwo
  <2> QED  BY <2>1, <2>2 DEF Looked, IsPauseOrPrint, PauseCode
<1>3. CASE k \notin {"CTRL_R", "ALT_R", "UP"}
  <2>1. \E m \in 0..127 : MakeCode[k] = <<m>>
    BY <1>1, <1>3, MakesOfOne
  <2>2. \E b \in (128..255) \ {224} : BreakCode[k] = <<b>>
    BY <1>1, <1>3, BreaksOfOne
  <2> QED  BY <2>1, <2>2 DEF Looked, IsPauseOrPrint, PauseCode
<1> QED  BY <1>2, <1>3

\* Nothing toggled, nothing changed.
LEMMA NoToggle == ASSUME NEW L PROVE Toggle(L, {}) = L
BY DEF Toggle

\* What keyboard_read does with a make code, in terms of the key looked up.
LEMMA EffectOfMake ==
  ASSUME NEW s, NEW S, NEW L, Looked(s) < 128, ~IsPauseOrPrint(s)
  PROVE  LET key == KeyOf(s, S, L)
             M   == Toggle(L, IF Toggles(key, TRUE) THEN {key} ELSE {})
         IN  Effect(s, S, L)
               = [mods |-> ModsAfter(key, TRUE, S), locks |-> M,
                  leds |-> IF Toggles(key, TRUE) THEN 2 ELSE 0,
                  out  |-> <<[key |-> Padded(key, M), flags |-> ModsAfter(key, TRUE, S)]>>]
<1> DEFINE key == KeyOf(s, S, L)
           make == Looked(s) < 128
           flip == IF Toggles(key, make) THEN {key} ELSE {}
           M == Toggle(L, flip)
<1>1. Effect(s, S, L)
        = [mods |-> ModsAfter(key, make, S), locks |-> M,
           leds |-> IF flip = {} THEN 0 ELSE 2,
           out  |-> IF make THEN <<[key |-> Padded(key, M), flags |-> ModsAfter(key, make, S)]>>
                    ELSE <<>>]
  BY DEF Effect, KeyOf
<1>2. ModsAfter(key, make, S) = ModsAfter(key, TRUE, S)
  BY DEF ModsAfter
<1>3. flip = IF Toggles(key, TRUE) THEN {key} ELSE {}
  BY DEF Toggles
<1>4. flip = {} <=> ~Toggles(key, TRUE)
  BY <1>3
<1>5. make
  OBVIOUS
<1> SUFFICES Effect(s, S, L)
               = [mods |-> ModsAfter(key, TRUE, S), locks |-> M,
                  leds |-> IF Toggles(key, TRUE) THEN 2 ELSE 0,
                  out  |-> <<[key |-> Padded(key, M), flags |-> ModsAfter(key, TRUE, S)]>>]
  BY <1>3
<1> HIDE DEF flip, key, make, M
<1> QED  BY <1>1, <1>2, <1>4, <1>5

\* With a break code it does no more than clear a flag.
LEMMA EffectOfBreak ==
  ASSUME NEW s, NEW S, NEW L, ~(Looked(s) < 128), ~IsPauseOrPrint(s)
  PROVE  Effect(s, S, L)
           = [mods |-> ModsAfter(KeyOf(s, S, L), FALSE, S), locks |-> L, leds |-> 0, out |-> <<>>]
<1> DEFINE key == KeyOf(s, S, L)
           make == Looked(s) < 128
           flip == IF Toggles(key, make) THEN {key} ELSE {}
<1>1. Effect(s, S, L)
        = [mods |-> ModsAfter(key, make, S), locks |-> Toggle(L, flip),
           leds |-> IF flip = {} THEN 0 ELSE 2,
           out  |-> IF make THEN <<[key |-> Padded(key, Toggle(L, flip)),
                                    flags |-> ModsAfter(key, make, S)]>>
                    ELSE <<>>]
  BY DEF Effect, KeyOf
<1>2. ModsAfter(key, make, S) = ModsAfter(key, FALSE, S)
  BY DEF ModsAfter
<1>3. flip = {}
  BY DEF Toggles
<1>4. Toggle(L, flip) = L
  BY <1>3, NoToggle
<1>5. ~make
  OBVIOUS
<1> SUFFICES Effect(s, S, L) = [mods |-> ModsAfter(key, FALSE, S), locks |-> L, leds |-> 0,
                                out  |-> <<>>]
  OBVIOUS
<1> HIDE DEF flip, key, make
<1> QED  BY <1>1, <1>2, <1>3, <1>4, <1>5

\* Pressing k tells a decoder whose flags and locks are those of the keyboard
\* what it tells the user.
LEMMA MakeEffect ==
  ASSUME NEW k \in DOMAIN MakeCode, NEW D, NEW L
  PROVE  Effect(MakeCode[k], Flags(D), L)
           = [mods |-> Flags(D \cup {k}), locks |-> LitAfter(k, L),
              leds |-> IF k \in Locks THEN 2 ELSE 0,
              out  |-> Out(k, D \cup {k}, LitAfter(k, L))]
<1> DEFINE S == Flags(D)  M == LitAfter(k, L)  key == Typed(k, S, L)  s == MakeCode[k]
<1>1. CASE Passes(k)
  <2>1. KeyOf(s, S, L) = key /\ Looked(s) < 128 /\ ~IsPauseOrPrint(s)
    BY <1>1, KeysTyped, Sides
  <2>2. ModsAfter(key, TRUE, S) = Flags(D \cup {k})
    BY <1>1, KeyTyped, FlagsPressed DEF ModsAfter
  <2>3. /\ Toggle(L, IF Toggles(key, TRUE) THEN {key} ELSE {}) = M
        /\ (IF Toggles(key, TRUE) THEN {key} ELSE {}) = {} <=> k \notin Locks
    BY <1>1, KeyTyped, NoToggle DEF Toggles, LitAfter
  <2>4. Padded(key, M) = Meaning(k, D \cup {k}, M)
    BY <1>1, ShiftedFlags DEF Padded, Meaning, Typed, Shifted, LitAfter, Locks
  <2>5. Out(k, D \cup {k}, M) = <<[key |-> Padded(key, M), flags |-> Flags(D \cup {k})]>>
    BY <1>1, <2>4 DEF Out
  <2>6. Toggles(key, TRUE) <=> k \in Locks
    BY <2>3
  <2> HIDE DEF key
  <2> QED  BY <2>1, <2>2, <2>3, <2>5, <2>6, EffectOfMake
<1>2. CASE ~Passes(k)
  <2>1. IsPauseOrPrint(s) /\ k \notin Mods \cup Locks
    BY <1>2, OtherMakes DEF IsPauseOrPrint, Passes, Mods, Locks
  <2> QED  BY <1>2, <2>1, FlagsPressed DEF Effect, LitAfter, Out
<1> QED  BY <1>1, <1>2

\* Releasing k tells it no more than that k is up.
LEMMA BreakEffect ==
  ASSUME NEW k \in DOMAIN MakeCode, k # "PAUSEBREAK", NEW D, NEW L,
         k \in D, ~({"ALT_L", "ALT_R"} \subseteq D)
  PROVE  Effect(BreakCode[k], Flags(D), L)
           = [mods |-> Flags(D \ {k}), locks |-> L, leds |-> 0, out |-> <<>>]
<1> DEFINE S == Flags(D)  key == Typed(k, S, L)  s == BreakCode[k]
<1>1. CASE Passes(k)
  <2>1. KeyOf(s, S, L) = key /\ ~(Looked(s) < 128) /\ ~IsPauseOrPrint(s)
    BY <1>1, KeysTyped, Sides
  <2>2. ModsAfter(key, FALSE, S) = Flags(D \ {k})
    <3>1. Flags(D \ {k}) = IF k \in Mods THEN S \ {IF k = "ALT_R" THEN "ALT_L" ELSE k} ELSE S
      BY FlagsReleased
    <3>2. (key \in Mods <=> k \in Mods) /\ (k \in Mods => key = k)
      BY <1>1, KeyTyped
    <3> HIDE DEF key, S
    <3> QED  BY <3>1, <3>2 DEF ModsAfter
  <2> HIDE DEF key
  <2> QED  BY <2>1, <2>2, EffectOfBreak
<1>2. CASE k = "PRINTSCREEN"
  <2>1. IsPauseOrPrint(s) /\ k \notin Mods
    BY <1>2, OtherBreaks DEF IsPauseOrPrint, Mods
  <2> QED  BY <2>1, FlagsReleased DEF Effect
<1> QED  BY <1>1, <1>2 DEF Passes

\* An acknowledgement tells it nothing.
LEMMA AckEffect ==
  ASSUME NEW S, NEW L
  PROVE  Effect(<<ACK>>, S, L) = [mods |-> S, locks |-> L, leds |-> 0, out |-> <<>>]
<1>1. PICK s : s = <<ACK>>
  OBVIOUS
<1>2. Looked(s) % 128 = 122 /\ s[1] # 224
  BY <1>1, LowBits DEF Looked, ACK
<1>3. KeyOf(s, S, L) = None
  BY <1>2, RowsAre DEF KeyOf, Column
<1>4. ModsAfter(None, FALSE, S) = S
  BY DEF ModsAfter, None, Mods
<1>5. ~(Looked(s) < 128) /\ ~IsPauseOrPrint(s)
  BY <1>1 DEF Looked, ACK, IsPauseOrPrint, PauseCode
<1>6. Effect(s, S, L)
        = [mods |-> ModsAfter(KeyOf(s, S, L), FALSE, S), locks |-> L, leds |-> 0, out |-> <<>>]
  BY <1>5, EffectOfBreak
<1> QED  BY <1>1, <1>3, <1>4, <1>6

\* The codes of four and six bytes.
LongCodes == {PauseCode, <<224, 42, 224, 55>>, <<224, 183, 224, 170>>}

\* The three long codes, by their first two bytes.
LEMMA LongShape ==
  /\ PauseCode \in Seq(Byte) /\ Len(PauseCode) = 6 /\ PauseCode[1] = 225
  /\ \A t \in LongCodes \ {PauseCode} :
       t \in Seq(Byte) /\ Len(t) = 4 /\ t[1] = 224 /\ t[2] \in {42, 183}
  /\ \A t, u \in LongCodes \ {PauseCode} : t[2] = u[2] => t = u
  /\ \E t : t \in LongCodes \ {PauseCode}
<1>1. {225, 29, 69, 157, 197, 224, 42, 55, 183, 170} \subseteq Byte
  BY DEF Byte
<1>2. PauseCode \in Seq(Byte) /\ Len(PauseCode) = 6 /\ PauseCode[1] = 225
  BY <1>1 DEF PauseCode
<1>3. PICK m : m = <<224, 42, 224, 55>>
  OBVIOUS
<1>4. PICK b : b = <<224, 183, 224, 170>>
  OBVIOUS
<1>5. m \in Seq(Byte) /\ Len(m) = 4 /\ m[1] = 224 /\ m[2] = 42
  BY <1>1, <1>3
<1>6. b \in Seq(Byte) /\ Len(b) = 4 /\ b[1] = 224 /\ b[2] = 183
  BY <1>1, <1>4
<1>7. LongCodes = {PauseCode, m, b}
  BY <1>3, <1>4 DEF LongCodes
<1>8. PauseCode \notin {m, b}
  BY <1>2, <1>5, <1>6
<1> QED  BY <1>2, <1>5, <1>6, <1>7, <1>8

\* keyboard_read waits for more exactly at the beginning of a long code.
LEMMA MoreIs ==
  ASSUME NEW s
  PROVE  More(s) <=> \E t \in LongCodes : Starts(s, t)
BY DEF More, LongCodes

\* The first n bytes of a sequence.
LEMMA FirstBytes ==
  ASSUME NEW s \in Seq(Byte), NEW n \in 1..Len(s)
  PROVE  /\ SubSeq(s, 1, n) \in Seq(Byte) /\ Len(SubSeq(s, 1, n)) = n
         /\ \A i \in 1..n : SubSeq(s, 1, n)[i] = s[i]
OBVIOUS

\* The first byte as a sequence.
LEMMA FirstByte ==
  ASSUME NEW s \in Seq(Byte), Len(s) >= 1, NEW b, s[1] = b
  PROVE  SubSeq(s, 1, 1) = <<b>>
<1>1. 1 \in 1..Len(s)
  OBVIOUS
<1>2. PICK u : u = SubSeq(s, 1, 1)
  OBVIOUS
<1>3. u \in Seq(Byte) /\ Len(u) = 1 /\ u[1] = b
  BY <1>1, <1>2, FirstBytes
<1>4. PICK v : v = <<b>>
  OBVIOUS
<1>5. v \in Seq(Byte) /\ Len(v) = 1 /\ v[1] = b
  BY <1>1, <1>4
<1>6. u = v
  BY <1>3, <1>5, SeqEqual
<1> QED  BY <1>2, <1>4, <1>6

\* keyboard_read waits for more after every beginning of a code.
LEMMA PartIsMore ==
  ASSUME NEW c \in Seq(Byte), Complete(c), NEW n \in 1..Len(c) - 1
  PROVE  More(SubSeq(c, 1, n))
<1>1. n \in 1..Len(c) /\ n < Len(c)
  OBVIOUS
<1>2. CASE IsPauseOrPrint(c)
  <2>1. c \in LongCodes /\ Starts(SubSeq(c, 1, n), c)
    BY <1>1, <1>2, FirstBytes DEF LongCodes, IsPauseOrPrint, Starts
  <2> QED  BY <2>1, MoreIs
<1>3. CASE Len(c) = 2 /\ c[1] = 224
  <2>1. PICK t \in LongCodes \ {PauseCode} : TRUE
    BY LongShape
  <2>2. t \in Seq(Byte) /\ Len(t) = 4 /\ t[1] = 224
    BY LongShape
  <2>3. n = 1
    BY <1>1, <1>3
  <2>4. SubSeq(c, 1, 1) = <<224>>
    BY <1>3, FirstByte
  <2>5. SubSeq(t, 1, 1) = <<224>>
    BY <2>2, FirstByte
  <2>6. Len(SubSeq(c, 1, n)) = 1
    BY <1>1, <2>3, FirstBytes
  <2>7. SubSeq(c, 1, n) = SubSeq(t, 1, 1)
    BY <2>3, <2>4, <2>5
  <2>8. Starts(SubSeq(c, 1, n), t)
    <3>1. PICK u : u = SubSeq(c, 1, n)
      OBVIOUS
    <3> QED  BY <2>2, <2>6, <2>7, <3>1 DEF Starts
  <2>9. t \in LongCodes
    BY <2>1
  <2> QED  BY <2>8, <2>9, MoreIs
<1>4. Len(c) # 1
  BY <1>1
<1>5. IsPauseOrPrint(c) \/ (Len(c) = 2 /\ c[1] = 224)
  BY <1>4 DEF Complete
<1> QED  BY <1>2, <1>3, <1>5

\* While it waits for more it has not read past the end of a code.
LEMMA PartIsNoCode ==
  ASSUME NEW s \in Seq(Byte), More(s), NEW n \in 1..Len(s)
  PROVE  ~Complete(SubSeq(s, 1, n))
<1>1. PICK t \in LongCodes : Len(s) < Len(t) /\ s = SubSeq(t, 1, Len(s))
  BY MoreIs DEF Starts
<1>2. t \in Seq(Byte) /\ Len(t) \in Nat /\ Len(s) \in Nat
  BY LongShape
<1> DEFINE c == SubSeq(s, 1, n)
<1>3. /\ c \in Seq(Byte) /\ Len(c) = n /\ n \in 1..Len(s)
      /\ \A i \in 1..n : c[i] = t[i]
  <2>1. Len(s) \in 1..Len(t)
    BY <1>1, <1>2
  <2>2. \A i \in 1..Len(s) : s[i] = t[i]
    BY <1>1, <1>2, <2>1, FirstBytes
  <2> QED  BY <2>2, FirstBytes
<1> HIDE DEF c
<1>4. c[1] = t[1] /\ (n >= 2 => c[2] = t[2])
  BY <1>3
<1>5. n < Len(t)
  BY <1>1, <1>2, <1>3
<1>6. t = PauseCode \/ (t \in LongCodes \ {PauseCode} /\ t[1] = 224 /\ t[2] \in {42, 183})
  BY LongShape
<1>7. ~(Len(c) = 1 /\ c[1] \notin {224, 225})
  BY <1>4, <1>6, LongShape
<1>8. ~(Len(c) = 2 /\ c[1] = 224 /\ c[2] \notin {42, 183})
  BY <1>3, <1>4, <1>6, LongShape
<1>9. c \notin LongCodes
  <2> SUFFICES ASSUME c \in LongCodes PROVE FALSE
    OBVIOUS
  <2>1. CASE c = PauseCode
    BY <1>3, <1>4, <1>5, <1>6, <2>1, LongShape
  <2>2. CASE c # PauseCode
    <3>1. c[1] = 224 /\ Len(c) = 4
      BY <2>2, LongShape
    <3>2. t \in LongCodes \ {PauseCode} /\ c[2] = t[2]
      BY <1>3, <1>4, <1>6, <3>1, LongShape
    <3>3. c = t
      BY <2>2, <3>2, LongShape
    <3> QED  BY <1>3, <1>5, <3>3
  <2> QED  BY <2>1, <2>2
<1> QED  BY <1>7, <1>8, <1>9 DEF Complete, IsPauseOrPrint, LongCodes, c
\* Of two ways to cut the same bytes the shorter first piece begins the longer.
LEMMA FirstOf ==
  ASSUME NEW s \in Seq(Byte), NEW r \in Seq(Byte), NEW c \in Seq(Byte), NEW q \in Seq(Byte),
         s \o r = c \o q, Len(s) <= Len(c)
  PROVE  SubSeq(c, 1, Len(s)) = s
<1>1. Len(s) \in Nat /\ Len(c) \in Nat /\ Len(r) \in Nat /\ Len(q) \in Nat
  OBVIOUS
<1>2. \A i \in 1..Len(s) : c[i] = s[i]
  <2>1. \A i \in 1..Len(s) : (s \o r)[i] = s[i] /\ (c \o q)[i] = c[i]
    BY <1>1, ConcatProperties
  <2> QED  BY <2>1
<1>3. CASE Len(s) = 0
  <2>1. s = <<>>
    BY <1>3, EmptySeq
  <2>2. SubSeq(c, 1, 0) = <<>>
    BY SubSeqEmpty
  <2> QED  BY <1>3, <2>1, <2>2
<1>4. CASE Len(s) > 0
  <2>1. Len(s) \in 1..Len(c)
    BY <1>1, <1>4
  <2>2. PICK u : u = SubSeq(c, 1, Len(s))
    OBVIOUS
  <2>3. u \in Seq(Byte) /\ Len(u) = Len(s) /\ \A i \in 1..Len(s) : u[i] = s[i]
    BY <1>2, <2>1, <2>2, FirstBytes
  <2> QED  BY <2>2, <2>3, SeqEqual
<1> QED  BY <1>1, <1>3, <1>4

\* No code ends before the last byte of s.
NoCodeWithin(s) == \A n \in 1..Len(s) - 1 : ~Complete(SubSeq(s, 1, n))

\* One byte after a beginning that asked for more, no code has ended before.
LEMMA NothingEarlier ==
  ASSUME NEW p \in Seq(Byte), p # <<>> => More(p), NEW b \in Byte
  PROVE  NoCodeWithin(Append(p, b))
<1>1. PICK s : s = Append(p, b)
  OBVIOUS
<1>2. s \in Seq(Byte) /\ Len(s) = Len(p) + 1 /\ \A i \in 1..Len(p) : s[i] = p[i]
  BY <1>1, AppendProperties
<1>3. ASSUME NEW n \in 1..Len(s) - 1 PROVE ~Complete(SubSeq(s, 1, n))
  <2>1. n \in 1..Len(p) /\ n \in 1..Len(s) /\ p # <<>>
    BY <1>2
  <2>2. PICK u, v : u = SubSeq(s, 1, n) /\ v = SubSeq(p, 1, n)
    OBVIOUS
  <2>3. u \in Seq(Byte) /\ Len(u) = n /\ \A i \in 1..n : u[i] = s[i]
    BY <1>2, <2>1, <2>2, FirstBytes
  <2>4. v \in Seq(Byte) /\ Len(v) = n /\ \A i \in 1..n : v[i] = p[i]
    BY <2>1, <2>2, FirstBytes
  <2>5. u = v
    BY <1>2, <2>1, <2>3, <2>4, SeqEqual
  <2>6. ~Complete(SubSeq(p, 1, n))
    BY <2>1, PartIsNoCode
  <2> QED  BY <2>2, <2>5, <2>6
<1> QED  BY <1>1, <1>3 DEF NoCodeWithin

\* The bytes t are the code s and the rest r.
CutAs(t, s, r) == t = s \o r

\* The decoder cuts the bytes where the keyboard did.
LEMMA SameCode ==
  ASSUME NEW s \in Seq(Byte), s # <<>>, NoCodeWithin(s), ~More(s), NEW r \in Seq(Byte),
         NEW c \in Seq(Byte), Complete(c), c # <<>>, NEW q \in Seq(Byte),
         NEW t, CutAs(t, s, r), CutAs(t, c, q)
  PROVE  s = c /\ r = q
<1>1. Len(s) \in Nat /\ Len(c) \in Nat /\ Len(s) > 0 /\ Len(c) > 0
  BY EmptySeq
<1>2. s \o r = c \o q /\ ~More(s)
  BY DEF CutAs
<1>3. ~(Len(c) < Len(s))
  <2> SUFFICES ASSUME Len(c) < Len(s) PROVE FALSE
    OBVIOUS
  <2>1. Len(c) \in 1..Len(s) - 1 /\ Len(c) <= Len(s)
    BY <1>1
  <2>2. SubSeq(s, 1, Len(c)) = c
    BY <1>2, <2>1, FirstOf
  <2>3. ~Complete(SubSeq(s, 1, Len(c)))
    BY <2>1 DEF NoCodeWithin
  <2> QED  BY <2>2, <2>3
<1>4. ~(Len(s) < Len(c))
  <2> SUFFICES ASSUME Len(s) < Len(c) PROVE FALSE
    OBVIOUS
  <2>1. Len(s) <= Len(c) /\ Len(s) \in 1..Len(c) - 1
    BY <1>1
  <2>2. SubSeq(c, 1, Len(s)) = s
    BY <1>1, <1>2, <2>1, FirstOf
  <2>3. More(SubSeq(c, 1, Len(s)))
    BY <2>1, PartIsMore
  <2> QED  BY <1>2, <2>2, <2>3
<1>5. Len(s) = Len(c)
  BY <1>1, <1>3, <1>4
<1>6. s = c
  <2>1. SubSeq(c, 1, Len(s)) = s
    BY <1>1, <1>2, <1>5, FirstOf
  <2> QED  BY <1>5, <2>1, SubSeqFull
<1>7. r = q
  <2>1. c \o r = c \o q
    BY <1>2, <1>6
  <2> QED  BY <2>1, ConcatSimplifications, Zenon
<1> QED  BY <1>6, <1>7
-----------------------------------------------------------------------------
\* Configurations of the decoder: the bytes before it, what it is to hand over,
\* its flags and locks, and the acknowledgements the keyboard owes.
At == [bytes : Seq(Byte), due : Seq(Item), mods : SUBSET Mods, locks : SUBSET Locks, acks : Int]

\* One complete code takes c to d.
Step(c, d) ==
  \E s \in Seq(Byte) :
     LET e == Effect(s, c.mods, c.locks)
     IN  /\ Complete(s) /\ s # <<>> /\ c.bytes = s \o d.bytes
         /\ e.out \in Seq(Item) /\ c.due = e.out \o d.due
         /\ d.mods = e.mods /\ d.locks = e.locks /\ d.acks = c.acks + e.leds

\* h leads from c to d.
Path(h, c, d) ==
  /\ h \in Seq(At) /\ h # <<>> /\ h[1] = c /\ h[Len(h)] = d
  /\ \A i \in 1..Len(h) - 1 : Step(h[i], h[i + 1])
  /\ \A i \in 1..Len(h) : h[i].acks <= d.acks

Reaches(c, d) == \E h : Path(h, c, d)

\* c with the bytes s behind its own, which stand for the keys o.
Longer(c, s, o, n) ==
  [bytes |-> c.bytes \o s, due |-> c.due \o o, mods |-> c.mods, locks |-> c.locks,
   acks |-> c.acks + n]

\* A code sends no or two LED commands and hands over at most one key.
LEMMA LedsAndOut ==
  ASSUME NEW s, NEW S, NEW L
  PROVE  /\ Effect(s, S, L).leds \in {0, 2}
         /\ Effect(s, S, L).out = <<>> \/ \E x : Effect(s, S, L).out = <<x>>
<1>1. \E m, k, n, o : Effect(s, S, L) = [mods |-> m, locks |-> k, leds |-> n, out |-> o]
                      /\ n \in {0, 2} /\ (o = <<>> \/ \E x : o = <<x>>)
  <2>1. CASE IsPauseOrPrint(s)
    BY <2>1 DEF Effect
  <2>2. CASE ~IsPauseOrPrint(s) /\ Looked(s) < 128
    BY <2>2, EffectOfMake
  <2>3. CASE ~IsPauseOrPrint(s) /\ ~(Looked(s) < 128)
    BY <2>3, EffectOfBreak
  <2> QED  BY <2>1, <2>2, <2>3
<1> QED  BY <1>1

\* More bytes at the end, more keys due and other acknowledgements.
LEMMA LongerAt ==
  ASSUME NEW c \in At, NEW s \in Seq(Byte), NEW o \in Seq(Item), NEW n \in Int
  PROVE  Longer(c, s, o, n) \in At
<1>1. c.bytes \o s \in Seq(Byte)
  BY ConcatProperties DEF At
<1>2. c.due \o o \in Seq(Item)
  BY ConcatProperties DEF At
<1>3. c.mods \in SUBSET Mods /\ c.locks \in SUBSET Locks /\ c.acks + n \in Int
  BY DEF At
<1> QED  BY <1>1, <1>2, <1>3 DEF Longer, At

\* A step of the decoder does not depend on what comes after.
LEMMA LongerStep ==
  ASSUME NEW c \in At, NEW d \in At, Step(c, d),
         NEW s \in Seq(Byte), NEW o \in Seq(Item), NEW n \in Int
  PROVE  Step(Longer(c, s, o, n), Longer(d, s, o, n))
<1>1. PICK t \in Seq(Byte) :
        LET e == Effect(t, c.mods, c.locks)
        IN  /\ Complete(t) /\ t # <<>> /\ c.bytes = t \o d.bytes
            /\ e.out \in Seq(Item) /\ c.due = e.out \o d.due
            /\ d.mods = e.mods /\ d.locks = e.locks /\ d.acks = c.acks + e.leds
  BY DEF Step
<1>2. PICK e : e = Effect(t, c.mods, c.locks)
  OBVIOUS
<1>3. c.bytes \o s = t \o (d.bytes \o s)
  <2>1. PICK u, v : u = c.bytes /\ v = d.bytes
    OBVIOUS
  <2>2. t \in Seq(Byte) /\ v \in Seq(Byte) /\ u = t \o v
    BY <1>1, <2>1 DEF At
  <2>3. u \o s = t \o (v \o s)
    BY <2>2, ConcatAssociative
  <2> QED  BY <2>1, <2>3
<1>4. c.due \o o = e.out \o (d.due \o o)
  <2>1. PICK u, v, w : u = c.due /\ v = d.due /\ w = e.out
    OBVIOUS
  <2>2. w \in Seq(Item) /\ v \in Seq(Item) /\ u = w \o v
    BY <1>1, <1>2, <2>1 DEF At
  <2>3. u \o o = w \o (v \o o)
    BY <2>2, ConcatAssociative
  <2> QED  BY <2>1, <2>3
<1>5. d.acks + n = (c.acks + n) + e.leds
  <2>1. d.acks = c.acks + e.leds
    BY <1>1, <1>2
  <2>2. c.acks \in Int
    BY DEF At
  <2>3. e.leds \in {0, 2}
    BY <1>2, LedsAndOut
  <2> QED  BY <2>1, <2>2, <2>3
<1>6. /\ Longer(c, s, o, n).bytes = c.bytes \o s /\ Longer(d, s, o, n).bytes = d.bytes \o s
      /\ Longer(c, s, o, n).due = c.due \o o /\ Longer(d, s, o, n).due = d.due \o o
      /\ Longer(c, s, o, n).mods = c.mods /\ Longer(d, s, o, n).mods = d.mods
      /\ Longer(c, s, o, n).locks = c.locks /\ Longer(d, s, o, n).locks = d.locks
      /\ Longer(c, s, o, n).acks = c.acks + n /\ Longer(d, s, o, n).acks = d.acks + n
  BY DEF Longer
<1> QED  BY <1>1, <1>2, <1>3, <1>4, <1>5, <1>6 DEF Step

\* The path of no steps.
LEMMA ReachesSelf ==
  ASSUME NEW c \in At
  PROVE  Reaches(c, c)
<1>1. PICK h : h = <<c>>
  OBVIOUS
<1>2. h \in Seq(At) /\ Len(h) = 1 /\ h[1] = c /\ h # <<>> /\ c.acks \in Int
  BY <1>1 DEF At
<1>3. Path(h, c, c)
  BY <1>2 DEF Path
<1> QED  BY <1>3 DEF Reaches

\* A path does not depend on what comes after.
LEMMA ReachesLonger ==
  ASSUME NEW c \in At, NEW d \in At, Reaches(c, d),
         NEW s \in Seq(Byte), NEW o \in Seq(Item), NEW n \in Int
  PROVE  Reaches(Longer(c, s, o, n), Longer(d, s, o, n))
<1>1. PICK h : Path(h, c, d)
  BY DEF Reaches
<1>2. /\ h \in Seq(At) /\ h # <<>> /\ h[1] = c /\ h[Len(h)] = d /\ Len(h) \in Nat
      /\ \A i \in 1..Len(h) - 1 : Step(h[i], h[i + 1])
      /\ \A i \in 1..Len(h) : h[i].acks <= d.acks
  BY <1>1 DEF Path
<1>3. Len(h) > 0 /\ \A i \in 1..Len(h) : h[i] \in At
  BY <1>2, EmptySeq
<1> DEFINE g == [i \in 1..Len(h) |-> Longer(h[i], s, o, n)]
<1>4. g \in Seq(At) /\ Len(g) = Len(h)
  BY <1>2, <1>3, LongerAt
<1>5. \A i \in 1..Len(h) : g[i] = Longer(h[i], s, o, n)
  OBVIOUS
<1> HIDE DEF g
<1>6. g # <<>> /\ g[1] = Longer(c, s, o, n) /\ g[Len(g)] = Longer(d, s, o, n)
  BY <1>2, <1>3, <1>4, <1>5
<1>7. ASSUME NEW i \in 1..Len(g) - 1 PROVE Step(g[i], g[i + 1])
  <2>1. /\ i \in 1..Len(h) /\ i + 1 \in 1..Len(h) /\ h[i] \in At /\ h[i + 1] \in At
        /\ Step(h[i], h[i + 1])
    BY <1>2, <1>3, <1>4
  <2> QED  BY <1>5, <2>1, LongerStep
<1>8. ASSUME NEW i \in 1..Len(g) PROVE g[i].acks <= Longer(d, s, o, n).acks
  <2>1. h[i].acks <= d.acks /\ h[i].acks \in Int /\ d.acks \in Int
    BY <1>2, <1>3, <1>4 DEF At
  <2>2. g[i] = Longer(h[i], s, o, n)
    BY <1>4, <1>5
  <2>3. g[i].acks = h[i].acks + n
    BY <2>2 DEF Longer
  <2>4. Longer(d, s, o, n).acks = d.acks + n
    BY DEF Longer
  <2> QED  BY <2>1, <2>3, <2>4
<1> QED  BY <1>4, <1>6, <1>7, <1>8 DEF Path, Reaches

\* One more step at the end of a path.
LEMMA ReachesNext ==
  ASSUME NEW c \in At, NEW d \in At, Reaches(c, d), NEW e \in At, Step(d, e)
  PROVE  Reaches(c, e)
<1>1. PICK h : Path(h, c, d)
  BY DEF Reaches
<1>2. /\ h \in Seq(At) /\ h # <<>> /\ h[1] = c /\ h[Len(h)] = d /\ Len(h) \in Nat
      /\ \A i \in 1..Len(h) - 1 : Step(h[i], h[i + 1])
      /\ \A i \in 1..Len(h) : h[i].acks <= d.acks
  BY <1>1 DEF Path
<1>3. Len(h) > 0 /\ \A i \in 1..Len(h) : h[i].acks \in Int
  <2>1. Len(h) > 0 /\ \A i \in 1..Len(h) : h[i] \in At
    BY <1>2, EmptySeq
  <2>2. \A x \in At : x.acks \in Int
    BY DEF At
  <2> QED  BY <2>1, <2>2
<1>4. d.acks <= e.acks /\ d.acks \in Int /\ e.acks \in Int
  <2>1. d.acks \in Int /\ e.acks \in Int
    BY DEF At
  <2>2. \E n \in {0, 2} : e.acks = d.acks + n
    BY LedsAndOut DEF Step
  <2> QED  BY <2>1, <2>2
<1> DEFINE g == Append(h, e)
<1>5. /\ g \in Seq(At) /\ g # <<>> /\ Len(g) = Len(h) + 1
      /\ \A i \in 1..Len(h) : g[i] = h[i]
      /\ g[Len(g)] = e
  BY <1>2, AppendProperties
<1> HIDE DEF g
<1>6. g[1] = c
  BY <1>2, <1>3, <1>5
<1>7. ASSUME NEW i \in 1..Len(g) - 1 PROVE Step(g[i], g[i + 1])
  <2>1. CASE i = Len(h)
    BY <1>2, <1>3, <1>5, <2>1
  <2>2. CASE i # Len(h)
    BY <1>2, <1>3, <1>5, <2>2
  <2> QED  BY <2>1, <2>2
<1>8. ASSUME NEW i \in 1..Len(g) PROVE g[i].acks <= e.acks
  <2>1. CASE i = Len(g)
    BY <1>4, <1>5, <2>1
  <2>2. CASE i # Len(g)
    <3>1. i \in 1..Len(h) /\ g[i] = h[i] /\ h[i].acks <= d.acks /\ h[i].acks \in Int
      BY <1>2, <1>3, <1>5, <2>2
    <3> QED  BY <1>4, <3>1
  <2> QED  BY <2>1, <2>2
<1> QED  BY <1>5, <1>6, <1>7, <1>8 DEF Path, Reaches

\* The first step of a path.
LEMMA ReachesFirst ==
  ASSUME NEW c \in At, NEW d \in At, Reaches(c, d), c # d
  PROVE  \E b \in At : Step(c, b) /\ Reaches(b, d)
<1>1. PICK h : Path(h, c, d)
  BY DEF Reaches
<1>2. /\ h \in Seq(At) /\ h # <<>> /\ h[1] = c /\ h[Len(h)] = d /\ Len(h) \in Nat
      /\ \A i \in 1..Len(h) - 1 : Step(h[i], h[i + 1])
      /\ \A i \in 1..Len(h) : h[i].acks <= d.acks
  BY <1>1 DEF Path
<1>3. Len(h) > 1
  BY <1>2, EmptySeq
<1>4. h[2] \in At /\ Step(c, h[2])
  BY <1>2, <1>3
<1> DEFINE g == Tail(h)
<1>5. g \in Seq(At) /\ Len(g) = Len(h) - 1 /\ \A i \in 1..Len(g) : g[i] = h[i + 1]
  BY <1>2, HeadTailProperties
<1> HIDE DEF g
<1>6. g # <<>> /\ g[1] = h[2] /\ g[Len(g)] = d
  BY <1>2, <1>3, <1>5
<1>7. \A i \in 1..Len(g) - 1 : Step(g[i], g[i + 1])
  BY <1>2, <1>3, <1>5
<1>8. \A i \in 1..Len(g) : g[i].acks <= d.acks
  BY <1>2, <1>3, <1>5
<1>9. Reaches(h[2], d)
  BY <1>5, <1>6, <1>7, <1>8 DEF Path, Reaches
<1> QED  BY <1>4, <1>9

\* No step takes an acknowledgement away.
LEMMA ReachesUp ==
  ASSUME NEW c \in At, NEW d \in At, Reaches(c, d)
  PROVE  c.acks <= d.acks
<1>1. PICK h : Path(h, c, d)
  BY DEF Reaches
<1>2. h \in Seq(At) /\ h # <<>> /\ h[1] = c /\ \A i \in 1..Len(h) : h[i].acks <= d.acks
  BY <1>1 DEF Path
<1>3. 1 \in 1..Len(h)
  BY <1>2, EmptySeq
<1> QED  BY <1>2, <1>3
-----------------------------------------------------------------------------
\* Where the decoder is, and where it will be when all is decoded.
Now == [bytes |-> prefix \o (queue \o line), due |-> due, mods |-> mods, locks |-> locks,
        acks |-> acks]

Done(a) == [bytes |-> <<>>, due |-> <<>>, mods |-> Flags(down), locks |-> lit, acks |-> a]

KeyTypes == /\ prefix \in Seq(Byte) /\ queue \in Seq(Byte) /\ line \in Seq(Byte)
            /\ down \subseteq Keys /\ lit \subseteq Locks
            /\ acks \in Nat /\ events \in 0..MaxEvents

\* Decoding what is under way gives what is due and leaves a acknowledgements;
\* an event has six bytes, or a byte and two acknowledgements, to its share.
InStep(a) == Reaches(Now, Done(a)) /\ Len(queue) + Len(line) + a <= 6 * events

\* The inductive invariant.
KeyInv == /\ KeyTypes /\ (prefix # <<>> => More(prefix))
          /\ Now \in At
          /\ \E a \in Int : InStep(a)

\* The two conditions the results need, of what the user does and of how far
\* the terminal task lags behind.  The two Alt keys share the flag alt_l
\* (keyboard.c:186), so releasing one while the other is down loses it; and a
\* byte dropped by a full kb_in is lost for good.
OneAlt == ~({"ALT_L", "ALT_R"} \subseteq down)

Room == line # <<>> => Len(queue) < KB_IN_BYTES

\* Flags are modifiers.
LEMMA FlagsAre == \A D : Flags(D) \in SUBSET Mods
BY DEF Flags, Mods

\* The configuration in which all is decoded.
LEMMA DoneAt ==
  ASSUME lit \subseteq Locks, NEW a \in Int
  PROVE  Done(a) \in At
BY FlagsAre DEF Done, At

\* A path to a configuration where all is decoded goes on through the next code.
LEMMA Grows ==
  ASSUME NEW c \in At, NEW d \in At, d.bytes = <<>>, d.due = <<>>, Reaches(c, d),
         NEW s \in Seq(Byte), Complete(s), s # <<>>, NEW o \in Seq(Item), NEW n \in Int,
         NEW m \in SUBSET Mods, NEW k \in SUBSET Locks, NEW j \in {0, 2},
         Effect(s, d.mods, d.locks) = [mods |-> m, locks |-> k, leds |-> j, out |-> o]
  PROVE  Reaches(Longer(c, s, o, n),
                 [bytes |-> <<>>, due |-> <<>>, mods |-> m, locks |-> k, acks |-> d.acks + n + j])
<1> DEFINE f == [bytes |-> <<>>, due |-> <<>>, mods |-> m, locks |-> k, acks |-> d.acks + n + j]
           g == Longer(d, s, o, n)
<1>1. d.acks \in Int
  BY DEF At
<1>2. f \in At
  BY <1>1 DEF At
<1>3. /\ g.bytes = s /\ g.due = o /\ g.mods = d.mods /\ g.locks = d.locks
      /\ g.acks = d.acks + n
  <2>1. <<>> \o s = s /\ <<>> \o o = o
    BY ConcatEmptySeq
  <2> QED  BY <2>1 DEF Longer
<1>4. Step(g, f)
  <2>1. s \o <<>> = s /\ o \o <<>> = o
    BY ConcatEmptySeq
  <2>2. /\ f.bytes = <<>> /\ f.due = <<>> /\ f.mods = m /\ f.locks = k
        /\ f.acks = g.acks + j
    BY <1>3
  <2>3. PICK e : e = Effect(s, g.mods, g.locks)
    OBVIOUS
  <2>4. e.mods = m /\ e.locks = k /\ e.leds = j /\ e.out = o
    BY <1>3, <2>3
  <2> HIDE DEF f, g
  <2> QED  BY <1>3, <2>1, <2>2, <2>3, <2>4 DEF Step
<1>5. g \in At /\ Longer(c, s, o, n) \in At
  BY LongerAt
<1>6. Reaches(Longer(c, s, o, n), g)
  BY ReachesLonger
<1> HIDE DEF f, g
<1>7. Reaches(Longer(c, s, o, n), f)
  BY <1>2, <1>4, <1>5, <1>6, ReachesNext
<1> QED  BY <1>7 DEF f

\* What a press adds to due is never the item of a wrong key.
LEMMA OutTyped ==
  ASSUME NEW k \in DOMAIN MakeCode, NEW D, NEW L
  PROVE  Out(k, D, L) \in Seq(Item)
<1>1. Meaning(k, D, L) \in Names
  BY DEF Meaning, Names, MakeCode
<1>2. [key |-> Meaning(k, D, L), flags |-> Flags(D)] \in Item
  BY <1>1, FlagsAre DEF Item
<1> QED  BY <1>2 DEF Out

\* Bytes put on an empty line come after all others.
LEMMA JoinsEnd ==
  ASSUME NEW p \in Seq(Byte), NEW w \in Seq(Byte), NEW s \in Seq(Byte)
  PROVE  p \o (w \o s) = (p \o (w \o <<>>)) \o s
<1>1. w \o <<>> = w
  BY ConcatEmptySeq
<1>2. (p \o w) \o s = p \o (w \o s)
  BY ConcatAssociative
<1> QED  BY <1>1, <1>2

\* The bytes of one more code join those under way.
LEMMA Sent ==
  ASSUME KeyTypes, Now \in At, line = <<>>, NEW a \in Int, InStep(a),
         NEW s \in Seq(Byte), Complete(s), s # <<>>, NEW o \in Seq(Item), NEW n \in Int,
         NEW m \in SUBSET Mods, NEW k \in SUBSET Locks, NEW j \in {0, 2},
         Effect(s, Flags(down), lit) = [mods |-> m, locks |-> k, leds |-> j, out |-> o],
         line' = s, due' = due \o o, acks' = acks + n, lit' = k, Flags(down') = m,
         UNCHANGED <<queue, prefix, mods, locks>>, NEW b, b = a + n + j
  PROVE  (Now \in At)' /\ Reaches(Now, Done(b))'
<1>1. Done(a) \in At /\ Reaches(Now, Done(a))
  BY DoneAt DEF KeyTypes, InStep
<1>2. /\ Done(a).bytes = <<>> /\ Done(a).due = <<>> /\ Done(a).mods = Flags(down)
      /\ Done(a).locks = lit /\ Done(a).acks = a
  BY DEF Done
<1>3. Reaches(Longer(Now, s, o, n),
              [bytes |-> <<>>, due |-> <<>>, mods |-> m, locks |-> k, acks |-> a + n + j])
  BY <1>1, <1>2, Grows
<1>4. Now' = Longer(Now, s, o, n)
  <2>1. prefix' \o (queue' \o line') = (prefix \o (queue \o line)) \o s
    <3>1. prefix \in Seq(Byte) /\ queue \in Seq(Byte)
      BY DEF KeyTypes
    <3>2. prefix \o (queue \o s) = (prefix \o (queue \o <<>>)) \o s
      BY <3>1, JoinsEnd
    <3> QED  BY <3>2
  <2> QED  BY <2>1 DEF Now, Longer
<1>5. Done(b)'
        = [bytes |-> <<>>, due |-> <<>>, mods |-> m, locks |-> k, acks |-> a + n + j]
  BY DEF Done
<1>6. (Now \in At)'
  BY <1>4, LongerAt
<1> QED  BY <1>3, <1>4, <1>5, <1>6

\* The invariant holds after init_keyboard.
LEMMA InvInit == Init => KeyInv
<1> SUFFICES ASSUME Init PROVE KeyInv
  OBVIOUS
<1>1. KeyTypes
  BY KeyboardAssumption DEF Init, KbIn!QueueInit, KeyTypes, Locks
<1>2. Now = [bytes |-> <<>>, due |-> <<>>, mods |-> {}, locks |-> {"NUM_LOCK"}, acks |-> 0]
  <2>1. <<>> \o (<<>> \o <<>>) = <<>>
    OBVIOUS
  <2> QED  BY <2>1 DEF Init, KbIn!QueueInit, Now
<1>3. Now \in At
  BY <1>2 DEF At, Locks
<1>4. Now = Done(0)
  BY <1>2 DEF Init, Done, Flags
<1>5. InStep(0)
  BY <1>3, <1>4, ReachesSelf DEF InStep, Init, KbIn!QueueInit
<1> QED  BY <1>1, <1>3, <1>5 DEF KeyInv, Init
-----------------------------------------------------------------------------
\* Press: the code and the key it stands for join the end of the replay.
LEMMA PressInv ==
  ASSUME KeyInv, NEW k \in Keys, Press(k)
  PROVE  KeyInv'
<1>1. KeyTypes /\ Now \in At /\ k \in DOMAIN MakeCode
  BY KeyboardAssumption DEF KeyInv
<1>2. PICK a \in Int : InStep(a)
  BY DEF KeyInv
<1>3. PICK D, L, s : D = down \cup {k} /\ L = LitAfter(k, lit) /\ s = MakeCode[k]
  OBVIOUS
<1>4. PICK o, m, j : o = Out(k, D, L) /\ m = Flags(D) /\ j = IF k \in Locks THEN 2 ELSE 0
  OBVIOUS
<1>5. /\ line = <<>> /\ line' = s /\ down' = D /\ lit' = L /\ events < MaxEvents
      /\ events' = events + 1 /\ UNCHANGED <<acks, queue, prefix, mods, locks>>
  BY <1>3 DEF Press, LitAfter
<1>6. due' = due \o o /\ o \in Seq(Item)
  <2>1. due \in Seq(Item) /\ o \in Seq(Item)
    BY <1>1, <1>4, OutTyped DEF At, Now
  <2>2. CASE Passes(k)
    <3>1. PICK x : x = [key |-> Meaning(k, D, L), flags |-> Flags(D)]
      OBVIOUS
    <3>2. due' = Append(due, x) /\ o = <<x>>
      BY <1>4, <1>5, <2>2, <3>1 DEF Press, Out
    <3>3. o[1] = x /\ Len(o) = 1
      BY <3>2
    <3>4. x \in Item
      BY <2>1, <3>3, ElementOfSeq
    <3> QED  BY <2>1, <3>2, <3>4, AppendIsConcat
  <2>3. CASE ~Passes(k)
    BY <1>4, <2>1, <2>3, ConcatEmptySeq DEF Press, Out
  <2> QED  BY <2>1, <2>2, <2>3
<1>7. s \in Seq(Byte) /\ Complete(s) /\ s # <<>> /\ Len(s) <= 6 /\ (k \in Locks => Len(s) = 1)
  BY <1>1, <1>3, CodesComplete DEF Code
<1>8. Effect(s, Flags(down), lit) = [mods |-> m, locks |-> L, leds |-> j, out |-> o]
  BY <1>1, <1>3, <1>4, MakeEffect
<1>9. L \in SUBSET Locks /\ m \in SUBSET Mods /\ j \in {0, 2}
  BY <1>1, <1>3, <1>4, FlagsAre DEF KeyTypes, LitAfter, Toggle
<1>10. (Now \in At)' /\ Reaches(Now, Done(a + j))'
  <2>1. PICK n \in Int : n = 0
    OBVIOUS
  <2>2. acks' = acks + n /\ Flags(down') = m /\ a + j = a + n + j
    BY <1>1, <1>4, <1>5, <1>9, <2>1 DEF KeyTypes
  <2> QED  BY <2>2, <1>1, <1>2, <1>5, <1>6, <1>7, <1>8, <1>9, <2>1, Sent
<1>11. KeyTypes'
  <2>1. D \subseteq Keys /\ events' \in 0..MaxEvents
    BY <1>1, <1>3, <1>5, KeyboardAssumption DEF KeyTypes
  <2> QED  BY <1>1, <1>5, <1>7, <1>9, <2>1 DEF KeyTypes
<1>12. InStep(a + j)'
  <2>1. PICK n, p : n = Len(s) /\ p = Len(queue)
    OBVIOUS
  <2>2. n \in 0..6 /\ p \in Nat /\ n + j <= 6
    <3>1. n \in Nat /\ n <= 6 /\ (k \in Locks => n = 1)
      BY <1>7, <2>1
    <3>2. p \in Nat
      BY <1>1, <2>1 DEF KeyTypes
    <3> QED  BY <1>4, <3>1, <3>2
  <2>3. p + a <= 6 * events /\ events \in Nat
    BY <1>1, <1>2, <1>5, <2>1, <2>2 DEF InStep, KeyTypes
  <2>4. p + n + (a + j) <= 6 * (events + 1)
    BY <1>9, <2>2, <2>3
  <2>5. Len(queue') + Len(line') + (a + j) <= 6 * events'
    BY <1>5, <2>1, <2>4
  <2> QED  BY <1>10, <2>5 DEF InStep
<1> QED  BY <1>5, <1>9, <1>10, <1>11, <1>12 DEF KeyInv, More, Starts

\* Release: the break code joins it, and nothing becomes due.
LEMMA ReleaseInv ==
  ASSUME KeyInv, OneAlt, NEW k \in Keys, Release(k)
  PROVE  KeyInv'
<1>1. KeyTypes /\ Now \in At /\ k \in DOMAIN MakeCode
  BY KeyboardAssumption DEF KeyInv
<1>2. PICK a \in Int : InStep(a)
  BY DEF KeyInv
<1>3. PICK D, s : D = down \ {k} /\ s = BreakCode[k]
  OBVIOUS
<1>4. PICK m : m = Flags(D)
  OBVIOUS
<1>5. /\ line = <<>> /\ line' = s /\ k \in down /\ down' = D /\ events < MaxEvents
      /\ events' = events + 1 /\ UNCHANGED <<lit, due, acks, queue, prefix, mods, locks>>
  BY <1>3 DEF Release
<1>6. ~({"ALT_L", "ALT_R"} \subseteq down)
  BY DEF OneAlt
<1>7. /\ Len(line) = 0 /\ Len(queue) \in Nat /\ events \in Nat
      /\ Len(queue) + Len(line) + a <= 6 * events
  BY <1>1, <1>2, <1>5 DEF KeyTypes, InStep
<1>8. CASE k = "PAUSEBREAK"
  <2>1. line' = line
    BY <1>3, <1>5, <1>8, OtherBreaks
  <2>2. Flags(down') = Flags(down)
    BY <1>3, <1>5, <1>6, <1>8, FlagsReleased DEF Mods
  <2>3. Now' = Now /\ Done(a)' = Done(a)
    BY <1>5, <2>1, <2>2 DEF Now, Done
  <2>4. KeyTypes'
    BY <1>1, <1>3, <1>5, <2>1, KeyboardAssumption DEF KeyTypes
  <2>5. InStep(a)'
    BY <1>2, <1>5, <1>7, <2>1, <2>3 DEF InStep
  <2> QED  BY <1>1, <1>5, <2>3, <2>4, <2>5 DEF KeyInv
<1>9. CASE k # "PAUSEBREAK"
  <2>1. s \in Seq(Byte) /\ Complete(s) /\ s # <<>> /\ Len(s) <= 6
    BY <1>1, <1>3, <1>9, CodesComplete DEF Code
  <2>2. Effect(s, Flags(down), lit) = [mods |-> m, locks |-> lit, leds |-> 0, out |-> <<>>]
    BY <1>1, <1>3, <1>4, <1>5, <1>6, <1>9, BreakEffect
  <2>3. m \in SUBSET Mods /\ due' = due \o <<>>
    BY <1>1, <1>4, <1>5, FlagsAre, ConcatEmptySeq DEF At, Now
  <2>4. (Now \in At)' /\ Reaches(Now, Done(a))'
    <3>1. PICK L, n, j : L = lit /\ n = 0 /\ j = 0
      OBVIOUS
    <3>2. /\ n \in Int /\ j \in {0, 2} /\ a = a + n + j /\ acks' = acks + n /\ <<>> \in Seq(Item)
          /\ Flags(down') = m /\ L \in SUBSET Locks
      BY <1>1, <1>4, <1>5, <3>1 DEF KeyTypes
    <3>3. /\ Effect(s, Flags(down), lit) = [mods |-> m, locks |-> L, leds |-> j, out |-> <<>>]
          /\ lit' = L
      BY <1>5, <2>2, <3>1
    <3> QED  BY <1>1, <1>2, <1>5, <2>1, <2>3, <3>2, <3>3, Sent
  <2>5. KeyTypes'
    <3>1. D \subseteq Keys /\ events' \in 0..MaxEvents
      BY <1>1, <1>3, <1>5, KeyboardAssumption DEF KeyTypes
    <3> QED  BY <1>1, <1>5, <2>1, <3>1 DEF KeyTypes
  <2>6. Len(queue') + Len(line') + a <= 6 * events'
    BY <1>5, <1>7, <2>1
  <2>7. InStep(a)'
    BY <2>4, <2>6 DEF InStep
  <2> QED  BY <1>5, <2>4, <2>5, <2>7 DEF KeyInv, More, Starts
<1> QED  BY <1>8, <1>9

\* Acknowledge: an acknowledgement moves from those owed to the bytes under way.
LEMMA AcknowledgeInv ==
  ASSUME KeyInv, Acknowledge
  PROVE  KeyInv'
<1>1. KeyTypes /\ Now \in At
  BY DEF KeyInv
<1>2. PICK a \in Int : InStep(a)
  BY DEF KeyInv
<1>3. PICK s : s = <<ACK>>
  OBVIOUS
<1>4. /\ line = <<>> /\ line' = s /\ acks > 0 /\ acks' = acks - 1
      /\ UNCHANGED <<down, lit, events, due, queue, prefix, mods, locks>>
  BY <1>3 DEF Acknowledge, user
<1>5. s \in Seq(Byte) /\ Complete(s) /\ s # <<>> /\ Len(s) = 1
  <2>1. 250 \in Byte \ {224, 225} /\ s = <<250>>
    BY <1>3 DEF Byte, ACK
  <2> QED  BY <2>1, Shapes DEF Code
<1>6. PICK m, L : m = Flags(down) /\ L = lit
  OBVIOUS
<1>7. Effect(s, Flags(down), lit) = [mods |-> m, locks |-> L, leds |-> 0, out |-> <<>>]
  BY <1>3, <1>6, AckEffect
<1>8. (Now \in At)' /\ Reaches(Now, Done(a - 1))'
  <2>1. /\ L \in SUBSET Locks /\ m \in SUBSET Mods /\ due' = due \o <<>>
        /\ <<>> \in Seq(Item) /\ acks' = acks + (-1) /\ -1 \in Int
        /\ a - 1 = a + (-1) + 0
    BY <1>1, <1>4, <1>6, FlagsAre, ConcatEmptySeq DEF KeyTypes, At, Now
  <2>2. lit' = L /\ Flags(down') = m
    BY <1>4, <1>6 DEF Flags
  <2> QED  BY <1>1, <1>2, <1>4, <1>5, <1>7, <2>1, <2>2, Sent
<1>9. KeyTypes'
  BY <1>1, <1>4, <1>5 DEF KeyTypes
<1>10. Len(queue') + Len(line') + (a - 1) <= 6 * events'
  <2>1. /\ Len(line) = 0 /\ Len(line') = 1 /\ Len(queue') = Len(queue) /\ Len(queue) \in Nat
        /\ events \in Nat /\ events' = events /\ Len(queue) + Len(line) + a <= 6 * events
    BY <1>1, <1>2, <1>4, <1>5 DEF KeyTypes, InStep
  <2> QED  BY <2>1
<1>11. InStep(a - 1)'
  BY <1>8, <1>10 DEF InStep
<1> QED  BY <1>4, <1>8, <1>9, <1>11 DEF KeyInv, More, Starts

\* Deliver: a byte moves from the line to the ring, which has room for it.
LEMMA DeliverInv ==
  ASSUME KeyInv, Room, Deliver
  PROVE  KeyInv'
<1>1. KeyTypes /\ Now \in At
  BY DEF KeyInv
<1>2. PICK a \in Int : InStep(a)
  BY DEF KeyInv
<1>3. /\ line # <<>> /\ queue' = Append(queue, Head(line)) /\ line' = Tail(line)
      /\ UNCHANGED <<down, lit, events, due, acks, prefix, mods, locks>>
  BY DEF Deliver, Room, KbIn!Put, user
<1>4. PICK b : b = Head(line)
  OBVIOUS
<1>5. b \in Byte /\ line' \in Seq(Byte) /\ line = <<b>> \o line' /\ Len(line') = Len(line) - 1
  BY <1>1, <1>3, <1>4, HeadTailProperties DEF KeyTypes
<1>6. queue' = queue \o <<b>> /\ queue' \in Seq(Byte) /\ Len(queue') = Len(queue) + 1
  BY <1>1, <1>3, <1>4, <1>5, AppendIsConcat, AppendProperties DEF KeyTypes
<1>7. queue' \o line' = queue \o line
  <2>1. <<b>> \in Seq(Byte)
    BY <1>5
  <2>2. (queue \o <<b>>) \o line' = queue \o (<<b>> \o line')
    BY <1>1, <1>5, <2>1, ConcatAssociative DEF KeyTypes
  <2> QED  BY <1>5, <1>6, <2>2
<1>8. Now' = Now /\ Done(a)' = Done(a)
  BY <1>3, <1>7 DEF Now, Done, Flags
<1>9. KeyTypes'
  BY <1>1, <1>3, <1>5, <1>6 DEF KeyTypes
<1>10. Len(queue') + Len(line') + a <= 6 * events'
  <2>1. /\ Len(queue) \in Nat /\ Len(line) \in Nat /\ events \in Nat
        /\ Len(queue) + Len(line) + a <= 6 * events
    BY <1>1, <1>2 DEF KeyTypes, InStep
  <2> QED  BY <1>3, <1>5, <1>6, <2>1
<1>11. InStep(a)'
  BY <1>2, <1>8, <1>10 DEF InStep
<1> QED  BY <1>1, <1>3, <1>8, <1>9, <1>11 DEF KeyInv

\* Read: a byte moves to the prefix, or the first code of the replay is decoded.
LEMMA ReadInv ==
  ASSUME KeyInv, Read
  PROVE  KeyInv'
<1>1. KeyTypes /\ Now \in At /\ (prefix # <<>> => More(prefix))
  BY DEF KeyInv
<1>2. PICK a \in Int : InStep(a)
  BY DEF KeyInv
<1>3. PICK b, r : b = Head(queue) /\ r = Tail(queue) \o line
  OBVIOUS
<1>4. PICK s : s = Append(prefix, b)
  OBVIOUS
<1>5. /\ queue # <<>> /\ scan_code' = b /\ queue' = Tail(queue)
      /\ UNCHANGED <<down, lit, events, line>>
  BY <1>3 DEF Read, KbIn!Get, user
<1>6. /\ b \in Byte /\ queue' \in Seq(Byte) /\ queue = <<b>> \o queue'
      /\ Len(queue') = Len(queue) - 1
  BY <1>1, <1>3, <1>5, HeadTailProperties DEF KeyTypes
<1>7. s \in Seq(Byte) /\ s # <<>> /\ s = prefix \o <<b>>
  BY <1>1, <1>4, <1>6, AppendProperties, AppendIsConcat DEF KeyTypes
<1>8. r \in Seq(Byte) /\ prefix \o (queue \o line) = s \o r
  <2>1. /\ prefix \in Seq(Byte) /\ line \in Seq(Byte) /\ queue' \in Seq(Byte)
        /\ <<b>> \in Seq(Byte) /\ r = queue' \o line
    BY <1>1, <1>3, <1>5, <1>6 DEF KeyTypes
  <2>2. r \in Seq(Byte)
    BY <2>1, ConcatProperties
  <2>3. (<<b>> \o queue') \o line = <<b>> \o r
    BY <2>1, ConcatAssociative
  <2>4. (prefix \o <<b>>) \o r = prefix \o (<<b>> \o r)
    BY <2>1, <2>2, ConcatAssociative
  <2> QED  BY <1>6, <1>7, <2>2, <2>3, <2>4
<1>9. Len(queue') + Len(line') + a <= 6 * events'
  <2>1. /\ Len(queue) \in Nat /\ Len(line) \in Nat /\ events \in Nat
        /\ Len(queue) + Len(line) + a <= 6 * events
    BY <1>1, <1>2 DEF KeyTypes, InStep
  <2> QED  BY <1>5, <1>6, <2>1
<1>10. Done(a)' = Done(a)
  BY <1>5 DEF Done, Flags
<1>11. CASE More(s)
  <2>1. prefix' = s /\ UNCHANGED <<due, mods, locks, acks>>
    BY <1>4, <1>5, <1>11 DEF Read
  <2>2. Now' = Now
    <3>1. prefix' \o (queue' \o line') = prefix \o (queue \o line)
      BY <1>3, <1>5, <1>8, <2>1
    <3> QED  BY <2>1, <3>1 DEF Now
  <2>3. KeyTypes'
    BY <1>1, <1>5, <1>6, <1>7, <2>1 DEF KeyTypes
  <2>4. InStep(a)'
    BY <1>2, <1>9, <1>10, <2>2 DEF InStep
  <2>5. (prefix # <<>> => More(prefix))'
    BY <1>11, <2>1 DEF More, Starts
  <2> QED  BY <1>1, <2>2, <2>3, <2>4, <2>5 DEF KeyInv
<1>12. CASE ~More(s)
  <2>1. prefix' = <<>> /\ Decode(s)
    BY <1>4, <1>5, <1>12 DEF Read
  <2>2. PICK d \in At : Step(Now, d) /\ Reaches(d, Done(a))
    <3>1. Now # Done(a)
      <4>1. Now.bytes = s \o r /\ Done(a).bytes = <<>>
        BY <1>8 DEF Now, Done
      <4>2. s \o r # <<>>
        BY <1>7, <1>8, ConcatEqualIffEmpty
      <4> QED  BY <4>1, <4>2
    <3>2. Done(a) \in At /\ Reaches(Now, Done(a))
      BY <1>1, <1>2, DoneAt DEF KeyTypes, InStep
    <3> QED  BY <1>1, <3>1, <3>2, ReachesFirst
  <2>3. PICK c \in Seq(Byte) :
          LET e == Effect(c, mods, locks)
          IN  /\ Complete(c) /\ c # <<>> /\ s \o r = c \o d.bytes
              /\ e.out \in Seq(Item) /\ due = e.out \o d.due
              /\ d.mods = e.mods /\ d.locks = e.locks /\ d.acks = acks + e.leds
    BY <1>8, <2>2 DEF Step, Now
  <2>4. s = c /\ r = d.bytes
    <3>1. PICK q : q = d.bytes
      OBVIOUS
    <3>2. q \in Seq(Byte) /\ c \in Seq(Byte) /\ Complete(c) /\ c # <<>> /\ s \o r = c \o q
      BY <2>3, <3>1 DEF At
    <3>3. NoCodeWithin(s)
      BY <1>1, <1>4, <1>6, NothingEarlier DEF KeyTypes
    <3>4. PICK t : CutAs(t, s, r) /\ CutAs(t, c, q)
      BY <3>2 DEF CutAs
    <3>5. s = c /\ r = q
      BY <1>7, <1>8, <1>12, <3>2, <3>3, <3>4, SameCode
    <3> QED  BY <3>1, <3>5
  <2>5. PICK e : e = Effect(s, mods, locks)
    OBVIOUS
  <2>6. /\ e.out \in Seq(Item) /\ due = e.out \o d.due
        /\ d.mods = e.mods /\ d.locks = e.locks /\ d.acks = acks + e.leds
    BY <2>3, <2>4, <2>5
  <2>7. mods' = e.mods /\ locks' = e.locks /\ acks' = acks + e.leds /\ InProcess(e.out)
    BY <2>1, <2>5 DEF Decode
  <2>8. due' = d.due
    <3>1. PICK o, q : o = e.out /\ q = d.due
      OBVIOUS
    <3>2. o \in Seq(Item) /\ q \in Seq(Item) /\ due = o \o q
      BY <2>6, <3>1 DEF At
    <3>3. CASE o = <<>>
      BY <2>7, <3>1, <3>2, <3>3, ConcatEmptySeq DEF InProcess
    <3>4. CASE o # <<>>
      <4>1. PICK x : o = <<x>>
        BY <2>5, <3>1, <3>4, LedsAndOut
      <4>2. Len(o) = 1 /\ o[1] = x
        BY <4>1
      <4>3. x \in Item
        <5>1. 1 \in 1..Len(o)
          BY <4>2
        <5>2. o[1] \in Item
          BY <3>2, <5>1, ElementOfSeq
        <5> QED  BY <4>2, <5>2
      <4>4. due # <<>> /\ Head(due) = x /\ Tail(due) = q
        BY <3>2, <4>1, <4>3
      <4> QED  BY <2>7, <3>1, <3>4, <4>2, <4>4 DEF InProcess
    <3> QED  BY <3>3, <3>4
  <2>9. Now' = d
    <3>1. <<>> \o (queue' \o line') = d.bytes
      BY <1>3, <1>5, <1>8, <2>4, ConcatEmptySeq
    <3>2. Now' = [bytes |-> d.bytes, due |-> d.due, mods |-> d.mods, locks |-> d.locks,
                  acks |-> d.acks]
      BY <2>1, <2>6, <2>7, <2>8, <3>1 DEF Now
    <3> QED  BY <3>2 DEF At
  <2>10. KeyTypes'
    <3>1. acks' \in Nat
      <4>1. e.leds \in {0, 2} /\ acks \in Nat
        BY <1>1, <2>5, LedsAndOut DEF KeyTypes
      <4> QED  BY <2>7, <4>1
    <3> QED  BY <1>1, <1>5, <1>6, <2>1, <3>1 DEF KeyTypes
  <2>11. InStep(a)'
    BY <1>9, <1>10, <2>2, <2>9 DEF InStep
  <2>12. (Now \in At)' /\ (prefix # <<>> => More(prefix))'
    BY <2>1, <2>9
  <2> QED  BY <2>10, <2>11, <2>12 DEF KeyInv
<1> QED  BY <1>11, <1>12

\* Every step keeps the invariant.
LEMMA InvNext ==
  ASSUME KeyInv, OneAlt, Room, [Next]_vars
  PROVE  KeyInv'
<1>1. ASSUME NEW k \in Keys, Press(k) PROVE KeyInv'
  BY <1>1, PressInv
<1>2. ASSUME NEW k \in Keys, Release(k) PROVE KeyInv'
  BY <1>2, ReleaseInv
<1>3. CASE Deliver
  BY <1>3, DeliverInv
<1>4. CASE Acknowledge
  BY <1>4, AcknowledgeInv
<1>5. CASE Read
  BY <1>5, ReadInv
<1>6. CASE UNCHANGED vars
  <2>1. /\ Now' = Now /\ \A a \in Int : Done(a)' = Done(a)
        /\ UNCHANGED <<down, lit, line, acks, events, queue, prefix>>
    BY <1>6 DEF vars, Now, Done, Flags
  <2>2. \A a \in Int : InStep(a) => InStep(a)'
    BY <2>1 DEF InStep
  <2>3. KeyTypes'
    BY <2>1 DEF KeyInv, KeyTypes
  <2> QED  BY <2>1, <2>2, <2>3 DEF KeyInv, More, Starts
<1> QED  BY <1>1, <1>2, <1>3, <1>4, <1>5, <1>6 DEF Next

\* What is due is due to keys that were pressed.
LEMMA InvOrder == KeyInv => DecodesInOrder
<1> SUFFICES ASSUME KeyInv, NEW n \in 1..Len(due) PROVE due[n].key # "wrong"
  BY DEF DecodesInOrder
<1>1. due \in Seq(Item)
  BY DEF KeyInv, At, Now
<1>2. due[n] \in Item
  BY <1>1
<1> QED  BY <1>2, KeyNames DEF Item, Names

\* The bytes under way and the acknowledgements owed are at most six per event.
LEMMA InvRoom ==
  ASSUME KeyInv, 6 * MaxEvents <= KB_IN_BYTES
  PROVE  Room
<1>1. KeyTypes /\ Now \in At
  BY DEF KeyInv
<1>2. PICK a \in Int : InStep(a)
  BY DEF KeyInv
<1>3. Now.acks <= Done(a).acks
  BY <1>1, <1>2, DoneAt, ReachesUp DEF InStep, KeyTypes
<1>4. a >= 0
  BY <1>1, <1>3 DEF Now, Done, KeyTypes
<1>5. SUFFICES ASSUME line # <<>> PROVE Len(queue) < KB_IN_BYTES
  BY DEF Room
<1>6. Len(line) > 0 /\ Len(line) \in Nat /\ Len(queue) \in Nat
  BY <1>1, <1>5, EmptySeq DEF KeyTypes
<1>7. 6 * events <= 6 * MaxEvents /\ events \in Nat
  BY <1>1, KeyboardAssumption DEF KeyTypes
<1> QED  BY <1>2, <1>4, <1>6, <1>7, KeyboardAssumption DEF InStep

\* The bytes under way begin with a whole code, if the replay has a step.
LEMMA WholeCode ==
  ASSUME Now \in At, lit \subseteq Locks, NEW a \in Int, InStep(a), Now.bytes # <<>>
  PROVE  \E c, q \in Seq(Byte) : Complete(c) /\ c # <<>> /\ CutAs(Now.bytes, c, q)
<1>1. Now # Done(a) /\ Done(a) \in At /\ Reaches(Now, Done(a))
  BY DoneAt DEF Done, InStep
<1>2. PICK d \in At : Step(Now, d)
  BY <1>1, ReachesFirst
<1>3. PICK c \in Seq(Byte) : Complete(c) /\ c # <<>> /\ CutAs(Now.bytes, c, d.bytes)
  BY <1>2 DEF Step, CutAs
<1>4. d.bytes \in Seq(Byte)
  BY DEF At
<1> QED  BY <1>3, <1>4

\* With nothing to come the prefix is empty, as a beginning of a code has no
\* whole code in it, and a replay of no bytes has no steps.
LEMMA InvQuiet ==
  ASSUME KeyInv, queue = <<>>, line = <<>>
  PROVE  prefix = <<>> /\ due = <<>> /\ mods = Flags(down) /\ locks = lit
<1>1. KeyTypes /\ Now \in At /\ (prefix # <<>> => More(prefix))
  BY DEF KeyInv
<1>2. PICK a \in Int : InStep(a)
  BY DEF KeyInv
<1>3. Now.bytes = prefix
  <2>1. <<>> \o <<>> = <<>> /\ prefix \o <<>> = prefix
    BY <1>1, ConcatEmptySeq DEF KeyTypes
  <2> QED  BY <2>1 DEF Now
<1>4. prefix = <<>>
  <2> SUFFICES ASSUME prefix # <<>> PROVE FALSE
    OBVIOUS
  <2>1. PICK c, q \in Seq(Byte) : Complete(c) /\ c # <<>> /\ CutAs(prefix, c, q)
    BY <1>1, <1>2, <1>3, WholeCode DEF KeyTypes
  <2>2. PICK s \in Seq(Byte) : s = prefix
    BY <1>1 DEF KeyTypes
  <2>3. c \o q = s \o <<>> /\ Len(c) \in 1..Len(s)
    <3>1. s = c \o q /\ s \o <<>> = s
      BY <2>1, <2>2, ConcatEmptySeq DEF CutAs
    <3>2. Len(s) = Len(c) + Len(q) /\ Len(c) \in Nat /\ Len(q) \in Nat /\ Len(c) # 0
      BY <2>1, <3>1, ConcatProperties, EmptySeq
    <3> QED  BY <3>1, <3>2
  <2>4. SubSeq(s, 1, Len(c)) = c
    <3>1. <<>> \in Seq(Byte) /\ Len(c) <= Len(s)
      BY <2>3
    <3> QED  BY <2>1, <2>3, <3>1, FirstOf
  <2>5. ~Complete(SubSeq(s, 1, Len(c)))
    BY <1>1, <2>2, <2>3, PartIsNoCode
  <2>6. PICK u : u = SubSeq(s, 1, Len(c))
    OBVIOUS
  <2> QED  BY <2>1, <2>4, <2>5, <2>6
<1>5. Now = Done(a)
  <2> SUFFICES ASSUME Now # Done(a) PROVE FALSE
    OBVIOUS
  <2>1. PICK d \in At : Step(Now, d)
    <3>1. Done(a) \in At /\ Reaches(Now, Done(a))
      BY <1>1, <1>2, DoneAt DEF InStep, KeyTypes
    <3> QED  BY <1>1, <3>1, ReachesFirst
  <2>2. PICK c \in Seq(Byte) : c # <<>> /\ <<>> = c \o d.bytes
    BY <1>3, <1>4, <2>1 DEF Step
  <2>3. PICK q : q = d.bytes
    OBVIOUS
  <2>4. q \in Seq(Byte) /\ <<>> = c \o q
    BY <2>2, <2>3 DEF At
  <2>5. Len(c) + Len(q) = 0 /\ Len(c) \in Nat /\ Len(q) \in Nat
    <3>1. PICK t : t = c \o q
      OBVIOUS
    <3>2. Len(t) = Len(c) + Len(q)
      BY <2>4, <3>1, ConcatProperties
    <3>3. Len(t) = 0
      BY <2>4, <3>1
    <3> QED  BY <2>4, <3>2, <3>3
  <2>6. Len(c) = 0
    BY <2>5
  <2> QED  BY <2>2, <2>6, EmptySeq
<1> QED  BY <1>4, <1>5 DEF Now, Done

\* What is under way, decoded from where the task is, gives what was typed.
THEOREM KeyInvariant == Spec /\ []Room /\ []OneAlt => []KeyInv
<1>1. KeyInv /\ Room /\ OneAlt /\ [Next]_vars => KeyInv'
  BY InvNext
<1> QED  BY <1>1, InvInit, PTL DEF Spec

\* Every key passed to in_process is the next key pressed, with the meaning and
\* the flags it had when it was pressed, for any set of keys, any number of
\* presses, repeats and releases, any number of acknowledgements between their
\* codes, and however far keyboard_read lags behind, as long as kb_in does not
\* overflow and the two Alt keys are not held at once.
THEOREM DecodedInOrder == Spec /\ []Room /\ []OneAlt => []DecodesInOrder
BY KeyInvariant, InvOrder, PTL

\* Six bytes of kb_in for each event are enough, acknowledgements included:
\* with that many the ring never drops a byte, whenever the task reads it.
THEOREM EnoughRoom ==
  ASSUME 6 * MaxEvents <= KB_IN_BYTES
  PROVE  Spec /\ []OneAlt => [](Room /\ DecodesInOrder)
<1>1. KeyInv => Room
  BY InvRoom
<1>2. KeyInv /\ OneAlt /\ [Next]_vars => KeyInv'
  BY <1>1, InvNext
<1> QED  BY <1>1, <1>2, InvInit, InvOrder, PTL DEF Spec

Quiet == queue = <<>> /\ line = <<>>
           => prefix = <<>> /\ due = <<>> /\ mods = Flags(down) /\ locks = lit

\* Whenever no byte is under way, keyboard_read is not waiting for the rest of a
\* code (which would never come, and leave task_tty to serve no terminal), every
\* key pressed has been passed on, the modifier flags are the keys held and the
\* locks the lights: no sequence of keys leaves the decoder out of step with the
\* keyboard.  This is the safety half of EveryKeyDecoded.
THEOREM QuietInStep == Spec /\ []Room /\ []OneAlt => []Quiet
<1>1. KeyInv => Quiet
  BY InvQuiet DEF Quiet
<1> QED  BY <1>1, KeyInvariant, PTL
=============================================================================
