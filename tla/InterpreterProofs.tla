------------------------- MODULE InterpreterProofs -------------------------
(***************************************************************************)
(* The C stack, the buffers and the input units of Interpreter, for any    *)
(* program: InterpreterFlow's Balanced is inductive once the frames are    *)
(* known to be nested the way the functions call each other. At the end,   *)
(* the statements with a label that EXEC gives to the interpreter again.   *)
(***************************************************************************)
EXTENDS InterpreterFlow, BufferedCommands, Induction, FiniteSetTheorems, SequenceTheorems

(***************************************************************************)
(* A frame is a call of madx_input, or of pro_input for a line of a file   *)
(* or for a body or macro.                                                 *)
(***************************************************************************)
IsFrame(f) ==
  \/ f.kind = "input" /\ f = Input(f.top, f.level)
  \/ /\ f.kind = "block" /\ f.at \in Int
     /\ f = [kind |-> "block", code |-> f.code, owner |-> f.owner, level |-> f.level,
             at |-> f.at, halted |-> f.halted]

Role(f) == IF f.kind = "input" THEN "file" ELSE IF f.owner = "line" THEN "line" ELSE "body"

(***************************************************************************)
(* The first frame reads the main file; each line is read by the file      *)
(* below it, and all else is begun by a statement.                         *)
(***************************************************************************)
Nested(st) ==
  /\ st \in Seq(Range(st))
  /\ \A i \in 1 .. Len(st) :
       /\ IsFrame(st[i])
       /\ i = 1 => Role(st[i]) = "file"
       /\ i > 1 => (Role(st[i]) = "line" <=> Role(st[i - 1]) = "file")

Callable(st, f) == Role(f) = "line" <=> Role(Last(st)) = "file"

Bodies(st) == {i \in 1 .. Len(st) : Role(st[i]) = "body"}

Inputs(st) == {i \in 1 .. Len(st) : Role(st[i]) = "file"}

UpTo(places, i) == {j \in places : j <= i}

Levels(st, level) ==
  /\ level = 1 + Cardinality(Bodies(st))
  /\ \A i \in Bodies(st) : st[i].level = 1 + Cardinality(UpTo(Bodies(st), i))

Units(st, unit) ==
  /\ st # <<>> => unit = Cardinality(Inputs(st)) - 1
  /\ \A i \in Inputs(st) : i > 1 => st[i].top = Cardinality(UpTo(Inputs(st), i)) - 2

IInv ==
  /\ Nested(stack)
  /\ Levels(stack, pro_curr)
  /\ ~stop_flag => Units(stack, in_curr)

-----------------------------------------------------------------------------
(* Sets of places in a sequence.                                           *)

LEMMA Places ==
  ASSUME NEW n \in Nat, NEW B \in SUBSET (1 .. n)
  PROVE  /\ IsFiniteSet(B) /\ Cardinality(B) \in Nat
         /\ Cardinality(B \union {n + 1}) = Cardinality(B) + 1
         /\ n \in B => Cardinality(B \ {n}) = Cardinality(B) - 1
<1>1. IsFiniteSet(B)
  <2>1. IsFiniteSet(1 .. n)
    BY FS_Interval
  <2> QED
    BY <2>1, FS_Subset
<1>2. Cardinality(B) \in Nat
  BY <1>1, FS_CardinalityType
<1>3. Cardinality(B \union {n + 1}) = Cardinality(B) + 1
  BY <1>1, FS_AddElement
<1>4. n \in B => Cardinality(B \ {n}) = Cardinality(B) - 1
  BY <1>1, FS_RemoveElement
<1> QED
  BY <1>1, <1>2, <1>3, <1>4

(***************************************************************************)
(* What is called.                                                         *)
(***************************************************************************)
LEMMA Pushed ==
  ASSUME NEW st, Nested(st), st # <<>>, NEW f, IsFrame(f),
         Callable(st, f),
         NEW to, to = Append(st, f)
  PROVE  /\ Nested(to)
         /\ Len(st) \in Nat \ {0} /\ Len(to) = Len(st) + 1
         /\ \A i \in 1 .. Len(st) : to[i] = st[i]
         /\ to[Len(st) + 1] = f
<1> DEFINE n == Len(st)
           S == Range(st) \union {f}
<1>1. /\ n \in Nat \ {0} /\ st \in Seq(Range(st))
  BY EmptySeq DEF Nested
<1>2. st \in Seq(S)
  BY <1>1, SeqMonotonic
<1>3. /\ to \in Seq(S) /\ Len(to) = n + 1
      /\ \A i \in 1 .. n : to[i] = st[i]
      /\ to[n + 1] = f
  <2> HIDE DEF S
  <2>1. f \in S
    BY DEF S
  <2> QED
    BY <1>2, <2>1, AppendProperties
<1>4. to \in Seq(Range(to))
  BY <1>3, SeqOfRange
<1>5. Role(Last(st)) = Role(st[n])
  BY DEF Last
<1>6. ASSUME NEW i \in 1 .. Len(to)
      PROVE  /\ IsFrame(to[i])
             /\ i = 1 => Role(to[i]) = "file"
             /\ i > 1 => (Role(to[i]) = "line" <=> Role(to[i - 1]) = "file")
  <2>1. CASE i <= n
    BY <2>1, <1>1, <1>3 DEF Nested
  <2>2. CASE i = n + 1
    <3>1. to[i] = f /\ i > 1 /\ to[i - 1] = st[n]
      BY <2>2, <1>1, <1>3
    <3> QED
      BY <3>1, <1>5 DEF Callable
  <2> QED
    BY <2>1, <2>2, <1>1, <1>3
<1> QED
  BY <1>1, <1>3, <1>4, <1>6 DEF Nested

(***************************************************************************)
(* What returns.                                                           *)
(***************************************************************************)
LEMMA Popped ==
  ASSUME NEW st, Nested(st), st # <<>>, NEW to, to = Front(st)
  PROVE  /\ Nested(to)
         /\ Len(st) \in Nat \ {0} /\ Len(to) = Len(st) - 1
         /\ to # <<>> <=> Len(st) > 1
         /\ \A i \in 1 .. Len(st) - 1 : to[i] = st[i]
<1> DEFINE n == Len(st)
           S == Range(st)
<1>1. /\ n \in Nat \ {0} /\ st \in Seq(S)
  BY EmptySeq DEF Nested
<1>2. \A i \in 1 .. n - 1 : st[i] \in S
  BY <1>1, ElementOfSeq
<1>3. /\ to \in Seq(S) /\ Len(to) = n - 1
      /\ \A i \in 1 .. n - 1 : to[i] = st[i]
  <2> HIDE DEF S
  <2>1. \A i \in 1 .. (n - 1) - 1 + 1 : to[i] = st[1 + i - 1]
    BY <1>1, <1>2, SubSeqProperties DEF Front
  <2>2. to \in Seq(S) /\ Len(to) = IF 1 <= n - 1 THEN (n - 1) - 1 + 1 ELSE 0
    BY <1>1, <1>2, SubSeqProperties DEF Front
  <2>3. ASSUME NEW i \in 1 .. n - 1 PROVE to[i] = st[i]
    <3>1. i \in 1 .. (n - 1) - 1 + 1 /\ 1 + i - 1 = i
      BY <1>1
    <3> QED
      BY <2>1, <3>1
  <2>4. Len(to) = n - 1
    <3>1. 1 <= n - 1 => Len(to) = (n - 1) - 1 + 1
      BY <2>2
    <3>2. ~(1 <= n - 1) => Len(to) = 0
      BY <2>2
    <3> QED
      BY <1>1, <3>1, <3>2
  <2> QED
    BY <2>2, <2>3, <2>4
<1>4. to \in Seq(Range(to))
  BY <1>3, SeqOfRange
<1>5. Nested(to)
  <2>1. ASSUME NEW i \in 1 .. Len(to)
        PROVE  i \in 1 .. n /\ to[i] = st[i] /\ (i > 1 => to[i - 1] = st[i - 1])
    BY <1>1, <1>3
  <2> QED
    BY <1>4, <2>1 DEF Nested
<1>6. to # <<>> <=> n > 1
  BY <1>1, <1>3
<1> QED
  BY <1>1, <1>3, <1>5, <1>6

(***************************************************************************)
(* The frames are calls of the same functions at the same places: only     *)
(* how far they have come may differ.                                      *)
(***************************************************************************)
SameCalls(st, to) ==
  /\ Len(to) = Len(st)
  /\ \A i \in 1 .. Len(st) :
       /\ Role(to[i]) = Role(st[i]) /\ to[i].level = st[i].level
       /\ Role(st[i]) = "file" => to[i].top = st[i].top

(***************************************************************************)
(* A call of pro_input goes on: the calls stay as they are.                *)
(***************************************************************************)
LEMMA Updated ==
  ASSUME NEW st, Nested(st), st # <<>>, NEW f, IsFrame(f),
         f.kind = "block" /\ Role(f) = Role(Last(st)) /\ f.level = Last(st).level,
         NEW to, to = [st EXCEPT ![Len(st)] = f]
  PROVE  /\ Nested(to) /\ SameCalls(st, to)
         /\ to # <<>> /\ Last(to) = f
<1> DEFINE n == Len(st)
           S == Range(st) \union {f}
<1>1. /\ n \in Nat \ {0} /\ st \in Seq(Range(st))
  BY EmptySeq DEF Nested
<1>2. Last(st) = st[n]
  BY DEF Last
<1>3. /\ Len(to) = n /\ to \in Seq(S)
      /\ \A i \in 1 .. n : i # n => to[i] = st[i]
      /\ to[n] = f
  <2>1. st \in Seq(S)
    BY <1>1, SeqMonotonic
  <2>2. f \in S
    OBVIOUS
  <2> HIDE DEF S
  <2> QED
    BY <1>1, <2>1, <2>2, ExceptSeq
<1>4. to \in Seq(Range(to))
  BY <1>3, SeqOfRange
<1>5. Role(st[n]) # "file"
  BY <1>2 DEF Role
<1>6. SameCalls(st, to)
  BY <1>1, <1>2, <1>3, <1>5 DEF SameCalls
<1>7. ASSUME NEW i \in 1 .. Len(to)
      PROVE  /\ IsFrame(to[i])
             /\ i = 1 => Role(to[i]) = "file"
             /\ i > 1 => (Role(to[i]) = "line" <=> Role(to[i - 1]) = "file")
  <2>1. IsFrame(to[i])
    BY <1>1, <1>3 DEF Nested
  <2>2. i \in 1 .. n
    BY <1>3
  <2>a. i > 1 => i - 1 \in 1 .. n
    BY <1>1, <2>2
  <2>3. \A j \in 1 .. n : Role(to[j]) = Role(st[j])
    BY <1>6 DEF SameCalls
  <2> QED
    BY <2>1, <2>2, <2>a, <2>3 DEF Nested
<1>8. to # <<>> /\ Last(to) = f
  BY <1>1, <1>3, EmptySeq DEF Last
<1> QED
  BY <1>4, <1>6, <1>7, <1>8 DEF Nested

LEMMA SameCallsTwice ==
  ASSUME NEW st, NEW u, NEW v, SameCalls(st, u), SameCalls(u, v)
  PROVE  SameCalls(st, v)
  BY DEF SameCalls

LEMMA PastCalls ==
  ASSUME NEW st, Nested(st), st # <<>>, Last(st).kind = "block"
  PROVE  Nested(Past(st)) /\ SameCalls(st, Past(st))
<1> DEFINE f == [Last(st) EXCEPT !.at = @ + 1]
<1>1. Past(st) = [st EXCEPT ![Len(st)] = f]
  BY DEF Past, Last
<1>2. IsFrame(Last(st))
  BY DEF Nested, Last
<1>3. f = [kind |-> "block", code |-> Last(st).code, owner |-> Last(st).owner,
           level |-> Last(st).level, at |-> Last(st).at + 1, halted |-> Last(st).halted]
  BY <1>2 DEF IsFrame
<1>4. IsFrame(f) /\ f.kind = "block" /\ Role(f) = Role(Last(st)) /\ f.level = Last(st).level
  <2>1. Last(st).at \in Int
    BY <1>2 DEF IsFrame
  <2> HIDE DEF f
  <2>2. /\ f.kind = "block" /\ f.code = Last(st).code /\ f.owner = Last(st).owner
        /\ f.level = Last(st).level /\ f.at \in Int /\ f.halted = Last(st).halted
    BY <1>3, <2>1
  <2> QED
    BY <1>3, <2>2 DEF IsFrame, Role
<1>5. /\ IsFrame(f) /\ Nested(st) /\ st # <<>>
      /\ Last(st).kind = "block" /\ f.kind = "block"
      /\ Role(f) = Role(Last(st)) /\ f.level = Last(st).level
  BY <1>4
<1> HIDE DEF f
<1>6. Nested([st EXCEPT ![Len(st)] = f]) /\ SameCalls(st, [st EXCEPT ![Len(st)] = f])
  BY <1>5, Updated
<1> QED
  BY <1>1, <1>6

LEMMA OverCalls ==
  ASSUME NEW st, Nested(st), st # <<>>, Last(st).kind = "block", NEW stop
  PROVE  Nested(Over(st, stop)) /\ SameCalls(st, Over(st, stop))
<1>1. CASE ~stop
  BY <1>1, PastCalls DEF Over
<1>2. CASE stop
  <2>0. PICK h : h = TRUE
    OBVIOUS
  <2> DEFINE f == [Last(st) EXCEPT !.halted = h]
             a == [st EXCEPT ![Len(st)] = f]
             g == [Last(a) EXCEPT !.code = SubSeq(@, 1, Last(st).at - 1)]
             b == [a EXCEPT ![Len(a)] = g]
  <2>1. IsFrame(Last(st))
    BY DEF Nested, Last
  <2>2. f = [kind |-> "block", code |-> Last(st).code, owner |-> Last(st).owner,
             level |-> Last(st).level, at |-> Last(st).at, halted |-> h]
    BY <2>1 DEF IsFrame
  <2>3. IsFrame(f) /\ f.kind = "block" /\ Role(f) = Role(Last(st)) /\ f.level = Last(st).level
    <3>1. Last(st).at \in Int
      BY <2>1 DEF IsFrame
    <3> HIDE DEF f
    <3>2. /\ f.kind = "block" /\ f.code = Last(st).code /\ f.owner = Last(st).owner
          /\ f.level = Last(st).level /\ f.at \in Int /\ f.halted = h
      BY <2>2, <3>1
    <3> QED
      BY <2>2, <3>2 DEF IsFrame, Role
  <2>4. Nested(a) /\ SameCalls(st, a) /\ a # <<>> /\ Last(a) = f
    <3>1. a = [st EXCEPT ![Len(st)] = f]
      OBVIOUS
    <3>2. /\ IsFrame(f) /\ Nested(st) /\ st # <<>>
          /\ f.kind = "block" /\ Role(f) = Role(Last(st)) /\ f.level = Last(st).level
      BY <2>3
    <3> HIDE DEF f, a
    <3> QED
      BY <3>1, <3>2, Updated
  <2>5. Len(a) = Len(st)
    BY <2>4 DEF SameCalls
  <2>6. g = [kind |-> "block", code |-> SubSeq(f.code, 1, Last(st).at - 1), owner |-> f.owner,
             level |-> f.level, at |-> f.at, halted |-> f.halted]
    <3>1. g = [f EXCEPT !.code = SubSeq(@, 1, Last(st).at - 1)]
      <4> HIDE DEF a, f
      <4> QED
        BY <2>4
    <3> DEFINE c == SubSeq(f.code, 1, Last(st).at - 1)
    <3>2. g = [f EXCEPT !.code = c]
      BY <3>1
    <3> HIDE DEF c
    <3>3. g = [kind |-> "block", code |-> c, owner |-> f.owner,
               level |-> f.level, at |-> f.at, halted |-> f.halted]
      <4> HIDE DEF a, g
      <4> QED
        BY <2>2, <3>2
    <3> QED
      BY <3>3 DEF c
  <2>7. IsFrame(g) /\ g.kind = "block" /\ Role(g) = Role(Last(a)) /\ g.level = Last(a).level
    <3> DEFINE c == SubSeq(f.code, 1, Last(st).at - 1)
    <3>1. g = [kind |-> "block", code |-> c, owner |-> f.owner, level |-> f.level,
               at |-> f.at, halted |-> f.halted]
      BY <2>6
    <3> HIDE DEF c, f, g, a
    <3>2. f.at \in Int
      BY <2>3 DEF IsFrame
    <3> QED
      BY <2>3, <2>4, <3>1, <3>2 DEF IsFrame, Role
  <2>8. Nested(b) /\ SameCalls(a, b)
    <3> HIDE DEF a, f, g
    <3> QED
      BY <2>4, <2>7, Updated
  <2>9. Over(st, stop) = b
    BY <1>2, <2>0, <2>5 DEF Over, Last
  <2> QED
    BY <2>4, <2>8, <2>9, SameCallsTwice
<1> QED
  BY <1>1, <1>2

-----------------------------------------------------------------------------
(* Levels and units, when calls go on, are made and return.                *)

LEMMA Below ==
  ASSUME NEW n \in Nat, NEW B \in SUBSET (1 .. n)
  PROVE  /\ UpTo(B \union {n + 1}, n + 1) = B \union {n + 1}
         /\ n \in B => UpTo(B, n) = B
         /\ \A i \in B : UpTo(B \union {n + 1}, i) = UpTo(B, i)
         /\ \A i \in B : i # n => UpTo(B \ {n}, i) = UpTo(B, i)
<1>a. \A j \in B : j \in Int /\ j <= n
  OBVIOUS
<1>1. UpTo(B \union {n + 1}, n + 1) = B \union {n + 1}
  <2>1. \A j \in B \union {n + 1} : j <= n + 1
    BY <1>a
  <2> QED
    BY <2>1 DEF UpTo
<1>2. n \in B => UpTo(B, n) = B
  BY <1>a DEF UpTo
<1>3. \A i \in B : UpTo(B \union {n + 1}, i) = UpTo(B, i)
  BY DEF UpTo
<1>4. ASSUME NEW i \in B, i # n
      PROVE  UpTo(B \ {n}, i) = UpTo(B, i)
  BY <1>4 DEF UpTo
<1> QED
  BY <1>1, <1>2, <1>3, <1>4

LEMMA SameStep ==
  ASSUME NEW st, Nested(st), NEW to, Nested(to), SameCalls(st, to), NEW level, NEW unit
  PROVE  /\ Levels(st, level) => Levels(to, level)
         /\ Units(st, unit) => Units(to, unit)
<1>1. Bodies(to) = Bodies(st) /\ Inputs(to) = Inputs(st)
  BY DEF SameCalls, Bodies, Inputs
<1>2. \A i \in Bodies(st) : to[i].level = st[i].level
  BY DEF SameCalls, Bodies
<1>3. \A i \in Inputs(st) : to[i].top = st[i].top
  BY DEF SameCalls, Inputs
<1>4. to # <<>> => st # <<>>
  BY EmptySeq DEF SameCalls, Nested
<1> QED
  BY <1>1, <1>2, <1>3, <1>4 DEF Levels, Units

LEMMA PushStep ==
  ASSUME NEW st, Nested(st), st # <<>>, NEW f, IsFrame(f),
         Callable(st, f),
         NEW to, to = Append(st, f),
         NEW level, Levels(st, level), NEW unit
  PROVE  /\ Nested(to) /\ to # <<>>
         /\ Role(f) = "body" /\ f.level = level + 1 => Levels(to, level + 1)
         /\ Role(f) # "body" => Levels(to, level)
         /\ Role(f) = "file" /\ f.top = unit /\ Units(st, unit) => Units(to, unit + 1)
         /\ Role(f) # "file" /\ Units(st, unit) => Units(to, unit)
<1> DEFINE n == Len(st)
<1>1. /\ Nested(to)
      /\ n \in Nat \ {0} /\ Len(to) = n + 1
      /\ \A i \in 1 .. n : to[i] = st[i]
      /\ to[n + 1] = f
  <2>1. Nested(to)
    BY Pushed
  <2>2. Len(st) \in Nat \ {0} /\ Len(to) = Len(st) + 1
    BY Pushed
  <2>3. \A i \in 1 .. Len(st) : to[i] = st[i]
    BY Pushed
  <2>4. to[Len(st) + 1] = f
    BY Pushed
  <2> QED
    BY <2>1, <2>2, <2>3, <2>4
<1>2. to # <<>>
  BY <1>1, EmptySeq
<1>3. Bodies(st) \in SUBSET (1 .. n) /\ Inputs(st) \in SUBSET (1 .. n)
  BY DEF Bodies, Inputs
<1>4. Bodies(to) = IF Role(f) = "body" THEN Bodies(st) \union {n + 1} ELSE Bodies(st)
  BY <1>1 DEF Bodies
<1>5. Inputs(to) = IF Role(f) = "file" THEN Inputs(st) \union {n + 1} ELSE Inputs(st)
  BY <1>1 DEF Inputs
<1>6. \A i \in Bodies(st) \union Inputs(st) : to[i] = st[i]
  BY <1>1, <1>3
<1>7. ASSUME Role(f) = "body", f.level = level + 1
      PROVE  Levels(to, level + 1)
  <2> DEFINE B == Bodies(st)
  <2>1. /\ Cardinality(B) \in Nat /\ Cardinality(B \union {n + 1}) = Cardinality(B) + 1
    BY <1>1, <1>3, Places
  <2>2. /\ UpTo(B \union {n + 1}, n + 1) = B \union {n + 1}
        /\ \A i \in B : UpTo(B \union {n + 1}, i) = UpTo(B, i)
    <3>1. n \in Nat /\ B \in SUBSET (1 .. n)
      BY <1>1, <1>3
    <3> HIDE DEF n, B
    <3> QED
      BY <3>1, Below
  <2>3. Bodies(to) = B \union {n + 1}
    BY <1>4, <1>7
  <2>4. level + 1 = 1 + Cardinality(Bodies(to))
    BY <2>1, <2>3 DEF Levels
  <2>5. to[n + 1].level = 1 + Cardinality(UpTo(Bodies(to), n + 1))
    BY <1>1, <1>7, <2>2, <2>3, <2>4
  <2>6. \A i \in B : to[i].level = 1 + Cardinality(UpTo(Bodies(to), i))
    BY <1>6, <2>2, <2>3 DEF Levels
  <2> QED
    BY <2>3, <2>4, <2>5, <2>6 DEF Levels
<1>8. Role(f) # "body" => Levels(to, level)
  BY <1>4, <1>6 DEF Levels
<1>9. ASSUME Role(f) = "file", f.top = unit, Units(st, unit)
      PROVE  Units(to, unit + 1)
  <2> DEFINE B == Inputs(st)
  <2>1. /\ Cardinality(B) \in Nat /\ Cardinality(B \union {n + 1}) = Cardinality(B) + 1
    BY <1>1, <1>3, Places
  <2>2. /\ UpTo(B \union {n + 1}, n + 1) = B \union {n + 1}
        /\ \A i \in B : UpTo(B \union {n + 1}, i) = UpTo(B, i)
    <3>1. n \in Nat /\ B \in SUBSET (1 .. n)
      BY <1>1, <1>3
    <3> HIDE DEF n, B
    <3> QED
      BY <3>1, Below
  <2>3. Inputs(to) = B \union {n + 1}
    BY <1>5, <1>9
  <2>4. unit + 1 = Cardinality(Inputs(to)) - 1
    BY <1>9, <2>1, <2>3 DEF Units
  <2>5. to[n + 1].top = Cardinality(UpTo(Inputs(to), n + 1)) - 2
    <3>1. to[n + 1].top = unit
      BY <1>1, <1>9
    <3>2. unit = Cardinality(B) - 1
      BY <1>9 DEF Units
    <3>3. Cardinality(Inputs(to)) = Cardinality(B) + 1
      BY <2>1, <2>3
    <3>4. UpTo(Inputs(to), n + 1) = Inputs(to)
      BY <2>2, <2>3
    <3> HIDE DEF B
    <3> QED
      BY <2>1, <3>1, <3>2, <3>3, <3>4
  <2>6. \A i \in B : i > 1 => to[i].top = Cardinality(UpTo(Inputs(to), i)) - 2
    BY <1>6, <1>9, <2>2, <2>3 DEF Units
  <2> QED
    BY <2>3, <2>4, <2>5, <2>6 DEF Units
<1>10. Role(f) # "file" /\ Units(st, unit) => Units(to, unit)
  BY <1>5, <1>6 DEF Units
<1> QED
  BY <1>1, <1>2, <1>7, <1>8, <1>9, <1>10

(***************************************************************************)
(* What returns, and to whom.                                              *)
(***************************************************************************)
LEMMA Callers ==
  ASSUME NEW st, Nested(st), st # <<>>, NEW to, to = Front(st)
  PROVE  /\ Nested(to)
         /\ Role(Last(st)) = "line" => to # <<>> /\ Last(to).kind = "input"
         /\ Role(Last(st)) # "line" /\ to # <<>> => Last(to).kind = "block"
         /\ Role(Last(st)) = "body" => to # <<>>
<1> DEFINE n == Len(st)
<1>1. /\ n \in Nat \ {0} /\ Len(to) = n - 1
      /\ to # <<>> <=> n > 1
      /\ \A i \in 1 .. n - 1 : to[i] = st[i]
  <2> HIDE DEF n
  <2>1. Len(st) \in Nat \ {0} /\ Len(to) = Len(st) - 1
    BY Popped
  <2>2. to # <<>> <=> Len(st) > 1
    BY Popped
  <2>3. \A i \in 1 .. Len(st) - 1 : to[i] = st[i]
    BY Popped
  <2> QED
    BY <2>1, <2>2, <2>3 DEF n
<1>2. Nested(to)
  BY Popped
<1>3. Last(st) = st[n]
  BY DEF Last
<1>4. n > 1 => Last(to) = st[n - 1]
  <2> SUFFICES ASSUME n > 1
               PROVE  Last(to) = st[n - 1]
    OBVIOUS
  <2>1. n - 1 \in 1 .. n - 1
    BY <1>1
  <2>2. to[n - 1] = st[n - 1]
    BY <1>1, <2>1
  <2> QED
    BY <1>1, <2>2 DEF Last
<1>5. n > 1 => (Role(st[n]) = "line" <=> Role(st[n - 1]) = "file")
  <2>1. n \in 1 .. Len(st)
    BY <1>1
  <2> QED
    BY <2>1 DEF Nested
<1>6. n = 1 => Role(st[n]) = "file"
  BY <1>1 DEF Nested
<1>7. n > 1 => (Role(st[n - 1]) = "file" <=> st[n - 1].kind = "input")
  BY DEF Role
<1>8. n > 1 => st[n - 1].kind \in {"input", "block"}
  <2>1. n > 1 => n - 1 \in 1 .. Len(st)
    BY <1>1
  <2> QED
    BY <2>1 DEF Nested, IsFrame
<1> QED
  BY <1>1, <1>2, <1>3, <1>4, <1>5, <1>6, <1>7, <1>8

LEMMA PopStep ==
  ASSUME NEW st, Nested(st), st # <<>>, NEW to, to = Front(st),
         NEW level, Levels(st, level), NEW unit
  PROVE  /\ Role(Last(st)) = "body" => Last(st).level = level /\ Levels(to, level - 1)
         /\ Role(Last(st)) # "body" => Levels(to, level)
         /\ Role(Last(st)) # "file" /\ Units(st, unit) => Units(to, unit)
         /\ Role(Last(st)) = "file" /\ Units(st, unit) /\ unit = 0 => to = <<>>
         /\ Role(Last(st)) = "file" /\ Units(st, unit) /\ unit # 0 =>
              Last(st).top = unit - 1 /\ Units(to, unit - 1)
<1> DEFINE n == Len(st)
           r == Role(Last(st))
<1>1. /\ n \in Nat \ {0} /\ Len(to) = n - 1
      /\ to # <<>> <=> n > 1
      /\ \A i \in 1 .. n - 1 : to[i] = st[i]
  <2> HIDE DEF n
  <2>1. Len(st) \in Nat \ {0} /\ Len(to) = Len(st) - 1
    BY Popped
  <2>2. to # <<>> <=> Len(st) > 1
    BY Popped
  <2>3. \A i \in 1 .. Len(st) - 1 : to[i] = st[i]
    BY Popped
  <2> QED
    BY <2>1, <2>2, <2>3 DEF n
<1>2. Last(st) = st[n] /\ n \in 1 .. n /\ st[1] = st[1]
  BY <1>1 DEF Last
<1>3. Bodies(st) \in SUBSET (1 .. n) /\ Inputs(st) \in SUBSET (1 .. n)
  BY DEF Bodies, Inputs
<1>4. Bodies(to) = Bodies(st) \ {n} /\ Inputs(to) = Inputs(st) \ {n}
  BY <1>1 DEF Bodies, Inputs
<1>5. /\ n \in Bodies(st) <=> r = "body"
      /\ n \in Inputs(st) <=> r = "file"
  BY <1>2 DEF Bodies, Inputs
<1>6. \A i \in (Bodies(st) \union Inputs(st)) \ {n} : to[i] = st[i]
  BY <1>1, <1>3
<1>7. \A B \in SUBSET (1 .. n) :
        /\ IsFiniteSet(B) /\ Cardinality(B) \in Nat
        /\ n \in B => Cardinality(B \ {n}) = Cardinality(B) - 1
        /\ n \in B => UpTo(B, n) = B
        /\ \A i \in B : i # n => UpTo(B \ {n}, i) = UpTo(B, i)
  <2> TAKE B \in SUBSET (1 .. n)
  <2>1. /\ IsFiniteSet(B) /\ Cardinality(B) \in Nat
        /\ n \in B => Cardinality(B \ {n}) = Cardinality(B) - 1
    BY <1>1, Places
  <2>2. n \in Nat
    BY <1>1
  <2>3. n \in B => UpTo(B, n) = B
    <3> HIDE DEF n
    <3> QED
      BY <2>2, Below
  <2>4. \A i \in B : i # n => UpTo(B \ {n}, i) = UpTo(B, i)
    <3> HIDE DEF n
    <3> SUFFICES ASSUME NEW i \in B, i # n
                 PROVE  UpTo(B \ {n}, i) = UpTo(B, i)
      OBVIOUS
    <3>1. i < n
      BY <2>2
    <3> QED
      BY <3>1, <2>2 DEF UpTo
  <2> QED
    BY <2>1, <2>3, <2>4
<1>8. ASSUME r = "body"
      PROVE  Last(st).level = level /\ Levels(to, level - 1)
  <2>1. n \in Bodies(st)
    BY <1>5, <1>8
  <2>2. Cardinality(Bodies(to)) = Cardinality(Bodies(st)) - 1 /\ Cardinality(Bodies(st)) \in Nat
    BY <1>3, <1>4, <1>7, <2>1
  <2>3. level = 1 + Cardinality(Bodies(st))
    BY DEF Levels
  <2>4. level - 1 = 1 + Cardinality(Bodies(to))
    BY <2>2, <2>3
  <2>5. UpTo(Bodies(st), n) = Bodies(st)
    BY <1>3, <1>7, <2>1
  <2>6. st[n].level = 1 + Cardinality(Bodies(st))
    BY <2>1, <2>5 DEF Levels
  <2>7. \A i \in Bodies(to) : UpTo(Bodies(to), i) = UpTo(Bodies(st), i)
    <3>1. \A i \in Bodies(st) : i # n => UpTo(Bodies(st) \ {n}, i) = UpTo(Bodies(st), i)
      BY <1>3, <1>7
    <3> QED
      BY <1>4, <3>1
  <2>8. \A i \in Bodies(to) : to[i].level = 1 + Cardinality(UpTo(Bodies(to), i))
    BY <1>4, <1>6, <2>7 DEF Levels
  <2> QED
    BY <1>2, <2>3, <2>4, <2>6, <2>8 DEF Levels
<1>9. ASSUME r # "body"
      PROVE  Levels(to, level)
  <2>1. Bodies(to) = Bodies(st)
    BY <1>4, <1>5, <1>9
  <2>2. \A i \in Bodies(st) : to[i] = st[i]
    BY <1>4, <1>6, <2>1
  <2> QED
    BY <2>1, <2>2 DEF Levels
<1>10. to # <<>> => st # <<>>
  OBVIOUS
<1>11. ASSUME r # "file", Units(st, unit)
       PROVE  Units(to, unit)
  <2>1. Inputs(to) = Inputs(st)
    BY <1>4, <1>5, <1>11
  <2>2. \A i \in Inputs(st) : to[i] = st[i]
    BY <1>4, <1>6, <2>1
  <2> QED
    BY <1>11, <2>1, <2>2 DEF Units
<1>12. ASSUME r = "file", Units(st, unit)
       PROVE  /\ unit = 0 => to = <<>>
              /\ unit # 0 => Last(st).top = unit - 1 /\ Units(to, unit - 1)
  <2>1. n \in Inputs(st)
    BY <1>5, <1>12
  <2>2. Cardinality(Inputs(to)) = Cardinality(Inputs(st)) - 1 /\ Cardinality(Inputs(st)) \in Nat
    BY <1>3, <1>4, <1>7, <2>1
  <2>3. unit = Cardinality(Inputs(st)) - 1
    BY <1>12 DEF Units
  <2>4. unit = Cardinality(Inputs(to))
    BY <2>2, <2>3
  <2>5. IsFiniteSet(Inputs(to)) /\ (Cardinality(Inputs(to)) = 0 <=> Inputs(to) = {})
    <3>1. IsFiniteSet(Inputs(to))
      BY <1>3, <1>4, <1>7
    <3> QED
      BY <3>1, FS_EmptySet
  <2>6. n > 1 => 1 \in Inputs(to)
    <3>1. 1 \in Inputs(st)
      BY <1>1 DEF Nested, Inputs
    <3> QED
      BY <1>1, <1>4, <3>1
  <2>7. unit = 0 => to = <<>>
    BY <1>1, <2>4, <2>5, <2>6
  <2>8. n = 1 => Inputs(to) = {}
    BY <1>3, <1>4
  <2>9. unit # 0 => n > 1
    BY <1>1, <2>4, <2>5, <2>8
  <2>10. UpTo(Inputs(st), n) = Inputs(st)
    BY <1>3, <1>7, <2>1
  <2>11. n > 1 => st[n].top = Cardinality(Inputs(st)) - 2
    BY <1>12, <2>1, <2>10 DEF Units
  <2>12. \A i \in Inputs(to) : UpTo(Inputs(to), i) = UpTo(Inputs(st), i)
    <3>1. \A i \in Inputs(st) : i # n => UpTo(Inputs(st) \ {n}, i) = UpTo(Inputs(st), i)
      BY <1>3, <1>7
    <3> QED
      BY <1>4, <3>1
  <2>13. \A i \in Inputs(to) : i > 1 => to[i].top = Cardinality(UpTo(Inputs(to), i)) - 2
    BY <1>4, <1>6, <1>12, <2>12 DEF Units
  <2>14. Units(to, unit - 1)
    BY <2>4, <2>13 DEF Units
  <2> QED
    BY <1>2, <2>2, <2>3, <2>7, <2>9, <2>11, <2>14
<1> QED
  BY <1>8, <1>9, <1>11, <1>12

-----------------------------------------------------------------------------
(* The actions.                                                            *)

LEMMA InitIInv == Init => IInv
<1> SUFFICES ASSUME Init
             PROVE  IInv
  OBVIOUS
<1> DEFINE f == Input(0, 1)
<1>1. stack = <<f>> /\ pro_curr = 1 /\ in_curr = 0
  BY DEF Init
<1>2. f.kind = "input" /\ f.top = 0 /\ f.level = 1 /\ IsFrame(f) /\ Role(f) = "file"
  BY DEF Input, IsFrame, Role
<1>3. /\ stack \in Seq({f}) /\ Len(stack) = 1 /\ stack[1] = f
  BY <1>1
<1>4. stack \in Seq(Range(stack))
  BY <1>3, SeqOfRange
<1>5. Nested(stack)
  BY <1>2, <1>3, <1>4 DEF Nested
<1>6. Bodies(stack) = {} /\ Inputs(stack) = {1}
  BY <1>2, <1>3 DEF Bodies, Inputs
<1>7. Cardinality({}) = 0 /\ Cardinality({1}) = 1
  BY FS_EmptySet, FS_Singleton
<1>8. Levels(stack, pro_curr)
  BY <1>1, <1>6, <1>7 DEF Levels
<1>9. Units(stack, in_curr)
  BY <1>1, <1>6, <1>7 DEF Units
<1> QED
  BY <1>5, <1>8, <1>9 DEF IInv

(***************************************************************************)
(* A step within the function on top of the stack.                         *)
(***************************************************************************)
LEMMA Within ==
  ASSUME IInv, Nested(stack'), SameCalls(stack, stack'),
         UNCHANGED <<pro_curr, in_curr>>, ~stop_flag' => ~stop_flag
  PROVE  IInv'
<1>1. Levels(stack', pro_curr)
  BY SameStep DEF IInv
<1>2. ~stop_flag' => Units(stack', in_curr)
  BY SameStep DEF IInv
<1> QED
  BY <1>1, <1>2 DEF IInv

LEMMA WithinOver ==
  ASSUME IInv, InBlock, NEW stop, stack' = Over(stack, stop),
         UNCHANGED <<pro_curr, in_curr>>, ~stop_flag' => ~stop_flag
  PROVE  IInv'
<1>1. Nested(stack) /\ stack # <<>> /\ Last(stack).kind = "block"
  BY DEF IInv, InBlock, Running, Top
<1>2. Nested(stack') /\ SameCalls(stack, stack')
  BY <1>1, OverCalls
<1> QED
  BY <1>2, Within

LEMMA WithinPast ==
  ASSUME IInv, InBlock, stack' = Past(stack),
         UNCHANGED <<pro_curr, in_curr, stop_flag>>
  PROVE  IInv'
<1>1. Nested(stack) /\ stack # <<>> /\ Last(stack).kind = "block"
  BY DEF IInv, InBlock, Running, Top
<1>2. Nested(stack') /\ SameCalls(stack, stack')
  BY <1>1, PastCalls
<1> QED
  BY <1>2, Within

(***************************************************************************)
(* A body or macro is entered.                                             *)
(***************************************************************************)
LEMMA Entered ==
  ASSUME IInv, InBlock, NEW code, NEW owner, owner # "line",
         stack' = Append(stack, Block(code, owner, pro_curr + 1)),
         pro_curr' = pro_curr + 1, UNCHANGED <<in_curr, stop_flag>>
  PROVE  IInv'
<1> DEFINE f == Block(code, owner, pro_curr + 1)
<1>1. /\ Nested(stack) /\ stack # <<>> /\ Last(stack).kind = "block"
      /\ Levels(stack, pro_curr) /\ (~stop_flag => Units(stack, in_curr))
  BY DEF IInv, InBlock, Running, Top
<1>2. IsFrame(f) /\ Role(f) = "body" /\ f.level = pro_curr + 1
  BY DEF Block, IsFrame, Role
<1>3. Callable(stack, f)
  BY <1>1, <1>2 DEF Callable, Role
<1> HIDE DEF f
<1>4. stack' = Append(stack, f)
  BY DEF f
<1>5. Nested(stack') /\ Levels(stack', pro_curr + 1)
  BY <1>1, <1>2, <1>3, <1>4, PushStep
<1>6. ~stop_flag => Units(stack', in_curr)
  BY <1>1, <1>2, <1>3, <1>4, PushStep
<1> QED
  BY <1>5, <1>6 DEF IInv

(***************************************************************************)
(* A body or macro returns to the statement that has begun it.             *)
(***************************************************************************)
LEMMA Returned ==
  ASSUME IInv, InBlock, Top.owner # "line", NEW stop,
         stack' = Over(Front(stack), stop),
         pro_curr' = pro_curr - 1, UNCHANGED <<in_curr, stop_flag>>
  PROVE  IInv'
<1> DEFINE st == Front(stack)
<1>1. /\ Nested(stack) /\ stack # <<>> /\ Role(Last(stack)) = "body"
      /\ Levels(stack, pro_curr) /\ (~stop_flag => Units(stack, in_curr))
  BY DEF IInv, InBlock, Running, Top, Role
<1>2. Nested(st) /\ st # <<>> /\ Last(st).kind = "block"
  BY <1>1, Callers
<1>3. Levels(st, pro_curr - 1)
  BY <1>1, PopStep
<1>4. ~stop_flag => Units(st, in_curr)
  BY <1>1, PopStep
<1> HIDE DEF st
<1>5. stack' = Over(st, stop)
  BY DEF st
<1>6. Nested(stack') /\ SameCalls(st, stack')
  BY <1>2, <1>5, OverCalls
<1>7. Levels(stack', pro_curr - 1)
  BY <1>2, <1>3, <1>6, SameStep
<1>8. ~stop_flag => Units(stack', in_curr)
  BY <1>2, <1>4, <1>6, SameStep
<1> QED
  BY <1>6, <1>7, <1>8 DEF IInv

LEMMA ReturnedPast ==
  ASSUME IInv, InBlock, Top.owner # "line", Leave, UNCHANGED <<in_curr, stop_flag>>
  PROVE  IInv'
<1>1. PICK stop : stop = FALSE
  OBVIOUS
<1>2. stack' = Over(Front(stack), stop) /\ pro_curr' = pro_curr - 1
  BY <1>1 DEF Leave, Over
<1> QED
  BY <1>2, Returned

LEMMA ReadIInv == ASSUME IInv, Read PROVE IInv'
<1> DEFINE f == Block(Head(files[in_curr]), "line", pro_curr)
<1>1. /\ Nested(stack) /\ stack # <<>> /\ Last(stack).kind = "input"
      /\ Levels(stack, pro_curr) /\ (~stop_flag => Units(stack, in_curr))
      /\ stack' = Append(stack, f)
      /\ UNCHANGED <<pro_curr, in_curr, stop_flag>>
  BY DEF IInv, Read, Running, Top
<1>2. IsFrame(f) /\ Role(f) = "line"
  BY DEF Block, IsFrame, Role
<1>3. Callable(stack, f)
  BY <1>1, <1>2 DEF Callable, Role
<1> HIDE DEF f
<1>4. Nested(stack') /\ Levels(stack', pro_curr)
  BY <1>1, <1>2, <1>3, PushStep
<1>5. ~stop_flag => Units(stack', in_curr)
  BY <1>1, <1>2, <1>3, PushStep
<1> QED
  BY <1>1, <1>4, <1>5 DEF IInv

LEMMA CallIInv == ASSUME IInv, Call PROVE IInv'
<1> DEFINE f == Input(in_curr, pro_curr)
<1>1. /\ Nested(stack) /\ stack # <<>> /\ Last(stack).kind = "block"
      /\ Levels(stack, pro_curr) /\ (~stop_flag => Units(stack, in_curr))
      /\ stack' = Append(stack, f) /\ in_curr' = in_curr + 1
      /\ UNCHANGED <<pro_curr, stop_flag>>
  BY DEF IInv, Call, At, InBlock, Running, Top
<1>2. IsFrame(f) /\ Role(f) = "file" /\ f.top = in_curr
  BY DEF Input, IsFrame, Role
<1>3. Callable(stack, f)
  BY <1>1, <1>2 DEF Callable, Role
<1> HIDE DEF f
<1>4. Nested(stack') /\ Levels(stack', pro_curr)
  BY <1>1, <1>2, <1>3, PushStep
<1>5. ~stop_flag => Units(stack', in_curr + 1)
  BY <1>1, <1>2, <1>3, PushStep
<1> QED
  BY <1>1, <1>4, <1>5 DEF IInv

(***************************************************************************)
(* madx_input returns, to a CALL or from the main file.                    *)
(***************************************************************************)
LEMMA CalledStep ==
  ASSUME NEW st, Nested(st), st # <<>> => Last(st).kind = "block", NEW stop,
         NEW level, Levels(st, level)
  PROVE  /\ Nested(Called(st, stop)) /\ Levels(Called(st, stop), level)
         /\ \A unit : Units(st, unit) => Units(Called(st, stop), unit)
<1>1. CASE st = <<>>
  BY <1>1 DEF Called
<1>2. CASE st # <<>>
  <2> DEFINE to == Over(st, stop)
  <2>1. Called(st, stop) = to
    BY <1>2 DEF Called
  <2>2. Nested(to) /\ SameCalls(st, to)
    BY <1>2, OverCalls
  <2> HIDE DEF to
  <2>3. Levels(to, level)
    BY <2>2, SameStep
  <2>4. \A unit : Units(st, unit) => Units(to, unit)
    BY <2>2, SameStep
  <2> QED
    BY <2>1, <2>2, <2>3, <2>4
<1> QED
  BY <1>1, <1>2

LEMMA CloseFileIInv == ASSUME IInv, CloseFile PROVE IInv'
<1> DEFINE st == Front(stack)
<1>1. /\ Nested(stack) /\ stack # <<>> /\ Role(Last(stack)) = "file"
      /\ Levels(stack, pro_curr) /\ (~stop_flag => Units(stack, in_curr))
      /\ UNCHANGED <<pro_curr, stop_flag>>
  BY DEF IInv, CloseFile, Running, Top, Role
<1>2. Nested(st) /\ (st # <<>> => Last(st).kind = "block")
  BY <1>1, Callers
<1>3. Levels(st, pro_curr)
  BY <1>1, PopStep
<1>4. ~stop_flag =>
        /\ in_curr = 0 => st = <<>>
        /\ in_curr # 0 => Last(stack).top = in_curr - 1 /\ Units(st, in_curr - 1)
  BY <1>1, PopStep
<1>5. CASE in_curr = 0
  <2>1. stack' = st /\ in_curr' = in_curr
    BY <1>5 DEF CloseFile
  <2>2. ~stop_flag => Units(st, in_curr)
    <3>1. Inputs(<<>>) = {}
      BY DEF Inputs
    <3> QED
      BY <1>4, <1>5, <3>1 DEF Units
  <2> QED
    BY <1>1, <1>2, <1>3, <2>1, <2>2 DEF IInv
<1>6. CASE in_curr # 0
  <2>1. /\ in_curr' = in_curr - 1
        /\ stack' = IF Back(Top.top) THEN Called(st, stop_flag) ELSE stack
    BY <1>6 DEF CloseFile, Up
  <2>2. CASE Back(Top.top)
    <3>1. stack' = Called(st, stop_flag)
      BY <2>1, <2>2
    <3> HIDE DEF st
    <3>2. Nested(stack') /\ Levels(stack', pro_curr)
      BY <1>2, <1>3, <3>1, CalledStep
    <3>3. \A unit : Units(st, unit) => Units(stack', unit)
      BY <1>2, <1>3, <3>1, CalledStep
    <3> QED
      BY <1>1, <1>4, <1>6, <2>1, <3>2, <3>3 DEF IInv
  <2>3. CASE ~Back(Top.top)
    <3>1. stop_flag
      BY <1>4, <1>6, <2>3 DEF Back, Top
    <3> QED
      BY <1>1, <2>1, <2>3, <3>1 DEF IInv
  <2> QED
    BY <2>2, <2>3
<1> QED
  BY <1>5, <1>6

LEMMA EndLineIInv == ASSUME IInv, EndLine PROVE IInv'
<1> DEFINE st == Front(stack)
           to == Front(st)
<1>1. /\ Nested(stack) /\ stack # <<>> /\ Role(Last(stack)) = "line"
      /\ Levels(stack, pro_curr) /\ (~stop_flag => Units(stack, in_curr))
      /\ UNCHANGED <<pro_curr, in_curr, stop_flag>>
  BY DEF IInv, EndLine, Ends, InBlock, Running, Top, Role, UnchangedInput
<1>2. Nested(st) /\ st # <<>> /\ Role(Last(st)) = "file"
  BY <1>1, Callers DEF Role
<1>3. Levels(st, pro_curr) /\ (~stop_flag => Units(st, in_curr))
  BY <1>1, PopStep
<1>4. CASE stop_flag
  <2>0. PICK stop : stop = TRUE
    OBVIOUS
  <2>1. stack' = Called(to, stop)
    BY <1>4, <2>0 DEF EndLine
  <2> HIDE DEF st
  <2>2. Nested(to) /\ (to # <<>> => Last(to).kind = "block")
    BY <1>2, Callers
  <2>3. Levels(to, pro_curr)
    BY <1>2, <1>3, PopStep
  <2> HIDE DEF to
  <2>4. Nested(stack') /\ Levels(stack', pro_curr)
    BY <2>1, <2>2, <2>3, CalledStep
  <2> QED
    BY <1>1, <1>4, <2>4 DEF IInv
<1>5. CASE ~stop_flag
  <2>1. stack' = st
    BY <1>5 DEF EndLine
  <2> QED
    BY <1>1, <1>2, <1>3, <1>5, <2>1 DEF IInv
<1> QED
  BY <1>4, <1>5

(***************************************************************************)
(* Another round of a WHILE.                                               *)
(***************************************************************************)
LEMMA AgainCalls ==
  ASSUME IInv, InBlock,
         stack' = [stack EXCEPT ![Len(stack)].at = 1, ![Len(stack)].halted = FALSE]
  PROVE  Nested(stack') /\ SameCalls(stack, stack')
<1>0. PICK h : h = FALSE
  OBVIOUS
<1> DEFINE f == [Last(stack) EXCEPT !.at = 1]
           a == [stack EXCEPT ![Len(stack)] = f]
           g == [f EXCEPT !.halted = h]
           b == [a EXCEPT ![Len(a)] = g]
<1>1. Nested(stack) /\ stack # <<>> /\ IsFrame(Last(stack)) /\ Last(stack).kind = "block"
  <2>1. Nested(stack) /\ stack # <<>> /\ Last(stack).kind = "block"
    BY DEF IInv, InBlock, Running, Top
  <2>2. Len(stack) \in 1 .. Len(stack)
    BY <2>1, EmptySeq DEF Nested
  <2> QED
    BY <2>1, <2>2 DEF Nested, Last
<1>2. f = [kind |-> "block", code |-> Last(stack).code, owner |-> Last(stack).owner,
           level |-> Last(stack).level, at |-> 1, halted |-> Last(stack).halted]
  BY <1>1 DEF IsFrame
<1>3. IsFrame(f) /\ f.kind = "block" /\ Role(f) = Role(Last(stack))
      /\ f.level = Last(stack).level
  BY <1>1, <1>2 DEF IsFrame, Role
<1>4. Nested(a) /\ SameCalls(stack, a) /\ a # <<>> /\ Last(a) = f
  <2> HIDE DEF f
  <2> QED
    BY <1>1, <1>3, Updated
<1>5. Len(a) = Len(stack)
  BY <1>4 DEF SameCalls
<1>6. g = [kind |-> "block", code |-> f.code, owner |-> f.owner, level |-> f.level,
           at |-> f.at, halted |-> h]
  <2> HIDE DEF f
  <2> QED
    BY <1>2
<1>7. IsFrame(g) /\ g.kind = "block" /\ Role(g) = Role(Last(a)) /\ g.level = Last(a).level
  BY <1>3, <1>4, <1>6 DEF IsFrame, Role
<1>8. Nested(b) /\ SameCalls(a, b)
  <2> HIDE DEF a, f, g
  <2> QED
    BY <1>4, <1>7, Updated
<1>9. stack' = b
  <2>1. b = [a EXCEPT ![Len(stack)].halted = h]
    BY <1>4, <1>5 DEF Last
  <2> QED
    BY <1>0, <2>1 DEF Last
<1>10. Nested(stack') /\ SameCalls(stack, stack')
  BY <1>4, <1>8, <1>9, SameCallsTwice
<1> QED
  BY <1>10

LEMMA EndWhileIInv == ASSUME IInv, EndWhile PROVE IInv'
<1>1. /\ InBlock /\ Top.owner = "while" /\ UNCHANGED <<in_curr, stop_flag>>
  BY DEF EndWhile, Ends, UnchangedInput
<1>2. CASE Leave
  BY <1>1, <1>2, ReturnedPast
<1>3. ASSUME stack' = [stack EXCEPT ![Len(stack)].at = 1, ![Len(stack)].halted = FALSE],
             UNCHANGED pro_curr
      PROVE  IInv'
  <2>1. Nested(stack') /\ SameCalls(stack, stack')
    BY <1>1, <1>3, AgainCalls
  <2> QED
    BY <1>1, <1>3, <2>1, Within
<1> QED
  BY <1>2, <1>3 DEF EndWhile

LEMMA NextIInv == IInv /\ [Next]_vars => IInv'
<1> SUFFICES ASSUME IInv, [Next]_vars
             PROVE  IInv'
  OBVIOUS
<1>1. CASE ReadLost
  BY <1>1 DEF ReadLost, IInv
<1>2. CASE Command
  BY <1>2, WithinOver DEF Command, At, UnchangedInput
<1>3. CASE Stop
  <2>1. PICK stop : stop = TRUE
    OBVIOUS
  <2>2. stack' = Over(stack, stop)
    BY <1>3, <2>1 DEF Stop
  <2> QED
    BY <1>3, <2>2, WithinOver DEF Stop, At, UnchangedInput
<1>4. CASE Return
  BY <1>4, WithinOver DEF Return, At, UnchangedInput
<1>5. CASE Exec
  BY <1>5, Entered DEF Exec, At, UnchangedInput
<1>6. CASE EndMacro
  BY <1>6, Returned DEF EndMacro, Ends, UnchangedInput
<1>7. ASSUME InBlock, NEW owner, owner # "line", Enter(owner), UnchangedInput, UNCHANGED stop_flag
      PROVE  IInv'
  BY <1>7, Entered DEF Enter, UnchangedInput
<1>8. ASSUME InBlock, Skip, UnchangedInput, UNCHANGED stop_flag
      PROVE  IInv'
  BY <1>8, WithinPast DEF Skip, UnchangedInput
<1>9. CASE If
  BY <1>7, <1>8, <1>9 DEF If, Branch, At
<1>10. CASE Elseif
  BY <1>7, <1>8, <1>10 DEF Elseif, Branch, At
<1>11. CASE Else
  BY <1>7, <1>8, <1>11 DEF Else, At
<1>12. CASE While
  BY <1>7, <1>8, <1>12 DEF While, At
<1>13. CASE EndIf
  BY <1>13, ReturnedPast DEF EndIf, Ends, UnchangedInput
<1>14. CASE EndElse
  BY <1>14, ReturnedPast DEF EndElse, Ends, UnchangedInput
<1>15. CASE UNCHANGED vars
  BY <1>15 DEF vars, IInv
<1> QED
  BY ReadIInv, CloseFileIInv, EndLineIInv, CallIInv, EndWhileIInv,
     <1>1, <1>2, <1>3, <1>4, <1>5, <1>6, <1>9, <1>10, <1>11, <1>12, <1>13, <1>14, <1>15
     DEF Next

LEMMA IInvBalanced == IInv => Balanced
<1> SUFFICES ASSUME IInv
             PROVE  Balanced
  OBVIOUS
<1> DEFINE n == Len(stack)
           bodies == {i \in DOMAIN stack : ~IsInput(i) /\ stack[i].owner # "line"}
<1>1. /\ Nested(stack) /\ Levels(stack, pro_curr)
      /\ ~stop_flag => Units(stack, in_curr)
  BY DEF IInv
<1>2. n \in Nat /\ DOMAIN stack = 1 .. n
  BY <1>1 DEF Nested
<1>3. bodies = Bodies(stack)
  BY <1>2 DEF Bodies, Role, IsInput
<1>4. pro_curr = 1 + Cardinality(bodies)
  BY <1>1, <1>3 DEF Levels
<1>5. \A i \in bodies : stack[i].level = 1 + Cardinality({j \in bodies : j <= i})
  BY <1>1, <1>3 DEF Levels, UpTo
<1>6. stack # <<>> /\ ~stop_flag => in_curr = InputsTo(Len(stack)) - 1
  <2>1. Inputs(stack) = {j \in 1 .. Len(stack) : IsInput(j)}
    BY DEF Inputs, IsInput, Role
  <2> QED
    BY <1>1, <2>1 DEF Units, InputsTo
<1> QED
  BY <1>4, <1>5, <1>6 DEF Balanced

(***************************************************************************)
(* At every moment there is a level for each body and macro that is being  *)
(* executed, numbered in the order of the calls, and, until the program is *)
(* stopped, an input unit for each file that is being read: exec_call,     *)
(* madx_input, exec_macro and act_special leave pro->curr and in->curr     *)
(* where they found them.                                                  *)
(***************************************************************************)
THEOREM LevelsBalanced == Spec => []Balanced
  BY InitIInv, NextIInv, IInvBalanced, PTL DEF Spec

-----------------------------------------------------------------------------
(* The lengths of the list of files.                                       *)

LEMMA LengthsAre ==
  /\ Lengths \in [Nat -> Nat] /\ Lengths[0] = FilesMax
  /\ \A k \in Nat : Lengths[k + 1] = 2 * Lengths[k]
<1> DEFINE step == [k \in Nat |-> [length \in Nat |-> 2 * length]]
           Def(f) == [k \in Nat |-> IF k = 0 THEN FilesMax ELSE 2 * f[k - 1]]
           lengths == CHOOSE f : f = Def(f)
<1>1. FilesMax \in Nat
  BY InterpreterAssumption
<1>2. PICK g : Iterates(g, Nat, FilesMax, step)
  <2>1. step \in [Nat -> [Nat -> Nat]]
    OBVIOUS
  <2> HIDE DEF step
  <2> QED
    BY <1>1, <2>1, Iteration
<1>3. g \in [Nat -> Nat] /\ g[0] = FilesMax /\ \A k \in Nat : g[k + 1] = 2 * g[k]
  <2>1. g \in [Nat -> Nat] /\ g[0] = FilesMax
    BY <1>2 DEF Iterates
  <2>2. ASSUME NEW k \in Nat
        PROVE  g[k + 1] = 2 * g[k]
    <3>1. k + 1 \in Nat /\ g[k] \in Nat
      BY <2>1
    <3>2. g[k + 1] = step[k + 1][g[k]]
      BY <1>2 DEF Iterates
    <3>3. step[k + 1] = [length \in Nat |-> 2 * length]
      BY <3>1
    <3> QED
      BY <3>1, <3>2, <3>3
  <2> QED
    BY <2>1, <2>2
<1>4. g = Def(g)
  <2>1. ASSUME NEW k \in Nat
        PROVE  g[k] = Def(g)[k]
    <3>1. CASE k = 0
      BY <1>3, <3>1
    <3>2. CASE k # 0
      <4>1. k - 1 \in Nat /\ (k - 1) + 1 = k
        BY <3>2
      <4>2. g[k] = 2 * g[k - 1]
        BY <1>3, <4>1
      <4> QED
        BY <3>2, <4>2
    <3> QED
      BY <3>1, <3>2
  <2>2. g = [k \in Nat |-> g[k]] /\ Def(g) = [k \in Nat |-> Def(g)[k]]
    BY <1>3
  <2> HIDE DEF Def
  <2> QED
    BY <2>1, <2>2
<1>5. lengths = Def(lengths)
  <2> HIDE DEF Def
  <2> QED
    BY <1>4
<1>6. Lengths = lengths
  BY DEF Lengths
<1> HIDE DEF lengths
<1>7. lengths[0] = FilesMax
  BY <1>5
<1>8. ASSUME NEW k \in Nat
      PROVE  lengths[k + 1] = 2 * lengths[k]
  <2>1. k + 1 \in Nat /\ k + 1 # 0 /\ (k + 1) - 1 = k
    OBVIOUS
  <2> QED
    BY <1>5, <2>1
<1>9. lengths \in [Nat -> Nat]
  <2> DEFINE T == {k \in Nat : lengths[k] \in Nat}
  <2>1. 0 \in T
    BY <1>1, <1>7
  <2>2. \A k \in Nat : k \in T => k + 1 \in T
    BY <1>8
  <2>3. Nat \subseteq T
    <3> HIDE DEF T
    <3> QED
      BY <2>1, <2>2, SetInduction
  <2>4. lengths = [k \in Nat |-> lengths[k]]
    <3>1. Def(lengths) = [k \in Nat |-> Def(lengths)[k]]
      OBVIOUS
    <3> HIDE DEF Def
    <3> QED
      BY <1>5, <3>1
  <2> QED
    BY <2>3, <2>4
<1> QED
  BY <1>6, <1>7, <1>8, <1>9

LEMMA LengthsGrow ==
  \A k \in Nat : /\ Lengths[k] \in Nat /\ k < Lengths[k]
                 /\ \A j \in 0 .. k - 1 : 2 * Lengths[j] <= Lengths[k]
<1> DEFINE T == {k \in Nat : k < Lengths[k] /\ \A j \in 0 .. k - 1 : 2 * Lengths[j] <= Lengths[k]}
<1>1. 0 \in T
  <2>1. 0 < Lengths[0] /\ 0 .. 0 - 1 = {}
    BY LengthsAre, InterpreterAssumption
  <2> QED
    BY <2>1
<1>2. ASSUME NEW k \in Nat, k \in T
      PROVE  k + 1 \in T
  <2>1. Lengths[k] \in Nat /\ Lengths[k + 1] = 2 * Lengths[k] /\ k < Lengths[k]
    BY <1>2, LengthsAre
  <2>2. k + 1 < Lengths[k + 1]
    BY <2>1
  <2>3. ASSUME NEW j \in 0 .. (k + 1) - 1
        PROVE  2 * Lengths[j] <= Lengths[k + 1]
    <3>1. CASE j = k
      BY <2>1, <3>1
    <3>2. CASE j # k
      <4>1. j \in 0 .. k - 1 /\ Lengths[j] \in Nat
        BY <3>2, LengthsAre
      <4>2. 2 * Lengths[j] <= Lengths[k]
        BY <1>2, <4>1
      <4> QED
        BY <2>1, <4>1, <4>2
    <3> QED
      BY <3>1, <3>2
  <2> QED
    BY <2>2, <2>3
<1>3. Nat \subseteq T
  <2> HIDE DEF T
  <2> QED
    BY <1>1, <1>2, SetInduction
<1> QED
  BY <1>3, LengthsAre

LEMMA LengthsOrder ==
  ASSUME NEW j \in Nat, NEW k \in Nat
  PROVE  /\ j <= k => Lengths[j] <= Lengths[k]
         /\ Lengths[j] < Lengths[k] => j < k
<1>1. Lengths[j] \in Nat /\ Lengths[k] \in Nat /\ 0 < Lengths[j] /\ 0 < Lengths[k]
  BY LengthsGrow
<1>2. j < k => 2 * Lengths[j] <= Lengths[k]
  <2>1. j < k => j \in 0 .. k - 1
    OBVIOUS
  <2> QED
    BY <2>1, LengthsGrow
<1>3. k < j => 2 * Lengths[k] <= Lengths[j]
  <2>1. k < j => k \in 0 .. j - 1
    OBVIOUS
  <2> QED
    BY <2>1, LengthsGrow
<1>4. j = k \/ j < k \/ k < j
  OBVIOUS
<1>5. CASE j = k
  BY <1>1, <1>5
<1>6. CASE j < k
  BY <1>1, <1>2, <1>6
<1>7. CASE k < j
  BY <1>1, <1>3, <1>7
<1> QED
  BY <1>4, <1>5, <1>6, <1>7

-----------------------------------------------------------------------------
(* The input units.                                                        *)

FilesAre ==
  /\ program \in Programs /\ in_curr \in 0 .. MaxDepth /\ DOMAIN files = 0 .. MaxDepth
  /\ \A unit \in 0 .. MaxDepth : files[unit] \in {Lost} \union Seq(Lines)

(***************************************************************************)
(* After STOP madx_input goes on only in a file that was called since.     *)
(***************************************************************************)
Opened ==
  stop_flag /\ stack # <<>> /\ Top.kind = "input" =>
    Len(stack) > 1 /\ Top.top \in Nat /\ in_curr = Top.top + 1

(***************************************************************************)
(* The list has grown no further than the calls have needed, and is not    *)
(* left with fewer files than before it grew.                              *)
(***************************************************************************)
Room ==
  \E k \in Nat : /\ in_max = Lengths[k] /\ in_curr < in_max
                 /\ k > 0 => Lengths[k - 1] <= in_curr + 1

Gone(unit, max) == \E k \in Nat : unit + 1 = Lengths[k] /\ unit + 1 < max

Known == Running => \A unit \in 0 .. in_curr : files[unit] = Lost <=> Gone(unit, in_max)

InputInv == FilesAre /\ Opened /\ Room /\ Known

LEMMA FileIsLines ==
  ASSUME NEW prog \in Programs, NEW name \in DOMAIN prog.files
  PROVE  prog.files[name] \in Seq(Lines)
<1> DEFINE f == prog.files[name]
<1>1. f \in Range(prog.files)
  BY DEF Range
<1>2. f \in Seq(Range(f))
  BY <1>1, InterpreterAssumption
<1>3. Range(f) \subseteq Lines
  BY <1>1 DEF Lines
<1> HIDE DEF f
<1>4. f \in Seq(Lines)
  BY <1>2, <1>3, SeqMonotonic
<1> QED
  BY <1>4 DEF f

LEMMA InitInput == Init => InputInv
<1> SUFFICES ASSUME Init
             PROVE  InputInv
  OBVIOUS
<1>1. FilesAre
  <2>1. program \in Programs /\ Main \in DOMAIN program.files
    BY InterpreterAssumption DEF Init
  <2>2. program.files[Main] \in Seq(Lines)
    BY <2>1, FileIsLines
  <2> QED
    BY <2>1, <2>2, InterpreterAssumption DEF Init, FilesAre
<1>2. Opened
  BY DEF Init, Opened
<1>3. Lengths[0] = FilesMax /\ FilesMax \in Nat \ {0}
  BY LengthsAre, InterpreterAssumption
<1>4. Room
  BY <1>3 DEF Init, Room
<1>5. Known
  <2>1. files[0] = program.files[Main] /\ files[0] # Lost
    <3>1. program \in Programs /\ Main \in DOMAIN program.files
      BY InterpreterAssumption DEF Init
    <3>2. program.files[Main] \in Seq(Lines)
      BY <3>1, FileIsLines
    <3>3. files[0] = program.files[Main]
      BY InterpreterAssumption DEF Init
    <3> QED
      BY <3>2, <3>3, InterpreterAssumption
  <2>2. ~Gone(0, in_max)
    <3> SUFFICES ASSUME NEW k \in Nat, 0 + 1 = Lengths[k], 0 + 1 < in_max
                 PROVE  FALSE
      BY DEF Gone
    <3>1. in_max = Lengths[0]
      BY <1>3 DEF Init
    <3>2. Lengths[0] <= Lengths[k]
      BY LengthsOrder
    <3> QED
      BY <1>3, <3>1, <3>2
  <2>3. 0 .. in_curr = {0}
    BY DEF Init
  <2> QED
    BY <2>1, <2>2, <2>3 DEF Known
<1> QED
  BY <1>1, <1>2, <1>4, <1>5 DEF InputInv

(***************************************************************************)
(* A step of pro_input that opens and closes no file.                      *)
(***************************************************************************)
LEMMA SameInput ==
  ASSUME InputInv, Running, UnchangedInput, stack' # <<>> => Last(stack').kind # "input"
  PROVE  InputInv'
<1>1. FilesAre' /\ Room'
  BY DEF InputInv, UnchangedInput, FilesAre, Room
<1>2. Opened'
  BY DEF Opened, Top
<1>3. \A unit : Gone(unit, in_max') <=> Gone(unit, in_max)
  BY DEF Gone, UnchangedInput
<1>4. Known'
  BY <1>3 DEF InputInv, Known, UnchangedInput
<1> QED
  BY <1>1, <1>2, <1>4 DEF InputInv

LEMMA AppendTop ==
  ASSUME NEW st, Nested(st), NEW f
  PROVE  /\ Last(Append(st, f)) = f /\ Append(st, f) # <<>>
         /\ Len(Append(st, f)) = Len(st) + 1 /\ Len(st) \in Nat
<1> DEFINE S == Range(st) \union {f}
<1>1. st \in Seq(S) /\ f \in S /\ Len(st) \in Nat
  BY SeqMonotonic DEF Nested
<1> HIDE DEF S
<1>2. /\ Append(st, f) \in Seq(S) /\ Len(Append(st, f)) = Len(st) + 1
      /\ Append(st, f)[Len(st) + 1] = f
  BY <1>1, AppendProperties
<1> HIDE DEF S
<1>3. Append(st, f) # <<>>
  BY <1>1, <1>2, EmptySeq
<1> QED
  BY <1>1, <1>2, <1>3 DEF Last

LEMMA TopBlock ==
  ASSUME NEW st, Nested(st), NEW to, Nested(to), SameCalls(st, to),
         st # <<>> => Last(st).kind = "block"
  PROVE  to # <<>> => Last(to).kind # "input"
<1> SUFFICES ASSUME to # <<>>
             PROVE  Last(to).kind # "input"
  OBVIOUS
<1>1. Len(to) = Len(st) /\ Len(st) \in Nat \ {0} /\ st # <<>>
  BY EmptySeq DEF SameCalls, Nested
<1>2. Role(Last(to)) = Role(Last(st))
  <2>1. Len(st) \in 1 .. Len(st)
    BY <1>1
  <2> QED
    BY <1>1, <2>1 DEF SameCalls, Last
<1> QED
  BY <1>1, <1>2 DEF Role

LEMMA InputRead == ASSUME IInv, InputInv, Read PROVE InputInv'
<1>1. /\ in_curr \in 0 .. MaxDepth /\ files[in_curr] \in Seq(Lines) \ {<<>>}
      /\ files' = [files EXCEPT ![in_curr] = Tail(@)]
      /\ UNCHANGED <<program, in_curr, in_max, crashed>>
  BY DEF InputInv, FilesAre, Read
<1>2. Tail(files[in_curr]) \in Seq(Lines)
  BY <1>1
<1>3. FilesAre'
  BY <1>1, <1>2 DEF InputInv, FilesAre
<1>4. Room'
  BY <1>1 DEF InputInv, Room
<1>5. Opened'
  <2>1. stack' = Append(stack, Block(Head(files[in_curr]), "line", pro_curr))
    BY DEF Read
  <2>2. Last(stack') = Block(Head(files[in_curr]), "line", pro_curr)
    BY <2>1, AppendTop DEF IInv
  <2>3. Last(stack').kind = "block"
    BY <2>2 DEF Block
  <2> QED
    BY <2>3 DEF Opened, Top
<1>6. Known'
  <2>1. \A unit : Gone(unit, in_max') <=> Gone(unit, in_max)
    BY <1>1 DEF Gone
  <2>2. \A unit \in 0 .. in_curr : files[unit] = Lost <=> Gone(unit, in_max)
    BY DEF InputInv, Known, Read
  <2>3. files[in_curr] # Lost /\ files'[in_curr] # Lost
    <3>1. files'[in_curr] = Tail(files[in_curr])
      BY <1>1 DEF InputInv, FilesAre
    <3> QED
      BY <1>1, <1>2, <3>1, InterpreterAssumption
  <2>4. \A unit \in 0 .. in_curr : unit # in_curr => files'[unit] = files[unit]
    BY <1>1 DEF InputInv, FilesAre
  <2> QED
    BY <1>1, <2>1, <2>2, <2>3, <2>4 DEF Known
<1> QED
  BY <1>3, <1>4, <1>5, <1>6 DEF InputInv

(***************************************************************************)
(* A file is opened.  No length is between two that follow each other: the *)
(* new file is not where the list will have lost one.                      *)
(***************************************************************************)
LEMMA CallInput == ASSUME IInv, InputInv, Call PROVE InputInv'
<1> DEFINE unit == in_curr + 1
           file == program.files[This.file]
<1>1. /\ in_curr \in 0 .. MaxDepth /\ unit \in 0 .. MaxDepth /\ unit # in_curr
      /\ in_curr \in Nat /\ in_curr < unit
      /\ in_curr' = unit /\ UNCHANGED <<program, crashed, stop_flag>> /\ Running
      /\ in_max' = IF unit = in_max THEN 2 * in_max ELSE in_max
      /\ DOMAIN files = 0 .. MaxDepth
  BY InterpreterAssumption DEF InputInv, FilesAre, Call, At, InBlock
<1>2. file \in Seq(Lines) /\ file # Lost
  BY FileIsLines, InterpreterAssumption DEF InputInv, FilesAre, Call
<1>3. /\ DOMAIN files' = 0 .. MaxDepth /\ files'[unit] = file
      /\ files'[in_curr] = IF unit = in_max THEN Lost ELSE files[in_curr]
      /\ \A u \in 0 .. MaxDepth : u # unit /\ u # in_curr => files'[u] = files[u]
  <2>1. files' = [Grown EXCEPT ![unit] = file]
    BY DEF Call
  <2> HIDE DEF file
  <2>2. /\ DOMAIN Grown = 0 .. MaxDepth
        /\ Grown[in_curr] = IF unit = in_max THEN Lost ELSE files[in_curr]
        /\ \A u \in 0 .. MaxDepth : u # in_curr => Grown[u] = files[u]
    BY <1>1 DEF Grown
  <2> QED
    BY <1>1, <2>1, <2>2
<1> HIDE DEF file
<1>4. FilesAre'
  <2>1. ASSUME NEW u \in 0 .. MaxDepth
        PROVE  files'[u] \in {Lost} \union Seq(Lines)
    <3>1. files[u] \in {Lost} \union Seq(Lines) /\ files[in_curr] \in {Lost} \union Seq(Lines)
      BY <1>1 DEF InputInv, FilesAre
    <3>2. CASE u = unit
      BY <1>2, <1>3, <3>2
    <3>3. CASE u = in_curr
      BY <1>3, <3>1, <3>3
    <3>4. CASE u # unit /\ u # in_curr
      BY <1>3, <3>1, <3>4
    <3> QED
      BY <3>2, <3>3, <3>4
  <2> QED
    BY <1>1, <1>3, <2>1 DEF InputInv, FilesAre
<1>5. Opened'
  <2>1. stack' = Append(stack, Input(in_curr, pro_curr)) /\ stack # <<>>
    BY DEF Call, At, InBlock, Running
  <2>2. /\ Last(stack') = Input(in_curr, pro_curr)
        /\ Len(stack') = Len(stack) + 1 /\ Len(stack) \in Nat
    BY <2>1, AppendTop DEF IInv
  <2>3. Len(stack) \in Nat \ {0}
    BY <2>1, <2>2, EmptySeq DEF IInv, Nested
  <2> QED
    BY <1>1, <2>2, <2>3 DEF Opened, Top, Input
<1>6. PICK k \in Nat : /\ in_max = Lengths[k] /\ in_curr < in_max
                       /\ k > 0 => Lengths[k - 1] <= unit
  BY DEF InputInv, Room
<1>7. /\ Lengths[k] \in Nat /\ 0 < Lengths[k] /\ Lengths[k + 1] = 2 * Lengths[k]
      /\ k + 1 \in Nat /\ (k + 1) - 1 = k
  <2>1. Lengths[k] \in Nat /\ k < Lengths[k]
    BY LengthsGrow
  <2>2. Lengths[k + 1] = 2 * Lengths[k]
    BY LengthsAre
  <2> QED
    BY <2>1, <2>2
<1>8. \A u \in 0 .. in_curr : files[u] = Lost <=> Gone(u, in_max)
  BY <1>1 DEF InputInv, Known
<1>9. CASE unit = in_max
  <2>1. in_max' = Lengths[k + 1] /\ in_curr' < in_max' /\ Lengths[(k + 1) - 1] <= in_curr' + 1
    BY <1>1, <1>6, <1>7, <1>9
  <2>2. Room'
    BY <1>7, <2>1 DEF Room
  <2>3. ASSUME NEW u \in 0 .. in_curr, u # in_curr
        PROVE  Gone(u, in_max') <=> Gone(u, in_max)
    <3>1. u + 1 < in_max /\ u + 1 < in_max'
      BY <1>1, <1>6, <1>7, <1>9, <2>1, <2>3
    <3> QED
      BY <3>1 DEF Gone
  <2>4. Gone(in_curr, in_max')
    <3>1. in_curr + 1 = Lengths[k] /\ in_curr + 1 < in_max'
      BY <1>1, <1>6, <1>7, <1>9, <2>1
    <3> QED
      BY <3>1 DEF Gone
  <2>5. ~Gone(unit, in_max')
    <3> SUFFICES ASSUME NEW j \in Nat, unit + 1 = Lengths[j], unit + 1 < in_max'
                 PROVE  FALSE
      BY DEF Gone
    <3>1. Lengths[j] < Lengths[k + 1]
      BY <2>1
    <3>2. j < k + 1
      BY <1>7, <3>1, LengthsOrder
    <3>3. j <= k
      BY <3>2
    <3>4. Lengths[j] <= Lengths[k]
      BY <3>3, LengthsOrder
    <3> QED
      BY <1>1, <1>6, <1>7, <1>9, <3>4
  <2>6. \A u \in 0 .. in_curr' : u \in 0 .. in_curr \/ u = unit
    BY <1>1
  <2>7. files'[in_curr] = Lost
    BY <1>3, <1>9
  <2>8. \A u \in 0 .. in_curr : u # in_curr => files'[u] = files[u]
    <3>1. ASSUME NEW u \in 0 .. in_curr
          PROVE  u \in 0 .. MaxDepth /\ u # unit
      <4>1. MaxDepth \in Nat /\ in_curr <= MaxDepth
        BY <1>1, InterpreterAssumption
      <4> QED
        BY <1>1, <4>1
    <3> QED
      BY <1>3, <3>1
  <2>9. Known'
    <3> SUFFICES ASSUME NEW u \in 0 .. in_curr'
                 PROVE  files'[u] = Lost <=> Gone(u, in_max')
      BY DEF Known
    <3>1. CASE u = unit
      BY <1>2, <1>3, <2>5, <3>1
    <3>2. CASE u = in_curr
      BY <2>4, <2>7, <3>2
    <3>3. CASE u # unit /\ u # in_curr
      BY <1>8, <2>3, <2>6, <2>8, <3>3
    <3> QED
      BY <3>1, <3>2, <3>3
  <2> QED
    BY <1>4, <1>5, <2>2, <2>9 DEF InputInv
<1>10. CASE unit # in_max
  <2>1. in_max' = Lengths[k] /\ in_curr' < in_max' /\ (k > 0 => Lengths[k - 1] <= in_curr' + 1)
    <3>1. k > 0 => Lengths[k - 1] \in Nat
      BY LengthsAre
    <3> QED
      BY <1>1, <1>6, <1>7, <1>10, <3>1
  <2>2. Room'
    BY <2>1 DEF Room
  <2>3. \A u : Gone(u, in_max') <=> Gone(u, in_max)
    BY <1>1, <1>10 DEF Gone
  <2>4. ~Gone(unit, in_max)
    <3> SUFFICES ASSUME NEW j \in Nat, unit + 1 = Lengths[j], unit + 1 < in_max
                 PROVE  FALSE
      BY DEF Gone
    <3>1. Lengths[j] < Lengths[k]
      BY <1>6
    <3>2. j < k
      BY <3>1, LengthsOrder
    <3>3. k - 1 \in Nat /\ j <= k - 1 /\ k > 0
      BY <3>2
    <3>4. Lengths[j] <= Lengths[k - 1]
      BY <3>3, LengthsOrder
    <3>5. Lengths[k - 1] \in Nat
      BY <3>3, LengthsAre
    <3> QED
      BY <1>1, <1>6, <3>3, <3>4, <3>5
  <2>5. \A u \in 0 .. in_curr : files'[u] = files[u]
    <3>1. ASSUME NEW u \in 0 .. in_curr
          PROVE  u \in 0 .. MaxDepth /\ u # unit
      <4>1. MaxDepth \in Nat /\ in_curr <= MaxDepth
        BY <1>1, InterpreterAssumption
      <4> QED
        BY <1>1, <4>1
    <3> QED
      BY <1>3, <1>10, <3>1
  <2>6. Known'
    <3> SUFFICES ASSUME NEW u \in 0 .. in_curr'
                 PROVE  files'[u] = Lost <=> Gone(u, in_max')
      BY DEF Known
    <3>1. CASE u = unit
      BY <1>2, <1>3, <2>3, <2>4, <3>1
    <3>2. CASE u # unit
      <4>1. u \in 0 .. in_curr
        BY <1>1, <3>2
      <4> QED
        BY <1>8, <2>3, <2>5, <4>1
    <3> QED
      BY <3>1, <3>2
  <2> QED
    BY <1>4, <1>5, <2>2, <2>6 DEF InputInv
<1> QED
  BY <1>9, <1>10

(***************************************************************************)
(* A file is closed, and not one that is where the list lost one: so the   *)
(* list is never left with fewer files than before it grew.                *)
(***************************************************************************)
LEMMA CloseFileInput == ASSUME IInv, InputInv, CloseFile PROVE InputInv'
<1> DEFINE st == Front(stack)
<1>1. /\ Nested(stack) /\ stack # <<>> /\ Role(Last(stack)) = "file"
      /\ Levels(stack, pro_curr) /\ (~stop_flag => Units(stack, in_curr))
      /\ Running /\ files[in_curr] # Lost /\ Top.kind = "input"
      /\ files' = [files EXCEPT ![in_curr] = Lost]
      /\ UNCHANGED <<program, in_max, stop_flag, crashed>>
  BY DEF IInv, CloseFile, Running, Top, Role
<1>2. /\ in_curr \in 0 .. MaxDepth /\ MaxDepth \in Nat /\ DOMAIN files = 0 .. MaxDepth
      /\ \A unit \in 0 .. MaxDepth : files[unit] \in {Lost} \union Seq(Lines)
      /\ \A unit \in 0 .. in_curr : files[unit] = Lost <=> Gone(unit, in_max)
  BY <1>1, InterpreterAssumption DEF InputInv, FilesAre, Known
<1>a. in_curr \in Nat
  <2>1. in_curr \in 0 .. MaxDepth
    BY <1>2
  <2> QED
    BY <2>1
<1>3. /\ DOMAIN files' = 0 .. MaxDepth
      /\ \A unit \in 0 .. MaxDepth : files'[unit] \in {Lost} \union Seq(Lines)
      /\ \A unit \in 0 .. MaxDepth : unit # in_curr => files'[unit] = files[unit]
  BY <1>1, <1>2
<1>4. ~stop_flag => (in_curr = 0 => st = <<>>) /\ (in_curr # 0 => Last(stack).top = in_curr - 1)
  BY <1>1, PopStep
<1>5. stop_flag => in_curr # 0 /\ in_curr - 1 = Top.top
  <2>1. stop_flag => Top.top \in Nat /\ in_curr = Top.top + 1
    BY <1>1 DEF InputInv, Opened
  <2> QED
    BY <1>2, <2>1
<1>6. CASE in_curr = 0
  <2>1. stack' = <<>> /\ in_curr' = in_curr
    BY <1>4, <1>5, <1>6 DEF CloseFile
  <2>2. FilesAre'
    BY <1>1, <1>2, <1>3, <2>1 DEF InputInv, FilesAre
  <2>3. Opened' /\ Known' /\ Room'
    BY <1>1, <2>1 DEF InputInv, Room, Opened, Known, Running
  <2> QED
    BY <2>2, <2>3 DEF InputInv
<1>7. CASE in_curr # 0
  <2>1. in_curr' = in_curr - 1 /\ stack' = Called(st, stop_flag)
    <3>1. Back(Top.top)
      BY <1>4, <1>5, <1>7 DEF Back, Top
    <3> QED
      BY <1>7, <3>1 DEF CloseFile, Up
  <2>2. in_curr' \in 0 .. MaxDepth /\ in_curr' < in_curr /\ in_curr' + 1 = in_curr
    BY <1>2, <1>7, <2>1
  <2>3. FilesAre'
    BY <1>1, <1>2, <1>3, <2>2 DEF InputInv, FilesAre
  <2>4. Opened'
    <3>1. Nested(st) /\ (st # <<>> => Last(st).kind = "block")
      BY <1>1, Callers
    <3>2. CASE st = <<>>
      BY <2>1, <3>2 DEF Called, Opened
    <3>3. CASE st # <<>>
      <4>1. stack' = Over(st, stop_flag)
        BY <2>1, <3>3 DEF Called
      <4> HIDE DEF st
      <4>2. Nested(stack') /\ SameCalls(st, stack')
        BY <3>1, <3>3, <4>1, OverCalls
      <4>3. stack' # <<>> => Last(stack').kind # "input"
        BY <3>1, <4>2, TopBlock
      <4> QED
        BY <4>3 DEF Opened, Top
    <3> QED
      BY <3>2, <3>3
  <2>5. Known'
    <3>1. \A unit \in 0 .. in_curr' : unit \in 0 .. in_curr /\ unit \in 0 .. MaxDepth /\ unit # in_curr
      BY <1>2, <2>2
    <3> QED
      BY <1>1, <1>2, <1>3, <3>1 DEF Known
  <2>6. Room'
    <3>1. PICK k \in Nat : /\ in_max = Lengths[k] /\ in_curr < in_max
                           /\ k > 0 => Lengths[k - 1] <= in_curr + 1
      BY DEF InputInv, Room
    <3>2. ASSUME k > 0
          PROVE  Lengths[k - 1] <= in_curr' + 1
      <4>1. k - 1 \in Nat /\ k - 1 \in 0 .. k - 1
        BY <3>2
      <4>2. /\ Lengths[k - 1] \in Nat /\ Lengths[k] \in Nat /\ 0 < Lengths[k - 1]
            /\ 2 * Lengths[k - 1] <= Lengths[k]
        BY <4>1, LengthsGrow
      <4>3. in_curr + 1 # Lengths[k - 1]
        <5> SUFFICES ASSUME in_curr + 1 = Lengths[k - 1]
                     PROVE  Gone(in_curr, in_max)
          BY <1>1, <1>2
        <5>1. in_curr + 1 < in_max
          BY <1>2, <3>1, <4>2
        <5> QED
          BY <4>1, <5>1 DEF Gone
      <4>4. Lengths[k - 1] <= in_curr + 1
        BY <3>1, <3>2
      <4>5. in_curr \in Nat /\ in_curr' + 1 = in_curr
        BY <1>a, <2>2
      <4> QED
        BY <4>2, <4>3, <4>4, <4>5
    <3>3. in_max' = Lengths[k] /\ in_curr' < in_max'
      <4>1. Lengths[k] \in Nat
        BY LengthsAre
      <4> QED
        BY <1>1, <1>2, <2>2, <3>1, <4>1
    <3> QED
      BY <3>2, <3>3 DEF Room
  <2> QED
    BY <2>3, <2>4, <2>5, <2>6 DEF InputInv
<1> QED
  BY <1>6, <1>7

(***************************************************************************)
(* What a step of pro_input leaves on top is a call of pro_input.          *)
(***************************************************************************)
LEMMA OverTop ==
  ASSUME IInv, InBlock, NEW stop, stack' = Over(stack, stop)
  PROVE  stack' # <<>> => Last(stack').kind # "input"
<1>1. Nested(stack) /\ stack # <<>> /\ Last(stack).kind = "block"
  BY DEF IInv, InBlock, Running, Top
<1>2. Nested(stack') /\ SameCalls(stack, stack')
  BY <1>1, OverCalls
<1> QED
  BY <1>1, <1>2, TopBlock

LEMMA EnteredTop ==
  ASSUME IInv, NEW code, NEW owner, NEW level, stack' = Append(stack, Block(code, owner, level))
  PROVE  stack' # <<>> => Last(stack').kind # "input"
<1>1. Last(stack') = Block(code, owner, level)
  BY AppendTop DEF IInv
<1> QED
  BY <1>1 DEF Block

LEMMA ReturnedTop ==
  ASSUME IInv, InBlock, Top.owner # "line", NEW stop, stack' = Over(Front(stack), stop)
  PROVE  stack' # <<>> => Last(stack').kind # "input"
<1> DEFINE st == Front(stack)
<1>1. Nested(stack) /\ stack # <<>> /\ Role(Last(stack)) = "body"
  BY DEF IInv, InBlock, Running, Top, Role
<1>2. Nested(st) /\ st # <<>> /\ Last(st).kind = "block"
  BY <1>1, Callers
<1>3. stack' = Over(st, stop)
  OBVIOUS
<1> HIDE DEF st
<1>4. Nested(stack') /\ SameCalls(st, stack')
  BY <1>2, <1>3, OverCalls
<1> QED
  BY <1>2, <1>4, TopBlock

LEMMA LeaveTop ==
  ASSUME IInv, InBlock, Top.owner # "line", Leave
  PROVE  stack' # <<>> => Last(stack').kind # "input"
<1>1. PICK stop : stop = FALSE
  OBVIOUS
<1>2. stack' = Over(Front(stack), stop)
  BY <1>1 DEF Leave, Over
<1> QED
  BY <1>2, ReturnedTop

LEMMA EndLineTop ==
  ASSUME IInv, EndLine
  PROVE  stop_flag => (stack' # <<>> => Last(stack').kind # "input")
<1> SUFFICES ASSUME stop_flag
             PROVE  stack' # <<>> => Last(stack').kind # "input"
  OBVIOUS
<1> DEFINE st == Front(stack)
           to == Front(st)
<1>1. Nested(stack) /\ stack # <<>> /\ Role(Last(stack)) = "line"
  BY DEF IInv, EndLine, Ends, InBlock, Running, Top, Role
<1>2. Nested(st) /\ st # <<>> /\ Role(Last(st)) = "file"
  BY <1>1, Callers DEF Role
<1>3. PICK stop : stop = TRUE
  OBVIOUS
<1>4. stack' = Called(to, stop)
  BY <1>3 DEF EndLine
<1> HIDE DEF st
<1>5. Nested(to) /\ (to # <<>> => Last(to).kind = "block")
  BY <1>2, Callers
<1> HIDE DEF to
<1>6. CASE to = <<>>
  BY <1>4, <1>6 DEF Called
<1>7. CASE to # <<>>
  <2>1. stack' = Over(to, stop)
    BY <1>4, <1>7 DEF Called
  <2>2. Nested(stack') /\ SameCalls(to, stack')
    BY <1>5, <1>7, <2>1, OverCalls
  <2> QED
    BY <1>5, <2>2, TopBlock
<1> QED
  BY <1>6, <1>7

LEMMA NextInput == IInv /\ InputInv /\ [Next]_vars => InputInv'
<1> SUFFICES ASSUME IInv, InputInv, [Next]_vars
             PROVE  InputInv'
  OBVIOUS
<1>1. CASE Read
  BY <1>1, InputRead
<1>2. CASE CloseFile
  BY <1>2, CloseFileInput
<1>3. CASE Call
  BY <1>3, CallInput
<1>4. CASE ReadLost
  BY <1>4 DEF ReadLost, InputInv, FilesAre, Opened, Room, Known, Running, Top
<1>5. CASE UNCHANGED vars
  BY <1>5 DEF vars, InputInv, FilesAre, Opened, Room, Known, Running, Top
<1>6. CASE EndLine
  <2>1. Running /\ UnchangedInput /\ UNCHANGED stop_flag
    BY <1>6 DEF EndLine, Ends, InBlock
  <2>2. FilesAre' /\ Room'
    BY <2>1 DEF InputInv, UnchangedInput, FilesAre, Room
  <2>3. Opened'
    BY <1>6, <2>1, EndLineTop DEF Opened, Top
  <2>4. Known'
    BY <2>1 DEF InputInv, Known, UnchangedInput
  <2> QED
    BY <2>2, <2>3, <2>4 DEF InputInv
<1>7. ASSUME InBlock, UnchangedInput, stack' # <<>> => Last(stack').kind # "input"
      PROVE  InputInv'
  BY <1>7, SameInput DEF InBlock
<1>8. CASE Command
  BY <1>7, <1>8, OverTop DEF Command, At
<1>9. CASE Stop
  <2>1. PICK stop : stop = TRUE
    OBVIOUS
  <2>2. stack' = Over(stack, stop)
    BY <1>9, <2>1 DEF Stop
  <2> QED
    BY <1>7, <1>9, <2>2, OverTop DEF Stop, At
<1>10. CASE Return
  BY <1>7, <1>10, OverTop DEF Return, At
<1>11. CASE Exec
  BY <1>7, <1>11, EnteredTop DEF Exec, At
<1>12. CASE EndMacro
  BY <1>7, <1>12, ReturnedTop DEF EndMacro, Ends
<1>13. ASSUME NEW owner, Enter(owner)
       PROVE  stack' # <<>> => Last(stack').kind # "input"
  BY <1>13, EnteredTop DEF Enter
<1>14. ASSUME InBlock, Skip
       PROVE  stack' # <<>> => Last(stack').kind # "input"
  <2>1. PICK stop : stop = FALSE
    OBVIOUS
  <2>2. stack' = Over(stack, stop)
    BY <1>14, <2>1 DEF Skip, Over
  <2> QED
    BY <1>14, <2>2, OverTop
<1>15. CASE If
  BY <1>7, <1>13, <1>14, <1>15 DEF If, Branch, At
<1>16. CASE Elseif
  BY <1>7, <1>13, <1>14, <1>16 DEF Elseif, Branch, At
<1>17. CASE Else
  BY <1>7, <1>13, <1>14, <1>17 DEF Else, At
<1>18. CASE While
  BY <1>7, <1>13, <1>14, <1>18 DEF While, At
<1>19. CASE EndIf
  BY <1>7, <1>19, LeaveTop DEF EndIf, Ends
<1>20. CASE EndElse
  BY <1>7, <1>20, LeaveTop DEF EndElse, Ends
<1>21. CASE EndWhile
  <2>1. InBlock /\ Top.owner = "while" /\ UnchangedInput
    BY <1>21 DEF EndWhile, Ends
  <2>2. CASE Leave
    BY <1>7, <2>1, <2>2, LeaveTop
  <2>3. CASE stack' = [stack EXCEPT ![Len(stack)].at = 1, ![Len(stack)].halted = FALSE]
    <3>1. Nested(stack') /\ SameCalls(stack, stack')
      BY <2>1, <2>3, AgainCalls
    <3>2. Nested(stack) /\ Last(stack).kind = "block"
      BY <2>1 DEF IInv, InBlock, Top
    <3>3. stack' # <<>> => Last(stack').kind # "input"
      BY <3>1, <3>2, TopBlock
    <3> QED
      BY <1>7, <2>1, <3>3
  <2> QED
    BY <1>21, <2>2, <2>3 DEF EndWhile
<1> QED
  BY <1>1, <1>2, <1>3, <1>4, <1>5, <1>6, <1>8, <1>9, <1>10, <1>11, <1>12, <1>15, <1>16,
     <1>17, <1>18, <1>19, <1>20, <1>21 DEF Next

LEMMA InputLosesCaller == InputInv => LosesCaller
<1> SUFFICES ASSUME InputInv, Running, NEW unit \in 0 .. in_curr
             PROVE  files[unit] = Lost <=>
                      /\ unit + 1 < in_max
                      /\ \E k \in 0 .. MaxDepth : unit + 1 = Lengths[k]
  BY DEF LosesCaller
<1>1. files[unit] = Lost <=> Gone(unit, in_max)
  BY DEF InputInv, Known
<1>2. unit \in 0 .. MaxDepth /\ MaxDepth \in Nat
  BY InterpreterAssumption DEF InputInv, FilesAre
<1>3. ASSUME NEW k \in Nat, unit + 1 = Lengths[k]
      PROVE  k \in 0 .. MaxDepth
  <2>1. k < Lengths[k] /\ Lengths[k] \in Nat
    BY LengthsGrow
  <2> QED
    BY <1>2, <1>3, <2>1
<1> QED
  BY <1>1, <1>3 DEF Gone

(***************************************************************************)
(* The list of files loses exactly the files whose CALL made it grow,      *)
(* however many files there are and however deep they call each other:     *)
(* grow_in_buff_list copies what is below in->curr, and down_unit has not  *)
(* moved in->curr yet.                                                     *)
(***************************************************************************)
THEOREM CallerLost == Spec => []LosesCaller
<1>1. Init => IInv /\ InputInv
  BY InitIInv, InitInput
<1>2. (IInv /\ InputInv) /\ [Next]_vars => (IInv /\ InputInv)'
  BY NextIInv, NextInput
<1>3. IInv /\ InputInv => LosesCaller
  BY InputLosesCaller
<1> QED
  BY <1>1, <1>2, <1>3, PTL DEF Spec

-----------------------------------------------------------------------------
(***************************************************************************)
(* Labelled statements: the positions of labels, for any labels, macros    *)
(* and statements.                                                         *)
(***************************************************************************)

Types ==
  /\ labels \in Seq(Labels)
  /\ in_cmds \in Seq(InCmd)
  /\ this_cmd \in InCmd \union {None}
  /\ p \in InCmd \union {None}
  /\ todo \in Seq(InCmd \union {EndOfMacro})
  /\ read \in Nat

(***************************************************************************)
(* There never are more labels than statements, so that a label that comes *)
(* to the end of its array is in front of its statement's place.           *)
(***************************************************************************)
BufferedIInv ==
  /\ Types
  /\ Len(labels) <= Len(in_cmds)
  /\ FirstOrder

(***************************************************************************)
(* What both buffer_in_cmd and the arrays being left alone preserve.       *)
(***************************************************************************)
Arrays ==
  /\ labels \in Seq(Labels)
  /\ in_cmds \in Seq(InCmd)
  /\ Len(labels) <= Len(in_cmds)
  /\ FirstOrder

LEMMA BufferedKeeps ==
  ASSUME Arrays, NEW cmd \in InCmd, Buffered(cmd)
  PROVE  Arrays' /\ this_cmd' \in InCmd \union {None}
<1>1. CASE cmd.label = None
  BY <1>1 DEF Buffered, Arrays, FirstOrder
<1>2. CASE cmd.label # None
  <2>1. cmd.label \in Labels /\ this_cmd' = cmd
    BY <1>2 DEF InCmd, Buffered
  <2>2. in_cmds' = Append(in_cmds, cmd) /\ labels' = Listed(cmd.label)
    BY <1>2 DEF Buffered
  <2>a. /\ Len(labels) \in Nat /\ DOMAIN labels = 1 .. Len(labels)
        /\ Len(in_cmds) \in Nat /\ DOMAIN in_cmds = 1 .. Len(in_cmds)
        /\ Len(labels) <= Len(in_cmds)
    BY DEF Arrays
  <2>b. FirstOrder
    BY DEF Arrays
  <2>3. CASE IsLabel(cmd.label)
    <3>1. labels' = labels
      BY <2>2, <2>3 DEF Listed
    <3>2. /\ in_cmds' \in Seq(InCmd) /\ Len(in_cmds') = Len(in_cmds) + 1
          /\ DOMAIN in_cmds' = 1 .. Len(in_cmds) + 1
      BY <2>2 DEF Arrays
    <3>3. \A i \in 1 .. Len(in_cmds) : in_cmds'[i] = in_cmds[i]
      BY <2>2 DEF Arrays
    <3>4. in_cmds'[Len(in_cmds) + 1] = cmd
      BY <2>2 DEF Arrays
    <3>5. PICK k \in DOMAIN labels : labels[k] = cmd.label
      BY <2>3 DEF IsLabel
    <3>6. k <= Len(in_cmds) + 1
      BY DEF Arrays
    <3>7. ASSUME NEW i \in DOMAIN in_cmds'
          PROVE  \E l \in DOMAIN labels' : l <= i /\ labels'[l] = in_cmds'[i].label
      <4>1. CASE i \in 1 .. Len(in_cmds)
        BY <4>1, <2>a, <2>b, <3>1, <3>3 DEF FirstOrder
      <4>2. CASE i = Len(in_cmds) + 1
        BY <4>2, <3>1, <3>4, <3>5, <3>6
      <4> QED BY <4>1, <4>2, <2>a, <3>2
    <3>8. ASSUME NEW l \in DOMAIN labels'
          PROVE  \E i \in DOMAIN in_cmds' : l <= i /\ in_cmds'[i].label = labels'[l]
      <4>1. PICK i \in DOMAIN in_cmds : l <= i /\ in_cmds[i].label = labels[l]
        BY <2>b, <3>1 DEF FirstOrder
      <4> QED BY <4>1, <2>a, <3>1, <3>2, <3>3
    <3>9. \A j, l \in DOMAIN labels' : labels'[j] = labels'[l] => j = l
      BY <2>b, <3>1 DEF FirstOrder
    <3>10. FirstOrder'
      BY <3>7, <3>8, <3>9 DEF FirstOrder
    <3>11. labels' \in Seq(Labels) /\ Len(labels') <= Len(in_cmds')
      BY <2>a, <3>1, <3>2 DEF Arrays
    <3> QED
      BY <3>2, <3>10, <3>11, <2>1 DEF Arrays
  <2>4. CASE ~IsLabel(cmd.label)
    <3>1. labels' = Append(labels, cmd.label)
      BY <2>2, <2>4 DEF Listed
    <3>2. /\ in_cmds' \in Seq(InCmd) /\ Len(in_cmds') = Len(in_cmds) + 1
          /\ labels' \in Seq(Labels) /\ Len(labels') = Len(labels) + 1
          /\ DOMAIN in_cmds' = 1 .. Len(in_cmds) + 1
          /\ DOMAIN labels' = 1 .. Len(labels) + 1
      BY <2>1, <2>2, <3>1 DEF Arrays
    <3>3. /\ \A i \in 1 .. Len(in_cmds) : in_cmds'[i] = in_cmds[i]
          /\ \A k \in 1 .. Len(labels) : labels'[k] = labels[k]
      BY <2>2, <3>1 DEF Arrays
    <3>4. /\ in_cmds'[Len(in_cmds) + 1] = cmd
          /\ labels'[Len(labels) + 1] = cmd.label
      BY <2>2, <3>1 DEF Arrays
    <3>5. ASSUME NEW j \in DOMAIN labels', NEW k \in DOMAIN labels',
                 labels'[j] = labels'[k]
          PROVE  j = k
      <4>1. \A l \in 1 .. Len(labels) : labels'[l] # cmd.label
        BY <2>4, <2>a, <3>3 DEF IsLabel
      <4>2. CASE j \in 1 .. Len(labels) /\ k \in 1 .. Len(labels)
        BY <4>2, <2>a, <2>b, <3>3, <3>5 DEF FirstOrder
      <4>3. CASE j = Len(labels) + 1 \/ k = Len(labels) + 1
        BY <4>1, <4>3, <2>a, <3>2, <3>4, <3>5
      <4> QED BY <4>2, <4>3, <2>a, <3>2
    <3>6. ASSUME NEW i \in DOMAIN in_cmds'
          PROVE  \E l \in DOMAIN labels' : l <= i /\ labels'[l] = in_cmds'[i].label
      <4>1. CASE i \in 1 .. Len(in_cmds)
        <5>1. PICK l \in DOMAIN labels : l <= i /\ labels[l] = in_cmds[i].label
          BY <4>1, <2>a, <2>b DEF FirstOrder
        <5> QED BY <4>1, <5>1, <2>a, <3>2, <3>3
      <4>2. CASE i = Len(in_cmds) + 1
        BY <4>2, <2>a, <3>2, <3>4
      <4> QED BY <4>1, <4>2, <2>a, <3>2
    <3>7. ASSUME NEW l \in DOMAIN labels'
          PROVE  \E i \in DOMAIN in_cmds' : l <= i /\ in_cmds'[i].label = labels'[l]
      <4>1. CASE l \in 1 .. Len(labels)
        <5>1. PICK i \in DOMAIN in_cmds : l <= i /\ in_cmds[i].label = labels[l]
          BY <4>1, <2>a, <2>b DEF FirstOrder
        <5> QED BY <4>1, <5>1, <2>a, <3>2, <3>3
      <4>2. CASE l = Len(labels) + 1
        BY <4>2, <2>a, <3>2, <3>4
      <4> QED BY <4>1, <4>2, <2>a, <3>2
    <3>8. FirstOrder'
      BY <3>5, <3>6, <3>7 DEF FirstOrder
    <3> QED
      BY <2>1, <2>a, <3>2, <3>8 DEF Arrays
  <2> QED BY <2>3, <2>4
<1> QED BY <1>1, <1>2

LEMMA ProcessedKeeps ==
  ASSUME Arrays, NEW cmd \in InCmd \union {None}, Processed(cmd)
  PROVE  Arrays' /\ this_cmd' \in InCmd \union {None}
<1>1. CASE cmd = None \/ cmd.op = "define"
  BY <1>1 DEF Processed, Arrays, FirstOrder
<1>2. CASE cmd # None /\ cmd.op # "define"
  BY <1>2, BufferedKeeps DEF Processed
<1> QED BY <1>1, <1>2

(***************************************************************************)
(* A statement that is read gets a number, and goes one of two ways.       *)
(***************************************************************************)
LEMMA ReadKeeps ==
  ASSUME Types, Arrays, NEW statement \in InCmd, ReadStatement(statement)
  PROVE  /\ Arrays' /\ read' \in Nat
         /\ this_cmd' \in InCmd \union {None} /\ p' \in InCmd \union {None}
<1> DEFINE cmd == [statement EXCEPT !.id = read + 1]
<1>1. cmd \in InCmd /\ read' \in Nat
  <2>1. read' = read + 1 /\ read \in Nat
    BY DEF Types, ReadStatement
  <2>2. cmd \in InCmd
    BY <2>1 DEF InCmd
  <2> QED BY <2>1, <2>2
<1>2. CASE statement.op = "define"
  <2>1. Buffered(cmd) /\ p' = p
    BY <1>2 DEF ReadStatement
  <2> HIDE DEF cmd
  <2> QED BY <1>1, <2>1, BufferedKeeps DEF Types
<1>3. CASE statement.op # "define"
  <2>1. this_cmd' = cmd /\ p' = cmd /\ labels' = labels /\ in_cmds' = in_cmds
    BY <1>3 DEF ReadStatement
  <2> HIDE DEF cmd
  <2> QED BY <1>1, <2>1 DEF Arrays, FirstOrder
<1> QED BY <1>2, <1>3

(***************************************************************************)
(* What a label leads to is a statement: the arrays are never read beyond  *)
(* their ends.                                                             *)
(***************************************************************************)
LEMMA TargetIsCommand ==
  ASSUME Arrays, NEW cmd \in InCmd
  PROVE  Target(cmd) \in InCmd
<1>1. CASE IsLabel(cmd.target)
  <2>1. Position(cmd.target) \in DOMAIN labels
    BY <1>1 DEF IsLabel, Position
  <2>2. Position(cmd.target) \in DOMAIN in_cmds
    BY <2>1 DEF Arrays
  <2> QED BY <1>1, <2>2 DEF Target, Arrays
<1>2. CASE ~IsLabel(cmd.target)
  BY <1>2 DEF Target
<1> QED BY <1>1, <1>2

LEMMA BufferedInitIInv == BufferedInit => BufferedIInv
BY DEF BufferedInit, BufferedIInv, Types, FirstOrder

LEMMA BufferedNextIInv == BufferedIInv /\ [BufferedNext]_buffered_vars => BufferedIInv'
<1> SUFFICES ASSUME BufferedIInv, [BufferedNext]_buffered_vars PROVE Types' /\ Arrays'
  BY DEF BufferedIInv, Arrays
<1> USE BufferedAssumption
<1>0. Types /\ Arrays
  BY DEF BufferedIInv, Arrays, Types
<1>1. CASE ReadInput
  <2>1. PICK statement \in InCmd : ReadStatement(statement)
    BY <1>1 DEF ReadInput
  <2>2. todo' = todo
    BY <1>1 DEF ReadInput
  <2> QED BY <1>0, <2>1, <2>2, ReadKeeps DEF Types, Arrays
<1>2. CASE ReadMacro
  <2>1. Head(todo) \in InCmd /\ todo' \in Seq(InCmd \union {EndOfMacro})
    BY <1>0, <1>2 DEF ReadMacro, Types
  <2> QED BY <1>0, <1>2, <2>1, ReadKeeps DEF ReadMacro, Types, Arrays
<1>3. CASE ExecMacro
  <2>1. Macros[p.target] \in Seq(InCmd \union {EndOfMacro})
    BY <1>3 DEF ExecMacro, IsMacro
  <2>2. todo' \in Seq(InCmd \union {EndOfMacro})
    BY <1>0, <1>3, <2>1 DEF ExecMacro, Types
  <2> QED BY <1>0, <1>3, <2>2 DEF ExecMacro, Types, Arrays, FirstOrder
<1>4. CASE FinishMacro
  BY <1>0, <1>4, ProcessedKeeps DEF FinishMacro, Types, Arrays
<1>5. CASE Follow
  <2>1. p \in InCmd
    BY <1>0, <1>5 DEF Follow, IsLink, Types
  <2> QED BY <1>0, <1>5, <2>1, TargetIsCommand DEF Follow, Types, Arrays, FirstOrder
<1>6. CASE Execute
  <2>1. Arrays' /\ this_cmd' \in InCmd \union {None}
    BY <1>0, <1>6, ProcessedKeeps DEF Execute, Types, Arrays, FirstOrder
  <2> QED BY <1>0, <1>6, <2>1 DEF Execute, Types, Arrays
<1>7. CASE UNCHANGED buffered_vars
  BY <1>0, <1>7 DEF buffered_vars, Types, Arrays, FirstOrder
<1> QED BY <1>1, <1>2, <1>3, <1>4, <1>5, <1>6, <1>7 DEF BufferedNext

(***************************************************************************)
(* Whatever is labelled and executed, buffered_cmd finds each label at one *)
(* position, which is that of a statement that was read: in_cmds is never  *)
(* indexed beyond its end.                                                 *)
(***************************************************************************)
THEOREM LabelsInOrder == BufferedSpec => []FirstOrder
<1>1. BufferedIInv => FirstOrder
  BY DEF BufferedIInv
<1> QED BY <1>1, BufferedInitIInv, BufferedNextIInv, PTL DEF BufferedSpec
=============================================================================
