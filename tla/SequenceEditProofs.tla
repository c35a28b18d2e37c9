------------------------- MODULE SequenceEditProofs -------------------------
(***************************************************************************)
(* The ring and the list of an edited sequence stay in step, for any       *)
(* elements, places and sequences, and edits of nodes by their names.      *)
(* Where nothing is placed from another node, the ring also stays in the   *)
(* order of the places, and each place the one declared; where something   *)
(* is, the program stops over nodes without a place only.                  *)
(***************************************************************************)
EXTENDS SequenceEdit, Induction, SequenceTheorems

-----------------------------------------------------------------------------
(* Sequences.                                                              *)

(***************************************************************************)
(* w is q with e at place i.                                               *)
(***************************************************************************)
Widened(w, q, i, e) ==
  /\ Len(w) = Len(q) + 1
  /\ \A k \in 1 .. Len(q) + 1 : w[k] = IF k < i THEN q[k] ELSE IF k = i THEN e ELSE q[k - 1]

LEMMA WidenedIs ==
  ASSUME NEW X, NEW q \in Seq(X), NEW i \in 1 .. Len(q) + 1, NEW e \in X
  PROVE  InsertAt(q, i, e) \in Seq(X) /\ Widened(InsertAt(q, i, e), q, i, e)
<1>1. PICK a : a = SubSeq(q, 1, i - 1)
  OBVIOUS
<1>2. PICK b : b = SubSeq(q, i, Len(q))
  OBVIOUS
<1>3. a \in Seq(X) /\ Len(a) = i - 1 /\ \A k \in 1 .. i - 1 : a[k] = q[k]
  BY <1>1
<1>4. b \in Seq(X) /\ Len(b) = Len(q) - i + 1 /\ \A k \in 1 .. Len(q) - i + 1 : b[k] = q[i + k - 1]
  BY <1>2
<1>5. PICK c : c = a \o <<e>>
  OBVIOUS
<1>6. c \in Seq(X) /\ Len(c) = i /\ c[i] = e /\ \A k \in 1 .. i - 1 : c[k] = q[k]
  BY <1>3, <1>5
<1>7. PICK d : d = c \o b
  OBVIOUS
<1>8. /\ d \in Seq(X) /\ Len(d) = Len(c) + Len(b)
      /\ \A k \in 1 .. Len(c) + Len(b) : d[k] = IF k <= Len(c) THEN c[k] ELSE b[k - Len(c)]
  BY <1>4, <1>6, <1>7, ConcatProperties
<1>9. InsertAt(q, i, e) = d
  BY <1>1, <1>2, <1>5, <1>7 DEF InsertAt
<1>10. Len(d) = Len(q) + 1
  BY <1>4, <1>6, <1>8
<1>11. ASSUME NEW k \in 1 .. Len(q) + 1
       PROVE  d[k] = IF k < i THEN q[k] ELSE IF k = i THEN e ELSE q[k - 1]
  <2>1. k \in 1 .. Len(c) + Len(b)
    BY <1>8, <1>10
  <2>2. CASE k <= i
    <3>1. d[k] = c[k]
      BY <1>6, <1>8, <2>1, <2>2
    <3>2. CASE k = i
      BY <1>6, <3>1, <3>2
    <3>3. CASE k < i
      <4>1. k \in 1 .. i - 1
        BY <3>3
      <4> QED
        BY <1>6, <3>1, <3>3, <4>1
    <3> QED
      BY <2>2, <3>2, <3>3
  <2>3. CASE k > i
    <3>1. k - i \in 1 .. Len(q) - i + 1 /\ i + (k - i) - 1 = k - 1
      BY <2>3
    <3>2. d[k] = b[k - i]
      BY <1>6, <1>8, <2>1, <2>3
    <3> QED
      BY SMTT(40), <1>4, <2>3, <3>1, <3>2
  <2> QED
    BY <2>2, <2>3
<1>12. Widened(d, q, i, e)
  BY <1>10, <1>11 DEF Widened
<1> QED
  BY <1>8, <1>9, <1>12

(***************************************************************************)
(* w is q without its ith.                                                 *)
(***************************************************************************)
Narrowed(w, q, i) ==
  /\ Len(w) = Len(q) - 1
  /\ \A k \in 1 .. Len(q) - 1 : w[k] = IF k < i THEN q[k] ELSE q[k + 1]

LEMMA NarrowedIs ==
  ASSUME NEW X, NEW q \in Seq(X), NEW i \in 1 .. Len(q)
  PROVE  RemoveAt(q, i) \in Seq(X) /\ Narrowed(RemoveAt(q, i), q, i)
<1>1. PICK a : a = SubSeq(q, 1, i - 1)
  OBVIOUS
<1>2. PICK b : b = SubSeq(q, i + 1, Len(q))
  OBVIOUS
<1>3. a \in Seq(X) /\ Len(a) = i - 1 /\ \A k \in 1 .. i - 1 : a[k] = q[k]
  BY <1>1
<1>4. b \in Seq(X) /\ Len(b) = Len(q) - i /\ \A k \in 1 .. Len(q) - i : b[k] = q[i + k]
  BY <1>2
<1>5. PICK d : d = a \o b
  OBVIOUS
<1>6. /\ d \in Seq(X) /\ Len(d) = Len(a) + Len(b)
      /\ \A k \in 1 .. Len(a) + Len(b) : d[k] = IF k <= Len(a) THEN a[k] ELSE b[k - Len(a)]
  BY <1>3, <1>4, <1>5, ConcatProperties
<1>7. RemoveAt(q, i) = d
  BY <1>1, <1>2, <1>5 DEF RemoveAt
<1>8. Len(d) = Len(q) - 1
  BY <1>3, <1>4, <1>6
<1>9. ASSUME NEW k \in 1 .. Len(q) - 1
      PROVE  d[k] = IF k < i THEN q[k] ELSE q[k + 1]
  <2>1. k \in 1 .. Len(a) + Len(b)
    BY <1>6, <1>8
  <2>2. CASE k < i
    <3>1. k \in 1 .. i - 1 /\ d[k] = a[k]
      BY <1>3, <1>6, <2>1, <2>2
    <3> QED
      BY <1>3, <2>2, <3>1
  <2>3. CASE k >= i
    <3>1. k - i + 1 \in 1 .. Len(q) - i /\ i + (k - i + 1) = k + 1
      BY <2>3
    <3>2. d[k] = b[k - i + 1]
      BY <1>3, <1>6, <2>1, <2>3
    <3> QED
      BY <1>4, <2>3, <3>1, <3>2
  <2> QED
    BY <2>2, <2>3
<1>10. Narrowed(d, q, i)
  BY <1>8, <1>9 DEF Narrowed
<1> QED
  BY <1>6, <1>7, <1>10

LEMMA PrefixIs ==
  ASSUME NEW X, NEW q \in Seq(X), NEW i \in 0 .. Len(q)
  PROVE  /\ SubSeq(q, 1, i) \in Seq(X) /\ Len(SubSeq(q, 1, i)) = i
         /\ \A k \in 1 .. i : SubSeq(q, 1, i)[k] = q[k]
  OBVIOUS

LEMMA MinIs ==
  ASSUME NEW F, F \subseteq Nat, F # {}
  PROVE  Min(F) \in F /\ \A y \in F : Min(F) <= y
<1>1. \E x \in F : \A y \in F : x <= y
  BY LeastNatural
<1> QED
  BY <1>1 DEF Min

-----------------------------------------------------------------------------
(* The walk along next.                                                    *)

(***************************************************************************)
(* q follows next from one node up to the first that is another.           *)
(***************************************************************************)
Leads(s, q, from, to) ==
  /\ q \in Seq(DOMAIN s.node) /\ Len(q) >= 1 /\ q[1] = from /\ q[Len(q)] = to
  /\ \A i \in 1 .. Len(q) - 1 : q[i] # to /\ s.node[q[i]].next = q[i + 1]

LEMMA PathIs ==
  ASSUME NEW s, IsFiniteSet(DOMAIN s.node), NEW from, NEW to, NEW q, Leads(s, q, from, to),
         Len(q) <= Cardinality(DOMAIN s.node) + 1
  PROVE  Path(s, from, to) = q
<1> DEFINE C == Cardinality(DOMAIN s.node)
           Step(w) == IF Last(w) = to THEN w ELSE Append(w, s.node[Last(w)].next)
           Body(g) == [k \in 0 .. C |-> IF k = 0 THEN <<from>> ELSE Step(g[k - 1])]
           walk == CHOOSE g : g = Body(g)
           upto(k) == IF k + 1 <= Len(q) THEN k + 1 ELSE Len(q)
           G == [k \in 0 .. C |-> SubSeq(q, 1, upto(k))]
<1>1. C \in Nat
  BY FS_CardinalityType
<1>2. /\ q \in Seq(DOMAIN s.node) /\ Len(q) \in Nat /\ Len(q) >= 1 /\ q[1] = from /\ q[Len(q)] = to
      /\ \A i \in 1 .. Len(q) - 1 : q[i] # to /\ s.node[q[i]].next = q[i + 1]
  BY DEF Leads
<1>3. Path(s, from, to) = walk[C]
  BY DEF Path
<1> HIDE DEF C
<1>4. G[0] = <<from>>
  <2>1. 0 \in 0 .. C /\ upto(0) = 1
    BY <1>1, <1>2
  <2>2. SubSeq(q, 1, 1) = <<q[1]>>
    <3>1. PICK w : w = SubSeq(q, 1, 1)
      OBVIOUS
    <3>2. w \in Seq(DOMAIN s.node) /\ Len(w) = 1 /\ w[1] = q[1]
      <4>1. 1 \in 0 .. Len(q) /\ 1 \in 1 .. 1 /\ q \in Seq(DOMAIN s.node)
        BY <1>2
      <4> QED
        BY ONLY <3>1, <4>1, PrefixIs
    <3>3. w = <<w[1]>>
      BY <3>2
    <3> QED
      BY <3>1, <3>2, <3>3
  <2> QED
    BY <1>2, <2>1, <2>2
<1>5. ASSUME NEW k \in 1 .. C
      PROVE  G[k] = Step(G[k - 1])
  <2>1. k \in 0 .. C /\ k - 1 \in 0 .. C /\ (k - 1) + 1 = k
    BY <1>1
  <2>2. G[k] = SubSeq(q, 1, upto(k)) /\ G[k - 1] = SubSeq(q, 1, upto(k - 1))
    BY <2>1
  <2>3. PICK w : w = SubSeq(q, 1, upto(k - 1))
    OBVIOUS
  <2>4. CASE k >= Len(q)
    <3>1. upto(k) = Len(q) /\ upto(k - 1) = Len(q)
      BY <1>2, <2>1, <2>4
    <3>2. Last(SubSeq(q, 1, Len(q))) = to
      BY <1>2 DEF Last
    <3> QED
      BY <2>2, <3>1, <3>2
  <2>5. CASE k < Len(q)
    <3>1. upto(k) = k + 1 /\ upto(k - 1) = k
      BY <1>2, <2>1, <2>5
    <3>3. k \in 1 .. Len(q) - 1 /\ k \in 0 .. Len(q) /\ k \in 1 .. k
      BY <1>2, <2>5
    <3>2. w = SubSeq(q, 1, k) /\ Last(w) = q[k]
      <4>1. w = SubSeq(q, 1, k) /\ q \in Seq(DOMAIN s.node)
        BY <1>2, <2>3, <3>1
      <4>2. Len(w) = k /\ w[k] = q[k]
        BY ONLY <3>3, <4>1, PrefixIs
      <4> QED
        BY ONLY <4>1, <4>2 DEF Last
    <3>4. Step(w) = Append(w, q[k + 1])
      BY <1>2, <3>2, <3>3
    <3>5. Append(SubSeq(q, 1, k), q[k + 1]) = SubSeq(q, 1, k + 1)
      BY <1>2, <3>3
    <3> HIDE DEF Step
    <3> QED
      BY <2>2, <2>3, <3>1, <3>2, <3>4, <3>5
  <2> QED
    BY <1>2, <2>4, <2>5
<1>6. G = Body(G)
  <2>2. G = [k \in 0 .. C |-> G[k]]
    OBVIOUS
  <2> HIDE DEF Step, G
  <2>1. \A k \in 0 .. C : G[k] = IF k = 0 THEN <<from>> ELSE Step(G[k - 1])
    <3>1. \A k \in 0 .. C : k # 0 => k \in 1 .. C
      BY <1>1
    <3> QED
      BY <1>4, <1>5, <3>1
  <2> HIDE DEF G
  <2> QED
    BY <2>1, <2>2
<1>7. walk = Body(walk)
  <2> HIDE DEF Body, G
  <2> QED
    BY <1>6
<1>8. \A k \in 0 .. C : walk[k] = IF k = 0 THEN <<from>> ELSE Step(walk[k - 1])
  <2> HIDE DEF walk, Step
  <2> QED
    BY <1>7
<1> HIDE DEF walk, G, Step
<1> DEFINE T == {k \in Nat : k <= C => walk[k] = G[k]}
<1>9. 0 \in T
  BY <1>1, <1>4, <1>8
<1>10. ASSUME NEW k \in Nat, k \in T
       PROVE  k + 1 \in T
  <2>1. CASE k + 1 <= C
    <3>1. k + 1 \in 1 .. C /\ k + 1 \in 0 .. C /\ k <= C /\ (k + 1) - 1 = k /\ k + 1 # 0
      BY <1>1, <2>1
    <3>2. walk[k + 1] = Step(walk[k]) /\ G[k + 1] = Step(G[k])
      BY <1>5, <1>8, <3>1
    <3> QED
      BY <1>10, <3>1, <3>2
  <2> QED
    BY <1>1, <2>1
<1>11. C \in T
  <2> HIDE DEF T
  <2> QED
    BY <1>1, <1>9, <1>10, SetInduction
<1>12. G[C] = q
  <2>1. upto(C) = Len(q)
    BY <1>1, <1>2 DEF C
  <2> QED
    BY <1>1, <1>2, <2>1 DEF G
<1> QED
  BY <1>1, <1>3, <1>11, <1>12

-----------------------------------------------------------------------------
(* The binary search.                                                      *)

(***************************************************************************)
(* One round of it, w being what the narrower windows give.                *)
(***************************************************************************)
Round(s, list, name, w, low, high) ==
  LET mid == (low + high) \div 2
      key == NameOf(s, list[mid])
  IN  IF low > high THEN [hit |-> FALSE, at |-> low]
      ELSE IF key = name THEN [hit |-> TRUE, at |-> mid]
      ELSE IF Less(name, key) THEN w[<<low, mid - 1>>]
      ELSE w[<<mid + 1, high>>]

Windows(n) == (1 .. n + 1) \X (0 .. n)

Rounds(s, list, name, w) ==
  [x \in Windows(Len(list)) |-> Round(s, list, name, w, x[1], x[2])]

Size(x) == x[2] - x[1] + 1

LEMMA Middle ==
  ASSUME NEW n \in Nat, NEW x \in Windows(n), x[1] <= x[2], NEW mid, mid = (x[1] + x[2]) \div 2
  PROVE  /\ mid \in x[1] .. x[2] /\ mid \in 1 .. n
         /\ <<x[1], mid - 1>> \in Windows(n) /\ Size(<<x[1], mid - 1>>) < Size(x)
         /\ <<mid + 1, x[2]>> \in Windows(n) /\ Size(<<mid + 1, x[2]>>) < Size(x)
  BY DEF Windows, Size

LEMMA SearchExists ==
  ASSUME NEW s, NEW list, Len(list) \in Nat, NEW name
  PROVE  \E w : w = Rounds(s, list, name, w)
<1> DEFINE n == Len(list)
           D == Windows(n)
           Out == [hit : BOOLEAN, at : 1 .. n + 1]
           F == [D -> Out]
           step == [k \in Nat |-> [g \in F |-> Rounds(s, list, name, g)]]
           first == [x \in D |-> [hit |-> FALSE, at |-> 1]]
<1>1. n \in Nat
  OBVIOUS
<1>2. first \in F
  OBVIOUS
<1>3. ASSUME NEW g \in F, NEW x \in D
      PROVE  Round(s, list, name, g, x[1], x[2]) \in Out
  <2>0. x[1] \in 1 .. n + 1 /\ x[2] \in 0 .. n
    BY DEF Windows
  <2>1. CASE x[1] > x[2]
    BY <2>0, <2>1 DEF Round
  <2>2. CASE x[1] <= x[2]
    <3>1. PICK mid : mid = (x[1] + x[2]) \div 2
      OBVIOUS
    <3> HIDE DEF n
    <3>2. mid \in 1 .. n /\ <<x[1], mid - 1>> \in D /\ <<mid + 1, x[2]>> \in D
      BY <1>1, <2>2, <3>1, Middle
    <3> HIDE DEF D
    <3>3. g[<<x[1], mid - 1>>] \in Out /\ g[<<mid + 1, x[2]>>] \in Out
      BY <3>2
    <3>4. [hit |-> TRUE, at |-> mid] \in Out
      BY <1>1, <3>2
    <3>5. ~(x[1] > x[2])
      BY <1>1, <2>0, <2>2
    <3> HIDE DEF Out, F
    <3> QED
      BY <3>1, <3>3, <3>4, <3>5 DEF Round
  <2> QED
    BY <2>0, <2>1, <2>2
<1>4. step \in [Nat -> [F -> F]]
  <2>1. ASSUME NEW g \in F
        PROVE  Rounds(s, list, name, g) \in F
    <3>1. \A x \in D : Round(s, list, name, g, x[1], x[2]) \in Out
      BY <1>3
    <3> HIDE DEF Out
    <3> QED
      BY <3>1 DEF Rounds
  <2> HIDE DEF F
  <2> QED
    BY <2>1
<1>5. PICK G : Iterates(G, F, first, step)
  <2> HIDE DEF F, step, first
  <2> QED
    BY <1>2, <1>4, Iteration
<1>6. \A k \in Nat : G[k] \in F /\ G[k + 1] = Rounds(s, list, name, G[k])
  <2>1. /\ G \in [Nat -> F] /\ \A k \in Nat : G[k + 1] = step[k + 1][G[k]]
    <3> HIDE DEF F, step, first
    <3> QED
      BY <1>5 DEF Iterates
  <2>2. ASSUME NEW k \in Nat, NEW g \in F
        PROVE  step[k][g] = Rounds(s, list, name, g)
    <3> HIDE DEF F
    <3> QED
      OBVIOUS
  <2>3. \A k \in Nat : k + 1 \in Nat /\ G[k] \in F
    <3> HIDE DEF F, step
    <3> QED
      BY <2>1
  <2> HIDE DEF F, step
  <2> QED
    BY <2>1, <2>2, <2>3
<1>7. ASSUME NEW k \in Nat, NEW x \in D
      PROVE  G[k + 1][x] = Round(s, list, name, G[k], x[1], x[2])
  BY <1>6 DEF Rounds
<1> HIDE DEF F, step, first
<1> DEFINE T == {k \in Nat : \A x \in D : Size(x) <= k =>
                    \A m \in Nat : m >= k => G[m + 1][x] = G[k + 1][x]}
<1>8. 0 \in T
  <2>1. ASSUME NEW x \in D, Size(x) <= 0, NEW m \in Nat
        PROVE  G[m + 1][x] = G[0 + 1][x]
    <3>1. x[1] > x[2]
      BY <1>1, <2>1 DEF Size, Windows
    <3> HIDE DEF D
    <3>2. G[m + 1][x] = [hit |-> FALSE, at |-> x[1]]
      BY <1>7, <3>1 DEF Round
    <3>3. G[0 + 1][x] = [hit |-> FALSE, at |-> x[1]]
      BY <1>7, <3>1 DEF Round
    <3> QED
      BY <3>2, <3>3
  <2> QED
    BY <2>1
<1>9. ASSUME NEW k \in Nat, k \in T
      PROVE  k + 1 \in T
  <2>1. ASSUME NEW x \in D, Size(x) <= k + 1, NEW m \in Nat, m >= k + 1
        PROVE  G[m + 1][x] = G[(k + 1) + 1][x]
    <3>1. /\ G[m + 1][x] = Round(s, list, name, G[m], x[1], x[2])
          /\ G[(k + 1) + 1][x] = Round(s, list, name, G[k + 1], x[1], x[2])
      <4>1. k + 1 \in Nat
        OBVIOUS
      <4> HIDE DEF D
      <4> QED
        BY <1>7, <4>1
    <3>2. CASE x[1] > x[2]
      BY <3>1, <3>2 DEF Round
    <3>3. CASE x[1] <= x[2]
      <4>1. PICK mid : mid = (x[1] + x[2]) \div 2
        OBVIOUS
      <4>2. PICK a, b : a = <<x[1], mid - 1>> /\ b = <<mid + 1, x[2]>>
        OBVIOUS
      <4>3. a \in D /\ b \in D /\ Size(a) < Size(x) /\ Size(b) < Size(x)
        <5> HIDE DEF n
        <5> QED
          BY <1>1, <3>3, <4>1, <4>2, Middle
      <4>4. Size(a) <= k /\ Size(b) <= k
        <5>1. Size(x) \in Int /\ Size(a) \in Int /\ Size(b) \in Int
          BY SMTT(40), <1>1, <4>3 DEF Size, Windows
        <5> HIDE DEF D
        <5> QED
          BY <2>1, <4>3, <5>1
      <4>5. m - 1 \in Nat /\ m - 1 >= k /\ (m - 1) + 1 = m
        BY <2>1
      <4> HIDE DEF D
      <4>6. G[m][a] = G[k + 1][a] /\ G[m][b] = G[k + 1][b]
        BY <1>9, <4>3, <4>4, <4>5
      <4> QED
        BY <3>1, <4>1, <4>2, <4>6 DEF Round
    <3>4. x[1] > x[2] \/ x[1] <= x[2]
      BY <1>1 DEF Windows
    <3> QED
      BY <3>2, <3>3, <3>4
  <2> QED
    BY <2>1
<1>10. n \in T
  <2> HIDE DEF T
  <2>1. Nat \subseteq T
    BY <1>8, <1>9, SetInduction
  <2> QED
    BY <1>1, <2>1
<1>11. G[n + 1] = Rounds(s, list, name, G[n + 1])
  <2>1. n + 1 \in Nat /\ n + 1 >= n
    BY <1>1
  <2>2. \A x \in D : Size(x) <= n
    BY <1>1 DEF Windows, Size
  <2>3. \A x \in D : G[(n + 1) + 1][x] = G[n + 1][x]
    <3> HIDE DEF D, n
    <3> QED
      BY <1>10, <2>1, <2>2
  <2>4. G[n + 1] \in F /\ G[(n + 1) + 1] \in F
    <3>1. (n + 1) + 1 \in Nat
      BY <2>1
    <3> HIDE DEF n
    <3> QED
      BY <1>6, <2>1, <3>1
  <2>5. G[(n + 1) + 1] = G[n + 1]
    <3> HIDE DEF D, Out, n
    <3> QED
      BY <2>3, <2>4 DEF F
  <2> HIDE DEF n
  <2> QED
    BY <1>6, <2>1, <2>5
<1> QED
  BY <1>11

(***************************************************************************)
(* Windows from which every round comes to an outcome in Post, or to       *)
(* another of them.                                                        *)
(***************************************************************************)
Closing(s, list, name, Pre, Post) ==
  \A x \in Pre : \A mid \in 1 .. Len(list) :
    LET key == NameOf(s, list[mid])
    IN  x[1] <= x[2] /\ mid \in x[1] .. x[2] =>
          /\ key = name => [hit |-> TRUE, at |-> mid] \in Post
          /\ key # name /\ Less(name, key) => <<x[1], mid - 1>> \in Pre
          /\ key # name /\ ~Less(name, key) => <<mid + 1, x[2]>> \in Pre

LEMMA SearchEnds ==
  ASSUME NEW s, NEW list, Len(list) \in Nat, NEW name, NEW Pre, NEW Post,
         Pre \subseteq Windows(Len(list)), <<1, Len(list)>> \in Pre,
         Closing(s, list, name, Pre, Post),
         \A x \in Pre : x[1] > x[2] => [hit |-> FALSE, at |-> x[1]] \in Post
  PROVE  Probe(s, list, name) \in Post
<1> DEFINE n == Len(list)
           w == CHOOSE g : g = Rounds(s, list, name, g)
           T == {k \in Nat : \A x \in Pre : Size(x) <= k => w[x] \in Post}
<1>1. Probe(s, list, name) = w[<<1, n>>]
  BY DEF Probe, Rounds, Round, Windows
<1>2. w = Rounds(s, list, name, w)
  BY SearchExists
<1> HIDE DEF w
<1>3. ASSUME NEW x \in Pre
      PROVE  w[x] = Round(s, list, name, w, x[1], x[2])
  BY <1>2 DEF Rounds
<1>4. \A x \in Pre : Size(x) \in Int /\ x[1] \in Int /\ x[2] \in Int /\ (x[1] > x[2] \/ x[1] <= x[2])
  BY DEF Size, Windows
<1>5. 0 \in T
  <2>1. ASSUME NEW x \in Pre, Size(x) <= 0
        PROVE  w[x] \in Post
    <3>1. x[1] > x[2]
      BY <1>4, <2>1 DEF Size
    <3>2. w[x] = [hit |-> FALSE, at |-> x[1]]
      BY <1>3, <3>1 DEF Round
    <3> QED
      BY <3>1, <3>2
  <2> QED
    BY <2>1
<1>6. ASSUME NEW k \in Nat, k \in T
      PROVE  k + 1 \in T
  <2>1. ASSUME NEW x \in Pre, Size(x) <= k + 1
        PROVE  w[x] \in Post
    <3>1. CASE x[1] > x[2]
      BY <1>3, <3>1 DEF Round
    <3>2. CASE x[1] <= x[2]
      <4>1. PICK mid : mid = (x[1] + x[2]) \div 2
        OBVIOUS
      <4>2. PICK a, b : a = <<x[1], mid - 1>> /\ b = <<mid + 1, x[2]>>
        OBVIOUS
      <4>3. mid \in x[1] .. x[2] /\ mid \in 1 .. n /\ Size(a) < Size(x) /\ Size(b) < Size(x)
        BY <3>2, <4>1, <4>2, Middle
      <4>4. PICK key : key = NameOf(s, list[mid])
        OBVIOUS
      <4>5. /\ key = name => [hit |-> TRUE, at |-> mid] \in Post
            /\ key # name /\ Less(name, key) => a \in Pre
            /\ key # name /\ ~Less(name, key) => b \in Pre
        BY <3>2, <4>2, <4>3, <4>4 DEF Closing
      <4>6. /\ a \in Pre => w[a] \in Post
            /\ b \in Pre => w[b] \in Post
        BY <1>4, <1>6, <2>1, <4>3
      <4>7. w[x] = IF key = name THEN [hit |-> TRUE, at |-> mid]
                   ELSE IF Less(name, key) THEN w[a] ELSE w[b]
        <5>1. ~(x[1] > x[2])
          BY <1>4, <3>2
        <5> QED
          BY <1>3, <4>1, <4>2, <4>4, <5>1 DEF Round
      <4> QED
        BY <4>5, <4>6, <4>7
    <3> QED
      BY <1>4, <3>1, <3>2
  <2> QED
    BY <2>1
<1>7. n \in T
  <2> HIDE DEF T
  <2>1. Nat \subseteq T
    BY <1>5, <1>6, SetInduction
  <2> QED
    BY <2>1
<1>8. Size(<<1, n>>) <= n
  BY DEF Size
<1> QED
  BY <1>1, <1>7, <1>8

Name == Int \X Int

(***************************************************************************)
(* The search finds what it says, and ends at a place of the list or       *)
(* behind it.                                                              *)
(***************************************************************************)
LEMMA ProbeSound ==
  ASSUME NEW s, NEW list, Len(list) \in Nat, NEW name
  PROVE  LET p == Probe(s, list, name)
         IN  \/ p.hit = FALSE /\ p.at \in 1 .. Len(list) + 1
             \/ p.hit = TRUE /\ p.at \in 1 .. Len(list) /\ NameOf(s, list[p.at]) = name
<1> DEFINE n == Len(list)
           Miss == {[hit |-> FALSE, at |-> i] : i \in 1 .. n + 1}
           Hits == {[hit |-> TRUE, at |-> i] : i \in {j \in 1 .. n : NameOf(s, list[j]) = name}}
           Pre == Windows(n)
           Post == Miss \union Hits
<1>1. <<1, n>> \in Pre
  BY DEF Windows
<1>2. Closing(s, list, name, Pre, Post)
  <2> SUFFICES ASSUME NEW x \in Pre, NEW mid \in 1 .. n, x[1] <= x[2], mid \in x[1] .. x[2]
               PROVE  LET key == NameOf(s, list[mid])
                      IN  /\ key = name => [hit |-> TRUE, at |-> mid] \in Post
                          /\ key # name /\ Less(name, key) => <<x[1], mid - 1>> \in Pre
                          /\ key # name /\ ~Less(name, key) => <<mid + 1, x[2]>> \in Pre
    BY DEF Closing
  <2>1. <<x[1], mid - 1>> \in Pre /\ <<mid + 1, x[2]>> \in Pre
    BY DEF Windows
  <2>2. NameOf(s, list[mid]) = name => [hit |-> TRUE, at |-> mid] \in Hits
    OBVIOUS
  <2> HIDE DEF Pre, Hits
  <2> QED
    BY <2>1, <2>2
<1>3. \A x \in Pre : x[1] > x[2] => [hit |-> FALSE, at |-> x[1]] \in Post
  BY DEF Windows
<1>4. Probe(s, list, name) \in Post
  <2> HIDE DEF Pre, Post
  <2>1. Pre \subseteq Windows(Len(list))
    BY DEF Pre
  <2> QED
    BY <1>1, <1>2, <1>3, <2>1, SearchEnds
<1> QED
  BY <1>4

(***************************************************************************)
(* If all entries before a place are less than the name, and all from it   *)
(* on greater, the search ends at this place.                              *)
(***************************************************************************)
LEMMA ProbeMisses ==
  ASSUME NEW s, NEW list, Len(list) \in Nat, NEW name \in Name, NEW a \in 1 .. Len(list) + 1,
         \A i \in 1 .. Len(list) : NameOf(s, list[i]) \in Name,
         \A i \in 1 .. Len(list) : i < a => Less(NameOf(s, list[i]), name),
         \A i \in 1 .. Len(list) : i >= a => Less(name, NameOf(s, list[i]))
  PROVE  Probe(s, list, name) = [hit |-> FALSE, at |-> a]
<1> DEFINE n == Len(list)
           Pre == {x \in Windows(n) : x[1] <= a /\ a <= x[2] + 1}
           Post == {[hit |-> FALSE, at |-> a]}
<1>1. <<1, n>> \in Pre /\ Pre \subseteq Windows(Len(list))
  BY DEF Windows
<1>2. Closing(s, list, name, Pre, Post)
  <2> SUFFICES ASSUME NEW x \in Pre, NEW mid \in 1 .. n, x[1] <= x[2], mid \in x[1] .. x[2]
               PROVE  LET key == NameOf(s, list[mid])
                      IN  /\ key = name => [hit |-> TRUE, at |-> mid] \in Post
                          /\ key # name /\ Less(name, key) => <<x[1], mid - 1>> \in Pre
                          /\ key # name /\ ~Less(name, key) => <<mid + 1, x[2]>> \in Pre
    BY DEF Closing
  <2>1. PICK key : key = NameOf(s, list[mid])
    OBVIOUS
  <2>2. mid < a => Less(key, name)
    BY <2>1
  <2>3. mid >= a => Less(name, key)
    BY <2>1
  <2>4. key \in Name
    BY <2>1
  <2>5. key # name
    BY <2>2, <2>3, <2>4 DEF Less, Name
  <2>6. Less(name, key) => mid >= a
    BY <2>2, <2>3, <2>4 DEF Less, Name
  <2>7. Less(name, key) => <<x[1], mid - 1>> \in Pre
    BY <2>6 DEF Windows
  <2>8. ~Less(name, key) => <<mid + 1, x[2]>> \in Pre
    BY <2>3 DEF Windows
  <2> QED
    BY <2>1, <2>5, <2>7, <2>8
<1>3. \A x \in Pre : x[1] > x[2] => [hit |-> FALSE, at |-> x[1]] \in Post
  <2>1. \A x \in Pre : x[1] > x[2] => x[1] = a
    BY DEF Windows
  <2> QED
    BY <2>1
<1> HIDE DEF Pre, Post
<1>4. Probe(s, list, name) \in Post
  BY <1>1, <1>2, <1>3, SearchEnds
<1> QED
  BY <1>4 DEF Post

LEMMA ProbeHits ==
  ASSUME NEW s, NEW list, Len(list) \in Nat, NEW name \in Name, NEW a \in 1 .. Len(list),
         \A i \in 1 .. Len(list) : NameOf(s, list[i]) \in Name, NameOf(s, list[a]) = name,
         \A i \in 1 .. Len(list) : i < a => Less(NameOf(s, list[i]), name),
         \A i \in 1 .. Len(list) : i > a => Less(name, NameOf(s, list[i]))
  PROVE  Probe(s, list, name) = [hit |-> TRUE, at |-> a]
<1> DEFINE n == Len(list)
           Pre == {x \in Windows(n) : x[1] <= a /\ a <= x[2]}
           Post == {[hit |-> TRUE, at |-> a]}
<1>1. <<1, n>> \in Pre /\ Pre \subseteq Windows(Len(list))
  BY DEF Windows
<1>2. Closing(s, list, name, Pre, Post)
  <2> SUFFICES ASSUME NEW x \in Pre, NEW mid \in 1 .. n, x[1] <= x[2], mid \in x[1] .. x[2]
               PROVE  LET key == NameOf(s, list[mid])
                      IN  /\ key = name => [hit |-> TRUE, at |-> mid] \in Post
                          /\ key # name /\ Less(name, key) => <<x[1], mid - 1>> \in Pre
                          /\ key # name /\ ~Less(name, key) => <<mid + 1, x[2]>> \in Pre
    BY DEF Closing
  <2>1. PICK key : key = NameOf(s, list[mid])
    OBVIOUS
  <2>2. mid < a => Less(key, name)
    BY <2>1
  <2>3. mid > a => Less(name, key)
    BY <2>1
  <2>4. key \in Name /\ (mid = a => key = name)
    BY <2>1
  <2>5. key = name => mid = a
    BY <2>2, <2>3, <2>4 DEF Less, Name
  <2>6. Less(name, key) => mid > a
    BY <2>2, <2>3, <2>4 DEF Less, Name
  <2>7. Less(name, key) => <<x[1], mid - 1>> \in Pre
    BY <2>6 DEF Windows
  <2>8. key # name /\ ~Less(name, key) => <<mid + 1, x[2]>> \in Pre
    <3>1. key # name /\ ~Less(name, key) => mid < a
      BY <2>3, <2>4
    <3> QED
      BY <3>1 DEF Windows
  <2> QED
    BY <2>1, <2>5, <2>7, <2>8
<1>3. \A x \in Pre : x[1] > x[2] => [hit |-> FALSE, at |-> x[1]] \in Post
  BY DEF Windows
<1> HIDE DEF Pre, Post
<1>4. Probe(s, list, name) \in Post
  BY <1>1, <1>2, <1>3, SearchEnds
<1> QED
  BY <1>4 DEF Post

(***************************************************************************)
(* The search for a name that is greater than the first p entries ends     *)
(* behind them, whatever the order of the others.                          *)
(***************************************************************************)
LEMMA ProbeBehind ==
  ASSUME NEW s, NEW list, Len(list) \in Nat, NEW name \in Name, NEW p \in 0 .. Len(list),
         \A i \in 1 .. p : NameOf(s, list[i]) \in Name /\ Less(NameOf(s, list[i]), name)
  PROVE  Probe(s, list, name).at > p
<1> DEFINE n == Len(list)
           Pre == {x \in Windows(n) : x[2] >= p}
           Post == [hit : BOOLEAN, at : {j \in 1 .. n + 1 : j > p}]
<1>1. <<1, n>> \in Pre /\ Pre \subseteq Windows(Len(list))
  BY DEF Windows
<1>2. Closing(s, list, name, Pre, Post)
  <2> SUFFICES ASSUME NEW x \in Pre, NEW mid \in 1 .. n, x[1] <= x[2], mid \in x[1] .. x[2]
               PROVE  LET key == NameOf(s, list[mid])
                      IN  /\ key = name => [hit |-> TRUE, at |-> mid] \in Post
                          /\ key # name /\ Less(name, key) => <<x[1], mid - 1>> \in Pre
                          /\ key # name /\ ~Less(name, key) => <<mid + 1, x[2]>> \in Pre
    BY DEF Closing
  <2>1. PICK key : key = NameOf(s, list[mid])
    OBVIOUS
  <2>2. mid <= p => key \in Name /\ Less(key, name)
    BY <2>1
  <2>3. key = name \/ Less(name, key) => mid > p
    BY <2>2 DEF Less, Name
  <2>4. key = name => [hit |-> TRUE, at |-> mid] \in Post
    BY <2>3
  <2>5. Less(name, key) => <<x[1], mid - 1>> \in Pre
    BY <2>3 DEF Windows
  <2>6. <<mid + 1, x[2]>> \in Pre
    BY DEF Windows
  <2> QED
    BY <2>1, <2>4, <2>5, <2>6
<1>3. \A x \in Pre : x[1] > x[2] => [hit |-> FALSE, at |-> x[1]] \in Post
  <2>1. \A x \in Pre : x[1] > x[2] => x[1] \in {j \in 1 .. n + 1 : j > p}
    BY DEF Windows
  <2> QED
    BY <2>1
<1>5. \A out \in Post : out.at > p
  OBVIOUS
<1> HIDE DEF Pre, Post
<1>4. Probe(s, list, name) \in Post
  BY <1>1, <1>2, <1>3, SearchEnds
<1> QED
  BY <1>4, <1>5

-----------------------------------------------------------------------------
(* The edited sequence.                                                    *)

Address == Known \X Nat

NodeRecord ==
  [name : Name, elem : Known, at_value : Int, from_name : Name, position : Int,
   next : Address, previous : Address]

Heap == UNION {[N -> NodeRecord] : N \in SUBSET Address}

Shaped(s) ==
  /\ s \in [node : Heap, nodes : Seq(Address), start : Address, end : Address,
            ref_flag : Int, occ_list : [Known -> Nat], ranges : {s.ranges}]
  /\ IsFiniteSet(DOMAIN s.node)

LEMMA KnownIs ==
  /\ Known \subseteq Int
  /\ \A e \in Element \union {START, END} : e \in Known /\ ~IsPMark(e)
  /\ \A m \in Marker : IsPMark(PMark(m)) /\ PMark(m) \in Known
  /\ \A e \in Known : ~IsPMark(e) => e \in Element \union {START, END}
<1>1. \A e \in Element \union {START, END} : e \in Int /\ e >= 1 /\ e <= 100
  <2>1. Element \union {START, END} \subseteq 1 .. 100
    BY SequenceEditAssumption
  <2> QED
    BY <2>1
<1>2. \A m \in Marker : m \in Element
  BY SequenceEditAssumption
<1> QED
  BY <1>1, <1>2 DEF Known, PMark, IsPMark

LEMMA NodeIs ==
  ASSUME NEW s, Shaped(s)
  PROVE  /\ DOMAIN s.node \subseteq Address
         /\ s.node \in [DOMAIN s.node -> NodeRecord]
         /\ \A n \in DOMAIN s.node :
              /\ s.node[n].name \in Name /\ s.node[n].elem \in Known
              /\ s.node[n].next \in Address /\ s.node[n].previous \in Address
              /\ NameOf(s, n) = s.node[n].name
<1>1. s.node \in Heap
  BY DEF Shaped
<1>2. PICK N \in SUBSET Address : s.node \in [N -> NodeRecord]
  BY <1>1 DEF Heap
<1>3. \A n \in N : NameOf(s, n) = s.node[n].name
  <2>1. \A n \in N : Len(n) = 2
    BY <1>2 DEF Address
  <2> QED
    BY <2>1 DEF NameOf
<1> QED
  BY <1>2, <1>3 DEF NodeRecord

(***************************************************************************)
(* The first p entries of a list are in the order of their names, none of  *)
(* which is of a marker of CYCLE; all others are.                          *)
(***************************************************************************)
Sorted(s, list, p) ==
  /\ list \in Seq(DOMAIN s.node) /\ p \in 0 .. Len(list)
  /\ \A i \in 1 .. p : ~IsPMark(s.node[list[i]].name[1])
  /\ \A i, j \in 1 .. p : i < j => Less(s.node[list[i]].name, s.node[list[j]].name)
  /\ \A i \in p + 1 .. Len(list) : IsPMark(s.node[list[i]].name[1])

LEMMA SortedNames ==
  ASSUME NEW s, Shaped(s), NEW list, NEW p, Sorted(s, list, p)
  PROVE  /\ Len(list) \in Nat /\ p \in Nat /\ p <= Len(list)
         /\ \A i \in 1 .. Len(list) : /\ list[i] \in DOMAIN s.node
                                      /\ NameOf(s, list[i]) = s.node[list[i]].name
                                      /\ s.node[list[i]].name \in Name
BY NodeIs DEF Sorted

LEMMA FoundIs ==
  ASSUME NEW s, Shaped(s), NEW list, NEW p, Sorted(s, list, p), NEW a \in 1 .. p
  PROVE  Probe(s, list, s.node[list[a]].name) = [hit |-> TRUE, at |-> a]
<1> DEFINE name == s.node[list[a]].name
<1>1. /\ Len(list) \in Nat /\ p \in Nat /\ p <= Len(list) /\ a \in 1 .. Len(list)
      /\ \A i \in 1 .. Len(list) : NameOf(s, list[i]) = s.node[list[i]].name /\ s.node[list[i]].name \in Name
  BY SortedNames
<1>2. /\ \A i \in 1 .. p : ~IsPMark(s.node[list[i]].name[1])
      /\ \A i, j \in 1 .. p : i < j => Less(s.node[list[i]].name, s.node[list[j]].name)
      /\ \A i \in p + 1 .. Len(list) : IsPMark(s.node[list[i]].name[1])
  BY DEF Sorted
<1>3. ASSUME NEW i \in 1 .. Len(list), i < a
      PROVE  Less(NameOf(s, list[i]), name)
  BY <1>1, <1>2, <1>3
<1>4. ASSUME NEW i \in 1 .. Len(list), i > a
      PROVE  Less(name, NameOf(s, list[i]))
  <2>1. CASE i <= p
    BY <1>1, <1>2, <1>4, <2>1
  <2>2. CASE i > p
    <3>1. IsPMark(s.node[list[i]].name[1]) /\ ~IsPMark(name[1])
      BY <1>1, <1>2, <2>2
    <3>2. name \in Name /\ s.node[list[i]].name \in Name
      BY <1>1
    <3> HIDE DEF name
    <3> QED
      BY SMTT(40), <1>1, <3>1, <3>2 DEF IsPMark, Less, Name
  <2> QED
    BY <1>1, <2>1, <2>2
<1>5. name \in Name /\ NameOf(s, list[a]) = name
  BY <1>1
<1> HIDE DEF name
<1>6. Probe(s, list, name) = [hit |-> TRUE, at |-> a]
  BY <1>1, <1>3, <1>4, <1>5, ProbeHits
<1> QED
  BY <1>6 DEF name

LEMMA LessTotal ==
  ASSUME NEW x \in Name, NEW y \in Name, x # y, ~Less(y, x)
  PROVE  Less(x, y)
<1>1. PICK a \in Int, b \in Int : x = <<a, b>>
  BY DEF Name
<1>2. PICK c \in Int, d \in Int : y = <<c, d>>
  BY DEF Name
<1>3. a # c \/ b # d
  BY <1>1, <1>2
<1> QED
  BY <1>1, <1>2, <1>3 DEF Less

(***************************************************************************)
(* add_to_node_list: a new name comes into its place, one that is there    *)
(* changes nothing, that of a marker of CYCLE leaves the others in place.  *)
(***************************************************************************)
LEMMA AddedNew ==
  ASSUME NEW s, Shaped(s), NEW list, NEW p, Sorted(s, list, p), NEW n \in DOMAIN s.node,
         ~IsPMark(s.node[n].name[1]),
         \A i \in 1 .. p : s.node[list[i]].name # s.node[n].name
  PROVE  \E a \in 1 .. p + 1 : /\ Added(s, list, n) = InsertAt(list, a, n)
                               /\ Sorted(s, Added(s, list, n), p + 1)
<1>0. PICK name : name = s.node[n].name
  OBVIOUS
<1>1. /\ Len(list) \in Nat /\ p \in Nat /\ p <= Len(list)
      /\ \A i \in 1 .. Len(list) : NameOf(s, list[i]) = s.node[list[i]].name /\ s.node[list[i]].name \in Name
  BY SortedNames
<1>2. /\ list \in Seq(DOMAIN s.node)
      /\ \A i \in 1 .. p : ~IsPMark(s.node[list[i]].name[1])
      /\ \A i, j \in 1 .. p : i < j => Less(s.node[list[i]].name, s.node[list[j]].name)
      /\ \A i \in p + 1 .. Len(list) : IsPMark(s.node[list[i]].name[1])
  BY DEF Sorted
<1>3. name \in Name /\ ~IsPMark(name[1])
  BY <1>0, NodeIs
<1> DEFINE F == {i \in 1 .. p + 1 : i = p + 1 \/ Less(name, s.node[list[i]].name)}
<1>4. F \subseteq Nat /\ F # {}
  <2>1. p + 1 \in F
    BY <1>1
  <2> QED
    BY <2>1
<1>5. PICK a \in F : \A i \in F : a <= i
  <2> HIDE DEF F
  <2> QED
    BY <1>4, LeastNatural
<1>6. ASSUME NEW i \in 1 .. Len(list), i < a
      PROVE  Less(s.node[list[i]].name, name)
  <2>1. i \in 1 .. p /\ i \notin F
    BY <1>1, <1>5, <1>6
  <2>2. s.node[list[i]].name # name /\ ~Less(name, s.node[list[i]].name)
    <3>1. i \in 1 .. p + 1
      BY <1>1, <2>1
    <3>2. ~Less(name, s.node[list[i]].name)
      BY <2>1, <3>1
    <3> QED
      BY <1>0, <2>1, <3>2
  <2>3. s.node[list[i]].name \in Name
    BY <1>1
  <2>4. PICK x : x = s.node[list[i]].name
    OBVIOUS
  <2>5. x \in Name /\ x # name /\ ~Less(name, x)
    BY ONLY <2>2, <2>3, <2>4
  <2>6. Less(x, name)
    BY ONLY <1>3, <2>5, LessTotal
  <2> QED
    BY ONLY <2>4, <2>6
<1>7. ASSUME NEW i \in 1 .. Len(list), i >= a
      PROVE  Less(name, s.node[list[i]].name)
  <2>0. s.node[list[i]].name \in Name
    BY <1>1
  <2>1. CASE i <= p
    <3>1. a <= p /\ Less(name, s.node[list[a]].name) /\ a \in 1 .. p
      BY <1>1, <1>5, <1>7, <2>1
    <3>2. i = a \/ Less(s.node[list[a]].name, s.node[list[i]].name)
      BY <1>1, <1>2, <1>7, <2>1, <3>1
    <3>3. s.node[list[a]].name \in Name
      BY <1>1, <3>1
    <3>4. CASE i = a
      BY <3>1, <3>4
    <3>5. PICK x, y : x = s.node[list[a]].name /\ y = s.node[list[i]].name
      OBVIOUS
    <3>6. CASE Less(x, y)
      <4>1. Less(name, x) /\ x \in Name /\ y \in Name
        BY <2>0, <3>1, <3>3, <3>5
      <4>2. Less(name, y)
        BY <1>3, <3>6, <4>1 DEF Less, Name
      <4> QED
        BY <3>5, <4>2
    <3> QED
      BY <3>2, <3>4, <3>5, <3>6
  <2>2. CASE i > p
    <3>1. IsPMark(s.node[list[i]].name[1])
      BY <1>1, <1>2, <2>2
    <3> QED
      BY <1>3, <2>0, <3>1 DEF IsPMark, Less, Name
  <2> QED
    BY <1>1, <2>1, <2>2
<1>8. a \in 1 .. p + 1 /\ a \in 1 .. Len(list) + 1
  BY <1>1, <1>5
<1> HIDE DEF F
<1>9. Probe(s, list, name) = [hit |-> FALSE, at |-> a]
  <2>1. \A i \in 1 .. Len(list) : /\ NameOf(s, list[i]) \in Name
                                  /\ i < a => Less(NameOf(s, list[i]), name)
                                  /\ i >= a => Less(name, NameOf(s, list[i]))
    BY <1>1, <1>6, <1>7
  <2> QED
    BY <1>1, <1>3, <1>8, <2>1, ProbeMisses
<1>10. Added(s, list, n) = InsertAt(list, a, n)
  BY <1>0, <1>9 DEF Added
<1>11. PICK q : q = InsertAt(list, a, n)
  OBVIOUS
<1>12. /\ q \in Seq(DOMAIN s.node) /\ Len(q) = Len(list) + 1
       /\ \A k \in 1 .. Len(list) + 1 : q[k] = IF k < a THEN list[k] ELSE IF k = a THEN n ELSE list[k - 1]
  <2>1. list \in Seq(DOMAIN s.node) /\ a \in 1 .. Len(list) + 1 /\ n \in DOMAIN s.node
    BY <1>2, <1>8
  <2>2. q \in Seq(DOMAIN s.node) /\ Widened(q, list, a, n)
    BY ONLY <1>11, <2>1, WidenedIs
  <2> QED
    BY ONLY <2>2 DEF Widened
<1>13. ASSUME NEW i \in 1 .. p + 1
       PROVE  /\ ~IsPMark(s.node[q[i]].name[1])
              /\ \A j \in 1 .. p + 1 : i < j => Less(s.node[q[i]].name, s.node[q[j]].name)
  <2>1. \A k \in 1 .. p + 1 : \/ k < a /\ k \in 1 .. p /\ q[k] = list[k]
                              \/ k = a /\ q[k] = n
                              \/ k > a /\ k - 1 \in 1 .. p /\ k - 1 >= a /\ q[k] = list[k - 1]
    BY <1>1, <1>8, <1>12
  <2>2. \A k \in 1 .. p : k \in 1 .. Len(list)
    BY <1>1
  <2>3. ~IsPMark(s.node[q[i]].name[1])
    BY <1>0, <1>2, <1>3, <2>1
  <2>4. ASSUME NEW j \in 1 .. p + 1, i < j
        PROVE  Less(s.node[q[i]].name, s.node[q[j]].name)
    <3>1. CASE i < a /\ j < a
      <4>1. i \in 1 .. p /\ q[i] = list[i] /\ j \in 1 .. p /\ q[j] = list[j]
        BY <1>8, <2>1, <3>1
      <4> QED
        BY <1>2, <2>4, <4>1
    <3>2. CASE i < a /\ j = a
      BY <1>0, <1>6, <2>1, <2>2, <3>2
    <3>3. CASE i < a /\ j > a
      <4>1. i \in 1 .. p /\ q[i] = list[i] /\ j - 1 \in 1 .. p /\ q[j] = list[j - 1] /\ i < j - 1
        BY <1>8, <2>1, <3>3
      <4> QED
        BY <1>2, <4>1
    <3>4. CASE i = a /\ j > a
      <4>1. q[i] = n /\ j - 1 \in 1 .. p /\ q[j] = list[j - 1] /\ j - 1 >= a
        BY <1>8, <2>1, <3>4
      <4> QED
        BY <1>0, <1>7, <2>2, <4>1
    <3>5. CASE i > a /\ j > a
      <4>1. i - 1 \in 1 .. p /\ q[i] = list[i - 1] /\ j - 1 \in 1 .. p /\ q[j] = list[j - 1] /\ i - 1 < j - 1
        BY <1>8, <2>1, <2>4, <3>5
      <4> QED
        BY <1>2, <4>1
    <3> QED
      <4>1. i \in Nat /\ j \in Nat /\ a \in Nat
        BY <1>1, <1>8
      <4>2. (i < a /\ j < a) \/ (i < a /\ j = a) \/ (i < a /\ j > a) \/ (i = a /\ j > a) \/ (i > a /\ j > a)
        BY <2>4, <4>1
      <4> QED
        BY <3>1, <3>2, <3>3, <3>4, <3>5, <4>2
  <2> QED
    BY <2>3, <2>4
<1>14. ASSUME NEW i \in (p + 1) + 1 .. Len(q)
       PROVE  IsPMark(s.node[q[i]].name[1])
  <2>1. q[i] = list[i - 1] /\ i - 1 \in p + 1 .. Len(list)
    BY <1>1, <1>8, <1>12
  <2> QED
    BY <1>2, <2>1
<1>15. Sorted(s, q, p + 1)
  <2>1. p + 1 \in 0 .. Len(q)
    BY <1>1, <1>12
  <2> QED
    BY <1>12, <1>13, <1>14, <2>1 DEF Sorted
<1> QED
  BY <1>8, <1>10, <1>11, <1>15

LEMMA AddedSame ==
  ASSUME NEW s, Shaped(s), NEW list, NEW p, Sorted(s, list, p), NEW n \in DOMAIN s.node,
         NEW i \in 1 .. p, s.node[list[i]].name = s.node[n].name
  PROVE  Added(s, list, n) = list
<1>1. Probe(s, list, s.node[n].name) = [hit |-> TRUE, at |-> i]
  BY SMTT(40), FoundIs
<1> QED
  BY <1>1 DEF Added

LEMMA AddedMarker ==
  ASSUME NEW s, Shaped(s), NEW list, NEW p, Sorted(s, list, p), NEW n \in DOMAIN s.node,
         IsPMark(s.node[n].name[1])
  PROVE  /\ Sorted(s, Added(s, list, n), p)
         /\ \A i \in 1 .. p : Added(s, list, n)[i] = list[i]
         /\ \A i \in 1 .. Len(Added(s, list, n)) :
              Added(s, list, n)[i] = n \/ \E j \in 1 .. Len(list) : Added(s, list, n)[i] = list[j] /\ (i > p => j > p)
<1>0. PICK name : name = s.node[n].name
  OBVIOUS
<1>1. /\ Len(list) \in Nat /\ p \in Nat /\ p <= Len(list)
      /\ \A i \in 1 .. Len(list) : NameOf(s, list[i]) = s.node[list[i]].name /\ s.node[list[i]].name \in Name
  BY SortedNames
<1>2. /\ list \in Seq(DOMAIN s.node)
      /\ \A i \in 1 .. p : ~IsPMark(s.node[list[i]].name[1])
      /\ \A i, j \in 1 .. p : i < j => Less(s.node[list[i]].name, s.node[list[j]].name)
      /\ \A i \in p + 1 .. Len(list) : IsPMark(s.node[list[i]].name[1])
  BY DEF Sorted
<1>3. name \in Name /\ IsPMark(name[1])
  BY <1>0, NodeIs
<1>4. PICK a : a = Probe(s, list, name).at
  OBVIOUS
<1>5. a \in 1 .. Len(list) + 1
  <2>1. PICK out : out = Probe(s, list, name)
    OBVIOUS
  <2>2. out.at \in 1 .. Len(list) + 1 \/ out.at \in 1 .. Len(list)
    BY <1>1, <2>1, ProbeSound
  <2> QED
    BY <1>1, <1>4, <2>1, <2>2
<1>6. a > p
  <2>1. ASSUME NEW i \in 1 .. p
        PROVE  NameOf(s, list[i]) \in Name /\ Less(NameOf(s, list[i]), name)
    <3>1. NameOf(s, list[i]) = s.node[list[i]].name /\ s.node[list[i]].name \in Name
      BY <1>1
    <3>2. ~IsPMark(s.node[list[i]].name[1])
      BY <1>2
    <3> QED
      BY <1>3, <3>1, <3>2 DEF IsPMark, Less, Name
  <2>2. p \in 0 .. Len(list)
    BY <1>1
  <2> QED
    BY <1>1, <1>3, <1>4, <2>1, <2>2, ProbeBehind
<1>7. CASE Added(s, list, n) = list
  <2>1. \A i \in 1 .. Len(list) : i > p => i > p
    OBVIOUS
  <2> QED
    BY <1>7
<1>8. CASE Added(s, list, n) = InsertAt(list, a, n)
  <2>1. PICK q : q = InsertAt(list, a, n)
    OBVIOUS
  <2>2. /\ q \in Seq(DOMAIN s.node) /\ Len(q) = Len(list) + 1
        /\ \A k \in 1 .. Len(list) + 1 : q[k] = IF k < a THEN list[k] ELSE IF k = a THEN n ELSE list[k - 1]
    <3>1. list \in Seq(DOMAIN s.node) /\ a \in 1 .. Len(list) + 1 /\ n \in DOMAIN s.node
      BY <1>2, <1>5
    <3>2. q \in Seq(DOMAIN s.node) /\ Widened(q, list, a, n)
      BY ONLY <2>1, <3>1, WidenedIs
    <3> QED
      BY ONLY <3>2 DEF Widened
  <2>3. ASSUME NEW k \in 1 .. p
        PROVE  q[k] = list[k]
    <3>1. k \in 1 .. Len(list) + 1 /\ k < a
      BY <1>1, <1>5, <1>6
    <3> QED
      BY <2>2, <3>1
  <2>4. ASSUME NEW k \in 1 .. Len(q)
        PROVE  q[k] = n \/ \E j \in 1 .. Len(list) : q[k] = list[j] /\ (k > p => j > p)
    <3>1. CASE k < a
      <4>1. k \in 1 .. Len(list) /\ q[k] = list[k]
        BY <1>1, <1>5, <2>2, <3>1
      <4> QED
        BY <4>1
    <3>2. CASE k = a
      BY <2>2, <3>2
    <3>3. CASE k > a
      <4>1. k - 1 \in 1 .. Len(list) /\ q[k] = list[k - 1] /\ k - 1 > p
        BY <1>1, <1>5, <1>6, <2>2, <3>3
      <4> QED
        BY <4>1
    <3> QED
      BY <1>5, <3>1, <3>2, <3>3
  <2>5. ASSUME NEW k \in p + 1 .. Len(q)
        PROVE  IsPMark(s.node[q[k]].name[1])
    <3>1. k \in 1 .. Len(q) /\ k > p
      BY <1>1
    <3>2. q[k] = n \/ \E j \in p + 1 .. Len(list) : q[k] = list[j]
      BY <1>1, <2>4, <3>1
    <3> QED
      BY <1>0, <1>2, <1>3, <3>2
  <2>6. p \in 0 .. Len(q)
    BY <1>1, <2>2
  <2>7. Sorted(s, q, p)
    BY <1>2, <2>2, <2>3, <2>5, <2>6 DEF Sorted
  <2> QED
    BY <1>8, <2>1, <2>3, <2>4, <2>7
<1> QED
  BY <1>0, <1>4, <1>7, <1>8 DEF Added

(***************************************************************************)
(* remove_from_node_list takes out the node itself.                        *)
(***************************************************************************)
LEMMA DelistedIs ==
  ASSUME NEW s, Shaped(s), NEW p, Sorted(s, s.nodes, p), NEW a \in 1 .. p
  PROVE  /\ Delisted(s, s.nodes[a]) = RemoveAt(s.nodes, a)
         /\ Sorted(s, Delisted(s, s.nodes[a]), p - 1)
<1>0. PICK list : list = s.nodes
  OBVIOUS
<1>a. Sorted(s, list, p)
  BY <1>0
<1>1. /\ Len(list) \in Nat /\ p \in Nat /\ p <= Len(list)
      /\ \A i \in 1 .. Len(list) : NameOf(s, list[i]) = s.node[list[i]].name /\ s.node[list[i]].name \in Name
  BY <1>a, SortedNames
<1>2. /\ list \in Seq(DOMAIN s.node)
      /\ \A i \in 1 .. p : ~IsPMark(s.node[list[i]].name[1])
      /\ \A i, j \in 1 .. p : i < j => Less(s.node[list[i]].name, s.node[list[j]].name)
      /\ \A i \in p + 1 .. Len(list) : IsPMark(s.node[list[i]].name[1])
  BY <1>a DEF Sorted
<1> DEFINE same == {i \in 1 .. Len(list) : NameOf(s, list[i]) = s.node[list[a]].name}
<1>3. a \in 1 .. Len(list) /\ a \in same
  BY <1>1
<1>4. \A i \in same : i >= a
  <2>1. ASSUME NEW i \in same, i < a
        PROVE  FALSE
    <3>1. i \in 1 .. p /\ i \in 1 .. Len(list)
      BY <1>1, <2>1
    <3>2. PICK x, y : x = s.node[list[i]].name /\ y = s.node[list[a]].name
      OBVIOUS
    <3>3. Less(x, y)
      BY <1>2, <2>1, <3>1, <3>2
    <3>4. x = y /\ x \in Name
      BY <1>1, <3>1, <3>2
    <3> QED
      BY <3>3, <3>4 DEF Less, Name
  <2>2. \A i \in same : i \in Nat
    OBVIOUS
  <2> QED
    BY <1>1, <2>1, <2>2
<1>5. Min(same) = a
  <2>1. same \subseteq Nat /\ same # {}
    BY <1>3
  <2> HIDE DEF same
  <2>2. Min(same) \in same /\ \A y \in same : Min(same) <= y
    BY <2>1, MinIs
  <2>3. Min(same) \in Nat /\ a \in Nat /\ Min(same) <= a /\ Min(same) >= a
    BY <1>3, <1>4, <2>1, <2>2
  <2> QED
    BY <2>3
<1>6. Delisted(s, list[a]) = RemoveAt(list, a)
  <2>1. DOMAIN list = 1 .. Len(list)
    BY <1>2
  <2>2. same # {}
    BY <1>3
  <2> QED
    BY <1>0, <1>5, <2>1, <2>2 DEF Delisted
<1>7. PICK q : q = RemoveAt(list, a)
  OBVIOUS
<1>8. /\ q \in Seq(DOMAIN s.node) /\ Len(q) = Len(list) - 1
      /\ \A k \in 1 .. Len(list) - 1 : q[k] = IF k < a THEN list[k] ELSE list[k + 1]
  <2>1. list \in Seq(DOMAIN s.node) /\ a \in 1 .. Len(list)
    BY <1>2, <1>3
  <2>2. q \in Seq(DOMAIN s.node) /\ Narrowed(q, list, a)
    BY ONLY <1>7, <2>1, NarrowedIs
  <2> QED
    BY ONLY <2>2 DEF Narrowed
<1>9. \A k \in 1 .. p - 1 : \/ k < a /\ k \in 1 .. p /\ q[k] = list[k]
                            \/ k >= a /\ k + 1 \in 1 .. p /\ q[k] = list[k + 1]
  BY <1>1, <1>3, <1>8
<1>10. \A i, j \in 1 .. p - 1 : i < j => Less(s.node[q[i]].name, s.node[q[j]].name)
  <2> SUFFICES ASSUME NEW i \in 1 .. p - 1, NEW j \in 1 .. p - 1, i < j
               PROVE  Less(s.node[q[i]].name, s.node[q[j]].name)
    OBVIOUS
  <2>1. \E k, m \in 1 .. p : k < m /\ q[i] = list[k] /\ q[j] = list[m]
    <3>1. CASE i < a /\ j < a
      BY <1>9, <3>1
    <3>2. CASE i < a /\ j >= a
      <4>1. i \in 1 .. p /\ q[i] = list[i] /\ j + 1 \in 1 .. p /\ q[j] = list[j + 1] /\ i < j + 1
        BY <1>3, <1>9, <3>2
      <4> QED
        BY <4>1
    <3>3. CASE i >= a /\ j >= a
      <4>1. i + 1 \in 1 .. p /\ q[i] = list[i + 1] /\ j + 1 \in 1 .. p /\ q[j] = list[j + 1] /\ i + 1 < j + 1
        BY <1>3, <1>9, <3>3
      <4> QED
        BY <4>1
    <3> QED
      BY <1>3, <3>1, <3>2, <3>3
  <2> QED
    BY <1>2, <2>1
<1>11. \A i \in 1 .. p - 1 : ~IsPMark(s.node[q[i]].name[1])
  BY <1>2, <1>9
<1>12. \A i \in (p - 1) + 1 .. Len(q) : IsPMark(s.node[q[i]].name[1])
  <2> SUFFICES ASSUME NEW i \in (p - 1) + 1 .. Len(q)
               PROVE  IsPMark(s.node[q[i]].name[1])
    OBVIOUS
  <2>1. q[i] = list[i + 1] /\ i + 1 \in p + 1 .. Len(list)
    BY <1>1, <1>3, <1>8
  <2> QED
    BY <1>2, <2>1
<1>13. p - 1 \in 0 .. Len(q)
  BY <1>1, <1>3, <1>8
<1>14. Sorted(s, q, p - 1)
  BY <1>8, <1>10, <1>11, <1>12, <1>13 DEF Sorted
<1> QED
  BY <1>0, <1>6, <1>7, <1>14

-----------------------------------------------------------------------------
(* The ring.                                                               *)

Follower(r, i) == IF i = Len(r) THEN 1 ELSE i + 1

(***************************************************************************)
(* r goes once around, and every pointer of it has its inverse.            *)
(***************************************************************************)
Closed(s, r) ==
  /\ r \in Seq(DOMAIN s.node) /\ Len(r) >= 2
  /\ \A i, j \in 1 .. Len(r) : r[i] = r[j] => i = j
  /\ \A i \in 1 .. Len(r) : /\ s.node[r[i]].next = r[Follower(r, i)]
                            /\ s.node[r[Follower(r, i)]].previous = r[i]

Chain(s, r) == Closed(s, r) /\ s.start = r[1] /\ s.end = r[Len(r)]

Places(r) == {r[i] : i \in 1 .. Len(r)}

LEMMA DistinctFinite ==
  ASSUME NEW S, IsFiniteSet(S), NEW r \in Seq(S),
         \A i, j \in 1 .. Len(r) : r[i] = r[j] => i = j
  PROVE  Len(r) <= Cardinality(S)
<1>1. PICK f : f = [i \in 1 .. Len(r) |-> r[i]]
  OBVIOUS
<1>2. f \in Injection(1 .. Len(r), S)
  BY <1>1 DEF Injection, IsInjective
<1>3. Cardinality(1 .. Len(r)) <= Cardinality(S)
  BY ONLY <1>2, IsFiniteSet(S), FS_Injection
<1>4. Cardinality(1 .. Len(r)) = Len(r)
  <2>1. 1 \in Int /\ Len(r) \in Int /\ Len(r) \in Nat
    OBVIOUS
  <2>2. Cardinality(1 .. Len(r)) = IF 1 > Len(r) THEN 0 ELSE Len(r) - 1 + 1
    BY ONLY <2>1, FS_Interval
  <2> QED
    BY <2>1, <2>2
<1> QED
  BY <1>3, <1>4

LEMMA RingIs ==
  ASSUME NEW s, Shaped(s), NEW r, Chain(s, r)
  PROVE  Ring(s) = r /\ Nodes(s) = Places(r) /\ Last(r) = s.end
<1>1. /\ r \in Seq(DOMAIN s.node) /\ Len(r) >= 2 /\ Len(r) \in Nat
      /\ \A i, j \in 1 .. Len(r) : r[i] = r[j] => i = j
      /\ s.start = r[1] /\ s.end = r[Len(r)]
  BY DEF Chain, Closed
<1>2. \A i \in 1 .. Len(r) - 1 : r[i] # s.end /\ s.node[r[i]].next = r[i + 1]
  <2> SUFFICES ASSUME NEW i \in 1 .. Len(r) - 1
               PROVE  r[i] # s.end /\ s.node[r[i]].next = r[i + 1]
    OBVIOUS
  <2>1. i \in 1 .. Len(r) /\ Len(r) \in 1 .. Len(r) /\ i # Len(r)
    BY <1>1
  <2>2. s.node[r[i]].next = r[i + 1]
    BY <2>1 DEF Chain, Closed, Follower
  <2> QED
    BY <1>1, <2>1, <2>2
<1>3. Leads(s, r, s.start, s.end)
  BY <1>1, <1>2 DEF Leads
<1>4. IsFiniteSet(DOMAIN s.node)
  BY DEF Shaped
<1>5. Len(r) <= Cardinality(DOMAIN s.node) + 1
  <2>1. Len(r) <= Cardinality(DOMAIN s.node)
    BY ONLY <1>1, <1>4, DistinctFinite
  <2>2. Cardinality(DOMAIN s.node) \in Nat
    BY <1>4, FS_CardinalityType
  <2> QED
    BY <1>1, <2>1, <2>2
<1>6. Ring(s) = r
  BY <1>3, <1>4, <1>5, PathIs DEF Ring
<1>7. ToSet(r) = Places(r)
  BY <1>1 DEF ToSet, Places
<1> QED
  BY <1>1, <1>6, <1>7 DEF Nodes, Last

(***************************************************************************)
(* A ring is closed wherever it is said to start.                          *)
(***************************************************************************)
Turned(r, j) == [i \in 1 .. Len(r) |-> r[IF i + j - 1 <= Len(r) THEN i + j - 1 ELSE i + j - 1 - Len(r)]]

LEMMA TurnedIs ==
  ASSUME NEW s, NEW r, Closed(s, r), NEW j \in 1 .. Len(r)
  PROVE  /\ Closed(s, Turned(r, j)) /\ Len(Turned(r, j)) = Len(r)
         /\ Turned(r, j)[1] = r[j] /\ Places(Turned(r, j)) = Places(r)
<1>1. PICK q : q = Turned(r, j)
  OBVIOUS
<1>2. PICK n \in Nat : n = Len(r)
  BY DEF Closed
<1>3. /\ r \in Seq(DOMAIN s.node) /\ n >= 2 /\ j \in 1 .. n
      /\ \A i, k \in 1 .. n : r[i] = r[k] => i = k
      /\ \A i \in 1 .. n : r[i] \in DOMAIN s.node
  BY <1>2 DEF Closed
<1>4. \A i \in 1 .. n : /\ s.node[r[i]].next = r[IF i = n THEN 1 ELSE i + 1]
                        /\ s.node[r[IF i = n THEN 1 ELSE i + 1]].previous = r[i]
  BY <1>2 DEF Closed, Follower
<1> DEFINE at(i) == IF i + j - 1 <= n THEN i + j - 1 ELSE i + j - 1 - n
<1>5. q = [i \in 1 .. n |-> r[at(i)]]
  BY <1>1, <1>2 DEF Turned
<1>6. \A i \in 1 .. n : at(i) \in 1 .. n /\ at(IF i = n THEN 1 ELSE i + 1) = IF at(i) = n THEN 1 ELSE at(i) + 1
  BY <1>3
<1>7. \A i, k \in 1 .. n : at(i) = at(k) => i = k
  BY <1>3
<1>8. \A k \in 1 .. n : \E i \in 1 .. n : at(i) = k
  <2> SUFFICES ASSUME NEW k \in 1 .. n
               PROVE  \E i \in 1 .. n : at(i) = k
    OBVIOUS
  <2>1. CASE k >= j
    <3>1. k - j + 1 \in 1 .. n /\ at(k - j + 1) = k
      BY <1>3, <2>1
    <3> QED
      BY <3>1
  <2>2. CASE k < j
    <3>1. k - j + 1 + n \in 1 .. n /\ at(k - j + 1 + n) = k
      BY <1>3, <2>2
    <3> QED
      BY <3>1
  <2> QED
    BY <1>3, <2>1, <2>2
<1>a. at(1) = j
  BY <1>3
<1> HIDE DEF at
<1>9. \A i \in 1 .. n : q[i] = r[at(i)] /\ q[i] \in DOMAIN s.node
  BY <1>3, <1>5, <1>6
<1>10. q \in Seq(DOMAIN s.node) /\ Len(q) = n
  <2>1. q \in [1 .. n -> DOMAIN s.node]
    BY <1>5, <1>9
  <2> QED
    BY <2>1
<1>11. \A i, k \in 1 .. n : q[i] = q[k] => i = k
  <2> SUFFICES ASSUME NEW i \in 1 .. n, NEW k \in 1 .. n, q[i] = q[k]
               PROVE  i = k
    OBVIOUS
  <2>1. PICK x \in 1 .. n : x = at(i)
    BY <1>6
  <2>2. PICK y \in 1 .. n : y = at(k)
    BY <1>6
  <2>3. r[x] = r[y]
    BY <1>9, <2>1, <2>2
  <2>4. x = y
    BY ONLY <1>3, <2>3, x \in 1 .. n, y \in 1 .. n
  <2> QED
    BY <1>7, <2>1, <2>2, <2>4
<1>12. \A i \in 1 .. n : /\ s.node[q[i]].next = q[IF i = n THEN 1 ELSE i + 1]
                         /\ s.node[q[IF i = n THEN 1 ELSE i + 1]].previous = q[i]
  <2> SUFFICES ASSUME NEW i \in 1 .. n
               PROVE  /\ s.node[q[i]].next = q[IF i = n THEN 1 ELSE i + 1]
                      /\ s.node[q[IF i = n THEN 1 ELSE i + 1]].previous = q[i]
    OBVIOUS
  <2>1. PICK m \in 1 .. n : m = IF i = n THEN 1 ELSE i + 1
    BY <1>3
  <2>2. at(i) \in 1 .. n /\ at(m) = IF at(i) = n THEN 1 ELSE at(i) + 1
    BY <1>6, <2>1
  <2>3. PICK x \in 1 .. n : x = at(i)
    BY <2>2
  <2>4. q[i] = r[x] /\ q[m] = r[IF x = n THEN 1 ELSE x + 1]
    BY <1>9, <2>2, <2>3
  <2>5. /\ s.node[r[x]].next = r[IF x = n THEN 1 ELSE x + 1]
        /\ s.node[r[IF x = n THEN 1 ELSE x + 1]].previous = r[x]
    BY <1>4
  <2>6. s.node[q[i]].next = q[m] /\ s.node[q[m]].previous = q[i]
    BY ONLY <2>4, <2>5
  <2> QED
    BY ONLY <2>1, <2>6
<1>13. Closed(s, q)
  BY <1>3, <1>10, <1>11, <1>12 DEF Closed, Follower
<1>14. Places(q) = Places(r)
  <2>1. \A i \in 1 .. n : q[i] \in Places(r)
    BY <1>2, <1>6, <1>9 DEF Places
  <2>2. \A k \in 1 .. n : r[k] \in Places(q)
    <3> SUFFICES ASSUME NEW k \in 1 .. n
                 PROVE  r[k] \in Places(q)
      OBVIOUS
    <3>1. PICK i \in 1 .. n : at(i) = k
      BY <1>8
    <3> QED
      BY <1>9, <1>10, <3>1 DEF Places
  <2> QED
    BY <1>2, <1>10, <2>1, <2>2 DEF Places
<1>15. q[1] = r[j]
  BY <1>3, <1>9, <1>a
<1> QED
  BY <1>1, <1>2, <1>10, <1>13, <1>14, <1>15
-----------------------------------------------------------------------------
(* Setting a pointer.                                                      *)

(***************************************************************************)
(* Nodes keep their elements, names and places; all but them is as it was. *)
(***************************************************************************)
Alike(s, u) ==
  /\ u.nodes = s.nodes /\ u.start = s.start /\ u.end = s.end
  /\ u.ref_flag = s.ref_flag /\ u.occ_list = s.occ_list /\ u.ranges = s.ranges
  /\ DOMAIN u.node = DOMAIN s.node
  /\ \A m \in DOMAIN s.node :
       /\ u.node[m].name = s.node[m].name /\ u.node[m].elem = s.node[m].elem
       /\ u.node[m].from_name = s.node[m].from_name
       /\ u.node[m].position = s.node[m].position
       /\ u.node[m].at_value = s.node[m].at_value

LEMMA AlikeTwice ==
  ASSUME NEW s, NEW t, NEW u, Alike(s, t), Alike(t, u)
  PROVE  Alike(s, u)
  BY DEF Alike

LEMMA NextSet ==
  ASSUME NEW s, Shaped(s), NEW x \in DOMAIN s.node, NEW y \in Address,
         NEW t, t = [s EXCEPT !.node[x].next = y]
  PROVE  /\ Shaped(t) /\ Alike(s, t) /\ t.node[x].next = y
         /\ \A m \in DOMAIN s.node : m # x => t.node[m].next = s.node[m].next
         /\ \A m \in DOMAIN s.node : t.node[m].previous = s.node[m].previous
<1>1. PICK N \in SUBSET Address : s.node \in [N -> NodeRecord] /\ N = DOMAIN s.node
  BY NodeIs
<1>2. s \in [node : Heap, nodes : Seq(Address), start : Address, end : Address,
            ref_flag : Int, occ_list : [Known -> Nat], ranges : {s.ranges}]
  BY DEF Shaped
<1>3. t = [s EXCEPT !.node = [s.node EXCEPT ![x] = [s.node[x] EXCEPT !.next = y]]]
  BY <1>2
<1>4. PICK f : f = [s.node EXCEPT ![x] = [s.node[x] EXCEPT !.next = y]]
  OBVIOUS
<1>5. f \in [N -> NodeRecord]
  BY <1>1, <1>4 DEF NodeRecord
<1>6. \A m \in N : f[m] = IF m = x THEN [s.node[x] EXCEPT !.next = y] ELSE s.node[m]
  BY <1>1, <1>4
<1>7. t = [s EXCEPT !.node = f]
  BY <1>3, <1>4
<1>8. t.node = f /\ t.nodes = s.nodes /\ t.start = s.start /\ t.end = s.end
      /\ t.ref_flag = s.ref_flag /\ t.occ_list = s.occ_list /\ t.ranges = s.ranges
  BY <1>2, <1>7
<1>9. f \in Heap
  BY <1>1, <1>5 DEF Heap
<1>10. Shaped(t)
  <2>1. t \in [node : Heap, nodes : Seq(Address), start : Address, end : Address,
               ref_flag : Int, occ_list : [Known -> Nat], ranges : {t.ranges}]
    BY <1>2, <1>7, <1>8, <1>9
  <2>2. IsFiniteSet(DOMAIN t.node)
    BY <1>1, <1>5, <1>8 DEF Shaped
  <2> QED
    BY <2>1, <2>2 DEF Shaped
<1>11. s.node[x] \in NodeRecord
  BY <1>1
<1>12. \A m \in N :
         /\ f[m].name = s.node[m].name /\ f[m].elem = s.node[m].elem
         /\ f[m].from_name = s.node[m].from_name
         /\ f[m].position = s.node[m].position
         /\ f[m].at_value = s.node[m].at_value
         /\ f[m].previous = s.node[m].previous
         /\ f[m].next = IF m = x THEN y ELSE s.node[m].next
  BY <1>6, <1>11 DEF NodeRecord
<1>13. DOMAIN f = N /\ x \in N
  BY <1>1, <1>5
<1> QED
  BY <1>1, <1>8, <1>10, <1>12, <1>13 DEF Alike

LEMMA PreviousSet ==
  ASSUME NEW s, Shaped(s), NEW x \in DOMAIN s.node, NEW y \in Address,
         NEW t, t = [s EXCEPT !.node[x].previous = y]
  PROVE  /\ Shaped(t) /\ Alike(s, t) /\ t.node[x].previous = y
         /\ \A m \in DOMAIN s.node : m # x => t.node[m].previous = s.node[m].previous
         /\ \A m \in DOMAIN s.node : t.node[m].next = s.node[m].next
<1>1. PICK N \in SUBSET Address : s.node \in [N -> NodeRecord] /\ N = DOMAIN s.node
  BY NodeIs
<1>2. s \in [node : Heap, nodes : Seq(Address), start : Address, end : Address,
            ref_flag : Int, occ_list : [Known -> Nat], ranges : {s.ranges}]
  BY DEF Shaped
<1>3. t = [s EXCEPT !.node = [s.node EXCEPT ![x] = [s.node[x] EXCEPT !.previous = y]]]
  BY <1>2
<1>4. PICK f : f = [s.node EXCEPT ![x] = [s.node[x] EXCEPT !.previous = y]]
  OBVIOUS
<1>5. f \in [N -> NodeRecord]
  BY <1>1, <1>4 DEF NodeRecord
<1>6. \A m \in N : f[m] = IF m = x THEN [s.node[x] EXCEPT !.previous = y] ELSE s.node[m]
  BY <1>1, <1>4
<1>7. t = [s EXCEPT !.node = f]
  BY <1>3, <1>4
<1>8. t.node = f /\ t.nodes = s.nodes /\ t.start = s.start /\ t.end = s.end
      /\ t.ref_flag = s.ref_flag /\ t.occ_list = s.occ_list /\ t.ranges = s.ranges
  BY <1>2, <1>7
<1>9. f \in Heap
  BY <1>1, <1>5 DEF Heap
<1>10. Shaped(t)
  <2>1. t \in [node : Heap, nodes : Seq(Address), start : Address, end : Address,
               ref_flag : Int, occ_list : [Known -> Nat], ranges : {t.ranges}]
    BY <1>2, <1>7, <1>8, <1>9
  <2>2. IsFiniteSet(DOMAIN t.node)
    BY <1>1, <1>5, <1>8 DEF Shaped
  <2> QED
    BY <2>1, <2>2 DEF Shaped
<1>11. s.node[x] \in NodeRecord
  BY <1>1
<1>12. \A m \in N :
         /\ f[m].name = s.node[m].name /\ f[m].elem = s.node[m].elem
         /\ f[m].from_name = s.node[m].from_name
         /\ f[m].position = s.node[m].position
         /\ f[m].at_value = s.node[m].at_value
         /\ f[m].next = s.node[m].next
         /\ f[m].previous = IF m = x THEN y ELSE s.node[m].previous
  BY <1>6, <1>11 DEF NodeRecord
<1>13. DOMAIN f = N /\ x \in N
  BY <1>1, <1>5
<1> QED
  BY <1>1, <1>8, <1>10, <1>12, <1>13 DEF Alike

(***************************************************************************)
(* link_in_front: the ring has n before one of its nodes; before the first *)
(* is behind the last.                                                     *)
(***************************************************************************)
LEMMA LinkedIs ==
  ASSUME NEW s, Shaped(s), NEW r, Closed(s, r), NEW n \in DOMAIN s.node, n \notin Places(r),
         NEW j \in 2 .. Len(r) + 1, NEW c, c = r[IF j <= Len(r) THEN j ELSE 1]
  PROVE  /\ Shaped(Linked(s, n, c)) /\ Alike(s, Linked(s, n, c))
         /\ Closed(Linked(s, n, c), InsertAt(r, j, n))
<1>1. PICK k \in Nat : k = Len(r)
  BY DEF Closed
<1>2. /\ r \in Seq(DOMAIN s.node) /\ k >= 2 /\ j \in 2 .. k + 1
      /\ \A i, m \in 1 .. k : r[i] = r[m] => i = m
      /\ \A i \in 1 .. k : r[i] \in DOMAIN s.node /\ r[i] # n
  BY <1>1 DEF Closed, Places
<1>3. \A i \in 1 .. k : /\ s.node[r[i]].next = r[IF i = k THEN 1 ELSE i + 1]
                        /\ s.node[r[IF i = k THEN 1 ELSE i + 1]].previous = r[i]
  BY <1>1 DEF Closed, Follower
<1>4. PICK p : p = r[j - 1]
  OBVIOUS
<1>5. j - 1 \in 1 .. k /\ c = r[IF j - 1 = k THEN 1 ELSE (j - 1) + 1] /\ c \in DOMAIN s.node /\ c # n
  BY <1>1, <1>2
<1>6. s.node[c].previous = p /\ p \in DOMAIN s.node /\ p # n
  BY <1>2, <1>3, <1>4, <1>5
<1>7. DOMAIN s.node \subseteq Address
  BY NodeIs
<1>8. PICK a : a = [s EXCEPT !.node[p].next = n]
  OBVIOUS
<1>9. PICK b : b = [a EXCEPT !.node[n].previous = p]
  OBVIOUS
<1>10. PICK d : d = [b EXCEPT !.node[n].next = c]
  OBVIOUS
<1>11. PICK u : u = [d EXCEPT !.node[c].previous = n]
  OBVIOUS
<1>12. Linked(s, n, c) = u
  BY <1>6, <1>8, <1>9, <1>10, <1>11 DEF Linked
<1>13. /\ Shaped(a) /\ Alike(s, a) /\ a.node[p].next = n
       /\ \A m \in DOMAIN s.node : m # p => a.node[m].next = s.node[m].next
       /\ \A m \in DOMAIN s.node : a.node[m].previous = s.node[m].previous
  <2>1. n \in Address
    BY <1>7
  <2> QED
    BY ONLY Shaped(s), <1>6, <1>8, <2>1, NextSet
<1>14. DOMAIN a.node = DOMAIN s.node
  BY <1>13 DEF Alike
<1>15. /\ Shaped(b) /\ Alike(a, b) /\ b.node[n].previous = p
       /\ \A m \in DOMAIN a.node : m # n => b.node[m].previous = a.node[m].previous
       /\ \A m \in DOMAIN a.node : b.node[m].next = a.node[m].next
  <2>1. p \in Address /\ n \in DOMAIN a.node
    BY <1>6, <1>7, <1>14
  <2>2. Shaped(a)
    BY <1>13
  <2> QED
    BY ONLY <1>9, <2>1, <2>2, PreviousSet
<1>16. DOMAIN b.node = DOMAIN s.node
  BY <1>14, <1>15 DEF Alike
<1>17. /\ Shaped(d) /\ Alike(b, d) /\ d.node[n].next = c
       /\ \A m \in DOMAIN b.node : m # n => d.node[m].next = b.node[m].next
       /\ \A m \in DOMAIN b.node : d.node[m].previous = b.node[m].previous
  <2>1. c \in Address /\ n \in DOMAIN b.node
    BY <1>5, <1>7, <1>16
  <2>2. Shaped(b)
    BY <1>15
  <2> QED
    BY ONLY <1>10, <2>1, <2>2, NextSet
<1>18. DOMAIN d.node = DOMAIN s.node
  BY <1>16, <1>17 DEF Alike
<1>19. /\ Shaped(u) /\ Alike(d, u) /\ u.node[c].previous = n
       /\ \A m \in DOMAIN d.node : m # c => u.node[m].previous = d.node[m].previous
       /\ \A m \in DOMAIN d.node : u.node[m].next = d.node[m].next
  <2>1. n \in Address /\ c \in DOMAIN d.node
    BY <1>5, <1>7, <1>18
  <2>2. Shaped(d)
    BY <1>17
  <2> QED
    BY ONLY <1>11, <2>1, <2>2, PreviousSet
<1>20. Alike(s, u)
  <2>1. Alike(s, b)
    BY <1>13, <1>15, AlikeTwice
  <2>2. Alike(s, d)
    BY <1>17, <2>1, AlikeTwice
  <2> QED
    BY <1>19, <2>2, AlikeTwice
<1>21. \A m \in DOMAIN s.node :
          /\ u.node[m].next = IF m = n THEN c ELSE IF m = p THEN n ELSE s.node[m].next
          /\ u.node[m].previous = IF m = c THEN n ELSE IF m = n THEN p ELSE s.node[m].previous
  BY <1>5, <1>6, <1>13, <1>14, <1>15, <1>16, <1>17, <1>18, <1>19
<1>22. PICK q : q = InsertAt(r, j, n)
  OBVIOUS
<1>23. /\ q \in Seq(DOMAIN s.node) /\ Len(q) = k + 1
       /\ \A i \in 1 .. k + 1 : q[i] = IF i < j THEN r[i] ELSE IF i = j THEN n ELSE r[i - 1]
  <2>1. j \in 1 .. Len(r) + 1
    BY <1>1, <1>2
  <2>2. PICK X : X = DOMAIN s.node
    OBVIOUS
  <2>3. r \in Seq(X) /\ n \in X
    BY <1>2, <2>2
  <2>4. /\ q \in Seq(X) /\ Len(q) = Len(r) + 1
        /\ \A i \in 1 .. Len(r) + 1 : q[i] = IF i < j THEN r[i] ELSE IF i = j THEN n ELSE r[i - 1]
    <3>1. q \in Seq(X) /\ Widened(q, r, j, n)
      BY <1>22, <2>1, <2>3, WidenedIs
    <3> QED
      BY <3>1 DEF Widened
  <2> QED
    BY <1>1, <2>2, <2>4
<1>24. \A i \in 1 .. k + 1 : \/ i < j /\ i \in 1 .. k /\ q[i] = r[i]
                             \/ i = j /\ q[i] = n
                             \/ i > j /\ i - 1 \in 1 .. k /\ q[i] = r[i - 1]
  BY <1>2, <1>23
<1>25. \A i, m \in 1 .. k + 1 : q[i] = q[m] => i = m
  <2> SUFFICES ASSUME NEW i \in 1 .. k + 1, NEW m \in 1 .. k + 1, q[i] = q[m]
               PROVE  i = m
    OBVIOUS
  <2>1. i = j <=> q[i] = n
    BY <1>2, <1>24
  <2>2. m = j <=> q[m] = n
    BY <1>2, <1>24
  <2>3. CASE i = j
    BY <2>1, <2>2, <2>3
  <2>4. CASE i # j /\ m # j
    <3>1. PICK x \in 1 .. k : q[i] = r[x] /\ x = IF i < j THEN i ELSE i - 1
      BY <1>2, <1>24, <2>4
    <3>2. PICK y \in 1 .. k : q[m] = r[y] /\ y = IF m < j THEN m ELSE m - 1
      BY <1>2, <1>24, <2>4
    <3>3. x = y
      BY <1>2, <3>1, <3>2
    <3> QED
      BY <1>2, <2>4, <3>1, <3>2, <3>3
  <2> QED
    BY <2>1, <2>2, <2>3, <2>4
<1>26. ASSUME NEW i \in 1 .. k + 1, NEW m, m = IF i = k + 1 THEN 1 ELSE i + 1
       PROVE  u.node[q[i]].next = q[m] /\ u.node[q[m]].previous = q[i]
  <2>0. m \in 1 .. k + 1 /\ q[i] \in DOMAIN s.node /\ q[m] \in DOMAIN s.node
    BY <1>2, <1>23, <1>26
  <2>1. CASE i < j - 1
    <3>1. i \in 1 .. k /\ m = i + 1 /\ i # k /\ q[i] = r[i] /\ q[m] = r[i + 1] /\ i + 1 \in 1 .. k
      BY <1>2, <1>23, <1>26, <2>1
    <3>2. r[i] # p /\ r[i] # n
      BY <1>2, <1>4, <1>5, <2>1, <3>1
    <3>3. r[i + 1] # c /\ r[i + 1] # n
      BY <1>2, <1>5, <2>1, <3>1
    <3>4. s.node[r[i]].next = r[i + 1] /\ s.node[r[i + 1]].previous = r[i]
      BY <1>3, <3>1
    <3> QED
      BY <1>21, <2>0, <3>1, <3>2, <3>3, <3>4
  <2>2. CASE i = j - 1
    <3>1. m = j /\ q[i] = p /\ q[m] = n
      BY <1>2, <1>4, <1>23, <1>26, <2>2
    <3> QED
      BY <1>5, <1>6, <1>21, <2>0, <3>1
  <2>3. CASE i = j
    <3>1. q[i] = n /\ q[m] = c
      BY <1>1, <1>2, <1>23, <1>26, <2>3
    <3> QED
      BY <1>21, <2>0, <3>1
  <2>4. CASE i > j
    <3>1. PICK x \in 1 .. k : x = i - 1
      BY <1>2, <2>4
    <3>2. q[i] = r[x]
      BY <1>24, <2>4, <3>1
    <3>3. q[m] = r[IF x = k THEN 1 ELSE x + 1]
      <4>1. CASE i = k + 1
        BY <1>2, <1>23, <1>26, <3>1, <4>1
      <4>2. CASE i # k + 1
        <5>1. m = i + 1 /\ m > j /\ m - 1 = x + 1 /\ x # k
          BY <1>26, <2>4, <3>1, <4>2
        <5> QED
          BY <1>24, <2>0, <5>1
      <4> QED
        BY <4>1, <4>2
    <3>4. PICK y \in 1 .. k : y = IF x = k THEN 1 ELSE x + 1
      BY <1>2
    <3>5. r[x] # p /\ r[x] # n
      BY <1>2, <1>4, <1>5, <2>4, <3>1
    <3>6. r[y] # c /\ r[y] # n
      <4>1. PICK z \in 1 .. k : z = IF j - 1 = k THEN 1 ELSE (j - 1) + 1
        BY <1>2
      <4>2. c = r[z]
        BY <1>5, <4>1
      <4>3. y # z
        BY <1>2, <2>4, <3>1, <3>4, <4>1
      <4> QED
        BY <1>2, <4>2, <4>3
    <3>7. s.node[r[x]].next = r[y] /\ s.node[r[y]].previous = r[x]
      BY <1>3, <3>4
    <3> QED
      BY SMTT(40), <1>21, <2>0, <3>2, <3>3, <3>4, <3>5, <3>6, <3>7
  <2> QED
    BY <1>2, <2>1, <2>2, <2>3, <2>4
<1>27. Closed(u, q)
  <2>1. q \in Seq(DOMAIN u.node) /\ Len(q) >= 2
    BY <1>2, <1>20, <1>23 DEF Alike
  <2>2. \A i \in 1 .. Len(q) : /\ u.node[q[i]].next = q[Follower(q, i)]
                               /\ u.node[q[Follower(q, i)]].previous = q[i]
    BY SMTT(40), <1>23, <1>26 DEF Follower
  <2> QED
    BY <1>23, <1>25, <2>1, <2>2 DEF Closed
<1> QED
  BY <1>12, <1>19, <1>20, <1>22, <1>27

(***************************************************************************)
(* remove_one leaves the ring closed; the node itself still points into it. *)
(***************************************************************************)
LEMMA UnlinkedIs ==
  ASSUME NEW s, Shaped(s), NEW r, Closed(s, r), NEW j \in 2 .. Len(r) - 1, NEW n, n = r[j]
  PROVE  /\ Shaped(Unlinked(s, n)) /\ Alike(s, Unlinked(s, n))
         /\ Closed(Unlinked(s, n), RemoveAt(r, j))
<1>1. PICK k \in Nat : k = Len(r)
  BY DEF Closed
<1>2. /\ r \in Seq(DOMAIN s.node) /\ k >= 3 /\ j \in 2 .. k - 1
      /\ \A i, m \in 1 .. k : r[i] = r[m] => i = m
      /\ \A i \in 1 .. k : r[i] \in DOMAIN s.node
  BY <1>1 DEF Closed
<1>3. \A i \in 1 .. k : /\ s.node[r[i]].next = r[IF i = k THEN 1 ELSE i + 1]
                        /\ s.node[r[IF i = k THEN 1 ELSE i + 1]].previous = r[i]
  BY <1>1 DEF Closed, Follower
<1>4. PICK p, c : p = r[j - 1] /\ c = r[j + 1]
  OBVIOUS
<1>5. j - 1 \in 1 .. k /\ j + 1 \in 1 .. k /\ j \in 1 .. k /\ j - 1 # k /\ j # k /\ (j - 1) + 1 = j
  BY <1>2
<1>6. s.node[n].previous = p /\ s.node[n].next = c
  BY <1>3, <1>4, <1>5
<1>7. /\ p \in DOMAIN s.node /\ c \in DOMAIN s.node /\ n \in DOMAIN s.node
      /\ p # n /\ c # n /\ p # c
  BY <1>2, <1>4, <1>5
<1>8. DOMAIN s.node \subseteq Address
  BY NodeIs
<1>9. PICK t : t = [s EXCEPT !.node[p].next = c]
  OBVIOUS
<1>10. /\ Shaped(t) /\ Alike(s, t) /\ t.node[p].next = c
       /\ \A m \in DOMAIN s.node : m # p => t.node[m].next = s.node[m].next
       /\ \A m \in DOMAIN s.node : t.node[m].previous = s.node[m].previous
  <2>1. c \in Address
    BY <1>7, <1>8
  <2> QED
    BY ONLY Shaped(s), <1>7, <1>9, <2>1, NextSet
<1>11. DOMAIN t.node = DOMAIN s.node
  BY <1>10 DEF Alike
<1>12. t.node[n].next = c /\ t.node[n].previous = p
  BY <1>6, <1>7, <1>10
<1>13. PICK u : u = [t EXCEPT !.node[c].previous = p]
  OBVIOUS
<1>14. Unlinked(s, n) = u
  BY <1>6, <1>9, <1>12, <1>13 DEF Unlinked
<1>15. /\ Shaped(u) /\ Alike(t, u) /\ u.node[c].previous = p
       /\ \A m \in DOMAIN t.node : m # c => u.node[m].previous = t.node[m].previous
       /\ \A m \in DOMAIN t.node : u.node[m].next = t.node[m].next
  <2>1. p \in Address /\ c \in DOMAIN t.node
    BY <1>7, <1>8, <1>11
  <2>2. Shaped(t)
    BY <1>10
  <2> QED
    BY ONLY <1>13, <2>1, <2>2, PreviousSet
<1>16. Alike(s, u)
  BY <1>10, <1>15, AlikeTwice
<1>17. \A m \in DOMAIN s.node :
          /\ u.node[m].next = IF m = p THEN c ELSE s.node[m].next
          /\ u.node[m].previous = IF m = c THEN p ELSE s.node[m].previous
  BY <1>7, <1>10, <1>11, <1>15
<1>18. PICK q : q = RemoveAt(r, j)
  OBVIOUS
<1>19. /\ q \in Seq(DOMAIN s.node) /\ Len(q) = k - 1
       /\ \A i \in 1 .. k - 1 : q[i] = IF i < j THEN r[i] ELSE r[i + 1]
  <2>1. j \in 1 .. Len(r)
    BY <1>1, <1>2
  <2>2. PICK X : X = DOMAIN s.node
    OBVIOUS
  <2>3. r \in Seq(X)
    BY <1>2, <2>2
  <2>4. q \in Seq(X) /\ Narrowed(q, r, j)
    BY <1>18, <2>1, <2>3, NarrowedIs
  <2> QED
    BY <1>1, <2>2, <2>4 DEF Narrowed
<1>20. \A i \in 1 .. k - 1 : \/ i < j /\ i \in 1 .. k /\ q[i] = r[i]
                             \/ i >= j /\ i + 1 \in 1 .. k /\ q[i] = r[i + 1]
  BY <1>2, <1>19
<1>21. \A i, m \in 1 .. k - 1 : q[i] = q[m] => i = m
  <2> SUFFICES ASSUME NEW i \in 1 .. k - 1, NEW m \in 1 .. k - 1, q[i] = q[m]
               PROVE  i = m
    OBVIOUS
  <2>1. PICK x \in 1 .. k : q[i] = r[x] /\ x = IF i < j THEN i ELSE i + 1
    BY <1>2, <1>20
  <2>2. PICK y \in 1 .. k : q[m] = r[y] /\ y = IF m < j THEN m ELSE m + 1
    BY <1>2, <1>20
  <2>3. x = y
    BY <1>2, <2>1, <2>2
  <2> QED
    BY <1>2, <2>1, <2>2, <2>3
<1>22. ASSUME NEW i \in 1 .. k - 1, NEW m, m = IF i = k - 1 THEN 1 ELSE i + 1
       PROVE  u.node[q[i]].next = q[m] /\ u.node[q[m]].previous = q[i]
  <2>0. m \in 1 .. k - 1 /\ q[i] \in DOMAIN s.node /\ q[m] \in DOMAIN s.node
    BY <1>2, <1>19, <1>22
  <2>1. CASE i = j - 1
    <3>1. q[i] = p /\ q[m] = c
      BY <1>2, <1>4, <1>19, <1>22, <2>1
    <3> QED
      BY <1>17, <2>0, <3>1
  <2>2. CASE i # j - 1
    <3>1. PICK x \in 1 .. k : q[i] = r[x] /\ x = IF i < j THEN i ELSE i + 1
      BY <1>2, <1>20
    <3>2. PICK y \in 1 .. k : q[m] = r[y] /\ y = IF m < j THEN m ELSE m + 1
      BY <1>2, <1>20, <2>0
    <3>3. y = IF x = k THEN 1 ELSE x + 1
      BY <1>2, <1>22, <2>2, <3>1, <3>2
    <3>4. r[x] # p /\ r[y] # c
      <4>1. x # j - 1 /\ y # j + 1
        BY <1>2, <2>2, <3>1, <3>3
      <4> QED
        BY <1>2, <1>4, <1>5, <4>1
    <3>5. s.node[r[x]].next = r[y] /\ s.node[r[y]].previous = r[x]
      BY <1>3, <3>3
    <3> QED
      BY <1>17, <2>0, <3>1, <3>2, <3>4, <3>5
  <2> QED
    BY <2>1, <2>2
<1>23. Closed(u, q)
  <2>1. q \in Seq(DOMAIN u.node) /\ Len(q) >= 2
    BY <1>2, <1>16, <1>19 DEF Alike
  <2>2. \A i \in 1 .. Len(q) : /\ u.node[q[i]].next = q[Follower(q, i)]
                               /\ u.node[q[Follower(q, i)]].previous = q[i]
    BY <1>19, <1>22 DEF Follower
  <2> QED
    BY <1>19, <1>21, <2>1, <2>2 DEF Closed
<1> QED
  BY <1>14, <1>15, <1>16, <1>18, <1>23

-----------------------------------------------------------------------------
(* Setting one field of the sequence.                                      *)

LEMMA NodesSet ==
  ASSUME NEW s, Shaped(s), NEW N \in SUBSET Address, IsFiniteSet(N), NEW x \in [N -> NodeRecord],
         NEW t, t = [s EXCEPT !.node = x]
  PROVE  /\ Shaped(t) /\ t.node = x
         /\ t.nodes = s.nodes /\ t.start = s.start /\ t.end = s.end
         /\ t.ref_flag = s.ref_flag /\ t.occ_list = s.occ_list /\ t.ranges = s.ranges
<1>1. s \in [node : Heap, nodes : Seq(Address), start : Address, end : Address,
            ref_flag : Int, occ_list : [Known -> Nat], ranges : {s.ranges}]
  BY DEF Shaped
<1>2. x \in Heap /\ DOMAIN x = N
  BY DEF Heap
<1>3. /\ t.node = x
      /\ t.nodes = s.nodes /\ t.start = s.start /\ t.end = s.end
      /\ t.ref_flag = s.ref_flag /\ t.occ_list = s.occ_list /\ t.ranges = s.ranges
  BY <1>1
<1>4. t \in [node : Heap, nodes : Seq(Address), start : Address, end : Address,
            ref_flag : Int, occ_list : [Known -> Nat], ranges : {t.ranges}]
  BY <1>1, <1>2, <1>3
<1> QED
  BY <1>2, <1>3, <1>4 DEF Shaped

LEMMA ListSet ==
  ASSUME NEW s, Shaped(s), NEW x \in Seq(Address), NEW t, t = [s EXCEPT !.nodes = x]
  PROVE  /\ Shaped(t) /\ t.nodes = x
         /\ t.node = s.node /\ t.start = s.start /\ t.end = s.end
         /\ t.ref_flag = s.ref_flag /\ t.occ_list = s.occ_list /\ t.ranges = s.ranges
<1>1. s \in [node : Heap, nodes : Seq(Address), start : Address, end : Address,
            ref_flag : Int, occ_list : [Known -> Nat], ranges : {s.ranges}]
  BY DEF Shaped
<1>2. IsFiniteSet(DOMAIN s.node)
  BY DEF Shaped
<1>3. /\ t.nodes = x
      /\ t.node = s.node /\ t.start = s.start /\ t.end = s.end
      /\ t.ref_flag = s.ref_flag /\ t.occ_list = s.occ_list /\ t.ranges = s.ranges
  BY <1>1
<1>4. t \in [node : Heap, nodes : Seq(Address), start : Address, end : Address,
            ref_flag : Int, occ_list : [Known -> Nat], ranges : {t.ranges}]
  BY <1>1, <1>3
<1> QED
  BY <1>2, <1>3, <1>4 DEF Shaped

LEMMA StartSet ==
  ASSUME NEW s, Shaped(s), NEW x \in Address, NEW t, t = [s EXCEPT !.start = x]
  PROVE  /\ Shaped(t) /\ t.start = x
         /\ t.node = s.node /\ t.nodes = s.nodes /\ t.end = s.end
         /\ t.ref_flag = s.ref_flag /\ t.occ_list = s.occ_list /\ t.ranges = s.ranges
<1>1. s \in [node : Heap, nodes : Seq(Address), start : Address, end : Address,
            ref_flag : Int, occ_list : [Known -> Nat], ranges : {s.ranges}]
  BY DEF Shaped
<1>2. IsFiniteSet(DOMAIN s.node)
  BY DEF Shaped
<1>3. /\ t.start = x
      /\ t.node = s.node /\ t.nodes = s.nodes /\ t.end = s.end
      /\ t.ref_flag = s.ref_flag /\ t.occ_list = s.occ_list /\ t.ranges = s.ranges
  BY <1>1
<1>4. t \in [node : Heap, nodes : Seq(Address), start : Address, end : Address,
            ref_flag : Int, occ_list : [Known -> Nat], ranges : {t.ranges}]
  BY <1>1, <1>3
<1> QED
  BY <1>2, <1>3, <1>4 DEF Shaped

LEMMA EndSet ==
  ASSUME NEW s, Shaped(s), NEW x \in Address, NEW t, t = [s EXCEPT !.end = x]
  PROVE  /\ Shaped(t) /\ t.end = x
         /\ t.node = s.node /\ t.nodes = s.nodes /\ t.start = s.start
         /\ t.ref_flag = s.ref_flag /\ t.occ_list = s.occ_list /\ t.ranges = s.ranges
<1>1. s \in [node : Heap, nodes : Seq(Address), start : Address, end : Address,
            ref_flag : Int, occ_list : [Known -> Nat], ranges : {s.ranges}]
  BY DEF Shaped
<1>2. IsFiniteSet(DOMAIN s.node)
  BY DEF Shaped
<1>3. /\ t.end = x
      /\ t.node = s.node /\ t.nodes = s.nodes /\ t.start = s.start
      /\ t.ref_flag = s.ref_flag /\ t.occ_list = s.occ_list /\ t.ranges = s.ranges
  BY <1>1
<1>4. t \in [node : Heap, nodes : Seq(Address), start : Address, end : Address,
            ref_flag : Int, occ_list : [Known -> Nat], ranges : {t.ranges}]
  BY <1>1, <1>3
<1> QED
  BY <1>2, <1>3, <1>4 DEF Shaped

LEMMA FlagSet ==
  ASSUME NEW s, Shaped(s), NEW x \in Int, NEW t, t = [s EXCEPT !.ref_flag = x]
  PROVE  /\ Shaped(t) /\ t.ref_flag = x
         /\ t.node = s.node /\ t.nodes = s.nodes /\ t.start = s.start
         /\ t.end = s.end /\ t.occ_list = s.occ_list /\ t.ranges = s.ranges
<1>1. s \in [node : Heap, nodes : Seq(Address), start : Address, end : Address,
            ref_flag : Int, occ_list : [Known -> Nat], ranges : {s.ranges}]
  BY DEF Shaped
<1>2. IsFiniteSet(DOMAIN s.node)
  BY DEF Shaped
<1>3. /\ t.ref_flag = x
      /\ t.node = s.node /\ t.nodes = s.nodes /\ t.start = s.start
      /\ t.end = s.end /\ t.occ_list = s.occ_list /\ t.ranges = s.ranges
  BY <1>1
<1>4. t \in [node : Heap, nodes : Seq(Address), start : Address, end : Address,
            ref_flag : Int, occ_list : [Known -> Nat], ranges : {t.ranges}]
  BY <1>1, <1>3
<1> QED
  BY <1>2, <1>3, <1>4 DEF Shaped

LEMMA CountsSet ==
  ASSUME NEW s, Shaped(s), NEW x \in [Known -> Nat], NEW t, t = [s EXCEPT !.occ_list = x]
  PROVE  /\ Shaped(t) /\ t.occ_list = x
         /\ t.node = s.node /\ t.nodes = s.nodes /\ t.start = s.start
         /\ t.end = s.end /\ t.ref_flag = s.ref_flag /\ t.ranges = s.ranges
<1>1. s \in [node : Heap, nodes : Seq(Address), start : Address, end : Address,
            ref_flag : Int, occ_list : [Known -> Nat], ranges : {s.ranges}]
  BY DEF Shaped
<1>2. IsFiniteSet(DOMAIN s.node)
  BY DEF Shaped
<1>3. /\ t.occ_list = x
      /\ t.node = s.node /\ t.nodes = s.nodes /\ t.start = s.start
      /\ t.end = s.end /\ t.ref_flag = s.ref_flag /\ t.ranges = s.ranges
  BY <1>1
<1>4. t \in [node : Heap, nodes : Seq(Address), start : Address, end : Address,
            ref_flag : Int, occ_list : [Known -> Nat], ranges : {t.ranges}]
  BY <1>1, <1>3
<1> QED
  BY <1>2, <1>3, <1>4 DEF Shaped

LEMMA RangesSet ==
  ASSUME NEW s, Shaped(s), NEW x, NEW t, t = [s EXCEPT !.ranges = x]
  PROVE  /\ Shaped(t) /\ t.ranges = x
         /\ t.node = s.node /\ t.nodes = s.nodes /\ t.start = s.start
         /\ t.end = s.end /\ t.ref_flag = s.ref_flag /\ t.occ_list = s.occ_list
<1>1. s \in [node : Heap, nodes : Seq(Address), start : Address, end : Address,
            ref_flag : Int, occ_list : [Known -> Nat], ranges : {s.ranges}]
  BY DEF Shaped
<1>2. IsFiniteSet(DOMAIN s.node)
  BY DEF Shaped
<1>3. /\ t.ranges = x
      /\ t.node = s.node /\ t.nodes = s.nodes /\ t.start = s.start
      /\ t.end = s.end /\ t.ref_flag = s.ref_flag /\ t.occ_list = s.occ_list
  BY <1>1
<1>4. t \in [node : Heap, nodes : Seq(Address), start : Address, end : Address,
            ref_flag : Int, occ_list : [Known -> Nat], ranges : {t.ranges}]
  BY <1>1, <1>3
<1> QED
  BY <1>2, <1>3, <1>4 DEF Shaped

-----------------------------------------------------------------------------
(* What holds between two edits, r being the ring and p the number of the  *)
(* entries of the list that are not markers of CYCLE.                      *)

Plain(s, n) == ~IsPMark(s.node[n].elem)

(***************************************************************************)
(* A node is the first of its element; a marker of CYCLE is named after it *)
(* or, at the end of the ring, as the start that it was cloned from.       *)
(***************************************************************************)
Labelled(s, r) ==
  \A i \in 1 .. Len(r) :
    /\ Plain(s, r[i]) => s.node[r[i]].name = <<s.node[r[i]].elem, 1>>
    /\ ~Plain(s, r[i]) =>
         \/ IsPMark(s.node[r[i]].name[1])
         \/ i = Len(r) /\ s.node[r[i]].name = s.node[r[1]].name /\ Plain(s, r[1])

Once(s, r) ==
  \A i, j \in 1 .. Len(r) :
    Plain(s, r[i]) /\ s.node[r[i]].elem = s.node[r[j]].elem => i = j

Listed(s, list, r, p) ==
  /\ Sorted(s, list, p)
  /\ \A i \in 1 .. Len(list) : list[i] \in Places(r)
  /\ \A a \in 1 .. p : Plain(s, list[a])
  /\ \A i \in 1 .. Len(r) : Plain(s, r[i]) => \E a \in 1 .. p : list[a] = r[i]

Whole(s, r, p) ==
  Shaped(s) /\ Chain(s, r) /\ Labelled(s, r) /\ Once(s, r) /\ Listed(s, s.nodes, r, p)

(***************************************************************************)
(* occ_list has counted the nodes of the ring.                             *)
(***************************************************************************)
Counted(s, r) ==
  \A i \in 1 .. Len(r) : Plain(s, r[i]) => s.occ_list[s.node[r[i]].elem] = 1

(***************************************************************************)
(* What u takes over from s for the nodes of the ring.                     *)
(***************************************************************************)
SameRing(s, u, r) ==
  /\ u.nodes = s.nodes /\ u.start = s.start /\ u.end = s.end
  /\ Places(r) \subseteq DOMAIN u.node
  /\ \A m \in Places(r) :
       /\ u.node[m].name = s.node[m].name /\ u.node[m].elem = s.node[m].elem
       /\ u.node[m].next = s.node[m].next /\ u.node[m].previous = s.node[m].previous

LEMMA InPlaces ==
  ASSUME NEW r, NEW i \in 1 .. Len(r)
  PROVE  r[i] \in Places(r)
  BY DEF Places

LEMMA ClosedSame ==
  ASSUME NEW s, NEW u, NEW r, Closed(s, r), Places(r) \subseteq DOMAIN u.node,
         \A m \in Places(r) : u.node[m].next = s.node[m].next /\ u.node[m].previous = s.node[m].previous
  PROVE  Closed(u, r)
<1>1. PICK k \in Nat : k = Len(r)
  BY DEF Closed
<1>2. /\ r \in Seq(DOMAIN s.node) /\ k >= 2
      /\ \A i, j \in 1 .. k : r[i] = r[j] => i = j
      /\ \A i \in 1 .. k : /\ s.node[r[i]].next = r[Follower(r, i)]
                           /\ s.node[r[Follower(r, i)]].previous = r[i]
  BY <1>1 DEF Closed
<1>3. \A i \in 1 .. k : Follower(r, i) \in 1 .. k
  BY <1>1, <1>2 DEF Follower
<1>4. \A i \in 1 .. k : r[i] \in Places(r)
  BY <1>1 DEF Places
<1>5. r \in Seq(DOMAIN u.node)
  <2>1. r \in [1 .. k -> DOMAIN u.node]
    <3>1. r = [i \in 1 .. k |-> r[i]]
      BY <1>1, <1>2
    <3> QED
      BY <1>4, <3>1
  <2> QED
    BY <2>1
<1>6. \A i \in 1 .. k : /\ u.node[r[i]].next = r[Follower(r, i)]
                        /\ u.node[r[Follower(r, i)]].previous = r[i]
  BY <1>2, <1>3, <1>4
<1> QED
  BY <1>1, <1>2, <1>5, <1>6 DEF Closed

LEMMA SortedSame ==
  ASSUME NEW s, NEW u, NEW list, NEW p, Sorted(s, list, p),
         \A i \in 1 .. Len(list) : /\ list[i] \in DOMAIN u.node
                                   /\ u.node[list[i]].name = s.node[list[i]].name
  PROVE  Sorted(u, list, p)
<1>1. list \in Seq(DOMAIN s.node) /\ Len(list) \in Nat /\ p \in 0 .. Len(list)
  BY DEF Sorted
<1>2. list \in Seq(DOMAIN u.node)
  <2>1. list = [i \in 1 .. Len(list) |-> list[i]]
    BY <1>1
  <2>2. list \in [1 .. Len(list) -> DOMAIN u.node]
    BY <2>1
  <2> QED
    BY <1>1, <2>2
<1>3. /\ \A i \in 1 .. p : i \in 1 .. Len(list)
      /\ \A i \in p + 1 .. Len(list) : i \in 1 .. Len(list)
  BY <1>1
<1>4. /\ \A i \in 1 .. p : ~IsPMark(u.node[list[i]].name[1])
      /\ \A i, j \in 1 .. p : i < j => Less(u.node[list[i]].name, u.node[list[j]].name)
      /\ \A i \in p + 1 .. Len(list) : IsPMark(u.node[list[i]].name[1])
  BY <1>3 DEF Sorted
<1> QED
  BY <1>1, <1>2, <1>4 DEF Sorted

LEMMA ListedSame ==
  ASSUME NEW s, NEW u, NEW list, NEW r, NEW p, Listed(s, list, r, p),
         Places(r) \subseteq DOMAIN u.node,
         \A m \in Places(r) : u.node[m].name = s.node[m].name /\ u.node[m].elem = s.node[m].elem
  PROVE  Listed(u, list, r, p)
<1>1. \A i \in 1 .. Len(list) : list[i] \in Places(r)
  BY DEF Listed
<1>2. Sorted(u, list, p)
  <2>1. Sorted(s, list, p)
    BY DEF Listed
  <2> QED
    BY <1>1, <2>1, SortedSame
<1>3. p \in 0 .. Len(list) /\ Len(list) \in Nat
  BY <1>2 DEF Sorted
<1>4. \A a \in 1 .. p : Plain(u, list[a])
  <2>1. \A a \in 1 .. p : a \in 1 .. Len(list) /\ Plain(s, list[a])
    BY <1>3 DEF Listed
  <2> QED
    BY <1>1, <2>1 DEF Plain
<1>5. \A i \in 1 .. Len(r) : Plain(u, r[i]) => \E a \in 1 .. p : list[a] = r[i]
  <2>1. \A i \in 1 .. Len(r) : r[i] \in Places(r)
    BY InPlaces
  <2> QED
    BY <2>1 DEF Plain, Listed
<1> QED
  BY <1>1, <1>2, <1>4, <1>5 DEF Listed

LEMMA WholeSame ==
  ASSUME NEW s, NEW u, NEW r, NEW p, Whole(s, r, p), Shaped(u), SameRing(s, u, r)
  PROVE  Whole(u, r, p)
<1>1. Chain(u, r)
  <2>1. Closed(u, r)
    BY ClosedSame DEF Whole, Chain, SameRing
  <2> QED
    BY <2>1 DEF Whole, Chain, SameRing
<1>2. /\ \A i \in 1 .. Len(r) : r[i] \in Places(r)
      /\ Len(r) \in Nat /\ Len(r) >= 2
  BY InPlaces DEF Whole, Chain, Closed
<1>3. /\ \A m \in Places(r) : u.node[m].name = s.node[m].name /\ u.node[m].elem = s.node[m].elem
      /\ u.nodes = s.nodes /\ Places(r) \subseteq DOMAIN u.node
  BY DEF SameRing
<1>4. Labelled(u, r)
  <2>1. Labelled(s, r)
    BY DEF Whole
  <2>2. 1 \in 1 .. Len(r)
    BY <1>2
  <2> QED
    BY <1>2, <1>3, <2>1, <2>2 DEF Labelled, Plain
<1>5. Once(u, r)
  BY <1>2, <1>3 DEF Once, Plain, Whole
<1>6. Listed(u, u.nodes, r, p)
  <2>1. Listed(s, s.nodes, r, p)
    BY DEF Whole
  <2> QED
    BY <1>3, <2>1, ListedSame
<1> QED
  BY <1>1, <1>4, <1>5, <1>6 DEF Whole

LEMMA CountedSame ==
  ASSUME NEW s, NEW u, NEW r, Counted(s, r), u.occ_list = s.occ_list,
         \A m \in Places(r) : u.node[m].elem = s.node[m].elem
  PROVE  Counted(u, r)
<1>1. \A i \in 1 .. Len(r) : r[i] \in Places(r)
  BY InPlaces
<1> QED
  BY <1>1 DEF Counted, Plain

(***************************************************************************)
(* Kept drops the node that was taken out of the ring, if there is one.    *)
(***************************************************************************)
LEMMA KeptIs ==
  ASSUME NEW s, NEW r, NEW p, Whole(s, r, p), NEW z, DOMAIN s.node \ Places(r) \subseteq {z}
  PROVE  /\ Whole(Kept(s), r, p) /\ DOMAIN Kept(s).node = Places(r)
         /\ Kept(s).occ_list = s.occ_list /\ Kept(s).ref_flag = s.ref_flag
         /\ \A m \in Places(r) : Kept(s).node[m] = s.node[m]
<1> DEFINE used == {n \in DOMAIN s.node :
                     \/ n \in ToSet(s.nodes)
                     \/ n \in {s.start, s.end}
                     \/ \E m \in DOMAIN s.node \ {n} :
                          n \in {s.node[m].next, s.node[m].previous}}
           R == [i \in DOMAIN s.ranges |->
                   IF s.ranges[i] \in used THEN s.ranges[i]
                   ELSE <<0>> \o NameOf(s, s.ranges[i])]
<1>1. PICK k \in Nat : k = Len(r)
  BY DEF Whole, Chain, Closed
<1>2. /\ r \in Seq(DOMAIN s.node) /\ k >= 2
      /\ \A i, m \in 1 .. k : r[i] = r[m] => i = m
      /\ \A i \in 1 .. k : r[i] \in DOMAIN s.node
      /\ \A i \in 1 .. k : /\ s.node[r[i]].next = r[IF i = k THEN 1 ELSE i + 1]
                           /\ s.node[r[IF i = k THEN 1 ELSE i + 1]].previous = r[i]
      /\ s.start = r[1] /\ s.end = r[k]
  BY <1>1 DEF Whole, Chain, Closed, Follower
<1>3. \A m \in Places(r) : \E i \in 1 .. k : m = r[i]
  BY <1>1 DEF Places
<1>4. \A i \in 1 .. k : r[i] \in Places(r)
  BY <1>1 DEF Places
<1>5. ASSUME NEW i \in 1 .. k
      PROVE  \E j \in 1 .. k : j # i /\ i = IF j = k THEN 1 ELSE j + 1
  <2>1. CASE i = 1
    <3>1. k \in 1 .. k /\ k # i
      BY <1>2, <2>1
    <3> QED
      BY <2>1, <3>1
  <2>2. CASE i # 1
    <3>1. i - 1 \in 1 .. k /\ i - 1 # k /\ i - 1 # i /\ (i - 1) + 1 = i
      BY <2>2
    <3> QED
      BY <3>1
  <2> QED
    BY <2>1, <2>2
<1>6. Places(r) \subseteq used
  <2> SUFFICES ASSUME NEW i \in 1 .. k
               PROVE  r[i] \in used
    BY <1>3
  <2>1. PICK j \in 1 .. k : j # i /\ i = IF j = k THEN 1 ELSE j + 1
    BY <1>5
  <2>2. r[j] \in DOMAIN s.node \ {r[i]} /\ s.node[r[j]].next = r[i]
    BY <1>2, <2>1
  <2> QED
    BY <1>2, <2>2
<1>7. ASSUME NEW m \in used
      PROVE  m \in Places(r)
  <2>1. CASE m \in ToSet(s.nodes)
    <3>1. s.nodes \in Seq(Address)
      BY DEF Whole, Shaped
    <3>2. \E i \in 1 .. Len(s.nodes) : s.nodes[i] = m
      BY <2>1, <3>1 DEF ToSet
    <3>3. \A i \in 1 .. Len(s.nodes) : s.nodes[i] \in Places(r)
      BY DEF Whole, Listed
    <3> QED
      BY <3>2, <3>3
  <2>2. CASE m \in {s.start, s.end}
    <3>1. 1 \in 1 .. k /\ k \in 1 .. k
      BY <1>2
    <3> QED
      BY <1>2, <1>4, <2>2, <3>1
  <2>3. CASE \E w \in DOMAIN s.node \ {m} : m \in {s.node[w].next, s.node[w].previous}
    <3>1. PICK w \in DOMAIN s.node : w # m /\ m \in {s.node[w].next, s.node[w].previous}
      BY <2>3
    <3> SUFFICES ASSUME m \notin Places(r)
                 PROVE  FALSE
      OBVIOUS
    <3>2. m = z /\ w # z
      BY <1>7, <3>1
    <3>3. PICK i \in 1 .. k : w = r[i]
      BY <1>3, <3>2
    <3>4. PICK j \in 1 .. k : j # i /\ i = IF j = k THEN 1 ELSE j + 1
      BY <1>5
    <3>5. PICK h \in 1 .. k : h = IF i = k THEN 1 ELSE i + 1
      BY <1>2
    <3>6. s.node[w].next = r[h] /\ s.node[w].previous = r[j]
      BY <1>2, <3>3, <3>4, <3>5
    <3> QED
      BY <1>4, <3>1, <3>6
  <2> QED
    BY <1>7, <2>1, <2>2, <2>3
<1>8. used = Places(r)
  BY <1>6, <1>7
<1>9. PICK N : N = used
  OBVIOUS
<1>10. PICK f : f = [n \in N |-> s.node[n]]
  OBVIOUS
<1>11. PICK Q : Q = R
  OBVIOUS
<1>12. Kept(s) = [s EXCEPT !.node = f, !.ranges = Q]
  BY <1>9, <1>10, <1>11 DEF Kept
<1> HIDE DEF used, R
<1>13. PICK t : t = [s EXCEPT !.node = f]
  OBVIOUS
<1>14. PICK u : u = [t EXCEPT !.ranges = Q]
  OBVIOUS
<1>15. Shaped(s)
  BY DEF Whole
<1>16. Kept(s) = u
  <2>1. s \in [node : Heap, nodes : Seq(Address), start : Address, end : Address,
               ref_flag : Int, occ_list : [Known -> Nat], ranges : {s.ranges}]
    BY <1>15 DEF Shaped
  <2> QED
    BY <1>12, <1>13, <1>14, <2>1
<1>17. /\ N \subseteq Address /\ N \subseteq DOMAIN s.node /\ N = Places(r) /\ IsFiniteSet(N)
       /\ f \in [N -> NodeRecord]
  <2>1. N = Places(r) /\ Places(r) \subseteq DOMAIN s.node
    BY <1>2, <1>3, <1>8, <1>9
  <2>2. IsFiniteSet(DOMAIN s.node)
    BY <1>15 DEF Shaped
  <2>3. IsFiniteSet(N)
    BY ONLY <2>1, <2>2, FS_Subset
  <2>4. DOMAIN s.node \subseteq Address /\ s.node \in [DOMAIN s.node -> NodeRecord]
    BY <1>15, NodeIs
  <2> QED
    BY <1>10, <2>1, <2>3, <2>4
<1>18. /\ Shaped(t) /\ t.node = f
       /\ t.nodes = s.nodes /\ t.start = s.start /\ t.end = s.end
       /\ t.ref_flag = s.ref_flag /\ t.occ_list = s.occ_list
  <2>1. N \in SUBSET Address
    BY <1>17
  <2> QED
    BY ONLY <1>13, <1>15, <1>17, <2>1, NodesSet
<1>19. /\ Shaped(u) /\ u.node = t.node
       /\ u.nodes = t.nodes /\ u.start = t.start /\ u.end = t.end
       /\ u.ref_flag = t.ref_flag /\ u.occ_list = t.occ_list
  BY ONLY <1>14, <1>18, RangesSet
<1>20. /\ u.node = f /\ u.nodes = s.nodes /\ u.start = s.start /\ u.end = s.end
       /\ u.ref_flag = s.ref_flag /\ u.occ_list = s.occ_list
  BY <1>18, <1>19
<1>21. DOMAIN f = Places(r) /\ \A m \in Places(r) : f[m] = s.node[m]
  BY <1>10, <1>17
<1>22. SameRing(s, u, r)
  BY <1>20, <1>21 DEF SameRing
<1>23. Whole(u, r, p)
  BY <1>19, <1>22, WholeSame
<1> QED
  BY <1>16, <1>20, <1>21, <1>23

-----------------------------------------------------------------------------
(* install_one.                                                            *)

LEMMA FreshIs ==
  ASSUME NEW s, Shaped(s), NEW e \in Known
  PROVE  Fresh(s, e) \in Address /\ Fresh(s, e) \notin DOMAIN s.node
<1> DEFINE C == Cardinality(DOMAIN s.node)
           F == {k \in 1 .. C + 1 : <<e, k>> \notin DOMAIN s.node}
<1>1. IsFiniteSet(DOMAIN s.node) /\ C \in Nat
  BY FS_CardinalityType DEF Shaped
<1>2. F # {}
  <2> SUFFICES ASSUME F = {}
               PROVE  FALSE
    OBVIOUS
  <2>1. \A k \in 1 .. C + 1 : <<e, k>> \in DOMAIN s.node
    OBVIOUS
  <2> HIDE DEF C, F
  <2>2. PICK f : f = [k \in 1 .. C + 1 |-> <<e, k>>]
    OBVIOUS
  <2>3. f \in Injection(1 .. C + 1, DOMAIN s.node)
    BY <2>1, <2>2 DEF Injection, IsInjective
  <2>4. Cardinality(1 .. C + 1) <= C
    <3>1. Cardinality(1 .. C + 1) <= Cardinality(DOMAIN s.node)
      BY ONLY <1>1, <2>3, FS_Injection
    <3> QED
      BY <3>1 DEF C
  <2>5. Cardinality(1 .. C + 1) = C + 1
    <3>1. 1 \in Int /\ C + 1 \in Int /\ C \in Nat
      BY <1>1
    <3>2. Cardinality(1 .. C + 1) = IF 1 > C + 1 THEN 0 ELSE (C + 1) - 1 + 1
      BY ONLY <3>1, FS_Interval
    <3> QED
      BY <3>1, <3>2
  <2> QED
    BY <1>1, <2>4, <2>5
<1>3. F \subseteq Nat
  OBVIOUS
<1>4. PICK k : k = Min(F) /\ k \in F
  <2> HIDE DEF F
  <2> QED
    BY <1>2, <1>3, MinIs
<1>5. Fresh(s, e) = <<e, k>>
  BY <1>4 DEF Fresh
<1>6. k \in Nat /\ <<e, k>> \notin DOMAIN s.node
  BY <1>4
<1> QED
  BY <1>5, <1>6 DEF Address

(***************************************************************************)
(* What a ring has once a node came in front of its jth.                   *)
(***************************************************************************)
LEMMA WidenedPlaces ==
  ASSUME NEW q, NEW r, Len(r) \in Nat, NEW j \in 2 .. Len(r) + 1, NEW n, Widened(q, r, j, n)
  PROVE  /\ Places(q) = Places(r) \union {n} /\ Len(q) = Len(r) + 1
         /\ \A i \in 1 .. Len(q) : \/ i = j /\ q[i] = n
                                   \/ i # j /\ \E x \in 1 .. Len(r) : q[i] = r[x] /\ x = IF i < j THEN i ELSE i - 1
<1>1. Len(q) = Len(r) + 1 /\ j \in 1 .. Len(q)
  BY DEF Widened
<1>2. \A i \in 1 .. Len(r) + 1 : q[i] = IF i < j THEN r[i] ELSE IF i = j THEN n ELSE r[i - 1]
  BY DEF Widened
<1>3. ASSUME NEW i \in 1 .. Len(q)
      PROVE  \/ i = j /\ q[i] = n
             \/ i # j /\ \E x \in 1 .. Len(r) : q[i] = r[x] /\ x = IF i < j THEN i ELSE i - 1
  <2>1. CASE i = j
    BY <1>1, <1>2, <2>1
  <2>2. CASE i < j
    <3>1. i \in 1 .. Len(r) /\ q[i] = r[i]
      BY <1>1, <1>2, <2>2
    <3> QED
      BY <2>2, <3>1
  <2>3. CASE i > j
    <3>1. i - 1 \in 1 .. Len(r) /\ q[i] = r[i - 1] /\ ~(i < j) /\ i # j
      BY <1>1, <1>2, <2>3
    <3> QED
      BY <3>1
  <2> QED
    BY <1>1, <2>1, <2>2, <2>3
<1>4. \A i \in 1 .. Len(r) : r[i] \in Places(q)
  <2> SUFFICES ASSUME NEW i \in 1 .. Len(r)
               PROVE  r[i] \in Places(q)
    OBVIOUS
  <2>1. CASE i < j
    <3>1. i \in 1 .. Len(q) /\ q[i] = r[i]
      BY <1>1, <1>2, <2>1
    <3> QED
      BY <3>1 DEF Places
  <2>2. CASE i >= j
    <3>1. i + 1 \in 1 .. Len(q) /\ q[i + 1] = r[i]
      BY <1>1, <1>2, <2>2
    <3> QED
      BY <3>1 DEF Places
  <2> QED
    BY <2>1, <2>2
<1>5. n \in Places(q)
  BY <1>1, <1>3 DEF Places
<1>6. \A i \in 1 .. Len(q) : q[i] \in Places(r) \union {n}
  BY <1>3 DEF Places
<1>7. Places(q) = Places(r) \union {n}
  BY <1>4, <1>5, <1>6 DEF Places
<1> QED
  BY <1>1, <1>3, <1>7

(***************************************************************************)
(* A ring that a plain node of a new element came into, between its ends,  *)
(* and a list that it was added to.                                        *)
(***************************************************************************)
LEMMA WholeWith ==
  ASSUME NEW s, NEW r, NEW p, Whole(s, r, p), NEW u, Shaped(u),
         NEW n, n \in DOMAIN u.node, n \notin Places(r), NEW j \in 2 .. Len(r), NEW q, Widened(q, r, j, n), Closed(u, q),
         Places(r) \subseteq DOMAIN u.node,
         \A m \in Places(r) : u.node[m].name = s.node[m].name /\ u.node[m].elem = s.node[m].elem,
         u.start = s.start, u.end = s.end,
         Plain(u, n), u.node[n].name = <<u.node[n].elem, 1>>,
         \A m \in Places(r) : s.node[m].elem # u.node[n].elem,
         NEW a \in 1 .. p + 1, Widened(u.nodes, s.nodes, a, n), Sorted(u, u.nodes, p + 1)
  PROVE  Whole(u, q, p + 1)
<1>1. PICK k \in Nat : k = Len(r)
  BY DEF Whole, Chain, Closed
<1>2. /\ k >= 2 /\ j \in 2 .. k /\ s.start = r[1] /\ s.end = r[k] /\ Len(q) = k + 1
      /\ \A i \in 1 .. k : r[i] \in Places(r)
  BY <1>1, InPlaces DEF Whole, Chain, Closed, Widened
<1>3. /\ Places(q) = Places(r) \union {n}
      /\ \A i \in 1 .. k + 1 : \/ i = j /\ q[i] = n
                               \/ i # j /\ \E x \in 1 .. k : q[i] = r[x] /\ x = IF i < j THEN i ELSE i - 1
  <2>1. j \in 2 .. Len(r) + 1 /\ Len(r) \in Nat
    BY <1>1, <1>2
  <2>2. /\ Places(q) = Places(r) \union {n}
        /\ \A i \in 1 .. Len(q) : \/ i = j /\ q[i] = n
                                  \/ i # j /\ \E x \in 1 .. Len(r) : q[i] = r[x] /\ x = IF i < j THEN i ELSE i - 1
    BY ONLY <2>1, Widened(q, r, j, n), WidenedPlaces
  <2> QED
    BY <1>1, <1>2, <2>2
<1>4. q[1] = r[1] /\ q[k + 1] = r[k]
  BY <1>2, <1>3
<1>5. Chain(u, q)
  BY <1>1, <1>2, <1>4 DEF Chain
<1>6. \A x \in 1 .. k : /\ u.node[r[x]].name = s.node[r[x]].name
                        /\ u.node[r[x]].elem = s.node[r[x]].elem
                        /\ Plain(u, r[x]) <=> Plain(s, r[x])
                        /\ s.node[r[x]].elem # u.node[n].elem
  BY <1>2 DEF Plain
<1>7. Labelled(u, q)
  <2> SUFFICES ASSUME NEW i \in 1 .. k + 1
               PROVE  /\ Plain(u, q[i]) => u.node[q[i]].name = <<u.node[q[i]].elem, 1>>
                      /\ ~Plain(u, q[i]) =>
                           \/ IsPMark(u.node[q[i]].name[1])
                           \/ i = k + 1 /\ u.node[q[i]].name = u.node[q[1]].name /\ Plain(u, q[1])
    BY <1>2 DEF Labelled
  <2>1. CASE i = j
    <3>1. q[i] = n
      BY <1>3, <2>1
    <3> QED
      BY <3>1
  <2>2. CASE i # j
    <3>1. PICK x \in 1 .. k : q[i] = r[x] /\ x = IF i < j THEN i ELSE i - 1
      BY <1>3, <2>2
    <3>2. x = k => i = k + 1
      BY <1>2, <2>2, <3>1
    <3>3. /\ Plain(s, r[x]) => s.node[r[x]].name = <<s.node[r[x]].elem, 1>>
          /\ ~Plain(s, r[x]) =>
               \/ IsPMark(s.node[r[x]].name[1])
               \/ x = k /\ s.node[r[x]].name = s.node[r[1]].name /\ Plain(s, r[1])
      BY <1>1 DEF Whole, Labelled
    <3>4. 1 \in 1 .. k
      BY <1>2
    <3> QED
      BY ZenonT(40), <1>4, <1>6, <3>1, <3>2, <3>3, <3>4
  <2> QED
    BY <2>1, <2>2
<1>8. Once(u, q)
  <2> SUFFICES ASSUME NEW i \in 1 .. k + 1, NEW h \in 1 .. k + 1,
                      Plain(u, q[i]), u.node[q[i]].elem = u.node[q[h]].elem
               PROVE  i = h
    BY <1>2 DEF Once
  <2>1. CASE i = j
    <3>1. CASE h # j
      <4>1. PICK x \in 1 .. k : q[h] = r[x]
        BY <1>3, <3>1
      <4>2. q[i] = n
        BY <1>3, <2>1
      <4> QED
        BY <1>6, <4>1, <4>2
    <3> QED
      BY <2>1, <3>1
  <2>2. CASE i # j
    <3>1. PICK x \in 1 .. k : q[i] = r[x] /\ x = IF i < j THEN i ELSE i - 1
      BY <1>3, <2>2
    <3>2. CASE h = j
      <4>1. q[h] = n
        BY <1>3, <3>2
      <4> QED
        BY <1>6, <3>1, <4>1
    <3>3. CASE h # j
      <4>1. PICK y \in 1 .. k : q[h] = r[y] /\ y = IF h < j THEN h ELSE h - 1
        BY <1>3, <3>3
      <4>2. Plain(s, r[x]) /\ s.node[r[x]].elem = s.node[r[y]].elem
        BY ZenonT(40), <1>6, <3>1, <4>1
      <4>3. x = y
        BY <1>1, <4>2 DEF Whole, Once
      <4> QED
        BY <1>2, <2>2, <3>1, <3>3, <4>1, <4>3
    <3> QED
      BY <3>2, <3>3
  <2> QED
    BY <2>1, <2>2
<1>9. Listed(u, u.nodes, q, p + 1)
  <2>1. PICK list, new : list = s.nodes /\ new = u.nodes
    OBVIOUS
  <2>2. /\ Sorted(s, list, p) /\ p \in 0 .. Len(list) /\ Len(list) \in Nat
        /\ \A i \in 1 .. Len(list) : list[i] \in Places(r)
        /\ \A b \in 1 .. p : Plain(s, list[b])
        /\ \A i \in 1 .. k : Plain(s, r[i]) => \E b \in 1 .. p : list[b] = r[i]
    <3>1. Listed(s, list, r, p)
      BY <2>1 DEF Whole
    <3>2. Sorted(s, list, p)
      BY <3>1 DEF Listed
    <3>3. p \in 0 .. Len(list) /\ Len(list) \in Nat
      BY <3>2 DEF Sorted
    <3> QED
      BY <1>1, <3>1, <3>2, <3>3 DEF Listed
  <2>3. /\ Len(new) = Len(list) + 1
        /\ \A i \in 1 .. Len(list) + 1 : new[i] = IF i < a THEN list[i] ELSE IF i = a THEN n ELSE list[i - 1]
    BY <2>1 DEF Widened
  <2>4. \A i \in 1 .. Len(list) + 1 : \/ i < a /\ i \in 1 .. Len(list) /\ new[i] = list[i]
                                      \/ i = a /\ new[i] = n
                                      \/ i > a /\ i - 1 \in 1 .. Len(list) /\ new[i] = list[i - 1]
    BY <2>2, <2>3
  <2>5. \A i \in 1 .. Len(new) : new[i] \in Places(q)
    BY <1>3, <2>2, <2>3, <2>4
  <2>6. ASSUME NEW b \in 1 .. p + 1
        PROVE  Plain(u, new[b])
    <3>1. b \in 1 .. Len(list) + 1
      BY <2>2
    <3>2. CASE b = a
      <4>1. new[b] = n
        BY <2>3, <3>1, <3>2
      <4> QED
        BY <4>1
    <3>3. CASE b # a
      <4>1. PICK c \in 1 .. p : new[b] = list[c]
        <5>1. CASE b < a
          <6>1. b \in 1 .. p /\ new[b] = list[b]
            BY <2>2, <2>4, <3>1, <5>1
          <6> QED
            BY <6>1
        <5>2. CASE b > a
          <6>1. b - 1 \in 1 .. p /\ new[b] = list[b - 1]
            BY <2>2, <2>4, <3>1, <5>2
          <6> QED
            BY <6>1
        <5> QED
          BY <2>2, <3>3, <5>1, <5>2
      <4>2. Plain(s, list[c]) /\ list[c] \in Places(r)
        BY <2>2
      <4> QED
        BY <4>1, <4>2 DEF Plain
    <3> QED
      BY <3>2, <3>3
  <2>7. ASSUME NEW i \in 1 .. k + 1, Plain(u, q[i])
        PROVE  \E b \in 1 .. p + 1 : new[b] = q[i]
    <3>1. CASE i = j
      <4>1. a \in 1 .. Len(list) + 1 /\ new[a] = n /\ q[i] = n
        BY <1>3, <2>2, <2>3, <3>1
      <4> QED
        BY <4>1
    <3>2. CASE i # j
      <4>1. PICK x \in 1 .. k : q[i] = r[x]
        BY <1>3, <3>2
      <4>2. PICK b \in 1 .. p : list[b] = r[x]
        BY <1>6, <2>2, <2>7, <4>1
      <4>3. CASE b < a
        <5>1. b \in 1 .. p + 1 /\ new[b] = list[b]
          BY <2>2, <2>3, <4>3
        <5> QED
          BY <4>1, <4>2, <5>1
      <4>4. CASE b >= a
        <5>1. b + 1 \in 1 .. p + 1 /\ new[b + 1] = list[b]
          BY <2>2, <2>3, <4>4
        <5> QED
          BY <4>1, <4>2, <5>1
      <4> QED
        BY <2>2, <4>3, <4>4
    <3> QED
      BY <3>1, <3>2
  <2> QED
    BY <1>2, <2>1, <2>5, <2>6, <2>7 DEF Listed
<1> QED
  BY <1>5, <1>7, <1>8, <1>9 DEF Whole

(***************************************************************************)
(* n came into the ring at its jth place, as insert_elem chooses it, and   *)
(* all other nodes are as they were.                                       *)
(***************************************************************************)
Joined(s, u, r, n, j) ==
  /\ n \in DOMAIN u.node /\ n \notin Places(r) /\ j \in 2 .. Len(r)
  /\ \A i \in 2 .. j - 1 : ~(u.node[n].position <= s.node[r[i]].position)
  /\ j = Len(r) \/ u.node[n].position <= s.node[r[j]].position
  /\ \A m \in Places(r) :
       /\ u.node[m].name = s.node[m].name /\ u.node[m].elem = s.node[m].elem
       /\ u.node[m].from_name = s.node[m].from_name
       /\ u.node[m].position = s.node[m].position
       /\ u.node[m].at_value = s.node[m].at_value
  /\ u.ref_flag = s.ref_flag

LEMMA InstalledIs ==
  ASSUME NEW s, NEW r, NEW p, Whole(s, r, p), DOMAIN s.node = Places(r),
         NEW e \in Element, NEW from \in Name, NEW at \in Int, NEW pos \in Int,
         \A m \in Places(r) : s.node[m].elem # e, s.occ_list[e] = 0,
         NEW u, u = Installed(s, e, from, at, pos)
  PROVE  \E n, j : /\ Whole(u, InsertAt(r, j, n), p + 1) /\ Joined(s, u, r, n, j)
                   /\ DOMAIN u.node = Places(InsertAt(r, j, n)) /\ Widened(InsertAt(r, j, n), r, j, n)
                   /\ u.node[n].elem = e /\ u.node[n].from_name = from
                   /\ u.node[n].at_value = at /\ u.node[n].position = pos
                   /\ u.occ_list = [s.occ_list EXCEPT ![e] = 1]
<1> DEFINE new(m) == [name |-> <<e, 1>>, elem |-> e, at_value |-> at,
                      from_name |-> from, position |-> pos, next |-> m, previous |-> m]
<1>1. /\ Shaped(s) /\ Closed(s, r) /\ s.start = r[1] /\ s.end = r[Len(r)]
      /\ Labelled(s, r) /\ Listed(s, s.nodes, r, p)
  BY DEF Whole, Chain
<1>2. PICK k \in Nat : k = Len(r)
  BY <1>1 DEF Closed
<1>3. /\ r \in Seq(DOMAIN s.node) /\ k >= 2 /\ \A i \in 1 .. k : r[i] \in Places(r)
  BY <1>1, <1>2, InPlaces DEF Closed
<1>4. e \in Known /\ e \in Int /\ ~IsPMark(e) /\ <<e, 1>> \in Name
  <2>1. e \in Known /\ ~IsPMark(e)
    BY KnownIs
  <2>2. e \in Int
    BY <2>1, KnownIs
  <2> QED
    BY <2>1, <2>2 DEF Name
<1>5. PICK n : n = Fresh(s, e)
  OBVIOUS
<1>6. n \in Address /\ n \notin DOMAIN s.node
  BY <1>1, <1>4, <1>5, FreshIs
<1>7. /\ DOMAIN s.node \subseteq Address /\ s.node \in [DOMAIN s.node -> NodeRecord]
      /\ IsFiniteSet(DOMAIN s.node)
  BY <1>1, NodeIs DEF Shaped
<1>8. PICK N : N = DOMAIN s.node \union {n}
  OBVIOUS
<1>9. PICK f : f = [m \in N |-> IF m = n THEN new(n) ELSE s.node[m]]
  OBVIOUS
<1>10. /\ N \in SUBSET Address /\ f \in [N -> NodeRecord] /\ f[n] = new(n)
       /\ \A m \in DOMAIN s.node : f[m] = s.node[m]
  <2>1. N \in SUBSET Address
    BY <1>6, <1>7, <1>8
  <2>2. new(n) \in NodeRecord
    BY <1>4, <1>6 DEF NodeRecord
  <2> HIDE DEF new
  <2>3. f \in [N -> NodeRecord]
    BY <1>7, <1>8, <1>9, <2>2
  <2> QED
    BY <1>6, <1>8, <1>9, <2>1, <2>3
<1>11. IsFiniteSet(N)
  BY ONLY <1>7, <1>8, FS_AddElement
<1>12. PICK t1 : t1 = [s EXCEPT !.node = f]
  OBVIOUS
<1>13. /\ Shaped(t1) /\ t1.node = f /\ t1.nodes = s.nodes /\ t1.start = s.start /\ t1.end = s.end
       /\ t1.ref_flag = s.ref_flag /\ t1.occ_list = s.occ_list /\ t1.ranges = s.ranges
  BY ONLY <1>1, <1>10, <1>11, <1>12, NodesSet
<1>14. PICK o : o = [s.occ_list EXCEPT ![e] = 1]
  OBVIOUS
<1>15. o \in [Known -> Nat]
  <2>1. s.occ_list \in [Known -> Nat]
    BY <1>1 DEF Shaped
  <2> QED
    BY <1>4, <1>14, <2>1
<1>16. PICK t : t = [t1 EXCEPT !.occ_list = o]
  OBVIOUS
<1>17. /\ Shaped(t) /\ t.occ_list = o /\ t.node = t1.node /\ t.nodes = t1.nodes
       /\ t.start = t1.start /\ t.end = t1.end
       /\ t.ref_flag = t1.ref_flag /\ t.ranges = t1.ranges
  BY ONLY <1>13, <1>15, <1>16, CountsSet
<1>18. PICK v : v = [t EXCEPT !.nodes = Added(t, t.nodes, n)]
  OBVIOUS
<1>19. u = Inserted(v, n)
  <2>1. [s EXCEPT !.node = [m \in DOMAIN @ \union {n} |-> IF m = n THEN new(n) ELSE @[m]],
                  !.occ_list[e] = @ + 1] = t
    <3>1. s \in [node : Heap, nodes : Seq(Address), start : Address, end : Address,
                 ref_flag : Int, occ_list : [Known -> Nat], ranges : {s.ranges}]
      BY <1>1 DEF Shaped
    <3>2. [s.occ_list EXCEPT ![e] = @ + 1] = o
      BY <1>4, <1>14, <3>1
    <3>3. [m \in DOMAIN s.node \union {n} |-> IF m = n THEN new(n) ELSE s.node[m]] = f
      BY <1>8, <1>9
    <3>4. [s EXCEPT !.node = [m \in DOMAIN @ \union {n} |-> IF m = n THEN new(n) ELSE @[m]],
                    !.occ_list[e] = @ + 1]
            = [s EXCEPT !.node = f, !.occ_list = o]
      <4> HIDE DEF new
      <4> QED
        BY <3>1, <3>2, <3>3
    <3> HIDE DEF new
    <3> QED
      BY <1>12, <1>16, <3>1, <3>4
  <2>2. s.occ_list[e] + 1 = 1
    OBVIOUS
  <2> QED
    BY <1>5, <1>18, <2>1, <2>2 DEF Installed
<1>20. /\ t.node = f /\ t.nodes = s.nodes /\ t.start = s.start /\ t.end = s.end
       /\ t.ref_flag = s.ref_flag /\ t.occ_list = o
  BY <1>13, <1>17
<1>21. SameRing(s, t, r)
  <2>1. DOMAIN f = N /\ Places(r) \subseteq N
    BY <1>8, <1>10
  <2> QED
    BY <1>8, <1>10, <1>20, <2>1 DEF SameRing
<1>22. Whole(t, r, p)
  BY <1>17, <1>21, WholeSame
<1>23. f[n].name = <<e, 1>> /\ f[n].elem = e /\ f[n].from_name = from /\ f[n].at_value = at /\ f[n].position = pos
  BY <1>10
<1> HIDE DEF new
<1>24. PICK a \in 1 .. p + 1 : /\ Added(t, t.nodes, n) = InsertAt(t.nodes, a, n)
                               /\ Sorted(t, Added(t, t.nodes, n), p + 1)
  <2>1. Sorted(t, t.nodes, p)
    BY <1>22 DEF Whole, Listed
  <2>2. n \in DOMAIN t.node
    BY <1>8, <1>10, <1>20
  <2>3. t.node[n].name = <<e, 1>> /\ ~IsPMark(t.node[n].name[1])
    BY <1>4, <1>20, <1>23
  <2>4. ASSUME NEW i \in 1 .. p
        PROVE  t.node[t.nodes[i]].name # t.node[n].name
    <3>1. PICK m : m = t.nodes[i]
      OBVIOUS
    <3>2. i \in 1 .. Len(t.nodes)
      BY <2>1 DEF Sorted
    <3>3. m \in Places(r) /\ Plain(t, m)
      BY <1>22, <3>1, <3>2 DEF Whole, Listed
    <3>4. PICK x \in 1 .. Len(r) : m = r[x]
      BY <3>3 DEF Places
    <3>5. t.node[m].name = <<t.node[m].elem, 1>>
      BY <1>22, <3>3, <3>4 DEF Whole, Labelled
    <3>6. t.node[m].elem = s.node[m].elem
      BY <1>21, <3>3 DEF SameRing
    <3> QED
      BY <2>3, <3>1, <3>3, <3>5, <3>6
  <2> QED
    BY ONLY <1>17, <2>1, <2>2, <2>3, <2>4, AddedNew
<1>25. t.nodes \in Seq(Address) /\ p \in Nat /\ p <= Len(t.nodes)
  <2>1. Shaped(t) /\ Sorted(t, t.nodes, p)
    BY <1>22 DEF Whole, Listed
  <2>2. t.nodes \in Seq(Address)
    BY <2>1 DEF Shaped
  <2>3. p \in 0 .. Len(t.nodes)
    BY <2>1 DEF Sorted
  <2> QED
    BY <2>2, <2>3
<1>26. /\ Added(t, t.nodes, n) \in Seq(Address)
       /\ Widened(Added(t, t.nodes, n), t.nodes, a, n)
  <2>1. a \in 1 .. Len(t.nodes) + 1
    BY <1>25
  <2> QED
    BY ZenonT(40), <1>6, <1>24, <1>25, <2>1, WidenedIs
<1>27. /\ Shaped(v) /\ v.nodes = Added(t, t.nodes, n) /\ v.node = t.node
       /\ v.start = t.start /\ v.end = t.end
       /\ v.ref_flag = t.ref_flag /\ v.occ_list = t.occ_list /\ v.ranges = t.ranges
  <2>1. PICK x : x = Added(t, t.nodes, n)
    OBVIOUS
  <2>2. x \in Seq(Address) /\ v = [t EXCEPT !.nodes = x] /\ Shaped(t)
    BY <1>17, <1>18, <1>26, <2>1
  <2>3. /\ Shaped(v) /\ v.nodes = x /\ v.node = t.node
        /\ v.start = t.start /\ v.end = t.end
        /\ v.ref_flag = t.ref_flag /\ v.occ_list = t.occ_list /\ v.ranges = t.ranges
    BY ONLY <2>2, ListSet
  <2> QED
    BY <2>1, <2>3
<1>28. Chain(v, r)
  <2>1. Closed(t, r) /\ t.start = r[1] /\ t.end = r[Len(r)]
    BY <1>22 DEF Whole, Chain
  <2>2. Closed(v, r)
    BY <1>27, <2>1 DEF Closed
  <2> QED
    BY <1>27, <2>1, <2>2 DEF Chain
<1>29. Ring(v) = r
  BY <1>27, <1>28, RingIs
<1> DEFINE behind == {i \in 2 .. Len(r) : \/ v.node[n].position <= v.node[r[i]].position
                                          \/ r[i] = v.end}
<1>30. v.end = r[k] /\ k \in 2 .. Len(r) /\ \A i \in 1 .. k : r[i] = r[k] => i = k
  <2>1. k \in 1 .. k
    BY <1>3
  <2> QED
    BY <1>1, <1>2, <1>3, <1>20, <1>27, <2>1 DEF Closed
<1>31. k \in behind /\ behind \subseteq Nat
  BY <1>30
<1>32. PICK j : j = Min(behind)
  OBVIOUS
<1>33. /\ j \in behind /\ \A y \in behind : j <= y
  <2> HIDE DEF behind
  <2> QED
    BY <1>31, <1>32, MinIs
<1>34. j \in 2 .. k /\ (j = k \/ v.node[n].position <= v.node[r[j]].position)
  BY <1>2, <1>30, <1>33
<1>35. \A i \in 2 .. j - 1 : ~(v.node[n].position <= v.node[r[i]].position)
  <2> SUFFICES ASSUME NEW i \in 2 .. j - 1, v.node[n].position <= v.node[r[i]].position
               PROVE  FALSE
    OBVIOUS
  <2>1. i \in 2 .. Len(r) /\ ~(j <= i)
    BY <1>2, <1>34
  <2>2. i \in behind
    BY <2>1
  <2> QED
    BY <1>33, <2>1, <2>2
<1>36. u = Linked(v, n, r[j])
  BY <1>19, <1>29, <1>32 DEF Inserted
<1> HIDE DEF behind
<1>37. PICK q : q = InsertAt(r, j, n)
  OBVIOUS
<1>38. Shaped(u) /\ Alike(v, u) /\ Closed(u, q)
  <2>1. Closed(v, r) /\ n \in DOMAIN v.node /\ n \notin Places(r)
    BY <1>6, <1>8, <1>10, <1>20, <1>27, <1>28 DEF Chain
  <2>2. PICK c : c = r[IF j <= Len(r) THEN j ELSE 1]
    OBVIOUS
  <2>3. c = r[j] /\ j \in 2 .. Len(r) + 1
    BY <1>2, <1>34, <2>2
  <2>4. /\ Shaped(Linked(v, n, c)) /\ Alike(v, Linked(v, n, c))
        /\ Closed(Linked(v, n, c), InsertAt(r, j, n))
    BY ONLY <1>27, <2>1, <2>2, <2>3, LinkedIs
  <2> QED
    BY <1>36, <1>37, <2>3, <2>4
<1>39. Widened(q, r, j, n)
  <2>1. j \in 1 .. Len(r) + 1 /\ n \in N /\ r \in Seq(N)
    <3>1. \A x \in Seq(DOMAIN s.node) : x \in Seq(N)
      BY <1>8
    <3> QED
      BY <1>2, <1>3, <1>8, <1>34, <3>1
  <2> QED
    BY ONLY <1>37, <2>1, WidenedIs
<1>40. /\ u.nodes = Added(t, t.nodes, n) /\ u.start = s.start /\ u.end = s.end
       /\ u.ref_flag = s.ref_flag /\ u.occ_list = o /\ DOMAIN u.node = N
  BY <1>10, <1>20, <1>27, <1>38 DEF Alike
<1>41. \A m \in N : /\ u.node[m].name = f[m].name /\ u.node[m].elem = f[m].elem
                    /\ u.node[m].from_name = f[m].from_name
                    /\ u.node[m].position = f[m].position
                    /\ u.node[m].at_value = f[m].at_value
  <2>1. v.node = f /\ DOMAIN f = N
    BY <1>10, <1>20, <1>27
  <2> QED
    BY <1>38, <2>1 DEF Alike
<1>42. n \in N /\ Places(r) \subseteq N /\ n \notin Places(r) /\ \A m \in Places(r) : f[m] = s.node[m]
  BY <1>6, <1>8, <1>10
<1>43. Joined(s, u, r, n, j)
  <2>1. \A i \in 1 .. k : v.node[r[i]].position = s.node[r[i]].position
    BY <1>3, <1>20, <1>27, <1>42
  <2>2. v.node[n].position = u.node[n].position
    BY <1>20, <1>27, <1>41, <1>42
  <2>3. \A i \in 2 .. j - 1 : i \in 1 .. k
    BY <1>34
  <2>4. j \in 1 .. k
    BY <1>34
  <2> QED
    BY SMTT(40), <1>2, <1>34, <1>35, <1>40, <1>41, <1>42, <2>1, <2>2, <2>3, <2>4 DEF Joined
<1>44. Sorted(u, u.nodes, p + 1)
  <2>1. Sorted(t, u.nodes, p + 1)
    BY <1>24, <1>40
  <2>2. \A i \in 1 .. Len(u.nodes) : u.nodes[i] \in N
    <3>1. u.nodes \in Seq(DOMAIN t.node) /\ DOMAIN t.node = N
      BY <1>10, <1>20, <2>1 DEF Sorted
    <3> QED
      BY <3>1
  <2>3. \A i \in 1 .. Len(u.nodes) : /\ u.nodes[i] \in DOMAIN u.node
                                     /\ u.node[u.nodes[i]].name = t.node[u.nodes[i]].name
    BY <1>20, <1>40, <1>41, <2>2
  <2> QED
    BY ONLY <2>1, <2>3, SortedSame
<1>45. Whole(u, q, p + 1)
  <2>1. /\ n \in DOMAIN u.node /\ n \notin Places(r) /\ Places(r) \subseteq DOMAIN u.node
        /\ \A m \in Places(r) : u.node[m].name = s.node[m].name /\ u.node[m].elem = s.node[m].elem
        /\ u.start = s.start /\ u.end = s.end
    BY <1>40, <1>41, <1>42
  <2>2. u.node[n].name = <<e, 1>> /\ u.node[n].elem = e
    BY <1>23, <1>41, <1>42
  <2>3. /\ Plain(u, n) /\ u.node[n].name = <<u.node[n].elem, 1>>
        /\ \A m \in Places(r) : s.node[m].elem # u.node[n].elem
    BY <1>4, <2>2 DEF Plain
  <2>4. Widened(u.nodes, s.nodes, a, n) /\ j \in 2 .. Len(r)
    BY <1>2, <1>20, <1>26, <1>34, <1>40
  <2> QED
    BY ONLY Whole(s, r, p), a \in 1 .. p + 1, <1>38, <1>39, <1>44, <2>1, <2>3, <2>4, WholeWith
<1>46. DOMAIN u.node = Places(q)
  <2>1. j \in 2 .. Len(r) + 1 /\ Len(r) \in Nat
    BY <1>2, <1>34
  <2>2. Places(q) = Places(r) \union {n}
    BY ONLY <1>39, <2>1, WidenedPlaces
  <2> QED
    BY <1>8, <1>40, <2>2
<1>47. /\ u.node[n].elem = e /\ u.node[n].from_name = from
       /\ u.node[n].at_value = at /\ u.node[n].position = pos
  BY <1>23, <1>41, <1>42
<1> QED
  BY <1>14, <1>37, <1>39, <1>40, <1>43, <1>45, <1>46, <1>47

-----------------------------------------------------------------------------
(* remove_one.                                                             *)

LEMMA NarrowedPlaces ==
  ASSUME NEW q, NEW r, Len(r) \in Nat, NEW h \in 1 .. Len(r), Narrowed(q, r, h),
         \A i, j \in 1 .. Len(r) : r[i] = r[j] => i = j
  PROVE  /\ Places(q) = Places(r) \ {r[h]} /\ Len(q) = Len(r) - 1
         /\ \A i \in 1 .. Len(q) : \E x \in 1 .. Len(r) : q[i] = r[x] /\ x = IF i < h THEN i ELSE i + 1
<1>1. Len(q) = Len(r) - 1
  BY DEF Narrowed
<1>2. ASSUME NEW i \in 1 .. Len(q)
      PROVE  \E x \in 1 .. Len(r) : q[i] = r[x] /\ x = IF i < h THEN i ELSE i + 1
  <2>1. q[i] = IF i < h THEN r[i] ELSE r[i + 1]
    BY <1>1 DEF Narrowed
  <2>2. i \in 1 .. Len(r) /\ i + 1 \in 1 .. Len(r)
    BY <1>1
  <2> QED
    BY <2>1, <2>2
<1>3. ASSUME NEW i \in 1 .. Len(q)
      PROVE  q[i] \in Places(r) /\ q[i] # r[h]
  <2>1. PICK x \in 1 .. Len(r) : q[i] = r[x] /\ x = IF i < h THEN i ELSE i + 1
    BY <1>2
  <2>2. x # h
    BY <1>1, <2>1
  <2> QED
    BY <2>1, <2>2 DEF Places
<1>4. ASSUME NEW i \in 1 .. Len(r), i # h
      PROVE  r[i] \in Places(q)
  <2>1. CASE i < h
    <3>1. i \in 1 .. Len(r) - 1 /\ q[i] = r[i]
      BY <2>1 DEF Narrowed
    <3> QED
      BY <1>1, <3>1 DEF Places
  <2>2. CASE i > h
    <3>1. i - 1 \in 1 .. Len(r) - 1 /\ ~(i - 1 < h) /\ (i - 1) + 1 = i
      BY <2>2
    <3>2. q[i - 1] = r[i]
      BY <3>1 DEF Narrowed
    <3> QED
      BY <1>1, <3>1, <3>2 DEF Places
  <2> QED
    BY <1>4, <2>1, <2>2
<1>5. \A m \in Places(q) : m \in Places(r) /\ m # r[h]
  BY <1>3 DEF Places
<1>6. \A m \in Places(r) : m # r[h] => m \in Places(q)
  BY <1>4 DEF Places
<1>7. Places(q) = Places(r) \ {r[h]}
  BY <1>5, <1>6
<1> QED
  BY <1>1, <1>2, <1>7

(***************************************************************************)
(* A ring that a plain node went out of, and a list that it was taken off. *)
(***************************************************************************)
LEMMA WholeWithout ==
  ASSUME NEW s, NEW r, NEW p, Whole(s, r, p), NEW u, Shaped(u),
         NEW h \in 2 .. Len(r) - 1, NEW q, Narrowed(q, r, h), Closed(u, q),
         NEW a \in 1 .. p, s.nodes[a] = r[h], Narrowed(u.nodes, s.nodes, a), Sorted(u, u.nodes, p - 1),
         \A m \in Places(q) : u.node[m].name = s.node[m].name /\ u.node[m].elem = s.node[m].elem,
         u.start = s.start, u.end = s.end
  PROVE  Whole(u, q, p - 1)
<1>1. PICK k \in Nat : k = Len(r)
  BY DEF Whole, Chain, Closed
<1>2. /\ k >= 3 /\ h \in 2 .. k - 1 /\ s.start = r[1] /\ s.end = r[k] /\ Len(q) = k - 1
      /\ \A i, j \in 1 .. k : r[i] = r[j] => i = j
  BY <1>1 DEF Whole, Chain, Closed, Narrowed
<1>3. /\ Places(q) = Places(r) \ {r[h]}
      /\ \A i \in 1 .. k - 1 : \E x \in 1 .. k : q[i] = r[x] /\ x = IF i < h THEN i ELSE i + 1
  <2>1. h \in 1 .. Len(r) /\ Len(r) \in Nat /\ \A i, j \in 1 .. Len(r) : r[i] = r[j] => i = j
    BY <1>1, <1>2
  <2>2. /\ Places(q) = Places(r) \ {r[h]}
        /\ \A i \in 1 .. Len(q) : \E x \in 1 .. Len(r) : q[i] = r[x] /\ x = IF i < h THEN i ELSE i + 1
    BY ONLY <2>1, Narrowed(q, r, h), NarrowedPlaces
  <2> QED
    BY <1>1, <1>2, <2>2
<1>4. q[1] = r[1] /\ q[k - 1] = r[k]
  BY <1>2, <1>3
<1>5. Chain(u, q)
  BY <1>1, <1>2, <1>4 DEF Chain
<1>6. \A i \in 1 .. k - 1 : q[i] \in Places(q)
  BY <1>2, InPlaces
<1>7. \A i \in 1 .. k - 1 : \A x \in 1 .. k : q[i] = r[x] =>
         /\ u.node[q[i]].name = s.node[r[x]].name
         /\ u.node[q[i]].elem = s.node[r[x]].elem
         /\ Plain(u, q[i]) <=> Plain(s, r[x])
  BY <1>6 DEF Plain
<1>8. Labelled(u, q)
  <2> SUFFICES ASSUME NEW i \in 1 .. k - 1
               PROVE  /\ Plain(u, q[i]) => u.node[q[i]].name = <<u.node[q[i]].elem, 1>>
                      /\ ~Plain(u, q[i]) =>
                           \/ IsPMark(u.node[q[i]].name[1])
                           \/ i = k - 1 /\ u.node[q[i]].name = u.node[q[1]].name /\ Plain(u, q[1])
    BY <1>2 DEF Labelled
  <2>1. PICK x \in 1 .. k : q[i] = r[x] /\ x = IF i < h THEN i ELSE i + 1
    BY <1>3
  <2>2. x = k => i = k - 1
    BY <1>2, <2>1
  <2>3. /\ Plain(s, r[x]) => s.node[r[x]].name = <<s.node[r[x]].elem, 1>>
        /\ ~Plain(s, r[x]) =>
             \/ IsPMark(s.node[r[x]].name[1])
             \/ x = k /\ s.node[r[x]].name = s.node[r[1]].name /\ Plain(s, r[1])
    BY <1>1 DEF Whole, Labelled
  <2>4. 1 \in 1 .. k /\ 1 \in 1 .. k - 1
    BY <1>2
  <2> QED
    BY ZenonT(40), <1>4, <1>7, <2>1, <2>2, <2>3, <2>4
<1>9. Once(u, q)
  <2> SUFFICES ASSUME NEW i \in 1 .. k - 1, NEW j \in 1 .. k - 1,
                      Plain(u, q[i]), u.node[q[i]].elem = u.node[q[j]].elem
               PROVE  i = j
    BY <1>2 DEF Once
  <2>1. PICK x \in 1 .. k : q[i] = r[x] /\ x = IF i < h THEN i ELSE i + 1
    BY <1>3
  <2>2. PICK y \in 1 .. k : q[j] = r[y] /\ y = IF j < h THEN j ELSE j + 1
    BY <1>3
  <2>3. Plain(s, r[x]) /\ s.node[r[x]].elem = s.node[r[y]].elem
    BY <1>7, <2>1, <2>2
  <2>4. x = y
    BY <1>1, <2>3 DEF Whole, Once
  <2> QED
    BY <1>2, <2>1, <2>2, <2>4
<1>10. Listed(u, u.nodes, q, p - 1)
  <2>1. PICK list, new : list = s.nodes /\ new = u.nodes
    OBVIOUS
  <2>2. /\ Sorted(s, list, p) /\ p \in 0 .. Len(list) /\ Len(list) \in Nat
        /\ \A i \in 1 .. Len(list) : list[i] \in Places(r)
        /\ \A b \in 1 .. p : Plain(s, list[b])
        /\ \A i \in 1 .. k : Plain(s, r[i]) => \E b \in 1 .. p : list[b] = r[i]
    <3>1. Listed(s, list, r, p)
      BY <2>1 DEF Whole
    <3>2. Sorted(s, list, p)
      BY <3>1 DEF Listed
    <3>3. p \in 0 .. Len(list) /\ Len(list) \in Nat
      BY <3>2 DEF Sorted
    <3> QED
      BY <1>1, <3>1, <3>2, <3>3 DEF Listed
  <2>3. /\ Len(new) = Len(list) - 1 /\ list[a] = r[h]
        /\ \A i \in 1 .. Len(list) - 1 : new[i] = IF i < a THEN list[i] ELSE list[i + 1]
    BY <2>1 DEF Narrowed
  <2>4. ASSUME NEW i \in 1 .. Len(list) - 1
        PROVE  \/ i < a /\ i \in 1 .. Len(list) /\ new[i] = list[i]
               \/ i >= a /\ i + 1 \in 1 .. Len(list) /\ new[i] = list[i + 1]
    <3>1. i \in Nat /\ a \in Nat /\ i \in 1 .. Len(list) /\ i + 1 \in 1 .. Len(list)
      BY <2>2
    <3> QED
      BY <2>3, <3>1
  <2>5. ASSUME NEW i \in 1 .. Len(list), i # a
        PROVE  list[i] # r[h]
    <3>1. CASE i <= p
      <4>1. i \in 1 .. p
        BY <2>2, <3>1
      <4>2. PICK x, y : x = s.node[list[i]].name /\ y = s.node[list[a]].name
        OBVIOUS
      <4>3. \A b, c \in 1 .. p : b < c => Less(s.node[list[b]].name, s.node[list[c]].name)
        BY <2>2 DEF Sorted
      <4>4. Less(x, y) \/ Less(y, x)
        <5>1. i < a \/ a < i
          BY <2>5, <4>1
        <5> QED
          BY <4>1, <4>2, <4>3, <5>1
      <4>5. x \in Name
        <5>1. Shaped(s)
          BY DEF Whole
        <5> QED
          BY <2>2, <4>2, <5>1, SortedNames
      <4>6. x # y
        BY <4>4, <4>5 DEF Less, Name
      <4> QED
        BY <2>3, <4>2, <4>6
    <3>2. CASE i > p
      <4>1. i \in p + 1 .. Len(list)
        BY <2>2, <3>2
      <4>2. IsPMark(s.node[list[i]].name[1]) /\ ~IsPMark(s.node[list[a]].name[1])
        BY <2>2, <4>1 DEF Sorted
      <4> QED
        BY <2>3, <4>2
    <3> QED
      BY <2>2, <3>1, <3>2
  <2>6. ASSUME NEW i \in 1 .. Len(new)
        PROVE  new[i] \in Places(q)
    <3>1. PICK x \in 1 .. Len(list) : new[i] = list[x] /\ x # a
      <4>1. i \in 1 .. Len(list) - 1
        BY <2>3
      <4>2. CASE i < a
        BY <2>4, <4>1, <4>2
      <4>3. CASE i >= a
        <5>1. i + 1 \in 1 .. Len(list) /\ new[i] = list[i + 1] /\ i + 1 # a
          BY <2>4, <4>1, <4>3
        <5> QED
          BY <5>1
      <4> QED
        BY <4>1, <4>2, <4>3
    <3>2. list[x] \in Places(r) /\ list[x] # r[h]
      BY <2>2, <2>5, <3>1
    <3> QED
      BY <1>3, <3>1, <3>2
  <2>7. ASSUME NEW b \in 1 .. p - 1
        PROVE  Plain(u, new[b])
    <3>1. PICK c \in 1 .. p : new[b] = list[c]
      <4>1. CASE b < a
        <5>1. b \in 1 .. p /\ new[b] = list[b]
          BY <2>2, <2>3, <4>1
        <5> QED
          BY <5>1
      <4>2. CASE b >= a
        <5>1. b + 1 \in 1 .. p /\ new[b] = list[b + 1]
          BY <2>2, <2>3, <4>2
        <5> QED
          BY <5>1
      <4> QED
        BY <4>1, <4>2
    <3>2. Plain(s, list[c])
      BY <2>2
    <3>3. b \in 1 .. Len(new)
      BY <2>2, <2>3
    <3>4. new[b] \in Places(q)
      BY <2>6, <3>3
    <3> QED
      BY <3>1, <3>2, <3>4 DEF Plain
  <2>8. ASSUME NEW i \in 1 .. k - 1, Plain(u, q[i])
        PROVE  \E b \in 1 .. p - 1 : new[b] = q[i]
    <3>1. PICK x \in 1 .. k : q[i] = r[x] /\ x = IF i < h THEN i ELSE i + 1
      BY <1>3
    <3>2. Plain(s, r[x])
      BY <1>7, <2>8, <3>1
    <3>3. PICK b \in 1 .. p : list[b] = r[x]
      BY <2>2, <3>2
    <3>4. b # a
      <4>1. r[x] # r[h]
        BY <1>3, <1>6, <3>1
      <4> QED
        BY <2>3, <3>3, <4>1
    <3>5. CASE b < a
      <4>1. b \in 1 .. p - 1 /\ new[b] = list[b]
        BY <2>2, <2>3, <3>5
      <4> QED
        BY <3>1, <3>3, <4>1
    <3>6. CASE b > a
      <4>1. b - 1 \in 1 .. p - 1 /\ new[b - 1] = list[b]
        <5>1. b - 1 \in 1 .. Len(list) - 1 /\ ~(b - 1 < a) /\ (b - 1) + 1 = b /\ b - 1 \in 1 .. p - 1
          BY <2>2, <3>6
        <5> QED
          BY <2>3, <5>1
      <4> QED
        BY <3>1, <3>3, <4>1
    <3> QED
      BY <2>2, <3>4, <3>5, <3>6
  <2>9. Sorted(u, new, p - 1)
    BY <2>1
  <2> QED
    BY <1>2, <2>1, <2>6, <2>7, <2>8, <2>9 DEF Listed
<1> QED
  BY <1>5, <1>8, <1>9, <1>10 DEF Whole

LEMMA RemovedIs ==
  ASSUME NEW s, NEW r, NEW p, Whole(s, r, p), NEW h \in 2 .. Len(r) - 1, NEW n, n = r[h], Plain(s, n),
         NEW e, e = s.node[n].elem, s.occ_list[e] = 1, NEW w, w = Removed(s, n)
  PROVE  /\ Whole(w, RemoveAt(r, h), p - 1) /\ Narrowed(RemoveAt(r, h), r, h)
         /\ Places(RemoveAt(r, h)) = Places(r) \ {n} /\ DOMAIN w.node = DOMAIN s.node
         /\ w.occ_list = [s.occ_list EXCEPT ![e] = 0] /\ w.ref_flag = s.ref_flag
         /\ \A m \in Places(RemoveAt(r, h)) : /\ s.node[m].elem # e
                                              /\ w.node[m].name = s.node[m].name
                                              /\ w.node[m].elem = s.node[m].elem
                                              /\ w.node[m].from_name = s.node[m].from_name
                                              /\ w.node[m].position = s.node[m].position
                                              /\ w.node[m].at_value = s.node[m].at_value
<1>1. Shaped(s) /\ Closed(s, r) /\ s.start = r[1] /\ s.end = r[Len(r)] /\ Listed(s, s.nodes, r, p)
  BY DEF Whole, Chain
<1>2. PICK k \in Nat : k = Len(r)
  BY <1>1 DEF Closed
<1>3. /\ r \in Seq(DOMAIN s.node) /\ k >= 3 /\ h \in 1 .. k
      /\ \A i, j \in 1 .. k : r[i] = r[j] => i = j
      /\ n \in DOMAIN s.node
  BY <1>1, <1>2 DEF Closed
<1>4. e \in Known
  BY <1>1, <1>3, NodeIs
<1>5. PICK x : x = Unlinked(s, n)
  OBVIOUS
<1>6. PICK q : q = RemoveAt(r, h)
  OBVIOUS
<1>7. Shaped(x) /\ Alike(s, x) /\ Closed(x, q)
  BY ONLY <1>1, h \in 2 .. Len(r) - 1, n = r[h], <1>5, <1>6, UnlinkedIs
<1>8. Narrowed(q, r, h)
  <2>1. h \in 1 .. Len(r) /\ r \in Seq(DOMAIN s.node)
    BY <1>2, <1>3
  <2> QED
    BY ONLY <1>6, <2>1, NarrowedIs
<1>9. PICK o : o = [s.occ_list EXCEPT ![e] = 0]
  OBVIOUS
<1>10. PICK u : u = [x EXCEPT !.occ_list = o]
  OBVIOUS
<1>11. o \in [Known -> Nat]
  BY <1>1, <1>4, <1>9 DEF Shaped
<1>12. /\ Shaped(u) /\ u.occ_list = o /\ u.node = x.node /\ u.nodes = x.nodes
       /\ u.start = x.start /\ u.end = x.end
       /\ u.ref_flag = x.ref_flag /\ u.ranges = x.ranges
  BY ONLY <1>7, <1>10, <1>11, CountsSet
<1>13. u.nodes = s.nodes /\ u.start = s.start /\ u.end = s.end /\ u.ref_flag = s.ref_flag /\ DOMAIN u.node = DOMAIN s.node
  BY <1>7, <1>12 DEF Alike
<1>14. \A m \in DOMAIN s.node : /\ u.node[m].name = s.node[m].name
                                /\ u.node[m].elem = s.node[m].elem
                                /\ u.node[m].from_name = s.node[m].from_name
                                /\ u.node[m].position = s.node[m].position
                                /\ u.node[m].at_value = s.node[m].at_value
  BY <1>7, <1>12 DEF Alike
<1>15. w = [u EXCEPT !.nodes = Delisted(u, n)]
  <2>1. [x EXCEPT !.occ_list[e] = @ - 1] = u
    <3>1. x \in [node : Heap, nodes : Seq(Address), start : Address, end : Address,
                 ref_flag : Int, occ_list : [Known -> Nat], ranges : {x.ranges}]
      BY <1>7 DEF Shaped
    <3>2. x.occ_list[e] - 1 = 0
      BY <1>7 DEF Alike
    <3>3. [x.occ_list EXCEPT ![e] = @ - 1] = o
      BY <1>4, <1>7, <1>9, <3>1, <3>2 DEF Alike
    <3> QED
      BY <1>10, <3>1, <3>3
  <2>2. PICK y : y = [Unlinked(s, n) EXCEPT !.occ_list[e] = @ - 1]
    OBVIOUS
  <2>3. Removed(s, n) = [y EXCEPT !.nodes = Delisted(y, n)]
    BY <2>2 DEF Removed
  <2>4. y = u
    BY <1>5, <2>1, <2>2
  <2> QED
    BY <2>3, <2>4
<1>16. PICK a \in 1 .. p : s.nodes[a] = n
  BY <1>1, <1>2, <1>3 DEF Listed
<1>17. Sorted(s, s.nodes, p)
  BY <1>1 DEF Listed
<1>18. s.nodes \in Seq(DOMAIN s.node) /\ p \in 0 .. Len(s.nodes)
  BY <1>17 DEF Sorted
<1>19. Sorted(u, u.nodes, p)
  <2>1. \A i \in 1 .. Len(s.nodes) : /\ s.nodes[i] \in DOMAIN u.node
                                     /\ u.node[s.nodes[i]].name = s.node[s.nodes[i]].name
    BY <1>13, <1>14, <1>18
  <2>2. Sorted(u, s.nodes, p)
    BY ONLY <1>17, <2>1, SortedSame
  <2> QED
    BY <1>13, <2>2
<1>20. Delisted(u, n) = RemoveAt(u.nodes, a) /\ Sorted(u, Delisted(u, n), p - 1)
  <2>1. u.nodes[a] = n
    BY <1>13, <1>16
  <2> QED
    BY <1>12, <1>19, <2>1, DelistedIs
<1>21. PICK list : list = Delisted(u, n)
  OBVIOUS
<1>22. list \in Seq(Address) /\ Narrowed(list, s.nodes, a)
  <2>1. a \in 1 .. Len(s.nodes)
    BY <1>18
  <2>2. s.nodes \in Seq(Address)
    BY <1>1 DEF Shaped
  <2>3. list = RemoveAt(s.nodes, a)
    BY <1>13, <1>20, <1>21
  <2> QED
    BY ONLY <2>1, <2>2, <2>3, NarrowedIs
<1>23. /\ Shaped(w) /\ w.nodes = list /\ w.node = u.node /\ w.start = u.start /\ w.end = u.end
       /\ w.ref_flag = u.ref_flag /\ w.occ_list = u.occ_list /\ w.ranges = u.ranges
  <2>1. w = [u EXCEPT !.nodes = list]
    BY <1>15, <1>21
  <2> QED
    BY ONLY <1>12, <1>22, <2>1, ListSet
<1>24. Places(q) = Places(r) \ {n}
  <2>1. h \in 1 .. Len(r) /\ Len(r) \in Nat /\ \A i, j \in 1 .. Len(r) : r[i] = r[j] => i = j
    BY <1>2, <1>3
  <2>2. Places(q) = Places(r) \ {r[h]}
    BY ONLY <1>8, <2>1, NarrowedPlaces
  <2> QED
    BY <2>2
<1>25. \A m \in Places(q) : m \in DOMAIN s.node /\ s.node[m].elem # e
  <2> SUFFICES ASSUME NEW m \in Places(q)
               PROVE  m \in DOMAIN s.node /\ s.node[m].elem # e
    OBVIOUS
  <2>1. PICK i \in 1 .. k : m = r[i]
    BY <1>2, <1>24 DEF Places
  <2>2. i # h
    BY <1>24, <2>1
  <2>3. s.node[r[h]].elem = s.node[r[i]].elem => h = i
    BY <1>2, <1>3 DEF Whole, Once
  <2>4. r[i] \in DOMAIN s.node
    BY <1>2, <1>3, <2>1
  <2> QED
    BY <2>1, <2>2, <2>3, <2>4
<1>26. Whole(w, q, p - 1)
  <2>1. Closed(w, q)
    BY <1>7, <1>12, <1>23 DEF Closed
  <2>2. Sorted(w, w.nodes, p - 1)
    <3>1. Sorted(u, list, p - 1)
      BY <1>20, <1>21
    <3>2. Sorted(w, list, p - 1)
      BY <1>23, <3>1 DEF Sorted
    <3> QED
      BY <1>23, <3>2
  <2>3. Narrowed(w.nodes, s.nodes, a) /\ s.nodes[a] = r[h]
    BY <1>16, <1>22, <1>23
  <2>4. /\ \A m \in Places(q) : w.node[m].name = s.node[m].name /\ w.node[m].elem = s.node[m].elem
        /\ w.start = s.start /\ w.end = s.end
    BY <1>13, <1>14, <1>23, <1>25
  <2> QED
    BY ONLY Whole(s, r, p), h \in 2 .. Len(r) - 1, a \in 1 .. p, <1>8, <1>23, <2>1, <2>2, <2>3, <2>4, WholeWithout
<1> QED
  BY <1>6, <1>8, <1>9, <1>12, <1>13, <1>14, <1>23, <1>24, <1>25, <1>26

-----------------------------------------------------------------------------
(* replace_one.                                                            *)

FirstOf(list, p) == {list[i] : i \in 1 .. p}

LEMMA FirstWidened ==
  ASSUME NEW new, NEW list, Len(list) \in Nat, NEW p \in 0 .. Len(list), NEW a \in 1 .. p + 1, NEW n,
         Widened(new, list, a, n)
  PROVE  FirstOf(new, p + 1) = FirstOf(list, p) \union {n}
<1>1. \A i \in 1 .. Len(list) + 1 : new[i] = IF i < a THEN list[i] ELSE IF i = a THEN n ELSE list[i - 1]
  BY DEF Widened
<1>2. ASSUME NEW i \in 1 .. p + 1
      PROVE  new[i] \in FirstOf(list, p) \union {n}
  <2>0. i \in 1 .. Len(list) + 1
    OBVIOUS
  <2>1. CASE i < a
    <3>1. i \in 1 .. p /\ new[i] = list[i]
      BY <1>1, <2>0, <2>1
    <3> QED
      BY <3>1 DEF FirstOf
  <2>2. CASE i = a
    BY <1>1, <2>0, <2>2
  <2>3. CASE i > a
    <3>1. i - 1 \in 1 .. p /\ new[i] = list[i - 1]
      BY <1>1, <2>0, <2>3
    <3> QED
      BY <3>1 DEF FirstOf
  <2> QED
    BY <2>1, <2>2, <2>3
<1>3. ASSUME NEW i \in 1 .. p
      PROVE  list[i] \in FirstOf(new, p + 1)
  <2>1. CASE i < a
    <3>1. i \in 1 .. p + 1 /\ i \in 1 .. Len(list) + 1 /\ new[i] = list[i]
      BY <1>1, <2>1
    <3> QED
      BY <3>1 DEF FirstOf
  <2>2. CASE i >= a
    <3>1. i + 1 \in 1 .. p + 1 /\ i + 1 \in 1 .. Len(list) + 1 /\ ~(i + 1 < a) /\ i + 1 # a /\ (i + 1) - 1 = i
      BY <2>2
    <3>2. new[i + 1] = list[i]
      BY <1>1, <3>1
    <3> QED
      BY <3>1, <3>2 DEF FirstOf
  <2> QED
    BY <2>1, <2>2
<1>4. n \in FirstOf(new, p + 1)
  <2>1. a \in 1 .. Len(list) + 1 /\ new[a] = n
    BY <1>1
  <2> QED
    BY <2>1 DEF FirstOf
<1>5. \A m \in FirstOf(new, p + 1) : m \in FirstOf(list, p) \union {n}
  BY <1>2 DEF FirstOf
<1>6. \A m \in FirstOf(list, p) : m \in FirstOf(new, p + 1)
  BY <1>3 DEF FirstOf
<1> QED
  BY <1>4, <1>5, <1>6

LEMMA FirstNarrowed ==
  ASSUME NEW new, NEW list, Len(list) \in Nat, NEW p \in 1 .. Len(list), NEW a \in 1 .. p,
         Narrowed(new, list, a), \A i \in 1 .. p : i # a => list[i] # list[a]
  PROVE  FirstOf(new, p - 1) = FirstOf(list, p) \ {list[a]}
<1>1. \A i \in 1 .. Len(list) - 1 : new[i] = IF i < a THEN list[i] ELSE list[i + 1]
  BY DEF Narrowed
<1>2. ASSUME NEW i \in 1 .. p - 1
      PROVE  new[i] \in FirstOf(list, p) \ {list[a]}
  <2>0. i \in 1 .. Len(list) - 1 /\ i \in 1 .. p /\ i + 1 \in 1 .. p
    OBVIOUS
  <2>1. CASE i < a
    <3>1. new[i] = list[i] /\ i # a
      BY <1>1, <2>0, <2>1
    <3> QED
      BY <2>0, <3>1 DEF FirstOf
  <2>2. CASE i >= a
    <3>1. new[i] = list[i + 1] /\ i + 1 # a
      BY <1>1, <2>0, <2>2
    <3> QED
      BY <2>0, <3>1 DEF FirstOf
  <2> QED
    BY <2>1, <2>2
<1>3. ASSUME NEW i \in 1 .. p, i # a
      PROVE  list[i] \in FirstOf(new, p - 1)
  <2>1. CASE i < a
    <3>1. i \in 1 .. p - 1 /\ i \in 1 .. Len(list) - 1 /\ new[i] = list[i]
      BY <1>1, <2>1
    <3> QED
      BY <3>1 DEF FirstOf
  <2>2. CASE i > a
    <3>1. i - 1 \in 1 .. p - 1 /\ i - 1 \in 1 .. Len(list) - 1 /\ ~(i - 1 < a) /\ (i - 1) + 1 = i
      BY <2>2
    <3>2. new[i - 1] = list[i]
      BY <1>1, <3>1
    <3> QED
      BY <3>1, <3>2 DEF FirstOf
  <2> QED
    BY <1>3, <2>1, <2>2
<1>4. \A m \in FirstOf(new, p - 1) : m \in FirstOf(list, p) \ {list[a]}
  BY <1>2 DEF FirstOf
<1>5. \A m \in FirstOf(list, p) \ {list[a]} : m \in FirstOf(new, p - 1)
  BY <1>3 DEF FirstOf
<1> QED
  BY <1>4, <1>5

(***************************************************************************)
(* The node of an entry with a name of its own has no other entry.         *)
(***************************************************************************)
LEMMA EntryOnce ==
  ASSUME NEW s, Shaped(s), NEW list, NEW p, Sorted(s, list, p), NEW a \in 1 .. p,
         NEW i \in 1 .. Len(list), i # a
  PROVE  list[i] # list[a]
<1>1. Len(list) \in Nat /\ p \in Nat /\ p <= Len(list)
  BY SortedNames
<1>2. CASE i <= p
  <2>1. i \in 1 .. p
    BY <1>1, <1>2
  <2>2. PICK x, y : x = s.node[list[i]].name /\ y = s.node[list[a]].name
    OBVIOUS
  <2>3. \A b, c \in 1 .. p : b < c => Less(s.node[list[b]].name, s.node[list[c]].name)
    BY DEF Sorted
  <2>4. Less(x, y) \/ Less(y, x)
    <3>1. i < a \/ a < i
      BY <1>1, <2>1
    <3> QED
      BY <2>1, <2>2, <2>3, <3>1
  <2>5. x \in Name
    BY <2>2, SortedNames
  <2>6. x # y
    BY <2>4, <2>5 DEF Less, Name
  <2> QED
    BY <2>2, <2>6
<1>3. CASE i > p
  <2>1. i \in p + 1 .. Len(list)
    BY <1>1, <1>3
  <2>2. IsPMark(s.node[list[i]].name[1]) /\ ~IsPMark(s.node[list[a]].name[1])
    BY <2>1 DEF Sorted
  <2> QED
    BY <2>2
<1> QED
  BY <1>1, <1>2, <1>3

(***************************************************************************)
(* The list leads to the plain nodes of the ring by its first p entries.   *)
(***************************************************************************)
PlainOf(s, r) == {m \in Places(r) : Plain(s, m)}

LEMMA ListedIs ==
  ASSUME NEW s, NEW list, NEW r, NEW p
  PROVE  Listed(s, list, r, p) <=>
           /\ Sorted(s, list, p) /\ FirstOf(list, Len(list)) \subseteq Places(r)
           /\ FirstOf(list, p) = PlainOf(s, r)
<1>1. Sorted(s, list, p) => p \in 0 .. Len(list) /\ Len(list) \in Nat
  BY DEF Sorted
<1>2. ASSUME Listed(s, list, r, p)
      PROVE  FirstOf(list, Len(list)) \subseteq Places(r) /\ FirstOf(list, p) = PlainOf(s, r)
  <2>1. /\ Sorted(s, list, p) /\ \A i \in 1 .. Len(list) : list[i] \in Places(r)
        /\ \A a \in 1 .. p : Plain(s, list[a])
        /\ \A i \in 1 .. Len(r) : Plain(s, r[i]) => \E a \in 1 .. p : list[a] = r[i]
    BY <1>2 DEF Listed
  <2>2. \A a \in 1 .. p : a \in 1 .. Len(list)
    BY <1>1, <2>1
  <2> QED
    BY <2>1, <2>2 DEF FirstOf, PlainOf, Places
<1>3. ASSUME Sorted(s, list, p), FirstOf(list, Len(list)) \subseteq Places(r), FirstOf(list, p) = PlainOf(s, r)
      PROVE  Listed(s, list, r, p)
  <2>1. \A i \in 1 .. Len(list) : list[i] \in Places(r)
    BY <1>3 DEF FirstOf
  <2>2. \A a \in 1 .. p : Plain(s, list[a])
    BY <1>3 DEF FirstOf, PlainOf
  <2>3. \A i \in 1 .. Len(r) : Plain(s, r[i]) => \E a \in 1 .. p : list[a] = r[i]
    BY <1>3 DEF FirstOf, PlainOf, Places
  <2> QED
    BY <1>3, <2>1, <2>2, <2>3 DEF Listed
<1> QED
  BY <1>2, <1>3 DEF Listed

(***************************************************************************)
(* The node that a plain node becomes by taking another element.           *)
(***************************************************************************)
LEMMA RenamedIs ==
  ASSUME NEW s, Shaped(s), NEW n \in DOMAIN s.node, NEW x \in Name,
         NEW t, t = [s EXCEPT !.node[n].name = x]
  PROVE  /\ Shaped(t) /\ DOMAIN t.node = DOMAIN s.node /\ t.node[n].name = x
         /\ t.nodes = s.nodes /\ t.start = s.start /\ t.end = s.end
         /\ t.ref_flag = s.ref_flag /\ t.occ_list = s.occ_list
         /\ \A m \in DOMAIN s.node :
              /\ m # n => t.node[m].name = s.node[m].name
              /\ t.node[m].elem = s.node[m].elem /\ t.node[m].from_name = s.node[m].from_name
              /\ t.node[m].next = s.node[m].next /\ t.node[m].previous = s.node[m].previous
              /\ t.node[m].position = s.node[m].position /\ t.node[m].at_value = s.node[m].at_value
<1>1. PICK N \in SUBSET Address : s.node \in [N -> NodeRecord] /\ N = DOMAIN s.node
  BY NodeIs
<1>2. PICK f : f = [s.node EXCEPT ![n] = [s.node[n] EXCEPT !.name = x]]
  OBVIOUS
<1>3. t = [s EXCEPT !.node = f]
  <2>1. s \in [node : Heap, nodes : Seq(Address), start : Address, end : Address,
               ref_flag : Int, occ_list : [Known -> Nat], ranges : {s.ranges}]
    BY DEF Shaped
  <2> QED
    BY <1>2, <2>1
<1>4. s.node[n] \in NodeRecord
  BY <1>1
<1>5. f \in [N -> NodeRecord] /\ f[n] = [s.node[n] EXCEPT !.name = x] /\ \A m \in N : m # n => f[m] = s.node[m]
  BY <1>1, <1>2, <1>4 DEF NodeRecord
<1>6. /\ f[n].name = x /\ f[n].elem = s.node[n].elem /\ f[n].from_name = s.node[n].from_name
      /\ f[n].next = s.node[n].next /\ f[n].previous = s.node[n].previous
      /\ f[n].position = s.node[n].position /\ f[n].at_value = s.node[n].at_value
  BY <1>4, <1>5 DEF NodeRecord
<1>7. IsFiniteSet(N)
  BY <1>1 DEF Shaped
<1>8. /\ Shaped(t) /\ t.node = f /\ t.nodes = s.nodes /\ t.start = s.start /\ t.end = s.end
      /\ t.ref_flag = s.ref_flag /\ t.occ_list = s.occ_list /\ t.ranges = s.ranges
  BY ONLY Shaped(s), <1>1, <1>3, <1>5, <1>7, NodesSet
<1> QED
  BY <1>1, <1>5, <1>6, <1>8

LEMMA ElementSet ==
  ASSUME NEW s, Shaped(s), NEW n \in DOMAIN s.node, NEW x \in Known,
         NEW t, t = [s EXCEPT !.node[n].elem = x]
  PROVE  /\ Shaped(t) /\ DOMAIN t.node = DOMAIN s.node /\ t.node[n].elem = x
         /\ t.nodes = s.nodes /\ t.start = s.start /\ t.end = s.end
         /\ t.ref_flag = s.ref_flag /\ t.occ_list = s.occ_list
         /\ \A m \in DOMAIN s.node :
              /\ m # n => t.node[m].elem = s.node[m].elem
              /\ t.node[m].name = s.node[m].name /\ t.node[m].from_name = s.node[m].from_name
              /\ t.node[m].next = s.node[m].next /\ t.node[m].previous = s.node[m].previous
              /\ t.node[m].position = s.node[m].position /\ t.node[m].at_value = s.node[m].at_value
<1>1. PICK N \in SUBSET Address : s.node \in [N -> NodeRecord] /\ N = DOMAIN s.node
  BY NodeIs
<1>2. PICK f : f = [s.node EXCEPT ![n] = [s.node[n] EXCEPT !.elem = x]]
  OBVIOUS
<1>3. t = [s EXCEPT !.node = f]
  <2>1. s \in [node : Heap, nodes : Seq(Address), start : Address, end : Address,
               ref_flag : Int, occ_list : [Known -> Nat], ranges : {s.ranges}]
    BY DEF Shaped
  <2> QED
    BY <1>2, <2>1
<1>4. s.node[n] \in NodeRecord
  BY <1>1
<1>5. f \in [N -> NodeRecord] /\ f[n] = [s.node[n] EXCEPT !.elem = x] /\ \A m \in N : m # n => f[m] = s.node[m]
  BY <1>1, <1>2, <1>4 DEF NodeRecord
<1>6. /\ f[n].elem = x /\ f[n].name = s.node[n].name /\ f[n].from_name = s.node[n].from_name
      /\ f[n].next = s.node[n].next /\ f[n].previous = s.node[n].previous
      /\ f[n].position = s.node[n].position /\ f[n].at_value = s.node[n].at_value
  BY <1>4, <1>5 DEF NodeRecord
<1>7. IsFiniteSet(N)
  BY <1>1 DEF Shaped
<1>8. /\ Shaped(t) /\ t.node = f /\ t.nodes = s.nodes /\ t.start = s.start /\ t.end = s.end
      /\ t.ref_flag = s.ref_flag /\ t.occ_list = s.occ_list /\ t.ranges = s.ranges
  BY ONLY Shaped(s), <1>1, <1>3, <1>5, <1>7, NodesSet
<1> QED
  BY <1>1, <1>5, <1>6, <1>8

(***************************************************************************)
(* What w is after the replacement of n's element in s by e.               *)
(***************************************************************************)
Exchanged(s, w, n, e) ==
  /\ DOMAIN w.node = DOMAIN s.node /\ w.ref_flag = s.ref_flag
  /\ w.occ_list = [s.occ_list EXCEPT ![e] = 1]
  /\ w.node[n].elem = e
  /\ \A m \in DOMAIN s.node : /\ m # n => w.node[m].elem = s.node[m].elem
                              /\ w.node[m].from_name = s.node[m].from_name
                              /\ w.node[m].position = s.node[m].position
                              /\ w.node[m].at_value = s.node[m].at_value

LEMMA ReplacedIs ==
  ASSUME NEW s, NEW r, NEW p, Whole(s, r, p), NEW h \in 2 .. Len(r) - 1, NEW n, n = r[h], Plain(s, n),
         NEW e \in Element, s.occ_list[e] = 0, \A m \in Places(r) : s.node[m].elem # e,
         NEW w, w = Replaced(s, n, e)
  PROVE  Whole(w, r, p) /\ Exchanged(s, w, n, e)
<1>1. Shaped(s) /\ Closed(s, r) /\ s.start = r[1] /\ s.end = r[Len(r)] /\ Listed(s, s.nodes, r, p)
  BY DEF Whole, Chain
<1>2. PICK k \in Nat : k = Len(r)
  BY <1>1 DEF Closed
<1>3. /\ r \in Seq(DOMAIN s.node) /\ k >= 3 /\ h \in 1 .. k /\ h # 1 /\ h # k
      /\ \A i, j \in 1 .. k : r[i] = r[j] => i = j
      /\ n \in DOMAIN s.node /\ Places(r) \subseteq DOMAIN s.node
  BY <1>1, <1>2 DEF Closed, Places
<1>4. e \in Known /\ ~IsPMark(e) /\ <<e, 1>> \in Name
  <2>1. e \in Known /\ ~IsPMark(e)
    BY KnownIs
  <2>2. e \in Int
    BY <2>1, KnownIs
  <2> QED
    BY <2>1, <2>2 DEF Name
<1>5. PICK list : list = s.nodes
  OBVIOUS
<1>6. Sorted(s, list, p) /\ FirstOf(list, Len(list)) \subseteq Places(r) /\ FirstOf(list, p) = PlainOf(s, r)
  BY <1>1, <1>5, ListedIs
<1>7. list \in Seq(DOMAIN s.node) /\ p \in 0 .. Len(list) /\ Len(list) \in Nat
  BY <1>6 DEF Sorted
<1>8. PICK a \in 1 .. p : list[a] = n
  <2>1. n \in PlainOf(s, r)
    BY <1>2, <1>3 DEF PlainOf, Places
  <2> QED
    BY <1>6, <2>1 DEF FirstOf
<1>9. PICK D : D = Delisted(s, n)
  OBVIOUS
<1>10. D = RemoveAt(list, a) /\ Sorted(s, D, p - 1)
  BY <1>1, <1>5, <1>6, <1>8, <1>9, DelistedIs
<1>11. D \in Seq(Address) /\ Narrowed(D, list, a)
  <2>1. a \in 1 .. Len(list)
    BY <1>7
  <2>2. list \in Seq(Address)
    BY <1>1, <1>5 DEF Shaped
  <2> QED
    BY ONLY <1>10, <2>1, <2>2, NarrowedIs
<1>12. \A i \in 1 .. Len(list) : i # a => list[i] # list[a]
  BY <1>1, <1>6, EntryOnce
<1>13. FirstOf(D, p - 1) = FirstOf(list, p) \ {n}
  <2>1. /\ p \in 1 .. Len(list) /\ \A i \in 1 .. p : i # a => list[i] # list[a]
    BY <1>7, <1>12
  <2>2. FirstOf(D, p - 1) = FirstOf(list, p) \ {list[a]}
    BY ONLY <1>7, a \in 1 .. p, <1>11, <2>1, FirstNarrowed
  <2> QED
    BY <1>8, <2>2
<1>14. FirstOf(D, Len(D)) = FirstOf(list, Len(list)) \ {n}
  <2>1. Len(list) \in 1 .. Len(list) /\ a \in 1 .. Len(list) /\ Len(D) = Len(list) - 1
    BY <1>7, <1>11 DEF Narrowed
  <2>2. PICK l : l = Len(list)
    OBVIOUS
  <2>3. /\ Len(list) \in Nat /\ l \in 1 .. Len(list) /\ a \in 1 .. l
        /\ \A i \in 1 .. l : i # a => list[i] # list[a]
    BY <1>7, <1>12, <2>1, <2>2
  <2>4. FirstOf(D, l - 1) = FirstOf(list, l) \ {list[a]}
    BY ONLY <1>11, <2>3, FirstNarrowed
  <2> QED
    BY <1>8, <2>1, <2>2, <2>4
<1>15. PICK o : o = [s.occ_list EXCEPT ![e] = 1]
  OBVIOUS
<1>16. o \in [Known -> Nat]
  BY <1>1, <1>4, <1>15 DEF Shaped
<1>17. PICK t1 : t1 = [s EXCEPT !.nodes = D]
  OBVIOUS
<1>18. PICK t2 : t2 = [t1 EXCEPT !.occ_list = o]
  OBVIOUS
<1>19. PICK t : t = [t2 EXCEPT !.node[n].name = <<e, 1>>]
  OBVIOUS
<1>20. /\ Shaped(t1) /\ t1.nodes = D /\ t1.node = s.node /\ t1.start = s.start /\ t1.end = s.end
       /\ t1.ref_flag = s.ref_flag /\ t1.occ_list = s.occ_list /\ t1.ranges = s.ranges
  BY ONLY <1>1, <1>11, <1>17, ListSet
<1>21. /\ Shaped(t2) /\ t2.occ_list = o /\ t2.node = t1.node /\ t2.nodes = t1.nodes
       /\ t2.start = t1.start /\ t2.end = t1.end
       /\ t2.ref_flag = t1.ref_flag /\ t2.ranges = t1.ranges
  BY ONLY <1>16, <1>18, <1>20, CountsSet
<1>22. n \in DOMAIN t2.node /\ DOMAIN t2.node = DOMAIN s.node
  BY <1>3, <1>20, <1>21
<1>23. /\ Shaped(t) /\ DOMAIN t.node = DOMAIN t2.node /\ t.node[n].name = <<e, 1>>
       /\ t.nodes = t2.nodes /\ t.start = t2.start /\ t.end = t2.end
       /\ t.ref_flag = t2.ref_flag /\ t.occ_list = t2.occ_list
       /\ \A m \in DOMAIN t2.node :
            /\ m # n => t.node[m].name = t2.node[m].name
            /\ t.node[m].elem = t2.node[m].elem /\ t.node[m].from_name = t2.node[m].from_name
            /\ t.node[m].next = t2.node[m].next /\ t.node[m].previous = t2.node[m].previous
            /\ t.node[m].position = t2.node[m].position /\ t.node[m].at_value = t2.node[m].at_value
  BY ONLY SMTT(40), <1>4, <1>19, <1>21, <1>22, RenamedIs
<1>24. Sorted(t, D, p - 1)
  <2>1. \A i \in 1 .. Len(D) : D[i] \in DOMAIN s.node /\ D[i] # n
    <3>1. \A i \in 1 .. Len(D) : D[i] \in FirstOf(list, Len(list)) \ {n}
      BY <1>14 DEF FirstOf
    <3> QED
      BY <1>3, <1>6, <3>1
  <2>2. \A i \in 1 .. Len(D) : /\ D[i] \in DOMAIN t.node
                               /\ t.node[D[i]].name = s.node[D[i]].name
    BY <1>20, <1>21, <1>22, <1>23, <2>1
  <2> QED
    BY ONLY <1>10, <2>2, SortedSame
<1>25. PICK b \in 1 .. (p - 1) + 1 : /\ Added(t, D, n) = InsertAt(D, b, n)
                                     /\ Sorted(t, Added(t, D, n), (p - 1) + 1)
  <2>1. n \in DOMAIN t.node /\ ~IsPMark(t.node[n].name[1])
    BY <1>4, <1>22, <1>23
  <2>2. ASSUME NEW i \in 1 .. p - 1
        PROVE  t.node[D[i]].name # t.node[n].name
    <3>1. PICK m : m = D[i]
      OBVIOUS
    <3>2. m \in FirstOf(D, p - 1)
      BY <3>1 DEF FirstOf
    <3>3. m \in Places(r) /\ Plain(s, m) /\ m # n
      BY <1>6, <1>13, <3>2 DEF PlainOf
    <3>4. PICK x \in 1 .. Len(r) : m = r[x]
      BY <3>3 DEF Places
    <3>5. s.node[m].name = <<s.node[m].elem, 1>>
      BY <3>3, <3>4 DEF Whole, Labelled
    <3>6. t.node[m].name = s.node[m].name
      BY <1>3, <1>20, <1>21, <1>22, <1>23, <3>3
    <3> QED
      BY <1>23, <3>1, <3>3, <3>5, <3>6
  <2> QED
    BY ONLY <1>23, <1>24, <2>1, <2>2, AddedNew
<1>26. PICK L : L = Added(t, D, n)
  OBVIOUS
<1>27. L \in Seq(Address) /\ Widened(L, D, b, n) /\ Sorted(t, L, p)
  <2>1. Len(D) = Len(list) - 1
    BY <1>11 DEF Narrowed
  <2>2. b \in 1 .. Len(D) + 1 /\ (p - 1) + 1 = p
    BY <1>7, <2>1
  <2>3. n \in Address
    BY <1>1, <1>3, NodeIs
  <2>4. L = InsertAt(D, b, n)
    BY <1>25, <1>26
  <2>5. L \in Seq(Address) /\ Widened(L, D, b, n)
    BY ONLY <1>11, <2>2, <2>3, <2>4, WidenedIs
  <2> QED
    BY <1>25, <1>26, <2>2, <2>5
<1>28. PICK v : v = [t EXCEPT !.nodes = L]
  OBVIOUS
<1>29. /\ Shaped(v) /\ v.nodes = L /\ v.node = t.node /\ v.start = t.start /\ v.end = t.end
       /\ v.ref_flag = t.ref_flag /\ v.occ_list = t.occ_list /\ v.ranges = t.ranges
  BY ONLY <1>23, <1>27, <1>28, ListSet
<1>30. w = [v EXCEPT !.node[n].elem = e]
  <2>1. [s EXCEPT !.nodes = D, !.occ_list[e] = @ + 1, !.node[n].name = <<e, s.occ_list[e] + 1>>] = t
    <3>1. s \in [node : Heap, nodes : Seq(Address), start : Address, end : Address,
                 ref_flag : Int, occ_list : [Known -> Nat], ranges : {s.ranges}]
      BY <1>1 DEF Shaped
    <3>2. [s.occ_list EXCEPT ![e] = @ + 1] = o /\ s.occ_list[e] + 1 = 1
      BY <1>4, <1>15, <3>1
    <3>3. [s EXCEPT !.nodes = D, !.occ_list[e] = @ + 1, !.node[n].name = <<e, 1>>]
            = [t1 EXCEPT !.occ_list[e] = @ + 1, !.node[n].name = <<e, 1>>]
      BY <1>17, <3>1
    <3>4. [t1 EXCEPT !.occ_list[e] = @ + 1, !.node[n].name = <<e, 1>>]
            = [t2 EXCEPT !.node[n].name = <<e, 1>>]
      <4>1. t1 \in [node : Heap, nodes : Seq(Address), start : Address, end : Address,
                    ref_flag : Int, occ_list : [Known -> Nat], ranges : {t1.ranges}]
        BY <1>20 DEF Shaped
      <4>2. [t1.occ_list EXCEPT ![e] = @ + 1] = o
        BY <1>20, <3>2
      <4>3. [t1 EXCEPT !.occ_list[e] = @ + 1] = t2
        BY <1>18, <4>1, <4>2
      <4> QED
        BY <4>1, <4>3
    <3> QED
      BY <1>19, <3>2, <3>3, <3>4
  <2>2. PICK y : y = [s EXCEPT !.nodes = Delisted(s, n), !.occ_list[e] = @ + 1,
                                !.node[n].name = <<e, s.occ_list[e] + 1>>]
    OBVIOUS
  <2>3. Replaced(s, n, e) = [y EXCEPT !.nodes = Added(y, @, n), !.node[n].elem = e]
    BY <2>2 DEF Replaced
  <2>4. y = t
    BY <1>9, <2>1, <2>2
  <2>5. Replaced(s, n, e) = [t EXCEPT !.nodes = Added(t, @, n), !.node[n].elem = e]
    BY <2>3, <2>4
  <2>6. [t EXCEPT !.nodes = Added(t, @, n), !.node[n].elem = e] = [t EXCEPT !.nodes = L, !.node[n].elem = e]
    <3>1. Added(t, t.nodes, n) = L
      BY <1>20, <1>21, <1>23, <1>26
    <3> QED
      BY <3>1
  <2>7. [t EXCEPT !.nodes = L, !.node[n].elem = e] = [v EXCEPT !.node[n].elem = e]
    <3>1. t \in [node : Heap, nodes : Seq(Address), start : Address, end : Address,
                 ref_flag : Int, occ_list : [Known -> Nat], ranges : {t.ranges}]
      BY <1>23 DEF Shaped
    <3> QED
      BY <1>28, <3>1
  <2> QED
    BY <2>5, <2>6, <2>7
<1>31. n \in DOMAIN v.node /\ DOMAIN v.node = DOMAIN s.node
  BY <1>22, <1>23, <1>29
<1>32. /\ Shaped(w) /\ DOMAIN w.node = DOMAIN v.node /\ w.node[n].elem = e
       /\ w.nodes = v.nodes /\ w.start = v.start /\ w.end = v.end
       /\ w.ref_flag = v.ref_flag /\ w.occ_list = v.occ_list
       /\ \A m \in DOMAIN v.node :
            /\ m # n => w.node[m].elem = v.node[m].elem
            /\ w.node[m].name = v.node[m].name /\ w.node[m].from_name = v.node[m].from_name
            /\ w.node[m].next = v.node[m].next /\ w.node[m].previous = v.node[m].previous
            /\ w.node[m].position = v.node[m].position /\ w.node[m].at_value = v.node[m].at_value
  BY ONLY <1>4, <1>29, <1>30, <1>31, ElementSet
<1>33. \A m \in DOMAIN s.node :
         /\ w.node[m].elem = IF m = n THEN e ELSE s.node[m].elem
         /\ w.node[m].name = IF m = n THEN <<e, 1>> ELSE s.node[m].name
         /\ w.node[m].next = s.node[m].next /\ w.node[m].previous = s.node[m].previous
         /\ w.node[m].from_name = s.node[m].from_name
         /\ w.node[m].position = s.node[m].position /\ w.node[m].at_value = s.node[m].at_value
  BY SMTT(40), <1>20, <1>21, <1>22, <1>23, <1>29, <1>31, <1>32
<1>34. /\ w.nodes = L /\ w.start = s.start /\ w.end = s.end /\ w.ref_flag = s.ref_flag /\ w.occ_list = o
       /\ DOMAIN w.node = DOMAIN s.node
  BY <1>20, <1>21, <1>23, <1>29, <1>31, <1>32
<1>35. Chain(w, r)
  <2>1. /\ Places(r) \subseteq DOMAIN w.node
        /\ \A m \in Places(r) : w.node[m].next = s.node[m].next /\ w.node[m].previous = s.node[m].previous
    BY <1>3, <1>33, <1>34
  <2>2. Closed(w, r)
    BY ONLY <1>1, <2>1, ClosedSame
  <2> QED
    BY <1>1, <1>34, <2>2 DEF Chain
<1>36. \A i \in 1 .. k : /\ r[i] \in DOMAIN s.node /\ r[i] \in Places(r) /\ (i = h <=> r[i] = n)
                         /\ Plain(w, r[i]) <=> (i = h \/ Plain(s, r[i]))
  <2>1. \A i \in 1 .. k : r[i] \in Places(r) /\ (i = h <=> r[i] = n)
    BY <1>2, <1>3, InPlaces
  <2> QED
    BY <1>3, <1>4, <1>33, <2>1 DEF Plain
<1>37. Labelled(w, r)
  <2> SUFFICES ASSUME NEW i \in 1 .. k
               PROVE  /\ Plain(w, r[i]) => w.node[r[i]].name = <<w.node[r[i]].elem, 1>>
                      /\ ~Plain(w, r[i]) =>
                           \/ IsPMark(w.node[r[i]].name[1])
                           \/ i = k /\ w.node[r[i]].name = w.node[r[1]].name /\ Plain(w, r[1])
    BY <1>2 DEF Labelled
  <2>1. /\ Plain(s, r[i]) => s.node[r[i]].name = <<s.node[r[i]].elem, 1>>
        /\ ~Plain(s, r[i]) =>
             \/ IsPMark(s.node[r[i]].name[1])
             \/ i = k /\ s.node[r[i]].name = s.node[r[1]].name /\ Plain(s, r[1])
    BY <1>2 DEF Whole, Labelled
  <2>2. CASE i = h
    BY <1>33, <1>36, <2>2
  <2>3. CASE i # h
    <3>1. w.node[r[i]].name = s.node[r[i]].name /\ w.node[r[i]].elem = s.node[r[i]].elem
      BY <1>33, <1>36, <2>3
    <3>2. 1 \in 1 .. k /\ 1 # h
      BY <1>3
    <3>3. w.node[r[1]].name = s.node[r[1]].name /\ (Plain(s, r[1]) => Plain(w, r[1]))
      BY <1>33, <1>36, <3>2
    <3> QED
      BY <1>36, <2>1, <2>3, <3>1, <3>3
  <2> QED
    BY <2>2, <2>3
<1>38. Once(w, r)
  <2> SUFFICES ASSUME NEW i \in 1 .. k, NEW j \in 1 .. k,
                      Plain(w, r[i]), w.node[r[i]].elem = w.node[r[j]].elem
               PROVE  i = j
    BY <1>2 DEF Once
  <2>1. \A x \in 1 .. k : w.node[r[x]].elem = IF x = h THEN e ELSE s.node[r[x]].elem
    BY <1>33, <1>36
  <2>2. \A x \in 1 .. k : s.node[r[x]].elem # e
    BY <1>36
  <2>3. CASE i = h \/ j = h
    BY <2>1, <2>2, <2>3
  <2>4. CASE i # h /\ j # h
    <3>1. Plain(s, r[i]) /\ s.node[r[i]].elem = s.node[r[j]].elem
      BY <1>36, <2>1, <2>4
    <3> QED
      BY <1>2, <3>1 DEF Whole, Once
  <2> QED
    BY <2>3, <2>4
<1>39. Listed(w, L, r, p)
  <2>1. Len(D) = Len(list) - 1 /\ Len(L) = Len(D) + 1 /\ Len(D) \in Nat /\ p - 1 \in 0 .. Len(D)
    BY <1>7, <1>11, <1>27 DEF Narrowed, Widened
  <2>2. FirstOf(L, p) = FirstOf(D, p - 1) \union {n}
    <3>1. FirstOf(L, (p - 1) + 1) = FirstOf(D, p - 1) \union {n}
      BY ONLY <1>25, <1>27, <2>1, FirstWidened
    <3>2. (p - 1) + 1 = p
      BY <1>7
    <3> QED
      BY <3>1, <3>2
  <2>3. FirstOf(L, Len(L)) = FirstOf(D, Len(D)) \union {n}
    <3>1. PICK l : l = Len(D)
      OBVIOUS
    <3>2. Len(D) \in Nat /\ l \in 0 .. Len(D) /\ b \in 1 .. l + 1
      BY <1>7, <2>1, <3>1
    <3>3. FirstOf(L, l + 1) = FirstOf(D, l) \union {n}
      BY ONLY <1>27, <3>2, FirstWidened
    <3> QED
      BY <2>1, <3>1, <3>3
  <2>4. n \in Places(r)
    BY <1>2, <1>3 DEF Places
  <2>5. FirstOf(L, Len(L)) \subseteq Places(r)
    BY <1>6, <1>14, <2>3, <2>4
  <2>6. FirstOf(L, p) = PlainOf(w, r)
    <3>1. PlainOf(w, r) = PlainOf(s, r) \union {n}
      <4>1. \A m \in Places(r) : Plain(w, m) <=> (m = n \/ Plain(s, m))
        BY <1>3, <1>4, <1>33 DEF Plain
      <4> QED
        BY <2>4, <4>1 DEF PlainOf
    <3> QED
      BY <1>6, <1>13, <2>2, <3>1
  <2>7. Sorted(w, L, p)
    <3>1. \A i \in 1 .. Len(L) : L[i] \in DOMAIN w.node /\ w.node[L[i]].name = t.node[L[i]].name
      <4>1. \A i \in 1 .. Len(L) : L[i] \in DOMAIN t.node
        BY <1>27 DEF Sorted
      <4> QED
        BY <1>29, <1>31, <1>32, <4>1
    <3> QED
      BY ONLY <1>27, <3>1, SortedSame
  <2> QED
    BY <2>5, <2>6, <2>7, ListedIs
<1>40. Whole(w, r, p)
  BY <1>32, <1>34, <1>35, <1>37, <1>38, <1>39 DEF Whole
<1>41. /\ DOMAIN w.node = DOMAIN s.node
       /\ w.occ_list = [s.occ_list EXCEPT ![e] = 1] /\ w.ref_flag = s.ref_flag
       /\ w.node[n].elem = e /\ \A m \in DOMAIN s.node : m # n => w.node[m].elem = s.node[m].elem
       /\ \A m \in DOMAIN s.node : /\ w.node[m].from_name = s.node[m].from_name
                                   /\ w.node[m].position = s.node[m].position
                                   /\ w.node[m].at_value = s.node[m].at_value
  BY <1>15, <1>32, <1>33, <1>34
<1> QED
  BY ONLY <1>40, <1>41 DEF Exchanged

-----------------------------------------------------------------------------
(* The places declared for the nodes.                                      *)

Own(s, n) == s.node[n].at_value + s.ref_flag * Half[s.node[n].elem]

(***************************************************************************)
(* The places of all nodes, f being those that one reference less leads to. *)
(***************************************************************************)
OneReference(s, f) ==
  [n \in DOMAIN s.node |->
     IF s.node[n].from_name = NoName THEN {Own(s, n)}
     ELSE IF ~Has(s, s.nodes, s.node[n].from_name) THEN {}
     ELSE {Own(s, n) + p : p \in f[Lookup(s, s.node[n].from_name)]}]

NoReference(s) ==
  [n \in DOMAIN s.node |-> IF s.node[n].from_name = NoName THEN {Own(s, n)} ELSE {}]

LEMMA OwnIs ==
  ASSUME NEW s, Shaped(s), NEW n \in DOMAIN s.node
  PROVE  Own(s, n) \in Int
<1>1. s.node[n] \in NodeRecord
  BY NodeIs
<1>2. s.node[n].at_value \in Int /\ s.node[n].elem \in Known
  BY <1>1 DEF NodeRecord
<1>3. s.ref_flag \in Int
  BY DEF Shaped
<1>4. Half[s.node[n].elem] \in Int
  BY <1>2, SequenceEditAssumption
<1> QED
  BY <1>2, <1>3, <1>4 DEF Own

LEMMA LookupIs ==
  ASSUME NEW s, s.nodes \in Seq(DOMAIN s.node), NEW x, Has(s, s.nodes, x)
  PROVE  Lookup(s, x) \in DOMAIN s.node
<1>1. Len(s.nodes) \in Nat
  OBVIOUS
<1>2. PICK out : out = Probe(s, s.nodes, x)
  OBVIOUS
<1>3. out.hit = FALSE \/ out.at \in 1 .. Len(s.nodes)
  BY <1>1, <1>2, ProbeSound
<1>4. out.hit
  BY <1>2 DEF Has
<1> QED
  BY <1>2, <1>3, <1>4 DEF Lookup

LEMMA OneReferenceIs ==
  ASSUME NEW s, Shaped(s), s.nodes \in Seq(DOMAIN s.node), NEW f \in [DOMAIN s.node -> SUBSET Int]
  PROVE  OneReference(s, f) \in [DOMAIN s.node -> SUBSET Int]
<1>1. ASSUME NEW n \in DOMAIN s.node, Has(s, s.nodes, s.node[n].from_name)
      PROVE  {Own(s, n) + p : p \in f[Lookup(s, s.node[n].from_name)]} \subseteq Int
  <2>1. Lookup(s, s.node[n].from_name) \in DOMAIN s.node
    BY <1>1, LookupIs
  <2>2. f[Lookup(s, s.node[n].from_name)] \subseteq Int
    BY <2>1
  <2>3. Own(s, n) \in Int
    BY OwnIs
  <2> QED
    BY <2>2, <2>3
<1>2. \A n \in DOMAIN s.node : Own(s, n) \in Int
  BY OwnIs
<1> QED
  BY <1>1, <1>2 DEF OneReference

(***************************************************************************)
(* The places that d references lead to, for each number d: those computed *)
(* are the ones of as many references as there are nodes.                  *)
(***************************************************************************)
Referred(s, size, pos) ==
  /\ size = Cardinality(DOMAIN s.node) /\ size \in Nat /\ Declared(s) = pos[size]
  /\ \A d \in 0 .. size : /\ pos[d] \in [DOMAIN s.node -> SUBSET Int]
                           /\ pos[d] = IF d = 0 THEN NoReference(s) ELSE OneReference(s, pos[d - 1])

LEMMA ReferredIs ==
  ASSUME NEW s, Shaped(s), s.nodes \in Seq(DOMAIN s.node)
  PROVE  \E size, pos : Referred(s, size, pos)
<1> DEFINE C == Cardinality(DOMAIN s.node)
           S == [DOMAIN s.node -> SUBSET Int]
           step == [d \in Nat |-> [f \in S |-> OneReference(s, f)]]
           Body(g) == [d \in 0 .. C |->
             [n \in DOMAIN s.node |->
                IF s.node[n].from_name = NoName
                THEN {s.node[n].at_value + s.ref_flag * Half[s.node[n].elem]}
                ELSE IF d = 0 \/ ~Has(s, s.nodes, s.node[n].from_name) THEN {}
                ELSE {s.node[n].at_value + s.ref_flag * Half[s.node[n].elem] + p :
                        p \in g[d - 1][Lookup(s, s.node[n].from_name)]}]]
           pos == CHOOSE g : g = Body(g)
<1>1. C \in Nat
  BY FS_CardinalityType DEF Shaped
<1>2. Declared(s) = pos[C]
  BY DEF Declared
<1>3. NoReference(s) \in S
  <2>1. \A n \in DOMAIN s.node : Own(s, n) \in Int
    BY OwnIs
  <2> QED
    BY <2>1 DEF NoReference
<1>4. \A f \in S : OneReference(s, f) \in S
  BY OneReferenceIs
<1> HIDE DEF C, S
<1>5. step \in [Nat -> [S -> S]]
  BY <1>4
<1> HIDE DEF step
<1>6. PICK G : Iterates(G, S, NoReference(s), step)
  BY <1>3, <1>5, Iteration
<1>7. /\ G \in [Nat -> S] /\ G[0] = NoReference(s)
      /\ \A d \in Nat : G[d + 1] = OneReference(s, G[d])
  <2>1. /\ G \in [Nat -> S] /\ G[0] = NoReference(s)
        /\ \A d \in Nat : G[d + 1] = step[d + 1][G[d]]
    BY ONLY <1>6 DEF Iterates
  <2>2. \A d \in Nat, f \in S : step[d + 1][f] = OneReference(s, f)
    BY DEF step
  <2>3. ASSUME NEW d \in Nat
        PROVE  G[d + 1] = OneReference(s, G[d])
    <3>1. G[d + 1] = step[d + 1][G[d]]
      BY <2>1
    <3>2. PICK f \in S : f = G[d]
      BY <2>1
    <3> QED
      BY <2>2, <3>1, <3>2
  <2> QED
    BY <2>1, <2>3
<1>8. \E g : g = Body(g)
  <2>1. PICK g : g = [d \in 0 .. C |-> G[d]]
    OBVIOUS
  <2>2. \A d \in 0 .. C : g[d] = [n \in DOMAIN s.node |->
                IF s.node[n].from_name = NoName
                THEN {s.node[n].at_value + s.ref_flag * Half[s.node[n].elem]}
                ELSE IF d = 0 \/ ~Has(s, s.nodes, s.node[n].from_name) THEN {}
                ELSE {s.node[n].at_value + s.ref_flag * Half[s.node[n].elem] + p :
                        p \in g[d - 1][Lookup(s, s.node[n].from_name)]}]
    <3> SUFFICES ASSUME NEW d \in 0 .. C
                 PROVE  g[d] = [n \in DOMAIN s.node |->
                IF s.node[n].from_name = NoName
                THEN {s.node[n].at_value + s.ref_flag * Half[s.node[n].elem]}
                ELSE IF d = 0 \/ ~Has(s, s.nodes, s.node[n].from_name) THEN {}
                ELSE {s.node[n].at_value + s.ref_flag * Half[s.node[n].elem] + p :
                        p \in g[d - 1][Lookup(s, s.node[n].from_name)]}]
      OBVIOUS
    <3>1. CASE d = 0
      <4>1. g[d] = NoReference(s)
        BY <1>1, <1>7, <2>1, <3>1
      <4> QED
        BY <3>1, <4>1 DEF NoReference, Own
    <3>2. CASE d # 0
      <4>1. d - 1 \in Nat /\ d - 1 \in 0 .. C /\ (d - 1) + 1 = d
        BY <1>1, <3>2
      <4>2. g[d] = OneReference(s, g[d - 1])
        BY <1>7, <2>1, <4>1
      <4> QED
        BY <3>2, <4>2 DEF OneReference, Own
    <3> QED
      BY <3>1, <3>2
  <2>3. g = Body(g)
    <3>1. g = [d \in 0 .. C |-> g[d]]
      BY <2>1
    <3> QED
      BY <2>2, <3>1
  <2> HIDE DEF Body
  <2> QED
    BY <2>3
<1>9. pos = Body(pos)
  <2> HIDE DEF Body
  <2> QED
    BY <1>8
<1> HIDE DEF pos
<1>10. \A d \in 0 .. C : pos[d] = IF d = 0 THEN NoReference(s) ELSE OneReference(s, pos[d - 1])
  <2> SUFFICES ASSUME NEW d \in 0 .. C
               PROVE  pos[d] = IF d = 0 THEN NoReference(s) ELSE OneReference(s, pos[d - 1])
    OBVIOUS
  <2>1. pos[d] = Body(pos)[d]
    BY <1>9
  <2> QED
    BY <2>1 DEF NoReference, OneReference, Own
<1> HIDE DEF Body
<1> DEFINE T == {d \in Nat : d <= C => pos[d] \in S}
<1>11. 0 \in T
  BY <1>1, <1>3, <1>10
<1>12. \A d \in Nat : d \in T => d + 1 \in T
  <2> SUFFICES ASSUME NEW d \in Nat, d \in T, d + 1 <= C
               PROVE  pos[d + 1] \in S
    OBVIOUS
  <2>1. pos[d] \in S /\ d + 1 \in 0 .. C /\ d + 1 # 0 /\ (d + 1) - 1 = d
    BY <1>1
  <2>2. pos[d + 1] = OneReference(s, pos[d])
    BY <1>10, <2>1
  <2> QED
    BY <1>4, <2>1, <2>2
<1>13. \A d \in 0 .. C : pos[d] \in S
  <2> HIDE DEF T
  <2>1. Nat \subseteq T
    BY <1>11, <1>12, SetInduction
  <2>2. \A d \in 0 .. C : d \in T /\ d <= C
    BY <1>1, <2>1
  <2> QED
    BY <2>2 DEF T
<1>14. Referred(s, C, pos)
  <2>1. C = Cardinality(DOMAIN s.node)
    BY DEF C
  <2>2. \A d \in 0 .. C : pos[d] \in [DOMAIN s.node -> SUBSET Int]
    BY <1>13 DEF S
  <2> QED
    BY ONLY <1>1, <1>2, <1>10, <2>1, <2>2 DEF Referred
<1> QED
  BY <1>14

LEMMA DeclaredIs ==
  ASSUME NEW s, Shaped(s), s.nodes \in Seq(DOMAIN s.node)
  PROVE  /\ Declared(s) \in [DOMAIN s.node -> SUBSET Int]
         /\ \A n \in DOMAIN s.node :
              s.node[n].from_name = NoName => Declared(s)[n] = {Own(s, n)}
<1>1. PICK size, pos : Referred(s, size, pos)
  BY ReferredIs
<1>2. size \in 0 .. size
  BY <1>1 DEF Referred
<1>3. /\ pos[size] \in [DOMAIN s.node -> SUBSET Int] /\ Declared(s) = pos[size]
      /\ pos[size] = NoReference(s) \/ pos[size] = OneReference(s, pos[size - 1])
  BY <1>1, <1>2 DEF Referred
<1> QED
  BY <1>3 DEF NoReference, OneReference

-----------------------------------------------------------------------------
(* all_node_pos and set_new_position: places are set, and nothing else.    *)

(***************************************************************************)
(* All but the places is as it was.                                        *)
(***************************************************************************)
Same(s, w) ==
  /\ DOMAIN w.node = DOMAIN s.node /\ w.nodes = s.nodes
  /\ w.start = s.start /\ w.end = s.end
  /\ w.ref_flag = s.ref_flag /\ w.occ_list = s.occ_list /\ w.ranges = s.ranges
  /\ \A m \in DOMAIN s.node :
       /\ w.node[m].name = s.node[m].name /\ w.node[m].elem = s.node[m].elem
       /\ w.node[m].from_name = s.node[m].from_name
       /\ w.node[m].next = s.node[m].next /\ w.node[m].previous = s.node[m].previous

(***************************************************************************)
(* The place that set_new_position computes for the ith node of the ring.  *)
(***************************************************************************)
NewPlace(s, ring, i) ==
  LET zero == s.node[s.start].position
      raw(j) == s.node[ring[j]].position - zero
      free(j) == s.node[ring[j]].from_name = NoName
      flag(j) == \E h \in 1 .. j - 1 :
                   /\ free(h)
                   /\ raw(h) > 0 \/ (raw(h) < 0 /\ raw(h) + Length > 0)
      wraps(j) == raw(j) < 0 \/ (raw(j) = 0 /\ flag(j))
  IN  IF ring[i] = s.end THEN Length
      ELSE IF wraps(i) THEN raw(i) + Length ELSE raw(i)

LEMMA WholeIs ==
  ASSUME NEW s, NEW r, NEW p, Whole(s, r, p)
  PROVE  /\ Shaped(s) /\ Closed(s, r) /\ s.start = r[1] /\ s.end = r[Len(r)]
         /\ r \in Seq(DOMAIN s.node) /\ Len(r) \in Nat /\ Len(r) >= 2
         /\ \A i, j \in 1 .. Len(r) : r[i] = r[j] => i = j
         /\ Places(r) \subseteq DOMAIN s.node /\ s.nodes \in Seq(DOMAIN s.node)
         /\ Ring(s) = r /\ Nodes(s) = Places(r)
<1>1. /\ Shaped(s) /\ Chain(s, r) /\ Closed(s, r) /\ s.start = r[1] /\ s.end = r[Len(r)]
      /\ r \in Seq(DOMAIN s.node) /\ Len(r) \in Nat /\ Len(r) >= 2
      /\ \A i, j \in 1 .. Len(r) : r[i] = r[j] => i = j
  BY DEF Whole, Chain, Closed
<1>2. Places(r) \subseteq DOMAIN s.node
  BY <1>1 DEF Places
<1>3. s.nodes \in Seq(DOMAIN s.node)
  BY DEF Whole, Listed, Sorted
<1>4. Ring(s) = r /\ Nodes(s) = Places(r)
  BY <1>1, RingIs
<1> QED
  BY <1>1, <1>2, <1>3, <1>4

LEMMA WholeOfSame ==
  ASSUME NEW s, NEW r, NEW p, Whole(s, r, p), NEW w, Shaped(w), Same(s, w)
  PROVE  Whole(w, r, p)
<1>1. Places(r) \subseteq DOMAIN s.node
  BY WholeIs
<1>2. SameRing(s, w, r)
  BY <1>1 DEF SameRing, Same
<1> QED
  BY <1>2, WholeSame

LEMMA PositionedIs ==
  ASSUME NEW s, NEW r, NEW p, Whole(s, r, p), Resolved(s), NEW w, w = Positioned(s)
  PROVE  /\ Whole(w, r, p) /\ Shaped(w) /\ Same(s, w)
         /\ \A m \in Places(r) : /\ w.node[m].at_value = s.node[m].at_value
                                 /\ w.node[m].position \in Declared(s)[m]
<1>1. /\ Shaped(s) /\ Places(r) \subseteq DOMAIN s.node /\ s.nodes \in Seq(DOMAIN s.node)
      /\ Nodes(s) = Places(r)
  BY WholeIs
<1>2. Declared(s) \in [DOMAIN s.node -> SUBSET Int]
  BY <1>1, DeclaredIs
<1>3. PICK place : place = [n \in Places(r) |-> CHOOSE p_1 \in Declared(s)[n] : TRUE]
  OBVIOUS
<1>4. \A n \in Places(r) : place[n] \in Declared(s)[n] /\ place[n] \in Int
  <2>1. \A n \in Places(r) : Declared(s)[n] # {}
    BY <1>1 DEF Resolved
  <2>2. \A n \in Places(r) : place[n] \in Declared(s)[n]
    BY <1>3, <2>1
  <2> QED
    BY <1>1, <1>2, <2>2
<1>5. PICK g : g = [n \in DOMAIN s.node |-> IF n \in Places(r) THEN [s.node[n] EXCEPT !.position = place[n]]
                                            ELSE s.node[n]]
  OBVIOUS
<1>6. w = [s EXCEPT !.node = g]
  <2>1. g = [n \in DOMAIN s.node |-> IF n \in Places(r)
                                     THEN [s.node[n] EXCEPT !.position = CHOOSE p_1 \in Declared(s)[n] : TRUE]
                                     ELSE s.node[n]]
    BY <1>3, <1>5
  <2> QED
    BY <1>1, <2>1 DEF Positioned, OnRing
<1>7. \A n \in DOMAIN s.node : s.node[n] \in NodeRecord
  BY <1>1, NodeIs
<1>8. g \in [DOMAIN s.node -> NodeRecord]
  BY <1>4, <1>5, <1>7 DEF NodeRecord
<1>9. PICK N \in SUBSET Address : N = DOMAIN s.node /\ IsFiniteSet(N)
  BY <1>1, NodeIs DEF Shaped
<1>10. /\ Shaped(w) /\ w.node = g
       /\ w.nodes = s.nodes /\ w.start = s.start /\ w.end = s.end
       /\ w.ref_flag = s.ref_flag /\ w.occ_list = s.occ_list /\ w.ranges = s.ranges
  BY ONLY <1>1, <1>6, <1>8, <1>9, NodesSet
<1>11. \A n \in DOMAIN s.node :
         /\ g[n].name = s.node[n].name /\ g[n].elem = s.node[n].elem
         /\ g[n].from_name = s.node[n].from_name /\ g[n].at_value = s.node[n].at_value
         /\ g[n].next = s.node[n].next /\ g[n].previous = s.node[n].previous
         /\ n \in Places(r) => g[n].position = place[n]
  BY <1>5, <1>7 DEF NodeRecord
<1>12. Same(s, w)
  BY <1>8, <1>10, <1>11 DEF Same
<1>13. Whole(w, r, p)
  BY <1>10, <1>12, WholeOfSame
<1> QED
  BY <1>1, <1>4, <1>10, <1>11, <1>12, <1>13

LEMMA WrappedIs ==
  ASSUME NEW s, NEW r, NEW p, Whole(s, r, p), NEW w, w = Wrapped(s)
  PROVE  /\ Whole(w, r, p) /\ Shaped(w) /\ Same(s, w)
         /\ \A i \in 1 .. Len(r) :
              s.node[r[i]].from_name = NoName =>
                /\ w.node[r[i]].position = NewPlace(s, r, i)
                /\ w.node[r[i]].at_value = NewPlace(s, r, i)
<1>1. /\ Shaped(s) /\ Places(r) \subseteq DOMAIN s.node /\ s.nodes \in Seq(DOMAIN s.node)
      /\ Ring(s) = r /\ Nodes(s) = Places(r) /\ Len(r) \in Nat /\ s.start = r[1] /\ Len(r) >= 2
      /\ r \in Seq(DOMAIN s.node)
  BY SMTT(40), WholeIs
<1> DEFINE ring == Ring(s)
           zero == s.node[s.start].position
           raw(i) == s.node[ring[i]].position - zero
           free(i) == s.node[ring[i]].from_name = NoName
           flag(i) == \E j \in 1 .. i - 1 :
                        /\ free(j)
                        /\ raw(j) > 0 \/ (raw(j) < 0 /\ raw(j) + Length > 0)
           wraps(i) == raw(i) < 0 \/ (raw(i) = 0 /\ flag(i))
           place(i) == IF ring[i] = s.end THEN Length
                       ELSE IF wraps(i) THEN raw(i) + Length ELSE raw(i)
           index(n) == CHOOSE i \in DOMAIN ring : ring[i] = n
           Place(n) == IF n = s.end \/ free(index(n))
                       THEN [s.node[n] EXCEPT !.position = place(index(n)),
                                              !.at_value = place(index(n))]
                       ELSE s.node[n]
           g == [n \in DOMAIN s.node |-> IF n \in Nodes(s) THEN Place(n) ELSE s.node[n]]
<1>2. w = [s EXCEPT !.node = g]
  BY DEF Wrapped, OnRing
<1>3. \A n \in DOMAIN s.node : s.node[n] \in NodeRecord
  BY <1>1, NodeIs
<1>4. \A i \in 1 .. Len(r) : place(i) \in Int
  <2>1. \A i \in 1 .. Len(r) : s.node[r[i]].position \in Int
    <3>1. \A i \in 1 .. Len(r) : r[i] \in DOMAIN s.node
      BY <1>1
    <3> QED
      BY <1>3, <3>1 DEF NodeRecord
  <2>2. s.start = r[1] /\ 1 \in 1 .. Len(r) /\ Length \in Int
    BY <1>1, SequenceEditAssumption
  <2>3. zero \in Int
    BY <2>1, <2>2
  <2>4. \A i \in 1 .. Len(r) : raw(i) \in Int
    <3> HIDE DEF zero
    <3> QED
      BY <1>1, <2>1, <2>3
  <2> HIDE DEF raw, wraps
  <2> QED
    BY <1>1, <2>2, <2>4
<1>5. \A n \in Places(r) : index(n) \in 1 .. Len(r)
  <2> SUFFICES ASSUME NEW n \in Places(r)
               PROVE  index(n) \in 1 .. Len(r)
    OBVIOUS
  <2>1. DOMAIN r = 1 .. Len(r)
    BY <1>1
  <2>2. \E i \in DOMAIN r : r[i] = n
    BY <2>1 DEF Places
  <2>3. index(n) \in DOMAIN r
    BY <1>1, <2>2
  <2> HIDE DEF index
  <2> QED
    BY <2>1, <2>3
<1>13. \A i : place(i) = NewPlace(s, r, i)
  <2>1. \A i : place(i) = NewPlace(s, Ring(s), i)
    BY DEF NewPlace
  <2> HIDE DEF place
  <2> QED
    BY <1>1, <2>1
<1>14. \A i \in 1 .. Len(r) : s.node[r[i]].from_name = NoName => free(index(r[i])) /\ index(r[i]) = i
  <2> SUFFICES ASSUME NEW i \in 1 .. Len(r), s.node[r[i]].from_name = NoName
               PROVE  free(index(r[i])) /\ index(r[i]) = i
    OBVIOUS
  <2>1. PICK n : n = r[i]
    OBVIOUS
  <2>2. n \in Places(r)
    BY <2>1 DEF Places
  <2>3. index(n) \in 1 .. Len(r)
    BY <1>5, <2>2
  <2>4. r[index(n)] = n
    <3>1. i \in DOMAIN r
      BY <1>1
    <3> QED
      BY <1>1, <2>1, <3>1
  <2>5. \A x, y \in 1 .. Len(r) : r[x] = r[y] => x = y
    BY WholeIs
  <2> HIDE DEF index
  <2>6. index(n) = i
    BY <2>1, <2>3, <2>4, <2>5
  <2> QED
    BY <1>1, <2>1, <2>6
<1> HIDE DEF place, index, free
<1>6. \A n \in DOMAIN s.node : g[n] \in NodeRecord /\
         /\ g[n].name = s.node[n].name /\ g[n].elem = s.node[n].elem
         /\ g[n].from_name = s.node[n].from_name
         /\ g[n].next = s.node[n].next /\ g[n].previous = s.node[n].previous
  <2> SUFFICES ASSUME NEW n \in DOMAIN s.node
               PROVE  g[n] \in NodeRecord /\
                         /\ g[n].name = s.node[n].name /\ g[n].elem = s.node[n].elem
                         /\ g[n].from_name = s.node[n].from_name
                         /\ g[n].next = s.node[n].next /\ g[n].previous = s.node[n].previous
    OBVIOUS
  <2>1. CASE n \in Places(r) /\ (n = s.end \/ free(index(n)))
    <3>1. PICK x \in Int : x = place(index(n))
      BY <1>4, <1>5, <2>1
    <3>2. g[n] = [s.node[n] EXCEPT !.position = x, !.at_value = x]
      BY <1>1, <2>1, <3>1
    <3> HIDE DEF g
    <3> QED
      BY <1>3, <3>2 DEF NodeRecord
  <2>2. CASE ~(n \in Places(r) /\ (n = s.end \/ free(index(n))))
    <3>1. g[n] = s.node[n]
      BY <1>1, <2>2
    <3> HIDE DEF g
    <3> QED
      BY <1>3, <3>1
  <2> QED
    BY <2>1, <2>2
<1>15. \A i \in 1 .. Len(r) : s.node[r[i]].from_name = NoName =>
         g[r[i]].position = NewPlace(s, r, i) /\ g[r[i]].at_value = NewPlace(s, r, i)
  <2> SUFFICES ASSUME NEW i \in 1 .. Len(r), s.node[r[i]].from_name = NoName
               PROVE  g[r[i]].position = NewPlace(s, r, i) /\ g[r[i]].at_value = NewPlace(s, r, i)
    OBVIOUS
  <2>1. PICK n \in DOMAIN s.node : n = r[i]
    BY <1>1
  <2>2. n \in Places(r) /\ free(index(n)) /\ index(n) = i
    BY <1>14, <2>1 DEF Places
  <2>3. PICK x : x = NewPlace(s, r, i)
    OBVIOUS
  <2>4. x = place(index(n))
    BY <1>13, <2>2, <2>3
  <2>5. g[n] = [s.node[n] EXCEPT !.position = x, !.at_value = x]
    BY <1>1, <2>2, <2>4
  <2> HIDE DEF g
  <2> QED
    BY <1>3, <2>1, <2>3, <2>5 DEF NodeRecord
<1>7. PICK f : f = g
  OBVIOUS
<1>8. f \in [DOMAIN s.node -> NodeRecord]
  <2>1. \A n \in DOMAIN s.node : f[n] \in NodeRecord
    <3> HIDE DEF g
    <3> QED
      BY SMTT(40), <1>6, <1>7
  <2>2. DOMAIN f = DOMAIN s.node /\ f = [n \in DOMAIN f |-> f[n]]
    BY <1>7
  <2> HIDE DEF g
  <2> QED
    BY <2>1, <2>2
<1> HIDE DEF g
<1>9. PICK N \in SUBSET Address : N = DOMAIN s.node /\ IsFiniteSet(N)
  BY <1>1, NodeIs DEF Shaped
<1>10. w = [s EXCEPT !.node = f]
  BY <1>2, <1>7
<1>11. /\ Shaped(w) /\ w.node = f
       /\ w.nodes = s.nodes /\ w.start = s.start /\ w.end = s.end
       /\ w.ref_flag = s.ref_flag /\ w.occ_list = s.occ_list /\ w.ranges = s.ranges
  BY ONLY <1>1, <1>8, <1>9, <1>10, NodesSet
<1>12. Same(s, w)
  BY <1>6, <1>7, <1>8, <1>11 DEF Same
<1>16. w.node = g
  BY <1>7, <1>11
<1> QED
  BY <1>11, <1>12, <1>15, <1>16, WholeOfSame

-----------------------------------------------------------------------------
(* seq_reflect and seq_cycle.                                              *)

(***************************************************************************)
(* A ring of the nodes of another, in any order, and of markers.           *)
(***************************************************************************)
LEMMA WholeOver ==
  ASSUME NEW s, NEW r, NEW p, Whole(s, r, p),
         NEW u, Shaped(u), NEW q, Closed(u, q), u.start = q[1], u.end = q[Len(q)],
         u.nodes = s.nodes, Labelled(u, q), Places(r) \subseteq Places(q),
         \A m \in Places(r) : u.node[m].name = s.node[m].name /\ u.node[m].elem = s.node[m].elem,
         \A m \in Places(q) : m \notin Places(r) => ~Plain(u, m)
  PROVE  Whole(u, q, p)
<1>1. /\ Len(q) \in Nat /\ Places(q) \subseteq DOMAIN u.node
      /\ \A i, j \in 1 .. Len(q) : q[i] = q[j] => i = j
      /\ \A i \in 1 .. Len(q) : q[i] \in Places(q)
  BY DEF Closed, Places
<1>2. /\ Len(r) \in Nat /\ \A i \in 1 .. Len(r) : r[i] \in Places(r)
      /\ \A m \in Places(r) : \E i \in 1 .. Len(r) : m = r[i]
  BY WholeIs DEF Places
<1>3. \A m \in Places(r) : Plain(u, m) <=> Plain(s, m)
  BY DEF Plain
<1>4. Once(u, q)
  <2> SUFFICES ASSUME NEW i \in 1 .. Len(q), NEW j \in 1 .. Len(q),
                      Plain(u, q[i]), u.node[q[i]].elem = u.node[q[j]].elem
               PROVE  i = j
    BY DEF Once
  <2>1. Plain(u, q[j])
    BY DEF Plain
  <2>2. q[i] \in Places(r) /\ q[j] \in Places(r)
    BY <1>1, <2>1
  <2>3. PICK a \in 1 .. Len(r), b \in 1 .. Len(r) : q[i] = r[a] /\ q[j] = r[b]
    BY <1>2, <2>2
  <2>4. Plain(s, r[a]) /\ s.node[r[a]].elem = s.node[r[b]].elem
    BY <1>3, <2>2, <2>3
  <2>5. a = b
    BY <2>4 DEF Whole, Once
  <2> QED
    BY <1>1, <2>3, <2>5
<1>5. Listed(u, u.nodes, q, p)
  <2>1. Listed(s, s.nodes, r, p)
    BY DEF Whole
  <2>2. Places(r) \subseteq DOMAIN u.node
    BY <1>1
  <2>3. Listed(u, s.nodes, r, p)
    BY ONLY <2>1, <2>2, ListedSame,
            \A m \in Places(r) : u.node[m].name = s.node[m].name /\ u.node[m].elem = s.node[m].elem
  <2>4. \A i \in 1 .. Len(q) : Plain(u, q[i]) => \E a \in 1 .. p : s.nodes[a] = q[i]
    <3> SUFFICES ASSUME NEW i \in 1 .. Len(q), Plain(u, q[i])
                 PROVE  \E a \in 1 .. p : s.nodes[a] = q[i]
      OBVIOUS
    <3>1. PICK a \in 1 .. Len(r) : q[i] = r[a]
      BY <1>1, <1>2
    <3> QED
      BY <2>3, <3>1 DEF Listed
  <2> QED
    BY <2>3, <2>4 DEF Listed
<1> QED
  BY <1>4, <1>5 DEF Whole, Chain

LEMMA CountedOver ==
  ASSUME NEW s, NEW r, Counted(s, r), NEW u, NEW q, u.occ_list = s.occ_list,
         \A m \in Places(r) : u.node[m].elem = s.node[m].elem,
         \A m \in Places(q) : m \notin Places(r) => ~Plain(u, m)
  PROVE  Counted(u, q)
<1> SUFFICES ASSUME NEW i \in 1 .. Len(q), Plain(u, q[i])
             PROVE  u.occ_list[u.node[q[i]].elem] = 1
  BY DEF Counted
<1>1. q[i] \in Places(r)
  BY InPlaces
<1>2. PICK a \in 1 .. Len(r) : q[i] = r[a]
  BY <1>1 DEF Places
<1>3. u.node[q[i]].elem = s.node[r[a]].elem
  BY <1>1, <1>2
<1> QED
  BY <1>3 DEF Counted, Plain

(***************************************************************************)
(* No marker of CYCLE has the name of the node that it was cloned from.    *)
(***************************************************************************)
OwnNamed(s, r) == \A m \in Places(r) : ~Plain(s, m) => IsPMark(s.node[m].name[1])

LEMMA NamedIs ==
  ASSUME NEW s, NEW r, Labelled(s, r), OwnNamed(s, r), NEW m \in Places(r)
  PROVE  IF Plain(s, m) THEN s.node[m].name = <<s.node[m].elem, 1>>
                        ELSE IsPMark(s.node[m].name[1])
  BY DEF Labelled, OwnNamed, Places

LEMMA LabelledOver ==
  ASSUME NEW s, NEW r, Labelled(s, r), OwnNamed(s, r), NEW u, NEW q, Places(q) \subseteq Places(r),
         \A m \in Places(r) : u.node[m].name = s.node[m].name /\ u.node[m].elem = s.node[m].elem
  PROVE  Labelled(u, q)
<1> SUFFICES ASSUME NEW i \in 1 .. Len(q)
             PROVE  IF Plain(u, q[i]) THEN u.node[q[i]].name = <<u.node[q[i]].elem, 1>>
                                      ELSE IsPMark(u.node[q[i]].name[1])
  BY DEF Labelled
<1>1. q[i] \in Places(r)
  BY InPlaces
<1>2. Plain(u, q[i]) <=> Plain(s, q[i])
  BY <1>1 DEF Plain
<1> QED
  BY <1>1, <1>2, NamedIs

Reversed(r) == [i \in 1 .. Len(r) |-> r[Len(r) + 1 - i]]

LEMMA ReversedIs ==
  ASSUME NEW s, NEW r, Closed(s, r), NEW u, Places(r) \subseteq DOMAIN u.node,
         \A m \in Places(r) : u.node[m].next = s.node[m].previous /\ u.node[m].previous = s.node[m].next
  PROVE  /\ Closed(u, Reversed(r)) /\ Places(Reversed(r)) = Places(r) /\ Len(Reversed(r)) = Len(r)
         /\ Reversed(r)[1] = r[Len(r)] /\ Reversed(r)[Len(r)] = r[1]
<1>1. PICK k \in Nat : k = Len(r)
  BY DEF Closed
<1>2. PICK q : q = Reversed(r)
  OBVIOUS
<1>3. /\ r \in Seq(DOMAIN s.node) /\ k >= 2
      /\ \A i, j \in 1 .. k : r[i] = r[j] => i = j
      /\ \A i \in 1 .. k : /\ s.node[r[i]].next = r[IF i = k THEN 1 ELSE i + 1]
                           /\ s.node[r[IF i = k THEN 1 ELSE i + 1]].previous = r[i]
  BY <1>1 DEF Closed, Follower
<1>4. \A i \in 1 .. k : r[i] \in Places(r) /\ r[i] \in DOMAIN u.node
  BY <1>1, InPlaces
<1>5. q = [i \in 1 .. k |-> r[k + 1 - i]]
  BY <1>1, <1>2 DEF Reversed
<1>6. \A i \in 1 .. k : k + 1 - i \in 1 .. k /\ q[i] = r[k + 1 - i]
  BY <1>5
<1>7. q \in Seq(DOMAIN u.node) /\ Len(q) = k
  <2>1. q \in [1 .. k -> DOMAIN u.node]
    BY <1>4, <1>5, <1>6
  <2> QED
    BY <2>1
<1>8. \A i, j \in 1 .. k : q[i] = q[j] => i = j
  <2> SUFFICES ASSUME NEW i \in 1 .. k, NEW j \in 1 .. k, q[i] = q[j]
               PROVE  i = j
    OBVIOUS
  <2>1. k + 1 - i = k + 1 - j
    BY <1>3, <1>6
  <2> QED
    BY <2>1
<1>9. \A i \in 1 .. k : /\ u.node[q[i]].next = q[IF i = k THEN 1 ELSE i + 1]
                        /\ u.node[q[IF i = k THEN 1 ELSE i + 1]].previous = q[i]
  <2> SUFFICES ASSUME NEW i \in 1 .. k
               PROVE  /\ u.node[q[i]].next = q[IF i = k THEN 1 ELSE i + 1]
                      /\ u.node[q[IF i = k THEN 1 ELSE i + 1]].previous = q[i]
    OBVIOUS
  <2>1. PICK a \in 1 .. k, b \in 1 .. k : /\ a = k + 1 - i /\ q[i] = r[a]
                                          /\ b = IF a = 1 THEN k ELSE a - 1
    BY <1>3, <1>6
  <2>2. q[IF i = k THEN 1 ELSE i + 1] = r[b]
    <3>1. CASE i = k
      <4>1. 1 \in 1 .. k /\ b = k + 1 - 1
        BY <1>3, <2>1, <3>1
      <4> QED
        BY <1>6, <3>1, <4>1
    <3>2. CASE i # k
      <4>1. i + 1 \in 1 .. k /\ b = k + 1 - (i + 1)
        BY <2>1, <3>2
      <4> QED
        BY <1>6, <3>2, <4>1
    <3> QED
      BY <3>1, <3>2
  <2>3. a = IF b = k THEN 1 ELSE b + 1
    BY <1>3, <2>1
  <2>4. s.node[r[b]].next = r[a] /\ s.node[r[a]].previous = r[b]
    BY <1>3, <2>3
  <2>5. u.node[r[a]].next = s.node[r[a]].previous /\ u.node[r[b]].previous = s.node[r[b]].next
    BY <1>4
  <2> QED
    BY <2>1, <2>2, <2>4, <2>5
<1>10. Closed(u, q)
  BY <1>3, <1>7, <1>8, <1>9 DEF Closed, Follower
<1>11. Places(q) = Places(r)
  <2>1. \A m \in Places(q) : m \in Places(r)
    BY ZenonT(40), <1>1, <1>4, <1>6, <1>7 DEF Places
  <2>2. ASSUME NEW i \in 1 .. k
        PROVE  r[i] \in Places(q)
    <3>1. k + 1 - i \in 1 .. k /\ k + 1 - (k + 1 - i) = i
      OBVIOUS
    <3>2. q[k + 1 - i] = r[i]
      BY <1>6, <3>1
    <3> QED
      BY <1>7, <3>1, <3>2 DEF Places
  <2> QED
    BY <1>1, <2>1, <2>2 DEF Places
<1>12. 1 \in 1 .. k /\ k \in 1 .. k /\ k + 1 - 1 = k /\ k + 1 - k = 1
  BY <1>3
<1>13. q[1] = r[k] /\ q[k] = r[1]
  BY <1>6, <1>12
<1> QED
  BY <1>1, <1>2, <1>7, <1>10, <1>11, <1>13

LEMMA ReflectedIs ==
  ASSUME NEW s, NEW r, NEW p, Whole(s, r, p), OwnNamed(s, r), NEW w, w = Reflected(s)
  PROVE  /\ Whole(w, Reversed(r), p) /\ Places(Reversed(r)) = Places(r)
         /\ DOMAIN w.node = DOMAIN s.node /\ w.occ_list = s.occ_list
         /\ w.ref_flag = s.ref_flag
         /\ \A m \in Places(r) : /\ w.node[m].elem = s.node[m].elem
                                 /\ w.node[m].from_name = NoName
                                 /\ w.node[m].position = Length - s.node[m].position
                                 /\ w.node[m].at_value = Length - s.node[m].position
<1>1. /\ Shaped(s) /\ Closed(s, r) /\ s.start = r[1] /\ s.end = r[Len(r)] /\ Places(r) \subseteq DOMAIN s.node
      /\ Nodes(s) = Places(r) /\ Len(r) \in Nat /\ Len(r) >= 2 /\ r \in Seq(DOMAIN s.node)
  BY WholeIs
<1>2. \A n \in DOMAIN s.node : s.node[n] \in NodeRecord
  BY <1>1, NodeIs
<1>3. PICK Mirror : Mirror = [x \in NodeRecord |-> [x EXCEPT !.next = x.previous, !.previous = x.next,
                             !.from_name = NoName,
                             !.position = Length - x.position,
                             !.at_value = Length - x.position]]
  OBVIOUS
<1>4. \A x \in NodeRecord : /\ Mirror[x] \in NodeRecord
                            /\ Mirror[x].name = x.name /\ Mirror[x].elem = x.elem
                            /\ Mirror[x].next = x.previous /\ Mirror[x].previous = x.next
                            /\ Mirror[x].from_name = NoName
                            /\ Mirror[x].position = Length - x.position
                            /\ Mirror[x].at_value = Length - x.position
  <2> SUFFICES ASSUME NEW x \in NodeRecord
               PROVE  /\ Mirror[x] \in NodeRecord
                      /\ Mirror[x].name = x.name /\ Mirror[x].elem = x.elem
                      /\ Mirror[x].next = x.previous /\ Mirror[x].previous = x.next
                      /\ Mirror[x].from_name = NoName
                      /\ Mirror[x].position = Length - x.position
                      /\ Mirror[x].at_value = Length - x.position
    OBVIOUS
  <2>1. Length \in Int /\ NoName \in Name
    BY SequenceEditAssumption DEF NoName, Name
  <2>2. /\ x.name \in Name /\ x.elem \in Known /\ x.position \in Int
        /\ x.next \in Address /\ x.previous \in Address
    BY DEF NodeRecord
  <2>3. PICK z \in Int : z = Length - x.position
    BY <2>1, <2>2
  <2>4. Mirror[x] = [name |-> x.name, elem |-> x.elem, at_value |-> z, from_name |-> NoName,
                     position |-> z, next |-> x.previous, previous |-> x.next]
    <3>1. Mirror[x] = [x EXCEPT !.next = x.previous, !.previous = x.next, !.from_name = NoName,
                                !.position = z, !.at_value = z]
      BY <1>3, <2>3
    <3>2. x = [name |-> x.name, elem |-> x.elem, at_value |-> x.at_value, from_name |-> x.from_name,
               position |-> x.position, next |-> x.next, previous |-> x.previous]
      BY DEF NodeRecord
    <3> QED
      BY <3>1, <3>2
  <2> QED
    BY <2>1, <2>2, <2>3, <2>4 DEF NodeRecord
<1>5. PICK g : g = [n \in DOMAIN s.node |-> IF n \in Places(r) THEN Mirror[s.node[n]] ELSE s.node[n]]
  OBVIOUS
<1>6. g \in [DOMAIN s.node -> NodeRecord]
  BY <1>2, <1>4, <1>5
<1>7. PICK t : t = [s EXCEPT !.node = g]
  OBVIOUS
<1>8. PICK v : v = [t EXCEPT !.start = s.end]
  OBVIOUS
<1>9. w = [v EXCEPT !.end = s.start]
  <2>1. g = [n \in DOMAIN s.node |->
               IF n \in Places(r)
               THEN [s.node[n] EXCEPT !.next = s.node[n].previous, !.previous = s.node[n].next,
                             !.from_name = NoName,
                             !.position = Length - s.node[n].position,
                             !.at_value = Length - s.node[n].position]
               ELSE s.node[n]]
    BY <1>2, <1>3, <1>5
  <2>2. PICK y : y = OnRing(s, LAMBDA n : [s.node[n] EXCEPT !.next = s.node[n].previous, !.previous = s.node[n].next,
                             !.from_name = NoName,
                             !.position = Length - s.node[n].position,
                             !.at_value = Length - s.node[n].position])
    OBVIOUS
  <2>3. Reflected(s) = [y EXCEPT !.start = s.end, !.end = s.start]
    BY <2>2 DEF Reflected
  <2>4. y = t
    BY <1>1, <1>7, <2>1, <2>2 DEF OnRing
  <2> QED
    BY <1>8, <2>3, <2>4
<1>10. PICK N \in SUBSET Address : N = DOMAIN s.node /\ IsFiniteSet(N)
  BY <1>1, NodeIs DEF Shaped
<1>11. /\ Shaped(t) /\ t.node = g
       /\ t.nodes = s.nodes /\ t.start = s.start /\ t.end = s.end
       /\ t.ref_flag = s.ref_flag /\ t.occ_list = s.occ_list /\ t.ranges = s.ranges
  BY ONLY <1>1, <1>6, <1>7, <1>10, NodesSet
<1>12. s.start \in Address /\ s.end \in Address
  BY <1>1 DEF Shaped
<1>13. /\ Shaped(v) /\ v.start = s.end
       /\ v.node = t.node /\ v.nodes = t.nodes /\ v.end = t.end
       /\ v.ref_flag = t.ref_flag /\ v.occ_list = t.occ_list /\ v.ranges = t.ranges
  BY ONLY <1>8, <1>11, <1>12, StartSet
<1>14. /\ Shaped(w) /\ w.end = s.start
       /\ w.node = v.node /\ w.nodes = v.nodes /\ w.start = v.start
       /\ w.ref_flag = v.ref_flag /\ w.occ_list = v.occ_list /\ w.ranges = v.ranges
  BY ONLY <1>9, <1>12, <1>13, EndSet
<1>15. /\ w.node = g /\ w.nodes = s.nodes /\ w.start = s.end /\ w.end = s.start
       /\ w.ref_flag = s.ref_flag /\ w.occ_list = s.occ_list /\ DOMAIN w.node = DOMAIN s.node
  BY <1>6, <1>11, <1>13, <1>14
<1>16. \A m \in Places(r) : /\ w.node[m].name = s.node[m].name /\ w.node[m].elem = s.node[m].elem
                            /\ w.node[m].next = s.node[m].previous /\ w.node[m].previous = s.node[m].next
                            /\ w.node[m].from_name = NoName
                            /\ w.node[m].position = Length - s.node[m].position
                            /\ w.node[m].at_value = Length - s.node[m].position
  BY <1>1, <1>2, <1>4, <1>5, <1>15
<1>17. PICK q : q = Reversed(r)
  OBVIOUS
<1>18. Closed(w, q) /\ Places(q) = Places(r) /\ Len(q) = Len(r) /\ q[1] = r[Len(r)] /\ q[Len(q)] = r[1]
  <2>1. Places(r) \subseteq DOMAIN w.node
    BY <1>1, <1>15
  <2>2. \A m \in Places(r) : w.node[m].next = s.node[m].previous /\ w.node[m].previous = s.node[m].next
    BY <1>16
  <2> QED
    BY <1>1, <1>17, <2>1, <2>2, ReversedIs
<1>19. Labelled(w, q)
  <2>1. Labelled(s, r) /\ Places(q) \subseteq Places(r)
    BY <1>18 DEF Whole
  <2>2. \A m \in Places(r) : w.node[m].name = s.node[m].name /\ w.node[m].elem = s.node[m].elem
    BY <1>16
  <2> QED
    BY ONLY <2>1, <2>2, OwnNamed(s, r), LabelledOver
<1>20. Whole(w, q, p)
  <2>1. /\ w.start = q[1] /\ w.end = q[Len(q)] /\ w.nodes = s.nodes /\ Places(r) \subseteq Places(q)
        /\ \A m \in Places(r) : w.node[m].name = s.node[m].name /\ w.node[m].elem = s.node[m].elem
        /\ \A m \in Places(q) : m \notin Places(r) => ~Plain(w, m)
    BY <1>1, <1>15, <1>16, <1>18
  <2> QED
    BY ONLY Whole(s, r, p), <1>14, <1>18, <1>19, <2>1, WholeOver
<1> QED
  BY <1>15, <1>16, <1>17, <1>18, <1>20

(***************************************************************************)
(* n has in t the place, and the reference, that m has in s.               *)
(***************************************************************************)
AsPlaced(s, m, t, n) ==
  /\ t.node[n].from_name = s.node[m].from_name
  /\ t.node[n].position = s.node[m].position
  /\ t.node[n].at_value = s.node[m].at_value

(***************************************************************************)
(* The nodes of r in t, from the jth on and around to the one before, and  *)
(* perhaps a marker, at the place of the first.                            *)
(***************************************************************************)
Wound(s, r, t, q, j) ==
  /\ j \in 1 .. Len(r) /\ Len(q) \in {Len(r), Len(r) + 1}
  /\ \A i \in 1 .. Len(q) :
       AsPlaced(s, IF i <= Len(r) THEN Turned(r, j)[i] ELSE r[j], t, q[i])

Ended(s, x, y) == [s EXCEPT !.start = x, !.end = y]

LEMMA EndsSet ==
  ASSUME NEW s, Shaped(s), NEW x \in Address, NEW y \in Address,
         NEW t, t = Ended(s, x, y)
  PROVE  /\ Shaped(t) /\ t.start = x /\ t.end = y
         /\ t.node = s.node /\ t.nodes = s.nodes
         /\ t.ref_flag = s.ref_flag /\ t.occ_list = s.occ_list /\ t.ranges = s.ranges
<1>1. PICK v : v = [s EXCEPT !.start = x]
  OBVIOUS
<1>2. t = [v EXCEPT !.end = y]
  BY <1>1 DEF Ended
<1>3. /\ Shaped(v) /\ v.start = x
      /\ v.node = s.node /\ v.nodes = s.nodes /\ v.end = s.end
      /\ v.ref_flag = s.ref_flag /\ v.occ_list = s.occ_list /\ v.ranges = s.ranges
  BY ONLY Shaped(s), x \in Address, <1>1, StartSet
<1>4. /\ Shaped(t) /\ t.end = y
      /\ t.node = v.node /\ t.nodes = v.nodes /\ t.start = v.start
      /\ t.ref_flag = v.ref_flag /\ t.occ_list = v.occ_list /\ t.ranges = v.ranges
  BY ONLY y \in Address, <1>2, <1>3, EndSet
<1> QED
  BY <1>3, <1>4

(***************************************************************************)
(* The search finds the marker to start at, in the ring.                   *)
(***************************************************************************)
LEMMA StartIs ==
  ASSUME NEW s, NEW r, NEW p, Whole(s, r, p), OwnNamed(s, r), NEW x \in Element \union {START, END},
         NEW d, Has(s, s.nodes, <<x, d>>), NEW n, n = Lookup(s, <<x, d>>)
  PROVE  /\ n \in Places(r) /\ Plain(s, n) /\ s.node[n].name = <<x, d>>
         /\ s.node[n].elem = x /\ d = 1
<1>1. Shaped(s) /\ s.nodes \in Seq(DOMAIN s.node) /\ Labelled(s, r) /\ Listed(s, s.nodes, r, p)
  BY WholeIs DEF Whole
<1>2. Len(s.nodes) \in Nat
  BY <1>1
<1>3. PICK name : name = <<x, d>>
  OBVIOUS
<1>4. PICK out : out = Probe(s, s.nodes, name)
  OBVIOUS
<1>5. out.hit = FALSE \/ (out.at \in 1 .. Len(s.nodes) /\ NameOf(s, s.nodes[out.at]) = name)
  BY <1>2, <1>4, ProbeSound
<1>6. out.hit /\ n = s.nodes[out.at]
  BY <1>3, <1>4 DEF Has, Lookup
<1>7. n \in Places(r) /\ n \in DOMAIN s.node /\ NameOf(s, n) = name
  BY <1>1, <1>5, <1>6 DEF Listed
<1>8. s.node[n].name = name
  BY <1>1, <1>7, NodeIs
<1>9. ~IsPMark(x)
  BY KnownIs
<1>10. ~IsPMark(s.node[n].name[1])
  BY <1>3, <1>8, <1>9
<1>11. Plain(s, n) /\ s.node[n].name = <<s.node[n].elem, 1>>
  BY SMTT(40), <1>1, <1>7, <1>10, NamedIs
<1> QED
  BY <1>3, <1>7, <1>8, <1>11

(***************************************************************************)
(* The marker in front of the new start: a node of its own, with all that  *)
(* the start has but the element, behind the last of the ring.             *)
(***************************************************************************)
Cloned(s, n, c, e) ==
  [s EXCEPT !.node = [x \in DOMAIN @ \union {c} |-> IF x = c THEN [s.node[n] EXCEPT !.elem = e] ELSE @[x]]]

LEMMA MarkedIs ==
  ASSUME NEW s, Shaped(s), NEW r, Closed(s, r), DOMAIN s.node = Places(r), NEW m \in Marker,
         NEW n, n = r[1], NEW c, c = Fresh(s, PMark(m)),
         NEW t, t = Linked(Cloned(s, n, c, PMark(m)), c, n)
  PROVE  \E q : /\ Shaped(t) /\ Closed(t, q) /\ q[1] = n /\ q[Len(q)] = c /\ c \notin Places(r)
                /\ Places(q) = Places(r) \union {c} /\ DOMAIN t.node = Places(q)
                /\ \A i \in 1 .. Len(q) : q[i] = IF i = Len(q) THEN c ELSE r[i]
                /\ Len(q) = Len(r) + 1
                /\ t.nodes = s.nodes /\ t.occ_list = s.occ_list /\ t.ref_flag = s.ref_flag
                /\ t.node[c].elem = PMark(m) /\ t.node[c].name = s.node[n].name
                /\ \A x \in Places(r) : t.node[x].name = s.node[x].name /\ t.node[x].elem = s.node[x].elem
                /\ AsPlaced(s, n, t, c) /\ \A x \in Places(r) : AsPlaced(s, x, t, x)
<1>1. PICK k \in Nat : k = Len(r)
  BY DEF Closed
<1>2. r \in Seq(DOMAIN s.node) /\ k >= 2 /\ n \in DOMAIN s.node /\ n \in Places(r)
  BY <1>1, InPlaces DEF Closed
<1>3. PMark(m) \in Known /\ c \in Address /\ c \notin DOMAIN s.node
  <2>1. PMark(m) \in Known
    BY KnownIs
  <2> QED
    BY <2>1, FreshIs
<1>4. s.node \in [DOMAIN s.node -> NodeRecord] /\ DOMAIN s.node \subseteq Address
  BY NodeIs
<1>5. PICK clone : clone = [s.node[n] EXCEPT !.elem = PMark(m)]
  OBVIOUS
<1>6. /\ clone \in NodeRecord /\ clone.elem = PMark(m) /\ clone.name = s.node[n].name
      /\ clone.from_name = s.node[n].from_name /\ clone.position = s.node[n].position
      /\ clone.at_value = s.node[n].at_value
  <2>1. s.node[n] \in NodeRecord
    BY <1>2, <1>4
  <2> QED
    BY <1>3, <1>5, <2>1 DEF NodeRecord
<1>7. PICK g : g = [x \in DOMAIN s.node \union {c} |-> IF x = c THEN clone ELSE s.node[x]]
  OBVIOUS
<1>8. PICK N \in SUBSET Address : N = DOMAIN s.node \union {c} /\ IsFiniteSet(N)
  <2>1. IsFiniteSet(DOMAIN s.node)
    BY DEF Shaped
  <2>2. IsFiniteSet(DOMAIN s.node \union {c})
    BY ONLY <2>1, FS_AddElement
  <2> QED
    BY <1>3, <1>4, <2>2
<1>9. g \in [N -> NodeRecord]
  BY <1>4, <1>6, <1>7, <1>8
<1>10. PICK u : u = [s EXCEPT !.node = g]
  OBVIOUS
<1>11. t = Linked(u, c, n)
  <2>1. Cloned(s, n, c, PMark(m))
          = [s EXCEPT !.node = [x \in DOMAIN s.node \union {c} |->
                                  IF x = c THEN [s.node[n] EXCEPT !.elem = PMark(m)] ELSE s.node[x]]]
    BY DEF Cloned
  <2>2. g = [x \in DOMAIN s.node \union {c} |->
               IF x = c THEN [s.node[n] EXCEPT !.elem = PMark(m)] ELSE s.node[x]]
    BY <1>5, <1>7
  <2> QED
    BY <1>10, <2>1, <2>2
<1>12. /\ Shaped(u) /\ u.node = g
       /\ u.nodes = s.nodes /\ u.start = s.start /\ u.end = s.end
       /\ u.ref_flag = s.ref_flag /\ u.occ_list = s.occ_list /\ u.ranges = s.ranges
  BY ONLY Shaped(s), <1>8, <1>9, <1>10, NodesSet
<1>13. /\ DOMAIN u.node = DOMAIN s.node \union {c} /\ u.node[c] = clone
       /\ \A x \in DOMAIN s.node : u.node[x] = s.node[x]
  BY <1>3, <1>7, <1>12
<1>14. Closed(u, r)
  <2>1. Places(r) \subseteq DOMAIN u.node
    BY <1>13
  <2>2. \A x \in Places(r) : u.node[x].next = s.node[x].next /\ u.node[x].previous = s.node[x].previous
    BY <1>13
  <2> QED
    BY <2>1, <2>2, ClosedSame
<1>15. PICK j : j = k + 1
  OBVIOUS
<1>16. PICK q : q = InsertAt(r, j, c)
  OBVIOUS
<1>17. /\ c \in DOMAIN u.node /\ c \notin Places(r) /\ j \in 2 .. Len(r) + 1 /\ n = r[IF j <= Len(r) THEN j ELSE 1]
  BY <1>1, <1>2, <1>3, <1>13, <1>15
<1>18. Shaped(t) /\ Alike(u, t) /\ Closed(t, q)
  <2>1. /\ Shaped(Linked(u, c, n)) /\ Alike(u, Linked(u, c, n))
        /\ Closed(Linked(u, c, n), InsertAt(r, j, c))
    BY ONLY <1>12, <1>14, <1>17, LinkedIs
  <2> QED
    BY <1>11, <1>16, <2>1
<1>19. Widened(q, r, j, c)
  <2>1. j \in 1 .. Len(r) + 1 /\ r \in Seq(DOMAIN u.node) /\ c \in DOMAIN u.node
    BY <1>1, <1>14, <1>15, <1>17 DEF Closed
  <2> QED
    BY ONLY <1>16, <2>1, WidenedIs
<1>20. /\ Len(q) = k + 1 /\ \A i \in 1 .. k + 1 : q[i] = IF i = k + 1 THEN c ELSE r[i]
  BY <1>1, <1>15, <1>19 DEF Widened
<1>21. Places(q) = Places(r) \union {c}
  <2>1. j \in 2 .. Len(r) + 1 /\ Len(r) \in Nat
    BY <1>1, <1>17
  <2> QED
    BY ONLY <1>19, <2>1, WidenedPlaces
<1>22. 1 \in 1 .. k + 1 /\ 1 # k + 1 /\ k + 1 \in 1 .. k + 1
  BY <1>2
<1>23. /\ t.nodes = s.nodes /\ t.occ_list = s.occ_list /\ t.ref_flag = s.ref_flag
       /\ DOMAIN t.node = Places(q) /\ t.node[c].elem = PMark(m) /\ t.node[c].name = s.node[n].name
       /\ \A x \in Places(r) : t.node[x].name = s.node[x].name /\ t.node[x].elem = s.node[x].elem
  <2>1. /\ t.nodes = s.nodes /\ t.occ_list = s.occ_list /\ t.ref_flag = s.ref_flag
        /\ DOMAIN t.node = DOMAIN u.node
        /\ \A x \in DOMAIN u.node : t.node[x].name = u.node[x].name /\ t.node[x].elem = u.node[x].elem
    BY <1>12, <1>18 DEF Alike
  <2>2. c \in DOMAIN u.node /\ Places(r) \subseteq DOMAIN u.node
    BY <1>13
  <2> QED
    BY <1>6, <1>13, <1>21, <2>1, <2>2
<1>24. AsPlaced(s, n, t, c) /\ \A x \in Places(r) : AsPlaced(s, x, t, x)
  <2>1. \A x \in DOMAIN u.node : /\ t.node[x].from_name = u.node[x].from_name
                                 /\ t.node[x].position = u.node[x].position
                                 /\ t.node[x].at_value = u.node[x].at_value
    BY <1>18 DEF Alike
  <2>2. c \in DOMAIN u.node /\ Places(r) \subseteq DOMAIN u.node
    BY <1>13
  <2> QED
    BY <1>6, <1>13, <2>1, <2>2 DEF AsPlaced
<1> QED
  BY <1>1, <1>17, <1>18, <1>20, <1>21, <1>22, <1>23, <1>24

(***************************************************************************)
(* The ring that starts at the marker, before its places are set anew.     *)
(***************************************************************************)
TurnedTo(s, r, p, v, q) ==
  /\ Whole(v, q, p) /\ DOMAIN v.node = Places(q) /\ Places(r) \subseteq Places(q)
  /\ v.occ_list = s.occ_list /\ v.ref_flag = s.ref_flag
  /\ \A x \in Places(r) : v.node[x].elem = s.node[x].elem /\ v.node[x].from_name = s.node[x].from_name
  /\ \A x \in Places(q) : x \notin Places(r) => ~Plain(v, x)

LEMMA TurnedToIs ==
  ASSUME NEW s, NEW r, NEW p, Whole(s, r, p), DOMAIN s.node = Places(r), OwnNamed(s, r),
         NEW m \in Marker, Has(s, s.nodes, <<m, 1>>), NEW w, w = Cycled(s, m)
  PROVE  \E v, q, j : w = Wrapped(v) /\ TurnedTo(s, r, p, v, q) /\ Wound(s, r, v, q, j)
<1>1. /\ Shaped(s) /\ Closed(s, r) /\ Places(r) \subseteq DOMAIN s.node /\ Labelled(s, r)
      /\ Len(r) \in Nat /\ Len(r) >= 2 /\ r \in Seq(DOMAIN s.node) /\ DOMAIN s.node \subseteq Address
  BY WholeIs, NodeIs DEF Whole
<1>2. PICK n : n = Lookup(s, <<m, 1>>)
  OBVIOUS
<1>3. n \in Places(r) /\ Plain(s, n) /\ s.node[n].name = <<m, 1>>
  <2>1. m \in Element \union {START, END}
    BY SequenceEditAssumption
  <2>2. PICK d : d = 1
    OBVIOUS
  <2>3. Has(s, s.nodes, <<m, d>>) /\ n = Lookup(s, <<m, d>>)
    BY <1>2, <2>2
  <2>4. n \in Places(r) /\ Plain(s, n) /\ s.node[n].name = <<m, d>>
    BY ONLY Whole(s, r, p), OwnNamed(s, r), <2>1, <2>3, StartIs
  <2> QED
    BY <2>2, <2>4
<1>4. PICK j \in 1 .. Len(r) : r[j] = n
  BY <1>3 DEF Places
<1>5. PICK z : z = Turned(r, j)
  OBVIOUS
<1>6. Closed(s, z) /\ Len(z) = Len(r) /\ z[1] = n /\ Places(z) = Places(r)
  BY ONLY <1>1, <1>4, <1>5, TurnedIs
<1>7. /\ z \in Seq(DOMAIN s.node) /\ 1 \in 1 .. Len(z) /\ Len(z) \in 1 .. Len(z)
      /\ s.node[n].previous = z[Len(z)] /\ z[Len(z)] \in DOMAIN s.node
  <2>1. z \in Seq(DOMAIN s.node) /\ 1 \in 1 .. Len(z) /\ Len(z) \in 1 .. Len(z)
    BY <1>1, <1>6 DEF Closed
  <2>2. Follower(z, Len(z)) = 1
    BY DEF Follower
  <2>3. s.node[z[Follower(z, Len(z))]].previous = z[Len(z)]
    BY <1>6, <2>1 DEF Closed
  <2> QED
    BY <1>6, <2>1, <2>2, <2>3
<1>8. n \in Address
  BY SMTT(40), <1>1, <1>3
<1>9. ASSUME NEW t, NEW q, Shaped(t), Closed(t, q), q[1] = n, t.nodes = s.nodes, t.occ_list = s.occ_list,
             t.ref_flag = s.ref_flag, DOMAIN t.node = Places(q), Places(r) \subseteq Places(q),
             \A x \in Places(r) : t.node[x].name = s.node[x].name /\ t.node[x].elem = s.node[x].elem,
             \A x \in Places(r) : t.node[x].from_name = s.node[x].from_name,
             \A x \in Places(q) : x \notin Places(r) => ~Plain(t, x),
             Labelled(t, q), Wound(s, r, t, q, j),
             w = Wrapped([t EXCEPT !.start = n, !.end = t.node[n].previous])
      PROVE  \E v : w = Wrapped(v) /\ TurnedTo(s, r, p, v, q) /\ Wound(s, r, v, q, j)
  <2>1. PICK y : y = t.node[n].previous
    OBVIOUS
  <2>2. y = q[Len(q)] /\ y \in Address
    <3>1. q \in Seq(DOMAIN t.node) /\ Len(q) \in 1 .. Len(q)
      BY <1>9 DEF Closed
    <3>2. Follower(q, Len(q)) = 1
      BY DEF Follower
    <3>3. t.node[q[Follower(q, Len(q))]].previous = q[Len(q)]
      BY <1>9, <3>1 DEF Closed
    <3>4. q[Len(q)] \in DOMAIN t.node /\ DOMAIN t.node \subseteq Address
      BY <1>9, <3>1, NodeIs
    <3> QED
      BY <1>9, <2>1, <3>2, <3>3, <3>4
  <2>3. PICK v : v = Ended(t, n, y)
    OBVIOUS
  <2>4. /\ Shaped(v) /\ v.start = n /\ v.end = y
        /\ v.node = t.node /\ v.nodes = t.nodes
        /\ v.ref_flag = t.ref_flag /\ v.occ_list = t.occ_list /\ v.ranges = t.ranges
    <3>1. Shaped(t)
      BY <1>9
    <3> QED
      BY ONLY <1>8, <2>2, <2>3, <3>1, EndsSet
  <2>5. Closed(v, q) /\ Labelled(v, q)
    BY <1>9, <2>4 DEF Closed, Labelled, Plain
  <2>6. /\ v.start = q[1] /\ v.end = q[Len(q)] /\ v.nodes = s.nodes
        /\ \A x \in Places(r) : v.node[x].name = s.node[x].name /\ v.node[x].elem = s.node[x].elem
        /\ \A x \in Places(q) : x \notin Places(r) => ~Plain(v, x)
    BY <1>9, <2>2, <2>4 DEF Plain
  <2>7. Whole(v, q, p)
    BY ONLY Whole(s, r, p), <1>9, <2>4, <2>5, <2>6, WholeOver
  <2>8. w = Wrapped(v)
    BY <1>9, <2>1, <2>3 DEF Ended
  <2>9. TurnedTo(s, r, p, v, q)
    <3>1. \A x \in Places(r) : v.node[x].from_name = s.node[x].from_name
      BY <1>9, <2>4
    <3> QED
      BY <1>9, <2>4, <2>6, <2>7, <3>1 DEF TurnedTo
  <2>10. Wound(s, r, v, q, j)
    BY <1>9, <2>4 DEF Wound, AsPlaced
  <2> QED
    BY <2>8, <2>9, <2>10
<1>10. CASE IsPMark(s.node[s.node[n].previous].name[1])
  <2>1. w = Wrapped([s EXCEPT !.start = n, !.end = s.node[n].previous])
    BY <1>2, <1>10 DEF Cycled
  <2>2. Labelled(s, z)
    <3>1. Places(z) \subseteq Places(r)
      BY <1>6
    <3> QED
      BY <1>1, <3>1, LabelledOver
  <2>3. /\ DOMAIN s.node = Places(z) /\ Places(r) \subseteq Places(z)
        /\ \A x \in Places(z) : x \notin Places(r) => ~Plain(s, x)
    BY <1>6
  <2>4. Wound(s, r, s, z, j)
    BY <1>5, <1>6 DEF Wound, AsPlaced
  <2>5. \E v : w = Wrapped(v) /\ TurnedTo(s, r, p, v, z) /\ Wound(s, r, v, z, j)
    BY <1>1, <1>6, <1>9, <2>1, <2>2, <2>3, <2>4
  <2> QED
    BY <2>5
<1>11. CASE ~IsPMark(s.node[s.node[n].previous].name[1])
  <2>1. PICK c : c = Fresh(s, PMark(m))
    OBVIOUS
  <2>2. PICK t : t = Linked(Cloned(s, n, c, PMark(m)), c, n)
    OBVIOUS
  <2>3. w = Wrapped([t EXCEPT !.start = n, !.end = t.node[n].previous])
    BY <1>2, <1>11, <2>1, <2>2 DEF Cycled, Cloned
  <2>4. DOMAIN s.node = Places(z) /\ n = z[1]
    BY <1>6
  <2>5. PICK q : /\ Shaped(t) /\ Closed(t, q) /\ q[1] = n /\ q[Len(q)] = c /\ c \notin Places(z)
                 /\ Places(q) = Places(z) \union {c} /\ DOMAIN t.node = Places(q)
                 /\ \A i \in 1 .. Len(q) : q[i] = IF i = Len(q) THEN c ELSE z[i]
                 /\ Len(q) = Len(z) + 1
                 /\ t.nodes = s.nodes /\ t.occ_list = s.occ_list /\ t.ref_flag = s.ref_flag
                 /\ t.node[c].elem = PMark(m) /\ t.node[c].name = s.node[n].name
                 /\ \A x \in Places(z) : t.node[x].name = s.node[x].name /\ t.node[x].elem = s.node[x].elem
                 /\ AsPlaced(s, n, t, c) /\ \A x \in Places(z) : AsPlaced(s, x, t, x)
    <3>1. Shaped(s) /\ Closed(s, z) /\ n = z[1] /\ DOMAIN s.node = Places(z)
      BY <1>1, <1>6
    <3> QED
      BY ONLY m \in Marker, <2>1, <2>2, <3>1, MarkedIs
  <2>6. ~Plain(t, c) /\ Plain(t, n) /\ t.node[n].name = s.node[n].name
    <3>1. IsPMark(PMark(m))
      BY KnownIs
    <3> QED
      BY <1>3, <1>6, <2>5, <3>1 DEF Plain
  <2>7. Labelled(t, q)
    <3> SUFFICES ASSUME NEW i \in 1 .. Len(q)
                 PROVE  /\ Plain(t, q[i]) => t.node[q[i]].name = <<t.node[q[i]].elem, 1>>
                        /\ ~Plain(t, q[i]) =>
                             \/ IsPMark(t.node[q[i]].name[1])
                             \/ i = Len(q) /\ t.node[q[i]].name = t.node[q[1]].name /\ Plain(t, q[1])
      BY DEF Labelled
    <3>1. CASE i = Len(q)
      BY <2>5, <2>6, <3>1
    <3>2. CASE i # Len(q)
      <4>1. i \in 1 .. Len(z) /\ q[i] = z[i]
        BY <1>6, <1>1, <2>5, <3>2
      <4>2. q[i] \in Places(r) /\ q[i] \in Places(z)
        BY <1>6, <4>1, InPlaces
      <4>3. t.node[q[i]].name = s.node[q[i]].name /\ t.node[q[i]].elem = s.node[q[i]].elem
        BY <2>5, <4>2
      <4>4. IF Plain(s, q[i]) THEN s.node[q[i]].name = <<s.node[q[i]].elem, 1>>
                              ELSE IsPMark(s.node[q[i]].name[1])
        BY <1>1, <4>2, NamedIs
      <4> QED
        BY <4>3, <4>4 DEF Plain
    <3> QED
      BY <3>1, <3>2
  <2>8. /\ Places(r) \subseteq Places(q)
        /\ \A x \in Places(q) : x \notin Places(r) => ~Plain(t, x)
        /\ \A x \in Places(r) : t.node[x].name = s.node[x].name /\ t.node[x].elem = s.node[x].elem
        /\ \A x \in Places(r) : t.node[x].from_name = s.node[x].from_name
    BY <1>6, <2>5, <2>6 DEF AsPlaced
  <2>9. Wound(s, r, t, q, j)
    <3> SUFFICES ASSUME NEW i \in 1 .. Len(q)
                 PROVE  AsPlaced(s, IF i <= Len(r) THEN Turned(r, j)[i] ELSE r[j], t, q[i])
      BY <1>6, <2>5 DEF Wound
    <3>1. CASE i <= Len(r)
      <4>1. i \in 1 .. Len(z) /\ q[i] = z[i]
        BY <1>1, <1>6, <2>5, <3>1
      <4>2. q[i] \in Places(z)
        BY <4>1, InPlaces
      <4> QED
        BY <1>5, <2>5, <3>1, <4>1, <4>2
    <3>2. CASE ~(i <= Len(r))
      <4>1. i = Len(q)
        BY <1>1, <1>6, <2>5, <3>2
      <4> QED
        BY <1>4, <2>5, <3>2, <4>1
    <3> QED
      BY <3>1, <3>2
  <2>10. \E v : w = Wrapped(v) /\ TurnedTo(s, r, p, v, q) /\ Wound(s, r, v, q, j)
    BY <1>9, <2>3, <2>5, <2>7, <2>8, <2>9
  <2> QED
    BY <2>10
<1> QED
  BY <1>10, <1>11

LEMMA CycledIs ==
  ASSUME NEW s, NEW r, NEW p, Whole(s, r, p), DOMAIN s.node = Places(r), OwnNamed(s, r),
         NEW m \in Marker, Has(s, s.nodes, <<m, 1>>), NEW w, w = Cycled(s, m)
  PROVE  \E q : /\ Whole(w, q, p) /\ DOMAIN w.node = Places(q)
                /\ Places(r) \subseteq Places(q)
                /\ w.occ_list = s.occ_list /\ w.ref_flag = s.ref_flag
                /\ \A x \in Places(r) : w.node[x].elem = s.node[x].elem
                /\ \A x \in Places(q) : x \notin Places(r) => ~Plain(w, x)
<1>1. PICK v, q, j : w = Wrapped(v) /\ TurnedTo(s, r, p, v, q) /\ Wound(s, r, v, q, j)
  BY TurnedToIs
<1>2. Whole(v, q, p)
  BY <1>1 DEF TurnedTo
<1>3. Whole(w, q, p) /\ Shaped(w) /\ Same(v, w)
  BY <1>1, <1>2, WrappedIs
<1> QED
  BY <1>1, <1>3 DEF TurnedTo, Same, Plain

-----------------------------------------------------------------------------
(* resequence_nodes.                                                       *)

LEMMA CountsIs ==
  ASSUME NEW s, NEW r, NEW p, Whole(s, r, p)
  PROVE  /\ Counts(s) \in [Known -> Nat]
         /\ \A i \in 1 .. Len(r) : Plain(s, r[i]) => Counts(s)[s.node[r[i]].elem] = 1
<1>1. /\ Shaped(s) /\ Nodes(s) = Places(r) /\ Places(r) \subseteq DOMAIN s.node /\ Once(s, r)
      /\ \A i \in 1 .. Len(r) : r[i] \in Places(r)
  BY WholeIs, InPlaces DEF Whole
<1>2. s.occ_list \in [Known -> Nat] /\ IsFiniteSet(DOMAIN s.node)
  BY <1>1 DEF Shaped
<1>3. \A e : Cardinality({n \in Places(r) : s.node[n].elem = e}) \in Nat
  <2> SUFFICES ASSUME NEW e
               PROVE  Cardinality({n \in Places(r) : s.node[n].elem = e}) \in Nat
    OBVIOUS
  <2>1. PICK T : T = {n \in Places(r) : s.node[n].elem = e}
    OBVIOUS
  <2>2. T \in SUBSET DOMAIN s.node
    BY <1>1, <2>1
  <2>3. IsFiniteSet(T)
    BY ONLY <1>2, <2>2, FS_Subset
  <2>4. Cardinality(T) \in Nat
    BY ONLY <2>3, FS_CardinalityType
  <2> QED
    BY <2>1, <2>4
<1>4. Counts(s) = [e \in Known |-> Cardinality({n \in Places(r) : s.node[n].elem = e})]
  <2>1. DOMAIN s.occ_list = Known
    BY <1>2
  <2>2. Counts(s) = [e \in DOMAIN s.occ_list |-> Cardinality({n \in Nodes(s) : s.node[n].elem = e})]
    BY DEF Counts
  <2> QED
    BY <1>1, <2>1, <2>2
<1>5. ASSUME NEW i \in 1 .. Len(r), Plain(s, r[i])
      PROVE  Counts(s)[s.node[r[i]].elem] = 1
  <2>1. PICK e : e = s.node[r[i]].elem
    OBVIOUS
  <2>2. PICK T : T = {n \in Places(r) : s.node[n].elem = e}
    OBVIOUS
  <2>3. T = {r[i]}
    <3>1. \A n \in T : n = r[i]
      <4> SUFFICES ASSUME NEW n \in T
                   PROVE  n = r[i]
        OBVIOUS
      <4>1. PICK j \in 1 .. Len(r) : n = r[j]
        BY <2>2 DEF Places
      <4>2. s.node[r[i]].elem = s.node[r[j]].elem
        BY <2>1, <2>2, <4>1
      <4> QED
        BY <1>1, <1>5, <4>1, <4>2 DEF Once
    <3>2. r[i] \in T
      BY <1>1, <2>1, <2>2
    <3> QED
      BY <3>1, <3>2
  <2>4. Cardinality(T) = 1
    BY <2>3, FS_Singleton
  <2>5. e \in Known
    BY <1>1, <2>1, NodeIs
  <2> QED
    BY <1>4, <2>1, <2>2, <2>4, <2>5
<1> QED
  BY <1>3, <1>4, <1>5

(***************************************************************************)
(* The occurrence of a node up to its place.                               *)
(***************************************************************************)
Occurrence(s, r, i) == Cardinality({j \in 1 .. i : s.node[r[j]].elem = s.node[r[i]].elem})

LEMMA OccurrenceIs ==
  ASSUME NEW s, NEW r, Len(r) \in Nat, Once(s, r), NEW i \in 1 .. Len(r)
  PROVE  Occurrence(s, r, i) \in Nat /\ (Plain(s, r[i]) => Occurrence(s, r, i) = 1)
<1>1. PICK T : T = {j \in 1 .. i : s.node[r[j]].elem = s.node[r[i]].elem}
  OBVIOUS
<1>2. Cardinality(T) \in Nat
  <2>1. 1 \in Int /\ i \in Int
    OBVIOUS
  <2>2. IsFiniteSet(1 .. i)
    BY ONLY <2>1, FS_Interval
  <2>3. T \in SUBSET (1 .. i)
    BY <1>1
  <2>4. IsFiniteSet(T)
    BY ONLY <2>2, <2>3, FS_Subset
  <2> QED
    BY ONLY <2>4, FS_CardinalityType
<1>3. ASSUME Plain(s, r[i])
      PROVE  Cardinality(T) = 1
  <2>1. \A j \in T : j = i
    <3>1. \A j \in T : j \in 1 .. Len(r) /\ s.node[r[i]].elem = s.node[r[j]].elem
      BY <1>1
    <3> QED
      BY <1>3, <3>1 DEF Once
  <2>2. T = {i}
    BY <1>1, <2>1
  <2> QED
    BY <2>2, FS_Singleton
<1> QED
  BY <1>1, <1>2, <1>3 DEF Occurrence

LEMMA ResequencedIs ==
  ASSUME NEW s, NEW r, NEW p, Whole(s, r, p), NEW w, w = Resequenced(s)
  PROVE  /\ Whole(w, r, p) /\ Counted(w, r) /\ DOMAIN w.node = DOMAIN s.node
         /\ w.nodes = s.nodes /\ w.start = s.start /\ w.end = s.end /\ w.ref_flag = s.ref_flag
         /\ \A m \in DOMAIN s.node : /\ w.node[m].elem = s.node[m].elem
                                     /\ w.node[m].from_name = s.node[m].from_name
                                     /\ w.node[m].position = s.node[m].position
                                     /\ w.node[m].at_value = s.node[m].at_value
         /\ \A m \in Places(r) : Plain(s, m) => w.node[m].name = s.node[m].name
<1>1. /\ Shaped(s) /\ Places(r) \subseteq DOMAIN s.node /\ s.nodes \in Seq(DOMAIN s.node)
      /\ Ring(s) = r /\ Nodes(s) = Places(r) /\ Len(r) \in Nat
      /\ Len(r) >= 2 /\ r \in Seq(DOMAIN s.node) /\ Closed(s, r) /\ s.start = r[1] /\ s.end = r[Len(r)]
      /\ \A i \in 1 .. Len(r) : r[i] \in Places(r)
      /\ Labelled(s, r) /\ Once(s, r) /\ Listed(s, s.nodes, r, p)
  BY WholeIs, InPlaces DEF Whole
<1> DEFINE ring == Ring(s)
           elem(i) == s.node[ring[i]].elem
           occ(i) == Cardinality({j \in 1 .. i : elem(j) = elem(i)})
           index(n) == CHOOSE i \in DOMAIN ring : ring[i] = n
           name(n) == <<s.node[n].elem, occ(index(n))>>
           g == [n \in DOMAIN s.node |-> IF n \in Nodes(s) THEN [s.node[n] EXCEPT !.name = name(n)] ELSE s.node[n]]
<1>2. w = [[s EXCEPT !.node = g] EXCEPT !.occ_list = Counts(s)]
  BY DEF Resequenced, OnRing
<1>3. \A n \in Places(r) : /\ index(n) \in 1 .. Len(r) /\ r[index(n)] = n
                           /\ occ(index(n)) = Occurrence(s, r, index(n))
  <2> SUFFICES ASSUME NEW n \in Places(r)
               PROVE  /\ index(n) \in 1 .. Len(r) /\ r[index(n)] = n
                      /\ occ(index(n)) = Occurrence(s, r, index(n))
    OBVIOUS
  <2>1. DOMAIN r = 1 .. Len(r)
    BY <1>1
  <2>2. \E i \in DOMAIN r : r[i] = n
    BY <2>1 DEF Places
  <2>3. index(n) \in DOMAIN r /\ r[index(n)] = n
    BY <1>1, <2>2
  <2> HIDE DEF index
  <2>4. PICK i : i = index(n)
    OBVIOUS
  <2>5. occ(i) = Occurrence(s, r, i)
    <3>1. {j \in 1 .. i : elem(j) = elem(i)} = {j \in 1 .. i : s.node[r[j]].elem = s.node[r[i]].elem}
      BY <1>1
    <3> QED
      BY <3>1 DEF Occurrence
  <2> HIDE DEF occ
  <2> QED
    BY <2>1, <2>3, <2>4, <2>5
<1>4. \A n \in Places(r) : /\ name(n) = <<s.node[n].elem, Occurrence(s, r, index(n))>>
                           /\ Occurrence(s, r, index(n)) \in Nat
                           /\ Plain(s, n) => Occurrence(s, r, index(n)) = 1
  <2> SUFFICES ASSUME NEW n \in Places(r)
               PROVE  /\ name(n) = <<s.node[n].elem, Occurrence(s, r, index(n))>>
                      /\ Occurrence(s, r, index(n)) \in Nat
                      /\ Plain(s, n) => Occurrence(s, r, index(n)) = 1
    OBVIOUS
  <2> HIDE DEF index, occ
  <2>1. PICK i \in 1 .. Len(r) : i = index(n) /\ r[i] = n
    BY <1>3
  <2>2. Occurrence(s, r, i) \in Nat /\ (Plain(s, r[i]) => Occurrence(s, r, i) = 1)
    BY ONLY <1>1, <2>1, OccurrenceIs
  <2> QED
    BY <1>3, <2>1, <2>2
<1> HIDE DEF occ, index
<1>5. PICK new : new = [n \in Places(r) |-> name(n)]
  OBVIOUS
<1>6. \A n \in Places(r) : /\ new[n] \in Name /\ new[n][1] = s.node[n].elem
                           /\ Plain(s, n) => new[n] = <<s.node[n].elem, 1>>
  <2> SUFFICES ASSUME NEW n \in Places(r)
               PROVE  /\ new[n] \in Name /\ new[n][1] = s.node[n].elem
                      /\ Plain(s, n) => new[n] = <<s.node[n].elem, 1>>
    OBVIOUS
  <2>1. PICK o \in Nat : new[n] = <<s.node[n].elem, o>> /\ (Plain(s, n) => o = 1)
    <3> HIDE DEF name
    <3> QED
      BY <1>4, <1>5
  <2>2. s.node[n].elem \in Known
    BY <1>1, NodeIs
  <2>3. s.node[n].elem \in Int
    BY <2>2, KnownIs
  <2> QED
    BY <2>1, <2>3 DEF Name
<1>7. PICK f : f = [n \in DOMAIN s.node |-> IF n \in Places(r) THEN [s.node[n] EXCEPT !.name = new[n]] ELSE s.node[n]]
  OBVIOUS
<1>8. f = g
  <2> HIDE DEF name
  <2> QED
    BY <1>1, <1>5, <1>7
<1> HIDE DEF g
<1>9. PICK t : t = [s EXCEPT !.node = f]
  OBVIOUS
<1>10. w = [t EXCEPT !.occ_list = Counts(s)]
  BY <1>2, <1>8, <1>9
<1>11. s.node \in [DOMAIN s.node -> NodeRecord]
  BY <1>1, NodeIs
<1>12. f \in [DOMAIN s.node -> NodeRecord]
  BY <1>6, <1>7, <1>11 DEF NodeRecord
<1>13. PICK N \in SUBSET Address : N = DOMAIN s.node /\ IsFiniteSet(N)
  BY <1>1, NodeIs DEF Shaped
<1>14. /\ Shaped(t) /\ t.node = f
       /\ t.nodes = s.nodes /\ t.start = s.start /\ t.end = s.end
       /\ t.ref_flag = s.ref_flag /\ t.occ_list = s.occ_list /\ t.ranges = s.ranges
  BY ONLY <1>1, <1>9, <1>12, <1>13, NodesSet
<1>15. /\ Counts(s) \in [Known -> Nat]
       /\ \A i \in 1 .. Len(r) : Plain(s, r[i]) => Counts(s)[s.node[r[i]].elem] = 1
  BY CountsIs
<1>16. PICK o : o = Counts(s)
  OBVIOUS
<1>17. /\ Shaped(w) /\ w.occ_list = o
       /\ w.node = t.node /\ w.nodes = t.nodes /\ w.start = t.start /\ w.end = t.end
       /\ w.ref_flag = t.ref_flag /\ w.ranges = t.ranges
  <2>1. o \in [Known -> Nat] /\ w = [t EXCEPT !.occ_list = o]
    BY <1>10, <1>15, <1>16
  <2> QED
    BY ONLY <1>14, <2>1, CountsSet
<1>18. /\ DOMAIN w.node = DOMAIN s.node /\ w.nodes = s.nodes /\ w.start = s.start /\ w.end = s.end
       /\ w.ref_flag = s.ref_flag
       /\ \A m \in DOMAIN s.node : /\ w.node[m].elem = s.node[m].elem
                                   /\ w.node[m].next = s.node[m].next
                                   /\ w.node[m].previous = s.node[m].previous
                                   /\ w.node[m].from_name = s.node[m].from_name
                                   /\ w.node[m].position = s.node[m].position
                                   /\ w.node[m].at_value = s.node[m].at_value
                                   /\ m \in Places(r) => w.node[m].name = new[m]
  BY <1>7, <1>11, <1>12, <1>14, <1>17 DEF NodeRecord
<1>19. \A m \in Places(r) : /\ Plain(w, m) <=> Plain(s, m)
                            /\ w.node[m].name[1] = s.node[m].elem
                            /\ Plain(s, m) => w.node[m].name = <<s.node[m].elem, 1>>
                            /\ Plain(s, m) => w.node[m].name = s.node[m].name
  <2>1. \A m \in Places(r) : Plain(s, m) => s.node[m].name = <<s.node[m].elem, 1>>
    BY SMTT(40), <1>1 DEF Labelled, Places
  <2> QED
    BY ZenonT(40), <1>1, <1>6, <1>18, <2>1 DEF Plain
<1>20. Chain(w, r)
  <2>1. Closed(w, r)
    <3>1. Places(r) \subseteq DOMAIN w.node
      BY <1>1, <1>18
    <3>2. \A m \in Places(r) : w.node[m].next = s.node[m].next /\ w.node[m].previous = s.node[m].previous
      BY <1>1, <1>18
    <3> QED
      BY ONLY <1>1, <3>1, <3>2, ClosedSame
  <2> QED
    BY <1>1, <1>18, <2>1 DEF Chain
<1>21. Labelled(w, r)
  <2> SUFFICES ASSUME NEW i \in 1 .. Len(r)
               PROVE  IF Plain(w, r[i]) THEN w.node[r[i]].name = <<w.node[r[i]].elem, 1>>
                                        ELSE IsPMark(w.node[r[i]].name[1])
    BY DEF Labelled
  <2>1. r[i] \in Places(r) /\ w.node[r[i]].elem = s.node[r[i]].elem
    BY <1>1, <1>18
  <2> QED
    BY <1>19, <2>1 DEF Plain
<1>22. Once(w, r)
  <2>1. \A i \in 1 .. Len(r) : w.node[r[i]].elem = s.node[r[i]].elem /\ (Plain(w, r[i]) <=> Plain(s, r[i]))
    BY <1>1, <1>18, <1>19
  <2> QED
    BY <1>1, <2>1 DEF Once
<1>23. Listed(w, w.nodes, r, p)
  <2>1. PICK list : list = s.nodes
    OBVIOUS
  <2>2. /\ Sorted(s, list, p) /\ \A i \in 1 .. Len(list) : list[i] \in Places(r)
        /\ \A a \in 1 .. p : Plain(s, list[a])
        /\ \A i \in 1 .. Len(r) : Plain(s, r[i]) => \E a \in 1 .. p : list[a] = r[i]
    BY <1>1, <2>1 DEF Listed
  <2>3. list \in Seq(DOMAIN w.node) /\ p \in 0 .. Len(list) /\ Len(list) \in Nat
    BY <1>18, <2>2 DEF Sorted
  <2>4. \A i \in 1 .. p : list[i] \in Places(r) /\ w.node[list[i]].name = s.node[list[i]].name
    BY <1>19, <2>2, <2>3
  <2>5. ASSUME NEW i \in p + 1 .. Len(list)
        PROVE  IsPMark(w.node[list[i]].name[1])
    <3>1. IsPMark(s.node[list[i]].name[1])
      BY <2>2 DEF Sorted
    <3>2. list[i] \in Places(r)
      BY <2>2, <2>3
    <3>3. ~Plain(s, list[i])
      <4>1. ASSUME Plain(s, list[i])
            PROVE  FALSE
        <5>1. s.node[list[i]].name = <<s.node[list[i]].elem, 1>>
          BY <1>19, <3>2, <4>1
        <5> QED
          BY <3>1, <4>1, <5>1 DEF Plain
      <4> QED
        BY <4>1
    <3> QED
      BY <1>19, <3>2, <3>3 DEF Plain
  <2>6. Sorted(w, list, p)
    BY <2>2, <2>3, <2>4, <2>5 DEF Sorted
  <2>7. /\ \A a \in 1 .. p : Plain(w, list[a])
        /\ \A i \in 1 .. Len(r) : Plain(w, r[i]) => \E a \in 1 .. p : list[a] = r[i]
    BY <1>1, <1>19, <2>2, <2>4
  <2> QED
    BY <1>18, <2>1, <2>2, <2>6, <2>7 DEF Listed
<1>24. Counted(w, r)
  <2> SUFFICES ASSUME NEW i \in 1 .. Len(r), Plain(w, r[i])
               PROVE  w.occ_list[w.node[r[i]].elem] = 1
    BY DEF Counted
  <2>1. Plain(s, r[i]) /\ w.node[r[i]].elem = s.node[r[i]].elem
    BY <1>1, <1>18, <1>19
  <2> QED
    BY <1>15, <1>16, <1>17, <2>1
<1>25. Whole(w, r, p)
  BY <1>17, <1>20, <1>21, <1>22, <1>23 DEF Whole
<1> QED
  BY <1>18, <1>19, <1>24, <1>25

-----------------------------------------------------------------------------
(* The list made anew.                                                     *)

LEMMA AddedIs ==
  ASSUME NEW s, NEW list \in Seq(DOMAIN s.node), NEW n \in DOMAIN s.node
  PROVE  Added(s, list, n) \in Seq(DOMAIN s.node)
<1>1. PICK out : out = Probe(s, list, s.node[n].name)
  OBVIOUS
<1>2. Len(list) \in Nat
  OBVIOUS
<1>3. out.hit = FALSE \/ out.hit = TRUE
  BY <1>1, <1>2, ProbeSound
<1>4. CASE out.hit = TRUE
  BY <1>1, <1>4 DEF Added
<1>5. CASE out.hit = FALSE
  <2>1. PICK i \in 1 .. Len(list) + 1 : i = out.at
    BY <1>1, <1>2, <1>5, ProbeSound
  <2>2. InsertAt(list, i, n) \in Seq(DOMAIN s.node)
    BY ONLY <2>1, list \in Seq(DOMAIN s.node), n \in DOMAIN s.node, WidenedIs
  <2> QED
    BY <1>1, <1>5, <2>1, <2>2 DEF Added
<1> QED
  BY <1>3, <1>4, <1>5

LEMMA AllAddedSteps ==
  ASSUME NEW s, NEW path \in Seq(DOMAIN s.node)
  PROVE  \E h : /\ h[0] = <<>> /\ h[Len(path)] = AllAdded(s, path)
                /\ \A k \in 0 .. Len(path) - 1 : h[k + 1] = Added(s, h[k], path[k + 1])
<1> DEFINE n == Len(path)
           S == 1 .. n
           W == Seq(DOMAIN s.node)
           op == [i \in S |-> [acc \in W |-> Added(s, acc, path[i])]]
           Body(g) == [T \in SUBSET S |-> IF T = {} THEN <<>>
                        ELSE Added(s, g[T \ {Max(T)}], path[Max(T)])]
           c == CHOOSE g : g = Body(g)
<1>1. n \in Nat /\ DOMAIN path = S /\ \A i \in S : path[i] \in DOMAIN s.node
  OBVIOUS
<1>2. op \in [S -> [W -> W]]
  <2>1. \A i \in S, acc \in W : Added(s, acc, path[i]) \in W
    BY <1>1, AddedIs
  <2> HIDE DEF W, S
  <2> QED
    BY <2>1
<1>3. PICK f : GoesThrough(f, n, W, <<>>, op)
  <2>1. <<>> \in W
    BY EmptySeq
  <2> HIDE DEF W, op, n
  <2>2. n \in Nat /\ <<>> \in W /\ op \in [1 .. n -> [W -> W]]
    BY <1>1, <1>2, <2>1
  <2> QED
    BY ONLY <2>2, FoldOfPlaces
<1>4. /\ f \in [SUBSET S -> W]
      /\ \A T \in SUBSET S : f[T] = IF T = {} THEN <<>> ELSE op[Max(T)][f[T \ {Max(T)}]]
  <2> HIDE DEF W, op, n
  <2> QED
    BY <1>3 DEF GoesThrough
<1>5. f = Body(f)
  <2>1. ASSUME NEW T \in SUBSET S
        PROVE  f[T] = IF T = {} THEN <<>> ELSE Added(s, f[T \ {Max(T)}], path[Max(T)])
    <3>1. ASSUME T # {}
          PROVE  op[Max(T)][f[T \ {Max(T)}]] = Added(s, f[T \ {Max(T)}], path[Max(T)])
      <4>1. Max(T) \in S /\ T \ {Max(T)} \in SUBSET S
        BY <1>1, <3>1, GreatestPlace
      <4>2. f[T \ {Max(T)}] \in W
        <5> HIDE DEF W, S
        <5> QED
          BY <1>4, <4>1
      <4> HIDE DEF W, S
      <4> QED
        BY <4>1, <4>2
    <3> HIDE DEF W, S, op
    <3> QED
      BY <1>4, <3>1
  <2>2. f = [T \in SUBSET S |-> f[T]]
    BY <1>4
  <2> HIDE DEF S, W
  <2> QED
    BY <2>1, <2>2
<1>6. c = Body(c)
  <2> HIDE DEF Body
  <2> QED
    BY <1>5
<1>7. AllAdded(s, path) = c[S]
  BY <1>1 DEF AllAdded, FoldLeft, MapThenFoldSet
<1> HIDE DEF c
<1>8. \A T \in SUBSET S : c[T] = IF T = {} THEN <<>>
                                 ELSE Added(s, c[T \ {Max(T)}], path[Max(T)])
  BY <1>6
<1> DEFINE h == [k \in 0 .. n |-> c[1 .. k]]
<1>9. h[0] = <<>>
  <2>1. 1 .. 0 = {} /\ {} \in SUBSET S /\ 0 \in 0 .. n
    BY <1>1
  <2>2. h[0] = c[{}]
    BY <2>1
  <2> QED
    BY <1>8, <2>1, <2>2
<1>10. ASSUME NEW k \in 0 .. n - 1
       PROVE  h[k + 1] = Added(s, h[k], path[k + 1])
  <2>1. /\ 1 .. k + 1 \in SUBSET S /\ 1 .. k + 1 # {}
        /\ Max(1 .. k + 1) = k + 1 /\ (1 .. k + 1) \ {k + 1} = 1 .. k
    <3> HIDE DEF n
    <3> QED
      BY <1>1, FirstPlaces
  <2>2. h[k + 1] = c[1 .. k + 1] /\ h[k] = c[1 .. k]
    BY <1>1
  <2> HIDE DEF h, S
  <2> QED
    BY <1>8, <2>1, <2>2
<1>11. h[n] = AllAdded(s, path)
  BY <1>1, <1>7
<1> HIDE DEF h
<1> QED
  BY <1>9, <1>10, <1>11

PlainUpto(s, r, k) == {r[i] : i \in {x \in 1 .. k : Plain(s, r[x])}}

(***************************************************************************)
(* The list of the first k nodes of a ring.                                *)
(***************************************************************************)
Upto(s, list, r, k, p) ==
  Sorted(s, list, p) /\ FirstOf(list, Len(list)) \subseteq Places(r) /\ FirstOf(list, p) = PlainUpto(s, r, k)

LEMMA UptoNext ==
  ASSUME NEW s, Shaped(s), NEW r \in Seq(DOMAIN s.node), Len(r) >= 2, Labelled(s, r), Once(s, r),
         NEW k \in 0 .. Len(r) - 1, NEW list, NEW p, Upto(s, list, r, k, p)
  PROVE  \E x : Upto(s, Added(s, list, r[k + 1]), r, k + 1, x)
<1>1. PICK n : n = r[k + 1]
  OBVIOUS
<1>2. PICK l : l = Added(s, list, n)
  OBVIOUS
<1>3. /\ k + 1 \in 1 .. Len(r) /\ Len(r) \in Nat /\ n \in DOMAIN s.node /\ n \in Places(r)
      /\ Sorted(s, list, p) /\ FirstOf(list, Len(list)) \subseteq Places(r) /\ FirstOf(list, p) = PlainUpto(s, r, k)
  BY <1>1, InPlaces DEF Upto
<1>4. list \in Seq(DOMAIN s.node) /\ p \in 0 .. Len(list) /\ Len(list) \in Nat
  BY <1>3 DEF Sorted
<1>5. PlainUpto(s, r, k + 1) = IF Plain(s, n) THEN PlainUpto(s, r, k) \union {n} ELSE PlainUpto(s, r, k)
  <2>1. \A i \in 1 .. k + 1 : i \in 1 .. k \/ i = k + 1
    OBVIOUS
  <2>2. \A i \in 1 .. k : i \in 1 .. k + 1
    OBVIOUS
  <2>3. \A m : m \in PlainUpto(s, r, k + 1) <=> \E i \in 1 .. k + 1 : Plain(s, r[i]) /\ m = r[i]
    BY DEF PlainUpto
  <2>4. \A m : m \in PlainUpto(s, r, k) <=> \E i \in 1 .. k : Plain(s, r[i]) /\ m = r[i]
    BY DEF PlainUpto
  <2>5. \A m : m \in PlainUpto(s, r, k + 1) <=> m \in PlainUpto(s, r, k) \/ (Plain(s, n) /\ m = n)
    BY <1>1, <1>3, <2>1, <2>2, <2>3, <2>4
  <2> QED
    BY <2>5
<1>6. /\ Plain(s, n) => s.node[n].name = <<s.node[n].elem, 1>>
      /\ ~Plain(s, n) => \/ IsPMark(s.node[n].name[1])
                         \/ k + 1 = Len(r) /\ s.node[n].name = s.node[r[1]].name /\ Plain(s, r[1])
  BY <1>1, <1>3 DEF Labelled
<1>7. CASE Plain(s, n)
  <2>1. ~IsPMark(s.node[n].name[1])
    BY <1>6, <1>7 DEF Plain
  <2>2. ASSUME NEW i \in 1 .. p
        PROVE  s.node[list[i]].name # s.node[n].name
    <3>1. list[i] \in PlainUpto(s, r, k)
      BY <1>3 DEF FirstOf
    <3>2. PICK x \in 1 .. k : Plain(s, r[x]) /\ list[i] = r[x]
      BY <3>1 DEF PlainUpto
    <3>3. x \in 1 .. Len(r) /\ x # k + 1
      BY <1>3
    <3>4. s.node[r[x]].name = <<s.node[r[x]].elem, 1>>
      BY <3>2, <3>3 DEF Labelled
    <3>5. s.node[r[x]].elem # s.node[r[k + 1]].elem
      BY <1>3, <3>2, <3>3 DEF Once
    <3> QED
      BY <1>1, <1>6, <1>7, <3>2, <3>4, <3>5
  <2>3. PICK a \in 1 .. p + 1 : Added(s, list, n) = InsertAt(list, a, n) /\ Sorted(s, Added(s, list, n), p + 1)
    BY ONLY Shaped(s), <1>3, <2>1, <2>2, AddedNew
  <2>4. Widened(l, list, a, n)
    <3>1. a \in 1 .. Len(list) + 1 /\ l = InsertAt(list, a, n)
      BY <1>2, <1>4, <2>3
    <3> QED
      BY ONLY <1>3, <1>4, <3>1, WidenedIs
  <2>5. FirstOf(l, p + 1) = FirstOf(list, p) \union {n}
    BY ONLY <1>4, a \in 1 .. p + 1, <2>4, FirstWidened
  <2>6. FirstOf(l, Len(l)) = FirstOf(list, Len(list)) \union {n}
    <3>1. PICK z : z = Len(list)
      OBVIOUS
    <3>2. Len(list) \in Nat /\ z \in 0 .. Len(list) /\ a \in 1 .. z + 1
      BY <1>4, <3>1
    <3>3. FirstOf(l, z + 1) = FirstOf(list, z) \union {n}
      BY ONLY <2>4, <3>2, FirstWidened
    <3>4. Len(l) = z + 1
      BY <2>4, <3>1 DEF Widened
    <3> QED
      BY <3>1, <3>3, <3>4
  <2>7. Upto(s, l, r, k + 1, p + 1)
    BY <1>2, <1>3, <1>5, <1>7, <2>3, <2>5, <2>6 DEF Upto
  <2> QED
    BY <1>1, <1>2, <2>7
<1>8. CASE ~Plain(s, n) /\ IsPMark(s.node[n].name[1])
  <2>1. /\ Sorted(s, Added(s, list, n), p)
        /\ \A i \in 1 .. p : Added(s, list, n)[i] = list[i]
        /\ \A i \in 1 .. Len(Added(s, list, n)) :
             Added(s, list, n)[i] = n \/ \E j \in 1 .. Len(list) : Added(s, list, n)[i] = list[j] /\ (i > p => j > p)
    BY <1>3, <1>8, AddedMarker
  <2>2. FirstOf(l, p) = FirstOf(list, p)
    BY <1>2, <2>1 DEF FirstOf
  <2>3. \A i \in 1 .. Len(l) : l[i] \in FirstOf(list, Len(list)) \union {n}
    BY <1>2, <2>1 DEF FirstOf
  <2>4. FirstOf(l, Len(l)) \subseteq FirstOf(list, Len(list)) \union {n}
    BY <2>3 DEF FirstOf
  <2>5. Upto(s, l, r, k + 1, p)
    BY <1>2, <1>3, <1>5, <1>8, <2>1, <2>2, <2>4 DEF Upto
  <2> QED
    BY <1>1, <1>2, <2>5
<1>9. CASE ~Plain(s, n) /\ ~IsPMark(s.node[n].name[1])
  <2>1. k + 1 = Len(r) /\ s.node[n].name = s.node[r[1]].name /\ Plain(s, r[1])
    BY <1>6, <1>9
  <2>2. 1 \in 1 .. k
    BY <1>3, <2>1
  <2>3. r[1] \in FirstOf(list, p)
    BY <1>3, <2>1, <2>2 DEF PlainUpto
  <2>4. PICK i \in 1 .. p : list[i] = r[1]
    BY <2>3 DEF FirstOf
  <2>5. Added(s, list, n) = list
    BY <1>3, <2>1, <2>4, AddedSame
  <2>6. Upto(s, l, r, k + 1, p)
    BY <1>2, <1>3, <1>5, <1>9, <2>5 DEF Upto
  <2> QED
    BY <1>1, <1>2, <2>6
<1> QED
  BY <1>7, <1>8, <1>9

LEMMA AllAddedIs ==
  ASSUME NEW s, Shaped(s), NEW r \in Seq(DOMAIN s.node), Len(r) >= 2, Labelled(s, r), Once(s, r)
  PROVE  \E p : Listed(s, AllAdded(s, r), r, p)
<1>1. PICK h : /\ h[0] = <<>> /\ h[Len(r)] = AllAdded(s, r)
               /\ \A k \in 0 .. Len(r) - 1 : h[k + 1] = Added(s, h[k], r[k + 1])
  BY AllAddedSteps
<1> DEFINE T == {k \in Nat : k <= Len(r) => \E p : Upto(s, h[k], r, k, p)}
<1>2. Len(r) \in Nat
  OBVIOUS
<1>3. 0 \in T
  <2>1. Sorted(s, <<>>, 0)
    BY DEF Sorted
  <2>2. FirstOf(<<>>, Len(<<>>)) = {} /\ FirstOf(<<>>, 0) = {} /\ PlainUpto(s, r, 0) = {}
    BY DEF FirstOf, PlainUpto
  <2>3. Upto(s, <<>>, r, 0, 0)
    BY <2>1, <2>2 DEF Upto
  <2> QED
    BY <1>1, <2>3
<1>4. ASSUME NEW k \in Nat, k \in T
      PROVE  k + 1 \in T
  <2>1. CASE k + 1 <= Len(r)
    <3>1. k \in 0 .. Len(r) - 1
      BY <1>2, <2>1
    <3>2. PICK p : Upto(s, h[k], r, k, p)
      BY <1>2, <1>4, <3>1
    <3>3. PICK list : list = h[k]
      OBVIOUS
    <3>4. Upto(s, list, r, k, p)
      BY <3>2, <3>3
    <3>5. \E x : Upto(s, Added(s, list, r[k + 1]), r, k + 1, x)
      BY <3>1, <3>4, UptoNext
    <3>6. h[k + 1] = Added(s, list, r[k + 1])
      BY <1>1, <3>1, <3>3
    <3> QED
      BY <3>5, <3>6
  <2> QED
    BY <1>2, <2>1
<1>5. Nat \subseteq T
  <2> HIDE DEF T
  <2> QED
    BY <1>3, <1>4, SetInduction
<1>6. PICK p : Upto(s, h[Len(r)], r, Len(r), p)
  BY <1>2, <1>5
<1>7. PICK list : list = AllAdded(s, r)
  OBVIOUS
<1>8. PlainUpto(s, r, Len(r)) = PlainOf(s, r)
  BY DEF PlainUpto, PlainOf, Places
<1>9. Sorted(s, list, p) /\ FirstOf(list, Len(list)) \subseteq Places(r) /\ FirstOf(list, p) = PlainOf(s, r)
  BY <1>1, <1>6, <1>7, <1>8 DEF Upto
<1>10. Listed(s, list, r, p)
  BY <1>9, ListedIs
<1> QED
  BY <1>7, <1>10

(***************************************************************************)
(* seq_flatten.                                                            *)
(***************************************************************************)
LEMMA FlattenedIs ==
  ASSUME NEW s, NEW r, NEW p, Whole(s, r, p), Resolved(s), NEW w, w = Flattened(s)
  PROVE  \E x : /\ Whole(w, r, x) /\ DOMAIN w.node = Places(r) /\ Counted(w, r)
                /\ w.ref_flag = 0
                /\ \A m \in Places(r) : /\ w.node[m].from_name = NoName
                                        /\ w.node[m].elem = s.node[m].elem
                                        /\ w.node[m].position \in Declared(s)[m]
                                        /\ w.node[m].at_value = w.node[m].position
<1>1. /\ Shaped(s) /\ Places(r) \subseteq DOMAIN s.node /\ Nodes(s) = Places(r) /\ Len(r) \in Nat /\ Len(r) >= 2
  BY WholeIs
<1>2. PICK y : y = Positioned(s)
  OBVIOUS
<1>3. /\ Whole(y, r, p) /\ Shaped(y) /\ Same(s, y)
      /\ \A m \in Places(r) : y.node[m].position \in Declared(s)[m]
  BY <1>2, PositionedIs
<1>4. PICK o : o = Counts(s)
  OBVIOUS
<1>5. o \in [Known -> Nat] /\ \A i \in 1 .. Len(r) : Plain(s, r[i]) => o[s.node[r[i]].elem] = 1
  BY <1>4, CountsIs
<1>6. PICK t : t = [y EXCEPT !.occ_list = o]
  OBVIOUS
<1>7. /\ Shaped(t) /\ t.occ_list = o
      /\ t.node = y.node /\ t.nodes = y.nodes /\ t.start = y.start /\ t.end = y.end
      /\ t.ref_flag = y.ref_flag /\ t.ranges = y.ranges
  BY ONLY <1>3, <1>5, <1>6, CountsSet
<1>8. Whole(t, r, p) /\ Places(r) \subseteq DOMAIN t.node
  <2>1. Places(r) \subseteq DOMAIN y.node
    BY <1>3, WholeIs
  <2>2. SameRing(y, t, r)
    BY <1>7, <2>1 DEF SameRing
  <2> QED
    BY <1>3, <1>7, <2>1, <2>2, WholeSame
<1>9. /\ Ring(t) = r /\ Nodes(t) = Places(r) /\ r \in Seq(DOMAIN t.node) /\ Labelled(t, r) /\ Once(t, r) /\ Chain(t, r)
  BY ZenonT(40), <1>8, WholeIs DEF Whole
<1>10. PICK list : list = AllAdded(t, r)
  OBVIOUS
<1>11. PICK x : Listed(t, list, r, x)
  BY <1>1, <1>7, <1>9, <1>10, AllAddedIs
<1>12. PICK g : g = [n \in Places(r) |-> [t.node[n] EXCEPT !.at_value = t.node[n].position, !.from_name = NoName]]
  OBVIOUS
<1>13. g \in [Places(r) -> NodeRecord]
       /\ \A n \in Places(r) :
            /\ g[n].name = t.node[n].name /\ g[n].elem = t.node[n].elem
            /\ g[n].next = t.node[n].next /\ g[n].previous = t.node[n].previous
            /\ g[n].position = t.node[n].position
            /\ g[n].at_value = t.node[n].position /\ g[n].from_name = NoName
  <2>1. \A n \in Places(r) : t.node[n] \in NodeRecord
    BY <1>7, <1>8, NodeIs
  <2>2. NoName \in Name
    BY DEF NoName, Name
  <2>3. ASSUME NEW n \in Places(r)
        PROVE  /\ g[n] \in NodeRecord
               /\ g[n].name = t.node[n].name /\ g[n].elem = t.node[n].elem
               /\ g[n].next = t.node[n].next /\ g[n].previous = t.node[n].previous
               /\ g[n].position = t.node[n].position
               /\ g[n].at_value = t.node[n].position /\ g[n].from_name = NoName
    <3>1. PICK z \in NodeRecord : z = t.node[n]
      BY <2>1
    <3>2. g[n] = [z EXCEPT !.at_value = z.position, !.from_name = NoName]
      BY <1>12, <3>1
    <3>3. z.position \in Int
      BY DEF NodeRecord
    <3>4. g[n] = [name |-> z.name, elem |-> z.elem, at_value |-> z.position, from_name |-> NoName,
                  position |-> z.position, next |-> z.next, previous |-> z.previous]
      BY <3>2 DEF NodeRecord
    <3>5. /\ z.name \in Name /\ z.elem \in Known /\ z.next \in Address /\ z.previous \in Address
      BY DEF NodeRecord
    <3> QED
      BY <2>2, <3>1, <3>3, <3>4, <3>5 DEF NodeRecord
  <2> QED
    BY <1>12, <2>3
<1>14. PICK N \in SUBSET Address : N = Places(r) /\ IsFiniteSet(N)
  <2>1. IsFiniteSet(DOMAIN t.node) /\ Places(r) \in SUBSET DOMAIN t.node /\ DOMAIN t.node \subseteq Address
    BY <1>7, <1>8, NodeIs DEF Shaped
  <2>2. IsFiniteSet(Places(r))
    BY ONLY <2>1, FS_Subset
  <2> QED
    BY <2>1, <2>2
<1>15. list \in Seq(Address)
  <2>1. list \in Seq(DOMAIN t.node) /\ DOMAIN t.node \subseteq Address
    BY <1>7, <1>11, NodeIs DEF Listed, Sorted
  <2> QED
    BY <2>1
<1>16. PICK R : R = [i \in DOMAIN t.ranges |-> <<0>> \o NameOf(t, t.ranges[i])]
  OBVIOUS
<1>17. PICK v1 : v1 = [t EXCEPT !.nodes = list]
  OBVIOUS
<1>18. PICK v2 : v2 = [v1 EXCEPT !.node = g]
  OBVIOUS
<1>19. PICK v3 : v3 = [v2 EXCEPT !.ref_flag = 0]
  OBVIOUS
<1>20. w = [v3 EXCEPT !.ranges = R]
  <2>1. Flattened(s) = [t EXCEPT !.node = g, !.nodes = list, !.ref_flag = 0, !.ranges = R]
    <3>1. t = [Positioned(s) EXCEPT !.occ_list = Counts(s)]
      BY <1>2, <1>4, <1>6
    <3>2. Flattened(s) = [t EXCEPT
         !.node = [n \in Nodes(t) |-> [t.node[n] EXCEPT !.at_value = t.node[n].position, !.from_name = NoName]],
         !.nodes = AllAdded(t, Ring(t)),
         !.ref_flag = 0,
         !.ranges = [i \in DOMAIN t.ranges |-> <<0>> \o NameOf(t, t.ranges[i])]]
      BY <3>1 DEF Flattened
    <3> QED
      BY <1>9, <1>10, <1>12, <1>16, <3>2
  <2>2. t \in [node : Heap, nodes : Seq(Address), start : Address, end : Address,
               ref_flag : Int, occ_list : [Known -> Nat], ranges : {t.ranges}]
    BY <1>7 DEF Shaped
  <2>3. [t EXCEPT !.node = g, !.nodes = list, !.ref_flag = 0, !.ranges = R] = [v3 EXCEPT !.ranges = R]
    BY <1>17, <1>18, <1>19, <2>2
  <2> QED
    BY <2>1, <2>3
<1>21. /\ Shaped(v1) /\ v1.nodes = list
       /\ v1.node = t.node /\ v1.start = t.start /\ v1.end = t.end
       /\ v1.ref_flag = t.ref_flag /\ v1.occ_list = t.occ_list /\ v1.ranges = t.ranges
  BY ONLY <1>7, <1>15, <1>17, ListSet
<1>22. /\ Shaped(v2) /\ v2.node = g
       /\ v2.nodes = v1.nodes /\ v2.start = v1.start /\ v2.end = v1.end
       /\ v2.ref_flag = v1.ref_flag /\ v2.occ_list = v1.occ_list /\ v2.ranges = v1.ranges
  <2>1. g \in [N -> NodeRecord]
    BY <1>13, <1>14
  <2> QED
    BY ONLY <1>14, <1>18, <1>21, <2>1, NodesSet
<1>23. /\ Shaped(v3) /\ v3.ref_flag = 0
       /\ v3.node = v2.node /\ v3.nodes = v2.nodes /\ v3.start = v2.start
       /\ v3.end = v2.end /\ v3.occ_list = v2.occ_list /\ v3.ranges = v2.ranges
  BY <1>19, <1>22, FlagSet
<1>24. /\ Shaped(w)
       /\ w.node = v3.node /\ w.nodes = v3.nodes /\ w.start = v3.start
       /\ w.end = v3.end /\ w.ref_flag = v3.ref_flag /\ w.occ_list = v3.occ_list
  BY ONLY <1>20, <1>23, RangesSet
<1>25. /\ w.node = g /\ w.nodes = list /\ w.start = t.start /\ w.end = t.end /\ w.ref_flag = 0 /\ w.occ_list = o
       /\ DOMAIN w.node = Places(r)
  BY <1>7, <1>13, <1>21, <1>22, <1>23, <1>24
<1>26. Whole(v1, r, x)
  <2>1. Chain(v1, r) /\ Labelled(v1, r) /\ Once(v1, r) /\ Listed(v1, v1.nodes, r, x)
    BY <1>9, <1>11, <1>21 DEF Chain, Closed, Labelled, Once, Plain, Listed, Sorted
  <2> QED
    BY <1>21, <2>1 DEF Whole
<1>27. SameRing(v1, w, r)
  BY <1>13, <1>21, <1>25 DEF SameRing
<1>28. Whole(w, r, x)
  BY <1>24, <1>26, <1>27, WholeSame
<1>29. \A m \in Places(r) : w.node[m].elem = s.node[m].elem /\ m \in DOMAIN s.node
  BY <1>1, <1>3, <1>7, <1>13, <1>25 DEF Same
<1>30. Counted(w, r)
  <2> SUFFICES ASSUME NEW i \in 1 .. Len(r), Plain(w, r[i])
               PROVE  w.occ_list[w.node[r[i]].elem] = 1
    BY DEF Counted
  <2>1. w.node[r[i]].elem = s.node[r[i]].elem
    BY <1>29, InPlaces
  <2> QED
    BY <1>5, <1>25, <2>1 DEF Plain
<1>31. \A m \in Places(r) : /\ w.node[m].from_name = NoName
                            /\ w.node[m].position \in Declared(s)[m]
                            /\ w.node[m].at_value = w.node[m].position
  BY <1>3, <1>7, <1>13, <1>25
<1> QED
  BY <1>25, <1>28, <1>29, <1>30, <1>31

-----------------------------------------------------------------------------
(* enter_sequence.                                                         *)

(***************************************************************************)
(* A sequence between its two markers.                                     *)
(***************************************************************************)
LEMMA BetweenIs ==
  ASSUME NEW X, NEW q \in Seq(X), NEW a \in X, NEW b \in X
  PROVE  /\ <<a>> \o q \o <<b>> \in Seq(X) /\ Len(<<a>> \o q \o <<b>>) = Len(q) + 2
         /\ (<<a>> \o q \o <<b>>)[1] = a /\ (<<a>> \o q \o <<b>>)[Len(q) + 2] = b
         /\ \A i \in 1 .. Len(q) : (<<a>> \o q \o <<b>>)[i + 1] = q[i]
<1>1. PICK c : c = <<a>> \o q
  OBVIOUS
<1>2. c \in Seq(X) /\ Len(c) = Len(q) + 1 /\ c[1] = a /\ \A i \in 1 .. Len(q) : c[i + 1] = q[i]
  BY <1>1
<1>3. PICK d : d = c \o <<b>>
  OBVIOUS
<1>4. /\ d \in Seq(X) /\ Len(d) = Len(q) + 2 /\ d[Len(q) + 2] = b
      /\ \A i \in 1 .. Len(q) + 1 : d[i] = c[i]
  BY <1>2, <1>3
<1>5. d[1] = a
  <2>1. 1 \in 1 .. Len(q) + 1
    OBVIOUS
  <2> QED
    BY <1>2, <1>4, <2>1
<1>6. \A i \in 1 .. Len(q) : d[i + 1] = q[i]
  <2>1. \A i \in 1 .. Len(q) : i + 1 \in 1 .. Len(q) + 1
    OBVIOUS
  <2> QED
    BY <1>2, <1>4, <2>1
<1> QED
  BY <1>1, <1>3, <1>4, <1>5, <1>6

Apart(q) == \A i, j \in 1 .. Len(q) : q[i] = q[j] => i = j

LEMMA BetweenApart ==
  ASSUME NEW q \in Seq(Element), Apart(q), NEW e, e = <<START>> \o q \o <<END>>
  PROVE  /\ e \in Seq(Element \union {START, END}) /\ Len(e) = Len(q) + 2 /\ Apart(e)
<1> DEFINE X == Element \union {START, END}
<1>1. START \in X /\ END \in X /\ START \notin Element /\ END \notin Element /\ START # END
  BY SequenceEditAssumption
<1>2. q \in Seq(X)
  OBVIOUS
<1>3. PICK k \in Nat : k = Len(q)
  OBVIOUS
<1>4. /\ e \in Seq(X) /\ Len(e) = k + 2 /\ e[1] = START /\ e[k + 2] = END
      /\ \A i \in 1 .. k : e[i + 1] = q[i]
  <2> HIDE DEF X
  <2>1. /\ <<START>> \o q \o <<END>> \in Seq(X) /\ Len(<<START>> \o q \o <<END>>) = Len(q) + 2
        /\ (<<START>> \o q \o <<END>>)[1] = START /\ (<<START>> \o q \o <<END>>)[Len(q) + 2] = END
        /\ \A i \in 1 .. Len(q) : (<<START>> \o q \o <<END>>)[i + 1] = q[i]
    BY ONLY <1>1, <1>2, BetweenIs
  <2> QED
    BY <1>3, <2>1
<1>5. \A i \in 1 .. k + 2 : i = 1 \/ i = k + 2 \/ (i - 1 \in 1 .. k /\ e[i] = q[i - 1] /\ e[i] \in Element)
  <2> SUFFICES ASSUME NEW i \in 1 .. k + 2, i # 1, i # k + 2
               PROVE  i - 1 \in 1 .. k /\ e[i] = q[i - 1] /\ e[i] \in Element
    OBVIOUS
  <2>1. i - 1 \in 1 .. k /\ (i - 1) + 1 = i
    OBVIOUS
  <2>2. e[i] = q[i - 1]
    BY <1>4, <2>1
  <2>3. q[i - 1] \in Element
    BY <1>3, <2>1
  <2> QED
    BY <2>1, <2>2, <2>3
<1>6. ASSUME NEW i \in 1 .. k + 2, NEW j \in 1 .. k + 2, e[i] = e[j]
      PROVE  i = j
  <2>1. CASE i = 1 \/ i = k + 2 \/ j = 1 \/ j = k + 2
    BY <1>1, <1>4, <1>5, <1>6, <2>1
  <2>2. CASE ~(i = 1 \/ i = k + 2 \/ j = 1 \/ j = k + 2)
    <3>1. i - 1 \in 1 .. k /\ j - 1 \in 1 .. k /\ q[i - 1] = q[j - 1]
      BY <1>5, <1>6, <2>2
    <3>2. i - 1 = j - 1
      BY <1>3, <3>1 DEF Apart
    <3> QED
      BY <3>2
  <2> QED
    BY <2>1, <2>2
<1> QED
  BY <1>3, <1>4, <1>6 DEF Apart

(***************************************************************************)
(* The places of all nodes, those of the ends with them.                   *)
(***************************************************************************)
Entered(q) == <<0>> \o q.at \o <<Length>>

LEMMA DefinedIs ==
  ASSUME NEW q \in Initial, Apart(q.elems), NEW d, d = Defined(q)
  PROVE  \E r, p : /\ Whole(d, r, p) /\ DOMAIN d.node = Places(r)
                   /\ d.ref_flag = q.ref_flag /\ Len(r) = Len(q.at) + 2
                   /\ \A i \in 1 .. Len(r) : /\ d.node[r[i]].from_name = NoName
                                             /\ d.node[r[i]].at_value = Entered(q)[i]
<1> DEFINE X == Element \union {START, END}
           elems == <<START>> \o q.elems \o <<END>>
           places == <<0>> \o q.at \o <<Length>>
           size == Len(elems)
           id(i) == <<elems[i], Cardinality({j \in 1 .. i : elems[j] = elems[i]})>>
           node(i) == [name |-> id(i), elem |-> elems[i], at_value |-> places[i],
                       from_name |-> NoName, position |-> 0,
                       next |-> id(IF i = size THEN 1 ELSE i + 1),
                       previous |-> id(IF i = 1 THEN size ELSE i - 1)]
           s == [node |-> [n \in {id(i) : i \in 1 .. size} |->
                             node(CHOOSE i \in 1 .. size : id(i) = n)],
                 nodes |-> <<>>,
                 start |-> id(1), end |-> id(size),
                 ref_flag |-> q.ref_flag,
                 occ_list |-> [e \in Known |-> 0],
                 ranges |-> <<>>]
<1>1. d = [s EXCEPT !.nodes = AllAdded(s, [i \in 1 .. size |-> id(i)])]
  BY DEF Defined
<1>2. /\ q.elems \in Seq(Element) /\ q.at \in Seq(Int) /\ Len(q.at) = Len(q.elems) /\ q.ref_flag \in Int
  BY SequenceEditAssumption
<1>3. PICK k \in Nat : k = size
  BY <1>2
<1>4. elems \in Seq(X) /\ Len(elems) = k /\ k >= 2 /\ Apart(elems)
  <2>1. PICK e : e = elems
    OBVIOUS
  <2>2. e \in Seq(X) /\ Len(e) = Len(q.elems) + 2 /\ Apart(e)
    <3>1. PICK qe \in Seq(Element) : qe = q.elems
      BY <1>2
    <3>2. Apart(qe) /\ e = <<START>> \o qe \o <<END>>
      BY <2>1, <3>1
    <3>3. e \in Seq(Element \union {START, END}) /\ Len(e) = Len(qe) + 2 /\ Apart(e)
      BY ONLY <3>2, BetweenApart
    <3> HIDE DEF elems
    <3> QED
      BY <3>1, <3>3
  <2>3. Len(q.elems) \in Nat
    BY <1>2
  <2> HIDE DEF elems, X
  <2> QED
    BY <1>3, <2>1, <2>2, <2>3
<1>5. places \in Seq(Int) /\ Len(places) = k
  <2>1. 0 \in Int /\ Length \in Int
    BY SequenceEditAssumption
  <2>2. places \in Seq(Int) /\ Len(places) = Len(q.at) + 2
    BY ONLY <1>2, <2>1, BetweenIs
  <2>3. Len(elems) = Len(q.elems) + 2
    BY <1>2
  <2> QED
    BY <1>2, <1>4, <2>2, <2>3
<1>6. PICK e : e = elems
  OBVIOUS
<1>7. \A i \in 1 .. k : e[i] \in X /\ e[i] \in Known /\ e[i] \in Int /\ ~IsPMark(e[i])
  <2>1. \A i \in 1 .. k : e[i] \in X
    BY <1>4, <1>6
  <2>2. \A x \in X : x \in Known /\ ~IsPMark(x) /\ x \in Int
    BY KnownIs
  <2> HIDE DEF X
  <2> QED
    BY <2>1, <2>2
<1>8. \A i, j \in 1 .. k : e[i] = e[j] => i = j
  BY <1>4, <1>6 DEF Apart
<1>9. PICK pl : pl = places
  OBVIOUS
<1>10. \A i \in 1 .. k : pl[i] \in Int
  BY <1>5, <1>9
<1> HIDE DEF elems, places
<1>11. \A i \in 1 .. k : id(i) = <<e[i], 1>>
  <2> SUFFICES ASSUME NEW i \in 1 .. k
               PROVE  id(i) = <<e[i], 1>>
    OBVIOUS
  <2>1. {j \in 1 .. i : elems[j] = elems[i]} = {i}
    <3>1. \A j \in 1 .. i : j \in 1 .. k
      OBVIOUS
    <3> QED
      BY <1>6, <1>8, <3>1
  <2>2. Cardinality({j \in 1 .. i : elems[j] = elems[i]}) = 1
    BY <2>1, FS_Singleton
  <2> QED
    BY <1>6, <2>2
<1>12. PICK r : r = [i \in 1 .. k |-> <<e[i], 1>>]
  OBVIOUS
<1>13. \A i \in 1 .. k : r[i] = <<e[i], 1>> /\ r[i] = id(i) /\ r[i] \in Address /\ r[i] \in Name
  <2> HIDE DEF id, X
  <2> SUFFICES ASSUME NEW i \in 1 .. k
               PROVE  r[i] = <<e[i], 1>> /\ r[i] = id(i) /\ r[i] \in Address /\ r[i] \in Name
    OBVIOUS
  <2>1. r[i] = <<e[i], 1>>
    BY <1>12
  <2>2. r[i] = id(i)
    BY <1>11, <2>1
  <2>3. r[i] \in Address
    BY <1>7, <2>1 DEF Address
  <2>4. r[i] \in Name
    BY <1>7, <2>1 DEF Name
  <2> QED
    BY <2>1, <2>2, <2>3, <2>4
<1>14. \A i, j \in 1 .. k : r[i] = r[j] => i = j
  <2> HIDE DEF id, X
  <2> SUFFICES ASSUME NEW i \in 1 .. k, NEW j \in 1 .. k, r[i] = r[j]
               PROVE  i = j
    OBVIOUS
  <2>1. r[i] = <<e[i], 1>> /\ r[j] = <<e[j], 1>>
    BY <1>13
  <2>2. <<e[i], 1>> = <<e[j], 1>>
    BY <2>1
  <2>3. e[i] = e[j]
    BY <2>2
  <2> QED
    BY <1>8, <2>3
<1>15. Len(r) = k /\ r \in Seq(Places(r)) /\ \A i \in 1 .. k : r[i] \in Places(r)
  <2>1. Len(r) = k
    BY <1>12
  <2>2. \A i \in 1 .. k : r[i] \in Places(r)
    BY <2>1 DEF Places
  <2>3. r \in [1 .. k -> Places(r)]
    BY <1>12, <2>2
  <2> QED
    BY <2>1, <2>2, <2>3
<1>16. s.node = [n \in Places(r) |-> node(CHOOSE i \in 1 .. k : r[i] = n)]
  <2>1. {id(i) : i \in 1 .. size} = Places(r)
    <3>1. \A i \in 1 .. k : id(i) = r[i]
      BY <1>13
    <3> HIDE DEF id
    <3> QED
      BY <1>3, <1>15, <3>1 DEF Places
  <2>2. \A n : (CHOOSE i \in 1 .. size : id(i) = n) = CHOOSE i \in 1 .. k : r[i] = n
    <3>1. \A n : \A i \in 1 .. k : id(i) = n <=> r[i] = n
      BY <1>13
    <3> HIDE DEF id
    <3> QED
      BY <1>3, <3>1
  <2>3. s.node = [n \in {id(i) : i \in 1 .. size} |-> node(CHOOSE i \in 1 .. size : id(i) = n)]
    OBVIOUS
  <2> HIDE DEF id, node, s
  <2> QED
    BY <2>1, <2>2, <2>3
<1>17. \A i \in 1 .. k : s.node[r[i]] = node(i)
  <2> SUFFICES ASSUME NEW i \in 1 .. k
               PROVE  s.node[r[i]] = node(i)
    OBVIOUS
  <2>1. PICK n : n = r[i]
    OBVIOUS
  <2> HIDE DEF id, node, s
  <2>2. (CHOOSE j \in 1 .. k : r[j] = n) = i
    <3>1. \A j \in 1 .. k : r[j] = n <=> j = i
      BY <1>14, <2>1
    <3> QED
      BY <3>1
  <2>3. n \in Places(r)
    BY <1>15, <2>1
  <2>4. s.node[n] = node(CHOOSE j \in 1 .. k : r[j] = n)
    BY <1>16, <2>3
  <2> QED
    BY <2>1, <2>2, <2>4
<1>18. \A i \in 1 .. k : node(i) = [name |-> r[i], elem |-> e[i], at_value |-> pl[i], from_name |-> NoName, position |-> 0,
                                    next |-> r[IF i = k THEN 1 ELSE i + 1],
                                    previous |-> r[IF i = 1 THEN k ELSE i - 1]]
  <2> SUFFICES ASSUME NEW i \in 1 .. k
               PROVE  node(i) = [name |-> r[i], elem |-> e[i], at_value |-> pl[i], from_name |-> NoName, position |-> 0,
                                 next |-> r[IF i = k THEN 1 ELSE i + 1],
                                 previous |-> r[IF i = 1 THEN k ELSE i - 1]]
    OBVIOUS
  <2>1. PICK a \in 1 .. k, b \in 1 .. k : a = (IF i = k THEN 1 ELSE i + 1) /\ b = (IF i = 1 THEN k ELSE i - 1)
    BY <1>4
  <2>2. id(i) = r[i] /\ id(a) = r[a] /\ id(b) = r[b]
    BY <1>13
  <2> HIDE DEF id
  <2> QED
    BY <1>3, <1>6, <1>9, <2>1, <2>2
<1> HIDE DEF node
<1>19. s.node \in [Places(r) -> NodeRecord]
  <2>1. ASSUME NEW n \in Places(r)
        PROVE  s.node[n] \in NodeRecord
    <3>1. PICK i \in 1 .. k : n = r[i]
      BY <1>15 DEF Places
    <3>2. PICK a \in 1 .. k, b \in 1 .. k : a = (IF i = k THEN 1 ELSE i + 1) /\ b = (IF i = 1 THEN k ELSE i - 1)
      BY <1>4
    <3> HIDE DEF s, id, X
    <3>3. s.node[n] = [name |-> r[i], elem |-> e[i], at_value |-> pl[i], from_name |-> NoName, position |-> 0,
                       next |-> r[a], previous |-> r[b]]
      BY <1>17, <1>18, <3>1, <3>2
    <3>4. NoName \in Name
      BY DEF NoName, Name
    <3>5. r[i] \in Name /\ r[a] \in Address /\ r[b] \in Address
      BY <1>13
    <3>6. e[i] \in Known /\ pl[i] \in Int
      BY <1>7, <1>10
    <3> QED
      BY <3>3, <3>4, <3>5, <3>6 DEF NodeRecord
  <2> HIDE DEF s
  <2> QED
    BY <1>16, <2>1
<1>20. Places(r) \in SUBSET Address /\ IsFiniteSet(Places(r))
  <2>1. Places(r) \in SUBSET Address
    BY <1>13, <1>15 DEF Places
  <2>2. IsFiniteSet(1 .. k)
    <3>1. 1 \in Int /\ k \in Int
      OBVIOUS
    <3> QED
      BY ONLY <3>1, FS_Interval
  <2>3. PICK f : f = [i \in 1 .. k |-> r[i]]
    OBVIOUS
  <2>4. f \in Surjection(1 .. k, Places(r))
    BY <1>15, <2>3 DEF Surjection, Places
  <2>5. IsFiniteSet(Places(r))
    BY ONLY <2>2, <2>4, FS_Surjection
  <2> QED
    BY <2>1, <2>5
<1>21. /\ s.nodes = <<>> /\ s.start = r[1] /\ s.end = r[k] /\ s.ref_flag \in Int
       /\ s.occ_list \in [Known -> Nat] /\ s.ranges = <<>>
  <2>1. 1 \in 1 .. k /\ k \in 1 .. k
    BY <1>4
  <2>2. id(1) = r[1] /\ id(k) = r[k]
    BY <1>13, <2>1
  <2> HIDE DEF id
  <2> QED
    BY <1>2, <1>3, <2>2
<1>22. Shaped(s)
  <2>1. s.node \in Heap /\ DOMAIN s.node = Places(r)
    <3> HIDE DEF s
    <3> QED
      BY <1>19, <1>20 DEF Heap
  <2>2. s.start \in Address /\ s.end \in Address
    <3>1. 1 \in 1 .. k /\ k \in 1 .. k
      BY <1>4
    <3> HIDE DEF s
    <3> QED
      BY <1>13, <1>21, <3>1
  <2>3. s.nodes \in Seq(Address)
    BY EmptySeq
  <2>4. s = [node |-> s.node, nodes |-> s.nodes, start |-> s.start, end |-> s.end, ref_flag |-> s.ref_flag,
             occ_list |-> s.occ_list, ranges |-> s.ranges]
    OBVIOUS
  <2> HIDE DEF s
  <2> QED
    BY <1>20, <1>21, <2>1, <2>2, <2>3, <2>4 DEF Shaped
<1>23. PICK u : u = s
  OBVIOUS
<1>24. /\ Shaped(u) /\ DOMAIN u.node = Places(r) /\ u.start = r[1] /\ u.end = r[k]
       /\ \A i \in 1 .. k :
            /\ u.node[r[i]].name = <<e[i], 1>> /\ u.node[r[i]].elem = e[i]
            /\ u.node[r[i]].next = r[IF i = k THEN 1 ELSE i + 1]
            /\ u.node[r[i]].previous = r[IF i = 1 THEN k ELSE i - 1]
            /\ u.node[r[i]].from_name = NoName /\ u.node[r[i]].at_value = pl[i]
  <2> HIDE DEF s, id, X
  <2>1. DOMAIN u.node = Places(r)
    BY <1>19, <1>23
  <2>2. ASSUME NEW i \in 1 .. k
        PROVE  /\ u.node[r[i]].name = <<e[i], 1>> /\ u.node[r[i]].elem = e[i]
               /\ u.node[r[i]].next = r[IF i = k THEN 1 ELSE i + 1]
               /\ u.node[r[i]].previous = r[IF i = 1 THEN k ELSE i - 1]
               /\ u.node[r[i]].from_name = NoName /\ u.node[r[i]].at_value = pl[i]
    <3>1. PICK x : x = u.node[r[i]]
      OBVIOUS
    <3>2. x = node(i)
      BY <1>17, <1>23, <3>1
    <3>3. node(i) = [name |-> r[i], elem |-> e[i], at_value |-> pl[i], from_name |-> NoName, position |-> 0,
                     next |-> r[IF i = k THEN 1 ELSE i + 1],
                     previous |-> r[IF i = 1 THEN k ELSE i - 1]]
      BY <1>18
    <3>4. r[i] = <<e[i], 1>>
      BY <1>13
    <3> QED
      BY <3>1, <3>2, <3>3, <3>4
  <2> QED
    BY <1>21, <1>22, <1>23, <2>1, <2>2
<1>25. d = [u EXCEPT !.nodes = AllAdded(u, r)]
  <2>1. [i \in 1 .. size |-> id(i)] = r
    <3>1. \A i \in 1 .. k : id(i) = <<e[i], 1>>
      BY <1>11
    <3> HIDE DEF id
    <3> QED
      BY <1>3, <1>12, <3>1
  <2>2. PICK path : path = [i \in 1 .. size |-> id(i)]
    OBVIOUS
  <2>3. d = [s EXCEPT !.nodes = AllAdded(s, path)]
    BY <1>1, <2>2
  <2> HIDE DEF s, id
  <2> QED
    BY <1>23, <2>1, <2>2, <2>3
<1> HIDE DEF s, id
<1>26. Closed(u, r)
  <2>1. \A i \in 1 .. k : u.node[r[IF i = k THEN 1 ELSE i + 1]].previous = r[i]
    <3> SUFFICES ASSUME NEW i \in 1 .. k
                 PROVE  u.node[r[IF i = k THEN 1 ELSE i + 1]].previous = r[i]
      OBVIOUS
    <3>1. PICK a \in 1 .. k : a = IF i = k THEN 1 ELSE i + 1
      BY <1>4
    <3>2. i = IF a = 1 THEN k ELSE a - 1
      BY <3>1
    <3>3. u.node[r[a]].previous = r[i]
      BY <1>24, <3>2
    <3> QED
      BY <3>1, <3>3
  <2> QED
    BY <1>4, <1>14, <1>15, <1>24, <2>1 DEF Closed, Follower
<1>27. Labelled(u, r) /\ Once(u, r)
  <2>1. ASSUME NEW i \in 1 .. k
        PROVE  Plain(u, r[i])
    <3> HIDE DEF X
    <3>1. u.node[r[i]].name = <<e[i], 1>> /\ u.node[r[i]].elem = e[i]
      BY <1>24
    <3>2. ~IsPMark(e[i])
      BY <1>7
    <3> QED
      BY <3>1, <3>2 DEF Plain
  <2>2. Labelled(u, r)
    <3>1. \A i \in 1 .. k : u.node[r[i]].name = <<u.node[r[i]].elem, 1>>
      BY <1>24
    <3> QED
      BY ONLY <1>15, <2>1, <3>1 DEF Labelled
  <2>3. Once(u, r)
    <3>1. \A i \in 1 .. k : u.node[r[i]].elem = e[i]
      BY <1>24
    <3> QED
      BY ONLY <1>8, <1>15, <3>1 DEF Once
  <2> QED
    BY <2>2, <2>3
<1>28. PICK p : Listed(u, AllAdded(u, r), r, p)
  <2>1. r \in Seq(DOMAIN u.node) /\ Len(r) >= 2
    BY <1>4, <1>15, <1>24
  <2> QED
    BY <1>24, <1>27, <2>1, AllAddedIs
<1>29. PICK list : list = AllAdded(u, r)
  OBVIOUS
<1>30. list \in Seq(Address)
  <2>1. list \in Seq(DOMAIN u.node) /\ DOMAIN u.node \subseteq Address
    BY <1>24, <1>28, <1>29, NodeIs DEF Listed, Sorted
  <2> QED
    BY <2>1
<1>31. /\ Shaped(d) /\ d.nodes = list
       /\ d.node = u.node /\ d.start = u.start /\ d.end = u.end
       /\ d.ref_flag = u.ref_flag /\ d.occ_list = u.occ_list /\ d.ranges = u.ranges
  <2>1. d = [u EXCEPT !.nodes = list] /\ Shaped(u)
    BY <1>24, <1>25, <1>29
  <2> QED
    BY ONLY <1>30, <2>1, ListSet
<1>32. Whole(d, r, p) /\ DOMAIN d.node = Places(r)
  <2>1. Chain(d, r)
    BY <1>15, <1>24, <1>26, <1>31 DEF Chain, Closed
  <2>2. Labelled(d, r) /\ Once(d, r) /\ Listed(d, d.nodes, r, p)
    BY SMTT(40), <1>27, <1>28, <1>29, <1>31 DEF Labelled, Once, Plain, Listed, Sorted
  <2> QED
    BY <1>24, <1>31, <2>1, <2>2 DEF Whole
<1>33. d.ref_flag = q.ref_flag
  <2>1. u.ref_flag = q.ref_flag
    BY <1>23 DEF s
  <2> QED
    BY <1>31, <2>1
<1>34. Len(r) = Len(q.at) + 2
  <2>1. size = Len(q.elems) + 2
    <3>1. START \in X /\ END \in X /\ q.elems \in Seq(X)
      BY <1>2
    <3> QED
      BY <3>1, BetweenIs DEF elems
  <2> QED
    BY <1>2, <1>3, <1>15, <2>1
<1>35. \A i \in 1 .. Len(r) : /\ d.node[r[i]].from_name = NoName
                              /\ d.node[r[i]].at_value = Entered(q)[i]
  <2>1. pl = Entered(q)
    BY <1>9 DEF places, Entered
  <2>2. \A i \in 1 .. k : u.node[r[i]].from_name = NoName /\ u.node[r[i]].at_value = pl[i]
    BY <1>24
  <2>3. Len(r) = k /\ d.node = u.node
    BY <1>15, <1>31
  <2> QED
    BY ONLY <2>1, <2>2, <2>3
<1> QED
  BY ONLY ZenonT(40), <1>32, <1>33, <1>34, <1>35

-----------------------------------------------------------------------------
(* The commands.                                                           *)

(***************************************************************************)
(* Ring, list and memory of s hold the same nodes, and so do the counts.   *)
(***************************************************************************)
Sound(s, r, p) == Whole(s, r, p) /\ DOMAIN s.node = Places(r)

Standing(s, counted) == \E r, p : Sound(s, r, p) /\ (counted => Counted(s, r))

LEMMA StandsBoth ==
  ASSUME NEW s, Standing(s, TRUE), NEW on
  PROVE  Standing(s, on)
  BY DEF Standing

LEMMA KeptStands ==
  ASSUME NEW s, NEW r, NEW p, Whole(s, r, p), NEW z, DOMAIN s.node \ Places(r) \subseteq {z},
         NEW on, on => Counted(s, r)
  PROVE  Standing(Kept(s), on)
<1>1. PICK k : k = Kept(s)
  OBVIOUS
<1>2. /\ Whole(k, r, p) /\ DOMAIN k.node = Places(r) /\ k.occ_list = s.occ_list
      /\ \A m \in Places(r) : k.node[m] = s.node[m]
  BY <1>1, KeptIs
<1>3. \A m \in Places(r) : k.node[m].elem = s.node[m].elem
  BY <1>2
<1>4. ASSUME on
      PROVE  Counted(k, r)
  <2>1. Counted(s, r)
    BY <1>4
  <2> QED
    BY ONLY <1>2, <1>3, <2>1, CountedSame
<1> QED
  BY <1>1, <1>2, <1>4 DEF Standing, Sound

(***************************************************************************)
(* The node a command names, in the ring and plain.                        *)
(***************************************************************************)
LEMMA NodeOfName ==
  ASSUME NEW s, NEW r, NEW p, Whole(s, r, p), NEW x, x[1] \in Element, Has(s, s.nodes, x),
         NEW n, n = Lookup(s, x)
  PROVE  n \in Places(r) /\ Plain(s, n) /\ s.node[n].name = x /\ s.node[n].elem \in Element
<1>1. Shaped(s) /\ s.nodes \in Seq(DOMAIN s.node) /\ Listed(s, s.nodes, r, p)
  BY WholeIs DEF Whole
<1>2. Len(s.nodes) \in Nat
  BY <1>1
<1>3. PICK out : out = Probe(s, s.nodes, x)
  OBVIOUS
<1>4. out.hit = FALSE \/ (out.at \in 1 .. Len(s.nodes) /\ NameOf(s, s.nodes[out.at]) = x)
  BY <1>2, <1>3, ProbeSound
<1>5. out.hit /\ n = s.nodes[out.at]
  BY <1>3 DEF Has, Lookup
<1>6. PICK a \in 1 .. Len(s.nodes) : a = out.at
  BY <1>4, <1>5
<1>7. n = s.nodes[a] /\ NameOf(s, n) = x
  BY <1>4, <1>5, <1>6
<1>8. n \in Places(r) /\ n \in DOMAIN s.node
  BY <1>1, <1>6, <1>7 DEF Listed
<1>9. s.node[n].name = x
  BY <1>1, <1>7, <1>8, NodeIs
<1>10. ~IsPMark(x[1])
  BY KnownIs
<1>11. p \in 0 .. Len(s.nodes) /\ \A i \in p + 1 .. Len(s.nodes) : IsPMark(s.node[s.nodes[i]].name[1])
  BY <1>1 DEF Listed, Sorted
<1>12. a \in 1 .. p
  <2>1. a \notin p + 1 .. Len(s.nodes)
    BY <1>7, <1>9, <1>10, <1>11
  <2> QED
    BY <1>2, <1>11, <2>1
<1>13. Plain(s, n)
  BY <1>1, <1>7, <1>12 DEF Listed
<1>14. s.node[n].name = <<s.node[n].elem, 1>>
  <2>1. Labelled(s, r)
    BY DEF Whole
  <2>2. PICK i \in 1 .. Len(r) : n = r[i]
    BY <1>8 DEF Places
  <2> QED
    BY <1>13, <2>1, <2>2 DEF Labelled
<1>15. s.node[n].elem = x[1]
  <2>1. x = <<s.node[n].elem, 1>>
    BY <1>9, <1>14
  <2> QED
    BY <2>1
<1> QED
  BY <1>8, <1>9, <1>13, <1>15

(***************************************************************************)
(* An element that occ_list does not count is not in the ring.             *)
(***************************************************************************)
LEMMA Uncounted ==
  ASSUME NEW s, NEW r, Counted(s, r), NEW e \in Element, s.occ_list[e] = 0
  PROVE  \A m \in Places(r) : s.node[m].elem # e
<1> SUFFICES ASSUME NEW m \in Places(r), s.node[m].elem = e
             PROVE  FALSE
  OBVIOUS
<1>1. PICK i \in 1 .. Len(r) : m = r[i]
  BY DEF Places
<1>2. Plain(s, r[i])
  BY <1>1, KnownIs DEF Plain
<1> QED
  BY <1>1, <1>2 DEF Counted

LEMMA CountedWith ==
  ASSUME NEW s, NEW r, NEW p, Whole(s, r, p), Counted(s, r), NEW u, NEW q, NEW e \in Known,
         u.occ_list = [s.occ_list EXCEPT ![e] = 1],
         \A m \in Places(q) : u.node[m].elem = e \/ (m \in Places(r) /\ u.node[m].elem = s.node[m].elem)
  PROVE  Counted(u, q)
<1> SUFFICES ASSUME NEW i \in 1 .. Len(q), Plain(u, q[i])
             PROVE  u.occ_list[u.node[q[i]].elem] = 1
  BY DEF Counted
<1>0. s.occ_list \in [Known -> Nat]
  BY DEF Whole, Shaped
<1>1. PICK m : m = q[i]
  OBVIOUS
<1>2. m \in Places(q)
  BY <1>1 DEF Places
<1>3. CASE u.node[m].elem = e
  BY <1>0, <1>1, <1>3
<1>4. CASE u.node[m].elem # e
  <2>1. m \in Places(r) /\ u.node[m].elem = s.node[m].elem
    BY <1>2, <1>4
  <2>2. PICK j \in 1 .. Len(r) : m = r[j]
    BY <2>1 DEF Places
  <2>3. Plain(s, r[j])
    BY <1>1, <2>1, <2>2 DEF Plain
  <2>4. s.occ_list[s.node[m].elem] = 1
    BY <2>2, <2>3 DEF Counted
  <2>5. s.node[m].elem \in Known
    <3>1. Shaped(s) /\ Places(r) \subseteq DOMAIN s.node
      BY WholeIs
    <3> QED
      BY <2>1, <3>1, NodeIs
  <2> QED
    BY <1>0, <1>1, <1>4, <2>1, <2>4, <2>5
<1> QED
  BY <1>3, <1>4

LEMMA InstalledStands ==
  ASSUME NEW s, NEW r, NEW p, Sound(s, r, p), Counted(s, r), NEW e \in Element, s.occ_list[e] = 0,
         NEW from \in Name, NEW at \in Int, NEW pos \in Int
  PROVE  Standing(Kept(Installed(s, e, from, at, pos)), TRUE)
<1>1. Whole(s, r, p) /\ DOMAIN s.node = Places(r)
  BY DEF Sound
<1>2. \A m \in Places(r) : s.node[m].elem # e
  BY Uncounted
<1>3. PICK u : u = Installed(s, e, from, at, pos)
  OBVIOUS
<1>4. \E n, j : /\ Whole(u, InsertAt(r, j, n), p + 1) /\ Joined(s, u, r, n, j)
                /\ DOMAIN u.node = Places(InsertAt(r, j, n)) /\ Widened(InsertAt(r, j, n), r, j, n)
                /\ u.node[n].elem = e /\ u.node[n].from_name = from
                /\ u.node[n].at_value = at /\ u.node[n].position = pos
                /\ u.occ_list = [s.occ_list EXCEPT ![e] = 1]
  BY <1>1, <1>2, <1>3, InstalledIs
<1>5. PICK n, j : /\ Whole(u, InsertAt(r, j, n), p + 1) /\ Joined(s, u, r, n, j)
                  /\ DOMAIN u.node = Places(InsertAt(r, j, n)) /\ Widened(InsertAt(r, j, n), r, j, n)
                  /\ u.node[n].elem = e /\ u.occ_list = [s.occ_list EXCEPT ![e] = 1]
  BY <1>4
<1>6. PICK q : q = InsertAt(r, j, n)
  OBVIOUS
<1>7. Places(q) = Places(r) \union {n}
  <2>1. Len(r) \in Nat /\ j \in 2 .. Len(r) + 1 /\ Widened(q, r, j, n)
    <3>1. Len(r) \in Nat /\ j \in 2 .. Len(r)
      BY <1>1, <1>5, WholeIs DEF Joined
    <3> QED
      BY <1>5, <1>6, <3>1
  <2> QED
    BY ONLY <2>1, WidenedPlaces
<1>8. \A m \in Places(q) : u.node[m].elem = e \/ (m \in Places(r) /\ u.node[m].elem = s.node[m].elem)
  BY <1>5, <1>7 DEF Joined
<1>9. e \in Known
  BY KnownIs
<1>10. Counted(u, q)
  <2>1. u.occ_list = [s.occ_list EXCEPT ![e] = 1] /\ Whole(s, r, p) /\ Counted(s, r)
    BY <1>1, <1>5
  <2> QED
    BY ONLY <1>8, <1>9, <2>1, CountedWith
<1>11. Whole(u, q, p + 1) /\ DOMAIN u.node = Places(q)
  BY <1>5, <1>6
<1>12. DOMAIN u.node \ Places(q) \subseteq {n}
  BY <1>11
<1>13. Standing(Kept(u), TRUE)
  BY <1>10, <1>11, <1>12, KeptStands
<1> QED
  BY <1>3, <1>13

(***************************************************************************)
(* The place of a node, in the ring, that is neither its start nor its end. *)
(***************************************************************************)
LEMMA Within ==
  ASSUME NEW s, NEW r, NEW p, Whole(s, r, p), NEW n \in Places(r), n \notin {s.start, s.end}
  PROVE  \E h \in 2 .. Len(r) - 1 : n = r[h]
<1>1. Len(r) \in Nat /\ s.start = r[1] /\ s.end = r[Len(r)]
  BY WholeIs
<1>2. PICK h \in 1 .. Len(r) : n = r[h]
  BY DEF Places
<1>3. h # 1 /\ h # Len(r)
  BY <1>1, <1>2
<1>4. h \in 2 .. Len(r) - 1
  BY <1>1, <1>3
<1> QED
  BY <1>2, <1>4

(***************************************************************************)
(* A node that is taken out, and what stays.                               *)
(***************************************************************************)
LEMMA TakenIs ==
  ASSUME NEW s, NEW r, NEW p, Sound(s, r, p), Counted(s, r),
         NEW n \in Places(r), Plain(s, n), n \notin {s.start, s.end}, NEW k, k = Kept(Removed(s, n))
  PROVE  \E q : /\ Sound(k, q, p - 1) /\ Counted(k, q) /\ k.occ_list = [s.occ_list EXCEPT ![s.node[n].elem] = 0]
<1>1. Whole(s, r, p) /\ DOMAIN s.node = Places(r)
  BY DEF Sound
<1>2. PICK h \in 2 .. Len(r) - 1 : n = r[h]
  BY <1>1, Within
<1>3. PICK e : e = s.node[n].elem
  OBVIOUS
<1>4. s.occ_list[e] = 1
  <2>1. PICK i \in 1 .. Len(r) : n = r[i]
    BY DEF Places
  <2> QED
    BY <1>3, <2>1 DEF Counted
<1>5. PICK w : w = Removed(s, n)
  OBVIOUS
<1>6. PICK q : q = RemoveAt(r, h)
  OBVIOUS
<1>7. /\ Whole(w, q, p - 1) /\ Places(q) = Places(r) \ {n} /\ DOMAIN w.node = DOMAIN s.node
      /\ w.occ_list = [s.occ_list EXCEPT ![e] = 0]
      /\ \A m \in Places(q) : s.node[m].elem # e /\ w.node[m].elem = s.node[m].elem
  <2>1. /\ Whole(w, RemoveAt(r, h), p - 1) /\ Places(RemoveAt(r, h)) = Places(r) \ {n}
        /\ DOMAIN w.node = DOMAIN s.node /\ w.occ_list = [s.occ_list EXCEPT ![e] = 0]
        /\ \A m \in Places(RemoveAt(r, h)) : s.node[m].elem # e /\ w.node[m].elem = s.node[m].elem
    BY <1>1, <1>2, <1>3, <1>4, <1>5, RemovedIs
  <2> QED
    BY <1>6, <2>1
<1>8. DOMAIN w.node \ Places(q) \subseteq {n}
  BY <1>1, <1>7
<1>9. Counted(w, q)
  <2> SUFFICES ASSUME NEW i \in 1 .. Len(q), Plain(w, q[i])
               PROVE  w.occ_list[w.node[q[i]].elem] = 1
    BY DEF Counted
  <2>1. PICK m : m = q[i]
    OBVIOUS
  <2>2. m \in Places(q)
    BY <2>1 DEF Places
  <2>3. PICK f : f = s.node[m].elem
    OBVIOUS
  <2>4. f # e /\ w.node[m].elem = f /\ m \in Places(r)
    BY <1>7, <2>2, <2>3
  <2>5. PICK j \in 1 .. Len(r) : m = r[j]
    BY <2>4 DEF Places
  <2>6. Plain(s, r[j])
    BY <2>1, <2>3, <2>4, <2>5 DEF Plain
  <2>7. s.occ_list[f] = 1
    BY <2>3, <2>5, <2>6 DEF Counted
  <2>8. w.occ_list[f] = 1
    <3>1. s.occ_list \in [Known -> Nat]
      BY <1>1 DEF Whole, Shaped
    <3>2. f \in Known
      BY <1>1, <2>3, <2>4, NodeIs, WholeIs
    <3> QED
      BY <1>7, <2>4, <2>7, <3>1, <3>2
  <2> QED
    BY <2>1, <2>4, <2>8
<1>10. /\ Whole(k, q, p - 1) /\ DOMAIN k.node = Places(q) /\ k.occ_list = w.occ_list
       /\ \A m \in Places(q) : k.node[m] = w.node[m]
  <2>1. /\ Whole(Kept(w), q, p - 1) /\ DOMAIN Kept(w).node = Places(q) /\ Kept(w).occ_list = w.occ_list
        /\ \A m \in Places(q) : Kept(w).node[m] = w.node[m]
    BY <1>7, <1>8, KeptIs
  <2> QED
    BY <1>5, <2>1
<1>11. Counted(k, q)
  <2>1. \A m \in Places(q) : k.node[m].elem = w.node[m].elem
    BY <1>10
  <2> QED
    BY <1>9, <1>10, <2>1, CountedSame
<1> QED
  BY <1>3, <1>7, <1>10, <1>11 DEF Sound

LEMMA RemovedStands ==
  ASSUME NEW s, NEW r, NEW p, Sound(s, r, p), Counted(s, r),
         NEW n \in Places(r), Plain(s, n), n \notin {s.start, s.end}
  PROVE  Standing(Kept(Removed(s, n)), TRUE)
<1>1. PICK k : k = Kept(Removed(s, n))
  OBVIOUS
<1>2. PICK q : Sound(k, q, p - 1) /\ Counted(k, q)
  BY <1>1, TakenIs
<1> QED
  BY <1>1, <1>2 DEF Standing

LEMMA MovedStands ==
  ASSUME NEW s, NEW r, NEW p, Sound(s, r, p), Counted(s, r),
         NEW n \in Places(r), Plain(s, n), n \notin {s.start, s.end}, s.node[n].elem \in Element, NEW to \in Int
  PROVE  Standing(Kept(Moved(s, n, to)), TRUE)
<1>1. PICK k : k = Kept(Removed(s, n))
  OBVIOUS
<1>2. PICK e \in Element : e = s.node[n].elem
  OBVIOUS
<1>3. PICK q : Sound(k, q, p - 1) /\ Counted(k, q) /\ k.occ_list = [s.occ_list EXCEPT ![e] = 0]
  BY <1>1, <1>2, TakenIs
<1>4. s.occ_list \in [Known -> Nat] /\ e \in Known
  BY KnownIs DEF Sound, Whole, Shaped
<1>5. k.occ_list[e] = 0
  BY <1>3, <1>4
<1>6. s.occ_list[e] = 1
  <2>1. PICK i \in 1 .. Len(r) : n = r[i]
    BY DEF Places
  <2> QED
    BY <1>2, <2>1 DEF Counted
<1>7. Moved(s, n, to) = Installed(k, e, NoName, to, to)
  BY <1>1, <1>2, <1>6 DEF Moved
<1>8. NoName \in Name
  BY DEF NoName, Name
<1>9. Standing(Kept(Installed(k, e, NoName, to, to)), TRUE)
  BY <1>3, <1>5, <1>8, InstalledStands
<1> QED
  BY <1>7, <1>9

LEMMA ReplacedStands ==
  ASSUME NEW s, NEW r, NEW p, Sound(s, r, p), Counted(s, r),
         NEW n \in Places(r), Plain(s, n), n \notin {s.start, s.end}, NEW e \in Element, s.occ_list[e] = 0
  PROVE  Standing(Kept(Replaced(s, n, e)), TRUE)
<1>1. Whole(s, r, p) /\ DOMAIN s.node = Places(r)
  BY DEF Sound
<1>2. PICK h \in 2 .. Len(r) - 1 : n = r[h]
  BY <1>1, Within
<1>3. \A m \in Places(r) : s.node[m].elem # e
  BY Uncounted
<1>4. PICK w : w = Replaced(s, n, e)
  OBVIOUS
<1>5. /\ Whole(w, r, p) /\ DOMAIN w.node = DOMAIN s.node /\ w.occ_list = [s.occ_list EXCEPT ![e] = 1]
      /\ w.node[n].elem = e /\ \A m \in DOMAIN s.node : m # n => w.node[m].elem = s.node[m].elem
  <2>1. Whole(w, r, p) /\ Exchanged(s, w, n, e)
    BY <1>1, <1>2, <1>3, <1>4, ReplacedIs
  <2> QED
    BY ONLY <2>1 DEF Exchanged
<1>6. \A m \in Places(r) : w.node[m].elem = e \/ (m \in Places(r) /\ w.node[m].elem = s.node[m].elem)
  BY <1>1, <1>5
<1>7. e \in Known
  BY KnownIs
<1>8. Counted(w, r)
  BY <1>1, <1>5, <1>6, <1>7, CountedWith
<1>9. DOMAIN w.node \ Places(r) \subseteq {n}
  BY SMTT(40), <1>1, <1>5
<1> QED
  BY <1>4, <1>5, <1>8, <1>9, KeptStands

(***************************************************************************)
(* What clearing the selected ranges leaves.                               *)
(***************************************************************************)
LEMMA UnrangedIs ==
  ASSUME NEW s, NEW r, NEW p, Whole(s, r, p), NEW w, w = [s EXCEPT !.ranges = <<>>]
  PROVE  Whole(w, r, p) /\ w.node = s.node /\ (Counted(s, r) => Counted(w, r))
<1>1. Shaped(s)
  BY DEF Whole
<1>2. /\ Shaped(w) /\ w.node = s.node /\ w.nodes = s.nodes /\ w.start = s.start
      /\ w.end = s.end /\ w.ref_flag = s.ref_flag /\ w.occ_list = s.occ_list
  BY <1>1, RangesSet
<1> QED
  BY <1>2 DEF Whole, Chain, Closed, Labelled, Once, Plain, Listed, Sorted, Counted

LEMMA SeqeditStands ==
  ASSUME NEW s, NEW r, NEW p, Sound(s, r, p), Resolved(Resequenced(s))
  PROVE  Standing(Positioned(Resequenced(s)), TRUE)
<1>1. Whole(s, r, p) /\ DOMAIN s.node = Places(r)
  BY DEF Sound
<1>2. PICK w : w = Resequenced(s)
  OBVIOUS
<1>3. Whole(w, r, p) /\ Counted(w, r) /\ DOMAIN w.node = DOMAIN s.node
  BY <1>1, <1>2, ResequencedIs
<1>4. PICK v : v = Positioned(w)
  OBVIOUS
<1>5. Resolved(w)
  BY <1>2
<1>6. Whole(v, r, p) /\ Same(w, v)
  BY <1>3, <1>4, <1>5, PositionedIs
<1>7. DOMAIN v.node = Places(r) /\ v.occ_list = w.occ_list /\ \A m \in Places(r) : v.node[m].elem = w.node[m].elem
  BY <1>1, <1>3, <1>6 DEF Same
<1>8. Counted(v, r)
  BY <1>3, <1>7, CountedSame
<1> QED
  BY <1>2, <1>4, <1>6, <1>7, <1>8 DEF Standing, Sound

LEMMA EndeditStands ==
  ASSUME NEW s, NEW r, NEW p, Sound(s, r, p)
  PROVE  Standing(Kept([Resequenced(s) EXCEPT !.ranges = <<>>]), TRUE)
<1>1. Whole(s, r, p) /\ DOMAIN s.node = Places(r)
  BY DEF Sound
<1>2. PICK w : w = Resequenced(s)
  OBVIOUS
<1>3. Whole(w, r, p) /\ Counted(w, r) /\ DOMAIN w.node = DOMAIN s.node
  BY <1>1, <1>2, ResequencedIs
<1>4. PICK v : v = [w EXCEPT !.ranges = <<>>]
  OBVIOUS
<1>5. Whole(v, r, p) /\ DOMAIN v.node = Places(r) /\ Counted(v, r)
  BY <1>1, <1>3, <1>4, UnrangedIs
<1>6. DOMAIN v.node \ Places(r) \subseteq {1}
  BY <1>5
<1>7. Standing(Kept(v), TRUE)
  BY <1>5, <1>6, KeptStands
<1> QED
  BY <1>2, <1>4, <1>7

LEMMA FlattenStands ==
  ASSUME NEW s, NEW r, NEW p, Sound(s, r, p), Resolved(s)
  PROVE  Standing(Kept(Flattened(s)), TRUE)
<1>1. Whole(s, r, p)
  BY DEF Sound
<1>2. PICK w : w = Flattened(s)
  OBVIOUS
<1>3. PICK x : Whole(w, r, x) /\ DOMAIN w.node = Places(r) /\ Counted(w, r)
  BY <1>1, <1>2, FlattenedIs
<1>4. DOMAIN w.node \ Places(r) \subseteq {1}
  BY <1>3
<1>5. Standing(Kept(w), TRUE)
  BY <1>3, <1>4, KeptStands
<1> QED
  BY <1>2, <1>5

LEMMA ReflectStands ==
  ASSUME NEW s, NEW r, NEW p, Sound(s, r, p), Counted(s, r), OwnNamed(s, r)
  PROVE  Standing(Kept(Reflected(s)), TRUE)
<1>1. Whole(s, r, p) /\ DOMAIN s.node = Places(r)
  BY DEF Sound
<1>2. PICK w : w = Reflected(s)
  OBVIOUS
<1>3. PICK q : q = Reversed(r)
  OBVIOUS
<1>4. /\ Whole(w, q, p) /\ Places(q) = Places(r) /\ DOMAIN w.node = DOMAIN s.node /\ w.occ_list = s.occ_list
      /\ \A m \in Places(r) : w.node[m].elem = s.node[m].elem
  BY <1>1, <1>2, <1>3, ReflectedIs
<1>5. Counted(w, q)
  <2>1. \A m \in Places(q) : m \notin Places(r) => ~Plain(w, m)
    BY <1>4
  <2> QED
    BY <1>4, <2>1, CountedOver
<1>6. DOMAIN w.node \ Places(q) \subseteq {1}
  BY <1>1, <1>4
<1>7. Standing(Kept(w), TRUE)
  BY <1>4, <1>5, <1>6, KeptStands
<1> QED
  BY <1>2, <1>7

LEMMA CycleStands ==
  ASSUME NEW s, NEW r, NEW p, Sound(s, r, p), Counted(s, r), OwnNamed(s, r),
         NEW m \in Marker, Has(s, s.nodes, <<m, 1>>), Resolved(Cycled(s, m))
  PROVE  Standing(Kept(Positioned(Cycled(s, m))), TRUE)
<1>1. Whole(s, r, p) /\ DOMAIN s.node = Places(r)
  BY DEF Sound
<1>2. PICK w : w = Cycled(s, m)
  OBVIOUS
<1>3. PICK q : /\ Whole(w, q, p) /\ DOMAIN w.node = Places(q) /\ w.occ_list = s.occ_list
               /\ \A x \in Places(r) : w.node[x].elem = s.node[x].elem
               /\ \A x \in Places(q) : x \notin Places(r) => ~Plain(w, x)
  BY <1>1, <1>2, CycledIs
<1>4. Counted(w, q)
  BY <1>3, CountedOver
<1>5. PICK v : v = Positioned(w)
  OBVIOUS
<1>6. Resolved(w)
  BY <1>2
<1>7. Whole(v, q, p) /\ Same(w, v)
  BY <1>3, <1>5, <1>6, PositionedIs
<1>8. DOMAIN v.node = Places(q) /\ v.occ_list = w.occ_list /\ \A x \in Places(q) : v.node[x].elem = w.node[x].elem
  BY <1>3, <1>7 DEF Same
<1>9. Counted(v, q)
  BY <1>4, <1>8, CountedSame
<1>10. DOMAIN v.node \ Places(q) \subseteq {1}
  BY <1>8
<1>11. Standing(Kept(v), TRUE)
  BY <1>7, <1>9, <1>10, KeptStands
<1> QED
  BY <1>2, <1>5, <1>11

LEMMA UnselectStands ==
  ASSUME NEW s, NEW on, Standing(s, on)
  PROVE  Standing(Kept([s EXCEPT !.ranges = <<>>]), on)
<1>1. PICK r, p : Sound(s, r, p) /\ (on => Counted(s, r))
  BY DEF Standing
<1>2. PICK w : w = [s EXCEPT !.ranges = <<>>]
  OBVIOUS
<1>3. Whole(w, r, p) /\ w.node = s.node /\ (Counted(s, r) => Counted(w, r))
  <2>1. Whole(s, r, p)
    BY <1>1 DEF Sound
  <2> QED
    BY <1>2, <2>1, UnrangedIs
<1>4. DOMAIN w.node \ Places(r) \subseteq {1}
  BY <1>1, <1>3 DEF Sound
<1>5. on => Counted(w, r)
  BY <1>1, <1>3
<1>6. Standing(Kept(w), on)
  BY <1>3, <1>4, <1>5, KeptStands
<1> QED
  BY <1>2, <1>6

-----------------------------------------------------------------------------
(* The invariant.                                                          *)

(***************************************************************************)
(* Each element comes once, and nodes are edited by their names.           *)
(***************************************************************************)
Selecting == {"install_selected", "move_selected", "remove_selected", "replace_selected"}

ByName ==
  /\ Reuse = {} /\ \A q \in Initial : Apart(q.elems)
  /\ Commands \cap (Selecting \union {"turn_again"}) = {}

Tidy == Standing(ed, edit_is_on)

LEMMA TidyHolds ==
  ASSUME Tidy
  PROVE  Intact
<1>1. PICK r, p : Sound(ed, r, p) /\ (edit_is_on => Counted(ed, r))
  BY DEF Tidy, Standing
<1>2. /\ Whole(ed, r, p) /\ Shaped(ed) /\ Labelled(ed, r) /\ Listed(ed, ed.nodes, r, p)
  BY <1>1 DEF Sound, Whole
<1>3. /\ Closed(ed, r) /\ ed.start = r[1] /\ ed.end = r[Len(r)]
      /\ r \in Seq(DOMAIN ed.node) /\ Len(r) \in Nat /\ Len(r) >= 2
      /\ Ring(ed) = r /\ Nodes(ed) = Places(r)
  BY <1>2, WholeIs
<1>4. \A i \in 1 .. Len(r) : /\ ed.node[r[i]].next = r[Follower(r, i)]
                             /\ ed.node[r[Follower(r, i)]].previous = r[i]
  BY <1>3 DEF Closed
<1>5. RingIntact
  <2>1. Last(Ring(ed)) = ed.end
    BY <1>3 DEF Last
  <2>2. ed.node[ed.end].next = ed.start
    <3>1. Len(r) \in 1 .. Len(r) /\ Follower(r, Len(r)) = 1
      BY <1>3 DEF Follower
    <3> QED
      BY <1>3, <1>4, <3>1
  <2>3. ASSUME NEW n \in Nodes(ed)
        PROVE  ed.node[ed.node[n].next].previous = n /\ ed.node[ed.node[n].previous].next = n
    <3>1. PICK i \in 1 .. Len(r) : n = r[i]
      BY <1>3 DEF Places
    <3>2. PICK j \in 1 .. Len(r) : Follower(r, j) = i
      <4>1. CASE i = 1
        <5>1. Len(r) \in 1 .. Len(r) /\ Follower(r, Len(r)) = 1
          BY <1>3 DEF Follower
        <5> QED
          BY <4>1, <5>1
      <4>2. CASE i # 1
        <5>1. i - 1 \in 1 .. Len(r) /\ Follower(r, i - 1) = i
          BY <1>3, <4>2 DEF Follower
        <5> QED
          BY <5>1
      <4> QED
        BY <4>1, <4>2
    <3>3. ed.node[ed.node[n].next].previous = n
      BY <1>4, <3>1
    <3>4. ed.node[n].previous = r[j] /\ ed.node[r[j]].next = n
      BY <1>4, <3>1, <3>2
    <3> QED
      BY <3>3, <3>4
  <2> QED
    BY <2>1, <2>2, <2>3 DEF RingIntact
<1>6. Findable
  <2>1. Sorted(ed, ed.nodes, p) /\ ed.nodes \in Seq(DOMAIN ed.node)
    BY <1>2 DEF Listed, Sorted
  <2>2. ASSUME NEW n \in Nodes(ed), ~IsPMark(ed.node[n].elem)
        PROVE  Has(ed, ed.nodes, ed.node[n].name) /\ Lookup(ed, ed.node[n].name) = n
    <3>1. PICK i \in 1 .. Len(r) : n = r[i]
      BY <1>3 DEF Places
    <3>2. Plain(ed, r[i])
      BY <2>2, <3>1 DEF Plain
    <3>3. PICK a \in 1 .. p : ed.nodes[a] = r[i]
      BY <1>2, <3>2 DEF Listed
    <3>4. Probe(ed, ed.nodes, ed.node[ed.nodes[a]].name) = [hit |-> TRUE, at |-> a]
      BY <1>2, <2>1, FoundIs
    <3>5. Probe(ed, ed.nodes, ed.node[n].name) = [hit |-> TRUE, at |-> a]
      BY <3>1, <3>3, <3>4
    <3> QED
      BY <3>1, <3>3, <3>5 DEF Has, Lookup
  <2>3. ToSet(ed.nodes) \subseteq Nodes(ed)
    <3>1. \A i \in 1 .. Len(ed.nodes) : ed.nodes[i] \in Places(r)
      BY <1>2 DEF Listed
    <3> QED
      BY <1>3, <2>1, <3>1 DEF ToSet
  <2> QED
    BY <2>2, <2>3 DEF Findable
<1>7. Named
  <2> SUFFICES ASSUME NEW n \in Nodes(ed), ~IsPMark(ed.node[n].elem)
               PROVE  /\ ed.node[n].name[1] = ed.node[n].elem
                      /\ edit_is_on => ed.node[n].name[2] \in 1 .. ed.occ_list[ed.node[n].elem]
    BY DEF Named
  <2>1. PICK i \in 1 .. Len(r) : n = r[i]
    BY <1>3 DEF Places
  <2>2. Plain(ed, r[i])
    BY <2>1 DEF Plain
  <2>3. ed.node[n].name = <<ed.node[n].elem, 1>>
    BY <1>2, <2>1, <2>2 DEF Labelled
  <2>4. edit_is_on => ed.occ_list[ed.node[n].elem] = 1
    BY <1>1, <2>1, <2>2 DEF Counted
  <2> QED
    BY <2>3, <2>4
<1> QED
  BY <1>5, <1>6, <1>7 DEF Intact

LEMMA TidyInit ==
  ASSUME ByName, Init
  PROVE  Tidy
<1>1. PICK q \in Initial : ed = Defined(q)
  BY DEF Init
<1>2. Apart(q.elems)
  BY DEF ByName
<1>3. \E r, p : Whole(ed, r, p) /\ DOMAIN ed.node = Places(r)
  BY <1>1, <1>2, DefinedIs
<1>4. edit_is_on = FALSE
  BY DEF Init
<1> QED
  BY <1>3, <1>4 DEF Tidy, Standing, Sound

(***************************************************************************)
(* What a command edits, and what it leaves.                               *)
(***************************************************************************)
LEMMA EditLeaves ==
  ASSUME NEW s, Edits(s), Standing(Kept(s), TRUE)
  PROVE  Standing(ed', edit_is_on')
<1>1. ed' = Kept(s)
  BY DEF Edits
<1>2. Standing(Kept(s), edit_is_on')
  BY StandsBoth
<1> QED
  BY <1>1, <1>2

LEMMA EditIfLeaves ==
  ASSUME NEW s, NEW b \in BOOLEAN, Tidy, EditsIf(b, Edits(s)), b => Standing(Kept(s), TRUE)
  PROVE  Standing(ed', edit_is_on')
<1>1. CASE b /\ Edits(s)
  BY <1>1, EditLeaves
<1>2. CASE UNCHANGED <<ed, seqedit_select, edit_is_on>>
  BY <1>2 DEF Tidy
<1> QED
  BY <1>1, <1>2 DEF EditsIf

(***************************************************************************)
(* A node other than the start and the end that a command names.           *)
(***************************************************************************)
LEMMA NamedNode ==
  ASSUME NEW r, NEW p, Sound(ed, r, p), NEW x, UserName(x), NEW n, n = Lookup(ed, x)
  PROVE  n \in Places(r) /\ Plain(ed, n) /\ ed.node[n].elem \in Element
<1>1. Whole(ed, r, p) /\ x[1] \in Element /\ Has(ed, ed.nodes, x)
  BY DEF Sound, UserName
<1> QED
  BY <1>1, NodeOfName

LEMMA TidyEditOne ==
  ASSUME ByName, Tidy, EditOne
  PROVE  Tidy'
<1>1. edit_is_on
  BY DEF EditOne, Install, InstallFrom, MoveTo, MoveBy, RemoveNamed, ReplaceNamed, Command
<1>2. PICK r, p : Sound(ed, r, p) /\ Counted(ed, r)
  BY <1>1 DEF Tidy, Standing
<1>3. Whole(ed, r, p) /\ DOMAIN ed.node = Places(r) /\ Shaped(ed)
  BY <1>2 DEF Sound, Whole
<1>4. \A e : MayAdd(e) => ed.occ_list[e] = 0
  BY DEF MayAdd, ByName
<1>5. \A x \in Names : x \in Name
  <2>1. \A n \in DOMAIN ed.node : ed.node[n].name \in Name
    BY <1>3, NodeIs
  <2> QED
    BY <2>1 DEF Names
<1>6. ASSUME NEW e \in Element, NEW at \in 0 .. Length, Install(e, at)
      PROVE  Standing(ed', edit_is_on')
  <2>1. ed.occ_list[e] = 0 /\ Edits(Installed(ed, e, NoName, at, at))
    BY <1>4, <1>6 DEF Install
  <2>2. NoName \in Name /\ at \in Int
    BY DEF NoName, Name
  <2>3. Standing(Kept(Installed(ed, e, NoName, at, at)), TRUE)
    BY <1>2, <2>1, <2>2, InstalledStands
  <2> QED
    BY <2>1, <2>3, EditLeaves
<1>7. ASSUME NEW e \in Element, NEW x \in Names, NEW d \in Shift, InstallFrom(e, x, d)
      PROVE  Standing(ed', edit_is_on')
  <2>1. PICK pos : pos = d + Where(ed, Lookup(ed, x))
    OBVIOUS
  <2>2. \/ Inside(pos) /\ Edits(Installed(ed, e, x, d, pos))
        \/ UNCHANGED <<ed, seqedit_select, edit_is_on>>
    BY <1>7, <2>1 DEF InstallFrom, EditsIf
  <2>3. CASE Inside(pos) /\ Edits(Installed(ed, e, x, d, pos))
    <3>1. ed.occ_list[e] = 0
      BY <1>4, <1>7 DEF InstallFrom
    <3>2. x \in Name /\ d \in Int /\ pos \in Int
      BY <1>5, <2>3, SequenceEditAssumption DEF Inside
    <3>3. Standing(Kept(Installed(ed, e, x, d, pos)), TRUE)
      BY <1>2, <3>1, <3>2, InstalledStands
    <3> QED
      BY <2>3, <3>3, EditLeaves
  <2>4. CASE UNCHANGED <<ed, seqedit_select, edit_is_on>>
    BY <2>4 DEF Tidy
  <2> QED
    BY <2>2, <2>3, <2>4
<1>8. ASSUME NEW x, NEW to, MoveTo(x, to)
      PROVE  Standing(ed', edit_is_on')
  <2>1. PICK n : n = Lookup(ed, x)
    OBVIOUS
  <2>2. UserName(x) /\ n \notin {ed.start, ed.end} /\ to \in Int /\ Edits(Moved(ed, n, to))
    BY <1>8, <2>1 DEF MoveTo, Loose, Inside
  <2>3. n \in Places(r) /\ Plain(ed, n) /\ ed.node[n].elem \in Element
    BY <1>2, <2>1, <2>2, NamedNode
  <2>4. Standing(Kept(Moved(ed, n, to)), TRUE)
    BY <1>2, <2>2, <2>3, MovedStands
  <2> QED
    BY <2>2, <2>4, EditLeaves
<1>9. ASSUME NEW x, RemoveNamed(x)
      PROVE  Standing(ed', edit_is_on')
  <2>1. PICK n : n = Lookup(ed, x)
    OBVIOUS
  <2>2. UserName(x) /\ n \notin {ed.start, ed.end} /\ Edits(Removed(ed, n))
    BY <1>9, <2>1 DEF RemoveNamed, Loose
  <2>3. n \in Places(r) /\ Plain(ed, n)
    BY <1>2, <2>1, <2>2, NamedNode
  <2>4. Standing(Kept(Removed(ed, n)), TRUE)
    BY <1>2, <2>2, <2>3, RemovedStands
  <2> QED
    BY <2>2, <2>4, EditLeaves
<1>10. ASSUME NEW x, NEW e \in Element, ReplaceNamed(x, e)
       PROVE  Standing(ed', edit_is_on')
  <2>1. PICK n : n = Lookup(ed, x)
    OBVIOUS
  <2>2. /\ UserName(x) /\ n \notin {ed.start, ed.end} /\ ed.occ_list[e] = 0
        /\ Edits(Replaced(ed, n, e))
    BY <1>4, <1>10, <2>1 DEF ReplaceNamed, Loose
  <2>3. n \in Places(r) /\ Plain(ed, n)
    BY <1>2, <2>1, <2>2, NamedNode
  <2>4. Standing(Kept(Replaced(ed, n, e)), TRUE)
    BY <1>2, <2>2, <2>3, ReplacedStands
  <2> QED
    BY <2>2, <2>4, EditLeaves
<1> QED
  BY <1>6, <1>7, <1>8, <1>9, <1>10 DEF EditOne, MoveBy, Tidy

LEMMA TidyEditAll ==
  ASSUME ByName, Tidy, EditAll
  PROVE  Tidy'
<1>1. PICK r, p : Sound(ed, r, p) /\ (edit_is_on => Counted(ed, r))
  BY DEF Tidy, Standing
<1>2. ASSUME OwnNames
      PROVE  OwnNamed(ed, r)
  <2>1. Nodes(ed) = Places(r)
    BY <1>1, WholeIs DEF Sound
  <2>2. \A n \in Nodes(ed) : IsPMark(ed.node[n].elem) => IsPMark(ed.node[n].name[1])
    BY <1>2 DEF OwnNames, ByName
  <2> QED
    BY <2>1, <2>2 DEF OwnNamed, Plain
<1>3. ASSUME Seqedit
      PROVE  Standing(ed', edit_is_on')
  <2>1. CASE Resolved(Resequenced(ed))
    <3>1. ed' = Positioned(Resequenced(ed)) /\ edit_is_on' = TRUE
      BY <1>3, <2>1 DEF Seqedit
    <3>2. Standing(Positioned(Resequenced(ed)), TRUE)
      BY <1>1, <2>1, SeqeditStands
    <3> QED
      BY <3>1, <3>2
  <2>2. CASE ~Resolved(Resequenced(ed))
    <3>1. UNCHANGED <<ed, edit_is_on>>
      BY <1>3, <2>2 DEF Seqedit
    <3> QED
      BY <3>1 DEF Tidy
  <2> QED
    BY <2>1, <2>2
<1>4. ASSUME Endedit
      PROVE  Standing(ed', edit_is_on')
  <2>1. ed' = Kept([Resequenced(ed) EXCEPT !.ranges = <<>>])
    BY <1>4 DEF Endedit
  <2>2. Standing(Kept([Resequenced(ed) EXCEPT !.ranges = <<>>]), TRUE)
    BY <1>1, EndeditStands
  <2>3. Standing(ed', TRUE)
    BY <2>1, <2>2
  <2> QED
    BY <2>3, StandsBoth
<1>5. ASSUME Flatten
      PROVE  Standing(ed', edit_is_on')
  <2>1. EditsIf(Resolved(ed), Edits(Flattened(ed)))
    BY <1>5 DEF Flatten
  <2>2. Resolved(ed) => Standing(Kept(Flattened(ed)), TRUE)
    BY <1>1, FlattenStands
  <2>3. Resolved(ed) \in BOOLEAN
    BY DEF Resolved
  <2> QED
    BY <2>1, <2>2, <2>3, EditIfLeaves
<1>6. ASSUME Reflect
      PROVE  Standing(ed', edit_is_on')
  <2>1. edit_is_on /\ OwnNames /\ Edits(Reflected(ed))
    BY <1>6 DEF Reflect, Command
  <2>2. Standing(Kept(Reflected(ed)), TRUE)
    BY <1>1, <1>2, <2>1, ReflectStands
  <2> QED
    BY <2>1, <2>2, EditLeaves
<1>7. ASSUME NEW m \in Marker, Cycle(m)
      PROVE  Standing(ed', edit_is_on')
  <2>1. PICK s : s = Cycled(ed, m)
    OBVIOUS
  <2>2. /\ edit_is_on /\ OwnNames /\ Has(ed, ed.nodes, <<m, 1>>)
        /\ EditsIf(Resolved(s), Edits(Positioned(s)))
    BY <1>7, <2>1 DEF Cycle, Command
  <2>3. Resolved(s) => Standing(Kept(Positioned(s)), TRUE)
    BY <1>1, <1>2, <2>1, <2>2, CycleStands
  <2>4. Resolved(s) \in BOOLEAN
    BY DEF Resolved
  <2> QED
    BY <2>2, <2>3, <2>4, EditIfLeaves
<1> QED
  BY <1>3, <1>4, <1>5, <1>6, <1>7 DEF EditAll, Tidy

LEMMA TidyNext ==
  ASSUME ByName, Tidy, [Next]_vars
  PROVE  Tidy'
<1>1. CASE EditOne
  BY <1>1, TidyEditOne
<1>2. CASE EditAll
  BY <1>2, TidyEditAll
<1>3. ~EditSelected
  BY DEF ByName, Selecting, EditSelected, InstallAtSelected, MoveTheSelected, RemoveTheSelected,
         ReplaceTheSelected, Command
<1>4. ASSUME NEW c \in Selects, Select(c)
      PROVE  Tidy'
  BY <1>4 DEF Select, Tidy
<1>5. CASE SelectClear
  <2>1. ed' = Kept([ed EXCEPT !.ranges = <<>>]) /\ edit_is_on' = edit_is_on
    BY <1>5 DEF SelectClear
  <2>2. Standing(Kept([ed EXCEPT !.ranges = <<>>]), edit_is_on)
    BY UnselectStands DEF Tidy
  <2> QED
    BY <2>1, <2>2 DEF Tidy
<1>6. CASE UNCHANGED vars
  BY <1>6 DEF vars, Tidy
<1> QED
  BY <1>1, <1>2, <1>3, <1>4, <1>5, <1>6 DEF Next

(***************************************************************************)
(* Ring, list and counts stay in step through every edit of nodes by their *)
(* names, of any sequence in which each element comes once.                *)
(***************************************************************************)
THEOREM EditedIntact == ASSUME ByName PROVE Spec => []Intact
<1>1. Init => Tidy
  BY TidyInit
<1>2. Tidy /\ [Next]_vars => Tidy'
  BY TidyNext
<1>3. Tidy => Intact
  BY TidyHolds
<1> QED
  BY <1>1, <1>2, <1>3, PTL DEF Spec

-----------------------------------------------------------------------------
(* Places.                                                                 *)

(***************************************************************************)
(* Every place is declared as it is: not from another node, nor from an    *)
(* end of the element; places rise along the ring, which lies between 0    *)
(* and its length; and during an edit each node is where it was declared.  *)
(***************************************************************************)
Centred(s) == \A e \in Known : s.ref_flag * Half[e] = 0

Free(s, r) == \A i \in 1 .. Len(r) : s.node[r[i]].from_name = NoName

InPlace(s, r) == \A i \in 1 .. Len(r) : s.node[r[i]].position = s.node[r[i]].at_value

Rising(s, r) ==
  /\ \A i, j \in 1 .. Len(r) : i <= j => s.node[r[i]].at_value <= s.node[r[j]].at_value
  /\ s.node[r[1]].at_value = 0 /\ s.node[r[Len(r)]].at_value = Length

Laid(s, r, on) == Centred(s) /\ Free(s, r) /\ (on => InPlace(s, r)) /\ Rising(s, r)

LEMMA PlacesAre ==
  ASSUME NEW s, NEW r, NEW p, Whole(s, r, p)
  PROVE  /\ Len(r) \in Nat /\ Len(r) >= 2 /\ 1 \in 1 .. Len(r) /\ Len(r) \in 1 .. Len(r) /\ Length \in Nat
         /\ \A i \in 1 .. Len(r) : /\ r[i] \in Places(r) /\ r[i] \in DOMAIN s.node
                                   /\ s.node[r[i]].at_value \in Int /\ s.node[r[i]].position \in Int
                                   /\ s.node[r[i]].elem \in Known
<1>1. Shaped(s) /\ r \in Seq(DOMAIN s.node) /\ Len(r) \in Nat /\ Len(r) >= 2
  BY WholeIs
<1>2. s.node \in [DOMAIN s.node -> NodeRecord]
  BY <1>1, NodeIs
<1>3. \A i \in 1 .. Len(r) : r[i] \in Places(r) /\ r[i] \in DOMAIN s.node
  BY <1>1 DEF Places
<1>4. \A n \in DOMAIN s.node : s.node[n].at_value \in Int /\ s.node[n].position \in Int /\ s.node[n].elem \in Known
  BY <1>2 DEF NodeRecord
<1>5. Length \in Nat
  BY SequenceEditAssumption
<1> QED
  BY <1>1, <1>3, <1>4, <1>5

LEMMA LaidSame ==
  ASSUME NEW s, NEW r, NEW on, Laid(s, r, on), Len(r) \in Nat, Len(r) >= 1,
         NEW u, u.ref_flag = s.ref_flag, \A m \in Places(r) : AsPlaced(s, m, u, m)
  PROVE  Laid(u, r, on)
<1>1. \A i \in 1 .. Len(r) : AsPlaced(s, r[i], u, r[i])
  BY InPlaces
<1>2. 1 \in 1 .. Len(r) /\ Len(r) \in 1 .. Len(r)
  OBVIOUS
<1>3. Centred(u)
  BY DEF Laid, Centred
<1>4. Free(u, r) /\ (on => InPlace(u, r))
  BY <1>1 DEF Laid, Free, InPlace, AsPlaced
<1>5. Rising(u, r)
  BY <1>1, <1>2 DEF Laid, Rising, AsPlaced
<1> QED
  BY <1>3, <1>4, <1>5 DEF Laid

(***************************************************************************)
(* A sequence whose ring is laid.                                          *)
(***************************************************************************)
Ready(s, on) == \E r, p : Whole(s, r, p) /\ Laid(s, r, on)

LEMMA KeptReady ==
  ASSUME NEW s, NEW r, NEW p, Whole(s, r, p), NEW z, DOMAIN s.node \ Places(r) \subseteq {z},
         NEW on, Laid(s, r, on)
  PROVE  Whole(Kept(s), r, p) /\ Laid(Kept(s), r, on)
<1>1. PICK k : k = Kept(s)
  OBVIOUS
<1>2. Whole(k, r, p) /\ k.ref_flag = s.ref_flag /\ \A m \in Places(r) : k.node[m] = s.node[m]
  BY <1>1, KeptIs
<1>3. Len(r) \in Nat /\ Len(r) >= 1
  BY PlacesAre
<1>4. \A m \in Places(r) : AsPlaced(s, m, k, m)
  BY <1>2 DEF AsPlaced
<1>5. Laid(k, r, on)
  BY <1>2, <1>3, <1>4, LaidSame
<1> QED
  BY <1>1, <1>2, <1>5

(***************************************************************************)
(* The place that get_node_pos computes is the one declared.               *)
(***************************************************************************)
LEMMA DeclaredAt ==
  ASSUME NEW s, NEW r, NEW p, Whole(s, r, p), NEW on, Laid(s, r, on), NEW m \in Places(r)
  PROVE  Declared(s)[m] = {s.node[m].at_value}
<1>1. Shaped(s) /\ s.nodes \in Seq(DOMAIN s.node)
  BY WholeIs
<1>2. PICK i \in 1 .. Len(r) : m = r[i]
  BY DEF Places
<1>3. /\ m \in DOMAIN s.node /\ s.node[m].at_value \in Int /\ s.node[m].elem \in Known
      /\ s.node[m].from_name = NoName /\ s.ref_flag * Half[s.node[m].elem] = 0
  BY <1>2, PlacesAre DEF Laid, Free, Centred
<1>4. Declared(s)[m] = {Own(s, m)}
  BY <1>1, <1>3, DeclaredIs
<1>5. Own(s, m) = s.node[m].at_value
  BY <1>3 DEF Own
<1> QED
  BY <1>4, <1>5

LEMMA PositionedLaid ==
  ASSUME NEW s, NEW r, NEW p, Whole(s, r, p), NEW on, Laid(s, r, on), Resolved(s), NEW v, v = Positioned(s)
  PROVE  Whole(v, r, p) /\ Laid(v, r, TRUE)
<1>1. /\ Whole(v, r, p) /\ Same(s, v)
      /\ \A m \in Places(r) : v.node[m].at_value = s.node[m].at_value /\ v.node[m].position \in Declared(s)[m]
  BY ONLY Whole(s, r, p), Resolved(s), v = Positioned(s), PositionedIs
<1>2. /\ Len(r) \in Nat /\ 1 \in 1 .. Len(r) /\ Len(r) \in 1 .. Len(r)
      /\ \A i \in 1 .. Len(r) : r[i] \in Places(r) /\ r[i] \in DOMAIN s.node
  BY PlacesAre
<1>3. \A m \in Places(r) : v.node[m].position = v.node[m].at_value
  BY <1>1, DeclaredAt
<1>4. InPlace(v, r)
  BY <1>2, <1>3 DEF InPlace
<1>5. Centred(v) /\ Free(v, r)
  BY <1>1, <1>2 DEF Laid, Centred, Free, Same
<1>6. Rising(v, r)
  BY <1>1, <1>2 DEF Laid, Rising
<1> QED
  BY <1>1, <1>4, <1>5, <1>6 DEF Laid

(***************************************************************************)
(* insert_elem keeps the order: all before the new node are before it, and *)
(* none behind it is.                                                      *)
(***************************************************************************)
LEMMA JoinedLaid ==
  ASSUME NEW s, NEW r, NEW p, Whole(s, r, p), Laid(s, r, TRUE), NEW u, NEW n, NEW j, Joined(s, u, r, n, j),
         NEW q, Widened(q, r, j, n), NEW at \in 0 .. Length,
         u.node[n].from_name = NoName, u.node[n].at_value = at, u.node[n].position = at
  PROVE  Laid(u, q, TRUE)
<1>1. /\ Len(r) \in Nat /\ Len(r) >= 2 /\ 1 \in 1 .. Len(r) /\ Len(r) \in 1 .. Len(r) /\ Length \in Nat
      /\ \A i \in 1 .. Len(r) : r[i] \in Places(r) /\ s.node[r[i]].at_value \in Int
  BY PlacesAre
<1>2. /\ j \in 2 .. Len(r) /\ u.ref_flag = s.ref_flag /\ \A m \in Places(r) : AsPlaced(s, m, u, m)
      /\ \A i \in 2 .. j - 1 : ~(at <= s.node[r[i]].position)
      /\ j = Len(r) \/ at <= s.node[r[j]].position
  BY DEF Joined, AsPlaced
<1>3. PICK v : v = [i \in 1 .. Len(r) |-> s.node[r[i]].at_value]
  OBVIOUS
<1>4. /\ \A i \in 1 .. Len(r) : v[i] \in Int /\ v[i] = s.node[r[i]].at_value /\ v[i] = s.node[r[i]].position
      /\ \A i, k \in 1 .. Len(r) : i <= k => v[i] <= v[k]
      /\ v[1] = 0 /\ v[Len(r)] = Length
  BY <1>1, <1>3 DEF Laid, Rising, InPlace
<1>5. /\ Len(q) = Len(r) + 1
      /\ \A i \in 1 .. Len(q) : \/ i < j /\ q[i] = r[i] /\ i \in 1 .. Len(r)
                                \/ i = j /\ q[i] = n
                                \/ i > j /\ q[i] = r[i - 1] /\ i - 1 \in 1 .. Len(r)
  BY <1>1, <1>2 DEF Widened
<1>6. PICK w : w = [i \in 1 .. Len(q) |-> IF i < j THEN v[i] ELSE IF i = j THEN at ELSE v[i - 1]]
  OBVIOUS
<1>7. \A i \in 1 .. Len(q) : /\ u.node[q[i]].at_value = w[i] /\ u.node[q[i]].position = w[i]
                             /\ u.node[q[i]].from_name = NoName
  <2> SUFFICES ASSUME NEW i \in 1 .. Len(q)
               PROVE  /\ u.node[q[i]].at_value = w[i] /\ u.node[q[i]].position = w[i]
                      /\ u.node[q[i]].from_name = NoName
    OBVIOUS
  <2>1. \A x \in 1 .. Len(r) : /\ u.node[r[x]].at_value = v[x] /\ u.node[r[x]].position = v[x]
                               /\ u.node[r[x]].from_name = NoName
    BY <1>1, <1>2, <1>4 DEF AsPlaced, Laid, Free
  <2>2. CASE i < j
    <3>1. q[i] = r[i] /\ i \in 1 .. Len(r)
      BY <1>1, <1>2, <1>5, <2>2
    <3>2. w[i] = v[i]
      BY <1>6, <2>2
    <3> QED
      BY <2>1, <3>1, <3>2
  <2>3. CASE i = j
    BY <1>6, <1>5, <2>3
  <2>4. CASE i > j
    <3>1. q[i] = r[i - 1] /\ i - 1 \in 1 .. Len(r) /\ w[i] = v[i - 1]
      BY <1>2, <1>5, <1>6, <2>4
    <3> QED
      BY <2>1, <3>1
  <2> QED
    BY <1>1, <1>2, <1>5, <2>2, <2>3, <2>4
<1>8. \A i \in 1 .. Len(r) : (i < j => v[i] <= at) /\ (i >= j => at <= v[i])
  <2> SUFFICES ASSUME NEW i \in 1 .. Len(r)
               PROVE  (i < j => v[i] <= at) /\ (i >= j => at <= v[i])
    OBVIOUS
  <2>1. ASSUME i < j
        PROVE  v[i] <= at
    <3>1. CASE i = 1
      BY <1>4, <3>1
    <3>2. CASE i # 1
      <4>1. i \in 2 .. j - 1
        BY <1>1, <1>2, <2>1, <3>2
      <4> QED
        BY <1>2, <1>4, <4>1
    <3> QED
      BY <3>1, <3>2
  <2>2. at <= v[j]
    BY <1>1, <1>2, <1>4
  <2>3. ASSUME i >= j
        PROVE  at <= v[i]
    <3>1. j \in 1 .. Len(r) /\ v[j] <= v[i] /\ v[j] \in Int /\ v[i] \in Int
      BY <1>1, <1>2, <1>4, <2>3
    <3> QED
      BY <2>2, <3>1
  <2> QED
    BY <2>1, <2>3
<1>9. \A i, k \in 1 .. Len(q) : i <= k => w[i] <= w[k]
  <2> SUFFICES ASSUME NEW i \in 1 .. Len(q), NEW k \in 1 .. Len(q), i <= k
               PROVE  w[i] <= w[k]
    OBVIOUS
  <2>1. /\ i < j => i \in 1 .. Len(r) /\ w[i] = v[i]
        /\ i = j => w[i] = at
        /\ i > j => i - 1 \in 1 .. Len(r) /\ i - 1 >= j /\ w[i] = v[i - 1]
    BY <1>1, <1>2, <1>5, <1>6
  <2>2. /\ k < j => k \in 1 .. Len(r) /\ w[k] = v[k]
        /\ k = j => w[k] = at
        /\ k > j => k - 1 \in 1 .. Len(r) /\ k - 1 >= j /\ w[k] = v[k - 1]
    BY <1>1, <1>2, <1>5, <1>6
  <2>3. CASE k < j
    <3>1. i < j
      BY <1>2, <1>5, <1>1, <2>3
    <3> QED
      BY <1>4, <2>1, <2>2, <2>3, <3>1
  <2>4. CASE i < j /\ k >= j
    <3>1. i \in 1 .. Len(r) /\ w[i] = v[i] /\ v[i] <= at
      BY <1>8, <2>1, <2>4
    <3>2. at <= w[k] /\ w[k] \in Int
      BY <1>4, <1>8, <1>2, <1>5, <1>1, <2>2, <2>4
    <3> QED
      BY <1>4, <3>1, <3>2
  <2>5. CASE i >= j
    <3>1. CASE k = j
      <4>1. i = j
        BY <1>1, <1>2, <1>5, <2>5, <3>1
      <4> QED
        BY <2>1, <2>2, <3>1, <4>1
    <3>2. CASE i = j /\ k > j
      BY <1>8, <2>1, <2>2, <3>2
    <3>3. CASE i > j
      <4>1. i - 1 \in 1 .. Len(r) /\ k - 1 \in 1 .. Len(r) /\ i - 1 <= k - 1
        BY <1>2, <1>5, <1>1, <2>1, <2>2, <3>3
      <4> QED
        <5>1. w[i] = v[i - 1] /\ w[k] = v[k - 1]
          BY <1>1, <1>2, <1>5, <2>1, <2>2, <3>3
        <5> QED
          BY <1>4, <4>1, <5>1
    <3> QED
      BY <1>1, <1>2, <1>5, <2>5, <3>1, <3>2, <3>3
  <2> QED
    BY <1>1, <1>2, <1>5, <2>3, <2>4, <2>5
<1>10. w[1] = 0 /\ w[Len(q)] = Length
  BY <1>1, <1>2, <1>4, <1>5, <1>6
<1>11. Rising(u, q)
  <2>1. 1 \in 1 .. Len(q) /\ Len(q) \in 1 .. Len(q)
    BY <1>1, <1>5
  <2> QED
    BY <1>7, <1>9, <1>10, <2>1 DEF Rising
<1>12. Free(u, q) /\ InPlace(u, q)
  BY <1>7 DEF Free, InPlace
<1>13. Centred(u)
  BY <1>2 DEF Laid, Centred
<1> QED
  BY <1>11, <1>12, <1>13 DEF Laid

LEMMA NarrowedLaid ==
  ASSUME NEW s, NEW r, NEW p, Whole(s, r, p), NEW on, Laid(s, r, on), NEW h \in 2 .. Len(r) - 1,
         NEW q, Narrowed(q, r, h), NEW u, u.ref_flag = s.ref_flag, \A m \in Places(q) : AsPlaced(s, m, u, m)
  PROVE  Laid(u, q, on)
<1>1. Len(r) \in Nat /\ Len(r) >= 2 /\ 1 \in 1 .. Len(r) /\ Len(r) \in 1 .. Len(r)
  BY PlacesAre
<1>2. /\ Len(q) = Len(r) - 1
      /\ \A i \in 1 .. Len(q) : \/ i < h /\ q[i] = r[i] /\ i \in 1 .. Len(r)
                                \/ i >= h /\ q[i] = r[i + 1] /\ i + 1 \in 1 .. Len(r)
  BY <1>1 DEF Narrowed
<1>3. PICK f : f = [i \in 1 .. Len(q) |-> IF i < h THEN i ELSE i + 1]
  OBVIOUS
<1>4. \A i \in 1 .. Len(q) : f[i] \in 1 .. Len(r) /\ q[i] = r[f[i]]
  BY <1>1, <1>2, <1>3
<1>5. \A i, k \in 1 .. Len(q) : i <= k => f[i] <= f[k]
  BY <1>1, <1>2, <1>3
<1>6. 1 \in 1 .. Len(q) /\ Len(q) \in 1 .. Len(q) /\ f[1] = 1 /\ f[Len(q)] = Len(r)
  BY <1>1, <1>2, <1>3
<1>7. \A i \in 1 .. Len(q) : AsPlaced(s, r[f[i]], u, q[i])
  BY <1>4, InPlaces
<1>8. Centred(u)
  BY DEF Laid, Centred
<1>9. Free(u, q) /\ (on => InPlace(u, q))
  BY ZenonT(40), <1>4, <1>7 DEF Laid, Free, InPlace, AsPlaced
<1>10. Rising(u, q)
  BY ZenonT(40), <1>4, <1>5, <1>6, <1>7 DEF Laid, Rising, AsPlaced
<1> QED
  BY <1>8, <1>9, <1>10 DEF Laid

(***************************************************************************)
(* Places of a ring that starts anew at its first: up to the kth they rise *)
(* from there, and behind it they rise to there again.                     *)
(***************************************************************************)
Turning(x, size, k) ==
  /\ k \in 1 .. size /\ \A i \in 1 .. size : x[i] \in 0 .. Length
  /\ \A i, j \in 1 .. size : i <= j /\ (j <= k \/ i > k) => x[i] <= x[j]
  /\ \A i \in 1 .. size : i > k => x[i] <= x[1]

(***************************************************************************)
(* Nodes with one before them that is neither at the new start nor, a      *)
(* whole length away, at the place of it.                                  *)
(***************************************************************************)
Passed(x, size) ==
  {i \in 1 .. size : \E h \in 1 .. i - 1 : x[h] > x[1] \/ (x[h] < x[1] /\ x[h] - x[1] + Length > 0)}

Anew(x, size, i) ==
  IF i = size THEN Length
  ELSE IF x[i] < x[1] \/ (x[i] = x[1] /\ i \in Passed(x, size)) THEN x[i] - x[1] + Length
  ELSE x[i] - x[1]

LEMMA NewPlaceIs ==
  ASSUME NEW v, NEW q, NEW p, Whole(v, q, p), Free(v, q), NEW x, \A i \in 1 .. Len(q) : x[i] = v.node[q[i]].position
  PROVE  \A i \in 1 .. Len(q) : NewPlace(v, q, i) = Anew(x, Len(q), i)
<1>1. /\ Len(q) \in Nat /\ 1 \in 1 .. Len(q) /\ Len(q) \in 1 .. Len(q)
      /\ v.start = q[1] /\ v.end = q[Len(q)] /\ \A i, j \in 1 .. Len(q) : q[i] = q[j] => i = j
  BY PlacesAre, WholeIs
<1>2. \A i \in 1 .. Len(q) : x[i] \in Int
  BY PlacesAre
<1> SUFFICES ASSUME NEW i \in 1 .. Len(q)
             PROVE  NewPlace(v, q, i) = Anew(x, Len(q), i)
  OBVIOUS
<1>3. q[i] = v.end <=> i = Len(q)
  BY <1>1
<1>4. v.node[v.start].position = x[1]
  BY <1>1
<1>5. \A j \in 1 .. Len(q) : v.node[q[j]].from_name = NoName
  BY DEF Free
<1>6. i \in Passed(x, Len(q)) <=>
        \E h \in 1 .. i - 1 :
          /\ v.node[q[h]].from_name = NoName
          /\ \/ v.node[q[h]].position - x[1] > 0
             \/ v.node[q[h]].position - x[1] < 0 /\ v.node[q[h]].position - x[1] + Length > 0
  <2>1. \A h \in 1 .. i - 1 : h \in 1 .. Len(q) /\ v.node[q[h]].position = x[h] /\ v.node[q[h]].from_name = NoName
    BY <1>1, <1>5
  <2>2. x[1] \in Int /\ Length \in Int /\ \A h \in 1 .. i - 1 : x[h] \in Int
    BY <1>1, <1>2, <2>1, SequenceEditAssumption
  <2>3. \A h \in 1 .. i - 1 : (x[h] > x[1] <=> x[h] - x[1] > 0) /\ (x[h] < x[1] <=> x[h] - x[1] < 0)
    BY <2>2
  <2> QED
    BY <2>1, <2>3 DEF Passed
<1>7. v.node[q[i]].position = x[i]
  OBVIOUS
<1>8. NewPlace(v, q, i) =
        IF i = Len(q) THEN Length
        ELSE IF x[i] - x[1] < 0 \/ (x[i] - x[1] = 0 /\ i \in Passed(x, Len(q))) THEN x[i] - x[1] + Length
        ELSE x[i] - x[1]
  BY <1>3, <1>4, <1>6, <1>7 DEF NewPlace
<1> QED
  BY <1>1, <1>2, <1>8 DEF Anew

LEMMA PassedIs ==
  ASSUME NEW size \in Nat, NEW x, NEW k, Turning(x, size, k), NEW F, F = Passed(x, size)
  PROVE  /\ \A i, j \in 1 .. size : i <= j /\ i \in F => j \in F
         /\ \A i, j \in 1 .. size : i < j /\ x[i] > x[1] => j \in F
         /\ \A i, j \in 1 .. size : i < j /\ x[i] < x[1] /\ x[i] - x[1] + Length > 0 => j \in F
         /\ \A i \in 1 .. size : i <= k /\ x[i] = x[1] => i \notin F
<1>1. \A i \in 1 .. size : x[i] \in Int
  BY DEF Turning
<1>2. ASSUME NEW i \in 1 .. size, NEW j \in 1 .. size, i <= j, i \in F
      PROVE  j \in F
  <2>1. PICK h \in 1 .. i - 1 : x[h] > x[1] \/ (x[h] < x[1] /\ x[h] - x[1] + Length > 0)
    BY <1>2 DEF Passed
  <2>2. h \in 1 .. j - 1
    BY <1>2
  <2> QED
    BY <2>1, <2>2 DEF Passed
<1>3. ASSUME NEW i \in 1 .. size, NEW j \in 1 .. size, i < j,
             x[i] > x[1] \/ (x[i] < x[1] /\ x[i] - x[1] + Length > 0)
      PROVE  j \in F
  <2>1. i \in 1 .. j - 1
    BY <1>3
  <2> QED
    BY <1>3, <2>1 DEF Passed
<1>4. ASSUME NEW i \in 1 .. size, i <= k, x[i] = x[1], i \in F
      PROVE  FALSE
  <2>1. PICK h \in 1 .. i - 1 : x[h] > x[1] \/ (x[h] < x[1] /\ x[h] - x[1] + Length > 0)
    BY <1>4 DEF Passed
  <2>2. h \in 1 .. size /\ 1 \in 1 .. size /\ 1 <= h /\ h <= i /\ h <= k /\ k \in 1 .. size
    BY <1>4 DEF Turning
  <2>3. x[1] <= x[h] /\ x[h] <= x[i]
    BY <1>4, <2>2 DEF Turning
  <2> QED
    BY <1>1, <1>4, <2>1, <2>2, <2>3
<1> QED
  BY <1>2, <1>3, <1>4

LEMMA AnewRises ==
  ASSUME NEW size \in Nat, size >= 2, NEW x, NEW k, Turning(x, size, k), NEW y,
         \A i \in 1 .. size : y[i] = Anew(x, size, i)
  PROVE  /\ \A i, j \in 1 .. size : i <= j => y[i] <= y[j]
         /\ y[1] = 0 /\ y[size] = Length
<1>1. PICK F : F = Passed(x, size)
  OBVIOUS
<1>2. /\ \A i, j \in 1 .. size : i <= j /\ i \in F => j \in F
      /\ \A i, j \in 1 .. size : i < j /\ x[i] > x[1] => j \in F
      /\ \A i, j \in 1 .. size : i < j /\ x[i] < x[1] /\ x[i] - x[1] + Length > 0 => j \in F
      /\ \A i \in 1 .. size : i <= k /\ x[i] = x[1] => i \notin F
  BY <1>1, PassedIs
<1>3. \A i \in 1 .. size :
        y[i] = IF i = size THEN Length
               ELSE IF x[i] < x[1] \/ (x[i] = x[1] /\ i \in F) THEN x[i] - x[1] + Length
               ELSE x[i] - x[1]
  BY <1>1 DEF Anew
<1>4. PICK z : z = x[1]
  OBVIOUS
<1>5. /\ 1 \in 1 .. size /\ size \in 1 .. size /\ k \in 1 .. size /\ Length \in Nat /\ z \in 0 .. Length
      /\ \A i \in 1 .. size : x[i] \in Int /\ 0 <= x[i] /\ x[i] <= Length
      /\ \A i, j \in 1 .. size : i <= j /\ (j <= k \/ i > k) => x[i] <= x[j]
      /\ \A i \in 1 .. size : i > k => x[i] <= z
  BY <1>4, SequenceEditAssumption DEF Turning
<1>6. ASSUME NEW i \in 1 .. size
      PROVE  i <= k => z <= x[i]
  <2>1. i <= k => x[1] <= x[i]
    BY <1>5
  <2> QED
    BY <1>4, <2>1
<1>7. ASSUME NEW i \in 1 .. size, i # size, i <= k
      PROVE  y[i] = x[i] - z
  <2>1. z <= x[i] /\ (x[i] = z => i \notin F)
    BY <1>2, <1>4, <1>6, <1>7
  <2> QED
    BY <1>3, <1>4, <1>5, <1>7, <2>1
<1>8. ASSUME NEW i \in 1 .. size, i # size, i > k
      PROVE  IF x[i] < z \/ i \in F THEN y[i] = x[i] - z + Length ELSE y[i] = 0 /\ x[i] = z
  <2>1. x[i] <= z
    BY <1>5, <1>8
  <2>2. CASE x[i] < z
    BY <1>3, <1>4, <1>8, <2>2
  <2>3. CASE x[i] = z
    BY <1>3, <1>4, <1>5, <1>8, <2>3
  <2> QED
    BY <1>5, <2>1, <2>2, <2>3
<1>9. y[1] = 0 /\ y[size] = Length
  <2>1. y[1] = x[1] - z
    BY <1>5, <1>7
  <2> QED
    BY <1>3, <1>4, <1>5, <2>1
<1>10. ASSUME NEW i \in 1 .. size
       PROVE  y[i] <= Length
  <2>1. CASE i = size
    BY <1>5, <1>9, <2>1
  <2>2. CASE i # size /\ i <= k
    BY <1>5, <1>7, <2>2
  <2>3. CASE i # size /\ i > k
    BY <1>5, <1>8, <2>3
  <2> QED
    BY <1>5, <2>1, <2>2, <2>3
<1>11. ASSUME NEW i \in 1 .. size, NEW j \in 1 .. size, i < j, j # size
       PROVE  y[i] <= y[j]
  <2>0. i # size
    BY <1>11
  <2>1. CASE j <= k
    <3>1. i <= k /\ x[i] <= x[j]
      BY <1>5, <1>11, <2>1
    <3> QED
      BY <1>5, <1>7, <1>11, <2>0, <2>1, <3>1
  <2>2. CASE i <= k /\ j > k
    <3>1. y[i] = x[i] - z /\ z <= x[i]
      BY <1>6, <1>7, <2>0, <2>2
    <3>2. CASE x[j] < z \/ j \in F
      BY <1>5, <1>8, <1>11, <2>2, <3>1, <3>2
    <3>3. CASE ~(x[j] < z \/ j \in F)
      <4>1. y[j] = 0
        BY <1>8, <1>11, <2>2, <3>3
      <4>2. ~(x[i] > z)
        BY <1>2, <1>4, <1>11, <3>3
      <4> QED
        BY <1>5, <3>1, <4>1, <4>2
    <3> QED
      BY <3>2, <3>3
  <2>3. CASE i > k
    <3>1. j > k /\ x[i] <= x[j] /\ x[i] <= z /\ x[j] <= z
      BY <1>5, <1>11, <2>3
    <3>2. CASE x[j] < z \/ j \in F
      <4>1. y[j] = x[j] - z + Length
        BY <1>8, <1>11, <3>1, <3>2
      <4>2. y[i] = x[i] - z + Length \/ (y[i] = 0 /\ x[i] = z)
        BY <1>8, <2>0, <2>3
      <4> QED
        BY <1>5, <3>1, <4>1, <4>2
    <3>3. CASE ~(x[j] < z \/ j \in F)
      <4>1. y[j] = 0 /\ x[j] = z
        BY <1>8, <1>11, <3>1, <3>3
      <4>2. i \notin F /\ ~(x[i] < z /\ x[i] - z + Length > 0)
        BY <1>2, <1>4, <1>11, <3>3
      <4>3. CASE x[i] < z
        <5>1. y[i] = x[i] - z + Length
          BY <1>8, <2>0, <2>3, <4>3
        <5> QED
          BY <1>5, <4>1, <4>2, <4>3, <5>1
      <4>4. CASE ~(x[i] < z)
        <5>1. y[i] = 0
          BY <1>8, <2>0, <2>3, <4>2, <4>4
        <5> QED
          BY <4>1, <5>1
      <4> QED
        BY <4>3, <4>4
    <3> QED
      BY <3>2, <3>3
  <2> QED
    BY <1>5, <2>1, <2>2, <2>3
<1>12. \A i \in 1 .. size : y[i] \in Int
  BY <1>3, <1>4, <1>5
<1>13. ASSUME NEW i \in 1 .. size, NEW j \in 1 .. size, i <= j
       PROVE  y[i] <= y[j]
  <2>1. CASE i = j
    BY <1>12, <2>1
  <2>2. CASE i < j /\ j = size
    BY <1>9, <1>10, <2>2
  <2>3. CASE i < j /\ j # size
    BY <1>11, <2>3
  <2> QED
    BY <1>13, <2>1, <2>2, <2>3
<1> QED
  BY <1>9, <1>13

LEMMA WrappedLaid ==
  ASSUME NEW v, NEW q, NEW p, Whole(v, q, p), Centred(v), Free(v, q), NEW k,
         Turning([i \in 1 .. Len(q) |-> v.node[q[i]].position], Len(q), k), NEW w, w = Wrapped(v)
  PROVE  Whole(w, q, p) /\ Laid(w, q, TRUE)
<1>1. PICK x : x = [i \in 1 .. Len(q) |-> v.node[q[i]].position]
  OBVIOUS
<1>2. /\ Len(q) \in Nat /\ Len(q) >= 2 /\ 1 \in 1 .. Len(q) /\ Len(q) \in 1 .. Len(q)
      /\ \A i \in 1 .. Len(q) : q[i] \in DOMAIN v.node
  BY PlacesAre
<1>3. \A i \in 1 .. Len(q) : x[i] = v.node[q[i]].position
  BY <1>1
<1>4. /\ Whole(w, q, p) /\ Same(v, w)
      /\ \A i \in 1 .. Len(q) :
           v.node[q[i]].from_name = NoName =>
             /\ w.node[q[i]].position = NewPlace(v, q, i)
             /\ w.node[q[i]].at_value = NewPlace(v, q, i)
  BY ONLY Whole(v, q, p), w = Wrapped(v), WrappedIs
<1>5. \A i \in 1 .. Len(q) : NewPlace(v, q, i) = Anew(x, Len(q), i)
  BY ONLY Whole(v, q, p), Free(v, q), <1>3, NewPlaceIs
<1>6. PICK y : y = [i \in 1 .. Len(q) |-> Anew(x, Len(q), i)]
  OBVIOUS
<1>7. \A i \in 1 .. Len(q) : y[i] = Anew(x, Len(q), i)
  BY <1>6
<1>8. /\ \A i, j \in 1 .. Len(q) : i <= j => y[i] <= y[j]
      /\ y[1] = 0 /\ y[Len(q)] = Length
  <2>1. Turning(x, Len(q), k)
    BY <1>1
  <2> QED
    BY ONLY <1>2, <1>7, <2>1, AnewRises
<1>9. \A i \in 1 .. Len(q) : /\ w.node[q[i]].position = y[i] /\ w.node[q[i]].at_value = y[i]
                             /\ w.node[q[i]].from_name = NoName
  <2>1. \A i \in 1 .. Len(q) : v.node[q[i]].from_name = NoName
    BY DEF Free
  <2>2. \A i \in 1 .. Len(q) : w.node[q[i]].from_name = v.node[q[i]].from_name
    BY <1>2, <1>4 DEF Same
  <2> QED
    BY <1>4, <1>5, <1>7, <2>1, <2>2
<1>10. Centred(w)
  BY <1>4 DEF Same, Centred
<1>11. Free(w, q) /\ InPlace(w, q)
  BY <1>9 DEF Free, InPlace
<1>12. Rising(w, q)
  BY <1>2, <1>8, <1>9 DEF Rising
<1> QED
  BY <1>4, <1>10, <1>11, <1>12 DEF Laid

(***************************************************************************)
(* The ring that was laid rises up to its old end, and again from there.   *)
(***************************************************************************)
LEMMA WoundTurns ==
  ASSUME NEW s, NEW r, NEW p, Whole(s, r, p), Laid(s, r, TRUE),
         NEW v, NEW q, NEW j, Wound(s, r, v, q, j)
  PROVE  /\ Free(v, q)
         /\ Turning([i \in 1 .. Len(q) |-> v.node[q[i]].position], Len(q), Len(r) - j + 1)
<1>1. /\ Len(r) \in Nat /\ Len(r) >= 2 /\ 1 \in 1 .. Len(r) /\ Len(r) \in 1 .. Len(r) /\ Length \in Nat
      /\ \A i \in 1 .. Len(r) : s.node[r[i]].at_value \in Int
  BY PlacesAre
<1>2. PICK z : z = [i \in 1 .. Len(r) |-> s.node[r[i]].position]
  OBVIOUS
<1>3. /\ \A i \in 1 .. Len(r) : z[i] \in Int
      /\ \A i, h \in 1 .. Len(r) : i <= h => z[i] <= z[h]
      /\ z[1] = 0 /\ z[Len(r)] = Length
  BY <1>1, <1>2 DEF Laid, InPlace, Rising
<1>4. \A i \in 1 .. Len(r) : z[i] \in 0 .. Length
  BY <1>1, <1>3
<1>5. /\ j \in 1 .. Len(r) /\ Len(q) \in {Len(r), Len(r) + 1}
      /\ \A i \in 1 .. Len(q) : AsPlaced(s, IF i <= Len(r) THEN Turned(r, j)[i] ELSE r[j], v, q[i])
  BY DEF Wound
<1>6. PICK k : k = Len(r) - j + 1
  OBVIOUS
<1>7. PICK f : f = [i \in 1 .. Len(q) |-> IF i <= k THEN i + j - 1
                                          ELSE IF i <= Len(r) THEN i - k ELSE j]
  OBVIOUS
<1>8. \A i \in 1 .. Len(q) : f[i] \in 1 .. Len(r) /\ AsPlaced(s, r[f[i]], v, q[i])
  <2> SUFFICES ASSUME NEW i \in 1 .. Len(q)
               PROVE  f[i] \in 1 .. Len(r) /\ AsPlaced(s, r[f[i]], v, q[i])
    OBVIOUS
  <2>1. CASE i <= k
    <3>1. i \in 1 .. Len(r) /\ i + j - 1 <= Len(r) /\ f[i] = i + j - 1 /\ f[i] \in 1 .. Len(r)
      BY <1>1, <1>5, <1>6, <1>7, <2>1
    <3>2. Turned(r, j)[i] = r[f[i]]
      BY <3>1 DEF Turned
    <3> QED
      BY <1>5, <3>1, <3>2
  <2>2. CASE i > k /\ i <= Len(r)
    <3>1. /\ i \in 1 .. Len(r) /\ ~(i + j - 1 <= Len(r)) /\ f[i] = i + j - 1 - Len(r)
          /\ f[i] \in 1 .. Len(r)
      BY <1>1, <1>5, <1>6, <1>7, <2>2
    <3>2. Turned(r, j)[i] = r[f[i]]
      BY <3>1 DEF Turned
    <3> QED
      BY <1>5, <3>1, <3>2
  <2>3. CASE i > k /\ ~(i <= Len(r))
    BY <1>1, <1>5, <1>6, <1>7, <2>3
  <2> QED
    BY <1>1, <1>5, <1>6, <2>1, <2>2, <2>3
<1>9. Free(v, q)
  BY <1>8 DEF AsPlaced, Laid, Free
<1>10. PICK x : x = [i \in 1 .. Len(q) |-> v.node[q[i]].position]
  OBVIOUS
<1>11. \A i \in 1 .. Len(q) : x[i] = z[f[i]]
  BY <1>2, <1>8, <1>10 DEF AsPlaced
<1>12. k \in 1 .. Len(q) /\ 1 \in 1 .. Len(q) /\ f[1] = j
  BY <1>1, <1>5, <1>6, <1>7
<1>13. \A i, h \in 1 .. Len(q) : i <= h /\ (h <= k \/ i > k) => f[i] <= f[h]
  BY <1>1, <1>5, <1>6, <1>7
<1>14. \A i \in 1 .. Len(q) : i > k => f[i] <= j
  BY <1>1, <1>5, <1>6, <1>7
<1>15. Turning(x, Len(q), k)
  <2>1. \A i \in 1 .. Len(q) : x[i] \in 0 .. Length
    BY <1>4, <1>8, <1>11
  <2>2. \A i, h \in 1 .. Len(q) : i <= h /\ (h <= k \/ i > k) => x[i] <= x[h]
    BY <1>3, <1>8, <1>11, <1>13
  <2>3. \A i \in 1 .. Len(q) : i > k => x[i] <= x[1]
    BY <1>3, <1>5, <1>8, <1>11, <1>12, <1>14
  <2> QED
    BY <1>12, <2>1, <2>2, <2>3 DEF Turning
<1> QED
  BY <1>6, <1>9, <1>10, <1>15

LEMMA ReversedLaid ==
  ASSUME NEW s, NEW r, NEW p, Whole(s, r, p), Laid(s, r, TRUE), OwnNamed(s, r), NEW w, w = Reflected(s)
  PROVE  Whole(w, Reversed(r), p) /\ Laid(w, Reversed(r), TRUE) /\ DOMAIN w.node = DOMAIN s.node
         /\ Places(Reversed(r)) = Places(r)
<1>1. /\ Len(r) \in Nat /\ Len(r) >= 2 /\ 1 \in 1 .. Len(r) /\ Len(r) \in 1 .. Len(r) /\ Length \in Nat
      /\ \A i \in 1 .. Len(r) : r[i] \in Places(r) /\ s.node[r[i]].at_value \in Int
  BY PlacesAre
<1>2. PICK q : q = Reversed(r)
  OBVIOUS
<1>3. /\ Whole(w, q, p) /\ Places(q) = Places(r) /\ DOMAIN w.node = DOMAIN s.node /\ w.ref_flag = s.ref_flag
      /\ \A m \in Places(r) : /\ w.node[m].from_name = NoName
                              /\ w.node[m].position = Length - s.node[m].position
                              /\ w.node[m].at_value = Length - s.node[m].position
  <2>1. /\ Whole(w, Reversed(r), p) /\ Places(Reversed(r)) = Places(r)
        /\ DOMAIN w.node = DOMAIN s.node /\ w.ref_flag = s.ref_flag
        /\ \A m \in Places(r) : /\ w.node[m].from_name = NoName
                                /\ w.node[m].position = Length - s.node[m].position
                                /\ w.node[m].at_value = Length - s.node[m].position
    BY ONLY Whole(s, r, p), OwnNamed(s, r), w = Reflected(s), ReflectedIs
  <2> QED
    BY <1>2, <2>1
<1>4. Len(q) = Len(r) /\ \A i \in 1 .. Len(r) : q[i] = r[Len(r) + 1 - i] /\ Len(r) + 1 - i \in 1 .. Len(r)
  BY <1>1, <1>2 DEF Reversed
<1>5. PICK z : z = [i \in 1 .. Len(r) |-> s.node[r[i]].at_value]
  OBVIOUS
<1>6. /\ \A i \in 1 .. Len(r) : z[i] \in Int /\ s.node[r[i]].position = z[i]
      /\ \A i, h \in 1 .. Len(r) : i <= h => z[i] <= z[h]
      /\ z[1] = 0 /\ z[Len(r)] = Length
  BY <1>1, <1>5 DEF Laid, InPlace, Rising
<1>7. \A i \in 1 .. Len(r) : /\ w.node[q[i]].from_name = NoName
                             /\ w.node[q[i]].position = Length - z[Len(r) + 1 - i]
                             /\ w.node[q[i]].at_value = Length - z[Len(r) + 1 - i]
  <2> SUFFICES ASSUME NEW i \in 1 .. Len(r)
               PROVE  /\ w.node[q[i]].from_name = NoName
                      /\ w.node[q[i]].position = Length - z[Len(r) + 1 - i]
                      /\ w.node[q[i]].at_value = Length - z[Len(r) + 1 - i]
    OBVIOUS
  <2>1. PICK h \in 1 .. Len(r) : h = Len(r) + 1 - i
    BY <1>4
  <2>2. q[i] = r[h] /\ r[h] \in Places(r) /\ s.node[r[h]].position = z[h]
    BY <1>1, <1>4, <1>6, <2>1
  <2> QED
    BY <1>3, <2>1, <2>2
<1>8. Free(w, q) /\ InPlace(w, q)
  BY <1>4, <1>7 DEF Free, InPlace
<1>9. Centred(w)
  BY <1>3 DEF Laid, Centred
<1>10. Rising(w, q)
  <2>1. ASSUME NEW i \in 1 .. Len(r), NEW h \in 1 .. Len(r), i <= h
        PROVE  w.node[q[i]].at_value <= w.node[q[h]].at_value
    <3>1. Len(r) + 1 - h <= Len(r) + 1 - i
      BY <1>1, <2>1
    <3>2. z[Len(r) + 1 - h] <= z[Len(r) + 1 - i]
      BY <1>4, <1>6, <3>1
    <3>3. PICK a \in Int : a = z[Len(r) + 1 - h]
      BY <1>4, <1>6
    <3>4. PICK c \in Int : c = z[Len(r) + 1 - i]
      BY <1>4, <1>6
    <3>5. w.node[q[i]].at_value = Length - c /\ w.node[q[h]].at_value = Length - a
      BY <1>7, <3>3, <3>4
    <3>6. Length - c <= Length - a
      BY <1>1, <3>2, <3>3, <3>4
    <3> QED
      BY <3>5, <3>6
  <2>2. w.node[q[1]].at_value = 0 /\ w.node[q[Len(r)]].at_value = Length
    <3>1. Len(r) + 1 - 1 = Len(r) /\ Len(r) + 1 - Len(r) = 1
      BY <1>1
    <3>2. /\ w.node[q[1]].at_value = Length - z[Len(r) + 1 - 1]
          /\ w.node[q[Len(r)]].at_value = Length - z[Len(r) + 1 - Len(r)]
      BY <1>1, <1>7
    <3>3. w.node[q[1]].at_value = Length - Length /\ w.node[q[Len(r)]].at_value = Length - 0
      BY <1>6, <3>1, <3>2
    <3> QED
      BY <1>1, <3>3
  <2> QED
    BY <1>4, <2>1, <2>2 DEF Rising
<1> QED
  BY <1>2, <1>3, <1>8, <1>9, <1>10 DEF Laid

(***************************************************************************)
(* What each command leaves.                                               *)
(***************************************************************************)
LEMMA InstalledReady ==
  ASSUME NEW s, NEW r, NEW p, Sound(s, r, p), Counted(s, r), Laid(s, r, TRUE),
         NEW e \in Element, s.occ_list[e] = 0, NEW at \in 0 .. Length
  PROVE  Ready(Kept(Installed(s, e, NoName, at, at)), TRUE)
<1>1. Whole(s, r, p) /\ DOMAIN s.node = Places(r)
  BY DEF Sound
<1>2. \A m \in Places(r) : s.node[m].elem # e
  BY Uncounted
<1>3. PICK u : u = Installed(s, e, NoName, at, at)
  OBVIOUS
<1>4. NoName \in Name /\ at \in Int
  BY DEF NoName, Name
<1>5. PICK n, j : /\ Whole(u, InsertAt(r, j, n), p + 1) /\ Joined(s, u, r, n, j)
                  /\ DOMAIN u.node = Places(InsertAt(r, j, n)) /\ Widened(InsertAt(r, j, n), r, j, n)
                  /\ u.node[n].elem = e /\ u.node[n].from_name = NoName
                  /\ u.node[n].at_value = at /\ u.node[n].position = at
                  /\ u.occ_list = [s.occ_list EXCEPT ![e] = 1]
  BY <1>1, <1>2, <1>3, <1>4, InstalledIs
<1>6. PICK q : q = InsertAt(r, j, n)
  OBVIOUS
<1>7. Whole(u, q, p + 1) /\ Widened(q, r, j, n) /\ DOMAIN u.node \ Places(q) \subseteq {n}
  BY <1>5, <1>6
<1>8. Laid(u, q, TRUE)
  BY ONLY <1>1, <1>5, <1>7, Laid(s, r, TRUE), at \in 0 .. Length, JoinedLaid
<1>9. Whole(Kept(u), q, p + 1) /\ Laid(Kept(u), q, TRUE)
  BY <1>7, <1>8, KeptReady
<1> QED
  BY <1>3, <1>9 DEF Ready

LEMMA TakenLaid ==
  ASSUME NEW s, NEW r, NEW p, Sound(s, r, p), Counted(s, r), Laid(s, r, TRUE),
         NEW n \in Places(r), Plain(s, n), n \notin {s.start, s.end}, NEW k, k = Kept(Removed(s, n))
  PROVE  \E q : Whole(k, q, p - 1) /\ Laid(k, q, TRUE)
<1>1. Whole(s, r, p) /\ DOMAIN s.node = Places(r)
  BY DEF Sound
<1>2. PICK h \in 2 .. Len(r) - 1 : n = r[h]
  BY <1>1, Within
<1>3. PICK e : e = s.node[n].elem
  OBVIOUS
<1>4. s.occ_list[e] = 1
  <2>1. PICK i \in 1 .. Len(r) : n = r[i]
    BY DEF Places
  <2> QED
    BY <1>3, <2>1 DEF Counted
<1>5. PICK w : w = Removed(s, n)
  OBVIOUS
<1>6. PICK q : q = RemoveAt(r, h)
  OBVIOUS
<1>7. /\ Whole(w, q, p - 1) /\ Narrowed(q, r, h) /\ Places(q) = Places(r) \ {n}
      /\ DOMAIN w.node = DOMAIN s.node /\ w.ref_flag = s.ref_flag
      /\ \A m \in Places(q) : AsPlaced(s, m, w, m)
  <2>1. /\ Whole(w, RemoveAt(r, h), p - 1) /\ Narrowed(RemoveAt(r, h), r, h)
        /\ Places(RemoveAt(r, h)) = Places(r) \ {n} /\ DOMAIN w.node = DOMAIN s.node
        /\ w.occ_list = [s.occ_list EXCEPT ![e] = 0] /\ w.ref_flag = s.ref_flag
        /\ \A m \in Places(RemoveAt(r, h)) : /\ s.node[m].elem # e
                                             /\ w.node[m].name = s.node[m].name
                                             /\ w.node[m].elem = s.node[m].elem
                                             /\ w.node[m].from_name = s.node[m].from_name
                                             /\ w.node[m].position = s.node[m].position
                                             /\ w.node[m].at_value = s.node[m].at_value
    BY ONLY <1>1, <1>2, <1>3, <1>4, <1>5, Plain(s, n), RemovedIs
  <2> QED
    BY <1>6, <2>1 DEF AsPlaced
<1>8. Laid(w, q, TRUE)
  BY ONLY <1>1, <1>2, <1>7, Laid(s, r, TRUE), NarrowedLaid
<1>9. DOMAIN w.node \ Places(q) \subseteq {n}
  BY <1>1, <1>7
<1>10. Whole(Kept(w), q, p - 1) /\ Laid(Kept(w), q, TRUE)
  BY <1>7, <1>8, <1>9, KeptReady
<1> QED
  BY <1>5, <1>10

LEMMA MovedReady ==
  ASSUME NEW s, NEW r, NEW p, Sound(s, r, p), Counted(s, r), Laid(s, r, TRUE),
         NEW n \in Places(r), Plain(s, n), n \notin {s.start, s.end}, s.node[n].elem \in Element,
         NEW to \in 0 .. Length
  PROVE  Ready(Kept(Moved(s, n, to)), TRUE)
<1>1. PICK k : k = Kept(Removed(s, n))
  OBVIOUS
<1>2. PICK e \in Element : e = s.node[n].elem
  OBVIOUS
<1>3. PICK q : Sound(k, q, p - 1) /\ Counted(k, q) /\ k.occ_list = [s.occ_list EXCEPT ![e] = 0]
  BY <1>1, <1>2, TakenIs
<1>4. Laid(k, q, TRUE)
  <2>1. PICK y : Whole(k, y, p - 1) /\ Laid(k, y, TRUE)
    BY <1>1, TakenLaid
  <2>2. Ring(k) = y /\ Ring(k) = q
    BY <1>3, <2>1, WholeIs DEF Sound
  <2> QED
    BY <2>1, <2>2
<1>5. k.occ_list[e] = 0
  <2>1. s.occ_list \in [Known -> Nat] /\ e \in Known
    BY KnownIs DEF Sound, Whole, Shaped
  <2> QED
    BY <1>3, <2>1
<1>6. s.occ_list[e] = 1
  <2>1. PICK i \in 1 .. Len(r) : n = r[i]
    BY DEF Places
  <2> QED
    BY <1>2, <2>1 DEF Counted
<1>7. Moved(s, n, to) = Installed(k, e, NoName, to, to)
  BY <1>1, <1>2, <1>6 DEF Moved
<1>8. Ready(Kept(Installed(k, e, NoName, to, to)), TRUE)
  BY ONLY <1>3, <1>4, <1>5, e \in Element, to \in 0 .. Length, InstalledReady
<1> QED
  BY <1>7, <1>8

LEMMA ReplacedReady ==
  ASSUME NEW s, NEW r, NEW p, Sound(s, r, p), Counted(s, r), Laid(s, r, TRUE),
         NEW n \in Places(r), Plain(s, n), n \notin {s.start, s.end}, NEW e \in Element, s.occ_list[e] = 0
  PROVE  Ready(Kept(Replaced(s, n, e)), TRUE)
<1>1. Whole(s, r, p) /\ DOMAIN s.node = Places(r)
  BY DEF Sound
<1>2. PICK h \in 2 .. Len(r) - 1 : n = r[h]
  BY <1>1, Within
<1>3. \A m \in Places(r) : s.node[m].elem # e
  BY Uncounted
<1>4. PICK w : w = Replaced(s, n, e)
  OBVIOUS
<1>5. Whole(w, r, p) /\ Exchanged(s, w, n, e)
  BY ONLY <1>1, <1>2, <1>3, <1>4, Plain(s, n), e \in Element, s.occ_list[e] = 0, ReplacedIs
<1>6. /\ DOMAIN w.node = DOMAIN s.node /\ w.ref_flag = s.ref_flag
      /\ \A m \in Places(r) : AsPlaced(s, m, w, m)
  BY <1>1, <1>5 DEF Exchanged, AsPlaced
<1>7. Len(r) \in Nat /\ Len(r) >= 1
  BY <1>1, PlacesAre
<1>8. Laid(w, r, TRUE)
  BY <1>6, <1>7, LaidSame
<1>9. DOMAIN w.node \ Places(r) \subseteq {n}
  BY <1>1, <1>6
<1>10. Whole(Kept(w), r, p) /\ Laid(Kept(w), r, TRUE)
  BY <1>5, <1>8, <1>9, KeptReady
<1> QED
  BY <1>4, <1>10 DEF Ready

LEMMA ResequencedLaid ==
  ASSUME NEW s, NEW r, NEW p, Sound(s, r, p), NEW on, Laid(s, r, on), NEW w, w = Resequenced(s)
  PROVE  Whole(w, r, p) /\ Laid(w, r, on) /\ DOMAIN w.node = Places(r)
<1>1. Whole(s, r, p) /\ DOMAIN s.node = Places(r)
  BY DEF Sound
<1>2. /\ Whole(w, r, p) /\ DOMAIN w.node = DOMAIN s.node /\ w.ref_flag = s.ref_flag
      /\ \A m \in DOMAIN s.node : /\ w.node[m].from_name = s.node[m].from_name
                                  /\ w.node[m].position = s.node[m].position
                                  /\ w.node[m].at_value = s.node[m].at_value
  BY ONLY <1>1, w = Resequenced(s), ResequencedIs
<1>3. \A m \in Places(r) : AsPlaced(s, m, w, m)
  BY <1>1, <1>2 DEF AsPlaced
<1>4. Len(r) \in Nat /\ Len(r) >= 1
  BY <1>1, PlacesAre
<1>5. Laid(w, r, on)
  BY <1>2, <1>3, <1>4, LaidSame
<1> QED
  BY <1>1, <1>2, <1>5

LEMMA SeqeditReady ==
  ASSUME NEW s, NEW r, NEW p, Sound(s, r, p), NEW on, Laid(s, r, on), Resolved(Resequenced(s))
  PROVE  Ready(Positioned(Resequenced(s)), TRUE)
<1>1. PICK w : w = Resequenced(s)
  OBVIOUS
<1>2. Whole(w, r, p) /\ Laid(w, r, on) /\ Resolved(w)
  BY <1>1, ResequencedLaid
<1>3. Whole(Positioned(w), r, p) /\ Laid(Positioned(w), r, TRUE)
  BY <1>2, PositionedLaid
<1> QED
  BY <1>1, <1>3 DEF Ready

LEMMA UnrangedLaid ==
  ASSUME NEW s, NEW r, NEW p, Whole(s, r, p), DOMAIN s.node = Places(r), NEW on, Laid(s, r, on)
  PROVE  Ready(Kept([s EXCEPT !.ranges = <<>>]), on)
<1>1. PICK w : w = [s EXCEPT !.ranges = <<>>]
  OBVIOUS
<1>2. Shaped(s)
  BY WholeIs
<1>3. Whole(w, r, p) /\ w.node = s.node /\ w.ref_flag = s.ref_flag
  <2>1. Whole(w, r, p) /\ w.node = s.node
    BY ONLY Whole(s, r, p), <1>1, UnrangedIs
  <2>2. w.ref_flag = s.ref_flag
    BY ONLY <1>1, <1>2, RangesSet
  <2> QED
    BY <2>1, <2>2
<1>4. Laid(w, r, on)
  BY <1>3 DEF Laid, Centred, Free, InPlace, Rising
<1>5. DOMAIN w.node \ Places(r) \subseteq {1}
  BY <1>3
<1>6. Whole(Kept(w), r, p) /\ Laid(Kept(w), r, on)
  BY <1>3, <1>4, <1>5, KeptReady
<1> QED
  BY <1>1, <1>6 DEF Ready

LEMMA EndeditReady ==
  ASSUME NEW s, NEW r, NEW p, Sound(s, r, p), NEW on, Laid(s, r, on)
  PROVE  Ready(Kept([Resequenced(s) EXCEPT !.ranges = <<>>]), on)
<1>1. PICK w : w = Resequenced(s)
  OBVIOUS
<1>2. Whole(w, r, p) /\ Laid(w, r, on) /\ DOMAIN w.node = Places(r)
  BY <1>1, ResequencedLaid
<1>3. Ready(Kept([w EXCEPT !.ranges = <<>>]), on)
  BY <1>2, UnrangedLaid
<1> QED
  BY <1>1, <1>3

LEMMA FlattenReady ==
  ASSUME NEW s, NEW r, NEW p, Sound(s, r, p), NEW on, Laid(s, r, on), Resolved(s)
  PROVE  Ready(Kept(Flattened(s)), TRUE)
<1>1. Whole(s, r, p)
  BY DEF Sound
<1>2. PICK w : w = Flattened(s)
  OBVIOUS
<1>3. PICK x : /\ Whole(w, r, x) /\ DOMAIN w.node = Places(r) /\ w.ref_flag = 0
               /\ \A m \in Places(r) : /\ w.node[m].from_name = NoName
                                       /\ w.node[m].position \in Declared(s)[m]
                                       /\ w.node[m].at_value = w.node[m].position
  BY ONLY <1>1, <1>2, Resolved(s), FlattenedIs
<1>4. /\ Len(r) \in Nat /\ Len(r) >= 2 /\ 1 \in 1 .. Len(r) /\ Len(r) \in 1 .. Len(r)
      /\ \A i \in 1 .. Len(r) : r[i] \in Places(r)
  BY <1>1, PlacesAre
<1>5. \A m \in Places(r) : w.node[m].position = s.node[m].at_value
  BY <1>1, <1>3, DeclaredAt
<1>6. Centred(w)
  <2>1. \A e \in Known : Half[e] \in Int
    BY SequenceEditAssumption
  <2> QED
    BY <1>3, <2>1 DEF Centred
<1>7. Free(w, r) /\ InPlace(w, r)
  BY <1>3, <1>4 DEF Free, InPlace
<1>8. Rising(w, r)
  <2>1. \A i \in 1 .. Len(r) : w.node[r[i]].at_value = s.node[r[i]].at_value
    BY <1>3, <1>4, <1>5
  <2> QED
    BY <1>4, <2>1 DEF Laid, Rising
<1>9. Laid(w, r, TRUE)
  BY <1>6, <1>7, <1>8 DEF Laid
<1>10. DOMAIN w.node \ Places(r) \subseteq {1}
  BY <1>3
<1>11. Whole(Kept(w), r, x) /\ Laid(Kept(w), r, TRUE)
  BY <1>3, <1>9, <1>10, KeptReady
<1> QED
  BY <1>2, <1>11 DEF Ready

LEMMA ReflectReady ==
  ASSUME NEW s, NEW r, NEW p, Sound(s, r, p), Laid(s, r, TRUE), OwnNamed(s, r)
  PROVE  Ready(Kept(Reflected(s)), TRUE)
<1>1. Whole(s, r, p) /\ DOMAIN s.node = Places(r)
  BY DEF Sound
<1>2. PICK w : w = Reflected(s)
  OBVIOUS
<1>3. PICK q : q = Reversed(r)
  OBVIOUS
<1>4. Whole(w, q, p) /\ Laid(w, q, TRUE) /\ DOMAIN w.node = DOMAIN s.node /\ Places(q) = Places(r)
  BY <1>1, <1>2, <1>3, ReversedLaid
<1>5. DOMAIN w.node \ Places(q) \subseteq {1}
  BY <1>1, <1>4
<1>6. Whole(Kept(w), q, p) /\ Laid(Kept(w), q, TRUE)
  BY <1>4, <1>5, KeptReady
<1> QED
  BY <1>2, <1>6 DEF Ready

LEMMA CycleReady ==
  ASSUME NEW s, NEW r, NEW p, Sound(s, r, p), Laid(s, r, TRUE), OwnNamed(s, r),
         NEW m \in Marker, Has(s, s.nodes, <<m, 1>>), Resolved(Cycled(s, m))
  PROVE  Ready(Kept(Positioned(Cycled(s, m))), TRUE)
<1>1. Whole(s, r, p) /\ DOMAIN s.node = Places(r)
  BY DEF Sound
<1>2. PICK w : w = Cycled(s, m)
  OBVIOUS
<1>3. PICK v, q, j : w = Wrapped(v) /\ TurnedTo(s, r, p, v, q) /\ Wound(s, r, v, q, j)
  BY <1>1, <1>2, TurnedToIs
<1>4. Whole(v, q, p) /\ DOMAIN v.node = Places(q) /\ v.ref_flag = s.ref_flag
  BY <1>3 DEF TurnedTo
<1>5. Free(v, q) /\ Turning([i \in 1 .. Len(q) |-> v.node[q[i]].position], Len(q), Len(r) - j + 1)
  BY <1>1, <1>3, WoundTurns
<1>6. Centred(v)
  BY <1>4 DEF Laid, Centred
<1>7. PICK k : k = Len(r) - j + 1
  OBVIOUS
<1>8. Whole(w, q, p) /\ Laid(w, q, TRUE)
  <2>1. Turning([i \in 1 .. Len(q) |-> v.node[q[i]].position], Len(q), k)
    BY <1>5, <1>7
  <2> QED
    BY ONLY <1>3, <1>4, <1>5, <1>6, <2>1, WrappedLaid
<1>9. DOMAIN w.node = Places(q)
  <2>1. Same(v, w)
    BY ONLY <1>3, <1>4, WrappedIs
  <2> QED
    BY <1>4, <2>1 DEF Same
<1>10. PICK x : x = Positioned(w)
  OBVIOUS
<1>11. Resolved(w)
  BY <1>2
<1>12. Whole(x, q, p) /\ Laid(x, q, TRUE)
  BY <1>8, <1>10, <1>11, PositionedLaid
<1>13. DOMAIN x.node \ Places(q) \subseteq {1}
  <2>1. Same(w, x)
    BY ONLY <1>8, <1>10, <1>11, PositionedIs
  <2> QED
    BY <1>9, <2>1 DEF Same
<1>14. Whole(Kept(x), q, p) /\ Laid(Kept(x), q, TRUE)
  BY <1>12, <1>13, KeptReady
<1> QED
  BY <1>2, <1>10, <1>14 DEF Ready

LEMMA DefinedReady ==
  ASSUME NEW q \in Initial, Apart(q.elems), NEW d, d = Defined(q),
         \A e \in Known : q.ref_flag * Half[e] = 0,
         \A i \in 1 .. Len(q.at) : q.at[i] \in 0 .. Length,
         \A i, j \in 1 .. Len(q.at) : i <= j => q.at[i] <= q.at[j]
  PROVE  Ready(d, FALSE)
<1>1. PICK x : x = Entered(q)
  OBVIOUS
<1>2. PICK r, p : /\ Whole(d, r, p) /\ d.ref_flag = q.ref_flag /\ Len(r) = Len(q.at) + 2
                  /\ \A i \in 1 .. Len(r) : d.node[r[i]].from_name = NoName /\ d.node[r[i]].at_value = x[i]
  <2>1. \E r, p : /\ Whole(d, r, p) /\ DOMAIN d.node = Places(r)
                  /\ d.ref_flag = q.ref_flag /\ Len(r) = Len(q.at) + 2
                  /\ \A i \in 1 .. Len(r) : /\ d.node[r[i]].from_name = NoName
                                            /\ d.node[r[i]].at_value = Entered(q)[i]
    BY DefinedIs
  <2> QED
    BY <1>1, <2>1
<1>3. q.at \in Seq(Int) /\ Length \in Nat
  BY SequenceEditAssumption
<1>4. PICK k \in Nat : k = Len(q.at)
  BY <1>3
<1>5. x[1] = 0 /\ x[k + 2] = Length /\ \A i \in 1 .. k : x[i + 1] = q.at[i]
  <2>1. 0 \in Int /\ Length \in Int
    BY <1>3
  <2>2. PICK y \in Seq(Int) : y = q.at
    BY <1>3
  <2>3. /\ (<<0>> \o y \o <<Length>>)[1] = 0 /\ (<<0>> \o y \o <<Length>>)[Len(y) + 2] = Length
        /\ \A i \in 1 .. Len(y) : (<<0>> \o y \o <<Length>>)[i + 1] = y[i]
    BY ONLY y \in Seq(Int), <2>1, BetweenIs
  <2> QED
    BY <1>1, <1>4, <2>2, <2>3 DEF Entered
<1>6. \A i \in 2 .. k + 1 : i - 1 \in 1 .. k /\ x[i] = q.at[i - 1] /\ q.at[i - 1] \in 0 .. Length
  <2> SUFFICES ASSUME NEW i \in 2 .. k + 1
               PROVE  i - 1 \in 1 .. k /\ x[i] = q.at[i - 1] /\ q.at[i - 1] \in 0 .. Length
    OBVIOUS
  <2>1. PICK h \in 1 .. k : h = i - 1
    OBVIOUS
  <2>2. x[h + 1] = q.at[h] /\ h + 1 = i
    BY <1>5, <2>1
  <2> QED
    BY <1>4, <2>1, <2>2
<1>7. ASSUME NEW i \in 1 .. k + 2, NEW j \in 1 .. k + 2, i <= j
      PROVE  x[i] <= x[j]
  <2>1. \A h \in 1 .. k + 2 : x[h] \in 0 .. Length
    <3> SUFFICES ASSUME NEW h \in 1 .. k + 2
                 PROVE  x[h] \in 0 .. Length
      OBVIOUS
    <3>1. h = 1 \/ h = k + 2 \/ h \in 2 .. k + 1
      OBVIOUS
    <3>2. 0 \in 0 .. Length /\ Length \in 0 .. Length
      BY <1>3
    <3>3. h \in 2 .. k + 1 => x[h] \in 0 .. Length
      BY <1>6
    <3> QED
      BY <1>5, <3>1, <3>2, <3>3
  <2>2. CASE i = 1 \/ j = k + 2
    <3>1. PICK a \in 0 .. Length : a = x[i]
      BY <2>1
    <3>2. PICK c \in 0 .. Length : c = x[j]
      BY <2>1
    <3>3. a = 0 \/ c = Length
      BY <1>5, <2>2, <3>1, <3>2
    <3>4. a <= c
      BY <1>3, <3>3
    <3> QED
      BY <3>1, <3>2, <3>4
  <2>3. CASE ~(i = 1 \/ j = k + 2)
    <3>1. i \in 2 .. k + 1 /\ j \in 2 .. k + 1 /\ i - 1 <= j - 1
      BY <1>7, <2>3
    <3>2. x[i] = q.at[i - 1] /\ x[j] = q.at[j - 1] /\ i - 1 \in 1 .. k /\ j - 1 \in 1 .. k
      BY <1>6, <3>1
    <3> QED
      BY <1>4, <3>1, <3>2
  <2> QED
    BY <2>2, <2>3
<1>8. Rising(d, r)
  <2>1. 1 \in 1 .. k + 2 /\ k + 2 \in 1 .. k + 2 /\ Len(r) = k + 2
    BY <1>2, <1>4
  <2>2. \A i \in 1 .. k + 2 : d.node[r[i]].at_value = x[i]
    BY <1>2, <2>1
  <2> QED
    BY ONLY <1>5, <1>7, <2>1, <2>2 DEF Rising
<1>9. Free(d, r) /\ Centred(d)
  BY <1>2 DEF Free, Centred
<1> QED
  BY <1>2, <1>8, <1>9 DEF Ready, Laid

-----------------------------------------------------------------------------
(* The order of the places.                                                *)

(***************************************************************************)
(* The sequence is written down in the order of its places, nothing is     *)
(* placed from another element, nor by an end of it.                       *)
(***************************************************************************)
ByPlace ==
  /\ "install_from" \notin Commands
  /\ \A q \in Initial :
       /\ \A e \in Known : q.ref_flag * Half[e] = 0
       /\ \A i \in 1 .. Len(q.at) : q.at[i] \in 0 .. Length
       /\ \A i, j \in 1 .. Len(q.at) : i <= j => q.at[i] <= q.at[j]

Level == Ready(ed, edit_is_on)

LEMMA LevelHolds ==
  ASSUME Level
  PROVE  Ordered /\ Placed
<1>1. PICK r, p : Whole(ed, r, p) /\ Laid(ed, r, edit_is_on)
  BY DEF Level, Ready
<1> SUFFICES ASSUME edit_is_on
             PROVE  Ordered /\ Placed
  BY DEF Ordered, Placed
<1>2. Ring(ed) = r /\ Nodes(ed) = Places(r)
  BY <1>1, WholeIs
<1>3. /\ Len(r) \in Nat /\ 1 \in 1 .. Len(r) /\ Len(r) \in 1 .. Len(r)
  BY <1>1, PlacesAre
<1>4. \A i \in 1 .. Len(r) : ed.node[r[i]].position = ed.node[r[i]].at_value
  BY <1>1 DEF Laid, InPlace
<1>5. Rising(ed, r)
  BY <1>1 DEF Laid
<1>6. Ordered
  <2>1. \A i \in 1 .. Len(r) - 1 : i \in 1 .. Len(r) /\ i + 1 \in 1 .. Len(r) /\ i <= i + 1
    BY <1>3
  <2>2. \A i \in 1 .. Len(r) - 1 : ed.node[r[i]].position <= ed.node[r[i + 1]].position
    BY <1>4, <1>5, <2>1 DEF Rising
  <2>3. ed.node[r[1]].position = 0 /\ ed.node[r[Len(r)]].position = Length
    BY <1>3, <1>4, <1>5 DEF Rising
  <2> QED
    BY <1>2, <2>2, <2>3 DEF Ordered
<1>7. Placed
  <2>1. ASSUME NEW n \in Places(r)
        PROVE  Declared(ed)[n] = {ed.node[n].position}
    <3>1. Declared(ed)[n] = {ed.node[n].at_value}
      BY <1>1, DeclaredAt
    <3>2. PICK i \in 1 .. Len(r) : n = r[i]
      BY DEF Places
    <3> QED
      BY <1>4, <3>1, <3>2
  <2> QED
    BY <1>2, <2>1 DEF Placed
<1> QED
  BY <1>6, <1>7

LEMMA LevelInit ==
  ASSUME ByName, ByPlace, Init
  PROVE  Level
<1>1. PICK q \in Initial : ed = Defined(q)
  BY DEF Init
<1>2. Ready(ed, FALSE)
  BY <1>1, DefinedReady DEF ByName, ByPlace
<1> QED
  BY <1>2 DEF Level, Init

(***************************************************************************)
(* An edit goes on, after a command that leaves the sequence in order or   *)
(* ends the program.                                                       *)
(***************************************************************************)
LEMMA EditLevels ==
  ASSUME NEW s, edit_is_on, Edits(s), Ready(Kept(s), TRUE)
  PROVE  Level'
<1>1. ed' = Kept(s) /\ edit_is_on' = edit_is_on
  BY DEF Edits
<1>2. PICK r, p : Whole(Kept(s), r, p) /\ Laid(Kept(s), r, TRUE)
  BY DEF Ready
<1>3. Laid(Kept(s), r, edit_is_on')
  BY <1>2 DEF Laid
<1> QED
  BY <1>1, <1>2, <1>3 DEF Level, Ready

LEMMA EditIfLevels ==
  ASSUME NEW s, NEW b \in BOOLEAN, Level, edit_is_on, EditsIf(b, Edits(s)), b => Ready(Kept(s), TRUE)
  PROVE  Level'
<1>1. CASE b /\ Edits(s)
  BY <1>1, EditLevels
<1>2. CASE UNCHANGED <<ed, seqedit_select, edit_is_on>>
  BY <1>2 DEF Level
<1> QED
  BY <1>1, <1>2 DEF EditsIf

(***************************************************************************)
(* The ring that is in order is the one in step with list and counts.      *)
(***************************************************************************)
LEMMA LevelRing ==
  ASSUME Tidy, Level
  PROVE  \E r, p : Sound(ed, r, p) /\ (edit_is_on => Counted(ed, r)) /\ Laid(ed, r, edit_is_on)
<1>1. PICK r, p : Sound(ed, r, p) /\ (edit_is_on => Counted(ed, r))
  BY DEF Tidy, Standing
<1>2. PICK q, x : Whole(ed, q, x) /\ Laid(ed, q, edit_is_on)
  BY DEF Level, Ready
<1>3. Ring(ed) = r /\ Ring(ed) = q
  BY <1>1, <1>2, WholeIs DEF Sound
<1> QED
  BY <1>1, <1>2, <1>3

LEMMA LevelEditOne ==
  ASSUME ByName, ByPlace, Tidy, Level, EditOne
  PROVE  Level'
<1>1. edit_is_on
  BY DEF EditOne, Install, InstallFrom, MoveTo, MoveBy, RemoveNamed, ReplaceNamed, Command
<1>2. PICK r, p : Sound(ed, r, p) /\ Counted(ed, r) /\ Laid(ed, r, TRUE)
  <2>1. PICK r, p : Sound(ed, r, p) /\ (edit_is_on => Counted(ed, r)) /\ Laid(ed, r, edit_is_on)
    BY LevelRing
  <2> QED
    BY <1>1, <2>1 DEF Laid
<1>3. \A e : MayAdd(e) => ed.occ_list[e] = 0
  BY DEF MayAdd, ByName
<1>4. ASSUME NEW e \in Element, NEW at \in 0 .. Length, Install(e, at)
      PROVE  Level'
  <2>1. ed.occ_list[e] = 0 /\ Edits(Installed(ed, e, NoName, at, at))
    BY <1>3, <1>4 DEF Install
  <2>2. Ready(Kept(Installed(ed, e, NoName, at, at)), TRUE)
    BY <1>2, <2>1, InstalledReady
  <2> QED
    BY <1>1, <2>1, <2>2, EditLevels
<1>5. ASSUME NEW x, NEW to, MoveTo(x, to)
      PROVE  Level'
  <2>1. PICK n : n = Lookup(ed, x)
    OBVIOUS
  <2>2. UserName(x) /\ n \notin {ed.start, ed.end} /\ to \in 0 .. Length /\ Edits(Moved(ed, n, to))
    BY <1>5, <2>1 DEF MoveTo, Loose, Inside
  <2>3. n \in Places(r) /\ Plain(ed, n) /\ ed.node[n].elem \in Element
    BY <1>2, <2>1, <2>2, NamedNode
  <2>4. Ready(Kept(Moved(ed, n, to)), TRUE)
    BY <1>2, <2>2, <2>3, MovedReady
  <2> QED
    BY <1>1, <2>2, <2>4, EditLevels
<1>6. ASSUME NEW x, RemoveNamed(x)
      PROVE  Level'
  <2>1. PICK n : n = Lookup(ed, x)
    OBVIOUS
  <2>2. UserName(x) /\ n \notin {ed.start, ed.end} /\ Edits(Removed(ed, n))
    BY <1>6, <2>1 DEF RemoveNamed, Loose
  <2>3. n \in Places(r) /\ Plain(ed, n)
    BY <1>2, <2>1, <2>2, NamedNode
  <2>4. Ready(Kept(Removed(ed, n)), TRUE)
    BY <1>2, <2>2, <2>3, TakenLaid DEF Ready
  <2> QED
    BY <1>1, <2>2, <2>4, EditLevels
<1>7. ASSUME NEW x, NEW e \in Element, ReplaceNamed(x, e)
      PROVE  Level'
  <2>1. PICK n : n = Lookup(ed, x)
    OBVIOUS
  <2>2. /\ UserName(x) /\ n \notin {ed.start, ed.end} /\ ed.occ_list[e] = 0
        /\ Edits(Replaced(ed, n, e))
    BY <1>3, <1>7, <2>1 DEF ReplaceNamed, Loose
  <2>3. n \in Places(r) /\ Plain(ed, n)
    BY <1>2, <2>1, <2>2, NamedNode
  <2>4. Ready(Kept(Replaced(ed, n, e)), TRUE)
    BY <1>2, <2>2, <2>3, ReplacedReady
  <2> QED
    BY <1>1, <2>2, <2>4, EditLevels
<1>8. \A e, x, d : ~InstallFrom(e, x, d)
  BY DEF ByPlace, InstallFrom, Command
<1> QED
  BY <1>4, <1>5, <1>6, <1>7, <1>8 DEF EditOne, MoveBy

LEMMA LevelEditAll ==
  ASSUME ByName, ByPlace, Tidy, Level, EditAll
  PROVE  Level'
<1>1. PICK r, p : Sound(ed, r, p) /\ Laid(ed, r, edit_is_on)
  BY LevelRing
<1>2. ASSUME OwnNames
      PROVE  OwnNamed(ed, r)
  <2>1. Nodes(ed) = Places(r)
    BY <1>1, WholeIs DEF Sound
  <2>2. \A n \in Nodes(ed) : IsPMark(ed.node[n].elem) => IsPMark(ed.node[n].name[1])
    BY <1>2 DEF OwnNames, ByName
  <2> QED
    BY <2>1, <2>2 DEF OwnNamed, Plain
<1>3. ASSUME edit_is_on
      PROVE  Laid(ed, r, TRUE)
  BY <1>1, <1>3 DEF Laid
<1>4. ASSUME Seqedit
      PROVE  Level'
  <2>1. CASE Resolved(Resequenced(ed))
    <3>1. ed' = Positioned(Resequenced(ed)) /\ edit_is_on' = TRUE
      BY <1>4, <2>1 DEF Seqedit
    <3>2. Ready(Positioned(Resequenced(ed)), TRUE)
      BY <1>1, <2>1, SeqeditReady
    <3> QED
      BY <3>1, <3>2 DEF Level
  <2>2. CASE ~Resolved(Resequenced(ed))
    <3>1. UNCHANGED <<ed, edit_is_on>>
      BY <1>4, <2>2 DEF Seqedit
    <3> QED
      BY <3>1 DEF Level
  <2> QED
    BY <2>1, <2>2
<1>5. ASSUME Endedit
      PROVE  Level'
  <2>1. ed' = Kept([Resequenced(ed) EXCEPT !.ranges = <<>>]) /\ edit_is_on' = FALSE
    BY <1>5 DEF Endedit
  <2>2. Laid(ed, r, FALSE)
    BY <1>1 DEF Laid
  <2>3. Ready(Kept([Resequenced(ed) EXCEPT !.ranges = <<>>]), FALSE)
    BY <1>1, <2>2, EndeditReady
  <2> QED
    BY <2>1, <2>3 DEF Level
<1>6. ASSUME Flatten
      PROVE  Level'
  <2>1. edit_is_on /\ EditsIf(Resolved(ed), Edits(Flattened(ed)))
    BY <1>6 DEF Flatten, Command
  <2>2. Resolved(ed) => Ready(Kept(Flattened(ed)), TRUE)
    BY <1>1, FlattenReady
  <2>3. Resolved(ed) \in BOOLEAN
    BY DEF Resolved
  <2> QED
    BY <2>1, <2>2, <2>3, EditIfLevels
<1>7. ASSUME Reflect
      PROVE  Level'
  <2>1. edit_is_on /\ OwnNames /\ Edits(Reflected(ed))
    BY <1>7 DEF Reflect, Command
  <2>2. Ready(Kept(Reflected(ed)), TRUE)
    BY <1>1, <1>2, <1>3, <2>1, ReflectReady
  <2> QED
    BY <2>1, <2>2, EditLevels
<1>8. ASSUME NEW m \in Marker, Cycle(m)
      PROVE  Level'
  <2>1. PICK s : s = Cycled(ed, m)
    OBVIOUS
  <2>2. /\ edit_is_on /\ OwnNames /\ Has(ed, ed.nodes, <<m, 1>>)
        /\ EditsIf(Resolved(s), Edits(Positioned(s)))
    BY <1>8, <2>1 DEF Cycle, Command
  <2>3. Resolved(s) => Ready(Kept(Positioned(s)), TRUE)
    BY <1>1, <1>2, <1>3, <2>1, <2>2, CycleReady
  <2>4. Resolved(s) \in BOOLEAN
    BY DEF Resolved
  <2> QED
    BY <2>2, <2>3, <2>4, EditIfLevels
<1> QED
  BY <1>4, <1>5, <1>6, <1>7, <1>8 DEF EditAll

LEMMA LevelNext ==
  ASSUME ByName, ByPlace, Tidy, Level, [Next]_vars
  PROVE  Level'
<1>1. CASE EditOne
  BY <1>1, LevelEditOne
<1>2. CASE EditAll
  BY <1>2, LevelEditAll
<1>3. ~EditSelected
  BY DEF ByName, Selecting, EditSelected, InstallAtSelected, MoveTheSelected, RemoveTheSelected,
         ReplaceTheSelected, Command
<1>4. ASSUME NEW c \in Selects, Select(c)
      PROVE  Level'
  BY <1>4 DEF Select, Level
<1>5. CASE SelectClear
  <2>1. ed' = Kept([ed EXCEPT !.ranges = <<>>]) /\ edit_is_on' = edit_is_on
    BY <1>5 DEF SelectClear
  <2>2. PICK r, p : Whole(ed, r, p) /\ DOMAIN ed.node = Places(r) /\ Laid(ed, r, edit_is_on)
    BY LevelRing DEF Sound
  <2>3. Ready(Kept([ed EXCEPT !.ranges = <<>>]), edit_is_on)
    BY <2>2, UnrangedLaid
  <2> QED
    BY <2>1, <2>3 DEF Level
<1>6. CASE UNCHANGED vars
  BY <1>6 DEF vars, Level
<1> QED
  BY <1>1, <1>2, <1>3, <1>4, <1>5, <1>6 DEF Next

(***************************************************************************)
(* All along an edit the nodes follow each other in the order of their     *)
(* places, from 0 to the length, wherever they are installed, moved and    *)
(* replaced, and however often the sequence is turned and reflected.       *)
(***************************************************************************)
THEOREM EditedOrdered == ASSUME ByName, ByPlace PROVE Spec => []Ordered
<1>1. Init => Tidy /\ Level
  BY TidyInit, LevelInit
<1>2. Tidy /\ Level /\ [Next]_vars => Tidy' /\ Level'
  BY TidyNext, LevelNext
<1>3. Level => Ordered
  BY LevelHolds
<1> QED
  BY <1>1, <1>2, <1>3, PTL DEF Spec

(***************************************************************************)
(* The place of a node in an edit stays the one that get_node_pos computes *)
(* for it: at_value, the position and the ring are changed together.       *)
(***************************************************************************)
THEOREM EditedPlaced == ASSUME ByName, ByPlace PROVE Spec => []Placed
<1>1. Init => Tidy /\ Level
  BY TidyInit, LevelInit
<1>2. Tidy /\ Level /\ [Next]_vars => Tidy' /\ Level'
  BY TidyNext, LevelNext
<1>3. Level => Placed
  BY LevelHolds
<1> QED
  BY <1>1, <1>2, <1>3, PTL DEF Spec

-----------------------------------------------------------------------------
(* Nodes without a place.                                                  *)

(***************************************************************************)
(* A chain of subsets that is as long as their set has elements, and whose *)
(* last is not empty, is not shrinking everywhere.                         *)
(***************************************************************************)
LEMMA Shrinking ==
  ASSUME NEW X, IsFiniteSet(X), NEW k, k = Cardinality(X), k \in Nat, NEW f,
         \A d \in 0 .. k : f[d] \subseteq X,
         \A d \in 0 .. k - 1 : f[d + 1] \subseteq f[d], f[k] # {}
  PROVE  \E d \in 0 .. k - 1 : f[d + 1] = f[d] /\ f[d] # {}
<1> SUFFICES ASSUME \A d \in 0 .. k - 1 : f[d + 1] = f[d] => f[d] = {}
             PROVE  FALSE
  OBVIOUS
<1>1. \A d \in 0 .. k : IsFiniteSet(f[d]) /\ Cardinality(f[d]) \in Nat
  BY FS_Subset, FS_CardinalityType
<1>2. PICK T : T = {d \in Nat : d <= k => f[d] = {} \/ Cardinality(f[d]) <= k - d}
  OBVIOUS
<1>3. 0 \in T
  <2>1. 0 \in 0 .. k
    OBVIOUS
  <2>2. Cardinality(f[0]) <= k
    BY <2>1, FS_Subset
  <2> QED
    BY <1>2, <2>2
<1>4. ASSUME NEW d \in Nat, d \in T
      PROVE  d + 1 \in T
  <2> SUFFICES ASSUME d + 1 <= k, f[d + 1] # {}
               PROVE  Cardinality(f[d + 1]) <= k - (d + 1)
    BY <1>2
  <2>1. d \in 0 .. k - 1 /\ d \in 0 .. k /\ d + 1 \in 0 .. k
    OBVIOUS
  <2>2. f[d + 1] \subseteq f[d] /\ f[d] # {} /\ f[d + 1] # f[d]
    BY <2>1
  <2>3. Cardinality(f[d]) <= k - d
    BY <1>2, <1>4, <2>1, <2>2
  <2>4. PICK A : A = f[d] /\ IsFiniteSet(A)
    BY <1>1, <2>1
  <2>5. PICK B : B = f[d + 1] /\ B \subseteq A /\ B # A
    BY <2>2, <2>4
  <2>6. Cardinality(B) <= Cardinality(A) /\ Cardinality(B) # Cardinality(A)
    BY ONLY <2>4, <2>5, FS_Subset
  <2>7. Cardinality(A) \in Nat /\ Cardinality(B) \in Nat
    BY <1>1, <2>1, <2>4, <2>5
  <2> QED
    BY <2>3, <2>4, <2>5, <2>6, <2>7
<1>5. Nat \subseteq T
  BY <1>3, <1>4, SetInduction
<1>6. Cardinality(f[k]) <= 0 /\ k \in 0 .. k
  BY <1>2, <1>5
<1>7. Cardinality(f[k]) = 0
  BY <1>1, <1>6
<1> QED
  BY <1>1, <1>6, <1>7, FS_EmptySet

(***************************************************************************)
(* A node is placed from an element, which is plain.                       *)
(***************************************************************************)
Tied(s, m) == s.node[m].from_name = NoName \/ s.node[m].from_name \in Element \X {1}

Refers(s) == \A m \in DOMAIN s.node : Tied(s, m)

(***************************************************************************)
(* L are nodes that wait for each other, or for none.                      *)
(***************************************************************************)
Lost(s, L) ==
  /\ L \in SUBSET Nodes(s) /\ L # {}
  /\ \A n \in L : /\ s.node[n].from_name # NoName
                  /\ \A m \in Nodes(s) : s.node[m].elem = s.node[n].from_name[1] => m \in L

LEMMA HolderIs ==
  ASSUME NEW s, NEW r, NEW p, Whole(s, r, p), NEW m \in Places(r), NEW e \in Element, s.node[m].elem = e
  PROVE  Has(s, s.nodes, <<e, 1>>) /\ Lookup(s, <<e, 1>>) = m
<1>1. Shaped(s) /\ Labelled(s, r) /\ Listed(s, s.nodes, r, p)
  BY DEF Whole
<1>2. PICK i \in 1 .. Len(r) : m = r[i]
  BY DEF Places
<1>3. Plain(s, r[i])
  BY <1>2, KnownIs DEF Plain
<1>4. s.node[r[i]].name = <<e, 1>>
  BY <1>1, <1>2, <1>3 DEF Labelled
<1>5. PICK a \in 1 .. p : s.nodes[a] = r[i]
  BY <1>1, <1>3 DEF Listed
<1>6. Sorted(s, s.nodes, p)
  BY <1>1 DEF Listed
<1>7. Probe(s, s.nodes, s.node[s.nodes[a]].name) = [hit |-> TRUE, at |-> a]
  BY <1>1, <1>6, FoundIs
<1>8. Probe(s, s.nodes, <<e, 1>>) = [hit |-> TRUE, at |-> a]
  BY <1>4, <1>5, <1>7
<1> QED
  BY <1>2, <1>5, <1>8 DEF Has, Lookup

(***************************************************************************)
(* The nodes for which no place is found in d references, and in d + 1.    *)
(***************************************************************************)
LEMMA LosingIs ==
  ASSUME NEW s, NEW r, NEW p, Whole(s, r, p), DOMAIN s.node = Places(r), Refers(s),
         NEW n \in Places(r), Declared(s)[n] = {}
  PROVE  \E L : Lost(s, L)
<1>1. Shaped(s) /\ s.nodes \in Seq(DOMAIN s.node) /\ Nodes(s) = Places(r) /\ IsFiniteSet(DOMAIN s.node)
  BY WholeIs DEF Shaped
<1>2. PICK k, pos : Referred(s, k, pos)
  BY <1>1, ReferredIs
<1>3. /\ k = Cardinality(Places(r)) /\ k \in Nat /\ pos[k][n] = {}
      /\ \A d \in 0 .. k : /\ pos[d] \in [Places(r) -> SUBSET Int]
                           /\ pos[d] = IF d = 0 THEN NoReference(s) ELSE OneReference(s, pos[d - 1])
  BY <1>2 DEF Referred
<1>4. PICK f : f = [d \in 0 .. k |-> {m \in Places(r) : pos[d][m] = {}}]
  OBVIOUS
<1>5. \A d \in 0 .. k, m \in Places(r) : m \in f[d] <=> pos[d][m] = {}
  BY <1>4
<1>6. \A m \in Places(r) : m \in f[0] <=> s.node[m].from_name # NoName
  <2>1. 0 \in 0 .. k
    BY <1>3
  <2>2. pos[0] = NoReference(s)
    BY <1>3, <2>1
  <2> QED
    BY <1>5, <2>1, <2>2 DEF NoReference
<1>7. ASSUME NEW d \in 0 .. k - 1, NEW m \in Places(r)
      PROVE  m \in f[d + 1] <=> /\ s.node[m].from_name # NoName
                                /\ Has(s, s.nodes, s.node[m].from_name) =>
                                     Lookup(s, s.node[m].from_name) \in f[d]
  <2>1. d \in 0 .. k /\ d + 1 \in 0 .. k /\ d + 1 # 0 /\ (d + 1) - 1 = d
    BY <1>3
  <2>2. pos[d + 1] = OneReference(s, pos[d])
    BY <1>3, <2>1
  <2>3. pos[d + 1][m] = IF s.node[m].from_name = NoName THEN {Own(s, m)}
                        ELSE IF ~Has(s, s.nodes, s.node[m].from_name) THEN {}
                        ELSE {Own(s, m) + x : x \in pos[d][Lookup(s, s.node[m].from_name)]}
    BY <2>2 DEF OneReference
  <2>4. ASSUME Has(s, s.nodes, s.node[m].from_name)
        PROVE  Lookup(s, s.node[m].from_name) \in Places(r)
    BY <1>1, <2>4, LookupIs
  <2>5. CASE s.node[m].from_name = NoName
    BY <1>5, <2>1, <2>3, <2>5
  <2>6. CASE s.node[m].from_name # NoName /\ ~Has(s, s.nodes, s.node[m].from_name)
    BY <1>5, <2>1, <2>3, <2>6
  <2>7. CASE s.node[m].from_name # NoName /\ Has(s, s.nodes, s.node[m].from_name)
    <3>1. PICK y \in Places(r) : y = Lookup(s, s.node[m].from_name)
      BY <2>4, <2>7
    <3>2. pos[d + 1][m] = {Own(s, m) + x : x \in pos[d][y]}
      BY <2>3, <2>7, <3>1
    <3>3. pos[d + 1][m] = {} <=> pos[d][y] = {}
      BY <3>2
    <3> QED
      BY <1>5, <2>1, <2>7, <3>1, <3>3
  <2> QED
    BY <2>5, <2>6, <2>7
<1>8. \A d \in 0 .. k : f[d] \subseteq Places(r)
  BY <1>4
<1>9. \A d \in 0 .. k - 1 : f[d + 1] \subseteq f[d]
  <2>1. PICK T : T = {d \in Nat : d <= k - 1 => f[d + 1] \subseteq f[d]}
    OBVIOUS
  <2>2. 0 \in T
    <3> SUFFICES ASSUME 0 <= k - 1
                 PROVE  f[0 + 1] \subseteq f[0]
      BY <2>1
    <3>1. 0 \in 0 .. k - 1 /\ 0 + 1 \in 0 .. k
      BY <1>3
    <3>2. f[0 + 1] \subseteq Places(r)
      BY <1>8, <3>1
    <3> QED
      BY <1>6, <1>7, <3>1, <3>2
  <2>3. ASSUME NEW d \in Nat, d \in T
        PROVE  d + 1 \in T
    <3> SUFFICES ASSUME d + 1 <= k - 1
                 PROVE  f[(d + 1) + 1] \subseteq f[d + 1]
      BY <2>1
    <3>1. d \in 0 .. k - 1 /\ d + 1 \in 0 .. k - 1 /\ (d + 1) + 1 \in 0 .. k
      BY <1>3
    <3>2. f[d + 1] \subseteq f[d]
      BY <2>1, <2>3, <3>1
    <3>3. f[(d + 1) + 1] \subseteq Places(r)
      BY <1>8, <3>1
    <3>4. PICK h \in 0 .. k - 1 : h = d + 1
      BY <3>1
    <3>5. ASSUME NEW m \in Places(r), m \in f[h + 1]
          PROVE  m \in f[d + 1]
      <4>1. /\ s.node[m].from_name # NoName
            /\ Has(s, s.nodes, s.node[m].from_name) => Lookup(s, s.node[m].from_name) \in f[h]
        BY <1>7, <3>5
      <4>2. Has(s, s.nodes, s.node[m].from_name) => Lookup(s, s.node[m].from_name) \in f[d]
        BY <3>2, <3>4, <4>1
      <4> QED
        BY <1>7, <3>1, <4>1, <4>2
    <3> QED
      BY <3>3, <3>4, <3>5
  <2>4. Nat \subseteq T
    BY <2>2, <2>3, SetInduction
  <2> QED
    BY <1>3, <2>1, <2>4
<1>10. PICK d \in 0 .. k - 1 : f[d + 1] = f[d] /\ f[d] # {}
  <2>1. IsFiniteSet(Places(r))
    BY <1>1
  <2>2. k \in 0 .. k
    BY <1>3
  <2>3. f[k] # {}
    BY <1>3, <1>5, <2>2
  <2>4. k = Cardinality(Places(r)) /\ k \in Nat
    BY <1>3
  <2> QED
    BY ONLY <1>8, <1>9, <2>1, <2>3, <2>4, Shrinking
<1>11. PICK L : L = f[d]
  OBVIOUS
<1>12. L \in SUBSET Nodes(s) /\ L # {}
  <2>1. d \in 0 .. k
    BY <1>3
  <2> QED
    BY <1>1, <1>8, <1>10, <1>11, <2>1
<1>13. ASSUME NEW m \in L
       PROVE  /\ s.node[m].from_name # NoName
              /\ \A x \in Nodes(s) : s.node[x].elem = s.node[m].from_name[1] => x \in L
  <2>1. m \in Places(r) /\ m \in f[d + 1]
    BY <1>1, <1>10, <1>11, <1>12
  <2>2. /\ s.node[m].from_name # NoName
        /\ Has(s, s.nodes, s.node[m].from_name) => Lookup(s, s.node[m].from_name) \in L
    BY <1>7, <1>11, <2>1
  <2>3. PICK e \in Element : s.node[m].from_name = <<e, 1>>
    BY <2>1, <2>2 DEF Refers, Tied
  <2>4. ASSUME NEW x \in Places(r), s.node[x].elem = e
        PROVE  x \in L
    BY <2>2, <2>3, <2>4, HolderIs
  <2>5. s.node[m].from_name[1] = e
    BY <2>3
  <2> QED
    BY <1>1, <2>2, <2>4, <2>5
<1> QED
  BY <1>12, <1>13 DEF Lost

LEMMA UnresolvedIs ==
  ASSUME NEW s, NEW r, NEW p, Whole(s, r, p), DOMAIN s.node = Places(r), Refers(s), ~Resolved(s)
  PROVE  \E L : Lost(s, L)
<1>1. Nodes(s) = Places(r)
  BY WholeIs
<1>2. PICK n \in Places(r) : Declared(s)[n] = {}
  BY <1>1 DEF Resolved
<1> QED
  BY <1>2, LosingIs

(***************************************************************************)
(* w has the nodes A of s, and perhaps more, B, each placed from where one *)
(* of s is: what is lost in w was lost in s.                               *)
(***************************************************************************)
Grown(s, A, w, B) ==
  /\ A = Nodes(s) /\ B = Nodes(w) /\ A \subseteq B
  /\ \A x \in A : w.node[x].elem = s.node[x].elem /\ w.node[x].from_name = s.node[x].from_name
  /\ \A x \in B : \E y \in A : w.node[x].from_name = s.node[y].from_name

LEMMA LostBefore ==
  ASSUME NEW s, NEW A, NEW w, NEW B, Grown(s, A, w, B), NEW L, Lost(w, L)
  PROVE  \E K : Lost(s, K)
<1> USE DEF Grown
<1>1. /\ L \subseteq B /\ L # {}
      /\ \A x \in L : /\ w.node[x].from_name # NoName
                      /\ \A m \in B : w.node[m].elem = w.node[x].from_name[1] => m \in L
  BY DEF Lost
<1>2. PICK K : K = {y \in A : \E x \in L : w.node[x].from_name = s.node[y].from_name}
  OBVIOUS
<1>3. K \subseteq A
  BY <1>2
<1>4. K # {}
  <2>1. PICK x \in L : x \in B
    BY <1>1
  <2>2. PICK y \in A : w.node[x].from_name = s.node[y].from_name
    BY <2>1
  <2> QED
    BY <1>2, <2>2
<1>5. ASSUME NEW y \in K
      PROVE  /\ s.node[y].from_name # NoName
             /\ \A m \in A : s.node[m].elem = s.node[y].from_name[1] => m \in K
  <2>1. PICK x \in L : w.node[x].from_name = s.node[y].from_name
    BY <1>2
  <2>2. s.node[y].from_name # NoName
    BY <1>1, <2>1
  <2>3. ASSUME NEW m \in A, s.node[m].elem = s.node[y].from_name[1]
        PROVE  m \in K
    <3>1. m \in B /\ w.node[m].elem = w.node[x].from_name[1]
      BY <2>1, <2>3
    <3>2. m \in L
      BY <1>1, <3>1
    <3>3. w.node[m].from_name = s.node[m].from_name
      OBVIOUS
    <3> QED
      BY <1>2, <3>2, <3>3
  <2> QED
    BY <2>2, <2>3
<1> QED
  BY <1>3, <1>4, <1>5 DEF Lost

LEMMA WoundRefers ==
  ASSUME NEW s, NEW r, Closed(s, r), NEW v, NEW q, NEW j, Wound(s, r, v, q, j), NEW x \in Places(q)
  PROVE  \E y \in Places(r) : v.node[x].from_name = s.node[y].from_name
<1>1. PICK i \in 1 .. Len(q) : x = q[i]
  BY DEF Places
<1>2. j \in 1 .. Len(r) /\ AsPlaced(s, IF i <= Len(r) THEN Turned(r, j)[i] ELSE r[j], v, q[i])
  BY DEF Wound
<1>3. Len(r) \in Nat /\ Len(q) \in Nat
  BY DEF Closed, Wound
<1>4. PICK z : z = Turned(r, j)
  OBVIOUS
<1>5. Len(z) = Len(r) /\ Places(z) = Places(r)
  BY <1>2, <1>4, TurnedIs
<1>6. CASE i <= Len(r)
  <2>1. i \in 1 .. Len(z)
    BY <1>3, <1>5, <1>6
  <2>2. z[i] \in Places(r)
    BY <1>5, <2>1, InPlaces
  <2>3. v.node[x].from_name = s.node[z[i]].from_name
    BY <1>1, <1>2, <1>4, <1>6 DEF AsPlaced
  <2> QED
    BY <2>2, <2>3
<1>7. CASE ~(i <= Len(r))
  <2>1. r[j] \in Places(r)
    BY <1>2, InPlaces
  <2>2. v.node[x].from_name = s.node[r[j]].from_name
    BY <1>1, <1>2, <1>7 DEF AsPlaced
  <2> QED
    BY <2>1, <2>2
<1> QED
  BY <1>6, <1>7

(***************************************************************************)
(* CYCLE, before it computes the places.                                   *)
(***************************************************************************)
LEMMA CycledRefers ==
  ASSUME NEW s, NEW r, NEW p, Sound(s, r, p), Refers(s), OwnNamed(s, r),
         NEW m \in Marker, Has(s, s.nodes, <<m, 1>>), NEW w, w = Cycled(s, m)
  PROVE  \E q : /\ Whole(w, q, p) /\ DOMAIN w.node = Places(q) /\ Refers(w) /\ Places(r) \subseteq Places(q)
                /\ \A x \in Places(r) : /\ w.node[x].elem = s.node[x].elem
                                        /\ w.node[x].from_name = s.node[x].from_name
                /\ \A x \in Places(q) : \E y \in Places(r) : w.node[x].from_name = s.node[y].from_name
<1>1. Whole(s, r, p) /\ DOMAIN s.node = Places(r) /\ Closed(s, r)
  BY WholeIs DEF Sound
<1>2. PICK v, q, j : w = Wrapped(v) /\ TurnedTo(s, r, p, v, q) /\ Wound(s, r, v, q, j)
  BY <1>1, TurnedToIs
<1>3. /\ Whole(v, q, p) /\ DOMAIN v.node = Places(q) /\ Places(r) \subseteq Places(q)
      /\ \A x \in Places(r) : v.node[x].elem = s.node[x].elem /\ v.node[x].from_name = s.node[x].from_name
  BY <1>2 DEF TurnedTo
<1>4. \A x \in Places(q) : \E y \in Places(r) : v.node[x].from_name = s.node[y].from_name
  BY <1>1, <1>2, WoundRefers
<1>5. Whole(w, q, p) /\ Same(v, w)
  BY ONLY <1>2, <1>3, WrappedIs
<1>6. /\ DOMAIN w.node = Places(q)
      /\ \A x \in Places(q) : w.node[x].elem = v.node[x].elem /\ w.node[x].from_name = v.node[x].from_name
  BY <1>3, <1>5 DEF Same
<1>7. \A x \in Places(q) : \E y \in Places(r) : w.node[x].from_name = s.node[y].from_name
  BY <1>4, <1>6
<1>8. Refers(w)
  BY <1>1, <1>6, <1>7 DEF Refers, Tied
<1> QED
  BY <1>3, <1>5, <1>6, <1>7, <1>8

LEMMA CycleLoses ==
  ASSUME NEW s, NEW r, NEW p, Sound(s, r, p), Refers(s), OwnNamed(s, r),
         NEW m \in Marker, Has(s, s.nodes, <<m, 1>>), ~Resolved(Cycled(s, m))
  PROVE  \E L : Lost(s, L)
<1>1. PICK w : w = Cycled(s, m)
  OBVIOUS
<1>2. PICK q : /\ Whole(w, q, p) /\ DOMAIN w.node = Places(q) /\ Refers(w) /\ Places(r) \subseteq Places(q)
               /\ \A x \in Places(r) : /\ w.node[x].elem = s.node[x].elem
                                       /\ w.node[x].from_name = s.node[x].from_name
               /\ \A x \in Places(q) : \E y \in Places(r) : w.node[x].from_name = s.node[y].from_name
  BY <1>1, CycledRefers
<1>3. PICK L : Lost(w, L)
  BY <1>1, <1>2, UnresolvedIs
<1>4. Places(r) = Nodes(s) /\ Places(q) = Nodes(w)
  BY <1>2, WholeIs DEF Sound
<1>5. Grown(s, Places(r), w, Places(q))
  BY <1>2, <1>4 DEF Grown
<1> QED
  BY <1>3, <1>5, LostBefore

LEMMA ResequencedRefers ==
  ASSUME NEW s, NEW r, NEW p, Sound(s, r, p), Refers(s), NEW w, w = Resequenced(s)
  PROVE  /\ Whole(w, r, p) /\ DOMAIN w.node = Places(r) /\ Refers(w)
         /\ \A x \in Places(r) : /\ w.node[x].elem = s.node[x].elem
                                 /\ w.node[x].from_name = s.node[x].from_name
<1>1. Whole(s, r, p) /\ DOMAIN s.node = Places(r)
  BY DEF Sound
<1>2. /\ Whole(w, r, p) /\ DOMAIN w.node = DOMAIN s.node
      /\ \A m \in DOMAIN s.node : /\ w.node[m].elem = s.node[m].elem
                                  /\ w.node[m].from_name = s.node[m].from_name
  BY ONLY <1>1, w = Resequenced(s), ResequencedIs
<1>3. Refers(w)
  BY <1>2 DEF Refers, Tied
<1> QED
  BY <1>1, <1>2, <1>3

LEMMA SeqeditLoses ==
  ASSUME NEW s, NEW r, NEW p, Sound(s, r, p), Refers(s), ~Resolved(Resequenced(s))
  PROVE  \E L : Lost(s, L)
<1>1. PICK w : w = Resequenced(s)
  OBVIOUS
<1>2. /\ Whole(w, r, p) /\ DOMAIN w.node = Places(r) /\ Refers(w)
      /\ \A x \in Places(r) : /\ w.node[x].elem = s.node[x].elem
                              /\ w.node[x].from_name = s.node[x].from_name
  BY <1>1, ResequencedRefers
<1>3. PICK L : Lost(w, L)
  BY <1>1, <1>2, UnresolvedIs
<1>4. Places(r) = Nodes(s) /\ Places(r) = Nodes(w)
  BY <1>2, WholeIs DEF Sound
<1>5. Grown(s, Places(r), w, Places(r))
  BY <1>2, <1>4 DEF Grown
<1> QED
  BY <1>3, <1>5, LostBefore

-----------------------------------------------------------------------------
(* What each command leaves refers to elements.                            *)

LEMMA KeptRefers ==
  ASSUME NEW s, NEW r, NEW p, Whole(s, r, p), NEW z, DOMAIN s.node \ Places(r) \subseteq {z},
         \A m \in Places(r) : Tied(s, m)
  PROVE  Refers(Kept(s))
<1>1. PICK k : k = Kept(s)
  OBVIOUS
<1>2. DOMAIN k.node = Places(r) /\ \A m \in Places(r) : k.node[m] = s.node[m]
  <2>1. /\ DOMAIN Kept(s).node = Places(r)
        /\ \A m \in Places(r) : Kept(s).node[m] = s.node[m]
    BY ONLY Whole(s, r, p), DOMAIN s.node \ Places(r) \subseteq {z}, KeptIs
  <2> QED
    BY <1>1, <2>1
<1> QED
  BY <1>1, <1>2 DEF Refers, Tied

LEMMA InstalledRefers ==
  ASSUME NEW s, NEW r, NEW p, Sound(s, r, p), Counted(s, r), Refers(s), NEW e \in Element, s.occ_list[e] = 0,
         NEW from \in Name, from = NoName \/ from \in Element \X {1}, NEW at \in Int, NEW pos \in Int
  PROVE  Refers(Kept(Installed(s, e, from, at, pos)))
<1>1. Whole(s, r, p) /\ DOMAIN s.node = Places(r)
  BY DEF Sound
<1>2. \A m \in Places(r) : s.node[m].elem # e
  BY Uncounted
<1>3. PICK u : u = Installed(s, e, from, at, pos)
  OBVIOUS
<1>4. PICK n, j : /\ Whole(u, InsertAt(r, j, n), p + 1) /\ Joined(s, u, r, n, j)
                  /\ DOMAIN u.node = Places(InsertAt(r, j, n)) /\ Widened(InsertAt(r, j, n), r, j, n)
                  /\ u.node[n].elem = e /\ u.node[n].from_name = from
                  /\ u.node[n].at_value = at /\ u.node[n].position = pos
                  /\ u.occ_list = [s.occ_list EXCEPT ![e] = 1]
  BY <1>1, <1>2, <1>3, InstalledIs
<1>5. PICK q : q = InsertAt(r, j, n)
  OBVIOUS
<1>6. Places(q) = Places(r) \union {n}
  <2>1. j \in 2 .. Len(r) + 1 /\ Len(r) \in Nat
    BY <1>1, <1>4, WholeIs DEF Joined
  <2>2. Widened(q, r, j, n)
    BY <1>4, <1>5
  <2> QED
    BY ONLY <2>1, <2>2, WidenedPlaces
<1>7. \A m \in Places(q) : Tied(u, m)
  <2>1. \A m \in Places(r) : u.node[m].from_name = s.node[m].from_name
    BY <1>4 DEF Joined
  <2> QED
    BY <1>1, <1>4, <1>6, <2>1 DEF Refers, Tied
<1>8. Whole(u, q, p + 1) /\ DOMAIN u.node \ Places(q) \subseteq {n}
  BY <1>4, <1>5
<1> QED
  BY <1>3, <1>7, <1>8, KeptRefers

LEMMA TakenRefers ==
  ASSUME NEW s, NEW r, NEW p, Sound(s, r, p), Counted(s, r), Refers(s),
         NEW n \in Places(r), Plain(s, n), n \notin {s.start, s.end}
  PROVE  Refers(Kept(Removed(s, n)))
<1>1. Whole(s, r, p) /\ DOMAIN s.node = Places(r)
  BY DEF Sound
<1>2. PICK h \in 2 .. Len(r) - 1 : n = r[h]
  BY <1>1, Within
<1>3. PICK e : e = s.node[n].elem
  OBVIOUS
<1>4. s.occ_list[e] = 1
  <2>1. PICK i \in 1 .. Len(r) : n = r[i]
    BY DEF Places
  <2> QED
    BY <1>3, <2>1 DEF Counted
<1>5. PICK w : w = Removed(s, n)
  OBVIOUS
<1>6. PICK q : q = RemoveAt(r, h)
  OBVIOUS
<1>7. /\ Whole(w, q, p - 1) /\ Places(q) = Places(r) \ {n} /\ DOMAIN w.node = DOMAIN s.node
      /\ \A m \in Places(q) : w.node[m].from_name = s.node[m].from_name
  <2>1. /\ Whole(w, RemoveAt(r, h), p - 1) /\ Narrowed(RemoveAt(r, h), r, h)
        /\ Places(RemoveAt(r, h)) = Places(r) \ {n} /\ DOMAIN w.node = DOMAIN s.node
        /\ w.occ_list = [s.occ_list EXCEPT ![e] = 0] /\ w.ref_flag = s.ref_flag
        /\ \A m \in Places(RemoveAt(r, h)) : /\ s.node[m].elem # e
                                             /\ w.node[m].name = s.node[m].name
                                             /\ w.node[m].elem = s.node[m].elem
                                             /\ w.node[m].from_name = s.node[m].from_name
                                             /\ w.node[m].position = s.node[m].position
                                             /\ w.node[m].at_value = s.node[m].at_value
    BY ONLY <1>1, <1>2, <1>3, <1>4, <1>5, Plain(s, n), RemovedIs
  <2> QED
    BY <1>6, <2>1
<1>8. DOMAIN w.node \ Places(q) \subseteq {n}
  BY <1>1, <1>7
<1>9. \A m \in Places(q) : Tied(w, m)
  BY <1>1, <1>7 DEF Refers, Tied
<1> QED
  BY <1>5, <1>7, <1>8, <1>9, KeptRefers

LEMMA MovedRefers ==
  ASSUME NEW s, NEW r, NEW p, Sound(s, r, p), Counted(s, r), Refers(s),
         NEW n \in Places(r), Plain(s, n), n \notin {s.start, s.end}, s.node[n].elem \in Element,
         NEW to \in Int
  PROVE  Refers(Kept(Moved(s, n, to)))
<1>1. PICK k : k = Kept(Removed(s, n))
  OBVIOUS
<1>2. PICK e \in Element : e = s.node[n].elem
  OBVIOUS
<1>3. PICK q : Sound(k, q, p - 1) /\ Counted(k, q) /\ k.occ_list = [s.occ_list EXCEPT ![e] = 0]
  BY <1>1, <1>2, TakenIs
<1>4. Refers(k)
  BY <1>1, TakenRefers
<1>5. k.occ_list[e] = 0
  <2>1. s.occ_list \in [Known -> Nat] /\ e \in Known
    BY KnownIs DEF Sound, Whole, Shaped
  <2> QED
    BY <1>3, <2>1
<1>6. s.occ_list[e] = 1
  <2>1. PICK i \in 1 .. Len(r) : n = r[i]
    BY DEF Places
  <2> QED
    BY <1>2, <2>1 DEF Counted
<1>7. Moved(s, n, to) = Installed(k, e, NoName, to, to)
  BY <1>1, <1>2, <1>6 DEF Moved
<1>8. NoName \in Name
  BY DEF NoName, Name
<1>9. Refers(Kept(Installed(k, e, NoName, to, to)))
  BY ONLY <1>3, <1>4, <1>5, <1>8, e \in Element, to \in Int, InstalledRefers
<1> QED
  BY <1>7, <1>9

LEMMA ReplacedRefers ==
  ASSUME NEW s, NEW r, NEW p, Sound(s, r, p), Counted(s, r), Refers(s),
         NEW n \in Places(r), Plain(s, n), n \notin {s.start, s.end}, NEW e \in Element, s.occ_list[e] = 0
  PROVE  Refers(Kept(Replaced(s, n, e)))
<1>1. Whole(s, r, p) /\ DOMAIN s.node = Places(r)
  BY DEF Sound
<1>2. PICK h \in 2 .. Len(r) - 1 : n = r[h]
  BY <1>1, Within
<1>3. \A m \in Places(r) : s.node[m].elem # e
  BY Uncounted
<1>4. PICK w : w = Replaced(s, n, e)
  OBVIOUS
<1>5. Whole(w, r, p) /\ Exchanged(s, w, n, e)
  BY ONLY <1>1, <1>2, <1>3, <1>4, Plain(s, n), e \in Element, s.occ_list[e] = 0, ReplacedIs
<1>6. DOMAIN w.node = Places(r) /\ \A m \in Places(r) : Tied(w, m)
  BY <1>1, <1>5 DEF Exchanged, Refers, Tied
<1>7. DOMAIN w.node \ Places(r) \subseteq {n}
  BY <1>6
<1> QED
  BY <1>4, <1>5, <1>6, <1>7, KeptRefers

LEMMA PositionedRefers ==
  ASSUME NEW s, NEW r, NEW p, Whole(s, r, p), DOMAIN s.node = Places(r), Refers(s), Resolved(s),
         NEW w, w = Positioned(s)
  PROVE  Whole(w, r, p) /\ DOMAIN w.node = Places(r) /\ Refers(w)
<1>1. Whole(w, r, p) /\ Same(s, w)
  BY ONLY Whole(s, r, p), Resolved(s), w = Positioned(s), PositionedIs
<1> QED
  BY <1>1 DEF Same, Refers, Tied

LEMMA UnrangedRefers ==
  ASSUME NEW s, NEW r, NEW p, Whole(s, r, p), DOMAIN s.node = Places(r), Refers(s)
  PROVE  Refers(Kept([s EXCEPT !.ranges = <<>>]))
<1>1. PICK w : w = [s EXCEPT !.ranges = <<>>]
  OBVIOUS
<1>2. Whole(w, r, p) /\ w.node = s.node
  BY ONLY Whole(s, r, p), <1>1, UnrangedIs
<1>3. \A m \in Places(r) : Tied(w, m)
  BY <1>2 DEF Refers, Tied
<1>4. DOMAIN w.node \ Places(r) \subseteq {1}
  BY <1>2
<1> QED
  BY <1>1, <1>2, <1>3, <1>4, KeptRefers

(***************************************************************************)
(* FLATTEN and REFLECT place all nodes from the start.                     *)
(***************************************************************************)
LEMMA FlattenRefers ==
  ASSUME NEW s, NEW r, NEW p, Sound(s, r, p), Resolved(s)
  PROVE  Refers(Kept(Flattened(s)))
<1>1. Whole(s, r, p)
  BY DEF Sound
<1>2. PICK w : w = Flattened(s)
  OBVIOUS
<1>3. PICK x : /\ Whole(w, r, x) /\ DOMAIN w.node = Places(r)
               /\ \A m \in Places(r) : w.node[m].from_name = NoName
  BY ONLY <1>1, <1>2, Resolved(s), FlattenedIs
<1>4. DOMAIN w.node \ Places(r) \subseteq {1} /\ \A m \in Places(r) : Tied(w, m)
  BY <1>3 DEF Tied
<1> QED
  BY <1>2, <1>3, <1>4, KeptRefers

LEMMA ReflectRefers ==
  ASSUME NEW s, NEW r, NEW p, Sound(s, r, p), OwnNamed(s, r)
  PROVE  Refers(Kept(Reflected(s)))
<1>1. Whole(s, r, p) /\ DOMAIN s.node = Places(r)
  BY DEF Sound
<1>2. PICK w : w = Reflected(s)
  OBVIOUS
<1>3. PICK q : q = Reversed(r)
  OBVIOUS
<1>4. /\ Whole(w, q, p) /\ Places(q) = Places(r) /\ DOMAIN w.node = DOMAIN s.node
      /\ \A m \in Places(r) : w.node[m].from_name = NoName
  <2>1. /\ Whole(w, Reversed(r), p) /\ Places(Reversed(r)) = Places(r) /\ DOMAIN w.node = DOMAIN s.node
        /\ \A m \in Places(r) : w.node[m].from_name = NoName
    BY ONLY <1>1, <1>2, OwnNamed(s, r), ReflectedIs
  <2> QED
    BY <1>3, <2>1
<1>5. DOMAIN w.node \ Places(q) \subseteq {1} /\ \A m \in Places(q) : Tied(w, m)
  BY <1>1, <1>4 DEF Tied
<1> QED
  BY <1>2, <1>4, <1>5, KeptRefers

-----------------------------------------------------------------------------
(* The program stops over nodes without a place.                           *)

Stopping == fatal => \E L : Lost(ed, L)

LEMMA StoppingHolds ==
  ASSUME Stopping
  PROVE  Stopped
<1> SUFFICES ASSUME fatal
             PROVE  Stopped
  BY DEF Stopped
<1>1. PICK L : Lost(ed, L)
  BY DEF Stopping
<1>2. L \in (SUBSET Nodes(ed)) \ {{}}
  BY <1>1 DEF Lost
<1>3. \A n \in L : LET ref == ed.node[n].from_name
                       found == {m \in Nodes(ed) : ed.node[m].elem = ref[1]}
                   IN  ref # NoName /\ found \subseteq L
  BY <1>1 DEF Lost
<1> QED
  BY <1>2, <1>3 DEF Stopped

LEMMA RefersInit ==
  ASSUME ByName, Init
  PROVE  Refers(ed) /\ Stopping
<1>1. PICK q \in Initial : ed = Defined(q)
  BY DEF Init
<1>2. Apart(q.elems)
  BY DEF ByName
<1>3. PICK r, p : /\ Whole(ed, r, p) /\ DOMAIN ed.node = Places(r)
                  /\ ed.ref_flag = q.ref_flag /\ Len(r) = Len(q.at) + 2
                  /\ \A i \in 1 .. Len(r) : /\ ed.node[r[i]].from_name = NoName
                                            /\ ed.node[r[i]].at_value = Entered(q)[i]
  BY <1>1, <1>2, DefinedIs
<1>4. Refers(ed)
  BY <1>3 DEF Refers, Tied, Places
<1> QED
  BY <1>4 DEF Init, Stopping

(***************************************************************************)
(* A command that edits, or stops the program where nodes are lost.        *)
(***************************************************************************)
LEMMA EditRefers ==
  ASSUME NEW s, ~fatal, Edits(s), Refers(Kept(s))
  PROVE  Refers(ed') /\ Stopping'
  BY DEF Edits, Stopping

LEMMA EditIfRefers ==
  ASSUME NEW s, NEW b \in BOOLEAN, Refers(ed), ~fatal, EditsIf(b, Edits(s)),
         b => Refers(Kept(s)), ~b => \E L : Lost(ed, L)
  PROVE  Refers(ed') /\ Stopping'
<1>1. CASE b /\ Edits(s)
  BY <1>1, EditRefers
<1>2. CASE ~b /\ UNCHANGED ed
  BY <1>2 DEF Stopping
<1> QED
  BY <1>1, <1>2 DEF EditsIf

LEMMA RefersEditOne ==
  ASSUME ByName, Tidy, Refers(ed), EditOne
  PROVE  Refers(ed') /\ Stopping'
<1>1. edit_is_on /\ ~fatal
  BY DEF EditOne, Install, InstallFrom, MoveTo, MoveBy, RemoveNamed, ReplaceNamed, Command
<1>2. PICK r, p : Sound(ed, r, p) /\ Counted(ed, r)
  BY <1>1 DEF Tidy, Standing
<1>3. Whole(ed, r, p) /\ DOMAIN ed.node = Places(r) /\ Shaped(ed) /\ Labelled(ed, r)
  BY <1>2 DEF Sound, Whole
<1>4. \A e : MayAdd(e) => ed.occ_list[e] = 0
  BY DEF MayAdd, ByName
<1>5. ASSUME NEW e \in Element, NEW at \in 0 .. Length, Install(e, at)
      PROVE  Refers(ed') /\ Stopping'
  <2>1. ed.occ_list[e] = 0 /\ Edits(Installed(ed, e, NoName, at, at))
    BY <1>4, <1>5 DEF Install
  <2>2. NoName \in Name /\ at \in Int
    BY DEF NoName, Name
  <2>3. Refers(Kept(Installed(ed, e, NoName, at, at)))
    BY <1>2, <2>1, <2>2, InstalledRefers
  <2> QED
    BY <1>1, <2>1, <2>3, EditRefers
<1>6. ASSUME NEW e \in Element, NEW x \in Names, NEW d \in Shift, InstallFrom(e, x, d)
      PROVE  Refers(ed') /\ Stopping'
  <2>1. PICK n : n = Lookup(ed, x)
    OBVIOUS
  <2>2. PICK pos : pos = d + Where(ed, n)
    OBVIOUS
  <2>3. /\ ed.occ_list[e] = 0 /\ UserName(x)
        /\ EditsIf(Declared(ed)[n] # {}, Inside(pos) /\ Edits(Installed(ed, e, x, d, pos)))
    BY <1>4, <1>6, <2>1, <2>2 DEF InstallFrom
  <2>4. x[1] \in Element /\ Has(ed, ed.nodes, x)
    BY <2>3 DEF UserName
  <2>5. n \in Places(r) /\ Plain(ed, n) /\ ed.node[n].name = x /\ ed.node[n].elem \in Element
    BY ONLY <1>3, <2>1, <2>4, NodeOfName
  <2>6. x \in Element \X {1}
    <3>1. PICK i \in 1 .. Len(r) : n = r[i]
      BY <2>5 DEF Places
    <3>2. ed.node[n].name = <<ed.node[n].elem, 1>>
      BY <1>3, <2>5, <3>1 DEF Labelled
    <3> QED
      BY <2>5, <3>2
  <2>7. CASE Declared(ed)[n] # {} /\ Inside(pos) /\ Edits(Installed(ed, e, x, d, pos))
    <3>1. x \in Name /\ d \in Int /\ pos \in Int
      <4>1. ed.node[n].name \in Name
        BY <1>3, <2>5, NodeIs
      <4> QED
        BY <2>5, <2>7, <4>1, SequenceEditAssumption DEF Inside
    <3>2. Refers(Kept(Installed(ed, e, x, d, pos)))
      BY <1>2, <2>3, <2>6, <3>1, InstalledRefers
    <3> QED
      BY <1>1, <2>7, <3>2, EditRefers
  <2>8. CASE Declared(ed)[n] = {} /\ UNCHANGED ed
    <3>1. \E L : Lost(ed, L)
      BY <1>3, <2>5, <2>8, LosingIs
    <3> QED
      BY <2>8, <3>1 DEF Stopping
  <2> QED
    BY <2>3, <2>7, <2>8 DEF EditsIf
<1>7. ASSUME NEW x, NEW to, MoveTo(x, to)
      PROVE  Refers(ed') /\ Stopping'
  <2>1. PICK n : n = Lookup(ed, x)
    OBVIOUS
  <2>2. UserName(x) /\ n \notin {ed.start, ed.end} /\ to \in Int /\ Edits(Moved(ed, n, to))
    BY <1>7, <2>1 DEF MoveTo, Loose, Inside
  <2>3. n \in Places(r) /\ Plain(ed, n) /\ ed.node[n].elem \in Element
    BY <1>2, <2>1, <2>2, NamedNode
  <2>4. Refers(Kept(Moved(ed, n, to)))
    BY <1>2, <2>2, <2>3, MovedRefers
  <2> QED
    BY <1>1, <2>2, <2>4, EditRefers
<1>8. ASSUME NEW x, RemoveNamed(x)
      PROVE  Refers(ed') /\ Stopping'
  <2>1. PICK n : n = Lookup(ed, x)
    OBVIOUS
  <2>2. UserName(x) /\ n \notin {ed.start, ed.end} /\ Edits(Removed(ed, n))
    BY <1>8, <2>1 DEF RemoveNamed, Loose
  <2>3. n \in Places(r) /\ Plain(ed, n)
    BY <1>2, <2>1, <2>2, NamedNode
  <2>4. Refers(Kept(Removed(ed, n)))
    BY <1>2, <2>2, <2>3, TakenRefers
  <2> QED
    BY <1>1, <2>2, <2>4, EditRefers
<1>9. ASSUME NEW x, NEW e \in Element, ReplaceNamed(x, e)
      PROVE  Refers(ed') /\ Stopping'
  <2>1. PICK n : n = Lookup(ed, x)
    OBVIOUS
  <2>2. /\ UserName(x) /\ n \notin {ed.start, ed.end} /\ ed.occ_list[e] = 0
        /\ Edits(Replaced(ed, n, e))
    BY <1>4, <1>9, <2>1 DEF ReplaceNamed, Loose
  <2>3. n \in Places(r) /\ Plain(ed, n)
    BY <1>2, <2>1, <2>2, NamedNode
  <2>4. Refers(Kept(Replaced(ed, n, e)))
    BY <1>2, <2>2, <2>3, ReplacedRefers
  <2> QED
    BY <1>1, <2>2, <2>4, EditRefers
<1> QED
  BY <1>5, <1>6, <1>7, <1>8, <1>9 DEF EditOne, MoveBy

LEMMA RefersEditAll ==
  ASSUME ByName, Tidy, Refers(ed), EditAll
  PROVE  Refers(ed') /\ Stopping'
<1>1. PICK r, p : Sound(ed, r, p)
  BY DEF Tidy, Standing
<1>2. Whole(ed, r, p) /\ DOMAIN ed.node = Places(r)
  BY <1>1 DEF Sound
<1>3. ASSUME OwnNames
      PROVE  OwnNamed(ed, r)
  <2>1. Nodes(ed) = Places(r)
    BY <1>2, WholeIs
  <2>2. \A n \in Nodes(ed) : IsPMark(ed.node[n].elem) => IsPMark(ed.node[n].name[1])
    BY <1>3 DEF OwnNames, ByName
  <2> QED
    BY <2>1, <2>2 DEF OwnNamed, Plain
<1>4. ASSUME Seqedit
      PROVE  Refers(ed') /\ Stopping'
  <2>1. PICK w : w = Resequenced(ed)
    OBVIOUS
  <2>2. Whole(w, r, p) /\ DOMAIN w.node = Places(r) /\ Refers(w)
    BY <1>1, <2>1, ResequencedRefers
  <2>3. CASE Resolved(w)
    <3>1. ed' = Positioned(w) /\ ~fatal'
      BY <1>4, <2>1, <2>3 DEF Seqedit
    <3>2. Refers(Positioned(w))
      BY <2>2, <2>3, PositionedRefers
    <3> QED
      BY <3>1, <3>2 DEF Stopping
  <2>4. CASE ~Resolved(w)
    <3>1. UNCHANGED ed
      BY <1>4, <2>1, <2>4 DEF Seqedit
    <3>2. \E L : Lost(ed, L)
      BY <1>1, <2>1, <2>4, SeqeditLoses
    <3> QED
      BY <3>1, <3>2 DEF Stopping
  <2> QED
    BY <2>3, <2>4
<1>5. ASSUME Endedit
      PROVE  Refers(ed') /\ Stopping'
  <2>1. PICK w : w = Resequenced(ed)
    OBVIOUS
  <2>2. Whole(w, r, p) /\ DOMAIN w.node = Places(r) /\ Refers(w)
    BY <1>1, <2>1, ResequencedRefers
  <2>3. ed' = Kept([w EXCEPT !.ranges = <<>>]) /\ ~fatal'
    BY <1>5, <2>1 DEF Endedit, Command
  <2>4. Refers(Kept([w EXCEPT !.ranges = <<>>]))
    BY <2>2, UnrangedRefers
  <2> QED
    BY <2>3, <2>4 DEF Stopping
<1>6. ASSUME Flatten
      PROVE  Refers(ed') /\ Stopping'
  <2>1. ~fatal /\ EditsIf(Resolved(ed), Edits(Flattened(ed)))
    BY <1>6 DEF Flatten, Command
  <2>2. Resolved(ed) => Refers(Kept(Flattened(ed)))
    BY <1>1, FlattenRefers
  <2>3. ~Resolved(ed) => \E L : Lost(ed, L)
    BY <1>2, UnresolvedIs
  <2>4. Resolved(ed) \in BOOLEAN
    BY DEF Resolved
  <2> QED
    BY <2>1, <2>2, <2>3, <2>4, EditIfRefers
<1>7. ASSUME Reflect
      PROVE  Refers(ed') /\ Stopping'
  <2>1. ~fatal /\ OwnNames /\ Edits(Reflected(ed))
    BY <1>7 DEF Reflect, Command
  <2>2. Refers(Kept(Reflected(ed)))
    BY <1>1, <1>3, <2>1, ReflectRefers
  <2> QED
    BY <2>1, <2>2, EditRefers
<1>8. ASSUME NEW m \in Marker, Cycle(m)
      PROVE  Refers(ed') /\ Stopping'
  <2>1. PICK s : s = Cycled(ed, m)
    OBVIOUS
  <2>2. /\ ~fatal /\ OwnNames /\ Has(ed, ed.nodes, <<m, 1>>)
        /\ EditsIf(Resolved(s), Edits(Positioned(s)))
    BY <1>8, <2>1 DEF Cycle, Command
  <2>3. ASSUME Resolved(s)
        PROVE  Refers(Kept(Positioned(s)))
    <3>1. PICK q : Whole(s, q, p) /\ DOMAIN s.node = Places(q) /\ Refers(s)
      BY <1>1, <1>3, <2>1, <2>2, CycledRefers
    <3>2. PICK x : x = Positioned(s)
      OBVIOUS
    <3>3. Whole(x, q, p) /\ DOMAIN x.node = Places(q) /\ Refers(x)
      BY <2>3, <3>1, <3>2, PositionedRefers
    <3>4. DOMAIN x.node \ Places(q) \subseteq {1} /\ \A n \in Places(q) : Tied(x, n)
      BY <3>3 DEF Refers
    <3> QED
      BY <3>2, <3>3, <3>4, KeptRefers
  <2>4. ~Resolved(s) => \E L : Lost(ed, L)
    BY <1>1, <1>3, <2>1, <2>2, CycleLoses
  <2>5. Resolved(s) \in BOOLEAN
    BY DEF Resolved
  <2> QED
    BY <2>2, <2>3, <2>4, <2>5, EditIfRefers
<1> QED
  BY <1>4, <1>5, <1>6, <1>7, <1>8 DEF EditAll

LEMMA RefersNext ==
  ASSUME ByName, Tidy, Refers(ed), Stopping, [Next]_vars
  PROVE  Refers(ed') /\ Stopping'
<1>1. CASE EditOne
  BY <1>1, RefersEditOne
<1>2. CASE EditAll
  BY <1>2, RefersEditAll
<1>3. ~EditSelected
  BY DEF ByName, Selecting, EditSelected, InstallAtSelected, MoveTheSelected, RemoveTheSelected,
         ReplaceTheSelected, Command
<1>4. ASSUME NEW c \in Selects, Select(c)
      PROVE  Refers(ed') /\ Stopping'
  BY <1>4 DEF Select, Stopping
<1>5. CASE SelectClear
  <2>1. ed' = Kept([ed EXCEPT !.ranges = <<>>]) /\ ~fatal'
    BY <1>5 DEF SelectClear
  <2>2. PICK r, p : Whole(ed, r, p) /\ DOMAIN ed.node = Places(r)
    BY DEF Tidy, Standing, Sound
  <2>3. Refers(Kept([ed EXCEPT !.ranges = <<>>]))
    BY <2>2, UnrangedRefers
  <2> QED
    BY <2>1, <2>3 DEF Stopping
<1>6. CASE UNCHANGED vars
  BY <1>6 DEF vars, Stopping
<1> QED
  BY <1>1, <1>2, <1>3, <1>4, <1>5, <1>6 DEF Next

(***************************************************************************)
(* Where the program stops in an edit, there are nodes each of which waits *)
(* for the place of another one of them, or is placed from an element that *)
(* the sequence does not have: get_node_pos stops it for no other reason.  *)
(***************************************************************************)
THEOREM EditedStopped == ASSUME ByName PROVE Spec => []Stopped
<1>1. Init => Tidy /\ Refers(ed) /\ Stopping
  BY TidyInit, RefersInit
<1>2. Tidy /\ Refers(ed) /\ Stopping /\ [Next]_vars => Tidy' /\ Refers(ed)' /\ Stopping'
  BY TidyNext, RefersNext
<1>3. Stopping => Stopped
  BY StoppingHolds
<1> QED
  BY <1>1, <1>2, <1>3, PTL DEF Spec
=============================================================================
