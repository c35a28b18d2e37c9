------------------------- MODULE InterpolationProofs -------------------------
(***************************************************************************)
(* The slices of a node, and what is left of them, for any sequences and   *)
(* ranges and any numbers of slices.                                       *)
(***************************************************************************)
EXTENDS Interpolation, Induction, FiniteSetTheorems

(***************************************************************************)
(* The ring of an expanded sequence, and its range.                        *)
(***************************************************************************)
After(s, i) == IF i = Len(Line[s]) THEN Line[s][1] ELSE Line[s][i + 1]

Ring(s) ==
  \A i \in 1..Len(Line[s]) :
    next[Line[s][i]] = After(s, i) /\ previous[After(s, i)] = Line[s][i]

Ranged(s, start, end) ==
  \E r \in Ranges[s] : start = Line[s][r.first] /\ end = Line[s][r.last]

(***************************************************************************)
(* The ring with slices in the place of the node.                          *)
(***************************************************************************)
At(j) == <<"slice", j>>

Open(s, node, n) ==
  \A i \in 1..Len(Line[s]) :
    /\ next[Line[s][i]] = IF After(s, i) = node THEN At(1) ELSE After(s, i)
    /\ previous[After(s, i)] = IF Line[s][i] = node THEN At(n) ELSE Line[s][i]

Chain(node, n) ==
  /\ \A j \in 1..(n - 1) : next[At(j)] = At(j + 1) /\ previous[At(j + 1)] = At(j)
  /\ previous[At(1)] = previous[node] /\ next[At(n)] = next[node]

Shapes ==
  /\ used \in Sequ \union {None} /\ expanded \subseteq Sequ
  /\ used # None => used \in expanded
  /\ DOMAIN next = Nodes \union Slices /\ DOMAIN previous = Nodes \union Slices
  /\ range_start \in [Sequ -> Nodes \union Slices \union {None}]
  /\ range_end \in [Sequ -> Nodes \union Slices \union {None}]
  /\ backup = None \/ backup \in [node : Nodes, nint : 1..MaxSlices, start : Nodes, end : Nodes]

Closed ==
  /\ DOMAIN made = {}
  /\ \A s \in expanded : Ring(s) /\ Ranged(s, range_start[s], range_end[s])

Sliced(node, n) ==
  /\ used # None /\ node \in ToSet(Line[used])
  /\ \A s \in expanded : Open(s, node, n)
  /\ \A s \in expanded \ {used} : Ranged(s, range_start[s], range_end[s])
  /\ Ranged(used, backup.start, backup.end)
  /\ range_start[used] = At(1) /\ range_end[used] = At(n)
  /\ Chain(node, n)
  /\ \A j \in 1..n : elem[At(j)] = Own(node, n, j)
  /\ made = Made(node, n)

(***************************************************************************)
(* After a plot that was truncated the slices are left behind, and nothing *)
(* is said of the rings.                                                   *)
(***************************************************************************)
IInv ==
  /\ Shapes /\ ~broken
  /\ backup = None => Closed
  /\ slicing => backup # None /\ Sliced(backup.node, backup.nint)

-----------------------------------------------------------------------------
(* Nodes, and a walk over them.                                            *)

LEMMA LineSeq == \A s \in Sequ : Line[s] \in Seq(Nodes)
  BY InterpolationAssumption

LEMMA LineIs ==
  ASSUME NEW s \in Sequ
  PROVE  /\ Len(Line[s]) \in Nat /\ Len(Line[s]) >= 2
         /\ ToSet(Line[s]) = {Line[s][i] : i \in 1..Len(Line[s])}
         /\ \A x \in ToSet(Line[s]) : \E i \in 1..Len(Line[s]) : Line[s][i] = x
         /\ \A i \in 1..Len(Line[s]) : Line[s][i] \in ToSet(Line[s]) /\ Line[s][i] \in Nodes
         /\ ToSet(Line[s]) \subseteq Nodes
         /\ \A i, j \in 1..Len(Line[s]) : Line[s][i] = Line[s][j] => i = j
<1>1. Len(Line[s]) >= 2 /\ IsInjective(Line[s])
  BY InterpolationAssumption
<1>2. Len(Line[s]) \in Nat /\ DOMAIN Line[s] = 1..Len(Line[s])
      /\ \A i \in 1..Len(Line[s]) : Line[s][i] \in Nodes
  <2>1. Line[s] \in Seq(Nodes)
    BY LineSeq
  <2> HIDE DEF Nodes, Sequ
  <2> QED
    BY <2>1
<1>3. ToSet(Line[s]) = {Line[s][i] : i \in 1..Len(Line[s])}
  BY <1>2 DEF ToSet
<1>4. \A i, j \in 1..Len(Line[s]) : Line[s][i] = Line[s][j] => i = j
  BY <1>1, <1>2 DEF IsInjective
<1> QED
  BY <1>1, <1>2, <1>3, <1>4

LEMMA NodesFinite == IsFiniteSet(Nodes \union Slices)
<1>1. IsFiniteSet(Slices)
  <2> DEFINE f == [j \in 1..MaxSlices |-> <<"slice", j>>]
  <2>1. IsFiniteSet(1..MaxSlices)
    BY InterpolationAssumption, FS_Interval
  <2>2. f \in Surjection(1..MaxSlices, Slices)
    BY DEF Surjection, Slices
  <2> HIDE DEF f
  <2> QED
    BY <2>1, <2>2, FS_Surjection
<1>2. ASSUME NEW s \in Sequ
      PROVE  IsFiniteSet(ToSet(Line[s]))
  <2>1. IsFiniteSet(1..Len(Line[s]))
    <3>1. Len(Line[s]) \in Int
      BY LineIs
    <3> QED
      BY <3>1, FS_Interval
  <2>2. Line[s] \in Surjection(1..Len(Line[s]), ToSet(Line[s]))
    <3>1. Line[s] = [i \in 1..Len(Line[s]) |-> Line[s][i]]
      <4>1. Line[s] \in Seq(Nodes)
        BY LineSeq
      <4> HIDE DEF Nodes, Sequ
      <4> QED
        BY <4>1
    <3>2. ToSet(Line[s]) = {Line[s][i] : i \in 1..Len(Line[s])}
      BY LineIs
    <3> QED
      BY <3>1, <3>2 DEF Surjection
  <2> QED
    BY <2>1, <2>2, FS_Surjection
<1>3. IsFiniteSet({ToSet(Line[s]) : s \in Sequ})
  <2> DEFINE f == [s \in Sequ |-> ToSet(Line[s])]
             T == {ToSet(Line[s]) : s \in Sequ}
  <2>1. IsFiniteSet(Sequ)
    BY InterpolationAssumption
  <2>2. f \in Surjection(Sequ, T)
    BY DEF Surjection
  <2> HIDE DEF f, T, Sequ
  <2>3. IsFiniteSet(T)
    BY <2>1, <2>2, FS_Surjection
  <2> QED
    BY <2>3 DEF T
<1>4. IsFiniteSet(Nodes)
  <2> DEFINE T == {ToSet(Line[s]) : s \in Sequ}
  <2>1. IsFiniteSet(T) /\ \A t \in T : IsFiniteSet(t)
    BY <1>2, <1>3
  <2>2. Nodes = UNION T
    BY DEF Nodes
  <2> HIDE DEF T
  <2> QED
    BY <2>1, <2>2, FS_UNION
<1> QED
  BY <1>1, <1>4, FS_Union

(***************************************************************************)
(* A walk, step by step, in a set that it does not leave before its end.   *)
(***************************************************************************)
WalkOf(to, a, b) ==
  LET met[k \in 0..Cardinality(DOMAIN to)] ==
        IF k = 0 THEN {a}
        ELSE LET near == met[k - 1]
             IN  near \union {to[n] : n \in near \ {b}}
  IN  met[Cardinality(DOMAIN to)]

IsWalk(met, N, L, to, a, b) ==
  /\ \A k \in 0..N : met[k] \subseteq L
  /\ met[0] = {a}
  /\ \A k \in 0..N - 1 : met[k + 1] = met[k] \union {to[n] : n \in met[k] \ {b}}

LEMMA WalkSteps ==
  ASSUME NEW to, NEW N \in Nat, N = Cardinality(DOMAIN to),
         NEW L, NEW a \in L, NEW b, \A n \in L : n # b => to[n] \in L
  PROVE  \E met : IsWalk(met, N, L, to, a, b) /\ WalkOf(to, a, b) = met[N]
<1> DEFINE More(near) == near \union {to[n] : n \in near \ {b}}
           S == SUBSET L
           z == {a}
           step == [k \in Nat |-> [near \in S |-> More(near)]]
           Def(f) == [k \in 0..N |-> IF k = 0 THEN {a} ELSE More(f[k - 1])]
           met == CHOOSE f : f = Def(f)
<1>2. PICK g : Iterates(g, S, z, step)
  <2>1. z \in S
    OBVIOUS
  <2>2. step \in [Nat -> [S -> S]]
    OBVIOUS
  <2> HIDE DEF S, z, step
  <2> QED
    BY <2>1, <2>2, Iteration
<1>3. g \in [Nat -> S] /\ g[0] = z /\ \A n \in Nat : g[n + 1] = step[n + 1][g[n]]
  BY <1>2 DEF Iterates
<1> DEFINE h == [k \in 0..N |-> g[k]]
<1>4. h = Def(h)
  <2>1. ASSUME NEW k \in 0..N
        PROVE  h[k] = Def(h)[k]
    <3>1. CASE k = 0
      BY <1>3, <3>1
    <3>2. CASE k # 0
      <4>1. k - 1 \in Nat /\ (k - 1) + 1 = k /\ k - 1 \in 0..N /\ k \in Nat
        BY <3>2
      <4>2. g[k] = step[k][g[k - 1]] /\ g[k - 1] \in S
        BY <1>3, <4>1
      <4>3. g[k] = More(g[k - 1])
        BY <4>1, <4>2
      <4>4. h[k] = g[k] /\ h[k - 1] = g[k - 1]
        BY <4>1
      <4> HIDE DEF More, h
      <4> QED
        BY <3>2, <4>3, <4>4
    <3> QED
      BY <3>1, <3>2
  <2>2. h = [k \in 0..N |-> h[k]] /\ Def(h) = [k \in 0..N |-> Def(h)[k]]
    OBVIOUS
  <2> HIDE DEF h, Def
  <2> QED
    BY <2>1, <2>2
<1>5. met = Def(met)
  <2> HIDE DEF Def, h
  <2> QED
    BY <1>4
<1>6. WalkOf(to, a, b) = met[N]
  BY DEF WalkOf
<1> HIDE DEF met
<1>7. met[0] = {a}
  BY <1>5
<1>8. ASSUME NEW k \in 0..N - 1
      PROVE  met[k + 1] = More(met[k])
  <2>1. k + 1 \in 0..N /\ k + 1 # 0 /\ (k + 1) - 1 = k
    OBVIOUS
  <2> HIDE DEF More
  <2> QED
    BY <1>5, <2>1
<1> DEFINE T == {k \in Nat : k <= N => met[k] \subseteq L}
<1>9. 0 \in T
  BY <1>7
<1>10. ASSUME NEW k \in Nat, k \in T
       PROVE  k + 1 \in T
  <2> SUFFICES ASSUME k + 1 <= N
               PROVE  met[k + 1] \subseteq L
    OBVIOUS
  <2>1. k \in 0..N - 1 /\ met[k] \subseteq L
    BY <1>10
  <2> QED
    BY <1>8, <2>1
<1>11. Nat \subseteq T
  <2> HIDE DEF T
  <2> QED
    BY <1>9, <1>10, SetInduction
<1>12. IsWalk(met, N, L, to, a, b)
  BY <1>7, <1>8, <1>11 DEF IsWalk
<1> QED
  BY <1>6, <1>12

LEMMA WalkIs ==
  ASSUME Shapes
  PROVE  /\ Cardinality(DOMAIN next) \in Nat
         /\ \A a, b : Walk(a, b) = WalkOf(next, a, b)
<1>1. Cardinality(DOMAIN next) \in Nat
  BY NodesFinite, FS_CardinalityType DEF Shapes
<1>2. ASSUME NEW a, NEW b
      PROVE  Walk(a, b) = WalkOf(next, a, b)
  BY DEF Walk, WalkOf
<1> QED
  BY <1>1, <1>2

LEMMA WalkIn ==
  ASSUME Shapes, NEW L, NEW a \in L, NEW b, \A n \in L : n # b => next[n] \in L
  PROVE  Walk(a, b) \subseteq L
<1> DEFINE N == Cardinality(DOMAIN next)
<1>1. N \in Nat /\ Walk(a, b) = WalkOf(next, a, b)
  BY WalkIs
<1>2. PICK met : IsWalk(met, N, L, next, a, b) /\ WalkOf(next, a, b) = met[N]
  BY <1>1, WalkSteps
<1> QED
  BY <1>1, <1>2 DEF IsWalk

(***************************************************************************)
(* The successors in a ring.                                               *)
(***************************************************************************)
LEMMA AfterIs ==
  ASSUME NEW s \in Sequ
  PROVE  /\ \A i \in 1..Len(Line[s]) :
              After(s, i) \in ToSet(Line[s]) /\ After(s, i) # Line[s][i]
         /\ \A j \in 1..Len(Line[s]) : \E i \in 1..Len(Line[s]) : After(s, i) = Line[s][j]
         /\ \A i, j \in 1..Len(Line[s]) : After(s, i) = After(s, j) => i = j
<1> DEFINE line == Line[s]
           n == Len(line)
<1>1. /\ n \in Nat /\ n >= 2 /\ ToSet(line) = {line[i] : i \in 1..n}
      /\ \A i, j \in 1..n : line[i] = line[j] => i = j
  BY LineIs
<1>2. \A i \in 1..n : After(s, i) = IF i = n THEN line[1] ELSE line[i + 1]
  BY DEF After
<1> HIDE DEF line, n
<1>3. \A i \in 1..n : \E j \in 1..n :
        After(s, i) = line[j] /\ ((i = n /\ j = 1) \/ (i # n /\ j = i + 1))
  <2> SUFFICES ASSUME NEW i \in 1..n
               PROVE  \E j \in 1..n :
                        After(s, i) = line[j] /\ ((i = n /\ j = 1) \/ (i # n /\ j = i + 1))
    OBVIOUS
  <2>1. CASE i = n
    BY <1>1, <1>2, <2>1
  <2>2. CASE i # n
    <3>1. i + 1 \in 1..n
      BY <1>1, <2>2
    <3> QED
      BY <1>2, <2>2, <3>1
  <2> QED
    BY <2>1, <2>2
<1>4. \A i \in 1..n : After(s, i) \in ToSet(line) /\ After(s, i) # line[i]
  BY <1>1, <1>3
<1>5. \A j \in 1..n : \E i \in 1..n : After(s, i) = line[j]
  <2> SUFFICES ASSUME NEW j \in 1..n
               PROVE  \E i \in 1..n : After(s, i) = line[j]
    OBVIOUS
  <2>1. CASE j = 1
    <3>1. n \in 1..n
      BY <1>1
    <3> QED
      BY <1>2, <2>1, <3>1
  <2>2. CASE j # 1
    <3>1. j - 1 \in 1..n /\ j - 1 # n /\ (j - 1) + 1 = j
      BY <1>1, <2>2
    <3> QED
      BY <1>2, <3>1
  <2> QED
    BY <2>1, <2>2
<1>6. \A i, j \in 1..n : After(s, i) = After(s, j) => i = j
  BY <1>1, <1>3
<1> QED
  BY <1>4, <1>5, <1>6 DEF line, n

(***************************************************************************)
(* A node is in one sequence.                                              *)
(***************************************************************************)
LEMMA OneSequence ==
  ASSUME NEW s \in Sequ, NEW t \in Sequ, NEW x \in ToSet(Line[s]), x \in ToSet(Line[t])
  PROVE  s = t
<1>1. s # t => ToSet(Line[s]) \intersect ToSet(Line[t]) = {}
  BY InterpolationAssumption
<1> QED
  BY <1>1

LEMMA RangedIs ==
  ASSUME NEW s \in Sequ, NEW start, NEW end, Ranged(s, start, end)
  PROVE  start \in ToSet(Line[s]) /\ end \in ToSet(Line[s])
<1>1. PICK r \in Ranges[s] : start = Line[s][r.first] /\ end = Line[s][r.last]
  BY DEF Ranged
<1>2. r.first \in 1..r.last /\ r.last \in 1..Len(Line[s])
  BY InterpolationAssumption
<1>3. r.first \in 1..Len(Line[s])
  BY <1>2, LineIs
<1> QED
  BY <1>1, <1>2, <1>3, LineIs

-----------------------------------------------------------------------------
(* The actions.                                                            *)

LEMMA InitIInv == Init => IInv
  BY InterpolationAssumption DEF Init, IInv, Shapes, Closed

LEMMA SameIInv ==
  ASSUME IInv, UNCHANGED <<used, expanded, next, previous, range_start, range_end>>,
         UNCHANGED <<elem, made, backup, broken>>, slicing' => slicing
  PROVE  IInv'
<1>1. Shapes' /\ ~broken'
  BY DEF IInv, Shapes
<1>2. backup' = None => Closed'
  BY DEF IInv, Closed, Ring, Ranged
<1>3. slicing' => backup' # None /\ Sliced(backup.node, backup.nint)'
  BY DEF IInv, Sliced, Open, Ranged, Chain
<1> QED
  BY <1>1, <1>2, <1>3 DEF IInv

LEMMA UseIInv ==
  ASSUME IInv, Use
  PROVE  IInv'
<1> DEFINE Place(s, n) == CHOOSE i \in 1..Len(Line[s]) : Line[s][i] = n
           Before(s, i) == IF i = 1 THEN Last(Line[s]) ELSE Line[s][i - 1]
<1>0. PICK s \in Sequ : \E r \in Ranges[s] :
        /\ used' = s /\ expanded' = expanded \union {s}
        /\ next' = [n \in DOMAIN next |->
                      IF n \in ToSet(Line[s]) THEN After(s, Place(s, n)) ELSE next[n]]
        /\ previous' = [n \in DOMAIN previous |->
                          IF n \in ToSet(Line[s]) THEN Before(s, Place(s, n)) ELSE previous[n]]
        /\ range_start' = [range_start EXCEPT ![s] = Line[s][r.first]]
        /\ range_end' = [range_end EXCEPT ![s] = Line[s][r.last]]
        /\ UNCHANGED <<clones, slicing>>
  BY Zenon DEF Use, After
<1>1. PICK r \in Ranges[s] :
        /\ used' = s /\ expanded' = expanded \union {s}
        /\ next' = [n \in DOMAIN next |->
                      IF n \in ToSet(Line[s]) THEN After(s, Place(s, n)) ELSE next[n]]
        /\ previous' = [n \in DOMAIN previous |->
                          IF n \in ToSet(Line[s]) THEN Before(s, Place(s, n)) ELSE previous[n]]
        /\ range_start' = [range_start EXCEPT ![s] = Line[s][r.first]]
        /\ range_end' = [range_end EXCEPT ![s] = Line[s][r.last]]
        /\ UNCHANGED <<clones, slicing>>
  BY <1>0
<1>2. UNCHANGED <<elem, made, backup, broken, slicing>> /\ ~slicing
  BY <1>1 DEF Use, clones
<1>3. \A i \in 1..Len(Line[s]) : Place(s, Line[s][i]) = i /\ Line[s][i] \in ToSet(Line[s])
  <2> SUFFICES ASSUME NEW i \in 1..Len(Line[s])
               PROVE  Place(s, Line[s][i]) = i /\ Line[s][i] \in ToSet(Line[s])
    OBVIOUS
  <2>1. \E j \in 1..Len(Line[s]) : Line[s][j] = Line[s][i]
    OBVIOUS
  <2>2. Place(s, Line[s][i]) \in 1..Len(Line[s]) /\ Line[s][Place(s, Line[s][i])] = Line[s][i]
    BY <2>1
  <2> HIDE DEF Place
  <2> QED
    BY <2>2, LineIs
<1> HIDE DEF Place
<1>4. \A i \in 1..Len(Line[s]) : Line[s][i] \in DOMAIN next /\ Line[s][i] \in DOMAIN previous
  BY <1>3, LineIs DEF IInv, Shapes
<1>5. Ring(s)'
  <2> SUFFICES ASSUME NEW i \in 1..Len(Line[s])
               PROVE  next'[Line[s][i]] = After(s, i) /\ previous'[After(s, i)] = Line[s][i]
    BY DEF Ring, After
  <2>1. next'[Line[s][i]] = After(s, i)
    BY <1>1, <1>3, <1>4
  <2>2. Len(Line[s]) \in Nat /\ Len(Line[s]) >= 2
    BY LineIs
  <2>3. PICK j \in 1..Len(Line[s]) : After(s, i) = Line[s][j] /\ Before(s, j) = Line[s][i]
    <3>1. CASE i = Len(Line[s])
      <4>1. 1 \in 1..Len(Line[s]) /\ After(s, i) = Line[s][1] /\ Before(s, 1) = Line[s][i]
        BY <2>2, <3>1 DEF After, Last
      <4> QED
        BY <4>1
    <3>2. CASE i # Len(Line[s])
      <4>1. i + 1 \in 1..Len(Line[s]) /\ i + 1 # 1 /\ (i + 1) - 1 = i
        BY <2>2, <3>2
      <4>2. After(s, i) = Line[s][i + 1] /\ Before(s, i + 1) = Line[s][i]
        BY <3>2, <4>1 DEF After
      <4> QED
        BY <4>1, <4>2
    <3> QED
      BY <3>1, <3>2
  <2>4. previous'[Line[s][j]] = Before(s, j)
    BY <1>1, <1>3, <1>4
  <2> QED
    BY <2>1, <2>3, <2>4
<1>6. range_start'[s] = Line[s][r.first] /\ range_end'[s] = Line[s][r.last]
  <2>1. DOMAIN range_start = Sequ /\ DOMAIN range_end = Sequ
    BY DEF IInv, Shapes
  <2> QED
    BY <1>1, <2>1
<1>7. Ranged(s, range_start'[s], range_end'[s])
  BY <1>6 DEF Ranged
<1>8. Shapes'
  <2>1. range_start'[s] \in Nodes /\ range_end'[s] \in Nodes
    BY <1>7, RangedIs, LineIs
  <2>2. s # None
    BY InterpolationAssumption
  <2> QED
    BY <1>1, <1>2, <1>6, <2>1, <2>2 DEF IInv, Shapes
<1>9. ASSUME backup = None, NEW u \in expanded, u # s
      PROVE  Ring(u)' /\ Ranged(u, range_start'[u], range_end'[u])
  <2>1. u \in Sequ /\ Ring(u) /\ Ranged(u, range_start[u], range_end[u])
    BY <1>9 DEF IInv, Shapes, Closed
  <2>2. \A x \in ToSet(Line[u]) : x \notin ToSet(Line[s]) /\ x \in DOMAIN next /\ x \in DOMAIN previous
    BY <1>9, <2>1, OneSequence, LineIs DEF IInv, Shapes
  <2>3. \A x \in ToSet(Line[u]) : next'[x] = next[x] /\ previous'[x] = previous[x]
    BY <1>1, <2>2
  <2>4. Ring(u)'
    <3> SUFFICES ASSUME NEW i \in 1..Len(Line[u])
                 PROVE  next'[Line[u][i]] = After(u, i) /\ previous'[After(u, i)] = Line[u][i]
      BY DEF Ring, After
    <3>1. Line[u][i] \in ToSet(Line[u]) /\ After(u, i) \in ToSet(Line[u])
      BY <2>1, LineIs, AfterIs
    <3> QED
      BY <2>1, <2>3, <3>1 DEF Ring
  <2>5. range_start'[u] = range_start[u] /\ range_end'[u] = range_end[u]
    BY <1>1, <1>9, <2>1 DEF IInv, Shapes
  <2> QED
    BY <2>1, <2>4, <2>5
<1>10. backup' = None => Closed'
  BY <1>1, <1>2, <1>5, <1>7, <1>9 DEF IInv, Closed, Ranged
<1> QED
  BY <1>2, <1>8, <1>10 DEF IInv
(***************************************************************************)
(* The neighbours of a node.                                               *)
(***************************************************************************)
LEMMA Neighbours ==
  ASSUME NEW s \in Sequ, NEW node \in ToSet(Line[s])
  PROVE  \E k, p \in 1..Len(Line[s]) :
           Line[s][k] = node /\ After(s, p) = node /\ Line[s][p] # node /\ After(s, k) # node
<1>1. PICK k \in 1..Len(Line[s]) : Line[s][k] = node
  BY LineIs
<1>2. PICK p \in 1..Len(Line[s]) : After(s, p) = node
  BY <1>1, AfterIs
<1>3. Line[s][p] # node /\ After(s, k) # node
  BY <1>1, <1>2, AfterIs
<1> QED
  BY <1>1, <1>2, <1>3

LEMMA SlicesAre ==
  ASSUME NEW n \in 1..MaxSlices
  PROVE  /\ \A j \in 1..n : At(j) \in Slices /\ At(j) \notin Nodes /\ At(j)[2] = j
         /\ \A x \in Nodes : x \notin Slices
         /\ \A i, j \in 1..n : At(i) = At(j) => i = j
         /\ 1 \in 1..n /\ n \in 1..n /\ n \in Nat
         /\ \A j \in 1..n - 1 : j \in 1..n /\ j + 1 \in 1..n
<1>1. MaxSlices \in Nat /\ n \in Nat /\ n >= 1
  BY InterpolationAssumption
<1>2. Nodes \intersect Slices = {}
  BY InterpolationAssumption
<1>3. \A j \in 1..n : At(j) \in Slices /\ At(j)[2] = j
  BY <1>1 DEF At, Slices
<1> QED
  BY <1>1, <1>2, <1>3

(***************************************************************************)
(* The links to the slices, where a node has no slices next to it.         *)
(***************************************************************************)
LEMMA Linked ==
  ASSUME Shapes, NEW n \in 1..MaxSlices, NEW front \in Nodes, NEW back \in Nodes
  PROVE  LET to == Chained(n, next, front, back)
             from == Unchained(n, previous, front, back)
         IN  /\ \A x \in Nodes : to[x] = IF x = front THEN At(1) ELSE next[x]
             /\ \A x \in Nodes : from[x] = IF x = back THEN At(n) ELSE previous[x]
             /\ \A j \in 1..n - 1 : to[At(j)] = At(j + 1) /\ from[At(j + 1)] = At(j)
             /\ to[At(n)] = back /\ from[At(1)] = front
             /\ DOMAIN to = DOMAIN next /\ DOMAIN from = DOMAIN previous
<1> DEFINE to == Chained(n, next, front, back)
           from == Unchained(n, previous, front, back)
<1>1. /\ \A j \in 1..n : At(j) \in Slices /\ At(j) \notin Nodes /\ At(j)[2] = j
      /\ \A x \in Nodes : x \notin Slices
      /\ \A i, j \in 1..n : At(i) = At(j) => i = j
      /\ 1 \in 1..n /\ n \in 1..n /\ n \in Nat
      /\ \A j \in 1..n - 1 : j \in 1..n /\ j + 1 \in 1..n
  BY SlicesAre
<1>2. DOMAIN next = Nodes \union Slices /\ DOMAIN previous = Nodes \union Slices
  BY DEF Shapes
<1>3. \A x \in Nodes \union Slices :
        /\ to[x] = IF x = front THEN At(1)
                   ELSE IF x \in Slices /\ x[2] < n THEN <<"slice", x[2] + 1>>
                   ELSE IF x = At(n) THEN back ELSE next[x]
        /\ from[x] = IF x = back THEN At(n)
                     ELSE IF x \in Slices /\ x[2] \in 2..n THEN <<"slice", x[2] - 1>>
                     ELSE IF x = At(1) THEN front ELSE previous[x]
  BY <1>2 DEF Chained, Unchained, At
<1>4. DOMAIN to = DOMAIN next /\ DOMAIN from = DOMAIN previous
  BY DEF Chained, Unchained
<1> HIDE DEF to, from
<1>5. /\ \A x \in Nodes : to[x] = IF x = front THEN At(1) ELSE next[x]
      /\ \A x \in Nodes : from[x] = IF x = back THEN At(n) ELSE previous[x]
  <2> SUFFICES ASSUME NEW x \in Nodes
               PROVE  /\ to[x] = IF x = front THEN At(1) ELSE next[x]
                      /\ from[x] = IF x = back THEN At(n) ELSE previous[x]
    OBVIOUS
  <2>1. x \notin Slices /\ x # At(n) /\ x # At(1) /\ x \in Nodes \union Slices
    BY <1>1
  <2> QED
    BY <1>3, <2>1
<1>6. ASSUME NEW j \in 1..n - 1
      PROVE  to[At(j)] = At(j + 1) /\ from[At(j + 1)] = At(j)
  <2>1. /\ At(j) \in Slices /\ At(j) \notin Nodes /\ At(j)[2] = j /\ j < n
        /\ At(j + 1) \in Slices /\ At(j + 1) \notin Nodes /\ At(j + 1)[2] = j + 1
        /\ j + 1 \in 2..n /\ (j + 1) - 1 = j
    BY <1>1
  <2>2. At(j) # front /\ At(j + 1) # back
    BY <2>1
  <2>3. to[At(j)] = <<"slice", j + 1>>
    BY <1>3, <2>1, <2>2
  <2>4. from[At(j + 1)] = <<"slice", j>>
    BY <1>3, <2>1, <2>2
  <2> QED
    BY <2>3, <2>4 DEF At
<1>7. to[At(n)] = back
  <2>1. At(n) \in Slices /\ At(n) \notin Nodes /\ At(n)[2] = n /\ ~(n < n)
    BY <1>1
  <2>2. At(n) # front
    BY <2>1
  <2> QED
    BY <1>3, <2>1, <2>2
<1>8. from[At(1)] = front
  <2>1. At(1) \in Slices /\ At(1) \notin Nodes /\ At(1)[2] = 1 /\ ~(1 \in 2..n)
    BY <1>1
  <2>2. At(1) # back
    BY <2>1
  <2> QED
    BY <1>3, <2>1, <2>2
<1> QED
  BY <1>4, <1>5, <1>6, <1>7, <1>8 DEF to, from

LEMMA SliceIInv ==
  ASSUME IInv, Slice
  PROVE  IInv'
<1>1. /\ used # None /\ ~slicing /\ backup = None /\ Closed /\ Shapes /\ used \in expanded
      /\ used \in Sequ /\ expanded \subseteq Sequ
  BY DEF Slice, IInv, Shapes
<1>2. PICK node \in Walk(range_start[used], range_end[used]), n \in 1..MaxSlices :
        Interpolate(node, n)
  BY DEF Slice
<1>3. Ring(used) /\ Ranged(used, range_start[used], range_end[used])
  BY <1>1 DEF Closed
<1>4. node \in ToSet(Line[used])
  <2>1. PICK L : L = ToSet(Line[used])
    OBVIOUS
  <2>2. range_start[used] \in L
    BY <1>1, <1>3, <2>1, RangedIs
  <2>3. ASSUME NEW x \in L
        PROVE  next[x] \in L
    <3>1. PICK i \in 1..Len(Line[used]) : x = Line[used][i]
      BY <1>1, <2>1, LineIs
    <3>2. next[x] = After(used, i)
      BY <1>3, <3>1 DEF Ring
    <3> QED
      BY <1>1, <2>1, <3>2, AfterIs
  <2>4. PICK a, b : a = range_start[used] /\ b = range_end[used]
    OBVIOUS
  <2>5. Walk(a, b) \subseteq L
    BY <1>1, <2>2, <2>3, <2>4, WalkIn
  <2> QED
    BY <1>2, <2>1, <2>4, <2>5
<1>5. PICK k, p \in 1..Len(Line[used]) :
        /\ Line[used][k] = node /\ After(used, p) = node
        /\ Line[used][p] # node /\ After(used, k) # node
  BY <1>1, <1>4, Neighbours
<1> DEFINE front == Line[used][p]
           back == After(used, k)
<1>6. previous[node] = front /\ next[node] = back
  BY <1>3, <1>5 DEF Ring
<1>7. front \in Nodes /\ back \in Nodes /\ node \in Nodes
  BY <1>1, <1>4, LineIs, AfterIs
<1>8. /\ next' = Chained(n, next, front, back) /\ previous' = Unchained(n, previous, front, back)
      /\ range_start' = [range_start EXCEPT ![used] = At(1)]
      /\ range_end' = [range_end EXCEPT ![used] = At(n)]
      /\ elem' = [x \in Slices |-> IF x[2] <= n THEN Own(node, n, x[2]) ELSE None]
      /\ made' = Made(node, n)
      /\ backup' = [node |-> node, nint |-> n, start |-> range_start[used],
                    end |-> range_end[used]]
      /\ UNCHANGED <<used, expanded, broken>>
  BY <1>2, <1>6 DEF Interpolate, At
<1> HIDE DEF front, back
<1>9. /\ \A x \in Nodes : next'[x] = IF x = front THEN At(1) ELSE next[x]
      /\ \A x \in Nodes : previous'[x] = IF x = back THEN At(n) ELSE previous[x]
      /\ \A j \in 1..n - 1 : next'[At(j)] = At(j + 1) /\ previous'[At(j + 1)] = At(j)
      /\ next'[At(n)] = back /\ previous'[At(1)] = front
      /\ DOMAIN next' = DOMAIN next /\ DOMAIN previous' = DOMAIN previous
  BY <1>1, <1>7, <1>8, Linked
<1>10. /\ \A j \in 1..n : At(j) \in Slices /\ At(j)[2] = j
       /\ 1 \in 1..n /\ n \in 1..n /\ n \in Nat
  BY SlicesAre
<1>11. range_start[used] \in Nodes /\ range_end[used] \in Nodes
  BY <1>1, <1>3, RangedIs, LineIs
<1>12. /\ backup' \in [node : Nodes, nint : 1..MaxSlices, start : Nodes, end : Nodes]
       /\ backup' # None /\ backup'.node = node /\ backup'.nint = n
       /\ backup'.start = range_start[used] /\ backup'.end = range_end[used]
  <2>1. backup' \in [node : Nodes, nint : 1..MaxSlices, start : Nodes, end : Nodes]
    BY <1>7, <1>8, <1>11
  <2> QED
    BY <1>8, <2>1, InterpolationAssumption
<1>13. DOMAIN range_start = Sequ /\ DOMAIN range_end = Sequ
  BY <1>1 DEF Shapes
<1>14. Shapes'
  <2>1. At(1) \in Slices /\ At(n) \in Slices
    BY <1>10
  <2> QED
    BY <1>1, <1>8, <1>9, <1>12, <2>1 DEF Shapes
<1>15. ASSUME NEW s \in expanded, NEW i \in 1..Len(Line[s])
       PROVE  /\ next'[Line[s][i]] = IF After(s, i) = node THEN At(1) ELSE After(s, i)
              /\ previous'[After(s, i)] = IF Line[s][i] = node THEN At(n) ELSE Line[s][i]
  <2>1. s \in Sequ /\ next[Line[s][i]] = After(s, i) /\ previous[After(s, i)] = Line[s][i]
    BY <1>1 DEF Closed, Ring
  <2>2. /\ Line[s][i] \in ToSet(Line[s]) /\ After(s, i) \in ToSet(Line[s])
        /\ Line[s][i] \in Nodes /\ After(s, i) \in Nodes
    BY <2>1, LineIs, AfterIs
  <2>3. front \in ToSet(Line[used]) /\ back \in ToSet(Line[used])
    BY <1>1, LineIs, AfterIs DEF front, back
  <2>4. (Line[s][i] = front) <=> (After(s, i) = node)
    <3>1. ASSUME Line[s][i] = front
          PROVE  After(s, i) = node
      <4>1. s = used
        BY <1>1, <2>1, <2>2, <2>3, <3>1, OneSequence
      <4>2. i = p
        BY <1>1, <3>1, <4>1, LineIs DEF front
      <4> QED
        BY <1>5, <4>1, <4>2
    <3>2. ASSUME After(s, i) = node
          PROVE  Line[s][i] = front
      <4>1. s = used
        BY <1>1, <1>4, <2>1, <2>2, <3>2, OneSequence
      <4>2. i = p
        BY <1>1, <1>5, <3>2, <4>1, AfterIs
      <4> QED
        BY <4>1, <4>2 DEF front
    <3> QED
      BY <3>1, <3>2
  <2>5. (After(s, i) = back) <=> (Line[s][i] = node)
    <3>1. ASSUME After(s, i) = back
          PROVE  Line[s][i] = node
      <4>1. s = used
        BY <1>1, <2>1, <2>2, <2>3, <3>1, OneSequence
      <4>2. i = k
        BY <1>1, <3>1, <4>1, AfterIs DEF back
      <4> QED
        BY <1>5, <4>1, <4>2
    <3>2. ASSUME Line[s][i] = node
          PROVE  After(s, i) = back
      <4>1. s = used
        BY <1>1, <1>4, <2>1, <2>2, <3>2, OneSequence
      <4>2. i = k
        BY <1>1, <1>5, <3>2, <4>1, LineIs
      <4> QED
        BY <4>1, <4>2 DEF back
    <3> QED
      BY <3>1, <3>2
  <2> QED
    BY <1>9, <2>1, <2>2, <2>4, <2>5
<1>16. Chain(node, n)'
  <2>1. node # front /\ node # back
    BY <1>5 DEF front, back
  <2>2. next'[node] = back /\ previous'[node] = front
    BY <1>6, <1>7, <1>9, <2>1 DEF front, back
  <2> QED
    BY <1>9, <2>2 DEF Chain, At
<1>17. Sliced(node, n)'
  <2>1. \A s \in expanded' : Open(s, node, n)'
    BY <1>8, <1>15 DEF Open, After, At
  <2>2. \A s \in expanded' \ {used'} : Ranged(s, range_start[s], range_end[s])'
    <3>1. \A s \in expanded \ {used} : range_start'[s] = range_start[s] /\ range_end'[s] = range_end[s]
      BY <1>1, <1>8, <1>13
    <3> QED
      BY <1>1, <1>8, <3>1 DEF Closed, Ranged
  <2>3. Ranged(used, backup.start, backup.end)'
    BY <1>3, <1>8, <1>12 DEF Ranged
  <2>4. range_start'[used] = At(1) /\ range_end'[used] = At(n)
    BY <1>1, <1>8, <1>13
  <2>5. \A j \in 1..n : elem'[At(j)] = Own(node, n, j)
    <3> SUFFICES ASSUME NEW j \in 1..n
                 PROVE  elem'[At(j)] = Own(node, n, j)
      OBVIOUS
    <3>1. At(j) \in Slices /\ At(j)[2] = j /\ j <= n
      BY <1>10
    <3> QED
      BY <1>8, <3>1
  <2>6. used' # None /\ node \in ToSet(Line[used])' /\ used' = used
    BY <1>1, <1>4, <1>8
  <2> QED
    BY <1>8, <1>16, <2>1, <2>2, <2>3, <2>4, <2>5, <2>6 DEF Sliced, At, Own, Made
<1>18. ~broken' /\ Sliced(backup.node, backup.nint)'
  BY <1>8, <1>12, <1>17 DEF IInv
<1> QED
  BY <1>12, <1>14, <1>18 DEF IInv
(***************************************************************************)
(* The elements of the slices of a bend: which they are, and that those    *)
(* deleted are all of them, each once.                                     *)
(***************************************************************************)
LEMMA OwnIs ==
  ASSUME NEW node \in Bends, NEW n \in 1..MaxSlices, NEW j \in 1..n
  PROVE  /\ n = 1 => Own(node, n, j) = "template"
         /\ j = 1 /\ n >= 2 => Own(node, n, j) = "first"
         /\ j > 1 /\ ~(j = n /\ n >= 3) => Own(node, n, j) = "template"
         /\ j = n /\ n >= 3 => Own(node, n, j) = "last"
  BY InterpolationAssumption DEF Own

LEMMA DeletedIs ==
  ASSUME NEW node \in Bends, NEW n \in 1..MaxSlices, backup.nint = n, Chain(node, n),
         \A j \in 1..n : elem[At(j)] = Own(node, n, j)
  PROVE  IsInjective(Deleted) /\ ToSet(Deleted) = {Own(node, n, j) : j \in 1..n}
<1>1. 1 \in 1..n /\ n \in 1..n /\ n \in Nat
  BY SlicesAre
<1> DEFINE made_of == {Own(node, n, j) : j \in 1..n}
<1>2. elem[<<"slice", 1>>] = Own(node, n, 1) /\ elem[<<"slice", n>>] = Own(node, n, n)
  BY <1>1 DEF At
<1>3. CASE n = 1
  <2>1. Own(node, n, 1) = "template"
    BY <1>1, <1>3, OwnIs
  <2>2. Deleted = <<"template">>
    BY <1>2, <1>3, <2>1 DEF Deleted
  <2>3. made_of = {"template"}
    BY <1>3, <2>1
  <2> QED
    BY <2>2, <2>3 DEF IsInjective, ToSet
<1>4. ASSUME n >= 2
      PROVE  /\ Own(node, n, 1) = "first" /\ elem[next[<<"slice", 1>>]] = Own(node, n, 2)
             /\ n \notin {1} /\ 2 \in 1..n
  <2>1. 1 \in 1..n - 1 /\ 2 \in 1..n /\ 1 + 1 = 2
    BY <1>1, <1>4
  <2>2. next[At(1)] = At(2)
    BY <2>1 DEF Chain
  <2> QED
    BY <1>1, <1>4, <2>1, <2>2, OwnIs DEF At
<1>5. CASE n = 2
  <2>1. Own(node, n, 1) = "first" /\ Own(node, n, 2) = "template"
    BY <1>1, <1>4, <1>5, OwnIs
  <2>2. Deleted = <<"first", "template">>
    BY <1>2, <1>4, <1>5, <2>1 DEF Deleted
  <2>3. made_of = {"first", "template"}
    BY <1>5, <2>1
  <2> QED
    BY <2>2, <2>3 DEF IsInjective, ToSet
<1>6. CASE n >= 3
  <2>1. Own(node, n, 1) = "first" /\ Own(node, n, 2) = "template" /\ Own(node, n, n) = "last"
    BY <1>1, <1>4, <1>6, OwnIs
  <2>2. Deleted = <<"first", "template", "last">>
    BY <1>2, <1>4, <1>6, <2>1 DEF Deleted
  <2>3. \A j \in 1..n : Own(node, n, j) \in {"first", "template", "last"}
    BY <1>1, <1>6, OwnIs
  <2>4. made_of = {"first", "template", "last"}
    BY <1>1, <1>4, <1>6, <2>1, <2>3
  <2> QED
    BY <2>2, <2>4 DEF IsInjective, ToSet
<1> QED
  BY <1>1, <1>3, <1>5, <1>6

LEMMA ResetIInv ==
  ASSUME IInv, Reset
  PROVE  IInv'
<1> DEFINE node == backup.node
           n == backup.nint
           deleted == IF node \in Bends THEN Deleted ELSE <<>>
<1>1. /\ slicing /\ backup # None /\ Sliced(node, n) /\ Shapes /\ used \in expanded
      /\ used \in Sequ /\ expanded \subseteq Sequ /\ n \in 1..MaxSlices /\ node \in Nodes
      /\ backup.start \in Nodes /\ backup.end \in Nodes /\ ~broken
  BY DEF Reset, IInv, Shapes, Sliced
<1>2. /\ slicing' = FALSE /\ backup' = None
      /\ made' = [e \in DOMAIN made \ ToSet(deleted) |-> made[e]]
      /\ broken' = (broken \/ ~IsInjective(deleted) \/ ~(ToSet(deleted) \subseteq DOMAIN made))
      /\ next' = [x \in DOMAIN next |->
             IF x \in Slices THEN None ELSE IF x = previous[node] THEN node ELSE next[x]]
      /\ previous' = [x \in DOMAIN previous |->
             IF x \in Slices THEN None ELSE IF x = next[node] THEN node ELSE previous[x]]
      /\ range_start' = [range_start EXCEPT ![used] = backup.start]
      /\ range_end' = [range_end EXCEPT ![used] = backup.end]
      /\ UNCHANGED <<used, expanded>>
  BY DEF Reset
<1>3. /\ node \in ToSet(Line[used]) /\ \A s \in expanded : Open(s, node, n)
      /\ \A s \in expanded \ {used} : Ranged(s, range_start[s], range_end[s])
      /\ Ranged(used, backup.start, backup.end)
      /\ Chain(node, n) /\ \A j \in 1..n : elem[At(j)] = Own(node, n, j)
      /\ made = Made(node, n)
  BY <1>1 DEF Sliced
<1>4. IsInjective(deleted) /\ ToSet(deleted) = DOMAIN made
  <2>1. CASE node \in Bends
    <3>1. DOMAIN made = {Own(node, n, j) : j \in 1..n}
      BY <1>3, <2>1 DEF Made
    <3> QED
      BY <1>1, <1>3, <2>1, <3>1, DeletedIs
  <2>2. CASE node \notin Bends
    <3>1. DOMAIN made = {}
      BY <1>3, <2>2 DEF Made
    <3>2. IsInjective(<<>>) /\ ToSet(<<>>) = {}
      BY DEF IsInjective, ToSet
    <3> QED
      BY <2>2, <3>1, <3>2
  <2> QED
    BY <2>1, <2>2
<1> HIDE DEF deleted, node, n
<1>5. ~broken' /\ DOMAIN made' = {}
  BY <1>1, <1>2, <1>4
<1>6. PICK k, p \in 1..Len(Line[used]) :
        /\ Line[used][k] = node /\ After(used, p) = node
        /\ Line[used][p] # node /\ After(used, k) # node
  BY <1>1, <1>3, Neighbours
<1>7. previous[node] = Line[used][p] /\ next[node] = After(used, k)
  BY <1>1, <1>3, <1>6 DEF Open
<1>8. \A x \in Nodes : /\ next'[x] = IF x = previous[node] THEN node ELSE next[x]
                       /\ previous'[x] = IF x = next[node] THEN node ELSE previous[x]
  <2>1. \A x \in Nodes : x \notin Slices /\ x \in DOMAIN next /\ x \in DOMAIN previous
    BY <1>1, SlicesAre DEF Shapes
  <2> QED
    BY <1>2, <2>1
<1>9. ASSUME NEW s \in expanded, NEW i \in 1..Len(Line[s])
      PROVE  next'[Line[s][i]] = After(s, i) /\ previous'[After(s, i)] = Line[s][i]
  <2>1. /\ s \in Sequ
        /\ next[Line[s][i]] = IF After(s, i) = node THEN At(1) ELSE After(s, i)
        /\ previous[After(s, i)] = IF Line[s][i] = node THEN At(n) ELSE Line[s][i]
    BY <1>1, <1>3 DEF Open
  <2>2. /\ Line[s][i] \in ToSet(Line[s]) /\ After(s, i) \in ToSet(Line[s])
        /\ Line[s][i] \in Nodes /\ After(s, i) \in Nodes
    BY <2>1, LineIs, AfterIs
  <2>3. Line[used][p] \in ToSet(Line[used]) /\ After(used, k) \in ToSet(Line[used])
    BY <1>1, LineIs, AfterIs
  <2>4. next'[Line[s][i]] = After(s, i)
    <3>1. CASE Line[s][i] = previous[node]
      <4>1. s = used
        BY <1>1, <1>7, <2>1, <2>2, <2>3, <3>1, OneSequence
      <4>2. i = p
        BY <1>1, <1>7, <3>1, <4>1, LineIs
      <4> QED
        BY <1>6, <1>8, <2>2, <3>1, <4>1, <4>2
    <3>2. CASE Line[s][i] # previous[node]
      <4>1. After(s, i) # node
        <5> SUFFICES ASSUME After(s, i) = node
                     PROVE  FALSE
          OBVIOUS
        <5>1. s = used
          BY <1>1, <1>3, <2>1, <2>2, OneSequence
        <5>2. i = p
          BY <1>1, <1>6, <5>1, AfterIs
        <5> QED
          BY <1>7, <3>2, <5>1, <5>2
      <4> QED
        BY <1>8, <2>1, <2>2, <3>2, <4>1
    <3> QED
      BY <3>1, <3>2
  <2>5. previous'[After(s, i)] = Line[s][i]
    <3>1. CASE After(s, i) = next[node]
      <4>1. s = used
        BY <1>1, <1>7, <2>1, <2>2, <2>3, <3>1, OneSequence
      <4>2. i = k
        BY <1>1, <1>7, <3>1, <4>1, AfterIs
      <4> QED
        BY <1>6, <1>8, <2>2, <3>1, <4>1, <4>2
    <3>2. CASE After(s, i) # next[node]
      <4>1. Line[s][i] # node
        <5> SUFFICES ASSUME Line[s][i] = node
                     PROVE  FALSE
          OBVIOUS
        <5>1. s = used
          BY <1>1, <1>3, <2>1, <2>2, OneSequence
        <5>2. i = k
          BY <1>1, <1>6, <5>1, LineIs
        <5> QED
          BY <1>7, <3>2, <5>1, <5>2
      <4> QED
        BY <1>8, <2>1, <2>2, <3>2, <4>1
    <3> QED
      BY <3>1, <3>2
  <2> QED
    BY <2>4, <2>5
<1>10. \A s \in expanded : Ranged(s, range_start'[s], range_end'[s])
  <2>1. DOMAIN range_start = Sequ /\ DOMAIN range_end = Sequ
    BY <1>1 DEF Shapes
  <2>2. range_start'[used] = backup.start /\ range_end'[used] = backup.end
    BY <1>1, <1>2, <2>1
  <2>3. \A s \in expanded \ {used} : range_start'[s] = range_start[s] /\ range_end'[s] = range_end[s]
    BY <1>1, <1>2, <2>1
  <2> QED
    BY <1>3, <2>2, <2>3
<1>11. Closed'
  <2>1. \A s \in expanded : Ring(s)'
    BY <1>9 DEF Ring, After
  <2> QED
    BY <1>2, <1>5, <1>10, <2>1 DEF Closed, Ranged
<1>12. Shapes'
  BY <1>1, <1>2 DEF Shapes
<1> QED
  BY <1>2, <1>5, <1>11, <1>12 DEF IInv

LEMMA NextIInv == IInv /\ [Next]_vars => IInv'
<1> SUFFICES ASSUME IInv, [Next]_vars
             PROVE  IInv'
  OBVIOUS
<1>1. CASE Select
  BY <1>1, SameIInv DEF Select, ring, range, clones
<1>2. CASE Refuse
  BY <1>2, SameIInv DEF Refuse, ring, range, clones
<1>3. CASE Truncate
  BY <1>3, SameIInv DEF Truncate, ring, range, clones
<1>4. CASE UNCHANGED vars
  BY <1>4, SameIInv DEF vars, ring, range, clones
<1> QED
  BY <1>1, <1>2, <1>3, <1>4, UseIInv, SliceIInv, ResetIInv DEF Next

-----------------------------------------------------------------------------
LEMMA IInvWhole ==
  ASSUME IInv
  PROVE  Whole
<1>1. Restored
  <2> SUFFICES ASSUME backup = None
               PROVE  /\ DOMAIN made = {}
                      /\ \A s \in expanded :
                           /\ \A i \in 1..(Len(Line[s]) - 1) :
                                /\ next[Line[s][i]] = Line[s][i + 1]
                                /\ previous[Line[s][i + 1]] = Line[s][i]
                           /\ next[Last(Line[s])] = Line[s][1]
                           /\ previous[Line[s][1]] = Last(Line[s])
                           /\ Ranged(s, range_start[s], range_end[s])
    BY DEF Restored, Ranged
  <2>1. Closed
    BY DEF IInv
  <2>2. ASSUME NEW s \in expanded
        PROVE  /\ \A i \in 1..(Len(Line[s]) - 1) :
                    /\ next[Line[s][i]] = Line[s][i + 1]
                    /\ previous[Line[s][i + 1]] = Line[s][i]
               /\ next[Last(Line[s])] = Line[s][1]
               /\ previous[Line[s][1]] = Last(Line[s])
    <3>1. Len(Line[s]) \in Nat /\ Len(Line[s]) >= 2
      BY LineIs DEF IInv, Shapes
    <3>2. \A i \in 1..Len(Line[s]) :
            next[Line[s][i]] = After(s, i) /\ previous[After(s, i)] = Line[s][i]
      BY <2>1 DEF Closed, Ring
    <3>3. \A i \in 1..(Len(Line[s]) - 1) : i \in 1..Len(Line[s]) /\ After(s, i) = Line[s][i + 1]
      BY <3>1 DEF After
    <3>4. /\ Len(Line[s]) \in 1..Len(Line[s]) /\ After(s, Len(Line[s])) = Line[s][1]
          /\ Last(Line[s]) = Line[s][Len(Line[s])]
      BY <3>1 DEF After, Last
    <3> QED
      BY <3>2, <3>3, <3>4
  <2> QED
    BY <2>1, <2>2 DEF Closed
<1>2. InPlace
  <2> SUFFICES ASSUME slicing
               PROVE  InPlace
    BY DEF InPlace
  <2> DEFINE node == backup.node
             n == backup.nint
  <2>1. Sliced(node, n) /\ used \in expanded /\ used \in Sequ /\ n \in 1..MaxSlices
    BY DEF IInv, Shapes, Sliced
  <2>2a. node \in ToSet(Line[used])
    BY <2>1 DEF Sliced
  <2> HIDE DEF node, n
  <2>2. PICK k, p \in 1..Len(Line[used]) :
          /\ Line[used][k] = node /\ After(used, p) = node
          /\ Line[used][p] # node /\ After(used, k) # node
    BY <2>1, <2>2a, Neighbours
  <2> USE DEF node, n
  <2>3. Open(used, node, n) /\ Chain(node, n) /\ range_start[used] = At(1) /\ range_end[used] = At(n)
    BY <2>1 DEF Sliced
  <2>4. previous[node] = Line[used][p] /\ next[node] = After(used, k)
    BY <2>2, <2>3 DEF Open
  <2>5. next[Line[used][p]] = At(1) /\ previous[After(used, k)] = At(n)
    BY <2>2, <2>3 DEF Open
  <2>6. next[previous[At(1)]] = At(1) /\ previous[next[At(n)]] = At(n)
    BY <2>3, <2>4, <2>5 DEF Chain
  <2> QED
    BY <2>3, <2>6 DEF InPlace, Chain, At
<1> QED
  BY <1>1, <1>2 DEF IInv, Whole

LEMMA IInvSlices ==
  ASSUME IInv
  PROVE  SlicesAreBend
<1> SUFFICES ASSUME slicing, NEW j \in 1..backup.nint
             PROVE  LET e == elem[<<"slice", j>>]
                    IN  IF backup.node \notin Bends THEN e = backup.node
                        ELSE /\ e \in DOMAIN made /\ made[e].parts = backup.nint
                             /\ "entry" \in made[e].faces <=> j = 1
                             /\ "exit" \in made[e].faces <=> j = backup.nint
  BY DEF SlicesAreBend
<1> DEFINE node == backup.node
           n == backup.nint
           e == elem[<<"slice", j>>]
<1>1. e = Own(node, n, j) /\ made = Made(node, n) /\ n \in 1..MaxSlices
  BY DEF IInv, Shapes, Sliced, At
<1> HIDE DEF node, n, e
<1>2. CASE node \notin Bends
  BY <1>1, <1>2 DEF Own, node, n, e
<1>3. CASE node \in Bends
  <2>1. j \in 1..n /\ 1 \in 1..n /\ n \in 1..n /\ n \in Nat
    BY <1>1, SlicesAre DEF n
  <2>2. e \in DOMAIN made
    BY <1>1, <1>3, <2>1 DEF Made
  <2>3. made[e] = [parts |-> n,
                   faces |-> {f \in Faces : e = IF f = "entry" THEN Own(node, n, 1)
                                                ELSE Own(node, n, n)}]
    BY <1>1, <1>3, <2>2 DEF Made
  <2>4. "entry" \in made[e].faces <=> e = Own(node, n, 1)
    BY <2>3 DEF Faces
  <2>5. "exit" \in made[e].faces <=> e = Own(node, n, n)
    BY <2>3 DEF Faces
  <2>6. Own(node, n, j) = Own(node, n, 1) <=> j = 1
    BY <1>1, <1>3, <2>1, OwnIs
  <2>7. Own(node, n, j) = Own(node, n, n) <=> j = n
    BY <1>1, <1>3, <2>1, OwnIs
  <2> QED
    BY <1>1, <1>3, <2>2, <2>3, <2>4, <2>5, <2>6, <2>7 DEF node, n, e
<1> QED
  BY <1>2, <1>3

(***************************************************************************)
(* reset_interpolation undoes what interpolate_node did, for every ring    *)
(* and range, each kind of node and any number of slices; and while they   *)
(* are there the slices stand in the place of the node.                    *)
(***************************************************************************)
THEOREM RestoresRing == Spec => []Whole
<1>1. IInv => Whole
  BY IInvWhole
<1> QED
  BY <1>1, InitIInv, NextIInv, PTL DEF Spec

(***************************************************************************)
(* However many slices a bend is cut into by interpolate_node, they have   *)
(* its entry face and its exit face once.                                  *)
(***************************************************************************)
THEOREM FacesOnce == Spec => []SlicesAreBend
<1>1. IInv => SlicesAreBend
  BY IInvSlices
<1> QED
  BY <1>1, InitIInv, NextIInv, PTL DEF Spec

-----------------------------------------------------------------------------
(* The nodes a sequence has, and what a walk meets of them.                *)

(***************************************************************************)
(* Walks along two functions that agree where they go are the same.        *)
(***************************************************************************)
LEMMA WalkSame ==
  ASSUME NEW to, NEW too, NEW N \in Nat, N = Cardinality(DOMAIN to), DOMAIN too = DOMAIN to,
         NEW L, NEW a \in L, NEW b, \A n \in L : to[n] \in L /\ too[n] = to[n]
  PROVE  WalkOf(too, a, b) = WalkOf(to, a, b)
<1>1. PICK met : IsWalk(met, N, L, to, a, b) /\ WalkOf(to, a, b) = met[N]
  BY WalkSteps
<1>2. PICK mot : IsWalk(mot, N, L, too, a, b) /\ WalkOf(too, a, b) = mot[N]
  <2>1. N = Cardinality(DOMAIN too) /\ \A n \in L : n # b => too[n] \in L
    OBVIOUS
  <2> QED
    BY <2>1, WalkSteps
<1> DEFINE T == {k \in Nat : k <= N => mot[k] = met[k]}
<1>3. 0 \in T
  BY <1>1, <1>2 DEF IsWalk
<1>4. ASSUME NEW k \in Nat, k \in T
      PROVE  k + 1 \in T
  <2> SUFFICES ASSUME k + 1 <= N
               PROVE  mot[k + 1] = met[k + 1]
    OBVIOUS
  <2>1. k \in 0..N - 1 /\ k \in 0..N /\ mot[k] = met[k]
    BY <1>4
  <2>2. met[k + 1] = met[k] \union {to[n] : n \in met[k] \ {b}} /\ met[k] \subseteq L
    BY <1>1, <2>1 DEF IsWalk
  <2>3. mot[k + 1] = met[k] \union {too[n] : n \in met[k] \ {b}}
    BY <1>2, <2>1 DEF IsWalk
  <2>4. {too[n] : n \in met[k] \ {b}} = {to[n] : n \in met[k] \ {b}}
    BY <2>2
  <2> QED
    BY <2>2, <2>3, <2>4
<1>5. Nat \subseteq T
  <2> HIDE DEF T
  <2> QED
    BY <1>3, <1>4, SetInduction
<1> QED
  BY <1>1, <1>2, <1>5

LEMMA LineShort ==
  ASSUME Shapes, NEW s \in Sequ
  PROVE  Len(Line[s]) <= Cardinality(DOMAIN next)
<1>1. IsFiniteSet(Nodes \union Slices) /\ DOMAIN next = Nodes \union Slices
  BY NodesFinite DEF Shapes
<1>2. Len(Line[s]) \in Nat
  BY LineIs
<1>3. IsFiniteSet(1..Len(Line[s])) /\ Cardinality(1..Len(Line[s])) = Len(Line[s])
  <2>1. 1 \in Int /\ Len(Line[s]) \in Int
    BY <1>2
  <2>2. Cardinality(1..Len(Line[s])) = IF 1 > Len(Line[s]) THEN 0 ELSE Len(Line[s]) - 1 + 1
    BY <2>1, FS_Interval
  <2>3. IsFiniteSet(1..Len(Line[s]))
    BY <2>1, FS_Interval
  <2> QED
    BY <1>2, <2>2, <2>3, LineIs
<1> DEFINE f == [i \in 1..Len(Line[s]) |-> Line[s][i]]
           D == Nodes \union Slices
<1>4. f \in Injection(1..Len(Line[s]), D)
  <2>1. \A i \in 1..Len(Line[s]) : f[i] \in D
    BY LineIs
  <2>2. \A i, j \in 1..Len(Line[s]) : f[i] = f[j] => i = j
    BY LineIs
  <2> QED
    BY <2>1, <2>2 DEF Injection, IsInjective
<1> HIDE DEF f, D
<1>5. Cardinality(1..Len(Line[s])) <= Cardinality(D)
  <2>1. IsFiniteSet(D)
    BY <1>1 DEF D
  <2> QED
    BY <1>4, <2>1, FS_Injection
<1> QED
  BY <1>1, <1>3, <1>5 DEF D

(***************************************************************************)
(* The walk from the first to the last node of a ring meets all nodes.     *)
(***************************************************************************)
LEMMA WholeWalk ==
  ASSUME Shapes, NEW s \in expanded, Ring(s)
  PROVE  Expanded(s) = ToSet(Line[s])
<1> DEFINE line == Line[s]
           a == line[1]
           b == Last(line)
           L == ToSet(line)
           N == Cardinality(DOMAIN next)
           n == Len(line)
<1>0. s \in Sequ
  BY DEF Shapes
<1>1. /\ n \in Nat /\ n >= 2 /\ L = {line[i] : i \in 1..n} /\ b = line[n]
      /\ \A i, j \in 1..n : line[i] = line[j] => i = j
  BY <1>0, LineIs DEF Last
<1>2. N \in Nat /\ n <= N /\ Expanded(s) = WalkOf(next, a, b)
  <2>1. Expanded(s) = Walk(a, b)
    BY DEF Expanded
  <2> QED
    BY <1>0, <2>1, WalkIs, LineShort
<1>3. a \in L /\ \A x \in L : next[x] \in L
  <2>1. a \in L
    BY <1>1
  <2>2. ASSUME NEW x \in L
        PROVE  next[x] \in L
    <3>1. PICK i \in 1..n : x = line[i]
      BY <1>1
    <3>2. next[x] = After(s, i)
      BY <3>1 DEF Ring
    <3> QED
      BY <1>0, <3>2, AfterIs
  <2> QED
    BY <2>1, <2>2
<1>4. \A i \in 1..n - 1 : next[line[i]] = line[i + 1] /\ line[i] # b
  <2>1. \A i \in 1..n - 1 : i \in 1..n /\ n \in 1..n /\ i # n
    BY <1>1
  <2> QED
    BY <1>1, <2>1 DEF Ring, After
<1> HIDE DEF line, L, N, n
<1>5. PICK met : IsWalk(met, N, L, next, a, b) /\ WalkOf(next, a, b) = met[N]
  <2> HIDE DEF a, b
  <2>1. \A x \in L : x # b => next[x] \in L
    BY <1>3
  <2>2. N = Cardinality(DOMAIN next)
    BY DEF N
  <2> QED
    BY <1>2, <1>3, <2>1, <2>2, WalkSteps
<1>6. /\ met[N] \subseteq L /\ met[0] = {a}
      /\ \A k \in 0..N - 1 : met[k + 1] = met[k] \union {next[x] : x \in met[k] \ {b}}
  <2>1. N \in 0..N
    BY <1>2
  <2> QED
    BY <1>5, <2>1 DEF IsWalk
<1> DEFINE T == {k \in Nat : k <= N => \A i \in 1..n : i <= k + 1 => line[i] \in met[k]}
<1>7. 0 \in T
  BY <1>6
<1>8. ASSUME NEW k \in Nat, k \in T
      PROVE  k + 1 \in T
  <2> SUFFICES ASSUME k + 1 <= N, NEW i \in 1..n, i <= (k + 1) + 1
               PROVE  line[i] \in met[k + 1]
    OBVIOUS
  <2>1. k \in 0..N - 1 /\ k <= N
    BY <1>2
  <2>2. met[k + 1] = met[k] \union {next[x] : x \in met[k] \ {b}}
    BY <1>6, <2>1
  <2>3. CASE i <= k + 1
    BY <1>8, <2>1, <2>2, <2>3
  <2>4. CASE ~(i <= k + 1)
    <3>1. i - 1 \in 1..n - 1 /\ i - 1 \in 1..n /\ i - 1 <= k + 1 /\ (i - 1) + 1 = i
      BY <1>1, <2>4
    <3>2. line[i - 1] \in met[k] /\ line[i - 1] # b /\ next[line[i - 1]] = line[i]
      BY <1>4, <1>8, <2>1, <3>1
    <3> QED
      BY <2>2, <3>2
  <2> QED
    BY <2>3, <2>4
<1>9. Nat \subseteq T
  <2> HIDE DEF T
  <2> QED
    BY <1>7, <1>8, SetInduction
<1>10. \A i \in 1..n : line[i] \in met[N]
  <2>1. N \in T /\ \A i \in 1..n : i <= N + 1
    BY <1>1, <1>2, <1>9
  <2> QED
    BY <1>2, <2>1
<1>11. L \subseteq met[N]
  BY <1>1, <1>10
<1>12. Expanded(s) = L
  BY <1>2, <1>5, <1>6, <1>11
<1> QED
  BY <1>12 DEF L, line

(***************************************************************************)
(* The nodes of a sequence, with the slices that stand, or were left, in   *)
(* the place of one of them.                                               *)
(***************************************************************************)
Extent(s) ==
  ToSet(Line[s])
    \union IF backup # None /\ backup.node \in ToSet(Line[s])
           THEN {At(j) : j \in 1..backup.nint} ELSE {}

Stays(s) == \A n \in Extent(s) : next[n] \in Extent(s)

LEMMA ExtentIs ==
  ASSUME Shapes, NEW s \in Sequ
  PROVE  /\ Extent(s) \subseteq Nodes \union Slices /\ IsFiniteSet(Extent(s))
         /\ \A n \in Extent(s) \intersect Nodes : n \in ToSet(Line[s])
         /\ \A n \in ToSet(Line[s]) : n \in Extent(s) /\ n \in Nodes
         /\ \A n \in Extent(s) : n \notin Nodes => n \in Slices /\ backup # None
         /\ Line[s][1] \in Extent(s)
         /\ backup = None => Extent(s) = ToSet(Line[s])
<1>1. ASSUME NEW n \in Extent(s), n \notin ToSet(Line[s])
      PROVE  n \in Slices /\ n \notin Nodes /\ backup # None
  <2>1. backup # None /\ n \in {At(j) : j \in 1..backup.nint}
    BY <1>1 DEF Extent
  <2>2. backup.nint \in 1..MaxSlices
    BY <2>1 DEF Shapes
  <2> QED
    BY <2>1, <2>2, SlicesAre
<1>2. ToSet(Line[s]) \subseteq Nodes /\ Line[s][1] \in ToSet(Line[s])
  BY LineIs
<1>3. Extent(s) \subseteq Nodes \union Slices
  BY <1>1, <1>2
<1>4. IsFiniteSet(Extent(s))
  <2> DEFINE D == Nodes \union Slices
  <2>1. IsFiniteSet(D) /\ Extent(s) \in SUBSET D
    BY <1>3, NodesFinite
  <2> HIDE DEF D
  <2> QED
    BY <2>1, FS_Subset
<1>5. ToSet(Line[s]) \subseteq Extent(s) /\ (backup = None => Extent(s) = ToSet(Line[s]))
  BY DEF Extent
<1> QED
  BY <1>1, <1>2, <1>3, <1>4, <1>5

LEMMA ExtentsApart ==
  ASSUME Shapes, NEW s \in Sequ, NEW t \in Sequ, NEW n \in Extent(s), n \in Extent(t)
  PROVE  s = t
<1>1. CASE n \in Nodes
  <2>1. n \in ToSet(Line[s]) /\ n \in ToSet(Line[t])
    BY <1>1, ExtentIs
  <2> QED
    BY <2>1, OneSequence
<1>2. CASE n \notin Nodes
  <2>1. n \notin ToSet(Line[s]) /\ n \notin ToSet(Line[t])
    BY <1>2, LineIs
  <2>2. backup.node \in ToSet(Line[s]) /\ backup.node \in ToSet(Line[t])
    BY <2>1 DEF Extent
  <2> QED
    BY <2>2, OneSequence
<1> QED
  BY <1>1, <1>2

LEMMA ExpandedIn ==
  ASSUME Shapes, NEW s \in Sequ, s \in expanded => Stays(s)
  PROVE  Expanded(s) \subseteq Extent(s)
<1>1. CASE s \notin expanded
  BY <1>1 DEF Expanded
<1>2. CASE s \in expanded
  <2>1. PICK L : L = Extent(s)
    OBVIOUS
  <2>2. PICK a, b : a = Line[s][1] /\ b = Last(Line[s])
    OBVIOUS
  <2>3. a \in L /\ \A n \in L : n # b => next[n] \in L
    BY <1>2, <2>1, <2>2, ExtentIs DEF Stays
  <2>4. Walk(a, b) \subseteq L
    BY <2>3, WalkIn
  <2> QED
    BY <1>2, <2>1, <2>2, <2>4 DEF Expanded
<1> QED
  BY <1>1, <1>2

-----------------------------------------------------------------------------
(* Points.                                                                 *)

PointSet == [by : {"at", "slice"}, count : Nat \ {0}]

PointMap == [Nodes \union Slices -> PointSet \union {None}]

LEMMA PointsIs ==
  ASSUME NEW cmd \in Selects, NEW l \in Nat
  PROVE  Points(cmd, l) \in PointSet \union {None}
<1>1. cmd.at \in Nat /\ cmd.step \in Nat /\ cmd.slice \in Nat \ {0}
  BY InterpolationAssumption
<1> DEFINE nint == IF cmd.step > 0 THEN Max({l \div cmd.step, 1}) ELSE cmd.slice
<1>2. nint \in Nat \ {0}
  <2>1. CASE cmd.step > 0
    <3>1. PICK q : q = l \div cmd.step
      OBVIOUS
    <3>2. q \in Int
      BY <1>1, <2>1, <3>1
    <3>3. \E x \in {q, 1} : \A y \in {q, 1} : x >= y
      BY <3>2
    <3>4. PICK m : m = Max({q, 1})
      OBVIOUS
    <3>5. m \in {q, 1} /\ m >= 1
      BY <3>2, <3>3, <3>4 DEF Max
    <3> QED
      BY <2>1, <3>1, <3>2, <3>4, <3>5
  <2> QED
    BY <1>1, <2>1
<1>3. Points(cmd, l) \in {None, [by |-> "at", count |-> cmd.at], [by |-> "slice", count |-> nint]}
      /\ (Points(cmd, l) = [by |-> "at", count |-> cmd.at] /\ Points(cmd, l) # None
            /\ Points(cmd, l) # [by |-> "slice", count |-> nint] => cmd.at > 0)
  BY DEF Points
<1> HIDE DEF nint
<1>4. cmd.at > 0 => [by |-> "at", count |-> cmd.at] \in PointSet
  BY <1>1 DEF PointSet
<1>5. [by |-> "slice", count |-> nint] \in PointSet
  BY <1>2 DEF PointSet
<1> QED
  BY <1>3, <1>4, <1>5

LEMMA ExtraIs ==
  ASSUME NEW at \in PointSet \union {None}
  PROVE  Extra(at) \in Nat /\ (at = None => Extra(at) = 0)
<1>1. None \notin PointSet
  BY InterpolationAssumption DEF PointSet
<1> QED
  BY <1>1 DEF Extra, PointSet

LEMMA NodeLengthIs ==
  ASSUME Shapes, NEW s \in Sequ, NEW n \in Extent(s)
  PROVE  NodeLength(n) \in Nat /\ (n \in Nodes => NodeLength(n) = Length[n])
<1>1. CASE n \in Nodes
  <2>1. n \notin Slices /\ Length[n] \in Nat
    BY <1>1, InterpolationAssumption
  <2> QED
    BY <1>1, <2>1 DEF NodeLength
<1>2. CASE n \notin Nodes
  <2>1. n \in Slices /\ backup # None
    BY <1>2, ExtentIs
  <2>2. backup.node \in Nodes /\ backup.nint \in 1..MaxSlices
    BY <2>1 DEF Shapes
  <2>3. PICK l, k : l = Length[backup.node] /\ k = backup.nint
    OBVIOUS
  <2>4. l \in Nat /\ k \in Nat \ {0}
    BY <2>2, <2>3, InterpolationAssumption
  <2>5. l \div k \in Nat
    BY <2>4
  <2> QED
    BY <1>2, <2>1, <2>3, <2>5 DEF NodeLength
<1> QED
  BY <1>1, <1>2

(***************************************************************************)
(* The rows that points add to a set of nodes.                             *)
(***************************************************************************)
Rows(at, S) == SumOver([n \in S |-> Extra(at[n])], S)

LEMMA RowsAre ==
  ASSUME NEW at, NEW S
  PROVE  MapThenSumSet(LAMBDA n : Extra(at[n]), S) = Rows(at, S)
<1>1. \A T \in SUBSET S : T # {} => (CHOOSE x \in T : TRUE) \in S
  OBVIOUS
<1> QED
  BY ZenonT(60), <1>1 DEF MapThenSumSet, MapThenFoldSet, Rows, SumOver, OneOf

LEMMA GainsAre ==
  ASSUME NEW old, NEW new, NEW S
  PROVE  MapThenSumSet(LAMBDA n : Gain(old[n], new[n]), S)
           = SumOver([n \in S |-> Gain(old[n], new[n])], S)
<1>1. \A T \in SUBSET S : T # {} => (CHOOSE x \in T : TRUE) \in S
  OBVIOUS
<1> QED
  BY ZenonT(60), <1>1 DEF MapThenSumSet, MapThenFoldSet, SumOver, OneOf

LEMMA ExtrasAre ==
  ASSUME NEW at \in PointMap, NEW S, IsFiniteSet(S), S \subseteq Nodes \union Slices
  PROVE  /\ Summable([n \in S |-> Extra(at[n])], S)
         /\ \A n \in S : [m \in S |-> Extra(at[m])][n] = Extra(at[n]) /\ Extra(at[n]) \in Nat
         /\ Rows(at, S) \in Nat
<1> DEFINE f == [n \in S |-> Extra(at[n])]
<1>1. \A n \in S : f[n] = Extra(at[n]) /\ Extra(at[n]) \in Nat
  <2>1. \A n \in S : at[n] \in PointSet \union {None}
    BY DEF PointMap
  <2> QED
    BY <2>1, ExtraIs
<1> HIDE DEF f
<1>2. Summable(f, S)
  BY <1>1 DEF Summable
<1>3. S \in SUBSET S /\ {} \in SUBSET S /\ \A n \in S : f[n] >= 0
  BY <1>1
<1>4. SumOver(f, S) \in Int
  BY <1>2, <1>3, SumParts
<1>5. SumOver(f, {}) <= SumOver(f, S) /\ SumOver(f, {}) = 0
  BY <1>2, <1>3, SumGrows, SumEmpty
<1> QED
  BY <1>1, <1>2, <1>4, <1>5 DEF f, Rows

-----------------------------------------------------------------------------
(* A selection.                                                            *)

Hits(cmd, n) ==
  /\ \E s \in Sequ : n \in ToSet(Line[s]) /\ cmd.sequ \in {None, s}
  /\ cmd.class \in {"any", IF n \in Bends THEN "bend" ELSE "other"}

(***************************************************************************)
(* The nodes that the sequences are taken to have.                         *)
(***************************************************************************)
Nodal(N) == DOMAIN N = Sequ /\ \A s \in Sequ : N[s] \subseteq Extent(s)

States(N) == [nodes : {N}, at : PointMap, num : [Sequ -> Int]]

LEMMA PassesHits ==
  ASSUME NEW cmd, NEW n \in Nodes
  PROVE  Passes(cmd, n) <=> cmd.class \in {"any", IF n \in Bends THEN "bend" ELSE "other"}
<1>1. n \notin Slices
  BY InterpolationAssumption
<1> QED
  BY <1>1 DEF Passes

(***************************************************************************)
(* A selection gives points to the nodes it hits, and adds to num_interp   *)
(* what that changes.                                                      *)
(***************************************************************************)
LEMMA SelectedIs ==
  ASSUME Shapes, NEW N, Nodal(N), NEW state \in States(N), NEW cmd \in Selects,
         NEW t, t = Selected(state, cmd)
  PROVE  /\ t \in States(N)
         /\ \A s \in Sequ : t.num[s] - Rows(t.at, N[s]) = state.num[s] - Rows(state.at, N[s])
         /\ \A s \in Sequ : \A n \in N[s] \intersect Nodes :
              t.at[n] = IF Hits(cmd, n) THEN Points(cmd, Length[n]) ELSE state.at[n]
<1> DEFINE F(s) == Fetched(N, cmd, s)
           new == [n \in Nodes \union Slices |-> IF \E s \in Sequ : n \in F(s)
                                                 THEN Points(cmd, NodeLength(n)) ELSE state.at[n]]
           num == [s \in Sequ |-> state.num[s]
                     + MapThenSumSet(LAMBDA n : Gain(state.at[n], new[n]), F(s))]
<1>1. state.nodes = N /\ state.at \in PointMap /\ state.num \in [Sequ -> Int]
  BY DEF States
<1>2. DOMAIN state.at = Nodes \union Slices
  BY <1>1 DEF PointMap
<1>3. t.nodes = N /\ t.at = new /\ t.num = num /\ t = [nodes |-> N, at |-> new, num |-> num]
  BY <1>1, <1>2 DEF Selected
<1>4. \A s \in Sequ : F(s) \subseteq N[s] /\ N[s] \subseteq Extent(s)
  BY DEF Fetched, Nodal
<1>5. new \in PointMap
  <2>1. ASSUME NEW n \in Nodes \union Slices
        PROVE  new[n] \in PointSet \union {None}
    <3>1. CASE \E s \in Sequ : n \in F(s)
      <4>1. NodeLength(n) \in Nat
        BY <1>4, <3>1, NodeLengthIs
      <4>2. new[n] = Points(cmd, NodeLength(n))
        BY <3>1
      <4> HIDE DEF new
      <4> QED
        BY <4>1, <4>2, PointsIs
    <3>2. CASE ~\E s \in Sequ : n \in F(s)
      BY <1>1, <3>2 DEF PointMap
    <3> QED
      BY <3>1, <3>2
  <2> QED
    BY <2>1 DEF PointMap
<1>6. \A n \in Nodes \union Slices : (\A s \in Sequ : n \notin F(s)) => new[n] = state.at[n]
  OBVIOUS
<1>7. \A n \in Nodes \union Slices : (\E s \in Sequ : n \in F(s)) => new[n] = Points(cmd, NodeLength(n))
  OBVIOUS
<1> HIDE DEF new
<1>8. ASSUME NEW s \in Sequ
      PROVE  /\ num[s] \in Int
             /\ num[s] - Rows(new, N[s]) = state.num[s] - Rows(state.at, N[s])
  <2> DEFINE S == N[s]
             A == F(s)
             f == [n \in S |-> Extra(state.at[n])]
             g == [n \in S |-> Extra(new[n])]
             d == [n \in A |-> Gain(state.at[n], new[n])]
  <2>1. IsFiniteSet(S) /\ S \subseteq Nodes \union Slices /\ A \in SUBSET S
    <3>1. IsFiniteSet(Extent(s)) /\ Extent(s) \subseteq Nodes \union Slices
      BY ExtentIs
    <3>2. S \in SUBSET Extent(s) /\ A \in SUBSET S
      BY <1>4
    <3>3. IsFiniteSet(S)
      BY <3>1, <3>2, FS_Subset
    <3> QED
      BY <3>1, <3>2, <3>3
  <2>2. Summable(f, S) /\ \A n \in S : f[n] = Extra(state.at[n])
    <3> HIDE DEF S
    <3> QED
      BY <1>1, <2>1, ExtrasAre
  <2>3. Summable(g, S) /\ \A n \in S : g[n] = Extra(new[n])
    <3> HIDE DEF S
    <3> QED
      BY <1>5, <2>1, ExtrasAre
  <2>4. \A n \in S \ A : g[n] = f[n]
    <3> SUFFICES ASSUME NEW n \in S \ A
                 PROVE  g[n] = f[n]
      OBVIOUS
    <3>1. ASSUME NEW u \in Sequ, n \in F(u)
          PROVE  FALSE
      <4>1. n \in Extent(u) /\ n \in Extent(s)
        BY <1>4, <3>1
      <4>2. u = s
        BY <4>1, ExtentsApart
      <4> QED
        BY <3>1, <4>2
    <3>2. n \in S /\ n \in Nodes \union Slices
      BY <2>1
    <3>3. new[n] = state.at[n]
      BY <1>6, <3>1, <3>2
    <3> QED
      BY <2>2, <2>3, <3>2, <3>3
  <2>5. \A n \in A : d[n] = g[n] - f[n]
    <3>1. \A n \in A : d[n] = Extra(new[n]) - Extra(state.at[n]) /\ n \in S
      BY <2>1 DEF Gain
    <3> QED
      BY <2>2, <2>3, <3>1
  <2>6. num[s] = state.num[s] + SumOver(d, A)
    <3>1. MapThenSumSet(LAMBDA n : Gain(state.at[n], new[n]), A) = SumOver(d, A)
      <4> HIDE DEF A
      <4> QED
        BY GainsAre
    <3> QED
      BY <3>1
  <2>7. Rows(new, S) = SumOver(g, S) /\ Rows(state.at, S) = SumOver(f, S)
    BY DEF Rows
  <2> HIDE DEF f, g, d, S, A, num
  <2>8. SumOver(g, S) = SumOver(f, S) + SumOver(d, A) /\ SumOver(d, A) \in Int
    <3>1. PICK SS, AA, ff, gg, dd : SS = S /\ AA = A /\ ff = f /\ gg = g /\ dd = d
      OBVIOUS
    <3>2. Summable(ff, SS) /\ Summable(gg, SS) /\ AA \in SUBSET SS
      BY <2>1, <2>2, <2>3, <3>1
    <3>3. \A n \in SS \ AA : gg[n] = ff[n]
      BY <2>4, <3>1
    <3>4. \A n \in AA : dd[n] = gg[n] - ff[n]
      BY <2>5, <3>1
    <3>5. SumOver(gg, SS) = SumOver(ff, SS) + SumOver(dd, AA) /\ SumOver(dd, AA) \in Int
      BY ONLY <3>2, <3>3, <3>4, SumChange
    <3> QED
      BY <3>1, <3>5
  <2>9. SumOver(f, S) \in Int /\ state.num[s] \in Int
    <3>1. S \in SUBSET S
      OBVIOUS
    <3> QED
      BY <1>1, <2>2, <3>1, SumParts
  <2>10. Rows(new, S) = Rows(state.at, S) + SumOver(d, A) /\ Rows(state.at, S) \in Int
    BY <2>7, <2>8, <2>9
  <2>11. num[s] - Rows(new, S) = state.num[s] - Rows(state.at, S) /\ num[s] \in Int
    BY ONLY <2>6, <2>8, <2>9, <2>10
  <2> QED
    BY <2>11 DEF S
<1>9. num \in [Sequ -> Int]
  BY <1>8
<1> HIDE DEF num
<1>10. t \in States(N)
  BY <1>3, <1>5, <1>9 DEF States
<1>11. ASSUME NEW s \in Sequ, NEW n \in N[s] \intersect Nodes
       PROVE  t.at[n] = IF Hits(cmd, n) THEN Points(cmd, Length[n]) ELSE state.at[n]
  <2>1. n \in Extent(s) /\ n \in Nodes /\ n \in ToSet(Line[s])
    BY <1>4, ExtentIs
  <2>2. \A u \in Sequ : n \in ToSet(Line[u]) => u = s
    BY <2>1, OneSequence
  <2>3. NodeLength(n) = Length[n]
    BY <2>1, NodeLengthIs
  <2>4. ASSUME Hits(cmd, n)
        PROVE  n \in F(s)
    <3>1. cmd.sequ \in {None, s} /\ Passes(cmd, n)
      BY <2>1, <2>2, <2>4, PassesHits DEF Hits
    <3> QED
      BY <3>1 DEF Fetched
  <2>5. ASSUME NEW u \in Sequ, n \in F(u)
        PROVE  Hits(cmd, n)
    <3>1. n \in Extent(u) /\ cmd.sequ \in {None, u} /\ Passes(cmd, n)
      BY <1>4, <2>5 DEF Fetched
    <3>2. n \in ToSet(Line[u])
      BY <2>1, <3>1, ExtentIs
    <3> QED
      BY <2>1, <3>1, <3>2, PassesHits DEF Hits
  <2> QED
    BY <1>3, <1>6, <1>7, <2>1, <2>3, <2>4, <2>5
<1>12. \A s \in Sequ : t.num[s] - Rows(t.at, N[s]) = state.num[s] - Rows(state.at, N[s])
  BY <1>3, <1>8
<1> QED
  BY <1>10, <1>11, <1>12

-----------------------------------------------------------------------------
(* All selections that are kept.                                           *)

LEMMA GreatestIs ==
  ASSUME NEW n \in Nat, NEW T \in SUBSET (1..n), T # {}
  PROVE  Max(T) \in T /\ \A y \in T : y <= Max(T)
<1> DEFINE F == {n - x : x \in T}
<1>1. F \subseteq Nat /\ F # {}
  <2>1. \A x \in T : n - x \in Nat
    OBVIOUS
  <2>2. \E x \in T : n - x \in F
    OBVIOUS
  <2> QED
    BY <2>1, <2>2
<1>2. PICK a \in F : \A y \in F : a <= y
  <2> HIDE DEF F
  <2> QED
    BY <1>1, LeastNatural
<1>3. PICK x \in T : a = n - x
  BY <1>2
<1>4. \A y \in T : x >= y
  <2> SUFFICES ASSUME NEW y \in T
               PROVE  x >= y
    OBVIOUS
  <2>1. n - x <= n - y
    BY <1>2, <1>3
  <2> QED
    BY <2>1
<1>5. \E m \in T : \A y \in T : m >= y
  BY <1>4
<1> HIDE DEF F
<1>6. Max(T) \in T /\ \A y \in T : Max(T) >= y
  BY <1>5 DEF Max
<1> QED
  BY <1>6

(***************************************************************************)
(* One selection after the other, in their order.                          *)
(***************************************************************************)
IsReplay(h, state) ==
  /\ h[0] = state
  /\ \A k \in 0..Len(interp_select) - 1 : h[k + 1] = Selected(h[k], interp_select[k + 1])

LEMMA ReplaySteps ==
  ASSUME Shapes, NEW N, Nodal(N), NEW state \in States(N), interp_select \in Seq(Selects)
  PROVE  \E h : IsReplay(h, state) /\ h[Len(interp_select)] = Replayed(state)
<1> DEFINE S == 1..Len(interp_select)
           V == States(N)
           pick == [T \in SUBSET S |-> Max(T)]
           op == [i \in S |-> [x \in V |-> Selected(x, interp_select[i])]]
           Body(g) == [T \in SUBSET S |-> IF T = {} THEN state
                        ELSE Selected(g[T \ {Max(T)}], interp_select[Max(T)])]
           c == CHOOSE g : g = Body(g)
<1>1. Len(interp_select) \in Nat /\ DOMAIN interp_select = S
      /\ \A i \in S : interp_select[i] \in Selects
  OBVIOUS
<1>2. IsFiniteSet(S)
  <2>1. 1 \in Int /\ Len(interp_select) \in Int
    BY <1>1
  <2> QED
    BY <2>1, FS_Interval
<1>3. \A T \in SUBSET S : T # {} => Max(T) \in T
  BY <1>1, GreatestIs
<1>4. \A T \in SUBSET S : T # {} => pick[T] \in T
  BY <1>3
<1>5. op \in [S -> [V -> V]]
  <2>1. \A i \in S, x \in V : Selected(x, interp_select[i]) \in V
    BY <1>1, SelectedIs
  <2> HIDE DEF V, S
  <2> QED
    BY <2>1
<1>6. PICK f : IsFold(f, S, V, state, pick, op)
  <2>1. state \in V
    OBVIOUS
  <2> HIDE DEF V, S, pick, op
  <2> QED
    BY <1>2, <1>4, <1>5, <2>1, FoldExists
<1>7. f \in [SUBSET S -> V] /\ f = FoldBody(S, state, pick, op, f)
  <2> HIDE DEF V, S, pick, op
  <2> QED
    BY <1>6 DEF IsFold
<1>8. f = Body(f)
  <2>1. ASSUME NEW T \in SUBSET S
        PROVE  f[T] = IF T = {} THEN state
                      ELSE Selected(f[T \ {Max(T)}], interp_select[Max(T)])
    <3>1. f[T] = IF T = {} THEN state ELSE op[pick[T]][f[T \ {pick[T]}]]
      <4>1. FoldBody(S, state, pick, op, f)[T]
              = IF T = {} THEN state ELSE op[pick[T]][f[T \ {pick[T]}]]
        <5> HIDE DEF V, S, pick, op
        <5> QED
          BY DEF FoldBody
      <4> HIDE DEF V, S, pick, op
      <4> QED
        BY <1>7, <4>1
    <3>2. pick[T] = Max(T)
      OBVIOUS
    <3>3. ASSUME T # {}
          PROVE  op[Max(T)][f[T \ {Max(T)}]]
                   = Selected(f[T \ {Max(T)}], interp_select[Max(T)])
      <4>1. Max(T) \in S /\ T \ {Max(T)} \in SUBSET S
        BY <1>3, <3>3
      <4>2. f[T \ {Max(T)}] \in V
        <5> HIDE DEF V, S
        <5> QED
          BY <1>7, <4>1
      <4> HIDE DEF V, S
      <4> QED
        BY <4>1, <4>2
    <3> HIDE DEF V, S, pick, op
    <3> QED
      BY <3>1, <3>2, <3>3
  <2>2. f = [T \in SUBSET S |-> f[T]]
    BY <1>7
  <2> HIDE DEF S
  <2> QED
    BY <2>1, <2>2
<1>9. c = Body(c)
  <2> HIDE DEF Body
  <2> QED
    BY <1>8
<1>10. Replayed(state) = c[S]
  BY <1>1 DEF Replayed, FoldLeft, MapThenFoldSet
<1> HIDE DEF c
<1>11. \A T \in SUBSET S : c[T] = IF T = {} THEN state
                                  ELSE Selected(c[T \ {Max(T)}], interp_select[Max(T)])
  BY <1>9
<1> DEFINE h == [k \in 0..Len(interp_select) |-> c[1..k]]
<1>12. h[0] = state
  <2>1. 1..0 = {}
    OBVIOUS
  <2>2. {} \in SUBSET S /\ 0 \in 0..Len(interp_select)
    BY <1>1
  <2>3. h[0] = c[{}]
    BY <2>1, <2>2
  <2> QED
    BY <1>11, <2>2, <2>3
<1>13. ASSUME NEW k \in 0..Len(interp_select) - 1
       PROVE  h[k + 1] = Selected(h[k], interp_select[k + 1])
  <2>1. PICK T : T = 1..(k + 1)
    OBVIOUS
  <2>2. T \in SUBSET S /\ T # {} /\ k + 1 \in T /\ T \ {k + 1} = 1..k /\ k \in Nat
    <3>1. k \in Nat /\ k + 1 <= Len(interp_select)
      BY <1>1
    <3>2. T \subseteq S /\ k + 1 \in T
      BY <1>1, <2>1, <3>1
    <3>3. T \ {k + 1} = 1..k
      BY <2>1, <3>1
    <3> QED
      BY <3>1, <3>2, <3>3
  <2>3. Max(T) = k + 1
    <3>1. Max(T) \in T /\ k + 1 <= Max(T)
      BY <1>1, <2>2, GreatestIs
    <3> QED
      BY <2>1, <2>2, <3>1
  <2>4. h[k + 1] = c[T] /\ h[k] = c[1..k]
    BY <1>1, <2>1
  <2> HIDE DEF h, S
  <2> QED
    BY <1>11, <2>2, <2>3, <2>4
<1>14. h[Len(interp_select)] = Replayed(state)
  BY <1>1, <1>10
<1>15. IsReplay(h, state)
  <2> HIDE DEF h
  <2> QED
    BY <1>12, <1>13 DEF IsReplay
<1> HIDE DEF h
<1> QED
  BY <1>14, <1>15

(***************************************************************************)
(* The last of the selections in a list that hits a node.                  *)
(***************************************************************************)
Latest(list, n, i) ==
  /\ i \in 1..Len(list)
  /\ Hits(list[i], n)
  /\ \A j \in 1..Len(list) : j > i => ~Hits(list[j], n)

Missed(list, n) == \A i \in 1..Len(list) : ~Hits(list[i], n)

LEMMA ReplayedIs ==
  ASSUME Shapes, NEW N, Nodal(N), NEW state \in States(N), interp_select \in Seq(Selects),
         NEW t, t = Replayed(state)
  PROVE  /\ t \in States(N)
         /\ \A s \in Sequ : t.num[s] - Rows(t.at, N[s]) = state.num[s] - Rows(state.at, N[s])
         /\ \A s \in Sequ : \A n \in N[s] \intersect Nodes :
              /\ Missed(interp_select, n) => t.at[n] = state.at[n]
              /\ \A i \in Nat : Latest(interp_select, n, i)
                                  => t.at[n] = Points(interp_select[i], Length[n])
<1>1. PICK len, list : len = Len(interp_select) /\ list = interp_select
  OBVIOUS
<1>2. len \in Nat /\ \A i \in 1..len : list[i] \in Selects
  BY <1>1
<1>3. PICK h : IsReplay(h, state) /\ h[len] = t
  BY <1>1, ReplaySteps
<1>4. h[0] = state /\ \A k \in 0..len - 1 : h[k + 1] = Selected(h[k], list[k + 1])
  BY <1>1, <1>3 DEF IsReplay
<1> DEFINE Kept(x) == \A s \in Sequ :
             x.num[s] - Rows(x.at, N[s]) = state.num[s] - Rows(state.at, N[s])
           T == {k \in Nat : k <= len => h[k] \in States(N) /\ Kept(h[k])}
<1>5. 0 \in T
  BY <1>4
<1>6. ASSUME NEW k \in Nat, k \in T
      PROVE  k + 1 \in T
  <2> SUFFICES ASSUME k + 1 <= len
               PROVE  h[k + 1] \in States(N) /\ Kept(h[k + 1])
    OBVIOUS
  <2>1. k \in 0..len - 1 /\ k + 1 \in 1..len /\ h[k] \in States(N) /\ Kept(h[k])
    BY <1>2, <1>6
  <2>2. PICK x, cmd : x = h[k] /\ cmd = list[k + 1]
    OBVIOUS
  <2>3. x \in States(N) /\ cmd \in Selects /\ h[k + 1] = Selected(x, cmd)
    BY <1>2, <1>4, <2>1, <2>2
  <2>4. h[k + 1] \in States(N) /\ \A s \in Sequ :
          h[k + 1].num[s] - Rows(h[k + 1].at, N[s]) = x.num[s] - Rows(x.at, N[s])
    BY <2>3, SelectedIs
  <2> QED
    BY <2>1, <2>2, <2>4
<1>7. Nat \subseteq T
  <2> HIDE DEF T
  <2> QED
    BY <1>5, <1>6, SetInduction
<1>8. \A k \in 0..len : h[k] \in States(N) /\ Kept(h[k])
  BY <1>2, <1>7
<1>9. ASSUME NEW s \in Sequ, NEW n \in N[s] \intersect Nodes, NEW k \in 0..len - 1
      PROVE  h[k + 1].at[n] = IF Hits(list[k + 1], n) THEN Points(list[k + 1], Length[n])
                              ELSE h[k].at[n]
  <2>1. h[k] \in States(N) /\ list[k + 1] \in Selects /\ h[k + 1] = Selected(h[k], list[k + 1])
    BY <1>2, <1>4, <1>8
  <2> QED
    BY <2>1, SelectedIs
<1> HIDE DEF Kept, T
<1>10. ASSUME NEW s \in Sequ, NEW n \in N[s] \intersect Nodes, NEW i \in 0..len,
              \A j \in 1..len : j > i => ~Hits(list[j], n)
       PROVE  t.at[n] = h[i].at[n]
  <2> DEFINE U == {k \in Nat : k >= i /\ k <= len => h[k].at[n] = h[i].at[n]}
  <2>1. 0 \in U
    BY <1>2
  <2>2. ASSUME NEW k \in Nat, k \in U
        PROVE  k + 1 \in U
    <3> SUFFICES ASSUME k + 1 >= i, k + 1 <= len
                 PROVE  h[k + 1].at[n] = h[i].at[n]
      OBVIOUS
    <3>1. CASE k + 1 = i
      BY <3>1
    <3>2. CASE k + 1 # i
      <4>1. k >= i /\ k <= len /\ k \in 0..len - 1 /\ k + 1 \in 1..len /\ k + 1 > i
        BY <1>2, <3>2
      <4>2. ~Hits(list[k + 1], n)
        BY <1>10, <4>1
      <4>3. h[k].at[n] = h[i].at[n]
        BY <2>2, <4>1
      <4> QED
        BY <1>9, <4>1, <4>2, <4>3
    <3> QED
      BY <3>1, <3>2
  <2>3. Nat \subseteq U
    <3> HIDE DEF U
    <3> QED
      BY <2>1, <2>2, SetInduction
  <2>4. len \in U /\ len >= i
    BY <1>2, <2>3
  <2> QED
    BY <1>2, <1>3, <2>4
<1>11. ASSUME NEW s \in Sequ, NEW n \in N[s] \intersect Nodes, Missed(list, n)
       PROVE  t.at[n] = state.at[n]
  <2>1. \A j \in 1..len : j > 0 => ~Hits(list[j], n)
    BY <1>1, <1>11 DEF Missed
  <2>2. 0 \in 0..len
    BY <1>2
  <2> QED
    BY <1>4, <1>10, <2>1, <2>2
<1>12. ASSUME NEW s \in Sequ, NEW n \in N[s] \intersect Nodes, NEW i \in Nat, Latest(list, n, i)
       PROVE  t.at[n] = Points(list[i], Length[n])
  <2>1. i \in 1..len /\ Hits(list[i], n) /\ \A j \in 1..len : j > i => ~Hits(list[j], n)
    BY <1>1, <1>12 DEF Latest
  <2>2. i \in 0..len /\ i - 1 \in 0..len - 1 /\ (i - 1) + 1 = i
    BY <1>2, <2>1
  <2>3. t.at[n] = h[i].at[n]
    BY <1>10, <2>1, <2>2
  <2>4. PICK k \in 0..len - 1 : k + 1 = i
    BY <2>2
  <2> QED
    BY <1>9, <2>1, <2>3, <2>4
<1>13. t \in States(N) /\ Kept(t)
  <2>1. len \in 0..len
    BY <1>2
  <2> QED
    BY <1>3, <1>8, <2>1
<1> QED
  BY <1>1, <1>11, <1>12, <1>13 DEF Kept

LEMMA RowsGrow ==
  ASSUME NEW at \in PointMap, NEW T, IsFiniteSet(T), T \subseteq Nodes \union Slices,
         NEW S \in SUBSET T
  PROVE  /\ Rows(at, S) <= Rows(at, T) /\ Rows(at, S) \in Nat /\ Rows(at, T) \in Nat
         /\ (\A n \in T \ S : at[n] = None) => Rows(at, S) = Rows(at, T)
<1> DEFINE f == [n \in T |-> Extra(at[n])]
           g == [n \in S |-> Extra(at[n])]
<1>1. IsFiniteSet(S) /\ S \subseteq Nodes \union Slices
  BY FS_Subset
<1>2. /\ Summable(f, T) /\ Rows(at, T) \in Nat
      /\ \A n \in T : f[n] = Extra(at[n]) /\ Extra(at[n]) \in Nat
  BY ExtrasAre
<1>3. /\ Summable(g, S) /\ Rows(at, S) \in Nat
      /\ \A n \in S : g[n] = Extra(at[n])
  BY <1>1, ExtrasAre
<1>4. Rows(at, T) = SumOver(f, T) /\ Rows(at, S) = SumOver(g, S)
  BY DEF Rows
<1>5. ASSUME NEW n \in T \ S, at[n] = None
      PROVE  f[n] = 0
  <2>1. at[n] \in PointSet \union {None} /\ f[n] = Extra(at[n])
    BY <1>2 DEF PointMap
  <2> QED
    BY <1>5, <2>1, ExtraIs
<1> HIDE DEF f, g
<1>6. SumOver(f, S) = SumOver(g, S)
  <2>1. \A n \in S : f[n] = g[n]
    BY <1>2, <1>3
  <2> QED
    BY <1>3, <2>1, SumSame
<1>7. SumOver(f, S) <= SumOver(f, T)
  <2>1. \A n \in T : f[n] >= 0
    BY <1>2
  <2> QED
    BY <1>2, <2>1, SumGrows
<1>8. ASSUME \A n \in T \ S : at[n] = None
      PROVE  SumOver(f, T) = SumOver(f, S)
  <2>1. \A n \in T \ S : f[n] = 0
    BY <1>5, <1>8
  <2> QED
    BY <1>2, <2>1, SumZeros
<1> QED
  BY <1>2, <1>3, <1>4, <1>6, <1>7, <1>8

LEMMA RowsSame ==
  ASSUME NEW at \in PointMap, NEW to, NEW S, IsFiniteSet(S), S \subseteq Nodes \union Slices,
         \A n \in S : to[n] = at[n]
  PROVE  Rows(to, S) = Rows(at, S)
<1> DEFINE f == [n \in S |-> Extra(at[n])]
           g == [n \in S |-> Extra(to[n])]
<1>1. Summable(f, S) /\ \A n \in S : g[n] = f[n]
  BY ExtrasAre
<1>2. Rows(at, S) = SumOver(f, S) /\ Rows(to, S) = SumOver(g, S)
  BY DEF Rows
<1> HIDE DEF f, g
<1>3. SumOver(g, S) = SumOver(f, S)
  BY <1>1, SumSame
<1> QED
  BY <1>2, <1>3

-----------------------------------------------------------------------------
(* The invariant of the points.                                            *)

(***************************************************************************)
(* The user's view, from the commands that are kept.                       *)
(***************************************************************************)
Says(list, gave) ==
  \A n \in Nodes :
    \/ gave[n] = None /\ Missed(list, n)
    \/ \E i \in Nat : Latest(list, n, i) /\ gave[n] = Points(list[i], Length[n])

(***************************************************************************)
(* The nodes that a loop over a sequence meets, and the node that slices   *)
(* stand for as long as they do.                                           *)
(***************************************************************************)
Reach(s) == IF backup = None \/ slicing THEN ToSet(Line[s]) ELSE Expanded(s)

Agree == \A s \in expanded : \A n \in Reach(s) \intersect Nodes : interp_at[n] = given[n]

Enough == \A s \in expanded : num_interp[s] >= Rows(interp_at, Reach(s))

PointShapes ==
  /\ interp_at \in PointMap
  /\ num_interp \in [Sequ -> Nat]
  /\ interp_select \in Seq(Selects)
  /\ DOMAIN given = Nodes

(***************************************************************************)
(* What a truncated plot leaves does not lead out of a sequence.           *)
(***************************************************************************)
Left ==
  backup # None =>
    /\ \E s \in expanded : backup.node \in ToSet(Line[s])
    /\ ~slicing => \A s \in expanded : Stays(s)
    /\ slicing => \A n \in Slices : interp_at[n] = None

PointInv ==
  /\ IInv
  /\ PointShapes
  /\ Says(interp_select, given)
  /\ Agree
  /\ Enough
  /\ Left

(***************************************************************************)
(* Rings, and rings with slices, do not lead out of their sequences.       *)
(***************************************************************************)
LEMMA RingStays ==
  ASSUME Shapes, backup = None, NEW s \in Sequ, Ring(s)
  PROVE  Stays(s)
<1>1. Extent(s) = ToSet(Line[s])
  BY ExtentIs
<1>2. ASSUME NEW n \in ToSet(Line[s])
      PROVE  next[n] \in ToSet(Line[s])
  <2>1. PICK i \in 1..Len(Line[s]) : n = Line[s][i]
    BY LineIs
  <2>2. next[n] = After(s, i)
    BY <2>1 DEF Ring
  <2> QED
    BY <2>2, AfterIs
<1> QED
  BY <1>1, <1>2 DEF Stays

LEMMA SlicedStays ==
  ASSUME Shapes, backup # None, Sliced(backup.node, backup.nint), NEW s \in expanded
  PROVE  Stays(s)
<1> SUFFICES ASSUME NEW x \in Extent(s)
             PROVE  next[x] \in Extent(s)
  BY DEF Stays
<1>1. PICK node, n : node = backup.node /\ n = backup.nint
  OBVIOUS
<1>2. s \in Sequ /\ n \in 1..MaxSlices /\ Open(s, node, n) /\ Chain(node, n)
  BY <1>1 DEF Shapes, Sliced
<1>3. 1 \in 1..n /\ \A j \in 1..n - 1 : j + 1 \in 1..n
  BY <1>2, SlicesAre
<1>4. node \in ToSet(Line[s]) => \A j \in 1..n : At(j) \in Extent(s)
  BY <1>1 DEF Extent
<1>5. ASSUME NEW i \in 1..Len(Line[s])
      PROVE  next[Line[s][i]] \in Extent(s)
  <2>1. next[Line[s][i]] = IF After(s, i) = node THEN At(1) ELSE After(s, i)
    BY <1>2 DEF Open
  <2>2. After(s, i) \in ToSet(Line[s])
    BY <1>2, AfterIs
  <2>3. After(s, i) \in Extent(s)
    BY <2>2 DEF Extent
  <2> QED
    BY <1>3, <1>4, <2>1, <2>2, <2>3
<1>6. CASE x \in ToSet(Line[s])
  <2>1. PICK i \in 1..Len(Line[s]) : x = Line[s][i]
    BY <1>2, <1>6, LineIs
  <2> QED
    BY <1>5, <2>1
<1>7. CASE x \notin ToSet(Line[s])
  <2>1. node \in ToSet(Line[s]) /\ x \in {At(j) : j \in 1..n}
    BY <1>1, <1>7 DEF Extent
  <2>2. PICK j \in 1..n : x = At(j)
    BY <2>1
  <2>3. CASE j = n
    <3>1. next[x] = next[node]
      BY <1>2, <2>2, <2>3 DEF Chain
    <3>2. PICK i \in 1..Len(Line[s]) : node = Line[s][i]
      BY <1>2, <2>1, LineIs
    <3> QED
      BY <1>5, <3>1, <3>2
  <2>4. CASE j # n
    <3>1. n \in Int
      BY <1>2, InterpolationAssumption
    <3>2. j \in 1..n - 1
      BY <2>4, <3>1
    <3>3. next[x] = At(j + 1)
      BY <1>2, <2>2, <3>2 DEF Chain
    <3> QED
      BY <1>3, <1>4, <2>1, <3>2, <3>3
  <2> QED
    BY <2>3, <2>4
<1> QED
  BY <1>6, <1>7

LEMMA ReachIs ==
  ASSUME PointInv, ~slicing, NEW s \in Sequ
  PROVE  /\ s \in expanded => Reach(s) = Expanded(s) /\ Stays(s)
         /\ s \notin expanded => Expanded(s) = {}
         /\ Expanded(s) \subseteq Extent(s) /\ Expanded(s) \subseteq Nodes \union Slices
         /\ IsFiniteSet(Expanded(s))
<1>1. Shapes /\ (backup = None => Closed) /\ Left
  BY DEF PointInv, IInv
<1>2. ASSUME s \in expanded
      PROVE  Reach(s) = Expanded(s) /\ Stays(s)
  <2>1. CASE backup = None
    <3>1. Ring(s)
      BY <1>1, <1>2, <2>1 DEF Closed
    <3>2. Stays(s) /\ Expanded(s) = ToSet(Line[s])
      BY <1>1, <1>2, <2>1, <3>1, RingStays, WholeWalk
    <3> QED
      BY <2>1, <3>2 DEF Reach
  <2>2. CASE backup # None
    BY <1>1, <1>2, <2>2 DEF Left, Reach
  <2> QED
    BY <2>1, <2>2
<1>3. s \in expanded => Reach(s) = Expanded(s) /\ Stays(s)
  BY <1>2
<1>4. Expanded(s) \subseteq Extent(s)
  BY <1>1, <1>3, ExpandedIn
<1>5. Extent(s) \subseteq Nodes \union Slices /\ IsFiniteSet(Extent(s))
  BY <1>1, ExtentIs
<1>6. IsFiniteSet(Expanded(s))
  BY <1>4, <1>5, FS_Subset
<1> QED
  BY <1>3, <1>4, <1>5, <1>6 DEF Expanded

LEMMA PointInvSelected ==
  ASSUME PointInv
  PROVE  AsSelected /\ EnoughRows
<1>1. CASE slicing
  BY <1>1 DEF AsSelected, EnoughRows
<1>2. CASE ~slicing
  <2>1. \A s \in expanded : s \in Sequ /\ Reach(s) = Expanded(s)
    BY <1>2, ReachIs DEF PointInv, IInv, Shapes
  <2>2. AsSelected
    BY <2>1 DEF PointInv, Agree, AsSelected
  <2>3. ASSUME NEW s \in expanded
        PROVE  num_interp[s] >= MapThenSumSet(LAMBDA n : Extra(interp_at[n]), Expanded(s))
    <3>1. num_interp[s] >= Rows(interp_at, Expanded(s))
      BY <2>1, <2>3 DEF PointInv, Enough
    <3>2. MapThenSumSet(LAMBDA n : Extra(interp_at[n]), Expanded(s)) = Rows(interp_at, Expanded(s))
      BY RowsAre
    <3> QED
      BY <3>1, <3>2
  <2> QED
    BY <2>2, <2>3 DEF EnoughRows
<1> QED
  BY <1>1, <1>2

LEMMA InitPoints == Init => PointInv
<1> SUFFICES ASSUME Init
             PROVE  PointInv
  OBVIOUS
<1>1. IInv
  BY InitIInv
<1>2. PointShapes
  BY DEF Init, PointShapes, PointMap
<1>3. Says(interp_select, given)
  BY DEF Init, Says, Missed
<1>4. Agree /\ Enough /\ Left
  BY DEF Init, Agree, Enough, Left
<1> QED
  BY <1>1, <1>2, <1>3, <1>4 DEF PointInv

(***************************************************************************)
(* SELECT.                                                                 *)
(***************************************************************************)
LEMMA SaysMore ==
  ASSUME NEW list \in Seq(Selects), NEW gave, Says(list, gave), NEW cmd, NEW new,
         \A n \in Nodes : new[n] = IF Hits(cmd, n) THEN Points(cmd, Length[n]) ELSE gave[n]
  PROVE  Says(Append(list, cmd), new)
<1>1. PICK more, len : more = Append(list, cmd) /\ len = Len(list)
  OBVIOUS
<1>2. /\ len \in Nat /\ Len(more) = len + 1 /\ more[len + 1] = cmd
      /\ \A i \in 1..len : more[i] = list[i]
  BY <1>1
<1>3. \A i \in 1..len + 1 : i \in 1..len \/ i = len + 1
  BY <1>2
<1>4. len + 1 \in 1..len + 1 /\ \A i \in 1..len : i \in 1..len + 1
  BY <1>2
<1> SUFFICES ASSUME NEW n \in Nodes
             PROVE  \/ new[n] = None /\ Missed(more, n)
                    \/ \E i \in Nat : Latest(more, n, i) /\ new[n] = Points(more[i], Length[n])
  BY <1>1 DEF Says
<1>5. CASE Hits(cmd, n)
  <2>1. Latest(more, n, len + 1)
    <3>1. \A j \in 1..len + 1 : ~(j > len + 1)
      BY <1>2
    <3> QED
      BY <1>2, <1>4, <1>5, <3>1 DEF Latest
  <2>2. new[n] = Points(more[len + 1], Length[n])
    BY <1>2, <1>5
  <2> QED
    BY <1>2, <2>1, <2>2
<1>6. CASE ~Hits(cmd, n)
  <2>1. new[n] = gave[n]
    BY <1>6
  <2>2. CASE gave[n] = None /\ Missed(list, n)
    <3>1. \A i \in 1..len + 1 : ~Hits(more[i], n)
      BY <1>1, <1>2, <1>3, <1>6, <2>2 DEF Missed
    <3> QED
      BY <1>2, <2>1, <2>2, <3>1 DEF Missed
  <2>3. CASE \E i \in Nat : Latest(list, n, i) /\ gave[n] = Points(list[i], Length[n])
    <3>1. PICK i \in Nat : Latest(list, n, i) /\ gave[n] = Points(list[i], Length[n])
      BY <2>3
    <3>2. i \in 1..len /\ Hits(list[i], n) /\ \A j \in 1..len : j > i => ~Hits(list[j], n)
      BY <1>1, <3>1 DEF Latest
    <3>3. \A j \in 1..len + 1 : j > i => ~Hits(more[j], n)
      BY <1>2, <1>3, <1>6, <3>2
    <3>4. Latest(more, n, i)
      BY <1>2, <1>4, <3>2, <3>3 DEF Latest
    <3> QED
      BY <1>2, <2>1, <3>1, <3>2, <3>4
  <2> QED
    BY <2>2, <2>3 DEF Says
<1> QED
  BY <1>5, <1>6

LEMMA SaysClear ==
  ASSUME NEW cmd, cmd.clear, ~Filtered(cmd), NEW new,
         \A n \in Nodes : new[n] = IF Hits(cmd, n) THEN Points(cmd, Length[n]) ELSE given[n]
  PROVE  Says(<<>>, new)
<1> SUFFICES ASSUME NEW n \in Nodes
             PROVE  new[n] = None /\ Missed(<<>>, n)
  BY DEF Says
<1>1. Hits(cmd, n)
  <2>1. PICK s \in Sequ : n \in ToSet(Line[s])
    BY DEF Nodes
  <2> QED
    BY <2>1 DEF Hits, Filtered
<1>2. Points(cmd, Length[n]) = None
  BY DEF Points
<1> QED
  BY <1>1, <1>2 DEF Missed

LEMMA SelectPoints ==
  ASSUME PointInv, Select
  PROVE  PointInv'
<1> DEFINE N == [s \in Sequ |-> Expanded(s)]
           state == [at |-> interp_at, num |-> num_interp, nodes |-> N]
<1>1. /\ ~slicing /\ IInv' /\ Shapes
      /\ UNCHANGED <<used, expanded, next, previous, backup, slicing>>
  BY NextIInv DEF PointInv, IInv, Select, Next, ring, clones
<1>2. PICK cmd \in Selects :
        /\ interp_select' = Stored(cmd)
        /\ interp_at' = Selected(state, cmd).at /\ num_interp' = Selected(state, cmd).num
        /\ given' = [n \in Nodes |->
             IF (\E s \in Sequ : n \in ToSet(Line[s]) /\ cmd.sequ \in {None, s}) /\ Passes(cmd, n)
             THEN Points(cmd, Length[n]) ELSE given[n]]
  BY DEF Select, Give
<1>3. /\ interp_at \in PointMap /\ num_interp \in [Sequ -> Nat] /\ interp_select \in Seq(Selects)
      /\ Says(interp_select, given)
  BY DEF PointInv, PointShapes
<1>4. state \in States(N)
  <2>1. num_interp \in [Sequ -> Int]
    BY <1>3
  <2> HIDE DEF N
  <2> QED
    BY <1>3, <2>1 DEF States
<1>5. Nodal(N)
  BY <1>1, ReachIs DEF Nodal
<1>6. PICK t : t = Selected(state, cmd)
  OBVIOUS
<1>7. interp_at' = t.at /\ num_interp' = t.num
  BY <1>2, <1>6
<1>8. state.at = interp_at /\ state.num = num_interp
  OBVIOUS
<1>9. /\ t \in States(N)
      /\ \A s \in Sequ : t.num[s] - Rows(t.at, N[s]) = num_interp[s] - Rows(interp_at, N[s])
      /\ \A s \in Sequ : \A n \in N[s] \intersect Nodes :
           t.at[n] = IF Hits(cmd, n) THEN Points(cmd, Length[n]) ELSE interp_at[n]
  <2> HIDE DEF N, state
  <2> QED
    BY <1>1, <1>4, <1>5, <1>6, <1>8, SelectedIs
<1>10. interp_at' \in PointMap /\ num_interp' \in [Sequ -> Int]
  BY <1>7, <1>9 DEF States
<1>11. \A n \in Nodes : given'[n] = IF Hits(cmd, n) THEN Points(cmd, Length[n]) ELSE given[n]
  BY <1>2, PassesHits DEF Hits
<1>12. interp_select' \in Seq(Selects) /\ Says(interp_select, given)'
  <2>1. CASE cmd.clear /\ ~Filtered(cmd)
    <3>1. interp_select' = <<>>
      BY <1>2, <2>1 DEF Stored
    <3>2. Says(<<>>, given')
      BY <1>11, <2>1, SaysClear
    <3> QED
      BY <3>1, <3>2
  <2>2. CASE ~(cmd.clear /\ ~Filtered(cmd))
    <3>1. interp_select' = Append(interp_select, cmd)
      BY <1>2, <2>2 DEF Stored
    <3>2. Says(Append(interp_select, cmd), given')
      BY <1>3, <1>11, SaysMore
    <3> QED
      BY <1>3, <3>1, <3>2
  <2> QED
    BY <2>1, <2>2
<1>13. ASSUME NEW s \in Sequ
       PROVE  Expanded(s)' = Expanded(s) /\ Reach(s)' = Reach(s) /\ N[s] = Expanded(s)
  BY <1>1 DEF Expanded, Walk, Reach
<1>14. ASSUME NEW s \in expanded
       PROVE  s \in Sequ /\ Reach(s)' = N[s] /\ Reach(s) = N[s]
  <2>1. s \in Sequ
    BY <1>1 DEF Shapes
  <2> QED
    BY <1>1, <1>13, <2>1, ReachIs
<1> HIDE DEF N, state
<1>15. Agree'
  <2> SUFFICES ASSUME NEW s \in expanded, NEW n \in N[s] \intersect Nodes
               PROVE  interp_at'[n] = given'[n]
    BY <1>1, <1>14 DEF Agree
  <2>1. s \in Sequ /\ interp_at[n] = given[n]
    BY <1>14 DEF PointInv, Agree
  <2> QED
    BY <1>7, <1>9, <1>11, <2>1
<1>16. ASSUME NEW s \in Sequ
       PROVE  /\ Rows(t.at, N[s]) \in Nat /\ Rows(interp_at, N[s]) \in Nat
              /\ s \notin expanded => Rows(t.at, N[s]) = Rows(interp_at, N[s])
  <2>1. t.at \in PointMap
    BY <1>9 DEF States
  <2>2. IsFiniteSet(N[s]) /\ N[s] \subseteq Nodes \union Slices /\ (s \notin expanded => N[s] = {})
    BY <1>1, <1>13, ReachIs
  <2>3. s \notin expanded => \A n \in N[s] : t.at[n] = interp_at[n]
    BY <2>2
  <2>4. s \notin expanded => Rows(t.at, N[s]) = Rows(interp_at, N[s])
    BY <1>3, <2>2, <2>3, RowsSame
  <2>5. Rows(t.at, N[s]) \in Nat /\ Rows(interp_at, N[s]) \in Nat
    BY <1>3, <2>1, <2>2, ExtrasAre
  <2> QED
    BY <2>4, <2>5
<1>17. ASSUME NEW s \in expanded
       PROVE  num_interp[s] >= Rows(interp_at, N[s])
  BY <1>14 DEF PointInv, Enough
<1>18. ASSUME NEW s \in Sequ
       PROVE  t.num[s] \in Nat /\ (s \in expanded => t.num[s] >= Rows(t.at, N[s]))
  <2>1. t.num[s] \in Int /\ num_interp[s] \in Nat
    BY <1>3, <1>9 DEF States
  <2>2. t.num[s] - Rows(t.at, N[s]) = num_interp[s] - Rows(interp_at, N[s])
    BY <1>9
  <2> QED
    BY <1>16, <1>17, <2>1, <2>2
<1>19. Enough'
  <2> SUFFICES ASSUME NEW s \in expanded
               PROVE  num_interp'[s] >= Rows(interp_at', N[s])
    BY <1>1, <1>14 DEF Enough
  <2> QED
    BY <1>7, <1>14, <1>18
<1>20. PointShapes'
  <2>1. num_interp' \in [Sequ -> Nat]
    BY <1>7, <1>10, <1>18
  <2> QED
    BY <1>2, <1>10, <1>12, <2>1 DEF PointShapes
<1>21. Left'
  BY <1>1 DEF PointInv, Left, Stays, Extent
<1> QED
  BY <1>1, <1>12, <1>15, <1>19, <1>20, <1>21 DEF PointInv

(***************************************************************************)
(* USE.                                                                    *)
(***************************************************************************)
NodesAtUse(s) == [u \in Sequ |-> IF u = s THEN ToSet(Line[s]) ELSE Expanded(u)]

PointsAtUse(s) ==
  [n \in DOMAIN interp_at |-> IF n \in ToSet(Line[s]) THEN None ELSE interp_at[n]]

StateAtUse(s) == [at |-> PointsAtUse(s), num |-> num_interp, nodes |-> NodesAtUse(s)]

LEMMA UseGives ==
  ASSUME Shapes, Use
  PROVE  \E s \in Sequ :
           /\ expanded' = expanded \union {s} /\ DOMAIN next' = DOMAIN next
           /\ \A n \in ToSet(Line[s]) : next'[n] \in ToSet(Line[s])
           /\ \A n \in DOMAIN next : n \notin ToSet(Line[s]) => next'[n] = next[n]
           /\ UNCHANGED <<backup, slicing, interp_select, given>>
           /\ Give(IF interp_select = <<>> THEN StateAtUse(s) ELSE Replayed(StateAtUse(s)))
<1> DEFINE Place(s, n) == CHOOSE i \in 1..Len(Line[s]) : Line[s][i] = n
<1>1. PICK s \in Sequ :
        /\ expanded' = expanded \union {s}
        /\ next' = [n \in DOMAIN next |->
                      IF n \in ToSet(Line[s]) THEN After(s, Place(s, n)) ELSE next[n]]
        /\ UNCHANGED <<clones, slicing, exited, interp_select, given>>
        /\ Give(IF interp_select = <<>> THEN StateAtUse(s) ELSE Replayed(StateAtUse(s)))
  BY Zenon DEF Use, After, StateAtUse, PointsAtUse, NodesAtUse
<1>4. \A n \in ToSet(Line[s]) : next'[n] \in ToSet(Line[s])
  <2> SUFFICES ASSUME NEW n \in ToSet(Line[s])
               PROVE  next'[n] \in ToSet(Line[s])
    OBVIOUS
  <2>1. n \in DOMAIN next
    BY LineIs DEF Shapes
  <2>2. \E i \in 1..Len(Line[s]) : Line[s][i] = n
    BY LineIs
  <2>3. Place(s, n) \in 1..Len(Line[s])
    BY <2>2
  <2> HIDE DEF Place
  <2>4. next'[n] = After(s, Place(s, n))
    BY <1>1, <2>1
  <2> QED
    BY <2>3, <2>4, AfterIs
<1> HIDE DEF Place
<1>2. DOMAIN next' = DOMAIN next
      /\ \A n \in DOMAIN next : n \notin ToSet(Line[s]) => next'[n] = next[n]
  BY <1>1
<1>3. UNCHANGED <<backup, slicing, interp_select, given>>
  BY <1>1 DEF clones
<1> QED
  BY <1>1, <1>2, <1>3, <1>4

LEMMA ReplayNone ==
  ASSUME Shapes, NEW N, Nodal(N), NEW state \in States(N), interp_select = <<>>
  PROVE  Replayed(state) = state
<1>1. interp_select \in Seq(Selects) /\ Len(interp_select) = 0
  OBVIOUS
<1> QED
  BY <1>1, ReplaySteps DEF IsReplay

LEMMA UsePoints ==
  ASSUME PointInv, Use
  PROVE  PointInv'
<1>1. ~slicing /\ IInv' /\ Shapes /\ Shapes' /\ Left /\ expanded \subseteq Sequ
  BY NextIInv DEF PointInv, IInv, Use, Next, Shapes
<1>2. PICK s \in Sequ :
        /\ expanded' = expanded \union {s} /\ DOMAIN next' = DOMAIN next
        /\ \A n \in ToSet(Line[s]) : next'[n] \in ToSet(Line[s])
        /\ \A n \in DOMAIN next : n \notin ToSet(Line[s]) => next'[n] = next[n]
        /\ UNCHANGED <<backup, slicing, interp_select, given>>
        /\ Give(IF interp_select = <<>> THEN StateAtUse(s) ELSE Replayed(StateAtUse(s)))
  BY <1>1, UseGives
<1>3. PICK N, at, state : N = NodesAtUse(s) /\ at = PointsAtUse(s) /\ state = StateAtUse(s)
  OBVIOUS
<1>4. /\ interp_at \in PointMap /\ num_interp \in [Sequ -> Nat] /\ interp_select \in Seq(Selects)
      /\ Says(interp_select, given)
  BY DEF PointInv, PointShapes
<1>5. /\ N[s] = ToSet(Line[s]) /\ DOMAIN N = Sequ
      /\ \A u \in Sequ : u # s => N[u] = Expanded(u)
  BY <1>3 DEF NodesAtUse
<1>6. /\ at \in PointMap
      /\ \A n \in Nodes \union Slices :
           at[n] = IF n \in ToSet(Line[s]) THEN None ELSE interp_at[n]
  <2>1. DOMAIN interp_at = Nodes \union Slices
    BY <1>4 DEF PointMap
  <2> QED
    BY <1>3, <1>4, <2>1 DEF PointMap, PointsAtUse
<1>7. Nodal(N) /\ \A u \in Sequ : N[u] \subseteq Extent(u)
  <2>1. ToSet(Line[s]) \subseteq Extent(s)
    BY DEF Extent
  <2>2. \A u \in Sequ : N[u] \subseteq Extent(u)
    BY <1>1, <1>5, <2>1, ReachIs
  <2> QED
    BY <1>5, <2>2 DEF Nodal
<1>8. state \in States(N) /\ state.at = at /\ state.num = num_interp
  <2>1. num_interp \in [Sequ -> Int]
    BY <1>4
  <2>2. state = [at |-> at, num |-> num_interp, nodes |-> N]
    BY <1>3 DEF StateAtUse
  <2> QED
    BY <1>6, <2>1, <2>2 DEF States
<1>9. PICK t : t = Replayed(state)
  OBVIOUS
<1>10. interp_at' = t.at /\ num_interp' = t.num
  <2>1. interp_select = <<>> => t = state
    BY <1>1, <1>7, <1>8, <1>9, ReplayNone
  <2> QED
    BY <1>2, <1>3, <1>9, <2>1 DEF Give
<1>11. /\ t \in States(N)
       /\ \A u \in Sequ : t.num[u] - Rows(t.at, N[u]) = num_interp[u] - Rows(at, N[u])
       /\ \A u \in Sequ : \A n \in N[u] \intersect Nodes :
            /\ Missed(interp_select, n) => t.at[n] = at[n]
            /\ \A i \in Nat : Latest(interp_select, n, i)
                                => t.at[n] = Points(interp_select[i], Length[n])
  BY <1>1, <1>4, <1>7, <1>8, <1>9, ReplayedIs
<1>12. t.at \in PointMap /\ t.num \in [Sequ -> Int]
  BY <1>11 DEF States
<1>13. ASSUME NEW u \in Sequ
       PROVE  IsFiniteSet(N[u]) /\ N[u] \subseteq Nodes \union Slices
  <2>1. N[u] \in SUBSET Extent(u) /\ IsFiniteSet(Extent(u)) /\ Extent(u) \subseteq Nodes \union Slices
    BY <1>1, <1>7, ExtentIs
  <2> QED
    BY <2>1, FS_Subset
<1>14. ASSUME NEW u \in Sequ, u # s, NEW n \in Extent(u)
       PROVE  n \notin ToSet(Line[s]) /\ n \in Nodes \union Slices /\ next'[n] = next[n]
  <2>1. n \in Nodes \union Slices
    BY <1>1, <1>14, ExtentIs
  <2>2. n \notin ToSet(Line[s])
    <3> SUFFICES ASSUME n \in ToSet(Line[s])
                 PROVE  FALSE
      OBVIOUS
    <3>1. n \in Extent(s)
      BY DEF Extent
    <3> QED
      BY <1>1, <1>14, <3>1, ExtentsApart
  <2>3. n \in DOMAIN next
    BY <1>1, <2>1 DEF Shapes
  <2> QED
    BY <1>2, <2>1, <2>2, <2>3
<1>15. ASSUME NEW u \in Sequ
       PROVE  Extent(u)' = Extent(u) /\ Line[u][1] \in Extent(u)
  BY <1>1, <1>2, ExtentIs DEF Extent
<1>16. Cardinality(DOMAIN next) \in Nat
  BY <1>1, WalkIs
<1>17. ASSUME NEW u \in expanded, u # s
       PROVE  Expanded(u)' = Expanded(u)
  <2>1. u \in Sequ /\ Stays(u)
    BY <1>1, ReachIs
  <2>2. PICK a, b, L : a = Line[u][1] /\ b = Last(Line[u]) /\ L = Extent(u)
    OBVIOUS
  <2>3. a \in L /\ \A n \in L : next[n] \in L /\ next'[n] = next[n]
    BY <1>14, <1>15, <1>17, <2>1, <2>2 DEF Stays
  <2>4. WalkOf(next', a, b) = WalkOf(next, a, b)
    BY <1>2, <1>16, <2>3, WalkSame
  <2>5. Expanded(u) = WalkOf(next, a, b) /\ Expanded(u)' = WalkOf(next', a, b)
    BY <1>2, <2>2 DEF Expanded, Walk, WalkOf
  <2> QED
    BY <2>4, <2>5
<1>18. Expanded(s)' \subseteq ToSet(Line[s])
  <2>1. PICK a, b, L : a = Line[s][1] /\ b = Last(Line[s]) /\ L = ToSet(Line[s])
    OBVIOUS
  <2>2. a \in L /\ \A n \in L : n # b => next'[n] \in L
    BY <1>2, <2>1, LineIs
  <2>3. PICK k : k = Cardinality(DOMAIN next')
    OBVIOUS
  <2>4. k \in Nat
    BY <1>2, <1>16, <2>3
  <2>5. PICK met : IsWalk(met, k, L, next', a, b) /\ WalkOf(next', a, b) = met[k]
    BY <2>2, <2>3, <2>4, WalkSteps
  <2>6. met[k] \subseteq L
    BY <2>4, <2>5 DEF IsWalk
  <2>7. Expanded(s)' = WalkOf(next', a, b)
    BY <1>2, <2>1 DEF Expanded, Walk, WalkOf
  <2> QED
    BY <2>1, <2>5, <2>6, <2>7
<1>19. ASSUME NEW u \in expanded'
       PROVE  /\ u \in Sequ /\ Reach(u)' \subseteq N[u]
              /\ u # s => u \in expanded /\ Reach(u)' = N[u] /\ Reach(u) = N[u]
  <2>1. u \in Sequ /\ (u # s => u \in expanded)
    BY <1>1, <1>2
  <2>2. Reach(u)' = IF backup = None THEN ToSet(Line[u]) ELSE Expanded(u)'
    BY <1>1, <1>2 DEF Reach
  <2>3. CASE u = s
    BY <1>5, <1>18, <2>1, <2>2, <2>3
  <2>4. CASE u # s
    <3>1. Reach(u) = Expanded(u) /\ N[u] = Expanded(u)
      BY <1>1, <1>5, <2>1, <2>4, ReachIs
    <3>2. Reach(u) = IF backup = None THEN ToSet(Line[u]) ELSE Expanded(u)
      BY <1>1 DEF Reach
    <3>3. Expanded(u)' = Expanded(u)
      BY <1>17, <2>1, <2>4
    <3> QED
      BY <2>1, <2>2, <2>4, <3>1, <3>2, <3>3
  <2> QED
    BY <2>3, <2>4
<1>20. Agree'
  <2> SUFFICES ASSUME NEW u \in expanded', NEW n \in Reach(u)' \intersect Nodes
               PROVE  interp_at'[n] = given[n]
    BY <1>2 DEF Agree
  <2>1. u \in Sequ /\ n \in N[u] \intersect Nodes
    BY <1>19
  <2>2. CASE given[n] = None /\ Missed(interp_select, n)
    <3>1. t.at[n] = at[n]
      BY <1>11, <2>1, <2>2
    <3>2. at[n] = None
      <4>1. CASE u = s
        BY <1>5, <1>6, <2>1, <4>1
      <4>2. CASE u # s
        <5>1. u \in expanded /\ n \in Reach(u)
          BY <1>19, <4>2
        <5>2. interp_at[n] = given[n]
          BY <5>1 DEF PointInv, Agree
        <5> QED
          BY <1>6, <2>2, <5>2
      <4> QED
        BY <4>1, <4>2
    <3> QED
      BY <1>10, <2>2, <3>1, <3>2
  <2>3. CASE \E i \in Nat : Latest(interp_select, n, i)
                            /\ given[n] = Points(interp_select[i], Length[n])
    BY <1>10, <1>11, <2>1, <2>3
  <2> QED
    BY <1>4, <2>2, <2>3 DEF Says
<1>21. ASSUME NEW u \in Sequ
       PROVE  /\ Rows(t.at, N[u]) \in Nat
              /\ u = s => Rows(at, N[u]) = 0
              /\ u # s => Rows(at, N[u]) = Rows(interp_at, N[u])
              /\ Rows(interp_at, N[u]) \in Nat
  <2>1. Rows(t.at, N[u]) \in Nat /\ Rows(interp_at, N[u]) \in Nat
    BY <1>4, <1>12, <1>13, ExtrasAre
  <2>2. ASSUME u = s
        PROVE  Rows(at, N[u]) = 0
    <3>1. {} \in SUBSET N[u] /\ \A n \in N[u] \ {} : at[n] = None
      BY <1>5, <1>6, <1>13, <2>2
    <3>2. Rows(at, {}) = Rows(at, N[u])
      BY <1>6, <1>13, <3>1, RowsGrow
    <3> QED
      BY <3>2, SumEmpty DEF Rows
  <2>3. ASSUME u # s
        PROVE  Rows(at, N[u]) = Rows(interp_at, N[u])
    <3>1. \A n \in N[u] : at[n] = interp_at[n]
      BY <1>6, <1>7, <1>14, <2>3
    <3> QED
      BY <1>4, <1>13, <3>1, RowsSame
  <2> QED
    BY <2>1, <2>2, <2>3
<1>22. ASSUME NEW u \in expanded, u # s
       PROVE  num_interp[u] >= Rows(interp_at, N[u])
  BY <1>2, <1>19, <1>22 DEF PointInv, Enough
<1>24. ASSUME NEW u \in Sequ
       PROVE  t.num[u] \in Nat /\ (u \in expanded' => t.num[u] >= Rows(t.at, N[u]))
  <2>1. t.num[u] \in Int /\ num_interp[u] \in Nat
    BY <1>4, <1>12
  <2>2. t.num[u] - Rows(t.at, N[u]) = num_interp[u] - Rows(at, N[u])
    BY <1>11
  <2>3. CASE u = s
    BY <1>21, <2>1, <2>2, <2>3
  <2>4. CASE u # s /\ u \in expanded
    BY <1>21, <1>22, <2>1, <2>2, <2>4
  <2>5. CASE u # s /\ u \notin expanded
    <3>1. N[u] = {} /\ u \notin expanded'
      BY <1>1, <1>2, <1>5, <2>5, ReachIs
    <3>2. Rows(t.at, N[u]) = 0 /\ Rows(at, N[u]) = 0
      BY <3>1, SumEmpty DEF Rows
    <3> QED
      BY <2>1, <2>2, <3>1, <3>2
  <2> QED
    BY <2>3, <2>4, <2>5
<1>25. Enough'
  <2> SUFFICES ASSUME NEW u \in expanded'
               PROVE  num_interp'[u] >= Rows(interp_at', Reach(u)')
    BY DEF Enough
  <2>1. u \in Sequ /\ Reach(u)' \in SUBSET N[u]
    BY <1>19
  <2>2. /\ Rows(t.at, Reach(u)') <= Rows(t.at, N[u])
        /\ Rows(t.at, Reach(u)') \in Nat /\ Rows(t.at, N[u]) \in Nat
    BY <1>12, <1>13, <2>1, RowsGrow
  <2>3. t.num[u] >= Rows(t.at, N[u]) /\ t.num[u] \in Nat
    BY <1>24, <2>1
  <2>4. num_interp'[u] = t.num[u] /\ interp_at' = t.at
    BY <1>10
  <2> QED
    BY <2>2, <2>3, <2>4
<1>26. Says(interp_select, given)' /\ PointShapes'
  <2>1. num_interp' \in [Sequ -> Nat]
    BY <1>10, <1>12, <1>24
  <2>2. Says(interp_select, given)'
    BY <1>2, <1>4
  <2> QED
    BY <1>2, <1>4, <1>10, <1>12, <2>1, <2>2 DEF PointShapes, PointInv
<1>27. ASSUME backup # None, NEW u \in expanded'
       PROVE  Stays(u)'
  <2> SUFFICES ASSUME NEW n \in Extent(u)
               PROVE  next'[n] \in Extent(u)
    BY <1>1, <1>2, <1>15 DEF Stays
  <2>1. u \in Sequ /\ (u # s => u \in expanded)
    BY <1>19
  <2>2. CASE u \in expanded /\ n \notin ToSet(Line[s])
    <3>1. Stays(u) /\ n \in DOMAIN next
      BY <1>1, <2>1, <2>2, ReachIs, ExtentIs DEF Shapes
    <3> QED
      BY <1>2, <2>2, <3>1 DEF Stays
  <2>3. CASE n \in ToSet(Line[s])
    <3>1. u = s
      BY <1>14, <2>1, <2>3
    <3>2. next'[n] \in ToSet(Line[s])
      BY <1>2, <2>3
    <3> QED
      BY <3>1, <3>2 DEF Extent
  <2>4. CASE u \notin expanded /\ n \notin ToSet(Line[s])
    <3>1. u = s /\ backup.node \in ToSet(Line[s])
      BY <2>1, <2>4 DEF Extent
    <3>2. PICK v \in expanded : backup.node \in ToSet(Line[v])
      BY <1>1, <1>27 DEF Left
    <3>3. v = s
      BY <1>1, <3>1, <3>2, OneSequence
    <3> QED
      BY <2>4, <3>1, <3>2, <3>3
  <2> QED
    BY <2>2, <2>3, <2>4
<1>28. Left'
  BY <1>1, <1>2, <1>27 DEF Left
<1> QED
  BY <1>1, <1>20, <1>25, <1>26, <1>28 DEF PointInv

(***************************************************************************)
(* PLOT and APERTURE.                                                      *)
(***************************************************************************)
LEMMA SlicePoints ==
  ASSUME PointInv, Slice
  PROVE  PointInv'
<1>1. /\ ~slicing /\ backup = None /\ IInv' /\ Shapes' /\ expanded \subseteq Sequ
      /\ backup' # None /\ Sliced(backup.node, backup.nint)' /\ slicing'
      /\ UNCHANGED <<expanded, num_interp, interp_select, given>>
  <2>1. IInv' /\ Shapes'
    BY NextIInv DEF PointInv, IInv, Next
  <2>2. /\ slicing' /\ ~slicing /\ backup = None
        /\ UNCHANGED <<expanded, num_interp, interp_select, given>>
    BY DEF Slice, Interpolate
  <2> QED
    BY <2>1, <2>2 DEF PointInv, IInv, Shapes
<1>2. interp_at' = [n \in DOMAIN interp_at |-> IF n \in Slices THEN None ELSE interp_at[n]]
  BY DEF Slice, Interpolate
<1>3. interp_at \in PointMap /\ PointShapes
  BY DEF PointInv, PointShapes
<1>4. \A n \in Nodes : n \notin Slices /\ interp_at'[n] = interp_at[n]
  BY <1>2, <1>3, InterpolationAssumption DEF PointMap
<1>5. interp_at' \in PointMap /\ \A n \in Slices : interp_at'[n] = None
  BY <1>2, <1>3 DEF PointMap
<1>6. \A s \in Sequ : Reach(s) = ToSet(Line[s]) /\ Reach(s)' = ToSet(Line[s])
  BY <1>1 DEF Reach
<1>7. Agree'
  <2> SUFFICES ASSUME NEW s \in expanded, NEW n \in ToSet(Line[s]) \intersect Nodes
               PROVE  interp_at'[n] = given[n]
    BY <1>1, <1>6 DEF Agree
  <2> QED
    BY <1>1, <1>4, <1>6 DEF PointInv, Agree
<1>8. Enough'
  <2> SUFFICES ASSUME NEW s \in expanded
               PROVE  num_interp[s] >= Rows(interp_at', ToSet(Line[s]))
    BY <1>1, <1>6 DEF Enough
  <2>1. s \in Sequ /\ num_interp[s] >= Rows(interp_at, ToSet(Line[s]))
    BY <1>1, <1>6 DEF PointInv, Enough
  <2>2. /\ IsFiniteSet(ToSet(Line[s])) /\ ToSet(Line[s]) \subseteq Nodes \union Slices
        /\ \A n \in ToSet(Line[s]) : n \in Nodes
    BY <1>1, <2>1, ExtentIs DEF PointInv, IInv
  <2>3. Rows(interp_at', ToSet(Line[s])) = Rows(interp_at, ToSet(Line[s]))
    BY <1>3, <1>4, <2>2, RowsSame
  <2> QED
    BY <2>1, <2>3
<1>9. PointShapes' /\ Says(interp_select, given)'
  BY <1>1, <1>3, <1>5 DEF PointShapes, PointInv
<1>10. Left'
  <2>1. used' \in expanded' /\ (backup.node)' \in ToSet(Line[used'])
    BY <1>1 DEF Sliced, Shapes
  <2> QED
    BY <1>1, <1>5, <2>1 DEF Left
<1> QED
  BY <1>1, <1>7, <1>8, <1>9, <1>10 DEF PointInv

LEMMA ResetPoints ==
  ASSUME PointInv, Reset
  PROVE  PointInv'
<1>1. /\ slicing /\ backup' = None /\ IInv'
      /\ UNCHANGED <<expanded, interp_select, interp_at, num_interp, given>>
  <2>1. IInv'
    BY NextIInv DEF PointInv, Next
  <2>2. /\ slicing /\ backup' = None
        /\ UNCHANGED <<expanded, interp_select, interp_at, num_interp, given>>
    BY DEF Reset, points
  <2> QED
    BY <2>1, <2>2
<1>2. \A s \in Sequ : Reach(s) = ToSet(Line[s]) /\ Reach(s)' = ToSet(Line[s])
  BY <1>1 DEF Reach
<1>3. expanded \subseteq Sequ
  BY DEF PointInv, IInv, Shapes
<1>4. Agree'
  BY <1>1, <1>2, <1>3 DEF PointInv, Agree
<1>5. Enough'
  BY <1>1, <1>2, <1>3 DEF PointInv, Enough
<1>6. PointShapes' /\ Says(interp_select, given)' /\ Left'
  BY <1>1 DEF PointInv, PointShapes, Left
<1> QED
  BY <1>1, <1>4, <1>5, <1>6 DEF PointInv

(***************************************************************************)
(* What a truncated plot leaves has no points but those of the nodes.      *)
(***************************************************************************)
LEMMA TruncatePoints ==
  ASSUME PointInv, Truncate
  PROVE  PointInv'
<1>1. /\ slicing /\ ~slicing' /\ IInv' /\ Shapes /\ expanded \subseteq Sequ
      /\ backup # None /\ Sliced(backup.node, backup.nint)
      /\ UNCHANGED <<expanded, next, backup, interp_select, interp_at, num_interp, given>>
  <2>1. IInv'
    BY NextIInv DEF PointInv, Next
  <2>2. /\ slicing /\ ~slicing'
        /\ UNCHANGED <<expanded, next, backup, interp_select, interp_at, num_interp, given>>
    BY DEF Truncate, ring, clones, points
  <2> QED
    BY <2>1, <2>2 DEF PointInv, IInv, Shapes
<1>2. ASSUME NEW s \in expanded
      PROVE  /\ s \in Sequ /\ Stays(s)
             /\ Reach(s) = ToSet(Line[s]) /\ Reach(s)' = Expanded(s)
             /\ Expanded(s) \subseteq Extent(s)
  <2>1. Reach(s) = ToSet(Line[s]) /\ Reach(s)' = Expanded(s)
    BY <1>1 DEF Reach, Expanded, Walk
  <2>2. s \in Sequ /\ Stays(s)
    BY <1>1, SlicedStays
  <2>3. Expanded(s) \subseteq Extent(s)
    BY <1>1, <2>2, ExpandedIn
  <2> QED
    BY <2>1, <2>2, <2>3
<1>3. interp_at \in PointMap /\ num_interp \in [Sequ -> Nat] /\ \A n \in Slices : interp_at[n] = None
  BY <1>1 DEF PointInv, PointShapes, Left
<1>4. Agree'
  <2> SUFFICES ASSUME NEW s \in expanded, NEW n \in Expanded(s) \intersect Nodes
               PROVE  interp_at[n] = given[n]
    BY <1>1, <1>2 DEF Agree
  <2>1. n \in ToSet(Line[s]) \intersect Nodes
    BY <1>1, <1>2, ExtentIs
  <2> QED
    BY <1>2, <2>1 DEF PointInv, Agree
<1>5. Enough'
  <2> SUFFICES ASSUME NEW s \in expanded
               PROVE  num_interp[s] >= Rows(interp_at, Expanded(s))
    BY <1>1, <1>2 DEF Enough
  <2>1. PICK E, L, W : E = Extent(s) /\ L = ToSet(Line[s]) /\ W = Expanded(s)
    OBVIOUS
  <2>2. s \in Sequ /\ num_interp[s] >= Rows(interp_at, L) /\ W \in SUBSET E
    BY <1>2, <2>1 DEF PointInv, Enough
  <2>3. /\ IsFiniteSet(E) /\ E \subseteq Nodes \union Slices /\ L \in SUBSET E
        /\ \A n \in E \ L : n \in Slices
    BY <1>1, <2>1, <2>2, ExtentIs
  <2>4. Rows(interp_at, L) = Rows(interp_at, E)
    BY <1>3, <2>3, RowsGrow
  <2>5. Rows(interp_at, W) <= Rows(interp_at, E) /\ Rows(interp_at, W) \in Nat
        /\ Rows(interp_at, E) \in Nat
    BY <1>3, <2>2, <2>3, RowsGrow
  <2>6. num_interp[s] \in Nat
    BY <1>3, <2>2
  <2>7. num_interp[s] >= Rows(interp_at, W)
    BY ONLY <2>2, <2>4, <2>5, <2>6
  <2> QED
    BY <2>1, <2>7
<1>6. Left'
  <2>1. \A s \in expanded : Stays(s)'
    BY <1>1, <1>2 DEF Stays, Extent
  <2> QED
    BY <1>1, <2>1 DEF PointInv, Left
<1>7. PointShapes' /\ Says(interp_select, given)'
  BY <1>1 DEF PointInv, PointShapes
<1> QED
  BY <1>1, <1>4, <1>5, <1>6, <1>7 DEF PointInv

LEMMA SamePoints ==
  ASSUME PointInv, IInv', UNCHANGED <<expanded, next, backup, slicing, points>>
  PROVE  PointInv'
<1>1. UNCHANGED <<expanded, next, backup, slicing, interp_select, interp_at, num_interp, given>>
  BY DEF points
<1>2. \A s : Reach(s)' = Reach(s)
  BY <1>1 DEF Reach, Expanded, Walk
<1>3. Agree' /\ Enough'
  BY <1>1, <1>2 DEF PointInv, Agree, Enough
<1>4. Left'
  BY <1>1 DEF PointInv, Left, Stays, Extent
<1>5. PointShapes' /\ Says(interp_select, given)'
  BY <1>1 DEF PointInv, PointShapes
<1> QED
  BY <1>3, <1>4, <1>5 DEF PointInv

LEMMA NextPoints == PointInv /\ [Next]_vars => PointInv'
<1> SUFFICES ASSUME PointInv, [Next]_vars
             PROVE  PointInv'
  OBVIOUS
<1>1. IInv'
  BY NextIInv DEF PointInv
<1>2. CASE Refuse
  BY <1>1, <1>2, SamePoints DEF Refuse, ring, clones
<1>3. CASE UNCHANGED vars
  BY <1>1, <1>3, SamePoints DEF vars, ring, clones
<1> QED
  BY <1>2, <1>3, SelectPoints, UsePoints, SlicePoints, ResetPoints, TruncatePoints DEF Next

(***************************************************************************)
(* The nodes of an expanded sequence have the points that were last        *)
(* selected for them, whenever it was expanded, whatever was cleared, and  *)
(* whatever a truncated plot left in its ring.                             *)
(***************************************************************************)
THEOREM GivenAsSelected == Spec => []AsSelected
<1>1. PointInv => AsSelected
  BY PointInvSelected
<1> QED
  BY <1>1, InitPoints, NextPoints, PTL DEF Spec

(***************************************************************************)
(* num_interp is never less than the rows the points add to the TWISS      *)
(* table: it counts too many after USE, never too few.                     *)
(***************************************************************************)
THEOREM RoomForRows == Spec => []EnoughRows
<1>1. PointInv => EnoughRows
  BY PointInvSelected
<1> QED
  BY <1>1, InitPoints, NextPoints, PTL DEF Spec
=============================================================================
