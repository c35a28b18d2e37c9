--------------------------- MODULE VariablesProofs ---------------------------
(***************************************************************************)
(* Proofs about Variables, for any names, expressions and numbers: what    *)
(* sums, meanings and the names that are reached are, for any definitions, *)
(* with the recursions of Expressions unfolded; then the invariant of      *)
(* Variables, its steps, and the refinement.                               *)
(***************************************************************************)
EXTENDS Variables, Induction, FiniteSetTheorems, SequenceTheorems

-----------------------------------------------------------------------------
(* Sums of items.                                                          *)

Worth(item, known) == IF item \in Name THEN known[item] ELSE item

LEMMA NumberIs == Number \subseteq Nat /\ 0 \in Number /\ Modulus \in Nat \ {0}
BY ExpressionsAssumption DEF Number

LEMMA PlusIs ==
  ASSUME NEW a \in Number, NEW b \in Number
  PROVE  Plus(a, b) \in Number /\ (a = 0 => Plus(a, b) = b)
<1>1. Modulus \in Nat /\ Modulus > 0 /\ a \in Nat /\ b \in Nat /\ b < Modulus
  BY ExpressionsAssumption DEF Number
<1>2. \A n, m \in Nat : m > 0 => n % m \in 0 .. m - 1
  OBVIOUS
<1>3. \A n, m \in Nat : n < m => n % m = n
  OBVIOUS
<1>4. a + b \in Nat /\ (a = 0 => a + b = b)
  BY <1>1
<1>5. (a + b) % Modulus \in 0 .. Modulus - 1
  BY <1>1, <1>2, <1>4
<1>6. a = 0 => (a + b) % Modulus = b
  BY <1>1, <1>3, <1>4
<1> QED
  BY <1>5, <1>6 DEF Plus, Number

LEMMA WorthIs ==
  ASSUME NEW item \in Number \union Name, NEW known \in [Name -> Number]
  PROVE  Worth(item, known) \in Number
BY DEF Worth

(***************************************************************************)
(* The recursion of Sums, unfolded.                                        *)
(***************************************************************************)
LEMMA SumsIs ==
  ASSUME NEW expr \in Expr, NEW known \in [Name -> Number]
  PROVE  /\ Sums(expr, known) \in [0 .. Len(expr) -> Number]
         /\ Sums(expr, known)[0] = 0
         /\ \A i \in 1 .. Len(expr) :
              Sums(expr, known)[i] = Plus(Sums(expr, known)[i - 1], Worth(expr[i], known))
<1> DEFINE N == Len(expr)
           item(k) == IF k \in 1 .. N THEN Worth(expr[k], known) ELSE 0
           step == [k \in Nat |-> [sum \in Number |-> Plus(sum, item(k))]]
           Def(f) == [k \in 0 .. N |->
                        IF k = 0 THEN 0
                        ELSE Plus(f[k - 1], IF expr[k] \in Name THEN known[expr[k]] ELSE expr[k])]
           sums == CHOOSE f : f = Def(f)
<1>1. N \in Nat /\ \A k \in 1 .. N : expr[k] \in Number \union Name
  BY DEF Expr
<1>2. \A k \in Nat : item(k) \in Number
  <2>1. \A k \in 1 .. N : Worth(expr[k], known) \in Number
    BY <1>1, WorthIs
  <2> QED
    BY <2>1, NumberIs
<1>3. PICK g : Iterates(g, Number, 0, step)
  <2>1. step \in [Nat -> [Number -> Number]]
    <3> HIDE DEF item
    <3> QED
      BY <1>2, PlusIs
  <2> HIDE DEF step
  <2> QED
    BY <2>1, NumberIs, Iteration
<1>4. g \in [Nat -> Number] /\ g[0] = 0 /\ \A n \in Nat : g[n + 1] = step[n + 1][g[n]]
  BY <1>3 DEF Iterates
<1> DEFINE h == [k \in 0 .. N |-> g[k]]
<1>5. ASSUME NEW k \in 1 .. N
      PROVE  g[k] = Plus(g[k - 1], Worth(expr[k], known))
  <2>1. k - 1 \in Nat /\ (k - 1) + 1 = k /\ k \in Nat
    BY <1>1
  <2>2. g[k] = step[k][g[k - 1]] /\ g[k - 1] \in Number
    BY <1>4, <2>1
  <2>3. step[k][g[k - 1]] = Plus(g[k - 1], item(k))
    BY <2>1, <2>2
  <2> QED
    BY <2>2, <2>3
<1>6. h = Def(h)
  <2>1. ASSUME NEW k \in 0 .. N
        PROVE  h[k] = Def(h)[k]
    <3>1. CASE k = 0
      BY <1>1, <1>4, <3>1
    <3>2. CASE k # 0
      <4>1. k \in 1 .. N /\ k - 1 \in 0 .. N
        BY <1>1, <3>2
      <4>2. h[k] = g[k] /\ h[k - 1] = g[k - 1]
        BY <4>1
      <4>3. h[k] = Plus(h[k - 1], Worth(expr[k], known))
        BY <1>5, <4>1, <4>2
      <4> HIDE DEF h
      <4>4. Def(h)[k] = Plus(h[k - 1], Worth(expr[k], known))
        BY <3>2 DEF Worth
      <4> QED
        BY <4>3, <4>4
    <3> QED
      BY <3>1, <3>2
  <2>2. h = [k \in 0 .. N |-> h[k]] /\ Def(h) = [k \in 0 .. N |-> Def(h)[k]]
    OBVIOUS
  <2> HIDE DEF h, Def
  <2> QED
    BY <2>1, <2>2
<1>7. sums = Def(sums)
  <2> HIDE DEF Def, h
  <2> QED
    BY <1>6
<1>8. Sums(expr, known) = sums
  BY DEF Sums
<1> HIDE DEF sums
<1>9. sums[0] = 0
  BY <1>1, <1>7
<1>10. ASSUME NEW i \in 1 .. N
       PROVE  sums[i] = Plus(sums[i - 1], Worth(expr[i], known))
  <2>1. i \in 0 .. N /\ i # 0
    BY <1>1
  <2> QED
    BY <1>7, <2>1 DEF Worth
<1>11. sums \in [0 .. N -> Number]
  <2> DEFINE T == {k \in Nat : k <= N => sums[k] \in Number}
  <2>1. 0 \in T
    BY <1>9, NumberIs
  <2>2. ASSUME NEW k \in Nat, k \in T
        PROVE  k + 1 \in T
    <3> SUFFICES ASSUME k + 1 <= N
                 PROVE  sums[k + 1] \in Number
      OBVIOUS
    <3>1. k + 1 \in 1 .. N /\ (k + 1) - 1 = k /\ sums[k] \in Number
      BY <1>1, <2>2
    <3>2. sums[k + 1] = Plus(sums[k], Worth(expr[k + 1], known))
      BY <1>10, <3>1
    <3> QED
      BY <1>1, <3>1, <3>2, PlusIs, WorthIs
  <2>3. Nat \subseteq T
    <3> HIDE DEF T
    <3> QED
      BY <2>1, <2>2, SetInduction
  <2>4. \A k \in 0 .. N : sums[k] \in Number
    BY <1>1, <2>3
  <2>5. sums = [k \in 0 .. N |-> sums[k]]
    <3>1. Def(sums) = [k \in 0 .. N |-> Def(sums)[k]]
      OBVIOUS
    <3> HIDE DEF Def
    <3> QED
      BY <1>7, <3>1
  <2> QED
    BY <2>4, <2>5
<1> QED
  BY <1>8, <1>9, <1>10, <1>11

(***************************************************************************)
(* A sum depends on the values of the names that are in it.                *)
(***************************************************************************)
LEMMA SumsAgree ==
  ASSUME NEW expr \in Expr, NEW a \in [Name -> Number], NEW b \in [Name -> Number],
         \A x \in Names(expr) : a[x] = b[x]
  PROVE  Total(expr, a) = Total(expr, b)
<1> DEFINE N == Len(expr)
           T == {k \in Nat : k <= N => Sums(expr, a)[k] = Sums(expr, b)[k]}
<1>1. N \in Nat
  BY DEF Expr
<1>2. 0 \in T
  BY SumsIs
<1>3. ASSUME NEW k \in Nat, k \in T
      PROVE  k + 1 \in T
  <2> SUFFICES ASSUME k + 1 <= N
               PROVE  Sums(expr, a)[k + 1] = Sums(expr, b)[k + 1]
    OBVIOUS
  <2>1. k + 1 \in 1 .. N /\ (k + 1) - 1 = k /\ Sums(expr, a)[k] = Sums(expr, b)[k]
    BY <1>1, <1>3
  <2>2. Worth(expr[k + 1], a) = Worth(expr[k + 1], b)
    BY <2>1 DEF Worth, Names, Range, Expr
  <2>3. /\ Sums(expr, a)[k + 1] = Plus(Sums(expr, a)[k], Worth(expr[k + 1], a))
        /\ Sums(expr, b)[k + 1] = Plus(Sums(expr, b)[k], Worth(expr[k + 1], b))
    BY <2>1, SumsIs
  <2> QED
    BY <2>1, <2>2, <2>3
<1>4. Nat \subseteq T
  <2> HIDE DEF T
  <2> QED
    BY <1>2, <1>3, SetInduction
<1> QED
  BY <1>1, <1>4 DEF Total

LEMMA TotalIs ==
  ASSUME NEW expr \in Expr, NEW known \in [Name -> Number]
  PROVE  Total(expr, known) \in Number
<1>1. Len(expr) \in 0 .. Len(expr)
  BY DEF Expr
<1> QED
  BY <1>1, SumsIs DEF Total

LEMMA LiteralIs ==
  ASSUME NEW expr \in Expr, Literal(expr), NEW known \in [Name -> Number]
  PROVE  expr[1] \in Number /\ Total(expr, known) = expr[1] /\ Names(expr) = {}
<1>1. Len(expr) = 1 /\ 1 \in 1 .. Len(expr) /\ 1 - 1 = 0 /\ expr[1] \in Number
  BY DEF Literal
<1>2. Sums(expr, known)[1] = Plus(0, Worth(expr[1], known))
  <2>1. Sums(expr, known)[0] = 0
    BY SumsIs
  <2>2. Sums(expr, known)[1] = Plus(Sums(expr, known)[1 - 1], Worth(expr[1], known))
    BY <1>1, SumsIs
  <2> QED
    BY <1>1, <2>1, <2>2
<1>3. expr[1] \notin Name /\ Worth(expr[1], known) = expr[1]
  BY <1>1, ExpressionsAssumption DEF Worth
<1>4. Plus(0, expr[1]) = expr[1]
  BY <1>1, NumberIs, PlusIs
<1>5. Names(expr) = {}
  <2>1. DOMAIN expr = {1}
    BY <1>1 DEF Expr
  <2> QED
    BY <1>3, <2>1 DEF Names, Range
<1> QED
  BY <1>1, <1>2, <1>3, <1>4, <1>5 DEF Total

-----------------------------------------------------------------------------
(* What names mean.                                                        *)

Means(defs, known) ==
  [x \in Name |-> IF defs[x].kind = "deferred" THEN Total(defs[x].expr, known) ELSE defs[x].value]

Zeros == [x \in Name |-> 0]

LEMMA MeansIs ==
  ASSUME NEW defs \in [Name -> Definition], NEW known \in [Name -> Number]
  PROVE  Means(defs, known) \in [Name -> Number]
<1>1. ASSUME NEW x \in Name
      PROVE  Means(defs, known)[x] \in Number
  <2>1. CASE defs[x].kind = "deferred"
    <3>1. defs[x].expr \in Expr
      BY <2>1 DEF Definition, Expr
    <3> QED
      BY <2>1, <3>1, TotalIs DEF Means
  <2>2. CASE defs[x].kind # "deferred"
    BY <2>2 DEF Means, Definition
  <2> QED
    BY <2>1, <2>2
<1> QED
  BY <1>1 DEF Means

(***************************************************************************)
(* The recursion of Levels, unfolded.                                      *)
(***************************************************************************)
LEMMA LevelsAre ==
  ASSUME NEW defs \in [Name -> Definition]
  PROVE  /\ Levels(defs) \in [0 .. Cardinality(Name) -> [Name -> Number]]
         /\ Levels(defs)[0] = Means(defs, Zeros)
         /\ \A n \in 1 .. Cardinality(Name) : Levels(defs)[n] = Means(defs, Levels(defs)[n - 1])
<1> DEFINE N == Cardinality(Name)
           S == [Name -> Number]
           a == Means(defs, Zeros)
           step == [k \in Nat |-> [known \in S |-> Means(defs, known)]]
           Def(f) == [n \in 0 .. N |->
                        LET known == IF n = 0 THEN [x \in Name |-> 0] ELSE f[n - 1]
                        IN  [x \in Name |-> IF defs[x].kind = "deferred"
                                             THEN Total(defs[x].expr, known)
                                             ELSE defs[x].value]]
           level == CHOOSE f : f = Def(f)
<1>1. N \in Nat
  BY ExpressionsAssumption, FS_CardinalityType
<1>2. Zeros \in S
  BY NumberIs DEF Zeros
<1>3. \A f : \A n \in 0 .. N : Def(f)[n] = Means(defs, IF n = 0 THEN Zeros ELSE f[n - 1])
  BY DEF Means, Zeros
<1>4. \A f : Def(f) = [n \in 0 .. N |-> Def(f)[n]]
  OBVIOUS
<1>5. Levels(defs) = level
  BY DEF Levels
<1> HIDE DEF Def
<1>6. PICK g : Iterates(g, S, a, step)
  <2>1. a \in S
    BY <1>2, MeansIs
  <2>2. step \in [Nat -> [S -> S]]
    BY MeansIs
  <2> HIDE DEF S, a, step
  <2> QED
    BY <2>1, <2>2, Iteration
<1>7. g \in [Nat -> S] /\ g[0] = a /\ \A n \in Nat : g[n + 1] = step[n + 1][g[n]]
  BY <1>6 DEF Iterates
<1> DEFINE h == [k \in 0 .. N |-> g[k]]
<1>8. ASSUME NEW k \in 1 .. N
      PROVE  g[k] = Means(defs, g[k - 1])
  <2>1. k - 1 \in Nat /\ (k - 1) + 1 = k /\ k \in Nat
    BY <1>1
  <2>2. g[k] = step[k][g[k - 1]] /\ g[k - 1] \in S
    BY <1>7, <2>1
  <2> QED
    BY <2>1, <2>2
<1>9. h = Def(h)
  <2>1. ASSUME NEW k \in 0 .. N
        PROVE  h[k] = Def(h)[k]
    <3>1. CASE k = 0
      BY <1>1, <1>3, <1>7, <3>1
    <3>2. CASE k # 0
      <4>1. k \in 1 .. N /\ k - 1 \in 0 .. N
        BY <1>1, <3>2
      <4>2. h[k] = g[k] /\ h[k - 1] = g[k - 1]
        BY <4>1
      <4> HIDE DEF h
      <4>3. Def(h)[k] = Means(defs, h[k - 1])
        BY <1>3, <3>2
      <4> QED
        BY <1>8, <4>1, <4>2, <4>3
    <3> QED
      BY <3>1, <3>2
  <2>2. h = [k \in 0 .. N |-> h[k]]
    OBVIOUS
  <2> HIDE DEF h
  <2> QED
    BY <1>4, <2>1, <2>2
<1> HIDE DEF h
<1>10. level = Def(level)
  BY <1>9
<1> HIDE DEF level
<1>11. level[0] = a
  <2>1. 0 \in 0 .. N
    BY <1>1
  <2> QED
    BY <1>3, <1>10, <2>1
<1>12. ASSUME NEW n \in 1 .. N
       PROVE  level[n] = Means(defs, level[n - 1])
  <2>1. n \in 0 .. N /\ n # 0
    BY <1>1
  <2> QED
    BY <1>3, <1>10, <2>1
<1>13. level \in [0 .. N -> S]
  <2> DEFINE T == {k \in Nat : k <= N => level[k] \in S}
  <2>1. 0 \in T
    BY <1>2, <1>11, MeansIs
  <2>2. ASSUME NEW k \in Nat, k \in T
        PROVE  k + 1 \in T
    <3> SUFFICES ASSUME k + 1 <= N
                 PROVE  level[k + 1] \in S
      OBVIOUS
    <3>1. k + 1 \in 1 .. N /\ (k + 1) - 1 = k /\ level[k] \in S
      BY <1>1, <2>2
    <3> QED
      BY <1>12, <3>1, MeansIs
  <2>3. Nat \subseteq T
    <3> HIDE DEF T
    <3> QED
      BY <2>1, <2>2, SetInduction
  <2>4. \A k \in 0 .. N : level[k] \in S
    BY <1>1, <2>3
  <2>5. level = [k \in 0 .. N |-> level[k]]
    BY <1>4, <1>10
  <2> HIDE DEF S
  <2> QED
    BY <2>4, <2>5
<1> QED
  BY <1>5, <1>11, <1>12, <1>13

LEMMA MeansAgree ==
  ASSUME NEW defs \in [Name -> Definition], NEW x \in Name,
         NEW a \in [Name -> Number], NEW b \in [Name -> Number],
         \A y \in Refers(defs, x) : a[y] = b[y]
  PROVE  Means(defs, a)[x] = Means(defs, b)[x]
<1>1. CASE defs[x].kind = "deferred"
  <2>1. defs[x].expr \in Expr /\ Refers(defs, x) = Names(defs[x].expr)
    BY <1>1 DEF Definition, Expr, Refers, Names
  <2>2. Total(defs[x].expr, a) = Total(defs[x].expr, b)
    BY <2>1, SumsAgree
  <2> QED
    BY <1>1, <2>2 DEF Means
<1>2. CASE defs[x].kind # "deferred"
  BY <1>2 DEF Means
<1> QED
  BY <1>1, <1>2

LEMMA MeaningsAre ==
  ASSUME NEW defs \in [Name -> Definition]
  PROVE  /\ Cardinality(Name) \in Nat
         /\ Meanings(defs) \in [Name -> Number]
         /\ \A x \in Name : defs[x].kind # "deferred" => Meanings(defs)[x] = defs[x].value
<1>1. Cardinality(Name) \in Nat
  BY ExpressionsAssumption, FS_CardinalityType
<1>2. Cardinality(Name) \in 0 .. Cardinality(Name)
  BY <1>1
<1>3. Meanings(defs) \in [Name -> Number]
  BY <1>2, LevelsAre DEF Meanings
<1>4. \E known : Meanings(defs) = Means(defs, known)
  <2>1. CASE Cardinality(Name) = 0
    BY <2>1, LevelsAre DEF Meanings
  <2>2. CASE Cardinality(Name) # 0
    <3>1. Cardinality(Name) \in 1 .. Cardinality(Name)
      BY <1>1, <2>2
    <3>2. Meanings(defs) = Means(defs, Levels(defs)[Cardinality(Name) - 1])
      BY <3>1, LevelsAre DEF Meanings
    <3> QED
      BY <3>2
  <2> QED
    BY <2>1, <2>2
<1> QED
  BY <1>1, <1>3, <1>4 DEF Means

(***************************************************************************)
(* The names whose definitions come to an end, by the length of the way    *)
(* there: those that refer to no names first.                              *)
(***************************************************************************)
Closed(defs, near) == {x \in Name : Refers(defs, x) \subseteq near}

Grounds(defs) ==
  CHOOSE g : Iterates(g, SUBSET Name, {},
                     [k \in Nat |-> [near \in SUBSET Name |-> Closed(defs, near)]])

Ground(defs) == Grounds(defs)[Cardinality(Name)]

LEMMA GroundsAre ==
  ASSUME NEW defs
  PROVE  /\ Grounds(defs) \in [Nat -> SUBSET Name]
         /\ Grounds(defs)[0] = {}
         /\ \A n \in Nat : Grounds(defs)[n + 1] = Closed(defs, Grounds(defs)[n])
<1> DEFINE S == SUBSET Name
           a == {}
           step == [k \in Nat |-> [near \in S |-> Closed(defs, near)]]
<1>1. \E g : Iterates(g, S, a, step)
  <2>1. a \in S
    OBVIOUS
  <2>2. step \in [Nat -> [S -> S]]
    BY DEF Closed
  <2> HIDE DEF S, a, step
  <2> QED
    BY <2>1, <2>2, Iteration
<1>2. Iterates(Grounds(defs), S, a, step)
  BY <1>1 DEF Grounds
<1> DEFINE g == Grounds(defs)
<1>3. g \in [Nat -> S] /\ g[0] = a /\ \A n \in Nat : g[n + 1] = step[n + 1][g[n]]
  BY <1>2 DEF Iterates
<1> HIDE DEF g
<1>4. ASSUME NEW n \in Nat
      PROVE  g[n + 1] = Closed(defs, g[n])
  <2>1. n + 1 \in Nat /\ g[n] \in S
    BY <1>3
  <2>2. step[n + 1][g[n]] = Closed(defs, g[n])
    BY <2>1
  <2> QED
    BY <1>3, <2>2
<1> QED
  BY <1>3, <1>4 DEF g

LEMMA GroundsGrow ==
  ASSUME NEW defs
  PROVE  \A n \in Nat : Grounds(defs)[n] \subseteq Grounds(defs)[n + 1]
<1> DEFINE g == Grounds(defs)
           T == {n \in Nat : g[n] \subseteq g[n + 1]}
<1>1. 0 \in T
  BY GroundsAre
<1>2. ASSUME NEW n \in Nat, n \in T
      PROVE  n + 1 \in T
  <2>1. g[n + 1] = Closed(defs, g[n]) /\ g[(n + 1) + 1] = Closed(defs, g[n + 1])
    BY GroundsAre
  <2>2. g[n + 1] \subseteq g[(n + 1) + 1]
    BY <1>2, <2>1 DEF Closed
  <2> QED
    BY <2>2
<1>3. Nat \subseteq T
  <2> HIDE DEF T
  <2> QED
    BY <1>1, <1>2, SetInduction
<1> QED
  BY <1>3

(***************************************************************************)
(* With as many steps as there are names nothing is left to be found:      *)
(* each step before that found a name, or none and then none for ever.     *)
(***************************************************************************)
LEMMA GroundClosed ==
  ASSUME NEW defs
  PROVE  Closed(defs, Ground(defs)) = Ground(defs)
<1> DEFINE g == Grounds(defs)
           N == Cardinality(Name)
           T == {n \in Nat : g[n + 1] = g[n] \/ Cardinality(g[n]) >= n}
<1>1. IsFiniteSet(Name) /\ N \in Nat
  BY ExpressionsAssumption, FS_CardinalityType
<1>2. ASSUME NEW n \in Nat
      PROVE  g[n] \subseteq Name /\ IsFiniteSet(g[n]) /\ Cardinality(g[n]) \in Nat
  <2>1. g[n] \in SUBSET Name
    BY GroundsAre
  <2> QED
    BY <1>1, <2>1, FS_Subset, FS_CardinalityType
<1>3. 0 \in T
  BY <1>2
<1>4. ASSUME NEW n \in Nat, n \in T
      PROVE  n + 1 \in T
  <2>1. CASE g[n + 1] = g[n]
    <3>1. g[n + 1] = Closed(defs, g[n]) /\ g[(n + 1) + 1] = Closed(defs, g[n + 1])
      BY GroundsAre
    <3> QED
      BY <2>1, <3>1
  <2>2. CASE g[n + 1] # g[n] /\ Cardinality(g[n]) >= n
    <3>1. n + 1 \in Nat /\ g[n] \in SUBSET g[n + 1]
      <4>1. g[n] \subseteq g[n + 1]
        BY GroundsGrow
      <4> HIDE DEF g
      <4> QED
        BY <4>1
    <3>2. Cardinality(g[n]) <= Cardinality(g[n + 1]) /\ Cardinality(g[n]) # Cardinality(g[n + 1])
      BY <1>2, <2>2, <3>1, FS_Subset
    <3>3. Cardinality(g[n + 1]) >= n + 1
      <4>1. Cardinality(g[n]) \in Nat /\ Cardinality(g[n + 1]) \in Nat
        BY <1>2, <3>1
      <4> QED
        BY <2>2, <3>2, <4>1
    <3> QED
      BY <3>1, <3>3
  <2> QED
    BY <1>4, <2>1, <2>2
<1>5. Nat \subseteq T
  <2> HIDE DEF T
  <2> QED
    BY <1>3, <1>4, SetInduction
<1>6. g[N + 1] = Closed(defs, g[N])
  BY <1>1, GroundsAre
<1>7. CASE g[N + 1] = g[N]
  BY <1>6, <1>7 DEF Ground
<1>8. CASE Cardinality(g[N]) >= N
  <2>1. g[N] \in SUBSET Name /\ Cardinality(g[N]) \in Nat
    BY <1>1, <1>2
  <2>2. Cardinality(g[N]) <= N
    BY <1>1, <2>1, FS_Subset
  <2>3. Cardinality(g[N]) = N
    BY <1>1, <1>8, <2>1, <2>2
  <2>4. g[N] = Name
    BY <1>1, <2>1, <2>3, FS_Subset
  <2>5. g[N] \subseteq g[N + 1] /\ g[N + 1] \subseteq Name
    BY <1>1, <1>2, GroundsGrow
  <2> QED
    BY <1>6, <2>4, <2>5 DEF Ground
<1> QED
  BY <1>1, <1>5, <1>7, <1>8

(***************************************************************************)
(* Levels do not change any more what such a name means.                   *)
(***************************************************************************)
LEMMA LevelsSettle ==
  ASSUME NEW defs \in [Name -> Definition]
  PROVE  \A n \in Nat : \A m \in n .. Cardinality(Name) : \A x \in Grounds(defs)[n + 1] :
           Levels(defs)[m][x] = Levels(defs)[n][x]
<1> DEFINE g == Grounds(defs)
           N == Cardinality(Name)
           L == Levels(defs)
           T == {n \in Nat : \A m \in n .. N : \A x \in g[n + 1] : L[m][x] = L[n][x]}
<1>1. N \in Nat /\ Zeros \in [Name -> Number]
  BY MeaningsAre, NumberIs DEF Zeros
<1>2. /\ L \in [0 .. N -> [Name -> Number]]
      /\ L[0] = Means(defs, Zeros)
      /\ \A n \in 1 .. N : L[n] = Means(defs, L[n - 1])
  BY LevelsAre
<1>3. /\ g \in [Nat -> SUBSET Name] /\ g[0] = {}
      /\ \A n \in Nat : g[n + 1] = Closed(defs, g[n])
  BY GroundsAre
<1> HIDE DEF g, L
<1>4. 0 \in T
  <2> SUFFICES ASSUME NEW m \in 0 .. N, NEW x \in g[0 + 1]
               PROVE  L[m][x] = L[0][x]
    OBVIOUS
  <2>1. x \in Name /\ Refers(defs, x) = {}
    BY <1>3 DEF Closed
  <2>2. CASE m = 0
    BY <2>2
  <2>3. CASE m # 0
    <3>1. m \in 1 .. N /\ m - 1 \in 0 .. N
      BY <1>1, <2>3
    <3>2. L[m - 1] \in [Name -> Number] /\ L[m] = Means(defs, L[m - 1])
      BY <1>2, <3>1
    <3>3. \A y \in Refers(defs, x) : L[m - 1][y] = Zeros[y]
      BY <2>1
    <3>4. Means(defs, L[m - 1])[x] = Means(defs, Zeros)[x]
      BY <1>1, <2>1, <3>2, <3>3, MeansAgree
    <3> QED
      BY <1>2, <3>2, <3>4
  <2> QED
    BY <2>2, <2>3
<1>5. ASSUME NEW n \in Nat, n \in T
      PROVE  n + 1 \in T
  <2> SUFFICES ASSUME NEW m \in (n + 1) .. N, NEW x \in g[(n + 1) + 1]
               PROVE  L[m][x] = L[n + 1][x]
    OBVIOUS
  <2>1. x \in Name /\ Refers(defs, x) \subseteq g[n + 1]
    BY <1>3 DEF Closed
  <2>2. /\ m \in 1 .. N /\ m - 1 \in 0 .. N /\ m - 1 \in n .. N
        /\ n + 1 \in 1 .. N /\ n \in 0 .. N /\ (n + 1) - 1 = n
    BY <1>1
  <2>3. \A y \in Refers(defs, x) : L[m - 1][y] = L[n][y]
    BY <1>5, <2>1, <2>2
  <2>4. /\ L[m - 1] \in [Name -> Number] /\ L[n] \in [Name -> Number]
        /\ L[m] = Means(defs, L[m - 1]) /\ L[n + 1] = Means(defs, L[n])
    BY <1>2, <2>2
  <2> QED
    BY <2>1, <2>3, <2>4, MeansAgree
<1>6. Nat \subseteq T
  <2> HIDE DEF T
  <2> QED
    BY <1>4, <1>5, SetInduction
<1> QED
  BY <1>6 DEF g, L

LEMMA GroundSettled ==
  ASSUME NEW defs \in [Name -> Definition], NEW x \in Ground(defs)
  PROVE  Means(defs, Meanings(defs))[x] = Meanings(defs)[x]
<1> DEFINE g == Grounds(defs)
           N == Cardinality(Name)
           L == Levels(defs)
<1>1. N \in Nat
  BY MeaningsAre
<1>2. N # 0
  BY GroundsAre DEF Ground
<1>3. N - 1 \in Nat /\ (N - 1) + 1 = N /\ N \in 1 .. N /\ N - 1 \in 0 .. N /\ N \in 0 .. N
  BY <1>1, <1>2
<1>4. x \in Name /\ Refers(defs, x) \subseteq g[N - 1]
  <2>1. g[N] = Closed(defs, g[N - 1])
    BY <1>3, GroundsAre
  <2> QED
    BY <2>1 DEF Ground, Closed
<1>5. \A y \in Refers(defs, x) : L[N][y] = L[N - 1][y]
  <2>1. CASE N - 1 = 0
    BY <1>4, <2>1, GroundsAre
  <2>2. CASE N - 1 # 0
    <3>1. /\ N - 2 \in Nat /\ (N - 2) + 1 = N - 1
          /\ N \in (N - 2) .. N /\ N - 1 \in (N - 2) .. N
      BY <1>1, <1>2, <2>2
    <3>2. \A y \in g[N - 1] : L[N][y] = L[N - 2][y] /\ L[N - 1][y] = L[N - 2][y]
      BY <3>1, LevelsSettle
    <3> QED
      BY <1>4, <3>2
  <2> QED
    BY <2>1, <2>2
<1>6. /\ L[N] \in [Name -> Number] /\ L[N - 1] \in [Name -> Number]
      /\ L[N] = Means(defs, L[N - 1])
  BY <1>3, LevelsAre
<1>7. Means(defs, L[N])[x] = Means(defs, L[N - 1])[x]
  BY <1>4, <1>5, <1>6, MeansAgree
<1> QED
  BY <1>6, <1>7 DEF Meanings

-----------------------------------------------------------------------------
(* The names that are reached.                                             *)

Near(defs, near) == near \union UNION {Refers(defs, x) : x \in near}

LEMMA NearIs ==
  ASSUME NEW defs, NEW near \in SUBSET Name
  PROVE  /\ Near(defs, near) \in SUBSET Name
         /\ near \subseteq Near(defs, near)
         /\ \A x \in near : Refers(defs, x) \subseteq Near(defs, near)
         /\ \A set : near \subseteq set /\ (\A x \in near : Refers(defs, x) \subseteq set)
                     => Near(defs, near) \subseteq set
<1>1. \A x \in near : Refers(defs, x) \subseteq Name
  BY DEF Refers
<1> QED
  BY <1>1 DEF Near

(***************************************************************************)
(* The recursion of Reaches, unfolded.                                     *)
(***************************************************************************)
LEMMA ReachesAre ==
  ASSUME NEW defs, NEW from \in SUBSET Name
  PROVE  /\ Reaches(defs, from) \in [0 .. Cardinality(Name) -> SUBSET Name]
         /\ Reaches(defs, from)[0] = from
         /\ \A n \in 1 .. Cardinality(Name) :
              Reaches(defs, from)[n] = Near(defs, Reaches(defs, from)[n - 1])
<1> DEFINE N == Cardinality(Name)
           S == SUBSET Name
           step == [k \in Nat |-> [near \in S |-> Near(defs, near)]]
           Def(f) == [n \in 0 .. N |->
                        IF n = 0 THEN from
                        ELSE LET near == f[n - 1]
                             IN  near \union UNION {Refers(defs, x) : x \in near}]
           reach == CHOOSE f : f = Def(f)
<1>1. N \in Nat
  BY ExpressionsAssumption, FS_CardinalityType
<1>2. \A f : \A n \in 0 .. N : Def(f)[n] = IF n = 0 THEN from ELSE Near(defs, f[n - 1])
  BY DEF Near
<1>3. \A f : Def(f) = [n \in 0 .. N |-> Def(f)[n]]
  OBVIOUS
<1>4. Reaches(defs, from) = reach
  BY DEF Reaches
<1> HIDE DEF Def
<1>5. PICK g : Iterates(g, S, from, step)
  <2>1. step \in [Nat -> [S -> S]]
    BY NearIs
  <2>2. from \in S
    OBVIOUS
  <2> HIDE DEF S, step
  <2> QED
    BY <2>1, <2>2, Iteration
<1>6. g \in [Nat -> S] /\ g[0] = from /\ \A n \in Nat : g[n + 1] = step[n + 1][g[n]]
  BY <1>5 DEF Iterates
<1> DEFINE h == [k \in 0 .. N |-> g[k]]
<1>7. ASSUME NEW k \in 1 .. N
      PROVE  g[k] = Near(defs, g[k - 1])
  <2>1. k - 1 \in Nat /\ (k - 1) + 1 = k /\ k \in Nat
    BY <1>1
  <2>2. g[k] = step[k][g[k - 1]] /\ g[k - 1] \in S
    BY <1>6, <2>1
  <2> QED
    BY <2>1, <2>2
<1>8. h = Def(h)
  <2>1. ASSUME NEW k \in 0 .. N
        PROVE  h[k] = Def(h)[k]
    <3>1. CASE k = 0
      BY <1>1, <1>2, <1>6, <3>1
    <3>2. CASE k # 0
      <4>1. k \in 1 .. N /\ k - 1 \in 0 .. N
        BY <1>1, <3>2
      <4>2. h[k] = g[k] /\ h[k - 1] = g[k - 1]
        BY <4>1
      <4> HIDE DEF h
      <4>3. Def(h)[k] = Near(defs, h[k - 1])
        BY <1>2, <3>2
      <4> QED
        BY <1>7, <4>1, <4>2, <4>3
    <3> QED
      BY <3>1, <3>2
  <2>2. h = [k \in 0 .. N |-> h[k]]
    OBVIOUS
  <2> HIDE DEF h
  <2> QED
    BY <1>3, <2>1, <2>2
<1> HIDE DEF h
<1>9. reach = Def(reach)
  BY <1>8
<1> HIDE DEF reach
<1>10. reach[0] = from
  <2>1. 0 \in 0 .. N
    BY <1>1
  <2> QED
    BY <1>2, <1>9, <2>1
<1>11. ASSUME NEW n \in 1 .. N
       PROVE  reach[n] = Near(defs, reach[n - 1])
  <2>1. n \in 0 .. N /\ n # 0
    BY <1>1
  <2> QED
    BY <1>2, <1>9, <2>1
<1>12. reach \in [0 .. N -> S]
  <2> DEFINE T == {k \in Nat : k <= N => reach[k] \in S}
  <2>1. 0 \in T
    BY <1>10
  <2>2. ASSUME NEW k \in Nat, k \in T
        PROVE  k + 1 \in T
    <3> SUFFICES ASSUME k + 1 <= N
                 PROVE  reach[k + 1] \in S
      OBVIOUS
    <3>1. k + 1 \in 1 .. N /\ (k + 1) - 1 = k /\ reach[k] \in S
      BY <1>1, <2>2
    <3> QED
      BY <1>11, <3>1, NearIs
  <2>3. Nat \subseteq T
    <3> HIDE DEF T
    <3> QED
      BY <2>1, <2>2, SetInduction
  <2>4. \A k \in 0 .. N : reach[k] \in S
    BY <1>1, <2>3
  <2>5. reach = [k \in 0 .. N |-> reach[k]]
    BY <1>3, <1>9
  <2> HIDE DEF S
  <2> QED
    BY <2>4, <2>5
<1> QED
  BY <1>4, <1>10, <1>11, <1>12

ClosedUnder(defs, set) == \A x \in set : Refers(defs, x) \subseteq set

(***************************************************************************)
(* What is reached has all that its names refer to: each step before the   *)
(* last found a name, or there was none to find.                           *)
(***************************************************************************)
LEMMA ReachedClosed ==
  ASSUME NEW defs, NEW from \in SUBSET Name
  PROVE  /\ Reached(defs, from) \in SUBSET Name
         /\ from \subseteq Reached(defs, from)
         /\ ClosedUnder(defs, Reached(defs, from))
<1> DEFINE N == Cardinality(Name)
           g == Reaches(defs, from)
           T == {n \in Nat : n <= N => /\ from \subseteq g[n]
                                       /\ ClosedUnder(defs, g[n]) \/ Cardinality(g[n]) >= n}
<1>1. IsFiniteSet(Name) /\ N \in Nat
  BY ExpressionsAssumption, FS_CardinalityType
<1>2. /\ g \in [0 .. N -> SUBSET Name] /\ g[0] = from
      /\ \A n \in 1 .. N : g[n] = Near(defs, g[n - 1])
  BY ReachesAre
<1> HIDE DEF g
<1>3. ASSUME NEW n \in 0 .. N
      PROVE  g[n] \in SUBSET Name /\ IsFiniteSet(g[n]) /\ Cardinality(g[n]) \in Nat
  <2>1. g[n] \in SUBSET Name
    BY <1>2
  <2> QED
    BY <1>1, <2>1, FS_Subset, FS_CardinalityType
<1>4. 0 \in T
  <2>1. 0 \in 0 .. N
    BY <1>1
  <2> QED
    BY <1>2, <1>3, <2>1
<1>5. ASSUME NEW n \in Nat, n \in T
      PROVE  n + 1 \in T
  <2> SUFFICES ASSUME n + 1 <= N
               PROVE  /\ from \subseteq g[n + 1]
                      /\ ClosedUnder(defs, g[n + 1]) \/ Cardinality(g[n + 1]) >= n + 1
    OBVIOUS
  <2>1. n + 1 \in 1 .. N /\ n + 1 \in 0 .. N /\ n \in 0 .. N /\ (n + 1) - 1 = n
    BY <1>1
  <2>2. g[n + 1] = Near(defs, g[n]) /\ g[n] \in SUBSET Name
    BY <1>2, <2>1
  <2>3. /\ g[n] \subseteq g[n + 1]
        /\ \A x \in g[n] : Refers(defs, x) \subseteq g[n + 1]
        /\ ClosedUnder(defs, g[n]) => g[n + 1] = g[n]
    <3>1. PICK near \in SUBSET Name : near = g[n]
      BY <2>2
    <3>2. /\ near \subseteq Near(defs, near)
          /\ \A x \in near : Refers(defs, x) \subseteq Near(defs, near)
      BY NearIs
    <3>3. ASSUME ClosedUnder(defs, near)
          PROVE  Near(defs, near) = near
      <4>1. Near(defs, near) \subseteq near
        BY <3>3, NearIs DEF ClosedUnder
      <4> QED
        BY <3>2, <4>1
    <3> QED
      BY <2>2, <3>1, <3>2, <3>3
  <2>4. from \subseteq g[n] /\ (ClosedUnder(defs, g[n]) \/ Cardinality(g[n]) >= n)
    BY <1>5, <2>1
  <2>5. CASE ClosedUnder(defs, g[n])
    BY <2>3, <2>4, <2>5
  <2>6. CASE ~ClosedUnder(defs, g[n])
    <3>1. g[n + 1] # g[n]
      BY <2>3, <2>6 DEF ClosedUnder
    <3>2. g[n] \in SUBSET g[n + 1]
      BY <2>3
    <3>3. /\ IsFiniteSet(g[n + 1])
          /\ Cardinality(g[n]) \in Nat /\ Cardinality(g[n + 1]) \in Nat
      BY <1>3, <2>1
    <3>4. Cardinality(g[n]) <= Cardinality(g[n + 1]) /\ Cardinality(g[n]) # Cardinality(g[n + 1])
      BY <3>1, <3>2, <3>3, FS_Subset
    <3> QED
      BY <2>3, <2>4, <2>6, <3>3, <3>4
  <2> QED
    BY <2>5, <2>6
<1>6. Nat \subseteq T
  <2> HIDE DEF T
  <2> QED
    BY <1>4, <1>5, SetInduction
<1>7. N \in 0 .. N
  BY <1>1
<1>8. g[N] \in SUBSET Name /\ Cardinality(g[N]) \in Nat
  BY <1>3, <1>7
<1>9. from \subseteq g[N] /\ (ClosedUnder(defs, g[N]) \/ Cardinality(g[N]) >= N)
  BY <1>1, <1>6
<1>10. CASE Cardinality(g[N]) >= N
  <2>1. Cardinality(g[N]) <= N
    BY <1>1, <1>8, FS_Subset
  <2>2. Cardinality(g[N]) = N
    BY <1>1, <1>8, <1>10, <2>1
  <2>3. g[N] = Name
    BY <1>1, <1>8, <2>2, FS_Subset
  <2>4. ClosedUnder(defs, g[N])
    BY <2>3 DEF ClosedUnder, Refers
  <2> QED
    BY <1>8, <1>9, <2>4 DEF Reached, g
<1>11. CASE ClosedUnder(defs, g[N])
  BY <1>8, <1>9, <1>11 DEF Reached, g
<1> QED
  BY <1>9, <1>10, <1>11

(***************************************************************************)
(* Nothing else is reached.                                                *)
(***************************************************************************)
LEMMA ReachedLeast ==
  ASSUME NEW defs, NEW from \in SUBSET Name, NEW set, from \subseteq set, ClosedUnder(defs, set)
  PROVE  Reached(defs, from) \subseteq set
<1> DEFINE N == Cardinality(Name)
           g == Reaches(defs, from)
           T == {n \in Nat : n <= N => g[n] \subseteq set}
<1>1. N \in Nat
  BY ExpressionsAssumption, FS_CardinalityType
<1>2. /\ g \in [0 .. N -> SUBSET Name] /\ g[0] = from
      /\ \A n \in 1 .. N : g[n] = Near(defs, g[n - 1])
  BY ReachesAre
<1> HIDE DEF g
<1>3. 0 \in T
  BY <1>2
<1>4. ASSUME NEW n \in Nat, n \in T
      PROVE  n + 1 \in T
  <2> SUFFICES ASSUME n + 1 <= N
               PROVE  g[n + 1] \subseteq set
    OBVIOUS
  <2>1. n + 1 \in 1 .. N /\ n \in 0 .. N /\ (n + 1) - 1 = n /\ g[n] \subseteq set
    BY <1>1, <1>4
  <2>2. g[n + 1] = Near(defs, g[n]) /\ g[n] \in SUBSET Name
    BY <1>2, <2>1
  <2>3. \A x \in g[n] : Refers(defs, x) \subseteq set
    BY <2>1 DEF ClosedUnder
  <2> QED
    BY <2>1, <2>2, <2>3, NearIs
<1>5. Nat \subseteq T
  <2> HIDE DEF T
  <2> QED
    BY <1>3, <1>4, SetInduction
<1> QED
  BY <1>1, <1>5 DEF Reached, g

LEMMA RefersIs ==
  ASSUME NEW defs, NEW x
  PROVE  Refers(defs, x) \in SUBSET Name
BY DEF Refers

(***************************************************************************)
(* Names whose definitions come to an end are not in a circle.             *)
(***************************************************************************)
LEMMA GroundNotCircular ==
  ASSUME NEW defs, NEW from \in SUBSET Name, from \subseteq Ground(defs)
  PROVE  ~Circular(defs, from)
<1> DEFINE g == Grounds(defs)
           T == {n \in Nat : \A x \in g[n] : x \notin Reached(defs, Refers(defs, x))}
<1>1. /\ g \in [Nat -> SUBSET Name] /\ g[0] = {}
      /\ \A n \in Nat : g[n + 1] = Closed(defs, g[n])
      /\ \A n \in Nat : g[n] \subseteq g[n + 1]
  BY GroundsAre, GroundsGrow
<1> HIDE DEF g
<1>2. 0 \in T
  BY <1>1
<1>3. ASSUME NEW n \in Nat, n \in T
      PROVE  n + 1 \in T
  <2> SUFFICES ASSUME NEW x \in g[n + 1], x \in Reached(defs, Refers(defs, x))
               PROVE  FALSE
    OBVIOUS
  <2>1. Refers(defs, x) \subseteq g[n] /\ Refers(defs, x) \in SUBSET Name
    BY <1>1, RefersIs DEF Closed
  <2>2. ClosedUnder(defs, g[n])
    BY <1>1 DEF ClosedUnder, Closed
  <2>3. x \in g[n]
    BY <2>1, <2>2, ReachedLeast
  <2> QED
    BY <1>3, <2>3
<1>4. Nat \subseteq T
  <2> HIDE DEF T
  <2> QED
    BY <1>2, <1>3, SetInduction
<1>5. Cardinality(Name) \in Nat
  BY ExpressionsAssumption, FS_CardinalityType
<1>6. \A x \in Ground(defs) : x \notin Reached(defs, Refers(defs, x))
  BY <1>4, <1>5 DEF Ground, g
<1>7. ClosedUnder(defs, Ground(defs))
  BY GroundClosed DEF ClosedUnder, Closed
<1>8. Reached(defs, from) \subseteq Ground(defs)
  BY <1>7, ReachedLeast
<1> QED
  BY <1>6, <1>8 DEF Circular

(***************************************************************************)
(* Where there is no circle the definitions of all names come to an end:   *)
(* from each of the others there would be a step to one of them from which *)
(* fewer names are reached.                                                *)
(***************************************************************************)
LEMMA NoCircleGround ==
  ASSUME NEW defs, ~Circular(defs, Name)
  PROVE  Ground(defs) = Name
<1> DEFINE all(x) == Reached(defs, Refers(defs, x))
           U == Name \ Ground(defs)
           T == {n \in Nat : \A x \in U : Cardinality(all(x)) >= n}
<1>1. IsFiniteSet(Name) /\ Cardinality(Name) \in Nat
  BY ExpressionsAssumption, FS_CardinalityType
<1>2. ASSUME NEW x \in Name
      PROVE  /\ all(x) \in SUBSET Name /\ Refers(defs, x) \subseteq all(x)
             /\ ClosedUnder(defs, all(x))
             /\ IsFiniteSet(all(x)) /\ Cardinality(all(x)) \in Nat
             /\ Cardinality(all(x)) <= Cardinality(Name)
  <2>1. /\ all(x) \in SUBSET Name /\ Refers(defs, x) \subseteq all(x)
        /\ ClosedUnder(defs, all(x))
    BY RefersIs, ReachedClosed
  <2> HIDE DEF all
  <2> QED
    BY <1>1, <2>1, FS_Subset, FS_CardinalityType
<1>3. \A x \in Name : x \notin all(x)
  <2>1. Name \subseteq Reached(defs, Name)
    BY ReachedClosed
  <2> QED
    BY <2>1 DEF Circular
<1>4. ASSUME NEW x \in U
      PROVE  \E y \in U : /\ y \in all(x) /\ y \notin all(y)
                          /\ all(y) \subseteq all(x)
  <2>1. PICK y \in Refers(defs, x) : y \notin Ground(defs)
    BY GroundClosed DEF Closed
  <2>2. y \in U /\ y \in all(x)
    BY <1>2, <2>1, RefersIs
  <2>3. Refers(defs, y) \subseteq all(x) /\ ClosedUnder(defs, all(x))
    BY <1>2, <2>2 DEF ClosedUnder
  <2>4. all(y) \subseteq all(x)
    BY <2>3, RefersIs, ReachedLeast
  <2> QED
    BY <1>3, <2>2, <2>4
<1> HIDE DEF all
<1>5. 0 \in T
  BY <1>2
<1>6. ASSUME NEW n \in Nat, n \in T
      PROVE  n + 1 \in T
  <2> SUFFICES ASSUME NEW x \in U
               PROVE  Cardinality(all(x)) >= n + 1
    OBVIOUS
  <2>1. PICK y \in U : y \in all(x) /\ y \notin all(y) /\ all(y) \subseteq all(x)
    BY <1>4
  <2>2. /\ Cardinality(all(y)) \in Nat /\ Cardinality(all(x)) \in Nat /\ IsFiniteSet(all(x))
        /\ Cardinality(all(y)) >= n
    BY <1>2, <1>6
  <2>3. Cardinality(all(y)) <= Cardinality(all(x)) /\ Cardinality(all(y)) # Cardinality(all(x))
    <3>1. all(y) \in SUBSET all(x) /\ all(y) # all(x)
      BY <2>1
    <3> QED
      BY <2>2, <3>1, FS_Subset
  <2> QED
    BY <2>2, <2>3
<1>7. Nat \subseteq T
  <2> HIDE DEF T
  <2> QED
    BY <1>5, <1>6, SetInduction
<1>8. ASSUME NEW x \in U
      PROVE  FALSE
  <2>1. Cardinality(Name) + 1 \in T
    BY <1>1, <1>7
  <2>2. Cardinality(all(x)) >= Cardinality(Name) + 1
    BY <2>1
  <2> QED
    BY <1>1, <1>2, <2>2
<1>9. Ground(defs) \subseteq Name
  BY <1>1, GroundsAre DEF Ground
<1> QED
  BY <1>8, <1>9

(***************************************************************************)
(* A chain of definitions with more names than there are is in a circle.   *)
(***************************************************************************)
LEMMA ChainCircular ==
  ASSUME NEW defs, NEW chain,
         \A i \in 1 .. Cardinality(Name) + 1 : chain[i] \in Name,
         \A i \in 1 .. Cardinality(Name) : chain[i + 1] \in Refers(defs, chain[i])
  PROVE  Circular(defs, Name)
<1> DEFINE N == Cardinality(Name)
           g == Grounds(defs)
           T == {i \in Nat : i <= N => chain[i + 1] \in g[N - i]}
<1> SUFFICES ASSUME ~Circular(defs, Name)
             PROVE  FALSE
  OBVIOUS
<1>1. N \in Nat
  BY ExpressionsAssumption, FS_CardinalityType
<1>2. g[N] = Name
  BY NoCircleGround DEF Ground
<1>3. /\ g \in [Nat -> SUBSET Name] /\ g[0] = {}
      /\ \A n \in Nat : g[n + 1] = Closed(defs, g[n])
  BY GroundsAre
<1> HIDE DEF g
<1>4. 0 \in T
  <2>1. 1 \in 1 .. N + 1 /\ 0 + 1 = 1 /\ N - 0 = N
    BY <1>1
  <2> QED
    BY <1>2, <2>1
<1>5. ASSUME NEW i \in Nat, i \in T
      PROVE  i + 1 \in T
  <2> SUFFICES ASSUME i + 1 <= N
               PROVE  chain[(i + 1) + 1] \in g[N - (i + 1)]
    OBVIOUS
  <2>1. /\ i + 1 \in 1 .. N /\ N - (i + 1) \in Nat /\ (N - (i + 1)) + 1 = N - i
        /\ chain[i + 1] \in g[N - i]
    BY <1>1, <1>5
  <2>2. chain[(i + 1) + 1] \in Refers(defs, chain[i + 1])
    BY <2>1
  <2>3. g[N - i] = Closed(defs, g[N - (i + 1)])
    BY <1>3, <2>1
  <2> QED
    BY <2>1, <2>2, <2>3 DEF Closed
<1>6. Nat \subseteq T
  <2> HIDE DEF T
  <2> QED
    BY <1>4, <1>5, SetInduction
<1>7. chain[N + 1] \in g[N - N] /\ N - N = 0
  BY <1>1, <1>6
<1> QED
  BY <1>3, <1>7

-----------------------------------------------------------------------------
(* The invariant.                                                          *)

Shapes ==
  /\ list \in Seq(Variable)
  /\ var \in [Variable -> {None} \union VariableRecord]
  /\ par \in [Parameter -> ParameterRecord]
  /\ calls \in Seq(CallRecord)
  /\ \/ cmd = None
     \/ cmd \in Assigning \/ cmd \in Reading \/ cmd \in Adding \/ cmd \in SavingRecord

(***************************************************************************)
(* The list has the variables there are.                                   *)
(***************************************************************************)
Listed == \A x \in Variable : var[x] # None <=> x \in Range(list)

(***************************************************************************)
(* Only what is deferred has an expression.                                *)
(***************************************************************************)
Kept == \A x \in Variable : var[x] # None /\ var[x].expr # None => var[x].type = DEFERRED

Behind(x) ==
  IF x \in Parameter THEN par[x].expr ELSE IF var[x] = None THEN None ELSE var[x].expr

(***************************************************************************)
(* Each call evaluates the expression its name still has, and all but the  *)
(* innermost one wait for the name that their next item is.                *)
(***************************************************************************)
Called ==
  \A i \in 1 .. Len(calls) :
    /\ calls[i].at <= Len(calls[i].expr) + 1
    /\ calls[i].of \in Name => calls[i].expr = Behind(calls[i].of)
    /\ i > 1 => calls[i].of \in Name
    /\ i < Len(calls) => /\ calls[i].at <= Len(calls[i].expr)
                         /\ calls[i + 1].of = calls[i].expr[calls[i].at]

Waiting ==
  /\ cmd = None => calls = <<>>
  /\ exited # None => cmd = None
  /\ cmd # None =>
       /\ cmd.op # "save" => calls # <<>>
       /\ cmd.op = "read" => calls[1].of \in Name
       /\ cmd.op = "add" => Behind(cmd.name) # None

Before(s, n) == {s[i] : i \in 1 .. n - 1}

(***************************************************************************)
(* The file has the definitions of the names that were gone through, and   *)
(* what the copy of the list has not is not worth writing.                 *)
(***************************************************************************)
Saves ==
  cmd # None /\ cmd.op = "save" =>
    /\ cmd.at <= Len(cmd.varl) + 1
    /\ cmd.at <= Len(cmd.varl) => cmd.left = Parameter
    /\ \A i \in 1 .. Len(cmd.varl) : var[cmd.varl[i]] # None
    /\ \A x \in Variable : x \notin Range(cmd.varl) => Defined[x] = Immediate("value", 0)
    /\ DOMAIN cmd.saved = Before(cmd.varl, cmd.at) \union (Parameter \ cmd.left)
    /\ calls # <<>> => cmd.value \in Name /\ Behind(cmd.value) # None
    /\ ~cmd.noexpr => \A x \in DOMAIN cmd.saved : cmd.saved[x] = Defined[x]

IInv == Shapes /\ Listed /\ Kept /\ Called /\ Waiting /\ Saves

(***************************************************************************)
(* The sum of a call is what its items mean that were taken, and the names *)
(* among them are defined without a circle.                                *)
(***************************************************************************)
Summed ==
  \A i \in 1 .. Len(calls) :
    /\ calls[i].sum = Sums(calls[i].expr, Meanings(Defined))[calls[i].at - 1]
    /\ \A j \in 1 .. calls[i].at - 1 :
         calls[i].expr[j] \in Name => calls[i].expr[j] \in Ground(Defined)

-----------------------------------------------------------------------------
LEMMA ExprIs ==
  ASSUME NEW expr \in Expr
  PROVE  /\ Len(expr) \in Nat /\ \A i \in 1 .. Len(expr) : expr[i] \in Number \union Name
         /\ expr # None
BY VariablesAssumption DEF Expr

LEMMA RecordIs ==
  ASSUME NEW v \in VariableRecord
  PROVE  /\ v # None
         /\ v.type \in {CONST, DIRECT, DEFERRED} /\ v.value \in Number /\ v.status \in {0, 1}
         /\ v.expr \in {None} \union Expr
BY VariablesAssumption DEF VariableRecord

LEMMA NewVariableIs ==
  ASSUME NEW type \in {CONST, DIRECT, DEFERRED}, NEW value \in Number,
         NEW expr \in {None} \union Expr
  PROVE  /\ NewVariable(type, value, expr) \in VariableRecord
         /\ NewVariable(type, value, expr).type = type
         /\ NewVariable(type, value, expr).value = value
         /\ NewVariable(type, value, expr).expr = expr
BY DEF NewVariable, VariableRecord

LEMMA DeferredIs ==
  ASSUME NEW expr \in Expr
  PROVE  /\ Deferred(expr) \in Definition
         /\ Literal(expr) => Deferred(expr) = Immediate("value", expr[1]) /\ expr[1] \in Number
         /\ ~Literal(expr) => Deferred(expr) = [kind |-> "deferred", expr |-> expr]
BY DEF Deferred, Definition, Immediate, Literal, Expr

LEMMA ImmediateIs ==
  ASSUME NEW kind \in {"value", "constant"}, NEW value \in Number
  PROVE  /\ Immediate(kind, value) \in Definition
         /\ Immediate(kind, value).kind = kind /\ Immediate(kind, value).value = value
         /\ Immediate(kind, value).kind # "deferred"
BY DEF Immediate, Definition

LEMMA DefinedIs ==
  ASSUME Shapes
  PROVE  Defined \in [Name -> Definition]
<1> SUFFICES ASSUME NEW x \in Name
             PROVE  Defined[x] \in Definition
  BY DEF Defined
<1>1. CASE x \in Parameter
  <2>1. par[x].value \in Number /\ par[x].expr \in {None} \union Expr
    BY <1>1 DEF Shapes, ParameterRecord
  <2>2. Defined[x] = IF par[x].expr = None THEN Immediate("value", par[x].value)
                     ELSE Deferred(par[x].expr)
    BY <1>1 DEF Defined
  <2> QED
    BY <2>1, <2>2, ImmediateIs, DeferredIs
<1>2. CASE x \notin Parameter /\ var[x] = None
  BY <1>2, ImmediateIs, NumberIs DEF Defined
<1>3. CASE x \notin Parameter /\ var[x] # None
  <2>1. var[x] \in VariableRecord
    BY <1>3 DEF Shapes, Name
  <2>2. var[x].value \in Number /\ var[x].expr \in {None} \union Expr
    BY <2>1, RecordIs
  <2>3. CASE var[x].expr # None
    <3>1. Defined[x] = Deferred(var[x].expr)
      BY <1>3, <2>3 DEF Defined
    <3> QED
      BY <2>2, <2>3, <3>1, DeferredIs
  <2>4. CASE var[x].expr = None
    <3>1. PICK kind \in {"value", "constant"} : Defined[x] = Immediate(kind, var[x].value)
      BY <1>3, <2>4 DEF Defined
    <3> QED
      BY <2>2, <3>1, ImmediateIs
  <2> QED
    BY <2>3, <2>4
<1> QED
  BY <1>1, <1>2, <1>3

-----------------------------------------------------------------------------
(***************************************************************************)
(* A step that changes no more than values that expressions give, and      *)
(* enters names that were not there.                                       *)
(***************************************************************************)
SameVariable(x) ==
  \/ var'[x] = var[x]
  \/ var[x] = None /\ var'[x] = NewVariable(DIRECT, 0, None)
  \/ /\ var[x] # None /\ var'[x] # None
     /\ var[x].expr # None /\ var'[x].expr = var[x].expr /\ var'[x].type = var[x].type

SameParameter(x) ==
  \/ par'[x] = par[x]
  \/ par[x].expr # None /\ par'[x].expr = par[x].expr

Keeps ==
  /\ \A x \in Variable : SameVariable(x)
  /\ \A x \in Parameter : SameParameter(x)

LEMMA NewIs ==
  /\ NewVariable(DIRECT, 0, None) \in VariableRecord /\ NewVariable(DIRECT, 0, None) # None
  /\ NewVariable(DIRECT, 0, None).type = DIRECT
  /\ NewVariable(DIRECT, 0, None).value = 0
  /\ NewVariable(DIRECT, 0, None).expr = None
BY NewVariableIs, RecordIs, NumberIs

LEMMA KeepsDefined ==
  ASSUME Keeps
  PROVE  Defined' = Defined
<1>1. ASSUME NEW x \in Name
      PROVE  Defined'[x] = Defined[x]
  <2>1. CASE x \in Parameter
    BY <2>1 DEF Keeps, SameParameter, Defined
  <2>2. CASE x \notin Parameter
    <3>1. SameVariable(x)
      BY <2>2 DEF Keeps, Name
    <3>2. CASE var'[x] = var[x]
      BY <2>2, <3>2 DEF Defined
    <3>3. CASE var[x] = None /\ var'[x] = NewVariable(DIRECT, 0, None)
      <4>1. DIRECT # CONST
        BY DEF DIRECT, CONST
      <4>2. Defined'[x] = Immediate("value", 0)
        BY <2>2, <3>3, <4>1, NewIs DEF Defined
      <4>3. Defined[x] = Immediate("value", 0)
        BY <2>2, <3>3 DEF Defined
      <4> QED
        BY <4>2, <4>3
    <3>4. CASE /\ var[x] # None /\ var'[x] # None
               /\ var[x].expr # None /\ var'[x].expr = var[x].expr
      BY <2>2, <3>4 DEF Defined
    <3> QED
      BY <3>1, <3>2, <3>3, <3>4 DEF SameVariable
  <2> QED
    BY <2>1, <2>2
<1> QED
  BY <1>1 DEF Defined

LEMMA KeepsBehind ==
  ASSUME Keeps, NEW x \in Name
  PROVE  Behind(x)' = Behind(x)
<1>1. CASE x \in Parameter
  BY <1>1 DEF Keeps, SameParameter, Behind
<1>2. CASE x \notin Parameter
  <2>1. SameVariable(x)
    BY <1>2 DEF Keeps, Name
  <2> QED
    BY <1>2, <2>1, NewIs DEF SameVariable, Behind
<1> QED
  BY <1>1, <1>2

LEMMA KeepsKept ==
  ASSUME Keeps, Kept
  PROVE  Kept'
<1> SUFFICES ASSUME NEW x \in Variable, var'[x] # None, var'[x].expr # None
             PROVE  var'[x].type = DEFERRED
  BY DEF Kept
<1>1. SameVariable(x)
  BY DEF Keeps
<1> QED
  BY <1>1, NewIs DEF Kept, SameVariable

LEMMA KeepsSaves ==
  ASSUME Shapes, Keeps, Saves, cmd' = cmd, calls' # <<>> => calls # <<>>
  PROVE  Saves'
<1> SUFFICES ASSUME cmd # None, cmd.op = "save"
             PROVE  Saves'
  BY DEF Saves
<1>1. Defined' = Defined
  BY KeepsDefined
<1>2. \A x \in Name : Behind(x)' = Behind(x)
  BY KeepsBehind
<1>3. cmd.varl \in Seq(Variable)
  BY DEF Shapes, Assigning, Reading, Adding, SavingRecord
<1>4. \A i \in 1 .. Len(cmd.varl) : var'[cmd.varl[i]] # None
  <2> SUFFICES ASSUME NEW i \in 1 .. Len(cmd.varl)
               PROVE  var'[cmd.varl[i]] # None
    OBVIOUS
  <2>1. var[cmd.varl[i]] # None
    BY DEF Saves
  <2>2. cmd.varl[i] \in Variable
    BY <1>3
  <2>3. SameVariable(cmd.varl[i])
    BY <2>2 DEF Keeps
  <2> QED
    BY <2>1, <2>3 DEF SameVariable
<1>5. calls' # <<>> => cmd.value \in Name /\ Behind(cmd.value)' # None
  <2>1. calls' # <<>> => cmd.value \in Name /\ Behind(cmd.value) # None
    BY DEF Saves
  <2> QED
    BY <1>2, <2>1
<1> QED
  BY <1>1, <1>4, <1>5 DEF Saves

-----------------------------------------------------------------------------
(* Steps of an evaluation.                                                 *)

LEMMA CallRecordIs ==
  ASSUME NEW c \in CallRecord
  PROVE  /\ c.of \in {None} \union Name /\ c.expr \in Expr /\ c.at \in Nat \ {0} /\ c.sum \in Number
         /\ c = [of |-> c.of, expr |-> c.expr, at |-> c.at, sum |-> c.sum]
BY DEF CallRecord

LEMMA TakenIs ==
  ASSUME NEW stack \in Seq(CallRecord), stack # <<>>, NEW value \in Number
  PROVE  LET n == Len(stack)
             t == Taken(stack, value)
         IN  /\ n \in Nat /\ n >= 1 /\ t \in Seq(CallRecord) /\ Len(t) = n
             /\ \A i \in 1 .. n - 1 : t[i] = stack[i]
             /\ t[n].of = stack[n].of /\ t[n].expr = stack[n].expr
             /\ t[n].at = stack[n].at + 1 /\ t[n].sum = Plus(stack[n].sum, value)
<1> DEFINE n == Len(stack)
           c == stack[n]
           new == [of |-> c.of, expr |-> c.expr, at |-> c.at + 1, sum |-> Plus(c.sum, value)]
           t == [stack EXCEPT ![n] = new]
<1>1. n \in Nat /\ n >= 1 /\ n \in 1 .. n /\ n \in DOMAIN stack
  BY EmptySeq, LenProperties
<1>2. c \in CallRecord
  BY <1>1
<1> HIDE DEF c
<1>3. Taken(stack, value) = t
  <2>1. [[c EXCEPT !.at = @ + 1] EXCEPT !.sum = Plus(@, value)] = new
    <3> DEFINE next == [of |-> c.of, expr |-> c.expr, at |-> c.at + 1, sum |-> c.sum]
    <3>1. c = [of |-> c.of, expr |-> c.expr, at |-> c.at, sum |-> c.sum]
      BY <1>2, CallRecordIs
    <3>2. [c EXCEPT !.at = @ + 1] = next
      BY <3>1
    <3>3. [next EXCEPT !.sum = Plus(@, value)] = new
      OBVIOUS
    <3> QED
      BY <3>2, <3>3
  <2> QED
    BY <1>1, <2>1 DEF Taken, c
<1>4. new \in CallRecord
  BY <1>2, CallRecordIs, PlusIs DEF CallRecord
<1> HIDE DEF new
<1>5. t \in Seq(CallRecord) /\ Len(t) = n /\ t[n] = new /\ \A i \in 1 .. n - 1 : t[i] = stack[i]
  BY <1>1, <1>4, ExceptSeq
<1> QED
  BY <1>1, <1>3, <1>5 DEF new, c

(***************************************************************************)
(* The n-th call takes a value for its item; those inside of it are over.  *)
(***************************************************************************)
Advances(n, s, value) ==
  /\ s \in Seq(CallRecord) /\ Len(s) = n /\ \A i \in 1 .. n : s[i] = calls[i]
  /\ calls[n].at <= Len(calls[n].expr)
  /\ calls' = Taken(s, value)

LEMMA AdvancesIs ==
  ASSUME Shapes, NEW n \in 1 .. Len(calls), NEW s, NEW value \in Number, Advances(n, s, value)
  PROVE  /\ n \in Nat /\ n >= 1 /\ n <= Len(calls) /\ Len(calls) \in Nat
         /\ calls' \in Seq(CallRecord) /\ Len(calls') = n /\ calls' # <<>>
         /\ \A i \in 1 .. n - 1 : calls'[i] = calls[i]
         /\ calls'[n].of = calls[n].of /\ calls'[n].expr = calls[n].expr
         /\ calls'[n].at = calls[n].at + 1
         /\ calls'[n].sum = Plus(calls[n].sum, value)
         /\ \A i \in 1 .. n : calls'[i].of = calls[i].of /\ calls'[i].expr = calls[i].expr
         /\ \A i \in 1 .. n : calls[i] \in CallRecord
<1>1. calls \in Seq(CallRecord) /\ Len(calls) \in Nat
  BY DEF Shapes
<1>2. n \in Nat /\ n >= 1 /\ n <= Len(calls) /\ n \in 1 .. n
  BY <1>1
<1>3. s \in Seq(CallRecord) /\ Len(s) = n /\ s # <<>> /\ calls' = Taken(s, value)
  BY <1>2, EmptySeq DEF Advances
<1>4. s[n] = calls[n] /\ \A i \in 1 .. n - 1 : s[i] = calls[i]
  BY <1>2 DEF Advances
<1>5. /\ calls' \in Seq(CallRecord) /\ Len(calls') = n
      /\ \A i \in 1 .. n - 1 : calls'[i] = s[i]
      /\ calls'[n].of = s[n].of /\ calls'[n].expr = s[n].expr
      /\ calls'[n].at = s[n].at + 1 /\ calls'[n].sum = Plus(s[n].sum, value)
  BY <1>3, TakenIs
<1>6. calls' # <<>>
  BY <1>2, <1>5, EmptySeq
<1>7. \A i \in 1 .. n : calls'[i].of = calls[i].of /\ calls'[i].expr = calls[i].expr
  <2> SUFFICES ASSUME NEW i \in 1 .. n
               PROVE  calls'[i].of = calls[i].of /\ calls'[i].expr = calls[i].expr
    OBVIOUS
  <2>1. i = n \/ i \in 1 .. n - 1
    BY <1>2
  <2> QED
    BY <1>4, <1>5, <2>1
<1>8. \A i \in 1 .. n : calls[i] \in CallRecord
  BY <1>1, <1>2
<1> QED
  BY <1>1, <1>2, <1>4, <1>5, <1>6, <1>7, <1>8

LEMMA AdvancesCalled ==
  ASSUME Shapes, Called, Keeps,
         NEW n \in 1 .. Len(calls), NEW s, NEW value \in Number, Advances(n, s, value)
  PROVE  Called'
<1>1. /\ n \in Nat /\ n >= 1 /\ n <= Len(calls) /\ Len(calls) \in Nat
      /\ Len(calls') = n
      /\ \A i \in 1 .. n - 1 : calls'[i] = calls[i]
      /\ calls'[n].at = calls[n].at + 1
      /\ \A i \in 1 .. n : calls'[i].of = calls[i].of /\ calls'[i].expr = calls[i].expr
      /\ \A i \in 1 .. n : calls[i] \in CallRecord
  BY AdvancesIs
<1>2. \A x \in Name : Behind(x)' = Behind(x)
  BY KeepsBehind
<1> SUFFICES ASSUME NEW i \in 1 .. n
             PROVE  /\ calls'[i].at <= Len(calls'[i].expr) + 1
                    /\ calls'[i].of \in Name => calls'[i].expr = Behind(calls[i].of)'
                    /\ i > 1 => calls'[i].of \in Name
                    /\ i < n => /\ calls'[i].at <= Len(calls'[i].expr)
                                /\ calls'[i + 1].of = calls'[i].expr[calls'[i].at]
  BY <1>1 DEF Called
<1>3. i \in 1 .. Len(calls)
  BY <1>1
<1>4. /\ calls[i].at <= Len(calls[i].expr) + 1
      /\ calls[i].of \in Name => calls[i].expr = Behind(calls[i].of)
      /\ i > 1 => calls[i].of \in Name
      /\ i < Len(calls) => /\ calls[i].at <= Len(calls[i].expr)
                           /\ calls[i + 1].of = calls[i].expr[calls[i].at]
  BY <1>3 DEF Called
<1>5. calls'[i].of = calls[i].of /\ calls'[i].expr = calls[i].expr
  BY <1>1
<1>6. calls'[i].of \in Name => calls'[i].expr = Behind(calls[i].of)'
  <2> SUFFICES ASSUME calls[i].of \in Name
               PROVE  calls'[i].expr = Behind(calls[i].of)'
    BY <1>5
  <2>1. PICK x \in Name : x = calls[i].of
    OBVIOUS
  <2>2. Behind(x)' = Behind(calls[i].of)'
    BY <1>5, <2>1 DEF Behind
  <2> QED
    BY <1>2, <1>4, <1>5, <2>1, <2>2
<1>7. CASE i = n
  <2>1. calls[n].at <= Len(calls[n].expr) /\ calls[n].at \in Nat /\ Len(calls[n].expr) \in Nat
    BY <1>1, CallRecordIs, ExprIs DEF Advances
  <2>2. calls'[n].at <= Len(calls'[n].expr) + 1
    BY <1>1, <1>5, <1>7, <2>1
  <2> QED
    BY <1>1, <1>4, <1>5, <1>6, <1>7, <2>2
<1>8. CASE i # n
  <2>1. i \in 1 .. n - 1 /\ i + 1 \in 1 .. n /\ i < Len(calls)
    BY <1>1, <1>8
  <2>2. calls'[i] = calls[i] /\ calls'[i + 1].of = calls[i + 1].of
    BY <1>1, <2>1
  <2> QED
    BY <1>4, <1>6, <2>1, <2>2
<1> QED
  BY <1>7, <1>8

LEMMA AdvancesSummed ==
  ASSUME Shapes, Called, Keeps, Summed,
         NEW n \in 1 .. Len(calls), NEW s, NEW value \in Number, Advances(n, s, value),
         value = Worth(calls[n].expr[calls[n].at], Meanings(Defined)),
         calls[n].expr[calls[n].at] \in Name => calls[n].expr[calls[n].at] \in Ground(Defined)
  PROVE  Summed'
<1>1. /\ n \in Nat /\ n >= 1 /\ n <= Len(calls) /\ Len(calls) \in Nat
      /\ Len(calls') = n
      /\ \A i \in 1 .. n - 1 : calls'[i] = calls[i]
      /\ calls'[n].at = calls[n].at + 1
      /\ calls'[n].sum = Plus(calls[n].sum, value)
      /\ calls'[n].expr = calls[n].expr
      /\ \A i \in 1 .. n : calls[i] \in CallRecord
  BY AdvancesIs
<1>2. Defined' = Defined /\ Defined \in [Name -> Definition]
  BY KeepsDefined, DefinedIs
<1> DEFINE known == Meanings(Defined)
           ground == Ground(Defined)
<1>3. Meanings(Defined)' = known /\ Ground(Defined)' = ground
  <2> HIDE DEF known, ground
  <2>1. Meanings(Defined') = known /\ Ground(Defined') = ground
    BY <1>2 DEF known, ground
  <2> QED
    BY <2>1
<1>4. known \in [Name -> Number]
  BY <1>2, MeaningsAre
<1> SUFFICES ASSUME NEW i \in 1 .. n
             PROVE  /\ calls'[i].sum = Sums(calls'[i].expr, known)[calls'[i].at - 1]
                    /\ \A j \in 1 .. calls'[i].at - 1 :
                         calls'[i].expr[j] \in Name => calls'[i].expr[j] \in ground
  BY <1>1, <1>3 DEF Summed
<1>5. i \in 1 .. Len(calls)
  BY <1>1
<1>6. /\ calls[i].sum = Sums(calls[i].expr, known)[calls[i].at - 1]
      /\ \A j \in 1 .. calls[i].at - 1 :
           calls[i].expr[j] \in Name => calls[i].expr[j] \in ground
  BY <1>5 DEF Summed
<1> HIDE DEF known, ground
<1>7. CASE i = n
  <2>1. /\ calls[n].at \in Nat \ {0} /\ calls[n].expr \in Expr /\ calls[n].at <= Len(calls[n].expr)
        /\ Len(calls[n].expr) \in Nat
    <3>a. n \in 1 .. n
      BY <1>1
    <3>b. calls[n] \in CallRecord
      BY <1>1, <3>a
    <3>c. calls[n].at <= Len(calls[n].expr)
      BY DEF Advances
    <3>1. calls[n] \in CallRecord /\ calls[n].at <= Len(calls[n].expr)
      BY <3>b, <3>c
    <3>2. calls[n].at \in Nat \ {0} /\ calls[n].expr \in Expr
      BY <3>1, CallRecordIs
    <3> QED
      BY <3>1, <3>2, ExprIs
  <2>2. calls[n].at \in 1 .. Len(calls[n].expr) /\ (calls[n].at + 1) - 1 = calls[n].at
    BY <2>1
  <2>3. Sums(calls[n].expr, known)[calls[n].at]
          = Plus(Sums(calls[n].expr, known)[calls[n].at - 1], value)
    BY <1>4, <2>1, <2>2, SumsIs DEF known
  <2>4. calls'[n].sum = Sums(calls'[n].expr, known)[calls'[n].at - 1]
    BY <1>1, <1>6, <1>7, <2>2, <2>3
  <2>5. \A j \in 1 .. calls[n].at : j = calls[n].at \/ j \in 1 .. calls[n].at - 1
    BY <2>1
  <2>6. \A j \in 1 .. calls[n].at : calls[n].expr[j] \in Name => calls[n].expr[j] \in ground
    BY <1>6, <1>7, <2>5 DEF ground
  <2> QED
    BY <1>1, <1>7, <2>2, <2>4, <2>6
<1>8. CASE i # n
  <2>1. i \in 1 .. n - 1
    BY <1>1, <1>8
  <2> QED
    BY <1>1, <1>6, <2>1
<1> QED
  BY <1>7, <1>8

LEMMA WaitingKeeps ==
  ASSUME Shapes, Waiting, Keeps, cmd' = cmd, exited' = exited,
         calls # <<>>, calls' # <<>>, calls'[1].of = calls[1].of
  PROVE  Waiting'
<1>1. cmd # None /\ cmd.op = "add" => cmd.name \in Name
  BY DEF Shapes, Assigning, Reading, Adding, SavingRecord, Name
<1>2. cmd # None /\ cmd.op = "add" => Behind(cmd.name)' = Behind(cmd.name)
  <2> SUFFICES ASSUME cmd # None, cmd.op = "add"
               PROVE  Behind(cmd.name)' = Behind(cmd.name)
    OBVIOUS
  <2>1. PICK x \in Name : x = cmd.name
    BY <1>1
  <2>2. Behind(x)' = Behind(x)
    BY KeepsBehind
  <2> QED
    BY <2>1, <2>2 DEF Behind
<1> QED
  BY <1>2 DEF Waiting

LEMMA EnteredIs ==
  ASSUME Shapes, Listed, NEW x \in Variable, NEW v \in VariableRecord, Entered(x, v)
  PROVE  /\ list' \in Seq(Variable) /\ var' \in [Variable -> {None} \union VariableRecord]
         /\ Listed'
         /\ var'[x] = v /\ v # None /\ \A y \in Variable : y # x => var'[y] = var[y]
<1>1. list \in Seq(Variable) /\ var \in [Variable -> {None} \union VariableRecord]
  BY DEF Shapes
<1>2. /\ var' \in [Variable -> {None} \union VariableRecord]
      /\ var'[x] = v /\ v # None /\ \A y \in Variable : y # x => var'[y] = var[y]
  BY <1>1, RecordIs DEF Entered
<1>3. CASE var[x] = None
  <2>1. list' = Append(list, x)
    BY <1>3 DEF Entered
  <2>2. list' \in Seq(Variable) /\ Len(list') = Len(list) + 1
        /\ list'[Len(list) + 1] = x /\ \A i \in 1 .. Len(list) : list'[i] = list[i]
    BY <1>1, <2>1, AppendProperties
  <2>3. Range(list') = Range(list) \union {x}
    <3>1. /\ DOMAIN list = 1 .. Len(list) /\ DOMAIN list' = 1 .. Len(list) + 1
          /\ Len(list) \in Nat
      BY <1>1, <2>2, LenProperties
    <3>2. \A i \in 1 .. Len(list) + 1 : i = Len(list) + 1 \/ i \in 1 .. Len(list)
      BY <3>1
    <3>3. Len(list) + 1 \in 1 .. Len(list) + 1 /\ \A i \in 1 .. Len(list) : i \in 1 .. Len(list) + 1
      BY <3>1
    <3> QED
      BY <2>2, <3>1, <3>2, <3>3 DEF Range
  <2>4. Listed'
    BY <1>2, <2>3 DEF Listed
  <2> QED
    BY <1>2, <2>2, <2>4
<1>4. CASE var[x] # None
  <2>1. list' = list
    BY <1>4 DEF Entered
  <2>2. Listed'
    BY <1>2, <1>4, <2>1 DEF Listed
  <2> QED
    BY <1>1, <1>2, <2>1, <2>2
<1> QED
  BY <1>3, <1>4

(***************************************************************************)
(* A value that need not be evaluated is what the name means.              *)
(***************************************************************************)
LEMMA HeldIs ==
  ASSUME Shapes, Kept, NEW x \in Name, Pending(x) = None
  PROVE  /\ Held(x) \in Number
         /\ Held(x) = Meanings(Defined)[x]
         /\ x \in Ground(Defined)
<1>1. Held(x) \in Number /\ \E kind \in {"value", "constant"} : Defined[x] = Immediate(kind, Held(x))
  <2>1. CASE x \in Parameter
    <3>1. par[x].expr = None
      BY <2>1 DEF Pending
    <3>2. par[x].value \in Number
      BY <2>1 DEF Shapes, ParameterRecord
    <3> QED
      BY <2>1, <3>1, <3>2 DEF Defined, Held
  <2>2. CASE x \notin Parameter /\ var[x] = None
    BY <2>2, NumberIs DEF Defined, Held
  <2>3. CASE x \notin Parameter /\ var[x] # None
    <3>1. x \in Variable /\ var[x] \in VariableRecord
      BY <2>3 DEF Shapes, Name
    <3>2. var[x].value \in Number
      BY <3>1, RecordIs
    <3>3. var[x].expr = None
      <4>1. CASE IsCached(x)
        <5>1. DEFERRED < DEFERRED <=> FALSE
          BY DEF DEFERRED
        <5> QED
          BY <2>3, <3>1, <4>1, <5>1 DEF IsCached, Kept
      <4>2. CASE ~IsCached(x)
        BY <2>3, <4>2 DEF Pending
      <4> QED
        BY <4>1, <4>2
    <3> QED
      BY <2>3, <3>2, <3>3 DEF Defined, Held
  <2> QED
    BY <2>1, <2>2, <2>3
<1>2. PICK kind \in {"value", "constant"} : Defined[x] = Immediate(kind, Held(x))
  BY <1>1
<1>3. Defined[x].kind # "deferred" /\ Defined[x].value = Held(x)
  BY <1>1, <1>2, ImmediateIs
<1>4. Held(x) = Meanings(Defined)[x]
  BY <1>3, DefinedIs, MeaningsAre
<1>5. x \in Closed(Defined, Ground(Defined))
  BY <1>3 DEF Closed, Refers
<1>6. Closed(Defined, Ground(Defined)) = Ground(Defined)
  BY GroundClosed
<1> QED
  BY <1>1, <1>4, <1>5, <1>6

LEMMA PendingIs ==
  ASSUME Shapes, NEW x \in Name, Pending(x) # None
  PROVE  Pending(x) = Behind(x) /\ Pending(x) \in Expr
<1>1. CASE x \in Parameter
  BY <1>1 DEF Pending, Behind, Shapes, ParameterRecord
<1>2. CASE x \notin Parameter
  <2>1. x \in Variable /\ var[x] # None /\ Pending(x) = var[x].expr
    BY <1>2 DEF Pending, Name
  <2>2. var[x] \in VariableRecord
    BY <2>1 DEF Shapes
  <2> QED
    BY <1>2, <2>1, <2>2, RecordIs DEF Behind
<1> QED
  BY <1>1, <1>2

LEMMA CallerIs ==
  ASSUME Shapes, calls # <<>>
  PROVE  /\ Len(calls) \in Nat /\ Len(calls) >= 1 /\ Len(calls) \in 1 .. Len(calls)
         /\ 1 \in 1 .. Len(calls)
         /\ Caller = calls[Len(calls)] /\ Caller \in CallRecord
<1>1. calls \in Seq(CallRecord)
  BY DEF Shapes
<1>2. Len(calls) \in Nat /\ Len(calls) >= 1
  BY <1>1, EmptySeq, LenProperties
<1> QED
  BY <1>1, <1>2 DEF Caller

LEMMA TakeIs ==
  ASSUME IInv, Take
  PROVE  IInv' /\ Keeps /\ (Summed => Summed')
<1> DEFINE n == Len(calls)
           known == Meanings(Defined)
<1>1. Shapes /\ Listed /\ Kept /\ Called /\ Waiting /\ Saves
  BY DEF IInv
<1>2. calls # <<>> /\ Items /\ UNCHANGED <<par, cmd, exited>>
  BY DEF Take
<1>3. /\ n \in Nat /\ n >= 1 /\ n \in 1 .. n /\ 1 \in 1 .. n
      /\ Caller = calls[n] /\ Caller \in CallRecord
  BY <1>1, <1>2, CallerIs
<1>4. Item = calls[n].expr[calls[n].at] /\ calls[n].at <= Len(calls[n].expr)
  BY <1>2, <1>3 DEF Items, Item
<1>5. Item \in Number \union Name
  <2>1. calls[n].at \in 1 .. Len(calls[n].expr)
    BY <1>3, <1>4, CallRecordIs, ExprIs
  <2> QED
    BY <1>3, <1>4, <2>1, CallRecordIs, ExprIs
<1>6. PICK value \in Number :
        /\ calls' = Taken(calls, value)
        /\ value = Worth(Item, known)
        /\ Item \in Name => Item \in Ground(Defined)
  <2>1. CASE Item \in Number /\ calls' = Taken(calls, Item)
    <3>1. Item \notin Name
      BY <2>1, ExpressionsAssumption
    <3> QED
      BY <2>1, <3>1 DEF Worth
  <2>2. CASE Item \in Name /\ Pending(Item) = None /\ calls' = Taken(calls, Held(Item))
    <3>1. Held(Item) \in Number /\ Held(Item) = known[Item] /\ Item \in Ground(Defined)
      BY <1>1, <2>2, HeldIs
    <3> QED
      BY <2>2, <3>1 DEF Worth
  <2> QED
    BY <2>1, <2>2 DEF Take
<1> HIDE DEF known
<1>7. /\ list' \in Seq(Variable) /\ var' \in [Variable -> {None} \union VariableRecord]
      /\ Listed' /\ \A x \in Variable : SameVariable(x)
  <2>1. CASE UNCHANGED <<var, list>>
    BY <1>1, <2>1 DEF Shapes, Listed, SameVariable
  <2>2. CASE Item \in Variable /\ var[Item] = None /\ Entered(Item, NewVariable(DIRECT, 0, None))
    <3>1. PICK x \in Variable : x = Item
      BY <2>2
    <3>2. Entered(x, NewVariable(DIRECT, 0, None)) /\ var[x] = None
      BY <2>2, <3>1
    <3>3. /\ list' \in Seq(Variable) /\ var' \in [Variable -> {None} \union VariableRecord]
          /\ Listed'
          /\ var'[x] = NewVariable(DIRECT, 0, None)
          /\ \A y \in Variable : y # x => var'[y] = var[y]
      BY <1>1, <3>2, NewIs, EnteredIs
    <3> QED
      BY <3>2, <3>3 DEF SameVariable
  <2> QED
    BY <2>1, <2>2 DEF Take
<1>8. Keeps
  BY <1>2, <1>7 DEF Keeps, SameParameter
<1>9. Advances(n, calls, value)
  BY <1>1, <1>3, <1>4, <1>6 DEF Advances, Shapes
<1>10. calls' \in Seq(CallRecord) /\ calls' # <<>> /\ calls'[1].of = calls[1].of
  <2> HIDE DEF n
  <2>1. \A i \in 1 .. n : calls'[i].of = calls[i].of
    BY <1>1, <1>3, <1>9, AdvancesIs DEF n
  <2>2. calls' \in Seq(CallRecord) /\ calls' # <<>>
    BY <1>1, <1>3, <1>9, AdvancesIs DEF n
  <2> QED
    BY <1>3, <2>1, <2>2
<1>11. Shapes'
  BY <1>1, <1>2, <1>7, <1>10 DEF Shapes
<1>12. Called'
  BY <1>1, <1>3, <1>8, <1>9, AdvancesCalled
<1>13. Kept' /\ Waiting' /\ Saves'
  BY <1>1, <1>2, <1>8, <1>10, KeepsKept, WaitingKeeps, KeepsSaves
<1>14. Summed => Summed'
  <2> SUFFICES ASSUME Summed
               PROVE  Summed'
    OBVIOUS
  <2>1. value = Worth(calls[n].expr[calls[n].at], Meanings(Defined))
    BY <1>4, <1>6 DEF known
  <2>2. calls[n].expr[calls[n].at] \in Name => calls[n].expr[calls[n].at] \in Ground(Defined)
    BY <1>4, <1>6
  <2> QED
    BY <1>1, <1>3, <1>8, <1>9, <2>1, <2>2, AdvancesSummed
<1> QED
  BY <1>7, <1>8, <1>11, <1>12, <1>13, <1>14 DEF IInv

LEMMA SameKeeps ==
  ASSUME UNCHANGED <<var, par>>
  PROVE  Keeps
BY DEF Keeps, SameVariable, SameParameter

LEMMA DescendIs ==
  ASSUME IInv, Descend
  PROVE  IInv' /\ Keeps /\ (Summed => Summed')
<1> DEFINE n == Len(calls)
<1>1. Shapes /\ Listed /\ Kept /\ Called /\ Waiting /\ Saves
  BY DEF IInv
<1>2. calls # <<>> /\ Items /\ UNCHANGED <<list, var, par>> /\ Item \in Name /\ Pending(Item) # None
  BY DEF Descend
<1>3. /\ n \in Nat /\ n >= 1 /\ n \in 1 .. n /\ 1 \in 1 .. n
      /\ Caller = calls[n] /\ Caller \in CallRecord
  BY <1>1, <1>2, CallerIs
<1>4. Keeps
  BY <1>2, SameKeeps
<1>5. Kept' /\ Listed'
  BY <1>1, <1>2 DEF Kept, Listed
<1>6. CASE TooDeep
  <2>1. calls' = <<>> /\ cmd' = None
    BY <1>6 DEF Descend
  <2>2. Shapes'
    BY <1>1, <1>2, <2>1 DEF Shapes
  <2>3. Called' /\ Waiting' /\ Saves' /\ Summed'
    BY <2>1 DEF Called, Waiting, Saves, Summed
  <2> QED
    BY <1>4, <1>5, <2>2, <2>3 DEF IInv
<1>7. CASE ~TooDeep
  <2>1. calls' = Append(calls, Call(Item, Pending(Item))) /\ UNCHANGED <<cmd, exited>>
    BY <1>7 DEF Descend
  <2>2. PICK x \in Name : x = Item
    BY <1>2
  <2> DEFINE c == Call(x, Pending(x))
  <2>3. Pending(x) = Behind(x) /\ Pending(x) \in Expr
    BY <1>1, <1>2, <2>2, PendingIs
  <2>4. /\ c \in CallRecord /\ c.of = x /\ c.expr = Behind(x) /\ c.at = 1 /\ c.sum = 0
    BY <2>3, NumberIs DEF Call, CallRecord
  <2> HIDE DEF c
  <2>5. calls \in Seq(CallRecord) /\ calls' = Append(calls, c)
    BY <1>1, <2>1, <2>2 DEF Shapes, c
  <2>6. /\ calls' \in Seq(CallRecord) /\ Len(calls') = n + 1
        /\ calls'[n + 1] = c /\ \A i \in 1 .. n : calls'[i] = calls[i]
    BY <2>4, <2>5, AppendProperties
  <2>7. calls' # <<>> /\ calls'[1].of = calls[1].of
    BY <1>3, <2>6, EmptySeq
  <2>8. Shapes'
    BY <1>1, <1>2, <2>1, <2>6 DEF Shapes
  <2>9. Waiting' /\ Saves'
    BY <1>1, <1>2, <1>4, <2>1, <2>7, WaitingKeeps, KeepsSaves
  <2>10. c.expr \in Expr /\ Len(c.expr) \in Nat
    BY <2>3, <2>4, ExprIs
  <2>11. \A i \in 1 .. n + 1 : i = n + 1 \/ i \in 1 .. n
    BY <1>3
  <2>12. calls[n].at <= Len(calls[n].expr) /\ calls[n].expr[calls[n].at] = x
    BY <1>2, <1>3, <2>2 DEF Items, Item
  <2>13. Called'
    <3> SUFFICES ASSUME NEW i \in 1 .. n + 1
                 PROVE  /\ calls'[i].at <= Len(calls'[i].expr) + 1
                        /\ calls'[i].of \in Name => calls'[i].expr = Behind(calls[i].of)'
                        /\ i > 1 => calls'[i].of \in Name
                        /\ i < n + 1 => /\ calls'[i].at <= Len(calls'[i].expr)
                                        /\ calls'[i + 1].of = calls'[i].expr[calls'[i].at]
      BY <2>6 DEF Called
    <3>1. CASE i = n + 1
      <4>1. calls'[i].expr = Behind(calls[i].of)'
        BY <1>2, <2>4, <2>6, <3>1 DEF Behind
      <4>2. calls'[i].at <= Len(calls'[i].expr) + 1
        BY <2>4, <2>6, <2>10, <3>1
      <4>3. calls'[i].of \in Name /\ ~(i < n + 1)
        BY <1>3, <2>4, <2>6, <3>1
      <4> QED
        BY <4>1, <4>2, <4>3
    <3>2. CASE i \in 1 .. n
      <4>1. calls'[i] = calls[i]
        BY <2>6, <3>2
      <4>2. /\ calls[i].at <= Len(calls[i].expr) + 1
            /\ calls[i].of \in Name => calls[i].expr = Behind(calls[i].of)
            /\ i > 1 => calls[i].of \in Name
            /\ i < n => /\ calls[i].at <= Len(calls[i].expr)
                        /\ calls[i + 1].of = calls[i].expr[calls[i].at]
        BY <1>1, <3>2 DEF Called
      <4>3. calls'[i].of \in Name => calls'[i].expr = Behind(calls[i].of)'
        BY <1>2, <4>1, <4>2 DEF Behind
      <4>4. CASE i = n
        BY <2>4, <2>6, <2>12, <4>1, <4>2, <4>3, <4>4
      <4>5. CASE i # n
        <5>1. i < n /\ i + 1 \in 1 .. n
          BY <1>3, <3>2, <4>5
        <5> QED
          BY <2>6, <4>1, <4>2, <4>3, <5>1
      <4> QED
        BY <4>4, <4>5
    <3> QED
      BY <2>11, <3>1, <3>2
  <2>14. ASSUME Summed
         PROVE  Summed'
    <3>1. Defined' = Defined /\ Defined \in [Name -> Definition]
      BY <1>1, <1>4, KeepsDefined, DefinedIs
    <3> DEFINE known == Meanings(Defined)
               ground == Ground(Defined)
    <3>2. Meanings(Defined)' = known /\ Ground(Defined)' = ground
      BY <3>1
    <3>3. known \in [Name -> Number]
      BY <3>1, MeaningsAre
    <3>4. Sums(c.expr, known)[0] = 0
      BY <2>10, <3>3, SumsIs
    <3>5. \A i \in 1 .. n :
            /\ calls[i].sum = Sums(calls[i].expr, known)[calls[i].at - 1]
            /\ \A j \in 1 .. calls[i].at - 1 :
                 calls[i].expr[j] \in Name => calls[i].expr[j] \in ground
      BY <2>14 DEF Summed
    <3> HIDE DEF known, ground
    <3> SUFFICES ASSUME NEW i \in 1 .. n + 1
                 PROVE  /\ calls'[i].sum = Sums(calls'[i].expr, known)[calls'[i].at - 1]
                        /\ \A j \in 1 .. calls'[i].at - 1 :
                             calls'[i].expr[j] \in Name => calls'[i].expr[j] \in ground
      BY <2>6, <3>2 DEF Summed
    <3>6. CASE i = n + 1
      <4>1. calls'[i].sum = 0 /\ calls'[i].at - 1 = 0 /\ calls'[i].expr = c.expr
        BY <2>4, <2>6, <3>6
      <4> QED
        BY <3>4, <4>1
    <3>7. CASE i \in 1 .. n
      BY <2>6, <3>5, <3>7
    <3> QED
      BY <2>11, <3>6, <3>7
  <2> QED
    BY <1>4, <1>5, <2>8, <2>9, <2>13, <2>14 DEF IInv
<1> QED
  BY <1>6, <1>7

LEMMA BehindDefined ==
  ASSUME Shapes, NEW x \in Name, Behind(x) # None
  PROVE  Behind(x) \in Expr /\ Defined[x] = Deferred(Behind(x))
<1>1. CASE x \in Parameter
  BY <1>1 DEF Behind, Defined, Shapes, ParameterRecord
<1>2. CASE x \notin Parameter
  <2>1. x \in Variable /\ var[x] # None /\ Behind(x) = var[x].expr
    BY <1>2 DEF Behind, Name
  <2>2. var[x] \in VariableRecord
    BY <2>1 DEF Shapes
  <2> QED
    BY <1>2, <2>1, <2>2, RecordIs DEF Defined
<1> QED
  BY <1>1, <1>2

(***************************************************************************)
(* A call that has come to its end has what its expression means, and what *)
(* its name means.                                                         *)
(***************************************************************************)
LEMMA ComesToMeaning ==
  ASSUME Shapes, Called, Summed, calls # <<>>, ~Items
  PROVE  /\ Caller.sum = Meaning(Defined, Caller.expr)
         /\ Caller.of \in Name => /\ Caller.sum = Meanings(Defined)[Caller.of]
                                  /\ Caller.of \in Ground(Defined)
         /\ Names(Caller.expr) \subseteq Ground(Defined)
<1> DEFINE n == Len(calls)
           e == Caller.expr
           known == Meanings(Defined)
<1>1. /\ n \in Nat /\ n >= 1 /\ n \in 1 .. n
      /\ Caller = calls[n] /\ Caller \in CallRecord
  BY CallerIs
<1>2. e \in Expr /\ Len(e) \in Nat /\ Caller.at \in Nat /\ Caller.at = Len(e) + 1
  <2>1. calls[n].at <= Len(calls[n].expr) + 1
    BY <1>1 DEF Called
  <2>2. e \in Expr /\ Caller.at \in Nat
    BY <1>1, CallRecordIs
  <2>3. Len(e) \in Nat
    BY <2>2, ExprIs
  <2> QED
    BY <1>1, <2>1, <2>2, <2>3 DEF Items
<1>3. Defined \in [Name -> Definition] /\ known \in [Name -> Number]
  BY DefinedIs, MeaningsAre
<1>4. /\ Caller.sum = Sums(e, known)[Len(e)]
      /\ \A j \in 1 .. Len(e) : e[j] \in Name => e[j] \in Ground(Defined)
  <2>1. (Len(e) + 1) - 1 = Len(e)
    BY <1>2
  <2> HIDE DEF known, n
  <2>2. /\ calls[n].sum = Sums(calls[n].expr, known)[calls[n].at - 1]
        /\ \A j \in 1 .. calls[n].at - 1 :
             calls[n].expr[j] \in Name => calls[n].expr[j] \in Ground(Defined)
    BY <1>1 DEF Summed, n, known
  <2> QED
    BY <1>1, <1>2, <2>1, <2>2
<1>5. Caller.sum = Meaning(Defined, e)
  BY <1>4 DEF Meaning, Total
<1>6. ASSUME Caller.of \in Name
      PROVE  Caller.sum = Meanings(Defined)[Caller.of] /\ Caller.of \in Ground(Defined)
  <2>1. PICK x \in Name : x = Caller.of
    BY <1>6
  <2>2. e = Behind(x)
    <3>1. calls[n].expr = Behind(calls[n].of)
      BY <1>1, <1>6 DEF Called
    <3> QED
      BY <1>1, <2>1, <3>1
  <2>3. Defined[x] = Deferred(e)
    BY <1>2, <2>2, BehindDefined, ExprIs
  <2> HIDE DEF e, known
  <2>4. CASE Literal(e)
    <3>1. Defined[x] = Immediate("value", e[1]) /\ e[1] \in Number
      BY <1>2, <2>3, <2>4, DeferredIs
    <3>2. Defined[x].kind # "deferred" /\ Defined[x].value = e[1]
      BY <3>1, ImmediateIs
    <3>3. known[x] = e[1]
      BY <1>3, <3>2, MeaningsAre DEF known
    <3>4. x \in Closed(Defined, Ground(Defined))
      BY <3>2 DEF Closed, Refers
    <3>5. Total(e, known) = e[1]
      BY <1>2, <1>3, <2>4, LiteralIs
    <3> QED
      BY <1>4, <2>1, <3>3, <3>4, <3>5, GroundClosed DEF Total, known
  <2>5. CASE ~Literal(e)
    <3>1. Defined[x] = [kind |-> "deferred", expr |-> e]
      BY <1>2, <2>3, <2>5, DeferredIs
    <3>2. Defined[x].kind = "deferred" /\ Defined[x].expr = e
      BY <3>1
    <3>3. Refers(Defined, x) \subseteq Ground(Defined)
      BY <1>2, <1>4, <3>2 DEF Refers, Range, Expr
    <3>4. x \in Ground(Defined)
      BY <3>3, GroundClosed DEF Closed
    <3>5. Means(Defined, known)[x] = known[x]
      BY <1>3, <3>4, GroundSettled DEF known
    <3>6. Means(Defined, known)[x] = Total(e, known)
      BY <3>2 DEF Means
    <3> QED
      BY <1>4, <2>1, <3>4, <3>5, <3>6 DEF Total, known
  <2> QED
    BY <2>4, <2>5
<1>7. Names(e) \subseteq Ground(Defined)
  BY <1>2, <1>4 DEF Names, Range, Expr
<1> QED
  BY <1>5, <1>6, <1>7

LEMMA EvaluatedIs ==
  ASSUME Shapes, Listed, NEW x \in Name, Behind(x) # None, NEW value \in Number,
         var' = Evaluated(x, value), UNCHANGED <<list, par>>
  PROVE  /\ var' \in [Variable -> {None} \union VariableRecord]
         /\ Keeps /\ Listed'
<1>1. var \in [Variable -> {None} \union VariableRecord]
  BY DEF Shapes
<1>2. CASE x \notin Variable
  <2>1. var' = var
    BY <1>2 DEF Evaluated
  <2> QED
    BY <1>1, <2>1, SameKeeps DEF Listed
<1>3. CASE x \in Variable
  <2>1. x \notin Parameter
    BY <1>3, VariablesAssumption
  <2>2. var[x] # None /\ var[x].expr # None
    BY <2>1 DEF Behind
  <2>3. PICK v \in VariableRecord : v = var[x]
    BY <1>1, <1>3, <2>2
  <2> DEFINE new == [type |-> v.type, value |-> value, status |-> 1, expr |-> v.expr]
             half == [type |-> v.type, value |-> value, status |-> v.status, expr |-> v.expr]
  <2>4. v = [type |-> v.type, value |-> v.value, status |-> v.status, expr |-> v.expr]
    BY DEF VariableRecord
  <2>5. [v EXCEPT !.value = value] = half
    BY <2>4
  <2>6. [half EXCEPT !.status = 1] = new
    OBVIOUS
  <2>7. new \in VariableRecord
    BY RecordIs DEF VariableRecord
  <2>8. var' = [var EXCEPT ![x] = new]
    <3>1. var' = [[var EXCEPT ![x].value = value] EXCEPT ![x].status = 1]
      BY <1>3 DEF Evaluated
    <3>2. [var EXCEPT ![x].value = value] = [var EXCEPT ![x] = half]
      BY <2>3, <2>5
    <3>3. [[var EXCEPT ![x] = half] EXCEPT ![x].status = 1] = [[var EXCEPT ![x] = half] EXCEPT ![x] = new]
      <4>1. [var EXCEPT ![x] = half][x] = half
        BY <1>1, <1>3
      <4> QED
        BY <2>6, <4>1
    <3> HIDE DEF half, new
    <3>4. [[var EXCEPT ![x] = half] EXCEPT ![x] = new] = [var EXCEPT ![x] = new]
      BY <1>1
    <3> QED
      BY <3>1, <3>2, <3>3, <3>4
  <2>9. /\ var'[x] = new /\ \A y \in Variable : y # x => var'[y] = var[y]
        /\ var' \in [Variable -> {None} \union VariableRecord]
    <3> HIDE DEF new
    <3> QED
      BY <1>1, <1>3, <2>7, <2>8
  <2>10. var'[x] # None /\ var'[x].expr = var[x].expr /\ var'[x].type = var[x].type
    BY <2>3, <2>7, <2>9, RecordIs
  <2>11. Keeps
    BY <2>2, <2>9, <2>10 DEF Keeps, SameVariable, SameParameter
  <2>12. Listed'
    BY <2>2, <2>9, <2>10 DEF Listed
  <2> QED
    BY <2>9, <2>11, <2>12
<1> QED
  BY <1>2, <1>3

LEMMA ReturnIs ==
  ASSUME IInv, Return
  PROVE  IInv' /\ Keeps /\ (Summed => Summed')
<1> DEFINE n == Len(calls)
           m == n - 1
           s == Front(calls)
<1>1. Shapes /\ Listed /\ Kept /\ Called /\ Waiting /\ Saves
  BY DEF IInv
<1>2. /\ n > 1 /\ ~Items /\ UNCHANGED <<list, par, cmd, exited>>
      /\ calls' = Taken(s, Caller.sum) /\ var' = Evaluated(Caller.of, Caller.sum)
  BY DEF Return
<1>3. calls # <<>>
  BY <1>2, EmptySeq
<1>4. /\ n \in Nat /\ n \in 1 .. n /\ 1 \in 1 .. n /\ Caller = calls[n] /\ Caller \in CallRecord
  BY <1>1, <1>3, CallerIs
<1>5. m \in 1 .. n /\ m < n /\ m + 1 = n /\ 1 \in 1 .. m
  BY <1>2, <1>4
<1>6. s \in Seq(CallRecord) /\ Len(s) = m /\ \A i \in 1 .. m : s[i] = calls[i]
  <2>1. calls \in Seq(CallRecord) /\ s = SubSeq(calls, 1, m)
    BY <1>1 DEF Shapes, Front
  <2>2. 1 \in 1 .. n + 1 /\ m \in 0 .. n /\ 1 <= m /\ m - 1 + 1 = m
    BY <1>4, <1>5
  <2> HIDE DEF m, s
  <2>3. s \in Seq(CallRecord) /\ Len(s) = m
    BY <2>1, <2>2, SubSeqProperties
  <2>4. \A i \in 1 .. m : s[i] = calls[1 + i - 1]
    BY <2>1, <2>2, SubSeqProperties
  <2>5. \A i \in 1 .. m : 1 + i - 1 = i
    OBVIOUS
  <2> QED
    BY <2>3, <2>4, <2>5
<1>7. /\ calls[m].at <= Len(calls[m].expr)
      /\ Caller.of = calls[m].expr[calls[m].at]
      /\ Caller.of \in Name /\ Caller.expr = Behind(Caller.of)
  <2>1. /\ calls[m].at <= Len(calls[m].expr)
        /\ calls[m + 1].of = calls[m].expr[calls[m].at]
    BY <1>1, <1>5 DEF Called
  <2>2. calls[n].of \in Name /\ calls[n].expr = Behind(calls[n].of)
    BY <1>1, <1>2, <1>4 DEF Called
  <2> QED
    BY <1>4, <1>5, <2>1, <2>2
<1>8. PICK x \in Name, value \in Number : x = Caller.of /\ value = Caller.sum
  BY <1>4, <1>7, CallRecordIs
<1>9. Behind(x) # None
  <2>1. Behind(x) = Caller.expr
    BY <1>7, <1>8
  <2>2. Caller.expr \in Expr
    BY <1>4, CallRecordIs
  <2> QED
    BY <2>1, <2>2, ExprIs
<1>10. var' \in [Variable -> {None} \union VariableRecord] /\ Keeps /\ Listed'
  BY <1>1, <1>2, <1>8, <1>9, EvaluatedIs
<1>11. Advances(m, s, value)
  BY <1>2, <1>6, <1>7, <1>8 DEF Advances
<1>12. calls' \in Seq(CallRecord) /\ calls' # <<>> /\ calls'[1].of = calls[1].of
  <2> HIDE DEF n, m, s
  <2>1. \A i \in 1 .. m : calls'[i].of = calls[i].of
    BY <1>1, <1>5, <1>11, AdvancesIs DEF n
  <2>2. calls' \in Seq(CallRecord) /\ calls' # <<>>
    BY <1>1, <1>5, <1>11, AdvancesIs DEF n
  <2> QED
    BY <1>5, <2>1, <2>2
<1>13. Shapes'
  BY <1>1, <1>2, <1>10, <1>12 DEF Shapes
<1>14. Called'
  <2> HIDE DEF n, m, s
  <2> QED
    BY <1>1, <1>5, <1>10, <1>11, AdvancesCalled DEF n
<1>15. Kept' /\ Waiting' /\ Saves'
  BY <1>1, <1>2, <1>3, <1>10, <1>12, KeepsKept, WaitingKeeps, KeepsSaves
<1>16. ASSUME Summed
       PROVE  Summed'
  <2>1. value = Meanings(Defined)[x] /\ x \in Ground(Defined)
    BY <1>1, <1>2, <1>3, <1>8, <1>16, ComesToMeaning
  <2>2. value = Worth(calls[m].expr[calls[m].at], Meanings(Defined))
    BY <1>7, <1>8, <2>1 DEF Worth
  <2>3. calls[m].expr[calls[m].at] \in Name => calls[m].expr[calls[m].at] \in Ground(Defined)
    BY <1>7, <1>8, <2>1
  <2> HIDE DEF n, m, s
  <2> QED
    BY <1>1, <1>5, <1>10, <1>11, <1>16, <2>2, <2>3, AdvancesSummed DEF n
<1> QED
  BY <1>10, <1>13, <1>14, <1>15, <1>16 DEF IInv

-----------------------------------------------------------------------------
(* Statements.                                                             *)

Files == UNION {[names -> Definition] : names \in SUBSET Name}

LEMMA SavingIs ==
  ASSUME NEW c \in SavingRecord
  PROVE  /\ c.op = "save" /\ c.noexpr \in BOOLEAN /\ c.varl \in Seq(Variable) /\ c.at \in Nat \ {0}
         /\ c.left \in SUBSET Parameter /\ c.saved \in Files /\ c.value \in {None} \union Name
         /\ c = [op |-> "save", noexpr |-> c.noexpr, varl |-> c.varl, at |-> c.at,
                 left |-> c.left, saved |-> c.saved, value |-> c.value]
BY DEF SavingRecord, Files

LEMMA WritesIs ==
  ASSUME cmd \in SavingRecord, NEW x \in Name, NEW d \in Definition
  PROVE  /\ Writes(x, d) \in Files
         /\ DOMAIN Writes(x, d) = DOMAIN cmd.saved \union {x}
         /\ Writes(x, d)[x] = d
         /\ \A y \in DOMAIN cmd.saved : y # x => Writes(x, d)[y] = cmd.saved[y]
<1>1. PICK names \in SUBSET Name : cmd.saved \in [names -> Definition]
  BY SavingIs DEF Files
<1>2. /\ DOMAIN cmd.saved \union {x} \in SUBSET Name
      /\ \A y \in DOMAIN cmd.saved : cmd.saved[y] \in Definition
  BY <1>1
<1>3. Writes(x, d) \in [DOMAIN cmd.saved \union {x} -> Definition]
  BY <1>2 DEF Writes
<1>4. Writes(x, d) \in Files
  BY <1>2, <1>3 DEF Files
<1> QED
  BY <1>4 DEF Writes

(***************************************************************************)
(* Nothing goes on any more, or something begins with a first call.        *)
(***************************************************************************)
LEMMA OverIs ==
  ASSUME calls' = <<>>, cmd' = None
  PROVE  /\ Called' /\ Waiting' /\ Saves' /\ Summed'
         /\ calls' \in Seq(CallRecord)
BY DEF Called, Waiting, Saves, Summed

LEMMA FirstCallIs ==
  ASSUME Shapes, UNCHANGED <<var, par>>, NEW x \in {None} \union Name, NEW e \in Expr,
         x \in Name => e = Behind(x), calls' = <<Call(x, e)>>
  PROVE  /\ calls' \in Seq(CallRecord) /\ calls' # <<>> /\ calls'[1].of = x
         /\ Called' /\ Summed'
<1> DEFINE c == Call(x, e)
<1>1. c \in CallRecord /\ c.of = x /\ c.expr = e /\ c.at = 1 /\ c.sum = 0
  BY NumberIs DEF Call, CallRecord
<1> HIDE DEF c
<1>2. calls' = <<c>>
  BY DEF c
<1>3. calls' \in Seq(CallRecord) /\ Len(calls') = 1 /\ calls'[1] = c /\ calls' # <<>>
  BY <1>1, <1>2
<1>4. Len(e) \in Nat
  BY ExprIs
<1>5. Called'
  <2> SUFFICES ASSUME NEW i \in 1 .. 1
               PROVE  /\ calls'[i].at <= Len(calls'[i].expr) + 1
                      /\ calls'[i].of \in Name => calls'[i].expr = Behind(calls[i].of)'
                      /\ i > 1 => calls'[i].of \in Name
                      /\ i < 1 => /\ calls'[i].at <= Len(calls'[i].expr)
                                  /\ calls'[i + 1].of = calls'[i].expr[calls'[i].at]
    BY <1>3 DEF Called
  <2>1. i = 1 /\ ~(i > 1) /\ ~(i < 1)
    OBVIOUS
  <2>2. calls'[i].of \in Name => calls'[i].expr = Behind(calls[i].of)'
    BY <1>1, <1>3, <2>1 DEF Behind
  <2>3. 1 <= Len(e) + 1
    BY <1>4
  <2> QED
    BY <1>1, <1>3, <2>1, <2>2, <2>3
<1>6. Summed'
  <2>1. Keeps
    BY SameKeeps
  <2>2. Defined' = Defined /\ Defined \in [Name -> Definition]
    BY <2>1, KeepsDefined, DefinedIs
  <2> DEFINE known == Meanings(Defined)
             ground == Ground(Defined)
  <2>3. Meanings(Defined)' = known /\ Ground(Defined)' = ground
    BY <2>2
  <2>4. known \in [Name -> Number]
    BY <2>2, MeaningsAre
  <2>5. Sums(e, known)[0] = 0
    BY <2>4, SumsIs
  <2> HIDE DEF known, ground
  <2>6. ASSUME NEW i \in 1 .. 1
        PROVE  /\ calls'[i].sum = Sums(calls'[i].expr, known)[calls'[i].at - 1]
               /\ \A j \in 1 .. calls'[i].at - 1 :
                    calls'[i].expr[j] \in Name => calls'[i].expr[j] \in ground
    <3>1. i = 1
      OBVIOUS
    <3>2. calls'[i].sum = 0 /\ calls'[i].at - 1 = 0 /\ calls'[i].expr = e
      BY <1>1, <1>3, <3>1
    <3> QED
      BY <2>5, <3>2
  <2> QED
    BY <1>3, <2>3, <2>6 DEF Summed
<1> QED
  BY <1>1, <1>3, <1>5, <1>6

LEMMA GetsIs ==
  ASSUME Shapes, Listed, Kept, NEW x \in Name, NEW type \in {CONST, DIRECT}, NEW value \in Number,
         Gets(x, type, value)
  PROVE  /\ list' \in Seq(Variable) /\ var' \in [Variable -> {None} \union VariableRecord]
         /\ par' \in [Parameter -> ParameterRecord]
         /\ Listed' /\ Kept'
<1>1. CASE x \in Variable
  <2> DEFINE v == NewVariable(type, value, None)
  <2>1. Entered(x, v) /\ par' = par
    BY <1>1 DEF Gets
  <2>2. v \in VariableRecord /\ v.expr = None
    BY NewVariableIs
  <2> HIDE DEF v
  <2>3. /\ list' \in Seq(Variable) /\ var' \in [Variable -> {None} \union VariableRecord]
        /\ Listed'
        /\ var'[x] = v /\ \A y \in Variable : y # x => var'[y] = var[y]
    BY <1>1, <2>1, <2>2, EnteredIs
  <2>4. Kept'
    BY <2>2, <2>3 DEF Kept
  <2> QED
    BY <2>1, <2>3, <2>4 DEF Shapes
<1>2. CASE x \notin Variable
  <2>1. UNCHANGED <<var, list>> /\ par' = [par EXCEPT ![x] = [value |-> value, expr |-> None]]
    BY <1>2 DEF Gets
  <2>2. [value |-> value, expr |-> None] \in ParameterRecord
    BY DEF ParameterRecord
  <2>3. par' \in [Parameter -> ParameterRecord]
    BY <2>1, <2>2 DEF Shapes
  <2> QED
    BY <2>1, <2>3 DEF Shapes, Listed, Kept
<1> QED
  BY <1>1, <1>2

LEMMA AssignIs ==
  ASSUME IInv, NEW x \in Name, NEW type \in {CONST, DIRECT}, NEW expr \in Direct,
         Assign(x, type, expr)
  PROVE  IInv' /\ (Summed => Summed')
<1>1. Shapes /\ Listed /\ Kept /\ Waiting
  BY DEF IInv
<1>2. cmd = None /\ exited = None /\ calls = <<>> /\ exited' = exited
  BY <1>1 DEF Assign, Idle, Waiting
<1>3. expr \in Expr
  BY VariablesAssumption
<1>4. CASE Literal(expr)
  <2>1. Gets(x, type, expr[1]) /\ UNCHANGED <<cmd, calls>>
    BY <1>4 DEF Assign
  <2>2. expr[1] \in Number
    BY <1>4 DEF Literal
  <2>3. /\ list' \in Seq(Variable) /\ var' \in [Variable -> {None} \union VariableRecord]
        /\ par' \in [Parameter -> ParameterRecord]
        /\ Listed' /\ Kept'
    BY <1>1, <2>1, <2>2, GetsIs
  <2>4. calls' = <<>> /\ cmd' = None
    BY <1>2, <2>1
  <2> QED
    BY <2>3, <2>4, OverIs DEF IInv, Shapes
<1>5. CASE ~Literal(expr)
  <2> DEFINE c == [op |-> "assign", name |-> x, type |-> type]
  <2>1. cmd' = c /\ calls' = <<Call(None, expr)>> /\ UNCHANGED <<list, var, par>>
    BY <1>5 DEF Assign, Evaluate
  <2>2. c \in Assigning /\ c.op = "assign" /\ c # None
    BY VariablesAssumption DEF Assigning
  <2>3. None \notin Name
    BY VariablesAssumption
  <2>4. calls' \in Seq(CallRecord) /\ calls' # <<>> /\ Called' /\ Summed'
    BY <1>1, <1>3, <2>1, <2>3, FirstCallIs
  <2> HIDE DEF c
  <2>5. Waiting' /\ Saves'
    BY <1>2, <2>1, <2>2, <2>4 DEF Waiting, Saves
  <2>6. Shapes'
    BY <1>1, <2>1, <2>2, <2>4 DEF Shapes
  <2>7. Listed' /\ Kept'
    BY <1>1, <2>1 DEF Listed, Kept
  <2> QED
    BY <2>4, <2>5, <2>6, <2>7 DEF IInv
<1> QED
  BY <1>4, <1>5

LEMMA DeferIs ==
  ASSUME IInv, NEW x \in Name, NEW expr \in Expression, Defer(x, expr)
  PROVE  IInv' /\ (Summed => Summed')
<1>1. Shapes /\ Listed /\ Kept /\ Waiting
  BY DEF IInv
<1>2. calls' = <<>> /\ cmd' = None
  BY <1>1 DEF Defer, Idle, Waiting
<1> DEFINE value == IF Literal(expr) THEN expr[1] ELSE 0
           kept == IF Literal(expr) THEN None ELSE expr
<1>3. value \in Number /\ kept \in {None} \union Expr
  BY VariablesAssumption, NumberIs DEF Literal
<1>4. IF x \in Variable
      THEN Entered(x, NewVariable(DEFERRED, value, kept)) /\ UNCHANGED par
      ELSE /\ par' = [par EXCEPT ![x] = [value |-> value, expr |-> kept]]
           /\ UNCHANGED <<var, list>>
  BY DEF Defer
<1> HIDE DEF value, kept
<1>5. /\ list' \in Seq(Variable) /\ var' \in [Variable -> {None} \union VariableRecord]
      /\ par' \in [Parameter -> ParameterRecord]
      /\ Listed' /\ Kept'
  <2>1. CASE x \in Variable
    <3> DEFINE v == NewVariable(DEFERRED, value, kept)
    <3>1. v \in VariableRecord /\ v.type = DEFERRED
      BY <1>3, NewVariableIs
    <3>2. Entered(x, v) /\ par' = par
      BY <1>4, <2>1
    <3> HIDE DEF v
    <3>3. /\ list' \in Seq(Variable) /\ var' \in [Variable -> {None} \union VariableRecord]
          /\ Listed'
          /\ var'[x] = v /\ \A y \in Variable : y # x => var'[y] = var[y]
      BY <1>1, <2>1, <3>1, <3>2, EnteredIs
    <3>4. Kept'
      BY <1>1, <3>1, <3>3 DEF Kept
    <3> QED
      BY <1>1, <3>2, <3>3, <3>4 DEF Shapes
  <2>2. CASE x \notin Variable
    <3>1. UNCHANGED <<var, list>> /\ par' = [par EXCEPT ![x] = [value |-> value, expr |-> kept]]
      BY <1>4, <2>2
    <3>2. [value |-> value, expr |-> kept] \in ParameterRecord
      BY <1>3 DEF ParameterRecord
    <3> QED
      BY <1>1, <3>1, <3>2 DEF Shapes, Listed, Kept
  <2> QED
    BY <2>1, <2>2
<1> QED
  BY <1>2, <1>5, OverIs DEF IInv, Shapes

LEMMA SetVariableIs ==
  ASSUME IInv, NEW x \in Name, NEW number \in Number, SetVariable(x, number)
  PROVE  IInv' /\ (Summed => Summed')
<1>1. Shapes /\ Listed /\ Kept /\ Waiting
  BY DEF IInv
<1>2. calls' = <<>> /\ cmd' = None
  BY <1>1 DEF SetVariable, Idle, Waiting
<1>3. /\ list' \in Seq(Variable) /\ var' \in [Variable -> {None} \union VariableRecord]
      /\ par' \in [Parameter -> ParameterRecord]
      /\ Listed' /\ Kept'
  <2>1. CASE x \in Variable /\ var[x] # None
    <3>1. var' = [var EXCEPT ![x] = SetTo(@, number)] /\ UNCHANGED <<list, par>>
      BY <2>1 DEF SetVariable
    <3>2. PICK v \in VariableRecord : v = var[x]
      BY <1>1, <2>1 DEF Shapes
    <3> DEFINE new == [type |-> DIRECT, value |-> number, status |-> v.status, expr |-> None]
    <3>3. SetTo(v, number) = new
      <4> DEFINE a == [type |-> v.type, value |-> number, status |-> v.status, expr |-> v.expr]
                 b == [type |-> DIRECT, value |-> number, status |-> v.status, expr |-> v.expr]
      <4>1. v = [type |-> v.type, value |-> v.value, status |-> v.status, expr |-> v.expr]
        BY DEF VariableRecord
      <4>2. [v EXCEPT !.value = number] = a
        BY <4>1
      <4>3. [a EXCEPT !.type = DIRECT] = b
        OBVIOUS
      <4>4. [b EXCEPT !.expr = None] = new
        OBVIOUS
      <4> QED
        BY <4>2, <4>3, <4>4 DEF SetTo
    <3>4. new \in VariableRecord /\ new.expr = None /\ new # None
      BY RecordIs DEF VariableRecord
    <3> HIDE DEF new
    <3>5. /\ var' \in [Variable -> {None} \union VariableRecord]
          /\ var'[x] = new /\ \A y \in Variable : y # x => var'[y] = var[y]
      BY <1>1, <2>1, <3>1, <3>2, <3>3, <3>4 DEF Shapes
    <3>6. Listed' /\ Kept'
      BY <1>1, <2>1, <3>1, <3>4, <3>5 DEF Listed, Kept
    <3> QED
      BY <1>1, <3>1, <3>5, <3>6 DEF Shapes
  <2>2. CASE ~(x \in Variable /\ var[x] # None)
    <3>1. Gets(x, DIRECT, number)
      BY <2>2 DEF SetVariable
    <3> QED
      BY <1>1, <3>1, GetsIs
  <2> QED
    BY <2>1, <2>2
<1> QED
  BY <1>2, <1>3, OverIs DEF IInv, Shapes

LEMMA InheritIs ==
  ASSUME IInv, NEW x \in Parameter, NEW y \in Parameter, Inherit(x, y)
  PROVE  IInv' /\ (Summed => Summed')
<1>1. Shapes /\ Listed /\ Kept /\ Waiting
  BY DEF IInv
<1>2. calls' = <<>> /\ cmd' = None
  BY <1>1 DEF Inherit, Idle, Waiting
<1>3. UNCHANGED <<list, var>> /\ par' = [par EXCEPT ![x] = par[y]]
  BY DEF Inherit, Inherited
<1>4. par' \in [Parameter -> ParameterRecord]
  BY <1>1, <1>3 DEF Shapes
<1> QED
  BY <1>1, <1>2, <1>3, <1>4, OverIs DEF IInv, Shapes, Listed, Kept

LEMMA ReadIs ==
  ASSUME IInv, NEW x \in Name, Read(x)
  PROVE  IInv' /\ (Summed => Summed')
<1>1. Shapes /\ Listed /\ Kept /\ Waiting
  BY DEF IInv
<1>2. cmd = None /\ exited = None /\ UNCHANGED <<list, var, par, exited>> /\ Pending(x) # None
  BY DEF Read, Idle
<1> DEFINE c == [op |-> "read"]
           e == Pending(x)
<1>3. cmd' = c /\ calls' = <<Call(x, e)>>
  BY DEF Read, Evaluate
<1>4. c \in Reading /\ c.op = "read" /\ c # None
  BY VariablesAssumption DEF Reading
<1>5. e \in Expr /\ e = Behind(x)
  BY <1>1, <1>2, PendingIs
<1> HIDE DEF c, e
<1>6. calls' \in Seq(CallRecord) /\ calls' # <<>> /\ calls'[1].of = x /\ Called' /\ Summed'
  BY <1>1, <1>2, <1>3, <1>5, FirstCallIs
<1>7. Waiting' /\ Saves'
  BY <1>2, <1>3, <1>4, <1>6 DEF Waiting, Saves
<1>8. Shapes' /\ Listed' /\ Kept'
  BY <1>1, <1>2, <1>3, <1>4, <1>6 DEF Shapes, Listed, Kept
<1> QED
  BY <1>6, <1>7, <1>8 DEF IInv

LEMMA SaveIs ==
  ASSUME IInv, NEW noexpr \in NoExpr, Save(noexpr)
  PROVE  IInv' /\ (Summed => Summed')
<1>1. Shapes /\ Listed /\ Kept /\ Waiting
  BY DEF IInv
<1>2. /\ cmd = None /\ exited = None /\ calls = <<>>
      /\ UNCHANGED <<list, var, par, calls, exited>>
  BY <1>1 DEF Save, Idle, Waiting
<1> DEFINE saved == <<>>
           c == [op |-> "save", noexpr |-> noexpr, varl |-> list, at |-> 1,
                 left |-> Parameter, saved |-> saved, value |-> None]
<1>3. cmd' = c
  BY DEF Save
<1>4. DOMAIN saved = {} /\ saved \in [{} -> Definition]
  OBVIOUS
<1>5. saved \in Files
  BY <1>4 DEF Files
<1> HIDE DEF saved
<1>6. c \in SavingRecord
  <2>1. noexpr \in BOOLEAN /\ list \in Seq(Variable) /\ 1 \in Nat \ {0}
    BY <1>1, VariablesAssumption DEF Shapes
  <2> QED
    BY <1>5, <2>1 DEF SavingRecord, Files
<1>7. c # None
  BY <1>6, VariablesAssumption
<1>8. Waiting'
  <2>1. cmd'.op = "save"
    BY <1>3
  <2> HIDE DEF c
  <2> QED
    BY <1>2, <1>3, <1>7, <2>1 DEF Waiting
<1>9. Saves'
  <2>1. /\ cmd'.varl = list /\ cmd'.at = 1 /\ cmd'.left = Parameter /\ cmd'.saved = saved
    BY <1>3
  <2> HIDE DEF c
  <2>2. list \in Seq(Variable) /\ Len(list) \in Nat
    BY <1>1 DEF Shapes
  <2>3. \A i \in 1 .. Len(list) : var'[list[i]] # None
    <3> SUFFICES ASSUME NEW i \in 1 .. Len(list)
                 PROVE  var[list[i]] # None
      BY <1>2
    <3>1. list[i] \in Variable /\ list[i] \in Range(list)
      BY <2>2 DEF Range
    <3> QED
      BY <1>1, <3>1 DEF Listed
  <2>4. \A x \in Variable : x \notin Range(list) => Defined'[x] = Immediate("value", 0)
    <3> SUFFICES ASSUME NEW x \in Variable, x \notin Range(list)
                 PROVE  Defined'[x] = Immediate("value", 0)
      OBVIOUS
    <3>1. var'[x] = None /\ x \notin Parameter /\ x \in Name
      BY <1>1, <1>2, VariablesAssumption DEF Listed, Name
    <3> QED
      BY <3>1 DEF Defined
  <2>5. Before(list, 1) = {}
    BY DEF Before
  <2>6. DOMAIN saved = Before(list, 1) \union (Parameter \ Parameter)
    BY <1>4, <2>5
  <2>7. 1 <= Len(list) + 1
    BY <2>2
  <2> QED
    BY <1>2, <1>4, <2>1, <2>3, <2>4, <2>6, <2>7 DEF Saves, Before
<1> HIDE DEF c
<1>10. Shapes' /\ Listed' /\ Kept'
  BY <1>1, <1>2, <1>3, <1>6 DEF Shapes, Listed, Kept
<1>11. Called' /\ Summed'
  BY <1>2 DEF Called, Summed
<1> QED
  BY <1>8, <1>9, <1>10, <1>11 DEF IInv

(***************************************************************************)
(* A variable whose expression is made longer.                             *)
(***************************************************************************)
LEMMA ExtendedIs ==
  ASSUME NEW v \in VariableRecord, NEW e \in Expr
  PROVE  LET new == [[v EXCEPT !.type = DEFERRED] EXCEPT !.expr = e]
         IN  new \in VariableRecord /\ new.type = DEFERRED /\ new.expr = e
<1> DEFINE a == [type |-> DEFERRED, value |-> v.value, status |-> v.status, expr |-> v.expr]
           b == [type |-> DEFERRED, value |-> v.value, status |-> v.status, expr |-> e]
<1>1. v = [type |-> v.type, value |-> v.value, status |-> v.status, expr |-> v.expr]
  BY DEF VariableRecord
<1>2. [v EXCEPT !.type = DEFERRED] = a
  BY <1>1
<1>3. [a EXCEPT !.expr = e] = b
  OBVIOUS
<1>4. b \in VariableRecord
  BY RecordIs DEF VariableRecord
<1> QED
  BY <1>2, <1>3, <1>4

LEMMA SumIs ==
  ASSUME NEW a \in Expr, NEW b \in Expr
  PROVE  a \o b \in Expr
BY ConcatProperties DEF Expr

LEMMA AddExpressionIs ==
  ASSUME IInv, NEW x \in Variable, NEW expr \in Addition, AddExpression(x, expr)
  PROVE  IInv' /\ (Summed => Summed')
<1>1. Shapes /\ Listed /\ Kept /\ Waiting
  BY DEF IInv
<1>2. cmd = None /\ exited = None /\ calls = <<>> /\ UNCHANGED <<par, exited>>
  BY <1>1 DEF AddExpression, Idle, Waiting
<1>3. expr \in Expr
  BY VariablesAssumption
<1>4. x \notin Parameter /\ x \in Name
  BY VariablesAssumption DEF Name
<1>5. CASE var[x] # None /\ var[x].expr # None
  <2> DEFINE c == [op |-> "add", name |-> x, expr |-> expr]
             e == var[x].expr
  <2>1. cmd' = c /\ calls' = <<Call(None, e)>> /\ UNCHANGED <<list, var>>
    BY <1>5 DEF AddExpression, Evaluate
  <2>2. c \in Adding /\ c.op = "add" /\ c.name = x
    BY <1>3 DEF Adding
  <2>3. c # None
    BY <2>2, VariablesAssumption
  <2>4. e \in Expr /\ None \notin Name
    BY <1>1, <1>5, RecordIs, VariablesAssumption DEF Shapes
  <2>5. Behind(x)' # None
    BY <1>2, <1>4, <1>5, <2>1 DEF Behind
  <2> HIDE DEF c, e
  <2>6. calls' \in Seq(CallRecord) /\ calls' # <<>> /\ Called' /\ Summed'
    BY <1>1, <1>2, <2>1, <2>4, FirstCallIs
  <2>7. Waiting'
    <3>1. Behind(cmd.name)' = Behind(x)'
      BY <2>1, <2>2 DEF Behind
    <3> QED
      BY <1>2, <2>1, <2>2, <2>3, <2>5, <2>6, <3>1 DEF Waiting
  <2>8. Saves'
    BY <2>1, <2>2 DEF Saves
  <2>9. Shapes' /\ Listed' /\ Kept'
    BY <1>1, <1>2, <2>1, <2>2, <2>6 DEF Shapes, Listed, Kept
  <2> QED
    BY <2>6, <2>7, <2>8, <2>9 DEF IInv
<1>6. CASE ~(var[x] # None /\ var[x].expr # None)
  <2> DEFINE old == IF var[x] = None THEN NewVariable(DEFERRED, 0, None) ELSE var[x]
  <2>1. old \in VariableRecord
    <3>1. NewVariable(DEFERRED, 0, None) \in VariableRecord
      BY NumberIs, NewVariableIs
    <3> QED
      BY <1>1, <3>1 DEF Shapes
  <2>2. PICK v \in VariableRecord : v = old
    BY <2>1
  <2> DEFINE new == [[v EXCEPT !.type = DEFERRED] EXCEPT !.expr = <<v.value>> \o expr]
  <2>3. Entered(x, new) /\ UNCHANGED <<cmd, calls>>
    BY <1>6, <2>2 DEF AddExpression
  <2>4. <<v.value>> \o expr \in Expr
    <3>1. <<v.value>> \in Expr
      BY RecordIs DEF Expr
    <3> QED
      BY <1>3, <3>1, SumIs
  <2>5. new \in VariableRecord /\ new.type = DEFERRED
    BY <2>4, ExtendedIs
  <2> HIDE DEF new, old
  <2>6. /\ list' \in Seq(Variable) /\ var' \in [Variable -> {None} \union VariableRecord]
        /\ Listed'
        /\ var'[x] = new /\ \A y \in Variable : y # x => var'[y] = var[y]
    BY <1>1, <2>3, <2>5, EnteredIs
  <2>7. Kept'
    BY <1>1, <2>5, <2>6 DEF Kept
  <2>8. calls' = <<>> /\ cmd' = None
    BY <1>2, <2>3
  <2> QED
    BY <1>1, <1>2, <2>6, <2>7, <2>8, OverIs DEF IInv, Shapes
<1> QED
  BY <1>5, <1>6

LEMMA OneCall == Len(calls) = 1 => calls # <<>>
<1>1. Len(<<>>) = 0
  BY EmptySeq
<1> QED
  BY <1>1

LEMMA AssignedIs ==
  ASSUME IInv, Assigned
  PROVE  IInv' /\ (Summed => Summed')
<1>1. Shapes /\ Listed /\ Kept /\ Waiting
  BY DEF IInv
<1>2. /\ Len(calls) = 1 /\ cmd.op = "assign" /\ cmd' = None /\ calls' = <<>>
      /\ Gets(cmd.name, cmd.type, Caller.sum)
  BY DEF Assigned, Done
<1>3. calls # <<>>
  BY <1>2, OneCall
<1>4. Caller \in CallRecord /\ cmd # None
  BY <1>1, <1>3, CallerIs DEF Waiting
<1>5. cmd \in Assigning
  BY <1>1, <1>2, <1>4 DEF Shapes, Assigning, Reading, Adding, SavingRecord
<1>6. PICK x \in Name, type \in {CONST, DIRECT}, value \in Number :
        x = cmd.name /\ type = cmd.type /\ value = Caller.sum
  BY <1>4, <1>5, CallRecordIs DEF Assigning
<1>7. /\ list' \in Seq(Variable) /\ var' \in [Variable -> {None} \union VariableRecord]
      /\ par' \in [Parameter -> ParameterRecord]
      /\ Listed' /\ Kept'
  BY <1>1, <1>2, <1>6, GetsIs
<1> QED
  BY <1>2, <1>7, OverIs DEF IInv, Shapes

LEMMA AnswerIs ==
  ASSUME IInv, Answer
  PROVE  IInv' /\ Keeps /\ (Summed => Summed')
<1>1. Shapes /\ Listed /\ Kept /\ Waiting /\ Called
  BY DEF IInv
<1>2. /\ Len(calls) = 1 /\ cmd.op = "read" /\ cmd' = None /\ calls' = <<>>
      /\ var' = Evaluated(Caller.of, Caller.sum) /\ UNCHANGED <<list, par>>
  BY DEF Answer, Done
<1>3. calls # <<>>
  BY <1>2, OneCall
<1>4. Caller = calls[1] /\ Caller \in CallRecord /\ cmd # None /\ 1 \in 1 .. Len(calls)
  BY <1>1, <1>2, <1>3, CallerIs DEF Waiting
<1>5. Caller.of \in Name /\ Caller.expr = Behind(Caller.of)
  BY <1>1, <1>2, <1>4 DEF Waiting, Called
<1>6. PICK x \in Name, value \in Number : x = Caller.of /\ value = Caller.sum
  BY <1>4, <1>5, CallRecordIs
<1>7. Behind(x) # None
  <2>1. Behind(x) = Caller.expr
    BY <1>5, <1>6
  <2>2. Caller.expr \in Expr
    BY <1>4, CallRecordIs
  <2> QED
    BY <2>1, <2>2, ExprIs
<1>8. var' \in [Variable -> {None} \union VariableRecord] /\ Keeps /\ Listed'
  BY <1>1, <1>2, <1>6, <1>7, EvaluatedIs
<1>9. Kept'
  BY <1>1, <1>8, KeepsKept
<1> QED
  BY <1>1, <1>2, <1>8, <1>9, OverIs DEF IInv, Shapes

LEMMA AddedToIs ==
  ASSUME IInv, AddedTo
  PROVE  IInv' /\ (Summed => Summed')
<1>1. Shapes /\ Listed /\ Kept /\ Waiting
  BY DEF IInv
<1>2. /\ Len(calls) = 1 /\ cmd.op = "add" /\ cmd' = None /\ calls' = <<>>
      /\ var' = Added(cmd.name, cmd.expr) /\ UNCHANGED <<list, par>>
  BY DEF AddedTo, Done
<1>3. calls # <<>>
  BY <1>2, OneCall
<1>4. cmd # None
  BY <1>1, <1>3 DEF Waiting
<1>5. cmd \in Adding /\ Behind(cmd.name) # None
  BY <1>1, <1>2, <1>4 DEF Shapes, Waiting, Assigning, Reading, Adding, SavingRecord
<1>6. PICK x \in Variable, e \in Expr : x = cmd.name /\ e = cmd.expr
  BY <1>5 DEF Adding
<1>7. x \notin Parameter
  BY VariablesAssumption
<1>8. var[x] # None /\ var[x].expr # None
  BY <1>5, <1>6, <1>7 DEF Behind
<1>9. PICK v \in VariableRecord : v = var[x]
  BY <1>1, <1>8 DEF Shapes
<1> DEFINE long == v.expr \o e
           half == [v EXCEPT !.type = DEFERRED]
           new == [half EXCEPT !.expr = long]
<1>10. long \in Expr
  BY <1>8, <1>9, RecordIs, SumIs
<1>11. new \in VariableRecord /\ new.type = DEFERRED /\ new # None
  <2> HIDE DEF long
  <2> QED
    BY <1>10, ExtendedIs, RecordIs
<1>12. var' = [var EXCEPT ![x] = new]
  <2> DEFINE mid == [var EXCEPT ![x] = half]
  <2>1. var' = [[var EXCEPT ![x].type = DEFERRED] EXCEPT ![x].expr = long]
    BY <1>2, <1>6, <1>8, <1>9 DEF Added
  <2>2. [var EXCEPT ![x].type = DEFERRED] = mid
    BY <1>9
  <2>3. mid[x] = half
    BY <1>1 DEF Shapes
  <2> HIDE DEF half, long
  <2>4. [mid EXCEPT ![x].expr = long] = [mid EXCEPT ![x] = new]
    <3> HIDE DEF mid
    <3> QED
      BY <2>3
  <2>5. [mid EXCEPT ![x] = new] = [var EXCEPT ![x] = new]
    <3> HIDE DEF new
    <3> QED
      BY <1>1 DEF Shapes
  <2> HIDE DEF mid, new
  <2> QED
    BY <2>1, <2>2, <2>4, <2>5
<1> HIDE DEF new
<1>13. /\ var' \in [Variable -> {None} \union VariableRecord]
       /\ var'[x] = new /\ \A y \in Variable : y # x => var'[y] = var[y]
  BY <1>1, <1>11, <1>12 DEF Shapes
<1>14. Listed' /\ Kept'
  BY <1>1, <1>2, <1>8, <1>11, <1>13 DEF Listed, Kept
<1> QED
  BY <1>1, <1>2, <1>13, <1>14, OverIs DEF IInv, Shapes

-----------------------------------------------------------------------------
(* Steps of SAVE.                                                          *)

LEMMA SavingNow ==
  ASSUME IInv, cmd # None, cmd.op = "save"
  PROVE  /\ cmd \in SavingRecord
         /\ Len(cmd.varl) \in Nat
         /\ \A i \in 1 .. Len(cmd.varl) : cmd.varl[i] \in Variable
<1>1. cmd \in SavingRecord
  BY DEF IInv, Shapes, Assigning, Reading, Adding, SavingRecord
<1>2. cmd.varl \in Seq(Variable)
  BY <1>1, SavingIs
<1> QED
  BY <1>1, <1>2

(***************************************************************************)
(* The value of a name has to be evaluated before it is written.           *)
(***************************************************************************)
LEMMA SaveEvaluates ==
  ASSUME IInv, Saving, NEW x \in Name, Behind(x) # None,
         cmd' = [cmd EXCEPT !.value = x], calls' = <<Call(None, Behind(x))>>,
         UNCHANGED <<list, var, par, exited>>
  PROVE  IInv' /\ Summed'
<1>1. Shapes /\ Listed /\ Kept /\ Waiting /\ Saves
  BY DEF IInv
<1>2. cmd # None /\ cmd.op = "save" /\ calls = <<>>
  BY DEF Saving
<1>3. cmd \in SavingRecord
  BY <1>2, SavingNow
<1>4. PICK c \in SavingRecord : c = cmd
  BY <1>3
<1> DEFINE new == [op |-> "save", noexpr |-> c.noexpr, varl |-> c.varl, at |-> c.at,
                   left |-> c.left, saved |-> c.saved, value |-> x]
<1>5. cmd' = new
  <2>1. c = [op |-> "save", noexpr |-> c.noexpr, varl |-> c.varl, at |-> c.at,
             left |-> c.left, saved |-> c.saved, value |-> c.value]
    BY SavingIs
  <2>2. [c EXCEPT !.value = x] = new
    BY <2>1
  <2> QED
    BY <1>4, <2>2
<1>6. new \in SavingRecord
  BY SavingIs DEF SavingRecord, Files
<1>7. new # None
  BY <1>6, VariablesAssumption
<1>8. Behind(x) \in Expr /\ None \notin Name
  BY <1>1, BehindDefined, VariablesAssumption
<1>9. calls' \in Seq(CallRecord) /\ calls' # <<>> /\ Called' /\ Summed'
  BY <1>1, <1>8, FirstCallIs
<1>10. /\ cmd'.op = "save" /\ cmd'.noexpr = cmd.noexpr /\ cmd'.varl = cmd.varl /\ cmd'.at = cmd.at
       /\ cmd'.left = cmd.left /\ cmd'.saved = cmd.saved /\ cmd'.value = x
  BY <1>4, <1>5
<1> HIDE DEF new
<1>11. exited' = None \/ cmd = None
  BY <1>1 DEF Waiting
<1>12. Waiting'
  BY <1>2, <1>5, <1>7, <1>9, <1>10, <1>11 DEF Waiting
<1>13. Defined' = Defined /\ Behind(x)' = Behind(x)
  BY SameKeeps, KeepsDefined, KeepsBehind
<1>14. Saves'
  <2>1. Behind(cmd.value)' # None
    <3>1. Behind(cmd.value)' = Behind(x)'
      BY <1>10 DEF Behind
    <3> QED
      BY <1>13, <3>1
  <2>2. /\ cmd.at <= Len(cmd.varl) + 1
        /\ cmd.at <= Len(cmd.varl) => cmd.left = Parameter
        /\ \A i \in 1 .. Len(cmd.varl) : var[cmd.varl[i]] # None
        /\ \A y \in Variable : y \notin Range(cmd.varl) => Defined[y] = Immediate("value", 0)
        /\ DOMAIN cmd.saved = Before(cmd.varl, cmd.at) \union (Parameter \ cmd.left)
        /\ ~cmd.noexpr => \A y \in DOMAIN cmd.saved : cmd.saved[y] = Defined[y]
    BY <1>1, <1>2 DEF Saves
  <2> QED
    BY <1>10, <1>13, <2>1, <2>2 DEF Saves, Before
<1>15. Shapes' /\ Listed' /\ Kept'
  BY <1>1, <1>5, <1>6, <1>9 DEF Shapes, Listed, Kept
<1> QED
  BY <1>9, <1>12, <1>14, <1>15 DEF IInv

(***************************************************************************)
(* A name is written: the counter or what is left goes on, the file has    *)
(* one name more.                                                          *)
(***************************************************************************)
LEMMA SaveWrites ==
  ASSUME IInv, Saving, NEW x \in Name, NEW d \in Definition, NEW at \in Nat \ {0},
         NEW left \in SUBSET Parameter,
         cmd' = [op |-> "save", noexpr |-> cmd.noexpr, varl |-> cmd.varl, at |-> at,
                 left |-> left, saved |-> Writes(x, d), value |-> None],
         UNCHANGED <<list, var, par, calls, exited>>,
         at <= Len(cmd.varl) + 1,
         at <= Len(cmd.varl) => left = Parameter,
         Before(cmd.varl, at) \union (Parameter \ left)
           = (Before(cmd.varl, cmd.at) \union (Parameter \ cmd.left)) \union {x},
         ~cmd.noexpr => d = Defined[x]
  PROVE  IInv' /\ Summed'
<1>1. Shapes /\ Listed /\ Kept /\ Waiting /\ Saves
  BY DEF IInv
<1>2. cmd # None /\ cmd.op = "save" /\ calls = <<>>
  BY DEF Saving
<1>3. cmd \in SavingRecord
  BY <1>2, SavingNow
<1> DEFINE file == Writes(x, d)
           new == [op |-> "save", noexpr |-> cmd.noexpr, varl |-> cmd.varl, at |-> at,
                   left |-> left, saved |-> file, value |-> None]
<1>4. /\ file \in Files
      /\ DOMAIN file = DOMAIN cmd.saved \union {x}
      /\ file[x] = d
      /\ \A y \in DOMAIN cmd.saved : y # x => file[y] = cmd.saved[y]
  BY <1>3, WritesIs
<1> HIDE DEF file
<1>5. cmd' = new
  BY DEF file
<1>6. new \in SavingRecord
  BY <1>3, <1>4, SavingIs DEF SavingRecord, Files
<1>7. new # None
  BY <1>6, VariablesAssumption
<1>8. /\ cmd'.op = "save" /\ cmd'.noexpr = cmd.noexpr /\ cmd'.varl = cmd.varl /\ cmd'.at = at
      /\ cmd'.left = left /\ cmd'.saved = file
  BY <1>5
<1> HIDE DEF new
<1>9. exited' = None
  BY <1>1, <1>2 DEF Waiting
<1>10. Waiting'
  BY <1>5, <1>7, <1>8, <1>9 DEF Waiting
<1>11. Defined' = Defined
  BY SameKeeps, KeepsDefined
<1>12. Saves'
  <2>1. /\ \A i \in 1 .. Len(cmd.varl) : var[cmd.varl[i]] # None
        /\ \A y \in Variable : y \notin Range(cmd.varl) => Defined[y] = Immediate("value", 0)
        /\ DOMAIN cmd.saved = Before(cmd.varl, cmd.at) \union (Parameter \ cmd.left)
        /\ ~cmd.noexpr => \A y \in DOMAIN cmd.saved : cmd.saved[y] = Defined[y]
    BY <1>1, <1>2 DEF Saves
  <2>2. DOMAIN file = Before(cmd.varl, at) \union (Parameter \ left)
    BY <1>4, <2>1
  <2>3. ~cmd.noexpr => \A y \in DOMAIN file : file[y] = Defined[y]
    BY <1>4, <2>1
  <2> HIDE DEF file
  <2> QED
    BY <1>2, <1>8, <1>11, <2>1, <2>2, <2>3 DEF Saves, Before
<1>13. Shapes' /\ Listed' /\ Kept'
  BY <1>1, <1>5, <1>6 DEF Shapes, Listed, Kept
<1>14. Called' /\ Summed'
  BY <1>2 DEF Called, Summed
<1> QED
  BY <1>10, <1>12, <1>13, <1>14 DEF IInv

LEMMA WrittenIs ==
  ASSUME NEW expr \in {None} \union Expr, NEW value \in Number, NEW kind \in {"value", "constant"}
  PROVE  /\ Written(expr, value, kind) \in Definition
         /\ ~cmd.noexpr => Written(expr, value, kind) =
              IF expr # None THEN Deferred(expr) ELSE Immediate(kind, value)
BY DeferredIs, ImmediateIs DEF Written

LEMMA SaveVariableIs ==
  ASSUME IInv, SaveVariable
  PROVE  IInv' /\ (Summed => Summed')
<1>1. Shapes /\ Listed /\ Kept /\ Waiting /\ Saves
  BY DEF IInv
<1>2. /\ Saving /\ cmd.at <= Len(cmd.varl) /\ UNCHANGED <<list, var, par>>
      /\ cmd # None /\ cmd.op = "save" /\ calls = <<>>
  BY DEF SaveVariable, Saving
<1>3. cmd \in SavingRecord /\ Len(cmd.varl) \in Nat
  BY <1>2, SavingNow
<1>4. PICK at \in Nat \ {0} : at = cmd.at
  BY <1>3, SavingIs
<1>5. at \in 1 .. Len(cmd.varl)
  BY <1>2, <1>3, <1>4
<1>6. PICK x \in Variable : x = cmd.varl[at]
  BY <1>2, <1>5, SavingNow
<1>7. x \in Name /\ x \notin Parameter /\ var[x] # None
  BY <1>1, <1>2, <1>5, <1>6, VariablesAssumption DEF Saves, Name
<1>8. PICK v \in VariableRecord : v = var[x]
  BY <1>1, <1>7 DEF Shapes
<1> DEFINE kind == IF v.type = CONST THEN "constant" ELSE "value"
           d == Written(v.expr, v.value, kind)
<1>9. \/ /\ NeedsValue(x) /\ v.expr = None
         /\ cmd' = None /\ calls' = calls
      \/ /\ NeedsValue(x) /\ v.expr # None
         /\ cmd' = [cmd EXCEPT !.value = x] /\ calls' = <<Call(None, v.expr)>>
         /\ exited' = exited
      \/ /\ cmd' = [cmd EXCEPT !.at = @ + 1, !.value = None, !.saved = Writes(x, d)]
         /\ calls' = calls /\ exited' = exited
  BY <1>4, <1>6, <1>8 DEF SaveVariable, Evaluate
<1>10. Behind(x) = v.expr
  BY <1>7, <1>8 DEF Behind
<1>11. CASE cmd' = None /\ calls' = calls
  <2>1. calls' = <<>>
    BY <1>2, <1>11
  <2>2. /\ list' \in Seq(Variable) /\ var' \in [Variable -> {None} \union VariableRecord]
        /\ par' \in [Parameter -> ParameterRecord] /\ Listed' /\ Kept'
    BY <1>1, <1>2 DEF Shapes, Listed, Kept
  <2> QED
    BY <1>11, <2>1, <2>2, OverIs DEF IInv, Shapes
<1>12. CASE /\ v.expr # None /\ cmd' = [cmd EXCEPT !.value = x]
            /\ calls' = <<Call(None, v.expr)>> /\ exited' = exited
  BY <1>2, <1>7, <1>10, <1>12, SaveEvaluates
<1>13. CASE /\ cmd' = [cmd EXCEPT !.at = @ + 1, !.value = None, !.saved = Writes(x, d)]
            /\ calls' = calls /\ exited' = exited
  <2>1. v.expr \in {None} \union Expr /\ v.value \in Number /\ kind \in {"value", "constant"}
    BY RecordIs
  <2>2. d \in Definition
    BY <2>1, WrittenIs
  <2>3. ~cmd.noexpr => d = Defined[x]
    <3>1. Defined[x] = IF v.expr # None THEN Deferred(v.expr) ELSE Immediate(kind, v.value)
      BY <1>7, <1>8 DEF Defined
    <3> HIDE DEF kind
    <3> QED
      BY <2>1, <3>1, WrittenIs
  <2> HIDE DEF d
  <2> DEFINE file == Writes(x, d)
             next == at + 1
             left == cmd.left
  <2>4. cmd' = [op |-> "save", noexpr |-> cmd.noexpr, varl |-> cmd.varl, at |-> next,
                left |-> left, saved |-> file, value |-> None]
    <3>1. PICK c \in SavingRecord : c = cmd
      BY <1>3
    <3> HIDE DEF file
    <3> DEFINE c1 == [op |-> "save", noexpr |-> c.noexpr, varl |-> c.varl, at |-> c.at + 1,
                      left |-> c.left, saved |-> c.saved, value |-> c.value]
               c2 == [op |-> "save", noexpr |-> c.noexpr, varl |-> c.varl, at |-> c.at + 1,
                      left |-> c.left, saved |-> c.saved, value |-> None]
               c3 == [op |-> "save", noexpr |-> c.noexpr, varl |-> c.varl, at |-> c.at + 1,
                      left |-> c.left, saved |-> file, value |-> None]
    <3>2. c = [op |-> "save", noexpr |-> c.noexpr, varl |-> c.varl, at |-> c.at,
               left |-> c.left, saved |-> c.saved, value |-> c.value]
      BY SavingIs
    <3>3. [c EXCEPT !.at = @ + 1] = c1
      BY <3>2
    <3>4. [c1 EXCEPT !.value = None] = c2
      OBVIOUS
    <3>5. [c2 EXCEPT !.saved = file] = c3
      OBVIOUS
    <3>6. cmd' = [c EXCEPT !.at = @ + 1, !.value = None, !.saved = file]
      BY <1>13, <3>1 DEF file
    <3>7. cmd' = c3
      BY <3>3, <3>4, <3>5, <3>6
    <3> QED
      BY <1>4, <3>1, <3>7
  <2>5. left = Parameter /\ left \in SUBSET Parameter
    BY <1>1, <1>2 DEF Saves
  <2>6. next \in Nat \ {0} /\ next <= Len(cmd.varl) + 1
    BY <1>3, <1>5
  <2>7. Before(cmd.varl, next) = Before(cmd.varl, at) \union {x}
    <3>1. \A i \in 1 .. next - 1 : i = at \/ i \in 1 .. at - 1
      BY <1>5
    <3>2. at \in 1 .. next - 1 /\ \A i \in 1 .. at - 1 : i \in 1 .. next - 1
      BY <1>5
    <3> HIDE DEF next
    <3> QED
      BY <1>6, <3>1, <3>2 DEF Before
  <2>8. Before(cmd.varl, next) \union (Parameter \ left)
          = (Before(cmd.varl, cmd.at) \union (Parameter \ cmd.left)) \union {x}
    BY <1>4, <2>7
  <2> HIDE DEF left, next
  <2>9. PICK rest \in SUBSET Parameter : rest = left
    BY <2>5
  <2> QED
    BY <1>2, <1>7, <1>13, <2>2, <2>3, <2>4, <2>5, <2>6, <2>8, <2>9, SaveWrites
<1> QED
  BY <1>9, <1>11, <1>12, <1>13

LEMMA SaveParameterIs ==
  ASSUME IInv, SaveParameter
  PROVE  IInv' /\ (Summed => Summed')
<1>1. Shapes /\ Listed /\ Kept /\ Waiting /\ Saves
  BY DEF IInv
<1>2. /\ Saving /\ cmd.at > Len(cmd.varl) /\ cmd.left # {}
      /\ UNCHANGED <<list, var, par, exited>>
      /\ cmd # None /\ cmd.op = "save" /\ calls = <<>>
  BY DEF SaveParameter, Saving
<1>3. cmd \in SavingRecord /\ Len(cmd.varl) \in Nat
  BY <1>2, SavingNow
<1>4. PICK at \in Nat \ {0} : at = cmd.at
  BY <1>3, SavingIs
<1>5. PICK left \in SUBSET Parameter : left = cmd.left
  BY <1>3, SavingIs
<1>6. PICK x \in left : x = CHOOSE name \in cmd.left : TRUE
  BY <1>2, <1>5
<1>7. x \in Parameter /\ x \in Name
  BY <1>5 DEF Name
<1>8. PICK p \in ParameterRecord : p = par[x]
  BY <1>1, <1>7 DEF Shapes
<1>9. p.value \in Number /\ p.expr \in {None} \union Expr
  BY DEF ParameterRecord
<1> DEFINE d == Written(p.expr, p.value, "value")
<1>10. \/ /\ p.expr # None
          /\ cmd' = [cmd EXCEPT !.value = x] /\ calls' = <<Call(None, p.expr)>>
       \/ /\ cmd' = [cmd EXCEPT !.left = @ \ {x}, !.value = None, !.saved = Writes(x, d)]
          /\ calls' = calls
  BY <1>6, <1>8 DEF SaveParameter, Evaluate
<1>11. Behind(x) = p.expr
  BY <1>7, <1>8 DEF Behind
<1>12. CASE /\ p.expr # None
            /\ cmd' = [cmd EXCEPT !.value = x] /\ calls' = <<Call(None, p.expr)>>
  BY <1>2, <1>7, <1>11, <1>12, SaveEvaluates
<1>13. CASE /\ cmd' = [cmd EXCEPT !.left = @ \ {x}, !.value = None, !.saved = Writes(x, d)]
            /\ calls' = calls
  <2>1. d \in Definition
    BY <1>9, WrittenIs
  <2>2. ~cmd.noexpr => d = Defined[x]
    <3>1. Defined[x] = IF p.expr # None THEN Deferred(p.expr) ELSE Immediate("value", p.value)
      BY <1>7, <1>8 DEF Defined
    <3> QED
      BY <1>9, <3>1, WrittenIs
  <2> HIDE DEF d
  <2> DEFINE file == Writes(x, d)
             rest == left \ {x}
  <2>3. cmd' = [op |-> "save", noexpr |-> cmd.noexpr, varl |-> cmd.varl, at |-> at,
                left |-> rest, saved |-> file, value |-> None]
    <3>1. PICK c \in SavingRecord : c = cmd
      BY <1>3
    <3> HIDE DEF file
    <3> DEFINE c1 == [op |-> "save", noexpr |-> c.noexpr, varl |-> c.varl, at |-> c.at,
                      left |-> c.left \ {x}, saved |-> c.saved, value |-> c.value]
               c2 == [op |-> "save", noexpr |-> c.noexpr, varl |-> c.varl, at |-> c.at,
                      left |-> c.left \ {x}, saved |-> c.saved, value |-> None]
               c3 == [op |-> "save", noexpr |-> c.noexpr, varl |-> c.varl, at |-> c.at,
                      left |-> c.left \ {x}, saved |-> file, value |-> None]
    <3>2. c = [op |-> "save", noexpr |-> c.noexpr, varl |-> c.varl, at |-> c.at,
               left |-> c.left, saved |-> c.saved, value |-> c.value]
      BY SavingIs
    <3>3. [c EXCEPT !.left = @ \ {x}] = c1
      BY <3>2
    <3>4. [c1 EXCEPT !.value = None] = c2
      OBVIOUS
    <3>5. [c2 EXCEPT !.saved = file] = c3
      OBVIOUS
    <3>6. cmd' = [c EXCEPT !.left = @ \ {x}, !.value = None, !.saved = file]
      BY <1>13, <3>1 DEF file
    <3>7. cmd' = c3
      BY <3>3, <3>4, <3>5, <3>6
    <3> QED
      BY <1>4, <1>5, <3>1, <3>7
  <2>4. at <= Len(cmd.varl) + 1 /\ ~(at <= Len(cmd.varl))
    BY <1>1, <1>2, <1>3, <1>4 DEF Saves
  <2>5. Before(cmd.varl, at) \union (Parameter \ rest)
          = (Before(cmd.varl, cmd.at) \union (Parameter \ cmd.left)) \union {x}
    BY <1>4, <1>5, <1>7
  <2>6. PICK l \in SUBSET Parameter : l = rest
    OBVIOUS
  <2> HIDE DEF rest
  <2> QED
    BY <1>2, <1>7, <1>13, <2>1, <2>2, <2>3, <2>4, <2>5, <2>6, SaveWrites
<1> QED
  BY <1>10, <1>12, <1>13

LEMMA SaveValueIs ==
  ASSUME IInv, SaveValue
  PROVE  IInv' /\ Keeps /\ Summed'
<1>1. Shapes /\ Listed /\ Kept /\ Waiting /\ Saves
  BY DEF IInv
<1>2. /\ Len(calls) = 1 /\ cmd.op = "save" /\ calls' = <<>> /\ UNCHANGED <<list, cmd, exited>>
      /\ IF cmd.value \in Variable
         THEN var' = [var EXCEPT ![cmd.value].value = Caller.sum] /\ UNCHANGED par
         ELSE par' = [par EXCEPT ![cmd.value].value = Caller.sum] /\ UNCHANGED var
  BY DEF SaveValue, Done
<1>3. calls # <<>>
  BY <1>2, OneCall
<1>4. Caller \in CallRecord /\ cmd # None
  BY <1>1, <1>3, CallerIs DEF Waiting
<1>5. cmd.value \in Name /\ Behind(cmd.value) # None
  BY <1>1, <1>2, <1>3, <1>4 DEF Saves
<1>6. PICK x \in Name, value \in Number : x = cmd.value /\ value = Caller.sum
  BY <1>4, <1>5, CallRecordIs
<1>7. Behind(x) # None
  BY <1>5, <1>6
<1>8. /\ var' \in [Variable -> {None} \union VariableRecord]
      /\ par' \in [Parameter -> ParameterRecord]
      /\ Keeps /\ Listed'
  <2>1. CASE x \in Variable
    <3>1. var' = [var EXCEPT ![x].value = value] /\ par' = par /\ x \notin Parameter
      BY <1>2, <1>6, <2>1, VariablesAssumption
    <3>2. var[x] # None /\ var[x].expr # None
      BY <1>7, <3>1 DEF Behind
    <3>3. PICK v \in VariableRecord : v = var[x]
      BY <1>1, <2>1, <3>2 DEF Shapes
    <3> DEFINE new == [type |-> v.type, value |-> value, status |-> v.status, expr |-> v.expr]
    <3>4. [v EXCEPT !.value = value] = new
      <4>1. v = [type |-> v.type, value |-> v.value, status |-> v.status, expr |-> v.expr]
        BY DEF VariableRecord
      <4> QED
        BY <4>1
    <3>5. new \in VariableRecord /\ new.expr = v.expr /\ new.type = v.type
      BY RecordIs DEF VariableRecord
    <3>6. new # None
      BY <3>5, RecordIs
    <3> HIDE DEF new
    <3>7. /\ var' \in [Variable -> {None} \union VariableRecord]
          /\ var'[x] = new /\ \A y \in Variable : y # x => var'[y] = var[y]
      BY <1>1, <2>1, <3>1, <3>3, <3>4, <3>5 DEF Shapes
    <3>8. \A y \in Variable : SameVariable(y)
      BY <3>2, <3>3, <3>5, <3>6, <3>7 DEF SameVariable
    <3>9. Keeps
      BY <3>1, <3>8 DEF Keeps, SameParameter
    <3>10. Listed'
      BY <1>1, <1>2, <3>2, <3>6, <3>7 DEF Listed
    <3> QED
      BY <1>1, <3>1, <3>7, <3>9, <3>10 DEF Shapes
  <2>2. CASE x \notin Variable
    <3>1. x \in Parameter
      BY <2>2 DEF Name
    <3>2. par' = [par EXCEPT ![x].value = value] /\ var' = var
      BY <1>2, <1>6, <2>2
    <3>3. PICK p \in ParameterRecord : p = par[x]
      BY <1>1, <3>1 DEF Shapes
    <3>4. p.expr # None
      BY <1>7, <3>1, <3>3 DEF Behind
    <3> DEFINE new == [value |-> value, expr |-> p.expr]
    <3>5. [p EXCEPT !.value = value] = new
      <4>1. p = [value |-> p.value, expr |-> p.expr]
        BY DEF ParameterRecord
      <4> QED
        BY <4>1
    <3>6. new \in ParameterRecord /\ new.expr = p.expr
      BY DEF ParameterRecord
    <3> HIDE DEF new
    <3>7. /\ par' \in [Parameter -> ParameterRecord]
          /\ par'[x] = new /\ \A y \in Parameter : y # x => par'[y] = par[y]
      BY <1>1, <3>1, <3>2, <3>3, <3>5, <3>6 DEF Shapes
    <3>8. Keeps
      BY <3>2, <3>3, <3>4, <3>6, <3>7 DEF Keeps, SameParameter, SameVariable
    <3> QED
      BY <1>1, <1>2, <3>2, <3>7, <3>8 DEF Shapes, Listed
  <2> QED
    BY <2>1, <2>2
<1>9. Kept' /\ Saves'
  BY <1>1, <1>2, <1>8, KeepsKept, KeepsSaves
<1>10. Waiting'
  BY <1>1, <1>2, <1>4 DEF Waiting
<1>11. Called' /\ Summed'
  BY <1>2 DEF Called, Summed
<1>12. Shapes'
  BY <1>1, <1>2, <1>8 DEF Shapes
<1> QED
  BY <1>8, <1>9, <1>10, <1>11, <1>12 DEF IInv

LEMMA SaveEndIs ==
  ASSUME IInv, SaveEnd
  PROVE  IInv' /\ Summed'
<1>1. Shapes /\ Listed /\ Kept
  BY DEF IInv
<1>2. calls' = <<>> /\ cmd' = None /\ UNCHANGED <<list, var, par>>
  BY DEF SaveEnd, Saving
<1> QED
  BY <1>1, <1>2, OverIs DEF IInv, Shapes, Listed, Kept

-----------------------------------------------------------------------------
(* The theorems.                                                           *)

LEMMA InitIs ==
  ASSUME Init
  PROVE  IInv /\ Summed
<1>1. /\ list = <<>> /\ calls = <<>> /\ cmd = None
      /\ var = [x \in Variable |-> None]
      /\ par = [x \in Parameter |-> [value |-> 0, expr |-> None]]
      /\ exited = None
  BY DEF Init
<1>2. [value |-> 0, expr |-> None] \in ParameterRecord
  BY NumberIs DEF ParameterRecord
<1>3. Shapes
  BY <1>1, <1>2 DEF Shapes
<1>4. Listed
  <2>1. Range(list) = {}
    BY <1>1 DEF Range
  <2> QED
    BY <1>1, <2>1 DEF Listed
<1>5. Kept /\ Called /\ Waiting /\ Saves /\ Summed
  BY <1>1 DEF Kept, Called, Waiting, Saves, Summed
<1> QED
  BY <1>3, <1>4, <1>5 DEF IInv

LEMMA NextIs ==
  ASSUME IInv, [Next]_vars
  PROVE  IInv' /\ (Summed => Summed')
<1>1. CASE Statement
  <2>1. ASSUME NEW x \in Name, NEW type \in {CONST, DIRECT}, NEW expr \in Direct,
               Assign(x, type, expr)
        PROVE  IInv' /\ (Summed => Summed')
    BY <2>1, AssignIs
  <2>2. ASSUME NEW x \in Name, NEW expr \in Expression, Defer(x, expr)
        PROVE  IInv' /\ (Summed => Summed')
    BY <2>2, DeferIs
  <2>3. ASSUME NEW x \in Variable, NEW expr \in Addition, AddExpression(x, expr)
        PROVE  IInv' /\ (Summed => Summed')
    BY <2>3, AddExpressionIs
  <2>4. ASSUME NEW x \in Name, NEW number \in Number, SetVariable(x, number)
        PROVE  IInv' /\ (Summed => Summed')
    BY <2>4, SetVariableIs
  <2>5. ASSUME NEW x \in Parameter, NEW y \in Parameter, Inherit(x, y)
        PROVE  IInv' /\ (Summed => Summed')
    BY <2>5, InheritIs
  <2>6. ASSUME NEW x \in Name, Read(x)
        PROVE  IInv' /\ (Summed => Summed')
    BY <2>6, ReadIs
  <2>7. ASSUME NEW noexpr \in NoExpr, Save(noexpr)
        PROVE  IInv' /\ (Summed => Summed')
    BY <2>7, SaveIs
  <2> QED
    BY <1>1, <2>1, <2>2, <2>3, <2>4, <2>5, <2>6, <2>7 DEF Statement
<1>2. CASE Take
  BY <1>2, TakeIs
<1>3. CASE Descend
  BY <1>3, DescendIs
<1>4. CASE Return
  BY <1>4, ReturnIs
<1>5. CASE Assigned
  BY <1>5, AssignedIs
<1>6. CASE Answer
  BY <1>6, AnswerIs
<1>7. CASE AddedTo
  BY <1>7, AddedToIs
<1>8. CASE SaveVariable
  BY <1>8, SaveVariableIs
<1>9. CASE SaveParameter
  BY <1>9, SaveParameterIs
<1>10. CASE SaveValue
  BY <1>10, SaveValueIs
<1>11. CASE SaveEnd
  BY <1>11, SaveEndIs
<1>12. CASE UNCHANGED vars
  <2>1. Defined' = Defined
    BY <1>12, SameKeeps, KeepsDefined DEF vars
  <2>2. IInv'
    BY <1>12, <2>1
       DEF IInv, Shapes, Listed, Kept, Called, Waiting, Saves, Behind, Before, vars
  <2>3. Summed => Summed'
    BY <1>12, <2>1 DEF Summed, vars
  <2> QED
    BY <2>2, <2>3
<1> QED
  BY <1>1, <1>2, <1>3, <1>4, <1>5, <1>6, <1>7, <1>8, <1>9, <1>10, <1>11, <1>12
     DEF Next, Goes

LEMMA IInvCurrent == IInv /\ Summed => Current
<1> SUFFICES ASSUME IInv, Summed
             PROVE  Current
  OBVIOUS
<1>1. Shapes /\ Kept /\ Called
  BY DEF IInv
<1>2. \A x \in Name : Pending(x) = None => Held(x) = Meanings(Defined)[x]
  BY <1>1, HeldIs
<1>3. calls # <<>> /\ ~Items => Caller.sum = Meaning(Defined, Caller.expr)
  BY <1>1, ComesToMeaning
<1> QED
  BY <1>2, <1>3 DEF Current

LEMMA IInvSaved ==
  ASSUME IInv, SaveEnd, ~cmd.noexpr
  PROVE  Reread(cmd.saved) = Defined
<1>1. /\ cmd # None /\ cmd.op = "save" /\ cmd.at > Len(cmd.varl) /\ cmd.left = {}
  BY DEF SaveEnd, Saving
<1>2. cmd \in SavingRecord /\ Len(cmd.varl) \in Nat
  BY <1>1, SavingNow
<1>3. /\ cmd.at <= Len(cmd.varl) + 1
      /\ \A x \in Variable : x \notin Range(cmd.varl) => Defined[x] = Immediate("value", 0)
      /\ DOMAIN cmd.saved = Before(cmd.varl, cmd.at) \union (Parameter \ cmd.left)
      /\ \A x \in DOMAIN cmd.saved : cmd.saved[x] = Defined[x]
  BY <1>1 DEF IInv, Saves
<1>4. cmd.at - 1 = Len(cmd.varl)
  BY <1>1, <1>2, <1>3, SavingIs
<1>5. cmd.varl \in Seq(Variable)
  BY <1>2, SavingIs
<1>6. Range(cmd.varl) = Before(cmd.varl, cmd.at)
  <2>1. DOMAIN cmd.varl = 1 .. Len(cmd.varl)
    BY <1>5
  <2> QED
    BY <1>4, <2>1 DEF Range, Before
<1>7. \A x \in Name : x \notin DOMAIN cmd.saved => Defined[x] = Immediate("value", 0)
  BY <1>1, <1>3, <1>6 DEF Name
<1>8. ASSUME NEW x \in Name
      PROVE  Reread(cmd.saved)[x] = Defined[x]
  BY <1>3, <1>7 DEF Reread
<1> QED
  BY <1>8 DEF Reread, Defined

(***************************************************************************)
(* What polish_value has added up, and what variable_value and             *)
(* command_par_value give without an evaluation, is what the definitions   *)
(* of that time mean: for any names, expressions and numbers, circles      *)
(* among the definitions and names that an evaluation enters included.     *)
(***************************************************************************)
THEOREM ValuesAreCurrent == Spec => []Current
<1>1. Init => IInv /\ Summed
  BY InitIs
<1>2. (IInv /\ Summed) /\ [Next]_vars => (IInv /\ Summed)'
  BY NextIs
<1> QED
  BY <1>1, <1>2, IInvCurrent, PTL DEF Spec

(***************************************************************************)
(* A file that SAVE has written without NOEXPR defines what is defined     *)
(* when it is closed, read by a program that has no variables yet.         *)
(***************************************************************************)
THEOREM SavedIsDefined == Spec => SavesDefinitions
<1>1. Init => IInv
  BY InitIs
<1>2. IInv /\ [Next]_vars => IInv'
  BY NextIs
<1>3. IInv /\ [Next]_vars =>
        [SaveEnd /\ ~cmd.noexpr => Reread(cmd.saved) = Defined]_vars
  BY IInvSaved
<1> QED
  BY <1>1, <1>2, <1>3, PTL DEF Spec, SavesDefinitions

-----------------------------------------------------------------------------
(* The definitions: every step is a step of Definitions, or changes none.  *)

(***************************************************************************)
(* What waits for a value was begun with what may be on a right side, for  *)
(* a name that is no constant.                                             *)
(***************************************************************************)
Begun ==
  cmd # None =>
    /\ cmd.op = "assign" => /\ ~IsConstant(cmd.name)
                            /\ cmd.type = CONST => cmd.name \in Variable
                            /\ calls[1].expr \in Direct
    /\ cmd.op = "add" => ~IsConstant(cmd.name) /\ cmd.expr \in Addition

LEMMA KeepsConstant ==
  ASSUME Kept, Keeps, NEW x, ~IsConstant(x)
  PROVE  ~(x \in Variable /\ var'[x] # None /\ var'[x].type = CONST)
<1> SUFFICES ASSUME x \in Variable
             PROVE  var'[x] = None \/ var'[x].type # CONST
  OBVIOUS
<1>1. SameVariable(x)
  BY DEF Keeps
<1>2. DIRECT # CONST /\ DEFERRED # CONST
  BY DEF DIRECT, DEFERRED, CONST
<1> QED
  BY <1>1, <1>2, NewIs DEF SameVariable, IsConstant, Kept

LEMMA BegunKeeps ==
  ASSUME Kept, Begun, Keeps, cmd' = cmd, calls'[1].expr = calls[1].expr
  PROVE  Begun'
<1> SUFFICES ASSUME cmd # None
             PROVE  Begun'
  BY DEF Begun
<1>1. ~IsConstant(cmd.name) => ~IsConstant(cmd.name)'
  BY KeepsConstant DEF IsConstant
<1> QED
  BY <1>1 DEF Begun

LEMMA FirstKept ==
  ASSUME Shapes, calls # <<>>,
         \/ Take
         \/ Return
         \/ Descend /\ ~TooDeep
  PROVE  calls'[1].expr = calls[1].expr
<1>1. /\ calls \in Seq(CallRecord) /\ Len(calls) \in Nat /\ Len(calls) >= 1
      /\ Caller = calls[Len(calls)]
  BY CallerIs DEF Shapes
<1>2. \A stack \in Seq(CallRecord) : \A value :
        stack # <<>> => Taken(stack, value)[1].expr = stack[1].expr
  <2> SUFFICES ASSUME NEW stack \in Seq(CallRecord), NEW value, stack # <<>>
               PROVE  Taken(stack, value)[1].expr = stack[1].expr
    OBVIOUS
  <2> DEFINE n == Len(stack)
             a == [stack EXCEPT ![n].at = @ + 1]
             b == [a EXCEPT ![n].sum = Plus(@, value)]
  <2>1. 1 \in DOMAIN stack /\ n \in DOMAIN stack
    BY EmptySeq, LenProperties
  <2>2. stack[1] \in CallRecord /\ stack[n] \in CallRecord
    BY <2>1
  <2>3. Taken(stack, value) = b
    BY DEF Taken
  <2>4. DOMAIN a = DOMAIN stack /\ a[1] = (IF n = 1 THEN [stack[n] EXCEPT !.at = @ + 1] ELSE stack[1])
    BY <2>1
  <2>5. a[1].expr = stack[1].expr /\ "sum" \in DOMAIN a[1] /\ "expr" \in DOMAIN a[1]
    BY <2>2, <2>4 DEF CallRecord
  <2> HIDE DEF a
  <2>6. b[1] = (IF n = 1 THEN [a[1] EXCEPT !.sum = Plus(@, value)] ELSE a[1])
    BY <2>1, <2>4
  <2>7. b[1].expr = a[1].expr
    BY <2>5, <2>6
  <2> QED
    BY <2>3, <2>5, <2>7
<1>3. CASE Take
  <2>1. PICK value : calls' = Taken(calls, value)
    BY <1>3 DEF Take
  <2> QED
    BY <1>1, <1>2, <2>1
<1>4. CASE Return
  <2>1. calls' = Taken(Front(calls), Caller.sum) /\ Len(calls) > 1
    BY <1>4 DEF Return
  <2>2. Front(calls) = SubSeq(calls, 1, Len(calls) - 1)
    BY DEF Front
  <2>3. 1 \in 1 .. Len(calls) + 1 /\ Len(calls) - 1 \in 0 .. Len(calls) /\ 1 <= Len(calls) - 1
    BY <1>1, <2>1
  <2> DEFINE m == Len(calls) - 1
  <2>4. m - 1 + 1 = m /\ m \in Nat /\ 1 \in 1 .. m - 1 + 1 /\ 1 + 1 - 1 = 1 /\ m >= 1
    BY <1>1, <2>1
  <2> HIDE DEF m
  <2>5. SubSeq(calls, 1, m) \in Seq(CallRecord) /\ Len(SubSeq(calls, 1, m)) = m
    BY <1>1, <2>3, <2>4, SubSeqProperties DEF m
  <2>6. \A i \in 1 .. m - 1 + 1 : SubSeq(calls, 1, m)[i] = calls[1 + i - 1]
    BY <1>1, <2>3, <2>4, SubSeqProperties DEF m
  <2>7. Front(calls)[1] = calls[1]
    BY <2>2, <2>4, <2>6 DEF m
  <2>8. Front(calls) \in Seq(CallRecord) /\ Len(Front(calls)) = m
    BY <2>2, <2>5 DEF m
  <2>9. Front(calls) # <<>>
    <3>1. Len(<<>>) = 0
      BY EmptySeq
    <3> QED
      BY <2>4, <2>8, <3>1
  <2> QED
    BY <1>2, <2>1, <2>7, <2>8, <2>9
<1>5. CASE Descend /\ ~TooDeep
  <2>1. calls' = Append(calls, Call(Item, Pending(Item)))
    BY <1>5 DEF Descend
  <2> QED
    BY <1>1, <2>1
<1> QED
  BY <1>3, <1>4, <1>5

LEMMA NextBegun ==
  ASSUME IInv, Begun, [Next]_vars
  PROVE  Begun'
<1>1. Shapes /\ Kept /\ Waiting
  BY DEF IInv
<1>2. ASSUME cmd' = None
      PROVE  Begun'
  BY <1>2 DEF Begun
<1>3. ASSUME cmd' # None, cmd'.op \in {"read", "save"}
      PROVE  Begun'
  BY <1>3 DEF Begun
<1>4. ASSUME cmd = None, calls = <<>>, cmd' = cmd
      PROVE  Begun'
  BY <1>4 DEF Begun
<1>5. ASSUME NEW x \in Name, NEW type \in {CONST, DIRECT}, NEW expr \in Direct,
             Assign(x, type, expr)
      PROVE  Begun'
  <2>1. CASE Literal(expr)
    BY <1>2, <1>5, <2>1 DEF Assign, Idle
  <2>2. CASE ~Literal(expr)
    <3> DEFINE c == [op |-> "assign", name |-> x, type |-> type]
               first == Call(None, expr)
    <3>1. /\ cmd' = c /\ calls' = <<first>> /\ UNCHANGED <<list, var, par>>
          /\ ~IsConstant(x) /\ (type = CONST => x \in Variable)
      BY <1>5, <2>2 DEF Assign, Evaluate
    <3>2. c.op = "assign" /\ c.name = x /\ c.type = type /\ first.expr = expr
      BY DEF Call
    <3> HIDE DEF c, first
    <3>3. calls'[1].expr \in Direct
      BY <3>1, <3>2
    <3>4. ~IsConstant(cmd.name)'
      BY <3>1, <3>2 DEF IsConstant
    <3> QED
      BY <3>1, <3>2, <3>3, <3>4 DEF Begun
  <2> QED
    BY <2>1, <2>2
<1>6. ASSUME NEW x \in Variable, NEW expr \in Addition, AddExpression(x, expr)
      PROVE  Begun'
  <2>1. CASE var[x] # None /\ var[x].expr # None
    <3> DEFINE c == [op |-> "add", name |-> x, expr |-> expr]
    <3>1. cmd' = c /\ UNCHANGED <<list, var, par>> /\ ~IsConstant(x)
      BY <1>6, <2>1 DEF AddExpression, Evaluate
    <3>2. c.op = "add" /\ c.name = x /\ c.expr = expr
      OBVIOUS
    <3> HIDE DEF c
    <3>3. ~IsConstant(cmd.name)'
      BY <3>1, <3>2 DEF IsConstant
    <3> QED
      BY <3>1, <3>2, <3>3 DEF Begun
  <2>2. CASE ~(var[x] # None /\ var[x].expr # None)
    BY <1>2, <1>6, <2>2 DEF AddExpression, Idle
  <2> QED
    BY <2>1, <2>2
<1>7. CASE Statement
  <2>1. ASSUME NEW x \in Name, NEW expr \in Expression, Defer(x, expr)
        PROVE  Begun'
    BY <1>2, <2>1 DEF Defer, Idle
  <2>2. ASSUME NEW x \in Name, NEW number \in Number, SetVariable(x, number)
        PROVE  Begun'
    BY <1>2, <2>2 DEF SetVariable, Idle
  <2>3. ASSUME NEW x \in Parameter, NEW y \in Parameter, Inherit(x, y)
        PROVE  Begun'
    BY <1>2, <2>3 DEF Inherit, Idle
  <2>4. ASSUME NEW x \in Name, Read(x)
        PROVE  Begun'
    <3>1. cmd' = [op |-> "read"]
      BY <2>4 DEF Read, Evaluate
    <3> QED
      BY <3>1 DEF Begun
  <2>5. ASSUME NEW noexpr \in NoExpr, Save(noexpr)
        PROVE  Begun'
    <3>1. cmd'.op = "save"
      BY <2>5 DEF Save
    <3> QED
      BY <3>1 DEF Begun
  <2> QED
    BY <1>5, <1>6, <1>7, <2>1, <2>2, <2>3, <2>4, <2>5 DEF Statement
<1>8. ASSUME Take \/ Return \/ (Descend /\ ~TooDeep)
      PROVE  Begun'
  <2>1. calls # <<>>
    <3>1. Len(calls) > 1 => calls # <<>>
      BY <1>1, EmptySeq DEF Shapes
    <3> QED
      BY <1>8, <3>1 DEF Take, Return, Descend
  <2>2. cmd' = cmd
    BY <1>8 DEF Take, Return, Descend
  <2>3. Keeps
    BY <1>8, TakeIs, ReturnIs, DescendIs
  <2>4. calls'[1].expr = calls[1].expr
    BY <1>1, <1>8, <2>1, FirstKept
  <2> QED
    BY <1>1, <2>2, <2>3, <2>4, BegunKeeps
<1>9. CASE Descend /\ TooDeep
  BY <1>2, <1>9 DEF Descend
<1>10. CASE Assigned \/ Answer \/ AddedTo \/ SaveEnd
  BY <1>2, <1>10 DEF Assigned, Answer, AddedTo, SaveEnd
<1>11. CASE SaveVariable \/ SaveParameter \/ SaveValue
  <2>1. cmd # None /\ cmd.op = "save"
    <3>1. CASE SaveVariable \/ SaveParameter
      BY <3>1 DEF SaveVariable, SaveParameter, Saving
    <3>2. CASE SaveValue
      <4>1. calls # <<>>
        BY <3>2, OneCall DEF SaveValue, Done
      <4> QED
        BY <1>1, <3>2, <4>1 DEF SaveValue, Waiting
    <3> QED
      BY <1>11, <3>1, <3>2
  <2>2. PICK c \in SavingRecord : c = cmd
    BY <2>1, SavingNow
  <2>3. DOMAIN c = {"op", "noexpr", "varl", "at", "left", "saved", "value"} /\ c.op = "save"
    BY DEF SavingRecord
  <2>4. CASE SaveVariable
    <3>1. \/ cmd' = None
          \/ \E x : cmd' = [c EXCEPT !.value = x]
          \/ \E file : cmd' = [c EXCEPT !.at = @ + 1, !.value = None, !.saved = file]
      BY <2>2, <2>4 DEF SaveVariable, Evaluate
    <3>2. cmd' = None \/ cmd'.op = "save"
      BY <2>3, <3>1
    <3> QED
      BY <1>2, <3>2 DEF Begun
  <2>5. CASE SaveParameter
    <3>1. \/ \E x : cmd' = [c EXCEPT !.value = x]
          \/ \E x, file : cmd' = [c EXCEPT !.left = @ \ {x}, !.value = None, !.saved = file]
      BY <2>2, <2>5 DEF SaveParameter, Evaluate
    <3>2. cmd'.op = "save"
      BY <2>3, <3>1
    <3> QED
      BY <3>2 DEF Begun
  <2>6. CASE SaveValue
    <3>1. cmd' = cmd
      BY <2>6 DEF SaveValue
    <3> QED
      BY <2>1, <3>1 DEF Begun
  <2> QED
    BY <1>11, <2>4, <2>5, <2>6
<1>12. CASE UNCHANGED vars
  BY <1>12 DEF vars, Begun, IsConstant
<1> QED
  BY <1>7, <1>8, <1>9, <1>10, <1>11, <1>12 DEF Next, Goes

(***************************************************************************)
(* Definitions and Variables say the same with their operators.            *)
(***************************************************************************)
LEMMA PromiseIs ==
  /\ Promise!Name = Name /\ Promise!Number = Number
  /\ \A kind, value : Promise!Immediate(kind, value) = Immediate(kind, value)
  /\ \A expr : Promise!Deferred(expr) = Deferred(expr)
  /\ \A expr : Promise!Names(expr) = Names(expr)
  /\ \A defs, expr : Promise!Meaning(defs, expr) = Meaning(defs, expr)
  /\ \A defs, from : Promise!Circular(defs, from) = Circular(defs, from)
<1>1. Promise!Name = Name /\ Promise!Number = Number
  BY DEF Promise!Name, Name, Promise!Number, Number
<1>2. \A kind, value : Promise!Immediate(kind, value) = Immediate(kind, value)
  BY DEF Promise!Immediate, Immediate
<1>3. \A expr : Promise!Deferred(expr) = Deferred(expr)
  BY DEF Promise!Deferred, Deferred, Promise!Immediate, Immediate, Promise!Literal, Literal,
         Promise!Number, Number
<1>4. \A expr : Promise!Names(expr) = Names(expr)
  BY <1>1 DEF Promise!Names, Names, Promise!Range, Range
<1>5. ASSUME NEW S
      PROVE  Promise!Cardinality(S) = Cardinality(S)
  BY DEF Promise!Cardinality, Cardinality
<1>6. ASSUME NEW expr, NEW known
      PROVE  Promise!Total(expr, known) = Total(expr, known)
  BY DEF Promise!Total, Total, Promise!Sums, Sums, Promise!Plus, Plus, Promise!Name, Name
<1>7. ASSUME NEW defs
      PROVE  Promise!Levels(defs) = Levels(defs)
  BY DEF Promise!Levels, Levels, Promise!Total, Total, Promise!Sums, Sums, Promise!Plus, Plus,
         Promise!Name, Name, Promise!Cardinality, Cardinality
<1>8. \A defs, expr : Promise!Meaning(defs, expr) = Meaning(defs, expr)
  BY <1>1, <1>5, <1>6, <1>7 DEF Promise!Meaning, Meaning, Promise!Meanings, Meanings
<1>9. ASSUME NEW defs, NEW x
      PROVE  Promise!Refers(defs, x) = Refers(defs, x)
  BY <1>1 DEF Promise!Refers, Refers, Promise!Range, Range
<1>10. ASSUME NEW defs, NEW from
       PROVE  Promise!Reaches(defs, from) = Reaches(defs, from)
  BY DEF Promise!Reaches, Reaches, Promise!Refers, Refers, Promise!Range, Range,
         Promise!Name, Name, Promise!Cardinality, Cardinality
<1>11. \A defs, from : Promise!Reached(defs, from) = Reached(defs, from)
  BY <1>1, <1>5, <1>10 DEF Promise!Reached, Reached
<1>12. \A defs, from : Promise!Circular(defs, from) = Circular(defs, from)
  BY <1>9, <1>11 DEF Promise!Circular, Circular
<1> QED
  BY <1>1, <1>2, <1>3, <1>4, <1>8, <1>12

(***************************************************************************)
(* The definition of one name changes.                                     *)
(***************************************************************************)
Defines(x, definition) == Defined' = [Defined EXCEPT ![x] = definition]

LEMMA OnlyDefines ==
  ASSUME NEW x \in Name, NEW d,
         \A y \in Variable : y # x => var'[y] = var[y],
         \A y \in Parameter : y # x => par'[y] = par[y],
         Defined'[x] = d
  PROVE  Defines(x, d)
<1>1. ASSUME NEW y \in Name, y # x
      PROVE  Defined'[y] = Defined[y]
  BY <1>1 DEF Defined, Name
<1>2. Defined = [y \in Name |-> Defined[y]]
  BY DEF Defined
<1>3. Defined' = [y \in Name |-> Defined'[y]]
  BY DEF Defined
<1> QED
  BY <1>1, <1>2, <1>3 DEF Defines

LEMMA GetsDefines ==
  ASSUME Shapes, NEW x \in Name, NEW type \in {CONST, DIRECT}, NEW value \in Number,
         type = CONST => x \in Variable, Gets(x, type, value)
  PROVE  Defines(x, Immediate(IF type = CONST THEN "constant" ELSE "value", value))
<1>1. CASE x \in Variable
  <2> DEFINE v == NewVariable(type, value, None)
  <2>1. var' = [var EXCEPT ![x] = v] /\ par' = par /\ x \notin Parameter
    BY <1>1, VariablesAssumption DEF Gets, Entered
  <2>2. v \in VariableRecord /\ v.type = type /\ v.value = value /\ v.expr = None
    BY NewVariableIs
  <2> HIDE DEF v
  <2>3. v # None
    BY <2>2, RecordIs
  <2>4. var'[x] = v /\ \A y \in Variable : y # x => var'[y] = var[y]
    BY <1>1, <2>1 DEF Shapes
  <2>5. Defined'[x] = Immediate(IF type = CONST THEN "constant" ELSE "value", value)
    BY <2>1, <2>2, <2>3, <2>4 DEF Defined
  <2> QED
    BY <2>1, <2>4, <2>5, OnlyDefines
<1>2. CASE x \notin Variable
  <2>1. var' = var /\ par' = [par EXCEPT ![x] = [value |-> value, expr |-> None]] /\ x \in Parameter
    BY <1>2 DEF Gets, Name
  <2>2. /\ par'[x] = [value |-> value, expr |-> None]
        /\ \A y \in Parameter : y # x => par'[y] = par[y]
    BY <2>1 DEF Shapes
  <2>3. Defined'[x] = Immediate(IF type = CONST THEN "constant" ELSE "value", value)
    BY <1>2, <2>1, <2>2 DEF Defined
  <2> QED
    BY <2>1, <2>2, <2>3, OnlyDefines
<1> QED
  BY <1>1, <1>2

LEMMA FreeIs ==
  ASSUME Shapes, NEW x \in Name, ~IsConstant(x)
  PROVE  Defined[x].kind # "constant"
<1>1. \A value : Immediate("value", value).kind = "value"
  BY DEF Immediate
<1>2. \A expr : Deferred(expr).kind # "constant"
  BY DEF Deferred, Immediate
<1>3. CASE x \in Parameter
  BY <1>1, <1>2, <1>3 DEF Defined
<1>4. CASE x \notin Parameter
  BY <1>1, <1>2, <1>4 DEF Defined, IsConstant, Name
<1> QED
  BY <1>3, <1>4

(***************************************************************************)
(* The steps of Definitions, for what is defined here.                     *)
(***************************************************************************)
Going == exited = None /\ exited' # "circular"

LEMMA AssignMaps ==
  ASSUME Shapes, Going, NEW x \in Name, ~IsConstant(x), NEW kind \in {"constant", "value"},
         kind = "constant" => x \in Variable,
         NEW expr \in Direct \union {<<number>> : number \in Number},
         Names(expr) \subseteq Ground(Defined),
         Defines(x, Immediate(kind, Meaning(Defined, expr)))
  PROVE  Promise!Next
<1>1. Defined[x].kind # "constant"
  BY FreeIs
<1>2. ~Circular(Defined, Names(expr))
  BY GroundNotCircular DEF Names
<1>3. Promise!Assign(x, kind, expr)
  BY <1>1, <1>2, PromiseIs DEF Promise!Assign, Promise!Free, Defines
<1>4. exited # "circular" /\ (exited' = "circular") = (exited = "circular")
  BY VariablesAssumption DEF Going
<1> QED
  BY <1>3, <1>4, PromiseIs DEF Promise!Next

LEMMA DeferMaps ==
  ASSUME Shapes, Going, NEW x \in Name, ~IsConstant(x), NEW expr \in Expression,
         Defines(x, Deferred(expr))
  PROVE  Promise!Next
<1>1. Defined[x].kind # "constant"
  BY FreeIs
<1>2. Promise!Defer(x, expr)
  BY <1>1, PromiseIs DEF Promise!Defer, Promise!Free, Defines
<1>3. exited # "circular" /\ (exited' = "circular") = (exited = "circular")
  BY VariablesAssumption DEF Going
<1> QED
  BY <1>2, <1>3, PromiseIs DEF Promise!Next

LEMMA AddMaps ==
  ASSUME Shapes, Going, NEW x \in Variable, ~IsConstant(x), NEW expr \in Addition,
         Defines(x, Deferred((IF Defined[x].kind = "deferred" THEN Defined[x].expr
                              ELSE <<Defined[x].value>>) \o expr))
  PROVE  Promise!Next
<1>1. Defined[x].kind # "constant"
  BY FreeIs DEF Name
<1>2. Promise!AddExpression(x, expr)
  BY <1>1, PromiseIs DEF Promise!AddExpression, Promise!Free, Defines
<1>3. exited # "circular" /\ (exited' = "circular") = (exited = "circular")
  BY VariablesAssumption DEF Going
<1> QED
  BY <1>2, <1>3, PromiseIs DEF Promise!Next

LEMMA InheritMaps ==
  ASSUME Shapes, Going, NEW x \in Parameter, NEW y \in Parameter,
         Defines(x, Defined[y])
  PROVE  Promise!Next
<1>1. Promise!Inherit(x, y)
  BY DEF Promise!Inherit, Defines
<1>2. exited # "circular" /\ (exited' = "circular") = (exited = "circular")
  BY VariablesAssumption DEF Going
<1> QED
  BY <1>1, <1>2, PromiseIs DEF Promise!Next

LEMMA FailMaps ==
  ASSUME exited = None, exited' = "circular", Defined' = Defined, Circular(Defined, Name)
  PROVE  Promise!Next
<1>1. Promise!Fail
  BY PromiseIs DEF Promise!Fail
<1>2. exited # "circular"
  BY VariablesAssumption
<1> QED
  BY <1>1, <1>2 DEF Promise!Next

LEMMA StutterMaps ==
  ASSUME Going, Defined' = Defined
  PROVE  UNCHANGED <<Defined, exited = "circular">>
<1>1. exited # "circular" /\ exited' # "circular"
  BY VariablesAssumption DEF Going
<1> QED
  BY <1>1

Maps == [Promise!Next]_<<Defined, exited = "circular">>

LEMMA IdleGoing ==
  ASSUME Idle, exited' = exited
  PROVE  Going
BY VariablesAssumption DEF Idle, Going

LEMMA StepMaps ==
  ASSUME Going, Keeps
  PROVE  Maps
BY KeepsDefined, StutterMaps DEF Maps

LEMMA AssignStep ==
  ASSUME IInv, NEW x \in Name, NEW type \in {CONST, DIRECT}, NEW expr \in Direct,
         Assign(x, type, expr)
  PROVE  Maps
<1>1. Shapes /\ Going /\ ~IsConstant(x) /\ (type = CONST => x \in Variable) /\ expr \in Expr
  BY IdleGoing, VariablesAssumption DEF IInv, Assign
<1>2. CASE Literal(expr)
  <2> DEFINE kind == IF type = CONST THEN "constant" ELSE "value"
  <2>1. /\ expr[1] \in Number /\ Names(expr) = {}
        /\ Meaning(Defined, expr) = expr[1]
    BY <1>1, <1>2, DefinedIs, MeaningsAre, LiteralIs DEF Meaning
  <2>2. Gets(x, type, expr[1])
    BY <1>2 DEF Assign
  <2>3. Defines(x, Immediate(kind, Meaning(Defined, expr)))
    BY <1>1, <2>1, <2>2, GetsDefines
  <2>4. kind \in {"constant", "value"} /\ (kind = "constant" => x \in Variable)
    BY <1>1
  <2> HIDE DEF kind
  <2> QED
    BY <1>1, <2>1, <2>3, <2>4, AssignMaps DEF Maps
<1>3. CASE ~Literal(expr)
  <2>1. UNCHANGED <<var, par>>
    BY <1>3 DEF Assign
  <2> QED
    BY <1>1, <2>1, SameKeeps, StepMaps
<1> QED
  BY <1>2, <1>3

LEMMA AssignedStep ==
  ASSUME IInv, Summed, Begun, Assigned
  PROVE  Maps
<1>1. Shapes /\ Called /\ Waiting
  BY DEF IInv
<1>2. /\ Len(calls) = 1 /\ ~Items /\ cmd.op = "assign" /\ exited' = exited
      /\ Gets(cmd.name, cmd.type, Caller.sum)
  BY DEF Assigned, Done
<1>3. calls # <<>>
  BY <1>2, OneCall
<1>4. Caller = calls[1] /\ Caller \in CallRecord /\ cmd # None
  BY <1>1, <1>2, <1>3, CallerIs DEF Waiting
<1>5. cmd \in Assigning
  BY <1>1, <1>2, <1>4 DEF Shapes, Assigning, Reading, Adding, SavingRecord
<1>6. PICK x \in Name, type \in {CONST, DIRECT}, value \in Number, expr \in Expr :
        x = cmd.name /\ type = cmd.type /\ value = Caller.sum /\ expr = Caller.expr
  BY <1>4, <1>5, CallRecordIs DEF Assigning
<1>7. ~IsConstant(x) /\ (type = CONST => x \in Variable) /\ expr \in Direct
  BY <1>2, <1>4, <1>6 DEF Begun
<1>8. value = Meaning(Defined, expr) /\ Names(expr) \subseteq Ground(Defined)
  BY <1>1, <1>2, <1>3, <1>6, ComesToMeaning
<1> DEFINE kind == IF type = CONST THEN "constant" ELSE "value"
<1>9. Defines(x, Immediate(kind, value))
  BY <1>1, <1>2, <1>6, <1>7, GetsDefines
<1>10. kind \in {"constant", "value"} /\ (kind = "constant" => x \in Variable)
  BY <1>7
<1>11. Going
  BY <1>1, <1>2, <1>4, VariablesAssumption DEF Waiting, Going
<1> HIDE DEF kind
<1> QED
  BY <1>1, <1>7, <1>8, <1>9, <1>10, <1>11, AssignMaps DEF Maps

LEMMA SetVariableStep ==
  ASSUME IInv, NEW x \in Name, NEW number \in Number, SetVariable(x, number)
  PROVE  Maps
<1>1. Shapes /\ Kept /\ Going /\ ~IsConstant(x)
  BY IdleGoing DEF IInv, SetVariable
<1> DEFINE expr == <<number>>
<1>2. /\ expr \in Expr /\ Literal(expr) /\ expr[1] = number
      /\ expr \in {<<value>> : value \in Number}
  BY DEF Expr, Literal
<1> HIDE DEF expr
<1>3. Names(expr) = {} /\ Meaning(Defined, expr) = number
  BY <1>1, <1>2, DefinedIs, MeaningsAre, LiteralIs DEF Meaning
<1>4. Defines(x, Immediate("value", number))
  <2>1. CASE x \in Variable /\ var[x] # None
    <3>1. var' = [var EXCEPT ![x] = SetTo(@, number)] /\ par' = par
      BY <2>1 DEF SetVariable
    <3>2. PICK v \in VariableRecord : v = var[x]
      BY <1>1, <2>1 DEF Shapes
    <3> DEFINE new == [type |-> DIRECT, value |-> number, status |-> v.status, expr |-> None]
    <3>3. SetTo(v, number) = new
      <4> DEFINE a == [type |-> v.type, value |-> number, status |-> v.status, expr |-> v.expr]
                 b == [type |-> DIRECT, value |-> number, status |-> v.status, expr |-> v.expr]
      <4>1. v = [type |-> v.type, value |-> v.value, status |-> v.status, expr |-> v.expr]
        BY DEF VariableRecord
      <4>2. [v EXCEPT !.value = number] = a
        BY <4>1
      <4>3. [a EXCEPT !.type = DIRECT] = b
        OBVIOUS
      <4>4. [b EXCEPT !.expr = None] = new
        OBVIOUS
      <4> QED
        BY <4>2, <4>3, <4>4 DEF SetTo
    <3>4. new \in VariableRecord /\ new.expr = None /\ new # None /\ new.type # CONST
          /\ new.value = number
      BY RecordIs DEF VariableRecord, DIRECT, CONST
    <3> HIDE DEF new
    <3>5. var'[x] = new /\ \A y \in Variable : y # x => var'[y] = var[y]
      BY <1>1, <2>1, <3>1, <3>2, <3>3 DEF Shapes
    <3>6. x \notin Parameter
      BY <2>1, VariablesAssumption
    <3>7. Defined'[x] = Immediate("value", number)
      BY <3>4, <3>5, <3>6 DEF Defined
    <3> QED
      BY <3>1, <3>5, <3>7, OnlyDefines
  <2>2. CASE ~(x \in Variable /\ var[x] # None)
    <3>1. Gets(x, DIRECT, number) /\ DIRECT # CONST
      BY <2>2 DEF SetVariable, DIRECT, CONST
    <3>2. Defines(x, Immediate(IF DIRECT = CONST THEN "constant" ELSE "value", number))
      BY <1>1, <3>1, GetsDefines
    <3> QED
      BY <3>1, <3>2
  <2> QED
    BY <2>1, <2>2
<1> QED
  BY <1>1, <1>2, <1>3, <1>4, AssignMaps DEF Maps

LEMMA DeferStep ==
  ASSUME IInv, NEW x \in Name, NEW expr \in Expression, Defer(x, expr)
  PROVE  Maps
<1>1. Shapes /\ Going /\ ~IsConstant(x) /\ expr \in Expr
  BY IdleGoing, VariablesAssumption DEF IInv, Defer
<1> DEFINE value == IF Literal(expr) THEN expr[1] ELSE 0
           kept == IF Literal(expr) THEN None ELSE expr
<1>2. value \in Number /\ kept \in {None} \union Expr
  BY <1>1, NumberIs DEF Literal
<1>3. /\ x \in Variable => /\ Entered(x, NewVariable(DEFERRED, value, kept))
                           /\ par' = par
      /\ x \notin Variable => /\ par' = [par EXCEPT ![x] = [value |-> value, expr |-> kept]]
                              /\ var' = var
  BY DEF Defer
<1>4. Deferred(expr) = IF kept # None THEN Deferred(kept) ELSE Immediate("value", value)
  BY <1>1, DeferredIs, ExprIs
<1> HIDE DEF value, kept
<1>5. Defines(x, Deferred(expr))
  <2>1. CASE x \in Variable
    <3> DEFINE v == NewVariable(DEFERRED, value, kept)
    <3>1. /\ v \in VariableRecord /\ v # None
          /\ v.type # CONST /\ v.value = value /\ v.expr = kept
      BY <1>2, NewVariableIs, RecordIs DEF DEFERRED, CONST
    <3>2. var' = [var EXCEPT ![x] = v] /\ par' = par /\ x \notin Parameter
      BY <1>3, <2>1, VariablesAssumption DEF Entered
    <3> HIDE DEF v
    <3>3. var'[x] = v /\ \A y \in Variable : y # x => var'[y] = var[y]
      BY <1>1, <2>1, <3>2 DEF Shapes
    <3>4. Defined'[x] = Deferred(expr)
      BY <1>4, <3>1, <3>2, <3>3 DEF Defined
    <3> QED
      BY <3>2, <3>3, <3>4, OnlyDefines
  <2>2. CASE x \notin Variable
    <3>1. x \in Parameter /\ var' = var
          /\ par' = [par EXCEPT ![x] = [value |-> value, expr |-> kept]]
      BY <1>3, <2>2 DEF Name
    <3>2. /\ par'[x] = [value |-> value, expr |-> kept]
          /\ \A y \in Parameter : y # x => par'[y] = par[y]
      BY <1>1, <3>1 DEF Shapes
    <3>3. Defined'[x] = Deferred(expr)
      BY <1>4, <3>1, <3>2 DEF Defined
    <3> QED
      BY <3>1, <3>2, <3>3, OnlyDefines
  <2> QED
    BY <2>1, <2>2
<1> QED
  BY <1>1, <1>5, DeferMaps DEF Maps

(***************************************************************************)
(* An expression that stands for one number: the sum goes on from it as    *)
(* from the expression.                                                    *)
(***************************************************************************)
LEMMA StandsFor ==
  ASSUME NEW e \in Expr
  PROVE  (IF Deferred(e).kind = "deferred" THEN Deferred(e).expr ELSE <<Deferred(e).value>>) = e
<1>1. CASE Literal(e)
  <2>1. Deferred(e) = Immediate("value", e[1]) /\ e[1] \in Number
    BY <1>1, DeferredIs
  <2>2. Deferred(e).kind # "deferred" /\ Deferred(e).value = e[1]
    BY <2>1, ImmediateIs
  <2>3. e = <<e[1]>>
    BY <1>1 DEF Literal, Expr
  <2> QED
    BY <2>2, <2>3
<1>2. CASE ~Literal(e)
  <2>1. Deferred(e) = [kind |-> "deferred", expr |-> e]
    BY <1>2, DeferredIs
  <2> QED
    BY <2>1
<1> QED
  BY <1>1, <1>2

LEMMA AddExpressionStep ==
  ASSUME IInv, NEW x \in Variable, NEW expr \in Addition, AddExpression(x, expr)
  PROVE  Maps
<1>1. Shapes /\ Going /\ ~IsConstant(x) /\ expr \in Expr /\ UNCHANGED par
  BY IdleGoing, VariablesAssumption DEF IInv, AddExpression
<1>2. x \in Name /\ x \notin Parameter
  BY VariablesAssumption DEF Name
<1>3. CASE var[x] # None /\ var[x].expr # None
  <2>1. UNCHANGED <<var, par>>
    BY <1>1, <1>3 DEF AddExpression
  <2> QED
    BY <1>1, <2>1, SameKeeps, StepMaps
<1>4. CASE ~(var[x] # None /\ var[x].expr # None)
  <2> DEFINE old == IF var[x] = None THEN NewVariable(DEFERRED, 0, None) ELSE var[x]
  <2>1. old \in VariableRecord
    <3>1. NewVariable(DEFERRED, 0, None) \in VariableRecord
      BY NumberIs, NewVariableIs
    <3> QED
      BY <1>1, <3>1 DEF Shapes
  <2>2. PICK v \in VariableRecord : v = old
    BY <2>1
  <2>3. v.value \in Number /\ (var[x] = None => v.value = 0)
    BY <2>2, RecordIs, NumberIs, NewVariableIs
  <2>4. Defined[x].kind # "deferred" /\ Defined[x].value = v.value
    <3>1. \E kind \in {"value", "constant"} : Defined[x] = Immediate(kind, v.value)
      BY <1>2, <1>4, <2>2, <2>3 DEF Defined
    <3> QED
      BY <2>3, <3>1, ImmediateIs
  <2> DEFINE long == <<v.value>> \o expr
             new == [[v EXCEPT !.type = DEFERRED] EXCEPT !.expr = long]
  <2>5. Entered(x, new)
    BY <1>4, <2>2 DEF AddExpression
  <2>6. long \in Expr
    <3>1. <<v.value>> \in Expr
      BY <2>3 DEF Expr
    <3> QED
      BY <1>1, <3>1, SumIs
  <2> HIDE DEF long
  <2>7. new \in VariableRecord /\ new.expr = long /\ new # None /\ long # None
    BY <2>6, ExtendedIs, RecordIs, ExprIs
  <2> HIDE DEF new, old
  <2>8. var' = [var EXCEPT ![x] = new]
    BY <2>5 DEF Entered
  <2>9. var'[x] = new /\ \A y \in Variable : y # x => var'[y] = var[y]
    BY <1>1, <2>8 DEF Shapes
  <2>10. Defined'[x] = Deferred(long)
    BY <1>2, <2>7, <2>9 DEF Defined
  <2>11. Defines(x, Deferred(long))
    BY <1>1, <1>2, <2>9, <2>10, OnlyDefines
  <2> QED
    BY <1>1, <2>4, <2>11, AddMaps DEF Maps, long
<1> QED
  BY <1>3, <1>4

LEMMA AddedToStep ==
  ASSUME IInv, Begun, AddedTo
  PROVE  Maps
<1>1. Shapes /\ Waiting
  BY DEF IInv
<1>2. /\ Len(calls) = 1 /\ cmd.op = "add" /\ exited' = exited
      /\ var' = Added(cmd.name, cmd.expr) /\ par' = par
  BY DEF AddedTo, Done
<1>3. cmd # None
  BY <1>1, <1>2, OneCall DEF Waiting
<1>4. cmd \in Adding /\ Behind(cmd.name) # None
  BY <1>1, <1>2, <1>3 DEF Shapes, Waiting, Assigning, Reading, Adding, SavingRecord
<1>5. PICK x \in Variable, e \in Expr : x = cmd.name /\ e = cmd.expr
  BY <1>4 DEF Adding
<1>6. ~IsConstant(x) /\ e \in Addition /\ Going
  BY <1>1, <1>2, <1>3, <1>5, VariablesAssumption DEF Begun, Waiting, Going
<1>7. x \notin Parameter /\ x \in Name
  BY VariablesAssumption DEF Name
<1>8. var[x] # None /\ var[x].expr # None
  BY <1>4, <1>5, <1>7 DEF Behind
<1>9. PICK v \in VariableRecord : v = var[x]
  BY <1>1, <1>8 DEF Shapes
<1>10. v.expr \in Expr /\ Defined[x] = Deferred(v.expr)
  BY <1>7, <1>8, <1>9, RecordIs DEF Defined
<1> DEFINE long == v.expr \o e
<1>11. long \in Expr /\ long # None
  BY <1>10, SumIs, ExprIs
<1>12. /\ var'[x] # None /\ var'[x].expr = long
       /\ \A y \in Variable : y # x => var'[y] = var[y]
  <2> DEFINE half == [v EXCEPT !.type = DEFERRED]
             new == [half EXCEPT !.expr = long]
             mid == [var EXCEPT ![x] = half]
  <2>1. new \in VariableRecord /\ new.expr = long /\ new # None
    <3> HIDE DEF long
    <3> QED
      BY <1>11, ExtendedIs, RecordIs
  <2>2. var' = [[var EXCEPT ![x].type = DEFERRED] EXCEPT ![x].expr = long]
    BY <1>2, <1>5, <1>8, <1>9 DEF Added
  <2>3. [var EXCEPT ![x].type = DEFERRED] = mid
    BY <1>9
  <2>4. mid[x] = half /\ \A y \in Variable : y # x => mid[y] = var[y]
    BY <1>1 DEF Shapes
  <2>5. x \in DOMAIN mid /\ \A y \in Variable : y \in DOMAIN mid
    BY <1>1 DEF Shapes
  <2> HIDE DEF half, long, mid
  <2>6. [mid EXCEPT ![x].expr = long][x] = new
    BY <2>4, <2>5
  <2>7. \A y \in Variable : y # x => [mid EXCEPT ![x].expr = long][y] = var[y]
    BY <2>4, <2>5
  <2> HIDE DEF new
  <2> QED
    BY <2>1, <2>2, <2>3, <2>6, <2>7
<1> HIDE DEF long
<1>13. Defined'[x] = Deferred(long)
  BY <1>2, <1>7, <1>11, <1>12 DEF Defined
<1>14. Defines(x, Deferred(long))
  BY <1>2, <1>7, <1>12, <1>13, OnlyDefines
<1>15. (IF Defined[x].kind = "deferred" THEN Defined[x].expr ELSE <<Defined[x].value>>) = v.expr
  BY <1>10, StandsFor
<1> QED
  BY <1>1, <1>6, <1>14, <1>15, AddMaps DEF Maps, long

LEMMA InheritStep ==
  ASSUME IInv, NEW x \in Parameter, NEW y \in Parameter, Inherit(x, y)
  PROVE  Maps
<1>1. Shapes /\ Going /\ var' = var /\ par' = [par EXCEPT ![x] = par[y]]
  BY IdleGoing DEF IInv, Inherit, Inherited
<1>2. par'[x] = par[y] /\ \A z \in Parameter : z # x => par'[z] = par[z]
  BY <1>1 DEF Shapes
<1>3. x \in Name /\ y \in Name
  BY DEF Name
<1>4. Defined'[x] = Defined[y]
  BY <1>2, <1>3 DEF Defined
<1>5. Defines(x, Defined[y])
  BY <1>1, <1>2, <1>3, <1>4, OnlyDefines
<1> QED
  BY <1>1, <1>5, InheritMaps DEF Maps

(***************************************************************************)
(* The names that calls of polish_value wait for, each in the expression   *)
(* of the one before: more of them than there are names is a circle.       *)
(***************************************************************************)
LEMMA DeepIsCircular ==
  ASSUME IInv, calls # <<>>, Items, Item \in Name, Len(calls) > Cardinality(Name)
  PROVE  Circular(Defined, Name)
<1> DEFINE chain == [i \in 1 .. Len(calls) |-> calls[i].expr[calls[i].at]]
           N == Cardinality(Name)
<1>1. Shapes /\ Called
  BY DEF IInv
<1>2. /\ calls \in Seq(CallRecord) /\ Len(calls) \in Nat /\ Len(calls) \in 1 .. Len(calls)
      /\ Caller = calls[Len(calls)]
  BY <1>1, CallerIs DEF Shapes
<1>3. N \in Nat
  BY ExpressionsAssumption, FS_CardinalityType
<1>4. \A i \in 1 .. N + 1 : i \in 1 .. Len(calls)
  BY <1>2, <1>3
<1>5. chain[Len(calls)] = Item
  BY <1>2 DEF Item
<1>6. ASSUME NEW i \in 1 .. Len(calls) - 1
      PROVE  /\ i \in 1 .. Len(calls) /\ i + 1 \in 1 .. Len(calls) /\ i < Len(calls) /\ i + 1 > 1
             /\ chain[i] = calls[i + 1].of /\ calls[i + 1].of \in Name
  <2>1. i \in 1 .. Len(calls) /\ i + 1 \in 1 .. Len(calls) /\ i < Len(calls) /\ i + 1 > 1
    BY <1>2
  <2>2. calls[i + 1].of = calls[i].expr[calls[i].at] /\ calls[i + 1].of \in Name
    BY <1>1, <2>1 DEF Called
  <2> QED
    BY <2>1, <2>2
<1>7. \A i \in 1 .. Len(calls) : chain[i] \in Name
  <2> HIDE DEF chain
  <2>1. \A i \in 1 .. Len(calls) : i = Len(calls) \/ i \in 1 .. Len(calls) - 1
    BY <1>2
  <2> QED
    BY <1>5, <1>6, <2>1
<1>8. ASSUME NEW i \in 1 .. Len(calls) - 1
      PROVE  chain[i + 1] \in Refers(Defined, chain[i])
  <2>1. PICK x \in Name : x = calls[i + 1].of
    BY <1>6
  <2>2. i + 1 \in 1 .. Len(calls) /\ chain[i] = x /\ chain[i + 1] \in Name
    BY <1>6, <1>7, <2>1
  <2>3. PICK c \in CallRecord : c = calls[i + 1]
    BY <1>2, <2>2
  <2>4. c.expr \in Expr /\ c.at \in Nat \ {0} /\ Len(c.expr) \in Nat /\ c.expr # None
    BY CallRecordIs, ExprIs
  <2>5. chain[i + 1] = c.expr[c.at]
    BY <2>2, <2>3
  <2>6. c.at <= Len(c.expr)
    <3>1. CASE i + 1 = Len(calls)
      BY <1>2, <2>3, <3>1 DEF Items
    <3>2. CASE i + 1 # Len(calls)
      <4>1. i + 1 < Len(calls)
        BY <1>2, <3>2
      <4> QED
        BY <1>1, <2>2, <2>3, <4>1 DEF Called
    <3> QED
      BY <3>1, <3>2
  <2>7. c.at \in 1 .. Len(c.expr)
    BY <2>4, <2>6
  <2>8. c.expr = Behind(x)
    <3>1. calls[i + 1].expr = Behind(calls[i + 1].of)
      BY <1>1, <2>1, <2>2 DEF Called
    <3> QED
      BY <2>1, <2>3, <3>1
  <2>9. Defined[x] = Deferred(c.expr)
    BY <1>1, <2>4, <2>8, BehindDefined
  <2>10. ~Literal(c.expr)
    <3> SUFFICES ASSUME Literal(c.expr)
                 PROVE  FALSE
      OBVIOUS
    <3>1. c.at = 1 /\ c.expr[1] \in Number
      BY <2>4, <2>7 DEF Literal
    <3> QED
      BY <2>2, <2>5, <3>1, ExpressionsAssumption
  <2>11. Defined[x].kind = "deferred" /\ Defined[x].expr = c.expr
    BY <2>4, <2>9, <2>10, DeferredIs
  <2>12. c.expr[c.at] \in Range(c.expr)
    BY <2>4, <2>7 DEF Range, Expr
  <2> QED
    BY <2>2, <2>5, <2>11, <2>12 DEF Refers
<1> HIDE DEF chain
<1>9. \A i \in 1 .. N : i \in 1 .. Len(calls) - 1
  BY <1>2, <1>3
<1> QED
  BY <1>4, <1>7, <1>8, <1>9, ChainCircular

LEMMA DescendStep ==
  ASSUME Cardinality(Name) < MAX_LOOP, IInv, Descend
  PROVE  Maps
<1>1. /\ calls # <<>> /\ Items /\ Item \in Name /\ UNCHANGED <<var, par>>
      /\ Shapes /\ Waiting
  BY DEF Descend, IInv
<1>2. exited = None /\ Keeps
  BY <1>1, SameKeeps DEF Waiting
<1>3. CASE TooDeep
  <2>1. Len(calls) \in Nat /\ Len(calls) >= MAX_LOOP
    BY <1>1, <1>3, CallerIs DEF TooDeep
  <2>2. Cardinality(Name) \in Nat /\ MAX_LOOP \in Nat
    BY ExpressionsAssumption, VariablesAssumption, FS_CardinalityType
  <2>3. Len(calls) > Cardinality(Name)
    BY <2>1, <2>2
  <2>4. Circular(Defined, Name)
    BY <1>1, <2>3, DeepIsCircular
  <2>5. exited' = "circular"
    BY <1>3 DEF Descend
  <2> QED
    BY <1>2, <2>4, <2>5, KeepsDefined, FailMaps DEF Maps
<1>4. CASE ~TooDeep
  <2>1. Going
    BY <1>2, <1>4, VariablesAssumption DEF Descend, Going
  <2> QED
    BY <1>2, <2>1, StepMaps
<1> QED
  BY <1>3, <1>4

LEMMA NextMaps ==
  ASSUME Cardinality(Name) < MAX_LOOP, IInv, Summed, Begun, [Next]_vars
  PROVE  Maps
<1>1. Waiting
  BY DEF IInv
<1>2. ASSUME cmd # None \/ calls # <<>>, exited' = exited
      PROVE  Going
  BY <1>1, <1>2, VariablesAssumption DEF Waiting, Going
<1>3. CASE Statement
  <2>1. ASSUME NEW x \in Name, Read(x)
        PROVE  Maps
    BY <2>1, IdleGoing, SameKeeps, StepMaps DEF Read
  <2>2. ASSUME NEW noexpr \in NoExpr, Save(noexpr)
        PROVE  Maps
    BY <2>2, IdleGoing, SameKeeps, StepMaps DEF Save
  <2> QED
    BY <1>3, <2>1, <2>2, AssignStep, DeferStep, AddExpressionStep, SetVariableStep, InheritStep
       DEF Statement
<1>4. CASE Take
  BY <1>2, <1>4, TakeIs, StepMaps DEF Take
<1>5. CASE Return
  <2>1. calls # <<>>
    BY <1>5, EmptySeq DEF Return
  <2> QED
    BY <1>2, <1>5, <2>1, ReturnIs, StepMaps DEF Return
<1>6. CASE Answer
  BY <1>2, <1>6, OneCall, AnswerIs, StepMaps DEF Answer, Done
<1>7. CASE SaveVariable
  <2>1. cmd # None /\ UNCHANGED <<var, par>> /\ exited' \in {exited, "no expression"}
    BY <1>7 DEF SaveVariable, Saving
  <2>2. Going
    BY <1>1, <2>1, VariablesAssumption DEF Waiting, Going
  <2> QED
    BY <2>1, <2>2, SameKeeps, StepMaps
<1>8. CASE SaveParameter
  BY <1>2, <1>8, SameKeeps, StepMaps DEF SaveParameter, Saving
<1>9. CASE SaveValue
  BY <1>2, <1>9, OneCall, SaveValueIs, StepMaps DEF SaveValue, Done
<1>10. CASE SaveEnd
  BY <1>2, <1>10, SameKeeps, StepMaps DEF SaveEnd, Saving
<1>11. CASE UNCHANGED vars
  <2>1. Defined' = Defined /\ exited' = exited
    BY <1>11, SameKeeps, KeepsDefined DEF vars
  <2> QED
    BY <2>1 DEF Maps
<1> QED
  BY <1>3, <1>4, <1>5, <1>6, <1>7, <1>8, <1>9, <1>10, <1>11,
     DescendStep, AssignedStep, AddedToStep DEF Next, Goes

LEMMA InitMaps ==
  ASSUME Init
  PROVE  Promise!Init
<1>1. ASSUME NEW x \in Name
      PROVE  Defined[x] = Immediate("value", 0)
  <2>1. x \in Parameter => par[x].expr = None /\ par[x].value = 0
    BY DEF Init
  <2>2. x \notin Parameter => var[x] = None
    BY DEF Init, Name
  <2> QED
    BY <2>1, <2>2 DEF Defined
<1>2. Defined = [x \in Promise!Name |-> Promise!Immediate("value", 0)]
  BY <1>1, PromiseIs DEF Defined
<1>3. (exited = "circular") = FALSE
  BY VariablesAssumption DEF Init
<1> QED
  BY <1>2, <1>3 DEF Promise!Init

(***************************************************************************)
(* Variables with types, cached values and statuses behave as definitions  *)
(* that are evaluated whenever they are used, where there are fewer names  *)
(* than polish_value may be called inside of itself: with more it takes    *)
(* any chain that long for a circle.                                       *)
(***************************************************************************)
THEOREM DefinitionsImplemented ==
  ASSUME Cardinality(Name) < MAX_LOOP
  PROVE  Spec => ImplementsDefinitions
<1>1. Init => IInv /\ Summed /\ Begun /\ Promise!Init
  BY InitIs, InitMaps DEF Begun, Init
<1>2. (IInv /\ Summed /\ Begun) /\ [Next]_vars => (IInv /\ Summed /\ Begun)'
  BY NextIs, NextBegun
<1>3. (IInv /\ Summed /\ Begun) /\ [Next]_vars => [Promise!Next]_<<Defined, exited = "circular">>
  BY NextMaps DEF Maps
<1> QED
  BY <1>1, <1>2, <1>3, PTL DEF Spec, ImplementsDefinitions, Promise!Spec
=============================================================================
