------------------------------ MODULE Induction ------------------------------
(***************************************************************************)
(* Induction over the natural numbers, for a set, and what it says of      *)
(* functions that are defined by recursion.                                *)
(***************************************************************************)
EXTENDS Integers, FiniteSets, FiniteSetsExt, WellFoundedInduction, FiniteSetTheorems, TLAPS

(***************************************************************************)
(* A set with 0, and with the successor of every number in it, has all     *)
(* natural numbers.                                                        *)
(***************************************************************************)
LEMMA SetInduction ==
  ASSUME NEW T, 0 \in T, \A n \in Nat : n \in T => n + 1 \in T
  PROVE  Nat \subseteq T
<1> DEFINE R == OpToRel(<, Nat)
           U == Nat \ T
<1>1. IsWellFoundedOn(R, Nat)
  BY NatLessThanWellFounded
<1> SUFFICES ASSUME U # {}
             PROVE  FALSE
  OBVIOUS
<1>2. PICK x \in U : \A y \in U : ~(<<y, x>> \in R)
  <2> HIDE DEF R, U
  <2>1. U \subseteq Nat
    BY DEF U
  <2> QED
    BY <1>1, <2>1, WFMin
<1>3. x \in Nat /\ x # 0 /\ x \notin T
  OBVIOUS
<1>4. x - 1 \in Nat /\ x - 1 < x
  BY <1>3
<1>5. <<x - 1, x>> \in R
  BY <1>3, <1>4 DEF OpToRel
<1>6. x - 1 \in T
  BY <1>2, <1>4, <1>5
<1>7. (x - 1) + 1 \in T
  BY <1>4, <1>6
<1> QED
  BY <1>3, <1>7

(***************************************************************************)
(* A set of natural numbers has a least one.                               *)
(***************************************************************************)
LEMMA LeastNatural ==
  ASSUME NEW F, F \subseteq Nat, F # {}
  PROVE  \E x \in F : \A y \in F : x <= y
<1> DEFINE R == OpToRel(<, Nat)
<1>1. IsWellFoundedOn(R, Nat)
  BY NatLessThanWellFounded
<1>2. PICK x \in F : \A y \in F : ~(<<y, x>> \in R)
  <2> HIDE DEF R
  <2> QED
    BY <1>1, WFMin
<1>3. ASSUME NEW y \in F
      PROVE  x <= y
  <2>1. x \in Nat /\ y \in Nat
    OBVIOUS
  <2>2. y < x => <<y, x>> \in R
    BY <2>1 DEF OpToRel
  <2> HIDE DEF R
  <2>3. ~(y < x)
    BY <1>2, <2>2
  <2> QED
    BY <2>1, <2>3
<1> QED
  BY <1>3

(***************************************************************************)
(* The first values of a recursion from a on, up to the n-th.              *)
(***************************************************************************)
Steps(S, a, step, n, h) ==
  /\ h \in [0 .. n -> S]
  /\ h[0] = a
  /\ \A k \in 0 .. n - 1 : h[k + 1] = step[k + 1][h[k]]

LEMMA StepsExist ==
  ASSUME NEW S, NEW a \in S, NEW step \in [Nat -> [S -> S]]
  PROVE  \A n \in Nat : \E h : Steps(S, a, step, n, h)
<1> DEFINE T == {n \in Nat : \E h : Steps(S, a, step, n, h)}
<1>1. 0 \in T
  <2>1. Steps(S, a, step, 0, [k \in 0 .. 0 |-> a])
    BY DEF Steps
  <2> QED
    BY <2>1
<1>2. ASSUME NEW n \in Nat, n \in T
      PROVE  n + 1 \in T
  <2>1. PICK h : Steps(S, a, step, n, h)
    BY <1>2
  <2> DEFINE g == [k \in 0 .. n + 1 |-> IF k <= n THEN h[k] ELSE step[n + 1][h[n]]]
  <2>2. /\ h \in [0 .. n -> S] /\ h[0] = a /\ n \in 0 .. n /\ step[n + 1] \in [S -> S]
        /\ \A k \in 0 .. n - 1 : h[k + 1] = step[k + 1][h[k]]
    BY <2>1 DEF Steps
  <2>3. h[n] \in S /\ step[n + 1][h[n]] \in S
    BY <2>2
  <2>4. g \in [0 .. n + 1 -> S]
    BY <2>2, <2>3
  <2>5. g[0] = a
    BY <2>2
  <2>6. ASSUME NEW k \in 0 .. (n + 1) - 1
        PROVE  g[k + 1] = step[k + 1][g[k]]
    <3>1. CASE k = n
      <4>1. g[n] = h[n] /\ g[n + 1] = step[n + 1][h[n]]
        OBVIOUS
      <4> QED
        BY <3>1, <4>1
    <3>2. CASE k # n
      <4>1. k \in 0 .. n - 1 /\ k \in 0 .. n + 1 /\ k + 1 \in 0 .. n + 1 /\ k + 1 <= n /\ k <= n
        BY <3>2
      <4>2. g[k] = h[k] /\ g[k + 1] = h[k + 1]
        BY <4>1
      <4> QED
        BY <2>2, <4>1, <4>2
    <3> QED
      BY <3>1, <3>2
  <2>7. Steps(S, a, step, n + 1, g)
    BY <2>4, <2>5, <2>6 DEF Steps
  <2> HIDE DEF g
  <2> QED
    BY <2>7
<1> HIDE DEF T
<1>3. Nat \subseteq T
  BY <1>1, <1>2, SetInduction
<1> QED
  BY <1>3 DEF T

LEMMA StepsAgree ==
  ASSUME NEW S, NEW a, NEW step, NEW n \in Nat, NEW m \in Nat, n <= m,
         NEW h, NEW g, Steps(S, a, step, n, h), Steps(S, a, step, m, g)
  PROVE  h[n] = g[n]
<1> DEFINE T == {k \in Nat : k <= n => h[k] = g[k]}
<1>1. 0 \in T
  BY DEF Steps
<1>2. ASSUME NEW k \in Nat, k \in T
      PROVE  k + 1 \in T
  <2> SUFFICES ASSUME k + 1 <= n
               PROVE  h[k + 1] = g[k + 1]
    OBVIOUS
  <2>1. k \in 0 .. n - 1 /\ k \in 0 .. m - 1 /\ h[k] = g[k]
    BY <1>2
  <2>2. h[k + 1] = step[k + 1][h[k]] /\ g[k + 1] = step[k + 1][g[k]]
    BY <2>1 DEF Steps
  <2> QED
    BY <2>1, <2>2
<1>3. Nat \subseteq T
  <2> HIDE DEF T
  <2> QED
    BY <1>1, <1>2, SetInduction
<1> QED
  BY <1>3

(***************************************************************************)
(* There is a function that goes from one value to the next as step says.  *)
(***************************************************************************)
Iterates(g, S, a, step) ==
  g \in [Nat -> S] /\ g[0] = a /\ \A n \in Nat : g[n + 1] = step[n + 1][g[n]]

LEMMA Iteration ==
  ASSUME NEW S, NEW a \in S, NEW step \in [Nat -> [S -> S]]
  PROVE  \E g : Iterates(g, S, a, step)
<1> DEFINE H(n) == CHOOSE h : Steps(S, a, step, n, h)
           G == [n \in Nat |-> H(n)[n]]
<1>1. \A n \in Nat : Steps(S, a, step, n, H(n))
  BY StepsExist
<1> HIDE DEF H
<1>2. \A n \in Nat : H(n)[n] \in S
  BY <1>1 DEF Steps
<1>3. G \in [Nat -> S]
  BY <1>2
<1>4. G[0] = a
  BY <1>1 DEF Steps
<1>5. ASSUME NEW n \in Nat
      PROVE  G[n + 1] = step[n + 1][G[n]]
  <2>1. n + 1 \in Nat /\ n <= n + 1 /\ n \in 0 .. (n + 1) - 1
    OBVIOUS
  <2>2. H(n + 1)[n + 1] = step[n + 1][H(n + 1)[n]]
    BY <1>1, <2>1 DEF Steps
  <2>3. H(n)[n] = H(n + 1)[n]
    BY <1>1, <2>1, StepsAgree
  <2>4. G[n + 1] = H(n + 1)[n + 1] /\ G[n] = H(n)[n]
    BY <2>1
  <2> QED
    BY <2>2, <2>3, <2>4
<1> HIDE DEF G
<1>6. Iterates(G, S, a, step)
  BY <1>3, <1>4, <1>5 DEF Iterates
<1> QED
  BY <1>6

-----------------------------------------------------------------------------
(* Finite sets.                                                            *)

(***************************************************************************)
(* A family with the empty set, and with each set that has one element     *)
(* more than one of its sets, has the whole of a finite set.               *)
(***************************************************************************)
LEMMA FiniteInduction ==
  ASSUME NEW S, IsFiniteSet(S), NEW U, {} \in U,
         \A T \in SUBSET S, x \in S : T \in U /\ x \notin T => T \union {x} \in U
  PROVE  S \in U
<1> DEFINE W == {k \in Nat : \A T \in SUBSET S : Cardinality(T) = k => T \in U}
<1>1. \A T \in SUBSET S : IsFiniteSet(T) /\ Cardinality(T) \in Nat
  BY FS_Subset, FS_CardinalityType
<1>2. 0 \in W
  BY <1>1, FS_EmptySet
<1>3. ASSUME NEW k \in Nat, k \in W
      PROVE  k + 1 \in W
  <2> SUFFICES ASSUME NEW T \in SUBSET S, Cardinality(T) = k + 1
               PROVE  T \in U
    OBVIOUS
  <2>1. T # {}
    BY <1>1, FS_EmptySet
  <2>2. PICK x \in T : TRUE
    BY <2>1
  <2>3. Cardinality(T \ {x}) = k
    <3>1. IsFiniteSet(T)
      BY <1>1
    <3>2. Cardinality(T \ {x}) = Cardinality(T) - 1
      BY <2>2, <3>1, FS_RemoveElement
    <3> QED
      BY <3>2
  <2>4. T \ {x} \in U
    BY <1>3, <2>3
  <2>5. (T \ {x}) \union {x} = T
    BY <2>2
  <2> QED
    BY <2>4, <2>5
<1>4. Nat \subseteq W
  <2> HIDE DEF W
  <2> QED
    BY <1>2, <1>3, SetInduction
<1> QED
  BY <1>1, <1>4

(***************************************************************************)
(* What the folds of the community modules compute: one element after the  *)
(* other is taken out of a set.                                            *)
(***************************************************************************)
FoldBody(S, base, pick, op, f) ==
  [T \in SUBSET S |-> IF T = {} THEN base ELSE op[pick[T]][f[T \ {pick[T]}]]]

IsFold(f, S, V, base, pick, op) == f \in [SUBSET S -> V] /\ f = FoldBody(S, base, pick, op, f)

LEMMA FoldExists ==
  ASSUME NEW S, IsFiniteSet(S), NEW V, NEW base \in V, NEW pick,
         \A T \in SUBSET S : T # {} => pick[T] \in T, NEW op \in [S -> [V -> V]]
  PROVE  \E f : IsFold(f, S, V, base, pick, op)
<1> DEFINE F == [SUBSET S -> V]
           start == [T \in SUBSET S |-> base]
           step == [k \in Nat |-> [f \in F |-> FoldBody(S, base, pick, op, f)]]
<1>1. \A T \in SUBSET S : IsFiniteSet(T) /\ Cardinality(T) \in Nat
  BY FS_Subset, FS_CardinalityType
<1>2. \A f \in F : FoldBody(S, base, pick, op, f) \in F
  <2> SUFFICES ASSUME NEW f \in F, NEW T \in SUBSET S, T # {}
               PROVE  op[pick[T]][f[T \ {pick[T]}]] \in V
    BY DEF FoldBody
  <2>1. pick[T] \in S /\ T \ {pick[T]} \in SUBSET S
    OBVIOUS
  <2> QED
    BY <2>1
<1>3. PICK g : Iterates(g, F, start, step)
  <2>1. start \in F /\ step \in [Nat -> [F -> F]]
    BY <1>2
  <2> HIDE DEF F, start, step
  <2> QED
    BY <2>1, Iteration
<1>4. g \in [Nat -> F] /\ \A k \in Nat : g[k + 1] = FoldBody(S, base, pick, op, g[k])
  <2>1. g \in [Nat -> F] /\ \A k \in Nat : g[k + 1] = step[k + 1][g[k]]
    BY <1>3 DEF Iterates
  <2>2. ASSUME NEW k \in Nat
        PROVE  g[k + 1] = FoldBody(S, base, pick, op, g[k])
    <3>1. k + 1 \in Nat /\ g[k] \in F
      <4> HIDE DEF step, F
      <4> QED
        BY <2>1
    <3>2. step[k + 1][g[k]] = FoldBody(S, base, pick, op, g[k])
      BY <3>1
    <3> HIDE DEF step, F
    <3> QED
      BY <2>1, <3>2
  <2> QED
    BY <2>1, <2>2
<1> HIDE DEF step, start
<1> DEFINE W == {k \in Nat : \A T \in SUBSET S : Cardinality(T) <= k => g[k + 2][T] = g[k + 1][T]}
<1>5. 0 \in W
  <2>1. \A T \in SUBSET S : Cardinality(T) <= 0 => T = {}
    BY <1>1, FS_EmptySet
  <2>2. \A k \in Nat : g[k + 1][{}] = base
    BY <1>4 DEF FoldBody
  <2>3. g[0 + 2][{}] = base /\ g[0 + 1][{}] = base
    BY <2>2
  <2> QED
    BY <2>1, <2>3
<1>6. ASSUME NEW k \in Nat, k \in W
      PROVE  k + 1 \in W
  <2> SUFFICES ASSUME NEW T \in SUBSET S, Cardinality(T) <= k + 1
               PROVE  g[(k + 1) + 2][T] = g[(k + 1) + 1][T]
    OBVIOUS
  <2>1. g[(k + 1) + 2] = FoldBody(S, base, pick, op, g[k + 2])
        /\ g[(k + 1) + 1] = FoldBody(S, base, pick, op, g[k + 1])
    BY <1>4
  <2>1a. \A f : FoldBody(S, base, pick, op, f)[T]
                  = IF T = {} THEN base ELSE op[pick[T]][f[T \ {pick[T]}]]
    BY DEF FoldBody
  <2>2. CASE T = {}
    BY <2>1, <2>1a, <2>2
  <2>3. CASE T # {}
    <3>1. pick[T] \in T /\ T \ {pick[T]} \in SUBSET S
      BY <2>3
    <3>2. Cardinality(T \ {pick[T]}) <= k
      BY <1>1, <3>1, FS_RemoveElement
    <3>3. g[k + 2][T \ {pick[T]}] = g[k + 1][T \ {pick[T]}]
      BY <1>6, <3>1, <3>2
    <3>4. /\ g[(k + 1) + 2][T] = op[pick[T]][g[k + 2][T \ {pick[T]}]]
          /\ g[(k + 1) + 1][T] = op[pick[T]][g[k + 1][T \ {pick[T]}]]
      BY ONLY <2>1, <2>1a, <2>3
    <3> QED
      BY ONLY <3>3, <3>4
  <2> QED
    BY <2>2, <2>3
<1>7. Nat \subseteq W
  <2> HIDE DEF W
  <2> QED
    BY <1>5, <1>6, SetInduction
<1> DEFINE n == Cardinality(S)
<1>8. n \in Nat /\ n + 1 \in Nat /\ (n + 1) + 1 = n + 2 /\ \A T \in SUBSET S : Cardinality(T) <= n
  BY FS_Subset, FS_CardinalityType
<1>9. g[n + 1] \in F /\ g[n + 2] \in F /\ g[n + 2] = FoldBody(S, base, pick, op, g[n + 1])
  <2>1. g[(n + 1) + 1] = FoldBody(S, base, pick, op, g[n + 1])
    BY <1>4, <1>8
  <2>2. g[n + 1] \in F /\ g[n + 2] \in F
    <3> HIDE DEF F, n
    <3> QED
      BY <1>4, <1>8
  <2> QED
    BY ONLY <1>8, <2>1, <2>2
<1>10. \A T \in SUBSET S : g[n + 2][T] = g[n + 1][T]
  BY <1>7, <1>8
<1>11. g[n + 2] = g[n + 1]
  BY <1>9, <1>10
<1> QED
  BY <1>9, <1>11 DEF IsFold

-----------------------------------------------------------------------------
(* Sums.                                                                   *)

(***************************************************************************)
(* MapThenSumSet of FiniteSetsExt, for a function.                         *)
(***************************************************************************)
OneOf(T) == CHOOSE x \in T : TRUE

SumOver(f, S) ==
  LET sum[T \in SUBSET S] == IF T = {} THEN 0 ELSE f[OneOf(T)] + sum[T \ {OneOf(T)}]
  IN  sum[S]

(***************************************************************************)
(* One function gives the sums over all subsets.                           *)
(***************************************************************************)
IsSums(sum, S, f) ==
  /\ sum \in [SUBSET S -> Int]
  /\ \A T \in SUBSET S : sum[T] = IF T = {} THEN 0 ELSE f[OneOf(T)] + sum[T \ {OneOf(T)}]

LEMMA SumsExist ==
  ASSUME NEW S, IsFiniteSet(S), NEW f, \A x \in S : f[x] \in Int
  PROVE  \E sum : IsSums(sum, S, f)
<1> DEFINE pick == [T \in SUBSET S |-> OneOf(T)]
           op == [x \in S |-> [i \in Int |-> f[x] + i]]
<1>1. \A T \in SUBSET S : T # {} => OneOf(T) \in T
  BY DEF OneOf
<1>2. \A T \in SUBSET S : T # {} => pick[T] \in T
  BY <1>1
<1>3. op \in [S -> [Int -> Int]] /\ 0 \in Int
  OBVIOUS
<1> HIDE DEF pick, op
<1>4. PICK sum : IsFold(sum, S, Int, 0, pick, op)
  BY <1>2, <1>3, FoldExists
<1>5. sum \in [SUBSET S -> Int] /\ sum = FoldBody(S, 0, pick, op, sum)
  BY <1>4 DEF IsFold
<1>6. ASSUME NEW T \in SUBSET S
      PROVE  sum[T] = IF T = {} THEN 0 ELSE f[OneOf(T)] + sum[T \ {OneOf(T)}]
  <2>1. sum[T] = IF T = {} THEN 0 ELSE op[pick[T]][sum[T \ {pick[T]}]]
    <3>1. FoldBody(S, 0, pick, op, sum)[T] = IF T = {} THEN 0 ELSE op[pick[T]][sum[T \ {pick[T]}]]
      BY DEF FoldBody
    <3> QED
      BY <1>5, <3>1
  <2>2. pick[T] = OneOf(T)
    BY DEF pick
  <2>3. ASSUME T # {}
        PROVE  op[OneOf(T)][sum[T \ {OneOf(T)}]] = f[OneOf(T)] + sum[T \ {OneOf(T)}]
    <3>1. OneOf(T) \in S /\ T \ {OneOf(T)} \in SUBSET S
      BY <1>1, <2>3
    <3>2. sum[T \ {OneOf(T)}] \in Int
      BY <1>5, <3>1
    <3> QED
      BY <3>1, <3>2 DEF op
  <2> QED
    BY <2>1, <2>2, <2>3
<1> QED
  BY <1>5, <1>6 DEF IsSums

LEMMA SumOverSubset ==
  ASSUME NEW S, IsFiniteSet(S), NEW f, NEW sum, IsSums(sum, S, f), NEW T \in SUBSET S
  PROVE  sum[T] = SumOver(f, T)
<1>2. \A R \in SUBSET S : sum[R] = IF R = {} THEN 0 ELSE f[OneOf(R)] + sum[R \ {OneOf(R)}]
  BY DEF IsSums
<1>3. sum[T] = SumOver(f, T)
  <2> DEFINE Body(g) == [R \in SUBSET T |-> IF R = {} THEN 0 ELSE f[OneOf(R)] + g[R \ {OneOf(R)}]]
             h == [R \in SUBSET T |-> sum[R]]
             c == CHOOSE g : g = Body(g)
  <2>1. \A R \in SUBSET T : R # {} => OneOf(R) \in R
    BY DEF OneOf
  <2>2. h = Body(h)
    <3>1. ASSUME NEW R \in SUBSET T
          PROVE  h[R] = IF R = {} THEN 0 ELSE f[OneOf(R)] + h[R \ {OneOf(R)}]
      <4>1. R \in SUBSET S /\ R \ {OneOf(R)} \in SUBSET T
        OBVIOUS
      <4> QED
        BY <1>2, <4>1
    <3>2. h = [R \in SUBSET T |-> h[R]]
      OBVIOUS
    <3> HIDE DEF h
    <3> QED
      BY <3>1, <3>2
  <2>3. c = Body(c)
    <3> HIDE DEF Body, h
    <3> QED
      BY <2>2
  <2>4. SumOver(f, T) = c[T]
    BY DEF SumOver
  <2> HIDE DEF c
  <2>5. \A R \in SUBSET T : c[R] = IF R = {} THEN 0 ELSE f[OneOf(R)] + c[R \ {OneOf(R)}]
    BY <2>3
  <2>6. \A R \in SUBSET T : sum[R] = IF R = {} THEN 0 ELSE f[OneOf(R)] + sum[R \ {OneOf(R)}]
    BY <1>2
  <2> DEFINE W == {k \in Nat : \A R \in SUBSET T : Cardinality(R) <= k => c[R] = sum[R]}
  <2>7. \A R \in SUBSET T : IsFiniteSet(R) /\ Cardinality(R) \in Nat
    BY FS_Subset, FS_CardinalityType
  <2>8. 0 \in W
    <3>1. \A R \in SUBSET T : Cardinality(R) <= 0 => R = {}
      BY <2>7, FS_EmptySet
    <3> QED
      BY <2>5, <2>6, <3>1
  <2>9. ASSUME NEW k \in Nat, k \in W
        PROVE  k + 1 \in W
    <3> SUFFICES ASSUME NEW R \in SUBSET T, Cardinality(R) <= k + 1
                 PROVE  c[R] = sum[R]
      OBVIOUS
    <3>1. CASE R = {}
      BY <2>5, <2>6, <3>1
    <3>2. CASE R # {}
      <4>1. OneOf(R) \in R /\ R \ {OneOf(R)} \in SUBSET T /\ IsFiniteSet(R) /\ Cardinality(R) \in Nat
        BY <2>1, <2>7, <3>2
      <4>2. Cardinality(R \ {OneOf(R)}) = Cardinality(R) - 1
        BY <4>1, FS_RemoveElement
      <4>3. c[R \ {OneOf(R)}] = sum[R \ {OneOf(R)}]
        BY <2>9, <4>1, <4>2
      <4> QED
        BY <2>5, <2>6, <3>2, <4>3
    <3> QED
      BY <3>1, <3>2
  <2>10. Nat \subseteq W
    <3> HIDE DEF W
    <3> QED
      BY <2>8, <2>9, SetInduction
  <2>11. c[T] = sum[T]
    BY <2>7, <2>10
  <2> QED
    BY <2>4, <2>11
<1> QED
  BY <1>3

Summable(f, S) == IsFiniteSet(S) /\ \A x \in S : f[x] \in Int

LEMMA SumParts ==
  ASSUME NEW S, NEW f, Summable(f, S)
  PROVE  \A T \in SUBSET S : Summable(f, T) /\ SumOver(f, T) \in Int
<1>1. PICK sum : IsSums(sum, S, f)
  <2>1. IsFiniteSet(S) /\ \A x \in S : f[x] \in Int
    BY DEF Summable
  <2> QED
    BY <2>1, SumsExist
<1>2. ASSUME NEW T \in SUBSET S
      PROVE  Summable(f, T) /\ SumOver(f, T) \in Int
  <2>1. sum[T] = SumOver(f, T)
    BY <1>1, SumOverSubset DEF Summable
  <2>2. sum[T] \in Int
    BY <1>1 DEF IsSums
  <2>3. Summable(f, T)
    BY FS_Subset DEF Summable
  <2> QED
    BY <2>1, <2>2, <2>3
<1> QED
  BY <1>2

LEMMA SumEmpty ==
  ASSUME NEW f
  PROVE  SumOver(f, {}) = 0
<1>1. IsFiniteSet({}) /\ \A x \in {} : f[x] \in Int
  BY FS_EmptySet
<1>2. PICK sum : IsSums(sum, {}, f)
  BY <1>1, SumsExist
<1>3. {} \in SUBSET {}
  OBVIOUS
<1>4. sum[{}] = SumOver(f, {})
  BY <1>1, <1>2, <1>3, SumOverSubset
<1>5. sum[{}] = 0
  BY <1>2, <1>3 DEF IsSums
<1> QED
  BY <1>4, <1>5

(***************************************************************************)
(* The order in which elements are taken out makes no difference.          *)
(***************************************************************************)
LEMMA SumTake ==
  ASSUME NEW S, NEW f, Summable(f, S), NEW a \in S
  PROVE  SumOver(f, S) = f[a] + SumOver(f, S \ {a})
<1>0. IsFiniteSet(S) /\ \A x \in S : f[x] \in Int
  BY DEF Summable
<1>1. PICK sum : IsSums(sum, S, f)
  BY <1>0, SumsExist
<1>2. /\ sum \in [SUBSET S -> Int]
      /\ \A T \in SUBSET S : sum[T] = IF T = {} THEN 0 ELSE f[OneOf(T)] + sum[T \ {OneOf(T)}]
  BY <1>1 DEF IsSums
<1>3. \A T \in SUBSET S : T # {} => OneOf(T) \in T
  BY DEF OneOf
<1>4. \A T \in SUBSET S : IsFiniteSet(T) /\ Cardinality(T) \in Nat
  BY <1>0, FS_Subset, FS_CardinalityType
<1> DEFINE W == {k \in Nat : \A T \in SUBSET S : Cardinality(T) <= k =>
                               \A x \in T : sum[T] = f[x] + sum[T \ {x}]}
<1>5. 0 \in W
  <2>1. \A T \in SUBSET S : Cardinality(T) <= 0 => T = {}
    BY <1>4, FS_EmptySet
  <2> QED
    BY <2>1
<1>6. ASSUME NEW k \in Nat, k \in W
      PROVE  k + 1 \in W
  <2> SUFFICES ASSUME NEW T \in SUBSET S, Cardinality(T) <= k + 1, NEW x \in T
               PROVE  sum[T] = f[x] + sum[T \ {x}]
    OBVIOUS
  <2>1. PICK c : c = OneOf(T)
    OBVIOUS
  <2>2. c \in T /\ sum[T] = f[c] + sum[T \ {c}]
    BY <1>2, <1>3, <2>1
  <2>3. CASE c = x
    BY <2>2, <2>3
  <2>4. CASE c # x
    <3>1. T \ {c} \in SUBSET S /\ T \ {x} \in SUBSET S /\ x \in T \ {c} /\ c \in T \ {x}
      BY <2>2, <2>4
    <3>2. Cardinality(T \ {c}) <= k /\ Cardinality(T \ {x}) <= k
      <4>1. IsFiniteSet(T) /\ Cardinality(T) \in Nat
        BY <1>4
      <4>2. Cardinality(T \ {c}) = Cardinality(T) - 1
        BY <2>2, <4>1, FS_RemoveElement
      <4>3. Cardinality(T \ {x}) = Cardinality(T) - 1
        BY <4>1, FS_RemoveElement
      <4> QED
        BY <4>1, <4>2, <4>3
    <3>3. sum[T \ {c}] = f[x] + sum[(T \ {c}) \ {x}]
      BY <1>6, <3>1, <3>2
    <3>4. sum[T \ {x}] = f[c] + sum[(T \ {x}) \ {c}]
      BY <1>6, <3>1, <3>2
    <3>5. (T \ {x}) \ {c} = (T \ {c}) \ {x} /\ (T \ {c}) \ {x} \in SUBSET S
      OBVIOUS
    <3>6. f[x] \in Int /\ f[c] \in Int /\ sum[(T \ {c}) \ {x}] \in Int
      BY <1>0, <1>2, <2>2, <3>5
    <3>7. sum[T \ {x}] = f[c] + sum[(T \ {c}) \ {x}]
      BY <3>4, <3>5
    <3> QED
      BY ONLY <2>2, <3>3, <3>6, <3>7
  <2> QED
    BY <2>3, <2>4
<1>7. Nat \subseteq W
  <2> HIDE DEF W
  <2> QED
    BY <1>5, <1>6, SetInduction
<1>8. S \in SUBSET S /\ S \ {a} \in SUBSET S
  OBVIOUS
<1>9. sum[S] = f[a] + sum[S \ {a}]
  <2>1. Cardinality(S) \in Nat /\ Cardinality(S) <= Cardinality(S)
    BY <1>4, <1>8
  <2> QED
    BY <1>7, <1>8, <2>1
<1>10. sum[S] = SumOver(f, S) /\ sum[S \ {a}] = SumOver(f, S \ {a})
  BY <1>0, <1>1, <1>8, SumOverSubset
<1> QED
  BY <1>9, <1>10

LEMMA SumAdd ==
  ASSUME NEW S, NEW f, Summable(f, S), NEW T \in SUBSET S, NEW x \in S, x \notin T
  PROVE  SumOver(f, T \union {x}) = f[x] + SumOver(f, T)
<1>1. T \union {x} \in SUBSET S /\ (T \union {x}) \ {x} = T /\ x \in T \union {x}
  OBVIOUS
<1>2. Summable(f, T \union {x})
  BY <1>1, SumParts
<1> QED
  BY <1>1, <1>2, SumTake

(***************************************************************************)
(* Functions that agree have the same sum; the sum of two is the sum of    *)
(* their sums; elements for which a function is 0 do not count.            *)
(***************************************************************************)
LEMMA SumPlus ==
  ASSUME NEW S, NEW f, NEW g, NEW h, Summable(f, S), Summable(g, S), Summable(h, S),
         \A x \in S : h[x] = f[x] + g[x]
  PROVE  SumOver(h, S) = SumOver(f, S) + SumOver(g, S)
<1> DEFINE U == {T \in SUBSET S : SumOver(h, T) = SumOver(f, T) + SumOver(g, T)}
<1>1. {} \in U
  BY SumEmpty
<1>2. ASSUME NEW T \in SUBSET S, NEW x \in S, T \in U, x \notin T
      PROVE  T \union {x} \in U
  <2>1. /\ SumOver(h, T \union {x}) = h[x] + SumOver(h, T)
        /\ SumOver(f, T \union {x}) = f[x] + SumOver(f, T)
        /\ SumOver(g, T \union {x}) = g[x] + SumOver(g, T)
    BY <1>2, SumAdd
  <2>2. f[x] \in Int /\ g[x] \in Int /\ SumOver(f, T) \in Int /\ SumOver(g, T) \in Int
    BY SumParts DEF Summable
  <2>3. SumOver(h, T) = SumOver(f, T) + SumOver(g, T) /\ h[x] = f[x] + g[x]
    BY <1>2
  <2>4. SumOver(h, T \union {x}) = SumOver(f, T \union {x}) + SumOver(g, T \union {x})
    BY <2>1, <2>2, <2>3
  <2> QED
    BY <2>4
<1>3. S \in U
  <2>1. IsFiniteSet(S)
    BY DEF Summable
  <2> HIDE DEF U
  <2> QED
    BY <1>1, <1>2, <2>1, FiniteInduction
<1> QED
  BY <1>3

LEMMA SumZeros ==
  ASSUME NEW S, NEW f, Summable(f, S), NEW A \in SUBSET S, \A x \in S \ A : f[x] = 0
  PROVE  SumOver(f, S) = SumOver(f, A)
<1> DEFINE U == {T \in SUBSET S : SumOver(f, T) = SumOver(f, T \intersect A)}
<1>1. {} \in U
  <2>1. {} \intersect A = {}
    OBVIOUS
  <2> QED
    BY <2>1
<1>2. ASSUME NEW T \in SUBSET S, NEW x \in S, T \in U, x \notin T
      PROVE  T \union {x} \in U
  <2>1. SumOver(f, T \union {x}) = f[x] + SumOver(f, T) /\ f[x] \in Int
    BY <1>2, SumAdd DEF Summable
  <2>2. SumOver(f, T) = SumOver(f, T \intersect A) /\ SumOver(f, T) \in Int
    BY <1>2, SumParts
  <2>3. CASE x \in A
    <3>1. (T \union {x}) \intersect A = (T \intersect A) \union {x}
          /\ T \intersect A \in SUBSET S /\ x \notin T \intersect A
      BY <1>2, <2>3
    <3>2. SumOver(f, (T \intersect A) \union {x}) = f[x] + SumOver(f, T \intersect A)
      BY <3>1, SumAdd
    <3> QED
      BY <2>1, <2>2, <3>1, <3>2
  <2>4. CASE x \notin A
    <3>1. (T \union {x}) \intersect A = T \intersect A /\ f[x] = 0
      BY <2>4
    <3>2. SumOver(f, (T \union {x}) \intersect A) = SumOver(f, T \intersect A)
      BY <3>1
    <3>3. SumOver(f, T \union {x}) = SumOver(f, (T \union {x}) \intersect A)
      BY ONLY <2>1, <2>2, <3>1, <3>2
    <3> QED
      BY <3>3
  <2> QED
    BY <2>3, <2>4
<1>3. S \in U
  <2>1. IsFiniteSet(S)
    BY DEF Summable
  <2> HIDE DEF U
  <2> QED
    BY <1>1, <1>2, <2>1, FiniteInduction
<1>4. S \intersect A = A
  OBVIOUS
<1> QED
  BY <1>3, <1>4

LEMMA SumSame ==
  ASSUME NEW S, NEW f, NEW g, Summable(f, S), \A x \in S : g[x] = f[x]
  PROVE  SumOver(g, S) = SumOver(f, S)
<1> DEFINE zero == [x \in S |-> 0]
<1>1. Summable(g, S) /\ Summable(zero, S) /\ \A x \in S : g[x] = f[x] + zero[x]
  BY DEF Summable
<1>2. SumOver(zero, S) = SumOver(zero, {})
  <2>1. {} \in SUBSET S /\ \A x \in S \ {} : zero[x] = 0
    OBVIOUS
  <2> HIDE DEF zero
  <2> QED
    BY <1>1, <2>1, SumZeros
<1>3. SumOver(zero, S) = 0
  BY <1>2, SumEmpty
<1>4. SumOver(g, S) = SumOver(f, S) + SumOver(zero, S)
  <2> HIDE DEF zero
  <2> QED
    BY <1>1, SumPlus
<1>5. SumOver(f, S) \in Int
  BY SumParts
<1> QED
  BY <1>3, <1>4, <1>5

(***************************************************************************)
(* A function that changes on a part changes its sum by what the changes   *)
(* add up to.                                                              *)
(***************************************************************************)
LEMMA SumChange ==
  ASSUME NEW S, NEW f, NEW g, Summable(f, S), Summable(g, S), NEW A \in SUBSET S, NEW d,
         \A x \in S \ A : g[x] = f[x], \A x \in A : d[x] = g[x] - f[x]
  PROVE  SumOver(g, S) = SumOver(f, S) + SumOver(d, A) /\ SumOver(d, A) \in Int
<1> DEFINE e == [x \in S |-> g[x] - f[x]]
<1>1. Summable(e, S) /\ \A x \in S : g[x] = f[x] + e[x]
  BY DEF Summable
<1>2. \A x \in S \ A : e[x] = 0
  BY DEF Summable
<1>3. \A x \in A : d[x] = e[x]
  OBVIOUS
<1> HIDE DEF e
<1>4. SumOver(g, S) = SumOver(f, S) + SumOver(e, S)
  BY <1>1, SumPlus
<1>5. SumOver(e, S) = SumOver(e, A)
  BY <1>1, <1>2, SumZeros
<1>6. Summable(e, A) /\ SumOver(e, A) \in Int
  BY <1>1, SumParts
<1>7. SumOver(d, A) = SumOver(e, A)
  BY <1>3, <1>6, SumSame
<1> QED
  BY <1>4, <1>5, <1>6, <1>7

LEMMA SumGrows ==
  ASSUME NEW S, NEW f, Summable(f, S), \A x \in S : f[x] >= 0, NEW A \in SUBSET S
  PROVE  SumOver(f, A) <= SumOver(f, S)
<1> DEFINE U == {T \in SUBSET S : SumOver(f, T \intersect A) <= SumOver(f, T)}
<1>1. {} \in U
  <2>1. {} \intersect A = {} /\ SumOver(f, {}) = 0
    BY SumEmpty
  <2> QED
    BY <2>1
<1>2. ASSUME NEW T \in SUBSET S, NEW x \in S, T \in U, x \notin T
      PROVE  T \union {x} \in U
  <2>1. SumOver(f, T \union {x}) = f[x] + SumOver(f, T) /\ f[x] \in Int /\ f[x] >= 0
    BY <1>2, SumAdd DEF Summable
  <2>2. SumOver(f, T \intersect A) <= SumOver(f, T) /\ SumOver(f, T) \in Int
        /\ SumOver(f, T \intersect A) \in Int
    BY <1>2, SumParts
  <2>3. CASE x \in A
    <3>1. (T \union {x}) \intersect A = (T \intersect A) \union {x}
          /\ T \intersect A \in SUBSET S /\ x \notin T \intersect A
      BY <1>2, <2>3
    <3>2. SumOver(f, (T \intersect A) \union {x}) = f[x] + SumOver(f, T \intersect A)
      BY <3>1, SumAdd
    <3>3. SumOver(f, (T \union {x}) \intersect A) = f[x] + SumOver(f, T \intersect A)
      BY <3>1, <3>2
    <3>4. SumOver(f, (T \union {x}) \intersect A) <= SumOver(f, T \union {x})
      BY ONLY <2>1, <2>2, <3>3
    <3> QED
      BY <3>4
  <2>4. CASE x \notin A
    <3>1. (T \union {x}) \intersect A = T \intersect A
      BY <2>4
    <3>2. SumOver(f, (T \union {x}) \intersect A) = SumOver(f, T \intersect A)
      BY <3>1
    <3>3. SumOver(f, (T \union {x}) \intersect A) <= SumOver(f, T \union {x})
      BY ONLY <2>1, <2>2, <3>2
    <3> QED
      BY <3>3
  <2> QED
    BY <2>3, <2>4
<1>3. S \in U
  <2>1. IsFiniteSet(S)
    BY DEF Summable
  <2> HIDE DEF U
  <2> QED
    BY <1>1, <1>2, <2>1, FiniteInduction
<1>4. S \intersect A = A
  OBVIOUS
<1> QED
  BY <1>3, <1>4

(***************************************************************************)
(* Sums over the places of a sequence, and sums that count.                *)
(***************************************************************************)
LEMMA PlacesFinite ==
  ASSUME NEW n \in Nat
  PROVE  IsFiniteSet(1 .. n) /\ Cardinality(1 .. n) = n
<1>1. 1 \in Int /\ n \in Int
  OBVIOUS
<1>2. IsFiniteSet(1 .. n) /\ Cardinality(1 .. n) = IF 1 > n THEN 0 ELSE n - 1 + 1
  BY <1>1, FS_Interval
<1> QED
  BY <1>2

LEMMA SumFirst ==
  ASSUME NEW n \in Nat, NEW f, \A i \in 1 .. n : f[i] \in Int
  PROVE  /\ Summable(f, 1 .. n) /\ SumOver(f, 1 .. 0) = 0
         /\ \A k \in 0 .. n : SumOver(f, 1 .. k) \in Int
         /\ \A k \in 0 .. n - 1 : SumOver(f, 1 .. k + 1) = SumOver(f, 1 .. k) + f[k + 1]
<1>1. Summable(f, 1 .. n)
  BY PlacesFinite DEF Summable
<1>2. SumOver(f, 1 .. 0) = 0
  <2>1. 1 .. 0 = {}
    OBVIOUS
  <2> QED
    BY <2>1, SumEmpty
<1>3. ASSUME NEW k \in 0 .. n
      PROVE  Summable(f, 1 .. k) /\ SumOver(f, 1 .. k) \in Int
  <2>1. 1 .. k \in SUBSET (1 .. n)
    OBVIOUS
  <2> QED
    BY <1>1, <2>1, SumParts
<1>4. ASSUME NEW k \in 0 .. n - 1
      PROVE  SumOver(f, 1 .. k + 1) = SumOver(f, 1 .. k) + f[k + 1]
  <2>1. k + 1 \in 1 .. k + 1 /\ (1 .. k + 1) \ {k + 1} = 1 .. k /\ k + 1 \in 0 .. n
        /\ k \in 0 .. n /\ k + 1 \in 1 .. n
    OBVIOUS
  <2>2. Summable(f, 1 .. k + 1)
    BY <1>3, <2>1
  <2>3. PICK T : T = 1 .. k + 1
    OBVIOUS
  <2>4. SumOver(f, T) = f[k + 1] + SumOver(f, T \ {k + 1})
    BY <2>1, <2>2, <2>3, SumTake
  <2>5. SumOver(f, 1 .. k + 1) = f[k + 1] + SumOver(f, 1 .. k)
    BY <2>1, <2>3, <2>4
  <2>6. f[k + 1] \in Int /\ SumOver(f, 1 .. k) \in Int
    BY <1>3, <2>1
  <2> QED
    BY <2>5, <2>6
<1> QED
  BY <1>1, <1>2, <1>3, <1>4

LEMMA SumOfOnes ==
  ASSUME NEW A, IsFiniteSet(A), NEW d, \A x \in A : d[x] = 1
  PROVE  SumOver(d, A) = Cardinality(A)
<1> DEFINE U == {T \in SUBSET A : SumOver(d, T) = Cardinality(T)}
<1>1. {} \in U
  BY SumEmpty, FS_EmptySet
<1>2. ASSUME NEW T \in SUBSET A, NEW x \in A, T \in U, x \notin T
      PROVE  T \union {x} \in U
  <2>1. Summable(d, A)
    BY DEF Summable
  <2>2. SumOver(d, T \union {x}) = d[x] + SumOver(d, T)
    BY <1>2, <2>1, SumAdd
  <2>3. IsFiniteSet(T)
    BY FS_Subset
  <2>4. Cardinality(T \union {x}) = Cardinality(T) + 1 /\ Cardinality(T) \in Nat
    BY <1>2, <2>3, FS_AddElement, FS_CardinalityType
  <2> QED
    BY <1>2, <2>2, <2>4
<1>3. A \in U
  <2> HIDE DEF U
  <2> QED
    BY <1>1, <1>2, FiniteInduction
<1> QED
  BY <1>3

LEMMA SumOneMore ==
  ASSUME NEW S, NEW f, Summable(f, S), NEW A \in SUBSET S, NEW g,
         \A x \in A : g[x] = f[x] + 1, \A x \in S \ A : g[x] = f[x]
  PROVE  /\ Summable(g, S) /\ SumOver(g, S) = SumOver(f, S) + Cardinality(A)
         /\ IsFiniteSet(A) /\ Cardinality(A) \in Nat /\ SumOver(f, S) \in Int
<1>1. PICK d : d = [x \in A |-> 1]
  OBVIOUS
<1>2. IsFiniteSet(A) /\ Cardinality(A) \in Nat
  BY FS_Subset, FS_CardinalityType DEF Summable
<1>3. Summable(g, S)
  BY DEF Summable
<1>4. \A x \in A : d[x] = g[x] - f[x] /\ d[x] = 1
  BY <1>1 DEF Summable
<1>5. SumOver(g, S) = SumOver(f, S) + SumOver(d, A)
  <2>1. PICK AA : AA = A
    OBVIOUS
  <2>2. Summable(f, S) /\ Summable(g, S) /\ AA \in SUBSET S
    BY <1>3, <2>1
  <2>3. \A x \in S \ AA : g[x] = f[x]
    BY <2>1
  <2>4. \A x \in AA : d[x] = g[x] - f[x]
    BY <1>4, <2>1
  <2>5. SumOver(g, S) = SumOver(f, S) + SumOver(d, AA) /\ SumOver(d, AA) \in Int
    BY ONLY <2>2, <2>3, <2>4, SumChange
  <2> QED
    BY <2>1, <2>5
<1>6. SumOver(d, A) = Cardinality(A)
  BY <1>2, <1>4, SumOfOnes
<1>7. SumOver(f, S) \in Int
  BY SumParts
<1> QED
  BY <1>2, <1>3, <1>5, <1>6, <1>7

-----------------------------------------------------------------------------
(* Folds over sequences.                                                   *)

LEMMA GreatestPlace ==
  ASSUME NEW n \in Nat, NEW T \in SUBSET (1 .. n), T # {}
  PROVE  Max(T) \in T /\ \A y \in T : y <= Max(T)
<1> DEFINE F == {n - x : x \in T}
<1>1. F \subseteq Nat /\ F # {}
  <2>1. \A x \in T : n - x \in Nat
    OBVIOUS
  <2>2. \E x \in T : n - x \in F
    OBVIOUS
  <2> QED
    BY <2>1, <2>2
<1>2. PICK a \in F : \A y \in F : a <= y
  <2> HIDE DEF F
  <2> QED
    BY <1>1, LeastNatural
<1>3. PICK x \in T : a = n - x
  BY <1>2
<1>4. \A y \in T : x >= y
  <2> SUFFICES ASSUME NEW y \in T
               PROVE  x >= y
    OBVIOUS
  <2>1. n - x <= n - y
    BY <1>2, <1>3
  <2> QED
    BY <2>1
<1>5. \E m \in T : \A y \in T : m >= y
  BY <1>4
<1> HIDE DEF F
<1>6. Max(T) \in T /\ \A y \in T : Max(T) >= y
  BY <1>5 DEF Max
<1> QED
  BY <1>6

LEMMA MaxOfTwo ==
  ASSUME NEW a \in Nat, NEW b \in Nat
  PROVE  Max({a, b}) = IF a >= b THEN a ELSE b
<1>1. \E x \in {a, b} : \A y \in {a, b} : x >= y
  OBVIOUS
<1>2. Max({a, b}) \in {a, b} /\ \A y \in {a, b} : Max({a, b}) >= y
  BY <1>1 DEF Max
<1> QED
  BY <1>2

(***************************************************************************)
(* A fold goes through the places of a sequence in their order.            *)
(***************************************************************************)
LEMMA FirstPlaces ==
  ASSUME NEW n \in Nat, NEW k \in 0 .. n - 1
  PROVE  /\ 1 .. k + 1 \in SUBSET (1 .. n) /\ 1 .. k + 1 # {}
         /\ Max(1 .. k + 1) = k + 1 /\ (1 .. k + 1) \ {k + 1} = 1 .. k
<1>1. PICK T : T = 1 .. k + 1
  OBVIOUS
<1>2. T \in SUBSET (1 .. n) /\ k + 1 \in T
  BY <1>1
<1>3. Max(T) \in T /\ k + 1 <= Max(T)
  BY <1>2, GreatestPlace
<1>4. Max(T) = k + 1
  BY <1>1, <1>3
<1>5. (1 .. k + 1) \ {k + 1} = 1 .. k
  OBVIOUS
<1> QED
  BY <1>1, <1>2, <1>4, <1>5

(***************************************************************************)
(* There is what a fold chooses, if the steps have values.                 *)
(***************************************************************************)
GoesThrough(f, n, V, base, op) ==
  /\ f \in [SUBSET (1 .. n) -> V]
  /\ \A T \in SUBSET (1 .. n) :
       f[T] = IF T = {} THEN base ELSE op[Max(T)][f[T \ {Max(T)}]]

LEMMA FoldOfPlaces ==
  ASSUME NEW n \in Nat, NEW V, NEW base \in V, NEW op \in [1 .. n -> [V -> V]]
  PROVE  \E f : GoesThrough(f, n, V, base, op)
<1> DEFINE S == 1 .. n
           pick == [T \in SUBSET S |-> Max(T)]
<1>1. IsFiniteSet(S)
  <2>1. 1 \in Int /\ n \in Int
    OBVIOUS
  <2> QED
    BY <2>1, FS_Interval
<1>2. \A T \in SUBSET S : T # {} => pick[T] \in T
  BY GreatestPlace
<1>3. PICK f : IsFold(f, S, V, base, pick, op)
  <2> HIDE DEF S, pick
  <2>1. op \in [S -> [V -> V]]
    BY DEF S
  <2> QED
    BY <1>1, <1>2, <2>1, FoldExists
<1>4. f \in [SUBSET S -> V] /\ f = FoldBody(S, base, pick, op, f)
  <2> HIDE DEF S, pick
  <2> QED
    BY <1>3 DEF IsFold
<1>5. ASSUME NEW T \in SUBSET S
      PROVE  f[T] = IF T = {} THEN base ELSE op[Max(T)][f[T \ {Max(T)}]]
  <2>1. f[T] = IF T = {} THEN base ELSE op[pick[T]][f[T \ {pick[T]}]]
    <3>1. FoldBody(S, base, pick, op, f)[T]
            = IF T = {} THEN base ELSE op[pick[T]][f[T \ {pick[T]}]]
      <4> HIDE DEF S, pick
      <4> QED
        BY DEF FoldBody
    <3> HIDE DEF S, pick
    <3> QED
      BY <1>4, <3>1
  <2>2. pick[T] = Max(T)
    OBVIOUS
  <2> HIDE DEF S, pick
  <2> QED
    BY <2>1, <2>2
<1> QED
  BY <1>4, <1>5 DEF GoesThrough
=============================================================================
