---------------------------- MODULE Expressions ----------------------------
(***************************************************************************)
(* Names, and what they are defined to be: a value, or an expression that  *)
(* is evaluated when it is asked for.  An expression is the sum of its     *)
(* items, numbers and names.                                               *)
(***************************************************************************)
EXTENDS Integers, FiniteSets, Sequences, Functions, SequencesExt

CONSTANTS
  Variable,
  Parameter,   \* parameters of elements, element->parameter
  Modulus,     \* numbers are counted modulo this
  Expression   \* what a statement may have on its right

Name == Variable \union Parameter

Number == 0 .. Modulus - 1

Plus(a, b) == (a + b) % Modulus

Expr == Seq(Number \union Name)

ASSUME ExpressionsAssumption ==
  IsFiniteSet(Name) /\ Modulus \in Nat \ {0} /\ Name \intersect Number = {}

Immediate(kind, value) == [kind |-> kind, value |-> value]

Definition ==
  [kind : {"value", "constant"}, value : Number]
    \union [kind : {"deferred"}, expr : Expr]

(***************************************************************************)
(* A number has no need to be deferred.                                    *)
(***************************************************************************)
Literal(expr) == Len(expr) = 1 /\ expr[1] \in Number

Deferred(expr) ==
  IF Literal(expr) THEN Immediate("value", expr[1])
  ELSE [kind |-> "deferred", expr |-> expr]

Refers(defs, x) ==
  IF defs[x].kind = "deferred" THEN Range(defs[x].expr) \intersect Name ELSE {}

(***************************************************************************)
(* The sums of the first items, up to all of them.                         *)
(***************************************************************************)
Sums(expr, known) ==
  LET sum[i \in 0 .. Len(expr)] ==
        IF i = 0 THEN 0
        ELSE Plus(sum[i - 1], IF expr[i] \in Name THEN known[expr[i]] ELSE expr[i])
  IN  sum

Total(expr, known) == Sums(expr, known)[Len(expr)]

(***************************************************************************)
(* The values of all names, with definitions followed as often as there    *)
(* are names.                                                              *)
(***************************************************************************)
Levels(defs) ==
  LET level[n \in 0 .. Cardinality(Name)] ==
        LET known == IF n = 0 THEN [x \in Name |-> 0] ELSE level[n - 1]
        IN  [x \in Name |-> IF defs[x].kind = "deferred" THEN Total(defs[x].expr, known)
                             ELSE defs[x].value]
  IN  level

Meanings(defs) == Levels(defs)[Cardinality(Name)]

Meaning(defs, expr) == Total(expr, Meanings(defs))

Names(expr) == Range(expr) \intersect Name

(***************************************************************************)
(* The names that can be met when those in from are evaluated.             *)
(***************************************************************************)
Reaches(defs, from) ==
  LET step[n \in 0 .. Cardinality(Name)] ==
        IF n = 0 THEN from
        ELSE LET near == step[n - 1]
             IN  near \union UNION {Refers(defs, x) : x \in near}
  IN  step

Reached(defs, from) == Reaches(defs, from)[Cardinality(Name)]

Circular(defs, from) ==
  \E x \in Reached(defs, from) : x \in Reached(defs, Refers(defs, x))
=============================================================================
