---------------------------- MODULE Definitions ----------------------------
(***************************************************************************)
(* What relations between variables promise (format.tex in                 *)
(* doc/latexuguide): "=" gives a name the value its expression has now,    *)
(* ":=" the expression itself, which is evaluated "every time the          *)
(* parameter is actually used", and definitions that go in a circle        *)
(* "result in an error".  There are no cached values here.                 *)
(***************************************************************************)
EXTENDS Expressions

CONSTANTS
  Direct,     \* what a name may get the value of
  Addition    \* what may be added to an expression

-----------------------------------------------------------------------------
VARIABLES
  def,      \* name -> its definition
  failed

Init == def = [x \in Name |-> Immediate("value", 0)] /\ failed = FALSE

Free(x) == def[x].kind # "constant"

(***************************************************************************)
(* x = expr, CONST x = expr                                                *)
(***************************************************************************)
Assign(x, kind, expr) ==
  /\ Free(x)
  /\ kind = "constant" => x \in Variable
  /\ def' = [def EXCEPT ![x] = Immediate(kind, Meaning(def, expr))]
  /\ ~Circular(def, Names(expr))

(***************************************************************************)
(* x := expr                                                               *)
(***************************************************************************)
Defer(x, expr) ==
  /\ Free(x)
  /\ def' = [def EXCEPT ![x] = Deferred(expr)]

(***************************************************************************)
(* ADD2EXPR, var=x, expr=expr: "a := b + c" becomes "a := b + c - d".      *)
(***************************************************************************)
AddExpression(x, expr) ==
  /\ Free(x)
  /\ def' = [def EXCEPT ![x] =
               Deferred((IF def[x].kind = "deferred" THEN def[x].expr ELSE <<def[x].value>>)
                          \o expr)]

(***************************************************************************)
(* An element is made of another, its class.                               *)
(***************************************************************************)
Inherit(x, y) ==
  /\ def' = [def EXCEPT ![x] = def[y]]

(***************************************************************************)
(* The error, which ends the program.                                      *)
(***************************************************************************)
Fail ==
  /\ Circular(def, Name)
  /\ failed' = TRUE
  /\ UNCHANGED def

Next ==
  /\ ~failed
  /\ \/ /\ UNCHANGED failed
        /\ \/ \E x \in Name, kind \in {"constant", "value"},
                 expr \in Direct \union {<<number>> : number \in Number} :
                Assign(x, kind, expr)
           \/ \E x \in Name, expr \in Expression : Defer(x, expr)
           \/ \E x \in Variable, expr \in Addition : AddExpression(x, expr)
           \/ \E x, y \in Parameter : Inherit(x, y)
     \/ Fail

Spec == Init /\ [][Next]_<<def, failed>>
=============================================================================
