----------------------------- MODULE Variables -----------------------------
(***************************************************************************)
(* The variables of MAD-X and the parameters of its elements, with their   *)
(* types, cached values and statuses: mad_var.c, mad_expr.c, polish_value  *)
(* and act_value of mad_eval.c, and the parameters of mad_cmdpar.c.        *)
(*                                                                         *)
(* An expression is evaluated by calls of polish_value inside of each      *)
(* other, one for each deferred name on the way; each call takes an item   *)
(* a step.  What the value is wanted for waits in cmd.                     *)
(***************************************************************************)
EXTENDS Expressions

CONSTANTS
  Direct,     \* what may be on the right of "="
  Addition,   \* what ADD2EXPR may be given
  NoExpr,     \* the values of NOEXPR that SAVE is used with
  None,
  MAX_LOOP,   \* calls of polish_value inside of each other
  MaxItems    \* bound: items of an expression that ADD2EXPR makes

VARIABLES
  list,     \* variable_list->vars: the names, in the order of their entry
  var,      \* name -> [type, value, status, expr]
  par,      \* element->parameter -> [value, expr]
  calls,    \* polish_value: [of, expr, at, sum], the innermost last
  cmd,      \* what is done with the value, or None
  exited    \* None, or the error that ended the program

vars == <<list, var, par, calls, cmd, exited>>

CONST == 0
DIRECT == 1
DEFERRED == 2

VariableRecord ==
  [type : {CONST, DIRECT, DEFERRED}, value : Number, status : {0, 1}, expr : {None} \union Expr]

ParameterRecord == [value : Number, expr : {None} \union Expr]

CallRecord == [of : {None} \union Name, expr : Expr, at : Nat \ {0}, sum : Number]

(***************************************************************************)
(* What goes on: an assignment, a VALUE, an ADD2EXPR or a SAVE.            *)
(***************************************************************************)
Assigning == [op : {"assign"}, name : Name, type : {CONST, DIRECT}]
Reading == [op : {"read"}]
Adding == [op : {"add"}, name : Variable, expr : Expr]
SavingRecord ==
  [op : {"save"}, noexpr : BOOLEAN, varl : Seq(Variable), at : Nat \ {0},
   left : SUBSET Parameter, saved : UNION {[names -> Definition] : names \in SUBSET Name},
   value : {None} \union Name]

ASSUME VariablesAssumption ==
  /\ Variable \intersect Parameter = {}
  /\ MAX_LOOP \in Nat \ {0} /\ MaxItems \in Nat
  /\ Expression \union Direct \union Addition \subseteq Expr
  /\ NoExpr \subseteq BOOLEAN
  /\ None \notin Name \union Number /\ None # "circular"
  /\ None \notin Expr /\ None \notin VariableRecord
  /\ None \notin Assigning /\ None \notin Reading /\ None \notin Adding
  /\ None \notin SavingRecord

-----------------------------------------------------------------------------
(* mad_var.c                                                               *)

NewVariable(type, value, expr) ==
  [type |-> type, value |-> value, status |-> IF expr = None THEN 1 ELSE 0, expr |-> expr]

(***************************************************************************)
(* add_to_var_list: what the name stood for is deleted.                    *)
(***************************************************************************)
Entered(x, v) ==
  /\ var' = [var EXCEPT ![x] = v]
  /\ list' = IF var[x] = None THEN Append(list, x) ELSE list

(***************************************************************************)
(* variable_value: whether the value is there without an evaluation.       *)
(***************************************************************************)
IsCached_Status(x) == var[x].status > 0 \/ var[x].expr = None

IsCached(x) == (var[x].type < DEFERRED /\ var[x].status > 0) \/ var[x].expr = None

(***************************************************************************)
(* set_variable: the status stays what it was.                             *)
(***************************************************************************)
SetTo(v, number) == [v EXCEPT !.value = number, !.type = DIRECT, !.expr = None]

-----------------------------------------------------------------------------
(* polish_value                                                            *)

Call(x, expr) == [of |-> x, expr |-> expr, at |-> 1, sum |-> 0]

Caller == calls[Len(calls)]

Items == Caller.at <= Len(Caller.expr)

Item == Caller.expr[Caller.at]

Taken(stack, value) ==
  LET n == Len(stack)
  IN  [stack EXCEPT ![n].at = @ + 1, ![n].sum = Plus(@, value)]

(***************************************************************************)
(* The expression behind a name, if it has to be evaluated now: act_value  *)
(* with variable_value, and with command_par_value.                        *)
(***************************************************************************)
Pending(x) ==
  IF x \in Parameter THEN par[x].expr
  ELSE IF var[x] = None \/ IsCached(x) THEN None ELSE var[x].expr

Held(x) ==
  IF x \in Parameter THEN par[x].value ELSE IF var[x] = None THEN 0 ELSE var[x].value

(***************************************************************************)
(* An item that is a number, or a name with a value.  A variable that is   *)
(* not defined is entered, with the value 0.                               *)
(***************************************************************************)
Take ==
  /\ calls # <<>> /\ Items
  /\ \/ /\ Item \in Number
        /\ calls' = Taken(calls, Item)
        /\ UNCHANGED <<var, list>>
     \/ /\ Item \in Name /\ Pending(Item) = None
        /\ calls' = Taken(calls, Held(Item))
        /\ IF Item \in Variable /\ var[Item] = None
           THEN Entered(Item, NewVariable(DIRECT, 0, None))
           ELSE UNCHANGED <<var, list>>
  /\ UNCHANGED <<par, cmd, exited>>

TooDeep == Len(calls) >= MAX_LOOP

Descend ==
  /\ calls # <<>> /\ Items
  /\ Item \in Name /\ Pending(Item) # None
  /\ IF TooDeep
     THEN exited' = "circular" /\ calls' = <<>> /\ cmd' = None
     ELSE calls' = Append(calls, Call(Item, Pending(Item))) /\ UNCHANGED <<cmd, exited>>
  /\ UNCHANGED <<list, var, par>>

(***************************************************************************)
(* variable_value again, after expression_value.                           *)
(***************************************************************************)
Evaluated(x, value) ==
  IF x \in Variable THEN [var EXCEPT ![x].value = value, ![x].status = 1] ELSE var

Return ==
  /\ Len(calls) > 1 /\ ~Items
  /\ calls' = Taken(Front(calls), Caller.sum)
  /\ var' = Evaluated(Caller.of, Caller.sum)
  /\ UNCHANGED <<list, par, cmd, exited>>

Done == Len(calls) = 1 /\ ~Items

-----------------------------------------------------------------------------
(* Statements, and calls from Fortran.                                     *)

Idle == cmd = None /\ exited = None

Evaluate(c, x, expr) == cmd' = c /\ calls' = <<Call(x, expr)>>

IsConstant(x) == x \in Variable /\ var[x] # None /\ var[x].type = CONST

(***************************************************************************)
(* enter_variable, "x = expr" and "const x = expr"; set_sub_variable and   *)
(* decode_par for parameters.                                              *)
(***************************************************************************)
Gets(x, type, value) ==
  IF x \in Variable
  THEN Entered(x, NewVariable(type, value, None)) /\ UNCHANGED par
  ELSE par' = [par EXCEPT ![x] = [value |-> value, expr |-> None]] /\ UNCHANGED <<var, list>>

Assign(x, type, expr) ==
  /\ Idle /\ ~IsConstant(x)
  /\ type = CONST => x \in Variable
  /\ IF Literal(expr)
     THEN Gets(x, type, expr[1]) /\ UNCHANGED <<cmd, calls>>
     ELSE /\ Evaluate([op |-> "assign", name |-> x, type |-> type], None, expr)
          /\ UNCHANGED <<list, var, par>>
  /\ UNCHANGED exited

Assigned ==
  /\ Done /\ cmd.op = "assign"
  /\ Gets(cmd.name, cmd.type, Caller.sum)
  /\ cmd' = None /\ calls' = <<>>
  /\ UNCHANGED exited

(***************************************************************************)
(* "x := expr": not evaluated yet.                                         *)
(***************************************************************************)
Defer(x, expr) ==
  /\ Idle /\ ~IsConstant(x)
  /\ LET value == IF Literal(expr) THEN expr[1] ELSE 0
         kept == IF Literal(expr) THEN None ELSE expr
     IN  IF x \in Variable
         THEN Entered(x, NewVariable(DEFERRED, value, kept)) /\ UNCHANGED par
         ELSE /\ par' = [par EXCEPT ![x] = [value |-> value, expr |-> kept]]
              /\ UNCHANGED <<var, list>>
  /\ UNCHANGED <<calls, cmd, exited>>

(***************************************************************************)
(* set_variable, by SETVARS, VARY and the Fortran code.                    *)
(***************************************************************************)
SetVariable(x, number) ==
  /\ Idle /\ ~IsConstant(x)
  /\ IF x \in Variable /\ var[x] # None
     THEN var' = [var EXCEPT ![x] = SetTo(@, number)] /\ UNCHANGED <<list, par>>
     ELSE Gets(x, DIRECT, number)
  /\ UNCHANGED <<calls, cmd, exited>>

(***************************************************************************)
(* clone_command_parameter: an element takes over what its class has.      *)
(***************************************************************************)
Inherited(x, y) == [par EXCEPT ![x] = par[y]]

Inherit(x, y) ==
  /\ Idle
  /\ par' = Inherited(x, y)
  /\ UNCHANGED <<list, var, calls, cmd, exited>>

(***************************************************************************)
(* get_variable, VALUE, of a name whose value is not there: otherwise      *)
(* nothing changes, and a name that is not defined is not entered.         *)
(***************************************************************************)
Read(x) ==
  /\ Idle /\ Pending(x) # None
  /\ Evaluate([op |-> "read"], x, Pending(x))
  /\ UNCHANGED <<list, var, par, exited>>

Answer ==
  /\ Done /\ cmd.op = "read"
  /\ var' = Evaluated(Caller.of, Caller.sum)
  /\ cmd' = None /\ calls' = <<>>
  /\ UNCHANGED <<list, par, exited>>

(***************************************************************************)
(* exec_add_expression.  The expression there is is evaluated on the way,  *)
(* and its value not used.                                                 *)
(***************************************************************************)
Added_Value(x, expr) == [var EXCEPT ![x].expr = <<var[x].value>> \o expr]

Added(x, expr) ==
  LET v == var[x]
      kept == IF v.expr = None THEN <<v.value>> ELSE v.expr
  IN  [var EXCEPT ![x].type = DEFERRED, ![x].expr = kept \o expr]

AddExpression(x, expr) ==
  /\ Idle /\ ~IsConstant(x)
  /\ var[x] # None /\ var[x].expr # None => Len(var[x].expr) + Len(expr) <= MaxItems
  /\ IF var[x] # None /\ var[x].expr # None
     THEN /\ Evaluate([op |-> "add", name |-> x, expr |-> expr], None, var[x].expr)
          /\ UNCHANGED <<list, var>>
     ELSE /\ LET new == NewVariable(DEFERRED, 0, None)
                 v == IF var[x] = None THEN new ELSE var[x]
             IN  Entered(x, [v EXCEPT !.type = DEFERRED, !.expr = <<v.value>> \o expr])
          /\ UNCHANGED <<cmd, calls>>
  /\ UNCHANGED <<par, exited>>

AddedTo ==
  /\ Done /\ cmd.op = "add"
  /\ var' = Added(cmd.name, cmd.expr)
  /\ cmd' = None /\ calls' = <<>>
  /\ UNCHANGED <<list, par, exited>>

-----------------------------------------------------------------------------
(* SAVE: write_vars with export_variable, then write_elems with            *)
(* export_comm_par.  cmd.varl is a copy of the list of variables, made at  *)
(* the start; cmd.saved is the file, as definitions.                       *)

Save(noexpr) ==
  /\ Idle
  /\ cmd' = [op |-> "save", noexpr |-> noexpr, varl |-> list, at |-> 1,
             left |-> Parameter, saved |-> <<>>, value |-> None]
  /\ UNCHANGED <<list, var, par, calls, exited>>

Saving == cmd # None /\ cmd.op = "save" /\ calls = <<>>

Writes(x, definition) ==
  [name \in DOMAIN cmd.saved \union {x} |-> IF name = x THEN definition ELSE cmd.saved[name]]

Written_Expanded(expr, value, kind) == Immediate(kind, value)

Written(expr, value, kind) ==
  IF expr # None /\ ~cmd.noexpr THEN Deferred(expr) ELSE Immediate(kind, value)

(***************************************************************************)
(* A status of 0 calls for an evaluation, with an expression or without.   *)
(***************************************************************************)
NeedsValue_Again(x) == var[x].status = 0

NeedsValue(x) == var[x].status = 0 /\ cmd.value = None

SaveVariable ==
  /\ Saving /\ cmd.at <= Len(cmd.varl)
  /\ LET name == cmd.varl[cmd.at]
         v == var[name]
     IN  IF NeedsValue(name)
         THEN /\ IF v.expr = None
                 THEN exited' = "no expression" /\ cmd' = None /\ UNCHANGED calls
                 ELSE Evaluate([cmd EXCEPT !.value = name], None, v.expr) /\ UNCHANGED exited
         ELSE /\ cmd' = [cmd EXCEPT !.at = @ + 1, !.value = None,
                           !.saved = Writes(name, Written(v.expr, v.value,
                                                IF v.type = CONST THEN "constant" ELSE "value"))]
              /\ UNCHANGED <<calls, exited>>
  /\ UNCHANGED <<list, var, par>>

SaveParameter ==
  /\ Saving /\ cmd.at > Len(cmd.varl) /\ cmd.left # {}
  /\ LET name == CHOOSE name \in cmd.left : TRUE
     IN  IF par[name].expr # None /\ cmd.noexpr /\ cmd.value = None
         THEN Evaluate([cmd EXCEPT !.value = name], None, par[name].expr)
         ELSE /\ cmd' = [cmd EXCEPT !.left = @ \ {name}, !.value = None,
                           !.saved = Writes(name, Written(par[name].expr, par[name].value, "value"))]
              /\ UNCHANGED calls
  /\ UNCHANGED <<list, var, par, exited>>

SaveValue ==
  /\ Done /\ cmd.op = "save"
  /\ IF cmd.value \in Variable
     THEN var' = [var EXCEPT ![cmd.value].value = Caller.sum] /\ UNCHANGED par
     ELSE par' = [par EXCEPT ![cmd.value].value = Caller.sum] /\ UNCHANGED var
  /\ calls' = <<>>
  /\ UNCHANGED <<list, cmd, exited>>

SaveEnd ==
  /\ Saving /\ cmd.at > Len(cmd.varl) /\ cmd.left = {}
  /\ cmd' = None
  /\ UNCHANGED <<list, var, par, calls, exited>>

-----------------------------------------------------------------------------
Init ==
  /\ list = <<>>
  /\ var = [x \in Variable |-> None]
  /\ par = [x \in Parameter |-> [value |-> 0, expr |-> None]]
  /\ calls = <<>> /\ cmd = None
  /\ exited = None

Statement ==
  \/ \E x \in Name, type \in {CONST, DIRECT}, expr \in Direct : Assign(x, type, expr)
  \/ \E x \in Name, expr \in Expression : Defer(x, expr)
  \/ \E x \in Variable, expr \in Addition : AddExpression(x, expr)
  \/ \E x \in Name, number \in Number : SetVariable(x, number)
  \/ \E x, y \in Parameter : Inherit(x, y)
  \/ \E x \in Name : Read(x)
  \/ \E noexpr \in NoExpr : Save(noexpr)

Goes ==
  \/ Take \/ Descend \/ Return
  \/ Assigned \/ Answer \/ AddedTo
  \/ SaveVariable \/ SaveParameter \/ SaveValue \/ SaveEnd

Next == Statement \/ Goes

Spec == Init /\ [][Next]_vars

(***************************************************************************)
(* A statement that was begun is gone on with.                             *)
(***************************************************************************)
FairSpec == Spec /\ WF_vars(Goes)

-----------------------------------------------------------------------------
(***************************************************************************)
(* What the names are defined to be, with cached values and statuses left  *)
(* out.                                                                    *)
(***************************************************************************)
Defined ==
  [x \in Name |->
     IF x \in Parameter
     THEN IF par[x].expr = None THEN Immediate("value", par[x].value)
          ELSE Deferred(par[x].expr)
     ELSE IF var[x] = None THEN Immediate("value", 0)
     ELSE IF var[x].expr # None THEN Deferred(var[x].expr)
     ELSE Immediate(IF var[x].type = CONST THEN "constant" ELSE "value", var[x].value)]

Promise == INSTANCE Definitions WITH def <- Defined, failed <- exited = "circular"

(***************************************************************************)
(* Statements define what they say, with the values of that time, and      *)
(* nothing else changes a definition; only definitions in a circle are the *)
(* error polish_value reports.                                             *)
(***************************************************************************)
ImplementsDefinitions == Promise!Spec

(***************************************************************************)
(* A value that is taken as it is held, and one that an evaluation has     *)
(* come to, is the value the definitions give at that time, whatever was   *)
(* cached before (format.tex: "by evaluating the expression on the right   *)
(* every time the parameter is actually used").                            *)
(***************************************************************************)
Current ==
  /\ \A x \in Name : Pending(x) = None => Held(x) = Meanings(Defined)[x]
  /\ calls # <<>> /\ ~Items => Caller.sum = Meaning(Defined, Caller.expr)

(***************************************************************************)
(* Every statement ends, one whose definitions go in a circle too.         *)
(***************************************************************************)
Ends == cmd # None ~> cmd = None

(***************************************************************************)
(* What SAVE writes defines, read again, what is defined now, the values   *)
(* of names that were only read included.                                  *)
(***************************************************************************)
Reread(saved) ==
  [x \in Name |-> IF x \in DOMAIN saved THEN saved[x] ELSE Immediate("value", 0)]

SavesDefinitions == [][SaveEnd /\ ~cmd.noexpr => Reread(cmd.saved) = Defined]_vars

-----------------------------------------------------------------------------
(* What the manual says, and the program does not do.                      *)

(***************************************************************************)
(* SAVE, NOEXPR: "the expressions in commands and variables are expanded   *)
(* and evaluated before saving" (seqedit.tex).                             *)
(***************************************************************************)
SavesValues ==
  [][SaveEnd /\ cmd.noexpr =>
       \A x \in DOMAIN cmd.saved : cmd.saved[x].value = Meanings(Defined)[x]]_vars

(***************************************************************************)
(* SAVE comes to its end for any variables.                                *)
(***************************************************************************)
CanSave == exited # "no expression"
=============================================================================
