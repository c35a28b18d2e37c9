------------------------------- MODULE NameMap -------------------------------
(***************************************************************************)
(* What a named list promises its callers, without the arrays: a finite    *)
(* map from names to an object and a flag.  A request is made, and some    *)
(* time later it is answered in one step.  NameList shows that the sorted  *)
(* index of mad_name.c and the parallel object array of its callers        *)
(* implement this.                                                         *)
(***************************************************************************)
EXTENDS Integers

CONSTANTS Name, Object, Flag,
          None                  \* the answer to a search that fails

VARIABLES entries,              \* the map, a set of records
          req,                  \* the request being served, or the last one
          busy,                 \* has req not been answered yet?
          answer                \* what the last "find" returned

vars == <<entries, req, busy, answer>>

(***************************************************************************)
(* The calls, with the arguments each one reads.                           *)
(***************************************************************************)
Request ==
  [op : {"find", "remove"}, name : Name, obj : {None}, flag : {0}]
    \union [op : {"add_node"}, name : Name, obj : Object, flag : {0}]
    \union [op : {"add_var"}, name : Name, obj : Object, flag : Flag]
    \union [op : {"mark"}, name : Name, obj : {None}, flag : Flag]

Has(n) == \E e \in entries : e.name = n

Without(n) == {e \in entries : e.name # n}

(***************************************************************************)
(* A caller marks only names it knows to be present.                       *)
(***************************************************************************)
Ask(r) ==
  /\ ~busy
  /\ r.op = "mark" => Has(r.name)
  /\ req' = r
  /\ busy' = TRUE
  /\ answer' = None
  /\ UNCHANGED entries

AnswerFind ==
  /\ req.op = "find"
  /\ \/ \E e \in entries : e.name = req.name /\ answer' = e.obj
     \/ ~Has(req.name) /\ answer' = None
  /\ UNCHANGED entries

Insert(e) == entries' = entries \union {e}

(***************************************************************************)
(* A node already in the list is kept, whatever the caller brings.         *)
(***************************************************************************)
AnswerAddNode ==
  /\ req.op = "add_node"
  /\ IF Has(req.name)
     THEN UNCHANGED entries
     ELSE Insert([name |-> req.name, flag |-> req.flag, obj |-> req.obj])
  /\ answer' = None

(***************************************************************************)
(* A variable is replaced; its flag can only be raised to 1.               *)
(***************************************************************************)
AnswerAddVar ==
  /\ req.op = "add_var"
  /\ \/ /\ ~Has(req.name)
        /\ Insert([name |-> req.name, flag |-> req.flag, obj |-> req.obj])
     \/ \E e \in entries :
          /\ e.name = req.name
          /\ entries' = Without(req.name) \union
               {[name |-> req.name, obj |-> req.obj,
                 flag |-> IF req.flag = 1 THEN 1 ELSE e.flag]}
  /\ answer' = None

AnswerMark ==
  /\ req.op = "mark"
  /\ \E e \in entries :
       /\ e.name = req.name
       /\ entries' = Without(req.name) \union
            {[name |-> req.name, obj |-> e.obj, flag |-> req.flag]}
  /\ answer' = None

AnswerRemove ==
  /\ req.op = "remove"
  /\ entries' = Without(req.name)
  /\ answer' = None

Answer ==
  /\ busy
  /\ busy' = FALSE
  /\ UNCHANGED req
  /\ AnswerFind \/ AnswerAddNode \/ AnswerAddVar \/ AnswerMark \/ AnswerRemove

Init ==
  /\ entries = {}
  /\ req \in Request
  /\ busy = FALSE
  /\ answer = None

Next == (\E r \in Request : Ask(r)) \/ Answer

Spec == Init /\ [][Next]_vars
=============================================================================
