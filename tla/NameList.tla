------------------------------ MODULE NameList ------------------------------
(***************************************************************************)
(* struct name_list of mad_name.c, the sorted list every other list of     *)
(* MAD-X is built on (elements, nodes, variables, commands, macros,        *)
(* sequences, tables), together with the parallel array of objects its     *)
(* owner keeps at the same positions.                                      *)
(*                                                                         *)
(* names[] holds the names in the order they came; index[] holds the       *)
(* positions in names[] in strcmp order.  Arrays are functions on the      *)
(* cells in use, so a cell the code leaves stale is not part of the state. *)
(* Integers stand for names and < for strcmp.  One action is one iteration *)
(* of a search loop, or the straight-line code between two loops.          *)
(***************************************************************************)
EXTENDS Integers

CONSTANTS Name, Object, Flag,
          None,                 \* no object
          Length                \* cells allocated by new_name_list

ASSUME NameListAssumption ==
  /\ Name \subseteq Int
  /\ Flag = {0, 1}
  /\ Length \in Nat
  /\ None \notin Object

VARIABLES
  names, index, inform,         \* the arrays of struct name_list
  curr, max,                    \* cells in use and cells allocated
  objs, ocurr, omax,            \* the owner's array, its use and allocation
  req,                          \* the call being executed, or the last one
  pc,                           \* which loop is running
  low, high, pos,               \* its local variables
  ret                           \* position returned, -1 for none

nlist == <<names, index, inform, curr, max>>
owner == <<objs, ocurr, omax>>
loop  == <<low, high, pos>>
vars  == <<nlist, owner, req, pc, loop, ret>>

(***************************************************************************)
(* The calls, with the arguments each one reads.                           *)
(***************************************************************************)
Request ==
  [op : {"find", "remove"}, name : Name, obj : {None}, flag : {0}]
    \union [op : {"add_node"}, name : Name, obj : Object, flag : {0}]
    \union [op : {"add_var"}, name : Name, obj : Object, flag : Flag]
    \union [op : {"mark"}, name : Name, obj : {None}, flag : Flag]

Cells(n) == 0 .. n - 1

Positions == Cells(curr)

mid == (low + high) \div 2

Key(i) == names[index[i]]       \* the i-th name in strcmp order

Put(f, i, v) == [f EXCEPT ![i] = v]

(***************************************************************************)
(* f with its cell number n filled, n being the first cell not in use.     *)
(***************************************************************************)
Push(f, n, v) == [i \in Cells(n + 1) |-> IF i = n THEN v ELSE f[i]]

(* mutant: an empty list never grows *)
Grown_Doubled(n) == 2 * n

Grown(n) == IF n = 0 THEN 1 ELSE 2 * n

(* mutant: the entry at p is overwritten before it has moved up *)
Shifted_Overwrites(p, v) ==
  [i \in Cells(curr + 1) |->
     IF i <= p THEN (IF i = p THEN v ELSE index[i])
     ELSE IF i = p + 1 THEN v ELSE index[i - 1]]

(***************************************************************************)
(* index[] with v inserted at p, the entries from p on moved up by one.    *)
(***************************************************************************)
Shifted(p, v) ==
  [i \in Cells(curr + 1) |->
     IF i < p THEN index[i] ELSE IF i = p THEN v ELSE index[i - 1]]

Start(where) ==
  /\ pc' = where
  /\ low' = 0
  /\ high' = curr - 1
  /\ pos' = 0

Return(r) ==
  /\ pc' = "idle"
  /\ ret' = r
  /\ low' = 0 /\ high' = -1 /\ pos' = 0
  /\ UNCHANGED req

(***************************************************************************)
(* A call from the interpreter.  "mark" is a caller that has found the     *)
(* name and calls add_to_name_list to overwrite the flag.                  *)
(***************************************************************************)
Call(r) ==
  /\ pc = "idle"
  /\ r.op = "mark" => \E i \in Positions : names[i] = r.name
  /\ req' = r
  /\ ret' = -1
  /\ Start(IF r.op = "remove" THEN "remove"
           ELSE IF r.op = "mark" THEN "check" ELSE "lookup")
  /\ UNCHANGED <<nlist, owner>>

-----------------------------------------------------------------------------
(* name_list_pos, run for the owner ("lookup") and again inside            *)
(* add_to_name_list ("check").                                             *)

Searching == pc \in {"lookup", "check"} /\ low <= high

SearchLeft ==
  /\ Searching
  /\ req.name < Key(mid)
  /\ high' = mid - 1
  /\ UNCHANGED <<nlist, owner, req, pc, low, pos, ret>>

(* mutant: the window keeps its middle and stops shrinking *)
SearchRight_Stuck ==
  /\ Searching
  /\ req.name > Key(mid)
  /\ low' = mid
  /\ UNCHANGED <<nlist, owner, req, pc, high, pos, ret>>

SearchRight ==
  /\ Searching
  /\ req.name > Key(mid)
  /\ low' = mid + 1
  /\ UNCHANGED <<nlist, owner, req, pc, high, pos, ret>>

(***************************************************************************)
(* The owner's search succeeds: add_to_node_list does nothing,             *)
(* add_to_var_list replaces the object.                                    *)
(***************************************************************************)
LookupHit ==
  /\ pc = "lookup" /\ Searching
  /\ req.name = Key(mid)
  /\ IF req.op = "add_var"
     THEN /\ objs' = Put(objs, index[mid], req.obj)
          /\ inform' = IF req.flag = 1 THEN Put(inform, index[mid], 1)
                                       ELSE inform
     ELSE UNCHANGED <<objs, inform>>
  /\ Return(index[mid])
  /\ UNCHANGED <<names, index, curr, max, ocurr, omax>>

LookupMiss ==
  /\ pc = "lookup" /\ low > high
  /\ IF req.op = "find"
     THEN Return(-1) /\ UNCHANGED omax
     ELSE /\ Start("check")
          /\ omax' = IF ocurr = omax THEN Grown(omax) ELSE omax
          /\ UNCHANGED <<req, ret>>
  /\ UNCHANGED <<nlist, objs, ocurr>>

CheckHit ==
  /\ pc = "check" /\ Searching
  /\ req.name = Key(mid)
  /\ inform' = Put(inform, index[mid], req.flag)
  /\ Return(index[mid])
  /\ UNCHANGED <<names, index, curr, max, owner>>

CheckMiss ==
  /\ pc = "check" /\ low > high
  /\ Start("insert")
  /\ UNCHANGED <<nlist, owner, req, ret>>

-----------------------------------------------------------------------------
(* The second half of add_to_name_list: find the insertion point, then     *)
(* store the name, and the owner stores its object.                        *)

InsertLeft ==
  /\ pc = "insert" /\ low <= high
  /\ req.name < Key(mid)
  /\ high' = mid - 1
  /\ pos' = mid
  /\ UNCHANGED <<nlist, owner, req, pc, low, ret>>

(* mutant: the insertion point stays at the smaller name *)
InsertRight_AtMid ==
  /\ pc = "insert" /\ low <= high
  /\ req.name > Key(mid)
  /\ low' = mid + 1
  /\ pos' = mid
  /\ UNCHANGED <<nlist, owner, req, pc, high, ret>>

InsertRight ==
  /\ pc = "insert" /\ low <= high
  /\ req.name > Key(mid)
  /\ low' = mid + 1
  /\ pos' = mid + 1
  /\ UNCHANGED <<nlist, owner, req, pc, high, ret>>

Store ==
  /\ pc = "insert" /\ low > high
  /\ max' = IF curr = max THEN Grown(max) ELSE max
  /\ index' = Shifted(pos, curr)
  /\ inform' = Push(inform, curr, req.flag)
  /\ names' = Push(names, curr, req.name)
  /\ curr' = curr + 1
  /\ objs' = Push(objs, ocurr, req.obj)
  /\ ocurr' = ocurr + 1
  /\ Return(curr)
  /\ UNCHANGED omax

-----------------------------------------------------------------------------
(* remove_from_name_list and the owner's move of its last object into the  *)
(* cell that became free.                                                  *)

(* mutant: the position of the name that moves is not renamed *)
Closed_NoRename(i, k) ==
  [j \in Cells(curr - 1) |-> IF j < i THEN index[j] ELSE index[j + 1]]

(***************************************************************************)
(* index[] without its entry i, and with the last position of names[]      *)
(* renamed to k, the cell that the last name moves to.                     *)
(***************************************************************************)
Closed(i, k) ==
  [j \in Cells(curr - 1) |->
     LET v == IF j < i THEN index[j] ELSE index[j + 1]
     IN  IF v = curr - 1 THEN k ELSE v]

MoveLast(f, k, n) ==
  [j \in Cells(n - 1) |-> IF j = k THEN f[n - 1] ELSE f[j]]

(* mutant: the owner drops its last object instead of moving it *)
OwnerMoves_DropsLast(k) == objs' = [j \in Cells(ocurr - 1) |-> objs[j]]

OwnerMoves(k) == objs' = MoveLast(objs, k, ocurr)

RemoveHit ==
  /\ pc = "remove"
  /\ \E i \in Positions :
       /\ Key(i) = req.name
       /\ \A j \in Positions : j < i => Key(j) # req.name
       /\ index' = Closed(i, index[i])
       /\ inform' = MoveLast(inform, index[i], curr)
       /\ names' = MoveLast(names, index[i], curr)
       /\ OwnerMoves(index[i])
       /\ Return(index[i])
  /\ curr' = curr - 1
  /\ ocurr' = ocurr - 1
  /\ UNCHANGED <<max, omax>>

RemoveMiss ==
  /\ pc = "remove"
  /\ \A i \in Positions : Key(i) # req.name
  /\ Return(-1)
  /\ UNCHANGED <<nlist, owner>>

-----------------------------------------------------------------------------
Empty == [i \in Cells(0) |-> 0]

Init ==
  /\ names = Empty /\ index = Empty /\ inform = Empty /\ objs = Empty
  /\ curr = 0 /\ ocurr = 0
  /\ max = Length /\ omax = Length
  /\ req \in Request
  /\ pc = "idle"
  /\ low = 0 /\ high = -1 /\ pos = 0
  /\ ret = -1

Search == SearchLeft \/ SearchRight \/ LookupHit \/ LookupMiss

Add == CheckHit \/ CheckMiss \/ InsertLeft \/ InsertRight \/ Store

Work == Search \/ Add \/ RemoveHit \/ RemoveMiss

Next == (\E r \in Request : Call(r)) \/ Work

Spec == Init /\ [][Next]_vars

(***************************************************************************)
(* The loops run in one thread, with nothing to wait for.                  *)
(***************************************************************************)
FairSpec == Spec /\ WF_vars(Work)

-----------------------------------------------------------------------------
TypeOK ==
  /\ curr \in Nat /\ max \in Nat /\ ocurr \in Nat /\ omax \in Nat
  /\ names \in [Positions -> Name]
  /\ index \in [Positions -> Positions]
  /\ inform \in [Positions -> Flag]
  /\ objs \in [Cells(ocurr) -> Object]
  /\ req \in Request
  /\ pc \in {"idle", "lookup", "check", "insert", "remove"}
  /\ low \in Nat /\ high \in Int /\ pos \in Nat
  /\ ret \in Int

(***************************************************************************)
(* The index lists every stored name, in strictly increasing order (so     *)
(* none twice): what the binary search relies on, and what insertion and   *)
(* removal, which also moves the last name into the gap, re-establish.     *)
(***************************************************************************)
Sorted ==
  /\ \A i, j \in Positions : i < j => Key(i) < Key(j)
  /\ \A p \in Positions : \E i \in Positions : index[i] = p

(***************************************************************************)
(* The owner's array runs in step with the names (the position found in    *)
(* one is used in the other), and neither outgrows its allocation.         *)
(***************************************************************************)
InStep == ocurr = curr /\ curr <= max /\ ocurr <= omax

(***************************************************************************)
(* Every name left of the search window is smaller than the one sought,    *)
(* every name right of it is larger, and an insertion's position is the    *)
(* edge of the window that the last comparison moved.                      *)
(***************************************************************************)
Window ==
  pc \in {"lookup", "check", "insert"} =>
    /\ low <= high + 1 /\ high < curr
    /\ \A i \in Positions : i < low  => Key(i) < req.name
    /\ \A i \in Positions : i > high => Key(i) > req.name
    /\ pc = "insert" => pos \in {low, high + 1}

(***************************************************************************)
(* A caller that marks a name finds it (it never creates one), and one     *)
(* that stores a name has made room for its object.                        *)
(***************************************************************************)
Prepared ==
  /\ (pc \in {"check", "insert"} /\ req.op = "mark") =>
        /\ pc = "check"
        /\ \E i \in Positions : names[i] = req.name
  /\ (pc \in {"check", "insert"} /\ req.op # "mark") =>
        /\ ocurr < omax
        /\ \A i \in Positions : names[i] # req.name
  /\ pc \in {"check", "insert"} => req.op \in {"mark", "add_node", "add_var"}
  /\ pc = "lookup" => req.op \in {"find", "add_node", "add_var"}
  /\ pc = "remove" => req.op = "remove"

(***************************************************************************)
(* Every call returns: the window of a search shrinks at each comparison,  *)
(* and the insertion loop, which has no exit for a name already there, is  *)
(* only entered for a new one.                                             *)
(***************************************************************************)
Returns == (pc # "idle") ~> (pc = "idle")

-----------------------------------------------------------------------------
(***************************************************************************)
(* The arrays implement the map: an entry is a name with the flag and the  *)
(* object that are stored at its position.                                 *)
(***************************************************************************)
entriesBar ==
  {[name |-> names[i], flag |-> inform[i], obj |-> objs[i]] : i \in Positions}

answerBar ==
  IF pc = "idle" /\ req.op = "find" /\ ret # -1 THEN objs[ret] ELSE None

Map == INSTANCE NameMap
         WITH entries <- entriesBar, busy <- (pc # "idle"), answer <- answerBar

ImplementsMap == Map!Spec
=============================================================================
