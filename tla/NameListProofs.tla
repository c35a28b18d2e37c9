--------------------------- MODULE NameListProofs ---------------------------
(***************************************************************************)
(* The inductive invariant of NameList, for lists of every length over any *)
(* set of names: the index stays sorted and complete, the searches keep    *)
(* their windows around the name they look for, and the owner's array      *)
(* stays in step.                                                          *)
(***************************************************************************)
EXTENDS NameList, TLAPS

IInv == TypeOK /\ Sorted /\ InStep /\ Window /\ Prepared

USE NameListAssumption

(***************************************************************************)
(* The middle of a non-empty window lies in it.                            *)
(***************************************************************************)
LEMMA MidInWindow ==
  ASSUME low \in Nat, high \in Int, low <= high
  PROVE  mid \in Int /\ low <= mid /\ mid <= high
  BY DEF mid

(***************************************************************************)
(* A search that ends without a hit has compared its way past every name.  *)
(***************************************************************************)
LEMMA EmptyWindowMisses ==
  ASSUME TypeOK, Sorted, Window, low > high,
         pc \in {"lookup", "check", "insert"}
  PROVE  \A p \in Positions : names[p] # req.name
<1> SUFFICES ASSUME NEW p \in Positions
             PROVE  names[p] # req.name
  OBVIOUS
<1>1. PICK i \in Positions : index[i] = p
  BY DEF Sorted
<1>2. i < low \/ i > high
  BY DEF TypeOK, Positions, Cells
<1>3. Key(i) \in Int /\ req.name \in Int
  BY DEF TypeOK, Key, Positions, Cells, Request
<1>4. Key(i) # req.name
  BY <1>2, <1>3 DEF Window
<1> QED
  BY <1>1, <1>4 DEF Key

(***************************************************************************)
(* The names in the list are distinct: their positions in the index are.   *)
(***************************************************************************)
LEMMA IndexInjective ==
  ASSUME TypeOK, Sorted,
         NEW i \in Positions, NEW j \in Positions, i # j
  PROVE  index[i] # index[j]
<1>1. Key(i) \in Int /\ Key(j) \in Int
  BY DEF TypeOK, Key, Positions, Cells
<1>2. Key(i) < Key(j) \/ Key(j) < Key(i)
  BY DEF Sorted, Positions, Cells
<1> QED
  BY <1>1, <1>2 DEF Key

LEMMA InitIInv == Init => IInv
  BY DEF Init, IInv, TypeOK, Sorted, InStep, Window, Prepared, Empty, Cells,
         Positions, Request

-----------------------------------------------------------------------------
(* One lemma per action.  A search step leaves the arrays alone.           *)

LEMMA CallIInv ==
  ASSUME IInv, NEW r \in Request, Call(r)
  PROVE  IInv'
<1>1. TypeOK'
  BY DEF IInv, TypeOK, Call, Start, nlist, owner, Positions, Cells
<1>2. Sorted' /\ InStep'
  BY DEF IInv, Sorted, InStep, Call, nlist, owner, Positions, Cells, Key
<1>3. Window'
  BY DEF IInv, TypeOK, Window, Call, Start, nlist, owner, Positions, Cells
<1>4. Prepared'
  BY DEF IInv, TypeOK, Prepared, Call, Start, nlist, owner, Positions, Cells,
         Request
<1> QED
  BY <1>1, <1>2, <1>3, <1>4 DEF IInv

LEMMA LeftIInv ==
  ASSUME IInv, SearchLeft \/ InsertLeft
  PROVE  IInv'
<1>1. mid \in Int /\ low <= mid /\ mid <= high
  BY MidInWindow DEF IInv, TypeOK, SearchLeft, InsertLeft, Searching
<1>2. TypeOK'
  <2>1. UNCHANGED <<nlist, owner, req, pc, low, ret>>
    BY DEF SearchLeft, InsertLeft
  <2>2. high' = mid - 1 /\ pos' \in {pos, mid}
    BY DEF SearchLeft, InsertLeft
  <2>3. TypeOK
    BY DEF IInv
  <2>4. high' \in Int /\ pos' \in Nat
    BY <1>1, <2>2, <2>3 DEF TypeOK
  <2> QED
    BY <2>1, <2>3, <2>4 DEF TypeOK, nlist, owner, Positions, Cells
<1>3. Sorted' /\ InStep'
  BY DEF IInv, Sorted, InStep, SearchLeft, InsertLeft, nlist, owner,
         Positions, Cells, Key
<1>4. Window'
  <2>1. mid \in Positions /\ req.name < Key(mid)
    BY <1>1 DEF IInv, TypeOK, Window, SearchLeft, InsertLeft, Searching,
                Positions, Cells
  <2>2. \A i \in Positions : i > mid - 1 => Key(i) > req.name
    <3> SUFFICES ASSUME NEW i \in Positions, i > mid - 1
                 PROVE  Key(i) > req.name
      OBVIOUS
    <3>1. Key(i) \in Int /\ Key(mid) \in Int /\ req.name \in Int
      BY <2>1 DEF IInv, TypeOK, Key, Positions, Cells, Request
    <3>2. i = mid \/ mid < i
      BY <1>1 DEF Positions, Cells
    <3> QED
      BY <2>1, <3>1, <3>2 DEF IInv, Sorted
  <2>3. UNCHANGED <<names, index, curr, req, low, pc>> /\ high' = mid - 1
    BY DEF SearchLeft, InsertLeft, nlist, owner
  <2>4. pc = "insert" => pos' = mid
    BY DEF SearchLeft, InsertLeft, Searching
  <2>5. pc \in {"lookup", "check", "insert"}
    BY DEF SearchLeft, InsertLeft, Searching
  <2>6. low' <= high' + 1 /\ high' < curr'
    BY <1>1, <2>1, <2>3 DEF IInv, TypeOK, Positions, Cells
  <2>7. \A i \in Positions : i < low  => Key(i) < req.name
    BY <2>5 DEF IInv, Window
  <2> QED
    BY <1>1, <2>2, <2>3, <2>4, <2>6, <2>7 DEF Window, Positions, Cells, Key
<1>5. Prepared'
  BY DEF IInv, Prepared, SearchLeft, InsertLeft, nlist, owner, Positions,
         Cells
<1> QED
  BY <1>2, <1>3, <1>4, <1>5 DEF IInv

LEMMA RightIInv ==
  ASSUME IInv, SearchRight \/ InsertRight
  PROVE  IInv'
<1>1. mid \in Int /\ low <= mid /\ mid <= high
  BY MidInWindow DEF IInv, TypeOK, SearchRight, InsertRight, Searching
<1>2. TypeOK'
  <2>1. UNCHANGED <<nlist, owner, req, pc, high, ret>>
    BY DEF SearchRight, InsertRight
  <2>2. low' = mid + 1 /\ pos' \in {pos, mid + 1}
    BY DEF SearchRight, InsertRight
  <2>3. TypeOK
    BY DEF IInv
  <2>4. low' \in Nat /\ pos' \in Nat
    BY <1>1, <2>2, <2>3 DEF TypeOK
  <2> QED
    BY <2>1, <2>3, <2>4 DEF TypeOK, nlist, owner, Positions, Cells
<1>3. Sorted' /\ InStep'
  BY DEF IInv, Sorted, InStep, SearchRight, InsertRight, nlist, owner,
         Positions, Cells, Key
<1>4. Window'
  <2>1. mid \in Positions /\ req.name > Key(mid)
    BY <1>1 DEF IInv, TypeOK, Window, SearchRight, InsertRight, Searching,
                Positions, Cells
  <2>2. \A i \in Positions : i < mid + 1 => Key(i) < req.name
    <3> SUFFICES ASSUME NEW i \in Positions, i < mid + 1
                 PROVE  Key(i) < req.name
      OBVIOUS
    <3>1. Key(i) \in Int /\ Key(mid) \in Int /\ req.name \in Int
      BY <2>1 DEF IInv, TypeOK, Key, Positions, Cells, Request
    <3>2. i = mid \/ i < mid
      BY <1>1 DEF Positions, Cells
    <3> QED
      BY <2>1, <3>1, <3>2 DEF IInv, Sorted
  <2>3. UNCHANGED <<names, index, curr, req, high, pc>> /\ low' = mid + 1
    BY DEF SearchRight, InsertRight, nlist, owner
  <2>4. pc = "insert" => pos' = mid + 1
    BY DEF SearchRight, InsertRight, Searching
  <2>5. pc \in {"lookup", "check", "insert"}
    BY DEF SearchRight, InsertRight, Searching
  <2>6. low' <= high' + 1 /\ high' < curr'
    BY <1>1, <2>3, <2>5 DEF IInv, TypeOK, Window
  <2>7. \A i \in Positions : i > high  => Key(i) > req.name
    BY <2>5 DEF IInv, Window
  <2> QED
    BY <1>1, <2>2, <2>3, <2>4, <2>6, <2>7 DEF Window, Positions, Cells, Key
<1>5. Prepared'
  BY DEF IInv, Prepared, SearchRight, InsertRight, nlist, owner, Positions,
         Cells
<1> QED
  BY <1>2, <1>3, <1>4, <1>5 DEF IInv

(***************************************************************************)
(* A hit returns, and at most overwrites the flag and the object at the    *)
(* position found.                                                         *)
(***************************************************************************)
LEMMA HitIInv ==
  ASSUME IInv, LookupHit \/ CheckHit
  PROVE  IInv'
<1>1. mid \in Positions
  <2>1. low <= high /\ pc \in {"lookup", "check"}
    BY DEF LookupHit, CheckHit, Searching
  <2> QED
    BY <2>1, MidInWindow DEF IInv, TypeOK, Window, Positions, Cells
<1>2. index[mid] \in Positions
  BY <1>1 DEF IInv, TypeOK
<1>3. req.flag \in Flag
  BY DEF IInv, TypeOK, Request
<1>4. req.op = "add_var" => req.obj \in Object
  BY DEF IInv, TypeOK, Request
<1>5. UNCHANGED <<names, index, curr, max, ocurr, omax, req>>
  BY DEF LookupHit, CheckHit, Return, owner
<1>6. pc' = "idle" /\ low' = 0 /\ high' = -1 /\ pos' = 0 /\ ret' = index[mid]
  BY DEF LookupHit, CheckHit, Return
<1>7. inform' \in [Positions -> Flag]
  BY <1>2, <1>3 DEF IInv, TypeOK, LookupHit, CheckHit, Put
<1>8. objs' \in [Cells(ocurr) -> Object]
  BY <1>2, <1>4 DEF IInv, TypeOK, LookupHit, CheckHit, Put, owner, InStep,
                    Positions
<1>9. TypeOK'
  BY <1>2, <1>5, <1>6, <1>7, <1>8 DEF IInv, TypeOK, Positions, Cells
<1> QED
  BY <1>5, <1>6, <1>9 DEF IInv, Sorted, InStep, Window, Prepared, Positions,
                          Cells, Key

LEMMA LookupMissIInv ==
  ASSUME IInv, LookupMiss
  PROVE  IInv'
<1>1. \A p \in Positions : names[p] # req.name
  BY EmptyWindowMisses DEF IInv, LookupMiss
<1>2. UNCHANGED <<nlist, objs, ocurr, req>> /\ pc = "lookup"
  BY DEF LookupMiss, Return
<1>3. Sorted'
  BY <1>2 DEF IInv, Sorted, nlist, Positions, Cells, Key
<1>4. CASE req.op = "find"
  BY <1>2, <1>3, <1>4 DEF IInv, TypeOK, InStep, Window, Prepared, LookupMiss,
       Return, nlist, Positions, Cells
<1>5. CASE req.op # "find"
  <2>1. Start("check")
    BY <1>5 DEF LookupMiss
  <2>2. omax' \in Nat /\ ocurr < omax'
    BY <1>5 DEF IInv, TypeOK, InStep, LookupMiss, Grown
  <2>3. ret' = ret
    BY <1>5 DEF LookupMiss
  <2>4. TypeOK'
    BY <1>2, <2>1, <2>2, <2>3 DEF IInv, TypeOK, Start, nlist, Positions, Cells
  <2>5. InStep' /\ Window'
    BY <1>2, <2>1, <2>2 DEF IInv, TypeOK, InStep, Window, Start, nlist,
                            Positions, Cells
  <2>6. Prepared'
    BY <1>1, <1>2, <1>5, <2>1, <2>2 DEF IInv, TypeOK, Prepared, Start, nlist,
                                        Positions, Cells
  <2> QED
    BY <1>3, <2>4, <2>5, <2>6 DEF IInv
<1> QED
  BY <1>4, <1>5

(***************************************************************************)
(* Only a caller that adds misses here: one that marks has found the name. *)
(***************************************************************************)
LEMMA CheckMissIInv ==
  ASSUME IInv, CheckMiss
  PROVE  IInv'
<1>1. \A p \in Positions : names[p] # req.name
  BY EmptyWindowMisses DEF IInv, CheckMiss
<1>2. UNCHANGED <<nlist, owner, req, ret>> /\ pc = "check" /\ Start("insert")
  BY DEF CheckMiss
<1>3. Sorted' /\ InStep'
  BY <1>2 DEF IInv, Sorted, InStep, nlist, owner, Positions, Cells, Key
<1>4. TypeOK' /\ Window'
  BY <1>2 DEF IInv, TypeOK, Window, Start, nlist, owner, Positions, Cells
<1>5. Prepared'
  BY <1>1, <1>2 DEF IInv, Prepared, Start, nlist, owner, Positions, Cells
<1> QED
  BY <1>3, <1>4, <1>5 DEF IInv

(***************************************************************************)
(* The new name is stored last and its position enters the index where the *)
(* empty window stands.                                                    *)
(***************************************************************************)
LEMMA StoreIInv ==
  ASSUME IInv, Store
  PROVE  IInv'
<1>1. /\ pos \in 0 .. curr
      /\ \A i \in Positions : i < pos => Key(i) < req.name
      /\ \A i \in Positions : i >= pos => Key(i) > req.name
  BY DEF IInv, TypeOK, Window, Store, Positions, Cells
<1>2. req.op # "mark"
  BY DEF IInv, Prepared, Store
<1>3. req.obj \in Object /\ req.flag \in Flag /\ req.name \in Name
  BY <1>2 DEF IInv, TypeOK, Prepared, Store, Request
<1>4. curr' = curr + 1 /\ ocurr' = ocurr + 1 /\ ocurr = curr /\ curr \in Nat
  BY DEF IInv, TypeOK, InStep, Store
<1>5. /\ names' \in [Positions' -> Name]
      /\ inform' \in [Positions' -> Flag]
      /\ objs' \in [Cells(ocurr)' -> Object]
  BY <1>3, <1>4 DEF IInv, TypeOK, Store, Push, Positions, Cells
<1>6. index' \in [Positions' -> Positions']
  BY <1>1, <1>4 DEF IInv, TypeOK, Store, Shifted, Positions, Cells
<1>7. TypeOK'
  <2>1. max' \in Nat /\ omax' \in Nat
    BY DEF IInv, TypeOK, Store, Grown
  <2> QED
    BY <1>4, <1>5, <1>6, <2>1 DEF IInv, TypeOK, Store, Return
<1>8. \A i \in Positions' : Key(i)' = IF i < pos THEN Key(i)
                                      ELSE IF i = pos THEN req.name
                                      ELSE Key(i - 1)
  BY <1>1, <1>4 DEF IInv, TypeOK, Store, Shifted, Push, Key, Positions, Cells
<1>9. \A i, j \in Positions' : i < j => Key(i)' < Key(j)'
  <2> SUFFICES ASSUME NEW i \in Positions', NEW j \in Positions', i < j
               PROVE  Key(i)' < Key(j)'
    OBVIOUS
  <2> DEFINE old(n) == IF n < pos THEN n ELSE n - 1
  <2>1. i \in Int /\ j \in Int /\ 0 <= i /\ j <= curr
    BY <1>4 DEF Positions, Cells
  <2>2. CASE i # pos /\ j # pos
    <3>1. old(i) \in Positions /\ old(j) \in Positions /\ old(i) < old(j)
      BY <1>1, <1>4, <2>1, <2>2 DEF Positions, Cells
    <3>2. Key(old(i)) < Key(old(j))
      BY <3>1 DEF IInv, Sorted
    <3> QED
      BY <1>8, <2>1, <2>2, <3>2
  <2>3. CASE i = pos
    <3>1. j - 1 \in Positions /\ j - 1 >= pos
      BY <1>1, <1>4, <2>1, <2>3 DEF Positions, Cells
    <3>2. Key(j - 1) \in Int /\ req.name \in Int
      BY <1>3, <3>1 DEF IInv, TypeOK, Key, Positions
    <3> QED
      BY <1>1, <1>8, <2>1, <2>3, <3>1, <3>2
  <2>4. CASE j = pos
    <3>1. i \in Positions /\ i < pos
      BY <1>1, <1>4, <2>1, <2>4 DEF Positions, Cells
    <3> QED
      BY <1>1, <1>8, <2>1, <2>4, <3>1
  <2> QED
    BY <2>2, <2>3, <2>4
<1>10. \A p \in Positions' : \E i \in Positions' : index'[i] = p
  <2> SUFFICES ASSUME NEW p \in Positions'
               PROVE  \E i \in Positions' : index'[i] = p
    OBVIOUS
  <2>0. index' = Shifted(pos, curr)
    BY DEF Store
  <2>1. CASE p = curr
    <3>1. pos \in Positions' /\ index'[pos] = curr
      BY <1>1, <1>4, <2>0 DEF Shifted, Positions, Cells
    <3> QED
      BY <2>1, <3>1
  <2>2. CASE p # curr
    <3>1. p \in Positions
      BY <1>4, <2>2 DEF Positions, Cells
    <3>2. PICK i \in Positions : index[i] = p
      BY <3>1 DEF IInv, Sorted
    <3>3. CASE i < pos
      BY <1>1, <1>4, <2>0, <3>2, <3>3 DEF Shifted, Positions, Cells
    <3>4. CASE i >= pos
      <4>1. i + 1 \in Positions' /\ index'[i + 1] = index[i]
        BY <1>1, <1>4, <2>0, <3>4 DEF Shifted, Positions, Cells
      <4> QED
        BY <3>2, <4>1
    <3> QED
      BY <1>1, <1>4, <3>3, <3>4 DEF Positions, Cells
  <2> QED
    BY <2>1, <2>2
<1>11. InStep'
  BY DEF IInv, TypeOK, InStep, Prepared, Store, Grown, Return
<1>12. Window' /\ Prepared'
  BY DEF Store, Return, Window, Prepared
<1> QED
  BY <1>7, <1>9, <1>10, <1>11, <1>12 DEF IInv, Sorted

(***************************************************************************)
(* Removal closes the gap in the index and lets the last name take the     *)
(* free position; the keys that remain keep their order.                   *)
(***************************************************************************)
LEMMA RemoveHitIInv ==
  ASSUME IInv, RemoveHit
  PROVE  IInv'
<1>1. PICK i \in Positions :
        /\ Key(i) = req.name
        /\ index' = Closed(i, index[i])
        /\ inform' = MoveLast(inform, index[i], curr)
        /\ names' = MoveLast(names, index[i], curr)
        /\ OwnerMoves(index[i])
        /\ Return(index[i])
  BY DEF RemoveHit
<1>2. curr' = curr - 1 /\ ocurr' = curr' /\ ocurr = curr /\ curr \in Nat \ {0}
  BY DEF IInv, TypeOK, InStep, RemoveHit, Positions, Cells
<1> DEFINE k == index[i]
           old(j) == IF j < i THEN j ELSE j + 1
<1>3. k \in Positions
  BY DEF IInv, TypeOK
<1>4. ASSUME NEW j \in Positions'
      PROVE  /\ old(j) \in Positions /\ old(j) # i
             /\ index[old(j)] \in Positions /\ index[old(j)] # k
  <2>1. old(j) \in Positions /\ old(j) # i
    BY <1>2 DEF Positions, Cells
  <2> QED
    BY <2>1, IndexInjective DEF IInv, TypeOK
<1>5. ASSUME NEW j \in Positions'
      PROVE  index'[j] = IF index[old(j)] = curr - 1 THEN k ELSE index[old(j)]
  BY <1>1, <1>2 DEF Closed, Positions, Cells
<1>6. ASSUME NEW j \in Positions'
      PROVE  index'[j] \in Positions'
  <2>1. CASE index[old(j)] = curr - 1
    BY <1>2, <1>3, <1>4, <1>5, <2>1 DEF Positions, Cells
  <2>2. CASE index[old(j)] # curr - 1
    BY <1>2, <1>4, <1>5, <2>2 DEF Positions, Cells
  <2> QED
    BY <2>1, <2>2
<1>7. /\ names' \in [Positions' -> Name]
      /\ inform' \in [Positions' -> Flag]
      /\ objs' \in [Cells(ocurr)' -> Object]
  <2>1. Positions' = Cells(curr - 1) /\ Cells(ocurr)' = Cells(curr - 1)
    BY <1>2 DEF Positions, Cells
  <2>2. ASSUME NEW f, NEW S, f \in [Positions -> S]
        PROVE  MoveLast(f, k, curr) \in [Cells(curr - 1) -> S]
    BY <1>2, <2>2 DEF MoveLast, Positions, Cells
  <2>3. MoveLast(names, k, curr) \in [Cells(curr - 1) -> Name]
    BY <2>2 DEF IInv, TypeOK
  <2>4. MoveLast(inform, k, curr) \in [Cells(curr - 1) -> Flag]
    BY <2>2 DEF IInv, TypeOK
  <2>5. MoveLast(objs, k, ocurr) \in [Cells(curr - 1) -> Object]
    BY <1>2, <2>2 DEF IInv, TypeOK, Positions
  <2> QED
    BY <1>1, <2>1, <2>3, <2>4, <2>5 DEF OwnerMoves
<1>8. index' \in [Positions' -> Positions']
  <2>1. index' = [j \in Positions' |-> index'[j]]
    BY <1>1, <1>2 DEF Closed, Positions
  <2> QED
    BY <1>6, <2>1
<1>9. TypeOK'
  <2>1. curr' \in Nat /\ ocurr' \in Nat
    BY <1>2
  <2>2. UNCHANGED <<max, omax, req>>
    BY <1>1 DEF RemoveHit, Return
  <2>3. k \in Int
    BY <1>2, <1>3 DEF Positions, Cells
  <2>4. pc' = "idle" /\ low' = 0 /\ high' = -1 /\ pos' = 0 /\ ret' = k
    BY <1>1 DEF Return
  <2> QED
    BY <1>7, <1>8, <2>1, <2>2, <2>3, <2>4 DEF IInv, TypeOK
<1>10. ASSUME NEW j \in Positions'
       PROVE  Key(j)' = Key(old(j))
  <2>1. CASE index[old(j)] = curr - 1
    BY <1>1, <1>2, <1>3, <1>4, <1>5, <1>6, <2>1
       DEF Key, MoveLast, Positions, Cells
  <2>2. CASE index[old(j)] # curr - 1
    BY <1>1, <1>2, <1>3, <1>4, <1>5, <1>6, <2>2
       DEF Key, MoveLast, Positions, Cells
  <2> QED
    BY <2>1, <2>2
<1>11. \A j1, j2 \in Positions' : j1 < j2 => Key(j1)' < Key(j2)'
  <2> SUFFICES ASSUME NEW j1 \in Positions', NEW j2 \in Positions', j1 < j2
               PROVE  Key(j1)' < Key(j2)'
    OBVIOUS
  <2>1. old(j1) < old(j2)
    BY <1>2 DEF Positions, Cells
  <2>2. Key(old(j1)) < Key(old(j2))
    BY <1>4, <2>1 DEF IInv, Sorted
  <2> QED
    BY <1>10, <2>2
<1>12. \A p \in Positions' : \E j \in Positions' : index'[j] = p
  <2> SUFFICES ASSUME NEW p \in Positions'
               PROVE  \E j \in Positions' : index'[j] = p
    OBVIOUS
  <2> DEFINE q == IF p = k THEN curr - 1 ELSE p
             new(m) == IF m < i THEN m ELSE m - 1
  <2>1. q \in Positions /\ q # k
    BY <1>2, <1>3 DEF Positions, Cells
  <2>2. PICK m \in Positions : index[m] = q
    BY <2>1 DEF IInv, Sorted
  <2>3. m # i
    BY <2>1, <2>2
  <2>4. new(m) \in Positions' /\ old(new(m)) = m
    BY <1>2, <2>3 DEF Positions, Cells
  <2>5. index'[new(m)] = IF q = curr - 1 THEN k ELSE q
    BY <1>5, <2>2, <2>4
  <2>6. p # curr - 1
    BY <1>2 DEF Positions, Cells
  <2>7. index'[new(m)] = p
    BY <2>5, <2>6
  <2> QED
    BY <2>4, <2>7
<1>13. InStep'
  BY <1>2 DEF IInv, TypeOK, InStep, RemoveHit
<1>14. Window' /\ Prepared'
  BY <1>1 DEF Return, Window, Prepared
<1> QED
  BY <1>9, <1>11, <1>12, <1>13, <1>14 DEF IInv, Sorted

LEMMA RemoveMissIInv ==
  ASSUME IInv, RemoveMiss
  PROVE  IInv'
<1>1. UNCHANGED <<nlist, owner, req>> /\ pc' = "idle" /\ low' = 0
      /\ high' = -1 /\ pos' = 0 /\ ret' = -1
  BY DEF RemoveMiss, Return
<1>2. TypeOK'
  BY <1>1 DEF IInv, TypeOK, nlist, owner, Positions, Cells
<1>3. Sorted' /\ InStep' /\ Window' /\ Prepared'
  BY <1>1 DEF IInv, Sorted, InStep, Window, Prepared, nlist, owner, Positions,
              Cells, Key
<1> QED
  BY <1>2, <1>3 DEF IInv

LEMMA StutterIInv ==
  ASSUME IInv, UNCHANGED vars
  PROVE  IInv'
  BY DEF IInv, TypeOK, Sorted, InStep, Window, Prepared, vars, nlist, owner,
         loop, Positions, Cells, Key

LEMMA NextIInv == IInv /\ [Next]_vars => IInv'
<1> SUFFICES ASSUME IInv, [Next]_vars
             PROVE  IInv'
  OBVIOUS
<1> QED
  BY CallIInv, LeftIInv, RightIInv, HitIInv, LookupMissIInv, CheckMissIInv,
     StoreIInv, RemoveHitIInv, RemoveMissIInv, StutterIInv
     DEF Next, Work, Search, Add

-----------------------------------------------------------------------------
(***************************************************************************)
(* Every reachable state satisfies the inductive invariant.                *)
(***************************************************************************)
THEOREM Invariance == Spec => []IInv
  BY InitIInv, NextIInv, PTL DEF Spec

(***************************************************************************)
(* The arrays, counters and loop variables keep their types: in particular *)
(* every entry of the index is a cell in use.                              *)
(***************************************************************************)
THEOREM TypeCorrect == Spec => []TypeOK
<1>1. IInv => TypeOK
  BY DEF IInv
<1> QED
  BY <1>1, Invariance, PTL

(***************************************************************************)
(* The index is sorted, without repetition, and complete.                  *)
(***************************************************************************)
THEOREM IndexSorted == Spec => []Sorted
<1>1. IInv => Sorted
  BY DEF IInv
<1> QED
  BY <1>1, Invariance, PTL

(***************************************************************************)
(* The owner's array has one object per name, within its allocation.       *)
(***************************************************************************)
THEOREM OwnerInStep == Spec => []InStep
<1>1. IInv => InStep
  BY DEF IInv
<1> QED
  BY <1>1, Invariance, PTL

(***************************************************************************)
(* The searches never lose the name they look for.                         *)
(***************************************************************************)
THEOREM SearchWindow == Spec => []Window
<1>1. IInv => Window
  BY DEF IInv
<1> QED
  BY <1>1, Invariance, PTL

-----------------------------------------------------------------------------
(***************************************************************************)
(* The sorted arrays implement the map of NameMap: every step of the code  *)
(* is a step of the map or leaves it as it is.                             *)
(***************************************************************************)
EntryAt(p) == [name |-> names[p], flag |-> inform[p], obj |-> objs[p]]

(***************************************************************************)
(* A name stands at one position only.                                     *)
(***************************************************************************)
LEMMA NamesDistinct ==
  ASSUME IInv, NEW p \in Positions, NEW q \in Positions, names[p] = names[q]
  PROVE  p = q
<1>1. PICK i \in Positions, j \in Positions : index[i] = p /\ index[j] = q
  BY DEF IInv, Sorted
<1>2. Key(i) \in Int /\ Key(i) = Key(j)
  BY <1>1, NameListAssumption DEF IInv, TypeOK, Key, Positions
<1>3. ~(i < j) /\ ~(j < i)
  BY <1>2 DEF IInv, Sorted
<1> QED
  BY <1>1, <1>3 DEF Positions, Cells

LEMMA HasIsStored ==
  ASSUME NEW n
  PROVE  Map!Has(n) <=> \E p \in Positions : names[p] = n
<1>1. entriesBar = {EntryAt(p) : p \in Positions}
  BY DEF entriesBar, EntryAt
<1>2. \A p \in Positions : EntryAt(p).name = names[p]
  BY DEF EntryAt
<1> QED
  BY <1>1, <1>2 DEF Map!Has

(***************************************************************************)
(* The entries without the one at position k.                              *)
(***************************************************************************)
LEMMA WithoutOne ==
  ASSUME IInv, NEW k \in Positions
  PROVE  Map!Without(names[k]) = {EntryAt(p) : p \in Positions \ {k}}
<1>1. entriesBar = {EntryAt(p) : p \in Positions}
  BY DEF entriesBar, EntryAt
<1>2. \A p \in Positions : EntryAt(p).name = names[p]
  BY DEF EntryAt
<1>3. \A p \in Positions : names[p] = names[k] <=> p = k
  BY NamesDistinct
<1>4. Map!Without(names[k]) = {e \in entriesBar : e.name # names[k]}
  BY DEF Map!Without
<1> QED
  BY <1>1, <1>2, <1>3, <1>4

(***************************************************************************)
(* A step that moves only a search window is not seen by the map.          *)
(***************************************************************************)
LEMMA HiddenStep ==
  ASSUME UNCHANGED <<names, inform, curr, objs, req>>,
         pc # "idle", pc' # "idle"
  PROVE  UNCHANGED Map!vars
  BY DEF Map!vars, entriesBar, answerBar, Positions, Cells

LEMMA AskStep ==
  ASSUME IInv, NEW r \in Request, Call(r)
  PROVE  Map!Ask(r)
<1>1. pc = "idle" /\ pc' # "idle" /\ req' = r
  BY DEF Call, Start
<1>2. entriesBar' = entriesBar
  BY DEF Call, nlist, owner, entriesBar, Positions, Cells
<1>3. answerBar' = None
  BY <1>1 DEF answerBar
<1>4. r.op = "mark" => Map!Has(r.name)
  BY HasIsStored DEF Call
<1> QED
  BY <1>1, <1>2, <1>3, <1>4 DEF Map!Ask

(***************************************************************************)
(* The object and the flag at the position of a name that is there change  *)
(* to o and f: in the map, one entry is replaced.                          *)
(***************************************************************************)
LEMMA ReplaceEntry ==
  ASSUME IInv, NEW k \in Positions, NEW o, NEW f,
         objs' = Put(objs, k, o), inform' = Put(inform, k, f),
         UNCHANGED <<names, curr>>
  PROVE  entriesBar' = Map!Without(names[k]) \union
                         {[name |-> names[k], flag |-> f, obj |-> o]}
<1>1. \A p \in Positions :
        EntryAt(p)' = IF p = k THEN [name |-> names[k], flag |-> f, obj |-> o]
                               ELSE EntryAt(p)
  BY DEF IInv, TypeOK, InStep, Put, EntryAt, Positions
<1>2. entriesBar' = {EntryAt(p)' : p \in Positions}
  BY DEF entriesBar, EntryAt, Positions, Cells
<1>3. entriesBar' = {EntryAt(p) : p \in Positions \ {k}} \union
                      {[name |-> names[k], flag |-> f, obj |-> o]}
  BY <1>1, <1>2
<1> QED
  BY <1>3, WithoutOne

LEMMA HitStep ==
  ASSUME IInv, LookupHit \/ CheckHit
  PROVE  Map!Answer
<1> DEFINE k == index[mid]
<1>1. mid \in Positions /\ k \in Positions
  <2>1. low <= high /\ pc \in {"lookup", "check"}
    BY DEF LookupHit, CheckHit, Searching
  <2>2. mid \in Positions
    BY <2>1, MidInWindow DEF IInv, TypeOK, Window, Positions, Cells
  <2> QED
    BY <2>2 DEF IInv, TypeOK
<1>2. names[k] = req.name
  BY DEF LookupHit, CheckHit, Key
<1>3. pc # "idle" /\ pc' = "idle" /\ ret' = k /\ UNCHANGED <<names, curr, req>>
  BY DEF LookupHit, CheckHit, Return
<1>4. EntryAt(k) \in entriesBar /\ Map!Has(req.name)
  BY <1>1, <1>2, HasIsStored DEF entriesBar, EntryAt
<1>5. Put(objs, k, objs[k]) = objs /\ Put(inform, k, inform[k]) = inform
  BY <1>1 DEF IInv, TypeOK, InStep, Put, Positions
<1>6. CASE LookupHit /\ req.op = "find"
  <2>1. UNCHANGED <<objs, inform>>
    BY <1>6 DEF LookupHit
  <2>2. entriesBar' = entriesBar
    BY <1>3, <2>1 DEF entriesBar, Positions, Cells
  <2>3. answerBar' = objs[k]
    BY <1>1, <1>3, <1>6, <2>1 DEF answerBar, Positions, Cells
  <2>4. Map!AnswerFind
    BY <1>2, <1>4, <1>6, <2>2, <2>3 DEF Map!AnswerFind, EntryAt
  <2> QED
    BY <1>3, <2>4 DEF Map!Answer
<1>7. CASE LookupHit /\ req.op = "add_node"
  <2>1. UNCHANGED <<objs, inform>>
    BY <1>7 DEF LookupHit
  <2>2. entriesBar' = entriesBar /\ answerBar' = None
    BY <1>3, <1>7, <2>1 DEF entriesBar, answerBar, Positions, Cells
  <2>3. Map!AnswerAddNode
    BY <1>4, <1>7, <2>2 DEF Map!AnswerAddNode
  <2> QED
    BY <1>3, <2>3 DEF Map!Answer
<1>8. CASE LookupHit /\ req.op = "add_var"
  <2> DEFINE f == IF req.flag = 1 THEN 1 ELSE inform[k]
  <2>1. objs' = Put(objs, k, req.obj) /\ inform' = Put(inform, k, f)
    BY <1>5, <1>8 DEF LookupHit
  <2>2. entriesBar' = Map!Without(names[k]) \union
                        {[name |-> names[k], flag |-> f, obj |-> req.obj]}
    BY <1>1, <1>3, <2>1, ReplaceEntry
  <2>3. answerBar' = None
    BY <1>3, <1>8 DEF answerBar
  <2>4. EntryAt(k).name = req.name /\ EntryAt(k).flag = inform[k]
    BY <1>2 DEF EntryAt
  <2>5. entriesBar' = Map!Without(req.name) \union
          {[name |-> req.name, obj |-> req.obj,
            flag |-> IF req.flag = 1 THEN 1 ELSE EntryAt(k).flag]}
    BY <1>2, <2>2, <2>4
  <2>6. Map!AnswerAddVar
    BY <1>4, <1>8, <2>3, <2>4, <2>5 DEF Map!AnswerAddVar
  <2> QED
    BY <1>3, <2>6 DEF Map!Answer
<1>9. CASE CheckHit
  <2>1. req.op = "mark"
    BY <1>1, <1>2, <1>9 DEF IInv, Prepared, CheckHit
  <2>2. objs' = Put(objs, k, objs[k]) /\ inform' = Put(inform, k, req.flag)
    BY <1>5, <1>9 DEF CheckHit, owner
  <2>3. entriesBar' = Map!Without(names[k]) \union
                        {[name |-> names[k], flag |-> req.flag, obj |-> objs[k]]}
    BY <1>1, <1>3, <2>2, ReplaceEntry
  <2>4. answerBar' = None
    BY <1>3, <2>1 DEF answerBar
  <2>5. EntryAt(k).name = req.name /\ EntryAt(k).obj = objs[k]
    BY <1>2 DEF EntryAt
  <2>6. Map!AnswerMark
    BY <1>2, <1>4, <2>1, <2>3, <2>4, <2>5 DEF Map!AnswerMark
  <2> QED
    BY <1>3, <2>6 DEF Map!Answer
<1>10. LookupHit => req.op \in {"find", "add_node", "add_var"}
  BY DEF IInv, Prepared, LookupHit
<1> QED
  BY <1>6, <1>7, <1>8, <1>9, <1>10

LEMMA MissStep ==
  ASSUME IInv, LookupMiss
  PROVE  Map!Answer \/ UNCHANGED Map!vars
<1>1. \A p \in Positions : names[p] # req.name
  BY EmptyWindowMisses DEF IInv, LookupMiss
<1>2. UNCHANGED <<nlist, objs, ocurr, req>> /\ pc = "lookup"
  BY DEF LookupMiss, Return
<1>3. CASE req.op = "find"
  <2>1. pc' = "idle" /\ ret' = -1
    BY <1>3 DEF LookupMiss, Return
  <2>2. entriesBar' = entriesBar /\ answerBar' = None
    BY <1>2, <2>1 DEF nlist, entriesBar, answerBar, Positions, Cells
  <2>3. Map!AnswerFind
    BY <1>1, <1>3, <2>2, HasIsStored DEF Map!AnswerFind
  <2> QED
    BY <1>2, <2>1, <2>3 DEF Map!Answer
<1>4. CASE req.op # "find"
  BY <1>2, <1>4, HiddenStep DEF LookupMiss, Start, nlist
<1> QED
  BY <1>3, <1>4

LEMMA StoreStep ==
  ASSUME IInv, Store
  PROVE  Map!Answer
<1> DEFINE new == [name |-> req.name, flag |-> req.flag, obj |-> req.obj]
<1>1. /\ curr \in Nat /\ ocurr = curr /\ curr' = curr + 1
      /\ pc = "insert" /\ pc' = "idle" /\ req' = req
  BY DEF IInv, TypeOK, InStep, Store, Return
<1>2. req.op \in {"add_node", "add_var"}
  BY <1>1 DEF IInv, Prepared
<1>3. ~Map!Has(req.name)
  BY <1>1, <1>2, HasIsStored DEF IInv, Prepared
<1>4. \A p \in Positions' : EntryAt(p)' = IF p = curr THEN new ELSE EntryAt(p)
  BY <1>1 DEF Store, Push, EntryAt, Positions, Cells
<1>5. Positions' = Positions \union {curr} /\ curr \notin Positions
  BY <1>1 DEF Positions, Cells
<1>6. entriesBar' = entriesBar \union {new}
  <2>1. entriesBar' = {EntryAt(p)' : p \in Positions'}
    BY DEF entriesBar, EntryAt
  <2>2. entriesBar = {EntryAt(p) : p \in Positions}
    BY DEF entriesBar, EntryAt
  <2> QED
    BY <1>4, <1>5, <2>1, <2>2
<1>7. answerBar' = None
  BY <1>1, <1>2 DEF answerBar
<1>8. Map!AnswerAddNode \/ Map!AnswerAddVar
  BY <1>2, <1>3, <1>6, <1>7 DEF Map!AnswerAddNode, Map!AnswerAddVar, Map!Insert
<1> QED
  BY <1>1, <1>8 DEF Map!Answer

LEMMA RemoveHitStep ==
  ASSUME IInv, RemoveHit
  PROVE  Map!Answer
<1>1. PICK i \in Positions :
        /\ Key(i) = req.name
        /\ inform' = MoveLast(inform, index[i], curr)
        /\ names' = MoveLast(names, index[i], curr)
        /\ OwnerMoves(index[i])
        /\ Return(index[i])
  BY DEF RemoveHit
<1> DEFINE k == index[i]
           from(p) == IF p = k THEN curr - 1 ELSE p
<1>2. /\ curr \in Nat \ {0} /\ curr' = curr - 1 /\ ocurr = curr
      /\ pc = "remove" /\ pc' = "idle" /\ req' = req
  BY <1>1 DEF IInv, TypeOK, InStep, RemoveHit, Return, Positions, Cells
<1>3. k \in Positions /\ names[k] = req.name /\ req.op = "remove"
  BY <1>1, <1>2 DEF IInv, TypeOK, Key, Prepared
<1>4. \A p \in Positions' : EntryAt(p)' = EntryAt(from(p))
  BY <1>1, <1>2 DEF MoveLast, OwnerMoves, EntryAt, Positions, Cells
<1>5. \A p \in Positions' : from(p) \in Positions \ {k}
  BY <1>2, <1>3 DEF Positions, Cells
<1>6. \A q \in Positions \ {k} : \E p \in Positions' : from(p) = q
  <2> SUFFICES ASSUME NEW q \in Positions \ {k}
               PROVE  \E p \in Positions' : from(p) = q
    OBVIOUS
  <2>1. CASE q = curr - 1
    <3>1. k \in Positions' /\ from(k) = q
      BY <1>2, <1>3, <2>1 DEF Positions, Cells
    <3> QED
      BY <3>1
  <2>2. CASE q # curr - 1
    <3>1. q \in Positions' /\ from(q) = q
      BY <1>2, <2>2 DEF Positions, Cells
    <3> QED
      BY <3>1
  <2> QED
    BY <2>1, <2>2
<1>7. entriesBar' = {EntryAt(p)' : p \in Positions'}
  BY DEF entriesBar, EntryAt
<1>8. entriesBar' = {EntryAt(q) : q \in Positions \ {k}}
  <2> HIDE DEF from
  <2> QED
    BY <1>4, <1>5, <1>6, <1>7
<1>9. entriesBar' = Map!Without(req.name)
  BY <1>3, <1>8, WithoutOne
<1>10. answerBar' = None
  BY <1>2, <1>3 DEF answerBar
<1> QED
  BY <1>2, <1>3, <1>9, <1>10 DEF Map!Answer, Map!AnswerRemove

LEMMA RemoveMissStep ==
  ASSUME IInv, RemoveMiss
  PROVE  Map!Answer
<1>1. /\ UNCHANGED <<names, inform, curr, objs, req>>
      /\ pc = "remove" /\ pc' = "idle"
  BY DEF RemoveMiss, Return, nlist, owner
<1>2. \A p \in Positions : names[p] # req.name
  <2> SUFFICES ASSUME NEW p \in Positions PROVE names[p] # req.name
    OBVIOUS
  <2>1. PICK i \in Positions : index[i] = p
    BY DEF IInv, Sorted
  <2> QED
    BY <2>1 DEF RemoveMiss, Key
<1>3. req.op = "remove"
  BY <1>1 DEF IInv, Prepared
<1>4. entriesBar' = entriesBar /\ answerBar' = None
  BY <1>1, <1>3 DEF entriesBar, answerBar, Positions, Cells
<1>5. Map!Without(req.name) = entriesBar
  BY <1>2 DEF Map!Without, entriesBar
<1> QED
  BY <1>1, <1>3, <1>4, <1>5 DEF Map!Answer, Map!AnswerRemove

LEMMA InitMaps == Init => Map!Init
  BY DEF Init, Map!Init, Empty, Cells, entriesBar, answerBar, Positions,
         Request, Map!Request

LEMMA NextMaps == IInv /\ [Next]_vars => [Map!Next]_Map!vars
<1> SUFFICES ASSUME IInv, [Next]_vars
             PROVE  [Map!Next]_Map!vars
  OBVIOUS
<1>1. ASSUME NEW r \in Request, Call(r)
      PROVE  Map!Next
  BY <1>1, AskStep DEF Map!Next, Map!Request, Request
<1>2. CASE SearchLeft \/ SearchRight \/ InsertLeft \/ InsertRight \/ CheckMiss
  <2>1. UNCHANGED <<nlist, owner, req>> /\ pc # "idle" /\ pc' # "idle"
    BY <1>2 DEF SearchLeft, SearchRight, InsertLeft, InsertRight, CheckMiss,
                Searching, Start
  <2> QED
    BY <2>1, HiddenStep DEF nlist, owner
<1>3. CASE LookupHit \/ CheckHit
  BY <1>3, HitStep DEF Map!Next
<1>4. CASE LookupMiss
  BY <1>4, MissStep DEF Map!Next
<1>5. CASE Store
  BY <1>5, StoreStep DEF Map!Next
<1>6. CASE RemoveHit
  BY <1>6, RemoveHitStep DEF Map!Next
<1>7. CASE RemoveMiss
  BY <1>7, RemoveMissStep DEF Map!Next
<1>8. CASE UNCHANGED vars
  BY <1>8 DEF vars, nlist, owner, Map!vars, entriesBar, answerBar, Positions,
              Cells
<1> QED
  BY <1>1, <1>2, <1>3, <1>4, <1>5, <1>6, <1>7, <1>8
     DEF Next, Work, Search, Add

(***************************************************************************)
(* The sorted index and the owner's array behave, towards every caller, as *)
(* a map from names to objects and flags.                                  *)
(***************************************************************************)
THEOREM Refinement == Spec => ImplementsMap
  BY InitMaps, NextMaps, Invariance, PTL DEF Spec, ImplementsMap, Map!Spec
=============================================================================
