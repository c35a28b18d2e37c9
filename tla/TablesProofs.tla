---------------------------- MODULE TablesProofs ----------------------------
(***************************************************************************)
(* The register of tables, for any tables and commands: what the lists and *)
(* the addresses have to do with each other, and the row that is free.     *)
(***************************************************************************)
EXTENDS Tables, Induction, FiniteSetTheorems, SequenceTheorems

-----------------------------------------------------------------------------
(* Tables.                                                                 *)

IsTable(table) ==
  /\ table = [name |-> table.name, columns |-> table.columns, org |-> table.org,
              dynamic |-> table.dynamic, curr |-> table.curr, max |-> table.max,
              cells |-> table.cells]
  /\ table.curr \in Nat /\ table.max \in Nat

(***************************************************************************)
(* No table is a null pointer, and no null pointer is an address.          *)
(***************************************************************************)
NoneIsApart == ~IsTable(None) /\ None \notin Id

LEMMA NewTableIs ==
  ASSUME NEW name, NEW columns, NEW org, NEW rows \in Nat
  PROVE  LET table == NewTable(name, columns, org, rows)
             other == [table EXCEPT !.dynamic = TRUE]
         IN  /\ IsTable(table) /\ table.name = name /\ table.curr = 0 /\ table.max = rows + 1
             /\ IsTable(other) /\ other.name = name /\ other.curr = 0 /\ other.max = rows + 1
<1> DEFINE cells == [c \in columns |-> [i \in 1 .. rows + 1 |-> 0]]
           table == NewTable(name, columns, org, rows)
<1>0. PICK f, t : f = FALSE /\ t = TRUE
  OBVIOUS
<1>1. table = [name |-> name, columns |-> columns, org |-> org, dynamic |-> f, curr |-> 0,
               max |-> rows + 1, cells |-> cells]
  BY <1>0 DEF NewTable
<1> HIDE DEF cells, table
<1>2. IsTable(table) /\ table.name = name /\ table.curr = 0 /\ table.max = rows + 1
  BY <1>1 DEF IsTable
<1> DEFINE other == [table EXCEPT !.dynamic = t]
<1>3. other = [name |-> name, columns |-> columns, org |-> org, dynamic |-> t, curr |-> 0,
               max |-> rows + 1, cells |-> cells]
  BY <1>1
<1> HIDE DEF other
<1>4. IsTable(other) /\ other.name = name /\ other.curr = 0 /\ other.max = rows + 1
  BY <1>3 DEF IsTable
<1> QED
  BY <1>0, <1>2, <1>4 DEF table, other

(***************************************************************************)
(* With other cells.                                                       *)
(***************************************************************************)
LEMMA CellsIs ==
  ASSUME NEW table, IsTable(table), NEW cells, NEW to, to = [table EXCEPT !.cells = cells]
  PROVE  /\ IsTable(to) /\ to.name = table.name /\ to.columns = table.columns
         /\ to.org = table.org /\ to.dynamic = table.dynamic
         /\ to.curr = table.curr /\ to.max = table.max /\ to.cells = cells
<1>1. to = [name |-> table.name, columns |-> table.columns, org |-> table.org,
            dynamic |-> table.dynamic, curr |-> table.curr, max |-> table.max, cells |-> cells]
  BY DEF IsTable
<1> QED
  BY <1>1 DEF IsTable

LEMMA CurrIs ==
  ASSUME NEW table, IsTable(table), NEW curr \in Nat, NEW to, to = [table EXCEPT !.curr = curr]
  PROVE  /\ IsTable(to) /\ to.name = table.name /\ to.columns = table.columns
         /\ to.org = table.org /\ to.dynamic = table.dynamic
         /\ to.curr = curr /\ to.max = table.max /\ to.cells = table.cells
<1>1. to = [name |-> table.name, columns |-> table.columns, org |-> table.org,
            dynamic |-> table.dynamic, curr |-> curr, max |-> table.max,
            cells |-> table.cells]
  BY DEF IsTable
<1> QED
  BY <1>1 DEF IsTable

LEMMA NameIs ==
  ASSUME NEW table, IsTable(table), NEW name, NEW to, to = [table EXCEPT !.name = name]
  PROVE  /\ IsTable(to) /\ to.name = name
         /\ to.curr = table.curr /\ to.max = table.max
<1>1. to = [name |-> name, columns |-> table.columns, org |-> table.org,
            dynamic |-> table.dynamic, curr |-> table.curr, max |-> table.max,
            cells |-> table.cells]
  BY DEF IsTable
<1> QED
  BY <1>1 DEF IsTable

LEMMA WrittenIs ==
  ASSUME NEW table, IsTable(table), NEW row, NEW values
  PROVE  LET to == Written(table, row, values)
         IN  /\ IsTable(to) /\ to.name = table.name /\ to.columns = table.columns
             /\ to.org = table.org /\ to.dynamic = table.dynamic
             /\ to.curr = table.curr /\ to.max = table.max
<1> DEFINE to == Written(table, row, values)
           cells == [c \in table.columns |->
                       IF c \in DOMAIN values THEN [table.cells[c] EXCEPT ![row] = values[c]]
                       ELSE table.cells[c]]
<1>1. to = [table EXCEPT !.cells = cells]
  BY DEF Written
<1> HIDE DEF to, cells
<1>2. /\ IsTable(to) /\ to.name = table.name /\ to.columns = table.columns
      /\ to.org = table.org /\ to.dynamic = table.dynamic
      /\ to.curr = table.curr /\ to.max = table.max
  BY <1>1, CellsIs
<1> QED
  BY <1>2 DEF to

LEMMA GrownIs ==
  ASSUME NEW table, IsTable(table)
  PROVE  LET to == Grown(table)
         IN  /\ IsTable(to) /\ to.name = table.name /\ to.columns = table.columns
             /\ to.org = table.org /\ to.dynamic = table.dynamic
             /\ to.curr = table.curr /\ to.max = 2 * table.max
<1> DEFINE to == Grown(table)
           cells == [c \in table.columns |->
                       [i \in 1 .. 2 * table.max |->
                          IF i <= table.curr THEN table.cells[c][i] ELSE 0]]
<1>1. to = [table EXCEPT !.max = 2 * table.max, !.cells = cells]
  BY DEF Grown
<1> HIDE DEF to, cells
<1>2. to = [name |-> table.name, columns |-> table.columns, org |-> table.org,
            dynamic |-> table.dynamic, curr |-> table.curr, max |-> 2 * table.max,
            cells |-> cells]
  BY <1>1 DEF IsTable
<1>3. /\ IsTable(to) /\ to.name = table.name /\ to.columns = table.columns
      /\ to.org = table.org /\ to.dynamic = table.dynamic
      /\ to.curr = table.curr /\ to.max = 2 * table.max
  BY <1>2 DEF IsTable
<1> QED
  BY <1>3 DEF to

(***************************************************************************)
(* A table that had a free row has one again when a row is counted.        *)
(***************************************************************************)
LEMMA CountedIs ==
  ASSUME NEW table, IsTable(table)
  PROVE  LET to == Counted(table)
         IN  /\ IsTable(to) /\ to.name = table.name /\ to.columns = table.columns
             /\ to.org = table.org /\ to.dynamic = table.dynamic
             /\ to.curr = table.curr + 1
             /\ table.curr < table.max => to.curr < to.max
<1> DEFINE counted == [table EXCEPT !.curr = @ + 1]
           to == Counted(table)
<1>1. table.curr \in Nat /\ table.max \in Nat /\ table.curr + 1 \in Nat
  BY DEF IsTable
<1>2. /\ IsTable(counted) /\ counted.name = table.name /\ counted.columns = table.columns
      /\ counted.org = table.org /\ counted.dynamic = table.dynamic
      /\ counted.curr = table.curr + 1 /\ counted.max = table.max
  <2>1. counted = [table EXCEPT !.curr = table.curr + 1]
    OBVIOUS
  <2> HIDE DEF counted
  <2> QED
    BY <1>1, <2>1, CurrIs
<1>3. to = IF counted.curr = counted.max THEN Grown(counted) ELSE counted
  BY DEF Counted
<1> HIDE DEF counted, to
<1>4. LET grown == Grown(counted)
      IN  /\ IsTable(grown) /\ grown.name = counted.name /\ grown.columns = counted.columns
          /\ grown.org = counted.org /\ grown.dynamic = counted.dynamic
          /\ grown.curr = counted.curr /\ grown.max = 2 * counted.max
  BY <1>2, GrownIs
<1>5. CASE counted.curr = counted.max
  <2>1. /\ IsTable(to) /\ to.name = table.name /\ to.columns = table.columns
        /\ to.org = table.org /\ to.dynamic = table.dynamic
        /\ to.curr = table.curr + 1 /\ to.max = 2 * table.max
    BY <1>2, <1>3, <1>4, <1>5
  <2>2. to.curr < to.max
    BY <1>1, <1>2, <1>5, <2>1
  <2> QED
    BY <2>1, <2>2 DEF to
<1>6. CASE counted.curr # counted.max
  <2>1. to = counted
    BY <1>3, <1>6
  <2>2. table.curr < table.max => to.curr < to.max
    BY <1>1, <1>2, <1>6, <2>1
  <2> QED
    BY <1>2, <2>1, <2>2 DEF to
<1> QED
  BY <1>5, <1>6

-----------------------------------------------------------------------------
(* The register.                                                           *)

(***************************************************************************)
(* The lists of names n and addresses i over the addresses h, without the  *)
(* tables at the addresses in loose, that no list has.                     *)
(***************************************************************************)
Linked(h, n, i, loose) ==
  /\ DOMAIN h = Id /\ loose \subseteq Id
  /\ n \in Seq(Table) /\ i \in Seq(Id) /\ Len(n) = Len(i)
  /\ \A j, k \in 1 .. Len(i) : j # k => n[j] # n[k] /\ i[j] # i[k]
  /\ \A j \in 1 .. Len(i) : IsTable(h[i[j]]) /\ h[i[j]].name = n[j] /\ i[j] \notin loose
  /\ \A id \in loose : IsTable(h[id])
  /\ \A id \in Id : h[id] # None => id \in loose \/ \E j \in 1 .. Len(i) : i[j] = id

Roomy(h) == \A id \in Id : h[id] # None => h[id].curr < h[id].max

At(h, n, i) == [heap |-> h, names |-> n, ids |-> i]

LEMMA PositionIs ==
  ASSUME NEW h, NEW n \in Seq(Table), NEW i, NEW t, NEW pos, pos = Position(At(h, n, i), t)
  PROVE  IF \E j \in 1 .. Len(n) : n[j] = t THEN pos \in 1 .. Len(n) /\ n[pos] = t
         ELSE pos = 0
<1>1. DOMAIN n = 1 .. Len(n) /\ At(h, n, i).names = n
  BY DEF At
<1>2. pos = IF t \in Range(n) THEN CHOOSE j \in DOMAIN n : n[j] = t ELSE 0
  BY <1>1 DEF Position
<1>3. t \in Range(n) <=> \E j \in 1 .. Len(n) : n[j] = t
  BY <1>1 DEF Range
<1>4. IF \E j \in 1 .. Len(n) : n[j] = t THEN pos \in 1 .. Len(n) /\ n[pos] = t ELSE pos = 0
  <2>1. CASE t \in Range(n)
    <3>1. \E j \in DOMAIN n : n[j] = t
      BY <1>1, <1>3, <2>1
    <3>2. pos = CHOOSE j \in DOMAIN n : n[j] = t
      BY <1>2, <2>1
    <3>3. pos \in DOMAIN n /\ n[pos] = t
      BY <3>1, <3>2
    <3> QED
      BY <1>1, <1>3, <2>1, <3>3
  <2>2. CASE t \notin Range(n)
    BY <1>2, <1>3, <2>2
  <2> QED
    BY <2>1, <2>2
<1> QED
  BY <1>4

(***************************************************************************)
(* A list without one of its places: the last one takes it.                *)
(***************************************************************************)
LEMMA WithoutIs ==
  ASSUME NEW S, NEW list \in Seq(S), NEW pos \in 1 .. Len(list)
  PROVE  /\ Without(list, pos) \in Seq(S)
         /\ Len(Without(list, pos)) = Len(list) - 1
         /\ \A j \in 1 .. Len(list) - 1 :
              Without(list, pos)[j] = IF j = pos THEN list[Len(list)] ELSE list[j]
<1> DEFINE len == Len(list)
           moved == [list EXCEPT ![pos] = list[len]]
           to == SubSeq(moved, 1, len - 1)
<1>1. len \in Nat \ {0} /\ len \in 1 .. len /\ list[len] \in S
  BY ElementOfSeq
<1>2. /\ moved \in Seq(S) /\ Len(moved) = len
      /\ \A j \in 1 .. len : moved[j] = IF j = pos THEN list[len] ELSE list[j]
  BY <1>1, ExceptSeq
<1>3. Without(list, pos) = to
  BY <1>2 DEF Without, Last, Front
<1> HIDE DEF moved, len
<1>4. \A j \in 1 .. len - 1 : moved[j] \in S
  BY <1>1, <1>2, ElementOfSeq
<1>5. /\ to \in Seq(S) /\ Len(to) = len - 1
      /\ \A j \in 1 .. len - 1 : to[j] = moved[j]
  <2>1. \A j \in 1 .. len - 1 : j \in 1 .. Len(moved)
    BY <1>1, <1>2
  <2>2. to \in Seq(S) /\ Len(to) = IF 1 <= len - 1 THEN (len - 1) - 1 + 1 ELSE 0
    BY <1>1, <1>4, SubSeqProperties
  <2>3. \A j \in 1 .. (len - 1) - 1 + 1 : to[j] = moved[1 + j - 1]
    BY <1>1, <1>4, SubSeqProperties
  <2>4. Len(to) = len - 1
    <3>1. 1 <= len - 1 => Len(to) = (len - 1) - 1 + 1
      BY <2>2
    <3>2. ~(1 <= len - 1) => Len(to) = 0
      BY <2>2
    <3> QED
      BY <1>1, <3>1, <3>2
  <2>5. ASSUME NEW j \in 1 .. len - 1
        PROVE  to[j] = moved[j]
    <3>1. j \in 1 .. (len - 1) - 1 + 1 /\ 1 + j - 1 = j
      BY <1>1
    <3> HIDE DEF to
    <3> QED
      BY <2>3, <3>1
  <2> QED
    BY <2>2, <2>4, <2>5
<1>6. \A j \in 1 .. len - 1 : j \in 1 .. len
  BY <1>1
<1> HIDE DEF to
<1>7. \A j \in 1 .. len - 1 : to[j] = IF j = pos THEN list[len] ELSE list[j]
  BY <1>2, <1>5, <1>6
<1> QED
  BY <1>3, <1>5, <1>7 DEF len

LEMMA AtHas ==
  ASSUME NEW h, NEW n, NEW i, NEW s, s = At(h, n, i)
  PROVE  s.heap = h /\ s.names = n /\ s.ids = i
BY DEF At

LEMMA DetachedIs ==
  ASSUME NEW h, NEW n, NEW i, NEW s, s = At(h, n, i), NEW t, NEW pos, pos = Position(s, t)
  PROVE  Detached(s, t) = At(h, Without(n, pos), Without(i, pos))
<1>1. Detached(s, t) = [s EXCEPT !.names = Without(s.names, Position(s, t)),
                                !.ids = Without(s.ids, Position(s, t))]
  BY Zenon DEF Detached
<1>2. s.names = n /\ s.ids = i
  BY AtHas
<1>3. PICK n2, i2 : n2 = Without(n, pos) /\ i2 = Without(i, pos)
  OBVIOUS
<1>4. Detached(s, t) = [s EXCEPT !.names = n2, !.ids = i2]
  BY <1>1, <1>2, <1>3
<1>5. PICK s1 : s1 = [s EXCEPT !.names = n2]
  OBVIOUS
<1>6. s1 = [heap |-> h, names |-> n2, ids |-> i]
  BY <1>5 DEF At
<1>7. [s1 EXCEPT !.ids = i2] = At(h, n2, i2)
  BY <1>6 DEF At
<1> QED
  BY <1>3, <1>4, <1>5, <1>7

(***************************************************************************)
(* What is detached is loose.                                              *)
(***************************************************************************)
LEMMA DetachedLinked ==
  ASSUME NEW h, NEW n, NEW i, Linked(h, n, i, {}), NEW pos \in 1 .. Len(n)
  PROVE  /\ Linked(h, Without(n, pos), Without(i, pos), {i[pos]})
         /\ i[pos] \in Id /\ IsTable(h[i[pos]])
         /\ \A j \in 1 .. Len(Without(n, pos)) : Without(n, pos)[j] # n[pos]
<1> DEFINE len == Len(n)
           n2 == Without(n, pos)
           i2 == Without(i, pos)
           from(j) == IF j = pos THEN len ELSE j
<1>1. n \in Seq(Table) /\ i \in Seq(Id) /\ Len(i) = len /\ len \in Nat /\ pos \in 1 .. len
  BY DEF Linked
<1>2. /\ n2 \in Seq(Table) /\ Len(n2) = len - 1
      /\ \A j \in 1 .. len - 1 : n2[j] = IF j = pos THEN n[len] ELSE n[j]
  BY <1>1, WithoutIs
<1>3. /\ i2 \in Seq(Id) /\ Len(i2) = len - 1
      /\ \A j \in 1 .. len - 1 : i2[j] = IF j = pos THEN i[len] ELSE i[j]
  <2>1. pos \in 1 .. Len(i)
    BY <1>1
  <2>2. /\ i2 \in Seq(Id) /\ Len(i2) = Len(i) - 1
        /\ \A j \in 1 .. Len(i) - 1 : i2[j] = IF j = pos THEN i[Len(i)] ELSE i[j]
    BY <1>1, <2>1, WithoutIs
  <2> QED
    BY <1>1, <2>2
<1> HIDE DEF n2, i2, len
<1>4. ASSUME NEW j \in 1 .. len - 1
      PROVE  from(j) \in 1 .. len /\ from(j) # pos /\ n2[j] = n[from(j)] /\ i2[j] = i[from(j)]
  BY <1>1, <1>2, <1>3
<1>5. \A j, k \in 1 .. len - 1 : j # k => from(j) # from(k)
  BY <1>1
<1>6. ASSUME NEW k \in 1 .. len, k # pos
      PROVE  \E j \in 1 .. len - 1 : from(j) = k
  <2>1. CASE k = len
    <3>1. pos \in 1 .. len - 1 /\ from(pos) = k
      BY <1>1, <1>6, <2>1
    <3> QED
      BY <3>1
  <2>2. CASE k # len
    <3>1. k \in 1 .. len - 1 /\ from(k) = k
      BY <1>1, <1>6, <2>2
    <3> QED
      BY <3>1
  <2> QED
    BY <2>1, <2>2
<1> HIDE DEF from
<1>7. /\ \A j, k \in 1 .. len : j # k => n[j] # n[k] /\ i[j] # i[k]
      /\ \A j \in 1 .. len : i[j] \in Id /\ IsTable(h[i[j]]) /\ h[i[j]].name = n[j]
      /\ \A id \in Id : h[id] # None => \E j \in 1 .. len : i[j] = id
      /\ DOMAIN h = Id
  <2>1. \A j \in 1 .. len : i[j] \in Id
    BY <1>1, ElementOfSeq
  <2> QED
    BY <1>1, <2>1 DEF Linked
<1>8. \A j, k \in 1 .. len - 1 : j # k => n2[j] # n2[k] /\ i2[j] # i2[k]
  BY <1>4, <1>5, <1>7
<1>9. \A j \in 1 .. len - 1 : /\ IsTable(h[i2[j]]) /\ h[i2[j]].name = n2[j]
                              /\ i2[j] # i[pos] /\ n2[j] # n[pos]
  BY <1>1, <1>4, <1>7
<1>10. \A id \in Id : h[id] # None => id = i[pos] \/ \E j \in 1 .. len - 1 : i2[j] = id
  <2> SUFFICES ASSUME NEW id \in Id, h[id] # None, id # i[pos]
               PROVE  \E j \in 1 .. len - 1 : i2[j] = id
    OBVIOUS
  <2>1. PICK k \in 1 .. len : i[k] = id
    BY <1>7
  <2>2. PICK j \in 1 .. len - 1 : from(j) = k
    BY <1>6, <2>1
  <2> QED
    BY <1>4, <2>1, <2>2
<1>11. i[pos] \in Id /\ IsTable(h[i[pos]])
  BY <1>1, <1>7
<1>12. Linked(h, n2, i2, {i[pos]})
  BY <1>2, <1>3, <1>7, <1>8, <1>9, <1>10, <1>11 DEF Linked
<1> QED
  BY <1>2, <1>9, <1>11, <1>12 DEF n2, i2

(***************************************************************************)
(* A table is made at an address that has none, a loose one is deleted,    *)
(* renamed, or put into the lists, and a listed one changes.               *)
(***************************************************************************)
LEMMA MadeLinked ==
  ASSUME NEW h, NEW n, NEW i, Linked(h, n, i, {}), NoneIsApart,
         NEW id \in Id, h[id] = None, NEW table, IsTable(table)
  PROVE  Linked([h EXCEPT ![id] = table], n, i, {id})
<1>1. PICK h2 : h2 = [h EXCEPT ![id] = table]
  OBVIOUS
<1>2. DOMAIN h2 = Id /\ h2[id] = table /\ \A x \in Id : x # id => h2[x] = h[x]
  BY <1>1 DEF Linked
<1>3. \A j \in 1 .. Len(i) : i[j] \in Id
  BY ElementOfSeq DEF Linked
<1>4. \A j \in 1 .. Len(i) : i[j] # id
  BY DEF Linked, NoneIsApart
<1>5. \A j \in 1 .. Len(i) : h2[i[j]] = h[i[j]]
  BY <1>2, <1>3, <1>4
<1>6. Linked(h2, n, i, {id})
  BY <1>2, <1>4, <1>5 DEF Linked
<1> QED
  BY <1>1, <1>6

LEMMA RemovedLinked ==
  ASSUME NEW h, NEW n, NEW i, NEW id, Linked(h, n, i, {id})
  PROVE  Linked([h EXCEPT ![id] = None], n, i, {})
<1>1. PICK h2 : h2 = [h EXCEPT ![id] = None]
  OBVIOUS
<1>2. DOMAIN h2 = Id /\ h2[id] = None /\ \A x \in Id : x # id => h2[x] = h[x]
  BY <1>1 DEF Linked
<1>3. \A j \in 1 .. Len(i) : i[j] \in Id
  BY ElementOfSeq DEF Linked
<1>4. \A j \in 1 .. Len(i) : i[j] # id
  BY DEF Linked
<1>5. \A j \in 1 .. Len(i) : h2[i[j]] = h[i[j]]
  BY <1>2, <1>3, <1>4
<1>6. Linked(h2, n, i, {})
  BY <1>2, <1>5 DEF Linked
<1> QED
  BY <1>1, <1>6

LEMMA RenamedLinked ==
  ASSUME NEW h, NEW n, NEW i, NEW id, Linked(h, n, i, {id}), NEW table, IsTable(table)
  PROVE  Linked([h EXCEPT ![id] = table], n, i, {id})
<1>1. PICK h2 : h2 = [h EXCEPT ![id] = table]
  OBVIOUS
<1>2. DOMAIN h2 = Id /\ h2[id] = table /\ \A x \in Id : x # id => h2[x] = h[x]
  BY <1>1 DEF Linked
<1>3. \A j \in 1 .. Len(i) : i[j] \in Id
  BY ElementOfSeq DEF Linked
<1>4. \A j \in 1 .. Len(i) : i[j] # id
  BY DEF Linked
<1>5. \A j \in 1 .. Len(i) : h2[i[j]] = h[i[j]]
  BY <1>2, <1>3, <1>4
<1>6. Linked(h2, n, i, {id})
  BY <1>2, <1>4, <1>5 DEF Linked
<1> QED
  BY <1>1, <1>6

LEMMA ChangedLinked ==
  ASSUME NEW h, NEW n, NEW i, Linked(h, n, i, {}), NEW pos \in 1 .. Len(n),
         NEW id, id = i[pos], NEW table, IsTable(table), table.name = n[pos]
  PROVE  Linked([h EXCEPT ![id] = table], n, i, {})
<1>1. PICK h2 : h2 = [h EXCEPT ![id] = table]
  OBVIOUS
<1>2. \A j \in 1 .. Len(i) : i[j] \in Id
  BY ElementOfSeq DEF Linked
<1>3. pos \in 1 .. Len(i) /\ id \in Id
  BY <1>1, <1>2 DEF Linked
<1>4. DOMAIN h2 = Id /\ h2[id] = table /\ \A x \in Id : x # id => h2[x] = h[x]
  BY <1>1, <1>3 DEF Linked
<1>5. \A j \in 1 .. Len(i) : j # pos => i[j] # id
  BY <1>1, <1>3 DEF Linked
<1>6. \A j \in 1 .. Len(i) : h2[i[j]] = IF j = pos THEN table ELSE h[i[j]]
  BY <1>1, <1>2, <1>4, <1>5
<1>7. \A j \in 1 .. Len(i) : IsTable(h2[i[j]]) /\ h2[i[j]].name = n[j]
  BY <1>6 DEF Linked
<1>8. \A x \in Id : h2[x] # None => \E j \in 1 .. Len(i) : i[j] = x
  BY <1>1, <1>3, <1>4 DEF Linked
<1>9. Linked(h2, n, i, {})
  BY <1>4, <1>7, <1>8 DEF Linked
<1> QED
  BY <1>1, <1>9

LEMMA SameLinked ==
  ASSUME NEW h, NEW n, NEW i, Linked(h, n, i, {}),
         NEW h2, DOMAIN h2 = Id, \A x \in Id : h2[x] = h[x]
  PROVE  Linked(h2, n, i, {})
<1>1. \A j \in 1 .. Len(i) : i[j] \in Id
  BY ElementOfSeq DEF Linked
<1>2. \A j \in 1 .. Len(i) : h2[i[j]] = h[i[j]]
  BY <1>1
<1> QED
  BY <1>2 DEF Linked

LEMMA AppendedLinked ==
  ASSUME NEW h, NEW n, NEW i, NEW id, Linked(h, n, i, {id}),
         NEW t \in Table, h[id].name = t, \A j \in 1 .. Len(n) : n[j] # t
  PROVE  Linked(h, Append(n, t), Append(i, id), {})
<1> DEFINE len == Len(n)
           n2 == Append(n, t)
           i2 == Append(i, id)
<1>1. /\ n \in Seq(Table) /\ i \in Seq(Id) /\ Len(i) = len /\ len \in Nat /\ id \in Id
      /\ \A j, k \in 1 .. len : j # k => n[j] # n[k] /\ i[j] # i[k]
      /\ \A j \in 1 .. len : IsTable(h[i[j]]) /\ h[i[j]].name = n[j] /\ i[j] # id /\ n[j] # t
  BY DEF Linked
<1>2. /\ n2 \in Seq(Table) /\ Len(n2) = len + 1 /\ n2[len + 1] = t
      /\ \A j \in 1 .. len : n2[j] = n[j]
  BY <1>1, AppendProperties
<1>3. /\ i2 \in Seq(Id) /\ Len(i2) = len + 1 /\ i2[len + 1] = id
      /\ \A j \in 1 .. len : i2[j] = i[j]
  BY <1>1, AppendProperties
<1> HIDE DEF n2, i2, len
<1>4. \A j \in 1 .. len + 1 : j \in 1 .. len \/ j = len + 1
  BY <1>1
<1>5. \A j, k \in 1 .. len + 1 : j # k => n2[j] # n2[k] /\ i2[j] # i2[k]
  <2>1. ASSUME NEW j \in 1 .. len, NEW k \in 1 .. len, j # k
        PROVE  n2[j] # n2[k] /\ i2[j] # i2[k]
    BY <1>1, <1>2, <1>3, <2>1
  <2>2. ASSUME NEW j \in 1 .. len
        PROVE  n2[j] # n2[len + 1] /\ i2[j] # i2[len + 1]
    BY <1>1, <1>2, <1>3
  <2> QED
    BY <1>4, <2>1, <2>2
<1>6. \A j \in 1 .. len + 1 : IsTable(h[i2[j]]) /\ h[i2[j]].name = n2[j]
  <2>1. IsTable(h[id]) /\ h[id].name = t
    BY DEF Linked
  <2> QED
    BY <1>1, <1>2, <1>3, <1>4, <2>1
<1>7. \A x \in Id : h[x] # None => \E j \in 1 .. len + 1 : i2[j] = x
  <2> SUFFICES ASSUME NEW x \in Id, h[x] # None
               PROVE  \E j \in 1 .. len + 1 : i2[j] = x
    OBVIOUS
  <2>1. x = id \/ \E j \in 1 .. len : i[j] = x
    BY <1>1 DEF Linked, len
  <2>2. len + 1 \in 1 .. len + 1 /\ \A j \in 1 .. len : j \in 1 .. len + 1
    BY <1>1
  <2> QED
    BY <1>3, <2>1, <2>2
<1>8. DOMAIN h = Id
  BY DEF Linked
<1>9. Linked(h, n2, i2, {})
  BY <1>2, <1>3, <1>5, <1>6, <1>7, <1>8 DEF Linked
<1> QED
  BY <1>9 DEF n2, i2

LEMMA ReplacedLinked ==
  ASSUME NEW h, NEW n, NEW i, NEW id, Linked(h, n, i, {id}),
         NEW pos \in 1 .. Len(n), h[id].name = n[pos]
  PROVE  Linked([h EXCEPT ![i[pos]] = None], n, [i EXCEPT ![pos] = id], {})
<1>1. PICK h2, i2, old : /\ old = i[pos] /\ h2 = [h EXCEPT ![old] = None]
                         /\ i2 = [i EXCEPT ![pos] = id]
  OBVIOUS
<1>2. /\ n \in Seq(Table) /\ i \in Seq(Id) /\ Len(i) = Len(n) /\ id \in Id /\ pos \in 1 .. Len(i)
      /\ \A j, k \in 1 .. Len(i) : j # k => n[j] # n[k] /\ i[j] # i[k]
      /\ \A j \in 1 .. Len(i) : IsTable(h[i[j]]) /\ h[i[j]].name = n[j] /\ i[j] # id
      /\ IsTable(h[id])
  BY DEF Linked
<1>3. \A j \in 1 .. Len(i) : i[j] \in Id
  BY <1>2, ElementOfSeq
<1>4. /\ i2 \in Seq(Id) /\ Len(i2) = Len(i)
      /\ \A j \in 1 .. Len(i) : i2[j] = IF j = pos THEN id ELSE i[j]
  BY <1>1, <1>2, ExceptSeq
<1>5. DOMAIN h2 = Id /\ h2[old] = None /\ \A x \in Id : x # old => h2[x] = h[x]
  BY <1>1, <1>2, <1>3 DEF Linked
<1>6. old # id /\ \A j \in 1 .. Len(i) : j # pos => i[j] # old
  BY <1>1, <1>2
<1>7. \A j, k \in 1 .. Len(i2) : j # k => n[j] # n[k] /\ i2[j] # i2[k]
  BY <1>2, <1>4
<1>8. \A j \in 1 .. Len(i2) : IsTable(h2[i2[j]]) /\ h2[i2[j]].name = n[j]
  <2> SUFFICES ASSUME NEW j \in 1 .. Len(i2)
               PROVE  IsTable(h2[i2[j]]) /\ h2[i2[j]].name = n[j]
    OBVIOUS
  <2>1. CASE j = pos
    BY <1>2, <1>4, <1>5, <1>6, <2>1
  <2>2. CASE j # pos
    BY <1>2, <1>3, <1>4, <1>5, <1>6, <2>2
  <2> QED
    BY <2>1, <2>2
<1>9. \A x \in Id : h2[x] # None => \E j \in 1 .. Len(i2) : i2[j] = x
  <2> SUFFICES ASSUME NEW x \in Id, h2[x] # None
               PROVE  \E j \in 1 .. Len(i2) : i2[j] = x
    OBVIOUS
  <2>1. x # old /\ h[x] # None
    BY <1>5
  <2>2. x = id \/ \E j \in 1 .. Len(i) : i[j] = x
    BY <2>1 DEF Linked
  <2> QED
    BY <1>1, <1>2, <1>4, <2>1, <2>2
<1>10. Linked(h2, n, i2, {})
  BY <1>2, <1>4, <1>5, <1>7, <1>8, <1>9 DEF Linked
<1> QED
  BY <1>1, <1>10

-----------------------------------------------------------------------------
(* What the operators on the register make of it.                          *)

(***************************************************************************)
(* The tables of h2 are some of those of h.                                *)
(***************************************************************************)
Fewer(h2, h) == \A x \in Id : h2[x] # None => h2[x] = h[x]

LEMMA AddedIs ==
  ASSUME NEW h, NEW n, NEW i, NEW id, Linked(h, n, i, {id}), h[id].name \in Table,
         NEW s, s = At(h, n, i)
  PROVE  \E h2, n2, i2 : /\ AddedToList(s, id) = At(h2, n2, i2)
                         /\ Linked(h2, n2, i2, {}) /\ Fewer(h2, h)
<1>1. s.heap = h /\ s.names = n /\ s.ids = i
  BY AtHas
<1>2. PICK t, pos : t = h[id].name /\ pos = Position(s, t)
  OBVIOUS
<1>3. n \in Seq(Table) /\ t \in Table
  BY <1>2 DEF Linked
<1>4. IF \E j \in 1 .. Len(n) : n[j] = t THEN pos \in 1 .. Len(n) /\ n[pos] = t ELSE pos = 0
  BY <1>2, <1>3, PositionIs
<1>5. AddedToList(s, id) =
        IF pos = 0 THEN [s EXCEPT !.names = Append(s.names, t), !.ids = Append(s.ids, id)]
        ELSE [s EXCEPT !.heap = [s.heap EXCEPT ![s.ids[pos]] = None],
                       !.ids = [s.ids EXCEPT ![pos] = id]]
  BY <1>1, <1>2, Zenon DEF AddedToList
<1>6. CASE pos = 0
  <2>1. PICK n2, i2 : n2 = Append(n, t) /\ i2 = Append(i, id)
    OBVIOUS
  <2>2. Linked(h, n2, i2, {})
    <3>1. \A j \in 1 .. Len(n) : n[j] # t
      BY <1>4, <1>6
    <3> QED
      BY <1>2, <1>3, <2>1, <3>1, AppendedLinked
  <2>3. PICK s1 : s1 = [s EXCEPT !.names = n2]
    OBVIOUS
  <2>4. s1 = [heap |-> h, names |-> n2, ids |-> i]
    BY <2>3 DEF At
  <2>5. [s1 EXCEPT !.ids = i2] = At(h, n2, i2)
    BY <2>4 DEF At
  <2>6. AddedToList(s, id) = [s EXCEPT !.names = n2, !.ids = i2]
    BY <1>1, <1>5, <1>6, <2>1
  <2>7. AddedToList(s, id) = At(h, n2, i2)
    BY <2>3, <2>5, <2>6
  <2> QED
    BY <2>2, <2>7 DEF Fewer
<1>7. CASE pos # 0
  <2>1. PICK h2, i2 : h2 = [h EXCEPT ![i[pos]] = None] /\ i2 = [i EXCEPT ![pos] = id]
    OBVIOUS
  <2>2. pos \in 1 .. Len(n) /\ n[pos] = t
    BY <1>4, <1>7
  <2>3. Linked(h2, n, i2, {})
    BY <1>2, <2>1, <2>2, ReplacedLinked
  <2>4. PICK s1 : s1 = [s EXCEPT !.heap = h2]
    OBVIOUS
  <2>5. s1 = [heap |-> h2, names |-> n, ids |-> i]
    BY <2>4 DEF At
  <2>6. [s1 EXCEPT !.ids = i2] = At(h2, n, i2)
    BY <2>5 DEF At
  <2>7. AddedToList(s, id) = [s EXCEPT !.heap = h2, !.ids = i2]
    BY <1>1, <1>5, <1>7, <2>1
  <2>8. AddedToList(s, id) = At(h2, n, i2)
    BY <2>4, <2>6, <2>7
  <2>9. Fewer(h2, h)
    BY <2>1 DEF Fewer, Linked
  <2> QED
    BY <2>3, <2>8, <2>9
<1> QED
  BY <1>6, <1>7

Occupied(h) == {id \in Id : h[id] # None}

LEMMA OccupiedIsFew ==
  ASSUME NEW h, NEW n, NEW i, Linked(h, n, i, {}), IsFiniteSet(Table)
  PROVE  IsFiniteSet(Occupied(h)) /\ Cardinality(Occupied(h)) <= Cardinality(Table)
<1> DEFINE place(t) == CHOOSE j \in 1 .. Len(i) : n[j] = t
           T == {t \in Table : \E j \in 1 .. Len(i) : n[j] = t}
           B == Occupied(h)
           f == [t \in T |-> i[place(t)]]
<1>1. /\ n \in Seq(Table) /\ i \in Seq(Id) /\ Len(n) = Len(i)
      /\ \A j, k \in 1 .. Len(i) : j # k => n[j] # n[k]
      /\ \A x \in B : \E j \in 1 .. Len(i) : i[j] = x
  BY DEF Linked, Occupied
<1>2. \A j \in 1 .. Len(i) : i[j] \in Id /\ n[j] \in Table
  BY <1>1, ElementOfSeq
<1> HIDE DEF T, B
<1>4. T \in SUBSET Table
  BY DEF T
<1>5. IsFiniteSet(T) /\ Cardinality(T) <= Cardinality(Table)
  BY <1>4, FS_Subset
<1> DEFINE U == {f[t] : t \in T}
<1>6. f \in Surjection(T, U)
  BY DEF Surjection
<1>7. IsFiniteSet(U) /\ Cardinality(U) <= Cardinality(T)
  <2> HIDE DEF f, U
  <2> QED
    BY <1>5, <1>6, FS_Surjection
<1>8. B \in SUBSET U
  <2> SUFFICES ASSUME NEW x \in B
               PROVE  x \in U
    OBVIOUS
  <2>1. PICK j \in 1 .. Len(i) : i[j] = x
    BY <1>1
  <2>2. n[j] \in T
    BY <1>2 DEF T
  <2>3. place(n[j]) = j
    BY <1>1
  <2>4. f[n[j]] = x
    BY <2>1, <2>2, <2>3
  <2> HIDE DEF f
  <2> QED
    BY <2>2, <2>4
<1> HIDE DEF U
<1>9. IsFiniteSet(B) /\ Cardinality(B) <= Cardinality(U)
  BY <1>7, <1>8, FS_Subset
<1>10. Cardinality(B) \in Nat /\ Cardinality(U) \in Nat /\ Cardinality(T) \in Nat
       /\ Cardinality(Table) \in Nat
  BY <1>5, <1>7, <1>9, FS_CardinalityType
<1> QED
  BY <1>5, <1>7, <1>9, <1>10 DEF B

LEMMA FreshIs ==
  ASSUME NEW h, NEW n, NEW i, Linked(h, n, i, {}), EnoughIds, h = heap
  PROVE  Fresh \in Id /\ h[Fresh] = None
<1> DEFINE A == {tw[q].table : q \in Sequence}
           B == Occupied(h)
           F == {id \in Id : heap[id] = None /\ \A q \in Sequence : tw[q].table # id}
           f == [q \in Sequence |-> tw[q].table]
<1>1. IsFiniteSet(A) /\ Cardinality(A) <= Cardinality(Sequence)
  <2>1. f \in Surjection(Sequence, A)
    BY DEF Surjection
  <2> HIDE DEF f, A
  <2> QED
    BY <2>1, FS_Surjection DEF EnoughIds
<1>2. IsFiniteSet(B) /\ Cardinality(B) <= Cardinality(Table)
  BY OccupiedIsFew DEF EnoughIds
<1>3. F = Id \ (A \union B)
  BY DEF Occupied
<1> HIDE DEF A, B
<1>4. IsFiniteSet(A \union B)
      /\ Cardinality(A \union B) = Cardinality(A) + Cardinality(B) - Cardinality(A \intersect B)
  BY <1>1, <1>2, FS_Union
<1>5. IsFiniteSet(A \intersect B)
  <2>1. (A \intersect B) \in SUBSET A
    OBVIOUS
  <2> QED
    BY <1>1, <2>1, FS_Subset
<1>6. /\ Cardinality(A) \in Nat /\ Cardinality(B) \in Nat /\ Cardinality(A \intersect B) \in Nat
      /\ Cardinality(Table) \in Nat /\ Cardinality(Sequence) \in Nat
      /\ Cardinality(A \union B) \in Nat
  BY <1>1, <1>2, <1>4, <1>5, FS_CardinalityType DEF EnoughIds
<1>7. Cardinality(A \union B) <= Cardinality(Table) + Cardinality(Sequence)
  BY <1>1, <1>2, <1>4, <1>6
<1>8. F # {}
  <2> SUFFICES ASSUME F = {}
               PROVE  FALSE
    OBVIOUS
  <2>1. Id \in SUBSET (A \union B)
    BY <1>3
  <2> HIDE DEF F
  <2>2. IsFiniteSet(Id) /\ Cardinality(Id) <= Cardinality(A \union B)
    BY <1>4, <2>1, FS_Subset
  <2>3. Cardinality(Id) \in Nat
    BY <2>2, FS_CardinalityType
  <2> QED
    BY <1>6, <1>7, <2>2, <2>3 DEF EnoughIds
<1>9. F \subseteq Nat
  BY DEF EnoughIds
<1>10. \E x \in F : \A y \in F : x <= y
  <2> HIDE DEF F
  <2> QED
    BY <1>8, <1>9, LeastNatural
<1>11. Fresh \in F
  <2>1. Fresh = Min(F)
    BY DEF Fresh
  <2> HIDE DEF F
  <2> QED
    BY <1>10, <2>1 DEF Min
<1> QED
  BY <1>11

LEMMA StoreIsAt == Store = At(heap, names, ids)
BY DEF Store, At

(***************************************************************************)
(* The table that is found has the name, and what is at its address        *)
(* changes only it.                                                        *)
(***************************************************************************)
LEMMA FindIs ==
  ASSUME NEW h, NEW n, NEW i, Linked(h, n, i, {}), NoneIsApart,
         NEW s, s = At(h, n, i), NEW t, NEW id, id = Find(s, t), id # None
  PROVE  LET pos == Position(s, t)
         IN  /\ pos \in 1 .. Len(n) /\ n[pos] = t /\ i[pos] = id
             /\ id \in Id /\ IsTable(h[id]) /\ h[id].name = t /\ h[id] # None
<1>1. PICK pos : pos = Position(s, t)
  OBVIOUS
<1>2. n \in Seq(Table) /\ i \in Seq(Id) /\ Len(n) = Len(i)
  BY DEF Linked
<1>3. IF \E j \in 1 .. Len(n) : n[j] = t THEN pos \in 1 .. Len(n) /\ n[pos] = t ELSE pos = 0
  BY <1>1, <1>2, PositionIs
<1>4. s.ids = i
  BY AtHas
<1>5. id = IF pos = 0 THEN None ELSE i[pos]
  BY <1>1, <1>4 DEF Find
<1>6. pos \in 1 .. Len(n) /\ n[pos] = t /\ i[pos] = id
  BY <1>3, <1>5
<1>7. id \in Id
  BY <1>2, <1>6, ElementOfSeq
<1>8. IsTable(h[id]) /\ h[id].name = t
  BY <1>2, <1>6 DEF Linked
<1>9. h[id] # None
  BY <1>8 DEF NoneIsApart
<1> QED
  BY <1>1, <1>6, <1>7, <1>8, <1>9

LEMMA RoomyFewer ==
  ASSUME NEW h, NEW h2, Fewer(h2, h), Roomy(h)
  PROVE  Roomy(h2)
BY DEF Fewer, Roomy

LEMMA RoomyWith ==
  ASSUME NEW h, DOMAIN h = Id, Roomy(h), NEW id, NEW table, table.curr < table.max
  PROVE  Roomy([h EXCEPT ![id] = table])
<1>1. PICK h2 : h2 = [h EXCEPT ![id] = table]
  OBVIOUS
<1>2. \A x \in Id : h2[x] = IF x = id THEN table ELSE h[x]
  BY <1>1
<1>3. Roomy(h2)
  BY <1>2 DEF Roomy
<1> QED
  BY <1>1, <1>3

LEMMA EnterIs ==
  ASSUME Linked(heap, names, ids, {}), NoneIsApart, EnoughIds,
         NEW table, IsTable(table), table.name \in Table, Enter(table)
  PROVE  /\ Linked(heap', names', ids', {})
         /\ Roomy(heap) /\ table.curr < table.max => Roomy(heap')
<1>1. PICK id : id = Fresh
  OBVIOUS
<1>2. id \in Id /\ heap[id] = None
  BY <1>1, FreshIs
<1>3. PICK h : h = [heap EXCEPT ![id] = table]
  OBVIOUS
<1>4. DOMAIN heap = Id
  BY DEF Linked
<1>5. Linked(h, names, ids, {id}) /\ h[id] = table
  BY <1>2, <1>3, <1>4, MadeLinked
<1>6. PICK s : s = [Store EXCEPT !.heap = h]
  OBVIOUS
<1>7. s = At(h, names, ids)
  BY <1>6, StoreIsAt DEF At
<1>8. PICK h2, n2, i2 : /\ AddedToList(s, id) = At(h2, n2, i2)
                        /\ Linked(h2, n2, i2, {}) /\ Fewer(h2, h)
  BY <1>5, <1>7, AddedIs
<1>9. Store.heap = heap
  BY DEF Store
<1>10. StoreIs(AddedToList(s, id))
  <2>1. StoreIs(AddedToList([Store EXCEPT !.heap = [Store.heap EXCEPT ![id] = table]], id))
    BY <1>1, Zenon DEF Enter
  <2> QED
    BY <1>3, <1>6, <1>9, <2>1
<1>11. heap' = h2 /\ names' = n2 /\ ids' = i2
  <2>1. StoreIs(At(h2, n2, i2))
    BY <1>8, <1>10
  <2>2. heap' = At(h2, n2, i2).heap /\ names' = At(h2, n2, i2).names /\ ids' = At(h2, n2, i2).ids
    BY <2>1 DEF StoreIs
  <2> QED
    BY <2>2, AtHas
<1>12. Roomy(heap) /\ table.curr < table.max => Roomy(h)
  BY <1>3, <1>4, RoomyWith
<1> QED
  BY <1>8, <1>11, <1>12, RoomyFewer

LEMMA DeletedIs ==
  ASSUME Linked(heap, names, ids, {}), NoneIsApart, NEW t, Find(Store, t) # None,
         StoreIs(Deleted(Store, t))
  PROVE  Linked(heap', names', ids', {}) /\ (Roomy(heap) => Roomy(heap'))
<1>1. PICK id, pos : id = Find(Store, t) /\ pos = Position(Store, t)
  OBVIOUS
<1>2. pos \in 1 .. Len(names) /\ ids[pos] = id /\ id \in Id
  BY <1>1, StoreIsAt, FindIs
<1>3. PICK n2, i2 : n2 = Without(names, pos) /\ i2 = Without(ids, pos)
  OBVIOUS
<1>4. Linked(heap, n2, i2, {id})
  BY <1>2, <1>3, DetachedLinked
<1>5. Detached(Store, t) = At(heap, n2, i2)
  BY <1>1, <1>3, StoreIsAt, DetachedIs
<1>6. PICK h : h = [heap EXCEPT ![id] = None]
  OBVIOUS
<1>7. Linked(h, n2, i2, {})
  BY <1>4, <1>6, RemovedLinked
<1>8. Deleted(Store, t) = At(h, n2, i2)
  <2>1. PICK s : s = At(heap, n2, i2)
    OBVIOUS
  <2>2. Deleted(Store, t) = [s EXCEPT !.heap = [s.heap EXCEPT ![id] = None]]
    BY <1>1, <1>5, <2>1, Zenon DEF Deleted
  <2>3. s.heap = heap
    BY <2>1, AtHas
  <2>4. Deleted(Store, t) = [s EXCEPT !.heap = h]
    BY <1>6, <2>2, <2>3
  <2> QED
    BY <2>1, <2>4 DEF At
<1>9. heap' = h /\ names' = n2 /\ ids' = i2
  <2>1. StoreIs(At(h, n2, i2))
    BY <1>8
  <2>2. heap' = At(h, n2, i2).heap /\ names' = At(h, n2, i2).names /\ ids' = At(h, n2, i2).ids
    BY <2>1 DEF StoreIs
  <2> QED
    BY <2>2, AtHas
<1>10. Fewer(h, heap)
  BY <1>6 DEF Fewer, Linked
<1> QED
  BY <1>7, <1>9, <1>10, RoomyFewer

LEMMA RenamedIs ==
  ASSUME Linked(heap, names, ids, {}), NoneIsApart, NEW t, NEW new \in Table,
         StoreIs(Renamed(Store, t, new))
  PROVE  Linked(heap', names', ids', {}) /\ (Roomy(heap) => Roomy(heap'))
<1>1. PICK id, pos : id = Find(Store, t) /\ pos = Position(Store, t)
  OBVIOUS
<1>2. CASE id = None
  <2>1. Renamed(Store, t, new) = Store
    BY <1>1, <1>2 DEF Renamed
  <2>2. heap' = heap /\ names' = names /\ ids' = ids
    BY <2>1 DEF StoreIs, Store
  <2> QED
    BY <2>2
<1>3. CASE id # None
  <2>1. pos \in 1 .. Len(names) /\ ids[pos] = id /\ id \in Id /\ IsTable(heap[id]) /\ heap[id] # None
    BY <1>1, <1>3, StoreIsAt, FindIs
  <2>2. PICK n2, i2 : n2 = Without(names, pos) /\ i2 = Without(ids, pos)
    OBVIOUS
  <2>3. Linked(heap, n2, i2, {id})
    BY <2>1, <2>2, DetachedLinked
  <2>4. Detached(Store, t) = At(heap, n2, i2)
    BY <1>1, <2>2, StoreIsAt, DetachedIs
  <2>5. PICK table, h : table = [heap[id] EXCEPT !.name = new] /\ h = [heap EXCEPT ![id] = table]
    OBVIOUS
  <2>6. /\ IsTable(table) /\ table.name = new
        /\ table.curr = heap[id].curr /\ table.max = heap[id].max
    <3>1. table = [heap[id] EXCEPT !.name = new] /\ IsTable(heap[id])
      BY <2>1, <2>5
    <3> QED
      BY ONLY <3>1, NameIs
  <2>7. DOMAIN heap = Id
    BY DEF Linked
  <2>8. Linked(h, n2, i2, {id}) /\ h[id] = table
    BY <2>1, <2>3, <2>5, <2>6, <2>7, RenamedLinked
  <2>9. PICK s : s = At(h, n2, i2)
    OBVIOUS
  <2>10. Renamed(Store, t, new) = AddedToList(s, id)
    <3>1. PICK s0 : s0 = At(heap, n2, i2)
      OBVIOUS
    <3>2. Renamed(Store, t, new)
            = AddedToList([s0 EXCEPT !.heap = [s0.heap EXCEPT ![id] = [s0.heap[id] EXCEPT !.name = new]]], id)
      BY <1>1, <1>3, <2>4, <3>1, Zenon DEF Renamed
    <3>3. s0.heap = heap
      BY <3>1, AtHas
    <3>4. [s0 EXCEPT !.heap = h] = s
      BY <2>9, <3>1 DEF At
    <3> QED
      BY <2>5, <3>2, <3>3, <3>4
  <2>11. PICK h3, n3, i3 : /\ AddedToList(s, id) = At(h3, n3, i3)
                           /\ Linked(h3, n3, i3, {}) /\ Fewer(h3, h)
    BY <2>6, <2>8, <2>9, AddedIs
  <2>12. heap' = h3 /\ names' = n3 /\ ids' = i3
    <3>1. StoreIs(At(h3, n3, i3))
      BY <2>10, <2>11
    <3>2. heap' = At(h3, n3, i3).heap /\ names' = At(h3, n3, i3).names /\ ids' = At(h3, n3, i3).ids
      BY <3>1 DEF StoreIs
    <3> QED
      BY <3>2, AtHas
  <2>13. Roomy(heap) => Roomy(h)
    <3> SUFFICES ASSUME Roomy(heap)
                 PROVE  Roomy(h)
      OBVIOUS
    <3>1. table.curr < table.max
      BY <2>1, <2>6 DEF Roomy
    <3> QED
      BY <2>5, <2>7, <3>1, RoomyWith
  <2> QED
    BY <2>11, <2>12, <2>13, RoomyFewer
<1> QED
  BY <1>2, <1>3

-----------------------------------------------------------------------------
(* A table that is read.                                                   *)

(***************************************************************************)
(* Tables with the columns a user makes: their rows are filled, and        *)
(* counted, within their cells.                                            *)
(***************************************************************************)
Cells == [UserColumns -> UNION {[1 .. m -> Number] : m \in Nat}]

Sheet(name, org, dynamic, curr, max, cells) ==
  [name |-> name, columns |-> UserColumns, org |-> org, dynamic |-> dynamic,
   curr |-> curr, max |-> max, cells |-> cells]

Sheets(name, org, dynamic) ==
  {table \in {Sheet(name, org, dynamic, curr, max, cells) :
               curr \in Nat, max \in Nat \ {0}, cells \in Cells} :
     /\ table.curr <= table.max
     /\ \A c \in UserColumns : table.cells[c] \in [1 .. table.max -> Number]}

LEMMA SheetsAre ==
  ASSUME NEW name, NEW org, NEW dynamic, NEW curr \in Nat, NEW max \in Nat \ {0}, NEW cells,
         cells = [c \in UserColumns |-> cells[c]],
         \A c \in UserColumns : cells[c] \in [1 .. max -> Number], curr <= max
  PROVE  Sheet(name, org, dynamic, curr, max, cells) \in Sheets(name, org, dynamic)
<1>1. cells \in Cells
  BY DEF Cells
<1>2. PICK table : table = Sheet(name, org, dynamic, curr, max, cells)
  OBVIOUS
<1>3. table.curr = curr /\ table.max = max /\ table.cells = cells
  BY <1>2 DEF Sheet
<1>4. table \in {Sheet(name, org, dynamic, u, m, e) : u \in Nat, m \in Nat \ {0}, e \in Cells}
  BY <1>1, <1>2
<1> QED
  BY <1>2, <1>3, <1>4 DEF Sheets

LEMMA SheetIs ==
  ASSUME NEW name, NEW org, NEW dynamic, NEW table \in Sheets(name, org, dynamic)
  PROVE  table = [name |-> name, columns |-> UserColumns, org |-> org, dynamic |-> dynamic,
                  curr |-> table.curr, max |-> table.max, cells |-> table.cells]
<1>1. PICK curr \in Nat, max \in Nat \ {0}, cells \in Cells :
        table = Sheet(name, org, dynamic, curr, max, cells)
  BY DEF Sheets
<1>2. table.curr = curr /\ table.max = max /\ table.cells = cells
  BY <1>1 DEF Sheet
<1> QED
  BY <1>1, <1>2 DEF Sheet

LEMMA SheetHas ==
  ASSUME NEW name, NEW org, NEW dynamic, NEW table \in Sheets(name, org, dynamic)
  PROVE  /\ IsTable(table) /\ table.name = name /\ table.columns = UserColumns
         /\ table.org = org /\ table.dynamic = dynamic
         /\ table.curr \in Nat /\ table.max \in Nat \ {0} /\ table.curr <= table.max
<1>1. PICK curr \in Nat, max \in Nat \ {0}, cells \in Cells :
        table = Sheet(name, org, dynamic, curr, max, cells)
  BY DEF Sheets
<1>2. /\ table.curr = curr /\ table.max = max /\ table.cells = cells /\ table.name = name
      /\ table.columns = UserColumns /\ table.org = org /\ table.dynamic = dynamic
  BY <1>1 DEF Sheet
<1>3. table = [name |-> table.name, columns |-> table.columns, org |-> table.org,
               dynamic |-> table.dynamic, curr |-> table.curr, max |-> table.max,
               cells |-> table.cells]
  BY <1>1, <1>2 DEF Sheet
<1>4. IsTable(table)
  BY <1>2, <1>3 DEF IsTable
<1>5. table.curr <= table.max
  BY DEF Sheets
<1> QED
  BY <1>2, <1>4, <1>5

LEMMA SheetCells ==
  ASSUME NEW name, NEW org, NEW dynamic, NEW table \in Sheets(name, org, dynamic)
  PROVE  /\ table.cells = [c \in UserColumns |-> table.cells[c]]
         /\ \A c \in UserColumns : table.cells[c] \in [1 .. table.max -> Number]
<1>1. PICK curr \in Nat, max \in Nat \ {0}, cells \in Cells :
        table = Sheet(name, org, dynamic, curr, max, cells)
  BY DEF Sheets
<1>2. table.cells = cells
  BY <1>1 DEF Sheet
<1>3. table.cells = [c \in UserColumns |-> table.cells[c]]
  BY <1>2 DEF Cells
<1>4. \A c \in UserColumns : table.cells[c] \in [1 .. table.max -> Number]
  BY DEF Sheets
<1> QED
  BY <1>3, <1>4

LEMMA GrownSheet ==
  ASSUME NEW name, NEW org, NEW dynamic, NEW table \in Sheets(name, org, dynamic)
  PROVE  LET to == Grown(table)
         IN  /\ to \in Sheets(name, org, dynamic)
             /\ to.curr = table.curr /\ to.max = 2 * table.max
<1>1. PICK cells : cells = [c \in UserColumns |->
                   [i \in 1 .. 2 * table.max |-> IF i <= table.curr THEN table.cells[c][i] ELSE 0]]
  OBVIOUS
<1>2. /\ IsTable(table) /\ table.name = name /\ table.columns = UserColumns
      /\ table.org = org /\ table.dynamic = dynamic
      /\ table.curr \in Nat /\ table.max \in Nat \ {0} /\ table.curr <= table.max
      /\ \A c \in UserColumns : table.cells[c] \in [1 .. table.max -> Number]
  <2>1. \A c \in UserColumns : table.cells[c] \in [1 .. table.max -> Number]
    BY SheetCells
  <2>2. /\ IsTable(table) /\ table.name = name /\ table.columns = UserColumns
        /\ table.org = org /\ table.dynamic = dynamic
        /\ table.curr \in Nat /\ table.max \in Nat \ {0} /\ table.curr <= table.max
    BY SheetHas
  <2> QED
    BY <2>1, <2>2
<1>3. \A c \in UserColumns : cells[c] \in [1 .. 2 * table.max -> Number]
  <2> SUFFICES ASSUME NEW c \in UserColumns
               PROVE  cells[c] \in [1 .. 2 * table.max -> Number]
    OBVIOUS
  <2>1. \A i \in 1 .. 2 * table.max : i <= table.curr => table.cells[c][i] \in Number
    BY <1>2
  <2>2. 0 \in Number
    BY ExpressionsAssumption DEF Number
  <2> QED
    BY <1>1, <2>1, <2>2
<1>4. PICK to : to = Grown(table)
  OBVIOUS
<1>5. to = [table EXCEPT !.max = 2 * table.max, !.cells = cells]
  BY <1>1, <1>2, <1>4 DEF Grown
<1>6. to = Sheet(name, org, dynamic, table.curr, 2 * table.max, cells)
  <2>1. PICK wide : wide = [table EXCEPT !.max = 2 * table.max]
    OBVIOUS
  <2>2. wide = Sheet(name, org, dynamic, table.curr, 2 * table.max, table.cells)
    <3>1. table = [name |-> name, columns |-> UserColumns, org |-> org, dynamic |-> dynamic,
                   curr |-> table.curr, max |-> table.max, cells |-> table.cells]
      BY SheetIs
    <3> QED
      BY <2>1, <3>1 DEF Sheet
  <2>3. [wide EXCEPT !.cells = cells] = Sheet(name, org, dynamic, table.curr, 2 * table.max, cells)
    BY <2>2 DEF Sheet
  <2> QED
    BY <1>5, <2>1, <2>3
<1>7. 2 * table.max \in Nat \ {0} /\ table.curr <= 2 * table.max
  BY <1>2
<1>8. cells = [c \in UserColumns |-> cells[c]]
  BY <1>1
<1>9. to \in Sheets(name, org, dynamic)
  BY <1>2, <1>3, <1>6, <1>7, <1>8, SheetsAre
<1>10. to.curr = table.curr /\ to.max = 2 * table.max
  BY <1>6 DEF Sheet
<1> QED
  BY <1>4, <1>9, <1>10

LEMMA WrittenSheet ==
  ASSUME NEW name, NEW org, NEW dynamic, NEW table \in Sheets(name, org, dynamic),
         NEW row, NEW line \in [UserColumns -> Number]
  PROVE  LET to == Written(table, row, line)
         IN  /\ to \in Sheets(name, org, dynamic)
             /\ to.curr = table.curr /\ to.max = table.max
<1>1. PICK cells : cells = [c \in UserColumns |-> [table.cells[c] EXCEPT ![row] = line[c]]]
  OBVIOUS
<1>2. /\ table.columns = UserColumns /\ DOMAIN line = UserColumns
      /\ table.curr \in Nat /\ table.max \in Nat \ {0} /\ table.curr <= table.max
      /\ \A c \in UserColumns : table.cells[c] \in [1 .. table.max -> Number]
  <2>1. \A c \in UserColumns : table.cells[c] \in [1 .. table.max -> Number]
    BY SheetCells
  <2>2. /\ IsTable(table) /\ table.name = name /\ table.columns = UserColumns
        /\ table.org = org /\ table.dynamic = dynamic
        /\ table.curr \in Nat /\ table.max \in Nat \ {0} /\ table.curr <= table.max
    BY SheetHas
  <2> QED
    BY <2>1, <2>2
<1>3. \A c \in UserColumns : cells[c] \in [1 .. table.max -> Number]
  BY <1>1, <1>2
<1>4. PICK to : to = Written(table, row, line)
  OBVIOUS
<1>5. to = [table EXCEPT !.cells = cells]
  <2>1. [c \in table.columns |-> IF c \in DOMAIN line THEN [table.cells[c] EXCEPT ![row] = line[c]]
                                 ELSE table.cells[c]] = cells
    BY <1>1, <1>2
  <2> QED
    BY <1>4, <2>1 DEF Written
<1>6. to = Sheet(name, org, dynamic, table.curr, table.max, cells)
  <2>1. table = [name |-> name, columns |-> UserColumns, org |-> org, dynamic |-> dynamic,
                 curr |-> table.curr, max |-> table.max, cells |-> table.cells]
    BY SheetIs
  <2> QED
    BY <1>5, <2>1 DEF Sheet
<1>7. cells = [c \in UserColumns |-> cells[c]]
  BY <1>1
<1>8. to \in Sheets(name, org, dynamic)
  BY <1>2, <1>3, <1>6, <1>7, SheetsAre
<1>9. to.curr = table.curr /\ to.max = table.max
  BY <1>6 DEF Sheet
<1> QED
  BY <1>4, <1>8, <1>9

LEMMA WithLineSheet ==
  ASSUME NEW name, NEW org, NEW dynamic, NEW table \in Sheets(name, org, dynamic),
         NEW line \in [UserColumns -> Number]
  PROVE  WithLine(table, line) \in Sheets(name, org, dynamic)
<1>1. PICK roomy : roomy = IF table.curr = table.max THEN Grown(table) ELSE table
  OBVIOUS
<1>2. table.curr \in Nat /\ table.max \in Nat \ {0} /\ table.curr <= table.max
  BY SheetHas
<1>3. roomy \in Sheets(name, org, dynamic) /\ roomy.curr < roomy.max
  <2>1. CASE table.curr = table.max
    <3>1. roomy \in Sheets(name, org, dynamic) /\ roomy.curr = table.curr /\ roomy.max = 2 * table.max
      BY <1>1, <2>1, GrownSheet
    <3> QED
      BY <1>2, <2>1, <3>1
  <2>2. CASE table.curr # table.max
    BY <1>1, <1>2, <2>2
  <2> QED
    BY <2>1, <2>2
<1>4. PICK written : written = Written(roomy, roomy.curr + 1, line)
  OBVIOUS
<1>5. /\ written \in Sheets(name, org, dynamic)
      /\ written.curr = roomy.curr /\ written.max = roomy.max
  BY <1>3, <1>4, WrittenSheet
<1>6. PICK to : to = [written EXCEPT !.curr = written.curr + 1]
  OBVIOUS
<1>7. to = Sheet(name, org, dynamic, written.curr + 1, written.max, written.cells)
  <2>1. written = [name |-> name, columns |-> UserColumns, org |-> org, dynamic |-> dynamic,
                   curr |-> written.curr, max |-> written.max, cells |-> written.cells]
    BY <1>5, SheetIs
  <2> QED
    BY <1>6, <2>1 DEF Sheet
<1>8. /\ written.curr \in Nat /\ written.max \in Nat \ {0}
      /\ written.cells = [c \in UserColumns |-> written.cells[c]]
      /\ \A c \in UserColumns : written.cells[c] \in [1 .. written.max -> Number]
  BY <1>5, SheetHas, SheetCells
<1>9. written.curr + 1 \in Nat /\ written.curr + 1 <= written.max
  BY <1>3, <1>5, <1>8
<1>10. to \in Sheets(name, org, dynamic)
  BY <1>7, <1>8, <1>9, SheetsAre
<1>11. WithLine(table, line) = to
  BY <1>1, <1>4, <1>6 DEF WithLine
<1> QED
  BY <1>10, <1>11

LEMMA LinesAre ==
  ASSUME NEW S, NEW table \in S, NEW file \in Seq([UserColumns -> Number]),
         \A t \in S, line \in [UserColumns -> Number] : WithLine(t, line) \in S
  PROVE  Lines(table, file) \in S
<1> DEFINE len == Len(file)
           step == [n \in Nat |-> [t \in S |-> IF n \in 1 .. len THEN WithLine(t, file[n]) ELSE t]]
           Def(f) == [n \in 0 .. len |-> IF n = 0 THEN table ELSE WithLine(f[n - 1], file[n])]
           read == CHOOSE f : f = Def(f)
<1>1. len \in Nat /\ \A n \in 1 .. len : file[n] \in [UserColumns -> Number]
  BY ElementOfSeq
<1>2. PICK g : Iterates(g, S, table, step)
  <2>1. step \in [Nat -> [S -> S]]
    BY <1>1
  <2> HIDE DEF step
  <2> QED
    BY <2>1, Iteration
<1>3. /\ \A n \in Nat : g[n] \in S
      /\ g[0] = table
      /\ \A n \in Nat : g[n + 1] = step[n + 1][g[n]]
  BY <1>2 DEF Iterates
<1>4. ASSUME NEW n \in 1 .. len
      PROVE  g[n] = WithLine(g[n - 1], file[n])
  <2>1. n \in Nat /\ n - 1 \in Nat /\ (n - 1) + 1 = n
    BY <1>1
  <2>2. g[n] = step[n][g[n - 1]] /\ g[n - 1] \in S
    BY <1>3, <2>1
  <2>3. step[n][g[n - 1]] = WithLine(g[n - 1], file[n])
    BY <2>1, <2>2
  <2> QED
    BY <2>2, <2>3
<1> HIDE DEF step
<1> DEFINE f == [n \in 0 .. len |-> g[n]]
<1>5. f = Def(f)
  <2>1. ASSUME NEW n \in 0 .. len
        PROVE  f[n] = IF n = 0 THEN table ELSE WithLine(f[n - 1], file[n])
    <3>1. CASE n = 0
      BY <1>3, <3>1
    <3>2. CASE n # 0
      <4>1. n \in 1 .. len /\ n - 1 \in 0 .. len
        BY <1>1, <3>2
      <4>2. f[n] = g[n] /\ f[n - 1] = g[n - 1]
        BY <4>1
      <4> QED
        BY <1>4, <3>2, <4>1, <4>2
    <3> QED
      BY <3>1, <3>2
  <2>2. f = [n \in 0 .. len |-> f[n]]
    OBVIOUS
  <2> HIDE DEF f
  <2> QED
    BY <2>1, <2>2
<1> HIDE DEF f
<1>6. read = Def(read)
  <2> HIDE DEF Def
  <2> QED
    BY <1>5
<1>7. Lines(table, file) = read[len]
  BY DEF Lines
<1> HIDE DEF read
<1> DEFINE T == {n \in Nat : n <= len => read[n] \in S}
<1>8. 0 \in T
  <2>1. read[0] = table
    BY <1>1, <1>6
  <2> QED
    BY <2>1
<1>9. ASSUME NEW n \in Nat, n \in T
      PROVE  n + 1 \in T
  <2> SUFFICES ASSUME n + 1 <= len
               PROVE  read[n + 1] \in S
    OBVIOUS
  <2>1. n + 1 \in 0 .. len /\ n + 1 \in 1 .. len /\ n + 1 # 0 /\ (n + 1) - 1 = n /\ n <= len
    BY <1>1
  <2>2. read[n + 1] = WithLine(read[n], file[n + 1])
    BY <1>6, <2>1
  <2>3. read[n] \in S
    BY <1>9, <2>1
  <2> QED
    BY <1>1, <2>1, <2>2, <2>3
<1> HIDE DEF T
<1>10. Nat \subseteq T
  BY <1>8, <1>9, SetInduction
<1>11. len \in T
  BY <1>1, <1>10
<1>12. read[len] \in S
  BY <1>1, <1>11 DEF T
<1> QED
  BY <1>7, <1>12

(***************************************************************************)
(* A table that is read is under the name it is read for.                  *)
(***************************************************************************)
LEMMA ReadIs ==
  ASSUME NEW t, NEW file \in File
  PROVE  LET table == Lines(NewTable(t, UserColumns, UserColumns, READ_LENGTH), file)
         IN  IsTable(table) /\ table.name = t
<1>1. PICK no, new, cells :
        /\ no = FALSE /\ new = NewTable(t, UserColumns, UserColumns, READ_LENGTH)
        /\ cells = [c \in UserColumns |-> [i \in 1 .. READ_LENGTH + 1 |-> 0]]
  OBVIOUS
<1>2. new = Sheet(t, UserColumns, no, 0, READ_LENGTH + 1, cells)
  BY <1>1 DEF NewTable, Sheet
<1>3. new \in Sheets(t, UserColumns, no)
  <2>1. READ_LENGTH + 1 \in Nat \ {0} /\ 0 <= READ_LENGTH + 1 /\ 0 \in Number
    BY TablesAssumption, ExpressionsAssumption DEF Number
  <2>2. \A c \in UserColumns : cells[c] \in [1 .. READ_LENGTH + 1 -> Number]
    BY <1>1, <2>1
  <2>3. cells = [c \in UserColumns |-> cells[c]]
    BY <1>1
  <2> QED
    BY <1>2, <2>1, <2>2, <2>3, SheetsAre
<1>4. PICK table : table = Lines(new, file)
  OBVIOUS
<1>5. table \in Sheets(t, UserColumns, no)
  <2>1. PICK S : S = Sheets(t, UserColumns, no)
    OBVIOUS
  <2>2. \A sheet \in S, line \in [UserColumns -> Number] : WithLine(sheet, line) \in S
    BY <2>1, WithLineSheet
  <2>3. file \in Seq([UserColumns -> Number])
    BY TablesAssumption
  <2> QED
    BY <1>3, <1>4, <2>1, <2>2, <2>3, LinesAre
<1>6. IsTable(table) /\ table.name = t
  BY <1>5, SheetHas
<1> QED
  BY <1>1, <1>4, <1>6

-----------------------------------------------------------------------------
(* The invariant.                                                          *)

TwissIs ==
  twiss # None =>
    /\ DOMAIN twiss = {"deltas", "chrom", "save", "name", "at", "rows", "step"}
    /\ twiss.name \in Table /\ twiss.deltas \in Nat /\ twiss.at \in Nat \ {0}
    /\ twiss.deltas <= Len(Numbered[twiss.name]) + 1

TablesInv == Linked(heap, names, ids, {}) /\ TwissIs

LEMMA ChangedIs ==
  ASSUME TablesInv, NoneIsApart, NEW t, NEW id, id = Find(Store, t), id # None,
         NEW table, IsTable(table), table.name = t,
         heap' = [heap EXCEPT ![id] = table], UNCHANGED <<names, ids>>
  PROVE  /\ Linked(heap', names', ids', {})
         /\ Roomy(heap) /\ table.curr < table.max => Roomy(heap')
<1>1. PICK pos : pos = Position(Store, t)
  OBVIOUS
<1>2. Linked(heap, names, ids, {})
  BY DEF TablesInv
<1>3. pos \in 1 .. Len(names) /\ names[pos] = t /\ ids[pos] = id
  BY <1>1, <1>2, StoreIsAt, FindIs
<1>4. PICK h : h = [heap EXCEPT ![id] = table]
  OBVIOUS
<1>5. Linked(h, names, ids, {})
  BY <1>2, <1>3, <1>4, ChangedLinked
<1>6. Roomy(heap) /\ table.curr < table.max => Roomy(h)
  BY <1>2, <1>4, RoomyWith DEF Linked
<1> QED
  BY <1>4, <1>5, <1>6

LEMMA FillWithIs ==
  ASSUME TablesInv, NoneIsApart, NEW t, Find(Store, t) # None, NEW n, NEW values,
         FillWith(t, n, values)
  PROVE  Linked(heap', names', ids', {}) /\ (Roomy(heap) => Roomy(heap'))
<1>1. PICK id, table, row, filled :
        /\ id = Find(Store, t) /\ table = TableOf(t) /\ row = FilledRow(table, n)
        /\ filled = Written(table, row, values)
  OBVIOUS
<1>2. /\ table = heap[id] /\ id \in Id /\ IsTable(table) /\ table.name = t /\ table # None
  BY <1>1, StoreIsAt, FindIs DEF TableOf, TablesInv
<1>3. /\ row \in 1 .. table.curr + 1
      /\ UNCHANGED <<names, ids>>
      /\ IF row > table.max THEN UNCHANGED heap
         ELSE heap' = [heap EXCEPT ![id] = IF row = table.curr + 1 THEN Counted(filled) ELSE filled]
  BY <1>1 DEF FillWith
<1>4. CASE row > table.max
  BY <1>3, <1>4 DEF TablesInv
<1>5. CASE ~(row > table.max)
  <2>1. PICK to : to = IF row = table.curr + 1 THEN Counted(filled) ELSE filled
    OBVIOUS
  <2>2. /\ IsTable(filled) /\ filled.name = t
        /\ filled.curr = table.curr /\ filled.max = table.max
    BY <1>1, <1>2, WrittenIs
  <2>3. IsTable(to) /\ to.name = t /\ (table.curr < table.max => to.curr < to.max)
    <3>1. CASE row = table.curr + 1
      <4>1. to = Counted(filled)
        BY <2>1, <3>1
      <4> QED
        BY <2>2, <4>1, CountedIs
    <3>2. CASE row # table.curr + 1
      BY <2>1, <2>2, <3>2
    <3> QED
      BY <3>1, <3>2
  <2>4. heap' = [heap EXCEPT ![id] = to]
    BY <1>3, <1>5, <2>1
  <2>5. /\ Linked(heap', names', ids', {})
        /\ Roomy(heap) /\ to.curr < to.max => Roomy(heap')
    BY <1>1, <1>3, <2>3, <2>4, ChangedIs
  <2>6. Roomy(heap) => table.curr < table.max
    BY <1>2 DEF Roomy
  <2> QED
    BY <2>3, <2>5, <2>6
<1> QED
  BY <1>4, <1>5

LEMMA ShrinkIs ==
  ASSUME TablesInv, NoneIsApart, NEW t, NEW n, Shrink(t, n)
  PROVE  Linked(heap', names', ids', {}) /\ (Roomy(heap) => Roomy(heap'))
<1>1. PICK id, table, row, to :
        /\ id = Find(Store, t) /\ table = TableOf(t) /\ row = Kept(table, n)
        /\ to = [table EXCEPT !.curr = row]
  OBVIOUS
<1>2. id # None
  BY <1>1 DEF Shrink, Command
<1>3. /\ table = heap[id] /\ id \in Id /\ IsTable(table) /\ table.name = t /\ table # None
  BY <1>1, <1>2, StoreIsAt, FindIs DEF TableOf, TablesInv
<1>4. row \in 0 .. table.curr /\ UNCHANGED <<names, ids>>
  BY <1>1 DEF Shrink
<1>5. heap' = [heap EXCEPT ![id] = to]
  <2>1. heap' = [heap EXCEPT ![id] = [heap[id] EXCEPT !.curr = row]]
    BY <1>1, Zenon DEF Shrink
  <2> QED
    BY <1>1, <1>3, <2>1
<1>6. table.curr \in Nat /\ table.max \in Nat /\ row \in Nat /\ row <= table.curr
  BY <1>3, <1>4 DEF IsTable
<1>7. IsTable(to) /\ to.name = t /\ to.curr = row /\ to.max = table.max
  BY <1>1, <1>3, <1>6, CurrIs
<1>8. /\ Linked(heap', names', ids', {})
      /\ Roomy(heap) /\ to.curr < to.max => Roomy(heap')
  BY <1>1, <1>2, <1>4, <1>5, <1>7, ChangedIs
<1>9. Roomy(heap) => to.curr < to.max
  <2>1. Roomy(heap) => table.curr < table.max
    BY <1>3 DEF Roomy
  <2> QED
    BY <1>6, <1>7, <2>1
<1> QED
  BY <1>8, <1>9

LEMMA TwissRowIs ==
  ASSUME TablesInv, NoneIsApart, NEW own, TwissRow(own)
  PROVE  Linked(heap', names', ids', {}) /\ (Roomy(heap) => Roomy(heap'))
<1>1. PICK id, written : /\ id = Find(Store, twiss.name)
                         /\ written = [Store EXCEPT !.heap = [Store.heap EXCEPT ![id] =
                              Written(Store.heap[id], Store.heap[id].curr + 1, own)]]
  OBVIOUS
<1>2. heap' = [heap EXCEPT ![id] = Augmented(written, id)] /\ UNCHANGED <<names, ids>>
  BY <1>1, Zenon DEF TwissRow
<1>3. Linked(heap, names, ids, {}) /\ DOMAIN heap = Id
  BY DEF TablesInv, Linked
<1>4. CASE id = None
  <2>1. DOMAIN heap' = Id /\ \A x \in Id : heap'[x] = heap[x]
    BY <1>2, <1>3, <1>4 DEF NoneIsApart
  <2>2. Linked(heap', names, ids, {})
    BY <1>3, <2>1, SameLinked
  <2>3. Roomy(heap) => Roomy(heap')
    BY <2>1 DEF Roomy
  <2> QED
    BY <1>2, <2>2, <2>3
<1>5. CASE id # None
  <2>1. /\ id \in Id /\ IsTable(heap[id]) /\ heap[id].name = twiss.name /\ heap[id] # None
    BY <1>1, <1>3, <1>5, StoreIsAt, FindIs
  <2>2. PICK table : table = Written(heap[id], heap[id].curr + 1, own)
    OBVIOUS
  <2>3. /\ IsTable(table) /\ table.name = twiss.name
        /\ table.curr = heap[id].curr /\ table.max = heap[id].max
    BY <2>1, <2>2, WrittenIs
  <2>4. written.heap[id] = table
    <3>1. Store.heap = heap
      BY DEF Store
    <3>2. PICK h : h = [heap EXCEPT ![id] = table]
      OBVIOUS
    <3>3. written = [Store EXCEPT !.heap = h]
      BY <1>1, <2>2, <3>1, <3>2
    <3>4. written.heap = h
      BY <3>3 DEF Store
    <3> QED
      BY <1>3, <2>1, <3>2, <3>4
  <2>5. PICK values : Augmented(written, id) = Counted(Written(table, table.curr + 1, values))
    BY <2>4 DEF Augmented
  <2>6. PICK full, to : full = Written(table, table.curr + 1, values) /\ to = Counted(full)
    OBVIOUS
  <2>7. /\ IsTable(full) /\ full.name = twiss.name
        /\ full.curr = table.curr /\ full.max = table.max
    BY <2>3, <2>6, WrittenIs
  <2>8. IsTable(to) /\ to.name = twiss.name /\ (full.curr < full.max => to.curr < to.max)
    BY <2>6, <2>7, CountedIs
  <2>9. heap' = [heap EXCEPT ![id] = to]
    BY <1>2, <2>5, <2>6
  <2>10. /\ Linked(heap', names', ids', {})
         /\ Roomy(heap) /\ to.curr < to.max => Roomy(heap')
    BY <1>1, <1>2, <1>5, <2>8, <2>9, ChangedIs
  <2>11. Roomy(heap) => heap[id].curr < heap[id].max
    BY <2>1 DEF Roomy
  <2> QED
    BY <2>3, <2>7, <2>8, <2>10, <2>11
<1> QED
  BY <1>4, <1>5

(***************************************************************************)
(* What a step makes of the register.                                      *)
(***************************************************************************)
Registers == Linked(heap', names', ids', {}) /\ (FilesLeaveRoom /\ Roomy(heap) => Roomy(heap'))

LEMMA SameRegisters ==
  ASSUME TablesInv, StoreSame
  PROVE  Registers
BY DEF TablesInv, StoreSame, Registers

LEMMA CreateRegisters ==
  ASSUME TablesInv, NoneIsApart, EnoughIds, NEW t \in Table, Create(t)
  PROVE  Registers
<1>1. PICK table : table = [NewTable(t, UserColumns, {}, USER_TABLE_LENGTH) EXCEPT !.dynamic = TRUE]
  OBVIOUS
<1>2. IsTable(table) /\ table.name = t /\ table.curr = 0 /\ table.max = USER_TABLE_LENGTH + 1
  BY <1>1, NewTableIs, TablesAssumption
<1>3. table.curr < table.max
  BY <1>2, TablesAssumption
<1>4. Enter(table)
  BY <1>1 DEF Create
<1> QED
  BY <1>2, <1>3, <1>4, EnterIs DEF TablesInv, Registers

LEMMA ReadTableRegisters ==
  ASSUME TablesInv, NoneIsApart, EnoughIds, NEW t \in Readable, NEW file \in File,
         ReadTable(t, file)
  PROVE  Registers
<1>1. PICK table : table = Lines(NewTable(t, UserColumns, UserColumns, READ_LENGTH), file)
  OBVIOUS
<1>2. IsTable(table) /\ table.name = t
  BY <1>1, ReadIs
<1>3. FilesLeaveRoom => table.curr < table.max
  BY <1>1 DEF FilesLeaveRoom
<1>4. Enter(table)
  BY <1>1 DEF ReadTable
<1>5. t \in Table
  BY TablesAssumption
<1> QED
  BY <1>2, <1>3, <1>4, <1>5, EnterIs DEF TablesInv, Registers

LEMMA TwissTableRegisters ==
  ASSUME TablesInv, NoneIsApart, EnoughIds, TwissTable
  PROVE  Registers
<1>1. CASE StoreSame
  BY <1>1, SameRegisters
<1>2. CASE MakeTwissTable
  <2>1. PICK table, name, columns :
          /\ name = twiss.name /\ columns = OwnColumns \union Extra
          /\ table = [NewTable(name, columns, OwnColumns, NODES) EXCEPT !.dynamic = TRUE]
    OBVIOUS
  <2>2. /\ IsTable(table) /\ table.name = twiss.name /\ table.curr = 0 /\ table.max = NODES + 1
    <3>1. NODES \in Nat
      BY TablesAssumption
    <3>2. /\ IsTable(table) /\ table.name = name /\ table.curr = 0 /\ table.max = NODES + 1
      <4>1. table = [NewTable(name, columns, OwnColumns, NODES) EXCEPT !.dynamic = TRUE]
        BY <2>1
      <4> QED
        BY ONLY <3>1, <4>1, NewTableIs
    <3> QED
      BY <2>1, <3>2
  <2>3. table.curr < table.max
    BY <2>2, TablesAssumption
  <2>4. table.name \in Table
    BY <2>2 DEF TwissTable, TablesInv, TwissIs
  <2>5. Enter(table)
    BY <1>2, <2>1 DEF MakeTwissTable
  <2> QED
    BY <2>2, <2>3, <2>4, <2>5, EnterIs DEF TablesInv, Registers
<1> QED
  BY <1>1, <1>2 DEF TwissTable

LEMMA TwissNextRegisters ==
  ASSUME TablesInv, NoneIsApart, TwissNext
  PROVE  Registers
<1>1. CASE ~(twiss.at < twiss.deltas)
  BY <1>1, SameRegisters DEF TwissNext
<1>2. CASE twiss.at < twiss.deltas
  <2>1. /\ twiss.name \in Table /\ twiss.deltas \in Nat /\ twiss.at \in Nat \ {0}
        /\ twiss.deltas <= Len(Numbered[twiss.name]) + 1
    BY DEF TwissNext, Complete, Running, TablesInv, TwissIs
  <2>2. Numbered[twiss.name] \in Seq(Table)
    BY <2>1, TablesAssumption
  <2>3. twiss.at \in 1 .. Len(Numbered[twiss.name])
    BY <1>2, <2>1, <2>2
  <2>4. PICK new : new = Numbered[twiss.name][twiss.at]
    OBVIOUS
  <2>5. new \in Table
    BY <2>2, <2>3, <2>4, ElementOfSeq
  <2>6. StoreIs(Renamed(Store, twiss.name, new))
    BY <1>2, <2>4 DEF TwissNext
  <2> QED
    BY <2>5, <2>6, RenamedIs DEF TablesInv, Registers
<1> QED
  BY <1>1, <1>2

LEMMA StatementRegisters ==
  ASSUME TablesInv, NoneIsApart, EnoughIds, Statement
  PROVE  Registers
<1>1. ASSUME NEW t \in Deletable, Create(t)
      PROVE  Registers
  BY <1>1, CreateRegisters, TablesAssumption
<1>2. ASSUME NEW t \in Deletable, Delete(t)
      PROVE  Registers
  BY <1>2, DeletedIs DEF Delete, Command, TablesInv, Registers
<1>3. ASSUME NEW t \in Readable, NEW file \in File, ReadTable(t, file)
      PROVE  Registers
  BY <1>3, ReadTableRegisters
<1>4. ASSUME NEW t \in Table, NEW n \in RowNumber, Fill(t, n)
      PROVE  Registers
  BY <1>4, FillWithIs DEF Fill, Command, Registers
<1>5. ASSUME NEW t \in Table, NEW n \in RowNumber, NEW k \in Knob, FillKnob(t, n, k)
      PROVE  Registers
  BY <1>5, FillWithIs DEF FillKnob, Command, Registers
<1>6. ASSUME NEW t \in Table, NEW n \in RowNumber, Shrink(t, n)
      PROVE  Registers
  BY <1>6, ShrinkIs DEF Registers
<1>7. ASSUME NEW x, NEW expr, Assign(x, expr) \/ Defer(x, expr)
      PROVE  StoreSame
  BY <1>7 DEF Assign, Defer
<1>8. ASSUME NEW t, NEW n, NEW m, NEW k, NEW noappend,
             SetVars(t, n) \/ SetLin(t, n, m, k) \/ SetKnob(t, n, k, noappend) \/ SetConst(t, n)
      PROVE  StoreSame
  <2>1. PICK new : Sets(new)
    BY <1>8 DEF SetVars, SetLin, SetKnob, SetConst
  <2> QED
    BY <2>1 DEF Sets
<1>9. ASSUME NEW q, NEW t, NEW mode, Use(q) \/ TwissBegin(q, t, mode)
      PROVE  StoreSame
  BY <1>9 DEF Use, TwissBegin
<1>10. CASE \/ \E x \in Variable, expr \in Direct : Assign(x, expr)
            \/ \E x \in Variable, expr \in Expression : Defer(x, expr)
  BY <1>7, <1>10, SameRegisters
<1>11. CASE \E t \in Deletable : Create(t) \/ Delete(t)
  BY <1>1, <1>2, <1>11
<1>12. CASE \E t \in Readable, file \in File : ReadTable(t, file)
  BY <1>3, <1>12
<1>13. CASE \E t \in Table, n \in RowNumber :
              \/ Fill(t, n) \/ Shrink(t, n) \/ SetVars(t, n)
              \/ \E k \in Knob : FillKnob(t, n, k)
              \/ \E m \in RowNumber, k \in Knob : SetLin(t, n, m, k)
              \/ \E k \in Knob, noappend \in BOOLEAN : SetKnob(t, n, k, noappend)
  <2>1. PICK t \in Table, n \in RowNumber :
              \/ Fill(t, n) \/ Shrink(t, n) \/ SetVars(t, n)
              \/ \E k \in Knob : FillKnob(t, n, k)
              \/ \E m \in RowNumber, k \in Knob : SetLin(t, n, m, k)
              \/ \E k \in Knob, noappend \in BOOLEAN : SetKnob(t, n, k, noappend)
    BY <1>13
  <2>2. CASE Fill(t, n) \/ Shrink(t, n) \/ \E k \in Knob : FillKnob(t, n, k)
    BY <1>4, <1>5, <1>6, <2>2
  <2>3. CASE \/ SetVars(t, n)
             \/ \E m \in RowNumber, k \in Knob : SetLin(t, n, m, k)
             \/ \E k \in Knob, noappend \in BOOLEAN : SetKnob(t, n, k, noappend)
    BY <1>8, <2>3, SameRegisters
  <2> QED
    BY <2>1, <2>2, <2>3
<1>14. CASE \E t \in Table, number \in Number : SetConst(t, number)
  BY <1>8, <1>14, SameRegisters
<1>15. CASE \/ \E q \in Sequence : Use(q)
            \/ \E q \in Sequence, t \in Table, mode \in TwissModes : TwissBegin(q, t, mode)
  BY <1>9, <1>15, SameRegisters
<1> QED
  BY <1>10, <1>11, <1>12, <1>13, <1>14, <1>15 DEF Statement

LEMMA NextRegisters ==
  ASSUME TablesInv, NoneIsApart, EnoughIds, [Next]_vars
  PROVE  Registers
<1>1. CASE Statement
  BY <1>1, StatementRegisters
<1>2. CASE TwissTable
  BY <1>2, TwissTableRegisters
<1>3. CASE TwissChromDone \/ TwissFails
  BY <1>3, SameRegisters DEF TwissChromDone, TwissFails
<1>4. CASE TwissNext
  BY <1>4, TwissNextRegisters
<1>5. ASSUME NEW own, TwissRow(own)
      PROVE  Registers
  BY <1>5, TwissRowIs DEF Registers
<1>6. CASE UNCHANGED vars
  BY <1>6, SameRegisters DEF vars, StoreSame
<1> QED
  BY <1>1, <1>2, <1>3, <1>4, <1>5, <1>6 DEF Next, Goes

LEMMA TwissUpdated ==
  ASSUME TablesInv, NEW to, NEW at \in Nat \ {0}, twiss # None, DOMAIN to = DOMAIN twiss,
         to.name = twiss.name, to.deltas = twiss.deltas, to.at = at, twiss' = to
  PROVE  TwissIs'
BY DEF TablesInv, TwissIs

LEMMA TwissBegins ==
  ASSUME TablesInv, NEW q, NEW t \in Table, NEW mode \in TwissModes, Numbered[t] # <<>>,
         TwissBegin(q, t, mode)
  PROVE  TwissIs'
<1>1. mode.deltas \in Nat \ {0} /\ mode.deltas <= Len(Numbered[t]) + 1
  BY TablesAssumption
<1>2. PICK deltas, chrom, save, step :
        /\ deltas = mode.deltas
        /\ twiss' = [deltas |-> deltas, chrom |-> chrom, save |-> save,
                     name |-> t, at |-> 1, rows |-> 0, step |-> step]
  BY Zenon DEF TwissBegin
<1>3. /\ DOMAIN twiss' = {"deltas", "chrom", "save", "name", "at", "rows", "step"}
      /\ twiss'.name = t /\ twiss'.at = 1 /\ twiss'.deltas = deltas
  BY <1>2
<1> QED
  BY <1>1, <1>2, <1>3 DEF TwissIs

LEMMA NextTwiss ==
  ASSUME TablesInv, [Next]_vars
  PROVE  TwissIs'
<1>1. CASE UNCHANGED twiss
  BY <1>1 DEF TablesInv, TwissIs
<1>2. CASE twiss' = None
  BY <1>2 DEF TwissIs
<1> DEFINE Updated(to) ==
             /\ DOMAIN to = DOMAIN twiss /\ to.name = twiss.name /\ to.deltas = twiss.deltas
             /\ to.at \in Nat \ {0}
<1>3. ASSUME twiss # None, NEW to, twiss' = to, Updated(to)
      PROVE  TwissIs'
  <2>1. PICK at \in Nat \ {0} : to.at = at
    BY <1>3
  <2> QED
    BY <1>3, <2>1, TwissUpdated
<1>4. ASSUME twiss # None, NEW to, Updated(to), NEW step
      PROVE  Updated([to EXCEPT !.step = step])
  BY <1>4 DEF TablesInv, TwissIs
<1>5. ASSUME twiss # None, NEW to, Updated(to), NEW rows
      PROVE  Updated([to EXCEPT !.rows = rows])
  BY <1>5 DEF TablesInv, TwissIs
<1>6. ASSUME twiss # None, NEW to, Updated(to)
      PROVE  Updated([to EXCEPT !.at = to.at + 1])
  BY <1>6 DEF TablesInv, TwissIs
<1>7. twiss # None => Updated(twiss)
  BY DEF TablesInv, TwissIs
<1> HIDE DEF Updated
<1>8. CASE TwissTable
  <2>1. PICK step : twiss # None /\ twiss' = [twiss EXCEPT !.step = step, !.rows = 0]
    BY <1>8, Zenon DEF TwissTable
  <2>2. PICK to : to = [twiss EXCEPT !.step = step]
    OBVIOUS
  <2>3. twiss' = [to EXCEPT !.rows = 0]
    BY <2>1, <2>2
  <2> QED
    BY <1>3, <1>4, <1>5, <1>7, <2>1, <2>2, <2>3
<1>9. ASSUME NEW own, TwissRow(own)
      PROVE  TwissIs'
  <2>1. PICK rows : twiss # None /\ twiss' = [twiss EXCEPT !.rows = rows]
    BY <1>9 DEF TwissRow, Running
  <2> QED
    BY <1>3, <1>5, <1>7, <2>1
<1>10. CASE TwissChromDone
  <2>1. twiss # None /\ twiss' = [twiss EXCEPT !.step = "table"]
    BY <1>10 DEF TwissChromDone, Complete, Running
  <2> QED
    BY <1>3, <1>4, <1>7, <2>1
<1>11. CASE TwissNext
  <2>1. CASE ~(twiss.at < twiss.deltas)
    BY <1>2, <1>11, <2>1 DEF TwissNext
  <2>2. CASE twiss.at < twiss.deltas
    <3>1. twiss # None
      BY <1>11 DEF TwissNext, Complete, Running
    <3>2. PICK step : twiss' = [twiss EXCEPT !.at = twiss.at + 1, !.rows = 0, !.step = step]
      BY <1>11, <2>2, Zenon DEF TwissNext
    <3>3. PICK to1 : to1 = [twiss EXCEPT !.at = twiss.at + 1]
      OBVIOUS
    <3>4. PICK to2 : to2 = [to1 EXCEPT !.rows = 0]
      OBVIOUS
    <3>5. twiss' = [to2 EXCEPT !.step = step]
      BY <3>2, <3>3, <3>4
    <3>6. Updated(to1)
      BY <1>6, <1>7, <3>1, <3>3
    <3>7. Updated(to2)
      BY <1>5, <3>1, <3>4, <3>6
    <3> QED
      BY <1>3, <1>4, <3>1, <3>5, <3>7
  <2> QED
    BY <2>1, <2>2
<1>12. CASE TwissFails
  BY <1>2, <1>12 DEF TwissFails
<1>13. CASE Statement
  <2>1. ASSUME NEW q, NEW t \in Table, NEW mode \in TwissModes, Numbered[t] # <<>>,
               TwissBegin(q, t, mode)
        PROVE  TwissIs'
    BY <2>1, TwissBegins
  <2>2. ASSUME NEW x, NEW expr, Assign(x, expr) \/ Defer(x, expr)
        PROVE  UNCHANGED twiss
    BY <2>2 DEF Assign, Defer, Rest
  <2>3. ASSUME NEW t, NEW n, NEW m, NEW k, NEW noappend,
               SetVars(t, n) \/ SetLin(t, n, m, k) \/ SetKnob(t, n, k, noappend) \/ SetConst(t, n)
        PROVE  UNCHANGED twiss
    <3>1. PICK new : Sets(new)
      BY <2>3 DEF SetVars, SetLin, SetKnob, SetConst
    <3> QED
      BY <3>1 DEF Sets, Rest
  <2>4. ASSUME NEW t, NEW file, Create(t) \/ Delete(t) \/ ReadTable(t, file)
        PROVE  UNCHANGED twiss
    BY <2>4 DEF Create, Delete, ReadTable, Rest
  <2>5. ASSUME NEW t, NEW n, NEW k, Fill(t, n) \/ Shrink(t, n) \/ FillKnob(t, n, k)
        PROVE  UNCHANGED twiss
    BY <2>5 DEF Fill, Shrink, FillKnob, FillWith, Rest
  <2>6. ASSUME NEW q, Use(q)
        PROVE  UNCHANGED twiss
    BY <2>6 DEF Use
  <2>7. CASE \/ \E x \in Variable, expr \in Direct : Assign(x, expr)
             \/ \E x \in Variable, expr \in Expression : Defer(x, expr)
             \/ \E t \in Deletable : Create(t) \/ Delete(t)
             \/ \E t \in Readable, file \in File : ReadTable(t, file)
             \/ \E t \in Table, number \in Number : SetConst(t, number)
             \/ \E q \in Sequence : Use(q)
    BY <1>1, <2>2, <2>3, <2>4, <2>6, <2>7
  <2>8. CASE \E t \in Table, n \in RowNumber :
              \/ Fill(t, n) \/ Shrink(t, n) \/ SetVars(t, n)
              \/ \E k \in Knob : FillKnob(t, n, k)
              \/ \E m \in RowNumber, k \in Knob : SetLin(t, n, m, k)
              \/ \E k \in Knob, noappend \in BOOLEAN : SetKnob(t, n, k, noappend)
    BY <1>1, <2>3, <2>5, <2>8
  <2>9. CASE \E q \in Sequence, t \in Table, mode \in TwissModes :
               Numbered[t] # <<>> /\ TwissBegin(q, t, mode)
    BY <2>1, <2>9
  <2> QED
    BY <1>13, <2>7, <2>8, <2>9 DEF Statement
<1>14. CASE UNCHANGED vars
  BY <1>1, <1>14 DEF vars
<1> QED
  BY <1>8, <1>9, <1>10, <1>11, <1>12, <1>13, <1>14 DEF Next, Goes

-----------------------------------------------------------------------------
LEMMA InitIs ==
  ASSUME Init, NoneIsApart
  PROVE  TablesInv /\ Roomy(heap)
<1>1. heap = [id \in Id |-> None] /\ names = <<>> /\ ids = <<>> /\ twiss = None
  BY DEF Init
<1>2. /\ names \in Seq(Table) /\ ids \in Seq(Id) /\ Len(names) = 0 /\ Len(ids) = 0
      /\ DOMAIN heap = Id /\ \A id \in Id : heap[id] = None
  BY <1>1
<1>3. Linked(heap, names, ids, {})
  BY <1>2 DEF Linked
<1> QED
  BY <1>1, <1>2, <1>3 DEF TablesInv, TwissIs, Roomy

LEMMA TablesInvNext ==
  ASSUME TablesInv, NoneIsApart, EnoughIds, [Next]_vars
  PROVE  TablesInv' /\ (FilesLeaveRoom /\ Roomy(heap) => Roomy(heap)')
<1>1. Registers
  BY NextRegisters
<1>2. TwissIs'
  BY NextTwiss
<1> QED
  BY <1>1, <1>2 DEF TablesInv, Registers

(***************************************************************************)
(* The register, from the invariant.                                       *)
(***************************************************************************)
LEMMA RegisterIs ==
  ASSUME TablesInv, NoneIsApart
  PROVE  InRegister
<1>1. /\ names \in Seq(Table) /\ ids \in Seq(Id) /\ Len(names) = Len(ids)
      /\ \A j, k \in 1 .. Len(ids) : j # k => ids[j] # ids[k]
      /\ \A j \in 1 .. Len(ids) : IsTable(heap[ids[j]]) /\ heap[ids[j]].name = names[j]
      /\ \A id \in Id : heap[id] # None => \E j \in 1 .. Len(ids) : ids[j] = id
  BY DEF TablesInv, Linked
<1>2. DOMAIN ids = 1 .. Len(ids) /\ \A j \in 1 .. Len(ids) : ids[j] \in Id
  BY <1>1, ElementOfSeq
<1>3. IsInjective(ids)
  BY <1>1, <1>2 DEF IsInjective
<1>4. \A i \in DOMAIN ids : heap[ids[i]] # None /\ heap[ids[i]].name = names[i]
  BY <1>1, <1>2 DEF NoneIsApart
<1>5. Range(ids) = {ids[j] : j \in 1 .. Len(ids)}
  BY <1>2 DEF Range
<1>6. {id \in Id : heap[id] # None} = Range(ids)
  BY <1>1, <1>2, <1>4, <1>5
<1> QED
  BY <1>1, <1>3, <1>4, <1>6 DEF InRegister

(***************************************************************************)
(* Tables that are created, read, deleted, made and renamed stay under the *)
(* name they have, and none is lost: the register of tables, as long as    *)
(* there is memory.                                                        *)
(***************************************************************************)
THEOREM TablesRegistered ==
  ASSUME NoneIsApart
  PROVE  Spec => []InRegister
<1>1. Init => TablesInv
  BY InitIs
<1>2. TablesInv /\ [Next]_vars => TablesInv'
  BY TablesInvNext, TablesAssumption
<1>3. TablesInv => InRegister
  BY RegisterIs
<1> QED
  BY <1>1, <1>2, <1>3, PTL DEF Spec

(***************************************************************************)
(* Whoever writes the next row of a table finds it free, however the table *)
(* has been filled, shrunk, grown, numbered and made again, if no file     *)
(* fills the table it is read into.                                        *)
(***************************************************************************)
THEOREM RowIsFree ==
  ASSUME NoneIsApart, FilesLeaveRoom
  PROVE  Spec => []FreeRow
<1>1. Init => TablesInv /\ Roomy(heap)
  BY InitIs
<1>2. (TablesInv /\ Roomy(heap)) /\ [Next]_vars => (TablesInv /\ Roomy(heap))'
  BY TablesInvNext, TablesAssumption
<1>3. TablesInv /\ Roomy(heap) => FreeRow
  <2> SUFFICES ASSUME TablesInv, Roomy(heap), NEW i \in DOMAIN ids
               PROVE  heap[ids[i]].curr < heap[ids[i]].max
    BY DEF FreeRow
  <2>1. ids \in Seq(Id) /\ DOMAIN ids = 1 .. Len(ids)
    BY DEF TablesInv, Linked
  <2>2. ids[i] \in Id
    BY <2>1, ElementOfSeq
  <2>3. heap[ids[i]] # None
    BY <2>1 DEF TablesInv, Linked, NoneIsApart
  <2> QED
    BY <2>2, <2>3 DEF Roomy
<1> QED
  BY <1>1, <1>2, <1>3, PTL DEF Spec
=============================================================================
