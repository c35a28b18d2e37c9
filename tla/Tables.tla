------------------------------ MODULE Tables -------------------------------
(***************************************************************************)
(* The tables of MAD-X: the register of tables and the rows of each, of    *)
(* mad_table.c, the commands over them in mad_exec.c, and the loop of      *)
(* mad_twiss.c that makes tables and numbers them.                         *)
(*                                                                         *)
(* Variables have the values Definitions says; Variables shows that the    *)
(* program implements it.  Rows are counted from 1.                        *)
(***************************************************************************)
EXTENDS Expressions

CONSTANTS
  Table, UserColumns, OwnColumns, Extra, Numbered, Cell, Direct, File, RowNumber, None,
  Sequence,
  Id,                 \* addresses of tables
  USER_TABLE_LENGTH, READ_LENGTH,  \* rows a table is made for
  NODES,              \* rows of a table of TWISS
  Deletable, Readable,  \* tables that DELETE and READTABLE are used with
  TwissModes,         \* [deltas, chrom, save] that TWISS is used with
  Knob,               \* variables that the commands have as knob or parameter
  MaxRows, MaxItems   \* bounds: rows of a table, items of an expression

VARIABLES
  heap,      \* address |-> None, or a table
  names,     \* table_register->names
  ids,       \* table_register->tables
  def,       \* variable |-> its definition
  current_sequ,
  tw,        \* sequence |-> [table, valid]: tw_table and tw_valid
  twiss,     \* the TWISS command that goes on, or None
  exited

vars == <<heap, names, ids, def, current_sequ, tw, twiss, exited>>

(***************************************************************************)
(* malloc: there are addresses for more than every table, and every        *)
(* tw_table of a sequence.                                                 *)
(***************************************************************************)
EnoughIds ==
  /\ Id \subseteq Nat /\ IsFiniteSet(Table) /\ IsFiniteSet(Sequence)
  /\ IsFiniteSet(Id) => Cardinality(Id) > Cardinality(Table) + Cardinality(Sequence)

ASSUME TablesAssumption ==
  /\ UserColumns \union Extra \subseteq Variable /\ OwnColumns \subseteq Variable
  /\ OwnColumns \intersect Extra = {}
  /\ Deletable \union Readable \subseteq Table
  /\ Numbered \in [Table -> Seq(Table)]
  /\ USER_TABLE_LENGTH \in Nat /\ READ_LENGTH \in Nat /\ NODES \in Nat
  /\ File \subseteq Seq([UserColumns -> Number])
  /\ TwissModes \subseteq [deltas : Nat \ {0}, chrom : BOOLEAN, save : BOOLEAN]
  /\ \A mode \in TwissModes, t \in Table :
       Numbered[t] # <<>> => mode.deltas <= Len(Numbered[t]) + 1
  /\ EnoughIds

-----------------------------------------------------------------------------
(* The rows of one table.                                                  *)

(***************************************************************************)
(* new_table: one row more than asked for.                                 *)
(***************************************************************************)
NewTable(name, columns, org, rows) ==
  [name |-> name, columns |-> columns, org |-> org, dynamic |-> FALSE,
   curr |-> 0, max |-> rows + 1, cells |-> [c \in columns |-> [i \in 1 .. rows + 1 |-> 0]]]

Grown_Short(table) ==
  [table EXCEPT !.max = 2 * @,
     !.cells = [c \in table.columns |->
                  [i \in 1 .. 2 * table.max |-> IF i < table.curr THEN @[c][i] ELSE 0]]]

(***************************************************************************)
(* grow_table: the rows there are are kept, the others 0.                  *)
(***************************************************************************)
Grown(table) ==
  [table EXCEPT !.max = 2 * @,
     !.cells = [c \in table.columns |->
                  [i \in 1 .. 2 * table.max |-> IF i <= table.curr THEN @[c][i] ELSE 0]]]

Written(table, row, values) ==
  [table EXCEPT !.cells =
     [c \in table.columns |-> IF c \in DOMAIN values THEN [@[c] EXCEPT ![row] = values[c]]
                              ELSE @[c]]]

Counted_Late(table) ==
  LET counted == [table EXCEPT !.curr = @ + 1]
  IN  IF table.curr = table.max THEN Grown(counted) ELSE counted

(***************************************************************************)
(* augment_count: counted, and grown when there is no free row any more.   *)
(***************************************************************************)
Counted(table) ==
  LET counted == [table EXCEPT !.curr = @ + 1]
  IN  IF counted.curr = counted.max THEN Grown(counted) ELSE counted

-----------------------------------------------------------------------------
(* The register of tables: s is [heap, names, ids].                        *)

Store == [heap |-> heap, names |-> names, ids |-> ids]

StoreIs(s) == heap' = s.heap /\ names' = s.names /\ ids' = s.ids

Position(s, t) == IF t \in Range(s.names) THEN CHOOSE i \in DOMAIN s.names : s.names[i] = t ELSE 0

Find(s, t) == IF Position(s, t) = 0 THEN None ELSE s.ids[Position(s, t)]

Fresh == Min({id \in Id : heap[id] = None /\ \A q \in Sequence : tw[q].table # id})

AddedToList_Leak(s, id) ==
  LET pos == Position(s, s.heap[id].name)
  IN  IF pos = 0
      THEN [s EXCEPT !.names = Append(@, s.heap[id].name), !.ids = Append(@, id)]
      ELSE [s EXCEPT !.ids[pos] = id]

(***************************************************************************)
(* add_to_table_list: a table that has the name is deleted.                *)
(***************************************************************************)
AddedToList(s, id) ==
  LET pos == Position(s, s.heap[id].name)
  IN  IF pos = 0
      THEN [s EXCEPT !.names = Append(@, s.heap[id].name), !.ids = Append(@, id)]
      ELSE [s EXCEPT !.heap[s.ids[pos]] = None, !.ids[pos] = id]

(***************************************************************************)
(* detach_table_from_table_list: the last one takes the place.             *)
(***************************************************************************)
Without(list, pos) == Front([list EXCEPT ![pos] = Last(list)])

Detached(s, t) ==
  [s EXCEPT !.names = Without(@, Position(s, t)), !.ids = Without(@, Position(s, t))]

Deleted(s, t) == [Detached(s, t) EXCEPT !.heap[Find(s, t)] = None]

-----------------------------------------------------------------------------
(***************************************************************************)
(* table_value, of TABLE(table, column, row) and TABLE(table, column).     *)
(***************************************************************************)
CellValue(s, a) ==
  LET at == Cell[a]
      id == Find(s, at.table)
      table == s.heap[id]
      row == IF at.row # 0 THEN at.row ELSE IF table.dynamic THEN table.curr + 1 ELSE 1
  IN  IF id # None /\ at.column \in table.columns /\ (at.row = 0 \/ row <= table.curr)
      THEN table.cells[at.column][row]
      ELSE 0

(***************************************************************************)
(* get_variable, in an expression too.                                     *)
(***************************************************************************)
DefsOf(s, d) ==
  [x \in Name |-> IF x \in Variable THEN d[x] ELSE Immediate("value", CellValue(s, x))]

Value(expr) == Meaning(DefsOf(Store, def), expr)

Sound(d) == ~Circular(DefsOf(Store, d), Variable)

(***************************************************************************)
(* A statement, or a command for the table t.                              *)
(***************************************************************************)
Idle == twiss = None /\ exited = None

TableOf(t) == heap[Find(Store, t)]

Command(t) == Idle /\ Find(Store, t) # None

Rest == UNCHANGED <<current_sequ, tw, twiss, exited>>

StoreSame == UNCHANGED <<heap, names, ids>>

Assign(x, expr) ==
  /\ Idle
  /\ def' = [def EXCEPT ![x] = Immediate("value", Value(expr))]
  /\ StoreSame /\ Rest

Defer(x, expr) ==
  /\ Idle
  /\ Sound([def EXCEPT ![x] = Deferred(expr)])
  /\ def' = [def EXCEPT ![x] = Deferred(expr)]
  /\ StoreSame /\ Rest

-----------------------------------------------------------------------------
(* exec_create_table, read_table, exec_delete_table                        *)

Enter(table) ==
  LET id == Fresh
  IN  StoreIs(AddedToList([Store EXCEPT !.heap[id] = table], id))

Create(t) ==
  /\ Idle /\ Find(Store, t) = None
  /\ Enter([NewTable(t, UserColumns, {}, USER_TABLE_LENGTH) EXCEPT !.dynamic = TRUE])
  /\ UNCHANGED def /\ Rest

(***************************************************************************)
(* A row for every line: here a table is grown before the row is written.  *)
(***************************************************************************)
WithLine(table, line) ==
  LET roomy == IF table.curr = table.max THEN Grown(table) ELSE table
  IN  [Written(roomy, roomy.curr + 1, line) EXCEPT !.curr = @ + 1]

Lines(table, file) ==
  LET read[n \in 0 .. Len(file)] ==
        IF n = 0 THEN table ELSE WithLine(read[n - 1], file[n])
  IN  read[Len(file)]

ReadTable(t, file) ==
  /\ Idle
  /\ Enter(Lines(NewTable(t, UserColumns, UserColumns, READ_LENGTH), file))
  /\ UNCHANGED def /\ Rest

Delete(t) ==
  /\ Command(t)
  /\ StoreIs(Deleted(Store, t))
  /\ UNCHANGED def /\ Rest

-----------------------------------------------------------------------------
(* exec_fill_table, exec_fill_knob_table, exec_shrink_table                *)

FilledRow(table, n) == IF n < 1 THEN table.curr + n + 1 ELSE n

FillWith(t, n, values) ==
  LET table == TableOf(t)
      row == FilledRow(table, n)
      filled == Written(table, row, values)
  IN  /\ row \in 1 .. table.curr + 1 /\ row <= MaxRows
      /\ IF row > table.max
         THEN exited' = "no free row" /\ UNCHANGED heap
         ELSE /\ heap' = [heap EXCEPT ![Find(Store, t)] =
                            IF row = table.curr + 1 THEN Counted(filled) ELSE filled]
              /\ UNCHANGED exited
      /\ UNCHANGED <<names, ids, current_sequ, tw, twiss>>

(***************************************************************************)
(* While the columns are evaluated, curr is the row to be filled: the rows *)
(* from there on cannot be accessed by their number.                       *)
(***************************************************************************)
Filling_All(t, n) == Store

Filling(t, n) == [Store EXCEPT !.heap[Find(Store, t)].curr = FilledRow(TableOf(t), n) - 1]

Fill(t, n) ==
  /\ Command(t)
  /\ FillWith(t, n, [c \in TableOf(t).columns |-> Meaning(DefsOf(Filling(t, n), def), <<c>>)])
  /\ UNCHANGED def

(***************************************************************************)
(* The knob is set to the value it had.  What the columns had before is    *)
(* read with all rows, what they have with the knob moved while filling.   *)
(***************************************************************************)
Restored(k) == [def EXCEPT ![k] = Immediate("value", Value(<<k>>))]

FillKnob(t, n, k) ==
  LET moved == DefsOf(Filling(t, n),
                      [def EXCEPT ![k] = Immediate("value", Plus(Value(<<k>>), 1))])
  IN  /\ Command(t)
      /\ FillWith(t, n, [c \in TableOf(t).columns |->
                           Plus(Meaning(moved, <<c>>), Modulus - Value(<<c>>))])
      /\ def' = Restored(k)

Kept(table, n) == IF n < 0 THEN table.curr + n ELSE n

Shrink(t, n) ==
  LET row == Kept(TableOf(t), n)
  IN  /\ Command(t)
      /\ row \in 0 .. TableOf(t).curr
      /\ heap' = [heap EXCEPT ![Find(Store, t)].curr = row]
      /\ UNCHANGED <<names, ids, def>> /\ Rest

-----------------------------------------------------------------------------
(* exec_setvars_table, _lin_table, _knob_table, _const_table               *)

Sets(new) ==
  /\ Sound(new @@ def)
  /\ \A c \in DOMAIN new : new[c].kind = "deferred" => Len(new[c].expr) <= MaxItems
  /\ def' = new @@ def
  /\ StoreSame /\ Rest

(***************************************************************************)
(* set_vars_from_table                                                     *)
(***************************************************************************)
SetVars(t, n) ==
  LET table == TableOf(t)
      row == IF n < 1 THEN table.curr + n + 1 ELSE n
  IN  /\ Command(t)
      /\ row \in 1 .. table.curr
      /\ Sets([c \in table.columns |-> Immediate("value", table.cells[c][row])])

InBounds(table, n) == n # 0 /\ n \in -table.curr .. table.curr

RowOf(table, n) == IF n < 0 THEN table.curr + n + 1 ELSE n

Times(number, x) == [i \in 1 .. number |-> x]

SetLin(t, n, m, x) ==
  LET table == TableOf(t)
  IN  /\ Command(t)
      /\ InBounds(table, n) /\ InBounds(table, m)
      /\ Sets([c \in table.columns |->
                 LET from == table.cells[c][RowOf(table, n)]
                     to == table.cells[c][RowOf(table, m)]
                 IN  Deferred(<<from>> \o Times(Plus(to, Modulus - from), x))])

(***************************************************************************)
(* What a variable is defined as, with the term appended.                  *)
(***************************************************************************)
Term(d, noappend, term) ==
  IF noappend THEN term
  ELSE IF d.kind = "deferred" THEN d.expr \o term
  ELSE IF d.value = 0 THEN term
  ELSE <<d.value>> \o term

SetKnob(t, n, k, noappend) ==
  LET table == TableOf(t)
  IN  /\ Command(t)
      /\ InBounds(table, n)
      /\ Sets([c \in table.columns |->
                 LET number == table.cells[c][RowOf(table, n)]
                     term == IF number = 0 THEN <<0>> ELSE Times(number, k)
                 IN  Deferred(Term(def[c], noappend, term))])

SetConst(t, number) ==
  /\ Command(t)
  /\ Sets([c \in TableOf(t).columns |-> Immediate("value", number)])

-----------------------------------------------------------------------------
(* pro_twiss and use_sequ                                                  *)

UsedTw(q) == [tw EXCEPT ![q].valid = FALSE]

Use(q) ==
  /\ Idle
  /\ current_sequ' = q /\ tw' = UsedTw(q)
  /\ UNCHANGED <<def, twiss, exited>> /\ StoreSame

TwissBegin(q, t, mode) ==
  /\ Idle
  /\ current_sequ' = q
  /\ twiss' = [deltas |-> mode.deltas, chrom |-> mode.chrom, save |-> mode.save,
               name |-> t, at |-> 1, rows |-> 0,
               step |-> IF mode.chrom THEN "chrom" ELSE "table"]
  /\ UNCHANGED <<def, tw, exited>> /\ StoreSame

MakeTwissTable ==
  /\ tw' = [tw EXCEPT ![current_sequ] = [table |-> Fresh, valid |-> TRUE]]
  /\ Enter([NewTable(twiss.name, OwnColumns \union Extra, OwnColumns, NODES)
              EXCEPT !.dynamic = TRUE])

TwissTable ==
  /\ twiss # None /\ twiss.step \in {"chrom", "table"}
  /\ IF twiss.step = "chrom" \/ twiss.save THEN MakeTwissTable
     ELSE UNCHANGED tw /\ StoreSame
  /\ twiss' = [twiss EXCEPT !.step = IF @ = "chrom" THEN "chrom rows" ELSE "rows", !.rows = 0]
  /\ UNCHANGED <<def, current_sequ, exited>>

Running == twiss # None /\ twiss.step \in {"chrom rows", "rows"}

(***************************************************************************)
(* A row: vector_to_table_curr, then augment_count with add_vars_to_table, *)
(* which evaluates the columns that were added by SELECT.                  *)
(***************************************************************************)
Augmented_First(s, id) ==
  LET table == Counted(s.heap[id])
  IN  Written(table, table.curr,
        [c \in table.columns \ table.org |->
           Meaning(DefsOf([s EXCEPT !.heap[id] = table], def), <<c>>)])

Augmented(s, id) ==
  Counted(Written(s.heap[id], s.heap[id].curr + 1,
            [c \in s.heap[id].columns \ s.heap[id].org |-> Meaning(DefsOf(s, def), <<c>>)]))

TwissRow(own) ==
  LET id == Find(Store, twiss.name)
      written == [Store EXCEPT !.heap[id] = Written(@, @.curr + 1, own)]
  IN  /\ Running /\ twiss.save /\ twiss.rows < NODES
      /\ heap' = [heap EXCEPT ![id] = Augmented(written, id)]
      /\ twiss' = [twiss EXCEPT !.rows = @ + 1]
      /\ UNCHANGED <<names, ids, def, current_sequ, tw, exited>>

(***************************************************************************)
(* twiss_success: the loop is left, with what there is.                    *)
(***************************************************************************)
TwissFails ==
  /\ Running /\ twiss' = None
  /\ UNCHANGED <<def, current_sequ, tw, exited>> /\ StoreSame

Complete == Running /\ (twiss.save => twiss.rows = NODES)

TwissChromDone ==
  /\ Complete /\ twiss.step = "chrom rows"
  /\ twiss' = [twiss EXCEPT !.step = "table"]
  /\ UNCHANGED <<def, current_sequ, tw, exited>> /\ StoreSame

(***************************************************************************)
(* Detached, renamed and added again, if there is one.                     *)
(***************************************************************************)
Renamed(s, t, new) ==
  IF Find(s, t) = None THEN s
  ELSE LET id == Find(s, t)
       IN  AddedToList([Detached(s, t) EXCEPT !.heap[id].name = new], id)

TwissNext ==
  /\ Complete /\ twiss.step = "rows"
  /\ IF twiss.at < twiss.deltas
     THEN /\ StoreIs(Renamed(Store, twiss.name, Numbered[twiss.name][twiss.at]))
          /\ twiss' = [twiss EXCEPT !.at = @ + 1, !.rows = 0,
                         !.step = IF twiss.chrom THEN "chrom" ELSE "table"]
     ELSE StoreSame /\ twiss' = None
  /\ UNCHANGED <<def, current_sequ, tw, exited>>

-----------------------------------------------------------------------------
Init ==
  /\ heap = [id \in Id |-> None] /\ names = <<>> /\ ids = <<>>
  /\ def = [x \in Variable |-> Immediate("value", 0)]
  /\ current_sequ \in Sequence
  /\ tw = [q \in Sequence |-> [table |-> None, valid |-> FALSE]]
  /\ twiss = None /\ exited = None

Statement ==
  \/ \E x \in Variable, expr \in Direct : Assign(x, expr)
  \/ \E x \in Variable, expr \in Expression : Defer(x, expr)
  \/ \E t \in Deletable : Create(t) \/ Delete(t)
  \/ \E t \in Readable, file \in File : ReadTable(t, file)
  \/ \E t \in Table, n \in RowNumber :
       \/ Fill(t, n) \/ Shrink(t, n) \/ SetVars(t, n)
       \/ \E k \in Knob : FillKnob(t, n, k)
       \/ \E m \in RowNumber, k \in Knob : SetLin(t, n, m, k)
       \/ \E k \in Knob, noappend \in BOOLEAN : SetKnob(t, n, k, noappend)
  \/ \E t \in Table, number \in Number : SetConst(t, number)
  \/ \E q \in Sequence : Use(q)
  \/ \E q \in Sequence, t \in Table, mode \in TwissModes :
       Numbered[t] # <<>> /\ TwissBegin(q, t, mode)

Goes ==
  \/ TwissTable \/ TwissChromDone \/ TwissNext \/ TwissFails
  \/ \E own \in [OwnColumns -> Number] : TwissRow(own)

Next == Statement \/ Goes

Spec == Init /\ [][Next]_vars

-----------------------------------------------------------------------------
Registered(t) == t \in Range(names)

SeenTables ==
  [t \in Table |->
     IF ~Registered(t) THEN None
     ELSE LET table == TableOf(t)
          IN  [columns |-> table.columns,
               rows |-> [i \in 1 .. table.curr |-> [c \in table.columns |-> table.cells[c][i]]]]]

(***************************************************************************)
(* A sum without its zeros.                                                *)
(***************************************************************************)
Normal(expr) ==
  LET kept == SelectSeq(expr, LAMBDA item : item # 0)
  IN  Deferred(IF kept = <<>> THEN <<0>> ELSE kept)

SeenDefs ==
  [x \in Variable |->
     IF def[x].kind = "deferred" THEN Normal(def[x].expr) ELSE def[x]]

SeenTwiss ==
  IF twiss = None THEN None
  ELSE [name |-> twiss.name, deltas |-> twiss.deltas, at |-> twiss.at, save |-> twiss.save]

Promise ==
  INSTANCE TableRows WITH
    tables <- SeenTables, def <- SeenDefs, twiss <- SeenTwiss,
    Deltas <- {mode.deltas : mode \in TwissModes}

(***************************************************************************)
(* The rows of every table and the definitions of the variables are what   *)
(* the manual says of the commands, wherever the rows are held and however *)
(* the tables have grown and moved.                                        *)
(***************************************************************************)
ImplementsRows == Promise!Spec

(***************************************************************************)
(* Each command does what the manual says of this command with these       *)
(* numbers of rows: ImplementsRows cannot tell one from the other.  FILL   *)
(* and FILL_KNOB, of columns that depend on the row to be filled or on     *)
(* those behind it, do it with 0 for the cells there (see FillsCurrent).   *)
(***************************************************************************)
EachAsSaid ==
  [][/\ heap' # heap =>
          /\ \A t \in Table, n \in RowNumber :
               /\ Fill(t, n) => IF Promise!LooksAhead(t, n) THEN Promise!FillBlind(t, n)
                                ELSE Promise!Fill(t, n)
               /\ Shrink(t, n) => Promise!Shrink(t, n)
               /\ \A k \in Knob :
                    FillKnob(t, n, k) =>
                      IF Promise!LooksAhead(t, n) THEN Promise!FillKnobBlind(t, n, k)
                      ELSE Promise!FillKnob(t, n, k)
          /\ \A t \in Deletable :
               (Create(t) => Promise!Create(t)) /\ (Delete(t) => Promise!Delete(t))
          /\ \A t \in Readable, file \in File : ReadTable(t, file) => Promise!ReadTable(t, file)
     /\ (heap' = heap /\ def' # def) =>
          /\ \A t \in Table, n \in RowNumber :
               /\ SetVars(t, n) => Promise!SetVars(t, n)
               /\ \A m \in RowNumber, k \in Knob :
                    SetLin(t, n, m, k) => Promise!SetLin(t, n, m, k)
               /\ \A k \in Knob, noappend \in BOOLEAN :
                    SetKnob(t, n, k, noappend) => Promise!SetKnob(t, n, k, noappend)
          /\ \A t \in Table, number \in Number :
               SetConst(t, number) => Promise!SetConst(t, number)
          /\ \A x \in Variable, expr \in Direct : Assign(x, expr) => Promise!Assign(x, expr)
          /\ \A x \in Variable, expr \in Expression : Defer(x, expr) => Promise!Defer(x, expr)]_vars

(***************************************************************************)
(* Whoever writes a row finds one that is free: new_table makes "+1        *)
(* because of separate augment_count" (mad_table.c:563).                   *)
(***************************************************************************)
FreeRow == \A i \in DOMAIN ids : heap[ids[i]].curr < heap[ids[i]].max

(***************************************************************************)
(* No file ends with the row that fills the table it is read into:         *)
(* READTABLE grows a table before a row, everybody else after one, and a   *)
(* table that is read and full has no free row.                            *)
(***************************************************************************)
FilesLeaveRoom ==
  \A t \in Readable, file \in File :
    LET table == Lines(NewTable(t, UserColumns, UserColumns, READ_LENGTH), file)
    IN  table.curr < table.max

(***************************************************************************)
(* A table is under the name it has, and nowhere else; what no list has is *)
(* not there any more.                                                     *)
(***************************************************************************)
InRegister ==
  /\ Len(names) = Len(ids) /\ IsInjective(ids)
  /\ \A i \in DOMAIN ids : heap[ids[i]] # None /\ heap[ids[i]].name = names[i]
  /\ {id \in Id : heap[id] # None} = Range(ids)

-----------------------------------------------------------------------------
(* What the manual says, and the program does not do.                      *)

(***************************************************************************)
(* "TABLE(x,z) identical to TABLE(x,z,1)" (format.tex).                    *)
(***************************************************************************)
FirstRow ==
  \A a \in Parameter :
    LET at == Cell[a]
    IN  (twiss = None /\ at.row = 0 /\ Registered(at.table)) =>
          LET table == TableOf(at.table)
          IN  at.column \in table.columns /\ table.curr > 0 =>
                CellValue(Store, a) = table.cells[at.column][1]

(***************************************************************************)
(* NOTABLE: "logical flag to prevent the creation of the internal twiss    *)
(* table" (twiss.tex).  With CHROM an empty one takes the place of the one *)
(* that was there; with several DELTAP that one is renamed.                *)
(***************************************************************************)
NoTable == [][twiss # None /\ ~twiss.save => UNCHANGED SeenTables]_vars

(***************************************************************************)
(* FILL fills a row "with the current values of all declared column        *)
(* variables of the table" (tables.tex), and so does FILL_KNOB with their  *)
(* variation, also where these are given by TABLE() of the row or of one   *)
(* behind it.                                                              *)
(***************************************************************************)
FillsCurrent == [][\A t \in Table, n \in RowNumber : Fill(t, n) => Promise!Fill(t, n)]_vars

KnobVaries ==
  [][\A t \in Table, n \in RowNumber, k \in Knob :
       FillKnob(t, n, k) => Promise!FillKnob(t, n, k)]_vars

(***************************************************************************)
(* FILL_KNOB fills a row "with the variation ... when the knob value       *)
(* change by 1" (tables.tex), and a knob that is deferred stays so.        *)
(***************************************************************************)
KnobKept == [][\A t \in Table, n \in RowNumber, k \in Knob :
                 FillKnob(t, n, k) => def' = def]_vars

(***************************************************************************)
(* "true if current tw_table is valid" (mad_seq.h:52): with two sequences  *)
(* and one name of a table, the other one has deleted it.                  *)
(***************************************************************************)
ValidIsThere ==
  twiss = None /\ tw[current_sequ].valid => heap[tw[current_sequ].table] # None
=============================================================================
