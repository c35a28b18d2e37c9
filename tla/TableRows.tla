---------------------------- MODULE TableRows ------------------------------
(***************************************************************************)
(* What the manual promises of tables (tables.tex and format.tex in        *)
(* doc/latexuguide): a table is a sequence of rows under a name, FILL and  *)
(* SETVARS carry values between a row and the variables that have the      *)
(* names of the columns, and TABLE(...) in an expression is the value of a *)
(* cell.  There are no counts, capacities, lists or addresses here.        *)
(*                                                                         *)
(* An access TABLE(...) is a name of an expression, where Expressions has  *)
(* the parameters of elements.                                             *)
(***************************************************************************)
EXTENDS Expressions

CONSTANTS
  Table,        \* names of tables
  UserColumns,  \* the columns of a table that is CREATEd: variables
  OwnColumns,   \* the columns that TWISS fills itself
  Extra,        \* columns SELECTed for the table of TWISS: variables
  Numbered,     \* name |-> the names of the tables of several DELTAP
  Cell,         \* access |-> [table, column, row], row 0 if none is given
  Direct,       \* what a variable may get the value of
  File,         \* files of READTABLE, as sequences of rows
  RowNumber,    \* what ROW may be
  Deltas,       \* how many values DELTAP may have
  None

-----------------------------------------------------------------------------
VARIABLES
  tables,  \* name |-> None, or [columns, rows]
  def,     \* variable |-> its definition
  twiss    \* the TWISS command that goes on, or None

New(columns, rows) == [columns |-> columns, rows |-> rows]

Exists(t) == tables[t] # None

Rows(t) == tables[t].rows

(***************************************************************************)
(* "The return value is zero if N_row is outside of the allowed range";    *)
(* "TABLE(x,z) identical to TABLE(x,z,1)", but in a column that is added   *)
(* to the table of TWISS it is the row itself.                             *)
(***************************************************************************)
CellValue(seen, a, t, row) ==
  LET at == Cell[a]
      n == IF at.row = 0 THEN 1 ELSE at.row
  IN  IF at.row = 0 /\ at.table = t THEN row[at.column]
      ELSE IF seen[at.table] # None /\ n \in DOMAIN seen[at.table].rows
      THEN seen[at.table].rows[n][at.column]
      ELSE 0

Defs(seen, t, row) ==
  [x \in Name |-> IF x \in Variable THEN def[x]
                  ELSE Immediate("value", CellValue(seen, x, t, row))]

DefsIn(seen) == Defs(seen, None, <<>>)

Value(expr) == Meaning(DefsIn(tables), expr)

-----------------------------------------------------------------------------
Assign(x, expr) ==
  /\ def' = [def EXCEPT ![x] = Immediate("value", Value(expr))]
  /\ UNCHANGED <<tables, twiss>>

Defer(x, expr) ==
  /\ def' = [def EXCEPT ![x] = Deferred(expr)]
  /\ UNCHANGED <<tables, twiss>>

Put(t, table) == tables' = [tables EXCEPT ![t] = table] /\ UNCHANGED <<def, twiss>>

Create(t) == ~Exists(t) /\ Put(t, New(UserColumns, <<>>))

ReadTable(t, file) == Put(t, New(UserColumns, file))

Delete(t) == Put(t, None)

(***************************************************************************)
(* Numbers of rows: negative ones count from the last row.                 *)
(***************************************************************************)
Row(t, n) == IF n < 0 THEN Len(Rows(t)) + 1 + n ELSE n

(***************************************************************************)
(* FILL: a row is replaced, or added at the end.                           *)
(***************************************************************************)
Filled(t, n) == IF n = 0 THEN Len(Rows(t)) + 1 ELSE Row(t, n)

FillRow(t, n, row) ==
  LET i == Filled(t, n)
      top == IF i > Len(Rows(t)) THEN i ELSE Len(Rows(t))
  IN  /\ i \in 1 .. Len(Rows(t)) + 1
      /\ tables' = [tables EXCEPT ![t].rows =
                      [j \in 1 .. top |-> IF j = i THEN row ELSE @[j]]]
      /\ UNCHANGED twiss

FillSeeing(seen, t, n) ==
  /\ FillRow(t, n, [c \in tables[t].columns |-> Meaning(DefsIn(seen), <<c>>)])
  /\ UNCHANGED def

Fill(t, n) == Exists(t) /\ FillSeeing(tables, t, n)

(***************************************************************************)
(* FILL_KNOB: the variation "when the knob value change by 1".  The knob   *)
(* has the value it had, whatever becomes of its definition.               *)
(***************************************************************************)
FillKnobSeeing(seen, t, n, k) ==
  LET moved == [DefsIn(seen) EXCEPT ![k] = Immediate("value", Plus(Value(<<k>>), 1))]
  IN  /\ FillRow(t, n, [c \in tables[t].columns |->
                           Plus(Meaning(moved, <<c>>), Modulus - Value(<<c>>))])
      /\ def' \in {def, [def EXCEPT ![k] = Immediate("value", Value(<<k>>))]}

FillKnob(t, n, k) == Exists(t) /\ FillKnobSeeing(tables, t, n, k)

(***************************************************************************)
(* Not in the manual: the same for columns that depend on the row to be    *)
(* filled or on one behind it, and do not see these.                       *)
(***************************************************************************)
LooksAhead(t, n) ==
  Exists(t) /\ \E a \in Parameter \intersect Reached(DefsIn(tables), tables[t].columns) :
                 Cell[a].table = t /\ Cell[a].row >= Filled(t, n)

Above(t, n) == [tables EXCEPT ![t].rows = SubSeq(@, 1, Filled(t, n) - 1)]

FillBlind(t, n) == Exists(t) /\ FillSeeing(Above(t, n), t, n)

FillKnobBlind(t, n, k) == Exists(t) /\ FillKnobSeeing(Above(t, n), t, n, k)

(***************************************************************************)
(* SHRINK: "the last row to be kept".                                      *)
(***************************************************************************)
Shrink(t, n) ==
  LET last == IF n < 0 THEN Len(Rows(t)) + n ELSE n
  IN  /\ Exists(t) /\ last \in 0 .. Len(Rows(t))
      /\ Put(t, [tables[t] EXCEPT !.rows = SubSeq(@, 1, last)])

(***************************************************************************)
(* SETVARS, SETVARS_CONST, SETVARS_LIN and SETVARS_KNOB.                   *)
(***************************************************************************)
Set(t, of) ==
  /\ def' = [x \in Variable |-> IF x \in tables[t].columns THEN of[x] ELSE def[x]]
  /\ UNCHANGED <<tables, twiss>>

HasRow(t, n) == Exists(t) /\ Row(t, n) \in DOMAIN Rows(t)

Held(t, n, c) == Rows(t)[Row(t, n)][c]

SetVars(t, n) == HasRow(t, n) /\ Set(t, [c \in Variable |-> Immediate("value", Held(t, n, c))])

SetConst(t, number) == Exists(t) /\ Set(t, [c \in Variable |-> Immediate("value", number)])

Times(number, x) == [i \in 1 .. number |-> x]

(***************************************************************************)
(* A sum without its zeros.                                                *)
(***************************************************************************)
Sum(expr) ==
  LET kept == SelectSeq(expr, LAMBDA item : item # 0)
  IN  Deferred(IF kept = <<>> THEN <<0>> ELSE kept)

(***************************************************************************)
(* "value := value(row1)*(1-param) + value(row2)*param"                    *)
(***************************************************************************)
SetLin(t, n, m, x) ==
  /\ HasRow(t, n) /\ HasRow(t, m)
  /\ Set(t, [c \in Variable |->
                LET from == Held(t, n, c)
                IN  Sum(<<from>> \o Times(Plus(Held(t, m, c), Modulus - from), x))])

(***************************************************************************)
(* "by adding a term + val * knob"                                         *)
(***************************************************************************)
SetKnob(t, n, k, noappend) ==
  /\ HasRow(t, n)
  /\ Set(t, [c \in Variable |->
                LET d == def[c]
                    old == IF noappend THEN <<>>
                           ELSE IF d.kind = "deferred" THEN d.expr ELSE <<d.value>>
                IN  Sum(old \o Times(Held(t, n, c), k))])

-----------------------------------------------------------------------------
(***************************************************************************)
(* TWISS, DELTAP, TABLE, CHROM, NOTABLE: a table for every value of        *)
(* DELTAP, in which all are numbered but the last one.  NOTABLE: "to       *)
(* prevent the creation of the internal twiss table" (twiss.tex).          *)
(***************************************************************************)
TwissBegin(t, deltas, save) ==
  /\ twiss' = [name |-> t, deltas |-> deltas, at |-> 1, save |-> save]
  /\ UNCHANGED <<tables, def>>

TwissTable == twiss.save /\ Put(twiss.name, New(OwnColumns \union Extra, <<>>))

TwissRow(own) ==
  LET row == own @@ [c \in Extra |-> Meaning(Defs(tables, twiss.name, own), <<c>>)]
  IN  /\ twiss.save /\ Exists(twiss.name)
      /\ Put(twiss.name, [tables[twiss.name] EXCEPT !.rows = Append(@, row)])

TwissNext ==
  /\ twiss.at < twiss.deltas
  /\ twiss' = [twiss EXCEPT !.at = @ + 1]
  /\ tables' = IF twiss.save
               THEN [tables EXCEPT ![Numbered[twiss.name][twiss.at]] = tables[twiss.name],
                                   ![twiss.name] = None]
               ELSE tables
  /\ UNCHANGED def

TwissEnd == twiss' = None /\ UNCHANGED <<tables, def>>

-----------------------------------------------------------------------------
Init ==
  /\ tables = [t \in Table |-> None]
  /\ def = [x \in Variable |-> Immediate("value", 0)]
  /\ twiss = None

Statement ==
  \/ \E x \in Variable, expr \in Direct : Assign(x, expr)
  \/ \E x \in Variable, expr \in Expression : Defer(x, expr)
  \/ \E t \in Table :
       \/ Create(t) \/ Delete(t)
       \/ \E file \in File : ReadTable(t, file)
       \/ \E n \in RowNumber :
            \/ Fill(t, n) \/ Shrink(t, n) \/ SetVars(t, n)
            \/ \E k \in Variable : FillKnob(t, n, k)
            \/ \E m \in RowNumber, k \in Variable : SetLin(t, n, m, k)
            \/ \E k \in Variable, noappend \in BOOLEAN : SetKnob(t, n, k, noappend)
       \/ \E number \in Number : SetConst(t, number)
       \/ \E deltas \in Deltas, save \in BOOLEAN : TwissBegin(t, deltas, save)

Going ==
  \/ TwissTable \/ TwissNext \/ TwissEnd
  \/ \E own \in [OwnColumns -> Number] : TwissRow(own)

Next == IF twiss = None THEN Statement ELSE Going

Spec == Init /\ [][Next]_<<tables, def, twiss>>
=============================================================================
