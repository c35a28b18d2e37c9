----------------------------- MODULE MCTables ------------------------------
(***************************************************************************)
(* A table that is created or read, the table of TWISS and the one it is   *)
(* numbered as; a column that is a variable, a knob, and a column of       *)
(* TWISS.                                                                  *)
(***************************************************************************)
EXTENDS Tables

CONSTANTS t, w, w1, x, k, b, tx1, wb

MCNumbered == [n \in Table |-> IF n = w THEN <<w1>> ELSE <<>>]

MCCell ==
  [a \in Parameter |-> IF a = tx1 THEN [table |-> t, column |-> x, row |-> 1]
                       ELSE [table |-> w, column |-> b, row |-> 0]]

MCRowNumber == -2 .. 2

Rows(n) == {[i \in 1 .. n |-> [c \in UserColumns |-> v]] : v \in Number}

MCFile == Rows(1) \union Rows(3)

MCFileFull == Rows(2)

MCDirect == {<<1>>, <<tx1>>}

MCExpression == {<<1, k>>, <<tx1>>}

MCExpressionTwiss == {<<1>>, <<wb>>}

MCModes == {[deltas |-> d, chrom |-> c, save |-> TRUE] : d \in 1 .. 2, c \in BOOLEAN}
             \union {[deltas |-> 1, chrom |-> FALSE, save |-> FALSE]}

MCModesAll == [deltas : 1 .. 2, chrom : BOOLEAN, save : BOOLEAN]

ASSUME RoomAssumption == FilesLeaveRoom
=============================================================================
