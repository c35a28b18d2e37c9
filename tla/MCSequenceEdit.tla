--------------------------- MODULE MCSequenceEdit ---------------------------
(***************************************************************************)
(* Values for the constants of SequenceEdit: 1 and 2 are the markers of    *)
(* the ends, 3 is a marker, 4, 5 and 6 are other elements.                 *)
(***************************************************************************)
EXTENDS SequenceEdit

MCHalf == [e \in 1 .. 106 |-> 0]

MCShift == {-1, 1}

(***************************************************************************)
(* Only 5 has a length; the places given are those of entries.             *)
(***************************************************************************)
MCHalfLong == [e \in 1 .. 106 |-> IF e = 5 THEN 1 ELSE 0]

MCInitial == {[elems |-> <<3, 4>>, at |-> <<1, 1>>, ref_flag |-> 0]}

MCInitialEntry == {[elems |-> <<3>>, at |-> <<0>>, ref_flag |-> 1]}

MCSelects ==
  {[range |-> <<<<3, 1>>, <<2, 1>>>>, class |-> {3, 4}],
   [range |-> All, class |-> {5}]}

MCSelectsOne == {[range |-> <<<<4, 1>>, <<4, 1>>>>, class |-> {4}]}

(***************************************************************************)
(* The range of one covers 4, the class of the other too, but neither      *)
(* statement selects it.                                                   *)
(***************************************************************************)
MCSelectsApart ==
  {[range |-> <<<<4, 1>>, <<4, 1>>>>, class |-> {3}],
   [range |-> <<<<3, 1>>, <<3, 1>>>>, class |-> {4}]}
=============================================================================
