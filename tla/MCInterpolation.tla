--------------------------- MODULE MCInterpolation ---------------------------
(***************************************************************************)
(* Two sequences: markers at the ends, a bend and another element between  *)
(* them, one of both with a length in each; selections of all kinds, with  *)
(* and without conditions.                                                 *)
(***************************************************************************)
EXTENDS Interpolation

CONSTANTS s, t

N(j) == <<"node", j>>

MCLine == (s :> <<N(1), N(2), N(3), N(4)>>) @@ (t :> <<N(5), N(6), N(7)>>)

MCBends == {N(2)}

MCLength == [n \in {N(j) : j \in 1..7} |-> <<0, 24, 12, 0, 0, 12, 0>>[n[2]]]

MCRanges ==
  (s :> {[first |-> 1, last |-> 4], [first |-> 2, last |-> 3]})
    @@ (t :> {[first |-> 1, last |-> 3]})

MCSelect(clear, sequ, class, at, step, slice) ==
  [clear |-> clear, sequ |-> sequ, class |-> class, at |-> at, step |-> step,
   slice |-> slice]

MCSelects ==
  {MCSelect(TRUE, None, "any", 0, 0, 1), MCSelect(TRUE, None, "bend", 0, 0, 1),
   MCSelect(TRUE, t, "any", 0, 0, 1),
   MCSelect(FALSE, None, "any", 0, 0, 3), MCSelect(FALSE, s, "any", 2, 0, 1),
   MCSelect(FALSE, None, "other", 0, 6, 1)}
=============================================================================
