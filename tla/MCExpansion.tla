---------------------------- MODULE MCExpansion ----------------------------
(***************************************************************************)
(* A quadrupole that may be changed, a marker, lines that contain each     *)
(* other, and sequences inside of sequences, with a reference element and  *)
(* without.                                                                *)
(***************************************************************************)
EXTENDS Expansion

MCLengths == "q" :> {2, 4} @@ "m" :> {0}

Q == Label("q")
M == Label("m")
S == Label("s")
R(x, y) == Member(FALSE, 1, "r", <<x, y>>)

Body(name, formal, members) == [name |-> name, formal |-> formal, members |-> members]

MCLineBodies ==
  {Body("s", <<>>, <<Q, M>>),
   Body("s", <<>>, <<Repeated(2, M), Q, Q>>),
   Body("r", <<"m", "y">>, <<Label("m"), Q, Reflected(Label("y"))>>),
   Body("t", <<>>, <<R(S, M), Reflected(Repeated(2, R(Q, S))), Repeated(3, S)>>),
   Body("t", <<>>, <<S, Reflected(Repeated(2, SubLine(<<M, S, Reflected(SubLine(<<Q, Repeated(2, SubLine(<<S, M>>))>>))>>))),
                     Reflected(Repeated(2, M))>>)}

(***************************************************************************)
(* An element has the name of the second formal argument, and is the first *)
(* actual one.                                                             *)
(***************************************************************************)
MCLineLater ==
  {Body("s", <<>>, <<Q, M>>), Body("r", <<"x", "m">>, <<Label("x"), Q, Label("m")>>),
   Body("t", <<>>, <<R(M, Q), S>>)}

MCLineSubLine ==
  {Body("s", <<>>, <<Q, M>>), Body("t", <<>>, <<S, SubLine(<<M, Q>>)>>)}

Placed(name, at) == [name |-> name, at |-> at]

Declaration(name, l, ref, refpos, members) ==
  [name |-> name, length |-> l, ref |-> ref, refpos |-> refpos, members |-> members]

MCDeclarations ==
  {Declaration("p", 6, 1, "m", <<Placed("m", 1), Placed("q", 2)>>),
   Declaration("v", 10, -1, NoName, <<Placed("p", 3), Placed("m", 10)>>),
   Declaration("t", 20, 1, NoName, <<Placed("p", 1), Placed("v", 8)>>),
   Declaration("t", 8, 0, "q", <<Placed("q", 4), Placed("m", 8), Placed("m", 0)>>)}
=============================================================================
