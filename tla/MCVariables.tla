---------------------------- MODULE MCVariables ----------------------------
(***************************************************************************)
(* Two variables and a parameter of an element, defined by numbers, by     *)
(* each other and by themselves.                                           *)
(***************************************************************************)
EXTENDS Variables

CONSTANTS x, y, p

MCDirect == {<<1>>, <<x, y>>}

MCExpression == {<<1>>, <<p>>, <<x, 1>>}

MCAddition == {<<1>>}
=============================================================================
