---------------------------- MODULE MCGenerators ----------------------------
(***************************************************************************)
(* Two streams of two words, and an array of five cells that is drawn      *)
(* through more than twice.                                                *)
(***************************************************************************)
EXTENDS Generators

MCPattern == 0 :> 5 @@ 1 :> 3

MCJump == {0, 2, 3}
=============================================================================
