------------------------- MODULE SequenceRefinement -------------------------
(***************************************************************************)
(* The editor of SequenceEdit implements SequenceLayout, with the layout   *)
(* that its ring declares.                                                 *)
(***************************************************************************)
EXTENDS SequenceEdit

(***************************************************************************)
(* The elements from start to end, each at the place that is computed for  *)
(* it whenever the sequence is opened, flattened or used.                  *)
(***************************************************************************)
DeclaredLayout(s) ==
  LET ring == Ring(s)
      declared == Declared(s)
  IN  [i \in DOMAIN ring |->
         [elem |-> s.node[ring[i]].elem,
          pos |-> CHOOSE p \in declared[ring[i]] : TRUE]]

Layout == INSTANCE SequenceLayout WITH layout <- DeclaredLayout(ed)

(***************************************************************************)
(* The editor edits the layout: every command changes it as SequenceLayout *)
(* says, and SEQEDIT, FLATTEN, SELECT and ENDEDIT do not change it at all. *)
(* This is Layout!Spec, with the two layouts computed once for a step.     *)
(***************************************************************************)
EditsLayout ==
  /\ Layout!Init
  /\ [][LET before == DeclaredLayout(ed)
            after == DeclaredLayout(ed')
        IN  before = after \/ Layout!Edit(before, after)]_vars
=============================================================================
