-------------------------- MODULE MCSequenceLayout --------------------------
EXTENDS MCSequenceEdit, SequenceRefinement
=============================================================================
