------------------------ MODULE MCBufferedCommands ------------------------
(***************************************************************************)
(* Two labels and a macro that uses them.                                  *)
(***************************************************************************)
EXTENDS BufferedCommands

Statement(label, op, target) ==
  [label |-> label, op |-> op, target |-> target, id |-> 0]

MCMacros == [m |-> <<Statement("a", "other", None), Statement("b", "exec", "a")>>]

MCStatements ==
  {Statement(label, op, None) : label \in Labels \union {None}, op \in {"define", "other"}}
    \union {Statement(label, "exec", target) :
              label \in Labels \union {None}, target \in Labels \union DOMAIN Macros}

(***************************************************************************)
(* For a scenario: it is put in a macro, which is all that is executed.    *)
(***************************************************************************)
MCExecOnly == {Statement(None, "exec", "m")}

MCTwoLabels ==
  [m |-> <<Statement("a", "other", None), Statement(None, "exec", "a"),
           Statement("b", "other", None), Statement(None, "exec", "b")>>]

MCChains ==
  [m |-> <<Statement("a", "other", None), Statement("d", "other", None),
           Statement("d", "exec", "e"), Statement("a", "exec", "c"),
           Statement("c", "other", None), Statement("e", "other", None),
           Statement(None, "exec", "e")>>]
=============================================================================
