----------------------------- MODULE MCMatching -----------------------------
EXTENDS MatchingKnobs

CONSTANTS s, t, u, q, v, a, b, MaxCalls

Jobs ==
  {[op |-> "match", with |-> how] : how \in {"macros", "knobs"}} \union
  {[op |-> "match", with |-> "sequences", names |-> names] : names \in {<<s>>, <<s, t>>, <<s, u>>, <<Unknown, s>>}} \union
  {[op |-> "match", with |-> "current", sequ |-> s]}

Plain ==
  {[op |-> "vary", names |-> {v}], [op |-> "vary", names |-> {}],
   [op |-> "aperture", sequ |-> s], [op |-> "endmatch"],
   [op |-> "method", method |-> "lmdif", calls |-> MaxCalls],
   [op |-> "method", method |-> "simplex", calls |-> 0],
   [op |-> "macro", name |-> "m1"], [op |-> "ptc"]}

Constraints ==
  {[op |-> op, sequs |-> sequs, quantity |-> quantity, lhs |-> TRUE, rhs |-> rhs] :
     op \in {"constraint", "global"}, sequs \in {{s}, {s, t}}, quantity \in {q}, rhs \in BOOLEAN}

Knobs == {[op |-> "varyknob", name |-> name] : name \in {a, b}}

MCAmbiguous == {<<b, a>>}

MCUser == Jobs \union Plain \union Constraints \union Knobs
=============================================================================
