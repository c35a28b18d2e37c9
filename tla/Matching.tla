------------------------------ MODULE Matching ------------------------------
(***************************************************************************)
(* The commands between MATCH and ENDMATCH: pro_match of mad_match.c, the  *)
(* constraints of mad_const.c, matching with macros of mad_match2.c.       *)
(*                                                                         *)
(* What a job is about is spread over global variables: the mode, a copy   *)
(* of it among the options, the variables, the constraints on the nodes of *)
(* sequences or under macros, their number, and the vector of function     *)
(* values the Fortran minimisers work on.                                  *)
(***************************************************************************)
EXTENDS Integers, Sequences, FiniteSets, SequencesExt, FiniteSetsExt

CONSTANTS
  Sequence,      \* sequences->list
  Expanded,      \* those of them that were in a USE
  Unknown,       \* a name that is not a sequence
  NULL,
  MAX_SEQUS,     \* match_sequs->max
  MaxNames,      \* bound: names with SEQUENCE
  MACROS, CONS,  \* what MAX_MATCH_MACRO and MAX_MATCH_CONS start with
  Fails,         \* failures of macros that are made up for by DBL_MAX
  MaxConst       \* bound: constraints

kMatch_NoMatch == 0
kMatch_Std == 1
kMatch_UseMacro == 2
kMatch_PTCknobs == 3

VARIABLES
  match_is_on,
  option,        \* of the options: match_is_on, twiss_print, match_local
  keep_tw_print,
  stored_match_var,        \* NULL, or the variables
  fun_vect,      \* NULL, or its size and what the last call of mtcond wrote
  total_const,
  current_weight,
  match_sequs,   \* the sequences that are matched
  local_twiss,   \* the sequence of each TWISS, NULL where there is none
  match_num_seqs,
  node_cl,       \* sequence -> constraints on its nodes
  sequ_cl,       \* sequence -> constraints on all of it
  match2,        \* [macros, MACROS, CONS, keep]: mad_match2.c
  running,       \* a minimiser is
  nconserrs,
  exited,
  unusual,       \* what was done to the job that leaves traces
  wanted         \* twiss_print, as the user has it

jobVars == <<stored_match_var, fun_vect, total_const, current_weight>>
placeVars == <<match_sequs, local_twiss, match_num_seqs, node_cl, sequ_cl>>
modeVars == <<match_is_on, option, keep_tw_print>>
runVars == <<running, nconserrs>>

matchVars ==
  <<modeVars, jobVars, placeVars, match2, runVars, exited, unusual, wanted>>

ASSUME MatchingAssumption ==
  /\ Expanded \subseteq Sequence /\ Unknown \notin Sequence
  /\ NULL \notin Sequence /\ NULL # "crash"
  /\ MAX_SEQUS \in Nat \ {0} /\ MACROS \in Nat \ {0} /\ CONS \in Nat \ {0}
  /\ Fails \in Nat /\ MaxConst \in Nat /\ MaxNames \in Nat \ {0}

-----------------------------------------------------------------------------
(* What the minimisers are given.                                          *)

(***************************************************************************)
(* collect: the constraints on the nodes, if any was ever put there, and   *)
(* those on the sequence.                                                  *)
(***************************************************************************)
Collected(sequ) ==
  LET on == IF option.match_local THEN node_cl[sequ] ELSE {}
  IN  SetToSeq({<<sequ, "node", q>> : q \in on}) \o
      SetToSeq({<<sequ, "all", q>> : q \in sequ_cl[sequ]})

(***************************************************************************)
(* match2_evaluate_exressions: as far as the names of constraints go.      *)
(***************************************************************************)
Evaluated(i) ==
  LET slots == match2.macros[i].slots
      n == IF \E j \in DOMAIN slots : ~slots[j].name
           THEN Min({j \in DOMAIN slots : ~slots[j].name}) - 1 ELSE Len(slots)
  IN  [j \in 1 .. n |-> <<match2.macros[i].name, i, j>>]

Largest == <<"DBL_MAX">>

Fill(n) == [k \in 1 .. n |-> Largest]

(***************************************************************************)
(* Values put into a vector, after the first k.                            *)
(***************************************************************************)
Over(old, k, values) ==
  [n \in 1 .. Max({Len(old), k + Len(values)}) |->
     IF n > k /\ n <= k + Len(values) THEN values[n - k] ELSE old[n]]

(***************************************************************************)
(* mtcond with macros: failed has the macros that end with an error.  The  *)
(* place in the vector moves on only for those that do not.                *)
(***************************************************************************)
AllMax_One(n) == Fill(1)

AllMax(n) == Fill(n)

Conditions(failed) ==
  LET step(acc, i) ==
        IF acc.stab THEN acc
        ELSE IF i \notin failed
        THEN [acc EXCEPT !.at = Over(@, acc.k, Evaluated(i)), !.k = @ + Len(Evaluated(i)),
                         !.errors = 0]
        ELSE IF acc.errors >= Fails THEN [acc EXCEPT !.errors = Fails + 1, !.stab = TRUE]
        ELSE [acc EXCEPT !.errors = @ + 1, !.at = Over(@, 0, AllMax(fun_vect.size))]
  IN  FoldLeft(step, [at |-> <<>>, k |-> 0, errors |-> nconserrs, stab |-> FALSE],
               [i \in 1 .. Len(match2.macros) |-> i])

-----------------------------------------------------------------------------
Stopped(reason) == exited' = reason /\ UNCHANGED <<modeVars, jobVars, placeVars, match2, runVars, unusual, wanted>>

(***************************************************************************)
(* MATCH with nothing, or with sequences.  The first loop lists those that *)
(* are there, the second makes a TWISS for each and leaves at the first    *)
(* that is not; nothing that was done before is taken back.                *)
(***************************************************************************)
Upto(names, bad) ==
  IF \E i \in DOMAIN names : names[i] \in bad
  THEN SubSeq(names, 1, Min({i \in DOMAIN names : names[i] \in bad}) - 1)
  ELSE names

(***************************************************************************)
(* Those that are sequences, in their order.                               *)
(***************************************************************************)
Present(names) ==
  LET places == {i \in DOMAIN names : names[i] \in Sequence}
      place(k) == CHOOSE i \in places : Cardinality({j \in places : j <= i}) = k
  IN  [k \in 1 .. Cardinality(places) |-> names[place(k)]]

Inactive == Sequence \ Expanded

NoSequence == {Unknown}

GiveUp ==
  /\ match_is_on' = kMatch_NoMatch
  /\ unusual' = unusual \union {"killed"}

Switched ==
  /\ option' = [option EXCEPT !.match_is_on = TRUE, !.twiss_print = FALSE]
  /\ keep_tw_print' = option.twiss_print

MatchOn(listed, twiss, count) ==
  /\ match_sequs' = listed
  /\ match_is_on' = kMatch_Std
  /\ local_twiss' = [i \in 1 .. MaxNames |-> IF i <= Len(twiss) THEN twiss[i] ELSE local_twiss[i]]
  /\ match_num_seqs' = count
  /\ LET complete == Len(twiss) = count /\ twiss[count] \in Expanded
     IN  /\ current_weight' = (current_weight \/ complete)
         /\ unusual' = unusual \union
              (IF complete /\ count <= MAX_SEQUS THEN {} ELSE {"sequences"})

MatchSequences(names) ==
  LET read == SubSeq(names, 1, Min({Len(names), MAX_SEQUS}))
      listed == match_sequs \o Present(Upto(read, Inactive))
      killed == listed = <<>> \/ \E i \in DOMAIN read : read[i] \in Inactive
  IN  IF Len(listed) > MAX_SEQUS THEN Stopped("crash")
      ELSE /\ IF killed
              THEN /\ GiveUp /\ match_sequs' = listed
                   /\ UNCHANGED <<local_twiss, match_num_seqs, current_weight>>
              ELSE MatchOn(listed, Upto(names, NoSequence), Len(names))
           /\ Switched
           /\ UNCHANGED <<stored_match_var, fun_vect, total_const, node_cl, sequ_cl, match2,
                          runVars, exited, wanted>>

MatchCurrent(sequ) ==
  IF Len(match_sequs) = MAX_SEQUS THEN Stopped("crash")
  ELSE /\ MatchOn(Append(match_sequs, sequ), <<sequ>>, 1)
       /\ Switched
       /\ UNCHANGED <<stored_match_var, fun_vect, total_const, node_cl, sequ_cl, match2,
                      runVars, exited, wanted>>

(***************************************************************************)
(* match2_match.                                                           *)
(***************************************************************************)
MatchMacros ==
  /\ match_is_on' = kMatch_UseMacro
  /\ total_const' = 0
  /\ match2' = [match2 EXCEPT !.macros = <<>>,
                  !.MACROS = IF @ = 0 THEN MACROS ELSE @,
                  !.CONS = IF match2.MACROS = 0 THEN CONS ELSE @]
  /\ Switched
  /\ UNCHANGED <<stored_match_var, fun_vect, current_weight, placeVars, runVars,
                 exited, unusual, wanted>>

-----------------------------------------------------------------------------
Vary(names) ==
  /\ stored_match_var' = (IF stored_match_var = NULL THEN {} ELSE stored_match_var) \union names
  /\ UNCHANGED <<modeVars, fun_vect, total_const, current_weight, placeVars, match2,
                 runVars, exited, unusual, wanted>>

(***************************************************************************)
(* A constraint that comes when the vector is there already.               *)
(***************************************************************************)
Late == unusual' = unusual \union (IF fun_vect # NULL THEN {"late"} ELSE {})

(***************************************************************************)
(* CONSTRAINT and GLOBAL of mode 1, in some of the sequences.              *)
(***************************************************************************)
Updated(lists, sequs, q) ==
  [sequ \in Sequence |-> lists[sequ] \union (IF sequ \in sequs THEN {q} ELSE {})]

New(lists, sequs, q) == Cardinality({sequ \in sequs : q \notin lists[sequ]})

Constrain(sequs, q) ==
  IF ~current_weight THEN Stopped("crash")
  ELSE /\ node_cl' = Updated(node_cl, sequs, q)
       /\ total_const' = total_const + New(node_cl, sequs, q)
       /\ option' = [option EXCEPT !.match_local = @ \/ sequs # {}]
       /\ Late
       /\ UNCHANGED <<match_is_on, keep_tw_print, stored_match_var, fun_vect, current_weight,
                      match_sequs, local_twiss, match_num_seqs, sequ_cl, match2, runVars, exited, wanted>>

Global(sequs, q) ==
  IF sequs = {} THEN UNCHANGED matchVars
  ELSE IF ~current_weight THEN Stopped("crash")
  ELSE /\ sequ_cl' = Updated(sequ_cl, sequs, q)
       /\ total_const' = total_const + New(sequ_cl, sequs, q)
       /\ Late
       /\ UNCHANGED <<modeVars, stored_match_var, fun_vect, current_weight,
                      match_sequs, local_twiss, match_num_seqs, node_cl, match2, runVars, exited, wanted>>

(***************************************************************************)
(* match2_macro, and a macro that is defined here (add_to_macro_list).     *)
(***************************************************************************)
AddMacro(name) ==
  /\ match2' = [match2 EXCEPT !.macros = Append(@, [name |-> name, slots |-> <<>>]),
                  !.MACROS = IF Len(match2.macros) = @ THEN @ + 1 ELSE @]
  /\ UNCHANGED <<modeVars, jobVars, placeVars, runVars, exited, unusual, wanted>>

(***************************************************************************)
(* match2_constraint: into the first place of the last macro that has no   *)
(* left side.  A constraint without a right side takes the place back, one *)
(* without a left side leaves it without.                                  *)
(***************************************************************************)
Slot_Unnamed(lhs) == [lhs |-> lhs, name |-> FALSE]

Slot(lhs) == [lhs |-> lhs, name |-> TRUE]

MacroConstraint(lhs, rhs) ==
  LET i == Len(match2.macros)
      slots == match2.macros[i].slots
      j == IF \E k \in DOMAIN slots : ~slots[k].lhs
           THEN Min({k \in DOMAIN slots : ~slots[k].lhs}) ELSE Len(slots) + 1
      old == [lhs |-> FALSE, name |-> j <= Len(slots) /\ slots[j].name]
      new == IF rhs THEN Slot(lhs) ELSE old
  IN  IF i = 0 THEN Stopped("crash")
      ELSE /\ match2' = [match2 EXCEPT
                !.macros[i].slots = [k \in 1 .. Max({Len(slots), j}) |->
                                       IF k = j THEN new ELSE slots[k]],
                !.CONS = IF j > @ THEN @ * 2 ELSE @]
           /\ total_const' = total_const + (IF rhs THEN 1 ELSE 0)
           /\ Late
           /\ UNCHANGED <<modeVars, stored_match_var, fun_vect, current_weight, placeVars,
                          runVars, exited, wanted>>

-----------------------------------------------------------------------------
(* match_action, in the modes 1 and 2.                                     *)

(***************************************************************************)
(* Whether the method goes to work with so many variables.                 *)
(***************************************************************************)
Works(method) ==
  method \in {"lmdif", "migrad"} => Cardinality(stored_match_var) <= total_const

Method(method) ==
  IF stored_match_var = NULL THEN Stopped("crash")
  ELSE IF stored_match_var = {}
  THEN /\ GiveUp
       /\ option' = [option EXCEPT !.match_is_on = FALSE]
       /\ UNCHANGED <<keep_tw_print, jobVars, placeVars, match2, runVars, exited, wanted>>
  ELSE /\ fun_vect' = [size |-> total_const, at |-> <<>>, ok |-> FALSE]
       /\ running' = Works(method)
       /\ UNCHANGED <<modeVars, stored_match_var, total_const, current_weight, placeVars,
                      match2, nconserrs, exited, unusual, wanted>>

(***************************************************************************)
(* mtcond, with the number of the TWISS that fails, or with the macros     *)
(* that do.  A minimiser goes on or stops, after a failure too: lmdif      *)
(* takes the norm for a longer one (match.f90:537).                        *)
(***************************************************************************)
ConditionTwiss(good) ==
  /\ match_is_on # kMatch_UseMacro
  /\ IF \E i \in 1 .. good : local_twiss[i] = NULL THEN Stopped("crash")
     ELSE LET at == FoldLeft(LAMBDA acc, sequ : acc \o Collected(sequ), <<>>,
                             SubSeq(local_twiss, 1, good))
          IN  /\ fun_vect' = [fun_vect EXCEPT !.at = at, !.ok = good = match_num_seqs]
              /\ running' \in BOOLEAN
              /\ UNCHANGED <<modeVars, stored_match_var, total_const, current_weight, placeVars,
                             match2, nconserrs, exited, unusual, wanted>>

ConditionMacros(failed) ==
  /\ match_is_on = kMatch_UseMacro
  /\ LET end == Conditions(failed)
     IN  /\ fun_vect' = [fun_vect EXCEPT !.at = end.at, !.ok = ~end.stab]
         /\ nconserrs' = end.errors
         /\ running' \in BOOLEAN
         /\ UNCHANGED <<modeVars, stored_match_var, total_const, current_weight, placeVars,
                        match2, exited, unusual, wanted>>

-----------------------------------------------------------------------------
(***************************************************************************)
(* match_end.  It is the vector that tells whether a method was used.      *)
(***************************************************************************)
NoMethod == fun_vect = NULL /\ UNCHANGED matchVars

SummaryValues ==
  FoldLeft(LAMBDA acc, sequ : acc \o Collected(sequ), <<>>,
           SubSeq(local_twiss, 1, match_num_seqs))

EndSequences_Nodes == node_cl

EndSequences ==
  [sequ \in Sequence |->
     IF \E i \in 1 .. match_num_seqs : match_sequs[i] = sequ THEN {} ELSE node_cl[sequ]]

EndStd ==
  /\ fun_vect # NULL /\ match_is_on = kMatch_Std
  /\ IF Len(match_sequs) < match_num_seqs \/ \E i \in 1 .. match_num_seqs : local_twiss[i] = NULL
     THEN Stopped("crash")
     ELSE /\ node_cl' = EndSequences
          /\ sequ_cl' = [sequ \in Sequence |-> {}]
          /\ fun_vect' = NULL /\ stored_match_var' = NULL /\ total_const' = 0
          /\ current_weight' = FALSE
          /\ match_sequs' = <<>>
          /\ local_twiss' = [i \in 1 .. MaxNames |->
                               IF i <= match_num_seqs THEN NULL ELSE local_twiss[i]]
          /\ match_is_on' = kMatch_NoMatch
          /\ option' = [match_is_on |-> FALSE, match_local |-> FALSE,
                        twiss_print |-> keep_tw_print]
          /\ UNCHANGED <<keep_tw_print, match_num_seqs, match2, runVars, exited, unusual, wanted>>

(***************************************************************************)
(* match2_end.                                                             *)
(***************************************************************************)
EndMacros ==
  /\ fun_vect # NULL /\ match_is_on = kMatch_UseMacro
  /\ fun_vect' = NULL /\ stored_match_var' = NULL
  /\ current_weight' = FALSE
  /\ match_is_on' = kMatch_NoMatch
  /\ option' = [option EXCEPT !.twiss_print = keep_tw_print]
  /\ IF match2.keep THEN UNCHANGED <<match2, total_const>>
     ELSE /\ match2' = [match2 EXCEPT !.macros = <<>>, !.MACROS = 0, !.CONS = 0]
          /\ total_const' = 0
  /\ UNCHANGED <<keep_tw_print, placeVars, runVars, exited, unusual, wanted>>

-----------------------------------------------------------------------------
(***************************************************************************)
(* pro_match.  Without MATCH the other commands are ignored; a MATCH in a  *)
(* MATCH is.                                                               *)
(***************************************************************************)
Ignored(s) == match_is_on = kMatch_NoMatch <=> s.op # "match"

Statement(s) ==
  \/ Ignored(s) /\ UNCHANGED matchVars
  \/ /\ s.op = "match" /\ match_is_on = kMatch_NoMatch
     /\ \/ s.with = "macros" /\ MatchMacros
        \/ s.with = "sequences" /\ MatchSequences(s.names)
        \/ s.with = "current" /\ MatchCurrent(s.sequ)
  \/ /\ match_is_on # kMatch_NoMatch
     /\ \/ s.op = "vary" /\ Vary(s.names)
        \/ s.op = "constraint" /\ match_is_on = kMatch_Std
             /\ Constrain(Range(match_sequs) \intersect s.sequs, s.quantity)
        \/ s.op = "constraint" /\ match_is_on = kMatch_UseMacro
             /\ MacroConstraint(s.lhs, s.rhs)
        \/ s.op = "global" /\ Global(Range(match_sequs) \intersect s.sequs, s.quantity)
        \/ s.op = "macro" /\ match_is_on = kMatch_UseMacro /\ AddMacro(s.name)
        \/ s.op = "method" /\ match_is_on # kMatch_PTCknobs /\ Method(s.method)
        \/ s.op = "endmatch" /\ match_is_on # kMatch_PTCknobs /\ (NoMethod \/ EndStd \/ EndMacros)

Condition ==
  /\ running /\ exited = NULL
  /\ \/ \E good \in 0 .. match_num_seqs : ConditionTwiss(good)
     \/ \E failed \in SUBSET (1 .. Len(match2.macros)) : ConditionMacros(failed)

(***************************************************************************)
(* embedded_twiss, by APERTURE: it uses the same variables as MATCH.       *)
(***************************************************************************)
Aperture(sequ) ==
  /\ keep_tw_print' = option.twiss_print
  /\ option' = [option EXCEPT !.twiss_print = TRUE]
  /\ local_twiss' = [local_twiss EXCEPT ![1] = sequ]
  /\ unusual' = unusual \union {"aperture"}
  /\ UNCHANGED <<match_is_on, jobVars, match_sequs, match_num_seqs, node_cl, sequ_cl, match2,
                 runVars, exited, wanted>>

Idle == ~running /\ exited = NULL

MatchInit ==
  /\ match_is_on = kMatch_NoMatch
  /\ wanted = TRUE
  /\ option = [match_is_on |-> FALSE, twiss_print |-> wanted, match_local |-> FALSE]
  /\ keep_tw_print = FALSE
  /\ stored_match_var = NULL /\ fun_vect = NULL /\ total_const = 0 /\ current_weight = FALSE
  /\ match_sequs = <<>> /\ match_num_seqs = 0 /\ local_twiss = [i \in 1 .. MaxNames |-> NULL]
  /\ node_cl = [sequ \in Sequence |-> {}] /\ sequ_cl = [sequ \in Sequence |-> {}]
  /\ match2 = [macros |-> <<>>, MACROS |-> 0, CONS |-> 0, keep |-> FALSE]
  /\ running = FALSE /\ nconserrs = 0
  /\ exited = NULL /\ unusual = {}
=============================================================================
