--------------------------- MODULE MatchingKnobs ---------------------------
(***************************************************************************)
(* Matching with PTC knobs (mad_ptcknobs.c).  The commands of the match    *)
(* are kept, and a method runs a loop: PTC, a file of commands that is     *)
(* written for the purpose and called, in which the variables are matched  *)
(* with a macro, and PTC again.  The commands of the file are those of     *)
(* Matching, on the same variables.                                        *)
(***************************************************************************)
EXTENDS Matching

CONSTANTS
  Knob,          \* what PTC_VARYKNOB may name
  Ambiguous,     \* pairs of them that findsetknob refuses
  MaxStored,     \* bound: constraints that are kept
  User,          \* the statements of the input
  GoesOnAfter    \* bound: the input ends when something else is in unusual

VARIABLES
  mpk,           \* [ready, knobs, variables, constraints, acted, over]
  loop,          \* NULL, or madx_mpk_run: [at, method, maxcalls, calls, vector1]
  script         \* what is still to be read of the file

vars == <<matchVars, mpk, loop, script>>

knobVars == <<mpk, loop, script>>

ASSUME KnobsAssumption ==
  /\ Ambiguous \subseteq Knob \X Knob
  /\ MaxStored \in Nat

(***************************************************************************)
(* What VARY and PTC_VARYKNOB name, and the names that a MATCH may have.   *)
(***************************************************************************)
Varied ==
  (UNION {s.names : s \in {r \in User : r.op = "vary"}})
    \union {s.name : s \in {r \in User : r.op = "varyknob"}}

ASSUME UserAssumption ==
  /\ \A names \in SUBSET Varied : NULL # names
  /\ \A s \in User :
       s.op = "match" /\ s.with = "sequences" =>
         s.names \in Seq(Sequence \union {Unknown}) /\ Len(s.names) \in 1 .. MaxNames
  /\ \A s \in User : s.op = "constraint" => s.lhs \in BOOLEAN /\ s.rhs \in BOOLEAN
  /\ \A s \in User : s.op = "method" => s.calls \in Int

-----------------------------------------------------------------------------
(***************************************************************************)
(* madx_mpk_prepare.                                                       *)
(***************************************************************************)
Fresh == [ready |-> FALSE, knobs |-> <<>>, variables |-> <<>>, constraints |-> <<>>,
          acted |-> FALSE, over |-> FALSE]

MatchKnobs ==
  /\ match_is_on' = kMatch_PTCknobs
  /\ Switched
  /\ mpk' = Fresh
  /\ UNCHANGED <<jobVars, placeVars, match2, runVars, exited, unusual, wanted, loop, script>>

(***************************************************************************)
(* PTC_CREATE_UNIVERSE, PTC_CREATE_LAYOUT and PTC_TWISS, which are kept,   *)
(* and not run.                                                            *)
(***************************************************************************)
Prepare ==
  /\ match_is_on = kMatch_PTCknobs
  /\ mpk' = [mpk EXCEPT !.ready = TRUE]
  /\ UNCHANGED <<matchVars, loop, script>>

(***************************************************************************)
(* findsetknob: the place of the knob, or minus that of another that the   *)
(* name is ambiguous with.  Places count from 0.                           *)
(***************************************************************************)
FindSetKnob(knobs, name) ==
  LET clash == {i \in DOMAIN knobs : <<name, knobs[i]>> \in Ambiguous}
      same == {i \in DOMAIN knobs : knobs[i] = name}
  IN  IF clash # {} THEN -(Min(clash) - 1)
      ELSE IF same # {} THEN Max(same) - 1 ELSE Len(knobs)

(***************************************************************************)
(* madx_mpk_addvariable.  The knob takes the name of the variable.         *)
(***************************************************************************)
VaryKnob(name) ==
  /\ match_is_on = kMatch_PTCknobs
  /\ LET k == FindSetKnob(mpk.knobs, name)
     IN  IF k < 0 THEN UNCHANGED mpk
         ELSE mpk' = [mpk EXCEPT
                !.knobs = IF k = Len(@) THEN Append(@, name) ELSE [@ EXCEPT ![k + 1] = name],
                !.variables = Append(@, [name |-> name, knob |-> k + 1])]
  /\ UNCHANGED <<matchVars, loop, script>>

(***************************************************************************)
(* madx_mpk_addconstraint: the text, whatever sides it has.                *)
(***************************************************************************)
KeepConstraint(lhs, rhs) ==
  /\ match_is_on = kMatch_PTCknobs
  /\ mpk' = [mpk EXCEPT !.constraints = Append(@, [op |-> "constraint", lhs |-> lhs, rhs |-> rhs])]
  /\ UNCHANGED <<matchVars, loop, script>>

-----------------------------------------------------------------------------
(* madx_mpk_run                                                            *)

Off_Left == UNCHANGED match_is_on

Off == match_is_on' = kMatch_NoMatch

Run(method, maxcalls) ==
  /\ match_is_on = kMatch_PTCknobs
  /\ IF ~mpk.ready \/ mpk.variables = <<>> THEN UNCHANGED vars
     ELSE /\ Off
          /\ match2' = [match2 EXCEPT !.keep = TRUE]
          /\ mpk' = [mpk EXCEPT !.acted = TRUE]
          /\ loop' = [at |-> "PTC", method |-> method, maxcalls |-> maxcalls, calls |-> 0,
                       vector1 |-> NULL]
          /\ UNCHANGED <<option, keep_tw_print, jobVars, placeVars, runVars, exited, unusual,
                         wanted, script>>

(***************************************************************************)
(* makestdmatchfile.                                                       *)
(***************************************************************************)
File(method) ==
  <<[op |-> "match", with |-> "macros"],
    [op |-> "vary", names |-> {v.name : v \in Range(mpk.variables)}],
    [op |-> "macro", name |-> "m1"]>>
  \o mpk.constraints
  \o <<[op |-> "method", method |-> method], [op |-> "endmatch"]>>

(***************************************************************************)
(* run_ptccalculation with the knobs, and the call of the file; or an      *)
(* error, and the way out by "cleaning".  Bound: calls that have no limit  *)
(* are not counted, since nothing else asks for their number.              *)
(***************************************************************************)
Limited == loop.maxcalls > 0

NextCall_Same == loop.calls

NextCall == IF Limited THEN loop.calls + 1 ELSE loop.calls

Calculate ==
  /\ loop.at = "PTC"
  /\ \/ /\ loop' = [loop EXCEPT !.at = "file", !.calls = NextCall]
        /\ script' = File(loop.method)
        /\ UNCHANGED unusual
     \/ /\ loop' = NULL /\ UNCHANGED script
        /\ unusual' = unusual \union {"cleaning"}
  /\ UNCHANGED <<modeVars, jobVars, placeVars, match2, runVars, exited, wanted, mpk>>

(***************************************************************************)
(* A statement of the file, once the one before is done with.              *)
(***************************************************************************)
FromFile ==
  /\ script # <<>>
  /\ Statement(Head(script))
  /\ script' = Tail(script)
  /\ UNCHANGED <<mpk, loop>>

(***************************************************************************)
(* After the file: the function vectors, the step (ktar), and the end of   *)
(* the loop.  "continue" goes to the condition at its end.                 *)
(***************************************************************************)
Exceeded == Limited /\ loop.calls > loop.maxcalls

Verify ==
  /\ loop.at = "file" /\ script = <<>>
  /\ \E step \in {"none", "small", "large"}, close \in BOOLEAN :
       LET verified == step # "large" \/ Exceeded
           matched == step # "large" /\ close
           ends == (verified /\ (matched \/ Exceeded)) \/ step = "none"
       IN  IF ends
           THEN /\ loop' = NULL
                /\ match_is_on' = kMatch_PTCknobs
                /\ match2' = [match2 EXCEPT !.keep = FALSE]
           ELSE /\ loop' = [loop EXCEPT !.at = "PTC",
                              !.vector1 = IF @ = NULL THEN total_const + 1 ELSE @]
                /\ UNCHANGED <<match_is_on, match2>>
  /\ UNCHANGED <<option, keep_tw_print, jobVars, placeVars, runVars, exited, unusual, wanted,
                 mpk, script>>

(***************************************************************************)
(* ENDMATCH, with madx_mpk_end behind the same test of the vector.  That   *)
(* it was given is kept in over.                                           *)
(***************************************************************************)
EndKnobs ==
  /\ match_is_on = kMatch_PTCknobs
  /\ mpk' = [mpk EXCEPT !.over = mpk.acted]
  /\ match_is_on' = IF fun_vect = NULL THEN match_is_on ELSE kMatch_NoMatch
  /\ UNCHANGED <<option, keep_tw_print, jobVars, placeVars, match2, runVars, exited, unusual,
                 wanted, loop, script>>

-----------------------------------------------------------------------------
Allowed(s) ==
  /\ s.op \in {"constraint", "global"} => total_const < MaxConst /\ Len(mpk.constraints) < MaxStored
  /\ s.op = "varyknob" => Len(mpk.variables) < MaxStored
  /\ s.op = "macro" => Len(match2.macros) < MaxStored

UserStatement(s) ==
  /\ Idle /\ loop = NULL /\ unusual \subseteq GoesOnAfter /\ Allowed(s)
  /\ \/ Statement(s) /\ UNCHANGED knobVars
     \/ s.op = "match" /\ s.with = "knobs" /\ match_is_on = kMatch_NoMatch /\ MatchKnobs
     \/ s.op = "ptc" /\ Prepare
     \/ s.op = "varyknob" /\ VaryKnob(s.name)
     \/ s.op = "constraint" /\ KeepConstraint(s.lhs, s.rhs)
     \/ s.op = "method" /\ Run(s.method, s.calls)
     \/ s.op = "endmatch" /\ EndKnobs
     \/ s.op = "aperture" /\ Aperture(s.sequ) /\ UNCHANGED knobVars

Goes ==
  \/ Condition /\ UNCHANGED knobVars
  \/ Idle /\ loop # NULL /\ (Calculate \/ FromFile \/ Verify)

Init == MatchInit /\ mpk = Fresh /\ loop = NULL /\ script = <<>>

Next == (\E s \in User : UserStatement(s)) \/ Goes

Spec == Init /\ [][Next]_vars

(***************************************************************************)
(* The program goes on, and a minimiser stops: at its limit of calls, if   *)
(* no sooner, and soon if that is not above zero.                          *)
(***************************************************************************)
Stops == Condition /\ ~running' /\ UNCHANGED knobVars

FairSpec == Spec /\ WF_vars(Goes) /\ WF_vars(Stops)

-----------------------------------------------------------------------------
(***************************************************************************)
(* A minimiser that was told that there are values finds a value in each   *)
(* place of its vector, and none beyond it: the constraints that were      *)
(* counted are those that are evaluated.                                   *)
(***************************************************************************)
Filled ==
  fun_vect # NULL /\ fun_vect.ok /\ unusual = {} => Len(fun_vect.at) = fun_vect.size

(* At ENDMATCH, when the summary evaluates the constraints that are there. *)
SummaryFits ==
  fun_vect # NULL /\ fun_vect' = NULL /\ match_is_on = kMatch_Std /\ unusual = {} =>
    Len(SummaryValues) <= fun_vect.size

(* In a match with knobs, when its file has been written and is about to   *)
(* be called.                                                              *)
VectorsFit ==
  loop # NULL /\ loop.vector1 # NULL /\ loop.at = "file" /\ script = <<>> /\ ~running
     /\ exited = NULL /\ unusual = {} =>
    /\ Len(Evaluated(1)) <= loop.vector1
    /\ Len(Evaluated(1)) = Cardinality({i \in DOMAIN mpk.constraints : mpk.constraints[i].rhs})

(***************************************************************************)
(* No constraint is evaluated past the end of the vector that match_action *)
(* or madx_mpk_run has allocated from total_const: neither in the summary  *)
(* of ENDMATCH nor in the two vectors of a match with knobs, which are     *)
(* filled by counters of their own.                                        *)
(***************************************************************************)
Fits == [][SummaryFits /\ VectorsFit']_vars

(***************************************************************************)
(* A match that has ended leaves nothing to the next, and the printing of  *)
(* TWISS as it was.                                                        *)
(***************************************************************************)
Forgets ==
  match_is_on = kMatch_NoMatch /\ loop = NULL /\ unusual = {} /\ exited = NULL /\ ~mpk.acted =>
    /\ stored_match_var = NULL /\ fun_vect = NULL /\ total_const = 0 /\ match_sequs = <<>>
    /\ \A sequ \in Sequence : node_cl[sequ] = {} /\ sequ_cl[sequ] = {}
    /\ option.twiss_print = wanted

(***************************************************************************)
(* The MATCH of the file is not one inside of a match.                     *)
(***************************************************************************)
Taken == loop # NULL /\ script # <<>> /\ Head(script).op = "match" => match_is_on = kMatch_NoMatch

(***************************************************************************)
(* A method with a limit of calls comes to an end.                         *)
(***************************************************************************)
MethodEnds == loop # NULL /\ Limited ~> loop = NULL \/ exited # NULL

-----------------------------------------------------------------------------
(* What the program does not do.                                           *)

(***************************************************************************)
(* "The ENDMATCH command terminates the matching section" (match.tex), at  *)
(* least after a method was used.                                          *)
(***************************************************************************)
EndmatchEnds == mpk.over => match_is_on # kMatch_PTCknobs

(***************************************************************************)
(* So does one without: a limit of zero or less is none for the loop.      *)
(***************************************************************************)
AnyMethodEnds == loop # NULL ~> loop = NULL \/ exited # NULL

(***************************************************************************)
(* The knob of a variable is the one of its element.                       *)
(***************************************************************************)
OwnKnob == \A v \in Range(mpk.variables) : mpk.knobs[v.knob] = v.name

(***************************************************************************)
(* A place of the vector has the value of its own constraint.              *)
(***************************************************************************)
InPlace ==
  fun_vect # NULL /\ fun_vect.ok /\ match_is_on = kMatch_UseMacro =>
    LET all == FoldLeft(LAMBDA acc, i : acc \o Evaluated(i), <<>>,
                        [i \in 1 .. Len(match2.macros) |-> i])
    IN  \A k \in DOMAIN fun_vect.at : fun_vect.at[k] \in {Largest, all[k]}

(***************************************************************************)
(* The option the Fortran code asks is the mode.                           *)
(***************************************************************************)
OptionAgrees == exited = NULL /\ unusual = {} => (option.match_is_on <=> match_is_on # kMatch_NoMatch \/ loop # NULL)

(***************************************************************************)
(* Nothing is written beyond a vector, whatever was done to the job.       *)
(***************************************************************************)
Within == fun_vect # NULL => Len(fun_vect.at) <= fun_vect.size

Survives == exited = NULL
=============================================================================
