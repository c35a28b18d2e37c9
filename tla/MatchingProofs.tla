--------------------------- MODULE MatchingProofs ---------------------------
(***************************************************************************)
(* What MATCH and ENDMATCH leave to each other, for any sequences and      *)
(* statements, and any limits.                                             *)
(***************************************************************************)
EXTENDS MatchingKnobs, Induction, FiniteSetTheorems, SequenceTheorems

Modes == {kMatch_NoMatch, kMatch_Std, kMatch_UseMacro, kMatch_PTCknobs}

Rest(code, k) == SubSeq(code, k + 1, Len(code))

(***************************************************************************)
(* The file of a match with knobs, when k statements of it have been read: *)
(* from the second on there are variables, and before the last a vector.   *)
(***************************************************************************)
Phase(k) ==
  LET n == Len(File(loop.method))
  IN  /\ script = Rest(File(loop.method), k)
      /\ k = 0 => match_is_on = kMatch_NoMatch /\ ~running
      /\ exited = NULL =>
           /\ 0 < k /\ k < n => match_is_on = kMatch_UseMacro
           /\ 1 < k /\ k < n => stored_match_var # NULL /\ stored_match_var # {}
           /\ k = n - 1 => fun_vect # NULL
           /\ k = n => match_is_on = kMatch_NoMatch /\ fun_vect = NULL
           /\ running => k = n - 1

(***************************************************************************)
(* The values that are tested, and the records that are updated.           *)
(***************************************************************************)
MatchShapes ==
  /\ match_is_on \in Modes
  /\ DOMAIN option = {"match_is_on", "twiss_print", "match_local"}
  /\ stored_match_var = NULL \/ stored_match_var \in SUBSET Varied
  /\ match2 = [macros |-> match2.macros, MACROS |-> match2.MACROS, CONS |-> match2.CONS,
               keep |-> match2.keep]
  /\ fun_vect = NULL \/ fun_vect = [size |-> fun_vect.size, at |-> fun_vect.at, ok |-> fun_vect.ok]

(***************************************************************************)
(* A constraint of a macro without a left side leaves its place to the     *)
(* next, and both are counted.                                             *)
(***************************************************************************)
LeftSides == \A s \in User : s.op = "constraint" => s.lhs = TRUE

Stored ==
  {c \in [op : {"constraint"}, lhs : BOOLEAN, rhs : BOOLEAN] : LeftSides => c.lhs = TRUE}

KnobShapes ==
  /\ mpk = [ready |-> mpk.ready, knobs |-> mpk.knobs, variables |-> mpk.variables,
            constraints |-> mpk.constraints, acted |-> mpk.acted, over |-> mpk.over]
  /\ mpk.variables \in Seq(Range(mpk.variables))
  /\ \A i \in 1 .. Len(mpk.variables) : mpk.variables[i].name \in Varied
  /\ mpk.constraints \in Seq(Stored)

(***************************************************************************)
(* The loop of a match with knobs.                                         *)
(***************************************************************************)
InLoop ==
  /\ loop # NULL =>
       /\ loop = [at |-> loop.at, method |-> loop.method, maxcalls |-> loop.maxcalls,
                  calls |-> loop.calls, vector1 |-> loop.vector1]
       /\ mpk.variables # <<>>
  /\ loop = NULL \/ loop.at = "PTC" => script = <<>>
  /\ loop # NULL /\ loop.at = "PTC" => match_is_on = kMatch_NoMatch /\ ~running
  /\ loop # NULL /\ loop.at # "PTC" => \E k \in 0 .. Len(File(loop.method)) : Phase(k)
  /\ exited = NULL /\ running =>
       match_is_on \in {kMatch_Std, kMatch_UseMacro} /\ fun_vect # NULL

Clean ==
  /\ stored_match_var = NULL /\ fun_vect = NULL /\ total_const = 0 /\ match_sequs = <<>>
  /\ \A sequ \in Sequence : node_cl[sequ] = {} /\ sequ_cl[sequ] = {}
  /\ option.twiss_print = wanted

(***************************************************************************)
(* The jobs of each mode, while nothing unusual was done.                  *)
(***************************************************************************)
Job ==
  exited = NULL /\ unusual = {} =>
    /\ fun_vect = NULL \/ match_is_on \in {kMatch_Std, kMatch_UseMacro}
    /\ loop = NULL =>
         /\ match2.keep = FALSE
         /\ match_is_on = kMatch_NoMatch => Clean
         /\ match_is_on = kMatch_Std =>
              /\ keep_tw_print = wanted
              /\ \A i \in DOMAIN match_sequs : i \in 1 .. match_num_seqs
              /\ \A sequ \in Sequence : node_cl[sequ] # {} => sequ \in Range(match_sequs)
         /\ match_is_on = kMatch_UseMacro =>
              /\ keep_tw_print = wanted /\ match_sequs = <<>>
              /\ \A sequ \in Sequence : node_cl[sequ] = {} /\ sequ_cl[sequ] = {}

IInv == MatchShapes /\ KnobShapes /\ InLoop /\ Job

(***************************************************************************)
(* A null pointer is none of the structures that it is compared with.      *)
(***************************************************************************)
NullIsApart ==
  /\ \A size, at, ok : NULL # [size |-> size, at |-> at, ok |-> ok]
  /\ \A at, method, maxcalls, calls, vector1 :
       NULL # [at |-> at, method |-> method, maxcalls |-> maxcalls, calls |-> calls,
               vector1 |-> vector1]

-----------------------------------------------------------------------------
(* The shapes.                                                             *)

(***************************************************************************)
(* One sequence behind another.                                            *)
(***************************************************************************)
LEMMA Joined ==
  ASSUME NEW S, NEW a \in Seq(S), NEW b \in Seq(S), NEW n, NEW m, Len(a) = n, Len(b) = m
  PROVE  /\ a \o b \in Seq(S) /\ Len(a \o b) = n + m
         /\ \A i \in 1 .. n + m : (a \o b)[i] = IF i <= n THEN a[i] ELSE b[i - n]
BY ConcatProperties

LEMMA StoppedShapes ==
  ASSUME MatchShapes, NEW reason, Stopped(reason)
  PROVE  MatchShapes'
  BY DEF Stopped, MatchShapes, modeVars, jobVars

LEMMA SwitchedShapes ==
  ASSUME MatchShapes, Switched
  PROVE  DOMAIN option' = {"match_is_on", "twiss_print", "match_local"}
<1>1. PICK t : t = TRUE
  OBVIOUS
<1>2. PICK f : f = FALSE
  OBVIOUS
<1>3. option' = [option EXCEPT !.match_is_on = t, !.twiss_print = f]
  BY <1>1, <1>2 DEF Switched
<1> QED
  BY <1>3 DEF MatchShapes

LEMMA StatementShapes ==
  ASSUME MatchShapes, NEW s, Statement(s), s.op = "vary" => s.names \in SUBSET Varied
  PROVE  MatchShapes'
<1> USE StoppedShapes
<1>1. CASE UNCHANGED matchVars
  BY <1>1 DEF MatchShapes, matchVars, modeVars, jobVars
<1>2. CASE MatchMacros
  <2>1. match2' = [match2 EXCEPT !.macros = <<>>,
                     !.MACROS = match2'.MACROS, !.CONS = match2'.CONS]
    BY <1>2 DEF MatchMacros, MatchShapes
  <2>2. match2' = [macros |-> match2'.macros, MACROS |-> match2'.MACROS, CONS |-> match2'.CONS,
                   keep |-> match2'.keep]
    BY <2>1 DEF MatchShapes
  <2> QED
    BY <1>2, <2>2, SwitchedShapes DEF MatchMacros, MatchShapes, Modes
<1>3. ASSUME NEW names, MatchSequences(names)
      PROVE  MatchShapes'
  BY <1>3, SwitchedShapes DEF MatchSequences, GiveUp, MatchOn, MatchShapes, Modes
<1>4. ASSUME NEW sequ, MatchCurrent(sequ)
      PROVE  MatchShapes'
  BY <1>4, SwitchedShapes DEF MatchCurrent, MatchOn, MatchShapes, Modes
<1>5. ASSUME NEW names \in SUBSET Varied, Vary(names)
      PROVE  MatchShapes'
  BY <1>5 DEF Vary, MatchShapes, modeVars
<1>6. ASSUME NEW sequs, NEW q, Constrain(sequs, q)
      PROVE  MatchShapes'
  <2>1. CASE ~current_weight
    BY <1>6, <2>1 DEF Constrain
  <2>2. CASE current_weight
    <3>1. PICK l : l = (option.match_local \/ sequs # {})
      OBVIOUS
    <3>2. option' = [option EXCEPT !.match_local = l]
      BY <1>6, <2>2, <3>1 DEF Constrain
    <3> QED
      BY <1>6, <2>2, <3>2 DEF Constrain, MatchShapes
  <2> QED
    BY <2>1, <2>2
<1>7. ASSUME NEW sequs, NEW q, Global(sequs, q)
      PROVE  MatchShapes'
  BY <1>1, <1>7 DEF Global, MatchShapes, modeVars
<1>8. ASSUME NEW name, AddMacro(name)
      PROVE  MatchShapes'
  BY <1>8 DEF AddMacro, MatchShapes, modeVars, jobVars
<1>9. ASSUME NEW lhs, NEW rhs, MacroConstraint(lhs, rhs)
      PROVE  MatchShapes'
  BY <1>9 DEF MacroConstraint, MatchShapes, modeVars
<1>10. ASSUME NEW method, Method(method)
       PROVE  MatchShapes'
  BY <1>10 DEF Method, GiveUp, MatchShapes, modeVars, jobVars, Modes
<1>11. CASE NoMethod
  BY <1>1, <1>11 DEF NoMethod
<1>12. CASE EndStd
  BY <1>12 DEF EndStd, MatchShapes, Modes
<1>13. CASE EndMacros
  BY <1>13 DEF EndMacros, MatchShapes, Modes
<1> QED
  BY <1>1, <1>2, <1>3, <1>4, <1>5, <1>6, <1>7, <1>8, <1>9, <1>10, <1>11, <1>12, <1>13
     DEF Statement

LEMMA ConditionShapes ==
  ASSUME MatchShapes, NullIsApart, Condition, fun_vect # NULL
  PROVE  /\ MatchShapes' /\ UNCHANGED modeVars
         /\ UNCHANGED <<stored_match_var, total_const, placeVars, match2, unusual, wanted>>
         /\ fun_vect' # NULL
<1>1. ASSUME NEW good, ConditionTwiss(good)
      PROVE  /\ UNCHANGED modeVars
             /\ UNCHANGED <<stored_match_var, total_const, placeVars, match2, unusual, wanted>>
             /\ fun_vect' = fun_vect \/ \E at, ok : fun_vect' = [fun_vect EXCEPT !.at = at, !.ok = ok]
  <2>1. CASE Stopped("crash")
    BY <2>1 DEF Stopped, jobVars
  <2>2. CASE ~Stopped("crash")
    <3> DEFINE Effect(at) ==
          /\ fun_vect' = [fun_vect EXCEPT !.at = at, !.ok = good = match_num_seqs]
          /\ UNCHANGED <<modeVars, stored_match_var, total_const, current_weight, placeVars,
                         match2, nconserrs, exited, unusual, wanted>>
    <3>1. \E at : Effect(at)
      BY <1>1, <2>2, Zenon DEF ConditionTwiss
    <3>2. PICK at : Effect(at)
      BY <3>1
    <3>3. PICK ok : ok = (good = match_num_seqs)
      OBVIOUS
    <3>4. fun_vect' = [fun_vect EXCEPT !.at = at, !.ok = ok]
      BY <3>2, <3>3
    <3> QED
      BY <3>2, <3>4
  <2> QED
    BY <2>1, <2>2
<1>2. ASSUME NEW failed, ConditionMacros(failed)
      PROVE  /\ UNCHANGED modeVars
             /\ UNCHANGED <<stored_match_var, total_const, placeVars, match2, unusual, wanted>>
             /\ fun_vect' = fun_vect \/ \E at, ok : fun_vect' = [fun_vect EXCEPT !.at = at, !.ok = ok]
  BY <1>2 DEF ConditionMacros
<1>3. /\ UNCHANGED modeVars
      /\ UNCHANGED <<stored_match_var, total_const, placeVars, match2, unusual, wanted>>
      /\ fun_vect' = fun_vect \/ \E at, ok : fun_vect' = [fun_vect EXCEPT !.at = at, !.ok = ok]
  BY <1>1, <1>2 DEF Condition
<1>4. fun_vect' = [size |-> fun_vect'.size, at |-> fun_vect'.at, ok |-> fun_vect'.ok]
  <2>1. fun_vect = [size |-> fun_vect.size, at |-> fun_vect.at, ok |-> fun_vect.ok]
    BY DEF MatchShapes
  <2>2. ASSUME NEW at, NEW ok, fun_vect' = [fun_vect EXCEPT !.at = at, !.ok = ok]
        PROVE  fun_vect' = [size |-> fun_vect.size, at |-> at, ok |-> ok]
    <3>1. PICK v : v = [fun_vect EXCEPT !.at = at]
      OBVIOUS
    <3>2. v = [size |-> fun_vect.size, at |-> at, ok |-> fun_vect.ok]
      BY <2>1, <3>1
    <3>3. fun_vect' = [v EXCEPT !.ok = ok]
      BY <2>2, <3>1
    <3> QED
      BY <3>2, <3>3
  <2> QED
    BY <1>3, <2>1, <2>2
<1>5. fun_vect' # NULL
  BY <1>4 DEF NullIsApart
<1> QED
  BY <1>3, <1>4, <1>5 DEF MatchShapes, modeVars

-----------------------------------------------------------------------------
(* The file of a match with knobs.                                         *)

LEMMA RestIs ==
  ASSUME NEW S, NEW code \in Seq(S), NEW k \in 0 .. Len(code)
  PROVE  /\ Rest(code, 0) = code /\ Rest(code, Len(code)) = <<>>
         /\ Rest(code, k) # <<>> => k < Len(code)
         /\ k < Len(code) => /\ Rest(code, k) # <<>>
                             /\ Head(Rest(code, k)) = code[k + 1]
                             /\ Tail(Rest(code, k)) = Rest(code, k + 1)
<1>1. Len(code) \in Nat
  BY LenProperties
<1>2. Rest(code, 0) = code
  BY SubSeqFull DEF Rest
<1>3. Rest(code, Len(code)) = <<>>
  BY <1>1, SubSeqEmpty DEF Rest
<1>4. Rest(code, k) # <<>> => k < Len(code)
  BY <1>1, <1>3
<1>5. ASSUME k < Len(code)
      PROVE  /\ Rest(code, k) # <<>>
             /\ Head(Rest(code, k)) = code[k + 1]
             /\ Tail(Rest(code, k)) = Rest(code, k + 1)
  <2>1. k + 1 \in 1 .. Len(code) /\ Len(code) \in k + 1 .. Len(code)
    BY <1>1, <1>5
  <2>2. /\ Head(Rest(code, k)) = code[k + 1]
        /\ Tail(Rest(code, k)) = Rest(code, k + 1)
    BY <2>1, HeadTailOfSubSeq DEF Rest
  <2>3. Len(Rest(code, k)) = Len(code) - (k + 1) + 1
    <3>1. \A i \in k + 1 .. Len(code) : code[i] \in S
      BY <1>1, ElementOfSeq
    <3> QED
      BY <1>1, <2>1, <3>1, SubSeqProperties DEF Rest
  <2> QED
    BY <1>1, <1>5, <2>2, <2>3
<1> QED
  BY <1>2, <1>3, <1>4, <1>5

LEMMA FileIs ==
  ASSUME KnobShapes, mpk.variables # <<>>, NEW method
  PROVE  LET code == File(method)
             n == Len(code)
         IN  /\ code \in Seq(Range(code)) /\ n \in Nat /\ n > 4
             /\ code[1].op = "match" /\ code[1].with = "macros"
             /\ code[2].op = "vary" /\ code[2].names \in SUBSET Varied /\ code[2].names # {}
             /\ code[3].op = "macro"
             /\ \A i \in 4 .. n - 2 : code[i].op = "constraint" /\ (LeftSides => code[i].lhs = TRUE)
             /\ code[n - 1].op = "method" /\ code[n].op = "endmatch"
<1> DEFINE names == {v.name : v \in Range(mpk.variables)}
           s1 == [op |-> "match", with |-> "macros"]
           s2 == [op |-> "vary", names |-> names]
           s3 == [op |-> "macro", name |-> "m1"]
           s4 == [op |-> "method", method |-> method]
           s5 == [op |-> "endmatch"]
           S == {s1, s2, s3, s4, s5} \union Stored
           m == Len(mpk.constraints)
           before == <<s1, s2, s3>> \o mpk.constraints
           code == File(method)
<1>1. code = before \o <<s4, s5>>
  BY DEF File
<1>2. mpk.constraints \in Seq(Stored)
  BY DEF KnobShapes
<1>a. m \in Nat /\ \A i \in 1 .. m : mpk.constraints[i] \in Stored
  <2>1. m \in Nat
    BY <1>2, LenProperties
  <2>2. \A i \in 1 .. m : mpk.constraints[i] \in Stored
    BY <1>2, ElementOfSeq
  <2> QED
    BY <2>1, <2>2
<1>3. names \in SUBSET Varied /\ names # {}
  <2>1. mpk.variables \in Seq(Range(mpk.variables))
    BY DEF KnobShapes
  <2>2. Len(mpk.variables) \in Nat \ {0} /\ DOMAIN mpk.variables = 1 .. Len(mpk.variables)
    BY <2>1, EmptySeq, LenProperties
  <2> QED
    BY <2>2 DEF KnobShapes, Range
<1>4. \A c \in Stored : c.op = "constraint" /\ (LeftSides => c.lhs = TRUE)
  BY DEF Stored
<1>5. <<s1, s2, s3>> \in Seq(S) /\ <<s4, s5>> \in Seq(S) /\ mpk.constraints \in Seq(S)
  <2>1. Stored \subseteq S
    OBVIOUS
  <2>2. mpk.constraints \in Seq(S)
    <3> HIDE DEF S
    <3> QED
      BY <1>2, <2>1, SeqMonotonic
  <2>3. s1 \in S /\ s2 \in S /\ s3 \in S /\ s4 \in S /\ s5 \in S
    OBVIOUS
  <2>4. <<s1, s2, s3>> \in Seq(S) /\ <<s4, s5>> \in Seq(S)
    <3> HIDE DEF S, s1, s2, s3, s4, s5
    <3> QED
      BY <2>3
  <2> QED
    BY <2>2, <2>4
<1>6. /\ before \in Seq(S) /\ Len(before) = 3 + m
      /\ before[1] = s1 /\ before[2] = s2 /\ before[3] = s3
      /\ \A i \in 4 .. 3 + m : before[i] \in Stored
  <2> HIDE DEF S, s1, s2, s3
  <2>1. Len(<<s1, s2, s3>>) = 3
    OBVIOUS
  <2>2. /\ before \in Seq(S) /\ Len(before) = 3 + m
        /\ \A i \in 1 .. 3 + m : before[i] =
             IF i <= 3 THEN <<s1, s2, s3>>[i] ELSE mpk.constraints[i - 3]
    BY <1>5, <2>1, Joined
  <2>3. 1 \in 1 .. 3 + m /\ 2 \in 1 .. 3 + m /\ 3 \in 1 .. 3 + m
    BY <1>a
  <2>4. before[1] = s1 /\ before[2] = s2 /\ before[3] = s3
    BY <2>2, <2>3
  <2>5. ASSUME NEW i \in 4 .. 3 + m
        PROVE  before[i] \in Stored
    <3>1. i \in 1 .. 3 + m /\ ~(i <= 3) /\ i - 3 \in 1 .. m
      BY <1>a
    <3> QED
      BY <1>a, <2>2, <3>1
  <2> QED
    BY <2>2, <2>4, <2>5
<1>7. /\ code \in Seq(S) /\ Len(code) = 5 + m
      /\ code[1] = s1 /\ code[2] = s2 /\ code[3] = s3
      /\ \A i \in 4 .. 3 + m : code[i] \in Stored
      /\ code[4 + m] = s4 /\ code[5 + m] = s5
  <2> HIDE DEF S, s1, s2, s3, s4, s5, before
  <2>1. Len(<<s4, s5>>) = 2
    OBVIOUS
  <2>2. /\ before \o <<s4, s5>> \in Seq(S) /\ Len(before \o <<s4, s5>>) = 3 + m + 2
        /\ \A i \in 1 .. 3 + m + 2 : (before \o <<s4, s5>>)[i] =
             IF i <= 3 + m THEN before[i] ELSE <<s4, s5>>[i - (3 + m)]
    <3> DEFINE end == <<s4, s5>>
    <3>1. before \in Seq(S) /\ end \in Seq(S) /\ Len(before) = 3 + m /\ Len(end) = 2
      BY <1>5, <1>6, <2>1
    <3> HIDE DEF end
    <3>2. /\ before \o end \in Seq(S) /\ Len(before \o end) = Len(before) + Len(end)
          /\ \A i \in 1 .. Len(before) + Len(end) : (before \o end)[i] =
               IF i <= Len(before) THEN before[i] ELSE end[i - Len(before)]
      <4>1. before \in Seq(S) /\ end \in Seq(S)
        BY <3>1
      <4> QED
        BY ONLY <4>1, ConcatProperties
    <3>3. /\ before \o end \in Seq(S) /\ Len(before \o end) = 3 + m + 2
          /\ \A i \in 1 .. 3 + m + 2 : (before \o end)[i] =
               IF i <= 3 + m THEN before[i] ELSE end[i - (3 + m)]
      BY <3>1, <3>2
    <3> QED
      BY <3>3 DEF end
  <2>3. \A i \in 1 .. 3 + m : code[i] = before[i]
    BY <1>1, <1>a, <2>2
  <2>4. code[4 + m] = <<s4, s5>>[1] /\ code[5 + m] = <<s4, s5>>[2]
    <3>1. 4 + m \in 1 .. 3 + m + 2 /\ ~(4 + m <= 3 + m) /\ (4 + m) - (3 + m) = 1
      BY <1>a
    <3>2. 5 + m \in 1 .. 3 + m + 2 /\ ~(5 + m <= 3 + m) /\ (5 + m) - (3 + m) = 2
      BY <1>a
    <3> HIDE DEF code
    <3> QED
      BY <1>1, <2>2, <3>1, <3>2
  <2>5. \A i \in 4 .. 3 + m : i \in 1 .. 3 + m
    BY <1>a
  <2>6. 1 \in 1 .. 3 + m /\ 2 \in 1 .. 3 + m /\ 3 \in 1 .. 3 + m
    BY <1>a
  <2>7. code[1] = s1 /\ code[2] = s2 /\ code[3] = s3
    BY <1>6, <2>3, <2>6
  <2>8. \A i \in 4 .. 3 + m : code[i] \in Stored
    BY <1>6, <2>3, <2>5
  <2>9. code[4 + m] = s4 /\ code[5 + m] = s5
    BY <2>4
  <2>10. code \in Seq(S) /\ Len(code) = 5 + m
    BY <1>1, <1>a, <2>2
  <2> QED
    BY <2>7, <2>8, <2>9, <2>10
<1>8. code \in Seq(Range(code))
  BY <1>7, SeqOfRange
<1> HIDE DEF code, S
<1>9. Len(code) - 1 = 4 + m /\ Len(code) - 2 = 3 + m /\ Len(code) > 4 /\ Len(code) \in Nat
  BY <1>7, <1>a
<1>10. /\ code[1].op = "match" /\ code[1].with = "macros"
       /\ code[2].op = "vary" /\ code[2].names = names
       /\ code[3].op = "macro"
       /\ code[4 + m].op = "method" /\ code[5 + m].op = "endmatch"
  BY <1>7
<1>11. \A i \in 4 .. 3 + m : code[i].op = "constraint" /\ (LeftSides => code[i].lhs = TRUE)
  BY <1>4, <1>7
<1> QED
  BY <1>3, <1>7, <1>8, <1>9, <1>10, <1>11 DEF code

(***************************************************************************)
(* A statement of the file does what its place requires.                   *)
(***************************************************************************)
LEMMA FileStatement ==
  ASSUME KnobShapes, MatchShapes, NullIsApart, mpk.variables # <<>>, Idle,
         NEW method, NEW k \in 0 .. Len(File(method)) - 1,
         Statement(File(method)[k + 1]),
         k = 0 => match_is_on = kMatch_NoMatch,
         0 < k => match_is_on = kMatch_UseMacro,
         1 < k => stored_match_var # NULL /\ stored_match_var # {},
         k = Len(File(method)) - 1 => fun_vect # NULL
  PROVE  LET n == Len(File(method))
         IN  exited' = NULL =>
               /\ k + 1 < n => match_is_on' = kMatch_UseMacro
               /\ 0 < k /\ k + 1 < n => stored_match_var' # NULL /\ stored_match_var' # {}
               /\ k + 1 = n - 1 => fun_vect' # NULL
               /\ k + 1 = n => match_is_on' = kMatch_NoMatch /\ fun_vect' = NULL
               /\ running' => k + 1 = n - 1
<1> DEFINE code == File(method)
           n == Len(code)
           s == code[k + 1]
<1>1. /\ n \in Nat /\ n > 4 /\ k \in Nat
      /\ k = 0 => s.op = "match" /\ s.with = "macros"
      /\ k = 1 => s.op = "vary" /\ s.names \in SUBSET Varied /\ s.names # {}
      /\ k = 2 => s.op = "macro"
      /\ 2 < k /\ k < n - 2 => s.op = "constraint"
      /\ k = n - 2 => s.op = "method"
      /\ k = n - 1 => s.op = "endmatch"
  <2>1. /\ n \in Nat /\ n > 4
        /\ code[1].op = "match" /\ code[1].with = "macros"
        /\ code[2].op = "vary" /\ code[2].names \in SUBSET Varied /\ code[2].names # {}
        /\ code[3].op = "macro"
        /\ \A i \in 4 .. n - 2 : code[i].op = "constraint"
        /\ code[n - 1].op = "method" /\ code[n].op = "endmatch"
    BY FileIs
  <2>2. k \in Int /\ 0 <= k /\ k < n
    BY <2>1
  <2>3. 2 < k /\ k < n - 2 => k + 1 \in 4 .. n - 2
    BY <2>1, <2>2
  <2>4. k = 0 => k + 1 = 1
    OBVIOUS
  <2>5. k = 1 => k + 1 = 2
    OBVIOUS
  <2>6. k = 2 => k + 1 = 3
    OBVIOUS
  <2>7. k = n - 2 => k + 1 = n - 1
    BY <2>1
  <2>8. k = n - 1 => k + 1 = n
    BY <2>1
  <2> HIDE DEF code, n
  <2> QED
    BY <2>1, <2>2, <2>3, <2>4, <2>5, <2>6, <2>7, <2>8
<1>2. Statement(s) /\ running = FALSE /\ exited = NULL
  BY DEF Idle
<1> HIDE DEF code, n, s
<1>3. CASE k = 0
  <2>1. MatchMacros
    BY <1>1, <1>2, <1>3 DEF Statement, Ignored
  <2> QED
    BY <1>1, <1>2, <1>3, <2>1 DEF MatchMacros, runVars, n, code
<1>4. CASE k > 0
  <2>7. k = 1 \/ k = 2 \/ (2 < k /\ k < n - 2) \/ k = n - 2 \/ k = n - 1
    <3>1. k \in Int /\ 0 <= k /\ k < n
      BY <1>1 DEF n, code
    <3> QED
      BY <1>1, <1>4, <3>1
  <2>8. s.op # "match"
    BY <1>1, <2>7
  <2>1. match_is_on = kMatch_UseMacro /\ ~Ignored(s)
    BY <1>1, <1>4, <2>8 DEF Ignored, kMatch_NoMatch, kMatch_UseMacro
  <2>2. CASE k = 1
    <3>1. Vary(s.names)
      BY <1>1, <1>2, <2>1, <2>2 DEF Statement, kMatch_NoMatch, kMatch_UseMacro
    <3>2. stored_match_var' \in SUBSET Varied /\ stored_match_var' # {}
      BY <1>1, <2>2, <3>1 DEF Vary, MatchShapes
    <3>3. stored_match_var' # NULL
      BY <3>2, UserAssumption
    <3> QED
      BY <1>1, <1>2, <2>1, <2>2, <3>1, <3>2, <3>3 DEF Vary, modeVars, runVars, n, code
  <2>3. CASE k = 2
    <3>1. AddMacro(s.name)
      BY <1>1, <1>2, <2>1, <2>3 DEF Statement, kMatch_NoMatch, kMatch_UseMacro
    <3> QED
      BY <1>1, <1>2, <2>1, <2>3, <3>1 DEF AddMacro, modeVars, jobVars, runVars, n, code
  <2>4. CASE 2 < k /\ k < n - 2
    <3>1. MacroConstraint(s.lhs, s.rhs)
      BY <1>1, <1>2, <2>1, <2>4 DEF Statement, kMatch_NoMatch, kMatch_UseMacro, kMatch_Std
    <3>2. UNCHANGED <<match_is_on, stored_match_var, running>>
      BY <3>1 DEF MacroConstraint, Stopped, modeVars, jobVars, runVars
    <3> QED
      BY <1>1, <1>2, <2>1, <2>4, <3>2 DEF n, code
  <2>5. CASE k = n - 2
    <3>1. Method(s.method)
      BY <1>1, <1>2, <2>1, <2>5 DEF Statement, kMatch_NoMatch, kMatch_UseMacro
    <3>2. /\ fun_vect' = [size |-> total_const, at |-> <<>>, ok |-> FALSE]
          /\ UNCHANGED <<match_is_on, stored_match_var>>
      BY <1>1, <2>5, <3>1 DEF Method, modeVars, n, code
    <3>3. fun_vect' # NULL
      <4>1. PICK f : f = FALSE
        OBVIOUS
      <4>2. fun_vect' = [size |-> total_const, at |-> <<>>, ok |-> f]
        BY <3>2, <4>1
      <4> QED
        BY <4>2 DEF NullIsApart
    <3> QED
      BY <1>1, <1>2, <2>1, <2>5, <3>2, <3>3 DEF n, code
  <2>6. CASE k = n - 1
    <3>1. fun_vect # NULL
      BY <2>6 DEF n, code
    <3>2. EndMacros
      BY <1>1, <1>2, <2>1, <2>6, <3>1
         DEF Statement, NoMethod, EndStd, kMatch_NoMatch, kMatch_UseMacro, kMatch_Std
    <3> QED
      BY <1>1, <1>2, <2>6, <3>2 DEF EndMacros, runVars, n, code
  <2> QED
    BY <2>2, <2>3, <2>4, <2>5, <2>6, <2>7
<1> QED
  BY <1>1, <1>3, <1>4

LEMMA FromFileIInv ==
  ASSUME IInv, NullIsApart, Idle, loop # NULL, FromFile
  PROVE  IInv'
<1> DEFINE code == File(loop.method)
           n == Len(code)
<1>1. /\ script # <<>> /\ Statement(Head(script)) /\ script' = Tail(script)
      /\ UNCHANGED <<mpk, loop>>
  BY DEF FromFile
<1>2. loop.at # "PTC" /\ mpk.variables # <<>>
  BY <1>1 DEF IInv, InLoop
<1>3. code \in Seq(Range(code)) /\ n \in Nat /\ n > 4
  BY <1>2, FileIs DEF IInv
<1>4. PICK k \in 0 .. n : Phase(k)
  BY <1>2 DEF IInv, InLoop
<1>5. k < n /\ Head(script) = code[k + 1] /\ script' = Rest(code, k + 1)
  <2>1. script = Rest(code, k)
    BY <1>4 DEF Phase
  <2>2. k < n
    BY <1>1, <1>3, <2>1, RestIs
  <2>3. Head(script) = code[k + 1] /\ Tail(script) = Rest(code, k + 1)
    BY <1>3, <2>1, <2>2, RestIs
  <2> QED
    BY <1>1, <2>2, <2>3
<1>6. /\ k = 0 => match_is_on = kMatch_NoMatch
      /\ 0 < k => match_is_on = kMatch_UseMacro
      /\ 1 < k => stored_match_var # NULL /\ stored_match_var # {}
      /\ k = n - 1 => fun_vect # NULL
  BY <1>3, <1>4, <1>5 DEF Phase, Idle
<1>7. k \in 0 .. n - 1 /\ k + 1 \in 0 .. n /\ k + 1 # 0
  BY <1>3, <1>5
<1>8. exited' = NULL =>
        /\ k + 1 < n => match_is_on' = kMatch_UseMacro
        /\ 0 < k /\ k + 1 < n => stored_match_var' # NULL /\ stored_match_var' # {}
        /\ k + 1 = n - 1 => fun_vect' # NULL
        /\ k + 1 = n => match_is_on' = kMatch_NoMatch /\ fun_vect' = NULL
        /\ running' => k + 1 = n - 1
  <2>1. Statement(File(loop.method)[k + 1])
    BY <1>1, <1>5
  <2> QED
    BY <1>2, <1>6, <1>7, <2>1, FileStatement DEF IInv
<1>9. KnobShapes'
  BY <1>1 DEF IInv, KnobShapes
<1>10. MatchShapes'
  <2>1. Head(script).op = "vary" => Head(script).names \in SUBSET Varied
    <3>1. /\ code[1].op = "match" /\ code[2].names \in SUBSET Varied
          /\ code[3].op = "macro"
          /\ \A i \in 4 .. n - 2 : code[i].op = "constraint"
          /\ code[n - 1].op = "method" /\ code[n].op = "endmatch"
      BY <1>2, FileIs DEF IInv
    <3>2. k + 1 = 1 \/ k + 1 = 2 \/ k + 1 = 3 \/ k + 1 \in 4 .. n - 2 \/ k + 1 = n - 1 \/ k + 1 = n
      BY <1>3, <1>7
    <3> HIDE DEF code
    <3> QED
      BY <1>5, <3>1, <3>2
  <2> QED
    BY <1>1, <2>1, StatementShapes DEF IInv
<1>11. (\E i \in 0 .. Len(File(loop.method)) : Phase(i))'
  <2>1. File(loop.method)' = code
    BY <1>1 DEF File
  <2>2. Phase(k + 1)'
    BY <1>3, <1>5, <1>7, <1>8, <2>1 DEF Phase
  <2> QED
    BY <1>7, <2>1, <2>2
<1>12. exited' = NULL /\ running' =>
         match_is_on' \in {kMatch_Std, kMatch_UseMacro} /\ fun_vect' # NULL
  BY <1>3, <1>7, <1>8
<1>13. InLoop'
  BY <1>1, <1>2, <1>11, <1>12 DEF IInv, InLoop
<1>14. exited' = NULL => fun_vect' = NULL \/ match_is_on' \in {kMatch_Std, kMatch_UseMacro}
  BY <1>3, <1>7, <1>8
<1>15. Job'
  BY <1>1, <1>14 DEF Job
<1> QED
  BY <1>9, <1>10, <1>13, <1>15 DEF IInv

-----------------------------------------------------------------------------
(* The statements of the input.                                            *)

LEMMA PresentIs ==
  ASSUME NEW S, NEW names \in Seq(S)
  PROVE  \E c \in 0 .. Len(names) : \E T : /\ DOMAIN Present(names) = 1 .. c
                                           /\ Present(names) \in Seq(T)
<1> DEFINE places == {i \in DOMAIN names : names[i] \in Sequence}
           place(k) == CHOOSE i \in places : Cardinality({j \in places : j <= i}) = k
           c == Cardinality(places)
           T == {names[place(k)] : k \in 1 .. c}
<1>1. Len(names) \in Nat /\ DOMAIN names = 1 .. Len(names)
  BY LenProperties
<1>2. IsFiniteSet(1 .. Len(names)) /\ Cardinality(1 .. Len(names)) = Len(names)
  <2>1. IsFiniteSet(1 .. Len(names))
    BY <1>1, FS_Interval
  <2> DEFINE n == Len(names)
  <2>2. n \in Nat
    BY <1>1
  <2> HIDE DEF n
  <2>3. Cardinality(1 .. n) = IF 1 <= n THEN n - 1 + 1 ELSE 0
    BY <2>2, FS_Interval
  <2>4. Cardinality(1 .. n) = n
    BY <2>2, <2>3
  <2> QED
    BY <2>1, <2>4 DEF n
<1>3. places \subseteq 1 .. Len(names)
  BY <1>1
<1>4. c \in Nat /\ c <= Len(names)
  <2> HIDE DEF places
  <2>1. IsFiniteSet(places) /\ Cardinality(places) <= Cardinality(1 .. Len(names))
    BY <1>2, <1>3, FS_Subset
  <2> QED
    BY <1>2, <2>1, FS_CardinalityType
<1>5. Present(names) = [k \in 1 .. c |-> names[place(k)]]
  BY DEF Present
<1> HIDE DEF c, place
<1>6. Present(names) \in [1 .. c -> T]
  BY <1>5
<1> HIDE DEF T
<1>7. Present(names) \in Seq(T)
  BY <1>4, <1>6, SeqDef
<1> QED
  BY <1>1, <1>4, <1>6, <1>7

LEMMA PrefixIs ==
  ASSUME NEW S, NEW names \in Seq(S), NEW m \in Nat, m <= Len(names)
  PROVE  SubSeq(names, 1, m) \in Seq(S) /\ Len(SubSeq(names, 1, m)) = m
<1>1. Len(names) \in Nat
  BY LenProperties
<1>2. \A i \in 1 .. m : names[i] \in S
  BY <1>1, ElementOfSeq
<1>3. CASE m = 0
  BY <1>3, SubSeqEmpty
<1>4. CASE m # 0
  <2>1. 1 <= m /\ m - 1 + 1 = m
    BY <1>4
  <2>2. SubSeq(names, 1, m) \in Seq(S)
    BY <1>2, SubSeqProperties
  <2>3. Len(SubSeq(names, 1, m)) = IF 1 <= m THEN m - 1 + 1 ELSE 0
    BY <1>2, SubSeqProperties
  <2> QED
    BY <2>1, <2>2, <2>3, Zenon
<1> QED
  BY <1>3, <1>4

LEMMA ReadIs ==
  ASSUME NEW S, NEW names \in Seq(S)
  PROVE  LET read == SubSeq(names, 1, Min({Len(names), MAX_SEQUS}))
         IN  read \in Seq(S) /\ Len(names) \in Nat /\ Len(read) <= Len(names)
<1> DEFINE m == Min({Len(names), MAX_SEQUS})
<1>1. Len(names) \in Nat /\ MAX_SEQUS \in Nat
  BY LenProperties, MatchingAssumption
<1>2. m \in Nat /\ m <= Len(names)
  <2>1. \E x \in {Len(names), MAX_SEQUS} : \A y \in {Len(names), MAX_SEQUS} : x =< y
    BY <1>1
  <2>2. m \in {Len(names), MAX_SEQUS} /\ \A y \in {Len(names), MAX_SEQUS} : m =< y
    BY <2>1 DEF Min
  <2> QED
    BY <1>1, <2>2
<1> HIDE DEF m
<1>3. SubSeq(names, 1, m) \in Seq(S) /\ Len(SubSeq(names, 1, m)) = m
  BY <1>2, PrefixIs
<1>4. Len(SubSeq(names, 1, m)) <= Len(names)
  BY <1>2, <1>3, Zenon
<1> QED
  BY <1>1, <1>3, <1>4, Zenon DEF m

LEMMA ListedFits ==
  ASSUME NEW S, NEW read \in Seq(S), NEW n \in Nat, Len(read) <= n,
         match_sequs = <<>>, \A i \in DOMAIN read : read[i] \notin Inactive
  PROVE  \A i \in DOMAIN (match_sequs \o Present(Upto(read, Inactive))) : i \in 1 .. n
<1>1. Len(read) \in Nat
  BY LenProperties
<1>2. Upto(read, Inactive) = read
  BY DEF Upto
<1>3. PICK c \in 0 .. Len(read) :
        \E T : DOMAIN Present(read) = 1 .. c /\ Present(read) \in Seq(T)
  BY PresentIs
<1>4. match_sequs \o Present(read) = Present(read)
  BY <1>3, ConcatEmptySeq
<1>5. \A i \in 1 .. c : i \in 1 .. n
  BY <1>1, <1>3
<1>6. match_sequs \o Present(Upto(read, Inactive)) = Present(read)
  BY <1>2, <1>4
<1> QED
  BY <1>3, <1>5, <1>6

LEMMA SwitchedKeeps ==
  ASSUME MatchShapes, Clean, Switched
  PROVE  keep_tw_print' = wanted
  BY DEF Clean, Switched

LEMMA SequencesJob ==
  ASSUME Job, MatchShapes, NullIsApart, Idle, loop = NULL, UNCHANGED loop,
         match_is_on = kMatch_NoMatch,
         NEW names \in Seq(Sequence \union {Unknown}), MatchSequences(names)
  PROVE  Job'
<1> SUFFICES ASSUME exited' = NULL, unusual' = {}
             PROVE  Job'
  BY DEF Job
<1> DEFINE read == SubSeq(names, 1, Min({Len(names), MAX_SEQUS}))
           listed == match_sequs \o Present(Upto(read, Inactive))
           killed == listed = <<>> \/ \E i \in DOMAIN read : read[i] \in Inactive
<1>1. ~(Len(listed) > MAX_SEQUS)
  BY MatchingAssumption DEF MatchSequences, Stopped
<1>2. /\ Switched
      /\ UNCHANGED <<stored_match_var, fun_vect, total_const, node_cl, sequ_cl, match2,
                     runVars, exited, wanted>>
      /\ killed => GiveUp
      /\ ~killed => MatchOn(listed, Upto(names, NoSequence), Len(names))
  BY <1>1 DEF MatchSequences
<1>3. ~killed
  BY <1>2 DEF GiveUp
<1>4. /\ match_sequs' = listed /\ match_is_on' = kMatch_Std /\ match_num_seqs' = Len(names)
      /\ unusual = {}
  BY <1>2, <1>3 DEF MatchOn
<1>5. exited = NULL
  BY <1>2
<1>6. Clean /\ match2.keep = FALSE
  BY <1>4, <1>5 DEF Job
<1>7. \A i \in DOMAIN listed : i \in 1 .. Len(names)
  <2>1. read \in Seq(Sequence \union {Unknown}) /\ Len(names) \in Nat /\ Len(read) <= Len(names)
    BY ReadIs
  <2>2. \A i \in DOMAIN read : read[i] \notin Inactive
    BY <1>3
  <2>3. match_sequs = <<>>
    BY <1>6 DEF Clean
  <2> HIDE DEF read
  <2> QED
    BY <2>1, <2>2, <2>3, ListedFits
<1>8. keep_tw_print' = wanted'
  BY <1>2, <1>6, SwitchedKeeps
<1>9. \A sequ \in Sequence : node_cl'[sequ] = {}
  BY <1>2, <1>6 DEF Clean
<1> HIDE DEF listed
<1> QED
  BY <1>2, <1>4, <1>6, <1>7, <1>8, <1>9
     DEF Job, kMatch_NoMatch, kMatch_Std, kMatch_UseMacro

LEMMA CurrentJob ==
  ASSUME Job, MatchShapes, NullIsApart, Idle, loop = NULL, UNCHANGED loop,
         match_is_on = kMatch_NoMatch, NEW sequ, MatchCurrent(sequ)
  PROVE  Job'
<1> SUFFICES ASSUME exited' = NULL, unusual' = {}
             PROVE  Job'
  BY DEF Job
<1>1. /\ Switched
      /\ UNCHANGED <<stored_match_var, fun_vect, total_const, node_cl, sequ_cl, match2,
                     runVars, exited, wanted>>
      /\ MatchOn(Append(match_sequs, sequ), <<sequ>>, 1)
  BY MatchingAssumption DEF MatchCurrent, Stopped
<1>2. /\ match_sequs' = Append(match_sequs, sequ) /\ match_is_on' = kMatch_Std
      /\ match_num_seqs' = 1 /\ unusual = {}
  BY <1>1 DEF MatchOn
<1>3. Clean /\ match2.keep = FALSE
  BY <1>1, <1>2 DEF Job
<1>4. match_sequs' = <<sequ>>
  BY <1>2, <1>3 DEF Clean
<1>5. keep_tw_print' = wanted'
  BY <1>1, <1>3, SwitchedKeeps
<1>6. \A x \in Sequence : node_cl'[x] = {}
  BY <1>1, <1>3 DEF Clean
<1>7. DOMAIN match_sequs' = 1 .. 1
  BY <1>4
<1> QED
  BY <1>1, <1>2, <1>3, <1>5, <1>6, <1>7
     DEF Job, kMatch_NoMatch, kMatch_Std, kMatch_UseMacro

LEMMA StatementJob ==
  ASSUME Job, MatchShapes, NullIsApart, Idle, loop = NULL, UNCHANGED loop,
         NEW s, Statement(s),
         s.op = "match" /\ s.with = "sequences" =>
           s.names \in Seq(Sequence \union {Unknown})
  PROVE  Job'
<1> SUFFICES ASSUME exited' = NULL, unusual' = {}
             PROVE  Job'
  BY DEF Job
<1> USE DEF kMatch_NoMatch, kMatch_Std, kMatch_UseMacro, kMatch_PTCknobs
<1>0. "crash" # NULL
  BY MatchingAssumption
<1>1. CASE UNCHANGED matchVars
  BY <1>1 DEF matchVars, modeVars, jobVars, placeVars, Job, Clean
<1>2. CASE match_is_on = kMatch_NoMatch /\ MatchMacros
  <2>1. /\ Switched /\ match_is_on' = kMatch_UseMacro
        /\ UNCHANGED <<stored_match_var, fun_vect, match_sequs, node_cl, sequ_cl,
                       exited, unusual, wanted>>
    BY <1>2 DEF MatchMacros, placeVars
  <2>2. match2'.keep = match2.keep
    BY <1>2 DEF MatchMacros, MatchShapes
  <2>3. Clean /\ match2.keep = FALSE
    BY <1>2, <2>1 DEF Job
  <2>4. keep_tw_print' = wanted'
    BY <2>1, <2>3, SwitchedKeeps
  <2> QED
    BY <2>1, <2>2, <2>3, <2>4 DEF Job, Clean
<1>3. CASE match_is_on = kMatch_NoMatch /\ s.op = "match" /\ s.with = "sequences"
             /\ MatchSequences(s.names)
  BY <1>3, SequencesJob
<1>4. CASE match_is_on = kMatch_NoMatch /\ MatchCurrent(s.sequ)
  BY <1>4, CurrentJob
<1>5. ASSUME match_is_on # kMatch_NoMatch, NEW names, Vary(names)
      PROVE  Job'
  BY <1>5 DEF Vary, modeVars, placeVars, Job
<1>6. ASSUME match_is_on = kMatch_Std, NEW q, NEW X, Constrain(Range(match_sequs) \intersect X, q)
      PROVE  Job'
  <2> DEFINE sequs == Range(match_sequs) \intersect X
  <2>1. /\ node_cl' = Updated(node_cl, sequs, q)
        /\ unusual' = unusual \union (IF fun_vect # NULL THEN {"late"} ELSE {})
        /\ UNCHANGED <<match_is_on, keep_tw_print, fun_vect, match_sequs, match_num_seqs,
                       match2, exited, wanted>>
    BY <1>0, <1>6 DEF Constrain, Stopped, Late
  <2>2. \A sequ \in Sequence : node_cl'[sequ] # {} => node_cl[sequ] # {} \/ sequ \in sequs
    BY <2>1 DEF Updated
  <2>3. unusual = {} /\ exited = NULL
    BY <2>1
  <2>4. /\ keep_tw_print = wanted /\ match2.keep = FALSE
        /\ \A i \in DOMAIN match_sequs : i \in 1 .. match_num_seqs
        /\ \A sequ \in Sequence : node_cl[sequ] # {} => sequ \in Range(match_sequs)
    BY <1>6, <2>3 DEF Job
  <2>5. \A sequ \in Sequence : node_cl'[sequ] # {} => sequ \in Range(match_sequs)
    BY <2>2, <2>4
  <2> HIDE DEF sequs
  <2>6. \A sequ \in Sequence : node_cl'[sequ] # {} => sequ \in Range(match_sequs')
    BY <2>1, <2>5
  <2>7. /\ match_is_on' = kMatch_Std /\ keep_tw_print' = wanted' /\ match2'.keep = FALSE
        /\ \A i \in DOMAIN match_sequs' : i \in 1 .. match_num_seqs'
    BY <1>6, <2>1, <2>4
  <2> QED
    BY <2>6, <2>7 DEF Job
<1>7. ASSUME match_is_on # kMatch_NoMatch, NEW q, NEW X,
             Global(Range(match_sequs) \intersect X, q)
      PROVE  Job'
  <2> DEFINE sequs == Range(match_sequs) \intersect X
  <2>1. CASE sequs = {}
    BY <1>1, <1>7, <2>1 DEF Global
  <2>2. CASE sequs # {}
    <3>1. /\ unusual' = unusual \union (IF fun_vect # NULL THEN {"late"} ELSE {})
          /\ UNCHANGED <<match_is_on, keep_tw_print, fun_vect, match_sequs, match_num_seqs,
                         node_cl, match2, exited, wanted>>
      BY <1>0, <1>7, <2>2 DEF Global, Stopped, Late, modeVars
    <3>2. match_sequs # <<>>
      BY <2>2 DEF Range
    <3> QED
      BY <1>7, <3>1, <3>2 DEF Job
  <2> QED
    BY <2>1, <2>2
<1>8. ASSUME match_is_on # kMatch_NoMatch, NEW name, AddMacro(name)
      PROVE  Job'
  <2>1. match2'.keep = match2.keep
    BY <1>8 DEF AddMacro, MatchShapes
  <2>2. UNCHANGED <<modeVars, fun_vect, placeVars, exited, unusual, wanted>>
    BY <1>8 DEF AddMacro, jobVars
  <2> QED
    BY <1>8, <2>1, <2>2 DEF Job, modeVars, placeVars
<1>9. ASSUME match_is_on # kMatch_NoMatch, NEW lhs, NEW rhs, MacroConstraint(lhs, rhs)
      PROVE  Job'
  <2>1. /\ unusual' = unusual \union (IF fun_vect # NULL THEN {"late"} ELSE {})
        /\ UNCHANGED <<modeVars, fun_vect, placeVars, exited, wanted>>
    BY <1>0, <1>9 DEF MacroConstraint, Stopped, Late
  <2>2. match2'.keep = match2.keep
    BY <1>0, <1>9 DEF MacroConstraint, MatchShapes, Stopped
  <2> QED
    BY <1>9, <2>1, <2>2 DEF Job, modeVars, placeVars
<1>10. ASSUME match_is_on # kMatch_NoMatch, match_is_on # kMatch_PTCknobs,
              NEW method, Method(method)
       PROVE  Job'
  <2>1. UNCHANGED <<modeVars, placeVars, match2, exited, unusual, wanted>>
    BY <1>0, <1>10 DEF Method, Stopped, GiveUp
  <2>2. match_is_on \in {kMatch_Std, kMatch_UseMacro}
    BY <1>10 DEF MatchShapes, Modes
  <2> QED
    BY <2>1, <2>2 DEF Job, modeVars, placeVars
<1>11. CASE NoMethod
  BY <1>1, <1>11 DEF NoMethod
<1>12. CASE EndStd
  <2>1. /\ match_is_on = kMatch_Std /\ match_is_on' = kMatch_NoMatch
        /\ node_cl' = EndSequences /\ sequ_cl' = [sequ \in Sequence |-> {}]
        /\ fun_vect' = NULL /\ stored_match_var' = NULL /\ total_const' = 0 /\ match_sequs' = <<>>
        /\ option'.twiss_print = keep_tw_print
        /\ UNCHANGED <<match2, exited, unusual, wanted>>
    BY <1>0, <1>12 DEF EndStd, Stopped
  <2>2. /\ keep_tw_print = wanted /\ match2.keep = FALSE
        /\ \A i \in DOMAIN match_sequs : i \in 1 .. match_num_seqs
        /\ \A sequ \in Sequence : node_cl[sequ] # {} => sequ \in Range(match_sequs)
    BY <2>1 DEF Job
  <2>3. \A sequ \in Sequence : node_cl'[sequ] = {}
    BY <2>1, <2>2 DEF EndSequences, Range
  <2> QED
    BY <2>1, <2>2, <2>3 DEF Job, Clean
<1>13. CASE EndMacros
  <2>1. /\ match_is_on = kMatch_UseMacro /\ match_is_on' = kMatch_NoMatch
        /\ fun_vect' = NULL /\ stored_match_var' = NULL
        /\ option' = [option EXCEPT !.twiss_print = keep_tw_print]
        /\ UNCHANGED <<match_sequs, node_cl, sequ_cl, exited, unusual, wanted>>
    BY <1>13 DEF EndMacros, placeVars
  <2>2. /\ keep_tw_print = wanted /\ match2.keep = FALSE /\ match_sequs = <<>>
        /\ \A sequ \in Sequence : node_cl[sequ] = {} /\ sequ_cl[sequ] = {}
    BY <2>1 DEF Job
  <2>3. total_const' = 0 /\ match2'.keep = match2.keep
    BY <1>13, <2>2 DEF EndMacros, MatchShapes
  <2>4. option'.twiss_print = keep_tw_print
    BY <2>1 DEF MatchShapes
  <2> QED
    BY <2>1, <2>2, <2>3, <2>4 DEF Job, Clean
<1> HIDE DEF kMatch_NoMatch, kMatch_Std, kMatch_UseMacro, kMatch_PTCknobs
<1> QED
  BY <1>1, <1>2, <1>3, <1>4, <1>5, <1>6, <1>7, <1>8, <1>9, <1>10, <1>11, <1>12, <1>13
     DEF Statement

-----------------------------------------------------------------------------
(* The whole.                                                              *)

LEMMA InitIInv == Init => IInv
<1> SUFFICES ASSUME Init
             PROVE  IInv
  OBVIOUS
<1>1. MatchShapes
  BY DEF Init, MatchInit, MatchShapes, Modes
<1>2. KnobShapes
  <2>1. /\ mpk.variables = <<>> /\ mpk.constraints = <<>>
        /\ mpk = [ready |-> mpk.ready, knobs |-> mpk.knobs, variables |-> mpk.variables,
                  constraints |-> mpk.constraints, acted |-> mpk.acted, over |-> mpk.over]
    BY DEF Init, Fresh
  <2>2. mpk.variables \in Seq(Range(mpk.variables)) /\ Len(mpk.variables) = 0
    BY <2>1, EmptySeq
  <2>3. mpk.constraints \in Seq(Stored)
    BY <2>1, EmptySeq
  <2> QED
    BY <2>1, <2>2, <2>3 DEF KnobShapes
<1>3. InLoop
  BY DEF Init, MatchInit, InLoop
<1>4. Job
  BY DEF Init, MatchInit, Job, Clean, kMatch_NoMatch, kMatch_Std, kMatch_UseMacro
<1> QED
  BY <1>1, <1>2, <1>3, <1>4 DEF IInv

(***************************************************************************)
(* A statement of the input, when there is no loop.                        *)
(***************************************************************************)
LEMMA StatementIInv ==
  ASSUME IInv, NullIsApart, Idle, loop = NULL, NEW s \in User, Statement(s), UNCHANGED knobVars
  PROVE  IInv'
<1>1. MatchShapes'
  <2>1. s.op = "vary" => s.names \in SUBSET Varied
    BY DEF Varied
  <2> QED
    BY <2>1, StatementShapes DEF IInv
<1>2. KnobShapes'
  BY DEF IInv, KnobShapes, knobVars
<1>3. exited' = NULL /\ running' =>
        match_is_on' \in {kMatch_Std, kMatch_UseMacro} /\ fun_vect' # NULL
  <2> SUFFICES ASSUME running'
               PROVE  match_is_on' \in {kMatch_Std, kMatch_UseMacro} /\ fun_vect' # NULL
    OBVIOUS
  <2>1. running = FALSE
    BY DEF Idle
  <2>2. PICK method : match_is_on # kMatch_NoMatch /\ match_is_on # kMatch_PTCknobs /\ Method(method)
    BY <2>1 DEF Statement, matchVars, runVars, MatchMacros, MatchSequences, MatchCurrent,
       Stopped, Vary, Constrain, Global, MacroConstraint, AddMacro, NoMethod, EndStd, EndMacros
  <2>3. /\ fun_vect' = [size |-> total_const, at |-> <<>>, ok |-> FALSE]
        /\ UNCHANGED match_is_on
    BY <2>1, <2>2 DEF Method, Stopped, GiveUp, runVars, modeVars
  <2>4. PICK f : f = FALSE
    OBVIOUS
  <2>5. fun_vect' = [size |-> total_const, at |-> <<>>, ok |-> f]
    BY <2>3, <2>4
  <2> QED
    BY <2>2, <2>3, <2>5 DEF NullIsApart, IInv, MatchShapes, Modes
<1>4. InLoop'
  BY <1>3 DEF IInv, InLoop, knobVars
<1>5. Job'
  BY UserAssumption, StatementJob DEF IInv, knobVars
<1> QED
  BY <1>1, <1>2, <1>4, <1>5 DEF IInv

LEMMA MatchKnobsIInv ==
  ASSUME IInv, NullIsApart, Idle, loop = NULL, match_is_on = kMatch_NoMatch, MatchKnobs
  PROVE  IInv'
<1>1. /\ match_is_on' = kMatch_PTCknobs /\ Switched /\ mpk' = Fresh
      /\ UNCHANGED <<stored_match_var, fun_vect, match2, running, exited, unusual, loop, script>>
  BY DEF MatchKnobs, jobVars, runVars
<1>2. MatchShapes'
  BY <1>1, SwitchedShapes DEF IInv, MatchShapes, Modes
<1>3. KnobShapes'
  <2>1. /\ mpk'.variables = <<>> /\ mpk'.constraints = <<>>
        /\ mpk' = [ready |-> mpk'.ready, knobs |-> mpk'.knobs, variables |-> mpk'.variables,
                   constraints |-> mpk'.constraints, acted |-> mpk'.acted, over |-> mpk'.over]
    BY <1>1 DEF Fresh
  <2>2. mpk'.variables \in Seq(Range(mpk'.variables)) /\ Len(mpk'.variables) = 0
    BY <2>1, EmptySeq
  <2>3. mpk'.constraints \in Seq(Stored)
    BY <2>1, EmptySeq
  <2> QED
    BY <2>1, <2>2, <2>3 DEF KnobShapes
<1>4. InLoop'
  BY <1>1 DEF IInv, InLoop, Idle
<1>5. Job'
  BY <1>1 DEF IInv, Job, Clean, kMatch_NoMatch, kMatch_Std, kMatch_UseMacro, kMatch_PTCknobs
<1> QED
  BY <1>2, <1>3, <1>4, <1>5 DEF IInv

(***************************************************************************)
(* What is kept for the file.                                              *)
(***************************************************************************)
LEMMA KeptIInv ==
  ASSUME IInv, loop = NULL, UNCHANGED <<matchVars, loop, script>>, KnobShapes'
  PROVE  IInv'
<1>1. MatchShapes'
  BY DEF IInv, MatchShapes, matchVars, modeVars, jobVars
<1>2. InLoop'
  BY DEF IInv, InLoop, matchVars, modeVars, jobVars, runVars
<1>3. Job'
  BY DEF IInv, Job, Clean, matchVars, modeVars, jobVars, placeVars
<1> QED
  BY <1>1, <1>2, <1>3 DEF IInv

LEMMA PrepareIInv ==
  ASSUME IInv, loop = NULL, Prepare
  PROVE  IInv'
<1>1. PICK t : t = TRUE
  OBVIOUS
<1>2. mpk' = [mpk EXCEPT !.ready = t] /\ UNCHANGED <<matchVars, loop, script>>
  BY <1>1 DEF Prepare
<1>3. KnobShapes'
  BY <1>2 DEF IInv, KnobShapes
<1> QED
  BY <1>2, <1>3, KeptIInv

LEMMA AppendedIs ==
  ASSUME NEW S, NEW seq \in Seq(S), NEW e
  PROVE  /\ Append(seq, e) \in Seq(Range(Append(seq, e)))
         /\ Len(Append(seq, e)) = Len(seq) + 1 /\ Len(seq) \in Nat
         /\ \A i \in 1 .. Len(seq) : Append(seq, e)[i] = seq[i]
         /\ Append(seq, e)[Len(seq) + 1] = e
<1> DEFINE T == S \union {e}
<1>1. S \subseteq T /\ e \in T
  OBVIOUS
<1> HIDE DEF T
<1>2. seq \in Seq(T)
  BY <1>1, SeqMonotonic
<1>3. /\ Append(seq, e) \in Seq(T)
      /\ Len(Append(seq, e)) = Len(seq) + 1
      /\ \A i \in 1 .. Len(seq) : Append(seq, e)[i] = seq[i]
      /\ Append(seq, e)[Len(seq) + 1] = e
  BY <1>1, <1>2, AppendProperties
<1>4. Append(seq, e) \in Seq(Range(Append(seq, e)))
  BY <1>3, SeqOfRange
<1> QED
  BY <1>3, <1>4, LenProperties

LEMMA VaryKnobIInv ==
  ASSUME IInv, loop = NULL, NEW name \in Varied, VaryKnob(name)
  PROVE  IInv'
<1> DEFINE k == FindSetKnob(mpk.knobs, name)
<1>1. UNCHANGED <<matchVars, loop, script>>
  BY DEF VaryKnob
<1>2. CASE k < 0
  <2>1. UNCHANGED mpk
    BY <1>2 DEF VaryKnob
  <2> QED
    BY <1>1, <2>1, KeptIInv DEF IInv, KnobShapes
<1>3. CASE ~(k < 0)
  <2> DEFINE v == [name |-> name, knob |-> k + 1]
             vs == Append(mpk.variables, v)
  <2>1. PICK knobs : mpk' = [mpk EXCEPT !.knobs = knobs, !.variables = vs]
    BY <1>3 DEF VaryKnob
  <2>2. /\ mpk'.variables = vs /\ mpk'.constraints = mpk.constraints
        /\ mpk' = [ready |-> mpk'.ready, knobs |-> mpk'.knobs, variables |-> mpk'.variables,
                   constraints |-> mpk'.constraints, acted |-> mpk'.acted, over |-> mpk'.over]
    <3> HIDE DEF vs
    <3>1. PICK m : m = [mpk EXCEPT !.knobs = knobs]
      OBVIOUS
    <3>2. m = [ready |-> mpk.ready, knobs |-> knobs, variables |-> mpk.variables,
               constraints |-> mpk.constraints, acted |-> mpk.acted, over |-> mpk.over]
      BY <3>1 DEF IInv, KnobShapes
    <3>3. mpk' = [m EXCEPT !.variables = vs]
      BY <2>1, <3>1
    <3> QED
      BY <3>2, <3>3
  <2>3. mpk.variables \in Seq(Range(mpk.variables))
    BY DEF IInv, KnobShapes
  <2>4. /\ vs \in Seq(Range(vs)) /\ Len(vs) = Len(mpk.variables) + 1 /\ Len(mpk.variables) \in Nat
        /\ \A i \in 1 .. Len(mpk.variables) : vs[i] = mpk.variables[i]
        /\ vs[Len(mpk.variables) + 1] = v
    <3> HIDE DEF v
    <3> QED
      BY <2>3, AppendedIs
  <2>5. \A i \in 1 .. Len(vs) : vs[i].name \in Varied
    <3>1. \A i \in 1 .. Len(mpk.variables) : vs[i].name \in Varied
      BY <2>4 DEF IInv, KnobShapes
    <3>2. vs[Len(mpk.variables) + 1].name \in Varied
      BY <2>4
    <3>3. \A i \in 1 .. Len(vs) : i \in 1 .. Len(mpk.variables) \/ i = Len(mpk.variables) + 1
      BY <2>4
    <3> QED
      BY <3>1, <3>2, <3>3
  <2> HIDE DEF vs
  <2>6. KnobShapes'
    BY <2>2, <2>4, <2>5 DEF IInv, KnobShapes
  <2> QED
    BY <1>1, <2>6, KeptIInv
<1> QED
  BY <1>2, <1>3

LEMMA KeepConstraintIInv ==
  ASSUME IInv, loop = NULL, NEW s \in User, s.op = "constraint", KeepConstraint(s.lhs, s.rhs)
  PROVE  IInv'
<1> DEFINE c == [op |-> "constraint", lhs |-> s.lhs, rhs |-> s.rhs]
           cs == Append(mpk.constraints, c)
<1>1. mpk' = [mpk EXCEPT !.constraints = cs] /\ UNCHANGED <<matchVars, loop, script>>
  BY DEF KeepConstraint
<1>2. cs \in Seq(Stored)
  <2>1. mpk.constraints \in Seq(Stored)
    BY DEF IInv, KnobShapes
  <2>2. c \in Stored
    BY UserAssumption DEF Stored, LeftSides
  <2> HIDE DEF c
  <2> QED
    BY <2>1, <2>2, AppendProperties
<1> HIDE DEF cs
<1>3. KnobShapes'
  BY <1>1, <1>2 DEF IInv, KnobShapes
<1> QED
  BY <1>1, <1>3, KeptIInv

LEMMA RunIInv ==
  ASSUME IInv, NullIsApart, Idle, loop = NULL, NEW method, NEW maxcalls, Run(method, maxcalls)
  PROVE  IInv'
<1>1. CASE UNCHANGED vars
  BY <1>1 DEF IInv, MatchShapes, KnobShapes, InLoop, Job, Clean, vars, matchVars,
              modeVars, jobVars, placeVars, runVars
<1>2. CASE ~UNCHANGED vars
  <2>1. PICK t : t = TRUE
    OBVIOUS
  <2>2. /\ match_is_on = kMatch_PTCknobs /\ match_is_on' = kMatch_NoMatch
        /\ mpk.variables # <<>>
        /\ match2' = [match2 EXCEPT !.keep = t]
        /\ mpk' = [mpk EXCEPT !.acted = t]
        /\ loop' = [at |-> "PTC", method |-> method, maxcalls |-> maxcalls, calls |-> 0,
                     vector1 |-> NULL]
        /\ UNCHANGED <<option, keep_tw_print, jobVars, placeVars, runVars, exited, unusual,
                       wanted, script>>
    BY <1>2, <2>1 DEF Run, Off
  <2>3. MatchShapes'
    BY <2>2 DEF IInv, MatchShapes, Modes, jobVars
  <2>4. KnobShapes'
    BY <2>2 DEF IInv, KnobShapes
  <2>5. loop' # NULL
    BY <2>2 DEF NullIsApart
  <2>6. mpk'.variables = mpk.variables
    BY <2>2 DEF IInv, KnobShapes
  <2>7. InLoop'
    BY <2>2, <2>5, <2>6 DEF IInv, InLoop, Idle, runVars
  <2>8. Job'
    BY <2>2, <2>5
       DEF IInv, Job, jobVars, kMatch_Std, kMatch_UseMacro, kMatch_PTCknobs
  <2> QED
    BY <2>3, <2>4, <2>7, <2>8 DEF IInv
<1> QED
  BY <1>1, <1>2

LEMMA EndKnobsIInv ==
  ASSUME IInv, loop = NULL, EndKnobs
  PROVE  IInv'
<1>1. /\ match_is_on = kMatch_PTCknobs
      /\ mpk' = [mpk EXCEPT !.over = mpk.acted]
      /\ match_is_on' = IF fun_vect = NULL THEN match_is_on ELSE kMatch_NoMatch
      /\ UNCHANGED <<option, keep_tw_print, jobVars, placeVars, match2, runVars, exited,
                     unusual, wanted, loop, script>>
  BY DEF EndKnobs
<1>2. MatchShapes'
  BY <1>1 DEF IInv, MatchShapes, Modes, jobVars
<1>3. KnobShapes'
  BY <1>1 DEF IInv, KnobShapes
<1>4. InLoop'
  BY <1>1 DEF IInv, InLoop, runVars, jobVars, kMatch_Std, kMatch_UseMacro, kMatch_PTCknobs
<1>5. exited' = NULL /\ unusual' = {} => match_is_on' = match_is_on
  BY <1>1 DEF IInv, Job, kMatch_Std, kMatch_UseMacro, kMatch_PTCknobs
<1>6. Job'
  BY <1>1, <1>5
     DEF IInv, Job, jobVars, kMatch_NoMatch, kMatch_Std, kMatch_UseMacro, kMatch_PTCknobs
<1> QED
  BY <1>2, <1>3, <1>4, <1>6 DEF IInv

LEMMA ApertureIInv ==
  ASSUME IInv, loop = NULL, NEW sequ, Aperture(sequ), UNCHANGED knobVars
  PROVE  IInv'
<1>1. PICK t : t = TRUE
  OBVIOUS
<1>2. /\ option' = [option EXCEPT !.twiss_print = t]
      /\ unusual' = unusual \union {"aperture"}
      /\ UNCHANGED <<match_is_on, jobVars, match2, runVars, exited, mpk, loop, script>>
  BY <1>1 DEF Aperture, knobVars
<1>3. MatchShapes'
  BY <1>2 DEF IInv, MatchShapes, jobVars
<1>4. KnobShapes'
  BY <1>2 DEF IInv, KnobShapes
<1>5. InLoop'
  BY <1>2 DEF IInv, InLoop, runVars, jobVars
<1>6. Job'
  BY <1>2 DEF Job
<1> QED
  BY <1>3, <1>4, <1>5, <1>6 DEF IInv

LEMMA ConditionIInv ==
  ASSUME IInv, NullIsApart, Condition, UNCHANGED knobVars
  PROVE  IInv'
<1>1. running /\ exited = NULL
  BY DEF Condition
<1>2. match_is_on \in {kMatch_Std, kMatch_UseMacro} /\ fun_vect # NULL
  BY <1>1 DEF IInv, InLoop
<1>3. /\ MatchShapes' /\ UNCHANGED modeVars
      /\ UNCHANGED <<stored_match_var, total_const, placeVars, match2, unusual, wanted>>
      /\ fun_vect' # NULL
  BY <1>2, ConditionShapes DEF IInv
<1>4. KnobShapes'
  BY DEF IInv, KnobShapes, knobVars
<1>5. UNCHANGED <<mpk, loop, script>>
  BY DEF knobVars
<1>6. ASSUME loop # NULL, loop.at # "PTC"
      PROVE  (\E k \in 0 .. Len(File(loop.method)) : Phase(k))'
  <2> DEFINE n == Len(File(loop.method))
  <2>1. PICK k \in 0 .. n : Phase(k)
    BY <1>6 DEF IInv, InLoop
  <2>2. k = n - 1 /\ n \in Nat /\ n > 4
    <3>1. n \in Nat /\ n > 4
      BY <1>6, FileIs DEF IInv, InLoop
    <3> QED
      BY <1>1, <2>1, <3>1 DEF Phase
  <2>3. File(loop.method)' = File(loop.method)
    BY <1>5 DEF File
  <2>4. Phase(k)'
    BY <1>1, <1>3, <1>5, <2>1, <2>2, <2>3 DEF Phase, modeVars
  <2> QED
    BY <2>1, <2>3, <2>4
<1>7. InLoop'
  BY <1>1, <1>2, <1>3, <1>5, <1>6 DEF IInv, InLoop, modeVars
<1>8. Job'
  <2>1. exited' = NULL /\ unusual' = {} => exited = NULL /\ unusual = {}
    BY <1>1, <1>3
  <2>2. match_is_on # kMatch_NoMatch
    BY <1>2 DEF kMatch_NoMatch, kMatch_Std, kMatch_UseMacro
  <2> QED
    BY <1>2, <1>3, <1>5, <2>1, <2>2 DEF IInv, Job, modeVars, placeVars
<1> QED
  BY <1>3, <1>4, <1>7, <1>8 DEF IInv

LEMMA CalculateIInv ==
  ASSUME IInv, NullIsApart, Idle, loop # NULL, Calculate
  PROVE  IInv'
<1>1. /\ loop.at = "PTC"
      /\ UNCHANGED <<modeVars, jobVars, placeVars, match2, runVars, exited, wanted, mpk>>
  BY DEF Calculate
<1>2. MatchShapes'
  BY <1>1 DEF IInv, MatchShapes, modeVars, jobVars
<1>3. KnobShapes'
  BY <1>1 DEF IInv, KnobShapes
<1>4. /\ script = <<>> /\ match_is_on = kMatch_NoMatch /\ running = FALSE /\ exited = NULL
      /\ mpk.variables # <<>>
      /\ loop = [at |-> loop.at, method |-> loop.method, maxcalls |-> loop.maxcalls,
                 calls |-> loop.calls, vector1 |-> loop.vector1]
  BY <1>1 DEF IInv, InLoop, Idle
<1>5. CASE loop' = [loop EXCEPT !.at = "file", !.calls = NextCall] /\ script' = File(loop.method)
             /\ UNCHANGED unusual
  <2>1. loop' = [at |-> "file", method |-> loop.method, maxcalls |-> loop.maxcalls,
                 calls |-> NextCall, vector1 |-> loop.vector1]
    <3>1. PICK l : l = [loop EXCEPT !.at = "file"]
      OBVIOUS
    <3>2. l = [at |-> "file", method |-> loop.method, maxcalls |-> loop.maxcalls,
               calls |-> loop.calls, vector1 |-> loop.vector1]
      BY <1>4, <3>1
    <3>3. PICK c : c = NextCall
      OBVIOUS
    <3>4. loop' = [l EXCEPT !.calls = c]
      BY <1>5, <3>1, <3>3
    <3>5. loop' = [at |-> "file", method |-> loop.method, maxcalls |-> loop.maxcalls,
                   calls |-> c, vector1 |-> loop.vector1]
      BY <3>2, <3>4
    <3> QED
      BY <3>3, <3>5
  <2>2. loop' # NULL /\ loop'.at = "file" /\ loop'.method = loop.method
    BY <2>1 DEF NullIsApart
  <2> DEFINE code == File(loop.method)
  <2>3. code \in Seq(Range(code)) /\ Len(code) \in Nat /\ Len(code) > 4
    BY <1>4, FileIs DEF IInv
  <2>4. File(loop.method)' = code
    BY <1>1, <2>2 DEF File
  <2>5. Rest(code, 0) = code
    <3>1. 0 \in 0 .. Len(code)
      BY <2>3
    <3> QED
      BY <2>3, <3>1, RestIs
  <2>6. Phase(0)'
    <3>1. PICK c : c = code
      OBVIOUS
    <3>2. script' = Rest(c, 0) /\ Len(c) \in Nat /\ Len(c) > 4
      BY <1>5, <2>3, <2>5, <3>1
    <3>3. match_is_on' = kMatch_NoMatch /\ ~running' /\ exited' = NULL
      BY <1>1, <1>4 DEF modeVars, runVars
    <3>4. File(loop.method)' = c
      BY <2>4, <3>1
    <3> HIDE DEF code
    <3>5. script' = Rest(File(loop.method)', 0)
      BY <3>2, <3>4
    <3>6. /\ ~(0 = Len(c) - 1) /\ ~(0 = Len(c)) /\ ~(0 < 0) /\ ~(1 < 0)
      <4>1. \A n \in Nat : n > 4 => n - 1 # 0 /\ n # 0
        OBVIOUS
      <4>2. ~(0 < 0) /\ ~(1 < 0)
        OBVIOUS
      <4> QED
        BY <3>2, <4>1, <4>2, Zenon
    <3>7. /\ ~(0 = Len(File(loop.method)') - 1) /\ ~(0 = Len(File(loop.method)'))
      BY <3>4, <3>6
    <3> QED
      BY <3>3, <3>5, <3>6, <3>7, Zenon DEF Phase
  <2>7. (\E k \in 0 .. Len(File(loop.method)) : Phase(k))'
    BY <2>3, <2>4, <2>6
  <2>8. InLoop'
    BY <1>1, <1>4, <2>1, <2>2, <2>7 DEF InLoop, runVars
  <2>9. Job'
    BY <1>1, <1>5, <2>2 DEF IInv, Job, modeVars, jobVars
  <2> QED
    BY <1>2, <1>3, <2>8, <2>9 DEF IInv
<1>6. CASE loop' = NULL /\ UNCHANGED script /\ unusual' = unusual \union {"cleaning"}
  <2>1. InLoop'
    BY <1>1, <1>4, <1>6 DEF InLoop, runVars
  <2>2. Job'
    BY <1>6 DEF Job
  <2> QED
    BY <1>2, <1>3, <2>1, <2>2 DEF IInv
<1> QED
  BY <1>5, <1>6 DEF Calculate

LEMMA VerifyIInv ==
  ASSUME IInv, NullIsApart, Idle, loop # NULL, Verify
  PROVE  IInv'
<1>1. /\ loop.at = "file" /\ script = <<>>
      /\ UNCHANGED <<option, keep_tw_print, jobVars, placeVars, runVars, exited, unusual, wanted,
                     mpk, script>>
  BY DEF Verify
<1>2. /\ loop = [at |-> loop.at, method |-> loop.method, maxcalls |-> loop.maxcalls,
                 calls |-> loop.calls, vector1 |-> loop.vector1]
      /\ mpk.variables # <<>> /\ running = FALSE /\ exited = NULL
  BY DEF IInv, InLoop, Idle
<1>3. match_is_on = kMatch_NoMatch /\ fun_vect = NULL
  <2> DEFINE code == File(loop.method)
             n == Len(code)
  <2>1. code \in Seq(Range(code)) /\ n \in Nat /\ n > 4
    BY <1>2, FileIs DEF IInv
  <2>2. PICK k \in 0 .. n : Phase(k)
    BY <1>1 DEF IInv, InLoop
  <2>3. Rest(code, k) = <<>>
    BY <1>1, <2>2 DEF Phase
  <2>4. k < n => Rest(code, k) # <<>>
    BY <2>1, RestIs
  <2>5. k = n
    BY <2>1, <2>3, <2>4
  <2> QED
    BY <1>2, <2>2, <2>5 DEF Phase
<1>4. KnobShapes'
  BY <1>1 DEF IInv, KnobShapes
<1>5. CASE loop' = NULL /\ match_is_on' = kMatch_PTCknobs
             /\ match2' = [match2 EXCEPT !.keep = FALSE]
  <2>1. PICK f : f = FALSE
    OBVIOUS
  <2>2. match2' = [match2 EXCEPT !.keep = f]
    BY <1>5, <2>1
  <2>3. MatchShapes' /\ match2'.keep = FALSE
    BY <1>1, <1>5, <2>1, <2>2 DEF IInv, MatchShapes, jobVars, Modes
  <2>4. InLoop'
    BY <1>1, <1>2, <1>5 DEF InLoop, runVars
  <2>5. Job'
    BY <1>1, <1>3, <1>5, <2>3
       DEF Job, jobVars, kMatch_NoMatch, kMatch_Std, kMatch_UseMacro, kMatch_PTCknobs
  <2> QED
    BY <1>4, <2>3, <2>4, <2>5 DEF IInv
<1>6. ASSUME NEW v, loop' = [loop EXCEPT !.at = "PTC", !.vector1 = v],
             UNCHANGED <<match_is_on, match2>>
      PROVE  IInv'
  <2>1. loop' = [at |-> "PTC", method |-> loop.method, maxcalls |-> loop.maxcalls,
                 calls |-> loop.calls, vector1 |-> v]
    <3>1. PICK l : l = [loop EXCEPT !.at = "PTC"]
      OBVIOUS
    <3>2. l = [at |-> "PTC", method |-> loop.method, maxcalls |-> loop.maxcalls,
               calls |-> loop.calls, vector1 |-> loop.vector1]
      BY <1>2, <3>1
    <3>3. loop' = [l EXCEPT !.vector1 = v]
      BY <1>6, <3>1
    <3> QED
      BY <3>2, <3>3
  <2>2. loop' # NULL
    BY <2>1 DEF NullIsApart
  <2>3. MatchShapes'
    BY <1>1, <1>6 DEF IInv, MatchShapes, jobVars
  <2>4. InLoop'
    BY <1>1, <1>2, <1>3, <1>6, <2>1, <2>2 DEF InLoop, runVars
  <2>5. Job'
    BY <1>1, <1>3, <2>2 DEF Job, jobVars
  <2> QED
    BY <1>4, <2>3, <2>4, <2>5 DEF IInv
<1> DEFINE w == IF loop.vector1 = NULL THEN total_const + 1 ELSE loop.vector1
<1>7. \/ loop' = NULL /\ match_is_on' = kMatch_PTCknobs /\ match2' = [match2 EXCEPT !.keep = FALSE]
      \/ loop' = [loop EXCEPT !.at = "PTC", !.vector1 = w] /\ UNCHANGED <<match_is_on, match2>>
  BY DEF Verify
<1> HIDE DEF w
<1> QED
  BY <1>5, <1>6, <1>7

LEMMA NextIInv == NullIsApart /\ IInv /\ [Next]_vars => IInv'
<1> SUFFICES ASSUME NullIsApart, IInv, [Next]_vars
             PROVE  IInv'
  OBVIOUS
<1>1. ASSUME NEW s \in User, UserStatement(s)
      PROVE  IInv'
  <2>1. Idle /\ loop = NULL
    BY <1>1 DEF UserStatement
  <2>2. s.op = "varyknob" => s.name \in Varied
    BY DEF Varied
  <2> QED
    BY <1>1, <2>1, <2>2, StatementIInv, MatchKnobsIInv, PrepareIInv, VaryKnobIInv,
       KeepConstraintIInv, RunIInv, EndKnobsIInv, ApertureIInv DEF UserStatement
<1>2. CASE Goes
  BY <1>2, ConditionIInv, CalculateIInv, FromFileIInv, VerifyIInv DEF Goes
<1>3. CASE UNCHANGED vars
  <2>1. /\ UNCHANGED <<modeVars, jobVars, placeVars, runVars, match2, exited, unusual, wanted>>
        /\ UNCHANGED <<mpk, loop, script>>
    BY <1>3 DEF vars, matchVars
  <2>2. MatchShapes' /\ KnobShapes' /\ Job'
    BY <2>1 DEF IInv, MatchShapes, KnobShapes, Job, Clean, modeVars, jobVars, placeVars
  <2>3. File(loop.method)' = File(loop.method)
    BY <2>1 DEF File
  <2>4. \A k : Phase(k) => Phase(k)'
    BY <2>1, <2>3 DEF Phase, modeVars, jobVars, runVars
  <2>5. InLoop'
    BY <2>1, <2>3, <2>4 DEF IInv, InLoop, modeVars, jobVars, runVars
  <2> QED
    BY <2>2, <2>5 DEF IInv
<1> QED
  BY <1>1, <1>2, <1>3 DEF Next

LEMMA IInvTaken ==
  ASSUME IInv
  PROVE  Taken
<1> SUFFICES ASSUME loop # NULL, script # <<>>, Head(script).op = "match"
             PROVE  match_is_on = kMatch_NoMatch
  BY DEF Taken
<1> DEFINE code == File(loop.method)
           n == Len(code)
<1>1. loop.at # "PTC" /\ mpk.variables # <<>>
  BY DEF IInv, InLoop
<1>2. PICK k \in 0 .. n : Phase(k)
  BY <1>1 DEF IInv, InLoop
<1>3. /\ code \in Seq(Range(code)) /\ n \in Nat /\ n > 4
      /\ code[2].op = "vary" /\ code[3].op = "macro"
      /\ \A i \in 4 .. n - 2 : code[i].op = "constraint"
      /\ code[n - 1].op = "method" /\ code[n].op = "endmatch"
  BY <1>1, FileIs DEF IInv
<1>4. script = Rest(code, k)
  BY <1>2 DEF Phase
<1>5. k < n
  BY <1>3, <1>4, RestIs
<1>6. Head(script) = code[k + 1]
  BY <1>3, <1>4, <1>5, RestIs
<1>7. k = 0 \/ k + 1 = 2 \/ k + 1 = 3 \/ k + 1 \in 4 .. n - 2 \/ k + 1 = n - 1 \/ k + 1 = n
  BY <1>3, <1>5
<1>8. k = 0
  <2> HIDE DEF code
  <2> QED
    BY <1>3, <1>6, <1>7
<1> QED
  BY <1>2, <1>8 DEF Phase

(***************************************************************************)
(* ENDMATCH leaves nothing of the job: no variables, no vector, no         *)
(* constraint, neither counted nor on a node or sequence, no sequences,    *)
(* and twiss_print as it was; unless something was done to the job that is *)
(* listed in unusual.                                                      *)
(***************************************************************************)
THEOREM JobForgotten == ASSUME NullIsApart PROVE Spec => []Forgets
<1>1. IInv => Forgets
  BY DEF IInv, Job, Clean, Forgets
<1>2. IInv /\ [Next]_vars => IInv'
  BY NextIInv
<1> QED
  BY <1>1, <1>2, InitIInv, PTL DEF Spec

(***************************************************************************)
(* When madx_mpk_run calls the file that it has written, in whichever      *)
(* round of its loop, the MATCH in it is not ignored by pro_match.         *)
(***************************************************************************)
THEOREM FileIsTaken == ASSUME NullIsApart PROVE Spec => []Taken
<1>1. IInv => Taken
  BY IInvTaken
<1>2. IInv /\ [Next]_vars => IInv'
  BY NextIInv
<1> QED
  BY <1>1, <1>2, InitIInv, PTL DEF Spec

-----------------------------------------------------------------------------
(* Sequences that are put together by a fold.                              *)

(***************************************************************************)
(* The values that mtcond collects for the first TWISSes.                  *)
(***************************************************************************)
Concatenated(list) == FoldLeft(LAMBDA acc, sequ : acc \o Collected(sequ), <<>>, list)

LEMMA ConcatenatedSteps ==
  ASSUME NEW X, NEW list \in Seq(X), NEW V, \A x \in X : Collected(x) \in Seq(V)
  PROVE  \E h : /\ h[0] = <<>> /\ h[Len(list)] = Concatenated(list)
                /\ \A k \in 0 .. Len(list) - 1 : h[k + 1] = h[k] \o Collected(list[k + 1])
<1> DEFINE n == Len(list)
           S == 1 .. n
           W == Seq(V)
           op == [i \in S |-> [acc \in W |-> acc \o Collected(list[i])]]
           Body(g) == [T \in SUBSET S |-> IF T = {} THEN <<>>
                        ELSE g[T \ {Max(T)}] \o Collected(list[Max(T)])]
           c == CHOOSE g : g = Body(g)
<1>1. n \in Nat /\ DOMAIN list = S /\ \A i \in S : list[i] \in X
  OBVIOUS
<1>2. op \in [S -> [W -> W]]
  <2>1. \A i \in S, acc \in W : acc \o Collected(list[i]) \in W
    BY <1>1, ConcatProperties
  <2> HIDE DEF W, S
  <2> QED
    BY <2>1
<1>b. PICK f : GoesThrough(f, n, W, <<>>, op)
  <2>1. <<>> \in W
    BY EmptySeq
  <2> HIDE DEF W, op, n
  <2>2. n \in Nat /\ <<>> \in W /\ op \in [1 .. n -> [W -> W]]
    BY <1>1, <1>2, <2>1
  <2> QED
    BY ONLY <2>2, FoldOfPlaces
<1>3. /\ f \in [SUBSET S -> W]
      /\ \A T \in SUBSET S : f[T] = IF T = {} THEN <<>> ELSE op[Max(T)][f[T \ {Max(T)}]]
  <2> HIDE DEF W, op, n
  <2> QED
    BY <1>b DEF GoesThrough
<1>4. f = Body(f)
  <2>1. ASSUME NEW T \in SUBSET S
        PROVE  f[T] = IF T = {} THEN <<>> ELSE f[T \ {Max(T)}] \o Collected(list[Max(T)])
    <3>1. ASSUME T # {}
          PROVE  op[Max(T)][f[T \ {Max(T)}]] = f[T \ {Max(T)}] \o Collected(list[Max(T)])
      <4>1. Max(T) \in S /\ T \ {Max(T)} \in SUBSET S
        BY <1>1, <3>1, GreatestPlace
      <4>2. f[T \ {Max(T)}] \in W
        <5> HIDE DEF W, S
        <5> QED
          BY <1>3, <4>1
      <4> HIDE DEF W, S
      <4> QED
        BY <4>1, <4>2
    <3> HIDE DEF W, S, op
    <3> QED
      BY <1>3, <3>1
  <2>2. f = [T \in SUBSET S |-> f[T]]
    BY <1>3
  <2> HIDE DEF S, W
  <2> QED
    BY <2>1, <2>2
<1>5. c = Body(c)
  <2> HIDE DEF Body
  <2> QED
    BY <1>4
<1>6. Concatenated(list) = c[S]
  BY <1>1 DEF Concatenated, FoldLeft, MapThenFoldSet
<1> HIDE DEF c
<1>7. \A T \in SUBSET S : c[T] = IF T = {} THEN <<>>
                                 ELSE c[T \ {Max(T)}] \o Collected(list[Max(T)])
  BY <1>5
<1> DEFINE h == [k \in 0 .. n |-> c[1 .. k]]
<1>8. h[0] = <<>>
  <2>1. 1 .. 0 = {} /\ {} \in SUBSET S /\ 0 \in 0 .. n
    BY <1>1
  <2>2. h[0] = c[{}]
    BY <2>1
  <2> QED
    BY <1>7, <2>1, <2>2
<1>9. ASSUME NEW k \in 0 .. n - 1
      PROVE  h[k + 1] = h[k] \o Collected(list[k + 1])
  <2>1. /\ 1 .. k + 1 \in SUBSET S /\ 1 .. k + 1 # {}
        /\ Max(1 .. k + 1) = k + 1 /\ (1 .. k + 1) \ {k + 1} = 1 .. k
    <3> HIDE DEF n
    <3> QED
      BY <1>1, FirstPlaces
  <2>2. h[k + 1] = c[1 .. k + 1] /\ h[k] = c[1 .. k]
    BY <1>1
  <2> HIDE DEF h, S
  <2> QED
    BY <1>7, <2>1, <2>2
<1>10. h[n] = Concatenated(list)
  BY <1>1, <1>6
<1> HIDE DEF h
<1> QED
  BY <1>8, <1>9, <1>10

(***************************************************************************)
(* One macro of mtcond.                                                    *)
(***************************************************************************)
Step(failed, acc, i) ==
  IF acc.stab THEN acc
  ELSE IF i \notin failed
  THEN [acc EXCEPT !.at = Over(@, acc.k, Evaluated(i)), !.k = @ + Len(Evaluated(i)), !.errors = 0]
  ELSE IF acc.errors >= Fails THEN [acc EXCEPT !.errors = Fails + 1, !.stab = TRUE]
  ELSE [acc EXCEPT !.errors = @ + 1, !.at = Over(@, 0, AllMax(fun_vect.size))]

Begun == [at |-> <<>>, k |-> 0, errors |-> nconserrs, stab |-> FALSE]

LEMMA ConditionsSteps ==
  ASSUME Len(match2.macros) \in Nat, NEW failed, NEW W, Begun \in W,
         \A acc \in W, i \in 1 .. Len(match2.macros) : Step(failed, acc, i) \in W
  PROVE  \E h : /\ h[0] = Begun /\ h[Len(match2.macros)] = Conditions(failed)
                /\ \A k \in 0 .. Len(match2.macros) - 1 : h[k + 1] = Step(failed, h[k], k + 1)
<1> DEFINE n == Len(match2.macros)
           S == 1 .. n
           op == [i \in S |-> [acc \in W |-> Step(failed, acc, i)]]
           Body(g) == [T \in SUBSET S |-> IF T = {} THEN Begun
                        ELSE Step(failed, g[T \ {Max(T)}], Max(T))]
           c == CHOOSE g : g = Body(g)
           places == [i \in S |-> i]
           Fold == CHOOSE g : g = [T \in SUBSET S |-> IF T = {} THEN Begun
                        ELSE Step(failed, g[T \ {Max(T)}], places[Max(T)])]
<1>1. n \in Nat
  OBVIOUS
<1>2. op \in [S -> [W -> W]]
  <2> HIDE DEF n
  <2> QED
    BY DEF n
<1>b. PICK f : GoesThrough(f, n, W, Begun, op)
  <2> HIDE DEF op, n
  <2>1. n \in Nat /\ Begun \in W /\ op \in [1 .. n -> [W -> W]]
    BY <1>1, <1>2
  <2> QED
    BY ONLY <2>1, FoldOfPlaces
<1>3. /\ f \in [SUBSET S -> W]
      /\ \A T \in SUBSET S : f[T] = IF T = {} THEN Begun ELSE op[Max(T)][f[T \ {Max(T)}]]
  <2> HIDE DEF op, n
  <2> QED
    BY <1>b DEF GoesThrough
<1>a. \A T \in SUBSET S : T # {} => Max(T) \in S /\ T \ {Max(T)} \in SUBSET S
  <2> HIDE DEF n
  <2> QED
    BY <1>1, GreatestPlace
<1>4. f = [T \in SUBSET S |-> IF T = {} THEN Begun
                        ELSE Step(failed, f[T \ {Max(T)}], places[Max(T)])]
  <2>1. ASSUME NEW T \in SUBSET S
        PROVE  f[T] = IF T = {} THEN Begun ELSE Step(failed, f[T \ {Max(T)}], places[Max(T)])
    <3>1. ASSUME T # {}
          PROVE  op[Max(T)][f[T \ {Max(T)}]] = Step(failed, f[T \ {Max(T)}], places[Max(T)])
      <4>1. Max(T) \in S /\ T \ {Max(T)} \in SUBSET S
        BY <1>a, <3>1
      <4>2. f[T \ {Max(T)}] \in W /\ places[Max(T)] = Max(T)
        <5>1. places[Max(T)] = Max(T)
          BY <4>1
        <5> HIDE DEF S, places
        <5> QED
          BY <1>3, <4>1, <5>1
      <4> HIDE DEF S, places
      <4> QED
        BY <4>1, <4>2
    <3> HIDE DEF S, op, places
    <3> QED
      BY <1>3, <3>1
  <2>2. f = [T \in SUBSET S |-> f[T]]
    BY <1>3
  <2> HIDE DEF S, places
  <2> QED
    BY <2>1, <2>2
<1>5. Fold = [T \in SUBSET S |-> IF T = {} THEN Begun
                        ELSE Step(failed, Fold[T \ {Max(T)}], places[Max(T)])]
  <2> HIDE DEF S, places
  <2> QED
    BY <1>4
<1>6. Conditions(failed) = Fold[S]
  <2>1. DOMAIN places = S
    OBVIOUS
  <2> QED
    BY <2>1 DEF Conditions, FoldLeft, MapThenFoldSet, Step, Begun
<1> HIDE DEF Fold
<1>7. \A T \in SUBSET S : Fold[T] = IF T = {} THEN Begun
                                 ELSE Step(failed, Fold[T \ {Max(T)}], Max(T))
  <2>1. \A T \in SUBSET S : T # {} => places[Max(T)] = Max(T)
    BY <1>a
  <2> HIDE DEF S, places
  <2> QED
    BY <1>5, <2>1
<1> DEFINE h == [k \in 0 .. n |-> Fold[1 .. k]]
<1>8. h[0] = Begun
  <2>1. 1 .. 0 = {} /\ {} \in SUBSET S /\ 0 \in 0 .. n
    BY <1>1
  <2>2. h[0] = Fold[{}]
    BY <2>1
  <2> QED
    BY <1>7, <2>1, <2>2
<1>9. ASSUME NEW k \in 0 .. n - 1
      PROVE  h[k + 1] = Step(failed, h[k], k + 1)
  <2>1. /\ 1 .. k + 1 \in SUBSET S /\ 1 .. k + 1 # {}
        /\ Max(1 .. k + 1) = k + 1 /\ (1 .. k + 1) \ {k + 1} = 1 .. k
    <3> HIDE DEF n
    <3> QED
      BY <1>1, FirstPlaces
  <2>2. h[k + 1] = Fold[1 .. k + 1] /\ h[k] = Fold[1 .. k]
    <3> HIDE DEF n
    <3> QED
      BY <1>1
  <2> HIDE DEF h, S
  <2> QED
    BY <1>7, <2>1, <2>2
<1>10. h[n] = Conditions(failed)
  <2> HIDE DEF n
  <2>1. n \in 0 .. n
    BY <1>1
  <2> QED
    BY <1>6, <2>1
<1> HIDE DEF h
<1> QED
  BY <1>8, <1>9, <1>10

LEMMA SetToSeqIs ==
  ASSUME NEW T, IsFiniteSet(T)
  PROVE  SetToSeq(T) \in Seq(T) /\ Len(SetToSeq(T)) = Cardinality(T)
<1>1. Cardinality(T) \in Nat /\ ExistsBijection(1 .. Cardinality(T), T)
  BY FS_CardinalityType
<1>2. PICK n \in Nat : n = Cardinality(T)
  BY <1>1
<1>3. \E f \in [1 .. n -> T] : IsInjective(f)
  BY <1>1, <1>2 DEF ExistsBijection, Bijection, Injection, Surjection, IsInjective
<1>4. SetToSeq(T) = CHOOSE f \in [1 .. n -> T] : IsInjective(f)
  BY <1>2 DEF SetToSeq
<1>5. SetToSeq(T) \in [1 .. n -> T]
  BY <1>3, <1>4
<1> QED
  BY <1>2, <1>5

Tagged(a, b, T) == {<<a, b, x>> : x \in T}

LEMMA TaggedSize ==
  ASSUME NEW T, IsFiniteSet(T), NEW a, NEW b
  PROVE  IsFiniteSet(Tagged(a, b, T)) /\ Cardinality(Tagged(a, b, T)) = Cardinality(T)
<1> DEFINE U == Tagged(a, b, T)
           f == [x \in T |-> <<a, b, x>>]
<1>1. f \in [T -> U] /\ \A x \in T : f[x] = <<a, b, x>>
  BY DEF Tagged
<1>a. \A x, y \in T : f[x] = f[y] => x = y
  BY <1>1
<1>b. \A u \in U : \E x \in T : f[x] = u
  BY <1>1 DEF Tagged
<1>c. f \in Bijection(T, U)
  <2> HIDE DEF f, U
  <2> QED
    BY <1>1, <1>a, <1>b DEF Bijection, Injection, Surjection, IsInjective
<1>2. ExistsBijection(T, U)
  BY <1>c DEF ExistsBijection
<1> HIDE DEF U
<1>3. IsFiniteSet(U) /\ Cardinality(U) = Cardinality(T)
  BY <1>2, FS_Bijection
<1> QED
  BY <1>3 DEF U

(***************************************************************************)
(* The constraints of a sequence, and the size of a job.                   *)
(***************************************************************************)
Finite(sequ) ==
  /\ IsFiniteSet(node_cl[sequ]) /\ IsFiniteSet(sequ_cl[sequ])
  /\ node_cl[sequ] # {} => option.match_local

Load(sequ) == Cardinality(node_cl[sequ]) + Cardinality(sequ_cl[sequ])

Items(sequ) ==
  Tagged(sequ, "node", node_cl[sequ]) \union Tagged(sequ, "all", sequ_cl[sequ])

LEMMA CollectedIs ==
  ASSUME NEW sequ, Finite(sequ)
  PROVE  /\ Collected(sequ) \in Seq(Items(sequ))
         /\ Load(sequ) \in Nat /\ Len(Collected(sequ)) = Load(sequ)
<1> DEFINE N == Tagged(sequ, "node", node_cl[sequ])
           A == Tagged(sequ, "all", sequ_cl[sequ])
<1>1. /\ IsFiniteSet(N) /\ Cardinality(N) = Cardinality(node_cl[sequ])
      /\ IsFiniteSet(A) /\ Cardinality(A) = Cardinality(sequ_cl[sequ])
  BY TaggedSize DEF Finite
<1>2. Cardinality(N) \in Nat /\ Cardinality(A) \in Nat
  <2> HIDE DEF N, A
  <2> QED
    BY <1>1, FS_CardinalityType
<1>3. Collected(sequ) = SetToSeq(N) \o SetToSeq(A)
  <2>1. PICK on : on = IF option.match_local THEN node_cl[sequ] ELSE {}
    OBVIOUS
  <2>2. on = node_cl[sequ]
    BY <2>1 DEF Finite
  <2>3. Collected(sequ) = SetToSeq({<<sequ, "node", x>> : x \in on}) \o SetToSeq(A)
    BY <2>1 DEF Collected, Tagged
  <2> QED
    BY <2>2, <2>3 DEF Tagged
<1>4. Items(sequ) = N \union A
  BY DEF Items
<1> HIDE DEF N, A
<1>5. /\ SetToSeq(N) \in Seq(N) /\ Len(SetToSeq(N)) = Cardinality(N)
      /\ SetToSeq(A) \in Seq(A) /\ Len(SetToSeq(A)) = Cardinality(A)
  BY <1>1, SetToSeqIs
<1>6. PICK s, t, U : s = SetToSeq(N) /\ t = SetToSeq(A) /\ U = N \union A
  OBVIOUS
<1>7. s \in Seq(U) /\ t \in Seq(U)
  BY <1>5, <1>6, SeqMonotonic
<1>8. s \o t \in Seq(U) /\ Len(s \o t) = Len(s) + Len(t)
  BY <1>7, ConcatProperties
<1>9. Len(s \o t) = Cardinality(N) + Cardinality(A)
  BY <1>5, <1>6, <1>8
<1> QED
  BY <1>1, <1>2, <1>3, <1>4, <1>6, <1>8, <1>9 DEF Load

LEMMA ConcatenatedLength ==
  ASSUME NEW n \in Nat, NEW list, DOMAIN list = 1 .. n, list \in Seq(Range(list)),
         \A i \in 1 .. n : Finite(list[i]), NEW f, \A i \in 1 .. n : f[i] = Load(list[i])
  PROVE  Len(Concatenated(list)) = SumOver(f, 1 .. n)
<1> DEFINE X == Range(list)
           V == UNION {Items(x) : x \in X}
<1>1. \A x \in X : Finite(x)
  BY DEF Range
<1>2. \A x \in X : Collected(x) \in Seq(V)
  <2> SUFFICES ASSUME NEW x \in X
               PROVE  Collected(x) \in Seq(V)
    OBVIOUS
  <2>1. Items(x) \subseteq V
    OBVIOUS
  <2>2. Collected(x) \in Seq(Items(x))
    BY <1>1, CollectedIs
  <2> HIDE DEF V, X
  <2> QED
    BY <2>1, <2>2, SeqMonotonic
<1>3. Len(list) = n
  BY LenProperties
<1>4. PICK h : /\ h[0] = <<>> /\ h[Len(list)] = Concatenated(list)
               /\ \A k \in 0 .. Len(list) - 1 : h[k + 1] = h[k] \o Collected(list[k + 1])
  <2> HIDE DEF X, V
  <2>1. list \in Seq(X)
    BY DEF X
  <2> QED
    BY <1>2, <2>1, ConcatenatedSteps
<1>5. \A i \in 1 .. n : f[i] \in Int
  BY CollectedIs
<1>6. /\ SumOver(f, 1 .. 0) = 0
      /\ \A k \in 0 .. n - 1 : SumOver(f, 1 .. k + 1) = SumOver(f, 1 .. k) + f[k + 1]
  BY <1>5, SumFirst
<1> DEFINE T == {k \in Nat : k <= n => h[k] \in Seq(V) /\ Len(h[k]) = SumOver(f, 1 .. k)}
<1>7. 0 \in T
  BY <1>4, <1>6, EmptySeq
<1>8. ASSUME NEW k \in Nat, k \in T
      PROVE  k + 1 \in T
  <2> SUFFICES ASSUME k + 1 <= n
               PROVE  h[k + 1] \in Seq(V) /\ Len(h[k + 1]) = SumOver(f, 1 .. k + 1)
    OBVIOUS
  <2>1. k \in 0 .. n - 1 /\ k + 1 \in 1 .. n /\ h[k] \in Seq(V) /\ Len(h[k]) = SumOver(f, 1 .. k)
    BY <1>8
  <2>2. PICK a, b : a = h[k] /\ b = Collected(list[k + 1])
    OBVIOUS
  <2>3. a \in Seq(V) /\ b \in Seq(V) /\ h[k + 1] = a \o b /\ Len(b) = f[k + 1]
    <3>1. list[k + 1] \in X /\ Finite(list[k + 1])
      BY <2>1 DEF Range
    <3>2. b \in Seq(V)
      BY <1>2, <2>2, <3>1
    <3>3. Len(b) = f[k + 1]
      BY <2>1, <2>2, <3>1, CollectedIs
    <3> HIDE DEF V
    <3> QED
      BY <1>3, <1>4, <2>1, <2>2, <3>2, <3>3
  <2>4. a \o b \in Seq(V) /\ Len(a \o b) = Len(a) + Len(b)
    <3> HIDE DEF V
    <3> QED
      BY <2>3, ConcatProperties
  <2>5. Len(h[k + 1]) = SumOver(f, 1 .. k) + f[k + 1]
    BY <2>1, <2>2, <2>3, <2>4
  <2> HIDE DEF V, T
  <2> QED
    BY <1>6, <2>1, <2>3, <2>4, <2>5
<1>9. Nat \subseteq T
  <2> HIDE DEF T
  <2> QED
    BY <1>7, <1>8, SetInduction
<1>10. h[n] = Concatenated(list) /\ n \in T
  BY <1>3, <1>4, <1>9
<1>11. Len(h[n]) = SumOver(f, 1 .. n)
  BY <1>10
<1> QED
  BY <1>10, <1>11

-----------------------------------------------------------------------------
(* The constraints under macros, and the vector that mtcond fills.         *)

(***************************************************************************)
(* The places of a macro, of which the first c have a constraint; there    *)
(* may be one more, that a constraint without a right side has given back. *)
(***************************************************************************)
Hold(slots, c) ==
  /\ c \in Nat /\ Len(slots) \in {c, c + 1} /\ DOMAIN slots = 1 .. Len(slots)
  /\ \A j \in 1 .. c : slots[j].lhs /\ slots[j].name
  /\ Len(slots) = c + 1 => ~slots[c + 1].lhs /\ ~slots[c + 1].name

LEMMA LeastUnset ==
  ASSUME NEW T, NEW m \in Nat, T \subseteq Nat, m \in T, \A x \in T : m <= x
  PROVE  Min(T) = m
<1>1. \E x \in T : \A y \in T : x =< y
  OBVIOUS
<1>2. Min(T) \in T /\ \A y \in T : Min(T) =< y
  BY <1>1 DEF Min
<1>3. Min(T) \in Nat /\ Min(T) =< m /\ m <= Min(T)
  BY <1>2
<1> QED
  BY <1>3

Values(i, c) == [j \in 1 .. c |-> <<match2.macros[i].name, i, j>>]

LEMMA EvaluatedIs ==
  ASSUME NEW i, NEW c, Hold(match2.macros[i].slots, c)
  PROVE  Evaluated(i) = Values(i, c)
<1> DEFINE slots == match2.macros[i].slots
           unset == {j \in DOMAIN slots : ~slots[j].name}
           n == IF \E j \in DOMAIN slots : ~slots[j].name THEN Min(unset) - 1 ELSE Len(slots)
<1>1. n = c
  <2>1. CASE Len(slots) = c
    BY <2>1 DEF Hold
  <2>2. CASE Len(slots) = c + 1
    <3>1. c + 1 \in Nat /\ unset \subseteq Nat /\ c + 1 \in unset /\ \A x \in unset : c + 1 <= x
      BY <2>2 DEF Hold
    <3>2. Min(unset) = c + 1
      <4> HIDE DEF unset
      <4> QED
        BY <3>1, LeastUnset
    <3>3. \E j \in DOMAIN slots : ~slots[j].name
      BY <3>1
    <3> HIDE DEF unset
    <3> QED
      BY <3>2, <3>3 DEF Hold
  <2> QED
    BY <2>1, <2>2 DEF Hold
<1>2. Evaluated(i) = [j \in 1 .. n |-> <<match2.macros[i].name, i, j>>]
  BY DEF Evaluated
<1> HIDE DEF n
<1> QED
  BY <1>1, <1>2 DEF Values

LEMMA OverIs ==
  ASSUME NEW V, NEW old \in Seq(V), NEW k \in Nat, k <= Len(old), NEW values \in Seq(V)
  PROVE  /\ Over(old, k, values) \in Seq(V)
         /\ Len(Over(old, k, values))
              = IF Len(old) >= k + Len(values) THEN Len(old) ELSE k + Len(values)
<1>1. PICK a, b : a = Len(old) /\ b = k + Len(values)
  OBVIOUS
<1>2. a \in Nat /\ b \in Nat /\ k <= a /\ k <= b
  BY <1>1, LenProperties
<1>3. PICK m : m = Max({a, b})
  OBVIOUS
<1>4. m = (IF a >= b THEN a ELSE b) /\ m \in Nat
  BY <1>2, <1>3, MaxOfTwo
<1>5. Over(old, k, values) = [n \in 1 .. m |-> IF n > k /\ n <= b THEN values[n - k] ELSE old[n]]
  BY <1>1, <1>3 DEF Over
<1>6. ASSUME NEW n \in 1 .. m
      PROVE  (IF n > k /\ n <= b THEN values[n - k] ELSE old[n]) \in V
  <2>1. CASE n > k /\ n <= b
    <3>1. n - k \in 1 .. Len(values)
      BY <1>1, <1>4, <2>1
    <3> QED
      BY <2>1, <3>1, ElementOfSeq
  <2>2. CASE ~(n > k /\ n <= b)
    <3>1. n \in 1 .. Len(old)
      BY <1>1, <1>2, <1>4, <2>2
    <3> QED
      BY <2>2, <3>1, ElementOfSeq
  <2> QED
    BY <2>1, <2>2
<1>7. Over(old, k, values) \in [1 .. m -> V]
  BY <1>5, <1>6
<1>8. Over(old, k, values) \in Seq(V) /\ Len(Over(old, k, values)) = m
  BY <1>4, <1>7
<1> QED
  BY <1>1, <1>4, <1>8

(***************************************************************************)
(* The macros have as many constraints as counts says, and the vector has  *)
(* places for all of them.                                                 *)
(***************************************************************************)
Counts(counts) ==
  /\ Len(match2.macros) \in Nat /\ DOMAIN match2.macros = 1 .. Len(match2.macros)
  /\ \A i \in 1 .. Len(match2.macros) :
       match2.macros[i] = [name |-> match2.macros[i].name, slots |-> match2.macros[i].slots]
  /\ counts \in [1 .. Len(match2.macros) -> Nat]
  /\ \A i \in 1 .. Len(match2.macros) : Hold(match2.macros[i].slots, counts[i])

Value(counts) ==
  {Largest} \union
    {<<match2.macros[i].name, i, j>> : i \in 1 .. Len(match2.macros), j \in Nat}

Filling(counts) ==
  {acc \in [at : Seq(Value(counts)), k : Nat, errors : Nat, stab : BOOLEAN] :
     acc.k <= Len(acc.at)}

LEMMA StepIs ==
  ASSUME NEW failed, NEW i, NEW acc, ~acc.stab,
         acc = [at |-> acc.at, k |-> acc.k, errors |-> acc.errors, stab |-> acc.stab]
  PROVE  Step(failed, acc, i) =
           IF i \notin failed
           THEN [at |-> Over(acc.at, acc.k, Evaluated(i)), k |-> acc.k + Len(Evaluated(i)),
                 errors |-> 0, stab |-> acc.stab]
           ELSE IF acc.errors >= Fails
           THEN [at |-> acc.at, k |-> acc.k, errors |-> Fails + 1, stab |-> TRUE]
           ELSE [at |-> Over(acc.at, 0, AllMax(fun_vect.size)), k |-> acc.k,
                 errors |-> acc.errors + 1, stab |-> acc.stab]
<1>1. PICK at, k, errors, stab :
        at = acc.at /\ k = acc.k /\ errors = acc.errors /\ stab = acc.stab
  OBVIOUS
<1>a. acc = [at |-> at, k |-> k, errors |-> errors, stab |-> stab] /\ ~stab
  BY <1>1
<1>2. CASE i \notin failed
  <2>1. PICK a, b : a = Over(at, k, Evaluated(i)) /\ b = k + Len(Evaluated(i))
    OBVIOUS
  <2>2. Step(failed, acc, i) = [acc EXCEPT !.at = a, !.k = b, !.errors = 0]
    BY <1>1, <1>a, <1>2, <2>1 DEF Step
  <2>3. PICK u : u = [acc EXCEPT !.at = a]
    OBVIOUS
  <2>4. u = [at |-> a, k |-> k, errors |-> errors, stab |-> stab]
    BY <1>a, <2>3
  <2>5. PICK v : v = [u EXCEPT !.k = b]
    OBVIOUS
  <2>6. v = [at |-> a, k |-> b, errors |-> errors, stab |-> stab]
    BY <2>4, <2>5
  <2>7. Step(failed, acc, i) = [v EXCEPT !.errors = 0]
    BY <2>2, <2>3, <2>5
  <2>8. Step(failed, acc, i) = [at |-> a, k |-> b, errors |-> 0, stab |-> stab]
    BY <2>6, <2>7
  <2> QED
    BY <1>1, <1>2, <2>1, <2>8
<1>3. CASE i \in failed /\ errors >= Fails
  <2>1. PICK e, t : e = Fails + 1 /\ t = TRUE
    OBVIOUS
  <2>2. Step(failed, acc, i) = [acc EXCEPT !.errors = e, !.stab = t]
    BY <1>1, <1>a, <1>3, <2>1 DEF Step
  <2>3. PICK u : u = [acc EXCEPT !.errors = e]
    OBVIOUS
  <2>4. u = [at |-> at, k |-> k, errors |-> e, stab |-> stab]
    BY <1>a, <2>3
  <2>5. Step(failed, acc, i) = [u EXCEPT !.stab = t]
    BY <2>2, <2>3
  <2>6. Step(failed, acc, i) = [at |-> at, k |-> k, errors |-> e, stab |-> t]
    BY <2>4, <2>5
  <2> QED
    BY <1>1, <1>3, <2>1, <2>6
<1>4. CASE i \in failed /\ ~(errors >= Fails)
  <2>1. PICK e, a : e = errors + 1 /\ a = Over(at, 0, AllMax(fun_vect.size))
    OBVIOUS
  <2>2. Step(failed, acc, i) = [acc EXCEPT !.errors = e, !.at = a]
    BY <1>1, <1>a, <1>4, <2>1 DEF Step
  <2>3. PICK u : u = [acc EXCEPT !.errors = e]
    OBVIOUS
  <2>4. u = [at |-> at, k |-> k, errors |-> e, stab |-> stab]
    BY <1>a, <2>3
  <2>5. Step(failed, acc, i) = [u EXCEPT !.at = a]
    BY <2>2, <2>3
  <2>6. Step(failed, acc, i) = [at |-> a, k |-> k, errors |-> e, stab |-> stab]
    BY <2>4, <2>5
  <2> QED
    BY <1>1, <1>4, <2>1, <2>6
<1> QED
  BY <1>2, <1>3, <1>4

LEMMA ValuesIn ==
  ASSUME NEW counts, Counts(counts), NEW i \in 1 .. Len(match2.macros)
  PROVE  /\ Evaluated(i) = Values(i, counts[i]) /\ counts[i] \in Nat
         /\ Evaluated(i) \in Seq(Value(counts)) /\ Len(Evaluated(i)) = counts[i]
<1>1. counts[i] \in Nat /\ Hold(match2.macros[i].slots, counts[i])
  BY DEF Counts
<1>2. Evaluated(i) = Values(i, counts[i])
  BY <1>1, EvaluatedIs
<1>3. Values(i, counts[i]) \in [1 .. counts[i] -> Value(counts)]
  BY <1>1 DEF Values, Value
<1>4. PICK v, c, V : v = Values(i, counts[i]) /\ c = counts[i] /\ V = Value(counts)
  OBVIOUS
<1>5. v \in Seq(V) /\ Len(v) = c
  BY <1>1, <1>3, <1>4
<1> QED
  BY <1>1, <1>2, <1>4, <1>5

LEMMA StepFills ==
  ASSUME NEW counts, Counts(counts), fun_vect.size \in Nat, NEW failed,
         NEW acc \in Filling(counts), NEW i \in 1 .. Len(match2.macros),
         NEW new, new = Step(failed, acc, i)
  PROVE  /\ new \in Filling(counts)
         /\ acc.stab => new.stab
         /\ ~acc.stab /\ ~new.stab =>
              \/ /\ new.k = acc.k + counts[i]
                 /\ Len(new.at) = IF Len(acc.at) >= new.k THEN Len(acc.at) ELSE new.k
              \/ /\ new.k = acc.k
                 /\ Len(new.at) = IF Len(acc.at) >= fun_vect.size THEN Len(acc.at)
                                  ELSE fun_vect.size
<1> DEFINE V == Value(counts)
<1>1. PICK at, k, errors, stab :
        at = acc.at /\ k = acc.k /\ errors = acc.errors /\ stab = acc.stab
  OBVIOUS
<1>2. /\ at \in Seq(V) /\ k \in Nat /\ k <= Len(at) /\ errors \in Nat /\ stab \in BOOLEAN
      /\ acc = [at |-> at, k |-> k, errors |-> errors, stab |-> stab]
  BY <1>1 DEF Filling
<1>3. CASE stab
  BY <1>1, <1>3 DEF Step
<1>4. CASE ~stab
  <2>1. Step(failed, acc, i) =
           IF i \notin failed
           THEN [at |-> Over(at, k, Evaluated(i)), k |-> k + Len(Evaluated(i)), errors |-> 0,
                 stab |-> stab]
           ELSE IF errors >= Fails
           THEN [at |-> at, k |-> k, errors |-> Fails + 1, stab |-> TRUE]
           ELSE [at |-> Over(at, 0, AllMax(fun_vect.size)), k |-> k, errors |-> errors + 1,
                 stab |-> stab]
    <3>1. acc = [at |-> acc.at, k |-> acc.k, errors |-> acc.errors, stab |-> acc.stab] /\ ~acc.stab
      BY <1>1, <1>2, <1>4
    <3>2. Step(failed, acc, i) =
           IF i \notin failed
           THEN [at |-> Over(acc.at, acc.k, Evaluated(i)), k |-> acc.k + Len(Evaluated(i)),
                 errors |-> 0, stab |-> acc.stab]
           ELSE IF acc.errors >= Fails
           THEN [at |-> acc.at, k |-> acc.k, errors |-> Fails + 1, stab |-> TRUE]
           ELSE [at |-> Over(acc.at, 0, AllMax(fun_vect.size)), k |-> acc.k,
                 errors |-> acc.errors + 1, stab |-> acc.stab]
      BY ONLY <3>1, StepIs
    <3> QED
      BY <1>1, <3>2
  <2>2. ASSUME NEW values \in Seq(V), NEW from \in Nat, from <= Len(at), NEW c \in Nat,
               Len(values) = c
        PROVE  /\ Over(at, from, values) \in Seq(V)
               /\ Len(Over(at, from, values)) = IF Len(at) >= from + c THEN Len(at) ELSE from + c
    BY <1>2, <2>2, OverIs
  <2>3. ASSUME NEW b \in Seq(V), NEW m \in Nat, NEW e \in Nat, NEW s \in BOOLEAN, m <= Len(b),
               new = [at |-> b, k |-> m, errors |-> e, stab |-> s]
        PROVE  new \in Filling(counts) /\ new.k = m /\ new.at = b /\ new.stab = s
    <3> HIDE DEF V
    <3>1. new \in [at : Seq(V), k : Nat, errors : Nat, stab : BOOLEAN]
      BY <2>3
    <3>2. new.k = m /\ new.at = b /\ new.stab = s
      BY <2>3
    <3> QED
      BY <2>3, <3>1, <3>2 DEF Filling, V
  <2>4. CASE i \notin failed
    <3>1. /\ counts[i] \in Nat /\ Evaluated(i) \in Seq(V) /\ Len(Evaluated(i)) = counts[i]
      BY ValuesIn
    <3>2. PICK b, c, v : b = Over(at, k, Evaluated(i)) /\ c = counts[i] /\ v = Evaluated(i)
      OBVIOUS
    <3> HIDE DEF V
    <3>3. b \in Seq(V) /\ Len(b) = IF Len(at) >= k + c THEN Len(at) ELSE k + c
      BY <1>2, <2>2, <3>1, <3>2
    <3>4. new = [at |-> b, k |-> k + c, errors |-> 0, stab |-> stab]
      BY <2>1, <2>4, <3>1, <3>2
    <3>5. k + c \in Nat /\ 0 \in Nat /\ k + c <= Len(b)
      BY <1>2, <3>1, <3>2, <3>3, LenProperties
    <3>6. new \in Filling(counts) /\ new.k = k + c /\ new.at = b
      BY <1>2, <2>3, <3>3, <3>4, <3>5
    <3> QED
      BY <1>1, <1>4, <3>2, <3>3, <3>6
  <2>5. CASE i \in failed /\ errors >= Fails
    <3>1. Fails + 1 \in Nat
      BY MatchingAssumption
    <3>2. new = [at |-> at, k |-> k, errors |-> Fails + 1, stab |-> TRUE]
      BY <2>1, <2>5
    <3> HIDE DEF V
    <3>3. new \in Filling(counts) /\ new.stab = TRUE
      BY <1>2, <2>3, <3>1, <3>2
    <3> QED
      BY <3>3
  <2>6. CASE i \in failed /\ ~(errors >= Fails)
    <3>1. PICK b, c, v : b = Over(at, 0, AllMax(fun_vect.size)) /\ c = fun_vect.size
                         /\ v = AllMax(fun_vect.size)
      OBVIOUS
    <3>2. v \in Seq(V) /\ Len(v) = c
      <4>1. v \in [1 .. c -> V]
        BY <3>1 DEF AllMax, Fill, Value
      <4> HIDE DEF V
      <4> QED
        BY <3>1, <4>1
    <3> HIDE DEF V
    <3>3. 0 \in Nat /\ 0 <= Len(at) /\ Len(at) \in Nat /\ c \in Nat /\ 0 + c = c
      BY <1>2, <3>1, LenProperties
    <3>4. b \in Seq(V) /\ Len(b) = IF Len(at) >= c THEN Len(at) ELSE c
      <4>1. b = Over(at, 0, v)
        BY <3>1
      <4>2. /\ Over(at, 0, v) \in Seq(V)
            /\ Len(Over(at, 0, v)) = IF Len(at) >= 0 + c THEN Len(at) ELSE 0 + c
        BY <2>2, <3>2, <3>3
      <4> QED
        BY <3>3, <4>1, <4>2
    <3>5. new = [at |-> b, k |-> k, errors |-> errors + 1, stab |-> stab]
      BY <2>1, <2>6, <3>1
    <3>6. k <= Len(b) /\ errors + 1 \in Nat
      BY <1>2, <3>3, <3>4
    <3>7. new \in Filling(counts) /\ new.k = k /\ new.at = b
      BY <1>2, <2>3, <3>4, <3>5, <3>6
    <3> QED
      BY <1>1, <1>4, <3>1, <3>4, <3>7
  <2> QED
    BY <2>4, <2>5, <2>6
<1> QED
  BY <1>2, <1>3, <1>4

(***************************************************************************)
(* A vector for which no macro fails too often has a value in each place.  *)
(***************************************************************************)
LEMMA ConditionsFill ==
  ASSUME NEW counts, Counts(counts), fun_vect.size = SumOver(counts, 1 .. Len(match2.macros)),
         nconserrs \in Nat, NEW failed, NEW end, end = Conditions(failed)
  PROVE  end \in Filling(counts) /\ (~end.stab => Len(end.at) = fun_vect.size)
<1>1. PICK n, size : n = Len(match2.macros) /\ size = fun_vect.size
  OBVIOUS
<1>2. n \in Nat /\ \A i \in 1 .. n : counts[i] \in Nat
  BY <1>1 DEF Counts
<1>3. /\ Summable(counts, 1 .. n) /\ SumOver(counts, 1 .. 0) = 0
      /\ \A k \in 0 .. n : SumOver(counts, 1 .. k) \in Int
      /\ \A k \in 0 .. n - 1 : SumOver(counts, 1 .. k + 1) = SumOver(counts, 1 .. k) + counts[k + 1]
  <2>1. \A i \in 1 .. n : counts[i] \in Int
    BY <1>2
  <2> QED
    BY <1>2, <2>1, SumFirst
<1>4. \A k \in 0 .. n : SumOver(counts, 1 .. k) <= SumOver(counts, 1 .. n)
  <2> SUFFICES ASSUME NEW k \in 0 .. n
               PROVE  SumOver(counts, 1 .. k) <= SumOver(counts, 1 .. n)
    OBVIOUS
  <2>1. 1 .. k \in SUBSET (1 .. n) /\ \A i \in 1 .. n : counts[i] >= 0
    BY <1>2
  <2> QED
    BY <1>3, <2>1, SumGrows
<1>5. size = SumOver(counts, 1 .. n) /\ size \in Nat
  <2>1. size = SumOver(counts, 1 .. n)
    BY <1>1
  <2>2. 0 \in 0 .. n /\ n \in 0 .. n
    BY <1>2
  <2>3. SumOver(counts, 1 .. 0) <= SumOver(counts, 1 .. n) /\ SumOver(counts, 1 .. n) \in Int
    BY <1>3, <1>4, <2>2
  <2> QED
    BY <1>3, <2>1, <2>3
<1>6. Begun \in Filling(counts)
  <2>1. <<>> \in Seq(Value(counts)) /\ Len(<<>>) = 0
    BY EmptySeq
  <2> QED
    BY <2>1 DEF Begun, Filling
<1>7. \A acc \in Filling(counts), i \in 1 .. n : Step(failed, acc, i) \in Filling(counts)
  <2> SUFFICES ASSUME NEW acc \in Filling(counts), NEW i \in 1 .. n
               PROVE  Step(failed, acc, i) \in Filling(counts)
    OBVIOUS
  <2>1. PICK new : new = Step(failed, acc, i)
    OBVIOUS
  <2>2. fun_vect.size \in Nat /\ i \in 1 .. Len(match2.macros)
    BY <1>1, <1>5
  <2>3. new \in Filling(counts)
    BY <2>1, <2>2, StepFills
  <2> QED
    BY <2>1, <2>3
<1>8. PICK h : /\ h[0] = Begun /\ h[n] = Conditions(failed)
               /\ \A k \in 0 .. n - 1 : h[k + 1] = Step(failed, h[k], k + 1)
  BY <1>1, <1>2, <1>6, <1>7, ConditionsSteps
<1> DEFINE Filled1(k, acc) ==
             \/ acc.stab
             \/ /\ acc.k <= SumOver(counts, 1 .. k)
                /\ \/ Len(acc.at) = acc.k /\ acc.k = SumOver(counts, 1 .. k)
                   \/ Len(acc.at) = size
           T == {k \in Nat : k <= n => h[k] \in Filling(counts) /\ Filled1(k, h[k])}
<1>9. 0 \in T
  <2>1. Len(<<>>) = 0 /\ Begun.at = <<>> /\ Begun.k = 0
    BY EmptySeq DEF Begun
  <2>2. Filled1(0, Begun)
    BY <1>3, <2>1
  <2> HIDE DEF Filled1
  <2> QED
    BY <1>6, <1>8, <2>2
<1>10. ASSUME NEW k \in Nat, k \in T
       PROVE  k + 1 \in T
  <2> SUFFICES ASSUME k + 1 <= n
               PROVE  h[k + 1] \in Filling(counts) /\ Filled1(k + 1, h[k + 1])
    OBVIOUS
  <2>1. PICK acc, new : acc = h[k] /\ new = h[k + 1]
    OBVIOUS
  <2>2. /\ k \in 0 .. n - 1 /\ k + 1 \in 0 .. n /\ k \in 0 .. n /\ k + 1 \in 1 .. n
        /\ acc \in Filling(counts) /\ Filled1(k, acc)
    BY <1>2, <1>10, <2>1
  <2>3. new = Step(failed, acc, k + 1)
    BY <1>8, <2>1, <2>2
  <2>4. PICK a, b, c : /\ a = SumOver(counts, 1 .. k) /\ b = SumOver(counts, 1 .. k + 1)
                       /\ c = counts[k + 1]
    OBVIOUS
  <2>5. a \in Int /\ b \in Int /\ c \in Nat /\ b = a + c /\ b <= size
    BY <1>2, <1>3, <1>4, <1>5, <2>2, <2>4
  <2>6. /\ new \in Filling(counts)
        /\ acc.stab => new.stab
        /\ ~acc.stab /\ ~new.stab =>
             \/ /\ new.k = acc.k + c
                /\ Len(new.at) = IF Len(acc.at) >= new.k THEN Len(acc.at) ELSE new.k
             \/ /\ new.k = acc.k
                /\ Len(new.at) = IF Len(acc.at) >= size THEN Len(acc.at) ELSE size
    <3>1. fun_vect.size \in Nat /\ k + 1 \in 1 .. Len(match2.macros)
      BY <1>1, <1>5, <2>2
    <3>2. PICK i : i = k + 1
      OBVIOUS
    <3>3. i \in 1 .. Len(match2.macros) /\ new = Step(failed, acc, i) /\ acc \in Filling(counts)
      BY <2>2, <2>3, <3>1, <3>2
    <3>4. /\ new \in Filling(counts)
          /\ acc.stab => new.stab
          /\ ~acc.stab /\ ~new.stab =>
               \/ /\ new.k = acc.k + counts[i]
                  /\ Len(new.at) = IF Len(acc.at) >= new.k THEN Len(acc.at) ELSE new.k
               \/ /\ new.k = acc.k
                  /\ Len(new.at) = IF Len(acc.at) >= fun_vect.size THEN Len(acc.at)
                                   ELSE fun_vect.size
      BY <3>1, <3>3, StepFills
    <3> QED
      BY <1>1, <2>4, <3>2, <3>4
  <2>7. /\ acc.k \in Nat /\ new.k \in Nat /\ Len(acc.at) \in Nat /\ acc.k <= Len(acc.at)
        /\ new.k <= Len(new.at) /\ Len(new.at) \in Nat
    <3>1. \A x \in Filling(counts) : x.at \in Seq(Value(counts)) /\ x.k \in Nat /\ x.k <= Len(x.at)
      BY DEF Filling
    <3> QED
      BY <2>2, <2>6, <3>1, LenProperties
  <2>8. \/ acc.stab
        \/ acc.k <= a /\ ((Len(acc.at) = acc.k /\ acc.k = a) \/ Len(acc.at) = size)
    BY <2>2, <2>4
  <2>9. \/ new.stab
        \/ new.k <= b /\ ((Len(new.at) = new.k /\ new.k = b) \/ Len(new.at) = size)
    <3>1. CASE acc.stab \/ new.stab
      <4>1. new.stab
        BY <2>6, <3>1
      <4> QED
        BY <4>1
    <3>2. CASE ~acc.stab /\ ~new.stab
      <4>1. CASE new.k = acc.k + c
                 /\ Len(new.at) = IF Len(acc.at) >= new.k THEN Len(acc.at) ELSE new.k
        BY <1>5, <2>5, <2>7, <2>8, <3>2, <4>1
      <4>2. CASE new.k = acc.k
                 /\ Len(new.at) = IF Len(acc.at) >= size THEN Len(acc.at) ELSE size
        BY <1>5, <2>5, <2>7, <2>8, <3>2, <4>2
      <4> QED
        BY <2>6, <3>2, <4>1, <4>2
    <3> QED
      BY <3>1, <3>2
  <2>10. Filled1(k + 1, new)
    BY <2>4, <2>9
  <2> HIDE DEF Filled1
  <2> QED
    BY <2>1, <2>6, <2>10
<1>11. n \in T
  <2> HIDE DEF T
  <2>1. Nat \subseteq T
    BY <1>9, <1>10, SetInduction
  <2> QED
    BY <1>2, <2>1
<1>12. end \in Filling(counts) /\ Filled1(n, end)
  BY <1>2, <1>8, <1>11
<1> QED
  BY <1>1, <1>5, <1>12

-----------------------------------------------------------------------------
(* What a command adds to the constraints is what it adds to their number. *)

(***************************************************************************)
(* Places and the sequences in them are as many, if none is named twice.   *)
(***************************************************************************)
LEMMA PlacesOf ==
  ASSUME NEW n \in Nat, NEW list, DOMAIN list = 1 .. n, IsInjective(list),
         NEW sequs \in SUBSET Range(list)
  PROVE  /\ IsFiniteSet({i \in 1 .. n : list[i] \in sequs})
         /\ Cardinality(sequs) = Cardinality({i \in 1 .. n : list[i] \in sequs})
<1> DEFINE P == {i \in 1 .. n : list[i] \in sequs}
           f == [i \in P |-> list[i]]
<1>1. IsFiniteSet(P)
  <2>1. IsFiniteSet(1 .. n) /\ P \in SUBSET (1 .. n)
    BY PlacesFinite
  <2> HIDE DEF P
  <2> QED
    BY <2>1, FS_Subset
<1>2. f \in [P -> sequs] /\ \A i \in P : f[i] = list[i]
  OBVIOUS
<1>3. \A i, j \in P : f[i] = f[j] => i = j
  BY <1>2 DEF IsInjective
<1>4. \A s \in sequs : \E i \in P : f[i] = s
  BY <1>2 DEF Range
<1>5. ExistsBijection(P, sequs)
  <2> HIDE DEF f, P
  <2>1. f \in Bijection(P, sequs)
    BY <1>2, <1>3, <1>4 DEF Bijection, Injection, Surjection, IsInjective
  <2> QED
    BY <2>1 DEF ExistsBijection
<1>6. Cardinality(sequs) = Cardinality(P)
  <2> HIDE DEF P
  <2> QED
    BY <1>1, <1>5, FS_Bijection
<1> QED
  BY <1>1, <1>6

(***************************************************************************)
(* The constraints of a match of sequences are those that were counted.    *)
(***************************************************************************)
Loads == [i \in 1 .. match_num_seqs |-> Load(match_sequs[i])]

SequencesCounted ==
  /\ match_num_seqs \in Nat /\ match_num_seqs <= MaxNames
  /\ DOMAIN match_sequs = 1 .. match_num_seqs /\ IsInjective(match_sequs)
  /\ local_twiss = [i \in 1 .. MaxNames |-> local_twiss[i]]
  /\ \A i \in 1 .. match_num_seqs :
       /\ match_sequs[i] \in Sequence /\ local_twiss[i] = match_sequs[i]
       /\ Finite(match_sequs[i])
  /\ total_const = SumOver(Loads, 1 .. match_num_seqs)

LEMMA UpdatedSize ==
  ASSUME NEW lists, NEW sequs, NEW q, NEW sequ \in Sequence, IsFiniteSet(lists[sequ])
  PROVE  /\ IsFiniteSet(Updated(lists, sequs, q)[sequ])
         /\ Cardinality(lists[sequ]) \in Nat
         /\ Cardinality(Updated(lists, sequs, q)[sequ]) =
              Cardinality(lists[sequ]) + IF sequ \in sequs /\ q \notin lists[sequ] THEN 1 ELSE 0
<1>1. Cardinality(lists[sequ]) \in Nat
  BY FS_CardinalityType
<1>2. CASE sequ \in sequs
  <2>1. Updated(lists, sequs, q)[sequ] = lists[sequ] \union {q}
    BY <1>2 DEF Updated
  <2>2. /\ IsFiniteSet(lists[sequ] \union {q})
        /\ Cardinality(lists[sequ] \union {q})
             = IF q \in lists[sequ] THEN Cardinality(lists[sequ]) ELSE Cardinality(lists[sequ]) + 1
    BY FS_AddElement
  <2> QED
    BY <1>1, <1>2, <2>1, <2>2
<1>3. CASE sequ \notin sequs
  <2>1. Updated(lists, sequs, q)[sequ] = lists[sequ]
    BY <1>3 DEF Updated
  <2> QED
    BY <1>1, <1>3, <2>1
<1> QED
  BY <1>2, <1>3

(***************************************************************************)
(* A constraint or a global one: lists is what it is put into, rest what   *)
(* it leaves as it is.                                                     *)
(***************************************************************************)
MoreIn(lists, X, q, f, g) ==
  \A i \in 1 .. match_num_seqs :
    /\ IsFiniteSet(lists[match_sequs[i]])
    /\ f[i] \in Int
    /\ g[i] = f[i] + IF match_sequs[i] \in X /\ q \notin lists[match_sequs[i]] THEN 1 ELSE 0

LEMMA MoreLoads ==
  ASSUME SequencesCounted, NEW lists, NEW X, NEW q, NEW f, NEW g, MoreIn(lists, X, q, f, g)
  PROVE  SumOver(g, 1 .. match_num_seqs)
           = SumOver(f, 1 .. match_num_seqs) + New(lists, Range(match_sequs) \intersect X, q)
<1> DEFINE n == match_num_seqs
           sequs == {sequ \in Range(match_sequs) \intersect X : q \notin lists[sequ]}
           A == {i \in 1 .. n : match_sequs[i] \in sequs}
<1>1. n \in Nat /\ DOMAIN match_sequs = 1 .. n /\ IsInjective(match_sequs)
  BY DEF SequencesCounted
<1>2. New(lists, Range(match_sequs) \intersect X, q) = Cardinality(sequs)
  BY DEF New
<1>3. \A i \in 1 .. n : match_sequs[i] \in sequs <=>
        match_sequs[i] \in X /\ q \notin lists[match_sequs[i]]
  BY <1>1 DEF Range
<1>4. sequs \in SUBSET Range(match_sequs)
  OBVIOUS
<1> HIDE DEF sequs
<1>5. Cardinality(sequs) = Cardinality(A)
  <2>1. PICK list, m : list = match_sequs /\ m = n
    OBVIOUS
  <2>2. /\ m \in Nat /\ DOMAIN list = 1 .. m /\ IsInjective(list)
        /\ sequs \in SUBSET Range(list)
    BY <1>1, <1>4, <2>1
  <2>3. Cardinality(sequs) = Cardinality({i \in 1 .. m : list[i] \in sequs})
    BY ONLY <2>2, PlacesOf
  <2> QED
    BY <2>1, <2>3
<1>6. Summable(f, 1 .. n)
  BY <1>1, PlacesFinite DEF Summable, MoreIn
<1>7. A \in SUBSET (1 .. n) /\ (\A i \in A : g[i] = f[i] + 1) /\ \A i \in (1 .. n) \ A : g[i] = f[i]
  <2>1. \A i \in 1 .. n : f[i] \in Int /\ g[i] = f[i] + IF match_sequs[i] \in sequs THEN 1 ELSE 0
    BY <1>3 DEF MoreIn
  <2> QED
    BY <2>1
<1> HIDE DEF A
<1>8. SumOver(g, 1 .. n) = SumOver(f, 1 .. n) + Cardinality(A)
  <2> DEFINE S == 1 .. n
  <2>1. /\ Summable(f, S) /\ A \in SUBSET S
        /\ \A x \in A : g[x] = f[x] + 1
        /\ \A x \in S \ A : g[x] = f[x]
    BY <1>6, <1>7
  <2> HIDE DEF S
  <2>2. SumOver(g, S) = SumOver(f, S) + Cardinality(A)
    BY ONLY <2>1, SumOneMore
  <2> QED
    BY <2>2 DEF S
<1> QED
  BY <1>2, <1>5, <1>8

LEMMA ConstrainCounts ==
  ASSUME SequencesCounted, NEW X, NEW q, NEW sequs, sequs = Range(match_sequs) \intersect X,
         node_cl' = Updated(node_cl, sequs, q), total_const' = total_const + New(node_cl, sequs, q),
         option.match_local \/ sequs # {} => option'.match_local,
         UNCHANGED <<match_sequs, local_twiss, match_num_seqs, sequ_cl>>
  PROVE  SequencesCounted'
<1> DEFINE n == match_num_seqs
<1>1. /\ n \in Nat /\ DOMAIN match_sequs = 1 .. n
      /\ \A i \in 1 .. n : match_sequs[i] \in Sequence /\ Finite(match_sequs[i])
      /\ total_const = SumOver(Loads, 1 .. n)
  BY DEF SequencesCounted
<1>2. \A i \in 1 .. n : match_sequs[i] \in sequs <=> match_sequs[i] \in X
  BY <1>1 DEF Range
<1>3. ASSUME NEW i \in 1 .. n
      PROVE  /\ IsFiniteSet(node_cl[match_sequs[i]]) /\ Loads[i] \in Int
             /\ Finite(match_sequs[i])'
             /\ Loads'[i] = Loads[i] + IF match_sequs[i] \in X /\ q \notin node_cl[match_sequs[i]]
                                       THEN 1 ELSE 0
  <2>1. PICK sequ : sequ = match_sequs[i]
    OBVIOUS
  <2>2. sequ \in Sequence /\ Finite(sequ) /\ (sequ \in sequs <=> sequ \in X)
    BY <1>1, <1>2, <2>1
  <2>3. /\ IsFiniteSet(node_cl[sequ]) /\ IsFiniteSet(sequ_cl[sequ])
        /\ Cardinality(sequ_cl[sequ]) \in Nat
    BY <2>2, FS_CardinalityType DEF Finite
  <2>4. /\ IsFiniteSet(node_cl'[sequ]) /\ Cardinality(node_cl[sequ]) \in Nat
        /\ Cardinality(node_cl'[sequ]) =
             Cardinality(node_cl[sequ]) + IF sequ \in sequs /\ q \notin node_cl[sequ] THEN 1 ELSE 0
    BY <2>2, <2>3, UpdatedSize
  <2>5. node_cl'[sequ] # {} => option'.match_local
    <3>1. node_cl'[sequ] # {} => node_cl[sequ] # {} \/ sequ \in sequs
      BY <2>2 DEF Updated
    <3> QED
      BY <2>2, <3>1 DEF Finite
  <2>6. Finite(match_sequs[i])'
    BY <2>1, <2>3, <2>4, <2>5 DEF Finite
  <2>7. Loads[i] = Cardinality(node_cl[sequ]) + Cardinality(sequ_cl[sequ])
    BY <2>1 DEF Loads, Load
  <2>8. Loads'[i] = Cardinality(node_cl'[sequ]) + Cardinality(sequ_cl[sequ])
    BY <2>1 DEF Loads, Load
  <2> QED
    BY <2>1, <2>2, <2>3, <2>4, <2>6, <2>7, <2>8
<1>4. PICK f, g : f = Loads /\ g = Loads'
  OBVIOUS
<1>5. \A i \in 1 .. n :
        /\ IsFiniteSet(node_cl[match_sequs[i]])
        /\ f[i] \in Int
        /\ g[i] = f[i] + IF match_sequs[i] \in X /\ q \notin node_cl[match_sequs[i]] THEN 1 ELSE 0
  BY <1>3, <1>4
<1>6. SumOver(g, 1 .. n) = SumOver(f, 1 .. n) + New(node_cl, Range(match_sequs) \intersect X, q)
  <2>1. MoreIn(node_cl, X, q, f, g)
    BY <1>5 DEF MoreIn
  <2> QED
    BY <2>1, MoreLoads
<1>7. total_const' = SumOver(Loads', 1 .. n)
  BY <1>1, <1>4, <1>6
<1> QED
  BY <1>3, <1>7 DEF SequencesCounted

LEMMA GlobalCounts ==
  ASSUME SequencesCounted, NEW X, NEW q, NEW sequs, sequs = Range(match_sequs) \intersect X,
         sequ_cl' = Updated(sequ_cl, sequs, q), total_const' = total_const + New(sequ_cl, sequs, q),
         UNCHANGED <<option, match_sequs, local_twiss, match_num_seqs, node_cl>>
  PROVE  SequencesCounted'
<1> DEFINE n == match_num_seqs
<1>1. /\ n \in Nat /\ DOMAIN match_sequs = 1 .. n
      /\ \A i \in 1 .. n : match_sequs[i] \in Sequence /\ Finite(match_sequs[i])
      /\ total_const = SumOver(Loads, 1 .. n)
  BY DEF SequencesCounted
<1>2. \A i \in 1 .. n : match_sequs[i] \in sequs <=> match_sequs[i] \in X
  BY <1>1 DEF Range
<1>3. ASSUME NEW i \in 1 .. n
      PROVE  /\ IsFiniteSet(sequ_cl[match_sequs[i]]) /\ Loads[i] \in Int
             /\ Finite(match_sequs[i])'
             /\ Loads'[i] = Loads[i] + IF match_sequs[i] \in X /\ q \notin sequ_cl[match_sequs[i]]
                                       THEN 1 ELSE 0
  <2>1. PICK sequ : sequ = match_sequs[i]
    OBVIOUS
  <2>2. sequ \in Sequence /\ Finite(sequ) /\ (sequ \in sequs <=> sequ \in X)
    BY <1>1, <1>2, <2>1
  <2>3. /\ IsFiniteSet(node_cl[sequ]) /\ IsFiniteSet(sequ_cl[sequ])
        /\ Cardinality(node_cl[sequ]) \in Nat
    BY <2>2, FS_CardinalityType DEF Finite
  <2>4. /\ IsFiniteSet(sequ_cl'[sequ]) /\ Cardinality(sequ_cl[sequ]) \in Nat
        /\ Cardinality(sequ_cl'[sequ]) =
             Cardinality(sequ_cl[sequ]) + IF sequ \in sequs /\ q \notin sequ_cl[sequ] THEN 1 ELSE 0
    BY <2>2, <2>3, UpdatedSize
  <2>5. Finite(match_sequs[i])'
    BY <2>1, <2>2, <2>3, <2>4 DEF Finite
  <2>6. Loads[i] = Cardinality(node_cl[sequ]) + Cardinality(sequ_cl[sequ])
    BY <2>1 DEF Loads, Load
  <2>7. Loads'[i] = Cardinality(node_cl[sequ]) + Cardinality(sequ_cl'[sequ])
    BY <2>1 DEF Loads, Load
  <2> QED
    BY <2>1, <2>2, <2>3, <2>4, <2>5, <2>6, <2>7
<1>4. PICK f, g : f = Loads /\ g = Loads'
  OBVIOUS
<1>5. \A i \in 1 .. n :
        /\ IsFiniteSet(sequ_cl[match_sequs[i]])
        /\ f[i] \in Int
        /\ g[i] = f[i] + IF match_sequs[i] \in X /\ q \notin sequ_cl[match_sequs[i]] THEN 1 ELSE 0
  BY <1>3, <1>4
<1>6. SumOver(g, 1 .. n) = SumOver(f, 1 .. n) + New(sequ_cl, Range(match_sequs) \intersect X, q)
  <2>1. MoreIn(sequ_cl, X, q, f, g)
    BY <1>5 DEF MoreIn
  <2> QED
    BY <2>1, MoreLoads
<1>7. total_const' = SumOver(Loads', 1 .. n)
  BY <1>1, <1>4, <1>6
<1> QED
  BY <1>3, <1>7 DEF SequencesCounted

(***************************************************************************)
(* A MATCH that names sequences begins with no constraint on them.         *)
(***************************************************************************)
LEMMA NoLoads ==
  ASSUME NEW list, NEW n \in Nat, n <= MaxNames, DOMAIN list = 1 .. n, IsInjective(list),
         \A i \in 1 .. n : list[i] \in Sequence,
         match_sequs' = list, match_num_seqs' = n, total_const' = 0,
         local_twiss' = [i \in 1 .. MaxNames |-> IF i <= n THEN list[i] ELSE local_twiss[i]],
         \A sequ \in Sequence : node_cl'[sequ] = {} /\ sequ_cl'[sequ] = {}
  PROVE  SequencesCounted'
<1>1. ASSUME NEW i \in 1 .. n
      PROVE  /\ Loads'[i] = 0 /\ Finite(match_sequs[i])'
             /\ match_sequs'[i] \in Sequence /\ local_twiss'[i] = match_sequs'[i]
  <2>1. node_cl'[list[i]] = {} /\ sequ_cl'[list[i]] = {}
    OBVIOUS
  <2>2. Loads'[i] = 0
    <3>1. i \in 1 .. match_num_seqs' /\ match_sequs'[i] = list[i]
      OBVIOUS
    <3>2. Loads'[i] = Cardinality(node_cl'[match_sequs'[i]]) + Cardinality(sequ_cl'[match_sequs'[i]])
      BY <3>1 DEF Loads, Load
    <3>3. Cardinality({}) = 0 /\ 0 + 0 = 0
      BY FS_EmptySet
    <3> QED
      BY <2>1, <3>1, <3>2, <3>3
  <2>3. Finite(match_sequs[i])'
    BY <2>1, FS_EmptySet DEF Finite
  <2>4. local_twiss'[i] = list[i]
    BY MatchingAssumption
  <2> QED
    BY <2>2, <2>3, <2>4
<1>2. SumOver(Loads', 1 .. n) = 0
  <2>1. PICK f, S : f = Loads' /\ S = 1 .. n
    OBVIOUS
  <2>2. Summable(f, S) /\ {} \in SUBSET S /\ \A x \in S \ {} : f[x] = 0
    BY <1>1, <2>1, PlacesFinite DEF Summable
  <2>3. SumOver(f, S) = SumOver(f, {})
    BY ONLY <2>2, SumZeros
  <2> QED
    BY <2>1, <2>3, SumEmpty
<1>3. local_twiss' = [i \in 1 .. MaxNames |-> local_twiss'[i]]
  OBVIOUS
<1> QED
  BY <1>1, <1>2, <1>3 DEF SequencesCounted

LEMMA LeastOf ==
  ASSUME NEW T \in SUBSET Nat, T # {}
  PROVE  Min(T) \in T
<1>1. \E m \in T : \A y \in T : m <= y
  BY LeastNatural
<1> QED
  BY <1>1 DEF Min

LEMMA NamesComplete ==
  ASSUME NEW S, NEW names \in Seq(S), NEW bad, Len(Upto(names, bad)) = Len(names)
  PROVE  Upto(names, bad) = names /\ \A i \in 1 .. Len(names) : names[i] \notin bad
<1> DEFINE n == Len(names)
           T == {i \in DOMAIN names : names[i] \in bad}
<1>1. n \in Nat /\ DOMAIN names = 1 .. n
  BY LenProperties
<1>2. CASE \E i \in DOMAIN names : names[i] \in bad
  <2>1. T \in SUBSET Nat /\ T # {} /\ T \subseteq 1 .. n
    BY <1>1, <1>2
  <2>2. Upto(names, bad) = SubSeq(names, 1, Min(T) - 1)
    BY <1>2 DEF Upto
  <2> HIDE DEF T
  <2>3. Min(T) \in 1 .. n
    BY <2>1, LeastOf
  <2> DEFINE m == Min(T) - 1
  <2>4. m \in Nat /\ m < n
    BY <1>1, <2>3
  <2> HIDE DEF m
  <2>5. m <= Len(names)
    BY <1>1, <2>4
  <2>6. Len(SubSeq(names, 1, m)) = m
    BY <2>4, <2>5, PrefixIs
  <2>7. m = n
    BY <2>2, <2>6 DEF m
  <2> QED
    BY <1>1, <2>4, <2>7
<1>3. CASE ~ \E i \in DOMAIN names : names[i] \in bad
  BY <1>1, <1>3 DEF Upto
<1> QED
  BY <1>2, <1>3

LEMMA AllPresent ==
  ASSUME NEW S, NEW names \in Seq(S), \A i \in 1 .. Len(names) : names[i] \in Sequence
  PROVE  Present(names) = names
<1> DEFINE n == Len(names)
           places == {i \in DOMAIN names : names[i] \in Sequence}
           place(k) == CHOOSE i \in places : Cardinality({j \in places : j <= i}) = k
<1>1. n \in Nat /\ DOMAIN names = 1 .. n
  BY LenProperties
<1>2. places = 1 .. n
  BY <1>1
<1>3. Cardinality(places) = n
  BY <1>1, <1>2, PlacesFinite
<1>4. ASSUME NEW k \in 1 .. n
      PROVE  place(k) = k
  <2>1. \A i \in 1 .. n : Cardinality({j \in places : j <= i}) = i
    <3> SUFFICES ASSUME NEW i \in 1 .. n
                 PROVE  Cardinality({j \in places : j <= i}) = i
      OBVIOUS
    <3>1. {j \in places : j <= i} = 1 .. i
      BY <1>1, <1>2
    <3>2. i \in Nat
      BY <1>1
    <3>3. Cardinality(1 .. i) = i
      BY <3>2, PlacesFinite
    <3> QED
      BY <3>1, <3>3
  <2>2. \A i \in places : Cardinality({j \in places : j <= i}) = k <=> i = k
    BY <1>2, <2>1
  <2>3. k \in places
    BY <1>2
  <2> HIDE DEF places
  <2> QED
    BY <2>2, <2>3
<1>5. Present(names) = [k \in 1 .. Cardinality(places) |-> names[place(k)]]
  BY DEF Present
<1>6. Present(names) = [k \in 1 .. n |-> names[place(k)]]
  BY <1>3, <1>5
<1> HIDE DEF places, place
<1>7. Present(names) = [k \in 1 .. n |-> names[k]]
  BY <1>4, <1>6
<1>8. names = [k \in 1 .. n |-> names[k]]
  <2>1. names = [k \in DOMAIN names |-> names[k]]
    BY LenProperties
  <2> QED
    BY <1>1, <2>1
<1> QED
  BY <1>7, <1>8

(***************************************************************************)
(* MATCH with sequences.                                                   *)
(***************************************************************************)
LEMMA SequencesBegin ==
  ASSUME Clean, exited = NULL, NEW names \in Seq(Sequence \union {Unknown}),
         Len(names) \in 1 .. MaxNames, IsInjective(names),
         MatchSequences(names), exited' = NULL, unusual' = {}
  PROVE  SequencesCounted'
<1> DEFINE n == Len(names)
           read == SubSeq(names, 1, Min({Len(names), MAX_SEQUS}))
           listed == match_sequs \o Present(Upto(read, Inactive))
           killed == listed = <<>> \/ \E i \in DOMAIN read : read[i] \in Inactive
           twiss == Upto(names, NoSequence)
           complete == Len(twiss) = n /\ twiss[n] \in Expanded
<1>1. ~(Len(listed) > MAX_SEQUS)
  BY MatchingAssumption DEF MatchSequences, Stopped
<1>2. /\ killed => GiveUp
      /\ ~killed => MatchOn(listed, twiss, n)
      /\ UNCHANGED <<total_const, node_cl, sequ_cl>>
  BY <1>1 DEF MatchSequences
<1>3. ~killed
  BY <1>2 DEF GiveUp
<1>4. /\ match_sequs' = listed /\ match_num_seqs' = n
      /\ local_twiss' = [i \in 1 .. MaxNames |-> IF i <= Len(twiss) THEN twiss[i] ELSE local_twiss[i]]
      /\ unusual' = unusual \union (IF complete /\ n <= MAX_SEQUS THEN {} ELSE {"sequences"})
  BY <1>2, <1>3, Zenon DEF MatchOn
<1>5. complete /\ n <= MAX_SEQUS
  BY <1>4
<1>6. n \in Nat /\ n <= MaxNames /\ DOMAIN names = 1 .. n /\ MAX_SEQUS \in Nat
  BY LenProperties, MatchingAssumption
<1>7. twiss = names /\ \A i \in 1 .. n : names[i] \in Sequence
  <2>1. Len(Upto(names, NoSequence)) = Len(names)
    BY <1>5
  <2>2. twiss = names /\ \A i \in 1 .. n : names[i] \notin NoSequence
    BY <2>1, NamesComplete
  <2>3. \A i \in 1 .. n : names[i] \in Sequence \union {Unknown}
    BY ElementOfSeq
  <2> QED
    BY <2>2, <2>3 DEF NoSequence
<1>8. read = names
  <2>1. Min({n, MAX_SEQUS}) = n
    <3> HIDE DEF n
    <3>1. \A x \in {n, MAX_SEQUS} : n <= x
      BY <1>5, <1>6
    <3>2. {n, MAX_SEQUS} \subseteq Nat /\ n \in {n, MAX_SEQUS}
      BY <1>6
    <3> QED
      BY <1>6, <3>1, <3>2, LeastUnset
  <2> QED
    BY <2>1, SubSeqFull
<1>9. listed = names
  <2>1. Upto(read, Inactive) = names
    BY <1>3, <1>8 DEF Upto
  <2>2. Present(names) = names
    BY <1>7, AllPresent
  <2>3. match_sequs = <<>>
    BY DEF Clean
  <2>4. <<>> \o names = names
    BY ConcatEmptySeq
  <2> QED
    BY <2>1, <2>2, <2>3, <2>4
<1>10. local_twiss' = [i \in 1 .. MaxNames |-> IF i <= n THEN names[i] ELSE local_twiss[i]]
  BY <1>4, <1>7
<1>11. total_const' = 0 /\ \A sequ \in Sequence : node_cl'[sequ] = {} /\ sequ_cl'[sequ] = {}
  BY <1>2 DEF Clean
<1>12. match_sequs' = names /\ match_num_seqs' = n
  BY <1>4, <1>9
<1> HIDE DEF n, read, listed, killed, twiss, complete
<1> QED
  BY <1>6, <1>7, <1>10, <1>11, <1>12, NoLoads

LEMMA CurrentBegins ==
  ASSUME Clean, exited = NULL, NEW sequ, MatchCurrent(sequ), exited' = NULL, unusual' = {}
  PROVE  SequencesCounted'
<1> DEFINE list == <<sequ>>
<1>1. ~(Len(match_sequs) = MAX_SEQUS)
  BY MatchingAssumption DEF MatchCurrent, Stopped
<1>2. /\ MatchOn(Append(match_sequs, sequ), list, 1)
      /\ UNCHANGED <<total_const, node_cl, sequ_cl>>
  BY <1>1 DEF MatchCurrent
<1>3. Len(list) = 1 /\ list[1] = sequ /\ DOMAIN list = 1 .. 1
  OBVIOUS
<1>4. sequ \in Sequence
  <2>1. list[1] \in Expanded
    BY <1>2 DEF MatchOn
  <2> QED
    BY <1>3, <2>1, MatchingAssumption
<1>5. match_sequs' = list
  <2>1. Append(match_sequs, sequ) = list
    BY DEF Clean
  <2> QED
    BY <1>2, <2>1 DEF MatchOn
<1>6. /\ match_num_seqs' = 1
      /\ local_twiss' = [i \in 1 .. MaxNames |-> IF i <= 1 THEN list[i] ELSE local_twiss[i]]
  BY <1>2, <1>3 DEF MatchOn
<1>7. IsInjective(list)
  BY <1>3 DEF IsInjective
<1>8. \A i \in 1 .. 1 : list[i] \in Sequence
  BY <1>3, <1>4
<1>9. 1 \in Nat /\ 1 <= MaxNames
  BY MatchingAssumption
<1>10. total_const' = 0 /\ \A x \in Sequence : node_cl'[x] = {} /\ sequ_cl'[x] = {}
  BY <1>2 DEF Clean
<1> HIDE DEF list
<1> QED
  BY <1>3, <1>5, <1>6, <1>7, <1>8, <1>9, <1>10, NoLoads

(***************************************************************************)
(* The constraints of the macros are those that were counted.              *)
(***************************************************************************)
MacroCount ==
  /\ match2.macros \in Seq(Range(match2.macros))
  /\ \E counts : Counts(counts) /\ total_const = SumOver(counts, 1 .. Len(match2.macros))

LEMMA MacrosBegin ==
  ASSUME match2'.macros = <<>>, total_const' = 0
  PROVE  MacroCount'
<1> DEFINE counts == [i \in 1 .. 0 |-> 0]
<1>1. Len(match2'.macros) = 0 /\ DOMAIN match2'.macros = 1 .. 0 /\ 1 .. 0 = {}
  OBVIOUS
<1>2. Counts(counts)'
  BY <1>1 DEF Counts
<1>3. SumOver(counts, 1 .. 0) = 0
  <2> HIDE DEF counts
  <2> QED
    BY <1>1, SumEmpty
<1>4. match2'.macros \in Seq(Range(match2'.macros))
  OBVIOUS
<1>5. total_const' = SumOver(counts, 1 .. Len(match2'.macros))
  BY <1>1, <1>3
<1> QED
  BY <1>2, <1>4, <1>5 DEF MacroCount

LEMMA MacroAdded ==
  ASSUME MacroCount, NEW name, UNCHANGED total_const,
         match2'.macros = Append(match2.macros, [name |-> name, slots |-> <<>>])
  PROVE  MacroCount'
<1> DEFINE n == Len(match2.macros)
           m == [name |-> name, slots |-> <<>>]
           macros == Append(match2.macros, m)
<1>1. PICK counts : Counts(counts) /\ total_const = SumOver(counts, 1 .. n)
  BY DEF MacroCount
<1>2. n \in Nat /\ counts \in [1 .. n -> Nat]
  BY <1>1 DEF Counts
<1>3. /\ macros \in Seq(Range(macros)) /\ Len(macros) = n + 1
      /\ \A i \in 1 .. n : macros[i] = match2.macros[i]
      /\ macros[n + 1] = m
  <2>1. match2.macros \in Seq(Range(match2.macros))
    BY DEF MacroCount
  <2> HIDE DEF m
  <2> QED
    BY <2>1, AppendedIs
<1>12. PICK more : more = [i \in 1 .. n + 1 |-> IF i <= n THEN counts[i] ELSE 0]
  OBVIOUS
<1>4. /\ more \in [1 .. n + 1 -> Nat] /\ more[n + 1] = 0
      /\ \A i \in 1 .. n : more[i] = counts[i]
  BY <1>2, <1>12
<1>5. \A i \in 1 .. n + 1 : i \in 1 .. n \/ i = n + 1
  BY <1>2
<1>6. m = [name |-> m.name, slots |-> m.slots] /\ Hold(m.slots, 0)
  <2>1. m.slots = <<>> /\ m.name = name
    OBVIOUS
  <2>2. Hold(<<>>, 0)
    BY DEF Hold
  <2> QED
    BY <2>1, <2>2
<1>7. match2'.macros = macros
  OBVIOUS
<1> HIDE DEF macros, m
<1>8. Counts(more)'
  <2>1. DOMAIN macros = 1 .. n + 1
    BY <1>2, <1>3, LenProperties
  <2>2. ASSUME NEW i \in 1 .. n + 1
        PROVE  /\ macros[i] = [name |-> macros[i].name, slots |-> macros[i].slots]
               /\ Hold(macros[i].slots, more[i])
    <3>1. CASE i \in 1 .. n
      BY <1>1, <1>3, <1>4, <3>1 DEF Counts
    <3>2. CASE i = n + 1
      BY <1>3, <1>4, <1>6, <3>2
    <3> QED
      BY <1>5, <3>1, <3>2
  <2>3. PICK M : M = match2'.macros
    OBVIOUS
  <2>4. M = macros /\ Len(M) = n + 1 /\ n + 1 \in Nat
    BY <1>2, <1>3, <1>7, <2>3
  <2>5. /\ Len(M) \in Nat /\ DOMAIN M = 1 .. Len(M) /\ more \in [1 .. Len(M) -> Nat]
        /\ \A i \in 1 .. Len(M) : M[i] = [name |-> M[i].name, slots |-> M[i].slots]
        /\ \A i \in 1 .. Len(M) : Hold(M[i].slots, more[i])
    BY <1>4, <2>1, <2>2, <2>4
  <2> QED
    BY <2>3, <2>5 DEF Counts
<1>9. SumOver(more, 1 .. n + 1) = SumOver(counts, 1 .. n)
  <2> DEFINE k == n + 1
  <2>1. k \in Nat /\ n \in 0 .. k - 1 /\ \A i \in 1 .. k : more[i] \in Int
    BY <1>2, <1>4
  <2> HIDE DEF k
  <2>2. /\ \A j \in 0 .. k : SumOver(more, 1 .. j) \in Int
        /\ \A j \in 0 .. k - 1 : SumOver(more, 1 .. j + 1) = SumOver(more, 1 .. j) + more[j + 1]
    BY <2>1, SumFirst
  <2>3. SumOver(more, 1 .. n) \in Int /\ SumOver(more, 1 .. n + 1) = SumOver(more, 1 .. n) + more[n + 1]
    BY <2>1, <2>2
  <2>4. SumOver(more, 1 .. n) = SumOver(counts, 1 .. n)
    <3>1. Summable(counts, 1 .. n)
      BY <1>2, PlacesFinite DEF Summable
    <3> QED
      BY <1>4, <3>1, SumSame
  <2> QED
    BY <1>4, <2>3, <2>4
<1>10. Len(match2'.macros) = n + 1 /\ match2'.macros \in Seq(Range(match2'.macros))
  BY <1>3, <1>7
<1>11. total_const' = SumOver(more, 1 .. Len(match2'.macros))
  BY <1>1, <1>9, <1>10
<1> QED
  BY <1>8, <1>10, <1>11 DEF MacroCount

FirstOpen(slots) ==
  IF \E k \in DOMAIN slots : ~slots[k].lhs
  THEN Min({k \in DOMAIN slots : ~slots[k].lhs}) ELSE Len(slots) + 1

OldSlot(slots, j) == [lhs |-> FALSE, name |-> j <= Len(slots) /\ slots[j].name]

Changed(slots, j, new) ==
  [k \in 1 .. Max({Len(slots), j}) |-> IF k = j THEN new ELSE slots[k]]

LEMMA OpenIs ==
  ASSUME NEW slots, NEW c, Hold(slots, c)
  PROVE  FirstOpen(slots) = c + 1
<1> DEFINE T == {k \in DOMAIN slots : ~slots[k].lhs}
<1>1. /\ c \in Nat /\ Len(slots) \in {c, c + 1} /\ DOMAIN slots = 1 .. Len(slots)
      /\ \A k \in 1 .. c : slots[k].lhs /\ slots[k].name
      /\ Len(slots) = c + 1 => ~slots[c + 1].lhs /\ ~slots[c + 1].name
  BY DEF Hold
<1>2. CASE Len(slots) = c
  <2>1. \A k \in DOMAIN slots : slots[k].lhs
    BY <1>1, <1>2
  <2> QED
    BY <1>2, <2>1 DEF FirstOpen
<1>3. CASE Len(slots) = c + 1
  <2>1. c + 1 \in DOMAIN slots /\ ~slots[c + 1].lhs
    BY <1>1, <1>3
  <2>2. FirstOpen(slots) = Min(T)
    BY <2>1 DEF FirstOpen
  <2>3. c + 1 \in T
    BY <2>1
  <2>6. \A x \in T : x \in 1 .. c + 1 /\ x \notin 1 .. c
    BY <1>1, <1>3
  <2>7. c \in Nat
    BY <1>1
  <2>4. T \subseteq Nat /\ \A x \in T : c + 1 <= x
    <3> HIDE DEF T
    <3>1. \A x \in 1 .. c + 1 : x \notin 1 .. c => x \in Nat /\ c + 1 <= x
      BY <2>7
    <3> QED
      BY <2>6, <3>1
  <2>5. c + 1 \in Nat
    BY <2>7
  <2> HIDE DEF T
  <2> QED
    BY <2>2, <2>3, <2>4, <2>5, LeastUnset
<1> QED
  BY <1>1, <1>2, <1>3

LEMMA ChangedIs ==
  ASSUME NEW slots, NEW c, Hold(slots, c), NEW new
  PROVE  LET all == Changed(slots, c + 1, new)
         IN  /\ Len(all) = c + 1 /\ DOMAIN all = 1 .. c + 1 /\ all[c + 1] = new
             /\ \A k \in 1 .. c : all[k] = slots[k]
<1> DEFINE all == Changed(slots, c + 1, new)
<1>1. c \in Nat /\ Len(slots) \in {c, c + 1}
  BY DEF Hold
<1>2. Max({Len(slots), c + 1}) = c + 1
  <2>1. c + 1 \in Nat /\ Len(slots) \in Nat /\ Len(slots) <= c + 1
    BY <1>1
  <2> QED
    BY <2>1, MaxOfTwo
<1>3. all = [k \in 1 .. c + 1 |-> IF k = c + 1 THEN new ELSE slots[k]]
  BY <1>2 DEF Changed
<1> HIDE DEF all
<1>4. DOMAIN all = 1 .. c + 1 /\ c + 1 \in Nat
  BY <1>1, <1>3
<1>5. Len(all) = c + 1
  <2> DEFINE V == {all[k] : k \in 1 .. c + 1}
  <2>1. all = [k \in 1 .. c + 1 |-> all[k]]
    BY <1>3
  <2>2. \A k \in 1 .. c + 1 : all[k] \in V
    OBVIOUS
  <2> HIDE DEF V
  <2>3. all \in [1 .. c + 1 -> V]
    BY <2>1, <2>2
  <2>4. all \in Seq(V)
    BY <1>4, <2>3, SeqDef
  <2> QED
    BY <1>4, <2>4, LenProperties
<1>6. all[c + 1] = new /\ \A k \in 1 .. c : all[k] = slots[k]
  BY <1>1, <1>3
<1> QED
  BY <1>4, <1>5, <1>6 DEF all

LEMMA SlotTaken ==
  ASSUME NEW slots, NEW c, Hold(slots, c)
  PROVE  Hold(Changed(slots, c + 1, Slot(TRUE)), c + 1)
<1> DEFINE new == Slot(TRUE)
           all == Changed(slots, c + 1, new)
<1>0. new.lhs /\ new.name
  BY DEF Slot
<1> HIDE DEF new
<1>1. c \in Nat /\ \A k \in 1 .. c : slots[k].lhs /\ slots[k].name
  BY DEF Hold
<1>2. /\ Len(all) = c + 1 /\ DOMAIN all = 1 .. c + 1 /\ all[c + 1] = new
      /\ \A k \in 1 .. c : all[k] = slots[k]
  BY ChangedIs
<1> HIDE DEF all
<1>3. all[c + 1].lhs /\ all[c + 1].name
  BY <1>0, <1>2
<1>4. \A k \in 1 .. c + 1 : k \in 1 .. c \/ k = c + 1
  BY <1>1
<1>5. \A k \in 1 .. c + 1 : all[k].lhs /\ all[k].name
  BY <1>1, <1>2, <1>3, <1>4
<1>6. c + 1 \in Nat /\ ~(c + 1 = (c + 1) + 1)
  BY <1>1
<1> QED
  BY <1>2, <1>5, <1>6 DEF Hold, all, new

LEMMA SlotLeft ==
  ASSUME NEW slots, NEW c, Hold(slots, c)
  PROVE  Hold(Changed(slots, c + 1, OldSlot(slots, c + 1)), c)
<1> DEFINE old == OldSlot(slots, c + 1)
           all == Changed(slots, c + 1, old)
<1>1. /\ c \in Nat /\ Len(slots) \in {c, c + 1}
      /\ \A k \in 1 .. c : slots[k].lhs /\ slots[k].name
      /\ Len(slots) = c + 1 => ~slots[c + 1].name
  BY DEF Hold
<1>2. ~old.lhs /\ ~old.name
  <2>1. ~(c + 1 <= Len(slots) /\ slots[c + 1].name)
    BY <1>1
  <2>2. PICK f : f = FALSE
    OBVIOUS
  <2>3. (c + 1 <= Len(slots) /\ slots[c + 1].name) = f
    BY <2>1, <2>2
  <2>4. old = [lhs |-> f, name |-> f]
    BY <2>2, <2>3 DEF OldSlot
  <2> QED
    BY <2>2, <2>4
<1> HIDE DEF old
<1>3. /\ Len(all) = c + 1 /\ DOMAIN all = 1 .. c + 1 /\ all[c + 1] = old
      /\ \A k \in 1 .. c : all[k] = slots[k]
  BY ChangedIs
<1> HIDE DEF all
<1>4. \A k \in 1 .. c : all[k].lhs /\ all[k].name
  BY <1>1, <1>3
<1>5. ~all[c + 1].lhs /\ ~all[c + 1].name
  BY <1>2, <1>3
<1> QED
  BY <1>1, <1>3, <1>4, <1>5 DEF Hold, all, old

LEMMA MacroConstrained ==
  ASSUME MacroCount, MatchShapes, NEW lhs, lhs = TRUE, NEW rhs, MacroConstraint(lhs, rhs),
         exited = NULL, exited' = NULL
  PROVE  MacroCount'
<1> DEFINE m == Len(match2.macros)
           slots == match2.macros[m].slots
           new == IF rhs THEN Slot(TRUE) ELSE OldSlot(slots, FirstOpen(slots))
<1>1. PICK counts : Counts(counts) /\ total_const = SumOver(counts, 1 .. m)
  BY DEF MacroCount
<1>2. /\ m \in Nat /\ DOMAIN match2.macros = 1 .. m /\ counts \in [1 .. m -> Nat]
      /\ \A i \in 1 .. m :
           match2.macros[i] = [name |-> match2.macros[i].name, slots |-> match2.macros[i].slots]
      /\ \A i \in 1 .. m : Hold(match2.macros[i].slots, counts[i])
  BY <1>1 DEF Counts
<1>3. /\ m # 0
      /\ \E Y : match2' = [match2 EXCEPT !.macros[m].slots = Changed(slots, FirstOpen(slots), new),
                                         !.CONS = Y]
      /\ total_const' = total_const + (IF rhs THEN 1 ELSE 0)
  <2>1. m # 0
    BY MatchingAssumption DEF MacroConstraint, Stopped
  <2> QED
    BY <2>1, Zenon DEF MacroConstraint, Changed, FirstOpen, OldSlot
<1>4. m \in 1 .. m /\ Hold(slots, counts[m]) /\ counts[m] \in Nat
  BY <1>2, <1>3
<1>5. PICK c, n : c = counts[m] /\ n = m
  OBVIOUS
<1>6. FirstOpen(slots) = c + 1
  <2> HIDE DEF slots
  <2> QED
    BY <1>4, <1>5, OpenIs
<1>7. PICK X : X = Changed(slots, FirstOpen(slots), new)
  OBVIOUS
<1>8. Hold(X, IF rhs THEN c + 1 ELSE c)
  <2> HIDE DEF slots
  <2>1. CASE rhs
    BY <1>4, <1>5, <1>6, <1>7, <2>1, SlotTaken
  <2>2. CASE ~rhs
    BY <1>4, <1>5, <1>6, <1>7, <2>2, SlotLeft
  <2> QED
    BY <2>1, <2>2
<1>9. PICK Y : match2' = [match2 EXCEPT !.macros[m].slots = X, !.CONS = Y]
  BY <1>3, <1>7
<1>10. match2'.macros = [match2.macros EXCEPT ![m].slots = X]
  <2>1. PICK a : a = [match2 EXCEPT !.macros[m].slots = X]
    OBVIOUS
  <2>2. match2' = [a EXCEPT !.CONS = Y]
    BY <1>9, <2>1
  <2>3. a = [macros |-> [match2.macros EXCEPT ![m].slots = X], MACROS |-> match2.MACROS,
             CONS |-> match2.CONS, keep |-> match2.keep]
    BY <2>1 DEF MatchShapes
  <2> QED
    BY <2>2, <2>3
<1>11. PICK M : M = match2'.macros
  OBVIOUS
<1>12. /\ DOMAIN M = 1 .. n /\ M[n] = [name |-> match2.macros[n].name, slots |-> X]
       /\ \A i \in 1 .. n : i # n => M[i] = match2.macros[i]
       /\ M = [i \in 1 .. n |-> M[i]]
  BY <1>2, <1>4, <1>5, <1>10, <1>11
<1>13. M \in Seq(Range(M)) /\ Len(M) = n /\ n \in Nat
  <2>1. n \in Nat
    BY <1>2, <1>5
  <2>2. \A i \in 1 .. n : M[i] \in Range(M)
    BY <1>12 DEF Range
  <2>3. M \in [1 .. n -> Range(M)]
    BY <1>12, <2>2
  <2>4. M \in Seq(Range(M))
    BY <2>1, <2>3, SeqDef
  <2> QED
    BY <1>12, <2>1, <2>4, LenProperties
<1>14. PICK more : more = [i \in 1 .. n |-> IF i = n THEN IF rhs THEN c + 1 ELSE c ELSE counts[i]]
  OBVIOUS
<1>15. /\ more \in [1 .. n -> Nat] /\ more[n] = IF rhs THEN c + 1 ELSE c
       /\ \A i \in 1 .. n : i # n => more[i] = counts[i]
  BY <1>2, <1>4, <1>5, <1>14
<1>16. ASSUME NEW i \in 1 .. n
       PROVE  M[i] = [name |-> M[i].name, slots |-> M[i].slots] /\ Hold(M[i].slots, more[i])
  <2>1. CASE i = n
    BY <1>8, <1>12, <1>15, <2>1
  <2>2. CASE i # n
    BY <1>2, <1>5, <1>12, <1>15, <2>2
  <2> QED
    BY <2>1, <2>2
<1>17. Counts(more)'
  <2>1. /\ Len(M) \in Nat /\ DOMAIN M = 1 .. Len(M) /\ more \in [1 .. Len(M) -> Nat]
        /\ \A i \in 1 .. Len(M) : M[i] = [name |-> M[i].name, slots |-> M[i].slots]
        /\ \A i \in 1 .. Len(M) : Hold(M[i].slots, more[i])
    BY <1>12, <1>13, <1>15, <1>16
  <2> QED
    BY <1>11, <2>1 DEF Counts
<1>18. total_const' = SumOver(more, 1 .. n)
  <2> DEFINE S == 1 .. n
             A == {n}
  <2>1. Summable(counts, S) /\ total_const = SumOver(counts, S) /\ SumOver(counts, S) \in Int
    <3>1. Summable(counts, S)
      BY <1>2, <1>5, PlacesFinite DEF Summable
    <3> QED
      BY <1>1, <1>5, <3>1, SumParts
  <2>2. n \in S /\ counts[n] = c /\ c \in Nat
    BY <1>4, <1>5
  <2>3. CASE rhs
    <3>1. /\ Summable(counts, S) /\ A \in SUBSET S
          /\ \A x \in A : more[x] = counts[x] + 1
          /\ \A x \in S \ A : more[x] = counts[x]
      BY <1>15, <2>1, <2>2, <2>3
    <3>2. Cardinality(A) = 1
      BY FS_Singleton
    <3> HIDE DEF S, A
    <3>3. SumOver(more, S) = SumOver(counts, S) + Cardinality(A)
      BY ONLY <3>1, SumOneMore
    <3>4. total_const' = SumOver(more, S)
      BY <1>3, <2>1, <2>3, <3>2, <3>3
    <3> QED
      BY <3>4 DEF S
  <2>4. CASE ~rhs
    <3>1. \A x \in S : more[x] = counts[x]
      BY <1>15, <2>2, <2>4
    <3> HIDE DEF S
    <3>2. SumOver(more, S) = SumOver(counts, S)
      BY <2>1, <3>1, SumSame
    <3>3. total_const' = SumOver(more, S)
      BY <1>3, <2>1, <2>4, <3>2
    <3> QED
      BY <3>3 DEF S
  <2> QED
    BY <2>3, <2>4
<1>19. match2'.macros \in Seq(Range(match2'.macros)) /\ total_const' = SumOver(more, 1 .. Len(match2'.macros))
  BY <1>11, <1>13, <1>18
<1> QED
  BY <1>17, <1>19 DEF MacroCount

-----------------------------------------------------------------------------
(* The vector has the size that was counted, and is filled.                *)

Counted ==
  /\ Filled
  /\ exited = NULL /\ unusual = {} =>
       /\ nconserrs \in Nat
       /\ fun_vect # NULL => fun_vect.size = total_const
       /\ match_is_on = kMatch_Std => SequencesCounted
       /\ match_is_on = kMatch_UseMacro => MacroCount

LEMMA CountedKept ==
  ASSUME Counted, UNCHANGED <<fun_vect, total_const, nconserrs>>, unusual' = {} => unusual = {},
         exited' = NULL => exited = NULL,
         exited' = NULL /\ unusual' = {} =>
           /\ match_is_on' = kMatch_Std => UNCHANGED <<match_is_on, option, placeVars>>
           /\ match_is_on' = kMatch_UseMacro => UNCHANGED <<match_is_on, match2>>
  PROVE  Counted'
<1>1. Filled'
  BY DEF Counted, Filled
<1>2. ASSUME exited' = NULL, unusual' = {}, match_is_on' = kMatch_Std
      PROVE  SequencesCounted'
  <2>1. SequencesCounted /\ UNCHANGED <<option, placeVars>>
    BY <1>2 DEF Counted
  <2>2. Loads' = Loads
    BY <2>1 DEF Loads, Load, placeVars
  <2>3. \A sequ : Finite(sequ) => Finite(sequ)'
    BY <2>1 DEF Finite, placeVars
  <2> QED
    BY <2>1, <2>2, <2>3 DEF SequencesCounted, placeVars
<1>3. ASSUME exited' = NULL, unusual' = {}, match_is_on' = kMatch_UseMacro
      PROVE  MacroCount'
  BY <1>3 DEF Counted, MacroCount, Counts
<1> QED
  BY <1>1, <1>2, <1>3 DEF Counted

LEMMA StoppedCounted ==
  ASSUME Counted, exited = NULL, NEW reason, Stopped(reason), reason # NULL
  PROVE  Counted'
<1>1. exited' # NULL /\ UNCHANGED <<fun_vect, nconserrs, unusual>>
  BY DEF Stopped, jobVars, runVars
<1> QED
  BY <1>1 DEF Counted, Filled

LEMMA ConstrainCounted ==
  ASSUME Counted, MatchShapes, Idle, match_is_on = kMatch_Std, NEW X, NEW q,
         Constrain(Range(match_sequs) \intersect X, q)
  PROVE  Counted'
<1> DEFINE sequs == Range(match_sequs) \intersect X
<1>1. CASE ~current_weight
  BY <1>1, StoppedCounted, MatchingAssumption DEF Constrain, Idle
<1>2. CASE current_weight
  <2>1. /\ node_cl' = Updated(node_cl, sequs, q)
        /\ total_const' = total_const + New(node_cl, sequs, q)
        /\ unusual' = unusual \union (IF fun_vect # NULL THEN {"late"} ELSE {})
        /\ UNCHANGED <<match_is_on, fun_vect, match_sequs, local_twiss, match_num_seqs, sequ_cl,
                       runVars, exited>>
    BY <1>2 DEF Constrain, Late
  <2>2. option.match_local \/ sequs # {} => option'.match_local
    <3>1. PICK l : l = (option.match_local \/ sequs # {})
      OBVIOUS
    <3>2. option' = [option EXCEPT !.match_local = l]
      BY <1>2, <3>1 DEF Constrain
    <3>3. option'.match_local = l
      BY <3>2 DEF MatchShapes
    <3> QED
      BY <3>1, <3>3
  <2>3. unusual' = {} => unusual = {} /\ fun_vect = NULL
    BY <2>1
  <2>4. ASSUME exited' = NULL, unusual' = {}
        PROVE  SequencesCounted'
    <3>1. SequencesCounted
      BY <2>1, <2>3, <2>4 DEF Counted
    <3> HIDE DEF sequs
    <3>2. sequs = Range(match_sequs) \intersect X
      BY DEF sequs
    <3> QED
      BY <2>1, <2>2, <3>1, <3>2, ConstrainCounts
  <2>5. match_is_on' # kMatch_UseMacro
    BY <2>1 DEF kMatch_Std, kMatch_UseMacro
  <2> QED
    BY <2>1, <2>3, <2>4, <2>5 DEF Counted, Filled, runVars
<1> QED
  BY <1>1, <1>2

LEMMA GlobalCounted ==
  ASSUME Counted, Job, Idle, loop = NULL, NEW X, NEW q,
         Global(Range(match_sequs) \intersect X, q)
  PROVE  Counted'
<1> DEFINE sequs == Range(match_sequs) \intersect X
<1>1. CASE sequs = {}
  <2>1. UNCHANGED <<modeVars, jobVars, placeVars, match2, runVars, exited, unusual>>
    BY <1>1 DEF Global, matchVars
  <2> QED
    BY <2>1, CountedKept DEF modeVars, jobVars, runVars
<1>2. CASE sequs # {} /\ ~current_weight
  BY <1>2, StoppedCounted, MatchingAssumption DEF Global, Idle
<1>3. CASE sequs # {} /\ current_weight
  <2>1. /\ sequ_cl' = Updated(sequ_cl, sequs, q)
        /\ total_const' = total_const + New(sequ_cl, sequs, q)
        /\ unusual' = unusual \union (IF fun_vect # NULL THEN {"late"} ELSE {})
        /\ UNCHANGED <<match_is_on, option, fun_vect, match_sequs, local_twiss, match_num_seqs,
                       node_cl, runVars, exited>>
    BY <1>3 DEF Global, Late, modeVars
  <2>2. unusual' = {} => unusual = {} /\ fun_vect = NULL
    BY <2>1
  <2>3. ASSUME exited' = NULL, unusual' = {}, match_is_on' = kMatch_Std
        PROVE  SequencesCounted'
    <3>1. SequencesCounted
      BY <2>1, <2>2, <2>3 DEF Counted
    <3> HIDE DEF sequs
    <3>2. sequs = Range(match_sequs) \intersect X
      BY DEF sequs
    <3> QED
      BY <2>1, <3>1, <3>2, GlobalCounts
  <2>4. ASSUME exited' = NULL, unusual' = {}
        PROVE  match_is_on' # kMatch_UseMacro
    <3>1. match_sequs # <<>>
      BY <1>3 DEF Range
    <3> QED
      BY <2>1, <2>2, <2>4, <3>1 DEF Job
  <2> QED
    BY <2>1, <2>2, <2>3, <2>4 DEF Counted, Filled, runVars
<1> QED
  BY <1>1, <1>2, <1>3

(***************************************************************************)
(* A statement that gives a constraint a left side, and names no sequence  *)
(* twice.                                                                  *)
(***************************************************************************)
Proper(s) ==
  /\ s.op = "match" /\ s.with = "sequences" =>
       /\ s.names \in Seq(Sequence \union {Unknown}) /\ Len(s.names) \in 1 .. MaxNames
       /\ IsInjective(s.names)
  /\ s.op = "constraint" => s.lhs = TRUE

LEMMA StatementCounted ==
  ASSUME Counted, Job, MatchShapes, Idle, NEW s, Statement(s), Proper(s),
         s.op = "match" /\ s.with # "macros" => loop = NULL, s.op = "global" => loop = NULL
  PROVE  Counted'
<1> USE DEF kMatch_NoMatch, kMatch_Std, kMatch_UseMacro, kMatch_PTCknobs
<1>0. exited = NULL /\ "crash" # NULL
  BY MatchingAssumption DEF Idle
<1>1. CASE UNCHANGED matchVars
  <2>1. UNCHANGED <<modeVars, jobVars, placeVars, match2, runVars, exited, unusual>>
    BY <1>1 DEF matchVars
  <2> QED
    BY <2>1, CountedKept DEF modeVars, jobVars, runVars
<1>2. CASE match_is_on = kMatch_NoMatch /\ MatchMacros
  <2>1. /\ match_is_on' = kMatch_UseMacro /\ total_const' = 0
        /\ UNCHANGED <<fun_vect, nconserrs, exited, unusual>>
    BY <1>2 DEF MatchMacros, runVars
  <2>2. match2'.macros = <<>>
    BY <1>2 DEF MatchMacros, MatchShapes
  <2>3. MacroCount'
    BY <2>1, <2>2, MacrosBegin
  <2>4. unusual' = {} => fun_vect' = NULL
    BY <1>0, <1>2, <2>1 DEF Job
  <2> QED
    BY <2>1, <2>3, <2>4 DEF Counted, Filled
<1>3. CASE match_is_on = kMatch_NoMatch /\ s.op = "match" /\ s.with = "sequences"
             /\ MatchSequences(s.names)
  <2>1. CASE Stopped("crash")
    BY <1>0, <2>1, StoppedCounted
  <2>2. CASE ~Stopped("crash")
    <3>1. UNCHANGED <<fun_vect, total_const, nconserrs, exited>>
      BY <1>3, <2>2 DEF MatchSequences, runVars
    <3>2. unusual' = {} => unusual = {} /\ match_is_on' = kMatch_Std
      BY <1>3, <2>2 DEF MatchSequences, GiveUp, MatchOn
    <3>3. ASSUME unusual' = {}
          PROVE  fun_vect = NULL /\ SequencesCounted'
      <4>1. Clean
        BY <1>0, <1>3, <3>2, <3>3 DEF Job
      <4>2. /\ s.names \in Seq(Sequence \union {Unknown}) /\ Len(s.names) \in 1 .. MaxNames
            /\ IsInjective(s.names)
        BY <1>3 DEF Proper
      <4>3. SequencesCounted'
        BY <1>0, <1>3, <3>1, <3>3, <4>1, <4>2, SequencesBegin
      <4> QED
        BY <4>1, <4>3 DEF Clean
    <3> QED
      BY <3>1, <3>2, <3>3 DEF Counted, Filled
  <2> QED
    BY <2>1, <2>2
<1>4. CASE match_is_on = kMatch_NoMatch /\ s.op = "match" /\ s.with = "current"
             /\ MatchCurrent(s.sequ)
  <2>1. CASE Stopped("crash")
    BY <1>0, <2>1, StoppedCounted
  <2>2. CASE ~Stopped("crash")
    <3>1. UNCHANGED <<fun_vect, total_const, nconserrs, exited>>
      BY <1>4, <2>2 DEF MatchCurrent, runVars
    <3>2. unusual' = {} => unusual = {} /\ match_is_on' = kMatch_Std
      BY <1>4, <2>2 DEF MatchCurrent, MatchOn
    <3>3. ASSUME unusual' = {}
          PROVE  fun_vect = NULL /\ SequencesCounted'
      <4>1. Clean
        BY <1>0, <1>4, <3>2, <3>3 DEF Job
      <4>2. SequencesCounted'
        BY <1>0, <1>4, <3>1, <3>3, <4>1, CurrentBegins
      <4> QED
        BY <4>1, <4>2 DEF Clean
    <3> QED
      BY <3>1, <3>2, <3>3 DEF Counted, Filled
  <2> QED
    BY <2>1, <2>2
<1>5. ASSUME NEW names, Vary(names)
      PROVE  Counted'
  <2>1. UNCHANGED <<modeVars, fun_vect, total_const, placeVars, match2, runVars, exited, unusual>>
    BY <1>5 DEF Vary
  <2> QED
    BY <2>1, CountedKept DEF modeVars, runVars
<1>6. ASSUME match_is_on = kMatch_Std, NEW X, NEW q, Constrain(Range(match_sequs) \intersect X, q)
      PROVE  Counted'
  BY <1>6, ConstrainCounted
<1>7. CASE s.op = "global" /\ Global(Range(match_sequs) \intersect s.sequs, s.quantity)
  BY <1>7, GlobalCounted
<1>8. ASSUME match_is_on = kMatch_UseMacro, NEW name, AddMacro(name)
      PROVE  Counted'
  <2>1. UNCHANGED <<modeVars, jobVars, runVars, exited, unusual>>
    BY <1>8 DEF AddMacro
  <2>2. match2'.macros = Append(match2.macros, [name |-> name, slots |-> <<>>])
    BY <1>8 DEF AddMacro, MatchShapes
  <2>3. ASSUME exited' = NULL, unusual' = {}
        PROVE  MacroCount'
    <3>1. MacroCount /\ UNCHANGED total_const
      BY <1>8, <2>1, <2>3 DEF Counted, jobVars
    <3> QED
      BY <2>2, <3>1, MacroAdded
  <2> QED
    BY <1>8, <2>1, <2>3 DEF Counted, Filled, modeVars, jobVars, runVars
<1>9. ASSUME match_is_on = kMatch_UseMacro, NEW lhs, lhs = TRUE, NEW rhs, MacroConstraint(lhs, rhs)
      PROVE  Counted'
  <2>1. CASE Stopped("crash")
    BY <1>0, <2>1, StoppedCounted
  <2>2. CASE ~Stopped("crash")
    <3>1. /\ unusual' = unusual \union (IF fun_vect # NULL THEN {"late"} ELSE {})
          /\ UNCHANGED <<match_is_on, fun_vect, nconserrs, exited>>
      BY <1>9, <2>2 DEF MacroConstraint, Late, modeVars, runVars
    <3>2. unusual' = {} => unusual = {} /\ fun_vect = NULL
      BY <3>1
    <3>3. ASSUME unusual' = {}
          PROVE  MacroCount'
      <4>1. MacroCount /\ exited' = NULL
        BY <1>0, <1>9, <3>1, <3>2, <3>3 DEF Counted
      <4> HIDE DEF kMatch_NoMatch, kMatch_Std, kMatch_UseMacro, kMatch_PTCknobs
      <4> QED
        BY <1>0, <1>9, <4>1, MacroConstrained
    <3> QED
      BY <1>9, <3>1, <3>2, <3>3 DEF Counted, Filled
  <2> QED
    BY <2>1, <2>2
<1>10. ASSUME NEW method, Method(method)
       PROVE  Counted'
  <2>1. CASE Stopped("crash")
    BY <1>0, <2>1, StoppedCounted
  <2>2. CASE ~Stopped("crash") /\ stored_match_var = {}
    <3>1. UNCHANGED <<jobVars, runVars, exited>> /\ unusual' # {}
      BY <1>10, <2>2 DEF Method, GiveUp
    <3> QED
      BY <3>1 DEF Counted, Filled, jobVars, runVars
  <2>3. CASE ~Stopped("crash") /\ stored_match_var # {}
    <3>1. /\ fun_vect' = [size |-> total_const, at |-> <<>>, ok |-> FALSE]
          /\ UNCHANGED <<modeVars, total_const, placeVars, match2, nconserrs, exited, unusual>>
      BY <1>10, <2>3 DEF Method
    <3>2. fun_vect'.size = total_const' /\ ~fun_vect'.ok
      BY <3>1
    <3>3. ASSUME exited' = NULL, unusual' = {}, match_is_on' = kMatch_Std
          PROVE  SequencesCounted'
      <4>1. SequencesCounted /\ UNCHANGED <<option, placeVars, total_const>>
        BY <3>1, <3>3 DEF Counted, modeVars
      <4>2. Loads' = Loads
        BY <4>1 DEF Loads, Load, placeVars
      <4>3. \A sequ : Finite(sequ) => Finite(sequ)'
        BY <4>1 DEF Finite, placeVars
      <4> QED
        BY <4>1, <4>2, <4>3 DEF SequencesCounted, placeVars
    <3>4. ASSUME exited' = NULL, unusual' = {}, match_is_on' = kMatch_UseMacro
          PROVE  MacroCount'
      BY <3>1, <3>4 DEF Counted, MacroCount, Counts, modeVars
    <3> QED
      BY <3>1, <3>2, <3>3, <3>4 DEF Counted, Filled
  <2> QED
    BY <2>1, <2>2, <2>3
<1>11. CASE NoMethod
  BY <1>1, <1>11 DEF NoMethod
<1>12. CASE EndStd
  <2>1. CASE Stopped("crash")
    BY <1>0, <2>1, StoppedCounted
  <2>2. CASE ~Stopped("crash")
    BY <1>12, <2>2 DEF EndStd, Counted, Filled, runVars
  <2> QED
    BY <2>1, <2>2
<1>13. CASE EndMacros
  BY <1>13 DEF EndMacros, Counted, Filled, runVars
<1> HIDE DEF kMatch_NoMatch, kMatch_Std, kMatch_UseMacro, kMatch_PTCknobs
<1>14. s.op = "constraint" => s.lhs = TRUE
  BY DEF Proper
<1> QED
  BY <1>1, <1>2, <1>3, <1>4, <1>5, <1>6, <1>7, <1>8, <1>9, <1>10, <1>11, <1>12, <1>13, <1>14
     DEF Statement

LEMMA TwissFills ==
  ASSUME SequencesCounted
  PROVE  Len(Concatenated(SubSeq(local_twiss, 1, match_num_seqs))) = total_const
<1> DEFINE n == match_num_seqs
           list == SubSeq(local_twiss, 1, n)
           S == {local_twiss[i] : i \in 1 .. MaxNames}
<1>1. /\ n \in Nat /\ n <= MaxNames /\ MaxNames \in Nat
      /\ \A i \in 1 .. n : local_twiss[i] = match_sequs[i] /\ Finite(match_sequs[i])
      /\ total_const = SumOver(Loads, 1 .. n)
  BY MatchingAssumption DEF SequencesCounted
<1>2. local_twiss \in Seq(S) /\ Len(local_twiss) = MaxNames
  <2>1. local_twiss = [i \in 1 .. MaxNames |-> local_twiss[i]]
    BY DEF SequencesCounted
  <2>2. \A i \in 1 .. MaxNames : local_twiss[i] \in S
    OBVIOUS
  <2> HIDE DEF S
  <2>3. local_twiss \in [1 .. MaxNames -> S] /\ DOMAIN local_twiss = 1 .. MaxNames
    BY <2>1, <2>2
  <2>4. local_twiss \in Seq(S)
    BY <1>1, <2>3, SeqDef
  <2> QED
    BY <1>1, <2>3, <2>4, LenProperties
<1> HIDE DEF S
<1>3. list \in Seq(S) /\ Len(list) = n
  <2>1. n <= Len(local_twiss)
    BY <1>1, <1>2
  <2> QED
    BY <1>1, <1>2, <2>1, PrefixIs
<1>4. \A i \in 1 .. n : list[i] = local_twiss[i]
  BY <1>1, <1>2
<1>5. DOMAIN list = 1 .. n /\ list \in Seq(Range(list))
  BY <1>3, LenProperties, SeqOfRange
<1> HIDE DEF list
<1>6. PICK f : f = Loads
  OBVIOUS
<1>7. \A i \in 1 .. n : Finite(list[i]) /\ f[i] = Load(list[i])
  BY <1>1, <1>4, <1>6 DEF Loads
<1>8. Len(Concatenated(list)) = SumOver(f, 1 .. n)
  <2>1. \A i \in 1 .. n : Finite(list[i])
    BY <1>7
  <2>2. \A i \in 1 .. n : f[i] = Load(list[i])
    BY <1>7
  <2>3. n \in Nat
    BY <1>1
  <2> HIDE DEF n
  <2> QED
    BY ONLY <1>5, <2>1, <2>2, <2>3, ConcatenatedLength
<1> QED
  BY <1>1, <1>6, <1>8 DEF list

LEMMA ConditionCounted ==
  ASSUME Counted, IInv, NullIsApart, Condition, UNCHANGED knobVars
  PROVE  Counted'
<1>1. running /\ exited = NULL
  BY DEF Condition
<1>2. match_is_on \in {kMatch_Std, kMatch_UseMacro} /\ fun_vect # NULL
  BY <1>1 DEF IInv, InLoop
<1>3. fun_vect = [size |-> fun_vect.size, at |-> fun_vect.at, ok |-> fun_vect.ok]
  BY <1>2 DEF IInv, MatchShapes
<1>4. ASSUME NEW at, NEW ok, fun_vect' = [fun_vect EXCEPT !.at = at, !.ok = ok]
      PROVE  fun_vect'.size = fun_vect.size /\ fun_vect'.at = at /\ fun_vect'.ok = ok
  <2>1. PICK v : v = [fun_vect EXCEPT !.at = at]
    OBVIOUS
  <2>2. v = [size |-> fun_vect.size, at |-> at, ok |-> fun_vect.ok]
    BY <1>3, <2>1
  <2>3. fun_vect' = [v EXCEPT !.ok = ok]
    BY <1>4, <2>1
  <2> QED
    BY <2>2, <2>3
<1>5. ASSUME unusual = {} => nconserrs' \in Nat,
             UNCHANGED <<modeVars, total_const, placeVars, match2, exited, unusual>>,
             fun_vect'.size = fun_vect.size,
             unusual = {} /\ fun_vect'.ok => Len(fun_vect'.at) = fun_vect.size
      PROVE  Counted'
  <2>1. Filled'
    BY <1>5 DEF Filled
  <2>2. ASSUME unusual' = {}, match_is_on' = kMatch_Std
        PROVE  SequencesCounted'
    <3>1. SequencesCounted /\ UNCHANGED <<option, placeVars, total_const>>
      BY <1>1, <1>5, <2>2 DEF Counted, modeVars
    <3>2. Loads' = Loads
      BY <3>1 DEF Loads, Load, placeVars
    <3>3. \A sequ : Finite(sequ) => Finite(sequ)'
      BY <3>1 DEF Finite, placeVars
    <3> QED
      BY <3>1, <3>2, <3>3 DEF SequencesCounted, placeVars
  <2>3. ASSUME unusual' = {}, match_is_on' = kMatch_UseMacro
        PROVE  MacroCount'
    BY <1>1, <1>5, <2>3 DEF Counted, MacroCount, Counts, modeVars
  <2>4. unusual' = {} => fun_vect'.size = total_const'
    BY <1>1, <1>2, <1>5 DEF Counted
  <2> QED
    BY <1>5, <2>1, <2>2, <2>3, <2>4 DEF Counted
<1>6. ASSUME NEW good, ConditionTwiss(good)
      PROVE  Counted'
  <2>1. CASE Stopped("crash")
    BY <1>1, <2>1, StoppedCounted, MatchingAssumption
  <2>2. CASE ~Stopped("crash")
    <3> DEFINE list == SubSeq(local_twiss, 1, good)
               at == Concatenated(list)
    <3>1. /\ match_is_on # kMatch_UseMacro
          /\ fun_vect' = [fun_vect EXCEPT !.at = at, !.ok = good = match_num_seqs]
          /\ UNCHANGED <<modeVars, total_const, placeVars, match2, nconserrs, exited, unusual>>
      BY <1>6, <2>2, Zenon DEF ConditionTwiss, Concatenated
    <3>2. PICK ok : ok = (good = match_num_seqs)
      OBVIOUS
    <3> HIDE DEF at
    <3>3. fun_vect'.size = fun_vect.size /\ fun_vect'.at = at /\ fun_vect'.ok = ok
      BY <1>4, <3>1, <3>2
    <3>4. ASSUME unusual = {}, fun_vect'.ok
          PROVE  Len(fun_vect'.at) = fun_vect.size
      <4>1. good = match_num_seqs
        BY <3>2, <3>3, <3>4
      <4>2. SequencesCounted /\ fun_vect.size = total_const
        BY <1>1, <1>2, <3>1, <3>4 DEF Counted
      <4>3. Len(at) = total_const
        BY <4>1, <4>2, TwissFills DEF at
      <4> QED
        BY <3>3, <4>2, <4>3
    <3>5. unusual = {} => nconserrs' \in Nat
      BY <1>1, <3>1 DEF Counted
    <3> QED
      BY <1>5, <3>1, <3>3, <3>4, <3>5
  <2> QED
    BY <2>1, <2>2
<1>7. ASSUME NEW failed, ConditionMacros(failed)
      PROVE  Counted'
  <2>1. PICK end : end = Conditions(failed)
    OBVIOUS
  <2>2. /\ match_is_on = kMatch_UseMacro
        /\ fun_vect' = [fun_vect EXCEPT !.at = end.at, !.ok = ~end.stab]
        /\ nconserrs' = end.errors
        /\ UNCHANGED <<modeVars, total_const, placeVars, match2, exited, unusual>>
    BY <1>7, <2>1 DEF ConditionMacros
  <2>3. fun_vect'.size = fun_vect.size /\ fun_vect'.at = end.at /\ fun_vect'.ok = ~end.stab
    <3>1. PICK at, ok : at = end.at /\ ok = ~end.stab
      OBVIOUS
    <3>2. fun_vect' = [fun_vect EXCEPT !.at = at, !.ok = ok]
      BY <2>2, <3>1
    <3> QED
      BY <1>4, <3>1, <3>2
  <2>4. CASE unusual = {}
    <3>1. PICK counts : Counts(counts) /\ total_const = SumOver(counts, 1 .. Len(match2.macros))
      BY <1>1, <2>2, <2>4 DEF Counted, MacroCount
    <3>2. fun_vect.size = total_const
      BY <1>1, <1>2, <2>4 DEF Counted
    <3>3. fun_vect.size = SumOver(counts, 1 .. Len(match2.macros)) /\ nconserrs \in Nat
      BY <1>1, <2>4, <3>1, <3>2 DEF Counted
    <3>4. end \in Filling(counts) /\ (~end.stab => Len(end.at) = fun_vect.size)
      BY <2>1, <3>1, <3>3, ConditionsFill
    <3>5. end.errors \in Nat
      BY <3>4 DEF Filling
    <3>6. fun_vect'.ok => Len(fun_vect'.at) = fun_vect.size
      BY <2>3, <3>4
    <3> QED
      BY <1>5, <2>2, <2>3, <3>5, <3>6
  <2>5. CASE unusual # {}
    BY <1>5, <2>2, <2>3, <2>5
  <2> QED
    BY <2>4, <2>5
<1> QED
  BY <1>6, <1>7 DEF Condition

LEMMA FromFileCounted ==
  ASSUME Counted, IInv, LeftSides, Idle, loop # NULL, FromFile
  PROVE  Counted'
<1> DEFINE code == File(loop.method)
           n == Len(code)
           s == Head(script)
<1>1. script # <<>> /\ Statement(s)
  BY DEF FromFile
<1>2. loop.at # "PTC" /\ mpk.variables # <<>>
  BY <1>1 DEF IInv, InLoop
<1>3. /\ code \in Seq(Range(code)) /\ n \in Nat /\ n > 4
      /\ code[1].op = "match" /\ code[1].with = "macros"
      /\ code[2].op = "vary" /\ code[3].op = "macro"
      /\ \A i \in 4 .. n - 2 : code[i].op = "constraint" /\ code[i].lhs = TRUE
      /\ code[n - 1].op = "method" /\ code[n].op = "endmatch"
  BY <1>2, FileIs DEF IInv
<1>4. PICK k \in 0 .. n : Phase(k)
  BY <1>2 DEF IInv, InLoop
<1>5. k < n /\ s = code[k + 1]
  <2>1. script = Rest(code, k)
    BY <1>4 DEF Phase
  <2>2. k < n
    BY <1>1, <1>3, <2>1, RestIs
  <2>3. Head(script) = code[k + 1]
    BY <1>3, <2>1, <2>2, RestIs
  <2> QED
    BY <2>2, <2>3
<1>6. k + 1 = 1 \/ k + 1 = 2 \/ k + 1 = 3 \/ k + 1 \in 4 .. n - 2 \/ k + 1 = n - 1 \/ k + 1 = n
  BY <1>3, <1>5
<1>7. /\ s.op # "global" /\ (s.op = "match" => s.with = "macros")
      /\ s.op = "constraint" => s.lhs = TRUE
  <2> HIDE DEF code, s, n
  <2> QED
    BY <1>3, <1>5, <1>6
<1>8. Proper(s)
  BY <1>7 DEF Proper
<1> HIDE DEF s
<1> QED
  BY <1>1, <1>7, <1>8, StatementCounted DEF IInv

(***************************************************************************)
(* A MATCH that names a sequence twice collects its constraints twice.     *)
(***************************************************************************)
NamedOnce ==
  \A s \in User : s.op = "match" /\ s.with = "sequences" => IsInjective(s.names)

LEMMA UserCounted ==
  ASSUME Counted, IInv, NamedOnce, LeftSides, NEW s \in User, UserStatement(s)
  PROVE  Counted'
<1>1. Idle /\ loop = NULL
  BY DEF UserStatement
<1>2. Proper(s)
  BY UserAssumption DEF Proper, NamedOnce, LeftSides
<1>3. CASE Statement(s)
  BY <1>1, <1>2, <1>3, StatementCounted DEF IInv
<1>4. CASE MatchKnobs
  BY <1>4, CountedKept DEF MatchKnobs, jobVars, runVars, kMatch_Std, kMatch_UseMacro, kMatch_PTCknobs
<1>5. ASSUME UNCHANGED matchVars
      PROVE  Counted'
  <2>1. UNCHANGED <<modeVars, jobVars, placeVars, match2, runVars, exited, unusual>>
    BY <1>5 DEF matchVars
  <2> QED
    BY <2>1, CountedKept DEF modeVars, jobVars, runVars
<1>6. ASSUME NEW method, NEW maxcalls, Run(method, maxcalls)
      PROVE  Counted'
  <2>1. CASE UNCHANGED vars
    BY <1>5, <2>1 DEF vars
  <2>2. CASE ~UNCHANGED vars
    <3>1. match_is_on' = kMatch_NoMatch /\ UNCHANGED <<jobVars, runVars, exited, unusual>>
      BY <1>6, <2>2 DEF Run, Off
    <3> QED
      BY <3>1, CountedKept DEF jobVars, runVars, kMatch_NoMatch, kMatch_Std, kMatch_UseMacro
  <2> QED
    BY <2>1, <2>2
<1>7. CASE EndKnobs
  <2>1. /\ match_is_on' \in {kMatch_PTCknobs, kMatch_NoMatch}
        /\ UNCHANGED <<jobVars, runVars, exited, unusual>>
    BY <1>7 DEF EndKnobs
  <2> QED
    BY <2>1, CountedKept
       DEF jobVars, runVars, kMatch_NoMatch, kMatch_Std, kMatch_UseMacro, kMatch_PTCknobs
<1>8. ASSUME NEW sequ, Aperture(sequ)
      PROVE  Counted'
  <2>1. unusual' # {} /\ UNCHANGED <<jobVars, runVars, exited>>
    BY <1>8 DEF Aperture
  <2> QED
    BY <2>1, CountedKept DEF jobVars, runVars
<1> QED
  BY <1>3, <1>4, <1>5, <1>6, <1>7, <1>8
     DEF UserStatement, Prepare, VaryKnob, KeepConstraint

LEMMA NextCounted ==
  NullIsApart /\ NamedOnce /\ LeftSides /\ IInv /\ Counted /\ [Next]_vars => Counted'
<1> SUFFICES ASSUME NullIsApart, NamedOnce, LeftSides, IInv, Counted, [Next]_vars
             PROVE  Counted'
  OBVIOUS
<1>1. ASSUME NEW s \in User, UserStatement(s)
      PROVE  Counted'
  BY <1>1, UserCounted
<1>2. CASE Condition /\ UNCHANGED knobVars
  BY <1>2, ConditionCounted
<1>3. CASE Idle /\ loop # NULL /\ FromFile
  BY <1>3, FromFileCounted
<1>4. CASE Calculate
  <2>1. /\ UNCHANGED <<modeVars, jobVars, placeVars, match2, runVars, exited>>
        /\ unusual' = {} => unusual = {}
    BY <1>4 DEF Calculate
  <2> QED
    BY <2>1, CountedKept DEF modeVars, jobVars, runVars
<1>5. CASE Verify
  <2>1. UNCHANGED <<option, jobVars, placeVars, runVars, exited, unusual>>
    BY <1>5 DEF Verify
  <2>2. match_is_on' = kMatch_PTCknobs \/ UNCHANGED <<match_is_on, match2>>
    BY <1>5, Zenon DEF Verify
  <2> QED
    BY <2>1, <2>2, CountedKept DEF jobVars, runVars, kMatch_Std, kMatch_UseMacro, kMatch_PTCknobs
<1>6. CASE UNCHANGED vars
  <2>1. UNCHANGED <<modeVars, jobVars, placeVars, match2, runVars, exited, unusual>>
    BY <1>6 DEF vars, matchVars
  <2> QED
    BY <2>1, CountedKept DEF modeVars, jobVars, runVars
<1> QED
  BY <1>1, <1>2, <1>3, <1>4, <1>5, <1>6 DEF Next, Goes

(***************************************************************************)
(* What mtcond writes into the vector of a minimiser, if it tells it that  *)
(* there are values, is one value for each place, and nothing beyond it,   *)
(* whichever macros or TWISS have failed before: the constraints that were *)
(* counted when they were given are those that are collected.              *)
(***************************************************************************)
THEOREM VectorFilled ==
  ASSUME NullIsApart, NamedOnce, LeftSides PROVE Spec => []Filled
<1>1. Init => Counted
  BY DEF Init, MatchInit, Counted, Filled, kMatch_NoMatch, kMatch_Std, kMatch_UseMacro
<1>2. IInv /\ [Next]_vars => IInv'
  BY NextIInv
<1>3. IInv /\ Counted /\ [Next]_vars => Counted'
  BY NextCounted
<1>4. Counted => Filled
  BY DEF Counted
<1> QED
  BY <1>1, <1>2, <1>3, <1>4, InitIInv, PTL DEF Spec
=============================================================================
