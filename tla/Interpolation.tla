---------------------------- MODULE Interpolation ----------------------------
(***************************************************************************)
(* Points inside of elements: mad_inter.c.                                 *)
(*                                                                         *)
(* SELECT, flag=interpolate gives the nodes of expanded sequences points   *)
(* at which TWISS writes a row (interp_at), and counts the rows this adds  *)
(* to the table (num_interp).  The commands are kept, and USE, which makes *)
(* the expanded sequence anew, gives them again.                           *)
(*                                                                         *)
(* PLOT and APERTURE cut a node into slices: interpolate_node puts a chain *)
(* of clones into the ring in the place of the node and makes it the       *)
(* range, reset_interpolation takes it out.  Bends need up to three clones *)
(* of their element as well, because only the first slice has an entry     *)
(* face and only the last one has an exit face.                            *)
(***************************************************************************)
EXTENDS Integers, FiniteSets, SequencesExt, FiniteSetsExt

CONSTANTS
  Line,         \* sequence -> its nodes in their order, when it is expanded
  Bends,        \* the nodes that are bends
  Length,       \* node -> length
  Selects,      \* what may be given: [clear, sequ, class, at, step, slice]
  None,
  Ranges,       \* bound: sequence -> [first, last] of the ranges USE may be given
  MaxSlices,    \* bound: slices of one node
  MaxUses,      \* bound: USE commands
  MaxSelects    \* bound: SELECT commands that are kept

Sequ == DOMAIN Line

Nodes == UNION {ToSet(Line[s]) : s \in Sequ}

Slices == {<<"slice", j>> : j \in 1..MaxSlices}

Clones == {"template", "first", "last"}

Faces == {"entry", "exit"}

ASSUME InterpolationAssumption ==
  /\ IsFiniteSet(Sequ) /\ Line \in [Sequ -> Seq(Nodes)] /\ Nodes \intersect Slices = {}
  /\ None \notin Sequ
  /\ None \notin [node : Nodes, nint : 1..MaxSlices, start : Nodes, end : Nodes]
  /\ \A s, t \in Sequ : s # t => ToSet(Line[s]) \intersect ToSet(Line[t]) = {}
  /\ \A s \in Sequ : Len(Line[s]) >= 2 /\ IsInjective(Line[s])
  /\ Bends \subseteq Nodes
  /\ Length \in [Nodes -> Nat]
  /\ \A s \in Sequ : Length[Line[s][1]] = 0 /\ Length[Last(Line[s])] = 0
  /\ \A s \in Sequ : \A r \in Ranges[s] :
       r.first \in 1..r.last /\ r.last \in 1..Len(Line[s])
  /\ \A node \in Nodes, j \in 1..MaxSlices : Length[node] % j = 0
  /\ Selects \subseteq [clear : BOOLEAN, sequ : Sequ \union {None}, class : {"any", "bend", "other"},
                        at : Nat, step : Nat, slice : Nat \ {0}]
  /\ None \notin [by : {"at", "slice"}, count : Nat \ {0}]
  /\ MaxSlices \in Nat \ {0} /\ MaxUses \in Nat /\ MaxSelects \in Nat

VARIABLES
  used,           \* current_sequ, or None
  expanded,       \* the sequences whose ex_start is not NULL
  next, previous,             \* the rings of nodes
  range_start, range_end,     \* of each sequence
  elem,           \* p_elem of the slices
  made,           \* cloned elements -> [parts, faces], for those not deleted
  backup,         \* what reset_interpolation has to restore, or None
  slicing,        \* PLOT or APERTURE is between the two calls
  exited,         \* fatal_error was called
  broken,         \* an element was deleted that is not there (any more)
  interp_select,  \* the SELECT commands that are kept
  interp_at,      \* node or slice -> its points, or None
  num_interp,     \* sequence -> rows the points add to the table
  given,          \* the user's view: the points last selected for each node
  uses

ring == <<next, previous>>
range == <<range_start, range_end>>
points == <<interp_select, interp_at, num_interp, given>>
clones == <<elem, made, backup, broken>>
vars == <<used, expanded, ring, range, clones, slicing, exited, points, uses>>

-----------------------------------------------------------------------------
(***************************************************************************)
(* The nodes that a loop over node->next meets from a to b.                *)
(***************************************************************************)
Walk(a, b) ==
  LET met[k \in 0..Cardinality(DOMAIN next)] ==
        IF k = 0 THEN {a}
        ELSE LET near == met[k - 1]
             IN  near \union {next[n] : n \in near \ {b}}
  IN  met[Cardinality(DOMAIN next)]

Expanded(s) == IF s \in expanded THEN Walk(Line[s][1], Last(Line[s])) ELSE {}

(***************************************************************************)
(* The number of rows for a node's points, more than the one it has anyway. *)
(***************************************************************************)
Extra(at) == IF at = None THEN 0 ELSE at.count - 1

-----------------------------------------------------------------------------
(***************************************************************************)
(* pass_select_el, on the element of a node or of the node it is cut from. *)
(***************************************************************************)
Passes(cmd, node) ==
  LET whole == IF node \in Slices THEN backup.node ELSE node
  IN  cmd.class \in {"any", IF whole \in Bends THEN "bend" ELSE "other"}

NodeLength(node) ==
  IF node \in Slices THEN Length[backup.node] \div backup.nint ELSE Length[node]

(***************************************************************************)
(* The points select_interp gives to a node of length l.  Places that are  *)
(* given are for nodes with a length; one slice needs no points.           *)
(***************************************************************************)
Points(cmd, l) ==
  LET nint == IF cmd.step > 0 THEN Max({l \div cmd.step, 1}) ELSE cmd.slice
  IN  IF cmd.clear THEN None
      ELSE IF cmd.at > 0 /\ l > 0 THEN [by |-> "at", count |-> cmd.at]
      ELSE IF nint = 1 \/ l = 0 THEN None ELSE [by |-> "slice", count |-> nint]

(***************************************************************************)
(* select_interp, on all sequences or on the one that is named.            *)
(***************************************************************************)
Gain_KeepsOne(old, new) == Extra(new) - (IF old = None THEN 0 ELSE old.count)

Gain(old, new) == Extra(new) - Extra(old)

Fetched(nodes, cmd, s) ==
  IF cmd.sequ \in {None, s} THEN {n \in nodes[s] : Passes(cmd, n)} ELSE {}

Selected(state, cmd) ==
  LET fetched(s) == Fetched(state.nodes, cmd, s)
      at == [n \in DOMAIN state.at |-> IF \E s \in Sequ : n \in fetched(s)
                                       THEN Points(cmd, NodeLength(n)) ELSE state.at[n]]
  IN  [nodes |-> state.nodes, at |-> at,
       num |-> [s \in Sequ |-> state.num[s]
                  + MapThenSumSet(LAMBDA n : Gain(state.at[n], at[n]), fetched(s))]]

Give(state) ==
  /\ interp_at' = state.at
  /\ num_interp' = state.num

-----------------------------------------------------------------------------
(***************************************************************************)
(* SELECT and DESELECT: store_select_command, select_interp.  A CLEAR      *)
(* without any condition empties the list; others are kept like any other. *)
(***************************************************************************)
Filtered(cmd) == cmd.sequ # None \/ cmd.class # "any"

Stored_DropsClear(cmd) == IF cmd.clear THEN <<>> ELSE Append(interp_select, cmd)

Stored(cmd) ==
  IF cmd.clear /\ ~Filtered(cmd) THEN <<>> ELSE Append(interp_select, cmd)

Select ==
  /\ ~slicing /\ ~exited
  /\ \E cmd \in Selects :
       /\ Len(Stored(cmd)) <= MaxSelects
       /\ interp_select' = Stored(cmd)
       /\ UNCHANGED <<used, expanded, ring, range, clones, slicing, exited, uses>>
       /\ Give(Selected([at |-> interp_at, num |-> num_interp,
                         nodes |-> [s \in Sequ |-> Expanded(s)]], cmd))
       /\ given' = [n \in Nodes |->
            IF (\E s \in Sequ : n \in ToSet(Line[s]) /\ cmd.sequ \in {None, s}) /\ Passes(cmd, n)
            THEN Points(cmd, Length[n]) ELSE given[n]]

(***************************************************************************)
(* USE: expand_curr_sequ deletes the ring, makes a new one and sets the    *)
(* range; then the selections are given again, to all sequences.           *)
(***************************************************************************)
Replayed(state) == FoldLeft(Selected, state, interp_select)

Use ==
  /\ ~slicing /\ ~exited /\ uses < MaxUses
  /\ uses' = uses + 1
  /\ \E s \in Sequ : \E r \in Ranges[s] :
       LET line == Line[s]
           place(n) == CHOOSE i \in 1..Len(line) : line[i] = n
           after(i) == IF i = Len(line) THEN line[1] ELSE line[i + 1]
           before(i) == IF i = 1 THEN Last(line) ELSE line[i - 1]
       IN  /\ used' = s
           /\ expanded' = expanded \union {s}
           /\ next' = [n \in DOMAIN next |->
                IF n \in ToSet(line) THEN after(place(n)) ELSE next[n]]
           /\ previous' = [n \in DOMAIN previous |->
                IF n \in ToSet(line) THEN before(place(n)) ELSE previous[n]]
           /\ range_start' = [range_start EXCEPT ![s] = line[r.first]]
           /\ range_end' = [range_end EXCEPT ![s] = line[r.last]]
           /\ UNCHANGED <<clones, slicing, exited, interp_select, given>>
           /\ LET state == [at |-> [n \in DOMAIN interp_at |->
                                     IF n \in ToSet(line) THEN None ELSE interp_at[n]],
                            num |-> num_interp,
                            nodes |-> [u \in Sequ |-> IF u = s THEN ToSet(line)
                                                      ELSE Expanded(u)]]
              IN  Give(IF interp_select = <<>> THEN state ELSE Replayed(state))

-----------------------------------------------------------------------------
(***************************************************************************)
(* The element of slice j of nint: bends get one for the first slice if    *)
(* there is another slice, and one for the last if there is a third.       *)
(***************************************************************************)
Own_First(node, nint, j) ==
  IF node \notin Bends THEN node
  ELSE IF j = 1 /\ nint >= 3 THEN "first"
  ELSE IF j = nint /\ nint >= 3 THEN "last" ELSE "template"

Own(node, nint, j) ==
  IF node \notin Bends THEN node
  ELSE IF j = 1 /\ nint >= 2 THEN "first"
  ELSE IF j = nint /\ nint >= 3 THEN "last" ELSE "template"

Made(node, nint) ==
  LET own(j) == Own(node, nint, j)
  IN  [e \in IF node \in Bends THEN {own(j) : j \in 1..nint} ELSE {} |->
         [parts |-> nint,
          faces |-> {f \in Faces : e = IF f = "entry" THEN own(1) ELSE own(nint)}]]

(***************************************************************************)
(* The chain of slices, linked to the neighbours of the node.              *)
(***************************************************************************)
Chained(nint, to, front, back) ==
  [n \in DOMAIN to |->
     IF n = front THEN <<"slice", 1>>
     ELSE IF n \in Slices /\ n[2] < nint THEN <<"slice", n[2] + 1>>
     ELSE IF n = <<"slice", nint>> THEN back
     ELSE to[n]]

Unchained(nint, to, front, back) ==
  [n \in DOMAIN to |->
     IF n = back THEN <<"slice", nint>>
     ELSE IF n \in Slices /\ n[2] \in 2..nint THEN <<"slice", n[2] - 1>>
     ELSE IF n = <<"slice", 1>> THEN front
     ELSE to[n]]

(***************************************************************************)
(* interpolate_node.                                                       *)
(***************************************************************************)
Interpolate(node, nint) ==
  /\ backup' = [node |-> node, nint |-> nint,
                start |-> range_start[used], end |-> range_end[used]]
  /\ next' = Chained(nint, next, previous[node], next[node])
  /\ previous' = Unchained(nint, previous, previous[node], next[node])
  /\ elem' = [n \in Slices |-> IF n[2] <= nint THEN Own(node, nint, n[2]) ELSE None]
  /\ made' = Made(node, nint)
  /\ interp_at' = [n \in DOMAIN interp_at |-> IF n \in Slices THEN None ELSE interp_at[n]]
  /\ range_start' = [range_start EXCEPT ![used] = <<"slice", 1>>]
  /\ range_end' = [range_end EXCEPT ![used] = <<"slice", nint>>]
  /\ slicing' = TRUE
  /\ UNCHANGED <<used, expanded, broken, exited, interp_select, num_interp, given, uses>>

(***************************************************************************)
(* PLOT and APERTURE, for a node of the range.                             *)
(***************************************************************************)
Slice ==
  /\ used # None /\ ~slicing /\ ~exited /\ backup = None
  /\ \E node \in Walk(range_start[used], range_end[used]), nint \in 1..MaxSlices :
       /\ Length[node] = 0 => nint = 1
       /\ Interpolate(node, nint)

(***************************************************************************)
(* "node interpolation ongoing, undefined behavior will follow".           *)
(***************************************************************************)
Refuse ==
  /\ used # None /\ ~slicing /\ ~exited /\ backup # None
  /\ exited' = TRUE
  /\ UNCHANGED <<used, expanded, ring, range, clones, slicing, points, uses>>

(***************************************************************************)
(* reset_interpolation.                                                    *)
(***************************************************************************)
Deleted_LastTwice ==
  LET first == elem[<<"slice", 1>>]
      second == elem[next[<<"slice", 1>>]]
  IN  IF backup.nint = 1 THEN <<first>> ELSE <<first, second, elem[<<"slice", backup.nint>>]>>

Deleted ==
  LET first == elem[<<"slice", 1>>]
      second == elem[next[<<"slice", 1>>]]
  IN  IF backup.nint = 1 THEN <<first>>
      ELSE IF backup.nint = 2 THEN <<first, second>>
      ELSE <<first, second, elem[<<"slice", backup.nint>>]>>

Reset ==
  /\ slicing
  /\ slicing' = FALSE
  /\ LET node == backup.node
         deleted == IF node \in Bends THEN Deleted ELSE <<>>
     IN  /\ made' = [e \in DOMAIN made \ ToSet(deleted) |-> made[e]]
         /\ broken' = (broken \/ ~IsInjective(deleted) \/ ~(ToSet(deleted) \subseteq DOMAIN made))
         /\ next' = [n \in DOMAIN next |->
              IF n \in Slices THEN None ELSE IF n = previous[node] THEN node ELSE next[n]]
         /\ previous' = [n \in DOMAIN previous |->
              IF n \in Slices THEN None ELSE IF n = next[node] THEN node ELSE previous[n]]
  /\ range_start' = [range_start EXCEPT ![used] = backup.start]
  /\ range_end' = [range_end EXCEPT ![used] = backup.end]
  /\ elem' = [n \in Slices |-> None]
  /\ backup' = None
  /\ UNCHANGED <<used, expanded, exited, points, uses>>

(***************************************************************************)
(* peintp, when the plot buffer is full: it returns without a reset, and   *)
(* the plot goes on with what there is.                                    *)
(***************************************************************************)
Truncate ==
  /\ slicing /\ Length[backup.node] > 0 /\ backup.nint >= 2
  /\ slicing' = FALSE
  /\ UNCHANGED <<used, expanded, ring, range, clones, exited, points, uses>>

-----------------------------------------------------------------------------
Init ==
  /\ used = None /\ expanded = {}
  /\ next = [n \in Nodes \union Slices |-> None]
  /\ previous = [n \in Nodes \union Slices |-> None]
  /\ range_start = [s \in Sequ |-> None] /\ range_end = [s \in Sequ |-> None]
  /\ elem = [n \in Slices |-> None] /\ made = <<>>
  /\ backup = None
  /\ slicing = FALSE /\ exited = FALSE /\ broken = FALSE
  /\ interp_select = <<>>
  /\ interp_at = [n \in Nodes \union Slices |-> None]
  /\ num_interp = [s \in Sequ |-> 0]
  /\ given = [n \in Nodes |-> None]
  /\ uses = 0

Next == Select \/ Use \/ Slice \/ Refuse \/ Reset \/ Truncate

Spec == Init /\ [][Next]_vars

-----------------------------------------------------------------------------
(***************************************************************************)
(* The nodes of an expanded sequence have the points that were last        *)
(* selected for them: what USE gives again is what was there, however      *)
(* selections of classes and sequences and clears of some of them follow   *)
(* each other, and whether the sequence was expanded when they were given. *)
(***************************************************************************)
AsSelected ==
  ~slicing => \A s \in expanded : \A n \in Expanded(s) \intersect Nodes : interp_at[n] = given[n]

(***************************************************************************)
(* The table TWISS makes has a place for every row it is going to write:   *)
(* num_interp is never less than what the points add.                      *)
(***************************************************************************)
EnoughRows ==
  ~slicing => \A s \in expanded :
    num_interp[s] >= MapThenSumSet(LAMBDA n : Extra(interp_at[n]), Expanded(s))

(* While no interpolation goes on: what USE has made is there again.       *)
Restored ==
  backup = None =>
    /\ DOMAIN made = {}
    /\ \A s \in expanded :
         /\ \A i \in 1..(Len(Line[s]) - 1) :
              next[Line[s][i]] = Line[s][i + 1] /\ previous[Line[s][i + 1]] = Line[s][i]
         /\ next[Last(Line[s])] = Line[s][1] /\ previous[Line[s][1]] = Last(Line[s])
         /\ \E r \in Ranges[s] :
              range_start[s] = Line[s][r.first] /\ range_end[s] = Line[s][r.last]

(* While one goes on: TWISS over the range meets the slices and nothing    *)
(* else, and they are linked to the neighbours of the node both ways.      *)
InPlace ==
  slicing =>
    LET slice(j) == <<"slice", j>>
        node == backup.node
        n == backup.nint
    IN  /\ range_start[used] = slice(1) /\ range_end[used] = slice(n)
        /\ \A j \in 1..(n - 1) :
             next[slice(j)] = slice(j + 1) /\ previous[slice(j + 1)] = slice(j)
        /\ next[previous[slice(1)]] = slice(1) /\ previous[slice(1)] = previous[node]
        /\ previous[next[slice(n)]] = slice(n) /\ next[slice(n)] = next[node]

(***************************************************************************)
(* Slicing a node is undone by reset_interpolation, whatever was truncated *)
(* or refused meanwhile: the slices stand in the place of the node as long *)
(* as they are there; afterwards rings and ranges are those of USE, and    *)
(* every element that was cloned was deleted, once.                        *)
(***************************************************************************)
Whole == ~broken /\ Restored /\ InPlace

(***************************************************************************)
(* The slices of a bend are together the bend: equal parts of its angle,   *)
(* the entry face before the first of them and the exit face behind the    *)
(* last, each once.  Slices of other elements are the element.             *)
(***************************************************************************)
SlicesAreBend ==
  slicing =>
    \A j \in 1..backup.nint :
      LET e == elem[<<"slice", j>>]
      IN  IF backup.node \notin Bends THEN e = backup.node
          ELSE /\ e \in DOMAIN made /\ made[e].parts = backup.nint
               /\ "entry" \in made[e].faces <=> j = 1
               /\ "exit" \in made[e].faces <=> j = backup.nint

-----------------------------------------------------------------------------
(* What the source says of itself, and what does not hold.                 *)

(***************************************************************************)
(* "node interpolation ongoing": interpolate_node is never called when the *)
(* last interpolation was not reset.  A truncated plot does not reset it.  *)
(***************************************************************************)
NeverOngoing == ~exited

(***************************************************************************)
(* num_interp is the "number of additonal rows in the twiss table"         *)
(* (mad_seq.h).  USE gives the selections again, but does not start to     *)
(* count from 0.                                                           *)
(***************************************************************************)
AdditionalRows ==
  ~slicing => \A s \in expanded :
    num_interp[s] = MapThenSumSet(LAMBDA n : Extra(interp_at[n]), Expanded(s))
=============================================================================
