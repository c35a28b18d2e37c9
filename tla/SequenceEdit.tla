---------------------------- MODULE SequenceEdit ----------------------------
(***************************************************************************)
(* The sequence editor (SEQEDIT ... ENDEDIT) of mad_seq.c and mad_node.c,  *)
(* for a sequence of elements.  The editor works on a ring of linked       *)
(* nodes, the sorted list `nodes' that finds a node by its name, the       *)
(* occurrence counts `occ_list', from which names are made, and the list   *)
(* `ranges' (selected_ranges) of the nodes that SELECT commands cover.     *)
(* Both lists hold pointers: they read a node's name where it is, so that  *)
(* renaming a node renames an entry without moving it.                     *)
(*                                                                         *)
(* A command is one action: the program has one thread, and no command     *)
(* yields.  Elements are integers, with < for strcmp; a node's name is     *)
(* <<element, occurrence>>; the C address of a node is <<element, k>> for  *)
(* the element it was made from.  Expressions are their values.  A node    *)
(* that nothing points to any more is dropped from the state; if `ranges'  *)
(* still lists it, its name, which can no longer change, stays there.      *)
(***************************************************************************)
EXTENDS Integers, FiniteSets, SequencesExt

CONSTANTS
  Element,        \* the elements of the user
  START, END,     \* the markers that enter_sequence adds
  Marker,         \* the elements a cycle may start at
  Half,           \* Half[e]: half the length of e
  Length,         \* the length of the sequence
  Shift,          \* the distances of "move, by" and of "at" after "from"
  Initial,        \* the sequences to edit, as [elems, ref_flag]
  Selects,        \* the SELECT commands, as [range, class]
  Commands,       \* the commands in use
  Reuse,          \* elements to install although occ_list has them
  MaxNode,        \* bound: nodes in memory
  MaxRange        \* bound: entries of selected_ranges

PMark(e) == 100 + e             \* the marker <sequence>e_p_ made by CYCLE

IsPMark(e) == e > 100

Known == Element \union {START, END} \union {PMark(m) : m \in Marker}

ASSUME SequenceEditAssumption ==
  /\ Marker \subseteq Element
  /\ Element \cap {START, END} = {} /\ START # END
  /\ Element \union {START, END} \subseteq 1 .. 100
  /\ Length \in Nat /\ Shift \subseteq Int
  /\ \A e \in Known : Half[e] \in Int
  /\ \A q \in Initial : /\ q.elems \in Seq(Element) /\ q.at \in Seq(Int)
                         /\ Len(q.at) = Len(q.elems) /\ q.ref_flag \in Int
  /\ \A c \in Selects : c.class \subseteq Element

VARIABLES
  ed,             \* the sequence, occ_list and selected_ranges
  seqedit_select, \* the SELECT commands in force
  edit_is_on,
  fatal           \* has fatal_error ended the program?

vars == <<ed, seqedit_select, edit_is_on, fatal>>

NoName == <<0, 0>>              \* a node without from_name
All == <<>>                     \* a SELECT without RANGE
Dollar == {START, END}          \* elements with a $ in their name

-----------------------------------------------------------------------------
(* The sorted lists of nodes.  An entry of `ranges' whose node is gone is  *)
(* <<0, element, occurrence>>.                                             *)

NameOf(s, x) == IF Len(x) = 3 THEN Tail(x) ELSE s.node[x].name

Less(a, b) == a[1] < b[1] \/ (a[1] = b[1] /\ a[2] < b[2])

(***************************************************************************)
(* name_list_pos: the binary search, and the place it ends at.             *)
(***************************************************************************)
Probe(s, list, name) ==
  LET window[w \in (1 .. Len(list) + 1) \X (0 .. Len(list))] ==
        LET mid == (w[1] + w[2]) \div 2
            key == NameOf(s, list[mid])
        IN  IF w[1] > w[2] THEN [hit |-> FALSE, at |-> w[1]]
            ELSE IF key = name THEN [hit |-> TRUE, at |-> mid]
            ELSE IF Less(name, key) THEN window[<<w[1], mid - 1>>]
            ELSE window[<<mid + 1, w[2]>>]
  IN  window[<<1, Len(list)>>]

Has(s, list, name) == Probe(s, list, name).hit

Lookup(s, name) == s.nodes[Probe(s, s.nodes, name).at]

(***************************************************************************)
(* add_to_node_list: a node whose name is there already is not added.      *)
(***************************************************************************)
Added(s, list, n) ==
  LET p == Probe(s, list, s.node[n].name)
  IN  IF p.hit THEN list ELSE InsertAt(list, p.at, n)

(***************************************************************************)
(* The list that adding one node after the other makes.                    *)
(***************************************************************************)
AllAdded(s, path) == FoldLeft(LAMBDA list, n : Added(s, list, n), <<>>, path)

(***************************************************************************)
(* remove_from_node_list: it takes out the first entry with n's name.      *)
(***************************************************************************)
Delisted(s, n) ==
  LET same == {i \in DOMAIN s.nodes : NameOf(s, s.nodes[i]) = s.node[n].name}
  IN  IF same = {} THEN s.nodes ELSE RemoveAt(s.nodes, Min(same))

-----------------------------------------------------------------------------
(* The ring.                                                               *)

(***************************************************************************)
(* The nodes met when following next from one node up to another.          *)
(***************************************************************************)
Path(s, from, to) ==
  LET walk[k \in 0 .. Cardinality(DOMAIN s.node)] ==
        IF k = 0 THEN <<from>>
        ELSE LET w == walk[k - 1]
             IN  IF Last(w) = to THEN w ELSE Append(w, s.node[Last(w)].next)
  IN  walk[Cardinality(DOMAIN s.node)]

Ring(s) == Path(s, s.start, s.end)

Nodes(s) == ToSet(Ring(s))

(***************************************************************************)
(* The number of nodes that each element has in the ring.                  *)
(***************************************************************************)
Counts(s) ==
  LET ring == Nodes(s)
  IN  [e \in DOMAIN s.occ_list |->
         Cardinality({n \in ring : s.node[n].elem = e})]

(***************************************************************************)
(* s with f(n) for every node n of the ring.                               *)
(***************************************************************************)
OnRing(s, f(_)) ==
  LET ring == Nodes(s)
  IN  [s EXCEPT !.node = [n \in DOMAIN @ |-> IF n \in ring THEN f(n) ELSE @[n]]]

(***************************************************************************)
(* get_node_pos, for every node: the place declared for it, {} if it       *)
(* refers to an unknown element or, in a circle, to itself.                *)
(***************************************************************************)
Declared(s) ==
  LET own(n) == s.node[n].at_value + s.ref_flag * Half[s.node[n].elem]
      ref(n) == s.node[n].from_name
      pos[d \in 0 .. Cardinality(DOMAIN s.node)] ==
        [n \in DOMAIN s.node |->
           IF ref(n) = NoName THEN {own(n)}
           ELSE IF d = 0 \/ ~Has(s, s.nodes, ref(n)) THEN {}
           ELSE {own(n) + p : p \in pos[d - 1][Lookup(s, ref(n))]}]
  IN  pos[Cardinality(DOMAIN s.node)]

Resolved(s) == LET d == Declared(s) IN \A n \in Nodes(s) : d[n] # {}

Where(s, n) == CHOOSE p \in Declared(s)[n] : TRUE

(***************************************************************************)
(* all_node_pos, where it does not fail.                                   *)
(***************************************************************************)
Positioned(s) ==
  LET d == Declared(s)
  IN  OnRing(s, LAMBDA n : [s.node[n] EXCEPT !.position = CHOOSE p \in d[n] : TRUE])

(***************************************************************************)
(* resequence_nodes, after occ_list was emptied: names follow the ring.    *)
(***************************************************************************)
Resequenced(s) ==
  LET ring == Ring(s)
      elem(i) == s.node[ring[i]].elem
      occ(i) == Cardinality({j \in 1 .. i : elem(j) = elem(i)})
      name(n) == <<s.node[n].elem, occ(CHOOSE i \in DOMAIN ring : ring[i] = n)>>
  IN  [OnRing(s, LAMBDA n : [s.node[n] EXCEPT !.name = name(n)])
         EXCEPT !.occ_list = Counts(s)]

Linked_OneWay(s, n, c) ==       \* mutant: c->previous is not set
  [s EXCEPT !.node[s.node[c].previous].next = n,
            !.node[n].previous = s.node[c].previous,
            !.node[n].next = c]

Linked(s, n, c) ==              \* link_in_front(n, c)
  [s EXCEPT !.node[s.node[c].previous].next = n,
            !.node[n].previous = s.node[c].previous,
            !.node[n].next = c,
            !.node[c].previous = n]

Inserted_Reversed(s, n) ==      \* mutant: the comparison is turned round
  LET ring == Ring(s)
      behind == {i \in 2 .. Len(ring) :
                   \/ s.node[n].position >= s.node[ring[i]].position
                   \/ ring[i] = s.end}
  IN  Linked(s, n, ring[Min(behind)])

(***************************************************************************)
(* insert_elem: in front of the first node, after the start, that is not   *)
(* before n, or of the end.                                                *)
(***************************************************************************)
Inserted(s, n) ==
  LET ring == Ring(s)
      behind == {i \in 2 .. Len(ring) :
                   \/ s.node[n].position <= s.node[ring[i]].position
                   \/ ring[i] = s.end}
  IN  Linked(s, n, ring[Min(behind)])

-----------------------------------------------------------------------------
(* Editing one node.                                                       *)

Fresh(s, e) ==
  <<e, Min({k \in 1 .. Cardinality(DOMAIN s.node) + 1 :
              <<e, k>> \notin DOMAIN s.node})>>

(***************************************************************************)
(* install_one: a new node for e, named by the next occurrence.            *)
(***************************************************************************)
Installed(s, e, from_name, at, position) ==
  LET n   == Fresh(s, e)
      new == [name |-> <<e, s.occ_list[e] + 1>>, elem |-> e, at_value |-> at,
              from_name |-> from_name, position |-> position,
              next |-> n, previous |-> n]
      t   == [s EXCEPT !.node = [m \in DOMAIN @ \union {n} |->
                                   IF m = n THEN new ELSE @[m]],
                       !.occ_list[e] = @ + 1]
  IN  Inserted([t EXCEPT !.nodes = Added(t, @, n)], n)

Unlinked(s, n) ==
  LET t == [s EXCEPT !.node[s.node[n].previous].next = s.node[n].next]
  IN  [t EXCEPT !.node[t.node[n].next].previous = t.node[n].previous]

Removed_KeepsCount(s, n) ==     \* mutant: no decrement
  LET e == s.node[n].elem
      u == Unlinked(s, n)
  IN  IF s.occ_list[e] = 0 THEN s
      ELSE IF s.occ_list[e] = 1 THEN [u EXCEPT !.nodes = Delisted(u, n)]
      ELSE u

(***************************************************************************)
(* remove_one: unlinked, and taken off the list if it was the only one of  *)
(* its element.  Nothing happens if occ_list does not have the element.    *)
(***************************************************************************)
Removed(s, n) ==
  LET e == s.node[n].elem
      u == [Unlinked(s, n) EXCEPT !.occ_list[e] = @ - 1]
  IN  IF s.occ_list[e] = 0 THEN s
      ELSE IF s.occ_list[e] = 1 THEN [u EXCEPT !.nodes = Delisted(u, n)]
      ELSE u

(***************************************************************************)
(* replace_one: the node takes another element, and a new name.            *)
(***************************************************************************)
Replaced(s, n, e) ==
  LET t == [s EXCEPT !.nodes = Delisted(s, n),
                     !.occ_list[e] = @ + 1,
                     !.node[n].name = <<e, s.occ_list[e] + 1>>]
  IN  [t EXCEPT !.nodes = Added(t, @, n), !.node[n].elem = e]

(***************************************************************************)
(* What a removed node leaves behind: nothing, once no list and no other   *)
(* node points to it.                                                      *)
(***************************************************************************)
Kept(s) ==
  LET used == {n \in DOMAIN s.node :
                 \/ n \in ToSet(s.nodes)
                 \/ n \in {s.start, s.end}
                 \/ \E m \in DOMAIN s.node \ {n} :
                      n \in {s.node[m].next, s.node[m].previous}}
  IN  [s EXCEPT !.node = [n \in used |-> s.node[n]],
                !.ranges = [i \in DOMAIN @ |->
                              IF @[i] \in used THEN @[i]
                              ELSE <<0>> \o NameOf(s, @[i])]]

Moved_KeepsAt(s, n, at) ==      \* mutant: only the position is new
  IF s.occ_list[s.node[n].elem] = 0 THEN s
  ELSE Installed(Kept(Removed(s, n)), s.node[n].elem, NoName,
                 s.node[n].at_value, at)

(***************************************************************************)
(* A move: removed first, then installed at a place of its own.            *)
(***************************************************************************)
Moved(s, n, at) ==
  IF s.occ_list[s.node[n].elem] = 0 THEN s
  ELSE Installed(Kept(Removed(s, n)), s.node[n].elem, NoName, at, at)

-----------------------------------------------------------------------------
(* Selections.                                                             *)

(***************************************************************************)
(* find_node_by_name: in the list, or else along the ring; {} if nowhere.  *)
(***************************************************************************)
Found(s, name) ==
  LET ring == Ring(s)
      same == {i \in DOMAIN ring : s.node[ring[i]].name = name}
  IN  IF Has(s, s.nodes, name) THEN {Lookup(s, name)}
      ELSE IF same = {} THEN {} ELSE {ring[Min(same)]}

(***************************************************************************)
(* get_range: the nodes from one end of a range to the other.              *)
(***************************************************************************)
Span(s, range) ==
  IF range = All THEN Ring(s)
  ELSE IF \E i \in 1 .. 2 : Found(s, range[i]) = {} THEN <<>>
  ELSE CHOOSE path \in {Path(s, from, to) : from \in Found(s, range[1]),
                                           to \in Found(s, range[2])} : TRUE

(***************************************************************************)
(* get_select_ranges: the nodes of every range join selected_ranges.       *)
(***************************************************************************)
WithRanges(s) ==
  LET Add(t, n) == [t EXCEPT !.ranges = Added(t, @, n)]
  IN  FoldLeft(LAMBDA t, c : FoldLeft(Add, t, Span(t, c.range)), s, seqedit_select)

Covered(s, n) == s.ranges = <<>> \/ Has(s, s.ranges, s.node[n].name)

Passes(s, n) ==
  /\ s.node[n].elem \notin Dollar
  /\ \E k \in DOMAIN seqedit_select : s.node[n].elem \in seqedit_select[k].class

Chosen(s, n) == Covered(s, n) /\ Passes(s, n)

(***************************************************************************)
(* The node of the ring whose from_name names a selected node.             *)
(***************************************************************************)
Follows(s, n) ==
  /\ ~Covered(s, n)
  /\ s.node[n].from_name # NoName
  /\ Has(s, s.ranges, s.node[n].from_name)

RemoveSelected_Skips(s) ==      \* mutant: the node behind a removed one is missed
  LET t == WithRanges(s)
      Visit(b, n) == IF ~b.skip /\ Chosen(b.ed, n)
                     THEN [ed |-> Removed(b.ed, n), skip |-> TRUE]
                     ELSE [b EXCEPT !.skip = FALSE]
  IN  FoldLeft(Visit, [ed |-> t, skip |-> FALSE], Ring(t)).ed

RemoveSelected(s) ==
  LET t == WithRanges(s)
      Visit(u, n) == IF Chosen(u, n) THEN Removed(u, n) ELSE u
  IN  FoldLeft(Visit, t, Ring(t))

ReplaceSelected(s, e) ==
  LET t == WithRanges(s)
      chosen == SelectSeq(Ring(t), LAMBDA n : Chosen(t, n))
  IN  FoldLeft(LAMBDA u, n : Replaced(u, n, e), t, chosen)

MoveSelected_Overtaken(s, by) == \* mutant: the loop goes on behind the node moved
  LET t == WithRanges(s)
      Visit(u, n) == IF Chosen(u, n) THEN Moved(u, n, u.node[n].position + by) ELSE u
      sweep[k \in 0 .. Cardinality(DOMAIN t.node)] ==
        IF k = 0 THEN [ed |-> Visit(t, t.start), at |-> t.start]
        ELSE LET b == sweep[k - 1]
                 n == b.ed.node[b.at].next
             IN  IF b.at = b.ed.end THEN b ELSE [ed |-> Visit(b.ed, n), at |-> n]
  IN  sweep[Cardinality(DOMAIN t.node)].ed

(***************************************************************************)
(* The loop never sees the end, nor a node that it has itself moved.       *)
(***************************************************************************)
MoveSelected(s, by) ==
  LET t == WithRanges(s)
      Visit(u, n) ==
        IF Chosen(u, n) THEN Moved(u, n, u.node[n].position + by)
        ELSE IF Follows(u, n) THEN Moved(u, n, u.node[n].position)
        ELSE u
  IN  FoldLeft(Visit, t, Front(Ring(t)))

(***************************************************************************)
(* The loop meets the nodes it installs behind the current one, too; fuel  *)
(* is the number of nodes it may visit.                                    *)
(***************************************************************************)
InstallSelected(s, e, at, fuel) ==
  LET t == WithRanges(s)
      Visit(u, n) ==
        IF Chosen(u, n)
        THEN Installed(u, e, u.node[n].name, at, at + Where(u, n))
        ELSE u
      sweep[k \in 0 .. fuel] ==
        IF k = 0 THEN [ed |-> Visit(t, t.start), at |-> t.start]
        ELSE LET b == sweep[k - 1]
                 n == b.ed.node[b.at].next
             IN  IF b.at = b.ed.end THEN b ELSE [ed |-> Visit(b.ed, n), at |-> n]
  IN  sweep[fuel].ed

-----------------------------------------------------------------------------
(* Editing the whole sequence.                                             *)

Wrapped_NotAtZero(s) ==         \* mutant: a node at the place of the start stays
  LET ring == Ring(s)
      zero == s.node[s.start].position
      raw(i) == s.node[ring[i]].position - zero
      place(i) == IF ring[i] = s.end THEN Length
                  ELSE IF raw(i) < 0 THEN raw(i) + Length ELSE raw(i)
      index(n) == CHOOSE i \in DOMAIN ring : ring[i] = n
      Place(n) == IF n = s.end \/ s.node[n].from_name = NoName
                  THEN [s.node[n] EXCEPT !.position = place(index(n)),
                                         !.at_value = place(index(n))]
                  ELSE s.node[n]
  IN  OnRing(s, Place)

(***************************************************************************)
(* set_new_position: places count from the new start, and wrap.            *)
(***************************************************************************)
Wrapped(s) ==
  LET ring == Ring(s)
      zero == s.node[s.start].position
      raw(i) == s.node[ring[i]].position - zero
      free(i) == s.node[ring[i]].from_name = NoName
      flag(i) == \E j \in 1 .. i - 1 :
                   /\ free(j)
                   /\ raw(j) > 0 \/ (raw(j) < 0 /\ raw(j) + Length > 0)
      wraps(i) == raw(i) < 0 \/ (raw(i) = 0 /\ flag(i))
      place(i) == IF ring[i] = s.end THEN Length
                  ELSE IF wraps(i) THEN raw(i) + Length ELSE raw(i)
      index(n) == CHOOSE i \in DOMAIN ring : ring[i] = n
      Place(n) == IF n = s.end \/ free(index(n))
                  THEN [s.node[n] EXCEPT !.position = place(index(n)),
                                         !.at_value = place(index(n))]
                  ELSE s.node[n]
  IN  OnRing(s, Place)

(***************************************************************************)
(* seq_cycle: a marker in front of the new start becomes the end, unless   *)
(* one is there by its name.                                               *)
(***************************************************************************)
Cycled(s, m) ==
  LET n == Lookup(s, <<m, 1>>)
      c == Fresh(s, PMark(m))
      clone == [s.node[n] EXCEPT !.elem = PMark(m)]
      t == IF IsPMark(s.node[s.node[n].previous].name[1]) THEN s
           ELSE Linked([s EXCEPT !.node = [x \in DOMAIN @ \union {c} |->
                                             IF x = c THEN clone ELSE @[x]]],
                       c, n)
  IN  Wrapped([t EXCEPT !.start = n, !.end = t.node[n].previous])

Reflected(s) ==
  LET Mirror(x) == [x EXCEPT !.next = x.previous, !.previous = x.next,
                             !.from_name = NoName,
                             !.position = Length - x.position,
                             !.at_value = Length - x.position]
  IN  [OnRing(s, LAMBDA n : Mirror(s.node[n]))
         EXCEPT !.start = s.end, !.end = s.start]

(***************************************************************************)
(* seq_flatten: the clones of the ring, in a list made anew, at the places *)
(* computed for them.                                                      *)
(***************************************************************************)
Flattened(s) ==
  LET t == [Positioned(s) EXCEPT !.occ_list = Counts(s)]
      Clone(x) == [x EXCEPT !.at_value = x.position, !.from_name = NoName]
  IN  [t EXCEPT
         !.node = [n \in Nodes(t) |-> Clone(t.node[n])],
         !.nodes = AllAdded(t, Ring(t)),
         !.ref_flag = 0,
         !.ranges = [i \in DOMAIN @ |-> <<0>> \o NameOf(t, @[i])]]

-----------------------------------------------------------------------------
(* The commands.                                                           *)

Command(c) == ~fatal /\ edit_is_on /\ c \in Commands

(***************************************************************************)
(* Bound: how far from its reference a node may be placed.                 *)
(***************************************************************************)
MaxPlace == 2 * Length

(***************************************************************************)
(* The command makes s of the edited sequence.                             *)
(***************************************************************************)
Edits(s) ==
  /\ Cardinality(DOMAIN Kept(s).node) <= MaxNode
  /\ Len(s.ranges) <= MaxRange
  /\ \A n \in Nodes(s) : s.node[n].at_value \in -MaxPlace .. MaxPlace
  /\ \A e \in Element \ Reuse : Counts(s)[e] <= 1
  /\ ed' = Kept(s)
  /\ UNCHANGED <<seqedit_select, edit_is_on, fatal>>

(***************************************************************************)
(* fatal_error ends the program; so does a circle of from's, by exhausting *)
(* the stack.                                                              *)
(***************************************************************************)
EditsIf(resolved, edit) ==
  \/ resolved /\ edit
  \/ ~resolved /\ fatal' = TRUE /\ UNCHANGED <<ed, seqedit_select, edit_is_on>>

(***************************************************************************)
(* Inputs: places inside the sequence; nodes other than the two the ring   *)
(* starts and ends with, which "must never be removed"; elements that are  *)
(* new, and come once, unless they are in Reuse.                           *)
(***************************************************************************)
Inside(p) == p \in 0 .. Length

Loose(n) == n \notin {ed.start, ed.end}

LooseSelection == \A n \in Nodes(ed) : Passes(ed, n) => Loose(n)

MayAdd(e) == ed.occ_list[e] = 0 \/ e \in Reuse

Names == {ed.node[n].name : n \in DOMAIN ed.node}

UserName(x) == x[1] \in Element /\ Has(ed, ed.nodes, x)

Seqedit ==
  /\ ~fatal /\ "seqedit" \in Commands
  /\ LET s == Resequenced(ed)
     IN  IF Resolved(s)
         THEN ed' = Positioned(s) /\ edit_is_on' = TRUE /\ UNCHANGED fatal
         ELSE fatal' = TRUE /\ UNCHANGED <<ed, edit_is_on>>
  /\ UNCHANGED seqedit_select

Endedit ==
  /\ Command("endedit")
  /\ ed' = Kept([Resequenced(ed) EXCEPT !.ranges = <<>>])
  /\ edit_is_on' = FALSE
  /\ UNCHANGED <<seqedit_select, fatal>>

Flatten == Command("flatten") /\ EditsIf(Resolved(ed), Edits(Flattened(ed)))

Install(e, at) ==
  /\ Command("install") /\ MayAdd(e)
  /\ Edits(Installed(ed, e, NoName, at, at))

InstallFrom(e, x, d) ==
  /\ Command("install_from") /\ MayAdd(e) /\ UserName(x)
  /\ EditsIf(Declared(ed)[Lookup(ed, x)] # {},
             LET p == d + Where(ed, Lookup(ed, x))
             IN  Inside(p) /\ Edits(Installed(ed, e, x, d, p)))

InstallAtSelected(e, d) ==
  /\ Command("install_selected") /\ MayAdd(e) /\ seqedit_select # <<>>
  /\ LET t == WithRanges(ed)
         known == \A n \in Nodes(ed) : Chosen(t, n) => Declared(ed)[n] # {}
     IN  EditsIf(known, Edits(InstallSelected(ed, e, d, MaxNode)))

MoveTo(x, to) ==
  /\ Command("move") /\ UserName(x) /\ Loose(Lookup(ed, x)) /\ Inside(to)
  /\ Edits(Moved(ed, Lookup(ed, x), to))

MoveBy(x, by) == MoveTo(x, ed.node[Lookup(ed, x)].position + by)

MoveTheSelected(by) ==
  /\ Command("move_selected") /\ seqedit_select # <<>> /\ LooseSelection
  /\ \A n \in Nodes(ed) : Passes(ed, n) => Inside(ed.node[n].position + by)
  /\ Edits(MoveSelected(ed, by))

RemoveNamed(x) ==
  /\ Command("remove") /\ UserName(x) /\ Loose(Lookup(ed, x))
  /\ Edits(Removed(ed, Lookup(ed, x)))

RemoveTheSelected ==
  /\ Command("remove_selected") /\ seqedit_select # <<>> /\ LooseSelection
  /\ Edits(RemoveSelected(ed))

ReplaceNamed(x, e) ==
  /\ Command("replace") /\ UserName(x) /\ Loose(Lookup(ed, x)) /\ MayAdd(e)
  /\ Edits(Replaced(ed, Lookup(ed, x), e))

ReplaceTheSelected(e) ==
  /\ Command("replace_selected") /\ seqedit_select # <<>> /\ LooseSelection
  /\ MayAdd(e)
  /\ Edits(ReplaceSelected(ed, e))

(***************************************************************************)
(* The marker of a CYCLE has the name of the node it was cloned from until *)
(* the edit ends; the sequence is turned again only then.                  *)
(***************************************************************************)
OwnNames ==
  \/ "turn_again" \in Commands
  \/ \A n \in Nodes(ed) : IsPMark(ed.node[n].elem) => IsPMark(ed.node[n].name[1])

Reflect == Command("reflect") /\ OwnNames /\ Edits(Reflected(ed))

Cycle(m) ==
  /\ Command("cycle") /\ OwnNames /\ Has(ed, ed.nodes, <<m, 1>>)
  /\ LET s == Cycled(ed, m) IN EditsIf(Resolved(s), Edits(Positioned(s)))

Select(c) ==
  /\ ~fatal /\ "select" \in Commands
  /\ c \notin ToSet(seqedit_select)
  /\ seqedit_select' = Append(seqedit_select, c)
  /\ UNCHANGED <<ed, edit_is_on, fatal>>

SelectClear ==
  /\ ~fatal /\ "select" \in Commands
  /\ seqedit_select' = <<>>
  /\ ed' = Kept([ed EXCEPT !.ranges = <<>>])
  /\ UNCHANGED <<edit_is_on, fatal>>

-----------------------------------------------------------------------------
(***************************************************************************)
(* What enter_sequence and its elements leave: the nodes in a ring, each   *)
(* named by its occurrence, and not placed yet.                            *)
(***************************************************************************)
Defined(q) ==
  LET elems == <<START>> \o q.elems \o <<END>>
      places == <<0>> \o q.at \o <<Length>>
      size == Len(elems)
      id(i) == <<elems[i], Cardinality({j \in 1 .. i : elems[j] = elems[i]})>>
      node(i) == [name |-> id(i), elem |-> elems[i], at_value |-> places[i],
                  from_name |-> NoName, position |-> 0,
                  next |-> id(IF i = size THEN 1 ELSE i + 1),
                  previous |-> id(IF i = 1 THEN size ELSE i - 1)]
      s == [node |-> [n \in {id(i) : i \in 1 .. size} |->
                        node(CHOOSE i \in 1 .. size : id(i) = n)],
            nodes |-> <<>>,
            start |-> id(1), end |-> id(size),
            ref_flag |-> q.ref_flag,
            occ_list |-> [e \in Known |-> 0],
            ranges |-> <<>>]
  IN  [s EXCEPT !.nodes = AllAdded(s, [i \in 1 .. size |-> id(i)])]

Init ==
  /\ \E q \in Initial : ed = Defined(q)
  /\ seqedit_select = <<>>
  /\ edit_is_on = FALSE
  /\ fatal = FALSE

EditOne ==
  \/ \E e \in Element, at \in 0 .. Length : Install(e, at)
  \/ \E e \in Element, x \in Names, d \in Shift : InstallFrom(e, x, d)
  \/ \E x \in Names, to \in 0 .. Length : MoveTo(x, to)
  \/ \E x \in Names, by \in Shift : MoveBy(x, by)
  \/ \E x \in Names : RemoveNamed(x)
  \/ \E x \in Names, e \in Element : ReplaceNamed(x, e)

EditSelected ==
  \/ \E e \in Element, d \in Shift : InstallAtSelected(e, d)
  \/ \E by \in Shift : MoveTheSelected(by)
  \/ RemoveTheSelected
  \/ \E e \in Element : ReplaceTheSelected(e)

EditAll == Seqedit \/ Endedit \/ Flatten \/ Reflect \/ \E m \in Marker : Cycle(m)

Next ==
  \/ EditOne \/ EditSelected \/ EditAll
  \/ \E c \in Selects : Select(c)
  \/ SelectClear

Spec == Init /\ [][Next]_vars

-----------------------------------------------------------------------------
(* Every pointer of the ring has its inverse, and the walk from the start, *)
(* which every command makes, comes to the end.                            *)
RingIntact ==
  /\ Last(Ring(ed)) = ed.end
  /\ ed.node[ed.end].next = ed.start
  /\ \A n \in Nodes(ed) : /\ ed.node[ed.node[n].next].previous = n
                          /\ ed.node[ed.node[n].previous].next = n

(* The list finds the nodes of the ring, each under its name, and nothing  *)
(* else; only the markers of CYCLE need not be on it.                      *)
Findable ==
  /\ \A n \in Nodes(ed) :
       IsPMark(ed.node[n].elem) \/
         /\ Has(ed, ed.nodes, ed.node[n].name)
         /\ Lookup(ed, ed.node[n].name) = n
  /\ ToSet(ed.nodes) \subseteq Nodes(ed)

(* A node is named after its element, by a number that occ_list has passed *)
(* already, so that the next installation makes a name of its own.         *)
Named ==
  \A n \in Nodes(ed) :
    LET x == ed.node[n]
    IN  IsPMark(x.elem) \/
          /\ x.name[1] = x.elem
          /\ edit_is_on => x.name[2] \in 1 .. ed.occ_list[x.elem]

(***************************************************************************)
(* Ring, list and counts say the same of the sequence after every edit: the *)
(* ring is closed both ways, the list of seq_remove, seq_move and          *)
(* seq_replace leads to every node of it by its name and to no other, and  *)
(* install_one never gives a name that is taken.                           *)
(***************************************************************************)
Intact == RingIntact /\ Findable /\ Named

(***************************************************************************)
(* While a sequence is edited its nodes follow each other in the order of  *)
(* their places, and all of them lie inside it.                            *)
(***************************************************************************)
Ordered ==
  edit_is_on =>
    LET ring == Ring(ed)
        p(i) == ed.node[ring[i]].position
    IN  /\ \A i \in 1 .. Len(ring) - 1 : p(i) <= p(i + 1)
        /\ p(1) = 0 /\ p(Len(ring)) = Length

(***************************************************************************)
(* The place a node has during the edit is the one that is computed for it *)
(* when the sequence is next opened, flattened or used.                    *)
(***************************************************************************)
Placed ==
  edit_is_on => \A n \in Nodes(ed) : Declared(ed)[n] = {ed.node[n].position}

(* The nodes of an element in the ring.                                    *)
NodesOf(s, e) == {n \in Nodes(s) : s.node[n].elem = e}

(***************************************************************************)
(* A command that leaves of each element at least as many nodes as there   *)
(* were keeps every "from" leading to its node, however nodes are moved,   *)
(* renamed and cloned by it, and makes no circle of them: get_node_pos is  *)
(* not fatal afterwards.                                                   *)
(***************************************************************************)
KeepsReferences ==
  [][(Resolved(ed) /\ ~fatal
      /\ \A e \in Element : Cardinality(NodesOf(ed, e)) <= Cardinality(NodesOf(ed', e)))
       => Resolved(ed') /\ ~fatal']_vars

(***************************************************************************)
(* The program stops only over nodes that no place can be computed for: a  *)
(* set of them in which each is "from" another one, or from an element that *)
(* the sequence no longer has.  A search of the list that goes wrong never *)
(* stops it.                                                               *)
(***************************************************************************)
Stopped ==
  fatal =>
    \E lost \in (SUBSET Nodes(ed)) \ {{}} : \A n \in lost :
      LET ref == ed.node[n].from_name
          found == {m \in Nodes(ed) : ed.node[m].elem = ref[1]}
      IN  ref # NoName /\ found \subseteq lost

(* The selections.                                                         *)

Fulfills(n, c) == ed.node[n].elem \in c.class /\ n \in ToSet(Span(ed, c.range))

OneSelect ==
  /\ ed.ranges = <<>> /\ Len(seqedit_select) = 1
  /\ Span(ed, seqedit_select[1].range) # <<>>

Placements(s) == {<<s.node[n].elem, s.node[n].position>> : n \in Nodes(s)}

(***************************************************************************)
(* With one SELECT in force, of a range that is there, and no ranges left  *)
(* over from earlier, REMOVE takes out the nodes that fulfill it, however  *)
(* many follow each other, and no others.                                  *)
(***************************************************************************)
RemovesSelected ==
  [][RemoveTheSelected /\ OneSelect =>
       Nodes(ed') = {n \in Nodes(ed) : ~Fulfills(n, seqedit_select[1])}]_vars

(***************************************************************************)
(* MOVE then takes the nodes that fulfill it by the same distance, each of *)
(* them once, past those that stay.                                        *)
(***************************************************************************)
MovesSelected ==
  [][\A by \in Shift :
       MoveTheSelected(by) /\ OneSelect =>
         Placements(ed') =
           {<<ed.node[n].elem,
              ed.node[n].position
                + IF Fulfills(n, seqedit_select[1]) THEN by ELSE 0>> :
              n \in Nodes(ed)}]_vars

-----------------------------------------------------------------------------
(* What the manual says (doc/latexuguide/seqedit.tex and control.tex), and *)
(* the code does not do where an element comes twice, where selections are *)
(* combined, or where a sequence is turned and flattened in one edit.      *)

(***************************************************************************)
(* ENDEDIT: "The nodes in the sequence are finally renumbered according to *)
(* their occurrence", and found by their numbers.                          *)
(***************************************************************************)
Renumbered ==
  ~edit_is_on =>
    \A n \in Nodes(ed) : /\ Has(ed, ed.nodes, ed.node[n].name)
                         /\ Lookup(ed, ed.node[n].name) = n

(***************************************************************************)
(* REMOVE: ELEMENT is the "name of existing element(s) to be removed": the *)
(* nodes of all other elements stay.                                       *)
(***************************************************************************)
RemovesOnlyNamed ==
  [][\A x \in Names : RemoveNamed(x) =>
       \A n \in Nodes(ed) : ed.node[n].elem # x[1] => n \in Nodes(ed')]_vars

(***************************************************************************)
(* SELECT: "selected elements have to fulfill all provided criteria in the *)
(* single SELECT statement": REMOVE takes out none that fulfills the range *)
(* of one and the class of another only.                                   *)
(***************************************************************************)
RemovesOnlySelected ==
  [][RemoveTheSelected =>
       \A n \in Nodes(ed) :
         (\A c \in ToSet(seqedit_select) : ~Fulfills(n, c)) => n \in Nodes(ed')]_vars

(***************************************************************************)
(* CYCLE: the marker it inserts has "a name composed of the name of the    *)
(* sequence" and of the start: the name of the start is never its own.     *)
(***************************************************************************)
StartFound ==
  \A m \in Marker :
    Has(ed, ed.nodes, <<m, 1>>) => ed.node[Lookup(ed, <<m, 1>>)].elem = m
=============================================================================
