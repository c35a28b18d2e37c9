----------------------------- MODULE Expansion -----------------------------
(***************************************************************************)
(* From the definition of a sequence or of a line to the ring of nodes     *)
(* that the physics runs on (mad_seq.c, mad_node.c, mad_cmd.c): LINE,      *)
(* SEQUENCE ... ENDSEQUENCE and USE.                                       *)
(*                                                                         *)
(* USE makes a sequence of a line, once, puts copies of the nodes of       *)
(* sub-sequences in the place of the nodes that stand for them, and fills  *)
(* the gaps with drifts.  Positions and lengths are whole numbers, those   *)
(* of elements even; a node of the ring is kept by its entry instead of    *)
(* its centre.                                                             *)
(***************************************************************************)
EXTENDS LineExpansion

CONSTANTS
  Lengths,       \* element -> the lengths it may have
  LineNames,     \* names of lines
  LineBodies,    \* what LINE statements define: records of name, formal and members
  Declarations,  \* what SEQUENCE statements define: records of name, length, ref (entry 1,
                 \*   centre 0, exit -1), refpos and members, each of a name and a place
  NoName,
  tol,           \* 1e-6 in the code
  MaxDefinitions \* bound: names of lines and sequences made, together

Element == DOMAIN Lengths
SequenceNames == LineNames \cup {d.name : d \in Declarations}

ASSUME EvenAssumption ==
  /\ \A e \in Element : \A l \in Lengths[e] : l % 2 = 0
  /\ \A d \in Declarations : d.length % 2 = 0

VARIABLES
  length,        \* element -> its length now
  el_length,     \* element -> the length kept with it
  line_list,     \* name -> a line and whether it is dead; names without a line are not there
  heap,          \* every sequence that was made
  sequences,     \* name -> its place in heap, 0 if there is none
  current_sequ,  \* the place of the sequence last defined or used, 0 at first
  state          \* "running", or how the program ended: "fatal", "freed"

vars == <<length, el_length, line_list, heap, sequences, current_sequ, state>>

-----------------------------------------------------------------------------
(***************************************************************************)
(* LINE.                                                                   *)
(***************************************************************************)
MayMake == Cardinality(DOMAIN line_list) + Len(heap) < MaxDefinitions

MakeLine(body) ==
  /\ body.name \in DOMAIN line_list \/ MayMake
  /\ line_list' = (body.name :> [formal |-> body.formal, members |-> body.members,
                                 tokens |-> Text(body.members), dead |-> FALSE]) @@ line_list
  /\ UNCHANGED <<length, el_length, heap, sequences, current_sequ, state>>

(***************************************************************************)
(* The length of an element, by "->l =" or through an expression.  What is *)
(* kept with the element is set when the element is made.                  *)
(***************************************************************************)
SetLength(e, l) ==
  /\ length[e] # l
  /\ length' = [length EXCEPT ![e] = l]
  /\ UNCHANGED <<el_length, line_list, heap, sequences, current_sequ, state>>

-----------------------------------------------------------------------------
(***************************************************************************)
(* A node starts with the length that is kept with its element.  Nodes are *)
(* numbered per element; markers of no length are the ends.                *)
(***************************************************************************)
Start(name) == name \o "$start"
End(name) == name \o "$end"

ElementNode(e, occ, at, l) == [elem |-> e, occ |-> occ, sub |-> 0, at |-> at, length |-> l]

SequenceNode(id, name, occ, at, l) == [elem |-> name, occ |-> occ, sub |-> id, at |-> at, length |-> l]

Occurrence(names, i) == Cardinality({j \in 1 .. i : names[j] = names[i]})

Enclosed(name, l, nodes) ==
  <<ElementNode(Start(name), 1, 0, 0)>> \o nodes \o <<ElementNode(End(name), 1, l, 0)>>

NewSequence(name, l, ref, refpos, nodes) ==
  [name |-> name, length |-> l, ref |-> ref, refpos |-> refpos, nodes |-> nodes,
   ring |-> <<>>, n_nodes |-> 0, freed |-> FALSE]

(***************************************************************************)
(* A new sequence takes the place of the one of its name, which is deleted *)
(* whoever still points to it.                                             *)
(***************************************************************************)
Entered(s) ==
  LET old == sequences[s.name]
  IN Append([i \in DOMAIN heap |-> IF i = old THEN [heap[i] EXCEPT !.freed = TRUE] ELSE heap[i]], s)

(***************************************************************************)
(* SEQUENCE, the elements and sequences in it, and ENDSEQUENCE.  The       *)
(* length of a sequence in it is taken down now.                           *)
(***************************************************************************)
Declared(d) ==
  LET names == [i \in DOMAIN d.members |-> d.members[i].name]
      Node(i) == LET m == d.members[i]
                 IN IF m.name \in Element
                    THEN ElementNode(m.name, Occurrence(names, i), m.at, el_length[m.name])
                    ELSE SequenceNode(sequences[m.name], m.name, Occurrence(names, i), m.at,
                                      heap[sequences[m.name]].length)
  IN NewSequence(d.name, d.length, d.ref, d.refpos, Enclosed(d.name, d.length, [i \in DOMAIN names |-> Node(i)]))

EnterSequence(d) ==
  /\ MayMake
  /\ \A i \in DOMAIN d.members :
       d.members[i].name \notin Element => sequences[d.members[i].name] # 0
  /\ heap' = Entered(Declared(d))
  /\ sequences' = [sequences EXCEPT ![d.name] = Len(heap')]
  /\ line_list' = [n \in DOMAIN line_list |->
                     IF n = d.name THEN [line_list[n] EXCEPT !.dead = TRUE] ELSE line_list[n]]
  /\ current_sequ' = Len(heap')
  /\ UNCHANGED <<length, el_length, state>>

(***************************************************************************)
(* line_nodes: the elements of a line one behind the other, if they are    *)
(* all known.                                                              *)
(***************************************************************************)
Known(elements) == \A i \in DOMAIN elements : elements[i] \in Element

Upto(elements, i) == FoldLeft(LAMBDA l, k : l + length[elements[k]], 0, [k \in 1 .. i |-> k])

LineSequence(name) ==
  LET elements == Expanded(line_list, name)
      Node(i) == ElementNode(elements[i], Occurrence(elements, i),
                             Upto(elements, i - 1) + length[elements[i]] \div 2, el_length[elements[i]])
      whole == Upto(elements, Len(elements))
  IN NewSequence(name, whole, 0, NoName, Enclosed(name, whole, [i \in DOMAIN elements |-> Node(i)]))

-----------------------------------------------------------------------------
(***************************************************************************)
(* Where a node is: get_node_pos and get_refpos, less half the length.     *)
(***************************************************************************)
Half(l) == l \div 2

Centre(s, node) == node.at + s.ref * Half(node.length)

Refpos(s) ==
  IF s.refpos = NoName THEN Half(s.length)
  ELSE Centre(s, s.nodes[CHOOSE i \in DOMAIN s.nodes : s.nodes[i].elem = s.refpos /\ s.nodes[i].occ = 1])

(***************************************************************************)
(* all_node_pos, for the sequence that is used: its nodes, and what is     *)
(* kept with their elements, take the lengths there are now.               *)
(***************************************************************************)
Fresh(h, s) ==
  [s EXCEPT !.nodes = [i \in DOMAIN @ |->
     [@[i] EXCEPT !.length = IF s.nodes[i].sub # 0 THEN h[s.nodes[i].sub].length
                             ELSE IF s.nodes[i].elem \in Element THEN length[s.nodes[i].elem]
                             ELSE 0]]]

RECURSIVE Flat(_, _, _)

(***************************************************************************)
(* expand_sequence, with the offset 0, and expand_node: the nodes of a     *)
(* sub-sequence replace the one that stands for it.  That node's position  *)
(* is the place of its middle, or, if it has a reference element, the      *)
(* place that was asked for.                                               *)
(***************************************************************************)
Position_Middle(h, s, node, offset) == offset + Centre(s, node)

Position(h, s, node, offset) ==
  LET position == offset + Centre(s, node)
  IN IF h[node.sub].refpos = NoName THEN position ELSE position - s.ref * Half(h[node.sub].length)

Flat(h, s, offset) ==
  LET Nodes(node) ==
        IF node.sub = 0
        THEN <<[elem |-> node.elem, occ |-> node.occ, length |-> node.length,
                entry |-> offset + Centre(s, node) - Half(node.length)]>>
        ELSE Flat(h, h[node.sub], Position(h, s, node, offset) - Refpos(h[node.sub]))
  IN FlattenSeq([i \in DOMAIN s.nodes |-> Nodes(s.nodes[i])])

(***************************************************************************)
(* Of the nodes that are copied only the first of a sub-sequence gets a    *)
(* new name, which counts how often the sub-sequence was met.              *)
(***************************************************************************)
Renamed(ring) ==
  LET elems == [i \in DOMAIN ring |-> ring[i].elem]
  IN [i \in DOMAIN ring |->
        IF \E n \in SequenceNames : elems[i] = Start(n)
        THEN [ring[i] EXCEPT !.occ = Occurrence(elems, i)] ELSE ring[i]]

(***************************************************************************)
(* add_drifts: gaps within tol are left, as is one of minus the length of  *)
(* the sequence; wider ones get a drift, overlaps are fatal.  It counts    *)
(* the nodes on the way.                                                   *)
(***************************************************************************)
Exit(node) == node.entry + node.length
Gap(a, b) == b.entry - Exit(a)
Abs(i) == IF i < 0 THEN -i ELSE i
Round(gap, l) == Abs(gap + l) < tol

Drift(a, b) == [elem |-> "drift", occ |-> 0, length |-> Gap(a, b), entry |-> Exit(a)]

AddDrifts_CountsElements(ring, l) ==
  LET Step(r, i) ==
        LET gap == Gap(ring[i - 1], ring[i])
        IN IF gap > tol
           THEN [r EXCEPT !.ring = @ \o <<Drift(ring[i - 1], ring[i]), ring[i]>>, !.count = @ + 1]
           ELSE [r EXCEPT !.ring = Append(@, ring[i]), !.count = @ + 1,
                          !.fatal = @ \/ (~Round(gap, l) /\ gap < -tol)]
  IN FoldLeft(Step, [ring |-> <<ring[1]>>, count |-> 1, fatal |-> FALSE],
              [i \in 1 .. Len(ring) - 1 |-> i + 1])

AddDrifts(ring, l) ==
  LET Step(r, i) ==
        LET gap == Gap(ring[i - 1], ring[i])
        IN IF gap > tol
           THEN [r EXCEPT !.ring = @ \o <<Drift(ring[i - 1], ring[i]), ring[i]>>, !.count = @ + 2]
           ELSE [r EXCEPT !.ring = Append(@, ring[i]), !.count = @ + 1,
                          !.fatal = @ \/ (~Round(gap, l) /\ gap < -tol)]
  IN FoldLeft(Step, [ring |-> <<ring[1]>>, count |-> 1, fatal |-> FALSE],
              [i \in 1 .. Len(ring) - 1 |-> i + 1])

(***************************************************************************)
(* A node may stand for a sequence that was deleted.                       *)
(***************************************************************************)
RECURSIVE MeetsFreed(_, _)

MeetsFreed(h, s) ==
  \E i \in DOMAIN s.nodes :
    s.nodes[i].sub # 0 /\ (h[s.nodes[i].sub].freed \/ MeetsFreed(h, h[s.nodes[i].sub]))

(***************************************************************************)
(* expand_curr_sequ of the sequence at a place in the heap.                *)
(***************************************************************************)
Expand(h, id) ==
  LET s == Fresh(h, h[id])
      all == AddDrifts(Renamed(Flat(h, s, 0)), s.length)
  IN /\ heap' = [h EXCEPT ![id] = [s EXCEPT !.ring = all.ring, !.n_nodes = all.count]]
     /\ el_length' = [e \in Element |->
                        IF \E i \in DOMAIN s.nodes : s.nodes[i].elem = e THEN length[e] ELSE el_length[e]]
     /\ state' = IF all.fatal THEN "fatal" ELSE "running"

(***************************************************************************)
(* USE, SEQUENCE=name: a line that is not dead becomes a sequence first.   *)
(***************************************************************************)
IsLive(name) == name \in DOMAIN line_list /\ ~line_list[name].dead

UseLine(name) ==
  /\ IsLive(name)
  /\ MayMake
  /\ line_list' = [line_list EXCEPT ![name].dead = TRUE]
  /\ sequences' = [sequences EXCEPT ![name] = Len(heap) + 1]
  /\ current_sequ' = Len(heap) + 1
  /\ IF Known(Expanded(line_list, name))
     THEN Expand(Entered(LineSequence(name)), Len(heap) + 1)
     ELSE state' = "fatal" /\ UNCHANGED <<el_length, heap>>
  /\ UNCHANGED length

UseSequence(name) ==
  /\ ~IsLive(name)
  /\ sequences[name] # 0
  /\ current_sequ' = sequences[name]
  /\ IF MeetsFreed(heap, heap[sequences[name]])
     THEN state' = "freed" /\ UNCHANGED <<el_length, heap>>
     ELSE Expand(heap, sequences[name])
  /\ UNCHANGED <<length, line_list, sequences>>

Init ==
  /\ length \in [Element -> UNION {Lengths[e] : e \in Element}]
  /\ \A e \in Element : length[e] \in Lengths[e]
  /\ el_length = length
  /\ line_list = <<>>
  /\ heap = <<>>
  /\ sequences = [n \in SequenceNames |-> 0]
  /\ current_sequ = 0
  /\ state = "running"

Next ==
  /\ state = "running"
  /\ \/ \E body \in LineBodies : MakeLine(body)
     \/ \E e \in Element : \E l \in Lengths[e] : SetLength(e, l)
     \/ \E d \in Declarations : EnterSequence(d)
     \/ \E name \in SequenceNames : UseLine(name)
     \/ \E name \in SequenceNames : UseSequence(name)

Spec == Init /\ [][Next]_vars

-----------------------------------------------------------------------------
(***************************************************************************)
(* LINE: a line that is converted gives the elements that repetition,      *)
(* reflection, sub-lines and arguments mean, as the manual describes them, *)
(* whatever was defined, replaced and used before.                         *)
(***************************************************************************)
LineMeans ==
  [][\A name \in SequenceNames :
       IsLive(name) /\ state' # "fatal" /\ line_list'[name].dead /\ sequences'[name] = current_sequ'
         /\ heap'[current_sequ'].n_nodes # 0
       => LET nodes == heap'[current_sequ'].nodes
          IN [i \in 1 .. Len(nodes) - 2 |-> nodes[i + 1].elem] = Meaning(line_list, name)]_vars

(***************************************************************************)
(* The sequence that was used, and whether it is there.                    *)
(***************************************************************************)
Used == state = "running" /\ current_sequ # 0 /\ heap[current_sequ].n_nodes # 0

This == heap[current_sequ]

(***************************************************************************)
(* USE: the nodes of the ring, which n_nodes counts, lead from the start   *)
(* to the end and add up to the length of the sequence, give or take the   *)
(* tolerance at each of them, as often as the ring goes around.            *)
(***************************************************************************)
Rounds == Cardinality({i \in 2 .. Len(This.ring) : Round(Gap(This.ring[i - 1], This.ring[i]), This.length)})

Total == FoldLeft(LAMBDA l, node : l + node.length, 0, This.ring)

Covers ==
  Used =>
    /\ This.n_nodes = Len(This.ring)
    /\ This.ring[1].entry = 0
    /\ Exit(This.ring[Len(This.ring)]) = This.length
    /\ Abs(Total - (1 + Rounds) * This.length) <= tol * (Len(This.ring) - 1)

(***************************************************************************)
(* "Depending upon the REFER attribute of the current sequence, the entry, *)
(* centre, or exit of the inserted sequence is placed at the position      *)
(* specified"; with REFPOS "the element pointed to by REFPOS is at the     *)
(* location specified" (sequence.tex).  Layout says so from the entries    *)
(* down, through sub-sequences of sub-sequences.                           *)
(***************************************************************************)
EntryOf(s, at, l) == at + (s.ref - 1) * Half(l)

RECURSIVE Layout(_, _)

Layout(s, entry) ==
  LET Nodes(node) ==
        LET sub == heap[node.sub]
        IN IF node.sub = 0
           THEN <<[elem |-> node.elem, entry |-> entry + EntryOf(s, node.at, node.length)]>>
           ELSE Layout(sub, entry + IF sub.refpos = NoName THEN EntryOf(s, node.at, sub.length)
                                    ELSE node.at - Refpos(sub))
  IN FlattenSeq([i \in DOMAIN s.nodes |-> Nodes(s.nodes[i])])

Arranged ==
  Used =>
    LET own == SelectSeq(This.ring, LAMBDA node : node.elem # "drift")
    IN [i \in DOMAIN own |-> [elem |-> own[i].elem, entry |-> own[i].entry]] = Layout(This, 0)

(***************************************************************************)
(* Claims of the manual that do not hold.                                  *)
(*                                                                         *)
(* "In order to vary a position or element length, a re-expansion of the   *)
(* sequence becomes necessary" (sequence.tex): it does not reach the nodes *)
(* of sub-sequences, which keep the lengths of their definition.           *)
(***************************************************************************)
FreshLengths ==
  [][heap' # heap /\ Used' =>
       \A i \in DOMAIN heap'[current_sequ'].ring :
         LET node == heap'[current_sequ'].ring[i]
         IN node.elem \in Element => node.length = length[node.elem]]_vars

(***************************************************************************)
(* "When the distance [...] is negative and less than -1um, the elements   *)
(* are considered to be overlapping and MAD-X terminates" (sequence.tex):  *)
(* not if it is the length of the sequence.                                *)
(***************************************************************************)
Overlaps ==
  Used => \A i \in 2 .. Len(This.ring) : Gap(This.ring[i - 1], This.ring[i]) >= -tol

(***************************************************************************)
(* "Instances of the same class can then be accessed with an occurrence    *)
(* count" (sequence.tex): the nodes of sub-sequences come with the counts  *)
(* they have there.                                                        *)
(***************************************************************************)
Accessible ==
  Used => \A i, j \in DOMAIN This.ring :
            This.ring[i].elem # "drift" /\ i # j
              => <<This.ring[i].elem, This.ring[i].occ>> # <<This.ring[j].elem, This.ring[j].occ>>

(***************************************************************************)
(* A definition "will be replaced" by another of its name: the sequences   *)
(* that contain it go on with the one that was deleted.                    *)
(***************************************************************************)
Survives == state # "freed"
=============================================================================
