--------------------------- MODULE SequenceLayout ---------------------------
(***************************************************************************)
(* What the sequence editor of MAD-X promises its user: a sequence is a    *)
(* list of elements, each at a place, in the order of the places.  There   *)
(* are no nodes, names, pointers or occurrence counts here, and opening,   *)
(* closing and flattening change nothing.  SequenceEdit shows that the     *)
(* ring of mad_seq.c implements this when no element comes twice, for the  *)
(* commands that name one element or turn the sequence.                    *)
(*                                                                         *)
(* Each edit relates a layout l to the layout m that it makes.             *)
(***************************************************************************)
EXTENDS Integers, SequencesExt

CONSTANTS
  Element,            \* the elements of the user
  Length,             \* the length of the sequence
  PMark(_)            \* the marker that closes a sequence cycled at an element

VARIABLE layout       \* a sequence of [elem, pos]

LayoutOrdered(l) == \A i \in 1 .. Len(l) - 1 : l[i].pos <= l[i + 1].pos

Elems(l) == [i \in DOMAIN l |-> l[i].elem]

Present(l, e) == e \in ToSet(Elems(l))

Interior(l) == 2 .. Len(l) - 1

(***************************************************************************)
(* l with e at p: before all that is at p or further on, but inside.       *)
(***************************************************************************)
With(l, e, p) ==
  LET further == {i \in 2 .. Len(l) : p <= l[i].pos \/ i = Len(l)}
  IN  InsertAt(l, Min(further), [elem |-> e, pos |-> p])

Install(l, m) ==
  \E e \in Element, p \in 0 .. Length :
    /\ ~Present(l, e)
    /\ m = With(l, e, p)

Move(l, m) ==
  \E i \in Interior(l), p \in 0 .. Length :
    m = With(RemoveAt(l, i), l[i].elem, p)

TakeOut(l, m) == \E i \in Interior(l) : m = RemoveAt(l, i)

Replace(l, m) ==
  \E i \in Interior(l), e \in Element :
    /\ ~Present(l, e)
    /\ m = [l EXCEPT ![i].elem = e]

Reflect(l, m) ==
  m = Reverse([i \in DOMAIN l |-> [l[i] EXCEPT !.pos = Length - @]])

(***************************************************************************)
(* The turn that starts at some element and ends with a marker: the others *)
(* keep their order and their distances around the ring.                   *)
(***************************************************************************)
Cycle(l, m) ==
  \E i \in DOMAIN l :
    LET turn == SubSeq(l, i, Len(l)) \o SubSeq(l, 1, i - 1)
        mark == [elem |-> PMark(l[i].elem), pos |-> l[i].pos]
    IN  /\ l[i].elem \in Element
        /\ \E t \in {turn, Append(turn, mark)} :
             /\ Elems(m) = Elems(t)
             /\ \A k \in DOMAIN t :
                  m[k].pos - (t[k].pos - l[i].pos) \in {0, Length}
        /\ LayoutOrdered(m)
        /\ m[1].pos = 0 /\ Last(m).pos = Length

Edit(l, m) ==
  \/ Install(l, m) \/ Move(l, m) \/ TakeOut(l, m) \/ Replace(l, m)
  \/ Reflect(l, m) \/ Cycle(l, m)

Init ==
  /\ layout \in Seq([elem : Int, pos : 0 .. Length])
  /\ Len(layout) >= 2
  /\ LayoutOrdered(layout)

Next == Edit(layout, layout')

Spec == Init /\ [][Next]_layout
=============================================================================
