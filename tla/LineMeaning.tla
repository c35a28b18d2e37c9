---------------------------- MODULE LineMeaning ----------------------------
(***************************************************************************)
(* Beam lines as the manual describes them (line.tex in doc/latexuguide):  *)
(* a line is a list of members, each an element, another line, with actual *)
(* arguments or without, or a sub-line in parentheses, with a repetition   *)
(* count and a minus that reverses the member if it is a line.             *)
(*                                                                         *)
(* A member is a record: minus, count (1 when none is written), name and   *)
(* list.  A sub-line has no name, a label with an empty list has no        *)
(* arguments.                                                              *)
(***************************************************************************)
EXTENDS Naturals, Sequences, SequencesExt

Member(minus, count, name, list) == [minus |-> minus, count |-> count, name |-> name, list |-> list]

Label(name) == Member(FALSE, 1, name, <<>>)
SubLine(list) == Member(FALSE, 1, "", list)
Reflected(member) == [member EXCEPT !.minus = TRUE]
Repeated(count, member) == [member EXCEPT !.count = count]

(***************************************************************************)
(* The elements of a list of members.  lines is what is known by name, a   *)
(* record of formal arguments and members; bound maps formal arguments to  *)
(* the names they stand for.                                               *)
(***************************************************************************)
Named(name, bound) == IF name \in DOMAIN bound THEN bound[name] ELSE name

Times(count, seq) == FlattenSeq([i \in 1 .. count |-> seq])

RECURSIVE Elements(_, _, _)

MemberElements(lines, bound, member) ==
  LET name == Named(member.name, bound)
      isList == name = ""
      isLine == name \in DOMAIN lines
      formal == lines[name].formal
      once == IF isList THEN Elements(lines, bound, member.list)
              ELSE IF isLine
              THEN Elements(lines,
                            [f \in {formal[i] : i \in DOMAIN formal} |->
                               Named(member.list[CHOOSE i \in DOMAIN formal : formal[i] = f].name, bound)],
                            lines[name].members)
              ELSE <<name>>
      all == Times(member.count, once)
  IN IF member.minus THEN Reverse(all) ELSE all

Elements(lines, bound, members) ==
  FlattenSeq([i \in DOMAIN members |-> MemberElements(lines, bound, members[i])])

Meaning(lines, name) == Elements(lines, <<>>, <<Label(name)>>)
=============================================================================
