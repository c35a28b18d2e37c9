--------------------------- MODULE LineExpansion ---------------------------
(***************************************************************************)
(* How the program expands a line (replace_lines in mad_macro.c and        *)
(* expand_line in mad_seq.c): it has no members but a text of tokens, in   *)
(* which labels are replaced, and then repetitions and reflections carried *)
(* out bracket by bracket and level by level.                              *)
(***************************************************************************)
EXTENDS LineMeaning, Integers

(***************************************************************************)
(* What make_line keeps of the text: pre_split drops the commas inside of  *)
(* brackets and puts a 0 before a minus that follows a bracket.            *)
(***************************************************************************)
Digits == <<"1", "2", "3", "4">>
Minus == "-"
Blank == " "
Marks == {"(", ")", "*", "0", Minus, Blank} \cup {Digits[i] : i \in DOMAIN Digits}
IsAlpha(token) == token \notin Marks

RECURSIVE Text(_)

MemberText(member, first) ==
  (IF member.minus THEN IF first THEN <<"0", Minus>> ELSE <<Minus>> ELSE <<>>)
    \o (IF member.count # 1 THEN <<Digits[member.count], "*">> ELSE <<>>)
    \o (IF member.name # "" THEN <<member.name>> ELSE <<>>)
    \o (IF member.list # <<>> THEN Text(member.list) ELSE <<>>)

Text(members) ==
  <<"(">> \o FlattenSeq([i \in DOMAIN members |-> MemberText(members[i], i = 1)]) \o <<")">>

-----------------------------------------------------------------------------
(***************************************************************************)
(* replace_lines: formal arguments become the tokens at their place in     *)
(* reps, one formal after the other and all through the same tokens, so    *)
(* what came in for one may be a later one.  Labels of lines become the    *)
(* text of the line.  A bracket behind the label of a line holds its       *)
(* arguments, up to the first that closes.                                 *)
(***************************************************************************)
Substituted(tokens, formal, n, reps) ==
  LET Replace(line, j) == [i \in DOMAIN line |-> IF line[i] = formal[j] THEN reps[j] ELSE line[i]]
      bound == SelectSeq([j \in DOMAIN formal |-> j], LAMBDA j : j <= n)
  IN FoldLeft(Replace, tokens, bound)

FirstClosing(tokens, i) ==
  CHOOSE k \in i .. Len(tokens) + 1 :
    /\ k = Len(tokens) + 1 \/ tokens[k] = ")"
    /\ \A l \in i .. k - 1 : tokens[l] # ")"

RECURSIVE Replaced(_, _, _, _)

Replaced(texts, name, n, reps) ==
  LET line == Substituted(texts[name].tokens, texts[name].formal, n, reps)
      Step(r, i) ==
        IF i < r.next THEN r
        ELSE IF line[i] \notin DOMAIN texts
        THEN [out |-> Append(r.out, line[i]), next |-> i + 1]
        ELSE LET call == i < Len(line) /\ line[i + 1] = "("
                 last == IF call THEN FirstClosing(line, i + 2) ELSE i
                 actual == IF call THEN SubSeq(line, i + 2, last - 1) ELSE <<>>
             IN [out |-> r.out \o Replaced(texts, line[i], Len(actual), actual),
                 next |-> last + 1]
  IN FoldLeft(Step, [out |-> <<>>, next |-> 1], [i \in DOMAIN line |-> i]).out

-----------------------------------------------------------------------------
(***************************************************************************)
(* expand_line.  First the left brackets with their levels.                *)
(***************************************************************************)
Level(buff, i) ==
  Cardinality({j \in 1 .. i - 1 : buff[j] = "("}) - Cardinality({j \in 1 .. i - 1 : buff[j] = ")"})

Left(buff) == {i \in DOMAIN buff : buff[i] = "("}

Deepest(buff) == FoldSet(LAMBDA i, l : IF Level(buff, i) > l THEN Level(buff, i) ELSE l, 0, Left(buff))

Closing(buff, i) ==
  CHOOSE k \in i + 1 .. Len(buff) :
    /\ buff[k] = ")" /\ Level(buff, k) = Level(buff, i) + 1
    /\ \A l \in i + 1 .. k - 1 : buff[l] = ")" => Level(buff, l) # Level(buff, i) + 1

At(buff, level) == SetToSortSeq({i \in Left(buff) : Level(buff, i) = level}, <)

Downwards(buff) == [k \in 1 .. Deepest(buff) + 1 |-> Deepest(buff) + 1 - k]

Count(token) == CHOOSE n \in DOMAIN Digits : Digits[n] = token

(***************************************************************************)
(* Tokens [first, last] are there count times, what is behind is shifted,  *)
(* and the cells in blanks are made blank.                                 *)
(***************************************************************************)
Copied(buff, first, last, count, blanks) ==
  [i \in 1 .. first - 1 |-> IF i \in blanks THEN Blank ELSE buff[i]]
    \o Times(count, SubSeq(buff, first, last))
    \o SubSeq(buff, last + 1, Len(buff))

(***************************************************************************)
(* Repetition of brackets, from the deepest level up: the bracket stays,   *)
(* what is inside is repeated.  Brackets of the same level are moved by    *)
(* what was put before them: the fold counts from the right instead.       *)
(***************************************************************************)
RepeatedBracket_Whole(buff, pos) ==
  IF pos > 2 /\ buff[pos - 1] = "*"
  THEN Copied(buff, pos, Closing(buff, pos), Count(buff[pos - 2]), {pos - 1, pos - 2})
  ELSE buff

RepeatedBracket(buff, pos) ==
  IF pos > 2 /\ buff[pos - 1] = "*"
  THEN Copied(buff, pos + 1, Closing(buff, pos) - 1, Count(buff[pos - 2]), {pos - 1, pos - 2})
  ELSE buff

RepeatedBrackets(buff) ==
  FoldLeft(LAMBDA b, level : FoldLeft(RepeatedBracket, b, Reverse(At(b, level))), buff, Downwards(buff))

(***************************************************************************)
(* Repetition of single elements, from left to right.                      *)
(***************************************************************************)
Star(buff) == {i \in DOMAIN buff : i > 2 /\ buff[i] = "*" /\ buff[i - 1] # Blank}

RECURSIVE RepeatedElements(_)

RepeatedElements(buff) ==
  IF Star(buff) = {} THEN buff
  ELSE LET pos == CHOOSE i \in Star(buff) : \A j \in Star(buff) : i <= j
       IN RepeatedElements(Copied(buff, pos + 1, pos + 1, Count(buff[pos - 1]), {pos - 1}))

(***************************************************************************)
(* Reflection, from the deepest level up, of the brackets that have a      *)
(* minus before them, blanks left aside.                                   *)
(***************************************************************************)
Before(buff, pos) ==
  LET filled == {j \in 2 .. pos - 1 : buff[j] # Blank}
  IN IF filled = {} THEN Blank ELSE buff[CHOOSE j \in filled : \A k \in filled : k <= j]

ReflectedBracket(buff, left) ==
  IF Before(buff, left.pos) = Minus
  THEN [i \in DOMAIN buff |-> IF i \in left.pos + 1 .. left.end - 1
                              THEN buff[left.pos + left.end - i] ELSE buff[i]]
  ELSE buff

ReflectedBrackets(buff) ==
  LET Brackets(level) == [k \in DOMAIN At(buff, level) |->
                            [pos |-> At(buff, level)[k], end |-> Closing(buff, At(buff, level)[k])]]
  IN FoldLeft(LAMBDA b, level : FoldLeft(ReflectedBracket, b, Brackets(level)), buff, Downwards(buff))

ExpandLine(buff) ==
  SelectSeq(ReflectedBrackets(RepeatedElements(RepeatedBrackets(buff))), IsAlpha)

Expanded(texts, name) == ExpandLine(Replaced(texts, name, 0, <<>>))
=============================================================================
