-------------------------- MODULE InterpreterFlow --------------------------
(***************************************************************************)
(* What is left to do, read off the C stack, the files and the flags of    *)
(* Interpreter; and the claims that relate the three.                      *)
(***************************************************************************)
EXTENDS Interpreter, FiniteSets

EndOfFile == [op |-> "end of file"]

(***************************************************************************)
(* The branches at the beginning are passed over when the flag of their    *)
(* level says that one in front of them was taken.                         *)
(***************************************************************************)
Due(code, level) ==
  LET others == {i \in DOMAIN code : code[i].op \notin {"elseif", "else"}}
  IN  IF flag[level] = 0 THEN code
      ELSE IF others = {} THEN <<>>
      ELSE SubSeq(code, Min(others), Len(code))

(***************************************************************************)
(* What is left of the block of frame i: the statement it is at as well,   *)
(* if it is the last frame, or if the frame above it is one round of a     *)
(* WHILE.                                                                  *)
(***************************************************************************)
LeftOf(i) ==
  LET b == stack[i]
      begun == i < Len(stack) /\ b.code[b.at].op # "while"
  IN  SubSeq(b.code, IF begun THEN b.at + 1 ELSE b.at, Len(b.code))

IsInput(i) == stack[i].kind = "input"

InputsTo(i) == Cardinality({j \in 1 .. i : IsInput(j)})

LeftOfFrame(i) ==
  LET lines == files[InputsTo(i) - 1]
      line == IF i < Len(stack) THEN LeftOf(i + 1) ELSE <<>>
  IN  IF IsInput(i)
      THEN Due(line \o (IF lines = Lost THEN <<>> ELSE FlattenSeq(lines)),
               stack[i].level) \o <<EndOfFile>>
      ELSE IF stack[i].owner = "line" THEN <<>>
      ELSE Due(LeftOf(i), stack[i].level)

Todo ==
  LET all == FlattenSeq([k \in DOMAIN stack |-> LeftOfFrame(Len(stack) + 1 - k)])
      ends == {i \in DOMAIN all : all[i] = EndOfFile}
  IN  IF stop_flag \/ all = <<>> THEN <<>>
      ELSE IF return_flag THEN SubSeq(all, Min(ends) + 1, Len(all))
      ELSE all

Flow == INSTANCE ControlFlow WITH todo <- Todo

(***************************************************************************)
(* The statements of the files, and those inside of bodies and macros.     *)
(***************************************************************************)
InFiles == UNION {UNION {Range(line) : line \in Range(f)} : f \in Range(program.files)}

Inside ==
  LET Bodies(code) == UNION {IF "body" \in DOMAIN s THEN Range(s.body) ELSE {} : s \in code}
      outer == Bodies(InFiles) \union UNION {Range(m) : m \in Range(program.macros)}
  IN  outer \union Bodies(outer) \union Bodies(Bodies(outer))

EndsInside == \E s \in Inside : s.op \in {"return", "stop"}

HasWhile == \E s \in InFiles \union Inside : s.op = "while"

LostFile == \E unit \in 0 .. in_curr : files[unit] = Lost

(***************************************************************************)
(* Every statement does what the language says: of each chain of branches  *)
(* one is executed at most, whatever is nested in it or called from it;    *)
(* a file is read on behind its CALL, and left at its RETURN.  So it is    *)
(* where RETURN and STOP are outside of brackets and macros (StopEnds and  *)
(* ReturnEnds below are about the others) and no file was lost.            *)
(***************************************************************************)
FollowsFlow ==
  Flow!Init /\ [][EndsInside \/ LostFile' \/ Flow!Next]_<<program, Todo>>

(***************************************************************************)
(* The buffers and input units are entered and left together with the      *)
(* frames that use them: a level for each body and macro, and a unit for   *)
(* each file, in the order of the calls, until the program is stopped.     *)
(***************************************************************************)
Balanced ==
  LET bodies == {i \in DOMAIN stack : ~IsInput(i) /\ stack[i].owner # "line"}
  IN  /\ pro_curr = 1 + Cardinality(bodies)
      /\ \A i \in bodies : stack[i].level = 1 + Cardinality({j \in bodies : j <= i})
      /\ stack # <<>> /\ ~stop_flag => in_curr = InputsTo(Len(stack)) - 1

(***************************************************************************)
(* A program that has no WHILE ends, stopped or at the end of its input,   *)
(* with no buffer in use any more, unless a lost file is read.             *)
(***************************************************************************)
Finishes == HasWhile \/ <>(crashed \/ (stack = <<>> /\ pro_curr = 1))

(* The lengths the list of files grows to.                                 *)
Lengths ==
  LET length[k \in Nat] == IF k = 0 THEN FilesMax ELSE 2 * length[k - 1]
  IN  length

(***************************************************************************)
(* The list of files loses an entry when it grows, and then only: that of  *)
(* the file whose CALL made it grow.  The program runs on until that file  *)
(* is returned to.                                                         *)
(***************************************************************************)
LosesCaller ==
  Running =>
    \A unit \in 0 .. in_curr :
      files[unit] = Lost <=>
        /\ unit + 1 < in_max
        /\ \E k \in 0 .. MaxDepth : unit + 1 = Lengths[k]

-----------------------------------------------------------------------------
(* What the manual says (control.tex, files.tex and programflow.tex in     *)
(* doc/latexuguide), and the code does not do inside of curly brackets or  *)
(* beyond the length of a list.                                            *)

(***************************************************************************)
(* STOP "ends the execution of MAD-X": nothing is executed behind it.      *)
(***************************************************************************)
StopEnds == [][stop_flag => ~Command]_vars

(***************************************************************************)
(* The same: the program comes to its end.                                 *)
(***************************************************************************)
StopHalts == stop_flag ~> stack = <<>>

(***************************************************************************)
(* CALL: the file "is then read until a RETURN statement is encountered":  *)
(* from there no file is opened before the one with the RETURN is closed.  *)
(***************************************************************************)
ReturnEnds == [][return_flag => ~Call]_vars

(***************************************************************************)
(* A file "may in turn contain any number of CALL statements itself, and   *)
(* so on to any depth".                                                    *)
(***************************************************************************)
AnyDepth == ~crashed

(***************************************************************************)
(* ELSE "is only possible once behind an IF, or an ELSEIF", and skipped    *)
(* anywhere else.                                                          *)
(***************************************************************************)
ElseBehindIf ==
  [][Else /\ stack' # Past(stack) =>
       /\ Top.owner # "line" => Top.at > 1
       /\ Top.at > 1 => Top.code[Top.at - 1].op \in {"if", "elseif"}]_vars
=============================================================================
