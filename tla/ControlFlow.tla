---------------------------- MODULE ControlFlow ----------------------------
(***************************************************************************)
(* What the statements of the MAD-X language mean: `todo' is all that is   *)
(* still to be executed, in order.  There are no flags, levels, buffers or *)
(* input units here; Interpreter implements this for programs in which     *)
(* STOP and RETURN stand outside of curly brackets.                        *)
(***************************************************************************)
EXTENDS Integers, SequencesExt

CONSTANTS Programs, Main

VARIABLES program, todo

EndOfFile == [op |-> "end of file"]

Chained == {"elseif", "else"}

(***************************************************************************)
(* Without the branches that belong to the statement in front.             *)
(***************************************************************************)
Behind(code) ==
  LET others == {i \in DOMAIN code : code[i].op \notin Chained}
  IN  IF others = {} THEN <<>> ELSE SubSeq(code, Min(others), Len(code))

(***************************************************************************)
(* What follows the end of the file.                                       *)
(***************************************************************************)
Left(code) ==
  LET ends == {i \in DOMAIN code : code[i] = EndOfFile}
  IN  IF ends = {} THEN <<>> ELSE SubSeq(code, Min(ends) + 1, Len(code))

Now(ops) == todo # <<>> /\ Head(todo).op \in ops

Continue(code) == todo' = code \o Tail(todo) /\ UNCHANGED program

Command == Now({"command", "end of file"}) /\ Continue(<<>>)

(***************************************************************************)
(* A branch that is taken makes an end of all the others behind it.        *)
(***************************************************************************)
Branch ==
  /\ Now({"if", "elseif"})
  /\ \/ todo' = Head(todo).body \o Behind(Tail(todo))
     \/ todo' = Tail(todo)
  /\ UNCHANGED program

Else == Now({"else"}) /\ Continue(Head(todo).body)

While ==
  /\ Now({"while"})
  /\ \/ todo' = Head(todo).body \o todo
     \/ todo' = Tail(todo)
  /\ UNCHANGED program

Exec == Now({"exec"}) /\ Continue(program.macros[Head(todo).macro])

Call ==
  /\ Now({"call"})
  /\ Continue(FlattenSeq(program.files[Head(todo).file]) \o <<EndOfFile>>)

Return == Now({"return"}) /\ todo' = Left(todo) /\ UNCHANGED program

Stop == Now({"stop"}) /\ todo' = <<>> /\ UNCHANGED program

Init ==
  /\ program \in Programs
  /\ todo = FlattenSeq(program.files[Main]) \o <<EndOfFile>>

Next ==
  \/ Command \/ Branch \/ Else \/ While
  \/ Exec \/ Call \/ Return \/ Stop

Spec == Init /\ [][Next]_<<program, todo>>
=============================================================================
