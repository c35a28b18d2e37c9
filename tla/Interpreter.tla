---------------------------- MODULE Interpreter ----------------------------
(***************************************************************************)
(* The control flow of the MAD-X language: reading input files, CALL and   *)
(* RETURN, IF ... ELSEIF ... ELSE, WHILE, EXEC of a macro, and STOP, as    *)
(* the functions madx_input, pro_input, act_special, exec_macro and        *)
(* exec_call of src/src call each other.                                   *)
(*                                                                         *)
(* The variable `stack' is the C stack: an "input" frame is a call of      *)
(* madx_input, a "block" frame is a call of pro_input together with what   *)
(* its caller does when it returns.  The stack of files `in' and the flags *)
(* of the buffers `pro' are data of their own, which the frames have to    *)
(* keep in step.  A step is one statement, or one return.                  *)
(*                                                                         *)
(* A statement is a record; all that is no control flow is "command", and  *)
(* the value of a logical expression is chosen anew at each evaluation.    *)
(***************************************************************************)
EXTENDS Integers, SequencesExt

CONSTANTS
  Programs,   \* [files, macros]: name -> lines, name -> statements
  Main,       \* the name of the file that is read first
  FilesMax,   \* the length of the list `in' before it first grows
  Lost,       \* a null pointer in in->input_files
  MaxDepth,   \* bound: files open at a time
  MaxLevel    \* bound: bodies and macros inside each other

Lines == UNION {UNION {Range(f) : f \in Range(p.files)} : p \in Programs}

ASSUME InterpreterAssumption ==
  /\ FilesMax \in Nat \ {0} /\ MaxDepth \in Nat /\ MaxLevel \in Nat
  /\ \A p \in Programs : Main \in DOMAIN p.files
  /\ \A p \in Programs : \A f \in Range(p.files) : f \in Seq(Range(f))
  /\ Lost \notin Seq(Lines)

VARIABLES
  program,      \* the files and macros there are
  stack,
  in_curr,      \* in->curr
  in_max,       \* in->max
  files,        \* in->input_files: the lines that are left
  pro_curr,     \* pro->curr
  flag,         \* pro->buffers[]->flag
  return_flag,
  stop_flag,
  crashed       \* has a closed or lost file been read?

vars == <<program, stack, in_curr, in_max, files, pro_curr, flag,
          return_flag, stop_flag, crashed>>

-----------------------------------------------------------------------------
Top == Last(stack)

Input(top, level) == [kind |-> "input", top |-> top, level |-> level]

(***************************************************************************)
(* A call of pro_input with pro->curr = level, at its first statement.     *)
(***************************************************************************)
Block(code, owner, level) ==
  [kind |-> "block", code |-> code, owner |-> owner, level |-> level,
   at |-> 1, halted |-> FALSE]

Running == stack # <<>> /\ ~crashed

InBlock == Running /\ Top.kind = "block"

Ended(b) == b.halted \/ b.at \notin DOMAIN b.code

At(op) == InBlock /\ ~Ended(Top) /\ Top.code[Top.at].op = op

This == Top.code[Top.at]

Ends(owner) == InBlock /\ Ended(Top) /\ Top.owner = owner

Past(st) == [st EXCEPT ![Len(st)].at = @ + 1]

(***************************************************************************)
(* A statement that is not special is over.  If the program is to stop     *)
(* pro_input returns, and leaves the text cut off at this statement.       *)
(***************************************************************************)
Over(st, stop) ==
  IF stop THEN [st EXCEPT ![Len(st)].halted = TRUE,
                          ![Len(st)].code = SubSeq(@, 1, Last(st).at - 1)]
  ELSE Past(st)

(***************************************************************************)
(* madx_input returns: to exec_call, or to the end of the program.         *)
(***************************************************************************)
Called(st, stop) == IF st = <<>> THEN <<>> ELSE Over(st, stop)

UnchangedInput == UNCHANGED <<program, in_curr, in_max, files, crashed>>

-----------------------------------------------------------------------------
(* madx_input.                                                             *)

Read ==
  /\ Running /\ Top.kind = "input" /\ ~return_flag
  /\ files[in_curr] # Lost /\ files[in_curr] # <<>>
  /\ files' = [files EXCEPT ![in_curr] = Tail(@)]
  /\ stack' = Append(stack, Block(Head(files[in_curr]), "line", pro_curr))
  /\ UNCHANGED <<program, in_curr, in_max, pro_curr, flag, return_flag,
                 stop_flag, crashed>>

(***************************************************************************)
(* To the unit below, and out of the frame whose CALL opened this file.    *)
(***************************************************************************)
Up_StaysReturned == in_curr' = in_curr - 1 /\ UNCHANGED return_flag

Up == in_curr' = in_curr - 1 /\ return_flag' = FALSE

Back(top) == in_curr - 1 = top

(***************************************************************************)
(* The file is at its end, or was left by RETURN.                          *)
(***************************************************************************)
CloseFile ==
  /\ Running /\ Top.kind = "input"
  /\ files[in_curr] # Lost /\ (return_flag \/ files[in_curr] = <<>>)
  /\ files' = [files EXCEPT ![in_curr] = Lost]
  /\ IF in_curr = 0
     THEN stack' = Front(stack) /\ UNCHANGED <<in_curr, return_flag>>
     ELSE /\ Up
          /\ stack' = IF Back(Top.top) THEN Called(Front(stack), stop_flag) ELSE stack
  /\ UNCHANGED <<program, in_max, pro_curr, flag, stop_flag, crashed>>

(***************************************************************************)
(* get_stmt or fclose is given a null pointer.                             *)
(***************************************************************************)
ReadLost ==
  /\ Running /\ Top.kind = "input" /\ files[in_curr] = Lost
  /\ crashed' = TRUE
  /\ UNCHANGED <<program, stack, in_curr, in_max, files, pro_curr, flag,
                 return_flag, stop_flag>>

EndLine ==
  /\ Ends("line")
  /\ LET st == Front(stack)
     IN  stack' = IF stop_flag THEN Called(Front(st), TRUE) ELSE st
  /\ UnchangedInput /\ UNCHANGED <<pro_curr, flag, return_flag, stop_flag>>

-----------------------------------------------------------------------------
(* Statements that exec_command executes.                                  *)

Command ==
  /\ At("command")
  /\ stack' = Over(stack, stop_flag)
  /\ UnchangedInput /\ UNCHANGED <<pro_curr, flag, return_flag, stop_flag>>

Stop ==
  /\ At("stop")
  /\ stop_flag' = TRUE
  /\ stack' = Over(stack, TRUE)
  /\ UnchangedInput /\ UNCHANGED <<pro_curr, flag, return_flag>>

Return ==
  /\ At("return")
  /\ return_flag' = TRUE
  /\ stack' = Over(stack, stop_flag)
  /\ UnchangedInput /\ UNCHANGED <<pro_curr, flag, stop_flag>>

(***************************************************************************)
(* exec_call and down_unit.  grow_in_buff_list copies the files below      *)
(* in->curr, and not the one that is being read.  A file that cannot be    *)
(* opened is a fatal error.                                                *)
(***************************************************************************)
Grown_LosesTwo ==
  IF in_curr + 1 = in_max
  THEN [unit \in 0 .. MaxDepth |-> IF unit >= in_curr - 1 THEN Lost ELSE files[unit]]
  ELSE files

Grown == IF in_curr + 1 = in_max THEN [files EXCEPT ![in_curr] = Lost] ELSE files

Call ==
  /\ At("call") /\ in_curr < MaxDepth /\ This.file \in DOMAIN program.files
  /\ in_curr' = in_curr + 1
  /\ in_max' = IF in_curr + 1 = in_max THEN 2 * in_max ELSE in_max
  /\ files' = [Grown EXCEPT ![in_curr + 1] = program.files[This.file]]
  /\ stack' = Append(stack, Input(in_curr, pro_curr))
  /\ UNCHANGED <<program, pro_curr, flag, return_flag, stop_flag, crashed>>

Exec ==
  /\ At("exec") /\ pro_curr < MaxLevel
  /\ pro_curr' = pro_curr + 1
  /\ stack' = Append(stack, Block(program.macros[This.macro], "macro", pro_curr + 1))
  /\ UnchangedInput /\ UNCHANGED <<flag, return_flag, stop_flag>>

EndMacro ==
  /\ Ends("macro")
  /\ pro_curr' = pro_curr - 1
  /\ stack' = Over(Front(stack), stop_flag)
  /\ UnchangedInput /\ UNCHANGED <<flag, return_flag, stop_flag>>

-----------------------------------------------------------------------------
(* act_special.                                                            *)

Enter(owner) ==
  /\ pro_curr < MaxLevel
  /\ pro_curr' = pro_curr + 1
  /\ stack' = Append(stack, Block(This.body, owner, pro_curr + 1))

Skip == stack' = Past(stack) /\ UNCHANGED pro_curr

(***************************************************************************)
(* The branch is taken if its condition holds.                             *)
(***************************************************************************)
Branch ==
  \/ Enter("if") /\ flag' = [flag EXCEPT ![pro_curr] = 1]
  \/ Skip /\ flag' = [flag EXCEPT ![pro_curr] = 0]

If ==
  /\ At("if")
  /\ Branch
  /\ UnchangedInput /\ UNCHANGED <<return_flag, stop_flag>>

Elseif ==
  /\ At("elseif")
  /\ \/ flag[pro_curr] = 0 /\ Branch
     \/ flag[pro_curr] # 0 /\ Skip /\ UNCHANGED flag
  /\ UnchangedInput /\ UNCHANGED <<return_flag, stop_flag>>

Else ==
  /\ At("else")
  /\ \/ flag[pro_curr] = 0 /\ Enter("else")
     \/ flag[pro_curr] # 0 /\ Skip
  /\ UnchangedInput /\ UNCHANGED <<flag, return_flag, stop_flag>>

While ==
  /\ At("while")
  /\ Enter("while") \/ Skip
  /\ UnchangedInput /\ UNCHANGED <<flag, return_flag, stop_flag>>

Leave_KeepsLevel == UNCHANGED pro_curr /\ stack' = Past(Front(stack))

Leave == pro_curr' = pro_curr - 1 /\ stack' = Past(Front(stack))

EndIf ==
  /\ Ends("if")
  /\ Leave
  /\ UnchangedInput /\ UNCHANGED <<flag, return_flag, stop_flag>>

EndElse ==
  /\ Ends("else")
  /\ Leave
  /\ flag' = [flag EXCEPT ![Top.level - 1] = -1]
  /\ UnchangedInput /\ UNCHANGED <<return_flag, stop_flag>>

(***************************************************************************)
(* The condition is evaluated again; the body is what is left of its text. *)
(***************************************************************************)
EndWhile ==
  /\ Ends("while")
  /\ \/ Leave
     \/ /\ stack' = [stack EXCEPT ![Len(stack)].at = 1, ![Len(stack)].halted = FALSE]
        /\ UNCHANGED pro_curr
  /\ UnchangedInput /\ UNCHANGED <<flag, return_flag, stop_flag>>

-----------------------------------------------------------------------------
Init ==
  /\ program \in Programs
  /\ stack = <<Input(0, 1)>>
  /\ in_curr = 0
  /\ in_max = FilesMax
  /\ files = [i \in 0 .. MaxDepth |-> IF i = 0 THEN program.files[Main] ELSE Lost]
  /\ pro_curr = 1
  /\ flag = [level \in 1 .. MaxLevel |-> -1]
  /\ return_flag = FALSE
  /\ stop_flag = FALSE
  /\ crashed = FALSE

Next ==
  \/ Read \/ CloseFile \/ ReadLost \/ EndLine
  \/ Command \/ Stop \/ Return \/ Call \/ Exec \/ EndMacro
  \/ If \/ Elseif \/ Else \/ While \/ EndIf \/ EndElse \/ EndWhile

Spec == Init /\ [][Next]_vars

(***************************************************************************)
(* The program goes on as long as it can.                                  *)
(***************************************************************************)
FairSpec == Spec /\ WF_vars(Next)
=============================================================================
