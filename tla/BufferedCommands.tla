-------------------------- MODULE BufferedCommands --------------------------
(***************************************************************************)
(* The statements with a label that MAD-X keeps, and EXEC, which executes  *)
(* one of them again or a macro: buffer_in_cmd and buffered_cmd of         *)
(* mad_cmdin.c as process of mad_eval.c and exec_command of mad_cmd.c use  *)
(* them.                                                                   *)
(*                                                                         *)
(* The labels and the statements are two arrays, which are appended to     *)
(* independently; this_cmd is global, and a macro that is executed on the  *)
(* way leaves it to its last statement.                                    *)
(*                                                                         *)
(* InterpreterProofs has this module and Interpreter in one scope, which   *)
(* is why Init, Next, Spec, FairSpec and vars have a prefix here.          *)
(***************************************************************************)
EXTENDS Integers, Sequences

CONSTANTS
  Labels,
  Macros,       \* name -> sequence of statements
  Statements,   \* what may be read: [label, op, target]
  None,
  NoFatalStop,  \* OPTION, no_fatal_stop: a fatal error does not end the program
  MaxRead       \* bound: statements read

InCmd ==
  [label : Labels \union {None}, op : {"exec", "define", "other"},
   target : Labels \union DOMAIN Macros \union {None}, id : Nat]

ASSUME BufferedAssumption ==
  /\ None \notin Labels \union InCmd
  /\ DOMAIN Macros \intersect Labels = {}
  /\ Statements \subseteq InCmd
  /\ \A m \in DOMAIN Macros : Macros[m] \in Seq(InCmd)
  /\ NoFatalStop \in BOOLEAN
  /\ MaxRead \in Nat

VARIABLES
  labels,     \* buffered_cmds->labels, in the order of their entry
  in_cmds,    \* buffered_cmds->in_cmds
  this_cmd,
  p,          \* the command exec_command is at, or None
  todo,       \* what is left of the macros that are being executed
  exited,
  read,       \* the number of statements read
  given       \* the manual's view: the last statement with each label

buffered_vars == <<labels, in_cmds, this_cmd, p, todo, exited, read, given>>

EndOfMacro == [op |-> "end of macro"]

IsLabel(label) == \E k \in DOMAIN labels : labels[k] = label

Position(label) == CHOOSE k \in DOMAIN labels : labels[k] = label

-----------------------------------------------------------------------------
(***************************************************************************)
(* buffer_in_cmd: the label is entered once, the statement each time.      *)
(***************************************************************************)
Listed_Always(label) == Append(labels, label)

Listed(label) == IF IsLabel(label) THEN labels ELSE Append(labels, label)

Buffered(cmd) ==
  IF cmd.label = None
  THEN this_cmd' = None /\ UNCHANGED <<labels, in_cmds>>
  ELSE /\ this_cmd' = cmd
       /\ labels' = Listed(cmd.label)
       /\ in_cmds' = Append(in_cmds, cmd)

(***************************************************************************)
(* The end of process: only commands and variables are buffered here.      *)
(***************************************************************************)
Processed(cmd) ==
  IF cmd = None \/ cmd.op = "define"
  THEN this_cmd' = cmd /\ UNCHANGED <<labels, in_cmds>>
  ELSE Buffered(cmd)

(***************************************************************************)
(* pro_input reads a statement, of the input or of a macro.  Elements are  *)
(* entered and buffered; commands go to exec_command.                      *)
(***************************************************************************)
ReadStatement(statement) ==
  LET cmd == [statement EXCEPT !.id = read + 1]
  IN  /\ p = None /\ ~exited /\ read < MaxRead
      /\ read' = read + 1
      /\ given' = [given EXCEPT ![statement.label] = cmd]
      /\ \/ statement.op = "define" /\ Buffered(cmd) /\ UNCHANGED p
         \/ /\ statement.op # "define"
            /\ this_cmd' = cmd /\ p' = cmd
            /\ UNCHANGED <<labels, in_cmds>>
      /\ UNCHANGED exited

ReadInput ==
  /\ todo = <<>>
  /\ \E statement \in Statements : ReadStatement(statement)
  /\ UNCHANGED todo

ReadMacro ==
  /\ todo # <<>> /\ Head(todo) # EndOfMacro
  /\ ReadStatement(Head(todo))
  /\ todo' = Tail(todo)

-----------------------------------------------------------------------------
(* exec_command.                                                           *)

IsMacro == p # None /\ p.op = "exec" /\ p.target \in DOMAIN Macros

ExecMacro ==
  /\ IsMacro
  /\ todo' = Macros[p.target] \o <<EndOfMacro>> \o todo
  /\ p' = None
  /\ UNCHANGED <<labels, in_cmds, this_cmd, exited, read, given>>

FinishMacro ==
  /\ p = None /\ ~exited /\ todo # <<>> /\ Head(todo) = EndOfMacro
  /\ todo' = Tail(todo)
  /\ Processed(this_cmd)
  /\ UNCHANGED <<p, exited, read, given>>

(***************************************************************************)
(* buffered_cmd: the statement at the position of the label, or cmd.       *)
(***************************************************************************)
Target(cmd) ==
  IF IsLabel(cmd.target) THEN in_cmds[Position(cmd.target)] ELSE cmd

IsLink == p # None /\ p.op = "exec" /\ p.target \notin DOMAIN Macros

Settled_Never == ~IsLink

Settled == ~IsLink \/ Target(p) = p

Follow ==
  /\ IsLink /\ ~Settled
  /\ p' = Target(p)
  /\ UNCHANGED <<labels, in_cmds, this_cmd, todo, exited, read, given>>

(***************************************************************************)
(* The command is executed, and process buffers it under its own label.    *)
(* EXEC of a label that is not there has an illegal keyword.               *)
(***************************************************************************)
Execute ==
  /\ p # None /\ ~IsMacro /\ Settled
  /\ IF IsLink /\ ~NoFatalStop
     THEN exited' = TRUE /\ UNCHANGED <<labels, in_cmds, this_cmd>>
     ELSE Processed(p) /\ UNCHANGED exited
  /\ p' = None
  /\ UNCHANGED <<todo, read, given>>

-----------------------------------------------------------------------------
BufferedInit ==
  /\ labels = <<>> /\ in_cmds = <<>>
  /\ this_cmd = None /\ p = None
  /\ todo = <<>>
  /\ exited = FALSE
  /\ read = 0
  /\ given = [label \in Labels \union {None} |-> None]

BufferedNext ==
  \/ ReadInput \/ ReadMacro \/ ExecMacro \/ FinishMacro \/ Follow \/ Execute

BufferedSpec == BufferedInit /\ [][BufferedNext]_buffered_vars

(***************************************************************************)
(* A statement that is being executed is gone on with.                     *)
(***************************************************************************)
BufferedFairSpec == BufferedSpec /\ WF_buffered_vars(ReadMacro \/ ExecMacro \/ FinishMacro \/ Follow \/ Execute)

-----------------------------------------------------------------------------
(***************************************************************************)
(* Each label is listed once, at a place that is not behind its first      *)
(* statement, however often that is buffered again: a search for a label   *)
(* always leads to a statement that is there.                              *)
(***************************************************************************)
FirstOrder ==
  /\ \A j, k \in DOMAIN labels : labels[j] = labels[k] => j = k
  /\ \A i \in DOMAIN in_cmds :
       \E k \in DOMAIN labels : k <= i /\ labels[k] = in_cmds[i].label
  /\ \A k \in DOMAIN labels :
       \E i \in DOMAIN in_cmds : k <= i /\ in_cmds[i].label = labels[k]

(***************************************************************************)
(* EXEC comes to an end: "this mechanism can be invoked any number of      *)
(* times, and the executed statement may be calling another EXEC"          *)
(* (control.tex).  It does as long as an EXEC of a label that is not there *)
(* is fatal, and not with NoFatalStop.                                     *)
(***************************************************************************)
ExecEnds == p # None ~> p = None

-----------------------------------------------------------------------------
(* What the manual says of EXEC (control.tex in doc/latexuguide).          *)

(***************************************************************************)
(* "Each statement may be preceded by a label, when parsed and executed    *)
(* the statement is then also stored and can be executed again with EXEC,  *)
(* label": what EXEC of a label executes is the statement that was last    *)
(* given that label.                                                       *)
(***************************************************************************)
RunsLabelled ==
  [][Follow /\ p = this_cmd => p' = given[p.target]]_buffered_vars
=============================================================================
