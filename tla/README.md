# MAD-X, modelled and checked

MAD-X is a design program for particle accelerators. A user writes, in the
MAD-X language, variables, elements (magnets, cavities, markers), sequences of
elements, macros and commands; the interpreter in C (`src/src/mad_*.c`) builds
the data structures and calls the physics (`twiss.f90`, `trrun.f90`, PTC, ...)
written in Fortran and C++.

This project models the part of the program that is a state machine: the data
structures of the interpreter, and the commands that edit them. The program has
one thread. What makes it hard is not concurrency but long sequences of legal
commands over shared, global, mutable structures: sorted lists of pointers whose
keys are renamed in place, rings of nodes that are edited by the loop that walks
them, counters in a global that several commands use, a flag set by one command
and read by another much later.

## 1. Inventory

| component | source | state | operations | what is hard | correct when |
|---|---|---|---|---|---|
| Named lists | `mad_name.c`, owners in `mad_node.c`, `mad_var.c`, `mad_cmdpar.c` | `names[]`, `inform[]`, the sorted permutation `index[]`, the owner's parallel array | `name_list_pos`, `add_to_name_list`, `remove_from_name_list`, growth | three arrays that must stay in step; an entry renamed by removal; a window that may be empty | the index stays sorted and complete, a search finds exactly what is there |
| Sequence editor | `mad_seq.c`, `mad_node.c`, `mad_select.c` | ring of nodes, `nodes` list, `occ_list`, `selected_ranges`, `seqedit_select`, `edit_is_on` | SEQEDIT, INSTALL, MOVE, REMOVE, REPLACE, CYCLE, REFLECT, FLATTEN, ENDEDIT, SELECT | stale pointers, loops over what they edit, names that follow renumbering or do not, relative places | ring, list, names and places agree after any edit, and the edit is the one the user asked for |
| Interpreter | `mad_eval.c`, `mad_parse.c`, `mad_core.c`, `mad_exec.c`, `mad_stream.c`, `mad_macro.c`, `mad_cmdin.c`, `mad_cmd.c` | stack of input files `in`, stack of statement buffers `pro` with their if/else level flags, `return_flag`, `stop_flag`, `sequ_is_on`, `match_is_on` | read a statement, CALL, RETURN, STOP, macro calls, IF/ELSEIF/ELSE/WHILE | flags kept per buffer that outlive a statement; buffers that grow while they are in use; a macro that ends the program | exactly one branch runs, files and buffers are left in the order they were entered |
| Variables and expressions | `mad_var.c`, `mad_expr.c`, `mad_eval.c`, `mad_cmdpar.c`, `mad_parse.c` | variable list with type (constant, direct, deferred, string), value, expression, status stamp; parameters of elements; Polish stacks | `:=`, `=`, `->`, evaluation, ADD2EXPR, `set_variable`, SAVE | cached values and when they are dropped; circular definitions and the counter that stops them; expressions that are shared by those who inherit | a name has, whenever it is used, the value of its definition at that time |
| Labelled statements | `mad_cmdin.c`, `mad_cmd.c` | labels, statements, the global `this_cmd` | EXEC of a label or a macro, buffering at the end of each statement | two arrays under one position; a global that a macro replaces | EXEC finds the statement with the label, and ends |
| Interpolation | `mad_inter.c`, `mad_select.c`, `mad_seq.c`, `plot.f90`, `mad_aper.c` | points of nodes, number of extra rows, kept selections; the backup of one node, its slices and their elements | SELECT, flag=interpolate; USE; `interpolate_node`, `reset_interpolation` | history replayed by USE; save and restore around an early return; shared clones | points are those last selected; after a reset everything is what it was |
| Expansion | `mad_seq.c`, `mad_node.c`, `mad_elem.c` | the declared nodes of each sequence, the expanded ring, `n_nodes`, `current_sequ`, lengths kept with elements and nodes | SEQUENCE ... ENDSEQUENCE, USE | nested sequences with and without a reference element; drifts with tolerances; a node count that an array is made from; sequences that are replaced | the ring has the declared elements at the declared places and fills the sequence |
| Lines | `mad_cmd.c`, `mad_macro.c`, `mad_seq.c`, `mad_range.c` | lines as texts of tokens, the buffer of the expansion | LINE, USE of a line | repetition and reflection in place, in a buffer that grows while brackets move | the elements are those the line means |
| Matching | `mad_match.c`, `mad_match2.c`, `mad_const.c`, `mad_ptcknobs.c`, `match.f90` | `match_is_on`, `match_sequs`, lists of constraints on nodes and sequences, macros and their constraints, knobs; `total_const`, `fun_vect` | MATCH, VARY, CONSTRAINT, GLOBAL, USE_MACRO, a method, ENDMATCH in three modes | the mode is a global that many commands read; constraints are counted in one place and evaluated in another | ENDMATCH leaves nothing behind, each constraint has a place in the vector, the loops end |
| Tables | `mad_table.c`, `mad_exec.c`, `mad_twiss.c` | the register of tables, rows, `curr`, `max`; the table of TWISS that a sequence points to | CREATE, READTABLE, DELETE, FILL, SHRINK, SETVARS and its variants, TWISS over DELTAP | growth, numbers of rows that count from the end, tables that are renamed and numbered, pointers to tables that are deleted | the rows and the variables are what the manual says, a writer has a free row, the register holds each table once |
| Selections | `mad_select.c`, `mad_range.c` | lists of SELECT and DESELECT commands per flag | store, clear, apply to tables, errors, sectors | criteria composed over commands | what is selected is what one statement selects |
| Errors of elements | `mad_elemerr.c` | alignment and field errors of nodes | EALIGN, EFCOMP, SETERR, ESAVE | add or overwrite, scaling with the reference order | |
| Random numbers | `mad_rand.c`, `mad_exec.c` | array and next index of the default generator; ten streams with words, position and number | OPTION (RAND, RANDID), seeds, draws | state of a stream that a seed does not reset | a stream goes on where it was left; the same seed gives the same numbers |
| Beams | `mad_beam.c` | list of beams, default beam | BEAM, RESBEAM | mutually dependent parameters (energy, pc, gamma, ...) | parameters agree |
| Orbit correction | `mad_orbit.c` | correctors and monitors | CORRECT, USEMONITOR, ... | numerical least squares | |
| Optics control | `mad_twiss.c`, `mad_emit.c`, `mad_ibs.c`, `mad_track.c`, `mad_survey.c`, ... | tables and flags handed to Fortran | TWISS, TRACK, EMIT, ... | mostly data transfer | |
| Export and converters | `mad_6track.c`, `mad_sxf.c`, `mad_sdds.c`, `mad_mkthin.cpp`, `mad_aper.c`, `mad_plot.c` | files | MAKETHIN, SIXTRACK, SXFREAD, PLOT, APERTURE | formats | |
| Physics | `*.f90`, `libs/ptc`, `libs/dc` | maps, beams | | numerics | out of a model checker's reach |
| Memory | `mad_mem.c`, `mad_array.c`, `libs/gc` | allocated blocks | calloc, free, collection | | |

How they interact: `main` reads statements and passes each to the interpreter,
which calls the handler of the command with a clone of its parameters; handlers
change the global lists of variables, elements, sequences, tables and
selections. Every one of these lists is a named list. SEQEDIT and USE work on
one sequence and share `occ_list` and `selected_ranges` with other commands;
the Fortran code calls back (`advance_node`, `interpolate_node`,
`store_node_value`, `augment_count`) while a command runs. Two kinds of commands
run others inside of themselves: those that give statements back to the
interpreter (EXEC, CALL and the constructs in brackets), and matching, whose
methods evaluate constraints by running macros, TWISS or a file they wrote.
Otherwise a command is atomic, and the interesting interleavings are the orders
in which the user gives commands.

The hazards of this code, each at its line and with the properties that watch
it, are in `PROJECT.json` under `hazards`.

## 2. Plan

Modules are written in the order of what other parts stand on. Done:

1. the named list, on which every list of the program stands, and the map it implements;
2. the sequence editor, the largest set of commands over one shared structure,
   and the layout it implements;
3. the interpreter's control flow, and the language it implements;
4. labelled statements and EXEC;
5. points inside of elements, which join SELECT, USE, PLOT and APERTURE;
6. variables with types, cached values and circular definitions, and the
   definitions without a cache that they implement;
7. lines and the expansion of sequences: the algorithm on tokens against what a
   line means, and the ring against what a sequence declares;
8. matching in three modes, composed with the loop of the third, which writes
   commands that come back through the first two;
9. tables, with the variables that go into them and come out of them, and the
   rows they implement;
10. the random generators.

Left, in this order:

11. `EALIGN`, `EFCOMP` and `SETERR`: which errors add and which overwrite, over
    the order of commands and the option EOPTION keeps;
12. a USE, or the definition of a sequence, during an edit: both empty
    `occ_list`, which the edit counts on. `SequenceEdit` is at the limit of what
    TLC can go through, so it needs smaller edits first;
13. the parser of operators (`polish_expr`) against a grammar.

Proof to come: `ImplementsRows` of `Tables`.

## 3. Modules

| module | models | its state in the code | its actions in the code |
|---|---|---|---|
| `NameList` | `mad_name.c` with one owner (`add_to_var_list` and its like) | `names`, `inform`, `index`, `curr` and `max`, the owner's array; `low`, `mid`, `high` of a running search | one per round of the binary search of `name_list_pos`, one per insertion and removal with its shift and growth |
| `NameMap` | what a list promises | a function from names to an object and a flag | lookup, entry, removal |
| `SequenceEdit` | the editor in `mad_seq.c`, `mad_node.c`, `mad_select.c` | `ed` is the sequence (`node` with next, previous, position, at_value, from_name; `nodes`; `occ_list`) and `selected_ranges`; `seqedit_select`, `edit_is_on` | one per command: Seqedit, Endedit, Flatten, Install*, Move*, Remove*, Replace*, Reflect, Cycle, Select |
| `SequenceLayout` | what an edit promises | elements and their places | the same commands on a list without nodes, names or pointers |
| `SequenceRefinement` | the map between the two | the layout a ring declares | |
| `Interpreter` | `madx_input`, `pro_input`, `act_special`, `exec_macro`, `exec_call` | `stack` is the C stack, one frame per call of `madx_input` or `pro_input`; `in`, `pro`, `return_flag`, `stop_flag` | a statement or a return each |
| `ControlFlow` | what the language promises | the statements that are left | |
| `InterpreterFlow` | what is left, read off stack, files and flags | | |
| `BufferedCommands` | `mad_cmdin.c` as `process` and `exec_command` use it | `labels`, `in_cmds`, `this_cmd`, `p` of the EXEC loop | ReadInput and ReadMacro (both ReadStatement), ExecMacro, FinishMacro, Follow, Execute |
| `Interpolation` | `mad_inter.c` and its callers | `interp_at`, `num_interp`, `interp_select`; `next`, `previous`, the ranges; `backup`; `made`, the elements that were cloned and not deleted | Select, Use, Slice (interpolate_node), Reset, Truncate (the early return of `peintp`), Refuse (the fatal error) |
| `Variables` | `mad_var.c`, `mad_expr.c`, `polish_value` in `mad_eval.c`, SAVE in `mad_seq.c`, parameters in `mad_cmdpar.c` | `var` with type, value, expression and status; `par`; `list` is the order of the variable list; `calls` is the C stack of evaluations, `cmd` the statement that asked, with the copy of the list that a SAVE goes through | Assign, Defer, SetVariable, AddExpression, Inherit, Read, Save*; an evaluation goes item by item (Take, Descend, Return, TooDeep) |
| `Definitions` | what definitions promise | a definition for each name, without values kept | the same statements |
| `Expressions` | sums of numbers and names, and what they mean | | |
| `LineMeaning` | what the manual says a line is | lists of members | |
| `LineExpansion` | `replace_lines`, `expand_line` | lines as tokens | functions of the text |
| `Expansion` | `enter_sequence`, `use_sequ`, `expand_curr_sequ`, `add_drifts` | `heap` is every sequence that was made, whether deleted or not; `sequences`, `line_list`, `current_sequ`; lengths of elements and the copy kept with them | MakeLine, SetLength, EnterSequence, UseLine, UseSequence |
| `Matching` | `mad_match.c`, `mad_match2.c`, `mad_const.c`, `collect` of `match.f90` | `match_is_on`, `option`, `match_sequs`, `node_cl` and `sequ_cl` (the lists of constraints), `match2`, `total_const`, `fun_vect` | a statement each, and each evaluation of the constraints by a method (Condition) |
| `MatchingKnobs` | `mad_ptcknobs.c` on top of it | `mpk` (knobs, variables, constraints), `loop` of `madx_mpk_run`, `script`, the file that it writes and calls | the loop (Calculate, FromFile, Verify) and the statements of the file, which are those of `Matching` |
| `Tables` | `mad_table.c`, the commands of `mad_exec.c`, the loop of `pro_twiss` | `heap` of tables, `names` and `ids` of the register, `tw` with the table and the mark of each sequence, `twiss`, where the command is | a command each; TWISS goes table by table and row by row, and may fail at each |
| `TableRows` | what the commands promise | sequences of rows | the same commands without register or room |
| `Generators` | `mad_rand.c`, `exec_option` | `irn_rand`, `next_rand`; `st_array`, `st`, the generator that is selected | Option, Init*, Draw* |

Names of elements are numbers with `<` for `strcmp`. C addresses are never
compared for order. A command is one action, because the program has one
thread; the loops of the name list are split into rounds, because their window
is what can go wrong, evaluations into items, because they nest and fail in the
middle, and TWISS, the methods of a match and the loop over PTC into steps,
because they can fail at each of them and call the interpreter. What is not in
the code: `given` in `BufferedCommands`, `Interpolation` and `Generators` and
`drawn` in the last (what the user asked for and got), `broken`, `crashed`,
`exited`, `state`, `freed` and `fatal` (the program stopped, or met memory that
is not there), `unusual` and `wanted` in `Matching` (what has happened that
excuses a difference).

Operators with a name of the form `Definition_Variant` are plausible mistakes in
`Definition`. They are used nowhere; each shows that some property would notice.

## 4. Runs

`tlc -config X.cfg M` for each; every run is exhaustive within its bounds. The
runs are chosen so that each question is asked once; the configurations of
`PROJECT.json` give their names.

| run | bounds | why they are enough | shows |
|---|---|---|---|
| `name_list` | 3 names, 2 objects, 2 flags, an array of no cell at first | three names give windows of every shape (hit left, middle, right, misses between), removal from each place, and two doublings | the index is sorted and complete after each step, the owner is in step, the window of each search brackets its name, the list implements a map, every call returns |
| `edit_named` | 3 elements, each once in the sequence, at places 0 and 1, shift 1, five nodes | a name is removed from each place of the list and put back at another; one place holds several nodes, also the start of a cycle. There is no second node of an element and none that is placed from another: the table of claims has what happens with them | ring, list, names and places agree after any order of the commands that name a node or turn the sequence, and those commands are edits of a list of placed elements |
| `edit_from` | 3 elements at places 0 to 2, four nodes, four entries of the ranges | two nodes between the ends: a moved one passes the other, one is placed from the other, from one that is moved or removed, and both from each other | loops over a selection treat each selected node once, places given from other nodes survive, and the program stops only over nodes that have no place |
| `interp` | programs of all pairs of nested constructs; STOP and RETURN in every position; files four deep in a list of three | each construct inside of and behind each other; growth happens with one and with more callers open | the interpreter executes what the language says, levels and units are in step, every program without WHILE ends, the file that growing loses is the caller's entry in use |
| `buffered_labels` | 2 labels, 1 macro, 4 statements | two labels are needed for a position to be wrong, a third statement for an EXEC after that | positions stay within the statements, EXEC ends |
| `interpolation` | 2 sequences of 4 and 3 nodes, one bend; 4 slices; 3 USE; 2 kept selections of six kinds | the code distinguishes 1, 2, 3 and more slices; the third USE is the first one after the other sequence was used | points survive USE, the table is never short of rows, rings and ranges come back, no clone is lost or deleted twice, faces are where they belong |
| `variables` | 2 variables and a parameter, numbers modulo 2, sums of two, 4 nested evaluations | two variables and a parameter refer to each other in a circle and outside of one; four is more than the longest chain | what a name gives is what its definition means now, a circle and nothing else is stopped by the counter, SAVE writes what is defined, evaluations end |
| `matching` | 3 sequences, one without expansion; 2 may be matched; 1 macro with room for 1 constraint; 3 constraints, 2 knobs, 1 failure; methods with a limit of 2 calls and without one | the second match finds what the first has left; a second constraint of a macro makes the array grow; a failure comes before, between and behind evaluations | counters, lists and vectors agree in each mode and across them, ENDMATCH clears what later matches read, the file that the loop over PTC writes ends, and the loop itself if its method has a limit |
| `tables` | one table with room for one row at first, three rows, row numbers from -2 to 2, one column, which may be TABLE() of the first row, one knob | growth from the first row on; each number of a row hits, misses from above and from below; the row that is filled is the one the column reads, before it and behind it | each command does what the manual says to rows and variables, but that FILL and FILL_KNOB read 0 from the row they fill and from those behind it; the row behind the last one is always there |
| `tables_twiss` | 2 values of DELTAP with chromaticities or without, 2 rows, failure at each, four tables alive | the second value renames the first table, the second TWISS meets the tables of the first | the tables are those the manual promises, the register has no table twice and none that was deleted |
| `expansion` | 2 elements, 3 names of lines with 5 bodies, 4 declarations three deep, 4 definitions | entry, centre and exit, with and without a reference element, are nested in each other; a name is a line, then a sequence, then another; a formal argument has the name of an element, an actual one that of an earlier formal | a line gives what it means, nodes are where they are declared, drifts fill the sequence and the count is right |

One run shows where the program and its manual differ:

| run | what happens |
|---|---|
| `seed_starts` | a seed of a stream leaves the position in the ring where earlier draws have brought it, and the words are read from there: the same seed gives other values (`mad_rand.c:67`; `error.tex:438`) |

`MCGenerators.cfg` checks by hand, in about a minute, what does hold of the
generators: types (`TypeOK`), the recurrence of the default generator across
refills (`Lagged`), and that a stream goes on where it was left (`Resumes`).

### Claims that do not hold

Manuals, comments and the code around make further claims for which TLC finds a
counterexample. Each is a definition in its module; to see it, take the
configuration, change the constants as said and put the property in the place of
those that are there.

| configuration | change | property | what happens |
|---|---|---|---|
| `MCSequenceClaims` | | `RemovesOnlyNamed` | a removed node stays listed while its element has another occurrence; removing it again cuts other nodes out of the ring |
| `MCSequenceClaims` | `Commands = {"seqedit", "endedit", "install"}` | `Renumbered` | ENDEDIT renames nodes of a sorted list in place, and a name leads to another node or none |
| `MCSequenceCompose` | | `RemovesOnlySelected` | the range of one SELECT and the class of another select together (`mad_seq.c:1515`; `control.tex:429`) |
| `MCSequenceClaims` | `Commands = {"seqedit", "flatten", "cycle", "reflect", "turn_again"}` | `StartFound` | CYCLE, REFLECT and FLATTEN in one edit mix up the start and the marker |
| `MCSequenceClaims` | `Commands = {"seqedit", "install_from", "move"}` | `Ordered` | nodes placed from a moved one are out of order in the ring while the edit goes on |
| `MCSequenceEntry` | | `Ordered` | so are nodes entered out of order |
| `MCSequenceFrom` with `Intact` alone | `Selects <- MCSelectsOne`, `MaxNode = 7`, `Commands = {"seqedit", "install_from", "select", "move_selected", "remove", "cycle"}` | `Intact` | after CYCLE at a marker that was installed from another element, MOVE of a selection with that element takes the start out of the ring (`mad_seq.c:1130`) |
| `MCInterpreter` | `Programs <- MCStop` | `StopEnds` | STOP inside of brackets: statements behind the bracket still run (`mad_eval.c:301`; `control.tex:53`) |
| `MCInterpreter` | `Programs <- MCStopWhile` | `StopHalts` | STOP in a WHILE whose condition stays true goes on for ever (`mad_eval.c:257`) |
| `MCInterpreter` | `Programs <- MCReturn` | `ReturnEnds` | RETURN in a macro is forgotten when the next called file ends |
| `MCInterpreter` | `Programs <- MCDeep`, `FilesMax = 2` | `AnyDepth` | `grow_in_buff_list` copies one file less than there is |
| `MCInterpreter` | `Programs <- MCElse` | `ElseBehindIf` | an orphaned ELSE is executed, according to the IF before it on the same level |
| `MCBufferedLabels` | `Macros <- MCTwoLabels`, `Statements <- MCExecOnly`, `MaxRead = 5` | `RunsLabelled` | EXEC of a label appends its statement again, but not the label: labels entered later are one position off (`mad_cmdin.c:44`; `control.tex:180`) |
| `MCBufferedLabels` | `Labels = {"a", "c", "d", "e"}`, `Macros <- MCChains`, `Statements <- MCExecOnly`, `NoFatalStop = TRUE`, `MaxRead = 8` | `ExecEnds` | with the option `no_fatal_stop`, an EXEC of EXEC can go in a circle |
| `MCInterpolation` | | `NeverOngoing` | a truncated PLOT leaves the slices in the ring; the next interpolation is fatal |
| `MCInterpolation` | | `AdditionalRows` | each USE adds the rows of all selections to `num_interp` again |
| `MCVariables` | `NoExpr = {TRUE}` | `SavesValues` | SAVE with NOEXPR writes values that are out of date (`mad_var.c:34`; `seqedit.tex:278`) |
| `MCVariables` | `NoExpr = {FALSE}` | `CanSave` | a variable that was deferred, and then set by SETVARS or VARY, has no expression any more, but the status of one that has not been evaluated: SAVE follows the null pointer |
| `MCVariables` | `MAX_LOOP = 2` | `ImplementsDefinitions` | a chain longer than the counter (100 in `mad_def.h:25`) fails like a circle |
| `MCMatching` | | `EndmatchEnds` | after matching with PTC knobs, and without a method, ENDMATCH returns before the mode is reset (`mad_match.c:368`; `match.tex:91`) |
| `MCMatching` | | `AnyMethodEnds` | a method whose CALLS is not above zero has no limit for the loop over PTC, which goes on as long as the last step was not small enough (`mad_ptcknobs.c:1004`) |
| `MCMatching` | | `OptionAgrees` | ENDMATCH of a match with macros leaves the option `match_is_on`, which the Fortran code asks, as MATCH set it |
| `MCMatching` | | `InPlace` | a macro that fails does not move the place in the vector on: the values of the next macro are written at its place (`mad_match.c:1082`) |
| `MCMatching` | | `Survives` | a method without VARY reads a list that was not made (`mad_match.c:166`) |
| `MCMatching` | `Ambiguous <- MCAmbiguous` | `OwnKnob` | a name that is refused because it is ambiguous with the first knob gives minus 0, which is the place of that knob (`mad_ptcknobs.c:167`) |
| `MCMatching` | `GoesOnAfter = {"killed", "late", "sequences", "cleaning", "aperture"}` | `Within` | constraints that a match which gave up has left on the nodes are not counted in the next, and written behind the end of its vector |
| `MCTablesTwiss` | | `FirstRow` | TABLE(table, column) without a row reads the row behind the last one, not the first (`format.tex`) |
| `MCTablesTwiss` | `TwissModes <- MCModesAll` | `NoTable` | NOTABLE with CHROM makes an empty table, and takes the place of the one that was there (`twiss.tex:120`) |
| `MCTables` | | `FillsCurrent` | FILL counts the row it fills, and those behind it, as not there while it evaluates the columns: TABLE() of such a row is 0 (`mad_exec.c:440`; `tables.tex:206`) |
| `MCTables` | | `KnobVaries` | FILL_KNOB writes minus the old value where the column reads the row it fills, as what the column was before is read with all rows (`mad_exec.c:507`; `tables.tex:253`) |
| `MCTables` | | `KnobKept` | FILL_KNOB leaves a knob that was deferred as a number |
| `MCTables` | `File <- MCFileFull`, without `RoomAssumption` | `FreeRow` | a table that is read from a file of as many lines as it has rows has no row behind them (`mad_table.c:563`) |
| `MCTablesTwiss` | `Sequence = {1, 2}`, `Id = {1, 2, 3, 4, 5}` | `ValidIsThere` | a sequence is marked as having a table that the TWISS of another one has deleted (`mad_table.c:878`; `mad_seq.h:52`) |
| `MCExpansion` | | `FreshLengths` | USE does not bring new lengths to the nodes of sub-sequences |
| `MCExpansion` | | `Overlaps` | an overlap of exactly the length of the sequence is let through |
| `MCExpansion` | | `Accessible` | nodes of two copies of a sub-sequence have the same names |
| `MCExpansion` | | `Survives` | a sequence that contains one that was defined again is expanded from freed nodes (`mad_seq.c:1947`) |
| `MCExpansion` | `LineBodies <- MCLineLater` | `LineMeans` | formal arguments of a line are replaced one after the other: an actual argument that has the name of a later formal is replaced again (`mad_macro.c:273`; `line.tex:160`) |
| `MCExpansion` | `LineBodies <- MCLineSubLine` | `LineMeans` | a sub-line behind the label of a line is taken for its arguments |
| `MCGenerators` | | `ZeroRestores` | a seed of zero does not make the jumps that the first selection makes |
| `MCGenerators` | | `Independent` | two streams with the same seed give the same values |

### Fairness

The program is sequential: while a call runs, nothing else does, and it goes on.
`NameList` assumes weak fairness of the rounds of a search, not of new
calls; `Interpreter` of its next step, which is the processor going on with the
program it was given; `BufferedCommands` of what follows a statement that was
read, not of reading more; `Variables` of the steps of an evaluation
and of the statement that asked for it (`Goes`); `MatchingKnobs` of the steps of
the loop, of the file it calls and of a method (`Goes`), and of a minimisation
coming to its end (`Stops`): each minimiser stops at its limit of calls, and soon if that is
not above zero. The loop over PTC itself is no minimiser. It looks at the limit only if the method has one, so `MethodEnds` is about
methods with a limit, and nothing is assumed of the others (`AnyMethodEnds`).
Nothing is assumed of the user: `SequenceEdit`,
`Interpolation`, `Tables`, `Expansion` and `Generators` state safety only and have
no fairness. The conditions of IF and WHILE are chosen at each evaluation, so
`Finishes` is checked for programs without WHILE.

Deadlock is not checked where the program may stop: after its last file, after
a fatal error, and when a bound on the commands of the user is met.

## 5. Proofs

`tlapm X.tla` for each module with a name in `Proofs`, and for `Induction`. All
theorems hold for every value of the constants that meets the assumptions of the
module; TLC evaluates these assumptions in the run of each module.

### What is proved

| module | theorem | what it says |
|---|---|---|
| `NameListProofs` | `TypeCorrect`, `IndexSorted`, `OwnerInStep`, `SearchWindow` | the invariants of the run `name_list` |
| | `Refinement` | a list with its owner implements the map `NameMap` |
| `SequenceEditProofs` | `EditedIntact` | `Intact`: ring, list of nodes, names and counts agree after any edit of nodes by name |
| | `EditedOrdered` | `Ordered`: along the ring places rise from 0 to the length, if none is given from another node |
| | `EditedPlaced` | `Placed`: each node is where `get_node_pos` computes it to be, under the same hypotheses |
| | `EditedStopped` | `Stopped`: an edit by name stops the program only over nodes that wait for each other's places, or for an element that the sequence does not have |
| `InterpreterProofs` | `LevelsBalanced` | `Balanced`: levels and input units are those of the frames on the C stack |
| | `CallerLost` | `LosesCaller`: the entry that is lost when the list of files grows is the caller's, and no other |
| | `LabelsInOrder` | `FirstOrder`: a label is entered once, at a statement that is there |
| `InterpolationProofs` | `RestoresRing` | `Whole`: a reset undoes an interpolation, and until then the slices stand in the place of the node |
| | `FacesOnce` | `SlicesAreBend`: the slices of a bend have its faces once |
| | `GivenAsSelected` | `AsSelected`: nodes have the points last selected for them |
| | `RoomForRows` | `EnoughRows`: the TWISS table has room for the rows of all points |
| `VariablesProofs` | `ValuesAreCurrent` | `Current`: values, cached or evaluated, are what the definitions mean now |
| | `SavedIsDefined` | `SavesDefinitions`: SAVE writes what is defined |
| | `DefinitionsImplemented` | `ImplementsDefinitions`: variables implement definitions without a cache |
| `MatchingProofs` | `JobForgotten` | `Forgets`: a match leaves nothing to the next |
| | `FileIsTaken` | `Taken`: the MATCH that the loop over PTC writes is not one inside of another |
| | `VectorFilled` | `Filled`: the constraints that were counted as they were given are those that are collected |
| `TablesProofs` | `TablesRegistered` | `InRegister`: each table that is alive is in the register once, under its own name |
| | `RowIsFree` | `FreeRow`: a table has a row behind its last one, if no file that is read fills its table exactly |

### From what, and how

**Named lists** (`NameListAssumption`: names are integers, an initial length).
The inductive invariant is `IInv == TypeOK /\ Sorted /\ InStep /\ Window /\ Prepared`.
None of its parts is inductive alone: insertion keeps `Sorted` only because the
window of the search that came before (`Window`) has closed around the place of
the name, removal keeps `InStep` only because index and positions are a
permutation (`Sorted`), and `Prepared` says that an owner has searched its list,
and grown its array, before it enters an object. For `Refinement`, rounds of a
search stutter and the last round of a call is the map's answer; it uses `IInv`
and that distinct cells have distinct names (`NamesDistinct`).

**Sequence editor** (`SequenceEditAssumption`: names of elements are numbers up to 100,
behind which the names of CYCLE's markers begin; and the hypothesis `ByName`). The theorems have
sequences of any length, with the places, shifts and half lengths of any size,
and edits of any number of nodes. `Intact` is a statement about what a walk along `next` meets
(`Ring`), about a binary search (`Probe`) and about counts, none of which can be
reasoned about by steps. The inductive invariant `Tidy` says that there is a sequence `r`, the ring, such that

- `Chain`: each node of `r` has the next as `next` and the one before as `previous`, the
  last and the first too, and `r` goes from the start to the end;
- `Listed`: the first entries of `nodes` are sorted by name, and are the nodes of
  `r` that are not markers of CYCLE; such markers are behind them, in any order, as the
  numbers behind 100 are theirs;
- `Labelled` and `Once`: an element is in `r` at most once, and its node is named after it,
  with the number 1; a marker of CYCLE has its own name or, at the end of `r`, that of the start;
- there are no other nodes in memory, and while an edit goes on (`Counted`) the counts are those of `r`.

The sorted part is what makes a search right (`ProbeHits`, `ProbeMisses`), insertion and removal of a
name keep it sorted (`AddedNew`, `DelistedIs`), and a walk along `next` is `r` (`Iteration` of
`Induction`, as the fuel of the walk is never short). Each operation of the code then is one
on `r`: `Linked` puts a node into it, `Unlinked` takes one out, `Turned` starts it elsewhere
(CYCLE), REFLECT reverses it, FLATTEN keeps it and makes the list anew
(`AllAdded`, by a fold). An install goes in front of a node
behind the start, the end if there is no other (`Joined`), so the ends of `r` stay.

`ByName` has three conditions, each of which `Intact` needs. An element comes once in the
sequence, and what is installed is new (`Reuse = {}`): with two nodes of an element, removal and
renumbering make their names collide (`RemovesOnlyNamed` and `Renumbered` in
the table of claims). The commands are those of the run `edit_named`, INSTALL from another node and SELECT:
MOVE of a selection can take the start out of the ring (the table has that
run, which needs more nodes than `edit_named` has). No second CYCLE or REFLECT in an edit
(`turn_again`), as in the run (`StartFound`).

`EditedOrdered` and `EditedPlaced` have the hypothesis `ByPlace` too: the sequence is entered in
the order of its places, no place is given from another node, and none is that of an end of an element.
It holds in `edit_named`; the theorems have any number of nodes and any
places. Without the last two parts `Ordered` fails, by `MCSequenceClaims` and `MCSequenceEntry` in the
table of claims. The two properties are not inductive: `Ordered` compares neighbours,
an insertion needs the order of all of the ring, and both are about an edit only, but begin
with the places that were there before it. The inductive invariant `Level` says of the ring `r`
that `at_value` rises along it from 0 to the length, at all times (`Rising`), that it is the position
while an edit goes on (`InPlace`), and that nothing is placed from a node or by an end (`Free`,
`Centred`). `insert_elem` looks for the first node behind the start that is not before
the new one; with `Rising`, that none before it is behind the new one follows (`JoinedLaid`). CYCLE
is the step that has most of the work: the ring starts with the node of the marker, so its places
fall once (`Turning`). The loop then subtracts the place of the marker from each, and adds the
length where that is below 0, or is 0 and the flag says that the walk has come past a node elsewhere; that the flag
is right is what makes places rise again (`AnewRises`). REFLECT reverses both ring and places (`ReversedLaid`), and
FLATTEN and SEQEDIT compute places anew, to what they were (`DeclaredAt`).

`EditedStopped` needs `ByName` only: nodes may be placed from others, and by the ends of elements.
The invariants are `Refers` (a node is placed from an element and its first occurrence;
the clone that CYCLE makes has that of its original) and `Stopping` (at a stop there is a set `Lost` of nodes
of which each waits for another one, or for an element that the sequence does not have). By
`HolderIs`, the search for an element that a node of the ring has finds this node, so no stop comes from a list out of order.
Let `f[d]` be the nodes for which no place is found along `d` references. They are fewer for
each `d` or the same, `d` goes up to the number of nodes, and if there is one left in the end, then two of
these sets are equal (`Shrinking`). Each node of that set is placed from one of it
or from none, so the set is `Lost` (`LosingIs`). CYCLE checks places when it has made a clone,
and SEQEDIT when it has made all nodes anew: `LostBefore` carries the set back
to the sequence before the step, in which the program stops.

**Labelled statements** (`BufferedAssumption`; in `InterpreterProofs`). The strengthening of `FirstOrder`
adds the types of what is buffered (whatever EXEC follows or a macro leaves in
`this_cmd` is a statement, so its label is one of the labels), and that there
never are more labels than statements: a label that comes to the end of its array
is not behind its statement because of that.

**Interpreter.** `Balanced` counts frames, and a step adds or drops one; that
the counters follow needs to know which frame is below which. `Nested` says it:
the first frame reads the main file, the frame of a line is begun by the file
below it and by nothing else, everything else by a statement. `Levels` and
`Units` then say that the number a frame has kept (`level`, `top`) is its rank
among the frames of its kind, so a return puts `pro->curr` and `in->curr` back to
the rank of the frame that goes on. Units are balanced only until STOP, as in the code.
`CallerLost` is about the list itself, whose length goes through `Lengths[0]`,
`Lengths[1]` and so on, each twice the one before. `Known` says which of the entries
that are open are lost: those at the end of a length the list has had. `Room` says that
the list is no longer than the calls have needed, and that there are never fewer files
open than before it last grew: the program stops at the entry that is lost, so it
comes no further down, and no entry is lost twice. `FilesAre` and `Opened` give the entries their types
and say where input goes on after STOP.

**Interpolation** (`InterpolationAssumption`: finitely many sequences with
distinct nodes, slices that are no nodes, a `None` that is nothing else, commands with
the parameters SELECT has). `Whole` says little while nothing
is interpolated. The invariant says of every sequence that was expanded, not
only the one in use, that its ring is that of its line (`Ring`), or, while a node
is sliced, that of its line with a chain of slices in the node's place (`Open`,
`Chain`), whatever the number of slices; `Ranged` says that a range is one
that a sequence can have, and `Sliced` which clones were made. After a
truncated PLOT nothing is said of the rings (see `NeverOngoing`).

`GivenAsSelected` and `RoomForRows` share `PointInv`. `Says` ties what the user has
selected to the commands that are kept: a node has the points of the latest command
in the list that hits it, or none. This is what makes USE right, which forgets the points
of a ring and gives the list again (`ReplayedIs`, by induction along the fold). The
sequences that USE does not touch are gone through as well, so their nodes must get what
they have already: `Agree`. `Enough` is kept because a selection changes the number of
rows by what the points of the same nodes change (`SelectedIs`, from `SumChange`),
and USE drops points without subtracting them. Both are about the nodes
a walk over the ring meets. While a node is sliced its points are not met, so `Reach` takes
the nodes of the line then. A truncated PLOT leaves a ring of which only
this is known (`Left`, `Stays`): a walk meets nodes of the sequence and slices, none that
is in another sequence (`ExtentsApart`), and the slices had no points when they
were made.

**Variables** (`ExpressionsAssumption`: finitely many names, none of them a
number; `VariablesAssumption`: statements have expressions on their right, and
`None` is none of the values it is compared with). The
invariant has the shapes of records, that the list has the variables there are
(`Listed`), that only what is deferred keeps an expression (`Kept`), who waits for
whom in the stack of evaluations (`Called`, `Waiting`), and that a file of SAVE has the
definitions of the names that were gone through (`Saves`). `ValuesAreCurrent` adds
`Summed`: each call has added up what its first items mean, and the names among
them are *ground*, which is to say that following definitions from them comes to
an end. `VariablesProofs` begins with why this is needed and enough. Meanings follow
definitions as often as there are names; a name that is ground is settled after
that many rounds, because a chain of names without repetition is no longer than
that (`Ground`, and the pigeonhole principle in its proof), so its meaning is the sum of
the meanings behind it. Without `Ground` a value could be one round
behind. A definition that changes has no evaluation in progress behind it.

`DefinitionsImplemented` has the hypothesis `Cardinality(Name) < MAX_LOOP`, and `Begun`, that
what waits for a value is not an assignment to a constant. `polish_value` counts calls
to tell a circle (100 in `mad_def.h:25`): with fewer names than that, a stack
that high has a name twice, so that name refers to itself (`ChainCircular`), and a name that
is ground is in no circle (`NoCircleGround`), which gives the other direction.
With more names a chain without a circle is taken for one; the table above has that
run. SAVE goes through a copy of the list (`cmd.varl`, made by `clone_var_list`).
An evaluation on the way may enter a name that it meets for the first time; the
copy has it not, and `Saves` says that what the copy has not is not worth writing.

**Matching** (`MatchingAssumption`, `UserAssumption`; `NullIsApart`: `NULL` is none of the
two kinds of records that it is compared with, over all fields, which TLC cannot
enumerate, so it is a hypothesis of the theorems). `Forgets` is about the time
between matches, so the invariant has to say what is there during one:
`Job` says for each mode which sequences carry constraints and what is kept of the options, and
`InLoop`, `Phase(k)` how far the file of commands was read that the loop over PTC
has written, with the mode each of its statements leaves. `JobForgotten` is
about matches that did nothing `unusual`; the table of claims that do not hold shows
what others leave. `Taken` needs no such condition.

`VectorFilled` is about two ways to count. `total_const` grows by one as a
constraint is given; `collect` and `mtcond` go through lists, nested ones. The invariant
`Counted` says that the vector of a minimiser has the size that was counted, and that
the count is the sum of what the lists hold: over the sequences of a MATCH
(`SequencesCounted`), or over its macros (`MacroCount`). A fold over a sequence
is unfolded place by place (`FoldOfPlaces`), the length of what it has
appended is a sum, and the sums come from `Induction`. There are two hypotheses, both
because the code counts differently without them: `NamedOnce` (with
`MATCH, SEQUENCE=s,s` a constraint on `s` is counted once and collected twice) and
`LeftSides` (a constraint of a macro without a left side leaves its place to the next one,
and both are counted).

**Tables** (`TablesAssumption`; of it `EnoughIds` is malloc: more addresses than there
can be tables alive). Each command takes tables out of the register and puts
tables in, and TWISS goes on for many steps between them. `Linked` says that the
lists of names and of addresses go together without repetition, each under the name its
table has; its last argument has the addresses that are in no list for a moment, a
table that TWISS has detached to rename or one that is not entered yet, so that the
lemmas on `AddedToList`, `Detached`, `Deleted` and `Renamed` can be put one behind the
other. `TwissIs` bounds the number of a DELTAP by the names there are for its
table: the new name of a table is a name, and so deleting what had that name
before cannot miss it. That a new table is at no address in use (`FreshIs`) is
counted: one table for a name, and `EnoughIds`. `RowIsFree` adds `Roomy`: every operation that
counts a row looks whether it was the last one, with one exception, a file that
is read. Hence the hypothesis `FilesLeaveRoom`, which `MCTables` assumes of its files, and
without which the property does not hold (`MCFileFull` above). `NoneIsApart`: `None` is
neither an address nor a table; it is a hypothesis because TLC cannot ask a model value
for its fields.

**Induction.** The library's induction theorems take an operator as a parameter,
which the provers cannot instantiate. `Induction` states induction for a set
(a set with 0 and all successors has all natural numbers, by
the well-foundedness of `<`), and from it that a recursion over `0 .. n` has one
solution (`Iteration`). This is how `Sums`, `Levels`, `Reaches`, `Walk`, `Lengths` and
`Lines`, which are recursive functions, are unfolded for every argument.
`LeastNatural` takes the first of the numbers that have a property. The second half
is for the folds of the community modules, which choose a function on the subsets of a
set: induction over a finite set (`FiniteInduction`), the existence of that
function (`FoldExists`), and sums over finite sets (`SumTake`, `SumChange`,
`SumGrows` and others, which do not depend on the order of the fold), also over the
places of a sequence (`SumFirst`, `SumOneMore`).

### Only model-checked

- All liveness (`Returns`, `Finishes`, `ExecEnds`, `Ends`, `MethodEnds`): the
  prover has neither fairness nor ENABLED.
- Of the sequence editor, the layout it implements (`EditsLayout`), and what the loops over a selection do
  (`RemovesSelected`, `MovesSelected`, `KeepsReferences`).
- The expansion of sequences (`Covers`, `Arranged`): `Expansion` uses the RECURSIVE
  operators of the lines, see the next point.
- `LineExpansion` and `LineMeaning`, whose operators are RECURSIVE: with them tlapm
  has no SMT.
- The generators, which need exclusive or on words.
- `Fits` of the matches, which follows the constraints of a match with knobs
  into the file that the loop writes, and out of it again.
- `ImplementsRows` and `EachAsSaid` of the tables, which compare all cells.
- What the loop over PTC does without a limit of calls: nothing is claimed of it.
- `FollowsFlow`, the language that the interpreter implements: what is left to
  do is read off the stack by a recursion on frames within frames.

## 6. Not modelled

- Text: splitting into statements and tokens, strings with quotes, the lengths
  of names and of buffers (a macro longer than the buffer an earlier one of its
  level has allocated, `mad_macro.c:174`). What happens in `mad_parse.c` before
  a statement is known has no state that outlives it; of `pre_split` the part
  that lines depend on is modelled.
- Numbers: places and lengths are integers, tolerances too; expressions are sums
  modulo a small number, without operators and functions.
- USE, or the definition of a sequence, during an edit (`mad_seq.c:309`).
- `Interpolation`: SLICE = 0 and empty AT lists, which the manual does not
  provide for; the option `no_fatal_stop`, after which an interpolation may start
  while another is still there; the numbers of the faces (h1, hgap, fint).
- `Expansion`: FROM, ranges, beams and cavities, ADD_PASS and NEXT_SEQU; lines
  repeated 0 times and lines that contain themselves. The replacement of arguments is that of
  the code; the lines of the run `expansion` have no actual argument with the name of a later
  formal, those of `MCLineLater` have.
- `Matching`: the minimisation itself, weights, VLENGTH, and the fixed arrays of
  the interface to PTC. A TWISS, a PTC run and a macro succeed or fail.
- `Tables`: TABLE() without a row in a column that FILL fills, which sees the columns before it
  already filled (in the runs a user's table has one column, and no such access to it); columns of text, rows found by the name of an element, selections of
  rows and columns, file formats; the Fortran code is modelled only where it
  writes and counts rows.
- `Generators`: the distributions made from the values.
- The physics, PTC, the orbit correction, file formats, graphics and the
  collector in `libs/gc`: numerical code, output and code that is vendored, which is
  most of the repository by lines and has no states a model checker can tell
  apart. Each part is listed in `PROJECT.json` with its reason.
