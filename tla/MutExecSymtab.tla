---------------------------- MODULE MutExecSymtab ----------------------------
(***************************************************************************)
(* The symbol table of exec/mut_exec_symtab.c: a linked list of functions, *)
(* each with a linked list of lines, as functions of a sequence of         *)
(*                                                                         *)
(*    [name, start, origin, file, lines],   lines a sequence of [addr, line] *)
(*                                                                         *)
(* origin is the string table that the name points into.  file is the      *)
(* position of the file name in .stabstr.  s->cache is always the function *)
(* being extended, and s->end is never read.                               *)
(***************************************************************************)
EXTENDS Integers, Sequences, SequencesExt

\* Values of a file name pointer that point to no string: 0, and not assigned.
NullName == -1
UnsetName == -2

\* What a lookup answers when no function is found.
NoFunction == [found |-> FALSE]

mut_exec_symtab_open == <<>>

mut_exec_symtab_fun_open(n, a, o) ==
    [name |-> n, start |-> a, origin |-> o, file |-> UnsetName, lines |-> <<>>]

\* Where a function at a stands or belongs.
Place(t, a) ==
    LET i == SelectInSeq(t, LAMBDA f : a <= f.start)
    IN  IF i = 0 THEN Len(t) + 1 ELSE i

\* Whether a function already starts at a: the new one is then not added.
Taken(t, a) == Place(t, a) <= Len(t) /\ t[Place(t, a)].start = a

\* Defect: the functions are kept in the order in which they come.
AddFunLast(t, n, a, o) ==
    IF Taken(t, a) THEN t ELSE Append(t, mut_exec_symtab_fun_open(n, a, o))

\* Defect: the later of two names replaces the earlier.
AddFunReplacing(t, n, a, o) ==
    IF Taken(t, a)
    THEN [t EXCEPT ![Place(t, a)] = mut_exec_symtab_fun_open(n, a, o)]
    ELSE InsertAt(t, Place(t, a), mut_exec_symtab_fun_open(n, a, o))

mut_exec_symtab_add_fun(t, n, a, o) ==
    IF Taken(t, a) THEN t
    ELSE InsertAt(t, Place(t, a), mut_exec_symtab_fun_open(n, a, o))

\* The position of the function whose range, up to the next one, covers a.
Covering(t, a) ==
    LET C == {i \in 1..Len(t) :
                /\ a >= t[i].start
                /\ i = Len(t) \/ a < t[i + 1].start}
    IN  IF C = {} THEN 0 ELSE CHOOSE i \in C : \A j \in C : i <= j

\* Defect: a line goes before the lines of the same address.
LineBeforeEquals(lines, a, l) ==
    LET i == SelectInSeq(lines, LAMBDA fl : a <= fl.addr)
    IN  InsertAt(lines, IF i = 0 THEN Len(lines) + 1 ELSE i, [addr |-> a, line |-> l])

mut_exec_symtab_add_xxx(lines, a, l) ==
    LET i == SelectInSeq(lines, LAMBDA fl : a < fl.addr)
    IN  InsertAt(lines, IF i = 0 THEN Len(lines) + 1 ELSE i, [addr |-> a, line |-> l])

\* A line before every function is only warned about ("elf.xxx").
mut_exec_symtab_add_range(t, a, l, fn) ==
    IF Covering(t, a) = 0 THEN t
    ELSE [t EXCEPT ![Covering(t, a)].file = fn,
                   ![Covering(t, a)].lines = mut_exec_symtab_add_xxx(@, a, l)]

\* Line 0 when no line of the function is at or after a.
mut_exec_symtab_lookup_addr(t, a) ==
    IF Covering(t, a) = 0 THEN NoFunction
    ELSE LET f == t[Covering(t, a)]
             i == SelectInSeq(f.lines, LAMBDA fl : a <= fl.addr)
         IN  [found |-> TRUE, start |-> f.start, name |-> f.name, file |-> f.file,
              line |-> IF i = 0 THEN 0 ELSE f.lines[i].line]

\* 0 when there is no such function.
mut_exec_symtab_lookup_name(t, n) ==
    LET i == SelectInSeq(t, LAMBDA f : f.name = n)
    IN  IF i = 0 THEN 0 ELSE t[i].start
==============================================================================
