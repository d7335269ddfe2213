------------------------------- MODULE MutExec -------------------------------
(***************************************************************************)
(* The ELF reader of exec/elf/mut_exec.c: mut_exec_open, one call of it or *)
(* one round of its loops a step, each of which may fail where the code    *)
(* checks for failure, then the calls mut.c makes of an open executable.   *)
(*                                                                         *)
(* A file is                                                               *)
(*    [elf, class, exec : BOOLEAN, sections : Seq(section), stabstr]       *)
(* stabstr[k] says whether the string at k of .stabstr ends in "/".  A     *)
(* section has a kind (its sh_type and its name) and what the reader takes *)
(* from it: the symbols of a symbol table, the address and alignment of    *)
(* .plt, the entries of .stab.                                             *)
(***************************************************************************)
EXTENDS MutExecSymtab, FiniteSets

CONSTANTS
    Files,          \* the executables
    Functions,      \* the names mut_exec_functions_addr is given
    Addrs,          \* the addresses mut_exec_addr_name is given
    Suffix,         \* undesirable_suffix, NoVersion when it is 0
    SectionsMax,    \* mut_exec_reader_sections_max
    HalfRange,      \* 2^16, one more than the largest mut_elf_half
    Faults          \* what can fail: "format", "io", "malloc", "fun_node", "line_node"

NoVersion == "none"
NoSlot == -1
Kinds == {"symtab", "dynsym", "stab", "plt"}

\* What mut_exec_open allocates: the FILE, the five tables of strings and
\* entries, the strings of the headers, and the nodes of exec->symtab.
Buffers == {"source", "shstrings", "strtab", "dynstr", "stabstr", "symbols", "stabs", "table"}

\* What a pointer can be.  "twice": freed after it was freed; "wild": freed
\* before it was assigned.
Pointers == {"unset", "null", "live", "freed", "twice", "wild"}

ASSUME ExecAssumption ==
    /\ SectionsMax \in Nat \ {0} /\ HalfRange \in Nat \ {0}
    /\ Faults \subseteq {"format", "io", "malloc", "fun_node", "line_node"}

\* Addresses and offsets are counted from 0, by the fields that hold them.
IsSymbols(s) ==
    Len(s) \in Nat /\ \A k \in 1..Len(s) : s[k].func \in BOOLEAN /\ s[k].value \in Nat

IsStabs(s) ==
    Len(s) \in Nat /\ \A k \in 1..Len(s) :
        /\ s[k].type \in {"LINE", "FUN"} => s[k].value \in Nat
        /\ s[k].type = "SO" => s[k].str \in Nat

IsSection(s) ==
    /\ s.kind \in {"symtab", "dynsym"} => IsSymbols(s.syms)
    /\ s.kind = "plt" => s.addr \in Nat /\ s.align \in Nat
    /\ s.kind = "stab" => IsStabs(s.stabs)

ASSUME FilesAssumption ==
    /\ Addrs \subseteq Nat
    /\ \A x \in Files : /\ Len(x.sections) \in Nat
                        /\ \A j \in 1..Len(x.sections) : IsSection(x.sections[j])

VARIABLES
    file,       \* the executable; it does not change
    pc,         \* the next call of mut_exec_open, then the state of exec
    mem,        \* what each pointer to allocated memory is
    slots,      \* reader.section.header: the section each slot was read from
    free,       \* reader.section.free
    found,      \* reader.symtab, dsymtab, stabs and plt: a slot
    n,          \* the section header being read
    i,          \* the symbol or stab being looked at, 0 before they are read
    f,          \* the number of the next function in .plt
    base,       \* base_addr of the stabs
    fn,         \* the file name of the stabs
    symtab,     \* exec->symtab
    full,       \* exec->has_full_symbols
    addrs,      \* what mut_exec_functions_addr found
    backtrace,  \* whether mut_open keeps the backtrace flag
    reply       \* the last question of mut_exec_addr_name and its answer

readerVars == <<slots, free, found, n>>
loopVars == <<i, f, base, fn>>
execVars == <<symtab, full>>
replyVars == <<addrs, backtrace, reply>>
vars == <<file, pc, mem, readerVars, loopVars, execVars, replyVars>>

Init ==
    /\ file \in Files
    /\ pc = "fopen"
    /\ mem = [b \in Buffers |-> "unset"]
    /\ slots = [s \in 0..SectionsMax - 1 |-> 0]
    /\ free = 0
    /\ found = [k \in Kinds |-> NoSlot]
    /\ n = 1 /\ i = 0 /\ f = 1 /\ base = 0 /\ fn = NullName
    /\ symtab = <<>>
    /\ full = "unset"
    /\ addrs = [g \in Functions |-> 0]
    /\ backtrace = FALSE
    /\ reply = [asked |-> 0, answer |-> NoFunction]

-----------------------------------------------------------------------------
(* memory *)

Freed(p) ==
    IF p = "live" THEN "freed"
    ELSE IF p = "freed" THEN "twice"
    ELSE IF p = "unset" THEN "wild" ELSE p

mut_mem_free(m, B) == [b \in Buffers |-> IF b \in B THEN Freed(m[b]) ELSE m[b]]

Loaded(m, b) == [m EXCEPT ![b] = "live"]

\* The three ways to fail of a function that checks a header, allocates b and
\* reads into it: before the allocation, in it, and after it.
NotLoaded(m, b) ==
    (IF Faults \cap {"format", "io"} # {} THEN {m} ELSE {})
      \cup (IF "malloc" \in Faults THEN {[m EXCEPT ![b] = "null"]} ELSE {})
      \cup (IF "io" \in Faults THEN {mut_mem_free(Loaded(m, b), {b})} ELSE {})

-----------------------------------------------------------------------------
(* the labels at the end of mut_exec_open, each falling into the next *)

could_not_read_header(m) == mut_mem_free(m, {"source"})

could_not_locate_sections(m) == could_not_read_header(mut_mem_free(m, {"shstrings"}))

\* exec->symtab.head is left as it is.
mut_exec_symtab_close(m) == mut_mem_free(m, {"table"})

could_not_open_strtab(m) == could_not_locate_sections(mut_exec_symtab_close(m))

\* Defect: the symbols' names are forgotten.
DynstrKeepsStrtab(m) == could_not_open_strtab(m)

\* also could_not_open_symtab
could_not_open_dynstr(m) == could_not_open_strtab(mut_mem_free(m, {"strtab"}))

\* Defect: the stab strings are released where they may not be there.
DynsymFreesStabstr(m) == could_not_open_dynstr(mut_mem_free(m, {"dynstr", "stabstr"}))

\* also could_not_open_stabstr
could_not_open_dynsym(m) == could_not_open_dynstr(mut_mem_free(m, {"dynstr"}))

could_not_extract_debug_info(m) == could_not_open_dynsym(mut_mem_free(m, {"stabstr"}))

Fails(m) == pc' = "failed" /\ mem' = m

\* The assertion of mut_exec_strtab_lookup and mut_exec_shstrtab_lookup: the name
\* of a function or of a section is not in the strings of a malformed file.
NameOutOfRange == "format" \in Faults /\ pc' = "abort" /\ UNCHANGED mem

-----------------------------------------------------------------------------
(* the file, its header and its section headers *)

mut_exec_fopen ==
    /\ pc = "fopen"
    /\ \/ pc' = "header" /\ mem' = [mem EXCEPT !["source"] = "live"]
       \/ "io" \in Faults /\ pc' = "failed" /\ UNCHANGED mem
    /\ UNCHANGED <<file, readerVars, loopVars, execVars, replyVars>>

\* mut_exec_check_id, mut_exec_check_class and mut_exec_check_type
Checked == file.elf /\ file.class /\ file.exec

mut_exec_check ==
    /\ pc = "header"
    /\ \/ Checked /\ pc' = "shstrtab" /\ UNCHANGED mem
       \/ ~Checked /\ Fails(could_not_read_header(mem))
       \/ "io" \in Faults /\ Fails(could_not_read_header(mem))
    /\ UNCHANGED <<file, readerVars, loopVars, execVars, replyVars>>

mut_exec_shstrtab_open ==
    /\ pc = "shstrtab"
    /\ \/ pc' = "locate" /\ mem' = Loaded(mem, "shstrings")
       \/ \E m \in NotLoaded(mem, "shstrings") : Fails(could_not_read_header(m))
    /\ UNCHANGED <<file, readerVars, loopVars, execVars, replyVars>>

\* The seek to the headers, which may fail.
mut_exec_locate_start ==
    /\ pc = "locate"
    /\ \/ pc' = "sections" /\ UNCHANGED mem
       \/ "io" \in Faults /\ Fails(could_not_locate_sections(mem))
    /\ UNCHANGED <<file, readerVars, loopVars, execVars, replyVars>>

\* Defect: the slot of a section found is used again.
LocateInPlace(kind) ==
    IF kind \in Kinds /\ found[kind] = NoSlot
    THEN found' = [found EXCEPT ![kind] = free] /\ UNCHANGED free
    ELSE UNCHANGED <<found, free>>

\* .protect: only the first section of each kind is used.
mut_exec_locate_section(kind) ==
    IF kind \in Kinds /\ found[kind] = NoSlot
    THEN found' = [found EXCEPT ![kind] = free] /\ free' = free + 1
    ELSE UNCHANGED <<found, free>>

\* Round n of the loop reads header n - 1, counted from 0, into the free slot.
\* Past the last slot it writes over section.free and what follows it: what
\* the program does then is not defined, and "overrun" is its last state.
mut_exec_locate_sections ==
    /\ pc = "sections" /\ n < Len(file.sections)
    /\ \/ /\ free < SectionsMax
          /\ slots' = [slots EXCEPT ![free] = n]
          /\ mut_exec_locate_section(file.sections[n].kind)
          /\ n' = n + 1
          /\ UNCHANGED <<pc, mem>>
       \/ /\ free < SectionsMax /\ NameOutOfRange
          /\ file.sections[n].kind \in {"symtab", "dynsym"} => found[file.sections[n].kind] = NoSlot
          /\ UNCHANGED readerVars
       \/ free = SectionsMax /\ pc' = "overrun" /\ UNCHANGED <<mem, readerVars>>
       \/ "io" \in Faults /\ Fails(could_not_locate_sections(mem)) /\ UNCHANGED readerVars
    /\ UNCHANGED <<file, loopVars, execVars, replyVars>>

Found(k) == found[k] # NoSlot
Header(k) == file.sections[slots[found[k]]]

\* Which of the tables is read next.
AfterDynsym == IF Found("stab") THEN "stabstr" ELSE "fclose"
AfterSymtab == IF Found("dynsym") THEN "dynstr" ELSE AfterDynsym

mut_exec_sections_located ==
    /\ pc = "sections" /\ n >= Len(file.sections)
    /\ \/ /\ Found("symtab") \/ Found("dynsym")
          /\ pc' = IF Found("symtab") THEN "strtab" ELSE "dynstr"
          /\ mem' = [mem EXCEPT !["table"] = "null", !["strtab"] = "null", !["dynstr"] = "null"]
          /\ symtab' = mut_exec_symtab_open
       \/ /\ ~Found("symtab") /\ ~Found("dynsym")
          /\ Fails(could_not_locate_sections(mem))
          /\ UNCHANGED symtab
    /\ UNCHANGED <<file, readerVars, loopVars, full, replyVars>>

-----------------------------------------------------------------------------
(* the symbol tables: T is "symtab" or "dynsym" *)

Strings == [symtab |-> "strtab", dynsym |-> "dynstr"]

StringsLabel(T, m) == IF T = "symtab" THEN could_not_open_strtab(m) ELSE could_not_open_dynstr(m)
SymbolsLabel(T, m) == IF T = "symtab" THEN could_not_open_dynstr(m) ELSE could_not_open_dynsym(m)

mut_exec_strtab_open(T) ==
    /\ pc = Strings[T]
    /\ \/ pc' = T /\ mem' = Loaded(mem, Strings[T])
       \/ \E m \in NotLoaded(mem, Strings[T]) : Fails(StringsLabel(T, m))
    /\ UNCHANGED <<file, readerVars, loopVars, execVars, replyVars>>

mut_exec_read_symbols(T) ==
    /\ pc = T /\ i = 0
    /\ \/ i' = 1 /\ f' = 1 /\ mem' = Loaded(mem, "symbols") /\ UNCHANGED pc
       \/ \E m \in NotLoaded(mem, "symbols") : Fails(SymbolsLabel(T, m)) /\ UNCHANGED <<i, f>>
    /\ UNCHANGED <<file, readerVars, base, fn, execVars, replyVars>>

\* The name is cut off where the undesirable suffix begins.
Cut(name) == IF name.version = Suffix THEN [name EXCEPT !.version = NoVersion] ELSE name

\* The address of a function: the entry of .plt when a dynamic symbol has none.
FunAddr(T, s, k) ==
    IF s.value = 0 /\ T = "dynsym" /\ Found("plt")
    THEN Header("plt").addr + k * Header("plt").align
    ELSE s.value

\* A function's name is looked up first.  The node's memory is asked for only
\* when no function starts at the address.
mut_exec_extract_symbol(T) ==
    /\ pc = T /\ i > 0 /\ i <= Len(Header(T).syms)
    /\ LET s == Header(T).syms[i]
           sa == FunAddr(T, s, f)
       IN  \/ /\ ~s.func
              /\ i' = i + 1
              /\ UNCHANGED <<pc, mem, f, symtab>>
           \/ s.func /\ NameOutOfRange /\ UNCHANGED <<i, f, symtab>>
           \/ /\ s.func
              /\ i' = i + 1 /\ f' = f + 1
              /\ IF sa = 0 THEN UNCHANGED <<mem, symtab>>
                 ELSE /\ symtab' = mut_exec_symtab_add_fun(symtab, Cut(s.name), sa, Strings[T])
                      /\ mem' = Loaded(mem, "table")
              /\ UNCHANGED pc
           \/ /\ "fun_node" \in Faults /\ s.func /\ sa # 0 /\ ~Taken(symtab, sa)
              /\ Fails(SymbolsLabel(T, mut_mem_free(mut_exec_symtab_close(mem), {"symbols"})))
              /\ UNCHANGED <<i, f, symtab>>
    /\ UNCHANGED <<file, readerVars, base, fn, full, replyVars>>

mut_exec_symbols_extracted(T) ==
    /\ pc = T /\ i > 0 /\ i > Len(Header(T).syms)
    /\ mem' = mut_mem_free(mem, {"symbols"})
    /\ i' = 0
    /\ pc' = IF T = "symtab" THEN AfterSymtab ELSE AfterDynsym
    /\ full' = IF T = "symtab" THEN "set" ELSE full
    /\ UNCHANGED <<file, readerVars, f, base, fn, symtab, replyVars>>

-----------------------------------------------------------------------------
(* the stabs *)

mut_exec_stabstr_open ==
    /\ pc = "stabstr"
    /\ \/ pc' = "stabs" /\ mem' = Loaded(mem, "stabstr")
       \/ \E m \in NotLoaded(mem, "stabstr") : Fails(could_not_open_dynsym(m))
    /\ UNCHANGED <<file, readerVars, loopVars, execVars, replyVars>>

mut_exec_extract_stabs ==
    /\ pc = "stabs" /\ i = 0
    /\ \/ i' = 1 /\ mem' = Loaded(mem, "stabs") /\ UNCHANGED pc
       \/ \E m \in NotLoaded(mem, "stabs") : Fails(could_not_extract_debug_info(m)) /\ UNCHANGED i
    /\ UNCHANGED <<file, readerVars, f, base, fn, execVars, replyVars>>

\* Only half of the string index of an entry is looked at.
mut_exec_stab_str(s) == s.str % HalfRange

\* The directory is not used.  The name that ends a source file has no "/".
SourceFile(k) == IF file.stabstr[k] THEN fn ELSE IF fn = NullName THEN k ELSE NullName

\* Defect: the string after the last is taken too.
SourcePastEnd(s) ==
    LET k == mut_exec_stab_str(s)
    IN  IF k \in DOMAIN file.stabstr THEN SourceFile(k)
        ELSE IF k = Cardinality(DOMAIN file.stabstr) THEN k ELSE fn

\* The file name after the entry s of type SO.
SourceName(s) ==
    IF mut_exec_stab_str(s) \in DOMAIN file.stabstr THEN SourceFile(mut_exec_stab_str(s)) ELSE fn

mut_exec_extract_debug_info ==
    /\ pc = "stabs" /\ i > 0 /\ i <= Len(Header("stab").stabs)
    /\ LET s == Header("stab").stabs[i]
       IN  \/ /\ s.type = "LINE"
              /\ symtab' = IF base = 0 THEN symtab
                           ELSE mut_exec_symtab_add_range(symtab, base + s.value, s.line, fn)
              /\ i' = i + 1
              /\ UNCHANGED <<pc, mem, base, fn>>
           \/ /\ "line_node" \in Faults /\ s.type = "LINE"
              /\ base # 0 /\ Covering(symtab, base + s.value) # 0
              /\ Fails(could_not_extract_debug_info(mut_mem_free(mem, {"stabs"})))
              /\ UNCHANGED <<i, base, fn, symtab>>
           \/ /\ s.type = "FUN"
              /\ base' = s.value
              /\ i' = i + 1
              /\ UNCHANGED <<pc, mem, fn, symtab>>
           \/ /\ s.type = "SO"
              /\ fn' = SourceName(s)
              /\ i' = i + 1
              /\ UNCHANGED <<pc, mem, base, symtab>>
           \/ /\ s.type \notin {"LINE", "FUN", "SO"}
              /\ i' = i + 1
              /\ UNCHANGED <<pc, mem, base, fn, symtab>>
    /\ UNCHANGED <<file, readerVars, f, full, replyVars>>

mut_exec_debug_info_extracted ==
    /\ pc = "stabs" /\ i > 0 /\ i > Len(Header("stab").stabs)
    /\ mem' = mut_mem_free(mem, {"stabs"})
    /\ pc' = "fclose" /\ i' = 0
    /\ UNCHANGED <<file, readerVars, f, base, fn, execVars, replyVars>>

-----------------------------------------------------------------------------
(* the end of mut_exec_open, and the calls of an open executable *)

\* A close that fails is only warned about.
mut_exec_open ==
    /\ pc = "fclose"
    /\ mem' = mut_mem_free([mem EXCEPT !["stabstr"] = IF Found("stab") THEN @ ELSE "null"],
                           {"source", "shstrings"})
    /\ pc' = "opened"
    /\ UNCHANGED <<file, readerVars, loopVars, execVars, replyVars>>

\* What is read from exec->has_full_symbols: anything before it is assigned.
HasFullSymbols == IF full = "set" THEN {TRUE} ELSE BOOLEAN

\* mut_open clears the flag when there are no symbols; requested: the option -b.
mut_exec_has_backtrace_symbols ==
    /\ pc = "opened"
    /\ pc' = "backtrace"
    /\ \E requested \in BOOLEAN : \E answer \in HasFullSymbols :
          backtrace' = (requested /\ answer)
    /\ UNCHANGED <<file, mem, readerVars, loopVars, execVars, addrs, reply>>

mut_exec_functions_addr ==
    /\ pc = "backtrace"
    /\ pc' = "managed"
    /\ addrs' = [g \in Functions |-> mut_exec_symtab_lookup_name(symtab, g)]
    /\ UNCHANGED <<file, mem, readerVars, loopVars, execVars, backtrace, reply>>

\* Asked only for the frames of a backtrace.
mut_exec_addr_name(a) ==
    /\ pc = "managed" /\ backtrace
    /\ \E known \in HasFullSymbols :
          reply' = [asked |-> a, answer |-> IF known THEN mut_exec_symtab_lookup_addr(symtab, a)
                                            ELSE NoFunction]
    /\ UNCHANGED <<file, pc, mem, readerVars, loopVars, execVars, addrs, backtrace>>

\* "opened": mut_process_open failed.
mut_exec_close ==
    /\ pc \in {"opened", "managed"}
    /\ mem' = mut_mem_free(mem, {"stabstr", "strtab", "dynstr", "table"})
    /\ pc' = "closed"
    /\ UNCHANGED <<file, readerVars, loopVars, execVars, replyVars>>

-----------------------------------------------------------------------------
Next ==
    \/ mut_exec_fopen
    \/ mut_exec_check
    \/ mut_exec_shstrtab_open
    \/ mut_exec_locate_start
    \/ mut_exec_locate_sections
    \/ mut_exec_sections_located
    \/ \E T \in {"symtab", "dynsym"} :
          \/ mut_exec_strtab_open(T)
          \/ mut_exec_read_symbols(T)
          \/ mut_exec_extract_symbol(T)
          \/ mut_exec_symbols_extracted(T)
    \/ mut_exec_stabstr_open
    \/ mut_exec_extract_stabs
    \/ mut_exec_extract_debug_info
    \/ mut_exec_debug_info_extracted
    \/ mut_exec_open
    \/ mut_exec_has_backtrace_symbols
    \/ mut_exec_functions_addr
    \/ \E a \in Addrs : mut_exec_addr_name(a)
    \/ mut_exec_close

Spec == Init /\ [][Next]_vars

-----------------------------------------------------------------------------
(* The executable, read off the file instead of step by step. *)

\* The sections the loop can read: all but the last.
Where(k) == {j \in 1..Len(file.sections) - 1 : file.sections[j].kind = k}
Section(k) == file.sections[Min(Where(k))]

\* Symbol <<1, j>> is the j-th of .symtab and <<2, j>> the j-th of .dynsym.
Table == <<"symtab", "dynsym">>
Symbols == UNION {{t} \X (1..Len(Section(Table[t]).syms)) : t \in {t \in 1..2 : Where(Table[t]) # {}}}
Symbol(p) == Section(Table[p[1]]).syms[p[2]]
Earlier(p, q) == p[1] < q[1] \/ (p[1] = q[1] /\ p[2] <= q[2])

\* Which function of its table p is, counted from 1.
Ordinal(p) == Cardinality({q \in Symbols : q[1] = p[1] /\ Earlier(q, p) /\ Symbol(q).func})
AddrOf(p) ==
    IF Symbol(p).value = 0 /\ p[1] = 2 /\ Where("plt") # {}
    THEN Section("plt").addr + Ordinal(p) * Section("plt").align
    ELSE Symbol(p).value
Funs == {p \in Symbols : Symbol(p).func /\ AddrOf(p) # 0}
Starts == {AddrOf(p) : p \in Funs}
First(P) == CHOOSE p \in P : \A q \in P : Earlier(p, q)
NameOf(a) == Cut(Symbol(First({p \in Funs : AddrOf(p) = a})).name)

\* The lines of the stabs, the address of each and the file it is in.
Stabs == IF Where("stab") = {} THEN <<>> ELSE Section("stab").stabs
StabsBefore(j, type) == {k \in 1..j - 1 : Stabs[k].type = type}
BaseOf(j) == IF StabsBefore(j, "FUN") = {} THEN 0 ELSE Stabs[Max(StabsBefore(j, "FUN"))].value
LineAddr(j) == BaseOf(j) + Stabs[j].value
FileOf(j) ==
    LET K == {k \in StabsBefore(j, "SO") :
                /\ Stabs[k].str \in DOMAIN file.stabstr
                /\ ~file.stabstr[Stabs[k].str]}
    IN  IF Cardinality(K) % 2 = 0 THEN NullName ELSE Stabs[Max(K)].str
LinesOf(start) ==
    {j \in 1..Len(Stabs) :
       /\ Stabs[j].type = "LINE" /\ BaseOf(j) # 0
       /\ start <= LineAddr(j)
       /\ \A a \in Starts : a <= start \/ LineAddr(j) < a}

-----------------------------------------------------------------------------
(* properties *)

\* Every variable has the type of what it models; the file name is a string of
\* .stabstr.
TypeOK ==
    /\ pc \in {"fopen", "header", "shstrtab", "locate", "sections", "strtab", "symtab",
               "dynstr", "dynsym", "stabstr", "stabs", "fclose", "opened", "backtrace",
               "managed", "failed", "closed", "overrun", "abort"}
    /\ mem \in [Buffers -> Pointers]
    /\ slots \in [0..SectionsMax - 1 -> Nat]
    /\ free \in 0..SectionsMax
    /\ found \in [Kinds -> {NoSlot} \cup 0..SectionsMax - 1]
    /\ n \in Nat \ {0} /\ i \in Nat /\ f \in Nat \ {0}
    /\ fn \in {NullName} \cup DOMAIN file.stabstr
    /\ full \in {"unset", "set"} /\ backtrace \in BOOLEAN

\* On no path through mut_exec_open's labels and mut_exec_close is a pointer
\* passed to free (or the file to fclose) that was never assigned or was
\* already released; for the nodes of the table see TableFreedOnce.
FreedOnce == \A b \in Buffers \ {"table"} : mem[b] \notin {"twice", "wild"}

\* When mut_exec_open fails at any of its calls, and after mut_exec_close,
\* nothing it allocated is left; while the executable is open only its strings
\* and its table are.
NothingKept ==
    /\ pc \in {"failed", "closed"} => \A b \in Buffers : mem[b] # "live"
    /\ pc \in {"opened", "backtrace", "managed"} =>
          \A b \in Buffers : mem[b] = "live" => b \in {"strtab", "dynstr", "stabstr", "table"}

\* .protect: each of the four section pointers is to a slot that still holds
\* the first section of its kind among the headers read, or is 0 when there was
\* none.
FirstOfEach ==
    \A k \in Kinds :
        LET R == {j \in 1..n - 1 : file.sections[j].kind = k}
        IN  IF R = {} THEN found[k] = NoSlot
            ELSE found[k] # NoSlot /\ slots[found[k]] = Min(R)

\* mut_exec_addr_name answers with the function that starts closest before the
\* address, by the name .symtab has for it rather than .dynsym's, and the first
\* of several; it finds none only when no function starts before the address.
AddrNamed ==
    LET S == {s \in Starts : s <= reply.asked}
    IN  reply.asked # 0 =>
          IF reply.answer.found
          THEN S # {} /\ reply.answer.start = Max(S) /\ reply.answer.name = NameOf(Max(S))
          ELSE S = {} \/ full = "unset"

\* mut_exec_functions_addr gives every name the lowest address whose first name
\* it is, version suffix aside and .plt entries counted, and 0 to other names.
FunctionsFound ==
    pc = "managed" =>
      \A g \in Functions :
        LET S == {a \in Starts : NameOf(a) = g}
        IN  addrs[g] = IF S = {} THEN 0 ELSE Min(S)

\* The line of an answer is that of the next .stab line of the same function,
\* the first entry of several at its address, 0 when there is none; the file is
\* the one open at the function's last entry, and not set when it has no entry.
LinesAttributed ==
    reply.answer.found =>
      LET L == LinesOf(reply.answer.start)
          N == {j \in L : LineAddr(j) >= reply.asked}
          next == CHOOSE j \in N : \A k \in N : LineAddr(j) < LineAddr(k)
                                                 \/ (LineAddr(j) = LineAddr(k) /\ j <= k)
      IN  /\ reply.answer.line = IF N = {} THEN 0 ELSE Stabs[next].line
          /\ reply.answer.file = IF L = {} THEN UnsetName ELSE FileOf(Max(L))

-----------------------------------------------------------------------------
(* what the documentation, comments and assertions say and the code does not do *)

\* doc/mut.1: "a backtrace cannot not be generated, even if it is requested,
\* for stripped files".
BacktraceNeedsSymbols == backtrace => Where("symtab") # {}

\* mem/debug/mut_mem.c halts when memory is freed again.
TableFreedOnce == mem["table"] # "twice"

\* mut_exec.c: mut_exec_reader_sections_max is "the maximum number of sections"
\* whose details are cached; the code writes to no slot past it.
SlotsSuffice == pc # "overrun"

\* mut_exec.txt: mut_exec_addr_name "looks for a function whose range covers
\* addr" and returns 0 if there is none.
AddrCovered ==
    reply.answer.found =>
      \E p \in Funs : AddrOf(p) = reply.answer.start
                        /\ reply.asked < AddrOf(p) + Symbol(p).size

\* mut_exec.txt: mut_exec_functions_addr fills "the addr field of each element
\* of functions for which there is a function with the corresponding name".
AliasesFound ==
    pc = "managed" =>
      \A g \in Functions : (\E p \in Funs : Cut(Symbol(p).name) = g) => addrs[g] # 0

\* mut_backtrace.c expects 0 for a file that is not known.
FileNameAssigned == reply.answer.found => reply.answer.file # UnsetName
=============================================================================
