---------------------------- MODULE MutExecProofs ----------------------------
(***************************************************************************)
(* The ELF reader, for every executable and whichever calls fail.          *)
(*                                                                         *)
(* Memory: everything is released once.  Ledger says, for every point of   *)
(* mut_exec_open, which pointers are assigned, live and released there;    *)
(* the labels at its end are right because each is reached only from       *)
(* points where the ledger lists just what the label releases.             *)
(*                                                                         *)
(* Answers: they are those of the file.  Located says what the section     *)
(* pointers point to, Tabled that the table has the functions read so far, *)
(* sorted, each by the first of its names (Contents), Counted that f       *)
(* counts the functions of a table, which is what places them in .plt,     *)
(* Looping that base and fn are those of the stabs read so far, and Lined  *)
(* that every function of the table has the lines of those stabs, sorted.  *)
(***************************************************************************)
EXTENDS MutExec, MutSums, SequenceTheorems, TLAPS

Maybe == {"null", "live"}       \* assigned, and not released
Spent == {"unset", "freed"}     \* a temporary that is not in use
Over == {"unset", "null", "freed"}

\* The file and the strings of the headers are open.
Reading == mem["source"] = "live" /\ mem["shstrings"] = "live"

\* What mut_exec_close is to release, but for the stab strings.
Tables == mem["strtab"] \in Maybe /\ mem["dynstr"] \in Maybe /\ mem["table"] \in Maybe

\* At the end nothing is live and nothing was released twice, unless a node of
\* the table could not be allocated.
Ended(m) ==
    /\ \A b \in Buffers \ {"table"} : m[b] \in Over
    /\ m["table"] \in Over \cup (IF "fun_node" \in Faults THEN {"twice"} ELSE {})

\* The state of every pointer before each call of mut_exec_open and after it.
Ledger ==
    /\ mem \in [Buffers -> Pointers]
    /\ pc = "fopen" => \A b \in Buffers : mem[b] = "unset"
    /\ pc \in {"header", "shstrtab"} =>
          mem["source"] = "live" /\ \A b \in Buffers \ {"source"} : mem[b] = "unset"
    /\ pc \in {"locate", "sections", "overrun"} =>
          Reading /\ \A b \in Buffers \ {"source", "shstrings"} : mem[b] = "unset"
    /\ pc \in {"strtab", "symtab", "dynstr", "dynsym", "stabstr"} =>
          Reading /\ Tables /\ mem["stabstr"] = "unset" /\ mem["stabs"] = "unset"
    /\ pc \in {"strtab", "symtab", "dynstr"} => mem["dynstr"] = "null"
    /\ pc = "strtab" => mem["strtab"] = "null"
    /\ pc \in {"strtab", "dynstr", "stabstr"} => i = 0 /\ mem["symbols"] \in Spent
    /\ pc \in {"symtab", "dynsym"} =>
          IF i = 0 THEN mem["symbols"] \in Spent ELSE mem["symbols"] = "live"
    /\ pc = "stabs" =>
          /\ Reading /\ Tables /\ mem["stabstr"] = "live" /\ mem["symbols"] \in Spent
          /\ IF i = 0 THEN mem["stabs"] = "unset" ELSE mem["stabs"] = "live"
    /\ pc = "fclose" =>
          /\ Reading /\ Tables /\ mem["symbols"] \in Spent /\ mem["stabs"] \in Spent
          /\ mem["stabstr"] = IF Found("stab") THEN "live" ELSE "unset"
    /\ pc \in {"opened", "backtrace", "managed"} =>
          /\ Tables /\ mem["stabstr"] \in Maybe
          /\ mem["source"] = "freed" /\ mem["shstrings"] = "freed"
          /\ mem["symbols"] \in Spent /\ mem["stabs"] \in Spent
    /\ pc \in {"failed", "closed"} => Ended(mem)
    /\ pc = "abort" => \A b \in Buffers : mem[b] \notin {"twice", "wild"}

\* Where mut_exec_open stands; only its loops have an index, and it reads the
\* stabs only when there are some.
Control ==
    /\ pc \in {"fopen", "header", "shstrtab", "locate", "sections", "strtab", "symtab",
               "dynstr", "dynsym", "stabstr", "stabs", "fclose", "opened", "backtrace",
               "managed", "failed", "closed", "overrun", "abort"}
    /\ i \in Nat
    /\ pc \notin {"symtab", "dynsym", "stabs", "failed", "abort"} => i = 0
    /\ pc \in {"stabstr", "stabs"} => Found("stab")

IInv == Ledger /\ Control

-----------------------------------------------------------------------------
(* memory *)

\* Freeing the pointers of B changes those and no other.
LEMMA FreeAt ==
    ASSUME NEW m \in [Buffers -> Pointers], NEW B
    PROVE  /\ mut_mem_free(m, B) \in [Buffers -> Pointers]
           /\ \A b \in Buffers :
                 mut_mem_free(m, B)[b] = IF b \in B THEN Freed(m[b]) ELSE m[b]
<1>1. \A b \in Buffers : Freed(m[b]) \in Pointers
  BY DEF Freed, Pointers
<1> QED
  BY <1>1 DEF mut_mem_free

\* Releasing all that is live, once, ends with nothing live and nothing freed
\* twice; so does releasing the table again, but for the table.
LEMMA Release ==
    ASSUME NEW m \in [Buffers -> Pointers], NEW B,
           \A b \in Buffers \ {"table"} : m[b] \in IF b \in B THEN Maybe ELSE Over,
           \/ m["table"] \in IF "table" \in B THEN Maybe ELSE Over
           \/ "fun_node" \in Faults /\ m["table"] \in Over /\ m["table"] # "unset"
    PROVE  /\ mut_mem_free(m, B) \in [Buffers -> Pointers]
           /\ Ended(mut_mem_free(m, B))
<1>1. \A b \in Buffers \ {"table"} : mut_mem_free(m, B)[b] \in Over
  BY FreeAt DEF Freed, Maybe, Over
<1>2. mut_mem_free(m, B) \in [Buffers -> Pointers]
  BY FreeAt
<1>3. mut_mem_free(m, B)["table"] = IF "table" \in B THEN Freed(m["table"]) ELSE m["table"]
  BY FreeAt DEF Buffers
<1>4. mut_mem_free(m, B)["table"] \in Over \cup (IF "fun_node" \in Faults THEN {"twice"} ELSE {})
  BY <1>3 DEF Freed, Maybe, Over
<1> QED
  BY <1>1, <1>2, <1>4 DEF Ended

\* Freeing one set after another that has no element of it frees their union.
LEMMA FreeTwoSets ==
    ASSUME NEW m \in [Buffers -> Pointers], NEW B, NEW C, B \cap C = {}
    PROVE  mut_mem_free(mut_mem_free(m, B), C) = mut_mem_free(m, B \cup C)
<1>1. \A b \in Buffers : /\ mut_mem_free(m, B)[b] = IF b \in B THEN Freed(m[b]) ELSE m[b]
                         /\ ~(b \in B /\ b \in C)
  BY FreeAt
<1> QED
  BY <1>1 DEF mut_mem_free

Set1 == {"source"}
Set2 == Set1 \cup {"shstrings"}
Set3 == Set2 \cup {"table"}
Set4 == Set3 \cup {"strtab"}
Set5 == Set4 \cup {"dynstr"}
Set6 == Set5 \cup {"stabstr"}

\* What each label of mut_exec_open releases, the ones it falls into included.
LEMMA Labels ==
    ASSUME NEW m \in [Buffers -> Pointers]
    PROVE  /\ could_not_read_header(m) = mut_mem_free(m, Set1)
           /\ could_not_locate_sections(m) = mut_mem_free(m, Set2)
           /\ could_not_open_strtab(m) = mut_mem_free(m, Set3)
           /\ could_not_open_dynstr(m) = mut_mem_free(m, Set4)
           /\ could_not_open_dynsym(m) = mut_mem_free(m, Set5)
           /\ could_not_extract_debug_info(m) = mut_mem_free(m, Set6)
<1>1. \A w \in [Buffers -> Pointers] : could_not_read_header(w) = mut_mem_free(w, Set1)
  BY DEF could_not_read_header, Set1
<1>2. \A w \in [Buffers -> Pointers] : could_not_locate_sections(w) = mut_mem_free(w, Set2)
  <2> SUFFICES ASSUME NEW w \in [Buffers -> Pointers]
               PROVE  could_not_locate_sections(w) = mut_mem_free(w, Set2)
    OBVIOUS
  <2>1. {"shstrings"} \cap Set1 = {} /\ {"shstrings"} \cup Set1 = Set2
    BY DEF Set1, Set2
  <2> QED
    BY <1>1, <2>1, FreeAt, FreeTwoSets DEF could_not_locate_sections
<1>3. \A w \in [Buffers -> Pointers] : could_not_open_strtab(w) = mut_mem_free(w, Set3)
  <2> SUFFICES ASSUME NEW w \in [Buffers -> Pointers]
               PROVE  could_not_open_strtab(w) = mut_mem_free(w, Set3)
    OBVIOUS
  <2>1. {"table"} \cap Set2 = {} /\ {"table"} \cup Set2 = Set3
    BY DEF Set1, Set2, Set3
  <2> QED
    BY <1>2, <2>1, FreeAt, FreeTwoSets DEF could_not_open_strtab, mut_exec_symtab_close
<1>4. \A w \in [Buffers -> Pointers] : could_not_open_dynstr(w) = mut_mem_free(w, Set4)
  <2> SUFFICES ASSUME NEW w \in [Buffers -> Pointers]
               PROVE  could_not_open_dynstr(w) = mut_mem_free(w, Set4)
    OBVIOUS
  <2>1. {"strtab"} \cap Set3 = {} /\ {"strtab"} \cup Set3 = Set4
    BY DEF Set1, Set2, Set3, Set4
  <2> QED
    BY <1>3, <2>1, FreeAt, FreeTwoSets DEF could_not_open_dynstr
<1>5. \A w \in [Buffers -> Pointers] : could_not_open_dynsym(w) = mut_mem_free(w, Set5)
  <2> SUFFICES ASSUME NEW w \in [Buffers -> Pointers]
               PROVE  could_not_open_dynsym(w) = mut_mem_free(w, Set5)
    OBVIOUS
  <2>1. {"dynstr"} \cap Set4 = {} /\ {"dynstr"} \cup Set4 = Set5
    BY DEF Set1, Set2, Set3, Set4, Set5
  <2> QED
    BY <1>4, <2>1, FreeAt, FreeTwoSets DEF could_not_open_dynsym
<1>6. could_not_extract_debug_info(m) = mut_mem_free(m, Set6)
  <2>1. {"stabstr"} \cap Set5 = {} /\ {"stabstr"} \cup Set5 = Set6
    BY DEF Set1, Set2, Set3, Set4, Set5, Set6
  <2> QED
    BY <1>5, <2>1, FreeAt, FreeTwoSets DEF could_not_extract_debug_info
<1> QED
  BY <1>1, <1>2, <1>3, <1>4, <1>5, <1>6

\* A function that could not fill b leaves b released or as it was, and the
\* rest alone.
LEMMA NotLoadedAt ==
    ASSUME NEW m \in [Buffers -> Pointers], NEW b \in Buffers, NEW w \in NotLoaded(m, b)
    PROVE  /\ w \in [Buffers -> Pointers]
           /\ w[b] \in {m[b], "null", "freed"}
           /\ \A c \in Buffers \ {b} : w[c] = m[c]
<1>1. w = m \/ w = [m EXCEPT ![b] = "null"] \/ w = mut_mem_free(Loaded(m, b), {b})
  BY DEF NotLoaded
<1>2. CASE w = m
  BY <1>2
<1>3. CASE w = [m EXCEPT ![b] = "null"]
  BY <1>3 DEF Pointers
<1>4. CASE w = mut_mem_free(Loaded(m, b), {b})
  <2>1. Loaded(m, b) \in [Buffers -> Pointers]
    BY DEF Loaded, Pointers
  <2>2. /\ w \in [Buffers -> Pointers]
        /\ w[b] = Freed("live")
        /\ \A c \in Buffers \ {b} : w[c] = m[c]
    BY <1>4, <2>1, FreeAt DEF Loaded
  <2> QED
    BY <2>2 DEF Freed
<1> QED
  BY <1>1, <1>2, <1>3, <1>4

-----------------------------------------------------------------------------
(* the ledger is kept *)

\* Nothing is allocated when mut_exec_open begins.
LEMMA InitLedger == Init => IInv
  BY DEF Init, IInv, Ledger, Control, Buffers, Pointers

\* Every call of mut_exec_open, and every call of an open executable, keeps the
\* ledger.
LEMMA StepLedger == IInv /\ [Next]_vars => IInv'
<1> SUFFICES ASSUME IInv, [Next]_vars PROVE IInv'
  OBVIOUS
<1> USE DEF IInv
<1>m. mem \in [Buffers -> Pointers]
  BY DEF Ledger
<1>1. CASE mut_exec_fopen
  BY <1>1, <1>m DEF mut_exec_fopen, Ledger, Control, Buffers, Pointers, Ended, Over, Reading,
       loopVars
<1>2. CASE mut_exec_check
  <2>1. CASE pc' = "shstrtab" /\ UNCHANGED mem
    BY <1>2, <2>1 DEF mut_exec_check, Ledger, Control, Reading, loopVars
  <2>2. CASE Fails(could_not_read_header(mem))
    <3>1. mem' \in [Buffers -> Pointers] /\ Ended(mem')
      BY <1>2, <1>m, <2>2, Labels, Release
         DEF mut_exec_check, Fails, Ledger, Maybe, Over, Set1, Buffers
    <3> QED
      BY <1>2, <2>2, <3>1 DEF mut_exec_check, Fails, Ledger, Control, loopVars
  <2> QED
    BY <1>2, <2>1, <2>2 DEF mut_exec_check
<1>3. CASE mut_exec_shstrtab_open
  <2>1. CASE pc' = "locate" /\ mem' = Loaded(mem, "shstrings")
    BY <1>3, <1>m, <2>1 DEF mut_exec_shstrtab_open, Loaded, Ledger, Control, Reading, Buffers,
         Pointers, loopVars
  <2>2. ASSUME NEW m \in NotLoaded(mem, "shstrings"), Fails(could_not_read_header(m))
        PROVE  IInv'
    <3>1. /\ m \in [Buffers -> Pointers]
          /\ m["shstrings"] \in Over
          /\ \A c \in Buffers \ {"shstrings"} : m[c] = mem[c]
      BY <1>3, <1>m, NotLoadedAt DEF mut_exec_shstrtab_open, Ledger, Over, Buffers
    <3>2. mem' \in [Buffers -> Pointers] /\ Ended(mem')
      BY <1>3, <2>2, <3>1, Labels, Release
         DEF mut_exec_shstrtab_open, Fails, Ledger, Maybe, Over, Set1, Buffers
    <3> QED
      BY <1>3, <2>2, <3>2 DEF mut_exec_shstrtab_open, Fails, Ledger, Control, loopVars
  <2> QED
    BY <1>3, <2>1, <2>2 DEF mut_exec_shstrtab_open
<1>4. CASE mut_exec_locate_start
  <2>1. CASE pc' = "sections" /\ UNCHANGED mem
    BY <1>4, <2>1 DEF mut_exec_locate_start, Ledger, Control, Reading, loopVars
  <2>2. CASE Fails(could_not_locate_sections(mem))
    <3>1. mem' \in [Buffers -> Pointers] /\ Ended(mem')
      BY <1>4, <1>m, <2>2, Labels, Release
         DEF mut_exec_locate_start, Fails, Ledger, Reading, Maybe, Over, Set1, Set2, Buffers
    <3> QED
      BY <1>4, <2>2, <3>1 DEF mut_exec_locate_start, Fails, Ledger, Control, loopVars
  <2> QED
    BY <1>4, <2>1, <2>2 DEF mut_exec_locate_start
<1>5. CASE mut_exec_locate_sections
  <2>1. CASE pc' \in {"sections", "overrun", "abort"} /\ UNCHANGED mem
    BY <1>5, <2>1 DEF mut_exec_locate_sections, NameOutOfRange, Ledger, Control, Reading, loopVars
  <2>2. CASE Fails(could_not_locate_sections(mem))
    <3>1. mem' \in [Buffers -> Pointers] /\ Ended(mem')
      BY <1>5, <1>m, <2>2, Labels, Release
         DEF mut_exec_locate_sections, Fails, Ledger, Reading, Maybe, Over, Set1, Set2, Buffers
    <3> QED
      BY <1>5, <2>2, <3>1 DEF mut_exec_locate_sections, Fails, Ledger, Control, loopVars
  <2> QED
    BY <1>5, <2>1, <2>2 DEF mut_exec_locate_sections, NameOutOfRange
<1>6. CASE mut_exec_sections_located
  <2>1. CASE /\ pc' \in {"strtab", "dynstr"}
             /\ mem' = [mem EXCEPT !["table"] = "null", !["strtab"] = "null", !["dynstr"] = "null"]
    BY <1>6, <1>m, <2>1 DEF mut_exec_sections_located, Ledger, Control, Reading, Tables, Maybe,
         Spent, Buffers, Pointers, loopVars
  <2>2. CASE Fails(could_not_locate_sections(mem))
    <3>1. mem' \in [Buffers -> Pointers] /\ Ended(mem')
      BY <1>6, <1>m, <2>2, Labels, Release
         DEF mut_exec_sections_located, Fails, Ledger, Reading, Maybe, Over, Set1, Set2, Buffers
    <3> QED
      BY <1>6, <2>2, <3>1 DEF mut_exec_sections_located, Fails, Ledger, Control, loopVars
  <2> QED
    BY <1>6, <2>1, <2>2 DEF mut_exec_sections_located
<1>7. ASSUME NEW T \in {"symtab", "dynsym"}, mut_exec_strtab_open(T)
      PROVE  IInv'
  <2>1. CASE pc' = T /\ mem' = Loaded(mem, Strings[T])
    BY <1>7, <1>m, <2>1 DEF mut_exec_strtab_open, Loaded, Strings, Ledger, Control, Reading,
         Tables, Maybe, Spent, Buffers, Pointers, loopVars
  <2>2. ASSUME NEW m \in NotLoaded(mem, Strings[T]), Fails(StringsLabel(T, m))
        PROVE  IInv'
    <3>1. /\ m \in [Buffers -> Pointers]
          /\ m[Strings[T]] \in {mem[Strings[T]], "null", "freed"}
          /\ \A c \in Buffers \ {Strings[T]} : m[c] = mem[c]
      BY <1>7, <1>m, NotLoadedAt DEF Strings, Buffers
    <3>2. mem' \in [Buffers -> Pointers] /\ Ended(mem')
      <4>1. CASE T = "symtab"
        BY <1>7, <2>2, <3>1, <4>1, Labels, Release
           DEF mut_exec_strtab_open, StringsLabel, Strings, Fails, Ledger, Reading, Tables, Maybe,
               Over, Spent, Buffers, Set1, Set2, Set3
      <4>2. CASE T = "dynsym"
        BY <1>7, <2>2, <3>1, <4>2, Labels, Release
           DEF mut_exec_strtab_open, StringsLabel, Strings, Fails, Ledger, Reading, Tables, Maybe,
               Over, Spent, Buffers, Set1, Set2, Set3, Set4
      <4> QED
        BY <4>1, <4>2
    <3> QED
      BY <1>7, <2>2, <3>2 DEF mut_exec_strtab_open, Fails, Ledger, Control, loopVars
  <2> QED
    BY <1>7, <2>1, <2>2 DEF mut_exec_strtab_open
<1>8. ASSUME NEW T \in {"symtab", "dynsym"}, mut_exec_read_symbols(T)
      PROVE  IInv'
  <2>1. CASE i' = 1 /\ mem' = Loaded(mem, "symbols") /\ UNCHANGED pc
    BY <1>8, <1>m, <2>1 DEF mut_exec_read_symbols, Loaded, Ledger, Control, Reading, Tables,
         Maybe, Spent, Buffers, Pointers
  <2>2. ASSUME NEW m \in NotLoaded(mem, "symbols"), Fails(SymbolsLabel(T, m)), UNCHANGED i
        PROVE  IInv'
    <3>1. /\ m \in [Buffers -> Pointers]
          /\ m["symbols"] \in Over
          /\ \A c \in Buffers \ {"symbols"} : m[c] = mem[c]
      BY <1>8, <1>m, NotLoadedAt DEF mut_exec_read_symbols, Ledger, Spent, Over, Buffers
    <3>2. mem' \in [Buffers -> Pointers] /\ Ended(mem')
      <4>1. CASE T = "symtab"
        <5>1. m["dynstr"] \in Over
          BY <1>8, <3>1, <4>1 DEF mut_exec_read_symbols, Ledger, Over, Buffers
        <5> QED
          BY <1>8, <2>2, <3>1, <4>1, <5>1, Labels, Release
             DEF mut_exec_read_symbols, SymbolsLabel, Fails, Ledger, Reading, Tables, Maybe,
                 Over, Spent, Buffers, Set1, Set2, Set3, Set4
      <4>2. CASE T = "dynsym"
        BY <1>8, <2>2, <3>1, <4>2, Labels, Release
           DEF mut_exec_read_symbols, SymbolsLabel, Fails, Ledger, Reading, Tables, Maybe,
               Over, Spent, Buffers, Set1, Set2, Set3, Set4, Set5
      <4> QED
        BY <4>1, <4>2
    <3> QED
      BY <1>8, <2>2, <3>2 DEF mut_exec_read_symbols, Fails, Ledger, Control
  <2> QED
    BY <1>8, <2>1, <2>2 DEF mut_exec_read_symbols
<1>9. ASSUME NEW T \in {"symtab", "dynsym"}, mut_exec_extract_symbol(T)
      PROVE  IInv'
  <2>1. CASE i' = i + 1 /\ UNCHANGED pc /\ (mem' = mem \/ mem' = Loaded(mem, "table"))
    BY <1>9, <1>m, <2>1 DEF mut_exec_extract_symbol, Loaded, Ledger, Control, Reading, Tables,
         Maybe, Spent, Buffers, Pointers
  <2>2. CASE /\ "fun_node" \in Faults /\ UNCHANGED i
             /\ Fails(SymbolsLabel(T, mut_mem_free(mut_exec_symtab_close(mem), {"symbols"})))
    <3> DEFINE m == mut_mem_free(mut_exec_symtab_close(mem), {"symbols"})
    <3>0. m = mut_mem_free(mem, {"table"} \cup {"symbols"})
      <4>1. {"table"} \cap {"symbols"} = {}
        OBVIOUS
      <4> QED
        BY <1>m, <4>1, FreeTwoSets DEF mut_exec_symtab_close
    <3>1. /\ m \in [Buffers -> Pointers]
          /\ m["symbols"] \in Over
          /\ m["table"] \in Over /\ m["table"] # "unset"
          /\ \A c \in Buffers \ {"symbols", "table"} : m[c] = mem[c]
      BY <1>9, <1>m, <3>0, FreeAt
         DEF mut_exec_extract_symbol, Ledger, Tables, Maybe, Freed, Over, Buffers
    <3> HIDE DEF m
    <3>2. mem' \in [Buffers -> Pointers] /\ Ended(mem')
      <4>0. mem' = SymbolsLabel(T, m)
        BY <2>2 DEF Fails, m
      <4>1. CASE T = "symtab"
        <5>1. m["dynstr"] \in Over
          BY <1>9, <3>1, <4>1 DEF mut_exec_extract_symbol, Ledger, Over, Buffers
        <5> QED
          BY <1>9, <2>2, <3>1, <4>0, <4>1, <5>1, Labels, Release
             DEF mut_exec_extract_symbol, SymbolsLabel, Ledger, Reading, Tables, Maybe,
                 Over, Buffers, Set1, Set2, Set3, Set4
      <4>2. CASE T = "dynsym"
        BY <1>9, <2>2, <3>1, <4>0, <4>2, Labels, Release
           DEF mut_exec_extract_symbol, SymbolsLabel, Ledger, Reading, Tables, Maybe,
               Over, Buffers, Set1, Set2, Set3, Set4, Set5
      <4> QED
        BY <4>1, <4>2
    <3> QED
      BY <1>9, <2>2, <3>2 DEF mut_exec_extract_symbol, Fails, Ledger, Control
  <2>3. CASE pc' = "abort" /\ UNCHANGED <<mem, i>>
    BY <1>9, <2>3 DEF mut_exec_extract_symbol, Ledger, Control, Reading, Tables, Maybe, Spent, Buffers
  <2> QED
    BY <1>9, <2>1, <2>2, <2>3 DEF mut_exec_extract_symbol, NameOutOfRange
<1>10. ASSUME NEW T \in {"symtab", "dynsym"}, mut_exec_symbols_extracted(T)
       PROVE  IInv'
  <2>1. /\ mem' \in [Buffers -> Pointers]
        /\ mem'["symbols"] = "freed"
        /\ \A c \in Buffers \ {"symbols"} : mem'[c] = mem[c]
    BY <1>10, <1>m, FreeAt DEF mut_exec_symbols_extracted, Ledger, Freed, Buffers
  <2>2. /\ pc' \in {"dynstr", "stabstr", "fclose"}
        /\ pc' = "dynstr" => pc = "symtab"
        /\ pc' = "fclose" => ~Found("stab")
        /\ pc' = "stabstr" => Found("stab")
    BY <1>10 DEF mut_exec_symbols_extracted, AfterSymtab, AfterDynsym
  <2>3. i' = 0 /\ UNCHANGED found
    BY <1>10 DEF mut_exec_symbols_extracted, readerVars
  <2> QED
    BY <1>10, <2>1, <2>2, <2>3 DEF mut_exec_symbols_extracted, Ledger, Control, Reading, Tables,
       Maybe, Spent, Buffers, Found
<1>11. CASE mut_exec_stabstr_open
  <2>1. CASE pc' = "stabs" /\ mem' = Loaded(mem, "stabstr")
    BY <1>11, <1>m, <2>1 DEF mut_exec_stabstr_open, Found, readerVars, Loaded, Ledger, Control, Reading, Tables,
         Maybe, Spent, Buffers, Pointers, loopVars
  <2>2. ASSUME NEW m \in NotLoaded(mem, "stabstr"), Fails(could_not_open_dynsym(m))
        PROVE  IInv'
    <3>1. /\ m \in [Buffers -> Pointers]
          /\ m["stabstr"] \in Over
          /\ \A c \in Buffers \ {"stabstr"} : m[c] = mem[c]
      BY <1>11, <1>m, NotLoadedAt DEF mut_exec_stabstr_open, Ledger, Over, Buffers
    <3>2. mem' \in [Buffers -> Pointers] /\ Ended(mem')
      BY <1>11, <2>2, <3>1, Labels, Release
         DEF mut_exec_stabstr_open, Fails, Ledger, Reading, Tables, Maybe, Over, Spent, Buffers,
             Set1, Set2, Set3, Set4, Set5
    <3> QED
      BY <1>11, <2>2, <3>2 DEF mut_exec_stabstr_open, Fails, Ledger, Control, loopVars
  <2> QED
    BY <1>11, <2>1, <2>2 DEF mut_exec_stabstr_open
<1>12. CASE mut_exec_extract_stabs
  <2>1. CASE i' = 1 /\ mem' = Loaded(mem, "stabs") /\ UNCHANGED pc
    BY <1>12, <1>m, <2>1 DEF mut_exec_extract_stabs, Found, readerVars, Loaded, Ledger, Control, Reading, Tables,
         Maybe, Spent, Buffers, Pointers
  <2>2. ASSUME NEW m \in NotLoaded(mem, "stabs"), Fails(could_not_extract_debug_info(m)),
               UNCHANGED i
        PROVE  IInv'
    <3>1. /\ m \in [Buffers -> Pointers]
          /\ m["stabs"] \in Over
          /\ \A c \in Buffers \ {"stabs"} : m[c] = mem[c]
      BY <1>12, <1>m, NotLoadedAt DEF mut_exec_extract_stabs, Ledger, Over, Buffers
    <3>2. mem' \in [Buffers -> Pointers] /\ Ended(mem')
      BY <1>12, <2>2, <3>1, Labels, Release
         DEF mut_exec_extract_stabs, Fails, Ledger, Reading, Tables, Maybe, Over, Spent, Buffers,
             Set1, Set2, Set3, Set4, Set5, Set6
    <3> QED
      BY <1>12, <2>2, <3>2 DEF mut_exec_extract_stabs, Fails, Ledger, Control
  <2> QED
    BY <1>12, <2>1, <2>2 DEF mut_exec_extract_stabs
<1>13. CASE mut_exec_extract_debug_info
  <2>1. CASE i' = i + 1 /\ UNCHANGED <<pc, mem>>
    BY <1>13, <2>1 DEF mut_exec_extract_debug_info, Found, readerVars, Ledger, Control, Reading, Tables
  <2>2. CASE /\ Fails(could_not_extract_debug_info(mut_mem_free(mem, {"stabs"})))
             /\ UNCHANGED i
    <3> DEFINE m == mut_mem_free(mem, {"stabs"})
    <3>1. /\ m \in [Buffers -> Pointers]
          /\ m["stabs"] \in Over
          /\ \A c \in Buffers \ {"stabs"} : m[c] = mem[c]
      BY <1>13, <1>m, FreeAt DEF mut_exec_extract_debug_info, Ledger, Freed, Over, Buffers
    <3> HIDE DEF m
    <3>2. mem' \in [Buffers -> Pointers] /\ Ended(mem')
      <4>1. mem' = could_not_extract_debug_info(m)
        BY <2>2 DEF Fails, m
      <4> QED
        BY <1>13, <3>1, <4>1, Labels, Release
           DEF mut_exec_extract_debug_info, Ledger, Reading, Tables, Maybe, Over, Spent, Buffers,
               Set1, Set2, Set3, Set4, Set5, Set6
    <3> QED
      BY <1>13, <2>2, <3>2 DEF mut_exec_extract_debug_info, Fails, Ledger, Control
  <2> QED
    BY <1>13, <2>1, <2>2 DEF mut_exec_extract_debug_info
<1>14. CASE mut_exec_debug_info_extracted
  <2>1. /\ mem' \in [Buffers -> Pointers]
        /\ mem'["stabs"] = "freed"
        /\ \A c \in Buffers \ {"stabs"} : mem'[c] = mem[c]
    BY <1>14, <1>m, FreeAt DEF mut_exec_debug_info_extracted, Ledger, Freed, Buffers
  <2>2. pc' = "fclose" /\ i' = 0 /\ UNCHANGED found
    BY <1>14 DEF mut_exec_debug_info_extracted, readerVars
  <2> QED
    BY <1>14, <2>1, <2>2 DEF mut_exec_debug_info_extracted, Ledger, Control, Reading, Tables,
       Maybe, Spent, Buffers, Found
<1>15. CASE mut_exec_open
  <2> DEFINE m == [mem EXCEPT !["stabstr"] = IF Found("stab") THEN @ ELSE "null"]
  <2>1. m \in [Buffers -> Pointers]
    BY <1>m DEF Buffers, Pointers
  <2>2. m["stabstr"] \in Maybe /\ \A c \in Buffers \ {"stabstr"} : m[c] = mem[c]
    BY <1>15, <1>m DEF mut_exec_open, Ledger, Maybe, Buffers
  <2>3. mem' = mut_mem_free(m, {"source", "shstrings"})
    BY <1>15 DEF mut_exec_open
  <2> HIDE DEF m
  <2>4. /\ mem' \in [Buffers -> Pointers]
        /\ mem'["source"] = "freed" /\ mem'["shstrings"] = "freed"
        /\ mem'["stabstr"] \in Maybe
        /\ \A c \in Buffers \ {"source", "shstrings", "stabstr"} : mem'[c] = mem[c]
    <3>1. m["source"] = "live" /\ m["shstrings"] = "live"
      BY <1>15, <2>2 DEF mut_exec_open, Ledger, Reading, Buffers
    <3>2. /\ mem' \in [Buffers -> Pointers]
          /\ \A b \in Buffers :
                mem'[b] = IF b \in {"source", "shstrings"} THEN Freed(m[b]) ELSE m[b]
      BY <2>1, <2>3, FreeAt
    <3>3. mem'["stabstr"] = m["stabstr"]
      BY <3>2 DEF Buffers
    <3> QED
      BY <2>2, <3>1, <3>2, <3>3 DEF Freed, Buffers
  <2> QED
    BY <1>15, <2>4 DEF mut_exec_open, Ledger, Control, Tables, Buffers, loopVars
<1>16. CASE mut_exec_has_backtrace_symbols
  BY <1>16 DEF mut_exec_has_backtrace_symbols, Ledger, Control, Tables, loopVars
<1>17. CASE mut_exec_functions_addr
  BY <1>17 DEF mut_exec_functions_addr, Ledger, Control, Tables, loopVars
<1>18. ASSUME NEW a \in Addrs, mut_exec_addr_name(a)
       PROVE  IInv'
  BY <1>18 DEF mut_exec_addr_name, Ledger, Control, Tables, loopVars
<1>19. CASE mut_exec_close
  <2>1. mem' \in [Buffers -> Pointers] /\ Ended(mem')
    BY <1>19, <1>m, Release
       DEF mut_exec_close, Ledger, Tables, Maybe, Over, Spent, Buffers
  <2> QED
    BY <1>19, <2>1 DEF mut_exec_close, Ledger, Control, loopVars
<1>20. CASE UNCHANGED vars
  BY <1>20 DEF vars, readerVars, loopVars, Ledger, Control, Reading, Tables, Ended, Found
<1> QED
  BY <1>1, <1>2, <1>3, <1>4, <1>5, <1>6, <1>7, <1>8, <1>9, <1>10, <1>11, <1>12, <1>13, <1>14,
     <1>15, <1>16, <1>17, <1>18, <1>19, <1>20 DEF Next

\* The ledger holds at every point of mut_exec_open and after it.
THEOREM LedgerHolds == Spec => []IInv
<1> QED
  BY InitLedger, StepLedger, PTL DEF Spec

\* mut_exec_open and mut_exec_close free no pointer twice and none that was
\* never assigned, but for the table: on every path through the labels, for
\* every executable and whatever fails.
THEOREM FreedOnceHolds == Spec => []FreedOnce
<1>1. IInv => FreedOnce
  BY DEF IInv, Ledger, Control, Ended, Over, Reading, Tables, Maybe, Spent, Buffers, FreedOnce
<1> QED
  BY <1>1, LedgerHolds, PTL

\* A failed mut_exec_open and mut_exec_close leave nothing allocated, and an
\* open executable holds only its strings and its table.
THEOREM NothingKeptHolds == Spec => []NothingKept
<1>1. IInv => NothingKept
  BY DEF IInv, Ledger, Control, Ended, Over, Reading, Tables, Maybe, Spent, Buffers, NothingKept
<1> QED
  BY <1>1, LedgerHolds, PTL

\* The table too is released once when mut_exec_symtab_add_fun gets memory for
\* its nodes: its failure is the only cause of the second release.
THEOREM TableFreedOnceHolds ==
    ASSUME "fun_node" \notin Faults
    PROVE  Spec => []TableFreedOnce
<1>1. IInv => TableFreedOnce
  BY DEF IInv, Ledger, Control, Ended, Over, Reading, Tables, Maybe, Buffers, TableFreedOnce
<1> QED
  BY <1>1, LedgerHolds, PTL

-----------------------------------------------------------------------------
(* the sections *)

\* The least element of a set of numbers.
LEMMA MinIs ==
    ASSUME NEW S \in SUBSET Nat, NEW m \in S, \A k \in S : m <= k
    PROVE  Min(S) = m
<1>1. \E x \in S : \A y \in S : x <= y
  OBVIOUS
<1>2. Min(S) \in S /\ \A k \in S : Min(S) <= k
  BY <1>1, Zenon DEF Min
<1>3. PICK c : c = Min(S)
  OBVIOUS
<1>4. c \in Nat /\ m \in Nat /\ c <= m /\ m <= c
  BY <1>2, <1>3
<1> QED
  BY <1>3, <1>4

LEMMA MinExists ==
    ASSUME NEW S \in SUBSET Nat, S # {}
    PROVE  Min(S) \in S /\ \A k \in S : Min(S) <= k
<1>1. PICK m \in S : \A k \in S : m <= k
  BY Smallest
<1> QED
  BY <1>1, MinIs

LEMMA MaxIs ==
    ASSUME NEW S \in SUBSET Nat, NEW m \in S, \A k \in S : k <= m
    PROVE  Max(S) = m
<1>1. \E x \in S : \A y \in S : x >= y
  OBVIOUS
<1>2. Max(S) \in S /\ \A k \in S : Max(S) >= k
  BY <1>1, Zenon DEF Max
<1>3. PICK c : c = Max(S)
  OBVIOUS
<1>4. c \in Nat /\ m \in Nat /\ c <= m /\ m <= c
  BY <1>2, <1>3
<1> QED
  BY <1>3, <1>4

\* The headers that were read are those before n; each slot below free keeps
\* the header it was given.
Late == {"strtab", "symtab", "dynstr", "dynsym", "stabstr", "stabs", "fclose", "opened",
         "backtrace", "managed"}

Located ==
    /\ file \in Files
    /\ n \in Nat \ {0} /\ (n = 1 \/ n <= Len(file.sections))
    /\ slots \in [0..SectionsMax - 1 -> Nat] /\ free \in 0..SectionsMax
    /\ found \in [Kinds -> {NoSlot} \cup 0..SectionsMax - 1]
    /\ \A k \in Kinds : found[k] # NoSlot => found[k] < free
    /\ FirstOfEach
    /\ pc \in Late => n >= Len(file.sections)
    /\ pc \in {"strtab", "symtab"} => Found("symtab")
    /\ pc \in {"dynstr", "dynsym"} => Found("dynsym")

LEMMA FileIs ==
    ASSUME file \in Files
    PROVE  /\ Len(file.sections) \in Nat
           /\ \A j \in 1..Len(file.sections) : IsSection(file.sections[j])
BY FilesAssumption

\* What a step leaves alone.
LEMMA ReaderKept ==
    ASSUME [Next]_vars
    PROVE  /\ file' = file
           /\ mut_exec_locate_sections \/ UNCHANGED readerVars
           /\ pc' \in Late => pc \in Late \/ mut_exec_sections_located
<1>1. CASE mut_exec_sections_located
  BY <1>1 DEF mut_exec_sections_located
<1>2. CASE mut_exec_locate_sections
  BY <1>2 DEF mut_exec_locate_sections, NameOutOfRange, Fails, Late
<1>3. CASE \/ mut_exec_fopen \/ mut_exec_check \/ mut_exec_shstrtab_open
           \/ mut_exec_locate_start
  BY <1>3 DEF mut_exec_fopen, mut_exec_check, mut_exec_shstrtab_open, mut_exec_locate_start,
     Fails, Late
<1>4. CASE \E T \in {"symtab", "dynsym"} :
             \/ mut_exec_strtab_open(T) \/ mut_exec_read_symbols(T)
             \/ mut_exec_extract_symbol(T) \/ mut_exec_symbols_extracted(T)
  BY <1>4 DEF mut_exec_strtab_open, mut_exec_read_symbols, mut_exec_extract_symbol,
     mut_exec_symbols_extracted, Late, Strings
<1>5. CASE \/ mut_exec_stabstr_open \/ mut_exec_extract_stabs \/ mut_exec_extract_debug_info
           \/ mut_exec_debug_info_extracted \/ mut_exec_open
  BY <1>5 DEF mut_exec_stabstr_open, mut_exec_extract_stabs, mut_exec_extract_debug_info,
     mut_exec_debug_info_extracted, mut_exec_open, Late
<1>6. CASE \/ mut_exec_has_backtrace_symbols \/ mut_exec_functions_addr
           \/ (\E a \in Addrs : mut_exec_addr_name(a)) \/ mut_exec_close
  BY <1>6 DEF mut_exec_has_backtrace_symbols, mut_exec_functions_addr, mut_exec_addr_name,
     mut_exec_close, Late
<1>7. CASE UNCHANGED vars
  BY <1>7 DEF vars
<1> QED
  BY <1>1, <1>2, <1>3, <1>4, <1>5, <1>6, <1>7 DEF Next

\* A table is read only if it was found.
LEMMA TableFound ==
    ASSUME [Next]_vars, Located
    PROVE  /\ pc' \in {"strtab", "symtab"} => Found("symtab")
           /\ pc' \in {"dynstr", "dynsym"} => Found("dynsym")
<1>1. CASE mut_exec_sections_located
  BY <1>1 DEF mut_exec_sections_located, Fails
<1>2. CASE mut_exec_locate_sections
  BY <1>2 DEF mut_exec_locate_sections, NameOutOfRange, Fails
<1>3. CASE \/ mut_exec_fopen \/ mut_exec_check \/ mut_exec_shstrtab_open
           \/ mut_exec_locate_start
  BY <1>3 DEF mut_exec_fopen, mut_exec_check, mut_exec_shstrtab_open, mut_exec_locate_start,
     Fails
<1>4. CASE \E T \in {"symtab", "dynsym"} :
             \/ mut_exec_strtab_open(T) \/ mut_exec_read_symbols(T)
             \/ mut_exec_extract_symbol(T) \/ mut_exec_symbols_extracted(T)
  BY <1>4 DEF mut_exec_strtab_open, mut_exec_read_symbols, mut_exec_extract_symbol,
     mut_exec_symbols_extracted, Strings, Located, AfterSymtab, AfterDynsym, NameOutOfRange, Fails
<1>5. CASE \/ mut_exec_stabstr_open \/ mut_exec_extract_stabs \/ mut_exec_extract_debug_info
           \/ mut_exec_debug_info_extracted \/ mut_exec_open
  BY <1>5 DEF mut_exec_stabstr_open, mut_exec_extract_stabs, mut_exec_extract_debug_info,
     mut_exec_debug_info_extracted, mut_exec_open, Fails
<1>6. CASE \/ mut_exec_has_backtrace_symbols \/ mut_exec_functions_addr
           \/ (\E a \in Addrs : mut_exec_addr_name(a)) \/ mut_exec_close
  BY <1>6 DEF mut_exec_has_backtrace_symbols, mut_exec_functions_addr, mut_exec_addr_name,
     mut_exec_close
<1>7. CASE UNCHANGED vars
  BY <1>7 DEF vars, Located, readerVars
<1> QED
  BY <1>1, <1>2, <1>3, <1>4, <1>5, <1>6, <1>7 DEF Next

\* The headers before n of one kind.
Before(k) == {j \in 1..n - 1 : file.sections[j].kind = k}

LEMMA InitLocated == Init => Located
<1> SUFFICES ASSUME Init PROVE Located
  OBVIOUS
<1>1. SectionsMax \in Nat \ {0}
  BY ExecAssumption
<1>2. n = 1 /\ \A k \in Kinds : found[k] = NoSlot
  BY DEF Init
<1>3. FirstOfEach
  BY <1>2 DEF FirstOfEach
<1> QED
  BY <1>1, <1>2, <1>3 DEF Init, Located, Late

\* Header n goes to the free slot, which is kept if it is the first of a kind.
LEMMA LocateFirst ==
    ASSUME Located, mut_exec_locate_sections, n' = n + 1
    PROVE  Located'
<1>1. /\ free < SectionsMax /\ slots' = [slots EXCEPT ![free] = n]
      /\ mut_exec_locate_section(file.sections[n].kind)
      /\ pc = "sections" /\ pc' = "sections" /\ n < Len(file.sections) /\ file' = file
  BY DEF mut_exec_locate_sections, readerVars, Located
<1>2. Len(file.sections) \in Nat /\ SectionsMax \in Nat \ {0}
  BY FileIs, ExecAssumption DEF Located
<1> DEFINE kind == file.sections[n].kind
           New == kind \in Kinds /\ found[kind] = NoSlot
<1>3. /\ slots' \in [0..SectionsMax - 1 -> Nat] /\ slots'[free] = n
      /\ \A s \in 0..SectionsMax - 1 : s < free => slots'[s] = slots[s]
  BY <1>1, <1>2 DEF Located
<1>4. /\ found' = IF New THEN [found EXCEPT ![kind] = free] ELSE found
      /\ free' = IF New THEN free + 1 ELSE free
  BY <1>1 DEF mut_exec_locate_section
<1> HIDE DEF kind
<1>5. /\ found' \in [Kinds -> {NoSlot} \cup 0..SectionsMax - 1]
      /\ free' \in 0..SectionsMax /\ free <= free'
      /\ \A k \in Kinds : found'[k] = IF New /\ k = kind THEN free ELSE found[k]
      /\ New => free' = free + 1
  BY <1>1, <1>2, <1>4 DEF Located
<1>6. \A k \in Kinds : found'[k] # NoSlot => found'[k] < free'
  BY <1>2, <1>5 DEF Located, NoSlot
<1>7. n \in Nat \ {0}
  BY DEF Located
<1>8. \A k : Before(k)' = Before(k) \cup (IF k = kind THEN {n} ELSE {})
  BY <1>1, <1>7 DEF Before, kind
<1>9. ASSUME NEW k \in Kinds
      PROVE  IF Before(k)' = {} THEN found'[k] = NoSlot
             ELSE found'[k] # NoSlot /\ slots'[found'[k]] = Min(Before(k)')
  <2>1. IF Before(k) = {} THEN found[k] = NoSlot
        ELSE found[k] # NoSlot /\ slots[found[k]] = Min(Before(k))
    BY DEF Located, FirstOfEach, Before
  <2>2. Before(k) \in SUBSET Nat /\ \A j \in Before(k) : j < n
    BY <1>7 DEF Before
  <2>3. CASE Before(k) # {}
    <3>1. Min(Before(k)) \in Before(k) /\ \A j \in Before(k) : Min(Before(k)) <= j
      BY <2>2, <2>3, MinExists
    <3>2. Before(k)' \in SUBSET Nat /\ Min(Before(k)) \in Before(k)'
          /\ \A j \in Before(k)' : Min(Before(k)) <= j
      BY <1>7, <1>8, <2>2, <3>1
    <3>3. Min(Before(k)') = Min(Before(k))
      BY <3>2, MinIs
    <3>4. found'[k] = found[k] /\ found[k] \in 0..SectionsMax - 1 /\ found[k] < free
      BY <1>5, <2>1, <2>3 DEF Located
    <3>5. slots'[found'[k]] = slots[found[k]] /\ found'[k] # NoSlot
      BY <1>3, <3>4, <2>1, <2>3
    <3> QED
      BY <2>1, <2>3, <3>2, <3>3, <3>5
  <2>4. CASE Before(k) = {} /\ k = kind
    <3>1. Before(k)' = {n} /\ found[k] = NoSlot
      BY <1>8, <2>1, <2>4
    <3>2. found'[k] = free
      BY <1>5, <2>4, <3>1
    <3>3. Min({n}) = n
      BY <1>7, MinIs
    <3>4. free # NoSlot
      BY DEF Located, NoSlot
    <3> QED
      BY <1>3, <3>1, <3>2, <3>3, <3>4
  <2>5. CASE Before(k) = {} /\ k # kind
    BY <1>5, <1>8, <2>1, <2>5
  <2> QED
    BY <2>3, <2>4, <2>5
<1>10. FirstOfEach'
  BY <1>9 DEF FirstOfEach, Before
<1>11. n' \in Nat \ {0} /\ n' <= Len(file.sections)
  BY <1>1, <1>2, <1>7
<1> QED
  BY <1>1, <1>3, <1>5, <1>6, <1>10, <1>11 DEF Located, Late

LEMMA LocatedStep ==
    ASSUME Located, [Next]_vars
    PROVE  Located'
<1>1. /\ file' = file
      /\ mut_exec_locate_sections \/ UNCHANGED readerVars
      /\ pc' \in Late => pc \in Late \/ mut_exec_sections_located
  BY ReaderKept
<1>2. CASE mut_exec_locate_sections /\ n' = n + 1
  BY <1>2, LocateFirst
<1>3. CASE UNCHANGED readerVars
  <2>1. FirstOfEach'
    BY <1>1, <1>3 DEF Located, FirstOfEach, readerVars
  <2>2. pc' \in Late => n >= Len(file.sections)
    BY <1>1 DEF Located, mut_exec_sections_located
  <2> QED
    BY <1>1, <1>3, <2>1, <2>2, TableFound DEF Located, readerVars, Found
<1>4. mut_exec_locate_sections => n' = n + 1 \/ UNCHANGED readerVars
  BY DEF mut_exec_locate_sections
<1> QED
  BY <1>1, <1>2, <1>3, <1>4

\* mut_exec_locate_sections: each of the four section pointers is to a slot that
\* still holds the first section of its kind, whatever the file.
THEOREM FirstOfEachHolds == Spec => []FirstOfEach
<1>1. Located => FirstOfEach
  BY DEF Located
<1> QED
  BY <1>1, InitLocated, LocatedStep, PTL DEF Spec

\* The rest of the types.
Loops ==
    /\ f \in Nat \ {0} /\ fn \in {NullName} \cup DOMAIN file.stabstr
    /\ full \in {"unset", "set"} /\ backtrace \in BOOLEAN

LEMMA InitLoops == Init => Loops
<1>1. Init => f = 1 /\ fn = NullName /\ full = "unset"
  BY DEF Init
<1>2. Init => backtrace \in BOOLEAN
  BY Zenon DEF Init
<1> QED
  BY <1>1, <1>2 DEF Loops

LEMMA LoopsStep ==
    ASSUME Loops, [Next]_vars
    PROVE  Loops'
<1>1. CASE \E T \in {"symtab", "dynsym"} :
             \/ mut_exec_strtab_open(T) \/ mut_exec_read_symbols(T)
             \/ mut_exec_extract_symbol(T) \/ mut_exec_symbols_extracted(T)
  <2>1. f' \in {f, 1, f + 1} /\ UNCHANGED <<file, fn, backtrace>> /\ full' \in {full, "set"}
    BY <1>1 DEF mut_exec_strtab_open, mut_exec_read_symbols, mut_exec_extract_symbol,
       mut_exec_symbols_extracted, loopVars, execVars, replyVars
  <2> QED
    BY <2>1 DEF Loops
<1>2. CASE mut_exec_extract_debug_info
  <2>1. fn' = fn \/ \E s : fn' = SourceName(s)
    BY <1>2 DEF mut_exec_extract_debug_info
  <2>2. \A s : SourceName(s) \in {fn, NullName} \cup DOMAIN file.stabstr
    BY DEF SourceName, SourceFile
  <2>3. UNCHANGED <<file, f, full, backtrace>>
    BY <1>2 DEF mut_exec_extract_debug_info, replyVars
  <2> QED
    BY <2>1, <2>2, <2>3 DEF Loops
<1>3. CASE mut_exec_has_backtrace_symbols
  <2>1. backtrace' \in BOOLEAN /\ UNCHANGED <<file, f, fn, full>>
    BY <1>3 DEF mut_exec_has_backtrace_symbols, loopVars, execVars, HasFullSymbols
  <2> QED
    BY <2>1 DEF Loops
<1>4. CASE \/ mut_exec_fopen \/ mut_exec_check \/ mut_exec_shstrtab_open
           \/ mut_exec_locate_start \/ mut_exec_locate_sections \/ mut_exec_sections_located
  <2>1. UNCHANGED <<file, f, fn, full, backtrace>>
    BY <1>4 DEF mut_exec_fopen, mut_exec_check, mut_exec_shstrtab_open, mut_exec_locate_start,
       mut_exec_locate_sections, mut_exec_sections_located, loopVars, execVars, replyVars
  <2> QED
    BY <2>1 DEF Loops
<1>5. CASE \/ mut_exec_stabstr_open \/ mut_exec_extract_stabs
           \/ mut_exec_debug_info_extracted \/ mut_exec_open \/ mut_exec_functions_addr
           \/ (\E a \in Addrs : mut_exec_addr_name(a)) \/ mut_exec_close
  <2>1. UNCHANGED <<file, f, fn, full, backtrace>>
    BY <1>5 DEF mut_exec_stabstr_open, mut_exec_extract_stabs, mut_exec_debug_info_extracted,
       mut_exec_open, mut_exec_functions_addr, mut_exec_addr_name, mut_exec_close,
       loopVars, execVars, replyVars
  <2> QED
    BY <2>1 DEF Loops
<1>6. CASE UNCHANGED vars
  BY <1>6 DEF vars, loopVars, execVars, replyVars, Loops
<1> QED
  BY <1>1, <1>2, <1>3, <1>4, <1>5, <1>6 DEF Next

\* The variables keep the types of what they model; the file name that
\* mut_exec_extract_debug_info keeps is a string of .stabstr, for any index.
THEOREM TypeOKHolds == Spec => []TypeOK
<1>1. Init => Loops
  BY InitLoops
<1>2. IInv /\ Located /\ Loops => TypeOK
  BY DEF IInv, Ledger, Control, Located, Loops, TypeOK
<1> QED
  BY <1>1, <1>2, LedgerHolds, InitLocated, LocatedStep, LoopsStep, PTL DEF Spec

-----------------------------------------------------------------------------
(* the symbol table *)

\* When all headers are read, a section is found where there is one.
LEMMA SectionsRead ==
    ASSUME Located, n >= Len(file.sections), NEW k \in Kinds
    PROVE  /\ Found(k) <=> Where(k) # {}
           /\ Found(k) => Header(k) = Section(k) /\ IsSection(Section(k)) /\ Section(k).kind = k
<1>1. Len(file.sections) \in Nat /\ n >= Len(file.sections) /\ n \in Nat \ {0}
      /\ (n = 1 \/ n <= Len(file.sections))
  BY FileIs DEF Located
<1>2. Where(k) = Before(k)
  <2>1. CASE n = 1 /\ Len(file.sections) = 0
    <3>1. 1..n - 1 = {} /\ 1..Len(file.sections) - 1 = {}
      BY <2>1
    <3> QED
      BY <3>1 DEF Where, Before
  <2>2. CASE n = Len(file.sections)
    BY <2>2 DEF Where, Before
  <2> QED
    BY <1>1, <2>1, <2>2
<1>3. IF Before(k) = {} THEN found[k] = NoSlot
      ELSE found[k] # NoSlot /\ slots[found[k]] = Min(Before(k))
  BY DEF Located, FirstOfEach, Before
<1>4. ASSUME Found(k) PROVE Header(k) = Section(k) /\ IsSection(Section(k)) /\ Section(k).kind = k
  <2>1. Before(k) # {} /\ slots[found[k]] = Min(Before(k))
    BY <1>3, <1>4 DEF Found
  <2>2. Header(k) = Section(k)
    BY <1>2, <2>1 DEF Header, Section
  <2>3. Before(k) \in SUBSET Nat
    BY <1>1 DEF Before
  <2>4. Min(Before(k)) \in Before(k)
    BY <2>1, <2>3, MinExists
  <2>5. Min(Where(k)) \in 1..Len(file.sections) /\ file.sections[Min(Where(k))].kind = k
    <3>1. PICK m : m = Min(Where(k))
      OBVIOUS
    <3>2. m \in 1..Len(file.sections) - 1 /\ file.sections[m].kind = k
      BY <1>2, <2>4, <3>1 DEF Where
    <3> QED
      BY <1>1, <3>1, <3>2
  <2>6. file \in Files
    BY DEF Located
  <2> QED
    BY <2>2, <2>5, <2>6, FileIs DEF Section
<1> QED
  BY <1>2, <1>3, <1>4 DEF Found

LEMMA SectionsFound ==
    ASSUME Located, pc \in Late, NEW k \in Kinds
    PROVE  /\ Found(k) <=> Where(k) # {}
           /\ Found(k) => Header(k) = Section(k) /\ IsSection(Section(k)) /\ Section(k).kind = k
<1>1. n >= Len(file.sections)
  BY DEF Located
<1> QED
  BY <1>1, SectionsRead

LEMMA SymbolsFound ==
    ASSUME Located, pc \in Late, NEW t \in 1..2, Where(Table[t]) # {}
    PROVE  /\ Header(Table[t]) = Section(Table[t]) /\ Found(Table[t])
           /\ Len(Section(Table[t]).syms) \in Nat
           /\ \A k \in 1..Len(Section(Table[t]).syms) :
                /\ Section(Table[t]).syms[k].func \in BOOLEAN
                /\ Section(Table[t]).syms[k].value \in Nat
<1>1. Table[t] \in {"symtab", "dynsym"} /\ Table[t] \in Kinds
  BY DEF Table, Kinds
<1> QED
  BY <1>1, SectionsFound DEF IsSection, IsSymbols

LEMMA SymbolAt ==
    ASSUME NEW t, NEW k
    PROVE  <<t, k>> \in Symbols <=> /\ t \in 1..2 /\ Where(Table[t]) # {}
                                    /\ k \in 1..Len(Section(Table[t]).syms)
BY DEF Symbols

IsList(t) == Len(t) \in Nat /\ t = [x \in 1..Len(t) |-> t[x]]

\* Inserting an element moves those behind it by one.
LEMMA InsertIs ==
    ASSUME NEW t, IsList(t), NEW p \in 1..Len(t) + 1, NEW e, NEW r, r = InsertAt(t, p, e)
    PROVE  /\ IsList(r) /\ Len(r) = Len(t) + 1
           /\ \A x \in 1..Len(t) + 1 :
                 r[x] = IF x < p THEN t[x] ELSE IF x = p THEN e ELSE t[x - 1]
<1> DEFINE S == {t[x] : x \in 1..Len(t)} \cup {e}
           a == SubSeq(t, 1, p - 1)
           b == SubSeq(t, p, Len(t))
           c == a \o <<e>>
<1>1. Len(t) \in Nat /\ p \in Nat /\ 1 <= p /\ p <= Len(t) + 1
  BY DEF IsList
<1>2. \A x \in 1..Len(t) : t[x] \in S
  OBVIOUS
<1>3. e \in S
  OBVIOUS
<1> HIDE DEF S
<1>4. /\ a \in Seq(S) /\ Len(a) = p - 1
      /\ \A x \in 1..p - 1 : a[x] = t[x]
  <2>1. 1 \in Int /\ p - 1 \in Int /\ \A x \in 1..p - 1 : t[x] \in S
    BY <1>1, <1>2
  <2>2. /\ SubSeq(t, 1, p - 1) \in Seq(S)
        /\ Len(SubSeq(t, 1, p - 1)) = IF 1 <= p - 1 THEN p - 1 - 1 + 1 ELSE 0
        /\ \A x \in 1..p - 1 - 1 + 1 : SubSeq(t, 1, p - 1)[x] = t[1 + x - 1]
    BY <2>1, SubSeqProperties
  <2> QED
    BY <1>1, <2>2
<1>5. /\ b \in Seq(S) /\ Len(b) = Len(t) - p + 1
      /\ \A x \in 1..Len(t) - p + 1 : b[x] = t[p + x - 1]
  <2>1. p \in Int /\ Len(t) \in Int /\ \A x \in p..Len(t) : t[x] \in S
    BY <1>1, <1>2
  <2>2. /\ SubSeq(t, p, Len(t)) \in Seq(S)
        /\ Len(SubSeq(t, p, Len(t))) = IF p <= Len(t) THEN Len(t) - p + 1 ELSE 0
        /\ \A x \in 1..Len(t) - p + 1 : SubSeq(t, p, Len(t))[x] = t[p + x - 1]
    BY <2>1, SubSeqProperties
  <2> QED
    BY <1>1, <2>2
<1> HIDE DEF a, b
<1>6. /\ c \in Seq(S) /\ Len(c) = p
      /\ \A x \in 1..p : c[x] = IF x < p THEN t[x] ELSE e
  <2>1. <<e>> \in Seq(S) /\ Len(<<e>>) = 1 /\ <<e>>[1] = e
    BY <1>3
  <2>2. /\ a \o <<e>> \in Seq(S) /\ Len(a \o <<e>>) = Len(a) + Len(<<e>>)
        /\ \A x \in 1..Len(a) + Len(<<e>>) :
              (a \o <<e>>)[x] = IF x <= Len(a) THEN a[x] ELSE <<e>>[x - Len(a)]
    BY <1>4, <2>1, ConcatProperties
  <2> QED
    BY <1>1, <1>4, <2>1, <2>2
<1> HIDE DEF c
<1>7. r = c \o b
  BY DEF InsertAt, a, b, c
<1>8. /\ r \in Seq(S) /\ Len(r) = Len(c) + Len(b)
      /\ \A x \in 1..Len(c) + Len(b) : r[x] = IF x <= Len(c) THEN c[x] ELSE b[x - Len(c)]
  <2>1. c \in Seq(S) /\ b \in Seq(S)
    BY <1>5, <1>6
  <2>2. /\ c \o b \in Seq(S) /\ Len(c \o b) = Len(c) + Len(b)
        /\ \A x \in 1..Len(c) + Len(b) :
              (c \o b)[x] = IF x <= Len(c) THEN c[x] ELSE b[x - Len(c)]
    BY ONLY <2>1, ConcatProperties
  <2> QED
    BY ONLY <1>7, <2>2
<1>9. Len(r) = Len(t) + 1
  BY <1>1, <1>5, <1>6, <1>8
<1>10. ASSUME NEW x \in 1..Len(t) + 1
       PROVE  r[x] = IF x < p THEN t[x] ELSE IF x = p THEN e ELSE t[x - 1]
  <2>1. CASE x <= p
    BY <1>1, <1>5, <1>6, <1>8, <1>10, <2>1
  <2>2. CASE x > p
    <3>1. x - p \in 1..Len(t) - p + 1 /\ p + (x - p) - 1 = x - 1
      BY <1>1, <1>10, <2>2
    <3>2. r[x] = b[x - p]
      BY <1>1, <1>5, <1>6, <1>8, <1>10, <2>2
    <3> QED
      BY <1>1, <1>5, <2>2, <3>1, <3>2
  <2> QED
    BY <1>1, <2>1, <2>2
<1>11. IsList(r)
  BY <1>8, LenProperties DEF IsList
<1> QED
  BY <1>9, <1>10, <1>11

Shaped(t) ==
    /\ IsList(t)
    /\ \A x \in 1..Len(t) :
         /\ t[x] = [name |-> t[x].name, start |-> t[x].start, origin |-> t[x].origin,
                    file |-> t[x].file, lines |-> t[x].lines]
         /\ t[x].start \in Nat

Sorted(t) == \A x, y \in 1..Len(t) : x < y => t[x].start < t[y].start

\* Where an address belongs.
LEMMA PlaceIs ==
    ASSUME NEW t, Shaped(t), NEW a \in Nat
    PROVE  /\ Place(t, a) \in 1..Len(t) + 1
           /\ \A x \in 1..Len(t) : x < Place(t, a) => t[x].start < a
           /\ Place(t, a) <= Len(t) => a <= t[Place(t, a)].start
<1> DEFINE I == {x \in 1..Len(t) : a <= t[x].start}
<1>1. Place(t, a) = LET k == IF I # {} THEN Min(I) ELSE 0 IN IF k = 0 THEN Len(t) + 1 ELSE k
  BY DEF Place, SelectInSeq
<1>2. Len(t) \in Nat /\ \A x \in 1..Len(t) : t[x].start \in Nat
  BY DEF Shaped, IsList
<1>3. CASE I = {}
  <2>1. Place(t, a) = Len(t) + 1
    BY <1>1, <1>3
  <2> QED
    BY <1>2, <1>3, <2>1
<1>4. CASE I # {}
  <2>1. I \in SUBSET Nat
    BY <1>2
  <2>2. Min(I) \in I /\ \A k \in I : Min(I) <= k
    <3> HIDE DEF I
    <3> QED
      BY <1>4, <2>1, MinExists
  <2>3. PICK m : m = Min(I)
    OBVIOUS
  <2>4. m \in I /\ \A k \in I : m <= k
    BY <2>2, <2>3
  <2>5. Place(t, a) = m
    BY <1>1, <1>4, <2>3, <2>4
  <2>6. ASSUME NEW x \in 1..Len(t), x < m PROVE t[x].start < a
    BY <1>2, <2>4, <2>6
  <2> QED
    BY <1>2, <2>4, <2>5, <2>6
<1> QED
  BY <1>3, <1>4

\* r is t with e in it, unless a function of t starts at a.
Adds(t, r, a, e) ==
    /\ \A x \in 1..Len(t) : \E y \in 1..Len(r) : r[y] = t[x]
    /\ \A y \in 1..Len(r) : \/ \E x \in 1..Len(t) : r[y] = t[x]
                            \/ r[y] = e /\ \A x \in 1..Len(t) : t[x].start # a
    /\ \E y \in 1..Len(r) : r[y].start = a

\* Adding a function keeps the table sorted, with one function at an address.
LEMMA AddIs ==
    ASSUME NEW t, Shaped(t), Sorted(t), NEW a \in Nat, NEW nm, NEW o, NEW r,
           r = mut_exec_symtab_add_fun(t, nm, a, o)
    PROVE  /\ Shaped(r) /\ Sorted(r)
           /\ Adds(t, r, a, mut_exec_symtab_fun_open(nm, a, o))
<1>1. PICK p : p = Place(t, a)
  OBVIOUS
<1>2. /\ p \in 1..Len(t) + 1
      /\ \A x \in 1..Len(t) : x < p => t[x].start < a
      /\ p <= Len(t) => a <= t[p].start
  BY <1>1, PlaceIs
<1>3. Len(t) \in Nat /\ p \in Nat /\ \A x \in 1..Len(t) : t[x].start \in Nat
  BY <1>2 DEF Shaped, IsList
<1>4. CASE p <= Len(t) /\ t[p].start = a
  <2>1. r = t
    BY <1>1, <1>4 DEF mut_exec_symtab_add_fun, Taken
  <2>2. Adds(t, r, a, mut_exec_symtab_fun_open(nm, a, o))
    BY <1>2, <1>3, <1>4, <2>1 DEF Adds
  <2> QED
    BY <2>1, <2>2
<1>5. CASE ~(p <= Len(t) /\ t[p].start = a)
  <2>1. PICK e : e = mut_exec_symtab_fun_open(nm, a, o)
    OBVIOUS
  <2>2. r = InsertAt(t, p, e)
    BY <1>1, <1>5, <2>1 DEF mut_exec_symtab_add_fun, Taken
  <2>3. /\ IsList(r) /\ Len(r) = Len(t) + 1
        /\ \A x \in 1..Len(t) + 1 : r[x] = IF x < p THEN t[x] ELSE IF x = p THEN e ELSE t[x - 1]
    <3>1. IsList(t) /\ p \in 1..Len(t) + 1
      BY <1>2 DEF Shaped
    <3> QED
      BY ONLY <2>2, <3>1, InsertIs
  <2>4. /\ e.start = a
        /\ e = [name |-> e.name, start |-> e.start, origin |-> e.origin, file |-> e.file,
                lines |-> e.lines]
    BY <2>1 DEF mut_exec_symtab_fun_open
  <2>5. \A x \in 1..Len(t) : x >= p => a < t[x].start
    BY <1>2, <1>3, <1>5 DEF Sorted
  <2>6. \A y \in 1..Len(r) : \/ y < p /\ y \in 1..Len(t) /\ r[y] = t[y] /\ t[y].start < a
                             \/ y = p /\ r[y] = e
                             \/ y > p /\ y - 1 \in 1..Len(t) /\ r[y] = t[y - 1] /\ a < t[y - 1].start
    BY <1>2, <1>3, <2>3, <2>5
  <2>7. Shaped(r)
    BY <2>3, <2>4, <2>6, ZenonT(40) DEF Shaped
  <2>8. Sorted(r)
    <3>1. SUFFICES ASSUME NEW x \in 1..Len(r), NEW y \in 1..Len(r), x < y
                   PROVE  r[x].start < r[y].start
      BY DEF Sorted
    <3>2. CASE x < p /\ y < p
      BY <2>6, <3>1, <3>2, <1>3 DEF Sorted
    <3>3. CASE x < p /\ y >= p
      BY <2>6, <3>1, <3>3, <1>3, <2>4
    <3>4. CASE x = p
      BY <2>6, <3>1, <3>4, <1>3, <2>4
    <3>5. CASE x > p
      <4>1. x \in 1..Len(t) + 1 /\ y \in 1..Len(t) + 1 /\ x > p /\ y > p
        BY <1>3, <2>3, <3>1, <3>5
      <4>2. r[x] = t[x - 1] /\ r[y] = t[y - 1]
        BY <1>3, <2>3, <4>1
      <4>3. x - 1 \in 1..Len(t) /\ y - 1 \in 1..Len(t) /\ x - 1 < y - 1
        BY <1>2, <1>3, <3>1, <4>1
      <4>4. t[x - 1].start < t[y - 1].start
        BY <4>3 DEF Sorted
      <4> QED
        BY <4>2, <4>4
    <3> QED
      BY <1>3, <2>3, <3>2, <3>3, <3>4, <3>5
  <2>9. \A x \in 1..Len(t) : \E y \in 1..Len(r) : r[y] = t[x]
    <3>1. SUFFICES ASSUME NEW x \in 1..Len(t) PROVE \E y \in 1..Len(r) : r[y] = t[x]
      OBVIOUS
    <3>2. CASE x < p
      <4>1. x \in 1..Len(r) /\ r[x] = t[x]
        BY <1>3, <2>3, <3>1, <3>2
      <4> QED
        BY <4>1
    <3>3. CASE x >= p
      <4>1. x + 1 \in 1..Len(r) /\ r[x + 1] = t[x]
        BY <1>3, <2>3, <3>1, <3>3
      <4> QED
        BY <4>1
    <3> QED
      BY <1>3, <3>2, <3>3
  <2>10. \A x \in 1..Len(t) : t[x].start # a
    BY <1>2, <1>3, <2>5
  <2>11. p \in 1..Len(r) /\ r[p].start = a
    BY <1>2, <1>3, <2>3, <2>4
  <2>12. Adds(t, r, a, e)
    <3>1. \A y \in 1..Len(r) : r[y] = e \/ \E x \in 1..Len(t) : r[y] = t[x]
      BY <2>6
    <3> QED
      BY <2>9, <2>10, <2>11, <3>1 DEF Adds
  <2> QED
    BY <2>1, <2>7, <2>8, <2>12
<1> QED
  BY <1>4, <1>5

\* Adding a line leaves the names and the addresses of the functions alone.
LEMMA RangeIs ==
    ASSUME NEW t, Shaped(t), Sorted(t), NEW a, NEW l, NEW g, NEW r,
           r = mut_exec_symtab_add_range(t, a, l, g)
    PROVE  /\ Shaped(r) /\ Sorted(r) /\ Len(r) = Len(t)
           /\ \A x \in 1..Len(t) : r[x].start = t[x].start /\ r[x].name = t[x].name
           /\ \A x \in 1..Len(t) :
                IF x = Covering(t, a)
                THEN r[x].file = g /\ r[x].lines = mut_exec_symtab_add_xxx(t[x].lines, a, l)
                ELSE r[x] = t[x]
<1>1. CASE Covering(t, a) = 0
  <2>1. r = t /\ \A x \in 1..Len(t) : x # Covering(t, a)
    BY <1>1 DEF mut_exec_symtab_add_range, Shaped, IsList
  <2> QED
    BY <2>1
<1>2. CASE Covering(t, a) # 0
  <2>1. PICK c : c = Covering(t, a)
    OBVIOUS
  <2>2. PICK ls : ls = mut_exec_symtab_add_xxx(t[c].lines, a, l)
    OBVIOUS
  <2>3. t = [x \in 1..Len(t) |-> t[x]] /\ Len(t) \in Nat
    BY DEF Shaped, IsList
  <2>4. c \in 1..Len(t) => r = [t EXCEPT ![c] = [[t[c] EXCEPT !.file = g] EXCEPT !.lines = ls]]
    BY <1>2, <2>1, <2>2, <2>3 DEF mut_exec_symtab_add_range
  <2>5. c \in 1..Len(t)
    <3> DEFINE C == {x \in 1..Len(t) : /\ a >= t[x].start
                                       /\ x = Len(t) \/ a < t[x + 1].start}
    <3>1. C # {} /\ c = CHOOSE x \in C : \A y \in C : x <= y
      BY <1>2, <2>1 DEF Covering
    <3>2. \E x \in C : \A y \in C : x <= y
      <4>1. C \in SUBSET Nat
        BY <2>3
      <4> HIDE DEF C
      <4> QED
        BY <3>1, <4>1, Smallest
    <3>3. c \in C
      <4> HIDE DEF C
      <4> QED
        BY <3>1, <3>2, Zenon
    <3> QED
      BY <3>3
  <2>6. r = [x \in 1..Len(t) |-> IF x = c THEN [[t[c] EXCEPT !.file = g] EXCEPT !.lines = ls]
                                 ELSE t[x]]
    BY <2>3, <2>4, <2>5
  <2>7. /\ IsList(r) /\ Len(r) = Len(t)
        /\ \A x \in 1..Len(t) :
             r[x] = IF x = c THEN [[t[c] EXCEPT !.file = g] EXCEPT !.lines = ls] ELSE t[x]
    <3>1. Len(r) = Len(t)
      BY <2>3, <2>6
    <3> QED
      BY <2>3, <2>6, <3>1 DEF IsList
  <2>8. t[c] = [name |-> t[c].name, start |-> t[c].start, origin |-> t[c].origin,
                file |-> t[c].file, lines |-> t[c].lines]
    BY <2>5 DEF Shaped
  <2>9. PICK nm, st, og, ff, ll :
           t[c] = [name |-> nm, start |-> st, origin |-> og, file |-> ff, lines |-> ll]
    BY <2>8
  <2>10. r[c] = [name |-> nm, start |-> st, origin |-> og, file |-> g, lines |-> ls]
    <3>1. [[t[c] EXCEPT !.file = g] EXCEPT !.lines = ls]
            = [name |-> nm, start |-> st, origin |-> og, file |-> g, lines |-> ls]
      <4>1. [[name |-> nm, start |-> st, origin |-> og, file |-> ff, lines |-> ll]
                EXCEPT !.file = g]
              = [name |-> nm, start |-> st, origin |-> og, file |-> g, lines |-> ll]
        OBVIOUS
      <4>2. [[name |-> nm, start |-> st, origin |-> og, file |-> g, lines |-> ll]
                EXCEPT !.lines = ls]
              = [name |-> nm, start |-> st, origin |-> og, file |-> g, lines |-> ls]
        OBVIOUS
      <4> QED
        BY ONLY <2>9, <4>1, <4>2, Zenon
    <3> QED
      BY <2>5, <2>7, <3>1
  <2>11. \A x \in 1..Len(t) : r[x].start = t[x].start /\ r[x].name = t[x].name
    <3>1. r[c].start = t[c].start /\ r[c].name = t[c].name
      BY ONLY <2>9, <2>10
    <3> QED
      BY <2>7, <3>1
  <2>12. Shaped(r)
    <3>1. ASSUME NEW x \in 1..Len(t)
          PROVE  /\ r[x] = [name |-> r[x].name, start |-> r[x].start, origin |-> r[x].origin,
                            file |-> r[x].file, lines |-> r[x].lines]
                 /\ r[x].start \in Nat
      <4>1. CASE x = c
        <5>1. t[c].start \in Nat
          BY <2>5 DEF Shaped
        <5>2. st \in Nat
          BY ONLY <2>9, <5>1
        <5> QED
          BY ONLY <2>10, <4>1, <5>2
      <4>2. CASE x # c
        <5>1. r[x] = t[x]
          BY <2>7, <3>1, <4>2
        <5> QED
          BY <5>1, <3>1 DEF Shaped
      <4> QED
        BY <4>1, <4>2
    <3> QED
      BY <2>7, <3>1 DEF Shaped
  <2>13. Sorted(r)
    BY <2>7, <2>11 DEF Sorted
  <2>14. r[c].file = g /\ r[c].lines = ls
    BY ONLY <2>10
  <2>15. \A x \in 1..Len(t) :
            IF x = Covering(t, a)
            THEN r[x].file = g /\ r[x].lines = mut_exec_symtab_add_xxx(t[x].lines, a, l)
            ELSE r[x] = t[x]
    BY <2>1, <2>2, <2>7, <2>14
  <2> QED
    BY <2>7, <2>11, <2>12, <2>13, <2>15
<1> QED
  BY <1>1, <1>2

\* The function that covers an address is the last that starts at or before it.
LEMMA CoveringIs ==
    ASSUME NEW t, Shaped(t), Sorted(t), NEW a \in Nat
    PROVE  LET c == Covering(t, a)
           IN  /\ c = 0 => \A x \in 1..Len(t) : a < t[x].start
               /\ c # 0 => /\ c \in 1..Len(t) /\ t[c].start <= a
                           /\ \A x \in 1..Len(t) : t[x].start <= a => x <= c
<1>1. Len(t) \in Nat /\ \A x \in 1..Len(t) : t[x].start \in Nat
  BY DEF Shaped, IsList
<1> DEFINE C == {x \in 1..Len(t) : a >= t[x].start /\ (x = Len(t) \/ a < t[x + 1].start)}
<1>2. PICK c : c = Covering(t, a)
  OBVIOUS
<1>3. c = IF C = {} THEN 0 ELSE CHOOSE x \in C : \A y \in C : x <= y
  BY <1>2 DEF Covering
<1>4. ASSUME NEW x \in 1..Len(t), t[x].start <= a
      PROVE  C # {}
  <2> DEFINE B == {k \in 0..Len(t) : Len(t) - k \in 1..Len(t) /\ t[Len(t) - k].start <= a}
  <2>1. Len(t) - x \in B /\ B \in SUBSET Nat
    <3>1. Len(t) - x \in 0..Len(t) /\ Len(t) - (Len(t) - x) = x
      BY <1>1, <1>4
    <3> QED
      BY <3>1, <1>4
  <2>2. PICK k \in B : \A j \in B : k <= j
    <3> HIDE DEF B
    <3> QED
      BY <2>1, Smallest
  <2>3. PICK m \in 1..Len(t) : m = Len(t) - k
    BY <2>2
  <2>4. k \in Nat /\ m \in Nat /\ a >= t[m].start
    BY <1>1, <2>2, <2>3
  <2>5. ASSUME m # Len(t) PROVE a < t[m + 1].start
    <3>1. SUFFICES ASSUME t[m + 1].start <= a PROVE FALSE
      BY <1>1, <2>3, <2>5
    <3>2. k - 1 \in 0..Len(t) /\ Len(t) - (k - 1) = m + 1 /\ m + 1 \in 1..Len(t)
      BY <1>1, <2>3, <2>4, <2>5
    <3>3. k - 1 \in B
      BY <3>1, <3>2
    <3>4. k <= k - 1
      <4> HIDE DEF B
      <4> QED
        BY <2>2, <3>3
    <3> QED
      BY <2>4, <3>4
  <2>6. m \in C
    BY <2>3, <2>4, <2>5
  <2> QED
    BY <2>6
<1>5. CASE C = {}
  <2>1. c = 0
    BY <1>3, <1>5
  <2> QED
    BY <1>1, <1>2, <1>4, <1>5, <2>1
<1>6. CASE C # {}
  <2>1. c \in C
    <3>1. C \in SUBSET Nat
      BY <1>1
    <3> HIDE DEF C
    <3>2. \E x \in C : \A y \in C : x <= y
      BY <1>6, <3>1, Smallest
    <3> QED
      BY <1>3, <1>6, <3>2, Zenon
  <2>2. c \in 1..Len(t) /\ a >= t[c].start /\ (c = Len(t) \/ a < t[c + 1].start)
    BY <2>1
  <2>3. ASSUME NEW x \in 1..Len(t), t[x].start <= a, x > c PROVE FALSE
    <3>1. c + 1 \in 1..Len(t) /\ c # Len(t)
      BY <1>1, <2>2, <2>3
    <3>2. t[c + 1].start <= t[x].start
      <4>1. CASE x = c + 1
        BY <4>1, <1>1, <3>1
      <4>2. CASE x > c + 1
        BY <4>2, <1>1, <3>1, <2>3 DEF Sorted
      <4> QED
        BY <4>1, <4>2, <2>2, <2>3
    <3> QED
      BY <1>1, <2>2, <2>3, <3>1, <3>2
  <2> QED
    BY <1>1, <1>2, <2>2, <2>3
<1> QED
  BY <1>5, <1>6

-----------------------------------------------------------------------------
(* the symbols read so far, and the table made of them *)

\* The file is read, not written.
LEMMA SameFile ==
    ASSUME file' = file
    PROVE  /\ \A k : Where(k)' = Where(k) /\ Section(k)' = Section(k)
           /\ Symbols' = Symbols
           /\ \A p : Symbol(p)' = Symbol(p) /\ Ordinal(p)' = Ordinal(p) /\ AddrOf(p)' = AddrOf(p)
           /\ Funs' = Funs /\ Starts' = Starts
           /\ \A a : NameOf(a)' = NameOf(a)
<1>1. \A k : Where(k)' = Where(k)
  BY DEF Where
<1>2. \A k : Section(k)' = Section(k)
  BY <1>1 DEF Section
<1>3. Symbols' = Symbols
  BY <1>1, <1>2 DEF Symbols
<1>4. \A p : Symbol(p)' = Symbol(p)
  BY <1>2 DEF Symbol
<1>5. ASSUME NEW p PROVE Ordinal(p)' = Ordinal(p)
  <2>1. {q \in Symbols : q[1] = p[1] /\ Earlier(q, p) /\ Symbol(q).func}'
          = {q \in Symbols : q[1] = p[1] /\ Earlier(q, p) /\ Symbol(q).func}
    BY <1>3, <1>4 DEF Earlier
  <2> QED
    BY <2>1 DEF Ordinal
<1>6. \A p : AddrOf(p)' = AddrOf(p)
  BY <1>1, <1>2, <1>4, <1>5 DEF AddrOf
<1>7. Funs' = Funs
  BY <1>3, <1>4, <1>6 DEF Funs
<1>8. Starts' = Starts
  BY <1>6, <1>7 DEF Starts
<1>9. ASSUME NEW a PROVE NameOf(a)' = NameOf(a)
  <2>1. {p \in Funs : AddrOf(p) = a}' = {p \in Funs : AddrOf(p) = a}
    BY <1>6, <1>7
  <2>2. First({p \in Funs : AddrOf(p) = a})' = First({p \in Funs : AddrOf(p) = a})
    BY <2>1 DEF First, Earlier
  <2> QED
    BY <1>4, <2>2 DEF NameOf
<1> QED
  BY <1>1, <1>2, <1>3, <1>4, <1>5, <1>6, <1>7, <1>8, <1>9

\* The table of p was read, or the symbols before i were.
Past(t) ==
    IF t = 1 THEN pc \in Late \ {"strtab", "symtab"}
    ELSE pc \in Late \ {"strtab", "symtab", "dynstr", "dynsym"}
Known(p) == Past(p[1]) \/ (pc = Table[p[1]] /\ i > 0 /\ p[2] < i)
KnownFuns == {p \in Funs : Known(p)}

\* The functions of a table before symbol k.
FunsUpTo(t, k) == {q \in Symbols : q[1] = t /\ q[2] < k /\ Symbol(q).func}

Counted ==
    \A t \in 1..2 :
        pc = Table[t] /\ i > 0 =>
            /\ i <= Len(Section(Table[t]).syms) + 1
            /\ IsFiniteSet(FunsUpTo(t, i)) /\ f = 1 + Cardinality(FunsUpTo(t, i))

\* p names the function that starts at a: it is the first of P that is there.
Names(p, P, a) == AddrOf(p) = a /\ \A q \in P : AddrOf(q) = a => Earlier(p, q)

\* The table has the functions of P, each by the first name for its address.
Contents(t, P) ==
    /\ Shaped(t) /\ Sorted(t)
    /\ \A x \in 1..Len(t) :
         \E p \in P : Names(p, P, t[x].start) /\ t[x].name = Cut(Symbol(p).name)
    /\ \A p \in P : \E x \in 1..Len(t) : t[x].start = AddrOf(p)

Tabled == pc \in Late => Counted /\ Contents(symtab, KnownFuns)

LEMMA SymbolIs ==
    ASSUME Located, pc \in Late, NEW p \in Symbols
    PROVE  /\ p[1] \in 1..2 /\ p[2] \in 1..Len(Section(Table[p[1]]).syms) /\ p[2] \in Nat \ {0}
           /\ p = <<p[1], p[2]>> /\ Where(Table[p[1]]) # {}
           /\ Symbol(p).func \in BOOLEAN /\ Symbol(p).value \in Nat
<1>1. /\ p[1] \in 1..2 /\ p[2] \in 1..Len(Section(Table[p[1]]).syms)
      /\ p = <<p[1], p[2]>> /\ Where(Table[p[1]]) # {}
  BY DEF Symbols
<1> QED
  BY <1>1, SymbolsFound DEF Symbol

\* The same table of the same functions, after a step.
LEMMA ContentsKept ==
    ASSUME file' = file, NEW P, Contents(symtab', P), KnownFuns' = P
    PROVE  Contents(symtab, KnownFuns)'
<1>1. \A p : Symbol(p)' = Symbol(p) /\ AddrOf(p)' = AddrOf(p)
  BY SameFile
<1> QED
  BY <1>1 DEF Contents, Names, Earlier, Cut

\* A symbol more: its function, if it is one, is the f-th.
LEMMA OneMore ==
    ASSUME Located, pc \in Late, Counted, NEW t \in 1..2, pc = Table[t], i \in Nat, i > 0,
           f \in Nat, Where(Table[t]) # {}, i <= Len(Section(Table[t]).syms)
    PROVE  LET p == <<t, i>>
           IN  /\ p \in Symbols
               /\ IsFiniteSet(FunsUpTo(t, i + 1))
               /\ Cardinality(FunsUpTo(t, i + 1)) = IF Symbol(p).func THEN f ELSE f - 1
               /\ Symbol(p).func => Ordinal(p) = f
<1> DEFINE p == <<t, i>>
<1>1. IsFiniteSet(FunsUpTo(t, i)) /\ f = 1 + Cardinality(FunsUpTo(t, i))
  BY DEF Counted
<1>2. Len(Section(Table[t]).syms) \in Nat /\ p \in Symbols /\ p[1] = t /\ p[2] = i
  <2>1. Len(Section(Table[t]).syms) \in Nat
    BY SymbolsFound
  <2>2. i \in 1..Len(Section(Table[t]).syms)
    BY <2>1
  <2> QED
    BY <2>1, <2>2, SymbolAt
<1>3. Cardinality(FunsUpTo(t, i)) \in Nat
  BY <1>1, FS_CardinalityType
<1>4. p \notin FunsUpTo(t, i)
  BY <1>2 DEF FunsUpTo
<1>5. \A q \in Symbols : q[1] = t /\ q[2] < i + 1 <=> (q[1] = t /\ q[2] < i) \/ q = p
  BY SymbolIs, <1>2
<1> HIDE DEF p
<1>6. FunsUpTo(t, i + 1) = IF Symbol(p).func THEN FunsUpTo(t, i) \cup {p} ELSE FunsUpTo(t, i)
  BY <1>2, <1>5 DEF FunsUpTo
<1>7. /\ IsFiniteSet(FunsUpTo(t, i) \cup {p})
      /\ Cardinality(FunsUpTo(t, i) \cup {p}) = Cardinality(FunsUpTo(t, i)) + 1
  BY <1>1, <1>4, FS_AddElement
<1>8. /\ IsFiniteSet(FunsUpTo(t, i + 1))
      /\ Cardinality(FunsUpTo(t, i + 1)) = IF Symbol(p).func THEN f ELSE f - 1
  BY <1>1, <1>3, <1>6, <1>7
<1>9. ASSUME Symbol(p).func PROVE Ordinal(p) = f
  <2>1. \A q \in Symbols : q[1] = p[1] /\ Earlier(q, p) <=> q[1] = t /\ q[2] < i + 1
    BY SymbolIs, <1>2 DEF Earlier
  <2>2. {q \in Symbols : q[1] = p[1] /\ Earlier(q, p) /\ Symbol(q).func} = FunsUpTo(t, i + 1)
    BY <2>1 DEF FunsUpTo
  <2> QED
    BY <1>8, <1>9, <2>2 DEF Ordinal
<1> QED
  BY <1>2, <1>8, <1>9 DEF p

\* A function is added to the table when all before it are there.
LEMMA ContentsGrow ==
    ASSUME Located, pc \in Late, NEW t, NEW P \in SUBSET Funs, Contents(t, P),
           NEW p \in Funs, \A q \in P : Earlier(q, p), AddrOf(p) \in Nat, NEW o, NEW r,
           r = mut_exec_symtab_add_fun(t, Cut(Symbol(p).name), AddrOf(p), o)
    PROVE  Contents(r, P \cup {p})
<1>1. PICK a, nm : a = AddrOf(p) /\ nm = Cut(Symbol(p).name)
  OBVIOUS
<1>2. Shaped(t) /\ Sorted(t) /\ a \in Nat /\ r = mut_exec_symtab_add_fun(t, nm, a, o)
  BY <1>1 DEF Contents
<1>3. /\ Shaped(r) /\ Sorted(r)
      /\ Adds(t, r, a, mut_exec_symtab_fun_open(nm, a, o))
  BY ONLY <1>2, AddIs
<1>4. Earlier(p, p)
  <2>1. p[1] \in 1..2 /\ p[2] \in Nat
    BY SymbolIs DEF Funs
  <2> QED
    BY <2>1 DEF Earlier
<1>5. ASSUME NEW y \in 1..Len(r)
      PROVE  \E q \in P \cup {p} : /\ Names(q, P \cup {p}, r[y].start)
                                   /\ r[y].name = Cut(Symbol(q).name)
  <2>1. CASE \E x \in 1..Len(t) : r[y] = t[x]
    <3>1. PICK x \in 1..Len(t) : r[y] = t[x]
      BY <2>1
    <3>2. PICK q \in P : Names(q, P, t[x].start) /\ t[x].name = Cut(Symbol(q).name)
      BY DEF Contents
    <3>3. Names(q, P \cup {p}, t[x].start)
      BY <3>2 DEF Names
    <3> QED
      BY <3>1, <3>2, <3>3
  <2>2. CASE r[y] = mut_exec_symtab_fun_open(nm, a, o) /\ \A x \in 1..Len(t) : t[x].start # a
    <3>1. r[y].start = a /\ r[y].name = nm
      BY <2>2 DEF mut_exec_symtab_fun_open
    <3>2. \A q \in P : AddrOf(q) # a
      BY <2>2 DEF Contents
    <3>3. Names(p, P \cup {p}, a)
      BY <1>1, <1>4, <3>2 DEF Names
    <3> QED
      BY <1>1, <3>1, <3>3
  <2> QED
    BY <1>3, <2>1, <2>2 DEF Adds
<1>6. ASSUME NEW q \in P \cup {p}
      PROVE  \E y \in 1..Len(r) : r[y].start = AddrOf(q)
  <2>1. CASE q \in P
    <3>1. PICK x \in 1..Len(t) : t[x].start = AddrOf(q)
      BY <2>1 DEF Contents
    <3>2. PICK y \in 1..Len(r) : r[y] = t[x]
      BY <1>3 DEF Adds
    <3> QED
      BY <3>1, <3>2
  <2>2. CASE q = p
    BY <1>1, <1>3, <2>2 DEF Adds
  <2> QED
    BY <2>1, <2>2
<1> QED
  BY <1>3, <1>5, <1>6 DEF Contents

\* A line is added to the table.
LEMMA ContentsLine ==
    ASSUME NEW t, NEW P, Contents(t, P), NEW a, NEW l, NEW g
    PROVE  Contents(mut_exec_symtab_add_range(t, a, l, g), P)
<1>1. PICK r : r = mut_exec_symtab_add_range(t, a, l, g)
  OBVIOUS
<1>2. /\ Shaped(r) /\ Sorted(r) /\ Len(r) = Len(t)
      /\ \A x \in 1..Len(t) : r[x].start = t[x].start /\ r[x].name = t[x].name
  BY <1>1, RangeIs DEF Contents
<1>3. Contents(r, P)
  <2>1. ASSUME NEW x \in 1..Len(r)
        PROVE  \E p \in P : Names(p, P, r[x].start) /\ r[x].name = Cut(Symbol(p).name)
    BY <1>2, <2>1 DEF Contents
  <2>2. ASSUME NEW p \in P PROVE \E x \in 1..Len(r) : r[x].start = AddrOf(p)
    BY <1>2, <2>2 DEF Contents
  <2> QED
    BY <1>2, <2>1, <2>2 DEF Contents
<1> QED
  BY <1>1, <1>3

\* Symbol i is extracted.
LEMMA ExtractNamed ==
    ASSUME Located, Tabled, i \in Nat, f \in Nat \ {0}, NEW T \in {"symtab", "dynsym"},
           mut_exec_extract_symbol(T)
    PROVE  Tabled'
<1>1. PICK t \in 1..2 : T = Table[t]
  BY DEF Table
<1>2. /\ pc = Table[t] /\ i > 0 /\ i <= Len(Header(T).syms) /\ UNCHANGED <<file, slots, found>>
  BY <1>1 DEF mut_exec_extract_symbol, readerVars
<1>3. pc \in Late /\ Found(T) /\ T \in Kinds
  BY <1>1, <1>2 DEF Late, Located, Table, Kinds
<1>4. Where(T) # {} /\ Header(T) = Section(T)
  BY <1>3, SectionsFound
<1> DEFINE p == <<t, i>>
<1>5. p[1] = t /\ p[2] = i /\ i <= Len(Section(Table[t]).syms)
  BY <1>1, <1>2, <1>4
<1>6. /\ p \in Symbols
      /\ IsFiniteSet(FunsUpTo(t, i + 1))
      /\ Cardinality(FunsUpTo(t, i + 1)) = IF Symbol(p).func THEN f ELSE f - 1
      /\ Symbol(p).func => Ordinal(p) = f
  <2>1. Counted /\ Where(Table[t]) # {} /\ f \in Nat
    BY <1>1, <1>3, <1>4 DEF Tabled
  <2> QED
    BY <1>2, <1>3, <1>5, <2>1, OneMore
<1>7. Symbol(p) = Header(T).syms[i]
  BY <1>1, <1>4 DEF Symbol
<1> HIDE DEF p
<1>8. Symbol(p).func => AddrOf(p) = FunAddr(T, Symbol(p), f)
  <2>1. "plt" \in Kinds
    BY DEF Kinds
  <2>2. /\ Found("plt") <=> Where("plt") # {}
        /\ Found("plt") => Header("plt") = Section("plt")
    BY <1>3, <2>1, SectionsFound
  <2>3. T = "dynsym" <=> t = 2
    BY <1>1 DEF Table
  <2> QED
    BY <1>5, <1>6, <2>2, <2>3 DEF AddrOf, FunAddr
<1>9. Symbol(p).func => AddrOf(p) \in Nat
  <2>1. "plt" \in Kinds
    BY DEF Kinds
  <2>2. Found("plt") => Header("plt").addr \in Nat /\ Header("plt").align \in Nat
    BY <1>3, <2>1, SectionsFound DEF IsSection
  <2>3. Found("plt") => Header("plt").addr + f * Header("plt").align \in Nat
    <3>1. \A x, y \in Nat : x + f * y \in Nat
      OBVIOUS
    <3> QED
      BY ONLY <2>2, <3>1
  <2>4. Symbol(p).value \in Nat
    BY <1>3, <1>6, SymbolIs
  <2> QED
    BY <1>8, <2>3, <2>4 DEF FunAddr
<1>10. PICK P : P = KnownFuns
  OBVIOUS
<1>11. P \in SUBSET Funs /\ \A q \in P : Earlier(q, p)
  <2>1. P \in SUBSET Funs
    BY <1>10 DEF KnownFuns
  <2>2. ASSUME NEW q \in P PROVE Earlier(q, p)
    <3>1. q[1] \in 1..2 /\ q[2] \in Nat /\ Known(q)
      BY <1>3, <1>10, SymbolIs DEF KnownFuns, Funs
    <3>2. t = 1 => q[1] = 1 /\ q[2] < i
      BY <1>2, <3>1 DEF Known, Past, Table
    <3>3. t = 2 => q[1] = 1 \/ (q[1] = 2 /\ q[2] < i)
      BY <1>2, <3>1 DEF Known, Past, Table
    <3> QED
      BY <1>5, <3>1, <3>2, <3>3 DEF Earlier
  <2> QED
    BY <2>1, <2>2
<1>12. ASSUME pc' = pc, i' = i + 1
       PROVE  KnownFuns' = IF p \in Funs THEN P \cup {p} ELSE P
  <2>1. Funs' = Funs
    BY <1>2, SameFile
  <2>2. ASSUME NEW q \in Funs PROVE Known(q)' <=> Known(q) \/ q = p
    <3>1. q[1] \in 1..2 /\ q[2] \in Nat /\ q = <<q[1], q[2]>>
      BY <1>3, SymbolIs DEF Funs
    <3>2. \A x : Past(x)' = Past(x)
      BY <1>12 DEF Past
    <3>3. pc = Table[q[1]] <=> q[1] = t
      BY <1>2, <3>1 DEF Table
    <3>4. q = p <=> q[1] = t /\ q[2] = i
      BY <3>1 DEF p
    <3> QED
      BY <1>2, <1>12, <3>1, <3>2, <3>3, <3>4 DEF Known
  <2> QED
    BY <1>10, <2>1, <2>2 DEF KnownFuns
<1>13. ASSUME pc' = pc, i' = i + 1, f' = IF Symbol(p).func THEN f + 1 ELSE f
       PROVE  Counted'
  <2>1. SUFFICES ASSUME NEW u \in 1..2, pc' = Table[u]
                 PROVE  /\ i' <= Len(Section(Table[u])'.syms) + 1
                        /\ IsFiniteSet(FunsUpTo(u, i)') /\ f' = 1 + Cardinality(FunsUpTo(u, i)')
    BY DEF Counted
  <2>2. u = t
    BY <1>2, <1>13, <2>1 DEF Table
  <2>3. FunsUpTo(u, i)' = FunsUpTo(t, i + 1)
    BY <1>2, <1>13, <2>2, SameFile DEF FunsUpTo
  <2>4. Section(Table[u])' = Section(Table[t])
    BY <1>2, <2>2, SameFile
  <2>5. Len(Section(Table[t]).syms) \in Nat
    BY <1>1, <1>3, <1>4, SymbolsFound
  <2> QED
    BY <1>5, <1>6, <1>13, <2>3, <2>4, <2>5
<1>14. Contents(symtab, P)
  BY <1>3, <1>10 DEF Tabled
<1>15. CASE pc' # pc
  BY <1>15 DEF mut_exec_extract_symbol, NameOutOfRange, Fails, Tabled, Late
<1>16. CASE pc' = pc
  <2>1. /\ i' = i + 1 /\ f' = IF Symbol(p).func THEN f + 1 ELSE f
        /\ symtab' = IF p \in Funs
                     THEN mut_exec_symtab_add_fun(symtab, Cut(Symbol(p).name), AddrOf(p), Strings[T])
                     ELSE symtab
    <3>1. Symbol(p).func \in BOOLEAN
      BY <1>3, <1>6, SymbolIs
    <3>2. p \in Funs <=> Symbol(p).func /\ FunAddr(T, Symbol(p), f) # 0
      BY <1>6, <1>8 DEF Funs
    <3>3. pc \notin {"failed", "abort"}
      BY <1>3 DEF Late
    <3> QED
      BY <1>7, <1>8, <1>16, <3>1, <3>2, <3>3 DEF mut_exec_extract_symbol, NameOutOfRange, Fails
  <2>2. Contents(symtab', KnownFuns')
    <3>1. CASE p \in Funs
      <4>1. AddrOf(p) \in Nat
        BY <1>9, <3>1 DEF Funs
      <4>2. Contents(symtab', P \cup {p})
        BY <1>3, <1>11, <1>14, <2>1, <3>1, <4>1, ContentsGrow
      <4> QED
        BY <1>12, <1>16, <2>1, <3>1, <4>2
    <3>2. CASE p \notin Funs
      BY <1>12, <1>14, <1>16, <2>1, <3>2
    <3> QED
      BY <3>1, <3>2
  <2>3. Contents(symtab, KnownFuns)'
    BY <1>2, <2>2, ContentsKept
  <2> QED
    BY <1>13, <1>16, <2>1, <2>3 DEF Tabled
<1> QED
  BY <1>15, <1>16

\* The same functions are known when no more is read of the tables.
LEMMA TabledKept ==
    ASSUME Tabled, pc \in Late, pc' \in Late, file' = file, Counted',
           \A p \in Funs : Known(p)' <=> Known(p),
           symtab' = symtab \/ \E a, l, g : symtab' = mut_exec_symtab_add_range(symtab, a, l, g)
    PROVE  Tabled'
<1>1. KnownFuns' = KnownFuns
  BY SameFile DEF KnownFuns
<1>2. Contents(symtab, KnownFuns)
  BY DEF Tabled
<1>3. Contents(symtab', KnownFuns)
  BY <1>2, ContentsLine
<1>4. Contents(symtab, KnownFuns)'
  BY <1>1, <1>3, ContentsKept
<1> QED
  BY <1>4 DEF Tabled

\* The first table, and the table of no functions.
LEMMA EmptyTabled ==
    ASSUME Located, mut_exec_sections_located, i = 0
    PROVE  Tabled'
<1>1. CASE pc' = "failed"
  BY <1>1 DEF Tabled, Late
<1>2. CASE pc' # "failed"
  <2>1. /\ n >= Len(file.sections) /\ file' = file /\ i' = 0 /\ symtab' = <<>>
        /\ pc' = IF Found("symtab") THEN "strtab" ELSE "dynstr"
    BY <1>2 DEF mut_exec_sections_located, Fails, loopVars, mut_exec_symtab_open
  <2>2. ASSUME NEW p \in Funs PROVE ~Known(p)'
    <3>1. p[1] \in 1..2 /\ Where(Table[p[1]]) # {}
      BY DEF Funs, Symbols
    <3>2. Found("symtab") <=> Where("symtab") # {}
      BY <2>1, SectionsRead DEF Kinds
    <3>3. p[1] = 1 => Found("symtab")
      BY <3>1, <3>2 DEF Table
    <3> QED
      BY <2>1, <3>1, <3>3 DEF Known, Past, Late
  <2>3. KnownFuns' = {}
    BY <2>1, <2>2, SameFile DEF KnownFuns
  <2>4. Counted'
    BY <2>1 DEF Counted
  <2>5. Contents(symtab', {})
    <3>1. Len(<<>>) = 0 /\ <<>> = [x \in 1..0 |-> <<>>[x]]
      OBVIOUS
    <3> QED
      BY <2>1, <3>1 DEF Contents, Shaped, Sorted, IsList
  <2>6. Contents(symtab, KnownFuns)'
    BY <2>1, <2>3, <2>5, ContentsKept
  <2> QED
    BY <2>4, <2>6 DEF Tabled
<1> QED
  BY <1>1, <1>2

LEMMA ReadTabled ==
    ASSUME IInv, Located, Tabled, NEW T \in {"symtab", "dynsym"},
           mut_exec_strtab_open(T) \/ mut_exec_read_symbols(T)
    PROVE  Tabled'
<1>1. CASE pc' = "failed"
  BY <1>1 DEF Tabled, Late
<1>2. CASE pc' # "failed"
  <2>1. /\ pc \in {T, Strings[T]} /\ pc' = T /\ i = 0 /\ i' \in {0, 1} /\ file' = file
        /\ symtab' = symtab
        /\ i' = 1 => f' = 1 /\ pc = T
    BY <1>2 DEF mut_exec_strtab_open, mut_exec_read_symbols, Fails, IInv, Control, loopVars,
       execVars, Strings
  <2>2. pc \in Late /\ pc' \in Late
    BY <2>1 DEF Late, Strings
  <2>3. ASSUME NEW p \in Funs PROVE Known(p)' <=> Known(p)
    <3>1. p[1] \in 1..2 /\ p[2] \in Nat \ {0}
      BY <2>2, SymbolIs DEF Funs
    <3> QED
      BY <2>1, <3>1 DEF Known, Past, Late, Strings
  <2>4. ASSUME NEW t \in 1..2, pc' = Table[t], i' = 1
        PROVE  /\ 1 <= Len(Section(Table[t])'.syms) + 1
               /\ FunsUpTo(t, 1)' = {}
    <3>1. Where(Table[t]) # {}
      <4>1. Table[t] \in Kinds /\ Table[t] \in {"symtab", "dynsym"}
        BY DEF Table, Kinds
      <4>2. Found(Table[t])
        BY <2>1, <2>4, <4>1 DEF Located
      <4> QED
        BY <2>2, <4>1, <4>2, SectionsFound
    <3>2. Len(Section(Table[t]).syms) \in Nat
      BY <2>2, <3>1, SymbolsFound
    <3>3. FunsUpTo(t, 1) = {}
      BY <2>2, SymbolIs DEF FunsUpTo
    <3>4. FunsUpTo(t, 1)' = FunsUpTo(t, 1)
      BY <2>1, SameFile DEF FunsUpTo
    <3> QED
      BY <2>1, <3>2, <3>3, <3>4, SameFile
  <2>5. Counted'
    <3>1. SUFFICES ASSUME NEW t \in 1..2, pc' = Table[t], i' > 0
                   PROVE  /\ i' <= Len(Section(Table[t])'.syms) + 1
                          /\ IsFiniteSet(FunsUpTo(t, i)')
                          /\ f' = 1 + Cardinality(FunsUpTo(t, i)')
      BY DEF Counted
    <3>2. i' = 1 /\ f' = 1
      BY <2>1, <3>1
    <3>3. FunsUpTo(t, i)' = FunsUpTo(t, 1)'
      BY <3>2 DEF FunsUpTo
    <3> QED
      <4>1. FunsUpTo(t, i)' = {} /\ 1 <= Len(Section(Table[t])'.syms) + 1
        BY <2>4, <3>1, <3>2, <3>3
      <4>2. IsFiniteSet(FunsUpTo(t, i)') /\ Cardinality(FunsUpTo(t, i)') = 0
        BY <4>1, FS_EmptySet
      <4> QED
        BY <3>2, <4>1, <4>2
  <2> QED
    BY <2>1, <2>2, <2>3, <2>5, TabledKept
<1> QED
  BY <1>1, <1>2

LEMMA ReadDoneTabled ==
    ASSUME Located, Tabled, i \in Nat, NEW T \in {"symtab", "dynsym"},
           mut_exec_symbols_extracted(T)
    PROVE  Tabled'
<1>1. /\ pc = T /\ i > Len(Header(T).syms) /\ i > 0 /\ i' = 0 /\ file' = file /\ symtab' = symtab
      /\ pc' = IF T = "symtab" THEN AfterSymtab ELSE AfterDynsym
  BY DEF mut_exec_symbols_extracted
<1>2. pc \in Late /\ pc' \in Late
  BY <1>1 DEF Late, AfterSymtab, AfterDynsym
<1>3. ASSUME NEW p \in Funs PROVE (Known(p)' /\ Known(p))
             \/ (T = "symtab" /\ p[1] = 2 /\ ~Known(p)' /\ ~Known(p))
  <2>1. /\ p[1] \in 1..2 /\ p[2] \in 1..Len(Section(Table[p[1]]).syms) /\ p[2] \in Nat \ {0}
        /\ Where(Table[p[1]]) # {}
    BY <1>2, SymbolIs DEF Funs
  <2>2. Header(Table[p[1]]) = Section(Table[p[1]]) /\ Found(Table[p[1]])
        /\ Len(Section(Table[p[1]]).syms) \in Nat
    BY <1>2, <2>1, SymbolsFound
  <2>3. CASE T = Table[p[1]]
    <3>1. Known(p)
      <4>1. p[2] < i
        <5>1. PICK l \in Nat : l = Len(Section(Table[p[1]]).syms)
          BY <2>2
        <5>2. p[2] <= l /\ l < i
          BY <1>1, <2>1, <2>2, <2>3, <5>1
        <5> QED
          BY <1>1, <2>1, <5>1, <5>2
      <4> QED
        BY <1>1, <2>3, <4>1 DEF Known
    <3>2. Known(p)'
      BY <1>1, <2>1, <2>3 DEF Known, Past, Late, AfterSymtab, AfterDynsym, Table
    <3> QED
      BY <3>1, <3>2
  <2>4. CASE T = "symtab" /\ p[1] = 2
    <3>1. Found("dynsym")
      BY <2>2, <2>4 DEF Table
    <3>2. pc' = "dynstr"
      BY <1>1, <2>4, <3>1 DEF AfterSymtab
    <3>3. ~Known(p)'
      BY <1>1, <2>4, <3>2 DEF Known, Past
    <3>4. ~Known(p)
      BY <1>1, <2>4 DEF Known, Past, Table
    <3> QED
      BY <2>4, <3>3, <3>4
  <2>5. CASE T = "dynsym" /\ p[1] = 1
    BY <1>1, <2>5 DEF Known, Past, Late, AfterDynsym
  <2> QED
    BY <2>1, <2>3, <2>4, <2>5 DEF Table
<1>4. Counted'
  BY <1>1 DEF Counted
<1> QED
  BY <1>1, <1>2, <1>3, <1>4, TabledKept

\* What comes after the tables of symbols.
Told == {"stabstr", "stabs", "fclose", "opened", "backtrace", "managed"}

LEMMA AfterTables ==
    ASSUME [Next]_vars, pc \in Told
    PROVE  /\ pc' \in Told \cup {"failed", "closed"}
           /\ symtab' = symtab \/ \E a, l, g : symtab' = mut_exec_symtab_add_range(symtab, a, l, g)
           /\ pc' # "stabs" => symtab' = symtab
<1>1. CASE mut_exec_extract_debug_info
  BY <1>1 DEF mut_exec_extract_debug_info, Fails, Told
<1>2. CASE \/ mut_exec_stabstr_open \/ mut_exec_extract_stabs
           \/ mut_exec_debug_info_extracted \/ mut_exec_open
  BY <1>2 DEF mut_exec_stabstr_open, mut_exec_extract_stabs,
     mut_exec_debug_info_extracted, mut_exec_open, execVars, Fails, Told
<1>3. CASE \/ mut_exec_has_backtrace_symbols \/ mut_exec_functions_addr
           \/ (\E a \in Addrs : mut_exec_addr_name(a)) \/ mut_exec_close
  BY <1>3 DEF mut_exec_has_backtrace_symbols, mut_exec_functions_addr, mut_exec_addr_name,
     mut_exec_close, execVars, Told
<1>4. CASE UNCHANGED vars
  BY <1>4 DEF vars, execVars, Told
<1>5. CASE \/ mut_exec_fopen \/ mut_exec_check \/ mut_exec_shstrtab_open
           \/ mut_exec_locate_start \/ mut_exec_locate_sections \/ mut_exec_sections_located
           \/ \E T \in {"symtab", "dynsym"} :
                \/ mut_exec_strtab_open(T) \/ mut_exec_read_symbols(T)
                \/ mut_exec_extract_symbol(T) \/ mut_exec_symbols_extracted(T)
  BY <1>5 DEF mut_exec_fopen, mut_exec_check, mut_exec_shstrtab_open, mut_exec_locate_start,
     mut_exec_locate_sections, mut_exec_sections_located, mut_exec_strtab_open,
     mut_exec_read_symbols, mut_exec_extract_symbol, mut_exec_symbols_extracted, Strings, Told
<1> QED
  BY <1>1, <1>2, <1>3, <1>4, <1>5 DEF Next

LEMMA InitTabled == Init => Tabled
BY DEF Init, Tabled, Late

LEMMA TabledStep ==
    ASSUME IInv, Located, Loops, Tabled, [Next]_vars
    PROVE  Tabled'
<1>1. file' = file /\ i \in Nat /\ f \in Nat \ {0}
  BY ReaderKept DEF IInv, Control, Loops
<1>2. CASE pc \in Told
  <2>1. CASE pc' \notin Told
    <3>1. pc' \notin Late
      BY <1>2, <2>1, AfterTables DEF Late
    <3> QED
      BY <3>1 DEF Tabled
  <2>2. CASE pc' \in Told
    <3>1. pc \in Late /\ pc' \in Late /\ Counted'
      BY <1>2, <2>2 DEF Told, Late, Counted, Table
    <3>2. \A p \in Funs : Known(p)' <=> Known(p)
      BY <1>2, <2>2 DEF Told, Late, Known, Past
    <3> QED
      BY <1>1, <1>2, <3>1, <3>2, AfterTables, TabledKept
  <2> QED
    BY <2>1, <2>2
<1>3. CASE mut_exec_sections_located
  <2>1. i = 0
    BY <1>3 DEF mut_exec_sections_located, IInv, Control
  <2> QED
    BY <1>3, <2>1, EmptyTabled
<1>4. CASE \E T \in {"symtab", "dynsym"} :
             \/ mut_exec_strtab_open(T) \/ mut_exec_read_symbols(T)
             \/ mut_exec_extract_symbol(T) \/ mut_exec_symbols_extracted(T)
  BY <1>1, <1>4, ReadTabled, ExtractNamed, ReadDoneTabled
<1>5. CASE \/ mut_exec_fopen \/ mut_exec_check \/ mut_exec_shstrtab_open
           \/ mut_exec_locate_start \/ mut_exec_locate_sections
  <2>1. pc' \notin Late
    BY <1>5 DEF mut_exec_fopen, mut_exec_check, mut_exec_shstrtab_open, mut_exec_locate_start,
       mut_exec_locate_sections, NameOutOfRange, Fails, Late
  <2> QED
    BY <2>1 DEF Tabled
<1>6. CASE \/ mut_exec_stabstr_open \/ mut_exec_extract_stabs \/ mut_exec_extract_debug_info
           \/ mut_exec_debug_info_extracted \/ mut_exec_open
           \/ mut_exec_has_backtrace_symbols \/ mut_exec_functions_addr
           \/ (\E a \in Addrs : mut_exec_addr_name(a)) \/ mut_exec_close
  <2>1. pc \in Told
    BY <1>6 DEF mut_exec_stabstr_open, mut_exec_extract_stabs, mut_exec_extract_debug_info,
       mut_exec_debug_info_extracted, mut_exec_open, mut_exec_has_backtrace_symbols,
       mut_exec_functions_addr, mut_exec_addr_name, mut_exec_close, Told
  <2> QED
    BY <1>2, <2>1
<1>7. CASE UNCHANGED vars
  <2>1. UNCHANGED <<file, pc, i, f, symtab>>
    BY <1>7 DEF vars, loopVars, execVars
  <2>2. CASE pc \in Late
    <3>1. \A p \in Funs : Known(p)' <=> Known(p)
      BY <2>1 DEF Known, Past
    <3>2. \A t : FunsUpTo(t, i)' = FunsUpTo(t, i)
      BY <2>1, SameFile DEF FunsUpTo
    <3>3. Counted'
      BY <2>1, <2>2, <3>2, SameFile DEF Tabled, Counted
    <3> QED
      BY <2>1, <2>2, <3>1, <3>3, TabledKept
  <2> QED
    BY <2>1, <2>2 DEF Tabled
<1> QED
  BY <1>3, <1>4, <1>5, <1>6, <1>7 DEF Next

-----------------------------------------------------------------------------
(* the answers *)

\* The first of several symbols is unique.
LEMMA NamesFirst ==
    ASSUME Located, pc \in Late, NEW a, NEW p \in Funs, Names(p, Funs, a)
    PROVE  NameOf(a) = Cut(Symbol(p).name)
<1> DEFINE P == {q \in Funs : AddrOf(q) = a}
<1>1. p \in P /\ \A q \in P : Earlier(p, q)
  BY DEF Names
<1>2. PICK x : x = First(P)
  OBVIOUS
<1>3. x \in P /\ \A q \in P : Earlier(x, q)
  <2> HIDE DEF P
  <2>1. \E y \in P : \A q \in P : Earlier(y, q)
    BY <1>1
  <2>2. First(P) \in P /\ \A q \in P : Earlier(First(P), q)
    BY <2>1, Zenon DEF First
  <2> QED
    BY <1>2, <2>2
<1>4. Earlier(p, x) /\ Earlier(x, p) /\ p \in Symbols /\ x \in Symbols
  BY <1>1, <1>3 DEF Funs
<1>5. /\ p[1] \in 1..2 /\ p[2] \in Nat /\ p = <<p[1], p[2]>>
      /\ x[1] \in 1..2 /\ x[2] \in Nat /\ x = <<x[1], x[2]>>
  BY <1>4, SymbolIs
<1>6. p[1] = x[1] /\ p[2] = x[2]
  BY <1>4, <1>5 DEF Earlier
<1>7. x = p
  BY <1>5, <1>6
<1>8. NameOf(a) = Cut(Symbol(First(P)).name)
  BY DEF NameOf
<1> QED
  BY <1>2, <1>7, <1>8

\* The complete table has the starts and the names of the file.
LEMMA TableComplete ==
    ASSUME Located, Tabled, pc \in Told
    PROVE  /\ Shaped(symtab) /\ Sorted(symtab)
           /\ \A x \in 1..Len(symtab) : /\ symtab[x].start \in Starts
                                        /\ symtab[x].name = NameOf(symtab[x].start)
           /\ \A a \in Starts : \E x \in 1..Len(symtab) : symtab[x].start = a
<1>1. pc \in Late
  BY DEF Late, Told
<1>2. \A p \in Funs : Known(p)
  BY DEF Told, Known, Past, Late
<1>3. KnownFuns = Funs
  BY <1>2 DEF KnownFuns
<1>4. Contents(symtab, Funs)
  BY <1>1, <1>3 DEF Tabled
<1>5. ASSUME NEW x \in 1..Len(symtab)
      PROVE  symtab[x].start \in Starts /\ symtab[x].name = NameOf(symtab[x].start)
  <2>1. PICK p \in Funs : Names(p, Funs, symtab[x].start) /\ symtab[x].name = Cut(Symbol(p).name)
    BY <1>4 DEF Contents
  <2>2. NameOf(symtab[x].start) = Cut(Symbol(p).name)
    BY <1>1, <2>1, NamesFirst
  <2>3. symtab[x].start = AddrOf(p)
    BY <2>1 DEF Names
  <2> QED
    BY <2>1, <2>2, <2>3 DEF Starts
<1> QED
  BY <1>4, <1>5 DEF Contents, Starts

\* What a lookup of an address answers.
LEMMA LookupAddrIs ==
    ASSUME Located, Tabled, pc \in Told, NEW a \in Nat, NEW r,
           r = mut_exec_symtab_lookup_addr(symtab, a)
    PROVE  LET S == {s \in Starts : s <= a}
           IN  IF r.found THEN S # {} /\ r.start = Max(S) /\ r.name = NameOf(Max(S))
               ELSE S = {}
<1> DEFINE S == {s \in Starts : s <= a}
<1>1. /\ Shaped(symtab) /\ Sorted(symtab)
      /\ \A x \in 1..Len(symtab) : /\ symtab[x].start \in Starts
                                   /\ symtab[x].name = NameOf(symtab[x].start)
      /\ \A b \in Starts : \E x \in 1..Len(symtab) : symtab[x].start = b
  BY TableComplete
<1>2. PICK c : c = Covering(symtab, a)
  OBVIOUS
<1>3. /\ c = 0 => \A x \in 1..Len(symtab) : a < symtab[x].start
      /\ c # 0 => /\ c \in 1..Len(symtab) /\ symtab[c].start <= a
                  /\ \A x \in 1..Len(symtab) : symtab[x].start <= a => x <= c
  BY <1>1, <1>2, CoveringIs
<1>4. Len(symtab) \in Nat /\ \A x \in 1..Len(symtab) : symtab[x].start \in Nat
  BY <1>1 DEF Shaped, IsList
<1>5. Starts \subseteq Nat
  BY <1>1, <1>4
<1>6. CASE c = 0
  <2>1. r.found = FALSE
    BY <1>2, <1>6 DEF mut_exec_symtab_lookup_addr, NoFunction
  <2>2. S = {}
    BY <1>1, <1>3, <1>4, <1>6
  <2> QED
    BY <2>1, <2>2
<1>7. CASE c # 0
  <2>1. r.found = TRUE /\ r.start = symtab[c].start /\ r.name = symtab[c].name
    BY <1>2, <1>7 DEF mut_exec_symtab_lookup_addr
  <2>2. symtab[c].start \in S
    BY <1>1, <1>3, <1>7
  <2>3. ASSUME NEW s \in S PROVE s <= symtab[c].start
    <3>1. PICK x \in 1..Len(symtab) : symtab[x].start = s
      BY <1>1
    <3>2. x <= c
      BY <1>3, <1>7, <3>1
    <3> QED
      BY <1>1, <1>3, <1>4, <1>7, <3>1, <3>2 DEF Sorted
  <2>4. S \in SUBSET Nat
    BY <1>5
  <2>5. Max(S) = symtab[c].start
    <3> HIDE DEF S
    <3> QED
      BY <2>2, <2>3, <2>4, MaxIs
  <2>6. symtab[c].name = NameOf(symtab[c].start)
    BY <1>1, <1>3, <1>7
  <2> QED
    BY <2>1, <2>2, <2>5, <2>6
<1> QED
  BY <1>6, <1>7

\* What a lookup of a name answers.
LEMMA LookupNameIs ==
    ASSUME Located, Tabled, pc \in Told, NEW g
    PROVE  LET S == {a \in Starts : NameOf(a) = g}
           IN  mut_exec_symtab_lookup_name(symtab, g) = IF S = {} THEN 0 ELSE Min(S)
<1> DEFINE S == {a \in Starts : NameOf(a) = g}
           I == {x \in 1..Len(symtab) : symtab[x].name = g}
<1>1. /\ Shaped(symtab) /\ Sorted(symtab)
      /\ \A x \in 1..Len(symtab) : /\ symtab[x].start \in Starts
                                   /\ symtab[x].name = NameOf(symtab[x].start)
      /\ \A b \in Starts : \E x \in 1..Len(symtab) : symtab[x].start = b
  BY TableComplete
<1>2. Len(symtab) \in Nat /\ \A x \in 1..Len(symtab) : symtab[x].start \in Nat
  BY <1>1 DEF Shaped, IsList
<1>3. mut_exec_symtab_lookup_name(symtab, g)
        = LET k == IF I # {} THEN Min(I) ELSE 0 IN IF k = 0 THEN 0 ELSE symtab[k].start
  BY DEF mut_exec_symtab_lookup_name, SelectInSeq
<1>4. S \in SUBSET Nat
  BY <1>1, <1>2
<1>5. CASE I = {}
  <2>1. S = {}
    BY <1>1, <1>5
  <2> QED
    BY <1>3, <1>5, <2>1
<1>6. CASE I # {}
  <2>1. PICK m : m = Min(I)
    OBVIOUS
  <2>2. I \in SUBSET Nat
    BY <1>2
  <2>3. m \in I /\ \A x \in I : m <= x
    <3> HIDE DEF I
    <3> QED
      BY <1>6, <2>1, <2>2, MinExists
  <2>4. mut_exec_symtab_lookup_name(symtab, g) = symtab[m].start
    BY <1>3, <1>6, <2>1, <2>3
  <2>5. symtab[m].start \in S
    BY <1>1, <2>3
  <2>6. ASSUME NEW a \in S PROVE symtab[m].start <= a
    <3>1. PICK x \in 1..Len(symtab) : symtab[x].start = a
      BY <1>1
    <3>2. x \in I
      BY <1>1, <2>6, <3>1
    <3>3. m <= x
      BY <2>3, <3>2
    <3> QED
      BY <1>1, <1>2, <2>3, <3>1, <3>3 DEF Sorted
  <2>7. Min(S) = symtab[m].start
    <3> HIDE DEF S
    <3> QED
      BY <1>4, <2>5, <2>6, MinIs
  <2> QED
    BY <2>4, <2>5, <2>7
<1> QED
  BY <1>5, <1>6

\* Nothing is asked before the executable is open.
Answered == (pc \notin {"managed", "closed"} => reply.asked = 0) /\ AddrNamed /\ FunctionsFound

LEMMA InitAnswered == Init => Answered
BY DEF Init, Answered, AddrNamed, FunctionsFound

LEMMA AnsweredStep ==
    ASSUME Located, Loops, Tabled, Answered, [Next]_vars
    PROVE  Answered'
<1>1. file' = file
  BY ReaderKept
<1>2. Starts' = Starts /\ \A a : NameOf(a)' = NameOf(a)
  BY <1>1, SameFile
<1>3. CASE \E a \in Addrs : mut_exec_addr_name(a)
  <2>1. PICK a \in Addrs : mut_exec_addr_name(a)
    BY <1>3
  <2>2. PICK known \in HasFullSymbols :
           reply' = [asked |-> a, answer |-> IF known THEN mut_exec_symtab_lookup_addr(symtab, a)
                                             ELSE NoFunction]
    BY <2>1 DEF mut_exec_addr_name
  <2>3. /\ pc = "managed" /\ pc' = "managed" /\ addrs' = addrs /\ full' = full /\ pc \in Told
    BY <2>1 DEF mut_exec_addr_name, execVars, Told
  <2>4. a \in Nat
    BY FilesAssumption
  <2> DEFINE S == {s \in Starts : s <= a}
  <2>5. known \/ full = "unset"
    BY <2>2 DEF HasFullSymbols, Loops
  <2>6. IF reply'.answer.found
        THEN S # {} /\ reply'.answer.start = Max(S) /\ reply'.answer.name = NameOf(Max(S))
        ELSE S = {} \/ full = "unset"
    <3>1. PICK r : r = mut_exec_symtab_lookup_addr(symtab, a)
      OBVIOUS
    <3>2. IF r.found THEN S # {} /\ r.start = Max(S) /\ r.name = NameOf(Max(S)) ELSE S = {}
      BY <2>3, <2>4, <3>1, LookupAddrIs
    <3>3. reply'.answer = IF known THEN r ELSE NoFunction
      BY <2>2, <3>1
    <3>4. NoFunction.found = FALSE
      BY DEF NoFunction
    <3> QED
      BY <2>5, <3>2, <3>3, <3>4
  <2>7. reply'.asked = a
    BY <2>2
  <2>8. AddrNamed'
    <3>1. {s \in Starts' : s <= reply'.asked} = S
      BY <1>2, <2>7
    <3> HIDE DEF S
    <3> QED
      BY <1>2, <2>3, <2>6, <3>1 DEF AddrNamed
  <2>9. FunctionsFound'
    <3>1. FunctionsFound
      BY DEF Answered
    <3> QED
      BY <1>2, <2>3, <3>1 DEF FunctionsFound
  <2> QED
    BY <2>3, <2>8, <2>9 DEF Answered
<1>4. CASE mut_exec_functions_addr
  <2>1. /\ pc = "backtrace" /\ pc' = "managed" /\ reply' = reply /\ pc \in Told
        /\ addrs' = [g \in Functions |-> mut_exec_symtab_lookup_name(symtab, g)]
    BY <1>4 DEF mut_exec_functions_addr, Told
  <2>2. FunctionsFound'
    <3>1. ASSUME NEW g \in Functions
          PROVE  LET S == {a \in Starts : NameOf(a) = g}
                 IN  addrs'[g] = IF S = {} THEN 0 ELSE Min(S)
      BY <2>1, LookupNameIs
    <3> QED
      BY <1>2, <3>1 DEF FunctionsFound
  <2>3. reply'.asked = 0
    BY <2>1 DEF Answered
  <2> QED
    BY <2>2, <2>3 DEF Answered, AddrNamed
<1>5. CASE reply' = reply /\ reply.asked = 0 /\ pc' # "managed"
  BY <1>5 DEF Answered, AddrNamed, FunctionsFound
<1>6. CASE reply' = reply /\ addrs' = addrs /\ full' = full /\ pc \in {"managed", "closed"}
           /\ pc' \in {pc, "closed"}
  <2>1. AddrNamed'
    <3>1. AddrNamed
      BY DEF Answered
    <3> QED
      BY <1>2, <1>6, <3>1 DEF AddrNamed
  <2>2. FunctionsFound'
    <3>1. FunctionsFound
      BY DEF Answered
    <3> QED
      BY <1>2, <1>6, <3>1 DEF FunctionsFound
  <2> QED
    BY <1>6, <2>1, <2>2 DEF Answered
<1>7. CASE UNCHANGED vars
  <2>1. reply' = reply /\ addrs' = addrs /\ full' = full /\ pc' = pc
    BY <1>7 DEF vars, execVars, replyVars
  <2> QED
    BY <1>2, <1>5, <1>6, <2>1 DEF Answered
<1>8. CASE mut_exec_close
  <2>1. reply' = reply /\ addrs' = addrs /\ full' = full /\ pc \in {"opened", "managed"}
        /\ pc' = "closed"
    BY <1>8 DEF mut_exec_close, replyVars, execVars
  <2> QED
    BY <1>5, <1>6, <2>1 DEF Answered
<1>9. CASE \/ mut_exec_fopen \/ mut_exec_check \/ mut_exec_shstrtab_open
           \/ mut_exec_locate_start \/ mut_exec_locate_sections \/ mut_exec_sections_located
           \/ mut_exec_stabstr_open \/ mut_exec_extract_stabs \/ mut_exec_extract_debug_info
           \/ mut_exec_debug_info_extracted \/ mut_exec_open
           \/ mut_exec_has_backtrace_symbols
           \/ \E T \in {"symtab", "dynsym"} :
                \/ mut_exec_strtab_open(T) \/ mut_exec_read_symbols(T)
                \/ mut_exec_extract_symbol(T) \/ mut_exec_symbols_extracted(T)
  <2>1. reply' = reply /\ pc \notin {"managed", "closed"} /\ pc' # "managed"
    BY <1>9 DEF mut_exec_fopen, mut_exec_check, mut_exec_shstrtab_open, mut_exec_locate_start,
       mut_exec_locate_sections, mut_exec_sections_located, mut_exec_stabstr_open,
       mut_exec_extract_stabs, mut_exec_extract_debug_info, mut_exec_debug_info_extracted,
       mut_exec_open, mut_exec_has_backtrace_symbols, mut_exec_strtab_open,
       mut_exec_read_symbols, mut_exec_extract_symbol, mut_exec_symbols_extracted,
       replyVars, NameOutOfRange, Fails, Strings, AfterSymtab, AfterDynsym
  <2> QED
    BY <1>5, <2>1 DEF Answered
<1> QED
  BY <1>3, <1>4, <1>7, <1>8, <1>9 DEF Next

\* The reader's whole invariant.
LEMMA AnsweredHolds == Spec => [](Located /\ Tabled /\ Answered)
<1>1. Init => Loops
  BY InitLoops
<1> QED
  BY <1>1, LedgerHolds, InitLocated, LocatedStep, LoopsStep, InitTabled, TabledStep,
     InitAnswered, AnsweredStep, PTL DEF Spec

\* mut_exec_addr_name answers every address with the function that starts closest
\* before it, by the first of the names the tables have for it.
THEOREM AddrNamedHolds == Spec => []AddrNamed
<1>1. Answered => AddrNamed
  BY DEF Answered
<1> QED
  BY <1>1, AnsweredHolds, PTL

\* mut_exec_functions_addr gives every name the lowest address whose first name
\* it is, and 0 to the names of no function.
THEOREM FunctionsFoundHolds == Spec => []FunctionsFound
<1>1. Answered => FunctionsFound
  BY DEF Answered
<1> QED
  BY <1>1, AnsweredHolds, PTL

-----------------------------------------------------------------------------
(* the lines *)

\* The lines of the entries L: sorted, and the first of an address is the first
\* entry of that address.
LinesAre(ls, L) ==
    /\ IsList(ls) /\ \A k \in 1..Len(ls) : ls[k].addr \in Nat
    /\ \A k, m \in 1..Len(ls) : k < m => ls[k].addr <= ls[m].addr
    /\ \A k \in 1..Len(ls) :
         (\A m \in 1..Len(ls) : m < k => ls[m].addr < ls[k].addr)
           => \E j \in L : /\ LineAddr(j) = ls[k].addr /\ Stabs[j].line = ls[k].line
                           /\ \A q \in L : LineAddr(q) = LineAddr(j) => j <= q
    /\ \A j \in L : \E k \in 1..Len(ls) : ls[k].addr = LineAddr(j)

\* What a function of the table keeps of the entries L.
Attributed(e, L) ==
    /\ e.file = IF L = {} THEN UnsetName ELSE FileOf(Max(L))
    /\ LinesAre(e.lines, L)

\* The entries that were read.
ReadStabs ==
    IF pc \in {"fclose", "opened", "backtrace", "managed"} THEN 1..Len(Stabs)
    ELSE IF pc = "stabs" /\ i > 0 THEN 1..i - 1 ELSE {}

Lined ==
    pc \in Late =>
       \A x \in 1..Len(symtab) :
          Attributed(symtab[x], LinesOf(symtab[x].start) \cap ReadStabs)

\* Where a line belongs: after those of the same address.
LEMMA LinePlace ==
    ASSUME NEW ls, IsList(ls), \A k \in 1..Len(ls) : ls[k].addr \in Nat, NEW a \in Nat, NEW l
    PROVE  \E p \in 1..Len(ls) + 1 :
              /\ mut_exec_symtab_add_xxx(ls, a, l) = InsertAt(ls, p, [addr |-> a, line |-> l])
              /\ \A k \in 1..Len(ls) : k < p => ls[k].addr <= a
              /\ p <= Len(ls) => a < ls[p].addr
<1> DEFINE I == {k \in 1..Len(ls) : a < ls[k].addr}
<1>1. mut_exec_symtab_add_xxx(ls, a, l)
        = LET m == IF I # {} THEN Min(I) ELSE 0
          IN  InsertAt(ls, IF m = 0 THEN Len(ls) + 1 ELSE m, [addr |-> a, line |-> l])
  BY DEF mut_exec_symtab_add_xxx, SelectInSeq
<1>2. Len(ls) \in Nat
  BY DEF IsList
<1>3. CASE I = {}
  <2>1. mut_exec_symtab_add_xxx(ls, a, l) = InsertAt(ls, Len(ls) + 1, [addr |-> a, line |-> l])
    BY <1>1, <1>3
  <2>2. Len(ls) + 1 \in 1..Len(ls) + 1 /\ \A k \in 1..Len(ls) : ls[k].addr <= a
    BY <1>2, <1>3
  <2> QED
    BY <1>2, <2>1, <2>2
<1>4. CASE I # {}
  <2>1. PICK m : m = Min(I)
    OBVIOUS
  <2>2. I \in SUBSET Nat
    BY <1>2
  <2>3. m \in I /\ \A k \in I : m <= k
    <3> HIDE DEF I
    <3> QED
      BY <1>4, <2>1, <2>2, MinExists
  <2>4. mut_exec_symtab_add_xxx(ls, a, l) = InsertAt(ls, m, [addr |-> a, line |-> l])
    BY <1>1, <1>4, <2>1, <2>3
  <2>5. ASSUME NEW k \in 1..Len(ls), k < m PROVE ls[k].addr <= a
    BY <1>2, <2>3, <2>5
  <2>6. m \in 1..Len(ls) + 1 /\ a < ls[m].addr
    BY <1>2, <2>3
  <2> QED
    BY <2>4, <2>5, <2>6
<1> QED
  BY <1>3, <1>4

\* An entry j later than those of L.
LEMMA LineAdded ==
    ASSUME NEW ls, NEW L \in SUBSET Nat, LinesAre(ls, L), NEW j \in Nat, \A q \in L : q < j,
           LineAddr(j) \in Nat
    PROVE  LinesAre(mut_exec_symtab_add_xxx(ls, LineAddr(j), Stabs[j].line), L \cup {j})
<1>1. PICK a, l : a = LineAddr(j) /\ l = Stabs[j].line
  OBVIOUS
<1>2. /\ IsList(ls) /\ \A k \in 1..Len(ls) : ls[k].addr \in Nat
      /\ Len(ls) \in Nat /\ a \in Nat
  BY <1>1 DEF LinesAre, IsList
<1>3. PICK p \in 1..Len(ls) + 1 :
              /\ mut_exec_symtab_add_xxx(ls, a, l) = InsertAt(ls, p, [addr |-> a, line |-> l])
              /\ \A k \in 1..Len(ls) : k < p => ls[k].addr <= a
              /\ p <= Len(ls) => a < ls[p].addr
  BY <1>2, LinePlace
<1>4. PICK r, e : r = InsertAt(ls, p, e) /\ e = [addr |-> a, line |-> l]
  OBVIOUS
<1>5. /\ IsList(r) /\ Len(r) = Len(ls) + 1
      /\ \A x \in 1..Len(ls) + 1 : r[x] = IF x < p THEN ls[x] ELSE IF x = p THEN e ELSE ls[x - 1]
  BY <1>2, <1>4, InsertIs
<1>6. \A k, m \in 1..Len(ls) : k < m => ls[k].addr <= ls[m].addr
  BY DEF LinesAre
<1>7. \A k \in 1..Len(ls) : k >= p => a < ls[k].addr
  BY <1>2, <1>3, <1>6
<1>8. e.addr = a /\ e.line = l
  BY <1>4
<1>9. \A y \in 1..Len(r) :
        \/ y < p /\ y \in 1..Len(ls) /\ r[y] = ls[y] /\ ls[y].addr <= a
        \/ y = p /\ r[y] = e
        \/ y > p /\ y - 1 \in 1..Len(ls) /\ r[y] = ls[y - 1] /\ a < ls[y - 1].addr
  BY <1>2, <1>3, <1>5, <1>7
<1>10. \A y \in 1..Len(r) : r[y].addr \in Nat
  BY <1>2, <1>8, <1>9
<1>11. ASSUME NEW x \in 1..Len(r), NEW y \in 1..Len(r), x < y
       PROVE  r[x].addr <= r[y].addr
  <2>1. CASE x < p /\ y < p
    BY <1>6, <1>9, <1>11, <2>1
  <2>2. CASE x <= p /\ y >= p
    <3>1. r[x].addr <= a
      BY <1>2, <1>8, <1>9, <2>2
    <3>2. a <= r[y].addr
      <4>1. CASE y = p
        <5>1. r[y] = e
          BY <1>3, <1>9, <4>1
        <5> QED
          BY <1>2, <1>8, <5>1
      <4>2. CASE y > p
        <5>1. y - 1 \in 1..Len(ls) /\ r[y] = ls[y - 1] /\ a < ls[y - 1].addr
          <6>1. ~(y < p) /\ y # p /\ y \in 1..Len(r)
            BY <1>2, <1>3, <1>5, <1>11, <4>2
          <6> QED
            BY ONLY <1>9, <6>1
        <5> QED
          BY <1>2, <5>1
      <4> QED
        <5>1. y = p \/ y > p
          BY <1>2, <1>3, <1>5, <1>11, <2>2
        <5> QED
          BY ONLY <4>1, <4>2, <5>1
    <3> QED
      BY <1>2, <1>10, <3>1, <3>2, SMTT(30)
  <2>3. CASE x > p
    <3>1. x - 1 \in 1..Len(ls) /\ r[x] = ls[x - 1]
      BY <1>9, <1>3, <2>3, SMTT(30)
    <3>2. y > p
      BY <1>3, <1>5, <1>2, <1>11, <2>3
    <3>3. y - 1 \in 1..Len(ls) /\ r[y] = ls[y - 1]
      BY <1>9, <1>3, <3>2
    <3>4. x - 1 < y - 1
      BY <1>5, <1>2, <1>11
    <3> QED
      BY <1>6, <3>1, <3>3, <3>4
  <2> QED
    BY <1>2, <1>3, <1>5, <1>11, <2>1, <2>2, <2>3
<1>12. ASSUME NEW y \in 1..Len(r), \A m \in 1..Len(r) : m < y => r[m].addr < r[y].addr
       PROVE  \E x \in L \cup {j} :
                /\ LineAddr(x) = r[y].addr /\ Stabs[x].line = r[y].line
                /\ \A q \in L \cup {j} : LineAddr(q) = LineAddr(x) => x <= q
  <2>1. \A k \in 1..Len(ls) :
          (\A m \in 1..Len(ls) : m < k => ls[m].addr < ls[k].addr)
            => \E x \in L : /\ LineAddr(x) = ls[k].addr /\ Stabs[x].line = ls[k].line
                            /\ \A q \in L : LineAddr(q) = LineAddr(x) => x <= q
    BY DEF LinesAre
  <2>2. CASE y = p
    <3>1. r[y].addr = a /\ r[y].line = l
      BY <1>5, <1>8, <2>2, <1>12, <1>2
    <3>2. ASSUME NEW q \in L, LineAddr(q) = a PROVE FALSE
      <4>1. PICK k \in 1..Len(ls) : ls[k].addr = LineAddr(q)
        BY DEF LinesAre
      <4>2. k < p
        BY <1>2, <1>3, <1>7, <3>2, <4>1
      <4>3. k \in 1..Len(r) /\ r[k] = ls[k]
        BY <1>2, <1>5, <4>2
      <4>4. r[k].addr < r[y].addr
        BY <1>12, <2>2, <4>2, <4>3
      <4> QED
        BY <1>2, <3>1, <3>2, <4>1, <4>3, <4>4
    <3>3. LineAddr(j) = r[y].addr /\ Stabs[j].line = r[y].line
      BY ONLY <1>1, <3>1
    <3>4. ASSUME NEW q \in L \cup {j}, LineAddr(q) = LineAddr(j) PROVE j <= q
      BY <1>1, <3>2, <3>4
    <3> QED
      BY <3>3, <3>4
  <2>3. CASE y < p
    <3>1. y \in 1..Len(ls) /\ r[y] = ls[y]
      BY <1>9, <2>3, <1>3
    <3>2. ASSUME NEW m \in 1..Len(ls), m < y PROVE ls[m].addr < ls[y].addr
      <4>1. m \in 1..Len(r) /\ r[m] = ls[m]
        BY <1>2, <1>3, <1>5, <2>3, <3>2
      <4> QED
        BY <1>12, <3>1, <3>2, <4>1
    <3>3. PICK x \in L : /\ LineAddr(x) = ls[y].addr /\ Stabs[x].line = ls[y].line
                         /\ \A q \in L : LineAddr(q) = LineAddr(x) => x <= q
      BY <2>1, <3>1, <3>2
    <3>4. x <= j
      <4>1. x \in Nat /\ x < j
        OBVIOUS
      <4> QED
        BY <4>1
    <3> QED
      BY <3>1, <3>3, <3>4
  <2>4. CASE y > p
    <3>1. y - 1 \in 1..Len(ls) /\ r[y] = ls[y - 1] /\ a < ls[y - 1].addr
      BY <1>9, <2>4, <1>3
    <3>2. ASSUME NEW m \in 1..Len(ls), m < y - 1 PROVE ls[m].addr < ls[y - 1].addr
      <4>1. CASE m < p
        <5>1. m \in 1..Len(r) /\ r[m] = ls[m] /\ m < y
          BY <1>2, <1>5, <3>2, <4>1
        <5> QED
          BY <1>12, <3>1, <5>1
      <4>2. CASE m >= p
        <5>1. m + 1 \in 1..Len(r) /\ r[m + 1] = ls[m] /\ m + 1 < y
          BY <1>2, <1>3, <1>5, <3>2, <4>2
        <5> QED
          BY <1>12, <3>1, <5>1
      <4> QED
        BY <1>3, <4>1, <4>2
    <3>3. PICK x \in L : /\ LineAddr(x) = ls[y - 1].addr /\ Stabs[x].line = ls[y - 1].line
                         /\ \A q \in L : LineAddr(q) = LineAddr(x) => x <= q
      BY <2>1, <3>1, <3>2
    <3>4. LineAddr(j) # LineAddr(x)
      BY <1>1, <1>2, <3>1, <3>3
    <3> QED
      BY <3>1, <3>3, <3>4
  <2>5. y = p \/ y < p \/ y > p
    BY <1>2, <1>3, <1>5
  <2> QED
    BY ONLY <2>2, <2>3, <2>4, <2>5
<1>13. ASSUME NEW x \in L \cup {j} PROVE \E y \in 1..Len(r) : r[y].addr = LineAddr(x)
  <2>1. CASE x = j
    <3>1. p \in 1..Len(r) /\ r[p] = e
      BY <1>2, <1>3, <1>5
    <3> QED
      BY <1>1, <1>8, <2>1, <3>1
  <2>2. CASE x \in L
    <3>1. PICK k \in 1..Len(ls) : ls[k].addr = LineAddr(x)
      BY <2>2 DEF LinesAre
    <3>2. CASE k < p
      <4>1. k \in 1..Len(r) /\ r[k] = ls[k]
        BY <1>2, <1>5, <3>2
      <4> QED
        BY <3>1, <4>1
    <3>3. CASE k >= p
      <4>1. k + 1 \in 1..Len(r) /\ r[k + 1] = ls[k]
        BY <1>2, <1>3, <1>5, <3>3
      <4> QED
        BY <3>1, <4>1
    <3> QED
      BY <1>3, <3>2, <3>3
  <2> QED
    BY <2>1, <2>2
<1>14. LinesAre(r, L \cup {j})
  BY <1>5, <1>10, <1>11, <1>12, <1>13 DEF LinesAre
<1> QED
  BY <1>1, <1>3, <1>4, <1>14

\* The stabs of the file do not change.
LEMMA SameStabs ==
    ASSUME file' = file
    PROVE  /\ Stabs' = Stabs
           /\ \A j : /\ BaseOf(j)' = BaseOf(j) /\ LineAddr(j)' = LineAddr(j)
                     /\ FileOf(j)' = FileOf(j)
           /\ \A s : LinesOf(s)' = LinesOf(s)
<1>1. Stabs' = Stabs
  BY SameFile DEF Stabs
<1>2. \A j, type : StabsBefore(j, type)' = StabsBefore(j, type)
  BY <1>1 DEF StabsBefore
<1>3. \A j : BaseOf(j)' = BaseOf(j)
  BY <1>1, <1>2 DEF BaseOf
<1>4. \A j : LineAddr(j)' = LineAddr(j)
  BY <1>1, <1>3 DEF LineAddr
<1>5. ASSUME NEW j PROVE FileOf(j)' = FileOf(j)
  <2> DEFINE K == {k \in StabsBefore(j, "SO") :
                     /\ Stabs[k].str \in DOMAIN file.stabstr
                     /\ ~file.stabstr[Stabs[k].str]}
  <2>1. K' = K
    BY <1>1, <1>2
  <2>2. /\ FileOf(j) = IF Cardinality(K) % 2 = 0 THEN NullName ELSE Stabs[Max(K)].str
        /\ FileOf(j)' = IF Cardinality(K') % 2 = 0 THEN NullName ELSE Stabs'[Max(K')].str
    BY DEF FileOf
  <2> HIDE DEF K
  <2> QED
    BY <1>1, <2>1, <2>2
<1>6. ASSUME NEW s PROVE LinesOf(s)' = LinesOf(s)
  BY <1>1, <1>3, <1>4, SameFile DEF LinesOf
<1> QED
  BY <1>1, <1>3, <1>4, <1>5, <1>6

\* The table after a step.
LEMMA LinedKept ==
    ASSUME file' = file, NEW R, pc' \in Late => ReadStabs' = R,
           pc' \in Late => \A x \in 1..Len(symtab') :
                              Attributed(symtab'[x], LinesOf(symtab'[x].start) \cap R)
    PROVE  pc' \in Late => \A x \in 1..Len(symtab') :
              (Attributed(symtab[x], LinesOf(symtab[x].start) \cap ReadStabs))'
<1> SUFFICES ASSUME pc' \in Late, NEW x \in 1..Len(symtab')
             PROVE  (Attributed(symtab[x], LinesOf(symtab[x].start) \cap ReadStabs))'
  OBVIOUS
<1>1. /\ Stabs' = Stabs /\ \A j : LineAddr(j)' = LineAddr(j) /\ FileOf(j)' = FileOf(j)
      /\ \A s : LinesOf(s)' = LinesOf(s)
  BY SameStabs
<1>2. PICK e, L : e = symtab'[x] /\ L = LinesOf(e.start) \cap R
  OBVIOUS
<1>3. Attributed(e, L)
  BY <1>2
<1>4. L = (LinesOf(symtab[x].start) \cap ReadStabs)'
  BY <1>1, <1>2
<1>5. PICK ls : ls = e.lines
  OBVIOUS
<1>6. LinesAre(ls, L)
  BY <1>3, <1>5 DEF Attributed
<1>7. LinesAre(ls, L)'
  <2>1. /\ IsList(ls) /\ \A k \in 1..Len(ls) : ls[k].addr \in Nat
        /\ \A k, m \in 1..Len(ls) : k < m => ls[k].addr <= ls[m].addr
    BY <1>6 DEF LinesAre
  <2>2. ASSUME NEW k \in 1..Len(ls), \A m \in 1..Len(ls) : m < k => ls[m].addr < ls[k].addr
        PROVE  \E j \in L : /\ LineAddr(j)' = ls[k].addr /\ Stabs'[j].line = ls[k].line
                            /\ \A q \in L : LineAddr(q)' = LineAddr(j)' => j <= q
    <3>1. PICK j \in L : /\ LineAddr(j) = ls[k].addr /\ Stabs[j].line = ls[k].line
                         /\ \A q \in L : LineAddr(q) = LineAddr(j) => j <= q
      BY <1>6, <2>2 DEF LinesAre
    <3> QED
      BY <1>1, <3>1
  <2>3. \A j \in L : \E k \in 1..Len(ls) : ls[k].addr = LineAddr(j)'
    BY <1>1, <1>6 DEF LinesAre
  <2> QED
    BY <2>1, <2>2, <2>3 DEF LinesAre
<1>8. Attributed(e, L)'
  <2>1. e.file = IF L = {} THEN UnsetName ELSE FileOf(Max(L))'
    BY <1>1, <1>3 DEF Attributed
  <2> QED
    BY <1>5, <1>7, <2>1 DEF Attributed
<1> QED
  BY <1>2, <1>4, <1>8

\* A new function has no lines yet.
LEMMA NewAttributed ==
    ASSUME NEW nm, NEW a, NEW o
    PROVE  Attributed(mut_exec_symtab_fun_open(nm, a, o), {})
<1>1. PICK e : e = mut_exec_symtab_fun_open(nm, a, o)
  OBVIOUS
<1>2. e.file = UnsetName /\ e.lines = <<>>
  BY <1>1 DEF mut_exec_symtab_fun_open
<1>3. IsList(<<>>) /\ Len(<<>>) = 0
  BY DEF IsList
<1>4. LinesAre(<<>>, {})
  BY <1>3 DEF LinesAre
<1> QED
  BY <1>1, <1>2, <1>4 DEF Attributed

\* The state of the loop over the stabs, and what it starts from.
Looping ==
    /\ pc = "stabs" /\ i > 0 => base = BaseOf(i) /\ fn = FileOf(i)
    /\ pc \in {"fopen", "header", "shstrtab", "locate", "sections", "strtab", "symtab",
               "dynstr", "dynsym", "stabstr"} \/ (pc = "stabs" /\ i = 0)
         => base = 0 /\ fn = NullName

\* No entry comes before the first.
LEMMA FirstStab == BaseOf(1) = 0 /\ FileOf(1) = NullName
<1>1. \A type : StabsBefore(1, type) = {}
  BY DEF StabsBefore
<1>2. BaseOf(1) = 0
  BY <1>1 DEF BaseOf
<1>3. {k \in StabsBefore(1, "SO") :
                /\ Stabs[k].str \in DOMAIN file.stabstr
                /\ ~file.stabstr[Stabs[k].str]} = {}
  BY <1>1
<1>4. Cardinality({}) % 2 = 0
  BY FS_EmptySet
<1>5. FileOf(1) = NullName
  BY <1>3, <1>4 DEF FileOf
<1> QED
  BY <1>2, <1>5

LEMMA MaxExists ==
    ASSUME NEW S \in SUBSET Nat, S # {}, NEW b \in Nat, \A s \in S : s <= b
    PROVE  Max(S) \in S /\ \A k \in S : k <= Max(S)
<1> DEFINE D == {d \in 0..b : b - d \in S}
<1>1. D \in SUBSET Nat /\ D # {}
  <2>1. PICK s \in S : TRUE
    OBVIOUS
  <2>2. s \in Nat /\ s <= b /\ b - s \in 0..b /\ b - (b - s) = s
    BY <2>1
  <2>3. b - s \in D
    BY <2>1, <2>2
  <2>4. D \in SUBSET Nat
    OBVIOUS
  <2> HIDE DEF D
  <2> QED
    BY <2>3, <2>4
<1>2. PICK d \in D : \A k \in D : d <= k
  <2> HIDE DEF D
  <2> QED
    BY <1>1, Smallest
<1>3. b - d \in S /\ d \in 0..b
  BY <1>2
<1>4. ASSUME NEW k \in S PROVE k <= b - d
  <2>1. b - k \in 0..b /\ b - (b - k) = k
    OBVIOUS
  <2>2. b - k \in D
    BY <1>4, <2>1
  <2>3. d <= b - k
    <3> HIDE DEF D
    <3> QED
      BY <1>2, <2>2
  <2> QED
    BY <1>3, <2>1, <2>3
<1>5. PICK m : m = b - d
  OBVIOUS
<1>6. m \in S /\ \A k \in S : k <= m
  BY <1>3, <1>4, <1>5
<1>7. Max(S) = m
  BY <1>6, MaxIs
<1> QED
  BY <1>6, <1>7

\* The address and the file name after an entry more.
LEMMA NextBase ==
    ASSUME NEW j \in Nat \ {0}
    PROVE  BaseOf(j + 1) = IF Stabs[j].type = "FUN" THEN Stabs[j].value ELSE BaseOf(j)
<1> DEFINE B == StabsBefore(j, "FUN")
<1>1. StabsBefore(j + 1, "FUN") = IF Stabs[j].type = "FUN" THEN B \cup {j} ELSE B
  BY DEF StabsBefore
<1>2. B \in SUBSET Nat /\ \A k \in B : k <= j
  BY DEF StabsBefore
<1> HIDE DEF B
<1>3. B \cup {j} \in SUBSET Nat /\ Max(B \cup {j}) = j
  <2>1. B \cup {j} \in SUBSET Nat /\ j \in B \cup {j} /\ \A k \in B \cup {j} : k <= j
    BY <1>2
  <2> QED
    BY <2>1, MaxIs
<1>4. CASE Stabs[j].type = "FUN"
  <2>1. StabsBefore(j + 1, "FUN") = B \cup {j} /\ B \cup {j} # {}
    BY <1>1, <1>4
  <2> QED
    BY <1>3, <1>4, <2>1 DEF BaseOf
<1>5. CASE Stabs[j].type # "FUN"
  BY <1>1, <1>5 DEF BaseOf, B
<1> QED
  BY <1>4, <1>5

LEMMA NextFile ==
    ASSUME NEW j \in Nat \ {0}, \A k \in 1..j : Stabs[k].type = "SO" => Stabs[k].str \in Nat
    PROVE  FileOf(j + 1) = IF Stabs[j].type = "SO" /\ Stabs[j].str \in DOMAIN file.stabstr
                                 /\ ~file.stabstr[Stabs[j].str]
                           THEN IF FileOf(j) = NullName THEN Stabs[j].str ELSE NullName
                           ELSE FileOf(j)
<1> DEFINE Ends(k) == /\ Stabs[k].str \in DOMAIN file.stabstr
                      /\ ~file.stabstr[Stabs[k].str]
           K == {k \in StabsBefore(j, "SO") : Ends(k)}
           N == {k \in StabsBefore(j + 1, "SO") : Ends(k)}
<1>1. K \in SUBSET Nat /\ \A k \in K : k <= j - 1 /\ Stabs[k].str \in Nat
  BY DEF StabsBefore
<1>2. N = IF Stabs[j].type = "SO" /\ Ends(j) THEN K \cup {j} ELSE K
  BY DEF StabsBefore
<1>3. IsFiniteSet(K)
  <2>1. K \subseteq 1..j - 1
    BY DEF StabsBefore
  <2>2. IsFiniteSet(1..j - 1)
    BY FS_Interval
  <2> HIDE DEF K
  <2> QED
    BY <2>1, <2>2, FS_Subset
<1>4. /\ FileOf(j) = IF Cardinality(K) % 2 = 0 THEN NullName ELSE Stabs[Max(K)].str
      /\ FileOf(j + 1) = IF Cardinality(N) % 2 = 0 THEN NullName ELSE Stabs[Max(N)].str
  BY DEF FileOf
<1> DEFINE Closes == Stabs[j].type = "SO" /\ Ends(j)
<1>5. Closes => Stabs[j].str \in Nat
  OBVIOUS
<1>6. CASE ~Closes
  <2>1. N = K
    BY <1>2, <1>6
  <2> HIDE DEF N, K
  <2> QED
    BY <1>4, <1>6, <2>1
<1>7. CASE Closes
  <2>1. N = K \cup {j}
    BY <1>2, <1>7
  <2> HIDE DEF N, K, Ends
  <2>2. PICK c \in Nat : c = Cardinality(K)
    BY <1>3, FS_CardinalityType
  <2>3. j \notin K
    BY <1>1
  <2>4. Cardinality(N) = c + 1
    BY <1>3, <2>1, <2>2, <2>3, FS_AddElement
  <2>5. Max(N) = j
    <3>1. N \in SUBSET Nat /\ j \in N /\ \A k \in N : k <= j
      BY <1>1, <2>1
    <3> QED
      BY <3>1, MaxIs
  <2>6. (c + 1) % 2 = 0 <=> c % 2 # 0
    OBVIOUS
  <2>7. c % 2 # 0 => FileOf(j) # NullName
    <3>1. SUFFICES ASSUME c % 2 # 0 PROVE FileOf(j) # NullName
      OBVIOUS
    <3>2. K # {}
      <4>1. SUFFICES ASSUME K = {} PROVE FALSE
        OBVIOUS
      <4>2. c = 0
        BY <2>2, <4>1, FS_EmptySet
      <4> QED
        BY <3>1, <4>2
    <3>3. Max(K) \in K
      BY <1>1, <3>2, MaxExists
    <3>4. Stabs[Max(K)].str \in Nat
      BY <1>1, <3>3
    <3> QED
      BY <1>4, <2>2, <3>1, <3>4 DEF NullName
  <2>8. c % 2 = 0 => FileOf(j) = NullName
    BY <1>4, <2>2
  <2>9. FileOf(j + 1) = IF c % 2 = 0 THEN Stabs[j].str ELSE NullName
    BY <1>4, <2>4, <2>5, <2>6
  <2>10. FileOf(j + 1) = IF FileOf(j) = NullName THEN Stabs[j].str ELSE NullName
    BY <2>7, <2>8, <2>9
  <2> QED
    BY <1>7, <2>10 DEF Ends
<1> QED
  BY <1>6, <1>7

\* The stabs are those of the section that was found.
LEMMA StabsAre ==
    ASSUME Located, pc \in Late
    PROVE  /\ Len(Stabs) \in Nat
           /\ \A k \in 1..Len(Stabs) : /\ Stabs[k].type \in {"LINE", "FUN"} => Stabs[k].value \in Nat
                                       /\ Stabs[k].type = "SO" => Stabs[k].str \in Nat
           /\ Found("stab") => Header("stab").stabs = Stabs
           /\ ~Found("stab") => Stabs = <<>>
<1>1. /\ Found("stab") <=> Where("stab") # {}
      /\ Found("stab") => /\ Header("stab") = Section("stab") /\ IsSection(Section("stab"))
                          /\ Section("stab").kind = "stab"
  BY SectionsFound DEF Kinds
<1>2. CASE Found("stab")
  <2>1. Stabs = Section("stab").stabs /\ IsStabs(Stabs)
    BY <1>1, <1>2 DEF Stabs, IsSection
  <2> QED
    BY <1>1, <1>2, <2>1 DEF IsStabs
<1>3. CASE ~Found("stab")
  BY <1>1, <1>3 DEF Stabs
<1> QED
  BY <1>2, <1>3

LEMMA BaseIs ==
    ASSUME Located, pc \in Late, NEW j \in 1..Len(Stabs)
    PROVE  BaseOf(j) \in Nat /\ (Stabs[j].type = "LINE" => LineAddr(j) \in Nat)
<1> DEFINE B == StabsBefore(j, "FUN")
<1>1. Len(Stabs) \in Nat /\ j \in Nat \ {0}
  BY StabsAre
<1>2. B \in SUBSET Nat /\ \A k \in B : k <= j /\ k \in 1..Len(Stabs) /\ Stabs[k].type = "FUN"
  BY <1>1 DEF StabsBefore
<1>3. BaseOf(j) \in Nat
  <2>1. CASE B = {}
    BY <2>1 DEF BaseOf
  <2>2. CASE B # {}
    <3>1. Max(B) \in B
      <4> HIDE DEF B
      <4> QED
        BY <1>1, <1>2, <2>2, MaxExists
    <3>2. BaseOf(j) = Stabs[Max(B)].value
      BY <2>2 DEF BaseOf
    <3> HIDE DEF B
    <3> QED
      BY <1>2, <3>1, <3>2, StabsAre
  <2> QED
    BY <2>1, <2>2
<1>4. Stabs[j].type = "LINE" => Stabs[j].value \in Nat
  BY StabsAre
<1> QED
  BY <1>3, <1>4 DEF LineAddr

\* An entry is a line of the function that covers its address, and of no other.
LEMMA LineCovered ==
    ASSUME Located, Tabled, pc \in Told, NEW j \in 1..Len(Stabs), Stabs[j].type = "LINE",
           BaseOf(j) # 0, NEW x \in 1..Len(symtab)
    PROVE  j \in LinesOf(symtab[x].start) <=> x = Covering(symtab, LineAddr(j))
<1>1. /\ Shaped(symtab) /\ Sorted(symtab)
      /\ \A y \in 1..Len(symtab) : symtab[y].start \in Starts
      /\ \A b \in Starts : \E y \in 1..Len(symtab) : symtab[y].start = b
  BY TableComplete
<1>2. Len(symtab) \in Nat /\ \A y \in 1..Len(symtab) : symtab[y].start \in Nat
  BY <1>1 DEF Shaped, IsList
<1>3. LineAddr(j) \in Nat
  <2>1. pc \in Late
    BY DEF Told, Late
  <2> QED
    BY <2>1, BaseIs
<1>4. PICK a, c : a = LineAddr(j) /\ c = Covering(symtab, a)
  OBVIOUS
<1>5. /\ c = 0 => \A y \in 1..Len(symtab) : a < symtab[y].start
      /\ c # 0 => /\ c \in 1..Len(symtab) /\ symtab[c].start <= a
                  /\ \A y \in 1..Len(symtab) : symtab[y].start <= a => y <= c
  BY <1>1, <1>3, <1>4, CoveringIs
<1>6. j \in LinesOf(symtab[x].start)
        <=> symtab[x].start <= a /\ \A b \in Starts : b <= symtab[x].start \/ a < b
  BY <1>4 DEF LinesOf
<1>7. ASSUME x = c
      PROVE  symtab[x].start <= a /\ \A b \in Starts : b <= symtab[x].start \/ a < b
  <2>1. c # 0 /\ symtab[x].start <= a
    BY <1>2, <1>5, <1>7
  <2>2. ASSUME NEW b \in Starts, ~(a < b) PROVE b <= symtab[x].start
    <3>1. PICK y \in 1..Len(symtab) : symtab[y].start = b
      BY <1>1
    <3>2. y <= x
      BY <1>2, <1>3, <1>4, <1>5, <1>7, <2>1, <2>2, <3>1
    <3>3. y = x \/ y < x
      BY <1>2, <3>2
    <3> QED
      BY <1>1, <1>2, <3>1, <3>3 DEF Sorted
  <2> QED
    BY <2>1, <2>2
<1>8. ASSUME symtab[x].start <= a, \A b \in Starts : b <= symtab[x].start \/ a < b
      PROVE  x = c
  <2>1. c # 0
    BY <1>2, <1>3, <1>4, <1>5, <1>8
  <2>2. c \in 1..Len(symtab) /\ symtab[c].start <= a /\ x <= c
    BY <1>5, <1>8, <2>1
  <2>3. symtab[c].start <= symtab[x].start
    BY <1>1, <1>2, <1>3, <1>4, <1>8, <2>2
  <2>4. ~(x < c)
    <3>1. x < c => symtab[x].start < symtab[c].start
      BY <1>1, <2>2 DEF Sorted
    <3> QED
      BY <1>2, <2>2, <2>3, <3>1
  <2> QED
    BY <1>2, <2>2, <2>4
<1> QED
  BY <1>4, <1>6, <1>7, <1>8

\* An entry of a line is read, with a function open.
LEMMA LineLined ==
    ASSUME Located, Tabled, Lined, pc = "stabs", NEW j, j = i, j \in 1..Len(Stabs),
           Stabs[j].type = "LINE", base = BaseOf(j), fn = FileOf(j), base # 0,
           NEW t, t = mut_exec_symtab_add_range(symtab, base + Stabs[j].value, Stabs[j].line, fn)
    PROVE  \A x \in 1..Len(t) : Attributed(t[x], LinesOf(t[x].start) \cap (1..j))
<1>1. pc \in Told /\ pc \in Late /\ Len(Stabs) \in Nat /\ j \in Nat /\ j > 0
  <2>1. pc \in Told /\ pc \in Late
    BY DEF Told, Late
  <2> QED
    BY <2>1, StabsAre
<1>2. LineAddr(j) = base + Stabs[j].value /\ LineAddr(j) \in Nat
  BY <1>1, BaseIs DEF LineAddr
<1>3. Shaped(symtab) /\ Sorted(symtab)
  BY <1>1, TableComplete
<1>4. PICK a, l, c : a = LineAddr(j) /\ l = Stabs[j].line /\ c = Covering(symtab, a)
  OBVIOUS
<1>5. t = mut_exec_symtab_add_range(symtab, a, l, fn)
  BY <1>2, <1>4
<1>6. /\ Len(t) = Len(symtab)
      /\ \A x \in 1..Len(symtab) : t[x].start = symtab[x].start
      /\ \A x \in 1..Len(symtab) :
           IF x = c THEN t[x].file = fn /\ t[x].lines = mut_exec_symtab_add_xxx(symtab[x].lines, a, l)
           ELSE t[x] = symtab[x]
  BY <1>3, <1>4, <1>5, RangeIs
<1>7. ASSUME NEW x \in 1..Len(symtab)
      PROVE  Attributed(t[x], LinesOf(symtab[x].start) \cap (1..j))
  <2>1. PICK L, M : /\ L = LinesOf(symtab[x].start) \cap (1..j - 1)
                    /\ M = LinesOf(symtab[x].start) \cap (1..j)
    OBVIOUS
  <2>2. ReadStabs = 1..j - 1
    BY <1>1 DEF ReadStabs
  <2>3. Attributed(symtab[x], L)
    BY <1>1, <2>1, <2>2 DEF Lined
  <2>4. j \in LinesOf(symtab[x].start) <=> x = c
    BY <1>1, <1>4, LineCovered
  <2>5. M = IF x = c THEN L \cup {j} ELSE L
    BY <1>1, <2>1, <2>4
  <2>6. CASE x # c
    BY <1>6, <2>1, <2>3, <2>5, <2>6
  <2>7. CASE x = c
    <3>1. L \in SUBSET Nat /\ \A q \in L : q < j
      BY <1>1, <2>1
    <3>2. LinesAre(symtab[x].lines, L)
      BY <2>3 DEF Attributed
    <3>3. LinesAre(mut_exec_symtab_add_xxx(symtab[x].lines, LineAddr(j), Stabs[j].line), L \cup {j})
      BY <1>1, <1>2, <3>1, <3>2, LineAdded
    <3>4. LinesAre(t[x].lines, M)
      BY <1>4, <1>6, <2>5, <2>7, <3>3
    <3>5. Max(M) = j /\ M # {}
      <4>1. M \in SUBSET Nat /\ j \in M /\ \A q \in M : q <= j
        BY <1>1, <2>5, <2>7, <3>1
      <4> QED
        BY <4>1, MaxIs
    <3>6. t[x].file = FileOf(j)
      BY <1>6, <2>7
    <3>7. Attributed(t[x], M)
      BY <3>4, <3>5, <3>6 DEF Attributed
    <3> QED
      BY <2>1, <3>7
  <2> QED
    BY <2>6, <2>7
<1> QED
  BY <1>6, <1>7, ZenonT(40)

\* No string index is cut: the names are in the first HalfRange bytes of .stabstr.
ShortStrings ==
    \A x \in Files : \A j \in 1..Len(x.sections) :
        x.sections[j].kind = "stab" =>
            \A k \in 1..Len(x.sections[j].stabs) :
                x.sections[j].stabs[k].type = "SO" => x.sections[j].stabs[k].str < HalfRange

LEMMA StabStr ==
    ASSUME ShortStrings, Located, pc \in Late, Found("stab"), NEW k \in 1..Len(Stabs),
           Stabs[k].type = "SO"
    PROVE  mut_exec_stab_str(Stabs[k]) = Stabs[k].str
<1>1. Stabs[k].str \in Nat
  BY StabsAre
<1>2. Stabs = Header("stab").stabs /\ Section("stab").kind = "stab"
      /\ Header("stab") = Section("stab") /\ Where("stab") # {}
  BY StabsAre, SectionsFound DEF Kinds
<1>3. PICK m : m = Min(Where("stab"))
  OBVIOUS
<1>4. Where("stab") \in SUBSET Nat /\ Len(file.sections) \in Nat /\ file \in Files
  BY FileIs DEF Where, Located
<1>5. m \in 1..Len(file.sections) - 1 /\ file.sections[m].kind = "stab"
  <2>1. m \in Where("stab")
    BY <1>2, <1>3, <1>4, MinExists
  <2> QED
    BY <2>1 DEF Where
<1>6. Stabs = file.sections[m].stabs
  BY <1>2, <1>3 DEF Section
<1>7. Stabs[k].str < HalfRange
  <2>1. m \in 1..Len(file.sections)
    BY <1>4, <1>5
  <2> QED
    BY <1>4, <1>5, <1>6, <2>1 DEF ShortStrings
<1>8. HalfRange \in Nat \ {0}
  BY ExecAssumption
<1>9. \A s, h \in Nat : s < h => s % h = s
  OBVIOUS
<1> QED
  BY <1>1, <1>7, <1>8, <1>9 DEF mut_exec_stab_str

\* Entry i is read: what each kind of entry does.
LEMMA OneStab ==
    ASSUME ShortStrings, Located, Looping, IInv, mut_exec_extract_debug_info, pc' # "failed"
    PROVE  /\ pc = "stabs" /\ pc' = "stabs" /\ i \in 1..Len(Stabs) /\ i' = i + 1 /\ file' = file
           /\ base' = BaseOf(i + 1) /\ fn' = FileOf(i + 1)
           /\ symtab' = IF Stabs[i].type = "LINE" /\ base # 0
                        THEN mut_exec_symtab_add_range(symtab, base + Stabs[i].value,
                                                       Stabs[i].line, fn)
                        ELSE symtab
<1>1. pc = "stabs" /\ i > 0 /\ pc \in Late /\ i <= Len(Header("stab").stabs) /\ file' = file
  BY DEF mut_exec_extract_debug_info, Late
<1>2. Found("stab") /\ i \in Nat
  BY <1>1 DEF IInv, Control
<1>3. Header("stab").stabs = Stabs /\ Len(Stabs) \in Nat
  BY <1>1, <1>2, StabsAre
<1>4. PICK j : j = i
  OBVIOUS
<1>5. j \in 1..Len(Stabs) /\ j \in Nat \ {0}
  BY <1>1, <1>2, <1>3, <1>4
<1>6. base = BaseOf(j) /\ fn = FileOf(j)
  BY <1>1, <1>4 DEF Looping
<1>7. BaseOf(j + 1) = IF Stabs[j].type = "FUN" THEN Stabs[j].value ELSE BaseOf(j)
  BY <1>5, NextBase
<1>8. FileOf(j + 1) = IF Stabs[j].type = "SO" /\ Stabs[j].str \in DOMAIN file.stabstr
                                 /\ ~file.stabstr[Stabs[j].str]
                      THEN IF FileOf(j) = NullName THEN Stabs[j].str ELSE NullName
                      ELSE FileOf(j)
  <2>1. \A k \in 1..j : Stabs[k].type = "SO" => Stabs[k].str \in Nat
    BY <1>1, <1>3, <1>5, StabsAre
  <2> QED
    BY <1>5, <2>1, NextFile
<1>9. Stabs[j].type = "SO" => SourceName(Stabs[j]) = FileOf(j + 1)
  <2>1. SUFFICES ASSUME Stabs[j].type = "SO" PROVE SourceName(Stabs[j]) = FileOf(j + 1)
    OBVIOUS
  <2>2. mut_exec_stab_str(Stabs[j]) = Stabs[j].str
    BY <1>1, <1>2, <1>5, <2>1, StabStr
  <2> QED
    BY <1>6, <1>8, <2>1, <2>2 DEF SourceName, SourceFile
<1>10. PICK s : s = Stabs[j]
  OBVIOUS
<1>11. /\ pc' = pc /\ i' = i + 1
       /\ base' = IF s.type = "FUN" THEN s.value ELSE base
       /\ fn' = IF s.type = "SO" THEN SourceName(s) ELSE fn
       /\ symtab' = IF s.type = "LINE" /\ base # 0
                    THEN mut_exec_symtab_add_range(symtab, base + s.value, s.line, fn)
                    ELSE symtab
  <2>1. s = Header("stab").stabs[i]
    BY <1>3, <1>4, <1>10
  <2> QED
    BY <2>1 DEF mut_exec_extract_debug_info, Fails
<1>12. base' = BaseOf(j + 1)
  BY <1>6, <1>7, <1>10, <1>11
<1>13. fn' = FileOf(j + 1)
  BY <1>6, <1>8, <1>9, <1>10, <1>11
<1> QED
  BY <1>1, <1>4, <1>5, <1>10, <1>11, <1>12, <1>13

LEMMA InitLooping == Init => Looping
BY DEF Init, Looping

LEMMA LoopingStep ==
    ASSUME ShortStrings, IInv, Located, Looping, [Next]_vars
    PROVE  Looping'
<1>1. file' = file
  BY ReaderKept
<1>2. /\ \A j : BaseOf(j)' = BaseOf(j) /\ FileOf(j)' = FileOf(j)
      /\ BaseOf(1) = 0 /\ FileOf(1) = NullName
  BY <1>1, SameStabs, FirstStab
<1>3. CASE mut_exec_extract_debug_info
  <2>1. CASE pc' = "failed"
    BY <2>1 DEF Looping
  <2>2. CASE pc' # "failed"
    <3>1. /\ pc' = "stabs" /\ i' = i + 1 /\ i \in Nat
          /\ base' = BaseOf(i + 1) /\ fn' = FileOf(i + 1)
      BY <1>3, <2>2, OneStab DEF IInv, Control
    <3>2. PICK j : j = i + 1
      OBVIOUS
    <3>3. BaseOf(i)' = BaseOf(j) /\ FileOf(i)' = FileOf(j)
      <4>1. BaseOf(i)' = BaseOf(j)' /\ FileOf(i)' = FileOf(j)'
        BY <3>1, <3>2 DEF BaseOf, FileOf, StabsBefore
      <4> QED
        BY <1>2, <4>1
    <3> QED
      BY <3>1, <3>2, <3>3 DEF Looping
  <2> QED
    BY <2>1, <2>2
<1>4. CASE mut_exec_extract_stabs
  <2>1. CASE pc' = "failed"
    BY <2>1 DEF Looping
  <2>2. CASE pc' # "failed"
    <3>1. pc = "stabs" /\ i = 0 /\ i' = 1 /\ base' = base /\ fn' = fn
      BY <1>4, <2>2 DEF mut_exec_extract_stabs, Fails
    <3>2. BaseOf(i)' = BaseOf(1)' /\ FileOf(i)' = FileOf(1)'
      BY <3>1 DEF BaseOf, FileOf, StabsBefore
    <3> QED
      BY <1>2, <3>1, <3>2 DEF Looping
  <2> QED
    BY <2>1, <2>2
<1>5. CASE \/ mut_exec_fopen \/ mut_exec_check \/ mut_exec_shstrtab_open
           \/ mut_exec_locate_start \/ mut_exec_locate_sections \/ mut_exec_sections_located
           \/ mut_exec_stabstr_open
           \/ \E T \in {"symtab", "dynsym"} :
                \/ mut_exec_strtab_open(T) \/ mut_exec_read_symbols(T)
                \/ mut_exec_extract_symbol(T) \/ mut_exec_symbols_extracted(T)
  <2>1. /\ base' = base /\ fn' = fn
        /\ pc' = "stabs" => i' = 0
        /\ pc \in {"fopen", "header", "shstrtab", "locate", "sections", "strtab", "symtab",
                   "dynstr", "dynsym", "stabstr"}
    BY <1>5 DEF mut_exec_fopen, mut_exec_check, mut_exec_shstrtab_open, mut_exec_locate_start,
       mut_exec_locate_sections, mut_exec_sections_located, mut_exec_stabstr_open,
       mut_exec_strtab_open, mut_exec_read_symbols, mut_exec_extract_symbol,
       mut_exec_symbols_extracted, loopVars, NameOutOfRange, Fails, Strings, AfterSymtab, AfterDynsym,
       IInv, Control
  <2> QED
    BY <2>1 DEF Looping
<1>6. CASE \/ mut_exec_debug_info_extracted \/ mut_exec_open \/ mut_exec_has_backtrace_symbols
           \/ mut_exec_functions_addr \/ (\E a \in Addrs : mut_exec_addr_name(a))
           \/ mut_exec_close
  <2>1. pc' \in {"fclose", "opened", "backtrace", "managed", "closed"}
    BY <1>6 DEF mut_exec_debug_info_extracted, mut_exec_open, mut_exec_has_backtrace_symbols,
       mut_exec_functions_addr, mut_exec_addr_name, mut_exec_close
  <2> QED
    BY <2>1 DEF Looping
<1>7. CASE UNCHANGED vars
  <2>1. pc' = pc /\ i' = i /\ base' = base /\ fn' = fn
    BY <1>7 DEF vars, loopVars
  <2>2. BaseOf(i)' = BaseOf(i) /\ FileOf(i)' = FileOf(i)
    <3>1. PICK j : j = i
      OBVIOUS
    <3>2. BaseOf(i)' = BaseOf(j)' /\ FileOf(i)' = FileOf(j)'
      BY <2>1, <3>1 DEF BaseOf, FileOf, StabsBefore
    <3> QED
      BY <1>2, <3>1, <3>2
  <2> QED
    BY <2>1, <2>2 DEF Looping
<1> QED
  BY <1>3, <1>4, <1>5, <1>6, <1>7 DEF Next

\* An address of a function is a number.
LEMMA FunAddrIs ==
    ASSUME Located, pc \in Late, NEW T, NEW s, s.value \in Nat, f \in Nat
    PROVE  FunAddr(T, s, f) \in Nat
<1>1. Found("plt") => Header("plt").addr \in Nat /\ Header("plt").align \in Nat
  BY SectionsFound DEF IsSection, Kinds
<1>2. \A x, y \in Nat : x + f * y \in Nat
  OBVIOUS
<1> QED
  BY <1>1, <1>2 DEF FunAddr

\* The tables of symbols are read, and no line yet.
LEMMA SymbolsLined ==
    ASSUME IInv, Located, Loops, Tabled, Lined, NEW T \in {"symtab", "dynsym"},
           mut_exec_extract_symbol(T)
    PROVE  pc' \in Late => \A x \in 1..Len(symtab') : Attributed(symtab'[x], {})
<1> SUFFICES ASSUME pc' \in Late PROVE \A x \in 1..Len(symtab') : Attributed(symtab'[x], {})
  OBVIOUS
<1>1. pc = T /\ pc \in Late /\ i > 0 /\ i <= Len(Header(T).syms)
  BY DEF mut_exec_extract_symbol, Late
<1>2. ReadStabs = {}
  BY <1>1 DEF ReadStabs
<1>3. \A x \in 1..Len(symtab) : Attributed(symtab[x], {})
  BY <1>1, <1>2 DEF Lined
<1>4. PICK s, sa : s = Header(T).syms[i] /\ sa = FunAddr(T, s, f)
  OBVIOUS
<1>5. symtab' = symtab \/ symtab' = mut_exec_symtab_add_fun(symtab, Cut(s.name), sa, Strings[T])
  BY <1>4 DEF mut_exec_extract_symbol, Fails, Late
<1>6. CASE symtab' = symtab
  BY <1>3, <1>6
<1>7. CASE symtab' = mut_exec_symtab_add_fun(symtab, Cut(s.name), sa, Strings[T])
  <2>1. T \in Kinds /\ Found(T)
    BY <1>1 DEF Kinds, Located
  <2>2. Header(T) = Section(T) /\ IsSection(Section(T)) /\ Section(T).kind = T
    BY <1>1, <2>1, SectionsFound
  <2>3. IsSymbols(Header(T).syms)
    BY <2>2 DEF IsSection
  <2>4. s.value \in Nat
    <3>1. i \in 1..Len(Header(T).syms)
      BY <1>1, <2>3 DEF IsSymbols, IInv, Control
    <3> QED
      BY <1>4, <2>3, <3>1 DEF IsSymbols
  <2>5. sa \in Nat
    BY <1>1, <1>4, <2>4, FunAddrIs DEF Loops
  <2>6. PICK nm, o, t, r : /\ nm = Cut(s.name) /\ o = Strings[T] /\ t = symtab /\ r = symtab'
    OBVIOUS
  <2>7. Shaped(t) /\ Sorted(t) /\ r = mut_exec_symtab_add_fun(t, nm, sa, o)
    BY <1>1, <1>7, <2>6 DEF Tabled, Contents
  <2>8. Adds(t, r, sa, mut_exec_symtab_fun_open(nm, sa, o))
    BY ONLY <2>5, <2>7, AddIs
  <2>9. \A y \in 1..Len(r) : \/ \E x \in 1..Len(t) : r[y] = t[x]
                             \/ r[y] = mut_exec_symtab_fun_open(nm, sa, o)
    BY <2>8 DEF Adds
  <2> QED
    BY <1>3, <2>6, <2>9, NewAttributed
<1> QED
  BY <1>5, <1>6, <1>7

LEMMA InitLined == Init => Lined
BY DEF Init, Lined, Late

LEMMA LinedStep ==
    ASSUME ShortStrings, IInv, Located, Loops, Tabled, Looping, Lined, [Next]_vars
    PROVE  Lined'
<1>1. file' = file /\ i \in Nat
  BY ReaderKept DEF IInv, Control
<1> SUFFICES ASSUME pc' \in Late,
                    NEW R, R = ReadStabs'
             PROVE  \A x \in 1..Len(symtab') : Attributed(symtab'[x], LinesOf(symtab'[x].start) \cap R)
  BY <1>1, LinedKept DEF Lined
<1>2. CASE mut_exec_sections_located
  <2>1. symtab' = <<>>
    BY <1>2 DEF mut_exec_sections_located, Fails, Late, mut_exec_symtab_open
  <2> QED
    BY <2>1
\* the same table, and no line more
<1>3. ASSUME pc \in Late, symtab' = symtab,
             \A s : LinesOf(s) \cap R = LinesOf(s) \cap ReadStabs
      PROVE  \A x \in 1..Len(symtab') : Attributed(symtab'[x], LinesOf(symtab'[x].start) \cap R)
  BY <1>3 DEF Lined
<1>4. CASE \E T \in {"symtab", "dynsym"} :
             \/ mut_exec_strtab_open(T) \/ mut_exec_read_symbols(T)
             \/ mut_exec_extract_symbol(T) \/ mut_exec_symbols_extracted(T)
  <2>1. PICK T \in {"symtab", "dynsym"} :
             \/ mut_exec_strtab_open(T) \/ mut_exec_read_symbols(T)
             \/ mut_exec_extract_symbol(T) \/ mut_exec_symbols_extracted(T)
    BY <1>4
  <2>2. pc \in {T, Strings[T]} /\ pc \in Late
    BY <2>1 DEF mut_exec_strtab_open, mut_exec_read_symbols, mut_exec_extract_symbol,
       mut_exec_symbols_extracted, Strings, Late
  <2>3. ReadStabs = {}
    BY <2>2 DEF ReadStabs, Strings
  <2>4. R = {}
    <3>1. /\ pc' \in {T, Strings[T], "strtab", "dynstr", "stabstr", "fclose", "abort"}
          /\ pc' = "fclose" => ~Found("stab")
      BY <2>1 DEF mut_exec_strtab_open, mut_exec_read_symbols, mut_exec_extract_symbol,
         mut_exec_symbols_extracted, Strings, AfterSymtab, AfterDynsym, NameOutOfRange, Fails, Late
    <3>2. pc' = "fclose" => Stabs' = <<>>
      BY <1>1, <2>2, <3>1, StabsAre, SameStabs
    <3> QED
      BY <3>1, <3>2 DEF ReadStabs, Strings
  <2>5. CASE mut_exec_extract_symbol(T)
    BY <2>4, <2>5, SymbolsLined
  <2>6. CASE ~mut_exec_extract_symbol(T)
    <3>1. symtab' = symtab
      BY <2>1, <2>6 DEF mut_exec_strtab_open, mut_exec_read_symbols, mut_exec_symbols_extracted,
         execVars
    <3> QED
      BY <1>3, <2>2, <2>3, <2>4, <3>1
  <2> QED
    BY <2>5, <2>6
<1>5. CASE mut_exec_extract_debug_info
  <2>1. /\ pc = "stabs" /\ pc' = "stabs" /\ i \in 1..Len(Stabs) /\ i' = i + 1
        /\ symtab' = IF Stabs[i].type = "LINE" /\ base # 0
                     THEN mut_exec_symtab_add_range(symtab, base + Stabs[i].value,
                                                    Stabs[i].line, fn)
                     ELSE symtab
    BY <1>5, OneStab DEF Late
  <2>2. base = BaseOf(i) /\ fn = FileOf(i) /\ pc \in Late
    BY <1>1, <2>1 DEF Looping, Late
  <2>3. R = 1..i /\ ReadStabs = 1..i - 1
    BY <1>1, <2>1 DEF ReadStabs
  <2>4. CASE Stabs[i].type = "LINE" /\ base # 0
    <3>1. PICK j, t : j = i /\ t = symtab'
      OBVIOUS
    <3>2. /\ j \in 1..Len(Stabs) /\ Stabs[j].type = "LINE" /\ base = BaseOf(j) /\ fn = FileOf(j)
          /\ t = mut_exec_symtab_add_range(symtab, base + Stabs[j].value, Stabs[j].line, fn)
      BY <2>1, <2>2, <2>4, <3>1
    <3>3. \A x \in 1..Len(t) : Attributed(t[x], LinesOf(t[x].start) \cap (1..j))
      BY <2>1, <2>4, <3>1, <3>2, LineLined
    <3> QED
      BY <2>3, <3>1, <3>3
  <2>5. CASE ~(Stabs[i].type = "LINE" /\ base # 0)
    <3>1. symtab' = symtab
      BY <2>1, <2>5
    <3>2. \A s : i \notin LinesOf(s)
      BY <2>2, <2>5 DEF LinesOf
    <3>3. \A s : LinesOf(s) \cap R = LinesOf(s) \cap ReadStabs
      BY <1>1, <2>1, <2>3, <3>2
    <3> QED
      BY <1>3, <2>2, <3>1, <3>3
  <2> QED
    BY <2>4, <2>5
<1>6. CASE mut_exec_stabstr_open \/ mut_exec_extract_stabs
  <2>1. /\ symtab' = symtab /\ pc \in {"stabstr", "stabs"} /\ i = 0 /\ pc' = "stabs" /\ i' \in {0, 1}
    BY <1>6 DEF mut_exec_stabstr_open, mut_exec_extract_stabs, execVars, loopVars, Fails, Late,
       IInv, Control
  <2>2. R = {} /\ ReadStabs = {} /\ pc \in Late
    <3>1. CASE i' = 0
      BY <2>1, <3>1 DEF ReadStabs, Late
    <3>2. CASE i' = 1
      <4>1. R = 1..1 - 1
        BY <2>1, <3>2 DEF ReadStabs
      <4>2. R = {}
        BY <4>1
      <4>3. ReadStabs = {} /\ pc \in Late
        BY ONLY <2>1 DEF ReadStabs, Late
      <4> QED
        BY <4>2, <4>3
    <3> QED
      BY <2>1, <3>1, <3>2
  <2> QED
    BY <1>3, <2>1, <2>2
<1>7. CASE mut_exec_debug_info_extracted
  <2>1. /\ symtab' = symtab /\ pc = "stabs" /\ i > 0 /\ i > Len(Header("stab").stabs)
        /\ pc' = "fclose" /\ pc \in Late
    BY <1>7 DEF mut_exec_debug_info_extracted, execVars, Late
  <2>2. Header("stab").stabs = Stabs /\ Len(Stabs) \in Nat
    BY <2>1, StabsAre DEF IInv, Control
  <2>3. R = 1..Len(Stabs) /\ ReadStabs = 1..i - 1
    BY <1>1, <2>1, SameStabs DEF ReadStabs
  <2>4. \A s : LinesOf(s) \subseteq 1..Len(Stabs)
    BY DEF LinesOf
  <2>5. \A s : LinesOf(s) \cap R = LinesOf(s) \cap ReadStabs
    BY <1>1, <2>1, <2>2, <2>3, <2>4
  <2> QED
    BY <1>3, <2>1, <2>5
<1>8. CASE \/ mut_exec_open \/ mut_exec_has_backtrace_symbols \/ mut_exec_functions_addr
           \/ (\E a \in Addrs : mut_exec_addr_name(a))
  <2>1. /\ symtab' = symtab /\ pc \in {"fclose", "opened", "backtrace", "managed"}
        /\ pc' \in {"fclose", "opened", "backtrace", "managed"}
    BY <1>8 DEF mut_exec_open, mut_exec_has_backtrace_symbols, mut_exec_functions_addr,
       mut_exec_addr_name, execVars
  <2>2. R = ReadStabs /\ pc \in Late
    BY <1>1, <2>1, SameStabs DEF ReadStabs, Late
  <2> QED
    BY <1>3, <2>1, <2>2
<1>9. CASE \/ mut_exec_fopen \/ mut_exec_check \/ mut_exec_shstrtab_open
           \/ mut_exec_locate_start \/ mut_exec_locate_sections \/ mut_exec_close
  <2>1. pc' \notin Late
    BY <1>9 DEF mut_exec_fopen, mut_exec_check, mut_exec_shstrtab_open, mut_exec_locate_start,
       mut_exec_locate_sections, mut_exec_close, NameOutOfRange, Fails, Late
  <2> QED
    BY <2>1
<1>10. CASE UNCHANGED vars
  <2>1. symtab' = symtab /\ pc' = pc /\ i' = i
    BY <1>10 DEF vars, execVars, loopVars
  <2>2. R = ReadStabs
    BY <1>1, <2>1, SameStabs DEF ReadStabs
  <2> QED
    BY <1>3, <2>1, <2>2
<1> QED
  BY <1>2, <1>4, <1>5, <1>6, <1>7, <1>8, <1>9, <1>10 DEF Next

\* The next line: the first entry of the lowest address.
IsNext(j, N) == \A k \in N : LineAddr(j) < LineAddr(k) \/ (LineAddr(j) = LineAddr(k) /\ j <= k)
NextOf(N) == CHOOSE j \in N : IsNext(j, N)

\* What a lookup answers of the lines.
From(ls, a) == {x \in 1..Len(ls) : a <= ls[x].addr}
FirstFrom(ls, a) == IF From(ls, a) # {} THEN Min(From(ls, a)) ELSE 0
Nexts(L, a) == {j \in L : LineAddr(j) >= a}

LEMMA LookupLineIs ==
    ASSUME NEW ls, NEW L \in SUBSET Nat, LinesAre(ls, L), NEW a \in Nat
    PROVE  (IF FirstFrom(ls, a) = 0 THEN 0 ELSE ls[FirstFrom(ls, a)].line)
             = IF Nexts(L, a) = {} THEN 0 ELSE Stabs[NextOf(Nexts(L, a))].line
<1>1. PICK k, I, N : k = FirstFrom(ls, a) /\ I = From(ls, a) /\ N = Nexts(L, a)
  OBVIOUS
<1>2. \A x : x \in I <=> x \in 1..Len(ls) /\ a <= ls[x].addr
  BY <1>1 DEF From
<1>3. \A x : x \in N <=> x \in L /\ LineAddr(x) >= a
  BY <1>1 DEF Nexts
<1>4. (I = {} => k = 0) /\ (I # {} => k = Min(I))
  BY <1>1 DEF FirstFrom
<1>5. Len(ls) \in Nat /\ \A x \in 1..Len(ls) : ls[x].addr \in Nat
  BY DEF LinesAre, IsList
<1>6. \A j \in L : \E x \in 1..Len(ls) : ls[x].addr = LineAddr(j)
  BY DEF LinesAre
<1>7. \A x, y \in 1..Len(ls) : x < y => ls[x].addr <= ls[y].addr
  BY DEF LinesAre
<1>8. CASE I = {}
  <2>1. k = 0
    BY <1>8, <1>4
  <2>2. N = {}
    <3>1. SUFFICES ASSUME NEW q \in N PROVE FALSE
      OBVIOUS
    <3>2. q \in L /\ LineAddr(q) >= a
      BY <1>3
    <3>3. PICK x \in 1..Len(ls) : ls[x].addr = LineAddr(q)
      BY <1>6, <3>2
    <3> QED
      BY <1>2, <1>5, <1>8, <3>2, <3>3
  <2> QED
    BY <1>1, <2>1, <2>2
<1>9. CASE I # {}
  <2>1. I \in SUBSET Nat
    BY <1>2, <1>5
  <2>2. k \in I /\ \A x \in I : k <= x
    <3>1. k = Min(I)
      BY <1>9, <1>4
    <3> QED
      BY <1>9, <2>1, <3>1, MinExists
  <2>3. k \in 1..Len(ls) /\ a <= ls[k].addr /\ k # 0
    BY <1>2, <1>5, <2>2
  <2>4. ASSUME NEW m \in 1..Len(ls), m < k PROVE ls[m].addr < a
    BY <1>2, <1>5, <2>2, <2>3, <2>4
  <2>5. \A m \in 1..Len(ls) : m < k => ls[m].addr < ls[k].addr
    BY <1>5, <2>3, <2>4
  <2>6. PICK j \in L : /\ LineAddr(j) = ls[k].addr /\ Stabs[j].line = ls[k].line
                       /\ \A q \in L : LineAddr(q) = LineAddr(j) => j <= q
    BY <2>3, <2>5 DEF LinesAre
  <2>7. j \in N
    BY <1>5, <1>3, <2>3, <2>6
  <2>8. ASSUME NEW q \in N
        PROVE  LineAddr(j) < LineAddr(q) \/ (LineAddr(j) = LineAddr(q) /\ j <= q)
    <3>1. q \in L /\ LineAddr(q) >= a
      BY <1>3
    <3>2. PICK x \in 1..Len(ls) : ls[x].addr = LineAddr(q)
      BY <1>6, <3>1
    <3>3. k <= x
      BY <1>5, <2>3, <2>4, <3>1, <3>2
    <3>4. k = x \/ k < x
      BY <1>5, <2>3, <3>3
    <3>5. ls[k].addr <= ls[x].addr
      BY <1>5, <1>7, <2>3, <3>4
    <3>6. LineAddr(j) = ls[k].addr /\ ls[k].addr \in Nat /\ LineAddr(q) \in Nat
      BY <1>5, <2>3, <2>6, <3>2
    <3>7. LineAddr(j) < LineAddr(q) \/ LineAddr(j) = LineAddr(q)
      BY <3>2, <3>5, <3>6
    <3> QED
      BY <2>6, <3>1, <3>7
  <2>9. IsNext(j, N)
    BY <2>8 DEF IsNext
  <2>10. \A q \in N : LineAddr(q) \in Nat
    BY <1>5, <1>6, <1>3
  <2>11. NextOf(N) \in N /\ IsNext(NextOf(N), N)
    <3>1. \E x \in N : IsNext(x, N)
      BY <2>7, <2>9
    <3> QED
      BY <3>1, Zenon DEF NextOf
  <2>12. PICK x : x = NextOf(N)
    OBVIOUS
  <2>13. x \in N /\ IsNext(x, N)
    BY <2>11, <2>12
  <2>14. x = j
    <3>1. LineAddr(x) \in Nat /\ LineAddr(j) \in Nat /\ x \in Nat /\ j \in Nat
      BY <1>3, <2>7, <2>10, <2>13
    <3>2. LineAddr(x) < LineAddr(j) \/ (LineAddr(x) = LineAddr(j) /\ x <= j)
      BY <2>7, <2>13 DEF IsNext
    <3>3. LineAddr(j) < LineAddr(x) \/ (LineAddr(j) = LineAddr(x) /\ j <= x)
      BY <2>9, <2>13 DEF IsNext
    <3> QED
      BY <3>1, <3>2, <3>3
  <2>15. N # {} /\ Stabs[NextOf(N)].line = ls[k].line
    BY <2>6, <2>7, <2>12, <2>14
  <2> QED
    BY <1>1, <2>3, <2>15
<1> QED
  BY <1>8, <1>9

\* An address is asked of the complete table.
LEMMA LookupIs ==
    ASSUME Located, Tabled, Lined, pc = "managed", NEW a \in Nat, NEW r,
           r = mut_exec_symtab_lookup_addr(symtab, a), r.found
    PROVE  LET L == LinesOf(r.start)
           IN  /\ r.line = IF Nexts(L, a) = {} THEN 0 ELSE Stabs[NextOf(Nexts(L, a))].line
               /\ r.file = IF L = {} THEN UnsetName ELSE FileOf(Max(L))
<1>1. pc \in Told /\ pc \in Late /\ ReadStabs = 1..Len(Stabs)
  BY DEF Told, Late, ReadStabs
<1>2. Shaped(symtab) /\ Sorted(symtab) /\ Len(Stabs) \in Nat
  BY <1>1, TableComplete, StabsAre
<1>3. PICK c : c = Covering(symtab, a)
  OBVIOUS
<1>4. c # 0
  BY <1>3 DEF mut_exec_symtab_lookup_addr, NoFunction
<1>5. c \in 1..Len(symtab)
  BY <1>2, <1>3, <1>4, CoveringIs
<1>6. PICK L, ls, k : /\ L = LinesOf(symtab[c].start) /\ ls = symtab[c].lines
                      /\ k = FirstFrom(ls, a)
  OBVIOUS
<1>7. /\ r.start = symtab[c].start /\ r.file = symtab[c].file
      /\ r.line = IF k = 0 THEN 0 ELSE ls[k].line
  <2>1. r = LET j == SelectInSeq(ls, LAMBDA fl : a <= fl.addr)
            IN  [found |-> TRUE, start |-> symtab[c].start, name |-> symtab[c].name,
                 file |-> symtab[c].file, line |-> IF j = 0 THEN 0 ELSE ls[j].line]
    BY <1>3, <1>4, <1>6 DEF mut_exec_symtab_lookup_addr
  <2>2. SelectInSeq(ls, LAMBDA fl : a <= fl.addr) = k
    BY <1>6, Zenon DEF SelectInSeq, FirstFrom, From
  <2> QED
    BY ONLY <2>1, <2>2
<1>8. L \subseteq 1..Len(Stabs)
  BY <1>6 DEF LinesOf
<1>9. LinesOf(symtab[c].start) \cap ReadStabs = L
  BY <1>1, <1>6, <1>8
<1>10. Attributed(symtab[c], L)
  BY <1>1, <1>5, <1>9 DEF Lined
<1>11. L \in SUBSET Nat /\ LinesAre(ls, L)
  BY <1>2, <1>6, <1>8, <1>10 DEF Attributed
<1>12. r.file = IF L = {} THEN UnsetName ELSE FileOf(Max(L))
  BY <1>7, <1>10 DEF Attributed
<1>13. (IF FirstFrom(ls, a) = 0 THEN 0 ELSE ls[FirstFrom(ls, a)].line)
         = IF Nexts(L, a) = {} THEN 0 ELSE Stabs[NextOf(Nexts(L, a))].line
  BY ONLY <1>11, a \in Nat, LookupLineIs
<1>14. LinesOf(r.start) = L
  BY <1>6, <1>7
<1> QED
  BY <1>6, <1>7, <1>12, <1>13, <1>14

\* The line and the file of an answer r.
AnswerIs(r) ==
    r.answer.found =>
      LET L == LinesOf(r.answer.start)
      IN  /\ r.answer.line = IF Nexts(L, r.asked) = {} THEN 0
                             ELSE Stabs[NextOf(Nexts(L, r.asked))].line
          /\ r.answer.file = IF L = {} THEN UnsetName ELSE FileOf(Max(L))

LEMMA AnswerSame ==
    ASSUME file' = file, NEW r, AnswerIs(r)
    PROVE  AnswerIs(r)'
<1>1. /\ Stabs' = Stabs
      /\ \A j : LineAddr(j)' = LineAddr(j) /\ FileOf(j)' = FileOf(j)
      /\ \A s : LinesOf(s)' = LinesOf(s)
  BY SameStabs
<1>2. \A L, a : Nexts(L, a)' = Nexts(L, a)
  BY <1>1 DEF Nexts
<1>3. ASSUME NEW N PROVE NextOf(N)' = NextOf(N)
  <2>1. \A j : IsNext(j, N)' <=> IsNext(j, N)
    BY <1>1 DEF IsNext
  <2> QED
    BY <2>1 DEF NextOf
<1> QED
  BY <1>1, <1>2, <1>3 DEF AnswerIs

LEMMA AnswerStep ==
    ASSUME Located, Loops, Tabled, Lined, AnswerIs(reply), [Next]_vars
    PROVE  AnswerIs(reply)'
<1>1. file' = file
  BY ReaderKept
<1>2. CASE reply' = reply
  <2>1. PICK r : r = reply
    OBVIOUS
  <2>2. AnswerIs(r)'
    BY <1>1, <2>1, AnswerSame
  <2> QED
    BY <1>2, <2>1, <2>2 DEF AnswerIs
<1>3. CASE \E a \in Addrs : mut_exec_addr_name(a)
  <2>1. PICK a \in Addrs : mut_exec_addr_name(a)
    BY <1>3
  <2>2. PICK known \in HasFullSymbols :
           reply' = [asked |-> a, answer |-> IF known THEN mut_exec_symtab_lookup_addr(symtab, a)
                                             ELSE NoFunction]
    BY <2>1 DEF mut_exec_addr_name
  <2>3. pc = "managed" /\ a \in Nat
    BY <2>1, FilesAssumption DEF mut_exec_addr_name
  <2>4. PICK r, s : r = mut_exec_symtab_lookup_addr(symtab, a) /\ s = reply'
    OBVIOUS
  <2>5. s.asked = a /\ s.answer = IF known THEN r ELSE NoFunction
    BY <2>2, <2>4
  <2>6. AnswerIs(s)
    <3>1. CASE ~s.answer.found
      BY <3>1 DEF AnswerIs
    <3>2. CASE s.answer.found
      <4>1. s.answer = r
        BY <2>5, <3>2 DEF NoFunction
      <4>2. r.found
        BY <3>2, <4>1
      <4>3. LET L == LinesOf(r.start)
            IN  /\ r.line = IF Nexts(L, a) = {} THEN 0 ELSE Stabs[NextOf(Nexts(L, a))].line
                /\ r.file = IF L = {} THEN UnsetName ELSE FileOf(Max(L))
        BY <2>3, <2>4, <4>2, LookupIs
      <4> QED
        BY <2>5, <4>1, <4>3 DEF AnswerIs
    <3> QED
      BY <3>1, <3>2
  <2>7. AnswerIs(s)'
    BY <1>1, <2>6, AnswerSame
  <2> QED
    BY <2>4, <2>7 DEF AnswerIs
<1>4. ~(\E a \in Addrs : mut_exec_addr_name(a)) => reply' = reply
  <2>1. SUFFICES ASSUME ~(\E a \in Addrs : mut_exec_addr_name(a)) PROVE reply' = reply
    OBVIOUS
  <2> QED
    BY <2>1 DEF Next, vars, replyVars, mut_exec_fopen, mut_exec_check, mut_exec_shstrtab_open,
       mut_exec_locate_start, mut_exec_locate_sections, mut_exec_sections_located,
       mut_exec_stabstr_open, mut_exec_extract_stabs, mut_exec_extract_debug_info,
       mut_exec_debug_info_extracted, mut_exec_open, mut_exec_has_backtrace_symbols,
       mut_exec_strtab_open, mut_exec_read_symbols, mut_exec_extract_symbol,
       mut_exec_symbols_extracted, mut_exec_functions_addr, mut_exec_close
<1> QED
  BY <1>2, <1>3, <1>4

\* The line mut_exec_addr_name answers is that of the next .stab line of the same
\* function, the first of several at its address, and the file is the one open at
\* the function's last entry, if no string index is cut to 16 bits.
THEOREM LinesAttributedHolds ==
    ASSUME ShortStrings
    PROVE  Spec => []LinesAttributed
<1>1. Init => Loops
  BY InitLoops
<1>2. Init => AnswerIs(reply)
  <2>1. Init => reply = [asked |-> 0, answer |-> NoFunction]
    BY DEF Init
  <2> QED
    BY <2>1 DEF AnswerIs, NoFunction
<1>3. AnswerIs(reply) => LinesAttributed
  BY Zenon DEF AnswerIs, LinesAttributed, Nexts, NextOf, IsNext
<1>4. IInv /\ Located /\ Loops /\ Tabled /\ Looping /\ [Next]_vars => Looping'
  BY LoopingStep
<1>5. IInv /\ Located /\ Loops /\ Tabled /\ Looping /\ Lined /\ [Next]_vars => Lined'
  BY LinedStep
<1> QED
  BY <1>1, <1>2, <1>3, <1>4, <1>5, LedgerHolds, InitLocated, LocatedStep, LoopsStep, InitTabled,
     TabledStep, InitLooping, InitLined, AnswerStep, PTL DEF Spec
=============================================================================
