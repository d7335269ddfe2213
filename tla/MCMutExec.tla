----------------------------- MODULE MCMutExec -----------------------------
(* Executables of up to three static and two dynamic symbols.               *)
EXTENDS MutExec

Name(b) == [base |-> b, version |-> NoVersion]
Versioned(b) == [base |-> b, version |-> "GLIBC"]
Fun(nm, v, sz) == [func |-> TRUE, name |-> nm, value |-> v, size |-> sz]
Object(v) == [func |-> FALSE, name |-> Name("data"), value |-> v, size |-> 1]

\* free is undefined in .symtab, malloc has a version and main an alias.
StaticSymbols ==
    {Fun(Name("main"), 2, 2), Fun(Name("start"), 2, 2), Fun(Versioned("malloc"), 5, 1),
     Fun(Name("free"), 0, 0), Object(2)}
DynamicSymbols == {Fun(Versioned("malloc"), 0, 0), Fun(Name("free"), 5, 1), Object(5)}

UpTo(S, k) == UNION {[1..j -> S] : j \in 0..k}

\* Two functions in two files; two entries at one address and one before every
\* function; an entry before any function; names out of range.
SO(k) == [type |-> "SO", str |-> k]
FUN(a) == [type |-> "FUN", value |-> a]
LINE(o, l) == [type |-> "LINE", value |-> o, line |-> l]
PSYM == [type |-> "PSYM"]
StabLists ==
    {<<SO(0), SO(1), LINE(0, 7), FUN(2), LINE(0, 1), LINE(1, 2), LINE(1, 3), SO(2),
       SO(3), FUN(5), LINE(1, 9), LINE(0, 8)>>,
     <<SO(4), FUN(1), PSYM, LINE(0, 4), LINE(4, 5)>>}
Slashes == [k \in 0..3 |-> k = 0]

Other == [kind |-> "other"]
Syms(k, ss) == [kind |-> k, syms |-> ss]
Plt == [kind |-> "plt", addr |-> 3, align |-> 1]
Stab(ss) == [kind |-> "stab", stabs |-> ss]

File(secs) == [elf |-> TRUE, class |-> TRUE, exec |-> TRUE, sections |-> secs, stabstr |-> Slashes]

\* As the linkers lay them out: .symtab is read last, and no header after it.
Dynamic == {File(<<Other, Syms("dynsym", d), Plt, Syms("symtab", s), Other>>) :
              d \in UpTo(DynamicSymbols, 2), s \in UpTo(StaticSymbols, 3)}
Debug == {File(<<Other, Syms("dynsym", d), Plt, Stab(l), Syms("symtab", s), Other>>) :
              d \in UpTo(DynamicSymbols, 1), s \in UpTo(StaticSymbols, 2), l \in StabLists}
Static == {File(<<Other, Syms("symtab", s), Other, Other>>) : s \in UpTo(StaticSymbols, 2)}
Stripped == {File(<<Other, Syms("dynsym", d), Plt, Other>>) : d \in UpTo(DynamicSymbols, 2)}
Twice == {File(<<Syms("symtab", s), Syms("symtab", t), Syms("dynsym", <<>>), Other>>) :
              s \in UpTo(StaticSymbols, 1), t \in UpTo(StaticSymbols, 1)}
NoSymbols == {File(<<Other, Plt, Other>>), File(<<Other, Syms("symtab", <<>>)>>), File(<<>>)}
\* Newer linkers put two sections after .symtab.
Spilling == {File(<<Syms("dynsym", <<>>), Plt, Stab(l), Syms("symtab", <<>>), Other, Other>>) :
              l \in StabLists}
Wrong == {[File(<<>>) EXCEPT !.elf = FALSE], [File(<<>>) EXCEPT !.class = FALSE],
          [File(<<>>) EXCEPT !.exec = FALSE]}

AllFiles == Dynamic \cup Debug \cup Static \cup Stripped \cup Twice \cup NoSymbols
              \cup Spilling \cup Wrong

Asked == {Name("malloc"), Name("free"), Name("start")}
=============================================================================
