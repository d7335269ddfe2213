------------------------------- MODULE MutMem -------------------------------
(***************************************************************************)
(* The debugging memory manager mut runs on, mem/debug/mut_mem.c, one call *)
(* of it a step, over the malloc and free of the C library.                *)
(*                                                                         *)
(* A struct mut_mem_node is [addr, n_bytes]; where it was allocated and    *)
(* freed, for the messages, is left out.  The lists in_use and freed are   *)
(* sets: an address is in one of them and once only (BlocksMatch), so the  *)
(* order of a list decides nothing.  What is in the memory is left out.    *)
(***************************************************************************)
EXTENDS Integers, FiniteSetsExt

CONSTANTS
    Addr,       \* the addresses the C library's malloc can return
    Sizes,      \* the sizes that are asked for
    MaxCalls    \* bound: calls of free, and of realloc

ASSUME MemAssumption == IsFiniteSet(Addr) /\ Sizes \subseteq Nat /\ MaxCalls \in Nat

VARIABLES
    store,      \* static struct mem store, without its three streams and halt
    heap,       \* the addresses in use for the C library
    held,       \* the addresses the program may pass to free or realloc
    lost,       \* those whose realloc returned 0
    wrong,      \* the program passed an address it does not hold
    phase       \* "open", "halted" by store.halt(), "asserts" or "closed"

vars == <<store, heap, held, lost, wrong, phase>>

Node == [addr : Addr, n_bytes : Sizes]
Bytes(S) == MapThenSumSet(LAMBDA b : b.n_bytes, S)
AddrOf(S) == {b.addr : b \in S}
In(S, a) == \E b \in S : b.addr = a
NodeOf(S, a) == CHOOSE b \in S : b.addr = a
Larger(x, y) == IF x > y THEN x ELSE y

-----------------------------------------------------------------------------
(* steps of the calls *)

\* Defect: the bytes of the new block are not counted as in use.
EnterUncounted(s, b) ==
    [s EXCEPT !.in_use = @ \cup {b}, !.n_malloc = @ + 1,
              !.n_bytes_allocated = @ + b.n_bytes, !.n_blocks_in_use = @ + 1,
              !.max_blocks_in_use = Larger(@, s.n_blocks_in_use + 1)]

\* mut_mem__malloc has both of its blocks.
Enter(s, b) ==
    [s EXCEPT !.in_use = @ \cup {b},
              !.n_malloc = @ + 1,
              !.n_bytes_allocated = @ + b.n_bytes,
              !.n_bytes_in_use = @ + b.n_bytes,
              !.max_bytes_in_use = Larger(@, s.n_bytes_in_use + b.n_bytes),
              !.n_blocks_in_use = @ + 1,
              !.max_blocks_in_use = Larger(@, s.n_blocks_in_use + 1)]

\* A block that is freed, or moved by realloc, stays allocated, on freed.
Retire(s, b) ==
    [s EXCEPT !.in_use = @ \ {b},
              !.freed = @ \cup {b},
              !.n_bytes_in_use = @ - b.n_bytes,
              !.n_blocks_in_use = @ - 1]

\* Defect: the block is not given back when there is no memory for its node.
KeepBlock(h, a) == h

\* could_not_allocate_node: free(addr)
GiveBack(h, a) == h \ {a}

-----------------------------------------------------------------------------
(* the calls, and what the C library does in them *)

\* mut_mem__malloc, called with the store s.
Allocates(s, k, a) ==
    /\ a \in Addr \ heap
    /\ store' = Enter(s, [addr |-> a, n_bytes |-> k])
    /\ heap' = heap \cup {a}

\* Neither block, or the first one only, can be allocated.
Fails(s) ==
    /\ store' = s
    /\ \/ heap' = heap
       \/ \E a \in Addr \ heap : heap' = GiveBack(heap \cup {a}, a)

mut_mem__malloc(k) ==
    /\ phase = "open"
    /\ \/ \E a \in Addr : Allocates(store, k, a) /\ held' = held \cup {a}
       \/ Fails(store) /\ UNCHANGED held
    /\ UNCHANGED <<lost, wrong, phase>>

FreeNull ==
    /\ phase = "open" /\ store.n_free < MaxCalls
    /\ store' = [store EXCEPT !.n_free = @ + 1, !.n_free0 = @ + 1]
    /\ UNCHANGED <<heap, held, lost, wrong, phase>>

mut_mem__free(a) ==
    /\ phase = "open" /\ store.n_free < MaxCalls
    /\ In(store.in_use, a)
    /\ store' = Retire([store EXCEPT !.n_free = @ + 1], NodeOf(store.in_use, a))
    /\ held' = held \ {a}
    /\ wrong' = (wrong \/ a \notin held)
    /\ UNCHANGED <<heap, lost, phase>>

\* realloc of 0 is malloc, which counts itself.
ReallocNull(k) ==
    LET counted == [store EXCEPT !.n_realloc = @ + 1, !.n_realloc0 = @ + 1, !.n_malloc = @ - 1]
    IN  /\ phase = "open" /\ store.n_realloc < MaxCalls
        /\ \/ \E a \in Addr : Allocates(counted, k, a) /\ held' = held \cup {a}
           \/ Fails(counted) /\ UNCHANGED held
        /\ UNCHANGED <<lost, wrong, phase>>

\* The old block goes to freed before the new one is asked for.  When there is
\* no memory for the new one it stays there, although realloc returns 0.
mut_mem__realloc(old, k) ==
    LET moved == Retire([store EXCEPT !.n_realloc = @ + 1], NodeOf(store.in_use, old))
    IN  /\ phase = "open" /\ store.n_realloc < MaxCalls
        /\ In(store.in_use, old)
        /\ \/ /\ \E a \in Addr : /\ Allocates([moved EXCEPT !.n_malloc = @ - 1], k, a)
                                 /\ held' = (held \ {old}) \cup {a}
              /\ UNCHANGED lost
           \/ Fails(moved) /\ lost' = lost \cup {old} /\ UNCHANGED held
        /\ wrong' = (wrong \/ old \notin held)
        /\ UNCHANGED phase

\* Defect: free does not look whether the address was freed before.
HaltIfUnknown(a) ==
    /\ phase = "open" /\ ~In(store.in_use, a)
    /\ phase' = IF In(store.freed, a) THEN "open" ELSE "halted"
    /\ store' = store
    /\ wrong' = (wrong \/ a \notin held)
    /\ UNCHANGED <<heap, held, lost>>

\* free or realloc of an address that is not in use: freeing_freed_memory or
\* freeing_unallocated_memory (or reallocing_...), then store.halt().
HaltOnFault(a) ==
    /\ phase = "open" /\ ~In(store.in_use, a)
    /\ \/ store' = [store EXCEPT !.n_free = @ + 1]
       \/ store' = [store EXCEPT !.n_realloc = @ + 1]
    /\ phase' = "halted"
    /\ wrong' = (wrong \/ a \notin held)
    /\ UNCHANGED <<heap, held, lost>>

\* Leaks are reported and freed, then the freed blocks; in between are the
\* two assertions.
mut_mem_close ==
    /\ phase = "open"
    /\ LET s == [store EXCEPT !.n_bytes_in_use = @ - Bytes(store.in_use),
                              !.n_blocks_in_use = @ - Cardinality(store.in_use)]
           ok == s.n_bytes_in_use = 0 /\ s.n_blocks_in_use = 0
       IN  /\ store' = s
           /\ phase' = IF ok THEN "closed" ELSE "asserts"
           /\ heap' = heap \ (AddrOf(store.in_use) \cup IF ok THEN AddrOf(store.freed) ELSE {})
    /\ UNCHANGED <<held, lost, wrong>>

-----------------------------------------------------------------------------
\* mut_mem_init
Init ==
    /\ store = [in_use |-> {}, freed |-> {}, n_bytes_allocated |-> 0, n_bytes_in_use |-> 0,
                n_blocks_in_use |-> 0, max_bytes_in_use |-> 0, max_blocks_in_use |-> 0,
                n_malloc |-> 0, n_realloc |-> 0, n_realloc0 |-> 0, n_free |-> 0, n_free0 |-> 0]
    /\ heap = {} /\ held = {} /\ lost = {} /\ wrong = FALSE
    /\ phase = "open"

Next ==
    \/ \E k \in Sizes : mut_mem__malloc(k)
    \/ FreeNull
    \/ \E a \in Addr : mut_mem__free(a)
    \/ \E k \in Sizes : ReallocNull(k)
    \/ \E a \in Addr, k \in Sizes : mut_mem__realloc(a, k)
    \/ \E a \in Addr : HaltOnFault(a)
    \/ mut_mem_close

Spec == Init /\ [][Next]_vars

-----------------------------------------------------------------------------
\* Type correctness.  size_t never wraps within the bounds, but for n_malloc:
\* it is below zero for an instant in realloc of 0, and for good when that
\* fails (-1 is what the report prints as the largest size_t).
Stores ==
    [in_use : SUBSET Node, freed : SUBSET Node,
     n_bytes_allocated : Int, n_bytes_in_use : Int, n_blocks_in_use : Int,
     max_bytes_in_use : Int, max_blocks_in_use : Int,
     n_malloc : Int, n_realloc : Nat, n_realloc0 : Nat, n_free : Nat, n_free0 : Nat]

TypeOK ==
    /\ store \in Stores
    /\ heap \subseteq Addr /\ held \subseteq Addr /\ lost \subseteq Addr
    /\ wrong \in BOOLEAN
    /\ phase \in {"open", "halted", "asserts", "closed"}

Distinct(S) == \A b, c \in S : b.addr = c.addr => b = c

\* Until mut_mem_close the C library's blocks are those of the two lists, each
\* on one of them once: nothing is freed for good, so no address comes back,
\* which is what lets free tell a second free from a first one (the README of
\* mem/debug).  Those in use are the ones the program holds, but for what a
\* failing realloc took from it.  mut_mem_close gives everything back, and its
\* assertion about the blocks holds.
BlocksMatch ==
    /\ phase \in {"open", "halted"} =>
           /\ heap = AddrOf(store.in_use) \cup AddrOf(store.freed)
           /\ AddrOf(store.in_use) \cap AddrOf(store.freed) = {}
           /\ Distinct(store.in_use) /\ Distinct(store.freed)
           /\ AddrOf(store.in_use) = held \ lost
           /\ store.n_blocks_in_use = Cardinality(store.in_use)
    /\ phase = "closed" => heap = {} /\ store.n_blocks_in_use = 0

\* The calls the report counts account for the blocks: each block came from a
\* malloc or a realloc that did not fail, and each freed one went by a free or
\* a realloc of an address other than 0.  realloc has to take back what the
\* malloc inside it counts.
CallsMatch ==
    phase = "open" =>
        /\ Cardinality(store.in_use) + Cardinality(store.freed) + Cardinality(lost)
               = store.n_malloc + store.n_realloc
        /\ Cardinality(store.freed)
               = (store.n_free - store.n_free0) + (store.n_realloc - store.n_realloc0)

\* The bytes the report gives are those of the blocks, at every call, and the
\* maxima are between what is in use and what was ever allocated; the
\* assertions of mut_mem_close hold.
BytesMatch ==
    /\ phase = "open" =>
           /\ store.n_bytes_in_use = Bytes(store.in_use)
           /\ store.n_bytes_allocated = Bytes(store.in_use) + Bytes(store.freed)
           /\ store.max_bytes_in_use \in store.n_bytes_in_use..store.n_bytes_allocated
           /\ store.n_blocks_in_use <= store.max_blocks_in_use
    /\ phase # "asserts"

\* What mut_mem_close reports is right, calls and bytes.
ReportMatches == CallsMatch /\ BytesMatch

\* Every free or realloc of an address the program does not hold stops it, and
\* it is not stopped for another reason than that or a realloc that failed.
MisuseHalts ==
    /\ wrong => phase = "halted"
    /\ phase = "halted" => wrong \/ lost # {}

\* mut_mem.txt:5: the routines "have the same semantics as as malloc, realloc
\* and free": free does not stop a program that passes what it holds, also not
\* after a realloc that returned 0, which leaves the object as it was.
NoFalseHalt == phase = "halted" => wrong
=============================================================================
