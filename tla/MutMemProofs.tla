---------------------------- MODULE MutMemProofs ----------------------------
(***************************************************************************)
(* That the two lists of the debugging memory manager are the blocks the   *)
(* C library has handed out, that its counters account for them and that   *)
(* it stops exactly the programs that pass it an address they do not hold: *)
(* for any number of addresses, sizes and calls.  And that the other       *)
(* memory, the target's, has what mut_process_memcpy and                   *)
(* mut_process_memset were to write to it, which shares no state with the  *)
(* first: for any size of a word and of the memory.                        *)
(***************************************************************************)
EXTENDS MutMem, MutWords, MutSums

\* What holds of the lists and the heap between calls: BlocksMatch without the
\* program, and the finiteness the cardinalities need.
Sound(s, h) ==
    /\ s \in Stores
    /\ IsFiniteSet(s.in_use) /\ IsFiniteSet(s.freed)
    /\ h = AddrOf(s.in_use) \cup AddrOf(s.freed)
    /\ AddrOf(s.in_use) \cap AddrOf(s.freed) = {}
    /\ Distinct(s.in_use) /\ Distinct(s.freed)
    /\ s.n_blocks_in_use = Cardinality(s.in_use)

\* The inductive invariant.  MisuseHalts needs to know which addresses the
\* program holds, hence BlocksMatch; that malloc returns an address the
\* program has not lost before needs lost to be in the freed list.
IInv ==
    /\ phase \in {"open", "halted", "asserts", "closed"}
    /\ held \subseteq Addr /\ lost \subseteq Addr /\ heap \subseteq Addr
    /\ wrong \in BOOLEAN
    /\ phase \in {"open", "halted"} =>
           /\ Sound(store, heap)
           /\ AddrOf(store.in_use) = held \ lost
           /\ lost \subseteq AddrOf(store.freed)
    /\ CallsMatch
    /\ phase = "closed" => heap = {} /\ store.n_blocks_in_use = 0
    /\ MisuseHalts

-----------------------------------------------------------------------------
(* the two lists *)

\* A block that malloc returns goes on in_use: the lists stay sound.
LEMMA EnterSound ==
    ASSUME NEW s, NEW h, Sound(s, h), NEW a \in Addr \ h, NEW k \in Sizes,
           NEW t, t = Enter(s, [addr |-> a, n_bytes |-> k])
    PROVE  /\ Sound(t, h \cup {a})
           /\ AddrOf(t.in_use) = AddrOf(s.in_use) \cup {a}
           /\ t.freed = s.freed
           /\ Cardinality(t.in_use) = Cardinality(s.in_use) + 1
           /\ Cardinality(s.in_use) \in Nat
           /\ t.n_malloc = s.n_malloc + 1
           /\ t.n_realloc = s.n_realloc /\ t.n_realloc0 = s.n_realloc0
           /\ t.n_free = s.n_free /\ t.n_free0 = s.n_free0
<1> DEFINE b == [addr |-> a, n_bytes |-> k]
<1>1. /\ b \in Node /\ b.addr = a /\ b.n_bytes = k /\ k \in Int
  BY MemAssumption DEF Node
<1>2. b \notin s.in_use
  BY <1>1 DEF Sound, AddrOf
<1>3. t \in Stores
  <2> DEFINE U == s.in_use \cup {b}
             A == s.n_bytes_allocated + b.n_bytes
             B == s.n_bytes_in_use + b.n_bytes
             C == s.n_blocks_in_use + 1
             L == Larger(s.max_bytes_in_use, B)
             M == Larger(s.max_blocks_in_use, C)
             N == s.n_malloc + 1
  <2>1. s \in Stores
    BY DEF Sound
  <2>2. U \in SUBSET Node /\ A \in Int /\ B \in Int /\ C \in Int /\ N \in Int
    BY <1>1, <2>1 DEF Stores
  <2>3. L \in Int /\ M \in Int
    BY <2>1, <2>2 DEF Stores, Larger
  <2>4. t = [s EXCEPT !.in_use = U, !.n_malloc = N, !.n_bytes_allocated = A,
                      !.n_bytes_in_use = B, !.max_bytes_in_use = L,
                      !.n_blocks_in_use = C, !.max_blocks_in_use = M]
    BY DEF Enter
  <2> HIDE DEF U, A, B, C, L, M, N
  <2> QED
    BY <2>1, <2>2, <2>3, <2>4, ZenonT(40) DEF Stores
<1>4. /\ t.in_use = s.in_use \cup {b} /\ t.freed = s.freed
      /\ t.n_malloc = s.n_malloc + 1
      /\ t.n_blocks_in_use = s.n_blocks_in_use + 1
      /\ t.n_realloc = s.n_realloc /\ t.n_realloc0 = s.n_realloc0
      /\ t.n_free = s.n_free /\ t.n_free0 = s.n_free0
  BY DEF Sound, Stores, Enter
<1>5. AddrOf(t.in_use) = AddrOf(s.in_use) \cup {a}
  BY <1>1, <1>4 DEF AddrOf
<1>6. /\ IsFiniteSet(t.in_use)
      /\ Cardinality(t.in_use) = Cardinality(s.in_use) + 1
      /\ Cardinality(s.in_use) \in Nat
  BY <1>2, <1>4, FS_AddElement, FS_CardinalityType DEF Sound
<1>7. Distinct(t.in_use)
  BY <1>1, <1>4 DEF Distinct, Sound, AddrOf
<1> QED
  BY <1>3, <1>4, <1>5, <1>6, <1>7 DEF Sound

\* A block in use that is freed, or that realloc replaces, goes on freed: the
\* lists stay sound and the heap is the same.
LEMMA RetireSound ==
    ASSUME NEW s, NEW h, Sound(s, h), NEW a \in Addr, In(s.in_use, a),
           NEW t, t = Retire(s, NodeOf(s.in_use, a))
    PROVE  /\ Sound(t, h)
           /\ AddrOf(t.in_use) = AddrOf(s.in_use) \ {a}
           /\ AddrOf(t.freed) = AddrOf(s.freed) \cup {a}
           /\ Cardinality(t.in_use) = Cardinality(s.in_use) - 1
           /\ Cardinality(t.freed) = Cardinality(s.freed) + 1
           /\ Cardinality(s.in_use) \in Nat /\ Cardinality(s.freed) \in Nat
           /\ t.n_malloc = s.n_malloc
           /\ t.n_realloc = s.n_realloc /\ t.n_realloc0 = s.n_realloc0
           /\ t.n_free = s.n_free /\ t.n_free0 = s.n_free0
<1> DEFINE b == NodeOf(s.in_use, a)
<1>1. b \in s.in_use /\ b.addr = a
  BY DEF In, NodeOf
<1>2. b \in Node /\ b.n_bytes \in Int
  BY <1>1, MemAssumption DEF Sound, Stores, Node
<1>3. t \in Stores
  <2> DEFINE U == s.in_use \ {b}
             F == s.freed \cup {b}
             B == s.n_bytes_in_use - b.n_bytes
             C == s.n_blocks_in_use - 1
  <2>1. s \in Stores
    BY DEF Sound
  <2>2. U \in SUBSET Node /\ F \in SUBSET Node /\ B \in Int /\ C \in Int
    BY <1>2, <2>1 DEF Stores
  <2>3. t = [s EXCEPT !.in_use = U, !.freed = F, !.n_bytes_in_use = B, !.n_blocks_in_use = C]
    BY DEF Retire
  <2> HIDE DEF U, F, B, C
  <2> QED
    BY <2>1, <2>2, <2>3 DEF Stores
<1>4. /\ t.in_use = s.in_use \ {b} /\ t.freed = s.freed \cup {b}
      /\ t.n_malloc = s.n_malloc
      /\ t.n_blocks_in_use = s.n_blocks_in_use - 1
      /\ t.n_realloc = s.n_realloc /\ t.n_realloc0 = s.n_realloc0
      /\ t.n_free = s.n_free /\ t.n_free0 = s.n_free0
  BY DEF Sound, Stores, Retire
<1> HIDE DEF b
<1>5. AddrOf(t.in_use) = AddrOf(s.in_use) \ {a}
  <2>1. \A c \in s.in_use : c.addr = a <=> c = b
    BY <1>1 DEF Distinct, Sound
  <2> QED
    BY <1>1, <1>4, <2>1 DEF AddrOf
<1>6. AddrOf(t.freed) = AddrOf(s.freed) \cup {a}
  BY <1>1, <1>4 DEF AddrOf
<1>7. a \in AddrOf(s.in_use) /\ a \notin AddrOf(s.freed) /\ b \notin s.freed
  BY <1>1 DEF Sound, AddrOf
<1>8. /\ IsFiniteSet(t.in_use) /\ Cardinality(t.in_use) = Cardinality(s.in_use) - 1
      /\ Cardinality(s.in_use) \in Nat
  <2>1. IsFiniteSet(s.in_use)
    BY DEF Sound
  <2> QED
    BY <1>1, <1>4, <2>1, FS_RemoveElement, FS_CardinalityType
<1>9. /\ IsFiniteSet(t.freed) /\ Cardinality(t.freed) = Cardinality(s.freed) + 1
      /\ Cardinality(s.freed) \in Nat
  BY <1>4, <1>7, FS_AddElement, FS_CardinalityType DEF Sound
<1>10. Distinct(t.in_use)
  BY <1>4 DEF Distinct, Sound
<1>11. Distinct(t.freed)
  BY <1>1, <1>4, <1>7 DEF Distinct, Sound, AddrOf
<1>12. /\ h = AddrOf(t.in_use) \cup AddrOf(t.freed)
       /\ AddrOf(t.in_use) \cap AddrOf(t.freed) = {}
  BY <1>5, <1>6, <1>7 DEF Sound
<1>13. t.n_blocks_in_use = Cardinality(t.in_use)
  BY <1>4, <1>8 DEF Sound
<1>14. Sound(t, h)
  BY <1>3, <1>8, <1>9, <1>10, <1>11, <1>12, <1>13 DEF Sound
<1> QED
  BY <1>4, <1>5, <1>6, <1>8, <1>9, <1>14

\* Counting a call leaves the lists sound.
LEMMA CountSound ==
    ASSUME NEW s, NEW h, Sound(s, h), NEW t \in Stores,
           t.in_use = s.in_use, t.freed = s.freed, t.n_blocks_in_use = s.n_blocks_in_use
    PROVE  Sound(t, h)
BY DEF Sound

\* The sum of CallsMatch, for a store and the addresses lost so far.
Balanced(s, l) ==
    /\ Cardinality(s.in_use) + Cardinality(s.freed) + Cardinality(l) = s.n_malloc + s.n_realloc
    /\ Cardinality(s.freed) = (s.n_free - s.n_free0) + (s.n_realloc - s.n_realloc0)

-----------------------------------------------------------------------------
(* the calls *)

\* What an open manager, between two calls, knows from the invariant.
OpenInv ==
    /\ IInv /\ phase = "open"
    /\ Sound(store, heap) /\ store \in Stores
    /\ AddrOf(store.in_use) = held \ lost
    /\ lost \subseteq AddrOf(store.freed) /\ lost \subseteq Addr
    /\ Balanced(store, lost)
    /\ wrong = FALSE /\ held \subseteq Addr

LEMMA InvOpens == IInv /\ phase = "open" => OpenInv
BY DEF IInv, OpenInv, Sound, CallsMatch, Balanced, MisuseHalts

\* To establish the invariant after a call that leaves the manager open.
LEMMA StaysOpen ==
    ASSUME phase' = "open", wrong' = FALSE, Sound(store', heap'),
           held' \subseteq Addr, lost' \subseteq Addr,
           AddrOf(store'.in_use) = held' \ lost', lost' \subseteq AddrOf(store'.freed),
           Balanced(store', lost')
    PROVE  IInv'
<1>1. heap' \subseteq Addr
  BY DEF Sound, Stores, AddrOf, Node
<1> QED
  BY <1>1 DEF IInv, CallsMatch, MisuseHalts, Balanced

\* malloc, or the malloc in realloc, from a store s and what the program holds
\* besides the new block.
LEMMA AllocatesKeeps ==
    ASSUME NEW s, Sound(s, heap), NEW k \in Sizes, NEW a \in Addr, Allocates(s, k, a),
           NEW keep \in SUBSET Addr, NEW l \in SUBSET Addr,
           l \subseteq AddrOf(s.freed), AddrOf(s.in_use) = keep \ l
    PROVE  /\ Sound(store', heap')
           /\ AddrOf(store'.in_use) = (keep \cup {a}) \ l
           /\ l \subseteq AddrOf(store'.freed)
           /\ store'.freed = s.freed
           /\ Cardinality(store'.in_use) = Cardinality(s.in_use) + 1
           /\ Cardinality(s.in_use) \in Nat
           /\ store'.n_malloc = s.n_malloc + 1
           /\ store'.n_realloc = s.n_realloc /\ store'.n_realloc0 = s.n_realloc0
           /\ store'.n_free = s.n_free /\ store'.n_free0 = s.n_free0
<1>1. a \in Addr \ heap /\ store' = Enter(s, [addr |-> a, n_bytes |-> k])
      /\ heap' = heap \cup {a}
  BY DEF Allocates
<1>2. a \notin l
  BY <1>1 DEF Sound
<1>3. /\ Sound(store', heap')
      /\ AddrOf(store'.in_use) = AddrOf(s.in_use) \cup {a}
      /\ store'.freed = s.freed
      /\ Cardinality(store'.in_use) = Cardinality(s.in_use) + 1
      /\ Cardinality(s.in_use) \in Nat
      /\ store'.n_malloc = s.n_malloc + 1
      /\ store'.n_realloc = s.n_realloc /\ store'.n_realloc0 = s.n_realloc0
      /\ store'.n_free = s.n_free /\ store'.n_free0 = s.n_free0
  <2> DEFINE t == store'
             g == heap'
  <2>1. t = Enter(s, [addr |-> a, n_bytes |-> k]) /\ g = heap \cup {a}
    BY <1>1
  <2> QED
    BY ONLY <1>1, <2>1, EnterSound, Sound(s, heap), k \in Sizes
<1>4. AddrOf(store'.in_use) = (keep \cup {a}) \ l
  BY <1>2, <1>3
<1> QED
  BY <1>3, <1>4

\* A failing call changes neither the lists nor the heap.
LEMMA FailsKeeps ==
    ASSUME NEW s, Fails(s)
    PROVE  store' = s /\ heap' = heap
BY DEF Fails, GiveBack

LEMMA LostCount ==
    ASSUME OpenInv
    PROVE  Cardinality(lost) \in Nat /\ Cardinality(store.freed) \in Nat
<1>1. IsFiniteSet(lost)
  BY MemAssumption, FS_Subset DEF OpenInv
<1>2. IsFiniteSet(store.freed)
  BY DEF OpenInv, Sound
<1> QED
  BY <1>1, <1>2, FS_CardinalityType

LEMMA MallocKeeps == ASSUME OpenInv, NEW k \in Sizes, mut_mem__malloc(k) PROVE IInv'
<1>1. phase' = "open" /\ wrong' = wrong /\ lost' = lost
  BY DEF mut_mem__malloc, OpenInv
<1>2. CASE Fails(store) /\ held' = held
  <2>1. store' = store /\ heap' = heap
    BY <1>2, FailsKeeps
  <2> QED
    BY <1>1, <1>2, <2>1 DEF OpenInv, IInv, CallsMatch, MisuseHalts
<1>3. CASE \E a \in Addr : Allocates(store, k, a) /\ held' = held \cup {a}
  <2>1. PICK a \in Addr : Allocates(store, k, a) /\ held' = held \cup {a}
    BY <1>3
  <2>2. held \in SUBSET Addr /\ lost \in SUBSET Addr
    BY DEF OpenInv, IInv
  <2>3. /\ Sound(store', heap')
        /\ AddrOf(store'.in_use) = (held \cup {a}) \ lost
        /\ lost \subseteq AddrOf(store'.freed)
        /\ store'.freed = store.freed
        /\ Cardinality(store'.in_use) = Cardinality(store.in_use) + 1
        /\ Cardinality(store.in_use) \in Nat
        /\ store'.n_malloc = store.n_malloc + 1
        /\ store'.n_realloc = store.n_realloc /\ store'.n_realloc0 = store.n_realloc0
        /\ store'.n_free = store.n_free /\ store'.n_free0 = store.n_free0
    BY <2>1, <2>2, AllocatesKeeps DEF OpenInv
  <2>4. Cardinality(store.freed) \in Nat /\ Cardinality(lost) \in Nat
    BY LostCount
  <2>5. /\ store.n_malloc \in Int /\ store.n_realloc \in Nat /\ store.n_realloc0 \in Nat
        /\ store.n_free \in Nat /\ store.n_free0 \in Nat
        /\ Balanced(store, lost)
    BY DEF OpenInv, Stores
  <2>6. Balanced(store', lost')
    BY <1>1, <2>3, <2>4, <2>5 DEF Balanced
  <2> QED
    BY <1>1, <2>1, <2>2, <2>3, <2>6, StaysOpen DEF OpenInv
<1> QED
  BY <1>2, <1>3 DEF mut_mem__malloc

LEMMA FreeNullKeeps == ASSUME OpenInv, FreeNull PROVE IInv'
<1>1. /\ phase' = "open" /\ wrong' = wrong /\ lost' = lost /\ held' = held /\ heap' = heap
      /\ store' = [store EXCEPT !.n_free = @ + 1, !.n_free0 = @ + 1]
  BY DEF FreeNull, OpenInv
<1>2. /\ store' \in Stores
      /\ store'.in_use = store.in_use /\ store'.freed = store.freed
      /\ store'.n_blocks_in_use = store.n_blocks_in_use
      /\ store'.n_malloc = store.n_malloc /\ store'.n_realloc = store.n_realloc
      /\ store'.n_realloc0 = store.n_realloc0
      /\ store'.n_free = store.n_free + 1 /\ store'.n_free0 = store.n_free0 + 1
  <2> DEFINE F == store.n_free + 1
             G == store.n_free0 + 1
  <2>1. store \in Stores /\ F \in Nat /\ G \in Nat
    BY DEF OpenInv, Stores
  <2>2. store' = [store EXCEPT !.n_free = F, !.n_free0 = G]
    BY <1>1
  <2>3. F = store.n_free + 1 /\ G = store.n_free0 + 1
    OBVIOUS
  <2> HIDE DEF F, G
  <2> QED
    BY <2>1, <2>2, <2>3 DEF Stores
<1>3. Sound(store', heap')
  BY <1>1, <1>2, CountSound DEF OpenInv
<1>4. store'.n_free - store'.n_free0 = store.n_free - store.n_free0
  <2>1. store.n_free \in Nat /\ store.n_free0 \in Nat
    BY DEF OpenInv, Stores
  <2> QED
    BY <1>2, <2>1
<1>5. Balanced(store', lost')
  BY <1>1, <1>2, <1>4 DEF OpenInv, Balanced
<1> QED
  BY <1>1, <1>2, <1>3, <1>5, StaysOpen DEF OpenInv, IInv

\* An address on in_use is one the program holds and has not lost.
LEMMA InUseIsHeld ==
    ASSUME OpenInv, NEW a \in Addr, In(store.in_use, a)
    PROVE  a \in held /\ a \notin lost
BY DEF OpenInv, In, AddrOf

LEMMA FreeKeeps == ASSUME OpenInv, NEW a \in Addr, mut_mem__free(a) PROVE IInv'
<1> DEFINE s == [store EXCEPT !.n_free = @ + 1]
<1>1. /\ phase' = "open" /\ In(store.in_use, a) /\ held' = held \ {a}
      /\ wrong' = (wrong \/ a \notin held) /\ lost' = lost /\ heap' = heap
      /\ store' = Retire(s, NodeOf(store.in_use, a))
  BY DEF mut_mem__free, OpenInv
<1>2. /\ s \in Stores /\ s.in_use = store.in_use /\ s.freed = store.freed
      /\ s.n_blocks_in_use = store.n_blocks_in_use
      /\ s.n_malloc = store.n_malloc /\ s.n_realloc = store.n_realloc
      /\ s.n_realloc0 = store.n_realloc0
      /\ s.n_free = store.n_free + 1 /\ s.n_free0 = store.n_free0
  BY DEF OpenInv, Stores
<1> HIDE DEF s
<1>3. Sound(s, heap)
  BY <1>2, CountSound DEF OpenInv
<1>4. /\ Sound(store', heap)
      /\ AddrOf(store'.in_use) = AddrOf(s.in_use) \ {a}
      /\ AddrOf(store'.freed) = AddrOf(s.freed) \cup {a}
      /\ Cardinality(store'.in_use) = Cardinality(s.in_use) - 1
      /\ Cardinality(store'.freed) = Cardinality(s.freed) + 1
      /\ Cardinality(s.in_use) \in Nat /\ Cardinality(s.freed) \in Nat
      /\ store'.n_malloc = s.n_malloc
      /\ store'.n_realloc = s.n_realloc /\ store'.n_realloc0 = s.n_realloc0
      /\ store'.n_free = s.n_free /\ store'.n_free0 = s.n_free0
  BY <1>1, <1>2, <1>3, RetireSound
<1>5. a \in held /\ a \notin lost
  BY <1>1, InUseIsHeld
<1>6. AddrOf(store'.in_use) = held' \ lost' /\ lost' \subseteq AddrOf(store'.freed)
  BY <1>1, <1>2, <1>4, <1>5 DEF OpenInv
<1>7. Cardinality(lost) \in Nat /\ store \in Stores
  BY LostCount DEF OpenInv
<1>8. Balanced(store', lost')
  BY <1>1, <1>2, <1>4, <1>7 DEF OpenInv, Balanced, Stores
<1> QED
  BY <1>1, <1>4, <1>5, <1>6, <1>8, StaysOpen DEF OpenInv, IInv

LEMMA ReallocNullKeeps == ASSUME OpenInv, NEW k \in Sizes, ReallocNull(k) PROVE IInv'
<1> DEFINE s == [store EXCEPT !.n_realloc = @ + 1, !.n_realloc0 = @ + 1, !.n_malloc = @ - 1]
<1>1. /\ phase' = "open" /\ wrong' = FALSE /\ lost' = lost
      /\ \/ \E a \in Addr : Allocates(s, k, a) /\ held' = held \cup {a}
         \/ Fails(s) /\ held' = held
  BY DEF ReallocNull, OpenInv
<1>2. /\ s \in Stores /\ s.in_use = store.in_use /\ s.freed = store.freed
      /\ s.n_blocks_in_use = store.n_blocks_in_use
      /\ s.n_malloc = store.n_malloc - 1 /\ s.n_realloc = store.n_realloc + 1
      /\ s.n_realloc0 = store.n_realloc0 + 1
      /\ s.n_free = store.n_free /\ s.n_free0 = store.n_free0
  <2> DEFINE R == store.n_realloc + 1
             Z == store.n_realloc0 + 1
             N == store.n_malloc - 1
  <2>1. store \in Stores /\ R \in Nat /\ Z \in Nat /\ N \in Int
    BY DEF OpenInv, Stores
  <2>2. s = [store EXCEPT !.n_realloc = R, !.n_realloc0 = Z, !.n_malloc = N]
    OBVIOUS
  <2>3. R = store.n_realloc + 1 /\ Z = store.n_realloc0 + 1 /\ N = store.n_malloc - 1
    OBVIOUS
  <2> HIDE DEF R, Z, N, s
  <2> QED
    BY <2>1, <2>2, <2>3 DEF Stores
<1> HIDE DEF s
<1>3. Sound(s, heap)
  BY <1>2, CountSound DEF OpenInv
<1>4. /\ store.n_malloc \in Int /\ store.n_realloc \in Nat /\ store.n_realloc0 \in Nat
      /\ store.n_free \in Nat /\ store.n_free0 \in Nat
      /\ Balanced(store, lost)
  BY DEF OpenInv, Stores
<1>5. Cardinality(lost) \in Nat /\ Cardinality(store.freed) \in Nat
  BY LostCount
<1>6. CASE Fails(s) /\ held' = held
  <2>1. store' = s /\ heap' = heap
    BY <1>6, FailsKeeps
  <2>2. Balanced(store', lost')
    BY <1>1, <1>2, <1>4, <1>5, <2>1 DEF Balanced
  <2> QED
    BY <1>1, <1>2, <1>3, <1>6, <2>1, <2>2, StaysOpen DEF OpenInv
<1>7. CASE \E a \in Addr : Allocates(s, k, a) /\ held' = held \cup {a}
  <2>1. PICK a \in Addr : Allocates(s, k, a) /\ held' = held \cup {a}
    BY <1>7
  <2>2. /\ held \in SUBSET Addr /\ lost \in SUBSET Addr
        /\ lost \subseteq AddrOf(s.freed) /\ AddrOf(s.in_use) = held \ lost
    BY <1>2 DEF OpenInv
  <2>3. /\ Sound(store', heap')
        /\ AddrOf(store'.in_use) = (held \cup {a}) \ lost
        /\ lost \subseteq AddrOf(store'.freed)
        /\ store'.freed = s.freed
        /\ Cardinality(store'.in_use) = Cardinality(s.in_use) + 1
        /\ Cardinality(s.in_use) \in Nat
        /\ store'.n_malloc = s.n_malloc + 1
        /\ store'.n_realloc = s.n_realloc /\ store'.n_realloc0 = s.n_realloc0
        /\ store'.n_free = s.n_free /\ store'.n_free0 = s.n_free0
    BY <1>3, <2>1, <2>2, AllocatesKeeps
  <2>4. Balanced(store', lost')
    BY <1>1, <1>2, <1>4, <1>5, <2>3 DEF Balanced
  <2> QED
    BY <1>1, <2>1, <2>2, <2>3, <2>4, StaysOpen
<1> QED
  BY <1>1, <1>6, <1>7

\* The block of old goes to freed; when the new one cannot be had it is lost.
LEMMA ReallocKeeps ==
    ASSUME OpenInv, NEW old \in Addr, NEW k \in Sizes, mut_mem__realloc(old, k)
    PROVE  IInv'
<1> DEFINE s == [store EXCEPT !.n_realloc = @ + 1]
           m == Retire(s, NodeOf(store.in_use, old))
           c == [m EXCEPT !.n_malloc = @ - 1]
<1>1. /\ phase' = "open" /\ In(store.in_use, old)
      /\ wrong' = (wrong \/ old \notin held)
      /\ \/ /\ \E a \in Addr : Allocates(c, k, a) /\ held' = (held \ {old}) \cup {a}
            /\ lost' = lost
         \/ Fails(m) /\ lost' = lost \cup {old} /\ held' = held
  BY DEF mut_mem__realloc, OpenInv
<1>2. /\ s \in Stores /\ s.in_use = store.in_use /\ s.freed = store.freed
      /\ s.n_blocks_in_use = store.n_blocks_in_use
      /\ s.n_malloc = store.n_malloc /\ s.n_realloc = store.n_realloc + 1
      /\ s.n_realloc0 = store.n_realloc0
      /\ s.n_free = store.n_free /\ s.n_free0 = store.n_free0
  BY DEF OpenInv, Stores
<1>3. m = Retire(s, NodeOf(s.in_use, old)) /\ In(s.in_use, old)
  BY <1>1, <1>2
<1> HIDE DEF s
<1>4. Sound(s, heap)
  BY <1>2, CountSound DEF OpenInv
<1> HIDE DEF m
<1>5. /\ Sound(m, heap)
      /\ AddrOf(m.in_use) = AddrOf(s.in_use) \ {old}
      /\ AddrOf(m.freed) = AddrOf(s.freed) \cup {old}
      /\ Cardinality(m.in_use) = Cardinality(s.in_use) - 1
      /\ Cardinality(m.freed) = Cardinality(s.freed) + 1
      /\ Cardinality(s.in_use) \in Nat /\ Cardinality(s.freed) \in Nat
      /\ m.n_malloc = s.n_malloc
      /\ m.n_realloc = s.n_realloc /\ m.n_realloc0 = s.n_realloc0
      /\ m.n_free = s.n_free /\ m.n_free0 = s.n_free0
  BY <1>3, <1>4, RetireSound
<1>6. /\ c \in Stores /\ c.in_use = m.in_use /\ c.freed = m.freed
      /\ c.n_blocks_in_use = m.n_blocks_in_use
      /\ c.n_malloc = m.n_malloc - 1 /\ c.n_realloc = m.n_realloc
      /\ c.n_realloc0 = m.n_realloc0 /\ c.n_free = m.n_free /\ c.n_free0 = m.n_free0
  <2>1. m \in Stores
    BY <1>5 DEF Sound
  <2> QED
    BY <2>1 DEF Stores
<1> HIDE DEF c
<1>7. Sound(c, heap)
  BY <1>5, <1>6, CountSound
<1>8. /\ store.n_malloc \in Int /\ store.n_realloc \in Nat /\ store.n_realloc0 \in Nat
      /\ store.n_free \in Nat /\ store.n_free0 \in Nat
      /\ Balanced(store, lost)
  BY DEF OpenInv, Stores
<1>9. Cardinality(lost) \in Nat
  BY LostCount
<1>10. old \in held /\ old \notin lost
  BY <1>1, InUseIsHeld
<1>11. wrong' = FALSE
  BY <1>1, <1>10 DEF OpenInv
<1>12. CASE Fails(m) /\ lost' = lost \cup {old} /\ held' = held
  <2>1. store' = m /\ heap' = heap
    BY <1>12, FailsKeeps
  <2>2. Cardinality(lost') = Cardinality(lost) + 1
    <3>1. IsFiniteSet(lost)
      BY MemAssumption, FS_Subset DEF OpenInv
    <3> QED
      BY <1>10, <1>12, <3>1, FS_AddElement
  <2>3. Balanced(store', lost')
    BY <1>2, <1>5, <1>8, <1>9, <2>1, <2>2 DEF Balanced
  <2>4. /\ AddrOf(store'.in_use) = held' \ lost' /\ lost' \subseteq AddrOf(store'.freed)
        /\ lost' \subseteq Addr /\ held' \subseteq Addr
    BY <1>2, <1>5, <1>12, <2>1 DEF OpenInv
  <2> QED
    BY <1>1, <1>5, <1>11, <2>1, <2>3, <2>4, StaysOpen
<1>13. CASE /\ \E a \in Addr : Allocates(c, k, a) /\ held' = (held \ {old}) \cup {a}
            /\ lost' = lost
  <2>1. PICK a \in Addr : Allocates(c, k, a) /\ held' = (held \ {old}) \cup {a}
    BY <1>13
  <2>2. /\ held \ {old} \in SUBSET Addr /\ lost \in SUBSET Addr
        /\ lost \subseteq AddrOf(c.freed) /\ AddrOf(c.in_use) = (held \ {old}) \ lost
    BY <1>2, <1>5, <1>6 DEF OpenInv
  <2> DEFINE keep == held \ {old}
  <2>3. keep \in SUBSET Addr /\ AddrOf(c.in_use) = keep \ lost /\ held' = keep \cup {a}
    BY <2>1, <2>2
  <2> HIDE DEF keep
  <2>4. /\ Sound(store', heap')
        /\ AddrOf(store'.in_use) = (keep \cup {a}) \ lost
        /\ lost \subseteq AddrOf(store'.freed)
        /\ store'.freed = c.freed
        /\ Cardinality(store'.in_use) = Cardinality(c.in_use) + 1
        /\ Cardinality(c.in_use) \in Nat
        /\ store'.n_malloc = c.n_malloc + 1
        /\ store'.n_realloc = c.n_realloc /\ store'.n_realloc0 = c.n_realloc0
        /\ store'.n_free = c.n_free /\ store'.n_free0 = c.n_free0
    BY <1>7, <2>1, <2>2, <2>3, AllocatesKeeps
  <2>5. Balanced(store', lost')
    BY <1>2, <1>5, <1>6, <1>8, <1>9, <1>13, <2>4 DEF Balanced
  <2> QED
    BY <1>1, <1>11, <1>13, <2>1, <2>2, <2>3, <2>4, <2>5, StaysOpen
<1> QED
  BY <1>1, <1>12, <1>13

\* An address that is not in use is not held, or was lost.
LEMMA HaltKeeps == ASSUME OpenInv, NEW a \in Addr, HaltOnFault(a) PROVE IInv'
<1>1. /\ ~In(store.in_use, a) /\ phase' = "halted" /\ wrong' = (wrong \/ a \notin held)
      /\ heap' = heap /\ held' = held /\ lost' = lost
      /\ \/ store' = [store EXCEPT !.n_free = @ + 1]
         \/ store' = [store EXCEPT !.n_realloc = @ + 1]
  BY DEF HaltOnFault
<1>2. a \notin held \/ lost # {}
  BY <1>1 DEF OpenInv, In, AddrOf
<1>3. /\ store' \in Stores
      /\ store'.in_use = store.in_use /\ store'.freed = store.freed
      /\ store'.n_blocks_in_use = store.n_blocks_in_use
  BY <1>1 DEF OpenInv, Stores
<1>4. Sound(store', heap')
  BY <1>1, <1>3, CountSound DEF OpenInv
<1>5. wrong' \in BOOLEAN /\ (wrong' \/ lost' # {})
  BY <1>1, <1>2 DEF OpenInv
<1>6. heap \subseteq Addr
  BY DEF OpenInv, IInv
<1> QED
  BY <1>1, <1>3, <1>4, <1>5, <1>6 DEF OpenInv, IInv, CallsMatch, MisuseHalts

LEMMA CloseKeeps == ASSUME OpenInv, mut_mem_close PROVE IInv'
<1>1. /\ phase' \in {"closed", "asserts"} /\ held' = held /\ lost' = lost /\ wrong' = FALSE
      /\ phase' = "closed" => heap' = {} /\ store'.n_blocks_in_use = 0
      /\ heap' \subseteq heap
  BY DEF mut_mem_close, OpenInv, Sound
<1> QED
  BY <1>1 DEF OpenInv, IInv, CallsMatch, MisuseHalts

-----------------------------------------------------------------------------
(* the theorems *)

LEMMA InitInv == Init => IInv
<1> SUFFICES ASSUME Init PROVE IInv
  OBVIOUS
<1>1. /\ store \in Stores
      /\ store.in_use = {} /\ store.freed = {} /\ store.n_blocks_in_use = 0
      /\ store.n_malloc = 0 /\ store.n_realloc = 0 /\ store.n_realloc0 = 0
      /\ store.n_free = 0 /\ store.n_free0 = 0
  BY DEF Init, Stores
<1>2. IsFiniteSet({}) /\ Cardinality({}) = 0
  BY FS_EmptySet
<1>3. Sound(store, heap)
  BY <1>1, <1>2 DEF Init, Sound, AddrOf, Distinct
<1>4. Cardinality(store.in_use) = 0 /\ Cardinality(store.freed) = 0 /\ Cardinality(lost) = 0
  BY <1>1, <1>2 DEF Init
<1>5. CallsMatch
  BY <1>1, <1>4 DEF CallsMatch
<1>6. AddrOf(store.in_use) = {}
  BY <1>1 DEF AddrOf
<1> QED
  BY <1>3, <1>5, <1>6 DEF Init, IInv, MisuseHalts

LEMMA NextInv == IInv /\ [Next]_vars => IInv'
<1> SUFFICES ASSUME IInv, [Next]_vars PROVE IInv'
  OBVIOUS
<1>1. CASE UNCHANGED vars
  BY <1>1 DEF vars, IInv, CallsMatch, MisuseHalts
<1>2. CASE Next
  <2>1. phase = "open"
    BY <1>2 DEF Next, mut_mem__malloc, FreeNull, mut_mem__free, ReallocNull,
                mut_mem__realloc, HaltOnFault, mut_mem_close
  <2>2. OpenInv
    BY <2>1, InvOpens
  <2> QED
    BY <1>2, <2>2, MallocKeeps, FreeNullKeeps, FreeKeeps, ReallocNullKeeps, ReallocKeeps,
       HaltKeeps, CloseKeeps DEF Next
<1> QED
  BY <1>1, <1>2

\* The invariant holds of the manager.
LEMMA InvHolds == Spec => []IInv
BY InitInv, NextInv, PTL DEF Spec

\* At every moment the C library's blocks are those of in_use and freed, each
\* on one of them once, and in_use is what the program holds: no address comes
\* back before mut_mem_close, after which nothing is left.
THEOREM BlocksMatchHolds == Spec => []BlocksMatch
<1>1. IInv => BlocksMatch
  BY DEF IInv, BlocksMatch, Sound
<1> QED
  BY <1>1, InvHolds, PTL

\* The calls that mut_mem_close reports add up to the blocks on the two lists.
THEOREM CallsMatchHolds == Spec => []CallsMatch
<1>1. IInv => CallsMatch
  BY DEF IInv
<1> QED
  BY <1>1, InvHolds, PTL

\* Every free or realloc of an address the program does not hold stops it, and
\* only that does, or a realloc that failed.
THEOREM MisuseHaltsHolds == Spec => []MisuseHalts
<1>1. IInv => MisuseHalts
  BY DEF IInv
<1> QED
  BY <1>1, InvHolds, PTL

-----------------------------------------------------------------------------
(* the bytes *)

\* What the counters of bytes are, and the bounds of the maxima.
Weighed(s) ==
    /\ s.n_bytes_in_use = Bytes(s.in_use)
    /\ s.n_bytes_allocated = Bytes(s.in_use) + Bytes(s.freed)
    /\ s.max_bytes_in_use \in s.n_bytes_in_use..s.n_bytes_allocated
    /\ s.n_blocks_in_use <= s.max_blocks_in_use

Weight == [b \in Node |-> b.n_bytes]

\* The bytes of a list are the sum of the weights of its blocks.
LEMMA BytesIs ==
    ASSUME NEW S \in SUBSET Node, IsFiniteSet(S) PROVE Bytes(S) = Sum(Weight, S)
<1> DEFINE Folds(g) == g = [s \in SUBSET S |-> IF s = {} THEN 0
                                               ELSE Some(s).n_bytes + g[s \ {Some(s)}]]
           k == CHOOSE g : Folds(g)
<1>1. Bytes(S) = k[S]
  BY DEF Bytes, MapThenSumSet, MapThenFoldSet, Some
<1>2. ASSUME NEW s \in SUBSET S, s # {} PROVE Weight[Some(s)] = Some(s).n_bytes
  BY <1>2, SomeIs DEF Weight
<1>3. ASSUME NEW g PROVE Folds(g) <=> IsIter(g, Weight, S)
  <2>1. [s \in SUBSET S |-> IF s = {} THEN 0 ELSE Some(s).n_bytes + g[s \ {Some(s)}]]
          = [s \in SUBSET S |-> IF s = {} THEN 0 ELSE Weight[Some(s)] + g[s \ {Some(s)}]]
    BY <1>2
  <2> QED
    BY <2>1 DEF IsIter
<1>4. \E g : Folds(g)
  BY <1>3, IterExists
<1>5. Folds(k)
  BY <1>4
<1> HIDE DEF k, Folds
<1>6. IsIter(k, Weight, S)
  BY <1>3, <1>5
<1> QED
  BY <1>1, <1>6, SumIs

\* The bytes of a list are a number, and one block more or less is counted.
LEMMA BytesWith ==
    ASSUME NEW S \in SUBSET Node, IsFiniteSet(S), NEW b \in Node
    PROVE  /\ Bytes(S) \in Nat /\ b.n_bytes \in Nat
           /\ b \notin S => Bytes(S \cup {b}) = Bytes(S) + b.n_bytes
           /\ b \in S => Bytes(S) = b.n_bytes + Bytes(S \ {b})
<1>1. \A x \in Node : Weight[x] \in Nat /\ Weight[x] = x.n_bytes
  BY MemAssumption DEF Weight, Node
<1>2. IsFiniteSet(S \cup {b}) /\ S \cup {b} \in SUBSET Node
  BY FS_AddElement
<1>3. IsFiniteSet(S \ {b}) /\ S \ {b} \in SUBSET Node
  BY FS_RemoveElement
<1>4. /\ Bytes(S) = Sum(Weight, S) /\ Bytes(S \cup {b}) = Sum(Weight, S \cup {b})
      /\ Bytes(S \ {b}) = Sum(Weight, S \ {b})
  BY <1>2, <1>3, BytesIs
<1>5. Sum(Weight, S) \in Nat
  BY <1>1, SumType
<1>6. b \notin S => Sum(Weight, S \cup {b}) = Sum(Weight, S) + Weight[b]
  <2>1. \A x \in S \cup {b} : Weight[x] \in Int
    BY <1>1
  <2> QED BY <2>1, SumWith
<1>7. b \in S => Sum(Weight, S) = Weight[b] + Sum(Weight, S \ {b})
  <2>1. \A x \in S : Weight[x] \in Int
    BY <1>1
  <2> QED BY <2>1, SumWithout
<1> QED
  BY <1>1, <1>4, <1>5, <1>6, <1>7

LEMMA EnterWeighed ==
    ASSUME NEW s, NEW h, Sound(s, h), Weighed(s), NEW a \in Addr \ h, NEW k \in Sizes,
           NEW t, t = Enter(s, [addr |-> a, n_bytes |-> k])
    PROVE  Weighed(t)
<1> DEFINE b == [addr |-> a, n_bytes |-> k]
<1>1. b \in Node /\ b.n_bytes = k /\ b \notin s.in_use
  BY DEF Sound, AddrOf, Node
<1>2. s.in_use \in SUBSET Node /\ s.freed \in SUBSET Node
  BY DEF Sound, Stores
<1>3. /\ Bytes(s.in_use) \in Nat /\ k \in Nat /\ Bytes(s.freed) \in Nat
      /\ Bytes(s.in_use \cup {b}) = Bytes(s.in_use) + k
  <2> HIDE DEF b
  <2> QED BY <1>1, <1>2, BytesWith DEF Sound
<1>4. /\ t.in_use = s.in_use \cup {b} /\ t.freed = s.freed
      /\ t.n_bytes_allocated = s.n_bytes_allocated + k
      /\ t.n_bytes_in_use = s.n_bytes_in_use + k
      /\ t.max_bytes_in_use = Larger(s.max_bytes_in_use, s.n_bytes_in_use + k)
      /\ t.n_blocks_in_use = s.n_blocks_in_use + 1
      /\ t.max_blocks_in_use = Larger(s.max_blocks_in_use, s.n_blocks_in_use + 1)
  BY DEF Sound, Stores, Enter
<1>5. s.n_blocks_in_use \in Int /\ s.max_blocks_in_use \in Int
  BY DEF Sound, Stores
<1> HIDE DEF b
<1> QED
  BY <1>3, <1>4, <1>5 DEF Weighed, Larger

LEMMA RetireWeighed ==
    ASSUME NEW s, NEW h, Sound(s, h), Weighed(s), NEW a \in Addr, In(s.in_use, a),
           NEW t, t = Retire(s, NodeOf(s.in_use, a))
    PROVE  Weighed(t)
<1> DEFINE b == NodeOf(s.in_use, a)
<1>1. b \in s.in_use /\ b.addr = a
  BY DEF In, NodeOf
<1>2. s.in_use \in SUBSET Node /\ s.freed \in SUBSET Node
  BY DEF Sound, Stores
<1>3. b \notin s.freed
  BY <1>1 DEF Sound, AddrOf
<1>4. /\ t.in_use = s.in_use \ {b} /\ t.freed = s.freed \cup {b}
      /\ t.n_bytes_allocated = s.n_bytes_allocated
      /\ t.n_bytes_in_use = s.n_bytes_in_use - b.n_bytes
      /\ t.max_bytes_in_use = s.max_bytes_in_use
      /\ t.n_blocks_in_use = s.n_blocks_in_use - 1
      /\ t.max_blocks_in_use = s.max_blocks_in_use
  BY DEF Sound, Stores, Retire
<1> HIDE DEF b
<1>5. /\ Bytes(s.in_use) \in Nat /\ b.n_bytes \in Nat /\ Bytes(s.freed) \in Nat
      /\ Bytes(s.in_use) = b.n_bytes + Bytes(s.in_use \ {b})
      /\ Bytes(s.freed \cup {b}) = Bytes(s.freed) + b.n_bytes
  BY <1>1, <1>2, <1>3, BytesWith DEF Sound
<1>6. Bytes(s.in_use \ {b}) \in Nat
  <2>1. IsFiniteSet(s.in_use \ {b}) /\ s.in_use \ {b} \in SUBSET Node /\ b \in Node
    BY <1>1, <1>2, FS_RemoveElement DEF Sound
  <2> QED BY <2>1, BytesWith
<1>7. s.n_blocks_in_use \in Int /\ s.max_blocks_in_use \in Int
  BY DEF Sound, Stores
<1> QED
  BY <1>4, <1>5, <1>6, <1>7 DEF Weighed

\* Counting a call changes no byte.
LEMMA CountWeighed ==
    ASSUME NEW s, Weighed(s), NEW t,
           t.in_use = s.in_use, t.freed = s.freed, t.n_blocks_in_use = s.n_blocks_in_use,
           t.n_bytes_in_use = s.n_bytes_in_use, t.n_bytes_allocated = s.n_bytes_allocated,
           t.max_bytes_in_use = s.max_bytes_in_use, t.max_blocks_in_use = s.max_blocks_in_use
    PROVE  Weighed(t)
BY DEF Weighed

\* A store that differs in the counts of calls only.
Recounted(s, t) ==
    /\ t \in Stores
    /\ t.in_use = s.in_use /\ t.freed = s.freed /\ t.n_blocks_in_use = s.n_blocks_in_use
    /\ t.n_bytes_in_use = s.n_bytes_in_use /\ t.n_bytes_allocated = s.n_bytes_allocated
    /\ t.max_bytes_in_use = s.max_bytes_in_use /\ t.max_blocks_in_use = s.max_blocks_in_use

LEMMA RecountedKeeps ==
    ASSUME NEW s, NEW h, Sound(s, h), Weighed(s), NEW t, Recounted(s, t)
    PROVE  Sound(t, h) /\ Weighed(t)
<1>1. Sound(t, h)
  BY CountSound DEF Recounted
<1>2. Weighed(t)
  BY CountWeighed DEF Recounted
<1> QED BY <1>1, <1>2

LEMMA MakesWeighed ==
    ASSUME NEW s, NEW k \in Sizes, Sound(s, heap), Weighed(s),
           (\E a \in Addr : Allocates(s, k, a)) \/ Fails(s)
    PROVE  Weighed(store')
<1>1. CASE Fails(s)
  BY <1>1, FailsKeeps
<1>2. CASE \E a \in Addr : Allocates(s, k, a)
  <2>1. PICK a \in Addr : Allocates(s, k, a)
    BY <1>2
  <2> QED BY <2>1, EnterWeighed DEF Allocates
<1> QED BY <1>1, <1>2

Weights == /\ phase = "open" => Weighed(store)
           /\ phase # "asserts"

LEMMA WeightsStep ==
    ASSUME OpenInv, Weighed(store), Next
    PROVE  Weights'
<1>1. Sound(store, heap) /\ store \in Stores
  BY DEF OpenInv
<1>2. ASSUME NEW k \in Sizes, mut_mem__malloc(k) PROVE Weights'
  <2>1. phase' # "asserts" /\ ((\E a \in Addr : Allocates(store, k, a)) \/ Fails(store))
    BY <1>2 DEF mut_mem__malloc
  <2> QED BY <1>1, <2>1, MakesWeighed DEF Weights
<1>3. CASE FreeNull
  <2>1. phase' # "asserts" /\ store' = [store EXCEPT !.n_free = @ + 1, !.n_free0 = @ + 1]
    BY <1>3 DEF FreeNull
  <2> DEFINE F == store.n_free + 1
             Z == store.n_free0 + 1
  <2>2. Recounted(store, store')
    <3>1. F \in Nat /\ Z \in Nat
      BY <1>1 DEF Stores
    <3>2. store' = [store EXCEPT !.n_free = F, !.n_free0 = Z]
      BY <2>1
    <3> HIDE DEF F, Z
    <3> QED BY <1>1, <3>1, <3>2 DEF Recounted, Stores
  <2> QED BY <1>1, <2>1, <2>2, RecountedKeeps DEF Weights
<1>4. ASSUME NEW a \in Addr, mut_mem__free(a) PROVE Weights'
  <2> DEFINE c == [store EXCEPT !.n_free = @ + 1]
  <2>1. /\ phase' # "asserts" /\ In(store.in_use, a)
        /\ store' = Retire(c, NodeOf(store.in_use, a))
    BY <1>4 DEF mut_mem__free
  <2>2. Recounted(store, c)
    BY <1>1 DEF Recounted, Stores
  <2> HIDE DEF c
  <2>3. Sound(c, heap) /\ Weighed(c) /\ c.in_use = store.in_use
    BY <1>1, <2>2, RecountedKeeps DEF Recounted
  <2>4. In(c.in_use, a) /\ store' = Retire(c, NodeOf(c.in_use, a))
    BY <2>1, <2>3
  <2> QED BY <2>1, <2>3, <2>4, RetireWeighed DEF Weights
<1>5. ASSUME NEW k \in Sizes, ReallocNull(k) PROVE Weights'
  <2> DEFINE c == [store EXCEPT !.n_realloc = @ + 1, !.n_realloc0 = @ + 1, !.n_malloc = @ - 1]
  <2>1. phase' # "asserts" /\ ((\E a \in Addr : Allocates(c, k, a)) \/ Fails(c))
    BY <1>5 DEF ReallocNull
  <2> DEFINE R == store.n_realloc + 1
             Z == store.n_realloc0 + 1
             M == store.n_malloc - 1
  <2>2. Recounted(store, c)
    <3>1. R \in Nat /\ Z \in Nat /\ M \in Int
      BY <1>1 DEF Stores
    <3>2. c = [store EXCEPT !.n_realloc = R, !.n_realloc0 = Z, !.n_malloc = M]
      OBVIOUS
    <3> HIDE DEF R, Z, M, c
    <3> QED BY <1>1, <3>1, <3>2 DEF Recounted, Stores
  <2> HIDE DEF c
  <2>3. Sound(c, heap) /\ Weighed(c)
    BY <1>1, <2>2, RecountedKeeps
  <2> QED BY <2>1, <2>3, MakesWeighed DEF Weights
<1>6. ASSUME NEW old \in Addr, NEW k \in Sizes, mut_mem__realloc(old, k) PROVE Weights'
  <2> DEFINE c == [store EXCEPT !.n_realloc = @ + 1]
             moved == Retire(c, NodeOf(store.in_use, old))
             less == [moved EXCEPT !.n_malloc = @ - 1]
  <2>1. /\ phase' # "asserts" /\ In(store.in_use, old)
        /\ (\E a \in Addr : Allocates(less, k, a)) \/ Fails(moved)
    BY <1>6 DEF mut_mem__realloc
  <2>2. Recounted(store, c)
    BY <1>1 DEF Recounted, Stores
  <2> HIDE DEF c
  <2>3. Sound(c, heap) /\ Weighed(c) /\ c.in_use = store.in_use
    BY <1>1, <2>2, RecountedKeeps DEF Recounted
  <2>4. In(c.in_use, old) /\ moved = Retire(c, NodeOf(c.in_use, old))
    BY <2>1, <2>3
  <2> HIDE DEF moved
  <2>5. Sound(moved, heap) /\ Weighed(moved)
    BY <2>3, <2>4, RetireSound, RetireWeighed
  <2>6. Recounted(moved, less)
    BY <2>5 DEF Recounted, Stores, Sound
  <2> HIDE DEF less
  <2>7. Sound(less, heap) /\ Weighed(less)
    BY <2>5, <2>6, RecountedKeeps
  <2> QED BY <2>1, <2>5, <2>7, MakesWeighed DEF Weights
<1>7. ASSUME NEW a \in Addr, HaltOnFault(a) PROVE Weights'
  BY <1>7 DEF HaltOnFault, Weights
<1>8. CASE mut_mem_close
  <2>1. /\ store.n_bytes_in_use = Bytes(store.in_use)
        /\ store.n_blocks_in_use = Cardinality(store.in_use)
    BY <1>1 DEF Weighed, Sound
  <2>2. Bytes(store.in_use) \in Int /\ Cardinality(store.in_use) \in Int
    BY <1>1, <2>1 DEF Stores
  <2>3. phase' = "closed"
    <3> DEFINE s == [store EXCEPT !.n_bytes_in_use = @ - Bytes(store.in_use),
                                  !.n_blocks_in_use = @ - Cardinality(store.in_use)]
    <3>1. s.n_bytes_in_use = 0 /\ s.n_blocks_in_use = 0
      BY <1>1, <2>1, <2>2 DEF Stores
    <3>2. phase' = IF s.n_bytes_in_use = 0 /\ s.n_blocks_in_use = 0 THEN "closed" ELSE "asserts"
      BY <1>8 DEF mut_mem_close
    <3> HIDE DEF s
    <3> QED BY <3>1, <3>2
  <2> QED BY <2>3 DEF Weights
<1> QED
  BY <1>2, <1>3, <1>4, <1>5, <1>6, <1>7, <1>8 DEF Next

LEMMA WeightsHold == Spec => []Weights
<1>1. Init => Weights
  <2> SUFFICES ASSUME Init PROVE Weights
    OBVIOUS
  <2>1. Bytes({}) = 0
    <3>1. Bytes({}) = Sum(Weight, {})
      BY BytesIs, FS_EmptySet
    <3> QED BY <3>1, SumEmpty
  <2> QED BY <2>1 DEF Init, Weights, Weighed
<1>2. IInv /\ Weights /\ [Next]_vars => Weights'
  <2> SUFFICES ASSUME IInv, Weights, [Next]_vars PROVE Weights'
    OBVIOUS
  <2>1. CASE UNCHANGED vars
    BY <2>1 DEF vars, Weights, Weighed
  <2>2. CASE Next
    <3>1. phase = "open"
      BY <2>2 DEF Next, mut_mem__malloc, FreeNull, mut_mem__free, ReallocNull,
                  mut_mem__realloc, HaltOnFault, mut_mem_close
    <3>2. OpenInv
      BY <3>1, InvOpens
    <3> QED BY <2>2, <3>1, <3>2, WeightsStep DEF Weights
  <2> QED BY <2>1, <2>2
<1> QED
  BY <1>1, <1>2, InvHolds, PTL DEF Spec

\* What mut_mem_close reports of the calls and of the bytes is right, and its
\* two assertions hold.
THEOREM ReportMatchesHolds == Spec => []ReportMatches
<1>1. IInv /\ Weights => ReportMatches
  BY DEF IInv, Weights, Weighed, ReportMatches, BytesMatch
<1> QED
  BY <1>1, InvHolds, WeightsHold, PTL

-----------------------------------------------------------------------------
(* the words of a copy *)

\* How far a call has come: the words that are left are the rest of the whole
\* words, from dest and from src alike.
Whole(n) == n - (n % W)
Tail(n) == IF n % W = 0 THEN 0 ELSE W
Rest == W * nwords

Underway ==
    /\ call.dest \in Nat /\ call.src \in Nat /\ call.n \in Nat \ {0}
    /\ call.dest + Covered(call.n) <= W * Words
    /\ call.kind \in {"memcpy", "memset"}
    /\ call.kind = "memcpy" =>
         /\ call.src + Covered(call.n) <= W * Words
         /\ call.dest + Covered(call.n) <= call.src \/ call.src + Covered(call.n) <= call.dest
         /\ src + Rest = call.src + Whole(call.n)
    /\ nwords \in Nat /\ dest \in Nat /\ src \in Nat /\ call.dest <= dest
    /\ dest + Rest = call.dest + Whole(call.n)
    /\ call.goes = "done" => nwords = 0

Idles == call.goes = "no" /\ call.dest = 0 /\ call.n = 0 /\ dest = 0 /\ mem = before

WordsInv ==
    /\ call.goes \in {"no", "on", "failed", "done"}
    /\ Idles \/ (call.goes # "no" /\ Underway)
    /\ WordsRight

LEMMA Products ==
    ASSUME NEW w \in Nat \ {0}, NEW q \in Int, NEW r \in Int, NEW a \in Int,
           a = w * q + r, 0 <= r, r < w
    PROVE  a \div w = q
<1>1. PICK d \in Int, m \in Int : d = a \div w /\ m = a % w
  OBVIOUS
<1>2. a = w * d + m /\ 0 <= m /\ m < w
  BY <1>1
<1>3. \A x, y \in Int : x >= y + 1 => w * x >= w * y + w
  <2>1. SUFFICES ASSUME NEW x \in Int, NEW y \in Int, x >= y + 1 PROVE w * x >= w * y + w
    OBVIOUS
  <2>2. w * (x - y - 1) >= 0
    BY <2>1
  <2>3. w * (x - y - 1) = w * x - w * y - w
    OBVIOUS
  <2>4. w * x \in Int /\ w * y \in Int
    OBVIOUS
  <2> QED
    BY <2>2, <2>3, <2>4
<1>4. w * d \in Int /\ w * q \in Int
  OBVIOUS
<1>5. ~(d >= q + 1) /\ ~(q >= d + 1)
  BY <1>2, <1>3, <1>4
<1> QED
  BY <1>1, <1>5

\* The whole words of m bytes, and the words they are in.
Measured(m) ==
    /\ m % W \in 0..(W - 1) /\ Whole(m) \in Nat /\ m \div W \in Nat
    /\ W * (m \div W) = Whole(m)
    /\ Covered(m) = Whole(m) + Tail(m) /\ Tail(m) \in {0, W} /\ Covered(m) \in Nat

LEMMA LengthIs == \A m \in Nat : Measured(m)
<1> SUFFICES ASSUME NEW m \in Nat PROVE Measured(m)
  OBVIOUS
<1>1. W \in Nat \ {0}
  BY WordsAssumption
<1>2. PICK q \in Int, r \in Int : q = m \div W /\ r = m % W
  BY <1>1
<1>3. m = W * q + r /\ 0 <= r /\ r < W /\ q \in Nat
  BY <1>1, <1>2
<1>4. W * q \in Nat /\ W * (q + 1) = W * q + W
  BY <1>1, <1>3
<1>5. Whole(m) = W * q
  BY <1>2, <1>3, <1>4 DEF Whole
<1>6. CASE r = 0
  <2>1. m + W - 1 = W * q + (W - 1)
    BY <1>1, <1>3, <1>4, <1>6
  <2>2. (m + W - 1) \div W = q
    BY <1>1, <2>1, Products
  <2>3. q * W = W * q
    BY <1>1, <1>3
  <2> QED
    BY <1>1, <1>2, <1>3, <1>4, <1>5, <1>6, <2>2, <2>3 DEF Covered, Tail, Measured
<1>7. CASE r # 0
  <2>1. m + W - 1 = W * (q + 1) + (r - 1) /\ q + 1 \in Int
    BY <1>1, <1>3, <1>4
  <2>2. (m + W - 1) \div W = q + 1
    BY <1>1, <1>3, <1>7, <2>1, Products
  <2>3. (q + 1) * W = W * (q + 1)
    BY <1>1, <1>3
  <2> QED
    BY <1>1, <1>2, <1>3, <1>4, <1>5, <1>7, <2>2, <2>3 DEF Covered, Tail, Measured
<1> QED
  BY <1>6, <1>7

Done == Span(call.dest, dest - call.dest)
Last == IF call.goes = "done" THEN Span(call.dest + Whole(call.n), Covered(call.n) - Whole(call.n)) ELSE {}

LEMMA RightIs ==
    WordsRight <=>
        /\ \A p \in Done : mem[p] = Wanted(p)
        /\ \A p \in Last : Wanted(p) \subseteq mem[p] /\ mem[p] \subseteq Wanted(p) \cup before[p]
        /\ \A p \in Places \ (Done \cup Last) : mem[p] = before[p]
        /\ call.goes = "done" => Done = Span(call.dest, Whole(call.n))
  BY DEF WordsRight, Done, Last, Whole

LEMMA SpanIs ==
    ASSUME NEW a \in Int, NEW m \in Int
    PROVE  \A p : p \in Span(a, m) <=> p \in Int /\ a <= p /\ p < a + m
  BY DEF Span

LEMMA PlacesIs == \A p : p \in Places <=> p \in Nat /\ p < W * Words
<1>1. W * Words \in Nat
  BY WordsAssumption
<1> QED
  BY <1>1 DEF Places

\* While a call is under way.
LEMMA UnderwayIs ==
    ASSUME WordsInv, call.goes # "no"
    PROVE  /\ W \in Nat \ {0} /\ W * Words \in Nat
           /\ Whole(call.n) \in Nat /\ Rest \in Nat /\ Covered(call.n) \in Nat
           /\ Covered(call.n) = Whole(call.n) + Tail(call.n) /\ Tail(call.n) \in {0, W}
           /\ dest <= call.dest + Whole(call.n)
           /\ Underway
           /\ \A p : p \in Done <=> p \in Int /\ call.dest <= p /\ p < dest
<1>1. Underway /\ W \in Nat \ {0} /\ W * Words \in Nat
  BY WordsAssumption DEF WordsInv, Idles
<1>2. call.n \in Nat /\ call.dest \in Nat /\ dest \in Nat /\ nwords \in Nat
  BY <1>1 DEF Underway
<1>3. /\ Whole(call.n) \in Nat /\ Covered(call.n) \in Nat
      /\ Covered(call.n) = Whole(call.n) + Tail(call.n) /\ Tail(call.n) \in {0, W}
  <2>1. call.n \in Nat
    BY <1>2
  <2>2. Measured(call.n)
    BY ONLY <2>1, LengthIs
  <2> QED
    BY <2>2 DEF Measured
<1>4. Rest \in Nat
  BY <1>1, <1>2 DEF Rest
<1>5. dest <= call.dest + Whole(call.n)
  <2>1. dest + Rest = call.dest + Whole(call.n)
    BY <1>1 DEF Underway
  <2> QED
    BY <1>2, <1>3, <1>4, <2>1
<1>6. \A p : p \in Done <=> p \in Int /\ call.dest <= p /\ p < dest
  BY <1>2 DEF Done, Span
<1> QED
  BY <1>1, <1>3, <1>4, <1>5, <1>6

\* The place a byte of a copy comes from, and the byte that is there.
LEMMA SourceIs ==
    ASSUME WordsInv, Copies, NEW p \in Int, dest <= p, p < call.dest + Covered(call.n)
    PROVE  /\ src + (p - dest) = call.src + (p - call.dest)
           /\ mem[src + (p - dest)] = Wanted(p)
<1>1. call.goes = "on" /\ call.kind = "memcpy"
  BY DEF Copies
<1>2. /\ W * Words \in Nat /\ Whole(call.n) \in Nat /\ Rest \in Nat /\ Covered(call.n) \in Nat
      /\ Underway /\ \A x : x \in Done <=> x \in Int /\ call.dest <= x /\ x < dest
      /\ dest <= call.dest + Whole(call.n) /\ Whole(call.n) <= Covered(call.n)
  BY <1>1, UnderwayIs
<1>3. /\ call.dest \in Nat /\ call.src \in Nat /\ dest \in Nat /\ src \in Nat
      /\ call.src + Covered(call.n) <= W * Words
      /\ call.dest + Covered(call.n) <= call.src \/ call.src + Covered(call.n) <= call.dest
      /\ src + Rest = call.src + Whole(call.n) /\ dest + Rest = call.dest + Whole(call.n)
      /\ call.dest <= dest
  BY <1>1, <1>2 DEF Underway
<1>4. PICK x \in Int : x = src + (p - dest)
  BY <1>3
<1>5. x = call.src + (p - call.dest)
  BY <1>2, <1>3, <1>4
<1>6. x \in Nat /\ x < W * Words /\ ~(call.dest <= x /\ x < dest)
  BY <1>2, <1>3, <1>5
<1>7. x \in Places \ (Done \cup Last)
  BY <1>1, <1>2, <1>6, PlacesIs DEF Last
<1>8. mem[x] = before[x]
  BY <1>7, RightIs DEF WordsInv
<1> QED
  BY <1>1, <1>4, <1>5, <1>8 DEF Wanted

\* The bytes a request writes.
DataIs(data) == \A p : p \in Span(dest, W) => data[p - dest] = Wanted(p)

LEMMA CopyData ==
    ASSUME WordsInv, Copies, dest + W <= call.dest + Covered(call.n)
    PROVE  DataIs(Peek(src))
<1>1. /\ W \in Nat \ {0} /\ dest \in Nat /\ call.dest \in Nat /\ Covered(call.n) \in Nat
  BY UnderwayIs DEF Copies, Underway
<1> SUFFICES ASSUME NEW p, p \in Span(dest, W) PROVE Peek(src)[p - dest] = Wanted(p)
  BY DEF DataIs
<1>2. p \in Int /\ dest <= p /\ p < dest + W
  BY <1>1, SpanIs
<1>3. p - dest \in 0..(W - 1) /\ p < call.dest + Covered(call.n)
  BY <1>1, <1>2
<1>4. mem[src + (p - dest)] = Wanted(p)
  BY <1>2, <1>3, SourceIs
<1> QED
  BY <1>3, <1>4 DEF Peek

LEMMA SetData ==
    ASSUME WordsInv, Sets
    PROVE  DataIs(pattern)
<1>1. W \in Nat \ {0} /\ dest \in Nat /\ call.kind = "memset"
  BY UnderwayIs DEF Sets, Underway
<1> SUFFICES ASSUME NEW p, p \in Span(dest, W) PROVE pattern[p - dest] = Wanted(p)
  BY DEF DataIs
<1>2. p - dest \in 0..(W - 1)
  BY <1>1, SpanIs
<1> QED
  BY <1>1, <1>2 DEF pattern, Wanted

\* A whole word is written, and mut goes on to the next one.
LEMMA WordStep ==
    ASSUME WordsInv, call.goes = "on", NEW data, WriteWord(data),
           dest + W <= call.dest + Covered(call.n) => DataIs(data),
           src' = IF call.kind = "memcpy" THEN src + W ELSE src
    PROVE  WordsInv'
<1>1. /\ W \in Nat \ {0} /\ W * Words \in Nat
      /\ Whole(call.n) \in Nat /\ Rest \in Nat /\ Covered(call.n) \in Nat
      /\ Whole(call.n) <= Covered(call.n) /\ Underway
      /\ \A p : p \in Done <=> p \in Int /\ call.dest <= p /\ p < dest
  BY UnderwayIs
<1>2. /\ call.dest \in Nat /\ dest \in Nat /\ src \in Nat /\ nwords \in Nat \ {0} /\ call.dest <= dest
      /\ call.dest + Covered(call.n) <= W * Words
      /\ dest + Rest = call.dest + Whole(call.n)
      /\ call.kind = "memcpy" => src + Rest = call.src + Whole(call.n)
  BY <1>1 DEF Underway, WriteWord
<1>3. /\ call' = call /\ before' = before /\ dest' = dest + W /\ nwords' = nwords - 1
      /\ mem' = [p \in Places |-> IF p \in Span(dest, W) THEN data[p - dest] ELSE mem[p]]
  BY DEF WriteWord, Poke
<1>4. Rest' = Rest - W /\ Rest >= W
  <2>1. W * nwords = W * (nwords - 1) + W /\ W * (nwords - 1) >= 0
    BY <1>1, <1>2
  <2>2. W * nwords \in Int /\ W * (nwords - 1) \in Int
    BY <1>1, <1>2
  <2>3. W * nwords - W = W * (nwords - 1)
    BY <1>1, <2>1, <2>2
  <2> QED
    BY <1>1, <1>3, <2>1, <2>2, <2>3 DEF Rest
<1>5. dest + W <= call.dest + Covered(call.n)
  BY <1>1, <1>2, <1>4
<1>6. Underway'
  <2>1. Whole(call.n)' = Whole(call.n) /\ Covered(call.n)' = Covered(call.n)
    BY <1>3 DEF Whole, Covered
  <2>2. dest' \in Nat /\ src' \in Nat /\ nwords' \in Nat /\ call.dest <= dest'
    BY <1>1, <1>2, <1>3
  <2>3. dest' + Rest' = call.dest + Whole(call.n)
    BY <1>1, <1>2, <1>3, <1>4
  <2>4. call.kind = "memcpy" => src' + Rest' = call.src + Whole(call.n)
    BY <1>1, <1>2, <1>4
  <2> QED
    BY <1>1, <1>3, <2>1, <2>2, <2>3, <2>4 DEF Underway
<1>7. \A p : p \in Done' <=> p \in Done \/ p \in Span(dest, W)
  <2>1. \A p : p \in Done' <=> p \in Int /\ call.dest <= p /\ p < dest + W
    BY <1>1, <1>2, <1>3 DEF Done, Span
  <2> QED
    BY <1>1, <1>2, <2>1, SpanIs
<1>8. Last = {} /\ Last' = {}
  BY <1>3 DEF Last
<1>9. \A p : Wanted(p)' = Wanted(p)
  BY <1>3 DEF Wanted
<1>10. \A p \in Done \cup Span(dest, W) : p \in Places
  BY <1>1, <1>2, <1>5, SpanIs, PlacesIs
<1>11. WordsRight'
  <2>1. /\ \A p \in Done : mem[p] = Wanted(p)
        /\ \A p \in Places \ (Done \cup Last) : mem[p] = before[p]
    BY RightIs DEF WordsInv
  <2>2. \A p \in Done : p \notin Span(dest, W)
    BY <1>1, <1>2, SpanIs
  <2>3. \A p \in Done' : mem'[p] = Wanted(p)'
    BY <1>3, <1>5, <1>7, <1>9, <1>10, <2>1, <2>2 DEF DataIs
  <2>4. \A p \in Places' \ (Done' \cup Last') : mem'[p] = before'[p]
    BY <1>3, <1>7, <1>8, <2>1 DEF Places
  <2>5. call.goes' = "on"
    BY <1>3
  <2> QED
    BY <2>3, <2>4, <2>5 DEF WordsRight, Done, Last, Whole
<1> QED
  BY <1>3, <1>6, <1>11 DEF WordsInv

\* The bytes behind the last whole word are merged into theirs.
LEMMA BytesStep ==
    ASSUME WordsInv, call.goes = "on", NEW data, WriteBytes(data),
           dest + W <= call.dest + Covered(call.n) => DataIs(data)
    PROVE  WordsInv'
<1>1. /\ W \in Nat \ {0} /\ W * Words \in Nat
      /\ Whole(call.n) \in Nat /\ Covered(call.n) \in Nat
      /\ Covered(call.n) = Whole(call.n) + Tail(call.n) /\ Tail(call.n) \in {0, W}
      /\ Underway /\ \A p : p \in Done <=> p \in Int /\ call.dest <= p /\ p < dest
  BY UnderwayIs
<1>2. /\ call.dest \in Nat /\ dest \in Nat /\ nwords = 0
      /\ call.dest + Covered(call.n) <= W * Words
      /\ dest = call.dest + Whole(call.n)
  <2>1. nwords = 0 /\ Rest = 0
    BY <1>1 DEF WriteBytes, Rest
  <2> QED
    BY <1>1, <2>1 DEF Underway
<1>3. /\ call'.kind = call.kind /\ call'.dest = call.dest /\ call'.src = call.src
      /\ call'.n = call.n /\ call'.goes = "done"
  <2>1. \A c : c = [call EXCEPT !.goes = "done"] =>
            /\ c.kind = call.kind /\ c.dest = call.dest /\ c.src = call.src /\ c.n = call.n
    OBVIOUS
  <2>2. call' = [call EXCEPT !.goes = "done"]
    BY DEF WriteBytes
  <2> QED
    BY <2>1, <2>2 DEF WordsInv, Idles, Underway
<1>4. /\ before' = before /\ dest' = dest /\ src' = src /\ nwords' = nwords
  BY DEF WriteBytes
<1>5. Underway'
  <2>1. Whole(call.n)' = Whole(call.n) /\ Covered(call.n)' = Covered(call.n) /\ Rest' = Rest
    BY <1>3, <1>4 DEF Whole, Covered, Rest
  <2> QED
    BY <1>1, <1>2, <1>3, <1>4, <2>1 DEF Underway
<1>6. /\ \A p \in Done : mem[p] = Wanted(p)
      /\ \A p \in Places \ Done : mem[p] = before[p]
  BY RightIs DEF WordsInv, Last
<1>7. \A p : Wanted(p)' = Wanted(p)
  BY <1>3, <1>4 DEF Wanted
<1>8. Done' = Done /\ Done = Span(call.dest, Whole(call.n))
  BY <1>1, <1>2, <1>3, <1>4 DEF Done
<1>9. Whole(call.n)' = Whole(call.n) /\ Covered(call.n)' = Covered(call.n)
  BY <1>3 DEF Whole, Covered
<1>10. Last' = Span(dest, Tail(call.n))
  <2>1. Last' = Span(call.dest + Whole(call.n), Covered(call.n) - Whole(call.n))
    BY <1>3, <1>9 DEF Last
  <2>2. Covered(call.n) - Whole(call.n) = Tail(call.n)
    BY <1>1
  <2> QED
    BY <1>2, <2>1, <2>2
<1>11. CASE call.n % W = 0
  <2>1. mem' = mem /\ Tail(call.n) = 0
    BY <1>11 DEF WriteBytes, Tail
  <2>2. \A p : p \notin Last'
    BY <1>2, <1>10, <2>1, SpanIs
  <2>3. \A p \in Done' : mem'[p] = Wanted(p)'
    BY <1>6, <1>7, <1>8, <2>1
  <2>4. \A p \in Places' \ (Done' \cup Last') : mem'[p] = before'[p]
    BY <1>4, <1>6, <1>8, <2>1 DEF Places
  <2>5. WordsRight'
    <3>1. Done' = Span(call.dest, Whole(call.n))'
      BY <1>3, <1>8, <1>9
    <3> QED
      BY <2>2, <2>3, <2>4, <3>1 DEF WordsRight, Done, Last, Whole
  <2> QED
    BY <1>3, <1>5, <2>5 DEF WordsInv
<1>12. CASE call.n % W # 0
  <2>1. PICK word : word = Merge(call.n % W, data, Peek(dest))
    OBVIOUS
  <2>2. /\ Tail(call.n) = W
        /\ mem' = [p \in Places |-> IF p \in Span(dest, W) THEN word[p - dest] ELSE mem[p]]
    BY <1>12, <2>1 DEF WriteBytes, Tail, Poke
  <2>3. DataIs(data)
    BY <1>1, <1>2, <2>2
  <2>4. \A p : p \in Span(dest, W) <=> p \in Int /\ dest <= p /\ p < dest + W
    BY <1>1, <1>2, SpanIs
  <2>5. \A p \in Span(dest, W) : p \in Places /\ p \notin Done /\ p - dest \in 0..(W - 1)
    BY <1>1, <1>2, <2>2, <2>4, PlacesIs
  <2>6. \A x \in 0..(W - 1) : Peek(dest)[x] = mem[dest + x]
    BY DEF Peek
  <2>7. \A x \in 0..(W - 1) : data[x] \subseteq word[x] /\ word[x] \subseteq data[x] \cup Peek(dest)[x]
    BY <2>1 DEF Merge
  <2>8. \A p \in Span(dest, W) : Wanted(p) \subseteq mem'[p] /\ mem'[p] \subseteq Wanted(p) \cup before[p]
    <3> SUFFICES ASSUME NEW p \in Span(dest, W)
                 PROVE  Wanted(p) \subseteq mem'[p] /\ mem'[p] \subseteq Wanted(p) \cup before[p]
      OBVIOUS
    <3>1. mem'[p] = word[p - dest] /\ data[p - dest] = Wanted(p) /\ mem[p] = before[p]
      BY <1>6, <2>2, <2>3, <2>5 DEF DataIs
    <3>2. Peek(dest)[p - dest] = mem[p]
      <4>1. dest + (p - dest) = p
        BY <1>2, <2>4
      <4> QED
        BY <2>5, <2>6, <4>1
    <3> QED
      BY <2>5, <2>7, <3>1, <3>2
  <2>9. \A p \in Last' : Wanted(p)' \subseteq mem'[p] /\ mem'[p] \subseteq Wanted(p)' \cup before'[p]
    BY <1>4, <1>7, <1>10, <2>2, <2>8
  <2>10. \A p \in Done' : mem'[p] = Wanted(p)'
    <3>1. \A p \in Done : p \in Places /\ p \notin Span(dest, W)
      BY <1>1, <1>2, <2>4, PlacesIs
    <3> QED
      BY <1>6, <1>7, <1>8, <2>2, <3>1
  <2>11. \A p \in Places' \ (Done' \cup Last') : mem'[p] = before'[p]
    BY <1>4, <1>6, <1>8, <1>10, <2>2 DEF Places
  <2>12. WordsRight'
    <3>1. Done' = Span(call.dest, Whole(call.n))'
      BY <1>3, <1>8, <1>9
    <3> QED
      BY <2>9, <2>10, <2>11, <3>1 DEF WordsRight, Done, Last, Whole
  <2> QED
    BY <1>3, <1>5, <2>12 DEF WordsInv
<1> QED
  BY <1>11, <1>12

\* A request that fails leaves everything as it is.
LEMMA FailsStep ==
    ASSUME WordsInv, RequestFails
    PROVE  WordsInv'
<1>1. call.goes = "on" /\ mem' = mem /\ before' = before /\ dest' = dest /\ src' = src
      /\ nwords' = nwords /\ call' = [call EXCEPT !.goes = "failed"]
  BY DEF RequestFails
<1>2. Underway
  BY <1>1, UnderwayIs
<1>3. /\ call'.kind = call.kind /\ call'.dest = call.dest /\ call'.src = call.src
      /\ call'.n = call.n /\ call'.goes \in {"failed", call.goes}
  BY <1>1
<1>4. call'.goes # "done"
  BY <1>1, <1>3
<1>5. Whole(call.n)' = Whole(call.n) /\ Covered(call.n)' = Covered(call.n) /\ Rest' = Rest
      /\ \A p : Wanted(p)' = Wanted(p)
  BY <1>1, <1>3 DEF Whole, Covered, Rest, Wanted
<1>6. Underway'
  BY <1>1, <1>2, <1>3, <1>4, <1>5 DEF Underway
<1>7. Done' = Done /\ Last' = {} /\ Last = {}
  BY <1>1, <1>3, <1>4 DEF Done, Last
<1>8. WordsRight'
  <2>1. /\ \A p \in Done : mem[p] = Wanted(p)
        /\ \A p \in Places \ (Done \cup Last) : mem[p] = before[p]
    BY RightIs DEF WordsInv
  <2>2. \A p \in Done' : mem'[p] = Wanted(p)'
    BY <1>1, <1>5, <1>7, <2>1
  <2>3. \A p \in Places' \ (Done' \cup Last') : mem'[p] = before'[p]
    BY <1>1, <1>7, <2>1 DEF Places
  <2> QED
    BY <1>4, <2>2, <2>3 DEF WordsRight, Done, Last, Whole
<1> QED
  BY <1>1, <1>3, <1>6, <1>8 DEF WordsInv

\* A call begins with nothing done.
LEMMA StartStep ==
    ASSUME WordsInv, NEW kind \in {"memcpy", "memset"}, NEW d \in Aligned, NEW s \in Aligned,
           NEW m \in Lengths, Start(kind, d, s, m)
    PROVE  WordsInv'
<1>1. W \in Nat \ {0} /\ W * Words \in Nat /\ m \in Nat \ {0}
  BY WordsAssumption
<1>2. d \in Nat /\ s \in Nat
  <2>1. \A x \in 0..(Words - 1) : W * x \in Nat
    BY <1>1
  <2> QED
    BY <2>1 DEF Aligned
<1>3. Measured(m)
  BY <1>1, LengthIs
<1>4. /\ call' = [kind |-> kind, dest |-> d, src |-> s, n |-> m, goes |-> "on"]
      /\ mem' = mem /\ before' = mem /\ dest' = d /\ src' = s /\ nwords' = m \div W
  BY DEF Start
<1>5. /\ call'.kind = kind /\ call'.dest = d /\ call'.src = s /\ call'.n = m /\ call'.goes = "on"
  BY <1>4
<1>6. Whole(call.n)' = Whole(m) /\ Covered(call.n)' = Covered(m) /\ Rest' = Whole(m)
  BY <1>3, <1>4, <1>5 DEF Whole, Covered, Rest, Measured
<1>7. Underway'
  BY <1>1, <1>2, <1>3, <1>4, <1>5, <1>6 DEF Underway, Measured, Start
<1>8. WordsRight'
  <2>1. \A p : p \notin Done'
    BY <1>2, <1>4, <1>5 DEF Done, Span
  <2>2. \A p : p \notin Last'
    BY <1>5 DEF Last
  <2>3. \A p : mem'[p] = before'[p]
    BY <1>4
  <2> QED
    BY <1>5, <2>1, <2>2, <2>3 DEF WordsRight, Done, Last, Whole
<1> QED
  BY <1>5, <1>7, <1>8 DEF WordsInv

\* What mut_process_memcpy and mut_process_memset have done to the target's
\* memory, however far they have come and where a request of theirs fails.
THEOREM WordsRightHolds == WordsSpec => []WordsRight
<1>1. WordsInit => WordsInv
  <2> SUFFICES ASSUME WordsInit PROVE WordsInv
    OBVIOUS
  <2>1. /\ call.goes = "no" /\ call.dest = 0 /\ call.n = 0 /\ dest = 0 /\ mem = before
    BY DEF WordsInit
  <2>2. \A p : p \notin Done /\ p \notin Last
    BY <2>1 DEF Done, Last, Span
  <2> QED
    BY <2>1, <2>2, RightIs DEF WordsInv, Idles
<1>2. WordsInv /\ [WordsNext]_wordsVars => WordsInv'
  <2> SUFFICES ASSUME WordsInv, [WordsNext]_wordsVars PROVE WordsInv'
    OBVIOUS
  <2>1. ASSUME NEW kind \in {"memcpy", "memset"}, NEW d \in Aligned, NEW s \in Aligned,
               NEW m \in Lengths, Start(kind, d, s, m)
        PROVE  WordsInv'
    BY <2>1, StartStep
  <2>2. CASE CopyWord
    BY <2>2, WordStep, CopyData DEF CopyWord, Copies
  <2>3. CASE SetWord
    BY <2>3, WordStep, SetData DEF SetWord, Sets
  <2>4. CASE CopyBytes
    BY <2>4, BytesStep, CopyData DEF CopyBytes, Copies
  <2>5. CASE SetBytes
    BY <2>5, BytesStep, SetData DEF SetBytes, Sets
  <2>6. CASE RequestFails
    BY <2>6, FailsStep
  <2>7. CASE UNCHANGED wordsVars
    BY <2>7 DEF wordsVars, WordsInv, Idles, Underway, Rest, Whole, Covered, WordsRight, Wanted, Places, Span
  <2> QED
    BY <2>1, <2>2, <2>3, <2>4, <2>5, <2>6, <2>7 DEF WordsNext
<1>3. WordsInv => WordsRight
  BY DEF WordsInv
<1> QED
  BY <1>1, <1>2, <1>3, PTL DEF WordsSpec
=============================================================================
