----------------------------- MODULE MutProofs -----------------------------
(***************************************************************************)
(* That the books of the handlers are the program's, that they name its    *)
(* faults and nothing else, that no backtrace is lost while they work, and *)
(* that they leave the heap of the target alone.                           *)
(***************************************************************************)
EXTENDS Mut, MutResourceListProofs, MutSums

-----------------------------------------------------------------------------
(* where a call of the program is, and what the handler knows of it *)

Path == {"plain", "malloc", "calloc", "realloc_malloc", "malloc_no_free", "realloc",
         "realloc_no_free"}

Fault == {"none", "FUM", "FFM", "WUM", "MMM", "CMM"}
Warning == {"none", "MR0", "CR0", "RR0"}
Assertion == {"none", "is_new", "consumer"}

HeapSet == [block : [Base -> 0..MaxBlock \cup {Unallocated}], zoned : SUBSET Int,
            corrupt : BOOLEAN]

\* The types of all but the resources.
Typed ==
    /\ flags \in FlagChoices
    /\ pc \in {"target", "call", "act", "exit", "failed", "aborted", "closed"}
    /\ call \in [fn : AllFn \cup {"none"}, p : Nat, k : Nat, n : Nat, expect : Fault]
    /\ arg \in [p : Nat, k : Nat, n : Nat]
    /\ res \in Nat
    /\ h = [path |-> h.path, obj |-> h.obj, bt |-> h.bt]
    /\ h.path \in Path /\ h.bt \in Bt \cup {NoBt}
    /\ report \in [fault : Fault, warning : Warning, assertion : Assertion]
    /\ heap \in HeapSet
    /\ prog = [owned |-> prog.owned, freed |-> prog.freed, overrun |-> prog.overrun,
               faulty |-> prog.faulty, peakSpace |-> prog.peakSpace,
               peakCount |-> prog.peakCount, calls |-> prog.calls]
    /\ DOMAIN prog.owned \subseteq Nat \ {0} /\ prog.owned \in [DOMAIN prog.owned -> Nat]
    /\ prog.freed \subseteq Nat \ {0}

\* While a handler is at work the call is the one the program made.
Working == pc \in {"call", "act", "exit"}

Called ==
    Working =>
      /\ call.fn \in Function /\ call.p \in Pointer
      /\ call.expect = Expected(call.fn, call.p)
      /\ call.expect # "none" => prog.faulty
      /\ call.fn \in {"malloc", "realloc"} => call.k = 1 /\ call.n \in MallocSize
      /\ call.fn = "calloc" => <<call.k, call.n>> \in CallocShape

\* The arguments the handler left, along the path it took.
Running == pc \in {"act", "exit"}

Given(p, k, n) == arg.p = p /\ arg.k = k /\ arg.n = n

Taken ==
    Running =>
      \/ /\ h.path = "plain" /\ h.bt = NoBt
         /\ \/ call.fn = "usage"
            \/ call.fn \in {"free", "cfree"} /\ arg.p = call.p /\ (On("free") \/ call.p = 0)
            \/ call.fn = "realloc" /\ call.p # 0 /\ arg.p = call.p /\ On("free")
      \/ h.path = "malloc" /\ call.fn = "malloc" /\ Given(0, 1, Rounded(call.n))
      \/ h.path = "calloc" /\ call.fn = "calloc"
           /\ IF On("check") THEN Given(0, n_zones(call), mut_zone_size)
                             ELSE Given(0, call.k, call.n)
      \/ h.path = "realloc_malloc" /\ call.fn = "realloc" /\ call.p = 0
           /\ Given(0, 1, Rounded(call.n))
      \/ h.path \in {"malloc_no_free", "realloc_no_free"} /\ call.fn = "realloc" /\ call.p # 0
           /\ ~On("free") /\ Given(0, 1, Rounded(call.n))
      \/ h.path = "realloc" /\ call.fn = "realloc" /\ call.p # 0 /\ On("free")
           /\ Given(call.p, 1, Rounded(call.n))

-----------------------------------------------------------------------------
(* the resources, whatever has become of the heap *)

Listed == Entry(Nat, Nat, AllFn \cup {NoAction})

\* What the handler at work holds.
Holder == IF Running THEN h.bt ELSE NoBt

\* With -c the sizes leave room for the zones in a word.
Sized ==
    On("check") => /\ \A n \in MallocSize : n + 3 * mut_zone_size <= WordMod
                   /\ \A c \in CallocShape : c[1] * c[2] < WordMod

\* Without -f an allocator that hands out a live block would have realloc enter
\* a resource on top of another.
Kept == On("free") \/ "realloc" \notin Function \/ (Undamaged /\ Sized)

Sound(s, held) ==
    /\ Balanced(s, Listed, held)
    /\ \A e \in ToSet(s.elems) : /\ e.consumer = NoAction => e.cbt = NoBt
                                 /\ On("free") => e.consumer = NoAction

Stats == [now : [space : Int, count : Int], total : [space : Int, count : Int],
          maxSpace : [space : Int, count : Int], maxCount : [space : Int, count : Int],
          hits : [AllFn -> Nat]]

Kempt ==
    /\ st \in Stats
    /\ ~Ended => Sound(rs, Holder) /\ h.obj \in 0..Len(rs.elems)
    /\ Running /\ h.path \in {"realloc", "realloc_no_free"}
         => h.obj # 0 /\ rs.elems[h.obj].addr = call.p
    /\ Ended => /\ rs.ref \in [Bt -> Nat]
                /\ rs.n_active_elems \in Nat /\ rs.n_consumed_elems \in Nat
                /\ On("free") => \A e \in ToSet(rs.elems) : e.consumer = NoAction
    /\ pc = "closed" => \A b \in Bt : rs.ref[b] = 0

Lists == Kept => Kempt

-----------------------------------------------------------------------------
(* the books *)

\* -c and -f are not given together, and the heap is as the allocator left it.
Sane == Undamaged /\ ~(On("check") /\ On("free")) /\ Sized

\* An object free or cfree is about to be run with is off the list.
Freeing == Running /\ h.path = "plain" /\ call.fn \in {"free", "cfree"}

Held == DOMAIN prog.owned \ (IF Freeing THEN {call.p} ELSE {})

\* The function returned an object that is not on the list yet.
Gained == pc = "exit" /\ h.path # "plain" /\ res # 0

\* The resource of an object that realloc moved is still where it was.
Left(a) == Gained /\ h.path = "realloc" /\ a = call.p

\* An object of n bytes at a, within a live block.
Housed(a, n) ==
    \E b \in Live : /\ a = b \/ (On("check") /\ a = b + mut_zone_size)
                    /\ a + n <= b + heap.block[b]

InUse == {e \in ToSet(rs.elems) : e.consumer = NoAction}
GivenBack == {e \in ToSet(rs.elems) : e.consumer # NoAction}

Matched ==
    /\ \A e \in InUse : e.addr \in Held /\ prog.owned[e.addr] = e.size
    /\ \A p \in Held : \E e \in InUse : e.addr = p
    /\ \A e \in GivenBack : e.addr \in prog.freed
    /\ ~On("free") => \A p \in prog.freed : \E e \in GivenBack : e.addr = p

HomesKept ==
    \A e \in ToSet(rs.elems) :
        IF Left(e.addr) THEN e.addr \in Base /\ (e.addr \in Live => e.addr = res)
                        ELSE Housed(e.addr, e.size)

\* A block that the program does not have yet is nobody's.
GainKept ==
    Gained => /\ res \in Live /\ heap.block[res] = arg.k * arg.n
              /\ \A e \in ToSet(rs.elems) :
                    e.addr \in {res, res + mut_zone_size} => Left(e.addr)

FreedKept ==
    On("free") => \A p \in prog.freed : p \in Base /\ (p \in Live => Gained /\ p = res)

FreeingKept ==
    /\ Freeing /\ call.p # 0 => IF pc = "act" THEN call.p \in Live \/ prog.faulty
                                              ELSE call.p \in Base \ Live
    /\ Running /\ h.path = "plain" /\ call.fn = "realloc"
         => pc = "act" /\ call.p \notin Live /\ prog.faulty

\* realloc makes a new object without -f for a pointer to none.
StrayKept == Running /\ h.path = "malloc_no_free" => call.p \notin DOMAIN prog.owned

Ledger ==
    /\ DistinctIn(rs.elems)
    /\ Matched /\ HomesKept /\ GainKept /\ FreedKept /\ FreeingKept /\ StrayKept

Books ==
    Sane =>
      /\ ~Ended => Ledger
      /\ pc = "closed" => leaks = {<<p, prog.owned[p]>> : p \in DOMAIN prog.owned}

\* What was reported of the call.
Reports ==
    Sane /\ ~On("check") =>
      /\ pc = "call" => report.fault = "none"
      /\ pc \in {"target", "act", "exit"} => report.fault = call.expect
      /\ report.fault \in {"FUM", "FFM", "WUM"} => report.fault = call.expect

\* With -c blocks are asked for in words.
Worded == Sane /\ On("check") => \A b \in Live : heap.block[b] % mut_zone_size = 0

\* The words MUT zeroes and copies are set aside: without -c an object may end
\* within a word.
Padded == \/ PadsBlocks \/ On("check")
          \/ ~On("zero") /\ (On("free") \/ "realloc" \notin Function)

\* The heap is not damaged but by the program.
Benign ==
    /\ ~(On("check") /\ On("free")) /\ Sized /\ Padded
    /\ ~(On("free") /\ On("zero") /\ "realloc" \in Function)

Unharmed == Benign /\ heap.corrupt => prog.faulty /\ (On("free") \/ On("check"))

IInv == Typed /\ Called /\ Taken /\ Lists /\ Books /\ Reports /\ Worded /\ Unharmed

-----------------------------------------------------------------------------
(* what the pieces of the steps do *)

\* What the program loses and gets when it goes on with r.
Lost(r) == IF call.fn \in {"free", "cfree"} \/ (call.fn = "realloc" /\ r # 0)
             THEN {call.p} \cap DOMAIN prog.owned ELSE {}
Got(r) == IF call.fn \in {"malloc", "calloc", "realloc"} THEN {r} \ {0} ELSE {}

\* Continues, field by field.
LEMMA ContinuesIs ==
    ASSUME Typed, NEW r \in Nat, Continues(r)
    PROVE  /\ pc' = "target" /\ res' = r
           /\ DOMAIN prog'.owned = (DOMAIN prog.owned \ Lost(r)) \cup Got(r)
           /\ \A q \in Got(r) : prog'.owned[q] = call.k * call.n
           /\ \A q \in DOMAIN prog.owned \ (Lost(r) \cup Got(r)) :
                  prog'.owned[q] = prog.owned[q]
           /\ prog'.freed = (prog.freed \cup Lost(r)) \ Got(r)
           /\ prog'.faulty = prog.faulty
           /\ prog' = [owned |-> prog'.owned, freed |-> prog'.freed, overrun |-> prog'.overrun,
                       faulty |-> prog'.faulty, peakSpace |-> prog'.peakSpace,
                       peakCount |-> prog'.peakCount, calls |-> prog'.calls]
           /\ Got(r) \subseteq Nat \ {0} /\ Lost(r) \subseteq DOMAIN prog.owned
<1> DEFINE owned == [q \in (DOMAIN prog.owned \ Lost(r)) \cup Got(r) |->
                       IF q \in Got(r) THEN call.k * call.n ELSE prog.owned[q]]
           overrun == prog.overrun \ (Lost(r) \cup Got(r))
           peakSpace == Greater(prog.peakSpace, Space(owned))
           peakCount == Greater(prog.peakCount, Cardinality(DOMAIN owned))
<1>1. /\ pc' = "target" /\ res' = r
      /\ prog' = [prog EXCEPT !.owned = owned, !.freed = (@ \cup Lost(r)) \ Got(r),
                              !.overrun = @ \ (Lost(r) \cup Got(r)),
                              !.peakSpace = Greater(@, Space(owned)),
                              !.peakCount = Greater(@, Cardinality(DOMAIN owned))]
  BY DEF Continues, Lost, Got
<1>2. DOMAIN owned = (DOMAIN prog.owned \ Lost(r)) \cup Got(r)
  OBVIOUS
<1>3. /\ \A q \in Got(r) : owned[q] = call.k * call.n
      /\ \A q \in DOMAIN prog.owned \ (Lost(r) \cup Got(r)) : owned[q] = prog.owned[q]
  OBVIOUS
<1> HIDE DEF owned
<1>4. Got(r) \subseteq Nat \ {0} /\ Lost(r) \subseteq DOMAIN prog.owned
  BY DEF Got, Lost
<1>5. /\ prog'.owned = owned /\ prog'.freed = (prog.freed \cup Lost(r)) \ Got(r)
      /\ prog'.faulty = prog.faulty
      /\ prog' = [owned |-> prog'.owned, freed |-> prog'.freed, overrun |-> prog'.overrun,
                  faulty |-> prog'.faulty, peakSpace |-> prog'.peakSpace,
                  peakCount |-> prog'.peakCount, calls |-> prog'.calls]
  BY <1>1 DEF Typed
<1> QED
  BY <1>1, <1>2, <1>3, <1>4, <1>5

LEMMA WholeWordsIs ==
    ASSUME NEW n \in Nat
    PROVE  /\ WholeWords(n) \in Nat /\ n <= WholeWords(n) /\ WholeWords(n) <= n + 3
           /\ WholeWords(n) % mut_zone_size = 0
BY DEF WholeWords, mut_zone_size

\* Words within words.
LEMMA WholeWordsFit ==
    ASSUME NEW n \in Nat, NEW m \in Nat, n <= m
    PROVE  /\ WholeWords(n) <= WholeWords(m)
           /\ m % mut_zone_size = 0 => WholeWords(n) <= m
           /\ WholeWords(n + mut_zone_size) = WholeWords(n) + mut_zone_size
BY DEF WholeWords, mut_zone_size

\* The bytes asked for are among those set aside.
LEMMA RoomIs ==
    ASSUME NEW hp \in HeapSet, NEW b \in Base, hp.block[b] # Unallocated
    PROVE  Room(hp, b) \in Nat /\ hp.block[b] <= Room(hp, b) /\ hp.block[b] \in 0..MaxBlock
<1>1. hp.block[b] \in 0..MaxBlock /\ MaxBlock \in Nat
  BY HeapAssumption DEF HeapSet
<1>2. hp.block[b] \in Nat
  BY <1>1
<1>3. WholeWords(hp.block[b]) \in Nat /\ hp.block[b] <= WholeWords(hp.block[b])
  BY <1>2, WholeWordsIs
<1> QED
  BY <1>1, <1>2, <1>3 DEF Room

LEMMA LiveRoom ==
    ASSUME NEW hp \in HeapSet, NEW a \in Int, NEW n \in Int, InLive(hp, a, n)
    PROVE  InRoom(hp, a, n)
<1>1. PICK b \in Base : hp.block[b] # Unallocated /\ b <= a /\ a + n <= b + hp.block[b]
  BY DEF InLive
<1>2. /\ Room(hp, b) \in Nat /\ hp.block[b] <= Room(hp, b) /\ hp.block[b] \in Int
      /\ b \in Int
  <2>1. hp.block[b] \in 0..MaxBlock /\ MaxBlock \in Nat /\ b \in Nat
    BY <1>1, RoomIs, HeapAssumption
  <2> QED
    BY <1>1, <2>1, RoomIs
<1> QED
  BY <1>1, <1>2 DEF InRoom

\* Where a write may go depends on the blocks alone.
LEMMA RoomSame ==
    ASSUME NEW hp, NEW w, w.block = hp.block, NEW a, NEW n
    PROVE  InRoom(w, a, n) <=> InRoom(hp, a, n)
BY DEF InRoom, Room

\* What writing does to the heap.
LEMMA WriteIs ==
    ASSUME NEW hp \in HeapSet, NEW a, NEW n,
           NEW w, w = Write(hp, a, n)
    PROVE  /\ w \in HeapSet /\ w.block = hp.block
           /\ w.corrupt <=> hp.corrupt \/ (n > 0 /\ ~InRoom(hp, a, n))
  BY DEF Write, HeapSet

LEMMA WriteZoneIs ==
    ASSUME NEW hp \in HeapSet, NEW a \in Int, NEW w, w = WriteZone(hp, a)
    PROVE  /\ w \in HeapSet /\ w.block = hp.block
           /\ w.corrupt <=> hp.corrupt \/ ~InRoom(hp, a, mut_zone_size)
  BY DEF WriteZone, HeapSet

\* What mut_zero does.
LEMMA ZeroIs ==
    ASSUME NEW hp \in HeapSet, NEW a, NEW n, NEW w, w = Zero(hp, a, n)
    PROVE  /\ w \in HeapSet /\ w.block = hp.block
           /\ w.corrupt <=> hp.corrupt \/ (On("zero") /\ WholeWords(n) > 0
                                           /\ ~InRoom(hp, a, WholeWords(n)))
<1>1. CASE On("zero")
  <2>1. w = Write(hp, a, WholeWords(n))
    BY <1>1 DEF Zero, mut_process_memset
  <2> QED
    BY <1>1, <2>1, WriteIs
<1>2. CASE ~On("zero")
  BY <1>2 DEF Zero, HeapSet
<1> QED
  BY <1>1, <1>2

\* And installing the zones of an object.
LEMMA InstallIs ==
    ASSUME NEW hp \in HeapSet, NEW a \in Int, NEW n \in Int,
           NEW w, w = mut_install_check_zones(hp, a, n)
    PROVE  /\ w \in HeapSet /\ w.block = hp.block
           /\ w.corrupt <=> hp.corrupt \/ (On("check") /\
                (~InRoom(hp, a, mut_zone_size)
                   \/ ~InRoom(hp, a + n - mut_zone_size, mut_zone_size)))
<1>1. CASE On("check")
  <2> DEFINE u == WriteZone(hp, a)
             z == a + n - mut_zone_size
  <2>1. /\ u \in HeapSet /\ u.block = hp.block
        /\ u.corrupt <=> hp.corrupt \/ ~InRoom(hp, a, mut_zone_size)
    BY WriteZoneIs
  <2>2. z \in Int /\ w = WriteZone(u, z)
    BY <1>1 DEF mut_install_check_zones, mut_zone_size
  <2> HIDE DEF u, z
  <2>3. /\ w \in HeapSet /\ w.block = u.block
        /\ w.corrupt <=> u.corrupt \/ ~InRoom(u, z, mut_zone_size)
    BY <2>1, <2>2, WriteZoneIs
  <2>4. InRoom(u, z, mut_zone_size) <=> InRoom(hp, z, mut_zone_size)
    BY <2>1, RoomSame
  <2> QED
    BY <1>1, <2>1, <2>3, <2>4 DEF z
<1>2. CASE ~On("check")
  BY <1>2 DEF mut_install_check_zones, HeapSet
<1> QED
  BY <1>1, <1>2

\* A block given out.
LEMMA AllocatedIs ==
    ASSUME NEW b \in Base, NEW n \in 0..MaxBlock, heap \in HeapSet,
           NEW w, w = Allocated(heap, b, n)
    PROVE  /\ w \in HeapSet /\ w.corrupt = heap.corrupt
           /\ w.block = [heap.block EXCEPT ![b] = n]
  BY DEF Allocated, HeapSet

\* The sizes MUT works with.
LEMMA RoundedUp ==
    ASSUME NEW n \in Nat
    PROVE  /\ mut_round_up(n) \in Nat
           /\ n + 3 * mut_zone_size <= WordMod => mut_round_up(n) >= n + 2 * mut_zone_size
<1>1. WordMod \in Nat /\ WordMod > 0
  BY HeapAssumption
<1> DEFINE m == (n + mut_zone_size - 1) % WordMod
           k == (m \div mut_zone_size) * mut_zone_size + 2 * mut_zone_size
<1>2. m \in Nat /\ (n + 3 < WordMod => m = n + 3)
  BY <1>1 DEF mut_zone_size
<1> HIDE DEF m
<1>3. k \in Nat /\ k <= m + 8 /\ m + 5 <= k
  BY <1>2 DEF mut_zone_size
<1> HIDE DEF k
<1>4. k % WordMod \in Nat /\ (k < WordMod => k % WordMod = k)
  BY <1>1, <1>3
<1>5. mut_round_up(n) = k % WordMod
  BY DEF mut_round_up, k, m
<1>6. ASSUME n + 3 * mut_zone_size <= WordMod
      PROVE  k < WordMod /\ k >= n + 2 * mut_zone_size
  BY <1>1, <1>2, <1>3, <1>6 DEF mut_zone_size
<1> QED
  BY <1>4, <1>5, <1>6

\* What MUT makes of a size that leaves room for the zones.
LEMMA RoundedIs ==
    ASSUME NEW n \in Nat, WholeWords(n) + 2 * mut_zone_size < WordMod
    PROVE  mut_round_up(n) = WholeWords(n) + 2 * mut_zone_size
<1>1. WordMod \in Nat /\ WholeWords(n) \in Nat /\ n <= WholeWords(n)
  BY HeapAssumption, WholeWordsIs
<1>2. n + 3 \in Nat /\ n + 3 < WordMod
  BY <1>1 DEF mut_zone_size
<1>3. (n + 3) % WordMod = n + 3
  BY <1>1, <1>2
<1> DEFINE m == (n + mut_zone_size - 1) % WordMod
<1>4. m = n + mut_zone_size - 1
  BY <1>3 DEF mut_zone_size
<1>5. mut_round_up(n) = ((m \div mut_zone_size) * mut_zone_size + 2 * mut_zone_size) % WordMod
  BY DEF mut_round_up
<1> HIDE DEF m
<1>6. (m \div mut_zone_size) * mut_zone_size = WholeWords(n)
  BY <1>4 DEF WholeWords
<1>7. mut_round_up(n) = (WholeWords(n) + 2 * mut_zone_size) % WordMod
  BY <1>5, <1>6
<1> DEFINE k == WholeWords(n) + 2 * mut_zone_size
<1>8. k \in Nat /\ k < WordMod
  BY <1>1 DEF mut_zone_size
<1> HIDE DEF k
<1>9. k % WordMod = k
  BY <1>1, <1>8
<1> QED
  BY <1>7, <1>9 DEF k

LEMMA CallocSize ==
    ASSUME NEW c, c.k \in Nat, c.n \in Nat
    PROVE  /\ c.k * c.n \in Nat /\ calloc_size(c) \in Nat
           /\ c.k * c.n < WordMod => calloc_size(c) = c.k * c.n
           /\ n_zones(c) \in Nat
           /\ n_zones(c) * mut_zone_size >= calloc_size(c) + 2 * mut_zone_size
<1>1. WordMod \in Nat /\ WordMod > 0
  BY HeapAssumption
<1> DEFINE m == c.k * c.n
<1>2. m \in Nat
  OBVIOUS
<1> HIDE DEF m
<1>3. m % WordMod \in Nat /\ (m < WordMod => m % WordMod = m)
  BY <1>1, <1>2
<1>4. calloc_size(c) = m % WordMod
  BY DEF calloc_size, m
<1>5. n_zones(c) \in Nat /\ n_zones(c) * mut_zone_size >= calloc_size(c) + 2 * mut_zone_size
  BY <1>3, <1>4 DEF n_zones, mut_zone_size
<1> QED
  BY <1>2, <1>3, <1>4, <1>5 DEF m

-----------------------------------------------------------------------------
(* what the handlers do to the resources *)

Kinds == AllFn \cup {NoAction}

\* A handler opens its backtrace.
LEMMA Opens ==
    ASSUME Sound(rs, NoBt), NEW b \in Fresh, NEW t, t = Opened(b)
    PROVE  b \in Bt \cup {NoBt} /\ Sound(t, b) /\ t.elems = rs.elems
<1>1. Balanced(rs, Listed, NoBt)
  BY DEF Sound
<1>2. CASE On("backtrace")
  <2>1. b \in FreeBt(rs) /\ b \in Bt /\ b # NoBt
    BY <1>2, BtAssumption DEF Fresh, FreeBt, NoBt
  <2>2. t = mut_backtrace_open(rs, b)
    BY <2>1 DEF Opened
  <2>3. Balanced(t, Listed, b) /\ t.elems = rs.elems
    BY <1>1, <2>1, <2>2, OpenBalanced
  <2> QED
    BY <2>1, <2>3 DEF Sound
<1>3. CASE ~On("backtrace")
  <2>1. b = NoBt
    BY <1>3 DEF Fresh
  <2>2. t = rs
    BY <2>1 DEF Opened
  <2> QED
    BY <2>1, <2>2
<1> QED
  BY <1>2, <1>3

\* And closes it.
LEMMA Closes ==
    ASSUME NEW s, NEW b \in Bt \cup {NoBt}, Sound(s, b), NEW t, t = mut_backtrace_close(s, b)
    PROVE  Sound(t, NoBt) /\ t.elems = s.elems
  BY CloseBalanced DEF Sound

\* A resource in use.
Made(a, p, n, b) == [addr |-> a, size |-> n, producer |-> p,
                     consumer |-> NoAction, pbt |-> b, cbt |-> NoBt]

\* The fields of one.
LEMMA MadeIs ==
    ASSUME NEW a \in Nat, NEW p \in AllFn, NEW n \in Nat, NEW b \in Bt \cup {NoBt},
           NEW m, m = Made(a, p, n, b)
    PROVE  /\ m \in Listed /\ m.addr = a /\ m.size = n /\ m.pbt = b
           /\ m.consumer = NoAction /\ m.cbt = NoBt
  BY DEF Made, Listed, Entry

\* The resources of t are those of s and one in use at a, of n bytes.
Entered(s, t, a, n) ==
    /\ DistinctIn(s.elems) => DistinctIn(t.elems)
    /\ \E r : /\ ToSet(t.elems) = ToSet(s.elems) \cup {r}
              /\ r.addr = a /\ r.size = n /\ r.consumer = NoAction

\* A resource is entered at an address that is not on the list.
LEMMA Enters ==
    ASSUME NEW s, NEW b \in Bt \cup {NoBt}, Sound(s, b),
           NEW a \in Nat, NEW p \in AllFn, NEW n \in Nat, At(s, a) = {},
           NEW c, c = mut_resources_create_resource(s, a),
           NEW i, i = mut_resources_lookup(c, a),
           NEW t, t = mut_resource_make_producer(c, i, p, n, b)
    PROVE  /\ mut_resource_is_new(c.elems[i])
           /\ Sound(t, NoBt) /\ Len(t.elems) = Len(s.elems) + 1
           /\ Entered(s, t, a, n)
<1> DEFINE e == NewResource(a)
           m == Made(a, p, n, b)
<1>0. /\ Balanced(s, Listed, b) /\ s \in ListOf(Listed)
      /\ s.elems \in Seq(Listed) /\ NoAction \in Kinds /\ 0 \in Nat /\ p \in Kinds
  BY BalancedNumbers DEF Sound, Kinds
<1>1. /\ Balanced(c, Listed, b) /\ c.elems = <<e>> \o s.elems /\ i = 1
  <2>1. b # NoBt => b \in Bt
    OBVIOUS
  <2>2. Balanced(s, Entry(Nat, Nat, Kinds), b)
    BY <1>0 DEF Listed, Kinds
  <2>3. LET u == mut_resources_create_resource(s, a) IN
        /\ Balanced(u, Entry(Nat, Nat, Kinds), b)
        /\ u.elems = <<NewResource(a)>> \o s.elems
        /\ mut_resources_lookup(u, a) = 1
    BY <1>0, <2>1, <2>2, CreateBalanced
  <2> QED
    BY <2>3 DEF Listed, Kinds
<1>2. /\ e \in Listed /\ e.pbt = NoBt /\ e.consumer = NoAction /\ e.cbt = NoBt /\ e.addr = a
  BY <1>0 DEF NewResource, Listed, Entry
<1> HIDE DEF e
<1>3. /\ c.elems[1] = e /\ Len(c.elems) = Len(s.elems) + 1 /\ Len(s.elems) \in Nat
      /\ c.elems \in Seq(Listed)
  BY <1>0, <1>1, <1>2, PrependSeq
<1>4. 1 \in 1..Len(c.elems)
  BY <1>3
<1>5. \A r \in ToSet(s.elems) : r.addr # a
  BY <1>0, Lookup
<1>6. /\ ToSet(c.elems) = ToSet(s.elems) \cup {e}
      /\ DistinctIn(s.elems) => DistinctIn(c.elems)
  BY <1>0, <1>1, <1>2, <1>5, SetPrepend
<1>7. Balanced(t, Listed, NoBt) /\ t.elems = [c.elems EXCEPT ![1] = m]
  <2>1. /\ c.elems[1].pbt = NoBt /\ c.elems[1].addr = a /\ c.elems[1].consumer = NoAction
        /\ c.elems[1].cbt = NoBt
    BY <1>2, <1>3
  <2>2. Balanced(c, Entry(Nat, Nat, Kinds), b)
    BY <1>1 DEF Listed, Kinds
  <2>3. LET u == mut_resource_make_producer(c, 1, p, n, b)
            r == [addr |-> c.elems[1].addr, size |-> n, producer |-> p,
                  consumer |-> c.elems[1].consumer, pbt |-> b, cbt |-> c.elems[1].cbt]
        IN  /\ Balanced(u, Entry(Nat, Nat, Kinds), NoBt)
            /\ u.elems = [c.elems EXCEPT ![1] = r] /\ r \in Entry(Nat, Nat, Kinds)
    BY <1>0, <1>4, <2>1, <2>2, ProduceBalanced
  <2> QED
    BY <1>1, <2>1, <2>3 DEF Listed, Kinds, Made
<1>8. m \in Listed /\ m.addr = a /\ m.consumer = NoAction /\ m.cbt = NoBt
  BY DEF Made, Listed, Entry
<1> HIDE DEF m
<1>9. \A x : x \in ToSet(t.elems) <=> x \in ToSet(s.elems) \/ x = m
  <2>1. \A j \in 2..Len(c.elems) : t.elems[j] = c.elems[j] /\ c.elems[j] = s.elems[j - 1]
    <3>1. \A j \in 2..(Len(s.elems) + 1) : (<<e>> \o s.elems)[j] = s.elems[j - 1]
      BY <1>0, <1>2, PrependSeq
    <3> SUFFICES ASSUME NEW j \in 2..Len(c.elems)
                 PROVE  t.elems[j] = c.elems[j] /\ c.elems[j] = s.elems[j - 1]
      OBVIOUS
    <3>2. c.elems[j] = s.elems[j - 1]
      BY <1>1, <1>3, <3>1
    <3>3. t.elems[j] = c.elems[j]
      BY <1>3, <1>7
    <3> QED
      BY <3>2, <3>3
  <2>2. t.elems \in Seq(Listed) /\ Len(t.elems) = Len(s.elems) + 1 /\ t.elems[1] = m
    BY <1>3, <1>4, <1>7, <1>8
  <2>3. ASSUME NEW x \in ToSet(s.elems)
        PROVE  x \in ToSet(t.elems)
    <3>1. PICK j \in 1..Len(s.elems) : s.elems[j] = x
      BY <1>0, SetOfSeq
    <3>2. j + 1 \in 2..Len(c.elems) /\ j + 1 \in 1..Len(t.elems) /\ (j + 1) - 1 = j
      BY <1>3, <2>2
    <3>3. t.elems[j + 1] = x
      BY <2>1, <3>1, <3>2
    <3> QED
      BY <2>2, <3>2, <3>3, SetOfSeq
  <2>4. m \in ToSet(t.elems)
    BY <1>3, <2>2, SetOfSeq
  <2>5. ASSUME NEW x \in ToSet(t.elems)
        PROVE  x \in ToSet(s.elems) \/ x = m
    <3>1. PICK j \in 1..Len(t.elems) : t.elems[j] = x
      BY <2>2, SetOfSeq
    <3>2. CASE j = 1
      BY <2>2, <3>1, <3>2
    <3>3. CASE j # 1
      <4>1. j \in 2..Len(c.elems) /\ j - 1 \in 1..Len(s.elems)
        BY <1>3, <2>2, <3>3
      <4> QED
        BY <1>0, <2>1, <3>1, <4>1, SetOfSeq
    <3> QED
      BY <3>2, <3>3
  <2> QED
    BY <2>3, <2>4, <2>5
<1>10. ToSet(t.elems) = ToSet(s.elems) \cup {m}
  BY <1>9
<1>11. ASSUME DistinctIn(s.elems) PROVE DistinctIn(t.elems)
  <2>1. DistinctIn(c.elems)
    BY <1>6, <1>11
  <2>2. \A r \in ToSet(c.elems) : r.addr = m.addr => r = c.elems[1]
    BY <1>3, <1>5, <1>6, <1>8
  <2> QED
    BY <1>3, <1>4, <1>7, <1>8, <2>1, <2>2, SetReplace
<1>12. Sound(t, NoBt)
  BY <1>7, <1>8, <1>10 DEF Sound
<1>13. mut_resource_is_new(c.elems[i])
  BY <1>1, <1>2, <1>3 DEF mut_resource_is_new
<1>14. Len(t.elems) = Len(s.elems) + 1
  BY <1>3, <1>7
<1>15. m.size = n
  BY DEF m, Made
<1>16. Entered(s, t, a, n)
  BY <1>8, <1>10, <1>11, <1>15 DEF Entered
<1> QED
  BY <1>12, <1>13, <1>14, <1>16

\* What is on a list after a resource was replaced or taken out.
LEMMA StillListed ==
    ASSUME NEW R, NEW q \in Seq(R), NEW i \in 1..Len(q), NEW r \in R
    PROVE  /\ [q EXCEPT ![i] = r] \in Seq(R) /\ Len([q EXCEPT ![i] = r]) = Len(q)
           /\ ToSet([q EXCEPT ![i] = r]) \subseteq ToSet(q) \cup {r}
           /\ RemoveAt(q, i) \in Seq(R) /\ Len(RemoveAt(q, i)) = Len(q) - 1
           /\ ToSet(RemoveAt(q, i)) \subseteq ToSet(q)
<1> DEFINE t == [q EXCEPT ![i] = r]
           u == RemoveAt(q, i)
<1>1. t \in Seq(R) /\ Len(t) = Len(q) /\ \A j \in 1..Len(q) : t[j] = IF j = i THEN r ELSE q[j]
  OBVIOUS
<1>2. /\ u \in Seq(R) /\ Len(u) = Len(q) - 1 /\ Len(q) \in Nat
      /\ \A j \in 1..(i - 1) : u[j] = q[j]
      /\ \A j \in i..(Len(q) - 1) : u[j] = q[j + 1]
  <2>1. Len(q) \in Nat
    OBVIOUS
  <2>2. /\ RemoveAt(q, i) \in Seq(R) /\ Len(RemoveAt(q, i)) = Len(q) - 1
        /\ \A j \in 1..(i - 1) : RemoveAt(q, i)[j] = q[j]
        /\ \A j \in i..(Len(q) - 1) : RemoveAt(q, i)[j] = q[j + 1]
    BY RemoveSeq
  <2> QED
    BY <2>1, <2>2
<1> HIDE DEF t, u
<1>3. ToSet(t) \subseteq ToSet(q) \cup {r}
  BY <1>1, SetOfSeq
<1>4. ASSUME NEW x \in ToSet(u) PROVE x \in ToSet(q)
  <2>1. PICK j \in 1..Len(u) : u[j] = x
    BY <1>2, SetOfSeq
  <2>2. \E k \in 1..Len(q) : q[k] = x
    <3>1. CASE j <= i - 1
      <4>1. j \in 1..(i - 1) /\ j \in 1..Len(q)
        BY <1>2, <3>1
      <4> QED
        BY <1>2, <2>1, <4>1
    <3>2. CASE ~(j <= i - 1)
      <4>1. j \in i..(Len(q) - 1) /\ j + 1 \in 1..Len(q)
        BY <1>2, <3>2
      <4> QED
        BY <1>2, <2>1, <4>1
    <3> QED
      BY <3>1, <3>2
  <2> QED
    BY <2>2, SetOfSeq
<1> QED
  BY <1>1, <1>2, <1>3, <1>4 DEF t, u

\* A resource without a backtrace is taken for a new one.
LEMMA Refreshes ==
    ASSUME NEW s, NEW b \in Bt \cup {NoBt}, Sound(s, b),
           NEW i \in 1..Len(s.elems), mut_resource_is_new(s.elems[i]),
           NEW p \in AllFn, NEW n \in Nat,
           NEW t, t = mut_resource_make_producer(s, i, p, n, b)
    PROVE  Sound(t, NoBt) /\ Len(t.elems) = Len(s.elems)
<1> DEFINE e == s.elems[i]
           r == [addr |-> e.addr, size |-> n, producer |-> p,
                 consumer |-> e.consumer, pbt |-> b, cbt |-> e.cbt]
<1>1. /\ Balanced(s, Entry(Nat, Nat, Kinds), b) /\ s.elems \in Seq(Listed) /\ p \in Kinds
      /\ e.pbt = NoBt
  BY BalancedNumbers DEF Sound, Kinds, Listed, mut_resource_is_new
<1>2. Balanced(t, Listed, NoBt) /\ t.elems = [s.elems EXCEPT ![i] = r] /\ r \in Listed
  <2>1. LET u == mut_resource_make_producer(s, i, p, n, b)
            x == [addr |-> s.elems[i].addr, size |-> n, producer |-> p,
                  consumer |-> s.elems[i].consumer, pbt |-> b, cbt |-> s.elems[i].cbt]
        IN  /\ Balanced(u, Entry(Nat, Nat, Kinds), NoBt)
            /\ u.elems = [s.elems EXCEPT ![i] = x] /\ x \in Entry(Nat, Nat, Kinds)
    BY <1>1, ProduceBalanced
  <2> QED
    BY <2>1 DEF Listed, Kinds
<1>3. e \in ToSet(s.elems)
  BY <1>1, SetOfSeq
<1>4. /\ r.consumer = NoAction => r.cbt = NoBt
      /\ On("free") => r.consumer = NoAction
  BY <1>3 DEF Sound
<1> HIDE DEF r, e
<1>5. ToSet(t.elems) \subseteq ToSet(s.elems) \cup {r} /\ Len(t.elems) = Len(s.elems)
  BY <1>1, <1>2, StillListed
<1> QED
  BY <1>2, <1>4, <1>5 DEF Sound

\* The resources of t are those of s without e.
Removed(s, t, e) ==
    DistinctIn(t.elems) /\ \A x : x \in ToSet(t.elems) <=> x \in ToSet(s.elems) /\ x # e

\* mut_resources_really_delete_resource of what lookup found.
LEMMA Unlinks ==
    ASSUME NEW s, NEW b \in Bt \cup {NoBt}, Sound(s, b), NEW i \in 1..Len(s.elems),
           mut_resources_lookup(s, s.elems[i].addr) = i, NEW e, e = s.elems[i],
           e.consumer = NoAction,
           NEW t, t = mut_resources_really_delete_resource(s, i)
    PROVE  Sound(t, b) /\ (DistinctIn(s.elems) => Removed(s, t, e))
<1>1. /\ Balanced(s, Entry(Nat, Nat, Kinds), b) /\ s.elems \in Seq(Listed) /\ e \in Listed
  BY BalancedNumbers DEF Sound, Kinds, Listed
<1>2. e \in ToSet(s.elems)
  BY <1>1, SetOfSeq
<1>3. e.cbt = NoBt
  BY <1>2 DEF Sound
<1>4. Balanced(t, Listed, b) /\ t.elems = RemoveAt(s.elems, i)
  BY <1>1, <1>3, UnlinkBalanced DEF Listed, Kinds
<1>5. ToSet(t.elems) \subseteq ToSet(s.elems)
  BY <1>1, <1>4, StillListed
<1>6. DistinctIn(s.elems)
        => DistinctIn(t.elems) /\ ToSet(t.elems) = ToSet(s.elems) \ {e}
  BY <1>1, <1>4, SetRemove
<1>7. DistinctIn(s.elems) => Removed(s, t, e)
  BY ONLY <1>6 DEF Removed
<1> QED
  BY <1>4, <1>5, <1>7 DEF Sound

\* A resource given back to c.
Gone(e, c, b) == [addr |-> e.addr, size |-> e.size, producer |-> e.producer,
                  consumer |-> c, pbt |-> e.pbt, cbt |-> b]

\* The resources of t are those of s, with r in the place of e.
Swapped(s, t, e, r) ==
    /\ DistinctIn(t.elems)
    /\ \A x : x \in ToSet(t.elems) <=> (x \in ToSet(s.elems) /\ x # e) \/ x = r

\* mut_resources_mark_as_free.
LEMMA Marks ==
    ASSUME NEW s, NEW b \in Bt \cup {NoBt}, Sound(s, b), ~On("free"),
           NEW i \in 1..Len(s.elems), NEW c \in AllFn,
           NEW e, e = s.elems[i], e.consumer = NoAction, NEW r, r = Gone(e, c, b),
           NEW t, t = mut_resources_mark_as_free(s, i, c, b)
    PROVE  /\ Sound(t, b) /\ Len(t.elems) = Len(s.elems)
           /\ DistinctIn(s.elems) => Swapped(s, t, e, r)
           /\ r.addr = e.addr /\ r.size = e.size /\ r.consumer = c /\ c # NoAction
<1>1. /\ Balanced(s, Entry(Nat, Nat, Kinds), b) /\ s.elems \in Seq(Listed) /\ e \in Listed
      /\ c \in Kinds /\ c # NoAction
  BY BalancedNumbers DEF Sound, Kinds, Listed, AllFn, NoAction
<1>2. e \in ToSet(s.elems)
  BY <1>1, SetOfSeq
<1>3. e.cbt = NoBt
  BY <1>2 DEF Sound
<1>4. Balanced(t, Listed, b) /\ t.elems = [s.elems EXCEPT ![i] = r] /\ r \in Listed
  BY <1>1, <1>3, MarkBalanced DEF Listed, Kinds, Gone
<1>5. r.addr = e.addr /\ r.size = e.size /\ r.consumer = c
  BY DEF Gone
<1>6. ToSet(t.elems) \subseteq ToSet(s.elems) \cup {r} /\ Len(t.elems) = Len(s.elems)
  BY <1>1, <1>4, StillListed
<1>7. ASSUME DistinctIn(s.elems) PROVE Swapped(s, t, e, r)
  <2>1. \A x \in ToSet(s.elems) : x.addr = r.addr => x = s.elems[i]
    BY <1>1, <1>2, <1>5, <1>7, SetOfSeq DEF DistinctIn
  <2>2. /\ ToSet([s.elems EXCEPT ![i] = r]) = (ToSet(s.elems) \ {s.elems[i]}) \cup {r}
        /\ DistinctIn([s.elems EXCEPT ![i] = r])
    BY <1>1, <1>4, <1>7, <2>1, SetReplace
  <2> QED
    BY <1>4, <2>2 DEF Swapped
<1> QED
  BY <1>1, <1>4, <1>5, <1>6, <1>7 DEF Sound

\* The one at i becomes m; the backtrace it was made with is closed.
Moved(s, i, m) ==
    [mut_backtrace_close(s, s.elems[i].pbt) EXCEPT !.elems = [s.elems EXCEPT ![i] = m]]

\* A resource in use is given another address and size.
LEMMA Moves ==
    ASSUME NEW s, NEW b \in Bt \cup {NoBt}, Sound(s, b), NEW i \in 1..Len(s.elems),
           NEW a \in Nat, NEW p \in AllFn, NEW n \in Nat,
           NEW e, e = s.elems[i], e.consumer = NoAction, NEW m, m = Made(a, p, n, b),
           NEW t, t = Moved(s, i, m)
    PROVE  /\ Sound(t, NoBt) /\ Len(t.elems) = Len(s.elems)
           /\ DistinctIn(s.elems) /\ (\A x \in ToSet(s.elems) : x.addr = a => x = e)
                => Swapped(s, t, e, m)
<1>1. /\ Balanced(s, Entry(Nat, Nat, Kinds), b) /\ s.elems \in Seq(Listed) /\ e \in Listed
  BY BalancedNumbers DEF Sound, Kinds, Listed
<1>2. e \in ToSet(s.elems)
  BY <1>1, SetOfSeq
<1>3. e.cbt = NoBt
  BY <1>2 DEF Sound
<1>4. m \in Listed /\ m.addr = a /\ m.consumer = NoAction /\ m.cbt = NoBt /\ m.pbt = b
  BY DEF Made, Listed, Entry
<1> DEFINE q == [s.elems EXCEPT ![i] = m]
           u == mut_backtrace_close(s, e.pbt)
<1>5. Balanced(t, Listed, NoBt) /\ t.elems = q
  <2>1. t = [u EXCEPT !.elems = q] /\ u = mut_backtrace_close(s, s.elems[i].pbt)
    BY DEF Moved
  <2>2. Balanced(s, Entry(Nat, Nat, Kinds), b) /\ m \in Entry(Nat, Nat, Kinds)
    BY <1>1, <1>4 DEF Listed, Kinds
  <2>3. q = [s.elems EXCEPT ![i] = m]
    OBVIOUS
  <2> HIDE DEF q, u
  <2>4. s.elems[i].consumer = NoAction /\ s.elems[i].cbt = NoBt
    BY <1>3
  <2>5. m.consumer = NoAction /\ m.cbt = NoBt /\ m.pbt = b
    BY <1>4
  <2>6. b \in Bt \cup {NoBt} /\ i \in 1..Len(s.elems)
    OBVIOUS
  <2>7. Balanced(t, Entry(Nat, Nat, Kinds), NoBt) /\ t.elems = q
    BY ONLY <2>1, <2>2, <2>3, <2>4, <2>5, <2>6, ReplaceBalanced
  <2> QED
    BY <2>7 DEF Listed, Kinds
<1>6. ToSet(t.elems) \subseteq ToSet(s.elems) \cup {m} /\ Len(t.elems) = Len(s.elems)
  <2>1. ToSet(q) \subseteq ToSet(s.elems) \cup {m} /\ Len(q) = Len(s.elems)
    <3>1. \A x \in Listed : /\ ToSet([s.elems EXCEPT ![i] = x]) \subseteq ToSet(s.elems) \cup {x}
                             /\ Len([s.elems EXCEPT ![i] = x]) = Len(s.elems)
      <4> SUFFICES ASSUME NEW x \in Listed
                   PROVE  /\ ToSet([s.elems EXCEPT ![i] = x]) \subseteq ToSet(s.elems) \cup {x}
                          /\ Len([s.elems EXCEPT ![i] = x]) = Len(s.elems)
        OBVIOUS
      <4>1. s.elems \in Seq(Listed)
        BY <1>1
      <4> QED
        BY ONLY <4>1, StillListed
    <3> QED
      BY <1>4, <3>1
  <2> QED
    BY <1>5, <2>1
<1>7. ASSUME DistinctIn(s.elems), \A x \in ToSet(s.elems) : x.addr = a => x = e
      PROVE Swapped(s, t, e, m)
  <2>1. \A x \in ToSet(s.elems) : x.addr = m.addr => x = s.elems[i]
    BY <1>4, <1>7
  <2>2. /\ ToSet([s.elems EXCEPT ![i] = m]) = (ToSet(s.elems) \ {s.elems[i]}) \cup {m}
        /\ DistinctIn([s.elems EXCEPT ![i] = m])
    BY <1>1, <1>4, <1>7, <2>1, SetReplace
  <2> QED
    BY <1>5, <2>2 DEF Swapped
<1> QED
  BY <1>4, <1>5, <1>6, <1>7 DEF Sound

-----------------------------------------------------------------------------
(* the types, and where a call is *)

\* A handler has more to do after the function ran.
LEMMA EnterIs ==
    ASSUME Typed, NEW path \in Path, NEW obj, NEW b \in Bt \cup {NoBt},
           NEW p \in Nat, NEW k \in Nat, NEW n \in Nat, EnterAction(path, obj, b, p, k, n)
    PROVE  /\ pc' = "act" /\ h'.path = path /\ h'.obj = obj /\ h'.bt = b
           /\ h' = [path |-> h'.path, obj |-> h'.obj, bt |-> h'.bt]
           /\ arg'.p = p /\ arg'.k = k /\ arg'.n = n
           /\ arg' \in [p : Nat, k : Nat, n : Nat]
  BY DEF EnterAction

\* The target's function runs or is skipped.
LEMMA FreeOrSkipIs ==
    ASSUME Typed, FreeOrSkip
    PROVE  /\ h' = Plain /\ h'.path = "plain" /\ h'.bt = NoBt /\ h'.obj = 0
           /\ h' = [path |-> h'.path, obj |-> h'.obj, bt |-> h'.bt]
           /\ \/ /\ On("free") /\ pc' = "act" /\ UNCHANGED <<res, prog>>
                 /\ arg'.p = call.p /\ arg' \in [p : Nat, k : Nat, n : Nat]
              \/ ~On("free") /\ Continues(0) /\ UNCHANGED arg /\ pc' = "target"
  BY DEF FreeOrSkip, Plain, Typed, Continues

\* What the types say of the state after Continues.
LEMMA ContinuesTyped ==
    ASSUME Typed, NEW r \in Nat, Continues(r)
    PROVE  /\ res' \in Nat /\ pc' = "target"
           /\ prog' = [owned |-> prog'.owned, freed |-> prog'.freed, overrun |-> prog'.overrun,
                       faulty |-> prog'.faulty, peakSpace |-> prog'.peakSpace,
                       peakCount |-> prog'.peakCount, calls |-> prog'.calls]
           /\ DOMAIN prog'.owned \subseteq Nat \ {0} /\ prog'.owned \in [DOMAIN prog'.owned -> Nat]
           /\ prog'.freed \subseteq Nat \ {0}
<1>1. call.k * call.n \in Nat
  <2>1. call.k \in Nat /\ call.n \in Nat
    BY DEF Typed
  <2> QED
    BY <2>1
<1>2. /\ DOMAIN prog.owned \subseteq Nat \ {0} /\ \A p \in DOMAIN prog.owned : prog.owned[p] \in Nat
      /\ prog.freed \subseteq Nat \ {0}
  BY DEF Typed
<1>3. /\ DOMAIN prog'.owned \subseteq Nat \ {0}
      /\ \A p \in DOMAIN prog'.owned : prog'.owned[p] \in Nat
      /\ prog'.freed \subseteq Nat \ {0}
  BY <1>1, <1>2, ContinuesIs
<1>4. prog'.owned = [p \in DOMAIN prog'.owned |-> prog'.owned[p]]
  BY DEF Continues, Typed
<1> QED
  BY <1>3, <1>4, ContinuesIs

\* The sizes and pointers the program uses.
LEMMA Inputs ==
    /\ MallocSize \subseteq Nat
    /\ \A c \in CallocShape : c[1] \in Nat /\ c[2] \in Nat
    /\ Base \subseteq Nat \ {0} /\ Stray \subseteq Nat \ {0}
    /\ WordMod \in Nat /\ MaxBlock \in Nat
  BY ProgramAssumption, HeapAssumption

LEMMA PointerType ==
    ASSUME Typed PROVE Pointer \subseteq Nat
  BY Inputs DEF Typed, Pointer

LEMMA RoundedType ==
    ASSUME NEW n \in Nat PROVE Rounded(n) \in Nat
  BY RoundedUp DEF Rounded

\* A call of the program, or a write of it outside its objects.
LEMMA ProgramTyped ==
    ASSUME Typed, ProgramStep PROVE Typed'
<1>1. ASSUME NEW fn \in AllFn, NEW p \in Nat, NEW k \in Nat, NEW n \in Nat, TargetCalls(fn, p, k, n)
      PROVE  Typed'
  <2>1. Expected(fn, p) \in Fault
    BY DEF Expected, Fault
  <2>2. call' \in [fn : AllFn \cup {"none"}, p : Nat, k : Nat, n : Nat, expect : Fault]
    BY <1>1, <2>1 DEF TargetCalls
  <2>3. report' \in [fault : Fault, warning : Warning, assertion : Assertion]
    BY <1>1 DEF TargetCalls, NoReport, Fault, Warning, Assertion
  <2>4. /\ prog' = [owned |-> prog'.owned, freed |-> prog'.freed, overrun |-> prog'.overrun,
                   faulty |-> prog'.faulty, peakSpace |-> prog'.peakSpace,
                   peakCount |-> prog'.peakCount, calls |-> prog'.calls]
        /\ prog'.owned = prog.owned /\ prog'.freed = prog.freed
    BY <1>1 DEF TargetCalls, Typed
  <2> QED
    BY <1>1, <2>2, <2>3, <2>4 DEF Typed, TargetCalls
<1>2. ASSUME NEW p \in DOMAIN prog.owned, NEW w \in Outside(p), TargetOverruns(p, w)
      PROVE  Typed'
  <2>1. heap' \in HeapSet
    BY <1>2, WriteIs DEF TargetOverruns, Typed
  <2>2. call' \in [fn : AllFn \cup {"none"}, p : Nat, k : Nat, n : Nat, expect : Fault]
    BY <1>2 DEF TargetOverruns, Typed, Fault
  <2>3. report' \in [fault : Fault, warning : Warning, assertion : Assertion]
    BY <1>2 DEF TargetOverruns, NoReport, Fault, Warning, Assertion
  <2>4. /\ prog' = [owned |-> prog'.owned, freed |-> prog'.freed, overrun |-> prog'.overrun,
                   faulty |-> prog'.faulty, peakSpace |-> prog'.peakSpace,
                   peakCount |-> prog'.peakCount, calls |-> prog'.calls]
        /\ prog'.owned = prog.owned /\ prog'.freed = prog.freed
    BY <1>2 DEF TargetOverruns, Typed
  <2> QED
    BY <1>2, <2>1, <2>2, <2>3, <2>4 DEF Typed, TargetOverruns
<1>3. /\ "malloc" \in AllFn /\ "calloc" \in AllFn /\ "realloc" \in AllFn /\ "free" \in AllFn
      /\ "cfree" \in AllFn /\ "usage" \in AllFn /\ 0 \in Nat /\ 1 \in Nat
  BY DEF AllFn
<1>4. ASSUME NEW n \in MallocSize, TargetCalls("malloc", 0, 1, n) PROVE Typed'
  BY <1>1, <1>3, <1>4, Inputs
<1>5. ASSUME NEW c \in CallocShape, TargetCalls("calloc", 0, c[1], c[2]) PROVE Typed'
  BY <1>1, <1>3, <1>5, Inputs
<1>6. ASSUME NEW p \in Pointer, NEW n \in MallocSize, TargetCalls("realloc", p, 1, n)
      PROVE Typed'
  BY <1>1, <1>3, <1>6, Inputs, PointerType
<1>7. ASSUME NEW p \in Pointer, NEW f \in {"free", "cfree"}, TargetCalls(f, p, 1, 0)
      PROVE Typed'
  BY <1>1, <1>3, <1>7, PointerType
<1>8. ASSUME TargetCalls("usage", 0, 1, 0) PROVE Typed'
  BY <1>1, <1>3, <1>8
<1> QED
  BY <1>2, <1>4, <1>5, <1>6, <1>7, <1>8 DEF ProgramStep

\* What the allocator may return, and what it does to the blocks.
LEMMA AllocatesIs ==
    ASSUME heap \in HeapSet, NEW n \in Nat, Allocates(n)
    PROVE  /\ heap' \in HeapSet /\ heap'.corrupt = heap.corrupt /\ res' \in Nat
           /\ \/ res' = 0 /\ heap' = heap
              \/ /\ res' \in Base /\ n <= MaxBlock
                 /\ res' \notin Live \/ heap.corrupt
                 /\ heap'.block = [heap.block EXCEPT ![res'] = n]
<1>1. CASE res' = 0 /\ heap' = heap
  BY <1>1
<1>2. CASE ~(res' = 0 /\ heap' = heap)
  <2>1. PICK b \in Base : /\ n <= MaxBlock /\ (b \notin Live \/ heap.corrupt)
                          /\ res' = b /\ heap' = Allocated(heap, b, n)
    BY <1>2 DEF Allocates
  <2>2. n <= MaxBlock
    BY <1>2 DEF Allocates
  <2>3. n \in 0..MaxBlock
    BY <2>2, Inputs
  <2> QED
    BY <2>1, <2>2, <2>3, AllocatedIs, Inputs
<1> QED
  BY <1>1, <1>2

LEMMA ReallocatesIs ==
    ASSUME heap \in HeapSet, NEW p \in Live, NEW n \in Nat, Reallocates(p, n)
    PROVE  /\ heap' \in HeapSet /\ heap'.corrupt = heap.corrupt /\ res' \in Nat
           /\ \/ res' = 0 /\ heap' = heap
              \/ /\ res' \in Base /\ n <= MaxBlock
                 /\ res' = p \/ res' \notin Live \/ heap.corrupt
                 /\ heap'.block = [b \in Base |-> IF b = res' THEN n
                                                  ELSE IF b = p THEN Unallocated
                                                  ELSE heap.block[b]]
<1>1. CASE res' = 0 /\ heap' = heap
  BY <1>1
<1>2. CASE ~(res' = 0 /\ heap' = heap)
  <2>1. PICK b \in Base :
           /\ b = p \/ b \notin Live \/ heap.corrupt
           /\ res' = b
           /\ heap' = [heap EXCEPT !.block = [[@ EXCEPT ![p] = Unallocated] EXCEPT ![b] = n]]
    BY <1>2 DEF Reallocates
  <2>2. n <= MaxBlock
    BY <1>2 DEF Reallocates
  <2>3. n \in 0..MaxBlock /\ p \in Base
    BY <2>2, Inputs DEF Live
  <2> DEFINE block == [[heap.block EXCEPT ![p] = Unallocated] EXCEPT ![b] = n]
  <2>4. block = [c \in Base |-> IF c = b THEN n ELSE IF c = p THEN Unallocated ELSE heap.block[c]]
    BY <2>3 DEF HeapSet
  <2>5. block \in [Base -> 0..MaxBlock \cup {Unallocated}]
    BY <2>3, <2>4 DEF HeapSet
  <2> HIDE DEF block
  <2>6. heap' = [heap EXCEPT !.block = block]
    BY <2>1 DEF block
  <2>7. heap' \in HeapSet /\ heap'.corrupt = heap.corrupt /\ heap'.block = block
    BY <2>5, <2>6 DEF HeapSet
  <2> QED
    BY <2>1, <2>2, <2>4, <2>7, Inputs
<1> QED
  BY <1>1, <1>2

\* Giving a block back, and damaging the heap.
LEMMA ReleasedIs ==
    ASSUME NEW hp \in HeapSet, NEW b \in Base, NEW w, w = [hp EXCEPT !.block[b] = Unallocated]
    PROVE  /\ w \in HeapSet /\ w.corrupt = hp.corrupt
           /\ w.block = [hp.block EXCEPT ![b] = Unallocated]
  BY DEF HeapSet

LEMMA DamagedIs ==
    ASSUME NEW hp \in HeapSet, NEW w, w = Damaged(hp)
    PROVE  w \in HeapSet /\ w.corrupt /\ w.block = hp.block
  BY DEF HeapSet, Damaged

\* The function of the target runs.
LEMMA TargetTyped ==
    ASSUME Typed, TargetActs PROVE Typed'
<1>1. heap' \in HeapSet /\ res' \in Nat
  <2>1. heap \in HeapSet /\ arg.p \in Nat /\ arg.k \in Nat /\ arg.n \in Nat
    BY DEF Typed
  <2>2. arg.k * arg.n \in Nat
    BY <2>1
  <2>3. CASE TargetAllocates
    BY <2>1, <2>2, <2>3, AllocatesIs DEF TargetAllocates
  <2>4. CASE TargetReallocates
    <3>1. CASE arg.p \in Live /\ Reallocates(arg.p, arg.n)
      BY <2>1, <3>1, ReallocatesIs
    <3>2. CASE res' \in {0} \cup Base /\ heap' = Damaged(heap)
      BY <2>1, <3>2, DamagedIs, Inputs
    <3> QED
      BY <2>4, <3>1, <3>2 DEF TargetReallocates
  <2>5. CASE TargetFrees
    BY <2>1, <2>5, ReleasedIs, DamagedIs DEF TargetFrees, Live
  <2>6. CASE call.fn = "usage" /\ res' = 0 /\ heap' = heap
    BY <2>1, <2>6
  <2> QED
    BY <2>3, <2>4, <2>5, <2>6 DEF TargetActs
<1> QED
  BY <1>1 DEF TargetActs, Typed

\* What is reported is reported in one field.
LEMMA ReportTyped ==
    ASSUME Typed
    PROVE  /\ \A x \in Fault : [report EXCEPT !.fault = x] \in
                 [fault : Fault, warning : Warning, assertion : Assertion]
           /\ \A x \in Warning : [report EXCEPT !.warning = x] \in
                 [fault : Fault, warning : Warning, assertion : Assertion]
           /\ \A x \in Assertion : [report EXCEPT !.assertion = x] \in
                 [fault : Fault, warning : Warning, assertion : Assertion]
  BY DEF Typed

\* The entry of a handler that has the function run.
LEMMA EnterTyped ==
    ASSUME Typed, NEW path \in Path, NEW obj, NEW b \in Bt \cup {NoBt},
           NEW p \in Nat, NEW k \in Nat, NEW n \in Nat, EnterAction(path, obj, b, p, k, n),
           report' \in [fault : Fault, warning : Warning, assertion : Assertion],
           UNCHANGED <<flags, call, res, heap, prog>>
    PROVE  Typed'
  BY EnterIs DEF Typed

LEMMA FreshType ==
    Fresh \subseteq Bt \cup {NoBt}
  BY DEF Fresh, FreeBt

\* A handler that skips the function or is done with it.
LEMMA ReturnTyped ==
    ASSUME Typed, NEW r \in Nat, Continues(r), heap' \in HeapSet,
           report' \in [fault : Fault, warning : Warning, assertion : Assertion],
           h' = [path |-> h'.path, obj |-> h'.obj, bt |-> h'.bt],
           h'.path \in Path, h'.bt \in Bt \cup {NoBt},
           UNCHANGED <<flags, call, arg>>
    PROVE  Typed'
  BY ContinuesTyped DEF Typed

\* Or has the function run or skipped, depending on -f.
LEMMA SkipTyped ==
    ASSUME Typed, FreeOrSkip, heap' \in HeapSet,
           report' \in [fault : Fault, warning : Warning, assertion : Assertion],
           UNCHANGED <<flags, call>>
    PROVE  Typed'
<1>1. /\ h' = [path |-> h'.path, obj |-> h'.obj, bt |-> h'.bt]
      /\ h'.path \in Path /\ h'.bt \in Bt \cup {NoBt}
  BY FreeOrSkipIs DEF Path
<1>2. CASE Continues(0) /\ UNCHANGED arg
  BY <1>1, <1>2, ReturnTyped
<1>3. CASE /\ pc' = "act" /\ UNCHANGED <<res, prog>>
           /\ arg' \in [p : Nat, k : Nat, n : Nat]
  BY <1>1, <1>3 DEF Typed
<1> QED
  BY <1>2, <1>3, FreeOrSkipIs

\* Or ends the run.
LEMMA EndTyped ==
    ASSUME Typed, pc' \in {"failed", "aborted", "closed"}, heap' \in HeapSet,
           report' \in [fault : Fault, warning : Warning, assertion : Assertion],
           UNCHANGED <<flags, call, arg, res, h, prog>>
    PROVE  Typed'
  BY DEF Typed

\* The address a resource gets.
LEMMA AddressType ==
    ASSUME Typed PROVE ObjectAddr(res) \in Nat
  BY DEF Typed, ObjectAddr, mut_zone_size

LEMMA AllocationTyped ==
    ASSUME Typed, NEW fn \in AllFn,
           \/ \E w \in Warning : \E s : AllocationFails(fn, w, s)
           \/ \E n : \E f \in Fault : AllocationSucceeds(fn, n, f)
    PROVE  Typed'
<1>1. /\ heap \in HeapSet /\ res \in Nat /\ arg.k * arg.n \in Nat
      /\ report \in [fault : Fault, warning : Warning, assertion : Assertion]
      /\ h = [path |-> h.path, obj |-> h.obj, bt |-> h.bt]
      /\ h.path \in Path /\ h.bt \in Bt \cup {NoBt}
  <2>1. arg.k \in Nat /\ arg.n \in Nat
    BY DEF Typed
  <2>2. arg.k * arg.n \in Nat
    BY <2>1
  <2> QED
    BY <2>2 DEF Typed
<1>2. ASSUME NEW w \in Warning, NEW s, AllocationFails(fn, w, s) PROVE Typed'
  <2>1. /\ Continues(0) /\ heap' = heap /\ UNCHANGED <<flags, call, arg>> /\ h' = h
        /\ report' \in [fault : Fault, warning : Warning, assertion : Assertion]
    BY <1>2, ReportTyped DEF AllocationFails
  <2> QED
    BY <1>1, <2>1, ReturnTyped
<1>3. ASSUME NEW n, NEW f \in Fault, AllocationSucceeds(fn, n, f) PROVE Typed'
  <2>1. /\ heap' = mut_install_check_zones(heap, res, arg.k * arg.n)
        /\ h' = h /\ UNCHANGED <<flags, call, arg>>
        /\ \/ Continues(ObjectAddr(res)) /\ UNCHANGED report
           \/ Logs(f) /\ UNCHANGED <<res, prog>> /\ pc' = "failed"
    BY <1>3 DEF AllocationSucceeds, GiveUp
  <2>2. heap' \in HeapSet
    BY <1>1, <2>1, InstallIs
  <2>3. CASE Continues(ObjectAddr(res)) /\ UNCHANGED report
    BY <1>1, <2>1, <2>2, <2>3, ReturnTyped, AddressType
  <2>4. CASE Logs(f) /\ UNCHANGED <<res, prog>> /\ pc' = "failed"
    <3>1. report' \in [fault : Fault, warning : Warning, assertion : Assertion]
      BY <2>4, ReportTyped DEF Logs
    <3> QED
      BY <2>1, <2>2, <2>4, <3>1, EndTyped
  <2> QED
    BY <2>1, <2>3, <2>4
<1> QED
  BY <1>2, <1>3

LEMMA MakesTyped ==
    ASSUME Typed, NEW path, ReallocMakes(path) PROVE Typed'
<1>1. /\ heap \in HeapSet /\ res \in Nat /\ mut_round_up(call.n) \in Nat
      /\ report \in [fault : Fault, warning : Warning, assertion : Assertion]
      /\ h = [path |-> h.path, obj |-> h.obj, bt |-> h.bt]
      /\ h.path \in Path /\ h.bt \in Bt \cup {NoBt}
  BY RoundedUp DEF Typed
<1>2. /\ heap' = mut_install_check_zones(heap, res, mut_round_up(call.n))
      /\ h' = h /\ UNCHANGED <<flags, call, arg>>
      /\ \/ Continues(ObjectAddr(res)) /\ UNCHANGED report
         \/ Abort("is_new") /\ UNCHANGED <<res, prog>>
  BY DEF ReallocMakes
<1>3. heap' \in HeapSet
  BY <1>1, <1>2, InstallIs
<1>4. CASE Continues(ObjectAddr(res)) /\ UNCHANGED report
  BY <1>1, <1>2, <1>3, <1>4, ReturnTyped, AddressType
<1>5. CASE Abort("is_new") /\ UNCHANGED <<res, prog>>
  <2>1. /\ report' \in [fault : Fault, warning : Warning, assertion : Assertion]
        /\ pc' = "aborted"
    BY <1>5, ReportTyped DEF Abort, Assertion
  <2> QED
    BY <1>2, <1>3, <1>5, <2>1, EndTyped
<1> QED
  BY <1>2, <1>4, <1>5

LEMMA HandlerTyped ==
    ASSUME Typed, MutStep PROVE Typed'
<1>0. /\ heap \in HeapSet /\ res \in Nat /\ call.p \in Nat /\ call.k \in Nat /\ call.n \in Nat
      /\ report \in [fault : Fault, warning : Warning, assertion : Assertion]
      /\ h = [path |-> h.path, obj |-> h.obj, bt |-> h.bt]
      /\ h.path \in Path /\ h.bt \in Bt \cup {NoBt}
      /\ 0 \in Nat /\ 1 \in Nat /\ NoBt \in Bt \cup {NoBt} /\ mut_zone_size \in Nat
      /\ "FUM" \in Fault /\ "FFM" \in Fault /\ "WUM" \in Fault /\ "MMM" \in Fault
      /\ "CMM" \in Fault /\ "MR0" \in Warning /\ "CR0" \in Warning /\ "RR0" \in Warning
      /\ "malloc" \in AllFn /\ "calloc" \in AllFn /\ "consumer" \in Assertion
  BY DEF Typed, Fault, Warning, Assertion, AllFn, mut_zone_size
<1>1. Rounded(call.n) \in Nat /\ n_zones(call) \in Nat /\ mut_round_up(call.n) \in Nat
  BY <1>0, RoundedType, RoundedUp, CallocSize
<1>2. \A f : f \in Fault /\ Logs(f) =>
        report' \in [fault : Fault, warning : Warning, assertion : Assertion]
  BY ReportTyped DEF Logs
<1>3. CASE mut_do_malloc
  <2>1. PICK b \in Fresh : EnterAction("malloc", 0, b, 0, 1, Rounded(call.n))
    BY <1>3 DEF mut_do_malloc, Rounded
  <2>2. b \in Bt \cup {NoBt} /\ "malloc" \in Path
    BY FreshType DEF Path
  <2>3. UNCHANGED <<flags, call, res, report, heap, prog>>
    BY <1>3 DEF mut_do_malloc
  <2> QED
    BY <1>0, <1>1, <2>1, <2>2, <2>3, EnterTyped
<1>4. CASE mut_do_calloc
  <2>1. PICK b \in Fresh :
           \/ EnterAction("calloc", 0, b, 0, n_zones(call), mut_zone_size)
           \/ EnterAction("calloc", 0, b, 0, call.k, call.n)
    BY <1>4 DEF mut_do_calloc
  <2>2. b \in Bt \cup {NoBt} /\ "calloc" \in Path
    BY FreshType DEF Path
  <2>3. UNCHANGED <<flags, call, res, report, heap, prog>>
    BY <1>4 DEF mut_do_calloc
  <2> QED
    BY <1>0, <1>1, <2>1, <2>2, <2>3, EnterTyped
<1>5. CASE mut_malloc_failure \/ mut_calloc_failure
  <2>1. \/ AllocationFails("malloc", "MR0", mut_backtrace_close(rs, h.bt))
        \/ AllocationFails("calloc", "CR0", mut_backtrace_close(rs, h.bt))
    BY <1>5 DEF mut_malloc_failure, mut_calloc_failure
  <2>2. \A fn \in AllFn, w \in Warning : \A s : AllocationFails(fn, w, s) => Typed'
    BY AllocationTyped
  <2> QED
    BY <1>0, <2>1, <2>2
<1>6. CASE mut_malloc_success \/ mut_calloc_success
  <2>1. \/ AllocationSucceeds("malloc", call.n, "MMM")
        \/ AllocationSucceeds("calloc", calloc_size(call), "CMM")
    BY <1>6 DEF mut_malloc_success, mut_calloc_success
  <2>2. \A fn \in AllFn : \A n, f : f \in Fault /\ AllocationSucceeds(fn, n, f) => Typed'
    BY AllocationTyped
  <2> QED
    BY <1>0, <2>1, <2>2
<1>7. CASE FreeNull
  <2>1. /\ EnterAction("plain", 0, NoBt, call.p, call.k, call.n) /\ "plain" \in Path
        /\ UNCHANGED <<flags, call, res, report, heap, prog>>
    BY <1>7 DEF FreeNull, Path
  <2> QED
    BY <1>0, <2>1, EnterTyped
<1>8. CASE FreeUnallocated \/ FreeFreed
  <2>1. /\ FreeOrSkip /\ UNCHANGED <<flags, call, heap>>
        /\ Logs("FUM") \/ Logs("FFM")
    BY <1>8 DEF FreeUnallocated, FreeFreed, mut_log_fum, mut_log_ffm
  <2> QED
    BY <1>0, <1>2, <2>1, SkipTyped
<1>9. CASE FreeAvailable
  <2>1. CASE Logs("WUM") /\ pc' = "failed" /\ UNCHANGED <<flags, call, arg, res, h, heap, prog>>
    <3>1. /\ report' \in [fault : Fault, warning : Warning, assertion : Assertion]
          /\ pc' \in {"failed", "aborted", "closed"} /\ heap' \in HeapSet
      BY <1>0, <1>2, <2>1
    <3> QED
      BY <2>1, <3>1, EndTyped
  <2>2. CASE /\ heap' = Zero(heap, call.p, rs.elems[Obj].size) /\ FreeOrSkip
             /\ UNCHANGED <<flags, call, report>>
    <3>1. heap' \in HeapSet
      BY <1>0, <2>2, ZeroIs
    <3>2. report' \in [fault : Fault, warning : Warning, assertion : Assertion]
      BY <1>0, <2>2
    <3> QED
      BY <2>2, <3>1, <3>2, SkipTyped
  <2> QED
    BY <1>9, <2>1, <2>2 DEF FreeAvailable, mut_log_wum, GiveUp
<1>10. CASE ReallocNull
  <2>1. PICK b \in Fresh : EnterAction("realloc_malloc", 0, b, 0, 1, Rounded(call.n))
    BY <1>10 DEF ReallocNull
  <2>2. b \in Bt \cup {NoBt} /\ "realloc_malloc" \in Path
    BY FreshType DEF Path
  <2>3. UNCHANGED <<flags, call, res, report, heap, prog>>
    BY <1>10 DEF ReallocNull
  <2> QED
    BY <1>0, <1>1, <2>1, <2>2, <2>3, EnterTyped
<1>11. CASE ReallocUnallocated
  <2>1. /\ report' \in [fault : Fault, warning : Warning, assertion : Assertion]
        /\ UNCHANGED <<flags, call, res, heap, prog>>
    BY <1>0, <1>2, <1>11 DEF ReallocUnallocated, mut_log_fum
  <2>2. CASE EnterAction("plain", 0, NoBt, call.p, 1, call.n)
    <3>1. "plain" \in Path
      BY DEF Path
    <3> QED
      BY <1>0, <2>1, <2>2, <3>1, EnterTyped
  <2>3. ASSUME NEW b \in Fresh, EnterAction("malloc_no_free", 0, b, 0, 1, Rounded(call.n))
        PROVE  Typed'
    <3>1. "malloc_no_free" \in Path /\ b \in Bt \cup {NoBt}
      BY FreshType DEF Path
    <3> QED
      BY <1>0, <1>1, <2>1, <2>3, <3>1, EnterTyped
  <2> QED
    BY <1>11, <2>2, <2>3 DEF ReallocUnallocated
<1>12. CASE ReallocAllocated
  <2>1. /\ report' \in [fault : Fault, warning : Warning, assertion : Assertion]
        /\ UNCHANGED <<flags, call, res, heap, prog>>
    BY <1>0, <1>2, <1>12 DEF ReallocAllocated, mut_log_ffm
  <2>2. PICK b \in Fresh :
           \/ EnterAction("realloc", Obj, b, call.p, 1, Rounded(call.n))
           \/ EnterAction("realloc_no_free", Obj, b, 0, 1, Rounded(call.n))
    BY <1>12 DEF ReallocAllocated
  <2>3. "realloc" \in Path /\ "realloc_no_free" \in Path /\ b \in Bt \cup {NoBt}
    BY FreshType DEF Path
  <2> QED
    BY <1>0, <1>1, <2>1, <2>2, <2>3, EnterTyped
<1>13. CASE mut_realloc_failure
  <2>1. report' \in [fault : Fault, warning : Warning, assertion : Assertion]
    BY <1>0, <1>13, ReportTyped DEF mut_realloc_failure
  <2> QED
    BY <1>0, <1>13, <2>1, EndTyped DEF mut_realloc_failure, GiveUp
<1>14. CASE mut_realloc_malloc \/ mut_realloc_malloc_no_free
  BY <1>14, MakesTyped DEF mut_realloc_malloc, mut_realloc_malloc_no_free
<1>15. CASE mut_realloc_realloc
  <2>1. /\ Continues(res) /\ h' = h /\ UNCHANGED <<flags, call, arg, report>>
        /\ \/ heap' = heap
           \/ heap' = Zero(heap, rs.elems[h.obj].addr, rs.elems[h.obj].size)
    BY <1>15 DEF mut_realloc_realloc
  <2>2. heap' \in HeapSet
    BY <1>0, <2>1, ZeroIs
  <2> QED
    BY <1>0, <2>1, <2>2, ReturnTyped
<1>16. CASE mut_realloc_realloc_no_free
  <2>1. CASE /\ Continues(res) /\ h' = h /\ UNCHANGED <<flags, call, arg, report>>
             /\ \E n : heap' = Zero(mut_process_memcpy(heap, res, rs.elems[h.obj].addr, n),
                                    rs.elems[h.obj].addr, rs.elems[h.obj].size)
    <3>1. PICK n : heap' = Zero(Write(heap, res, n), rs.elems[h.obj].addr, rs.elems[h.obj].size)
      BY <2>1 DEF mut_process_memcpy
    <3>2. Write(heap, res, n) \in HeapSet
      BY <1>0, WriteIs
    <3>3. heap' \in HeapSet
      BY <3>1, <3>2, ZeroIs
    <3> QED
      BY <1>0, <2>1, <3>3, ReturnTyped
  <2>2. CASE /\ Abort("consumer") /\ h' = h
             /\ UNCHANGED <<flags, call, arg, res, heap, prog>>
    <3>1. /\ report' \in [fault : Fault, warning : Warning, assertion : Assertion]
          /\ pc' \in {"failed", "aborted", "closed"}
      BY <1>0, <2>2, ReportTyped DEF Abort
    <3> QED
      BY <1>0, <2>2, <3>1, EndTyped
  <2> QED
    BY <1>16, <2>1, <2>2 DEF mut_realloc_realloc_no_free
<1>17. CASE mut_do_usage
  <2>1. EnterAction("plain", 0, NoBt, 0, 1, 0) /\ "plain" \in Path
    BY <1>17 DEF mut_do_usage, Path
  <2> QED
    BY <1>0, <1>17, <2>1, EnterTyped DEF mut_do_usage
<1>18. CASE PlainReturns
  BY <1>0, <1>18, ReturnTyped DEF PlainReturns
<1>19. CASE RequestFails \/ FailureLosesBacktrace \/ mut_close
  BY <1>0, <1>19, EndTyped DEF RequestFails, FailureLosesBacktrace, mut_close, GiveUp
<1> QED
  BY <1>3, <1>4, <1>5, <1>6, <1>7, <1>8, <1>9, <1>10, <1>11, <1>12, <1>13, <1>14, <1>15, <1>16,
     <1>17, <1>18, <1>19 DEF MutStep

LEMMA TypedStep ==
    ASSUME Typed, [Next]_vars PROVE Typed'
<1>1. CASE UNCHANGED vars
  BY <1>1 DEF vars, Typed
<1> QED
  BY <1>1, ProgramTyped, TargetTyped, HandlerTyped DEF Next

\* The call is the one it was while a handler is at work.
LEMMA WorkingStep ==
    ASSUME TargetActs \/ MutStep, Working'
    PROVE  Working /\ UNCHANGED <<flags, call, prog>>
<1>1. CASE TargetActs
  BY <1>1 DEF TargetActs, Working
<1>2. CASE \/ mut_do_malloc \/ mut_do_calloc \/ FreeNull \/ ReallocNull \/ ReallocUnallocated
           \/ ReallocAllocated \/ mut_do_usage
  BY <1>2 DEF mut_do_malloc, mut_do_calloc, FreeNull, ReallocNull, ReallocUnallocated,
     ReallocAllocated, mut_do_usage, IsConsumer, IsRealloc, Working
<1>3. CASE FreeUnallocated \/ FreeFreed \/ FreeAvailable
  <2>1. /\ pc = "call" /\ UNCHANGED <<flags, call>>
        /\ FreeOrSkip \/ (pc' = "failed" /\ UNCHANGED prog)
    BY <1>3 DEF FreeUnallocated, FreeFreed, FreeAvailable, GiveUp, IsConsumer
  <2>2. pc' = "target" \/ UNCHANGED prog
    BY <2>1 DEF FreeOrSkip, Continues
  <2> QED
    BY <2>1, <2>2 DEF Working
<1>4. CASE \/ mut_malloc_failure \/ mut_malloc_success \/ mut_calloc_failure
           \/ mut_calloc_success \/ mut_realloc_failure \/ mut_realloc_malloc
           \/ mut_realloc_malloc_no_free \/ mut_realloc_realloc \/ mut_realloc_realloc_no_free
           \/ PlainReturns \/ RequestFails \/ FailureLosesBacktrace \/ mut_close
  <2>1. pc' \in {"target", "failed", "aborted", "closed"}
    BY <1>4 DEF mut_malloc_failure, mut_malloc_success, mut_calloc_failure, AllocationFails,
       AllocationSucceeds, mut_calloc_success, mut_realloc_failure, mut_realloc_malloc,
       mut_realloc_malloc_no_free, ReallocMakes, mut_realloc_realloc,
       mut_realloc_realloc_no_free, PlainReturns, RequestFails, FailureLosesBacktrace,
       mut_close, Continues, GiveUp, Abort
  <2> QED
    BY <2>1 DEF Working
<1> QED
  BY <1>1, <1>2, <1>3, <1>4 DEF MutStep

LEMMA CalledStep ==
    ASSUME Typed, Called, [Next]_vars PROVE Called'
<1>1. ASSUME UNCHANGED <<flags, call, prog>>, Working PROVE Called'
  BY <1>1 DEF Called, Pointer, Expected, Owned, On
<1>2. ASSUME NEW fn \in Function, NEW p \in Pointer, NEW k, NEW n, TargetCalls(fn, p, k, n),
             fn \in {"malloc", "realloc"} => k = 1 /\ n \in MallocSize,
             fn = "calloc" => <<k, n>> \in CallocShape
      PROVE  Called'
  <2>1. /\ call'.fn = fn /\ call'.p = p /\ call'.k = k /\ call'.n = n
        /\ call'.expect = Expected(fn, p) /\ UNCHANGED flags
    BY <1>2 DEF TargetCalls
  <2>2. /\ prog'.owned = prog.owned /\ prog'.freed = prog.freed /\ prog'.overrun = prog.overrun
        /\ Expected(fn, p) # "none" => prog'.faulty
    BY <1>2 DEF TargetCalls, Typed
  <2>3. Pointer' = Pointer
    BY <2>2 DEF Pointer
  <2>4. Expected(fn, p)' = Expected(fn, p)
    BY <2>1, <2>2 DEF Expected, Owned, On
  <2> QED
    BY <1>2, <2>1, <2>2, <2>3, <2>4 DEF Called
<1>3. CASE ProgramStep
  <2>1. 0 \in Pointer
    BY DEF Pointer
  <2>2. ASSUME NEW n \in MallocSize, TargetCalls("malloc", 0, 1, n) PROVE Called'
    BY <1>2, <2>1, <2>2 DEF TargetCalls
  <2>3. ASSUME NEW c \in CallocShape, TargetCalls("calloc", 0, c[1], c[2]) PROVE Called'
    <3>1. <<c[1], c[2]>> \in CallocShape
      BY ProgramAssumption
    <3> QED
      BY <1>2, <2>1, <2>3, <3>1 DEF TargetCalls
  <2>4. ASSUME NEW p \in Pointer, NEW n \in MallocSize, TargetCalls("realloc", p, 1, n)
        PROVE Called'
    BY <1>2, <2>4 DEF TargetCalls
  <2>5. ASSUME NEW p \in Pointer, NEW f \in {"free", "cfree"}, TargetCalls(f, p, 1, 0)
        PROVE Called'
    BY <1>2, <2>5 DEF TargetCalls
  <2>6. ASSUME TargetCalls("usage", 0, 1, 0) PROVE Called'
    BY <1>2, <2>1, <2>6 DEF TargetCalls
  <2>7. ASSUME NEW p, NEW w, TargetOverruns(p, w) PROVE Called'
    BY <2>7 DEF TargetOverruns, Called, Working
  <2> QED
    BY <1>3, <2>2, <2>3, <2>4, <2>5, <2>6, <2>7 DEF ProgramStep
<1>4. CASE TargetActs \/ MutStep
  <2>1. CASE Working'
    BY <1>1, <1>4, <2>1, WorkingStep
  <2>2. CASE ~Working'
    BY <2>2 DEF Called
  <2> QED
    BY <2>1, <2>2
<1>5. CASE UNCHANGED vars
  <2>1. CASE Working
    BY <1>1, <1>5, <2>1 DEF vars
  <2>2. CASE ~Working
    BY <1>5, <2>2 DEF vars, Called, Working
  <2> QED
    BY <2>1, <2>2
<1> QED
  BY <1>3, <1>4, <1>5 DEF Next

LEMMA TakenStep ==
    ASSUME Typed, Taken, [Next]_vars PROVE Taken'
<1>1. ASSUME UNCHANGED <<flags, call, arg, h>>, Running PROVE Taken'
  BY <1>1 DEF Taken, Given, On, Rounded
<1>2. CASE UNCHANGED vars
  BY <1>1, <1>2 DEF vars, Taken, Running
<1>3. CASE TargetActs
  BY <1>1, <1>3 DEF TargetActs, Running
<1>4. CASE ProgramStep
  BY <1>4 DEF ProgramStep, TargetCalls, TargetOverruns, Taken, Running
<1>5. CASE \/ mut_malloc_failure \/ mut_malloc_success \/ mut_calloc_failure
           \/ mut_calloc_success \/ mut_realloc_failure \/ mut_realloc_malloc
           \/ mut_realloc_malloc_no_free \/ mut_realloc_realloc \/ mut_realloc_realloc_no_free
           \/ PlainReturns \/ RequestFails \/ FailureLosesBacktrace \/ mut_close
  <2>1. pc' \in {"target", "failed", "aborted", "closed"}
    BY <1>5 DEF mut_malloc_failure, mut_malloc_success, mut_calloc_failure, AllocationFails,
       AllocationSucceeds, mut_calloc_success, mut_realloc_failure, mut_realloc_malloc,
       mut_realloc_malloc_no_free, ReallocMakes, mut_realloc_realloc,
       mut_realloc_realloc_no_free, PlainReturns, RequestFails, FailureLosesBacktrace,
       mut_close, Continues, GiveUp, Abort
  <2> QED
    BY <2>1 DEF Taken, Running
<1>6. /\ call.p \in Nat /\ call.k \in Nat /\ call.n \in Nat /\ 0 \in Nat /\ 1 \in Nat
      /\ NoBt \in Bt \cup {NoBt} /\ mut_zone_size \in Nat
      /\ Rounded(call.n) \in Nat /\ n_zones(call) \in Nat
  BY RoundedType, CallocSize DEF Typed, mut_zone_size
<1>7. CASE mut_do_malloc
  <2>1. PICK b \in Fresh : EnterAction("malloc", 0, b, 0, 1, Rounded(call.n))
    BY <1>7 DEF mut_do_malloc, Rounded
  <2>2. /\ h'.path = "malloc" /\ arg'.p = 0 /\ arg'.k = 1 /\ arg'.n = Rounded(call.n)
    BY <1>6, <2>1, FreshType, EnterIs DEF Path
  <2>3. call'.fn = "malloc" /\ Rounded(call.n)' = Rounded(call.n)
    BY <1>7 DEF mut_do_malloc, Rounded, On
  <2> QED
    BY <2>2, <2>3 DEF Taken, Given
<1>8. CASE mut_do_calloc
  <2>1. PICK b \in Fresh :
           \/ On("check") /\ EnterAction("calloc", 0, b, 0, n_zones(call), mut_zone_size)
           \/ ~On("check") /\ EnterAction("calloc", 0, b, 0, call.k, call.n)
    BY <1>8 DEF mut_do_calloc
  <2>2. /\ h'.path = "calloc" /\ arg'.p = 0
        /\ IF On("check") THEN arg'.k = n_zones(call) /\ arg'.n = mut_zone_size
                          ELSE arg'.k = call.k /\ arg'.n = call.n
    BY <1>6, <2>1, FreshType, EnterIs DEF Path
  <2>3. call'.fn = "calloc" /\ n_zones(call)' = n_zones(call) /\ UNCHANGED <<flags, call>>
    BY <1>8 DEF mut_do_calloc, n_zones, calloc_size
  <2> QED
    BY <2>2, <2>3 DEF Taken, Given, On
<1>9. CASE FreeNull
  <2>1. /\ h'.path = "plain" /\ h'.bt = NoBt /\ arg'.p = call.p
    BY <1>6, <1>9, EnterIs DEF FreeNull, Path
  <2> QED
    BY <1>9, <2>1 DEF Taken, FreeNull, IsConsumer
<1>10. CASE FreeUnallocated \/ FreeFreed \/ FreeAvailable
  <2>1. /\ call.fn \in {"free", "cfree"} /\ UNCHANGED <<flags, call>>
        /\ FreeOrSkip \/ pc' = "failed"
    BY <1>10 DEF FreeUnallocated, FreeFreed, FreeAvailable, GiveUp, IsConsumer
  <2>2. CASE FreeOrSkip
    <3>1. CASE ~Running'
      BY <3>1 DEF Taken
    <3>2. CASE Running'
      <4>1. h'.path = "plain" /\ h'.bt = NoBt /\ On("free") /\ arg'.p = call.p
        BY <2>2, <3>2, FreeOrSkipIs DEF Running
      <4> QED
        BY <2>1, <4>1 DEF Taken, On
    <3> QED
      BY <3>1, <3>2
  <2>3. CASE pc' = "failed"
    BY <2>3 DEF Taken, Running
  <2> QED
    BY <2>1, <2>2, <2>3
<1>11. CASE ReallocNull
  <2>1. PICK b \in Fresh : EnterAction("realloc_malloc", 0, b, 0, 1, Rounded(call.n))
    BY <1>11 DEF ReallocNull
  <2>2. /\ h'.path = "realloc_malloc" /\ arg'.p = 0 /\ arg'.k = 1 /\ arg'.n = Rounded(call.n)
    BY <1>6, <2>1, FreshType, EnterIs DEF Path
  <2>3. call'.fn = "realloc" /\ call'.p = 0 /\ Rounded(call.n)' = Rounded(call.n)
    BY <1>11 DEF ReallocNull, IsRealloc, Rounded, On
  <2> QED
    BY <2>2, <2>3 DEF Taken, Given
<1>12. CASE ReallocUnallocated
  <2>1. /\ call'.fn = "realloc" /\ call'.p # 0 /\ Rounded(call.n)' = Rounded(call.n)
        /\ UNCHANGED <<flags, call>>
    BY <1>12 DEF ReallocUnallocated, IsRealloc, Rounded, On
  <2>2. CASE On("free") /\ EnterAction("plain", 0, NoBt, call.p, 1, call.n)
    <3>1. h'.path = "plain" /\ h'.bt = NoBt /\ arg'.p = call.p
      BY <1>6, <2>2, EnterIs DEF Path
    <3> QED
      BY <2>1, <2>2, <3>1 DEF Taken, On
  <2>3. ASSUME ~On("free"), NEW b \in Fresh,
               EnterAction("malloc_no_free", 0, b, 0, 1, Rounded(call.n))
        PROVE  Taken'
    <3>1. /\ h'.path = "malloc_no_free" /\ arg'.p = 0 /\ arg'.k = 1 /\ arg'.n = Rounded(call.n)
      BY <1>6, <2>3, FreshType, EnterIs DEF Path
    <3> QED
      BY <2>1, <2>3, <3>1 DEF Taken, Given, On
  <2> QED
    BY <1>12, <2>2, <2>3 DEF ReallocUnallocated
<1>13. CASE ReallocAllocated
  <2>1. /\ call'.fn = "realloc" /\ call'.p # 0 /\ Rounded(call.n)' = Rounded(call.n)
        /\ UNCHANGED <<flags, call>>
    BY <1>13 DEF ReallocAllocated, IsRealloc, Rounded, On
  <2>2. PICK b \in Fresh :
           IF On("free") THEN EnterAction("realloc", Obj, b, call.p, 1, Rounded(call.n))
                         ELSE EnterAction("realloc_no_free", Obj, b, 0, 1, Rounded(call.n))
    BY <1>13 DEF ReallocAllocated
  <2>3. CASE On("free")
    <3>1. /\ h'.path = "realloc" /\ arg'.p = call.p /\ arg'.k = 1 /\ arg'.n = Rounded(call.n)
      BY <1>6, <2>2, <2>3, FreshType, EnterIs DEF Path
    <3> QED
      BY <2>1, <2>3, <3>1 DEF Taken, Given, On
  <2>4. CASE ~On("free")
    <3>1. /\ h'.path = "realloc_no_free" /\ arg'.p = 0 /\ arg'.k = 1 /\ arg'.n = Rounded(call.n)
      BY <1>6, <2>2, <2>4, FreshType, EnterIs DEF Path
    <3> QED
      BY <2>1, <2>4, <3>1 DEF Taken, Given, On
  <2> QED
    BY <2>3, <2>4
<1>14. CASE mut_do_usage
  <2>1. h'.path = "plain" /\ h'.bt = NoBt /\ call'.fn = "usage"
    BY <1>6, <1>14, EnterIs DEF mut_do_usage, Path
  <2> QED
    BY <2>1 DEF Taken
<1> QED
  BY <1>2, <1>3, <1>4, <1>5, <1>7, <1>8, <1>9, <1>10, <1>11, <1>12, <1>13, <1>14 DEF Next, MutStep

-----------------------------------------------------------------------------
(* the resources *)

\* Statistics keep their types.
LEMMA StatsType ==
    ASSUME NEW s \in Stats
    PROVE  /\ \A fn \in AllFn : Hit(s, fn) \in Stats
           /\ \A n \in Int : CollectConsumer(s, n) \in Stats
           /\ \A n \in Int : mut_collect_producer_stats(s, n) \in Stats
<1> DEFINE U == [space : Int, count : Int]
<1>1. ASSUME NEW fn \in AllFn PROVE Hit(s, fn) \in Stats
  BY DEF Hit, Stats
<1>2. ASSUME NEW n \in Int PROVE CollectConsumer(s, n) \in Stats
  BY DEF CollectConsumer, Stats
<1>3. ASSUME NEW n \in Int PROVE mut_collect_producer_stats(s, n) \in Stats
  <2> DEFINE now == [space |-> s.now.space + n, count |-> s.now.count + 1]
             total == [space |-> s.total.space + n, count |-> s.total.count + 1]
             maxSpace == IF s.maxSpace.space < now.space THEN now ELSE s.maxSpace
             maxCount == IF s.maxCount.count < now.count THEN now ELSE s.maxCount
  <2>1. now \in U /\ total \in U /\ s.maxSpace \in U /\ s.maxCount \in U
    BY DEF Stats
  <2>2. maxSpace \in U /\ maxCount \in U
    BY <2>1
  <2>3. CASE On("stats")
    <3>1. mut_collect_producer_stats(s, n) =
            [s EXCEPT !.now = now, !.total = total, !.maxSpace = maxSpace, !.maxCount = maxCount]
      BY <2>3 DEF mut_collect_producer_stats
    <3> HIDE DEF now, total, maxSpace, maxCount
    <3> QED
      BY <2>1, <2>2, <3>1 DEF Stats
  <2>4. CASE ~On("stats")
    BY <2>4 DEF mut_collect_producer_stats
  <2> QED
    BY <2>3, <2>4
<1> QED
  BY <1>1, <1>2, <1>3

\* A step that leaves the resources and the handler alone.
LEMMA KemptSame ==
    ASSUME Kempt, ~Ended, ~Ended', UNCHANGED <<flags, rs, st, h>>, Running' <=> Running,
           Running => UNCHANGED call
    PROVE  Kempt'
  BY DEF Kempt, Holder, Ended, Sound, On, Running

\* A handler that has the function run.
LEMMA KemptEnter ==
    ASSUME Typed, NEW path \in Path, NEW obj, NEW b \in Bt \cup {NoBt},
           NEW p \in Nat, NEW k \in Nat, NEW n \in Nat, EnterAction(path, obj, b, p, k, n),
           UNCHANGED <<flags, call>>, st' \in Stats, Sound(rs', b),
           obj \in 0..Len(rs'.elems),
           path \in {"realloc", "realloc_no_free"} => obj # 0 /\ rs'.elems[obj].addr = call.p
    PROVE  Kempt'
<1>1. /\ pc' = "act" /\ h'.path = path /\ h'.obj = obj /\ h'.bt = b
  BY EnterIs
<1>2. Holder' = b /\ Running' /\ ~Ended' /\ pc' # "closed"
  BY <1>1 DEF Holder, Running, Ended
<1>3. Sound(rs, Holder)'
  BY <1>2 DEF Sound, On
<1> QED
  BY <1>1, <1>2, <1>3 DEF Kempt

\* A handler that lets the program go on.
LEMMA KemptReturn ==
    ASSUME pc' = "target", UNCHANGED flags, st' \in Stats, Sound(rs', NoBt),
           h'.obj \in 0..Len(rs'.elems)
    PROVE  Kempt'
<1>1. Holder' = NoBt /\ ~Running' /\ ~Ended' /\ pc' # "closed"
  BY DEF Holder, Running, Ended
<1>2. Sound(rs, Holder)'
  BY <1>1 DEF Sound, On
<1> QED
  BY <1>1, <1>2 DEF Kempt

\* A handler that ends the run.
LEMMA KemptClose ==
    ASSUME UNCHANGED flags, st' \in Stats, NEW s, NEW b \in Bt \cup {NoBt}, Sound(s, b),
           rs' = mut_resources_close(s),
           pc' = "failed" \/ (pc' = "closed" /\ b = NoBt)
    PROVE  Kempt'
<1>1. Balanced(s, Listed, b) /\ NoBt \notin Bt
  BY BtAssumption DEF Sound, NoBt
<1>2. /\ rs'.elems = <<>> /\ rs'.ref = [c \in Bt |-> IF c = b THEN 1 ELSE 0]
      /\ rs'.n_active_elems = s.n_active_elems /\ rs'.n_consumed_elems = s.n_consumed_elems
  BY <1>1, CloseAll
<1>3. s.n_active_elems \in Nat /\ s.n_consumed_elems \in Nat
  BY <1>1, BalancedNumbers
<1>4. rs'.ref \in [Bt -> Nat] /\ (b = NoBt => \A c \in Bt : rs'.ref[c] = 0)
  BY <1>1, <1>2
<1>5. ToSet(rs'.elems) = {}
  BY <1>2 DEF ToSet
<1>6. ~Running' /\ Ended'
  BY DEF Running, Ended
<1> QED
  BY <1>2, <1>3, <1>4, <1>5, <1>6 DEF Kempt

\* Or fails an assertion.
LEMMA KemptAbort ==
    ASSUME UNCHANGED flags, st' \in Stats, NEW b, Sound(rs', b), pc' = "aborted"
    PROVE  Kempt'
<1>1. /\ rs'.ref \in [Bt -> Nat] /\ rs'.n_active_elems \in Nat /\ rs'.n_consumed_elems \in Nat
  BY BalancedNumbers DEF Sound
<1>2. On("free")' => \A e \in ToSet(rs'.elems) : e.consumer = NoAction
  BY DEF Sound, On
<1>3. ~Running' /\ Ended' /\ pc' # "closed"
  BY DEF Running, Ended
<1> QED
  BY <1>1, <1>2, <1>3 DEF Kempt

\* What the handlers know of the resource at the address they were given.
LEMMA ObjIs ==
    ASSUME NEW b, Sound(rs, b)
    PROVE  /\ rs \in ListOf(Listed) /\ rs.elems \in Seq(Listed) /\ Len(rs.elems) \in Nat
           /\ Obj \in 0..Len(rs.elems)
           /\ (Obj = 0 <=> At(rs, call.p) = {})
           /\ Obj = 0 <=> \A e \in ToSet(rs.elems) : e.addr # call.p
           /\ Obj # 0 => /\ Obj \in 1..Len(rs.elems) /\ rs.elems[Obj] \in ToSet(rs.elems)
                         /\ rs.elems[Obj].addr = call.p /\ rs.elems[Obj] \in Listed
<1>1. rs \in ListOf(Listed) /\ rs.elems \in Seq(Listed)
  BY BalancedNumbers DEF Sound
<1>2. Len(rs.elems) \in Nat
  BY <1>1
<1>3. /\ At(rs, call.p) = {} <=> \A e \in ToSet(rs.elems) : e.addr # call.p
      /\ At(rs, call.p) = {} <=> Obj = 0
      /\ At(rs, call.p) # {} => /\ Obj \in 1..Len(rs.elems)
                                /\ rs.elems[Obj].addr = call.p
                                /\ rs.elems[Obj] \in ToSet(rs.elems)
  BY <1>1, Lookup DEF Obj
<1> QED
  BY <1>1, <1>2, <1>3

\* The fields of a resource.
LEMMA ListedFields ==
    ASSUME NEW e \in Listed
    PROVE  /\ e.addr \in Nat /\ e.size \in Nat /\ e.pbt \in Bt \cup {NoBt}
           /\ e.cbt \in Bt \cup {NoBt}
  BY DEF Listed, Entry

\* A handler that opens a backtrace and has the function run.
LEMMA OpensAndEnters ==
    ASSUME Typed, Kempt, pc = "call", NEW b \in Fresh, rs' = Opened(b),
           NEW path \in Path, NEW obj \in 0..Len(rs.elems),
           NEW p \in Nat, NEW k \in Nat, NEW n \in Nat, EnterAction(path, obj, b, p, k, n),
           path \in {"realloc", "realloc_no_free"} => obj # 0 /\ rs.elems[obj].addr = call.p,
           UNCHANGED <<flags, call>>, st' \in Stats
    PROVE  Kempt' /\ rs'.elems = rs.elems
<1>1. Sound(rs, NoBt)
  BY DEF Kempt, Holder, Running, Ended
<1>2. b \in Bt \cup {NoBt} /\ Sound(rs', b) /\ rs'.elems = rs.elems
  BY <1>1, Opens
<1> QED
  BY <1>2, KemptEnter

LEMMA EntryKempt ==
    ASSUME Typed, Kempt,
           \/ mut_do_malloc \/ mut_do_calloc \/ FreeNull \/ ReallocNull \/ ReallocUnallocated
           \/ ReallocAllocated \/ mut_do_usage
    PROVE  Kempt' /\ rs'.elems = rs.elems
<1>1. /\ call.p \in Nat /\ call.k \in Nat /\ call.n \in Nat /\ 0 \in Nat /\ 1 \in Nat
      /\ NoBt \in Bt \cup {NoBt} /\ mut_zone_size \in Nat
      /\ Rounded(call.n) \in Nat /\ n_zones(call) \in Nat
  BY RoundedType, CallocSize DEF Typed, mut_zone_size
<1>2. /\ "plain" \in Path /\ "malloc" \in Path /\ "calloc" \in Path /\ "realloc_malloc" \in Path
      /\ "malloc_no_free" \in Path /\ "realloc" \in Path /\ "realloc_no_free" \in Path
  BY DEF Path
<1>3. pc = "call" /\ UNCHANGED <<flags, call>>
  BY DEF mut_do_malloc, mut_do_calloc, FreeNull, ReallocNull, ReallocUnallocated,
     ReallocAllocated, mut_do_usage, IsConsumer, IsRealloc
<1>4. Sound(rs, NoBt) /\ st \in Stats
  BY <1>3 DEF Kempt, Holder, Running, Ended
<1>5. 0 \in 0..Len(rs.elems) /\ rs'.elems = rs'.elems
  BY <1>4, ObjIs
<1>6. \A fn \in AllFn : Hit(st, fn) \in Stats
  BY <1>4, StatsType
<1>7. ASSUME NEW p \in Nat, NEW k \in Nat, NEW n \in Nat,
             EnterAction("plain", 0, NoBt, p, k, n), rs' = rs, st' \in Stats
      PROVE  Kempt' /\ rs'.elems = rs.elems
  BY <1>1, <1>2, <1>3, <1>4, <1>5, <1>7, KemptEnter
<1>8. CASE mut_do_malloc
  <2>1. PICK b \in Fresh : rs' = Opened(b) /\ EnterAction("malloc", 0, b, 0, 1, Rounded(call.n))
    BY <1>8 DEF mut_do_malloc, Rounded
  <2>2. st' \in Stats
    BY <1>4, <1>8 DEF mut_do_malloc
  <2> QED
    BY <1>1, <1>2, <1>3, <1>5, <2>1, <2>2, OpensAndEnters
<1>9. CASE mut_do_calloc
  <2>1. PICK b \in Fresh :
           /\ rs' = Opened(b)
           /\ \/ EnterAction("calloc", 0, b, 0, n_zones(call), mut_zone_size)
              \/ EnterAction("calloc", 0, b, 0, call.k, call.n)
    BY <1>9 DEF mut_do_calloc
  <2>2. st' \in Stats
    BY <1>4, <1>9 DEF mut_do_calloc
  <2> QED
    BY <1>1, <1>2, <1>3, <1>5, <2>1, <2>2, OpensAndEnters
<1>10. CASE FreeNull
  <2>1. EnterAction("plain", 0, NoBt, call.p, call.k, call.n) /\ rs' = rs
    BY <1>10 DEF FreeNull
  <2>2. st' \in Stats
    BY <1>6, <1>10 DEF FreeNull, IsConsumer, AllFn
  <2> QED
    BY <1>1, <1>7, <2>1, <2>2
<1>11. CASE mut_do_usage
  BY <1>1, <1>4, <1>7, <1>11 DEF mut_do_usage
<1>12. CASE ReallocNull
  <2>1. PICK b \in Fresh :
           rs' = Opened(b) /\ EnterAction("realloc_malloc", 0, b, 0, 1, Rounded(call.n))
    BY <1>12 DEF ReallocNull
  <2>2. st' \in Stats
    BY <1>4, <1>12 DEF ReallocNull
  <2> QED
    BY <1>1, <1>2, <1>3, <1>5, <2>1, <2>2, OpensAndEnters
<1>13. CASE ReallocUnallocated
  <2>1. st' \in Stats
    BY <1>6, <1>13 DEF ReallocUnallocated, AllFn
  <2>2. CASE EnterAction("plain", 0, NoBt, call.p, 1, call.n) /\ rs' = rs
    BY <1>1, <1>7, <2>1, <2>2
  <2>3. ASSUME NEW b \in Fresh, rs' = Opened(b),
               EnterAction("malloc_no_free", 0, b, 0, 1, Rounded(call.n))
        PROVE  Kempt' /\ rs'.elems = rs.elems
    BY <1>1, <1>2, <1>3, <1>5, <2>1, <2>3, OpensAndEnters
  <2> QED
    BY <1>13, <2>2, <2>3 DEF ReallocUnallocated
<1>14. CASE ReallocAllocated
  <2>1. PICK b \in Fresh :
           /\ rs' = Opened(b)
           /\ \/ EnterAction("realloc", Obj, b, call.p, 1, Rounded(call.n))
              \/ EnterAction("realloc_no_free", Obj, b, 0, 1, Rounded(call.n))
    BY <1>14 DEF ReallocAllocated
  <2>2. st' \in Stats /\ Obj # 0
    BY <1>4, <1>14 DEF ReallocAllocated
  <2>3. Obj \in 0..Len(rs.elems) /\ rs.elems[Obj].addr = call.p
    BY <1>4, <2>2, ObjIs
  <2> HIDE DEF Obj
  <2> QED
    BY <1>1, <1>2, <1>3, <2>1, <2>2, <2>3, OpensAndEnters
<1> QED
  BY <1>8, <1>9, <1>10, <1>11, <1>12, <1>13, <1>14

\* The function of the target is run or skipped.
LEMMA KemptSkip ==
    ASSUME Typed, FreeOrSkip, UNCHANGED <<flags, call>>, st' \in Stats, Sound(rs', NoBt)
    PROVE  Kempt'
<1>1. h'.path = "plain" /\ h'.bt = NoBt /\ h'.obj = 0 /\ pc' \in {"act", "target"}
  BY FreeOrSkipIs
<1>2. Holder' = NoBt /\ ~Ended' /\ pc' # "closed"
  BY <1>1 DEF Holder, Ended
<1>3. Sound(rs, Holder)'
  BY <1>2 DEF Sound, On
<1>4. rs'.elems \in Seq(Listed)
  BY BalancedNumbers DEF Sound
<1>5. Len(rs'.elems) \in Nat
  BY <1>4
<1>6. h'.obj \in 0..Len(rs'.elems)
  BY <1>1, <1>5
<1> QED
  BY <1>1, <1>2, <1>3, <1>6 DEF Kempt

\* What lookup finds depends on the resources alone.
LEMMA LookupSame ==
    ASSUME NEW s, NEW t, s.elems = t.elems, NEW a
    PROVE  mut_resources_lookup(s, a) = mut_resources_lookup(t, a) /\ At(s, a) = At(t, a)
  BY DEF mut_resources_lookup, At

LEMMA FreeKempt ==
    ASSUME Typed, Kempt, FreeUnallocated \/ FreeFreed
    PROVE  Kempt' /\ rs' = rs
<1>1. /\ pc = "call" /\ UNCHANGED <<flags, call, rs>> /\ FreeOrSkip /\ call.fn \in AllFn
      /\ st' = Hit(st, call.fn)
  BY DEF FreeUnallocated, FreeFreed, IsConsumer, AllFn
<1>2. Sound(rs', NoBt) /\ st' \in Stats
  BY <1>1, StatsType DEF Kempt, Holder, Running, Ended
<1> QED
  BY <1>1, <1>2, KemptSkip

\* A resource is given back: it goes from the list with -f, and stays as one
\* that was given back without.
LEMMA FreeAvailableKempt ==
    ASSUME Typed, Kempt, FreeAvailable, NEW e, e = rs.elems[Obj]
    PROVE  /\ Kempt' /\ e \in ToSet(rs.elems) /\ e \in Listed /\ e.addr = call.p
           /\ e.consumer = NoAction
           /\ pc' # "failed" =>
                /\ On("free") /\ DistinctIn(rs.elems)
                     => Removed(rs, rs', e)
                /\ ~On("free") /\ DistinctIn(rs.elems)
                     => \E r : /\ Swapped(rs, rs', e, r) /\ r.addr = e.addr
                               /\ r.size = e.size /\ r.consumer # NoAction
<1>1. /\ pc = "call" /\ UNCHANGED <<flags, call>> /\ call.fn \in AllFn /\ Obj # 0
      /\ st' = CollectConsumer(Hit(st, call.fn), e.size) /\ e.consumer = NoAction
  BY DEF FreeAvailable, IsConsumer, AllFn, mut_resources_resource_deleted
<1>2. Sound(rs, NoBt) /\ st \in Stats
  BY <1>1 DEF Kempt, Holder, Running, Ended
<1>3. /\ Obj \in 1..Len(rs.elems) /\ e \in ToSet(rs.elems) /\ e.addr = call.p /\ e \in Listed
  BY <1>1, <1>2, ObjIs
<1>4. st' \in Stats
  <2>1. e.size \in Int
    BY <1>3, ListedFields
  <2> QED
    BY <1>1, <1>2, <2>1, StatsType
<1>5. CASE GiveUp(rs)
  BY <1>1, <1>2, <1>3, <1>4, <1>5, KemptClose DEF GiveUp
<1>6. ASSUME FreeOrSkip, NEW b \in Fresh, NEW o, o = Opened(b),
             NEW d, d = mut_resources_delete_resource(o, On("free"), Obj, call.fn, b),
             rs' = mut_backtrace_close(d, b)
      PROVE  /\ Kempt'
             /\ On("free") /\ DistinctIn(rs.elems)
                  => Removed(rs, rs', e)
             /\ ~On("free") /\ DistinctIn(rs.elems)
                  => \E r : /\ Swapped(rs, rs', e, r) /\ r.addr = e.addr
                            /\ r.size = e.size /\ r.consumer # NoAction
  <2>1. b \in Bt \cup {NoBt} /\ Sound(o, b) /\ o.elems = rs.elems
    BY <1>2, <1>6, Opens
  <2>2. /\ Obj \in 1..Len(o.elems) /\ e = o.elems[Obj]
        /\ mut_resources_lookup(o, o.elems[Obj].addr) = Obj
    <3>1. mut_resources_lookup(o, call.p) = mut_resources_lookup(rs, call.p)
      BY <2>1, LookupSame
    <3> QED
      BY <1>3, <2>1, <3>1 DEF Obj
  <2>3. /\ Sound(d, b)
        /\ On("free") /\ DistinctIn(rs.elems)
             => Removed(rs, d, e)
        /\ ~On("free") /\ DistinctIn(rs.elems)
             => \E r : /\ Swapped(rs, d, e, r) /\ r.addr = e.addr
                       /\ r.size = e.size /\ r.consumer # NoAction
    <3>1. CASE On("free")
      <4>1. d = mut_resources_really_delete_resource(o, Obj)
        BY <1>6, <3>1 DEF mut_resources_delete_resource
      <4>2. /\ b \in Bt \cup {NoBt} /\ Sound(o, b) /\ e.consumer = NoAction
        BY <1>1, <2>1
      <4>3. Sound(d, b) /\ (DistinctIn(o.elems) => Removed(o, d, e))
        BY ONLY <2>2, <4>1, <4>2, Unlinks
      <4>4. Removed(o, d, e) => Removed(rs, d, e)
        BY <2>1 DEF Removed
      <4> QED
        BY <2>1, <3>1, <4>3, <4>4
    <3>2. CASE ~On("free")
      <4>1. d = mut_resources_mark_as_free(o, Obj, call.fn, b)
        BY <1>6, <3>2 DEF mut_resources_delete_resource
      <4> DEFINE r == Gone(e, call.fn, b)
      <4>2. /\ Sound(d, b)
            /\ DistinctIn(o.elems) => Swapped(o, d, e, r)
            /\ r.addr = e.addr /\ r.size = e.size /\ r.consumer = call.fn /\ call.fn # NoAction
        BY <1>1, <2>1, <2>2, <3>2, <4>1, Marks
      <4> HIDE DEF r
      <4>3. Swapped(o, d, e, r) => Swapped(rs, d, e, r)
        BY <2>1 DEF Swapped
      <4>4. ASSUME DistinctIn(rs.elems)
            PROVE  /\ Swapped(rs, d, e, r) /\ r.addr = e.addr
                   /\ r.size = e.size /\ r.consumer # NoAction
        BY <2>1, <4>2, <4>3, <4>4
      <4> QED
        BY <3>2, <4>2, <4>4
    <3> QED
      BY <3>1, <3>2
  <2>4. Sound(rs', NoBt) /\ rs'.elems = d.elems
    BY <1>6, <2>1, <2>3, Closes
  <2>5. Kempt'
    BY <1>1, <1>4, <1>6, <2>4, KemptSkip
  <2>6. /\ \A r : Swapped(rs, d, e, r) => Swapped(rs, rs', e, r)
        /\ Removed(rs, d, e) => Removed(rs, rs', e)
    BY <2>4 DEF Swapped, Removed
  <2> QED
    BY <2>3, <2>4, <2>5, <2>6
<1>7. \/ GiveUp(rs)
      \/ FreeOrSkip /\ \E b \in Fresh : rs' = mut_backtrace_close(
              mut_resources_delete_resource(Opened(b), On("free"), Obj, call.fn, b), b)
  BY DEF FreeAvailable
<1>8. CASE GiveUp(rs)
  BY <1>1, <1>3, <1>5, <1>8 DEF GiveUp
<1>9. CASE FreeOrSkip /\ \E b \in Fresh : rs' = mut_backtrace_close(
              mut_resources_delete_resource(Opened(b), On("free"), Obj, call.fn, b), b)
  BY <1>1, <1>3, <1>6, <1>9
<1> QED
  BY <1>7, <1>8, <1>9

\* A resource is looked for and created, and made the one of an object if it
\* is new.
LEMMA Creates ==
    ASSUME NEW s, NEW b \in Bt \cup {NoBt}, Sound(s, b),
           NEW a \in Nat, NEW p \in AllFn, NEW n \in Nat,
           NEW c, c = mut_resources_create_resource(s, a),
           NEW i, i = mut_resources_lookup(c, a),
           NEW t, t = mut_resource_make_producer(c, i, p, n, b)
    PROVE  /\ mut_resource_is_new(c.elems[i])
                => Sound(t, NoBt) /\ 0..Len(s.elems) \subseteq 0..Len(t.elems)
           /\ ~mut_resource_is_new(c.elems[i]) => c = s
           /\ At(s, a) = {} => mut_resource_is_new(c.elems[i]) /\ Entered(s, t, a, n)
<1>1. s \in ListOf(Listed) /\ s.elems \in Seq(Listed)
  BY BalancedNumbers DEF Sound
<1>2. Len(s.elems) \in Nat
  BY <1>1
<1>3. CASE At(s, a) = {}
  <2>1. /\ mut_resource_is_new(c.elems[i])
        /\ Sound(t, NoBt) /\ Len(t.elems) = Len(s.elems) + 1
        /\ Entered(s, t, a, n)
    <3>1. /\ Sound(s, b) /\ b \in Bt \cup {NoBt} /\ a \in Nat /\ p \in AllFn /\ n \in Nat
          /\ At(s, a) = {} /\ c = mut_resources_create_resource(s, a)
          /\ i = mut_resources_lookup(c, a) /\ t = mut_resource_make_producer(c, i, p, n, b)
      BY <1>3
    <3> QED
      BY ONLY <3>1, Enters
  <2>5. 0..Len(s.elems) \subseteq 0..Len(t.elems)
    BY <1>2, <2>1
  <2> QED
    BY <2>1, <2>5
<1>4. CASE At(s, a) # {}
  <2>1. c = s
    BY <1>4 DEF mut_resources_create_resource
  <2>2. i \in 1..Len(c.elems)
    BY <1>1, <1>4, <2>1, Lookup
  <2>3. mut_resource_is_new(c.elems[i]) => Sound(t, NoBt) /\ Len(t.elems) = Len(s.elems)
    BY <2>1, <2>2, Refreshes
  <2> QED
    BY <1>4, <2>1, <2>3
<1> QED
  BY <1>3, <1>4

LEMMA FailsKempt ==
    ASSUME Typed, Kempt, NEW fn \in AllFn, NEW w,
           AllocationFails(fn, w, mut_backtrace_close(rs, h.bt))
    PROVE  Kempt' /\ rs'.elems = rs.elems
<1>1. /\ pc = "exit" /\ pc' = "target" /\ UNCHANGED <<flags, h>> /\ st' = Hit(st, fn)
      /\ rs' = mut_backtrace_close(rs, h.bt)
  BY DEF AllocationFails, Continues
<1>2. /\ Sound(rs, h.bt) /\ h.bt \in Bt \cup {NoBt} /\ st \in Stats /\ h.obj \in 0..Len(rs.elems)
  BY <1>1 DEF Kempt, Holder, Running, Ended, Typed
<1>3. Sound(rs', NoBt) /\ rs'.elems = rs.elems
  BY <1>1, <1>2, Closes
<1> QED
  BY <1>1, <1>2, <1>3, StatsType, KemptReturn

LEMMA SucceedsKempt ==
    ASSUME Typed, Kempt, NEW fn \in AllFn, NEW n \in Nat, NEW f, AllocationSucceeds(fn, n, f)
    PROVE  /\ Kempt'
           /\ At(rs, ObjectAddr(res)) = {} =>
                /\ Continues(ObjectAddr(res)) /\ report' = report
                /\ Entered(rs, rs', ObjectAddr(res), n)
<1> DEFINE a == ObjectAddr(res)
           c == mut_resources_create_resource(rs, a)
           i == mut_resources_lookup(c, a)
           t == mut_resource_make_producer(c, i, fn, n, h.bt)
<1>1. /\ pc = "exit" /\ UNCHANGED <<flags, h>>
      /\ st' = mut_collect_producer_stats(Hit(st, fn), n)
      /\ \/ mut_resource_is_new(c.elems[i]) /\ rs' = t /\ Continues(a) /\ UNCHANGED report
         \/ ~mut_resource_is_new(c.elems[i]) /\ GiveUp(c)
  BY DEF AllocationSucceeds
<1>2. /\ Sound(rs, h.bt) /\ h.bt \in Bt \cup {NoBt} /\ st \in Stats
      /\ h.obj \in 0..Len(rs.elems) /\ a \in Nat
  BY <1>1, AddressType DEF Kempt, Holder, Running, Ended, Typed
<1>3. st' \in Stats
  BY <1>1, <1>2, StatsType
<1> HIDE DEF a
<1>4. /\ mut_resource_is_new(c.elems[i])
           => Sound(t, NoBt) /\ 0..Len(rs.elems) \subseteq 0..Len(t.elems)
      /\ ~mut_resource_is_new(c.elems[i]) => c = rs
      /\ At(rs, a) = {} => mut_resource_is_new(c.elems[i]) /\ Entered(rs, t, a, n)
  BY <1>2, Creates
<1> HIDE DEF c, i, t
<1>5. CASE mut_resource_is_new(c.elems[i])
  <2>1. /\ rs' = t /\ Continues(a) /\ UNCHANGED report /\ pc' = "target"
        /\ Sound(rs', NoBt) /\ h'.obj \in 0..Len(rs'.elems)
    BY <1>1, <1>2, <1>4, <1>5 DEF Continues
  <2>2. Kempt'
    BY <1>1, <1>3, <2>1, KemptReturn
  <2> QED
    BY <1>4, <2>1, <2>2 DEF a
<1>6. CASE ~mut_resource_is_new(c.elems[i])
  <2>1. GiveUp(rs) /\ At(rs, a) # {}
    BY <1>1, <1>4, <1>6
  <2>2. Kempt'
    BY <1>1, <1>2, <1>3, <2>1, KemptClose DEF GiveUp
  <2> QED
    BY <2>1, <2>2 DEF a
<1> QED
  BY <1>5, <1>6

LEMMA MakesKempt ==
    ASSUME Typed, Kempt, NEW path, ReallocMakes(path)
    PROVE  /\ Kempt'
           /\ At(rs, ObjectAddr(res)) = {} =>
                /\ Continues(ObjectAddr(res)) /\ report' = report
                /\ Entered(rs, rs', ObjectAddr(res), call.n)
<1> DEFINE a == ObjectAddr(res)
           c == mut_resources_create_resource(rs, a)
           i == mut_resources_lookup(c, a)
           t == mut_resource_make_producer(c, i, "realloc", call.n, h.bt)
<1>1. /\ pc = "exit" /\ UNCHANGED <<flags, h>>
      /\ \/ /\ mut_resource_is_new(c.elems[i]) /\ rs' = t /\ Continues(a) /\ UNCHANGED report
            /\ st' = mut_collect_producer_stats(Hit(st, "realloc"), call.n)
         \/ /\ ~mut_resource_is_new(c.elems[i]) /\ rs' = c /\ Abort("is_new") /\ UNCHANGED st
  BY DEF ReallocMakes
<1>2. /\ Sound(rs, h.bt) /\ h.bt \in Bt \cup {NoBt} /\ st \in Stats
      /\ h.obj \in 0..Len(rs.elems) /\ a \in Nat /\ call.n \in Nat /\ "realloc" \in AllFn
  BY <1>1, AddressType DEF Kempt, Holder, Running, Ended, Typed, AllFn
<1>3. st' \in Stats
  <2>1. Hit(st, "realloc") \in Stats /\ call.n \in Int
    BY ONLY <1>2, StatsType
  <2>2. mut_collect_producer_stats(Hit(st, "realloc"), call.n) \in Stats
    BY ONLY <2>1, StatsType
  <2> QED
    BY <1>1, <1>2, <2>2
<1> HIDE DEF a
<1>4. /\ mut_resource_is_new(c.elems[i])
           => Sound(t, NoBt) /\ 0..Len(rs.elems) \subseteq 0..Len(t.elems)
      /\ ~mut_resource_is_new(c.elems[i]) => c = rs
      /\ At(rs, a) = {} => mut_resource_is_new(c.elems[i]) /\ Entered(rs, t, a, call.n)
  BY <1>2, Creates
<1> HIDE DEF c, i, t
<1>5. CASE mut_resource_is_new(c.elems[i])
  <2>1. /\ rs' = t /\ Continues(a) /\ UNCHANGED report /\ pc' = "target"
        /\ Sound(rs', NoBt) /\ h'.obj \in 0..Len(rs'.elems)
    BY <1>1, <1>2, <1>4, <1>5 DEF Continues
  <2>2. Kempt'
    BY <1>1, <1>3, <2>1, KemptReturn
  <2> QED
    BY <1>4, <2>1, <2>2 DEF a
<1>6. CASE ~mut_resource_is_new(c.elems[i])
  <2>1. Sound(rs', h.bt) /\ At(rs, a) # {} /\ pc' = "aborted"
    BY <1>1, <1>2, <1>4, <1>6 DEF Abort
  <2>2. Kempt'
    BY <1>1, <1>2, <1>3, <2>1, KemptAbort
  <2> QED
    BY <2>1, <2>2 DEF a
<1> QED
  BY <1>5, <1>6

\* The resources of t are those of s, with one at a of n bytes for e.
Became(s, t, e, a, n) ==
    \E r : Swapped(s, t, e, r) /\ r.addr = a /\ r.size = n /\ r.consumer = NoAction

\* realloc with -f: the resource follows its object.
LEMMA MovesKempt ==
    ASSUME Typed, Taken, Kempt, mut_realloc_realloc, NEW e, e = rs.elems[h.obj]
    PROVE  /\ Kempt' /\ e \in ToSet(rs.elems) /\ e \in Listed /\ e.addr = call.p
           /\ e.consumer = NoAction /\ On("free")
           /\ DistinctIn(rs.elems) /\ (\A x \in ToSet(rs.elems) : x.addr = res => x = e)
                => Became(rs, rs', e, res, call.n)
<1> DEFINE m == Made(res, "realloc", call.n, h.bt)
           u == mut_backtrace_close(rs, e.pbt)
           q == [rs.elems EXCEPT ![h.obj] = m]
<1>1. /\ pc = "exit" /\ h.path = "realloc" /\ UNCHANGED <<flags, h>> /\ pc' = "target"
      /\ st' = mut_collect_producer_stats(CollectConsumer(Hit(st, "realloc"), e.size), call.n)
      /\ rs' = [mut_backtrace_close(mut_backtrace_close(rs, e.cbt), e.pbt)
                  EXCEPT !.elems[h.obj] = m]
  BY DEF mut_realloc_realloc, Continues, Made
<1>2. /\ Sound(rs, h.bt) /\ h.bt \in Bt \cup {NoBt} /\ st \in Stats
      /\ h.obj \in 0..Len(rs.elems) /\ h.obj # 0 /\ e.addr = call.p
      /\ res \in Nat /\ call.n \in Nat /\ "realloc" \in AllFn
  BY <1>1 DEF Kempt, Holder, Running, Ended, Typed, AllFn
<1>3. On("free")
  BY <1>1 DEF Taken, Running
<1>4. rs.elems \in Seq(Listed) /\ Len(rs.elems) \in Nat
  BY <1>2, ObjIs
<1>5. h.obj \in 1..Len(rs.elems)
  BY <1>2, <1>4
<1>6. e \in ToSet(rs.elems) /\ e \in Listed
  BY <1>4, <1>5, SetOfSeq
<1>7. e.consumer = NoAction /\ e.cbt = NoBt /\ e.size \in Int /\ e.pbt \in Bt \cup {NoBt}
  BY <1>2, <1>3, <1>6, ListedFields DEF Sound
<1>8. st' \in Stats
  <2>1. Hit(st, "realloc") \in Stats
    BY <1>2, StatsType
  <2>2. CollectConsumer(Hit(st, "realloc"), e.size) \in Stats
    BY <1>7, <2>1, StatsType
  <2> QED
    BY <1>1, <1>2, <2>2, StatsType
<1>9. u.elems = rs.elems
  BY <1>7 DEF mut_backtrace_close
<1>10. mut_backtrace_close(mut_backtrace_close(rs, e.cbt), e.pbt) = u
  BY <1>7 DEF mut_backtrace_close
<1>11. rs' = [u EXCEPT !.elems = q]
  <2>1. rs' = [u EXCEPT !.elems = [u.elems EXCEPT ![h.obj] = m]]
    BY <1>1, <1>10
  <2> QED
    BY <1>9, <2>1
<1>12. /\ Sound(rs', NoBt) /\ Len(rs'.elems) = Len(rs.elems)
       /\ DistinctIn(rs.elems) /\ (\A x \in ToSet(rs.elems) : x.addr = res => x = e)
            => Swapped(rs, rs', e, m)
  <2>1. m = Made(res, "realloc", call.n, h.bt) /\ rs' = Moved(rs, h.obj, m)
    BY <1>11 DEF Moved
  <2> HIDE DEF u, m, q
  <2>2. /\ Sound(rs, h.bt) /\ h.bt \in Bt \cup {NoBt} /\ h.obj \in 1..Len(rs.elems)
        /\ res \in Nat /\ "realloc" \in AllFn /\ call.n \in Nat
        /\ e.consumer = NoAction
    BY ONLY <1>2, <1>5, <1>7
  <2>3. e = rs.elems[h.obj]
    OBVIOUS
  <2> DEFINE t == rs'
             i == h.obj
             b == h.bt
             n == call.n
             p == "realloc"
  <2>4. /\ m = Made(res, p, n, b) /\ t = Moved(rs, i, m) /\ Sound(rs, b) /\ b \in Bt \cup {NoBt}
        /\ i \in 1..Len(rs.elems) /\ res \in Nat /\ p \in AllFn /\ n \in Nat
        /\ e.consumer = NoAction /\ e = rs.elems[i]
    BY ONLY <2>1, <2>2, <2>3
  <2> HIDE DEF t, i, b, n, p
  <2>5. /\ Sound(t, NoBt) /\ Len(t.elems) = Len(rs.elems)
        /\ DistinctIn(rs.elems) /\ (\A x \in ToSet(rs.elems) : x.addr = res => x = e)
             => Swapped(rs, t, e, m)
    BY ONLY <2>4, Moves
  <2> QED
    BY <2>5 DEF t
<1>13. m.addr = res /\ m.size = call.n /\ m.consumer = NoAction
  BY DEF Made
<1> HIDE DEF m
<1>14. Kempt'
  BY <1>1, <1>2, <1>8, <1>12, KemptReturn
<1> QED
  BY <1>2, <1>3, <1>6, <1>7, <1>12, <1>13, <1>14 DEF Became

\* realloc without -f: the old resource is given back, a new one is entered.
LEMMA CopiesKempt ==
    ASSUME Typed, Taken, Kempt, mut_realloc_realloc_no_free, NEW e, e = rs.elems[h.obj],
           At(rs, res) = {}, DistinctIn(rs.elems)
    PROVE  /\ Kempt' /\ e \in ToSet(rs.elems) /\ e \in Listed /\ e.addr = call.p /\ ~On("free")
           /\ pc' = "aborted" => rs' = rs
           /\ pc' # "aborted" =>
                /\ e.consumer = NoAction /\ Continues(res) /\ report' = report
                /\ \E d, r : /\ Swapped(rs, d, e, r) /\ r.addr = e.addr /\ r.size = e.size
                             /\ r.consumer # NoAction /\ Entered(d, rs', res, call.n)
<1> DEFINE d == mut_resources_delete_resource(rs, On("free"), h.obj, "realloc", h.bt)
           c == mut_resources_create_resource(d, res)
           i == mut_resources_lookup(c, res)
           t == mut_resource_make_producer(c, i, "realloc", call.n, h.bt)
           now == CollectConsumer(st, e.size)
<1>1. /\ pc = "exit" /\ h.path = "realloc_no_free" /\ UNCHANGED <<flags, h>>
      /\ \/ /\ DeleteAsserts(rs, h.obj) /\ rs' = t /\ Continues(res) /\ UNCHANGED report
            /\ st' = mut_collect_producer_stats(Hit(now, "realloc"), call.n)
         \/ Abort("consumer") /\ st' = now /\ rs' = rs
  BY DEF mut_realloc_realloc_no_free
<1>2. /\ Sound(rs, h.bt) /\ h.bt \in Bt \cup {NoBt} /\ st \in Stats
      /\ h.obj \in 0..Len(rs.elems) /\ h.obj # 0 /\ e.addr = call.p
      /\ res \in Nat /\ call.n \in Nat /\ "realloc" \in AllFn
  BY <1>1 DEF Kempt, Holder, Running, Ended, Typed, AllFn
<1>3. ~On("free")
  BY <1>1 DEF Taken, Running
<1>4. rs.elems \in Seq(Listed) /\ Len(rs.elems) \in Nat /\ rs \in ListOf(Listed)
  BY <1>2, ObjIs
<1>5. h.obj \in 1..Len(rs.elems)
  BY <1>2, <1>4
<1>6. e \in ToSet(rs.elems) /\ e \in Listed /\ e.size \in Int
  BY <1>4, <1>5, SetOfSeq, ListedFields
<1>7. now \in Stats
  BY <1>2, <1>6, StatsType
<1>8. mut_collect_producer_stats(Hit(now, "realloc"), call.n) \in Stats
  <2>1. Hit(now, "realloc") \in Stats
    BY <1>2, <1>7, StatsType
  <2> QED
    BY <1>2, <2>1, StatsType
<1>9. CASE Abort("consumer") /\ st' = now /\ rs' = rs
  <2>1. pc' = "aborted"
    BY <1>9 DEF Abort
  <2>2. Kempt'
    BY <1>1, <1>2, <1>7, <1>9, <2>1, KemptAbort
  <2> QED
    BY <1>2, <1>3, <1>6, <1>9, <2>1, <2>2
<1>10. CASE /\ DeleteAsserts(rs, h.obj) /\ rs' = t /\ Continues(res) /\ UNCHANGED report
            /\ st' = mut_collect_producer_stats(Hit(now, "realloc"), call.n)
  <2>1. e.consumer = NoAction
    BY <1>10 DEF DeleteAsserts
  <2>2. PICK r : r = Gone(e, "realloc", h.bt)
    OBVIOUS
  <2>3. d = mut_resources_mark_as_free(rs, h.obj, "realloc", h.bt)
    BY <1>3 DEF mut_resources_delete_resource
  <2> HIDE DEF d
  <2>4. /\ Sound(d, h.bt) /\ Len(d.elems) = Len(rs.elems) /\ Swapped(rs, d, e, r)
        /\ r.addr = e.addr /\ r.size = e.size
        /\ r.consumer = "realloc" /\ "realloc" # NoAction
    BY <1>2, <1>3, <1>5, <2>1, <2>2, <2>3, Marks
  <2>5. At(d, res) = {}
    <3>1. \A x \in ToSet(rs.elems) : x.addr # res
      BY <1>4, Lookup
    <3>2. \A x \in ToSet(d.elems) : x.addr # res
      BY <1>6, <2>4, <3>1 DEF Swapped
    <3>3. d \in ListOf(Listed)
      BY <2>4, BalancedNumbers DEF Sound
    <3> QED
      BY <3>2, <3>3, Lookup
  <2>6. /\ c = mut_resources_create_resource(d, res) /\ i = mut_resources_lookup(c, res)
        /\ t = mut_resource_make_producer(c, i, "realloc", call.n, h.bt)
    OBVIOUS
  <2> HIDE DEF c, i, t
  <2>7. /\ Sound(t, NoBt) /\ 0..Len(d.elems) \subseteq 0..Len(t.elems)
        /\ Entered(d, t, res, call.n)
    <3>1. /\ Sound(d, h.bt) /\ h.bt \in Bt \cup {NoBt} /\ res \in Nat /\ call.n \in Nat
          /\ "realloc" \in AllFn
      BY <1>2, <2>4
    <3> QED
      BY ONLY <2>5, <2>6, <3>1, Creates
  <2>8. h'.obj \in 0..Len(rs'.elems) /\ Sound(rs', NoBt)
    BY <1>1, <1>2, <1>10, <2>4, <2>7
  <2>9. pc' = "target"
    BY <1>10 DEF Continues
  <2>10. Kempt'
    BY <1>1, <1>8, <1>10, <2>8, <2>9, KemptReturn
  <2> QED
    BY <1>2, <1>3, <1>6, <1>10, <2>1, <2>4, <2>7, <2>9, <2>10
<1> QED
  BY <1>1, <1>9, <1>10

\* The heap, once damaged, stays so.
LEMMA StaysDamaged ==
    ASSUME Typed, [Next]_vars
    PROVE  UNCHANGED flags /\ (heap.corrupt => heap'.corrupt)
<1>1. CASE UNCHANGED vars
  BY <1>1 DEF vars
<1>0. heap \in HeapSet
  BY DEF Typed
<1>2. CASE ProgramStep
  <2>1. UNCHANGED <<flags, heap>> \/ \E p, w : UNCHANGED flags /\ heap' = Write(heap, w, mut_zone_size)
    BY <1>2 DEF ProgramStep, TargetCalls, TargetOverruns
  <2> QED
    BY <1>0, <2>1, WriteIs
<1>3. CASE TargetActs
  <2>1. UNCHANGED flags
    BY <1>3 DEF TargetActs
  <2>2. \/ heap' = heap
        \/ \E b \in Base : \E n : heap' = Allocated(heap, b, n)
        \/ \E f : heap' = [heap EXCEPT !.block = f]
        \/ \E f : heap' = [heap EXCEPT !.block[arg.p] = f]
        \/ heap' = Damaged(heap)
    BY <1>3 DEF TargetActs, TargetAllocates, TargetReallocates, TargetFrees, Allocates, Reallocates
  <2> QED
    BY <1>0, <2>1, <2>2 DEF Allocated, Damaged, HeapSet
<1>4. CASE MutStep
  <2>1. UNCHANGED flags
    BY <1>4 DEF MutStep, mut_do_malloc, mut_malloc_failure, mut_malloc_success, mut_do_calloc,
       mut_calloc_failure, mut_calloc_success, FreeNull, FreeUnallocated, FreeFreed,
       FreeAvailable, ReallocNull, ReallocUnallocated, ReallocAllocated, mut_realloc_failure,
       mut_realloc_malloc, mut_realloc_malloc_no_free, mut_realloc_realloc,
       mut_realloc_realloc_no_free, mut_do_usage, PlainReturns, RequestFails,
       FailureLosesBacktrace, mut_close, AllocationFails, AllocationSucceeds, ReallocMakes
  <2>2. CASE FreeAvailable \/ mut_realloc_realloc
    <3>1. heap' = heap \/ \E a, n : heap' = Zero(heap, a, n)
      BY <2>2 DEF FreeAvailable, mut_realloc_realloc
    <3> QED
      BY <1>0, <2>1, <3>1, ZeroIs
  <2>3. CASE \/ mut_malloc_success \/ mut_calloc_success \/ mut_realloc_malloc
             \/ mut_realloc_malloc_no_free
    <3>1. PICK n : heap' = mut_install_check_zones(heap, res, n)
                   /\ n \in {arg.k * arg.n, mut_round_up(call.n)}
      BY <2>3 DEF mut_malloc_success, mut_calloc_success, AllocationSucceeds,
         mut_realloc_malloc, mut_realloc_malloc_no_free, ReallocMakes
    <3>2. n \in Int /\ res \in Int
      BY <3>1, RoundedUp DEF Typed
    <3> QED
      BY <1>0, <2>1, <3>1, <3>2, InstallIs
  <2>4. CASE mut_realloc_realloc_no_free
    <3>1. heap' = heap \/ \E a, n, x, y : heap' = Zero(Write(heap, a, n), x, y)
      BY <2>4 DEF mut_realloc_realloc_no_free, mut_process_memcpy
    <3>2. ASSUME NEW a, NEW n, NEW x, NEW y, heap' = Zero(Write(heap, a, n), x, y)
          PROVE  heap.corrupt => heap'.corrupt
      <4>1. Write(heap, a, n) \in HeapSet /\ (heap.corrupt => Write(heap, a, n).corrupt)
        BY <1>0, WriteIs
      <4> QED
        BY <3>2, <4>1, ZeroIs
    <3> QED
      BY <2>1, <3>1, <3>2
  <2>5. CASE \/ mut_do_malloc \/ mut_malloc_failure \/ mut_do_calloc \/ mut_calloc_failure
             \/ FreeNull \/ FreeUnallocated \/ FreeFreed
             \/ ReallocNull \/ ReallocUnallocated \/ ReallocAllocated
             \/ mut_realloc_failure \/ mut_do_usage \/ PlainReturns \/ RequestFails
             \/ FailureLosesBacktrace \/ mut_close
    <3>1. heap' = heap
      BY <2>5 DEF mut_do_malloc, mut_malloc_failure, mut_do_calloc, mut_calloc_failure,
         FreeNull, FreeUnallocated, FreeFreed, ReallocNull, ReallocUnallocated,
         ReallocAllocated, mut_realloc_failure, mut_do_usage, PlainReturns, RequestFails,
         FailureLosesBacktrace, mut_close, AllocationFails
    <3> QED
      BY <2>1, <3>1
  <2> QED
    BY <1>4, <2>2, <2>3, <2>4, <2>5 DEF MutStep
<1> QED
  BY <1>1, <1>2, <1>3, <1>4 DEF Next

\* No resource is where realloc without -f makes a new one.
LEMMA NewIsApart ==
    ASSUME Typed, Called, Taken, Kempt, Books, Kept,
           pc = "exit", h.path = "realloc_no_free", res # 0
    PROVE  At(rs, res) = {} /\ DistinctIn(rs.elems)
<1>1. call.fn = "realloc" /\ call.fn \in Function /\ ~On("free")
  BY DEF Called, Working, Taken, Running
<1>2. Sane
  BY <1>1 DEF Kept, Sane
<1>3. DistinctIn(rs.elems) /\ GainKept
  BY <1>2 DEF Books, Ended, Ledger
<1>4. Gained /\ \A a : ~Left(a)
  BY DEF Gained, Left
<1>5. \A e \in ToSet(rs.elems) : e.addr # res
  BY <1>3, <1>4 DEF GainKept
<1>6. rs \in ListOf(Listed)
  BY ObjIs DEF Kempt, Ended
<1> QED
  BY <1>3, <1>5, <1>6, Lookup

LEMMA KemptStep ==
    ASSUME Typed, Called, Taken, Kempt, Books, Kept, [Next]_vars
    PROVE  Kempt'
<1>1. CASE UNCHANGED vars
  <2>1. UNCHANGED <<flags, pc, call, h, rs, st>>
    BY <1>1 DEF vars
  <2> QED
    BY <2>1 DEF Kempt, Ended, Holder, Running, Sound, On
<1>2. CASE ProgramStep
  <2>1. /\ pc = "target" /\ pc' \in {"target", "call"} /\ UNCHANGED <<flags, rs, st, h>>
    BY <1>2 DEF ProgramStep, TargetCalls, TargetOverruns
  <2>2. ~Ended /\ ~Ended' /\ ~Running /\ ~Running'
    BY <2>1 DEF Ended, Running
  <2> QED
    BY <2>1, <2>2, KemptSame
<1>3. CASE TargetActs
  <2>1. /\ pc = "act" /\ pc' = "exit" /\ UNCHANGED <<flags, rs, st, h, call>>
    BY <1>3 DEF TargetActs
  <2>2. ~Ended /\ ~Ended' /\ Running /\ Running'
    BY <2>1 DEF Ended, Running
  <2> QED
    BY <2>1, <2>2, KemptSame
<1>4. CASE \/ mut_do_malloc \/ mut_do_calloc \/ FreeNull \/ ReallocNull \/ ReallocUnallocated
           \/ ReallocAllocated \/ mut_do_usage
  BY <1>4, EntryKempt
<1>5. CASE FreeUnallocated \/ FreeFreed
  BY <1>5, FreeKempt
<1>6. CASE FreeAvailable
  BY <1>6, FreeAvailableKempt
<1>7. CASE mut_malloc_failure \/ mut_calloc_failure
  <2>1. "malloc" \in AllFn /\ "calloc" \in AllFn
    BY DEF AllFn
  <2> QED
    BY <1>7, <2>1, FailsKempt DEF mut_malloc_failure, mut_calloc_failure
<1>8. CASE mut_malloc_success \/ mut_calloc_success
  <2>1. "malloc" \in AllFn /\ "calloc" \in AllFn /\ call.n \in Nat /\ calloc_size(call) \in Nat
    BY CallocSize DEF AllFn, Typed
  <2> QED
    BY <1>8, <2>1, SucceedsKempt DEF mut_malloc_success, mut_calloc_success
<1>9. CASE mut_realloc_malloc \/ mut_realloc_malloc_no_free
  BY <1>9, MakesKempt DEF mut_realloc_malloc, mut_realloc_malloc_no_free
<1>10. CASE mut_realloc_realloc
  BY <1>10, MovesKempt
<1>11. CASE mut_realloc_realloc_no_free
  <2>1. pc = "exit" /\ h.path = "realloc_no_free" /\ res # 0
    BY <1>11 DEF mut_realloc_realloc_no_free
  <2> QED
    BY <1>11, <2>1, NewIsApart, CopiesKempt
<1>12. ASSUME pc \in {"act", "exit"}, NEW s \in Stats, st' = s, UNCHANGED flags,
              GiveUp(mut_backtrace_close(rs, h.bt))
       PROVE  Kempt'
  <2>1. Sound(rs, h.bt) /\ h.bt \in Bt \cup {NoBt}
    BY <1>12 DEF Kempt, Holder, Running, Ended, Typed
  <2>2. Sound(mut_backtrace_close(rs, h.bt), NoBt)
    BY <2>1, Closes
  <2>3. NoBt \in Bt \cup {NoBt}
    OBVIOUS
  <2> QED
    BY <1>12, <2>2, <2>3, KemptClose DEF GiveUp
<1>13. CASE mut_realloc_failure
  <2>1. "realloc" \in AllFn /\ st \in Stats
    BY DEF AllFn, Kempt
  <2>2. st' \in Stats
    BY <1>13, <2>1, StatsType DEF mut_realloc_failure
  <2> QED
    BY <1>12, <1>13, <2>2 DEF mut_realloc_failure
<1>14. CASE PlainReturns
  <2>1. /\ pc = "exit" /\ h.path = "plain" /\ UNCHANGED <<flags, h, rs, st>> /\ pc' = "target"
    BY <1>14 DEF PlainReturns, Continues
  <2>2. h.bt = NoBt
    BY <2>1 DEF Taken, Running
  <2>3. Sound(rs', NoBt) /\ st' \in Stats /\ h'.obj \in 0..Len(rs'.elems)
    BY <2>1, <2>2 DEF Kempt, Holder, Running, Ended
  <2> QED
    BY <2>1, <2>3, KemptReturn
<1>15. CASE RequestFails
  <2>1. st' = st /\ st \in Stats /\ UNCHANGED flags
    BY <1>15 DEF RequestFails, Kempt
  <2>2. CASE pc = "call"
    <3>1. GiveUp(rs) /\ Sound(rs, NoBt) /\ NoBt \in Bt \cup {NoBt}
      BY <1>15, <2>2 DEF RequestFails, Kempt, Holder, Running, Ended
    <3> QED
      BY <2>1, <3>1, KemptClose DEF GiveUp
  <2>3. CASE pc # "call"
    BY <1>12, <1>15, <2>1, <2>3 DEF RequestFails
  <2> QED
    BY <2>2, <2>3
<1>16. CASE FailureLosesBacktrace
  <2>1. /\ st' = st /\ st \in Stats /\ UNCHANGED flags /\ GiveUp(rs)
        /\ Sound(rs, h.bt) /\ h.bt \in Bt \cup {NoBt}
    BY <1>16 DEF FailureLosesBacktrace, Kempt, Holder, Running, Ended, Typed
  <2> QED
    BY <2>1, KemptClose DEF GiveUp
<1>17. CASE mut_close
  <2>1. /\ st' = st /\ st \in Stats /\ UNCHANGED flags /\ pc' = "closed"
        /\ rs' = mut_resources_close(rs) /\ Sound(rs, NoBt) /\ NoBt \in Bt \cup {NoBt}
    BY <1>17 DEF mut_close, Kempt, Holder, Running, Ended
  <2> QED
    BY <2>1, KemptClose
<1>18. CASE MutStep
  BY <1>4, <1>5, <1>6, <1>7, <1>8, <1>9, <1>10, <1>11, <1>13, <1>14, <1>15, <1>16, <1>17, <1>18
     DEF MutStep
<1> QED
  BY <1>1, <1>2, <1>3, <1>18 DEF Next

LEMMA ListsStep ==
    ASSUME Typed, Called, Taken, Lists, Books, [Next]_vars
    PROVE  Lists'
<1>1. UNCHANGED flags /\ (heap.corrupt => heap'.corrupt)
  BY StaysDamaged
<1>2. Kept' => Kept
  BY <1>1 DEF Kept, Undamaged, Sized, On
<1> QED
  BY <1>2, KemptStep DEF Lists

-----------------------------------------------------------------------------
(* the books are kept *)

\* Blocks, and the objects within them, are apart.
LEMMA BaseApart ==
    /\ \A b, c \in Base : b = c \/ b + mut_zone_size = c \/ b = c + mut_zone_size => b = c
    /\ \A x \in Stray : x \notin Base
<1>1. ASSUME NEW b \in Base, NEW c \in Base,
             b = c \/ b + mut_zone_size = c \/ b = c + mut_zone_size
      PROVE  b = c
  <2>1. b \in Nat /\ c \in Nat /\ MaxBlock \in Nat
    BY Inputs
  <2>2. /\ b < c => b + MaxBlock + mut_zone_size < c
        /\ c < b => c + MaxBlock + mut_zone_size < b
    BY HeapAssumption
  <2> QED
    BY <1>1, <2>1, <2>2 DEF mut_zone_size
<1>2. ASSUME NEW x \in Stray PROVE x \notin Base
  <2>1. x \in Nat /\ MaxBlock \in Nat
    BY Inputs
  <2>2. \A b \in Base : x < b \/ x > b + MaxBlock
    BY HeapAssumption
  <2> QED
    BY <2>1, <2>2
<1> QED
  BY <1>1, <1>2

\* Where objects are depends on the blocks alone.
LEMMA HousedSame ==
    ASSUME UNCHANGED flags, heap'.block = heap.block
    PROVE  Live' = Live /\ \A a, n : Housed(a, n)' <=> Housed(a, n)
<1>1. Live' = Live
  BY DEF Live
<1> QED
  BY <1>1 DEF Housed, On

\* Without -c an object is where its block is.
LEMMA HousedPlain ==
    ASSUME ~On("check"), NEW a, NEW n \in Nat, Housed(a, n), Typed
    PROVE  a \in Live /\ a \in Base /\ n <= heap.block[a]
<1>1. PICK b \in Live : a = b /\ a + n <= b + heap.block[b]
  BY DEF Housed
<1>2. b \in Base /\ b \in Nat /\ heap.block[b] \in Int
  <2>1. b \in Base
    BY DEF Live
  <2> QED
    BY <2>1, Inputs DEF Typed, HeapSet, Unallocated
<1> QED
  BY <1>1, <1>2

\* No two resources have one address.
LEMMA SameAddr ==
    ASSUME NEW b, Sound(rs, b), DistinctIn(rs.elems), NEW x \in ToSet(rs.elems),
           NEW y \in ToSet(rs.elems), x.addr = y.addr
    PROVE  x = y
<1>1. rs.elems \in Seq(Listed)
  BY ObjIs
<1>2. PICK i \in 1..Len(rs.elems) : rs.elems[i] = x
  BY <1>1, SetOfSeq
<1>3. PICK j \in 1..Len(rs.elems) : rs.elems[j] = y
  BY <1>1, SetOfSeq
<1> QED
  BY <1>2, <1>3 DEF DistinctIn

\* What MUT zeroes of an object was set aside for it.
LEMMA HousedRoom ==
    ASSUME Typed, Sane, Worded, PadsBlocks \/ On("check"), NEW a, NEW n \in Nat, Housed(a, n)
    PROVE  InRoom(heap, a, WholeWords(n))
<1>1. PICK b \in Live : /\ a = b \/ (On("check") /\ a = b + mut_zone_size)
                        /\ a + n <= b + heap.block[b]
  BY DEF Housed
<1>2. /\ b \in Base /\ b \in Nat /\ heap.block[b] # Unallocated
      /\ heap.block[b] \in 0..MaxBlock /\ heap.block[b] <= Room(heap, b) /\ MaxBlock \in Nat
      /\ Room(heap, b) \in Nat
  <2>1. b \in Base /\ b \in Nat /\ heap.block[b] # Unallocated /\ MaxBlock \in Nat
    BY <1>1, Inputs DEF Live
  <2>2. heap \in HeapSet
    BY DEF Typed
  <2> QED
    BY <2>1, <2>2, RoomIs
<1>3. PICK m : m = heap.block[b]
  OBVIOUS
<1>4. m \in Nat /\ WholeWords(n) \in Nat
  BY <1>2, <1>3, WholeWordsIs
<1>5. CASE On("check")
  <2>1. m % mut_zone_size = 0
    BY <1>1, <1>3, <1>5 DEF Worded
  <2>2. CASE a = b
    <3>1. n <= m
      BY <1>1, <1>2, <1>3, <1>4, <2>2
    <3>2. WholeWords(n) <= m
      BY <1>4, <2>1, <3>1, WholeWordsFit
    <3> QED
      BY <1>2, <1>3, <1>4, <2>2, <3>2 DEF InRoom
  <2>3. CASE a = b + mut_zone_size
    <3>1. n + mut_zone_size <= m /\ n + mut_zone_size \in Nat /\ n <= m
      BY <1>1, <1>2, <1>3, <1>4, <2>3 DEF mut_zone_size
    <3>2. WholeWords(n + mut_zone_size) <= m
      BY <1>4, <2>1, <3>1, WholeWordsFit
    <3>3. WholeWords(n) + mut_zone_size <= m
      BY <1>4, <3>1, <3>2, WholeWordsFit
    <3>4. a + WholeWords(n) <= b + Room(heap, b) /\ b <= a
      BY <1>2, <1>3, <1>4, <2>3, <3>3 DEF mut_zone_size
    <3> QED
      BY <1>2, <3>4 DEF InRoom
  <2> QED
    BY <1>1, <2>2, <2>3
<1>6. CASE ~On("check")
  <2>1. PadsBlocks /\ a = b
    BY <1>1, <1>6
  <2>2. n <= m
    BY <1>1, <1>2, <1>3, <1>4, <2>1
  <2>3. WholeWords(n) <= Room(heap, b)
    BY <1>3, <1>4, <2>1, <2>2, WholeWordsFit DEF Room
  <2> QED
    BY <1>2, <1>4, <2>1, <2>3 DEF InRoom
<1> QED
  BY <1>5, <1>6

\* Not before the function returned something new are the books in motion.
LEMMA LedgerSame ==
    ASSUME Ledger, UNCHANGED flags, rs'.elems = rs.elems, heap'.block = heap.block,
           prog'.owned = prog.owned, prog'.freed = prog.freed, Held' = Held,
           ~Gained, ~Gained', FreeingKept', StrayKept'
    PROVE  Ledger'
<1>1. Live' = Live /\ \A a, n : Housed(a, n)' <=> Housed(a, n)
  BY HousedSame
<1>2. (\A a : ~Left(a)) /\ (\A a : ~Left(a)')
  BY DEF Left
<1>3. DistinctIn(rs.elems)'
  BY DEF Ledger, DistinctIn
<1>4. InUse' = InUse /\ GivenBack' = GivenBack
  BY DEF InUse, GivenBack
<1>5. Matched'
  BY <1>4 DEF Ledger, Matched, On
<1>6. HomesKept'
  BY <1>1, <1>2 DEF Ledger, HomesKept
<1>7. GainKept' /\ FreedKept'
  BY <1>1 DEF Ledger, GainKept, FreedKept, On
<1> QED
  BY <1>3, <1>5, <1>6, <1>7 DEF Ledger

\* A pointer that no resource has was never given out, or its object was given
\* back to the allocator.
LEMMA StrayCall ==
    ASSUME Typed, Called, Kempt, Ledger, pc = "call", At(rs, call.p) = {}
    PROVE  /\ call.p \notin DOMAIN prog.owned
           /\ call.p # 0 /\ call.fn \in {"free", "cfree", "realloc"}
                => /\ call.expect = "FUM" /\ prog.faulty
                   /\ On("free") => call.p \notin Live
<1>1. /\ ~Running /\ ~Freeing /\ ~Gained /\ Working /\ Held = DOMAIN prog.owned
  BY DEF Running, Freeing, Gained, Working, Held
<1>2. rs \in ListOf(Listed)
  BY ObjIs DEF Kempt, Ended
<1>3. \A e \in ToSet(rs.elems) : e.addr # call.p
  BY <1>2, Lookup
<1>4. call.p \notin DOMAIN prog.owned
  BY <1>1, <1>3 DEF Ledger, Matched, InUse
<1>5. ~On("free") => call.p \notin prog.freed
  BY <1>3 DEF Ledger, Matched, GivenBack
<1>6. ASSUME call.p # 0, call.fn \in {"free", "cfree", "realloc"}
      PROVE  /\ call.expect = "FUM" /\ prog.faulty
             /\ On("free") => call.p \notin Live
  <2>1. Expected(call.fn, call.p) = "FUM"
    BY <1>4, <1>5, <1>6 DEF Expected, Owned
  <2>2. call.expect = "FUM" /\ prog.faulty
    BY <1>1, <2>1 DEF Called
  <2>3. call.p \in Stray \/ call.p \in prog.freed
    BY <1>1, <1>4, <1>6 DEF Called, Pointer
  <2>4. ASSUME On("free") PROVE call.p \notin Live
    BY <1>1, <2>3, <2>4, BaseApart DEF Ledger, FreedKept, Live
  <2> QED
    BY <2>2, <2>4
<1> QED
  BY <1>4, <1>6

\* A resource that was given back is that of an object the program gave back.
LEMMA FreedCall ==
    ASSUME Typed, Called, Kempt, Ledger, pc = "call", Obj # 0,
           mut_resources_resource_deleted(rs.elems[Obj])
    PROVE  /\ ~On("free") /\ call.p \notin DOMAIN prog.owned
           /\ call.p # 0 /\ call.fn \in {"free", "cfree", "realloc"}
                => call.expect = "FFM" /\ prog.faulty
<1> DEFINE e == rs.elems[Obj]
<1>1. /\ ~Running /\ ~Freeing /\ Working /\ Held = DOMAIN prog.owned
  BY DEF Running, Freeing, Working, Held
<1>2. Sound(rs, Holder)
  BY DEF Kempt, Ended
<1>3. e \in ToSet(rs.elems) /\ e.addr = call.p /\ e.consumer # NoAction
  BY <1>2, ObjIs DEF mut_resources_resource_deleted
<1>4. ~On("free")
  BY <1>2, <1>3 DEF Sound
<1>5. call.p \notin DOMAIN prog.owned
  <2>1. SUFFICES ASSUME call.p \in DOMAIN prog.owned PROVE FALSE
    OBVIOUS
  <2>2. PICK x \in ToSet(rs.elems) : x.consumer = NoAction /\ x.addr = call.p
    BY <1>1, <2>1 DEF Ledger, Matched, InUse
  <2>3. x = e
    BY <1>2, <1>3, <2>2, SameAddr DEF Ledger
  <2> QED
    BY <1>3, <2>2, <2>3
<1>6. call.p \in prog.freed
  BY <1>3 DEF Ledger, Matched, GivenBack
<1>7. ASSUME call.p # 0, call.fn \in {"free", "cfree", "realloc"}
      PROVE  call.expect = "FFM" /\ prog.faulty
  <2>1. Expected(call.fn, call.p) = "FFM"
    BY <1>4, <1>5, <1>6, <1>7 DEF Expected, Owned
  <2> QED
    BY <1>1, <2>1 DEF Called
<1> QED
  BY <1>4, <1>5, <1>7

\* A resource in use is that of an object the program has.
LEMMA OwnedCall ==
    ASSUME Typed, Called, Kempt, Ledger, pc = "call", NEW e, e = rs.elems[Obj], Obj # 0,
           ~mut_resources_resource_deleted(e)
    PROVE  /\ e \in ToSet(rs.elems) /\ e.addr = call.p /\ e.consumer = NoAction
           /\ call.p \in DOMAIN prog.owned /\ prog.owned[call.p] = e.size
           /\ Housed(call.p, e.size) /\ e \in Listed
           /\ ~On("check") => call.expect = "none"
<1>1. /\ ~Running /\ ~Freeing /\ ~Gained /\ Working /\ Held = DOMAIN prog.owned
  BY DEF Running, Freeing, Gained, Working, Held
<1>2. e \in ToSet(rs.elems) /\ e.addr = call.p /\ e.consumer = NoAction /\ e \in Listed
  BY ObjIs DEF Kempt, Ended, mut_resources_resource_deleted
<1>3. call.p \in DOMAIN prog.owned /\ prog.owned[call.p] = e.size
  BY <1>1, <1>2 DEF Ledger, Matched, InUse
<1>4. Housed(call.p, e.size)
  BY <1>1, <1>2 DEF Ledger, HomesKept, Left
<1>5. ASSUME ~On("check") PROVE call.expect = "none"
  BY <1>1, <1>3, <1>5 DEF Called, Expected, Owned
<1> QED
  BY <1>2, <1>3, <1>4, <1>5

\* The function is going to run.
LEMMA EntryLedger ==
    ASSUME Typed, Called, Taken', Kempt, Ledger,
           \/ mut_do_malloc \/ mut_do_calloc \/ FreeNull \/ ReallocNull \/ ReallocUnallocated
           \/ ReallocAllocated \/ mut_do_usage
    PROVE  Ledger'
<1>1. /\ pc = "call" /\ pc' = "act" /\ UNCHANGED <<flags, call, res, heap, prog>>
  BY DEF mut_do_malloc, mut_do_calloc, FreeNull, IsConsumer, ReallocNull, IsRealloc,
     ReallocUnallocated, ReallocAllocated, mut_do_usage, EnterAction
<1>2. rs'.elems = rs.elems
  BY EntryKempt
<1>3. ~Gained /\ ~Gained' /\ ~Running /\ ~Freeing /\ Running'
  BY <1>1 DEF Gained, Running, Freeing
<1>5. \/ FreeNull /\ call.fn \in {"free", "cfree"} /\ call.p = 0
      \/ (mut_do_malloc \/ mut_do_calloc \/ mut_do_usage) /\ call.fn \in {"malloc", "calloc", "usage"}
      \/ ReallocNull /\ call.fn = "realloc" /\ call.p = 0
      \/ /\ ReallocUnallocated /\ call.fn = "realloc" /\ call.p # 0 /\ At(rs, call.p) = {}
      \/ /\ ReallocAllocated /\ call.fn = "realloc"
         /\ h'.path \in {"realloc", "realloc_no_free"}
  <2>1. At(rs, call.p) = {} \/ Obj # 0
    BY <1>1, ObjIs DEF Kempt, Ended
  <2>2. ReallocAllocated => h'.path \in {"realloc", "realloc_no_free"}
    BY DEF ReallocAllocated, EnterAction
  <2> QED
    BY <2>1, <2>2 DEF mut_do_malloc, mut_do_calloc, FreeNull, IsConsumer, ReallocNull, IsRealloc,
       ReallocUnallocated, ReallocAllocated, mut_do_usage
<1>6. Freeing' => call.p = 0
  BY <1>1, <1>5 DEF Freeing
<1>7. Held' = Held
  <2>1. 0 \notin DOMAIN prog.owned
    BY DEF Typed
  <2> QED
    BY <1>1, <1>3, <1>6, <2>1 DEF Held
<1>8. ASSUME h'.path = "plain", call.fn = "realloc"
      PROVE  call.p \notin Live /\ prog.faulty
  <2>1. call.p # 0 /\ On("free")
    BY <1>1, <1>3, <1>8 DEF Taken, On
  <2>2. At(rs, call.p) = {}
    BY <1>5, <1>8, <2>1
  <2> QED
    BY <1>1, <1>8, <2>1, <2>2, StrayCall
<1>9. FreeingKept'
  BY <1>1, <1>6, <1>8 DEF FreeingKept, Live
<1>10. StrayKept'
  <2>1. SUFFICES ASSUME h'.path = "malloc_no_free" PROVE call.p \notin DOMAIN prog.owned
    BY <1>1 DEF StrayKept
  <2>2. call.fn = "realloc" /\ call.p # 0
    BY <1>1, <1>3, <2>1 DEF Taken
  <2>3. At(rs, call.p) = {}
    BY <1>5, <2>1, <2>2
  <2> QED
    BY <1>1, <2>3, StrayCall
<1> QED
  BY <1>1, <1>2, <1>3, <1>7, <1>9, <1>10, LedgerSame

\* The program goes on and has what it had.
LEMMA LedgerReturns ==
    ASSUME Typed, Ledger, NEW r \in Nat, Continues(r), Lost(r) = {}, Got(r) = {},
           UNCHANGED flags, rs'.elems = rs.elems, heap'.block = heap.block, ~Gained, ~Freeing
    PROVE  Ledger'
<1>1. pc' = "target" /\ DOMAIN prog'.owned = DOMAIN prog.owned /\ prog'.freed = prog.freed
  BY ContinuesIs
<1>2. \A p \in DOMAIN prog.owned : prog'.owned[p] = prog.owned[p]
  BY ContinuesIs
<1>3. prog'.owned = prog.owned
  <2>1. prog'.owned \in [DOMAIN prog'.owned -> Nat] /\ prog.owned \in [DOMAIN prog.owned -> Nat]
    BY ContinuesTyped DEF Typed
  <2> QED
    BY <1>1, <1>2, <2>1
<1>4. ~Gained' /\ ~Freeing' /\ FreeingKept' /\ StrayKept'
  BY <1>1 DEF Gained, Freeing, FreeingKept, StrayKept, Running
<1>5. Held' = Held
  BY <1>3, <1>4 DEF Held
<1> QED
  BY <1>1, <1>3, <1>4, <1>5, LedgerSame

\* free of what the program does not have.
LEMMA FreeLedger ==
    ASSUME Typed, Called, Kempt, Ledger, FreeUnallocated \/ FreeFreed
    PROVE  Ledger'
<1>1. /\ pc = "call" /\ call.p # 0 /\ call.fn \in {"free", "cfree"} /\ FreeOrSkip
      /\ UNCHANGED <<flags, call, heap>>
  BY DEF FreeUnallocated, FreeFreed, IsConsumer
<1>2. rs' = rs
  BY FreeKempt
<1>3. ~Gained /\ ~Running /\ ~Freeing
  BY <1>1 DEF Gained, Running, Freeing
<1>4. call.p \notin DOMAIN prog.owned /\ prog.faulty
  <2>1. CASE FreeUnallocated
    BY <1>1, <2>1, StrayCall DEF FreeUnallocated
  <2>2. CASE FreeFreed
    BY <1>1, <2>2, FreedCall DEF FreeFreed
  <2> QED
    BY <2>1, <2>2
<1>5. CASE Continues(0)
  <2>1. Lost(0) = {} /\ Got(0) = {}
    BY <1>1, <1>4 DEF Lost, Got
  <2>2. 0 \in Nat
    OBVIOUS
  <2> QED
    BY <1>1, <1>2, <1>3, <1>5, <2>1, <2>2, LedgerReturns
<1>6. CASE On("free") /\ pc' = "act" /\ UNCHANGED <<res, prog>>
  <2>1. h'.path = "plain"
    BY <1>1, FreeOrSkipIs
  <2>2. ~Gained' /\ StrayKept' /\ FreeingKept'
    BY <1>1, <1>4, <1>6, <2>1 DEF Gained, StrayKept, FreeingKept
  <2>3. Held' = Held
    BY <1>1, <1>3, <1>4, <1>6 DEF Held
  <2> QED
    BY <1>1, <1>2, <1>3, <1>6, <2>2, <2>3, LedgerSame
<1> QED
  BY <1>1, <1>5, <1>6, FreeOrSkipIs

\* free of an object the program has.
LEMMA FreeAvailableLedger ==
    ASSUME Typed, Called, Kempt, Ledger, FreeAvailable, pc' # "failed", Sane
    PROVE  Ledger'
<1> DEFINE e == rs.elems[Obj]
<1>1. /\ pc = "call" /\ call.p # 0 /\ call.fn \in {"free", "cfree"} /\ FreeOrSkip /\ Obj # 0
      /\ UNCHANGED <<flags, call>> /\ heap' = Zero(heap, call.p, e.size)
      /\ ~mut_resources_resource_deleted(e)
  BY DEF FreeAvailable, IsConsumer, GiveUp
<1>2. ~Gained /\ ~Running /\ ~Freeing /\ Held = DOMAIN prog.owned
  BY <1>1 DEF Gained, Running, Freeing, Held
<1>3. heap'.block = heap.block
  BY <1>1, ZeroIs DEF Typed
<1>4. Live' = Live /\ \A a, n : Housed(a, n)' <=> Housed(a, n)
  BY <1>1, <1>3, HousedSame
<1>5. PICK x : x = e
  OBVIOUS
<1> HIDE DEF e
<1>6. /\ x \in ToSet(rs.elems) /\ x.addr = call.p /\ x.consumer = NoAction
      /\ call.p \in DOMAIN prog.owned /\ prog.owned[call.p] = x.size
      /\ Housed(call.p, x.size) /\ x \in Listed
  BY <1>1, <1>5, OwnedCall DEF e
<1>7. \A y \in ToSet(rs.elems) : y.addr = call.p => y = x
  <2>1. Sound(rs, Holder) /\ DistinctIn(rs.elems)
    BY <1>1 DEF Kempt, Ended, Ledger
  <2>2. SUFFICES ASSUME NEW y \in ToSet(rs.elems), y.addr = call.p PROVE y = x
    OBVIOUS
  <2>3. x.addr = y.addr /\ x \in ToSet(rs.elems)
    BY <1>6, <2>2
  <2> QED
    BY ONLY <2>1, <2>2, <2>3, SameAddr
<1>8. DistinctIn(rs.elems) /\ Matched /\ HomesKept /\ FreedKept
  BY DEF Ledger
<1>9. /\ On("free") => Removed(rs, rs', x)
      /\ ~On("free") => \E r : /\ Swapped(rs, rs', x, r) /\ r.addr = x.addr
                               /\ r.size = x.size /\ r.consumer # NoAction
  <2>1. x = rs.elems[Obj]
    BY <1>5 DEF e
  <2>2. DistinctIn(rs.elems) /\ Typed /\ Kempt /\ FreeAvailable /\ pc' # "failed"
    BY <1>8
  <2> QED
    BY ONLY <2>1, <2>2, FreeAvailableKempt
<1>10. \A y \in ToSet(rs.elems) : Housed(y.addr, y.size)
  BY <1>2, <1>8 DEF HomesKept, Left
<1>11. CASE On("free")
  <2>1. /\ h'.path = "plain" /\ pc' = "act" /\ UNCHANGED <<res, prog>>
    BY <1>1, <1>11, FreeOrSkipIs
  <2>2. /\ ~Gained' /\ StrayKept' /\ Held' = DOMAIN prog.owned \ {call.p}
    BY <1>1, <2>1 DEF Gained, StrayKept, Held, Freeing, Running
  <2>3. /\ \A y : y \in ToSet(rs'.elems) <=> y \in ToSet(rs.elems) /\ y # x
        /\ DistinctIn(rs'.elems)
    BY <1>9, <1>11 DEF Removed
  <2>4. Matched'
    <3>1. \A y \in InUse' : y.addr \in Held' /\ prog.owned[y.addr] = y.size
      BY <1>2, <1>7, <1>8, <2>2, <2>3 DEF Matched, InUse
    <3>2. \A p \in Held' : \E y \in InUse' : y.addr = p
      <4>1. SUFFICES ASSUME NEW p \in Held' PROVE \E y \in InUse' : y.addr = p
        OBVIOUS
      <4>2. PICK y \in InUse : y.addr = p
        BY <1>2, <1>8, <2>2 DEF Matched
      <4>3. y # x
        BY <1>6, <2>2, <4>2
      <4> QED
        BY <2>3, <4>2, <4>3 DEF InUse
    <3>3. \A y \in GivenBack' : y.addr \in prog.freed
      BY <1>8, <2>3 DEF Matched, GivenBack
    <3> QED
      BY <1>1, <1>11, <2>1, <3>1, <3>2, <3>3 DEF Matched, On
  <2>5. HomesKept'
    BY <1>4, <1>10, <2>2, <2>3 DEF HomesKept, Left
  <2>6. GainKept' /\ FreedKept'
    BY <1>1, <1>2, <1>4, <1>8, <2>1, <2>2 DEF GainKept, FreedKept, On
  <2>7. FreeingKept'
    <3>1. ~On("check")
      BY <1>11 DEF Sane
    <3>2. call.p \in Live
      BY <1>6, <3>1, HousedPlain, ListedFields
    <3> QED
      BY <1>1, <1>4, <2>1, <3>2 DEF FreeingKept
  <2> QED
    BY <2>2, <2>3, <2>4, <2>5, <2>6, <2>7 DEF Ledger
<1>12. CASE ~On("free")
  <2>1. Continues(0) /\ pc' = "target"
    BY <1>1, <1>12, FreeOrSkipIs
  <2>2. Lost(0) = {call.p} /\ Got(0) = {}
    BY <1>1, <1>6 DEF Lost, Got
  <2>3. /\ DOMAIN prog'.owned = DOMAIN prog.owned \ {call.p}
        /\ \A p \in DOMAIN prog.owned \ {call.p} : prog'.owned[p] = prog.owned[p]
        /\ prog'.freed = prog.freed \cup {call.p}
    <3>1. 0 \in Nat
      OBVIOUS
    <3> QED
      BY <2>1, <2>2, <3>1, ContinuesIs
  <2>4. ~Gained' /\ ~Freeing' /\ ~Running' /\ Held' = DOMAIN prog.owned \ {call.p}
    BY <2>1, <2>3 DEF Gained, Freeing, Running, Held
  <2>5. PICK r : /\ Swapped(rs, rs', x, r) /\ r.addr = x.addr
                 /\ r.size = x.size /\ r.consumer # NoAction
    BY <1>9, <1>12
  <2>6. /\ \A y : y \in ToSet(rs'.elems) <=> (y \in ToSet(rs.elems) /\ y # x) \/ y = r
        /\ DistinctIn(rs'.elems)
    BY <2>5 DEF Swapped
  <2>7. Matched'
    <3>1. \A y \in InUse' : y.addr \in Held' /\ prog'.owned[y.addr] = y.size
      BY <1>2, <1>7, <1>8, <2>3, <2>4, <2>5, <2>6 DEF Matched, InUse
    <3>2. \A p \in Held' : \E y \in InUse' : y.addr = p
      <4>1. SUFFICES ASSUME NEW p \in Held' PROVE \E y \in InUse' : y.addr = p
        OBVIOUS
      <4>2. PICK y \in InUse : y.addr = p
        BY <1>2, <1>8, <2>4 DEF Matched
      <4>3. y # x
        BY <1>6, <2>4, <4>2
      <4> QED
        BY <2>6, <4>2, <4>3 DEF InUse
    <3>3. \A y \in GivenBack' : y.addr \in prog'.freed
      BY <1>6, <1>8, <2>3, <2>5, <2>6 DEF Matched, GivenBack
    <3>4. \A p \in prog'.freed : \E y \in GivenBack' : y.addr = p
      <4>1. SUFFICES ASSUME NEW p \in prog'.freed PROVE \E y \in GivenBack' : y.addr = p
        OBVIOUS
      <4>2. CASE p = call.p
        BY <1>6, <2>5, <2>6, <4>2 DEF GivenBack
      <4>3. CASE p # call.p
        <5>1. PICK y \in GivenBack : y.addr = p
          BY <1>8, <1>12, <2>3, <4>3 DEF Matched
        <5> QED
          BY <1>6, <2>6, <4>3, <5>1 DEF GivenBack
      <4> QED
        BY <4>2, <4>3
    <3> QED
      BY <3>1, <3>2, <3>3, <3>4 DEF Matched
  <2>8. HomesKept'
    BY <1>4, <1>6, <1>10, <2>4, <2>5, <2>6 DEF HomesKept, Left
  <2>9. GainKept' /\ FreedKept' /\ FreeingKept' /\ StrayKept'
    BY <1>1, <1>12, <2>4 DEF GainKept, FreedKept, FreeingKept, StrayKept, On
  <2> QED
    BY <2>6, <2>7, <2>8, <2>9 DEF Ledger
<1> QED
  BY <1>11, <1>12

\* What the allocator does to the books: nothing but to where objects are.
LEMMA MovedLedger ==
    ASSUME Ledger, UNCHANGED <<flags, call, arg, h, rs, prog>>, pc = "act", pc' = "exit",
           HomesKept', GainKept', FreedKept', FreeingKept'
    PROVE  Ledger'
<1>1. Freeing' = Freeing /\ Running' = Running
  BY DEF Freeing, Running
<1>2. Held' = Held
  BY <1>1 DEF Held
<1>3. Matched'
  BY <1>2 DEF Ledger, Matched, InUse, GivenBack, On
<1>4. StrayKept' /\ DistinctIn(rs.elems)'
  BY <1>1 DEF Ledger, StrayKept
<1> QED
  BY <1>3, <1>4 DEF Ledger

\* A block is given out.
LEMMA AllocatesLedger ==
    ASSUME Typed, Taken, Kempt, Ledger, Sane, TargetActs, TargetAllocates, res' # 0,
           ~(h.path = "plain" /\ call.fn = "realloc")
    PROVE  Ledger'
<1>1. /\ pc = "act" /\ pc' = "exit" /\ UNCHANGED <<flags, call, arg, h, rs, prog>>
      /\ ~Gained /\ Running
  BY DEF TargetActs, Gained, Running
<1>2. call.fn \in {"malloc", "calloc", "realloc"}
  BY DEF TargetAllocates
<1>3. h.path \notin {"plain", "realloc"}
  <2>1. h.path # "plain"
    BY <1>1, <1>2 DEF Taken
  <2>2. h.path # "realloc"
    <3>1. ASSUME h.path = "realloc" PROVE FALSE
      <4>1. call.fn = "realloc" /\ call.p # 0 /\ arg.p = call.p
        BY <1>1, <3>1 DEF Taken, Given
      <4> QED
        BY <4>1 DEF TargetAllocates
    <3> QED
      BY <3>1
  <2> QED
    BY <2>1, <2>2
<1> DEFINE n == arg.k * arg.n
<1>4. n \in Nat /\ Allocates(n)
  <2>1. arg.k \in Nat /\ arg.n \in Nat
    BY DEF Typed
  <2>2. CASE call.fn = "realloc"
    <3>1. arg.k = 1
      BY <1>1, <1>3, <2>2 DEF Taken, Given
    <3>2. n = arg.n
      BY <2>1, <3>1
    <3> QED
      BY <2>1, <2>2, <3>2 DEF TargetAllocates
  <2>3. CASE call.fn # "realloc"
    BY <2>1, <2>3 DEF TargetAllocates
  <2> QED
    BY <2>2, <2>3
<1> HIDE DEF n
<1>5. /\ res' \in Base /\ res' \notin Live /\ heap'.block = [heap.block EXCEPT ![res'] = n]
  BY <1>4, AllocatesIs DEF Typed, Sane, Undamaged
<1>6. heap.block \in [Base -> Int]
  BY DEF Typed, HeapSet, Unallocated
<1>7. n # Unallocated
  BY <1>4 DEF Unallocated
<1>8. /\ Live' = Live \cup {res'} /\ heap'.block[res'] = n
      /\ \A b \in Live : heap'.block[b] = heap.block[b]
  BY <1>5, <1>6, <1>7 DEF Live
<1>9. \A a, m : Housed(a, m) => Housed(a, m)'
  BY <1>1, <1>8 DEF Housed, On
<1>10. \A e \in ToSet(rs.elems) : Housed(e.addr, e.size)
  BY <1>1 DEF Ledger, HomesKept, Left
<1>11. (\A a : ~Left(a)') /\ Gained'
  BY <1>1, <1>3 DEF Left, Gained
<1>12. HomesKept'
  BY <1>1, <1>9, <1>10, <1>11 DEF HomesKept
<1>13. \A e \in ToSet(rs.elems) : e.addr \notin {res', res' + mut_zone_size}
  <2>1. SUFFICES ASSUME NEW e \in ToSet(rs.elems), e.addr \in {res', res' + mut_zone_size}
                 PROVE  FALSE
    OBVIOUS
  <2>2. PICK b \in Live : e.addr = b \/ e.addr = b + mut_zone_size
    <3>1. Housed(e.addr, e.size)
      BY <1>10
    <3> QED
      BY <3>1 DEF Housed
  <2>3. b \in Base /\ b \in Nat /\ res' \in Nat
    BY <1>5, Inputs DEF Live
  <2>4. b = res' \/ b + mut_zone_size = res' \/ b = res' + mut_zone_size
    <3>1. mut_zone_size \in Nat
      BY DEF mut_zone_size
    <3>2. PICK x : x = e.addr
      OBVIOUS
    <3>3. /\ x = res' \/ x = res' + mut_zone_size
          /\ x = b \/ x = b + mut_zone_size
      BY <2>1, <2>2, <3>2
    <3>4. \A i, j, k \in Nat : i + k = j + k => i = j
      OBVIOUS
    <3>5. b + mut_zone_size = res' + mut_zone_size => b = res'
      BY ONLY <2>3, <3>1, <3>4
    <3> QED
      BY ONLY <3>3, <3>5
  <2> QED
    BY <1>5, <2>2, <2>3, <2>4, BaseApart
<1>14. GainKept'
  BY <1>1, <1>8, <1>13 DEF GainKept, n
<1>15. FreedKept'
  BY <1>1, <1>8, <1>11 DEF Ledger, FreedKept, On
<1>16. FreeingKept'
  BY <1>1, <1>3 DEF FreeingKept, Freeing
<1> QED
  BY <1>1, <1>12, <1>14, <1>15, <1>16, MovedLedger

\* One is given out for another.
LEMMA ReallocatesLedger ==
    ASSUME Typed, Called, Taken, Kempt, Ledger, Sane, TargetActs, call.fn = "realloc",
           arg.p \in Live, Reallocates(arg.p, arg.n), arg.p # 0, res' # 0,
           h.path # "plain"
    PROVE  Ledger'
<1>1. /\ pc = "act" /\ pc' = "exit" /\ UNCHANGED <<flags, call, arg, h, rs, prog>>
      /\ ~Gained /\ Running
  BY DEF TargetActs, Gained, Running
<1>2. h.path = "realloc" /\ arg.p = call.p /\ arg.k = 1 /\ On("free")
  BY <1>1 DEF Taken, Given
<1>3. ~On("check")
  BY <1>2 DEF Sane
<1> DEFINE n == arg.n
<1>4. n \in Nat /\ arg.k * arg.n = n
  BY <1>2 DEF Typed
<1> HIDE DEF n
<1>5. /\ res' \in Base /\ (res' = call.p \/ res' \notin Live)
      /\ heap'.block = [b \in Base |-> IF b = res' THEN n ELSE IF b = call.p THEN Unallocated
                                       ELSE heap.block[b]]
  BY <1>2, <1>4, ReallocatesIs DEF Typed, Sane, Undamaged, n
<1>6. n # Unallocated /\ call.p \in Base /\ call.p \in Live
  BY <1>2, <1>4 DEF Unallocated, Live
<1>7. /\ Live' = (Live \ {call.p}) \cup {res'} /\ heap'.block[res'] = n
      /\ \A b \in Live \ {call.p} : heap'.block[b] = heap.block[b]
  BY <1>5, <1>6 DEF Live
<1>8. \A e \in ToSet(rs.elems) : Housed(e.addr, e.size) /\ e.addr \in Live
  <2>1. SUFFICES ASSUME NEW e \in ToSet(rs.elems)
                 PROVE  Housed(e.addr, e.size) /\ e.addr \in Live
    OBVIOUS
  <2>2. Housed(e.addr, e.size)
    BY <1>1 DEF Ledger, HomesKept, Left
  <2>3. rs.elems \in Seq(Listed)
    BY <1>1, ObjIs DEF Kempt, Ended
  <2>4. e.size \in Nat
    BY <2>3, SetOfSeq, ListedFields
  <2> QED
    BY <1>3, <2>2, <2>4, HousedPlain
<1>9. (\A a : Left(a)' <=> a = call.p) /\ Gained'
  BY <1>1, <1>2 DEF Left, Gained
<1>10. HomesKept'
  <2>1. SUFFICES ASSUME NEW e \in ToSet(rs.elems)
                 PROVE  IF e.addr = call.p
                          THEN e.addr \in Base /\ (e.addr \in Live' => e.addr = res')
                          ELSE Housed(e.addr, e.size)'
    BY <1>1, <1>9 DEF HomesKept
  <2>2. CASE e.addr = call.p
    BY <1>6, <1>7, <2>2
  <2>3. CASE e.addr # call.p
    <3>1. PICK b \in Live : e.addr = b /\ e.addr + e.size <= b + heap.block[b]
      BY <1>3, <1>8 DEF Housed
    <3>2. b \in Live' /\ heap'.block[b] = heap.block[b]
      BY <1>7, <2>3, <3>1
    <3> QED
      BY <1>1, <2>3, <3>1, <3>2 DEF Housed
  <2> QED
    BY <2>2, <2>3
<1>11. \A e \in ToSet(rs.elems) : e.addr \in {res', res' + mut_zone_size} => e.addr = call.p
  <2>1. SUFFICES ASSUME NEW e \in ToSet(rs.elems), e.addr \in {res', res' + mut_zone_size}
                 PROVE  e.addr = call.p
    OBVIOUS
  <2>2. e.addr \in Base /\ e.addr \in Live
    BY <1>8 DEF Live
  <2>3. e.addr = res'
    BY <1>5, <2>1, <2>2, BaseApart
  <2> QED
    BY <1>5, <2>2, <2>3
<1>12. GainKept'
  BY <1>1, <1>4, <1>7, <1>9, <1>11 DEF GainKept
<1>13. FreedKept'
  BY <1>1, <1>7, <1>9 DEF Ledger, FreedKept, On
<1>14. FreeingKept'
  BY <1>1, <1>2 DEF FreeingKept, Freeing
<1> QED
  BY <1>1, <1>10, <1>12, <1>13, <1>14, MovedLedger

\* One is taken back.
LEMMA FreesLedger ==
    ASSUME Typed, Called, Taken, Kempt, Ledger, Sane, TargetActs,
           call.fn \in {"free", "cfree"}, res' = 0,
           \/ arg.p = 0 /\ heap' = heap
           \/ arg.p \in Live /\ heap' = [heap EXCEPT !.block[arg.p] = Unallocated]
    PROVE  Ledger'
<1>1. /\ pc = "act" /\ pc' = "exit" /\ UNCHANGED <<flags, call, arg, h, rs, prog>>
      /\ ~Gained /\ ~Gained' /\ Running
  BY DEF TargetActs, Gained, Running
<1>2. h.path = "plain" /\ arg.p = call.p /\ (On("free") \/ call.p = 0) /\ Freeing
  BY <1>1 DEF Taken, Freeing
<1>3. \A e \in ToSet(rs.elems) : Housed(e.addr, e.size)
  BY <1>1 DEF Ledger, HomesKept, Left
<1>4. CASE arg.p = 0 /\ heap' = heap
  <2>1. Live' = Live /\ \A a, m : Housed(a, m)' <=> Housed(a, m)
    BY <1>1, <1>4, HousedSame
  <2>2. HomesKept'
    BY <1>1, <1>3, <2>1 DEF HomesKept, Left
  <2>3. GainKept' /\ FreedKept' /\ FreeingKept'
    BY <1>1, <1>2, <1>4, <2>1 DEF Ledger, GainKept, FreedKept, FreeingKept, On
  <2> QED
    BY <1>1, <2>2, <2>3, MovedLedger
<1>5. CASE arg.p \in Live /\ heap' = [heap EXCEPT !.block[arg.p] = Unallocated]
  <2>1. call.p \in Base /\ call.p # 0 /\ On("free") /\ ~On("check") /\ call.p \in Live
    BY <1>2, <1>5, Inputs DEF Live, Sane
  <2>2. heap'.block = [heap.block EXCEPT ![call.p] = Unallocated]
    BY <1>2, <1>5, <2>1, ReleasedIs DEF Typed
  <2>3. Live' = Live \ {call.p} /\ \A b \in Live \ {call.p} : heap'.block[b] = heap.block[b]
    <3>1. heap.block \in [Base -> Int]
      BY DEF Typed, HeapSet, Unallocated
    <3> QED
      BY <2>1, <2>2, <3>1 DEF Live
  <2>4. \A e \in ToSet(rs.elems) : e.addr # call.p
    <3>1. \A e \in ToSet(rs.elems) : e \in InUse
      BY <1>1, <2>1 DEF InUse, Kempt, Ended, Sound
    <3> QED
      BY <1>2, <3>1 DEF Ledger, Matched, Held
  <2>5. HomesKept'
    <3>1. SUFFICES ASSUME NEW e \in ToSet(rs.elems) PROVE Housed(e.addr, e.size)'
      BY <1>1 DEF HomesKept, Left
    <3>2. PICK b \in Live : e.addr = b /\ e.addr + e.size <= b + heap.block[b]
      BY <1>3, <2>1 DEF Housed
    <3>3. b \in Live' /\ heap'.block[b] = heap.block[b]
      BY <2>3, <2>4, <3>2
    <3> QED
      BY <3>2, <3>3 DEF Housed
  <2>6. GainKept'
    BY <1>1 DEF GainKept
  <2>7. FreedKept'
    BY <1>1, <2>3 DEF Ledger, FreedKept, On
  <2>8. FreeingKept'
    BY <1>1, <1>2, <2>1, <2>3 DEF FreeingKept
  <2> QED
    BY <1>1, <2>5, <2>6, <2>7, <2>8, MovedLedger
<1> QED
  BY <1>4, <1>5

LEMMA TargetLedger ==
    ASSUME Typed, Called, Taken, Kempt, Ledger, Sane, TargetActs, ~heap'.corrupt
    PROVE  Ledger'
<1>1. /\ pc = "act" /\ pc' = "exit" /\ UNCHANGED <<flags, call, arg, h, rs, prog>>
      /\ ~Gained /\ Running
  BY DEF TargetActs, Gained, Running
<1>2. heap' # Damaged(heap)
  BY DamagedIs DEF Typed
<1>3. ~(h.path = "plain" /\ call.fn = "realloc")
  <2>1. SUFFICES ASSUME h.path = "plain", call.fn = "realloc" PROVE FALSE
    OBVIOUS
  <2>2. call.p # 0 /\ arg.p = call.p
    BY <1>1, <2>1 DEF Taken
  <2>3. call.p \notin Live
    BY <1>1, <2>1 DEF Ledger, FreeingKept
  <2>4. heap' = Damaged(heap)
    BY <2>1, <2>2, <2>3 DEF TargetActs, TargetAllocates, TargetReallocates, TargetFrees
  <2> QED
    BY <1>2, <2>4
<1>4. ASSUME heap' = heap, res' = 0, call.fn \notin {"free", "cfree"} PROVE Ledger'
  <2>1. ~Gained' /\ Freeing' = Freeing /\ Running' = Running /\ ~Freeing
    BY <1>1, <1>4 DEF Gained, Freeing, Running
  <2>2. Held' = Held
    BY <1>1, <2>1 DEF Held
  <2>3. FreeingKept'
    BY <1>1, <1>3, <2>1 DEF FreeingKept
  <2>4. StrayKept'
    BY <1>1, <2>1 DEF Ledger, StrayKept
  <2> QED
    BY <1>1, <1>4, <2>1, <2>2, <2>3, <2>4, LedgerSame
<1>5. CASE TargetAllocates
  <2>1. call.fn \notin {"free", "cfree"} /\ (res' = 0 => heap' = heap)
    <3>1. \A n : Allocates(n) /\ res' = 0 => heap' = heap
      BY Inputs DEF Allocates
    <3> QED
      BY <1>5, <3>1 DEF TargetAllocates
  <2> QED
    BY <1>3, <1>4, <1>5, <2>1, AllocatesLedger
<1>6. CASE TargetReallocates
  <2>1. /\ call.fn = "realloc" /\ arg.p # 0 /\ arg.p \in Live /\ Reallocates(arg.p, arg.n)
    BY <1>2, <1>6 DEF TargetReallocates
  <2>2. res' = 0 => heap' = heap
    BY <2>1, Inputs DEF Reallocates
  <2> QED
    BY <1>3, <1>4, <2>1, <2>2, ReallocatesLedger
<1>7. CASE TargetFrees
  BY <1>2, <1>7, FreesLedger DEF TargetFrees
<1>8. CASE call.fn = "usage" /\ res' = 0 /\ heap' = heap
  BY <1>4, <1>8
<1> QED
  BY <1>5, <1>6, <1>7, <1>8 DEF TargetActs

\* What is to be shown when the program goes on.
LEMMA AtRest ==
    ASSUME pc' = "target", UNCHANGED flags, heap'.block = heap.block, DistinctIn(rs'.elems),
           \A e \in ToSet(rs'.elems) :
              /\ Housed(e.addr, e.size)
              /\ e.consumer = NoAction
                   => e.addr \in DOMAIN prog'.owned /\ prog'.owned[e.addr] = e.size
              /\ e.consumer # NoAction => e.addr \in prog'.freed,
           \A p \in DOMAIN prog'.owned :
              \E e \in ToSet(rs'.elems) : e.addr = p /\ e.consumer = NoAction,
           ~On("free") => \A p \in prog'.freed :
              \E e \in ToSet(rs'.elems) : e.addr = p /\ e.consumer # NoAction,
           On("free") => \A p \in prog'.freed : p \in Base \ Live
    PROVE  Ledger'
<1>1. ~Gained' /\ ~Running' /\ ~Freeing' /\ Held' = DOMAIN prog'.owned
  BY DEF Gained, Running, Freeing, Held
<1>2. Live' = Live /\ \A a, n : Housed(a, n)' <=> Housed(a, n)
  BY HousedSame
<1>3. Matched'
  BY <1>1 DEF Matched, InUse, GivenBack, On
<1>4. HomesKept'
  BY <1>1, <1>2 DEF HomesKept, Left
<1>5. GainKept' /\ FreedKept' /\ FreeingKept' /\ StrayKept'
  BY <1>1, <1>2 DEF GainKept, FreedKept, FreeingKept, StrayKept, On
<1> QED
  BY <1>3, <1>4, <1>5 DEF Ledger

\* The handler of a function that returned something new.
LEMMA Fetched ==
    ASSUME Typed, Taken, Kempt, Ledger, pc = "exit", res # 0,
           h.path \in {"malloc", "calloc", "realloc_malloc", "malloc_no_free", "realloc_no_free"}
    PROVE  /\ Gained /\ ~Freeing /\ (\A a : ~Left(a)) /\ Held = DOMAIN prog.owned
           /\ res \in Live /\ res \in Nat /\ heap.block[res] = arg.k * arg.n
           /\ heap.block[res] \in 0..MaxBlock
           /\ At(rs, ObjectAddr(res)) = {} /\ At(rs, res) = {}
           /\ \A e \in ToSet(rs.elems) : e.addr # ObjectAddr(res) /\ e.addr # res
           /\ \A e \in ToSet(rs.elems) : Housed(e.addr, e.size)
           /\ On("free") => \A p \in prog.freed : p \in Base /\ (p \in Live => p = res)
<1>1. /\ Gained /\ (\A a : ~Left(a)) /\ ~Freeing
  BY DEF Gained, Left, Freeing
<1>2. /\ Held = DOMAIN prog.owned /\ res \in Nat
  BY <1>1 DEF Held, Typed
<1>3. res \in Live /\ heap.block[res] = arg.k * arg.n
  BY <1>1 DEF Ledger, GainKept
<1>4. heap.block[res] \in 0..MaxBlock
  BY <1>3 DEF Typed, HeapSet, Live
<1>5. \A e \in ToSet(rs.elems) : e.addr # ObjectAddr(res) /\ e.addr # res
  <2>1. ObjectAddr(res) \in {res, res + mut_zone_size}
    BY DEF ObjectAddr
  <2> QED
    BY <1>1, <2>1 DEF Ledger, GainKept
<1>6. rs \in ListOf(Listed)
  BY ObjIs DEF Kempt, Ended
<1>7. At(rs, ObjectAddr(res)) = {} /\ At(rs, res) = {}
  BY <1>5, <1>6, Lookup
<1>8. \A e \in ToSet(rs.elems) : Housed(e.addr, e.size)
  BY <1>1 DEF Ledger, HomesKept
<1>9. On("free") => \A p \in prog.freed : p \in Base /\ (p \in Live => p = res)
  BY DEF Ledger, FreedKept
<1> QED
  BY <1>1, <1>2, <1>3, <1>4, <1>5, <1>7, <1>8, <1>9

\* The new object is as large as what was asked for.
LEMMA Fits ==
    ASSUME Typed, Called, Taken, Kempt, Ledger, Sane, pc = "exit", res # 0,
           h.path \in {"malloc", "calloc", "realloc_malloc", "malloc_no_free", "realloc_no_free"}
    PROVE  /\ Housed(ObjectAddr(res), call.k * call.n)
           /\ call.k * call.n \in Nat
           /\ h.path # "calloc" => call.k = 1 /\ call.k * call.n = call.n
           /\ h.path = "calloc" => calloc_size(call) = call.k * call.n
           /\ heap.block[res] >= call.k * call.n
           /\ On("check") => /\ heap.block[res] >= call.k * call.n + 2 * mut_zone_size
                             /\ h.path # "calloc" => heap.block[res] = mut_round_up(call.n)
<1>1. /\ res \in Live /\ res \in Nat /\ heap.block[res] = arg.k * arg.n
      /\ heap.block[res] \in 0..MaxBlock
  BY Fetched
<1>2. call.k \in Nat /\ call.n \in Nat /\ WordMod \in Nat /\ MaxBlock \in Nat /\ MaxBlock < WordMod
  BY Inputs, HeapAssumption DEF Typed
<1>3. call.k * call.n \in Nat
  BY <1>2, CallocSize
<1>4. CASE h.path # "calloc"
  <2>1. call.fn \in {"malloc", "realloc"} /\ Given(0, 1, Rounded(call.n))
    BY <1>4 DEF Taken, Running
  <2>2. call.k = 1 /\ call.n \in MallocSize
    BY <2>1 DEF Called, Working
  <2>3. call.k * call.n = call.n
    BY <1>2, <2>2
  <2>4. Rounded(call.n) \in Nat
    BY <1>2, RoundedType
  <2>5. heap.block[res] = Rounded(call.n)
    <3>1. arg.k = 1 /\ arg.n = Rounded(call.n)
      BY <2>1 DEF Given
    <3>2. \A i \in Nat : 1 * i = i
      OBVIOUS
    <3> QED
      BY <1>1, <2>4, <3>1, <3>2
  <2>6. On("check") => Rounded(call.n) = mut_round_up(call.n)
                       /\ mut_round_up(call.n) >= call.n + 2 * mut_zone_size
    <3>1. On("check") => call.n + 3 * mut_zone_size <= WordMod
      BY <2>2 DEF Sane, Sized
    <3> QED
      BY <1>2, <3>1, RoundedUp DEF Rounded
  <2>7. ~On("check") => Rounded(call.n) = call.n
    BY DEF Rounded
  <2>8. heap.block[res] >= call.n
    BY <1>2, <2>4, <2>5, <2>6, <2>7 DEF mut_zone_size
  <2>9. Housed(ObjectAddr(res), call.n)
    <3>1. CASE On("check")
      BY <1>1, <1>2, <2>4, <2>5, <2>6, <3>1 DEF Housed, ObjectAddr, mut_zone_size
    <3>2. CASE ~On("check")
      BY <1>1, <1>2, <2>4, <2>5, <2>7, <3>2 DEF Housed, ObjectAddr
    <3> QED
      BY <3>1, <3>2
  <2> QED
    BY <1>2, <1>4, <2>2, <2>3, <2>5, <2>6, <2>8, <2>9
<1>5. CASE h.path = "calloc"
  <2>1. /\ call.fn = "calloc" /\ <<call.k, call.n>> \in CallocShape
        /\ IF On("check") THEN Given(0, n_zones(call), mut_zone_size)
                          ELSE Given(0, call.k, call.n)
    BY <1>5 DEF Taken, Running, Called, Working
  <2> DEFINE m == call.k * call.n
  <2>2. m < WordMod
    <3>1. CASE On("check")
      BY <2>1, <3>1 DEF Sane, Sized
    <3>2. CASE ~On("check")
      <4>1. heap.block[res] = m
        BY <1>1, <2>1, <3>2 DEF Given
      <4> QED
        BY <1>1, <1>2, <4>1
    <3> QED
      BY <3>1, <3>2
  <2>3. /\ calloc_size(call) = m
        /\ n_zones(call) \in Nat /\ n_zones(call) * mut_zone_size >= m + 2 * mut_zone_size
    BY <1>2, <2>2, CallocSize
  <2>4. ~On("check") => heap.block[res] = m
    BY <1>1, <2>1 DEF Given
  <2>5. On("check") => heap.block[res] >= m + 2 * mut_zone_size
    BY <1>1, <2>1, <2>3 DEF Given
  <2> HIDE DEF m
  <2>6. m \in Nat
    BY <1>3 DEF m
  <2>7. heap.block[res] >= m
    BY <1>1, <2>4, <2>5, <2>6 DEF mut_zone_size
  <2>8. Housed(ObjectAddr(res), m)
    <3>1. CASE On("check")
      BY <1>1, <1>2, <2>5, <2>6, <3>1 DEF Housed, ObjectAddr, mut_zone_size
    <3>2. CASE ~On("check")
      BY <1>1, <1>2, <2>4, <2>6, <3>2 DEF Housed, ObjectAddr
    <3> QED
      BY <3>1, <3>2
  <2> QED
    BY <1>5, <2>3, <2>5, <2>6, <2>7, <2>8 DEF m
<1> QED
  BY <1>4, <1>5

\* The program is given a new object.
LEMMA MadeLedger ==
    ASSUME Typed, Called, Taken, Kempt, Ledger, Sane, pc = "exit", res # 0,
           h.path \in {"malloc", "calloc", "realloc_malloc", "malloc_no_free"},
           NEW a, a = ObjectAddr(res), NEW n, n = call.k * call.n,
           Continues(a), Entered(rs, rs', a, n), UNCHANGED flags, heap'.block = heap.block
    PROVE  Ledger'
<1>1. /\ Held = DOMAIN prog.owned /\ res \in Live /\ res \in Nat
      /\ \A e \in ToSet(rs.elems) : e.addr # a
      /\ \A e \in ToSet(rs.elems) : Housed(e.addr, e.size)
      /\ On("free") => \A p \in prog.freed : p \in Base /\ (p \in Live => p = res)
  BY Fetched
<1>2. Housed(a, n)
  BY Fits
<1>3. a \in Nat /\ a # 0
  BY <1>1, AddressType DEF ObjectAddr, mut_zone_size
<1>4. Lost(a) = {} /\ Got(a) = {a}
  <2>1. 0 \notin DOMAIN prog.owned
    BY DEF Typed
  <2>2. CASE h.path \in {"malloc", "calloc"}
    <3>1. call.fn \in {"malloc", "calloc"}
      BY <2>2 DEF Taken, Running
    <3> QED
      BY <1>3, <3>1 DEF Lost, Got
  <2>3. CASE h.path \in {"realloc_malloc", "malloc_no_free"}
    <3>1. call.fn = "realloc" /\ (h.path = "realloc_malloc" => call.p = 0)
      BY <2>3 DEF Taken, Running
    <3>2. call.p \notin DOMAIN prog.owned
      BY <2>1, <2>3, <3>1 DEF Ledger, StrayKept, Running
    <3> QED
      BY <1>3, <3>1, <3>2 DEF Lost, Got
  <2> QED
    BY <2>2, <2>3
<1>5. /\ pc' = "target" /\ DOMAIN prog'.owned = DOMAIN prog.owned \cup {a}
      /\ prog'.owned[a] = n /\ \A q \in DOMAIN prog.owned \ {a} : prog'.owned[q] = prog.owned[q]
      /\ prog'.freed = prog.freed \ {a}
  BY <1>3, <1>4, ContinuesIs
<1>6. PICK r : /\ \A x : x \in ToSet(rs'.elems) <=> x \in ToSet(rs.elems) \/ x = r
               /\ r.addr = a /\ r.size = n /\ r.consumer = NoAction
  BY DEF Entered
<1>7. DistinctIn(rs'.elems) /\ Matched
  BY DEF Entered, Ledger
<1>8. \A e \in ToSet(rs'.elems) :
         /\ Housed(e.addr, e.size)
         /\ e.consumer = NoAction
              => e.addr \in DOMAIN prog'.owned /\ prog'.owned[e.addr] = e.size
         /\ e.consumer # NoAction => e.addr \in prog'.freed
  <2>1. SUFFICES ASSUME NEW e \in ToSet(rs'.elems)
        PROVE /\ Housed(e.addr, e.size)
              /\ e.consumer = NoAction
                   => e.addr \in DOMAIN prog'.owned /\ prog'.owned[e.addr] = e.size
              /\ e.consumer # NoAction => e.addr \in prog'.freed
    OBVIOUS
  <2>2. CASE e = r
    BY <1>2, <1>5, <1>6, <2>2
  <2>3. CASE e # r
    <3>1. e \in ToSet(rs.elems) /\ e.addr # a
      BY <1>1, <1>6, <2>3
    <3> QED
      BY <1>1, <1>5, <1>7, <3>1 DEF Matched, InUse, GivenBack
  <2> QED
    BY <2>2, <2>3
<1>9. \A p \in DOMAIN prog'.owned : \E e \in ToSet(rs'.elems) : e.addr = p /\ e.consumer = NoAction
  BY <1>1, <1>5, <1>6, <1>7 DEF Matched, InUse
<1>10. ~On("free") => \A p \in prog'.freed :
          \E e \in ToSet(rs'.elems) : e.addr = p /\ e.consumer # NoAction
  BY <1>5, <1>6, <1>7 DEF Matched, GivenBack
<1>11. On("free") => \A p \in prog'.freed : p \in Base \ Live
  <2>1. On("free") => a = res
    BY DEF Sane, ObjectAddr
  <2> QED
    BY <1>1, <1>5, <2>1
<1> QED
  BY <1>5, <1>7, <1>8, <1>9, <1>10, <1>11, AtRest

\* The resources realloc has to do with.
LEMMA ReallocOwns ==
    ASSUME Typed, Called, Taken, Kempt, Ledger, pc = "exit", res # 0,
           h.path \in {"realloc", "realloc_no_free"},
           NEW e, e \in ToSet(rs.elems), e.addr = call.p, e.consumer = NoAction,
           Continues(res)
    PROVE  /\ pc' = "target" /\ call.p \in DOMAIN prog.owned
           /\ DOMAIN prog'.owned = (DOMAIN prog.owned \ {call.p}) \cup {res}
           /\ prog'.owned[res] = call.n
           /\ \A q \in DOMAIN prog.owned \ {call.p, res} : prog'.owned[q] = prog.owned[q]
           /\ prog'.freed = (prog.freed \cup {call.p}) \ {res}
           /\ \A x \in ToSet(rs.elems) : x.addr = call.p => x = e
           /\ Held = DOMAIN prog.owned
<1>1. call.fn = "realloc" /\ ~Freeing /\ Held = DOMAIN prog.owned /\ res \in Nat
  BY DEF Taken, Running, Freeing, Held, Typed
<1>2. call.p \in DOMAIN prog.owned
  BY <1>1 DEF Ledger, Matched, InUse
<1>3. Lost(res) = {call.p} /\ Got(res) = {res}
  BY <1>1, <1>2 DEF Lost, Got
<1>4. call.k * call.n = call.n
  <2>1. call.k = 1 /\ call.n \in Nat
    BY <1>1 DEF Called, Working, Typed
  <2>2. \A i \in Nat : 1 * i = i
    OBVIOUS
  <2> QED
    BY <2>1, <2>2
<1>5. /\ pc' = "target"
      /\ DOMAIN prog'.owned = (DOMAIN prog.owned \ {call.p}) \cup {res}
      /\ prog'.owned[res] = call.n
      /\ \A q \in DOMAIN prog.owned \ {call.p, res} : prog'.owned[q] = prog.owned[q]
      /\ prog'.freed = (prog.freed \cup {call.p}) \ {res}
  BY <1>1, <1>3, <1>4, ContinuesIs
<1>6. \A x \in ToSet(rs.elems) : x.addr = call.p => x = e
  <2>1. SUFFICES ASSUME NEW x \in ToSet(rs.elems), x.addr = call.p PROVE x = e
    OBVIOUS
  <2>2. Sound(rs, Holder) /\ DistinctIn(rs.elems)
    BY DEF Kempt, Ended, Ledger
  <2>3. x.addr = e.addr /\ e \in ToSet(rs.elems)
    BY <2>1
  <2> QED
    BY ONLY <2>1, <2>2, <2>3, SameAddr
<1> QED
  BY <1>1, <1>2, <1>5, <1>6

\* With -f it is the old object in a new place.
LEMMA MovesLedger ==
    ASSUME Typed, Called, Taken, Kempt, Ledger, Sane, mut_realloc_realloc
    PROVE  Ledger'
<1>1. /\ pc = "exit" /\ h.path = "realloc" /\ res # 0 /\ Continues(res) /\ UNCHANGED flags
      /\ \/ heap' = heap
         \/ heap' = Zero(heap, rs.elems[h.obj].addr, rs.elems[h.obj].size)
  BY DEF mut_realloc_realloc
<1>2. PICK e : e = rs.elems[h.obj]
  OBVIOUS
<1>3. /\ e \in ToSet(rs.elems) /\ e \in Listed /\ e.addr = call.p
      /\ e.consumer = NoAction /\ On("free")
      /\ DistinctIn(rs.elems) /\ (\A x \in ToSet(rs.elems) : x.addr = res => x = e)
           => Became(rs, rs', e, res, call.n)
  BY <1>2, MovesKempt
<1>4. /\ pc' = "target" /\ call.p \in DOMAIN prog.owned
      /\ DOMAIN prog'.owned = (DOMAIN prog.owned \ {call.p}) \cup {res}
      /\ prog'.owned[res] = call.n
      /\ \A q \in DOMAIN prog.owned \ {call.p, res} : prog'.owned[q] = prog.owned[q]
      /\ prog'.freed = (prog.freed \cup {call.p}) \ {res}
      /\ \A x \in ToSet(rs.elems) : x.addr = call.p => x = e
      /\ Held = DOMAIN prog.owned
  BY <1>1, <1>3, ReallocOwns
<1>5. Gained /\ \A a : Left(a) <=> a = call.p
  BY <1>1 DEF Gained, Left
<1>6. /\ res \in Live /\ heap.block[res] = arg.k * arg.n
      /\ \A x \in ToSet(rs.elems) : x.addr = res => x = e
  <2>1. res \in Live /\ heap.block[res] = arg.k * arg.n
    BY <1>5 DEF Ledger, GainKept
  <2>2. \A x \in ToSet(rs.elems) : x.addr = res => x.addr = call.p
    BY <1>5 DEF Ledger, GainKept
  <2> QED
    BY <1>4, <2>1, <2>2
<1>7. ~On("check") /\ DistinctIn(rs.elems) /\ Matched
  BY <1>3 DEF Sane, Ledger
<1>8. Became(rs, rs', e, res, call.n)
  BY <1>3, <1>6, <1>7
<1>9. PICK r : Swapped(rs, rs', e, r) /\ r.addr = res /\ r.size = call.n /\ r.consumer = NoAction
  BY <1>8 DEF Became
<1>10. /\ DistinctIn(rs'.elems)
       /\ \A x : x \in ToSet(rs'.elems) <=> (x \in ToSet(rs.elems) /\ x # e) \/ x = r
  BY <1>9 DEF Swapped
<1>11. heap'.block = heap.block
  BY <1>1, ZeroIs DEF Typed
<1>12. Housed(res, call.n)
  <2>1. arg.k = 1 /\ arg.n = call.n /\ call.n \in Nat
    BY <1>1, <1>7 DEF Taken, Running, Given, Rounded, Typed
  <2>2. \A i \in Nat : 1 * i = i
    OBVIOUS
  <2>3. heap.block[res] = call.n
    BY <1>6, <2>1, <2>2
  <2>4. res + call.n <= res + heap.block[res]
    BY <2>1, <2>3 DEF Typed
  <2> QED
    BY <1>6, <2>4 DEF Housed
<1>13. \A x \in ToSet(rs'.elems) :
         /\ Housed(x.addr, x.size)
         /\ x.consumer = NoAction
              => x.addr \in DOMAIN prog'.owned /\ prog'.owned[x.addr] = x.size
         /\ x.consumer # NoAction => x.addr \in prog'.freed
  <2>1. SUFFICES ASSUME NEW x \in ToSet(rs'.elems)
        PROVE /\ Housed(x.addr, x.size)
              /\ x.consumer = NoAction
                   => x.addr \in DOMAIN prog'.owned /\ prog'.owned[x.addr] = x.size
              /\ x.consumer # NoAction => x.addr \in prog'.freed
    OBVIOUS
  <2>2. CASE x = r
    BY <1>4, <1>9, <1>12, <2>2
  <2>3. CASE x # r
    <3>1. x \in ToSet(rs.elems) /\ x.addr # call.p /\ x.addr # res
      BY <1>4, <1>6, <1>10, <2>3
    <3>2. Housed(x.addr, x.size)
      BY <1>5, <3>1 DEF Ledger, HomesKept
    <3> QED
      BY <1>4, <1>7, <3>1, <3>2 DEF Matched, InUse, GivenBack
  <2> QED
    BY <2>2, <2>3
<1>14. \A p \in DOMAIN prog'.owned : \E x \in ToSet(rs'.elems) : x.addr = p /\ x.consumer = NoAction
  <2>1. SUFFICES ASSUME NEW p \in DOMAIN prog'.owned
                 PROVE  \E x \in ToSet(rs'.elems) : x.addr = p /\ x.consumer = NoAction
    OBVIOUS
  <2>2. CASE p = res
    BY <1>9, <1>10, <2>2
  <2>3. CASE p # res
    <3>1. p \in DOMAIN prog.owned /\ p # call.p
      BY <1>4, <2>3
    <3>2. PICK x \in ToSet(rs.elems) : x.consumer = NoAction /\ x.addr = p
      BY <1>4, <1>7, <3>1 DEF Matched, InUse
    <3> QED
      BY <1>3, <1>10, <3>1, <3>2
  <2> QED
    BY <2>2, <2>3
<1>15. \A p \in prog'.freed : p \in Base \ Live
  <2>1. SUFFICES ASSUME NEW p \in prog'.freed PROVE p \in Base \ Live
    OBVIOUS
  <2>2. p # res /\ (p \in prog.freed \/ p = call.p)
    BY <1>4
  <2>3. CASE p \in prog.freed
    BY <1>3, <1>5, <2>2, <2>3 DEF Ledger, FreedKept
  <2>4. CASE p = call.p
    BY <1>3, <1>5, <2>2, <2>4 DEF Ledger, HomesKept
  <2> QED
    BY <2>2, <2>3, <2>4
<1> QED
  BY <1>1, <1>3, <1>4, <1>10, <1>11, <1>13, <1>14, <1>15, AtRest

\* Without, the old one is kept beside the new.
LEMMA CopiesLedger ==
    ASSUME Typed, Called, Taken, Kempt, Ledger, Sane, mut_realloc_realloc_no_free,
           pc' # "aborted"
    PROVE  Ledger'
<1>1. /\ pc = "exit" /\ h.path = "realloc_no_free" /\ res # 0 /\ UNCHANGED flags
  BY DEF mut_realloc_realloc_no_free
<1>2. heap'.block = heap.block
  <2>1. heap' = heap \/ \E a, n, x, y : heap' = Zero(Write(heap, a, n), x, y)
    BY DEF mut_realloc_realloc_no_free, mut_process_memcpy
  <2>2. ASSUME NEW a, NEW n, NEW x, NEW y, heap' = Zero(Write(heap, a, n), x, y)
        PROVE  heap'.block = heap.block
    <3>1. Write(heap, a, n) \in HeapSet /\ Write(heap, a, n).block = heap.block
      BY WriteIs DEF Typed
    <3> QED
      BY <2>2, <3>1, ZeroIs
  <2> QED
    BY <2>1, <2>2
<1>3. /\ Held = DOMAIN prog.owned /\ res \in Live /\ heap.block[res] \in 0..MaxBlock
      /\ At(rs, res) = {} /\ \A x \in ToSet(rs.elems) : x.addr # res
      /\ \A x \in ToSet(rs.elems) : Housed(x.addr, x.size)
  BY <1>1, Fetched
<1>4. DistinctIn(rs.elems) /\ Matched
  BY DEF Ledger
<1>5. PICK e : e = rs.elems[h.obj]
  OBVIOUS
<1>6. /\ e \in ToSet(rs.elems) /\ e \in Listed /\ e.addr = call.p /\ ~On("free")
      /\ e.consumer = NoAction /\ Continues(res)
      /\ \E d, r : /\ Swapped(rs, d, e, r) /\ r.addr = e.addr /\ r.size = e.size
                   /\ r.consumer # NoAction /\ Entered(d, rs', res, call.n)
  BY <1>3, <1>4, <1>5, CopiesKempt
<1>7. PICK d, r : /\ Swapped(rs, d, e, r) /\ r.addr = e.addr /\ r.size = e.size
                  /\ r.consumer # NoAction /\ Entered(d, rs', res, call.n)
  BY <1>6
<1>8. /\ DistinctIn(d.elems)
      /\ \A x : x \in ToSet(d.elems) <=> (x \in ToSet(rs.elems) /\ x # e) \/ x = r
  BY <1>7 DEF Swapped
<1>9. PICK m : /\ \A x : x \in ToSet(rs'.elems) <=> x \in ToSet(d.elems) \/ x = m
               /\ m.addr = res /\ m.size = call.n /\ m.consumer = NoAction
  BY <1>7 DEF Entered
<1>10. DistinctIn(rs'.elems)
  BY <1>7, <1>8 DEF Entered
<1>11. /\ pc' = "target" /\ call.p \in DOMAIN prog.owned
       /\ DOMAIN prog'.owned = (DOMAIN prog.owned \ {call.p}) \cup {res}
       /\ prog'.owned[res] = call.n
       /\ \A q \in DOMAIN prog.owned \ {call.p, res} : prog'.owned[q] = prog.owned[q]
       /\ prog'.freed = (prog.freed \cup {call.p}) \ {res}
       /\ \A x \in ToSet(rs.elems) : x.addr = call.p => x = e
  BY <1>1, <1>6, ReallocOwns
<1>12. call.p # res
  BY <1>3, <1>6
<1>13. Housed(res, call.n)
  <2>1. heap.block[res] >= call.k * call.n /\ call.k * call.n = call.n
    BY <1>1, Fits
  <2>2. call.n \in Nat /\ res \in Nat /\ MaxBlock \in Nat
    BY Inputs DEF Typed
  <2>3. res + call.n <= res + heap.block[res]
    BY <1>3, <2>1, <2>2
  <2> QED
    BY <1>3, <2>3 DEF Housed
<1>14. \A x \in ToSet(rs'.elems) :
         /\ Housed(x.addr, x.size)
         /\ x.consumer = NoAction
              => x.addr \in DOMAIN prog'.owned /\ prog'.owned[x.addr] = x.size
         /\ x.consumer # NoAction => x.addr \in prog'.freed
  <2>1. SUFFICES ASSUME NEW x \in ToSet(rs'.elems)
        PROVE /\ Housed(x.addr, x.size)
              /\ x.consumer = NoAction
                   => x.addr \in DOMAIN prog'.owned /\ prog'.owned[x.addr] = x.size
              /\ x.consumer # NoAction => x.addr \in prog'.freed
    OBVIOUS
  <2>2. CASE x = m
    BY <1>9, <1>11, <1>13, <2>2
  <2>3. CASE x = r
    BY <1>3, <1>6, <1>7, <1>11, <1>12, <2>3
  <2>4. CASE x # m /\ x # r
    <3>1. x \in ToSet(rs.elems) /\ x.addr # call.p /\ x.addr # res
      BY <1>3, <1>8, <1>9, <1>11, <2>4
    <3> QED
      BY <1>3, <1>4, <1>11, <3>1 DEF Matched, InUse, GivenBack
  <2> QED
    BY <2>2, <2>3, <2>4
<1>15. \A p \in DOMAIN prog'.owned : \E x \in ToSet(rs'.elems) : x.addr = p /\ x.consumer = NoAction
  <2>1. SUFFICES ASSUME NEW p \in DOMAIN prog'.owned
                 PROVE  \E x \in ToSet(rs'.elems) : x.addr = p /\ x.consumer = NoAction
    OBVIOUS
  <2>2. CASE p = res
    BY <1>9, <2>2
  <2>3. CASE p # res
    <3>1. p \in DOMAIN prog.owned /\ p # call.p
      BY <1>11, <2>3
    <3>2. PICK x \in ToSet(rs.elems) : x.consumer = NoAction /\ x.addr = p
      BY <1>3, <1>4, <3>1 DEF Matched, InUse
    <3> QED
      BY <1>6, <1>8, <1>9, <3>1, <3>2
  <2> QED
    BY <2>2, <2>3
<1>16. \A p \in prog'.freed : \E x \in ToSet(rs'.elems) : x.addr = p /\ x.consumer # NoAction
  <2>1. SUFFICES ASSUME NEW p \in prog'.freed
                 PROVE  \E x \in ToSet(rs'.elems) : x.addr = p /\ x.consumer # NoAction
    OBVIOUS
  <2>2. CASE p = call.p
    BY <1>6, <1>7, <1>8, <1>9, <2>2
  <2>3. CASE p # call.p
    <3>1. p \in prog.freed
      BY <1>11, <2>3
    <3>2. PICK x \in ToSet(rs.elems) : x.consumer # NoAction /\ x.addr = p
      BY <1>4, <1>6, <3>1 DEF Matched, GivenBack
    <3> QED
      BY <1>6, <1>8, <1>9, <3>2
  <2> QED
    BY <2>2, <2>3
<1> QED
  BY <1>1, <1>2, <1>6, <1>10, <1>11, <1>14, <1>15, <1>16, AtRest

\* The function returned, and that is all.
LEMMA PlainLedger ==
    ASSUME Typed, Called, Taken, Kempt, Ledger, Sane, PlainReturns
    PROVE  Ledger'
<1>1. /\ pc = "exit" /\ h.path = "plain" /\ Continues(res) /\ UNCHANGED <<flags, rs, heap>>
      /\ ~Gained /\ Running /\ res \in Nat
  BY DEF PlainReturns, Gained, Running, Typed
<1>2. call.fn # "realloc"
  BY <1>1 DEF Ledger, FreeingKept
<1>3. \/ call.fn = "usage"
      \/ call.fn \in {"free", "cfree"} /\ (On("free") \/ call.p = 0)
  BY <1>1, <1>2 DEF Taken
<1>4. CASE call.fn = "usage"
  <2>1. Lost(res) = {} /\ Got(res) = {} /\ ~Freeing
    BY <1>4 DEF Lost, Got, Freeing
  <2> QED
    BY <1>1, <2>1, LedgerReturns
<1>5. CASE call.fn \in {"free", "cfree"} /\ (On("free") \/ call.p = 0)
  <2>1. /\ Held = DOMAIN prog.owned \ {call.p} /\ Freeing
        /\ Lost(res) = {call.p} \cap DOMAIN prog.owned /\ Got(res) = {}
    BY <1>1, <1>5 DEF Held, Freeing, Lost, Got
  <2>2. /\ pc' = "target" /\ DOMAIN prog'.owned = Held
        /\ \A q \in Held : prog'.owned[q] = prog.owned[q]
        /\ prog'.freed = prog.freed \cup ({call.p} \cap DOMAIN prog.owned)
    BY <1>1, <2>1, ContinuesIs
  <2>3. DistinctIn(rs.elems) /\ Matched /\ \A e \in ToSet(rs.elems) : Housed(e.addr, e.size)
    BY <1>1 DEF Ledger, HomesKept, Left
  <2>4. \A e \in ToSet(rs.elems) :
           /\ Housed(e.addr, e.size)
           /\ e.consumer = NoAction
                => e.addr \in DOMAIN prog'.owned /\ prog'.owned[e.addr] = e.size
           /\ e.consumer # NoAction => e.addr \in prog'.freed
    BY <2>2, <2>3 DEF Matched, InUse, GivenBack
  <2>5. \A p \in DOMAIN prog'.owned : \E e \in ToSet(rs.elems) : e.addr = p /\ e.consumer = NoAction
    BY <2>2, <2>3 DEF Matched, InUse
  <2>6. 0 \notin DOMAIN prog.owned
    BY DEF Typed
  <2>7. ~On("free") => \A p \in prog'.freed :
           \E e \in ToSet(rs.elems) : e.addr = p /\ e.consumer # NoAction
    BY <1>5, <2>2, <2>3, <2>6 DEF Matched, GivenBack
  <2>8. On("free") => \A p \in prog'.freed : p \in Base \ Live
    <3>1. call.p # 0 => call.p \in Base \ Live
      BY <1>1, <2>1 DEF Ledger, FreeingKept
    <3>2. On("free") => \A p \in prog.freed : p \in Base \ Live
      BY <1>1 DEF Ledger, FreedKept
    <3> QED
      BY <2>2, <2>6, <3>1, <3>2
  <2> QED
    BY <1>1, <2>2, <2>3, <2>4, <2>5, <2>7, <2>8, AtRest
<1> QED
  BY <1>3, <1>4, <1>5

\* The program calls, or writes.
LEMMA ProgramLedger ==
    ASSUME Typed, Ledger, ProgramStep PROVE Ledger'
<1>1. /\ pc = "target" /\ pc' \in {"target", "call"} /\ UNCHANGED <<flags, rs>>
      /\ heap' = heap \/ \E w : heap' = Write(heap, w, mut_zone_size)
      /\ \/ \E fn, x : prog' = [prog EXCEPT !.calls[fn] = @ + 1, !.faulty = x]
         \/ \E x : prog' = [prog EXCEPT !.overrun = x, !.faulty = TRUE]
  BY DEF ProgramStep, TargetCalls, TargetOverruns
<1>2. heap'.block = heap.block
  <2>1. CASE heap' = heap
    BY <2>1
  <2>2. ASSUME NEW w, heap' = Write(heap, w, mut_zone_size) PROVE heap'.block = heap.block
    <3>1. heap \in HeapSet
      BY DEF Typed
    <3> QED
      BY ONLY <2>2, <3>1, WriteIs
  <2> QED
    BY <1>1, <2>1, <2>2
<1>3. prog'.owned = prog.owned /\ prog'.freed = prog.freed
  BY <1>1 DEF Typed
<1>4. /\ ~Gained /\ ~Gained' /\ ~Freeing /\ ~Freeing' /\ FreeingKept' /\ StrayKept'
  BY <1>1 DEF Gained, Freeing, FreeingKept, StrayKept, Running
<1>5. Held' = Held
  BY <1>3, <1>4 DEF Held
<1> QED
  BY <1>1, <1>2, <1>3, <1>4, <1>5, LedgerSame

\* malloc or calloc returned 0.
LEMMA FailsLedger ==
    ASSUME Typed, Taken, Kempt, Ledger, mut_malloc_failure \/ mut_calloc_failure
    PROVE  Ledger'
<1>1. /\ pc = "exit" /\ h.path \in {"malloc", "calloc"} /\ res = 0 /\ Continues(0)
      /\ UNCHANGED <<flags, heap>>
  BY DEF mut_malloc_failure, mut_calloc_failure, AllocationFails
<1>2. call.fn \in {"malloc", "calloc"}
  BY <1>1 DEF Taken, Running
<1>3. Lost(0) = {} /\ Got(0) = {} /\ ~Gained /\ ~Freeing /\ 0 \in Nat
  BY <1>1, <1>2 DEF Lost, Got, Gained, Freeing
<1>4. rs'.elems = rs.elems
  <2>1. CASE mut_malloc_failure
    <3>1. "malloc" \in AllFn /\ AllocationFails("malloc", "MR0", mut_backtrace_close(rs, h.bt))
      BY <2>1 DEF mut_malloc_failure, AllFn
    <3> QED
      BY <3>1, FailsKempt
  <2>2. CASE mut_calloc_failure
    <3>1. "calloc" \in AllFn /\ AllocationFails("calloc", "CR0", mut_backtrace_close(rs, h.bt))
      BY <2>2 DEF mut_calloc_failure, AllFn
    <3> QED
      BY <3>1, FailsKempt
  <2> QED
    BY <2>1, <2>2
<1> QED
  BY <1>1, <1>3, <1>4, LedgerReturns

\* They did not.
LEMMA SucceedsLedger ==
    ASSUME Typed, Called, Taken, Kempt, Ledger, Sane,
           \/ mut_malloc_success \/ mut_calloc_success \/ mut_realloc_malloc
           \/ mut_realloc_malloc_no_free
    PROVE  Ledger' /\ report' = report /\ pc' = "target"
<1> DEFINE a == ObjectAddr(res)
           n == call.k * call.n
<1>1. /\ pc = "exit" /\ res # 0 /\ UNCHANGED flags
      /\ h.path \in {"malloc", "calloc", "realloc_malloc", "malloc_no_free"}
      /\ \E x : heap' = mut_install_check_zones(heap, res, x)
                /\ x \in {arg.k * arg.n, mut_round_up(call.n)}
  BY DEF mut_malloc_success, mut_calloc_success, mut_realloc_malloc,
     mut_realloc_malloc_no_free, AllocationSucceeds, ReallocMakes
<1>2. heap'.block = heap.block
  <2>1. PICK x : heap' = mut_install_check_zones(heap, res, x)
                 /\ x \in {arg.k * arg.n, mut_round_up(call.n)}
    BY <1>1
  <2>2. x \in Int /\ res \in Int
    BY <2>1, RoundedUp DEF Typed
  <2>3. heap \in HeapSet
    BY DEF Typed
  <2> QED
    BY ONLY <2>1, <2>2, <2>3, InstallIs
<1>3. At(rs, a) = {}
  BY <1>1, Fetched
<1>4. /\ h.path # "calloc" => n = call.n
      /\ h.path = "calloc" => calloc_size(call) = n
  BY <1>1, Fits
<1> HIDE DEF n
<1>5. /\ "malloc" \in AllFn /\ "calloc" \in AllFn /\ call.n \in Nat /\ calloc_size(call) \in Nat
  BY CallocSize DEF AllFn, Typed
<1>6. Continues(a) /\ report' = report /\ Entered(rs, rs', a, n)
  <2>1. CASE mut_malloc_success
    <3>1. h.path = "malloc" /\ AllocationSucceeds("malloc", call.n, "MMM")
      BY <2>1 DEF mut_malloc_success, AllocationSucceeds
    <3> QED
      BY <1>3, <1>4, <1>5, <3>1, SucceedsKempt
  <2>2. CASE mut_calloc_success
    <3>1. h.path = "calloc" /\ AllocationSucceeds("calloc", calloc_size(call), "CMM")
      BY <2>2 DEF mut_calloc_success, AllocationSucceeds
    <3> QED
      BY <1>3, <1>4, <1>5, <3>1, SucceedsKempt
  <2>3. ASSUME NEW path \in {"realloc_malloc", "malloc_no_free"}, ReallocMakes(path)
        PROVE  Continues(a) /\ report' = report /\ Entered(rs, rs', a, n)
    <3>1. h.path = path
      BY <2>3 DEF ReallocMakes
    <3>2. n = call.n
      BY <1>4, <2>3, <3>1
    <3> QED
      BY <1>3, <2>3, <3>2, MakesKempt
  <2> QED
    BY <2>1, <2>2, <2>3 DEF mut_realloc_malloc, mut_realloc_malloc_no_free
<1>7. Ledger'
  <2>1. n = call.k * call.n
    BY DEF n
  <2> QED
    BY <1>1, <1>2, <1>6, <2>1, MadeLedger
<1>8. pc' = "target"
  BY <1>6 DEF Continues
<1> QED
  BY <1>6, <1>7, <1>8

\* While the target runs the resources in use are the objects of the program.
LEMMA InUseAreOwned ==
    ASSUME Kempt, Ledger, pc = "target"
    PROVE  {<<rs.elems[i].addr, rs.elems[i].size>> : i \in mut_resources_iter(rs, FALSE)}
             = {<<p, prog.owned[p]>> : p \in DOMAIN prog.owned}
<1>1. Held = DOMAIN prog.owned /\ Matched
  BY DEF Held, Freeing, Running, Ledger
<1>2. rs.elems \in Seq(Listed)
  BY ObjIs DEF Kempt, Ended
<1>3. ASSUME NEW i \in mut_resources_iter(rs, FALSE)
      PROVE  /\ rs.elems[i].addr \in DOMAIN prog.owned
             /\ rs.elems[i].size = prog.owned[rs.elems[i].addr]
  <2>1. i \in 1..Len(rs.elems) /\ rs.elems[i].consumer = NoAction
    BY DEF mut_resources_iter
  <2>2. rs.elems[i] \in InUse
    BY <1>2, <2>1, SetOfSeq DEF InUse
  <2> QED
    BY <1>1, <2>2 DEF Matched
<1>4. ASSUME NEW p \in DOMAIN prog.owned
      PROVE  \E i \in mut_resources_iter(rs, FALSE) :
                rs.elems[i].addr = p /\ rs.elems[i].size = prog.owned[p]
  <2>1. PICK e \in InUse : e.addr = p
    BY <1>1 DEF Matched
  <2>2. PICK i \in 1..Len(rs.elems) : rs.elems[i] = e
    BY <1>2, <2>1, SetOfSeq DEF InUse
  <2>3. i \in mut_resources_iter(rs, FALSE)
    BY <2>1, <2>2 DEF mut_resources_iter, InUse
  <2> QED
    BY <1>3, <2>1, <2>2, <2>3
<1> DEFINE Named == {<<rs.elems[i].addr, rs.elems[i].size>> : i \in mut_resources_iter(rs, FALSE)}
           Has == {<<p, prog.owned[p]>> : p \in DOMAIN prog.owned}
<1>5. Named = Has
  <2>1. ASSUME NEW x \in Named PROVE x \in Has
    <3>1. PICK i \in mut_resources_iter(rs, FALSE) : x = <<rs.elems[i].addr, rs.elems[i].size>>
      OBVIOUS
    <3>2. PICK p \in DOMAIN prog.owned : p = rs.elems[i].addr /\ prog.owned[p] = rs.elems[i].size
      BY <1>3
    <3>3. x = <<p, prog.owned[p]>>
      BY <3>1, <3>2
    <3> QED
      BY <3>3
  <2>2. ASSUME NEW x \in Has PROVE x \in Named
    <3>1. PICK p \in DOMAIN prog.owned : x = <<p, prog.owned[p]>>
      OBVIOUS
    <3>2. PICK i \in mut_resources_iter(rs, FALSE) :
             rs.elems[i].addr = p /\ rs.elems[i].size = prog.owned[p]
      BY <1>4
    <3>3. x = <<rs.elems[i].addr, rs.elems[i].size>>
      BY <3>1, <3>2
    <3> QED
      BY <3>3
  <2> QED
    BY <2>1, <2>2
<1> QED
  BY <1>5

\* mut_close reports what the program has.
LEMMA LeaksLedger ==
    ASSUME Kempt, Ledger, mut_close
    PROVE  leaks' = {<<p, prog'.owned[p]>> : p \in DOMAIN prog'.owned}
<1>1. /\ pc = "target" /\ prog' = prog
      /\ leaks' = {<<rs.elems[i].addr, rs.elems[i].size>> : i \in mut_resources_iter(rs, FALSE)}
  BY DEF mut_close
<1> QED
  BY <1>1, InUseAreOwned

\* What is to be kept while MUT runs.
LEMMA LedgerStep ==
    ASSUME Typed, Called, Taken, Taken', Kempt, Ledger, Sane, ~heap'.corrupt,
           ~Ended, ~Ended', [Next]_vars
    PROVE  Ledger'
<1>1. pc' \notin {"failed", "aborted", "closed"}
  BY DEF Ended
<1>2. CASE UNCHANGED vars
  <2>1. UNCHANGED <<flags, pc, call, arg, res, h, rs, heap, prog>>
    BY <1>2 DEF vars
  <2> QED
    BY <2>1 DEF Ledger, DistinctIn, Matched, InUse, GivenBack, Held, Freeing, Running, HomesKept,
       Left, Gained, Housed, Live, GainKept, FreedKept, FreeingKept, StrayKept, On
<1>3. CASE MutStep
  <2>1. CASE mut_malloc_failure \/ mut_calloc_failure
    BY <2>1, FailsLedger
  <2>2. CASE \/ mut_malloc_success \/ mut_calloc_success \/ mut_realloc_malloc
             \/ mut_realloc_malloc_no_free
    BY <2>2, SucceedsLedger
  <2>3. CASE \/ mut_do_malloc \/ mut_do_calloc \/ FreeNull \/ ReallocNull
             \/ ReallocUnallocated \/ ReallocAllocated \/ mut_do_usage
    BY <2>3, EntryLedger
  <2>4. CASE FreeUnallocated \/ FreeFreed
    BY <2>4, FreeLedger
  <2>5. CASE FreeAvailable
    BY <1>1, <2>5, FreeAvailableLedger
  <2>6. CASE mut_realloc_realloc
    BY <2>6, MovesLedger
  <2>7. CASE mut_realloc_realloc_no_free
    BY <1>1, <2>7, CopiesLedger
  <2>8. CASE PlainReturns
    BY <2>8, PlainLedger
  <2>9. ~(mut_realloc_failure \/ RequestFails \/ FailureLosesBacktrace \/ mut_close)
    BY <1>1 DEF mut_realloc_failure, RequestFails, FailureLosesBacktrace, mut_close, GiveUp
  <2> QED
    BY <1>3, <2>1, <2>2, <2>3, <2>4, <2>5, <2>6, <2>7, <2>8, <2>9 DEF MutStep
<1> QED
  BY <1>2, <1>3, ProgramLedger, TargetLedger DEF Next

\* Only mut_close closes the books.
LEMMA ClosesOnce ==
    ASSUME [Next]_vars, pc' = "closed"
    PROVE  mut_close \/ UNCHANGED vars
<1>1. CASE ProgramStep
  BY <1>1 DEF ProgramStep, TargetCalls, TargetOverruns
<1>2. CASE TargetActs
  BY <1>2 DEF TargetActs
<1>3. CASE MutStep
  BY <1>3 DEF MutStep, mut_do_malloc, mut_malloc_failure, mut_malloc_success, mut_do_calloc,
     mut_calloc_failure, mut_calloc_success, FreeNull, FreeUnallocated, FreeFreed,
     FreeAvailable, ReallocNull, ReallocUnallocated, ReallocAllocated, mut_realloc_failure,
     mut_realloc_malloc, mut_realloc_malloc_no_free, mut_realloc_realloc,
     mut_realloc_realloc_no_free, mut_do_usage, PlainReturns, RequestFails,
     FailureLosesBacktrace, AllocationFails, AllocationSucceeds, ReallocMakes,
     FreeOrSkip, EnterAction, Continues, GiveUp, Abort
<1> QED
  BY <1>1, <1>2, <1>3 DEF Next

\* Nothing happens after the end.
LEMMA EndedStays ==
    ASSUME [Next]_vars, Ended PROVE UNCHANGED vars
<1>1. CASE ProgramStep
  BY <1>1 DEF ProgramStep, TargetCalls, TargetOverruns, Ended
<1>2. CASE TargetActs
  BY <1>2 DEF TargetActs, Ended
<1>3. CASE MutStep
  BY <1>3 DEF MutStep, mut_do_malloc, mut_malloc_failure, mut_malloc_success, mut_do_calloc,
     mut_calloc_failure, mut_calloc_success, FreeNull, FreeUnallocated, FreeFreed,
     FreeAvailable, ReallocNull, ReallocUnallocated, ReallocAllocated, mut_realloc_failure,
     mut_realloc_malloc, mut_realloc_malloc_no_free, mut_realloc_realloc,
     mut_realloc_realloc_no_free, mut_do_usage, PlainReturns, RequestFails,
     FailureLosesBacktrace, mut_close, AllocationFails, AllocationSucceeds, ReallocMakes,
     IsConsumer, IsRealloc, Ended
<1> QED
  BY <1>1, <1>2, <1>3 DEF Next

LEMMA BooksStep ==
    ASSUME Typed, Called, Taken, Taken', Lists, Books, [Next]_vars
    PROVE  Books'
<1>1. UNCHANGED flags /\ (heap.corrupt => heap'.corrupt)
  BY StaysDamaged
<1> DEFINE Has == {<<p, prog.owned[p]>> : p \in DOMAIN prog.owned}
<1> SUFFICES ASSUME Sane' PROVE (~Ended' => Ledger') /\ (pc' = "closed" => leaks' = Has')
  <2>1. Books' = (Sane' => (~Ended' => Ledger') /\ (pc' = "closed" => leaks' = Has'))
    BY DEF Books
  <2> QED
    BY <2>1
<1>2. ~heap'.corrupt /\ Sane /\ Kempt
  <2>1. ~heap'.corrupt /\ Sane
    BY <1>1 DEF Sane, Undamaged, Sized, On
  <2>2. Kept
    BY <2>1 DEF Sane, Kept
  <2> QED
    BY <2>1, <2>2 DEF Lists
<1>3. ASSUME ~Ended' PROVE Ledger'
  <2>1. ~Ended
    <3>1. UNCHANGED vars => (Ended => Ended')
      BY DEF vars, Ended
    <3> QED
      BY <1>3, <3>1, EndedStays
  <2>2. Ledger
    BY <1>2, <2>1 DEF Books
  <2> QED
    BY <1>2, <1>3, <2>1, <2>2, LedgerStep
<1>4. ASSUME pc' = "closed" PROVE leaks' = Has'
  <2>1. CASE mut_close
    <3>1. Ledger
      BY <1>2, <2>1 DEF Books, mut_close, Ended
    <3> QED
      BY <1>2, <2>1, <3>1, LeaksLedger
  <2>2. CASE UNCHANGED vars
    <3>1. pc = "closed" /\ leaks' = leaks /\ prog' = prog
      BY <1>4, <2>2 DEF vars
    <3>2. leaks = Has
      BY <1>2, <3>1 DEF Books
    <3> QED
      BY <3>1, <3>2
  <2> QED
    BY <1>4, <2>1, <2>2, ClosesOnce
<1> QED
  BY <1>3, <1>4

\* Without -c the program only calls.
LEMMA OnlyCalls ==
    ASSUME ~On("check"), ProgramStep
    PROVE  \E fn \in AllFn : \E p, k, n : TargetCalls(fn, p, k, n)
BY DEF ProgramStep, TargetOverruns, AllFn

\* What was said of the call stays said until the next one.
LEMMA SaidAlready ==
    ASSUME Typed, Reports, Sane, ~On("check"), call' = call, report'.fault = report.fault,
           pc' # "call", pc \in {"target", "act", "exit"} \/ pc' \in {"failed", "aborted", "closed"}
    PROVE  Reports'
<1>1. /\ pc \in {"target", "act", "exit"} => report.fault = call.expect
      /\ report.fault \in {"FUM", "FFM", "WUM"} => report.fault = call.expect
  BY DEF Reports
<1> QED
  BY <1>1 DEF Reports

\* The first half of a handler says what there is to say.
LEMMA EntrySays ==
    ASSUME Typed, Called, Kempt, Ledger, Reports, Sane, ~On("check"), pc = "call",
           \/ mut_do_malloc \/ mut_do_calloc \/ mut_do_usage \/ FreeNull \/ FreeUnallocated
           \/ FreeFreed \/ FreeAvailable \/ ReallocNull \/ ReallocUnallocated \/ ReallocAllocated
    PROVE  Reports'
<1>1. /\ report.fault = "none" /\ call' = call /\ pc' \in {"act", "target"}
  <2>1. call' = call
    BY DEF mut_do_malloc, mut_do_calloc, mut_do_usage, FreeNull, FreeUnallocated, FreeFreed,
       FreeAvailable, ReallocNull, ReallocUnallocated, ReallocAllocated
  <2>2. FreeOrSkip => pc' \in {"act", "target"}
    BY DEF FreeOrSkip, Continues
  <2>3. ~FreeAvailable => pc' \in {"act", "target"}
    BY <2>2 DEF mut_do_malloc, mut_do_calloc, mut_do_usage, FreeNull, FreeUnallocated, FreeFreed,
       ReallocNull, ReallocUnallocated, ReallocAllocated, EnterAction
  <2>4. FreeAvailable => pc' \in {"act", "target"}
    BY <2>2 DEF FreeAvailable
  <2> QED
    BY <2>1, <2>3, <2>4 DEF Reports
<1>2. SUFFICES report'.fault = call.expect
  BY <1>1 DEF Reports
<1>3. CASE mut_do_malloc \/ mut_do_calloc \/ mut_do_usage \/ FreeNull \/ ReallocNull
  <2>1. report' = report /\ (call.fn \in {"malloc", "calloc", "usage"} \/ call.p = 0)
    BY <1>3 DEF mut_do_malloc, mut_do_calloc, mut_do_usage, FreeNull, ReallocNull, IsRealloc
  <2>2. call.expect = "none"
    BY <2>1 DEF Called, Working, Expected
  <2> QED
    BY <1>1, <2>1, <2>2
<1>4. CASE FreeUnallocated \/ ReallocUnallocated
  <2>1. /\ report'.fault = "FUM" /\ call.p # 0 /\ call.fn \in {"free", "cfree", "realloc"}
        /\ At(rs, call.p) = {} \/ Obj = 0
    BY <1>4 DEF FreeUnallocated, ReallocUnallocated, IsConsumer, IsRealloc, mut_log_fum, Logs, Typed
  <2>2. At(rs, call.p) = {}
    BY <2>1, ObjIs DEF Kempt, Ended
  <2> QED
    BY <2>1, <2>2, StrayCall
<1>5. CASE FreeFreed \/ (ReallocAllocated /\ mut_resources_resource_deleted(rs.elems[Obj]))
  <2>1. /\ report'.fault = "FFM" /\ call.p # 0 /\ call.fn \in {"free", "cfree", "realloc"}
        /\ Obj # 0 /\ mut_resources_resource_deleted(rs.elems[Obj])
    BY <1>5 DEF FreeFreed, ReallocAllocated, IsConsumer, IsRealloc, mut_log_ffm, Logs, Typed
  <2> QED
    BY <2>1, FreedCall
<1>6. CASE FreeAvailable \/ (ReallocAllocated /\ ~mut_resources_resource_deleted(rs.elems[Obj]))
  <2>1. /\ report' = report /\ Obj # 0 /\ ~mut_resources_resource_deleted(rs.elems[Obj])
    BY <1>6 DEF FreeAvailable, ReallocAllocated
  <2>2. call.expect = "none"
    BY <2>1, OwnedCall
  <2> QED
    BY <1>1, <2>1, <2>2
<1> QED
  BY <1>3, <1>4, <1>5, <1>6

LEMMA ReportsStep ==
    ASSUME Typed, Called, Lists, Books, Reports, [Next]_vars
    PROVE  Reports'
<1>1. UNCHANGED flags /\ (heap.corrupt => heap'.corrupt)
  BY StaysDamaged
<1> SUFFICES ASSUME Sane', ~On("check")' PROVE Reports'
  BY DEF Reports
<1>2. Sane /\ ~On("check")
  BY <1>1 DEF Sane, Undamaged, Sized, On
<1>3. Kempt /\ (~Ended => Ledger)
  <2>1. Kept
    BY <1>2 DEF Sane, Kept
  <2> QED
    BY <1>2, <2>1 DEF Lists, Books
<1>4. CASE UNCHANGED vars
  <2>1. UNCHANGED <<pc, call, report>>
    BY <1>4 DEF vars
  <2> QED
    BY <1>2, <2>1 DEF Reports
<1>5. CASE ProgramStep
  <2>1. \E fn \in AllFn : \E p, k, n : TargetCalls(fn, p, k, n)
    BY <1>2, <1>5, OnlyCalls
  <2> QED
    BY <2>1 DEF TargetCalls, NoReport, Reports
<1>6. CASE TargetActs
  BY <1>2, <1>6, SaidAlready DEF TargetActs
<1>7. CASE MutStep
  <2>1. CASE \/ mut_do_malloc \/ mut_do_calloc \/ mut_do_usage \/ FreeNull \/ FreeUnallocated
             \/ FreeFreed \/ FreeAvailable \/ ReallocNull \/ ReallocUnallocated
             \/ ReallocAllocated
    <3>1. pc = "call"
      BY <2>1 DEF mut_do_malloc, mut_do_calloc, mut_do_usage, FreeNull, FreeUnallocated,
         FreeFreed, FreeAvailable, ReallocNull, ReallocUnallocated, ReallocAllocated,
         IsConsumer, IsRealloc
    <3> QED
      BY <1>2, <1>3, <2>1, <3>1, EntrySays DEF Ended
  <2>2. CASE mut_malloc_failure \/ mut_calloc_failure \/ mut_realloc_failure
    <3>1. /\ pc = "exit" /\ pc' \in {"target", "failed"} /\ call' = call
          /\ \E w : report' = [report EXCEPT !.warning = w]
      BY <2>2 DEF mut_malloc_failure, mut_calloc_failure, mut_realloc_failure, AllocationFails,
         GiveUp, Continues
    <3>2. report'.fault = report.fault
      BY <3>1 DEF Typed
    <3> QED
      BY <1>2, <3>1, <3>2, SaidAlready
  <2>3. CASE mut_malloc_success \/ mut_calloc_success
    <3>1. /\ pc = "exit" /\ pc' \in {"target", "failed"} /\ call' = call
          /\ \/ report' = report
             \/ pc' = "failed" /\ \E f \in {"MMM", "CMM"} : Logs(f)
      BY <2>3 DEF mut_malloc_success, mut_calloc_success, AllocationSucceeds, GiveUp, Continues
    <3>2. CASE report' = report
      BY <1>2, <3>1, <3>2, SaidAlready
    <3>3. CASE pc' = "failed" /\ \E f \in {"MMM", "CMM"} : Logs(f)
      <4>1. report'.fault \in {"MMM", "CMM"}
        BY <3>3 DEF Logs, Typed
      <4> QED
        BY <3>3, <4>1 DEF Reports
    <3> QED
      BY <3>1, <3>2, <3>3
  <2>4. CASE \/ mut_realloc_malloc \/ mut_realloc_malloc_no_free \/ mut_realloc_realloc
             \/ mut_realloc_realloc_no_free
    <3>1. /\ pc = "exit" /\ pc' \in {"target", "aborted"} /\ call' = call
          /\ report' = report \/ \E w : report' = [report EXCEPT !.assertion = w]
      BY <2>4 DEF mut_realloc_malloc, mut_realloc_malloc_no_free, mut_realloc_realloc,
         mut_realloc_realloc_no_free, ReallocMakes, Abort, Continues
    <3>2. report'.fault = report.fault
      BY <3>1 DEF Typed
    <3> QED
      BY <1>2, <3>1, <3>2, SaidAlready
  <2>5. CASE PlainReturns \/ RequestFails \/ FailureLosesBacktrace \/ mut_close
    <3>1. /\ pc' # "call" /\ call' = call /\ report' = report
          /\ pc \in {"target", "act", "exit"} \/ pc' = "failed"
      BY <2>5 DEF PlainReturns, RequestFails, FailureLosesBacktrace, mut_close, Continues, GiveUp
    <3> QED
      BY <1>2, <3>1, SaidAlready
  <2> QED
    BY <1>7, <2>1, <2>2, <2>3, <2>4, <2>5 DEF MutStep
<1> QED
  BY <1>4, <1>5, <1>6, <1>7 DEF Next

\* A fault of the program is not forgotten.
LEMMA FaultyStays ==
    ASSUME Typed, [Next]_vars, prog.faulty PROVE prog'.faulty
<1>1. CASE UNCHANGED vars
  BY <1>1 DEF vars
<1>2. CASE ProgramStep
  <2>1. \/ \E fn, x : prog' = [prog EXCEPT !.calls[fn] = @ + 1, !.faulty = prog.faulty \/ x]
        \/ \E x : prog' = [prog EXCEPT !.overrun = x, !.faulty = TRUE]
    BY <1>2 DEF ProgramStep, TargetCalls, TargetOverruns
  <2> QED
    BY <2>1 DEF Typed
<1>3. CASE TargetActs
  BY <1>3 DEF TargetActs
<1>4. CASE MutStep
  <2>1. prog' = prog \/ \E r \in Nat : Continues(r)
    <3>1. ObjectAddr(res) \in Nat /\ res \in Nat
      BY AddressType DEF Typed
    <3> QED
      BY <1>4, <3>1 DEF MutStep, mut_do_malloc, mut_malloc_failure, mut_malloc_success,
         mut_do_calloc, mut_calloc_failure, mut_calloc_success, FreeNull, FreeUnallocated,
         FreeFreed, FreeAvailable, ReallocNull, ReallocUnallocated, ReallocAllocated,
         mut_realloc_failure, mut_realloc_malloc, mut_realloc_malloc_no_free,
         mut_realloc_realloc, mut_realloc_realloc_no_free, mut_do_usage, PlainReturns,
         RequestFails, FailureLosesBacktrace, mut_close, AllocationFails, AllocationSucceeds,
         ReallocMakes, FreeOrSkip
  <2> QED
    BY <2>1, ContinuesIs
<1> QED
  BY <1>1, <1>2, <1>3, <1>4 DEF Next

\* A write of an object stays within its block.
LEMMA HousedLive ==
    ASSUME Typed, NEW a, NEW n \in Nat, Housed(a, n)
    PROVE  InLive(heap, a, n)
<1>1. PICK b \in Live : /\ a = b \/ (On("check") /\ a = b + mut_zone_size)
                        /\ a + n <= b + heap.block[b]
  BY DEF Housed
<1>2. b \in Base /\ b \in Nat /\ heap.block[b] # Unallocated
  BY <1>1, Inputs DEF Live
<1>3. b <= a
  BY <1>1, <1>2 DEF mut_zone_size
<1> QED
  BY <1>1, <1>2, <1>3 DEF InLive

\* What the allocator cannot make sense of is a fault of the program.
LEMMA TargetHarms ==
    ASSUME Typed, Called, Taken, Kempt, Ledger, Sane, TargetActs, heap'.corrupt
    PROVE  prog.faulty /\ On("free")
<1>1. /\ pc = "act" /\ Running /\ ~heap.corrupt /\ heap \in HeapSet
      /\ \A a : ~Left(a)
  BY DEF TargetActs, Running, Sane, Undamaged, Typed, Left, Gained
<1>2. heap' = Damaged(heap) /\ arg.p # 0 /\ arg.p \notin Live
      /\ call.fn \in {"free", "cfree", "realloc"}
  <2>1. \/ heap' = heap
        \/ \E b \in Base : \E n : heap' = Allocated(heap, b, n)
        \/ \E f : heap' = [heap EXCEPT !.block = f]
        \/ \E f : heap' = [heap EXCEPT !.block[arg.p] = f]
        \/ /\ heap' = Damaged(heap) /\ arg.p # 0 /\ arg.p \notin Live
           /\ call.fn \in {"free", "cfree", "realloc"}
    BY DEF TargetActs, TargetAllocates, TargetReallocates, TargetFrees, Allocates, Reallocates
  <2> QED
    BY <1>1, <2>1 DEF Allocated, HeapSet
<1>3. CASE h.path = "plain"
  <2>1. /\ arg.p = call.p /\ On("free")
        /\ call.fn \in {"free", "cfree"} => Freeing
    BY <1>1, <1>2, <1>3 DEF Taken, Freeing
  <2> QED
    BY <1>1, <1>2, <1>3, <2>1 DEF Ledger, FreeingKept
<1>4. CASE h.path # "plain"
  <2>1. h.path = "realloc" /\ On("free") /\ arg.p = call.p
    BY <1>1, <1>2, <1>4 DEF Taken, Given
  <2>2. /\ h.obj \in 1..Len(rs.elems) /\ rs.elems[h.obj].addr = call.p
        /\ rs.elems \in Seq(Listed)
    <3>1. h.obj \in 0..Len(rs.elems) /\ h.obj # 0 /\ rs.elems[h.obj].addr = call.p
      BY <1>1, <2>1 DEF Kempt, Ended
    <3>2. rs.elems \in Seq(Listed)
      BY <1>1, ObjIs DEF Kempt, Ended
    <3> QED
      BY <3>1, <3>2
  <2> DEFINE e == rs.elems[h.obj]
  <2>3. e \in ToSet(rs.elems) /\ e.size \in Nat
    BY <2>2, SetOfSeq, ListedFields
  <2>4. Housed(e.addr, e.size)
    BY <1>1, <2>3 DEF Ledger, HomesKept
  <2> HIDE DEF e
  <2>5. e.addr \in Live
    BY <2>1, <2>3, <2>4, HousedPlain DEF Sane
  <2> QED
    BY <1>2, <2>1, <2>2, <2>5 DEF e
<1> QED
  BY <1>3, <1>4

\* MUT writes only where there is a block.
LEMMA ZeroHarmless ==
    ASSUME Typed, Called, Kempt, Ledger, Sane, Worded, Padded, FreeAvailable
    PROVE  ~heap'.corrupt
<1>1. /\ heap \in HeapSet /\ ~heap.corrupt /\ pc = "call" /\ Obj # 0
      /\ ~mut_resources_resource_deleted(rs.elems[Obj])
      /\ heap' = heap \/ heap' = Zero(heap, call.p, rs.elems[Obj].size)
  BY DEF FreeAvailable, IsConsumer, Typed, Sane, Undamaged
<1> DEFINE e == rs.elems[Obj]
<1>2. Housed(call.p, e.size) /\ e \in Listed
  BY <1>1, OwnedCall
<1>3. e.size \in Nat
  BY <1>2, ListedFields
<1>4. heap' = heap \/ heap' = Zero(heap, call.p, e.size)
  BY <1>1
<1> HIDE DEF e
<1>5. On("zero") => InRoom(heap, call.p, WholeWords(e.size))
  BY <1>2, <1>3, HousedRoom DEF Padded
<1> QED
  BY <1>1, <1>4, <1>5, ZeroIs

LEMMA ZonesHarmless ==
    ASSUME Typed, Called, Taken, Kempt, Ledger, Sane,
           \/ mut_malloc_success \/ mut_calloc_success \/ mut_realloc_malloc
           \/ mut_realloc_malloc_no_free
    PROVE  ~heap'.corrupt
<1>1. /\ pc = "exit" /\ res # 0 /\ heap \in HeapSet /\ ~heap.corrupt
      /\ h.path \in {"malloc", "calloc", "realloc_malloc", "malloc_no_free"}
      /\ \/ heap' = mut_install_check_zones(heap, res, arg.k * arg.n)
         \/ heap' = mut_install_check_zones(heap, res, mut_round_up(call.n)) /\ h.path # "calloc"
  BY DEF mut_malloc_success, mut_calloc_success, mut_realloc_malloc,
     mut_realloc_malloc_no_free, AllocationSucceeds, ReallocMakes, Typed, Sane, Undamaged
<1> DEFINE n == heap.block[res]
<1>2. /\ res \in Live /\ res \in Nat /\ n = arg.k * arg.n /\ n \in 0..MaxBlock
  BY <1>1, Fetched
<1>3. /\ On("check") => n >= call.k * call.n + 2 * mut_zone_size
      /\ On("check") /\ h.path # "calloc" => n = mut_round_up(call.n)
      /\ call.k * call.n \in Nat
  BY <1>1, Fits
<1>4. MaxBlock \in Nat /\ res \in Base /\ n # Unallocated
  BY <1>2, Inputs DEF Live
<1> HIDE DEF n
<1>5. CASE ~On("check")
  BY <1>1, <1>5 DEF mut_install_check_zones
<1>6. CASE On("check")
  <2>1. n \in Int /\ res \in Int /\ n >= 2 * mut_zone_size
    BY <1>2, <1>3, <1>4, <1>6 DEF mut_zone_size
  <2>2. heap' = mut_install_check_zones(heap, res, n)
    BY <1>1, <1>2, <1>3, <1>6
  <2>3. InLive(heap, res, mut_zone_size) /\ InLive(heap, res + n - mut_zone_size, mut_zone_size)
    BY <1>4, <2>1 DEF InLive, mut_zone_size, n
  <2>4. mut_zone_size \in Int /\ res + n - mut_zone_size \in Int
    BY <2>1 DEF mut_zone_size
  <2>5. InRoom(heap, res, mut_zone_size) /\ InRoom(heap, res + n - mut_zone_size, mut_zone_size)
    BY ONLY <1>1, <2>1, <2>3, <2>4, LiveRoom
  <2> QED
    BY ONLY <1>1, <2>1, <2>2, <2>5, InstallIs
<1> QED
  BY <1>5, <1>6

LEMMA CopyHarmless ==
    ASSUME Typed, Called, Taken, Kempt, Ledger, Sane, Worded, Padded,
           mut_realloc_realloc_no_free
    PROVE  ~heap'.corrupt
<1> DEFINE old == rs.elems[h.obj]
           sz == Copied(old.size, call.n)
           w == Write(heap, res, WholeWords(sz))
<1>1. /\ heap \in HeapSet /\ ~heap.corrupt /\ pc = "exit" /\ res # 0
      /\ h.path = "realloc_no_free" /\ call.n \in Nat
      /\ heap' = heap \/ heap' = Zero(w, old.addr, old.size)
  BY DEF mut_realloc_realloc_no_free, mut_process_memcpy, Typed, Sane, Undamaged
<1>2. /\ h.obj \in 1..Len(rs.elems) /\ rs.elems \in Seq(Listed)
  <2>1. h.obj \in 0..Len(rs.elems) /\ h.obj # 0
    BY <1>1 DEF Kempt, Ended, Running
  <2>2. rs.elems \in Seq(Listed)
    BY <1>1, ObjIs DEF Kempt, Ended
  <2> QED
    BY <2>1, <2>2
<1>3. old \in ToSet(rs.elems) /\ old.size \in Nat
  BY <1>2, SetOfSeq, ListedFields
<1>4. Housed(old.addr, old.size)
  BY <1>1, <1>3, Fetched
<1>5. Housed(ObjectAddr(res), call.n) /\ res \in Live
  <2>1. Housed(ObjectAddr(res), call.k * call.n) /\ call.k * call.n = call.n
    BY <1>1, Fits
  <2>2. res \in Live
    BY <1>1, Fetched
  <2> QED
    BY <2>1, <2>2
<1>6. sz \in Nat /\ sz <= call.n
  BY <1>1, <1>3 DEF Copied
<1>7. PadsBlocks \/ On("check")
  <2>1. ~On("free") /\ "realloc" \in Function
    BY <1>1 DEF Taken, Called, Running, Working
  <2> QED
    BY <2>1 DEF Padded
<1> HIDE DEF old, sz
<1>8. InRoom(heap, res, WholeWords(sz))
  <2>1. /\ res \in Base /\ res \in Nat /\ heap.block[res] # Unallocated
        /\ heap.block[res] <= Room(heap, res) /\ Room(heap, res) \in Nat
        /\ heap.block[res] \in 0..MaxBlock /\ MaxBlock \in Nat
    <3>1. res \in Base /\ res \in Nat /\ heap.block[res] # Unallocated /\ MaxBlock \in Nat
      BY <1>5, Inputs DEF Live
    <3> QED
      BY <1>1, <3>1, RoomIs
  <2>2. PICK m : m = heap.block[res]
    OBVIOUS
  <2>3. m \in Nat /\ sz <= m
    <3>1. m >= call.k * call.n /\ call.k * call.n = call.n
      BY <1>1, <2>2, Fits
    <3> QED
      BY <1>1, <1>6, <2>1, <2>2, <3>1
  <2>4. WholeWords(sz) <= Room(heap, res) /\ WholeWords(sz) \in Nat
    <3>1. CASE On("check")
      <4>1. m % mut_zone_size = 0
        BY <1>5, <2>2, <3>1 DEF Worded
      <4>2. WholeWords(sz) <= m /\ WholeWords(sz) \in Nat
        BY <1>6, <2>3, <4>1, WholeWordsFit, WholeWordsIs
      <4> QED
        BY <2>1, <2>2, <2>3, <4>2
    <3>2. CASE PadsBlocks
      <4>1. WholeWords(sz) <= WholeWords(m) /\ WholeWords(sz) \in Nat
        BY <1>6, <2>3, WholeWordsFit, WholeWordsIs
      <4> QED
        BY <2>2, <3>2, <4>1 DEF Room
    <3> QED
      BY <1>7, <3>1, <3>2
  <2>5. res <= res /\ res + WholeWords(sz) <= res + Room(heap, res)
    BY <2>1, <2>4
  <2> QED
    BY <2>1, <2>5 DEF InRoom
<1>9. w \in HeapSet /\ w.block = heap.block /\ ~w.corrupt
  BY <1>1, <1>8, WriteIs
<1> HIDE DEF w
<1>10. InRoom(heap, old.addr, WholeWords(old.size))
  BY <1>3, <1>4, <1>7, HousedRoom
<1>11. InRoom(w, old.addr, WholeWords(old.size))
  BY <1>9, <1>10, RoomSame
<1> QED
  BY <1>1, <1>9, <1>11, ZeroIs

\* The blocks change only when the allocator is at work.
LEMMA BlocksStay ==
    ASSUME Typed, ProgramStep \/ MutStep PROVE heap'.block = heap.block
<1>0. heap \in HeapSet
  BY DEF Typed
<1>1. CASE ProgramStep
  <2>1. heap' = heap \/ \E w : heap' = Write(heap, w, mut_zone_size)
    BY <1>1 DEF ProgramStep, TargetCalls, TargetOverruns
  <2> QED
    BY <1>0, <2>1, WriteIs
<1>2. CASE FreeAvailable \/ mut_realloc_realloc
  <2>1. heap' = heap \/ \E a, n : heap' = Zero(heap, a, n)
    BY <1>2 DEF FreeAvailable, mut_realloc_realloc
  <2> QED
    BY <1>0, <2>1, ZeroIs
<1>3. CASE \/ mut_malloc_success \/ mut_calloc_success \/ mut_realloc_malloc
           \/ mut_realloc_malloc_no_free
  <2>1. PICK n : heap' = mut_install_check_zones(heap, res, n)
                 /\ n \in {arg.k * arg.n, mut_round_up(call.n)}
    BY <1>3 DEF mut_malloc_success, mut_calloc_success, AllocationSucceeds,
       mut_realloc_malloc, mut_realloc_malloc_no_free, ReallocMakes
  <2>2. n \in Int /\ res \in Int
    BY <2>1, RoundedUp DEF Typed
  <2> QED
    BY <1>0, <2>1, <2>2, InstallIs
<1>4. CASE mut_realloc_realloc_no_free
  <2>1. heap' = heap \/ \E a, n, x, y : heap' = Zero(Write(heap, a, n), x, y)
    BY <1>4 DEF mut_realloc_realloc_no_free, mut_process_memcpy
  <2>2. ASSUME NEW a, NEW n, NEW x, NEW y, heap' = Zero(Write(heap, a, n), x, y)
        PROVE  heap'.block = heap.block
    <3>1. Write(heap, a, n) \in HeapSet /\ Write(heap, a, n).block = heap.block
      BY <1>0, WriteIs
    <3> QED
      BY <2>2, <3>1, ZeroIs
  <2> QED
    BY <2>1, <2>2
<1>5. CASE \/ mut_do_malloc \/ mut_malloc_failure \/ mut_do_calloc \/ mut_calloc_failure
           \/ FreeNull \/ FreeUnallocated \/ FreeFreed
           \/ ReallocNull \/ ReallocUnallocated \/ ReallocAllocated
           \/ mut_realloc_failure \/ mut_do_usage \/ PlainReturns \/ RequestFails
           \/ FailureLosesBacktrace \/ mut_close
  BY <1>5 DEF mut_do_malloc, mut_malloc_failure, mut_do_calloc, mut_calloc_failure,
     FreeNull, FreeUnallocated, FreeFreed, ReallocNull, ReallocUnallocated,
     ReallocAllocated, mut_realloc_failure, mut_do_usage, PlainReturns, RequestFails,
     FailureLosesBacktrace, mut_close, AllocationFails
<1> QED
  BY <1>1, <1>2, <1>3, <1>4, <1>5 DEF MutStep

\* What MUT asks for with -c is in words.
LEMMA AsksInWords ==
    ASSUME Typed, Called, Taken, Sane, On("check"), pc = "act",
           TargetAllocates \/ TargetReallocates \/ TargetFrees
    PROVE  \/ heap'.block = heap.block
           \/ \E n \in Nat : Allocates(n) /\ n % mut_zone_size = 0
<1>1. ~On("free") /\ Running /\ Working /\ heap \in HeapSet
  BY DEF Sane, Running, Working, Typed
<1>2. CASE TargetFrees
  <2>1. call.fn \in {"free", "cfree"}
    BY <1>2 DEF TargetFrees
  <2>2. arg.p = 0
    BY <1>1, <2>1 DEF Taken
  <2>3. heap' = heap \/ heap' = Damaged(heap) \/ arg.p \in Live
    BY <1>2 DEF TargetFrees
  <2>4. arg.p \notin Live
    BY <2>2, HeapAssumption DEF Live
  <2> QED
    BY <1>1, <2>3, <2>4, DamagedIs
<1>3. CASE TargetReallocates
  BY <1>1, <1>3 DEF TargetReallocates, Taken, Given
<1>4. CASE TargetAllocates
  <2>1. CASE call.fn \in {"malloc", "realloc"}
    <3>1. Allocates(arg.n) \/ Allocates(arg.k * arg.n)
      BY <1>4 DEF TargetAllocates
    <3>2. arg.k = 1 /\ arg.n = mut_round_up(call.n)
      BY <1>1, <1>4, <2>1 DEF TargetAllocates, Taken, Given, Rounded
    <3>3. call.n \in MallocSize /\ call.n \in Nat
      BY <1>1, <2>1 DEF Called, Typed
    <3>4. call.n + 3 * mut_zone_size <= WordMod
      BY <3>3 DEF Sane, Sized
    <3>5. /\ WholeWords(call.n) \in Nat /\ WholeWords(call.n) <= call.n + 3
          /\ WholeWords(call.n) % mut_zone_size = 0 /\ WordMod \in Nat
      BY <3>3, WholeWordsIs, HeapAssumption
    <3>6. WholeWords(call.n) + 2 * mut_zone_size < WordMod
      BY <3>3, <3>4, <3>5 DEF mut_zone_size
    <3>7. arg.n = WholeWords(call.n) + 2 * mut_zone_size
      BY <3>2, <3>3, <3>6, RoundedIs
    <3>8. arg.n \in Nat /\ arg.n % mut_zone_size = 0
      BY <3>5, <3>7 DEF mut_zone_size
    <3>9. arg.k * arg.n = arg.n
      BY <3>2, <3>8
    <3> QED
      BY <3>1, <3>8, <3>9
  <2>2. CASE call.fn = "calloc"
    <3>1. Allocates(arg.k * arg.n)
      BY <1>4, <2>2 DEF TargetAllocates
    <3>2. arg.k = n_zones(call) /\ arg.n = mut_zone_size
      BY <1>1, <2>2 DEF Taken, Given
    <3>3. n_zones(call) \in Nat
      BY CallocSize DEF Typed
    <3>4. \A k \in Nat : k * mut_zone_size \in Nat /\ (k * mut_zone_size) % mut_zone_size = 0
      BY DEF mut_zone_size
    <3> QED
      BY <3>1, <3>2, <3>3, <3>4
  <2> QED
    BY <1>4, <2>1, <2>2 DEF TargetAllocates
<1> QED
  BY <1>2, <1>3, <1>4

LEMMA WordedStep ==
    ASSUME Typed, Called, Taken, Worded, [Next]_vars PROVE Worded'
<1>1. UNCHANGED flags /\ (heap.corrupt => heap'.corrupt)
  BY StaysDamaged
<1> SUFFICES ASSUME Sane', On("check")', NEW b \in Live'
             PROVE  heap'.block[b] % mut_zone_size = 0
  BY DEF Worded
<1>2. Sane /\ On("check")
  BY <1>1 DEF Sane, Undamaged, Sized, On
<1>3. CASE heap'.block = heap.block
  BY <1>2, <1>3 DEF Worded, Live
<1>4. CASE \E n \in Nat : Allocates(n) /\ n % mut_zone_size = 0
  <2>1. PICK n \in Nat : Allocates(n) /\ n % mut_zone_size = 0
    BY <1>4
  <2>2. CASE heap' = heap
    BY <1>3, <2>2
  <2>3. CASE /\ res' \in Base /\ heap'.block = [heap.block EXCEPT ![res'] = n]
    <3>1. b \in Base /\ heap'.block[b] # Unallocated /\ heap.block \in [Base -> Int]
      BY DEF Live, Typed, HeapSet, Unallocated
    <3>2. CASE b = res'
      BY <2>1, <2>3, <3>1, <3>2
    <3>3. CASE b # res'
      <4>1. heap'.block[b] = heap.block[b]
        BY <2>3, <3>1, <3>3
      <4> QED
        BY <1>2, <3>1, <4>1 DEF Worded, Live
    <3> QED
      BY <3>2, <3>3
  <2>4. heap \in HeapSet
    BY DEF Typed
  <2> QED
    BY <2>1, <2>2, <2>3, <2>4, AllocatesIs
<1>5. CASE TargetActs
  <2>1. pc = "act"
    BY <1>5 DEF TargetActs
  <2>2. CASE TargetAllocates \/ TargetReallocates \/ TargetFrees
    BY <1>2, <1>3, <1>4, <2>1, <2>2, AsksInWords
  <2>3. CASE heap' = heap
    BY <1>3, <2>3
  <2> QED
    BY <1>5, <2>2, <2>3 DEF TargetActs
<1>6. CASE UNCHANGED vars
  BY <1>3, <1>6 DEF vars
<1>7. CASE ProgramStep \/ MutStep
  BY <1>3, <1>7, BlocksStay
<1> QED
  BY <1>5, <1>6, <1>7 DEF Next

LEMMA UnharmedStep ==
    ASSUME Typed, Called, Taken, Lists, Books, Worded, Unharmed, [Next]_vars
    PROVE  Unharmed'
<1>1. UNCHANGED flags /\ heap \in HeapSet
  BY StaysDamaged DEF Typed
<1> SUFFICES ASSUME Benign', heap'.corrupt
             PROVE  prog'.faulty /\ (On("free") \/ On("check"))
  BY <1>1 DEF Unharmed, On
<1>2. Benign
  BY <1>1 DEF Benign, Padded, Sized, On
<1>3. CASE heap.corrupt
  BY <1>2, <1>3, FaultyStays DEF Unharmed
<1>4. CASE ~heap.corrupt
  <2>1. Sane /\ Padded
    BY <1>2, <1>4 DEF Benign, Sane, Undamaged
  <2>2. Kempt /\ (~Ended => Ledger)
    <3>1. Kept
      BY <2>1 DEF Sane, Kept
    <3> QED
      BY <2>1, <3>1 DEF Lists, Books
  <2>3. heap' # heap
    BY <1>4
  <2>4. ~UNCHANGED vars
    BY <2>3 DEF vars
  <2>5. CASE ProgramStep
    <3>1. PICK p \in DOMAIN prog.owned : \E w \in Outside(p) : TargetOverruns(p, w)
      BY <2>3, <2>5 DEF ProgramStep, TargetCalls
    <3>2. On("check") /\ \E x : prog' = [prog EXCEPT !.overrun = x, !.faulty = TRUE]
      BY <3>1 DEF TargetOverruns
    <3> QED
      BY <3>2 DEF Typed
  <2>6. CASE TargetActs
    <3>1. prog' = prog /\ ~Ended
      BY <2>6 DEF TargetActs, Ended
    <3> QED
      BY <2>1, <2>2, <2>6, <3>1, TargetHarms
  <2>7. CASE MutStep
    <3>1. CASE FreeAvailable
      BY <2>1, <2>2, <3>1, ZeroHarmless DEF FreeAvailable, IsConsumer, Ended
    <3>2. CASE \/ mut_malloc_success \/ mut_calloc_success \/ mut_realloc_malloc
               \/ mut_realloc_malloc_no_free
      <4>1. ~Ended
        BY <3>2 DEF mut_malloc_success, mut_calloc_success, mut_realloc_malloc,
           mut_realloc_malloc_no_free, AllocationSucceeds, ReallocMakes, Ended
      <4> QED
        BY <2>1, <2>2, <3>2, <4>1, ZonesHarmless
    <3>3. CASE mut_realloc_realloc_no_free
      BY <2>1, <2>2, <3>3, CopyHarmless DEF mut_realloc_realloc_no_free, Ended
    <3>4. CASE mut_realloc_realloc
      <4>1. h.path = "realloc" /\ Running /\ Working /\ On("zero")
        BY <2>3, <3>4 DEF mut_realloc_realloc, Running, Working, Zero
      <4>2. On("free") /\ call.fn = "realloc"
        BY <4>1 DEF Taken
      <4> QED
        BY <1>2, <4>1, <4>2 DEF Called, Benign
    <3> QED
      BY <2>3, <2>7, <3>1, <3>2, <3>3, <3>4 DEF MutStep, mut_do_malloc, mut_malloc_failure,
         mut_do_calloc, mut_calloc_failure, FreeNull, FreeUnallocated, FreeFreed, ReallocNull,
         ReallocUnallocated, ReallocAllocated, mut_realloc_failure, mut_do_usage, PlainReturns,
         RequestFails, FailureLosesBacktrace, mut_close, AllocationFails
  <2> QED
    BY <2>4, <2>5, <2>6, <2>7 DEF Next
<1> QED
  BY <1>3, <1>4

-----------------------------------------------------------------------------
(* the invariant *)

LEMMA InitHolds == Init => IInv
<1> SUFFICES ASSUME Init PROVE IInv
  OBVIOUS
<1>1. Typed
  <2>1. /\ flags \in FlagChoices /\ pc = "target" /\ res \in Nat
        /\ call \in [fn : AllFn \cup {"none"}, p : Nat, k : Nat, n : Nat, expect : Fault]
        /\ arg \in [p : Nat, k : Nat, n : Nat]
    BY DEF Init, Fault
  <2>2. /\ h = [path |-> h.path, obj |-> h.obj, bt |-> h.bt]
        /\ h.path \in Path /\ h.bt \in Bt \cup {NoBt}
    BY DEF Init, Plain, Path
  <2>3. report \in [fault : Fault, warning : Warning, assertion : Assertion]
    BY DEF Init, NoReport, Fault, Warning, Assertion
  <2>4. heap \in HeapSet
    BY DEF Init, HeapSet
  <2>5. /\ prog = [owned |-> prog.owned, freed |-> prog.freed, overrun |-> prog.overrun,
                   faulty |-> prog.faulty, peakSpace |-> prog.peakSpace,
                   peakCount |-> prog.peakCount, calls |-> prog.calls]
        /\ prog.owned = <<>> /\ prog.freed = {}
    BY DEF Init
  <2>6. DOMAIN prog.owned = {} /\ prog.owned \in [DOMAIN prog.owned -> Nat]
    BY <2>5
  <2> QED
    BY <2>1, <2>2, <2>3, <2>4, <2>5, <2>6 DEF Typed
<1>2. /\ pc = "target" /\ ~Running /\ ~Gained /\ ~Freeing /\ ~Ended /\ ~Working
      /\ rs = mut_resources_open /\ rs.elems = <<>> /\ h.obj = 0
      /\ ~heap.corrupt /\ report.fault = "none" /\ call.expect = "none"
      /\ prog.owned = <<>> /\ prog.freed = {}
  BY DEF Init, Running, Gained, Freeing, Ended, Working, mut_resources_open, Plain, NoReport
<1>3. ToSet(rs.elems) = {} /\ Len(rs.elems) = 0
  BY <1>2 DEF ToSet
<1>4. Kempt
  <2>1. Balanced(rs, Listed, NoBt)
    BY <1>2, OpenAll
  <2>2. Sound(rs, Holder)
    BY <1>2, <1>3, <2>1 DEF Sound, Holder
  <2>3. st \in Stats
    BY DEF Init, Stats, NoUsage
  <2> QED
    BY <1>2, <1>3, <2>2, <2>3 DEF Kempt
<1>5. Ledger
  <2>1. DOMAIN prog.owned = {}
    BY <1>2
  <2>2. Held = {} /\ InUse = {} /\ GivenBack = {}
    BY <1>2, <1>3, <2>1 DEF Held, InUse, GivenBack
  <2>3. DistinctIn(rs.elems)
    BY <1>2, OpenAll
  <2> QED
    BY <1>2, <1>3, <2>2, <2>3 DEF Ledger, Matched, HomesKept, GainKept, FreedKept, FreeingKept,
       StrayKept
<1>6. Worded
  BY DEF Init, Worded, Live
<1> QED
  BY <1>1, <1>2, <1>4, <1>5, <1>6 DEF IInv, Called, Taken, Lists, Books, Reports, Unharmed

LEMMA StepHolds == IInv /\ [Next]_vars => IInv'
<1> SUFFICES ASSUME Typed, Called, Taken, Lists, Books, Reports, Worded, Unharmed, [Next]_vars
             PROVE  IInv'
  BY DEF IInv
<1>1. Typed'
  BY TypedStep
<1>2. Called'
  BY <1>1, CalledStep
<1>3. Taken'
  BY <1>1, <1>2, TakenStep
<1>4. Lists'
  BY ListsStep
<1>5. Books'
  BY <1>3, BooksStep
<1>6. Reports'
  BY ReportsStep
<1>7. Worded'
  BY WordedStep
<1>8. Unharmed'
  BY UnharmedStep
<1> QED
  BY <1>1, <1>2, <1>3, <1>4, <1>5, <1>6, <1>7, <1>8 DEF IInv

\* What holds whatever the program, the allocator and the requests do.
THEOREM HandlerInvariant == Spec => []IInv
  BY InitHolds, StepHolds, PTL DEF Spec

-----------------------------------------------------------------------------
(* what the invariant gives, for the flags it is promised for *)

\* With -c a realloc needs -f: without it realloc installs no zones, and what
\* the program then writes outside its objects can reach the allocator.  Without
\* -c and -f it copies whole words.
Supported ==
    "realloc" \in Function =>
        \A F \in FlagChoices : "free" \in F \/ ("check" \notin F /\ PadsBlocks)

\* -c is not given with -f, and what is asked for with it leaves room for the
\* zones in a word.
Sensible ==
    \A F \in FlagChoices : "check" \in F =>
        /\ "free" \notin F
        /\ \A n \in MallocSize : n + 3 * mut_zone_size <= WordMod
        /\ \A c \in CallocShape : c[1] * c[2] < WordMod

\* -z is not given with -f when the program uses realloc.
ZeroesInTime ==
    \A F \in FlagChoices : ~("free" \in F /\ "zero" \in F /\ "realloc" \in Function)

\* Either the allocator sets whole words aside for its blocks, or they are asked
\* for in whole words, which -c does, or MUT neither zeroes objects nor copies
\* them.
WritesInRoom ==
    PadsBlocks \/ \A F \in FlagChoices :
        \/ "check" \in F
        \/ "zero" \notin F /\ ("free" \in F \/ "realloc" \notin Function)

LEMMA AlwaysKempt == ASSUME Supported, IInv PROVE Kept /\ Kempt
<1>1. Kept
  <2>1. SUFFICES ASSUME ~On("free"), "realloc" \in Function PROVE Undamaged /\ Sized
    BY DEF Kept
  <2>2. ~On("check") /\ PadsBlocks
    BY <2>1 DEF IInv, Typed, Supported, On
  <2>3. Benign
    BY <2>1, <2>2 DEF Benign, Padded, Sized
  <2> QED
    BY <2>1, <2>2, <2>3 DEF IInv, Unharmed, Benign, Undamaged
<1> QED
  BY <1>1 DEF IInv, Lists

LEMMA AlwaysSane ==
    ASSUME Sensible, IInv, Undamaged
    PROVE  Sane /\ Kempt /\ (~Ended => Ledger)
<1>1. Sane
  <2>1. flags \in FlagChoices
    BY DEF IInv, Typed
  <2> QED
    BY <2>1 DEF Sensible, Sane, Sized, On
<1>2. Kept
  BY <1>1 DEF Sane, Kept
<1> QED
  BY <1>1, <1>2 DEF IInv, Lists, Books

\* The variables keep their types whatever the target does: the handlers count
\* no reference and no resource below zero.
THEOREM TypeOKHolds == ASSUME Supported PROVE Spec => []TypeOK
<1>1. IInv => TypeOK
  <2> SUFFICES ASSUME IInv PROVE TypeOK
    OBVIOUS
  <2>1. Typed /\ Kempt
    BY AlwaysKempt DEF IInv
  <2>2. /\ rs.ref \in [Bt -> Nat] /\ rs.n_active_elems \in Nat /\ rs.n_consumed_elems \in Nat
    <3>1. CASE Ended
      BY <2>1, <3>1 DEF Kempt
    <3>2. CASE ~Ended
      <4>1. Balanced(rs, Listed, Holder)
        BY <2>1, <3>2 DEF Kempt, Sound
      <4> QED
        BY <4>1, BalancedNumbers
    <3> QED
      BY <3>1, <3>2
  <2>3. st.now.space \in Int /\ st.now.count \in Int
    BY <2>1 DEF Kempt, Stats
  <2> QED
    BY <2>1, <2>2, <2>3 DEF TypeOK, Typed, Path, Kempt
<1> QED
  BY <1>1, HandlerInvariant, PTL

\* No reference to a backtrace is lost or given back twice by any way through a
\* handler that lets the target go on, and mut_close gives back the last.
THEOREM BacktracesOwnedHolds == ASSUME Supported PROVE Spec => []BacktracesOwned
<1>1. IInv => BacktracesOwned
  <2> SUFFICES ASSUME IInv PROVE BacktracesOwned
    OBVIOUS
  <2>1. Kempt
    BY AlwaysKempt
  <2>2. ASSUME pc = "target", NEW b \in Bt PROVE rs.ref[b] = Owners(rs, b)
    <3>1. Balanced(rs, Listed, NoBt)
      BY <2>1, <2>2 DEF Kempt, Sound, Holder, Running, Ended
    <3>2. rs \in ListOf(Listed) /\ b # NoBt
      BY <3>1, BtAssumption DEF Balanced, NoBt
    <3>3. /\ Number(rs.elems, MadeWith(Listed, b)) \in Nat
          /\ Number(rs.elems, DeletedWith(Listed, b)) \in Nat
      BY <3>1, BalancedNumbers
    <3>4. rs.ref[b] = Number(rs.elems, MadeWith(Listed, b)) + Number(rs.elems, DeletedWith(Listed, b))
      BY <3>1, <3>2, <3>3 DEF Balanced
    <3> QED
      BY <3>2, <3>4, OwnersCounted
  <2> QED
    BY <2>1, <2>2 DEF BacktracesOwned, Kempt
<1> QED
  BY <1>1, HandlerInvariant, PTL

\* The assertions of mut_do_consumer, mut_log_ffm and the two functions that
\* make an object without -f hold.
THEOREM AssertsHoldAlways == ASSUME Supported PROVE Spec => []AssertsHold
<1>1. IInv => AssertsHold
  <2> SUFFICES ASSUME IInv PROVE AssertsHold
    OBVIOUS
  <2>1. Typed /\ Called /\ Taken /\ Kempt /\ Kept
    BY AlwaysKempt DEF IInv
  <2>2. ASSUME IsConsumer, Obj # 0, ~mut_resources_resource_deleted(rs.elems[Obj])
        PROVE  DeleteAsserts(rs, Obj)
    <3> DEFINE q == rs.elems
    <3>1. Balanced(rs, Listed, Holder) /\ Sound(rs, Holder)
      BY <2>1, <2>2 DEF Kempt, Sound, IsConsumer, Ended
    <3>2. Obj \in 1..Len(q) /\ q[Obj] \in Listed /\ q[Obj].consumer = NoAction /\ q \in Seq(Listed)
      BY <2>2, <3>1, ObjIs DEF mut_resources_resource_deleted
    <3>3. rs.n_active_elems = Number(q, Available(Listed))
      BY <3>1 DEF Balanced
    <3> HIDE DEF q
    <3>4. Obj \in Places(q, Available(Listed))
      BY <3>2 DEF Places, Available
    <3>5. Number(q, Available(Listed)) # 0 /\ Number(q, Available(Listed)) \in Nat
      BY <3>2, <3>4, NumberType
    <3> QED
      BY <3>2, <3>3, <3>5 DEF DeleteAsserts, q
  <2>3. ASSUME On("free"), NEW i \in 1..Len(rs.elems)
        PROVE  ~mut_resources_resource_deleted(rs.elems[i])
    <3>1. rs.elems[i] \in ToSet(rs.elems)
      BY DEF ToSet
    <3>2. rs.elems[i].consumer = NoAction
      BY <2>1, <2>3, <3>1 DEF Kempt, Sound
    <3> QED
      BY <3>2 DEF mut_resources_resource_deleted
  <2>4. ASSUME pc = "exit", res # 0, h.path \in {"malloc_no_free", "realloc_no_free"}
        PROVE  At(rs, ObjectAddr(res)) = {} /\ At(rs, res) = {}
    <3>1. ~On("free") /\ "realloc" \in Function
      BY <2>1, <2>4 DEF Taken, Called, Running, Working
    <3>2. Sane
      BY <2>1, <3>1 DEF Kept, Sane
    <3>3. Ledger
      BY <2>4, <3>2 DEF IInv, Books, Ended
    <3> QED
      BY <2>1, <2>4, <3>3, Fetched
  <2> QED
    BY <2>2, <2>3, <2>4 DEF AssertsHold
<1> QED
  BY <1>1, HandlerInvariant, PTL

\* The resources in use are the objects of the program, each with its size,
\* whenever the program runs.
THEOREM BooksMatchHolds == ASSUME Sensible PROVE Spec => []BooksMatch
<1>1. IInv => BooksMatch
  BY AlwaysSane, InUseAreOwned DEF BooksMatch, Ended
<1> QED
  BY <1>1, HandlerInvariant, PTL

\* The leaks mut_close logs are what the program still holds.
THEOREM LeaksAreOwnedHolds == ASSUME Sensible PROVE Spec => []LeaksAreOwned
<1>1. IInv => LeaksAreOwned
  BY AlwaysSane DEF LeaksAreOwned, IInv, Books
<1> QED
  BY <1>1, HandlerInvariant, PTL

\* An object of the program lies in a block it was given.
THEOREM ObjectsFitHolds == ASSUME Sensible PROVE Spec => []ObjectsFit
<1>1. IInv => ObjectsFit
  <2> SUFFICES ASSUME IInv, pc = "target", Undamaged, NEW p \in DOMAIN prog.owned
               PROVE  InLive(heap, p, prog.owned[p])
    BY DEF ObjectsFit
  <2>1. Typed /\ Ledger
    BY AlwaysSane DEF IInv, Ended
  <2>2. PICK e \in InUse : e.addr = p
    BY <2>1 DEF Ledger, Matched, Held, Freeing, Running
  <2>3. prog.owned[p] = e.size /\ e \in ToSet(rs.elems)
    BY <2>1, <2>2 DEF Ledger, Matched, InUse
  <2>4. ~Left(e.addr)
    BY DEF Left, Gained
  <2>5. Housed(e.addr, e.size)
    BY <2>1, <2>3, <2>4 DEF Ledger, HomesKept
  <2>6. prog.owned[p] \in Nat
    BY <2>1 DEF Typed
  <2> QED
    BY <2>1, <2>2, <2>3, <2>5, <2>6, HousedLive
<1> QED
  BY <1>1, HandlerInvariant, PTL

\* An object the program gave back is free for the allocator exactly with -f.
THEOREM FreedAsAskedHolds == ASSUME Sensible PROVE Spec => []FreedAsAsked
<1>1. IInv => FreedAsAsked
  <2> SUFFICES ASSUME IInv, pc = "target", Undamaged, NEW p \in prog.freed
               PROVE  InLive(heap, p, 0) <=> ~On("free")
    BY DEF FreedAsAsked
  <2>1. Typed /\ Ledger /\ Kempt /\ (\A a : ~Left(a)) /\ ~Gained
    BY AlwaysSane DEF IInv, Ended, Left, Gained
  <2>2. CASE On("free")
    <3>1. p \in Base /\ p \notin Live
      BY <2>1, <2>2 DEF Ledger, FreedKept
    <3>2. SUFFICES ASSUME NEW b \in Base, heap.block[b] # Unallocated,
                          b <= p, p + 0 <= b + heap.block[b]
                   PROVE  FALSE
      BY <2>2 DEF InLive
    <3>3. heap.block[b] \in 0..MaxBlock /\ b \in Nat /\ p \in Nat /\ MaxBlock \in Nat
      BY <2>1, <3>1, <3>2, Inputs DEF Typed, HeapSet
    <3>4. b # p
      BY <3>1, <3>2 DEF Live
    <3>5. b + MaxBlock + mut_zone_size < p
      BY <3>1, <3>2, <3>3, <3>4, HeapAssumption
    <3> QED
      BY <3>2, <3>3, <3>5 DEF mut_zone_size
  <2>3. CASE ~On("free")
    <3>1. PICK e \in GivenBack : e.addr = p
      BY <2>1, <2>3 DEF Ledger, Matched
    <3>2. e \in ToSet(rs.elems)
      BY <3>1 DEF GivenBack
    <3>3. Housed(e.addr, e.size)
      BY <2>1, <3>2 DEF Ledger, HomesKept
    <3>4. e \in Listed
      <4>1. rs.elems \in Seq(Listed)
        BY <2>1, ObjIs DEF Kempt, Ended
      <4> QED
        BY <3>2, <4>1, SetOfSeq
    <3>5. e.size \in Nat
      BY <3>4, ListedFields
    <3>6. InLive(heap, p, e.size)
      BY <2>1, <3>1, <3>3, <3>5, HousedLive
    <3>7. PICK b \in Base : /\ heap.block[b] # Unallocated
                            /\ b <= p /\ p + e.size <= b + heap.block[b]
      BY <3>6 DEF InLive
    <3>8. b \in Nat /\ p \in Nat /\ heap.block[b] \in Int
      BY <2>1, Inputs DEF Typed, HeapSet, Unallocated
    <3> QED
      BY <2>3, <3>5, <3>7, <3>8 DEF InLive
  <2> QED
    BY <2>2, <2>3
<1> QED
  BY <1>1, HandlerInvariant, PTL

\* MUT damages no heap: the zones, the zeroing and the copying in whole words
\* and the arguments stay within what the allocator set aside.
THEOREM HeapUndamagedHolds ==
    ASSUME Sensible, ZeroesInTime, WritesInRoom PROVE Spec => []HeapUndamaged
<1>1. IInv => HeapUndamaged
  <2> SUFFICES ASSUME IInv PROVE HeapUndamaged
    OBVIOUS
  <2>1. flags \in FlagChoices
    BY DEF IInv, Typed
  <2>2. Benign
    BY <2>1 DEF Benign, Sensible, ZeroesInTime, WritesInRoom, Padded, Sized, On
  <2> QED
    BY <2>2 DEF IInv, Unharmed, HeapUndamaged
<1> QED
  BY <1>1, HandlerInvariant, PTL

-----------------------------------------------------------------------------
(* the statistics *)

Owns == DOMAIN prog.owned

\* The space and the number of the objects the program holds are at most their
\* peaks.
Peaks ==
    /\ IsFiniteSet(Owns)
    /\ prog.peakSpace \in Nat /\ Sum(prog.owned, Owns) <= prog.peakSpace
    /\ prog.peakCount \in Nat /\ Cardinality(Owns) <= prog.peakCount

\* While a handler works an object that free or cfree is about to be run with
\* is already off the counters.
Counted ==
    /\ st.now.space = Sum(prog.owned, Held)
    /\ st.now.count = Cardinality(Held)
    /\ st.maxSpace.space = prog.peakSpace
    /\ st.maxCount.count = prog.peakCount

Tallied == Peaks /\ (Sane /\ On("stats") /\ ~Ended => Counted)

-----------------------------------------------------------------------------
LEMMA SpaceIs == ASSUME NEW o PROVE Space(o) = Sum(o, DOMAIN o)
BY DEF Space, Sum

\* What going on with r does to the objects and their peaks.
LEMMA ContinuesPeaks ==
    ASSUME Typed, Peaks, NEW r \in Nat, Continues(r)
    PROVE  /\ Peaks'
           /\ prog'.peakSpace = Greater(prog.peakSpace, Sum(prog'.owned, Owns'))
           /\ prog'.peakCount = Greater(prog.peakCount, Cardinality(Owns'))
           /\ Sum(prog'.owned, Owns') \in Nat /\ Cardinality(Owns') \in Nat
<1> DEFINE made == [q \in (DOMAIN prog.owned \ Lost(r)) \cup Got(r) |->
                       IF q \in Got(r) THEN call.k * call.n ELSE prog.owned[q]]
<1>1. prog' = [prog EXCEPT !.owned = made, !.freed = (@ \cup Lost(r)) \ Got(r),
                           !.overrun = @ \ (Lost(r) \cup Got(r)),
                           !.peakSpace = Greater(@, Space(made)),
                           !.peakCount = Greater(@, Cardinality(DOMAIN made))]
  BY DEF Continues, Lost, Got
<1>2. DOMAIN made = (DOMAIN prog.owned \ Lost(r)) \cup Got(r)
  OBVIOUS
<1>3. \A q \in DOMAIN made : made[q] \in Nat
  <2>1. prog.owned \in [DOMAIN prog.owned -> Nat] /\ call.k * call.n \in Nat
    BY DEF Typed
  <2> QED BY <2>1
<1> HIDE DEF made
<1>4. /\ prog'.owned = made
      /\ prog'.peakSpace = Greater(prog.peakSpace, Space(made))
      /\ prog'.peakCount = Greater(prog.peakCount, Cardinality(DOMAIN made))
  BY <1>1 DEF Typed
<1>5. IsFiniteSet(DOMAIN made)
  <2>1. IsFiniteSet(Got(r))
    <3>1. Got(r) \subseteq {r}
      BY DEF Got
    <3> QED BY <3>1, FS_Singleton, FS_Subset
  <2>2. IsFiniteSet(DOMAIN prog.owned \ Lost(r))
    BY FS_Subset DEF Peaks, Owns
  <2> QED BY <1>2, <2>1, <2>2, FS_Union
<1>6. Space(made) = Sum(made, DOMAIN made) /\ Sum(made, DOMAIN made) \in Nat
  BY <1>3, <1>5, SpaceIs, SumType
<1>7. Cardinality(DOMAIN made) \in Nat
  BY <1>5, FS_CardinalityType
<1> QED
  BY <1>4, <1>5, <1>6, <1>7 DEF Peaks, Owns, Greater

\* The space and the number after the program went on with r: the objects it
\* keeps, and the one it got.
LEMMA ContinuesSum ==
    ASSUME Typed, Peaks, NEW r \in Nat, Continues(r),
           NEW K, K = DOMAIN prog.owned \ (Lost(r) \cup Got(r))
    PROVE  /\ Got(r) = {} => /\ Sum(prog'.owned, Owns') = Sum(prog.owned, K)
                             /\ Cardinality(Owns') = Cardinality(K)
           /\ Got(r) # {} => /\ Sum(prog'.owned, Owns') = Sum(prog.owned, K) + call.k * call.n
                             /\ Cardinality(Owns') = Cardinality(K) + 1
<1>1. /\ Owns' = K \cup Got(r)
      /\ \A q \in Got(r) : prog'.owned[q] = call.k * call.n
      /\ \A q \in K : prog'.owned[q] = prog.owned[q]
  BY ContinuesIs DEF Owns
<1>2. IsFiniteSet(K) /\ K \cap Got(r) = {}
  BY FS_Subset DEF Peaks, Owns
<1>3. Sum(prog'.owned, K) = Sum(prog.owned, K)
  BY <1>1, <1>2, SumSame
<1>4. CASE Got(r) = {}
  BY <1>1, <1>3, <1>4
<1>5. CASE Got(r) # {}
  <2>1. PICK q : Got(r) = {q}
    BY <1>5 DEF Got
  <2>2. q \notin K /\ Owns' = K \cup {q} /\ prog'.owned[q] = call.k * call.n
    BY <1>1, <1>2, <2>1
  <2>3. \A x \in K \cup {q} : prog'.owned[x] \in Int
    <3>1. prog.owned \in [DOMAIN prog.owned -> Nat] /\ call.k * call.n \in Nat
      BY DEF Typed
    <3> QED BY <1>1, <2>2, <3>1
  <2>4. Sum(prog'.owned, K \cup {q}) = Sum(prog'.owned, K) + prog'.owned[q]
    BY <1>2, <2>2, <2>3, SumWith
  <2>5. Cardinality(K \cup {q}) = Cardinality(K) + 1
    BY <1>2, <2>2, FS_AddElement
  <2> QED BY <1>3, <1>5, <2>2, <2>4, <2>5
<1> QED BY <1>4, <1>5

\* The sum and the number of what the program holds, without one object.
LEMMA WithoutOne ==
    ASSUME Typed, Peaks, NEW p \in Owns, NEW K, K = Owns \ {p}
    PROVE  /\ Sum(prog.owned, K) \in Nat /\ Cardinality(K) \in Nat /\ IsFiniteSet(K)
           /\ prog.owned[p] \in Nat
           /\ Sum(prog.owned, Owns) = Sum(prog.owned, K) + prog.owned[p]
           /\ Cardinality(Owns) = Cardinality(K) + 1
<1>1. prog.owned \in [Owns -> Nat] /\ IsFiniteSet(Owns) /\ \A x \in Owns : prog.owned[x] \in Nat
  BY DEF Typed, Peaks, Owns
<1>2. IsFiniteSet(K)
  BY <1>1, FS_Subset
<1>3. Sum(prog.owned, K) \in Nat
  BY <1>1, <1>2, SumType
<1>4. Sum(prog.owned, Owns) = prog.owned[p] + Sum(prog.owned, K)
  BY <1>1, SumWithout
<1>5. Cardinality(K) = Cardinality(Owns) - 1 /\ Cardinality(Owns) \in Nat /\ Cardinality(K) \in Nat
  BY <1>1, <1>2, FS_RemoveElement, FS_CardinalityType
<1> QED BY <1>1, <1>2, <1>3, <1>4, <1>5

LEMMA AllOfThem ==
    ASSUME Typed, Peaks
    PROVE  Sum(prog.owned, Owns) \in Nat /\ Cardinality(Owns) \in Nat
<1>1. \A x \in Owns : prog.owned[x] \in Nat
  BY DEF Typed, Owns
<1> QED BY <1>1, SumType, FS_CardinalityType DEF Peaks

\* What collecting the statistics does to what Counted is about.
Levels(s) == <<s.now.space, s.now.count, s.maxSpace.space, s.maxCount.count>>

LEMMA HitIs ==
    ASSUME NEW s \in Stats, NEW fn \in AllFn
    PROVE  Hit(s, fn) \in Stats /\ Levels(Hit(s, fn)) = Levels(s)
BY DEF Hit, Stats, Levels

LEMMA ConsumerIs ==
    ASSUME NEW s \in Stats, NEW n \in Int, On("stats"), NEW t, t = CollectConsumer(s, n)
    PROVE  /\ t \in Stats
           /\ Levels(t) = <<s.now.space - n, s.now.count - 1, s.maxSpace.space, s.maxCount.count>>
BY DEF CollectConsumer, Stats, Levels

LEMMA ProducerIs ==
    ASSUME NEW s \in Stats, NEW n \in Int, On("stats"),
           NEW t, t = mut_collect_producer_stats(s, n)
    PROVE  Levels(t) = <<s.now.space + n, s.now.count + 1,
                         Greater(s.maxSpace.space, s.now.space + n),
                         Greater(s.maxCount.count, s.now.count + 1)>>
BY DEF mut_collect_producer_stats, Stats, Levels, Greater

LEMMA CountedSame ==
    ASSUME Counted, Levels(st') = Levels(st), prog'.owned = prog.owned,
           prog'.peakSpace = prog.peakSpace, prog'.peakCount = prog.peakCount, Held' = Held
    PROVE  Counted'
BY DEF Counted, Levels

\* The program goes on without a new object, and what it gave back is off the
\* counters.
LEMMA CountedReturns ==
    ASSUME Typed, Peaks, NEW r \in Nat, Continues(r), Got(r) = {}, Freeing' = FALSE,
           NEW K, K = Owns \ Lost(r),
           Levels(st') = <<Sum(prog.owned, K), Cardinality(K), prog.peakSpace, prog.peakCount>>
    PROVE  Counted'
<1>1. /\ prog'.peakSpace = Greater(prog.peakSpace, Sum(prog'.owned, Owns'))
      /\ prog'.peakCount = Greater(prog.peakCount, Cardinality(Owns'))
  BY ContinuesPeaks
<1>2. Sum(prog'.owned, Owns') = Sum(prog.owned, K) /\ Cardinality(Owns') = Cardinality(K)
  BY ContinuesSum DEF Owns
<1>3. /\ Sum(prog.owned, K) \in Nat /\ Sum(prog.owned, K) <= prog.peakSpace
      /\ Cardinality(K) \in Nat /\ Cardinality(K) <= prog.peakCount
  <2>1. CASE Lost(r) = {}
    BY <2>1, AllOfThem DEF Peaks
  <2>2. CASE Lost(r) # {}
    <3>1. Lost(r) = {call.p} /\ call.p \in Owns
      BY <2>2 DEF Lost, Owns
    <3> QED BY <3>1, WithoutOne, AllOfThem DEF Peaks
  <2> QED BY <2>1, <2>2
<1>4. prog'.peakSpace = prog.peakSpace /\ prog'.peakCount = prog.peakCount
  BY <1>1, <1>2, <1>3 DEF Greater, Peaks
<1>5. Held' = Owns'
  BY DEF Held, Owns
<1> QED BY <1>2, <1>4, <1>5 DEF Counted, Levels

\* The program goes on with a new object, which is counted last.
LEMMA CountedGains ==
    ASSUME Typed, Peaks, NEW r \in Nat, Continues(r), Got(r) # {}, Freeing' = FALSE,
           NEW K, K = Owns \ (Lost(r) \cup Got(r)),
           NEW s \in Stats, On("stats"),
           Levels(s) = <<Sum(prog.owned, K), Cardinality(K), prog.peakSpace, prog.peakCount>>,
           st' = mut_collect_producer_stats(s, call.k * call.n)
    PROVE  Counted'
<1>1. /\ prog'.peakSpace = Greater(prog.peakSpace, Sum(prog'.owned, Owns'))
      /\ prog'.peakCount = Greater(prog.peakCount, Cardinality(Owns'))
  BY ContinuesPeaks
<1>2. /\ Sum(prog'.owned, Owns') = Sum(prog.owned, K) + call.k * call.n
      /\ Cardinality(Owns') = Cardinality(K) + 1
  BY ContinuesSum DEF Owns
<1>3. call.k * call.n \in Int
  BY DEF Typed
<1> DEFINE n == call.k * call.n
<1>4. Levels(st') = <<s.now.space + n, s.now.count + 1, Greater(s.maxSpace.space, s.now.space + n),
                      Greater(s.maxCount.count, s.now.count + 1)>>
  <2> HIDE DEF n
  <2>1. n \in Int /\ st' = mut_collect_producer_stats(s, n)
    BY <1>3 DEF n
  <2> QED BY <2>1, ProducerIs
<1>5. Held' = Owns'
  BY DEF Held, Owns
<1> HIDE DEF n
<1>6. Sum(prog'.owned, Owns') = Sum(prog.owned, K) + n
  BY <1>2 DEF n
<1> QED BY <1>1, <1>2, <1>4, <1>5, <1>6 DEF Counted, Levels

-----------------------------------------------------------------------------
(* the steps *)

LEMMA EntryCounted ==
    ASSUME Typed, Kempt, Counted, pc = "call",
           \/ mut_do_malloc \/ mut_do_calloc \/ FreeNull \/ ReallocNull \/ ReallocUnallocated
           \/ ReallocAllocated \/ mut_do_usage
    PROVE  Counted'
<1>1. st \in Stats
  BY DEF Kempt
<1>2. Levels(st') = Levels(st) /\ prog' = prog /\ call' = call
  <2>1. /\ prog' = prog /\ call' = call
        /\ st' = st \/ st' = Hit(st, "realloc") \/ st' = Hit(st, call.fn)
    BY DEF mut_do_malloc, mut_do_calloc, FreeNull, ReallocNull, ReallocUnallocated,
       ReallocAllocated, mut_do_usage
  <2>2. "realloc" \in AllFn /\ (st' = Hit(st, call.fn) => call.fn \in AllFn \/ st' = st)
    <3>1. "realloc" \in AllFn /\ (FreeNull => call.fn \in AllFn)
      BY DEF AllFn, FreeNull, IsConsumer
    <3>2. ~FreeNull => st' = st \/ st' = Hit(st, "realloc")
      BY DEF mut_do_malloc, mut_do_calloc, ReallocNull, ReallocUnallocated,
         ReallocAllocated, mut_do_usage
    <3>3. CASE FreeNull
      BY <3>1, <3>3
    <3>4. CASE ~FreeNull /\ st' = st
      BY <3>1, <3>4
    <3>5. CASE ~FreeNull /\ st' = Hit(st, "realloc") /\ call.fn \notin AllFn
      <4>1. FALSE
        BY <3>5 DEF mut_do_malloc, mut_do_calloc, ReallocNull, ReallocUnallocated, IsRealloc,
           ReallocAllocated, mut_do_usage, AllFn
      <4> QED BY <4>1
    <3> QED BY <3>1, <3>2, <3>3, <3>4, <3>5
  <2> QED BY <1>1, <2>1, <2>2, HitIs
<1>3. Held' = Held
  <2>1. Held = DOMAIN prog.owned /\ 0 \notin DOMAIN prog.owned
    BY DEF Held, Freeing, Running, Typed
  <2>2. call.fn \in {"free", "cfree"} => call.p = 0
    BY DEF mut_do_malloc, mut_do_calloc, FreeNull, ReallocNull, ReallocUnallocated,
       ReallocAllocated, mut_do_usage, IsRealloc
  <2>3. Held' = DOMAIN prog.owned \/ Held' = DOMAIN prog.owned \ {0}
    BY <1>2, <2>2 DEF Held, Freeing
  <2> QED BY <2>1, <2>3
<1> QED BY <1>2, <1>3, CountedSame

\* free or cfree of a pointer to no object of the program.
LEMMA FreeCounted ==
    ASSUME Typed, Called, Kempt, Ledger, Peaks, Counted, FreeUnallocated \/ FreeFreed
    PROVE  Counted'
<1>1. /\ pc = "call" /\ call.fn \in {"free", "cfree"} /\ FreeOrSkip /\ call' = call
      /\ st' = Hit(st, call.fn)
  BY DEF FreeUnallocated, FreeFreed, IsConsumer
<1>2. call.p \notin DOMAIN prog.owned
  BY <1>1, StrayCall, FreedCall DEF FreeUnallocated, FreeFreed
<1>3. st \in Stats /\ call.fn \in AllFn
  BY <1>1 DEF Kempt, AllFn
<1>4. Levels(st') = Levels(st)
  BY <1>1, <1>3, HitIs
<1>5. Held = DOMAIN prog.owned
  BY <1>1 DEF Held, Freeing, Running
<1>6. CASE UNCHANGED prog
  <2>1. Held' = Held
    BY <1>1, <1>2, <1>5, <1>6 DEF Held
  <2> QED BY <1>4, <1>6, <2>1, CountedSame
<1>7. CASE Continues(0) /\ pc' = "target"
  <2>1. Got(0) = {} /\ Owns = Owns \ Lost(0) /\ Freeing' = FALSE
    BY <1>1, <1>2, <1>7 DEF Got, Lost, Owns, Freeing, Running
  <2>2. Levels(st') = <<Sum(prog.owned, Owns), Cardinality(Owns), prog.peakSpace, prog.peakCount>>
    BY <1>4, <1>5 DEF Counted, Levels, Owns
  <2>3. 0 \in Nat
    OBVIOUS
  <2> QED BY <1>7, <2>1, <2>2, <2>3, CountedReturns
<1> QED BY <1>1, <1>6, <1>7, FreeOrSkipIs

\* free or cfree of an object: it is off the counters before the target's
\* function is run, if it is.
LEMMA FreeAvailableCounted ==
    ASSUME Typed, Called, Kempt, Ledger, Peaks, Counted, FreeAvailable, pc' # "failed",
           On("stats")
    PROVE  Counted'
<1> DEFINE e == rs.elems[Obj]
<1>1. /\ pc = "call" /\ call.p # 0 /\ call.fn \in {"free", "cfree"} /\ FreeOrSkip /\ Obj # 0
      /\ call' = call /\ ~mut_resources_resource_deleted(e)
      /\ st' = CollectConsumer(Hit(st, call.fn), e.size)
  BY DEF FreeAvailable, IsConsumer, GiveUp
<1>2. PICK x : x = e
  OBVIOUS
<1>3. st' = CollectConsumer(Hit(st, call.fn), x.size)
  BY <1>1, <1>2
<1>4. call.p \in Owns /\ prog.owned[call.p] = x.size /\ x \in Listed
  BY <1>1, <1>2, OwnedCall DEF Owns
<1> HIDE DEF e
<1> DEFINE K == Owns \ {call.p}
<1>5. /\ Sum(prog.owned, K) \in Nat /\ Cardinality(K) \in Nat /\ x.size \in Nat
      /\ Sum(prog.owned, Owns) = Sum(prog.owned, K) + x.size
      /\ Cardinality(Owns) = Cardinality(K) + 1
  BY <1>4, WithoutOne
<1>6. Levels(st) = <<Sum(prog.owned, Owns), Cardinality(Owns), prog.peakSpace, prog.peakCount>>
  <2>1. Held = Owns
    BY <1>1 DEF Held, Freeing, Running, Owns
  <2> QED BY <2>1 DEF Counted, Levels
<1>7. Levels(st') = <<Sum(prog.owned, K), Cardinality(K), prog.peakSpace, prog.peakCount>>
  <2>1. st \in Stats /\ call.fn \in AllFn
    BY <1>1 DEF Kempt, AllFn
  <2>2. PICK s : s = Hit(st, call.fn)
    OBVIOUS
  <2>3. s \in Stats /\ Levels(s) = Levels(st)
    BY <2>1, <2>2, HitIs
  <2>4. Levels(st') = <<s.now.space - x.size, s.now.count - 1, s.maxSpace.space, s.maxCount.count>>
    <3>1. x.size \in Int /\ st' = CollectConsumer(s, x.size)
      BY <1>3, <1>5, <2>2
    <3> QED BY <2>3, <3>1, ConsumerIs
  <2> HIDE DEF K
  <2> QED BY <1>5, <1>6, <2>3, <2>4 DEF Levels
<1>8. CASE UNCHANGED prog /\ pc' = "act"
  <2>1. Held' = K
    <3>1. h'.path = "plain"
      BY <1>1, FreeOrSkipIs
    <3> QED BY <1>1, <1>8, <3>1 DEF Held, Freeing, Running, Owns
  <2> HIDE DEF K
  <2> QED BY <1>7, <1>8, <2>1 DEF Counted, Levels
<1>9. CASE Continues(0) /\ pc' = "target"
  <2>1. Got(0) = {} /\ K = Owns \ Lost(0) /\ Freeing' = FALSE
    BY <1>1, <1>4, <1>9 DEF Got, Lost, Owns, Freeing, Running
  <2>2. 0 \in Nat
    OBVIOUS
  <2> HIDE DEF K
  <2> QED BY <1>7, <1>9, <2>1, <2>2, CountedReturns
<1> QED BY <1>1, <1>8, <1>9, FreeOrSkipIs

LEMMA FailsCounted ==
    ASSUME Typed, Taken, Kempt, Peaks, Counted, mut_malloc_failure \/ mut_calloc_failure
    PROVE  Counted'
<1>1. /\ pc = "exit" /\ Continues(0) /\ pc' = "target"
      /\ \E fn \in {"malloc", "calloc"} : h.path = fn /\ st' = Hit(st, fn)
  BY DEF mut_malloc_failure, mut_calloc_failure, AllocationFails, Continues
<1>2. Levels(st') = Levels(st)
  BY <1>1, HitIs DEF AllFn, Kempt
<1>3. call.fn \in {"malloc", "calloc"}
  BY <1>1 DEF Taken, Running
<1>4. Got(0) = {} /\ Lost(0) = {} /\ Held = Owns /\ Freeing' = FALSE
  BY <1>1, <1>3 DEF Got, Lost, Held, Owns, Freeing, Running
<1>5. Levels(st') = <<Sum(prog.owned, Owns), Cardinality(Owns), prog.peakSpace, prog.peakCount>>
  BY <1>2, <1>4 DEF Counted, Levels
<1>6. Owns = Owns \ Lost(0) /\ 0 \in Nat
  BY <1>4
<1> QED BY <1>1, <1>4, <1>5, <1>6, CountedReturns

LEMMA SucceedsCounted ==
    ASSUME Typed, Called, Taken, Kempt, Ledger, Sane, Peaks, Counted, On("stats"),
           \/ mut_malloc_success \/ mut_calloc_success \/ mut_realloc_malloc
           \/ mut_realloc_malloc_no_free
    PROVE  Counted'
<1> DEFINE a == ObjectAddr(res)
           n == call.k * call.n
<1>1. /\ pc = "exit" /\ res # 0
      /\ h.path \in {"malloc", "calloc", "realloc_malloc", "malloc_no_free"}
  BY DEF mut_malloc_success, mut_calloc_success, mut_realloc_malloc,
     mut_realloc_malloc_no_free, AllocationSucceeds, ReallocMakes
<1>2. /\ Held = DOMAIN prog.owned /\ At(rs, a) = {} /\ \A x \in ToSet(rs.elems) : x.addr # a
  BY <1>1, Fetched
<1>3. a \notin Owns
  BY <1>2 DEF Ledger, Matched, InUse, Owns
<1>4. a \in Nat /\ a # 0
  BY <1>1 DEF ObjectAddr, mut_zone_size, Typed
<1>5. /\ h.path # "calloc" => n = call.n
      /\ h.path = "calloc" => calloc_size(call) = n
  BY <1>1, Fits
<1> HIDE DEF n, a
<1>6. call.n \in Nat /\ calloc_size(call) \in Nat /\ st \in Stats
  BY CallocSize DEF Typed, Kempt
<1>7. /\ Continues(a) /\ pc' = "target"
      /\ \E fn \in AllFn : st' = mut_collect_producer_stats(Hit(st, fn), n)
  <2>1. CASE mut_malloc_success
    <3>1. h.path = "malloc" /\ AllocationSucceeds("malloc", call.n, "MMM")
      BY <2>1 DEF mut_malloc_success, AllocationSucceeds
    <3>2. st' = mut_collect_producer_stats(Hit(st, "malloc"), n)
      BY <1>5, <3>1 DEF AllocationSucceeds
    <3>3. Continues(a)
      BY <1>2, <1>6, <3>1, SucceedsKempt DEF AllFn, a
    <3> QED BY <3>2, <3>3 DEF AllFn, Continues
  <2>2. CASE mut_calloc_success
    <3>1. h.path = "calloc" /\ AllocationSucceeds("calloc", calloc_size(call), "CMM")
      BY <2>2 DEF mut_calloc_success, AllocationSucceeds
    <3>2. st' = mut_collect_producer_stats(Hit(st, "calloc"), n)
      BY <1>5, <3>1 DEF AllocationSucceeds
    <3>3. Continues(a)
      BY <1>2, <1>6, <3>1, SucceedsKempt DEF AllFn, a
    <3> QED BY <3>2, <3>3 DEF AllFn, Continues
  <2>3. ASSUME NEW path \in {"realloc_malloc", "malloc_no_free"}, ReallocMakes(path)
        PROVE  /\ Continues(a) /\ st' = mut_collect_producer_stats(Hit(st, "realloc"), n)
    <3>1. h.path = path /\ n = call.n
      BY <1>5, <2>3 DEF ReallocMakes
    <3>2. /\ mut_resource_is_new(mut_resources_create_resource(rs, a).elems[
                                   mut_resources_lookup(mut_resources_create_resource(rs, a), a)])
      <4>1. Sound(rs, h.bt) /\ h.bt \in Bt \cup {NoBt} /\ "realloc" \in AllFn
        BY <1>1 DEF Kempt, Ended, Holder, Running, Typed, AllFn
      <4> QED BY ONLY <1>2, <1>4, <1>6, <4>1, Enters DEF a
    <3>3. st' = mut_collect_producer_stats(Hit(st, "realloc"), call.n) /\ Continues(a)
      BY <2>3, <3>2 DEF ReallocMakes, a
    <3> QED BY <3>1, <3>3
  <2> QED
    BY <2>1, <2>2, <2>3 DEF mut_realloc_malloc, mut_realloc_malloc_no_free, AllFn, Continues
<1>8. Lost(a) = {} /\ Got(a) = {a} /\ Freeing' = FALSE
  <2>1. call.fn \in {"malloc", "calloc", "realloc"}
    BY <1>1 DEF Taken, Running
  <2>2. call.fn = "realloc" => call.p \notin DOMAIN prog.owned
    <3>1. 0 \notin DOMAIN prog.owned
      BY DEF Typed
    <3>2. h.path = "realloc_malloc" => call.p = 0
      BY <1>1 DEF Taken, Running
    <3>3. h.path = "malloc_no_free" => call.p \notin DOMAIN prog.owned
      BY <1>1 DEF Ledger, StrayKept, Running
    <3>4. h.path \in {"malloc", "calloc"} => call.fn # "realloc"
      BY <1>1 DEF Taken, Running
    <3> QED BY <1>1, <3>1, <3>2, <3>3, <3>4
  <2> QED BY <1>4, <1>7, <2>1, <2>2 DEF Lost, Got, Freeing, Running
<1>9. PICK fn \in AllFn : st' = mut_collect_producer_stats(Hit(st, fn), n)
  BY <1>7
<1>10. Hit(st, fn) \in Stats /\ Levels(Hit(st, fn)) = Levels(st)
  BY <1>6, HitIs
<1>11. /\ Owns = Owns \ (Lost(a) \cup Got(a)) /\ Got(a) # {}
       /\ Levels(st) = <<Sum(prog.owned, Owns), Cardinality(Owns), prog.peakSpace, prog.peakCount>>
  BY <1>2, <1>3, <1>8 DEF Counted, Levels, Owns
<1>12. st' = mut_collect_producer_stats(Hit(st, fn), call.k * call.n)
  BY <1>9 DEF n
<1>13. \E s \in Stats : /\ Levels(s) = Levels(st)
                        /\ st' = mut_collect_producer_stats(s, call.k * call.n)
  BY <1>10, <1>12
<1> QED BY <1>4, <1>7, <1>8, <1>11, <1>13, CountedGains

\* realloc of an object: the old size goes, then the new one comes.
LEMMA ReallocCounted ==
    ASSUME Typed, Called, Taken, Kempt, Ledger, Sane, Peaks, Counted, On("stats"),
           mut_realloc_realloc \/ (mut_realloc_realloc_no_free /\ pc' # "aborted")
    PROVE  Counted'
<1>1. /\ pc = "exit" /\ res # 0 /\ h.path \in {"realloc", "realloc_no_free"} /\ res \in Nat
      /\ Gained /\ st \in Stats
  BY DEF mut_realloc_realloc, mut_realloc_realloc_no_free, Gained, Typed, Kempt
<1>2. PICK e : e = rs.elems[h.obj]
  OBVIOUS
<1>3. /\ e \in ToSet(rs.elems) /\ e \in Listed /\ e.addr = call.p /\ e.consumer = NoAction
      /\ Continues(res)
      /\ res \in Owns => res = call.p
  <2>1. CASE mut_realloc_realloc
    <3>1. Continues(res) /\ h.path = "realloc"
      BY <2>1 DEF mut_realloc_realloc
    <3>2. \A x \in ToSet(rs.elems) : x.addr = res => x.addr = call.p
      BY <1>1 DEF Ledger, GainKept, Left
    <3>3. res \in Owns => \E x \in ToSet(rs.elems) : x.addr = res
      <4>1. Held = Owns
        BY <3>1 DEF Held, Freeing, Owns
      <4> QED BY <4>1 DEF Ledger, Matched, InUse
    <3> QED BY <1>2, <2>1, <3>1, <3>2, <3>3, MovesKempt
  <2>2. CASE mut_realloc_realloc_no_free /\ pc' # "aborted"
    <3>1. h.path = "realloc_no_free"
      BY <2>2 DEF mut_realloc_realloc_no_free
    <3>2. /\ Held = DOMAIN prog.owned /\ At(rs, res) = {}
          /\ \A x \in ToSet(rs.elems) : x.addr # res
      BY <1>1, <3>1, Fetched
    <3>3. res \notin Owns
      BY <3>2 DEF Ledger, Matched, InUse, Owns
    <3>4. DistinctIn(rs.elems)
      BY DEF Ledger
    <3> QED BY <1>2, <2>2, <3>2, <3>3, <3>4, CopiesKempt
  <2> QED BY <2>1, <2>2
<1>4. /\ call.p \in Owns /\ Held = Owns /\ pc' = "target"
  BY <1>1, <1>3, ReallocOwns DEF Owns
<1>5. prog.owned[call.p] = e.size
  BY <1>3, <1>4 DEF Ledger, Matched, InUse
<1>6. call.fn = "realloc" /\ call.k * call.n = call.n /\ call.n \in Nat
  <2>1. call.fn = "realloc" /\ Working
    BY <1>1 DEF Taken, Running, Working
  <2>2. call.k = 1 /\ call.n \in Nat
    BY <2>1 DEF Called, Typed
  <2> QED BY <2>1, <2>2
<1> DEFINE K == Owns \ (Lost(res) \cup Got(res))
<1>7. K = Owns \ {call.p} /\ Got(res) # {} /\ Freeing' = FALSE
  <2>1. Lost(res) = {call.p} /\ Got(res) = {res}
    BY <1>1, <1>4, <1>6 DEF Lost, Got, Owns
  <2>2. Freeing' = FALSE
    BY <1>4 DEF Freeing, Running
  <2> QED BY <1>3, <2>1, <2>2
<1> HIDE DEF K
<1>8. /\ Sum(prog.owned, K) \in Nat /\ Cardinality(K) \in Nat /\ e.size \in Nat
      /\ Sum(prog.owned, Owns) = Sum(prog.owned, K) + e.size
      /\ Cardinality(Owns) = Cardinality(K) + 1
  BY <1>4, <1>5, <1>7, WithoutOne
<1>9. Levels(st) = <<Sum(prog.owned, Owns), Cardinality(Owns), prog.peakSpace, prog.peakCount>>
  BY <1>4 DEF Counted, Levels
<1> DEFINE Ready(s) == /\ s \in Stats
                       /\ Levels(s) = <<Sum(prog.owned, K), Cardinality(K),
                                        prog.peakSpace, prog.peakCount>>
<1>10. "realloc" \in AllFn /\ e.size \in Int
  BY <1>8 DEF AllFn
<1>11. ASSUME NEW s \in Stats, Levels(s) = Levels(st), NEW t, t = CollectConsumer(s, e.size)
       PROVE  Ready(t)
  <2>1. /\ t \in Stats
        /\ Levels(t) = <<s.now.space - e.size, s.now.count - 1, s.maxSpace.space, s.maxCount.count>>
    BY <1>10, <1>11, ConsumerIs
  <2> QED BY <1>8, <1>9, <1>11, <2>1 DEF Levels
<1>12. \E s : Ready(s) /\ st' = mut_collect_producer_stats(s, call.n)
  <2>1. CASE mut_realloc_realloc
    <3> DEFINE t == CollectConsumer(Hit(st, "realloc"), e.size)
    <3>1. st' = mut_collect_producer_stats(t, call.n)
      BY <1>2, <2>1 DEF mut_realloc_realloc
    <3>2. Hit(st, "realloc") \in Stats /\ Levels(Hit(st, "realloc")) = Levels(st)
      BY <1>1, <1>10, HitIs
    <3>3. Ready(t)
      <4> HIDE DEF Ready
      <4> QED BY <1>11, <3>2
    <3> HIDE DEF t, Ready
    <3> QED BY <3>1, <3>3
  <2>2. CASE mut_realloc_realloc_no_free /\ pc' # "aborted"
    <3> DEFINE t == CollectConsumer(st, e.size)
    <3>1. st' = mut_collect_producer_stats(Hit(t, "realloc"), call.n)
      BY <1>2, <2>2 DEF mut_realloc_realloc_no_free, Abort
    <3>2. Ready(t)
      <4> HIDE DEF Ready
      <4> QED BY <1>1, <1>11
    <3>3. Hit(t, "realloc") \in Stats /\ Levels(Hit(t, "realloc")) = Levels(t)
      <4> HIDE DEF t
      <4> QED BY <1>10, <3>2, HitIs
    <3> HIDE DEF t
    <3> QED BY <3>1, <3>2, <3>3
  <2> QED BY <2>1, <2>2
<1>13. PICK s : Ready(s) /\ st' = mut_collect_producer_stats(s, call.k * call.n)
  BY <1>6, <1>12
<1>14. K = Owns \ (Lost(res) \cup Got(res))
  BY DEF K
<1> QED BY <1>1, <1>3, <1>7, <1>13, <1>14, CountedGains

\* The function of a call that needed no handler returns; what free was run with
\* is gone by now.
LEMMA PlainCounted ==
    ASSUME Typed, Called, Taken, Kempt, Ledger, Peaks, Counted, PlainReturns
    PROVE  Counted'
<1>1. /\ pc = "exit" /\ h.path = "plain" /\ Continues(res) /\ UNCHANGED st /\ res \in Nat
      /\ Running /\ pc' = "target"
  BY DEF PlainReturns, Running, Typed, Continues
<1>2. call.fn \in {"usage", "free", "cfree"}
  <2>1. call.fn # "realloc"
    BY <1>1 DEF Ledger, FreeingKept
  <2> QED BY <1>1, <2>1 DEF Taken
<1>3. Got(res) = {} /\ Held = Owns \ Lost(res) /\ Freeing' = FALSE
  BY <1>1, <1>2 DEF Got, Lost, Held, Freeing, Running, Owns
<1>4. Levels(st') = <<Sum(prog.owned, Held), Cardinality(Held), prog.peakSpace, prog.peakCount>>
  BY <1>1 DEF Counted, Levels
<1> QED BY <1>1, <1>3, <1>4, CountedReturns

\* Only going on changes what the program owns and its peaks.
LEMMA OwnsOrContinues ==
    ASSUME Typed, [Next]_vars
    PROVE  \/ /\ prog'.owned = prog.owned /\ prog'.peakSpace = prog.peakSpace
              /\ prog'.peakCount = prog.peakCount
           \/ \E r \in Nat : Continues(r)
<1>1. 0 \in Nat /\ res \in Nat /\ ObjectAddr(res) \in Nat
  BY DEF Typed, ObjectAddr, mut_zone_size
<1>2. CASE UNCHANGED prog
  BY <1>2
<1>3. CASE ProgramStep
  <2>1. \/ \E fn, p, k, n : TargetCalls(fn, p, k, n)
        \/ \E p, w : TargetOverruns(p, w)
    BY <1>3 DEF ProgramStep
  <2> QED
    BY <2>1 DEF TargetCalls, TargetOverruns, Typed
<1>4. CASE MutStep
  <2>1. CASE mut_malloc_failure \/ mut_calloc_failure
    BY <1>1, <2>1 DEF mut_malloc_failure, mut_calloc_failure, AllocationFails
  <2>2. CASE mut_malloc_success \/ mut_calloc_success
    BY <1>1, <2>2 DEF mut_malloc_success, mut_calloc_success, AllocationSucceeds
  <2>3. CASE mut_realloc_malloc \/ mut_realloc_malloc_no_free
    BY <1>1, <2>3 DEF mut_realloc_malloc, mut_realloc_malloc_no_free, ReallocMakes
  <2>4. CASE FreeUnallocated \/ FreeFreed \/ FreeAvailable
    BY <1>1, <2>4 DEF FreeUnallocated, FreeFreed, FreeAvailable, FreeOrSkip
  <2>5. CASE mut_realloc_realloc \/ mut_realloc_realloc_no_free \/ PlainReturns
    BY <1>1, <2>5 DEF mut_realloc_realloc, mut_realloc_realloc_no_free, PlainReturns
  <2>6. CASE \/ mut_do_malloc \/ mut_do_calloc \/ FreeNull \/ ReallocNull \/ ReallocUnallocated
             \/ ReallocAllocated \/ mut_realloc_failure \/ mut_do_usage \/ RequestFails
             \/ FailureLosesBacktrace \/ mut_close
    BY <2>6 DEF mut_do_malloc, mut_do_calloc, FreeNull, ReallocNull, ReallocUnallocated,
       ReallocAllocated, mut_realloc_failure, mut_do_usage, RequestFails,
       FailureLosesBacktrace, mut_close
  <2> QED
    BY <1>4, <2>1, <2>2, <2>3, <2>4, <2>5, <2>6 DEF MutStep
<1> QED
  BY <1>2, <1>3, <1>4 DEF Next, TargetActs, vars

LEMMA CountedStep ==
    ASSUME Typed, Called, Taken, Taken', Kempt, Ledger, Sane, Peaks, Counted, On("stats"),
           ~Ended, ~Ended', [Next]_vars
    PROVE  Counted'
<1>1. pc' \notin {"failed", "aborted", "closed"}
  BY DEF Ended
<1>2. CASE UNCHANGED vars
  <2>1. UNCHANGED <<pc, call, h, st, prog>>
    BY <1>2 DEF vars
  <2> QED
    BY <2>1 DEF Counted, Held, Freeing, Running
<1>3. CASE MutStep
  <2>1. CASE mut_malloc_failure \/ mut_calloc_failure
    BY <2>1, FailsCounted
  <2>2. CASE \/ mut_malloc_success \/ mut_calloc_success \/ mut_realloc_malloc
             \/ mut_realloc_malloc_no_free
    BY <2>2, SucceedsCounted
  <2>3. CASE \/ mut_do_malloc \/ mut_do_calloc \/ FreeNull \/ ReallocNull
             \/ ReallocUnallocated \/ ReallocAllocated \/ mut_do_usage
    <3>1. pc = "call"
      BY <2>3 DEF mut_do_malloc, mut_do_calloc, FreeNull, ReallocNull, ReallocUnallocated,
         ReallocAllocated, mut_do_usage, IsConsumer, IsRealloc
    <3> QED BY <2>3, <3>1, EntryCounted
  <2>4. CASE FreeUnallocated \/ FreeFreed
    BY <2>4, FreeCounted
  <2>5. CASE FreeAvailable
    BY <1>1, <2>5, FreeAvailableCounted
  <2>6. CASE mut_realloc_realloc \/ mut_realloc_realloc_no_free
    BY <1>1, <2>6, ReallocCounted
  <2>7. CASE PlainReturns
    BY <2>7, PlainCounted
  <2>8. ~(mut_realloc_failure \/ RequestFails \/ FailureLosesBacktrace \/ mut_close)
    BY <1>1 DEF mut_realloc_failure, RequestFails, FailureLosesBacktrace, mut_close, GiveUp
  <2> QED
    BY <1>3, <2>1, <2>2, <2>3, <2>4, <2>5, <2>6, <2>7, <2>8 DEF MutStep
<1>4. CASE ProgramStep
  <2>1. \/ \E fn, p, k, n : TargetCalls(fn, p, k, n)
        \/ \E p, w : TargetOverruns(p, w)
    BY <1>4 DEF ProgramStep
  <2>2. /\ st' = st /\ prog'.owned = prog.owned /\ prog'.peakSpace = prog.peakSpace
        /\ prog'.peakCount = prog.peakCount /\ pc = "target" /\ pc' \in {"target", "call"}
    BY <2>1 DEF TargetCalls, TargetOverruns, Typed
  <2>3. Held' = Held
    BY <2>2 DEF Held, Freeing, Running
  <2> QED
    BY <2>2, <2>3, CountedSame
<1>5. CASE TargetActs
  <2>1. UNCHANGED <<st, prog, call, h>> /\ pc = "act" /\ pc' = "exit"
    BY <1>5 DEF TargetActs
  <2> QED
    BY <2>1 DEF Counted, Held, Freeing, Running
<1> QED
  BY <1>2, <1>3, <1>4, <1>5 DEF Next

LEMMA TalliedStep ==
    ASSUME IInv, IInv', Tallied, [Next]_vars
    PROVE  Tallied'
<1>1. Typed /\ Called /\ Taken /\ Taken'
  BY DEF IInv
<1>2. Peaks'
  <2>1. CASE \E r \in Nat : Continues(r)
    BY <1>1, <2>1, ContinuesPeaks DEF Tallied
  <2>2. CASE /\ prog'.owned = prog.owned /\ prog'.peakSpace = prog.peakSpace
             /\ prog'.peakCount = prog.peakCount
    BY <2>2 DEF Tallied, Peaks, Owns
  <2> QED
    BY <1>1, <2>1, <2>2, OwnsOrContinues
<1>3. ASSUME Sane', On("stats")', ~Ended' PROVE Counted'
  <2>1. UNCHANGED flags /\ (heap.corrupt => heap'.corrupt)
    BY <1>1, StaysDamaged
  <2>2. Sane /\ On("stats")
    BY <1>3, <2>1 DEF Sane, Undamaged, Sized, On
  <2>3. ~Ended
    <3>1. UNCHANGED vars => (Ended => Ended')
      BY DEF vars, Ended
    <3> QED
      BY <1>3, <3>1, EndedStays
  <2>4. Kempt /\ Ledger
    BY <2>2, <2>3 DEF IInv, Lists, Kept, Sane, Books
  <2> QED
    BY <1>1, <1>3, <2>2, <2>3, <2>4, CountedStep DEF Tallied
<1> QED
  BY <1>2, <1>3 DEF Tallied

LEMMA InitTallied == Init => Tallied
<1> SUFFICES ASSUME Init PROVE Tallied
  OBVIOUS
<1>1. /\ prog.owned = <<>> /\ prog.peakSpace = 0 /\ prog.peakCount = 0
      /\ st.now.space = 0 /\ st.now.count = 0 /\ st.maxSpace.space = 0 /\ st.maxCount.count = 0
  BY DEF Init, NoUsage
<1>2. DOMAIN prog.owned = {}
  BY <1>1
<1>3. Sum(prog.owned, {}) = 0 /\ Cardinality({}) = 0 /\ IsFiniteSet({})
  BY SumEmpty, FS_EmptySet
<1>4. Held = {} /\ Owns = {}
  BY <1>2 DEF Held, Owns
<1> QED
  BY <1>1, <1>3, <1>4 DEF Tallied, Peaks, Counted

\* The statistics follow the program.
THEOREM TalliedHolds == Spec => [](IInv /\ Tallied)
<1>1. IInv /\ Tallied /\ [Next]_vars => (IInv /\ Tallied)'
  BY StepHolds, TalliedStep
<1> QED
  BY <1>1, InitHolds, InitTallied, PTL DEF Spec

\* Whatever calls, failures and faults led here, alloc.now counts what the
\* program holds, and the two maxima are the most it ever held.
THEOREM StatsMatchHolds == ASSUME Sensible PROVE Spec => []StatsMatch
<1>1. IInv /\ Tallied => StatsMatch
  <2> SUFFICES ASSUME IInv, Tallied, pc = "target", On("stats"), Undamaged
               PROVE  /\ st.now.space = Space(prog.owned)
                      /\ st.now.count = Cardinality(DOMAIN prog.owned)
                      /\ st.maxSpace.space = prog.peakSpace
                      /\ st.maxCount.count = prog.peakCount
    BY DEF StatsMatch
  <2>1. Sane
    BY AlwaysSane
  <2>2. Counted
    BY <2>1 DEF Tallied, Ended
  <2>3. Held = DOMAIN prog.owned
    BY DEF Held, Freeing, Running
  <2> QED
    BY <2>2, <2>3, SpaceIs DEF Counted
<1> QED
  BY <1>1, TalliedHolds, PTL

-----------------------------------------------------------------------------
(* the zones *)

\* With -c the program does not use realloc, which neither checks nor installs
\* all the zones it should, nor calloc for a size of whole words, whose second
\* zone is not where it is looked for.
Covered ==
    On("check") => /\ "realloc" \notin Function
                   /\ \A c \in CallocShape : (c[1] * c[2]) % mut_zone_size # 0

\* Around an object of n bytes at p are two zones, and nothing else in its
\* block; and both hold their value exactly as long as the program has not
\* written there.
Fenced(p, n) ==
    /\ p - mut_zone_size \in Base
    /\ heap.block[p - mut_zone_size] = WholeWords(n) + 2 * mut_zone_size
    /\ (p - mut_zone_size \in heap.zoned /\ p + WholeWords(n) \in heap.zoned)
         <=> p \notin prog.overrun

ZonesKept == \A p \in DOMAIN prog.owned : Fenced(p, prog.owned[p])

Zoned == Sane /\ On("check") /\ Covered /\ ~Ended => ZonesKept

\* What was reported of the call, with -c.
Said ==
    Sane /\ On("check") /\ Covered =>
      /\ pc = "call" => report.fault = "none"
      /\ pc \in {"target", "act", "exit"} => report.fault = call.expect
      /\ report.fault \in {"FUM", "FFM", "WUM"} => report.fault = call.expect

-----------------------------------------------------------------------------
\* The words of calloc for one that is no multiple of a word.
LEMMA ZonedCalloc ==
    ASSUME NEW c, c.k \in Nat, c.n \in Nat, c.k * c.n < WordMod,
           (c.k * c.n) % mut_zone_size # 0
    PROVE  n_zones(c) * mut_zone_size = WholeWords(c.k * c.n) + 2 * mut_zone_size
<1> DEFINE m == c.k * c.n
<1>1. m \in Nat /\ calloc_size(c) = m /\ m % 4 # 0
  BY CallocSize DEF mut_zone_size
<1>2. n_zones(c) = m \div 4 + 3 /\ WholeWords(m) = ((m + 3) \div 4) * 4
  BY <1>1 DEF n_zones, WholeWords, mut_zone_size
<1> HIDE DEF m
<1>3. (m + 3) \div 4 = m \div 4 + 1
  BY <1>1
<1>4. m \div 4 \in Nat
  BY <1>1
<1>5. n_zones(c) * mut_zone_size = WholeWords(m) + 2 * mut_zone_size
  BY <1>2, <1>3, <1>4 DEF mut_zone_size
<1> QED
  BY <1>5 DEF m

\* Different blocks are more than a word apart.
LEMMA BlocksApart ==
    ASSUME NEW b \in Base, NEW c \in Base, b # c, NEW x \in Int, b <= x, x <= b + MaxBlock
    PROVE  x + mut_zone_size < c \/ c + MaxBlock + mut_zone_size < x
<1>1. b \in Nat /\ c \in Nat /\ MaxBlock \in Nat
  BY Inputs
<1>2. /\ b < c => b + MaxBlock + mut_zone_size < c
      /\ c < b => c + MaxBlock + mut_zone_size < b
  BY HeapAssumption
<1> QED
  BY <1>1, <1>2 DEF mut_zone_size

\* The zones lie in the block of their object.
LEMMA InsideBlock ==
    ASSUME Typed, NEW p \in Nat, NEW n \in Nat, Fenced(p, n),
           NEW b, b = p - mut_zone_size
    PROVE  /\ b \in Base /\ b \in Live /\ b \in Nat /\ p = b + mut_zone_size
           /\ heap.block[b] \in 0..MaxBlock /\ MaxBlock \in Nat
           /\ WholeWords(n) \in Nat /\ n <= WholeWords(n)
           /\ WholeWords(n) + 2 * mut_zone_size = heap.block[b]
           /\ WholeWords(n) + 2 * mut_zone_size < WordMod
<1>1. b \in Base /\ heap.block[b] = WholeWords(n) + 2 * mut_zone_size
  BY DEF Fenced
<1>2. WholeWords(n) \in Nat /\ n <= WholeWords(n)
  BY WholeWordsIs
<1>3. heap.block[b] \in 0..MaxBlock \cup {-1}
  BY <1>1 DEF Typed, HeapSet, Unallocated
<1>4. b \in Nat /\ MaxBlock \in Nat /\ WordMod \in Nat /\ MaxBlock < WordMod
  BY <1>1, Inputs, HeapAssumption
<1>5. heap.block[b] \in 0..MaxBlock
  BY <1>1, <1>2, <1>3 DEF mut_zone_size
<1>6. b \in Live
  BY <1>1, <1>4, <1>5 DEF Live, Unallocated
<1> QED
  BY <1>1, <1>2, <1>4, <1>5, <1>6 DEF mut_zone_size

\* The zone words change only near the block at c.
Near(c) ==
    \A z \in Int : z + mut_zone_size < c \/ c + MaxBlock + mut_zone_size < z
                     => (z \in heap'.zoned <=> z \in heap.zoned)

LEMMA FencedElsewhere ==
    ASSUME Typed, NEW p \in Nat, NEW n \in Nat, Fenced(p, n),
           NEW c \in Base, c # p - mut_zone_size, Near(c),
           heap'.block[p - mut_zone_size] = heap.block[p - mut_zone_size],
           p \in prog'.overrun <=> p \in prog.overrun
    PROVE  Fenced(p, n)'
<1> DEFINE b == p - mut_zone_size
           z == p + WholeWords(n)
<1>1. PICK b1 : b1 = b
  OBVIOUS
<1>2. /\ b1 \in Base /\ b1 \in Nat /\ p = b1 + mut_zone_size /\ MaxBlock \in Nat
      /\ heap.block[b1] \in 0..MaxBlock /\ WholeWords(n) \in Nat
      /\ WholeWords(n) + 2 * mut_zone_size = heap.block[b1]
  BY <1>1, InsideBlock
<1>3. b \in Int /\ z \in Int /\ b1 <= b /\ b <= b1 + MaxBlock /\ b1 <= z /\ z <= b1 + MaxBlock
  BY <1>1, <1>2 DEF mut_zone_size
<1>4. b1 # c
  BY <1>1
<1> HIDE DEF b, z
<1>5. b + mut_zone_size < c \/ c + MaxBlock + mut_zone_size < b
  BY ONLY <1>2, <1>3, <1>4, BlocksApart
<1>6. z + mut_zone_size < c \/ c + MaxBlock + mut_zone_size < z
  BY ONLY <1>2, <1>3, <1>4, BlocksApart
<1>7. /\ b \in heap'.zoned <=> b \in heap.zoned
      /\ z \in heap'.zoned <=> z \in heap.zoned
  BY <1>3, <1>5, <1>6 DEF Near
<1> QED
  BY <1>7 DEF Fenced, b, z

\* What the program had, it still has, and nothing was written.
LEMMA ZonesSame ==
    ASSUME ZonesKept, heap' = heap,
           \A p \in DOMAIN prog'.owned :
              /\ p \in DOMAIN prog.owned /\ prog'.owned[p] = prog.owned[p]
              /\ p \in prog'.overrun <=> p \in prog.overrun
    PROVE  ZonesKept'
<1> SUFFICES ASSUME NEW p \in DOMAIN prog'.owned PROVE Fenced(p, prog.owned[p])'
  BY DEF ZonesKept
<1>1. Fenced(p, prog.owned[p])
  BY DEF ZonesKept
<1> QED
  BY <1>1 DEF Fenced

LEMMA ContinuesOverrun ==
    ASSUME Typed, NEW r, Continues(r)
    PROVE  prog'.overrun = prog.overrun \ (Lost(r) \cup Got(r))
<1>1. \E owned, space, count :
         prog' = [prog EXCEPT !.owned = owned, !.freed = (@ \cup Lost(r)) \ Got(r),
                              !.overrun = @ \ (Lost(r) \cup Got(r)),
                              !.peakSpace = space, !.peakCount = count]
  BY ZenonT(40) DEF Continues, Lost, Got
<1> QED
  BY <1>1 DEF Typed

\* The program goes on without a new object.
LEMMA ZonesReturn ==
    ASSUME Typed, ZonesKept, NEW r \in Nat, Continues(r), Got(r) = {}, heap' = heap
    PROVE  ZonesKept'
<1>1. /\ DOMAIN prog'.owned = DOMAIN prog.owned \ Lost(r)
      /\ \A q \in DOMAIN prog.owned \ Lost(r) : prog'.owned[q] = prog.owned[q]
      /\ prog'.overrun = prog.overrun \ Lost(r)
  BY ContinuesIs, ContinuesOverrun
<1> QED
  BY <1>1, ZonesSame

\* What is written within a block changes no zone of another.
LEMMA WriteNear ==
    ASSUME Typed, NEW c \in Base, NEW a \in Int, NEW n \in Nat,
           c <= a, a + n <= c + MaxBlock, heap' = Write(heap, a, n)
    PROVE  Near(c)
<1>1. heap'.zoned = {w \in heap.zoned : w + mut_zone_size <= a \/ a + n <= w}
  BY DEF Write, Typed, HeapSet
<1>2. c \in Nat /\ MaxBlock \in Nat
  BY Inputs
<1>3. ASSUME NEW z \in Int, z + mut_zone_size < c \/ c + MaxBlock + mut_zone_size < z
      PROVE  z \in heap'.zoned <=> z \in heap.zoned
  <2>1. z + mut_zone_size <= a \/ a + n <= z
    BY <1>2, <1>3 DEF mut_zone_size
  <2> QED
    BY <1>1, <2>1
<1> QED
  BY <1>3 DEF Near

LEMMA InstallNear ==
    ASSUME Typed, On("check"), NEW c \in Base, NEW n \in Int, 0 <= n - mut_zone_size, n <= MaxBlock,
           heap' = mut_install_check_zones(heap, c, n)
    PROVE  /\ Near(c)
           /\ c \in heap'.zoned /\ c + n - mut_zone_size \in heap'.zoned
<1> DEFINE w == c + n - mut_zone_size
<1>1. heap'.zoned = heap.zoned \cup {c, w}
  <2>1. heap' = WriteZone(WriteZone(heap, c), w)
    BY DEF mut_install_check_zones
  <2> HIDE DEF w
  <2> QED
    BY <2>1 DEF WriteZone, Typed, HeapSet
<1>2. c \in Nat /\ MaxBlock \in Nat /\ c <= w /\ w <= c + MaxBlock /\ w \in Int
  BY Inputs DEF mut_zone_size
<1> HIDE DEF w
<1>3. ASSUME NEW z \in Int, z + mut_zone_size < c \/ c + MaxBlock + mut_zone_size < z
      PROVE  z # c /\ z # w
  BY <1>2, <1>3 DEF mut_zone_size
<1>4. Near(c)
  BY <1>1, <1>3 DEF Near
<1> QED
  BY <1>1, <1>4 DEF w

\* A block that is given out.
LEMMA ZonesAllocated ==
    ASSUME Typed, ZonesKept, Undamaged, UNCHANGED prog, NEW n \in Nat, Allocates(n)
    PROVE  ZonesKept'
<1>1. CASE heap' = heap
  BY <1>1, ZonesSame
<1>2. CASE n <= MaxBlock /\ \E b \in Base : b \notin Live /\ heap' = Allocated(heap, b, n)
  <2>1. PICK c \in Base : c \notin Live /\ heap' = Allocated(heap, c, n)
    BY <1>2
  <2>2. n \in 0..MaxBlock /\ c \in Nat /\ MaxBlock \in Nat
    BY <1>2, Inputs
  <2>3. heap'.zoned = {w \in heap.zoned : w < c \/ w > c + MaxBlock}
    BY <2>1 DEF Allocated, Typed, HeapSet
  <2>4. heap'.block = [heap.block EXCEPT ![c] = n]
    BY <2>1, <2>2, AllocatedIs DEF Typed
  <2>5. Near(c)
    <3>1. ASSUME NEW z \in Int, z + mut_zone_size < c \/ c + MaxBlock + mut_zone_size < z
          PROVE  z \in heap'.zoned <=> z \in heap.zoned
      <4>1. z < c \/ z > c + MaxBlock
        BY <2>2, <3>1 DEF mut_zone_size
      <4> QED
        BY <2>3, <4>1
    <3> QED
      BY <3>1 DEF Near
  <2> SUFFICES ASSUME NEW p \in DOMAIN prog'.owned PROVE Fenced(p, prog.owned[p])'
    BY DEF ZonesKept
  <2>6. PICK k : k = prog.owned[p]
    OBVIOUS
  <2>7. p \in Nat /\ k \in Nat /\ Fenced(p, k)
    BY <2>6 DEF ZonesKept, Typed
  <2>8. p - mut_zone_size \in Base /\ p - mut_zone_size \in Live
    BY <2>7, InsideBlock
  <2>9. c # p - mut_zone_size
    BY <2>1, <2>8
  <2>10. heap'.block[p - mut_zone_size] = heap.block[p - mut_zone_size]
    BY <2>4, <2>8, <2>9 DEF Typed, HeapSet
  <2>11. Fenced(p, k)'
    BY <2>5, <2>7, <2>9, <2>10, FencedElsewhere
  <2> QED
    BY <2>6, <2>11
<1> QED
  BY <1>1, <1>2 DEF Allocates, Undamaged

\* The program writes on a zone.
LEMMA ZonesOverrun ==
    ASSUME Typed, ZonesKept, NEW p \in DOMAIN prog.owned, NEW w \in Outside(p),
           TargetOverruns(p, w)
    PROVE  ZonesKept'
<1>1. PICK n : n = prog.owned[p]
  OBVIOUS
<1>2. p \in Nat /\ n \in Nat /\ Fenced(p, n)
  BY <1>1 DEF ZonesKept, Typed
<1>3. PICK c : c = p - mut_zone_size
  OBVIOUS
<1>4. /\ c \in Base /\ c \in Nat /\ p = c + mut_zone_size
      /\ heap.block[c] \in 0..MaxBlock /\ MaxBlock \in Nat
      /\ WholeWords(n) \in Nat /\ WholeWords(n) + 2 * mut_zone_size = heap.block[c]
  BY <1>2, <1>3, InsideBlock
<1>5. w \in {p - mut_zone_size, p + WholeWords(n)}
  BY <1>1 DEF Outside, WholeWords
<1>6. w \in Int /\ c <= w /\ w + mut_zone_size <= c + MaxBlock
  BY <1>4, <1>5 DEF mut_zone_size
<1>7. /\ heap' = Write(heap, w, mut_zone_size)
      /\ prog'.owned = prog.owned /\ prog'.overrun = prog.overrun \cup {p}
  BY DEF TargetOverruns, Typed
<1>8. heap'.block = heap.block /\ w \notin heap'.zoned
  <2>1. heap'.block = heap.block
    BY <1>7, WriteIs DEF Typed
  <2>2. heap'.zoned = {x \in heap.zoned : x + mut_zone_size <= w \/ w + mut_zone_size <= x}
    BY <1>7 DEF Write, Typed, HeapSet
  <2>3. ~(w + mut_zone_size <= w)
    BY <1>6 DEF mut_zone_size
  <2> QED
    BY <2>1, <2>2, <2>3
<1>9. Near(c)
  <2>1. mut_zone_size \in Nat
    BY DEF mut_zone_size
  <2> QED
    BY <1>4, <1>6, <1>7, <2>1, WriteNear
<1>10. Fenced(p, n)'
  BY <1>2, <1>5, <1>7, <1>8 DEF Fenced
<1> SUFFICES ASSUME NEW q \in DOMAIN prog'.owned PROVE Fenced(q, prog.owned[q])'
  BY DEF ZonesKept
<1>11. CASE q = p
  BY <1>1, <1>7, <1>10, <1>11
<1>12. CASE q # p
  <2>1. PICK k : k = prog.owned[q]
    OBVIOUS
  <2>2. q \in Nat /\ k \in Nat /\ Fenced(q, k)
    BY <1>7, <2>1 DEF ZonesKept, Typed
  <2>3. c # q - mut_zone_size
    BY <1>2, <1>3, <1>12, <2>2 DEF mut_zone_size
  <2>4. q \in prog'.overrun <=> q \in prog.overrun
    BY <1>7, <1>12
  <2>5. Fenced(q, k)'
    BY <1>4, <1>8, <1>9, <2>2, <2>3, <2>4, FencedElsewhere
  <2> QED
    BY <1>7, <2>1, <2>5
<1> QED
  BY <1>11, <1>12

\* An object of malloc or calloc gets its zones.
LEMMA ZonesMade ==
    ASSUME Typed, Called, Taken, Kempt, Ledger, Sane, On("check"), Covered, ZonesKept,
           mut_malloc_success \/ mut_calloc_success, pc' # "failed"
    PROVE  ZonesKept'
<1>1. /\ pc = "exit" /\ res # 0 /\ h.path \in {"malloc", "calloc"} /\ Running /\ Working
      /\ heap' = mut_install_check_zones(heap, res, arg.k * arg.n)
      /\ Continues(ObjectAddr(res))
  BY DEF mut_malloc_success, mut_calloc_success, AllocationSucceeds, GiveUp, Running, Working
<1>2. /\ res \in Live /\ res \in Nat /\ heap.block[res] = arg.k * arg.n
      /\ heap.block[res] \in 0..MaxBlock
  BY <1>1, Fetched
<1>3. PICK n : n = call.k * call.n
  OBVIOUS
<1>4. n \in Nat /\ WordMod \in Nat /\ call.k \in Nat /\ call.n \in Nat /\ MaxBlock \in Nat
  BY <1>3, Inputs, HeapAssumption DEF Typed
<1>5. arg.k * arg.n = WholeWords(n) + 2 * mut_zone_size /\ call.fn \in {"malloc", "calloc"}
  <2>1. CASE h.path = "malloc"
    <3>1. call.fn = "malloc" /\ arg.k = 1 /\ arg.n = mut_round_up(call.n)
      BY <1>1, <2>1 DEF Taken, Given, Rounded
    <3>2. call.k = 1 /\ call.n \in MallocSize
      BY <1>1, <3>1 DEF Called
    <3>3. n = call.n /\ n + 3 * mut_zone_size <= WordMod
      BY <1>3, <1>4, <3>2 DEF Sane, Sized
    <3>4. WholeWords(n) + 2 * mut_zone_size < WordMod
      BY <1>4, <3>3, WholeWordsIs DEF mut_zone_size
    <3>5. mut_round_up(n) = WholeWords(n) + 2 * mut_zone_size /\ mut_round_up(n) \in Nat
      BY <1>4, <3>4, RoundedIs, RoundedUp
    <3> QED
      BY <3>1, <3>3, <3>5
  <2>2. CASE h.path = "calloc"
    <3>1. call.fn = "calloc" /\ arg.k = n_zones(call) /\ arg.n = mut_zone_size
      BY <1>1, <2>2 DEF Taken, Given
    <3>2. <<call.k, call.n>> \in CallocShape
      BY <1>1, <3>1 DEF Called
    <3>3. n < WordMod /\ n % mut_zone_size # 0
      BY <1>3, <3>2 DEF Sane, Sized, Covered
    <3>4. n_zones(call) * mut_zone_size = WholeWords(n) + 2 * mut_zone_size
      BY <1>3, <1>4, <3>3, ZonedCalloc
    <3> QED
      BY <3>1, <3>4
  <2> QED
    BY <1>1, <2>1, <2>2
<1>6. WholeWords(n) \in Nat
  BY <1>4, WholeWordsIs
<1>7. PICK m : m = arg.k * arg.n
  OBVIOUS
<1>8. m \in Int /\ m = WholeWords(n) + 2 * mut_zone_size /\ 0 <= m - mut_zone_size /\ m <= MaxBlock
  BY <1>2, <1>5, <1>6, <1>7 DEF mut_zone_size
<1>9. res \in Base
  BY <1>2 DEF Live
<1>10. Near(res) /\ res \in heap'.zoned /\ res + m - mut_zone_size \in heap'.zoned
  BY <1>1, <1>7, <1>8, <1>9, InstallNear
<1>11. heap'.block = heap.block
  <2>1. heap \in HeapSet /\ res \in Int
    BY <1>2 DEF Typed
  <2> QED
    BY <1>1, <1>7, <1>8, <2>1, InstallIs
<1>12. PICK a : a = ObjectAddr(res)
  OBVIOUS
<1>13. a = res + mut_zone_size /\ a \in Nat /\ a # 0 /\ Continues(a)
  BY <1>1, <1>2, <1>12 DEF ObjectAddr, mut_zone_size
<1>14. Lost(a) = {} /\ Got(a) = {a}
  BY <1>5, <1>13 DEF Lost, Got
<1>15. /\ DOMAIN prog'.owned = DOMAIN prog.owned \cup {a}
       /\ prog'.owned[a] = n
       /\ \A q \in DOMAIN prog.owned \ {a} : prog'.owned[q] = prog.owned[q]
       /\ prog'.overrun = prog.overrun \ {a}
  BY <1>3, <1>13, <1>14, ContinuesIs, ContinuesOverrun
<1>16. Fenced(a, n)'
  <2>1. a - mut_zone_size = res /\ a + WholeWords(n) = res + m - mut_zone_size
    BY <1>2, <1>6, <1>8, <1>13 DEF mut_zone_size
  <2>2. heap'.block[res] = WholeWords(n) + 2 * mut_zone_size
    BY <1>2, <1>5, <1>11
  <2>3. a \notin prog'.overrun
    BY <1>15
  <2> QED
    BY <1>9, <1>10, <2>1, <2>2, <2>3 DEF Fenced
<1> SUFFICES ASSUME NEW q \in DOMAIN prog'.owned PROVE Fenced(q, prog.owned[q])'
  BY DEF ZonesKept
<1>17. CASE q = a
  BY <1>15, <1>16, <1>17
<1>18. CASE q # a
  <2>1. PICK k : k = prog.owned[q]
    OBVIOUS
  <2>2. q \in DOMAIN prog.owned /\ prog'.owned[q] = k
    BY <1>15, <1>18, <2>1
  <2>3. q \in Nat /\ k \in Nat /\ Fenced(q, k)
    BY <2>1, <2>2 DEF ZonesKept, Typed
  <2>4. res # q - mut_zone_size
    BY <1>2, <1>13, <1>18, <2>3 DEF mut_zone_size
  <2>5. q \in prog'.overrun <=> q \in prog.overrun
    BY <1>15, <1>18
  <2>6. Fenced(q, k)'
    BY <1>9, <1>10, <1>11, <2>3, <2>4, <2>5, FencedElsewhere
  <2> QED
    BY <2>2, <2>6
<1> QED
  BY <1>17, <1>18

\* free of an object in use, whose memory may be zeroed.
LEMMA ZonesFreed ==
    ASSUME Typed, Called, Kempt, Ledger, Sane, On("check"), ZonesKept,
           FreeAvailable, pc' # "failed"
    PROVE  ZonesKept'
<1> DEFINE e == rs.elems[Obj]
<1>1. /\ pc = "call" /\ call.p # 0 /\ call.fn \in {"free", "cfree"} /\ FreeOrSkip /\ Obj # 0
      /\ ~mut_resources_resource_deleted(e)
      /\ heap' = Zero(heap, call.p, e.size)
  BY DEF FreeAvailable, IsConsumer, GiveUp
<1>2. PICK x : x = e
  OBVIOUS
<1>3. call.p \in DOMAIN prog.owned /\ prog.owned[call.p] = x.size /\ x \in Listed
  BY <1>1, <1>2, OwnedCall
<1>4. heap' = Zero(heap, call.p, x.size) /\ x.size \in Nat
  BY <1>1, <1>2, <1>3, ListedFields
<1> HIDE DEF e
<1>5. Continues(0)
  BY <1>1 DEF FreeOrSkip, Sane
<1>6. Lost(0) = {call.p} /\ Got(0) = {}
  BY <1>1, <1>3 DEF Lost, Got
<1>7. /\ DOMAIN prog'.owned = DOMAIN prog.owned \ {call.p}
      /\ \A q \in DOMAIN prog.owned \ {call.p} : prog'.owned[q] = prog.owned[q]
      /\ prog'.overrun = prog.overrun \ {call.p}
  <2>1. 0 \in Nat
    OBVIOUS
  <2> QED
    BY <1>5, <1>6, <2>1, ContinuesIs, ContinuesOverrun
<1>8. PICK n : n = x.size
  OBVIOUS
<1>9. PICK p : p = call.p
  OBVIOUS
<1>10. p \in Nat /\ n \in Nat /\ Fenced(p, n)
  BY <1>3, <1>4, <1>8, <1>9 DEF ZonesKept, Typed
<1>11. PICK c : c = p - mut_zone_size
  OBVIOUS
<1>12. /\ c \in Base /\ c \in Nat /\ p = c + mut_zone_size
       /\ heap.block[c] \in 0..MaxBlock /\ MaxBlock \in Nat
       /\ WholeWords(n) \in Nat /\ n <= WholeWords(n)
       /\ WholeWords(n) + 2 * mut_zone_size = heap.block[c]
  BY <1>10, <1>11, InsideBlock
<1>13. heap'.block = heap.block
  BY <1>4, ZeroIs DEF Typed
<1>14. Near(c)
  <2>1. CASE On("zero")
    <3>1. heap' = Write(heap, p, WholeWords(n))
      BY <1>4, <1>8, <1>9, <2>1 DEF Zero, mut_process_memset
    <3>2. p \in Int /\ c <= p /\ p + WholeWords(n) <= c + MaxBlock
      BY <1>10, <1>12 DEF mut_zone_size
    <3> QED
      BY <1>10, <1>12, <3>1, <3>2, WriteNear
  <2>2. CASE ~On("zero")
    BY <1>4, <2>2 DEF Zero, Near
  <2> QED
    BY <2>1, <2>2
<1> SUFFICES ASSUME NEW q \in DOMAIN prog'.owned PROVE Fenced(q, prog.owned[q])'
  BY DEF ZonesKept
<1>15. q \in DOMAIN prog.owned /\ q # p /\ prog'.owned[q] = prog.owned[q]
  BY <1>7, <1>9
<1>16. PICK k : k = prog.owned[q]
  OBVIOUS
<1>17. q \in Nat /\ k \in Nat /\ Fenced(q, k)
  BY <1>15, <1>16 DEF ZonesKept, Typed
<1>18. c # q - mut_zone_size
  BY <1>10, <1>11, <1>15, <1>17 DEF mut_zone_size
<1>19. q \in prog'.overrun <=> q \in prog.overrun
  BY <1>7, <1>9, <1>15
<1>20. Fenced(q, k)'
  BY <1>12, <1>13, <1>14, <1>17, <1>18, <1>19, FencedElsewhere
<1> QED
  BY <1>15, <1>16, <1>20

LEMMA ZonesStep ==
    ASSUME Typed, Called, Taken, Kempt, Ledger, Sane, On("check"), Covered, ZonesKept,
           ~Ended, ~Ended', [Next]_vars
    PROVE  ZonesKept'
<1>1. pc' \notin {"failed", "aborted", "closed"}
  BY DEF Ended
<1>2. Working => call.fn # "realloc" /\ call.fn \in Function
  BY DEF Called, Covered
<1>3. ~On("free") /\ Undamaged
  BY DEF Sane
<1>4. 0 \in Nat /\ res \in Nat
  BY DEF Typed
<1>5. ASSUME heap' = heap, prog' = prog PROVE ZonesKept'
  BY <1>5, ZonesSame
<1>6. CASE UNCHANGED vars
  BY <1>5, <1>6 DEF vars
<1>7. CASE ProgramStep
  <2>1. CASE \E fn, p, k, n : TargetCalls(fn, p, k, n)
    <3>1. heap' = heap /\ prog'.owned = prog.owned /\ prog'.overrun = prog.overrun
      BY <2>1 DEF TargetCalls, Typed
    <3> QED
      BY <3>1, ZonesSame
  <2>2. CASE \E p \in DOMAIN prog.owned : \E w \in Outside(p) : TargetOverruns(p, w)
    BY <2>2, ZonesOverrun
  <2> QED
    BY <1>7, <2>1, <2>2 DEF ProgramStep
<1>8. CASE TargetActs
  <2>1. pc = "act" /\ UNCHANGED prog /\ Running /\ Working
    BY <1>8 DEF TargetActs, Running, Working
  <2>2. CASE TargetAllocates
    <3>1. PICK n : Allocates(n) /\ (n = arg.k * arg.n \/ n = arg.n)
      BY <2>2 DEF TargetAllocates
    <3>2. n \in Nat
      BY <3>1 DEF Typed
    <3> QED
      BY <1>3, <2>1, <3>1, <3>2, ZonesAllocated
  <2>3. ~TargetReallocates
    BY <1>2, <2>1 DEF TargetReallocates
  <2>4. CASE TargetFrees
    <3>1. h.path = "plain" /\ arg.p = 0
      BY <1>3, <2>1, <2>4 DEF TargetFrees, Taken
    <3>2. 0 \notin Live
      <4>1. 0 \notin Base
        BY HeapAssumption
      <4> QED
        BY <4>1 DEF Live
    <3>3. heap' = heap
      BY <2>4, <3>1, <3>2 DEF TargetFrees
    <3> QED
      BY <1>5, <2>1, <3>3
  <2>5. CASE heap' = heap
    BY <1>5, <2>1, <2>5
  <2> QED
    BY <1>8, <2>2, <2>3, <2>4, <2>5 DEF TargetActs
<1>9. CASE MutStep
  <2>1. CASE mut_malloc_success \/ mut_calloc_success
    BY <1>1, <2>1, ZonesMade
  <2>2. CASE FreeAvailable
    BY <1>1, <2>2, ZonesFreed
  <2>3. CASE \/ mut_do_malloc \/ mut_do_calloc \/ FreeNull \/ mut_do_usage
    BY <1>5, <2>3 DEF mut_do_malloc, mut_do_calloc, FreeNull, mut_do_usage
  <2>4. CASE mut_malloc_failure \/ mut_calloc_failure
    <3>1. Continues(0) /\ heap' = heap
      BY <2>4 DEF mut_malloc_failure, mut_calloc_failure, AllocationFails
    <3>2. Got(0) = {}
      BY DEF Got
    <3> QED
      BY <1>4, <3>1, <3>2, ZonesReturn
  <2>5. CASE FreeUnallocated \/ FreeFreed
    <3>1. Continues(0) /\ heap' = heap
      BY <1>3, <2>5 DEF FreeUnallocated, FreeFreed, FreeOrSkip
    <3>2. Got(0) = {}
      BY DEF Got
    <3> QED
      BY <1>4, <3>1, <3>2, ZonesReturn
  <2>6. CASE PlainReturns
    <3>1. Continues(res) /\ heap' = heap /\ pc = "exit" /\ h.path = "plain" /\ Running
      BY <2>6 DEF PlainReturns, Running
    <3>2. call.fn \in {"usage", "free", "cfree"}
      BY <1>3, <3>1 DEF Taken
    <3>3. Got(res) = {}
      BY <3>2 DEF Got
    <3> QED
      BY <1>4, <3>1, <3>3, ZonesReturn
  <2>7. ~(\/ ReallocNull \/ ReallocUnallocated \/ ReallocAllocated)
    BY <1>2 DEF ReallocNull, ReallocUnallocated, ReallocAllocated, IsRealloc, Working
  <2>8. ~(\/ mut_realloc_malloc \/ mut_realloc_malloc_no_free \/ mut_realloc_realloc
          \/ mut_realloc_realloc_no_free)
    <3>1. Running => call.fn # "realloc"
      BY <1>2 DEF Running, Working
    <3>2. pc = "exit" /\ h.path \in {"realloc_malloc", "malloc_no_free", "realloc",
                                     "realloc_no_free"}
            => call.fn = "realloc"
      BY DEF Taken, Running
    <3> QED
      BY <3>1, <3>2 DEF mut_realloc_malloc, mut_realloc_malloc_no_free, mut_realloc_realloc,
         mut_realloc_realloc_no_free, ReallocMakes, Running
  <2>9. ~(mut_realloc_failure \/ RequestFails \/ FailureLosesBacktrace \/ mut_close)
    BY <1>1 DEF mut_realloc_failure, RequestFails, FailureLosesBacktrace, mut_close, GiveUp
  <2> QED
    BY <1>9, <2>1, <2>2, <2>3, <2>4, <2>5, <2>6, <2>7, <2>8, <2>9 DEF MutStep
<1> QED
  BY <1>6, <1>7, <1>8, <1>9 DEF Next

LEMMA ZonedStep ==
    ASSUME IInv, Zoned, [Next]_vars
    PROVE  Zoned'
<1>1. Typed /\ Called /\ Taken
  BY DEF IInv
<1> SUFFICES ASSUME Sane', On("check")', Covered', ~Ended' PROVE ZonesKept'
  BY DEF Zoned
<1>2. UNCHANGED flags /\ (heap.corrupt => heap'.corrupt)
  BY <1>1, StaysDamaged
<1>3. Sane /\ On("check") /\ Covered
  BY <1>2 DEF Sane, Undamaged, Sized, On, Covered
<1>4. ~Ended
  <2>1. UNCHANGED vars => (Ended => Ended')
    BY DEF vars, Ended
  <2> QED
    BY <2>1, EndedStays
<1>5. Kempt /\ Ledger
  BY <1>3, <1>4 DEF IInv, Lists, Kept, Sane, Books
<1> QED
  BY <1>1, <1>3, <1>4, <1>5, ZonesStep DEF Zoned

\* What the handler of free sees of the zones of an object is whether the
\* program has written there.
LEMMA ZonesTell ==
    ASSUME Typed, Called, Kempt, Ledger, On("check"), ZonesKept, FreeAvailable
    PROVE  /\ call.expect \in {"none", "WUM"}
           /\ mut_zone_check(call.p, rs.elems[Obj].size) <=> call.expect = "none"
<1> DEFINE e == rs.elems[Obj]
<1>1. /\ pc = "call" /\ call.p # 0 /\ call.fn \in {"free", "cfree"} /\ Obj # 0
      /\ ~mut_resources_resource_deleted(e)
  BY DEF FreeAvailable, IsConsumer
<1>2. PICK x : x = e
  OBVIOUS
<1>3. call.p \in DOMAIN prog.owned /\ prog.owned[call.p] = x.size /\ x \in Listed
  BY <1>1, <1>2, OwnedCall
<1>4. PICK n : n = x.size
  OBVIOUS
<1>5. PICK p : p = call.p
  OBVIOUS
<1>6. p \in Nat /\ n \in Nat /\ Fenced(p, n)
  BY <1>3, <1>4, <1>5 DEF ZonesKept, Typed
<1>7. WholeWords(n) \in Nat /\ WholeWords(n) + 2 * mut_zone_size < WordMod
  BY <1>6, InsideBlock
<1>8. mut_round_up(n) = WholeWords(n) + 2 * mut_zone_size
  BY <1>6, <1>7, RoundedIs
<1>9. (p - mut_zone_size) + mut_round_up(n) - mut_zone_size = p + WholeWords(n)
  BY <1>6, <1>7, <1>8 DEF mut_zone_size
<1>10. mut_zone_check(p, n) <=> p \notin prog.overrun
  BY <1>6, <1>9 DEF mut_zone_check, Fenced
<1>11. call.expect = IF p \in prog.overrun THEN "WUM" ELSE "none"
  BY <1>1, <1>3, <1>5 DEF Called, Working, Expected, Owned
<1> QED
  BY <1>2, <1>4, <1>5, <1>10, <1>11

\* What was said of the call stays said until the next one.
LEMMA SaidBefore ==
    ASSUME Typed, Said, Sane, On("check"), Covered, call' = call, report'.fault = report.fault,
           pc' # "call", pc \in {"target", "act", "exit"} \/ pc' \in {"failed", "aborted", "closed"}
    PROVE  Said'
<1>1. /\ pc \in {"target", "act", "exit"} => report.fault = call.expect
      /\ report.fault \in {"FUM", "FFM", "WUM"} => report.fault = call.expect
  BY DEF Said
<1> QED
  BY <1>1 DEF Said

\* The first half of a handler says what there is to say.
LEMMA EntrySaid ==
    ASSUME Typed, Called, Kempt, Ledger, ZonesKept, Said, Sane, On("check"), Covered, pc = "call",
           \/ mut_do_malloc \/ mut_do_calloc \/ mut_do_usage \/ FreeNull \/ FreeUnallocated
           \/ FreeFreed \/ FreeAvailable
    PROVE  Said'
<1>1. report.fault = "none"
  BY DEF Said
<1>2. call' = call
  BY DEF mut_do_malloc, mut_do_calloc, mut_do_usage, FreeNull, FreeUnallocated, FreeFreed,
     FreeAvailable
<1>3. CASE FreeAvailable
  <2>1. /\ call.expect \in {"none", "WUM"}
        /\ mut_zone_check(call.p, rs.elems[Obj].size) <=> call.expect = "none"
    BY <1>3, ZonesTell
  <2>2. CASE mut_zone_check(call.p, rs.elems[Obj].size)
    <3>1. report' = report /\ pc' \in {"act", "target"}
      <4>1. FreeOrSkip => pc' \in {"act", "target"}
        BY DEF FreeOrSkip, Continues
      <4> QED
        BY <1>3, <2>2, <4>1 DEF FreeAvailable
    <3> QED
      BY <1>1, <1>2, <2>1, <2>2, <3>1 DEF Said
  <2>3. CASE ~mut_zone_check(call.p, rs.elems[Obj].size)
    <3>1. mut_log_wum /\ pc' = "failed"
      BY <1>3, <2>3 DEF FreeAvailable, GiveUp
    <3>2. report'.fault = "WUM"
      BY <3>1 DEF mut_log_wum, Logs, Typed
    <3> QED
      BY <1>2, <2>1, <2>3, <3>1, <3>2 DEF Said
  <2> QED
    BY <2>2, <2>3
<1>4. ASSUME ~FreeAvailable PROVE pc' \in {"act", "target"}
  <2>1. FreeOrSkip => pc' \in {"act", "target"}
    BY DEF FreeOrSkip, Continues
  <2> QED
    BY <1>4, <2>1 DEF mut_do_malloc, mut_do_calloc, mut_do_usage, FreeNull, FreeUnallocated,
       FreeFreed, EnterAction
<1>5. ASSUME ~FreeAvailable, report'.fault = call.expect PROVE Said'
  BY <1>2, <1>4, <1>5 DEF Said
<1>6. CASE ~FreeAvailable /\ (mut_do_malloc \/ mut_do_calloc \/ mut_do_usage \/ FreeNull)
  <2>1. report' = report /\ (call.fn \in {"malloc", "calloc", "usage"} \/ call.p = 0)
    BY <1>6 DEF mut_do_malloc, mut_do_calloc, mut_do_usage, FreeNull
  <2>2. call.expect = "none"
    BY <2>1 DEF Called, Working, Expected
  <2> QED
    BY <1>1, <1>5, <1>6, <2>1, <2>2
<1>7. CASE ~FreeAvailable /\ FreeUnallocated
  <2>1. /\ report'.fault = "FUM" /\ call.p # 0 /\ call.fn \in {"free", "cfree"}
        /\ At(rs, call.p) = {}
    BY <1>7 DEF FreeUnallocated, IsConsumer, mut_log_fum, Logs, Typed
  <2> QED
    BY <1>5, <1>7, <2>1, StrayCall
<1>8. CASE ~FreeAvailable /\ FreeFreed
  <2>1. /\ report'.fault = "FFM" /\ call.p # 0 /\ call.fn \in {"free", "cfree"}
        /\ Obj # 0 /\ mut_resources_resource_deleted(rs.elems[Obj])
    BY <1>8 DEF FreeFreed, IsConsumer, mut_log_ffm, Logs, Typed
  <2> QED
    BY <1>5, <1>8, <2>1, FreedCall
<1> QED
  BY <1>3, <1>6, <1>7, <1>8

LEMMA SaidStep ==
    ASSUME IInv, Zoned, Said, [Next]_vars
    PROVE  Said'
<1>1. Typed /\ Called /\ Taken
  BY DEF IInv
<1>2. UNCHANGED flags /\ (heap.corrupt => heap'.corrupt)
  BY <1>1, StaysDamaged
<1> SUFFICES ASSUME Sane', On("check")', Covered' PROVE Said'
  BY DEF Said
<1>3. Sane /\ On("check") /\ Covered
  BY <1>2 DEF Sane, Undamaged, Sized, On, Covered
<1>4. Kempt /\ (~Ended => Ledger /\ ZonesKept)
  BY <1>3 DEF IInv, Lists, Kept, Sane, Books, Zoned
<1>5. Working => call.fn # "realloc"
  BY <1>1, <1>3 DEF Called, Covered
<1>6. CASE UNCHANGED vars
  <2>1. UNCHANGED <<pc, call, report>>
    BY <1>6 DEF vars
  <2> QED
    BY <1>3, <2>1 DEF Said
<1>7. CASE ProgramStep
  <2>1. CASE \E fn, p, k, n : TargetCalls(fn, p, k, n)
    BY <2>1 DEF TargetCalls, NoReport, Said
  <2>2. CASE \E p, w : TargetOverruns(p, w)
    <3>1. pc' = "target" /\ report'.fault = "none"
      BY <2>2 DEF TargetOverruns, NoReport
    <3>2. call'.expect = "none"
      BY <1>1, <2>2 DEF TargetOverruns, Typed
    <3> QED
      BY <3>1, <3>2 DEF Said
  <2> QED
    BY <1>7, <2>1, <2>2 DEF ProgramStep
<1>8. CASE TargetActs
  BY <1>1, <1>3, <1>8, SaidBefore DEF TargetActs
<1>9. CASE MutStep
  <2>1. CASE \/ mut_do_malloc \/ mut_do_calloc \/ mut_do_usage \/ FreeNull \/ FreeUnallocated
             \/ FreeFreed \/ FreeAvailable
    <3>1. pc = "call"
      BY <2>1 DEF mut_do_malloc, mut_do_calloc, mut_do_usage, FreeNull, FreeUnallocated,
         FreeFreed, FreeAvailable, IsConsumer
    <3> QED
      BY <1>1, <1>3, <1>4, <2>1, <3>1, EntrySaid DEF Ended
  <2>2. CASE mut_malloc_failure \/ mut_calloc_failure \/ mut_realloc_failure
    <3>1. /\ pc = "exit" /\ pc' \in {"target", "failed"} /\ call' = call
          /\ \E w : report' = [report EXCEPT !.warning = w]
      BY <2>2 DEF mut_malloc_failure, mut_calloc_failure, mut_realloc_failure, AllocationFails,
         GiveUp, Continues
    <3>2. report'.fault = report.fault
      BY <1>1, <3>1 DEF Typed
    <3> QED
      BY <1>1, <1>3, <3>1, <3>2, SaidBefore
  <2>3. CASE mut_malloc_success \/ mut_calloc_success
    <3>1. /\ pc = "exit" /\ pc' \in {"target", "failed"} /\ call' = call
          /\ \/ report' = report
             \/ pc' = "failed" /\ \E f \in {"MMM", "CMM"} : Logs(f)
      BY <2>3 DEF mut_malloc_success, mut_calloc_success, AllocationSucceeds, GiveUp, Continues
    <3>2. CASE report' = report
      BY <1>1, <1>3, <3>1, <3>2, SaidBefore
    <3>3. CASE pc' = "failed" /\ \E f \in {"MMM", "CMM"} : Logs(f)
      <4>1. report'.fault \in {"MMM", "CMM"}
        BY <1>1, <3>3 DEF Logs, Typed
      <4> QED
        BY <3>3, <4>1 DEF Said
    <3> QED
      BY <3>1, <3>2, <3>3
  <2>4. CASE \/ mut_realloc_malloc \/ mut_realloc_malloc_no_free \/ mut_realloc_realloc
             \/ mut_realloc_realloc_no_free
    <3>1. /\ pc = "exit" /\ pc' \in {"target", "aborted"} /\ call' = call
          /\ report' = report \/ \E w : report' = [report EXCEPT !.assertion = w]
      BY <2>4 DEF mut_realloc_malloc, mut_realloc_malloc_no_free, mut_realloc_realloc,
         mut_realloc_realloc_no_free, ReallocMakes, Abort, Continues
    <3>2. report'.fault = report.fault
      BY <1>1, <3>1 DEF Typed
    <3> QED
      BY <1>1, <1>3, <3>1, <3>2, SaidBefore
  <2>5. CASE PlainReturns \/ RequestFails \/ FailureLosesBacktrace \/ mut_close
    <3>1. /\ pc' # "call" /\ call' = call /\ report' = report
          /\ pc \in {"target", "act", "exit"} \/ pc' = "failed"
      BY <2>5 DEF PlainReturns, RequestFails, FailureLosesBacktrace, mut_close, Continues, GiveUp
    <3> QED
      BY <1>1, <1>3, <3>1, SaidBefore
  <2>6. ~(\/ ReallocNull \/ ReallocUnallocated \/ ReallocAllocated)
    BY <1>5 DEF ReallocNull, ReallocUnallocated, ReallocAllocated, IsRealloc, Working
  <2> QED
    BY <1>9, <2>1, <2>2, <2>3, <2>4, <2>5, <2>6 DEF MutStep
<1> QED
  BY <1>6, <1>7, <1>8, <1>9 DEF Next

LEMMA InitZoned == Init => Zoned /\ Said
<1> SUFFICES ASSUME Init PROVE Zoned /\ Said
  OBVIOUS
<1>1. prog.owned = <<>> /\ pc = "target" /\ report.fault = "none" /\ call.expect = "none"
  BY DEF Init, NoReport
<1>2. DOMAIN prog.owned = {}
  BY <1>1
<1> QED
  BY <1>1, <1>2 DEF Zoned, ZonesKept, Said

\* Both zones of every object tell whether the program has written there.
THEOREM ZonesHold == Spec => [](IInv /\ Zoned /\ Said)
<1>1. Init => IInv /\ Zoned /\ Said
  BY InitHolds, InitZoned
<1>2. IInv /\ Zoned /\ Said /\ [Next]_vars => (IInv /\ Zoned /\ Said)'
  BY StepHolds, ZonedStep, SaidStep
<1> QED
  BY <1>1, <1>2, PTL DEF Spec

\* The zones are installed where they are looked for.
Checkable ==
    \A F \in FlagChoices : "check" \in F =>
        /\ "realloc" \notin Function
        /\ \A c \in CallocShape : (c[1] * c[2]) % mut_zone_size # 0

LEMMA AlwaysTold ==
    ASSUME Sensible, Checkable, IInv, Said, Undamaged
    PROVE  /\ pc = "call" => report.fault = "none"
           /\ pc \in {"target", "act", "exit"} => report.fault = call.expect
           /\ report.fault \in {"FUM", "FFM", "WUM"} => report.fault = call.expect
<1>1. Sane
  BY AlwaysSane
<1>2. CASE On("check")
  <2>1. Covered
    BY <1>2 DEF Checkable, Covered, IInv, Typed, On
  <2> QED
    BY <1>1, <1>2, <2>1 DEF Said
<1>3. CASE ~On("check")
  BY <1>1, <1>3 DEF IInv, Reports
<1> QED
  BY <1>2, <1>3

\* A fault is logged only of a call that has it: FUM and FFM of what the program
\* does not hold, WUM of what it has overrun.
THEOREM NoFalseReportHolds == ASSUME Sensible, Checkable PROVE Spec => []NoFalseReport
<1>1. IInv /\ Said => NoFalseReport
  BY AlwaysTold DEF NoFalseReport
<1> QED
  BY <1>1, ZonesHold, PTL

\* And it is logged before the target goes on.
THEOREM NoMissedFaultHolds == ASSUME Sensible, Checkable PROVE Spec => []NoMissedFault
<1>1. IInv /\ Said => NoMissedFault
  BY AlwaysTold DEF NoMissedFault
<1> QED
  BY <1>1, ZonesHold, PTL
=============================================================================
