-------------------------------- MODULE Mut --------------------------------
(***************************************************************************)
(* The handlers of mut.c: what MUT does with each call the target makes of *)
(* malloc, calloc, realloc, free and cfree, and the books it keeps.        *)
(*                                                                         *)
(* A handler stops the target at the entry of the function ("call"), may   *)
(* change its arguments, lets the function run ("act", mut_do_action of    *)
(* module MutProcess), and picks up its result ("exit").  The allocator    *)
(* of the target and the program that calls it are external.  The program  *)
(* is followed by a history of its own, prog, that knows what MUT should   *)
(* have found out.                                                         *)
(***************************************************************************)
EXTENDS MutResourceList, FiniteSetsExt

CONSTANTS
    FlagChoices,  \* the sets of mut_control flags to consider
    Function,     \* functions the program calls
    Base,         \* addresses of the blocks the allocator has
    MallocSize,   \* sizes asked of malloc and realloc
    CallocShape,  \* <<n_elems, elem_size>> asked of calloc
    Stray,        \* pointers that were never allocated
    MaxBlock,     \* the largest block the allocator has
    WordMod,      \* 2^w, for words of w bits
    PadsBlocks,   \* whether the allocator sets whole words aside for a block
    Overruns,     \* whether the program writes just outside an object
    MayFail,      \* whether requests to the target and mut_mem_malloc can fail
    MaxCalls      \* bound: calls of the program

Flag == {"free", "check", "stats", "backtrace", "zero"}
AllFn == {"malloc", "calloc", "realloc", "free", "cfree", "usage"}
mut_zone_size == 4

ASSUME ProgramAssumption ==
    /\ FlagChoices \subseteq SUBSET Flag
    /\ Function \subseteq AllFn
    /\ MallocSize \subseteq 0..(WordMod - 1)
    /\ CallocShape \subseteq (0..(WordMod - 1)) \X (0..(WordMod - 1))
    /\ PadsBlocks \in BOOLEAN /\ Overruns \in BOOLEAN /\ MayFail \in BOOLEAN
    /\ MaxCalls \in Nat

\* Blocks are word aligned and do not touch; stray pointers are in no block.
ASSUME HeapAssumption ==
    /\ IsFiniteSet(Base) /\ Base \subseteq Nat \ {0}
    /\ MaxBlock \in Nat /\ WordMod \in Nat /\ WordMod % mut_zone_size = 0
    /\ MaxBlock < WordMod
    /\ \A b \in Base : b % mut_zone_size = 0
    /\ \A b, c \in Base : b < c => b + MaxBlock + mut_zone_size < c
    /\ Stray \subseteq Nat \ {0}
    /\ \A x \in Stray, b \in Base : x < b \/ x > b + MaxBlock

VARIABLES
    flags,  \* m->flags
    pc,     \* where the handler is
    call,   \* the call as the program made it
    arg,    \* its arguments as the handler left them
    res,    \* what the function returned
    h,      \* locals of the handler: what to do at its exit, obj, bt
    rs,     \* m->resources, and the backtraces
    st,     \* m->stats and the hits of the actions
    report, \* what was logged about this call
    leaks,  \* what mut_log_leaks logged
    heap,   \* external: the allocator and the memory of the target
    prog    \* external: the history of the program

vars == <<flags, pc, call, arg, res, h, rs, st, report, leaks, heap, prog>>

On(flag) == flag \in flags

-----------------------------------------------------------------------------
(* sizes *)

\* The words that n bytes reach into, in bytes.
WholeWords(n) == ((n + mut_zone_size - 1) \div mut_zone_size) * mut_zone_size

\* Defect: no room for the zones.
RoundUpToWord(size) == WholeWords(size) % WordMod

\* ((size+3)&~3)+8 in words of w bits.
mut_round_up(size) ==
    ((((size + mut_zone_size - 1) % WordMod) \div mut_zone_size) * mut_zone_size
       + 2 * mut_zone_size) % WordMod

\* What MUT takes to be the size of an object of calloc.
calloc_size(c) == (c.k * c.n) % WordMod

\* Defect: one word too many.
OneZoneMore(c) == calloc_size(c) \div mut_zone_size + 1 + 3

n_zones(c) == calloc_size(c) \div mut_zone_size + 1 + 2

-----------------------------------------------------------------------------
(* the allocator, external *)

Unallocated == -1

Live == {b \in Base : heap.block[b] # Unallocated}

\* The n bytes at a are bytes that were asked for in one block.
InLive(hp, a, n) == \E b \in Base : hp.block[b] # Unallocated
                                      /\ b <= a /\ a + n <= b + hp.block[b]

\* The bytes set aside for a block: the allocator may round up what was asked.
Room(hp, b) == IF PadsBlocks THEN WholeWords(hp.block[b]) ELSE hp.block[b]

InRoom(hp, a, n) == \E b \in Base : hp.block[b] # Unallocated
                                      /\ b <= a /\ a + n <= b + Room(hp, b)

\* A write of MUT or of the program: outside the live blocks it damages the
\* heap, and inside it overwrites the zone words it covers.
Write(hp, a, n) ==
    [hp EXCEPT !.corrupt = @ \/ (n > 0 /\ ~InRoom(hp, a, n)),
               !.zoned = {w \in @ : w + mut_zone_size <= a \/ a + n <= w}]

WriteZone(hp, w) ==
    [hp EXCEPT !.corrupt = @ \/ ~InRoom(hp, w, mut_zone_size), !.zoned = @ \cup {w}]

\* The words of a block that was just allocated hold no zone value.
Allocated(hp, b, n) ==
    [hp EXCEPT !.block[b] = n, !.zoned = {w \in @ : w < b \/ w > b + MaxBlock}]

Damaged(hp) == [hp EXCEPT !.corrupt = TRUE]

Allocates(n) ==
    \/ res' = 0 /\ heap' = heap
    \/ /\ n <= MaxBlock
       /\ \E b \in Base :
             /\ b \notin Live \/ heap.corrupt
             /\ res' = b /\ heap' = Allocated(heap, b, n)

Reallocates(p, n) ==
    \/ res' = 0 /\ heap' = heap
    \/ /\ n <= MaxBlock
       /\ \E b \in Base :
             /\ b = p \/ b \notin Live \/ heap.corrupt
             /\ res' = b
             /\ heap' = [heap EXCEPT !.block = [[@ EXCEPT ![p] = Unallocated] EXCEPT ![b] = n]]

\* malloc, calloc and realloc(0, n)
TargetAllocates ==
    \/ call.fn \in {"malloc", "calloc"} /\ Allocates(arg.k * arg.n)
    \/ call.fn = "realloc" /\ arg.p = 0 /\ Allocates(arg.n)

\* What the allocator does not know damages the heap.
TargetReallocates ==
    /\ call.fn = "realloc" /\ arg.p # 0
    /\ \/ arg.p \in Live /\ Reallocates(arg.p, arg.n)
       \/ arg.p \notin Live /\ res' \in {0} \cup Base /\ heap' = Damaged(heap)

TargetFrees ==
    /\ call.fn \in {"free", "cfree"} /\ res' = 0
    /\ \/ arg.p = 0 /\ heap' = heap
       \/ arg.p \in Live /\ heap' = [heap EXCEPT !.block[arg.p] = Unallocated]
       \/ arg.p \notin {0} \cup Live /\ heap' = Damaged(heap)

TargetActs ==
    /\ pc = "act"
    /\ \/ TargetAllocates \/ TargetReallocates \/ TargetFrees
       \/ call.fn = "usage" /\ res' = 0 /\ heap' = heap
    /\ pc' = "exit"
    /\ UNCHANGED <<flags, call, arg, h, rs, st, report, leaks, prog>>

-----------------------------------------------------------------------------
(* the program, external *)

Owned(p) == p \in DOMAIN prog.owned

\* What the documentation has MUT say about a call: a fault of the program is
\* told from what it was given and has given back.
Expected(fn, p) ==
    IF fn \notin {"free", "cfree", "realloc"} \/ p = 0 THEN "none"
    ELSE IF Owned(p) THEN IF On("check") /\ p \in prog.overrun THEN "WUM" ELSE "none"
    ELSE IF p \in prog.freed /\ ~On("free") THEN "FFM" ELSE "FUM"

NoReport == [fault |-> "none", warning |-> "none", assertion |-> "none"]

TargetCalls(fn, p, k, n) ==
    /\ pc = "target" /\ fn \in Function
    /\ call' = [fn |-> fn, p |-> p, k |-> k, n |-> n, expect |-> Expected(fn, p)]
    /\ prog' = [prog EXCEPT !.calls[fn] = @ + 1,
                            !.faulty = @ \/ Expected(fn, p) # "none"]
    /\ pc' = "call"
    /\ report' = NoReport
    /\ UNCHANGED <<flags, arg, res, h, rs, st, leaks, heap>>

\* The word before an object and the first word after it.
Outside(p) ==
    {p - mut_zone_size, p + WholeWords(prog.owned[p])}

\* The program overwrites one of them.
TargetOverruns(p, w) ==
    /\ pc = "target" /\ Overruns /\ On("check")
    /\ heap' = Write(heap, w, mut_zone_size)
    /\ prog' = [prog EXCEPT !.overrun = @ \cup {p}, !.faulty = TRUE]
    /\ call' = [call EXCEPT !.fn = "none", !.expect = "none"]
    /\ report' = NoReport
    /\ UNCHANGED <<flags, pc, arg, res, h, rs, st, leaks>>

\* The program goes on with the result r of its call.
Space(owned) == MapThenSumSet(LAMBDA p : owned[p], DOMAIN owned)

Greater(x, y) == IF x < y THEN y ELSE x

Continues(r) ==
    LET gone == IF call.fn \in {"free", "cfree"} \/ (call.fn = "realloc" /\ r # 0)
                  THEN {call.p} \cap DOMAIN prog.owned ELSE {}
        made == IF call.fn \in {"malloc", "calloc", "realloc"} THEN {r} \ {0} ELSE {}
        owned == [q \in (DOMAIN prog.owned \ gone) \cup made |->
                    IF q \in made THEN call.k * call.n ELSE prog.owned[q]]
    IN /\ pc' = "target"
       /\ res' = r
       /\ prog' = [prog EXCEPT !.owned = owned,
                               !.freed = (@ \cup gone) \ made,
                               !.overrun = @ \ (gone \cup made),
                               !.peakSpace = Greater(@, Space(owned)),
                               !.peakCount = Greater(@, Cardinality(DOMAIN owned))]

-----------------------------------------------------------------------------
(* pieces the handlers share *)

\* The backtrace mut_produce_backtrace gives the handler.
Fresh == IF On("backtrace") THEN FreeBt(rs) ELSE {NoBt}

Opened(b) == IF b = NoBt THEN rs ELSE mut_backtrace_open(rs, b)

\* Locals of a handler that has nothing left to do after the function ran.
Plain == [path |-> "plain", obj |-> 0, bt |-> NoBt]

\* The handler returns 0, so mut_run does, and mut_close_on_error follows.
GiveUp(s) == pc' = "failed" /\ rs' = mut_resources_close(s)

\* An assertion fails.
Abort(which) == pc' = "aborted" /\ report' = [report EXCEPT !.assertion = which]

Logs(fault) == report' = [report EXCEPT !.fault = fault]
mut_log_fum == Logs("FUM")
mut_log_ffm == Logs("FFM")
mut_log_wum == Logs("WUM")

Hit(s, fn) == IF On("stats") THEN [s EXCEPT !.hits[fn] = @ + 1] ELSE s

\* Defect: the peak of the space is not noticed when the count has one too.
PeakOfCountOnly(s, size) ==
    IF ~On("stats") THEN s
    ELSE LET now == [space |-> s.now.space + size, count |-> s.now.count + 1] IN
         [s EXCEPT !.now = now,
                   !.total = [space |-> @.space + size, count |-> @.count + 1],
                   !.maxSpace = IF s.maxCount.count < now.count THEN now ELSE @,
                   !.maxCount = IF @.count < now.count THEN now ELSE @]

mut_collect_producer_stats(s, size) ==
    IF ~On("stats") THEN s
    ELSE LET now == [space |-> s.now.space + size, count |-> s.now.count + 1] IN
         [s EXCEPT !.now = now,
                   !.total = [space |-> @.space + size, count |-> @.count + 1],
                   !.maxSpace = IF @.space < now.space THEN now ELSE @,
                   !.maxCount = IF @.count < now.count THEN now ELSE @]

CollectConsumer(s, size) ==
    IF ~On("stats") THEN s
    ELSE [s EXCEPT !.now = [space |-> @.space - size, count |-> @.count - 1]]

\* Defect: the zone after the object is one word too far.
PostZoneBeyond(hp, a, size) ==
    IF On("check") THEN WriteZone(WriteZone(hp, a), a + size) ELSE hp

\* The two zones of an object in a block of size bytes at a, and the address
\* mut_install_check_zones makes of it.
mut_install_check_zones(hp, a, size) ==
    IF On("check") THEN WriteZone(WriteZone(hp, a), a + size - mut_zone_size) ELSE hp

ObjectAddr(a) == IF On("check") THEN a + mut_zone_size ELSE a

\* Defect: only the zone before the object is looked at.
PreZoneOnly(a, size) == a - mut_zone_size \in heap.zoned

\* Whether both zones of the object still hold their value.
mut_zone_check(a, size) ==
    LET pre_zone_addr == a - mut_zone_size
        post_zone_addr == pre_zone_addr + mut_round_up(size) - mut_zone_size
    IN pre_zone_addr \in heap.zoned /\ post_zone_addr \in heap.zoned

\* What these two write is not kept, only where: in words, the last one as a
\* whole when n ends within it.
mut_process_memset(hp, a, n) == Write(hp, a, WholeWords(n))
mut_process_memcpy(hp, dest, src, n) == Write(hp, dest, WholeWords(n))

Zero(hp, a, size) == IF On("zero") THEN mut_process_memset(hp, a, size) ELSE hp

-----------------------------------------------------------------------------
(* mut_do_malloc and mut_do_calloc *)

EnterAction(path, obj, b, p, k, n) ==
    /\ h' = [path |-> path, obj |-> obj, bt |-> b]
    /\ arg' = [p |-> p, k |-> k, n |-> n]
    /\ pc' = "act"

mut_do_malloc ==
    /\ pc = "call" /\ call.fn = "malloc"
    /\ \E b \in Fresh :
          /\ rs' = Opened(b)
          /\ EnterAction("malloc", 0, b, 0, 1,
                         IF On("check") THEN mut_round_up(call.n) ELSE call.n)
    /\ UNCHANGED <<flags, call, res, st, report, leaks, heap, prog>>

mut_do_calloc ==
    /\ pc = "call" /\ call.fn = "calloc"
    /\ \E b \in Fresh :
          /\ rs' = Opened(b)
          /\ IF On("check") THEN EnterAction("calloc", 0, b, 0, n_zones(call), mut_zone_size)
                            ELSE EnterAction("calloc", 0, b, 0, call.k, call.n)
    /\ UNCHANGED <<flags, call, res, st, report, leaks, heap, prog>>

\* malloc or calloc returned 0: a warning, and the run goes on.
AllocationFails(fn, warning, closed) ==
    /\ pc = "exit" /\ h.path = fn /\ res = 0
    /\ st' = Hit(st, fn)
    /\ report' = [report EXCEPT !.warning = warning]
    /\ rs' = closed
    /\ Continues(0)
    /\ UNCHANGED <<flags, call, arg, h, leaks, heap>>

\* Defect: the backtrace is not closed.
FailureKeepsBacktrace == AllocationFails("malloc", "MR0", rs)

mut_malloc_failure == AllocationFails("malloc", "MR0", mut_backtrace_close(rs, h.bt))

mut_calloc_failure == AllocationFails("calloc", "CR0", mut_backtrace_close(rs, h.bt))

\* They did not.  An address that is taken is reported as a fault of the
\* allocator; nobody closes the backtrace then.
AllocationSucceeds(fn, size, fault) ==
    /\ pc = "exit" /\ h.path = fn /\ res # 0
    /\ LET a == ObjectAddr(res)
           s == mut_resources_create_resource(rs, a)
           i == mut_resources_lookup(s, a)
       IN /\ heap' = mut_install_check_zones(heap, res, arg.k * arg.n)
          /\ st' = mut_collect_producer_stats(Hit(st, fn), size)
          /\ \/ /\ mut_resource_is_new(s.elems[i])
                /\ rs' = mut_resource_make_producer(s, i, fn, size, h.bt)
                /\ Continues(a)
                /\ UNCHANGED report
             \/ /\ ~mut_resource_is_new(s.elems[i])
                /\ GiveUp(s)
                /\ Logs(fault)
                /\ UNCHANGED <<res, prog>>
    /\ UNCHANGED <<flags, call, arg, h, leaks>>

mut_malloc_success == AllocationSucceeds("malloc", call.n, "MMM")

mut_calloc_success == AllocationSucceeds("calloc", calloc_size(call), "CMM")

-----------------------------------------------------------------------------
(* mut_do_consumer: free and cfree *)

\* Defect: the function is run without -f too.
AlwaysFree ==
    /\ h' = Plain
    /\ arg' = [p |-> call.p, k |-> call.k, n |-> call.n]
    /\ pc' = "act"
    /\ UNCHANGED <<res, prog>>

\* The target's function is run with -f, and skipped without.
FreeOrSkip ==
    /\ h' = Plain
    /\ \/ /\ On("free")
          /\ arg' = [p |-> call.p, k |-> call.k, n |-> call.n]
          /\ pc' = "act"
          /\ UNCHANGED <<res, prog>>
       \/ /\ ~On("free")
          /\ Continues(0)
          /\ UNCHANGED arg

IsConsumer == pc = "call" /\ call.fn \in {"free", "cfree"}

\* .free.0
FreeNull ==
    /\ IsConsumer /\ call.p = 0
    /\ st' = Hit(st, call.fn)
    /\ EnterAction("plain", 0, NoBt, call.p, call.k, call.n)
    /\ UNCHANGED <<flags, call, res, rs, report, leaks, heap, prog>>

\* .free.addr.unalloc
FreeUnallocated ==
    /\ IsConsumer /\ call.p # 0 /\ At(rs, call.p) = {}
    /\ st' = Hit(st, call.fn)
    /\ mut_log_fum
    /\ FreeOrSkip
    /\ UNCHANGED <<flags, call, rs, leaks, heap>>

Obj == mut_resources_lookup(rs, call.p)

\* .free.addr.alloc.free
FreeFreed ==
    /\ IsConsumer /\ call.p # 0 /\ Obj # 0
    /\ mut_resources_resource_deleted(rs.elems[Obj])
    /\ st' = Hit(st, call.fn)
    /\ mut_log_ffm
    /\ FreeOrSkip
    /\ UNCHANGED <<flags, call, rs, leaks, heap>>

\* .free.addr.alloc.avail
FreeAvailable ==
    /\ IsConsumer /\ call.p # 0 /\ Obj # 0
    /\ ~mut_resources_resource_deleted(rs.elems[Obj])
    /\ LET size == rs.elems[Obj].size IN
       /\ st' = CollectConsumer(Hit(st, call.fn), size)
       /\ \/ /\ On("check") /\ ~mut_zone_check(call.p, size)
             /\ mut_log_wum
             /\ GiveUp(rs)
             /\ UNCHANGED <<arg, res, h, heap, prog>>
          \/ /\ On("check") => mut_zone_check(call.p, size)
             /\ heap' = Zero(heap, call.p, size)
             /\ \E b \in Fresh :
                  rs' = mut_backtrace_close(
                          mut_resources_delete_resource(Opened(b), On("free"), Obj, call.fn, b), b)
             /\ FreeOrSkip
             /\ UNCHANGED report
    /\ UNCHANGED <<flags, call, leaks>>

-----------------------------------------------------------------------------
(* mut_do_realloc *)

Rounded(n) == IF On("check") THEN mut_round_up(n) ELSE n

IsRealloc == pc = "call" /\ call.fn = "realloc"

\* realloc(0, n)
ReallocNull ==
    /\ IsRealloc /\ call.p = 0
    /\ \E b \in Fresh :
          /\ rs' = Opened(b)
          /\ EnterAction("realloc_malloc", 0, b, 0, 1, Rounded(call.n))
    /\ UNCHANGED <<flags, call, res, st, report, leaks, heap, prog>>

\* realloc of what was never allocated: with -f it is run as it is, without
\* it is made a realloc(0, n).
ReallocUnallocated ==
    /\ IsRealloc /\ call.p # 0 /\ Obj = 0
    /\ st' = Hit(st, "realloc")
    /\ mut_log_fum
    /\ \/ /\ On("free")
          /\ EnterAction("plain", 0, NoBt, call.p, 1, call.n)
          /\ UNCHANGED rs
       \/ /\ ~On("free")
          /\ \E b \in Fresh :
                /\ rs' = Opened(b)
                /\ EnterAction("malloc_no_free", 0, b, 0, 1, Rounded(call.n))
    /\ UNCHANGED <<flags, call, res, leaks, heap, prog>>

\* Defect: realloc of a freed object is not told from one of a live object.
ReallocFreedUnseen ==
    /\ IsRealloc /\ call.p # 0 /\ Obj # 0
    /\ \E b \in Fresh :
          /\ rs' = Opened(b)
          /\ EnterAction("realloc_no_free", Obj, b, 0, 1, Rounded(call.n))
    /\ UNCHANGED <<flags, call, res, st, report, leaks, heap, prog>>

\* Defect: the pointer is passed on without -f, so the allocator may extend it.
ReallocKeepsPointer ==
    /\ IsRealloc /\ call.p # 0 /\ Obj # 0
    /\ \E b \in Fresh :
          /\ rs' = Opened(b)
          /\ EnterAction("realloc_no_free", Obj, b, call.p, 1, Rounded(call.n))
    /\ UNCHANGED <<flags, call, res, st, report, leaks, heap, prog>>

\* realloc of what was allocated, freed since or not.
ReallocAllocated ==
    /\ IsRealloc /\ call.p # 0 /\ Obj # 0
    /\ IF mut_resources_resource_deleted(rs.elems[Obj]) THEN mut_log_ffm ELSE UNCHANGED report
    /\ \E b \in Fresh :
          /\ rs' = Opened(b)
          /\ IF On("free") THEN EnterAction("realloc", Obj, b, call.p, 1, Rounded(call.n))
                           ELSE EnterAction("realloc_no_free", Obj, b, 0, 1, Rounded(call.n))
    /\ UNCHANGED <<flags, call, res, st, leaks, heap, prog>>

\* mut_realloc_failure, and every one of its callers returns 0.
mut_realloc_failure ==
    /\ pc = "exit" /\ res = 0
    /\ h.path \in {"realloc_malloc", "malloc_no_free", "realloc", "realloc_no_free"}
    /\ st' = IF h.path \in {"realloc_malloc", "realloc"} THEN Hit(st, "realloc") ELSE st
    /\ report' = [report EXCEPT !.warning = "RR0"]
    /\ GiveUp(mut_backtrace_close(rs, h.bt))
    /\ UNCHANGED <<flags, call, arg, res, h, leaks, heap, prog>>

\* realloc(0, n), by the program or by MUT, returned an object; its address is
\* asserted to be new.
ReallocMakes(path) ==
    /\ pc = "exit" /\ res # 0 /\ h.path = path
    /\ LET a == ObjectAddr(res)
           s == mut_resources_create_resource(rs, a)
           i == mut_resources_lookup(s, a)
       IN /\ heap' = mut_install_check_zones(heap, res, mut_round_up(call.n))
          /\ \/ /\ mut_resource_is_new(s.elems[i])
                /\ rs' = mut_resource_make_producer(s, i, "realloc", call.n, h.bt)
                /\ st' = mut_collect_producer_stats(Hit(st, "realloc"), call.n)
                /\ Continues(a)
                /\ UNCHANGED report
             \/ /\ ~mut_resource_is_new(s.elems[i])
                /\ Abort("is_new")
                /\ rs' = s
                /\ UNCHANGED <<res, st, prog>>
    /\ UNCHANGED <<flags, call, arg, h, leaks>>

mut_realloc_malloc == ReallocMakes("realloc_malloc")

mut_realloc_malloc_no_free == ReallocMakes("malloc_no_free")

\* Defect: the resource keeps its old address.
OldAddressKept ==
    /\ pc = "exit" /\ res # 0 /\ h.path = "realloc"
    /\ LET old == rs.elems[h.obj] IN
       /\ st' = mut_collect_producer_stats(
                  CollectConsumer(Hit(st, "realloc"), old.size), call.n)
       /\ rs' = [mut_backtrace_close(rs, old.pbt) EXCEPT !.elems[h.obj] =
                   [@ EXCEPT !.size = call.n, !.producer = "realloc", !.pbt = h.bt]]
    /\ Continues(res)
    /\ UNCHANGED <<flags, call, arg, h, report, leaks, heap>>

\* With -f the resource follows its object; the old memory is zeroed after the
\* allocator has taken it back.  No zones are installed.
mut_realloc_realloc ==
    /\ pc = "exit" /\ res # 0 /\ h.path = "realloc"
    /\ LET old == rs.elems[h.obj]
           s == mut_backtrace_close(mut_backtrace_close(rs, old.cbt), old.pbt)
       IN /\ heap' = IF old.addr = res THEN heap ELSE Zero(heap, old.addr, old.size)
          /\ st' = mut_collect_producer_stats(
                     CollectConsumer(Hit(st, "realloc"), old.size), call.n)
          /\ rs' = [s EXCEPT !.elems[h.obj] =
                      [addr |-> res, size |-> call.n, producer |-> "realloc", pbt |-> h.bt,
                       consumer |-> NoAction, cbt |-> NoBt]]
    /\ Continues(res)
    /\ UNCHANGED <<flags, call, arg, h, report, leaks>>

\* Defect: all of the old object is copied, also into a smaller one.
CopiesAll(old_size, new_size) == old_size

Copied(old_size, new_size) == IF old_size < new_size THEN old_size ELSE new_size

\* Without -f the old resource is consumed and a new one made; the two share
\* the backtrace.  The contents move with mut_process_memcpy.
mut_realloc_realloc_no_free ==
    /\ pc = "exit" /\ res # 0 /\ h.path = "realloc_no_free"
    /\ LET old == rs.elems[h.obj]
           sz == Copied(old.size, call.n)
           d == mut_resources_delete_resource(rs, On("free"), h.obj, "realloc", h.bt)
           s == mut_resources_create_resource(d, res)
           i == mut_resources_lookup(s, res)
           now == CollectConsumer(st, old.size)
       IN \/ /\ DeleteAsserts(rs, h.obj)
             /\ rs' = mut_resource_make_producer(s, i, "realloc", call.n, h.bt)
             /\ heap' = Zero(mut_process_memcpy(heap, res, old.addr, sz), old.addr, old.size)
             /\ st' = mut_collect_producer_stats(Hit(now, "realloc"), call.n)
             /\ Continues(res)
             /\ UNCHANGED report
          \/ /\ ~DeleteAsserts(rs, h.obj)
             /\ Abort("consumer")
             /\ st' = now
             /\ UNCHANGED <<res, rs, heap, prog>>
    /\ UNCHANGED <<flags, call, arg, h, leaks>>

-----------------------------------------------------------------------------
(* the other ways through a handler, and the end of the run *)

\* mut_do_usage reports and runs the function.
mut_do_usage ==
    /\ pc = "call" /\ call.fn = "usage"
    /\ EnterAction("plain", 0, NoBt, 0, 1, 0)
    /\ UNCHANGED <<flags, call, res, rs, st, report, leaks, heap, prog>>

PlainReturns ==
    /\ pc = "exit" /\ h.path = "plain"
    /\ Continues(res)
    /\ UNCHANGED <<flags, call, arg, h, rs, st, report, leaks, heap>>

\* A request to the target fails, or mut_mem_malloc does: the handler closes
\* its backtrace and returns 0.
RequestFails ==
    /\ MayFail /\ pc \in {"call", "act", "exit"}
    /\ GiveUp(IF pc = "call" THEN rs ELSE mut_backtrace_close(rs, h.bt))
    /\ UNCHANGED <<flags, call, arg, res, h, st, report, leaks, heap, prog>>

\* The ones after which nobody closes it: no resource can be made for an object
\* of malloc or calloc; the result of realloc cannot be read or the old object
\* not be zeroed in mut_realloc_realloc.
FailureLosesBacktrace ==
    /\ MayFail /\ pc = "exit" /\ h.path \in {"malloc", "calloc", "realloc"}
    /\ h.path # "realloc" => res # 0
    /\ GiveUp(rs)
    /\ UNCHANGED <<flags, call, arg, res, h, st, report, leaks, heap, prog>>

\* Defect: the leaks are read from all the resources.
LeaksOfAll ==
    /\ pc = "target"
    /\ leaks' = {<<rs.elems[i].addr, rs.elems[i].size>> : i \in mut_resources_iter(rs, TRUE)}
    /\ rs' = mut_resources_close(rs)
    /\ pc' = "closed"
    /\ UNCHANGED <<flags, call, arg, res, h, st, report, heap, prog>>

\* The target exits: mut_run returns 1.
mut_close ==
    /\ pc = "target"
    /\ leaks' = {<<rs.elems[i].addr, rs.elems[i].size>> : i \in mut_resources_iter(rs, FALSE)}
    /\ rs' = mut_resources_close(rs)
    /\ pc' = "closed"
    /\ UNCHANGED <<flags, call, arg, res, h, st, report, heap, prog>>

Ended == pc \in {"failed", "aborted", "closed"}

-----------------------------------------------------------------------------
NoUsage == [space |-> 0, count |-> 0]

Init ==
    /\ flags \in FlagChoices
    /\ pc = "target"
    /\ call = [fn |-> "none", p |-> 0, k |-> 1, n |-> 0, expect |-> "none"]
    /\ arg = [p |-> 0, k |-> 1, n |-> 0]
    /\ res = 0
    /\ h = Plain
    /\ rs = mut_resources_open
    /\ st = [now |-> NoUsage, total |-> NoUsage, maxSpace |-> NoUsage, maxCount |-> NoUsage,
             hits |-> [f \in AllFn |-> 0]]
    /\ report = NoReport
    /\ leaks = {}
    /\ heap = [block |-> [b \in Base |-> Unallocated], zoned |-> {}, corrupt |-> FALSE]
    /\ prog = [owned |-> <<>>, freed |-> {}, overrun |-> {}, faulty |-> FALSE,
               peakSpace |-> 0, peakCount |-> 0, calls |-> [f \in AllFn |-> 0]]

Pointer == {0} \cup Stray \cup DOMAIN prog.owned \cup prog.freed

CallsMade == MapThenSumSet(LAMBDA f : prog.calls[f], AllFn)

ProgramStep ==
    /\ CallsMade < MaxCalls
    /\ \/ \E n \in MallocSize : TargetCalls("malloc", 0, 1, n)
       \/ \E c \in CallocShape : TargetCalls("calloc", 0, c[1], c[2])
       \/ \E p \in Pointer, n \in MallocSize : TargetCalls("realloc", p, 1, n)
       \/ \E p \in Pointer, f \in {"free", "cfree"} : TargetCalls(f, p, 1, 0)
       \/ TargetCalls("usage", 0, 1, 0)
       \/ \E p \in DOMAIN prog.owned : \E w \in Outside(p) : TargetOverruns(p, w)

MutStep ==
    \/ mut_do_malloc \/ mut_malloc_failure \/ mut_malloc_success
    \/ mut_do_calloc \/ mut_calloc_failure \/ mut_calloc_success
    \/ FreeNull \/ FreeUnallocated \/ FreeFreed \/ FreeAvailable
    \/ ReallocNull \/ ReallocUnallocated \/ ReallocAllocated
    \/ mut_realloc_failure \/ mut_realloc_malloc \/ mut_realloc_malloc_no_free
    \/ mut_realloc_realloc \/ mut_realloc_realloc_no_free
    \/ mut_do_usage \/ PlainReturns \/ RequestFails \/ FailureLosesBacktrace
    \/ mut_close

Next == ProgramStep \/ TargetActs \/ MutStep \/ (Ended /\ UNCHANGED vars)

Spec == Init /\ [][Next]_vars

-----------------------------------------------------------------------------
(* What must hold *)

TypeOK ==
    /\ flags \in FlagChoices
    /\ pc \in {"target", "call", "act", "exit", "failed", "aborted", "closed"}
    /\ call.fn \in AllFn \cup {"none"}
    /\ h.path \in {"plain", "malloc", "calloc", "realloc_malloc", "malloc_no_free",
                   "realloc", "realloc_no_free"}
    /\ h.obj \in 0..Len(rs.elems) \/ Ended
    /\ h.bt \in Bt \cup {NoBt}
    /\ rs.n_active_elems \in Nat /\ rs.n_consumed_elems \in Nat
    /\ rs.ref \in [Bt -> Nat]
    /\ st.now.space \in Int /\ st.now.count \in Int
    /\ res \in Nat

Undamaged == ~heap.corrupt

\* The books are the program's: whenever the target runs, the resources MUT has
\* as active are exactly the objects the program holds, each with the size it
\* asked for, whatever sequence of calls, failures and faults led here.
BooksMatch ==
    pc = "target" /\ Undamaged =>
        {<<rs.elems[i].addr, rs.elems[i].size>> : i \in mut_resources_iter(rs, FALSE)}
          = {<<p, prog.owned[p]>> : p \in DOMAIN prog.owned}

\* "detects any memory leaks" (mut.1): the MLK errors mut_close logs name what
\* the program still holds, all of it and nothing else.
LeaksAreOwned ==
    pc = "closed" /\ Undamaged => leaks = {<<p, prog.owned[p]>> : p \in DOMAIN prog.owned}

\* No false alarm: an FUM, FFM or WUM error is logged only for a call in which
\* the program is at fault in that way.
NoFalseReport ==
    Undamaged /\ report.fault \in {"FUM", "FFM", "WUM"} => report.fault = call.expect

\* No missed fault: once the handler let the target go on, the fault of the
\* call has been logged.
NoMissedFault ==
    Undamaged /\ (pc \in {"act", "exit"} \/ (pc = "target" /\ call.fn # "none"))
      => call.expect = "none" \/ report.fault = call.expect

\* alloc.now is what the program holds, and alloc.max.space and alloc.max.count
\* are the most it ever held, through every order of decrements and increments
\* in the handlers.
StatsMatch ==
    pc = "target" /\ On("stats") /\ Undamaged =>
        /\ st.now.space = Space(prog.owned)
        /\ st.now.count = Cardinality(DOMAIN prog.owned)
        /\ st.maxSpace.space = prog.peakSpace
        /\ st.maxCount.count = prog.peakCount

\* The statistics count "number of calls" (mut.1): the hits of an action are
\* the calls the program made of it.
HitsCountCalls == pc = "target" /\ On("stats") => st.hits = [prog.calls EXCEPT !["usage"] = 0]

\* The program is given the memory it asked for: every object it holds lies in
\* a live block of the allocator.
ObjectsFit ==
    pc = "target" /\ Undamaged =>
        \A p \in DOMAIN prog.owned : InLive(heap, p, prog.owned[p])

\* -f frees and its absence does not: an object the program gave back, also by
\* realloc, is free for the allocator exactly if -f was given.
FreedAsAsked ==
    pc = "target" /\ Undamaged => \A p \in prog.freed : InLive(heap, p, 0) <=> ~On("free")

\* MUT damages no heap: writing zones, zeroing and copying in whole words and
\* the arguments it passes on stay within what the allocator set aside, so only
\* a fault of the program itself can do it harm.
HeapUndamaged == heap.corrupt => prog.faulty

\* Every reference to a backtrace has one owner when no handler is at work, and
\* mut_close frees them all.
BacktracesOwned ==
    /\ pc = "target" => \A b \in Bt : rs.ref[b] = Owners(rs, b)
    /\ pc = "closed" => \A b \in Bt : rs.ref[b] = 0

\* ".leak: The program should not leak memory" (doc/req), nor when it gives up.
NoLostBacktrace == pc \in {"closed", "failed"} => \A b \in Bt : rs.ref[b] = 0

\* The assertions of the handlers and of the list that no state may reach: a
\* resource can be deleted when mut_do_consumer does, FFM is never logged with
\* -f, and an object made without -f has an address that no resource has.
AssertsHold ==
    /\ IsConsumer /\ Obj # 0 /\ ~mut_resources_resource_deleted(rs.elems[Obj])
         => DeleteAsserts(rs, Obj)
    /\ On("free") => \A i \in 1..Len(rs.elems) : ~mut_resources_resource_deleted(rs.elems[i])
    /\ pc = "exit" /\ res # 0 /\ h.path \in {"malloc_no_free", "realloc_no_free"}
         => At(rs, ObjectAddr(res)) = {} /\ At(rs, res) = {}

\* No assertion of MUT fails, whatever the target does.
NoAssertionFails == pc # "aborted"

\* A realloc that returns 0 "simply logs a warning" (mut.c): it does not end
\* the run.
WarningsAreNotFatal == pc = "failed" => report.warning = "none"
=============================================================================
