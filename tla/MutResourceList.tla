--------------------------- MODULE MutResourceList ---------------------------
(***************************************************************************)
(* The operations of resources/list/mut_resources.c and of the reference   *)
(* counts of backtrace/fixed/mut_backtrace.c, as functions of a state      *)
(*                                                                         *)
(*    s = [elems, n_active_elems, n_consumed_elems, ref]                   *)
(*                                                                         *)
(* elems is the linked list, newest resource first; ref[b] is b->ref_count *)
(* and 0 says that b is not allocated.  A pointer to a resource is its     *)
(* position in elems.                                                      *)
(***************************************************************************)
EXTENDS Integers, Sequences, FiniteSets, SequencesExt

CONSTANT Bt     \* the backtraces there is memory for

ASSUME BtAssumption == IsFiniteSet(Bt) /\ Bt \subseteq Nat \ {0}

NoBt == 0
NoAction == "none"

-----------------------------------------------------------------------------
(* backtraces: who is given one owns one of its references *)

\* Which unused memory mut_mem_malloc returns makes no difference: the first.
FreeBt(s) == {b \in Bt : s.ref[b] = 0 /\ \A c \in Bt : c < b => s.ref[c] # 0}

mut_backtrace_open(s, b) == [s EXCEPT !.ref[b] = 1]

\* Defect: the reference is not counted.
ShareUncounted(s, b) == s

mut_backtrace_share(s, b) == [s EXCEPT !.ref[b] = @ + 1]

\* The callers' "if (bt)" and "if (m->flags & mut_control_backtrace)" included.
mut_backtrace_close(s, b) == IF b = NoBt THEN s ELSE [s EXCEPT !.ref[b] = @ - 1]

-----------------------------------------------------------------------------
(* resources *)

At(s, a) == {i \in 1..Len(s.elems) : s.elems[i].addr = a}

\* The position of the resource at a, 0 when there is none.
mut_resources_lookup(s, a) ==
    IF At(s, a) = {} THEN 0 ELSE CHOOSE i \in At(s, a) : \A j \in At(s, a) : i <= j

mut_resource_is_new(r) == r.pbt = NoBt

mut_resources_resource_deleted(r) == r.consumer # NoAction

\* The size of a new resource is not set before mut_resource_make_producer.
NewResource(a) ==
    [addr |-> a, size |-> 0, producer |-> NoAction, pbt |-> NoBt,
     consumer |-> NoAction, cbt |-> NoBt]

\* Defect: a resource is added without looking for one at the address.
CreateDuplicate(s, a) ==
    [s EXCEPT !.elems = <<NewResource(a)>> \o @, !.n_active_elems = @ + 1]

\* The resource is then at mut_resources_lookup(s, a) of the result.
mut_resources_create_resource(s, a) ==
    IF At(s, a) # {} THEN s
    ELSE [s EXCEPT !.elems = <<NewResource(a)>> \o @, !.n_active_elems = @ + 1]

Produced(r, producer, size, b) ==
    [r EXCEPT !.producer = producer, !.size = size, !.pbt = b]

mut_resource_make_producer(s, i, producer, size, b) ==
    [s EXCEPT !.elems[i] = Produced(@, producer, size, b)]

\* Defect: the head of the list is unlinked, whatever its address.
UnlinkHead(s, i) ==
    [mut_backtrace_close(s, s.elems[1].pbt)
       EXCEPT !.elems = RemoveAt(@, 1), !.n_active_elems = @ - 1]

\* The first resource with the address of the one at i is unlinked.
mut_resources_really_delete_resource(s, i) ==
    LET j == mut_resources_lookup(s, s.elems[i].addr)
    IN [mut_backtrace_close(s, s.elems[j].pbt)
          EXCEPT !.elems = RemoveAt(@, j), !.n_active_elems = @ - 1]

\* Defect: the consumed resource keeps counting as active.
MarkStaysActive(s, i, consumer, b) ==
    [(IF b = NoBt THEN s ELSE mut_backtrace_share(s, b))
       EXCEPT !.elems[i].consumer = consumer, !.elems[i].cbt = b,
              !.n_consumed_elems = @ + 1]

\* Defect: the backtrace is kept without a reference to it.
MarkNotShared(s, i, consumer, b) ==
    [s EXCEPT !.elems[i].consumer = consumer, !.elems[i].cbt = b,
              !.n_active_elems = @ - 1, !.n_consumed_elems = @ + 1]

Consumed(r, consumer, b) ==
    [r EXCEPT !.consumer = consumer, !.cbt = IF b = NoBt THEN @ ELSE b]

mut_resources_mark_as_free(s, i, consumer, b) ==
    [(IF b = NoBt THEN s ELSE mut_backtrace_share(s, b))
       EXCEPT !.elems[i] = Consumed(@, consumer, b),
              !.n_active_elems = @ - 1, !.n_consumed_elems = @ + 1]

mut_resources_delete_resource(s, really, i, consumer, b) ==
    IF really THEN mut_resources_really_delete_resource(s, i)
              ELSE mut_resources_mark_as_free(s, i, consumer, b)

\* The assertions at the head of both ways to delete.
DeleteAsserts(s, i) == s.elems[i].consumer = NoAction /\ s.n_active_elems > 0

\* What the iterator reads, over the resources that were not consumed or all.
mut_resources_iter(s, all) ==
    {i \in 1..Len(s.elems) : all \/ s.elems[i].consumer = NoAction}

\* What mut_resources_iter_open says it will read.
mut_resources_iter_open(s, all) ==
    s.n_active_elems + (IF all THEN s.n_consumed_elems ELSE 0)

\* The references to b that resources own.
Owners(s, b) == Cardinality({i \in 1..Len(s.elems) : s.elems[i].pbt = b})
                  + Cardinality({i \in 1..Len(s.elems) : s.elems[i].cbt = b})

mut_resources_close(s) ==
    [s EXCEPT !.elems = <<>>, !.ref = [b \in Bt |-> s.ref[b] - Owners(s, b)]]

mut_resources_open ==
    [elems |-> <<>>, n_active_elems |-> 0, n_consumed_elems |-> 0, ref |-> [b \in Bt |-> 0]]
=============================================================================
