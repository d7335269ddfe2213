---------------------------- MODULE MutResources ----------------------------
(***************************************************************************)
(* The resource list under the calls mut.c makes of it, one call of the    *)
(* target at a time, and the proof obligation that it is the map           *)
(* MutResourceMap promises.  Which resources are created, moved and        *)
(* deleted is left open here; module Mut decides it.                       *)
(***************************************************************************)
EXTENDS MutResourceList

CONSTANTS
    Addr, Size,         \* addresses and sizes of objects
    Producer, Consumer, \* actions that make and consume resources
    Backtraces          \* mut_control_backtrace (-b)

ASSUME OptionAssumption == Backtraces \in BOOLEAN
ASSUME ActionAssumption == NoAction \notin Producer \cup Consumer

VARIABLES
    rs,             \* m->resources and the backtraces
    really_delete,  \* which delete function mut_resources_open chose (-f)
    open            \* FALSE once mut_close or mut_close_on_error was called

vars == <<rs, really_delete, open>>

\* The backtrace mut_produce_backtrace gives to a handler, if there is one.
Fresh == IF Backtraces THEN FreeBt(rs) ELSE {NoBt}

Opened(b) == IF b = NoBt THEN rs ELSE mut_backtrace_open(rs, b)

\* mut_malloc_success, mut_calloc_success: an address that is already there is
\* reported as MMM or CMM and ends the run.
Produce(a, p, n, b) ==
    LET s == mut_resources_create_resource(Opened(b), a)
        i == mut_resources_lookup(s, a)
    IN /\ open
       /\ \/ /\ mut_resource_is_new(s.elems[i])
             /\ rs' = mut_resource_make_producer(s, i, p, n, b)
             /\ UNCHANGED open
          \/ /\ ~mut_resource_is_new(s.elems[i])
             /\ rs' = mut_resources_close(s)
             /\ open' = FALSE
       /\ UNCHANGED really_delete

\* mut_do_consumer, on a resource that was not deleted.
Consume(i, c, b) ==
    LET s == mut_resources_delete_resource(Opened(b), really_delete, i, c, b)
    IN /\ open /\ ~mut_resources_resource_deleted(rs.elems[i])
       /\ rs' = mut_backtrace_close(s, b)
       /\ UNCHANGED <<really_delete, open>>

\* mut_realloc_realloc, with -f: the resource is given its new address, which
\* is its own or one that the allocator had free.
Reallocate(i, a, p, n, b) ==
    /\ open /\ really_delete
    /\ a = rs.elems[i].addr \/ At(rs, a) = {}
    /\ LET s == mut_backtrace_close(Opened(b), rs.elems[i].pbt)
           r == [addr |-> a, size |-> n, producer |-> p, pbt |-> b,
                 consumer |-> NoAction, cbt |-> NoBt]
       IN rs' = [s EXCEPT !.elems[i] = r]
    /\ UNCHANGED <<really_delete, open>>

\* mut_realloc_realloc_no_free: the old resource and the new share b.
ReallocateNoFree(i, a, p, n, b) ==
    /\ open /\ ~really_delete /\ ~mut_resources_resource_deleted(rs.elems[i])
    /\ At(rs, a) = {}
    /\ LET s == mut_resources_create_resource(
                    mut_resources_delete_resource(Opened(b), really_delete, i, p, b), a)
       IN rs' = mut_resource_make_producer(s, mut_resources_lookup(s, a), p, n, b)
    /\ UNCHANGED <<really_delete, open>>

Close ==
    /\ open
    /\ rs' = mut_resources_close(rs)
    /\ open' = FALSE
    /\ UNCHANGED really_delete

Init == rs = mut_resources_open /\ really_delete \in BOOLEAN /\ open = TRUE

Next ==
    \/ \E b \in Fresh, a \in Addr, p \in Producer, n \in Size :
          \/ Produce(a, p, n, b)
          \/ \E i \in 1..Len(rs.elems) : Reallocate(i, a, p, n, b)
          \/ \E i \in 1..Len(rs.elems) : ReallocateNoFree(i, a, p, n, b)
    \/ \E b \in Fresh, i \in 1..Len(rs.elems), c \in Consumer : Consume(i, c, b)
    \/ Close
    \/ ~open /\ UNCHANGED vars

Spec == Init /\ [][Next]_vars

-----------------------------------------------------------------------------
(* What must hold *)

Resource == [addr : Addr, size : Size \cup {0}, producer : Producer \cup {NoAction},
             consumer : Consumer \cup Producer \cup {NoAction},
             pbt : Bt \cup {NoBt}, cbt : Bt \cup {NoBt}]

TypeOK ==
    /\ open \in BOOLEAN /\ really_delete \in BOOLEAN
    /\ rs.elems \in Seq(Resource)
    /\ rs.n_active_elems \in Nat /\ rs.n_consumed_elems \in Nat
    /\ rs.ref \in [Bt -> Nat]

\* mut_resources_iter_open "returns the number of objects that can be iterated
\* over" (mut_resources.txt): the two counts the operations keep by hand agree
\* with what mut_resources_iter_read will find.
CountsAreIterated ==
    open => \A all \in BOOLEAN :
        mut_resources_iter_open(rs, all) = Cardinality(mut_resources_iter(rs, all))

\* Every reference to a backtrace has exactly one owner while the map is open:
\* none is freed while a resource still logs it, none is lost.
BacktracesOwned == open => \A b \in Bt : rs.ref[b] = Owners(rs, b)

\* The list seen as a map from addresses to resources.
MapOf(a) ==
    IF At(rs, a) = {} THEN [state |-> "absent"]
    ELSE LET r == rs.elems[mut_resources_lookup(rs, a)] IN
         IF r.consumer = NoAction
           THEN [state |-> "active", producer |-> r.producer, size |-> r.size]
           ELSE [state |-> "consumed", producer |-> r.producer, size |-> r.size,
                 consumer |-> r.consumer]

Map == INSTANCE MutResourceMap
         WITH Consumer <- Consumer \cup Producer, map <- [a \in Addr |-> MapOf(a)]

\* The list is a map: mut_resources_create_resource changes nothing when the
\* address is there already, mut_resources_delete_resource affects the one
\* resource it is given, and no operation disturbs another address.
IsMap == Map!Spec
=============================================================================
