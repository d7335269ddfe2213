--------------------------- MODULE MutResourceMap ---------------------------
(***************************************************************************)
(* What resources/mut_resources.txt promises of a resource map: a map from *)
(* addresses to resources in which entering an address that is there       *)
(* changes nothing, and a deleted resource is gone or only marked,         *)
(* depending on really_delete.                                             *)
(***************************************************************************)
CONSTANTS Addr, Size, Producer, Consumer

VARIABLES
    map,           \* the resource at each address
    really_delete  \* as mut_resources_open was told

vars == <<map, really_delete>>

Absent == [state |-> "absent"]
Active(p, n) == [state |-> "active", producer |-> p, size |-> n]
Consumed(r, c) == [state |-> "consumed", producer |-> r.producer, size |-> r.size,
                   consumer |-> c]

Init == map = [a \in Addr |-> Absent] /\ really_delete \in BOOLEAN

Enter(a, p, n) ==
    /\ map[a] = Absent
    /\ map' = [map EXCEPT ![a] = Active(p, n)]
    /\ UNCHANGED really_delete

Delete(a, c) ==
    /\ map[a].state = "active"
    /\ map' = [map EXCEPT ![a] = IF really_delete THEN Absent ELSE Consumed(map[a], c)]
    /\ UNCHANGED really_delete

\* A reallocation: the resource at a is deleted and one of size n is at b.
\* Only when a was really deleted can it be the new address.
Move(a, b, p, n) ==
    /\ map[a].state = "active"
    /\ map[b] = Absent \/ (really_delete /\ b = a)
    /\ map' = [map EXCEPT ![a] = IF really_delete THEN Absent ELSE Consumed(map[a], p),
                          ![b] = Active(p, n)]
    /\ UNCHANGED really_delete

Close == map' = [a \in Addr |-> Absent] /\ UNCHANGED really_delete

Next ==
    \/ \E a \in Addr, p \in Producer, n \in Size : Enter(a, p, n)
    \/ \E a \in Addr, c \in Consumer : Delete(a, c)
    \/ \E a, b \in Addr, p \in Producer, n \in Size : Move(a, b, p, n)
    \/ Close

Spec == Init /\ [][Next]_vars
=============================================================================
