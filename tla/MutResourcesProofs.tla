------------------------- MODULE MutResourcesProofs -------------------------
(***************************************************************************)
(* That the resource list is the map MutResourceMap promises, that its two *)
(* counts are those of the resources on it, and that every reference to a  *)
(* backtrace has one owner.                                                *)
(***************************************************************************)
EXTENDS MutResources, MutResourceListProofs

Kind == Producer \cup Consumer \cup {NoAction}
Listed == Entry(Addr, Size \cup {0}, Kind)

\* What is true of every resource between two calls.
Good(r, really) ==
    /\ r.producer \in Producer
    /\ IF Backtraces THEN r.pbt \in Bt ELSE r.pbt = NoBt /\ r.cbt = NoBt
    /\ r.consumer = NoAction => r.cbt = NoBt
    /\ really => r.consumer = NoAction

\* What is true of the list, h being what the handler holds.
Sound(s, really, h) ==
    /\ Balanced(s, Listed, h) /\ DistinctIn(s.elems)
    /\ \A r \in ToSet(s.elems) : Good(r, really)

\* The inductive invariant.
IInv ==
    /\ open \in BOOLEAN /\ really_delete \in BOOLEAN
    /\ open => Sound(rs, really_delete, NoBt)
    /\ ~open => /\ rs.elems = <<>> /\ rs.ref \in [Bt -> Nat]
                /\ rs.n_active_elems \in Nat /\ rs.n_consumed_elems \in Nat

\* What a handler may hold.
Held(b) == b \in Bt \cup {NoBt} /\ (Backtraces <=> b \in Bt)

-----------------------------------------------------------------------------
(* the steps of the handlers *)

\* A handler opens its backtrace.
LEMMA OpenedSound ==
    ASSUME Sound(rs, really_delete, NoBt), NEW b \in Fresh
    PROVE  /\ Held(b) /\ Sound(Opened(b), really_delete, b)
           /\ Opened(b).elems = rs.elems
<1>1. Balanced(rs, Listed, NoBt)
  BY DEF Sound
<1>2. CASE Backtraces
  <2>1. b \in FreeBt(rs) /\ b \in Bt /\ b # NoBt
    BY <1>2, BtAssumption DEF Fresh, FreeBt, NoBt
  <2>2. Opened(b) = mut_backtrace_open(rs, b)
    BY <2>1 DEF Opened
  <2>3. Balanced(Opened(b), Listed, b) /\ Opened(b).elems = rs.elems
    BY <1>1, <2>1, <2>2, OpenBalanced
  <2> QED
    BY <1>2, <2>1, <2>3 DEF Sound, Held
<1>3. CASE ~Backtraces
  <2>1. b = NoBt /\ NoBt \notin Bt
    BY <1>3, BtAssumption DEF Fresh, NoBt
  <2>2. Opened(b) = rs
    BY <2>1 DEF Opened
  <2> QED
    BY <1>3, <2>1, <2>2 DEF Held
<1> QED
  BY <1>2, <1>3

\* The resource mut_resource_make_producer leaves at a.
Made(a, p, n, b) == [addr |-> a, size |-> n, producer |-> p,
                     consumer |-> NoAction, pbt |-> b, cbt |-> NoBt]

\* A resource is entered at an address that is not on the list.
LEMMA EnterSound ==
    ASSUME NEW s, NEW really, NEW b, Sound(s, really, b), Held(b),
           NEW a \in Addr, NEW p \in Producer, NEW n \in Size, At(s, a) = {},
           NEW c, c = mut_resources_create_resource(s, a),
           NEW t, t = mut_resource_make_producer(c, mut_resources_lookup(c, a), p, n, b)
    PROVE  /\ mut_resource_is_new(c.elems[mut_resources_lookup(c, a)])
           /\ Sound(t, really, NoBt)
           /\ ToSet(t.elems) = ToSet(s.elems) \cup {Made(a, p, n, b)}
<1> DEFINE e == NewResource(a)
           m == Made(a, p, n, b)
<1>0. /\ Balanced(s, Listed, b) /\ DistinctIn(s.elems) /\ s \in ListOf(Listed)
      /\ s.elems \in Seq(Listed) /\ b \in Bt \cup {NoBt}
      /\ NoAction \in Kind /\ 0 \in Size \cup {0} /\ p \in Kind /\ n \in Size \cup {0}
  BY BalancedNumbers DEF Sound, Held, Kind
<1>1. /\ Balanced(c, Listed, b) /\ c.elems = <<e>> \o s.elems /\ mut_resources_lookup(c, a) = 1
  <2>1. b # NoBt => b \in Bt
    BY <1>0
  <2>2. Balanced(s, Entry(Addr, Size \cup {0}, Kind), b)
    BY <1>0 DEF Listed
  <2>3. LET u == mut_resources_create_resource(s, a) IN
        /\ Balanced(u, Entry(Addr, Size \cup {0}, Kind), b)
        /\ u.elems = <<NewResource(a)>> \o s.elems
        /\ mut_resources_lookup(u, a) = 1
    BY <1>0, <2>1, <2>2, CreateBalanced
  <2> QED
    BY <2>3 DEF Listed
<1>2. /\ e \in Listed /\ e.pbt = NoBt /\ e.consumer = NoAction /\ e.cbt = NoBt /\ e.addr = a
  BY <1>0 DEF NewResource, Listed, Entry
<1> HIDE DEF e
<1>3. /\ c.elems[1] = e /\ Len(c.elems) = Len(s.elems) + 1 /\ Len(s.elems) \in Nat
      /\ c.elems \in Seq(Listed)
  BY <1>0, <1>1, <1>2, PrependSeq
<1>4. 1 \in 1..Len(c.elems)
  BY <1>3
<1>5. \A r \in ToSet(s.elems) : r.addr # a
  BY <1>0, Lookup
<1>6. ToSet(c.elems) = ToSet(s.elems) \cup {e} /\ DistinctIn(c.elems)
  BY <1>0, <1>1, <1>2, <1>5, SetPrepend
<1>7. /\ Balanced(t, Listed, NoBt) /\ t.elems = [c.elems EXCEPT ![1] = m] /\ m \in Listed
  <2>1. /\ c.elems[1].pbt = NoBt /\ c.elems[1].addr = a /\ c.elems[1].consumer = NoAction
        /\ c.elems[1].cbt = NoBt
    BY <1>2, <1>3
  <2>2. Balanced(c, Entry(Addr, Size \cup {0}, Kind), b)
    BY <1>1 DEF Listed
  <2>3. LET u == mut_resource_make_producer(c, 1, p, n, b)
            r == [addr |-> c.elems[1].addr, size |-> n, producer |-> p,
                  consumer |-> c.elems[1].consumer, pbt |-> b, cbt |-> c.elems[1].cbt]
        IN  /\ Balanced(u, Entry(Addr, Size \cup {0}, Kind), NoBt)
            /\ u.elems = [c.elems EXCEPT ![1] = r] /\ r \in Entry(Addr, Size \cup {0}, Kind)
    BY <1>0, <1>4, <2>1, <2>2, ProduceBalanced
  <2> QED
    BY <1>1, <2>1, <2>3 DEF Listed, Made
<1>8. m.addr = a /\ Good(m, really)
  BY DEF Made, Good, Held
<1> HIDE DEF m
<1>9. ToSet(t.elems) = (ToSet(c.elems) \ {e}) \cup {m} /\ DistinctIn(t.elems)
  <2>1. \A r \in ToSet(c.elems) : r.addr = m.addr => r = c.elems[1]
    BY <1>3, <1>5, <1>6, <1>8
  <2> QED
    BY <1>3, <1>4, <1>6, <1>7, <2>1, SetReplace
<1>10. e \notin ToSet(s.elems)
  BY <1>2, <1>5
<1>11. ToSet(t.elems) = ToSet(s.elems) \cup {m}
  BY <1>6, <1>9, <1>10
<1>12. Sound(t, really, NoBt)
  BY <1>7, <1>8, <1>9, <1>11 DEF Sound
<1>13. mut_resource_is_new(c.elems[mut_resources_lookup(c, a)])
  BY <1>1, <1>2, <1>3 DEF mut_resource_is_new
<1> QED
  BY <1>11, <1>12, <1>13 DEF m

\* Without -b the resource that is there is taken for a new one.
LEMMA RefreshSound ==
    ASSUME NEW s, NEW really, Sound(s, really, NoBt), ~Backtraces,
           NEW i \in 1..Len(s.elems), NEW p \in Producer, NEW n \in Size
    PROVE  Sound(mut_resource_make_producer(s, i, p, n, NoBt), really, NoBt)
<1> DEFINE t == mut_resource_make_producer(s, i, p, n, NoBt)
           e == s.elems[i]
           r == [addr |-> e.addr, size |-> n, producer |-> p,
                 consumer |-> e.consumer, pbt |-> NoBt, cbt |-> e.cbt]
<1>1. /\ Balanced(s, Entry(Addr, Size \cup {0}, Kind), NoBt) /\ DistinctIn(s.elems)
      /\ s.elems \in Seq(Listed)
      /\ p \in Kind /\ n \in Size \cup {0} /\ NoBt \in Bt \cup {NoBt}
  BY BalancedNumbers DEF Sound, Kind, Listed
<1>2. e \in ToSet(s.elems)
  BY <1>1, SetOfSeq
<1>3. Good(e, really) /\ e.pbt = NoBt
  BY <1>2 DEF Sound, Good
<1>4. /\ Balanced(t, Listed, NoBt) /\ t.elems = [s.elems EXCEPT ![i] = r] /\ r \in Listed
  BY <1>1, <1>3, ProduceBalanced DEF Listed
<1>5. r.addr = e.addr /\ Good(r, really)
  BY <1>3 DEF Good
<1> HIDE DEF r, t
<1>6. \A x \in ToSet(s.elems) : x.addr = r.addr => x = s.elems[i]
  BY <1>1, <1>2, <1>5, SetOfSeq DEF DistinctIn
<1>7. DistinctIn(t.elems) /\ ToSet(t.elems) = (ToSet(s.elems) \ {e}) \cup {r}
  BY <1>1, <1>4, <1>6, SetReplace
<1> QED
  BY <1>4, <1>5, <1>7 DEF Sound, t

\* What a resource becomes that c deletes.
Gone(e, c, b) == [addr |-> e.addr, size |-> e.size, producer |-> e.producer,
                  consumer |-> c, pbt |-> e.pbt, cbt |-> b]

\* mut_resources_really_delete_resource.
LEMMA UnlinkSound ==
    ASSUME NEW s, NEW really, NEW b, Sound(s, really, b),
           NEW i \in 1..Len(s.elems), NEW e, e = s.elems[i], e.consumer = NoAction,
           NEW t, t = mut_resources_really_delete_resource(s, i)
    PROVE  Sound(t, really, b) /\ ToSet(t.elems) = ToSet(s.elems) \ {e}
<1>1. /\ Balanced(s, Entry(Addr, Size \cup {0}, Kind), b) /\ DistinctIn(s.elems)
      /\ s.elems \in Seq(Listed) /\ s \in ListOf(Listed)
  BY BalancedNumbers DEF Sound, Listed
<1>2. e \in ToSet(s.elems)
  BY <1>1, SetOfSeq
<1>3. e.cbt = NoBt
  BY <1>2 DEF Sound, Good
<1>4. mut_resources_lookup(s, e.addr) = i
  BY <1>1, LookupOwn
<1>5. Balanced(t, Listed, b) /\ t.elems = RemoveAt(s.elems, i)
  BY <1>1, <1>3, <1>4, UnlinkBalanced DEF Listed
<1>6. ToSet(t.elems) = ToSet(s.elems) \ {e} /\ DistinctIn(t.elems)
  BY <1>1, <1>5, SetRemove
<1> QED
  BY <1>5, <1>6 DEF Sound

\* The resources of t are those of s, with r in the place of e.
Swapped(s, t, e, r) == ToSet(t.elems) = (ToSet(s.elems) \ {e}) \cup {r}

\* mut_resources_mark_as_free.
LEMMA MarkSound ==
    ASSUME NEW s, NEW really, NEW b, Sound(s, really, b), ~really, Held(b),
           NEW i \in 1..Len(s.elems), NEW c \in Producer \cup Consumer,
           NEW e, e = s.elems[i], e.consumer = NoAction, NEW r, r = Gone(e, c, b),
           NEW t, t = mut_resources_mark_as_free(s, i, c, b)
    PROVE  Sound(t, really, b) /\ Swapped(s, t, e, r)
<1>1. /\ Balanced(s, Entry(Addr, Size \cup {0}, Kind), b) /\ DistinctIn(s.elems)
      /\ s.elems \in Seq(Listed) /\ c \in Kind /\ c # NoAction /\ b \in Bt \cup {NoBt}
  BY BalancedNumbers, ActionAssumption DEF Sound, Kind, Listed, Held
<1>2. e \in ToSet(s.elems)
  BY <1>1, SetOfSeq
<1>3. Good(e, really) /\ e.cbt = NoBt
  BY <1>2 DEF Sound, Good
<1>4. Balanced(t, Listed, b) /\ t.elems = [s.elems EXCEPT ![i] = r] /\ r \in Listed
  BY <1>1, <1>3, MarkBalanced DEF Listed, Gone
<1>5. r.addr = e.addr /\ Good(r, really)
  BY <1>1, <1>3 DEF Good, Gone, Held
<1>6. \A x \in ToSet(s.elems) : x.addr = r.addr => x = s.elems[i]
  BY <1>1, <1>2, <1>5, SetOfSeq DEF DistinctIn
<1>7. DistinctIn(t.elems) /\ ToSet(t.elems) = (ToSet(s.elems) \ {e}) \cup {r}
  <2>1. /\ ToSet([s.elems EXCEPT ![i] = r]) = (ToSet(s.elems) \ {s.elems[i]}) \cup {r}
        /\ DistinctIn([s.elems EXCEPT ![i] = r])
    BY <1>1, <1>4, <1>6, SetReplace
  <2> QED
    BY <1>4, <2>1
<1> QED
  BY <1>4, <1>5, <1>7 DEF Sound, Swapped

\* The handler closes its backtrace.
LEMMA ClosedSound ==
    ASSUME NEW s, NEW really, NEW b, Sound(s, really, b), Held(b)
    PROVE  LET t == mut_backtrace_close(s, b)
           IN  Sound(t, really, NoBt) /\ t.elems = s.elems
  BY CloseBalanced DEF Sound, Held

\* A resource that is available is given another address and size.
LEMMA MoveSound ==
    ASSUME NEW s, NEW really, NEW b, Sound(s, really, b), Held(b), NEW i \in 1..Len(s.elems),
           NEW a \in Addr, a = s.elems[i].addr \/ At(s, a) = {},
           NEW p \in Producer, NEW n \in Size,
           NEW e, e = s.elems[i], e.consumer = NoAction, NEW m, m = Made(a, p, n, b),
           NEW q, q = [s.elems EXCEPT ![i] = m],
           NEW u, u = mut_backtrace_close(s, e.pbt),
           NEW t, t = [u EXCEPT !.elems = q]
    PROVE  Sound(t, really, NoBt) /\ Swapped(s, t, e, m)
<1>1. /\ Balanced(s, Entry(Addr, Size \cup {0}, Kind), b) /\ DistinctIn(s.elems)
      /\ s.elems \in Seq(Listed) /\ b \in Bt \cup {NoBt} /\ s \in ListOf(Listed)
      /\ p \in Kind /\ n \in Size \cup {0} /\ NoAction \in Kind
  BY BalancedNumbers DEF Sound, Kind, Listed, Held
<1>2. e \in ToSet(s.elems)
  BY <1>1, SetOfSeq
<1>3. e.consumer = NoAction /\ e.cbt = NoBt
  BY <1>2 DEF Sound, Good
<1>4. /\ m \in Listed /\ m.addr = a /\ m.consumer = NoAction /\ m.cbt = NoBt /\ m.pbt = b
      /\ Good(m, really)
  BY <1>1 DEF Made, Listed, Entry, Good, Held
<1>5. Balanced(t, Listed, NoBt) /\ t.elems = q
  <2>1. m \in Entry(Addr, Size \cup {0}, Kind)
    BY <1>4 DEF Listed
  <2>2. /\ s.elems[i].consumer = NoAction /\ s.elems[i].cbt = NoBt
        /\ u = mut_backtrace_close(s, s.elems[i].pbt)
    BY <1>3
  <2>3. Balanced(t, Entry(Addr, Size \cup {0}, Kind), NoBt) /\ t.elems = q
    BY <1>1, <1>4, <2>1, <2>2, ReplaceBalanced
  <2> QED
    BY <2>3 DEF Listed
<1>6. \A x \in ToSet(s.elems) : x.addr = m.addr => x = s.elems[i]
  <2>1. CASE a = e.addr
    BY <1>1, <1>2, <1>4, <2>1, SetOfSeq DEF DistinctIn
  <2>2. CASE At(s, a) = {}
    BY <1>1, <1>4, <2>2, Lookup
  <2> QED
    BY <2>1, <2>2
<1>7. DistinctIn(t.elems) /\ ToSet(t.elems) = (ToSet(s.elems) \ {e}) \cup {m}
  <2>1. /\ ToSet([s.elems EXCEPT ![i] = m]) = (ToSet(s.elems) \ {s.elems[i]}) \cup {m}
        /\ DistinctIn([s.elems EXCEPT ![i] = m])
    BY <1>1, <1>4, <1>6, SetReplace
  <2>2. t.elems = [s.elems EXCEPT ![i] = m]
    BY <1>5
  <2> QED
    BY <2>1, <2>2
<1>8. Sound(t, really, NoBt)
  BY <1>4, <1>5, <1>7 DEF Sound
<1> QED
  BY <1>7, <1>8 DEF Swapped

-----------------------------------------------------------------------------
(* the map *)

\* What the map says of a resource, and of an address of the list s.
View(r) == IF r.consumer = NoAction
             THEN [state |-> "active", producer |-> r.producer, size |-> r.size]
             ELSE [state |-> "consumed", producer |-> r.producer, size |-> r.size,
                   consumer |-> r.consumer]
Absent == [state |-> "absent"]
MapIn(s, a) == IF At(s, a) = {} THEN Absent ELSE View(s.elems[mut_resources_lookup(s, a)])

\* There is one resource to look up, or none.
LEMMA MapView ==
    ASSUME NEW R, NEW s \in ListOf(R), DistinctIn(s.elems), NEW a
    PROVE  /\ \A r \in ToSet(s.elems) : r.addr = a => MapIn(s, a) = View(r)
           /\ (\A r \in ToSet(s.elems) : r.addr # a) => MapIn(s, a) = Absent
<1>1. s.elems \in Seq(R)
  BY DEF ListOf
<1>2. ASSUME NEW r \in ToSet(s.elems), r.addr = a PROVE MapIn(s, a) = View(r)
  <2>1. PICK i \in 1..Len(s.elems) : s.elems[i] = r
    BY <1>1, SetOfSeq
  <2>2. mut_resources_lookup(s, a) = i
    BY <1>2, <2>1, LookupOwn
  <2>3. At(s, a) # {}
    BY <1>2, Lookup
  <2> QED
    BY <2>1, <2>2, <2>3 DEF MapIn
<1>3. (\A r \in ToSet(s.elems) : r.addr # a) => At(s, a) = {}
  BY Lookup
<1> QED
  BY <1>2, <1>3 DEF MapIn

\* What the map says of an address does not depend on the other resources.
LEMMA MapSame ==
    ASSUME NEW R, NEW s \in ListOf(R), DistinctIn(s.elems),
           NEW t \in ListOf(R), DistinctIn(t.elems), NEW a,
           \A r : r.addr = a => (r \in ToSet(s.elems) <=> r \in ToSet(t.elems))
    PROVE  MapIn(s, a) = MapIn(t, a)
<1>1. CASE \E r \in ToSet(s.elems) : r.addr = a
  <2>1. PICK r \in ToSet(s.elems) : r.addr = a
    BY <1>1
  <2>2. r \in ToSet(t.elems)
    BY <2>1
  <2> QED
    BY <2>1, <2>2, MapView
<1>2. CASE \A r \in ToSet(s.elems) : r.addr # a
  <2>1. \A r \in ToSet(t.elems) : r.addr # a
    BY <1>2
  <2> QED
    BY <1>2, <2>1, MapView
<1> QED
  BY <1>1, <1>2

\* A resource more is one entry more.
LEMMA MapEnter ==
    ASSUME NEW R, NEW s \in ListOf(R), DistinctIn(s.elems),
           NEW t \in ListOf(R), DistinctIn(t.elems),
           NEW m, ToSet(t.elems) = ToSet(s.elems) \cup {m},
           \A r \in ToSet(s.elems) : r.addr # m.addr, NEW x
    PROVE  /\ MapIn(s, m.addr) = Absent
           /\ MapIn(t, x) = IF x = m.addr THEN View(m) ELSE MapIn(s, x)
<1>1. MapIn(s, m.addr) = Absent
  BY MapView
<1>2. m \in ToSet(t.elems)
  OBVIOUS
<1>3. CASE x = m.addr
  BY <1>2, <1>3, MapView
<1>4. CASE x # m.addr
  <2>1. \A r : r.addr = x => (r \in ToSet(s.elems) <=> r \in ToSet(t.elems))
    BY <1>4
  <2>2. MapIn(s, x) = MapIn(t, x)
    BY <2>1, MapSame
  <2> QED
    BY <1>1, <1>4, <2>2
<1> QED
  BY <1>1, <1>3, <1>4

\* A resource less is one entry less.
LEMMA MapRemove ==
    ASSUME NEW R, NEW s \in ListOf(R), DistinctIn(s.elems),
           NEW t \in ListOf(R), DistinctIn(t.elems),
           NEW e \in ToSet(s.elems), ToSet(t.elems) = ToSet(s.elems) \ {e}, NEW x
    PROVE  /\ MapIn(s, e.addr) = View(e)
           /\ MapIn(t, x) = IF x = e.addr THEN Absent ELSE MapIn(s, x)
<1>1. MapIn(s, e.addr) = View(e)
  BY MapView
<1>2. CASE x = e.addr
  <2>1. \A r \in ToSet(t.elems) : r.addr # x
    <3> SUFFICES ASSUME NEW r \in ToSet(s.elems), r.addr = e.addr PROVE r = e
      BY <1>2
    <3>1. s.elems \in Seq(R)
      BY DEF ListOf
    <3> QED
      BY <3>1, SetOfSeq DEF DistinctIn
  <2> QED
    BY <1>2, <2>1, MapView
<1>3. CASE x # e.addr
  <2>1. \A r : r.addr = x => (r \in ToSet(s.elems) <=> r \in ToSet(t.elems))
    BY <1>3
  <2>2. MapIn(s, x) = MapIn(t, x)
    BY <2>1, MapSame
  <2> QED
    BY <1>1, <1>3, <2>2
<1> QED
  BY <1>1, <1>2, <1>3

\* A resource that becomes another, with its address or with a new one.
LEMMA MapReplace ==
    ASSUME NEW R, NEW s \in ListOf(R), DistinctIn(s.elems),
           NEW t \in ListOf(R), DistinctIn(t.elems),
           NEW e \in ToSet(s.elems), NEW m, ToSet(t.elems) = (ToSet(s.elems) \ {e}) \cup {m},
           \A r \in ToSet(s.elems) : r.addr = m.addr => r = e, NEW x
    PROVE  /\ MapIn(s, e.addr) = View(e)
           /\ m.addr # e.addr => MapIn(s, m.addr) = Absent
           /\ MapIn(t, x) = IF x = m.addr THEN View(m)
                            ELSE IF x = e.addr THEN Absent ELSE MapIn(s, x)
<1>1. MapIn(s, e.addr) = View(e)
  BY MapView
<1>2. m.addr # e.addr => MapIn(s, m.addr) = Absent
  BY MapView
<1>3. CASE x = m.addr
  <2>1. m \in ToSet(t.elems)
    OBVIOUS
  <2> QED
    BY <1>3, <2>1, MapView
<1>4. CASE x # m.addr /\ x = e.addr
  <2>1. \A r \in ToSet(t.elems) : r.addr # x
    <3> SUFFICES ASSUME NEW r \in ToSet(s.elems), r.addr = e.addr PROVE r = e
      BY <1>4
    <3>1. s.elems \in Seq(R)
      BY DEF ListOf
    <3> QED
      BY <3>1, SetOfSeq DEF DistinctIn
  <2> QED
    BY <1>4, <2>1, MapView
<1>5. CASE x # m.addr /\ x # e.addr
  <2>1. \A r : r.addr = x => (r \in ToSet(s.elems) <=> r \in ToSet(t.elems))
    BY <1>5
  <2>2. MapIn(s, x) = MapIn(t, x)
    BY <2>1, MapSame
  <2> QED
    BY <1>1, <1>2, <1>5, <2>2
<1> QED
  BY <1>1, <1>2, <1>3, <1>4, <1>5

-----------------------------------------------------------------------------
(* the steps *)

\* The map before and after a step.
LEMMA MapOfIs ==
    ASSUME NEW a
    PROVE  MapOf(a) = MapIn(rs, a) /\ MapOf(a)' = MapIn(rs', a)
  BY DEF MapOf, MapIn, View, Absent

\* A step of the list, as a step of the map.
MapStep == Backtraces => [Map!Next]_(Map!vars)

\* The list between two calls.
LEMMA SoundList ==
    ASSUME NEW s, NEW really, NEW h, Sound(s, really, h)
    PROVE  /\ s \in ListOf(Listed) /\ s.elems \in Seq(Listed) /\ DistinctIn(s.elems)
           /\ \A i \in 1..Len(s.elems) : s.elems[i] \in ToSet(s.elems) /\ Good(s.elems[i], really)
           /\ \A r \in ToSet(s.elems) : r.addr \in Addr
<1>1. s \in ListOf(Listed) /\ s.elems \in Seq(Listed) /\ DistinctIn(s.elems)
  BY BalancedNumbers DEF Sound
<1>2. \A i \in 1..Len(s.elems) : s.elems[i] \in ToSet(s.elems)
  BY <1>1, SetOfSeq
<1>3. ToSet(s.elems) \subseteq Listed
  BY <1>1, SetOfSeq
<1>4. \A r \in ToSet(s.elems) : r.addr \in Addr
  BY <1>3, EntryFields DEF Listed
<1> QED
  BY <1>1, <1>2, <1>4 DEF Sound

\* The map is empty when the list is.
LEMMA ClosedMap ==
    ASSUME IInv, open, NEW s, NEW h, Balanced(s, Listed, h),
           rs' = mut_resources_close(s), open' = FALSE, UNCHANGED really_delete
    PROVE  IInv' /\ Map!Close
<1>1. /\ rs'.elems = <<>> /\ rs'.ref = [b \in Bt |-> IF b = h THEN 1 ELSE 0]
      /\ rs'.n_active_elems = s.n_active_elems /\ rs'.n_consumed_elems = s.n_consumed_elems
  BY CloseAll
<1>2. s.n_active_elems \in Nat /\ s.n_consumed_elems \in Nat
  BY BalancedNumbers
<1>3. IInv'
  <2>1. rs'.ref \in [Bt -> Nat]
    BY <1>1
  <2> QED
    BY <1>1, <1>2, <2>1 DEF IInv
<1>4. \A a : At(rs', a) = {}
  BY <1>1 DEF At
<1>5. \A a \in Addr : MapOf(a)' = Absent
  BY <1>4, MapOfIs DEF MapIn
<1>6. [a \in Addr |-> MapOf(a)]' = [a \in Addr |-> Absent]
  BY <1>5
<1> QED
  BY <1>3, <1>6 DEF Map!Close, Map!Absent, Absent

\* mut_malloc_success and mut_calloc_success.
LEMMA ProduceStep ==
    ASSUME IInv, NEW b \in Fresh, NEW a \in Addr, NEW p \in Producer, NEW n \in Size,
           Produce(a, p, n, b)
    PROVE  IInv' /\ MapStep
<1> DEFINE o == Opened(b)
           s == mut_resources_create_resource(o, a)
           i == mut_resources_lookup(s, a)
           m == Made(a, p, n, b)
<1>1. open /\ Sound(rs, really_delete, NoBt) /\ UNCHANGED really_delete /\ really_delete \in BOOLEAN
  BY DEF Produce, IInv
<1>2. Held(b) /\ Sound(o, really_delete, b) /\ o.elems = rs.elems
  BY <1>1, OpenedSound
<1>3. \/ /\ mut_resource_is_new(s.elems[i])
         /\ rs' = mut_resource_make_producer(s, i, p, n, b) /\ open' = open
      \/ /\ ~mut_resource_is_new(s.elems[i])
         /\ rs' = mut_resources_close(s) /\ open' = FALSE
  BY DEF Produce
<1> HIDE DEF o
<1>4. CASE At(o, a) = {}
  <2>1. /\ mut_resource_is_new(s.elems[i])
        /\ LET t == mut_resource_make_producer(s, i, p, n, b)
           IN  Sound(t, really_delete, NoBt) /\ ToSet(t.elems) = ToSet(o.elems) \cup {m}
    BY <1>2, <1>4, EnterSound
  <2>2. /\ Sound(rs', really_delete, NoBt) /\ ToSet(rs'.elems) = ToSet(rs.elems) \cup {m}
        /\ open' = open
    BY <1>2, <1>3, <2>1
  <2>3. IInv'
    BY <1>1, <2>2 DEF IInv
  <2>4. \A r \in ToSet(rs.elems) : r.addr # a
    <3>1. \A r \in ToSet(o.elems) : r.addr # a
      BY <1>2, <1>4, SoundList, Lookup
    <3> QED
      BY <1>2, <3>1
  <2>5. m.addr = a /\ View(m) = [state |-> "active", producer |-> p, size |-> n]
    BY DEF Made, View
  <2> HIDE DEF m
  <2>6. \A x : /\ MapIn(rs, a) = Absent
               /\ MapIn(rs', x) = IF x = a THEN View(m) ELSE MapIn(rs, x)
    BY <1>1, <2>2, <2>4, <2>5, SoundList, MapEnter
  <2>7. [x \in Addr |-> MapOf(x)]' = [[x \in Addr |-> MapOf(x)] EXCEPT ![a] = View(m)]
    BY <2>6, MapOfIs
  <2>8. Map!Enter(a, p, n)
    BY <1>1, <2>5, <2>6, <2>7, MapOfIs DEF Map!Enter, Map!Absent, Map!Active, Absent
  <2> QED
    BY <2>3, <2>8 DEF MapStep, Map!Next
<1>5. CASE At(o, a) # {}
  <2>1. s = o
    BY <1>5 DEF mut_resources_create_resource
  <2>2. i \in 1..Len(o.elems)
    BY <1>2, <1>5, <2>1, SoundList, Lookup
  <2>3. Good(o.elems[i], really_delete)
    BY <1>2, <2>2, SoundList
  <2> HIDE DEF s, i
  <2>4. CASE mut_resource_is_new(o.elems[i])
    <3>1. ~Backtraces /\ b = NoBt
      BY <1>2, <2>3, <2>4, BtAssumption DEF Good, mut_resource_is_new, Held, NoBt
    <3>2. rs' = mut_resource_make_producer(o, i, p, n, NoBt) /\ open' = open
      BY <1>3, <2>1, <2>4, <3>1
    <3>3. Sound(rs', really_delete, NoBt)
      BY <1>2, <2>2, <3>1, <3>2, RefreshSound
    <3> QED
      BY <1>1, <3>1, <3>2, <3>3 DEF IInv, MapStep
  <2>5. CASE ~mut_resource_is_new(o.elems[i])
    <3>1. rs' = mut_resources_close(o) /\ open' = FALSE
      BY <1>3, <2>1, <2>5
    <3>2. Balanced(o, Listed, b)
      BY <1>2 DEF Sound
    <3>3. IInv' /\ Map!Close
      BY <1>1, <3>1, <3>2, ClosedMap
    <3> QED
      BY <3>3 DEF MapStep, Map!Next
  <2> QED
    BY <2>4, <2>5
<1> QED
  BY <1>4, <1>5

\* mut_do_consumer.
LEMMA ConsumeStep ==
    ASSUME IInv, NEW b \in Fresh, NEW i \in 1..Len(rs.elems), NEW c \in Consumer,
           Consume(i, c, b)
    PROVE  IInv' /\ MapStep
<1> DEFINE o == Opened(b)
           t == mut_resources_delete_resource(o, really_delete, i, c, b)
           e == rs.elems[i]
           g == Gone(e, c, b)
<1>1. open /\ Sound(rs, really_delete, NoBt) /\ really_delete \in BOOLEAN
  BY DEF Consume, IInv
<1>2. Held(b) /\ Sound(o, really_delete, b) /\ o.elems = rs.elems
  BY <1>1, OpenedSound
<1>3. /\ e.consumer = NoAction /\ rs' = mut_backtrace_close(t, b)
      /\ UNCHANGED <<really_delete, open>>
  BY DEF Consume, mut_resources_resource_deleted
<1>4. /\ Sound(t, really_delete, b)
      /\ really_delete => ToSet(t.elems) = ToSet(rs.elems) \ {e}
      /\ ~really_delete => ToSet(t.elems) = (ToSet(rs.elems) \ {e}) \cup {g}
  <2>1. /\ i \in 1..Len(o.elems) /\ e = o.elems[i] /\ e.consumer = NoAction
        /\ c \in Producer \cup Consumer /\ g = Gone(e, c, b)
    BY <1>2, <1>3
  <2>2. Sound(o, really_delete, b) /\ Held(b)
    BY <1>2
  <2> HIDE DEF o, e, g
  <2>3. CASE really_delete
    <3>1. t = mut_resources_really_delete_resource(o, i)
      BY <2>3 DEF mut_resources_delete_resource
    <3> HIDE DEF t
    <3>2. Sound(t, really_delete, b) /\ ToSet(t.elems) = ToSet(o.elems) \ {e}
      BY <2>1, <2>2, <3>1, UnlinkSound
    <3> QED
      BY <1>2, <2>3, <3>2
  <2>4. CASE ~really_delete
    <3>1. t = mut_resources_mark_as_free(o, i, c, b)
      BY <2>4 DEF mut_resources_delete_resource
    <3> HIDE DEF t
    <3>2. Sound(t, really_delete, b) /\ Swapped(o, t, e, g)
      BY <2>1, <2>2, <2>4, <3>1, MarkSound
    <3> QED
      BY <1>2, <2>4, <3>2 DEF Swapped
  <2> QED
    BY <2>3, <2>4
<1> HIDE DEF t
<1>5. Sound(rs', really_delete, NoBt) /\ rs'.elems = t.elems
  BY <1>2, <1>3, <1>4, ClosedSound
<1>6. IInv'
  BY <1>1, <1>3, <1>5 DEF IInv
<1>7. e \in ToSet(rs.elems) /\ e.addr \in Addr
  BY <1>1, SoundList
<1>8. View(e) = [state |-> "active", producer |-> e.producer, size |-> e.size]
  BY <1>3 DEF View
<1>9. /\ g.addr = e.addr
      /\ View(g) = [state |-> "consumed", producer |-> e.producer, size |-> e.size, consumer |-> c]
  BY ActionAssumption DEF Gone, View
<1> HIDE DEF e, g
<1>10. CASE really_delete
  <2>1. ToSet(rs'.elems) = ToSet(rs.elems) \ {e}
    BY <1>4, <1>5, <1>10
  <2>2. \A x : /\ MapIn(rs, e.addr) = View(e)
               /\ MapIn(rs', x) = IF x = e.addr THEN Absent ELSE MapIn(rs, x)
    BY <1>1, <1>5, <1>7, <2>1, SoundList, MapRemove
  <2>3. [x \in Addr |-> MapOf(x)]' = [[x \in Addr |-> MapOf(x)] EXCEPT ![e.addr] = Absent]
    BY <2>2, MapOfIs
  <2>4. Map!Delete(e.addr, c)
    BY <1>3, <1>7, <1>8, <1>10, <2>2, <2>3, MapOfIs DEF Map!Delete, Map!Absent, Absent
  <2> QED
    BY <1>6, <1>7, <2>4 DEF MapStep, Map!Next
<1>11. CASE ~really_delete
  <2>1. ToSet(rs'.elems) = (ToSet(rs.elems) \ {e}) \cup {g}
    BY <1>4, <1>5, <1>11
  <2>2. \A r \in ToSet(rs.elems) : r.addr = g.addr => r = e
    <3>1. rs.elems \in Seq(Listed) /\ DistinctIn(rs.elems)
      BY <1>1, SoundList
    <3> QED
      BY <1>7, <1>9, <3>1, SetOfSeq DEF DistinctIn
  <2>3. \A x : /\ MapIn(rs, e.addr) = View(e)
               /\ MapIn(rs', x) = IF x = e.addr THEN View(g) ELSE MapIn(rs, x)
    <3> SUFFICES ASSUME NEW x
                 PROVE  /\ MapIn(rs, e.addr) = View(e)
                        /\ MapIn(rs', x) = IF x = e.addr THEN View(g) ELSE MapIn(rs, x)
      OBVIOUS
    <3>1. /\ MapIn(rs, e.addr) = View(e)
          /\ MapIn(rs', x) = IF x = g.addr THEN View(g)
                             ELSE IF x = e.addr THEN Absent ELSE MapIn(rs, x)
      <4>1. /\ rs \in ListOf(Listed) /\ DistinctIn(rs.elems)
            /\ rs' \in ListOf(Listed) /\ DistinctIn(rs'.elems) /\ e \in ToSet(rs.elems)
        BY <1>1, <1>5, <1>7, SoundList
      <4> HIDE DEF e, g
      <4> QED
        BY ONLY <2>1, <2>2, <4>1, MapReplace
    <3> QED
      BY <1>9, <3>1
  <2>4. [x \in Addr |-> MapOf(x)]' = [[x \in Addr |-> MapOf(x)] EXCEPT ![e.addr] = View(g)]
    BY <2>3, MapOfIs
  <2>5. MapOf(e.addr) = [state |-> "active", producer |-> e.producer, size |-> e.size]
    BY <1>8, <2>3, MapOfIs
  <2> DEFINE map == [x \in Addr |-> MapOf(x)]
  <2>6. map[e.addr] = MapOf(e.addr)
    BY <1>7
  <2>7. View(g) = Map!Consumed(map[e.addr], c)
    BY <1>9, <2>5, <2>6 DEF Map!Consumed
  <2>8. Map!Delete(e.addr, c)
    <3>1. map[e.addr].state = "active"
      BY <2>5, <2>6
    <3>2. map' = [map EXCEPT ![e.addr] = IF really_delete THEN Map!Absent
                                         ELSE Map!Consumed(map[e.addr], c)]
      BY <1>11, <2>4, <2>7
    <3> QED
      BY <1>3, <3>1, <3>2 DEF Map!Delete
  <2> QED
    BY <1>6, <1>7, <2>8 DEF MapStep, Map!Next
<1> QED
  BY <1>1, <1>10, <1>11

\* mut_realloc_realloc.
LEMMA ReallocateStep ==
    ASSUME IInv, NEW b \in Fresh, NEW a \in Addr, NEW p \in Producer, NEW n \in Size,
           NEW i \in 1..Len(rs.elems), Reallocate(i, a, p, n, b)
    PROVE  IInv' /\ MapStep
<1> DEFINE o == Opened(b)
           e == rs.elems[i]
           m == Made(a, p, n, b)
           t == [mut_backtrace_close(o, o.elems[i].pbt) EXCEPT !.elems[i] = m]
<1>1. /\ open /\ really_delete /\ really_delete \in BOOLEAN /\ Sound(rs, really_delete, NoBt)
      /\ a = e.addr \/ At(rs, a) = {}
  BY DEF Reallocate, IInv
<1>2. Held(b) /\ Sound(o, really_delete, b) /\ o.elems = rs.elems
  BY <1>1, OpenedSound
<1>3. UNCHANGED <<really_delete, open>>
  BY DEF Reallocate
<1>4. rs' = t
  <2>1. o.elems[i].pbt = e.pbt
    BY <1>2
  <2>2. rs' = [mut_backtrace_close(o, e.pbt) EXCEPT !.elems[i] = m]
    BY DEF Reallocate, Made
  <2> QED
    BY <2>1, <2>2
<1>5. Sound(t, really_delete, NoBt) /\ ToSet(t.elems) = (ToSet(rs.elems) \ {e}) \cup {m}
  <2>1. a = o.elems[i].addr \/ At(o, a) = {}
    BY <1>1, <1>2 DEF At
  <2>2. i \in 1..Len(o.elems) /\ e = o.elems[i]
    BY <1>2
  <2> HIDE DEF o, e, m
  <2> DEFINE u == mut_backtrace_close(o, e.pbt)
             q == [o.elems EXCEPT ![i] = m]
  <2>3. e.pbt \in Bt \cup {NoBt}
    <3>1. e \in Entry(Addr, Size \cup {0}, Kind)
      <4>0. Sound(o, really_delete, b)
        BY <1>2
      <4>1. o \in ListOf(Listed) /\ o.elems \in Seq(Listed)
        BY <4>0, SoundList
      <4> QED
        BY <4>1, <2>2 DEF Listed
    <3> QED
      BY <3>1, EntryFields
  <2>4. u.elems = o.elems
    BY <1>2, <2>3, SoundList, CloseIs
  <2>5. t = [u EXCEPT !.elems = q]
    BY <2>2, <2>4
  <2>6. m = Made(a, p, n, b)
    BY DEF m
  <2> HIDE DEF t, u, q
  <2>7. q = [o.elems EXCEPT ![i] = m] /\ u = mut_backtrace_close(o, e.pbt)
    BY DEF q, u
  <2>8. Sound(t, really_delete, NoBt) /\ Swapped(o, t, e, m)
    <3>1. Sound(o, really_delete, b) /\ Held(b) /\ e.consumer = NoAction
      BY <1>2, <2>2, SoundList, <1>1 DEF Good
    <3> QED
      BY <2>1, <2>2, <2>5, <2>6, <2>7, <3>1, MoveSound
  <2> QED
    BY <1>2, <2>8 DEF Swapped
<1> HIDE DEF t
<1>6. IInv'
  BY <1>1, <1>3, <1>4, <1>5 DEF IInv
<1>7. e \in ToSet(rs.elems) /\ e.addr \in Addr /\ e.consumer = NoAction
  BY <1>1, SoundList DEF Good
<1>8. View(e) = [state |-> "active", producer |-> e.producer, size |-> e.size]
  BY <1>7 DEF View
<1>9. m.addr = a /\ View(m) = [state |-> "active", producer |-> p, size |-> n]
  BY DEF Made, View
<1>10. \A r \in ToSet(rs.elems) : r.addr = m.addr => r = e
  <2>1. rs.elems \in Seq(Listed) /\ DistinctIn(rs.elems) /\ rs \in ListOf(Listed)
    BY <1>1, SoundList
  <2>2. CASE a = e.addr
    BY <1>9, <2>1, <2>2, SetOfSeq DEF DistinctIn
  <2>3. CASE At(rs, a) = {}
    BY <1>9, <2>1, <2>3, Lookup
  <2> QED
    BY <1>1, <2>2, <2>3
<1> HIDE DEF e, m
<1>11. \A x : /\ MapIn(rs, e.addr) = View(e)
              /\ a # e.addr => MapIn(rs, a) = Absent
              /\ MapIn(rs', x) = IF x = a THEN View(m)
                                 ELSE IF x = e.addr THEN Absent ELSE MapIn(rs, x)
  <2> SUFFICES ASSUME NEW x
               PROVE  /\ MapIn(rs, e.addr) = View(e)
                      /\ a # e.addr => MapIn(rs, a) = Absent
                      /\ MapIn(rs', x) = IF x = a THEN View(m)
                                         ELSE IF x = e.addr THEN Absent ELSE MapIn(rs, x)
    OBVIOUS
  <2>1. /\ rs \in ListOf(Listed) /\ DistinctIn(rs.elems)
        /\ rs' \in ListOf(Listed) /\ DistinctIn(rs'.elems)
        /\ ToSet(rs'.elems) = (ToSet(rs.elems) \ {e}) \cup {m}
    BY <1>1, <1>4, <1>5, SoundList
  <2>2. /\ MapIn(rs, e.addr) = View(e)
        /\ m.addr # e.addr => MapIn(rs, m.addr) = Absent
        /\ MapIn(rs', x) = IF x = m.addr THEN View(m)
                           ELSE IF x = e.addr THEN Absent ELSE MapIn(rs, x)
    BY <1>7, <1>10, <2>1, MapReplace
  <2> QED
    BY <1>9, <2>2
<1>12. [x \in Addr |-> MapOf(x)]' =
         [[x \in Addr |-> MapOf(x)] EXCEPT ![e.addr] = Absent, ![a] = View(m)]
  BY <1>7, <1>11, MapOfIs
<1>13. /\ MapOf(e.addr) = [state |-> "active", producer |-> e.producer, size |-> e.size]
       /\ a # e.addr => MapOf(a) = Absent
  BY <1>8, <1>11, MapOfIs
<1>14. Map!Move(e.addr, a, p, n)
  BY <1>1, <1>3, <1>7, <1>9, <1>12, <1>13 DEF Map!Move, Map!Absent, Map!Active, Absent
<1> QED
  BY <1>6, <1>7, <1>14 DEF MapStep, Map!Next

\* mut_realloc_realloc_no_free.
LEMMA ReallocateNoFreeStep ==
    ASSUME IInv, NEW b \in Fresh, NEW a \in Addr, NEW p \in Producer, NEW n \in Size,
           NEW i \in 1..Len(rs.elems), ReallocateNoFree(i, a, p, n, b)
    PROVE  IInv' /\ MapStep
<1> DEFINE o == Opened(b)
           e == rs.elems[i]
           d == mut_resources_delete_resource(o, really_delete, i, p, b)
           s == mut_resources_create_resource(d, a)
           t == mut_resource_make_producer(s, mut_resources_lookup(s, a), p, n, b)
           g == Gone(e, p, b)
           m == Made(a, p, n, b)
<1>1. /\ open /\ ~really_delete /\ really_delete \in BOOLEAN /\ Sound(rs, really_delete, NoBt) /\ At(rs, a) = {}
      /\ e.consumer = NoAction
  BY DEF ReallocateNoFree, IInv, mut_resources_resource_deleted
<1>2. Held(b) /\ Sound(o, really_delete, b) /\ o.elems = rs.elems
  BY <1>1, OpenedSound
<1>3. UNCHANGED <<really_delete, open>> /\ rs' = t
  BY DEF ReallocateNoFree
<1>4. Sound(d, really_delete, b) /\ ToSet(d.elems) = (ToSet(rs.elems) \ {e}) \cup {g}
  <2> HIDE DEF o
  <2>1. /\ i \in 1..Len(o.elems) /\ e = o.elems[i] /\ e.consumer = NoAction
        /\ p \in Producer \cup Consumer /\ g = Gone(e, p, b)
    BY <1>1, <1>2
  <2>2. Sound(o, really_delete, b) /\ Held(b) /\ ~really_delete
    BY <1>1, <1>2
  <2>3. d = mut_resources_mark_as_free(o, i, p, b)
    BY <1>1 DEF mut_resources_delete_resource
  <2> HIDE DEF e, d, g
  <2>4. Sound(d, really_delete, b) /\ Swapped(o, d, e, g)
    BY <2>1, <2>2, <2>3, MarkSound
  <2> QED
    BY <1>2, <2>4 DEF Swapped
<1>5. e \in ToSet(rs.elems) /\ e.addr \in Addr
  BY <1>1, SoundList
<1>6. View(e) = [state |-> "active", producer |-> e.producer, size |-> e.size]
  BY <1>1 DEF View
<1>7. /\ g.addr = e.addr
      /\ View(g) = [state |-> "consumed", producer |-> e.producer, size |-> e.size, consumer |-> p]
  BY ActionAssumption DEF Gone, View
<1>8. m.addr = a /\ View(m) = [state |-> "active", producer |-> p, size |-> n]
  BY DEF Made, View
<1>9. \A r \in ToSet(rs.elems) : r.addr # a
  BY <1>1, SoundList, Lookup
<1> HIDE DEF e, g, d, m
<1>10. \A r \in ToSet(d.elems) : r.addr # a
  BY <1>4, <1>5, <1>7, <1>9
<1>11. At(d, a) = {}
  BY <1>4, <1>10, SoundList, Lookup
<1>12. Sound(t, really_delete, NoBt) /\ ToSet(t.elems) = ToSet(d.elems) \cup {m}
  <2>1. /\ s = mut_resources_create_resource(d, a) /\ m = Made(a, p, n, b)
        /\ t = mut_resource_make_producer(s, mut_resources_lookup(s, a), p, n, b)
    BY DEF m
  <2>2. Sound(d, really_delete, b) /\ Held(b)
    BY <1>2, <1>4
  <2> HIDE DEF s, t
  <2> QED
    BY <1>11, <2>1, <2>2, EnterSound
<1> HIDE DEF t
<1>13. IInv'
  BY <1>1, <1>3, <1>12 DEF IInv
<1>14. \A r \in ToSet(rs.elems) : r.addr = g.addr => r = e
  <2>1. rs.elems \in Seq(Listed) /\ DistinctIn(rs.elems)
    BY <1>1, SoundList
  <2> QED
    BY <1>5, <1>7, <2>1, SetOfSeq DEF DistinctIn
<1>15. \A x : /\ MapIn(rs, e.addr) = View(e)
              /\ MapIn(d, x) = IF x = e.addr THEN View(g) ELSE MapIn(rs, x)
  <2> SUFFICES ASSUME NEW x
               PROVE  /\ MapIn(rs, e.addr) = View(e)
                      /\ MapIn(d, x) = IF x = e.addr THEN View(g) ELSE MapIn(rs, x)
    OBVIOUS
  <2>1. /\ MapIn(rs, e.addr) = View(e)
        /\ MapIn(d, x) = IF x = g.addr THEN View(g)
                         ELSE IF x = e.addr THEN Absent ELSE MapIn(rs, x)
    <3>1. /\ rs \in ListOf(Listed) /\ DistinctIn(rs.elems)
          /\ d \in ListOf(Listed) /\ DistinctIn(d.elems)
      BY <1>1, <1>4, SoundList
    <3> QED
      BY <1>4, <1>5, <1>14, <3>1, MapReplace
  <2> QED
    BY <1>7, <2>1
<1>16. \A x : /\ MapIn(d, a) = Absent
              /\ MapIn(t, x) = IF x = a THEN View(m) ELSE MapIn(d, x)
  <2> SUFFICES ASSUME NEW x
               PROVE  /\ MapIn(d, a) = Absent
                      /\ MapIn(t, x) = IF x = a THEN View(m) ELSE MapIn(d, x)
    OBVIOUS
  <2>1. /\ d \in ListOf(Listed) /\ DistinctIn(d.elems)
        /\ t \in ListOf(Listed) /\ DistinctIn(t.elems)
    BY <1>4, <1>12, SoundList
  <2>2. /\ MapIn(d, m.addr) = Absent
        /\ MapIn(t, x) = IF x = m.addr THEN View(m) ELSE MapIn(d, x)
    BY <1>8, <1>10, <1>12, <2>1, MapEnter
  <2> QED
    BY <1>8, <2>2
<1>17. [x \in Addr |-> MapOf(x)]' =
         [[x \in Addr |-> MapOf(x)] EXCEPT ![e.addr] = View(g), ![a] = View(m)]
  BY <1>3, <1>15, <1>16, MapOfIs
<1>18. a # e.addr
  BY <1>5, <1>9
<1>19. /\ MapOf(e.addr) = [state |-> "active", producer |-> e.producer, size |-> e.size]
       /\ MapOf(a) = Absent
  <2>1. MapOf(e.addr) = View(e)
    BY <1>15, MapOfIs
  <2>2. MapIn(d, a) = MapIn(rs, a)
    BY <1>15, <1>18
  <2>3. MapOf(a) = Absent
    BY <1>16, <2>2, MapOfIs
  <2> QED
    BY <1>6, <2>1, <2>3
<1>20. Map!Move(e.addr, a, p, n)
  <2> DEFINE map == [x \in Addr |-> MapOf(x)]
  <2>1. map[e.addr] = MapOf(e.addr) /\ map[a] = MapOf(a)
    BY <1>5
  <2>2. View(g) = Map!Consumed(map[e.addr], p) /\ View(m) = Map!Active(p, n)
    BY <1>7, <1>8, <1>19, <2>1 DEF Map!Consumed, Map!Active
  <2>3. map[e.addr].state = "active" /\ map[a] = Map!Absent
    BY <1>19, <2>1 DEF Map!Absent, Absent
  <2>4. map' = [map EXCEPT ![e.addr] = IF really_delete THEN Map!Absent
                                       ELSE Map!Consumed(map[e.addr], p),
                           ![a] = Map!Active(p, n)]
    BY <1>1, <1>17, <2>2
  <2> QED
    BY <1>3, <2>3, <2>4 DEF Map!Move
<1> QED
  BY <1>5, <1>13, <1>20 DEF MapStep, Map!Next

-----------------------------------------------------------------------------
(* the theorems *)

\* The first state.
LEMMA InitSound == Init => IInv
<1> SUFFICES ASSUME Init PROVE IInv
  OBVIOUS
<1>1. rs = mut_resources_open /\ rs.elems = <<>>
  BY DEF Init, mut_resources_open
<1>2. Balanced(rs, Listed, NoBt) /\ DistinctIn(rs.elems)
  BY <1>1, OpenAll
<1>3. ToSet(rs.elems) = {}
  BY <1>1 DEF ToSet
<1> QED
  BY <1>2, <1>3 DEF Init, IInv, Sound

\* Every step keeps the invariant and is one of the map, or changes nothing.
LEMMA StepSound == IInv /\ [Next]_vars => IInv' /\ MapStep
<1> SUFFICES ASSUME IInv, [Next]_vars PROVE IInv' /\ MapStep
  OBVIOUS
<1>1. CASE UNCHANGED vars
  <2>1. UNCHANGED <<rs, really_delete, open>>
    BY <1>1 DEF vars
  <2>2. \A a \in Addr : MapOf(a)' = MapOf(a)
    BY <2>1, MapOfIs
  <2>3. UNCHANGED Map!vars
    BY <2>1, <2>2 DEF Map!vars
  <2>4. IInv'
    BY <2>1 DEF IInv
  <2> QED
    BY <2>3, <2>4 DEF MapStep
<1>2. CASE Close
  <2>1. open /\ rs' = mut_resources_close(rs) /\ open' = FALSE /\ UNCHANGED really_delete
    BY <1>2 DEF Close
  <2>2. Balanced(rs, Listed, NoBt)
    BY <2>1 DEF IInv, Sound
  <2>3. IInv' /\ Map!Close
    BY <2>1, <2>2, ClosedMap
  <2> QED
    BY <2>3 DEF MapStep, Map!Next
<1>3. CASE \E b \in Fresh, a \in Addr, p \in Producer, n \in Size :
             \/ Produce(a, p, n, b)
             \/ \E i \in 1..Len(rs.elems) : Reallocate(i, a, p, n, b)
             \/ \E i \in 1..Len(rs.elems) : ReallocateNoFree(i, a, p, n, b)
  BY <1>3, ProduceStep, ReallocateStep, ReallocateNoFreeStep
<1>4. CASE \E b \in Fresh, i \in 1..Len(rs.elems), c \in Consumer : Consume(i, c, b)
  BY <1>4, ConsumeStep
<1> QED
  BY <1>1, <1>2, <1>3, <1>4 DEF Next

THEOREM ListInvariant == Spec => []IInv
<1>1. IInv /\ [Next]_vars => IInv'
  BY StepSound
<1> QED
  BY <1>1, InitSound, PTL DEF Spec

\* The list is well formed: its resources are made and deleted by the actions
\* there are, and no count goes below zero.
THEOREM TypeOKHolds == Spec => []TypeOK
<1>1. IInv => TypeOK
  <2> SUFFICES ASSUME IInv PROVE TypeOK
    OBVIOUS
  <2>1. CASE open
    <3>1. Sound(rs, really_delete, NoBt)
      BY <2>1 DEF IInv
    <3>2. /\ rs.elems \in Seq(Listed) /\ rs.n_active_elems \in Nat /\ rs.n_consumed_elems \in Nat
          /\ rs.ref \in [Bt -> Nat]
      BY <3>1, BalancedNumbers DEF Sound
    <3>3. \A i \in 1..Len(rs.elems) : rs.elems[i] \in Resource
      <4> SUFFICES ASSUME NEW i \in 1..Len(rs.elems) PROVE rs.elems[i] \in Resource
        OBVIOUS
      <4>1. rs.elems[i] \in Listed
        BY <3>2
      <4>2. rs.elems[i].producer \in Producer
        BY <3>1, SoundList DEF Good
      <4>3. /\ rs.elems[i] = [addr |-> rs.elems[i].addr, size |-> rs.elems[i].size,
                              producer |-> rs.elems[i].producer, consumer |-> rs.elems[i].consumer,
                              pbt |-> rs.elems[i].pbt, cbt |-> rs.elems[i].cbt]
            /\ rs.elems[i].addr \in Addr /\ rs.elems[i].size \in Size \cup {0}
            /\ rs.elems[i].consumer \in Kind
            /\ rs.elems[i].pbt \in Bt \cup {NoBt} /\ rs.elems[i].cbt \in Bt \cup {NoBt}
        BY <4>1 DEF Listed, Entry
      <4>4. rs.elems[i].consumer \in Consumer \cup Producer \cup {NoAction}
        BY <4>3 DEF Kind
      <4> QED
        BY <4>2, <4>3, <4>4 DEF Resource
    <3>4. rs.elems \in Seq(Resource)
      BY <3>2, <3>3
    <3> QED
      BY <3>2, <3>4 DEF IInv, TypeOK
  <2>2. CASE ~open
    <3>1. rs.elems \in Seq(Resource)
      <4>1. rs.elems = <<>>
        BY <2>2 DEF IInv
      <4>2. <<>> \in Seq(Resource)
        OBVIOUS
      <4> QED
        BY <4>1, <4>2, Zenon
    <3> QED
      BY <2>2, <3>1 DEF IInv, TypeOK
  <2> QED
    BY <2>1, <2>2 DEF IInv
<1> QED
  BY <1>1, ListInvariant, PTL

\* mut_resources_iter_open returns the number of resources that
\* mut_resources_iter_read then finds, with and without the deleted ones.
THEOREM CountsAreIteratedHolds == Spec => []CountsAreIterated
<1>1. IInv => CountsAreIterated
  <2> SUFFICES ASSUME IInv, open, NEW all \in BOOLEAN
               PROVE  mut_resources_iter_open(rs, all) = Cardinality(mut_resources_iter(rs, all))
    BY DEF CountsAreIterated
  <2> DEFINE A == Places(rs.elems, Available(Listed))
             D == Places(rs.elems, Deleted(Listed))
  <2>1. /\ rs.elems \in Seq(Listed)
        /\ rs.n_active_elems = Number(rs.elems, Available(Listed))
        /\ rs.n_consumed_elems = Number(rs.elems, Deleted(Listed))
    BY BalancedNumbers DEF IInv, Sound, Balanced
  <2>2. /\ IsFiniteSet(A) /\ Cardinality(A) = rs.n_active_elems
        /\ IsFiniteSet(D) /\ Cardinality(D) = rs.n_consumed_elems
        /\ rs.n_active_elems \in Nat /\ rs.n_consumed_elems \in Nat
    BY <2>1, NumberType DEF Number
  <2>3. CASE ~all
    <3>1. mut_resources_iter(rs, all) = A
      BY <2>1, <2>3 DEF mut_resources_iter, Places, Available
    <3> QED
      BY <2>2, <2>3, <3>1 DEF mut_resources_iter_open
  <2>4. CASE all
    <3>1. mut_resources_iter(rs, all) = A \cup D /\ A \cap D = {}
      <4>1. mut_resources_iter(rs, all) = 1..Len(rs.elems)
        BY <2>4 DEF mut_resources_iter
      <4>2. \A i \in 1..Len(rs.elems) : rs.elems[i] \in Listed
        BY <2>1
      <4>3. A \cup D = 1..Len(rs.elems) /\ A \cap D = {}
        BY <4>2 DEF Places, Available, Deleted
      <4> QED
        BY <4>1, <4>3
    <3> HIDE DEF A, D
    <3>2. Cardinality(A \cup D) = Cardinality(A) + Cardinality(D) - Cardinality(A \cap D)
      BY <2>2, FS_Union
    <3>3. Cardinality(A \cap D) = 0
      BY <3>1, FS_EmptySet
    <3>4. mut_resources_iter_open(rs, all) = rs.n_active_elems + rs.n_consumed_elems
      BY <2>4 DEF mut_resources_iter_open
    <3>5. Cardinality(A \cup D) = rs.n_active_elems + rs.n_consumed_elems
      BY <2>2, <3>2, <3>3
    <3> QED
      BY <3>1, <3>4, <3>5
  <2> QED
    BY <2>3, <2>4
<1> QED
  BY <1>1, ListInvariant, PTL

\* Every reference to a backtrace is owned by a resource, as its producer's or
\* its consumer's: none is freed too early and none is lost.
THEOREM BacktracesOwnedHolds == Spec => []BacktracesOwned
<1>1. IInv => BacktracesOwned
  <2> SUFFICES ASSUME IInv, open, NEW b \in Bt PROVE rs.ref[b] = Owners(rs, b)
    BY DEF BacktracesOwned
  <2>1. Balanced(rs, Listed, NoBt) /\ rs \in ListOf(Listed) /\ NoBt \notin Bt
    BY BalancedNumbers, BtAssumption DEF IInv, Sound, NoBt
  <2>2. /\ rs.ref[b] = Number(rs.elems, MadeWith(Listed, b)) + Number(rs.elems, DeletedWith(Listed, b))
                         + (IF b = NoBt THEN 1 ELSE 0)
        /\ Number(rs.elems, MadeWith(Listed, b)) \in Nat
        /\ Number(rs.elems, DeletedWith(Listed, b)) \in Nat
    BY <2>1, BalancedNumbers DEF Balanced
  <2>3. Owners(rs, b) = Number(rs.elems, MadeWith(Listed, b)) + Number(rs.elems, DeletedWith(Listed, b))
    BY <2>1, OwnersCounted
  <2> QED
    BY <2>1, <2>2, <2>3
<1> QED
  BY <1>1, ListInvariant, PTL

\* With backtraces the list is the map mut_resources.txt promises.
THEOREM ListIsMap ==
    ASSUME Backtraces = TRUE
    PROVE  Spec => IsMap
<1>1. Init => Map!Init
  <2> SUFFICES ASSUME Init PROVE Map!Init
    OBVIOUS
  <2>1. \A a : At(rs, a) = {}
    BY DEF Init, mut_resources_open, At
  <2>2. \A a \in Addr : MapOf(a) = Absent
    BY <2>1 DEF MapOf, Absent
  <2> QED
    BY <2>2 DEF Init, Map!Init, Map!Absent, Absent
<1>2. IInv /\ [Next]_vars => [Map!Next]_(Map!vars)
  BY StepSound DEF MapStep
<1>3. Spec => []IInv
  BY ListInvariant
<1> QED
  BY <1>1, <1>2, <1>3, PTL DEF Spec, Map!Spec, IsMap
=============================================================================
