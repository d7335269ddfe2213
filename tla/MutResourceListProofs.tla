------------------------ MODULE MutResourceListProofs ------------------------
(***************************************************************************)
(* What the operations of the resource list do to the resources on it, to  *)
(* the number of them of a kind and to the reference counts of backtraces. *)
(***************************************************************************)
EXTENDS MutResourceList, FiniteSetTheorems, SequenceTheorems, TLAPS

\* The places in q of the elements of G, and their number.
Places(q, G) == {i \in 1..Len(q) : q[i] \in G}
Number(q, G) == Cardinality(Places(q, G))

-----------------------------------------------------------------------------
(* sequences *)

\* The library's properties of SubSeq and \o, for the two operations the list
\* makes of its elements.
LEMMA PrependSeq ==
    ASSUME NEW R, NEW q \in Seq(R), NEW r \in R
    PROVE  /\ <<r>> \o q \in Seq(R)
           /\ Len(<<r>> \o q) = Len(q) + 1
           /\ (<<r>> \o q)[1] = r
           /\ \A i \in 1..Len(q) : (<<r>> \o q)[i + 1] = q[i]
           /\ \A i \in 2..(Len(q) + 1) : (<<r>> \o q)[i] = q[i - 1]
  OBVIOUS

\* And of one taken out.
LEMMA RemoveSeq ==
    ASSUME NEW R, NEW q \in Seq(R), NEW i \in 1..Len(q)
    PROVE  /\ RemoveAt(q, i) \in Seq(R)
           /\ Len(RemoveAt(q, i)) = Len(q) - 1
           /\ \A j \in 1..(i - 1) : RemoveAt(q, i)[j] = q[j]
           /\ \A j \in i..(Len(q) - 1) : RemoveAt(q, i)[j] = q[j + 1]
<1>1. Len(q) \in Nat /\ \A j \in 1..Len(q) : q[j] \in R
  OBVIOUS
<1> DEFINE a == SubSeq(q, 1, i - 1)
           b == SubSeq(q, i + 1, Len(q))
<1>2. /\ a \in Seq(R) /\ Len(a) = i - 1
      /\ \A j \in 1..(i - 1) : a[j] = q[j]
  <2>1. \A j \in 1..(i - 1) : q[j] \in R
    BY <1>1
  <2> QED
    BY <2>1, <1>1, SubSeqProperties
<1>3. /\ b \in Seq(R) /\ Len(b) = Len(q) - i
      /\ \A j \in 1..(Len(q) - i) : b[j] = q[i + j]
  <2>1. \A j \in (i + 1)..Len(q) : q[j] \in R
    BY <1>1
  <2> QED
    BY <2>1, <1>1, SubSeqProperties
<1> HIDE DEF a, b
<1>4. /\ a \o b \in Seq(R)
      /\ Len(a \o b) = Len(a) + Len(b)
      /\ \A j \in 1..(Len(a) + Len(b)) : (a \o b)[j] = IF j <= Len(a) THEN a[j] ELSE b[j - Len(a)]
  BY <1>2, <1>3, ConcatProperties
<1>5. RemoveAt(q, i) = a \o b
  BY DEF RemoveAt, a, b
<1>6. \A j \in 1..(i - 1) : (a \o b)[j] = q[j]
  BY <1>1, <1>2, <1>3, <1>4
<1>7. ASSUME NEW j \in i..(Len(q) - 1) PROVE (a \o b)[j] = q[j + 1]
  <2>1. (a \o b)[j] = b[j - (i - 1)]
    BY <1>1, <1>2, <1>3, <1>4
  <2>2. b[j - (i - 1)] = q[i + (j - (i - 1))]
    BY <1>1, <1>3
  <2> QED
    BY <2>1, <2>2, <1>1
<1> QED
  BY <1>1, <1>2, <1>3, <1>4, <1>5, <1>6, <1>7

\* There are finitely many.
LEMMA NumberType ==
    ASSUME NEW R, NEW q \in Seq(R), NEW G
    PROVE  /\ IsFiniteSet(Places(q, G)) /\ Number(q, G) \in Nat
           /\ Number(q, G) = 0 <=> Places(q, G) = {}
<1>1. IsFiniteSet(1..Len(q)) /\ Places(q, G) \in SUBSET (1..Len(q))
  BY FS_Interval DEF Places
<1>2. IsFiniteSet(Places(q, G))
  BY <1>1, FS_Subset
<1> QED
  BY <1>2, FS_CardinalityType, FS_EmptySet DEF Number

\* A set of places and the same set moved by a map that can be undone.
LEMMA MovedPlaces ==
    ASSUME NEW S, NEW T, NEW f \in [S -> T], IsFiniteSet(S),
           \A x, y \in S : f[x] = f[y] => x = y,
           \A t \in T : \E x \in S : f[x] = t
    PROVE  IsFiniteSet(T) /\ Cardinality(T) = Cardinality(S)
<1>1. f \in Bijection(S, T)
  BY DEF Bijection, Injection, Surjection, IsInjective
<1> QED
  BY <1>1, FS_Bijection DEF ExistsBijection

\* A resource more at the head of the list.
LEMMA NumberPrepend ==
    ASSUME NEW R, NEW q \in Seq(R), NEW r \in R, NEW G
    PROVE  Number(<<r>> \o q, G) = Number(q, G) + (IF r \in G THEN 1 ELSE 0)
<1> DEFINE t == <<r>> \o q
           S == Places(q, G)
           T == {i \in 2..Len(t) : t[i] \in G}
           f == [i \in S |-> i + 1]
<1>1. /\ Len(t) = Len(q) + 1 /\ t[1] = r /\ Len(q) \in Nat
      /\ \A i \in 1..Len(q) : t[i + 1] = q[i]
      /\ \A i \in 2..(Len(q) + 1) : t[i] = q[i - 1]
  BY PrependSeq
<1> HIDE DEF t
<1>2. f \in [S -> T]
  BY <1>1 DEF Places
<1>3. \A x, y \in S : f[x] = f[y] => x = y
  BY DEF Places
<1>4. \A x \in T : x - 1 \in S /\ f[x - 1] = x
  BY <1>1 DEF Places
<1>5. IsFiniteSet(T) /\ Cardinality(T) = Cardinality(S)
  <2> HIDE DEF f, S, T
  <2> QED
    BY <1>2, <1>3, <1>4, NumberType, MovedPlaces DEF S
<1>6. Places(t, G) = IF r \in G THEN T \cup {1} ELSE T
  BY <1>1 DEF Places
<1>7. 1 \notin T
  OBVIOUS
<1>8. Cardinality(T) = Number(q, G) /\ Number(q, G) \in Nat
  BY <1>5, NumberType DEF Number
<1> HIDE DEF T
<1>9. Cardinality(T \cup {1}) = Cardinality(T) + 1
  BY <1>5, <1>7, FS_AddElement
<1> QED
  BY <1>6, <1>8, <1>9 DEF Number, t

\* A resource less.
LEMMA NumberRemove ==
    ASSUME NEW R, NEW q \in Seq(R), NEW i \in 1..Len(q), NEW G
    PROVE  Number(RemoveAt(q, i), G) = Number(q, G) - (IF q[i] \in G THEN 1 ELSE 0)
<1> DEFINE t == RemoveAt(q, i)
           S == Places(q, G) \ {i}
           T == Places(t, G)
           f == [j \in S |-> IF j < i THEN j ELSE j - 1]
           g == [j \in T |-> IF j < i THEN j ELSE j + 1]
<1>1. /\ Len(t) = Len(q) - 1 /\ Len(q) \in Nat
      /\ \A j \in 1..(i - 1) : t[j] = q[j]
      /\ \A j \in i..(Len(q) - 1) : t[j] = q[j + 1]
  BY RemoveSeq
<1> HIDE DEF t
<1>2. ASSUME NEW j \in S PROVE f[j] \in T
  <2>1. j \in 1..Len(q) /\ j # i /\ q[j] \in G
    BY DEF Places
  <2>2. CASE j < i
    BY <1>1, <2>1, <2>2 DEF Places
  <2>3. CASE j > i
    <3>1. j - 1 \in i..(Len(q) - 1) /\ t[j - 1] = q[(j - 1) + 1] /\ (j - 1) + 1 = j
      BY <1>1, <2>1, <2>3
    <3> QED
      BY <1>1, <2>1, <2>3, <3>1 DEF Places
  <2> QED
    BY <2>1, <2>2, <2>3
<1>3. \A x, y \in S : f[x] = f[y] => x = y
  BY DEF Places
<1>4. ASSUME NEW j \in T PROVE \E x \in S : f[x] = j
  <2>1. j \in 1..(Len(q) - 1) /\ t[j] \in G
    BY <1>1 DEF Places
  <2>2. CASE j < i
    <3>1. j \in S /\ f[j] = j
      BY <1>1, <2>1, <2>2 DEF Places
    <3> QED
      BY <3>1
  <2>3. CASE j >= i
    <3>1. j + 1 \in S
      BY <1>1, <2>1, <2>3 DEF Places
    <3>2. f[j + 1] = j
      BY <2>1, <2>3, <3>1
    <3> QED
      BY <3>1, <3>2
  <2> QED
    BY <2>1, <2>2, <2>3
<1>5. IsFiniteSet(S) /\ Cardinality(S) = Number(q, G) - (IF q[i] \in G THEN 1 ELSE 0)
  <2>1. IsFiniteSet(Places(q, G)) /\ Number(q, G) \in Nat
    BY NumberType
  <2>2. i \in Places(q, G) <=> q[i] \in G
    BY DEF Places
  <2> QED
    BY <2>1, <2>2, FS_RemoveElement DEF Number
<1>6. f \in [S -> T]
  BY <1>2
<1> HIDE DEF f, S, T
<1>7. Cardinality(T) = Cardinality(S)
  BY <1>3, <1>4, <1>5, <1>6, MovedPlaces
<1> QED
  BY <1>5, <1>7 DEF T, t, Number

\* A resource replaced.
LEMMA NumberReplace ==
    ASSUME NEW R, NEW q \in Seq(R), NEW i \in 1..Len(q), NEW r \in R, NEW G
    PROVE  Number([q EXCEPT ![i] = r], G)
             = Number(q, G) - (IF q[i] \in G THEN 1 ELSE 0) + (IF r \in G THEN 1 ELSE 0)
<1> DEFINE t == [q EXCEPT ![i] = r]
           S == Places(q, G) \ {i}
<1>1. /\ Len(t) = Len(q) /\ Len(q) \in Nat /\ t[i] = r
      /\ \A j \in 1..Len(q) : j # i => t[j] = q[j]
  OBVIOUS
<1> HIDE DEF t
<1>2. IsFiniteSet(S) /\ Cardinality(S) = Number(q, G) - (IF q[i] \in G THEN 1 ELSE 0)
  <2>1. IsFiniteSet(Places(q, G)) /\ Number(q, G) \in Nat
    BY NumberType
  <2>2. i \in Places(q, G) <=> q[i] \in G
    BY DEF Places
  <2> QED
    BY <2>1, <2>2, FS_RemoveElement DEF Number
<1>3. Places(t, G) = IF r \in G THEN S \cup {i} ELSE S
  BY <1>1 DEF Places
<1>4. i \notin S
  OBVIOUS
<1> HIDE DEF S
<1>5. Cardinality(S \cup {i}) = Cardinality(S) + 1
  BY <1>2, <1>4, FS_AddElement
<1>6. Number(q, G) \in Nat
  BY NumberType
<1> QED
  BY <1>2, <1>3, <1>5, <1>6 DEF Number, t

\* What is on the list, as a set, when no two resources have an address.
DistinctIn(q) == \A i, j \in 1..Len(q) : q[i].addr = q[j].addr => i = j

\* What is on a list, and where.
LEMMA SetOfSeq ==
    ASSUME NEW R, NEW q \in Seq(R)
    PROVE  /\ \A e : e \in ToSet(q) <=> \E i \in 1..Len(q) : q[i] = e
           /\ ToSet(q) \subseteq R /\ Len(q) \in Nat
  BY DEF ToSet

\* What is on it after a resource was prepended.
LEMMA SetPrepend ==
    ASSUME NEW R, NEW q \in Seq(R), NEW r \in R
    PROVE  /\ ToSet(<<r>> \o q) = ToSet(q) \cup {r}
           /\ DistinctIn(q) /\ (\A e \in ToSet(q) : e.addr # r.addr) => DistinctIn(<<r>> \o q)
<1> DEFINE t == <<r>> \o q
<1>1. /\ Len(t) = Len(q) + 1 /\ t[1] = r /\ Len(q) \in Nat /\ t \in Seq(R)
      /\ \A i \in 1..Len(q) : t[i + 1] = q[i]
      /\ \A i \in 2..(Len(q) + 1) : t[i] = q[i - 1]
  BY PrependSeq
<1> HIDE DEF t
<1>2. ASSUME NEW i \in 1..Len(t)
      PROVE  i # 1 => i - 1 \in 1..Len(q) /\ t[i] = q[i - 1] /\ q[i - 1] \in ToSet(q)
  <2>1. CASE i # 1
    <3>1. i \in 2..(Len(q) + 1) /\ i - 1 \in 1..Len(q)
      BY <1>1, <2>1
    <3> QED
      BY <1>1, <3>1, SetOfSeq
  <2> QED
    BY <2>1
<1>3. ASSUME NEW e \in ToSet(t) PROVE e \in ToSet(q) \cup {r}
  <2>1. PICK i \in 1..Len(t) : t[i] = e
    BY <1>1, SetOfSeq
  <2> QED
    BY <1>1, <1>2, <2>1
<1>4. ASSUME NEW e \in ToSet(q) \cup {r} PROVE e \in ToSet(t)
  <2>1. CASE e = r
    <3>1. 1 \in 1..Len(t)
      BY <1>1
    <3> QED
      BY <1>1, <2>1, <3>1, SetOfSeq
  <2>2. CASE e \in ToSet(q)
    <3>1. PICK i \in 1..Len(q) : q[i] = e
      BY <2>2, SetOfSeq
    <3>2. i + 1 \in 1..Len(t) /\ t[i + 1] = e
      BY <1>1, <3>1
    <3> QED
      BY <1>1, <3>2, SetOfSeq
  <2> QED
    BY <2>1, <2>2
<1>5. ASSUME DistinctIn(q), \A e \in ToSet(q) : e.addr # r.addr PROVE DistinctIn(t)
  <2> SUFFICES ASSUME NEW i \in 1..Len(t), NEW j \in 1..Len(t), t[i].addr = t[j].addr
               PROVE  i = j
    BY DEF DistinctIn
  <2>1. CASE i = 1 /\ j = 1
    BY <2>1
  <2>2. CASE i # 1 /\ j # 1
    <3>1. i - 1 = j - 1
      BY <1>2, <1>5, <2>2 DEF DistinctIn
    <3> QED
      BY <3>1
  <2>3. CASE i = 1 /\ j # 1
    BY <1>1, <1>2, <1>5, <2>3
  <2>4. CASE i # 1 /\ j = 1
    BY <1>1, <1>2, <1>5, <2>4
  <2> QED
    BY <2>1, <2>2, <2>3, <2>4
<1> QED
  BY <1>3, <1>4, <1>5 DEF t

\* After one was replaced, by one with its address or a new one.
LEMMA SetReplace ==
    ASSUME NEW R, NEW q \in Seq(R), NEW i \in 1..Len(q), NEW r \in R, DistinctIn(q),
           \A e \in ToSet(q) : e.addr = r.addr => e = q[i]
    PROVE  /\ [q EXCEPT ![i] = r] \in Seq(R)
           /\ Len([q EXCEPT ![i] = r]) = Len(q)
           /\ ToSet([q EXCEPT ![i] = r]) = (ToSet(q) \ {q[i]}) \cup {r}
           /\ DistinctIn([q EXCEPT ![i] = r])
<1> DEFINE t == [q EXCEPT ![i] = r]
<1>1. /\ Len(t) = Len(q) /\ t[i] = r /\ Len(q) \in Nat /\ t \in Seq(R)
      /\ \A j \in 1..Len(q) : j # i => t[j] = q[j]
  OBVIOUS
<1> HIDE DEF t
<1>2. ToSet(q) = {q[j] : j \in 1..Len(q)} /\ ToSet(t) = {t[j] : j \in 1..Len(q)}
  BY <1>1 DEF ToSet
<1>3. \A j \in 1..Len(q) : q[j] = q[i] => j = i
  BY DEF DistinctIn
<1>4. \A j \in 1..Len(q) : q[j].addr = r.addr => j = i
  BY <1>2, <1>3
<1>5. DistinctIn(t)
  BY <1>1, <1>4 DEF DistinctIn
<1>6. ToSet(t) \subseteq (ToSet(q) \ {q[i]}) \cup {r}
  BY <1>1, <1>2, <1>3
<1>7. (ToSet(q) \ {q[i]}) \cup {r} \subseteq ToSet(t)
  BY <1>1, <1>2
<1> QED
  BY <1>1, <1>5, <1>6, <1>7 DEF t

\* After one was unlinked.
LEMMA SetRemove ==
    ASSUME NEW R, NEW q \in Seq(R), NEW i \in 1..Len(q), DistinctIn(q)
    PROVE  ToSet(RemoveAt(q, i)) = ToSet(q) \ {q[i]} /\ DistinctIn(RemoveAt(q, i))
<1> DEFINE t == RemoveAt(q, i)
<1>1. /\ Len(t) = Len(q) - 1 /\ Len(q) \in Nat /\ t \in Seq(R)
      /\ \A j \in 1..(i - 1) : t[j] = q[j]
      /\ \A j \in i..(Len(q) - 1) : t[j] = q[j + 1]
  BY RemoveSeq
<1> HIDE DEF t
<1>2. ToSet(q) = {q[j] : j \in 1..Len(q)} /\ ToSet(t) = {t[j] : j \in 1..Len(t)}
  BY <1>1 DEF ToSet
<1>3. \A j \in 1..Len(q) : q[j] = q[i] => j = i
  BY DEF DistinctIn
<1>4. ASSUME NEW j \in 1..Len(t)
      PROVE  \/ j < i /\ j \in 1..Len(q) /\ t[j] = q[j]
             \/ j >= i /\ j + 1 \in 1..Len(q) /\ t[j] = q[j + 1]
  <2>1. CASE j < i
    <3>1. j \in 1..(i - 1) /\ j \in 1..Len(q)
      BY <1>1, <2>1
    <3> QED
      BY <1>1, <2>1, <3>1
  <2>2. CASE j >= i
    <3>1. j \in i..(Len(q) - 1) /\ j + 1 \in 1..Len(q)
      BY <1>1, <2>2
    <3> QED
      BY <1>1, <2>2, <3>1
  <2> QED
    BY <2>1, <2>2, <1>1
<1>5. ASSUME NEW j \in 1..Len(q), j # i PROVE \E k \in 1..Len(t) : t[k] = q[j]
  <2>1. CASE j < i
    <3>1. j \in 1..(i - 1) /\ j \in 1..Len(t)
      BY <1>1, <2>1
    <3> QED
      BY <1>1, <3>1
  <2>2. CASE j > i
    <3>1. j - 1 \in i..(Len(q) - 1) /\ j - 1 \in 1..Len(t) /\ (j - 1) + 1 = j
      BY <1>1, <2>2
    <3>2. t[j - 1] = q[(j - 1) + 1]
      BY <1>1, <3>1
    <3> QED
      BY <3>1, <3>2
  <2> QED
    BY <1>1, <1>5, <2>1, <2>2
<1>6. ToSet(t) \subseteq ToSet(q) \ {q[i]}
  <2> SUFFICES ASSUME NEW j \in 1..Len(t) PROVE t[j] \in ToSet(q) /\ t[j] # q[i]
    BY <1>2
  <2>1. CASE j < i /\ j \in 1..Len(q) /\ t[j] = q[j]
    BY <1>2, <1>3, <2>1
  <2>2. CASE j >= i /\ j + 1 \in 1..Len(q) /\ t[j] = q[j + 1]
    <3>1. j + 1 # i
      BY <2>2
    <3> QED
      BY <1>2, <1>3, <2>2, <3>1
  <2> QED
    BY <1>4, <2>1, <2>2
<1>7. ToSet(q) \ {q[i]} \subseteq ToSet(t)
  <2> SUFFICES ASSUME NEW j \in 1..Len(q), q[j] # q[i] PROVE q[j] \in ToSet(t)
    BY <1>2
  <2>1. j # i
    OBVIOUS
  <2>2. PICK k \in 1..Len(t) : t[k] = q[j]
    BY <1>5, <2>1
  <2> QED
    BY <1>2, <2>2
<1>8. DistinctIn(t)
  <2> SUFFICES ASSUME NEW j \in 1..Len(t), NEW k \in 1..Len(t), t[j].addr = t[k].addr PROVE j = k
    BY DEF DistinctIn
  <2>1. \/ j < i /\ j \in 1..Len(q) /\ t[j] = q[j]
        \/ j >= i /\ j + 1 \in 1..Len(q) /\ t[j] = q[j + 1]
    BY <1>4
  <2>2. \/ k < i /\ k \in 1..Len(q) /\ t[k] = q[k]
        \/ k >= i /\ k + 1 \in 1..Len(q) /\ t[k] = q[k + 1]
    BY <1>4
  <2>3. \A x, y \in 1..Len(q) : q[x].addr = q[y].addr => x = y
    BY DEF DistinctIn
  <2>4. CASE j < i /\ k < i
    BY <2>1, <2>2, <2>3, <2>4
  <2>5. CASE j >= i /\ k >= i
    <3>1. j + 1 = k + 1
      BY <2>1, <2>2, <2>3, <2>5, <1>1
    <3> QED
      BY <3>1, <1>1
  <2>6. CASE j < i /\ k >= i
    <3>1. j = k + 1
      BY <2>1, <2>2, <2>3, <2>6, <1>1
    <3> QED
      BY <3>1, <2>6, <1>1
  <2>7. CASE j >= i /\ k < i
    <3>1. j + 1 = k
      BY <2>1, <2>2, <2>3, <2>7, <1>1
    <3> QED
      BY <3>1, <2>7, <1>1
  <2> QED
    BY <1>1, <2>4, <2>5, <2>6, <2>7
<1> QED
  BY <1>6, <1>7, <1>8 DEF t

-----------------------------------------------------------------------------
(* operations *)

\* A resource, and a list of resources of R.
Entry(A, N, P) == [addr : A, size : N, producer : P, consumer : P,
                   pbt : Bt \cup {NoBt}, cbt : Bt \cup {NoBt}]
ListOf(R) == [elems : Seq(R), n_active_elems : Int, n_consumed_elems : Int, ref : [Bt -> Int]]

\* A resource with one field updated, given, and taken apart.
LEMMA UpdateEntry ==
    ASSUME NEW A, NEW N, NEW P, NEW r \in Entry(A, N, P)
    PROVE  /\ \A x \in P : [r EXCEPT !.producer = x] =
                 [addr |-> r.addr, size |-> r.size, producer |-> x, consumer |-> r.consumer,
                  pbt |-> r.pbt, cbt |-> r.cbt]
           /\ \A x \in N : [r EXCEPT !.size = x] =
                 [addr |-> r.addr, size |-> x, producer |-> r.producer, consumer |-> r.consumer,
                  pbt |-> r.pbt, cbt |-> r.cbt]
           /\ \A x \in P : [r EXCEPT !.consumer = x] =
                 [addr |-> r.addr, size |-> r.size, producer |-> r.producer, consumer |-> x,
                  pbt |-> r.pbt, cbt |-> r.cbt]
           /\ \A x \in Bt \cup {NoBt} : [r EXCEPT !.pbt = x] =
                 [addr |-> r.addr, size |-> r.size, producer |-> r.producer,
                  consumer |-> r.consumer, pbt |-> x, cbt |-> r.cbt]
           /\ \A x \in Bt \cup {NoBt} : [r EXCEPT !.cbt = x] =
                 [addr |-> r.addr, size |-> r.size, producer |-> r.producer,
                  consumer |-> r.consumer, pbt |-> r.pbt, cbt |-> x]
  BY DEF Entry

\* A resource given by its fields.
LEMMA EntryIs ==
    ASSUME NEW A, NEW N, NEW P, NEW a \in A, NEW n \in N, NEW p \in P, NEW c \in P,
           NEW b \in Bt \cup {NoBt}, NEW d \in Bt \cup {NoBt},
           NEW r, r = [addr |-> a, size |-> n, producer |-> p, consumer |-> c, pbt |-> b, cbt |-> d]
    PROVE  /\ r \in Entry(A, N, P)
           /\ r.addr = a /\ r.size = n /\ r.producer = p /\ r.consumer = c /\ r.pbt = b /\ r.cbt = d
  BY DEF Entry

\* The fields of a resource.
LEMMA EntryFields ==
    ASSUME NEW A, NEW N, NEW P, NEW r \in Entry(A, N, P)
    PROVE  /\ r.addr \in A /\ r.size \in N /\ r.producer \in P /\ r.consumer \in P
           /\ r.pbt \in Bt \cup {NoBt} /\ r.cbt \in Bt \cup {NoBt}
  BY DEF Entry

\* What mut_resource_make_producer makes of a resource.
LEMMA ProducedEntry ==
    ASSUME NEW A, NEW N, NEW P, NEW r \in Entry(A, N, P),
           NEW p \in P, NEW n \in N, NEW b \in Bt \cup {NoBt}
    PROVE  Produced(r, p, n, b) =
               [addr |-> r.addr, size |-> n, producer |-> p, consumer |-> r.consumer,
                pbt |-> b, cbt |-> r.cbt]
<1> DEFINE r1 == [r EXCEPT !.producer = p]
           r2 == [r1 EXCEPT !.size = n]
           r3 == [r2 EXCEPT !.pbt = b]
<1>0. /\ r.addr \in A /\ r.size \in N /\ r.producer \in P /\ r.consumer \in P
      /\ r.pbt \in Bt \cup {NoBt} /\ r.cbt \in Bt \cup {NoBt}
  BY EntryFields
<1>1. Produced(r, p, n, b) = r3
  BY DEF Produced
<1>2. r1 = [addr |-> r.addr, size |-> r.size, producer |-> p, consumer |-> r.consumer,
            pbt |-> r.pbt, cbt |-> r.cbt]
  BY UpdateEntry
<1> HIDE DEF r1
<1>3. /\ r1 \in Entry(A, N, P) /\ r1.addr = r.addr /\ r1.size = r.size /\ r1.producer = p
      /\ r1.consumer = r.consumer /\ r1.pbt = r.pbt /\ r1.cbt = r.cbt
  BY <1>0, <1>2 DEF Entry
<1>4. r2 = [addr |-> r.addr, size |-> n, producer |-> p, consumer |-> r.consumer,
            pbt |-> r.pbt, cbt |-> r.cbt]
  BY <1>3, UpdateEntry
<1> HIDE DEF r2
<1>5. /\ r2 \in Entry(A, N, P) /\ r2.addr = r.addr /\ r2.size = n /\ r2.producer = p
      /\ r2.consumer = r.consumer /\ r2.pbt = r.pbt /\ r2.cbt = r.cbt
  BY <1>0, <1>4 DEF Entry
<1>6. r3 = [addr |-> r.addr, size |-> n, producer |-> p, consumer |-> r.consumer,
            pbt |-> b, cbt |-> r.cbt]
  BY <1>5, UpdateEntry
<1> HIDE DEF r3
<1> QED
  BY <1>1, <1>6

\* And mut_resources_mark_as_free.
LEMMA MarkedEntry ==
    ASSUME NEW A, NEW N, NEW P, NEW r \in Entry(A, N, P), r.cbt = NoBt,
           NEW c \in P, NEW b \in Bt \cup {NoBt}
    PROVE  Consumed(r, c, b) =
               [addr |-> r.addr, size |-> r.size, producer |-> r.producer, consumer |-> c,
                pbt |-> r.pbt, cbt |-> b]
<1> DEFINE r1 == [r EXCEPT !.consumer = c]
           r2 == [r1 EXCEPT !.cbt = IF b = NoBt THEN @ ELSE b]
           r3 == [r1 EXCEPT !.cbt = b]
<1>0. /\ r.addr \in A /\ r.size \in N /\ r.producer \in P /\ r.consumer \in P
      /\ r.pbt \in Bt \cup {NoBt} /\ r.cbt \in Bt \cup {NoBt}
  BY EntryFields
<1>1. Consumed(r, c, b) = r2
  BY DEF Consumed
<1>2. r1 = [addr |-> r.addr, size |-> r.size, producer |-> r.producer, consumer |-> c,
            pbt |-> r.pbt, cbt |-> r.cbt]
  BY UpdateEntry
<1> HIDE DEF r1
<1>3. /\ r1 \in Entry(A, N, P) /\ r1.addr = r.addr /\ r1.size = r.size
      /\ r1.producer = r.producer /\ r1.consumer = c /\ r1.pbt = r.pbt /\ r1.cbt = r.cbt
  BY <1>0, <1>2 DEF Entry
<1>4. r2 = r3
  BY <1>3
<1>5. r3 = [addr |-> r.addr, size |-> r.size, producer |-> r.producer, consumer |-> c,
            pbt |-> r.pbt, cbt |-> b]
  BY <1>3, UpdateEntry
<1> QED
  BY <1>1, <1>4, <1>5

\* A state of the list with other fields.
LEMMA ListFields ==
    ASSUME NEW R, NEW s \in ListOf(R), NEW q \in Seq(R), NEW m \in Int, NEW n \in Int,
           NEW f \in [Bt -> Int],
           NEW t, t = [elems |-> q, n_active_elems |-> m, n_consumed_elems |-> n, ref |-> f]
    PROVE  /\ t \in ListOf(R) /\ t.elems = q /\ t.n_active_elems = m
           /\ t.n_consumed_elems = n /\ t.ref = f
  BY DEF ListOf

\* The fields of one.
LEMMA ListIs ==
    ASSUME NEW R, NEW s \in ListOf(R)
    PROVE  /\ s = [elems |-> s.elems, n_active_elems |-> s.n_active_elems,
                   n_consumed_elems |-> s.n_consumed_elems, ref |-> s.ref]
           /\ s.elems \in Seq(R) /\ s.n_active_elems \in Int /\ s.n_consumed_elems \in Int
           /\ s.ref \in [Bt -> Int]
  BY DEF ListOf

\* A state of the list with one field updated.
LEMMA UpdateList ==
    ASSUME NEW R, NEW s \in ListOf(R)
    PROVE  /\ \A x : [s EXCEPT !.elems = x] =
                 [elems |-> x, n_active_elems |-> s.n_active_elems,
                  n_consumed_elems |-> s.n_consumed_elems, ref |-> s.ref]
           /\ \A x : [s EXCEPT !.n_active_elems = x] =
                 [elems |-> s.elems, n_active_elems |-> x,
                  n_consumed_elems |-> s.n_consumed_elems, ref |-> s.ref]
           /\ \A x : [s EXCEPT !.n_consumed_elems = x] =
                 [elems |-> s.elems, n_active_elems |-> s.n_active_elems,
                  n_consumed_elems |-> x, ref |-> s.ref]
           /\ \A x : [s EXCEPT !.ref = x] =
                 [elems |-> s.elems, n_active_elems |-> s.n_active_elems,
                  n_consumed_elems |-> s.n_consumed_elems, ref |-> x]
<1>1. \E A, B, C, D : s \in [elems : A, n_active_elems : B, n_consumed_elems : C, ref : D]
  BY DEF ListOf
<1>2. PICK A, B, C, D : s \in [elems : A, n_active_elems : B, n_consumed_elems : C, ref : D]
  BY <1>1
<1> QED
  BY <1>2

\* A set of places has a first.
LEMMA FirstPlace ==
    ASSUME NEW S \in SUBSET Nat, S # {}
    PROVE  \E i \in S : \A j \in S : i <= j
<1> DEFINE below == OpToRel(<, Nat)
<1>1. IsWellFoundedOn(below, Nat)
  BY NatLessThanWellFounded
<1>2. \A i, j \in Nat : <<i, j>> \in below <=> i < j
  BY DEF OpToRel
<1> HIDE DEF below
<1>3. PICK i \in S : \A j \in S : ~(<<j, i>> \in below)
  BY <1>1, WFMin
<1>4. \A j \in S : i \in Nat /\ j \in Nat /\ ~(j < i)
  BY <1>2, <1>3, Zenon
<1> QED
  BY <1>4

\* mut_resources_lookup finds a resource at the address if there is one.
LEMMA Lookup ==
    ASSUME NEW R, NEW s \in ListOf(R), NEW a
    PROVE  /\ At(s, a) = {} <=> \A e \in ToSet(s.elems) : e.addr # a
           /\ At(s, a) = {} <=> mut_resources_lookup(s, a) = 0
           /\ At(s, a) # {} => /\ mut_resources_lookup(s, a) \in 1..Len(s.elems)
                              /\ s.elems[mut_resources_lookup(s, a)].addr = a
                              /\ s.elems[mut_resources_lookup(s, a)] \in ToSet(s.elems)
                              /\ \A i \in At(s, a) : mut_resources_lookup(s, a) <= i
<1>1. s.elems \in Seq(R)
  BY DEF ListOf
<1>2. At(s, a) = {} <=> \A e \in ToSet(s.elems) : e.addr # a
  BY <1>1, SetOfSeq DEF At
<1>3. CASE At(s, a) # {}
  <2>1. \E i \in At(s, a) : \A j \in At(s, a) : i <= j
    <3>1. At(s, a) \in SUBSET Nat
      BY DEF At
    <3> QED
      BY <1>3, <3>1, FirstPlace
  <2>2. mut_resources_lookup(s, a) = CHOOSE i \in At(s, a) : \A j \in At(s, a) : i <= j
    BY <1>3 DEF mut_resources_lookup
  <2>3. /\ mut_resources_lookup(s, a) \in At(s, a)
        /\ \A j \in At(s, a) : mut_resources_lookup(s, a) <= j
    BY <2>1, <2>2
  <2>4. /\ mut_resources_lookup(s, a) \in 1..Len(s.elems)
        /\ s.elems[mut_resources_lookup(s, a)].addr = a
    BY <2>3 DEF At
  <2>5. s.elems[mut_resources_lookup(s, a)] \in ToSet(s.elems) /\ mut_resources_lookup(s, a) # 0
    BY <2>4, <1>1, SetOfSeq
  <2> QED
    BY <1>2, <1>3, <2>3, <2>4, <2>5
<1>4. CASE At(s, a) = {}
  BY <1>2, <1>4 DEF mut_resources_lookup
<1> QED
  BY <1>3, <1>4

\* It finds the one there is.
LEMMA LookupOwn ==
    ASSUME NEW R, NEW s \in ListOf(R), DistinctIn(s.elems), NEW i \in 1..Len(s.elems)
    PROVE  mut_resources_lookup(s, s.elems[i].addr) = i
<1>1. i \in At(s, s.elems[i].addr)
  BY DEF At
<1> QED
  BY <1>1, Lookup DEF DistinctIn

\* The resources of R of a kind.
Available(R) == {r \in R : r.consumer = NoAction}
Deleted(R) == {r \in R : r.consumer # NoAction}
MadeWith(R, b) == {r \in R : r.pbt = b}
DeletedWith(R, b) == {r \in R : r.cbt = b}

\* The two counts are right, and every reference to a backtrace has an owner:
\* a resource, or the handler that holds one more.
Balanced(s, R, held) ==
    /\ s \in ListOf(R)
    /\ s.n_active_elems = Number(s.elems, Available(R))
    /\ s.n_consumed_elems = Number(s.elems, Deleted(R))
    /\ \A b \in Bt : s.ref[b] = Number(s.elems, MadeWith(R, b)) + Number(s.elems, DeletedWith(R, b))
                                 + (IF b = held THEN 1 ELSE 0)

\* What Owners counts.
LEMMA OwnersCounted ==
    ASSUME NEW R, NEW s \in ListOf(R), NEW b
    PROVE  Owners(s, b) = Number(s.elems, MadeWith(R, b)) + Number(s.elems, DeletedWith(R, b))
<1>1. s.elems \in Seq(R) /\ \A i \in 1..Len(s.elems) : s.elems[i] \in R
  BY DEF ListOf
<1>2. /\ {i \in 1..Len(s.elems) : s.elems[i].pbt = b} = Places(s.elems, MadeWith(R, b))
      /\ {i \in 1..Len(s.elems) : s.elems[i].cbt = b} = Places(s.elems, DeletedWith(R, b))
  BY <1>1 DEF Places, MadeWith, DeletedWith
<1> QED
  BY <1>2 DEF Owners, Number

\* mut_backtrace_open makes the handler an owner.
LEMMA OpenBalanced ==
    ASSUME NEW R, NEW s, Balanced(s, R, NoBt), NEW b \in FreeBt(s)
    PROVE  /\ Balanced(mut_backtrace_open(s, b), R, b) /\ b \in Bt
           /\ mut_backtrace_open(s, b).elems = s.elems
           /\ mut_backtrace_open(s, b).n_active_elems = s.n_active_elems
<1>0. s \in ListOf(R) /\ b \in Bt
  BY DEF Balanced, FreeBt
<1>1. s \in ListOf(R) /\ b \in Bt /\ s.ref[b] = 0 /\ NoBt \notin Bt
  BY BtAssumption DEF Balanced, FreeBt, NoBt
<1> DEFINE t == mut_backtrace_open(s, b)
           f == [s.ref EXCEPT ![b] = 1]
<1>2. t = [elems |-> s.elems, n_active_elems |-> s.n_active_elems,
           n_consumed_elems |-> s.n_consumed_elems, ref |-> f]
  BY <1>0, UpdateList DEF mut_backtrace_open
<1>3. f \in [Bt -> Int] /\ f[b] = 1 /\ \A c \in Bt : c # b => f[c] = s.ref[c]
  BY <1>1, ListIs
<1> HIDE DEF t, f
<1>4. /\ t \in ListOf(R) /\ t.elems = s.elems /\ t.n_active_elems = s.n_active_elems
      /\ t.n_consumed_elems = s.n_consumed_elems /\ t.ref = f
  BY <1>1, <1>2, <1>3, ListFields, ListIs
<1>5. ASSUME NEW c \in Bt
      PROVE  f[c] = Number(s.elems, MadeWith(R, c)) + Number(s.elems, DeletedWith(R, c))
                      + (IF c = b THEN 1 ELSE 0)
  <2>1. /\ Number(s.elems, MadeWith(R, c)) \in Nat /\ Number(s.elems, DeletedWith(R, c)) \in Nat
        /\ s.ref[c] = Number(s.elems, MadeWith(R, c)) + Number(s.elems, DeletedWith(R, c)) + 0
    BY <1>1, ListIs, NumberType DEF Balanced
  <2> QED
    BY <1>1, <1>3, <2>1
<1>6. Balanced(t, R, b)
  BY <1>4, <1>5 DEF Balanced
<1> QED
  BY <1>1, <1>4, <1>6 DEF t

\* mut_backtrace_close ends it.
LEMMA CloseBalanced ==
    ASSUME NEW R, NEW s, NEW b \in Bt \cup {NoBt}, Balanced(s, R, b)
    PROVE  /\ Balanced(mut_backtrace_close(s, b), R, NoBt)
           /\ mut_backtrace_close(s, b).elems = s.elems
<1>1. s \in ListOf(R) /\ NoBt \notin Bt
  BY BtAssumption DEF Balanced, NoBt
<1>2. CASE b = NoBt
  BY <1>2 DEF mut_backtrace_close
<1>3. CASE b \in Bt
  <2> DEFINE t == mut_backtrace_close(s, b)
             f == [s.ref EXCEPT ![b] = @ - 1]
  <2>1. t = [elems |-> s.elems, n_active_elems |-> s.n_active_elems,
             n_consumed_elems |-> s.n_consumed_elems, ref |-> f]
    BY <1>1, <1>3 DEF mut_backtrace_close, ListOf
  <2>2. f \in [Bt -> Int] /\ f[b] = s.ref[b] - 1 /\ \A c \in Bt : c # b => f[c] = s.ref[c]
    BY <1>1, <1>3, ListIs
  <2> HIDE DEF t, f
  <2>3. /\ t \in ListOf(R) /\ t.elems = s.elems /\ t.n_active_elems = s.n_active_elems
        /\ t.n_consumed_elems = s.n_consumed_elems /\ t.ref = f
    BY <1>1, <2>1, <2>2, ListFields, ListIs
  <2>4. ASSUME NEW c \in Bt
        PROVE  f[c] = Number(s.elems, MadeWith(R, c)) + Number(s.elems, DeletedWith(R, c))
                        + (IF c = NoBt THEN 1 ELSE 0)
    <3>1. /\ Number(s.elems, MadeWith(R, c)) \in Nat /\ Number(s.elems, DeletedWith(R, c)) \in Nat
          /\ s.ref[c] = Number(s.elems, MadeWith(R, c)) + Number(s.elems, DeletedWith(R, c))
                           + (IF c = b THEN 1 ELSE 0)
      BY <1>1, ListIs, NumberType DEF Balanced
    <3> QED
      BY <1>1, <1>3, <2>2, <3>1
  <2>5. Balanced(t, R, NoBt)
    BY <2>3, <2>4 DEF Balanced
  <2> QED
    BY <2>3, <2>5 DEF t
<1> QED
  BY <1>2, <1>3

\* The numbers of resources of each kind are natural.
LEMMA BalancedNumbers ==
    ASSUME NEW R, NEW s, NEW h, Balanced(s, R, h)
    PROVE  /\ s \in ListOf(R) /\ s.elems \in Seq(R)
           /\ s.n_active_elems \in Nat /\ s.n_consumed_elems \in Nat
           /\ s.ref \in [Bt -> Nat]
           /\ \A G : Number(s.elems, G) \in Nat
<1>1. s \in ListOf(R) /\ s.elems \in Seq(R) /\ s.ref \in [Bt -> Int]
  BY ListIs DEF Balanced
<1>2. \A G : Number(s.elems, G) \in Nat
  BY <1>1, NumberType
<1>3. \A b \in Bt : s.ref[b] \in Nat
  <2> SUFFICES ASSUME NEW b \in Bt PROVE s.ref[b] \in Nat
    OBVIOUS
  <2>1. /\ Number(s.elems, MadeWith(R, b)) \in Nat /\ Number(s.elems, DeletedWith(R, b)) \in Nat
        /\ s.ref[b] = Number(s.elems, MadeWith(R, b)) + Number(s.elems, DeletedWith(R, b))
                         + (IF b = h THEN 1 ELSE 0)
    BY <1>2 DEF Balanced
  <2> QED
    BY <2>1
<1>4. s.n_active_elems \in Nat /\ s.n_consumed_elems \in Nat
  BY <1>2 DEF Balanced
<1> QED
  BY <1>1, <1>2, <1>3, <1>4

\* mut_resources_create_resource of an address that is not there.
LEMMA CreateBalanced ==
    ASSUME NEW A, NEW N, NEW P, NEW s, NEW h, Balanced(s, Entry(A, N, P), h),
           NEW a \in A, 0 \in N, NoAction \in P, h # NoBt => h \in Bt,
           At(s, a) = {}
    PROVE  LET t == mut_resources_create_resource(s, a) IN
           /\ Balanced(t, Entry(A, N, P), h)
           /\ t.elems = <<NewResource(a)>> \o s.elems
           /\ mut_resources_lookup(t, a) = 1
<1> DEFINE R == Entry(A, N, P)
           t == mut_resources_create_resource(s, a)
           e == NewResource(a)
           q == <<e>> \o s.elems
<1>1. /\ s \in ListOf(R) /\ s.elems \in Seq(R) /\ s.n_active_elems \in Int
      /\ s.n_consumed_elems \in Int /\ s.ref \in [Bt -> Int] /\ \A G : Number(s.elems, G) \in Nat
  BY BalancedNumbers, ListIs
<1>2. /\ e \in R /\ e.addr = a /\ e.consumer = NoAction /\ e.pbt = NoBt /\ e.cbt = NoBt
  BY DEF NewResource, Entry
<1> HIDE DEF R, e
<1>3. q \in Seq(R) /\ q[1] = e /\ Len(q) = Len(s.elems) + 1 /\ Len(s.elems) \in Nat
  BY <1>1, <1>2, PrependSeq
<1>4. /\ t \in ListOf(R) /\ t.elems = q /\ t.n_active_elems = s.n_active_elems + 1
      /\ t.n_consumed_elems = s.n_consumed_elems /\ t.ref = s.ref
  <2> DEFINE u == [s EXCEPT !.elems = q]
  <2>1. t = [u EXCEPT !.n_active_elems = @ + 1]
    BY DEF mut_resources_create_resource, e
  <2>2. u = [elems |-> q, n_active_elems |-> s.n_active_elems,
             n_consumed_elems |-> s.n_consumed_elems, ref |-> s.ref]
    BY <1>1, UpdateList
  <2> HIDE DEF u, q, t
  <2>3. /\ u \in ListOf(R) /\ u.elems = q /\ u.n_active_elems = s.n_active_elems
        /\ u.n_consumed_elems = s.n_consumed_elems /\ u.ref = s.ref
    BY <1>1, <1>3, <2>2, ListFields
  <2>4. t = [elems |-> u.elems, n_active_elems |-> u.n_active_elems + 1,
             n_consumed_elems |-> u.n_consumed_elems, ref |-> u.ref]
    BY <2>1, <2>3, UpdateList
  <2>5. u.n_active_elems + 1 \in Int /\ u.n_consumed_elems \in Int /\ u.ref \in [Bt -> Int]
    BY <1>1, <2>3
  <2>6. u.elems \in Seq(R)
    BY <1>3, <2>3 DEF q
  <2> QED
    BY <2>3, <2>4, <2>5, <2>6, ListFields
<1>5. \A G : Number(q, G) = Number(s.elems, G) + (IF e \in G THEN 1 ELSE 0)
  BY <1>1, <1>2, NumberPrepend
<1>6. /\ e \in Available(R) /\ e \notin Deleted(R)
      /\ \A b \in Bt : e \notin MadeWith(R, b) /\ e \notin DeletedWith(R, b)
  BY <1>2, BtAssumption DEF Available, Deleted, MadeWith, DeletedWith, NoBt
<1> HIDE DEF q, t
<1>7. /\ Number(q, Available(R)) = Number(s.elems, Available(R)) + 1
      /\ Number(q, Deleted(R)) = Number(s.elems, Deleted(R))
      /\ \A b \in Bt : /\ Number(q, MadeWith(R, b)) = Number(s.elems, MadeWith(R, b))
                      /\ Number(q, DeletedWith(R, b)) = Number(s.elems, DeletedWith(R, b))
  BY <1>1, <1>5, <1>6
<1>8. Balanced(s, R, h)
  BY DEF R
<1>9. Balanced(t, R, h)
  BY <1>1, <1>4, <1>7, <1>8 DEF Balanced
<1>10. mut_resources_lookup(t, a) = 1
  <2>1. 1 \in At(t, a)
    BY <1>2, <1>3, <1>4 DEF At
  <2>2. mut_resources_lookup(t, a) \in 1..Len(t.elems) /\ mut_resources_lookup(t, a) <= 1
    BY <1>4, <2>1, Lookup
  <2> QED
    BY <1>3, <1>4, <2>2
<1> QED
  BY <1>4, <1>9, <1>10 DEF R, t, q, e

\* A resource replaced by one that is deleted if it was: its backtrace becomes
\* what the handler holds, if it had none.
LEMMA ProduceBalanced ==
    ASSUME NEW A, NEW N, NEW P, NEW s, NEW b \in Bt \cup {NoBt},
           Balanced(s, Entry(A, N, P), b),
           NEW i \in 1..Len(s.elems), s.elems[i].pbt = NoBt, NEW p \in P, NEW n \in N
    PROVE  LET t == mut_resource_make_producer(s, i, p, n, b)
               r == [addr |-> s.elems[i].addr, size |-> n, producer |-> p,
                     consumer |-> s.elems[i].consumer, pbt |-> b, cbt |-> s.elems[i].cbt]
           IN  /\ Balanced(t, Entry(A, N, P), NoBt)
               /\ t.elems = [s.elems EXCEPT ![i] = r] /\ r \in Entry(A, N, P)
<1> DEFINE R == Entry(A, N, P)
           t == mut_resource_make_producer(s, i, p, n, b)
           e == s.elems[i]
           r == [addr |-> e.addr, size |-> n, producer |-> p,
                 consumer |-> e.consumer, pbt |-> b, cbt |-> e.cbt]
           q == [s.elems EXCEPT ![i] = r]
<1>1. /\ s \in ListOf(R) /\ s.elems \in Seq(R) /\ s.n_active_elems \in Int
      /\ s.n_consumed_elems \in Int /\ s.ref \in [Bt -> Int] /\ \A G : Number(s.elems, G) \in Nat
  BY BalancedNumbers, ListIs
<1>2. e \in Entry(A, N, P)
  BY <1>1
<1>3. r = Produced(e, p, n, b)
  BY <1>2, ProducedEntry
<1>4. /\ r \in R /\ r.addr = e.addr /\ r.consumer = e.consumer /\ r.pbt = b /\ r.cbt = e.cbt
      /\ e.cbt \in Bt \cup {NoBt}
  <2>1. /\ e.addr \in A /\ e.consumer \in P /\ e.cbt \in Bt \cup {NoBt}
    BY <1>2, EntryFields
  <2> QED
    BY <2>1 DEF Entry
<1>5. t = [s EXCEPT !.elems = q]
  BY <1>3 DEF mut_resource_make_producer
<1>6. q \in Seq(R)
  BY <1>1, <1>4
<1> HIDE DEF R, r, e, t
<1>7. /\ t \in ListOf(R) /\ t.elems = q /\ t.n_active_elems = s.n_active_elems
      /\ t.n_consumed_elems = s.n_consumed_elems /\ t.ref = s.ref
  <2> HIDE DEF q
  <2>1. t = [elems |-> q, n_active_elems |-> s.n_active_elems,
             n_consumed_elems |-> s.n_consumed_elems, ref |-> s.ref]
    BY <1>1, <1>5, UpdateList
  <2> QED
    BY <1>1, <1>6, <2>1, ListFields
<1>8. \A G : Number(q, G) = Number(s.elems, G) - (IF e \in G THEN 1 ELSE 0) + (IF r \in G THEN 1 ELSE 0)
  <2> SUFFICES ASSUME NEW G
               PROVE  Number(q, G) = Number(s.elems, G) - (IF e \in G THEN 1 ELSE 0)
                                       + (IF r \in G THEN 1 ELSE 0)
    OBVIOUS
  <2>1. Number([s.elems EXCEPT ![i] = r], G) =
          Number(s.elems, G) - (IF s.elems[i] \in G THEN 1 ELSE 0) + (IF r \in G THEN 1 ELSE 0)
    <3>1. s.elems \in Seq(R) /\ i \in 1..Len(s.elems) /\ r \in R
      BY <1>1, <1>4
    <3> QED
      BY ONLY <3>1, NumberReplace
  <2> QED
    BY <2>1 DEF e
<1>9. e \in R /\ e.pbt = NoBt /\ NoBt \notin Bt
  BY <1>2, BtAssumption DEF R, NoBt, e
<1> HIDE DEF q
<1>10. /\ e \in Available(R) <=> r \in Available(R)
       /\ e \in Deleted(R) <=> r \in Deleted(R)
  BY <1>4, <1>9 DEF Available, Deleted
<1>11. /\ Number(q, Available(R)) = Number(s.elems, Available(R))
       /\ Number(q, Deleted(R)) = Number(s.elems, Deleted(R))
       /\ \A c \in Bt :
             /\ Number(q, MadeWith(R, c)) = Number(s.elems, MadeWith(R, c)) + (IF c = b THEN 1 ELSE 0)
             /\ Number(q, DeletedWith(R, c)) = Number(s.elems, DeletedWith(R, c))
  <2>1. /\ Number(q, Available(R)) = Number(s.elems, Available(R))
        /\ Number(q, Deleted(R)) = Number(s.elems, Deleted(R))
    BY <1>1, <1>8, <1>10
  <2>2. ASSUME NEW c \in Bt
        PROVE  /\ Number(q, MadeWith(R, c)) = Number(s.elems, MadeWith(R, c)) + (IF c = b THEN 1 ELSE 0)
               /\ Number(q, DeletedWith(R, c)) = Number(s.elems, DeletedWith(R, c))
    <3>1. Number(s.elems, MadeWith(R, c)) \in Nat /\ Number(s.elems, DeletedWith(R, c)) \in Nat
      BY <1>1
    <3>2. /\ e \notin MadeWith(R, c) /\ (r \in MadeWith(R, c) <=> c = b)
          /\ e \in DeletedWith(R, c) <=> r \in DeletedWith(R, c)
      BY <1>4, <1>9 DEF MadeWith, DeletedWith
    <3>3. Number(q, MadeWith(R, c)) = Number(s.elems, MadeWith(R, c)) + (IF c = b THEN 1 ELSE 0)
      BY <1>8, <3>1, <3>2
    <3>4. Number(q, DeletedWith(R, c)) = Number(s.elems, DeletedWith(R, c))
      BY <1>8, <3>1, <3>2
    <3> QED
      BY <3>3, <3>4
  <2> QED
    BY <2>1, <2>2
<1>12. Balanced(s, R, b)
  BY DEF R
<1>13. Balanced(t, R, NoBt)
  <2>1. ASSUME NEW c \in Bt
        PROVE  t.ref[c] = Number(q, MadeWith(R, c)) + Number(q, DeletedWith(R, c)) + 0
    <3>1. s.ref[c] = Number(s.elems, MadeWith(R, c)) + Number(s.elems, DeletedWith(R, c))
                       + (IF c = b THEN 1 ELSE 0)
      BY <1>12 DEF Balanced
    <3>2. Number(s.elems, MadeWith(R, c)) \in Nat /\ Number(s.elems, DeletedWith(R, c)) \in Nat
      BY <1>1
    <3>3. /\ Number(q, MadeWith(R, c)) = Number(s.elems, MadeWith(R, c)) + (IF c = b THEN 1 ELSE 0)
          /\ Number(q, DeletedWith(R, c)) = Number(s.elems, DeletedWith(R, c))
      BY <1>11
    <3> QED
      BY <1>7, <3>1, <3>2, <3>3
  <2> QED
    BY <1>7, <1>9, <1>11, <1>12, <2>1 DEF Balanced
<1> QED
  BY <1>4, <1>7, <1>13 DEF R, t, q, r, e

\* The fields after the reference counts alone have changed.
LEMMA RefsOnly ==
    ASSUME NEW R, NEW s \in ListOf(R), NEW f \in [Bt -> Int],
           NEW t, t = [s EXCEPT !.ref = f]
    PROVE  /\ t \in ListOf(R) /\ t.elems = s.elems /\ t.n_active_elems = s.n_active_elems
           /\ t.n_consumed_elems = s.n_consumed_elems /\ t.ref = f
<1>1. /\ s.elems \in Seq(R) /\ s.n_active_elems \in Int /\ s.n_consumed_elems \in Int
  BY ListIs
<1>2. t = [elems |-> s.elems, n_active_elems |-> s.n_active_elems,
           n_consumed_elems |-> s.n_consumed_elems, ref |-> f]
  BY UpdateList
<1> QED
  BY <1>1, <1>2 DEF ListOf

\* mut_backtrace_share adds a reference.
LEMMA ShareIs ==
    ASSUME NEW R, NEW s \in ListOf(R), NEW b \in Bt
    PROVE  LET t == mut_backtrace_share(s, b) IN
           /\ t \in ListOf(R) /\ t.elems = s.elems /\ t.n_active_elems = s.n_active_elems
           /\ t.n_consumed_elems = s.n_consumed_elems
           /\ \A c \in Bt : t.ref[c] = s.ref[c] + (IF c = b THEN 1 ELSE 0)
<1> DEFINE t == mut_backtrace_share(s, b)
           f == [s.ref EXCEPT ![b] = @ + 1]
<1>1. s.ref \in [Bt -> Int]
  BY ListIs
<1>2. t = [s EXCEPT !.ref = f]
  BY DEF mut_backtrace_share
<1>3. f \in [Bt -> Int] /\ \A c \in Bt : f[c] = s.ref[c] + (IF c = b THEN 1 ELSE 0)
  BY <1>1
<1> HIDE DEF t, f
<1>4. /\ t \in ListOf(R) /\ t.elems = s.elems /\ t.n_active_elems = s.n_active_elems
      /\ t.n_consumed_elems = s.n_consumed_elems /\ t.ref = f
  BY <1>2, <1>3, RefsOnly
<1> QED
  BY <1>3, <1>4 DEF t

\* And mut_backtrace_close takes one.
LEMMA CloseIs ==
    ASSUME NEW R, NEW s \in ListOf(R), NEW b \in Bt \cup {NoBt}
    PROVE  LET t == mut_backtrace_close(s, b) IN
           /\ t \in ListOf(R) /\ t.elems = s.elems /\ t.n_active_elems = s.n_active_elems
           /\ t.n_consumed_elems = s.n_consumed_elems
           /\ \A c \in Bt : t.ref[c] = s.ref[c] - (IF c = b THEN 1 ELSE 0)
<1> DEFINE t == mut_backtrace_close(s, b)
           f == [s.ref EXCEPT ![b] = @ - 1]
<1>1. s.ref \in [Bt -> Int] /\ NoBt \notin Bt
  BY ListIs, BtAssumption DEF NoBt
<1>2. CASE b = NoBt
  <2>1. t = s
    BY <1>2 DEF mut_backtrace_close
  <2>2. \A c \in Bt : s.ref[c] = s.ref[c] - (IF c = b THEN 1 ELSE 0)
    BY <1>1, <1>2
  <2> HIDE DEF t
  <2> QED
    BY <2>1, <2>2 DEF t
<1>3. CASE b \in Bt
  <2>1. t = [s EXCEPT !.ref = f]
    BY <1>1, <1>3 DEF mut_backtrace_close
  <2>2. f \in [Bt -> Int] /\ \A c \in Bt : f[c] = s.ref[c] - (IF c = b THEN 1 ELSE 0)
    BY <1>1, <1>3
  <2> HIDE DEF t, f
  <2>3. /\ t \in ListOf(R) /\ t.elems = s.elems /\ t.n_active_elems = s.n_active_elems
        /\ t.n_consumed_elems = s.n_consumed_elems /\ t.ref = f
    BY <2>1, <2>2, RefsOnly
  <2> QED
    BY <2>2, <2>3 DEF t
<1> QED
  BY <1>2, <1>3

\* mut_resources_mark_as_free: the resource shares what the handler holds.
LEMMA MarkBalanced ==
    ASSUME NEW A, NEW N, NEW P, NEW s, NEW b \in Bt \cup {NoBt},
           Balanced(s, Entry(A, N, P), b), NEW i \in 1..Len(s.elems),
           s.elems[i].consumer = NoAction, s.elems[i].cbt = NoBt,
           NEW c \in P, c # NoAction
    PROVE  LET t == mut_resources_mark_as_free(s, i, c, b)
               r == [addr |-> s.elems[i].addr, size |-> s.elems[i].size,
                     producer |-> s.elems[i].producer, consumer |-> c,
                     pbt |-> s.elems[i].pbt, cbt |-> b]
           IN  /\ Balanced(t, Entry(A, N, P), b)
               /\ t.elems = [s.elems EXCEPT ![i] = r] /\ r \in Entry(A, N, P)
<1> DEFINE R == Entry(A, N, P)
           t == mut_resources_mark_as_free(s, i, c, b)
           e == s.elems[i]
           r == [addr |-> e.addr, size |-> e.size, producer |-> e.producer, consumer |-> c,
                 pbt |-> e.pbt, cbt |-> b]
           q == [s.elems EXCEPT ![i] = r]
           u == IF b = NoBt THEN s ELSE mut_backtrace_share(s, b)
<1>1. /\ s \in ListOf(R) /\ s.elems \in Seq(R) /\ s.n_active_elems \in Int
      /\ s.n_consumed_elems \in Int /\ s.ref \in [Bt -> Int] /\ \A G : Number(s.elems, G) \in Nat
  BY BalancedNumbers, ListIs
<1>2. e \in Entry(A, N, P) /\ NoBt \notin Bt
  BY <1>1, BtAssumption DEF NoBt
<1>3. r = Consumed(e, c, b)
  BY <1>2, MarkedEntry
<1>4. /\ r \in R /\ r.consumer = c /\ r.pbt = e.pbt /\ r.cbt = b /\ r.addr = e.addr
  <2>1. /\ e.addr \in A /\ e.size \in N /\ e.producer \in P /\ e.pbt \in Bt \cup {NoBt}
    BY <1>2, EntryFields
  <2> QED
    BY <2>1 DEF Entry
<1>5. q \in Seq(R)
  BY <1>1, <1>4
<1>6. \A G : Number(q, G) = Number(s.elems, G) - (IF e \in G THEN 1 ELSE 0) + (IF r \in G THEN 1 ELSE 0)
  <2> SUFFICES ASSUME NEW G
               PROVE  Number(q, G) = Number(s.elems, G) - (IF e \in G THEN 1 ELSE 0)
                                       + (IF r \in G THEN 1 ELSE 0)
    OBVIOUS
  <2>1. Number([s.elems EXCEPT ![i] = r], G) =
          Number(s.elems, G) - (IF s.elems[i] \in G THEN 1 ELSE 0) + (IF r \in G THEN 1 ELSE 0)
    <3>1. s.elems \in Seq(R) /\ i \in 1..Len(s.elems) /\ r \in R
      BY <1>1, <1>4
    <3> QED
      BY ONLY <3>1, NumberReplace
  <2> QED
    BY <2>1 DEF e
<1>7. /\ u \in ListOf(R) /\ u.elems = s.elems /\ u.n_active_elems = s.n_active_elems
      /\ u.n_consumed_elems = s.n_consumed_elems
      /\ \A d \in Bt : u.ref[d] = s.ref[d] + (IF d = b THEN 1 ELSE 0)
  <2>1. CASE b = NoBt
    BY <1>1, <1>2, <2>1
  <2>2. CASE b # NoBt
    BY <1>1, <2>2, ShareIs
  <2> QED
    BY <2>1, <2>2
<1> HIDE DEF r, u
<1>8. /\ t \in ListOf(R) /\ t.elems = q /\ t.n_active_elems = s.n_active_elems - 1
      /\ t.n_consumed_elems = s.n_consumed_elems + 1 /\ t.ref = u.ref
  <2> DEFINE u1 == [u EXCEPT !.elems = q]
             u2 == [u1 EXCEPT !.n_active_elems = @ - 1]
             u3 == [u2 EXCEPT !.n_consumed_elems = @ + 1]
  <2>1. t = u3
    <3>1. t = [u EXCEPT !.elems[i] = Consumed(@, c, b),
                        !.n_active_elems = @ - 1, !.n_consumed_elems = @ + 1]
      BY DEF mut_resources_mark_as_free, u
    <3>2. u.elems[i] = e
      BY <1>7
    <3> QED
      BY <1>3, <1>7, <3>1, <3>2
  <2>2. u1 = [elems |-> q, n_active_elems |-> u.n_active_elems,
              n_consumed_elems |-> u.n_consumed_elems, ref |-> u.ref]
    BY <1>7, UpdateList
  <2> HIDE DEF t, q, u1, R
  <2>3. u.ref \in [Bt -> Int]
    BY <1>7, ListIs
  <2>4. /\ u1 \in ListOf(R) /\ u1.elems = q /\ u1.n_active_elems = s.n_active_elems
        /\ u1.n_consumed_elems = s.n_consumed_elems /\ u1.ref = u.ref
    <3>1. /\ u \in ListOf(R) /\ q \in Seq(R)
          /\ u.n_active_elems \in Int /\ u.n_consumed_elems \in Int
      BY ONLY <1>1, <1>5, <1>7
    <3>2. /\ u1 \in ListOf(R) /\ u1.elems = q /\ u1.n_active_elems = u.n_active_elems
          /\ u1.n_consumed_elems = u.n_consumed_elems /\ u1.ref = u.ref
      BY ONLY <2>2, <2>3, <3>1, ListFields
    <3> QED
      BY ONLY <1>7, <3>2
  <2>5. u2 = [elems |-> q, n_active_elems |-> s.n_active_elems - 1,
              n_consumed_elems |-> s.n_consumed_elems, ref |-> u.ref]
    BY <2>4, UpdateList
  <2> HIDE DEF u2
  <2>6. s.n_active_elems - 1 \in Int /\ s.n_consumed_elems + 1 \in Int
    BY <1>1
  <2>7. /\ u2 \in ListOf(R) /\ u2.elems = q /\ u2.n_active_elems = s.n_active_elems - 1
        /\ u2.n_consumed_elems = s.n_consumed_elems /\ u2.ref = u.ref
    BY <1>1, <1>5, <2>3, <2>5, <2>6 DEF ListOf
  <2>8. t = [elems |-> q, n_active_elems |-> s.n_active_elems - 1,
             n_consumed_elems |-> s.n_consumed_elems + 1, ref |-> u.ref]
    <3>1. u3 = [elems |-> u2.elems, n_active_elems |-> u2.n_active_elems,
                n_consumed_elems |-> u2.n_consumed_elems + 1, ref |-> u2.ref]
      BY <2>7, UpdateList
    <3> QED
      BY <2>1, <2>7, <3>1
  <2> DEFINE m == s.n_active_elems - 1
             n == s.n_consumed_elems + 1
  <2>9. /\ s \in ListOf(R) /\ q \in Seq(R) /\ m \in Int /\ n \in Int /\ u.ref \in [Bt -> Int]
        /\ t = [elems |-> q, n_active_elems |-> m, n_consumed_elems |-> n, ref |-> u.ref]
    BY ONLY <1>1, <1>5, <2>3, <2>6, <2>8
  <2> HIDE DEF m, n
  <2>10. /\ t \in ListOf(R) /\ t.elems = q /\ t.n_active_elems = m
         /\ t.n_consumed_elems = n /\ t.ref = u.ref
    BY ONLY <2>9, ListFields
  <2> QED
    BY ONLY <2>10 DEF m, n
<1> HIDE DEF q, t, e
<1>9. e \in R
  BY <1>2 DEF R
<1>10. e.consumer = NoAction /\ e.cbt = NoBt
  BY DEF e
<1> HIDE DEF R
<1>11. /\ e \in Available(R) /\ e \notin Deleted(R) /\ r \notin Available(R) /\ r \in Deleted(R)
  BY <1>4, <1>9, <1>10 DEF Available, Deleted
<1>12. /\ Number(q, Available(R)) = Number(s.elems, Available(R)) - 1
       /\ Number(q, Deleted(R)) = Number(s.elems, Deleted(R)) + 1
  <2>1. Number(s.elems, Available(R)) \in Nat /\ Number(s.elems, Deleted(R)) \in Nat
    BY <1>1
  <2> QED
    BY <1>6, <1>11, <2>1
<1>13. Balanced(s, R, b)
  BY DEF R
<1>14. ASSUME NEW d \in Bt
       PROVE  t.ref[d] = Number(q, MadeWith(R, d)) + Number(q, DeletedWith(R, d))
                            + (IF d = b THEN 1 ELSE 0)
  <2>1. Number(s.elems, MadeWith(R, d)) \in Nat /\ Number(s.elems, DeletedWith(R, d)) \in Nat
    BY <1>1
  <2>2. /\ e \in MadeWith(R, d) <=> r \in MadeWith(R, d)
        /\ e \notin DeletedWith(R, d) /\ (r \in DeletedWith(R, d) <=> d = b)
    BY <1>2, <1>4, <1>9, <1>10 DEF MadeWith, DeletedWith
  <2>3. Number(q, MadeWith(R, d)) = Number(s.elems, MadeWith(R, d))
    <3>1. Number(q, MadeWith(R, d)) = Number(s.elems, MadeWith(R, d))
            - (IF e \in MadeWith(R, d) THEN 1 ELSE 0) + (IF r \in MadeWith(R, d) THEN 1 ELSE 0)
      BY <1>6
    <3> QED
      BY <2>1, <2>2, <3>1
  <2>4. Number(q, DeletedWith(R, d)) = Number(s.elems, DeletedWith(R, d)) + (IF d = b THEN 1 ELSE 0)
    <3>1. Number(q, DeletedWith(R, d)) = Number(s.elems, DeletedWith(R, d))
            - (IF e \in DeletedWith(R, d) THEN 1 ELSE 0) + (IF r \in DeletedWith(R, d) THEN 1 ELSE 0)
      BY <1>6
    <3> QED
      BY <2>1, <2>2, <3>1
  <2>5. s.ref[d] = Number(s.elems, MadeWith(R, d)) + Number(s.elems, DeletedWith(R, d))
                     + (IF d = b THEN 1 ELSE 0)
    BY <1>13 DEF Balanced
  <2> QED
    BY <1>7, <1>8, <2>1, <2>3, <2>4, <2>5
<1>15. Balanced(t, R, b)
  BY <1>8, <1>12, <1>13, <1>14 DEF Balanced
<1> QED
  BY <1>4, <1>8, <1>15 DEF R, t, q, r, e

\* mut_resources_really_delete_resource: the reference of the resource goes with it.
LEMMA UnlinkBalanced ==
    ASSUME NEW A, NEW N, NEW P, NEW s, NEW h, Balanced(s, Entry(A, N, P), h),
           NEW i \in 1..Len(s.elems), mut_resources_lookup(s, s.elems[i].addr) = i,
           s.elems[i].consumer = NoAction, s.elems[i].cbt = NoBt
    PROVE  LET t == mut_resources_really_delete_resource(s, i)
           IN  Balanced(t, Entry(A, N, P), h) /\ t.elems = RemoveAt(s.elems, i)
<1> DEFINE R == Entry(A, N, P)
           t == mut_resources_really_delete_resource(s, i)
           e == s.elems[i]
           q == RemoveAt(s.elems, i)
           u == mut_backtrace_close(s, e.pbt)
<1>1. /\ s \in ListOf(R) /\ s.elems \in Seq(R) /\ s.n_active_elems \in Int
      /\ s.n_consumed_elems \in Int /\ s.ref \in [Bt -> Int] /\ \A G : Number(s.elems, G) \in Nat
  BY BalancedNumbers, ListIs
<1>2. e \in Entry(A, N, P) /\ e.pbt \in Bt \cup {NoBt} /\ NoBt \notin Bt
  <2>1. e \in Entry(A, N, P) /\ NoBt \notin Bt
    BY <1>1, BtAssumption DEF NoBt
  <2> QED
    BY <2>1, EntryFields
<1>3. q \in Seq(R)
  BY <1>1, RemoveSeq
<1>4. \A G : Number(q, G) = Number(s.elems, G) - (IF e \in G THEN 1 ELSE 0)
  BY <1>1, NumberRemove
<1>5. e.consumer = NoAction /\ e.cbt = NoBt
  OBVIOUS
<1> HIDE DEF e
<1>6. /\ u \in ListOf(R) /\ u.elems = s.elems /\ u.n_active_elems = s.n_active_elems
      /\ u.n_consumed_elems = s.n_consumed_elems
      /\ \A c \in Bt : u.ref[c] = s.ref[c] - (IF c = e.pbt THEN 1 ELSE 0)
  BY <1>1, <1>2, CloseIs
<1> HIDE DEF u
<1>7. /\ t \in ListOf(R) /\ t.elems = q /\ t.n_active_elems = s.n_active_elems - 1
      /\ t.n_consumed_elems = s.n_consumed_elems /\ t.ref = u.ref
  <2> DEFINE u1 == [u EXCEPT !.elems = q]
             u2 == [u1 EXCEPT !.n_active_elems = @ - 1]
  <2>1. t = u2
    <3>1. t = [u EXCEPT !.elems = RemoveAt(@, i), !.n_active_elems = @ - 1]
      BY DEF mut_resources_really_delete_resource, u, e
    <3> QED
      BY <1>6, <3>1
  <2>2. u1 = [elems |-> q, n_active_elems |-> u.n_active_elems,
              n_consumed_elems |-> u.n_consumed_elems, ref |-> u.ref]
    BY <1>6, UpdateList
  <2> HIDE DEF t, q, u1, R
  <2>3. u.ref \in [Bt -> Int]
    BY <1>6, ListIs
  <2>4. /\ u1 \in ListOf(R) /\ u1.elems = q /\ u1.n_active_elems = s.n_active_elems
        /\ u1.n_consumed_elems = s.n_consumed_elems /\ u1.ref = u.ref
    BY <1>1, <1>3, <1>6, <2>2, <2>3 DEF ListOf
  <2>5. u2 = [elems |-> q, n_active_elems |-> s.n_active_elems - 1,
              n_consumed_elems |-> s.n_consumed_elems, ref |-> u.ref]
    BY <2>4, UpdateList
  <2> HIDE DEF u2
  <2>6. s.n_active_elems - 1 \in Int
    BY <1>1
  <2> QED
    BY <1>1, <1>3, <2>1, <2>3, <2>5, <2>6 DEF ListOf
<1> HIDE DEF q, t
<1>8. e \in R
  BY <1>2 DEF R
<1> HIDE DEF R
<1>9. e \in Available(R) /\ e \notin Deleted(R)
  BY <1>5, <1>8 DEF Available, Deleted
<1>10. /\ Number(q, Available(R)) = Number(s.elems, Available(R)) - 1
       /\ Number(q, Deleted(R)) = Number(s.elems, Deleted(R))
  <2>1. Number(s.elems, Available(R)) \in Nat /\ Number(s.elems, Deleted(R)) \in Nat
    BY <1>1
  <2> QED
    BY <1>4, <1>9, <2>1
<1>11. Balanced(s, R, h)
  BY DEF R
<1>12. ASSUME NEW d \in Bt
       PROVE  t.ref[d] = Number(q, MadeWith(R, d)) + Number(q, DeletedWith(R, d))
                            + (IF d = h THEN 1 ELSE 0)
  <2>1. Number(s.elems, MadeWith(R, d)) \in Nat /\ Number(s.elems, DeletedWith(R, d)) \in Nat
    BY <1>1
  <2>2. (e \in MadeWith(R, d) <=> d = e.pbt) /\ e \notin DeletedWith(R, d)
    BY <1>2, <1>5, <1>8 DEF MadeWith, DeletedWith
  <2>3. Number(q, MadeWith(R, d)) = Number(s.elems, MadeWith(R, d)) - (IF d = e.pbt THEN 1 ELSE 0)
    <3>1. Number(q, MadeWith(R, d)) = Number(s.elems, MadeWith(R, d))
            - (IF e \in MadeWith(R, d) THEN 1 ELSE 0)
      BY <1>4
    <3> QED
      BY <2>2, <3>1
  <2>4. Number(q, DeletedWith(R, d)) = Number(s.elems, DeletedWith(R, d))
    <3>1. Number(q, DeletedWith(R, d)) = Number(s.elems, DeletedWith(R, d))
            - (IF e \in DeletedWith(R, d) THEN 1 ELSE 0)
      BY <1>4
    <3> QED
      BY <2>1, <2>2, <3>1
  <2>5. s.ref[d] = Number(s.elems, MadeWith(R, d)) + Number(s.elems, DeletedWith(R, d))
                     + (IF d = h THEN 1 ELSE 0)
    BY <1>11 DEF Balanced
  <2>6. t.ref[d] = s.ref[d] - (IF d = e.pbt THEN 1 ELSE 0)
    BY <1>6, <1>7
  <2> QED
    BY <2>1, <2>3, <2>4, <2>5, <2>6
<1>13. Balanced(t, R, h)
  BY <1>7, <1>10, <1>11, <1>12 DEF Balanced
<1> QED
  BY <1>7, <1>13 DEF R, t, q

\* mut_realloc_realloc: the backtrace of the resource is closed and the
\* resource becomes r, which takes what the handler holds.
LEMMA ReplaceBalanced ==
    ASSUME NEW A, NEW N, NEW P, NEW s, NEW b \in Bt \cup {NoBt},
           Balanced(s, Entry(A, N, P), b), NEW i \in 1..Len(s.elems),
           s.elems[i].consumer = NoAction, s.elems[i].cbt = NoBt,
           NEW r \in Entry(A, N, P), r.consumer = NoAction, r.cbt = NoBt, r.pbt = b,
           NEW u, u = mut_backtrace_close(s, s.elems[i].pbt),
           NEW q, q = [s.elems EXCEPT ![i] = r],
           NEW t, t = [u EXCEPT !.elems = q]
    PROVE  Balanced(t, Entry(A, N, P), NoBt) /\ t.elems = q
<1> DEFINE R == Entry(A, N, P)
           e == s.elems[i]
<1>1. /\ s \in ListOf(R) /\ s.elems \in Seq(R) /\ s.n_active_elems \in Int
      /\ s.n_consumed_elems \in Int /\ s.ref \in [Bt -> Int] /\ \A G : Number(s.elems, G) \in Nat
  BY BalancedNumbers, ListIs
<1>2. e \in Entry(A, N, P) /\ e.pbt \in Bt \cup {NoBt} /\ NoBt \notin Bt
  <2>1. e \in Entry(A, N, P) /\ NoBt \notin Bt
    BY <1>1, BtAssumption DEF NoBt
  <2> QED
    BY <2>1, EntryFields
<1>3. q \in Seq(R)
  BY <1>1
<1>4. \A G : Number(q, G) = Number(s.elems, G) - (IF e \in G THEN 1 ELSE 0) + (IF r \in G THEN 1 ELSE 0)
  <2> SUFFICES ASSUME NEW G
               PROVE  Number(q, G) = Number(s.elems, G) - (IF e \in G THEN 1 ELSE 0)
                                       + (IF r \in G THEN 1 ELSE 0)
    OBVIOUS
  <2> QED
    BY <1>1, NumberReplace
<1>5. e.consumer = NoAction /\ e.cbt = NoBt
  OBVIOUS
<1>6. u = mut_backtrace_close(s, e.pbt)
  OBVIOUS
<1> HIDE DEF e
<1>7. /\ u \in ListOf(R) /\ u.elems = s.elems /\ u.n_active_elems = s.n_active_elems
      /\ u.n_consumed_elems = s.n_consumed_elems
      /\ \A c \in Bt : u.ref[c] = s.ref[c] - (IF c = e.pbt THEN 1 ELSE 0)
  <2>1. LET v == mut_backtrace_close(s, e.pbt) IN
        /\ v \in ListOf(R) /\ v.elems = s.elems /\ v.n_active_elems = s.n_active_elems
        /\ v.n_consumed_elems = s.n_consumed_elems
        /\ \A c \in Bt : v.ref[c] = s.ref[c] - (IF c = e.pbt THEN 1 ELSE 0)
    BY <1>1, <1>2, CloseIs
  <2> QED
    BY <1>6, <2>1
<1>8. /\ t \in ListOf(R) /\ t.elems = q /\ t.n_active_elems = s.n_active_elems
      /\ t.n_consumed_elems = s.n_consumed_elems /\ t.ref = u.ref
  <2>1. t = [u EXCEPT !.elems = q]
    OBVIOUS
  <2> HIDE DEF R
  <2>2. t = [elems |-> q, n_active_elems |-> u.n_active_elems,
              n_consumed_elems |-> u.n_consumed_elems, ref |-> u.ref]
    BY <1>7, <2>1, UpdateList
  <2>3. u.ref \in [Bt -> Int]
    BY <1>7, ListIs
  <2>4. /\ s \in ListOf(R) /\ q \in Seq(R)
        /\ u.n_active_elems \in Int /\ u.n_consumed_elems \in Int
    BY ONLY <1>1, <1>3, <1>7
  <2>5. /\ t \in ListOf(R) /\ t.elems = q /\ t.n_active_elems = u.n_active_elems
        /\ t.n_consumed_elems = u.n_consumed_elems /\ t.ref = u.ref
    BY ONLY <2>2, <2>3, <2>4, ListFields
  <2> QED
    BY ONLY <1>7, <2>5
<1>9. e \in R /\ r \in R
  BY <1>2 DEF R
<1> HIDE DEF R
<1>10. /\ e \in Available(R) /\ e \notin Deleted(R) /\ r \in Available(R) /\ r \notin Deleted(R)
  BY <1>5, <1>9 DEF Available, Deleted
<1>11. /\ Number(q, Available(R)) = Number(s.elems, Available(R))
       /\ Number(q, Deleted(R)) = Number(s.elems, Deleted(R))
  <2>1. Number(s.elems, Available(R)) \in Nat /\ Number(s.elems, Deleted(R)) \in Nat
    BY <1>1
  <2>2. Number(q, Available(R)) = Number(s.elems, Available(R)) - 1 + 1
    BY ONLY <1>4, <1>10
  <2>3. Number(q, Deleted(R)) = Number(s.elems, Deleted(R)) - 0 + 0
    BY ONLY <1>4, <1>10
  <2> QED
    BY ONLY <2>1, <2>2, <2>3
<1>12. Balanced(s, R, b)
  BY DEF R
<1>13. ASSUME NEW d \in Bt
       PROVE  t.ref[d] = Number(q, MadeWith(R, d)) + Number(q, DeletedWith(R, d))
                            + (IF d = NoBt THEN 1 ELSE 0)
  <2>1. Number(s.elems, MadeWith(R, d)) \in Nat /\ Number(s.elems, DeletedWith(R, d)) \in Nat
    BY <1>1
  <2>2. /\ e \in MadeWith(R, d) <=> d = e.pbt
        /\ r \in MadeWith(R, d) <=> d = b
        /\ e \notin DeletedWith(R, d) /\ r \notin DeletedWith(R, d) /\ d # NoBt
    BY <1>2, <1>5, <1>9 DEF MadeWith, DeletedWith
  <2>3. Number(q, MadeWith(R, d)) = Number(s.elems, MadeWith(R, d))
           - (IF d = e.pbt THEN 1 ELSE 0) + (IF d = b THEN 1 ELSE 0)
    <3>1. Number(q, MadeWith(R, d)) = Number(s.elems, MadeWith(R, d))
            - (IF e \in MadeWith(R, d) THEN 1 ELSE 0) + (IF r \in MadeWith(R, d) THEN 1 ELSE 0)
      BY <1>4
    <3> QED
      BY <2>2, <3>1
  <2>4. Number(q, DeletedWith(R, d)) = Number(s.elems, DeletedWith(R, d))
    <3>1. Number(q, DeletedWith(R, d)) = Number(s.elems, DeletedWith(R, d))
            - (IF e \in DeletedWith(R, d) THEN 1 ELSE 0) + (IF r \in DeletedWith(R, d) THEN 1 ELSE 0)
      BY <1>4
    <3> QED
      BY <2>1, <2>2, <3>1
  <2>5. s.ref[d] = Number(s.elems, MadeWith(R, d)) + Number(s.elems, DeletedWith(R, d))
                     + (IF d = b THEN 1 ELSE 0)
    BY <1>12 DEF Balanced
  <2>6. t.ref[d] = s.ref[d] - (IF d = e.pbt THEN 1 ELSE 0)
    BY <1>8, <1>7
  <2> QED
    BY <2>1, <2>2, <2>3, <2>4, <2>5, <2>6
<1>14. Balanced(t, R, NoBt)
  <2>1. /\ t.n_active_elems = Number(t.elems, Available(R))
        /\ t.n_consumed_elems = Number(t.elems, Deleted(R))
    BY ONLY <1>8, <1>11, <1>12 DEF Balanced
  <2>2. \A d \in Bt : t.ref[d] = Number(t.elems, MadeWith(R, d)) + Number(t.elems, DeletedWith(R, d))
                                  + (IF d = NoBt THEN 1 ELSE 0)
    BY ONLY <1>8, <1>13
  <2> QED
    BY ONLY <1>8, <2>1, <2>2 DEF Balanced
<1> QED
  BY <1>8, <1>14 DEF R

\* mut_resources_close gives back every reference a resource owns.
LEMMA CloseAll ==
    ASSUME NEW R, NEW s, NEW h, Balanced(s, R, h)
    PROVE  LET t == mut_resources_close(s)
           IN  /\ t.elems = <<>> /\ t.ref = [b \in Bt |-> IF b = h THEN 1 ELSE 0]
               /\ t.n_active_elems = s.n_active_elems /\ t.n_consumed_elems = s.n_consumed_elems
<1> DEFINE t == mut_resources_close(s)
           f == [b \in Bt |-> s.ref[b] - Owners(s, b)]
           u == [s EXCEPT !.elems = <<>>]
<1>1. /\ s \in ListOf(R) /\ s.n_active_elems \in Int /\ s.n_consumed_elems \in Int
      /\ s.ref \in [Bt -> Int] /\ NoBt \notin Bt /\ \A G : Number(s.elems, G) \in Nat
  BY BalancedNumbers, ListIs, BtAssumption DEF NoBt
<1>2. ASSUME NEW b \in Bt PROVE f[b] = IF b = h THEN 1 ELSE 0
  <2>1. Number(s.elems, MadeWith(R, b)) \in Nat /\ Number(s.elems, DeletedWith(R, b)) \in Nat
    BY <1>1
  <2>2. s.ref[b] = Number(s.elems, MadeWith(R, b)) + Number(s.elems, DeletedWith(R, b))
                     + (IF b = h THEN 1 ELSE 0)
    BY DEF Balanced
  <2>3. Owners(s, b) = Number(s.elems, MadeWith(R, b)) + Number(s.elems, DeletedWith(R, b))
    BY <1>1, OwnersCounted
  <2>4. f[b] = s.ref[b] - Owners(s, b)
    OBVIOUS
  <2> QED
    BY <2>1, <2>2, <2>3, <2>4
<1>3. f = [b \in Bt |-> IF b = h THEN 1 ELSE 0]
  BY <1>2
<1>4. t = [u EXCEPT !.ref = f]
  BY DEF mut_resources_close
<1>5. u = [elems |-> <<>>, n_active_elems |-> s.n_active_elems,
           n_consumed_elems |-> s.n_consumed_elems, ref |-> s.ref]
  BY <1>1, UpdateList
<1> HIDE DEF f, t, u
<1>6. /\ u \in ListOf({}) /\ u.elems = <<>> /\ u.n_active_elems = s.n_active_elems
      /\ u.n_consumed_elems = s.n_consumed_elems
  BY <1>1, <1>5 DEF ListOf
<1>7. t = [elems |-> <<>>, n_active_elems |-> s.n_active_elems,
           n_consumed_elems |-> s.n_consumed_elems, ref |-> f]
  BY <1>4, <1>6, UpdateList
<1> QED
  BY <1>3, <1>7 DEF t

\* mut_resources_open starts with nothing to count.
LEMMA OpenAll ==
    ASSUME NEW R
    PROVE  Balanced(mut_resources_open, R, NoBt) /\ DistinctIn(mut_resources_open.elems)
<1> DEFINE s == mut_resources_open
<1>1. /\ s \in ListOf(R) /\ s.elems = <<>> /\ s.n_active_elems = 0 /\ s.n_consumed_elems = 0
      /\ \A b \in Bt : s.ref[b] = 0
  BY DEF mut_resources_open, ListOf
<1> HIDE DEF s
<1>2. \A G : Number(s.elems, G) = 0
  BY <1>1, FS_EmptySet DEF Number, Places
<1>3. NoBt \notin Bt
  BY BtAssumption DEF NoBt
<1>4. Balanced(s, R, NoBt)
  BY <1>1, <1>2, <1>3 DEF Balanced
<1> QED
  BY <1>1, <1>4 DEF s, DistinctIn
==============================================================================
