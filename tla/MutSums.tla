------------------------------- MODULE MutSums -------------------------------
(***************************************************************************)
(* Facts about the sum of a function over a finite set, which the space of *)
(* the program's objects and the bytes of MUT's own buffers are.  The sum  *)
(* is a fold over the subsets of the set; a set on which a claim about it  *)
(* fails would have a smallest subset on which it fails, and that one is   *)
(* reached from a smaller one by a step of the fold.                       *)
(***************************************************************************)
EXTENDS Integers, FiniteSets, FiniteSetsExt, FiniteSetTheorems, WellFoundedInduction, TLAPS

Sum(o, S) == MapThenSumSet(LAMBDA x : o[x], S)

Some(s) == CHOOSE x \in s : TRUE

\* What the fold computes, as a function g of the subsets of S.
IsIter(g, o, S) ==
    g = [s \in SUBSET S |-> IF s = {} THEN 0 ELSE o[Some(s)] + g[s \ {Some(s)}]]

\* Every set of natural numbers has a least element.
LEMMA Smallest ==
    ASSUME NEW S \in SUBSET Nat, S # {}
    PROVE  \E m \in S : \A k \in S : m <= k
<1>1. PICK m \in S : \A k \in S : <<k, m>> \notin OpToRel(<, Nat)
  BY NatLessThanWellFounded, WFMin
<1>2. \A k \in S : ~(k < m)
  BY <1>1 DEF OpToRel
<1> QED BY <1>2

\* Every family of subsets of a finite set has one that includes no other.
LEMMA SmallestSet ==
    ASSUME NEW S, IsFiniteSet(S), NEW F, F \subseteq SUBSET S, F # {}
    PROVE  \E m \in F : \A t \in F : t \subseteq m => t = m
<1> DEFINE N == {Cardinality(s) : s \in F}
<1>1. \A s \in F : IsFiniteSet(s) /\ Cardinality(s) \in Nat
  BY FS_Subset, FS_CardinalityType
<1>2. N \in SUBSET Nat /\ N # {}
  BY <1>1
<1>3. PICK c \in N : \A k \in N : c <= k
  <2> HIDE DEF N
  <2> QED BY <1>2, Smallest
<1>4. PICK m \in F : Cardinality(m) = c
  BY <1>3
<1>5. ASSUME NEW t \in F, t \subseteq m PROVE t = m
  <2>1. Cardinality(t) <= Cardinality(m) /\ (Cardinality(t) = Cardinality(m) => t = m)
    BY <1>1, <1>5, FS_Subset
  <2>2. Cardinality(m) <= Cardinality(t)
    BY <1>3, <1>4
  <2> QED BY <2>1, <2>2, <1>1
<1> QED BY <1>5

LEMMA SomeIs == ASSUME NEW s, s # {} PROVE Some(s) \in s /\ s \ {Some(s)} # s
BY DEF Some

LEMMA IterAt ==
    ASSUME NEW g, NEW o, NEW S, IsIter(g, o, S), NEW s, s \subseteq S
    PROVE  g[s] = IF s = {} THEN 0 ELSE o[Some(s)] + g[s \ {Some(s)}]
<1>1. g = [t \in SUBSET S |-> IF t = {} THEN 0 ELSE o[Some(t)] + g[t \ {Some(t)}]]
  BY DEF IsIter
<1>2. s \in SUBSET S
  OBVIOUS
<1> QED BY <1>1, <1>2

\* The fold over one set agrees with the fold over another on what they share.
LEMMA IterAgrees ==
    ASSUME NEW o, NEW A, NEW B, NEW g, NEW k, IsIter(g, o, A), IsIter(k, o, B),
           NEW C, IsFiniteSet(C), C \subseteq A, C \subseteq B
    PROVE  g[C] = k[C]
<1> SUFFICES ASSUME g[C] # k[C] PROVE FALSE
  OBVIOUS
<1> DEFINE F == {t \in SUBSET C : g[t] # k[t]}
<1>1. F \subseteq SUBSET C /\ F # {}
  OBVIOUS
<1>2. PICK m \in F : \A t \in F : t \subseteq m => t = m
  <2> HIDE DEF F
  <2> QED BY <1>1, SmallestSet
<1>3. m \subseteq A /\ m \subseteq B /\ g[m] # k[m]
  BY <1>2
<1>4. m # {}
  BY <1>3, IterAt
<1>5. m \ {Some(m)} \notin F
  BY <1>2, <1>4, SomeIs
<1>6. g[m \ {Some(m)}] = k[m \ {Some(m)}]
  BY <1>5, <1>2
<1>7. g[m] = o[Some(m)] + g[m \ {Some(m)}]
  BY ONLY <1>3, <1>4, IterAt, IsIter(g, o, A)
<1>8. k[m] = o[Some(m)] + k[m \ {Some(m)}]
  BY ONLY <1>3, <1>4, IterAt, IsIter(k, o, B)
<1> QED BY <1>3, <1>6, <1>7, <1>8

\* The fold is defined.
LEMMA IterExists ==
    ASSUME NEW o, NEW S, IsFiniteSet(S)
    PROVE  \E g : IsIter(g, o, S)
<1> DEFINE F == {s \in SUBSET S : ~ \E g : IsIter(g, o, s)}
<1>1. SUFFICES ASSUME F # {} PROVE FALSE
  OBVIOUS
<1>2. PICK m \in F : \A t \in F : t \subseteq m => t = m
  <2>1. F \subseteq SUBSET S
    OBVIOUS
  <2> HIDE DEF F
  <2> QED BY <1>1, <2>1, SmallestSet
<1>3. m \subseteq S /\ IsFiniteSet(m)
  BY <1>2, FS_Subset
<1> DEFINE G(s) == CHOOSE g : IsIter(g, o, s)
           V(s) == IF s = {} THEN 0 ELSE o[Some(s)] + G(s \ {Some(s)})[s \ {Some(s)}]
           whole == [s \in SUBSET m |-> V(s)]
<1>4. ASSUME NEW s, s \subseteq m, s # m PROVE IsIter(G(s), o, s)
  <2>1. s \notin F
    BY <1>2, <1>4
  <2>2. \E g : IsIter(g, o, s)
    BY <2>1, <1>3, <1>4
  <2> QED BY <2>2
<1>5. ASSUME NEW s, s \subseteq m, s # m PROVE G(s)[s] = V(s)
  <2> DEFINE r == s \ {Some(s)}
  <2>1. G(s)[s] = IF s = {} THEN 0 ELSE o[Some(s)] + G(s)[r]
    <3>1. IsIter(G(s), o, s)
      BY <1>4, <1>5
    <3> HIDE DEF G
    <3> QED BY <3>1, IterAt
  <2>2. CASE s = {}
    BY <2>1, <2>2
  <2>3. CASE s # {}
    <3>1. r \subseteq s /\ r # m /\ r \subseteq m
      BY <1>5
    <3>2. IsIter(G(s), o, s) /\ IsIter(G(r), o, r) /\ IsFiniteSet(r)
      BY <1>4, <1>5, <1>3, <3>1, FS_Subset
    <3>3. G(s)[r] = G(r)[r]
      <4> HIDE DEF G, r
      <4> QED BY <3>1, <3>2, IterAgrees
    <3> QED BY <2>1, <2>3, <3>3
  <2> QED BY <2>2, <2>3
<1>6. whole = [s \in SUBSET m |-> IF s = {} THEN 0 ELSE o[Some(s)] + whole[s \ {Some(s)}]]
  <2>1. ASSUME NEW s \in SUBSET m, s # {} PROVE V(s) = o[Some(s)] + whole[s \ {Some(s)}]
    <3> DEFINE r == s \ {Some(s)}
    <3>1. r \in SUBSET m /\ r # m
      BY <2>1, SomeIs
    <3>2. G(r)[r] = whole[r]
      <4>1. G(r)[r] = V(r)
        BY ONLY <1>5, <3>1
      <4>2. whole[r] = V(r)
        <5> HIDE DEF V, r
        <5> QED BY ONLY <3>1
      <4> QED BY ONLY <4>1, <4>2
    <3>3. V(s) = o[Some(s)] + G(r)[r]
      BY <2>1
    <3> HIDE DEF G, V, whole
    <3> QED BY <3>2, <3>3
  <2>2. ASSUME NEW s \in SUBSET m
        PROVE  V(s) = IF s = {} THEN 0 ELSE o[Some(s)] + whole[s \ {Some(s)}]
    <3> HIDE DEF whole
    <3> QED BY <2>1
  <2>3. whole = [s \in SUBSET m |-> V(s)]
    OBVIOUS
  <2> HIDE DEF V, whole
  <2> QED BY <2>2, <2>3
<1>7. IsIter(whole, o, m)
  BY <1>6 DEF IsIter
<1>8. \E g : IsIter(g, o, m)
  <2> HIDE DEF whole
  <2> QED BY <1>7
<1> QED BY <1>2, <1>8

LEMMA SumIs ==
    ASSUME NEW o, NEW S, IsFiniteSet(S), NEW g, IsIter(g, o, S), NEW T, T \subseteq S
    PROVE  Sum(o, T) = g[T]
<1> DEFINE k == CHOOSE i : IsIter(i, o, T)
<1>1. IsFiniteSet(T)
  BY FS_Subset
<1>2. IsIter(k, o, T)
  BY <1>1, IterExists
<1>3. Sum(o, T) = k[T]
  BY DEF Sum, MapThenSumSet, MapThenFoldSet, IsIter, Some
<1>4. k[T] = g[T]
  <2> HIDE DEF k
  <2> QED BY <1>1, <1>2, IterAgrees
<1> QED BY <1>3, <1>4

LEMMA SumEmpty == ASSUME NEW o PROVE Sum(o, {}) = 0
<1>1. PICK g : IsIter(g, o, {})
  BY IterExists, FS_EmptySet
<1>2. Sum(o, {}) = g[{}]
  BY <1>1, SumIs, FS_EmptySet
<1>3. g[{}] = 0
  BY <1>1, IterAt
<1> QED BY <1>2, <1>3

LEMMA SumStep ==
    ASSUME NEW o, NEW S, IsFiniteSet(S), S # {}
    PROVE  Sum(o, S) = o[Some(S)] + Sum(o, S \ {Some(S)})
<1>1. PICK g : IsIter(g, o, S)
  BY IterExists
<1>2. Sum(o, S) = g[S]
  BY <1>1, SumIs
<1>3. Sum(o, S \ {Some(S)}) = g[S \ {Some(S)}]
  BY <1>1, SumIs
<1>4. g[S] = o[Some(S)] + g[S \ {Some(S)}]
  BY <1>1, IterAt
<1> QED BY <1>2, <1>3, <1>4

\* The sum of integers is one, and of natural numbers also.
LEMMA SumType ==
    ASSUME NEW o, NEW S, IsFiniteSet(S), NEW T, T \in {Nat, Int}, \A x \in S : o[x] \in T
    PROVE  Sum(o, S) \in T
<1> DEFINE F == {s \in SUBSET S : Sum(o, s) \notin T}
<1>1. SUFFICES ASSUME F # {} PROVE FALSE
  OBVIOUS
<1>2. PICK m \in F : \A t \in F : t \subseteq m => t = m
  <2>1. F \subseteq SUBSET S
    OBVIOUS
  <2> HIDE DEF F
  <2> QED BY <1>1, <2>1, SmallestSet
<1>3. m \subseteq S /\ IsFiniteSet(m) /\ Sum(o, m) \notin T
  BY <1>2, FS_Subset
<1>4. m # {}
  BY <1>3, SumEmpty
<1>5. Sum(o, m \ {Some(m)}) \in T
  BY <1>2, <1>3, <1>4, SomeIs
<1>6. Sum(o, m) = o[Some(m)] + Sum(o, m \ {Some(m)}) /\ o[Some(m)] \in T
  BY <1>3, <1>4, SumStep, SomeIs
<1> QED BY <1>3, <1>5, <1>6

\* Any element can be taken out of a sum.
LEMMA SumWithout ==
    ASSUME NEW o, NEW S, IsFiniteSet(S), \A x \in S : o[x] \in Int, NEW e \in S
    PROVE  Sum(o, S) = o[e] + Sum(o, S \ {e})
<1> DEFINE F == {s \in SUBSET S : \E c \in s : Sum(o, s) # o[c] + Sum(o, s \ {c})}
<1>1. SUFFICES ASSUME F # {} PROVE FALSE
  <2>1. F # {} \/ S \notin F
    OBVIOUS
  <2> QED BY <2>1
<1>2. PICK m \in F : \A t \in F : t \subseteq m => t = m
  <2>1. F \subseteq SUBSET S
    OBVIOUS
  <2> HIDE DEF F
  <2> QED BY <1>1, <2>1, SmallestSet
<1>3. m \subseteq S /\ IsFiniteSet(m)
  BY <1>2, FS_Subset
<1>4. PICK c \in m : Sum(o, m) # o[c] + Sum(o, m \ {c})
  BY <1>2
<1> DEFINE d == Some(m)
           both == (m \ {c}) \ {d}
<1>5. d \in m /\ Sum(o, m) = o[d] + Sum(o, m \ {d})
  BY <1>3, <1>4, SumStep, SomeIs
<1>6. c # d
  BY <1>4, <1>5
<1> HIDE DEF d
<1>7. ASSUME NEW t \in SUBSET m, t # m, NEW x \in t PROVE Sum(o, t) = o[x] + Sum(o, t \ {x})
  <2>1. t \notin F
    BY <1>2, <1>7
  <2> QED BY <2>1, <1>3, <1>7
<1>8. Sum(o, m \ {d}) = o[c] + Sum(o, both)
  <2>1. m \ {d} \in SUBSET m /\ m \ {d} # m /\ c \in m \ {d} /\ (m \ {d}) \ {c} = both
    BY <1>5, <1>6
  <2> QED BY <2>1, <1>7
<1>9. Sum(o, m \ {c}) = o[d] + Sum(o, both)
  <2>1. m \ {c} \in SUBSET m /\ m \ {c} # m /\ d \in m \ {c}
    BY <1>5, <1>6
  <2> QED BY <2>1, <1>7
<1>10. Sum(o, both) \in Int /\ o[c] \in Int /\ o[d] \in Int
  <2>1. IsFiniteSet(both) /\ \A x \in both : o[x] \in Int
    BY <1>3, FS_Subset
  <2> QED BY <2>1, <1>3, <1>5, SumType
<1> HIDE DEF both
<1> QED BY <1>4, <1>5, <1>8, <1>9, <1>10

\* One element more.
LEMMA SumWith ==
    ASSUME NEW o, NEW S, IsFiniteSet(S), NEW e, e \notin S, \A x \in S \cup {e} : o[x] \in Int
    PROVE  Sum(o, S \cup {e}) = Sum(o, S) + o[e]
<1> DEFINE T == S \cup {e}
<1>1. IsFiniteSet(T) /\ e \in T /\ T \ {e} = S /\ \A x \in T : o[x] \in Int
  BY FS_AddElement
<1>2. Sum(o, T) = o[e] + Sum(o, S)
  <2> HIDE DEF T
  <2> QED BY <1>1, SumWithout
<1>3. Sum(o, S) \in Int /\ o[e] \in Int
  BY SumType
<1> QED BY <1>2, <1>3

\* The sum depends on the function only through its values in the set.
LEMMA SumSame ==
    ASSUME NEW o, NEW u, NEW S, IsFiniteSet(S), \A x \in S : o[x] = u[x]
    PROVE  Sum(o, S) = Sum(u, S)
<1> DEFINE F == {s \in SUBSET S : Sum(o, s) # Sum(u, s)}
<1>1. SUFFICES ASSUME F # {} PROVE FALSE
  <2>1. F # {} \/ S \notin F
    OBVIOUS
  <2> QED BY <2>1
<1>2. PICK m \in F : \A t \in F : t \subseteq m => t = m
  <2>1. F \subseteq SUBSET S
    OBVIOUS
  <2> HIDE DEF F
  <2> QED BY <1>1, <2>1, SmallestSet
<1>3. m \subseteq S /\ IsFiniteSet(m) /\ Sum(o, m) # Sum(u, m)
  BY <1>2, FS_Subset
<1>4. m # {}
  BY <1>3, SumEmpty
<1>5. Sum(o, m \ {Some(m)}) = Sum(u, m \ {Some(m)})
  BY <1>2, <1>3, <1>4, SomeIs
<1>6. o[Some(m)] = u[Some(m)]
  BY <1>3, <1>4, SomeIs
<1>7. Sum(o, m) = o[Some(m)] + Sum(o, m \ {Some(m)})
  BY <1>3, <1>4, SumStep
<1>8. Sum(u, m) = u[Some(m)] + Sum(u, m \ {Some(m)})
  BY <1>3, <1>4, SumStep
<1> QED BY <1>3, <1>5, <1>6, <1>7, <1>8
=============================================================================
