------------------------------ MODULE Contagem ------------------------------
(***************************************************************************)
(* What several proofs need of numbers: how many threads are at given      *)
(* places of their code and how that changes when one of them moves, which *)
(* the proofs about the semaphores count, and the least of a set.          *)
(***************************************************************************)
EXTENDS Integers, FiniteSets, FiniteSetTheorems, WellFoundedInduction, TLAPS

\* The threads of G that f puts at one of the places L.
Quantos(f, G, L) == Cardinality({x \in G : f[x] \in L})

\* Among the threads of G, t moves to para and the others stay.
Movido(f, g, G, t, para) == \A x \in G : g[x] = IF x = t THEN para ELSE f[x]

\* A count before and after one thread leaves or enters.
Muda(antes, depois, sai, entra) ==
    depois = IF sai /\ ~entra THEN antes - 1
             ELSE IF entra /\ ~sai THEN antes + 1
             ELSE antes

\* Every count is a natural number no larger than the group, zero when nobody
\* is there.
LEMMA QuantosNatural ==
    ASSUME NEW G, IsFiniteSet(G), NEW f, NEW L
    PROVE  /\ Quantos(f, G, L) \in Nat /\ Cardinality(G) \in Nat
           /\ Quantos(f, G, L) <= Cardinality(G)
           /\ Quantos(f, G, L) = 0 <=> \A x \in G : f[x] \notin L
<1> DEFINE S == {x \in G : f[x] \in L}
<1>1. S \in SUBSET G /\ (S = {} <=> \A x \in G : f[x] \notin L)
  OBVIOUS
<1>2. Quantos(f, G, L) = Cardinality(S)
  BY DEF Quantos
<1> HIDE DEF S
<1>3. IsFiniteSet(S) /\ Cardinality(S) <= Cardinality(G)
  BY <1>1, FS_Subset
<1>4. Cardinality(S) \in Nat /\ Cardinality(G) \in Nat /\ (Cardinality(S) = 0 <=> S = {})
  BY <1>3, FS_CardinalityType, FS_EmptySet
<1> QED BY <1>1, <1>2, <1>3, <1>4

\* What the move of one thread does to a count.
LEMMA QuantosMuda ==
    ASSUME NEW G, IsFiniteSet(G), NEW f, NEW g, NEW t, NEW para, NEW L,
           Movido(f, g, G, t, para)
    PROVE  Muda(Quantos(f, G, L), Quantos(g, G, L), t \in G /\ f[t] \in L, t \in G /\ para \in L)
<1> DEFINE S == {x \in G : f[x] \in L}
           R == {x \in G : g[x] \in L}
<1>1. Quantos(f, G, L) = Cardinality(S) /\ Quantos(g, G, L) = Cardinality(R)
  BY DEF Quantos
<1>2. IsFiniteSet(S)
  BY FS_Subset
<1>0. \A x \in G : g[x] = IF x = t THEN para ELSE f[x]
  BY DEF Movido
<1>3. CASE t \in G /\ f[t] \in L /\ para \notin L
  <2>1. R = S \ {t} /\ t \in S
    BY <1>0, <1>3
  <2> HIDE DEF S, R
  <2>2. Cardinality(R) = Cardinality(S) - 1
    BY <1>2, <2>1, FS_RemoveElement
  <2> QED BY <1>1, <1>3, <2>2 DEF Muda
<1>4. CASE t \in G /\ f[t] \notin L /\ para \in L
  <2>1. R = S \cup {t} /\ t \notin S
    BY <1>0, <1>4
  <2> HIDE DEF S, R
  <2>2. Cardinality(R) = Cardinality(S) + 1
    BY <1>2, <2>1, FS_AddElement
  <2> QED BY <1>1, <1>4, <2>2 DEF Muda
<1>5. CASE ~(t \in G /\ f[t] \in L /\ para \notin L) /\ ~(t \in G /\ f[t] \notin L /\ para \in L)
  <2>1. R = S
    BY <1>0, <1>5
  <2> HIDE DEF S, R
  <2> QED BY <1>1, <1>5, <2>1 DEF Muda
<1> QED BY <1>3, <1>4, <1>5

\* A set of naturals that is not empty has a least element.
LEMMA Minimo ==
    ASSUME NEW S \in SUBSET Nat, S # {}
    PROVE  \E m \in S : \A k \in S : m <= k
<1> DEFINE R == {ss \in Nat \X Nat : ss[1] < ss[2]}
<1>1. IsWellFoundedOn(R, Nat)
  BY NatLessThanWellFounded DEF OpToRel
<1>2. PICK m \in S : \A k \in S : ~ (<<k, m>> \in R)
  <2> HIDE DEF R
  <2> QED BY <1>1, WFMin
<1>3. ASSUME NEW k \in S PROVE m <= k
  <2>1. ~ (<<k, m>> \in R) /\ k \in Nat /\ m \in Nat
    BY <1>2
  <2> QED BY <2>1
<1> QED BY <1>3

=============================================================================
