----------------------------- MODULE FilaProof -----------------------------
(***************************************************************************)
(* The queue library keeps its rings well formed and implements the        *)
(* sequences of FilaAbs, for any elements and queues.  With the same rings *)
(* the module ends with the append of FilaPreempta, that a preemption may  *)
(* cut between two stores.                                                 *)
(***************************************************************************)
EXTENDS Fila, FilaPreempta, Contagem, SequenceTheorems

-----------------------------------------------------------------------------
\* Rings and the sequences they stand for.

\* The position after i in a ring of n elements.
Segue(i, n) == IF i = n THEN 1 ELSE i + 1

LEMMA SegueNoAnel ==
    ASSUME NEW n \in Nat, NEW i \in 1..n
    PROVE  Segue(i, n) \in 1..n
BY DEF Segue

LEMMA AnteriorNoAnel ==
    ASSUME NEW n \in Nat, NEW k \in 1..n
    PROVE  \E q \in 1..n : Segue(q, n) = k
<1>1. CASE k = 1
  <2>1. n \in 1..n /\ Segue(n, n) = k
    BY <1>1 DEF Segue
  <2> QED BY <2>1
<1>2. CASE k # 1
  <2>1. k - 1 \in 1..n /\ Segue(k - 1, n) = k
    BY <1>2 DEF Segue
  <2> QED BY <2>1
<1> QED BY <1>1, <1>2

SemRepeticao(s) == \A i, j \in 1..Len(s) : s[i] = s[j] => i = j

\* The ring of s: inicio points to its first element, nx and pv go round it.
Anel(s, inicio, nx, pv) ==
    /\ s \in Seq(Elems) /\ SemRepeticao(s)
    /\ inicio = IF s = <<>> THEN NULL ELSE s[1]
    /\ \A i \in 1..Len(s) : nx[s[i]] = s[Segue(i, Len(s))] /\ pv[s[Segue(i, Len(s))]] = s[i]

Dentro(c, e) == \E f \in Filas : \E i \in 1..Len(c[f]) : c[f][i] = e

\* The queues hold the sequences of c, and nothing else is linked.
Formacao(c, cab, nx, pv) ==
    /\ c \in [Filas -> Seq(Elems)]
    /\ \A f \in Filas : Anel(c[f], cab[f], nx, pv)
    /\ \A f, g \in Filas : f # g =>
          \A i \in 1..Len(c[f]), j \in 1..Len(c[g]) : c[f][i] # c[g][j]
    /\ \A e \in Elems : ~Dentro(c, e) => nx[e] = NULL /\ pv[e] = NULL

\* A sequence without repetition is no longer than the elements are many.
LEMMA SemRepeticaoCurta ==
    ASSUME NEW s \in Seq(Elems), SemRepeticao(s)
    PROVE  N \in Nat /\ Len(s) \in Nat /\ Len(s) <= N
<1>0. IsFiniteSet(Elems) /\ Len(s) \in Nat
  BY NomesAssumption
<1>1. IsFiniteSet(Elems) /\ N \in Nat
  BY <1>0, FS_CardinalityType DEF N
<1>2. s \in Injection(1..Len(s), Elems)
  <2>1. s \in [1..Len(s) -> Elems]
    BY LenProperties
  <2> QED BY <2>1 DEF Injection, IsInjective, SemRepeticao
<1>3. Cardinality(1..Len(s)) <= Cardinality(Elems)
  BY <1>1, <1>2, FS_Injection
<1>4. Cardinality(1..Len(s)) = Len(s)
  <2>1. Cardinality(1..Len(s)) = IF 1 > Len(s) THEN 0 ELSE Len(s) - 1 + 1
    <3>1. 1 \in Int /\ Len(s) \in Int
      BY <1>0
    <3> QED BY <3>1, FS_Interval, Zenon
  <2> QED BY <1>0, <2>1
<1> QED BY <1>0, <1>1, <1>3, <1>4 DEF N

\* The walk that a ring begins and NULL fills.
Esperado(s) == [i \in 1..N |-> IF i <= Len(s) THEN s[i] ELSE NULL]

UmPasso(p, inicio, nx) ==
    [i \in 1..N |-> IF i = 1 THEN inicio
                    ELSE IF p[i - 1] = NULL \/ nx[p[i - 1]] = inicio THEN NULL
                    ELSE nx[p[i - 1]]]

LEMMA EsperadoAnda ==
    ASSUME NEW s, NEW inicio, NEW nx, NEW pv, Anel(s, inicio, nx, pv)
    PROVE  Esperado(s) = UmPasso(Esperado(s), inicio, nx)
<1> DEFINE p == Esperado(s)
<1>0. s \in Seq(Elems) /\ Len(s) \in Nat /\ N \in Nat /\ Len(s) <= N /\ NULL \notin Elems
  BY SemRepeticaoCurta, NomesAssumption DEF Anel
<1>1. \A i \in 1..Len(s) : s[i] \in Elems
  BY <1>0
<1>2. ASSUME NEW i \in 1..N
      PROVE  p[i] = IF i = 1 THEN inicio
                    ELSE IF p[i - 1] = NULL \/ nx[p[i - 1]] = inicio THEN NULL
                    ELSE nx[p[i - 1]]
  <2>1. CASE i = 1 /\ s = <<>>
    BY <1>0, <2>1 DEF Anel, Esperado
  <2>2. CASE i = 1 /\ s # <<>>
    BY <1>0, <2>2 DEF Anel, Esperado
  <2>3. CASE i # 1 /\ i - 1 > Len(s)
    BY <1>0, <2>3 DEF Esperado
  <2>4. CASE i # 1 /\ i - 1 = Len(s)
    <3>1. s # <<>> /\ Len(s) \in 1..Len(s)
      BY <1>0, <2>4
    <3>2. p[i - 1] = s[Len(s)] /\ nx[s[Len(s)]] = s[1] /\ inicio = s[1] /\ p[i] = NULL
      BY <1>0, <2>4, <3>1 DEF Esperado, Anel, Segue
    <3> QED BY <3>2, <2>4
  <2>5. CASE i # 1 /\ i - 1 < Len(s)
    <3>1. s # <<>> /\ i - 1 \in 1..Len(s) /\ i \in 1..Len(s) /\ 1 \in 1..Len(s)
      BY <1>0, <2>5
    <3>2. p[i - 1] = s[i - 1] /\ nx[s[i - 1]] = s[i] /\ inicio = s[1] /\ p[i] = s[i]
      BY <1>0, <2>5, <3>1 DEF Esperado, Anel, Segue
    <3>3. s[i] # s[1] /\ s[i - 1] # NULL
      BY <1>0, <1>1, <2>5, <3>1 DEF Anel, SemRepeticao
    <3> QED BY <3>2, <3>3, <2>5
  <2> QED BY <2>1, <2>2, <2>3, <2>4, <2>5, <1>0
<1> QED BY <1>2 DEF UmPasso, Esperado

\* There is one walk only.
LEMMA UmPasseio ==
    ASSUME NEW p, NEW q, NEW inicio, NEW nx, N \in Nat,
           p = UmPasso(p, inicio, nx), q = UmPasso(q, inicio, nx)
    PROVE  p = q
<1> DEFINE D == {i \in 1..N : p[i] # q[i]}
<1>1. ASSUME D # {} PROVE FALSE
  <2>0. D \in SUBSET Nat
    OBVIOUS
  <2>1. PICK m \in D : \A k \in D : m <= k
    <3> HIDE DEF D
    <3> QED BY <1>1, <2>0, Minimo
  <2>2. m \in 1..N /\ (m = 1 \/ (m - 1 \in 1..N /\ p[m - 1] = q[m - 1]))
    BY <2>1
  <2>3. p[m] = UmPasso(p, inicio, nx)[m] /\ q[m] = UmPasso(q, inicio, nx)[m]
    OBVIOUS
  <2>4. p[m] = q[m]
    BY <2>2, <2>3 DEF UmPasso
  <2> QED BY <2>1, <2>4
<1>2. p = [i \in 1..N |-> p[i]] /\ q = [i \in 1..N |-> q[i]]
  BY DEF UmPasso
<1> QED BY <1>1, <1>2

LEMMA PasseioDoAnel ==
    ASSUME NEW s, NEW inicio, NEW nx, NEW pv, Anel(s, inicio, nx, pv)
    PROVE  Passeio(inicio, nx) = Esperado(s)
<1>1. Passeio(inicio, nx) = CHOOSE p : p = UmPasso(p, inicio, nx)
  BY DEF Passeio, UmPasso
<1>2. Esperado(s) = UmPasso(Esperado(s), inicio, nx)
  BY EsperadoAnda
<1>3. Passeio(inicio, nx) = UmPasso(Passeio(inicio, nx), inicio, nx)
  BY <1>1, <1>2
<1>4. N \in Nat
  BY SemRepeticaoCurta DEF Anel
<1> QED BY <1>2, <1>3, <1>4, UmPasseio

\* A ring determines its sequence.
LEMMA PercursoDoAnel ==
    ASSUME NEW s, NEW inicio, NEW nx, NEW pv, Anel(s, inicio, nx, pv)
    PROVE  Percurso(inicio, nx) = s
<1> DEFINE p == Esperado(s)
<1>0. s \in Seq(Elems) /\ Len(s) \in Nat /\ N \in Nat /\ Len(s) <= N /\ NULL \notin Elems
  BY SemRepeticaoCurta, NomesAssumption DEF Anel
<1>1. \A i \in 1..N : p[i] # NULL <=> i <= Len(s)
  BY <1>0 DEF Esperado
<1>2. \A n \in 0..N : (\A i \in 1..N : p[i] # NULL <=> i <= n) => n = Len(s)
  <2> SUFFICES ASSUME NEW n \in 0..N, \A i \in 1..N : p[i] # NULL <=> i <= n, n # Len(s)
               PROVE  FALSE
    OBVIOUS
  <2>1. CASE n < Len(s)
    BY <1>0, <1>1, <2>1
  <2>2. CASE n > Len(s)
    BY <1>0, <1>1, <2>2
  <2> QED BY <1>0, <2>1, <2>2
<1>3. Comprimento(p) = Len(s)
  BY <1>0, <1>1, <1>2 DEF Comprimento
<1>4. Percurso(inicio, nx) = SubSeq(p, 1, Len(s))
  BY <1>3, PasseioDoAnel DEF Percurso
<1>5. \A i \in 1..Len(s) : p[i] = s[i] /\ s[i] \in Elems
  BY <1>0 DEF Esperado
<1> HIDE DEF p
<1>6. SubSeq(p, 1, Len(s)) \in Seq(Elems) /\ Len(SubSeq(p, 1, Len(s))) = Len(s)
      /\ \A i \in 1..Len(s) : SubSeq(p, 1, Len(s))[i] = p[i]
  <2>1. \A i \in 1..Len(s) : p[i] \in Elems
    BY <1>5
  <2> QED BY <1>0, <2>1, SubSeqProperties
<1> QED BY <1>0, <1>4, <1>5, <1>6, SeqEqual

-----------------------------------------------------------------------------
\* How the operations change the rings.

\* A ring none of whose links changes.
LEMMA AnelIntacto ==
    ASSUME NEW s, NEW inicio, NEW nx, NEW pv, Anel(s, inicio, nx, pv), NEW nx2, NEW pv2,
           \A i \in 1..Len(s) : nx2[s[i]] = nx[s[i]] /\ pv2[s[i]] = pv[s[i]]
    PROVE  Anel(s, inicio, nx2, pv2)
<1>1. \A i \in 1..Len(s) : Segue(i, Len(s)) \in 1..Len(s)
  BY DEF Anel, Segue
<1> QED BY <1>1 DEF Anel

\* From nx and pv to nx2 and pv2, only elements of the ring of f and of s are
\* linked anew, s takes nothing from the other rings, and what it leaves out of
\* the ring of f is unlinked.
Troca(c, f, s, nx, pv, nx2, pv2) ==
    /\ \A e \in Elems : (\A i \in 1..Len(c[f]) : c[f][i] # e) /\ (\A i \in 1..Len(s) : s[i] # e)
                       => nx2[e] = nx[e] /\ pv2[e] = pv[e]
    /\ \A g \in Filas : g # f => \A i \in 1..Len(s), j \in 1..Len(c[g]) : s[i] # c[g][j]
    /\ \A e \in Elems : (\E i \in 1..Len(c[f]) : c[f][i] = e) /\ (\A i \in 1..Len(s) : s[i] # e)
                       => nx2[e] = NULL /\ pv2[e] = NULL

\* The ring of f becomes the ring of s, and the other rings are not touched.
LEMMA TrocaAnel ==
    ASSUME NEW c, NEW cab, NEW nx, NEW pv, Formacao(c, cab, nx, pv),
           cab \in [Filas -> Elems \cup {NULL}],
           NEW f \in Filas, NEW s, NEW inicio, NEW nx2, NEW pv2, Anel(s, inicio, nx2, pv2),
           Troca(c, f, s, nx, pv, nx2, pv2)
    PROVE  Formacao([c EXCEPT ![f] = s], [cab EXCEPT ![f] = inicio], nx2, pv2)
<1> DEFINE d == [c EXCEPT ![f] = s]
           h == [cab EXCEPT ![f] = inicio]
<1>1. c \in [Filas -> Seq(Elems)] /\ s \in Seq(Elems)
  BY DEF Formacao, Anel
<1>2. d \in [Filas -> Seq(Elems)] /\ d[f] = s /\ h[f] = inicio
      /\ \A g \in Filas : g # f => d[g] = c[g] /\ h[g] = cab[g]
  BY <1>1
<1> HIDE DEF d, h
<1>3. ASSUME NEW g \in Filas PROVE Anel(d[g], h[g], nx2, pv2)
  <2>1. CASE g = f
    BY <1>2, <2>1
  <2>2. CASE g # f
    <3>1. Anel(c[g], cab[g], nx, pv) /\ d[g] = c[g] /\ h[g] = cab[g]
      BY <1>2, <2>2 DEF Formacao
    <3>2. ASSUME NEW i \in 1..Len(c[g])
          PROVE  nx2[c[g][i]] = nx[c[g][i]] /\ pv2[c[g][i]] = pv[c[g][i]]
      <4>1. c[g][i] \in Elems
        BY <1>1, ElementOfSeq
      <4>2. \A k \in 1..Len(c[f]) : c[f][k] # c[g][i]
        BY <2>2 DEF Formacao
      <4>3. \A k \in 1..Len(s) : s[k] # c[g][i]
        BY <2>2 DEF Troca
      <4> QED BY <4>1, <4>2, <4>3 DEF Troca
    <3> QED BY <3>1, <3>2, AnelIntacto
  <2> QED BY <2>1, <2>2
<1>4. ASSUME NEW g1 \in Filas, NEW g2 \in Filas, g1 # g2,
             NEW i \in 1..Len(d[g1]), NEW j \in 1..Len(d[g2])
      PROVE  d[g1][i] # d[g2][j]
  <2>1. CASE g1 = f
    BY <1>2, <1>4, <2>1 DEF Troca
  <2>2. CASE g2 = f
    BY <1>2, <1>4, <2>2 DEF Troca
  <2>3. CASE g1 # f /\ g2 # f
    <3>1. d[g1] = c[g1] /\ d[g2] = c[g2]
      BY <1>2, <2>3
    <3> QED BY <1>4, <3>1 DEF Formacao
  <2> QED BY <2>1, <2>2, <2>3
<1>5. ASSUME NEW e \in Elems, ~Dentro(d, e) PROVE nx2[e] = NULL /\ pv2[e] = NULL
  <2>1. \A i \in 1..Len(s) : s[i] # e
    BY <1>2, <1>5 DEF Dentro
  <2>2. CASE \E i \in 1..Len(c[f]) : c[f][i] = e
    BY <2>1, <2>2 DEF Troca
  <2>3. CASE \A i \in 1..Len(c[f]) : c[f][i] # e
    <3>1. ~Dentro(c, e)
      BY <1>2, <1>5, <2>3 DEF Dentro
    <3> QED BY <2>1, <2>3, <3>1 DEF Formacao, Troca
  <2> QED BY <2>2, <2>3
<1>6. Formacao(d, h, nx2, pv2)
  BY <1>2, <1>3, <1>4, <1>5 DEF Formacao
<1> QED BY <1>6 DEF d, h

\* An element with an empty link is in no ring.
LEMMA SoltoFora ==
    ASSUME NEW c, NEW cab, NEW nx, NEW pv, Formacao(c, cab, nx, pv), NEW e, nx[e] = NULL
    PROVE  ~Dentro(c, e)
<1> SUFFICES ASSUME NEW f \in Filas, NEW i \in 1..Len(c[f]), c[f][i] = e PROVE FALSE
  BY DEF Dentro
<1>1. c[f] \in Seq(Elems) /\ NULL \notin Elems
  BY NomesAssumption DEF Formacao
<1>2. Segue(i, Len(c[f])) \in 1..Len(c[f])
  BY <1>1 DEF Segue
<1>3. nx[c[f][i]] \in Elems
  <2>1. nx[c[f][i]] = c[f][Segue(i, Len(c[f]))]
    BY DEF Formacao, Anel
  <2> QED BY <1>1, <1>2, <2>1, ElementOfSeq
<1> QED BY <1>1, <1>3

\* The first element of an empty queue.
LEMMA AnelUnitario ==
    ASSUME NEW e \in Elems, NEW nx, NEW pv, nx[e] = e, pv[e] = e
    PROVE  Anel(<<e>>, e, nx, pv)
<1>1. <<e>> \in Seq(Elems) /\ Len(<<e>>) = 1 /\ <<e>>[1] = e /\ <<e>> # <<>>
  OBVIOUS
<1> QED BY <1>1 DEF Anel, SemRepeticao, Segue

\* An element goes between the last one and the first.
LEMMA AnelMaisUm ==
    ASSUME NEW s, NEW inicio, NEW nx, NEW pv, Anel(s, inicio, nx, pv), s # <<>>,
           nx \in [Elems -> Elems \cup {NULL}], pv \in [Elems -> Elems \cup {NULL}],
           NEW e \in Elems, \A i \in 1..Len(s) : s[i] # e
    PROVE  Anel(Append(s, e), inicio,
                [nx EXCEPT ![pv[inicio]] = e, ![e] = inicio],
                [pv EXCEPT ![inicio] = e, ![e] = pv[inicio]])
<1> DEFINE n == Len(s)
           r == Append(s, e)
           nx2 == [nx EXCEPT ![pv[inicio]] = e, ![e] = inicio]
           pv2 == [pv EXCEPT ![inicio] = e, ![e] = pv[inicio]]
<1>1. s \in Seq(Elems) /\ n \in Nat /\ n >= 1
  BY EmptySeq, LenProperties DEF Anel
<1>2. r \in Seq(Elems) /\ Len(r) = n + 1 /\ r # <<>> /\ r[n + 1] = e
      /\ \A i \in 1..n : r[i] = s[i]
  BY <1>1, AppendProperties
<1>3. inicio = s[1] /\ pv[s[1]] = s[n] /\ s[1] \in Elems /\ s[n] \in Elems
  <2>1. n \in 1..n /\ 1 \in 1..n
    BY <1>1
  <2>2. pv[s[Segue(n, n)]] = s[n] /\ Segue(n, n) = 1
    BY <2>1 DEF Anel, Segue
  <2> QED BY <1>1, <2>1, <2>2, ElementOfSeq DEF Anel
<1>4. \A x \in Elems : nx2[x] = IF x = e THEN inicio ELSE IF x = s[n] THEN e ELSE nx[x]
  BY <1>3
<1>5. \A x \in Elems : pv2[x] = IF x = e THEN s[n] ELSE IF x = s[1] THEN e ELSE pv[x]
  BY <1>3
<1> HIDE DEF n, r, nx2, pv2
<1>6. \A i \in 1..n : s[i] \in Elems /\ s[i] # e
  BY <1>1, ElementOfSeq DEF n
<1>7. \A i, j \in 1..n : s[i] = s[j] => i = j
  BY DEF Anel, SemRepeticao, n
<1>8. \A i \in 1..n : i < n => nx[s[i]] = s[i + 1] /\ pv[s[i + 1]] = s[i]
  BY <1>1 DEF Anel, Segue, n
<1>9. ASSUME NEW i \in 1..(n + 1)
      PROVE  nx2[r[i]] = r[Segue(i, n + 1)] /\ pv2[r[Segue(i, n + 1)]] = r[i]
  <2>1. CASE i = n + 1
    <3>1. Segue(i, n + 1) = 1 /\ r[i] = e /\ r[1] = s[1] /\ s[1] # e
      BY <1>1, <1>2, <1>6, <2>1 DEF Segue
    <3> QED BY <1>1, <1>3, <1>4, <1>5, <3>1
  <2>2. CASE i = n
    <3>1. Segue(i, n + 1) = n + 1 /\ r[i] = s[n] /\ r[n + 1] = e /\ s[n] # e
      BY <1>1, <1>2, <1>6, <2>2 DEF Segue
    <3> QED BY <1>3, <1>4, <1>5, <3>1
  <2>3. CASE i < n
    <3>1. Segue(i, n + 1) = i + 1 /\ r[i] = s[i] /\ r[i + 1] = s[i + 1]
      BY <1>1, <1>2, <2>3 DEF Segue
    <3>2. s[i] # e /\ s[i] # s[n] /\ s[i + 1] # e /\ s[i + 1] # s[1]
      BY <1>1, <1>6, <1>7, <2>3
    <3>3. i \in 1..n /\ i + 1 \in 1..n
      BY <1>1, <2>3
    <3> QED BY <1>4, <1>5, <1>6, <1>8, <2>3, <3>1, <3>2, <3>3
  <2> QED BY <1>1, <2>1, <2>2, <2>3
<1>10. SemRepeticao(r)
  BY <1>1, <1>2, <1>6, <1>7 DEF SemRepeticao
<1>11. r[1] = s[1]
  BY <1>1, <1>2
<1>12. Anel(r, inicio, nx2, pv2)
  BY <1>2, <1>3, <1>9, <1>10, <1>11 DEF Anel
<1> QED BY <1>12 DEF r, nx2, pv2

LEMMA RemoveAtElementos ==
    ASSUME NEW S, NEW s \in Seq(S), NEW k \in 1..Len(s)
    PROVE  /\ RemoveAt(s, k) \in Seq(S) /\ Len(RemoveAt(s, k)) = Len(s) - 1
           /\ \A i \in 1..(Len(s) - 1) : RemoveAt(s, k)[i] = IF i < k THEN s[i] ELSE s[i + 1]
<1>0. PICK m \in Int : m = k + 1
  OBVIOUS
<1> DEFINE a == SubSeq(s, 1, k - 1)
           b == SubSeq(s, m, Len(s))
<1>1. Len(s) \in Nat /\ \A i \in 1..Len(s) : s[i] \in S
  OBVIOUS
<1>2. a \in Seq(S) /\ Len(a) = k - 1 /\ \A i \in 1..(k - 1) : a[i] = s[i]
  <2>1. \A i \in 1..(k - 1) : s[i] \in S
    BY <1>1
  <2> QED BY <1>1, <2>1, SubSeqProperties
<1>3. b \in Seq(S) /\ Len(b) = Len(s) - k /\ \A i \in 1..(Len(s) - k) : b[i] = s[k + i]
  <2>1. \A i \in m..Len(s) : s[i] \in S
    BY <1>0, <1>1
  <2>2. /\ b \in Seq(S) /\ Len(b) = IF m <= Len(s) THEN Len(s) - m + 1 ELSE 0
        /\ \A i \in 1..(Len(s) - m + 1) : b[i] = s[m + i - 1]
    BY <1>0, <1>1, <2>1, SubSeqProperties
  <2>3. Len(b) = Len(s) - k
    BY <1>0, <1>1, <2>2
  <2>4. ASSUME NEW i \in 1..(Len(s) - k) PROVE b[i] = s[k + i]
    <3>1. i \in 1..(Len(s) - m + 1) /\ m + i - 1 = k + i
      BY <1>0, <1>1
    <3> QED BY <2>2, <3>1
  <2> QED BY <2>2, <2>3, <2>4
<1> HIDE DEF a, b
<1>4. a \o b \in Seq(S) /\ Len(a \o b) = Len(a) + Len(b)
      /\ \A i \in 1..(Len(a) + Len(b)) : (a \o b)[i] = IF i <= Len(a) THEN a[i] ELSE b[i - Len(a)]
  BY <1>2, <1>3, ConcatProperties
<1>5. ASSUME NEW i \in 1..(Len(s) - 1) PROVE (a \o b)[i] = IF i < k THEN s[i] ELSE s[i + 1]
  <2>1. (a \o b)[i] = IF i <= k - 1 THEN a[i] ELSE b[i - (k - 1)]
    BY <1>1, <1>2, <1>3, <1>4
  <2>2. CASE i < k
    BY <1>1, <1>2, <2>1, <2>2
  <2>3. CASE i >= k
    <3>1. PICK h \in 1..(Len(s) - k) : h = i - (k - 1) /\ k + h = i + 1
      BY <1>1, <2>3
    <3>2. ~(i <= k - 1) /\ ~(i < k)
      BY <1>1, <2>3
    <3>3. b[h] = s[k + h]
      BY <1>3
    <3>4. (a \o b)[i] = b[h]
      BY <2>1, <3>1, <3>2
    <3>5. b[h] = s[i + 1]
      BY <3>1, <3>3
    <3> QED BY <3>2, <3>4, <3>5, Zenon
  <2>4. i < k \/ i >= k
    BY <1>1
  <2> QED BY <2>2, <2>3, <2>4
<1>6. RemoveAt(s, k) = a \o b
  BY <1>0 DEF RemoveAt, a, b
<1>7. Len(a \o b) = Len(s) - 1
  BY <1>1, <1>2, <1>3, <1>4
<1> QED BY <1>4, <1>5, <1>6, <1>7

\* Where the neighbours of the positions of a ring are when position k goes.
LEMMA VizinhosSemK ==
    ASSUME NEW n \in Nat, NEW k \in 1..(n + 1), NEW i \in 1..n, NEW q, NEW i2, NEW j2,
           q = IF k = 1 THEN n + 1 ELSE k - 1,
           i2 = IF i < k THEN i ELSE i + 1,
           j2 = IF Segue(i, n) < k THEN Segue(i, n) ELSE Segue(i, n) + 1
    PROVE  /\ i2 \in 1..(n + 1) /\ i2 # k /\ j2 \in 1..(n + 1) /\ j2 # k
           /\ i2 = q => j2 = Segue(k, n + 1)
           /\ i2 # q => j2 = Segue(i2, n + 1) /\ j2 # Segue(k, n + 1)
BY DEF Segue

\* An element of a ring of several goes away.
LEMMA AnelMenosUm ==
    ASSUME NEW s, NEW inicio, NEW nx, NEW pv, Anel(s, inicio, nx, pv), Len(s) > 1,
           nx \in [Elems -> Elems \cup {NULL}], pv \in [Elems -> Elems \cup {NULL}],
           NEW k \in 1..Len(s), NEW e, e = s[k]
    PROVE  Anel(RemoveAt(s, k), IF k = 1 THEN nx[e] ELSE inicio,
                [nx EXCEPT ![pv[e]] = nx[e], ![e] = NULL],
                [pv EXCEPT ![nx[e]] = pv[e], ![e] = NULL])
<1> DEFINE n == Len(s) - 1
           q == IF k = 1 THEN n + 1 ELSE k - 1
           z == Segue(k, n + 1)
           r == RemoveAt(s, k)
           nx2 == [nx EXCEPT ![pv[e]] = nx[e], ![e] = NULL]
           pv2 == [pv EXCEPT ![nx[e]] = pv[e], ![e] = NULL]
<1>1. s \in Seq(Elems) /\ Len(s) \in Nat /\ n \in Nat /\ n >= 1 /\ Len(s) = n + 1
  BY LenProperties DEF Anel
<1>2. r \in Seq(Elems) /\ Len(r) = n /\ r # <<>>
      /\ \A i \in 1..n : r[i] = IF i < k THEN s[i] ELSE s[i + 1]
  <2>1. r \in Seq(Elems) /\ Len(r) = n
        /\ \A i \in 1..n : r[i] = IF i < k THEN s[i] ELSE s[i + 1]
    <3> HIDE DEF r
    <3> QED BY <1>1, RemoveAtElementos DEF r
  <2>2. Len(r) >= 1
    BY <1>1, <2>1
  <2> HIDE DEF r
  <2> QED BY <2>1, <2>2, SMTT(30)
<1>k. k \in 1..(n + 1)
  BY <1>1
<1>3. /\ q \in 1..(n + 1) /\ z \in 1..(n + 1) /\ q # k /\ z # k
      /\ Segue(q, n + 1) = k /\ z = Segue(k, n + 1)
  <2> HIDE DEF n
  <2>1. CASE k = 1
    BY <1>1, <1>k, <2>1 DEF Segue
  <2>2. CASE k # 1
    BY <1>1, <1>k, <2>2 DEF Segue
  <2> QED BY <2>1, <2>2
<1>4. nx[e] = s[z] /\ pv[e] = s[q]
  <2> HIDE DEF n, q, z
  <2>1. nx[s[k]] = s[Segue(k, n + 1)] /\ pv[s[Segue(q, n + 1)]] = s[q]
    BY <1>1, <1>3, <1>k DEF Anel
  <2> QED BY <1>3, <2>1
<1>5. \A i \in 1..(n + 1) : s[i] \in Elems
  BY <1>1, ElementOfSeq
<1>6. \A i, j \in 1..(n + 1) : s[i] = s[j] => i = j
  BY <1>1 DEF Anel, SemRepeticao
<1>7. \A i \in 1..(n + 1) : nx[s[i]] = s[Segue(i, n + 1)] /\ pv[s[Segue(i, n + 1)]] = s[i]
  BY <1>1, SMTT(30) DEF Anel
<1>8. k \in 1..(n + 1) /\ e \in Elems /\ s[z] \in Elems /\ s[q] \in Elems /\ s[z] # e /\ s[q] # e
  BY <1>1, <1>3, <1>5, <1>6
<1>9. \A x \in Elems : nx2[x] = IF x = e THEN NULL ELSE IF x = s[q] THEN s[z] ELSE nx[x]
  BY <1>4, <1>8
<1>10. \A x \in Elems : pv2[x] = IF x = e THEN NULL ELSE IF x = s[z] THEN s[q] ELSE pv[x]
  BY <1>4, <1>8
<1>11. inicio = s[1]
  BY <1>1 DEF Anel
<1>12. q = IF k = 1 THEN n + 1 ELSE k - 1
  OBVIOUS
<1>13. z = Segue(k, n + 1)
  OBVIOUS
<1> HIDE DEF n, q, z, r, nx2, pv2
<1>14. ASSUME NEW i \in 1..n
       PROVE  nx2[r[i]] = r[Segue(i, n)] /\ pv2[r[Segue(i, n)]] = r[i]
  <2> DEFINE i2 == IF i < k THEN i ELSE i + 1
             j2 == IF Segue(i, n) < k THEN Segue(i, n) ELSE Segue(i, n) + 1
  <2>1. r[i] = s[i2] /\ r[Segue(i, n)] = s[j2]
    <3>1. Segue(i, n) \in 1..n
      BY <1>1 DEF Segue
    <3> QED BY <1>1, <1>2, <3>1
  <2>a. /\ i2 = IF i < k THEN i ELSE i + 1
        /\ j2 = IF Segue(i, n) < k THEN Segue(i, n) ELSE Segue(i, n) + 1
    OBVIOUS
  <2> HIDE DEF i2, j2
  <2>2. /\ i2 \in 1..(n + 1) /\ i2 # k /\ j2 \in 1..(n + 1) /\ j2 # k
        /\ i2 = q => j2 = z
        /\ i2 # q => j2 = Segue(i2, n + 1) /\ j2 # z
    BY <1>1, <1>8, <1>12, <1>13, <2>a, VizinhosSemK
  <2>3. s[i2] \in Elems /\ s[j2] \in Elems /\ s[i2] # e /\ s[j2] # e
    BY <1>5, <1>6, <1>8, <2>2
  <2>4. CASE i2 = q
    BY <1>9, <1>10, <2>1, <2>2, <2>3, <2>4
  <2>5. CASE i2 # q
    <3>1. s[i2] # s[q] /\ s[j2] # s[z]
      BY <1>3, <1>6, <2>2, <2>5
    <3>2. nx[s[i2]] = s[j2] /\ pv[s[j2]] = s[i2]
      BY <1>7, <2>2, <2>5
    <3> QED BY <1>9, <1>10, <2>1, <2>3, <3>1, <3>2
  <2> QED BY <2>4, <2>5
<1>15. SemRepeticao(r)
  <2> SUFFICES ASSUME NEW i \in 1..n, NEW j \in 1..n, r[i] = r[j] PROVE i = j
    BY <1>2 DEF SemRepeticao
  <2> DEFINE i2 == IF i < k THEN i ELSE i + 1
             j2 == IF j < k THEN j ELSE j + 1
  <2>1. i2 \in 1..(n + 1) /\ j2 \in 1..(n + 1) /\ r[i] = s[i2] /\ r[j] = s[j2]
    BY <1>1, <1>2
  <2>2. i2 = j2
    <3> HIDE DEF i2, j2
    <3> QED BY <1>6, <2>1
  <2> QED BY <1>1, <1>8, <2>2
<1>16. r[1] = IF k = 1 THEN nx[e] ELSE inicio
  <2>1. 1 \in 1..n
    BY <1>1
  <2>2. r[1] = IF 1 < k THEN s[1] ELSE s[2]
    BY <1>2, <2>1
  <2>3. k = 1 => z = 2
    BY <1>1, <1>13 DEF Segue
  <2> QED BY <1>4, <1>8, <1>11, <2>2, <2>3
<1>17. Anel(r, IF k = 1 THEN nx[e] ELSE inicio, nx2, pv2)
  BY <1>2, <1>14, <1>15, <1>16 DEF Anel
<1> QED BY <1>17 DEF r, nx2, pv2

\* The neighbours of an element of a ring are in the ring.
LEMMA VizinhosNoAnel ==
    ASSUME NEW s, NEW inicio, NEW nx, NEW pv, Anel(s, inicio, nx, pv), NEW k \in 1..Len(s)
    PROVE  /\ s[k] \in Elems
           /\ Segue(k, Len(s)) \in 1..Len(s) /\ nx[s[k]] = s[Segue(k, Len(s))]
           /\ \E q \in 1..Len(s) : pv[s[k]] = s[q] /\ s[q] \in Elems
           /\ nx[s[k]] \in Elems
<1>1. s \in Seq(Elems) /\ Len(s) \in Nat
  BY DEF Anel
<1>2. Segue(k, Len(s)) \in 1..Len(s) /\ nx[s[k]] = s[Segue(k, Len(s))]
  BY <1>1 DEF Anel, Segue
<1>3. PICK q \in 1..Len(s) : Segue(q, Len(s)) = k
  BY <1>1, AnteriorNoAnel
<1>4. pv[s[k]] = s[q]
  BY <1>3 DEF Anel
<1> QED BY <1>1, <1>2, <1>4, ElementOfSeq

LEMMA ProximoDe ==
    ASSUME NEW s, NEW inicio, NEW nx, NEW pv, Anel(s, inicio, nx, pv),
           NEW k \in 1..Len(s), NEW e, e = s[k]
    PROVE  nx[e] = s[Segue(k, Len(s))] /\ nx[e] \in Elems
<1>1. nx[e] = s[Segue(k, Len(s))] /\ s \in Seq(Elems) /\ Len(s) \in Nat
  BY DEF Anel
<1> QED BY <1>1, SegueNoAnel, ElementOfSeq

LEMMA AnteriorDe ==
    ASSUME NEW s, NEW inicio, NEW nx, NEW pv, Anel(s, inicio, nx, pv),
           NEW k \in 1..Len(s), NEW e, e = s[k]
    PROVE  \E q \in 1..Len(s) : pv[e] = s[q] /\ s[q] \in Elems
<1>1. s \in Seq(Elems) /\ Len(s) \in Nat
  BY DEF Anel
<1>2. PICK q \in 1..Len(s) : Segue(q, Len(s)) = k
  BY <1>1, AnteriorNoAnel
<1>3. pv[e] = s[q]
  BY <1>2 DEF Anel
<1> QED BY <1>1, <1>3, ElementOfSeq

LEMMA FormacaoFila ==
    ASSUME NEW c, NEW cab, NEW nx, NEW pv, Formacao(c, cab, nx, pv), NEW f \in Filas
    PROVE  /\ Anel(c[f], cab[f], nx, pv) /\ c[f] \in Seq(Elems) /\ Len(c[f]) \in Nat
           /\ SemRepeticao(c[f]) /\ Len(c[f]) <= N /\ N \in Nat
           /\ cab[f] = NULL => c[f] = <<>>
           /\ cab[f] # NULL => c[f] # <<>> /\ Len(c[f]) >= 1 /\ cab[f] = c[f][1]
<1>1. Anel(c[f], cab[f], nx, pv) /\ c[f] \in Seq(Elems)
  BY DEF Formacao
<1>2. SemRepeticao(c[f]) /\ cab[f] = IF c[f] = <<>> THEN NULL ELSE c[f][1]
  BY <1>1 DEF Anel
<1>3. Len(c[f]) \in Nat /\ Len(c[f]) <= N /\ N \in Nat
  BY <1>1, <1>2, SemRepeticaoCurta
<1>4. c[f] # <<>> => c[f][1] \in Elems /\ Len(c[f]) >= 1
  BY <1>1
<1> QED BY <1>1, <1>2, <1>3, <1>4, NomesAssumption

\* queue_append to an empty queue.
LEMMA FormacaoVazia ==
    ASSUME NEW c, NEW cab, NEW nx, NEW pv, Formacao(c, cab, nx, pv),
           cab \in [Filas -> Elems \cup {NULL}],
           nx \in [Elems -> Elems \cup {NULL}], pv \in [Elems -> Elems \cup {NULL}],
           NEW f \in Filas, cab[f] = NULL, NEW e \in Elems, nx[e] = NULL
    PROVE  Formacao([c EXCEPT ![f] = Append(c[f], e)], [cab EXCEPT ![f] = e],
                    [nx EXCEPT ![e] = e], [pv EXCEPT ![e] = e])
<1> DEFINE nx2 == [nx EXCEPT ![e] = e]
           pv2 == [pv EXCEPT ![e] = e]
<1>1. c[f] = <<>> /\ Append(c[f], e) = <<e>>
  <2>1. c[f] = <<>>
    BY FormacaoFila
  <2>2. Append(<<>>, e) = <<e>>
    OBVIOUS
  <2> QED BY <2>1, <2>2
<1>2. \A x \in Elems : x # e => nx2[x] = nx[x] /\ pv2[x] = pv[x]
  OBVIOUS
<1>3. nx2[e] = e /\ pv2[e] = e
  OBVIOUS
<1>4. Len(<<e>>) = 1 /\ <<e>>[1] = e /\ Len(c[f]) = 0
  BY <1>1
<1>5. \A g \in Filas : \A j \in 1..Len(c[g]) : c[g][j] # e
  BY SoltoFora DEF Dentro
<1> HIDE DEF nx2, pv2
<1>6. Anel(<<e>>, e, nx2, pv2)
  BY <1>3, AnelUnitario
<1>7. \A x \in Elems : (\A i \in 1..Len(<<e>>) : <<e>>[i] # x) => x # e
  BY <1>4
<1>8. \A g \in Filas : g # f => \A i \in 1..Len(<<e>>), j \in 1..Len(c[g]) : <<e>>[i] # c[g][j]
  BY <1>4, <1>5
<1>9. \A x \in Elems : ~(\E i \in 1..Len(c[f]) : c[f][i] = x)
  BY <1>4
<1>10. Troca(c, f, <<e>>, nx, pv, nx2, pv2)
  BY <1>2, <1>7, <1>8, <1>9 DEF Troca
<1>11. Formacao([c EXCEPT ![f] = <<e>>], [cab EXCEPT ![f] = e], nx2, pv2)
  BY <1>6, <1>10, TrocaAnel
<1> QED BY <1>1, <1>11 DEF nx2, pv2

\* queue_append to a queue that is not empty.
LEMMA FormacaoFim ==
    ASSUME NEW c, NEW cab, NEW nx, NEW pv, Formacao(c, cab, nx, pv),
           cab \in [Filas -> Elems \cup {NULL}],
           nx \in [Elems -> Elems \cup {NULL}], pv \in [Elems -> Elems \cup {NULL}],
           NEW f \in Filas, cab[f] # NULL, NEW e \in Elems, nx[e] = NULL
    PROVE  Formacao([c EXCEPT ![f] = Append(c[f], e)], cab,
                    [nx EXCEPT ![pv[cab[f]]] = e, ![e] = cab[f]],
                    [pv EXCEPT ![cab[f]] = e, ![e] = pv[cab[f]]])
<1> DEFINE s == c[f]
           r == Append(s, e)
           nx2 == [nx EXCEPT ![pv[cab[f]]] = e, ![e] = cab[f]]
           pv2 == [pv EXCEPT ![cab[f]] = e, ![e] = pv[cab[f]]]
<1>1. /\ Anel(s, cab[f], nx, pv) /\ s # <<>> /\ s \in Seq(Elems) /\ Len(s) \in Nat
      /\ Len(s) >= 1 /\ cab[f] = s[1] /\ 1 \in 1..Len(s)
  BY FormacaoFila
<1>2. \A g \in Filas : \A j \in 1..Len(c[g]) : c[g][j] # e
  BY SoltoFora DEF Dentro
<1>3. Anel(r, cab[f], nx2, pv2)
  BY <1>1, <1>2, AnelMaisUm
<1>4. r \in Seq(Elems) /\ Len(r) = Len(s) + 1 /\ r[Len(s) + 1] = e
      /\ \A i \in 1..Len(s) : r[i] = s[i]
  BY <1>1, AppendProperties
<1>5. PICK q \in 1..Len(s) : pv[cab[f]] = s[q] /\ s[q] \in Elems
  <2> HIDE DEF s, r, nx2, pv2
  <2> QED BY <1>1, AnteriorDe
<1>6. cab[f] \in Elems
  BY <1>1, ElementOfSeq
<1>7. \A x \in Elems : x # e /\ x # s[q] /\ x # s[1] => nx2[x] = nx[x] /\ pv2[x] = pv[x]
  BY <1>1, <1>5, <1>6
<1>8. cab = [cab EXCEPT ![f] = cab[f]]
  OBVIOUS
<1> HIDE DEF s, r, nx2, pv2
<1>9. \A x \in Elems : (\A i \in 1..Len(s) : s[i] # x) /\ (\A i \in 1..Len(r) : r[i] # x)
                       => nx2[x] = nx[x] /\ pv2[x] = pv[x]
  <2>1. Len(s) + 1 \in 1..Len(r)
    BY <1>1, <1>4
  <2> QED BY <1>1, <1>4, <1>5, <1>7, <2>1
<1>10. ASSUME NEW g \in Filas, g # f, NEW i \in 1..Len(r), NEW j \in 1..Len(c[g])
       PROVE  r[i] # c[g][j]
  <2>1. CASE i = Len(s) + 1
    BY <1>2, <1>4, <2>1
  <2>2. CASE i # Len(s) + 1
    <3>1. i \in 1..Len(s) /\ r[i] = s[i]
      BY <1>1, <1>4, <2>2
    <3> QED BY <1>10, <3>1 DEF Formacao, s
  <2> QED BY <2>1, <2>2
<1>11. \A x \in Elems : (\E i \in 1..Len(s) : s[i] = x) => ~(\A i \in 1..Len(r) : r[i] # x)
  <2>1. \A i \in 1..Len(s) : i \in 1..Len(r)
    BY <1>1, <1>4
  <2> QED BY <1>4, <2>1
<1>12. Troca(c, f, r, nx, pv, nx2, pv2)
  BY <1>9, <1>10, <1>11 DEF Troca, s
<1>13. Formacao([c EXCEPT ![f] = r], [cab EXCEPT ![f] = cab[f]], nx2, pv2)
  BY <1>3, <1>12, TrocaAnel
<1> QED BY <1>8, <1>13 DEF r, s, nx2, pv2

\* What is left after a removal.
Aparece(s, x) == \E i \in 1..Len(s) : s[i] = x
ApareceFora(s, k, x) == \E i \in 1..Len(s) : i # k /\ s[i] = x

LEMMA RemoveAtRestam ==
    ASSUME NEW S, NEW s \in Seq(S), NEW k \in 1..Len(s)
    PROVE  \A x : Aparece(RemoveAt(s, k), x) <=> ApareceFora(s, k, x)
<1> SUFFICES ASSUME NEW x PROVE Aparece(RemoveAt(s, k), x) <=> ApareceFora(s, k, x)
  OBVIOUS
<1> DEFINE r == RemoveAt(s, k)
<1> HIDE DEF r
<1>1. /\ Len(s) \in Nat /\ Len(r) = Len(s) - 1
      /\ \A i \in 1..(Len(s) - 1) : r[i] = IF i < k THEN s[i] ELSE s[i + 1]
  <2>1. Len(s) \in Nat
    OBVIOUS
  <2>2. /\ Len(RemoveAt(s, k)) = Len(s) - 1
        /\ \A i \in 1..(Len(s) - 1) : RemoveAt(s, k)[i] = IF i < k THEN s[i] ELSE s[i + 1]
    BY RemoveAtElementos
  <2> QED BY <2>1, <2>2 DEF r
<1>2. ASSUME NEW i \in 1..Len(r), r[i] = x PROVE \E j \in 1..Len(s) : j # k /\ s[j] = x
  <2>1. CASE i < k
    BY <1>1, <1>2, <2>1
  <2>2. CASE i >= k
    <3>1. i + 1 \in 1..Len(s) /\ i + 1 # k /\ s[i + 1] = x
      BY <1>1, <1>2, <2>2
    <3> QED BY <3>1
  <2> QED BY <1>1, <2>1, <2>2
<1>3. ASSUME NEW j \in 1..Len(s), j # k, s[j] = x PROVE \E i \in 1..Len(r) : r[i] = x
  <2>1. CASE j < k
    <3>1. j \in 1..Len(r) /\ r[j] = x
      BY <1>1, <1>3, <2>1
    <3> QED BY <3>1
  <2>2. CASE j > k
    <3>1. j - 1 \in 1..Len(r) /\ r[j - 1] = x
      BY <1>1, <1>3, <2>2
    <3> QED BY <3>1
  <2> QED BY <1>1, <1>3, <2>1, <2>2
<1> QED BY <1>2, <1>3 DEF r, Aparece, ApareceFora

\* queue_remove of the only element.
LEMMA UmSo ==
    ASSUME NEW s, NEW e \in Elems, NEW nx, NEW pv, Anel(s, e, nx, pv), nx[e] = e
    PROVE  Len(s) = 1 /\ s[1] = e /\ RemoveAt(s, 1) = <<>>
<1>1. /\ s \in Seq(Elems) /\ SemRepeticao(s) /\ Len(s) \in Nat
      /\ s # <<>> /\ s[1] = e
  BY NomesAssumption DEF Anel
<1>2. Len(s) >= 1 /\ 1 \in 1..Len(s)
  BY <1>1
<1>3. Segue(1, Len(s)) \in 1..Len(s) /\ s[Segue(1, Len(s))] = s[1]
  <2>1. Segue(1, Len(s)) \in 1..Len(s)
    BY <1>1, <1>2, SegueNoAnel
  <2>2. nx[s[1]] = s[Segue(1, Len(s))]
    BY <1>2 DEF Anel
  <2> QED BY <1>1, <2>1, <2>2
<1>4. Segue(1, Len(s)) = 1
  BY <1>1, <1>2, <1>3 DEF SemRepeticao
<1>5. Len(s) = 1
  BY <1>1, <1>4 DEF Segue
<1>6. RemoveAt(s, 1) \in Seq(Elems) /\ Len(RemoveAt(s, 1)) = 0
  <2>1. RemoveAt(s, 1) \in Seq(Elems) /\ Len(RemoveAt(s, 1)) = Len(s) - 1
    BY <1>1, <1>2, RemoveAtElementos
  <2> QED BY <1>5, <2>1
<1> QED BY <1>1, <1>5, <1>6

LEMMA FormacaoUnico ==
    ASSUME NEW c, NEW cab, NEW nx, NEW pv, Formacao(c, cab, nx, pv),
           cab \in [Filas -> Elems \cup {NULL}],
           nx \in [Elems -> Elems \cup {NULL}], pv \in [Elems -> Elems \cup {NULL}],
           NEW f \in Filas, NEW e \in Elems, Len(c[f]) = 1, c[f][1] = e
    PROVE  Formacao([c EXCEPT ![f] = <<>>], [cab EXCEPT ![f] = NULL],
                    [nx EXCEPT ![e] = NULL], [pv EXCEPT ![e] = NULL])
<1> DEFINE s == c[f]
           nx2 == [nx EXCEPT ![e] = NULL]
           pv2 == [pv EXCEPT ![e] = NULL]
<1>1. nx2[e] = NULL /\ pv2[e] = NULL /\ \A x \in Elems : x # e => nx2[x] = nx[x] /\ pv2[x] = pv[x]
  OBVIOUS
<1>2. Len(s) = 1 /\ s[1] = e
  OBVIOUS
<1> HIDE DEF s, nx2, pv2
<1>3. Anel(<<>>, NULL, nx2, pv2)
  BY DEF Anel, SemRepeticao
<1>4. Troca(c, f, <<>>, nx, pv, nx2, pv2)
  <2>1. \A x \in Elems : (\A i \in 1..Len(c[f]) : c[f][i] # x) => nx2[x] = nx[x] /\ pv2[x] = pv[x]
    BY <1>1, <1>2 DEF s
  <2>2. \A x \in Elems : (\E i \in 1..Len(c[f]) : c[f][i] = x) => nx2[x] = NULL /\ pv2[x] = NULL
    BY <1>1, <1>2 DEF s
  <2>3. \A i \in 1..Len(<<>>) : FALSE
    OBVIOUS
  <2> QED BY <2>1, <2>2, <2>3 DEF Troca
<1>5. Formacao([c EXCEPT ![f] = <<>>], [cab EXCEPT ![f] = NULL], nx2, pv2)
  BY <1>3, <1>4, TrocaAnel
<1> QED BY <1>5 DEF nx2, pv2

\* queue_remove of one element of several.
LEMMA FormacaoMenosUm ==
    ASSUME NEW c, NEW cab, NEW nx, NEW pv, Formacao(c, cab, nx, pv),
           cab \in [Filas -> Elems \cup {NULL}],
           nx \in [Elems -> Elems \cup {NULL}], pv \in [Elems -> Elems \cup {NULL}],
           NEW f \in Filas, NEW k \in 1..Len(c[f]), Len(c[f]) > 1, NEW e, e = c[f][k]
    PROVE  Formacao([c EXCEPT ![f] = RemoveAt(c[f], k)],
                    [cab EXCEPT ![f] = IF k = 1 THEN nx[e] ELSE cab[f]],
                    [nx EXCEPT ![pv[e]] = nx[e], ![e] = NULL],
                    [pv EXCEPT ![nx[e]] = pv[e], ![e] = NULL])
<1> DEFINE s == c[f]
           r == RemoveAt(s, k)
           h == IF k = 1 THEN nx[e] ELSE cab[f]
           nx2 == [nx EXCEPT ![pv[e]] = nx[e], ![e] = NULL]
           pv2 == [pv EXCEPT ![nx[e]] = pv[e], ![e] = NULL]
<1>1. /\ Anel(s, cab[f], nx, pv) /\ s \in Seq(Elems) /\ Len(s) \in Nat /\ SemRepeticao(s)
      /\ k \in 1..Len(s) /\ e = s[k]
  BY FormacaoFila
<1>2. Anel(r, h, nx2, pv2)
  BY <1>1, AnelMenosUm
<1>3. PICK q \in 1..Len(s), z \in 1..Len(s) :
         pv[e] = s[q] /\ s[q] \in Elems /\ nx[e] = s[z] /\ s[z] \in Elems /\ e \in Elems
  <2> HIDE DEF s
  <2>1. /\ s[k] \in Elems
        /\ Segue(k, Len(s)) \in 1..Len(s) /\ nx[s[k]] = s[Segue(k, Len(s))]
        /\ \E q \in 1..Len(s) : pv[s[k]] = s[q] /\ s[q] \in Elems
        /\ nx[s[k]] \in Elems
    BY <1>1, VizinhosNoAnel
  <2> QED BY <1>1, <2>1
<1>4. /\ nx2[e] = NULL /\ pv2[e] = NULL
      /\ \A x \in Elems : x # e /\ x # s[q] /\ x # s[z] => nx2[x] = nx[x] /\ pv2[x] = pv[x]
  BY <1>3
<1> HIDE DEF s, r, h, nx2, pv2
<1>5. \A x : (\E i \in 1..Len(r) : r[i] = x) <=> (\E i \in 1..Len(s) : i # k /\ s[i] = x)
  <2>1. \A x : Aparece(r, x) <=> ApareceFora(s, k, x)
    BY <1>1, RemoveAtRestam DEF r
  <2> QED BY <2>1 DEF Aparece, ApareceFora
<1>6. \A x \in Elems : (\A i \in 1..Len(s) : s[i] # x) => nx2[x] = nx[x] /\ pv2[x] = pv[x]
  BY <1>1, <1>3, <1>4
<1>7. \A x \in Elems : (\E i \in 1..Len(s) : s[i] = x) /\ (\A i \in 1..Len(r) : r[i] # x)
                       => nx2[x] = NULL /\ pv2[x] = NULL
  BY <1>1, <1>4, <1>5
<1>8. ASSUME NEW g \in Filas, g # f, NEW i \in 1..Len(r), NEW j \in 1..Len(c[g])
      PROVE  r[i] # c[g][j]
  <2>1. PICK l \in 1..Len(s) : s[l] = r[i]
    BY <1>5
  <2> QED BY <1>8, <2>1 DEF Formacao, s
<1>9. Troca(c, f, r, nx, pv, nx2, pv2)
  BY <1>6, <1>7, <1>8 DEF Troca, s
<1>10. Formacao([c EXCEPT ![f] = r], [cab EXCEPT ![f] = h], nx2, pv2)
  BY <1>2, <1>9, TrocaAnel
<1> QED BY <1>10 DEF r, s, h, nx2, pv2

-----------------------------------------------------------------------------
\* Prefixes of what a walk prints.

LEMMA AcrescentaPrefixo ==
    ASSUME NEW S, NEW s \in Seq(S), NEW k \in 1..Len(s)
    PROVE  Append(SubSeq(s, 1, k - 1), s[k]) = SubSeq(s, 1, (k + 1) - 1)
<1>1. Len(s) \in Nat /\ \A i \in 1..Len(s) : s[i] \in S
  OBVIOUS
<1>2. (k + 1) - 1 = k /\ k \in 1..Len(s) /\ 1 \in 1..Len(s) /\ k \in 1..Len(s)
  BY <1>1
<1>3. SubSeq(s, 1, k) = SubSeq(s, 1, k - 1) \o <<s[k]>>
  BY <1>2, SubSeqRecursiveSecond
<1>4. SubSeq(s, 1, k - 1) \in Seq(S)
  <2>1. \A i \in 1..(k - 1) : s[i] \in S
    BY <1>1
  <2> QED BY <1>1, <2>1, SubSeqProperties
<1>5. Append(SubSeq(s, 1, k - 1), s[k]) = SubSeq(s, 1, k - 1) \o <<s[k]>>
  BY <1>1, <1>4, AppendIsConcat
<1> QED BY <1>2, <1>3, <1>5

LEMMA DoisUltimos ==
    ASSUME NEW S, NEW s \in Seq(S), NEW k \in 1..Len(s), k + 1 = Len(s)
    PROVE  SubSeq(s, 1, k - 1) \o <<s[k], s[k + 1]>> = s
<1> DEFINE a == SubSeq(s, 1, k - 1)
           b == <<s[k], s[k + 1]>>
<1>1. Len(s) \in Nat /\ \A i \in 1..Len(s) : s[i] \in S
  OBVIOUS
<1>2. a \in Seq(S) /\ Len(a) = k - 1 /\ \A i \in 1..(k - 1) : a[i] = s[i]
  <2>1. \A i \in 1..(k - 1) : s[i] \in S
    BY <1>1
  <2> QED BY <1>1, <2>1, SubSeqProperties
<1>3. b \in Seq(S) /\ Len(b) = 2 /\ b[1] = s[k] /\ b[2] = s[k + 1]
  <2>1. s[k] \in S /\ s[k + 1] \in S
    BY <1>1
  <2> QED BY <2>1
<1> HIDE DEF a, b
<1>4. a \o b \in Seq(S) /\ Len(a \o b) = Len(a) + Len(b)
      /\ \A i \in 1..(Len(a) + Len(b)) : (a \o b)[i] = IF i <= Len(a) THEN a[i] ELSE b[i - Len(a)]
  <2>1. a \in Seq(S) /\ b \in Seq(S)
    BY <1>2, <1>3
  <2> QED BY <2>1, ConcatProperties
<1>5. Len(a \o b) = Len(s)
  BY <1>1, <1>2, <1>3, <1>4
<1>6. ASSUME NEW i \in 1..Len(s) PROVE (a \o b)[i] = s[i]
  <2>1. (a \o b)[i] = IF i <= k - 1 THEN a[i] ELSE b[i - (k - 1)]
    BY <1>1, <1>2, <1>3, <1>4
  <2>2. CASE i <= k - 1
    BY <1>2, <2>1, <2>2
  <2>3. CASE i = k
    BY <1>1, <1>3, <2>1, <2>3
  <2>4. CASE i = k + 1
    BY <1>1, <1>3, <2>1, <2>4
  <2>5. i <= k - 1 \/ i = k \/ i = k + 1
    BY <1>1
  <2> QED BY <2>2, <2>3, <2>4, <2>5
<1>7. a \o b = s
  BY <1>4, <1>5, <1>6, SeqEqual
<1> QED BY <1>7 DEF a, b

\* The links of an element of a ring are inverse of each other.
LEMMA VaiEVolta ==
    ASSUME NEW s, NEW inicio, NEW nx, NEW pv, Anel(s, inicio, nx, pv), NEW k \in 1..Len(s),
           NEW e, s[k] = e
    PROVE  nx[e] \in Elems /\ pv[nx[e]] = e /\ pv[e] \in Elems /\ nx[pv[e]] = e
<1>1. s \in Seq(Elems) /\ Len(s) \in Nat
  BY DEF Anel
<1>2. nx[e] \in Elems /\ pv[nx[e]] = e
  <2>1. nx[s[k]] = s[Segue(k, Len(s))] /\ pv[s[Segue(k, Len(s))]] = s[k]
    BY DEF Anel
  <2> QED BY <1>1, <2>1, SegueNoAnel, ElementOfSeq
<1>3. PICK q \in 1..Len(s) : Segue(q, Len(s)) = k
  BY <1>1, AnteriorNoAnel
<1>4. pv[e] = s[q] /\ nx[s[q]] = e
  BY <1>3 DEF Anel
<1> QED BY <1>1, <1>2, <1>4, ElementOfSeq

-----------------------------------------------------------------------------
\* The invariant.

conteudo == [f \in Filas |-> Conteudo(f)]

\* Where a walk over the ring of its queue is: at an element up to which the
\* one to remove was not seen, at the element counted last, after the elements
\* printed.
Caminhada ==
    /\ Em("remove") =>
          /\ chamada.fila \in Filas /\ chamada.elem \in Elems
          /\ \E k \in 1..Len(conteudo[chamada.fila]) :
                /\ atual = conteudo[chamada.fila][k]
                /\ \A j \in 1..k : conteudo[chamada.fila][j] # chamada.elem
    /\ Em("size") =>
          /\ chamada.fila \in Filas
          /\ contador + 1 \in 1..Len(conteudo[chamada.fila])
          /\ atual = conteudo[chamada.fila][contador + 1]
    /\ Em("print") =>
          /\ chamada.fila \in Filas
          /\ \E k \in 1..Len(conteudo[chamada.fila]) :
                /\ atual = conteudo[chamada.fila][k]
                /\ impressos = SubSeq(conteudo[chamada.fila], 1, k - 1)
                /\ k < Len(conteudo[chamada.fila]) \/ Len(conteudo[chamada.fila]) = 1

IInv == TypeOK /\ Formacao(conteudo, cabeca, next, prev) /\ Caminhada

\* A step of the library is a step of FilaAbs or leaves its variables alone.
Abstrai == A!Next \/ UNCHANGED <<conteudo, retorno>>

Codigos == {-5, -3, -2, -1} \cup 0..N

LEMMA ConteudoNovo ==
    ASSUME NEW c, Formacao(c, cabeca', next', prev')
    PROVE  conteudo' = c
<1>1. ASSUME NEW f \in Filas PROVE Percurso(cabeca'[f], next') = c[f]
  <2>1. Anel(c[f], cabeca'[f], next', prev')
    BY FormacaoFila
  <2> QED BY <2>1, PercursoDoAnel
<1>2. conteudo' = [f \in Filas |-> Percurso(cabeca'[f], next')]
  BY DEF conteudo, Conteudo
<1>3. c = [f \in Filas |-> c[f]]
  BY DEF Formacao
<1> QED BY <1>1, <1>2, <1>3

LEMMA AnelParado ==
    ASSUME IInv, UNCHANGED anel
    PROVE  /\ conteudo' = conteudo /\ Formacao(conteudo, cabeca', next', prev')
           /\ cabeca' = cabeca /\ next' = next /\ prev' = prev
BY ConteudoNovo DEF anel, IInv

\* What a call that returns leaves.
LEMMA RetornaMantem ==
    ASSUME TypeOK, NEW r \in Codigos, Retorna(r), NEW c, Formacao(c, cabeca', next', prev'),
           cabeca' \in [Filas -> Elems \cup {NULL}],
           next' \in [Elems -> Elems \cup {NULL}], prev' \in [Elems -> Elems \cup {NULL}]
    PROVE  IInv' /\ conteudo' = c /\ retorno' = r
<1>1. conteudo' = c
  BY ConteudoNovo
<1>2. /\ chamada' = Nenhuma /\ atual' = NULL /\ contador' = 0
      /\ impressos' = impressos /\ retorno' = r
  BY DEF Retorna
<1>3. N \in Nat
  BY FS_CardinalityType, NomesAssumption DEF N
<1>4. TypeOK'
  <2>1. chamada' \in [op : {"nenhuma", "remove", "size", "print"},
                      fila : Filas \cup {NULL}, elem : Elems \cup {NULL}]
    BY <1>2 DEF Nenhuma
  <2>2. atual' \in Elems \cup {NULL} /\ contador' \in 0..N /\ impressos' \in Seq(Elems)
    BY <1>2, <1>3 DEF TypeOK
  <2> QED BY <1>2, <2>1, <2>2 DEF TypeOK, Codigos
<1>5. Caminhada'
  BY <1>2 DEF Caminhada, Em, Nenhuma
<1> QED BY <1>1, <1>2, <1>4, <1>5 DEF IInv

LEMMA ToSetPosicoes ==
    ASSUME NEW s \in Seq(Elems), NEW e
    PROVE  e \in ToSet(s) <=> \E i \in 1..Len(s) : s[i] = e
<1>1. DOMAIN s = 1..Len(s)
  OBVIOUS
<1> QED BY <1>1 DEF ToSet

LEMMA DentroToSet ==
    ASSUME Formacao(conteudo, cabeca, next, prev), NEW e
    PROVE  A!EmAlguma(e) <=> Dentro(conteudo, e)
<1>1. \A f \in Filas : conteudo[f] \in Seq(Elems) /\ conteudo[f] = Conteudo(f)
  BY DEF Formacao, conteudo
<1>2. A!EmAlguma(e) <=> \E f \in Filas : e \in ToSet(conteudo[f])
  BY <1>1 DEF A!EmAlguma, A!ToSet, ToSet
<1> QED BY <1>1, <1>2, ToSetPosicoes DEF Dentro

\* The steps of FilaAbs, in terms of conteudo.
LEMMA AbstraiFalha ==
    ASSUME conteudo' = conteudo, retorno' = -1
    PROVE  Abstrai
<1>1. A!Falha(-1)
  BY DEF A!Falha, conteudo
<1>2. A!Insere(NULL, NULL)
  BY <1>1 DEF A!Insere
<1> QED BY <1>2 DEF Abstrai, A!Next

LEMMA AbstraiInsere ==
    ASSUME Formacao(conteudo, cabeca, next, prev), NEW f \in Filas, NEW e \in Elems,
           ~Dentro(conteudo, e), retorno' = 0,
           conteudo' = [conteudo EXCEPT ![f] = Append(conteudo[f], e)]
    PROVE  Abstrai
<1>1. ~A!EmAlguma(e) /\ f # NULL /\ e # NULL
  BY DentroToSet, NomesAssumption
<1>2. [g \in Filas |-> Conteudo(g)]'
      = [[g \in Filas |-> Conteudo(g)] EXCEPT ![f] = Append([g \in Filas |-> Conteudo(g)][f], e)]
  BY DEF conteudo
<1>3. A!Insere(f, e)
  BY <1>1, <1>2 DEF A!Insere
<1> QED BY <1>3 DEF Abstrai, A!Next

LEMMA AbstraiTira ==
    ASSUME NEW f \in Filas, NEW e \in Elems, NEW k \in 1..Len(conteudo[f]), conteudo[f][k] = e,
           retorno' = 0, conteudo' = [conteudo EXCEPT ![f] = RemoveAt(conteudo[f], k)]
    PROVE  Abstrai
<1>1. [g \in Filas |-> Conteudo(g)]'
      = [[g \in Filas |-> Conteudo(g)] EXCEPT ![f] = RemoveAt([g \in Filas |-> Conteudo(g)][f], k)]
  BY DEF conteudo
<1>2. k \in 1..Len([g \in Filas |-> Conteudo(g)][f]) /\ [g \in Filas |-> Conteudo(g)][f][k] = e
  BY DEF conteudo
<1>3. A!Tira(f, e)
  BY <1>1, <1>2, NomesAssumption DEF A!Tira, A!RemoveAt, RemoveAt
<1> QED BY <1>3 DEF Abstrai, A!Next

LEMMA AbstraiTamanho ==
    ASSUME NEW f \in Filas, conteudo' = conteudo, retorno' = Len(conteudo[f])
    PROVE  Abstrai
<1>1. A!Tamanho(f)
  BY DEF A!Tamanho, conteudo
<1> QED BY <1>1 DEF Abstrai, A!Next

-----------------------------------------------------------------------------
\* Each step keeps the invariant and is a step of FilaAbs or of nothing.

LEMMA PassoAppendRecusa ==
    ASSUME IInv, NEW f \in Filas \cup {NULL}, NEW e \in Elems \cup {NULL}, AppendRecusa(f, e)
    PROVE  IInv' /\ Abstrai
<1>1. TypeOK /\ Formacao(conteudo, cabeca, next, prev)
  BY DEF IInv
<1>2. UNCHANGED anel /\ Retorna(ErroAppend(f, e)) /\ ErroAppend(f, e) # 0
  BY DEF AppendRecusa
<1>3. ErroAppend(f, e) \in {-3, -2, -1}
  BY <1>2 DEF ErroAppend
<1>4. /\ conteudo' = conteudo /\ Formacao(conteudo, cabeca', next', prev')
      /\ cabeca' = cabeca /\ next' = next /\ prev' = prev
  BY <1>2, AnelParado
<1>5. IInv' /\ retorno' = ErroAppend(f, e)
  BY <1>1, <1>2, <1>3, <1>4, RetornaMantem DEF TypeOK, Codigos
<1>6. Abstrai
  <2>1. CASE f = NULL
    BY <1>4, <1>5, <2>1, AbstraiFalha DEF ErroAppend
  <2>2. CASE f # NULL
    <3>1. f \in Filas /\ A!Falha(ErroAppend(f, e))
      BY <1>4, <1>5, <2>2 DEF A!Falha, conteudo
    <3>2. A!Insere(f, e)
      <4>1. CASE e = NULL
        <5>1. ErroAppend(f, e) = -2
          BY <2>2, <4>1 DEF ErroAppend
        <5> QED BY <2>2, <3>1, <4>1, <5>1 DEF A!Insere
      <4>2. CASE e # NULL
        <5>1. ErroAppend(f, e) = -3 /\ (next[e] # NULL \/ prev[e] # NULL)
          BY <1>2, <2>2, <4>2 DEF ErroAppend
        <5>2. A!EmAlguma(e)
          BY <1>1, <4>2, <5>1, DentroToSet DEF Formacao
        <5> QED BY <2>2, <3>1, <4>2, <5>1, <5>2 DEF A!Insere
      <4> QED BY <4>1, <4>2
    <3> QED BY <3>1, <3>2 DEF Abstrai, A!Next
  <2> QED BY <2>1, <2>2
<1> QED BY <1>5, <1>6

LEMMA PassoRemoveRecusa ==
    ASSUME IInv, NEW f \in Filas \cup {NULL}, NEW e \in Elems \cup {NULL}, RemoveRecusa(f, e)
    PROVE  IInv' /\ Abstrai
<1>1. TypeOK /\ Formacao(conteudo, cabeca, next, prev)
  BY DEF IInv
<1>2. UNCHANGED anel /\ Retorna(ErroRemove(f, e)) /\ ErroRemove(f, e) # 0
  BY DEF RemoveRecusa
<1>3. ErroRemove(f, e) \in {-3, -2, -1}
  BY <1>2 DEF ErroRemove
<1>4. /\ conteudo' = conteudo /\ Formacao(conteudo, cabeca', next', prev')
      /\ cabeca' = cabeca /\ next' = next /\ prev' = prev
  BY <1>2, AnelParado
<1>5. IInv' /\ retorno' = ErroRemove(f, e)
  BY <1>1, <1>2, <1>3, <1>4, RetornaMantem DEF TypeOK, Codigos
<1>6. Abstrai
  <2>1. CASE f = NULL
    BY <1>4, <1>5, <2>1, AbstraiFalha DEF ErroRemove
  <2>2. CASE f # NULL
    <3>1. f \in Filas /\ A!Falha(ErroRemove(f, e)) /\ conteudo[f] = [g \in Filas |-> Conteudo(g)][f]
      BY <1>4, <1>5, <2>2 DEF A!Falha, conteudo
    <3>2. A!Tira(f, e)
      <4>1. CASE cabeca[f] = NULL
        <5>1. ErroRemove(f, e) = -2 /\ conteudo[f] = <<>>
          BY <1>1, <2>2, <3>1, <4>1, FormacaoFila DEF ErroRemove
        <5> QED BY <2>2, <3>1, <5>1 DEF A!Tira
      <4>2. CASE cabeca[f] # NULL
        <5>1. ErroRemove(f, e) = -3 /\ e = NULL
          BY <1>2, <2>2, <4>2 DEF ErroRemove
        <5>2. conteudo[f] # <<>>
          BY <1>1, <3>1, <4>2, FormacaoFila
        <5> QED BY <2>2, <3>1, <5>1, <5>2 DEF A!Tira
      <4> QED BY <4>1, <4>2
    <3> QED BY <3>1, <3>2 DEF Abstrai, A!Next
  <2> QED BY <2>1, <2>2
<1> QED BY <1>5, <1>6

LEMMA ZeroCodigo == 0 \in Codigos
BY FS_CardinalityType, NomesAssumption DEF N, Codigos

LEMMA PassoAppendVazia ==
    ASSUME IInv, NEW f \in Filas, NEW e \in Elems, AppendVazia(f, e)
    PROVE  IInv' /\ Abstrai
<1> DEFINE c == [conteudo EXCEPT ![f] = Append(conteudo[f], e)]
<1>1. TypeOK /\ Formacao(conteudo, cabeca, next, prev)
  BY DEF IInv
<1>2. /\ cabeca[f] = NULL /\ next[e] = NULL /\ Retorna(0)
      /\ cabeca' = [cabeca EXCEPT ![f] = e]
      /\ next' = [next EXCEPT ![e] = e] /\ prev' = [prev EXCEPT ![e] = e]
  BY NomesAssumption DEF AppendVazia, ErroAppend
<1>3. Formacao(c, cabeca', next', prev')
  BY <1>1, <1>2, FormacaoVazia DEF TypeOK
<1>4. /\ cabeca' \in [Filas -> Elems \cup {NULL}]
      /\ next' \in [Elems -> Elems \cup {NULL}] /\ prev' \in [Elems -> Elems \cup {NULL}]
  BY <1>1, <1>2 DEF TypeOK
<1> HIDE DEF c
<1>5. IInv' /\ conteudo' = c /\ retorno' = 0
  BY <1>1, <1>2, <1>3, <1>4, RetornaMantem, ZeroCodigo
<1>6. Abstrai
  BY <1>1, <1>2, <1>5, SoltoFora, AbstraiInsere DEF c
<1> QED BY <1>5, <1>6

LEMMA PassoAppendFim ==
    ASSUME IInv, NEW f \in Filas, NEW e \in Elems, AppendFim(f, e)
    PROVE  IInv' /\ Abstrai
<1> DEFINE c == [conteudo EXCEPT ![f] = Append(conteudo[f], e)]
<1>1. TypeOK /\ Formacao(conteudo, cabeca, next, prev)
  BY DEF IInv
<1>2. /\ cabeca[f] # NULL /\ next[e] = NULL /\ Retorna(0) /\ cabeca' = cabeca
      /\ next' = [next EXCEPT ![prev[cabeca[f]]] = e, ![e] = cabeca[f]]
      /\ prev' = [prev EXCEPT ![cabeca[f]] = e, ![e] = prev[cabeca[f]]]
  BY NomesAssumption DEF AppendFim, ErroAppend
<1>3. Formacao(c, cabeca', next', prev')
  BY <1>1, <1>2, FormacaoFim DEF TypeOK
<1>4. /\ cabeca' \in [Filas -> Elems \cup {NULL}]
      /\ next' \in [Elems -> Elems \cup {NULL}] /\ prev' \in [Elems -> Elems \cup {NULL}]
  <2>1. cabeca[f] \in Elems
    BY <1>1, <1>2 DEF TypeOK
  <2>2. prev[cabeca[f]] \in Elems \cup {NULL}
    BY <1>1, <2>1 DEF TypeOK
  <2> QED BY <1>1, <1>2, <2>1, <2>2 DEF TypeOK
<1> HIDE DEF c
<1>5. IInv' /\ conteudo' = c /\ retorno' = 0
  BY <1>1, <1>2, <1>3, <1>4, RetornaMantem, ZeroCodigo
<1>6. Abstrai
  BY <1>1, <1>2, <1>5, SoltoFora, AbstraiInsere DEF c
<1> QED BY <1>5, <1>6

LEMMA PassoRemoveUnico ==
    ASSUME IInv, NEW f \in Filas, NEW e \in Elems, RemoveUnico(f, e)
    PROVE  IInv' /\ Abstrai
<1> DEFINE c == [conteudo EXCEPT ![f] = RemoveAt(conteudo[f], 1)]
<1>1. TypeOK /\ Formacao(conteudo, cabeca, next, prev)
  BY DEF IInv
<1>2. /\ cabeca[f] = e /\ next[e] = e /\ Retorna(0)
      /\ cabeca' = [cabeca EXCEPT ![f] = NULL]
      /\ next' = [next EXCEPT ![e] = NULL] /\ prev' = [prev EXCEPT ![e] = NULL]
  BY DEF RemoveUnico
<1>3. Formacao(c, cabeca', next', prev') /\ Len(conteudo[f]) = 1 /\ conteudo[f][1] = e
  <2>1. /\ cabeca \in [Filas -> Elems \cup {NULL}]
        /\ next \in [Elems -> Elems \cup {NULL}] /\ prev \in [Elems -> Elems \cup {NULL}]
    BY <1>1 DEF TypeOK
  <2>2. Anel(conteudo[f], e, next, prev)
    BY <1>1, <1>2, FormacaoFila
  <2>3. /\ Len(conteudo[f]) = 1 /\ conteudo[f][1] = e /\ RemoveAt(conteudo[f], 1) = <<>>
    BY <1>2, <2>2, UmSo
  <2>4. Formacao([conteudo EXCEPT ![f] = <<>>], [cabeca EXCEPT ![f] = NULL],
                 [next EXCEPT ![e] = NULL], [prev EXCEPT ![e] = NULL])
    BY <1>1, <2>1, <2>3, FormacaoUnico
  <2> QED BY <1>2, <2>3, <2>4
<1>4. /\ cabeca' \in [Filas -> Elems \cup {NULL}]
      /\ next' \in [Elems -> Elems \cup {NULL}] /\ prev' \in [Elems -> Elems \cup {NULL}]
  BY <1>1, <1>2 DEF TypeOK
<1> HIDE DEF c
<1>5. IInv' /\ conteudo' = c /\ retorno' = 0
  BY <1>1, <1>2, <1>3, <1>4, RetornaMantem, ZeroCodigo
<1>6. 1 \in 1..Len(conteudo[f])
  BY <1>3
<1>7. Abstrai
  BY <1>3, <1>5, <1>6, AbstraiTira DEF c
<1> QED BY <1>5, <1>7

\* The four stores of Desliga, when the head is moved if it has to be.
LEMMA PassoDesliga ==
    ASSUME IInv, NEW f \in Filas, NEW k \in 1..Len(conteudo[f]), Len(conteudo[f]) > 1,
           NEW e, e = conteudo[f][k], Desliga(e), Retorna(0),
           cabeca' = [cabeca EXCEPT ![f] = IF k = 1 THEN next[e] ELSE cabeca[f]]
    PROVE  IInv' /\ Abstrai
<1> DEFINE c == [conteudo EXCEPT ![f] = RemoveAt(conteudo[f], k)]
<1>1. TypeOK /\ Formacao(conteudo, cabeca, next, prev)
  BY DEF IInv
<1>2. /\ next' = [next EXCEPT ![prev[e]] = next[e], ![e] = NULL]
      /\ prev' = [prev EXCEPT ![next[e]] = prev[e], ![e] = NULL]
  BY DEF Desliga
<1>3. Formacao(c, cabeca', next', prev')
  BY <1>1, <1>2, FormacaoMenosUm DEF TypeOK
<1>4. e \in Elems /\ next[e] \in Elems /\ prev[e] \in Elems
  <2>1. Anel(conteudo[f], cabeca[f], next, prev)
    BY <1>1, FormacaoFila
  <2> QED BY <2>1, VizinhosNoAnel
<1>5. /\ cabeca' \in [Filas -> Elems \cup {NULL}]
      /\ next' \in [Elems -> Elems \cup {NULL}] /\ prev' \in [Elems -> Elems \cup {NULL}]
  BY <1>1, <1>2, <1>4 DEF TypeOK
<1> HIDE DEF c
<1>6. IInv' /\ conteudo' = c /\ retorno' = 0
  BY <1>1, <1>3, <1>5, RetornaMantem, ZeroCodigo
<1>7. Abstrai
  BY <1>4, <1>6, AbstraiTira DEF c
<1> QED BY <1>6, <1>7

LEMMA PassoRemoveCabeca ==
    ASSUME IInv, NEW f \in Filas, NEW e \in Elems, RemoveCabeca(f, e)
    PROVE  IInv' /\ Abstrai
<1>1. Formacao(conteudo, cabeca, next, prev)
  BY DEF IInv
<1>2. /\ cabeca[f] = e /\ next[e] # e /\ Desliga(e) /\ Retorna(0)
      /\ cabeca' = [cabeca EXCEPT ![f] = next[e]]
  BY DEF RemoveCabeca
<1>3. /\ e = conteudo[f][1] /\ Anel(conteudo[f], cabeca[f], next, prev)
  BY <1>1, <1>2, FormacaoFila, NomesAssumption
<1>n. Len(conteudo[f]) \in Nat /\ Len(conteudo[f]) >= 1
  BY <1>1, <1>2, FormacaoFila, NomesAssumption
<1>4. 1 \in 1..Len(conteudo[f])
  BY <1>n
<1>5. ASSUME Len(conteudo[f]) = 1 PROVE FALSE
  <2>1. next[e] = conteudo[f][Segue(1, Len(conteudo[f]))]
    BY <1>3, <1>4 DEF Anel
  <2>2. Segue(1, Len(conteudo[f])) = 1
    BY <1>5 DEF Segue
  <2> QED BY <1>2, <1>3, <2>1, <2>2
<1>6. Len(conteudo[f]) > 1
  <2>1. \A n \in Nat : n >= 1 /\ n # 1 => n > 1
    OBVIOUS
  <2> QED BY <1>n, <1>5, <2>1
<1> QED BY <1>2, <1>3, <1>4, <1>6, PassoDesliga

LEMMA PassoRemoveComeca ==
    ASSUME IInv, NEW f \in Filas, NEW e \in Elems, RemoveComeca(f, e)
    PROVE  IInv' /\ Abstrai
<1>1. TypeOK /\ Formacao(conteudo, cabeca, next, prev)
  BY DEF IInv
<1>2. /\ UNCHANGED <<anel, contador, impressos, retorno>> /\ atual' = cabeca[f]
      /\ chamada' = [op |-> "remove", fila |-> f, elem |-> e]
      /\ cabeca[f] # e /\ cabeca[f] # NULL
  BY NomesAssumption DEF RemoveComeca, Chama, ErroRemove
<1>3. /\ conteudo' = conteudo /\ Formacao(conteudo, cabeca', next', prev')
      /\ cabeca' = cabeca /\ next' = next /\ prev' = prev
  BY <1>2, AnelParado
<1>4. Len(conteudo[f]) >= 1 /\ Len(conteudo[f]) \in Nat /\ cabeca[f] = conteudo[f][1]
  BY <1>1, <1>2, FormacaoFila
<1>5. TypeOK'
  BY <1>1, <1>2, <1>3 DEF TypeOK
<1>6. Caminhada'
  <2>1. 1 \in 1..Len(conteudo[f]) /\ \A j \in 1..1 : conteudo[f][j] # e
    BY <1>2, <1>4
  <2> QED BY <1>2, <1>3, <1>4, <2>1 DEF Caminhada, Em
<1> QED BY <1>2, <1>3, <1>5, <1>6 DEF IInv, Abstrai

\* An iteration of queue_remove looks at the next position of the ring.
LEMMA ProximoNoAnel ==
    ASSUME IInv, Em("remove")
    PROVE  /\ chamada.fila \in Filas /\ chamada.elem \in Elems
           /\ \E k \in 1..Len(conteudo[chamada.fila]) :
                /\ atual = conteudo[chamada.fila][k] /\ next[atual] \in Elems
                /\ next[atual] =
                     conteudo[chamada.fila][Segue(k, Len(conteudo[chamada.fila]))]
                /\ \A j \in 1..k : conteudo[chamada.fila][j] # chamada.elem
           /\ Cabeca = conteudo[chamada.fila][1]
           /\ SemRepeticao(conteudo[chamada.fila]) /\ conteudo[chamada.fila] \in Seq(Elems)
           /\ Len(conteudo[chamada.fila]) \in Nat
<1> DEFINE f == chamada.fila
           s == conteudo[f]
<1>1. Formacao(conteudo, cabeca, next, prev)
  BY DEF IInv
<1>2. /\ f \in Filas /\ chamada.elem \in Elems
      /\ \E k \in 1..Len(s) : atual = s[k] /\ \A j \in 1..k : s[j] # chamada.elem
  BY DEF IInv, Caminhada
<1>3. PICK k \in 1..Len(s) : atual = s[k] /\ \A j \in 1..k : s[j] # chamada.elem
  BY <1>2
<1>4. Anel(s, cabeca[f], next, prev) /\ s \in Seq(Elems) /\ SemRepeticao(s) /\ Len(s) \in Nat
  BY <1>1, <1>2, FormacaoFila
<1> HIDE DEF s
<1>5. next[atual] = s[Segue(k, Len(s))] /\ next[atual] \in Elems
  BY <1>3, <1>4, ProximoDe
<1>6. s # <<>>
  BY <1>3, <1>4
<1>7. Cabeca = s[1]
  BY <1>4, <1>6 DEF Anel, Cabeca
<1> QED BY <1>2, <1>3, <1>4, <1>5, <1>7 DEF s

LEMMA PassoRemoveAvanca ==
    ASSUME IInv, RemoveAvanca
    PROVE  IInv' /\ Abstrai
<1> DEFINE f == chamada.fila
           s == conteudo[f]
           e == chamada.elem
<1>1. TypeOK /\ Formacao(conteudo, cabeca, next, prev) /\ NULL \notin Elems
  BY NomesAssumption DEF IInv
<1>2. Em("remove") /\ next[atual] # e /\ UNCHANGED anel
  BY DEF RemoveAvanca
<1>3. f \in Filas /\ e \in Elems /\ Cabeca = s[1] /\ SemRepeticao(s) /\ s \in Seq(Elems)
      /\ Len(s) \in Nat
  BY <1>2, ProximoNoAnel
<1>4. PICK k \in 1..Len(s) :
         /\ atual = s[k] /\ next[atual] \in Elems /\ next[atual] = s[Segue(k, Len(s))]
         /\ \A j \in 1..k : s[j] # e
  BY <1>2, ProximoNoAnel
<1>5. /\ conteudo' = conteudo /\ Formacao(conteudo, cabeca', next', prev')
      /\ cabeca' = cabeca /\ next' = next /\ prev' = prev
  BY <1>2, AnelParado
<1>6. CASE next[atual] = Cabeca
  <2>1. Retorna(-5)
    BY <1>1, <1>4, <1>6 DEF RemoveAvanca
  <2>2. IInv' /\ retorno' = -5
    BY <1>1, <1>5, <2>1, RetornaMantem DEF TypeOK, Codigos
  <2>3. k = Len(s)
    <3>1. Segue(k, Len(s)) \in 1..Len(s) /\ 1 \in 1..Len(s)
      <4>1. Segue(k, Len(s)) \in 1..Len(s)
        BY <1>3, SegueNoAnel
      <4> QED BY <1>3, <4>1
    <3>2. Segue(k, Len(s)) = 1
      BY <1>3, <1>4, <1>6, <3>1 DEF SemRepeticao
    <3> QED BY <1>3, <3>2 DEF Segue
  <2>4. e \notin ToSet(s) /\ s # <<>>
    BY <1>3, <1>4, <2>3, ToSetPosicoes
  <2>5. A!Tira(f, e)
    <3>1. s = [g \in Filas |-> Conteudo(g)][f] /\ f # NULL /\ e # NULL
      BY <1>1, <1>3, NomesAssumption DEF conteudo
    <3>2. A!Falha(-5)
      BY <1>5, <2>2 DEF A!Falha, conteudo
    <3>3. e \notin A!ToSet(s)
      BY <2>4 DEF A!ToSet, ToSet
    <3> QED BY <2>4, <3>1, <3>2, <3>3 DEF A!Tira
  <2>6. Abstrai
    BY <1>3, <2>5 DEF Abstrai, A!Next
  <2> QED BY <2>2, <2>6
<1>7. CASE next[atual] # Cabeca
  <2>1. atual' = next[atual] /\ UNCHANGED <<chamada, contador, impressos, retorno>>
    BY <1>1, <1>4, <1>7 DEF RemoveAvanca
  <2>2. TypeOK'
    BY <1>1, <1>4, <1>5, <2>1 DEF TypeOK
  <2>3. Segue(k, Len(s)) = k + 1 /\ k + 1 \in 1..Len(s)
    BY <1>3, <1>4, <1>7 DEF Segue
  <2>4. \A j \in 1..(k + 1) : s[j] # e
    BY <1>2, <1>4, <2>3
  <2>5. /\ chamada.op = "remove" /\ chamada' = chamada
        /\ \E l \in 1..Len(s) : atual' = s[l] /\ \A j \in 1..l : s[j] # e
    BY <1>2, <1>4, <2>1, <2>3, <2>4 DEF Em
  <2>6. Caminhada'
    BY <1>3, <1>5, <2>5 DEF Caminhada, Em
  <2> QED BY <1>5, <2>1, <2>2, <2>6 DEF IInv, Abstrai
<1> QED BY <1>6, <1>7

LEMMA PassoRemoveAcha ==
    ASSUME IInv, RemoveAcha
    PROVE  IInv' /\ Abstrai
<1> DEFINE f == chamada.fila
           s == conteudo[f]
           e == chamada.elem
<1>1. TypeOK /\ Formacao(conteudo, cabeca, next, prev)
  BY DEF IInv
<1>2. Em("remove") /\ next[atual] = e /\ Desliga(e) /\ cabeca' = cabeca /\ Retorna(0)
  BY DEF RemoveAcha
<1>3. f \in Filas /\ e \in Elems /\ Len(s) \in Nat
  BY <1>2, ProximoNoAnel
<1>4. PICK k \in 1..Len(s) :
         next[atual] = s[Segue(k, Len(s))] /\ \A j \in 1..k : s[j] # e
  BY <1>2, ProximoNoAnel
<1> HIDE DEF s
<1>5. Segue(k, Len(s)) = k + 1 /\ k + 1 \in 1..Len(s) /\ k + 1 # 1 /\ Len(s) > 1
  <2>1. 1 \in 1..k
    BY <1>3
  <2>2. Segue(k, Len(s)) # 1
    BY <1>2, <1>4, <2>1
  <2> QED BY <1>3, <2>2 DEF Segue
<1>6. cabeca' = [cabeca EXCEPT ![f] = IF k + 1 = 1 THEN next[e] ELSE cabeca[f]]
  BY <1>1, <1>2, <1>5 DEF TypeOK
<1>7. s[k + 1] = e
  BY <1>2, <1>4, <1>5
<1> QED BY <1>2, <1>3, <1>5, <1>6, <1>7, PassoDesliga DEF s

LEMMA PassoSizeVazia ==
    ASSUME IInv, NEW f \in Filas, SizeVazia(f)
    PROVE  IInv' /\ Abstrai
<1>1. TypeOK /\ Formacao(conteudo, cabeca, next, prev)
  BY DEF IInv
<1>2. cabeca[f] = NULL /\ Retorna(0) /\ UNCHANGED anel
  BY DEF SizeVazia
<1>3. /\ conteudo' = conteudo /\ Formacao(conteudo, cabeca', next', prev')
      /\ cabeca' = cabeca /\ next' = next /\ prev' = prev
  BY <1>2, AnelParado
<1>4. IInv' /\ retorno' = 0
  BY <1>1, <1>2, <1>3, RetornaMantem, ZeroCodigo DEF TypeOK
<1>5. conteudo[f] = <<>>
  BY <1>1, <1>2, FormacaoFila
<1>6. Abstrai
  BY <1>3, <1>4, <1>5, AbstraiTamanho
<1> QED BY <1>4, <1>6

LEMMA PassoSizeComeca ==
    ASSUME IInv, NEW f \in Filas, SizeComeca(f)
    PROVE  IInv' /\ Abstrai
<1>1. TypeOK /\ Formacao(conteudo, cabeca, next, prev)
  BY DEF IInv
<1>2. /\ UNCHANGED <<anel, impressos, retorno>> /\ atual' = cabeca[f] /\ contador' = 0
      /\ chamada' = [op |-> "size", fila |-> f, elem |-> NULL] /\ cabeca[f] # NULL
  BY DEF SizeComeca, Chama
<1>3. /\ conteudo' = conteudo /\ Formacao(conteudo, cabeca', next', prev')
      /\ cabeca' = cabeca /\ next' = next /\ prev' = prev
  BY <1>2, AnelParado
<1>4. Len(conteudo[f]) >= 1 /\ Len(conteudo[f]) \in Nat /\ cabeca[f] = conteudo[f][1] /\ N \in Nat
  BY <1>1, <1>2, FormacaoFila
<1>5. TypeOK'
  BY <1>1, <1>2, <1>3, <1>4 DEF TypeOK
<1>6. Caminhada'
  <2>1. 0 + 1 \in 1..Len(conteudo[f]) /\ 0 + 1 = 1
    BY <1>4
  <2>2. contador' + 1 \in 1..Len(conteudo[f]) /\ atual' = conteudo[f][contador' + 1]
    BY <1>2, <1>4, <2>1
  <2> QED BY <1>2, <1>3, <2>2 DEF Caminhada, Em
<1> QED BY <1>2, <1>3, <1>5, <1>6 DEF IInv, Abstrai

LEMMA PassoSizeAvanca ==
    ASSUME IInv, SizeAvanca
    PROVE  IInv' /\ Abstrai
<1> DEFINE f == chamada.fila
           s == conteudo[f]
<1>1. TypeOK /\ Formacao(conteudo, cabeca, next, prev)
  BY DEF IInv
<1>2. Em("size") /\ UNCHANGED anel
  BY DEF SizeAvanca
<1>3. f \in Filas /\ contador + 1 \in 1..Len(s) /\ atual = s[contador + 1]
  BY <1>2 DEF IInv, Caminhada
<1>4. /\ conteudo' = conteudo /\ Formacao(conteudo, cabeca', next', prev')
      /\ cabeca' = cabeca /\ next' = next /\ prev' = prev
  BY <1>2, AnelParado
<1>5. /\ Anel(s, cabeca[f], next, prev) /\ s \in Seq(Elems) /\ SemRepeticao(s)
      /\ Len(s) \in Nat /\ Len(s) <= N /\ N \in Nat
  BY <1>1, <1>3, FormacaoFila
<1>6. contador \in Nat
  BY <1>1, <1>5 DEF TypeOK
<1>7. /\ next[atual] = s[Segue(contador + 1, Len(s))] /\ next[atual] \in Elems
      /\ Segue(contador + 1, Len(s)) \in 1..Len(s) /\ 1 \in 1..Len(s)
  <2> HIDE DEF s
  <2>1. PICK k \in 1..Len(s) : k = contador + 1 /\ atual = s[k]
    BY <1>3
  <2>2. next[atual] = s[Segue(k, Len(s))] /\ next[atual] \in Elems
    BY <1>5, <2>1, ProximoDe
  <2>3. Segue(k, Len(s)) \in 1..Len(s)
    BY <1>5, SegueNoAnel
  <2>4. 1 \in 1..Len(s)
    BY <1>3, <1>5, <1>6
  <2> QED BY <2>1, <2>2, <2>3, <2>4
<1>8. Cabeca = s[1]
  <2>1. s # <<>>
    BY <1>3
  <2> QED BY <1>5, <2>1 DEF Anel, Cabeca
<1>9. CASE next[atual] = Cabeca
  <2>1. Retorna(contador + 1)
    BY <1>9 DEF SizeAvanca
  <2>2. contador + 1 = Len(s)
    <3>1. Segue(contador + 1, Len(s)) = 1
      BY <1>5, <1>7, <1>8, <1>9 DEF SemRepeticao
    <3> QED BY <1>3, <1>5, <1>6, <3>1 DEF Segue
  <2>3. contador + 1 \in Codigos
    BY <1>5, <1>6, <2>2 DEF Codigos
  <2>4. IInv' /\ retorno' = contador + 1
    BY <1>1, <1>4, <2>1, <2>3, RetornaMantem DEF TypeOK
  <2>5. Abstrai
    BY <1>3, <1>4, <2>2, <2>4, AbstraiTamanho
  <2> QED BY <2>4, <2>5
<1>10. CASE next[atual] # Cabeca
  <2>1. /\ atual' = next[atual] /\ contador' = contador + 1
        /\ UNCHANGED <<chamada, impressos, retorno>>
    BY <1>10 DEF SizeAvanca
  <2>2. /\ Segue(contador + 1, Len(s)) = contador' + 1
        /\ contador' + 1 \in 1..Len(s) /\ contador' \in 0..N
    BY <1>3, <1>5, <1>6, <1>7, <1>8, <1>10, <2>1 DEF Segue
  <2>3. TypeOK'
    BY <1>1, <1>4, <1>7, <2>1, <2>2 DEF TypeOK
  <2>4. /\ chamada.op = "size" /\ chamada' = chamada /\ atual' = s[contador' + 1]
    BY <1>2, <1>7, <2>1, <2>2 DEF Em
  <2>5. Caminhada'
    BY <1>3, <1>4, <2>2, <2>4 DEF Caminhada, Em
  <2> QED BY <1>4, <2>1, <2>3, <2>5 DEF IInv, Abstrai
<1> QED BY <1>9, <1>10

LEMMA PassoPrintVazia ==
    ASSUME IInv, NEW f \in Filas, PrintVazia(f)
    PROVE  IInv' /\ Abstrai
<1>1. TypeOK /\ Formacao(conteudo, cabeca, next, prev)
  BY DEF IInv
<1>2. /\ impressos' = <<>> /\ chamada' = Nenhuma /\ atual' = NULL
      /\ UNCHANGED <<anel, contador, retorno>>
  BY DEF PrintVazia, FimDaImpressao
<1>3. /\ conteudo' = conteudo /\ Formacao(conteudo, cabeca', next', prev')
      /\ cabeca' = cabeca /\ next' = next /\ prev' = prev
  BY <1>2, AnelParado
<1>4. TypeOK'
  BY <1>1, <1>2, <1>3 DEF TypeOK, Nenhuma
<1>5. Caminhada'
  BY <1>2 DEF Caminhada, Em, Nenhuma
<1> QED BY <1>2, <1>3, <1>4, <1>5 DEF IInv, Abstrai

LEMMA PrefixoVazio ==
    ASSUME NEW S, NEW s \in Seq(S), NEW k, k = 1
    PROVE  SubSeq(s, 1, k - 1) = <<>>
<1>1. PICK m \in Int : m = k - 1
  OBVIOUS
<1>2. m < 1
  BY <1>1
<1>3. SubSeq(s, 1, m) = <<>>
  BY <1>2, SubSeqEmpty, SMT
<1> QED BY <1>1, <1>3, Zenon

LEMMA PassoPrintComeca ==
    ASSUME IInv, NEW f \in Filas, PrintComeca(f)
    PROVE  IInv' /\ Abstrai
<1> DEFINE s == conteudo[f]
<1>1. TypeOK /\ Formacao(conteudo, cabeca, next, prev)
  BY DEF IInv
<1>2. /\ impressos' = <<>> /\ atual' = cabeca[f] /\ cabeca[f] # NULL
      /\ chamada' = [op |-> "print", fila |-> f, elem |-> NULL]
      /\ UNCHANGED <<anel, contador, retorno>>
  BY DEF PrintComeca, Chama
<1>3. /\ conteudo' = conteudo /\ Formacao(conteudo, cabeca', next', prev')
      /\ cabeca' = cabeca /\ next' = next /\ prev' = prev
  BY <1>2, AnelParado
<1>4. Len(s) \in Nat /\ Len(s) >= 1 /\ cabeca[f] = s[1]
  BY <1>1, <1>2, FormacaoFila
<1>5. TypeOK'
  BY <1>1, <1>2, <1>3 DEF TypeOK
<1>6. \E k \in 1..Len(s) : /\ atual' = s[k] /\ impressos' = SubSeq(s, 1, k - 1)
                           /\ k < Len(s) \/ Len(s) = 1
  <2>2. s \in Seq(Elems)
    BY <1>1, FormacaoFila
  <2> HIDE DEF s
  <2>1. PICK k \in 1..Len(s) : k = 1
    BY <1>4
  <2>3. SubSeq(s, 1, k - 1) = <<>>
    BY <2>1, <2>2, PrefixoVazio
  <2>4. (k < Len(s) \/ Len(s) = 1) /\ s[k] = s[1]
    BY <1>4, <2>1, SMTT(30)
  <2> QED BY <1>2, <1>4, <2>3, <2>4
<1>7. Caminhada'
  BY <1>2, <1>3, <1>6 DEF Caminhada, Em
<1> QED BY <1>2, <1>3, <1>5, <1>7 DEF IInv, Abstrai

\* Where queue_print is, and that its test looks two positions ahead.
LEMMA ImpressaoNoAnel ==
    ASSUME IInv, Em("print")
    PROVE  /\ chamada.fila \in Filas /\ conteudo[chamada.fila] \in Seq(Elems)
           /\ Cabeca = conteudo[chamada.fila][1]
           /\ \E k \in 1..Len(conteudo[chamada.fila]) :
                LET s == conteudo[chamada.fila]
                    i == Segue(k, Len(s))
                IN  /\ atual = s[k] /\ impressos = SubSeq(s, 1, k - 1)
                    /\ k < Len(s) \/ Len(s) = 1
                    /\ i \in 1..Len(s) /\ next[atual] = s[i] /\ next[atual] \in Elems
                    /\ next[next[atual]] = s[Segue(i, Len(s))]
                    /\ (next[next[atual]] = Cabeca <=> i = Len(s))
<1> DEFINE f == chamada.fila
           s == conteudo[f]
<1>1. Formacao(conteudo, cabeca, next, prev)
  BY DEF IInv
<1>2. /\ f \in Filas
      /\ \E k \in 1..Len(s) : /\ atual = s[k] /\ impressos = SubSeq(s, 1, k - 1)
                              /\ k < Len(s) \/ Len(s) = 1
  BY DEF IInv, Caminhada
<1>3. PICK k \in 1..Len(s) : /\ atual = s[k] /\ impressos = SubSeq(s, 1, k - 1)
                             /\ k < Len(s) \/ Len(s) = 1
  BY <1>2
<1>4. Anel(s, cabeca[f], next, prev) /\ s \in Seq(Elems) /\ SemRepeticao(s) /\ Len(s) \in Nat
  BY <1>1, <1>2, FormacaoFila
<1> HIDE DEF s
<1>5. s # <<>> /\ 1 \in 1..Len(s)
  BY <1>3, <1>4
<1>6. Cabeca = s[1]
  BY <1>4, <1>5 DEF Anel, Cabeca
<1>7. PICK i \in 1..Len(s) : i = Segue(k, Len(s)) /\ next[atual] = s[i] /\ next[atual] \in Elems
  <2>1. next[atual] = s[Segue(k, Len(s))] /\ next[atual] \in Elems
    BY <1>3, <1>4, ProximoDe
  <2>2. Segue(k, Len(s)) \in 1..Len(s)
    BY <1>4, SegueNoAnel
  <2> QED BY <2>1, <2>2
<1>8. Segue(i, Len(s)) \in 1..Len(s) /\ next[next[atual]] = s[Segue(i, Len(s))]
  <2>1. next[next[atual]] = s[Segue(i, Len(s))]
    BY <1>4, <1>7, ProximoDe
  <2>2. Segue(i, Len(s)) \in 1..Len(s)
    BY <1>4, SegueNoAnel
  <2> QED BY <2>1, <2>2
<1>9. next[next[atual]] = Cabeca <=> Segue(i, Len(s)) = 1
  BY <1>5, <1>6, <1>4, <1>8 DEF SemRepeticao
<1>10. Segue(i, Len(s)) = 1 <=> i = Len(s)
  BY <1>4 DEF Segue
<1> QED BY <1>2, <1>3, <1>4, <1>6, <1>7, <1>8, <1>9, <1>10 DEF s

LEMMA PassoPrintAvanca ==
    ASSUME IInv, PrintAvanca
    PROVE  IInv' /\ Abstrai
<1> DEFINE f == chamada.fila
           s == conteudo[f]
<1>1. TypeOK
  BY DEF IInv
<1>2. /\ Em("print") /\ next[next[atual]] # Cabeca /\ impressos' = Append(impressos, atual)
      /\ atual' = next[atual] /\ UNCHANGED <<anel, chamada, contador, retorno>>
  BY DEF PrintAvanca
<1>3. f \in Filas /\ s \in Seq(Elems) /\ Len(s) \in Nat
  BY <1>2, ImpressaoNoAnel
<1>4. PICK k \in 1..Len(s) :
         /\ atual = s[k] /\ impressos = SubSeq(s, 1, k - 1)
         /\ k < Len(s) \/ Len(s) = 1
         /\ Segue(k, Len(s)) \in 1..Len(s)
         /\ next[atual] = s[Segue(k, Len(s))] /\ next[atual] \in Elems
         /\ (next[next[atual]] = Cabeca <=> Segue(k, Len(s)) = Len(s))
  BY <1>2, ImpressaoNoAnel
<1>5. /\ conteudo' = conteudo /\ Formacao(conteudo, cabeca', next', prev')
      /\ cabeca' = cabeca /\ next' = next /\ prev' = prev
  BY <1>2, AnelParado
<1> HIDE DEF s
<1>6. Segue(k, Len(s)) = k + 1 /\ k + 1 \in 1..Len(s) /\ k + 1 < Len(s)
  BY <1>2, <1>3, <1>4 DEF Segue
<1>7. Append(SubSeq(s, 1, k - 1), s[k]) = SubSeq(s, 1, (k + 1) - 1)
  BY <1>3, AcrescentaPrefixo
<1>8. s[k] \in Elems /\ impressos' \in Seq(Elems)
  <2>1. s[k] \in Elems
    BY <1>3
  <2> QED BY <1>1, <1>2, <1>4, <2>1 DEF TypeOK
<1>9. TypeOK'
  BY <1>1, <1>2, <1>4, <1>5, <1>8 DEF TypeOK
<1>10. \E l \in 1..Len(s) : /\ atual' = s[l] /\ impressos' = SubSeq(s, 1, l - 1)
                            /\ l < Len(s) \/ Len(s) = 1
  BY <1>2, <1>4, <1>6, <1>7
<1>11. Caminhada'
  <2>1. chamada.op = "print" /\ chamada' = chamada /\ s' = s
    BY <1>2, <1>5 DEF Em, s
  <2> QED BY <1>3, <1>10, <2>1 DEF Caminhada, Em, s
<1> QED BY <1>2, <1>5, <1>9, <1>11 DEF IInv, Abstrai

\* What has been printed when queue_print returns.
LEMMA ImpressaoTermina ==
    ASSUME IInv, PrintTermina
    PROVE  /\ impressos' \in Seq(Elems)
           /\ Len(conteudo[chamada.fila]) > 1 => impressos' = conteudo[chamada.fila]
<1> DEFINE f == chamada.fila
           s == conteudo[f]
<1>1. TypeOK
  BY DEF IInv
<1>2. /\ Em("print") /\ next[next[atual]] = Cabeca
      /\ impressos' = impressos \o <<atual, next[atual]>>
  BY DEF PrintTermina
<1>3. f \in Filas /\ s \in Seq(Elems) /\ Len(s) \in Nat
  BY <1>2, ImpressaoNoAnel
<1>4. PICK k \in 1..Len(s) :
         /\ atual = s[k] /\ impressos = SubSeq(s, 1, k - 1)
         /\ k < Len(s) \/ Len(s) = 1
         /\ Segue(k, Len(s)) \in 1..Len(s)
         /\ next[atual] = s[Segue(k, Len(s))] /\ next[atual] \in Elems
         /\ (next[next[atual]] = Cabeca <=> Segue(k, Len(s)) = Len(s))
  BY <1>2, ImpressaoNoAnel
<1> HIDE DEF s
<1>5. s[k] \in Elems /\ <<atual, next[atual]>> \in Seq(Elems)
  <2>1. s[k] \in Elems
    BY <1>3
  <2> QED BY <1>4, <2>1
<1>6. impressos' \in Seq(Elems)
  BY <1>1, <1>2, <1>5, ConcatProperties DEF TypeOK
<1>7. ASSUME Len(s) > 1 PROVE impressos' = s
  <2>1. k < Len(s) /\ Segue(k, Len(s)) = k + 1
    BY <1>3, <1>4, <1>7 DEF Segue
  <2>2. k + 1 = Len(s)
    BY <1>2, <1>4, <2>1
  <2>3. <<atual, next[atual]>> = <<s[k], s[k + 1]>>
    BY <1>4, <2>1
  <2> QED BY <1>2, <1>3, <1>4, <2>2, <2>3, DoisUltimos
<1> QED BY <1>6, <1>7 DEF s

LEMMA PassoPrintTermina ==
    ASSUME IInv, PrintTermina
    PROVE  IInv' /\ Abstrai
<1>1. TypeOK
  BY DEF IInv
<1>2. /\ chamada' = Nenhuma /\ atual' = NULL /\ UNCHANGED <<anel, contador, retorno>>
  BY DEF PrintTermina, FimDaImpressao
<1>3. /\ conteudo' = conteudo /\ Formacao(conteudo, cabeca', next', prev')
      /\ cabeca' = cabeca /\ next' = next /\ prev' = prev
  BY <1>2, AnelParado
<1>4. TypeOK'
  BY <1>1, <1>2, <1>3, ImpressaoTermina DEF TypeOK, Nenhuma
<1>5. Caminhada'
  BY <1>2 DEF Caminhada, Em, Nenhuma
<1> QED BY <1>2, <1>3, <1>4, <1>5 DEF IInv, Abstrai

-----------------------------------------------------------------------------
\* The theorems.

LEMMA Inicio == Init => IInv /\ A!Init
<1> SUFFICES ASSUME Init PROVE IInv /\ A!Init
  OBVIOUS
<1> DEFINE c == [f \in Filas |-> <<>>]
<1>1. /\ cabeca = [f \in Filas |-> NULL] /\ next = [e \in Elems |-> NULL]
      /\ prev = [e \in Elems |-> NULL] /\ chamada = Nenhuma /\ atual = NULL
      /\ contador = 0 /\ impressos = <<>> /\ retorno = 0
  BY DEF Init
<1>2. Formacao(c, cabeca, next, prev)
  <2>1. c \in [Filas -> Seq(Elems)] /\ \A f \in Filas : c[f] = <<>> /\ cabeca[f] = NULL
    BY <1>1
  <2>2. ASSUME NEW f \in Filas PROVE Anel(c[f], cabeca[f], next, prev)
    BY <2>1 DEF Anel, SemRepeticao
  <2> QED BY <1>1, <2>1, <2>2 DEF Formacao
<1>3. conteudo = c
  <2>1. ASSUME NEW f \in Filas PROVE Percurso(cabeca[f], next) = c[f]
    BY <1>2, FormacaoFila, PercursoDoAnel
  <2> QED BY <2>1 DEF conteudo, Conteudo
<1>4. TypeOK
  <2>1. N \in Nat
    BY FS_CardinalityType, NomesAssumption DEF N
  <2> QED BY <1>1, <2>1 DEF TypeOK, Nenhuma
<1>5. Caminhada
  BY <1>1 DEF Caminhada, Em, Nenhuma
<1>6. A!Init
  BY <1>1, <1>3 DEF A!Init, conteudo
<1> QED BY <1>2, <1>3, <1>4, <1>5, <1>6 DEF IInv

LEMMA Passo == IInv /\ [Next]_vars => IInv' /\ Abstrai
<1> SUFFICES ASSUME IInv, [Next]_vars PROVE IInv' /\ Abstrai
  OBVIOUS
<1>1. ASSUME NEW f \in Filas \cup {NULL}, NEW e \in Elems \cup {NULL},
             AppendRecusa(f, e) \/ RemoveRecusa(f, e)
      PROVE  IInv' /\ Abstrai
  BY <1>1, PassoAppendRecusa, PassoRemoveRecusa
<1>2. ASSUME NEW f \in Filas, NEW e \in Elems,
             \/ AppendVazia(f, e) \/ AppendFim(f, e)
             \/ RemoveUnico(f, e) \/ RemoveCabeca(f, e) \/ RemoveComeca(f, e)
      PROVE  IInv' /\ Abstrai
  BY <1>2, PassoAppendVazia, PassoAppendFim, PassoRemoveUnico, PassoRemoveCabeca,
     PassoRemoveComeca
<1>3. ASSUME NEW f \in Filas,
             SizeVazia(f) \/ SizeComeca(f) \/ PrintVazia(f) \/ PrintComeca(f)
      PROVE  IInv' /\ Abstrai
  BY <1>3, PassoSizeVazia, PassoSizeComeca, PassoPrintVazia, PassoPrintComeca
<1>4. CASE Continua
  BY <1>4, PassoRemoveAvanca, PassoRemoveAcha, PassoSizeAvanca, PassoPrintAvanca,
     PassoPrintTermina DEF Continua
<1>5. CASE UNCHANGED vars
  <2>1. /\ conteudo' = conteudo /\ Formacao(conteudo, cabeca', next', prev')
        /\ cabeca' = cabeca /\ next' = next /\ prev' = prev
    BY <1>5, AnelParado DEF vars
  <2>2. UNCHANGED <<chamada, atual, contador, impressos, retorno>>
    BY <1>5 DEF vars
  <2>3. TypeOK' /\ Caminhada'
    BY <2>1, <2>2 DEF IInv, TypeOK, Caminhada, Em
  <2> QED BY <2>1, <2>2, <2>3 DEF IInv, Abstrai
<1> QED BY <1>1, <1>2, <1>3, <1>4, <1>5 DEF Next

\* The invariant of the rings: each queue is the ring of a sequence without
\* repetitions, no two share an element, whatever calls are made.
THEOREM Invariante == Spec => []IInv
<1>1. Init => IInv
  BY Inicio
<1>2. IInv /\ [Next]_vars => IInv'
  BY Passo
<1> QED BY <1>1, <1>2, PTL DEF Spec

\* Every variable has its type, and no call returns the code of a broken ring.
THEOREM TiposDaFila == Spec => []TypeOK
<1>1. IInv => TypeOK
  BY DEF IInv
<1> QED BY <1>1, Invariante, PTL

LEMMA AnelEConteudo ==
    ASSUME IInv
    PROVE  AneisConsistentes
<1>1. Formacao(conteudo, cabeca, next, prev) /\ \A f \in Filas : conteudo[f] = Conteudo(f)
  BY DEF IInv, conteudo
<1>2. \A f \in Filas : conteudo[f] \in Seq(Elems)
  BY <1>1, FormacaoFila
<1>3. ASSUME NEW e \in Elems
      PROVE  IF \E f \in Filas : e \in ToSet(Conteudo(f))
             THEN /\ next[e] # NULL /\ prev[e] # NULL
                  /\ prev[next[e]] = e /\ next[prev[e]] = e
             ELSE next[e] = NULL /\ prev[e] = NULL
  <2>1. CASE \E f \in Filas : e \in ToSet(Conteudo(f))
    <3>0. PICK f \in Filas : \E k \in 1..Len(conteudo[f]) : conteudo[f][k] = e
      BY <1>1, <1>2, <2>1, ToSetPosicoes
    <3>1. PICK k \in 1..Len(conteudo[f]) : conteudo[f][k] = e
      BY <3>0
    <3>2. Anel(conteudo[f], cabeca[f], next, prev) /\ Len(conteudo[f]) \in Nat
      BY <1>1, FormacaoFila
    <3>3. /\ next[e] \in Elems /\ prev[next[e]] = e /\ prev[e] \in Elems /\ next[prev[e]] = e
      BY <3>1, <3>2, VaiEVolta
    <3> QED BY <2>1, <3>3, NomesAssumption
  <2>2. CASE ~ \E f \in Filas : e \in ToSet(Conteudo(f))
    <3>1. ~Dentro(conteudo, e)
      BY <1>1, <1>2, <2>2, ToSetPosicoes DEF Dentro
    <3> QED BY <1>1, <2>2, <3>1 DEF Formacao
  <2> QED BY <2>1, <2>2
<1>4. ASSUME NEW f \in Filas, NEW g \in Filas, f # g
      PROVE  ToSet(Conteudo(f)) \cap ToSet(Conteudo(g)) = {}
  <2> SUFFICES ASSUME NEW e, e \in ToSet(conteudo[f]), e \in ToSet(conteudo[g]) PROVE FALSE
    BY <1>1
  <2>1. \E i \in 1..Len(conteudo[f]) : conteudo[f][i] = e
    BY <1>2, ToSetPosicoes
  <2>2. \E j \in 1..Len(conteudo[g]) : conteudo[g][j] = e
    BY <1>2, ToSetPosicoes
  <2> QED BY <1>1, <1>4, <2>1, <2>2 DEF Formacao
<1> QED BY <1>3, <1>4 DEF AneisConsistentes

\* The rings stay well formed, whatever calls are made: an element is outside
\* all queues with both links NULL, or in one ring whose links are inverse.
THEOREM AneisSempreConsistentes == Spec => []AneisConsistentes
<1>1. IInv => AneisConsistentes
  BY AnelEConteudo
<1> QED BY <1>1, Invariante, PTL

\* queue_append, queue_remove and queue_size do to the rings and return what
\* FilaAbs promises of sequences.
THEOREM FilaImplementa == Spec => ImplementaFila
<1>1. Init => A!Init
  BY Inicio
<1>2. IInv /\ [Next]_vars => [A!Next]_(A!vars)
  <2> SUFFICES ASSUME IInv, [Next]_vars PROVE [A!Next]_(A!vars)
    OBVIOUS
  <2>1. Abstrai
    BY Passo
  <2> QED BY <2>1 DEF Abstrai, A!vars, conteudo
<1> QED BY <1>1, <1>2, Invariante, PTL DEF Spec, ImplementaFila, A!Spec

\* queue_print prints every element of a queue of several once and in order.
THEOREM FilaImprime == Spec => ImprimeVarios
<1>1. ASSUME IInv, [Next]_vars, Em("print"), chamada' = Nenhuma,
             Len(Conteudo(chamada.fila)) > 1
      PROVE  impressos' = Conteudo(chamada.fila)
  <2>1. chamada.fila \in Filas /\ conteudo[chamada.fila] = Conteudo(chamada.fila)
    BY <1>1, ImpressaoNoAnel DEF conteudo
  <2>2. chamada.op = "print" /\ ~Livre /\ chamada' # chamada
    BY <1>1 DEF Em, Livre, Nenhuma
  <2>3. PrintTermina
    BY <1>1, <2>2 DEF Next, vars, AppendRecusa, RemoveRecusa, AppendVazia, AppendFim, RemoveUnico,
       RemoveCabeca, RemoveComeca, SizeVazia, SizeComeca, PrintVazia, PrintComeca, Continua,
       RemoveAvanca, RemoveAcha, SizeAvanca, PrintAvanca, Em
  <2> QED BY <1>1, <2>1, <2>3, ImpressaoTermina
<1>2. IInv /\ [Next]_vars
      => [Em("print") /\ chamada' = Nenhuma /\ Len(Conteudo(chamada.fila)) > 1
          => impressos' = Conteudo(chamada.fila)]_vars
  BY <1>1
<1> QED BY <1>2, Invariante, PTL DEF Spec, ImprimeVarios

-----------------------------------------------------------------------------
\* The append of task_create under preemption: FilaPreempta on the same rings,
\* the ready tasks being all the elements but the caller and the new descriptor.

\* The elements of the rings are the descriptors of FilaPreempta.
Descritores == Elems = Nos

Ligacoes == [cabeca : Elems \cup {NULL},
             next : [Elems -> Elems \cup {NULL}], prev : [Elems -> Elems \cup {NULL}]]

\* The links hold the ring of s and nothing else.
Fechado(s, a) ==
    /\ a \in Ligacoes /\ Anel(s, a.cabeca, a.next, a.prev)
    /\ \A e \in Elems : ~Aparece(s, e) => a.next[e] = NULL /\ a.prev[e] = NULL

\* g is a walk of m steps along next, NULL from where it meets a null pointer.
Percorre(g, m, a) ==
    \A n \in 0..m : g[n] = IF n = 0 THEN a.cabeca
                           ELSE IF g[n - 1] = NULL THEN NULL ELSE a.next[g[n - 1]]

\* There is such a walk, however long.
LEMMA HaCaminho ==
    ASSUME NEW a, NEW m \in Nat
    PROVE  \E g : Percorre(g, m, a)
<1> DEFINE S == {k \in Nat : ~ \E g : Percorre(g, k, a)}
<1>1. ASSUME S # {} PROVE FALSE
  <2>1. PICK k \in S : \A j \in S : k <= j
    <3>1. S \in SUBSET Nat
      OBVIOUS
    <3> HIDE DEF S
    <3> QED BY <1>1, <3>1, Minimo
  <2>2. CASE k = 0
    <3>1. Percorre([n \in {0} |-> a.cabeca], 0, a)
      BY DEF Percorre
    <3> QED BY <2>1, <2>2, <3>1
  <2>3. CASE k > 0
    <3>1. k - 1 \in Nat /\ k - 1 \notin S
      BY <2>1, <2>3
    <3>2. PICK g : Percorre(g, k - 1, a)
      BY <3>1
    <3> DEFINE h == [n \in 0..k |-> IF n < k THEN g[n]
                                    ELSE IF g[k - 1] = NULL THEN NULL ELSE a.next[g[k - 1]]]
    <3>3. ASSUME NEW n \in 0..k
          PROVE  h[n] = IF n = 0 THEN a.cabeca
                        ELSE IF h[n - 1] = NULL THEN NULL ELSE a.next[h[n - 1]]
      <4>1. CASE n = k
        BY <2>1, <2>3, <4>1
      <4>2. CASE n < k
        <5>1. n \in 0..(k - 1) /\ h[n] = g[n]
          BY <2>1, <3>1, <4>2
        <5>2. n # 0 => h[n - 1] = g[n - 1]
          BY <2>1, <4>2
        <5> QED BY <3>2, <5>1, <5>2 DEF Percorre
      <4> QED BY <2>1, <4>1, <4>2
    <3> HIDE DEF h
    <3>4. Percorre(h, k, a)
      BY <3>3 DEF Percorre
    <3> QED BY <2>1, <3>4
  <2> QED BY <2>1, <2>2, <2>3
<1> QED BY <1>1

\* Caminho, a function defined by recursion, is one.
LEMMA CaminhoAnda ==
    ASSUME NEW a, Descritores
    PROVE  N \in Nat /\ Nos = Elems /\ Percorre(Caminho(a), N, a)
<1>0. Nos = Elems
  BY DEF Descritores
<1>1. N \in Nat
  BY NomesAssumption, FS_CardinalityType DEF N
<1> DEFINE Eq(f) == f = [n \in 0..N |-> IF n = 0 THEN a.cabeca
                              ELSE IF f[n - 1] = NULL THEN NULL ELSE a.next[f[n - 1]]]
<1>2. PICK g : Percorre(g, N, a)
  BY <1>1, HaCaminho
<1>3. Eq([n \in 0..N |-> g[n]])
  <2> DEFINE h == [n \in 0..N |-> g[n]]
  <2>1. \A n \in 0..N : h[n] = IF n = 0 THEN a.cabeca
                              ELSE IF h[n - 1] = NULL THEN NULL ELSE a.next[h[n - 1]]
    <3> TAKE n \in 0..N
    <3>1. n = 0 \/ n - 1 \in 0..N
      BY <1>1
    <3> QED BY <1>2, <3>1 DEF Percorre
  <2> QED BY <2>1
<1>4. Caminho(a) = CHOOSE f : Eq(f)
  BY <1>0 DEF Caminho, N
<1> HIDE DEF Eq
<1>5. Eq(Caminho(a))
  BY <1>3, <1>4
<1> QED BY <1>0, <1>1, <1>5 DEF Percorre, Eq

\* The ready tasks in some order are in a ring.
LEMMA AnelInicial ==
    ASSUME Descritores, InitCorte
    PROVE  \E s : Fechado(s, ligas) /\ \A e : Aparece(s, e) <=> e \in Prontas
<1> DEFINE n == Cardinality(Prontas)
           Antes(i) == IF i = 1 THEN n ELSE i - 1
           Posicao(o, t) == CHOOSE i \in 1..n : o[i] = t
<1>0. Nos = Elems /\ Prontas \subseteq Elems /\ NULL \notin Elems
  BY NomesAssumption DEF Nos, Descritores
<1>1. IsFiniteSet(Prontas) /\ n \in Nat
  BY NosAssumption, FS_CardinalityType
<1>3. PICK o \in {f \in [1..n -> Prontas] : \A i, j \in DOMAIN f : f[i] = f[j] => i = j} :
        ligas = [cabeca |-> IF n = 0 THEN NULL ELSE o[1],
                 next |-> [t \in Nos |-> IF t \in Prontas
                             THEN o[Segue(Posicao(o, t), n)] ELSE NULL],
                 prev |-> [t \in Nos |-> IF t \in Prontas
                             THEN o[Antes(Posicao(o, t))] ELSE NULL]]
  BY DEF InitCorte, Segue
<1>4. o \in [1..n -> Prontas] /\ \A i, j \in 1..n : o[i] = o[j] => i = j
  BY <1>3
<1>5. \A t \in Prontas : \E i \in 1..n : o[i] = t
  <2>1. o \in Injection(1..n, Prontas)
    BY <1>4 DEF Injection, IsInjective
  <2>2. Cardinality(1..n) = n
    BY <1>1, FS_Interval
  <2>3. o \in Surjection(1..n, Prontas)
    <3>1. n = Cardinality(Prontas)
      OBVIOUS
    <3> HIDE DEF n
    <3> QED BY <1>1, <2>1, <2>2, <3>1, FS_Injection
  <2> QED BY <2>3 DEF Surjection
<1>6. \A t \in Prontas : Posicao(o, t) \in 1..n /\ o[Posicao(o, t)] = t
  BY <1>5
<1>7. \A i \in 1..n : o[i] \in Prontas /\ Posicao(o, o[i]) = i
  BY <1>4, <1>6
<1>8. \A i \in 1..n : Antes(i) \in 1..n /\ Segue(i, n) \in 1..n /\ Antes(Segue(i, n)) = i
  BY <1>1 DEF Segue
<1>9. /\ ligas.cabeca = IF n = 0 THEN NULL ELSE o[1]
      /\ \A t \in Elems : ligas.next[t] = IF t \in Prontas
                             THEN o[Segue(Posicao(o, t), n)] ELSE NULL
      /\ \A t \in Elems : ligas.prev[t] = IF t \in Prontas
                             THEN o[Antes(Posicao(o, t))] ELSE NULL
  BY <1>0, <1>3
<1>10. ligas \in Ligacoes
  <2>1. n # 0 => o[1] \in Elems
    <3> HIDE DEF n
    <3>1. n # 0 => 1 \in 1..n
      BY <1>1
    <3> QED BY <1>0, <1>4, <3>1
  <2>2. \A t \in Prontas : o[Segue(Posicao(o, t), n)] \in Elems /\ o[Antes(Posicao(o, t))] \in Elems
    BY <1>0, <1>4, <1>6, <1>8
  <2> HIDE DEF n, Posicao, Antes
  <2> QED BY <1>0, <1>3, <2>1, <2>2 DEF Ligacoes
<1> HIDE DEF n, Posicao, Antes
<1>11. o \in Seq(Elems) /\ Len(o) = n /\ SemRepeticao(o)
  <2>1. o \in [1..n -> Elems]
    BY <1>0, <1>4
  <2>2. o \in Seq(Elems) /\ Len(o) = n
    BY <1>1, <2>1
  <2> QED BY <1>4, <2>2 DEF SemRepeticao
<1>12. \A i \in 1..n : ligas.next[o[i]] = o[Segue(i, n)] /\ ligas.prev[o[Segue(i, n)]] = o[i]
  <2> TAKE i \in 1..n
  <2>1. Segue(i, n) \in 1..n /\ Antes(Segue(i, n)) = i
    BY <1>8
  <2>2. o[i] \in Prontas /\ Posicao(o, o[i]) = i /\ o[i] \in Elems
    BY <1>0, <1>7
  <2>3. /\ o[Segue(i, n)] \in Prontas /\ Posicao(o, o[Segue(i, n)]) = Segue(i, n)
        /\ o[Segue(i, n)] \in Elems
    BY <1>0, <1>7, <2>1
  <2>4. ligas.next[o[i]] = o[Segue(i, n)]
    BY <1>9, <2>2
  <2>5. ligas.prev[o[Segue(i, n)]] = o[Antes(Segue(i, n))]
    BY <1>9, <2>3
  <2> QED BY <2>1, <2>4, <2>5
<1>13. o = <<>> <=> n = 0
  BY <1>1, <1>11
<1>14. Anel(o, ligas.cabeca, ligas.next, ligas.prev)
  BY <1>9, <1>11, <1>12, <1>13 DEF Anel
<1>15. \A e : Aparece(o, e) <=> e \in Prontas
  BY <1>5, <1>7, <1>11 DEF Aparece
<1>16. Fechado(o, ligas)
  BY <1>9, <1>10, <1>14, <1>15 DEF Fechado
<1> QED BY <1>15, <1>16

\* The last element of a ring is linked to the first one.
LEMMA UltimoDoAnel ==
    ASSUME NEW s, NEW inicio, NEW nx, NEW pv, Anel(s, inicio, nx, pv), s # <<>>
    PROVE  \E q \in 1..Len(s) : pv[s[1]] = s[q] /\ s[q] \in Elems
<1>1. PICK k \in 1..Len(s) : k = 1
  BY DEF Anel
<1>2. PICK e : e = s[k]
  OBVIOUS
<1>3. \E q \in 1..Len(s) : pv[e] = s[q] /\ s[q] \in Elems
  BY <1>2, AnteriorDe
<1> QED BY <1>1, <1>2, <1>3

\* The head of a ring and its neighbours.
LEMMA CabecaDoAnel ==
    ASSUME NEW s, NEW a, Fechado(s, a)
    PROVE  /\ s \in Seq(Elems) /\ Len(s) \in Nat /\ Len(s) <= N /\ SemRepeticao(s) /\ N \in Nat
           /\ a.cabeca = NULL <=> s = <<>>
           /\ \A e : ~Aparece(<<>>, e)
           /\ \A e : Aparece(s, e) => e \in Elems
           /\ s # <<>> => /\ Len(s) >= 1 /\ a.cabeca = s[1] /\ a.cabeca \in Elems
                          /\ a.prev[a.cabeca] \in Elems
<1>1. /\ s \in Seq(Elems) /\ Len(s) \in Nat /\ SemRepeticao(s) /\ N \in Nat /\ Len(s) <= N
      /\ a.cabeca = IF s = <<>> THEN NULL ELSE s[1]
  BY SemRepeticaoCurta DEF Fechado, Anel
<1>2. \A e : ~Aparece(<<>>, e)
  BY DEF Aparece
<1>3. \A i \in 1..Len(s) : s[i] \in Elems
  BY <1>1
<1>4. ASSUME s # <<>>
      PROVE  Len(s) >= 1 /\ a.cabeca = s[1] /\ a.cabeca \in Elems /\ a.prev[a.cabeca] \in Elems
  <2>1. Len(s) >= 1 /\ a.cabeca = s[1] /\ 1 \in 1..Len(s)
    BY <1>1, <1>4
  <2>2. PICK q \in 1..Len(s) : a.prev[s[1]] = s[q]
    <3>1. Anel(s, a.cabeca, a.next, a.prev)
      BY DEF Fechado
    <3> QED BY <1>4, <3>1, UltimoDoAnel
  <2> QED BY <1>3, <2>1, <2>2
<1>5. a.cabeca = NULL <=> s = <<>>
  BY <1>1, <1>4, NomesAssumption
<1> QED BY <1>1, <1>2, <1>3, <1>4, <1>5 DEF Aparece

\* An element out of the ring is linked at its end.
LEMMA FechadoMaisUm ==
    ASSUME NEW s, NEW a, Fechado(s, a), NEW e \in Elems, ~Aparece(s, e)
    PROVE  \E r : Fechado(r, QueueAppend(a, e)) /\ \A x : Aparece(r, x) <=> (Aparece(s, x) \/ x = e)
<1> DEFINE b == QueueAppend(a, e)
<1>1. /\ a.cabeca \in Elems \cup {NULL}
      /\ a.next \in [Elems -> Elems \cup {NULL}] /\ a.prev \in [Elems -> Elems \cup {NULL}]
      /\ a \in Ligacoes
      /\ Anel(s, a.cabeca, a.next, a.prev) /\ a.next[e] = NULL /\ a.prev[e] = NULL
  BY DEF Fechado, Ligacoes
<1>2. CASE s = <<>>
  <2>1. a.cabeca = NULL
    BY <1>2, CabecaDoAnel
  <2>2. b = [cabeca |-> e, next |-> [a.next EXCEPT ![e] = e], prev |-> [a.prev EXCEPT ![e] = e]]
    BY <1>1, <2>1 DEF QueueAppend
  <2> HIDE DEF b
  <2>3. Anel(<<e>>, b.cabeca, b.next, b.prev)
    <3>1. b.cabeca = e /\ b.next[e] = e /\ b.prev[e] = e
      BY <1>1, <2>2
    <3> QED BY <3>1, AnelUnitario
  <2>4. b \in Ligacoes
    BY <1>1, <2>2 DEF Ligacoes
  <2>5. \A x : Aparece(<<e>>, x) <=> x = e
    <3>1. Len(<<e>>) = 1 /\ <<e>>[1] = e
      OBVIOUS
    <3>2. \A x : Aparece(<<e>>, x) => x = e
      BY <3>1 DEF Aparece
    <3>3. 1 \in 1..Len(<<e>>)
      BY <3>1
    <3> QED BY <3>1, <3>2, <3>3 DEF Aparece
  <2>6. \A x \in Elems : x # e => b.next[x] = NULL /\ b.prev[x] = NULL
    BY <1>1, <1>2, <2>2, CabecaDoAnel DEF Fechado
  <2>7. Fechado(<<e>>, b)
    BY <2>3, <2>4, <2>5, <2>6 DEF Fechado
  <2> QED BY <1>2, <2>5, <2>7, CabecaDoAnel DEF b
<1>3. CASE s # <<>>
  <2> DEFINE r == Append(s, e)
             u == a.prev[a.cabeca]
             h == a.cabeca
  <2>1. /\ h \in Elems /\ u \in Elems /\ s \in Seq(Elems) /\ Len(s) \in Nat /\ Len(s) >= 1
        /\ h = s[1] /\ h # NULL /\ Aparece(s, h)
    <3>1. 1 \in 1..Len(s) /\ a.cabeca = s[1]
      BY <1>3, CabecaDoAnel
    <3> QED BY <1>3, <3>1, CabecaDoAnel, NomesAssumption DEF Aparece
  <2>2. Aparece(s, u)
    <3>3. PICK q \in 1..Len(s) : a.prev[s[1]] = s[q]
      BY <1>1, <1>3, UltimoDoAnel
    <3> QED BY <2>1, <3>3 DEF Aparece
  <2>3. \A i \in 1..Len(s) : s[i] # e
    BY DEF Aparece
  <2>4. Anel(r, h, [a.next EXCEPT ![u] = e, ![e] = h], [a.prev EXCEPT ![h] = e, ![e] = u])
    BY <1>1, <1>3, <2>3, AnelMaisUm
  <2>5. /\ b.cabeca = h /\ b.next = [a.next EXCEPT ![u] = e, ![e] = h]
        /\ b.prev = [a.prev EXCEPT ![h] = e, ![e] = u]
        /\ b \in Ligacoes
    <3>1. b = [a EXCEPT !.next[u] = e, !.next[e] = h, !.prev[h] = e, !.prev[e] = u]
      BY <1>1, <2>1 DEF QueueAppend
    <3> HIDE DEF b, h, u
    <3>2. b = [cabeca |-> a.cabeca, next |-> [a.next EXCEPT ![u] = e, ![e] = h],
               prev |-> [a.prev EXCEPT ![h] = e, ![e] = u]]
      BY <1>1, <2>1, <3>1 DEF Ligacoes
    <3>3. a.cabeca = h
      BY DEF h
    <3> QED BY <1>1, <2>1, <3>2, <3>3 DEF Ligacoes
  <2>6. \A x : Aparece(r, x) <=> (Aparece(s, x) \/ x = e)
    <3>1. Len(r) = Len(s) + 1 /\ r[Len(s) + 1] = e /\ \A i \in 1..Len(s) : r[i] = s[i]
      BY <2>1
    <3> HIDE DEF r
    <3>2. Len(s) + 1 \in 1..Len(r) /\ \A i \in 1..Len(s) : i \in 1..Len(r)
      BY <2>1, <3>1
    <3>3. \A i \in 1..Len(r) : i \in 1..Len(s) \/ i = Len(s) + 1
      BY <2>1, <3>1
    <3> QED BY <3>1, <3>2, <3>3 DEF Aparece
  <2>7. ASSUME NEW x \in Elems, ~Aparece(r, x) PROVE b.next[x] = NULL /\ b.prev[x] = NULL
    <3>1. ~Aparece(s, x) /\ x # e /\ x # h /\ x # u
      BY <2>1, <2>2, <2>6, <2>7
    <3>2. a.next[x] = NULL /\ a.prev[x] = NULL
      BY <3>1 DEF Fechado
    <3> HIDE DEF b, h, u
    <3> QED BY <1>1, <2>1, <2>5, <3>1, <3>2
  <2> HIDE DEF r, h
  <2>8. Fechado(r, b)
    BY <2>4, <2>5, <2>7 DEF Fechado
  <2> QED BY <2>6, <2>8
<1> QED BY <1>2, <1>3

\* An element of the ring is unlinked.
LEMMA FechadoMenosUm ==
    ASSUME NEW s, NEW a, Fechado(s, a), NEW e, Aparece(s, e)
    PROVE  /\ a.prev[e] # NULL
           /\ \E r : /\ Fechado(r, QueueRemove(a, e))
                     /\ \A x : Aparece(r, x) <=> (Aparece(s, x) /\ x # e)
<1> DEFINE b == QueueRemove(a, e)
<1>1. /\ a.cabeca \in Elems \cup {NULL}
      /\ a.next \in [Elems -> Elems \cup {NULL}] /\ a.prev \in [Elems -> Elems \cup {NULL}]
      /\ a \in Ligacoes
      /\ Anel(s, a.cabeca, a.next, a.prev)
  BY DEF Fechado, Ligacoes
<1>2. PICK k \in 1..Len(s) : e = s[k]
  BY DEF Aparece
<1>3. /\ s \in Seq(Elems) /\ Len(s) \in Nat /\ SemRepeticao(s) /\ s # <<>>
      /\ a.cabeca = s[1] /\ a.cabeca \in Elems /\ Len(s) >= 1 /\ NULL \notin Elems
  BY <1>2, CabecaDoAnel, NomesAssumption
<1>4. /\ a.next[e] = s[Segue(k, Len(s))] /\ a.next[e] \in Elems /\ e \in Elems
      /\ Segue(k, Len(s)) \in 1..Len(s)
  <2>1. a.next[e] = s[Segue(k, Len(s))] /\ a.next[e] \in Elems
    BY <1>1, <1>2, ProximoDe
  <2>2. s[k] \in Elems /\ Segue(k, Len(s)) \in 1..Len(s)
    BY <1>3, SegueNoAnel
  <2> QED BY <1>2, <2>1, <2>2
<1>5. PICK q \in 1..Len(s) : a.prev[e] = s[q] /\ s[q] \in Elems
  BY <1>1, <1>2, AnteriorDe
<1>6. CASE Sozinha(a, e)
  <2>1. a.cabeca = e /\ a.next[e] = e
    BY <1>6 DEF Sozinha
  <2>2. Len(s) = 1 /\ s[1] = e
    BY <1>1, <1>4, <2>1, UmSo
  <2>3. b = [cabeca |-> NULL, next |-> [a.next EXCEPT ![e] = NULL],
             prev |-> [a.prev EXCEPT ![e] = NULL]]
    BY <1>6 DEF QueueRemove
  <2> HIDE DEF b
  <2>4. b \in Ligacoes
    BY <1>1, <2>3 DEF Ligacoes
  <2>5. \A x : Aparece(s, x) <=> x = e
    BY <2>2 DEF Aparece
  <2>6. \A x \in Elems : b.next[x] = NULL /\ b.prev[x] = NULL
    <3> TAKE x \in Elems
    <3>1. x # e => a.next[x] = NULL /\ a.prev[x] = NULL
      BY <2>5 DEF Fechado
    <3>2. /\ b.next[x] = IF x = e THEN NULL ELSE a.next[x]
          /\ b.prev[x] = IF x = e THEN NULL ELSE a.prev[x]
      BY <1>1, <1>4, <2>3
    <3> QED BY <3>1, <3>2
  <2>7. Anel(<<>>, b.cabeca, b.next, b.prev)
    BY <2>3 DEF Anel, SemRepeticao
  <2>8. \A x : ~Aparece(<<>>, x)
    BY DEF Aparece
  <2>9. Fechado(<<>>, b)
    BY <2>4, <2>6, <2>7 DEF Fechado
  <2> QED BY <1>3, <1>5, <2>5, <2>8, <2>9 DEF b
<1>7. CASE ~Sozinha(a, e)
  <2> DEFINE r == RemoveAt(s, k)
             nx2 == [a.next EXCEPT ![a.prev[e]] = a.next[e], ![e] = NULL]
             pv2 == [a.prev EXCEPT ![a.next[e]] = a.prev[e], ![e] = NULL]
  <2>1. Len(s) > 1
    <3>1. Len(s) # 1
      <4> SUFFICES ASSUME Len(s) = 1 PROVE FALSE
        OBVIOUS
      <4>1. k = 1 /\ Segue(k, Len(s)) = 1
        BY <1>2 DEF Segue
      <4> QED BY <1>2, <1>3, <1>4, <1>7, <4>1 DEF Sozinha
    <3>2. PICK l \in Nat : l = Len(s) /\ l >= 1
      BY <1>3
    <3>3. l > 1
      BY <3>1, <3>2
    <3> QED BY <3>2, <3>3
  <2>2. Anel(r, IF k = 1 THEN a.next[e] ELSE a.cabeca, nx2, pv2)
    BY <1>1, <1>2, <2>1, AnelMenosUm
  <2>3. a.cabeca = e <=> k = 1
    BY <1>2, <1>3 DEF SemRepeticao
  <2>4. b = [cabeca |-> IF k = 1 THEN a.next[e] ELSE a.cabeca, next |-> nx2, prev |-> pv2]
    BY <1>7, <2>3 DEF QueueRemove
  <2>5. nx2 \in [Elems -> Elems \cup {NULL}] /\ pv2 \in [Elems -> Elems \cup {NULL}]
    BY <1>1, <1>4, <1>5
  <2> HIDE DEF b
  <2>6. b \in Ligacoes /\ b.next = nx2 /\ b.prev = pv2
        /\ b.cabeca = IF k = 1 THEN a.next[e] ELSE a.cabeca
    <3> HIDE DEF nx2, pv2
    <3> QED BY <1>1, <1>4, <2>4, <2>5 DEF Ligacoes
  <2>7. \A x : Aparece(r, x) <=> (Aparece(s, x) /\ x # e)
    <3>1. \A x : Aparece(r, x) <=> ApareceFora(s, k, x)
      BY <1>3, RemoveAtRestam
    <3>2. \A i \in 1..Len(s) : i # k <=> s[i] # e
      BY <1>2, <1>3 DEF SemRepeticao
    <3> QED BY <3>1, <3>2 DEF Aparece, ApareceFora
  <2>8. ASSUME NEW x \in Elems, ~Aparece(r, x) PROVE b.next[x] = NULL /\ b.prev[x] = NULL
    <3>1. CASE x = e
      BY <1>1, <1>4, <1>5, <2>6, <3>1
    <3>2. CASE x # e
      <4>1. ~Aparece(s, x)
        BY <2>7, <2>8, <3>2
      <4>2. x # a.next[e] /\ x # a.prev[e]
        BY <1>4, <1>5, <4>1 DEF Aparece
      <4>3. a.next[x] = NULL /\ a.prev[x] = NULL
        BY <4>1 DEF Fechado
      <4>4. nx2[x] = a.next[x] /\ pv2[x] = a.prev[x]
        BY <1>1, <3>2, <4>2
      <4> QED BY <2>6, <4>3, <4>4
    <3> QED BY <3>1, <3>2
  <2> HIDE DEF r, nx2, pv2
  <2>9. Fechado(r, b)
    BY <2>2, <2>6, <2>8 DEF Fechado
  <2> QED BY <1>3, <1>5, <2>7, <2>9 DEF b
<1> QED BY <1>6, <1>7

\* scheduler() walks round the ring and meets its elements only.
LEMMA CaminhoDoAnel ==
    ASSUME Descritores, NEW s, NEW a, Fechado(s, a)
    PROVE  /\ s # <<>> => Volta(a)
           /\ \A e : e \in Alcancadas(a) <=> Aparece(s, e)
<1> DEFINE f == Caminho(a)
<1>1. N \in Nat /\ Nos = Elems /\ Percorre(f, N, a)
  BY CaminhoAnda
<1>2. Cardinality(Nos) = N
  BY <1>1 DEF N
<1>3. /\ Volta(a) <=> \E n \in 1..N : f[n] = a.cabeca
      /\ Alcancadas(a) = {f[n] : n \in 0..N} \ {NULL}
  BY <1>2 DEF Volta, Alcancadas
<1> HIDE DEF f
<1>4. \A n \in 0..N : f[n] = IF n = 0 THEN a.cabeca
                             ELSE IF f[n - 1] = NULL THEN NULL ELSE a.next[f[n - 1]]
  BY <1>1 DEF Percorre
<1>5. CASE s = <<>>
  <2>1. a.cabeca = NULL /\ \A e : ~Aparece(s, e)
    BY <1>5, CabecaDoAnel
  <2> DEFINE S == {n \in 0..N : f[n] # NULL}
  <2>2. ASSUME S # {} PROVE FALSE
    <3>1. PICK m \in S : \A k \in S : m <= k
      <4>1. S \in SUBSET Nat
        OBVIOUS
      <4> HIDE DEF S
      <4> QED BY <2>2, <4>1, Minimo
    <3>2. m \in 0..N /\ m # 0 /\ m - 1 \in 0..N /\ m - 1 \notin S
      BY <1>1, <1>4, <2>1, <3>1
    <3> QED BY <1>4, <3>1, <3>2
  <2> QED BY <1>3, <1>5, <2>1, <2>2
<1>6. CASE s # <<>>
  <2>1. /\ Len(s) \in Nat /\ Len(s) >= 1 /\ Len(s) <= N /\ a.cabeca = s[1] /\ NULL \notin Elems
        /\ SemRepeticao(s)
        /\ \A i \in 1..Len(s) : s[i] \in Elems /\ s[i] # NULL
        /\ \A i \in 1..Len(s) : Segue(i, Len(s)) \in 1..Len(s)
    <3>1. /\ Len(s) \in Nat /\ Len(s) >= 1 /\ Len(s) <= N /\ a.cabeca = s[1] /\ NULL \notin Elems
          /\ SemRepeticao(s) /\ s \in Seq(Elems)
      BY <1>6, CabecaDoAnel, NomesAssumption
    <3>2. \A i \in 1..Len(s) : s[i] \in Elems /\ s[i] # NULL
      BY <3>1
    <3> QED BY <3>1, <3>2, SegueNoAnel
  <2>2. \A i \in 1..Len(s) : a.next[s[i]] = s[Segue(i, Len(s))]
    BY DEF Fechado, Anel
  <2> DEFINE S == {n \in 0..(Len(s) - 1) : f[n] # s[n + 1]}
             T == {n \in 0..N : ~Aparece(s, f[n])}
  <2>3. ASSUME S # {} PROVE FALSE
    <3>1. PICK m \in S : \A k \in S : m <= k
      <4>1. S \in SUBSET Nat
        OBVIOUS
      <4> HIDE DEF S
      <4> QED BY <2>3, <4>1, Minimo
    <3>2. m \in 0..N /\ m # 0 /\ m - 1 \in 0..(Len(s) - 1) /\ m - 1 \notin S /\ m \in 1..(Len(s) - 1)
      BY <1>1, <1>4, <2>1, <3>1, SMTT(30)
    <3>3. f[m - 1] = s[m] /\ m \in 1..Len(s)
      BY <3>2, <2>1
    <3>4. f[m] = a.next[s[m]]
      BY <1>4, <2>1, <3>2, <3>3
    <3>5. Segue(m, Len(s)) = m + 1
      BY <2>1, <3>2 DEF Segue
    <3> QED BY <2>2, <3>1, <3>3, <3>4, <3>5
  <2>4. ASSUME T # {} PROVE FALSE
    <3>1. PICK m \in T : \A k \in T : m <= k
      <4>1. T \in SUBSET Nat
        OBVIOUS
      <4> HIDE DEF T
      <4> QED BY <2>4, <4>1, Minimo
    <3>2. m # 0
      <4>1. 1 \in 1..Len(s) /\ f[0] = s[1]
        BY <1>1, <1>4, <2>1
      <4> QED BY <3>1, <4>1 DEF Aparece
    <3>3. m \in 0..N /\ m - 1 \in 0..N /\ m - 1 \notin T
      BY <1>1, <3>1, <3>2
    <3>4. PICK i \in 1..Len(s) : s[i] = f[m - 1]
      BY <3>3 DEF Aparece
    <3>5. f[m] = s[Segue(i, Len(s))]
      BY <1>4, <2>1, <2>2, <3>2, <3>3, <3>4
    <3> QED BY <2>1, <3>1, <3>5 DEF Aparece
  <2>5. ASSUME NEW e, Aparece(s, e) PROVE e \in Alcancadas(a)
    <3>1. PICK i \in 1..Len(s) : s[i] = e
      BY <2>5 DEF Aparece
    <3>2. i - 1 \in 0..(Len(s) - 1) /\ i - 1 \in 0..N /\ (i - 1) + 1 = i
      BY <1>1, <2>1
    <3>3. f[i - 1] = e
      BY <2>3, <3>1, <3>2
    <3> QED BY <1>3, <2>1, <3>1, <3>2, <3>3
  <2>6. ASSUME NEW e, e \in Alcancadas(a) PROVE Aparece(s, e)
    BY <1>3, <2>4, <2>6
  <2>7. Volta(a)
    <3>1. Len(s) - 1 \in 0..(Len(s) - 1) /\ Len(s) \in 1..N /\ Len(s) \in 0..N /\ Len(s) \in 1..Len(s)
          /\ (Len(s) - 1) + 1 = Len(s) /\ Len(s) # 0
      BY <1>1, <2>1
    <3>2. f[Len(s) - 1] = s[Len(s)] /\ s[Len(s)] # NULL
      BY <2>1, <2>3, <3>1
    <3>3. f[Len(s)] = a.next[s[Len(s)]]
      BY <1>4, <3>1, <3>2
    <3>4. Segue(Len(s), Len(s)) = 1
      BY DEF Segue
    <3>5. f[Len(s)] = a.cabeca
      BY <2>1, <2>2, <3>1, <3>3, <3>4
    <3> QED BY <1>3, <3>1, <3>5
  <2> QED BY <2>5, <2>6, <2>7
<1> QED BY <1>5, <1>6

-----------------------------------------------------------------------------
\* The invariant of the preempted append.

\* The links that queue_append has made so far, from those of a.
Parcial(a) ==
    ligas = CASE pc = "82" -> [cabeca |-> Nova, next |-> a.next, prev |-> a.prev]
              [] pc = "83" -> [cabeca |-> Nova, next |-> [a.next EXCEPT ![Nova] = Nova],
                               prev |-> a.prev]
              [] pc = "89" -> [cabeca |-> a.cabeca, next |-> [a.next EXCEPT ![ultimo] = Nova],
                               prev |-> a.prev]
              [] pc = "90" -> [cabeca |-> a.cabeca, next |-> [a.next EXCEPT ![ultimo] = Nova],
                               prev |-> [a.prev EXCEPT ![primeiro] = Nova]]
              [] pc = "91" -> [cabeca |-> a.cabeca,
                               next |-> [a.next EXCEPT ![ultimo] = Nova, ![Nova] = primeiro],
                               prev |-> [a.prev EXCEPT ![primeiro] = Nova]]
              [] OTHER -> a

\* Who runs and who has ended.  Until the append returns the new task is in
\* nobody's hands, and between its stores its caller keeps the processor.
Quem ==
    /\ erro = "nao" /\ rodando \in Elems \cup {NULL}
    /\ terminadas \subseteq Elems /\ rodando \notin terminadas
    /\ primeiro \in Elems \cup {NULL} /\ ultimo \in Elems \cup {NULL}
    /\ pc # "retornou 0" => rodando # Nova /\ Nova \notin terminadas /\ Criador \notin terminadas
    /\ pc \in MeioLigado => rodando = Criador

\* What the locals of queue_append say of filaProntas: before the first store of
\* an append to an empty queue there is nobody left to fill it.
Lido ==
    /\ pc \in {"81", "82", "83"} => Elems \ {Criador, Nova} \subseteq terminadas
    /\ pc \in {"87", "88", "89", "90", "91"} => primeiro # NULL
    /\ pc \in {"88", "89", "90", "91"} => ultimo # NULL
    /\ rodando = Criador => ~LeituraVelha

\* s is the ring a of the tasks filaProntas must hold, before the append.
Ligado(s, a) ==
    /\ Fechado(s, a) /\ \A e : Aparece(s, e) <=> e \in Esperadas
    /\ Parcial(a)
    /\ pc \in {"82", "83"} => a.cabeca = NULL
    /\ pc \in {"89", "90", "91"} => a.cabeca = primeiro /\ a.prev[primeiro] = ultimo

\* The inductive invariant.  CorteInofensivo says nothing between two stores of
\* the append, nor of its locals, so it does not survive its last store.
CorteInv == ~perigo => Quem /\ Lido /\ \E s, a : Ligado(s, a)

\* Who must be in filaProntas, before and after a step.
LEMMA EsperadasDef ==
    ASSUME Descritores
    PROVE  /\ \A e : e \in Esperadas <=> /\ e \in Elems /\ e # rodando /\ e \notin terminadas
                                         /\ pc = "retornou 0" \/ e # Nova
           /\ MeioLigado = {"82", "83", "89", "90", "91"} /\ Retornou = "retornou 0"
           /\ NULL \notin Elems /\ Nos = Elems /\ Prontas = Elems \ {Criador, Nova}
           /\ Criador \in Elems /\ Nova \in Elems /\ Criador # Nova
<1>1. Nos = Elems
  BY DEF Descritores
<1>2. /\ Prontas = Elems \ {Criador, Nova}
      /\ Criador \in Elems /\ Nova \in Elems /\ Criador # Nova
  BY <1>1, NosAssumption DEF Nos
<1> QED BY <1>1, <1>2, NomesAssumption DEF Esperadas, MeioLigado, Retornou

LEMMA EsperadasDepois ==
    ASSUME Descritores
    PROVE  /\ \A e : e \in Esperadas' <=> /\ e \in Elems /\ e # rodando' /\ e \notin terminadas'
                                          /\ pc' = "retornou 0" \/ e # Nova
<1>1. Nos = Elems
  BY DEF Descritores
<1> QED BY <1>1 DEF Esperadas, Retornou

\* Away from the stores the links are those of the ring.
LEMMA ForaDoMeio ==
    ASSUME Descritores, NEW s, NEW a, Ligado(s, a), pc \notin MeioLigado
    PROVE  a = ligas /\ Fechado(s, ligas)
  BY EsperadasDef DEF Ligado, Parcial

-----------------------------------------------------------------------------
\* Each step keeps the invariant.

LEMMA CorteAppendTesta ==
    ASSUME Descritores, CorteInv, AppendTesta
    PROVE  CorteInv'
<1> SUFFICES ASSUME ~perigo' PROVE (Quem /\ Lido /\ \E s, a : Ligado(s, a))'
  BY DEF CorteInv
<1>1. /\ erro' = "nao" /\ erro = "nao" /\ rodando = Criador /\ rodando' = rodando /\ pc = "testa"
      /\ terminadas' = terminadas /\ ligas' = ligas /\ primeiro' = primeiro /\ ultimo' = ultimo
      /\ pc' = IF ligas.cabeca = NULL THEN "81" ELSE "86"
      /\ perigo' = perigo
  BY DEF AppendTesta, Comando
<1>2. Quem /\ Lido /\ ~perigo
  BY <1>1 DEF CorteInv
<1>3. PICK s, a : Ligado(s, a)
  BY <1>1 DEF CorteInv
<1>4. a = ligas /\ Fechado(s, ligas)
  BY <1>1, <1>3, EsperadasDef, ForaDoMeio
<1>5. Quem'
  BY <1>1, <1>2, EsperadasDef DEF Quem, MeioLigado
<1>6. Lido'
  <2>1. ligas.cabeca = NULL => Elems \ {Criador, Nova} \subseteq terminadas
    <3> SUFFICES ASSUME ligas.cabeca = NULL, NEW e \in Elems, e # Criador, e # Nova
                 PROVE  e \in terminadas
      OBVIOUS
    <3>1. ~Aparece(s, e)
      BY <1>4, CabecaDoAnel
    <3> QED BY <1>1, <1>3, <3>1, EsperadasDef DEF Ligado
  <2> QED BY <1>1, <2>1 DEF Lido, LeituraVelha
<1>7. Ligado(s, a)'
  BY <1>1, <1>3, <1>4, EsperadasDef, EsperadasDepois DEF Ligado, Parcial
<1> QED BY <1>5, <1>6, <1>7

LEMMA CorteAppendPrimeira ==
    ASSUME Descritores, CorteInv, AppendPrimeira
    PROVE  CorteInv'
<1> SUFFICES ASSUME ~perigo' PROVE (Quem /\ Lido /\ \E s, a : Ligado(s, a))'
  BY DEF CorteInv
<1>1. /\ erro' = "nao" /\ erro = "nao" /\ rodando = Criador /\ rodando' = rodando /\ pc = "81"
      /\ terminadas' = terminadas /\ primeiro' = primeiro /\ ultimo' = ultimo
      /\ pc' = "82" /\ perigo' = perigo
      /\ ligas' = [ligas EXCEPT !.cabeca = Nova]
  BY DEF AppendPrimeira, Comando
<1>2. Quem /\ Lido /\ ~perigo
  BY <1>1 DEF CorteInv
<1>3. PICK s, a : Ligado(s, a)
  BY <1>1 DEF CorteInv
<1>4. a = ligas /\ Fechado(s, ligas)
  BY <1>1, <1>3, EsperadasDef, ForaDoMeio
<1>5. Quem'
  BY <1>1, <1>2, EsperadasDef DEF Quem, MeioLigado
<1>6. Lido'
  BY <1>1, <1>2 DEF Lido, LeituraVelha
<1>7. s = <<>> /\ ligas.cabeca = NULL
  <2>1. ASSUME s # <<>> PROVE FALSE
    <3>1. Aparece(s, s[1])
      BY <1>4, <2>1, CabecaDoAnel DEF Aparece
    <3> QED BY <1>1, <1>2, <1>3, <3>1, EsperadasDef DEF Ligado, Lido
  <2> QED BY <1>4, <2>1, CabecaDoAnel
<1>8. Ligado(s, a)'
  <2>1. ligas' = [cabeca |-> Nova, next |-> a.next, prev |-> a.prev]
    BY <1>1, <1>4 DEF Fechado, Ligacoes
  <2>2. Parcial(a)'
    BY <1>1, <2>1 DEF Parcial
  <2> QED BY <1>1, <1>3, <1>4, <1>7, <2>2, EsperadasDef, EsperadasDepois DEF Ligado
<1> QED BY <1>5, <1>6, <1>8

LEMMA CorteAppendPrimeiraNext ==
    ASSUME Descritores, CorteInv, AppendPrimeiraNext
    PROVE  CorteInv'
<1> SUFFICES ASSUME ~perigo' PROVE (Quem /\ Lido /\ \E s, a : Ligado(s, a))'
  BY DEF CorteInv
<1>1. /\ erro' = "nao" /\ erro = "nao" /\ rodando = Criador /\ rodando' = rodando /\ pc = "82"
      /\ terminadas' = terminadas /\ primeiro' = primeiro /\ ultimo' = ultimo
      /\ pc' = "83" /\ perigo' = perigo
      /\ ligas' = [ligas EXCEPT !.next[ligas.cabeca] = Nova]
  BY DEF AppendPrimeiraNext, Comando
<1>2. Quem /\ Lido /\ ~perigo
  BY <1>1 DEF CorteInv
<1>3. PICK s, a : Ligado(s, a)
  BY <1>1 DEF CorteInv
<1>5. Quem'
  BY <1>1, <1>2, EsperadasDef DEF Quem, MeioLigado
<1>6. Lido'
  BY <1>1, <1>2 DEF Lido, LeituraVelha
<1>7. ligas = [cabeca |-> Nova, next |-> a.next, prev |-> a.prev]
  BY <1>1, <1>3 DEF Ligado, Parcial
<1>8. Ligado(s, a)'
  <2>1. ligas' = [cabeca |-> Nova, next |-> [a.next EXCEPT ![Nova] = Nova], prev |-> a.prev]
    BY <1>1, <1>7
  <2>2. Parcial(a)'
    BY <1>1, <2>1 DEF Parcial
  <2> QED BY <1>1, <1>3, <2>2, EsperadasDef, EsperadasDepois DEF Ligado
<1> QED BY <1>5, <1>6, <1>8

LEMMA CorteAppendPrimeiraPrev ==
    ASSUME Descritores, CorteInv, AppendPrimeiraPrev
    PROVE  CorteInv'
<1> SUFFICES ASSUME ~perigo' PROVE (Quem /\ Lido /\ \E s, a : Ligado(s, a))'
  BY DEF CorteInv
<1>1. /\ erro' = "nao" /\ erro = "nao" /\ rodando = Criador /\ rodando' = rodando /\ pc = "83"
      /\ terminadas' = terminadas /\ primeiro' = primeiro /\ ultimo' = ultimo
      /\ pc' = "retornou 0" /\ perigo' = perigo
      /\ ligas' = [ligas EXCEPT !.prev[ligas.cabeca] = Nova]
  BY DEF AppendPrimeiraPrev, Comando, Retornou
<1>2. Quem /\ Lido /\ ~perigo
  BY <1>1 DEF CorteInv
<1>3. PICK s, a : Ligado(s, a)
  BY <1>1 DEF CorteInv
<1>5. Quem'
  BY <1>1, <1>2, EsperadasDef DEF Quem, MeioLigado
<1>6. Lido'
  BY <1>1, <1>2 DEF Lido, LeituraVelha
<1>7. ligas = [cabeca |-> Nova, next |-> [a.next EXCEPT ![Nova] = Nova], prev |-> a.prev]
  BY <1>1, <1>3 DEF Ligado, Parcial
<1>8. ligas' = [cabeca |-> Nova, next |-> [a.next EXCEPT ![Nova] = Nova],
                prev |-> [a.prev EXCEPT ![Nova] = Nova]]
  BY <1>1, <1>7
<1>9. Fechado(s, a) /\ ~Aparece(s, Nova) /\ a.cabeca = NULL /\ a.next[Nova] = NULL /\ a.prev[Nova] = NULL
  BY <1>1, <1>3, EsperadasDef DEF Ligado, Fechado
<1>10. QueueAppend(a, Nova) = ligas'
  BY <1>8, <1>9 DEF QueueAppend
<1>11. PICK r : Fechado(r, ligas') /\ \A x : Aparece(r, x) <=> (Aparece(s, x) \/ x = Nova)
  <2>1. Nova \in Elems
    BY EsperadasDef
  <2> QED BY <1>9, <1>10, <2>1, FechadoMaisUm
<1>12. \A x : Aparece(r, x) <=> x \in Esperadas'
  BY <1>1, <1>2, <1>3, <1>11, EsperadasDef, EsperadasDepois DEF Ligado, Quem
<1>13. Ligado(r, ligas)'
  BY <1>1, <1>11, <1>12 DEF Ligado, Parcial
<1> QED BY <1>5, <1>6, <1>13

LEMMA CorteAppendLePrimeiro ==
    ASSUME Descritores, CorteInv, AppendLePrimeiro
    PROVE  CorteInv'
<1> SUFFICES ASSUME ~perigo' PROVE (Quem /\ Lido /\ \E s, a : Ligado(s, a))'
  BY DEF CorteInv
<1>1. /\ erro' = "nao" /\ erro = "nao" /\ rodando = Criador /\ rodando' = rodando /\ pc = "86"
      /\ terminadas' = terminadas /\ primeiro' = ligas.cabeca /\ ultimo' = ultimo
      /\ pc' = "87" /\ perigo' = perigo
      /\ ligas' = ligas
  BY DEF AppendLePrimeiro, Comando, Retornou
<1>2. Quem /\ Lido /\ ~perigo
  BY <1>1 DEF CorteInv
<1>3. PICK s, a : Ligado(s, a)
  BY <1>1 DEF CorteInv
<1>4. a = ligas /\ Fechado(s, ligas)
  BY <1>1, <1>3, EsperadasDef, ForaDoMeio
<1>5. ligas.cabeca # NULL /\ ligas.cabeca \in Elems
  <2>1. ligas.cabeca # NULL
    BY <1>1, <1>2 DEF Lido, LeituraVelha
  <2> QED BY <1>4, <2>1, CabecaDoAnel
<1>6. Quem'
  BY <1>1, <1>2, <1>5, EsperadasDef DEF Quem, MeioLigado
<1>7. Lido'
  BY <1>1, <1>2, <1>5 DEF Lido, LeituraVelha
<1>8. Ligado(s, a)'
  BY <1>1, <1>3, <1>4, EsperadasDef, EsperadasDepois DEF Ligado, Parcial
<1> QED BY <1>6, <1>7, <1>8

LEMMA CorteAppendLeUltimo ==
    ASSUME Descritores, CorteInv, AppendLeUltimo
    PROVE  CorteInv'
<1> SUFFICES ASSUME ~perigo' PROVE (Quem /\ Lido /\ \E s, a : Ligado(s, a))'
  BY DEF CorteInv
<1>1. /\ erro' = "nao" /\ erro = "nao" /\ rodando = Criador /\ rodando' = rodando /\ pc = "87"
      /\ terminadas' = terminadas /\ primeiro' = primeiro /\ ultimo' = ligas.prev[primeiro]
      /\ pc' = "88" /\ perigo' = perigo
      /\ ligas' = ligas
  BY DEF AppendLeUltimo, Comando, Retornou
<1>2. Quem /\ Lido /\ ~perigo
  BY <1>1 DEF CorteInv
<1>3. PICK s, a : Ligado(s, a)
  BY <1>1 DEF CorteInv
<1>4. a = ligas /\ Fechado(s, ligas)
  BY <1>1, <1>3, EsperadasDef, ForaDoMeio
<1>5. ligas.cabeca = primeiro /\ primeiro # NULL
  BY <1>1, <1>2 DEF Lido, LeituraVelha
<1>6. ligas.prev[primeiro] \in Elems /\ NULL \notin Elems
  BY <1>4, <1>5, CabecaDoAnel, NomesAssumption
<1>7. Quem'
  BY <1>1, <1>2, <1>6, EsperadasDef DEF Quem, MeioLigado
<1>8. Lido'
  BY <1>1, <1>2, <1>5, <1>6 DEF Lido, LeituraVelha
<1>9. Ligado(s, a)'
  BY <1>1, <1>3, <1>4, EsperadasDef, EsperadasDepois DEF Ligado, Parcial
<1> QED BY <1>7, <1>8, <1>9

LEMMA CorteAppendLigaUltimo ==
    ASSUME Descritores, CorteInv, AppendLigaUltimo
    PROVE  CorteInv'
<1> SUFFICES ASSUME ~perigo' PROVE (Quem /\ Lido /\ \E s, a : Ligado(s, a))'
  BY DEF CorteInv
<1>1. /\ erro' = "nao" /\ erro = "nao" /\ rodando = Criador /\ rodando' = rodando /\ pc = "88"
      /\ terminadas' = terminadas /\ primeiro' = primeiro /\ ultimo' = ultimo
      /\ pc' = "89" /\ perigo' = perigo
      /\ ligas' = [ligas EXCEPT !.next[ultimo] = Nova]
  BY DEF AppendLigaUltimo, Comando, Retornou
<1>2. Quem /\ Lido /\ ~perigo
  BY <1>1 DEF CorteInv
<1>3. PICK s, a : Ligado(s, a)
  BY <1>1 DEF CorteInv
<1>4. a = ligas /\ Fechado(s, ligas)
  BY <1>1, <1>3, EsperadasDef, ForaDoMeio
<1>5. Quem'
  BY <1>1, <1>2, EsperadasDef DEF Quem, MeioLigado
<1>6. Lido'
  BY <1>1, <1>2 DEF Lido, LeituraVelha
<1>7. a.cabeca = primeiro /\ a.prev[primeiro] = ultimo
  BY <1>1, <1>2, <1>4 DEF Lido, LeituraVelha
<1>8. ligas' = [cabeca |-> a.cabeca, next |-> [a.next EXCEPT ![ultimo] = Nova], prev |-> a.prev]
  BY <1>1, <1>4 DEF Fechado, Ligacoes
<1>9. Parcial(a)'
  BY <1>1, <1>8 DEF Parcial
<1>10. Ligado(s, a)'
  BY <1>1, <1>3, <1>7, <1>9, EsperadasDef, EsperadasDepois DEF Ligado
<1> QED BY <1>5, <1>6, <1>10

LEMMA CorteAppendLigaPrimeiro ==
    ASSUME Descritores, CorteInv, AppendLigaPrimeiro
    PROVE  CorteInv'
<1> SUFFICES ASSUME ~perigo' PROVE (Quem /\ Lido /\ \E s, a : Ligado(s, a))'
  BY DEF CorteInv
<1>1. /\ erro' = "nao" /\ erro = "nao" /\ rodando = Criador /\ rodando' = rodando /\ pc = "89"
      /\ terminadas' = terminadas /\ primeiro' = primeiro /\ ultimo' = ultimo
      /\ pc' = "90" /\ perigo' = perigo
      /\ ligas' = [ligas EXCEPT !.prev[primeiro] = Nova]
  BY DEF AppendLigaPrimeiro, Comando, Retornou
<1>2. Quem /\ Lido /\ ~perigo
  BY <1>1 DEF CorteInv
<1>3. PICK s, a : Ligado(s, a)
  BY <1>1 DEF CorteInv
<1>5. Quem'
  BY <1>1, <1>2, EsperadasDef DEF Quem, MeioLigado
<1>6. Lido'
  BY <1>1, <1>2 DEF Lido, LeituraVelha
<1>7. ligas = [cabeca |-> a.cabeca, next |-> [a.next EXCEPT ![ultimo] = Nova],
               prev |-> a.prev]
  BY <1>1, <1>3 DEF Ligado, Parcial
<1>8. ligas' = [cabeca |-> a.cabeca, next |-> [a.next EXCEPT ![ultimo] = Nova],
               prev |-> [a.prev EXCEPT ![primeiro] = Nova]]
  BY <1>1, <1>7
<1>9. Parcial(a)'
  BY <1>1, <1>8 DEF Parcial
<1>10. Ligado(s, a)'
  BY <1>1, <1>3, <1>9, EsperadasDef, EsperadasDepois DEF Ligado
<1> QED BY <1>5, <1>6, <1>10

LEMMA CorteAppendNext ==
    ASSUME Descritores, CorteInv, AppendNext
    PROVE  CorteInv'
<1> SUFFICES ASSUME ~perigo' PROVE (Quem /\ Lido /\ \E s, a : Ligado(s, a))'
  BY DEF CorteInv
<1>1. /\ erro' = "nao" /\ erro = "nao" /\ rodando = Criador /\ rodando' = rodando /\ pc = "90"
      /\ terminadas' = terminadas /\ primeiro' = primeiro /\ ultimo' = ultimo
      /\ pc' = "91" /\ perigo' = perigo
      /\ ligas' = [ligas EXCEPT !.next[Nova] = primeiro]
  BY DEF AppendNext, Comando, Retornou
<1>2. Quem /\ Lido /\ ~perigo
  BY <1>1 DEF CorteInv
<1>3. PICK s, a : Ligado(s, a)
  BY <1>1 DEF CorteInv
<1>5. Quem'
  BY <1>1, <1>2, EsperadasDef DEF Quem, MeioLigado
<1>6. Lido'
  BY <1>1, <1>2 DEF Lido, LeituraVelha
<1>7. ligas = [cabeca |-> a.cabeca, next |-> [a.next EXCEPT ![ultimo] = Nova],
               prev |-> [a.prev EXCEPT ![primeiro] = Nova]]
  BY <1>1, <1>3 DEF Ligado, Parcial
<1>8. ligas' = [cabeca |-> a.cabeca, next |-> [a.next EXCEPT ![ultimo] = Nova, ![Nova] = primeiro],
               prev |-> [a.prev EXCEPT ![primeiro] = Nova]]
  BY <1>1, <1>7
<1>9. Parcial(a)'
  BY <1>1, <1>8 DEF Parcial
<1>10. Ligado(s, a)'
  BY <1>1, <1>3, <1>9, EsperadasDef, EsperadasDepois DEF Ligado
<1> QED BY <1>5, <1>6, <1>10

LEMMA CorteAppendPrev ==
    ASSUME Descritores, CorteInv, AppendPrev
    PROVE  CorteInv'
<1> SUFFICES ASSUME ~perigo' PROVE (Quem /\ Lido /\ \E s, a : Ligado(s, a))'
  BY DEF CorteInv
<1>1. /\ erro' = "nao" /\ erro = "nao" /\ rodando = Criador /\ rodando' = rodando /\ pc = "91"
      /\ terminadas' = terminadas /\ primeiro' = primeiro /\ ultimo' = ultimo
      /\ pc' = "retornou 0" /\ perigo' = perigo
      /\ ligas' = [ligas EXCEPT !.prev[Nova] = ultimo]
  BY DEF AppendPrev, Comando, Retornou
<1>2. Quem /\ Lido /\ ~perigo
  BY <1>1 DEF CorteInv
<1>3. PICK s, a : Ligado(s, a)
  BY <1>1 DEF CorteInv
<1>4. Quem'
  BY <1>1, <1>2, EsperadasDef DEF Quem, MeioLigado
<1>5. Lido'
  BY <1>1, <1>2 DEF Lido, LeituraVelha
<1>6. ligas = [cabeca |-> a.cabeca, next |-> [a.next EXCEPT ![ultimo] = Nova, ![Nova] = primeiro],
               prev |-> [a.prev EXCEPT ![primeiro] = Nova]]
  BY <1>1, <1>3 DEF Ligado, Parcial
<1>7. ligas' = [cabeca |-> a.cabeca, next |-> [a.next EXCEPT ![ultimo] = Nova, ![Nova] = primeiro],
               prev |-> [a.prev EXCEPT ![primeiro] = Nova, ![Nova] = ultimo]]
  BY <1>1, <1>6
<1>8. /\ Fechado(s, a) /\ ~Aparece(s, Nova) /\ a.next[Nova] = NULL /\ a.prev[Nova] = NULL
      /\ a.cabeca = primeiro /\ a.prev[primeiro] = ultimo /\ primeiro # NULL /\ a \in Ligacoes
  BY <1>1, <1>2, <1>3, EsperadasDef DEF Ligado, Fechado, Lido
<1>9. QueueAppend(a, Nova) = ligas'
  <2>1. QueueAppend(a, Nova) = [a EXCEPT !.next[ultimo] = Nova, !.next[Nova] = primeiro,
                                      !.prev[primeiro] = Nova, !.prev[Nova] = ultimo]
    BY <1>8 DEF QueueAppend
  <2> QED BY <1>7, <1>8, <2>1 DEF Ligacoes
<1>10. PICK q : Fechado(q, ligas') /\ \A x : Aparece(q, x) <=> (Aparece(s, x) \/ x = Nova)
  <2>1. Nova \in Elems
    BY EsperadasDef
  <2> QED BY <1>8, <1>9, <2>1, FechadoMaisUm
<1>11. \A x : Aparece(q, x) <=> x \in Esperadas'
  BY <1>1, <1>2, <1>3, <1>10, EsperadasDef, EsperadasDepois DEF Ligado, Quem
<1>12. Ligado(q, ligas)'
  BY <1>1, <1>10, <1>11 DEF Ligado, Parcial
<1> QED BY <1>4, <1>5, <1>12

\* The append never follows a null pointer.
LEMMA CorteAppendSegue ==
    ASSUME Descritores, CorteInv, AppendSegue
    PROVE  CorteInv'
  BY DEF CorteInv, Lido, AppendSegue

LEMMA CortePreempta ==
    ASSUME Descritores, CorteInv, Preempta
    PROVE  CorteInv'
<1> SUFFICES ASSUME ~perigo' PROVE (Quem /\ Lido /\ \E s, a : Ligado(s, a))'
  BY DEF CorteInv
<1>1. /\ erro = "nao" /\ rodando # NULL /\ rodando' = NULL /\ pc' = pc
      /\ terminadas' = terminadas /\ primeiro' = primeiro /\ ultimo' = ultimo
      /\ ~perigo /\ ~(rodando = Criador /\ pc \in MeioLigado)
  BY DEF Preempta
<1>2. Quem /\ Lido /\ rodando \in Elems /\ pc \notin MeioLigado
  BY <1>1 DEF CorteInv, Quem
<1>3. PICK s, a : Ligado(s, a)
  BY <1>1 DEF CorteInv
<1>4. a = ligas /\ Fechado(s, ligas)
  BY <1>2, <1>3, ForaDoMeio
<1>5. ~(ligas.cabeca # NULL /\ ligas.prev[ligas.cabeca] = NULL)
  BY <1>4, CabecaDoAnel, NomesAssumption
<1>6. erro' = "nao" /\ ligas' = QueueAppend(ligas, rodando)
  BY <1>1, <1>5 DEF Preempta
<1>7. ~Aparece(s, rodando)
  BY <1>3, EsperadasDef DEF Ligado
<1>8. PICK r : Fechado(r, ligas') /\ \A x : Aparece(r, x) <=> (Aparece(s, x) \/ x = rodando)
  BY <1>2, <1>4, <1>6, <1>7, FechadoMaisUm
<1>9. \A x : Aparece(r, x) <=> x \in Esperadas'
  BY <1>1, <1>2, <1>3, <1>8, EsperadasDef, EsperadasDepois DEF Ligado, Quem
<1>10. Ligado(r, ligas)'
  BY <1>1, <1>2, <1>8, <1>9, EsperadasDef DEF Ligado, Parcial
<1>11. Quem'
  BY <1>1, <1>2, <1>6, EsperadasDef DEF Quem, MeioLigado
<1>12. Lido'
  BY <1>1, <1>2, EsperadasDef DEF Lido
<1> QED BY <1>10, <1>11, <1>12

LEMMA CorteTaskExit ==
    ASSUME Descritores, CorteInv, TaskExit
    PROVE  CorteInv'
<1> SUFFICES ASSUME ~perigo' PROVE (Quem /\ Lido /\ \E s, a : Ligado(s, a))'
  BY DEF CorteInv
<1>1. /\ erro = "nao" /\ erro' = erro /\ rodando # NULL /\ rodando' = NULL /\ pc' = pc
      /\ terminadas' = terminadas \cup {rodando} /\ primeiro' = primeiro /\ ultimo' = ultimo
      /\ ~perigo
      /\ rodando = Criador => pc = "retornou 0"
      /\ ligas' = ligas
  BY DEF TaskExit, Retornou
<1>2. Quem /\ Lido /\ rodando \in Elems /\ pc \notin MeioLigado
  BY <1>1, EsperadasDef DEF CorteInv, Quem
<1>3. PICK s, a : Ligado(s, a)
  BY <1>1 DEF CorteInv
<1>4. a = ligas /\ Fechado(s, ligas)
  BY <1>2, <1>3, ForaDoMeio
<1>5. \A x : Aparece(s, x) <=> x \in Esperadas'
  BY <1>1, <1>3, EsperadasDef, EsperadasDepois DEF Ligado
<1>6. Ligado(s, a)'
  BY <1>1, <1>2, <1>4, <1>5, EsperadasDef DEF Ligado, Parcial
<1>7. Quem'
  BY <1>1, <1>2, EsperadasDef DEF Quem, MeioLigado
<1>8. Lido'
  BY <1>1, <1>2, EsperadasDef DEF Lido
<1> QED BY <1>6, <1>7, <1>8

LEMMA CorteDespacha ==
    ASSUME Descritores, CorteInv, NEW t \in Nos, Despacha(t)
    PROVE  CorteInv'
<1> SUFFICES ASSUME ~perigo' PROVE (Quem /\ Lido /\ \E s, a : Ligado(s, a))'
  BY DEF CorteInv
<1>1. /\ erro = "nao" /\ rodando = NULL /\ pc' = pc /\ t \in Alcancadas(ligas)
      /\ terminadas' = terminadas /\ primeiro' = primeiro /\ ultimo' = ultimo
      /\ ~perigo /\ ~(t = Criador /\ LeituraVelha')
  BY DEF Despacha
<1>2. Quem /\ Lido /\ pc \notin MeioLigado
  BY <1>1, EsperadasDef DEF CorteInv, Quem
<1>3. PICK s, a : Ligado(s, a)
  BY <1>1 DEF CorteInv
<1>4. a = ligas /\ Fechado(s, ligas)
  BY <1>2, <1>3, ForaDoMeio
<1>5. Aparece(s, t) /\ t \in Esperadas
  BY <1>1, <1>3, <1>4, CaminhoDoAnel DEF Ligado
<1>6. ligas.prev[t] # NULL
  BY <1>4, <1>5, FechadoMenosUm
<1>7. erro' = "nao" /\ ligas' = QueueRemove(ligas, t) /\ rodando' = t
  BY <1>1, <1>6 DEF Despacha
<1>8. PICK r : Fechado(r, ligas') /\ \A x : Aparece(r, x) <=> (Aparece(s, x) /\ x # t)
  BY <1>4, <1>5, <1>7, FechadoMenosUm
<1>9. \A x : Aparece(r, x) <=> x \in Esperadas'
  BY <1>1, <1>3, <1>7, <1>8, EsperadasDef, EsperadasDepois DEF Ligado
<1>10. Ligado(r, ligas)'
  BY <1>1, <1>2, <1>8, <1>9, EsperadasDef DEF Ligado, Parcial
<1>11. Quem'
  BY <1>1, <1>2, <1>5, <1>7, EsperadasDef DEF Quem, MeioLigado
<1>12. Lido'
  BY <1>1, <1>2, <1>7 DEF Lido
<1> QED BY <1>10, <1>11, <1>12

\* The walk of scheduler() always comes back.
LEMMA CorteDespachaPerdido ==
    ASSUME Descritores, CorteInv, DespachaPerdido
    PROVE  CorteInv'
<1> SUFFICES ASSUME ~perigo' PROVE FALSE
  BY DEF CorteInv
<1>1. rodando = NULL /\ ligas.cabeca # NULL /\ ~Volta(ligas) /\ ~perigo
  BY DEF DespachaPerdido
<1>2. pc \notin MeioLigado
  BY <1>1, EsperadasDef DEF CorteInv, Quem
<1>3. PICK s, a : Ligado(s, a)
  BY <1>1 DEF CorteInv
<1>4. Fechado(s, ligas)
  BY <1>2, <1>3, ForaDoMeio
<1> QED BY <1>1, <1>4, CabecaDoAnel, CaminhoDoAnel

LEMMA CorteParado ==
    ASSUME CorteInv, UNCHANGED varsCorte
    PROVE  CorteInv'
<1>1. /\ ligas' = ligas /\ pc' = pc /\ primeiro' = primeiro /\ ultimo' = ultimo
      /\ rodando' = rodando /\ terminadas' = terminadas /\ erro' = erro /\ perigo' = perigo
  BY DEF varsCorte
<1>2. Esperadas' = Esperadas /\ (LeituraVelha' <=> LeituraVelha)
  BY <1>1 DEF Esperadas, LeituraVelha
<1>3. \A s, a : Ligado(s, a) => Ligado(s, a)'
  BY <1>1, <1>2 DEF Ligado, Parcial
<1>4. Quem => Quem'
  BY <1>1 DEF Quem
<1>5. Lido => Lido'
  BY <1>1, <1>2 DEF Lido
<1> QED BY <1>1, <1>3, <1>4, <1>5 DEF CorteInv

LEMMA CorteInicial ==
    ASSUME Descritores, InitCorte
    PROVE  CorteInv
<1>1. /\ erro = "nao" /\ rodando = Criador /\ pc = "testa" /\ terminadas = {}
      /\ primeiro = NULL /\ ultimo = NULL
  BY DEF InitCorte
<1>2. PICK s : Fechado(s, ligas) /\ \A e : Aparece(s, e) <=> e \in Prontas
  BY AnelInicial
<1>3. Ligado(s, ligas)
  BY <1>1, <1>2, EsperadasDef DEF Ligado, Parcial
<1>4. Quem /\ Lido
  BY <1>1, EsperadasDef DEF Quem, Lido, LeituraVelha
<1> QED BY <1>3, <1>4 DEF CorteInv

LEMMA CorteMantido == Descritores /\ CorteInv /\ [NextCorte]_varsCorte => CorteInv'
<1> SUFFICES ASSUME Descritores, CorteInv, [NextCorte]_varsCorte PROVE CorteInv'
  OBVIOUS
<1>1. CASE Parado \/ UNCHANGED varsCorte
  BY <1>1, CorteParado DEF Parado
<1>2. CASE \E t \in Nos : Despacha(t)
  BY <1>2, CorteDespacha
<1> QED BY <1>1, <1>2, CorteAppendTesta, CorteAppendPrimeira, CorteAppendPrimeiraNext,
       CorteAppendPrimeiraPrev, CorteAppendLePrimeiro, CorteAppendLeUltimo,
       CorteAppendLigaUltimo, CorteAppendSegue, CorteAppendLigaPrimeiro, CorteAppendNext,
       CorteAppendPrev, CortePreempta, CorteTaskExit, CorteDespachaPerdido DEF NextCorte

LEMMA CorteBasta ==
    ASSUME Descritores, CorteInv
    PROVE  CorteInofensivo
<1> SUFFICES ASSUME ~perigo
             PROVE  /\ erro = "nao"
                    /\ pc \notin MeioLigado =>
                          /\ Alcancadas(ligas) = Esperadas
                          /\ \A t \in Esperadas : ligas.prev[ligas.next[t]] = t
  BY DEF CorteInofensivo
<1>1. erro = "nao"
  BY DEF CorteInv, Quem
<1>2. ASSUME pc \notin MeioLigado
      PROVE  /\ Alcancadas(ligas) = Esperadas
             /\ \A t \in Esperadas : ligas.prev[ligas.next[t]] = t
  <2>1. PICK s, a : Ligado(s, a)
    BY DEF CorteInv
  <2>2. Fechado(s, ligas) /\ \A e : Aparece(s, e) <=> e \in Esperadas
    BY <1>2, <2>1, ForaDoMeio DEF Ligado
  <2>3. Alcancadas(ligas) = Esperadas
    BY <2>2, CaminhoDoAnel
  <2>4. ASSUME NEW t \in Esperadas PROVE ligas.prev[ligas.next[t]] = t
    <3>1. PICK i \in 1..Len(s) : s[i] = t
      BY <2>2 DEF Aparece
    <3>2. Anel(s, ligas.cabeca, ligas.next, ligas.prev)
      BY <2>2 DEF Fechado
    <3> QED BY <3>1, <3>2, VaiEVolta
  <2> QED BY <2>3, <2>4
<1> QED BY <1>1, <1>2

\* Whatever the number of ready tasks, a preemption of the queue_append of
\* task_create before its first store is harmless if what the append has read
\* of filaProntas is still so when it goes on: the dispatcher never follows a
\* null pointer nor loops, and away from the stores filaProntas is a closed
\* ring of the tasks it must hold.
THEOREM CorteSempreInofensivo == Descritores => (SpecCorte => []CorteInofensivo)
<1> SUFFICES ASSUME Descritores PROVE SpecCorte => []CorteInofensivo
  OBVIOUS
<1>1. InitCorte => CorteInv
  BY CorteInicial
<1>2. CorteInv /\ [NextCorte]_varsCorte => CorteInv'
  BY CorteMantido
<1>3. CorteInv => CorteInofensivo
  BY CorteBasta
<1> QED BY <1>1, <1>2, <1>3, PTL DEF SpecCorte

=============================================================================
