--------------------------- MODULE ExclusaoProof ---------------------------
(***************************************************************************)
(* Who excludes whom in the three programs, and that no insertion is       *)
(* printed twice or lost, for any queue, any size of the store buffers and *)
(* any number of insertions between two signals.                           *)
(***************************************************************************)
EXTENDS Exclusao, Contagem, SequenceTheorems

-----------------------------------------------------------------------------
\* The inductive invariant.

Lugares == {"inicio", "vez", "testaFlag", "testaTurn", "dentro", "poe", "conta", "grava", "sai"}

Escritas == [onde : {"flag", "turn"}, valor : 0..1] \cup [onde : {"conta"}, valor : 1..MaxConta]

\* The node a thread has taken and not put back.
Mao(p) == IF p = "poe" THEN 1 ELSE 0

Tipos ==
    /\ algoritmo \in {"alternancia", "peterson", "semaforo"}
    /\ memoria \in [flag : [Threads -> 0..1], turn : 0..1]
    /\ buffer \in [Threads -> Seq(Escritas)]
    /\ semaphore \in 0..1 /\ mainPostou \in BOOLEAN
    /\ pc \in [Threads -> Lugares]
    /\ fila \in 0..FILA /\ erro \in {"nao", "segv"}
    /\ contadores \in [Threads -> 0..MaxConta] /\ reg \in [Threads -> 0..MaxConta]
    /\ tick \in {"fora", "zera0", "zera1"}
    /\ ultimo \in Threads /\ ultrapassou \in BOOLEAN
    /\ saldo \in [Threads -> Int] /\ disputa \in BOOLEAN
    /\ \A t \in Threads : pc[t] = "grava" => reg[t] < MaxConta
    /\ erro = "nao" => fila + Mao(pc[0]) + Mao(pc[1]) <= FILA

\* The stores of one round of a thread of program a, in order: the j-th is e.
DaRodada(a, t, j, e) ==
    \/ j = 1 /\ e.onde = "conta"
    \/ /\ a = "peterson"
       /\ \/ j = 2 /\ e.onde = "flag" /\ e.valor = 0
          \/ j = 3 /\ e.onde = "flag" /\ e.valor = 1
          \/ j = 4 /\ e.onde = "turn" /\ e.valor = Outra(t)
    \/ a = "alternancia" /\ j = 2 /\ e.onde = "turn" /\ e.valor = Outra(t)

\* How many of them a thread at p has made: those of the round before included.
Feitas(p) ==
    CASE p = "sai" -> 1 [] p = "inicio" -> 2 [] p = "vez" -> 3 [] p = "testaFlag" -> 4
      [] OTHER -> 0

\* The buffer b holds the last ones of the k that t has made.
Atraso(a, t, k, b) == \A i \in 1..Len(b) : DaRodada(a, t, k - (Len(b) - i), b[i])

Secao == {"dentro", "poe", "conta", "grava", "sai"}

\* flag[eu] = 1 is in memory.
Anunciou(p, b) ==
    \/ p = "vez" /\ b = <<>>
    \/ p = "testaFlag" /\ Len(b) <= 1
    \/ p \in {"testaTurn"} \cup Secao

\* ... and the turn that was given away too.
Comprometida(p, b) == (p = "testaFlag" /\ b = <<>>) \/ p \in {"testaTurn"} \cup Secao

PetersonInv ==
    algoritmo = "peterson" /\ ~ultrapassou =>
        \A t \in Threads :
            /\ Atraso("peterson", t, Feitas(pc[t]), buffer[t])
            /\ Anunciou(pc[t], buffer[t]) => memoria.flag[t] = 1
            /\ pc[t] \in Secao /\ Comprometida(pc[Outra(t)], buffer[Outra(t)]) => memoria.turn = t

\* The thread has the turn until its last store is in memory.
Ativa(p, b) == p \in Secao \/ b # <<>>

AlternanciaInv ==
    algoritmo = "alternancia" =>
        /\ \A t \in Threads :
              /\ pc[t] \in {"inicio"} \cup Secao
              /\ Atraso("alternancia", t, Feitas(pc[t]), buffer[t])
              /\ Ativa(pc[t], buffer[t]) => memoria.turn = t
        /\ ultimo = IF Ativa(pc[memoria.turn], buffer[memoria.turn]) THEN memoria.turn
                    ELSE Outra(memoria.turn)

Um(p) == IF p \in Secao THEN 1 ELSE 0

SemaforoInv ==
    algoritmo = "semaforo" =>
        /\ \A t \in Threads : buffer[t] = <<>> /\ pc[t] \in {"inicio", "dentro", "poe", "sai"}
        /\ semaphore + Um(pc[0]) + Um(pc[1]) = IF mainPostou THEN 1 ELSE 0

Contas(b) == {i \in 1..Len(b) : b[i].onde = "conta"}

\* The stores of a counter of value c: c + 1, c + 2, ...
EmOrdem(b, c) ==
    /\ \A i \in Contas(b) : (\A j \in Contas(b) : i <= j) => b[i].valor = c + 1
    /\ \A i, j \in Contas(b) :
          i < j /\ (\A k \in Contas(b) : k <= i \/ j <= k) => b[j].valor = b[i].valor + 1

\* What a thread reads of the counter is r.
Corrente(b, c, r) ==
    /\ Contas(b) = {} => r = c
    /\ \A i \in Contas(b) : (\A j \in Contas(b) : j <= i) => r = b[i].valor

ContasInv ==
    ~disputa =>
        \A t \in Threads :
            /\ saldo[t] = IF tick \in VaiZerar(t) THEN 0 ELSE contadores[t]
            /\ EmOrdem(buffer[t], contadores[t])
            /\ pc[t] = "grava" => Corrente(buffer[t], contadores[t], reg[t])

IInv == Tipos /\ PetersonInv /\ AlternanciaInv /\ SemaforoInv /\ ContasInv

-----------------------------------------------------------------------------
\* The threads, and where they are.

LEMMA Duas ==
    ASSUME NEW t \in Threads
    PROVE  /\ Outra(t) \in Threads /\ Outra(t) # t /\ Outra(Outra(t)) = t
           /\ \A x \in Threads : x = t \/ x = Outra(t)
  BY DEF Threads, Outra

LEMMA FeitasTipo == \A p : Feitas(p) \in 0..4
  BY DEF Feitas

LEMMA FeitasSecao == \A p \in Secao \cup {"testaTurn"} : p # "sai" => Feitas(p) = 0
  BY DEF Feitas, Secao

LEMMA FeitasLugares ==
    /\ Feitas("sai") = 1 /\ Feitas("inicio") = 2 /\ Feitas("vez") = 3 /\ Feitas("testaFlag") = 4
    /\ Feitas("testaTurn") = 0 /\ Feitas("dentro") = 0
  BY DEF Feitas

-----------------------------------------------------------------------------
\* What is in a buffer.

\* No more stores are late than a round has made.
LEMMA AtrasoCurto ==
    ASSUME NEW S, NEW a, NEW t, NEW k \in Nat, NEW b \in Seq(S), Atraso(a, t, k, b)
    PROVE  Len(b) \in Nat /\ Len(b) <= k /\ (Len(b) = 0 <=> b = <<>>)
<1>1. Len(b) \in Nat /\ (Len(b) = 0 <=> b = <<>>)
  BY EmptySeq
<1>2. CASE Len(b) = 0
  BY <1>1, <1>2
<1>3. CASE Len(b) # 0
  <2>1. PICK i \in 1..Len(b) : i = 1
    BY <1>1, <1>3
  <2>2. DaRodada(a, t, k - (Len(b) - i), b[i])
    BY DEF Atraso
  <2>3. k - (Len(b) - i) >= 1
    BY <1>1, <2>1, <2>2 DEF DaRodada
  <2> QED BY <1>1, <2>1, <2>3
<1> QED BY <1>2, <1>3

LEMMA AtrasoVazio ==
    ASSUME NEW a, NEW t, NEW k \in Nat, NEW b, b = <<>>
    PROVE  Atraso(a, t, k, b)
  BY DEF Atraso

\* A store is added.
LEMMA AtrasoAppend ==
    ASSUME NEW S, NEW a, NEW t, NEW k \in Nat, NEW m \in Nat, m = k + 1, NEW b \in Seq(S),
           NEW e \in S, Atraso(a, t, k, b), DaRodada(a, t, m, e)
    PROVE  Atraso(a, t, m, Append(b, e))
<1> DEFINE r == Append(b, e)
<1>1. /\ Len(b) \in Nat /\ Len(r) = Len(b) + 1 /\ r[Len(b) + 1] = e
      /\ \A i \in 1..Len(b) : r[i] = b[i]
  BY AppendProperties
<1> HIDE DEF r
<1>2. ASSUME NEW i \in 1..Len(r) PROVE DaRodada(a, t, m - (Len(r) - i), r[i])
  <2>1. CASE i = Len(b) + 1
    <3>1. m - (Len(r) - i) = m /\ r[i] = e
      BY <1>1, <2>1
    <3> QED BY <3>1
  <2>2. CASE i # Len(b) + 1
    <3>1. i \in 1..Len(b) /\ m - (Len(r) - i) = k - (Len(b) - i) /\ r[i] = b[i]
      BY <1>1, <2>2
    <3> QED BY <3>1 DEF Atraso
  <2> QED BY <2>1, <2>2
<1> QED BY <1>2 DEF Atraso, r

LEMMA AtrasoGuarda ==
    ASSUME NEW S, NEW a, NEW t, NEW p, NEW q, NEW b \in Seq(S), NEW e \in S,
           Feitas(q) = Feitas(p) + 1, Atraso(a, t, Feitas(p), b), DaRodada(a, t, Feitas(q), e)
    PROVE  Atraso(a, t, Feitas(q), Append(b, e))
<1>1. PICK k \in Nat : k = Feitas(p)
  BY FeitasTipo
<1>2. PICK m \in Nat : m = Feitas(q)
  BY FeitasTipo
<1>3. m = k + 1 /\ Atraso(a, t, k, b) /\ DaRodada(a, t, m, e)
  BY <1>1, <1>2
<1>4. Atraso(a, t, m, Append(b, e))
  BY <1>3, AtrasoAppend
<1> QED BY <1>2, <1>4

\* The oldest store leaves.
LEMMA AtrasoTail ==
    ASSUME NEW S, NEW a, NEW t, NEW k \in Nat, NEW b \in Seq(S), b # <<>>, Atraso(a, t, k, b)
    PROVE  Atraso(a, t, k, Tail(b))
<1> DEFINE r == Tail(b)
<1>1. /\ Len(b) \in Nat /\ Len(b) >= 1 /\ Len(r) = Len(b) - 1
      /\ \A i \in 1..Len(r) : r[i] = b[i + 1]
  BY EmptySeq, HeadTailProperties
<1> HIDE DEF r
<1>2. ASSUME NEW i \in 1..Len(r) PROVE DaRodada(a, t, k - (Len(r) - i), r[i])
  <2>1. PICK h \in 1..Len(b) : h = i + 1
    BY <1>1
  <2>2. k - (Len(r) - i) = k - (Len(b) - h) /\ r[i] = b[h]
    BY <1>1, <2>1
  <2> QED BY <2>2 DEF Atraso
<1> QED BY <1>2 DEF Atraso, r

LEMMA AtrasoHead ==
    ASSUME NEW S, NEW a, NEW t, NEW k \in Nat, NEW b \in Seq(S), b # <<>>, Atraso(a, t, k, b)
    PROVE  DaRodada(a, t, k - (Len(b) - 1), Head(b))
<1>1. Len(b) \in Nat /\ Len(b) >= 1
  BY EmptySeq
<1>2. PICK h \in 1..Len(b) : h = 1
  BY <1>1
<1>3. Head(b) = b[h]
  BY <1>2
<1> QED BY <1>2, <1>3 DEF Atraso

-----------------------------------------------------------------------------
\* What is read of a counter, with stores on the way.

LEMMA UltimaConta ==
    ASSUME NEW S, NEW b \in Seq(S), Contas(b) # {}
    PROVE  \E i \in Contas(b) : \A j \in Contas(b) : j <= i
<1>1. Len(b) \in Nat
  BY EmptySeq
<1> DEFINE R == {Len(b) - i : i \in Contas(b)}
<1>2. R \in SUBSET Nat /\ R # {}
  BY <1>1 DEF Contas
<1>3. PICK m \in R : \A k \in R : m <= k
  BY <1>2, Minimo
<1>4. PICK i \in Contas(b) : m = Len(b) - i
  BY <1>3
<1>5. ASSUME NEW j \in Contas(b) PROVE j <= i
  <2>1. m <= Len(b) - j
    BY <1>3
  <2> QED BY <1>1, <1>4, <2>1 DEF Contas
<1> QED BY <1>5

\* The value that Le gives is the current one.
LEMMA LeCorrente ==
    ASSUME Tipos, NEW t \in Threads
    PROVE  /\ Le(t, "conta", contadores[t]) \in 0..MaxConta
           /\ Corrente(buffer[t], contadores[t], Le(t, "conta", contadores[t]))
<1> DEFINE b == buffer[t]
           c == contadores[t]
           v == Le(t, "conta", c)
<1>1. b \in Seq(Escritas) /\ c \in 0..MaxConta /\ MaxConta \in Nat
  BY ConstantesAssumption DEF Tipos
<1>2. NoBuffer(t, "conta") = Contas(b)
  BY DEF NoBuffer, Contas
<1>3. ASSUME Contas(b) = {} PROVE v \in 0..MaxConta /\ Corrente(b, c, v)
  <2>1. v = c
    BY <1>2, <1>3 DEF Le
  <2> HIDE DEF b, c, v
  <2> QED BY <1>1, <1>3, <2>1 DEF Corrente
<1>4. ASSUME Contas(b) # {} PROVE v \in 0..MaxConta /\ Corrente(b, c, v)
  <2> DEFINE i == CHOOSE k \in Contas(b) : \A j \in Contas(b) : j <= k
  <2>1. i \in Contas(b) /\ \A j \in Contas(b) : j <= i
    BY <1>1, <1>4, UltimaConta
  <2>2. v = b[i].valor
    BY <1>2, <1>4 DEF Le
  <2> HIDE DEF i, b, c, v
  <2>3. Contas(b) \subseteq Int /\ b[i] \in Escritas /\ b[i].onde = "conta"
    BY <1>1, <2>1, ElementOfSeq DEF Contas
  <2>4. b[i].valor \in 1..MaxConta
    BY <2>3 DEF Escritas
  <2>5. ASSUME NEW k \in Contas(b), \A j \in Contas(b) : j <= k PROVE v = b[k].valor
    <3>1. k <= i /\ i <= k
      BY <2>1, <2>5
    <3>2. k = i
      BY <2>1, <2>3, <3>1
    <3> QED BY <2>2, <3>2
  <2>6. Corrente(b, c, v)
    BY <1>4, <2>5 DEF Corrente
  <2> QED BY <1>1, <2>2, <2>4, <2>6
<1> QED BY <1>3, <1>4

LEMMA ContasAppend ==
    ASSUME NEW S, NEW b \in Seq(S), NEW e \in S
    PROVE  /\ \A i \in Contas(Append(b, e)) : i # Len(b) + 1 => i \in Contas(b)
           /\ \A i \in Contas(b) : i \in Contas(Append(b, e)) /\ Append(b, e)[i] = b[i] /\ i <= Len(b)
           /\ Append(b, e)[Len(b) + 1] = e
           /\ Len(b) + 1 \in Contas(Append(b, e)) <=> e.onde = "conta"
           /\ Contas(b) \subseteq Int /\ Len(b) \in Nat
<1> DEFINE r == Append(b, e)
<1>1. /\ Len(b) \in Nat /\ Len(r) = Len(b) + 1 /\ r[Len(b) + 1] = e
      /\ \A i \in 1..Len(b) : r[i] = b[i]
  BY AppendProperties
<1> HIDE DEF r
<1>2. \A i \in 1..Len(r) : i = Len(b) + 1 \/ i \in 1..Len(b)
  BY <1>1
<1>3. Len(b) + 1 \in 1..Len(r) /\ 1..Len(b) \subseteq 1..Len(r)
  BY <1>1
<1>4. \A i \in Contas(r) : i # Len(b) + 1 => i \in Contas(b)
  BY <1>1, <1>2 DEF Contas
<1>5. \A i \in Contas(b) : i \in Contas(r) /\ r[i] = b[i] /\ i <= Len(b)
  BY <1>1, <1>3 DEF Contas
<1>6. Len(b) + 1 \in Contas(r) <=> e.onde = "conta"
  BY <1>1, <1>3 DEF Contas
<1> QED BY <1>1, <1>4, <1>5, <1>6 DEF r, Contas

\* A store to another variable leaves the counter alone.
LEMMA AppendAlheia ==
    ASSUME NEW S, NEW b \in Seq(S), NEW e \in S, NEW c, NEW r, e.onde # "conta", EmOrdem(b, c)
    PROVE  /\ EmOrdem(Append(b, e), c)
           /\ Corrente(b, c, r) => Corrente(Append(b, e), c, r)
<1>1. \A i \in Contas(b) : i \in Contas(Append(b, e)) /\ Append(b, e)[i] = b[i]
  <2> DEFINE d == Append(b, e)
  <2>1. \A i \in Contas(b) : i \in Contas(d) /\ d[i] = b[i] /\ i <= Len(b)
    BY ContasAppend
  <2> QED BY <2>1
<1>2. \A i \in Contas(Append(b, e)) : i \in Contas(b)
  <2>1. Len(b) + 1 \notin Contas(Append(b, e))
    BY ContasAppend
  <2>2. \A i \in Contas(Append(b, e)) : i # Len(b) + 1 => i \in Contas(b)
    BY ContasAppend
  <2> QED BY <2>1, <2>2
<1>3. Contas(Append(b, e)) = Contas(b)
  BY <1>1, <1>2
<1> QED BY <1>1, <1>3 DEF EmOrdem, Corrente

\* An increment is stored after the others.
LEMMA AppendConta ==
    ASSUME NEW S, NEW b \in Seq(S), NEW e \in S, NEW c, NEW r, e.onde = "conta",
           e.valor = r + 1, EmOrdem(b, c), Corrente(b, c, r)
    PROVE  EmOrdem(Append(b, e), c)
<1> DEFINE d == Append(b, e)
           u == Len(b) + 1
<1>1. /\ \A i \in Contas(d) : i = u \/ i \in Contas(b)
      /\ \A i \in Contas(b) : i \in Contas(d) /\ d[i] = b[i] /\ i < u
      /\ d[u] = e /\ u \in Contas(d) /\ u \in Int /\ Contas(b) \subseteq Int
  <2>1. Contas(b) \subseteq Int /\ Len(b) \in Nat
    BY ContasAppend
  <2>2. \A i \in Contas(d) : i = u \/ i \in Contas(b)
    BY ContasAppend
  <2>3. \A i \in Contas(b) : i \in Contas(d) /\ d[i] = b[i] /\ i <= Len(b)
    BY ContasAppend
  <2>4. d[u] = e /\ u \in Contas(d)
    BY ContasAppend
  <2>5. \A i \in Contas(b) : i < u
    BY <2>1, <2>3
  <2>6. u \in Int
    BY <2>1
  <2> QED BY <2>1, <2>2, <2>3, <2>4, <2>5, <2>6, Zenon
<1> HIDE DEF d, u
<1>2. ASSUME NEW i \in Contas(d), \A j \in Contas(d) : i <= j PROVE d[i].valor = c + 1
  <2>1. CASE i \in Contas(b)
    BY <1>1, <1>2, <2>1 DEF EmOrdem
  <2>2. CASE i \notin Contas(b)
    <3>1. i = u
      BY <1>1, <2>2
    <3>2. Contas(b) = {}
      <4> SUFFICES ASSUME NEW j \in Contas(b) PROVE FALSE
        OBVIOUS
      <4>1. j < u /\ u <= j /\ j \in Int
        BY <1>1, <1>2, <3>1
      <4> QED BY <1>1, <4>1
    <3> QED BY <1>1, <3>1, <3>2 DEF Corrente
  <2> QED BY <2>1, <2>2
<1>3. ASSUME NEW i \in Contas(d), NEW j \in Contas(d), i < j,
             \A k \in Contas(d) : k <= i \/ j <= k
      PROVE  d[j].valor = d[i].valor + 1
  <2>1. i \in Contas(b)
    <3>1. i = u => FALSE
      <4> SUFFICES ASSUME i = u PROVE FALSE
        OBVIOUS
      <4>1. j = u \/ j < u
        BY <1>1
      <4> QED BY <1>1, <1>3, <4>1
    <3> QED BY <1>1, <3>1
  <2>2. CASE j \in Contas(b)
    BY <1>1, <1>3, <2>1, <2>2 DEF EmOrdem
  <2>3. CASE j \notin Contas(b)
    <3>1. j = u
      BY <1>1, <2>3
    <3>2. ASSUME NEW k \in Contas(b) PROVE k <= i
      <4>1. k <= i \/ u <= k
        BY <1>1, <1>3, <3>1
      <4>2. k < u /\ k \in Int
        BY <1>1
      <4> QED BY <1>1, <4>1, <4>2
    <3>3. r = b[i].valor
      BY <2>1, <3>2 DEF Corrente
    <3> QED BY <1>1, <2>1, <3>1, <3>3
  <2> QED BY <2>2, <2>3
<1> QED BY <1>2, <1>3 DEF EmOrdem, d

LEMMA ContasTail ==
    ASSUME NEW S, NEW b \in Seq(S), b # <<>>
    PROVE  /\ \A i \in Contas(Tail(b)) : i + 1 \in Contas(b) /\ Tail(b)[i] = b[i + 1] /\ i >= 1
           /\ \A i \in Contas(b) : i # 1 => i - 1 \in Contas(Tail(b)) /\ i >= 1
           /\ 1 \in Contas(b) <=> Head(b).onde = "conta"
           /\ Head(b) = b[1] /\ Contas(b) \subseteq Int /\ Contas(Tail(b)) \subseteq Int
<1> DEFINE r == Tail(b)
<1>1. /\ Len(b) \in Nat /\ Len(b) >= 1 /\ Len(r) = Len(b) - 1 /\ Head(b) = b[1]
      /\ \A i \in 1..Len(r) : r[i] = b[i + 1]
  BY EmptySeq, HeadTailProperties
<1> HIDE DEF r
<1>2. \A i \in Contas(r) : i + 1 \in Contas(b) /\ r[i] = b[i + 1] /\ i >= 1
  BY <1>1 DEF Contas
<1>3. ASSUME NEW i \in Contas(b), i # 1 PROVE i - 1 \in Contas(r) /\ i >= 1
  <2>1. PICK h \in 1..Len(r) : h = i - 1 /\ i = h + 1
    BY <1>1, <1>3 DEF Contas
  <2>2. r[h] = b[i] /\ b[i].onde = "conta"
    BY <1>1, <2>1 DEF Contas
  <2> QED BY <1>1, <2>1, <2>2 DEF Contas
<1>4. 1 \in Contas(b) <=> Head(b).onde = "conta"
  BY <1>1 DEF Contas
<1> QED BY <1>1, <1>2, <1>3, <1>4 DEF r, Contas

\* In b and in its tail the same stores follow each other.
LEMMA TailSeguidas ==
    ASSUME NEW S, NEW b \in Seq(S), b # <<>>, NEW c, EmOrdem(b, c),
           NEW i \in Contas(Tail(b)), NEW j \in Contas(Tail(b)), i < j,
           \A k \in Contas(Tail(b)) : k <= i \/ j <= k
    PROVE  Tail(b)[j].valor = Tail(b)[i].valor + 1
<1> DEFINE r == Tail(b)
<1>1. /\ \A h \in Contas(r) : h + 1 \in Contas(b) /\ r[h] = b[h + 1] /\ h >= 1
      /\ \A h \in Contas(b) : h # 1 => h - 1 \in Contas(r) /\ h >= 1
      /\ Contas(b) \subseteq Int /\ Contas(r) \subseteq Int
  BY ContasTail
<1> HIDE DEF r
<1>2. PICK x \in Contas(b) : x = i + 1 /\ r[i] = b[x]
  BY <1>1 DEF r
<1>3. PICK y \in Contas(b) : y = j + 1 /\ r[j] = b[y]
  BY <1>1 DEF r
<1>4. i \in Int /\ j \in Int /\ i >= 1 /\ x < y
  BY <1>1, <1>2, <1>3 DEF r
<1>5. ASSUME NEW k \in Contas(b) PROVE k <= x \/ y <= k
  <2>1. CASE k = 1
    BY <1>2, <1>4, <2>1
  <2>2. CASE k # 1
    <3>1. k - 1 <= i \/ j <= k - 1
      BY <1>1, <2>2 DEF r
    <3> QED BY <1>1, <1>2, <1>3, <1>4, <3>1
  <2> QED BY <2>1, <2>2
<1>6. b[y].valor = b[x].valor + 1
  BY <1>4, <1>5 DEF EmOrdem
<1> QED BY <1>2, <1>3, <1>6 DEF r

\* The store that reaches the memory is of another variable.
LEMMA TailAlheia ==
    ASSUME NEW S, NEW b \in Seq(S), b # <<>>, NEW c, NEW v, Head(b).onde # "conta", EmOrdem(b, c)
    PROVE  /\ EmOrdem(Tail(b), c)
           /\ Corrente(b, c, v) => Corrente(Tail(b), c, v)
<1> DEFINE r == Tail(b)
<1>1. /\ \A h \in Contas(r) : h + 1 \in Contas(b) /\ r[h] = b[h + 1] /\ h >= 1
      /\ \A h \in Contas(b) : h - 1 \in Contas(r)
      /\ Contas(b) \subseteq Int /\ Contas(r) \subseteq Int
  BY ContasTail
<1>2. \A i, j \in Contas(r) : i < j /\ (\A k \in Contas(r) : k <= i \/ j <= k)
                              => r[j].valor = r[i].valor + 1
  BY TailSeguidas
<1> HIDE DEF r
<1>3. ASSUME NEW i \in Contas(r), \A j \in Contas(r) : i <= j PROVE r[i].valor = c + 1
  <2>1. PICK x \in Contas(b) : x = i + 1 /\ r[i] = b[x]
    BY <1>1
  <2>2. ASSUME NEW j \in Contas(b) PROVE x <= j
    <3>1. i <= j - 1
      BY <1>1, <1>3
    <3> QED BY <1>1, <2>1, <3>1
  <2> QED BY <2>1, <2>2 DEF EmOrdem
<1>4. ASSUME NEW i \in Contas(r), \A j \in Contas(r) : j <= i, Corrente(b, c, v)
      PROVE  v = r[i].valor
  <2>1. PICK x \in Contas(b) : x = i + 1 /\ r[i] = b[x]
    BY <1>1
  <2>2. ASSUME NEW j \in Contas(b) PROVE j <= x
    <3>1. j - 1 <= i
      BY <1>1, <1>4
    <3> QED BY <1>1, <2>1, <3>1
  <2> QED BY <1>4, <2>1, <2>2 DEF Corrente
<1>5. ASSUME Contas(r) = {}, Corrente(b, c, v) PROVE v = c
  <2>1. Contas(b) = {}
    BY <1>1, <1>5
  <2> QED BY <1>5, <2>1 DEF Corrente
<1> QED BY <1>2, <1>3, <1>4, <1>5 DEF EmOrdem, Corrente, r

\* An increment reaches the memory.
LEMMA TailConta ==
    ASSUME NEW S, NEW b \in Seq(S), b # <<>>, NEW c, NEW v, Head(b).onde = "conta", EmOrdem(b, c)
    PROVE  /\ Head(b).valor = c + 1
           /\ EmOrdem(Tail(b), Head(b).valor)
           /\ Corrente(b, c, v) => Corrente(Tail(b), Head(b).valor, v)
<1> DEFINE r == Tail(b)
<1>1. /\ \A h \in Contas(r) : h + 1 \in Contas(b) /\ r[h] = b[h + 1] /\ h >= 1
      /\ \A h \in Contas(b) : h # 1 => h - 1 \in Contas(r) /\ h >= 1
      /\ Contas(b) \subseteq Int /\ Contas(r) \subseteq Int
  BY ContasTail
<1>0. \E w \in Contas(b) : w = 1 /\ Head(b) = b[w]
  BY ContasTail
<1>2. \A i, j \in Contas(r) : i < j /\ (\A k \in Contas(r) : k <= i \/ j <= k)
                              => r[j].valor = r[i].valor + 1
  BY TailSeguidas
<1> HIDE DEF r
<1>3. PICK w \in Contas(b) : w = 1 /\ Head(b) = b[w]
  BY <1>0
<1>4. Head(b).valor = c + 1
  <2>1. \A j \in Contas(b) : w <= j
    BY <1>1, <1>3
  <2> QED BY <1>3, <2>1 DEF EmOrdem
<1>5. ASSUME NEW i \in Contas(r), \A j \in Contas(r) : i <= j PROVE r[i].valor = Head(b).valor + 1
  <2>1. PICK x \in Contas(b) : x = i + 1 /\ r[i] = b[x] /\ w < x /\ i \in Int
    BY <1>1, <1>3
  <2>2. ASSUME NEW k \in Contas(b) PROVE k <= w \/ x <= k
    <3>1. CASE k = 1
      BY <1>3, <3>1
    <3>2. CASE k # 1
      <4>1. i <= k - 1 /\ k \in Int
        BY <1>1, <1>5, <3>2
      <4> QED BY <2>1, <4>1
    <3> QED BY <3>1, <3>2
  <2>3. b[x].valor = b[w].valor + 1
    BY <2>1, <2>2 DEF EmOrdem
  <2> QED BY <1>3, <2>1, <2>3
<1>6. ASSUME NEW i \in Contas(r), \A j \in Contas(r) : j <= i, Corrente(b, c, v)
      PROVE  v = r[i].valor
  <2>1. PICK x \in Contas(b) : x = i + 1 /\ r[i] = b[x] /\ i \in Int /\ i >= 1
    BY <1>1
  <2>2. ASSUME NEW j \in Contas(b) PROVE j <= x
    <3>1. CASE j = 1
      BY <2>1, <3>1
    <3>2. CASE j # 1
      <4>1. j - 1 <= i /\ j \in Int
        BY <1>1, <1>6, <3>2
      <4> QED BY <2>1, <4>1
    <3> QED BY <3>1, <3>2
  <2> QED BY <1>6, <2>1, <2>2 DEF Corrente
<1>7. ASSUME Contas(r) = {}, Corrente(b, c, v) PROVE v = Head(b).valor
  <2>1. \A j \in Contas(b) : j = w
    BY <1>1, <1>3, <1>7
  <2>2. \A j \in Contas(b) : j <= w
    BY <1>1, <2>1
  <2> QED BY <1>3, <1>7, <2>2 DEF Corrente
<1> QED BY <1>2, <1>4, <1>5, <1>6, <1>7 DEF EmOrdem, Corrente, r

\* Without increments on the way a counter may have any value.
LEMMA SemContas ==
    ASSUME NEW b, NEW c, Contas(b) = {}
    PROVE  EmOrdem(b, c) /\ Corrente(b, c, c)
  BY DEF EmOrdem, Corrente

-----------------------------------------------------------------------------
\* What a step of one thread has to leave right.

\* The counters and the stores to them are left alone.
LEMMA ContasParado ==
    ASSUME ContasInv, UNCHANGED <<buffer, contadores, saldo, tick, disputa>>,
           \A x \in Threads : pc'[x] = "grava" => pc[x] = "grava" /\ reg'[x] = reg[x]
    PROVE  ContasInv'
<1>1. ASSUME ~disputa', NEW x \in Threads
      PROVE  /\ saldo'[x] = IF tick' \in VaiZerar(x) THEN 0 ELSE contadores'[x]
             /\ EmOrdem(buffer'[x], contadores'[x])
             /\ pc'[x] = "grava" => Corrente(buffer'[x], contadores'[x], reg'[x])
  <2>1. ~disputa
    BY <1>1
  <2> QED BY <2>1 DEF ContasInv
<1> QED BY <1>1 DEF ContasInv

\* A store to another variable.
LEMMA ContasGuarda ==
    ASSUME ContasInv, Tipos, NEW t \in Threads, NEW e \in Escritas, e.onde # "conta",
           buffer' = [buffer EXCEPT ![t] = Append(@, e)],
           UNCHANGED <<contadores, saldo, tick, disputa>>,
           \A x \in Threads : pc'[x] = "grava" => pc[x] = "grava" /\ reg'[x] = reg[x]
    PROVE  ContasInv'
<1>1. ASSUME ~disputa', NEW x \in Threads
      PROVE  /\ saldo'[x] = IF tick' \in VaiZerar(x) THEN 0 ELSE contadores'[x]
             /\ EmOrdem(buffer'[x], contadores'[x])
             /\ pc'[x] = "grava" => Corrente(buffer'[x], contadores'[x], reg'[x])
  <2>0. ~disputa
    BY <1>1
  <2>1. /\ saldo[x] = IF tick \in VaiZerar(x) THEN 0 ELSE contadores[x]
        /\ EmOrdem(buffer[x], contadores[x])
        /\ pc'[x] = "grava" => Corrente(buffer[x], contadores[x], reg'[x])
    BY <2>0 DEF ContasInv
  <2>2. buffer[x] \in Seq(Escritas) /\ buffer'[x] = IF x = t THEN Append(buffer[x], e) ELSE buffer[x]
    BY DEF Tipos
  <2>3. CASE x = t
    <3>1. /\ EmOrdem(Append(buffer[x], e), contadores[x])
          /\ Corrente(buffer[x], contadores[x], reg'[x])
               => Corrente(Append(buffer[x], e), contadores[x], reg'[x])
      BY <2>1, <2>2, AppendAlheia
    <3> QED BY <2>1, <2>2, <2>3, <3>1
  <2>4. CASE x # t
    BY <2>1, <2>2, <2>4
  <2> QED BY <2>3, <2>4
<1> QED BY <1>1 DEF ContasInv

\* Peterson: t goes to p with the buffer b, the memory becomes m.
AcertaPeterson(t, p, b, m) ==
    /\ Atraso("peterson", t, Feitas(p), b)
    /\ Anunciou(p, b) => m.flag[t] = 1
    /\ p \in Secao /\ Comprometida(pc[Outra(t)], buffer[Outra(t)]) => m.turn = t
    /\ pc[Outra(t)] \in Secao /\ Comprometida(p, b) => m.turn = Outra(t)
    /\ m.flag[Outra(t)] = memoria.flag[Outra(t)]

LEMMA PetersonMove ==
    ASSUME PetersonInv, Tipos, NEW t \in Threads, NEW p, NEW b,
           pc' = [pc EXCEPT ![t] = p], buffer' = [buffer EXCEPT ![t] = b],
           algoritmo' = algoritmo, ultrapassou => ultrapassou',
           algoritmo = "peterson" /\ ~ultrapassou' => AcertaPeterson(t, p, b, memoria')
    PROVE  PetersonInv'
<1>1. ASSUME algoritmo' = "peterson", ~ultrapassou', NEW x \in Threads
      PROVE  /\ Atraso("peterson", x, Feitas(pc'[x]), buffer'[x])
             /\ Anunciou(pc'[x], buffer'[x]) => memoria'.flag[x] = 1
             /\ pc'[x] \in Secao /\ Comprometida(pc'[Outra(x)], buffer'[Outra(x)])
                  => memoria'.turn = x
  <2> DEFINE o == Outra(t)
  <2>1. /\ AcertaPeterson(t, p, b, memoria') /\ o \in Threads /\ o # t /\ Outra(o) = t
        /\ x = t \/ x = o
    BY <1>1, Duas
  <2>2. /\ pc'[t] = p /\ buffer'[t] = b /\ pc'[o] = pc[o] /\ buffer'[o] = buffer[o]
    BY <2>1 DEF Tipos
  <2>3. /\ Atraso("peterson", o, Feitas(pc[o]), buffer[o])
        /\ Anunciou(pc[o], buffer[o]) => memoria.flag[o] = 1
    BY <1>1, <2>1 DEF PetersonInv
  <2>4. CASE x = t
    BY <2>1, <2>2, <2>4 DEF AcertaPeterson
  <2>5. CASE x = o
    BY <2>1, <2>2, <2>3, <2>5 DEF AcertaPeterson
  <2> QED BY <2>1, <2>4, <2>5
<1> QED BY <1>1 DEF PetersonInv

\* Alternation: the same, and u is the thread that entered last.
AcertaAlternancia(t, p, b, m, u) ==
    /\ p \in {"inicio"} \cup Secao
    /\ Atraso("alternancia", t, Feitas(p), b)
    /\ Ativa(p, b) => m.turn = t
    /\ Ativa(pc[Outra(t)], buffer[Outra(t)]) => m.turn = Outra(t)
    /\ m.turn = t => u = IF Ativa(p, b) THEN t ELSE Outra(t)
    /\ m.turn = Outra(t) => u = IF Ativa(pc[Outra(t)], buffer[Outra(t)]) THEN Outra(t) ELSE t

LEMMA AlternanciaMove ==
    ASSUME AlternanciaInv, Tipos, Tipos', NEW t \in Threads, NEW p, NEW b,
           pc' = [pc EXCEPT ![t] = p], buffer' = [buffer EXCEPT ![t] = b],
           algoritmo' = algoritmo,
           algoritmo = "alternancia" => AcertaAlternancia(t, p, b, memoria', ultimo')
    PROVE  AlternanciaInv'
<1>1. CASE algoritmo # "alternancia"
  BY <1>1 DEF AlternanciaInv
<1>2. CASE algoritmo = "alternancia"
  <2> DEFINE o == Outra(t)
  <2>1. /\ AcertaAlternancia(t, p, b, memoria', ultimo') /\ o \in Threads /\ o # t /\ Outra(o) = t
        /\ \A x \in Threads : x = t \/ x = o
    BY <1>2, Duas
  <2>2. /\ pc'[t] = p /\ buffer'[t] = b /\ pc'[o] = pc[o] /\ buffer'[o] = buffer[o]
    BY <2>1 DEF Tipos
  <2>3. pc[o] \in {"inicio"} \cup Secao /\ Atraso("alternancia", o, Feitas(pc[o]), buffer[o])
    BY <1>2, <2>1 DEF AlternanciaInv
  <2>4. \A x \in Threads : /\ pc'[x] \in {"inicio"} \cup Secao
                           /\ Atraso("alternancia", x, Feitas(pc'[x]), buffer'[x])
                           /\ Ativa(pc'[x], buffer'[x]) => memoria'.turn = x
    BY <2>1, <2>2, <2>3 DEF AcertaAlternancia
  <2>5. memoria'.turn \in Threads
    BY DEF Tipos, Threads
  <2>6. ultimo' = IF Ativa(pc'[memoria'.turn], buffer'[memoria'.turn]) THEN memoria'.turn
                  ELSE Outra(memoria'.turn)
    <3>1. CASE memoria'.turn = t
      BY <2>1, <2>2, <3>1 DEF AcertaAlternancia
    <3>2. CASE memoria'.turn = o
      BY <2>1, <2>2, <3>2 DEF AcertaAlternancia
    <3> QED BY <2>1, <2>5, <3>1, <3>2
  <2> QED BY <2>4, <2>6 DEF AlternanciaInv
<1> QED BY <1>1, <1>2

LEMMA SemaforoMove ==
    ASSUME SemaforoInv, Tipos, Tipos', NEW t \in Threads, NEW p, UNCHANGED <<algoritmo, buffer, mainPostou>>,
           pc' = [pc EXCEPT ![t] = p],
           algoritmo = "semaforo" => /\ p \in {"inicio", "dentro", "poe", "sai"}
                                     /\ semaphore' + Um(p) = semaphore + Um(pc[t])
    PROVE  SemaforoInv'
<1>1. CASE algoritmo # "semaforo"
  BY <1>1 DEF SemaforoInv
<1>2. CASE algoritmo = "semaforo"
  <2>1. \A x \in Threads : pc'[x] = IF x = t THEN p ELSE pc[x]
    BY DEF Tipos
  <2>2. \A x \in Threads : buffer'[x] = <<>> /\ pc'[x] \in {"inicio", "dentro", "poe", "sai"}
    BY <1>2, <2>1 DEF SemaforoInv
  <2>3. \A q : Um(q) \in 0..1
    BY DEF Um
  <2>4. semaphore + Um(pc[0]) + Um(pc[1]) = IF mainPostou THEN 1 ELSE 0
    BY <1>2 DEF SemaforoInv
  <2>5. CASE t = 0
    <3>1. pc'[0] = p /\ pc'[1] = pc[1] /\ semaphore' + Um(p) = semaphore + Um(pc[0])
      BY <1>2, <2>1, <2>5 DEF Threads
    <3>2. semaphore' + Um(p) + Um(pc[1]) = IF mainPostou THEN 1 ELSE 0
      BY <2>4, <3>1
    <3> QED BY <2>2, <3>1, <3>2 DEF SemaforoInv
  <2>6. CASE t = 1
    <3>1. pc'[1] = p /\ pc'[0] = pc[0] /\ semaphore' + Um(p) = semaphore + Um(pc[1])
      BY <1>2, <2>1, <2>6 DEF Threads
    <3>0. semaphore \in Int
      BY DEF Tipos
    <3>2. semaphore' + Um(pc[0]) + Um(p) = IF mainPostou THEN 1 ELSE 0
      <4>1. Um(pc[0]) \in 0..1 /\ Um(pc[1]) \in 0..1 /\ Um(p) \in 0..1
        BY <2>3
      <4>2. semaphore' \in Int
        BY DEF Tipos
      <4> QED BY <2>4, <3>0, <3>1, <4>1, <4>2
    <3> QED BY <2>2, <3>1, <3>2 DEF SemaforoInv
  <2> QED BY <2>5, <2>6 DEF Threads
<1> QED BY <1>1, <1>2

LEMMA OutrosProgramas ==
    ASSUME UNCHANGED algoritmo
    PROVE  /\ algoritmo # "peterson" => PetersonInv'
           /\ algoritmo # "alternancia" => AlternanciaInv'
           /\ algoritmo # "semaforo" => SemaforoInv'
  BY DEF PetersonInv, AlternanciaInv, SemaforoInv

\* Only Peterson's threads are at the places of its protocol.
LEMMA LugarPeterson ==
    ASSUME IInv, NEW t \in Threads, pc[t] \in {"vez", "testaFlag", "testaTurn"}
    PROVE  algoritmo = "peterson"
<1>1. algoritmo # "alternancia"
  BY DEF IInv, AlternanciaInv, Secao
<1>2. algoritmo # "semaforo"
  BY DEF IInv, SemaforoInv
<1> QED BY <1>1, <1>2 DEF IInv, Tipos

LEMMA BufferTipo ==
    ASSUME Tipos, NEW t \in Threads, NEW e \in Escritas,
           buffer' = [buffer EXCEPT ![t] = Append(@, e)]
    PROVE  buffer' \in [Threads -> Seq(Escritas)]
<1>1. buffer \in [Threads -> Seq(Escritas)] /\ Append(buffer[t], e) \in Seq(Escritas)
  BY AppendProperties DEF Tipos
<1> QED BY <1>1

LEMMA MaoMove ==
    ASSUME Tipos, NEW t \in Threads, NEW p, pc' = [pc EXCEPT ![t] = p]
    PROVE  /\ Mao(pc'[0]) + Mao(pc'[1]) = Mao(pc[0]) + Mao(pc[1]) - Mao(pc[t]) + Mao(p)
           /\ Mao(pc[0]) \in 0..1 /\ Mao(pc[1]) \in 0..1 /\ Mao(p) \in 0..1 /\ Mao(pc[t]) \in 0..1
<1>1. \A q : Mao(q) \in 0..1
  BY DEF Mao
<1>2. Mao(pc[0]) \in 0..1 /\ Mao(pc[1]) \in 0..1 /\ Mao(p) \in 0..1 /\ Mao(pc[t]) \in 0..1
  BY <1>1
<1>3. CASE t = 0
  <2>1. pc'[0] = p /\ pc'[1] = pc[1]
    BY <1>3 DEF Tipos, Threads
  <2> QED BY <1>2, <1>3, <2>1
<1>4. CASE t = 1
  <2>1. pc'[1] = p /\ pc'[0] = pc[0]
    BY <1>4 DEF Tipos, Threads
  <2> QED BY <1>2, <1>4, <2>1
<1> QED BY <1>2, <1>3, <1>4 DEF Threads

\* A thread moves outside the section and the counters stay.
LEMMA TiposMove ==
    ASSUME Tipos, NEW t \in Threads, NEW p \in Lugares \ {"poe", "grava"}, pc[t] # "poe",
           pc' = [pc EXCEPT ![t] = p],
           UNCHANGED <<algoritmo, fila, erro, contadores, reg, tick, saldo, disputa>>,
           memoria' = memoria, buffer' \in [Threads -> Seq(Escritas)], semaphore' \in 0..1,
           mainPostou' \in BOOLEAN, ultimo' \in Threads, ultrapassou' \in BOOLEAN
    PROVE  Tipos'
<1>1. pc' \in [Threads -> Lugares] /\ \A x \in Threads : pc'[x] = "grava" => pc[x] = "grava"
  BY DEF Tipos
<1>2. Mao(pc[t]) = 0 /\ Mao(p) = 0
  BY DEF Mao
<1>3. Mao(pc'[0]) + Mao(pc'[1]) = Mao(pc[0]) + Mao(pc[1])
  <2>1. /\ Mao(pc'[0]) + Mao(pc'[1]) = Mao(pc[0]) + Mao(pc[1]) - Mao(pc[t]) + Mao(p)
        /\ Mao(pc[0]) \in 0..1 /\ Mao(pc[1]) \in 0..1
    BY MaoMove
  <2> QED BY <1>2, <2>1
<1>4. erro = "nao" => fila + Mao(pc'[0]) + Mao(pc'[1]) <= FILA
  <2>1. /\ Mao(pc[0]) \in 0..1 /\ Mao(pc[1]) \in 0..1 /\ Mao(pc'[0]) \in 0..1 /\ Mao(pc'[1]) \in 0..1
    BY DEF Mao
  <2>2. fila \in Int /\ FILA \in Int /\ (erro = "nao" => fila + Mao(pc[0]) + Mao(pc[1]) <= FILA)
    BY ConstantesAssumption DEF Tipos
  <2> QED BY <1>3, <2>1, <2>2
<1> QED BY <1>1, <1>4 DEF Tipos

\* A thread inside the section goes on in it.
LEMMA SecaoMove ==
    ASSUME IInv, Tipos', NEW t \in Threads, NEW p \in Secao, pc[t] \in Secao \ {"sai"},
           pc' = [pc EXCEPT ![t] = p],
           UNCHANGED <<algoritmo, memoria, buffer, semaphore, mainPostou, ultimo, ultrapassou>>,
           algoritmo = "semaforo" => p \in {"dentro", "poe", "sai"}
    PROVE  PetersonInv' /\ AlternanciaInv' /\ SemaforoInv'
<1>1. Tipos /\ PetersonInv /\ AlternanciaInv /\ SemaforoInv
  BY DEF IInv
<1>2. /\ Feitas(pc[t]) = 0 /\ Feitas(p) \in Nat /\ buffer[t] \in Seq(Escritas)
      /\ buffer' = [buffer EXCEPT ![t] = buffer[t]]
  <2>1. buffer[t] \in Seq(Escritas) /\ buffer' = [buffer EXCEPT ![t] = buffer[t]]
    BY <1>1 DEF Tipos
  <2>2. Feitas(pc[t]) = 0
    BY FeitasSecao
  <2>3. Feitas(p) \in Nat
    BY FeitasTipo
  <2> QED BY <2>1, <2>2, <2>3
<1>3. ASSUME NEW a, Atraso(a, t, Feitas(pc[t]), buffer[t]) PROVE Atraso(a, t, Feitas(p), buffer[t])
  <2>0. Feitas(pc[t]) \in Nat
    BY <1>2
  <2>1. Len(buffer[t]) <= Feitas(pc[t]) /\ Len(buffer[t]) \in Nat
        /\ (Len(buffer[t]) = 0 <=> buffer[t] = <<>>)
    BY <1>2, <1>3, <2>0, AtrasoCurto
  <2>2. buffer[t] = <<>>
    BY <1>2, <2>1
  <2> QED BY <1>2, <2>2, AtrasoVazio
<1>4. algoritmo = "peterson" /\ ~ultrapassou' => AcertaPeterson(t, p, buffer[t], memoria')
  <2> SUFFICES ASSUME algoritmo = "peterson", ~ultrapassou
               PROVE  AcertaPeterson(t, p, buffer[t], memoria)
    OBVIOUS
  <2>1. /\ Atraso("peterson", t, Feitas(pc[t]), buffer[t])
        /\ Anunciou(pc[t], buffer[t]) => memoria.flag[t] = 1
        /\ Comprometida(pc[Outra(t)], buffer[Outra(t)]) => memoria.turn = t
        /\ pc[Outra(t)] \in Secao /\ Comprometida(pc[t], buffer[t]) => memoria.turn = Outra(t)
    BY <1>1, Duas DEF PetersonInv
  <2>2. Anunciou(pc[t], buffer[t]) /\ Comprometida(pc[t], buffer[t])
    BY DEF Anunciou, Comprometida
  <2> QED BY <1>3, <2>1, <2>2 DEF AcertaPeterson
<1>5. PetersonInv'
  BY <1>1, <1>2, <1>4, PetersonMove
<1>6. algoritmo = "alternancia" => AcertaAlternancia(t, p, buffer[t], memoria', ultimo')
  <2> SUFFICES ASSUME algoritmo = "alternancia"
               PROVE  AcertaAlternancia(t, p, buffer[t], memoria, ultimo)
    OBVIOUS
  <2>1. /\ Atraso("alternancia", t, Feitas(pc[t]), buffer[t])
        /\ Ativa(pc[t], buffer[t]) => memoria.turn = t
        /\ Ativa(pc[Outra(t)], buffer[Outra(t)]) => memoria.turn = Outra(t)
        /\ ultimo = IF Ativa(pc[memoria.turn], buffer[memoria.turn]) THEN memoria.turn
                    ELSE Outra(memoria.turn)
    BY <1>1, Duas DEF AlternanciaInv
  <2>2. Ativa(pc[t], buffer[t]) /\ Ativa(p, buffer[t])
    BY DEF Ativa
  <2>3. Outra(Outra(t)) = t /\ Outra(t) # t
    BY Duas
  <2> QED BY <1>3, <2>1, <2>2, <2>3 DEF AcertaAlternancia
<1>7. AlternanciaInv'
  BY <1>1, <1>2, <1>6, AlternanciaMove
<1>8. SemaforoInv'
  <2>1. Um(p) = Um(pc[t])
    BY DEF Um
  <2> QED BY <1>1, <2>1, SemaforoMove
<1> QED BY <1>5, <1>7, <1>8

-----------------------------------------------------------------------------
\* One lemma for each action.

LEMMA PassoPetersonQuer ==
    ASSUME IInv, NEW t \in Threads, PetersonQuer(t)
    PROVE  IInv'
<1> DEFINE e == Escrita("flag", 1)
           b == Append(buffer[t], e)
<1>1. Tipos /\ PetersonInv /\ ContasInv
  BY DEF IInv
<1>2. /\ algoritmo = "peterson" /\ pc[t] = "inicio" /\ pc' = [pc EXCEPT ![t] = "vez"]
      /\ buffer' = [buffer EXCEPT ![t] = Append(@, e)] /\ buffer' = [buffer EXCEPT ![t] = b]
      /\ UNCHANGED <<algoritmo, memoria, semaphore, mainPostou, fila, erro, conta, historia>>
  BY DEF PetersonQuer, Passa, Guarda
<1>3. e \in Escritas /\ e.onde = "flag" /\ e.valor = 1 /\ buffer[t] \in Seq(Escritas)
  BY <1>1 DEF Escrita, Escritas, Tipos
<1> HIDE DEF e
<1>4. buffer' \in [Threads -> Seq(Escritas)]
  BY <1>1, <1>2, <1>3, BufferTipo
<1>5. Tipos'
  <2>1. UNCHANGED <<algoritmo, fila, erro, contadores, reg, tick, saldo, disputa>>
        /\ memoria' = memoria /\ semaphore' \in 0..1 /\ mainPostou' \in BOOLEAN
        /\ ultimo' \in Threads /\ ultrapassou' \in BOOLEAN
        /\ pc[t] # "poe" /\ "vez" \in Lugares \ {"poe", "grava"}
    BY <1>1, <1>2 DEF Tipos, conta, historia, Lugares
  <2> QED BY <1>1, <1>2, <1>4, <2>1, TiposMove
<1>6. ContasInv'
  <2>1. UNCHANGED <<contadores, saldo, tick, disputa>> /\ e.onde # "conta"
        /\ \A x \in Threads : pc'[x] = "grava" => pc[x] = "grava" /\ reg'[x] = reg[x]
    BY <1>1, <1>2, <1>3 DEF Tipos, conta
  <2> QED BY <1>1, <1>2, <1>3, <2>1, ContasGuarda
<1>7. algoritmo = "peterson" /\ ~ultrapassou' => AcertaPeterson(t, "vez", b, memoria')
  <2> SUFFICES ASSUME ~ultrapassou PROVE AcertaPeterson(t, "vez", b, memoria)
    BY <1>2 DEF historia
  <2>1. Atraso("peterson", t, Feitas("inicio"), buffer[t])
    BY <1>1, <1>2 DEF PetersonInv
  <2>2. Feitas("inicio") = 2 /\ Feitas("vez") = 3
    BY FeitasLugares
  <2>3. Atraso("peterson", t, Feitas("vez"), b)
    <3>1. DaRodada("peterson", t, Feitas("vez"), e)
      BY <1>3, <2>2 DEF DaRodada
    <3>2. Feitas("vez") = Feitas("inicio") + 1
      BY <2>2
    <3> QED BY <1>3, <2>1, <3>1, <3>2, AtrasoGuarda
  <2>4. b # <<>>
    BY <1>3, AppendProperties
  <2>5. ~Anunciou("vez", b) /\ ~Comprometida("vez", b) /\ "vez" \notin Secao
    BY <2>4 DEF Anunciou, Comprometida, Secao
  <2> QED BY <2>3, <2>5 DEF AcertaPeterson
<1>8. PetersonInv'
  <2>1. algoritmo' = algoritmo /\ (ultrapassou => ultrapassou')
    BY <1>2 DEF historia
  <2> HIDE DEF b
  <2> QED BY <1>1, <1>2, <1>7, <2>1, PetersonMove
<1>9. AlternanciaInv' /\ SemaforoInv'
  BY <1>2, OutrosProgramas
<1> QED BY <1>5, <1>6, <1>8, <1>9 DEF IInv

LEMMA PassoPetersonVez ==
    ASSUME IInv, NEW t \in Threads, PetersonVez(t)
    PROVE  IInv'
<1> DEFINE e == Escrita("turn", Outra(t))
           b == Append(buffer[t], e)
<1>1. Tipos /\ PetersonInv /\ ContasInv
  BY DEF IInv
<1>2. /\ pc[t] = "vez" /\ pc' = [pc EXCEPT ![t] = "testaFlag"]
      /\ buffer' = [buffer EXCEPT ![t] = Append(@, e)] /\ buffer' = [buffer EXCEPT ![t] = b]
      /\ UNCHANGED <<algoritmo, memoria, semaphore, mainPostou, fila, erro, conta, historia>>
  BY DEF PetersonVez, Passa, Guarda
<1>0. algoritmo = "peterson"
  BY <1>2, LugarPeterson
<1>3. e \in Escritas /\ e.onde = "turn" /\ e.valor = Outra(t) /\ buffer[t] \in Seq(Escritas)
  BY <1>1, Duas DEF Escrita, Escritas, Tipos, Threads
<1> HIDE DEF e
<1>4. buffer' \in [Threads -> Seq(Escritas)]
  BY <1>1, <1>2, <1>3, BufferTipo
<1>5. Tipos'
  <2>1. UNCHANGED <<algoritmo, fila, erro, contadores, reg, tick, saldo, disputa>>
        /\ memoria' = memoria /\ semaphore' \in 0..1 /\ mainPostou' \in BOOLEAN
        /\ ultimo' \in Threads /\ ultrapassou' \in BOOLEAN
        /\ pc[t] # "poe" /\ "testaFlag" \in Lugares \ {"poe", "grava"}
    BY <1>1, <1>2 DEF Tipos, conta, historia, Lugares
  <2> QED BY <1>1, <1>2, <1>4, <2>1, TiposMove
<1>6. ContasInv'
  <2>1. UNCHANGED <<contadores, saldo, tick, disputa>> /\ e.onde # "conta"
        /\ \A x \in Threads : pc'[x] = "grava" => pc[x] = "grava" /\ reg'[x] = reg[x]
    BY <1>1, <1>2, <1>3 DEF Tipos, conta
  <2> QED BY <1>1, <1>2, <1>3, <2>1, ContasGuarda
<1>7. algoritmo = "peterson" /\ ~ultrapassou' => AcertaPeterson(t, "testaFlag", b, memoria')
  <2> SUFFICES ASSUME ~ultrapassou PROVE AcertaPeterson(t, "testaFlag", b, memoria)
    BY <1>2 DEF historia
  <2>1. /\ Atraso("peterson", t, Feitas("vez"), buffer[t])
        /\ Anunciou("vez", buffer[t]) => memoria.flag[t] = 1
    BY <1>0, <1>1, <1>2 DEF PetersonInv
  <2>2. Feitas("vez") = 3 /\ Feitas("testaFlag") = 4
    BY FeitasLugares
  <2>3. Atraso("peterson", t, Feitas("testaFlag"), b)
    <3>1. DaRodada("peterson", t, Feitas("testaFlag"), e)
      BY <1>3, <2>2 DEF DaRodada
    <3>2. Feitas("testaFlag") = Feitas("vez") + 1
      BY <2>2
    <3> QED BY <1>3, <2>1, <3>1, <3>2, AtrasoGuarda
  <2>4. b # <<>> /\ Len(b) = Len(buffer[t]) + 1 /\ Len(buffer[t]) \in Nat
        /\ (Len(buffer[t]) = 0 <=> buffer[t] = <<>>)
    BY <1>3, AppendProperties, EmptySeq
  <2> HIDE DEF b
  <2>5. ~Comprometida("testaFlag", b) /\ "testaFlag" \notin Secao
    BY <2>4 DEF Comprometida, Secao
  <2>6. Anunciou("testaFlag", b) => memoria.flag[t] = 1
    <3>1. SUFFICES ASSUME Anunciou("testaFlag", b) PROVE memoria.flag[t] = 1
      OBVIOUS
    <3>2. buffer[t] = <<>>
      BY <2>4, <3>1 DEF Anunciou, Secao
    <3> QED BY <2>1, <3>2 DEF Anunciou
  <2> QED BY <2>3, <2>5, <2>6 DEF AcertaPeterson
<1>8. PetersonInv'
  <2>1. algoritmo' = algoritmo /\ (ultrapassou => ultrapassou')
    BY <1>2 DEF historia
  <2> HIDE DEF b
  <2> QED BY <1>1, <1>2, <1>7, <2>1, PetersonMove
<1>9. AlternanciaInv' /\ SemaforoInv'
  BY <1>0, <1>2, OutrosProgramas
<1> QED BY <1>5, <1>6, <1>8, <1>9 DEF IInv

LEMMA PassoPetersonSai ==
    ASSUME IInv, NEW t \in Threads, PetersonSai(t)
    PROVE  IInv'
<1> DEFINE e == Escrita("flag", 0)
           b == Append(buffer[t], e)
<1>1. Tipos /\ PetersonInv /\ ContasInv
  BY DEF IInv
<1>2. /\ algoritmo = "peterson" /\ pc[t] = "sai" /\ pc' = [pc EXCEPT ![t] = "inicio"]
      /\ buffer' = [buffer EXCEPT ![t] = Append(@, e)] /\ buffer' = [buffer EXCEPT ![t] = b]
      /\ UNCHANGED <<algoritmo, memoria, semaphore, mainPostou, fila, erro, conta, historia>>
  BY DEF PetersonSai, Passa, Guarda
<1>3. e \in Escritas /\ e.onde = "flag" /\ e.valor = 0 /\ buffer[t] \in Seq(Escritas)
  BY <1>1 DEF Escrita, Escritas, Tipos
<1> HIDE DEF e
<1>4. buffer' \in [Threads -> Seq(Escritas)]
  BY <1>1, <1>2, <1>3, BufferTipo
<1>5. Tipos'
  <2>1. UNCHANGED <<algoritmo, fila, erro, contadores, reg, tick, saldo, disputa>>
        /\ memoria' = memoria /\ semaphore' \in 0..1 /\ mainPostou' \in BOOLEAN
        /\ ultimo' \in Threads /\ ultrapassou' \in BOOLEAN
        /\ pc[t] # "poe" /\ "inicio" \in Lugares \ {"poe", "grava"}
    BY <1>1, <1>2 DEF Tipos, conta, historia, Lugares
  <2> QED BY <1>1, <1>2, <1>4, <2>1, TiposMove
<1>6. ContasInv'
  <2>1. UNCHANGED <<contadores, saldo, tick, disputa>> /\ e.onde # "conta"
        /\ \A x \in Threads : pc'[x] = "grava" => pc[x] = "grava" /\ reg'[x] = reg[x]
    BY <1>1, <1>2, <1>3 DEF Tipos, conta
  <2> QED BY <1>1, <1>2, <1>3, <2>1, ContasGuarda
<1>7. algoritmo = "peterson" /\ ~ultrapassou' => AcertaPeterson(t, "inicio", b, memoria')
  <2> SUFFICES ASSUME ~ultrapassou PROVE AcertaPeterson(t, "inicio", b, memoria)
    BY <1>2 DEF historia
  <2>1. Atraso("peterson", t, Feitas("sai"), buffer[t])
    BY <1>1, <1>2 DEF PetersonInv
  <2>2. Feitas("sai") = 1 /\ Feitas("inicio") = 2
    BY FeitasLugares
  <2>3. Atraso("peterson", t, Feitas("inicio"), b)
    <3>1. DaRodada("peterson", t, Feitas("inicio"), e)
      BY <1>3, <2>2 DEF DaRodada
    <3>2. Feitas("inicio") = Feitas("sai") + 1
      BY <2>2
    <3> QED BY <1>3, <2>1, <3>1, <3>2, AtrasoGuarda
  <2>5. ~Anunciou("inicio", b) /\ ~Comprometida("inicio", b) /\ "inicio" \notin Secao
    BY DEF Anunciou, Comprometida, Secao
  <2> QED BY <2>3, <2>5 DEF AcertaPeterson
<1>8. PetersonInv'
  <2>1. algoritmo' = algoritmo /\ (ultrapassou => ultrapassou')
    BY <1>2 DEF historia
  <2> HIDE DEF b
  <2> QED BY <1>1, <1>2, <1>7, <2>1, PetersonMove
<1>9. AlternanciaInv' /\ SemaforoInv'
  BY <1>2, OutrosProgramas
<1> QED BY <1>5, <1>6, <1>8, <1>9 DEF IInv

LEMMA ComprometidaAnunciou ==
    ASSUME NEW p, NEW b, Comprometida(p, b)
    PROVE  Anunciou(p, b)
<1>1. Len(<<>>) <= 1
  OBVIOUS
<1> QED BY <1>1 DEF Comprometida, Anunciou

LEMMA PassoPetersonTestaFlag ==
    ASSUME IInv, NEW t \in Threads, PetersonTestaFlag(t)
    PROVE  IInv'
<1> DEFINE o == Outra(t)
           p == IF memoria.flag[o] = 1 THEN "testaTurn" ELSE "dentro"
           b == buffer[t]
<1>1. Tipos /\ PetersonInv /\ ContasInv
  BY DEF IInv
<1>2. /\ pc[t] = "testaFlag" /\ pc' = [pc EXCEPT ![t] = p]
      /\ ultimo' = (IF memoria.flag[o] = 1 THEN ultimo ELSE t)
      /\ ultrapassou' = (ultrapassou \/ b # <<>>)
      /\ UNCHANGED <<algoritmo, memoria, buffer, semaphore, mainPostou, fila, erro, conta>>
  BY DEF PetersonTestaFlag, Passa
<1>0. algoritmo = "peterson" /\ p \in {"testaTurn", "dentro"}
  BY <1>2, LugarPeterson
<1>4. buffer' = [buffer EXCEPT ![t] = b] /\ buffer' \in [Threads -> Seq(Escritas)]
  BY <1>1, <1>2 DEF Tipos
<1> HIDE DEF p
<1>5. Tipos'
  <2>1. UNCHANGED <<algoritmo, fila, erro, contadores, reg, tick, saldo, disputa>>
        /\ memoria' = memoria /\ semaphore' \in 0..1 /\ mainPostou' \in BOOLEAN
        /\ ultimo' \in Threads
        /\ pc[t] # "poe" /\ p \in Lugares \ {"poe", "grava"}
    BY <1>0, <1>1, <1>2 DEF Tipos, conta, Lugares
  <2>2. ultrapassou' \in BOOLEAN
    BY <1>2, Zenon
  <2> QED BY <1>1, <1>2, <1>4, <2>1, <2>2, TiposMove
<1>6. ContasInv'
  <2>1. UNCHANGED <<buffer, contadores, saldo, tick, disputa>>
        /\ \A x \in Threads : pc'[x] = "grava" => pc[x] = "grava" /\ reg'[x] = reg[x]
    BY <1>0, <1>1, <1>2 DEF Tipos, conta
  <2> QED BY <1>1, <2>1, ContasParado
<1>7. algoritmo = "peterson" /\ ~ultrapassou' => AcertaPeterson(t, p, b, memoria')
  <2> SUFFICES ASSUME ~ultrapassou, b = <<>> PROVE AcertaPeterson(t, p, b, memoria)
    BY <1>2
  <2>1. /\ Anunciou("testaFlag", b) => memoria.flag[t] = 1
        /\ Anunciou(pc[o], buffer[o]) => memoria.flag[o] = 1
        /\ pc[o] \in Secao /\ Comprometida("testaFlag", b) => memoria.turn = o
    BY <1>0, <1>1, <1>2, Duas DEF PetersonInv
  <2>2. Comprometida("testaFlag", b)
    BY DEF Comprometida
  <2>3. Anunciou("testaFlag", b)
    BY <2>2, ComprometidaAnunciou
  <2>4. Atraso("peterson", t, Feitas(p), b)
    BY FeitasTipo, AtrasoVazio
  <2>5. p \in Secao /\ Comprometida(pc[o], buffer[o]) => memoria.turn = t
    <3> SUFFICES ASSUME p \in Secao, Comprometida(pc[o], buffer[o]) PROVE FALSE
      OBVIOUS
    <3>1. memoria.flag[o] = 1
      BY <2>1, ComprometidaAnunciou
    <3> QED BY <3>1 DEF p, Secao
  <2> QED BY <2>1, <2>2, <2>3, <2>4, <2>5 DEF AcertaPeterson
<1>8. PetersonInv'
  <2>1. algoritmo' = algoritmo /\ (ultrapassou => ultrapassou')
    BY <1>2
  <2> HIDE DEF b
  <2> QED BY <1>1, <1>2, <1>4, <1>7, <2>1, PetersonMove
<1>9. AlternanciaInv' /\ SemaforoInv'
  BY <1>0, <1>2, OutrosProgramas
<1> QED BY <1>5, <1>6, <1>8, <1>9 DEF IInv

\* With no store of the turn on the way the memory is read.
LEMMA LeTurnVazio ==
    ASSUME NEW t, buffer[t] = <<>>
    PROVE  LeTurn(t) = memoria.turn
<1>1. NoBuffer(t, "turn") = {}
  BY DEF NoBuffer
<1> QED BY <1>1 DEF LeTurn, Le

LEMMA PassoPetersonTestaTurn ==
    ASSUME IInv, NEW t \in Threads, PetersonTestaTurn(t)
    PROVE  IInv'
<1> DEFINE o == Outra(t)
           p == IF LeTurn(t) = o THEN "testaFlag" ELSE "dentro"
           b == buffer[t]
<1>1. Tipos /\ PetersonInv /\ ContasInv
  BY DEF IInv
<1>2. /\ pc[t] = "testaTurn" /\ pc' = [pc EXCEPT ![t] = p]
      /\ ultimo' = (IF LeTurn(t) = o THEN ultimo ELSE t)
      /\ UNCHANGED <<algoritmo, memoria, buffer, semaphore, mainPostou, fila, erro, conta, ultrapassou>>
  BY DEF PetersonTestaTurn, Passa
<1>0. algoritmo = "peterson" /\ p \in {"testaFlag", "dentro"}
  BY <1>2, LugarPeterson
<1>4. buffer' = [buffer EXCEPT ![t] = b] /\ buffer' \in [Threads -> Seq(Escritas)]
      /\ b \in Seq(Escritas)
  BY <1>1, <1>2 DEF Tipos
<1> HIDE DEF p
<1>5. Tipos'
  <2>1. UNCHANGED <<algoritmo, fila, erro, contadores, reg, tick, saldo, disputa>>
        /\ memoria' = memoria /\ semaphore' \in 0..1 /\ mainPostou' \in BOOLEAN
        /\ ultimo' \in Threads /\ ultrapassou' \in BOOLEAN
        /\ pc[t] # "poe" /\ p \in Lugares \ {"poe", "grava"}
    BY <1>0, <1>1, <1>2 DEF Tipos, conta, Lugares
  <2> QED BY <1>1, <1>2, <1>4, <2>1, TiposMove
<1>6. ContasInv'
  <2>1. UNCHANGED <<buffer, contadores, saldo, tick, disputa>>
        /\ \A x \in Threads : pc'[x] = "grava" => pc[x] = "grava" /\ reg'[x] = reg[x]
    BY <1>0, <1>1, <1>2 DEF Tipos, conta
  <2> QED BY <1>1, <2>1, ContasParado
<1>7. algoritmo = "peterson" /\ ~ultrapassou' => AcertaPeterson(t, p, b, memoria')
  <2> SUFFICES ASSUME ~ultrapassou PROVE AcertaPeterson(t, p, b, memoria)
    BY <1>2
  <2>1. /\ Anunciou("testaTurn", b) => memoria.flag[t] = 1
        /\ pc[o] \in Secao /\ Comprometida("testaTurn", b) => memoria.turn = o
        /\ Atraso("peterson", t, Feitas("testaTurn"), b)
    BY <1>0, <1>1, <1>2, Duas DEF PetersonInv
  <2>2. Comprometida("testaTurn", b) /\ Anunciou("testaTurn", b)
    BY DEF Comprometida, Anunciou
  <2>3. b = <<>>
    <3>1. PICK k \in Nat : k = Feitas("testaTurn") /\ k = 0
      BY FeitasLugares
    <3>2. Len(b) \in Nat /\ Len(b) <= k /\ (Len(b) = 0 <=> b = <<>>)
      BY <1>4, <2>1, <3>1, AtrasoCurto
    <3> QED BY <3>1, <3>2
  <2>4. Atraso("peterson", t, Feitas(p), b)
    BY <2>3, FeitasTipo, AtrasoVazio
  <2>5. p \in Secao => memoria.turn = t
    <3>1. LeTurn(t) = memoria.turn /\ memoria.turn \in Threads
      BY <1>1, <2>3, LeTurnVazio DEF Tipos, Threads
    <3>2. p \in Secao => memoria.turn # o
      BY <3>1 DEF p, Secao
    <3> QED BY <3>1, <3>2, Duas
  <2> QED BY <2>1, <2>2, <2>4, <2>5 DEF AcertaPeterson
<1>8. PetersonInv'
  <2>1. algoritmo' = algoritmo /\ (ultrapassou => ultrapassou')
    BY <1>2
  <2> HIDE DEF b
  <2> QED BY <1>1, <1>2, <1>4, <1>7, <2>1, PetersonMove
<1>9. AlternanciaInv' /\ SemaforoInv'
  BY <1>0, <1>2, OutrosProgramas
<1> QED BY <1>5, <1>6, <1>8, <1>9 DEF IInv

\* A thread that has given its turn away reads that it has.
LEMMA LeTurnPendente ==
    ASSUME Tipos, NEW t \in Threads, buffer[t] # <<>>,
           Atraso("alternancia", t, Feitas("inicio"), buffer[t])
    PROVE  LeTurn(t) = Outra(t)
<1> DEFINE b == buffer[t]
<1>1. b \in Seq(Escritas) /\ Len(b) \in Nat /\ Len(b) >= 1 /\ Len(b) \in 1..Len(b)
  BY EmptySeq DEF Tipos
<1>2. PICK u \in 1..Len(b) : u = Len(b)
  BY <1>1
<1>3. b[u].onde = "turn" /\ b[u].valor = Outra(t)
  <2>1. DaRodada("alternancia", t, Feitas("inicio") - (Len(b) - u), b[u])
    BY DEF Atraso
  <2>2. Feitas("inicio") - (Len(b) - u) = 2
    BY <1>1, <1>2, FeitasLugares
  <2> QED BY <2>1, <2>2 DEF DaRodada
<1>4. u \in NoBuffer(t, "turn") /\ \A j \in NoBuffer(t, "turn") : j \in Int /\ j <= u
  BY <1>1, <1>2, <1>3 DEF NoBuffer
<1> DEFINE i == CHOOSE k \in NoBuffer(t, "turn") : \A j \in NoBuffer(t, "turn") : j <= k
<1>5. i \in NoBuffer(t, "turn") /\ u <= i
  BY <1>4
<1>6. i = u
  <2>1. i <= u /\ i \in Int /\ u \in Int
    BY <1>4, <1>5
  <2> HIDE DEF i
  <2> QED BY <1>5, <2>1
<1>7. LeTurn(t) = b[i].valor
  BY <1>4 DEF LeTurn, Le
<1> HIDE DEF i
<1> QED BY <1>3, <1>6, <1>7

\* A thread enters with the turn, after the other one has left.
LEMMA EntraNaVez ==
    ASSUME IInv, NEW t \in Threads, AlternanciaEntra(t)
    PROVE  /\ buffer[t] = <<>> /\ memoria.turn = t /\ ultimo = Outra(t)
           /\ ~Ativa(pc[Outra(t)], buffer[Outra(t)])
<1> DEFINE o == Outra(t)
<1>1. algoritmo = "alternancia" /\ pc[t] = "inicio" /\ LeTurn(t) = t
  BY DEF AlternanciaEntra, Passa
<1>2. /\ Tipos /\ Atraso("alternancia", t, Feitas("inicio"), buffer[t])
      /\ Ativa(pc[o], buffer[o]) => memoria.turn = o
      /\ ultimo = IF Ativa(pc[memoria.turn], buffer[memoria.turn]) THEN memoria.turn
                  ELSE Outra(memoria.turn)
  BY <1>1, Duas DEF IInv, AlternanciaInv
<1>3. o # t
  BY Duas
<1>4. buffer[t] = <<>>
  BY <1>1, <1>2, <1>3, LeTurnPendente
<1>5. memoria.turn = t
  BY <1>1, <1>4, LeTurnVazio
<1>6. ~Ativa(pc[t], buffer[t])
  BY <1>1, <1>4 DEF Ativa, Secao
<1> QED BY <1>2, <1>3, <1>4, <1>5, <1>6

LEMMA PassoAlternanciaEntra ==
    ASSUME IInv, NEW t \in Threads, AlternanciaEntra(t)
    PROVE  IInv'
<1> DEFINE b == buffer[t]
<1>1. Tipos /\ AlternanciaInv /\ ContasInv
  BY DEF IInv
<1>2. /\ algoritmo = "alternancia" /\ pc[t] = "inicio" /\ pc' = [pc EXCEPT ![t] = "dentro"]
      /\ ultimo' = t
      /\ UNCHANGED <<algoritmo, memoria, buffer, semaphore, mainPostou, fila, erro, conta, ultrapassou>>
  BY DEF AlternanciaEntra, Passa
<1>3. /\ b = <<>> /\ memoria.turn = t /\ ~Ativa(pc[Outra(t)], buffer[Outra(t)])
  BY EntraNaVez
<1>4. buffer' = [buffer EXCEPT ![t] = b] /\ buffer' \in [Threads -> Seq(Escritas)]
  BY <1>1, <1>2 DEF Tipos
<1>5. Tipos'
  <2>1. UNCHANGED <<algoritmo, fila, erro, contadores, reg, tick, saldo, disputa>>
        /\ memoria' = memoria /\ semaphore' \in 0..1 /\ mainPostou' \in BOOLEAN
        /\ ultimo' \in Threads /\ ultrapassou' \in BOOLEAN
        /\ pc[t] # "poe" /\ "dentro" \in Lugares \ {"poe", "grava"}
    BY <1>1, <1>2 DEF Tipos, conta, Lugares
  <2> QED BY <1>1, <1>2, <1>4, <2>1, TiposMove
<1>6. ContasInv'
  <2>1. UNCHANGED <<buffer, contadores, saldo, tick, disputa>>
        /\ \A x \in Threads : pc'[x] = "grava" => pc[x] = "grava" /\ reg'[x] = reg[x]
    BY <1>1, <1>2 DEF Tipos, conta
  <2> QED BY <1>1, <2>1, ContasParado
<1>7. AcertaAlternancia(t, "dentro", b, memoria', ultimo')
  <2>1. Atraso("alternancia", t, Feitas("dentro"), b)
    BY <1>3, FeitasTipo, AtrasoVazio
  <2>2. Ativa("dentro", b) /\ "dentro" \in Secao
    BY DEF Ativa, Secao
  <2> QED BY <1>2, <1>3, <2>1, <2>2, Duas DEF AcertaAlternancia
<1>8. AlternanciaInv'
  <2> HIDE DEF b
  <2> QED BY <1>1, <1>2, <1>4, <1>5, <1>7, AlternanciaMove
<1>9. PetersonInv' /\ SemaforoInv'
  BY <1>2, OutrosProgramas
<1> QED BY <1>5, <1>6, <1>8, <1>9 DEF IInv

\* The value that aula_7_alternancia.c computes is the other thread.
LEMMA ProximaVez ==
    ASSUME NEW t \in Threads
    PROVE  (t + 1) % 2 = Outra(t)
<1>1. (0 + 1) % 2 = 1 /\ (1 + 1) % 2 = 0
  OBVIOUS
<1> QED BY <1>1 DEF Threads, Outra

LEMMA PassoAlternanciaSai ==
    ASSUME IInv, NEW t \in Threads, AlternanciaSai(t)
    PROVE  IInv'
<1> DEFINE o == Outra(t)
           e == Escrita("turn", (LeTurn(t) + 1) % 2)
           b == Append(buffer[t], e)
<1>1. Tipos /\ AlternanciaInv /\ ContasInv
  BY DEF IInv
<1>2. /\ algoritmo = "alternancia" /\ pc[t] = "sai" /\ pc' = [pc EXCEPT ![t] = "inicio"]
      /\ buffer' = [buffer EXCEPT ![t] = Append(@, e)] /\ buffer' = [buffer EXCEPT ![t] = b]
      /\ UNCHANGED <<algoritmo, memoria, semaphore, mainPostou, fila, erro, conta, historia>>
  BY DEF AlternanciaSai, Passa, Guarda
<1>3. /\ Atraso("alternancia", t, Feitas("sai"), buffer[t])
      /\ Ativa("sai", buffer[t]) => memoria.turn = t
      /\ Ativa(pc[o], buffer[o]) => memoria.turn = o
      /\ ultimo = IF Ativa(pc[memoria.turn], buffer[memoria.turn]) THEN memoria.turn
                  ELSE Outra(memoria.turn)
  BY <1>1, <1>2, Duas DEF AlternanciaInv
<1>4. Ativa("sai", buffer[t])
  BY DEF Ativa, Secao
<1>10. LeTurn(t) = memoria.turn
  <2>1. Feitas("sai") = 1 /\ Len(buffer[t]) \in Nat
    BY <1>1, FeitasLugares, EmptySeq DEF Tipos
  <2>2. ASSUME NEW i \in 1..Len(buffer[t]) PROVE buffer[t][i].onde # "turn"
    <3>1. DaRodada("alternancia", t, Feitas("sai") - (Len(buffer[t]) - i), buffer[t][i])
      BY <1>3 DEF Atraso
    <3>2. Feitas("sai") - (Len(buffer[t]) - i) # 2
      BY <2>1
    <3> QED BY <3>1, <3>2 DEF DaRodada
  <2>3. NoBuffer(t, "turn") = {}
    BY <2>2 DEF NoBuffer
  <2> QED BY <2>3 DEF LeTurn, Le
<1>11. e.onde = "turn" /\ e.valor = o
  BY <1>3, <1>4, <1>10, ProximaVez DEF Escrita
<1>12. e \in Escritas /\ buffer[t] \in Seq(Escritas)
  BY <1>1, <1>3, <1>4, <1>10, ProximaVez, Duas DEF Escrita, Escritas, Tipos, Threads
<1> HIDE DEF e
<1>13. buffer' \in [Threads -> Seq(Escritas)]
  BY <1>1, <1>2, <1>12, BufferTipo
<1>5. Tipos'
  <2>1. UNCHANGED <<algoritmo, fila, erro, contadores, reg, tick, saldo, disputa>>
        /\ memoria' = memoria /\ semaphore' \in 0..1 /\ mainPostou' \in BOOLEAN
        /\ ultimo' \in Threads /\ ultrapassou' \in BOOLEAN
        /\ pc[t] # "poe" /\ "inicio" \in Lugares \ {"poe", "grava"}
    BY <1>1, <1>2 DEF Tipos, conta, historia, Lugares
  <2> QED BY <1>1, <1>2, <1>13, <2>1, TiposMove
<1>6. ContasInv'
  <2>1. UNCHANGED <<contadores, saldo, tick, disputa>> /\ e.onde # "conta"
        /\ \A x \in Threads : pc'[x] = "grava" => pc[x] = "grava" /\ reg'[x] = reg[x]
    BY <1>1, <1>2, <1>11 DEF Tipos, conta
  <2> QED BY <1>1, <1>2, <1>12, <2>1, ContasGuarda
<1>7. AcertaAlternancia(t, "inicio", b, memoria', ultimo')
  <2>2. Feitas("sai") = 1 /\ Feitas("inicio") = 2
    BY FeitasLugares
  <2>3. Atraso("alternancia", t, Feitas("inicio"), b)
    <3>1. DaRodada("alternancia", t, Feitas("inicio"), e)
      BY <1>11, <2>2 DEF DaRodada
    <3>2. Feitas("inicio") = Feitas("sai") + 1
      BY <2>2
    <3> QED BY <1>3, <1>12, <3>1, <3>2, AtrasoGuarda
  <2>4. Ativa("inicio", b)
    BY <1>12, AppendProperties DEF Ativa
  <2> HIDE DEF b
  <2>5. memoria' = memoria /\ ultimo' = ultimo /\ o # t
    BY <1>2, Duas DEF historia
  <2> QED BY <1>2, <1>3, <1>4, <2>3, <2>4, <2>5 DEF AcertaAlternancia
<1>8. AlternanciaInv'
  <2> HIDE DEF b
  <2> QED BY <1>1, <1>2, <1>5, <1>7, AlternanciaMove
<1>9. PetersonInv' /\ SemaforoInv'
  BY <1>2, OutrosProgramas
<1> QED BY <1>5, <1>6, <1>8, <1>9 DEF IInv

LEMMA PassoSemaforo ==
    ASSUME IInv, NEW t \in Threads, SemaforoEntra(t) \/ SemaforoSai(t)
    PROVE  IInv'
<1> DEFINE p == IF SemaforoEntra(t) THEN "dentro" ELSE "inicio"
<1>1. Tipos /\ SemaforoInv /\ ContasInv
  BY DEF IInv
<1>2. /\ algoritmo = "semaforo" /\ pc' = [pc EXCEPT ![t] = p] /\ ultimo' \in {ultimo, t}
      /\ \/ pc[t] = "inicio" /\ p = "dentro" /\ semaphore > 0 /\ semaphore' = semaphore - 1
         \/ pc[t] = "sai" /\ p = "inicio" /\ semaphore' = semaphore + 1
      /\ UNCHANGED <<algoritmo, memoria, buffer, mainPostou, fila, erro, conta, ultrapassou>>
  <2>1. CASE SemaforoEntra(t)
    <3>1. p = "dentro"
      BY <2>1
    <3>2. /\ algoritmo = "semaforo" /\ pc[t] = "inicio" /\ pc' = [pc EXCEPT ![t] = "dentro"]
          /\ ultimo' = t /\ semaphore > 0 /\ semaphore' = semaphore - 1
          /\ UNCHANGED <<algoritmo, memoria, buffer, mainPostou, fila, erro, conta, ultrapassou>>
      BY <2>1 DEF SemaforoEntra, Passa
    <3> HIDE DEF p
    <3> QED BY <3>1, <3>2
  <2>2. CASE ~SemaforoEntra(t)
    <3>1. p = "inicio" /\ SemaforoSai(t)
      BY <2>2
    <3> HIDE DEF p
    <3> QED BY <3>1 DEF SemaforoSai, Passa, historia
  <2> QED BY <2>1, <2>2
<1> HIDE DEF p
<1>3. semaphore' + Um(p) = semaphore + Um(pc[t]) /\ p \in {"inicio", "dentro"}
  BY <1>1, <1>2 DEF Um, Secao, Tipos
<1>4. semaphore' \in 0..1
  <2>1. CASE p = "dentro"
    BY <1>1, <1>2, <2>1 DEF Tipos
  <2>2. CASE p = "inicio"
    <3>1. Um(pc[0]) \in 0..1 /\ Um(pc[1]) \in 0..1 /\ Um(pc[t]) = 1
      BY <1>2, <2>2 DEF Um, Secao
    <3>2. semaphore + Um(pc[0]) + Um(pc[1]) <= 1 /\ semaphore \in 0..1
      BY <1>1, <1>2 DEF SemaforoInv, Tipos
    <3>3. semaphore = 0
      BY <3>1, <3>2 DEF Threads
    <3> QED BY <1>2, <2>2, <3>3
  <2> QED BY <1>3, <2>1, <2>2
<1>5. Tipos'
  <2>1. UNCHANGED <<algoritmo, fila, erro, contadores, reg, tick, saldo, disputa>>
        /\ memoria' = memoria /\ mainPostou' \in BOOLEAN
        /\ ultimo' \in Threads /\ ultrapassou' \in BOOLEAN
        /\ buffer' \in [Threads -> Seq(Escritas)]
        /\ pc[t] # "poe" /\ p \in Lugares \ {"poe", "grava"}
    BY <1>1, <1>2, <1>3 DEF Tipos, conta, Lugares
  <2> QED BY <1>1, <1>2, <1>4, <2>1, TiposMove
<1>6. ContasInv'
  <2>1. UNCHANGED <<buffer, contadores, saldo, tick, disputa>>
        /\ \A x \in Threads : pc'[x] = "grava" => pc[x] = "grava" /\ reg'[x] = reg[x]
    BY <1>1, <1>2, <1>3 DEF Tipos, conta
  <2> QED BY <1>1, <2>1, ContasParado
<1>7. SemaforoInv'
  BY <1>1, <1>2, <1>3, <1>5, SemaforoMove
<1>8. PetersonInv' /\ AlternanciaInv'
  BY <1>2, OutrosProgramas
<1> QED BY <1>5, <1>6, <1>7, <1>8 DEF IInv

LEMMA PassoMainPosta ==
    ASSUME IInv, MainPosta
    PROVE  IInv'
<1>1. Tipos /\ SemaforoInv /\ ContasInv
  BY DEF IInv
<1>2. /\ algoritmo = "semaforo" /\ ~mainPostou /\ mainPostou' = TRUE /\ semaphore' = semaphore + 1
      /\ UNCHANGED <<algoritmo, memoria, buffer, pc, fila, erro, conta, historia>>
  BY DEF MainPosta
<1>3. semaphore' + Um(pc[0]) + Um(pc[1]) = 1 /\ semaphore' \in 0..1
  <2>1. Um(pc[0]) \in 0..1 /\ Um(pc[1]) \in 0..1
    BY DEF Um
  <2>2. semaphore + Um(pc[0]) + Um(pc[1]) = 0 /\ semaphore \in 0..1
    BY <1>1, <1>2 DEF SemaforoInv, Tipos
  <2> QED BY <1>2, <2>1, <2>2
<1>4. SemaforoInv'
  BY <1>1, <1>2, <1>3 DEF SemaforoInv
<1>5. Tipos'
  BY <1>1, <1>2, <1>3 DEF Tipos, conta, historia
<1>6. ContasInv'
  BY <1>1, <1>2, ContasParado DEF conta
<1>7. PetersonInv' /\ AlternanciaInv'
  BY <1>2, OutrosProgramas
<1> QED BY <1>4, <1>5, <1>6, <1>7 DEF IInv

LEMMA PassoPop ==
    ASSUME IInv, NEW t \in Threads, Pop(t)
    PROVE  IInv'
<1>1. Tipos /\ ContasInv
  BY DEF IInv
<1>2. /\ erro = "nao" /\ pc[t] = "dentro" /\ pc' = [pc EXCEPT ![t] = "poe"]
      /\ \/ erro' = "segv" /\ fila' = fila
         \/ fila # 0 /\ fila' = fila - 1 /\ erro' = erro
      /\ UNCHANGED <<algoritmo, memoria, buffer, semaphore, mainPostou, conta, historia>>
  BY DEF Pop, Passa
<1>3. Tipos'
  <2>1. /\ Mao(pc'[0]) + Mao(pc'[1]) = Mao(pc[0]) + Mao(pc[1]) - Mao(pc[t]) + Mao("poe")
        /\ Mao(pc[0]) \in 0..1 /\ Mao(pc[1]) \in 0..1
    BY <1>1, <1>2, MaoMove
  <2>2. Mao(pc[t]) = 0 /\ Mao("poe") = 1
    BY <1>2 DEF Mao
  <2>3. Mao(pc'[0]) \in 0..1 /\ Mao(pc'[1]) \in 0..1
    BY DEF Mao
  <2>4. fila \in 0..FILA /\ FILA \in Nat /\ fila + Mao(pc[0]) + Mao(pc[1]) <= FILA
    BY <1>1, <1>2, ConstantesAssumption DEF Tipos
  <2>5. fila' \in 0..FILA /\ erro' \in {"nao", "segv"}
    BY <1>2, <2>4
  <2>6. erro' = "nao" => fila' + Mao(pc'[0]) + Mao(pc'[1]) <= FILA
    BY <1>2, <2>1, <2>2, <2>3, <2>4
  <2>7. pc' \in [Threads -> Lugares] /\ \A x \in Threads : pc'[x] = "grava" => pc[x] = "grava"
    BY <1>1, <1>2 DEF Tipos, Lugares
  <2> QED BY <1>1, <1>2, <2>5, <2>6, <2>7 DEF Tipos, conta, historia
<1>4. PetersonInv' /\ AlternanciaInv' /\ SemaforoInv'
  <2>1. "poe" \in Secao /\ pc[t] \in Secao \ {"sai"}
    BY <1>2 DEF Secao
  <2> QED BY <1>2, <1>3, <2>1, SecaoMove DEF historia
<1>5. ContasInv'
  <2>1. UNCHANGED <<buffer, contadores, saldo, tick, disputa>>
        /\ \A x \in Threads : pc'[x] = "grava" => pc[x] = "grava" /\ reg'[x] = reg[x]
    BY <1>1, <1>2 DEF Tipos, conta
  <2> QED BY <1>1, <2>1, ContasParado
<1> QED BY <1>3, <1>4, <1>5 DEF IInv

LEMMA PassoPush ==
    ASSUME IInv, NEW t \in Threads, Push(t)
    PROVE  IInv'
<1> DEFINE p == IF algoritmo = "semaforo" THEN "sai" ELSE "conta"
<1>1. Tipos /\ ContasInv
  BY DEF IInv
<1>2. /\ erro = "nao" /\ pc[t] = "poe" /\ pc' = [pc EXCEPT ![t] = p]
      /\ fila' \in {fila, fila + 1}
      /\ UNCHANGED <<algoritmo, memoria, buffer, semaphore, mainPostou, erro, conta, historia>>
  BY DEF Push, Passa
<1>0. p \in {"sai", "conta"} /\ (algoritmo = "semaforo" => p = "sai")
  OBVIOUS
<1> HIDE DEF p
<1>3. Tipos'
  <2>1. /\ Mao(pc'[0]) + Mao(pc'[1]) = Mao(pc[0]) + Mao(pc[1]) - Mao(pc[t]) + Mao(p)
        /\ Mao(pc[0]) \in 0..1 /\ Mao(pc[1]) \in 0..1
    BY <1>1, <1>2, MaoMove
  <2>2. Mao(pc[t]) = 1 /\ Mao(p) = 0
    BY <1>0, <1>2 DEF Mao
  <2>3. Mao(pc'[0]) \in 0..1 /\ Mao(pc'[1]) \in 0..1
    BY DEF Mao
  <2>4. fila \in 0..FILA /\ FILA \in Nat /\ fila + Mao(pc[0]) + Mao(pc[1]) <= FILA
    BY <1>1, <1>2, ConstantesAssumption DEF Tipos
  <2>5. fila' + Mao(pc'[0]) + Mao(pc'[1]) <= FILA /\ fila' \in 0..FILA
    BY <1>2, <2>1, <2>2, <2>3, <2>4
  <2>7. pc' \in [Threads -> Lugares] /\ \A x \in Threads : pc'[x] = "grava" => pc[x] = "grava"
    BY <1>0, <1>1, <1>2 DEF Tipos, Lugares
  <2> QED BY <1>1, <1>2, <2>5, <2>7 DEF Tipos, conta, historia
<1>4. PetersonInv' /\ AlternanciaInv' /\ SemaforoInv'
  <2>1. p \in Secao /\ pc[t] \in Secao \ {"sai"} /\ (algoritmo = "semaforo" => p \in {"dentro", "poe", "sai"})
    BY <1>0, <1>2 DEF Secao
  <2> QED BY <1>2, <1>3, <2>1, SecaoMove DEF historia
<1>5. ContasInv'
  <2>1. UNCHANGED <<buffer, contadores, saldo, tick, disputa>>
        /\ \A x \in Threads : pc'[x] = "grava" => pc[x] = "grava" /\ reg'[x] = reg[x]
    BY <1>0, <1>1, <1>2 DEF Tipos, conta
  <2> QED BY <1>1, <2>1, ContasParado
<1> QED BY <1>3, <1>4, <1>5 DEF IInv

LEMMA PassoContaLe ==
    ASSUME IInv, NEW t \in Threads, ContaLe(t)
    PROVE  IInv'
<1> DEFINE v == Le(t, "conta", contadores[t])
<1>1. Tipos /\ SemaforoInv /\ ContasInv
  BY DEF IInv
<1>2. /\ erro = "nao" /\ pc[t] = "conta" /\ pc' = [pc EXCEPT ![t] = "grava"]
      /\ v < MaxConta /\ reg' = [reg EXCEPT ![t] = v]
      /\ UNCHANGED <<algoritmo, memoria, buffer, semaphore, mainPostou, fila, erro, contadores, tick, saldo, disputa, historia>>
  BY DEF ContaLe, Passa
<1>0. v \in 0..MaxConta /\ Corrente(buffer[t], contadores[t], v)
  BY <1>1, LeCorrente
<1> HIDE DEF v
<1>3. Tipos'
  <2>1. /\ Mao(pc'[0]) + Mao(pc'[1]) = Mao(pc[0]) + Mao(pc[1]) - Mao(pc[t]) + Mao("grava")
        /\ Mao(pc[0]) \in 0..1 /\ Mao(pc[1]) \in 0..1
    BY <1>1, <1>2, MaoMove
  <2>2. Mao(pc[t]) = 0 /\ Mao("grava") = 0
    BY <1>2 DEF Mao
  <2>3. Mao(pc'[0]) \in 0..1 /\ Mao(pc'[1]) \in 0..1
    BY DEF Mao
  <2>4. fila \in 0..FILA /\ FILA \in Nat /\ fila + Mao(pc[0]) + Mao(pc[1]) <= FILA
    BY <1>1, <1>2, ConstantesAssumption DEF Tipos
  <2>5. fila' + Mao(pc'[0]) + Mao(pc'[1]) <= FILA
    BY <1>2, <2>1, <2>2, <2>3, <2>4
  <2>7. /\ pc' \in [Threads -> Lugares] /\ reg' \in [Threads -> 0..MaxConta]
        /\ \A x \in Threads : pc'[x] = "grava" => reg'[x] < MaxConta
    BY <1>0, <1>1, <1>2 DEF Tipos, Lugares
  <2> QED BY <1>1, <1>2, <2>5, <2>7 DEF Tipos, historia
<1>4. PetersonInv' /\ AlternanciaInv' /\ SemaforoInv'
  <2>1. "grava" \in Secao /\ pc[t] \in Secao \ {"sai"} /\ algoritmo # "semaforo"
    BY <1>1, <1>2 DEF Secao, SemaforoInv
  <2> QED BY <1>2, <1>3, <2>1, SecaoMove DEF historia
<1>5. ContasInv'
  <2>1. ASSUME ~disputa', NEW x \in Threads
        PROVE  /\ saldo'[x] = IF tick' \in VaiZerar(x) THEN 0 ELSE contadores'[x]
               /\ EmOrdem(buffer'[x], contadores'[x])
               /\ pc'[x] = "grava" => Corrente(buffer'[x], contadores'[x], reg'[x])
    <3>1. /\ saldo[x] = IF tick \in VaiZerar(x) THEN 0 ELSE contadores[x]
          /\ EmOrdem(buffer[x], contadores[x])
          /\ pc[x] = "grava" => Corrente(buffer[x], contadores[x], reg[x])
      BY <1>1, <1>2, <2>1 DEF ContasInv
    <3>2. reg'[x] = (IF x = t THEN v ELSE reg[x]) /\ (x # t => pc'[x] = pc[x])
      BY <1>1, <1>2 DEF Tipos
    <3> QED BY <1>0, <1>2, <3>1, <3>2
  <2> QED BY <2>1 DEF ContasInv
<1> QED BY <1>3, <1>4, <1>5 DEF IInv

\* The store of an increment: memory and turn stay as in the section.
LEMMA GravaNaSecao ==
    ASSUME IInv, Tipos', NEW t \in Threads, NEW e \in Escritas, e.onde = "conta", pc[t] = "grava",
           pc' = [pc EXCEPT ![t] = "sai"],
           buffer' = [buffer EXCEPT ![t] = Append(@, e)],
           UNCHANGED <<algoritmo, memoria, semaphore, mainPostou, ultimo, ultrapassou>>
    PROVE  PetersonInv' /\ AlternanciaInv' /\ SemaforoInv'
<1> DEFINE o == Outra(t)
           b == Append(buffer[t], e)
<1>1. Tipos /\ PetersonInv /\ AlternanciaInv /\ SemaforoInv
  BY DEF IInv
<1>2. buffer[t] \in Seq(Escritas) /\ buffer' = [buffer EXCEPT ![t] = b]
  BY <1>1 DEF Tipos
<1>3. /\ Anunciou("grava", buffer[t]) /\ Comprometida("grava", buffer[t])
      /\ Anunciou("sai", b) /\ Comprometida("sai", b)
      /\ Ativa("grava", buffer[t]) /\ Ativa("sai", b) /\ "grava" \in Secao /\ "sai" \in Secao
  BY DEF Anunciou, Comprometida, Ativa, Secao
<1>4. ASSUME NEW a, Atraso(a, t, Feitas("grava"), buffer[t]) PROVE Atraso(a, t, Feitas("sai"), b)
  <2>1. Feitas("sai") = Feitas("grava") + 1 /\ Feitas("sai") = 1
    BY DEF Feitas
  <2>2. DaRodada(a, t, Feitas("sai"), e)
    BY <2>1 DEF DaRodada
  <2> QED BY <1>2, <1>4, <2>1, <2>2, AtrasoGuarda
<1> HIDE DEF b
<1>5. algoritmo = "peterson" /\ ~ultrapassou' => AcertaPeterson(t, "sai", b, memoria')
  <2> SUFFICES ASSUME algoritmo = "peterson", ~ultrapassou
               PROVE  AcertaPeterson(t, "sai", b, memoria)
    OBVIOUS
  <2>1. /\ Atraso("peterson", t, Feitas("grava"), buffer[t])
        /\ Anunciou("grava", buffer[t]) => memoria.flag[t] = 1
        /\ "grava" \in Secao /\ Comprometida(pc[o], buffer[o]) => memoria.turn = t
        /\ pc[o] \in Secao /\ Comprometida("grava", buffer[t]) => memoria.turn = o
    BY <1>1, Duas DEF PetersonInv
  <2> QED BY <1>3, <1>4, <2>1 DEF AcertaPeterson
<1>6. PetersonInv'
  BY <1>1, <1>2, <1>5, PetersonMove
<1>7. algoritmo = "alternancia" => AcertaAlternancia(t, "sai", b, memoria', ultimo')
  <2> SUFFICES ASSUME algoritmo = "alternancia"
               PROVE  AcertaAlternancia(t, "sai", b, memoria, ultimo)
    OBVIOUS
  <2>1. /\ Atraso("alternancia", t, Feitas("grava"), buffer[t])
        /\ Ativa("grava", buffer[t]) => memoria.turn = t
        /\ Ativa(pc[o], buffer[o]) => memoria.turn = o
        /\ ultimo = IF Ativa(pc[memoria.turn], buffer[memoria.turn]) THEN memoria.turn
                    ELSE Outra(memoria.turn)
    BY <1>1, Duas DEF AlternanciaInv
  <2> QED BY <1>3, <1>4, <2>1, Duas DEF AcertaAlternancia
<1>8. AlternanciaInv'
  BY <1>1, <1>2, <1>7, AlternanciaMove
<1>9. algoritmo # "semaforo"
  BY <1>1 DEF SemaforoInv
<1> QED BY <1>6, <1>8, <1>9, OutrosProgramas

LEMMA PassoContaGrava ==
    ASSUME IInv, NEW t \in Threads, ContaGrava(t)
    PROVE  IInv'
<1> DEFINE e == Escrita("conta", reg[t] + 1)
<1>1. Tipos /\ SemaforoInv /\ ContasInv
  BY DEF IInv
<1>2. /\ erro = "nao" /\ pc[t] = "grava" /\ pc' = [pc EXCEPT ![t] = "sai"]
      /\ IF disputa THEN buffer' = buffer ELSE buffer' = [buffer EXCEPT ![t] = Append(@, e)]
      /\ reg' = [reg EXCEPT ![t] = 0]
      /\ UNCHANGED <<algoritmo, memoria, semaphore, mainPostou, fila, erro, contadores, tick, saldo, disputa, historia>>
  BY DEF ContaGrava, Passa, Guarda
<1>3. e \in Escritas /\ e.onde = "conta" /\ e.valor = reg[t] + 1 /\ buffer[t] \in Seq(Escritas)
  <2>1. reg[t] \in 0..MaxConta /\ reg[t] < MaxConta /\ MaxConta \in Nat
    BY <1>1, <1>2, ConstantesAssumption DEF Tipos
  <2>2. reg[t] + 1 \in 1..MaxConta
    BY <2>1
  <2> QED BY <1>1, <2>2 DEF Escrita, Escritas, Tipos
<1> HIDE DEF e
<1>4. Tipos'
  <2>1. /\ Mao(pc'[0]) + Mao(pc'[1]) = Mao(pc[0]) + Mao(pc[1]) - Mao(pc[t]) + Mao("sai")
        /\ Mao(pc[0]) \in 0..1 /\ Mao(pc[1]) \in 0..1
    BY <1>1, <1>2, MaoMove
  <2>2. Mao(pc[t]) = 0 /\ Mao("sai") = 0
    BY <1>2 DEF Mao
  <2>3. Mao(pc'[0]) \in 0..1 /\ Mao(pc'[1]) \in 0..1
    BY DEF Mao
  <2>4. fila \in 0..FILA /\ FILA \in Nat /\ MaxConta \in Nat /\ fila + Mao(pc[0]) + Mao(pc[1]) <= FILA
    BY <1>1, <1>2, ConstantesAssumption DEF Tipos
  <2>5. fila' + Mao(pc'[0]) + Mao(pc'[1]) <= FILA
    BY <1>2, <2>1, <2>2, <2>3, <2>4
  <2>6. buffer' \in [Threads -> Seq(Escritas)]
    <3>1. CASE disputa
      BY <1>1, <1>2, <3>1 DEF Tipos
    <3>2. CASE ~disputa
      BY <1>1, <1>2, <1>3, <3>2, BufferTipo
    <3> QED BY <3>1, <3>2
  <2>7. /\ pc' \in [Threads -> Lugares] /\ reg' \in [Threads -> 0..MaxConta]
        /\ \A x \in Threads : pc'[x] = "grava" => reg'[x] < MaxConta
    <3>1. 0 \in 0..MaxConta
      BY <2>4
    <3>2. pc' \in [Threads -> Lugares] /\ reg' \in [Threads -> 0..MaxConta]
      BY <1>1, <1>2, <3>1 DEF Tipos, Lugares
    <3>3. ASSUME NEW x \in Threads, pc'[x] = "grava" PROVE reg'[x] < MaxConta
      <4>1. x # t /\ pc[x] = "grava" /\ reg'[x] = reg[x]
        BY <1>1, <1>2, <3>3 DEF Tipos
      <4> QED BY <1>1, <4>1 DEF Tipos
    <3> QED BY <3>2, <3>3
  <2> QED BY <1>1, <1>2, <2>5, <2>6, <2>7 DEF Tipos, historia
<1>5. PetersonInv' /\ AlternanciaInv' /\ SemaforoInv'
  <2>1. CASE disputa
    <3>1. "sai" \in Secao /\ pc[t] \in Secao \ {"sai"} /\ buffer' = buffer
      BY <1>2, <2>1 DEF Secao
    <3> QED BY <1>2, <1>4, <3>1, SecaoMove DEF historia
  <2>2. CASE ~disputa
    BY <1>2, <1>3, <1>4, <2>2, GravaNaSecao DEF historia
  <2> QED BY <2>1, <2>2
<1>6. ContasInv'
  <2>1. ASSUME ~disputa', NEW x \in Threads
        PROVE  /\ saldo'[x] = IF tick' \in VaiZerar(x) THEN 0 ELSE contadores'[x]
               /\ EmOrdem(buffer'[x], contadores'[x])
               /\ pc'[x] = "grava" => Corrente(buffer'[x], contadores'[x], reg'[x])
    <3>1. ~disputa /\ buffer' = [buffer EXCEPT ![t] = Append(@, e)]
      BY <1>2, <2>1
    <3>2. /\ saldo[x] = IF tick \in VaiZerar(x) THEN 0 ELSE contadores[x]
          /\ EmOrdem(buffer[x], contadores[x])
          /\ pc[x] = "grava" => Corrente(buffer[x], contadores[x], reg[x])
      BY <1>1, <3>1 DEF ContasInv
    <3>3. buffer'[x] = IF x = t THEN Append(buffer[x], e) ELSE buffer[x]
      BY <1>1, <3>1 DEF Tipos
    <3>4. CASE x = t
      <4>1. EmOrdem(Append(buffer[x], e), contadores[x])
        BY <1>2, <1>3, <3>2, <3>4, AppendConta
      <4>2. pc'[x] = "sai"
        BY <1>1, <1>2, <3>4 DEF Tipos
      <4> QED BY <1>2, <3>2, <3>3, <3>4, <4>1, <4>2
    <3>5. CASE x # t
      <4>1. pc'[x] = pc[x] /\ reg'[x] = reg[x]
        BY <1>1, <1>2, <3>5 DEF Tipos
      <4> QED BY <1>2, <3>2, <3>3, <3>5, <4>1
    <3> QED BY <3>4, <3>5
  <2> QED BY <2>1 DEF ContasInv
<1> QED BY <1>4, <1>5, <1>6 DEF IInv

LEMMA ProgramaParado ==
    ASSUME IInv, UNCHANGED <<algoritmo, memoria, buffer, semaphore, mainPostou, pc, historia>>
    PROVE  PetersonInv' /\ AlternanciaInv' /\ SemaforoInv'
<1>1. PetersonInv'
  BY DEF IInv, PetersonInv, historia
<1>2. AlternanciaInv'
  BY DEF IInv, AlternanciaInv, historia
<1>3. SemaforoInv'
  BY DEF IInv, SemaforoInv, historia
<1> QED BY <1>1, <1>2, <1>3

LEMMA PassoTickImprime ==
    ASSUME IInv, TickImprime
    PROVE  IInv'
<1>1. Tipos /\ ContasInv
  BY DEF IInv
<1>2. /\ ~disputa /\ tick = "fora" /\ tick' = "zera0"
      /\ saldo' = [x \in Threads |-> saldo[x] - contadores[x]]
      /\ UNCHANGED <<algoritmo, memoria, buffer, semaphore, mainPostou, pc, fila, erro, contadores, reg, disputa, historia>>
  BY DEF TickImprime
<1>3. \A x \in Threads : saldo'[x] = 0 /\ EmOrdem(buffer[x], contadores[x])
                         /\ (pc[x] = "grava" => Corrente(buffer[x], contadores[x], reg[x]))
  <2> SUFFICES ASSUME NEW x \in Threads
               PROVE  saldo'[x] = 0 /\ EmOrdem(buffer[x], contadores[x])
                      /\ (pc[x] = "grava" => Corrente(buffer[x], contadores[x], reg[x]))
    OBVIOUS
  <2>1. tick \notin VaiZerar(x)
    BY <1>2 DEF VaiZerar
  <2>2. saldo[x] = contadores[x] /\ contadores[x] \in Int
    BY <1>1, <1>2, <2>1 DEF ContasInv, Tipos
  <2> QED BY <1>1, <1>2, <2>2 DEF ContasInv
<1>4. Tipos'
  <2>1. saldo' \in [Threads -> Int]
    BY <1>2, <1>3
  <2> QED BY <1>1, <1>2, <2>1 DEF Tipos, historia
<1>5. ContasInv'
  <2>1. \A x \in Threads : "zera0" \in VaiZerar(x)
    BY DEF VaiZerar
  <2> QED BY <1>2, <1>3, <2>1 DEF ContasInv
<1>6. PetersonInv' /\ AlternanciaInv' /\ SemaforoInv'
  BY <1>2, ProgramaParado
<1> QED BY <1>4, <1>5, <1>6 DEF IInv

LEMMA PassoTickZera ==
    ASSUME IInv, NEW t \in Threads, TickZera(t)
    PROVE  IInv'
<1>1. Tipos /\ ContasInv
  BY DEF IInv
<1>2. /\ tick = (IF t = 0 THEN "zera0" ELSE "zera1")
      /\ tick' = (IF t = 0 THEN "zera1" ELSE "fora")
      /\ disputa' = (disputa \/ EmCurso(t))
      /\ contadores' = IF disputa' THEN Zeros ELSE [contadores EXCEPT ![t] = 0]
      /\ saldo' = IF disputa' THEN Zeros ELSE saldo
      /\ UNCHANGED <<algoritmo, memoria, buffer, semaphore, mainPostou, pc, fila, erro, reg, historia>>
  BY DEF TickZera, Contam
<1>3. Tipos'
  <2>1. disputa' \in BOOLEAN
    BY <1>2, Zenon
  <2>2. contadores' \in [Threads -> 0..MaxConta] /\ saldo' \in [Threads -> Int]
    <3>1. 0 \in 0..MaxConta
      BY ConstantesAssumption
    <3>2. Zeros \in [Threads -> 0..MaxConta] /\ Zeros \in [Threads -> Int]
      BY <3>1 DEF Zeros
    <3>3. CASE disputa'
      BY <1>2, <3>2, <3>3
    <3>4. CASE ~disputa'
      BY <1>1, <1>2, <3>1, <3>4 DEF Tipos
    <3> QED BY <3>3, <3>4
  <2>3. tick' \in {"fora", "zera0", "zera1"}
    BY <1>2
  <2> QED BY <1>1, <1>2, <2>1, <2>2, <2>3 DEF Tipos, historia
<1>4. ContasInv'
  <2>1. ASSUME ~disputa', NEW x \in Threads
        PROVE  /\ saldo'[x] = IF tick' \in VaiZerar(x) THEN 0 ELSE contadores'[x]
               /\ EmOrdem(buffer'[x], contadores'[x])
               /\ pc'[x] = "grava" => Corrente(buffer'[x], contadores'[x], reg'[x])
    <3>1. /\ ~disputa /\ ~EmCurso(t) /\ contadores' = [contadores EXCEPT ![t] = 0]
          /\ saldo' = saldo /\ buffer' = buffer /\ pc' = pc /\ reg' = reg
      BY <1>2, <2>1
    <3>2. /\ saldo[x] = IF tick \in VaiZerar(x) THEN 0 ELSE contadores[x]
          /\ EmOrdem(buffer[x], contadores[x])
          /\ pc[x] = "grava" => Corrente(buffer[x], contadores[x], reg[x])
      BY <1>1, <3>1 DEF ContasInv
    <3>3. CASE x = t
      <4>1. tick \in VaiZerar(x) /\ tick' \notin VaiZerar(x) /\ contadores'[x] = 0
        BY <1>1, <1>2, <3>1, <3>3 DEF VaiZerar, Threads, Tipos
      <4>2. pc[x] # "grava" /\ Contas(buffer[x]) = {}
        BY <3>1, <3>3 DEF EmCurso, NoBuffer, Contas
      <4> QED BY <3>1, <3>2, <4>1, <4>2, SemContas
    <3>4. CASE x # t
      <4>1. (tick \in VaiZerar(x) <=> tick' \in VaiZerar(x)) /\ contadores'[x] = contadores[x]
        BY <1>1, <1>2, <3>1, <3>4 DEF VaiZerar, Threads, Tipos
      <4> QED BY <3>1, <3>2, <4>1
    <3> QED BY <3>3, <3>4
  <2> QED BY <2>1 DEF ContasInv
<1>5. PetersonInv' /\ AlternanciaInv' /\ SemaforoInv'
  BY <1>2, ProgramaParado
<1> QED BY <1>3, <1>4, <1>5 DEF IInv

LEMMA TailTamanho ==
    ASSUME NEW S, NEW b \in Seq(S), b # <<>>
    PROVE  /\ Len(b) \in Nat /\ Len(b) >= 1 /\ Len(Tail(b)) = Len(b) - 1
           /\ (Len(Tail(b)) = 0 <=> Tail(b) = <<>>)
<1>1. Tail(b) \in Seq(S) /\ Len(Tail(b)) = Len(b) - 1
  BY HeadTailProperties
<1>2. Len(b) \in Nat /\ Len(b) >= 1
  BY EmptySeq
<1>3. Len(Tail(b)) = 0 <=> Tail(b) = <<>>
  BY <1>1, EmptySeq
<1> QED BY <1>1, <1>2, <1>3

\* What a store that reaches the memory makes known.
LEMMA AnuncioChega ==
    ASSUME NEW t, NEW p, NEW b \in Seq(Escritas), b # <<>>, Atraso("peterson", t, Feitas(p), b)
    PROVE  LET h == Head(b) IN
           /\ Anunciou(p, Tail(b)) /\ ~Anunciou(p, b) => h.onde = "flag" /\ h.valor = 1
           /\ Comprometida(p, Tail(b)) /\ ~Comprometida(p, b) => h.onde = "turn" /\ h.valor = Outra(t)
           /\ Anunciou(p, b) => h.onde # "flag"
           /\ h.onde = "turn" => p = "testaFlag" /\ Anunciou(p, b) /\ h.valor = Outra(t)
<1> DEFINE h == Head(b)
           j == Feitas(p) - (Len(b) - 1)
<1>1. DaRodada("peterson", t, j, h)
  BY FeitasTipo, AtrasoHead
<1>2. /\ Len(b) \in Nat /\ Len(b) >= 1 /\ Len(Tail(b)) = Len(b) - 1
      /\ (Len(Tail(b)) = 0 <=> Tail(b) = <<>>)
  BY TailTamanho
<1>3. /\ j = 1 => h.onde = "conta"
      /\ j = 3 => h.onde = "flag" /\ h.valor = 1
      /\ j = 4 => h.onde = "turn" /\ h.valor = Outra(t)
      /\ h.onde = "flag" => j = 2 \/ j = 3
      /\ h.onde = "turn" => j = 4
      /\ j >= 1
  BY <1>1 DEF DaRodada
<1> HIDE DEF h
<1>4. /\ p = "vez" => Feitas(p) = 3
      /\ p = "testaFlag" => Feitas(p) = 4
      /\ p \in {"testaTurn"} \cup Secao => Feitas(p) \in {0, 1}
      /\ Feitas(p) = 4 => p = "testaFlag"
      /\ Feitas(p) \in 0..4
  BY DEF Feitas, Secao
<1>5. ASSUME Anunciou(p, Tail(b)), ~Anunciou(p, b) PROVE h.onde = "flag" /\ h.valor = 1
  <2>1. \/ p = "vez" /\ Tail(b) = <<>>
        \/ p = "testaFlag" /\ Len(Tail(b)) <= 1 /\ Len(b) > 1
    BY <1>2, <1>5 DEF Anunciou
  <2>2. j = 3
    BY <1>2, <1>4, <2>1
  <2> QED BY <1>3, <2>2
<1>6. ASSUME Comprometida(p, Tail(b)), ~Comprometida(p, b)
      PROVE  h.onde = "turn" /\ h.valor = Outra(t)
  <2>1. p = "testaFlag" /\ Tail(b) = <<>>
    BY <1>6 DEF Comprometida
  <2>2. j = 4
    BY <1>2, <1>4, <2>1
  <2> QED BY <1>3, <2>2
<1>7. ASSUME Anunciou(p, b) PROVE h.onde # "flag"
  <2>1. b # <<>>
    OBVIOUS
  <2>2. CASE p = "testaFlag" /\ Len(b) <= 1
    <3>1. j = 4
      BY <1>2, <1>4, <2>2
    <3> QED BY <1>3, <3>1
  <2>3. CASE p \in {"testaTurn"} \cup Secao
    <3>1. j <= 1
      BY <1>2, <1>4, <2>3
    <3> QED BY <1>3, <3>1
  <2> QED BY <1>7, <2>1, <2>2, <2>3 DEF Anunciou
<1>8. ASSUME h.onde = "turn" PROVE p = "testaFlag" /\ Anunciou(p, b) /\ h.valor = Outra(t)
  <2>1. j = 4
    BY <1>3, <1>8
  <2>2. Feitas(p) = 4 /\ Len(b) <= 1
    BY <1>2, <1>4, <2>1
  <2> QED BY <1>3, <1>4, <2>1, <2>2 DEF Anunciou
<1> QED BY <1>5, <1>6, <1>7, <1>8 DEF h

LEMMA VezChega ==
    ASSUME NEW t, NEW p \in {"inicio"} \cup Secao, NEW b \in Seq(Escritas), b # <<>>,
           Atraso("alternancia", t, Feitas(p), b)
    PROVE  LET h == Head(b) IN
           \/ h.onde = "conta" /\ Ativa(p, Tail(b))
           \/ h.onde = "turn" /\ h.valor = Outra(t) /\ ~Ativa(p, Tail(b))
<1> DEFINE h == Head(b)
           j == Feitas(p) - (Len(b) - 1)
<1>1. DaRodada("alternancia", t, j, h)
  BY FeitasTipo, AtrasoHead
<1>2. /\ Len(b) \in Nat /\ Len(b) >= 1 /\ Len(Tail(b)) = Len(b) - 1
      /\ (Len(Tail(b)) = 0 <=> Tail(b) = <<>>)
  BY TailTamanho
<1>3. \/ j = 1 /\ h.onde = "conta"
      \/ j = 2 /\ h.onde = "turn" /\ h.valor = Outra(t)
  BY <1>1 DEF DaRodada
<1> HIDE DEF h
<1>4. /\ p = "inicio" => Feitas(p) = 2
      /\ p \in Secao => Feitas(p) \in {0, 1}
      /\ "inicio" \notin Secao
  BY DEF Feitas, Secao
<1>5. CASE j = 1 /\ h.onde = "conta"
  <2>1. p \in Secao \/ Len(b) > 1
    BY <1>2, <1>4, <1>5
  <2>2. Ativa(p, Tail(b))
    BY <1>2, <2>1 DEF Ativa
  <2> QED BY <1>5, <2>2 DEF h
<1>6. CASE j = 2 /\ h.onde = "turn" /\ h.valor = Outra(t)
  <2>1. p \notin Secao /\ Len(b) = 1
    BY <1>2, <1>4, <1>6
  <2>2. ~Ativa(p, Tail(b))
    BY <1>2, <2>1 DEF Ativa
  <2> QED BY <1>6, <2>2 DEF h
<1> QED BY <1>3, <1>5, <1>6

\* What a thread's oldest store does.
LEMMA Efeito ==
    ASSUME Tipos, NEW t \in Threads, Descarrega(t)
    PROVE  LET h == Head(buffer[t]) IN
           /\ buffer[t] \in Seq(Escritas) /\ buffer[t] # <<>> /\ h \in Escritas
           /\ buffer' = [buffer EXCEPT ![t] = Tail(buffer[t])]
           /\ pc' = [pc EXCEPT ![t] = pc[t]] /\ pc' = pc
           /\ \/ /\ h.onde = "flag" /\ memoria' = [memoria EXCEPT !.flag[t] = h.valor]
                 /\ UNCHANGED <<contadores, saldo, disputa>>
              \/ /\ h.onde = "turn" /\ memoria' = [memoria EXCEPT !.turn = h.valor]
                 /\ UNCHANGED <<contadores, saldo, disputa>>
              \/ h.onde = "conta" /\ Chega(t, h.valor) /\ UNCHANGED memoria
           /\ UNCHANGED <<algoritmo, semaphore, mainPostou, fila, erro, reg, tick, historia>>
<1>1. buffer[t] \in Seq(Escritas) /\ buffer[t] # <<>>
  BY DEF Descarrega, Tipos
<1>2. Head(buffer[t]) \in Escritas
  BY <1>1, HeadTailProperties
<1>3. pc' = [pc EXCEPT ![t] = pc[t]] /\ pc' = pc
  BY DEF Descarrega, Tipos
<1>4. buffer' = [buffer EXCEPT ![t] = Tail(buffer[t])]
  BY DEF Descarrega
<1>5. LET h == Head(buffer[t]) IN
      \/ /\ h.onde = "flag" /\ memoria' = [memoria EXCEPT !.flag[t] = h.valor]
         /\ UNCHANGED <<contadores, saldo, disputa>>
      \/ /\ h.onde = "turn" /\ memoria' = [memoria EXCEPT !.turn = h.valor]
         /\ UNCHANGED <<contadores, saldo, disputa>>
      \/ h.onde = "conta" /\ Chega(t, h.valor) /\ UNCHANGED memoria
  BY DEF Descarrega
<1>6. UNCHANGED <<algoritmo, semaphore, mainPostou, fila, erro, reg, tick, historia>>
  BY DEF Descarrega
<1> QED BY <1>1, <1>2, <1>3, <1>4, <1>5, <1>6

LEMMA PassoDescarrega ==
    ASSUME IInv, NEW t \in Threads, Descarrega(t)
    PROVE  IInv'
<1> DEFINE o == Outra(t)
           b == buffer[t]
           h == Head(b)
           p == pc[t]
<1>1. Tipos /\ PetersonInv /\ AlternanciaInv /\ SemaforoInv /\ ContasInv
  BY DEF IInv
<1>2. /\ b \in Seq(Escritas) /\ b # <<>> /\ h \in Escritas
      /\ buffer' = [buffer EXCEPT ![t] = Tail(b)] /\ pc' = [pc EXCEPT ![t] = p] /\ pc' = pc
      /\ UNCHANGED <<algoritmo, semaphore, mainPostou, fila, erro, reg, tick, historia>>
  BY <1>1, Efeito
<1>3. \/ /\ h.onde = "flag" /\ memoria' = [memoria EXCEPT !.flag[t] = h.valor]
         /\ UNCHANGED <<contadores, saldo, disputa>>
      \/ /\ h.onde = "turn" /\ memoria' = [memoria EXCEPT !.turn = h.valor]
         /\ UNCHANGED <<contadores, saldo, disputa>>
      \/ h.onde = "conta" /\ Chega(t, h.valor) /\ UNCHANGED memoria
  BY <1>1, Efeito
<1>4. Tail(b) \in Seq(Escritas)
  BY <1>2, HeadTailProperties
<1>5. /\ h.onde \in {"flag", "turn"} => h.valor \in 0..1
      /\ h.onde = "conta" => h.valor \in 1..MaxConta
  BY <1>2 DEF Escritas
<1>6. Tipos'
  <2>1. memoria' \in [flag : [Threads -> 0..1], turn : 0..1]
    <3>1. CASE h.onde = "flag"
      <4>1. memoria' = [memoria EXCEPT !.flag[t] = h.valor] /\ h.valor \in 0..1
        BY <1>3, <1>5, <3>1
      <4> HIDE DEF h
      <4> QED BY <1>1, <4>1 DEF Tipos
    <3>2. CASE h.onde = "turn"
      <4>1. memoria' = [memoria EXCEPT !.turn = h.valor] /\ h.valor \in 0..1
        BY <1>3, <1>5, <3>2
      <4> HIDE DEF h
      <4> QED BY <1>1, <4>1 DEF Tipos
    <3>3. CASE h.onde = "conta"
      BY <1>1, <1>3, <3>3 DEF Tipos
    <3> QED BY <1>3, <3>1, <3>2, <3>3
  <2>2. buffer' \in [Threads -> Seq(Escritas)]
    BY <1>1, <1>2, <1>4 DEF Tipos
  <2>3. disputa' \in BOOLEAN
    <3>1. CASE h.onde = "conta"
      <4>1. Chega(t, h.valor)
        BY <1>3, <3>1
      <4>2. disputa' = (disputa \/ tick \in VaiZerar(t))
        BY <4>1 DEF Chega, Contam
      <4> QED BY <4>2, Zenon
    <3>2. CASE h.onde # "conta"
      BY <1>1, <1>3, <3>2 DEF Tipos
    <3> QED BY <3>1, <3>2
  <2>4. contadores' \in [Threads -> 0..MaxConta] /\ saldo' \in [Threads -> Int]
    <3>1. CASE h.onde = "conta"
      <4>1. /\ contadores' = IF disputa' THEN Zeros ELSE [contadores EXCEPT ![t] = h.valor]
            /\ saldo' = IF disputa' THEN Zeros ELSE [saldo EXCEPT ![t] = @ + 1]
        BY <1>3, <3>1 DEF Chega, Contam
      <4>2. 0 \in 0..MaxConta /\ h.valor \in 0..MaxConta
        BY <1>5, <3>1, ConstantesAssumption
      <4>3. Zeros \in [Threads -> 0..MaxConta] /\ Zeros \in [Threads -> Int]
        BY <4>2 DEF Zeros
      <4>4. /\ [contadores EXCEPT ![t] = h.valor] \in [Threads -> 0..MaxConta]
            /\ [saldo EXCEPT ![t] = @ + 1] \in [Threads -> Int]
        BY <1>1, <4>2 DEF Tipos
      <4> QED BY <4>1, <4>3, <4>4
    <3>2. CASE h.onde # "conta"
      BY <1>1, <1>3, <3>2 DEF Tipos
    <3> QED BY <3>1, <3>2
  <2> QED BY <1>1, <1>2, <2>1, <2>2, <2>3, <2>4 DEF Tipos, historia
<1>7. algoritmo = "peterson" /\ ~ultrapassou' => AcertaPeterson(t, p, Tail(b), memoria')
  <2> SUFFICES ASSUME algoritmo = "peterson", ~ultrapassou
               PROVE  AcertaPeterson(t, p, Tail(b), memoria')
    BY <1>2 DEF historia
  <2>1. /\ Atraso("peterson", t, Feitas(p), b)
        /\ Anunciou(p, b) => memoria.flag[t] = 1
        /\ p \in Secao /\ Comprometida(pc[o], buffer[o]) => memoria.turn = t
        /\ pc[o] \in Secao /\ Comprometida(p, b) => memoria.turn = o
    BY <1>1, Duas DEF PetersonInv
  <2>2. Atraso("peterson", t, Feitas(p), Tail(b))
    BY <1>2, <2>1, FeitasTipo, AtrasoTail
  <2>3. /\ Anunciou(p, Tail(b)) /\ ~Anunciou(p, b) => h.onde = "flag" /\ h.valor = 1
        /\ Comprometida(p, Tail(b)) /\ ~Comprometida(p, b) => h.onde = "turn" /\ h.valor = o
        /\ Anunciou(p, b) => h.onde # "flag"
        /\ h.onde = "turn" => p = "testaFlag" /\ Anunciou(p, b) /\ h.valor = o
    BY <1>2, <2>1, AnuncioChega
  <2>4. o \in Threads /\ o # t /\ "testaFlag" \notin Secao
    BY Duas DEF Secao
  <2>5. /\ memoria'.flag[o] = memoria.flag[o]
        /\ h.onde = "flag" => memoria'.flag[t] = h.valor
        /\ h.onde # "flag" => memoria'.flag[t] = memoria.flag[t]
        /\ h.onde = "turn" => memoria'.turn = h.valor
        /\ h.onde # "turn" => memoria'.turn = memoria.turn
    BY <1>1, <1>3, <2>4 DEF Tipos
  <2> HIDE DEF b, h, p, o
  <2>6. Anunciou(p, Tail(b)) => memoria'.flag[t] = 1
    BY <2>1, <2>3, <2>5
  <2>7. p \in Secao /\ Comprometida(pc[o], buffer[o]) => memoria'.turn = t
    BY <2>1, <2>3, <2>4, <2>5
  <2>8. pc[o] \in Secao /\ Comprometida(p, Tail(b)) => memoria'.turn = o
    BY <2>1, <2>3, <2>5
  <2> QED BY <2>2, <2>5, <2>6, <2>7, <2>8 DEF AcertaPeterson, o
<1>8. PetersonInv'
  <2>1. algoritmo' = algoritmo /\ (ultrapassou => ultrapassou')
    BY <1>2 DEF historia
  <2> QED BY <1>1, <1>2, <1>7, <2>1, PetersonMove
<1>9. algoritmo = "alternancia" => AcertaAlternancia(t, p, Tail(b), memoria', ultimo')
  <2> SUFFICES ASSUME algoritmo = "alternancia"
               PROVE  AcertaAlternancia(t, p, Tail(b), memoria', ultimo')
    OBVIOUS
  <2>1. /\ p \in {"inicio"} \cup Secao
        /\ Atraso("alternancia", t, Feitas(p), b)
        /\ Ativa(p, b) => memoria.turn = t
        /\ Ativa(pc[o], buffer[o]) => memoria.turn = o
        /\ ultimo = IF Ativa(pc[memoria.turn], buffer[memoria.turn]) THEN memoria.turn
                    ELSE Outra(memoria.turn)
    BY <1>1, Duas DEF AlternanciaInv
  <2>2. Atraso("alternancia", t, Feitas(p), Tail(b))
    BY <1>2, <2>1, FeitasTipo, AtrasoTail
  <2>3. \/ h.onde = "conta" /\ Ativa(p, Tail(b))
        \/ h.onde = "turn" /\ h.valor = o /\ ~Ativa(p, Tail(b))
    BY <1>2, <2>1, VezChega
  <2>4. o \in Threads /\ o # t
    BY Duas
  <2>5. memoria.turn = t /\ ultimo = t /\ ~Ativa(pc[o], buffer[o]) /\ ultimo' = ultimo
    BY <1>2, <2>1, <2>4 DEF Ativa, historia
  <2>6. /\ h.onde = "turn" => memoria'.turn = h.valor
        /\ h.onde = "conta" => memoria'.turn = memoria.turn
    BY <1>1, <1>3 DEF Tipos
  <2> HIDE DEF b, h, p, o
  <2>7. CASE h.onde = "conta" /\ Ativa(p, Tail(b))
    BY <2>1, <2>2, <2>4, <2>5, <2>6, <2>7 DEF AcertaAlternancia, o
  <2>8. CASE h.onde = "turn" /\ h.valor = o /\ ~Ativa(p, Tail(b))
    BY <2>1, <2>2, <2>4, <2>5, <2>6, <2>8 DEF AcertaAlternancia, o
  <2> QED BY <2>3, <2>7, <2>8
<1>10. AlternanciaInv'
  BY <1>1, <1>2, <1>6, <1>9, AlternanciaMove
<1>11. SemaforoInv'
  <2>1. algoritmo # "semaforo"
    BY <1>1, <1>2 DEF SemaforoInv
  <2> QED BY <1>2, <2>1, OutrosProgramas
<1>12. ContasInv'
  <2>1. ASSUME ~disputa', NEW x \in Threads
        PROVE  /\ saldo'[x] = IF tick' \in VaiZerar(x) THEN 0 ELSE contadores'[x]
               /\ EmOrdem(buffer'[x], contadores'[x])
               /\ pc'[x] = "grava" => Corrente(buffer'[x], contadores'[x], reg'[x])
    <3>1. ~disputa
      BY <1>3, <2>1 DEF Chega, Contam
    <3>2. /\ saldo[x] = IF tick \in VaiZerar(x) THEN 0 ELSE contadores[x]
          /\ EmOrdem(buffer[x], contadores[x])
          /\ pc[x] = "grava" => Corrente(buffer[x], contadores[x], reg[x])
      BY <1>1, <3>1 DEF ContasInv
    <3>3. buffer'[x] = IF x = t THEN Tail(buffer[x]) ELSE buffer[x]
      BY <1>1, <1>2 DEF Tipos
    <3>4. CASE h.onde = "conta"
      <4>1. /\ tick \notin VaiZerar(t) /\ contadores' = [contadores EXCEPT ![t] = h.valor]
            /\ saldo' = [saldo EXCEPT ![t] = @ + 1]
        BY <1>3, <2>1, <3>4 DEF Chega, Contam
      <4>2. CASE x = t
        <5>1. /\ h.valor = contadores[x] + 1 /\ EmOrdem(Tail(b), h.valor)
              /\ Corrente(b, contadores[x], reg[x]) => Corrente(Tail(b), h.valor, reg[x])
          BY <1>2, <3>2, <3>4, <4>2, TailConta
        <5>2. contadores'[x] = h.valor /\ saldo'[x] = saldo[x] + 1
          BY <1>1, <4>1, <4>2 DEF Tipos
        <5>3. saldo'[x] = contadores'[x] /\ tick' \notin VaiZerar(x)
          BY <1>2, <3>2, <4>1, <4>2, <5>1, <5>2
        <5>4. buffer'[x] = Tail(b) /\ b = buffer[x] /\ reg' = reg /\ pc' = pc
          BY <1>2, <3>3, <4>2
        <5> HIDE DEF b, h
        <5> QED BY <3>2, <5>1, <5>2, <5>3, <5>4
      <4>3. CASE x # t
        <5>1. contadores'[x] = contadores[x] /\ saldo'[x] = saldo[x] /\ buffer'[x] = buffer[x]
          BY <1>1, <3>3, <4>1, <4>3 DEF Tipos
        <5> QED BY <1>2, <3>2, <5>1
      <4> QED BY <4>2, <4>3
    <3>5. CASE h.onde # "conta"
      <4>1. contadores' = contadores /\ saldo' = saldo
        BY <1>3, <3>5
      <4>2. CASE x = t
        <5>1. /\ EmOrdem(Tail(b), contadores[x])
              /\ Corrente(b, contadores[x], reg[x]) => Corrente(Tail(b), contadores[x], reg[x])
          BY <1>2, <3>2, <3>5, <4>2, TailAlheia
        <5> QED BY <1>2, <3>2, <3>3, <4>1, <4>2, <5>1
      <4>3. CASE x # t
        BY <1>2, <3>2, <3>3, <4>1, <4>3
      <4> QED BY <4>2, <4>3
    <3> QED BY <3>4, <3>5
  <2> QED BY <2>1 DEF ContasInv
<1> QED BY <1>6, <1>8, <1>10, <1>11, <1>12 DEF IInv

-----------------------------------------------------------------------------
\* The invariant, and what it says.

LEMMA Inicio == Init => IInv
<1> SUFFICES ASSUME Init PROVE IInv
  OBVIOUS
<1>1. \A t \in Threads : /\ buffer[t] = <<>> /\ pc[t] = "inicio" /\ contadores[t] = 0
                         /\ reg[t] = 0 /\ saldo[t] = 0 /\ memoria.flag[t] = 0
  BY DEF Init, Zeros
<1>2. /\ memoria.turn = 0 /\ semaphore = 0 /\ mainPostou = FALSE /\ fila = FILA /\ erro = "nao"
      /\ tick = "fora" /\ ultimo = 1 /\ ultrapassou = FALSE /\ disputa = FALSE
  BY DEF Init
<1>3. 0 \in Threads /\ 1 \in Threads /\ Outra(0) = 1 /\ "inicio" \notin Secao
  BY DEF Threads, Outra, Secao
<1>4. Tipos
  <2>1. FILA \in Nat /\ MaxConta \in Nat /\ 0 \in 0..MaxConta
        /\ algoritmo \in {"alternancia", "peterson", "semaforo"}
    BY ConstantesAssumption DEF Init
  <2>2. buffer \in [Threads -> Seq(Escritas)]
    <3>1. <<>> \in Seq(Escritas)
      BY EmptySeq
    <3> QED BY <3>1 DEF Init
  <2>3. memoria \in [flag : [Threads -> 0..1], turn : 0..1]
    BY DEF Init
  <2>4. /\ contadores \in [Threads -> 0..MaxConta] /\ reg \in [Threads -> 0..MaxConta]
        /\ saldo \in [Threads -> Int]
    BY <2>1 DEF Init, Zeros
  <2>5. pc \in [Threads -> Lugares] /\ \A t \in Threads : pc[t] # "grava"
    BY <1>1 DEF Init, Lugares
  <2>6. Mao(pc[0]) = 0 /\ Mao(pc[1]) = 0
    BY <1>1, <1>3 DEF Mao
  <2>7. /\ semaphore \in 0..1 /\ fila \in 0..FILA
        /\ erro \in {"nao", "segv"} /\ tick \in {"fora", "zera0", "zera1"}
        /\ ultimo \in Threads
    BY <1>2, <1>3, <2>1
  <2>9. mainPostou \in BOOLEAN /\ ultrapassou \in BOOLEAN /\ disputa \in BOOLEAN
    BY <1>2, Zenon
  <2>8. fila + Mao(pc[0]) + Mao(pc[1]) <= FILA
    BY <1>2, <2>1, <2>6
  <2> QED BY <2>1, <2>2, <2>3, <2>4, <2>5, <2>7, <2>8, <2>9 DEF Tipos
<1>5. \A t \in Threads : \A a : Atraso(a, t, Feitas(pc[t]), buffer[t])
  BY <1>1, FeitasTipo, AtrasoVazio
<1>6. PetersonInv
  BY <1>1, <1>3, <1>5 DEF PetersonInv, Anunciou
<1>7. AlternanciaInv
  <2>1. \A t \in Threads : ~Ativa(pc[t], buffer[t])
    BY <1>1, <1>3 DEF Ativa
  <2> QED BY <1>1, <1>2, <1>3, <1>5, <2>1 DEF AlternanciaInv
<1>8. SemaforoInv
  BY <1>1, <1>2, <1>3 DEF SemaforoInv, Um
<1>9. ContasInv
  <2>1. \A t \in Threads : Contas(buffer[t]) = {}
    BY <1>1 DEF Contas
  <2>2. \A t \in Threads : EmOrdem(buffer[t], contadores[t])
    BY <2>1, SemContas
  <2>3. \A t \in Threads : tick \notin VaiZerar(t)
    BY <1>2 DEF VaiZerar
  <2> QED BY <1>1, <2>2, <2>3 DEF ContasInv
<1> QED BY <1>4, <1>6, <1>7, <1>8, <1>9 DEF IInv

LEMMA Parado ==
    ASSUME IInv, UNCHANGED vars
    PROVE  IInv'
<1>1. UNCHANGED <<algoritmo, memoria, buffer, semaphore, mainPostou, pc, fila, erro, conta, historia>>
  BY DEF vars
<1>2. PetersonInv' /\ AlternanciaInv' /\ SemaforoInv'
  BY <1>1, ProgramaParado
<1>3. Tipos'
  BY <1>1 DEF IInv, Tipos, conta, historia
<1>4. ContasInv'
  BY <1>1, ContasParado DEF IInv, conta
<1> QED BY <1>2, <1>3, <1>4 DEF IInv

LEMMA Passo == IInv /\ [Next]_vars => IInv'
<1> SUFFICES ASSUME IInv, [Next]_vars PROVE IInv'
  OBVIOUS
<1>1. ASSUME NEW t \in Threads, Codigo(t) PROVE IInv'
  <2>1. CASE PetersonQuer(t)
    BY <2>1, PassoPetersonQuer
  <2>2. CASE PetersonVez(t)
    BY <2>2, PassoPetersonVez
  <2>3. CASE PetersonTestaFlag(t)
    BY <2>3, PassoPetersonTestaFlag
  <2>4. CASE PetersonTestaTurn(t)
    BY <2>4, PassoPetersonTestaTurn
  <2>5. CASE PetersonSai(t)
    BY <2>5, PassoPetersonSai
  <2>6. CASE AlternanciaEntra(t)
    BY <2>6, PassoAlternanciaEntra
  <2>7. CASE AlternanciaSai(t)
    BY <2>7, PassoAlternanciaSai
  <2>8. CASE SemaforoEntra(t) \/ SemaforoSai(t)
    BY <2>8, PassoSemaforo
  <2>9. CASE Pop(t)
    BY <2>9, PassoPop
  <2>10. CASE Push(t)
    BY <2>10, PassoPush
  <2>11. CASE ContaLe(t)
    BY <2>11, PassoContaLe
  <2>12. CASE ContaGrava(t)
    BY <2>12, PassoContaGrava
  <2> QED BY <1>1, <2>1, <2>2, <2>3, <2>4, <2>5, <2>6, <2>7, <2>8, <2>9, <2>10, <2>11, <2>12
          DEF Codigo
<1>2. ASSUME NEW t \in Threads, Descarrega(t) PROVE IInv'
  BY <1>2, PassoDescarrega
<1>3. CASE MainPosta
  BY <1>3, PassoMainPosta
<1>4. CASE Systick
  BY <1>4, PassoTickImprime, PassoTickZera DEF Systick
<1>5. CASE UNCHANGED vars
  BY <1>5, Parado
<1> QED BY <1>1, <1>2, <1>3, <1>4, <1>5 DEF Next, Parou

\* The invariant of the three programs: what is late in each store buffer, who
\* has the turn or the semaphore, and what each counter is about to be.
THEOREM Invariante == Spec => []IInv
<1>1. Init => IInv
  BY Inicio
<1>2. IInv /\ [Next]_vars => IInv'
  BY Passo
<1> QED BY <1>1, <1>2, PTL DEF Spec

\* Alternation and the semaphore always exclude, Peterson's algorithm as long as
\* no load of the other flag goes ahead of a store: the second thread to have
\* given its turn away finds the turn with the first.
THEOREM ExclusaoSempre == Spec => []ExclusaoMutua
<1>1. IInv => ExclusaoMutua
  <2> SUFFICES ASSUME IInv, ~ultrapassou, NaSecao(0), NaSecao(1) PROVE FALSE
    BY DEF ExclusaoMutua
  <2>1. /\ 0 \in Threads /\ 1 \in Threads /\ Outra(0) = 1 /\ Outra(1) = 0
        /\ pc[0] \in Secao /\ pc[1] \in Secao
    BY DEF NaSecao, Secao, Threads, Outra
  <2>2. CASE algoritmo = "peterson"
    <3>1. Comprometida(pc[0], buffer[0]) /\ Comprometida(pc[1], buffer[1])
      BY <2>1 DEF Comprometida
    <3>2. memoria.turn = 0
      BY <2>1, <2>2, <3>1 DEF IInv, PetersonInv
    <3>3. memoria.turn = 1
      BY <2>1, <2>2, <3>1 DEF IInv, PetersonInv
    <3> QED BY <3>2, <3>3
  <2>3. CASE algoritmo = "alternancia"
    <3>1. Ativa(pc[0], buffer[0]) /\ Ativa(pc[1], buffer[1])
      BY <2>1 DEF Ativa
    <3>2. memoria.turn = 0
      BY <2>1, <2>3, <3>1 DEF IInv, AlternanciaInv
    <3>3. memoria.turn = 1
      BY <2>1, <2>3, <3>1 DEF IInv, AlternanciaInv
    <3> QED BY <3>2, <3>3
  <2>4. CASE algoritmo = "semaforo"
    <3>1. Um(pc[0]) = 1 /\ Um(pc[1]) = 1
      BY <2>1 DEF Um
    <3>2. semaphore + Um(pc[0]) + Um(pc[1]) <= 1 /\ semaphore \in 0..1
      BY <2>4 DEF IInv, SemaforoInv, Tipos
    <3> QED BY <3>1, <3>2
  <2> QED BY <2>2, <2>3, <2>4 DEF IInv, Tipos
<1> QED BY <1>1, Invariante, PTL

\* Every insertion between two signals is in the counter of its thread, in
\* memory or in order behind it, until an increment and a reset overlap.
THEOREM InsercoesSempreContadas == Spec => []InsercoesContadas
<1>1. ASSUME IInv PROVE TypeOK
  <2>1. Tipos
    BY <1>1 DEF IInv
  <2>2. ASSUME NEW t \in Threads, NEW i \in 1..Len(buffer[t])
        PROVE  \/ buffer[t][i] \in [onde : {"flag", "turn"}, valor : 0..1]
               \/ buffer[t][i] \in [onde : {"conta"}, valor : 1..MaxConta]
    <3>1. buffer[t][i] \in Escritas
      BY <2>1, ElementOfSeq DEF Tipos
    <3> QED BY <3>1 DEF Escritas
  <2> QED BY <2>1, <2>2 DEF Tipos, TypeOK
<1>2. IInv => InsercoesContadas
  BY <1>1 DEF IInv, ContasInv, InsercoesContadas
<1> QED BY <1>2, Invariante, PTL

\* A step by which a thread gets into the section is an entry of its program.
LEMMA Entrada ==
    ASSUME IInv, [Next]_vars, NEW t \in Threads, ~NaSecao(t), NaSecao(t)',
           algoritmo = "alternancia"
    PROVE  AlternanciaEntra(t)
<1>1. Tipos /\ pc[t] = "inicio"
  <2>1. pc[t] \in {"inicio"} \cup Secao
    BY DEF IInv, AlternanciaInv
  <2> QED BY <2>1 DEF IInv, NaSecao, Secao
<1>2. pc'[t] # pc[t]
  BY DEF NaSecao
<1>3. ASSUME NEW x \in Threads, Codigo(x) PROVE x = t
  <2>1. \E p : pc' = [pc EXCEPT ![x] = p]
    BY <1>3 DEF Codigo, PetersonQuer, PetersonVez, PetersonTestaFlag, PetersonTestaTurn,
                PetersonSai, AlternanciaEntra, AlternanciaSai, SemaforoEntra, SemaforoSai,
                Pop, Push, ContaLe, ContaGrava, Passa
  <2> QED BY <1>1, <1>2, <2>1 DEF Tipos
<1>4. ASSUME Codigo(t) PROVE AlternanciaEntra(t)
  <2>1. ~PetersonVez(t) /\ ~PetersonTestaFlag(t) /\ ~PetersonTestaTurn(t)
    BY <1>1 DEF PetersonVez, PetersonTestaFlag, PetersonTestaTurn, Passa
  <2>2. ~PetersonQuer(t) /\ ~PetersonSai(t) /\ ~SemaforoEntra(t) /\ ~SemaforoSai(t)
    BY DEF PetersonQuer, PetersonSai, SemaforoEntra, SemaforoSai
  <2>3. ~AlternanciaSai(t) /\ ~Pop(t) /\ ~Push(t) /\ ~ContaLe(t) /\ ~ContaGrava(t)
    BY <1>1 DEF AlternanciaSai, Pop, Push, ContaLe, ContaGrava, Passa
  <2> QED BY <1>4, <2>1, <2>2, <2>3 DEF Codigo
<1>5. ~(\E x \in Threads : Descarrega(x)) /\ ~MainPosta /\ ~Systick /\ ~Parou /\ ~(UNCHANGED vars)
  BY <1>2 DEF Descarrega, MainPosta, Systick, TickImprime, TickZera, Parou, vars
<1> QED BY <1>3, <1>4, <1>5 DEF Next

\* With alternation the thread that enters is not the one that entered last.
THEOREM AlternanciaSempreEstrita == Spec => AlternanciaEstrita
<1>1. ASSUME IInv, [Next]_vars, NEW t \in Threads,
             algoritmo = "alternancia", ~NaSecao(t), NaSecao(t)'
      PROVE  ultimo # t
  <2>1. AlternanciaEntra(t)
    BY <1>1, Entrada
  <2>2. ultimo = Outra(t) /\ Outra(t) # t
    BY <1>1, <2>1, EntraNaVez, Duas
  <2> QED BY <2>2
<1>2. IInv /\ [Next]_vars
        => [\A t \in Threads :
              algoritmo = "alternancia" /\ ~NaSecao(t) /\ NaSecao(t)' => ultimo # t]_vars
  BY <1>1
<1> QED BY <1>2, Invariante, PTL DEF Spec, AlternanciaEstrita

=============================================================================
