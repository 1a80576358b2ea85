--------------------------- MODULE FilosofosProof ---------------------------
(***************************************************************************)
(* The chopsticks of module Filosofos, for any number of philosophers.  The*)
(* invariant that carries the proof is HashisConservados with the types:   *)
(* mutual exclusion of neighbours alone is not inductive, since it does    *)
(* not say that a philosopher who holds a chopstick keeps its semaphore at *)
(* zero.                                                                   *)
(***************************************************************************)
EXTENDS Filosofos, TLAPS

HInv == TypeOK /\ HashisConservados

\* The neighbours of a philosopher are two different chopsticks.
LEMMA Vizinhos ==
    ASSUME NEW i \in Filosofo
    PROVE  /\ Direita(i) \in Filosofo /\ Esquerda(i) \in Filosofo
           /\ Direita(i) # Esquerda(i)
  BY NumfiloAssumption DEF Filosofo, Direita, Esquerda

LEMMA HInvInicial == Init => HInv
<1> SUFFICES ASSUME Init PROVE HInv
  OBVIOUS
<1>1. \A i, h \in Filosofo : ~Segura(i, h)
  BY DEF Init, Segura
<1> QED
  BY <1>1 DEF Init, HInv, TypeOK, HashisConservados

\* A philosopher waits for a chopstick h and then holds it, the others as before.
LEMMA PegaPreserva ==
    ASSUME HInv, NEW i \in Filosofo, NEW h \in Filosofo, SemWait(h),
           pc' \in [Filosofo -> {"medita", "direita", "come", "larga"}],
           \A k, g \in Filosofo : Segura(k, g)' <=> (Segura(k, g) \/ (k = i /\ g = h))
    PROVE  HInv'
<1>0. hashi[h] = 1
  BY DEF HInv, TypeOK, SemWait
<1>1. hashi[h] = 1 /\ hashi' = [hashi EXCEPT ![h] = 0]
  <2>1. 1 - 1 = 0
    OBVIOUS
  <2> QED
    BY <1>0, <2>1 DEF SemWait
<1>2. TypeOK'
  BY <1>1 DEF HInv, TypeOK
<1>3. \A k \in Filosofo : ~Segura(k, h)
  BY <1>1 DEF HInv, HashisConservados
<1>4. \A g \in Filosofo : hashi'[g] = IF g = h THEN 0 ELSE hashi[g]
  BY <1>1 DEF HInv, TypeOK
<1>5. HashisConservados'
  <2> SUFFICES ASSUME NEW g \in Filosofo
               PROVE  /\ hashi'[g] = 1 => \A k \in Filosofo : ~Segura(k, g)'
                      /\ hashi'[g] = 0 => \E k \in Filosofo : Segura(k, g)'
                      /\ \A k, j \in Filosofo : Segura(k, g)' /\ Segura(j, g)' => k = j
    BY DEF HashisConservados
  <2>1. CASE g = h
    BY <1>3, <1>4, <2>1
  <2>2. CASE g # h
    BY <1>4, <2>2 DEF HInv, HashisConservados
  <2> QED
    BY <2>1, <2>2
<1> QED
  BY <1>2, <1>5 DEF HInv

\* A philosopher puts back a chopstick h it held.
LEMMA LargaPreserva ==
    ASSUME HInv, NEW i \in Filosofo, NEW h \in Filosofo, SemPost(h), Segura(i, h),
           pc' \in [Filosofo -> {"medita", "direita", "come", "larga"}],
           \A k, g \in Filosofo : Segura(k, g)' <=> (Segura(k, g) /\ ~(k = i /\ g = h))
    PROVE  HInv'
<1>1. hashi[h] = 0
  BY DEF HInv, TypeOK, HashisConservados
<1>2. hashi' = [hashi EXCEPT ![h] = 1]
  BY <1>1 DEF HInv, TypeOK, SemPost
<1>3. TypeOK'
  BY <1>2 DEF HInv, TypeOK
<1>4. \A g \in Filosofo : hashi'[g] = IF g = h THEN 1 ELSE hashi[g]
  BY <1>2 DEF HInv, TypeOK
<1>5. HashisConservados'
  <2> SUFFICES ASSUME NEW g \in Filosofo
               PROVE  /\ hashi'[g] = 1 => \A k \in Filosofo : ~Segura(k, g)'
                      /\ hashi'[g] = 0 => \E k \in Filosofo : Segura(k, g)'
                      /\ \A k, j \in Filosofo : Segura(k, g)' /\ Segura(j, g)' => k = j
    BY DEF HashisConservados
  <2>1. CASE g = h
    BY <1>4, <2>1 DEF HInv, HashisConservados
  <2>2. CASE g # h
    BY <1>4, <2>2 DEF HInv, HashisConservados
  <2> QED
    BY <2>1, <2>2
<1> QED
  BY <1>3, <1>5 DEF HInv

LEMMA PassoPreserva ==
    ASSUME HInv, NEW i \in Filosofo, Passo(i)
    PROVE  HInv'
<1> USE Vizinhos
<1>0. pc \in [Filosofo -> {"medita", "direita", "come", "larga"}]
  BY DEF HInv, TypeOK
<1>1. CASE PegaEsquerda(i)
  <2>1. SemWait(Esquerda(i)) /\ pc[i] = "medita" /\ pc' = [pc EXCEPT ![i] = "direita"]
    BY <1>1 DEF PegaEsquerda, Passa
  <2>2. \A k, g \in Filosofo : Segura(k, g)' <=> (Segura(k, g) \/ (k = i /\ g = Esquerda(i)))
    BY <1>0, <2>1 DEF Segura
  <2> QED
    BY <1>0, <2>1, <2>2, PegaPreserva
<1>2. CASE PegaDireita(i)
  <2>1. SemWait(Direita(i)) /\ pc[i] = "direita" /\ pc' = [pc EXCEPT ![i] = "come"]
    BY <1>2 DEF PegaDireita, Passa
  <2>2. \A k, g \in Filosofo : Segura(k, g)' <=> (Segura(k, g) \/ (k = i /\ g = Direita(i)))
    BY <1>0, <2>1 DEF Segura
  <2> QED
    BY <1>0, <2>1, <2>2, PegaPreserva
<1>3. CASE LargaEsquerda(i)
  <2>1. SemPost(Esquerda(i)) /\ pc[i] = "come" /\ pc' = [pc EXCEPT ![i] = "larga"]
    BY <1>3 DEF LargaEsquerda, Passa
  <2>2. Segura(i, Esquerda(i))
    BY <2>1 DEF Segura
  <2>3. \A k, g \in Filosofo : Segura(k, g)' <=> (Segura(k, g) /\ ~(k = i /\ g = Esquerda(i)))
    BY <1>0, <2>1 DEF Segura
  <2> QED
    BY <1>0, <2>1, <2>2, <2>3, LargaPreserva
<1>4. CASE LargaDireita(i)
  <2>1. SemPost(Direita(i)) /\ pc[i] = "larga" /\ pc' = [pc EXCEPT ![i] = "medita"]
    BY <1>4 DEF LargaDireita, Passa
  <2>2. Segura(i, Direita(i))
    BY <2>1 DEF Segura
  <2>3. \A k, g \in Filosofo : Segura(k, g)' <=> (Segura(k, g) /\ ~(k = i /\ g = Direita(i)))
    BY <1>0, <2>1 DEF Segura
  <2> QED
    BY <1>0, <2>1, <2>2, <2>3, LargaPreserva
<1> QED
  BY <1>1, <1>2, <1>3, <1>4 DEF Passo

LEMMA ParadoPreserva == HInv /\ UNCHANGED vars => HInv'
<1> SUFFICES ASSUME HInv, UNCHANGED vars PROVE HInv'
  OBVIOUS
<1>1. \A i, h \in Filosofo : Segura(i, h)' <=> Segura(i, h)
  BY DEF vars, Segura
<1> QED
  BY <1>1 DEF HInv, TypeOK, HashisConservados, vars

\* In every reachable state the chopsticks are conserved.
THEOREM Conservacao == Spec => []HInv
<1>1. Init => HInv
  BY HInvInicial
<1>2. HInv /\ [Next]_vars => HInv'
  BY PassoPreserva, ParadoPreserva DEF Next, Trava
<1> QED
  BY <1>1, <1>2, PTL DEF Spec

\* The semaphores of aula8_filosofos.c never leave 0..1.
THEOREM SemaforosBinarios == Spec => []TypeOK
<1>1. HInv => TypeOK
  BY DEF HInv
<1> QED
  BY <1>1, Conservacao, PTL

\* A chopstick taken from the table is in exactly one hand.
THEOREM HashiDeUmSo == Spec => []HashisConservados
<1>1. HInv => HashisConservados
  BY DEF HInv
<1> QED
  BY <1>1, Conservacao, PTL

\* No two neighbours eat together: both would hold the chopstick between them.
THEOREM NaoComemJuntos == Spec => []VizinhosNaoComem
<1>1. HInv => VizinhosNaoComem
  <2> SUFFICES ASSUME HInv, NEW i \in Filosofo, pc[i] = "come", pc[Esquerda(i)] = "come"
               PROVE  FALSE
    BY DEF VizinhosNaoComem
  <2>1. Segura(i, Esquerda(i)) /\ Segura(Esquerda(i), Esquerda(i))
    BY DEF Segura, Direita
  <2>2. Esquerda(i) = i
    BY <2>1, Vizinhos DEF HInv, HashisConservados
  <2> QED
    BY <2>2, Vizinhos DEF Direita
<1> QED
  BY <1>1, Conservacao, PTL

=============================================================================
