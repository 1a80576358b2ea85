--------------------------- MODULE ProdutorProof ---------------------------
(***************************************************************************)
(* The semaphores of module Produtor, for any numbers of producers and     *)
(* consumers.  VagaConservada is inductive; ItensAnunciados needs it.      *)
(***************************************************************************)
EXTENDS Produtor, Contagem

\* Between the two semaphores of a turn, inside s_buffer, before sem_post(&s_item)
\* and after sem_wait(&s_item).
Curso == {"buffer", "dentro", "posta"}
Secao == {"dentro"}
Entrega == {"posta"}
Busca == {"buffer", "dentro"}

EmCurso == Quantos(pc, Threads, Curso)
Dentro == Quantos(pc, Threads, Secao)
Entregando == Quantos(pc, Produtores, Entrega)
Buscando == Quantos(pc, Consumidores, Busca)

\* The inductive invariant.
PInv ==
    /\ TypeOK
    /\ s_vaga + s_item + EmCurso = 1
    /\ s_buffer = 1 - Dentro
    /\ fila = tamanhoFila
    /\ s_item + Entregando + Buscando = fila + falhas

-----------------------------------------------------------------------------
\* The counts.

LEMMA Finitos == IsFiniteSet(Threads) /\ IsFiniteSet(Produtores) /\ IsFiniteSet(Consumidores)
  BY ThreadsAssumption, FS_Union DEF Threads

\* One count, after a step between two places.
LEMMA PassaConta ==
    ASSUME pc \in [Threads -> Lugares], NEW t, NEW de, NEW para, Passa(t, de, para),
           NEW G \in SUBSET Threads, IsFiniteSet(G), NEW L
    PROVE  Muda(Quantos(pc, G, L), Quantos(pc, G, L)', t \in G /\ de \in L, t \in G /\ para \in L)
<1>1. pc[t] = de /\ Movido(pc, pc', G, t, para)
  BY DEF Passa, Movido
<1>2. Muda(Quantos(pc, G, L), Quantos(pc', G, L), t \in G /\ pc[t] \in L, t \in G /\ para \in L)
  BY <1>1, QuantosMuda
<1> QED BY <1>1, <1>2

\* The four counts, after a step between two places.
LEMMA PassaContas ==
    ASSUME pc \in [Threads -> Lugares], NEW t \in Threads, NEW de, NEW para, Passa(t, de, para)
    PROVE  /\ EmCurso \in Nat /\ EmCurso' \in Nat /\ Dentro \in Nat /\ Dentro' \in Nat
           /\ Entregando \in Nat /\ Entregando' \in Nat /\ Buscando \in Nat /\ Buscando' \in Nat
           /\ Muda(EmCurso, EmCurso', de \in {"buffer", "dentro", "posta"},
                   para \in {"buffer", "dentro", "posta"})
           /\ Muda(Dentro, Dentro', de = "dentro", para = "dentro")
           /\ Muda(Entregando, Entregando', t \in Produtores /\ de = "posta",
                   t \in Produtores /\ para = "posta")
           /\ Muda(Buscando, Buscando', t \in Consumidores /\ de \in {"buffer", "dentro"},
                   t \in Consumidores /\ para \in {"buffer", "dentro"})
<1>1. Produtores \in SUBSET Threads /\ Consumidores \in SUBSET Threads /\ Threads \in SUBSET Threads
  BY DEF Threads
<1>2. /\ EmCurso \in Nat /\ EmCurso' \in Nat /\ Dentro \in Nat /\ Dentro' \in Nat
      /\ Entregando \in Nat /\ Entregando' \in Nat /\ Buscando \in Nat /\ Buscando' \in Nat
  BY Finitos, QuantosNatural DEF EmCurso, Dentro, Entregando, Buscando
<1>3. Muda(EmCurso, EmCurso', t \in Threads /\ de \in Curso, t \in Threads /\ para \in Curso)
  BY <1>1, Finitos, PassaConta DEF EmCurso
<1>4. Muda(Dentro, Dentro', t \in Threads /\ de \in Secao, t \in Threads /\ para \in Secao)
  BY <1>1, Finitos, PassaConta DEF Dentro
<1>5. Muda(Entregando, Entregando', t \in Produtores /\ de \in Entrega,
           t \in Produtores /\ para \in Entrega)
  BY <1>1, Finitos, PassaConta DEF Entregando
<1>6. Muda(Buscando, Buscando', t \in Consumidores /\ de \in Busca,
           t \in Consumidores /\ para \in Busca)
  BY <1>1, Finitos, PassaConta DEF Buscando
<1> QED BY <1>2, <1>3, <1>4, <1>5, <1>6 DEF Muda, Curso, Secao, Entrega, Busca

-----------------------------------------------------------------------------
\* Every step preserves the invariant.

LEMMA InitPInv == Init => PInv
<1> SUFFICES ASSUME Init PROVE PInv
  OBVIOUS
<1>1. TypeOK
  BY DEF Init, Globais, TypeOK, Lugares, LIMITE
<1>2. /\ {t \in Threads : pc[t] \in {"buffer", "dentro", "posta"}} = {}
      /\ {t \in Threads : pc[t] \in {"dentro"}} = {}
      /\ {t \in Produtores : pc[t] \in {"posta"}} = {}
      /\ {t \in Consumidores : pc[t] \in {"buffer", "dentro"}} = {}
  BY DEF Init, Threads
<1>3. EmCurso = 0 /\ Dentro = 0 /\ Entregando = 0 /\ Buscando = 0
  BY <1>2, FS_EmptySet DEF EmCurso, Dentro, Entregando, Buscando, Quantos,
       Curso, Secao, Entrega, Busca
<1> QED BY <1>1, <1>3 DEF PInv, Init, Globais

LEMMA PassoPInv ==
    ASSUME PInv, NEW t \in Threads, Passo(t)
    PROVE  PInv'
<1>0. pc \in [Threads -> Lugares] /\ s_buffer \in Int /\ s_vaga \in Int /\ s_item \in Int
      /\ fila \in Int /\ tamanhoFila \in Int /\ falhas \in Int
  BY DEF PInv, TypeOK
<1>1. /\ {"dorme", "espera", "buffer", "dentro", "posta"} = Lugares
      /\ t \in Produtores <=> t \notin Consumidores
  BY ThreadsAssumption DEF Lugares, Threads
<1>2. /\ EmCurso \in Nat /\ Dentro \in Nat /\ Entregando \in Nat /\ Buscando \in Nat
      /\ EmCurso' \in Nat /\ Dentro' \in Nat /\ Entregando' \in Nat /\ Buscando' \in Nat
      /\ pc' \in [Threads -> Lugares]
  <2>1. PICK de \in Lugares, para \in Lugares : Passa(t, de, para)
    BY <1>1 DEF Passo, Acorda, EntraBuffer, EsperaVaga, PushAceita, PushFalha, PostaItem,
         EsperaItem, PopAceita, PopVazia, PostaVaga
  <2>2. pc' \in [Threads -> Lugares]
    BY <1>0, <2>1 DEF Passa
  <2> QED BY <1>0, <2>1, <2>2, PassaContas
<1>3. CASE Acorda(t)
  <2>1. /\ EmCurso' = EmCurso /\ Dentro' = Dentro
        /\ Entregando' = Entregando /\ Buscando' = Buscando
    BY <1>0, <1>1, <1>3, PassaContas DEF Muda, Acorda
  <2> QED BY <1>0, <1>2, <1>3, <2>1 DEF PInv, TypeOK, LIMITE, semaforos, Acorda
<1>4. CASE EntraBuffer(t)
  <2>1. /\ EmCurso' = EmCurso /\ Dentro' = Dentro + 1
        /\ Entregando' = Entregando /\ Buscando' = Buscando
    BY <1>0, <1>1, <1>4, PassaContas DEF Muda, EntraBuffer
  <2> QED BY <1>0, <1>2, <1>4, <2>1 DEF PInv, TypeOK, LIMITE, semaforos, EntraBuffer
<1>5. CASE t \in Produtores /\ EsperaVaga(t)
  <2>1. /\ EmCurso' = EmCurso + 1 /\ Dentro' = Dentro
        /\ Entregando' = Entregando /\ Buscando' = Buscando
    BY <1>0, <1>1, <1>5, PassaContas DEF Muda, EsperaVaga
  <2> QED BY <1>0, <1>2, <1>5, <2>1 DEF PInv, TypeOK, LIMITE, semaforos, EsperaVaga
<1>6. CASE t \in Produtores /\ PushAceita(t)
  <2>1. /\ EmCurso' = EmCurso /\ Dentro' = Dentro - 1
        /\ Entregando' = Entregando + 1 /\ Buscando' = Buscando
    BY <1>0, <1>1, <1>6, PassaContas DEF Muda, PushAceita
  <2> QED BY <1>0, <1>2, <1>6, <2>1 DEF PInv, TypeOK, LIMITE, semaforos, PushAceita
<1>7. CASE t \in Produtores /\ PushFalha(t)
  <2>1. /\ EmCurso' = EmCurso /\ Dentro' = Dentro - 1
        /\ Entregando' = Entregando + 1 /\ Buscando' = Buscando
    BY <1>0, <1>1, <1>7, PassaContas DEF Muda, PushFalha
  <2> QED BY <1>0, <1>2, <1>7, <2>1 DEF PInv, TypeOK, LIMITE, semaforos, PushFalha
<1>8. CASE t \in Produtores /\ PostaItem(t)
  <2>1. /\ EmCurso' = EmCurso - 1 /\ Dentro' = Dentro
        /\ Entregando' = Entregando - 1 /\ Buscando' = Buscando
    BY <1>0, <1>1, <1>8, PassaContas DEF Muda, PostaItem
  <2> QED BY <1>0, <1>2, <1>8, <2>1 DEF PInv, TypeOK, LIMITE, semaforos, PostaItem
<1>9. CASE t \in Consumidores /\ EsperaItem(t)
  <2>1. /\ EmCurso' = EmCurso + 1 /\ Dentro' = Dentro
        /\ Entregando' = Entregando /\ Buscando' = Buscando + 1
    BY <1>0, <1>1, <1>9, PassaContas DEF Muda, EsperaItem
  <2> QED BY <1>0, <1>2, <1>9, <2>1 DEF PInv, TypeOK, LIMITE, semaforos, EsperaItem
<1>10. CASE t \in Consumidores /\ PopAceita(t)
  <2>1. /\ EmCurso' = EmCurso /\ Dentro' = Dentro - 1
        /\ Entregando' = Entregando /\ Buscando' = Buscando - 1
    BY <1>0, <1>1, <1>10, PassaContas DEF Muda, PopAceita
  <2> QED BY <1>0, <1>2, <1>10, <2>1 DEF PInv, TypeOK, LIMITE, semaforos, PopAceita
<1>11. CASE t \in Consumidores /\ PopVazia(t)
  <2>1. /\ EmCurso' = EmCurso /\ Dentro' = Dentro - 1
        /\ Entregando' = Entregando /\ Buscando' = Buscando - 1
    BY <1>0, <1>1, <1>11, PassaContas DEF Muda, PopVazia
  <2> QED BY <1>0, <1>2, <1>11, <2>1 DEF PInv, TypeOK, LIMITE, semaforos, PopVazia
<1>12. CASE t \in Consumidores /\ PostaVaga(t)
  <2>1. /\ EmCurso' = EmCurso - 1 /\ Dentro' = Dentro
        /\ Entregando' = Entregando /\ Buscando' = Buscando
    BY <1>0, <1>1, <1>12, PassaContas DEF Muda, PostaVaga
  <2> QED BY <1>0, <1>2, <1>12, <2>1 DEF PInv, TypeOK, LIMITE, semaforos, PostaVaga
<1> QED BY <1>3, <1>4, <1>5, <1>6, <1>7, <1>8, <1>9, <1>10, <1>11, <1>12 DEF Passo

LEMMA ParadoPInv == PInv /\ UNCHANGED vars => PInv'
  BY DEF PInv, TypeOK, EmCurso, Dentro, Entregando, Buscando, Quantos, vars, semaforos

\* The count of free places, of items and of threads between two semaphores adds
\* up, and s_item announces what was pushed or lost.
THEOREM Contas == Spec => []PInv
<1>1. PInv /\ [Next]_vars => PInv'
  BY PassoPInv, ParadoPInv DEF Next
<1> QED BY <1>1, InitPInv, PTL DEF Spec

\* The one place of the buffer is free, or full, or in the hands of exactly one
\* thread, and a thread that wants s_buffer finds it free.
THEOREM VagaSempreConservada == Spec => []VagaConservada
<1>1. PInv => VagaConservada
  <2> SUFFICES ASSUME PInv PROVE VagaConservada
    OBVIOUS
  <2>1. {t \in Threads : pc[t] = "dentro"} = {t \in Threads : pc[t] \in {"dentro"}}
    OBVIOUS
  <2>2. Cardinality({t \in Threads : pc[t] = "dentro"}) = Dentro /\ Cardinality(EmTransito) = EmCurso
    BY <2>1 DEF Dentro, EmCurso, Quantos, EmTransito, Curso, Secao
  <2> QED BY <2>2 DEF PInv, VagaConservada
<1> QED BY <1>1, Contas, PTL

\* A consumer finds the queue empty only because a push failed before.
THEOREM ItensSempreAnunciados == Spec => []ItensAnunciados
<1>1. PInv => ItensAnunciados
  <2> SUFFICES ASSUME PInv PROVE ItensAnunciados
    OBVIOUS
  <2>1. {p \in Produtores : pc[p] = "posta"} = {t \in Produtores : pc[t] \in {"posta"}}
    OBVIOUS
  <2>2. /\ Cardinality({p \in Produtores : pc[p] = "posta"}) = Entregando
        /\ Cardinality({c \in Consumidores : pc[c] \in {"buffer", "dentro"}}) = Buscando
    BY <2>1 DEF Entregando, Buscando, Quantos, Entrega, Busca
  <2> QED BY <2>2 DEF PInv, TypeOK, ItensAnunciados
<1> QED BY <1>1, Contas, PTL

=============================================================================
