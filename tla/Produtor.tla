------------------------------ MODULE Produtor ------------------------------
(***************************************************************************)
(* The producers and consumers of sources/aula8_produtor.c.  A section     *)
(* under s_buffer, up to its sem_post, is one step.  push_filaint takes a  *)
(* node from malloc and does not initialise its links: when they are not   *)
(* both NULL queue_append refuses the node and the item is lost, so a push *)
(* may fail whatever the queue holds.                                      *)
(***************************************************************************)
EXTENDS Integers, FiniteSets

CONSTANTS Produtores, Consumidores

ASSUME ThreadsAssumption ==
    /\ Produtores \cap Consumidores = {}
    /\ IsFiniteSet(Produtores) /\ IsFiniteSet(Consumidores)

LIMITE == 5   \* the test in push_filaint

VARIABLES
    s_buffer, s_vaga, s_item,   \* the semaphores
    fila,          \* the number of nodes linked in filaInteiros
    tamanhoFila,   \* the program's own count of them
    pc,
    falhas   \* history: pushes that failed and no pop has answered yet

semaforos == <<s_buffer, s_vaga, s_item>>
vars == <<semaforos, fila, tamanhoFila, pc, falhas>>

Threads == Produtores \cup Consumidores

Globais == fila = 0 /\ tamanhoFila = 0

Init ==
    /\ Globais
    /\ s_buffer = 1 /\ s_item = 0 /\ s_vaga = 1
    /\ pc = [t \in Threads |-> IF t \in Produtores THEN "dorme" ELSE "espera"]
    /\ falhas = 0

Passa(t, de, para) == pc[t] = de /\ pc' = [pc EXCEPT ![t] = para]

\* The end of sleep(rand() % 4).
Acorda(t) ==
    /\ Passa(t, "dorme", "espera")
    /\ UNCHANGED <<semaforos, fila, tamanhoFila, falhas>>

\* sem_wait(&s_buffer).
EntraBuffer(t) ==
    /\ Passa(t, "buffer", "dentro")
    /\ s_buffer > 0 /\ s_buffer' = s_buffer - 1
    /\ UNCHANGED <<s_vaga, s_item, fila, tamanhoFila, falhas>>

-----------------------------------------------------------------------------
\* The producer.

\* Mutant: the producer does not wait for room.
EsperaVaga_SemEspera(p) ==
    /\ Passa(p, "espera", "buffer")
    /\ UNCHANGED <<semaforos, fila, tamanhoFila, falhas>>

EsperaVaga(p) ==
    /\ Passa(p, "espera", "buffer")
    /\ s_vaga > 0 /\ s_vaga' = s_vaga - 1
    /\ UNCHANGED <<s_buffer, s_item, fila, tamanhoFila, falhas>>

PushAceita(p) ==
    /\ Passa(p, "dentro", "posta")
    /\ tamanhoFila < LIMITE
    /\ fila' = fila + 1 /\ tamanhoFila' = tamanhoFila + 1
    /\ s_buffer' = s_buffer + 1
    /\ UNCHANGED <<s_vaga, s_item, falhas>>

\* The queue is full, or queue_append refuses the node: the item is dropped.
PushFalha(p) ==
    /\ Passa(p, "dentro", "posta")
    /\ falhas' = falhas + 1
    /\ s_buffer' = s_buffer + 1
    /\ UNCHANGED <<s_vaga, s_item, fila, tamanhoFila>>

\* s_item is posted whether the push succeeded or not.
PostaItem(p) ==
    /\ Passa(p, "posta", "dorme")
    /\ s_item' = s_item + 1
    /\ UNCHANGED <<s_buffer, s_vaga, fila, tamanhoFila, falhas>>

-----------------------------------------------------------------------------
\* The consumer.

EsperaItem(c) ==
    /\ Passa(c, "espera", "buffer")
    /\ s_item > 0 /\ s_item' = s_item - 1
    /\ UNCHANGED <<s_buffer, s_vaga, fila, tamanhoFila, falhas>>

\* Mutant: the node is removed and the count is not updated.
PopAceita_SemContar(c) ==
    /\ Passa(c, "dentro", "posta")
    /\ tamanhoFila # 0
    /\ fila' = fila - 1
    /\ s_buffer' = s_buffer + 1
    /\ UNCHANGED <<s_vaga, s_item, tamanhoFila, falhas>>

PopAceita(c) ==
    /\ Passa(c, "dentro", "posta")
    /\ tamanhoFila # 0
    /\ fila' = fila - 1 /\ tamanhoFila' = tamanhoFila - 1
    /\ s_buffer' = s_buffer + 1
    /\ UNCHANGED <<s_vaga, s_item, falhas>>

\* Mutant: the consumer that finds nothing returns with the buffer locked.
PopVazia_SemSoltar(c) ==
    /\ Passa(c, "dentro", "posta")
    /\ tamanhoFila = 0
    /\ falhas' = falhas - 1
    /\ UNCHANGED <<s_buffer, s_vaga, s_item, fila, tamanhoFila>>

PopVazia(c) ==
    /\ Passa(c, "dentro", "posta")
    /\ tamanhoFila = 0
    /\ falhas' = falhas - 1
    /\ s_buffer' = s_buffer + 1
    /\ UNCHANGED <<s_vaga, s_item, fila, tamanhoFila>>

PostaVaga(c) ==
    /\ Passa(c, "posta", "dorme")
    /\ s_vaga' = s_vaga + 1
    /\ UNCHANGED <<s_buffer, s_item, fila, tamanhoFila, falhas>>

-----------------------------------------------------------------------------
Passo(t) ==
    \/ Acorda(t) \/ EntraBuffer(t)
    \/ /\ t \in Produtores
       /\ EsperaVaga(t) \/ PushAceita(t) \/ PushFalha(t) \/ PostaItem(t)
    \/ /\ t \in Consumidores
       /\ EsperaItem(t) \/ PopAceita(t) \/ PopVazia(t) \/ PostaVaga(t)

Next == \E t \in Threads : Passo(t)

Spec == Init /\ [][Next]_vars

\* A thread that can run does; no order is assumed among those that wait for a
\* semaphore.
LiveSpec == Spec /\ \A t \in Threads : WF_vars(Passo(t))

-----------------------------------------------------------------------------
\* Properties.

Lugares == {"dorme", "espera", "buffer", "dentro", "posta"}

\* The values every variable takes.
TypeOK ==
    /\ s_buffer \in 0..1 /\ s_vaga \in 0..1 /\ s_item \in 0..1
    /\ fila \in 0..LIMITE /\ tamanhoFila \in 0..LIMITE
    /\ pc \in [Threads -> Lugares]
    /\ falhas \in Nat

EmTransito == {t \in Threads : pc[t] \in {"buffer", "dentro", "posta"}}

\* The one place of the buffer is free, or full, or in the hands of exactly one
\* thread: nobody ever waits for s_buffer.
VagaConservada ==
    /\ TypeOK
    /\ s_vaga + s_item + Cardinality(EmTransito) = 1
    /\ s_buffer = 1 - Cardinality({t \in Threads : pc[t] = "dentro"})

\* What s_item announces is what the queue holds plus the pushes that failed: a
\* consumer finds the queue empty only because a push failed before.
ItensAnunciados ==
    /\ fila = tamanhoFila /\ falhas >= 0
    /\ s_item + Cardinality({p \in Produtores : pc[p] = "posta"})
              + Cardinality({c \in Consumidores : pc[c] \in {"buffer", "dentro"}})
         = fila + falhas

\* Producers and consumers go on for ever, failed pushes included.
Continuam ==
    /\ []<>(\E p \in Produtores : pc[p] = "posta")
    /\ []<>(\E c \in Consumidores : pc[c] = "posta")

=============================================================================
