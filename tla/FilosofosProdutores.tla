------------------------ MODULE FilosofosProdutores ------------------------
(***************************************************************************)
(* The dining philosophers as producers and consumers of chopsticks,       *)
(* sources/aula8_filosofosprodutores.c: s_item counts the chopsticks to be *)
(* taken, s_vaga those to be put back, s_buffer protects the array.  A     *)
(* section under s_buffer up to its sem_post is one step.                  *)
(***************************************************************************)
EXTENDS Integers

CONSTANT NUMFILO   \* 2 or more

VARIABLES
    hashis,                     \* 1 on the table, 0 taken
    s_buffer, s_vaga, s_item,   \* the semaphores
    num_vagas, num_item,        \* the counters shown by the messages
    pc

semaforos == <<s_buffer, s_vaga, s_item>>
contadores == <<num_vagas, num_item>>
vars == <<hashis, semaforos, contadores, pc>>

Filosofo == 0..(NUMFILO - 1)

Direita(i) == i
Esquerda(i) == IF i + 1 = NUMFILO THEN 0 ELSE i + 1   \* (i + 1) % NUMFILO

Globais ==
    /\ hashis = [h \in Filosofo |-> 1]
    /\ num_vagas = 0 /\ num_item = NUMFILO

Init ==
    /\ Globais
    /\ s_buffer = 1 /\ s_vaga = 0 /\ s_item = NUMFILO
    /\ pc = [i \in Filosofo |-> "medita"]

Passa(i, de, para) == pc[i] = de /\ pc' = [pc EXCEPT ![i] = para]

\* sem_wait(&s_item) and sem_wait(&s_vaga).
EsperaItem(i, de, para) ==
    /\ Passa(i, de, para)
    /\ s_item > 0 /\ s_item' = s_item - 1
    /\ UNCHANGED <<hashis, s_buffer, s_vaga, contadores>>

EsperaVaga(i, de, para) ==
    /\ Passa(i, de, para)
    /\ s_vaga > 0 /\ s_vaga' = s_vaga - 1
    /\ UNCHANGED <<hashis, s_buffer, s_item, contadores>>

PostaItem(i, de, para) ==
    /\ Passa(i, de, para)
    /\ s_item' = s_item + 1
    /\ UNCHANGED <<hashis, s_buffer, s_vaga, contadores>>

PostaVaga(i, de, para) ==
    /\ Passa(i, de, para)
    /\ s_vaga' = s_vaga + 1
    /\ UNCHANGED <<hashis, s_buffer, s_item, contadores>>

\* A section under s_buffer that takes chopstick h.
Pega(i, h, de, para) ==
    /\ Passa(i, de, para)
    /\ s_buffer > 0 /\ hashis[h] # 0
    /\ hashis' = [hashis EXCEPT ![h] = 0]
    /\ num_item' = num_item - 1 /\ num_vagas' = num_vagas + 1
    /\ UNCHANGED semaforos

\* A section under s_buffer that puts chopstick h back.
Larga(i, h, de, para) ==
    /\ Passa(i, de, para)
    /\ s_buffer > 0
    /\ hashis' = [hashis EXCEPT ![h] = 1]
    /\ num_item' = num_item + 1 /\ num_vagas' = num_vagas - 1
    /\ UNCHANGED semaforos

\* The left chopstick is not there: s_buffer is given back, then s_item.
FaltaEsquerda(i) ==
    /\ Passa(i, "esquerda", "semEsquerda")
    /\ s_buffer > 0 /\ hashis[Esquerda(i)] = 0
    /\ UNCHANGED <<hashis, semaforos, contadores>>

\* The right chopstick is not there: s_buffer is kept.
FaltaDireita(i) ==
    /\ Passa(i, "direita", "desiste")
    /\ hashis[Direita(i)] = 0
    /\ s_buffer > 0 /\ s_buffer' = s_buffer - 1
    /\ UNCHANGED <<hashis, s_vaga, s_item, contadores>>

\* sem_wait(&s_buffer) by the thread that holds it, and the rest of the branch.
DesisteBuffer(i) ==
    /\ Passa(i, "desisteBuffer", "desisteLarga")
    /\ s_buffer > 0 /\ s_buffer' = s_buffer - 1
    /\ UNCHANGED <<hashis, s_vaga, s_item, contadores>>

DesisteLarga(i) ==
    /\ Passa(i, "desisteLarga", "desisteItem")
    /\ hashis' = [hashis EXCEPT ![Esquerda(i)] = 1]
    /\ s_buffer' = s_buffer + 1
    /\ UNCHANGED <<s_vaga, s_item, contadores>>

Passo(i) ==
    \/ EsperaItem(i, "medita", "esquerda")
    \/ Pega(i, Esquerda(i), "esquerda", "vagaEsquerda")
    \/ PostaVaga(i, "vagaEsquerda", "itemDireita")
    \/ FaltaEsquerda(i) \/ PostaItem(i, "semEsquerda", "medita")
    \/ EsperaItem(i, "itemDireita", "direita")
    \/ Pega(i, Direita(i), "direita", "vagaDireita")
    \/ PostaVaga(i, "vagaDireita", "come")
    \/ EsperaVaga(i, "come", "largaEsquerda")
    \/ Larga(i, Esquerda(i), "largaEsquerda", "largouEsquerda")
    \/ PostaItem(i, "largouEsquerda", "comeuEsquerda")
    \/ EsperaVaga(i, "comeuEsquerda", "largaDireita")
    \/ Larga(i, Direita(i), "largaDireita", "largouDireita")
    \/ PostaItem(i, "largouDireita", "medita")
    \/ FaltaDireita(i)
    \/ EsperaVaga(i, "desiste", "desisteBuffer")
    \/ DesisteBuffer(i) \/ DesisteLarga(i)
    \/ PostaItem(i, "desisteItem", "medita")

Next == \E i \in Filosofo : Passo(i)

Spec == Init /\ [][Next]_vars

\* A thread that can run does.
LiveSpec == Spec /\ \A i \in Filosofo : WF_vars(Passo(i))

-----------------------------------------------------------------------------
\* What the comment of the else branch says: a philosopher that did not get
\* the right chopstick puts the left one back.
LargaQuandoNaoConsegue ==
    \A i \in Filosofo : pc[i] = "desiste" ~> pc[i] = "desisteItem"

=============================================================================
