----------------------------- MODULE Filosofos -----------------------------
(***************************************************************************)
(* The dining philosophers of sources/aula8_filosofos.c: one semaphore per *)
(* chopstick (hashi), every philosopher takes the left one first.  The     *)
(* program can stop in a circular wait; the module states that this is the *)
(* only way it stops.                                                      *)
(***************************************************************************)
EXTENDS Integers, FiniteSets

CONSTANT NUMFILO

ASSUME NumfiloAssumption == NUMFILO \in Nat /\ NUMFILO >= 2

VARIABLES hashi, pc   \* the semaphores, where each thread is

vars == <<hashi, pc>>

Filosofo == 0..(NUMFILO - 1)

Direita(i) == i
Esquerda(i) == IF i + 1 = NUMFILO THEN 0 ELSE i + 1   \* (i + 1) % NUMFILO

Init == hashi = [h \in Filosofo |-> 1] /\ pc = [i \in Filosofo |-> "medita"]

Passa(i, de, para) == pc[i] = de /\ pc' = [pc EXCEPT ![i] = para]

SemWait(h) == hashi[h] > 0 /\ hashi' = [hashi EXCEPT ![h] = @ - 1]
SemPost(h) == hashi' = [hashi EXCEPT ![h] = @ + 1]

PegaEsquerda(i) == Passa(i, "medita", "direita") /\ SemWait(Esquerda(i))

\* Mutant: the wait for the right one is forgotten.
PegaDireita_SemEspera(i) == Passa(i, "direita", "come") /\ UNCHANGED hashi

PegaDireita(i) == Passa(i, "direita", "come") /\ SemWait(Direita(i))

LargaEsquerda(i) == Passa(i, "come", "larga") /\ SemPost(Esquerda(i))

\* Mutant: the second chopstick is never put back.
LargaDireita_Esquece(i) == Passa(i, "larga", "medita") /\ UNCHANGED hashi

LargaDireita(i) == Passa(i, "larga", "medita") /\ SemPost(Direita(i))

\* Everyone holds the left one and waits for the right one: the process hangs.
EsperaCircular == \A i \in Filosofo : pc[i] = "direita"
Trava == EsperaCircular /\ UNCHANGED vars

Passo(i) == PegaEsquerda(i) \/ PegaDireita(i) \/ LargaEsquerda(i) \/ LargaDireita(i)

Next == (\E i \in Filosofo : Passo(i)) \/ Trava

Spec == Init /\ [][Next]_vars

\* A thread that can run does; no order among the threads that wait for a
\* semaphore is assumed.
LiveSpec == Spec /\ \A i \in Filosofo : WF_vars(Passo(i))

-----------------------------------------------------------------------------
\* Properties.

\* The semaphores are binary.
TypeOK ==
    /\ hashi \in [Filosofo -> 0..1]
    /\ pc \in [Filosofo -> {"medita", "direita", "come", "larga"}]

\* Who holds each chopstick according to the code's position.
Segura(i, h) ==
    \/ h = Esquerda(i) /\ pc[i] \in {"direita", "come"}
    \/ h = Direita(i) /\ pc[i] \in {"come", "larga"}

\* A chopstick is on the table or in the hands of exactly one philosopher.
HashisConservados ==
    \A h \in Filosofo :
        /\ hashi[h] = 1 => \A i \in Filosofo : ~Segura(i, h)
        /\ hashi[h] = 0 => \E i \in Filosofo : Segura(i, h)
        /\ \A i, j \in Filosofo : Segura(i, h) /\ Segura(j, h) => i = j

\* Two neighbours never eat at the same time.
VizinhosNaoComem ==
    \A i \in Filosofo : ~(pc[i] = "come" /\ pc[Esquerda(i)] = "come")

\* Unless the circular wait happens, somebody eats again and again.
AlguemCome == []<>(\E i \in Filosofo : pc[i] = "come") \/ <>[]EsperaCircular

=============================================================================
