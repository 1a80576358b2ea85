---------------------------- MODULE FilaPreempta ----------------------------
(***************************************************************************)
(* The queue_append that ends task_create (sources/ppos_core.c line 166),  *)
(* one store per step, under the preemption of systick.  Module Ppos takes *)
(* the append as one step; here a tick that uses up the quantum may fall   *)
(* between any two of its stores, and the dispatcher then works on the     *)
(* half-linked filaProntas.  The dispatcher's own queue calls are atomic:  *)
(* a tick in them only advances the clock.                                 *)
(***************************************************************************)
EXTENDS Ponteiro, Integers, FiniteSets

CONSTANTS
    Criador,   \* the running task, inside task_create
    Nova,      \* the descriptor it creates
    Prontas    \* the tasks that are ready at that moment: neither of the two

Nos == {Criador, Nova} \cup Prontas

ASSUME NosAssumption == /\ Criador # Nova /\ Prontas \cap {Criador, Nova} = {}
                        /\ NULL \notin Nos /\ IsFiniteSet(Prontas)

VARIABLES
    ligas,              \* filaProntas: its head, the next and prev of the tasks
    pc,                \* the line of queue_append its caller is about to run
    primeiro, ultimo,  \* the locals of queue_append
    rodando,           \* the task on the processor, NULL in the dispatcher
    terminadas,
    erro,              \* "segv" or "laco" once the dispatcher is lost
    perigo             \* history: a preemption has cut the append where it matters

varsCorte == <<ligas, pc, primeiro, ultimo, rodando, terminadas, erro, perigo>>

Retornou == "retornou 0"

\* filaProntas holds the ready tasks in some order.
InitCorte ==
    /\ \E ordem \in {f \in [1..Cardinality(Prontas) -> Prontas] :
                        \A i, j \in DOMAIN f : f[i] = f[j] => i = j} :
         LET n == Cardinality(Prontas)
             Depois(i) == IF i = n THEN 1 ELSE i + 1
             Antes(i) == IF i = 1 THEN n ELSE i - 1
             Posicao(t) == CHOOSE i \in 1..n : ordem[i] = t
         IN ligas = [cabeca |-> IF n = 0 THEN NULL ELSE ordem[1],
                    next |-> [t \in Nos |-> IF t \in Prontas
                                            THEN ordem[Depois(Posicao(t))] ELSE NULL],
                    prev |-> [t \in Nos |-> IF t \in Prontas
                                            THEN ordem[Antes(Posicao(t))] ELSE NULL]]
    /\ pc = "testa" /\ primeiro = NULL /\ ultimo = NULL
    /\ rodando = Criador /\ terminadas = {} /\ erro = "nao" /\ perigo = FALSE

-----------------------------------------------------------------------------
\* queue_append(&filaProntas, task), statement by statement.

Comando(de, para) ==
    /\ erro = "nao" /\ rodando = Criador /\ pc = de /\ pc' = para
    /\ UNCHANGED <<rodando, terminadas, erro, perigo>>

AppendTesta ==
    /\ Comando("testa", IF ligas.cabeca = NULL THEN "81" ELSE "86")
    /\ UNCHANGED <<ligas, primeiro, ultimo>>

AppendPrimeira ==
    /\ Comando("81", "82")
    /\ ligas' = [ligas EXCEPT !.cabeca = Nova]
    /\ UNCHANGED <<primeiro, ultimo>>

\* (*queue)->next = elem reads the head again.
AppendPrimeiraNext ==
    /\ Comando("82", "83")
    /\ ligas' = [ligas EXCEPT !.next[ligas.cabeca] = Nova]
    /\ UNCHANGED <<primeiro, ultimo>>

AppendPrimeiraPrev ==
    /\ Comando("83", Retornou)
    /\ ligas' = [ligas EXCEPT !.prev[ligas.cabeca] = Nova]
    /\ UNCHANGED <<primeiro, ultimo>>

AppendLePrimeiro ==
    /\ Comando("86", "87")
    /\ primeiro' = ligas.cabeca
    /\ UNCHANGED <<ligas, ultimo>>

AppendLeUltimo ==
    /\ primeiro # NULL
    /\ Comando("87", "88")
    /\ ultimo' = ligas.prev[primeiro]
    /\ UNCHANGED <<ligas, primeiro>>

AppendLigaUltimo ==
    /\ ultimo # NULL
    /\ Comando("88", "89")
    /\ ligas' = [ligas EXCEPT !.next[ultimo] = Nova]
    /\ UNCHANGED <<primeiro, ultimo>>

\* The queue was emptied since it was tested, or primeiro has left it since it
\* was read: a null pointer is followed.
AppendSegue ==
    /\ erro = "nao" /\ rodando = Criador
    /\ (pc = "87" /\ primeiro = NULL) \/ (pc = "88" /\ ultimo = NULL)
    /\ erro' = "segv"
    /\ UNCHANGED <<ligas, pc, primeiro, ultimo, rodando, terminadas, perigo>>

AppendLigaPrimeiro ==
    /\ Comando("89", "90")
    /\ ligas' = [ligas EXCEPT !.prev[primeiro] = Nova]
    /\ UNCHANGED <<primeiro, ultimo>>

AppendNext ==
    /\ Comando("90", "91")
    /\ ligas' = [ligas EXCEPT !.next[Nova] = primeiro]
    /\ UNCHANGED <<primeiro, ultimo>>

\* Mutant: the new element is not linked backwards.
AppendPrev_Esquece ==
    /\ Comando("91", Retornou)
    /\ UNCHANGED <<ligas, primeiro, ultimo>>

AppendPrev ==
    /\ Comando("91", Retornou)
    /\ ligas' = [ligas EXCEPT !.prev[Nova] = ultimo]
    /\ UNCHANGED <<primeiro, ultimo>>

-----------------------------------------------------------------------------
\* The dispatcher's calls, whole.

QueueAppend(a, t) ==
    IF a.next[t] # NULL \/ a.prev[t] # NULL THEN a
    ELSE IF a.cabeca = NULL
    THEN [cabeca |-> t, next |-> [a.next EXCEPT ![t] = t], prev |-> [a.prev EXCEPT ![t] = t]]
    ELSE [a EXCEPT !.next[a.prev[a.cabeca]] = t, !.next[t] = a.cabeca,
                   !.prev[a.cabeca] = t, !.prev[t] = a.prev[a.cabeca]]

Sozinha(a, t) == a.cabeca = t /\ a.next[t] = t

QueueRemove(a, t) ==
    IF Sozinha(a, t)
    THEN [cabeca |-> NULL, next |-> [a.next EXCEPT ![t] = NULL], prev |-> [a.prev EXCEPT ![t] = NULL]]
    ELSE [cabeca |-> IF a.cabeca = t THEN a.next[t] ELSE a.cabeca,
          next |-> [a.next EXCEPT ![a.prev[t]] = a.next[t], ![t] = NULL],
          prev |-> [a.prev EXCEPT ![a.next[t]] = a.prev[t], ![t] = NULL]]

\* The n-th node of the walk that follows next from the head.
Caminho(a) ==
    LET no[n \in 0..Cardinality(Nos)] ==
            IF n = 0 THEN a.cabeca
            ELSE IF no[n - 1] = NULL THEN NULL ELSE a.next[no[n - 1]]
    IN  no

\* The walk of scheduler() comes back to the head, or meets a null pointer, or
\* neither, ever.
Volta(a) == \E n \in 1..Cardinality(Nos) : Caminho(a)[n] = a.cabeca
Nulo(a) == \E n \in 1..Cardinality(Nos) : Caminho(a)[n] = NULL
Alcancadas(a) == {Caminho(a)[n] : n \in 0..Cardinality(Nos)} \ {NULL}

\* Where the append may be cut: the links are half made, or, when the caller is
\* resumed, what it has already read of the queue is no longer so.
MeioLigado == {"82", "83", "89", "90", "91"}
LeituraVelha ==
    \/ pc = "86" /\ ligas.cabeca = NULL
    \/ pc = "87" /\ ligas.cabeca # primeiro
    \/ pc = "88" /\ (ligas.cabeca # primeiro \/ ligas.prev[primeiro] # ultimo)

\* A quantum ends, or the task yields outside queue_append: the dispatcher puts
\* it back at the end of filaProntas.
Preempta ==
    /\ erro = "nao" /\ rodando # NULL
    /\ IF ligas.cabeca # NULL /\ ligas.prev[ligas.cabeca] = NULL
       THEN erro' = "segv" /\ UNCHANGED ligas
       ELSE ligas' = QueueAppend(ligas, rodando) /\ UNCHANGED erro
    /\ rodando' = NULL
    /\ perigo' = (perigo \/ (rodando = Criador /\ pc \in MeioLigado))
    /\ UNCHANGED <<pc, primeiro, ultimo, terminadas>>

TaskExit ==
    /\ erro = "nao" /\ rodando # NULL
    /\ rodando = Criador => pc = Retornou
    /\ terminadas' = terminadas \cup {rodando}
    /\ rodando' = NULL
    /\ UNCHANGED <<ligas, pc, primeiro, ultimo, erro, perigo>>

\* scheduler() chooses any task it reaches and queue_remove takes it out.
Despacha(t) ==
    /\ erro = "nao" /\ rodando = NULL /\ ligas.cabeca # NULL
    /\ Volta(ligas) /\ t \in Alcancadas(ligas)
    /\ IF ligas.prev[t] = NULL /\ ~Sozinha(ligas, t)
       THEN erro' = "segv" /\ UNCHANGED <<ligas, rodando>>
       ELSE ligas' = QueueRemove(ligas, t) /\ rodando' = t /\ UNCHANGED erro
    /\ UNCHANGED <<pc, primeiro, ultimo, terminadas>>
    /\ perigo' = (perigo \/ (t = Criador /\ LeituraVelha'))

DespachaPerdido ==
    /\ erro = "nao" /\ rodando = NULL /\ ligas.cabeca # NULL /\ ~Volta(ligas)
    /\ erro' = IF Nulo(ligas) THEN "segv" ELSE "laco"
    /\ UNCHANGED <<ligas, pc, primeiro, ultimo, rodando, terminadas, perigo>>

\* Nothing ready: the dispatcher's loop spins or ends.  Lost: it is over.
Parado ==
    /\ erro # "nao" \/ (rodando = NULL /\ ligas.cabeca = NULL)
    /\ UNCHANGED varsCorte

NextCorte ==
    \/ AppendTesta \/ AppendPrimeira \/ AppendPrimeiraNext \/ AppendPrimeiraPrev
    \/ AppendLePrimeiro \/ AppendLeUltimo \/ AppendLigaUltimo \/ AppendSegue
    \/ AppendLigaPrimeiro \/ AppendNext \/ AppendPrev
    \/ Preempta \/ TaskExit
    \/ \E t \in Nos : Despacha(t)
    \/ DespachaPerdido \/ Parado

SpecCorte == InitCorte /\ [][NextCorte]_varsCorte

-----------------------------------------------------------------------------
\* The tasks filaProntas must hold: those neither running nor reaped, the new
\* one from the return of the append.
Esperadas == Nos \ ({rodando} \cup terminadas \cup (IF pc = Retornou THEN {} ELSE {Nova}))

\* A preemption of the append is harmless before its first store, if what it
\* has read is still so when it goes on: then the dispatcher never follows a
\* null pointer nor loops, and whenever the append is not between two of its
\* stores the ring is closed both ways and holds the tasks it must.
CorteInofensivo ==
    ~perigo =>
        /\ erro = "nao"
        /\ pc \notin MeioLigado =>
              /\ Alcancadas(ligas) = Esperadas
              /\ \A t \in Esperadas : ligas.prev[ligas.next[t]] = t

=============================================================================
