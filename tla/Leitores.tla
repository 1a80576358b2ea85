------------------------------ MODULE Leitores ------------------------------
(***************************************************************************)
(* The readers and writers of sources/aula8_escritor_prioridade*.c.  In    *)
(* "igual" everybody takes semEscritor; in "leitor" and "escritor" the     *)
(* first reader takes it and the last gives it back.  "escritor" adds the  *)
(* count querUsar of the writers that want the list, and a sleep of the    *)
(* reader that finds it above zero: the sleep only delays.  semUsando is   *)
(* initialised and never used: the accesses of the readers to usando, and  *)
(* of the writers to querUsar, interleave freely, as a load and a store of *)
(* a plain int.                                                            *)
(*                                                                         *)
(* push_filaint may fail, as in module Produtor, and then the list shrinks.*)
(***************************************************************************)
EXTENDS Integers, FiniteSets

CONSTANTS
    Escritores, Leitores,
    Variantes,   \* the programs that are checked
    LIMITE       \* the capacity in push_filaint, 5 in the code

ASSUME ConstantesAssumption ==
    /\ Escritores \cap Leitores = {}
    /\ IsFiniteSet(Escritores) /\ IsFiniteSet(Leitores)
    /\ Variantes \subseteq {"igual", "leitor", "escritor"}
    /\ LIMITE \in Nat

VARIABLES
    variante,
    semEscritor, usando, querUsar,
    fila,     \* nodes in filaInteiros, what tamanhoFila counts
    pc, reg,  \* where each thread is, the value of the int it has loaded or stored
    corrida,  \* history: a reader has acted on a value of usando that was stale
    perdeu,   \* history: a writer has stored over an update of querUsar
    erro      \* "segv" after a dereference of an empty list

vars == <<variante, semEscritor, usando, querUsar, fila, pc, reg, corrida, perdeu, erro>>

Threads == Escritores \cup Leitores

Init ==
    /\ variante \in Variantes
    /\ semEscritor = 1 /\ usando = 0 /\ querUsar = 0 /\ fila = LIMITE
    /\ pc = [t \in Threads |-> "inicio"] /\ reg = [t \in Threads |-> 0]
    /\ corrida = FALSE /\ perdeu = FALSE /\ erro = "nao"

\* Bound: a behaviour is followed up to the first race on usando, after which
\* the program promises nothing.
Roda == erro = "nao" /\ ~corrida

Passa(t, de, para) == Roda /\ pc[t] = de /\ pc' = [pc EXCEPT ![t] = para]

SemWait == semEscritor > 0 /\ semEscritor' = semEscritor - 1
SemPost == semEscritor' = semEscritor + 1

\* Both start by reading an element: of no element, when the list is empty.
ListaVazia(t) ==
    /\ Roda /\ pc[t] \in {"escreve", "le"} /\ fila = 0
    /\ erro' = "segv"
    /\ UNCHANGED <<variante, semEscritor, usando, querUsar, fila, pc, reg, corrida, perdeu>>

-----------------------------------------------------------------------------
\* The writer.

\* "escritor": querUsar++ before the wait, querUsar-- before the post, each a
\* load and a store.  Bound: once an update is lost the count is not followed,
\* and what a reader finds in it is open.
Contando == {"quer", "larga"}

GuardaQuerUsar(w, valor) ==
    LET sobrepoe == perdeu \/ \E v \in Escritores \ {w} : pc[v] \in Contando IN
    /\ perdeu' = sobrepoe
    /\ querUsar' = IF sobrepoe THEN 0 ELSE valor
    /\ reg' = [t \in Threads |-> IF t = w \/ (sobrepoe /\ t \in Escritores) THEN 0 ELSE reg[t]]

EscritorCarregaQuer(w) ==
    /\ variante = "escritor"
    /\ Passa(w, "inicio", "quer")
    /\ reg' = [reg EXCEPT ![w] = querUsar]
    /\ UNCHANGED <<variante, semEscritor, usando, querUsar, fila, corrida, perdeu, erro>>

EscritorQuer(w) ==
    /\ Passa(w, "quer", "pede")
    /\ GuardaQuerUsar(w, reg[w] + 1)
    /\ UNCHANGED <<variante, semEscritor, usando, fila, corrida, erro>>

EscritorCarregaLarga(w) ==
    /\ variante = "escritor"
    /\ Passa(w, "sai", "larga")
    /\ reg' = [reg EXCEPT ![w] = querUsar]
    /\ UNCHANGED <<variante, semEscritor, usando, querUsar, fila, corrida, perdeu, erro>>

\* Mutant: the writer never takes its wish back.
EscritorLarga_Esquece(w) ==
    /\ Passa(w, "larga", "posta")
    /\ GuardaQuerUsar(w, reg[w])
    /\ UNCHANGED <<variante, semEscritor, usando, fila, corrida, erro>>

EscritorLarga(w) ==
    /\ Passa(w, "larga", "posta")
    /\ GuardaQuerUsar(w, reg[w] - 1)
    /\ UNCHANGED <<variante, semEscritor, usando, fila, corrida, erro>>

\* Mutant: the wait is forgotten.
EscritorEntra_SemEspera(w) ==
    /\ Passa(w, IF variante = "escritor" THEN "pede" ELSE "inicio", "escreve")
    /\ UNCHANGED <<variante, semEscritor, usando, querUsar, fila, reg, corrida, perdeu, erro>>

EscritorEntra(w) ==
    /\ Passa(w, IF variante = "escritor" THEN "pede" ELSE "inicio", "escreve")
    /\ SemWait
    /\ UNCHANGED <<variante, usando, querUsar, fila, reg, corrida, perdeu, erro>>

\* pop_filaint, and push_filaint that may refuse its node.
EscritorTroca(w) ==
    /\ Passa(w, "escreve", "sai")
    /\ fila > 0 /\ fila' \in {fila, fila - 1}
    /\ UNCHANGED <<variante, semEscritor, usando, querUsar, reg, corrida, perdeu, erro>>

\* Mutant: the writer leaves without a post.
EscritorSai_SemPost(w) ==
    /\ Passa(w, IF variante = "escritor" THEN "posta" ELSE "sai", "inicio")
    /\ UNCHANGED <<variante, semEscritor, usando, querUsar, fila, reg, corrida, perdeu, erro>>

EscritorSai(w) ==
    /\ Passa(w, IF variante = "escritor" THEN "posta" ELSE "sai", "inicio")
    /\ SemPost
    /\ UNCHANGED <<variante, usando, querUsar, fila, reg, corrida, perdeu, erro>>

-----------------------------------------------------------------------------
\* The reader where everybody is equal.

LeitorIgualEntra(r) ==
    /\ variante = "igual"
    /\ Passa(r, "inicio", "le")
    /\ SemWait
    /\ UNCHANGED <<variante, usando, querUsar, fila, reg, corrida, perdeu, erro>>

LeitorIgualSai(r) ==
    /\ variante = "igual"
    /\ Passa(r, "sai", "inicio")
    /\ SemPost
    /\ UNCHANGED <<variante, usando, querUsar, fila, reg, corrida, perdeu, erro>>

\* The walk over the list.
LeitorLe(r) ==
    /\ Passa(r, "le", "sai")
    /\ fila > 0
    /\ UNCHANGED <<variante, semEscritor, usando, querUsar, fila, reg, corrida, perdeu, erro>>

-----------------------------------------------------------------------------
\* Another reader is between its load and its store of usando: the store of r
\* makes the value it has loaded stale.
Sobreposto(r) == \E l \in Leitores \ {r} : pc[l] \in {"conta", "desconta"}

\* travaSemaforoLeitor with priorities: if (querUsar) sleep, in "escritor" only;
\* if (!usando) sem_wait; usando++.

LeitorVeQuer(r) ==
    /\ variante = "escritor"
    /\ \/ Passa(r, "inicio", "dorme") /\ (perdeu \/ querUsar # 0)
       \/ Passa(r, "inicio", "passa") /\ (perdeu \/ querUsar = 0)
    /\ UNCHANGED <<variante, semEscritor, usando, querUsar, fila, reg, corrida, perdeu, erro>>

LeitorAcorda(r) ==
    /\ Passa(r, "dorme", "passa")
    /\ UNCHANGED <<variante, semEscritor, usando, querUsar, fila, reg, corrida, perdeu, erro>>

LeitorTesta(r) ==
    /\ variante # "igual"
    /\ Passa(r, IF variante = "escritor" THEN "passa" ELSE "inicio",
             IF usando = 0 THEN "espera" ELSE "entra")
    /\ UNCHANGED <<variante, semEscritor, usando, querUsar, fila, reg, corrida, perdeu, erro>>

LeitorEspera(r) ==
    /\ Passa(r, "espera", "primeiro")
    /\ SemWait
    /\ UNCHANGED <<variante, usando, querUsar, fila, reg, corrida, perdeu, erro>>

\* The load of usando++.  A reader that has not waited relies on the readers it
\* saw: they may be gone.
LeitorCarrega(r) ==
    /\ \/ Passa(r, "primeiro", "conta") /\ corrida' = corrida
       \/ Passa(r, "entra", "conta") /\ corrida' = (usando = 0)
    /\ reg' = [reg EXCEPT ![r] = usando]
    /\ UNCHANGED <<variante, semEscritor, usando, querUsar, fila, perdeu, erro>>

LeitorConta(r) ==
    /\ Passa(r, "conta", "le")
    /\ usando' = reg[r] + 1 /\ reg' = [reg EXCEPT ![r] = 0]
    /\ corrida' = Sobreposto(r)
    /\ UNCHANGED <<variante, semEscritor, querUsar, fila, perdeu, erro>>

\* liberaSemaforo: usando--; if (usando == 0) sem_post.
LeitorDescarrega(r) ==
    /\ variante # "igual"
    /\ Passa(r, "sai", "desconta")
    /\ reg' = [reg EXCEPT ![r] = usando]
    /\ UNCHANGED <<variante, semEscritor, usando, querUsar, fila, corrida, perdeu, erro>>

LeitorDesconta(r) ==
    /\ Passa(r, "desconta", "testa")
    /\ usando' = reg[r] - 1
    /\ reg' = [reg EXCEPT ![r] = reg[r] - 1]
    /\ corrida' = Sobreposto(r)
    /\ UNCHANGED <<variante, semEscritor, querUsar, fila, perdeu, erro>>

\* Mutant: every reader gives the semaphore back.
LeitorUltimo_Sempre(r) ==
    /\ Passa(r, "testa", "inicio")
    /\ SemPost
    /\ UNCHANGED <<variante, usando, querUsar, fila, reg, corrida, perdeu, erro>>

\* The test reads usando again: it may be another reader's zero.
LeitorUltimo(r) ==
    /\ Passa(r, "testa", "inicio")
    /\ usando = 0
    /\ SemPost
    /\ corrida' = (reg[r] # 0) /\ reg' = [reg EXCEPT ![r] = 0]
    /\ UNCHANGED <<variante, usando, querUsar, fila, perdeu, erro>>

LeitorNaoUltimo(r) ==
    /\ Passa(r, "testa", "inicio")
    /\ usando # 0
    /\ corrida' = (reg[r] = 0) /\ reg' = [reg EXCEPT ![r] = 0]
    /\ UNCHANGED <<variante, semEscritor, usando, querUsar, fila, perdeu, erro>>

-----------------------------------------------------------------------------
Passo(t) ==
    \/ ListaVazia(t)
    \/ /\ t \in Escritores
       /\ \/ EscritorCarregaQuer(t) \/ EscritorQuer(t) \/ EscritorEntra(t)
          \/ EscritorTroca(t) \/ EscritorCarregaLarga(t) \/ EscritorLarga(t)
          \/ EscritorSai(t)
    \/ /\ t \in Leitores
       /\ \/ LeitorIgualEntra(t) \/ LeitorIgualSai(t) \/ LeitorLe(t)
          \/ LeitorVeQuer(t) \/ LeitorAcorda(t) \/ LeitorTesta(t) \/ LeitorEspera(t)
          \/ LeitorCarrega(t) \/ LeitorConta(t)
          \/ LeitorDescarrega(t) \/ LeitorDesconta(t)
          \/ LeitorUltimo(t) \/ LeitorNaoUltimo(t)

Parou == ~Roda /\ UNCHANGED vars

Next == (\E t \in Threads : Passo(t)) \/ Parou

Spec == Init /\ [][Next]_vars

\* A thread that can run does; no order is assumed among those that wait for
\* the semaphore.
LiveSpec == Spec /\ \A t \in Threads : WF_vars(Passo(t))

-----------------------------------------------------------------------------
\* Properties.

EmLugar(G, lugares) == {t \in G : pc[t] \in lugares}

EscritoresDentro == EmLugar(Escritores, {"escreve", "sai", "larga", "posta"})

\* A writer excludes everybody, so no reader walks over a node that is being
\* freed: always where everybody takes the semaphore, and with priorities
\* for as long as no reader has acted on a stale value of usando, whatever
\* querUsar says.
ExclusaoMutua ==
    ~corrida /\ EscritoresDentro # {} =>
        Cardinality(EscritoresDentro) = 1 /\ EmLugar(Leitores, {"le"}) = {}

\* The values every variable takes.
TypeOK ==
    /\ variante \in Variantes
    /\ semEscritor \in 0..1 /\ usando \in 0..Cardinality(Leitores)
    /\ querUsar \in 0..Cardinality(Escritores) /\ fila \in 0..LIMITE
    /\ reg \in [Threads -> 0..Cardinality(Threads)] /\ erro \in {"nao", "segv"}

\* The semaphore is free, or one writer has it, or the readers share it; usando
\* counts the readers that entered and did not begin to leave.
SemaforoConservado ==
    ~corrida /\ variante # "igual" =>
        /\ usando = Cardinality(EmLugar(Leitores, {"le", "sai", "desconta"}))
        /\ semEscritor + Cardinality(EscritoresDentro) =
              IF usando > 0 \/ EmLugar(Leitores, {"primeiro", "conta"}) # {}
                 \/ \E r \in EmLugar(Leitores, {"testa"}) : reg[r] = 0
              THEN 0 ELSE 1

\* Readers give way to the writers there are: until two of their updates
\* overlap, querUsar counts the writers from their request to their leave.
QuerUsarConta ==
    ~corrida /\ ~perdeu =>
        /\ TypeOK
        /\ querUsar = IF variante = "escritor"
                       THEN Cardinality(EmLugar(Escritores, {"pede", "escreve", "sai", "larga"}))
                       ELSE 0

\* Somebody enters again and again, unless a race on usando has lost the
\* semaphore or the list has run out of elements.
Progride ==
    []<>(\E t \in Threads : pc[t] \in {"escreve", "le"}) \/ <>(corrida \/ erro # "nao")

=============================================================================
