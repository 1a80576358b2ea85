------------------------------ MODULE Exclusao ------------------------------
(***************************************************************************)
(* Two threads that take an element from a shared queue and put another    *)
(* one back, protected by strict alternation (sources/                     *)
(* aula_7_alternancia.c), by Peterson's algorithm (aula_7_peterson.c) or   *)
(* by a semaphore (aula__8_sem.c).                                         *)
(*                                                                         *)
(* flag and turn are plain ints read and written with no fence.  gcc -g    *)
(* emits their loads and stores in program order, and the processor, an    *)
(* x86, lets the stores of a thread wait in its store buffer while its     *)
(* later loads go ahead: the buffers are part of the model.                *)
(***************************************************************************)
EXTENDS Integers, Sequences

CONSTANTS
    Algoritmos,   \* the programs that are checked
    FILA,         \* nodes in filaInteiros when the threads start
    TAM_BUFFER,   \* stores a store buffer holds
    MaxConta      \* bound: the insertions of a thread between two signals

ASSUME ConstantesAssumption ==
    /\ Algoritmos \subseteq {"alternancia", "peterson", "semaforo"}
    /\ FILA \in Nat /\ TAM_BUFFER \in Nat \ {0} /\ MaxConta \in Nat \ {0}

VARIABLES
    algoritmo,
    memoria,       \* flag[0], flag[1] and turn, the index of a thread
    buffer,        \* the stores of each thread that are not in memory yet
    semaphore, mainPostou,
    pc,
    fila,          \* the number of nodes of filaInteiros
    erro,          \* "segv" after a pop from the empty queue
    contadores,    \* the insertions of each thread, for the SIGALRM handler
    reg,           \* the counter a thread has loaded
    tick,          \* where the handler is
    ultimo,        \* history: the thread that entered last
    ultrapassou,   \* history: a load of the other flag went ahead of an own store
    saldo,         \* history: increments in memory and not printed
    disputa        \* history: an increment and a reset have overlapped

conta == <<contadores, reg, tick, saldo, disputa>>
historia == <<ultimo, ultrapassou>>
vars == <<algoritmo, memoria, buffer, semaphore, mainPostou, pc, fila, erro, conta, historia>>

Threads == {0, 1}
Outra(t) == 1 - t
Zeros == [t \in Threads |-> 0]

Init ==
    /\ algoritmo \in Algoritmos
    /\ memoria = [flag |-> [t \in Threads |-> 0], turn |-> 0]
    /\ buffer = [t \in Threads |-> <<>>]
    /\ semaphore = 0 /\ mainPostou = FALSE
    /\ pc = [t \in Threads |-> "inicio"]
    /\ fila = FILA /\ erro = "nao"
    /\ contadores = Zeros /\ reg = Zeros
    /\ tick = "fora"
    /\ ultimo = 1 /\ ultrapassou = FALSE
    /\ saldo = Zeros /\ disputa = FALSE

Passa(t, de, para) == erro = "nao" /\ pc[t] = de /\ pc' = [pc EXCEPT ![t] = para]

-----------------------------------------------------------------------------
\* The memory: a thread sees its own last store, in the buffer or not.

Escrita(onde, valor) == [onde |-> onde, valor |-> valor]

Guarda(t, onde, valor) ==
    /\ Len(buffer[t]) < TAM_BUFFER
    /\ buffer' = [buffer EXCEPT ![t] = Append(@, Escrita(onde, valor))]

NoBuffer(t, onde) == {i \in 1..Len(buffer[t]) : buffer[t][i].onde = onde}

Le(t, onde, naMemoria) ==
    IF NoBuffer(t, onde) = {} THEN naMemoria
    ELSE buffer[t][CHOOSE i \in NoBuffer(t, onde) :
                       \A j \in NoBuffer(t, onde) : j <= i].valor

LeTurn(t) == Le(t, "turn", memoria.turn)

\* The places of the handler from which it is still to reset the counter of t.
VaiZerar(t) == IF t = 0 THEN {"zera0"} ELSE {"zera0", "zera1"}

\* Bound: the counters are followed up to the first overlap of an increment and
\* a reset, the threads for ever.
Contam(c, s, sobrepoe) ==
    /\ disputa' = (disputa \/ sobrepoe)
    /\ contadores' = IF disputa' THEN Zeros ELSE c
    /\ saldo' = IF disputa' THEN Zeros ELSE s

\* An increment reaches the memory: lost if a reset of what was printed follows.
Chega(t, valor) ==
    Contam([contadores EXCEPT ![t] = valor], [saldo EXCEPT ![t] = @ + 1], tick \in VaiZerar(t))

\* The oldest store of a buffer reaches the memory.
Descarrega(t) ==
    /\ erro = "nao" /\ buffer[t] # <<>>
    /\ LET e == Head(buffer[t]) IN
       \/ e.onde = "flag" /\ memoria' = [memoria EXCEPT !.flag[t] = e.valor]
                          /\ UNCHANGED <<contadores, saldo, disputa>>
       \/ e.onde = "turn" /\ memoria' = [memoria EXCEPT !.turn = e.valor]
                          /\ UNCHANGED <<contadores, saldo, disputa>>
       \/ e.onde = "conta" /\ Chega(t, e.valor) /\ UNCHANGED memoria
    /\ buffer' = [buffer EXCEPT ![t] = Tail(@)]
    /\ UNCHANGED <<algoritmo, semaphore, mainPostou, pc, fila, erro, reg, tick, historia>>

-----------------------------------------------------------------------------
\* Peterson: flag[eu] = 1; turn = outra; while (flag[outra] == 1 && turn == outra).

PetersonQuer(t) ==
    /\ algoritmo = "peterson"
    /\ Passa(t, "inicio", "vez")
    /\ Guarda(t, "flag", 1)
    /\ UNCHANGED <<algoritmo, memoria, semaphore, mainPostou, fila, erro, conta, historia>>

\* Mutant: each thread gives itself the turn.
PetersonVez_Propria(t) ==
    /\ Passa(t, "vez", "testaFlag")
    /\ Guarda(t, "turn", t)
    /\ UNCHANGED <<algoritmo, memoria, semaphore, mainPostou, fila, erro, conta, historia>>

PetersonVez(t) ==
    /\ Passa(t, "vez", "testaFlag")
    /\ Guarda(t, "turn", Outra(t))
    /\ UNCHANGED <<algoritmo, memoria, semaphore, mainPostou, fila, erro, conta, historia>>

PetersonTestaFlag(t) ==
    /\ Passa(t, "testaFlag", IF memoria.flag[Outra(t)] = 1 THEN "testaTurn" ELSE "dentro")
    /\ ultimo' = IF memoria.flag[Outra(t)] = 1 THEN ultimo ELSE t
    /\ ultrapassou' = (ultrapassou \/ buffer[t] # <<>>)
    /\ UNCHANGED <<algoritmo, memoria, buffer, semaphore, mainPostou, fila, erro, conta>>

PetersonTestaTurn(t) ==
    /\ Passa(t, "testaTurn", IF LeTurn(t) = Outra(t) THEN "testaFlag" ELSE "dentro")
    /\ ultimo' = IF LeTurn(t) = Outra(t) THEN ultimo ELSE t
    /\ UNCHANGED <<algoritmo, memoria, buffer, semaphore, mainPostou, fila, erro, conta, ultrapassou>>

PetersonSai(t) ==
    /\ algoritmo = "peterson"
    /\ Passa(t, "sai", "inicio")
    /\ Guarda(t, "flag", 0)
    /\ UNCHANGED <<algoritmo, memoria, semaphore, mainPostou, fila, erro, conta, historia>>

-----------------------------------------------------------------------------
\* Alternation: while (turn != eu); ... turn = (turn + 1) % 2.

\* Mutant: the turn is not waited for.
AlternanciaEntra_SemVez(t) ==
    /\ algoritmo = "alternancia"
    /\ Passa(t, "inicio", "dentro")
    /\ ultimo' = t
    /\ UNCHANGED <<algoritmo, memoria, buffer, semaphore, mainPostou, fila, erro, conta, ultrapassou>>

AlternanciaEntra(t) ==
    /\ algoritmo = "alternancia"
    /\ LeTurn(t) = t
    /\ Passa(t, "inicio", "dentro")
    /\ ultimo' = t
    /\ UNCHANGED <<algoritmo, memoria, buffer, semaphore, mainPostou, fila, erro, conta, ultrapassou>>

\* Mutant: the turn stays with the thread that leaves.
AlternanciaSai_SemPassar(t) ==
    /\ algoritmo = "alternancia"
    /\ Passa(t, "sai", "inicio")
    /\ Guarda(t, "turn", LeTurn(t))
    /\ UNCHANGED <<algoritmo, memoria, semaphore, mainPostou, fila, erro, conta, historia>>

AlternanciaSai(t) ==
    /\ algoritmo = "alternancia"
    /\ Passa(t, "sai", "inicio")
    /\ Guarda(t, "turn", (LeTurn(t) + 1) % 2)
    /\ UNCHANGED <<algoritmo, memoria, semaphore, mainPostou, fila, erro, conta, historia>>

-----------------------------------------------------------------------------
\* The semaphore: zero until main has created both threads.

MainPosta ==
    /\ algoritmo = "semaforo" /\ erro = "nao" /\ ~mainPostou
    /\ mainPostou' = TRUE /\ semaphore' = semaphore + 1
    /\ UNCHANGED <<algoritmo, memoria, buffer, pc, fila, erro, conta, historia>>

SemaforoEntra(t) ==
    /\ algoritmo = "semaforo"
    /\ Passa(t, "inicio", "dentro")
    /\ semaphore > 0 /\ semaphore' = semaphore - 1
    /\ ultimo' = t
    /\ UNCHANGED <<algoritmo, memoria, buffer, mainPostou, fila, erro, conta, ultrapassou>>

SemaforoSai(t) ==
    /\ algoritmo = "semaforo"
    /\ Passa(t, "sai", "inicio")
    /\ semaphore' = semaphore + 1
    /\ UNCHANGED <<algoritmo, memoria, buffer, mainPostou, fila, erro, conta, historia>>

-----------------------------------------------------------------------------
\* The critical section: pop_filaint, which does not test for an empty queue,
\* then push_filaint, whose node may be refused (see module Produtor).

Pop(t) ==
    /\ Passa(t, "dentro", "poe")
    /\ IF fila = 0 THEN erro' = "segv" /\ UNCHANGED fila
       ELSE fila' = fila - 1 /\ UNCHANGED erro
    /\ UNCHANGED <<algoritmo, memoria, buffer, semaphore, mainPostou, conta, historia>>

Push(t) ==
    /\ Passa(t, "poe", IF algoritmo = "semaforo" THEN "sai" ELSE "conta")
    /\ fila' \in {fila, fila + 1}
    /\ UNCHANGED <<algoritmo, memoria, buffer, semaphore, mainPostou, erro, conta, historia>>

\* contadores[eu]++, also when the push was refused: a load and a store.
ContaLe(t) ==
    /\ Le(t, "conta", contadores[t]) < MaxConta
    /\ Passa(t, "conta", "grava")
    /\ reg' = [reg EXCEPT ![t] = Le(t, "conta", contadores[t])]
    /\ UNCHANGED <<algoritmo, memoria, buffer, semaphore, mainPostou, fila, erro, contadores, tick, saldo, disputa, historia>>

ContaGrava(t) ==
    /\ Passa(t, "grava", "sai")
    /\ IF disputa THEN UNCHANGED buffer ELSE Guarda(t, "conta", reg[t] + 1)
    /\ reg' = [reg EXCEPT ![t] = 0]
    /\ UNCHANGED <<algoritmo, memoria, semaphore, mainPostou, fila, erro, contadores, tick, saldo, disputa, historia>>

-----------------------------------------------------------------------------
\* systick, the handler of SIGALRM: it prints both counters, then resets one
\* after the other, while the threads go on.

TickImprime ==
    /\ algoritmo # "semaforo" /\ erro = "nao" /\ ~disputa
    /\ tick = "fora" /\ tick' = "zera0"
    /\ saldo' = [t \in Threads |-> saldo[t] - contadores[t]]
    /\ UNCHANGED <<algoritmo, memoria, buffer, semaphore, mainPostou, pc, fila, erro, contadores, reg, disputa, historia>>

\* An increment that a reset now would undo or be undone by.
EmCurso(t) == pc[t] = "grava" \/ NoBuffer(t, "conta") # {}

\* Mutant: the second counter keeps what has been printed.
TickZera_SoUm(t) ==
    /\ erro = "nao"
    /\ tick = IF t = 0 THEN "zera0" ELSE "zera1"
    /\ tick' = IF t = 0 THEN "zera1" ELSE "fora"
    /\ Contam([contadores EXCEPT ![0] = 0], saldo, EmCurso(t))
    /\ UNCHANGED <<algoritmo, memoria, buffer, semaphore, mainPostou, pc, fila, erro, reg, historia>>

TickZera(t) ==
    /\ erro = "nao"
    /\ tick = IF t = 0 THEN "zera0" ELSE "zera1"
    /\ tick' = IF t = 0 THEN "zera1" ELSE "fora"
    /\ Contam([contadores EXCEPT ![t] = 0], saldo, EmCurso(t))
    /\ UNCHANGED <<algoritmo, memoria, buffer, semaphore, mainPostou, pc, fila, erro, reg, historia>>

Systick == TickImprime \/ \E t \in Threads : TickZera(t)

-----------------------------------------------------------------------------
Codigo(t) ==
    \/ PetersonQuer(t) \/ PetersonVez(t) \/ PetersonTestaFlag(t) \/ PetersonTestaTurn(t)
    \/ PetersonSai(t)
    \/ AlternanciaEntra(t) \/ AlternanciaSai(t)
    \/ SemaforoEntra(t) \/ SemaforoSai(t)
    \/ Pop(t) \/ Push(t) \/ ContaLe(t) \/ ContaGrava(t)

Parou == erro # "nao" /\ UNCHANGED vars

Next == (\E t \in Threads : Codigo(t) \/ Descarrega(t)) \/ MainPosta \/ Systick \/ Parou

Spec == Init /\ [][Next]_vars

\* Each thread has a processor, a store does not wait in a buffer for ever, the
\* interval timer fires again and again.
LiveSpec ==
    /\ Spec
    /\ WF_vars(MainPosta) /\ WF_vars(Systick)
    /\ \A t \in Threads : WF_vars(Codigo(t)) /\ WF_vars(Descarrega(t))

-----------------------------------------------------------------------------
\* Properties.

NaSecao(t) == pc[t] \in {"dentro", "poe", "conta", "grava", "sai"}

\* At most one thread handles the queue: alternation and the semaphore always,
\* Peterson as long as no load of a flag went ahead of an own store.
ExclusaoMutua == ~ultrapassou => ~(NaSecao(0) /\ NaSecao(1))

\* The values every variable takes; the queue never grows.
TypeOK ==
    /\ memoria \in [flag : [Threads -> 0..1], turn : 0..1]
    /\ \A t \in Threads : \A i \in 1..Len(buffer[t]) :
          \/ buffer[t][i] \in [onde : {"flag", "turn"}, valor : 0..1]
          \/ buffer[t][i] \in [onde : {"conta"}, valor : 1..MaxConta]
    /\ semaphore \in 0..1 /\ fila \in 0..FILA /\ erro \in {"nao", "segv"}
    /\ contadores \in [Threads -> 0..MaxConta] /\ reg \in [Threads -> 0..MaxConta]

\* Between signals each insertion is in the counter of its thread, and it is
\* printed once: unless an increment was under way at a reset, or ended between
\* the printing and the reset.
InsercoesContadas ==
    /\ TypeOK
    /\ ~disputa => \A t \in Threads :
                      saldo[t] = IF tick \in VaiZerar(t) THEN 0 ELSE contadores[t]

\* With alternation a thread never enters twice in a row, and after a section
\* the other thread must come.
AlternanciaEstrita ==
    [][\A t \in Threads :
          algoritmo = "alternancia" /\ ~NaSecao(t) /\ NaSecao(t)' => ultimo # t]_vars

\* No thread starves with alternation or Peterson, whatever the store buffers
\* do; with the semaphore somebody enters again and again.
TodasEntram ==
    \/ <>(erro # "nao")
    \/ \A t \in Threads : []<>NaSecao(t)
    \/ algoritmo = "semaforo" /\ []<>(NaSecao(0) \/ NaSecao(1))

=============================================================================
