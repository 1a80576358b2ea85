------------------------------ MODULE Aplicacao ------------------------------
(***************************************************************************)
(* The test applications of the repository (sources/pingpong-*.c) running  *)
(* on the kernel of module Ppos.  An application is the sequence of kernel *)
(* calls of main and of the body of its tasks; what they compute and print *)
(* between two calls takes time only, and a tick may fall there as         *)
(* anywhere else.  The descriptors are numbered in the order of creation.  *)
(***************************************************************************)
EXTENDS Ppos

CONSTANTS
    Apps,    \* the applications that are checked
    VOLTAS   \* bound: iterations of the loops of the bodies, 4 to 10 in the code

ASSUME AplicacaoAssumption ==
    /\ UserTasks = 1..Cardinality(UserTasks)
    /\ Cardinality(UserTasks) >= 2
    /\ VOLTAS \in Nat

VARIABLES
    app,
    linha,     \* the next call of each task
    rodou,     \* history: the tasks that have been on the processor
    pedida,    \* history: the priority each task was last given
    cortou     \* history: main was preempted between the publication of a task
               \* and the last store of its priorities

avars == <<vars, app, linha, rodou, pedida, cortou>>

N == Cardinality(UserTasks)

-----------------------------------------------------------------------------
\* The calls, and the applications as sequences of calls.

Call(op, e, prio) == [op |-> op, alvo |-> e, prio |-> prio]

Create(e) == Call("create", e, 0)
Prio(e, prio) == Call("setprio", e, prio)
PrioPropria(prio) == Call("setprio", NULL, prio)
Switch(e) == Call("switch", e, 0)
SwitchProxima == Call("proxima", NULL, 0)
Yield == Call("yield", NULL, 0)
Exit == Call("task_exit", NULL, 0)
Fim == Call("exit", NULL, 0)

Vezes(n, call) == [i \in 1..n |-> call]
CriaTodas == [e \in 1..N |-> Create(e)]
CriaComPrio(prio(_)) ==
    [i \in 1..(2 * N) |-> LET e == (i + 1) \div 2 IN
                          IF i % 2 = 1 THEN Create(e) ELSE Prio(e, prio(e))]

\* main, then every body.
Programa(principal, corpo(_)) ==
    [t \in Usuarias |-> IF t = Main THEN principal ELSE corpo(t)]

PingpongDispatcher ==
    Programa(CriaTodas \o <<Yield, Fim>>, LAMBDA t : Vezes(VOLTAS, Yield) \o <<Exit>>)

PingpongScheduler ==
    Programa(CriaComPrio(LAMBDA e : 2 * (e - 1)) \o <<Yield, Fim>>,
             LAMBDA t : Vezes(VOLTAS, Yield) \o <<Exit>>)

PingpongContab == Programa(CriaTodas \o <<Yield, Fim>>, LAMBDA t : <<Exit>>)

PingpongContabPrio ==
    Programa(CriaComPrio(LAMBDA e : -2 * (e - 1)) \o <<Yield, Fim>>, LAMBDA t : <<Exit>>)

PingpongMaintask == Programa(CriaTodas \o <<Exit>>, LAMBDA t : <<Exit>>)

\* The bodies only compute: the same calls as contab.
PingpongPreempcao == PingpongContab
PingpongPreempcaoStress == PingpongContab

\* Ping is 1 and Pong is 2.
PingpongTasks1 ==
    Programa(<<Create(1), Create(2), Switch(1), Switch(2), Fim>>,
             LAMBDA t : Vezes(VOLTAS, Switch(IF t = 1 THEN 2 ELSE 1)) \o <<Exit>>)

PingpongTasks2 ==
    Programa(CriaTodas \o [e \in 1..N |-> Switch(e)] \o <<Fim>>,
             LAMBDA t : <<SwitchProxima, Exit>>)

PingpongTasks3 ==
    Programa([i \in 1..(2 * N) |-> IF i % 2 = 1 THEN Create(1) ELSE Switch(1)] \o <<Fim>>,
             LAMBDA t : <<Exit>>)

\* Not in the repository: a task gives itself a priority, which task_setprio
\* offers to it.
PrioridadePropria ==
    Programa(CriaTodas \o <<Yield, Fim>>, LAMBDA t : IF t = 1 THEN <<PrioPropria(1), Exit>> ELSE <<Exit>>)

Programas ==
    [dispatcher |-> PingpongDispatcher, scheduler |-> PingpongScheduler,
     contab |-> PingpongContab, contab_prio |-> PingpongContabPrio,
     maintask |-> PingpongMaintask, preempcao |-> PingpongPreempcao,
     stress |-> PingpongPreempcaoStress, tasks1 |-> PingpongTasks1,
     tasks2 |-> PingpongTasks2, tasks3 |-> PingpongTasks3,
     propria |-> PrioridadePropria]

\* The priorities an application gives are among those in use.
ASSUME ProgramasAssumption ==
    /\ Apps \subseteq DOMAIN Programas
    /\ \A a \in Apps : \A t \in Usuarias : \A i \in DOMAIN Programas[a][t] :
          Programas[a][t][i].prio \in Prios

\* The applications whose tasks and main have all the same priority.
MesmaPrioridade == {"dispatcher", "contab", "preempcao", "stress", "tasks1", "tasks2"}

-----------------------------------------------------------------------------
AInit ==
    /\ Init
    /\ app \in Apps
    /\ linha = [t \in Usuarias |-> 1]
    /\ rodou = {}
    /\ pedida = [t \in Usuarias |-> 0]
    /\ cortou = FALSE

Proxima(t) == Programas[app][t][linha[t]]

\* t reaches its next call, which is an op.
Faz(t, op) ==
    /\ Em(t, "livre")
    /\ linha[t] \in DOMAIN Programas[app][t]
    /\ Proxima(t).op = op
    /\ linha' = [linha EXCEPT ![t] = @ + 1]
    /\ UNCHANGED <<app, rodou, cortou>>

FazCreate(t) ==
    /\ Faz(t, "create")
    /\ CriaLeId(t, Proxima(t).alvo)
    /\ pedida' = [pedida EXCEPT ![Proxima(t).alvo] = 0]

\* The descriptor is still alone in filaProntas: task_create fills it again and
\* nulls its links, and queue_append then stores through the null link, unless a
\* preemption comes between and the dispatcher runs: on the half-linked ring, or
\* into the context that getcontext took of the creator.  What it does then is
\* not followed.  One that comes before getcontext lets the task run as it was,
\* as one before the call does.
MausFins == {"segv", "contexto"}

FazCreateEmUso(t) ==
    /\ Faz(t, "create")
    /\ filaProntas = <<Proxima(t).alvo>>
    /\ saida' \in MausFins
    /\ UNCHANGED <<filas, globais, tcb, maquina, cortes, pedida>>

FazSetprio(t) ==
    LET u == IF Proxima(t).alvo = NULL THEN tarefaAtual ELSE Proxima(t).alvo IN
    /\ Faz(t, "setprio")
    /\ Setprio(t, u, Proxima(t).prio)
    /\ pedida' = [pedida EXCEPT ![u] = Proxima(t).prio]

\* The task of the next identifier, in an array indexed from 1: the
\* identifiers of its tasks start at 2.
Destino(t) ==
    IF Proxima(t).op = "switch" THEN Proxima(t).alvo
    ELSE IF id[tarefaAtual] < N THEN id[tarefaAtual] + 1 ELSE 1

FazSwitch(t) ==
    /\ Faz(t, "switch") \/ Faz(t, "proxima")
    /\ \/ TaskSwitch(t, Destino(t))
       \/ /\ Destino(t) \notin ToSet(Tail(filaTarefas))   \* returns -2
          /\ UNCHANGED vars
    /\ UNCHANGED pedida

FazYield(t) == Faz(t, "yield") /\ TaskYield(t) /\ UNCHANGED pedida
FazExit(t) == Faz(t, "task_exit") /\ TaskExit(t) /\ UNCHANGED pedida
FazFim(t) == Faz(t, "exit") /\ ExitProcesso(t) /\ UNCHANGED pedida

Chamada(t) ==
    \/ FazCreate(t) \/ FazCreateEmUso(t) \/ FazSetprio(t) \/ FazSwitch(t)
    \/ FazYield(t) \/ FazExit(t) \/ FazFim(t)

\* The kernel's steps: a created task starts its body from the beginning.
Inicia(t) ==
    /\ CriaInicia(t)
    /\ linha' = [linha EXCEPT ![alvo[t]] = 1]
    /\ rodou' = rodou \ {alvo[t]}
    /\ UNCHANGED <<app, pedida, cortou>>

Continua(t) ==
    /\ \/ ChamadaNext(t) /\ pc[t] # "inicia"
       \/ CriaSemMemoria(t)
    /\ UNCHANGED <<app, linha, rodou, pedida, cortou>>

Entra ==
    /\ DispatcherTroca
    /\ rodou' = rodou \cup {tarefaPrevia}
    /\ UNCHANGED <<app, linha, pedida, cortou>>

Despacha ==
    /\ DispatcherNext /\ pc[Dispatcher] # "janela"
    /\ UNCHANGED <<app, linha, rodou, pedida, cortou>>

NoMeio(t) ==
    \/ pc[t] \in LugaresCont \cup {"gravaDin", "gravaEst"}
    \/ /\ pc[t] = "livre" /\ linha[t] \in DOMAIN Programas[app][t]
       /\ Proxima(t).op = "setprio" /\ Proxima(t).alvo # NULL

Tick ==
    /\ Systick
    /\ cortou' = (cortou \/ (quantum = 1 /\ cpu \in Usuarias /\ NoMeio(cpu)))
    /\ UNCHANGED <<app, linha, rodou, pedida>>

ANext ==
    \/ PposInit /\ UNCHANGED <<app, linha, rodou, pedida, cortou>>
    \/ \E t \in Usuarias : Chamada(t) \/ Inicia(t) \/ Continua(t)
    \/ Entra \/ Despacha \/ Tick
    \/ Encerrado /\ UNCHANGED avars

ASpec == AInit /\ [][ANext]_avars

\* That of the kernel, and the application advances when it has the
\* processor again and again: its loops are finite.
AFairness ==
    /\ WF_avars(PposInit /\ UNCHANGED <<app, linha, rodou, pedida, cortou>>)
    /\ WF_avars(Entra \/ Despacha)
    /\ WF_avars(Tick)
    /\ \A t \in Usuarias : SF_avars(Chamada(t)) /\ SF_avars(Inicia(t) \/ Continua(t))

ALiveSpec == ASpec /\ AFairness

-----------------------------------------------------------------------------
\* Properties.

\* pingpong-dispatcher.c tests a "escalonador FCFS": the dispatcher never
\* chooses a task past one that is before it in filaProntas and whose static
\* priority is as good, ageing and preemptions notwithstanding; unless a
\* preemption has let a task run, or age, with a priority not yet its own.
SemUltrapassagem ==
    [][DispatcherDespacha /\ ~cortou =>
        \A i, j \in 1..Len(filaProntas) :
            i < j /\ filaProntas[j] = tarefaPrevia' =>
                prioEstatica[filaProntas[i]] > prioEstatica[filaProntas[j]]]_avars

\* Somebody is inside a task_create or a task_setprio for t.
EmMudanca(t) ==
    \E u \in Usuarias : alvo[u] = t /\ pc[u] \in Criando \cup {"gravaDin", "gravaEst"}

\* The static priority of a task is the one last asked for it, by its creator or
\* by itself, in the runs where no preemption falls after the publication of a
\* task and before the last store to its priorities: task_create zeroes them in
\* a task that may have run.
PrioridadePedida ==
    ~cortou => \A t \in Vivas : prioEstatica[t] = pedida[t] \/ EmMudanca(t)

\* Where all have the same priority and main gives up the processor once, main
\* does not reach its exit before every task it created has run.
TodasTiveramVez ==
    saida = "exit" /\ app \in MesmaPrioridade \ {"tasks1", "tasks2"} => UserTasks \subseteq rodou

\* Every application ends, by main's exit or when all its tasks have, but for
\* the runs where a preemption makes taskCont wrong; only the one that creates
\* a task in a descriptor in use comes to a bad end.
Encerra ==
    <>(\/ saida \in {"exit", "dispatcher", "malloc"}
       \/ "cont" \in cortes
       \/ app = "tasks3" /\ saida \in MausFins)

=============================================================================
