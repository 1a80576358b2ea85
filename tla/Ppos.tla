-------------------------------- MODULE Ppos --------------------------------
(***************************************************************************)
(* The PingPongOS kernel (sources/ppos_core.c): ready queue, dispatcher,   *)
(* scheduler with ageing, task creation and termination, and the preemption*)
(* by SIGALRM.  There is one processor.  "cpu" names the task whose stack  *)
(* really executes; "tarefaAtual" is what the kernel believes.  The two    *)
(* differ inside task_switch, and that is where the kernel can go wrong.   *)
(*                                                                         *)
(* A handler runs with SIGALRM blocked, and a tick that finds              *)
(* tarefaAtual->id = 1 only advances the clock, so the dispatcher's own    *)
(* code (until task_switch changes tarefaAtual) and a user's task_switch   *)
(* (after it has changed tarefaAtual) are single steps here.  User code    *)
(* inside task_create and task_setprio is preemptible between the accesses *)
(* to shared variables, and has a step for each.  queue_append and         *)
(* queue_remove are one step each in this module.                          *)
(***************************************************************************)
EXTENDS Integers, Sequences, FiniteSets, SequencesExt

CONSTANTS
    UserTasks,    \* the descriptors an application passes to task_create
    Main,         \* mainTask
    Dispatcher,   \* dispatcherTask
    NULL,
    QUANTUM_VAL,  \* ticks of a quantum
    Prios,        \* the priorities the application uses, within -20..20
    TicksJanela,  \* ticks that may hit one window of a few instructions
    MaxId         \* bound: task_create is called while maiorId < MaxId

Usuarias == UserTasks \cup {Main}
Tarefas == Usuarias \cup {Dispatcher}

ASSUME NomesAssumption ==
    /\ Main \notin UserTasks
    /\ Dispatcher \notin Usuarias
    /\ NULL \notin Tarefas
    /\ IsFiniteSet(UserTasks)

ASSUME PriosAssumption == Prios \subseteq -20..20 /\ 0 \in Prios

\* The timer fires every millisecond and a window is a handful of
\* instructions: a whole quantum of ticks never fits in one.
ASSUME QuantumAssumption ==
    /\ QUANTUM_VAL \in Nat \ {0}
    /\ TicksJanela \in Nat
    /\ TicksJanela < QUANTUM_VAL
    /\ MaxId \in Nat

PRONTA == 0
TERMINADA == 1

VARIABLES
    filaProntas, filaTarefas,    \* the two queues
    tarefaAtual, tarefaPrevia,   \* tarefaPrevia is also dispatcher's proxima
    maiorId, taskCont, quantum,
    id, status, prioEstatica, prioDinamica,   \* fields of each descriptor
    contexto,   \* whose stack the context saved in each descriptor is
    pilhas,     \* the descriptors whose stack is allocated
    cpu,        \* the task whose stack is executing
    pc,         \* where each task's own code is
    alvo, reg,  \* locals: descriptor handled, value loaded, per task
    janela,     \* ticks that hit the current window
    cortes,     \* history: which of the two a preemption has cut so far
    saida       \* how the process ended, "nenhuma" while it runs

filas == <<filaProntas, filaTarefas>>
globais == <<tarefaAtual, tarefaPrevia, maiorId, taskCont, quantum>>
tcb == <<id, status, prioEstatica, prioDinamica>>
maquina == <<contexto, pilhas, cpu, pc, alvo, reg, janela>>
vars == <<filas, globais, tcb, maquina, cortes, saida>>

\* The descriptors the application has published and the kernel not reaped.
Vivas == (ToSet(filaProntas) \cup ToSet(filaTarefas)) \ {Dispatcher}

\* Where task_create is between its accesses to maiorId, and where the task is
\* published but not counted yet.
LugaresId == {"gravaId", "inicia"}
LugaresCont == {"leCont", "gravaCont"}
Criando == LugaresId \cup {"publica"} \cup LugaresCont
LugaresUsuario == Criando \cup {"boot", "livre", "gravaDin", "gravaEst", "troca"}
LugaresDispatcher == {"laco", "janela", "retorno"}

-----------------------------------------------------------------------------
\* Queue operations, at the level of the sequence the ring stands for.

Retira(fila, t) ==
    IF \E i \in 1..Len(fila) : fila[i] = t
    THEN RemoveAt(fila, CHOOSE i \in 1..Len(fila) : fila[i] = t)
    ELSE fila

-----------------------------------------------------------------------------
\* The scheduler: the task that ran last gets its static priority back, the
\* head ages always, the others unless they ran last; the first minimum wins.

PrioInicial ==
    IF tarefaPrevia = NULL THEN prioDinamica
    ELSE [prioDinamica EXCEPT ![tarefaPrevia] = prioEstatica[tarefaPrevia]]

\* Mutant: a scheduler by static priority, without ageing.
Envelhece_Nunca(t) == FALSE

Envelhece(t) ==
    t \in ToSet(filaProntas) /\ (t = Head(filaProntas) \/ t # tarefaPrevia)

PrioEnvelhecida ==
    [t \in Tarefas |-> IF Envelhece(t) THEN PrioInicial[t] - 1 ELSE PrioInicial[t]]

\* Mutant: the comparison of the scheduler reversed.
Vence_Maior(i) ==
    \A j \in 1..Len(filaProntas) :
        LET pi == PrioEnvelhecida[filaProntas[i]]
            pj == PrioEnvelhecida[filaProntas[j]]
        IN  pi > pj \/ (pi = pj /\ i <= j)

\* Mutant: of two tasks as good, the last in the queue.
Vence_Ultima(i) ==
    \A j \in 1..Len(filaProntas) :
        LET pi == PrioEnvelhecida[filaProntas[i]]
            pj == PrioEnvelhecida[filaProntas[j]]
        IN  pi < pj \/ (pi = pj /\ i >= j)

Vence(i) ==
    \A j \in 1..Len(filaProntas) :
        LET pi == PrioEnvelhecida[filaProntas[i]]
            pj == PrioEnvelhecida[filaProntas[j]]
        IN  pi < pj \/ (pi = pj /\ i <= j)

Escolhida == filaProntas[CHOOSE i \in 1..Len(filaProntas) : Vence(i)]

-----------------------------------------------------------------------------
(* Init is ppos_init at the return of setitimer: the dispatcher is created *)
(* and moved to filaTarefas, main is ready and on the processor.           *)

Init ==
    /\ filaProntas = <<Main>>
    /\ filaTarefas = <<Dispatcher>>
    /\ tarefaAtual = Main
    /\ tarefaPrevia = NULL
    /\ maiorId = 1
    /\ taskCont = 0
    /\ quantum = QUANTUM_VAL
    /\ id = [t \in Tarefas |-> IF t = Dispatcher THEN 1 ELSE 0]
    /\ status = [t \in Tarefas |-> PRONTA]
    /\ prioEstatica = [t \in Tarefas |-> 0]
    /\ prioDinamica = [t \in Tarefas |-> 0]
    /\ contexto = [t \in Tarefas |-> IF t \in UserTasks THEN NULL ELSE t]
    /\ pilhas = {Main, Dispatcher}
    /\ cpu = Main
    /\ pc = [t \in Tarefas |-> CASE t = Main -> "boot"
                                 [] t = Dispatcher -> "laco"
                                 [] OTHER -> "livre"]
    /\ alvo = [t \in Tarefas |-> NULL]
    /\ reg = [t \in Tarefas |-> 0]
    /\ janela = 0
    /\ cortes = {}
    /\ saida = "nenhuma"

Em(t, lugar) == saida = "nenhuma" /\ cpu = t /\ pc[t] = lugar
Vai(t, lugar) == pc' = [pc EXCEPT ![t] = lugar]

\* Mutant: the quantum is not set back on a switch.
RenovaQuantum_Esquece == quantum' = quantum

RenovaQuantum == quantum' = QUANTUM_VAL

\* task_switch(&dispatcherTask): the context is saved in the descriptor the
\* kernel believes is running, whatever stack executes.
TrocaParaDispatcher ==
    /\ tarefaAtual' = Dispatcher
    /\ RenovaQuantum
    /\ contexto' = [contexto EXCEPT ![tarefaAtual] = cpu]
    /\ cpu' = contexto[Dispatcher]
    /\ janela' = 0

\* The end of ppos_init.
PposInit ==
    /\ Em(Main, "boot")
    /\ taskCont' = taskCont + 1
    /\ TrocaParaDispatcher
    /\ Vai(Main, "livre")
    /\ UNCHANGED <<filas, tarefaPrevia, maiorId, tcb, pilhas, alvo, reg, cortes, saida>>

-----------------------------------------------------------------------------
\* task_create, called by t for the descriptor e.  The application hands over
\* a descriptor that is not in use.

CriaLeId(t, e) ==
    /\ Em(t, "livre")
    /\ e \notin Vivas
    /\ \A u \in Usuarias : pc[u] \in Criando \cup {"gravaDin", "gravaEst"} => alvo[u] # e
    /\ maiorId < MaxId
    /\ reg' = [reg EXCEPT ![t] = maiorId]
    /\ alvo' = [alvo EXCEPT ![t] = e]
    /\ Vai(t, "gravaId")
    /\ UNCHANGED <<filas, globais, tcb, contexto, pilhas, cpu, janela, cortes, saida>>

\* Mutant: the id is read before the increment.
CriaGravaId_SemIncremento(t) ==
    /\ Em(t, "gravaId")
    /\ Vai(t, "inicia")
    /\ UNCHANGED <<filas, globais, tcb, contexto, pilhas, cpu, alvo, reg, janela, cortes, saida>>

CriaGravaId(t) ==
    /\ Em(t, "gravaId")
    /\ maiorId' = reg[t] + 1
    /\ Vai(t, "inicia")
    /\ UNCHANGED <<filas, tarefaAtual, tarefaPrevia, taskCont, quantum, tcb>>
    /\ UNCHANGED <<contexto, pilhas, cpu, alvo, reg, janela, cortes, saida>>

\* id = maiorId, status, the stack, makecontext.
CriaInicia(t) ==
    LET e == alvo[t] IN
    /\ Em(t, "inicia")
    /\ id' = [id EXCEPT ![e] = maiorId]
    /\ status' = [status EXCEPT ![e] = PRONTA]
    /\ pilhas' = pilhas \cup {e}
    /\ contexto' = [contexto EXCEPT ![e] = e]
    /\ pc' = [pc EXCEPT ![t] = "publica", ![e] = "livre"]
    /\ UNCHANGED <<filas, globais, prioEstatica, prioDinamica>>
    /\ UNCHANGED <<cpu, alvo, reg, janela, cortes, saida>>

\* malloc returns NULL: perror and exit(1).
CriaSemMemoria(t) ==
    /\ Em(t, "inicia")
    /\ saida' = "malloc"
    /\ UNCHANGED <<filas, globais, tcb, maquina, cortes>>

CriaPublica(t) ==
    /\ Em(t, "publica")
    /\ filaProntas' = Append(filaProntas, alvo[t])
    /\ Vai(t, "leCont")
    /\ UNCHANGED <<filaTarefas, globais, tcb, contexto, pilhas, cpu, alvo, reg, janela>>
    /\ UNCHANGED <<cortes, saida>>

CriaLeCont(t) ==
    /\ Em(t, "leCont")
    /\ reg' = [reg EXCEPT ![t] = taskCont]
    /\ Vai(t, "gravaCont")
    /\ UNCHANGED <<filas, globais, tcb, contexto, pilhas, cpu, alvo, janela, cortes, saida>>

\* The priorities are zeroed only now, after the task became runnable: the
\* rest is that of a task_setprio(task, 0).
CriaGravaCont(t) ==
    /\ Em(t, "gravaCont")
    /\ taskCont' = reg[t] + 1
    /\ reg' = [reg EXCEPT ![t] = 0]
    /\ Vai(t, "gravaDin")
    /\ UNCHANGED <<filas, tarefaAtual, tarefaPrevia, maiorId, quantum, tcb>>
    /\ UNCHANGED <<contexto, pilhas, cpu, alvo, janela, cortes, saida>>

-----------------------------------------------------------------------------
\* task_setprio: two assignments, on any descriptor, that of a task that has
\* ended or is being created too.

Setprio(t, u, prio) ==
    /\ Em(t, "livre")
    /\ alvo' = [alvo EXCEPT ![t] = u]
    /\ reg' = [reg EXCEPT ![t] = prio]
    /\ Vai(t, "gravaDin")
    /\ UNCHANGED <<filas, globais, tcb, contexto, pilhas, cpu, janela, cortes, saida>>

GravaPrioDinamica(t) ==
    /\ Em(t, "gravaDin")
    /\ prioDinamica' = [prioDinamica EXCEPT ![alvo[t]] = reg[t]]
    /\ Vai(t, "gravaEst")
    /\ UNCHANGED <<filas, globais, id, status, prioEstatica>>
    /\ UNCHANGED <<contexto, pilhas, cpu, alvo, reg, janela, cortes, saida>>

\* Mutant: only the dynamic priority is set.
GravaPrioEstatica_SoDinamica(t) ==
    /\ Em(t, "gravaEst")
    /\ Vai(t, "livre")
    /\ alvo' = [alvo EXCEPT ![t] = NULL]
    /\ reg' = [reg EXCEPT ![t] = 0]
    /\ UNCHANGED <<filas, globais, tcb, contexto, pilhas, cpu, janela, cortes, saida>>

GravaPrioEstatica(t) ==
    /\ Em(t, "gravaEst")
    /\ prioEstatica' = [prioEstatica EXCEPT ![alvo[t]] = reg[t]]
    /\ Vai(t, "livre")
    /\ alvo' = [alvo EXCEPT ![t] = NULL]
    /\ reg' = [reg EXCEPT ![t] = 0]
    /\ UNCHANGED <<filas, globais, id, status, prioDinamica>>
    /\ UNCHANGED <<contexto, pilhas, cpu, janela, cortes, saida>>

-----------------------------------------------------------------------------
\* Giving up the processor.  Between the change of status and the switch the
\* task can still be preempted.

TaskYield(t) ==
    /\ Em(t, "livre")
    /\ status' = [status EXCEPT ![tarefaAtual] = PRONTA]
    /\ Vai(t, "troca")
    /\ UNCHANGED <<filas, globais, id, prioEstatica, prioDinamica>>
    /\ UNCHANGED <<contexto, pilhas, cpu, alvo, reg, janela, cortes, saida>>

\* Mutant: task_exit frees its own stack, as its commented-out line did.
TaskExit_LiberaPilha(t) ==
    /\ Em(t, "livre")
    /\ status' = [status EXCEPT ![tarefaAtual] = TERMINADA]
    /\ pilhas' = pilhas \ {tarefaAtual}
    /\ Vai(t, "troca")
    /\ UNCHANGED <<filas, globais, id, prioEstatica, prioDinamica>>
    /\ UNCHANGED <<contexto, cpu, alvo, reg, janela, cortes, saida>>

\* Mutant: task_exit counts the task out too, as its commented-out line did.
TaskExit_Desconta(t) ==
    /\ Em(t, "livre")
    /\ status' = [status EXCEPT ![tarefaAtual] = TERMINADA]
    /\ taskCont' = taskCont - 1
    /\ Vai(t, "troca")
    /\ UNCHANGED <<filas, tarefaAtual, tarefaPrevia, maiorId, quantum, id>>
    /\ UNCHANGED <<prioEstatica, prioDinamica, contexto, pilhas, cpu, alvo, reg, janela, cortes, saida>>

TaskExit(t) ==
    /\ Em(t, "livre")
    /\ status' = [status EXCEPT ![tarefaAtual] = TERMINADA]
    /\ Vai(t, "troca")
    /\ UNCHANGED <<filas, globais, id, prioEstatica, prioDinamica>>
    /\ UNCHANGED <<contexto, pilhas, cpu, alvo, reg, janela, cortes, saida>>

Troca(t) ==
    /\ Em(t, "troca")
    /\ TrocaParaDispatcher
    /\ Vai(t, "livre")
    /\ UNCHANGED <<filas, tarefaPrevia, maiorId, taskCont, tcb, pilhas, alvo, reg>>
    /\ UNCHANGED <<cortes, saida>>

\* task_switch(u) for a user task u: the search covers filaTarefas only, so it
\* succeeds for the running task alone (a swapcontext to itself, with a fresh
\* quantum) and returns -2 for a ready one, with no effect.
TaskSwitch(t, u) ==
    /\ Em(t, "livre")
    /\ \E i \in 2..Len(filaTarefas) : filaTarefas[i] = u
    /\ tarefaAtual' = u
    /\ RenovaQuantum
    /\ contexto' = [contexto EXCEPT ![tarefaAtual] = cpu]
    /\ cpu' = IF u = tarefaAtual THEN cpu ELSE contexto[u]
    /\ UNCHANGED <<filas, tarefaPrevia, maiorId, taskCont, tcb, pilhas, pc, alvo, reg>>
    /\ UNCHANGED <<janela, cortes, saida>>

\* A task body or main returns without task_exit (uc_link is 0), or calls exit.
ExitProcesso(t) ==
    /\ Em(t, "livre")
    /\ saida' = "exit"
    /\ UNCHANGED <<filas, globais, tcb, maquina, cortes>>

-----------------------------------------------------------------------------
\* systick.  A tick in the dispatcher's own code only advances the clock and
\* is a stutter here.

EmJanela == (cpu = Main /\ pc[Main] = "boot") \/ (cpu = Dispatcher /\ pc[Dispatcher] = "janela")

\* Mutant: the quantum is tested before it is decremented.
TickDecrementa_AteZero ==
    /\ quantum # 0
    /\ quantum' = quantum - 1
    /\ janela' = IF EmJanela THEN janela + 1 ELSE janela
    /\ UNCHANGED <<tarefaAtual, contexto, cpu, cortes>>

TickDecrementa ==
    /\ quantum # 1
    /\ quantum' = quantum - 1
    /\ janela' = IF EmJanela THEN janela + 1 ELSE janela
    /\ UNCHANGED <<tarefaAtual, contexto, cpu, cortes>>

TickPreempta ==
    /\ quantum = 1
    /\ TrocaParaDispatcher
    /\ cortes' = cortes \cup (IF pc[cpu] \in LugaresId THEN {"id"} ELSE {})
                         \cup (IF pc[cpu] \in LugaresCont THEN {"cont"} ELSE {})

Systick ==
    /\ saida = "nenhuma"
    /\ id[tarefaAtual] # 1
    /\ EmJanela => janela < TicksJanela
    /\ TickDecrementa \/ TickPreempta
    /\ UNCHANGED <<filas, tarefaPrevia, maiorId, taskCont, tcb, pilhas, pc, alvo, reg, saida>>

-----------------------------------------------------------------------------
\* The dispatcher.

\* Mutant: the loop runs once more than there are tasks.
DispatcherFim_UmaAMais ==
    /\ Em(Dispatcher, "laco")
    /\ taskCont < 0
    /\ saida' = "dispatcher"
    /\ UNCHANGED <<filas, globais, tcb, maquina, cortes>>

DispatcherFim ==
    /\ Em(Dispatcher, "laco")
    /\ taskCont <= 0
    /\ saida' = "dispatcher"
    /\ UNCHANGED <<filas, globais, tcb, maquina, cortes>>

\* scheduler() returns NULL: the loop spins.
DispatcherOcioso ==
    /\ Em(Dispatcher, "laco")
    /\ taskCont > 0
    /\ filaProntas = <<>>
    /\ prioDinamica' = PrioInicial
    /\ tarefaPrevia' = NULL
    /\ UNCHANGED <<filas, tarefaAtual, maiorId, taskCont, quantum, id, status, prioEstatica>>
    /\ UNCHANGED <<maquina, cortes, saida>>

\* Mutant: the chosen task is left in the ready queue.
DispatcherDespacha_SemRetirar ==
    /\ Em(Dispatcher, "laco")
    /\ taskCont > 0
    /\ filaProntas # <<>>
    /\ prioDinamica' = PrioEnvelhecida
    /\ tarefaPrevia' = Escolhida
    /\ filaTarefas' = Append(filaTarefas, Escolhida)
    /\ tarefaAtual' = Escolhida
    /\ RenovaQuantum
    /\ janela' = 0
    /\ Vai(Dispatcher, "janela")
    /\ UNCHANGED <<filaProntas, maiorId, taskCont, id, status, prioEstatica>>
    /\ UNCHANGED <<contexto, pilhas, cpu, alvo, reg, cortes, saida>>

\* From scheduler() to the reset of the quantum inside task_switch(proxima).
DispatcherDespacha ==
    /\ Em(Dispatcher, "laco")
    /\ taskCont > 0
    /\ filaProntas # <<>>
    /\ prioDinamica' = PrioEnvelhecida
    /\ tarefaPrevia' = Escolhida
    /\ filaProntas' = Retira(filaProntas, Escolhida)
    /\ filaTarefas' = Append(filaTarefas, Escolhida)
    /\ tarefaAtual' = Escolhida
    /\ RenovaQuantum
    /\ janela' = 0
    /\ Vai(Dispatcher, "janela")
    /\ UNCHANGED <<maiorId, taskCont, id, status, prioEstatica>>
    /\ UNCHANGED <<contexto, pilhas, cpu, alvo, reg, cortes, saida>>

\* The swapcontext of task_switch(proxima).
DispatcherTroca ==
    /\ Em(Dispatcher, "janela")
    /\ contexto' = [contexto EXCEPT ![Dispatcher] = cpu]
    /\ cpu' = contexto[tarefaPrevia]
    /\ janela' = 0
    /\ Vai(Dispatcher, "retorno")
    /\ UNCHANGED <<filas, globais, tcb, pilhas, alvo, reg, cortes, saida>>

\* Mutant: the switch on the status is missing.
DispatcherPronta_SemStatus ==
    /\ Em(Dispatcher, "retorno")
    /\ filaTarefas' = Retira(filaTarefas, tarefaPrevia)
    /\ filaProntas' = Append(filaProntas, tarefaPrevia)
    /\ Vai(Dispatcher, "laco")
    /\ UNCHANGED <<globais, tcb, contexto, pilhas, cpu, alvo, reg, janela, cortes, saida>>

\* Mutant: the task goes back to the front of the ready queue.
DispatcherPronta_NaFrente ==
    /\ Em(Dispatcher, "retorno")
    /\ status[tarefaPrevia] = PRONTA
    /\ filaTarefas' = Retira(filaTarefas, tarefaPrevia)
    /\ filaProntas' = <<tarefaPrevia>> \o filaProntas
    /\ Vai(Dispatcher, "laco")
    /\ UNCHANGED <<globais, tcb, contexto, pilhas, cpu, alvo, reg, janela, cortes, saida>>

DispatcherPronta ==
    /\ Em(Dispatcher, "retorno")
    /\ status[tarefaPrevia] = PRONTA
    /\ filaTarefas' = Retira(filaTarefas, tarefaPrevia)
    /\ filaProntas' = Append(filaProntas, tarefaPrevia)
    /\ Vai(Dispatcher, "laco")
    /\ UNCHANGED <<globais, tcb, contexto, pilhas, cpu, alvo, reg, janela, cortes, saida>>

\* Mutant: the terminated task is left in filaTarefas.
DispatcherRecolhe_SemRetirar ==
    /\ Em(Dispatcher, "retorno")
    /\ status[tarefaPrevia] = TERMINADA
    /\ pilhas' = pilhas \ {tarefaPrevia}
    /\ taskCont' = taskCont - 1
    /\ Vai(Dispatcher, "laco")
    /\ UNCHANGED <<filas, tarefaAtual, tarefaPrevia, maiorId, quantum, tcb>>
    /\ UNCHANGED <<contexto, cpu, alvo, reg, janela, cortes, saida>>

\* Mutant: the terminated task is not counted out.
DispatcherRecolhe_SemDescontar ==
    /\ Em(Dispatcher, "retorno")
    /\ status[tarefaPrevia] = TERMINADA
    /\ filaTarefas' = Retira(filaTarefas, tarefaPrevia)
    /\ pilhas' = pilhas \ {tarefaPrevia}
    /\ Vai(Dispatcher, "laco")
    /\ UNCHANGED <<filaProntas, globais, tcb, contexto, cpu, alvo, reg, janela, cortes, saida>>

DispatcherRecolhe ==
    /\ Em(Dispatcher, "retorno")
    /\ status[tarefaPrevia] = TERMINADA
    /\ filaTarefas' = Retira(filaTarefas, tarefaPrevia)
    /\ pilhas' = pilhas \ {tarefaPrevia}
    /\ taskCont' = taskCont - 1
    /\ Vai(Dispatcher, "laco")
    /\ UNCHANGED <<filaProntas, tarefaAtual, tarefaPrevia, maiorId, quantum, tcb>>
    /\ UNCHANGED <<contexto, cpu, alvo, reg, janela, cortes, saida>>

-----------------------------------------------------------------------------
DispatcherNext ==
    \/ DispatcherFim \/ DispatcherOcioso \/ DispatcherDespacha
    \/ DispatcherTroca \/ DispatcherPronta \/ DispatcherRecolhe

\* The kernel code a task is inside of, once it has called it.
ChamadaNext(t) ==
    \/ CriaGravaId(t) \/ CriaInicia(t) \/ CriaSemMemoria(t) \/ CriaPublica(t)
    \/ CriaLeCont(t) \/ CriaGravaCont(t)
    \/ GravaPrioDinamica(t) \/ GravaPrioEstatica(t) \/ Troca(t)

\* The application: which call a task makes next is its choice.
UsuarioNext(t) ==
    \/ \E e \in UserTasks : CriaLeId(t, e)
    \/ \E u \in Usuarias, prio \in Prios : Setprio(t, u, prio)
    \/ \E u \in Usuarias : TaskSwitch(t, u)
    \/ TaskYield(t) \/ TaskExit(t) \/ ExitProcesso(t)

\* The process has ended: an explicit stutter, so that any other state with
\* no successor is a deadlock.
Encerrado == saida # "nenhuma" /\ UNCHANGED vars

Next ==
    \/ PposInit
    \/ \E t \in Usuarias : UsuarioNext(t) \/ ChamadaNext(t)
    \/ Systick
    \/ DispatcherNext
    \/ Encerrado

Spec == Init /\ [][Next]_vars

\* The processor executes the code it is in and the interval timer keeps
\* firing.  A task inside a kernel call that gets the processor again and
\* again advances (a quantum is far longer than an instruction); nothing is
\* assumed of the calls the application makes.
Fairness ==
    /\ WF_vars(PposInit)
    /\ WF_vars(DispatcherNext)
    /\ WF_vars(Systick)
    /\ \A t \in Usuarias : SF_vars(ChamadaNext(t))

LiveSpec == Spec /\ Fairness

-----------------------------------------------------------------------------
\* Properties.

\* The values every variable of the kernel takes.
TypeOK ==
    /\ filaProntas \in Seq(Usuarias) /\ filaTarefas \in Seq(Tarefas)
    /\ tarefaAtual \in Tarefas /\ tarefaPrevia \in Usuarias \cup {NULL}
    /\ maiorId \in Int /\ taskCont \in Int /\ quantum \in 1..QUANTUM_VAL
    /\ id \in [Tarefas -> Int]
    /\ status \in [Tarefas -> {PRONTA, TERMINADA}]
    /\ prioEstatica \in [Tarefas -> Prios] /\ prioDinamica \in [Tarefas -> Int]
    /\ contexto \in [Tarefas -> Tarefas \cup {NULL}]
    /\ pilhas \subseteq Tarefas /\ cpu \in Tarefas
    /\ pc \in [Tarefas -> LugaresUsuario \cup LugaresDispatcher]
    /\ alvo \in [Tarefas -> Usuarias \cup {NULL}]
    /\ reg \in [Tarefas -> Int]
    /\ janela \in 0..TicksJanela
    /\ cortes \subseteq {"id", "cont"}
    /\ saida \in {"nenhuma", "dispatcher", "exit", "malloc"}

\* Each live task is in exactly one of the two queues, once: filaTarefas holds
\* the dispatcher and at most the task it has dispatched.
FilasConsistentes ==
    /\ \A i, j \in 1..Len(filaProntas) : filaProntas[i] = filaProntas[j] => i = j
    /\ \/ filaTarefas = <<Dispatcher>>
       \/ /\ filaTarefas = <<Dispatcher, tarefaPrevia>>
          /\ tarefaPrevia \in Usuarias
          /\ \A i \in 1..Len(filaProntas) : filaProntas[i] # tarefaPrevia

\* The kernel's idea of the running task is the task that runs, but for the
\* window of task_switch, and the context saved for every live task is that of
\* its own stack: no task is ever resumed on the stack of another.
ContextoIntegro ==
    /\ tarefaAtual = IF cpu = Dispatcher /\ pc[cpu] = "janela" THEN tarefaPrevia ELSE cpu
    /\ \A t \in Vivas \cup {Dispatcher} : contexto[t] = t

\* No live task, running or ready, is without a stack, and a task that has
\* called task_exit never returns to user code.
PilhaViva ==
    /\ Vivas \cup {cpu} \subseteq pilhas
    /\ pc[cpu] = "livre" => status[cpu] = PRONTA
    /\ \A i \in 1..Len(filaProntas) : status[filaProntas[i]] = PRONTA

\* task_id tells the live tasks apart, in the runs where no preemption falls
\* between the three accesses of task_create to maiorId.
IdsUnicos ==
    "id" \notin cortes =>
        \A t, u \in Vivas \cup {Dispatcher} : id[t] = id[u] => t = u

\* taskCont counts the live tasks, and the dispatcher ends the process only when
\* none is left, in the runs where no preemption falls between the publication
\* of a task and the store that counts it.
ContadorExato ==
    "cont" \notin cortes =>
        /\ taskCont = Cardinality(Vivas)
                      - (IF pc[cpu] \in LugaresCont \cup {"boot"} THEN 1 ELSE 0)
        /\ saida = "dispatcher" => Vivas = {}

\* What the comment of task_id says, with no restriction on the preemptions: no
\* two tasks have the same identifier.
IdsDistintos == \A t, u \in Vivas \cup {Dispatcher} : id[t] = id[u] => t = u

\* Ageing is bounded: a waiting task is chosen before it is more than the
\* number of tasks below the smallest priority in use.
EnvelhecimentoLimitado ==
    \A t \in Usuarias : \E p \in Prios : prioDinamica[t] >= p - Cardinality(Usuarias)

\* The kernel implements the life cycle of Tarefas.
Fase(t) ==
    IF t \in ToSet(filaProntas) THEN "pronta"
    ELSE IF t \notin ToSet(filaTarefas) THEN "fora"
    ELSE IF status[t] = TERMINADA THEN "terminada" ELSE "rodando"

Ciclo == INSTANCE Tarefas WITH estado <- [t \in Usuarias |-> Fase(t)]

ImplementaTarefas == Ciclo!Spec

-----------------------------------------------------------------------------
\* Liveness.

\* What may put off the turn of t for ever: a task_setprio on t that restarts
\* its ageing, a running task that renews its quantum by task_switch to itself.
Adia(t) ==
    \/ \E u \in Usuarias : GravaPrioDinamica(u) /\ alvo[u] = t
    \/ \E u \in Usuarias : TaskSwitch(u, u)

\* No ready task starves: ageing brings every one to the processor, whatever
\* the static priorities, unless the process ends or somebody puts it off
\* again and again.
SemInanicao ==
    \A t \in Usuarias :
        <>[][~Adia(t)]_vars =>
            (t \in ToSet(filaProntas) ~> (cpu = t \/ saida # "nenhuma"))

\* A task that has called task_exit is reaped, though it may be preempted
\* between setting its status and giving up the processor.
ExitRecolhida ==
    \A t \in Usuarias :
        t \in Vivas /\ status[t] = TERMINADA ~> (t \notin Vivas \/ saida # "nenhuma")

\* Once every task has exited the kernel ends the process, in the runs where
\* no preemption has made taskCont wrong.
FimQuandoAcabam ==
    (Vivas = {} /\ "cont" \notin cortes) ~> saida # "nenhuma"

=============================================================================
