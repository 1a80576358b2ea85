------------------------------- MODULE Contab -------------------------------
(***************************************************************************)
(* The time accounting of the kernel (sources/ppos_core.c): the clock, the *)
(* fields timeTaskCreate, timeBeginProcessor, timeProcessor and            *)
(* activations of each descriptor, and what task_exit prints of them.      *)
(*                                                                         *)
(* task_switch reads the clock twice, for the task that leaves and for the *)
(* one that enters, and a tick may fall before, between and after the two  *)
(* reads: "linha" is the line it is about to run.  When systick calls it,  *)
(* SIGALRM is blocked and the whole switch is one step.  The arguments of  *)
(* the printf of task_exit are read one by one too, in an order C leaves   *)
(* open.  Which ready task runs is left open here: see module Ppos for the *)
(* scheduler.                                                              *)
(***************************************************************************)
EXTENDS Integers, FiniteSetsExt

CONSTANTS
    UserTasks, Main, Dispatcher, NULL,
    QUANTUM_VAL,
    TicksJanela,   \* ticks that may hit one execution of task_switch
    MaxTime,       \* bound: the ticks of a run
    MaxAtivacoes   \* bound: a task yields while it has fewer activations

Usuarias == UserTasks \cup {Main}
Tarefas == Usuarias \cup {Dispatcher}

ASSUME NomesAssumption ==
    /\ Main \notin UserTasks /\ Dispatcher \notin Usuarias /\ NULL \notin Tarefas
    /\ IsFiniteSet(UserTasks)

ASSUME QuantumAssumption ==
    /\ QUANTUM_VAL \in Nat /\ TicksJanela \in Nat \ {0} /\ TicksJanela < QUANTUM_VAL
    /\ MaxTime \in Nat /\ MaxAtivacoes \in Nat

VARIABLES
    time, quantum,
    tarefaAtual, atual,   \* atual: the local of task_switch, NULL outside it
    linha,                \* "executa", or the line of task_switch
    prontas, criadas, saindo, terminadas,   \* sets of tasks
    timeTaskCreate, timeBeginProcessor, timeProcessor, activations,
    impressa,             \* the arguments of what the exit of each task prints
    janela,               \* ticks that hit the task_switch in progress
    perdidos,             \* history: ticks between the two reads of the clock
    rajadas               \* history: bursts each task ended after task_exit had read
                          \* its activations and before it read timeProcessor

campos == <<timeTaskCreate, timeBeginProcessor, timeProcessor, activations>>
conjuntos == <<prontas, criadas, saindo, terminadas>>
vars == <<time, quantum, tarefaAtual, atual, linha, conjuntos, campos, impressa, janela, perdidos,
          rajadas>>

NaoLido == -1
Nada == [execucao |-> NaoLido, processador |-> NaoLido, ativacoes |-> NaoLido]

\* The task_switch(&dispatcherTask) that ends ppos_init.
Init ==
    /\ time = 0 /\ quantum = QUANTUM_VAL
    /\ tarefaAtual = Dispatcher /\ atual = Main /\ linha = "222"
    /\ prontas = {} /\ criadas = {Main} /\ saindo = {} /\ terminadas = {}
    /\ timeTaskCreate = [t \in Tarefas |-> 0]
    /\ timeBeginProcessor = [t \in Tarefas |-> 0]
    /\ timeProcessor = [t \in Tarefas |-> 0]
    /\ activations = [t \in Tarefas |-> IF t = Main THEN 1 ELSE 0]
    /\ impressa = [t \in Tarefas |-> Nada]
    /\ janela = 0 /\ perdidos = 0 /\ rajadas = [t \in Tarefas |-> 0]

Executa(t) == linha = "executa" /\ tarefaAtual = t /\ t \notin terminadas

-----------------------------------------------------------------------------
\* task_create: a fresh descriptor.
TaskCreate(t, e) ==
    /\ Executa(t) /\ t \notin saindo
    /\ e \notin criadas
    /\ criadas' = criadas \cup {e}
    /\ prontas' = prontas \cup {e}
    /\ timeTaskCreate' = [timeTaskCreate EXCEPT ![e] = time]
    /\ timeBeginProcessor' = [timeBeginProcessor EXCEPT ![e] = 0]
    /\ timeProcessor' = [timeProcessor EXCEPT ![e] = 0]
    /\ activations' = [activations EXCEPT ![e] = 0]
    /\ UNCHANGED <<time, quantum, tarefaAtual, atual, linha, saindo, terminadas>>
    /\ UNCHANGED <<impressa, janela, perdidos, rajadas>>

-----------------------------------------------------------------------------
\* task_switch, up to the reset of the quantum.
TaskSwitch(de, para) ==
    /\ tarefaAtual' = para /\ atual' = de
    /\ quantum' = QUANTUM_VAL
    /\ linha' = "222"
    /\ janela' = 0

\* task_yield, or a task_switch to the task that runs.
TaskYield(t, para) ==
    /\ Executa(t) /\ t \notin saindo
    /\ para \in {Dispatcher, t}
    /\ activations[t] < MaxAtivacoes
    /\ TaskSwitch(t, para)
    /\ UNCHANGED <<time, conjuntos, campos, impressa, perdidos, rajadas>>

\* task_exit, up to the line it prints: the execution time has its two ends.
TaskExit(t) ==
    /\ Executa(t) /\ t \notin saindo
    /\ impressa' = [impressa EXCEPT ![t] = [Nada EXCEPT !.execucao = time - timeTaskCreate[t]]]
    /\ saindo' = saindo \cup {t}
    /\ UNCHANGED <<time, quantum, tarefaAtual, atual, linha, prontas, criadas, terminadas>>
    /\ UNCHANGED <<campos, janela, perdidos, rajadas>>

\* Mutant: the burst in progress is added to what is printed.
ExitLeProcessador_ComRajada(t) ==
    /\ Executa(t) /\ t \in saindo /\ impressa[t].processador = NaoLido
    /\ impressa' = [impressa EXCEPT
                       ![t].processador = timeProcessor[t] + time - timeBeginProcessor[t]]
    /\ UNCHANGED <<time, quantum, tarefaAtual, atual, linha, conjuntos, campos, janela>>
    /\ UNCHANGED <<perdidos, rajadas>>

\* The other arguments of printf.
ExitLeProcessador(t) ==
    /\ Executa(t) /\ t \in saindo /\ impressa[t].processador = NaoLido
    /\ impressa' = [impressa EXCEPT ![t].processador = timeProcessor[t]]
    /\ UNCHANGED <<time, quantum, tarefaAtual, atual, linha, conjuntos, campos, janela>>
    /\ UNCHANGED <<perdidos, rajadas>>

ExitLeAtivacoes(t) ==
    /\ Executa(t) /\ t \in saindo /\ impressa[t].ativacoes = NaoLido
    /\ impressa' = [impressa EXCEPT ![t].ativacoes = activations[t]]
    /\ UNCHANGED <<time, quantum, tarefaAtual, atual, linha, conjuntos, campos, janela>>
    /\ UNCHANGED <<perdidos, rajadas>>

Lidos(t) == impressa[t].processador # NaoLido /\ impressa[t].ativacoes # NaoLido

\* After the print, the status and the switch.
TaskExitTroca(t) ==
    /\ Executa(t) /\ t \in saindo /\ Lidos(t)
    /\ terminadas' = terminadas \cup {t}
    /\ TaskSwitch(t, Dispatcher)
    /\ UNCHANGED <<time, prontas, criadas, saindo, campos, impressa, perdidos, rajadas>>

\* The dispatcher sends a ready task to the processor.
Despacha(t) ==
    /\ Executa(Dispatcher)
    /\ t \in prontas
    /\ prontas' = prontas \ {t}
    /\ TaskSwitch(Dispatcher, t)
    /\ UNCHANGED <<time, criadas, saindo, terminadas, campos, impressa, perdidos, rajadas>>

\* The dispatcher prints its own line and calls exit: no task is left, and no
\* tick in the dispatcher changes what it reads.
DispatcherFim ==
    /\ Executa(Dispatcher)
    /\ prontas = {}
    /\ impressa' = [impressa EXCEPT ![Dispatcher] =
           [execucao |-> time - timeTaskCreate[Dispatcher],
            processador |-> timeProcessor[Dispatcher],
            ativacoes |-> activations[Dispatcher]]]
    /\ terminadas' = terminadas \cup {Dispatcher}
    /\ UNCHANGED <<time, quantum, tarefaAtual, atual, linha, prontas, criadas, saindo>>
    /\ UNCHANGED <<campos, janela, perdidos, rajadas>>

\* The task that leaves: timeEndProcessor and timeProcessor.
SaiDoProcessador ==
    /\ linha = "222"
    /\ timeProcessor' = [timeProcessor EXCEPT ![atual] = @ + (time - timeBeginProcessor[atual])]
    /\ linha' = "224"
    /\ UNCHANGED <<time, quantum, tarefaAtual, atual, conjuntos, timeTaskCreate>>
    /\ UNCHANGED <<timeBeginProcessor, activations, impressa, janela, perdidos, rajadas>>

\* Mutant: the beginning of the burst is not noted.
EntraNoProcessador_SemInicio ==
    /\ linha = "224"
    /\ activations' = [activations EXCEPT ![tarefaAtual] = @ + 1]
    /\ linha' = "executa" /\ atual' = NULL
    /\ prontas' = IF atual \in {tarefaAtual, Dispatcher} \cup terminadas
                  THEN prontas ELSE prontas \cup {atual}
    /\ UNCHANGED <<time, quantum, tarefaAtual, criadas, saindo, terminadas>>
    /\ UNCHANGED <<timeTaskCreate, timeBeginProcessor, timeProcessor, impressa, janela, perdidos, rajadas>>

\* Mutant: a task_switch of a task to itself is not counted.
EntraNoProcessador_SoTroca ==
    /\ linha = "224"
    /\ timeBeginProcessor' = [timeBeginProcessor EXCEPT ![tarefaAtual] = time]
    /\ activations' = [activations EXCEPT ![tarefaAtual] = IF atual = tarefaAtual THEN @ ELSE @ + 1]
    /\ linha' = "executa" /\ atual' = NULL
    /\ prontas' = IF atual \in {tarefaAtual, Dispatcher} \cup terminadas
                  THEN prontas ELSE prontas \cup {atual}
    /\ UNCHANGED <<time, quantum, tarefaAtual, criadas, saindo, terminadas>>
    /\ UNCHANGED <<timeTaskCreate, timeProcessor, impressa, janela, perdidos, rajadas>>

\* The task that enters; the dispatcher finds the one that left ready or
\* terminated.
EntraNoProcessador ==
    /\ linha = "224"
    /\ timeBeginProcessor' = [timeBeginProcessor EXCEPT ![tarefaAtual] = time]
    /\ activations' = [activations EXCEPT ![tarefaAtual] = @ + 1]
    /\ linha' = "executa" /\ atual' = NULL
    /\ prontas' = IF atual \in {tarefaAtual, Dispatcher} \cup terminadas
                  THEN prontas ELSE prontas \cup {atual}
    /\ UNCHANGED <<time, quantum, tarefaAtual, criadas, saindo, terminadas>>
    /\ UNCHANGED <<timeTaskCreate, timeProcessor, impressa, janela, perdidos, rajadas>>

-----------------------------------------------------------------------------
\* systick.

Relogio ==
    /\ time < MaxTime /\ Dispatcher \notin terminadas
    /\ linha = "executa" \/ janela < TicksJanela
    /\ time' = time + 1
    /\ janela' = IF linha = "executa" THEN 0 ELSE janela + 1
    /\ perdidos' = IF linha = "224" THEN perdidos + 1 ELSE perdidos

TickNoDispatcher ==
    /\ tarefaAtual = Dispatcher
    /\ Relogio
    /\ UNCHANGED <<quantum, tarefaAtual, atual, linha, conjuntos, campos, impressa, rajadas>>

TickDecrementa ==
    /\ tarefaAtual # Dispatcher /\ quantum # 1
    /\ Relogio
    /\ quantum' = quantum - 1
    /\ UNCHANGED <<tarefaAtual, atual, linha, conjuntos, campos, impressa, rajadas>>

\* Mutant: the dispatcher's burst is not begun.
Preempta_SemInicio(t) ==
    /\ timeProcessor' = [timeProcessor EXCEPT ![t] = @ + (time' - timeBeginProcessor[t])]
    /\ activations' = [activations EXCEPT ![Dispatcher] = @ + 1]
    /\ UNCHANGED <<timeTaskCreate, timeBeginProcessor>>

Preempta(t) ==
    /\ timeProcessor' = [timeProcessor EXCEPT ![t] = @ + (time' - timeBeginProcessor[t])]
    /\ timeBeginProcessor' = [timeBeginProcessor EXCEPT ![Dispatcher] = time']
    /\ activations' = [activations EXCEPT ![Dispatcher] = @ + 1]
    /\ UNCHANGED timeTaskCreate

EntreLeituras(t) == impressa[t].ativacoes # NaoLido /\ impressa[t].processador = NaoLido

TickPreempta ==
    /\ tarefaAtual # Dispatcher /\ quantum = 1 /\ linha = "executa"
    /\ Relogio
    /\ Preempta(tarefaAtual)
    /\ prontas' = prontas \cup {tarefaAtual}
    /\ tarefaAtual' = Dispatcher /\ quantum' = QUANTUM_VAL
    /\ rajadas' = IF EntreLeituras(tarefaAtual)
                  THEN [rajadas EXCEPT ![tarefaAtual] = @ + 1] ELSE rajadas
    /\ UNCHANGED <<atual, linha, criadas, saindo, terminadas, impressa>>

-----------------------------------------------------------------------------
\* The process has ended: an explicit stutter.
Encerrado == Dispatcher \in terminadas /\ UNCHANGED vars

Next ==
    \/ \E t \in Usuarias :
          \/ \E e \in UserTasks : TaskCreate(t, e)
          \/ \E para \in Tarefas : TaskYield(t, para)
          \/ TaskExit(t) \/ ExitLeProcessador(t) \/ ExitLeAtivacoes(t)
          \/ TaskExitTroca(t) \/ Despacha(t)
    \/ DispatcherFim
    \/ SaiDoProcessador \/ EntraNoProcessador
    \/ TickNoDispatcher \/ TickDecrementa \/ TickPreempta
    \/ Encerrado

Spec == Init /\ [][Next]_vars

-----------------------------------------------------------------------------
\* Properties.

\* The values every variable takes.
TypeOK ==
    /\ time \in 0..MaxTime /\ quantum \in 1..QUANTUM_VAL
    /\ tarefaAtual \in Tarefas /\ atual \in Tarefas \cup {NULL}
    /\ linha \in {"executa", "222", "224"} /\ (linha = "executa" <=> atual = NULL)
    /\ criadas \subseteq Usuarias /\ prontas \subseteq criadas /\ saindo \subseteq criadas
    /\ terminadas \subseteq saindo \cup {Dispatcher}
    /\ \A t \in Tarefas : timeTaskCreate[t] \in 0..time /\ timeBeginProcessor[t] \in 0..time
    /\ \A t \in Tarefas : timeProcessor[t] \in 0..time /\ activations[t] \in Nat
    /\ janela \in 0..TicksJanela /\ perdidos \in 0..time /\ rajadas \in [Tarefas -> Nat]

\* The burst that is not in timeProcessor yet, if t is on the processor.
EmCurso(t) ==
    IF (linha = "222" /\ t = atual) \/ (linha = "executa" /\ t = tarefaAtual)
    THEN time - timeBeginProcessor[t] ELSE 0

\* Every tick is charged to exactly one task, the dispatcher included, but for
\* those between the two reads of the clock in task_switch, charged to nobody.
TempoConservado ==
    time = perdidos + MapThenSumSet(LAMBDA t : timeProcessor[t] + EmCurso(t), Tarefas)

\* A quantum is counted from one line of task_switch and the burst from
\* another, and a task that gives the processor up in its last tick is charged
\* for those that hit its switch.
RajadaMaxima == QUANTUM_VAL - 1 + TicksJanela

\* No task is charged more than that per activation, nor any value out of the
\* range of its field.
RajadaCabeNoQuantum ==
    /\ TypeOK
    /\ \A t \in Usuarias : timeProcessor[t] + EmCurso(t) <= RajadaMaxima * activations[t]

\* No task is charged more time than it has existed.
ProcessadorCabeNaVida ==
    \A t \in criadas : timeProcessor[t] + EmCurso(t) <= time - timeTaskCreate[t]

\* The processor time task_exit prints leaves the last burst out: a task of n
\* activations prints the time of n-1 bursts at most, and one that ran in a
\* single burst prints 0; unless the activations are read first and preemptions
\* fall before timeProcessor is, each of which adds a burst that the printed
\* activations do not count.
ImpressoSemUltimaRajada ==
    \A t \in saindo : Lidos(t) =>
        impressa[t].processador <= RajadaMaxima * (impressa[t].ativacoes - 1 + rajadas[t])

=============================================================================
