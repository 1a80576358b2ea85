---------------------------- MODULE AplicacaoInv ----------------------------
(***************************************************************************)
(* The inductive invariant of Aplicacao: that of the kernel, and what the  *)
(* place of each task in its program has to do with the priorities and     *)
(* with the order of the ready queue.                                      *)
(***************************************************************************)
EXTENDS Aplicacao, PposInv

Gravando == {"gravaDin", "gravaEst"}

\* The last call main has made.
Feita == Programas[app][Main][linha[Main] - 1]

\* Only main creates and gives priorities to others; inside such a call, and
\* just before it gives the processor up, its last call tells which task.
ProgramaInv ==
    /\ app \in Apps
    /\ linha \in [Usuarias -> Nat \ {0}]
    /\ pedida \in [Usuarias -> Int]
    /\ \A t \in UserTasks : pc[t] \notin Criando
    /\ \A t \in UserTasks : pc[t] \in Gravando => alvo[t] = t
    /\ pc[Main] \in Criando \cup Gravando =>
          /\ linha[Main] > 1 /\ Feita.op \in {"create", "setprio"}
          /\ Feita.alvo = alvo[Main] /\ alvo[Main] \in UserTasks
    /\ pc[Main] = "boot" => linha[Main] = 1
    /\ pc[Main] = "troca" => linha[Main] > 1 /\ Feita.op # "create"

\* Who is setting the priorities of a task has the processor, and stores the one
\* last asked.
MeioNaCpu == \A t \in Usuarias : NoMeio(t) => t = cpu

PedidaInv ==
    ~cortou =>
        /\ MeioNaCpu
        /\ \A t \in Usuarias : pc[t] \in Gravando => reg[t] = pedida[alvo[t]]
        /\ pc[Main] \in Criando => pedida[alvo[Main]] = 0
        /\ PrioridadePedida

-----------------------------------------------------------------------------
(* The strengthening of SemUltrapassagem. *)

\* The task the dispatcher has just put back is at the end of the queue.
PreviaNoFim == \A i \in 1..Len(filaProntas) : filaProntas[i] = tarefaPrevia => i = Len(filaProntas)

\* The task whose priorities main has not finished setting.
Foco == IF NoMeio(Main) THEN {Feita.alvo} ELSE {}

\* In the queue q, but for the tasks of f, priorities only go down from the static
\* ones, and of two tasks the first, if its static priority is as good, has a
\* priority as good.
Ordenada(q, f, prio, estatica) ==
    /\ \A i \in 1..Len(q) : q[i] \notin f => prio[q[i]] <= estatica[q[i]]
    /\ \A i, j \in 1..Len(q) :
          i < j /\ q[i] \notin f /\ q[j] \notin f /\ estatica[q[i]] <= estatica[q[j]]
              => prio[q[i]] <= prio[q[j]]

EmOrdem ==
    /\ \A t \in Foco : filaProntas # <<>> /\ t = filaProntas[Len(filaProntas)]
    /\ pc[Main] = "gravaEst" => prioDinamica[alvo[Main]] = reg[Main]
    /\ Ordenada(filaProntas, Foco, PrioInicial, prioEstatica)

OrdemInv == ~cortou => EmOrdem

-----------------------------------------------------------------------------
(* The strengthening of TodasTiveramVez: the applications whose main creates *)
(* all its tasks, gives the processor up once and ends, and where nobody     *)
(* sets a priority.                                                          *)

UmaVez == MesmaPrioridade \ {"tasks1", "tasks2"}

\* All have the priority 0, and grow only older.
PrioridadesIguais ==
    /\ \A t \in Tarefas : prioEstatica[t] = 0 /\ prioDinamica[t] <= 0
    /\ pc[Main] \in Gravando => reg[Main] = 0
    /\ \A t \in UserTasks : pc[t] \notin Gravando

\* Main is ready, and creates tasks only up to the last.
MainCria ==
    /\ status[Main] = PRONTA
    /\ pc[Main] \in Criando \cup Gravando => linha[Main] <= N + 1

\* Main has published the task e.
Publicada(e) == e < linha[Main] /\ ~(pc[Main] \in AntesDePublicar /\ alvo[Main] = e)

\* A published task that has not run is waiting or is about to enter; the one
\* that is on the processor, or has just left it, has run.
EsperaAVez ==
    /\ pc[Dispatcher] = "retorno" => tarefaPrevia \in rodou
    /\ \A e \in UserTasks :
          Publicada(e) /\ e \notin rodou =>
              e \in ToSet(filaProntas) \/ (pc[Dispatcher] = "janela" /\ tarefaPrevia = e)

\* Main gives the processor up, or is behind every task that has not run.
MainCede ==
    /\ pc[Dispatcher] = "retorno" /\ tarefaPrevia = Main
    /\ cpu = Dispatcher \/ pc[Main] = "troca"

Atras(q, prio, jaRodou) ==
    /\ Main \in ToSet(q)
    /\ \A i, j \in 1..Len(q) :
          q[i] = Main /\ q[j] \notin jaRodou \cup {Main} => j < i /\ prio[q[j]] <= prio[Main]

MainEspera == Atras(filaProntas, PrioInicial, rodou)

VezDeMain == linha[Main] > N + 1 => UserTasks \subseteq rodou \/ MainCede \/ MainEspera

VezInv ==
    app \in UmaVez =>
        /\ PrioridadesIguais /\ MainCria /\ EsperaAVez /\ VezDeMain
        /\ saida = "exit" => UserTasks \subseteq rodou

-----------------------------------------------------------------------------
Aplicadas == IInv /\ ProgramaInv /\ PedidaInv /\ PreviaNoFim /\ OrdemInv /\ VezInv

\* The application that creates a task in a descriptor in use ends in a state
\* that no state of the kernel is.
AInv == PrioridadePedida /\ (saida \notin MausFins => Aplicadas)

=============================================================================
