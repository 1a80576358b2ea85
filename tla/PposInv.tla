------------------------------ MODULE PposInv ------------------------------
(***************************************************************************)
(* The inductive invariant of Ppos.  The kernel is always in one of five   *)
(* phases, told apart by whose stack executes and where the dispatcher     *)
(* stopped; in each the queues, tarefaAtual and tarefaPrevia agree.        *)
(***************************************************************************)
EXTENDS Ppos

SemRepetir(s) == \A i, j \in 1..Len(s) : s[i] = s[j] => i = j

FaseBoot ==
    /\ cpu = Main /\ pc[Main] = "boot" /\ pc[Dispatcher] = "laco"
    /\ filaTarefas = <<Dispatcher>> /\ filaProntas = <<Main>>
    /\ tarefaAtual = Main /\ tarefaPrevia = NULL
    /\ taskCont = 0 /\ maiorId = 1

FaseLaco ==
    /\ cpu = Dispatcher /\ pc[Dispatcher] = "laco" /\ pc[Main] # "boot"
    /\ filaTarefas = <<Dispatcher>>
    /\ tarefaAtual = Dispatcher

\* The task dispatched is in filaTarefas only.
Despachada ==
    /\ pc[Main] # "boot"
    /\ filaTarefas = <<Dispatcher, tarefaPrevia>>
    /\ tarefaPrevia \in Usuarias
    /\ tarefaPrevia \notin ToSet(filaProntas)

FaseJanela ==
    /\ cpu = Dispatcher /\ pc[Dispatcher] = "janela" /\ Despachada
    /\ tarefaAtual = tarefaPrevia /\ status[tarefaPrevia] = PRONTA

FaseRetorno ==
    /\ cpu = Dispatcher /\ pc[Dispatcher] = "retorno" /\ Despachada
    /\ tarefaAtual = Dispatcher
    /\ status[tarefaPrevia] = TERMINADA => pc[tarefaPrevia] \in {"livre", "troca"}

FaseUsuario ==
    /\ cpu = tarefaPrevia /\ pc[Dispatcher] = "retorno" /\ Despachada
    /\ tarefaAtual = tarefaPrevia
    /\ pc[cpu] # "troca" => status[cpu] = PRONTA

Fases == FaseBoot \/ FaseLaco \/ FaseJanela \/ FaseRetorno \/ FaseUsuario

\* Where the code of each task is; a task that is not live is at the start of
\* its body or was reaped inside task_exit.
Codigo ==
    /\ pc[Dispatcher] \in LugaresDispatcher
    /\ \A t \in Usuarias : pc[t] \in LugaresUsuario
    /\ \A t \in UserTasks : pc[t] # "boot"
    /\ \A t \in Usuarias \ Vivas : pc[t] \in {"livre", "troca"}

Prontas ==
    /\ SemRepetir(filaProntas)
    /\ \A t \in ToSet(filaProntas) : status[t] = PRONTA

Contextos ==
    /\ \A t \in Tarefas : contexto[t] \in {t, NULL}
    /\ \A t \in Vivas \cup {Dispatcher} : contexto[t] = t /\ t \in pilhas

\* Tasks half-way through task_create or task_setprio.
AntesDePublicar == {"gravaId", "inicia", "publica"}

DentroDaChamada(t) ==
    /\ pc[t] \in Criando => alvo[t] \in UserTasks
    /\ pc[t] \in AntesDePublicar => alvo[t] \notin Vivas
    /\ pc[t] = "publica" =>
          /\ alvo[t] \in pilhas /\ contexto[alvo[t]] = alvo[t]
          /\ status[alvo[t]] = PRONTA
    /\ pc[t] \in {"gravaDin", "gravaEst"} => reg[t] \in Prios

Chamadas == \A t \in Usuarias : DentroDaChamada(t)

\* Two tasks never create with the same descriptor.
AlvosDistintos ==
    \A t, u \in Usuarias :
        pc[t] \in AntesDePublicar /\ pc[u] \in AntesDePublicar /\ alvo[t] = alvo[u]
            => t = u

\* The quantum cannot run out in a window; the dispatcher's own id keeps it
\* from being preempted.
Relogio ==
    /\ FaseBoot \/ FaseJanela => quantum = QUANTUM_VAL - janela
    /\ id[Dispatcher] = 1

IInv ==
    /\ TypeOK /\ Fases /\ Codigo /\ Prontas /\ Contextos
    /\ Chamadas /\ AlvosDistintos /\ Relogio

-----------------------------------------------------------------------------
(* The strengthening of IdsUnicos and ContadorExato: what the values loaded *)
(* by the task inside task_create have to do with the shared counters.      *)

\* The descriptors that have received their identifier.
Numeradas ==
    Vivas \cup {Dispatcher} \cup {alvo[t] : t \in {u \in Usuarias : pc[u] = "publica"}}

IdsInv ==
    "id" \notin cortes =>
        /\ \A t, u \in Numeradas : id[t] = id[u] => t = u
        /\ \A u \in Numeradas : id[u] <= maiorId
        /\ \A t \in Usuarias : pc[t] \in LugaresId => t = cpu
        /\ \A t \in Usuarias : pc[t] = "gravaId" => reg[t] = maiorId
        /\ \A t \in Usuarias, u \in Numeradas : pc[t] = "inicia" => id[u] < maiorId

\* Where a live task is not in taskCont yet.
ForaDaConta == LugaresCont \cup {"boot"}

ContInv ==
    "cont" \notin cortes =>
        /\ taskCont = Cardinality(Vivas) - (IF pc[cpu] \in ForaDaConta THEN 1 ELSE 0)
        /\ \A t \in Usuarias : pc[t] \in ForaDaConta => t = cpu
        /\ \A t \in Usuarias : pc[t] = "gravaCont" => reg[t] = taskCont
        /\ saida = "dispatcher" => Vivas = {}

-----------------------------------------------------------------------------
(* The strengthening of EnvelhecimentoLimitado.  The scheduler takes one of *)
(* the lowest priorities off the queue each time it ages the others, so the *)
(* lower a priority the fewer tasks can have come down to it.               *)

PrioMinima == CHOOSE p \in Prios : \A q \in Prios : p <= q

\* The tasks that have come down to k below the smallest priority in use, but
\* for the last dispatched, which the scheduler will give its own back.
Abaixo(k) == {t \in Usuarias \ {tarefaPrevia} : prioDinamica[t] <= PrioMinima - k}

EnvelheceInv ==
    /\ \A t \in Usuarias \ {tarefaPrevia} :
          t \notin ToSet(filaProntas) => prioDinamica[t] >= PrioMinima
    /\ \A k \in 1..Cardinality(Usuarias) : Cardinality(Abaixo(k)) + k <= Cardinality(Usuarias)
    /\ tarefaPrevia # NULL =>
          prioDinamica[tarefaPrevia] >= PrioMinima - Cardinality(Usuarias)

=============================================================================
