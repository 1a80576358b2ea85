---------------------------- MODULE ContabProof ----------------------------
(***************************************************************************)
(* The time accounting of module Contab, for any tasks, any quantum and any*)
(* number of ticks in a task_switch that is less than a quantum: what the  *)
(* kernel charges to a task fits in its activations and in its lifetime,   *)
(* and all the charges together are the ticks of the clock but the lost.   *)
(***************************************************************************)
EXTENDS Contab, Contagem, FiniteSetTheorems, WellFoundedInduction, TLAPS

\* The task has a burst that is not in timeProcessor yet.
Corre(t) == (linha = "222" /\ t = atual) \/ (linha = "executa" /\ t = tarefaAtual)

\* The types, as the actions need them.
Tipos ==
    /\ time \in 0..MaxTime
    /\ tarefaAtual \in criadas \cup {Dispatcher} /\ atual \in criadas \cup {Dispatcher, NULL}
    /\ linha \in {"executa", "222", "224"} /\ (linha = "executa" <=> atual = NULL)
    /\ criadas \subseteq Usuarias /\ prontas \subseteq criadas /\ saindo \subseteq criadas
    /\ terminadas \subseteq saindo \cup {Dispatcher}
    /\ timeTaskCreate \in [Tarefas -> Nat] /\ timeBeginProcessor \in [Tarefas -> Nat]
    /\ timeProcessor \in [Tarefas -> Nat] /\ activations \in [Tarefas -> Nat]
    /\ impressa \in [Tarefas -> [execucao : Int, processador : Int, ativacoes : Int]]
    /\ janela \in 0..TicksJanela /\ perdidos \in 0..time /\ rajadas \in [Tarefas -> Nat]

\* In a window the quantum is what task_switch put there, less the ticks; a
\* burst is no longer than what was taken from the quantum, and one that is
\* about to be charged may have the ticks of the window too.
Quanta ==
    /\ quantum \in 1..QUANTUM_VAL
    /\ linha # "executa" /\ tarefaAtual # Dispatcher => quantum = QUANTUM_VAL - janela
    /\ linha = "executa" /\ tarefaAtual # Dispatcher =>
          time - timeBeginProcessor[tarefaAtual] <= QUANTUM_VAL - quantum
    /\ linha = "222" /\ atual # Dispatcher =>
          time - timeBeginProcessor[atual] <= QUANTUM_VAL - 1 + janela

\* The activation that is going on has not been charged.
Rajadas ==
    \A t \in Usuarias :
        timeProcessor[t] <= RajadaMaxima * (IF Corre(t) THEN activations[t] - 1 ELSE activations[t])

\* What is charged was spent before the burst in progress, and after the birth.
Vidas ==
    \A t \in Tarefas :
        /\ timeBeginProcessor[t] <= time /\ timeTaskCreate[t] <= time
        /\ timeProcessor[t] + timeTaskCreate[t] <= IF Corre(t) THEN timeBeginProcessor[t] ELSE time

\* What task_exit has read so far: the activations were those of the bursts
\* charged by then, the one going on not among them, and the bursts that ended
\* since are counted; timeProcessor was charged for the activations but the last,
\* and there may be more of them by now.  A task that has not read both does not
\* call task_switch.
Impressao ==
    /\ linha # "executa" => \A t \in saindo : t = atual => Lidos(t)
    /\ \A t \in Usuarias \ saindo : impressa[t].ativacoes = NaoLido
    /\ \A t \in Usuarias : impressa[t].ativacoes = NaoLido => rajadas[t] = 0
    /\ \A t \in saindo : EntreLeituras(t) =>
          timeProcessor[t] <= RajadaMaxima * (impressa[t].ativacoes - 1 + rajadas[t])
    /\ \A t \in saindo : impressa[t].processador # NaoLido /\ impressa[t].ativacoes = NaoLido =>
          impressa[t].processador <= RajadaMaxima * (activations[t] - 1)

\* The inductive invariant.
CInv == Tipos /\ Quanta /\ Rajadas /\ Vidas /\ Impressao /\ ImpressoSemUltimaRajada

-----------------------------------------------------------------------------
LEMMA Nomes ==
    /\ Dispatcher \notin Usuarias /\ NULL \notin Usuarias /\ NULL # Dispatcher
    /\ Usuarias \subseteq Tarefas /\ Dispatcher \in Tarefas /\ Main \in Usuarias
    /\ \A t \in Tarefas : t \in Usuarias \/ t = Dispatcher
  BY NomesAssumption DEF Usuarias, Tarefas

LEMMA Rajada ==
    /\ RajadaMaxima \in Nat /\ QUANTUM_VAL <= RajadaMaxima /\ QUANTUM_VAL \in Nat
    /\ RajadaMaxima = QUANTUM_VAL - 1 + TicksJanela /\ TicksJanela < QUANTUM_VAL
    /\ TicksJanela \in Nat /\ TicksJanela > 0
    /\ \A a \in Int : /\ RajadaMaxima * a \in Int
                      /\ RajadaMaxima * (a + 1) = RajadaMaxima * a + RajadaMaxima
                      /\ RajadaMaxima * (a - 1) = RajadaMaxima * a - RajadaMaxima
<1>1. /\ RajadaMaxima \in Nat /\ QUANTUM_VAL <= RajadaMaxima /\ QUANTUM_VAL \in Nat
      /\ RajadaMaxima = QUANTUM_VAL - 1 + TicksJanela /\ TicksJanela < QUANTUM_VAL
      /\ TicksJanela \in Nat /\ TicksJanela > 0
  BY QuantumAssumption DEF RajadaMaxima
<1> QED BY <1>1

LEMMA InitCInv == Init => CInv
<1> SUFFICES ASSUME Init PROVE CInv
  OBVIOUS
<1>1. Tipos
  BY Nomes, QuantumAssumption DEF Init, Tipos, Nada, NaoLido
<1>2. Quanta
  BY Nomes, Rajada DEF Init, Quanta
<1>3. Rajadas
  BY Nomes, Rajada DEF Init, Rajadas, Corre
<1>4. Vidas
  BY DEF Init, Vidas
<1>5. Impressao /\ ImpressoSemUltimaRajada
  BY Nomes DEF Init, Impressao, ImpressoSemUltimaRajada, Nada
<1> QED BY <1>1, <1>2, <1>3, <1>4, <1>5 DEF CInv

-----------------------------------------------------------------------------
\* The steps, one lemma each.

LEMMA PassoTaskCreate ==
    ASSUME CInv, NEW t \in Usuarias, NEW e \in UserTasks, TaskCreate(t, e)
    PROVE  CInv'
<1> USE Nomes DEF TaskCreate, Executa
<1>1. Tipos /\ Quanta /\ Rajadas /\ Vidas /\ Impressao /\ ImpressoSemUltimaRajada
  BY DEF CInv
<1>2. Tipos'
  BY <1>1, QuantumAssumption DEF Tipos, Usuarias
<1>3. Quanta'
  BY <1>1, Rajada DEF Tipos, Quanta
<1>4. Rajadas'
  BY <1>1, Rajada DEF Tipos, Quanta, Rajadas, Corre
<1>5. Vidas'
  BY <1>1 DEF Tipos, Vidas, Corre
<1>6. Impressao'
  BY <1>1 DEF Tipos, Impressao, EntreLeituras, Lidos
<1>7. ImpressoSemUltimaRajada'
  BY <1>1 DEF Tipos, ImpressoSemUltimaRajada, Lidos
<1> QED BY <1>2, <1>3, <1>4, <1>5, <1>6, <1>7 DEF CInv

LEMMA PassoTaskYield ==
    ASSUME CInv, NEW t \in Usuarias, NEW para \in Tarefas, TaskYield(t, para)
    PROVE  CInv'
<1> USE Nomes DEF TaskYield, TaskSwitch, Executa, campos, conjuntos
<1>1. Tipos /\ Quanta /\ Rajadas /\ Vidas /\ Impressao /\ ImpressoSemUltimaRajada
  BY DEF CInv
<1>2. Tipos'
  BY <1>1, QuantumAssumption DEF Tipos, Usuarias
<1>3. Quanta'
  BY <1>1, Rajada DEF Tipos, Quanta
<1>4. Rajadas'
  BY <1>1, Rajada DEF Tipos, Quanta, Rajadas, Corre
<1>5. Vidas'
  BY <1>1 DEF Tipos, Vidas, Corre
<1>6. Impressao'
  BY <1>1 DEF Tipos, Impressao, EntreLeituras, Lidos
<1>7. ImpressoSemUltimaRajada'
  BY <1>1 DEF Tipos, ImpressoSemUltimaRajada, Lidos
<1> QED BY <1>2, <1>3, <1>4, <1>5, <1>6, <1>7 DEF CInv

LEMMA PassoTaskExit ==
    ASSUME CInv, NEW t \in Usuarias, TaskExit(t)
    PROVE  CInv'
<1> USE Nomes DEF TaskExit, Executa, campos, Nada, NaoLido
<1>1. Tipos /\ Quanta /\ Rajadas /\ Vidas /\ Impressao /\ ImpressoSemUltimaRajada
  BY DEF CInv
<1>2. Tipos'
  BY <1>1, QuantumAssumption DEF Tipos, Usuarias
<1>3. Quanta'
  BY <1>1, Rajada DEF Tipos, Quanta
<1>4. Rajadas'
  BY <1>1, Rajada DEF Tipos, Quanta, Rajadas, Corre
<1>5. Vidas'
  BY <1>1 DEF Tipos, Vidas, Corre
<1>6. Impressao'
  BY <1>1 DEF Tipos, Impressao, EntreLeituras, Lidos
<1>7. ImpressoSemUltimaRajada'
  BY <1>1 DEF Tipos, ImpressoSemUltimaRajada, Lidos
<1> QED BY <1>2, <1>3, <1>4, <1>5, <1>6, <1>7 DEF CInv

LEMMA PassoExitLeProcessador ==
    ASSUME CInv, NEW t \in Usuarias, ExitLeProcessador(t)
    PROVE  CInv'
<1> USE Nomes DEF ExitLeProcessador, Executa, campos, conjuntos
<1>1. Tipos /\ Quanta /\ Rajadas /\ Vidas /\ Impressao /\ ImpressoSemUltimaRajada
  BY DEF CInv
<1>2. Tipos'
  BY <1>1, QuantumAssumption DEF Tipos, Usuarias
<1>3. Quanta' /\ Rajadas' /\ Vidas'
  BY <1>1 DEF Quanta, Rajadas, Vidas, Corre
<1>4. /\ t \in saindo /\ t \in Tarefas /\ timeProcessor[t] \in Nat /\ activations[t] \in Nat
      /\ rajadas[t] \in Nat /\ timeProcessor[t] <= RajadaMaxima * (activations[t] - 1)
  BY <1>1 DEF Tipos, Rajadas, Corre
<1>5. Impressao'
  BY <1>1, <1>4 DEF Tipos, Impressao, EntreLeituras, Lidos, NaoLido
<1>6. ImpressoSemUltimaRajada'
  BY <1>1, <1>4 DEF Tipos, Impressao, ImpressoSemUltimaRajada, EntreLeituras, Lidos, NaoLido
<1> QED BY <1>2, <1>3, <1>5, <1>6 DEF CInv

LEMMA PassoExitLeAtivacoes ==
    ASSUME CInv, NEW t \in Usuarias, ExitLeAtivacoes(t)
    PROVE  CInv'
<1> USE Nomes DEF ExitLeAtivacoes, Executa, campos, conjuntos
<1>1. Tipos /\ Quanta /\ Rajadas /\ Vidas /\ Impressao /\ ImpressoSemUltimaRajada
  BY DEF CInv
<1>2. Tipos'
  BY <1>1, QuantumAssumption DEF Tipos, Usuarias
<1>3. Quanta' /\ Rajadas' /\ Vidas'
  BY <1>1 DEF Quanta, Rajadas, Vidas, Corre
<1>4. /\ t \in saindo /\ t \in Tarefas /\ timeProcessor[t] \in Nat /\ activations[t] \in Nat
      /\ rajadas[t] \in Nat /\ timeProcessor[t] <= RajadaMaxima * (activations[t] - 1)
  BY <1>1 DEF Tipos, Rajadas, Corre
<1>5. Impressao'
  BY <1>1, <1>4 DEF Tipos, Impressao, EntreLeituras, Lidos, NaoLido
<1>6. ImpressoSemUltimaRajada'
  BY <1>1, <1>4 DEF Tipos, Impressao, ImpressoSemUltimaRajada, EntreLeituras, Lidos, NaoLido
<1> QED BY <1>2, <1>3, <1>5, <1>6 DEF CInv

LEMMA PassoTaskExitTroca ==
    ASSUME CInv, NEW t \in Usuarias, TaskExitTroca(t)
    PROVE  CInv'
<1> USE Nomes DEF TaskExitTroca, TaskSwitch, Executa, campos
<1>1. Tipos /\ Quanta /\ Rajadas /\ Vidas /\ Impressao /\ ImpressoSemUltimaRajada
  BY DEF CInv
<1>2. Tipos'
  BY <1>1, QuantumAssumption DEF Tipos, Usuarias
<1>3. Quanta'
  BY <1>1, Rajada DEF Tipos, Quanta
<1>4. Rajadas'
  BY <1>1, Rajada DEF Tipos, Quanta, Rajadas, Corre
<1>5. Vidas'
  BY <1>1 DEF Tipos, Vidas, Corre
<1>6. Impressao'
  BY <1>1 DEF Tipos, Impressao, EntreLeituras, Lidos
<1>7. ImpressoSemUltimaRajada'
  BY <1>1 DEF Tipos, ImpressoSemUltimaRajada, Lidos
<1> QED BY <1>2, <1>3, <1>4, <1>5, <1>6, <1>7 DEF CInv

LEMMA PassoDespacha ==
    ASSUME CInv, NEW t \in Usuarias, Despacha(t)
    PROVE  CInv'
<1> USE Nomes DEF Despacha, TaskSwitch, Executa, campos
<1>1. Tipos /\ Quanta /\ Rajadas /\ Vidas /\ Impressao /\ ImpressoSemUltimaRajada
  BY DEF CInv
<1>2. Tipos'
  BY <1>1, QuantumAssumption DEF Tipos, Usuarias
<1>3. Quanta'
  BY <1>1, Rajada DEF Tipos, Quanta
<1>4. Rajadas'
  BY <1>1, Rajada DEF Tipos, Quanta, Rajadas, Corre
<1>5. Vidas'
  BY <1>1 DEF Tipos, Vidas, Corre
<1>6. Impressao'
  BY <1>1 DEF Tipos, Impressao, EntreLeituras, Lidos
<1>7. ImpressoSemUltimaRajada'
  BY <1>1 DEF Tipos, ImpressoSemUltimaRajada, Lidos
<1> QED BY <1>2, <1>3, <1>4, <1>5, <1>6, <1>7 DEF CInv

LEMMA PassoDispatcherFim ==
    ASSUME CInv, DispatcherFim
    PROVE  CInv'
<1> USE Nomes DEF DispatcherFim, Executa, campos
<1>1. Tipos /\ Quanta /\ Rajadas /\ Vidas /\ Impressao /\ ImpressoSemUltimaRajada
  BY DEF CInv
<1>2. Tipos'
  BY <1>1, QuantumAssumption DEF Tipos, Usuarias
<1>3. Quanta'
  BY <1>1, Rajada DEF Tipos, Quanta
<1>4. Rajadas'
  BY <1>1, Rajada DEF Tipos, Quanta, Rajadas, Corre
<1>5. Vidas'
  BY <1>1 DEF Tipos, Vidas, Corre
<1>6. Impressao'
  BY <1>1 DEF Tipos, Impressao, EntreLeituras, Lidos
<1>7. ImpressoSemUltimaRajada'
  BY <1>1 DEF Tipos, ImpressoSemUltimaRajada, Lidos
<1> QED BY <1>2, <1>3, <1>4, <1>5, <1>6, <1>7 DEF CInv

LEMMA PassoSaiDoProcessador ==
    ASSUME CInv, SaiDoProcessador
    PROVE  CInv'
<1> USE Nomes DEF SaiDoProcessador, conjuntos
<1>1. Tipos /\ Quanta /\ Rajadas /\ Vidas /\ Impressao /\ ImpressoSemUltimaRajada
  BY DEF CInv
<1>2. Tipos'
  <2>1. atual \in Tarefas /\ time \in Nat /\ timeBeginProcessor[atual] <= time
    BY <1>1, QuantumAssumption DEF Tipos, Vidas
  <2>2. timeProcessor' \in [Tarefas -> Nat]
    BY <1>1, <2>1 DEF Tipos
  <2> QED BY <1>1, <2>2, QuantumAssumption DEF Tipos, Usuarias
<1>3. Quanta'
  BY <1>1, Rajada DEF Tipos, Quanta
<1>4. Rajadas'
  BY <1>1, Rajada DEF Tipos, Quanta, Rajadas, Corre
<1>5. Vidas'
  BY <1>1 DEF Tipos, Vidas, Corre
<1>6. Impressao'
  BY <1>1 DEF Tipos, Impressao, EntreLeituras, Lidos
<1>7. ImpressoSemUltimaRajada'
  BY <1>1 DEF Tipos, ImpressoSemUltimaRajada, Lidos
<1> QED BY <1>2, <1>3, <1>4, <1>5, <1>6, <1>7 DEF CInv

LEMMA PassoEntraNoProcessador ==
    ASSUME CInv, EntraNoProcessador
    PROVE  CInv'
<1> USE Nomes DEF EntraNoProcessador
<1>1. Tipos /\ Quanta /\ Rajadas /\ Vidas /\ Impressao /\ ImpressoSemUltimaRajada
  BY DEF CInv
<1>2. Tipos'
  BY <1>1, QuantumAssumption DEF Tipos, Usuarias
<1>3. Quanta'
  BY <1>1, Rajada DEF Tipos, Quanta
<1>4. Rajadas'
  BY <1>1, Rajada DEF Tipos, Quanta, Rajadas, Corre
<1>5. Vidas'
  BY <1>1 DEF Tipos, Vidas, Corre
<1>6. Impressao'
  <2>1. ASSUME NEW t \in saindo, impressa[t].processador # NaoLido, impressa[t].ativacoes = NaoLido
        PROVE  impressa[t].processador <= RajadaMaxima * (activations'[t] - 1)
    <3>1. /\ t \in Tarefas /\ activations[t] \in Nat /\ impressa[t].processador \in Int
          /\ impressa[t].processador <= RajadaMaxima * (activations[t] - 1)
      BY <1>1, <2>1 DEF Tipos, Impressao
    <3>2. activations'[t] = activations[t] \/ activations'[t] = activations[t] + 1
      BY <1>1, <3>1 DEF Tipos
    <3>3. CASE activations'[t] = activations[t]
      BY <3>1, <3>3
    <3>4. CASE activations'[t] = activations[t] + 1
      <4> DEFINE a == activations[t] - 1
      <4>2. a \in Int /\ activations'[t] - 1 = a + 1
        BY <3>1, <3>4
      <4>3. RajadaMaxima * (a + 1) = RajadaMaxima * a + RajadaMaxima /\ RajadaMaxima * a \in Int
        BY <4>2, Rajada
      <4>4. impressa[t].processador <= RajadaMaxima * a /\ RajadaMaxima \in Nat
        BY <3>1, Rajada
      <4> HIDE DEF a
      <4> QED BY <3>1, <4>2, <4>3, <4>4
    <3> QED BY <3>2, <3>3, <3>4
  <2>2. /\ linha' = "executa" /\ UNCHANGED <<saindo, impressa, rajadas, timeProcessor>>
    OBVIOUS
  <2> QED BY <1>1, <2>1, <2>2 DEF Impressao, EntreLeituras, Lidos
<1>7. ImpressoSemUltimaRajada'
  BY <1>1 DEF Tipos, ImpressoSemUltimaRajada, Lidos
<1> QED BY <1>2, <1>3, <1>4, <1>5, <1>6, <1>7 DEF CInv

LEMMA PassoTickNoDispatcher ==
    ASSUME CInv, TickNoDispatcher
    PROVE  CInv'
<1> USE Nomes DEF TickNoDispatcher, Relogio, campos, conjuntos
<1>1. Tipos /\ Quanta /\ Rajadas /\ Vidas /\ Impressao /\ ImpressoSemUltimaRajada
  BY DEF CInv
<1>2. Tipos'
  BY <1>1, QuantumAssumption DEF Tipos, Usuarias
<1>3. Quanta'
  BY <1>1, Rajada DEF Tipos, Quanta
<1>4. Rajadas'
  BY <1>1, Rajada DEF Tipos, Quanta, Rajadas, Corre
<1>5. Vidas'
  BY <1>1 DEF Tipos, Vidas, Corre
<1>6. Impressao'
  BY <1>1 DEF Tipos, Impressao, EntreLeituras, Lidos
<1>7. ImpressoSemUltimaRajada'
  BY <1>1 DEF Tipos, ImpressoSemUltimaRajada, Lidos
<1> QED BY <1>2, <1>3, <1>4, <1>5, <1>6, <1>7 DEF CInv

LEMMA PassoTickDecrementa ==
    ASSUME CInv, TickDecrementa
    PROVE  CInv'
<1> USE Nomes DEF TickDecrementa, Relogio, campos, conjuntos
<1>1. Tipos /\ Quanta /\ Rajadas /\ Vidas /\ Impressao /\ ImpressoSemUltimaRajada
  BY DEF CInv
<1>2. Tipos'
  BY <1>1, QuantumAssumption DEF Tipos, Usuarias
<1>3. Quanta'
  BY <1>1, Rajada DEF Tipos, Quanta
<1>4. Rajadas'
  BY <1>1, Rajada DEF Tipos, Quanta, Rajadas, Corre
<1>5. Vidas'
  BY <1>1 DEF Tipos, Vidas, Corre
<1>6. Impressao'
  BY <1>1 DEF Tipos, Impressao, EntreLeituras, Lidos
<1>7. ImpressoSemUltimaRajada'
  BY <1>1 DEF Tipos, ImpressoSemUltimaRajada, Lidos
<1> QED BY <1>2, <1>3, <1>4, <1>5, <1>6, <1>7 DEF CInv

LEMMA PassoTickPreempta ==
    ASSUME CInv, TickPreempta
    PROVE  CInv'
<1> USE Nomes DEF TickPreempta, Relogio, Preempta
<1>1. Tipos /\ Quanta /\ Rajadas /\ Vidas /\ Impressao /\ ImpressoSemUltimaRajada
  BY DEF CInv
<1>2. Tipos'
  <2>1. tarefaAtual \in Tarefas /\ time' \in Nat /\ timeBeginProcessor[tarefaAtual] <= time'
    BY <1>1, QuantumAssumption DEF Tipos, Vidas
  <2>2. timeProcessor' \in [Tarefas -> Nat]
    BY <1>1, <2>1 DEF Tipos
  <2> QED BY <1>1, <2>2, QuantumAssumption DEF Tipos, Usuarias
<1>3. Quanta'
  BY <1>1, Rajada DEF Tipos, Quanta
<1>4. Rajadas'
  BY <1>1, Rajada DEF Tipos, Quanta, Rajadas, Corre
<1>5. Vidas'
  BY <1>1 DEF Tipos, Vidas, Corre
<1>6. Impressao'
  <2>1. /\ tarefaAtual \in Usuarias /\ tarefaAtual \in Tarefas
        /\ linha' = "executa" /\ UNCHANGED <<saindo, impressa>>
    BY <1>1 DEF Tipos
  <2>2. ASSUME NEW t \in Usuarias, ~(t = tarefaAtual /\ EntreLeituras(t))
        PROVE  rajadas'[t] = rajadas[t]
    <3>1. CASE EntreLeituras(tarefaAtual)
      <4>1. t # tarefaAtual /\ rajadas' = [rajadas EXCEPT ![tarefaAtual] = @ + 1]
        BY <2>2, <3>1
      <4> QED BY <1>1, <4>1 DEF Tipos
    <3> QED BY <3>1
  <2>3. \A t \in Usuarias : activations'[t] = activations[t]
    BY <1>1 DEF Tipos
  <2>4. ASSUME NEW t \in saindo, EntreLeituras(t)
        PROVE  timeProcessor'[t] <= RajadaMaxima * (impressa[t].ativacoes - 1 + rajadas'[t])
    <3>1. /\ t \in Usuarias /\ t \in Tarefas /\ timeProcessor[t] \in Nat /\ rajadas[t] \in Nat
          /\ impressa[t].ativacoes \in Int
          /\ timeProcessor[t] <= RajadaMaxima * (impressa[t].ativacoes - 1 + rajadas[t])
      BY <1>1, <2>4 DEF Tipos, Impressao
    <3>2. CASE t # tarefaAtual
      <4>1. timeProcessor'[t] = timeProcessor[t] /\ rajadas'[t] = rajadas[t]
        BY <1>1, <3>1, <3>2 DEF Tipos
      <4> QED BY <3>1, <4>1
    <3>3. CASE t = tarefaAtual
      <4>1. /\ rajadas'[t] = rajadas[t] + 1
            /\ timeProcessor'[t] = timeProcessor[t] + (time' - timeBeginProcessor[t])
            /\ time' = time + 1
        <5>1. /\ rajadas' = [rajadas EXCEPT ![t] = @ + 1] /\ time' = time + 1
              /\ timeProcessor' = [timeProcessor EXCEPT ![t] = @ + (time' - timeBeginProcessor[t])]
          BY <2>4, <3>3
        <5>2. /\ rajadas \in [Tarefas -> Nat] /\ timeProcessor \in [Tarefas -> Nat]
              /\ timeBeginProcessor \in [Tarefas -> Nat] /\ time \in Nat
          BY <1>1, QuantumAssumption DEF Tipos
        <5>3. rajadas'[t] = rajadas[t] + 1
          BY <3>1, <5>1, <5>2
        <5>4. timeProcessor'[t] = timeProcessor[t] + (time' - timeBeginProcessor[t])
          BY <3>1, <5>1, <5>2
        <5> QED BY <5>1, <5>3, <5>4
      <4>2. time - timeBeginProcessor[t] <= QUANTUM_VAL - 1
        BY <1>1, <2>1, <3>3 DEF Quanta
      <4>3. time \in Nat /\ timeBeginProcessor[t] \in Nat
        BY <1>1, <3>1, QuantumAssumption DEF Tipos
      <4>4. timeProcessor'[t] <= timeProcessor[t] + RajadaMaxima
        BY <3>1, <4>1, <4>2, <4>3, Rajada
      <4> DEFINE a == impressa[t].ativacoes - 1 + rajadas[t]
      <4>5. a \in Int /\ impressa[t].ativacoes - 1 + rajadas'[t] = a + 1
        BY <3>1, <4>1
      <4>6. /\ RajadaMaxima * (a + 1) = RajadaMaxima * a + RajadaMaxima
            /\ RajadaMaxima * a \in Int /\ RajadaMaxima \in Nat
        BY <4>5, Rajada
      <4>7. timeProcessor[t] <= RajadaMaxima * a
        BY <3>1
      <4>8. timeProcessor'[t] \in Int
        BY <3>1, <4>1, <4>3
      <4> HIDE DEF a
      <4> QED BY <3>1, <4>4, <4>5, <4>6, <4>7, <4>8
    <3> QED BY <3>2, <3>3
  <2>5. \A t \in Usuarias : impressa[t].ativacoes = NaoLido => rajadas'[t] = 0
    <3> SUFFICES ASSUME NEW t \in Usuarias, impressa[t].ativacoes = NaoLido
                 PROVE  rajadas'[t] = 0
      OBVIOUS
    <3>1. rajadas[t] = 0
      BY <1>1 DEF Impressao
    <3>2. CASE t = tarefaAtual /\ EntreLeituras(t)
      <4>1. FALSE
        BY <1>1, <3>2 DEF EntreLeituras
      <4> QED BY <4>1
    <3> QED BY <2>2, <3>1, <3>2
  <2>6. saindo \subseteq Usuarias
    BY <1>1 DEF Tipos
  <2> QED BY <1>1, <2>1, <2>3, <2>4, <2>5, <2>6 DEF Impressao, EntreLeituras, Lidos
<1>7. ImpressoSemUltimaRajada'
  <2>1. \A t \in saindo : Lidos(t) => rajadas'[t] = rajadas[t]
    BY <1>1 DEF Tipos, EntreLeituras, Lidos
  <2> QED BY <1>1, <2>1 DEF ImpressoSemUltimaRajada, Lidos
<1> QED BY <1>2, <1>3, <1>4, <1>5, <1>6, <1>7 DEF CInv

-----------------------------------------------------------------------------
\* The accounting adds up, under any interleaving of ticks and switches.
THEOREM Contas == Spec => []CInv
<1>1. CInv /\ UNCHANGED vars => CInv'
  BY DEF CInv, Tipos, Quanta, Rajadas, Vidas, Impressao, ImpressoSemUltimaRajada, Corre, Lidos,
         EntreLeituras, vars, conjuntos, campos
<1>2. CInv /\ [Next]_vars => CInv'
  BY <1>1, PassoTaskCreate, PassoTaskYield, PassoTaskExit, PassoExitLeProcessador,
     PassoExitLeAtivacoes, PassoTaskExitTroca, PassoDespacha,
     PassoDispatcherFim, PassoSaiDoProcessador, PassoEntraNoProcessador, PassoTickNoDispatcher,
     PassoTickDecrementa, PassoTickPreempta
     DEF Next, Encerrado
<1> QED BY <1>2, InitCInv, PTL DEF Spec

\* No task is charged more than a quantum and the ticks of a switch, less one, per
\* activation.
THEOREM RajadaSempreCabe == Spec => []RajadaCabeNoQuantum
<1>1. CInv => RajadaCabeNoQuantum
  <2> SUFFICES ASSUME CInv PROVE RajadaCabeNoQuantum
    OBVIOUS
  <2> USE DEF CInv
  <2>1. TypeOK
    BY Nomes, QuantumAssumption DEF TypeOK, Tipos, Quanta, Vidas, Corre
  <2>2. ASSUME NEW t \in Usuarias
        PROVE  timeProcessor[t] + EmCurso(t) <= RajadaMaxima * activations[t]
    BY Nomes, Rajada DEF EmCurso, Corre, Tipos, Quanta, Rajadas
  <2> QED BY <2>1, <2>2 DEF RajadaCabeNoQuantum
<1> QED BY <1>1, Contas, PTL

\* No task is charged more time than it has existed.
THEOREM ProcessadorSempreCabe == Spec => []ProcessadorCabeNaVida
<1>1. CInv => ProcessadorCabeNaVida
  <2> SUFFICES ASSUME CInv, NEW t \in criadas
               PROVE  timeProcessor[t] + EmCurso(t) <= time - timeTaskCreate[t]
    BY DEF ProcessadorCabeNaVida
  <2> QED BY Nomes, QuantumAssumption DEF CInv, EmCurso, Corre, Tipos, Vidas
<1> QED BY <1>1, Contas, PTL

\* What task_exit prints leaves the last burst out, but for the bursts that ended
\* between its read of activations and that of timeProcessor, in either order.
THEOREM ImpressoSempreSemRajada == Spec => []ImpressoSemUltimaRajada
<1>1. CInv => ImpressoSemUltimaRajada
  BY DEF CInv
<1> QED BY <1>1, Contas, PTL

-----------------------------------------------------------------------------
\* The sum of TempoConservado.  A sum of natural numbers is how many units they
\* have together, and counting the units is something the theorems on finite
\* sets can be used for.

Unidades(f, s) == {p \in s \X Nat : 1 <= p[2] /\ p[2] <= f[p[1]]}

Total(f, s) == Cardinality(Unidades(f, s))

\* What a task adds to the count.
LEMMA UnidadesDeUma ==
    ASSUME NEW s, NEW x \in s, NEW f, f[x] \in Nat, IsFiniteSet(Unidades(f, s \ {x}))
    PROVE  IsFiniteSet(Unidades(f, s)) /\ Total(f, s) = f[x] + Total(f, s \ {x})
<1> DEFINE D == {x} \X (1..f[x])
           R == Unidades(f, s \ {x})
<1>1. Unidades(f, s) = R \cup D /\ R \cap D = {}
  BY DEF Unidades
<1>2. IsFiniteSet(1..f[x]) /\ Cardinality(1..f[x]) = f[x]
  BY FS_Interval
<1>3. IsFiniteSet({x}) /\ Cardinality({x}) = 1
  BY FS_Singleton
<1>4. IsFiniteSet(D) /\ Cardinality(D) = Cardinality({x}) * Cardinality(1..f[x])
  BY <1>2, <1>3, FS_Product
<1>5. Cardinality(D) = f[x]
  <2>1. 1 * f[x] = f[x]
    OBVIOUS
  <2> QED BY <2>1, <1>2, <1>3, <1>4
<1> HIDE DEF D, R
<1>6. /\ IsFiniteSet(R \cup D)
      /\ Cardinality(R \cup D) = Cardinality(R) + Cardinality(D) - Cardinality(R \cap D)
  BY <1>4, FS_Union DEF R
<1>7. Cardinality(R) \in Nat /\ Cardinality({}) = 0
  BY FS_CardinalityType, FS_EmptySet DEF R
<1>8. Total(f, s) = Cardinality(R \cup D) /\ Total(f, s \ {x}) = Cardinality(R)
  BY <1>1 DEF Total, R
<1>9. Total(f, s) = f[x] + Cardinality(R)
  <2>1. R \cap D = {}
    BY <1>1 DEF D, R
  <2>2. Cardinality(R \cup D) = Cardinality(R) + f[x] - 0
    BY <1>5, <1>6, <1>7, <2>1
  <2> QED BY <1>7, <1>8, <2>2
<1> QED BY <1>1, <1>6, <1>8, <1>9

\* A property of the empty set that passes from a set without one of its
\* elements to the set holds of every subset of S: C are the counterexamples.
LEMMA SemContraexemplo ==
    ASSUME NEW S, IsFiniteSet(S), NEW C \in SUBSET (SUBSET S), {} \notin C,
           \A s \in C : \E x \in s : s \ {x} \in C
    PROVE  C = {}
<1>1. SUFFICES ASSUME C # {} PROVE FALSE
  OBVIOUS
<1>2. C \in SUBSET FiniteSubsetsOf(S)
  BY FS_FiniteSubsetsOfFinite
<1>3. PICK m \in C : \A s \in C : ~ (<<s, m>> \in StrictSubsetOrdering(S))
  BY <1>1, <1>2, FS_StrictSubsetOrderingWellFounded, WFMin
<1>4. PICK x \in m : m \ {x} \in C
  OBVIOUS
<1>5. <<m \ {x}, m>> \in StrictSubsetOrdering(S)
  BY <1>4 DEF StrictSubsetOrdering
<1> QED BY <1>3, <1>4, <1>5

LEMMA UnidadesFinitas ==
    ASSUME NEW S, IsFiniteSet(S), NEW f \in [S -> Nat], NEW s \in SUBSET S
    PROVE  IsFiniteSet(Unidades(f, s)) /\ Total(f, s) \in Nat
<1> DEFINE C == {r \in SUBSET S : ~ IsFiniteSet(Unidades(f, r))}
<1>1. C \in SUBSET (SUBSET S)
  OBVIOUS
<1>2. {} \notin C
  <2>1. Unidades(f, {}) = {}
    BY DEF Unidades
  <2> QED BY <2>1, FS_EmptySet
<1>3. ASSUME NEW r \in C PROVE \E x \in r : r \ {x} \in C
  <2>1. r # {} /\ r \in SUBSET S
    BY <1>2
  <2>2. PICK x \in r : TRUE
    BY <2>1
  <2>3. ASSUME IsFiniteSet(Unidades(f, r \ {x})) PROVE FALSE
    <3>1. f[x] \in Nat
      BY <2>1
    <3>2. IsFiniteSet(Unidades(f, r))
      BY <2>3, <3>1, UnidadesDeUma
    <3> QED BY <3>2
  <2> QED BY <2>1, <2>3
<1>4. C = {}
  <2> HIDE DEF C
  <2> QED BY <1>1, <1>2, <1>3, SemContraexemplo
<1>5. IsFiniteSet(Unidades(f, s))
  BY <1>4
<1> QED BY <1>5, FS_CardinalityType DEF Total

\* One task changes: so does the total, by as much.
LEMMA TotalMuda ==
    ASSUME NEW S, IsFiniteSet(S), NEW f \in [S -> Nat], NEW g \in [S -> Nat], NEW x \in S,
           \A t \in S \ {x} : g[t] = f[t]
    PROVE  Total(g, S) + f[x] = Total(f, S) + g[x]
<1>1. Unidades(f, S \ {x}) = Unidades(g, S \ {x})
  BY DEF Unidades
<1>2. /\ IsFiniteSet(Unidades(f, S \ {x})) /\ Total(f, S \ {x}) \in Nat
      /\ Total(g, S \ {x}) = Total(f, S \ {x})
  BY <1>1, UnidadesFinitas DEF Total
<1>3. /\ Total(f, S) = f[x] + Total(f, S \ {x})
      /\ Total(g, S) = g[x] + Total(g, S \ {x})
  BY <1>1, <1>2, UnidadesDeUma
<1> QED BY <1>2, <1>3

-----------------------------------------------------------------------------
\* The sum that TempoConservado takes is that total.

Cobrado == [t \in Tarefas |-> timeProcessor[t] + EmCurso(t)]

UmaSoma(iter) ==
    [s \in SUBSET Tarefas |->
        IF s = {} THEN 0
        ELSE (timeProcessor[CHOOSE x \in s : TRUE] + EmCurso(CHOOSE x \in s : TRUE))
             + iter[s \ {CHOOSE x \in s : TRUE}]]

LEMMA TotaisSomam ==
    ASSUME IsFiniteSet(Tarefas), Cobrado \in [Tarefas -> Nat]
    PROVE  [s \in SUBSET Tarefas |-> Total(Cobrado, s)]
              = UmaSoma([s \in SUBSET Tarefas |-> Total(Cobrado, s)])
<1> DEFINE T == [s \in SUBSET Tarefas |-> Total(Cobrado, s)]
<1>1. ASSUME NEW s \in SUBSET Tarefas PROVE T[s] = UmaSoma(T)[s]
  <2>1. CASE s = {}
    <3>1. Unidades(Cobrado, {}) = {}
      BY DEF Unidades
    <3>2. Total(Cobrado, s) = 0
      BY <2>1, <3>1, FS_EmptySet DEF Total
    <3> QED BY <2>1, <3>2 DEF UmaSoma
  <2>2. CASE s # {}
    <3> DEFINE e == CHOOSE x \in s : TRUE
    <3>1. e \in s
      BY <2>2
    <3>2. e \in Tarefas /\ s \ {e} \in SUBSET Tarefas
      BY <3>1
    <3>3. UmaSoma(T)[s] = (timeProcessor[e] + EmCurso(e)) + T[s \ {e}]
      BY <2>2 DEF UmaSoma
    <3>4. Cobrado[e] = timeProcessor[e] + EmCurso(e) /\ Cobrado[e] \in Nat
      BY <3>2 DEF Cobrado
    <3> HIDE DEF e
    <3>5. Total(Cobrado, s) = Cobrado[e] + Total(Cobrado, s \ {e})
      BY <3>1, <3>2, <3>4, UnidadesFinitas, UnidadesDeUma
    <3> QED BY <3>2, <3>3, <3>4, <3>5
  <2> QED BY <2>1, <2>2
<1> QED BY <1>1 DEF UmaSoma

\* There is one sum only.
LEMMA UmaSomaSo ==
    ASSUME IsFiniteSet(Tarefas), NEW p, NEW q, p = UmaSoma(p), q = UmaSoma(q)
    PROVE  p[Tarefas] = q[Tarefas]
<1> DEFINE C == {s \in SUBSET Tarefas : p[s] # q[s]}
<1>1. C \in SUBSET (SUBSET Tarefas)
  OBVIOUS
<1>2. \A s \in SUBSET Tarefas : p[s] = UmaSoma(p)[s] /\ q[s] = UmaSoma(q)[s]
  OBVIOUS
<1>3. {} \notin C
  BY <1>2 DEF UmaSoma
<1>4. ASSUME NEW s \in C PROVE \E x \in s : s \ {x} \in C
  <2> DEFINE e == CHOOSE x \in s : TRUE
  <2>1. s \in SUBSET Tarefas /\ s # {} /\ p[s] # q[s]
    BY <1>3
  <2>2. e \in s
    BY <2>1
  <2>3. /\ p[s] = (timeProcessor[e] + EmCurso(e)) + p[s \ {e}]
        /\ q[s] = (timeProcessor[e] + EmCurso(e)) + q[s \ {e}]
    BY <1>2, <2>1 DEF UmaSoma
  <2> HIDE DEF e
  <2>4. p[s \ {e}] # q[s \ {e}] /\ s \ {e} \in SUBSET Tarefas
    BY <2>1, <2>3
  <2> QED BY <2>2, <2>4
<1>5. C = {}
  <2> HIDE DEF C
  <2> QED BY <1>1, <1>3, <1>4, SemContraexemplo
<1> QED BY <1>5

LEMMA SomaETotal ==
    ASSUME IsFiniteSet(Tarefas), Cobrado \in [Tarefas -> Nat]
    PROVE  MapThenSumSet(LAMBDA t : timeProcessor[t] + EmCurso(t), Tarefas) = Total(Cobrado, Tarefas)
<1> DEFINE T == [s \in SUBSET Tarefas |-> Total(Cobrado, s)]
           I == CHOOSE iter : iter = UmaSoma(iter)
<1>1. MapThenSumSet(LAMBDA t : timeProcessor[t] + EmCurso(t), Tarefas) = I[Tarefas]
  BY DEF MapThenSumSet, MapThenFoldSet, UmaSoma
<1>2. T = UmaSoma(T) /\ T[Tarefas] = Total(Cobrado, Tarefas)
  BY TotaisSomam
<1> HIDE DEF T
<1>3. I = UmaSoma(I)
  BY <1>2
<1> HIDE DEF I
<1> QED BY <1>1, <1>2, <1>3, UmaSomaSo

-----------------------------------------------------------------------------
\* The inductive form of TempoConservado: a descriptor that has not been created
\* has been charged nothing.
ContaCerta ==
    /\ \A t \in Usuarias \ criadas : timeProcessor[t] = 0
    /\ time = perdidos + Total(Cobrado, Tarefas)

LEMMA TiposCobrado ==
    ASSUME CInv
    PROVE  /\ Cobrado \in [Tarefas -> Nat] /\ IsFiniteSet(Tarefas)
           /\ Total(Cobrado, Tarefas) \in Nat /\ time \in Nat /\ perdidos \in Nat
<1>1. ASSUME NEW t \in Tarefas PROVE timeProcessor[t] + EmCurso(t) \in Nat
  <2>1. /\ timeProcessor[t] \in Nat /\ timeBeginProcessor[t] \in Nat /\ time \in Nat
        /\ timeBeginProcessor[t] <= time
    BY QuantumAssumption DEF CInv, Tipos, Vidas
  <2> QED BY <2>1 DEF EmCurso
<1>2. Cobrado \in [Tarefas -> Nat]
  BY <1>1 DEF Cobrado
<1>3. IsFiniteSet(Tarefas)
  BY NomesAssumption, FS_AddElement DEF Usuarias, Tarefas
<1>4. Total(Cobrado, Tarefas) \in Nat
  BY <1>2, <1>3, UnidadesFinitas
<1> QED BY <1>2, <1>3, <1>4, QuantumAssumption DEF CInv, Tipos

\* A step that charges nobody.
LEMMA NadaCobrado ==
    ASSUME ContaCerta, criadas \subseteq criadas', UNCHANGED <<time, perdidos>>,
           \A t \in Tarefas : timeProcessor'[t] + EmCurso(t)' = timeProcessor[t] + EmCurso(t),
           \A t \in Usuarias \ criadas' : timeProcessor'[t] = timeProcessor[t]
    PROVE  ContaCerta'
<1>1. Cobrado' = Cobrado
  BY DEF Cobrado
<1> QED BY <1>1 DEF ContaCerta

\* A tick that is charged to x.
LEMMA TickCobrado ==
    ASSUME CInv, CInv', ContaCerta, NEW x \in Tarefas, UNCHANGED <<criadas, perdidos>>,
           time' = time + 1,
           timeProcessor'[x] + EmCurso(x)' = timeProcessor[x] + EmCurso(x) + 1,
           \A t \in Tarefas \ {x} : timeProcessor'[t] + EmCurso(t)' = timeProcessor[t] + EmCurso(t),
           \A t \in Usuarias \ criadas : timeProcessor'[t] = timeProcessor[t]
    PROVE  ContaCerta'
<1>1. /\ Cobrado \in [Tarefas -> Nat] /\ IsFiniteSet(Tarefas)
      /\ Total(Cobrado, Tarefas) \in Nat /\ time \in Nat /\ perdidos \in Nat
  BY TiposCobrado
<1>2. Cobrado' \in [Tarefas -> Nat] /\ Total(Cobrado', Tarefas) \in Nat
  <2>1. Cobrado' \in [Tarefas -> Nat]
    <3>1. ASSUME NEW t \in Tarefas PROVE timeProcessor'[t] + EmCurso(t)' \in Nat
      <4>1. Cobrado[t] \in Nat /\ Cobrado[t] = timeProcessor[t] + EmCurso(t)
        BY <1>1 DEF Cobrado
      <4> QED BY <4>1
    <3> QED BY <3>1 DEF Cobrado
  <2> QED BY <2>1, <1>1, UnidadesFinitas
<1>3. Cobrado'[x] = Cobrado[x] + 1 /\ \A t \in Tarefas \ {x} : Cobrado'[t] = Cobrado[t]
  BY DEF Cobrado
<1>4. Total(Cobrado', Tarefas) + Cobrado[x] = Total(Cobrado, Tarefas) + Cobrado'[x]
  BY <1>1, <1>2, <1>3, TotalMuda
<1>5. Total(Cobrado', Tarefas) = Total(Cobrado, Tarefas) + 1
  <2>1. Cobrado[x] \in Nat
    BY <1>1
  <2> QED BY <1>1, <1>2, <1>3, <1>4, <2>1
<1> QED BY <1>1, <1>5 DEF ContaCerta

\* The tick of a window between the two reads.
LEMMA TickPerdido ==
    ASSUME CInv, ContaCerta, UNCHANGED <<criadas, timeProcessor>>,
           time' = time + 1, perdidos' = perdidos + 1,
           \A t \in Tarefas : EmCurso(t)' = EmCurso(t)
    PROVE  ContaCerta'
<1>1. Cobrado' = Cobrado
  BY DEF Cobrado
<1> QED BY <1>1, TiposCobrado DEF ContaCerta

LEMMA TickConta ==
    ASSUME CInv, CInv', ContaCerta, Relogio,
           UNCHANGED <<tarefaAtual, atual, linha, conjuntos, campos>>
    PROVE  ContaCerta'
<1>1. /\ time' = time + 1 /\ perdidos' = (IF linha = "224" THEN perdidos + 1 ELSE perdidos)
      /\ UNCHANGED <<tarefaAtual, atual, linha, criadas, timeProcessor, timeBeginProcessor>>
  BY DEF Relogio, conjuntos, campos
<1>2. /\ linha \in {"executa", "222", "224"} /\ time \in Nat
      /\ tarefaAtual \in Tarefas /\ (linha = "222" => atual \in Tarefas)
      /\ timeBeginProcessor \in [Tarefas -> Nat] /\ timeProcessor \in [Tarefas -> Nat]
  BY Nomes, QuantumAssumption DEF CInv, Tipos
<1>3. CASE linha = "224"
  <2>1. \A t \in Tarefas : EmCurso(t)' = EmCurso(t)
    BY <1>1, <1>3 DEF EmCurso
  <2> QED BY <1>1, <1>3, <2>1, TickPerdido
<1>4. CASE linha # "224"
  <2>1. PICK x \in Tarefas : x = IF linha = "222" THEN atual ELSE tarefaAtual
    BY <1>2
  <2>2. EmCurso(x) = time - timeBeginProcessor[x] /\ EmCurso(x)' = time' - timeBeginProcessor[x]
    BY <1>1, <1>2, <1>4, <2>1 DEF EmCurso
  <2>3. \A t \in Tarefas \ {x} : EmCurso(t) = 0 /\ EmCurso(t)' = 0
    BY <1>1, <1>2, <1>4, <2>1 DEF EmCurso
  <2>4. timeProcessor'[x] + EmCurso(x)' = timeProcessor[x] + EmCurso(x) + 1
    <3>1. timeProcessor[x] \in Nat /\ timeBeginProcessor[x] \in Nat
      BY <1>2
    <3> QED BY <1>1, <1>2, <2>2, <3>1
  <2> QED BY <1>1, <1>4, <2>1, <2>3, <2>4, TickCobrado
<1> QED BY <1>3, <1>4

LEMMA PreemptaConta ==
    ASSUME CInv, CInv', ContaCerta, TickPreempta
    PROVE  ContaCerta'
<1>0. PICK x \in Tarefas : x = tarefaAtual
  BY Nomes DEF CInv, Tipos
<1>1. /\ linha = "executa" /\ linha' = "executa" /\ x # Dispatcher /\ x \in criadas /\ x \in Tarefas
      /\ tarefaAtual' = Dispatcher /\ atual' = atual /\ criadas' = criadas
      /\ time' = time + 1 /\ perdidos' = perdidos
  BY <1>0, Nomes DEF TickPreempta, Relogio, CInv, Tipos
<1>2. /\ timeProcessor' = [timeProcessor EXCEPT ![x] = @ + (time' - timeBeginProcessor[x])]
      /\ timeBeginProcessor' = [timeBeginProcessor EXCEPT ![Dispatcher] = time']
  BY <1>0 DEF TickPreempta, Preempta
<1>3. /\ timeProcessor \in [Tarefas -> Nat] /\ timeBeginProcessor \in [Tarefas -> Nat]
      /\ time \in Nat /\ Dispatcher \in Tarefas
  BY Nomes, QuantumAssumption DEF CInv, Tipos
<1>4. /\ EmCurso(x) = time - timeBeginProcessor[x]
      /\ \A t \in Tarefas \ {x} : EmCurso(t) = 0
  BY <1>0, <1>1 DEF EmCurso
<1>5. \A t \in Tarefas : EmCurso(t)' = 0
  <2>1. timeBeginProcessor'[Dispatcher] = time' /\ time' - time' = 0
    BY <1>1, <1>2, <1>3
  <2> QED BY <1>1, <2>1 DEF EmCurso
<1>6. timeProcessor'[x] + EmCurso(x)' = timeProcessor[x] + EmCurso(x) + 1
  <2>1. timeProcessor'[x] = timeProcessor[x] + (time + 1 - timeBeginProcessor[x])
    BY <1>1, <1>2, <1>3
  <2>2. timeProcessor[x] \in Nat /\ timeBeginProcessor[x] \in Nat
    BY <1>1, <1>3
  <2> QED BY <1>1, <1>3, <1>4, <1>5, <2>1, <2>2
<1>7. \A t \in Tarefas \ {x} : timeProcessor'[t] = timeProcessor[t]
  BY <1>2, <1>3
<1>8. \A t \in Tarefas \ {x} : timeProcessor'[t] + EmCurso(t)' = timeProcessor[t] + EmCurso(t)
  BY <1>4, <1>5, <1>7
<1>9. \A t \in Usuarias \ criadas : timeProcessor'[t] = timeProcessor[t]
  BY <1>1, <1>7, Nomes
<1> QED BY <1>1, <1>6, <1>8, <1>9, TickCobrado

\* A task that is created has nothing to lose.
LEMMA CriaConta ==
    ASSUME CInv, CInv', ContaCerta, NEW t \in Usuarias, NEW e \in UserTasks, TaskCreate(t, e)
    PROVE  ContaCerta'
<1>1. /\ e \in Usuarias \ criadas /\ e \in Tarefas /\ criadas' = criadas \cup {e}
      /\ UNCHANGED <<time, perdidos, tarefaAtual, atual, linha>>
      /\ timeProcessor' = [timeProcessor EXCEPT ![e] = 0]
      /\ timeBeginProcessor' = [timeBeginProcessor EXCEPT ![e] = 0]
  BY Nomes DEF TaskCreate, Usuarias
<1>2. /\ timeProcessor \in [Tarefas -> Nat] /\ timeBeginProcessor \in [Tarefas -> Nat]
      /\ tarefaAtual # e /\ atual # e
  BY <1>1, Nomes DEF CInv, Tipos
<1>3. timeProcessor' = timeProcessor
  BY <1>1, <1>2 DEF ContaCerta
<1>4. \A u \in Tarefas : EmCurso(u)' = EmCurso(u)
  BY <1>1, <1>2 DEF EmCurso
<1> QED BY <1>1, <1>3, <1>4, NadaCobrado

\* The switch itself: a burst that ends is charged as it stops running.
LEMMA TrocaConta ==
    ASSUME CInv, CInv', ContaCerta,
           \/ SaiDoProcessador \/ EntraNoProcessador
           \/ \E t \in Usuarias : \/ \E para \in Tarefas : TaskYield(t, para)
                                  \/ TaskExitTroca(t) \/ Despacha(t)
    PROVE  ContaCerta'
<1>1. /\ criadas' = criadas /\ UNCHANGED <<time, perdidos>> /\ time \in Nat
      /\ timeProcessor \in [Tarefas -> Nat] /\ timeBeginProcessor \in [Tarefas -> Nat]
      /\ tarefaAtual \in Tarefas
  BY Nomes, QuantumAssumption
     DEF SaiDoProcessador, EntraNoProcessador, TaskYield, TaskExitTroca, Despacha, conjuntos, CInv, Tipos
<1>2. CASE SaiDoProcessador
  <2>1. /\ linha = "222" /\ linha' = "224" /\ atual \in Tarefas
        /\ atual \in criadas \cup {Dispatcher}
        /\ timeProcessor' = [timeProcessor EXCEPT ![atual] = @ + (time - timeBeginProcessor[atual])]
    BY <1>2, Nomes DEF SaiDoProcessador, CInv, Tipos
  <2>2. \A u \in Tarefas : EmCurso(u)' = 0
    BY <2>1 DEF EmCurso
  <2>3. \A u \in Tarefas : EmCurso(u) = IF u = atual THEN time - timeBeginProcessor[u] ELSE 0
    BY <2>1 DEF EmCurso
  <2>4. \A u \in Tarefas : timeProcessor'[u] + EmCurso(u)' = timeProcessor[u] + EmCurso(u)
    <3> SUFFICES ASSUME NEW u \in Tarefas
                 PROVE  timeProcessor'[u] + EmCurso(u)' = timeProcessor[u] + EmCurso(u)
      OBVIOUS
    <3>1. timeProcessor[u] \in Nat /\ timeBeginProcessor[u] \in Nat
      BY <1>1
    <3>2. timeProcessor'[u] = IF u = atual THEN timeProcessor[u] + (time - timeBeginProcessor[u])
                              ELSE timeProcessor[u]
      BY <1>1, <2>1
    <3> QED BY <1>1, <2>2, <2>3, <3>1, <3>2
  <2>5. \A u \in Usuarias \ criadas : timeProcessor'[u] = timeProcessor[u]
    BY <1>1, <2>1, Nomes
  <2> QED BY <1>1, <2>4, <2>5, NadaCobrado
<1>3. CASE EntraNoProcessador
  <2>1. /\ linha = "224" /\ linha' = "executa" /\ UNCHANGED <<tarefaAtual, timeProcessor>>
        /\ timeBeginProcessor' = [timeBeginProcessor EXCEPT ![tarefaAtual] = time]
    BY <1>3 DEF EntraNoProcessador
  <2>2. \A u \in Tarefas : EmCurso(u) = 0
    BY <2>1 DEF EmCurso
  <2>3. \A u \in Tarefas : EmCurso(u)' = 0
    <3>1. timeBeginProcessor'[tarefaAtual] = time /\ time - time = 0
      BY <1>1, <2>1
    <3> QED BY <1>1, <2>1, <3>1 DEF EmCurso
  <2> QED BY <1>1, <2>1, <2>2, <2>3, NadaCobrado
<1>4. CASE \E t \in Usuarias : \/ \E para \in Tarefas : TaskYield(t, para)
                               \/ TaskExitTroca(t) \/ Despacha(t)
  <2>1. /\ linha = "executa" /\ linha' = "222" /\ atual' = tarefaAtual
        /\ UNCHANGED <<timeProcessor, timeBeginProcessor>>
    BY <1>4 DEF TaskYield, TaskExitTroca, Despacha, Executa, TaskSwitch, campos
  <2>2. \A u \in Tarefas : EmCurso(u)' = EmCurso(u)
    BY <1>1, <2>1 DEF EmCurso
  <2> QED BY <1>1, <2>1, <2>2, NadaCobrado
<1> QED BY <1>2, <1>3, <1>4

LEMMA OutrosContam ==
    ASSUME CInv, ContaCerta,
           \/ \E t \in Usuarias : TaskExit(t) \/ ExitLeProcessador(t) \/ ExitLeAtivacoes(t)
           \/ DispatcherFim \/ UNCHANGED vars
    PROVE  ContaCerta'
<1>1. /\ UNCHANGED <<criadas, time, perdidos, linha, atual, tarefaAtual>>
      /\ UNCHANGED <<timeProcessor, timeBeginProcessor>>
  BY DEF TaskExit, ExitLeProcessador, ExitLeAtivacoes, DispatcherFim, vars, conjuntos, campos
<1>2. \A u \in Tarefas : EmCurso(u)' = EmCurso(u)
  BY <1>1 DEF EmCurso
<1> QED BY <1>1, <1>2, NadaCobrado

LEMMA InitConta == Init => ContaCerta
<1> SUFFICES ASSUME Init PROVE ContaCerta
  OBVIOUS
<1>1. CInv
  BY InitCInv
<1>2. \A t \in Tarefas : Cobrado[t] = 0
  BY DEF Init, Cobrado, EmCurso
<1>3. Unidades(Cobrado, Tarefas) = {}
  BY <1>2 DEF Unidades
<1>4. Total(Cobrado, Tarefas) = 0
  BY <1>3, FS_EmptySet DEF Total
<1>5. /\ time = 0 /\ perdidos = 0
      /\ \A t \in Usuarias \ criadas : timeProcessor[t] = 0
  BY Nomes DEF Init
<1> QED BY <1>4, <1>5 DEF ContaCerta

LEMMA NextConta ==
    ASSUME CInv, CInv', ContaCerta, [Next]_vars
    PROVE  ContaCerta'
<1>1. CASE TickNoDispatcher \/ TickDecrementa
  BY <1>1, TickConta DEF TickNoDispatcher, TickDecrementa
<1>2. CASE TickPreempta
  BY <1>2, PreemptaConta
<1>3. CASE SaiDoProcessador \/ EntraNoProcessador
  BY <1>3, TrocaConta
<1>4. CASE DispatcherFim \/ UNCHANGED vars
  BY <1>4, OutrosContam
<1>5. ASSUME NEW t \in Usuarias,
             \/ \E e \in UserTasks : TaskCreate(t, e)
             \/ \E para \in Tarefas : TaskYield(t, para)
             \/ TaskExit(t) \/ ExitLeProcessador(t) \/ ExitLeAtivacoes(t)
             \/ TaskExitTroca(t) \/ Despacha(t)
      PROVE  ContaCerta'
  <2>1. CASE \E e \in UserTasks : TaskCreate(t, e)
    BY <2>1, CriaConta
  <2>2. CASE (\E para \in Tarefas : TaskYield(t, para)) \/ TaskExitTroca(t) \/ Despacha(t)
    BY <2>2, TrocaConta
  <2>3. CASE TaskExit(t) \/ ExitLeProcessador(t) \/ ExitLeAtivacoes(t)
    BY <2>3, OutrosContam
  <2> QED BY <1>5, <2>1, <2>2, <2>3
<1> QED BY <1>1, <1>2, <1>3, <1>4, <1>5 DEF Next, Encerrado

\* Every tick of the clock is in the account of one task, but for those that fall
\* between the two reads of task_switch: for any number of tasks.
THEOREM TempoSempreConservado == Spec => []TempoConservado
<1>1. CInv /\ ContaCerta => TempoConservado
  BY TiposCobrado, SomaETotal DEF ContaCerta, TempoConservado
<1>2. CInv /\ ContaCerta /\ [Next]_vars /\ CInv' => ContaCerta'
  BY NextConta
<1>3. Spec => []ContaCerta
  BY <1>2, InitConta, Contas, PTL DEF Spec
<1> QED BY <1>1, <1>3, Contas, PTL

=============================================================================
