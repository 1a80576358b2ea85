----------------------------- MODULE PposProof -----------------------------
(***************************************************************************)
(* Proofs about the kernel of module Ppos, for any number of tasks, any    *)
(* priorities, any quantum.                                                *)
(***************************************************************************)
EXTENDS AplicacaoInv, Contagem, FiniteSetTheorems, WellFoundedInduction, SequenceTheorems, TLAPS

-----------------------------------------------------------------------------
\* Sequences without repetition, the abstract rings.

\* queue_append at the sequence level: the new element is last.
LEMMA AppendProps ==
    ASSUME NEW S, NEW s \in Seq(S), NEW e \in S
    PROVE  /\ Append(s, e) \in Seq(S)
           /\ Len(Append(s, e)) = Len(s) + 1
           /\ \A i \in 1..Len(s) : Append(s, e)[i] = s[i]
           /\ Append(s, e)[Len(s) + 1] = e
           /\ ToSet(Append(s, e)) = ToSet(s) \cup {e}
           /\ SemRepetir(s) /\ e \notin ToSet(s) => SemRepetir(Append(s, e))
<1> DEFINE r == Append(s, e)
<1>1. /\ r \in Seq(S) /\ Len(r) = Len(s) + 1 /\ Len(s) \in Nat
      /\ \A i \in 1..Len(s) : r[i] = s[i]
      /\ r[Len(s) + 1] = e
  OBVIOUS
<1> HIDE DEF r
<1>2. DOMAIN s = 1..Len(s) /\ DOMAIN r = 1..Len(r)
  BY <1>1
<1>3. ToSet(r) = ToSet(s) \cup {e}
  <2>1. ASSUME NEW x \in ToSet(s) \cup {e} PROVE x \in ToSet(r)
    BY <1>1, <1>2 DEF ToSet
  <2>2. ASSUME NEW x \in ToSet(r) PROVE x \in ToSet(s) \cup {e}
    BY <1>1, <1>2 DEF ToSet
  <2> QED BY <2>1, <2>2
<1>4. SemRepetir(s) /\ e \notin ToSet(s) => SemRepetir(r)
  BY <1>1, <1>2 DEF ToSet, SemRepetir
<1> QED BY <1>1, <1>3, <1>4 DEF r

\* queue_remove at the sequence level, for an element that is in the queue:
\* it alone disappears.
LEMMA RetiraProps ==
    ASSUME NEW S, NEW s \in Seq(S), SemRepetir(s), NEW e \in ToSet(s)
    PROVE  /\ Retira(s, e) \in Seq(S)
           /\ Len(Retira(s, e)) = Len(s) - 1
           /\ ToSet(Retira(s, e)) = ToSet(s) \ {e}
           /\ SemRepetir(Retira(s, e))
<1>1. PICK k \in 1..Len(s) : s[k] = e
  BY DEF ToSet
<1>2. Retira(s, e) = RemoveAt(s, k)
  BY <1>1 DEF Retira, SemRepetir
<1> DEFINE a == SubSeq(s, 1, k - 1)
           b == SubSeq(s, k + 1, Len(s))
           r == a \o b
<1>3. Len(s) \in Nat /\ k \in Int /\ \A i \in 1..Len(s) : s[i] \in S
  OBVIOUS
<1>4. a \in Seq(S) /\ Len(a) = k - 1 /\ \A i \in 1..(k - 1) : a[i] = s[i]
  BY <1>3
<1>5. b \in Seq(S) /\ Len(b) = Len(s) - k /\ \A i \in 1..(Len(s) - k) : b[i] = s[k + i]
  BY <1>3
<1> HIDE DEF a, b
<1>6. /\ r \in Seq(S) /\ Len(r) = Len(s) - 1
      /\ \A i \in 1..(Len(s) - 1) : r[i] = IF i < k THEN s[i] ELSE s[i + 1]
  <2>1. /\ r \in Seq(S) /\ Len(r) = Len(a) + Len(b)
        /\ \A i \in 1..(Len(a) + Len(b)) : r[i] = IF i <= Len(a) THEN a[i] ELSE b[i - Len(a)]
    BY <1>4, <1>5, ConcatProperties
  <2>2. ASSUME NEW i \in 1..(Len(s) - 1)
        PROVE  r[i] = IF i < k THEN s[i] ELSE s[i + 1]
    <3>1. CASE i < k
      BY <2>1, <1>4, <1>5, <1>3, <3>1
    <3>2. CASE ~(i < k)
      <4>1. r[i] = b[i - (k - 1)] /\ i - (k - 1) \in 1..(Len(s) - k)
        BY <2>1, <1>4, <1>5, <1>3, <3>2
      <4>2. k + (i - (k - 1)) = i + 1
        BY <1>3
      <4> QED BY <4>1, <4>2, <1>5, <3>2
    <3> QED BY <3>1, <3>2
  <2>3. Len(r) = Len(s) - 1
    BY <2>1, <1>3, <1>4, <1>5
  <2> QED BY <2>1, <2>2, <2>3
<1>7. r = Retira(s, e)
  BY <1>2 DEF RemoveAt, a, b
<1> HIDE DEF r
<1>8. ToSet(r) = ToSet(s) \ {e}
  <2>1. ASSUME NEW x \in ToSet(r) PROVE x \in ToSet(s) \ {e}
    BY <1>6, <1>3, <1>1, <2>1 DEF ToSet, SemRepetir
  <2>2. ASSUME NEW x \in ToSet(s) \ {e} PROVE x \in ToSet(r)
    <3>1. PICK i \in 1..Len(s) : s[i] = x
      BY DEF ToSet
    <3>2. CASE i < k
      BY <3>1, <3>2, <1>6, <1>3 DEF ToSet
    <3>3. CASE i > k
      <4>1. r[i - 1] = s[i] /\ i - 1 \in 1..Len(r)
        BY <3>3, <1>6, <1>3
      <4> QED BY <4>1, <3>1, <1>6 DEF ToSet
    <3> QED BY <3>1, <3>2, <3>3, <1>1, <1>3
  <2> QED BY <2>1, <2>2
<1>9. SemRepetir(r)
  BY <1>6, <1>3 DEF SemRepetir
<1> QED BY <1>6, <1>7, <1>8, <1>9

-----------------------------------------------------------------------------
\* The scheduler always finds its first minimum: the sets of positions that
\* beat each position are finite, and a position with the smallest set wins.

LEMMA VencedorExiste ==
    ASSUME filaProntas \in Seq(Usuarias), filaProntas # <<>>,
           PrioEnvelhecida \in [Tarefas -> Int]
    PROVE  \E k \in 1..Len(filaProntas) : Vence(k)
<1> DEFINE n == Len(filaProntas)
           p(i) == PrioEnvelhecida[filaProntas[i]]
           Antes(j, i) == p(j) < p(i) \/ (p(j) = p(i) /\ j < i)
           D(i) == {j \in 1..n : Antes(j, i)}
           T == {D(i) : i \in 1..n}
<1>1. n \in Nat \ {0} /\ \A i \in 1..n : p(i) \in Int
  BY DEF Tarefas
<1>2. IsFiniteSet(1..n)
  BY <1>1, FS_Interval
<1>3. \A i \in 1..n : D(i) \in FiniteSubsetsOf(1..n)
  <2>1. ASSUME NEW i \in 1..n PROVE IsFiniteSet(D(i)) /\ D(i) \subseteq 1..n
    BY <1>2, FS_Subset
  <2> HIDE DEF D
  <2> QED BY <2>1 DEF FiniteSubsetsOf
<1> HIDE DEF D
<1>4. T \subseteq FiniteSubsetsOf(1..n) /\ T # {}
  BY <1>3, <1>1
<1>5. PICK k \in 1..n : \A i \in 1..n : ~ (<<D(i), D(k)>> \in StrictSubsetOrdering(1..n))
  <2>1. \E x \in T : \A y \in T : ~ (<<y, x>> \in StrictSubsetOrdering(1..n))
    <3> HIDE DEF T
    <3> QED BY <1>4, FS_StrictSubsetOrderingWellFounded, WFMin
  <2> QED BY <2>1
<1>6. ASSUME NEW j \in 1..n, Antes(j, k) PROVE FALSE
  <2>1. D(j) \subseteq D(k) /\ D(k) \subseteq 1..n
    BY <1>1, <1>6 DEF D
  <2>2. j \in D(k) /\ j \notin D(j)
    BY <1>1, <1>6 DEF D
  <2>3. <<D(j), D(k)>> \in StrictSubsetOrdering(1..n)
    BY <2>1, <2>2 DEF StrictSubsetOrdering
  <2> QED BY <2>3, <1>5
<1>7. \A j \in 1..n : p(k) < p(j) \/ (p(k) = p(j) /\ k <= j)
  BY <1>6, <1>1
<1> QED BY <1>7 DEF Vence

LEMMA EscolhidaNaFila ==
    ASSUME filaProntas \in Seq(Usuarias), filaProntas # <<>>,
           PrioEnvelhecida \in [Tarefas -> Int]
    PROVE  Escolhida \in ToSet(filaProntas) /\ Escolhida \in Usuarias
<1> DEFINE k == CHOOSE i \in 1..Len(filaProntas) : Vence(i)
<1>1. k \in 1..Len(filaProntas)
  BY VencedorExiste
<1>2. Escolhida = filaProntas[k]
  BY DEF Escolhida
<1> HIDE DEF k
<1> QED BY <1>1, <1>2 DEF ToSet

-----------------------------------------------------------------------------
\* The live tasks, in each phase.

LEMMA ToSetFilaTarefas ==
    ASSUME NEW p
    PROVE  /\ ToSet(<<Dispatcher>>) = {Dispatcher}
           /\ ToSet(<<Dispatcher, p>>) = {Dispatcher, p}
<1>1. DOMAIN <<Dispatcher>> = {1} /\ DOMAIN <<Dispatcher, p>> = {1, 2}
  OBVIOUS
<1> QED BY <1>1 DEF ToSet

LEMMA AppendDespachada ==
    ASSUME NEW p
    PROVE  Append(<<Dispatcher>>, p) = <<Dispatcher, p>>
<1> DEFINE S == {Dispatcher, p}
           a == Append(<<Dispatcher>>, p)
           s == <<Dispatcher, p>>
<1>1. <<Dispatcher>> \in Seq(S) /\ Len(<<Dispatcher>>) = 1 /\ p \in S
  OBVIOUS
<1>2. a \in Seq(S) /\ Len(a) = 2 /\ a[1] = Dispatcher /\ a[2] = p
  BY <1>1, AppendProps
<1>3. s \in Seq(S) /\ Len(s) = 2 /\ s[1] = Dispatcher /\ s[2] = p
  OBVIOUS
<1> HIDE DEF a, s, S
<1>4. \A i \in 1..Len(a) : a[i] = s[i]
  BY <1>2, <1>3
<1>5. a = s
  BY <1>2, <1>3, <1>4, SeqEqual
<1> QED BY <1>5 DEF a, s

LEMMA RetiraDespachada ==
    ASSUME NEW p, p # Dispatcher
    PROVE  Retira(<<Dispatcher, p>>, p) = <<Dispatcher>>
<1> DEFINE S == {Dispatcher, p}
           s == <<Dispatcher, p>>
           r == Retira(s, p)
<1>1. s \in Seq(S) /\ SemRepetir(s) /\ Len(s) = 2
  BY DEF SemRepetir
<1>2. ToSet(s) = S /\ p \in ToSet(s) /\ ToSet(s) \ {p} = {Dispatcher}
  BY ToSetFilaTarefas
<1> HIDE DEF s, S
<1>3. r \in Seq(S) /\ Len(r) = Len(s) - 1 /\ ToSet(r) = ToSet(s) \ {p}
  BY <1>1, <1>2, RetiraProps
<1> HIDE DEF r
<1>4. Len(r) = 1 /\ ToSet(r) = {Dispatcher}
  BY <1>1, <1>2, <1>3
<1>5. r[1] = Dispatcher
  BY <1>3, <1>4 DEF ToSet
<1>6. r = <<Dispatcher>>
  BY <1>3, <1>4, <1>5
<1> QED BY <1>6 DEF r, s

LEMMA VivasNasFases ==
    ASSUME TypeOK
    PROVE  /\ Dispatcher \notin ToSet(filaProntas) /\ ToSet(filaProntas) \subseteq Usuarias
           /\ filaTarefas = <<Dispatcher>> => Vivas = ToSet(filaProntas)
           /\ Despachada => Vivas = ToSet(filaProntas) \cup {tarefaPrevia}
<1>1. ToSet(filaProntas) \subseteq Usuarias /\ Dispatcher \notin Usuarias
  <2>1. filaProntas \in Seq(Usuarias)
    BY DEF TypeOK
  <2>2. \A i \in DOMAIN filaProntas : filaProntas[i] \in Usuarias
    BY <2>1
  <2> QED BY <2>2, NomesAssumption DEF ToSet
<1>2. filaTarefas = <<Dispatcher>> => Vivas = ToSet(filaProntas)
  BY <1>1, ToSetFilaTarefas DEF Vivas
<1>3. Despachada => Vivas = ToSet(filaProntas) \cup {tarefaPrevia}
  <2>1. ToSet(<<Dispatcher, tarefaPrevia>>) = {Dispatcher, tarefaPrevia}
    BY ToSetFilaTarefas
  <2> QED BY <1>1, <2>1 DEF Vivas, Despachada
<1> QED BY <1>1, <1>2, <1>3

LEMMA VivasUsuarias ==
    ASSUME TypeOK
    PROVE  Vivas \subseteq Usuarias
<1>1. filaProntas \in Seq(Usuarias) /\ filaTarefas \in Seq(Tarefas)
  BY DEF TypeOK
<1>2. /\ \A i \in DOMAIN filaProntas : filaProntas[i] \in Usuarias
      /\ \A i \in DOMAIN filaTarefas : filaTarefas[i] \in Tarefas
  BY <1>1
<1> QED BY <1>2 DEF Vivas, ToSet, Tarefas

-----------------------------------------------------------------------------
\* Every step preserves the invariant.  In the first group of actions a user
\* task runs and no queue changes.

LEMMA UsuarioNaCpu ==
    ASSUME IInv, NEW t \in Usuarias, NEW l, l # "boot", Em(t, l)
    PROVE  FaseUsuario /\ cpu = t /\ t \in Vivas /\ t = tarefaPrevia
<1>1. cpu = t /\ pc[t] # "boot" /\ t # Dispatcher
  BY NomesAssumption DEF Em
<1>2. FaseUsuario
  BY <1>1 DEF IInv, Fases, FaseBoot, FaseLaco, FaseJanela, FaseRetorno
<1>3. t \in Vivas
  BY <1>1, <1>2, VivasNasFases DEF IInv, FaseUsuario
<1> QED BY <1>1, <1>2, <1>3 DEF FaseUsuario

LEMMA VivasIguais == UNCHANGED filas => Vivas' = Vivas
  BY DEF filas, Vivas

\* Elementary facts about the names.
LEMMA Nomes ==
    /\ Usuarias \subseteq Tarefas /\ UserTasks \subseteq Usuarias
    /\ Main \in Usuarias /\ Main \in Tarefas /\ Dispatcher \in Tarefas
    /\ Dispatcher \notin Usuarias /\ NULL \notin Usuarias /\ Main \notin UserTasks
  BY NomesAssumption DEF Usuarias, Tarefas

\* A step of the task t inside a kernel call, or entering or leaving one: it
\* moves to m with locals a and r and writes no more than a counter or a
\* priority.
PassoNaChamada(t, m, a, r) ==
    /\ pc[t] # "boot" /\ pc[t] # "troca" /\ Em(t, pc[t])
    /\ m \in LugaresUsuario \ {"boot", "publica", "troca"}
    /\ a \in Usuarias \cup {NULL} /\ r \in Int
    /\ m \in Criando => a \in UserTasks
    /\ m \in AntesDePublicar =>
          a \notin Vivas /\ \A u \in Usuarias : pc[u] \in AntesDePublicar /\ alvo[u] = a => u = t
    /\ m \in {"gravaDin", "gravaEst"} => r \in Prios
    /\ pc' = [pc EXCEPT ![t] = m]
    /\ alvo' = [alvo EXCEPT ![t] = a]
    /\ reg' = [reg EXCEPT ![t] = r]
    /\ maiorId' \in Int /\ taskCont' \in Int
    /\ prioEstatica' \in [Tarefas -> Prios] /\ prioDinamica' \in [Tarefas -> Int]
    /\ UNCHANGED <<filaProntas, filaTarefas, tarefaAtual, tarefaPrevia, quantum, id>>
    /\ UNCHANGED <<status, contexto, pilhas, cpu, janela, cortes, saida>>

LEMMA PassoPreserva ==
    ASSUME IInv, NEW t \in Usuarias, NEW m, NEW a, NEW r, PassoNaChamada(t, m, a, r)
    PROVE  IInv'
<1>1. FaseUsuario /\ cpu = t /\ t \in Vivas /\ t = tarefaPrevia
  BY UsuarioNaCpu DEF PassoNaChamada
<1>2. Vivas' = Vivas
  BY DEF PassoNaChamada, Vivas
<1>3. TypeOK /\ TypeOK'
  BY DEF IInv, TypeOK, PassoNaChamada
<1>4. \A x \in Tarefas :
         /\ pc'[x] = IF x = t THEN m ELSE pc[x]
         /\ alvo'[x] = IF x = t THEN a ELSE alvo[x]
         /\ reg'[x] = IF x = t THEN r ELSE reg[x]
  BY <1>3 DEF TypeOK, PassoNaChamada
<1>5. FaseUsuario'
  BY <1>1, <1>4, Nomes DEF FaseUsuario, Despachada, PassoNaChamada
<1>6. Codigo'
  BY <1>1, <1>2, <1>4, Nomes DEF IInv, Codigo, PassoNaChamada
<1>7. Prontas' /\ Contextos'
  BY <1>2 DEF IInv, Prontas, Contextos, PassoNaChamada
<1>8. Chamadas'
  BY <1>2, <1>4, Nomes DEF IInv, Chamadas, DentroDaChamada, PassoNaChamada
<1>9. AlvosDistintos'
  BY <1>4, Nomes DEF IInv, AlvosDistintos, PassoNaChamada
<1>10. Relogio'
  BY <1>1, <1>5, Nomes DEF IInv, Relogio, FaseUsuario, FaseBoot, FaseJanela, PassoNaChamada
<1> QED BY <1>3, <1>5, <1>6, <1>7, <1>8, <1>9, <1>10 DEF IInv, Fases

\* The places of a user's code, for the leaves that only need their names.
LEMMA Lugares ==
    /\ {"livre", "gravaId", "inicia", "publica", "leCont", "gravaCont", "gravaDin",
        "gravaEst", "troca"} \subseteq LugaresUsuario
    /\ Criando = {"gravaId", "inicia", "publica", "leCont", "gravaCont"}
  BY DEF LugaresUsuario, Criando, LugaresId, LugaresCont

LEMMA Prioridades == Prios \subseteq Int /\ 0 \in Prios
  BY PriosAssumption

LEMMA Locais ==
    ASSUME TypeOK, NEW t \in Usuarias
    PROVE  /\ alvo[t] \in Usuarias \cup {NULL} /\ reg[t] \in Int
           /\ alvo = [alvo EXCEPT ![t] = alvo[t]] /\ reg = [reg EXCEPT ![t] = reg[t]]
  BY Nomes DEF TypeOK

LEMMA CriaLeIdPreserva ==
    ASSUME IInv, NEW t \in Usuarias, NEW e \in UserTasks, CriaLeId(t, e)
    PROVE  IInv'
<1>1. PassoNaChamada(t, "gravaId", e, maiorId)
  BY Nomes, Lugares
     DEF IInv, TypeOK, CriaLeId, Em, Vai, PassoNaChamada, AntesDePublicar, filas, globais, tcb
<1> QED BY <1>1, PassoPreserva

LEMMA CriaGravaIdPreserva ==
    ASSUME IInv, NEW t \in Usuarias, CriaGravaId(t)
    PROVE  IInv'
<1>1. alvo[t] \in UserTasks /\ reg[t] + 1 \in Int
  BY Nomes, Lugares, Locais DEF IInv, Chamadas, DentroDaChamada, CriaGravaId, Em
<1>2. /\ alvo[t] \notin Vivas
      /\ \A u \in Usuarias : pc[u] \in AntesDePublicar /\ alvo[u] = alvo[t] => u = t
  BY DEF IInv, Chamadas, DentroDaChamada, CriaGravaId, Em, AlvosDistintos, AntesDePublicar
<1>3. PassoNaChamada(t, "inicia", alvo[t], reg[t])
  BY <1>1, <1>2, Locais, Nomes, Lugares
     DEF IInv, TypeOK, CriaGravaId, Em, Vai, PassoNaChamada, filas, tcb
<1> QED BY <1>3, PassoPreserva

LEMMA CriaLeContPreserva ==
    ASSUME IInv, NEW t \in Usuarias, CriaLeCont(t)
    PROVE  IInv'
<1>1. alvo[t] \in UserTasks
  BY Lugares DEF IInv, Chamadas, DentroDaChamada, CriaLeCont, Em
<1>2. PassoNaChamada(t, "gravaCont", alvo[t], taskCont)
  BY <1>1, Locais, Nomes, Lugares
     DEF IInv, TypeOK, CriaLeCont, Em, Vai, PassoNaChamada, AntesDePublicar, filas, globais, tcb
<1> QED BY <1>2, PassoPreserva

LEMMA CriaGravaContPreserva ==
    ASSUME IInv, NEW t \in Usuarias, CriaGravaCont(t)
    PROVE  IInv'
<1>1. reg[t] + 1 \in Int
  BY Locais DEF IInv
<1>2. PassoNaChamada(t, "gravaDin", alvo[t], 0)
  BY <1>1, Locais, Nomes, Lugares, Prioridades
     DEF IInv, TypeOK, CriaGravaCont, Em, Vai, PassoNaChamada, AntesDePublicar, filas, tcb
<1> QED BY <1>2, PassoPreserva

LEMMA SetprioPreserva ==
    ASSUME IInv, NEW t \in Usuarias, NEW u \in Usuarias, NEW prio \in Prios, Setprio(t, u, prio)
    PROVE  IInv'
<1>1. PassoNaChamada(t, "gravaDin", u, prio)
  BY Nomes, Lugares, Prioridades
     DEF IInv, TypeOK, Setprio, Em, Vai, PassoNaChamada, AntesDePublicar, filas, globais, tcb
<1> QED BY <1>1, PassoPreserva

LEMMA GravaPrioDinamicaPreserva ==
    ASSUME IInv, NEW t \in Usuarias, GravaPrioDinamica(t)
    PROVE  IInv'
<1>1. reg[t] \in Prios /\ reg[t] \in Int
  BY Prioridades DEF IInv, Chamadas, DentroDaChamada, GravaPrioDinamica, Em
<1>2. PassoNaChamada(t, "gravaEst", alvo[t], reg[t])
  BY <1>1, Locais, Nomes, Lugares
     DEF IInv, TypeOK, GravaPrioDinamica, Em, Vai, PassoNaChamada, AntesDePublicar, filas, globais
<1> QED BY <1>2, PassoPreserva

LEMMA GravaPrioEstaticaPreserva ==
    ASSUME IInv, NEW t \in Usuarias, GravaPrioEstatica(t)
    PROVE  IInv'
<1>1. reg[t] \in Prios
  BY DEF IInv, Chamadas, DentroDaChamada, GravaPrioEstatica, Em
<1>2. prioEstatica' \in [Tarefas -> Prios]
  BY <1>1 DEF IInv, TypeOK, GravaPrioEstatica
<1>3. /\ pc' = [pc EXCEPT ![t] = "livre"]
      /\ alvo' = [alvo EXCEPT ![t] = NULL]
      /\ reg' = [reg EXCEPT ![t] = 0]
      /\ pc[t] # "boot" /\ pc[t] # "troca" /\ Em(t, pc[t])
  BY DEF GravaPrioEstatica, Em, Vai
<1>4. /\ maiorId' \in Int /\ taskCont' \in Int /\ prioDinamica' \in [Tarefas -> Int]
      /\ UNCHANGED <<filaProntas, filaTarefas, tarefaAtual, tarefaPrevia, quantum, id>>
      /\ UNCHANGED <<status, contexto, pilhas, cpu, janela, cortes, saida>>
  BY DEF IInv, TypeOK, GravaPrioEstatica, filas, globais
<1>5. /\ "livre" \in LugaresUsuario \ {"boot", "publica", "troca"}
      /\ "livre" \notin Criando /\ "livre" \notin AntesDePublicar
  BY Lugares DEF AntesDePublicar
<1>6. PassoNaChamada(t, "livre", NULL, 0)
  BY <1>2, <1>3, <1>4, <1>5 DEF PassoNaChamada
<1> QED BY <1>6, PassoPreserva

\* task_create writes the new descriptor: no live task uses it.
LEMMA CriaIniciaPreserva ==
    ASSUME IInv, NEW t \in Usuarias, CriaInicia(t)
    PROVE  IInv'
<1> DEFINE e == alvo[t]
<1>1. FaseUsuario /\ cpu = t /\ t \in Vivas /\ t = tarefaPrevia
  BY UsuarioNaCpu DEF CriaInicia
<1>2. Vivas' = Vivas
  BY VivasIguais DEF CriaInicia
<1>3. /\ pc[t] = "inicia" /\ e \in UserTasks /\ e \in Tarefas /\ e \notin Vivas /\ e # t
      /\ e # Main /\ e # Dispatcher
      /\ \A u \in Usuarias : pc[u] \in AntesDePublicar /\ alvo[u] = e => u = t
      /\ pc[e] \in {"livre", "troca"}
  BY <1>1, Lugares, Nomes
     DEF IInv, Codigo, Chamadas, DentroDaChamada, CriaInicia, Em, AlvosDistintos, AntesDePublicar
<1>4. TypeOK /\ TypeOK'
  BY <1>3, Lugares, Nomes DEF IInv, TypeOK, CriaInicia, filas, globais
<1>5. \A x \in Tarefas :
         /\ pc'[x] = IF x = e THEN "livre" ELSE IF x = t THEN "publica" ELSE pc[x]
         /\ status'[x] = IF x = e THEN PRONTA ELSE status[x]
         /\ contexto'[x] = IF x = e THEN e ELSE contexto[x]
         /\ x # e => id'[x] = id[x]
  BY <1>3, <1>4 DEF TypeOK, CriaInicia
<1>6. /\ UNCHANGED <<filaProntas, filaTarefas, tarefaAtual, tarefaPrevia, cpu, quantum, janela>>
      /\ UNCHANGED <<alvo, reg>> /\ pilhas' = pilhas \cup {e}
  BY DEF CriaInicia, filas, globais
<1> HIDE DEF e
<1>7. FaseUsuario'
  BY <1>1, <1>3, <1>5, <1>6, Nomes DEF FaseUsuario, Despachada
<1>8. Codigo'
  BY <1>1, <1>2, <1>3, <1>5, Nomes, Lugares DEF IInv, Codigo
<1>9. Prontas'
  <2>1. ToSet(filaProntas) \subseteq Vivas /\ ToSet(filaProntas) \subseteq Tarefas
    BY <1>1, VivasNasFases, Nomes DEF IInv, FaseUsuario
  <2> QED BY <2>1, <1>3, <1>5, <1>6 DEF IInv, Prontas
<1>10. Contextos'
  BY <1>2, <1>3, <1>4, <1>5, <1>6, VivasUsuarias, Nomes DEF IInv, Contextos
<1>11. Chamadas'
  BY <1>1, <1>2, <1>3, <1>5, <1>6, Nomes, Lugares
     DEF IInv, Chamadas, DentroDaChamada, AntesDePublicar, e
<1>12. AlvosDistintos'
  BY <1>3, <1>5, <1>6, Nomes DEF IInv, AlvosDistintos, AntesDePublicar
<1>13. Relogio'
  BY <1>3, <1>5, <1>6, <1>7, Nomes DEF IInv, Relogio, FaseUsuario, FaseBoot, FaseJanela
<1> QED BY <1>4, <1>7, <1>8, <1>9, <1>10, <1>11, <1>12, <1>13 DEF IInv, Fases

\* The new task enters the ready queue with a stack and a context of its own.
LEMMA CriaPublicaPreserva ==
    ASSUME IInv, NEW t \in Usuarias, CriaPublica(t)
    PROVE  IInv'
<1> DEFINE e == alvo[t]
<1>1. FaseUsuario /\ cpu = t /\ t \in Vivas /\ t = tarefaPrevia
  BY UsuarioNaCpu DEF CriaPublica
<1>2. /\ pc[t] = "publica" /\ e \in Usuarias /\ e \in Tarefas /\ e \notin Vivas
      /\ e \in UserTasks /\ e \in pilhas /\ contexto[e] = e /\ status[e] = PRONTA
      /\ \A u \in Usuarias : pc[u] \in AntesDePublicar /\ alvo[u] = e => u = t
  BY Lugares, Nomes DEF IInv, Chamadas, DentroDaChamada, CriaPublica, Em, AlvosDistintos, AntesDePublicar
<1>3. /\ UNCHANGED <<filaTarefas, tarefaAtual, tarefaPrevia, maiorId, taskCont, quantum>>
      /\ UNCHANGED <<id, status, prioEstatica, prioDinamica, contexto, pilhas, cpu>>
      /\ UNCHANGED <<alvo, reg, janela, cortes, saida>>
      /\ filaProntas' = Append(filaProntas, e)
      /\ pc' = [pc EXCEPT ![t] = "leCont"]
  BY DEF CriaPublica, Vai, globais, tcb
<1> HIDE DEF e
<1>4. TypeOK /\ filaProntas \in Seq(Usuarias)
  BY DEF IInv, TypeOK
<1>5. TypeOK'
  BY <1>2, <1>3, <1>4, AppendProps, Lugares DEF TypeOK
<1>6. /\ ToSet(filaProntas') = ToSet(filaProntas) \cup {e}
      /\ ToSet(filaProntas) \subseteq Vivas
  BY <1>1, <1>2, <1>3, <1>4, AppendProps, VivasNasFases DEF FaseUsuario
<1>7. Vivas' = Vivas \cup {e}
  BY <1>2, <1>3, <1>6, Nomes DEF Vivas
<1>8. \A x \in Tarefas : pc'[x] = IF x = t THEN "leCont" ELSE pc[x]
  BY <1>3, <1>4 DEF TypeOK
<1>9. FaseUsuario'
  <2>1. tarefaPrevia \notin ToSet(filaProntas')
    BY <1>1, <1>2, <1>6 DEF FaseUsuario, Despachada
  <2>2. pc'[Main] # "boot" /\ pc'[Dispatcher] = "retorno" /\ pc'[t] = "leCont" /\ status[t] = PRONTA
    BY <1>1, <1>2, <1>8, Nomes DEF FaseUsuario, Despachada
  <2> QED BY <2>1, <2>2, <1>1, <1>3, Nomes DEF FaseUsuario, Despachada
<1>10. Codigo'
  BY <1>1, <1>7, <1>8, Nomes, Lugares DEF IInv, Codigo
<1>11. Prontas'
  <2>1. SemRepetir(filaProntas')
    BY <1>2, <1>3, <1>4, <1>6, AppendProps DEF IInv, Prontas
  <2> QED BY <2>1, <1>2, <1>3, <1>6 DEF IInv, Prontas
<1>12. Contextos'
  BY <1>2, <1>3, <1>7 DEF IInv, Contextos
<1>13. Chamadas'
  BY <1>2, <1>3, <1>7, <1>8, Nomes, Lugares DEF IInv, Chamadas, DentroDaChamada, AntesDePublicar
<1>14. AlvosDistintos'
  BY <1>3, <1>8, Nomes DEF IInv, AlvosDistintos, AntesDePublicar
<1>15. Relogio'
  BY <1>1, <1>3, <1>8, <1>9, Nomes DEF IInv, Relogio, FaseUsuario, FaseBoot, FaseJanela
<1> QED BY <1>5, <1>9, <1>10, <1>11, <1>12, <1>13, <1>14, <1>15 DEF IInv, Fases

\* task_yield and task_exit set the status of the running task, which is then
\* on its way to the dispatcher.
LEMMA MudaStatusPreserva ==
    ASSUME IInv, NEW t \in Usuarias, TaskYield(t) \/ TaskExit(t)
    PROVE  IInv'
<1>1. FaseUsuario /\ cpu = t /\ t \in Vivas /\ t = tarefaPrevia /\ tarefaAtual = t
  BY UsuarioNaCpu DEF TaskYield, TaskExit, FaseUsuario
<1>2. Vivas' = Vivas
  BY VivasIguais DEF TaskYield, TaskExit
<1>3. /\ pc[t] = "livre" /\ pc' = [pc EXCEPT ![t] = "troca"]
      /\ \/ status' = [status EXCEPT ![t] = PRONTA]
         \/ status' = [status EXCEPT ![t] = TERMINADA]
      /\ UNCHANGED <<filaProntas, filaTarefas, tarefaAtual, tarefaPrevia, maiorId, taskCont>>
      /\ UNCHANGED <<quantum, id, prioEstatica, prioDinamica, contexto, pilhas, cpu>>
      /\ UNCHANGED <<alvo, reg, janela, cortes, saida>>
  BY <1>1 DEF TaskYield, TaskExit, Em, Vai, filas, globais
<1>4. TypeOK /\ TypeOK'
  BY <1>3, Lugares DEF IInv, TypeOK
<1>5. \A x \in Tarefas :
         /\ pc'[x] = IF x = t THEN "troca" ELSE pc[x]
         /\ x # t => status'[x] = status[x]
  BY <1>3, <1>4 DEF TypeOK
<1>6. FaseUsuario'
  <2>1. pc'[Main] # "boot" /\ pc'[Dispatcher] = "retorno" /\ pc'[t] = "troca"
    BY <1>1, <1>5, Nomes DEF FaseUsuario, Despachada
  <2> QED BY <2>1, <1>1, <1>3 DEF FaseUsuario, Despachada
<1>7. Codigo'
  BY <1>1, <1>2, <1>5, Nomes, Lugares DEF IInv, Codigo
<1>8. Prontas'
  <2>1. t \notin ToSet(filaProntas) /\ ToSet(filaProntas) \subseteq Tarefas
    BY <1>1, <1>4, VivasNasFases, Nomes DEF FaseUsuario, Despachada
  <2> QED BY <2>1, <1>3, <1>5 DEF IInv, Prontas
<1>9. Contextos'
  BY <1>2, <1>3 DEF IInv, Contextos
<1>10. Chamadas'
  <2>1. \A u \in Usuarias : pc[u] \in AntesDePublicar => alvo[u] # t
    BY <1>1 DEF IInv, Chamadas, DentroDaChamada
  <2> QED BY <2>1, <1>2, <1>3, <1>5, Nomes, Lugares DEF IInv, Chamadas, DentroDaChamada, AntesDePublicar
<1>11. AlvosDistintos'
  BY <1>3, <1>5, Nomes DEF IInv, AlvosDistintos, AntesDePublicar
<1>12. Relogio'
  BY <1>1, <1>3, <1>5, <1>6, Nomes DEF IInv, Relogio, FaseUsuario, FaseBoot, FaseJanela
<1> QED BY <1>4, <1>6, <1>7, <1>8, <1>9, <1>10, <1>11, <1>12 DEF IInv, Fases

\* A user task leaves the processor to the dispatcher, by its own task_switch
\* or by preemption; the dispatcher resumes where it stopped.
LEMMA SaiDaCpu ==
    ASSUME IInv, FaseUsuario, TrocaParaDispatcher,
           \/ pc' = pc
           \/ pc[cpu] = "troca" /\ pc' = [pc EXCEPT ![cpu] = "livre"],
           cortes' \subseteq {"id", "cont"},
           UNCHANGED <<filaProntas, filaTarefas, tarefaPrevia, maiorId, taskCont, id>>,
           UNCHANGED <<status, prioEstatica, prioDinamica, pilhas, alvo, reg, saida>>
    PROVE  IInv'
<1>1. /\ cpu = tarefaPrevia /\ cpu = tarefaAtual /\ cpu \in Usuarias /\ cpu \in Vivas /\ cpu \in Tarefas
      /\ contexto[cpu] = cpu /\ contexto[Dispatcher] = Dispatcher
  BY VivasNasFases, Nomes DEF IInv, FaseUsuario, Despachada, Contextos
<1>2. Vivas' = Vivas
  BY DEF Vivas
<1>3. /\ tarefaAtual' = Dispatcher /\ quantum' = QUANTUM_VAL /\ cpu' = Dispatcher /\ janela' = 0
      /\ contexto' = [contexto EXCEPT ![cpu] = cpu]
  BY <1>1 DEF TrocaParaDispatcher, RenovaQuantum
<1>4. TypeOK /\ TypeOK'
  <2>1. quantum' \in 1..QUANTUM_VAL /\ janela' \in 0..TicksJanela
    BY <1>3, QuantumAssumption
  <2>2. pc' \in [Tarefas -> LugaresUsuario \cup LugaresDispatcher]
    BY Lugares DEF IInv, TypeOK
  <2>3. contexto' \in [Tarefas -> Tarefas \cup {NULL}]
    BY <1>1, <1>3 DEF IInv, TypeOK
  <2> QED BY <2>1, <2>2, <2>3, <1>3, Nomes DEF IInv, TypeOK
<1>5. /\ contexto' = contexto
      /\ \A x \in Tarefas : \/ pc'[x] = pc[x]
                            \/ x = cpu /\ pc[x] = "troca" /\ pc'[x] = "livre"
  BY <1>1, <1>3, <1>4 DEF TypeOK
<1>6. FaseRetorno'
  <2>1. status[cpu] = TERMINADA => pc'[cpu] \in {"livre", "troca"}
    BY <1>1, <1>5 DEF FaseUsuario, PRONTA, TERMINADA
  <2>2. pc'[Main] # "boot" /\ pc'[Dispatcher] = "retorno"
    BY <1>1, <1>5, Nomes DEF FaseUsuario, Despachada
  <2> QED BY <2>1, <2>2, <1>1, <1>3 DEF FaseUsuario, FaseRetorno, Despachada
<1>7. Codigo'
  BY <1>1, <1>2, <1>5, Nomes, Lugares DEF IInv, Codigo
<1>8. Prontas' /\ Contextos'
  BY <1>2, <1>5 DEF IInv, Prontas, Contextos
<1>9. Chamadas'
  BY <1>2, <1>5, Nomes, Lugares DEF IInv, Chamadas, DentroDaChamada, AntesDePublicar
<1>10. AlvosDistintos'
  BY <1>5, Nomes DEF IInv, AlvosDistintos, AntesDePublicar
<1>11. Relogio'
  BY <1>6, Nomes DEF IInv, Relogio, FaseRetorno, FaseBoot, FaseJanela
<1> QED BY <1>4, <1>6, <1>7, <1>8, <1>9, <1>10, <1>11 DEF IInv, Fases

LEMMA TrocaPreserva ==
    ASSUME IInv, NEW t \in Usuarias, Troca(t)
    PROVE  IInv'
<1>1. FaseUsuario /\ cpu = t
  BY UsuarioNaCpu DEF Troca
<1>2. cortes' \subseteq {"id", "cont"}
  BY DEF IInv, TypeOK, Troca
<1> QED BY <1>1, <1>2, SaiDaCpu DEF Troca, Em, Vai, filas, tcb

\* task_switch to a task found in filaTarefas: it can only be the caller.
LEMMA TaskSwitchPreserva ==
    ASSUME IInv, NEW t \in Usuarias, NEW u \in Usuarias, TaskSwitch(t, u)
    PROVE  IInv'
<1>1. FaseUsuario /\ cpu = t /\ t \in Vivas /\ t = tarefaPrevia /\ tarefaAtual = t
  BY UsuarioNaCpu DEF TaskSwitch, FaseUsuario
<1>2. u = t
  BY <1>1 DEF TaskSwitch, FaseUsuario, Despachada
<1>3. /\ tarefaAtual' = t /\ quantum' = QUANTUM_VAL /\ cpu' = cpu
      /\ contexto' = [contexto EXCEPT ![t] = t] /\ contexto[t] = t
      /\ UNCHANGED <<filaProntas, filaTarefas, tarefaPrevia, maiorId, taskCont>>
      /\ UNCHANGED <<id, status, prioEstatica, prioDinamica, pilhas>>
      /\ UNCHANGED <<pc, alvo, reg, janela, cortes, saida>>
  BY <1>1, <1>2 DEF IInv, Contextos, TaskSwitch, RenovaQuantum, filas, tcb
<1>4. TypeOK /\ TypeOK'
  BY <1>1, <1>3, Nomes, QuantumAssumption DEF IInv, TypeOK
<1>5. contexto' = contexto /\ Vivas' = Vivas
  BY <1>3, <1>4 DEF TypeOK, Vivas
<1>6. FaseUsuario'
  BY <1>1, <1>3 DEF FaseUsuario, Despachada
<1>7. Codigo' /\ Prontas' /\ Contextos' /\ Chamadas' /\ AlvosDistintos'
  BY <1>3, <1>5 DEF IInv, Codigo, Prontas, Contextos, Chamadas, DentroDaChamada, AlvosDistintos
<1>8. Relogio'
  BY <1>1, <1>3, <1>6, Nomes DEF IInv, Relogio, FaseUsuario, FaseBoot, FaseJanela
<1> QED BY <1>4, <1>6, <1>7, <1>8 DEF IInv, Fases

\* systick: a tick that takes the processor away falls in user code, because
\* a window ends before the quantum and the dispatcher is known by its id.
LEMMA SystickPreserva ==
    ASSUME IInv, Systick
    PROVE  IInv'
<1>1. tarefaAtual # Dispatcher
  BY DEF IInv, Relogio, Systick
<1>2. FaseBoot \/ FaseJanela \/ FaseUsuario
  BY <1>1 DEF IInv, Fases, FaseLaco, FaseRetorno
<1>3. FaseBoot \/ FaseJanela => quantum > 1 /\ janela < TicksJanela /\ EmJanela
  <2>1. FaseBoot \/ FaseJanela => EmJanela /\ quantum = QUANTUM_VAL - janela /\ janela < TicksJanela
    BY DEF IInv, Relogio, Systick, EmJanela, FaseBoot, FaseJanela
  <2>2. janela \in Nat
    BY DEF IInv, TypeOK
  <2> QED BY <2>1, <2>2, QuantumAssumption
<1>4. FaseUsuario => ~ EmJanela
  BY Nomes DEF FaseUsuario, Despachada, EmJanela
<1>5. CASE TickPreempta
  <2>1. FaseUsuario
    BY <1>2, <1>3, <1>5 DEF TickPreempta, IInv, TypeOK
  <2>2. cortes' \subseteq {"id", "cont"}
    BY <1>5 DEF TickPreempta, IInv, TypeOK
  <2>3. TrocaParaDispatcher
    BY <1>5 DEF TickPreempta
  <2> QED BY <2>1, <2>2, <2>3, SaiDaCpu DEF Systick, filas, tcb
<1>6. CASE TickDecrementa
  <2>1. /\ UNCHANGED <<filaProntas, filaTarefas, tarefaAtual, tarefaPrevia, maiorId, taskCont>>
        /\ UNCHANGED <<id, status, prioEstatica, prioDinamica, contexto, pilhas, cpu>>
        /\ UNCHANGED <<pc, alvo, reg, cortes, saida>>
        /\ quantum # 1 /\ quantum' = quantum - 1
        /\ janela' = IF EmJanela THEN janela + 1 ELSE janela
    BY <1>6 DEF TickDecrementa, Systick, filas, tcb
  <2>2. EmJanela => janela < TicksJanela
    BY DEF Systick
  <2>3. TypeOK'
    <3>1. quantum' \in 1..QUANTUM_VAL /\ janela' \in 0..TicksJanela
      BY <2>1, <2>2, QuantumAssumption DEF IInv, TypeOK
    <3> QED BY <2>1, <3>1 DEF IInv, TypeOK
  <2>4. Vivas' = Vivas
    BY <2>1 DEF Vivas
  <2>5. Codigo' /\ Prontas' /\ Contextos' /\ Chamadas' /\ AlvosDistintos'
    BY <2>1, <2>4 DEF IInv, Codigo, Prontas, Contextos, Chamadas, DentroDaChamada, AlvosDistintos
  <2>6. Fases' /\ (FaseBoot' <=> FaseBoot) /\ (FaseJanela' <=> FaseJanela)
    BY <2>1 DEF IInv, Fases, FaseBoot, FaseLaco, FaseJanela, FaseRetorno, FaseUsuario, Despachada
  <2>7. Relogio'
    <3>1. janela \in Int /\ quantum \in Int /\ QUANTUM_VAL \in Int
      BY QuantumAssumption DEF IInv, TypeOK
    <3> QED BY <3>1, <2>1, <2>6, <1>3 DEF IInv, Relogio
  <2> QED BY <2>3, <2>5, <2>6, <2>7 DEF IInv
<1> QED BY <1>5, <1>6 DEF Systick

\* The end of ppos_init.
LEMMA PposInitPreserva ==
    ASSUME IInv, PposInit
    PROVE  IInv'
<1>1. FaseBoot
  BY Nomes DEF IInv, Fases, FaseLaco, FaseJanela, FaseRetorno, FaseUsuario, Despachada, PposInit, Em
<1>2. /\ tarefaAtual' = Dispatcher /\ quantum' = QUANTUM_VAL /\ cpu' = contexto[Dispatcher]
      /\ janela' = 0 /\ taskCont' = taskCont + 1
      /\ contexto' = [contexto EXCEPT ![Main] = Main]
      /\ pc' = [pc EXCEPT ![Main] = "livre"]
      /\ UNCHANGED <<filaProntas, filaTarefas, tarefaPrevia, maiorId, id, status>>
      /\ UNCHANGED <<prioEstatica, prioDinamica, pilhas, alvo, reg, cortes, saida>>
  BY <1>1 DEF PposInit, TrocaParaDispatcher, RenovaQuantum, Vai, FaseBoot, filas, tcb
<1>3. TypeOK
  BY DEF IInv
<1>4. Main \in Vivas /\ Vivas' = Vivas
  <2>1. ToSet(<<Main>>) = {Main}
    BY DEF ToSet
  <2> QED BY <2>1, <1>1, <1>2, Nomes DEF FaseBoot, Vivas
<1>5. cpu' = Dispatcher /\ contexto' = contexto
  BY <1>2, <1>3, <1>4 DEF IInv, Contextos, TypeOK
<1>6. TypeOK'
  <2>1. quantum' \in 1..QUANTUM_VAL /\ janela' \in 0..TicksJanela
    BY <1>2, QuantumAssumption
  <2>2. pc' \in [Tarefas -> LugaresUsuario \cup LugaresDispatcher]
    BY <1>2, <1>3, Lugares DEF TypeOK
  <2>3. taskCont' \in Int
    BY <1>2, <1>3 DEF TypeOK
  <2>4. /\ UNCHANGED <<filaProntas, filaTarefas, tarefaPrevia, maiorId, id, status>>
        /\ UNCHANGED <<prioEstatica, prioDinamica, pilhas, alvo, reg, cortes, saida>>
        /\ tarefaAtual' = Dispatcher
    BY <1>2
  <2> QED BY <2>1, <2>2, <2>3, <2>4, <1>3, <1>5, Nomes DEF TypeOK
<1>7. \A x \in Tarefas : pc'[x] = IF x = Main THEN "livre" ELSE pc[x]
  BY <1>2, <1>3 DEF TypeOK
<1>8. FaseLaco'
  BY <1>1, <1>2, <1>5, <1>7, Nomes DEF FaseBoot, FaseLaco
<1>9. Codigo'
  BY <1>4, <1>7, Nomes, Lugares DEF IInv, Codigo
<1>10. Prontas' /\ Contextos'
  BY <1>2, <1>4, <1>5 DEF IInv, Prontas, Contextos
<1>11. Chamadas'
  BY <1>2, <1>4, <1>5, <1>7, Nomes, Lugares DEF IInv, Chamadas, DentroDaChamada, AntesDePublicar
<1>12. AlvosDistintos'
  BY <1>2, <1>7, Nomes DEF IInv, AlvosDistintos, AntesDePublicar
<1>13. Relogio'
  BY <1>2, <1>8, Nomes DEF IInv, Relogio, FaseLaco, FaseBoot, FaseJanela
<1> QED BY <1>6, <1>8, <1>9, <1>10, <1>11, <1>12, <1>13 DEF IInv, Fases

\* The steps that end the process change nothing else.
LEMMA FimPreserva ==
    ASSUME IInv,
           \/ \E t \in Usuarias : ExitProcesso(t) \/ CriaSemMemoria(t)
           \/ DispatcherFim
           \/ UNCHANGED vars
    PROVE  IInv'
<1>1. /\ UNCHANGED <<filaProntas, filaTarefas, tarefaAtual, tarefaPrevia, maiorId, taskCont>>
      /\ UNCHANGED <<quantum, id, status, prioEstatica, prioDinamica, contexto, pilhas, cpu>>
      /\ UNCHANGED <<pc, alvo, reg, janela, cortes>>
      /\ saida' \in {"nenhuma", "dispatcher", "exit", "malloc"}
  BY DEF IInv, TypeOK, ExitProcesso, CriaSemMemoria, DispatcherFim, vars, filas, globais, tcb, maquina
<1>2. Vivas' = Vivas /\ TypeOK'
  BY <1>1 DEF IInv, TypeOK, Vivas
<1>3. Codigo' /\ Prontas' /\ Contextos' /\ Chamadas' /\ AlvosDistintos'
  BY <1>1, <1>2 DEF IInv, Codigo, Prontas, Contextos, Chamadas, DentroDaChamada, AlvosDistintos
<1>4. Fases' /\ (FaseBoot' <=> FaseBoot) /\ (FaseJanela' <=> FaseJanela)
  BY <1>1 DEF IInv, Fases, FaseBoot, FaseLaco, FaseJanela, FaseRetorno, FaseUsuario, Despachada
<1>5. Relogio'
  BY <1>1, <1>4 DEF IInv, Relogio
<1> QED BY <1>2, <1>3, <1>4, <1>5 DEF IInv

-----------------------------------------------------------------------------
\* The dispatcher's steps.

LEMMA PrioridadesInteiras ==
    ASSUME TypeOK
    PROVE  PrioInicial \in [Tarefas -> Int] /\ PrioEnvelhecida \in [Tarefas -> Int]
<1>1. PrioInicial \in [Tarefas -> Int]
  <2>1. CASE tarefaPrevia = NULL
    BY <2>1 DEF TypeOK, PrioInicial
  <2>2. CASE tarefaPrevia # NULL
    <3>1. prioEstatica[tarefaPrevia] \in Int
      BY <2>2, Nomes, Prioridades DEF TypeOK
    <3> QED BY <2>2, <3>1 DEF TypeOK, PrioInicial
  <2> QED BY <2>1, <2>2
<1> QED BY <1>1 DEF PrioEnvelhecida

LEMMA DispatcherOciosoPreserva ==
    ASSUME IInv, DispatcherOcioso
    PROVE  IInv'
<1>1. FaseLaco
  BY Nomes DEF IInv, Fases, FaseBoot, FaseJanela, FaseRetorno, FaseUsuario, Despachada, DispatcherOcioso, Em
<1>2. /\ UNCHANGED <<filaProntas, filaTarefas, tarefaAtual, maiorId, taskCont, quantum>>
      /\ UNCHANGED <<id, status, prioEstatica, contexto, pilhas, cpu>>
      /\ UNCHANGED <<pc, alvo, reg, janela, cortes, saida>>
      /\ prioDinamica' = PrioInicial /\ tarefaPrevia' = NULL
  BY DEF DispatcherOcioso, filas, maquina
<1>3. TypeOK' /\ Vivas' = Vivas
  BY <1>2, PrioridadesInteiras DEF IInv, TypeOK, Vivas
<1>4. FaseLaco'
  BY <1>1, <1>2 DEF FaseLaco
<1>5. Codigo' /\ Prontas' /\ Contextos' /\ Chamadas' /\ AlvosDistintos'
  BY <1>2, <1>3 DEF IInv, Codigo, Prontas, Contextos, Chamadas, DentroDaChamada, AlvosDistintos
<1>6. Relogio'
  BY <1>2, <1>4, Nomes DEF IInv, Relogio, FaseLaco, FaseBoot, FaseJanela
<1> QED BY <1>3, <1>4, <1>5, <1>6 DEF IInv, Fases

LEMMA DispatcherDespachaPreserva ==
    ASSUME IInv, DispatcherDespacha
    PROVE  IInv'
<1> DEFINE p == Escolhida
<1>1. FaseLaco
  BY Nomes DEF IInv, Fases, FaseBoot, FaseJanela, FaseRetorno, FaseUsuario, Despachada, DispatcherDespacha, Em
<1>2. TypeOK /\ filaProntas \in Seq(Usuarias) /\ filaProntas # <<>> /\ SemRepetir(filaProntas)
  BY DEF IInv, TypeOK, Prontas, DispatcherDespacha
<1>3. p \in ToSet(filaProntas) /\ p \in Usuarias /\ p \in Tarefas /\ p # Dispatcher
  BY <1>2, EscolhidaNaFila, PrioridadesInteiras, Nomes
<1>4. /\ filaProntas' = Retira(filaProntas, p) /\ filaTarefas' = <<Dispatcher, p>>
      /\ tarefaPrevia' = p /\ tarefaAtual' = p /\ quantum' = QUANTUM_VAL /\ janela' = 0
      /\ prioDinamica' = PrioEnvelhecida
      /\ pc' = [pc EXCEPT ![Dispatcher] = "janela"]
      /\ UNCHANGED <<maiorId, taskCont, id, status, prioEstatica>>
      /\ UNCHANGED <<contexto, pilhas, cpu, alvo, reg, cortes, saida>>
  <2>1. filaTarefas' = Append(<<Dispatcher>>, p)
    BY <1>1 DEF DispatcherDespacha, FaseLaco
  <2>2. Append(<<Dispatcher>>, p) = <<Dispatcher, p>>
    BY AppendDespachada
  <2>3. UNCHANGED <<maiorId, taskCont, id, status, prioEstatica>>
    BY DEF DispatcherDespacha
  <2> QED BY <2>1, <2>2, <2>3 DEF DispatcherDespacha, RenovaQuantum, Vai
<1> HIDE DEF p
<1>5. /\ filaProntas' \in Seq(Usuarias) /\ SemRepetir(filaProntas')
      /\ ToSet(filaProntas') = ToSet(filaProntas) \ {p}
  BY <1>2, <1>3, <1>4, RetiraProps
<1>6. TypeOK'
  <2>1. quantum' \in 1..QUANTUM_VAL /\ janela' \in 0..TicksJanela
    BY <1>4, QuantumAssumption
  <2>2. pc' \in [Tarefas -> LugaresUsuario \cup LugaresDispatcher]
    BY <1>2, <1>4 DEF TypeOK, LugaresDispatcher
  <2>3. prioDinamica' \in [Tarefas -> Int]
    BY <1>2, <1>4, PrioridadesInteiras
  <2>4. filaTarefas' \in Seq(Tarefas)
    BY <1>3, <1>4, Nomes
  <2>5. /\ tarefaPrevia' \in Usuarias /\ tarefaAtual' \in Tarefas
        /\ UNCHANGED <<maiorId, taskCont, id, status, prioEstatica>>
        /\ UNCHANGED <<contexto, pilhas, cpu, alvo, reg, cortes, saida>>
    BY <1>3, <1>4
  <2> QED BY <2>1, <2>2, <2>3, <2>4, <2>5, <1>2, <1>5 DEF TypeOK
<1>7. Vivas = ToSet(filaProntas) /\ Vivas' = Vivas
  <2>1. Vivas = ToSet(filaProntas)
    BY <1>1, <1>2, VivasNasFases DEF FaseLaco
  <2>2. ToSet(filaTarefas') = {Dispatcher, p}
    BY <1>4, ToSetFilaTarefas
  <2> QED BY <2>1, <2>2, <1>2, <1>3, <1>5, VivasNasFases DEF Vivas
<1>8. \A x \in Tarefas : pc'[x] = IF x = Dispatcher THEN "janela" ELSE pc[x]
  BY <1>2, <1>4 DEF TypeOK
<1>9. status[p] = PRONTA
  BY <1>3 DEF IInv, Prontas
<1>10. FaseJanela'
  BY <1>1, <1>3, <1>4, <1>5, <1>8, <1>9, Nomes DEF FaseLaco, FaseJanela, Despachada
<1>11. Codigo'
  BY <1>7, <1>8, Nomes DEF IInv, Codigo, LugaresDispatcher
<1>12. Prontas' /\ Contextos'
  BY <1>4, <1>5, <1>7 DEF IInv, Prontas, Contextos
<1>13. Chamadas'
  BY <1>4, <1>7, <1>8, Nomes DEF IInv, Chamadas, DentroDaChamada
<1>14. AlvosDistintos'
  BY <1>4, <1>8, Nomes DEF IInv, AlvosDistintos
<1>15. Relogio'
  <2>1. QUANTUM_VAL = QUANTUM_VAL - 0
    BY QuantumAssumption
  <2> QED BY <2>1, <1>4 DEF IInv, Relogio
<1> QED BY <1>6, <1>10, <1>11, <1>12, <1>13, <1>14, <1>15 DEF IInv, Fases

LEMMA DispatcherTrocaPreserva ==
    ASSUME IInv, DispatcherTroca
    PROVE  IInv'
<1>1. FaseJanela
  BY Nomes DEF IInv, Fases, FaseBoot, FaseLaco, FaseRetorno, FaseUsuario, Despachada, DispatcherTroca, Em
<1>2. TypeOK /\ tarefaPrevia \in Usuarias /\ tarefaPrevia \in Vivas /\ tarefaPrevia \in Tarefas
  BY <1>1, VivasNasFases, Nomes DEF IInv, FaseJanela, Despachada
<1>3. contexto[tarefaPrevia] = tarefaPrevia /\ contexto[Dispatcher] = Dispatcher
  BY <1>2 DEF IInv, Contextos
<1>4. /\ UNCHANGED <<filaProntas, filaTarefas, tarefaAtual, tarefaPrevia, maiorId, taskCont>>
      /\ UNCHANGED <<quantum, id, status, prioEstatica, prioDinamica, pilhas>>
      /\ UNCHANGED <<alvo, reg, cortes, saida>>
      /\ cpu' = tarefaPrevia /\ janela' = 0
      /\ contexto' = [contexto EXCEPT ![Dispatcher] = Dispatcher]
      /\ pc' = [pc EXCEPT ![Dispatcher] = "retorno"]
  BY <1>1, <1>3 DEF DispatcherTroca, FaseJanela, Vai, filas, globais, tcb
<1>5. contexto' = contexto /\ Vivas' = Vivas
  BY <1>2, <1>3, <1>4 DEF TypeOK, Vivas
<1>6. TypeOK'
  <2>1. janela' \in 0..TicksJanela
    BY <1>4, QuantumAssumption
  <2>2. pc' \in [Tarefas -> LugaresUsuario \cup LugaresDispatcher]
    BY <1>2, <1>4 DEF TypeOK, LugaresDispatcher
  <2> QED BY <2>1, <2>2, <1>2, <1>4, <1>5 DEF TypeOK
<1>7. \A x \in Tarefas : pc'[x] = IF x = Dispatcher THEN "retorno" ELSE pc[x]
  BY <1>2, <1>4 DEF TypeOK
<1>8. FaseUsuario'
  BY <1>1, <1>4, <1>7, Nomes DEF FaseJanela, FaseUsuario, Despachada
<1>9. Codigo'
  BY <1>5, <1>7, Nomes DEF IInv, Codigo, LugaresDispatcher
<1>10. Prontas' /\ Contextos'
  BY <1>4, <1>5 DEF IInv, Prontas, Contextos
<1>11. Chamadas'
  BY <1>4, <1>5, <1>7, Nomes DEF IInv, Chamadas, DentroDaChamada
<1>12. AlvosDistintos'
  BY <1>4, <1>7, Nomes DEF IInv, AlvosDistintos
<1>13. Relogio'
  BY <1>4, <1>8, Nomes DEF IInv, Relogio, FaseUsuario, FaseBoot, FaseJanela, Despachada
<1> QED BY <1>6, <1>8, <1>9, <1>10, <1>11, <1>12, <1>13 DEF IInv, Fases

LEMMA DispatcherProntaPreserva ==
    ASSUME IInv, DispatcherPronta
    PROVE  IInv'
<1> DEFINE p == tarefaPrevia
<1>1. FaseRetorno
  BY Nomes DEF IInv, Fases, FaseBoot, FaseLaco, FaseJanela, FaseUsuario, Despachada, DispatcherPronta, Em
<1>2. /\ TypeOK /\ filaProntas \in Seq(Usuarias) /\ SemRepetir(filaProntas)
      /\ p \in Usuarias /\ p \in Tarefas /\ p # Dispatcher /\ p \notin ToSet(filaProntas)
      /\ status[p] = PRONTA
  BY <1>1, Nomes DEF IInv, TypeOK, Prontas, FaseRetorno, Despachada, DispatcherPronta
<1>3. filaTarefas' = <<Dispatcher>>
  <2>1. filaTarefas' = Retira(<<Dispatcher, p>>, p)
    BY <1>1 DEF DispatcherPronta, FaseRetorno, Despachada
  <2> QED BY <2>1, <1>2, RetiraDespachada
<1>4. /\ filaProntas' = Append(filaProntas, p)
      /\ pc' = [pc EXCEPT ![Dispatcher] = "laco"]
      /\ UNCHANGED <<tarefaAtual, tarefaPrevia, maiorId, taskCont, quantum>>
      /\ UNCHANGED <<id, status, prioEstatica, prioDinamica, contexto, pilhas, cpu>>
      /\ UNCHANGED <<alvo, reg, janela, cortes, saida>>
  BY DEF DispatcherPronta, Vai, globais, tcb
<1>5. /\ filaProntas' \in Seq(Usuarias) /\ SemRepetir(filaProntas')
      /\ ToSet(filaProntas') = ToSet(filaProntas) \cup {p}
  BY <1>2, <1>4, AppendProps
<1>6. TypeOK'
  <2>1. pc' \in [Tarefas -> LugaresUsuario \cup LugaresDispatcher]
    BY <1>2, <1>4 DEF TypeOK, LugaresDispatcher
  <2>2. filaTarefas' \in Seq(Tarefas)
    BY <1>3, Nomes
  <2> QED BY <2>1, <2>2, <1>2, <1>4, <1>5 DEF TypeOK
<1>7. Vivas' = Vivas
  <2>1. Vivas = ToSet(filaProntas) \cup {p}
    BY <1>1, <1>2, VivasNasFases DEF FaseRetorno
  <2>2. ToSet(filaTarefas') = {Dispatcher}
    BY <1>3, ToSetFilaTarefas
  <2> QED BY <2>1, <2>2, <1>2, <1>5, VivasNasFases DEF Vivas
<1>8. \A x \in Tarefas : pc'[x] = IF x = Dispatcher THEN "laco" ELSE pc[x]
  BY <1>2, <1>4 DEF TypeOK
<1>9. FaseLaco'
  BY <1>1, <1>3, <1>4, <1>8, Nomes DEF FaseRetorno, FaseLaco, Despachada
<1>10. Codigo'
  BY <1>7, <1>8, Nomes DEF IInv, Codigo, LugaresDispatcher
<1>11. Prontas' /\ Contextos'
  BY <1>2, <1>4, <1>5, <1>7 DEF IInv, Prontas, Contextos
<1>12. Chamadas'
  BY <1>4, <1>7, <1>8, Nomes DEF IInv, Chamadas, DentroDaChamada
<1>13. AlvosDistintos'
  BY <1>4, <1>8, Nomes DEF IInv, AlvosDistintos
<1>14. Relogio'
  BY <1>4, <1>9, Nomes DEF IInv, Relogio, FaseLaco, FaseBoot, FaseJanela
<1> QED BY <1>6, <1>9, <1>10, <1>11, <1>12, <1>13, <1>14 DEF IInv, Fases

\* A terminated task is at the end of its code and nobody holds it: it leaves
\* the queues with its stack.
LEMMA DispatcherRecolhePreserva ==
    ASSUME IInv, DispatcherRecolhe
    PROVE  IInv'
<1> DEFINE p == tarefaPrevia
<1>1. FaseRetorno
  BY Nomes DEF IInv, Fases, FaseBoot, FaseLaco, FaseJanela, FaseUsuario, Despachada, DispatcherRecolhe, Em
<1>2. /\ TypeOK /\ p \in Usuarias /\ p \in Tarefas /\ p # Dispatcher /\ p \notin ToSet(filaProntas)
      /\ status[p] = TERMINADA
  BY <1>1, Nomes DEF IInv, FaseRetorno, Despachada, DispatcherRecolhe
<1>3. filaTarefas' = <<Dispatcher>>
  <2>1. filaTarefas' = Retira(<<Dispatcher, p>>, p)
    BY <1>1 DEF DispatcherRecolhe, FaseRetorno, Despachada
  <2> QED BY <2>1, <1>2, RetiraDespachada
<1>4. /\ taskCont' = taskCont - 1 /\ pilhas' = pilhas \ {p}
      /\ pc' = [pc EXCEPT ![Dispatcher] = "laco"]
      /\ UNCHANGED <<filaProntas, tarefaAtual, tarefaPrevia, maiorId, quantum>>
      /\ UNCHANGED <<id, status, prioEstatica, prioDinamica, contexto, cpu>>
      /\ UNCHANGED <<alvo, reg, janela, cortes, saida>>
  BY DEF DispatcherRecolhe, Vai, tcb
<1>5. TypeOK'
  <2>1. pc' \in [Tarefas -> LugaresUsuario \cup LugaresDispatcher]
    BY <1>2, <1>4 DEF TypeOK, LugaresDispatcher
  <2>2. filaTarefas' \in Seq(Tarefas) /\ taskCont' \in Int /\ pilhas' \subseteq Tarefas
    BY <1>2, <1>3, <1>4, Nomes DEF TypeOK
  <2>3. /\ UNCHANGED <<filaProntas, tarefaAtual, tarefaPrevia, maiorId, quantum>>
        /\ UNCHANGED <<id, status, prioEstatica, prioDinamica, contexto, cpu>>
        /\ UNCHANGED <<alvo, reg, janela, cortes, saida>>
    BY <1>4
  <2> QED BY <2>1, <2>2, <2>3, <1>2 DEF TypeOK
<1>6. Vivas' = Vivas \ {p} /\ p \in Vivas
  <2>1. Vivas = ToSet(filaProntas) \cup {p}
    BY <1>1, <1>2, VivasNasFases DEF FaseRetorno
  <2>2. ToSet(filaTarefas') = {Dispatcher}
    BY <1>3, ToSetFilaTarefas
  <2> QED BY <2>1, <2>2, <1>2, <1>4, VivasNasFases DEF Vivas
<1>7. \A x \in Tarefas : pc'[x] = IF x = Dispatcher THEN "laco" ELSE pc[x]
  BY <1>2, <1>4 DEF TypeOK
<1>8. FaseLaco'
  BY <1>1, <1>3, <1>4, <1>7, Nomes DEF FaseRetorno, FaseLaco, Despachada
<1>9. pc[p] \in {"livre", "troca"}
  BY <1>1, <1>2 DEF FaseRetorno
<1>10. Codigo'
  BY <1>6, <1>7, <1>9, Nomes DEF IInv, Codigo, LugaresDispatcher
<1>11. Prontas' /\ Contextos'
  BY <1>2, <1>4, <1>6 DEF IInv, Prontas, Contextos
<1>12. Chamadas'
  <2>1. \A u \in Usuarias : pc[u] = "publica" => alvo[u] # p
    BY <1>6 DEF IInv, Chamadas, DentroDaChamada, AntesDePublicar
  <2> QED BY <2>1, <1>4, <1>6, <1>7, Nomes DEF IInv, Chamadas, DentroDaChamada
<1>13. AlvosDistintos'
  BY <1>4, <1>7, Nomes DEF IInv, AlvosDistintos
<1>14. Relogio'
  BY <1>4, <1>8, Nomes DEF IInv, Relogio, FaseLaco, FaseBoot, FaseJanela
<1> QED BY <1>5, <1>8, <1>10, <1>11, <1>12, <1>13, <1>14 DEF IInv, Fases

-----------------------------------------------------------------------------
\* The inductive invariant.

LEMMA InitInv == Init => IInv
<1> SUFFICES ASSUME Init PROVE IInv
  OBVIOUS
<1> USE DEF Init
<1>1. TypeOK
  <2>1. /\ filaProntas \in Seq(Usuarias) /\ filaTarefas \in Seq(Tarefas)
        /\ tarefaAtual \in Tarefas /\ pilhas \subseteq Tarefas
    BY Nomes
  <2>2. quantum \in 1..QUANTUM_VAL /\ janela \in 0..TicksJanela
    BY QuantumAssumption
  <2>3. /\ prioEstatica \in [Tarefas -> Prios] /\ prioDinamica \in [Tarefas -> Int]
        /\ id \in [Tarefas -> Int] /\ reg \in [Tarefas -> Int]
        /\ status \in [Tarefas -> {PRONTA, TERMINADA}]
        /\ alvo \in [Tarefas -> Usuarias \cup {NULL}]
        /\ contexto \in [Tarefas -> Tarefas \cup {NULL}]
    BY Prioridades
  <2>4. pc \in [Tarefas -> LugaresUsuario \cup LugaresDispatcher]
    BY DEF LugaresUsuario, LugaresDispatcher
  <2> QED BY <2>1, <2>2, <2>3, <2>4, Nomes DEF TypeOK
<1>2. \A x \in Tarefas :
         pc[x] = IF x = Main THEN "boot" ELSE IF x = Dispatcher THEN "laco" ELSE "livre"
  BY Nomes
<1>3. Vivas = {Main} /\ ToSet(filaProntas) = {Main}
  <2>1. ToSet(<<Main>>) = {Main}
    BY DEF ToSet
  <2> QED BY <2>1, ToSetFilaTarefas, Nomes DEF Vivas
<1>4. FaseBoot
  BY <1>2, Nomes DEF FaseBoot
<1>5. Codigo
  BY <1>2, <1>3, Nomes DEF Codigo, LugaresUsuario, LugaresDispatcher
<1>6. Prontas
  BY <1>3, Nomes DEF Prontas, SemRepetir
<1>7. Contextos
  BY <1>3, Nomes DEF Contextos, Usuarias, Tarefas
<1>8. Chamadas /\ AlvosDistintos
  BY <1>2, Nomes, Lugares DEF Chamadas, DentroDaChamada, AlvosDistintos, AntesDePublicar
<1>9. Relogio
  BY QuantumAssumption, Nomes DEF Relogio
<1> QED BY <1>1, <1>4, <1>5, <1>6, <1>7, <1>8, <1>9 DEF IInv, Fases

LEMMA NextInv == IInv /\ [Next]_vars => IInv'
<1> SUFFICES ASSUME IInv, [Next]_vars PROVE IInv'
  OBVIOUS
<1>1. CASE PposInit
  BY <1>1, PposInitPreserva
<1>2. ASSUME NEW t \in Usuarias, UsuarioNext(t) PROVE IInv'
  BY <1>2, CriaLeIdPreserva, SetprioPreserva, TaskSwitchPreserva, MudaStatusPreserva, FimPreserva
     DEF UsuarioNext
<1>3. ASSUME NEW t \in Usuarias, ChamadaNext(t) PROVE IInv'
  BY <1>3, CriaGravaIdPreserva, CriaIniciaPreserva, FimPreserva, CriaPublicaPreserva,
     CriaLeContPreserva, CriaGravaContPreserva, GravaPrioDinamicaPreserva,
     GravaPrioEstaticaPreserva, TrocaPreserva
     DEF ChamadaNext
<1>4. CASE Systick
  BY <1>4, SystickPreserva
<1>5. CASE DispatcherNext
  BY <1>5, FimPreserva, DispatcherOciosoPreserva, DispatcherDespachaPreserva,
     DispatcherTrocaPreserva, DispatcherProntaPreserva, DispatcherRecolhePreserva
     DEF DispatcherNext
<1>6. CASE UNCHANGED vars
  BY <1>6, FimPreserva
<1> QED BY <1>1, <1>2, <1>3, <1>4, <1>5, <1>6 DEF Next, Encerrado

\* The invariant of the kernel, for any number of tasks: one of the five
\* phases holds, with the queues, contexts and stacks it prescribes.
THEOREM Invariante == Spec => []IInv
  BY InitInv, NextInv, PTL DEF Spec

\* Every variable of the kernel keeps its type; quantum in 1..QUANTUM_VAL says
\* that systick never lets the quantum reach 0 in user code.
THEOREM TipoCorreto == Spec => []TypeOK
<1>1. IInv => TypeOK
  BY DEF IInv
<1> QED BY <1>1, Invariante, PTL

\* Each live task is in exactly one of the two queues, once.
THEOREM FilasSempreConsistentes == Spec => []FilasConsistentes
<1>1. IInv => FilasConsistentes
  <2> SUFFICES ASSUME IInv PROVE FilasConsistentes
    OBVIOUS
  <2>1. SemRepetir(filaProntas) /\ filaProntas \in Seq(Usuarias)
    BY DEF IInv, Prontas, TypeOK
  <2>2. \/ filaTarefas = <<Dispatcher>>
        \/ /\ filaTarefas = <<Dispatcher, tarefaPrevia>> /\ tarefaPrevia \in Usuarias
           /\ tarefaPrevia \notin ToSet(filaProntas)
    BY DEF IInv, Fases, FaseBoot, FaseLaco, FaseJanela, FaseRetorno, FaseUsuario, Despachada
  <2>3. \A i \in 1..Len(filaProntas) : filaProntas[i] \in ToSet(filaProntas)
    BY <2>1 DEF ToSet
  <2> QED BY <2>1, <2>2, <2>3 DEF FilasConsistentes, SemRepetir
<1> QED BY <1>1, Invariante, PTL

\* The running task is the one the kernel believes in, and no task is ever
\* resumed on the stack of another, in spite of ticks inside task_switch.
THEOREM ContextoSempreIntegro == Spec => []ContextoIntegro
<1>1. IInv => ContextoIntegro
  <2> SUFFICES ASSUME IInv PROVE ContextoIntegro
    OBVIOUS
  <2>1. \A t \in Vivas \cup {Dispatcher} : contexto[t] = t
    BY DEF IInv, Contextos
  <2>2. tarefaAtual = IF cpu = Dispatcher /\ pc[cpu] = "janela" THEN tarefaPrevia ELSE cpu
    <3>1. CASE FaseBoot \/ FaseUsuario
      BY <3>1, Nomes DEF FaseBoot, FaseUsuario, Despachada
    <3>2. CASE FaseLaco \/ FaseJanela \/ FaseRetorno
      BY <3>2 DEF FaseLaco, FaseJanela, FaseRetorno
    <3> QED BY <3>1, <3>2 DEF IInv, Fases
  <2> QED BY <2>1, <2>2 DEF ContextoIntegro
<1> QED BY <1>1, Invariante, PTL

\* No task runs, or is ready to run, on a freed stack, and no task comes back
\* from task_exit.
THEOREM PilhaSempreViva == Spec => []PilhaViva
<1>1. IInv => PilhaViva
  <2> SUFFICES ASSUME IInv PROVE PilhaViva
    OBVIOUS
  <2>1. Vivas \subseteq pilhas /\ Dispatcher \in pilhas
    BY DEF IInv, Contextos
  <2>2. cpu \in Vivas \cup {Dispatcher}
    <3>1. CASE FaseBoot
      <4>1. Main = filaProntas[1] /\ 1 \in DOMAIN filaProntas
        BY <3>1 DEF FaseBoot
      <4>2. Main \in ToSet(filaProntas)
        BY <4>1 DEF ToSet
      <4> QED BY <4>2, <3>1, VivasNasFases DEF IInv, FaseBoot
    <3>2. CASE FaseUsuario
      BY <3>2, VivasNasFases DEF IInv, FaseUsuario
    <3>3. CASE FaseLaco \/ FaseJanela \/ FaseRetorno
      BY <3>3 DEF FaseLaco, FaseJanela, FaseRetorno
    <3> QED BY <3>1, <3>2, <3>3 DEF IInv, Fases
  <2>3. pc[cpu] = "livre" => status[cpu] = PRONTA
    BY DEF IInv, Fases, FaseBoot, FaseLaco, FaseJanela, FaseRetorno, FaseUsuario
  <2>4. \A i \in 1..Len(filaProntas) : status[filaProntas[i]] = PRONTA
    <3>1. \A i \in 1..Len(filaProntas) : filaProntas[i] \in ToSet(filaProntas)
      BY DEF IInv, TypeOK, ToSet
    <3> QED BY <3>1 DEF IInv, Prontas
  <2> QED BY <2>1, <2>2, <2>3, <2>4 DEF PilhaViva
<1> QED BY <1>1, Invariante, PTL

-----------------------------------------------------------------------------
\* The two counters of the kernel, maiorId and taskCont, which task_create reads
\* and writes in several steps: they stay right as long as no preemption falls
\* between those steps.

\* Steps that leave a counter, and the tasks it is about, alone.

QuietoId ==
    /\ UNCHANGED <<maiorId, id>> /\ cortes \subseteq cortes'
    /\ Numeradas' \subseteq Numeradas
    /\ \A t \in Usuarias : pc'[t] \in LugaresId => pc[t] = pc'[t] /\ reg'[t] = reg[t]
    /\ cpu' = cpu \/ "id" \in cortes' \/ pc[cpu] \notin LugaresId

QuietoCont ==
    /\ UNCHANGED taskCont /\ cortes \subseteq cortes' /\ Vivas' = Vivas
    /\ \A t \in Usuarias :
          pc[t] \in ForaDaConta \/ pc'[t] \in ForaDaConta => pc'[t] = pc[t] /\ reg'[t] = reg[t]
    /\ cpu' = cpu \/ "cont" \in cortes' \/ pc[cpu] \notin ForaDaConta
    /\ saida' = saida \/ saida' # "dispatcher"

LEMMA LugaresDasContas ==
    /\ LugaresId = {"gravaId", "inicia"}
    /\ ForaDaConta = {"leCont", "gravaCont", "boot"}
    /\ LugaresDispatcher = {"laco", "janela", "retorno"}
  BY DEF LugaresId, ForaDaConta, LugaresCont, LugaresDispatcher

LEMMA QuietoIdPreserva ==
    ASSUME IInv, IdsInv, QuietoId
    PROVE  IdsInv'
<1> SUFFICES ASSUME "id" \notin cortes' PROVE IdsInv'
  BY DEF IdsInv
<1>1. "id" \notin cortes
  BY DEF QuietoId
<1>2. \A t \in Usuarias : pc'[t] \in LugaresId => t = cpu'
  BY <1>1 DEF QuietoId, IdsInv
<1>3. \A t \in Usuarias : pc'[t] = "gravaId" => reg'[t] = maiorId'
  BY <1>1, LugaresDasContas DEF QuietoId, IdsInv
<1>4. \A t \in Usuarias, u \in Numeradas' : pc'[t] = "inicia" => id'[u] < maiorId'
  BY <1>1, LugaresDasContas DEF QuietoId, IdsInv
<1>5. /\ \A t, u \in Numeradas' : id'[t] = id'[u] => t = u
      /\ \A u \in Numeradas' : id'[u] <= maiorId'
  BY <1>1 DEF QuietoId, IdsInv
<1> QED BY <1>2, <1>3, <1>4, <1>5 DEF IdsInv

LEMMA QuietoContPreserva ==
    ASSUME IInv, IInv', ContInv, QuietoCont
    PROVE  ContInv'
<1> SUFFICES ASSUME "cont" \notin cortes' PROVE ContInv'
  BY DEF ContInv
<1>1. "cont" \notin cortes
  BY DEF QuietoCont
<1>2. \A t \in Usuarias : pc'[t] \in ForaDaConta => t = cpu'
  BY <1>1 DEF QuietoCont, ContInv
<1>3. \A t \in Usuarias : pc'[t] = "gravaCont" => reg'[t] = taskCont'
  BY <1>1, LugaresDasContas DEF QuietoCont, ContInv
<1>4. /\ cpu \in Usuarias \cup {Dispatcher} /\ cpu' \in Usuarias \cup {Dispatcher}
      /\ pc[Dispatcher] \notin ForaDaConta /\ pc'[Dispatcher] \notin ForaDaConta
  BY LugaresDasContas DEF IInv, TypeOK, Codigo, Tarefas
<1>5. pc'[cpu'] \in ForaDaConta <=> pc[cpu] \in ForaDaConta
  <2>1. ASSUME pc[cpu] \in ForaDaConta PROVE pc'[cpu'] \in ForaDaConta
    BY <2>1, <1>4 DEF QuietoCont
  <2>2. ASSUME pc'[cpu'] \in ForaDaConta PROVE pc[cpu] \in ForaDaConta
    <3>1. cpu' \in Usuarias /\ pc[cpu'] \in ForaDaConta
      BY <2>2, <1>4 DEF QuietoCont
    <3> QED BY <3>1, <1>1 DEF ContInv
  <2> QED BY <2>1, <2>2
<1>6. saida' = "dispatcher" => Vivas' = {}
  BY <1>1 DEF QuietoCont, ContInv
<1>7. taskCont' = Cardinality(Vivas') - (IF pc'[cpu'] \in ForaDaConta THEN 1 ELSE 0)
  BY <1>1, <1>5 DEF QuietoCont, ContInv
<1> QED BY <1>2, <1>3, <1>6, <1>7 DEF ContInv

\* The descriptors numbered do not grow when no task is published and none
\* comes to the point of publishing.
LEMMA NumeradasNaoCrescem ==
    ASSUME Vivas' \subseteq Vivas,
           \A t \in Usuarias : pc'[t] = "publica" => pc[t] = "publica" /\ alvo'[t] = alvo[t]
    PROVE  Numeradas' \subseteq Numeradas
  BY DEF Numeradas

-----------------------------------------------------------------------------
\* The steps that are quiet for both counters.

Quieto == QuietoId /\ QuietoCont

\* Where a step of task_create reads or writes a counter, or a numbered
\* descriptor is not published.
Marcados == LugaresId \cup {"publica"} \cup ForaDaConta

\* A step of t between two places that are not marked.
LEMMA PassoForaDasContas ==
    ASSUME IInv, NEW t \in Tarefas, NEW m, pc[t] \notin Marcados, m \notin Marcados,
           pc' = [pc EXCEPT ![t] = m],
           \A u \in Usuarias \ {t} : alvo'[u] = alvo[u] /\ reg'[u] = reg[u],
           UNCHANGED <<maiorId, id, taskCont, cortes>>, Vivas' = Vivas,
           saida' = saida \/ saida' # "dispatcher",
           cpu' = cpu \/ pc[cpu] \notin Marcados
    PROVE  Quieto
<1>1. \A x \in Usuarias : pc'[x] = IF x = t THEN m ELSE pc[x]
  BY Nomes DEF IInv, TypeOK
<1>2. /\ LugaresId \subseteq Marcados /\ ForaDaConta \subseteq Marcados
      /\ "publica" \in Marcados
  BY DEF Marcados
<1>3. Numeradas' \subseteq Numeradas
  BY <1>1, <1>2, NumeradasNaoCrescem
<1>4. QuietoId
  BY <1>1, <1>2, <1>3 DEF QuietoId
<1>5. QuietoCont
  BY <1>1, <1>2 DEF QuietoCont
<1> QED BY <1>4, <1>5 DEF Quieto

\* A step in which no task advances in its own code.
LEMMA PassoSemAvanco ==
    ASSUME IInv, UNCHANGED <<pc, alvo, reg, maiorId, id, taskCont>>, Vivas' = Vivas,
           cortes \subseteq cortes',
           cpu' = cpu \/ "id" \in cortes' \/ pc[cpu] \notin LugaresId,
           cpu' = cpu \/ "cont" \in cortes' \/ pc[cpu] \notin ForaDaConta,
           saida' = saida \/ saida' # "dispatcher"
    PROVE  Quieto
<1>1. Numeradas' \subseteq Numeradas
  BY NumeradasNaoCrescem
<1>2. QuietoId
  BY <1>1 DEF QuietoId
<1>3. QuietoCont
  BY DEF QuietoCont
<1> QED BY <1>2, <1>3 DEF Quieto

LEMMA ForaDosMarcados ==
    {"livre", "gravaDin", "gravaEst", "troca", "laco", "janela", "retorno"} \cap Marcados = {}
  BY LugaresDasContas DEF Marcados

\* task_setprio, task_yield, task_exit and the switch do not touch the counters.
LEMMA UsuarioQuieto ==
    ASSUME IInv, NEW t \in Usuarias,
           \/ \E u \in Usuarias, prio \in Prios : Setprio(t, u, prio)
           \/ \E u \in Usuarias : TaskSwitch(t, u)
           \/ GravaPrioDinamica(t) \/ GravaPrioEstatica(t)
           \/ TaskYield(t) \/ TaskExit(t) \/ Troca(t) \/ ExitProcesso(t)
    PROVE  Quieto
<1>1. Vivas' = Vivas
  BY VivasIguais DEF Setprio, TaskSwitch, GravaPrioDinamica, GravaPrioEstatica, TaskYield,
       TaskExit, Troca, ExitProcesso
<1>2. TypeOK /\ t \in Tarefas /\ alvo \in [Tarefas -> Usuarias \cup {NULL}] /\ reg \in [Tarefas -> Int]
  BY Nomes DEF IInv, TypeOK
<1>3. UNCHANGED <<maiorId, id, taskCont, cortes>> /\ (saida' = saida \/ saida' # "dispatcher")
  BY DEF Setprio, TaskSwitch, GravaPrioDinamica, GravaPrioEstatica, TaskYield,
       TaskExit, Troca, ExitProcesso, TrocaParaDispatcher, globais, tcb
<1>4. \A u \in Usuarias \ {t} : alvo'[u] = alvo[u] /\ reg'[u] = reg[u]
  BY <1>2, Nomes DEF Setprio, TaskSwitch, GravaPrioDinamica, GravaPrioEstatica, TaskYield,
       TaskExit, Troca, ExitProcesso, maquina
<1>5. cpu = t /\ pc[t] \notin Marcados
  BY ForaDosMarcados DEF Setprio, TaskSwitch, GravaPrioDinamica, GravaPrioEstatica, TaskYield,
       TaskExit, Troca, ExitProcesso, Em
<1>6. PICK m \in {"livre", "gravaDin", "gravaEst", "troca"} : pc' = [pc EXCEPT ![t] = m]
  <2>1. CASE (\E u \in Usuarias : TaskSwitch(t, u)) \/ ExitProcesso(t)
    BY <2>1, <1>2 DEF TaskSwitch, ExitProcesso, Em, maquina, TypeOK
  <2>2. CASE \/ \E u \in Usuarias, prio \in Prios : Setprio(t, u, prio)
             \/ GravaPrioDinamica(t) \/ GravaPrioEstatica(t)
             \/ TaskYield(t) \/ TaskExit(t) \/ Troca(t)
    BY <2>2 DEF Setprio, GravaPrioDinamica, GravaPrioEstatica, TaskYield, TaskExit, Troca, Vai
  <2> QED BY <2>1, <2>2
<1>7. m \notin Marcados
  BY ForaDosMarcados
<1> QED BY <1>1, <1>2, <1>3, <1>4, <1>5, <1>6, <1>7, PassoForaDasContas

\* Nor do the ticks: one that takes the processor from a task inside
\* task_create is what "cortes" records.
LEMMA SystickQuieto ==
    ASSUME IInv, Systick
    PROVE  Quieto
<1>1. /\ UNCHANGED <<pc, alvo, reg, maiorId, id, taskCont, saida>> /\ Vivas' = Vivas
  BY VivasIguais DEF Systick, tcb
<1>2. CASE TickDecrementa
  BY <1>1, <1>2, PassoSemAvanco DEF TickDecrementa
<1>3. CASE TickPreempta
  <2>1. cortes' = cortes \cup (IF pc[cpu] \in LugaresId THEN {"id"} ELSE {})
                         \cup (IF pc[cpu] \in LugaresCont THEN {"cont"} ELSE {})
    BY <1>3 DEF TickPreempta
  <2>2. pc[cpu] # "boot"
    <3>1. ASSUME pc[cpu] = "boot" PROVE FALSE
      <4>1. FaseBoot /\ EmJanela
        BY <3>1, Nomes
           DEF IInv, Fases, Codigo, FaseBoot, FaseLaco, FaseJanela, FaseRetorno, FaseUsuario,
               Despachada, Usuarias, EmJanela
      <4>2. quantum = QUANTUM_VAL - janela /\ janela < TicksJanela /\ quantum = 1
        BY <4>1, <1>3 DEF IInv, Relogio, Systick, TickPreempta
      <4>3. janela \in Int
        BY DEF IInv, TypeOK
      <4> QED BY <4>2, <4>3, QuantumAssumption
    <3> QED BY <3>1
  <2>3. cortes \subseteq cortes'
    BY <2>1
  <2>4. "id" \in cortes' \/ pc[cpu] \notin LugaresId
    BY <2>1
  <2>5. "cont" \in cortes' \/ pc[cpu] \notin ForaDaConta
    BY <2>1, <2>2 DEF ForaDaConta
  <2> QED BY <1>1, <2>3, <2>4, <2>5, PassoSemAvanco
<1> QED BY <1>2, <1>3 DEF Systick

\* A malloc that fails and a stutter.
LEMMA FimQuieto ==
    ASSUME IInv, UNCHANGED vars \/ \E t \in Usuarias : CriaSemMemoria(t)
    PROVE  Quieto
<1>1. /\ UNCHANGED <<pc, alvo, reg, maiorId, id, taskCont, cpu, cortes>> /\ Vivas' = Vivas
      /\ saida' = saida \/ saida' # "dispatcher"
  BY VivasIguais DEF vars, CriaSemMemoria, globais, tcb, maquina
<1> QED BY <1>1, PassoSemAvanco

-----------------------------------------------------------------------------
\* The dispatcher moves a task from one queue to the other: the live tasks stay.

LEMMA DespachaVivas ==
    ASSUME IInv, IInv', DispatcherDespacha
    PROVE  Vivas' = Vivas
<1>1. FaseLaco
  BY Nomes DEF IInv, Fases, FaseBoot, FaseJanela, FaseRetorno, FaseUsuario, Despachada, DispatcherDespacha, Em
<1>2. TypeOK /\ filaProntas \in Seq(Usuarias) /\ filaProntas # <<>> /\ SemRepetir(filaProntas)
  BY DEF IInv, TypeOK, Prontas, DispatcherDespacha
<1>3. Escolhida \in ToSet(filaProntas)
  BY <1>2, EscolhidaNaFila, PrioridadesInteiras
<1>4. ToSet(filaProntas') = ToSet(filaProntas) \ {Escolhida}
  BY <1>2, <1>3, RetiraProps DEF DispatcherDespacha
<1>5. ToSet(filaTarefas') = {Dispatcher, Escolhida}
  <2>1. filaTarefas' = <<Dispatcher, Escolhida>>
    BY <1>1, AppendDespachada DEF DispatcherDespacha, FaseLaco
  <2> QED BY <2>1, ToSetFilaTarefas
<1>6. ToSet(filaTarefas) = {Dispatcher}
  BY <1>1, ToSetFilaTarefas DEF FaseLaco
<1> QED BY <1>3, <1>4, <1>5, <1>6 DEF Vivas

LEMMA ProntaVivas ==
    ASSUME IInv, DispatcherPronta
    PROVE  Vivas' = Vivas
<1>1. FaseRetorno
  BY Nomes DEF IInv, Fases, FaseBoot, FaseLaco, FaseJanela, FaseUsuario, Despachada, DispatcherPronta, Em
<1>2. /\ filaProntas \in Seq(Usuarias) /\ tarefaPrevia \in Usuarias /\ tarefaPrevia # Dispatcher
      /\ filaTarefas = <<Dispatcher, tarefaPrevia>>
  BY <1>1, Nomes DEF IInv, TypeOK, FaseRetorno, Despachada
<1>3. ToSet(filaProntas') = ToSet(filaProntas) \cup {tarefaPrevia}
  BY <1>2, AppendProps DEF DispatcherPronta
<1>4. filaTarefas' = <<Dispatcher>>
  BY <1>2, RetiraDespachada DEF DispatcherPronta
<1> QED BY <1>2, <1>3, <1>4, ToSetFilaTarefas DEF Vivas

\* The task it reaps leaves them.
LEMMA RecolheVivas ==
    ASSUME IInv, DispatcherRecolhe
    PROVE  Vivas' = Vivas \ {tarefaPrevia} /\ tarefaPrevia \in Vivas
<1>1. FaseRetorno
  BY Nomes DEF IInv, Fases, FaseBoot, FaseLaco, FaseJanela, FaseUsuario, Despachada, DispatcherRecolhe, Em
<1>2. /\ tarefaPrevia \in Usuarias /\ tarefaPrevia # Dispatcher
      /\ tarefaPrevia \notin ToSet(filaProntas)
      /\ filaTarefas = <<Dispatcher, tarefaPrevia>>
  BY <1>1, Nomes DEF FaseRetorno, Despachada
<1>3. filaProntas' = filaProntas /\ filaTarefas' = <<Dispatcher>>
  BY <1>2, RetiraDespachada DEF DispatcherRecolhe
<1> QED BY <1>2, <1>3, ToSetFilaTarefas DEF Vivas

LEMMA DispatcherQuieto ==
    ASSUME IInv, IInv',
           DispatcherOcioso \/ DispatcherDespacha \/ DispatcherTroca \/ DispatcherPronta
    PROVE  Quieto
<1>1. Vivas' = Vivas
  BY VivasIguais, DespachaVivas, ProntaVivas DEF DispatcherOcioso, DispatcherTroca
<1>2. UNCHANGED <<alvo, reg, maiorId, id, taskCont, cortes, saida>>
  BY DEF DispatcherOcioso, DispatcherDespacha, DispatcherTroca, DispatcherPronta, globais, tcb, maquina
<1>3. CASE DispatcherOcioso
  BY <1>1, <1>2, <1>3, PassoSemAvanco DEF DispatcherOcioso, maquina
<1>4. CASE ~DispatcherOcioso
  <2>1. PICK m \in {"janela", "retorno", "laco"} : pc' = [pc EXCEPT ![Dispatcher] = m]
    BY <1>4 DEF DispatcherDespacha, DispatcherTroca, DispatcherPronta, Vai
  <2>2. cpu = Dispatcher /\ pc[Dispatcher] \notin Marcados /\ m \notin Marcados
    BY <1>4, ForaDosMarcados DEF DispatcherDespacha, DispatcherTroca, DispatcherPronta, Em
  <2> QED BY <1>1, <1>2, <2>1, <2>2, Nomes, PassoForaDasContas
<1> QED BY <1>3, <1>4

-----------------------------------------------------------------------------
\* The identifiers: the steps of task_create on maiorId.

\* The task that executes a step of task_create.
LEMMA CriandoNaCpu ==
    ASSUME IInv, NEW t \in Usuarias, NEW l \in Criando, Em(t, l)
    PROVE  /\ cpu = t /\ t \in Tarefas /\ pc[t] = l
           /\ alvo[t] \in UserTasks /\ alvo[t] \in Tarefas
           /\ pc \in [Tarefas -> LugaresUsuario \cup LugaresDispatcher]
           /\ alvo \in [Tarefas -> Usuarias \cup {NULL}]
           /\ reg \in [Tarefas -> Int] /\ id \in [Tarefas -> Int]
           /\ maiorId \in Int /\ taskCont \in Int
  BY Nomes DEF IInv, TypeOK, Chamadas, DentroDaChamada, Em

LEMMA CriaLeIdIds ==
    ASSUME IInv, IdsInv, NEW t \in Usuarias, NEW e \in UserTasks, CriaLeId(t, e)
    PROVE  IdsInv'
<1>1. /\ t \in Tarefas /\ pc[t] = "livre" /\ cpu = t
      /\ pc \in [Tarefas -> LugaresUsuario \cup LugaresDispatcher]
      /\ alvo \in [Tarefas -> Usuarias \cup {NULL}] /\ reg \in [Tarefas -> Int]
  BY Nomes DEF IInv, TypeOK, CriaLeId, Em
<1>2. Vivas' = Vivas /\ UNCHANGED <<id, maiorId, cpu, cortes>>
  BY VivasIguais DEF CriaLeId, globais, tcb
<1>3. \A x \in Usuarias :
         /\ pc'[x] = IF x = t THEN "gravaId" ELSE pc[x]
         /\ reg'[x] = IF x = t THEN maiorId ELSE reg[x]
         /\ x # t => alvo'[x] = alvo[x]
  BY <1>1, Nomes DEF CriaLeId, Vai
<1>4. Numeradas' \subseteq Numeradas
  BY <1>2, <1>3, NumeradasNaoCrescem
<1> QED BY <1>1, <1>2, <1>3, <1>4, LugaresDasContas DEF IdsInv

LEMMA CriaGravaIdIds ==
    ASSUME IInv, IdsInv, NEW t \in Usuarias, CriaGravaId(t)
    PROVE  IdsInv'
<1> SUFFICES ASSUME "id" \notin cortes' PROVE IdsInv'
  BY DEF IdsInv
<1>1. /\ cpu = t /\ t \in Tarefas /\ pc[t] = "gravaId" /\ maiorId \in Int
      /\ pc \in [Tarefas -> LugaresUsuario \cup LugaresDispatcher] /\ id \in [Tarefas -> Int]
  BY CriandoNaCpu, Lugares DEF CriaGravaId
<1>2. Vivas' = Vivas /\ UNCHANGED <<id, alvo, reg, cpu, cortes>>
  BY VivasIguais DEF CriaGravaId, tcb
<1>3. \A x \in Usuarias : pc'[x] = IF x = t THEN "inicia" ELSE pc[x]
  BY <1>1, Nomes DEF CriaGravaId, Vai
<1>4. Numeradas' \subseteq Numeradas
  BY <1>2, <1>3, NumeradasNaoCrescem
<1>5. maiorId' = maiorId + 1
  BY <1>1, <1>2 DEF CriaGravaId, IdsInv
<1>6. \A x \in Usuarias : pc[x] \in LugaresId => x = t
  BY <1>1, <1>2 DEF IdsInv
<1>7. \A u \in Numeradas' : id[u] \in Int /\ id[u] <= maiorId
  <2>1. Numeradas \subseteq Tarefas
    BY VivasUsuarias, Nomes, Lugares DEF Numeradas, IInv, Chamadas, DentroDaChamada
  <2> QED BY <2>1, <1>1, <1>2, <1>4 DEF IdsInv
<1>8. /\ \A x, u \in Numeradas' : id'[x] = id'[u] => x = u
      /\ \A u \in Numeradas' : id'[u] < maiorId'
  BY <1>1, <1>2, <1>4, <1>5, <1>7 DEF IdsInv
<1>9. \A u \in Numeradas' : id'[u] <= maiorId'
  BY <1>1, <1>2, <1>5, <1>7
<1>10. \A x \in Usuarias : (pc'[x] \in LugaresId => x = cpu') /\ pc'[x] # "gravaId"
  BY <1>1, <1>2, <1>3, <1>6, LugaresDasContas
<1> QED BY <1>8, <1>9, <1>10 DEF IdsInv

\* The identifier given is above all the others, and its owner had none.
LEMMA CriaIniciaIds ==
    ASSUME IInv, IdsInv, NEW t \in Usuarias, CriaInicia(t)
    PROVE  IdsInv'
<1> DEFINE e == alvo[t]
<1> SUFFICES ASSUME "id" \notin cortes' PROVE IdsInv'
  BY DEF IdsInv
<1>1. /\ cpu = t /\ t \in Tarefas /\ pc[t] = "inicia" /\ maiorId \in Int
      /\ e \in Usuarias /\ e \in Tarefas /\ e # Dispatcher
      /\ pc \in [Tarefas -> LugaresUsuario \cup LugaresDispatcher] /\ id \in [Tarefas -> Int]
  BY CriandoNaCpu, Lugares, Nomes DEF CriaInicia
<1>2. e \notin Vivas /\ \A u \in Usuarias : pc[u] = "publica" => alvo[u] # e
  BY <1>1 DEF IInv, Chamadas, DentroDaChamada, AlvosDistintos, AntesDePublicar
<1>3. Vivas' = Vivas /\ UNCHANGED <<alvo, reg, cpu, cortes, maiorId>>
  BY VivasIguais DEF CriaInicia, globais
<1>4. /\ \A x \in Usuarias : pc'[x] = IF x = e THEN "livre" ELSE IF x = t THEN "publica" ELSE pc[x]
      /\ \A x \in Tarefas : id'[x] = IF x = e THEN maiorId ELSE id[x]
  BY <1>1, Nomes DEF CriaInicia
<1> HIDE DEF e
<1>5. e \notin Numeradas /\ Numeradas \subseteq Tarefas
  BY <1>1, <1>2, VivasUsuarias, Nomes, Lugares DEF Numeradas, IInv, Chamadas, DentroDaChamada
<1>6. Numeradas' \subseteq Numeradas \cup {e}
  BY <1>1, <1>3, <1>4 DEF Numeradas, e
<1>7. \A u \in Numeradas : id[u] < maiorId /\ id[u] \in Int
  BY <1>1, <1>3, <1>5 DEF IdsInv
<1>8. /\ \A x, u \in Numeradas' : id'[x] = id'[u] => x = u
      /\ \A u \in Numeradas' : id'[u] <= maiorId'
  BY <1>1, <1>3, <1>4, <1>5, <1>6, <1>7 DEF IdsInv
<1>9. \A x \in Usuarias : pc'[x] \notin LugaresId
  BY <1>1, <1>3, <1>4, LugaresDasContas DEF IdsInv
<1> QED BY <1>8, <1>9, LugaresDasContas DEF IdsInv

\* Publishing a task, counting it, and reaping one leave the identifiers alone.
LEMMA CriaPublicaVivas ==
    ASSUME IInv, NEW t \in Usuarias, CriaPublica(t)
    PROVE  Vivas' = Vivas \cup {alvo[t]} /\ alvo[t] \notin Vivas
<1>1. pc[t] = "publica" /\ alvo[t] \in Usuarias /\ alvo[t] # Dispatcher
  BY CriandoNaCpu, Lugares, Nomes DEF CriaPublica
<1>2. alvo[t] \notin Vivas
  BY <1>1 DEF IInv, Chamadas, DentroDaChamada, AntesDePublicar
<1>3. ToSet(filaProntas') = ToSet(filaProntas) \cup {alvo[t]} /\ filaTarefas' = filaTarefas
  BY <1>1, AppendProps DEF CriaPublica, IInv, TypeOK
<1> QED BY <1>1, <1>2, <1>3 DEF Vivas

LEMMA ContagemQuietaId ==
    ASSUME IInv,
           \/ \E t \in Usuarias : CriaPublica(t) \/ CriaLeCont(t) \/ CriaGravaCont(t)
           \/ PposInit \/ DispatcherFim \/ DispatcherRecolhe
    PROVE  QuietoId
<1>1. UNCHANGED <<maiorId, id, cortes, alvo>>
  BY DEF CriaPublica, CriaLeCont, CriaGravaCont, PposInit, DispatcherFim, DispatcherRecolhe,
     globais, tcb, maquina
<1>2. pc \in [Tarefas -> LugaresUsuario \cup LugaresDispatcher] /\ reg \in [Tarefas -> Int]
  BY DEF IInv, TypeOK
<1>3. ASSUME NEW t \in Usuarias, CriaPublica(t) PROVE QuietoId
  <2>1. pc[t] = "publica" /\ cpu' = cpu /\ reg' = reg /\ pc' = [pc EXCEPT ![t] = "leCont"]
    BY <1>3 DEF CriaPublica, Em, Vai
  <2>2. Vivas' = Vivas \cup {alvo[t]}
    BY <1>3, CriaPublicaVivas
  <2>3. \A x \in Usuarias : pc'[x] = IF x = t THEN "leCont" ELSE pc[x]
    BY <2>1, <1>2, Nomes
  <2>4. Numeradas' \subseteq Numeradas
    BY <1>1, <2>1, <2>2, <2>3 DEF Numeradas
  <2> QED BY <1>1, <2>1, <2>3, <2>4, LugaresDasContas DEF QuietoId
<1>4. ASSUME NEW t \in Usuarias, CriaLeCont(t) \/ CriaGravaCont(t) PROVE QuietoId
  <2>1. PICK m \in {"gravaCont", "gravaDin"} : pc' = [pc EXCEPT ![t] = m]
    BY <1>4 DEF CriaLeCont, CriaGravaCont, Vai
  <2>2. cpu' = cpu /\ \A x \in Usuarias \ {t} : reg'[x] = reg[x]
    BY <1>2, <1>4, Nomes DEF CriaLeCont, CriaGravaCont
  <2>3. \A x \in Usuarias : pc'[x] = IF x = t THEN m ELSE pc[x]
    BY <2>1, <1>2, Nomes
  <2>4. Vivas' = Vivas
    BY <1>4, VivasIguais DEF CriaLeCont, CriaGravaCont
  <2>5. Numeradas' \subseteq Numeradas
    BY <1>1, <2>3, <2>4, NumeradasNaoCrescem
  <2> QED BY <1>1, <2>2, <2>3, <2>5, LugaresDasContas DEF QuietoId
<1>5. CASE PposInit
  <2>1. cpu = Main /\ pc[Main] = "boot" /\ reg' = reg /\ pc' = [pc EXCEPT ![Main] = "livre"]
    BY <1>5 DEF PposInit, Em, Vai
  <2>2. \A x \in Usuarias : pc'[x] = IF x = Main THEN "livre" ELSE pc[x]
    BY <2>1, <1>2, Nomes
  <2>3. Numeradas' \subseteq Numeradas
    BY <1>1, <1>5, <2>2, VivasIguais, NumeradasNaoCrescem DEF PposInit
  <2> QED BY <1>1, <2>1, <2>2, <2>3, LugaresDasContas DEF QuietoId
<1>6. CASE DispatcherFim
  <2>1. UNCHANGED <<cpu, reg, pc>>
    BY <1>6 DEF DispatcherFim, maquina
  <2>2. Numeradas' \subseteq Numeradas
    BY <1>1, <1>6, <2>1, VivasIguais, NumeradasNaoCrescem DEF DispatcherFim
  <2> QED BY <1>1, <2>1, <2>2 DEF QuietoId
<1>7. CASE DispatcherRecolhe
  <2>1. cpu' = cpu /\ reg' = reg /\ pc' = [pc EXCEPT ![Dispatcher] = "laco"]
    BY <1>7 DEF DispatcherRecolhe, Vai
  <2>2. \A x \in Usuarias : pc'[x] = pc[x]
    BY <2>1, <1>2, Nomes
  <2>3. Numeradas' \subseteq Numeradas
    BY <1>1, <1>7, <2>2, RecolheVivas, NumeradasNaoCrescem
  <2> QED BY <1>1, <2>1, <2>2, <2>3 DEF QuietoId
<1> QED BY <1>3, <1>4, <1>5, <1>6, <1>7

-----------------------------------------------------------------------------
\* The count of tasks: the steps of task_create on taskCont, and the dispatcher.

LEMMA IdsQuietaCont ==
    ASSUME IInv, NEW t \in Usuarias,
           \/ \E e \in UserTasks : CriaLeId(t, e)
           \/ CriaGravaId(t) \/ CriaInicia(t)
    PROVE  QuietoCont
<1>1. /\ pc \in [Tarefas -> LugaresUsuario \cup LugaresDispatcher] /\ reg \in [Tarefas -> Int]
      /\ t \in Tarefas
  BY Nomes DEF IInv, TypeOK
<1>2. UNCHANGED <<taskCont, cortes, cpu, saida>> /\ Vivas' = Vivas
  BY VivasIguais DEF CriaLeId, CriaGravaId, CriaInicia, globais
<1>3. CASE (\E e \in UserTasks : CriaLeId(t, e)) \/ CriaGravaId(t)
  <2>1. PICK m \in {"gravaId", "inicia"} : pc' = [pc EXCEPT ![t] = m]
    BY <1>3 DEF CriaLeId, CriaGravaId, Vai
  <2>2. pc[t] \notin ForaDaConta /\ \A x \in Usuarias \ {t} : reg'[x] = reg[x]
    BY <1>1, <1>3, Nomes, LugaresDasContas DEF CriaLeId, CriaGravaId, Em
  <2>3. \A x \in Usuarias : pc'[x] = IF x = t THEN m ELSE pc[x]
    BY <2>1, <1>1, Nomes
  <2> QED BY <1>2, <2>2, <2>3, LugaresDasContas DEF QuietoCont
<1>4. CASE CriaInicia(t)
  <2> DEFINE e == alvo[t]
  <2>1. e \in Tarefas /\ pc[t] = "inicia" /\ e \notin Vivas /\ e \in Usuarias
    BY <1>4, CriandoNaCpu, Lugares, Nomes
       DEF CriaInicia, IInv, Chamadas, DentroDaChamada, AntesDePublicar
  <2>2. pc[e] \in {"livre", "troca"}
    BY <2>1 DEF IInv, Codigo
  <2>3. \A x \in Usuarias : pc'[x] = IF x = e THEN "livre" ELSE IF x = t THEN "publica" ELSE pc[x]
    BY <1>1, <1>4, <2>1, Nomes DEF CriaInicia
  <2>4. reg' = reg
    BY <1>4 DEF CriaInicia
  <2> HIDE DEF e
  <2> QED BY <1>2, <2>1, <2>2, <2>3, <2>4, LugaresDasContas DEF QuietoCont
<1> QED BY <1>3, <1>4

LEMMA VivasFinitas ==
    ASSUME IInv
    PROVE  IsFiniteSet(Vivas) /\ Cardinality(Vivas) \in Nat /\ taskCont \in Int
<1>1. IsFiniteSet(Usuarias)
  BY NomesAssumption, FS_AddElement DEF Usuarias
<1>2. IsFiniteSet(Vivas)
  BY <1>1, VivasUsuarias, FS_Subset DEF IInv
<1> QED BY <1>2, FS_CardinalityType DEF IInv, TypeOK

\* From publication to count: one task more is live and not counted.
LEMMA CriaPublicaCont ==
    ASSUME IInv, ContInv, NEW t \in Usuarias, CriaPublica(t)
    PROVE  ContInv'
<1> SUFFICES ASSUME "cont" \notin cortes' PROVE ContInv'
  BY DEF ContInv
<1>1. /\ cpu = t /\ t \in Tarefas /\ pc[t] = "publica"
      /\ pc \in [Tarefas -> LugaresUsuario \cup LugaresDispatcher]
  BY CriandoNaCpu, Lugares DEF CriaPublica
<1>2. UNCHANGED <<taskCont, cpu, reg, cortes>> /\ saida' = "nenhuma"
  BY DEF CriaPublica, globais, Em
<1>3. \A x \in Usuarias : pc'[x] = IF x = t THEN "leCont" ELSE pc[x]
  BY <1>1, Nomes DEF CriaPublica, Vai
<1>4. Cardinality(Vivas') = Cardinality(Vivas) + 1
  BY CriaPublicaVivas, VivasFinitas, FS_AddElement
<1>5. taskCont = Cardinality(Vivas) /\ \A x \in Usuarias : pc[x] \notin ForaDaConta
  BY <1>1, <1>2, VivasFinitas, LugaresDasContas DEF ContInv
<1>6. taskCont' = Cardinality(Vivas') - 1
  BY <1>2, <1>4, <1>5, VivasFinitas
<1>7. pc'[cpu'] = "leCont" /\ "leCont" \in ForaDaConta
  BY <1>1, <1>2, <1>3, LugaresDasContas
<1>8. /\ \A x \in Usuarias : pc'[x] \in ForaDaConta => x = cpu'
      /\ \A x \in Usuarias : pc'[x] # "gravaCont"
  BY <1>1, <1>2, <1>3, <1>5, LugaresDasContas
<1> QED BY <1>2, <1>6, <1>7, <1>8 DEF ContInv

LEMMA CriaLeContCont ==
    ASSUME IInv, ContInv, NEW t \in Usuarias, CriaLeCont(t)
    PROVE  ContInv'
<1> SUFFICES ASSUME "cont" \notin cortes' PROVE ContInv'
  BY DEF ContInv
<1>1. /\ cpu = t /\ t \in Tarefas /\ pc[t] = "leCont"
      /\ pc \in [Tarefas -> LugaresUsuario \cup LugaresDispatcher] /\ reg \in [Tarefas -> Int]
  BY CriandoNaCpu, Lugares DEF CriaLeCont, IInv, TypeOK
<1>2. UNCHANGED <<taskCont, cpu, cortes>> /\ saida' = "nenhuma" /\ Vivas' = Vivas
  BY VivasIguais DEF CriaLeCont, globais, Em
<1>3. \A x \in Usuarias :
         /\ pc'[x] = IF x = t THEN "gravaCont" ELSE pc[x]
         /\ reg'[x] = IF x = t THEN taskCont ELSE reg[x]
  BY <1>1, Nomes DEF CriaLeCont, Vai
<1>4. /\ taskCont = Cardinality(Vivas) - 1
      /\ \A x \in Usuarias : pc[x] \in ForaDaConta => x = t
  BY <1>1, <1>2, LugaresDasContas DEF ContInv
<1>5. pc'[cpu'] \in ForaDaConta
  BY <1>1, <1>2, <1>3, LugaresDasContas
<1>6. \A x \in Usuarias : pc'[x] \in ForaDaConta => x = cpu'
  BY <1>1, <1>2, <1>3, <1>4
<1>7. \A x \in Usuarias : pc'[x] = "gravaCont" => reg'[x] = taskCont'
  BY <1>2, <1>3, <1>4, LugaresDasContas
<1> QED BY <1>2, <1>4, <1>5, <1>6, <1>7 DEF ContInv

\* The store uses the value loaded, which is still that of taskCont.
LEMMA CriaGravaContCont ==
    ASSUME IInv, ContInv, NEW t \in Usuarias, CriaGravaCont(t)
    PROVE  ContInv'
<1> SUFFICES ASSUME "cont" \notin cortes' PROVE ContInv'
  BY DEF ContInv
<1>1. /\ cpu = t /\ t \in Tarefas /\ pc[t] = "gravaCont"
      /\ pc \in [Tarefas -> LugaresUsuario \cup LugaresDispatcher]
  BY CriandoNaCpu, Lugares DEF CriaGravaCont
<1>2. UNCHANGED <<cpu, cortes>> /\ saida' = "nenhuma" /\ Vivas' = Vivas
  BY VivasIguais DEF CriaGravaCont, Em
<1>3. \A x \in Usuarias : pc'[x] = IF x = t THEN "gravaDin" ELSE pc[x]
  BY <1>1, Nomes DEF CriaGravaCont, Vai
<1>4. /\ taskCont = Cardinality(Vivas) - 1 /\ reg[t] = taskCont
      /\ \A x \in Usuarias : pc[x] \in ForaDaConta => x = t
  BY <1>1, <1>2, LugaresDasContas DEF ContInv
<1>5. taskCont' = Cardinality(Vivas')
  BY <1>2, <1>4, VivasFinitas DEF CriaGravaCont
<1>6. \A x \in Usuarias : pc'[x] \notin ForaDaConta
  BY <1>3, <1>4, LugaresDasContas
<1>7. pc'[cpu'] \notin ForaDaConta
  BY <1>1, <1>2, <1>6
<1>8. taskCont' = Cardinality(Vivas') - 0
  BY <1>2, <1>5, VivasFinitas
<1> QED BY <1>2, <1>6, <1>7, <1>8, LugaresDasContas DEF ContInv

\* main counts itself at the end of ppos_init.
LEMMA PposInitCont ==
    ASSUME IInv, IInv', ContInv, PposInit
    PROVE  ContInv'
<1> SUFFICES ASSUME "cont" \notin cortes' PROVE ContInv'
  BY DEF ContInv
<1>1. cpu = Main /\ pc[Main] = "boot" /\ pc \in [Tarefas -> LugaresUsuario \cup LugaresDispatcher]
  BY DEF PposInit, Em, IInv, TypeOK
<1>2. cortes' = cortes /\ saida' = "nenhuma" /\ Vivas' = Vivas /\ taskCont' = taskCont + 1
  BY VivasIguais DEF PposInit, Em
<1>3. \A x \in Usuarias : pc'[x] = IF x = Main THEN "livre" ELSE pc[x]
  BY <1>1, Nomes DEF PposInit, Vai
<1>4. taskCont = Cardinality(Vivas) - 1 /\ \A x \in Usuarias : pc[x] \in ForaDaConta => x = Main
  BY <1>1, <1>2, LugaresDasContas DEF ContInv
<1>5. \A x \in Usuarias : pc'[x] \notin ForaDaConta
  BY <1>3, <1>4, LugaresDasContas
<1>6. pc'[cpu'] \notin ForaDaConta
  BY <1>5, LugaresDasContas DEF IInv, TypeOK, Codigo, Tarefas
<1>7. taskCont' = Cardinality(Vivas') - 0
  BY <1>2, <1>4, VivasFinitas
<1> QED BY <1>2, <1>5, <1>6, <1>7, LugaresDasContas DEF ContInv

\* The dispatcher runs, so no task is half counted: taskCont is exact when it
\* decides to end, and when it counts a terminated task out.
LEMMA DispatcherCont ==
    ASSUME IInv, ContInv, DispatcherFim \/ DispatcherRecolhe
    PROVE  ContInv'
<1> SUFFICES ASSUME "cont" \notin cortes' PROVE ContInv'
  BY DEF ContInv
<1>1. /\ cpu = Dispatcher /\ cpu' = cpu /\ cortes' = cortes
      /\ pc[Dispatcher] \notin ForaDaConta
      /\ pc \in [Tarefas -> LugaresUsuario \cup LugaresDispatcher]
  BY LugaresDasContas DEF DispatcherFim, DispatcherRecolhe, Em, maquina, IInv, TypeOK, Codigo
<1>2. taskCont = Cardinality(Vivas) /\ \A x \in Usuarias : pc[x] \notin ForaDaConta
  BY <1>1, VivasFinitas, Nomes DEF ContInv
<1>3. CASE DispatcherFim
  <2>1. UNCHANGED <<pc, taskCont>> /\ Vivas' = Vivas
    BY <1>3, VivasIguais DEF DispatcherFim, globais, maquina
  <2>2. Vivas = {}
    BY <1>2, <1>3, VivasFinitas, FS_EmptySet DEF DispatcherFim
  <2>3. taskCont' = Cardinality(Vivas') - 0
    BY <1>2, <2>1, VivasFinitas
  <2> QED BY <1>1, <1>2, <2>1, <2>2, <2>3, LugaresDasContas DEF ContInv
<1>4. CASE DispatcherRecolhe
  <2>1. saida' = "nenhuma" /\ pc' = [pc EXCEPT ![Dispatcher] = "laco"]
    BY <1>4 DEF DispatcherRecolhe, Em, Vai
  <2>2. pc'[Dispatcher] = "laco" /\ \A x \in Usuarias : pc'[x] = pc[x]
    BY <1>1, <2>1, Nomes
  <2>3. Cardinality(Vivas') = Cardinality(Vivas) - 1
    BY <1>4, RecolheVivas, VivasFinitas, FS_RemoveElement
  <2>4. taskCont' = Cardinality(Vivas') - 0
    BY <1>2, <1>4, <2>3, VivasFinitas DEF DispatcherRecolhe
  <2> QED BY <1>1, <1>2, <2>1, <2>2, <2>4, LugaresDasContas DEF ContInv
<1> QED BY <1>3, <1>4

-----------------------------------------------------------------------------
\* The invariants of the counters.

LEMMA InitContas == Init => IdsInv /\ ContInv
<1> SUFFICES ASSUME Init PROVE IdsInv /\ ContInv
  OBVIOUS
<1>1. \A x \in Tarefas :
         pc[x] = IF x = Main THEN "boot" ELSE IF x = Dispatcher THEN "laco" ELSE "livre"
  BY Nomes DEF Init
<1>2. Vivas = {Main}
  <2>1. ToSet(<<Main>>) = {Main}
    BY DEF ToSet
  <2> QED BY <2>1, ToSetFilaTarefas, Nomes DEF Vivas, Init
<1>3. Numeradas = {Main, Dispatcher}
  BY <1>1, <1>2, Nomes DEF Numeradas
<1>4. IdsInv
  <2>1. id[Main] = 0 /\ id[Dispatcher] = 1 /\ maiorId = 1 /\ Main # Dispatcher
    BY Nomes DEF Init
  <2> QED BY <1>1, <1>3, <2>1, Nomes, LugaresDasContas DEF IdsInv
<1>5. ContInv
  <2>1. taskCont = 0 /\ cpu = Main /\ saida = "nenhuma"
    BY DEF Init
  <2>2. Cardinality(Vivas) = 1
    BY <1>2, FS_Singleton
  <2> QED BY <1>1, <2>1, <2>2, Nomes, LugaresDasContas DEF ContInv
<1> QED BY <1>4, <1>5

LEMMA NextContas ==
    ASSUME IInv, IInv', IdsInv, ContInv, [Next]_vars
    PROVE  IdsInv' /\ ContInv'
<1>1. Quieto => IdsInv' /\ ContInv'
  BY QuietoIdPreserva, QuietoContPreserva DEF Quieto
<1>2. CASE PposInit
  BY <1>2, ContagemQuietaId, QuietoIdPreserva, PposInitCont
<1>3. ASSUME NEW t \in Usuarias, UsuarioNext(t) PROVE IdsInv' /\ ContInv'
  <2>1. ASSUME NEW e \in UserTasks, CriaLeId(t, e) PROVE IdsInv' /\ ContInv'
    BY <2>1, CriaLeIdIds, IdsQuietaCont, QuietoContPreserva
  <2> QED BY <1>1, <1>3, <2>1, UsuarioQuieto DEF UsuarioNext
<1>4. ASSUME NEW t \in Usuarias, ChamadaNext(t) PROVE IdsInv' /\ ContInv'
  <2>1. CASE CriaGravaId(t) \/ CriaInicia(t)
    BY <2>1, CriaGravaIdIds, CriaIniciaIds, IdsQuietaCont, QuietoContPreserva
  <2>2. CASE CriaPublica(t) \/ CriaLeCont(t) \/ CriaGravaCont(t)
    BY <2>2, ContagemQuietaId, QuietoIdPreserva, CriaPublicaCont, CriaLeContCont, CriaGravaContCont
  <2>3. CASE CriaSemMemoria(t)
    BY <1>1, <2>3, FimQuieto
  <2>4. CASE GravaPrioDinamica(t) \/ GravaPrioEstatica(t) \/ Troca(t)
    BY <1>1, <2>4, UsuarioQuieto
  <2> QED BY <1>4, <2>1, <2>2, <2>3, <2>4 DEF ChamadaNext
<1>5. CASE Systick
  BY <1>1, <1>5, SystickQuieto
<1>6. CASE DispatcherNext
  <2>1. CASE DispatcherFim \/ DispatcherRecolhe
    BY <2>1, ContagemQuietaId, QuietoIdPreserva, DispatcherCont
  <2>2. CASE DispatcherOcioso \/ DispatcherDespacha \/ DispatcherTroca \/ DispatcherPronta
    BY <1>1, <2>2, DispatcherQuieto
  <2> QED BY <1>6, <2>1, <2>2 DEF DispatcherNext
<1>7. CASE UNCHANGED vars
  BY <1>1, <1>7, FimQuieto
<1> QED BY <1>2, <1>3, <1>4, <1>5, <1>6, <1>7 DEF Next, Encerrado

THEOREM ContasInvariantes == Spec => [](IInv /\ IdsInv /\ ContInv)
  BY InitInv, NextInv, InitContas, NextContas, PTL DEF Spec

\* The identifiers of the live tasks and of the dispatcher differ, whatever is
\* created, ended and created again, as long as no preemption falls between the
\* accesses of task_create to maiorId.
THEOREM IdsSempreUnicos == Spec => []IdsUnicos
<1>1. IdsInv => IdsUnicos
  BY DEF IdsInv, IdsUnicos, Numeradas
<1> QED BY <1>1, ContasInvariantes, PTL

\* taskCont is the number of live tasks, and the dispatcher ends the process
\* only when there is none, as long as no preemption falls between the
\* publication of a task and the store that counts it.
THEOREM ContadorSempreExato == Spec => []ContadorExato
<1>1. ContInv => ContadorExato
  BY DEF ContInv, ContadorExato, ForaDaConta
<1> QED BY <1>1, ContasInvariantes, PTL

-----------------------------------------------------------------------------
\* Ageing.  The smallest priority in use is the measure; what is below it is
\* reached by waiting only.

LEMMA MinimaDasPrios ==
    PrioMinima \in Prios /\ PrioMinima \in Int /\ \A q \in Prios : PrioMinima <= q
<1> DEFINE S == {n \in Nat : n - 20 \in Prios}
<1>1. S \in SUBSET Nat /\ 20 \in S
  BY PriosAssumption
<1>2. PICK m \in S : \A k \in S : m <= k
  <2> HIDE DEF S
  <2> QED BY <1>1, Minimo
<1>3. \A q \in Prios : q + 20 \in S /\ q \in Int
  BY PriosAssumption
<1>4. m - 20 \in Prios /\ \A q \in Prios : m - 20 <= q
  BY <1>2, <1>3
<1>5. \E p \in Prios : \A q \in Prios : p <= q
  BY <1>4
<1>6. PrioMinima \in Prios /\ \A q \in Prios : PrioMinima <= q
  BY <1>5 DEF PrioMinima
<1> QED BY <1>6, Prioridades

LEMMA TotalDeUsuarias ==
    IsFiniteSet(Usuarias) /\ Cardinality(Usuarias) \in Nat \ {0}
<1>1. IsFiniteSet(Usuarias) /\ Usuarias # {}
  BY NomesAssumption, FS_AddElement DEF Usuarias
<1> QED BY <1>1, FS_CardinalityType, FS_EmptySet

\* A step that does not dispatch: no task leaves filaProntas, and a priority
\* stays or is set to one that is in use.
LEMMA EnvelheceQuieto ==
    ASSUME TypeOK, TypeOK', EnvelheceInv, UNCHANGED tarefaPrevia,
           ToSet(filaProntas) \subseteq ToSet(filaProntas'),
           \A t \in Usuarias : prioDinamica'[t] = prioDinamica[t] \/ prioDinamica'[t] \in Prios
    PROVE  EnvelheceInv'
<1>1. /\ \A t \in Usuarias : prioDinamica[t] \in Int /\ prioDinamica'[t] \in Int
      /\ tarefaPrevia # NULL => tarefaPrevia \in Usuarias
  BY Nomes DEF TypeOK
<1>2. \A t \in Usuarias : prioDinamica'[t] = prioDinamica[t] \/ prioDinamica'[t] >= PrioMinima
  BY MinimaDasPrios
<1>3. \A t \in Usuarias \ {tarefaPrevia'} :
         t \notin ToSet(filaProntas') => prioDinamica'[t] >= PrioMinima
  BY <1>1, <1>2 DEF EnvelheceInv
<1>4. ASSUME NEW k \in 1..Cardinality(Usuarias)
      PROVE  Cardinality(Abaixo(k)') + k <= Cardinality(Usuarias)
  <2>1. k \in Int /\ k >= 1
    BY TotalDeUsuarias
  <2>2. Abaixo(k)' \subseteq Abaixo(k) /\ Abaixo(k) \subseteq Usuarias
    BY <1>1, <1>2, <2>1, MinimaDasPrios DEF Abaixo
  <2>3. Cardinality(Abaixo(k)') <= Cardinality(Abaixo(k))
    BY <2>2, TotalDeUsuarias, FS_Subset
  <2>4. Cardinality(Abaixo(k)') \in Nat /\ Cardinality(Abaixo(k)) \in Nat
    BY <2>2, TotalDeUsuarias, FS_Subset, FS_CardinalityType
  <2>5. Cardinality(Abaixo(k)) + k <= Cardinality(Usuarias)
    BY DEF EnvelheceInv
  <2> QED BY <2>1, <2>3, <2>4, <2>5, TotalDeUsuarias
<1>5. tarefaPrevia' # NULL =>
         prioDinamica'[tarefaPrevia'] >= PrioMinima - Cardinality(Usuarias)
  BY <1>1, <1>2, MinimaDasPrios, TotalDeUsuarias DEF EnvelheceInv
<1> QED BY <1>3, <1>4, <1>5 DEF EnvelheceInv

\* What the scheduler does to the priorities: the one that ran last is back at
\* its own, less one if it is the head; a waiting task goes down by one; the
\* rest stay.
LEMMA Envelhecimento ==
    ASSUME TypeOK, NEW t \in Usuarias
    PROVE  /\ PrioEnvelhecida[t] \in Int
           /\ t = tarefaPrevia => PrioEnvelhecida[t] >= PrioMinima - 1
           /\ t # tarefaPrevia /\ t \in ToSet(filaProntas) => PrioEnvelhecida[t] = prioDinamica[t] - 1
           /\ t # tarefaPrevia /\ t \notin ToSet(filaProntas) => PrioEnvelhecida[t] = prioDinamica[t]
           /\ t = tarefaPrevia /\ t \notin ToSet(filaProntas) => PrioEnvelhecida[t] >= PrioMinima
<1>1. /\ t \in Tarefas /\ t # NULL /\ prioDinamica[t] \in Int
      /\ prioEstatica[t] \in Int /\ prioEstatica[t] >= PrioMinima
      /\ prioDinamica \in [Tarefas -> Int] /\ PrioMinima \in Int
  BY Nomes, Prioridades, MinimaDasPrios DEF TypeOK
<1>2. PrioInicial[t] = IF t = tarefaPrevia THEN prioEstatica[t] ELSE prioDinamica[t]
  BY <1>1 DEF PrioInicial
<1>3. PrioEnvelhecida[t] = IF Envelhece(t) THEN PrioInicial[t] - 1 ELSE PrioInicial[t]
  BY <1>1 DEF PrioEnvelhecida
<1>4. /\ t # tarefaPrevia /\ t \in ToSet(filaProntas) => Envelhece(t)
      /\ t \notin ToSet(filaProntas) => ~Envelhece(t)
  BY DEF Envelhece
<1> QED BY <1>1, <1>2, <1>3, <1>4

LEMMA EscolhidaMinima ==
    ASSUME filaProntas \in Seq(Usuarias), PrioEnvelhecida \in [Tarefas -> Int],
           NEW t \in ToSet(filaProntas)
    PROVE  PrioEnvelhecida[Escolhida] <= PrioEnvelhecida[t]
<1> DEFINE k == CHOOSE i \in 1..Len(filaProntas) : Vence(i)
<1>1. PICK j \in 1..Len(filaProntas) : filaProntas[j] = t
  BY DEF ToSet
<1>2. k \in 1..Len(filaProntas) /\ Vence(k)
  BY <1>1, VencedorExiste
<1>3. Escolhida = filaProntas[k]
  BY DEF Escolhida
<1> HIDE DEF k
<1>4. /\ filaProntas[k] \in Tarefas /\ filaProntas[j] \in Tarefas
  BY <1>1, <1>2 DEF Tarefas
<1> QED BY <1>1, <1>2, <1>3, <1>4 DEF Vence

LEMMA EnvelheceOcioso ==
    ASSUME IInv, IInv', EnvelheceInv, DispatcherOcioso
    PROVE  EnvelheceInv'
<1>1. filaProntas = <<>> /\ prioDinamica' = PrioInicial /\ tarefaPrevia' = NULL
  BY DEF DispatcherOcioso
<1>2. ASSUME NEW t \in Usuarias PROVE prioDinamica'[t] \in Int /\ prioDinamica'[t] >= PrioMinima
  <2>1. t \in Tarefas /\ t # NULL /\ prioDinamica \in [Tarefas -> Int] /\ prioEstatica[t] \in Prios
    BY Nomes DEF IInv, TypeOK
  <2>2. PrioInicial[t] = IF t = tarefaPrevia THEN prioEstatica[t] ELSE prioDinamica[t]
    BY <2>1 DEF PrioInicial
  <2>3. t \notin ToSet(filaProntas)
    BY <1>1 DEF ToSet
  <2>4. t # tarefaPrevia => prioDinamica[t] >= PrioMinima
    BY <2>3 DEF EnvelheceInv
  <2> QED BY <1>1, <2>1, <2>2, <2>4, MinimaDasPrios, Prioridades
<1>3. ASSUME NEW k \in 1..Cardinality(Usuarias)
      PROVE  Cardinality(Abaixo(k)') + k <= Cardinality(Usuarias)
  <2>1. k \in Int /\ k >= 1 /\ k <= Cardinality(Usuarias)
    BY TotalDeUsuarias
  <2>2. Abaixo(k)' = {}
    BY <1>2, <2>1, MinimaDasPrios DEF Abaixo
  <2> QED BY <2>1, <2>2, FS_EmptySet
<1> QED BY <1>1, <1>2, <1>3 DEF EnvelheceInv

\* The dispatch: who waits at k below was at k - 1 below with the task taken.
LEMMA EnvelheceDespacha ==
    ASSUME IInv, IInv', EnvelheceInv, DispatcherDespacha
    PROVE  EnvelheceInv'
<1> DEFINE e == Escolhida
           n == Cardinality(Usuarias)
           Desce(k) == {t \in Usuarias \ {e} : PrioEnvelhecida[t] <= PrioMinima - k}
<1>1. /\ TypeOK /\ filaProntas \in Seq(Usuarias) /\ filaProntas # <<>>
      /\ SemRepetir(filaProntas) /\ PrioEnvelhecida \in [Tarefas -> Int]
  BY PrioridadesInteiras DEF IInv, TypeOK, Prontas, DispatcherDespacha
<1>2. e \in ToSet(filaProntas) /\ e \in Usuarias
  BY <1>1, EscolhidaNaFila
<1>3. \A t \in ToSet(filaProntas) : PrioEnvelhecida[e] <= PrioEnvelhecida[t]
  BY <1>1, EscolhidaMinima
<1>4. ToSet(filaProntas') = ToSet(filaProntas) \ {e}
  BY <1>1, <1>2, RetiraProps DEF DispatcherDespacha
<1>5. prioDinamica' = PrioEnvelhecida /\ tarefaPrevia' = e
  BY DEF DispatcherDespacha
<1> HIDE DEF e
<1>6. /\ n \in Nat /\ n >= 1 /\ PrioMinima \in Int
      /\ \A t \in Usuarias : PrioEnvelhecida[t] \in Int /\ prioDinamica[t] \in Int
  <2>1. \A t \in Usuarias : PrioEnvelhecida[t] \in Int /\ prioDinamica[t] \in Int
    BY <1>1, Nomes DEF TypeOK
  <2> QED BY <2>1, TotalDeUsuarias, MinimaDasPrios
<1>7. \A t \in Usuarias : t \notin ToSet(filaProntas) => PrioEnvelhecida[t] >= PrioMinima
  BY <1>1, Envelhecimento DEF EnvelheceInv
<1>8. \A t \in Usuarias \ {e} : t \notin ToSet(filaProntas') => prioDinamica'[t] >= PrioMinima
  BY <1>4, <1>5, <1>7
\* A priority two or more below belongs to a task that waited.
<1>9. ASSUME NEW k \in Int, k >= 2, NEW t \in Usuarias, PrioEnvelhecida[t] <= PrioMinima - k
      PROVE  t \in ToSet(filaProntas) /\ t \in Abaixo(k - 1)
  <2>1. t \in ToSet(filaProntas) /\ t # tarefaPrevia
    BY <1>1, <1>6, <1>7, <1>9, Envelhecimento
  <2>2. PrioEnvelhecida[t] = prioDinamica[t] - 1
    BY <1>1, <2>1, Envelhecimento
  <2> QED BY <1>6, <1>9, <2>1, <2>2 DEF Abaixo
<1>10. \A k \in Int : Abaixo(k) \in SUBSET Usuarias /\ IsFiniteSet(Abaixo(k))
  <2>1. \A k \in Int : Abaixo(k) \in SUBSET Usuarias
    BY DEF Abaixo
  <2> QED BY <2>1, TotalDeUsuarias, FS_Subset
<1>11. ASSUME NEW k \in 1..n PROVE Cardinality(Desce(k)) + k <= n
  <2>1. k \in Int /\ k >= 1 /\ k <= n
    BY <1>6
  <2>2. Desce(k) \subseteq Usuarias \ {e} /\ IsFiniteSet(Usuarias \ {e})
    BY TotalDeUsuarias, FS_Subset
  <2>3. IsFiniteSet(Desce(k)) /\ Cardinality(Desce(k)) \in Nat
    BY <2>2, FS_Subset, FS_CardinalityType
  <2>4. CASE k = 1
    <3>1. Cardinality(Usuarias \ {e}) = n - 1
      BY <1>2, TotalDeUsuarias, FS_RemoveElement
    <3>2. Cardinality(Desce(k)) <= n - 1
      BY <2>2, <3>1, FS_Subset
    <3> QED BY <1>6, <2>3, <2>4, <3>2
  <2>5. CASE k >= 2 /\ Desce(k) = {}
    BY <2>1, <2>5, FS_EmptySet
  <2>6. CASE k >= 2 /\ Desce(k) # {}
    <3>1. PICK u \in Desce(k) : u \in Usuarias /\ PrioEnvelhecida[u] <= PrioMinima - k
      BY <2>6
    <3>2. u \in ToSet(filaProntas)
      BY <1>9, <2>1, <2>6, <3>1
    <3>3. PrioEnvelhecida[e] <= PrioMinima - k
      BY <1>2, <1>3, <1>6, <2>1, <3>1, <3>2
    <3>4. e \in Abaixo(k - 1)
      BY <1>2, <1>9, <2>1, <2>6, <3>3
    <3>5. Desce(k) \subseteq Abaixo(k - 1) \ {e}
      BY <1>9, <2>1, <2>6
    <3>6. k - 1 \in 1..n /\ k - 1 \in Int
      BY <1>6, <2>1, <2>6
    <3>7. Cardinality(Abaixo(k - 1)) + (k - 1) <= n
      BY <3>6 DEF EnvelheceInv
    <3>8. /\ IsFiniteSet(Abaixo(k - 1) \ {e})
          /\ Cardinality(Abaixo(k - 1) \ {e}) = Cardinality(Abaixo(k - 1)) - 1
      BY <1>10, <3>4, <3>6, FS_RemoveElement
    <3>9. Cardinality(Desce(k)) <= Cardinality(Abaixo(k - 1) \ {e})
      BY <3>5, <3>8, FS_Subset
    <3>10. Cardinality(Abaixo(k - 1)) \in Nat
      BY <1>10, <3>6, FS_CardinalityType
    <3> QED BY <1>6, <2>1, <2>3, <3>7, <3>8, <3>9, <3>10
  <2> QED BY <2>1, <2>4, <2>5, <2>6
<1>12. PrioEnvelhecida[e] >= PrioMinima - n
  <2>1. SUFFICES ASSUME PrioEnvelhecida[e] <= PrioMinima - (n + 1) PROVE FALSE
    BY <1>2, <1>6
  <2>2. e \in Abaixo(n)
    <3>1. n + 1 \in Int /\ n + 1 >= 2 /\ (n + 1) - 1 = n
      BY <1>6
    <3> HIDE DEF n
    <3> QED BY <1>2, <1>9, <2>1, <3>1
  <2>3. Cardinality(Abaixo(n)) + n <= n
    BY <1>6 DEF EnvelheceInv
  <2>4. Cardinality(Abaixo(n)) \in Nat /\ Cardinality(Abaixo(n)) # 0
    BY <1>6, <1>10, <2>2, FS_CardinalityType, FS_EmptySet
  <2> QED BY <1>6, <2>3, <2>4
<1>13. \A k \in 1..n : Abaixo(k)' = Desce(k)
  BY <1>5 DEF Abaixo
<1> QED BY <1>5, <1>8, <1>11, <1>12, <1>13 DEF EnvelheceInv

LEMMA NextEnvelhece ==
    ASSUME IInv, IInv', EnvelheceInv, [Next]_vars
    PROVE  EnvelheceInv'
<1>1. TypeOK /\ TypeOK'
  BY DEF IInv
<1>2. UNCHANGED <<filaProntas, tarefaPrevia, prioDinamica>> => EnvelheceInv'
  BY <1>1, EnvelheceQuieto
<1>3. CASE PposInit \/ Systick \/ UNCHANGED vars
  BY <1>2, <1>3 DEF PposInit, Systick, vars, filas, globais, tcb
<1>4. ASSUME NEW t \in Usuarias, UsuarioNext(t) PROVE EnvelheceInv'
  <2>1. UNCHANGED <<filaProntas, tarefaPrevia, prioDinamica>>
    BY <1>4 DEF UsuarioNext, CriaLeId, Setprio, TaskSwitch, TaskYield, TaskExit, ExitProcesso,
         filas, globais, tcb
  <2> QED BY <1>2, <2>1
<1>5. ASSUME NEW t \in Usuarias, ChamadaNext(t) PROVE EnvelheceInv'
  <2>1. CASE CriaPublica(t)
    <3>1. UNCHANGED <<tarefaPrevia, prioDinamica>> /\ filaProntas' = Append(filaProntas, alvo[t])
      BY <2>1 DEF CriaPublica, globais, tcb
    <3>2. alvo[t] \in Usuarias /\ filaProntas \in Seq(Usuarias)
      BY <1>1, <2>1, CriandoNaCpu, Lugares, Nomes DEF CriaPublica, TypeOK
    <3>3. ToSet(filaProntas) \subseteq ToSet(filaProntas')
      BY <3>1, <3>2, AppendProps
    <3> QED BY <1>1, <3>1, <3>3, EnvelheceQuieto
  <2>2. CASE GravaPrioDinamica(t)
    <3>1. reg[t] \in Prios
      BY <2>2 DEF GravaPrioDinamica, Em, IInv, Chamadas, DentroDaChamada
    <3>2. prioDinamica' = [prioDinamica EXCEPT ![alvo[t]] = reg[t]]
      BY <2>2 DEF GravaPrioDinamica
    <3>3. \A u \in Usuarias : prioDinamica'[u] = prioDinamica[u] \/ prioDinamica'[u] \in Prios
      BY <1>1, <3>1, <3>2, Nomes DEF TypeOK
    <3>4. UNCHANGED <<filaProntas, tarefaPrevia>>
      BY <2>2 DEF GravaPrioDinamica, filas, globais
    <3> QED BY <1>1, <3>3, <3>4, EnvelheceQuieto
  <2>3. CASE \/ CriaGravaId(t) \/ CriaInicia(t) \/ CriaSemMemoria(t) \/ CriaLeCont(t)
             \/ CriaGravaCont(t) \/ GravaPrioEstatica(t) \/ Troca(t)
    <3>1. UNCHANGED <<filaProntas, tarefaPrevia, prioDinamica>>
      BY <2>3 DEF CriaGravaId, CriaInicia, CriaSemMemoria, CriaLeCont, CriaGravaCont,
           GravaPrioEstatica, Troca, filas, globais, tcb
    <3> QED BY <1>2, <3>1
  <2> QED BY <1>5, <2>1, <2>2, <2>3 DEF ChamadaNext
<1>6. CASE DispatcherNext
  <2>1. CASE DispatcherOcioso
    BY <2>1, EnvelheceOcioso
  <2>2. CASE DispatcherDespacha
    BY <2>2, EnvelheceDespacha
  <2>3. CASE DispatcherPronta
    <3>1. UNCHANGED <<tarefaPrevia, prioDinamica>> /\ filaProntas' = Append(filaProntas, tarefaPrevia)
      BY <2>3 DEF DispatcherPronta, globais, tcb
    <3>2. FaseRetorno
      BY <2>3, Nomes DEF IInv, Fases, FaseBoot, FaseLaco, FaseJanela, FaseUsuario, Despachada,
           DispatcherPronta, Em
    <3>3. tarefaPrevia \in Usuarias /\ filaProntas \in Seq(Usuarias)
      BY <1>1, <3>2 DEF FaseRetorno, Despachada, TypeOK
    <3>4. ToSet(filaProntas) \subseteq ToSet(filaProntas')
      BY <3>1, <3>3, AppendProps
    <3> QED BY <1>1, <3>1, <3>4, EnvelheceQuieto
  <2>4. CASE DispatcherFim \/ DispatcherTroca \/ DispatcherRecolhe
    <3>1. UNCHANGED <<filaProntas, tarefaPrevia, prioDinamica>>
      BY <2>4 DEF DispatcherFim, DispatcherTroca, DispatcherRecolhe, filas, globais, tcb
    <3> QED BY <1>2, <3>1
  <2> QED BY <1>6, <2>1, <2>2, <2>3, <2>4 DEF DispatcherNext
<1> QED BY <1>3, <1>4, <1>5, <1>6 DEF Next, Encerrado

LEMMA InitEnvelhece == Init => EnvelheceInv
<1> SUFFICES ASSUME Init PROVE EnvelheceInv
  OBVIOUS
<1>1. \A t \in Usuarias : prioDinamica[t] \in Int /\ prioDinamica[t] >= PrioMinima
  BY MinimaDasPrios, Prioridades DEF Init, Tarefas
<1>2. ASSUME NEW k \in 1..Cardinality(Usuarias)
      PROVE  Cardinality(Abaixo(k)) + k <= Cardinality(Usuarias)
  <2>1. k \in Int /\ k >= 1 /\ k <= Cardinality(Usuarias)
    BY TotalDeUsuarias
  <2>2. Abaixo(k) = {}
    BY <1>1, <2>1, MinimaDasPrios DEF Abaixo
  <2> QED BY <2>1, <2>2, FS_EmptySet
<1>3. tarefaPrevia = NULL
  BY DEF Init
<1> QED BY <1>1, <1>2, <1>3 DEF EnvelheceInv

\* However many tasks there are and whatever priorities they use, ageing takes
\* none of them further below the smallest priority than there are tasks.
THEOREM EnvelhecimentoSempreLimitado == Spec => []EnvelhecimentoLimitado
<1>1. IInv /\ EnvelheceInv => EnvelhecimentoLimitado
  <2> SUFFICES ASSUME IInv, EnvelheceInv, NEW t \in Usuarias
               PROVE  prioDinamica[t] >= PrioMinima - Cardinality(Usuarias)
    BY MinimaDasPrios DEF EnvelhecimentoLimitado
  <2> DEFINE n == Cardinality(Usuarias)
  <2>1. n \in Nat /\ n \in 1..n /\ t # NULL /\ prioDinamica[t] \in Int
    <3>1. n \in Nat /\ n >= 1
      BY TotalDeUsuarias
    <3>2. t # NULL /\ prioDinamica[t] \in Int
      BY Nomes DEF IInv, TypeOK
    <3> QED BY <3>1, <3>2
  <2>2. Cardinality(Abaixo(n)) + n <= n
    BY <2>1 DEF EnvelheceInv
  <2>3. Abaixo(n) \in SUBSET Usuarias /\ IsFiniteSet(Abaixo(n))
    BY TotalDeUsuarias, FS_Subset DEF Abaixo
  <2>4. Abaixo(n) = {}
    BY <2>1, <2>2, <2>3, FS_CardinalityType, FS_EmptySet
  <2>5. t # tarefaPrevia => prioDinamica[t] >= PrioMinima - n
    BY <2>1, <2>4, MinimaDasPrios DEF Abaixo
  <2> QED BY <2>1, <2>5 DEF EnvelheceInv
<1>2. Spec => [](IInv /\ EnvelheceInv)
  BY InitInv, NextInv, InitEnvelhece, NextEnvelhece, PTL DEF Spec
<1> QED BY <1>1, <1>2, PTL

-----------------------------------------------------------------------------
\* The kernel implements the life cycle of Tarefas: each of its steps is one
\* step of the cycle, or none.

\* The state of the cycle that a state of the kernel stands for.
estadoDoCiclo == [t \in Usuarias |-> Fase(t)]

\* What the phase of each task follows from.
LEMMA MesmasFases ==
    ASSUME UNCHANGED filas, \A t \in Usuarias : t \in Vivas => status'[t] = status[t]
    PROVE  estadoDoCiclo' = estadoDoCiclo
<1>1. ASSUME NEW t \in Usuarias PROVE Fase(t)' = Fase(t)
  BY Nomes DEF filas, Fase, Vivas
<1> QED BY <1>1 DEF estadoDoCiclo

\* A step of the kernel that changes the phase of one task is the step of the
\* cycle between the two phases.
LEMMA MudaFase ==
    ASSUME NEW p \in Usuarias, NEW f, Fase(p)' = f,
           \A t \in Usuarias \ {p} : Fase(t)' = Fase(t)
    PROVE  estadoDoCiclo' = [estadoDoCiclo EXCEPT ![p] = f]
<1>1. \A t \in Usuarias : Fase(t)' = IF t = p THEN f ELSE Fase(t)
  OBVIOUS
<1> QED BY <1>1 DEF estadoDoCiclo

\* The task that runs is the only one in phase "rodando".
LEMMA FasesDespachada ==
    ASSUME IInv, Despachada
    PROVE  /\ tarefaPrevia \in Usuarias /\ filaTarefas = <<Dispatcher, tarefaPrevia>>
           /\ ToSet(filaTarefas) = {Dispatcher, tarefaPrevia}
           /\ Fase(tarefaPrevia) = IF status[tarefaPrevia] = TERMINADA THEN "terminada" ELSE "rodando"
<1>1. /\ tarefaPrevia \in Usuarias /\ tarefaPrevia \notin ToSet(filaProntas)
      /\ filaTarefas = <<Dispatcher, tarefaPrevia>>
  BY DEF Despachada
<1>2. ToSet(filaTarefas) = {Dispatcher, tarefaPrevia}
  BY <1>1, ToSetFilaTarefas
<1> QED BY <1>1, <1>2 DEF Fase

-----------------------------------------------------------------------------
\* The steps that are not steps of the cycle.

LEMMA UsuarioNaoMudaFases ==
    ASSUME IInv, NEW t \in Usuarias,
           \/ \E e \in UserTasks : CriaLeId(t, e)
           \/ \E u \in Usuarias, prio \in Prios : Setprio(t, u, prio)
           \/ \E u \in Usuarias : TaskSwitch(t, u)
           \/ TaskYield(t) \/ ExitProcesso(t)
           \/ CriaGravaId(t) \/ CriaInicia(t) \/ CriaSemMemoria(t)
           \/ CriaLeCont(t) \/ CriaGravaCont(t)
           \/ GravaPrioDinamica(t) \/ GravaPrioEstatica(t) \/ Troca(t)
    PROVE  estadoDoCiclo' = estadoDoCiclo
<1>1. CASE TaskYield(t)
  <2>1. FaseUsuario /\ tarefaAtual = t /\ pc[t] = "livre" /\ cpu = t
    BY <1>1, UsuarioNaCpu DEF TaskYield, Em, FaseUsuario
  <2>2. status' = [status EXCEPT ![t] = status[t]] /\ UNCHANGED filas
    BY <1>1, <2>1 DEF TaskYield, FaseUsuario
  <2>3. status' = status
    BY <2>2 DEF IInv, TypeOK
  <2> QED BY <2>2, <2>3, MesmasFases
<1>2. CASE CriaInicia(t)
  <2>1. pc[t] = "inicia" /\ alvo[t] \notin Vivas
    BY <1>2 DEF CriaInicia, Em, IInv, Chamadas, DentroDaChamada, AntesDePublicar
  <2>2. \A x \in Usuarias : x # alvo[t] => status'[x] = status[x]
    BY <1>2, Nomes DEF CriaInicia, IInv, TypeOK
  <2> QED BY <1>2, <2>1, <2>2, MesmasFases DEF CriaInicia
<1>3. CASE ~(TaskYield(t) \/ CriaInicia(t))
  <2>1. UNCHANGED <<filas, status>>
    BY <1>3 DEF CriaLeId, Setprio, TaskSwitch, ExitProcesso, CriaGravaId, CriaSemMemoria,
         CriaLeCont, CriaGravaCont, GravaPrioDinamica, GravaPrioEstatica, Troca, tcb
  <2> QED BY <2>1, MesmasFases
<1> QED BY <1>1, <1>2, <1>3

LEMMA OutrosNaoMudamFases ==
    ASSUME IInv,
           \/ PposInit \/ Systick \/ DispatcherFim \/ DispatcherOcioso \/ DispatcherTroca
           \/ UNCHANGED vars
    PROVE  estadoDoCiclo' = estadoDoCiclo
<1>1. UNCHANGED <<filas, status>>
  BY DEF PposInit, Systick, DispatcherFim, DispatcherOcioso, DispatcherTroca, vars, tcb
<1> QED BY <1>1, MesmasFases

-----------------------------------------------------------------------------
\* The steps that are.

\* task_create makes a task ready, and only a running task calls it.
LEMMA PublicaCria ==
    ASSUME IInv, NEW t \in Usuarias, CriaPublica(t)
    PROVE  \E e \in Usuarias : Ciclo!Cria(e)
<1>1. FaseUsuario /\ t = tarefaPrevia /\ cpu = t /\ pc[t] = "publica" /\ Despachada
  BY UsuarioNaCpu DEF CriaPublica, Em, FaseUsuario
<1>2. PICK e \in Usuarias : e = alvo[t] /\ e \notin Vivas /\ e # Dispatcher
  BY <1>1, Lugares, Nomes DEF IInv, Chamadas, DentroDaChamada, AntesDePublicar
<1>3. status[t] = PRONTA /\ PRONTA # TERMINADA
  BY <1>1 DEF FaseUsuario, PRONTA, TERMINADA
<1>4. Fase(t) = "rodando"
  BY <1>1, <1>3, FasesDespachada
<1>5. /\ ToSet(filaProntas') = ToSet(filaProntas) \cup {e}
      /\ UNCHANGED <<filaTarefas, status>>
  BY <1>2, AppendProps DEF CriaPublica, IInv, TypeOK, tcb
<1>6. Fase(e) = "fora" /\ Fase(e)' = "pronta"
  BY <1>2, <1>5 DEF Fase, Vivas
<1>7. \A x \in Usuarias \ {e} : Fase(x)' = Fase(x)
  BY <1>5 DEF Fase
<1>8. estadoDoCiclo' = [estadoDoCiclo EXCEPT ![e] = "pronta"]
  BY <1>2, <1>6, <1>7, MudaFase
<1>9. estadoDoCiclo[e] = "fora" /\ estadoDoCiclo[t] = "rodando"
  BY <1>2, <1>4, <1>6 DEF estadoDoCiclo
<1>10. Ciclo!Cria(e)
  BY <1>8, <1>9 DEF estadoDoCiclo, Ciclo!Cria, Ciclo!Passa, Ciclo!EmFase
<1> QED BY <1>2, <1>10

\* task_exit ends the running task.
LEMMA ExitTermina ==
    ASSUME IInv, NEW t \in Usuarias, TaskExit(t)
    PROVE  Ciclo!Termina(t)
<1>1. FaseUsuario /\ t = tarefaPrevia /\ cpu = t /\ tarefaAtual = t /\ pc[t] = "livre" /\ Despachada
  BY UsuarioNaCpu DEF TaskExit, Em, FaseUsuario
<1>2. /\ status[t] = PRONTA /\ PRONTA # TERMINADA /\ t \in Tarefas
      /\ status \in [Tarefas -> {PRONTA, TERMINADA}]
  BY <1>1, Nomes DEF FaseUsuario, PRONTA, TERMINADA, IInv, TypeOK
<1>3. Fase(t) = "rodando" /\ t \notin ToSet(filaProntas) /\ t \in ToSet(filaTarefas)
  BY <1>1, <1>2, FasesDespachada DEF Despachada
<1>4. status' = [status EXCEPT ![t] = TERMINADA] /\ UNCHANGED <<filaProntas, filaTarefas>>
  BY <1>1 DEF TaskExit, filas
<1>5. Fase(t)' = "terminada"
  BY <1>2, <1>3, <1>4 DEF Fase
<1>6. \A x \in Usuarias \ {t} : Fase(x)' = Fase(x)
  BY <1>2, <1>4, Nomes DEF Fase
<1>7. estadoDoCiclo' = [estadoDoCiclo EXCEPT ![t] = "terminada"]
  BY <1>5, <1>6, MudaFase
<1>8. estadoDoCiclo[t] = "rodando"
  BY <1>3 DEF estadoDoCiclo
<1> QED BY <1>7, <1>8 DEF estadoDoCiclo, Ciclo!Termina, Ciclo!Passa

\* The dispatcher dispatches a ready task, when none runs.
LEMMA DespachoDespacha ==
    ASSUME IInv, DispatcherDespacha
    PROVE  \E p \in Usuarias : Ciclo!Despacha(p)
<1>1. FaseLaco
  BY Nomes DEF IInv, Fases, FaseBoot, FaseJanela, FaseRetorno, FaseUsuario, Despachada, DispatcherDespacha, Em
<1>2. TypeOK /\ filaProntas \in Seq(Usuarias) /\ filaProntas # <<>> /\ SemRepetir(filaProntas)
  BY DEF IInv, TypeOK, Prontas, DispatcherDespacha
<1>3. PICK p \in Usuarias : p = Escolhida /\ p \in ToSet(filaProntas)
  BY <1>2, EscolhidaNaFila, PrioridadesInteiras
<1>4. ToSet(filaProntas') = ToSet(filaProntas) \ {p}
  BY <1>2, <1>3, RetiraProps DEF DispatcherDespacha
<1>5. ToSet(filaTarefas') = {Dispatcher, p}
  <2>1. filaTarefas' = <<Dispatcher, p>>
    BY <1>1, <1>3, AppendDespachada DEF DispatcherDespacha, FaseLaco
  <2> QED BY <2>1, ToSetFilaTarefas
<1>6. ToSet(filaTarefas) = {Dispatcher} /\ status' = status
  BY <1>1, ToSetFilaTarefas DEF FaseLaco, DispatcherDespacha
<1>7. status[p] # TERMINADA
  BY <1>3 DEF IInv, Prontas, PRONTA, TERMINADA
<1>8. Fase(p) = "pronta" /\ Fase(p)' = "rodando"
  BY <1>3, <1>4, <1>5, <1>6, <1>7 DEF Fase
<1>9. \A x \in Usuarias \ {p} : Fase(x)' = Fase(x)
  BY <1>4, <1>5, <1>6 DEF Fase
<1>10. estadoDoCiclo' = [estadoDoCiclo EXCEPT ![p] = "rodando"]
  BY <1>3, <1>8, <1>9, MudaFase
<1>11. \A x \in Usuarias : estadoDoCiclo[x] \in {"pronta", "fora"}
  BY <1>6, Nomes DEF estadoDoCiclo, Fase
<1>12. estadoDoCiclo[p] = "pronta"
  BY <1>3, <1>8 DEF estadoDoCiclo
<1>13. Ciclo!ProcessadorLivre
  BY <1>11 DEF estadoDoCiclo, Ciclo!ProcessadorLivre, Ciclo!EmFase
<1>14. Ciclo!Despacha(p)
  BY <1>10, <1>12, <1>13 DEF estadoDoCiclo, Ciclo!Despacha, Ciclo!Passa
<1> QED BY <1>14

\* The task that came back is ready again, or is reaped.
LEMMA RetornoDevolve ==
    ASSUME IInv, DispatcherPronta
    PROVE  \E p \in Usuarias : Ciclo!Devolve(p)
<1>1. Despachada
  BY Nomes DEF IInv, Fases, FaseBoot, FaseLaco, FaseJanela, FaseRetorno, FaseUsuario, Despachada, DispatcherPronta, Em
<1>2. PICK p \in Usuarias :
         /\ p = tarefaPrevia /\ p # Dispatcher /\ filaTarefas = <<Dispatcher, p>>
         /\ ToSet(filaTarefas) = {Dispatcher, p} /\ filaProntas \in Seq(Usuarias)
  BY <1>1, FasesDespachada, Nomes DEF IInv, TypeOK
<1>3. Fase(p) = "rodando"
  BY <1>1, <1>2, FasesDespachada DEF DispatcherPronta, PRONTA, TERMINADA
<1>4. ToSet(filaProntas') = ToSet(filaProntas) \cup {p}
  BY <1>2, AppendProps DEF DispatcherPronta
<1>5. ToSet(filaTarefas') = {Dispatcher} /\ status' = status
  <2>1. filaTarefas' = <<Dispatcher>>
    BY <1>2, RetiraDespachada DEF DispatcherPronta
  <2> QED BY <2>1, ToSetFilaTarefas DEF DispatcherPronta, tcb
<1>6. Fase(p)' = "pronta"
  BY <1>4 DEF Fase
<1>7. \A x \in Usuarias \ {p} : Fase(x)' = Fase(x)
  BY <1>2, <1>4, <1>5 DEF Fase
<1>8. estadoDoCiclo' = [estadoDoCiclo EXCEPT ![p] = "pronta"]
  BY <1>2, <1>6, <1>7, MudaFase
<1>9. estadoDoCiclo[p] = "rodando"
  BY <1>2, <1>3 DEF estadoDoCiclo
<1>10. Ciclo!Devolve(p)
  BY <1>8, <1>9 DEF estadoDoCiclo, Ciclo!Devolve, Ciclo!Passa
<1> QED BY <1>10

LEMMA RetornoRecolhe ==
    ASSUME IInv, DispatcherRecolhe
    PROVE  \E p \in Usuarias : Ciclo!Recolhe(p)
<1>1. Despachada
  BY Nomes DEF IInv, Fases, FaseBoot, FaseLaco, FaseJanela, FaseRetorno, FaseUsuario, Despachada, DispatcherRecolhe, Em
<1>2. PICK p \in Usuarias :
         /\ p = tarefaPrevia /\ p # Dispatcher /\ filaTarefas = <<Dispatcher, p>>
         /\ ToSet(filaTarefas) = {Dispatcher, p} /\ p \notin ToSet(filaProntas)
  BY <1>1, FasesDespachada, Nomes DEF Despachada
<1>3. Fase(p) = "terminada"
  BY <1>1, <1>2, FasesDespachada DEF DispatcherRecolhe
<1>4. ToSet(filaTarefas') = {Dispatcher} /\ UNCHANGED <<status, filaProntas>>
  <2>1. filaTarefas' = <<Dispatcher>>
    BY <1>2, RetiraDespachada DEF DispatcherRecolhe
  <2> QED BY <2>1, ToSetFilaTarefas DEF DispatcherRecolhe, tcb
<1>5. Fase(p)' = "fora"
  BY <1>2, <1>4 DEF Fase
<1>6. \A x \in Usuarias \ {p} : Fase(x)' = Fase(x)
  BY <1>2, <1>4 DEF Fase
<1>7. estadoDoCiclo' = [estadoDoCiclo EXCEPT ![p] = "fora"]
  BY <1>2, <1>5, <1>6, MudaFase
<1>8. estadoDoCiclo[p] = "terminada"
  BY <1>2, <1>3 DEF estadoDoCiclo
<1>9. Ciclo!Recolhe(p)
  BY <1>7, <1>8 DEF estadoDoCiclo, Ciclo!Recolhe, Ciclo!Passa
<1> QED BY <1>9

-----------------------------------------------------------------------------
\* The refinement.

LEMMA InitCiclo == Init => Ciclo!Init
<1> SUFFICES ASSUME Init PROVE Ciclo!Init
  OBVIOUS
<1>1. ToSet(filaProntas) = {Main} /\ ToSet(filaTarefas) = {Dispatcher}
  <2>1. ToSet(<<Main>>) = {Main}
    BY DEF ToSet
  <2> QED BY <2>1, ToSetFilaTarefas DEF Init
<1>2. \A t \in Usuarias : Fase(t) = IF t = Main THEN "pronta" ELSE "fora"
  BY <1>1, Nomes DEF Fase
<1> QED BY <1>2 DEF Ciclo!Init

LEMMA PassoDoCiclo ==
    ASSUME IInv, [Next]_vars
    PROVE  Ciclo!Next \/ estadoDoCiclo' = estadoDoCiclo
<1>1. ASSUME NEW t \in Usuarias, UsuarioNext(t)
      PROVE  Ciclo!Next \/ estadoDoCiclo' = estadoDoCiclo
  BY <1>1, UsuarioNaoMudaFases, ExitTermina DEF UsuarioNext, Ciclo!Next
<1>2. ASSUME NEW t \in Usuarias, ChamadaNext(t)
      PROVE  Ciclo!Next \/ estadoDoCiclo' = estadoDoCiclo
  <2>1. CASE CriaPublica(t)
    BY <2>1, PublicaCria DEF Ciclo!Next
  <2>2. CASE ~CriaPublica(t)
    BY <1>2, <2>2, UsuarioNaoMudaFases DEF ChamadaNext
  <2> QED BY <2>1, <2>2
<1>3. CASE DispatcherNext
  BY <1>3, OutrosNaoMudamFases, DespachoDespacha, RetornoDevolve, RetornoRecolhe
     DEF DispatcherNext, Ciclo!Next
<1>4. CASE PposInit \/ Systick \/ UNCHANGED vars
  BY <1>4, OutrosNaoMudamFases
<1> QED BY <1>1, <1>2, <1>3, <1>4 DEF Next, Encerrado

\* The kernel implements the life cycle: no task runs while another does, none
\* runs after its task_exit, and none is dispatched before it is created.
THEOREM CicloImplementado == Spec => ImplementaTarefas
<1>1. IInv /\ [Next]_vars => [Ciclo!Next]_estadoDoCiclo
  BY PassoDoCiclo
<1>2. Ciclo!Spec <=> Ciclo!Init /\ [][Ciclo!Next]_estadoDoCiclo
  BY DEF Ciclo!Spec, estadoDoCiclo
<1> QED BY <1>1, <1>2, InitCiclo, Invariante, PTL DEF Spec, ImplementaTarefas


-----------------------------------------------------------------------------
\* The applications: what the calls of their programs are.

Ops == {"create", "setprio", "switch", "proxima", "yield", "task_exit", "exit"}

\* The calls of main, those that set no priority, and those of the bodies, which
\* create nothing, end nothing and give a priority to nobody else.
DoMain == {c \in [op : Ops, alvo : UserTasks \cup {NULL}, prio : Int] :
              c.op = "create" => c.alvo \in UserTasks}

SemPrio == {c \in DoMain : c.op # "setprio"}

DoCorpo == {c \in [op : Ops \ {"create", "exit"}, alvo : UserTasks \cup {NULL}, prio : Int] :
               c.op = "setprio" => c.alvo = NULL}

\* Main sets the priority of a task right after it has created it.
PrioAposCriacao(s) ==
    \A i \in DOMAIN s :
        s[i].op = "setprio" =>
            i > 1 /\ s[i - 1].op = "create" /\ s[i - 1].alvo = s[i].alvo

BemFormado(prog) ==
    /\ prog[Main] \in Seq(DoMain)
    /\ PrioAposCriacao(prog[Main])
    /\ \A t \in UserTasks : prog[t] \in Seq(DoCorpo)

LEMMA NumeroDeTarefas == N \in Nat /\ N >= 2 /\ UserTasks = 1..N
<1>1. N \in Nat
  BY FS_CardinalityType, NomesAssumption DEF N
<1> QED BY <1>1, AplicacaoAssumption DEF N

LEMMA CallsDoMain ==
    /\ SemPrio \subseteq DoMain
    /\ \A e \in UserTasks : Create(e) \in SemPrio /\ Switch(e) \in SemPrio
    /\ \A e \in UserTasks, p \in Int : Prio(e, p) \in DoMain
    /\ Yield \in SemPrio /\ Exit \in SemPrio /\ Fim \in SemPrio
BY DEF SemPrio, DoMain, Ops, Create, Switch, Prio, Yield, Exit, Fim, Call

LEMMA CallsDoCorpo ==
    /\ \A e \in UserTasks : Switch(e) \in DoCorpo
    /\ \A p \in Int : PrioPropria(p) \in DoCorpo
    /\ Yield \in DoCorpo /\ Exit \in DoCorpo /\ SwitchProxima \in DoCorpo
BY DEF DoCorpo, Ops, SwitchProxima, Switch, PrioPropria, Yield, Exit, Call

LEMMA Repeticao == ASSUME NEW S, NEW n \in Nat, NEW c \in S PROVE Vezes(n, c) \in Seq(S)
BY DEF Vezes

LEMMA CriacaoSemPrio == CriaTodas \in Seq(SemPrio)
BY CallsDoMain, NumeroDeTarefas DEF CriaTodas

\* A program whose main sets no priority.
LEMMA MainSemPrio == ASSUME NEW s \in Seq(SemPrio) PROVE s \in Seq(DoMain) /\ PrioAposCriacao(s)
<1>1. s \in Seq(DoMain)
  BY CallsDoMain
<1>2. \A i \in DOMAIN s : s[i] \in SemPrio
  OBVIOUS
<1> QED BY <1>1, <1>2 DEF PrioAposCriacao, SemPrio

\* Main and all the bodies, when these are the same.
LEMMA MesmoCorpo ==
    ASSUME NEW prog, NEW m \in Seq(DoMain), NEW c \in Seq(DoCorpo), PrioAposCriacao(m),
           prog = [t \in Usuarias |-> IF t = Main THEN m ELSE c]
    PROVE  BemFormado(prog)
BY NomesAssumption DEF BemFormado, Usuarias

LEMMA DispatcherBemFormado == BemFormado(PingpongDispatcher)
<1>1. CriaTodas \o <<Yield, Fim>> \in Seq(SemPrio)
  BY CriacaoSemPrio, CallsDoMain
<1>2. Vezes(VOLTAS, Yield) \o <<Exit>> \in Seq(DoCorpo)
  BY Repeticao, CallsDoCorpo, AplicacaoAssumption
<1>3. PingpongDispatcher = [t \in Usuarias |-> IF t = Main THEN CriaTodas \o <<Yield, Fim>>
                                               ELSE Vezes(VOLTAS, Yield) \o <<Exit>>]
  BY DEF PingpongDispatcher, Programa
<1> QED BY <1>1, <1>2, <1>3, MainSemPrio, MesmoCorpo

\* task_create and task_setprio of each task in turn, with the priorities of f.
CriaEDa(f) ==
    [i \in 1..(2 * N) |-> IF i % 2 = 1 THEN Create((i + 1) \div 2)
                          ELSE Prio((i + 1) \div 2, f[(i + 1) \div 2])]

LEMMA CriaEDaDoMain ==
    ASSUME NEW f \in [UserTasks -> Int]
    PROVE  LET s == CriaEDa(f) \o <<Yield, Fim>> IN s \in Seq(DoMain) /\ PrioAposCriacao(s)
<1> DEFINE r == CriaEDa(f)
           s == r \o <<Yield, Fim>>
<1>1. ASSUME NEW i \in 1..(2 * N) PROVE (i + 1) \div 2 \in UserTasks
  BY NumeroDeTarefas
<1>2. 2 * N \in Nat
  BY NumeroDeTarefas
<1>3. r \in Seq(DoMain) /\ Len(r) = 2 * N
  BY <1>1, <1>2, CallsDoMain DEF CriaEDa
<1>4. PrioAposCriacao(r)
  <2> SUFFICES ASSUME NEW i \in 1..(2 * N), r[i].op = "setprio"
               PROVE  i > 1 /\ r[i - 1].op = "create" /\ r[i - 1].alvo = r[i].alvo
    BY <1>3 DEF PrioAposCriacao
  <2>1. i % 2 # 1
    BY DEF CriaEDa, Create, Call
  <2>2. i > 1 /\ i - 1 \in 1..(2 * N) /\ (i - 1) % 2 = 1 /\ ((i - 1) + 1) \div 2 = (i + 1) \div 2
    BY <2>1, <1>2, NumeroDeTarefas
  <2>3. r[i - 1] = Create(((i - 1) + 1) \div 2)
    BY <2>2 DEF CriaEDa
  <2>4. r[i] = Prio((i + 1) \div 2, f[(i + 1) \div 2])
    BY <2>1 DEF CriaEDa
  <2> QED BY <2>2, <2>3, <2>4 DEF Create, Prio, Call
<1> HIDE DEF r
<1>5. Yield \in DoMain /\ Fim \in DoMain /\ Yield.op # "setprio" /\ Fim.op # "setprio"
  BY CallsDoMain DEF SemPrio
<1>6. s \in Seq(DoMain) /\ Len(s) = 2 * N + 2 /\ (\A i \in 1..(2 * N) : s[i] = r[i])
      /\ s[2 * N + 1] = Yield /\ s[2 * N + 2] = Fim
  BY <1>2, <1>3, <1>5
<1> HIDE DEF s
<1>7. PrioAposCriacao(s)
  <2> SUFFICES ASSUME NEW i \in 1..(2 * N + 2), s[i].op = "setprio"
               PROVE  i > 1 /\ s[i - 1].op = "create" /\ s[i - 1].alvo = s[i].alvo
    BY <1>6, <1>2 DEF PrioAposCriacao
  <2>1. i \in 1..(2 * N)
    BY <1>2, <1>5, <1>6
  <2>2. s[i] = r[i] /\ i \in DOMAIN r
    BY <2>1, <1>3, <1>6
  <2>3. i > 1 /\ r[i - 1].op = "create" /\ r[i - 1].alvo = r[i].alvo
    BY <2>2, <1>4 DEF PrioAposCriacao
  <2>4. s[i - 1] = r[i - 1]
    BY <2>1, <2>3, <1>2, <1>6
  <2> QED BY <2>2, <2>3, <2>4
<1> QED BY <1>6, <1>7 DEF s, r

LEMMA SchedulerBemFormado == BemFormado(PingpongScheduler)
<1> DEFINE f == [e \in UserTasks |-> 2 * (e - 1)]
           m == CriaEDa(f) \o <<Yield, Fim>>
<1>1. f \in [UserTasks -> Int]
  BY NumeroDeTarefas
<1>2. CriaComPrio(LAMBDA e : 2 * (e - 1)) = CriaEDa(f)
  BY NumeroDeTarefas DEF CriaComPrio, CriaEDa
<1>3. PingpongScheduler = [t \in Usuarias |-> IF t = Main THEN m
                                              ELSE Vezes(VOLTAS, Yield) \o <<Exit>>]
  BY <1>2 DEF PingpongScheduler, Programa
<1>4. m \in Seq(DoMain) /\ PrioAposCriacao(m)
  <2> HIDE DEF f
  <2> QED BY <1>1, CriaEDaDoMain
<1> HIDE DEF m, f
<1>5. Vezes(VOLTAS, Yield) \o <<Exit>> \in Seq(DoCorpo)
  BY Repeticao, CallsDoCorpo, AplicacaoAssumption
<1> QED BY <1>3, <1>4, <1>5, MesmoCorpo

LEMMA ContabPrioBemFormado == BemFormado(PingpongContabPrio)
<1> DEFINE f == [e \in UserTasks |-> -2 * (e - 1)]
           m == CriaEDa(f) \o <<Yield, Fim>>
<1>1. f \in [UserTasks -> Int]
  BY NumeroDeTarefas
<1>2. CriaComPrio(LAMBDA e : -2 * (e - 1)) = CriaEDa(f)
  BY NumeroDeTarefas DEF CriaComPrio, CriaEDa
<1>3. PingpongContabPrio = [t \in Usuarias |-> IF t = Main THEN m ELSE <<Exit>>]
  BY <1>2 DEF PingpongContabPrio, Programa
<1>4. m \in Seq(DoMain) /\ PrioAposCriacao(m)
  <2> HIDE DEF f
  <2> QED BY <1>1, CriaEDaDoMain
<1> HIDE DEF m, f
<1>5. <<Exit>> \in Seq(DoCorpo)
  BY CallsDoCorpo
<1> QED BY <1>3, <1>4, <1>5, MesmoCorpo

LEMMA ContabBemFormado == BemFormado(PingpongContab)
<1>1. CriaTodas \o <<Yield, Fim>> \in Seq(SemPrio)
  BY CriacaoSemPrio, CallsDoMain
<1>2. <<Exit>> \in Seq(DoCorpo)
  BY CallsDoCorpo
<1>3. PingpongContab = [t \in Usuarias |-> IF t = Main THEN CriaTodas \o <<Yield, Fim>>
                                           ELSE <<Exit>>]
  BY DEF PingpongContab, Programa
<1> QED BY <1>1, <1>2, <1>3, MainSemPrio, MesmoCorpo

LEMMA MaintaskBemFormado == BemFormado(PingpongMaintask)
<1>1. CriaTodas \o <<Exit>> \in Seq(SemPrio)
  BY CriacaoSemPrio, CallsDoMain
<1>2. <<Exit>> \in Seq(DoCorpo)
  BY CallsDoCorpo
<1>3. PingpongMaintask = [t \in Usuarias |-> IF t = Main THEN CriaTodas \o <<Exit>>
                                             ELSE <<Exit>>]
  BY DEF PingpongMaintask, Programa
<1> QED BY <1>1, <1>2, <1>3, MainSemPrio, MesmoCorpo

LEMMA Tasks1BemFormado == BemFormado(PingpongTasks1)
<1> DEFINE m == <<Create(1), Create(2), Switch(1), Switch(2), Fim>>
           c(t) == Vezes(VOLTAS, Switch(IF t = 1 THEN 2 ELSE 1)) \o <<Exit>>
<1>1. 1 \in UserTasks /\ 2 \in UserTasks
  BY NumeroDeTarefas
<1>2. m \in Seq(SemPrio)
  BY <1>1, CallsDoMain
<1>3. ASSUME NEW t \in UserTasks PROVE c(t) \in Seq(DoCorpo)
  <2>1. Switch(IF t = 1 THEN 2 ELSE 1) \in DoCorpo
    BY <1>1, CallsDoCorpo
  <2> QED BY <2>1, Repeticao, CallsDoCorpo, AplicacaoAssumption
<1>4. PingpongTasks1 = [t \in Usuarias |-> IF t = Main THEN m ELSE c(t)]
  BY DEF PingpongTasks1, Programa
<1> HIDE DEF m, c
<1> QED BY <1>2, <1>3, <1>4, MainSemPrio, NomesAssumption DEF BemFormado, Usuarias

LEMMA Tasks2BemFormado == BemFormado(PingpongTasks2)
<1> DEFINE r == [e \in 1..N |-> Switch(e)]
<1>1. r \in Seq(SemPrio)
  BY CallsDoMain, NumeroDeTarefas
<1> HIDE DEF r
<1>2. CriaTodas \o r \o <<Fim>> \in Seq(SemPrio)
  BY <1>1, CriacaoSemPrio, CallsDoMain
<1>3. <<SwitchProxima, Exit>> \in Seq(DoCorpo)
  BY CallsDoCorpo
<1>4. PingpongTasks2 = [t \in Usuarias |-> IF t = Main THEN CriaTodas \o r \o <<Fim>>
                                           ELSE <<SwitchProxima, Exit>>]
  BY DEF PingpongTasks2, Programa, r
<1> QED BY <1>2, <1>3, <1>4, MainSemPrio, MesmoCorpo

LEMMA Tasks3BemFormado == BemFormado(PingpongTasks3)
<1> DEFINE r == [i \in 1..(2 * N) |-> IF i % 2 = 1 THEN Create(1) ELSE Switch(1)]
<1>1. r \in Seq(SemPrio)
  <2>1. 1 \in UserTasks /\ 2 * N \in Nat
    BY NumeroDeTarefas
  <2> QED BY <2>1, CallsDoMain
<1> HIDE DEF r
<1>2. r \o <<Fim>> \in Seq(SemPrio)
  BY <1>1, CallsDoMain
<1>3. <<Exit>> \in Seq(DoCorpo)
  BY CallsDoCorpo
<1>4. PingpongTasks3 = [t \in Usuarias |-> IF t = Main THEN r \o <<Fim>> ELSE <<Exit>>]
  BY DEF PingpongTasks3, Programa, r
<1> QED BY <1>2, <1>3, <1>4, MainSemPrio, MesmoCorpo

LEMMA PropriaBemFormado == BemFormado(PrioridadePropria)
<1> DEFINE c(t) == IF t = 1 THEN <<PrioPropria(1), Exit>> ELSE <<Exit>>
<1>1. CriaTodas \o <<Yield, Fim>> \in Seq(SemPrio)
  BY CriacaoSemPrio, CallsDoMain
<1>2. ASSUME NEW t \in UserTasks PROVE c(t) \in Seq(DoCorpo)
  BY CallsDoCorpo
<1>3. PrioridadePropria = [t \in Usuarias |-> IF t = Main THEN CriaTodas \o <<Yield, Fim>>
                                              ELSE c(t)]
  BY DEF PrioridadePropria, Programa
<1> HIDE DEF c
<1> QED BY <1>1, <1>2, <1>3, MainSemPrio, NomesAssumption DEF BemFormado, Usuarias

\* Every program of every application.
LEMMA ProgramasBemFormados == \A a \in DOMAIN Programas : BemFormado(Programas[a])
BY DispatcherBemFormado, SchedulerBemFormado, ContabBemFormado, ContabPrioBemFormado,
   MaintaskBemFormado, Tasks1BemFormado, Tasks2BemFormado, Tasks3BemFormado,
   PropriaBemFormado
   DEF Programas, PingpongPreempcao, PingpongPreempcaoStress

-----------------------------------------------------------------------------
\* The invariant of the places in the programs.

\* The call a task is about to make.
LEMMA CallDeMain ==
    ASSUME ProgramaInv, linha[Main] \in DOMAIN Programas[app][Main]
    PROVE  /\ Proxima(Main).prio \in Prios
           /\ Proxima(Main).op = "create" => Proxima(Main).alvo \in UserTasks
           /\ Proxima(Main).op = "setprio" =>
                 /\ linha[Main] > 1 /\ Feita.op = "create"
                 /\ Feita.alvo = Proxima(Main).alvo /\ Feita.alvo \in UserTasks
<1> DEFINE s == Programas[app][Main]
           i == linha[Main]
<1>1. BemFormado(Programas[app]) /\ app \in Apps
  BY ProgramasBemFormados, ProgramasAssumption DEF ProgramaInv
<1>2. s \in Seq(DoMain) /\ PrioAposCriacao(s)
  BY <1>1 DEF BemFormado
<1>3. i \in Nat /\ i \in DOMAIN s
  BY Nomes DEF ProgramaInv
<1> HIDE DEF s, i
<1>4. s[i] \in DoMain
  BY <1>2, <1>3
<1>5. s[i].op = "setprio" => i > 1 /\ s[i - 1].op = "create" /\ s[i - 1].alvo = s[i].alvo
  BY <1>2, <1>3 DEF PrioAposCriacao
<1>6. s[i].op = "setprio" => s[i - 1] \in DoMain
  BY <1>2, <1>3, <1>5
<1>7. s[i].prio \in Prios
  BY <1>1, <1>3, ProgramasAssumption, Nomes DEF s, i
<1> QED BY <1>4, <1>5, <1>6, <1>7 DEF s, i, Proxima, Feita, DoMain

LEMMA CallDoCorpo ==
    ASSUME ProgramaInv, NEW t \in UserTasks, linha[t] \in DOMAIN Programas[app][t]
    PROVE  /\ Proxima(t).op \notin {"create", "exit"} /\ Proxima(t).prio \in Prios
           /\ Proxima(t).op = "setprio" => Proxima(t).alvo = NULL
<1>1. BemFormado(Programas[app]) /\ app \in Apps
  BY ProgramasBemFormados, ProgramasAssumption DEF ProgramaInv
<1>2. Programas[app][t] \in Seq(DoCorpo)
  BY <1>1 DEF BemFormado
<1>3. Programas[app][t][linha[t]] \in DoCorpo
  BY <1>2
<1>4. Programas[app][t][linha[t]].prio \in Prios
  BY <1>1, ProgramasAssumption, Nomes
<1> QED BY <1>3, <1>4 DEF Proxima, DoCorpo

\* The task that is given a priority: the one just created or the caller.
LEMMA AlvoDoSetprio ==
    ASSUME IInv, ProgramaInv, NEW t \in Usuarias, Faz(t, "setprio")
    PROVE  LET u == IF Proxima(t).alvo = NULL THEN tarefaAtual ELSE Proxima(t).alvo IN
           /\ t = Main => u = Feita.alvo /\ u = Proxima(t).alvo /\ u \in UserTasks
           /\ t # Main => u = t /\ t \in UserTasks
           /\ u \in Usuarias /\ Proxima(t).prio \in Prios
<1>1. Em(t, "livre") /\ linha[t] \in DOMAIN Programas[app][t] /\ Proxima(t).op = "setprio"
  BY DEF Faz
<1>2. tarefaAtual = t
  BY <1>1, UsuarioNaCpu DEF FaseUsuario
<1>3. CASE t = Main
  BY <1>1, <1>3, CallDeMain, Nomes
<1>4. CASE t # Main
  BY <1>1, <1>2, <1>4, CallDoCorpo, Nomes DEF Usuarias
<1> QED BY <1>3, <1>4

\* Every step of an application is one of the kernel, but for the creation in a
\* descriptor in use.
LEMMA PassoDoNucleo ==
    ASSUME IInv, ProgramaInv, [ANext]_avars, \A t \in Usuarias : ~FazCreateEmUso(t)
    PROVE  [Next]_vars
<1>1. ASSUME NEW t \in Usuarias, FazCreate(t) PROVE Next
  <2>1. CriaLeId(t, Proxima(t).alvo) /\ linha[t] \in DOMAIN Programas[app][t]
        /\ Proxima(t).op = "create"
    BY <1>1 DEF FazCreate, Faz
  <2>2. t = Main
    BY <2>1, CallDoCorpo DEF Usuarias
  <2>3. Proxima(t).alvo \in UserTasks
    BY <2>1, <2>2, CallDeMain
  <2> QED BY <2>1, <2>3 DEF Next, UsuarioNext
<1>2. ASSUME NEW t \in Usuarias, FazSetprio(t) PROVE Next
  <2> DEFINE u == IF Proxima(t).alvo = NULL THEN tarefaAtual ELSE Proxima(t).alvo
  <2>1. Faz(t, "setprio") /\ Setprio(t, u, Proxima(t).prio)
    BY <1>2 DEF FazSetprio
  <2>2. u \in Usuarias /\ Proxima(t).prio \in Prios
    BY <2>1, AlvoDoSetprio
  <2> HIDE DEF u
  <2> QED BY <2>1, <2>2 DEF Next, UsuarioNext
<1>3. ASSUME NEW t \in Usuarias, FazSwitch(t) PROVE [Next]_vars
  <2>1. CASE TaskSwitch(t, Destino(t))
    <3>1. FaseUsuario
      BY <2>1, UsuarioNaCpu DEF TaskSwitch
    <3>2. PICK i \in 2..Len(filaTarefas) : filaTarefas[i] = Destino(t)
      BY <2>1 DEF TaskSwitch
    <3>3. Destino(t) \in Usuarias
      BY <3>1, <3>2 DEF FaseUsuario, Despachada
    <3> QED BY <2>1, <3>3 DEF Next, UsuarioNext
  <2>2. CASE UNCHANGED vars
    BY <2>2
  <2> QED BY <1>3, <2>1, <2>2 DEF FazSwitch
<1>4. ASSUME NEW t \in Usuarias, FazYield(t) \/ FazExit(t) \/ FazFim(t) PROVE Next
  BY <1>4 DEF FazYield, FazExit, FazFim, Next, UsuarioNext
<1>5. ASSUME NEW t \in Usuarias, Chamada(t) PROVE [Next]_vars
  BY <1>1, <1>2, <1>3, <1>4, <1>5 DEF Chamada
<1>6. ASSUME NEW t \in Usuarias, Inicia(t) \/ Continua(t) PROVE Next
  BY <1>6 DEF Inicia, Continua, Next, ChamadaNext
<1>7. CASE Entra \/ Despacha \/ Tick
  BY <1>7 DEF Entra, Despacha, Tick, Next, DispatcherNext
<1>8. CASE PposInit
  BY <1>8 DEF Next
<1>9. CASE UNCHANGED avars
  BY <1>9 DEF avars
<1> QED BY <1>5, <1>6, <1>7, <1>8, <1>9 DEF ANext, Encerrado

\* Inside a call a task advances, or leaves it, and handles the same task.
Avanca(t) ==
    \/ pc'[t] = pc[t] /\ alvo'[t] = alvo[t]
    \/ pc'[t] = "livre"
    \/ pc[t] \in Criando /\ pc'[t] \in Criando \cup Gravando /\ alvo'[t] = alvo[t]
    \/ pc[t] \in Gravando /\ pc'[t] \in Gravando /\ alvo'[t] = alvo[t]

LEMMA AvancaPrograma ==
    ASSUME ProgramaInv, linha' \in [Usuarias -> Nat \ {0}], linha'[Main] = linha[Main],
           UNCHANGED <<app, pedida>>, \A t \in Usuarias : Avanca(t)
    PROVE  ProgramaInv'
<1>1. \A t \in Usuarias :
         /\ pc'[t] \in Criando => pc[t] \in Criando /\ alvo'[t] = alvo[t]
         /\ pc'[t] \in Gravando => pc[t] \in Criando \cup Gravando /\ alvo'[t] = alvo[t]
         /\ pc'[t] \in {"boot", "troca"} => pc[t] = pc'[t]
  BY Lugares DEF Avanca, Gravando
<1>2. Feita' = Feita
  BY DEF Feita
<1> QED BY <1>1, <1>2, Nomes DEF ProgramaInv

\* The kernel's steps that are not the start of a call.
LEMMA NucleoAvanca ==
    ASSUME IInv,
           \/ PposInit \/ Systick \/ DispatcherNext \/ UNCHANGED vars
           \/ \E t \in Usuarias : ChamadaNext(t)
    PROVE  \A t \in Usuarias : Avanca(t)
<1> USE Nomes
<1>1. CASE PposInit
  BY <1>1 DEF PposInit, Vai, IInv, TypeOK, Avanca
<1>2. CASE Systick
  BY <1>2 DEF Systick, Avanca
<1>3. CASE UNCHANGED vars
  BY <1>3 DEF vars, maquina, Avanca
<1>4. CASE DispatcherNext
  <2>1. alvo' = alvo /\ \A t \in Usuarias : pc'[t] = pc[t]
    BY <1>4 DEF DispatcherNext, DispatcherFim, DispatcherOcioso, DispatcherDespacha, DispatcherTroca,
                DispatcherPronta, DispatcherRecolhe, Vai, maquina, IInv, TypeOK
  <2> QED BY <2>1 DEF Avanca
<1>5. ASSUME NEW t \in Usuarias, ChamadaNext(t), NEW u \in Usuarias PROVE Avanca(u)
  <2>1. CASE CriaInicia(t)
    BY <2>1, Lugares DEF CriaInicia, Em, IInv, TypeOK, Chamadas, DentroDaChamada, Avanca
  <2>2. CASE CriaGravaId(t) \/ CriaPublica(t) \/ CriaLeCont(t) \/ CriaGravaCont(t)
    <3>1. alvo' = alvo /\ pc[t] \in Criando /\ pc'[t] \in Criando \cup Gravando
          /\ (u # t => pc'[u] = pc[u])
      BY <2>2, Lugares DEF CriaGravaId, CriaPublica, CriaLeCont, CriaGravaCont, Em, Vai,
                           IInv, TypeOK, Gravando
    <3> QED BY <3>1 DEF Avanca
  <2>3. CASE CriaSemMemoria(t)
    BY <2>3 DEF CriaSemMemoria, maquina, Avanca
  <2>4. CASE GravaPrioDinamica(t) \/ GravaPrioEstatica(t) \/ Troca(t)
    BY <2>4 DEF GravaPrioDinamica, GravaPrioEstatica, Troca, Em, Vai, IInv, TypeOK, Avanca, Gravando
  <2> QED BY <1>5, <2>1, <2>2, <2>3, <2>4 DEF ChamadaNext
<1> QED BY <1>1, <1>2, <1>3, <1>4, <1>5

\* A task makes a call.
LEMMA FazAvanca ==
    ASSUME IInv, ProgramaInv, NEW t \in Usuarias, NEW op, Faz(t, op)
    PROVE  /\ FaseUsuario /\ cpu = t /\ tarefaPrevia = t /\ tarefaAtual = t
           /\ pc[t] = "livre" /\ saida = "nenhuma" /\ Proxima(t).op = op
           /\ linha[t] \in DOMAIN Programas[app][t]
           /\ linha' \in [Usuarias -> Nat \ {0}]
           /\ \A u \in Usuarias : linha'[u] = IF u = t THEN linha[u] + 1 ELSE linha[u]
           /\ linha'[Main] > 1 => linha[Main] \in Nat
           /\ UNCHANGED <<app, rodou, cortou>>
           /\ Feita' = IF t = Main THEN Proxima(Main) ELSE Feita
<1>1. Em(t, "livre") /\ pc[t] = "livre" /\ linha[t] \in DOMAIN Programas[app][t] /\ Proxima(t).op = op
      /\ linha' = [linha EXCEPT ![t] = @ + 1] /\ UNCHANGED <<app, rodou, cortou>>
  BY DEF Faz, Em
<1>2. FaseUsuario /\ cpu = t /\ tarefaPrevia = t /\ tarefaAtual = t
  BY <1>1, UsuarioNaCpu DEF FaseUsuario
<1>3. /\ linha' \in [Usuarias -> Nat \ {0}]
      /\ \A u \in Usuarias : linha'[u] = IF u = t THEN linha[u] + 1 ELSE linha[u]
  BY <1>1 DEF ProgramaInv
<1>4. linha[Main] \in Nat /\ linha'[Main] \in Nat
  BY <1>3, Nomes DEF ProgramaInv
<1>5. Feita' = IF t = Main THEN Proxima(Main) ELSE Feita
  BY <1>1, <1>3, <1>4, Nomes DEF Feita, Proxima
<1> QED BY <1>1, <1>2, <1>3, <1>4, <1>5 DEF Em

LEMMA ProgramaPreserva ==
    ASSUME IInv, ProgramaInv, [ANext]_avars
    PROVE  ProgramaInv' \/ \E t \in Usuarias : FazCreateEmUso(t)
<1> USE Nomes
<1>1. ASSUME NEW t \in Usuarias, FazCreate(t) PROVE ProgramaInv'
  <2>1. Faz(t, "create") /\ CriaLeId(t, Proxima(t).alvo)
        /\ pedida' = [pedida EXCEPT ![Proxima(t).alvo] = 0]
    BY <1>1 DEF FazCreate
  <2>2. linha[t] \in DOMAIN Programas[app][t] /\ Proxima(t).op = "create"
    BY <2>1 DEF Faz
  <2>3. t = Main
    BY <2>2, CallDoCorpo DEF Usuarias
  <2>4. \A u \in Usuarias : /\ pc'[u] = IF u = Main THEN "gravaId" ELSE pc[u]
                            /\ alvo'[u] = IF u = Main THEN Proxima(Main).alvo ELSE alvo[u]
    BY <2>1, <2>3 DEF CriaLeId, Vai, IInv, TypeOK
  <2>5. pedida' \in [Usuarias -> Int]
    <3>1. pedida \in [Usuarias -> Int]
      BY DEF ProgramaInv
    <3>2. \A x \in Usuarias : [pedida EXCEPT ![x] = 0] \in [Usuarias -> Int]
      BY <3>1
    <3>3. Proxima(t).alvo \in Usuarias
      BY <2>2, <2>3, CallDeMain
    <3> QED BY <2>1, <3>2, <3>3
  <2>6. /\ linha' \in [Usuarias -> Nat \ {0}] /\ linha'[Main] = linha[Main] + 1
        /\ Feita' = Proxima(Main) /\ app' = app
    BY <2>1, <2>3, FazAvanca
  <2>7. linha'[Main] > 1
    BY <2>6 DEF ProgramaInv
  <2>8. /\ Feita'.op = "create" /\ Feita'.alvo = alvo'[Main] /\ pc'[Main] = "gravaId"
        /\ alvo'[Main] \in UserTasks
    BY <2>2, <2>3, <2>4, <2>6, CallDeMain
  <2>9. \A u \in UserTasks : pc'[u] = pc[u] /\ alvo'[u] = alvo[u]
    BY <2>4
  <2> QED BY <2>5, <2>6, <2>7, <2>8, <2>9 DEF ProgramaInv
<1>2. ASSUME NEW t \in Usuarias, FazSetprio(t) PROVE ProgramaInv'
  <2> DEFINE u == IF Proxima(t).alvo = NULL THEN tarefaAtual ELSE Proxima(t).alvo
  <2>1. Faz(t, "setprio") /\ Setprio(t, u, Proxima(t).prio)
        /\ pedida' = [pedida EXCEPT ![u] = Proxima(t).prio]
    BY <1>2 DEF FazSetprio
  <2>2. /\ t = Main => u = Feita.alvo /\ u = Proxima(t).alvo /\ u \in UserTasks
        /\ t # Main => u = t /\ t \in UserTasks
        /\ u \in Usuarias /\ Proxima(t).prio \in Prios
    BY <2>1, AlvoDoSetprio
  <2> HIDE DEF u
  <2>3. \A v \in Usuarias : /\ pc'[v] = IF v = t THEN "gravaDin" ELSE pc[v]
                            /\ alvo'[v] = IF v = t THEN u ELSE alvo[v]
    BY <2>1 DEF Setprio, Vai, IInv, TypeOK
  <2>4. pedida' \in [Usuarias -> Int]
    BY <2>1, <2>2, Prioridades DEF ProgramaInv
  <2>5. /\ linha' \in [Usuarias -> Nat \ {0}] /\ app' = app
        /\ linha'[Main] = IF t = Main THEN linha[Main] + 1 ELSE linha[Main]
        /\ Feita' = IF t = Main THEN Proxima(Main) ELSE Feita
        /\ Proxima(t).op = "setprio"
    BY <2>1, FazAvanca
  <2>6. t = Main => linha'[Main] > 1
    BY <2>5 DEF ProgramaInv
  <2> QED BY <2>2, <2>3, <2>4, <2>5, <2>6, Lugares DEF ProgramaInv, Gravando
<1>3. ASSUME NEW t \in Usuarias, FazSwitch(t) \/ FazYield(t) \/ FazExit(t) \/ FazFim(t)
      PROVE  ProgramaInv'
  <2>1. PICK op \in {"switch", "proxima", "yield", "task_exit", "exit"} : Faz(t, op)
    BY <1>3 DEF FazSwitch, FazYield, FazExit, FazFim
  <2>2. /\ linha' \in [Usuarias -> Nat \ {0}] /\ app' = app
        /\ linha'[Main] = IF t = Main THEN linha[Main] + 1 ELSE linha[Main]
        /\ Feita' = IF t = Main THEN Proxima(Main) ELSE Feita
        /\ Proxima(t).op = op /\ pc[t] = "livre"
    BY <2>1, FazAvanca
  <2>3. t = Main => linha'[Main] > 1
    BY <2>2 DEF ProgramaInv
  <2>4. pedida' = pedida /\ alvo' = alvo
        /\ \A v \in Usuarias : pc'[v] = pc[v] \/ (v = t /\ pc'[v] = "troca")
    BY <1>3 DEF FazSwitch, FazYield, FazExit, FazFim, TaskSwitch, TaskYield, TaskExit, ExitProcesso,
                Vai, vars, maquina, IInv, TypeOK
  <2> QED BY <2>2, <2>3, <2>4, Lugares DEF ProgramaInv, Gravando
<1>4. ASSUME NEW t \in Usuarias, Chamada(t)
      PROVE  ProgramaInv' \/ \E u \in Usuarias : FazCreateEmUso(u)
  BY <1>1, <1>2, <1>3, <1>4 DEF Chamada
<1>5. ASSUME NEW t \in Usuarias, Inicia(t) PROVE ProgramaInv'
  <2>1. t = Main /\ alvo[t] \in UserTasks
    BY <1>5, Lugares DEF Inicia, CriaInicia, Em, ProgramaInv, Usuarias, IInv, Chamadas, DentroDaChamada
  <2>2. \A u \in Usuarias : Avanca(u)
    BY <1>5, NucleoAvanca DEF Inicia, ChamadaNext
  <2>3. linha' \in [Usuarias -> Nat \ {0}] /\ linha'[Main] = linha[Main]
    BY <1>5, <2>1 DEF Inicia, ProgramaInv
  <2> QED BY <1>5, <2>2, <2>3, AvancaPrograma DEF Inicia
<1>6. CASE UNCHANGED <<app, linha, pedida>> /\ \A t \in Usuarias : Avanca(t)
  BY <1>6, AvancaPrograma DEF ProgramaInv
<1>7. ASSUME NEW t \in Usuarias, Continua(t)
      PROVE UNCHANGED <<app, linha, pedida>> /\ \A u \in Usuarias : Avanca(u)
  BY <1>7, NucleoAvanca DEF Continua, ChamadaNext
<1>8. CASE Entra \/ Despacha \/ Tick \/ UNCHANGED avars \/ (PposInit /\ UNCHANGED <<app, linha, rodou, pedida, cortou>>)
  <2>1. PposInit \/ Systick \/ DispatcherNext \/ UNCHANGED vars
    BY <1>8 DEF Entra, Despacha, Tick, avars, DispatcherNext
  <2>2. UNCHANGED <<app, linha, pedida>>
    BY <1>8 DEF Entra, Despacha, Tick, avars
  <2> QED BY <1>6, <2>1, <2>2, NucleoAvanca
<1> QED BY <1>4, <1>5, <1>6, <1>7, <1>8 DEF ANext

\* Which calls set priorities, in terms of the programs alone.
LEMMA SetprioDosProgramas ==
    ASSUME NEW a \in Apps
    PROVE  /\ \A t \in UserTasks : \A i \in DOMAIN Programas[a][t] :
                 Programas[a][t][i].op = "setprio" => Programas[a][t][i].alvo = NULL
           /\ \A i \in DOMAIN Programas[a][Main] :
                 Programas[a][Main][i].op = "setprio" =>
                     /\ i > 1 /\ Programas[a][Main][i - 1].op = "create"
                     /\ Programas[a][Main][i - 1].alvo = Programas[a][Main][i].alvo
<1>1. BemFormado(Programas[a])
  BY ProgramasBemFormados, ProgramasAssumption
<1>2. ASSUME NEW t \in UserTasks, NEW i \in DOMAIN Programas[a][t]
      PROVE  Programas[a][t][i].op = "setprio" => Programas[a][t][i].alvo = NULL
  <2>1. Programas[a][t] \in Seq(DoCorpo)
    BY <1>1 DEF BemFormado
  <2>2. Programas[a][t][i] \in DoCorpo
    BY <2>1
  <2> QED BY <2>2 DEF DoCorpo
<1> QED BY <1>1, <1>2 DEF BemFormado, PrioAposCriacao

\* Who has just left the kernel has no priority of another to set.
LEMMA ForaDoMeio ==
    ASSUME ProgramaInv, NEW t \in Usuarias, pc[t] \in {"boot", "troca"}, pc'[t] = "livre",
           app' = app, linha'[t] = linha[t]
    PROVE  ~NoMeio(t)'
<1>1. app \in Apps
  BY DEF ProgramaInv
<1>2. pc'[t] \notin LugaresCont \cup {"gravaDin", "gravaEst"}
  BY DEF LugaresCont
<1>3. CASE t \in UserTasks
  BY <1>1, <1>2, <1>3, SetprioDosProgramas DEF NoMeio, Proxima
<1>4. CASE t = Main
  <2> DEFINE i == linha[Main]
  <2>1. i = 1 \/ Programas[app][Main][i - 1].op # "create"
    BY <1>4 DEF ProgramaInv, Feita
  <2>2. ~(i \in DOMAIN Programas[app][Main] /\ Programas[app][Main][i].op = "setprio")
    BY <1>1, <2>1, SetprioDosProgramas
  <2> QED BY <1>2, <1>4, <2>2 DEF NoMeio, Proxima
<1> QED BY <1>3, <1>4 DEF Usuarias

LEMMA MeioMesmo ==
    ASSUME NEW t \in Usuarias, pc'[t] = pc[t], app' = app, linha'[t] = linha[t]
    PROVE  NoMeio(t)' = NoMeio(t)
BY DEF NoMeio, Proxima

\* A tick takes the processor from a user task.
LEMMA TickPreemptaUsuario ==
    ASSUME IInv, Systick, TickPreempta
    PROVE  FaseUsuario /\ cpu \in Usuarias
<1>1. tarefaAtual # Dispatcher
  BY DEF IInv, Relogio, Systick
<1>2. FaseBoot \/ FaseJanela \/ FaseUsuario
  BY <1>1 DEF IInv, Fases, FaseLaco, FaseRetorno
<1>3. ~(FaseBoot \/ FaseJanela)
  <2>1. FaseBoot \/ FaseJanela => quantum = QUANTUM_VAL - janela /\ janela < TicksJanela
    BY DEF IInv, Relogio, Systick, EmJanela, FaseBoot, FaseJanela
  <2>2. janela \in Nat /\ quantum = 1
    BY DEF IInv, TypeOK, TickPreempta
  <2> QED BY <2>1, <2>2, QuantumAssumption
<1> QED BY <1>2, <1>3 DEF FaseUsuario, Despachada

LEMMA MeioPreserva ==
    ASSUME IInv, ProgramaInv, [ANext]_avars, \A t \in Usuarias : ~FazCreateEmUso(t),
           ~cortou => MeioNaCpu, ~cortou'
    PROVE  ~cortou /\ MeioNaCpu'
<1> USE Nomes
<1>1. ~cortou
  <2>1. ~cortou \/ cortou' = cortou
    BY DEF ANext, avars, Chamada, FazCreate, FazSetprio, FazSwitch, FazYield, FazExit, FazFim, Faz,
           Inicia, Continua, Entra, Despacha, Tick, Encerrado
  <2> QED BY <2>1
<1> SUFFICES ASSUME NEW u \in Usuarias, NoMeio(u)' PROVE u = cpu'
  BY <1>1 DEF MeioNaCpu
<1>3. NoMeio(u) => u = cpu
  BY <1>1 DEF MeioNaCpu
<1>4. app' = app /\ linha'[u] = linha[u] /\ pc'[u] = pc[u] => NoMeio(u)
  BY MeioMesmo
<1>5. ASSUME NEW t \in Usuarias, Chamada(t) PROVE u = cpu'
  <2>1. PICK op : Faz(t, op)
    BY <1>5 DEF Chamada, FazCreate, FazSetprio, FazSwitch, FazYield, FazExit, FazFim
  <2>2. FaseUsuario /\ cpu = t /\ tarefaAtual = t /\ app' = app
        /\ (u # t => linha'[u] = linha[u])
    BY <2>1, FazAvanca
  <2>3. (u # t => pc'[u] = pc[u]) /\ cpu' = cpu
    <3>1. CASE FazSwitch(t)
      <4>1. CASE TaskSwitch(t, Destino(t))
        <5>1. Destino(t) = t
          BY <2>2, <4>1 DEF TaskSwitch, FaseUsuario, Despachada
        <5> QED BY <2>2, <4>1, <5>1 DEF TaskSwitch
      <4>2. CASE UNCHANGED vars
        BY <4>2 DEF vars, maquina
      <4> QED BY <3>1, <4>1, <4>2 DEF FazSwitch
    <3>2. CASE FazCreate(t)
      BY <3>2 DEF FazCreate, CriaLeId, Vai
    <3>3. CASE FazSetprio(t)
      BY <3>3 DEF FazSetprio, Setprio, Vai
    <3>4. CASE FazYield(t) \/ FazExit(t) \/ FazFim(t)
      <4>1. TaskYield(t) \/ TaskExit(t) \/ ExitProcesso(t)
        BY <3>4 DEF FazYield, FazExit, FazFim
      <4> QED BY <4>1 DEF TaskYield, TaskExit, ExitProcesso, Vai, maquina, IInv, TypeOK
    <3> QED BY <1>5, <3>1, <3>2, <3>3, <3>4 DEF Chamada
  <2> QED BY <1>3, <1>4, <2>2, <2>3
<1>6. ASSUME NEW t \in Usuarias, Inicia(t) PROVE u = cpu'
  <2>1. PICK e \in UserTasks : e = alvo[t]
    BY <1>6, Lugares DEF Inicia, CriaInicia, Em, IInv, Chamadas, DentroDaChamada
  <2>2. /\ cpu = t /\ cpu' = cpu /\ app' = app /\ linha' = [linha EXCEPT ![e] = 1]
        /\ pc' = [pc EXCEPT ![t] = "publica", ![e] = "livre"]
    BY <1>6, <2>1 DEF Inicia, CriaInicia, Em
  <2>3. /\ u \notin {t, e} => pc'[u] = pc[u] /\ linha'[u] = linha[u]
        /\ pc'[e] = "livre" /\ linha'[e] = 1
    BY <2>2 DEF IInv, TypeOK, ProgramaInv
  <2>4. u = e => ~NoMeio(u)'
    <3> SUFFICES ASSUME u = e PROVE ~NoMeio(u)'
      OBVIOUS
    <3>1. app \in Apps
      BY DEF ProgramaInv
    <3>2. 1 \in DOMAIN Programas[app][e] /\ Programas[app][e][1].op = "setprio"
              => Programas[app][e][1].alvo = NULL
      BY <3>1, SetprioDosProgramas
    <3> QED BY <2>2, <2>3, <3>2 DEF NoMeio, Proxima, LugaresCont
  <2> QED BY <1>3, <1>4, <2>2, <2>3, <2>4
<1>7. ASSUME NEW t \in Usuarias, Continua(t) PROVE u = cpu'
  <2>1. cpu = t /\ app' = app /\ linha' = linha /\ (u # t => pc'[u] = pc[u])
    BY <1>7 DEF Continua, ChamadaNext, CriaGravaId, CriaInicia, CriaSemMemoria, CriaPublica, CriaLeCont,
                CriaGravaCont, GravaPrioDinamica, GravaPrioEstatica, Troca, Em, Vai, maquina, IInv, TypeOK
  <2>2. u # t => FALSE
    BY <1>3, <1>4, <2>1
  <2>3. CASE Troca(t)
    <3>1. ~NoMeio(t)'
      BY <2>1, <2>3, ForaDoMeio DEF Troca, Em, Vai, IInv, TypeOK
    <3> QED BY <2>2, <3>1
  <2>4. CASE ~Troca(t)
    <3>1. cpu' = cpu
      BY <1>7, <2>4
         DEF Continua, ChamadaNext, CriaGravaId, CriaInicia, CriaSemMemoria, CriaPublica, CriaLeCont,
             CriaGravaCont, GravaPrioDinamica, GravaPrioEstatica, maquina
    <3> QED BY <2>1, <2>2, <3>1
  <2> QED BY <2>3, <2>4
<1>8. CASE Entra \/ Despacha
  <2>1. cpu = Dispatcher /\ app' = app /\ linha' = linha
    BY <1>8 DEF Entra, Despacha, DispatcherNext, DispatcherFim, DispatcherOcioso, DispatcherDespacha,
                DispatcherTroca, DispatcherPronta, DispatcherRecolhe, Em
  <2>2. pc'[u] = pc[u]
    BY <1>8 DEF Entra, Despacha, DispatcherNext, DispatcherFim, DispatcherOcioso, DispatcherDespacha,
                DispatcherTroca, DispatcherPronta, DispatcherRecolhe, Vai, maquina, IInv, TypeOK
  <2> QED BY <1>3, <1>4, <2>1, <2>2
<1>9. CASE Tick
  <2>1. Systick /\ pc' = pc /\ app' = app /\ linha' = linha
    BY <1>9 DEF Tick, Systick
  <2>2. NoMeio(u) /\ u = cpu
    BY <1>3, <1>4, <2>1
  <2>3. ~TickPreempta
    <3> SUFFICES ASSUME TickPreempta PROVE FALSE
      OBVIOUS
    <3>1. FaseUsuario /\ cpu \in Usuarias /\ quantum = 1
      BY <2>1, TickPreemptaUsuario DEF TickPreempta
    <3> QED BY <1>9, <2>2, <3>1 DEF Tick
  <2> QED BY <2>1, <2>2, <2>3 DEF Systick, TickDecrementa
<1>10. CASE PposInit /\ UNCHANGED <<app, linha, rodou, pedida, cortou>>
  <2>1. cpu = Main /\ (u # Main => pc'[u] = pc[u])
    BY <1>10 DEF PposInit, Em, Vai, IInv, TypeOK
  <2>2. u # Main
    BY <1>10, ForaDoMeio DEF PposInit, Em, Vai, IInv, TypeOK
  <2> QED BY <1>3, <1>4, <1>10, <2>1, <2>2
<1>11. CASE UNCHANGED avars
  <2>1. app' = app /\ linha' = linha /\ pc' = pc /\ cpu' = cpu
    BY <1>11 DEF avars, vars, maquina
  <2> QED BY <1>3, <1>4, <2>1
<1> QED BY <1>5, <1>6, <1>7, <1>8, <1>9, <1>10, <1>11 DEF ANext, Encerrado

\* No task enters or leaves task_create or task_setprio, and a task that is
\* published is being created.
SemPedido ==
    /\ \A u \in Usuarias :
          /\ pc'[u] \in Criando <=> pc[u] \in Criando
          /\ pc'[u] \in Gravando <=> pc[u] \in Gravando
          /\ pc[u] \in Gravando => reg'[u] = reg[u]
    /\ UNCHANGED <<alvo, prioEstatica, pedida>>
    /\ \A v \in Vivas' : v \in Vivas \/ \E u \in Usuarias : alvo[u] = v /\ pc[u] \in Criando

LEMMA SemPedidoPreserva ==
    ASSUME PedidaInv, SemPedido, ~cortou, ~cortou' => MeioNaCpu'
    PROVE  PedidaInv'
<1>1. \A v : EmMudanca(v) => EmMudanca(v)'
  BY DEF EmMudanca, SemPedido, Gravando
<1>2. \A v \in Vivas' : v \in Vivas \/ EmMudanca(v)
  BY DEF SemPedido, EmMudanca
<1>3. PrioridadePedida'
  <2>1. \A v \in Vivas : prioEstatica[v] = pedida[v] \/ EmMudanca(v)
    BY DEF PedidaInv, PrioridadePedida
  <2>2. \A v \in Vivas' : prioEstatica[v] = pedida[v] \/ EmMudanca(v)'
    BY <1>1, <1>2, <2>1
  <2> QED BY <2>2 DEF PrioridadePedida, SemPedido
<1> QED BY <1>3, Nomes DEF PedidaInv, SemPedido

\* The steps that are neither the start of a call that changes priorities nor
\* the stores of task_create and task_setprio.
LEMMA SemPedidoPassos ==
    ASSUME IInv, IInv', ProgramaInv, [ANext]_avars,
           \A t \in Usuarias : ~FazCreateEmUso(t) /\ ~FazCreate(t) /\ ~FazSetprio(t)
                               /\ ~CriaGravaCont(t) /\ ~GravaPrioEstatica(t)
    PROVE  SemPedido
<1> USE Nomes, Lugares DEF Gravando
<1>1. ASSUME UNCHANGED <<alvo, reg, prioEstatica, pedida, filas>>,
             \A u \in Usuarias : pc'[u] = pc[u] \/ (pc[u] \in {"livre", "troca", "boot"} /\ pc'[u] \in {"livre", "troca", "boot"})
      PROVE  SemPedido
  BY <1>1, VivasIguais DEF SemPedido
<1>2. ASSUME NEW t \in Usuarias, FazSwitch(t) \/ FazYield(t) \/ FazExit(t) \/ FazFim(t)
      PROVE  SemPedido
  <2>1. \/ \E u : TaskSwitch(t, u)
        \/ TaskYield(t) \/ TaskExit(t) \/ ExitProcesso(t) \/ UNCHANGED vars
    BY <1>2 DEF FazSwitch, FazYield, FazExit, FazFim
  <2>2. pedida' = pedida
    BY <1>2 DEF FazSwitch, FazYield, FazExit, FazFim
  <2>3. UNCHANGED <<alvo, reg, prioEstatica, filas>>
    BY <2>1 DEF TaskSwitch, TaskYield, TaskExit, ExitProcesso, vars, maquina, tcb, filas
  <2>4. \A u \in Usuarias : pc'[u] = pc[u] \/ (pc[u] = "livre" /\ pc'[u] = "troca")
    BY <2>1 DEF TaskSwitch, TaskYield, TaskExit, ExitProcesso, Em, Vai, vars, maquina, IInv, TypeOK
  <2> QED BY <1>1, <2>2, <2>3, <2>4
<1>3. ASSUME NEW t \in Usuarias, Inicia(t) PROVE SemPedido
  <2>1. CriaInicia(t) /\ pedida' = pedida
    BY <1>3 DEF Inicia
  <2>2. /\ pc[t] = "inicia" /\ alvo[t] \in UserTasks /\ alvo[t] \notin Vivas
        /\ pc[alvo[t]] \in {"livre", "troca"}
    BY <2>1 DEF CriaInicia, Em, IInv, Chamadas, DentroDaChamada, AntesDePublicar, Codigo
  <2>3. pc' = [pc EXCEPT ![t] = "publica", ![alvo[t]] = "livre"]
        /\ UNCHANGED <<alvo, reg, prioEstatica, filas>>
    BY <2>1 DEF CriaInicia
  <2>4. \A u \in Usuarias : pc'[u] = IF u = alvo[t] THEN "livre" ELSE IF u = t THEN "publica" ELSE pc[u]
    BY <2>2, <2>3 DEF IInv, TypeOK
  <2>5. \A u \in Usuarias : /\ pc'[u] \in Criando <=> pc[u] \in Criando
                            /\ pc'[u] \in Gravando <=> pc[u] \in Gravando
    BY <2>2, <2>4
  <2>6. Vivas' = Vivas /\ \A u \in Usuarias : pc[u] \in Gravando => reg'[u] = reg[u]
    BY <2>3, VivasIguais
  <2> QED BY <2>1, <2>3, <2>5, <2>6 DEF SemPedido
<1>4. ASSUME NEW t \in Usuarias, Continua(t) PROVE SemPedido
  <2>1. pedida' = pedida /\ ChamadaNext(t)
    BY <1>4 DEF Continua, ChamadaNext
  <2>2. CASE CriaSemMemoria(t)
    BY <1>1, <2>1, <2>2 DEF CriaSemMemoria, tcb, maquina
  <2>3. CASE Troca(t)
    <3>1. UNCHANGED <<alvo, reg, prioEstatica, filas>>
      BY <2>3 DEF Troca, tcb
    <3>2. \A u \in Usuarias : pc'[u] = pc[u] \/ (pc[u] = "troca" /\ pc'[u] = "livre")
      BY <2>3 DEF Troca, Em, Vai, IInv, TypeOK
    <3> QED BY <1>1, <2>1, <3>1, <3>2
  <2>4. CASE CriaGravaId(t) \/ CriaLeCont(t) \/ GravaPrioDinamica(t)
    <3>1. UNCHANGED <<alvo, prioEstatica, filas>>
          /\ (CriaGravaId(t) \/ GravaPrioDinamica(t) => reg' = reg)
      BY <2>4 DEF CriaGravaId, CriaLeCont, GravaPrioDinamica, tcb
    <3>2. CASE CriaGravaId(t)
      BY <2>1, <3>1, <3>2, VivasIguais DEF CriaGravaId, Em, Vai, SemPedido, IInv, TypeOK
    <3>3. CASE CriaLeCont(t)
      BY <2>1, <3>1, <3>3, VivasIguais DEF CriaLeCont, Em, Vai, SemPedido, IInv, TypeOK
    <3>4. CASE GravaPrioDinamica(t)
      <4>1. pc[t] = "gravaDin" /\ \A u \in Usuarias : pc'[u] = IF u = t THEN "gravaEst" ELSE pc[u]
        BY <3>4 DEF GravaPrioDinamica, Em, Vai, IInv, TypeOK
      <4>2. \A u \in Usuarias : /\ pc'[u] \in Criando <=> pc[u] \in Criando
                                /\ pc'[u] \in Gravando <=> pc[u] \in Gravando
        BY <4>1
      <4>3. Vivas' = Vivas /\ \A u \in Usuarias : pc[u] \in Gravando => reg'[u] = reg[u]
        BY <3>1, <3>4, VivasIguais
      <4> QED BY <2>1, <3>1, <4>2, <4>3 DEF SemPedido
    <3> QED BY <2>4, <3>2, <3>3, <3>4
  <2>5. CASE CriaPublica(t)
    <3>1. pc[t] = "publica" /\ Vivas' = Vivas \cup {alvo[t]}
      BY <2>5, CriaPublicaVivas DEF CriaPublica, Em
    <3>2. UNCHANGED <<alvo, reg, prioEstatica>>
      BY <2>5 DEF CriaPublica, tcb
    <3>3. \A u \in Usuarias : pc'[u] = IF u = t THEN "leCont" ELSE pc[u]
      BY <2>5 DEF CriaPublica, Vai, IInv, TypeOK
    <3> QED BY <2>1, <3>1, <3>2, <3>3 DEF SemPedido
  <2> QED BY <1>4, <2>1, <2>2, <2>3, <2>4, <2>5 DEF Continua, ChamadaNext, CriaInicia, Em
<1>5. CASE Entra \/ Despacha
  <2>1. DispatcherNext /\ pedida' = pedida
    BY <1>5 DEF Entra, Despacha, DispatcherNext
  <2>2. UNCHANGED <<alvo, reg, prioEstatica>> /\ \A u \in Usuarias : pc'[u] = pc[u]
    BY <2>1 DEF DispatcherNext, DispatcherFim, DispatcherOcioso, DispatcherDespacha, DispatcherTroca,
                DispatcherPronta, DispatcherRecolhe, Vai, tcb, maquina, IInv, TypeOK
  <2>3. Vivas' \subseteq Vivas
    <3>1. DispatcherFim \/ DispatcherOcioso \/ DispatcherTroca => filas' = filas
      BY DEF DispatcherFim, DispatcherOcioso, DispatcherTroca
    <3> QED BY <2>1, <3>1, VivasIguais, DespachaVivas, ProntaVivas, RecolheVivas DEF DispatcherNext
  <2> QED BY <2>1, <2>2, <2>3 DEF SemPedido
<1>6. CASE Tick
  BY <1>1, <1>6 DEF Tick, Systick, tcb
<1>7. CASE PposInit /\ UNCHANGED <<app, linha, rodou, pedida, cortou>>
  <2>1. UNCHANGED <<alvo, reg, prioEstatica, filas>>
    BY <1>7 DEF PposInit, tcb
  <2>2. \A u \in Usuarias : pc'[u] = pc[u] \/ (pc[u] = "boot" /\ pc'[u] = "livre")
    BY <1>7 DEF PposInit, Em, Vai, IInv, TypeOK
  <2> QED BY <1>1, <1>7, <2>1, <2>2
<1>8. CASE UNCHANGED avars
  BY <1>1, <1>8 DEF avars, vars, maquina, tcb
<1> QED BY <1>2, <1>3, <1>4, <1>5, <1>6, <1>7, <1>8 DEF ANext, Encerrado, Chamada

\* task_create asks the priority 0 for a descriptor that is not live.
LEMMA CreatePedida ==
    ASSUME IInv, ProgramaInv, ProgramaInv', PedidaInv, ~cortou, MeioNaCpu', NEW t \in Usuarias, FazCreate(t)
    PROVE  PedidaInv'
<1> USE Nomes, Lugares DEF Gravando
<1>1. Faz(t, "create") /\ CriaLeId(t, Proxima(t).alvo)
      /\ pedida' = [pedida EXCEPT ![Proxima(t).alvo] = 0]
  BY DEF FazCreate
<1>2. linha[t] \in DOMAIN Programas[app][t] /\ Proxima(t).op = "create"
  BY <1>1 DEF Faz
<1>3. t = Main
  BY <1>2, CallDoCorpo DEF Usuarias
<1>4. PICK e \in UserTasks : e = Proxima(t).alvo
  BY <1>2, <1>3, CallDeMain
<1>5. /\ e \notin Vivas
      /\ \A u \in Usuarias : pc[u] \in Criando \cup Gravando => alvo[u] # e
      /\ pc[t] = "livre"
      /\ UNCHANGED <<filas, prioEstatica>>
  BY <1>1, <1>4 DEF CriaLeId, Em, tcb
<1>6. \A u \in Usuarias : /\ pc'[u] = IF u = t THEN "gravaId" ELSE pc[u]
                          /\ alvo'[u] = IF u = t THEN e ELSE alvo[u]
                          /\ u # t => reg'[u] = reg[u]
                          /\ pedida'[u] = IF u = e THEN 0 ELSE pedida[u]
  BY <1>1, <1>4 DEF CriaLeId, Vai, IInv, TypeOK, ProgramaInv
<1>7. Vivas' = Vivas /\ Vivas \subseteq Usuarias
  BY <1>5, VivasIguais, VivasUsuarias DEF IInv
<1>8. \A v \in Vivas : EmMudanca(v) => EmMudanca(v)'
  BY <1>5, <1>6 DEF EmMudanca
<1>9. PrioridadePedida'
  BY <1>5, <1>6, <1>7, <1>8 DEF PedidaInv, PrioridadePedida
<1>10. \A u \in Usuarias : pc'[u] \notin Gravando
  <2>1. \A u \in Usuarias : pc[u] \in Gravando => u = t
    BY <1>1 DEF PedidaInv, MeioNaCpu, NoMeio, CriaLeId, Em
  <2> QED BY <1>6, <2>1
<1> QED BY <1>3, <1>6, <1>9, <1>10 DEF PedidaInv

\* The call of task_setprio: who makes it has the processor, and no other is
\* storing a priority.
LEMMA SetprioPedida ==
    ASSUME IInv, ProgramaInv, PedidaInv, ~cortou, MeioNaCpu', NEW t \in Usuarias, FazSetprio(t)
    PROVE  PedidaInv'
<1> USE Nomes, Lugares DEF Gravando
<1> DEFINE w == IF Proxima(t).alvo = NULL THEN tarefaAtual ELSE Proxima(t).alvo
<1>1. PICK e \in Usuarias : e = w
  BY AlvoDoSetprio DEF FazSetprio
<1>2. PICK p \in Prios : p = Proxima(t).prio
  BY AlvoDoSetprio DEF FazSetprio
<1>3. Faz(t, "setprio") /\ Setprio(t, e, p) /\ pedida' = [pedida EXCEPT ![e] = p]
  BY <1>1, <1>2 DEF FazSetprio
<1>4. /\ FaseUsuario /\ cpu = t /\ tarefaPrevia = t /\ pc[t] = "livre"
      /\ UNCHANGED <<filas, prioEstatica>>
  BY <1>3, FazAvanca DEF Setprio, tcb
<1>5. (t # Main => e = t) /\ (t = Main => e \in UserTasks)
  BY <1>1, <1>3, AlvoDoSetprio
<1> HIDE DEF w
<1>6. \A u \in Usuarias : /\ pc'[u] = IF u = t THEN "gravaDin" ELSE pc[u]
                          /\ alvo'[u] = IF u = t THEN e ELSE alvo[u]
                          /\ reg'[u] = IF u = t THEN p ELSE reg[u]
                          /\ pedida'[u] = IF u = e THEN p ELSE pedida[u]
  BY <1>3 DEF Setprio, Vai, IInv, TypeOK, ProgramaInv
<1>7. Vivas' = Vivas /\ Vivas \subseteq Usuarias /\ t \in Vivas
  BY <1>4, VivasIguais, VivasUsuarias, VivasNasFases DEF IInv, FaseUsuario
<1>8. \A u \in Usuarias \ {t} : pc[u] \notin Gravando \cup LugaresCont
  BY <1>4 DEF PedidaInv, MeioNaCpu, NoMeio
<1>9. \A v \in Vivas : EmMudanca(v) => EmMudanca(v)'
  BY <1>4, <1>6 DEF EmMudanca
<1>10. EmMudanca(e)'
  BY <1>6 DEF EmMudanca
<1>11. PrioridadePedida'
  <2> SUFFICES ASSUME NEW v \in Vivas PROVE prioEstatica'[v] = pedida'[v] \/ EmMudanca(v)'
    BY <1>7 DEF PrioridadePedida
  <2>1. v \in Usuarias /\ (prioEstatica[v] = pedida[v] \/ EmMudanca(v))
    BY <1>7 DEF PedidaInv, PrioridadePedida
  <2>2. CASE v = e
    BY <1>10, <2>2
  <2>3. CASE v # e
    BY <1>4, <1>6, <1>9, <2>1, <2>3
  <2> QED BY <2>2, <2>3
<1>12. \A u \in Usuarias : pc'[u] \in Gravando => reg'[u] = pedida'[alvo'[u]]
  BY <1>6, <1>8
<1>13. pc'[Main] \in Criando => pedida'[alvo'[Main]] = 0
  <2> SUFFICES ASSUME pc'[Main] \in Criando PROVE pedida'[alvo'[Main]] = 0
    OBVIOUS
  <2>1. t # Main /\ pc[Main] \in Criando /\ alvo'[Main] = alvo[Main] /\ e = t
    BY <1>5, <1>6
  <2>2. pc[Main] \in AntesDePublicar
    BY <1>8, <2>1 DEF AntesDePublicar, LugaresCont
  <2>3. alvo[Main] \notin Vivas /\ alvo[Main] \in UserTasks
    BY <2>1, <2>2 DEF IInv, Chamadas, DentroDaChamada
  <2> QED BY <1>6, <1>7, <2>1, <2>3 DEF PedidaInv
<1> QED BY <1>11, <1>12, <1>13 DEF PedidaInv

\* The store that counts the task: what follows is a task_setprio(task, 0).
LEMMA GravaContPedida ==
    ASSUME IInv, ProgramaInv, PedidaInv, ~cortou, MeioNaCpu', NEW t \in Usuarias, CriaGravaCont(t), pedida' = pedida
    PROVE  PedidaInv'
<1> USE Nomes, Lugares DEF Gravando
<1>1. pc[t] = "gravaCont" /\ UNCHANGED <<filas, prioEstatica, alvo>>
  BY DEF CriaGravaCont, Em, tcb
<1>2. t = Main
  BY <1>1 DEF ProgramaInv, Usuarias
<1>3. \A u \in Usuarias : /\ pc'[u] = IF u = t THEN "gravaDin" ELSE pc[u]
                          /\ reg'[u] = IF u = t THEN 0 ELSE reg[u]
  BY DEF CriaGravaCont, Vai, IInv, TypeOK
<1>4. Vivas' = Vivas
  BY <1>1, VivasIguais
<1>5. \A v \in Vivas : EmMudanca(v) => EmMudanca(v)'
  BY <1>1, <1>3 DEF EmMudanca
<1>6. PrioridadePedida'
  BY <1>1, <1>4, <1>5 DEF PedidaInv, PrioridadePedida
<1>7. pedida[alvo[Main]] = 0
  BY <1>1, <1>2 DEF PedidaInv
<1> QED BY <1>1, <1>2, <1>3, <1>6, <1>7 DEF PedidaInv

\* The last store gives the task the priority that was asked.
LEMMA GravaEstaticaPedida ==
    ASSUME IInv, ProgramaInv, PedidaInv, ~cortou, MeioNaCpu', NEW t \in Usuarias, GravaPrioEstatica(t),
           pedida' = pedida
    PROVE  PedidaInv'
<1> USE Nomes, Lugares DEF Gravando
<1>1. pc[t] = "gravaEst" /\ UNCHANGED filas /\ reg[t] = pedida[alvo[t]]
  BY DEF GravaPrioEstatica, Em, PedidaInv
<1>2. \A u \in Usuarias : /\ pc'[u] = IF u = t THEN "livre" ELSE pc[u]
                          /\ u # t => reg'[u] = reg[u] /\ alvo'[u] = alvo[u]
  BY DEF GravaPrioEstatica, Vai, IInv, TypeOK
<1>3. PICK e : e = alvo[t]
  OBVIOUS
<1>4. \A u \in Usuarias : prioEstatica'[u] = IF u = e THEN reg[t] ELSE prioEstatica[u]
  BY <1>3 DEF GravaPrioEstatica, IInv, TypeOK
<1>5. Vivas' = Vivas /\ Vivas \subseteq Usuarias
  BY <1>1, VivasIguais, VivasUsuarias DEF IInv
<1>6. \A v \in Vivas : EmMudanca(v) => EmMudanca(v)' \/ v = e
  BY <1>2, <1>3 DEF EmMudanca
<1>7. PrioridadePedida'
  <2> SUFFICES ASSUME NEW v \in Vivas PROVE prioEstatica'[v] = pedida[v] \/ EmMudanca(v)'
    BY <1>5 DEF PrioridadePedida
  <2>1. v \in Usuarias /\ (prioEstatica[v] = pedida[v] \/ EmMudanca(v))
    BY <1>5 DEF PedidaInv, PrioridadePedida
  <2> QED BY <1>1, <1>3, <1>4, <1>6, <2>1
<1> QED BY <1>2, <1>7 DEF PedidaInv

LEMMA PedidaPreserva ==
    ASSUME IInv, IInv', ProgramaInv, ProgramaInv', PedidaInv, [ANext]_avars,
           \A t \in Usuarias : ~FazCreateEmUso(t)
    PROVE  PedidaInv'
<1> SUFFICES ASSUME ~cortou' PROVE PedidaInv'
  BY DEF PedidaInv
<1>1. ~cortou /\ MeioNaCpu'
  BY MeioPreserva DEF PedidaInv
<1>2. ASSUME NEW t \in Usuarias, FazCreate(t) \/ FazSetprio(t) PROVE PedidaInv'
  BY <1>1, <1>2, CreatePedida, SetprioPedida
<1>3. ASSUME NEW t \in Usuarias, CriaGravaCont(t) \/ GravaPrioEstatica(t) PROVE PedidaInv'
  <2>1. pc[t] \in {"gravaCont", "gravaEst"} /\ cpu = t /\ t # Dispatcher /\ saida = "nenhuma"
    BY <1>3, Nomes DEF CriaGravaCont, GravaPrioEstatica, Em
  <2>2. reg' = [reg EXCEPT ![t] = 0] /\ pc' = [pc EXCEPT ![t] = IF pc[t] = "gravaCont" THEN "gravaDin" ELSE "livre"]
    BY <1>3, <2>1 DEF CriaGravaCont, GravaPrioEstatica, Vai, Em
  <2>3. pc' # pc
    BY <2>1, <2>2, Nomes DEF IInv, TypeOK
  <2>4. pedida' = pedida
    BY <2>1, <2>3
       DEF ANext, avars, vars, maquina, Encerrado, Chamada, Faz, FazCreate, FazSetprio, FazSwitch, FazYield,
           FazExit, FazFim, FazCreateEmUso, Em, Inicia, Continua, Entra, Despacha, Tick, PposInit
  <2> QED BY <1>1, <1>3, <2>4, GravaContPedida, GravaEstaticaPedida
<1>4. CASE \A t \in Usuarias : ~FazCreate(t) /\ ~FazSetprio(t) /\ ~CriaGravaCont(t) /\ ~GravaPrioEstatica(t)
  <2>1. SemPedido
    BY <1>4, SemPedidoPassos
  <2> QED BY <1>1, <2>1, SemPedidoPreserva
<1> QED BY <1>2, <1>3, <1>4

-----------------------------------------------------------------------------
\* The order of the ready queue.

\* A queue whose tasks are as they were, but for the last, which may be new at
\* its static priority, and for those in focus.
LEMMA OrdenadaNoFim ==
    ASSUME NEW q, NEW f, NEW p, NEW e, Ordenada(q, f, p, e),
           NEW s, NEW g, NEW p2, NEW e2, Len(s) \in Nat,
           \A i \in 1..Len(s) : p2[s[i]] \in Int /\ e2[s[i]] \in Int,
           \A i \in 1..Len(s) :
              \/ s[i] \in g
              \/ /\ i \in 1..Len(q) /\ s[i] = q[i] /\ q[i] \notin f
                 /\ p2[s[i]] = p[q[i]] /\ e2[s[i]] = e[q[i]]
              \/ i = Len(s) /\ p2[s[i]] = e2[s[i]]
    PROVE  Ordenada(s, g, p2, e2)
<1>1. ASSUME NEW i \in 1..Len(s), s[i] \notin g PROVE p2[s[i]] <= e2[s[i]]
  BY <1>1 DEF Ordenada
<1>2. ASSUME NEW i \in 1..Len(s), NEW j \in 1..Len(s), i < j, s[i] \notin g, s[j] \notin g,
             e2[s[i]] <= e2[s[j]]
      PROVE  p2[s[i]] <= p2[s[j]]
  <2>1. i \in 1..Len(q) /\ s[i] = q[i] /\ q[i] \notin f /\ p2[s[i]] = p[q[i]] /\ e2[s[i]] = e[q[i]]
    BY <1>2
  <2>2. CASE j \in 1..Len(q) /\ s[j] = q[j] /\ q[j] \notin f /\ p2[s[j]] = p[q[j]] /\ e2[s[j]] = e[q[j]]
    BY <1>2, <2>1, <2>2 DEF Ordenada
  <2>3. CASE p2[s[j]] = e2[s[j]]
    BY <1>1, <1>2, <2>3
  <2> QED BY <1>2, <2>2, <2>3
<1> QED BY <1>1, <1>2 DEF Ordenada

\* The tasks that stay when one is taken off the queue stay in order.
LEMMA RetiraOrdem ==
    ASSUME NEW S, NEW s \in Seq(S), SemRepetir(s), NEW e \in ToSet(s)
    PROVE  \A i, j \in 1..Len(Retira(s, e)) :
              i < j => \E m, n \in 1..Len(s) : m < n /\ s[m] = Retira(s, e)[i] /\ s[n] = Retira(s, e)[j]
<1>1. PICK k \in 1..Len(s) : s[k] = e
  BY DEF ToSet
<1>2. Retira(s, e) = RemoveAt(s, k)
  BY <1>1 DEF Retira, SemRepetir
<1> DEFINE a == SubSeq(s, 1, k - 1)
           b == SubSeq(s, k + 1, Len(s))
           r == a \o b
<1>3. Len(s) \in Nat /\ k \in Int /\ \A i \in 1..Len(s) : s[i] \in S
  OBVIOUS
<1>4. a \in Seq(S) /\ Len(a) = k - 1 /\ \A i \in 1..(k - 1) : a[i] = s[i]
  BY <1>3
<1>5. b \in Seq(S) /\ Len(b) = Len(s) - k /\ \A i \in 1..(Len(s) - k) : b[i] = s[k + i]
  BY <1>3
<1> HIDE DEF a, b
<1>6. /\ Len(r) = Len(a) + Len(b)
      /\ \A i \in 1..(Len(a) + Len(b)) : r[i] = IF i <= Len(a) THEN a[i] ELSE b[i - Len(a)]
  BY <1>4, <1>5, ConcatProperties
<1>7. r = Retira(s, e)
  BY <1>2 DEF RemoveAt, a, b
<1> HIDE DEF r
<1>8. ASSUME NEW i \in 1..(Len(s) - 1)
      PROVE  r[i] = s[IF i < k THEN i ELSE i + 1]
  <2>1. CASE i < k
    BY <1>3, <1>4, <1>5, <1>6, <2>1
  <2>2. CASE ~(i < k)
    <3>1. r[i] = b[i - (k - 1)] /\ i - (k - 1) \in 1..(Len(s) - k)
      BY <1>3, <1>4, <1>5, <1>6, <2>2
    <3>2. k + (i - (k - 1)) = i + 1
      BY <1>3
    <3> QED BY <1>5, <2>2, <3>1, <3>2
  <2> QED BY <2>1, <2>2
<1>9. Len(r) = Len(s) - 1
  BY <1>3, <1>4, <1>5, <1>6
<1>10. ASSUME NEW i \in 1..Len(r), NEW j \in 1..Len(r), i < j
       PROVE  \E m, n \in 1..Len(s) : m < n /\ s[m] = r[i] /\ s[n] = r[j]
  <2> DEFINE m == IF i < k THEN i ELSE i + 1
             n == IF j < k THEN j ELSE j + 1
  <2>1. m \in 1..Len(s) /\ n \in 1..Len(s) /\ m < n
    BY <1>3, <1>9, <1>10
  <2>2. i \in 1..(Len(s) - 1) /\ j \in 1..(Len(s) - 1)
    BY <1>9
  <2>3. \A x \in 1..(Len(s) - 1) : r[x] = s[IF x < k THEN x ELSE x + 1]
    BY <1>8
  <2>4. r[i] = s[m] /\ r[j] = s[n]
    <3>1. r[i] = s[IF i < k THEN i ELSE i + 1] /\ r[j] = s[IF j < k THEN j ELSE j + 1]
      BY <2>2, <2>3, Zenon
    <3> QED BY <3>1
  <2> HIDE DEF m, n
  <2> QED BY <2>1, <2>4
<1> DEFINE EmOrdemDe(x) ==
        \A i, j \in 1..Len(x) : i < j => \E m, n \in 1..Len(s) : m < n /\ s[m] = x[i] /\ s[n] = x[j]
<1>11. EmOrdemDe(r)
  BY <1>10
<1> HIDE DEF EmOrdemDe
<1>12. EmOrdemDe(Retira(s, e))
  BY <1>7, <1>11
<1> QED BY <1>12 DEF EmOrdemDe

\* The priorities the scheduler compares.
LEMMA PrioridadeDe ==
    ASSUME TypeOK, NEW t \in Usuarias
    PROVE  /\ PrioInicial[t] = IF t = tarefaPrevia THEN prioEstatica[t] ELSE prioDinamica[t]
           /\ PrioInicial[t] \in Int /\ prioEstatica[t] \in Int
           /\ PrioEnvelhecida[t] = IF Envelhece(t) THEN PrioInicial[t] - 1 ELSE PrioInicial[t]
<1>1. t \in Tarefas /\ t # NULL /\ prioDinamica[t] \in Int /\ prioEstatica[t] \in Int
  BY Nomes, Prioridades DEF TypeOK
<1>2. PrioInicial[t] = IF t = tarefaPrevia THEN prioEstatica[t] ELSE prioDinamica[t]
  BY <1>1 DEF PrioInicial, TypeOK
<1> QED BY <1>1, <1>2 DEF PrioEnvelhecida

LEMMA PrioridadeDepois ==
    ASSUME TypeOK', NEW t \in Usuarias
    PROVE  /\ PrioInicial'[t] = IF t = tarefaPrevia' THEN prioEstatica'[t] ELSE prioDinamica'[t]
           /\ PrioInicial'[t] \in Int /\ prioEstatica'[t] \in Int
<1>1. t \in Tarefas /\ t # NULL /\ prioDinamica'[t] \in Int /\ prioEstatica'[t] \in Int
  BY Nomes, Prioridades DEF TypeOK
<1>2. PrioInicial'[t] = IF t = tarefaPrevia' THEN prioEstatica'[t] ELSE prioDinamica'[t]
  BY <1>1 DEF PrioInicial, TypeOK
<1> QED BY <1>1, <1>2

\* Every task of the queue ages, but for the last when it is the one that ran.
LEMMA EnvelheceNaFila ==
    ASSUME IInv, PreviaNoFim, NEW i \in 1..Len(filaProntas)
    PROVE  LET t == filaProntas[i] IN
           /\ PrioEnvelhecida[t] \in {PrioInicial[t] - 1, PrioInicial[t]}
           /\ i < Len(filaProntas) => PrioEnvelhecida[t] = PrioInicial[t] - 1
           /\ t \in Usuarias /\ PrioInicial[t] \in Int /\ prioEstatica[t] \in Int
<1> DEFINE t == filaProntas[i]
<1>1. t \in Usuarias /\ t \in ToSet(filaProntas)
  BY DEF IInv, TypeOK, ToSet
<1>2. i < Len(filaProntas) => t # tarefaPrevia
  BY DEF PreviaNoFim
<1>3. i < Len(filaProntas) => Envelhece(t)
  BY <1>1, <1>2 DEF Envelhece
<1> HIDE DEF t
<1>4. TypeOK
  BY DEF IInv
<1> QED BY <1>1, <1>3, <1>4, PrioridadeDe DEF t

\* The steps that change the queue, its last task or the priorities.
MudaOrdem(t) == CriaPublica(t) \/ GravaPrioDinamica(t) \/ GravaPrioEstatica(t)

MudaFila == DispatcherOcioso \/ DispatcherDespacha \/ DispatcherPronta

LEMMA MesmaFila ==
    ASSUME [Next]_vars, \A t \in Usuarias : ~MudaOrdem(t), ~MudaFila
    PROVE  UNCHANGED <<filaProntas, tarefaPrevia, prioEstatica, prioDinamica>>
<1>1. ASSUME NEW t \in Usuarias, UsuarioNext(t)
      PROVE  UNCHANGED <<filaProntas, tarefaPrevia, prioEstatica, prioDinamica>>
  BY <1>1 DEF UsuarioNext, CriaLeId, Setprio, TaskSwitch, TaskYield, TaskExit, ExitProcesso,
              filas, globais, tcb
<1>2. ASSUME NEW t \in Usuarias, ChamadaNext(t)
      PROVE  UNCHANGED <<filaProntas, tarefaPrevia, prioEstatica, prioDinamica>>
  BY <1>2 DEF ChamadaNext, CriaGravaId, CriaInicia, CriaSemMemoria, CriaLeCont, CriaGravaCont,
              Troca, MudaOrdem, filas, globais, tcb
<1>3. CASE PposInit \/ Systick
  BY <1>3 DEF PposInit, Systick, filas, tcb
<1>4. CASE DispatcherNext
  BY <1>4 DEF DispatcherNext, DispatcherFim, DispatcherTroca, DispatcherRecolhe, MudaFila,
              filas, globais, tcb
<1>5. CASE UNCHANGED vars
  BY <1>5 DEF vars, filas, globais, tcb
<1> QED BY <1>1, <1>2, <1>3, <1>4, <1>5 DEF Next, Encerrado

LEMMA DispatcherNoLaco ==
    ASSUME IInv, DispatcherOcioso \/ DispatcherDespacha
    PROVE  FaseLaco
BY Nomes DEF DispatcherOcioso, DispatcherDespacha, Em, IInv, Fases, FaseBoot, FaseJanela, FaseRetorno,
             FaseUsuario, Despachada

\* The task that ran goes to the end of the queue.
LEMMA ProntaNoFim ==
    ASSUME IInv, DispatcherPronta
    PROVE  /\ FaseRetorno /\ tarefaPrevia' = tarefaPrevia /\ tarefaPrevia \in Usuarias
           /\ tarefaPrevia \notin ToSet(filaProntas)
           /\ Len(filaProntas) \in Nat /\ Len(filaProntas') = Len(filaProntas) + 1
           /\ \A i \in 1..Len(filaProntas) : filaProntas'[i] = filaProntas[i]
           /\ filaProntas'[Len(filaProntas')] = tarefaPrevia
           /\ UNCHANGED <<prioEstatica, prioDinamica, cpu>>
<1>1. FaseRetorno
  BY Nomes DEF IInv, Fases, FaseBoot, FaseLaco, FaseJanela, FaseUsuario, Despachada, DispatcherPronta, Em
<1>2. /\ filaProntas \in Seq(Usuarias) /\ tarefaPrevia \in Usuarias
      /\ tarefaPrevia \notin ToSet(filaProntas)
  BY <1>1 DEF IInv, TypeOK, FaseRetorno, Despachada
<1>3. filaProntas' = Append(filaProntas, tarefaPrevia) /\ UNCHANGED <<tarefaPrevia, prioEstatica, prioDinamica, cpu>>
  BY DEF DispatcherPronta, globais, tcb
<1> QED BY <1>1, <1>2, <1>3, AppendProps

\* A task is published at the end of the queue.
LEMMA PublicaNoFim ==
    ASSUME IInv, NEW t \in Usuarias, CriaPublica(t)
    PROVE  /\ FaseUsuario /\ cpu = t /\ tarefaPrevia = t /\ tarefaPrevia' = tarefaPrevia
           /\ alvo[t] \in UserTasks /\ alvo[t] \notin ToSet(filaProntas) /\ alvo[t] # t
           /\ t \notin ToSet(filaProntas)
           /\ Len(filaProntas) \in Nat /\ Len(filaProntas') = Len(filaProntas) + 1
           /\ \A i \in 1..Len(filaProntas) : filaProntas'[i] = filaProntas[i]
           /\ filaProntas'[Len(filaProntas')] = alvo[t]
           /\ UNCHANGED <<prioEstatica, prioDinamica, cpu, alvo>>
<1>1. FaseUsuario /\ cpu = t /\ tarefaPrevia = t /\ t \in Vivas
  BY UsuarioNaCpu DEF CriaPublica
<1>2. /\ filaProntas \in Seq(Usuarias) /\ tarefaPrevia \notin ToSet(filaProntas)
  BY <1>1 DEF IInv, TypeOK, FaseUsuario, Despachada
<1>3. alvo[t] \in UserTasks /\ alvo[t] \notin Vivas /\ alvo[t] \in Usuarias
  BY Lugares, Nomes DEF CriaPublica, Em, IInv, Chamadas, DentroDaChamada, AntesDePublicar
<1>4. alvo[t] \notin ToSet(filaProntas)
  BY <1>3, Nomes DEF Vivas
<1>5. filaProntas' = Append(filaProntas, alvo[t])
      /\ UNCHANGED <<tarefaPrevia, prioEstatica, prioDinamica, cpu, alvo>>
  BY DEF CriaPublica, globais, tcb
<1> QED BY <1>1, <1>2, <1>3, <1>4, <1>5, AppendProps

LEMMA DespachaRetira ==
    ASSUME IInv, DispatcherDespacha
    PROVE  /\ FaseLaco /\ filaProntas \in Seq(Usuarias) /\ SemRepetir(filaProntas)
           /\ filaProntas # <<>> /\ Escolhida \in ToSet(filaProntas) /\ Escolhida \in Usuarias
           /\ filaProntas' = Retira(filaProntas, Escolhida)
           /\ tarefaPrevia' = Escolhida /\ Escolhida \notin ToSet(filaProntas')
           /\ prioDinamica' = PrioEnvelhecida /\ UNCHANGED <<prioEstatica, cpu>>
<1>1. TypeOK /\ filaProntas \in Seq(Usuarias) /\ filaProntas # <<>> /\ SemRepetir(filaProntas)
  BY DEF IInv, TypeOK, Prontas, DispatcherDespacha
<1>2. Escolhida \in ToSet(filaProntas) /\ Escolhida \in Usuarias
  BY <1>1, EscolhidaNaFila, PrioridadesInteiras
<1>3. /\ filaProntas' = Retira(filaProntas, Escolhida) /\ tarefaPrevia' = Escolhida
      /\ prioDinamica' = PrioEnvelhecida /\ UNCHANGED <<prioEstatica, cpu>>
  BY DEF DispatcherDespacha
<1> QED BY <1>1, <1>2, <1>3, RetiraProps, DispatcherNoLaco

\* The task that ran last, when it is in the queue, is the last of it.
LEMMA PreviaPreserva ==
    ASSUME IInv, IInv', PreviaNoFim, [Next]_vars
    PROVE  PreviaNoFim'
<1>1. CASE UNCHANGED <<filaProntas, tarefaPrevia>>
  BY <1>1 DEF PreviaNoFim
<1>2. ASSUME NEW t \in Usuarias, CriaPublica(t) PROVE PreviaNoFim'
  <2> SUFFICES ASSUME NEW i \in 1..Len(filaProntas'), filaProntas'[i] = t PROVE FALSE
    BY <1>2, PublicaNoFim DEF PreviaNoFim
  <2>1. i \in 1..Len(filaProntas) \/ i = Len(filaProntas')
    BY <1>2, PublicaNoFim
  <2> QED BY <1>2, <2>1, PublicaNoFim DEF ToSet
<1>3. CASE DispatcherOcioso
  <2>1. tarefaPrevia' = NULL /\ \A i \in 1..Len(filaProntas') : filaProntas'[i] \in Usuarias
    BY <1>3 DEF DispatcherOcioso, IInv, TypeOK
  <2> QED BY <2>1, Nomes DEF PreviaNoFim
<1>4. CASE DispatcherDespacha
  BY <1>4, DespachaRetira DEF PreviaNoFim, ToSet
<1>5. CASE DispatcherPronta
  <2> SUFFICES ASSUME NEW i \in 1..Len(filaProntas'), filaProntas'[i] = tarefaPrevia, i # Len(filaProntas')
               PROVE  FALSE
    BY <1>5, ProntaNoFim DEF PreviaNoFim
  <2>1. i \in 1..Len(filaProntas)
    BY <1>5, ProntaNoFim
  <2> QED BY <1>5, <2>1, ProntaNoFim DEF ToSet
<1>6. ASSUME NEW t \in Usuarias, GravaPrioDinamica(t) \/ GravaPrioEstatica(t)
      PROVE  UNCHANGED <<filaProntas, tarefaPrevia>>
  BY <1>6 DEF GravaPrioDinamica, GravaPrioEstatica, filas, globais
<1> QED BY <1>1, <1>2, <1>3, <1>4, <1>5, <1>6, MesmaFila DEF MudaOrdem, MudaFila

-----------------------------------------------------------------------------
\* The scheduler keeps the order, and never chooses past a task as good.

LEMMA DespachaOrdenada ==
    ASSUME IInv, IInv', PreviaNoFim, DispatcherDespacha,
           Ordenada(filaProntas, {}, PrioInicial, prioEstatica)
    PROVE  Ordenada(filaProntas', {}, PrioInicial', prioEstatica')
<1> DEFINE q == filaProntas
           r == Retira(q, Escolhida)
<1>1. /\ q \in Seq(Usuarias) /\ Len(q) \in Nat /\ filaProntas' = r /\ prioEstatica' = prioEstatica
      /\ tarefaPrevia' = Escolhida /\ prioDinamica' = PrioEnvelhecida
  BY DespachaRetira
<1>2. \A i, j \in 1..Len(r) : i < j => \E m, n \in 1..Len(q) : m < n /\ q[m] = r[i] /\ q[n] = r[j]
  BY DespachaRetira, RetiraOrdem
<1>3. \A i \in 1..Len(r) : /\ r[i] \in ToSet(q) /\ r[i] # Escolhida
                           /\ PrioInicial'[r[i]] = PrioEnvelhecida[r[i]]
  <2> SUFFICES ASSUME NEW i \in 1..Len(r)
               PROVE  /\ r[i] \in ToSet(q) /\ r[i] # Escolhida
                      /\ PrioInicial'[r[i]] = PrioEnvelhecida[r[i]]
    OBVIOUS
  <2>1. ToSet(r) = ToSet(q) \ {Escolhida} /\ r \in Seq(Usuarias)
    BY DespachaRetira, RetiraProps
  <2>2. r[i] \in ToSet(r) /\ r[i] \in Usuarias
    BY <2>1 DEF ToSet
  <2> HIDE DEF r
  <2> QED BY <1>1, <2>1, <2>2, PrioridadeDepois DEF IInv
<1> HIDE DEF r, q
<1>4. ASSUME NEW i \in 1..Len(r) PROVE PrioInicial'[r[i]] <= prioEstatica[r[i]]
  <2>1. PICK m \in 1..Len(q) : q[m] = r[i]
    BY <1>3 DEF ToSet
  <2>2. /\ PrioEnvelhecida[q[m]] \in {PrioInicial[q[m]] - 1, PrioInicial[q[m]]}
        /\ PrioInicial[q[m]] \in Int /\ prioEstatica[q[m]] \in Int
    BY EnvelheceNaFila DEF q
  <2>3. PrioInicial[q[m]] <= prioEstatica[q[m]]
    BY DEF Ordenada, q
  <2> QED BY <1>3, <2>1, <2>2, <2>3
<1>5. ASSUME NEW i \in 1..Len(r), NEW j \in 1..Len(r), i < j, prioEstatica[r[i]] <= prioEstatica[r[j]]
      PROVE  PrioInicial'[r[i]] <= PrioInicial'[r[j]]
  <2>1. PICK m, n \in 1..Len(q) : m < n /\ q[m] = r[i] /\ q[n] = r[j]
    BY <1>2, <1>5
  <2>2. PrioInicial[q[m]] <= PrioInicial[q[n]]
    BY <1>5, <2>1 DEF Ordenada, q
  <2>3. m < Len(q)
    BY <1>1, <2>1
  <2>4. PrioEnvelhecida[q[m]] = PrioInicial[q[m]] - 1 /\ PrioInicial[q[m]] \in Int
    BY <2>3, EnvelheceNaFila DEF q
  <2>5. PrioEnvelhecida[q[n]] \in {PrioInicial[q[n]] - 1, PrioInicial[q[n]]} /\ PrioInicial[q[n]] \in Int
    BY EnvelheceNaFila DEF q
  <2> QED BY <1>3, <2>1, <2>2, <2>4, <2>5
<1> QED BY <1>1, <1>4, <1>5 DEF Ordenada

LEMMA EscolheEmOrdem ==
    ASSUME IInv, PreviaNoFim, DispatcherDespacha,
           Ordenada(filaProntas, {}, PrioInicial, prioEstatica),
           NEW i \in 1..Len(filaProntas), NEW j \in 1..Len(filaProntas),
           i < j, filaProntas[j] = tarefaPrevia'
    PROVE  prioEstatica[filaProntas[i]] > prioEstatica[filaProntas[j]]
<1> DEFINE k == CHOOSE x \in 1..Len(filaProntas) : Vence(x)
<1>1. /\ filaProntas \in Seq(Usuarias) /\ filaProntas # <<>> /\ SemRepetir(filaProntas)
      /\ PrioEnvelhecida \in [Tarefas -> Int] /\ tarefaPrevia' = Escolhida
  BY DespachaRetira, PrioridadesInteiras DEF IInv
<1>2. k \in 1..Len(filaProntas) /\ Vence(k)
  BY <1>1, VencedorExiste
<1>3. filaProntas[k] = filaProntas[j]
  BY <1>1 DEF Escolhida
<1> HIDE DEF k
<1>4. k = j
  BY <1>1, <1>2, <1>3 DEF SemRepetir
<1>5. PrioEnvelhecida[filaProntas[j]] < PrioEnvelhecida[filaProntas[i]]
  BY <1>2, <1>4 DEF Vence
<1>6. /\ PrioEnvelhecida[filaProntas[i]] = PrioInicial[filaProntas[i]] - 1
      /\ PrioInicial[filaProntas[i]] \in Int /\ prioEstatica[filaProntas[i]] \in Int
  <2>1. i < Len(filaProntas)
    BY <1>1
  <2> QED BY <2>1, EnvelheceNaFila
<1>7. /\ PrioEnvelhecida[filaProntas[j]] \in {PrioInicial[filaProntas[j]] - 1, PrioInicial[filaProntas[j]]}
      /\ PrioInicial[filaProntas[j]] \in Int /\ prioEstatica[filaProntas[j]] \in Int
  BY EnvelheceNaFila
<1>8. prioEstatica[filaProntas[i]] <= prioEstatica[filaProntas[j]]
         => PrioInicial[filaProntas[i]] <= PrioInicial[filaProntas[j]]
  BY DEF Ordenada
<1> QED BY <1>5, <1>6, <1>7, <1>8

\* A store of task_create or task_setprio changes nothing of the application.
LEMMA ChamadaContinua ==
    ASSUME IInv, [ANext]_avars, NEW t \in Usuarias, MudaOrdem(t)
    PROVE  UNCHANGED <<app, linha, rodou, pedida, cortou>>
<1>1. pc[t] \in {"publica", "gravaDin", "gravaEst"} /\ cpu = t /\ t # Dispatcher
  BY Nomes DEF MudaOrdem, CriaPublica, GravaPrioDinamica, GravaPrioEstatica, Em
<1>2. PICK m \in {"leCont", "gravaEst", "livre"} : pc' = [pc EXCEPT ![t] = m] /\ pc[t] # m
  BY DEF MudaOrdem, CriaPublica, GravaPrioDinamica, GravaPrioEstatica, Em, Vai
<1>3. pc' # pc
  BY <1>1, <1>2, Nomes DEF IInv, TypeOK
<1> QED BY <1>1, <1>3
    DEF ANext, avars, vars, maquina, Encerrado, Chamada, Faz, FazCreate, FazSetprio, FazSwitch, FazYield,
        FazExit, FazFim, FazCreateEmUso, Em, Inicia, CriaInicia, Continua, Entra, DispatcherTroca, Despacha,
        DispatcherNext, DispatcherFim, DispatcherOcioso, DispatcherDespacha, DispatcherPronta,
        DispatcherRecolhe, Tick, Systick, PposInit

\* Main in the middle of setting the priorities of a task.
LEMMA ForaDeFoco ==
    ASSUME ~NoMeio(Main), ~NoMeio(Main)'
    PROVE  Foco' = Foco
BY DEF Foco

LEMMA FocoIgual ==
    ASSUME app' = app, linha'[Main] = linha[Main], NoMeio(Main)' = NoMeio(Main)
    PROVE  Foco' = Foco
<1>1. Feita' = Feita
  BY DEF Feita
<1> QED BY <1>1 DEF Foco

\* After a call that is not task_create there is no task_setprio.
LEMMA SemSetprioDepois ==
    ASSUME ProgramaInv', linha'[Main] > 1, Feita'.op # "create", pc'[Main] \notin LugaresCont \cup Gravando
    PROVE  ~NoMeio(Main)'
<1>1. app' \in Apps
  BY DEF ProgramaInv
<1>2. linha'[Main] \in DOMAIN Programas[app'][Main] =>
        Programas[app'][Main][linha'[Main]].op # "setprio"
  BY <1>1, SetprioDosProgramas DEF Feita
<1> QED BY <1>2 DEF NoMeio, Proxima, Gravando

LEMMA FocoMesmo ==
    ASSUME IInv, ProgramaInv, ProgramaInv', [ANext]_avars,
           \A t \in Usuarias : ~FazCreateEmUso(t) /\ ~CriaPublica(t), ~GravaPrioEstatica(Main)
    PROVE  Foco' = Foco
<1> USE Nomes
<1>1. ASSUME app' = app, linha'[Main] = linha[Main], pc'[Main] = pc[Main] PROVE Foco' = Foco
  BY <1>1, MeioMesmo, FocoIgual
<1>2. ASSUME NEW t \in Usuarias, Chamada(t) PROVE Foco' = Foco
  <2>1. PICK op : Faz(t, op)
    BY <1>2 DEF Chamada, FazCreate, FazSetprio, FazSwitch, FazYield, FazExit, FazFim
  <2>2. /\ app' = app /\ (t # Main => linha'[Main] = linha[Main]) /\ pc[t] = "livre"
        /\ Feita' = IF t = Main THEN Proxima(Main) ELSE Feita
        /\ t = Main => linha'[Main] = linha[Main] + 1 /\ linha[Main] \in DOMAIN Programas[app][Main]
    BY <2>1, FazAvanca
  <2>3. \/ FazCreate(t) /\ pc' = [pc EXCEPT ![t] = "gravaId"]
        \/ FazSetprio(t) /\ pc' = [pc EXCEPT ![t] = "gravaDin"]
        \/ FazSwitch(t) /\ pc' = pc
        \/ (FazYield(t) \/ FazExit(t)) /\ pc' = [pc EXCEPT ![t] = "troca"]
        \/ FazFim(t) /\ pc' = pc
    <3>1. FazSwitch(t) => pc' = pc
      BY DEF FazSwitch, TaskSwitch, vars, maquina
    <3>2. FazYield(t) \/ FazExit(t) => pc' = [pc EXCEPT ![t] = "troca"]
      BY DEF FazYield, FazExit, TaskYield, TaskExit, Vai
    <3>3. FazCreate(t) => pc' = [pc EXCEPT ![t] = "gravaId"]
      BY DEF FazCreate, CriaLeId, Vai
    <3>4. FazSetprio(t) => pc' = [pc EXCEPT ![t] = "gravaDin"]
      BY DEF FazSetprio, Setprio, Vai
    <3>5. FazFim(t) => pc' = pc
      BY DEF FazFim, ExitProcesso, maquina
    <3> QED BY <1>2, <3>1, <3>2, <3>3, <3>4, <3>5 DEF Chamada
  <2>4. CASE t # Main
    <3>1. pc'[Main] = pc[Main]
      BY <2>3, <2>4 DEF IInv, TypeOK
    <3> QED BY <1>1, <2>2, <2>4, <3>1
  <2>5. CASE t = Main
    <3>1. linha'[Main] > 1
      BY <2>2, <2>5 DEF ProgramaInv
    <3>2. CASE FazSetprio(t)
      <4>1. Proxima(Main).op = "setprio" /\ Feita.alvo = Proxima(Main).alvo /\ Feita.alvo \in UserTasks
        BY <2>2, <2>5, <3>2, CallDeMain DEF FazSetprio, Faz
      <4>2. NoMeio(Main)
        BY <2>2, <2>5, <4>1, NomesAssumption DEF NoMeio, Tarefas
      <4>3. pc'[Main] = "gravaDin"
        BY <2>5, <3>2 DEF FazSetprio, Setprio, Vai, IInv, TypeOK
      <4>4. NoMeio(Main)'
        BY <4>3 DEF NoMeio
      <4> QED BY <2>2, <2>5, <4>1, <4>2, <4>4 DEF Foco
    <3>3. CASE ~FazSetprio(t)
      <4>1. Proxima(Main).op # "setprio" /\ (~FazCreate(t) => Proxima(Main).op # "create")
        BY <1>2, <2>5, <3>3 DEF Chamada, FazCreate, FazSwitch, FazYield, FazExit, FazFim, Faz
      <4>2. ~NoMeio(Main)
        BY <2>2, <2>5, <4>1 DEF NoMeio, LugaresCont
      <4>3. pc'[Main] \in {"gravaId", "livre", "troca"} /\ (FazCreate(t) => pc'[Main] = "gravaId")
        <5>1. TypeOK
          BY DEF IInv
        <5>2. CASE FazCreate(t) /\ pc' = [pc EXCEPT ![t] = "gravaId"]
          BY <2>5, <5>1, <5>2 DEF TypeOK
        <5>3. CASE ~FazCreate(t) /\ pc' = pc
          BY <2>2, <2>5, <5>3
        <5>4. CASE ~FazCreate(t) /\ pc' = [pc EXCEPT ![t] = "troca"]
          BY <2>5, <5>1, <5>4 DEF TypeOK
        <5>5. pc' = pc => ~FazCreate(t)
          BY <2>2 DEF FazCreate, CriaLeId, Vai, IInv, TypeOK
        <5>6. pc' = [pc EXCEPT ![t] = "troca"] => ~FazCreate(t)
          <6> SUFFICES ASSUME FazCreate(t), pc' = [pc EXCEPT ![t] = "troca"] PROVE FALSE
            OBVIOUS
          <6>1. pc'[t] = "gravaId"
            BY DEF FazCreate, CriaLeId, Vai, IInv, TypeOK
          <6>2. pc'[t] = "troca"
            BY DEF IInv, TypeOK
          <6> QED BY <6>1, <6>2
        <5> QED BY <2>3, <3>3, <5>2, <5>3, <5>4, <5>5, <5>6
      <4>4. FazCreate(t) => ~NoMeio(Main)'
        BY <4>3 DEF NoMeio, LugaresCont
      <4>5. ~FazCreate(t) => ~NoMeio(Main)'
        BY <2>2, <2>5, <3>1, <4>1, <4>3, SemSetprioDepois DEF LugaresCont, Gravando
      <4> QED BY <4>2, <4>4, <4>5, ForaDeFoco
    <3> QED BY <3>2, <3>3
  <2> QED BY <2>4, <2>5
<1>3. ASSUME NEW t \in Usuarias, Inicia(t) PROVE Foco' = Foco
  <2>1. t = Main /\ pc[Main] = "inicia" /\ alvo[t] \in UserTasks
    BY <1>3, Lugares DEF Inicia, CriaInicia, Em, ProgramaInv, Usuarias, IInv, Chamadas, DentroDaChamada
  <2>2. pc'[Main] = "publica"
    BY <1>3, <2>1 DEF Inicia, CriaInicia, IInv, TypeOK
  <2> QED BY <2>1, <2>2, ForaDeFoco DEF NoMeio, LugaresCont
<1>4. ASSUME NEW t \in Usuarias, Continua(t) PROVE Foco' = Foco
  <2>1. app' = app /\ linha' = linha
    BY <1>4 DEF Continua
  <2>2. CASE t # Main
    <3>1. pc'[Main] = pc[Main]
      BY <1>4, <2>2 DEF Continua, ChamadaNext, CriaGravaId, CriaInicia, CriaSemMemoria, CriaPublica, CriaLeCont,
                CriaGravaCont, GravaPrioDinamica, GravaPrioEstatica, Troca, Em, Vai, maquina, IInv, TypeOK
    <3> QED BY <1>1, <2>1, <3>1
  <2>3. CASE t = Main /\ CriaSemMemoria(t)
    BY <1>1, <2>1, <2>3 DEF CriaSemMemoria, maquina
  <2>4. CASE t = Main /\ CriaGravaId(t)
    <3>1. pc[Main] = "gravaId" /\ pc'[Main] = "inicia"
      BY <2>4 DEF CriaGravaId, Em, Vai, IInv, TypeOK
    <3> QED BY <3>1, ForaDeFoco DEF NoMeio, LugaresCont
  <2>5. CASE t = Main /\ (CriaLeCont(t) \/ CriaGravaCont(t) \/ GravaPrioDinamica(t))
    <3>1. pc[Main] \in LugaresCont \cup {"gravaDin"} /\ pc'[Main] \in LugaresCont \cup {"gravaDin", "gravaEst"}
      BY <2>5 DEF CriaLeCont, CriaGravaCont, GravaPrioDinamica, Em, Vai, LugaresCont, IInv, TypeOK
    <3>2. NoMeio(Main) /\ NoMeio(Main)'
      BY <3>1 DEF NoMeio
    <3>3. Feita' = Feita
      BY <2>1 DEF Feita
    <3> QED BY <3>2, <3>3 DEF Foco
  <2>6. CASE t = Main /\ Troca(t)
    <3>1. pc[Main] = "troca" /\ pc'[Main] = "livre"
      BY <2>6 DEF Troca, Em, Vai, IInv, TypeOK
    <3>2. ~NoMeio(Main)
      BY <3>1 DEF NoMeio, LugaresCont
    <3> QED BY <2>1, <3>1, <3>2, ForaDoMeio, ForaDeFoco
  <2> QED BY <1>4, <2>2, <2>3, <2>4, <2>5, <2>6 DEF Continua, ChamadaNext, CriaInicia, Em
<1>5. CASE Entra \/ Despacha \/ Tick
  <2>1. app' = app /\ linha' = linha
    BY <1>5 DEF Entra, Despacha, Tick
  <2>2. pc'[Main] = pc[Main]
    BY <1>5 DEF Entra, Despacha, DispatcherNext, DispatcherFim, DispatcherOcioso, DispatcherDespacha,
                DispatcherTroca, DispatcherPronta, DispatcherRecolhe, Tick, Systick, Vai, maquina, IInv, TypeOK
  <2> QED BY <1>1, <2>1, <2>2
<1>6. CASE PposInit /\ UNCHANGED <<app, linha, rodou, pedida, cortou>>
  <2>1. pc[Main] = "boot" /\ pc'[Main] = "livre"
    BY <1>6 DEF PposInit, Em, Vai, IInv, TypeOK
  <2>2. ~NoMeio(Main)
    BY <2>1 DEF NoMeio, LugaresCont
  <2> QED BY <1>6, <2>1, <2>2, ForaDoMeio, ForaDeFoco
<1>7. CASE UNCHANGED avars
  BY <1>1, <1>7 DEF avars, vars, maquina
<1> QED BY <1>2, <1>3, <1>4, <1>5, <1>6, <1>7 DEF ANext, Encerrado

\* What the order of the queue is kept by: a queue that does not change, and no
\* priority of a task of it out of focus either.
LEMMA OrdemMesmaFila ==
    ASSUME IInv', Ordenada(filaProntas, Foco, PrioInicial, prioEstatica), filaProntas' = filaProntas,
           \A i \in 1..Len(filaProntas) :
              \/ filaProntas[i] \in Foco'
              \/ /\ filaProntas[i] \notin Foco
                 /\ PrioInicial'[filaProntas[i]] = PrioInicial[filaProntas[i]]
                 /\ prioEstatica'[filaProntas[i]] = prioEstatica[filaProntas[i]]
              \/ i = Len(filaProntas) /\ PrioInicial'[filaProntas[i]] = prioEstatica'[filaProntas[i]]
    PROVE  Ordenada(filaProntas', Foco', PrioInicial', prioEstatica')
<1>1. Len(filaProntas') \in Nat /\ \A i \in 1..Len(filaProntas') : filaProntas'[i] \in Usuarias
  BY DEF IInv, TypeOK
<1>2. \A i \in 1..Len(filaProntas') :
         PrioInicial'[filaProntas'[i]] \in Int /\ prioEstatica'[filaProntas'[i]] \in Int
  BY <1>1, PrioridadeDepois DEF IInv
<1>3. \A i \in 1..Len(filaProntas') :
         \/ filaProntas'[i] \in Foco'
         \/ /\ i \in 1..Len(filaProntas) /\ filaProntas'[i] = filaProntas[i] /\ filaProntas[i] \notin Foco
            /\ PrioInicial'[filaProntas'[i]] = PrioInicial[filaProntas[i]]
            /\ prioEstatica'[filaProntas'[i]] = prioEstatica[filaProntas[i]]
         \/ i = Len(filaProntas') /\ PrioInicial'[filaProntas'[i]] = prioEstatica'[filaProntas'[i]]
  OBVIOUS
<1> QED BY <1>1, <1>2, <1>3, OrdenadaNoFim

\* A task appended to the queue with its static priority, or in focus.
LEMMA OrdemNoFim ==
    ASSUME IInv', Ordenada(filaProntas, {}, PrioInicial, prioEstatica), Len(filaProntas) \in Nat,
           Len(filaProntas') = Len(filaProntas) + 1,
           \A i \in 1..Len(filaProntas) :
              /\ filaProntas'[i] = filaProntas[i]
              /\ PrioInicial'[filaProntas[i]] = PrioInicial[filaProntas[i]]
              /\ prioEstatica'[filaProntas[i]] = prioEstatica[filaProntas[i]],
           LET u == filaProntas'[Len(filaProntas')] IN
              u \in Foco' \/ PrioInicial'[u] = prioEstatica'[u]
    PROVE  Ordenada(filaProntas', Foco', PrioInicial', prioEstatica')
<1>1. Len(filaProntas') \in Nat /\ \A i \in 1..Len(filaProntas') : filaProntas'[i] \in Usuarias
  BY DEF IInv, TypeOK
<1>2. \A i \in 1..Len(filaProntas') :
         PrioInicial'[filaProntas'[i]] \in Int /\ prioEstatica'[filaProntas'[i]] \in Int
  BY <1>1, PrioridadeDepois DEF IInv
<1>3. \A i \in 1..Len(filaProntas') : i \in 1..Len(filaProntas) \/ i = Len(filaProntas')
  OBVIOUS
<1>4. \A i \in 1..Len(filaProntas') :
         \/ filaProntas'[i] \in Foco'
         \/ /\ i \in 1..Len(filaProntas) /\ filaProntas'[i] = filaProntas[i] /\ filaProntas[i] \notin {}
            /\ PrioInicial'[filaProntas'[i]] = PrioInicial[filaProntas[i]]
            /\ prioEstatica'[filaProntas'[i]] = prioEstatica[filaProntas[i]]
         \/ i = Len(filaProntas') /\ PrioInicial'[filaProntas'[i]] = prioEstatica'[filaProntas'[i]]
  BY <1>3
<1> QED BY <1>1, <1>2, <1>4, OrdenadaNoFim

\* Priorities of the tasks of the queue when what is stored is that of another.
LEMMA PrioridadeMesma ==
    ASSUME IInv, IInv', NEW i \in 1..Len(filaProntas), tarefaPrevia' = tarefaPrevia,
           prioDinamica'[filaProntas[i]] = prioDinamica[filaProntas[i]],
           prioEstatica'[filaProntas[i]] = prioEstatica[filaProntas[i]]
    PROVE  PrioInicial'[filaProntas[i]] = PrioInicial[filaProntas[i]]
<1>1. filaProntas[i] \in Usuarias
  <2>1. filaProntas \in Seq(Usuarias)
    BY DEF IInv, TypeOK
  <2> QED BY <2>1
<1>2. TypeOK /\ TypeOK'
  BY DEF IInv
<1>3. PrioInicial[filaProntas[i]] =
        IF filaProntas[i] = tarefaPrevia THEN prioEstatica[filaProntas[i]] ELSE prioDinamica[filaProntas[i]]
  BY <1>1, <1>2, PrioridadeDe
<1>4. PrioInicial'[filaProntas[i]] =
        IF filaProntas[i] = tarefaPrevia' THEN prioEstatica'[filaProntas[i]] ELSE prioDinamica'[filaProntas[i]]
  BY <1>1, <1>2, PrioridadeDepois
<1> QED BY <1>3, <1>4

\* The dynamic priority of the task in focus, once it is stored.
LEMMA GravaEstaticaContinua ==
    ASSUME IInv, IInv', ProgramaInv, MeioNaCpu, MeioNaCpu', [Next]_vars, [ANext]_avars,
           \A t \in Usuarias : ~FazCreateEmUso(t),
           pc[Main] = "gravaEst" => prioDinamica[alvo[Main]] = reg[Main], pc'[Main] = "gravaEst"
    PROVE  prioDinamica'[alvo'[Main]] = reg'[Main]
<1> USE Nomes DEF Gravando
<1>1. CASE GravaPrioDinamica(Main)
  <2>1. pc[Main] = "gravaDin" /\ alvo[Main] \in Usuarias
    BY <1>1 DEF GravaPrioDinamica, Em, ProgramaInv
  <2> QED BY <1>1, <2>1 DEF GravaPrioDinamica, IInv, TypeOK
<1>2. CASE ~GravaPrioDinamica(Main)
  <2>1. ASSUME pc'[Main] = pc[Main], alvo' = alvo, reg'[Main] = reg[Main], prioDinamica' = prioDinamica
        PROVE  prioDinamica'[alvo'[Main]] = reg'[Main]
    BY <2>1
  <2>2. pc[Main] \in Gravando => cpu = Main
    BY DEF MeioNaCpu, NoMeio
  <2>3. CASE pc[Main] \in Gravando /\ Next
    <3>1. cpu = Main /\ pc[Main] # "livre"
      BY <2>2, <2>3
    <3>2. ~DispatcherNext /\ ~PposInit /\ \A t \in Usuarias : ~UsuarioNext(t)
      BY <2>3, <3>1 DEF DispatcherNext, DispatcherFim, DispatcherOcioso, DispatcherDespacha, DispatcherTroca,
         DispatcherPronta, DispatcherRecolhe, PposInit, UsuarioNext, CriaLeId, Setprio, TaskSwitch, TaskYield,
         TaskExit, ExitProcesso, Em
    <3>3. \A t \in Usuarias : ~ChamadaNext(t)
      <4> SUFFICES ASSUME NEW t \in Usuarias, ChamadaNext(t) PROVE FALSE
        OBVIOUS
      <4>1. GravaPrioEstatica(Main)
        BY <1>2, <2>3, <3>1 DEF ChamadaNext, CriaGravaId, CriaInicia, CriaSemMemoria, CriaPublica, CriaLeCont,
           CriaGravaCont, GravaPrioDinamica, Troca, Em, GravaPrioEstatica
      <4>2. pc'[Main] = "livre"
        BY <4>1 DEF GravaPrioEstatica, Vai, IInv, TypeOK
      <4> QED BY <4>2
    <3>4. Systick \/ Encerrado
      BY <2>3, <3>2, <3>3 DEF Next
    <3>5. CASE Systick
      BY <2>1, <3>5 DEF Systick, tcb
    <3>6. CASE Encerrado
      BY <2>1, <3>6 DEF Encerrado, vars, maquina, tcb
    <3> QED BY <3>4, <3>5, <3>6
  <2>4. CASE UNCHANGED vars
    BY <2>1, <2>4 DEF vars, maquina, tcb
  <2>5. CASE pc[Main] \notin Gravando
    <3>1. cpu' = Main
      BY DEF MeioNaCpu, NoMeio
    <3>2. \A t \in Usuarias : ~FazCreate(t) /\ ~FazSetprio(t) /\ ~CriaGravaCont(t) /\ ~GravaPrioEstatica(t)
      <4> SUFFICES ASSUME NEW t \in Usuarias,
                          FazCreate(t) \/ FazSetprio(t) \/ CriaGravaCont(t) \/ GravaPrioEstatica(t)
                   PROVE  FALSE
        OBVIOUS
      <4>1. PICK m \in {"gravaId", "gravaDin", "livre"} : pc' = [pc EXCEPT ![t] = m]
        BY DEF FazCreate, FazSetprio, CriaLeId, Setprio, CriaGravaCont, GravaPrioEstatica, Vai
      <4> QED BY <2>5, <4>1 DEF IInv, TypeOK
    <3>3. SemPedido
      BY <3>2, SemPedidoPassos
    <3> QED BY <2>5, <3>3 DEF SemPedido
  <2> QED BY <2>3, <2>4, <2>5
<1> QED BY <1>1, <1>2

\* Main, when it is setting priorities, has the processor.
LEMMA FocoVazio == ASSUME MeioNaCpu, cpu # Main PROVE Foco = {}
BY Nomes DEF MeioNaCpu, Foco

\* What a store of a priority by t is to: the task in focus, or the running one.
LEMMA AlvoForaDaFila ==
    ASSUME IInv, ProgramaInv, NEW t \in Usuarias, GravaPrioDinamica(t) \/ GravaPrioEstatica(t)
    PROVE  /\ t # Main => alvo[t] = t /\ alvo[t] \notin ToSet(filaProntas)
           /\ t = Main => Foco = {alvo[Main]} /\ alvo[Main] \in UserTasks
           /\ tarefaPrevia' = tarefaPrevia /\ filaProntas' = filaProntas /\ cpu = t
           /\ alvo[t] \in Usuarias
<1>1. pc[t] \in {"gravaDin", "gravaEst"} /\ tarefaPrevia' = tarefaPrevia /\ filaProntas' = filaProntas
  BY DEF GravaPrioDinamica, GravaPrioEstatica, Em, filas, globais
<1>2. FaseUsuario /\ cpu = t /\ t = tarefaPrevia
  BY UsuarioNaCpu DEF GravaPrioDinamica, GravaPrioEstatica
<1>3. CASE t # Main
  <2>1. alvo[t] = t
    BY <1>1, <1>3 DEF ProgramaInv, Usuarias, Gravando
  <2> QED BY <1>1, <1>2, <1>3, <2>1 DEF FaseUsuario, Despachada
<1>4. CASE t = Main
  <2>1. Feita.alvo = alvo[Main] /\ alvo[Main] \in UserTasks /\ NoMeio(Main)
    BY <1>1, <1>4 DEF ProgramaInv, Gravando, NoMeio
  <2> QED BY <1>1, <1>2, <1>4, <2>1, Nomes DEF Foco
<1> QED BY <1>3, <1>4

LEMMA OrdemPublica ==
    ASSUME IInv, IInv', ProgramaInv, ProgramaInv', EmOrdem, NEW t \in Usuarias, CriaPublica(t)
    PROVE  EmOrdem'
<1>1. t = Main /\ pc[Main] = "publica"
  BY Lugares DEF ProgramaInv, Usuarias, CriaPublica, Em
<1>2. Foco = {}
  BY <1>1 DEF Foco, NoMeio, LugaresCont
<1>3. pc'[Main] = "leCont"
  BY <1>1, Nomes DEF CriaPublica, Vai, IInv, TypeOK
<1>4. Foco' = {alvo'[Main]}
  BY <1>3, Lugares DEF Foco, NoMeio, LugaresCont, ProgramaInv
<1>5. /\ tarefaPrevia' = tarefaPrevia /\ Len(filaProntas) \in Nat /\ Len(filaProntas') = Len(filaProntas) + 1
      /\ \A i \in 1..Len(filaProntas) : filaProntas'[i] = filaProntas[i]
      /\ filaProntas'[Len(filaProntas')] = alvo[Main]
      /\ UNCHANGED <<prioEstatica, prioDinamica, alvo>>
  BY <1>1, PublicaNoFim
<1>6. \A i \in 1..Len(filaProntas) :
         PrioInicial'[filaProntas[i]] = PrioInicial[filaProntas[i]]
  BY <1>5, PrioridadeMesma
<1>7. Ordenada(filaProntas, {}, PrioInicial, prioEstatica)
  BY <1>2 DEF EmOrdem
<1>8. Ordenada(filaProntas', Foco', PrioInicial', prioEstatica')
  BY <1>4, <1>5, <1>6, <1>7, OrdemNoFim
<1>9. filaProntas' # <<>>
  BY <1>5
<1> QED BY <1>3, <1>4, <1>5, <1>8, <1>9 DEF EmOrdem

\* The queue in order after a store of a task that is not Main's last one.
LEMMA OrdemGrava ==
    ASSUME IInv, IInv', ProgramaInv, EmOrdem, Foco' = Foco, NEW t \in Usuarias,
           GravaPrioDinamica(t) \/ (GravaPrioEstatica(t) /\ t # Main)
    PROVE  Ordenada(filaProntas', Foco', PrioInicial', prioEstatica')
<1>1. /\ t # Main => alvo[t] \notin ToSet(filaProntas)
      /\ t = Main => Foco = {alvo[t]}
      /\ tarefaPrevia' = tarefaPrevia /\ filaProntas' = filaProntas
  BY AlvoForaDaFila
<1>2. \A u \in Usuarias : u # alvo[t] => prioDinamica'[u] = prioDinamica[u] /\ prioEstatica'[u] = prioEstatica[u]
  BY Nomes DEF GravaPrioDinamica, GravaPrioEstatica, IInv, TypeOK
<1>3. ASSUME NEW i \in 1..Len(filaProntas), filaProntas[i] \notin Foco
      PROVE  /\ PrioInicial'[filaProntas[i]] = PrioInicial[filaProntas[i]]
             /\ prioEstatica'[filaProntas[i]] = prioEstatica[filaProntas[i]]
  <2>1. filaProntas \in Seq(Usuarias)
    BY DEF IInv, TypeOK
  <2>2. filaProntas[i] \in Usuarias /\ filaProntas[i] \in ToSet(filaProntas)
    BY <2>1 DEF ToSet
  <2>3. filaProntas[i] # alvo[t]
    BY <1>1, <1>3, <2>2
  <2>4. prioDinamica'[filaProntas[i]] = prioDinamica[filaProntas[i]]
        /\ prioEstatica'[filaProntas[i]] = prioEstatica[filaProntas[i]]
    BY <1>2, <2>2, <2>3
  <2> QED BY <1>1, <2>4, PrioridadeMesma
<1> QED BY <1>1, <1>3, OrdemMesmaFila DEF EmOrdem

\* The last store of Main to a task's priorities.
LEMMA OrdemEstatica ==
    ASSUME IInv, IInv', ProgramaInv, EmOrdem, GravaPrioEstatica(Main), UNCHANGED <<app, linha>>
    PROVE  EmOrdem'
<1>1. /\ Foco = {alvo[Main]} /\ alvo[Main] \in UserTasks /\ alvo[Main] \in Usuarias /\ Main \in Usuarias
      /\ tarefaPrevia' = tarefaPrevia /\ filaProntas' = filaProntas
  BY AlvoForaDaFila, Nomes
<1>2. PICK e \in Usuarias : e = alvo[Main]
  BY <1>1
<1>3. /\ pc[Main] = "gravaEst" /\ pc'[Main] = "livre" /\ prioDinamica' = prioDinamica
      /\ prioEstatica' = [prioEstatica EXCEPT ![e] = reg[Main]]
  BY <1>1, <1>2, Nomes DEF GravaPrioEstatica, Em, Vai, IInv, TypeOK
<1>4. prioEstatica'[e] = reg[Main] /\ \A u \in Usuarias : u # e => prioEstatica'[u] = prioEstatica[u]
  BY <1>3, Nomes DEF IInv, TypeOK
<1>5. prioDinamica'[e] = reg[Main] /\ filaProntas # <<>> /\ e = filaProntas[Len(filaProntas)]
  BY <1>1, <1>2, <1>3 DEF EmOrdem
<1>6. PrioInicial'[e] = prioEstatica'[e]
  BY <1>4, <1>5, PrioridadeDepois DEF IInv
<1>7. Foco' \subseteq Foco
  <2>1. Feita' = Feita
    BY DEF Feita
  <2>2. NoMeio(Main)
    BY <1>3 DEF NoMeio
  <2> QED BY <2>1, <2>2 DEF Foco
<1>8. filaProntas \in Seq(Usuarias) /\ SemRepetir(filaProntas)
  BY DEF IInv, TypeOK, Prontas
<1>9. ASSUME NEW i \in 1..Len(filaProntas)
      PROVE  \/ filaProntas[i] \in Foco'
             \/ /\ filaProntas[i] \notin Foco
                /\ PrioInicial'[filaProntas[i]] = PrioInicial[filaProntas[i]]
                /\ prioEstatica'[filaProntas[i]] = prioEstatica[filaProntas[i]]
             \/ i = Len(filaProntas) /\ PrioInicial'[filaProntas[i]] = prioEstatica'[filaProntas[i]]
  <2>1. CASE filaProntas[i] = e
    <3>1. i = Len(filaProntas)
      BY <1>5, <1>8, <2>1 DEF SemRepetir
    <3> QED BY <1>6, <2>1, <3>1
  <2>2. CASE filaProntas[i] # e
    <3>1. filaProntas[i] \in Usuarias
      BY <1>8
    <3>2. prioEstatica'[filaProntas[i]] = prioEstatica[filaProntas[i]]
          /\ prioDinamica'[filaProntas[i]] = prioDinamica[filaProntas[i]]
      BY <1>3, <1>4, <2>2, <3>1
    <3>3. PrioInicial'[filaProntas[i]] = PrioInicial[filaProntas[i]]
      BY <1>1, <3>2, PrioridadeMesma
    <3> QED BY <1>1, <1>2, <2>2, <3>2, <3>3
  <2> QED BY <2>1, <2>2
<1>10. Ordenada(filaProntas', Foco', PrioInicial', prioEstatica')
  BY <1>1, <1>9, OrdemMesmaFila DEF EmOrdem
<1> QED BY <1>1, <1>3, <1>7, <1>10 DEF EmOrdem

\* The dispatcher's steps on the queue.
LEMMA OrdemDespachante ==
    ASSUME IInv, IInv', MeioNaCpu, PreviaNoFim, EmOrdem, Foco' = Foco, MudaFila
    PROVE  /\ Foco = {}
           /\ Ordenada(filaProntas', Foco', PrioInicial', prioEstatica')
<1>1. cpu = Dispatcher /\ Foco = {}
  BY FocoVazio, Nomes DEF MudaFila, DispatcherOcioso, DispatcherDespacha, DispatcherPronta, Em
<1>2. Ordenada(filaProntas, {}, PrioInicial, prioEstatica)
  BY <1>1 DEF EmOrdem
<1>3. CASE DispatcherOcioso
  <2>1. filaProntas' = <<>>
    BY <1>3 DEF DispatcherOcioso, filas
  <2>2. Len(filaProntas') = 0
    BY <2>1
  <2> QED BY <1>1, <2>2 DEF Ordenada
<1>4. CASE DispatcherDespacha
  BY <1>1, <1>2, <1>4, DespachaOrdenada
<1>5. CASE DispatcherPronta
  <2>1. /\ tarefaPrevia' = tarefaPrevia /\ tarefaPrevia \in Usuarias
        /\ Len(filaProntas) \in Nat /\ Len(filaProntas') = Len(filaProntas) + 1
        /\ \A i \in 1..Len(filaProntas) : filaProntas'[i] = filaProntas[i]
        /\ filaProntas'[Len(filaProntas')] = tarefaPrevia
        /\ UNCHANGED <<prioEstatica, prioDinamica>>
    BY <1>5, ProntaNoFim
  <2>2. \A i \in 1..Len(filaProntas) : PrioInicial'[filaProntas[i]] = PrioInicial[filaProntas[i]]
    BY <2>1, PrioridadeMesma
  <2>3. PrioInicial'[tarefaPrevia] = prioEstatica'[tarefaPrevia]
    BY <2>1, PrioridadeDepois DEF IInv
  <2>4. LET u == filaProntas'[Len(filaProntas')] IN
           u \in Foco' \/ PrioInicial'[u] = prioEstatica'[u]
    BY <2>1, <2>3
  <2>5. \A i \in 1..Len(filaProntas) :
           /\ filaProntas'[i] = filaProntas[i]
           /\ PrioInicial'[filaProntas[i]] = PrioInicial[filaProntas[i]]
           /\ prioEstatica'[filaProntas[i]] = prioEstatica[filaProntas[i]]
    BY <2>1, <2>2
  <2>6. Ordenada(filaProntas', Foco', PrioInicial', prioEstatica')
    BY <1>2, <2>1, <2>4, <2>5, OrdemNoFim
  <2> QED BY <1>1, <2>6
<1> QED BY <1>1, <1>3, <1>4, <1>5 DEF MudaFila

LEMMA OrdemPreserva ==
    ASSUME IInv, IInv', ProgramaInv, ProgramaInv', PedidaInv, PreviaNoFim, OrdemInv, [ANext]_avars,
           \A t \in Usuarias : ~FazCreateEmUso(t)
    PROVE  OrdemInv'
<1> SUFFICES ASSUME ~cortou' PROVE EmOrdem'
  BY DEF OrdemInv
<1>1. ~cortou /\ MeioNaCpu /\ MeioNaCpu'
  BY MeioPreserva DEF PedidaInv
<1>2. EmOrdem /\ [Next]_vars
  BY <1>1, PassoDoNucleo DEF OrdemInv
<1>3. ASSUME NEW t \in Usuarias, CriaPublica(t) PROVE EmOrdem'
  BY <1>2, <1>3, OrdemPublica
<1>4. CASE GravaPrioEstatica(Main)
  <2>1. UNCHANGED <<app, linha>>
    BY <1>4, ChamadaContinua, Nomes DEF MudaOrdem
  <2> QED BY <1>2, <1>4, <2>1, OrdemEstatica
<1>5. ASSUME \A t \in Usuarias : ~CriaPublica(t), ~GravaPrioEstatica(Main) PROVE EmOrdem'
  <2>1. Foco' = Foco
    BY <1>5, FocoMesmo
  <2>2. pc'[Main] = "gravaEst" => prioDinamica'[alvo'[Main]] = reg'[Main]
    BY <1>1, <1>2, GravaEstaticaContinua DEF EmOrdem
  <2>3. ASSUME filaProntas' = filaProntas, Ordenada(filaProntas', Foco', PrioInicial', prioEstatica')
        PROVE  EmOrdem'
    BY <1>2, <2>1, <2>2, <2>3 DEF EmOrdem
  <2>4. ASSUME NEW t \in Usuarias, GravaPrioDinamica(t) \/ (GravaPrioEstatica(t) /\ t # Main)
        PROVE  EmOrdem'
    <3>1. filaProntas' = filaProntas
      BY <2>4, AlvoForaDaFila
    <3> QED BY <1>2, <2>1, <2>3, <2>4, <3>1, OrdemGrava
  <2>5. CASE MudaFila
    BY <1>1, <1>2, <2>1, <2>2, <2>5, OrdemDespachante DEF EmOrdem
  <2>6. CASE ~MudaFila /\ \A t \in Usuarias : ~MudaOrdem(t)
    <3>1. UNCHANGED <<filaProntas, tarefaPrevia, prioEstatica, prioDinamica>>
      BY <1>2, <2>6, MesmaFila
    <3>2. \A i \in 1..Len(filaProntas) : PrioInicial'[filaProntas[i]] = PrioInicial[filaProntas[i]]
      BY <3>1, PrioridadeMesma
    <3>3. Ordenada(filaProntas', Foco', PrioInicial', prioEstatica')
      BY <1>2, <2>1, <3>1, <3>2, OrdemMesmaFila DEF EmOrdem
    <3> QED BY <2>3, <3>1, <3>3
  <2> QED BY <1>5, <2>4, <2>5, <2>6 DEF MudaOrdem
<1> QED BY <1>3, <1>4, <1>5

-----------------------------------------------------------------------------
\* The applications where everybody has its turn.

\* The calls of a main that creates all, yields once and ends.
LEMMA CriaCedeFim ==
    LET s == CriaTodas \o <<Yield, Fim>> IN
    /\ s \in Seq(DoMain) /\ Len(s) = N + 2
    /\ \A i \in 1..N : s[i] = Create(i)
    /\ s[N + 1] = Yield /\ s[N + 2] = Fim
<1> DEFINE c == CriaTodas
           f == <<Yield, Fim>>
<1>1. c \in Seq(DoMain) /\ Len(c) = N /\ \A i \in 1..N : c[i] = Create(i)
  BY CallsDoMain, NumeroDeTarefas DEF CriaTodas
<1>2. f \in Seq(DoMain) /\ Len(f) = 2 /\ f[1] = Yield /\ f[2] = Fim
  BY CallsDoMain
<1>3. N \in Nat
  BY NumeroDeTarefas
<1> HIDE DEF c, f
<1>4. /\ Len(c \o f) = Len(c) + Len(f) /\ c \o f \in Seq(DoMain)
      /\ \A i \in 1..(Len(c) + Len(f)) : (c \o f)[i] = IF i <= Len(c) THEN c[i] ELSE f[i - Len(c)]
  BY <1>1, <1>2, ConcatProperties
<1>5. (N + 1) - N = 1 /\ (N + 2) - N = 2
  BY <1>3
<1>6. (c \o f)[N + 1] = f[1] /\ (c \o f)[N + 2] = f[2]
  BY <1>1, <1>2, <1>3, <1>4, <1>5
<1>7. \A i \in 1..N : (c \o f)[i] = Create(i)
  BY <1>1, <1>2, <1>3, <1>4
<1>8. Len(c \o f) = N + 2
  BY <1>1, <1>2, <1>4
<1> QED BY <1>2, <1>4, <1>6, <1>7, <1>8 DEF c, f

DoEscalonador(prog) ==
    /\ prog[Main] = CriaTodas \o <<Yield, Fim>>
    /\ \A t \in UserTasks : \A i \in DOMAIN prog[t] : prog[t][i].op \in {"yield", "task_exit"}

LEMMA ProgramasUmaVez == ASSUME NEW a \in UmaVez PROVE DoEscalonador(Programas[a])
<1>1. \A t \in UserTasks : t \in Usuarias /\ t # Main
  BY NomesAssumption DEF Usuarias
<1>2. DoEscalonador(PingpongContab)
  <2>1. /\ PingpongContab[Main] = CriaTodas \o <<Yield, Fim>>
        /\ \A t \in UserTasks : PingpongContab[t] = <<Exit>>
    BY <1>1, Nomes DEF PingpongContab, Programa
  <2> QED BY <2>1 DEF DoEscalonador, Exit, Call
<1>3. DoEscalonador(PingpongDispatcher)
  <2>1. /\ PingpongDispatcher[Main] = CriaTodas \o <<Yield, Fim>>
        /\ \A t \in UserTasks : PingpongDispatcher[t] = Vezes(VOLTAS, Yield) \o <<Exit>>
    BY <1>1, Nomes DEF PingpongDispatcher, Programa
  <2> DEFINE S == {Yield, Exit}
  <2>2. Vezes(VOLTAS, Yield) \in Seq(S)
    BY Repeticao, AplicacaoAssumption
  <2>3. Vezes(VOLTAS, Yield) \o <<Exit>> \in Seq(S)
    BY <2>2
  <2>4. \A i \in DOMAIN (Vezes(VOLTAS, Yield) \o <<Exit>>) : (Vezes(VOLTAS, Yield) \o <<Exit>>)[i] \in S
    BY <2>3
  <2>5. Yield.op = "yield" /\ Exit.op = "task_exit"
    BY DEF Yield, Exit, Call
  <2> QED BY <2>1, <2>4, <2>5 DEF DoEscalonador
<1>4. a \in {"dispatcher", "contab", "preempcao", "stress"}
  BY DEF UmaVez, MesmaPrioridade
<1> QED BY <1>2, <1>3, <1>4 DEF Programas, PingpongPreempcao, PingpongPreempcaoStress

\* The call a task of such an application makes.
LEMMA CallUmaVez ==
    ASSUME IInv, ProgramaInv, app \in UmaVez, NEW t \in Usuarias, NEW op, Faz(t, op)
    PROVE  /\ t = Main => linha[Main] \in 1..(N + 2) /\ op \in {"create", "yield", "exit"}
           /\ t = Main /\ op = "create" => linha[Main] \in UserTasks /\ Proxima(Main).alvo = linha[Main]
           /\ t = Main /\ op = "yield" => linha[Main] = N + 1
           /\ t = Main /\ op = "exit" => linha[Main] = N + 2
           /\ t # Main => op \in {"yield", "task_exit"}
<1>1. DoEscalonador(Programas[app])
  BY ProgramasUmaVez
<1>2. linha[t] \in DOMAIN Programas[app][t] /\ Programas[app][t][linha[t]].op = op
  BY DEF Faz, Proxima
<1>3. CASE t # Main
  BY <1>1, <1>2, <1>3 DEF DoEscalonador, Usuarias
<1>4. CASE t = Main
  <2> DEFINE s == CriaTodas \o <<Yield, Fim>>
             i == linha[Main]
  <2>1. Programas[app][Main] = s
    BY <1>1 DEF DoEscalonador
  <2>2. /\ s \in Seq(DoMain) /\ Len(s) = N + 2
        /\ \A k \in 1..N : s[k] = Create(k)
        /\ s[N + 1] = Yield /\ s[N + 2] = Fim
    BY CriaCedeFim
  <2> HIDE DEF s
  <2>3. i \in 1..(N + 2) /\ N \in Nat /\ s[i].op = op
    <3>1. i \in DOMAIN s /\ s[i].op = op
      BY <1>2, <1>4, <2>1
    <3>2. DOMAIN s = 1..(N + 2)
      BY <2>2
    <3> QED BY <3>1, <3>2, NumeroDeTarefas
  <2>4. i \in 1..N \/ i = N + 1 \/ i = N + 2
    BY <2>3
  <2>5. CASE i \in 1..N
    <3>1. s[i].op = "create" /\ s[i].alvo = i
      <4>1. s[i] = Create(i)
        BY <2>2, <2>5
      <4> QED BY <4>1 DEF Create, Call
    <3> QED BY <1>4, <2>1, <2>3, <2>5, <3>1, NumeroDeTarefas DEF Proxima
  <2>6. CASE i = N + 1
    <3>1. s[i].op = "yield"
      BY <2>2, <2>6 DEF Yield, Call
    <3> QED BY <1>4, <2>3, <2>6, <3>1
  <2>7. CASE i = N + 2
    <3>1. s[i].op = "exit"
      BY <2>2, <2>7 DEF Fim, Call
    <3> QED BY <1>4, <2>3, <2>7, <3>1
  <2> QED BY <2>4, <2>5, <2>6, <2>7
<1> QED BY <1>3, <1>4

\* The calls of such an application.
LEMMA ChamadaUmaVez ==
    ASSUME IInv, ProgramaInv, app \in UmaVez, NEW t \in Usuarias, Chamada(t), ~FazCreateEmUso(t)
    PROVE  \/ FazCreate(t) /\ t = Main /\ linha[Main] \in UserTasks /\ Proxima(Main).alvo = linha[Main]
           \/ FazYield(t) /\ (t = Main => linha[Main] = N + 1)
           \/ FazExit(t) /\ t # Main
           \/ FazFim(t) /\ t = Main /\ linha[Main] = N + 2
<1>1. CASE FazCreate(t)
  <2>1. Faz(t, "create")
    BY <1>1 DEF FazCreate
  <2> QED BY <1>1, <2>1, CallUmaVez
<1>2. ASSUME FazSetprio(t) PROVE FALSE
  <2>1. Faz(t, "setprio")
    BY <1>2 DEF FazSetprio
  <2> QED BY <2>1, CallUmaVez
<1>3. ASSUME FazSwitch(t) PROVE FALSE
  <2>1. Faz(t, "switch") \/ Faz(t, "proxima")
    BY <1>3 DEF FazSwitch
  <2> QED BY <2>1, CallUmaVez
<1>4. CASE FazYield(t)
  <2>1. Faz(t, "yield")
    BY <1>4 DEF FazYield
  <2> QED BY <1>4, <2>1, CallUmaVez
<1>5. CASE FazExit(t)
  <2>1. Faz(t, "task_exit")
    BY <1>5 DEF FazExit
  <2> QED BY <1>5, <2>1, CallUmaVez
<1>6. CASE FazFim(t)
  <2>1. Faz(t, "exit")
    BY <1>6 DEF FazFim
  <2> QED BY <1>6, <2>1, CallUmaVez
<1> QED BY <1>1, <1>2, <1>3, <1>4, <1>5, <1>6 DEF Chamada

\* What a call of such an application does to main and to the priorities.
LEMMA EfeitoDaChamada ==
    ASSUME IInv, ProgramaInv, app \in UmaVez, NEW t \in Usuarias, Chamada(t), ~FazCreateEmUso(t)
    PROVE  /\ cpu = t /\ tarefaPrevia = t /\ pc[t] = "livre" /\ saida = "nenhuma" /\ FaseUsuario
           /\ \A u \in Usuarias : u # t => pc'[u] = pc[u]
           /\ pc'[t] = IF FazCreate(t) THEN "gravaId" ELSE IF FazFim(t) THEN "livre" ELSE "troca"
           /\ pc'[Dispatcher] = pc[Dispatcher]
           /\ linha'[Main] = IF t = Main THEN linha[Main] + 1 ELSE linha[Main]
           /\ alvo'[Main] = IF FazCreate(t) THEN linha[Main] ELSE alvo[Main]
           /\ UNCHANGED <<filaProntas, tarefaPrevia, prioEstatica, prioDinamica, rodou, app, cpu>>
           /\ status[Main] = PRONTA => status'[Main] = PRONTA
           /\ ~FazFim(t) => saida' = saida
<1> USE Nomes
<1>1. PICK op : Faz(t, op)
  BY DEF Chamada, FazCreate, FazSetprio, FazSwitch, FazYield, FazExit, FazFim
<1>2. /\ cpu = t /\ tarefaPrevia = t /\ tarefaAtual = t /\ pc[t] = "livre" /\ saida = "nenhuma" /\ FaseUsuario
      /\ linha'[Main] = IF t = Main THEN linha[Main] + 1 ELSE linha[Main]
      /\ UNCHANGED <<app, rodou>>
  BY <1>1, FazAvanca
<1>3. \/ FazCreate(t) /\ t = Main /\ linha[Main] \in UserTasks /\ Proxima(Main).alvo = linha[Main]
      \/ FazYield(t) /\ (t = Main => linha[Main] = N + 1)
      \/ FazExit(t) /\ t # Main
      \/ FazFim(t) /\ t = Main /\ linha[Main] = N + 2
  BY ChamadaUmaVez
<1>4. CASE FazCreate(t)
  <2>1. /\ t = Main /\ CriaLeId(Main, linha[Main]) /\ ~FazFim(t)
    BY <1>3, <1>4 DEF FazCreate, FazYield, FazExit, FazFim, Faz
  <2>2. /\ \A u \in Tarefas : pc'[u] = IF u = t THEN "gravaId" ELSE pc[u]
        /\ alvo'[Main] = linha[Main]
        /\ UNCHANGED <<filaProntas, tarefaPrevia, prioEstatica, prioDinamica, status, cpu, saida>>
    BY <2>1 DEF CriaLeId, Vai, filas, globais, tcb, IInv, TypeOK
  <2> QED BY <1>2, <1>4, <2>1, <2>2
<1>5. CASE FazYield(t)
  <2>1. TaskYield(t) /\ ~FazFim(t) /\ ~FazCreate(t)
    BY <1>5 DEF FazCreate, FazYield, FazFim, Faz
  <2>2. /\ \A u \in Tarefas : pc'[u] = IF u = t THEN "troca" ELSE pc[u]
        /\ UNCHANGED <<filaProntas, tarefaPrevia, prioEstatica, prioDinamica, cpu, alvo, saida>>
        /\ status[Main] = PRONTA => status'[Main] = PRONTA
    BY <2>1 DEF TaskYield, Vai, filas, globais, IInv, TypeOK
  <2> QED BY <1>2, <1>5, <2>1, <2>2
<1>6. CASE FazExit(t) /\ t # Main
  <2>1. TaskExit(t) /\ ~FazFim(t) /\ ~FazCreate(t)
    BY <1>6 DEF FazCreate, FazExit, FazFim, Faz
  <2>2. /\ \A u \in Tarefas : pc'[u] = IF u = t THEN "troca" ELSE pc[u]
        /\ UNCHANGED <<filaProntas, tarefaPrevia, prioEstatica, prioDinamica, cpu, alvo, saida>>
        /\ status'[Main] = status[Main]
    BY <1>2, <1>6, <2>1 DEF TaskExit, Vai, filas, globais, IInv, TypeOK
  <2> QED BY <1>2, <1>6, <2>1, <2>2
<1>7. CASE FazFim(t)
  <2>1. ExitProcesso(t) /\ ~FazCreate(t)
    BY <1>7 DEF FazCreate, FazFim, Faz
  <2>2. UNCHANGED <<filaProntas, tarefaPrevia, prioEstatica, prioDinamica, pc, cpu, alvo, status>>
    BY <2>1 DEF ExitProcesso, filas, globais, tcb, maquina
  <2> QED BY <1>2, <1>7, <2>1, <2>2
<1> QED BY <1>3, <1>4, <1>5, <1>6, <1>7

\* The steps that are not calls leave main where it is in its program.
LEMMA ForaDasChamadas ==
    ASSUME IInv, ProgramaInv, [ANext]_avars, \A t \in Usuarias : ~Chamada(t)
    PROVE  /\ \A t \in Usuarias : Avanca(t)
           /\ app' = app /\ linha'[Main] = linha[Main] /\ status'[Main] = status[Main]
<1> USE Nomes
<1>1. ASSUME NEW t \in Usuarias, Inicia(t)
      PROVE  app' = app /\ linha'[Main] = linha[Main] /\ status'[Main] = status[Main]
  <2>1. PICK e \in UserTasks : e = alvo[t]
    BY <1>1, Lugares DEF Inicia, CriaInicia, Em, IInv, Chamadas, DentroDaChamada
  <2>2. /\ linha' = [linha EXCEPT ![e] = 1] /\ status' = [status EXCEPT ![e] = PRONTA] /\ app' = app
    BY <1>1, <2>1 DEF Inicia, CriaInicia
  <2> QED BY <2>1, <2>2 DEF ProgramaInv, IInv, TypeOK
<1>2. ASSUME NEW t \in Usuarias, Continua(t) PROVE UNCHANGED <<app, linha, status>> /\ ChamadaNext(t)
  <2>1. ~CriaInicia(t)
    BY <1>2 DEF Continua, CriaInicia, CriaSemMemoria, maquina, Em
  <2> QED BY <1>2, <2>1 DEF Continua, ChamadaNext, CriaGravaId, CriaSemMemoria, CriaPublica, CriaLeCont,
                   CriaGravaCont, GravaPrioDinamica, GravaPrioEstatica, Troca, tcb
<1>3. CASE Entra \/ Despacha \/ Tick \/ UNCHANGED avars \/ (PposInit /\ UNCHANGED <<app, linha, rodou, pedida, cortou>>)
  <2>1. UNCHANGED <<app, linha, status>>
    BY <1>3 DEF Entra, Despacha, Tick, avars, vars, tcb, PposInit, Systick, DispatcherNext, DispatcherFim,
                DispatcherOcioso, DispatcherDespacha, DispatcherTroca, DispatcherPronta, DispatcherRecolhe
  <2>2. PposInit \/ Systick \/ DispatcherNext \/ UNCHANGED vars
    BY <1>3 DEF Entra, Despacha, Tick, avars, DispatcherNext
  <2> QED BY <2>1, <2>2, NucleoAvanca
<1>4. ASSUME NEW t \in Usuarias, Inicia(t) PROVE \A u \in Usuarias : Avanca(u)
  BY <1>4, NucleoAvanca DEF Inicia, ChamadaNext
<1> QED BY <1>1, <1>2, <1>3, <1>4, NucleoAvanca DEF ANext, Encerrado

LEMMA MainCriaPreserva ==
    ASSUME IInv, ProgramaInv, app \in UmaVez, MainCria, [ANext]_avars, \A t \in Usuarias : ~FazCreateEmUso(t)
    PROVE  MainCria'
<1> USE Nomes
<1>1. ASSUME NEW t \in Usuarias, Chamada(t) PROVE MainCria'
  <2>1. /\ pc[t] = "livre" /\ \A u \in Usuarias : u # t => pc'[u] = pc[u]
        /\ pc'[t] = IF FazCreate(t) THEN "gravaId" ELSE IF FazFim(t) THEN "livre" ELSE "troca"
        /\ linha'[Main] = IF t = Main THEN linha[Main] + 1 ELSE linha[Main]
        /\ status[Main] = PRONTA => status'[Main] = PRONTA
    BY <1>1, EfeitoDaChamada
  <2>2. FazCreate(t) => t = Main /\ linha[Main] \in 1..N
    <3>1. FazCreate(t) => ~FazYield(t) /\ ~FazExit(t) /\ ~FazFim(t)
      BY DEF FazCreate, FazYield, FazExit, FazFim, Faz
    <3> QED BY <1>1, <3>1, ChamadaUmaVez, NumeroDeTarefas
  <2>3. CASE FazCreate(t)
    <3>1. linha'[Main] <= N + 1
      BY <2>1, <2>2, <2>3, NumeroDeTarefas
    <3> QED BY <2>1, <3>1 DEF MainCria
  <2>4. CASE ~FazCreate(t) /\ t = Main
    <3>1. pc'[Main] \in {"livre", "troca"}
      BY <2>1, <2>4
    <3> QED BY <2>1, <3>1, Lugares DEF MainCria, Gravando
  <2>5. CASE t # Main
    BY <2>1, <2>5 DEF MainCria
  <2> QED BY <2>3, <2>4, <2>5
<1>2. CASE \A t \in Usuarias : ~Chamada(t)
  <2>1. Avanca(Main) /\ linha'[Main] = linha[Main] /\ status'[Main] = status[Main]
    BY <1>2, ForaDasChamadas
  <2>2. pc'[Main] \in Criando \cup Gravando => pc[Main] \in Criando \cup Gravando
    BY <2>1, Lugares DEF Avanca, Gravando
  <2> QED BY <2>1, <2>2 DEF MainCria
<1> QED BY <1>1, <1>2

\* In these applications only main stores priorities, and all are 0.
LEMMA GravaZero ==
    ASSUME IInv, ProgramaInv, PrioridadesIguais, NEW t \in Usuarias, pc[t] \in Gravando
    PROVE  t = Main /\ reg[t] = 0 /\ alvo[t] \in Usuarias
BY Nomes DEF PrioridadesIguais, Usuarias, ProgramaInv

LEMMA PrioridadeDepoisNula ==
    ASSUME IInv, IInv', ProgramaInv, PrioridadesIguais, [Next]_vars
    PROVE  \A t \in Tarefas : prioEstatica'[t] = 0 /\ prioDinamica'[t] <= 0
<1> USE Nomes
<1>1. \A t \in Tarefas : PrioInicial[t] <= 0 /\ PrioInicial[t] \in Int
  <2>1. /\ \A t \in Tarefas : prioDinamica[t] \in Int /\ prioDinamica[t] <= 0 /\ prioEstatica[t] = 0
        /\ prioDinamica \in [Tarefas -> Int]
    BY DEF PrioridadesIguais, IInv, TypeOK
  <2>2. \A t \in Tarefas : 
           \/ PrioInicial[t] = prioDinamica[t]
           \/ PrioInicial[t] = prioEstatica[tarefaPrevia] /\ tarefaPrevia \in Tarefas
    BY <2>1 DEF PrioInicial, IInv, TypeOK
  <2> QED BY <2>1, <2>2
<1>2. ASSUME NEW t \in Usuarias, CriaPublica(t) \/ GravaPrioDinamica(t) \/ GravaPrioEstatica(t)
      PROVE  \A u \in Tarefas : prioEstatica'[u] = 0 /\ prioDinamica'[u] <= 0
  <2>1. CASE CriaPublica(t)
    BY <2>1 DEF CriaPublica, tcb, PrioridadesIguais
  <2>2. CASE GravaPrioDinamica(t)
    <3>1. reg[t] = 0
      BY <2>2, GravaZero DEF GravaPrioDinamica, Em, Gravando
    <3> QED BY <2>2, <3>1 DEF GravaPrioDinamica, PrioridadesIguais, IInv, TypeOK
  <2>3. CASE GravaPrioEstatica(t)
    <3>1. reg[t] = 0
      BY <2>3, GravaZero DEF GravaPrioEstatica, Em, Gravando
    <3> QED BY <2>3, <3>1 DEF GravaPrioEstatica, PrioridadesIguais, IInv, TypeOK
  <2> QED BY <1>2, <2>1, <2>2, <2>3
<1>3. CASE DispatcherOcioso
  BY <1>1, <1>3 DEF DispatcherOcioso, PrioridadesIguais
<1>4. CASE DispatcherDespacha
  <2>1. \A t \in Tarefas : PrioEnvelhecida[t] <= 0
    BY <1>1 DEF PrioEnvelhecida
  <2> QED BY <1>4, <2>1 DEF DispatcherDespacha, PrioridadesIguais
<1>5. CASE DispatcherPronta
  BY <1>5 DEF DispatcherPronta, tcb, PrioridadesIguais
<1>6. CASE ~MudaFila /\ \A t \in Usuarias : ~MudaOrdem(t)
  BY <1>6, MesmaFila DEF PrioridadesIguais
<1> QED BY <1>2, <1>3, <1>4, <1>5, <1>6 DEF MudaFila, MudaOrdem

LEMMA IguaisPreserva ==
    ASSUME IInv, IInv', ProgramaInv, app \in UmaVez, PrioridadesIguais, [ANext]_avars,
           \A t \in Usuarias : ~FazCreateEmUso(t)
    PROVE  PrioridadesIguais'
<1> USE Nomes
<1>1. \A t \in Tarefas : prioEstatica'[t] = 0 /\ prioDinamica'[t] <= 0
  BY PassoDoNucleo, PrioridadeDepoisNula
<1>2. ASSUME NEW t \in Usuarias, Chamada(t), NEW u \in Usuarias
      PROVE  pc'[u] \notin Gravando \/ pc'[u] = pc[u]
  <2>1. /\ u # t => pc'[u] = pc[u]
        /\ pc'[t] = IF FazCreate(t) THEN "gravaId" ELSE IF FazFim(t) THEN "livre" ELSE "troca"
    BY <1>2, EfeitoDaChamada
  <2>2. pc'[t] \in {"gravaId", "livre", "troca"}
    BY <2>1
  <2> QED BY <2>1, <2>2 DEF Gravando
<1>3. \A t \in UserTasks : pc'[t] \notin Gravando
  <2>1. CASE \A t \in Usuarias : ~Chamada(t)
    <3>1. \A t \in Usuarias : Avanca(t)
      BY <2>1, ForaDasChamadas
    <3> QED BY <3>1 DEF Avanca, PrioridadesIguais, ProgramaInv, Gravando
  <2> QED BY <1>2, <2>1 DEF PrioridadesIguais
<1>4. ASSUME pc'[Main] \in Gravando PROVE reg'[Main] = 0
  <2>1. CASE CriaGravaCont(Main)
    BY <2>1 DEF CriaGravaCont, IInv, TypeOK
  <2>2. CASE ~CriaGravaCont(Main)
    <3>1. ASSUME NEW t \in Usuarias, FazCreate(t) \/ FazSetprio(t) PROVE FALSE
      <4>1. Chamada(t)
        BY <3>1 DEF Chamada
      <4>2. FazCreate(t) /\ t = Main
        <5>1. ~FazSetprio(t)
          BY <4>1, ChamadaUmaVez DEF FazCreate, FazSetprio, FazYield, FazExit, FazFim, Faz
        <5>2. FazCreate(t) => ~FazYield(t) /\ ~FazExit(t) /\ ~FazFim(t)
          BY DEF FazCreate, FazYield, FazExit, FazFim, Faz
        <5> QED BY <3>1, <4>1, <5>1, <5>2, ChamadaUmaVez
      <4>3. pc'[Main] = "gravaId"
        BY <4>1, <4>2, EfeitoDaChamada
      <4> QED BY <1>4, <4>3 DEF Gravando
    <3>2. ASSUME NEW t \in Usuarias, CriaGravaCont(t) \/ GravaPrioEstatica(t) PROVE FALSE
      <4>1. t = Main
        BY <3>2, Lugares DEF CriaGravaCont, GravaPrioEstatica, Em, ProgramaInv, PrioridadesIguais, Usuarias, Gravando
      <4>2. pc'[Main] = "livre"
        BY <2>2, <3>2, <4>1 DEF GravaPrioEstatica, Vai, IInv, TypeOK
      <4> QED BY <1>4, <4>2 DEF Gravando
    <3>3. SemPedido
      BY <3>1, <3>2, SemPedidoPassos
    <3> QED BY <1>4, <3>3 DEF SemPedido, PrioridadesIguais
  <2> QED BY <2>1, <2>2
<1> QED BY <1>1, <1>3, <1>4 DEF PrioridadesIguais

\* The other steps change neither the queue nor who has run, and publish no task.
LEMMA PassosSemVez ==
    ASSUME IInv, ProgramaInv, [ANext]_avars, ~DispatcherTroca, ~MudaFila,
           \A t \in Usuarias : ~Chamada(t) /\ ~Inicia(t) /\ ~CriaPublica(t)
    PROVE  /\ UNCHANGED <<filaProntas, tarefaPrevia, rodou>>
           /\ pc'[Dispatcher] = pc[Dispatcher] \/ (DispatcherRecolhe /\ pc'[Dispatcher] = "laco")
           /\ pc[Main] \in AntesDePublicar => pc'[Main] \in AntesDePublicar /\ alvo'[Main] = alvo[Main]
<1> USE Nomes DEF AntesDePublicar
<1>1. ASSUME NEW t \in Usuarias, Continua(t)
      PROVE  /\ UNCHANGED <<filaProntas, tarefaPrevia, rodou>>
             /\ pc'[Dispatcher] = pc[Dispatcher]
             /\ pc[Main] \in AntesDePublicar => pc'[Main] \in AntesDePublicar /\ alvo'[Main] = alvo[Main]
  <2>1. rodou' = rodou /\ ~CriaPublica(t) /\ ~CriaInicia(t)
    BY <1>1 DEF Continua, CriaInicia, CriaSemMemoria, maquina, Em
  <2>2. CASE CriaGravaId(t)
    BY <2>1, <2>2 DEF CriaGravaId, Vai, Em, filas, IInv, TypeOK
  <2>3. CASE CriaLeCont(t) \/ CriaGravaCont(t) \/ GravaPrioDinamica(t) \/ GravaPrioEstatica(t)
    <3>1. /\ UNCHANGED <<filaProntas, tarefaPrevia>> /\ pc[t] \notin AntesDePublicar
          /\ \A u \in Tarefas : u # t => pc'[u] = pc[u] /\ alvo'[u] = alvo[u]
      BY <2>3 DEF CriaLeCont, CriaGravaCont, GravaPrioDinamica, GravaPrioEstatica, Vai, Em, filas, globais,
         IInv, TypeOK
    <3> QED BY <2>1, <3>1
  <2>4. CASE Troca(t)
    <3>1. /\ UNCHANGED <<filaProntas, tarefaPrevia, alvo>> /\ pc[t] \notin AntesDePublicar
          /\ \A u \in Tarefas : u # t => pc'[u] = pc[u]
      BY <2>4 DEF Troca, Vai, Em, filas, IInv, TypeOK
    <3> QED BY <2>1, <3>1
  <2>5. CASE CriaSemMemoria(t)
    BY <2>1, <2>5 DEF CriaSemMemoria, filas, globais, maquina
  <2> QED BY <1>1, <2>1, <2>2, <2>3, <2>4, <2>5 DEF Continua, ChamadaNext
<1>2. CASE Tick
  BY <1>2 DEF Tick, Systick, filas
<1>3. CASE Despacha
  <2>1. DispatcherRecolhe \/ DispatcherFim
    BY <1>3 DEF Despacha, DispatcherNext, MudaFila
  <2>2. UNCHANGED <<filaProntas, tarefaPrevia, rodou, alvo>> /\ pc'[Main] = pc[Main]
    BY <1>3, <2>1 DEF Despacha, DispatcherRecolhe, DispatcherFim, filas, globais, maquina, Vai, IInv, TypeOK
  <2>3. DispatcherRecolhe => pc'[Dispatcher] = "laco"
    BY DEF DispatcherRecolhe, Vai, IInv, TypeOK
  <2>4. DispatcherFim => pc' = pc
    BY DEF DispatcherFim, maquina
  <2> QED BY <2>1, <2>2, <2>3, <2>4
<1>4. CASE PposInit /\ UNCHANGED <<app, linha, rodou, pedida, cortou>>
  BY <1>4 DEF PposInit, Vai, Em, filas, IInv, TypeOK
<1>5. CASE UNCHANGED avars
  BY <1>5 DEF avars, vars, filas, globais, maquina
<1> QED BY <1>1, <1>2, <1>3, <1>4, <1>5 DEF ANext, Entra, Encerrado

LEMMA EsperaNaChamada ==
    ASSUME IInv, ProgramaInv, app \in UmaVez, EsperaAVez, NEW t \in Usuarias, Chamada(t), ~FazCreateEmUso(t)
    PROVE  EsperaAVez'
<1> USE Nomes
<1>1. /\ pc[t] = "livre" /\ \A u \in Usuarias : u # t => pc'[u] = pc[u]
      /\ pc'[t] = IF FazCreate(t) THEN "gravaId" ELSE IF FazFim(t) THEN "livre" ELSE "troca"
      /\ pc'[Dispatcher] = pc[Dispatcher]
      /\ linha'[Main] = IF t = Main THEN linha[Main] + 1 ELSE linha[Main]
      /\ alvo'[Main] = IF FazCreate(t) THEN linha[Main] ELSE alvo[Main]
      /\ UNCHANGED <<filaProntas, tarefaPrevia, rodou>>
  BY EfeitoDaChamada
<1>2. /\ FazCreate(t) => t = Main /\ linha[Main] \in UserTasks
      /\ ~FazCreate(t) /\ t = Main => linha[Main] > N
  <2>1. /\ FazCreate(t) => ~FazYield(t) /\ ~FazExit(t) /\ ~FazFim(t)
    BY DEF FazCreate, FazYield, FazExit, FazFim, Faz
  <2> QED BY <2>1, ChamadaUmaVez, NumeroDeTarefas
<1>3. ASSUME NEW e \in UserTasks, Publicada(e)' PROVE Publicada(e)
  <2>1. e \in 1..N /\ N \in Nat /\ linha[Main] \in Nat
    BY NumeroDeTarefas DEF ProgramaInv
  <2>2. CASE t # Main
    BY <1>1, <1>2, <1>3, <2>2 DEF Publicada
  <2>3. CASE t = Main /\ ~FazCreate(t)
    BY <1>1, <1>2, <2>1, <2>3 DEF Publicada, AntesDePublicar
  <2>4. CASE FazCreate(t)
    <3>1. e # linha[Main] /\ e < linha[Main] + 1
      BY <1>1, <1>2, <1>3, <2>4 DEF Publicada, AntesDePublicar
    <3> QED BY <1>1, <1>2, <2>1, <2>4, <3>1 DEF Publicada, AntesDePublicar
  <2> QED BY <2>2, <2>3, <2>4
<1> QED BY <1>1, <1>3 DEF EsperaAVez

LEMMA EsperaIniciando ==
    ASSUME IInv, ProgramaInv, EsperaAVez, NEW t \in Usuarias, Inicia(t)
    PROVE  EsperaAVez'
<1> USE Nomes
<1>1. /\ t = Main /\ pc[Main] = "inicia" /\ CriaInicia(Main) /\ FaseUsuario /\ tarefaPrevia = Main
      /\ alvo[Main] \in UserTasks
  <2>1. t = Main /\ CriaInicia(Main) /\ pc[Main] = "inicia" /\ alvo[Main] \in UserTasks
    BY Lugares DEF Inicia, CriaInicia, Em, ProgramaInv, Usuarias, IInv, Chamadas, DentroDaChamada
  <2> QED BY <2>1, UsuarioNaCpu DEF CriaInicia
<1>2. /\ UNCHANGED <<filaProntas, tarefaPrevia, alvo>> /\ pc'[Main] = "publica"
      /\ pc'[Dispatcher] = pc[Dispatcher] /\ rodou' = rodou \ {alvo[Main]}
      /\ linha' = [linha EXCEPT ![alvo[Main]] = 1]
  <2>1. UNCHANGED <<filaProntas, tarefaPrevia, alvo>> /\ pc' = [pc EXCEPT ![Main] = "publica", ![alvo[Main]] = "livre"]
    BY <1>1 DEF CriaInicia, filas, globais
  <2>2. rodou' = rodou \ {alvo[Main]} /\ linha' = [linha EXCEPT ![alvo[Main]] = 1]
    BY <1>1 DEF Inicia
  <2> QED BY <1>1, <2>1, <2>2 DEF IInv, TypeOK
<1>3. linha'[Main] = linha[Main]
  BY <1>1, <1>2 DEF ProgramaInv
<1>4. \A e \in UserTasks : Publicada(e)' => Publicada(e) /\ e # alvo[Main]
  BY <1>1, <1>2, <1>3 DEF Publicada, AntesDePublicar
<1> QED BY <1>1, <1>2, <1>4 DEF EsperaAVez

LEMMA EsperaForaDasChamadas ==
    ASSUME IInv, IInv', ProgramaInv, EsperaAVez, [ANext]_avars, \A t \in Usuarias : ~Chamada(t) /\ ~Inicia(t)
    PROVE  EsperaAVez'
<1> USE Nomes
<1>1. linha'[Main] = linha[Main] /\ [Next]_vars
  BY ForaDasChamadas, PassoDoNucleo DEF Chamada
<1>2. ASSUME NEW t \in Usuarias, CriaPublica(t) PROVE EsperaAVez'
  <2>1. t = Main /\ rodou' = rodou
    BY <1>2, Lugares, ChamadaContinua DEF ProgramaInv, Usuarias, CriaPublica, Em, MudaOrdem
  <2>2. /\ UNCHANGED <<tarefaPrevia, alvo>> /\ alvo[Main] \in ToSet(filaProntas') /\ FaseUsuario
        /\ \A e \in ToSet(filaProntas) : e \in ToSet(filaProntas')
        /\ pc'[Dispatcher] = pc[Dispatcher]
    <3>1. /\ FaseUsuario /\ tarefaPrevia' = tarefaPrevia /\ alvo' = alvo /\ alvo[Main] \in UserTasks
      BY <1>2, <2>1, PublicaNoFim
    <3>2. filaProntas' = Append(filaProntas, alvo[Main]) /\ filaProntas \in Seq(Usuarias)
          /\ pc'[Dispatcher] = pc[Dispatcher]
      BY <1>2, <2>1 DEF CriaPublica, Vai, IInv, TypeOK
    <3>3. ToSet(filaProntas') = ToSet(filaProntas) \cup {alvo[Main]}
      BY <3>1, <3>2, AppendProps
    <3> QED BY <3>1, <3>2, <3>3
  <2>3. \A e \in UserTasks : Publicada(e)' => Publicada(e) \/ e = alvo[Main]
    BY <1>1, <2>2 DEF Publicada
  <2> QED BY <2>1, <2>2, <2>3 DEF EsperaAVez
<1>3. ASSUME pc[Main] \in AntesDePublicar => pc'[Main] \in AntesDePublicar /\ alvo'[Main] = alvo[Main],
             NEW e \in UserTasks, Publicada(e)'
      PROVE  Publicada(e)
  BY <1>1, <1>3 DEF Publicada
<1>4. CASE DispatcherTroca
  <2>1. rodou' = rodou \cup {tarefaPrevia}
    <3>1. pc[Dispatcher] = "janela" /\ cpu = Dispatcher /\ saida = "nenhuma" /\ pc'[Dispatcher] = "retorno"
      BY <1>4 DEF DispatcherTroca, Em, Vai, IInv, TypeOK
    <3>2. pc'[Dispatcher] # pc[Dispatcher] /\ \A t \in Usuarias : ~Continua(t)
      BY <3>1 DEF Continua, ChamadaNext, CriaGravaId, CriaInicia, CriaSemMemoria, CriaPublica, CriaLeCont,
                  CriaGravaCont, GravaPrioDinamica, GravaPrioEstatica, Troca, Em
    <3> QED BY <3>1, <3>2 DEF ANext, Entra, Despacha, Tick, Systick, PposInit, Em, Encerrado, avars, vars, maquina
  <2>2. /\ UNCHANGED <<filaProntas, tarefaPrevia, alvo>> /\ pc'[Main] = pc[Main] /\ pc'[Dispatcher] = "retorno"
        /\ pc[Dispatcher] = "janela"
    BY <1>4 DEF DispatcherTroca, Em, Vai, filas, globais, IInv, TypeOK
  <2>3. \A e \in UserTasks : Publicada(e)' => Publicada(e)
    BY <1>3, <2>2
  <2> QED BY <2>1, <2>2, <2>3 DEF EsperaAVez
<1>5. CASE MudaFila
  <2>1. rodou' = rodou
    <3>1. cpu = Dispatcher /\ saida = "nenhuma" /\ pc[Dispatcher] # "janela"
      BY <1>5 DEF MudaFila, DispatcherOcioso, DispatcherDespacha, DispatcherPronta, Em
    <3>2. ~Entra
      BY <3>1 DEF Entra, DispatcherTroca, Em
    <3> QED BY <3>2 DEF ANext, Continua, Despacha, Tick, Encerrado, avars
  <2>2. alvo' = alvo /\ pc'[Main] = pc[Main]
    BY <1>5 DEF MudaFila, DispatcherOcioso, DispatcherDespacha, DispatcherPronta, maquina, Vai, IInv, TypeOK
  <2>3. \A e \in UserTasks : Publicada(e)' => Publicada(e)
    BY <1>3, <2>2
  <2>4. CASE DispatcherOcioso
    <3>1. pc' = pc /\ filaProntas' = filaProntas /\ pc[Dispatcher] = "laco"
      BY <2>4 DEF DispatcherOcioso, filas, maquina, Em
    <3> QED BY <2>1, <2>3, <3>1 DEF EsperaAVez
  <2>5. CASE DispatcherDespacha
    <3>1. /\ filaProntas \in Seq(Usuarias) /\ SemRepetir(filaProntas) /\ Escolhida \in ToSet(filaProntas)
          /\ filaProntas' = Retira(filaProntas, Escolhida) /\ tarefaPrevia' = Escolhida
      BY <2>5, DespachaRetira
    <3>2. ToSet(filaProntas') = ToSet(filaProntas) \ {Escolhida}
      BY <3>1, RetiraProps
    <3>3. pc[Dispatcher] = "laco" /\ pc'[Dispatcher] = "janela"
      BY <2>5 DEF DispatcherDespacha, Em, Vai, IInv, TypeOK
    <3>4. \A e \in UserTasks : Publicada(e) /\ e \notin rodou => e \in ToSet(filaProntas)
      BY <3>3 DEF EsperaAVez
    <3> QED BY <2>1, <2>3, <3>1, <3>2, <3>3, <3>4 DEF EsperaAVez
  <2>6. CASE DispatcherPronta
    <3>1. /\ filaProntas' = Append(filaProntas, tarefaPrevia) /\ filaProntas \in Seq(Usuarias)
          /\ pc[Dispatcher] = "retorno" /\ pc'[Dispatcher] = "laco"
      BY <2>6 DEF DispatcherPronta, Em, Vai, IInv, TypeOK
    <3>2. tarefaPrevia \in Usuarias
      BY <2>6, ProntaNoFim
    <3>3. ToSet(filaProntas') = ToSet(filaProntas) \cup {tarefaPrevia}
      BY <3>1, <3>2, AppendProps
    <3> QED BY <2>1, <2>3, <3>1, <3>3 DEF EsperaAVez
  <2> QED BY <1>5, <2>4, <2>5, <2>6 DEF MudaFila
<1>6. CASE ~DispatcherTroca /\ ~MudaFila /\ \A t \in Usuarias : ~CriaPublica(t)
  <2>1. /\ UNCHANGED <<filaProntas, tarefaPrevia, rodou>>
        /\ pc'[Dispatcher] = pc[Dispatcher] \/ (DispatcherRecolhe /\ pc'[Dispatcher] = "laco")
        /\ pc[Main] \in AntesDePublicar => pc'[Main] \in AntesDePublicar /\ alvo'[Main] = alvo[Main]
    BY <1>6, PassosSemVez
  <2>2. \A e \in UserTasks : Publicada(e)' => Publicada(e)
    BY <1>3, <2>1
  <2>3. DispatcherRecolhe => pc[Dispatcher] = "retorno"
    BY DEF DispatcherRecolhe, Em
  <2> QED BY <2>1, <2>2, <2>3 DEF EsperaAVez
<1> QED BY <1>2, <1>4, <1>5, <1>6

LEMMA EsperaPreserva ==
    ASSUME IInv, IInv', ProgramaInv, app \in UmaVez, EsperaAVez, [ANext]_avars,
           \A t \in Usuarias : ~FazCreateEmUso(t)
    PROVE  EsperaAVez'
BY EsperaNaChamada, EsperaIniciando, EsperaForaDasChamadas

\* Main's place in the queue when the queue and the priorities do not change.
LEMMA EsperaMesma ==
    ASSUME MainEspera, UNCHANGED <<filaProntas, tarefaPrevia, prioEstatica, prioDinamica>>, rodou \subseteq rodou'
    PROVE  MainEspera'
<1>1. PrioInicial' = PrioInicial
  BY DEF PrioInicial
<1>2. Atras(filaProntas, PrioInicial, rodou')
  BY DEF MainEspera, Atras
<1> QED BY <1>1, <1>2 DEF MainEspera

\* The dispatcher does not choose main before the tasks that have not run.
LEMMA EsperaDespacha ==
    ASSUME IInv, IInv', PreviaNoFim, MainEspera, DispatcherDespacha, rodou' = rodou,
           \A e \in UserTasks : e \in rodou \/ e \in ToSet(filaProntas)
    PROVE  UserTasks \subseteq rodou \/ MainEspera'
<1> USE Nomes
<1> DEFINE q == filaProntas
           r == Retira(q, Escolhida)
           k == CHOOSE x \in 1..Len(filaProntas) : Vence(x)
<1>1. /\ q \in Seq(Usuarias) /\ Len(q) \in Nat /\ filaProntas' = r /\ q # <<>> /\ SemRepetir(q)
      /\ tarefaPrevia' = Escolhida /\ prioDinamica' = PrioEnvelhecida /\ Escolhida \in ToSet(q)
      /\ PrioEnvelhecida \in [Tarefas -> Int]
  BY DespachaRetira, PrioridadesInteiras DEF IInv
<1>2. k \in 1..Len(q) /\ Vence(k) /\ Escolhida = q[k]
  BY <1>1, VencedorExiste DEF Escolhida
<1>3. \A i, j \in 1..Len(q) :
         q[i] = Main /\ q[j] \notin rodou \cup {Main} => j < i /\ PrioInicial[q[j]] <= PrioInicial[Main]
  BY DEF MainEspera, Atras
<1>4. \A i \in 1..Len(r), j \in 1..Len(r) :
         i < j => \E m, n \in 1..Len(q) : m < n /\ q[m] = r[i] /\ q[n] = r[j]
  BY DespachaRetira, RetiraOrdem
<1>5. ToSet(r) = ToSet(q) \ {Escolhida} /\ r \in Seq(Usuarias)
  BY DespachaRetira, RetiraProps
<1> HIDE DEF k
<1>6. ASSUME NEW i \in 1..Len(q), NEW j \in 1..Len(q), q[i] = Main, q[j] \notin rodou \cup {Main}
      PROVE  j < i /\ PrioEnvelhecida[q[j]] <= PrioEnvelhecida[Main]
  <2>1. j < i /\ PrioInicial[q[j]] <= PrioInicial[Main]
    BY <1>3, <1>6
  <2>2. j < Len(q)
    BY <1>1, <2>1
  <2>3. PrioEnvelhecida[q[j]] = PrioInicial[q[j]] - 1 /\ PrioInicial[q[j]] \in Int
    BY <2>2, EnvelheceNaFila
  <2>4. PrioEnvelhecida[q[i]] \in {PrioInicial[q[i]] - 1, PrioInicial[q[i]]} /\ PrioInicial[q[i]] \in Int
    BY EnvelheceNaFila
  <2> QED BY <1>6, <2>1, <2>3, <2>4
<1>7. CASE Escolhida = Main
  <2> SUFFICES ASSUME NEW e \in UserTasks, e \notin rodou PROVE FALSE
    OBVIOUS
  <2>1. PICK j \in 1..Len(q) : q[j] = e
    BY DEF ToSet
  <2>2. j < k /\ PrioEnvelhecida[q[j]] <= PrioEnvelhecida[q[k]]
    BY <1>2, <1>6, <1>7, <2>1
  <2>3. PrioEnvelhecida[q[k]] < PrioEnvelhecida[q[j]] \/ (PrioEnvelhecida[q[k]] = PrioEnvelhecida[q[j]] /\ k <= j)
    BY <1>2 DEF Vence
  <2>4. PrioEnvelhecida[q[k]] \in Int /\ PrioEnvelhecida[q[j]] \in Int
    <3>1. q[k] \in Tarefas /\ q[j] \in Tarefas
      BY <1>1, <1>2
    <3> QED BY <1>1, <3>1
  <2> QED BY <1>1, <1>2, <2>2, <2>3, <2>4
<1>8. CASE Escolhida # Main
  <2>1. \A x \in 1..Len(r) : PrioInicial'[r[x]] = PrioEnvelhecida[r[x]]
    <3> SUFFICES ASSUME NEW x \in 1..Len(r) PROVE PrioInicial'[r[x]] = PrioEnvelhecida[r[x]]
      OBVIOUS
    <3>1. r[x] \in ToSet(r) /\ r[x] \in Usuarias
      BY <1>5 DEF ToSet
    <3> HIDE DEF r
    <3> QED BY <1>1, <1>5, <3>1, PrioridadeDepois DEF IInv
  <2>2. Main \in ToSet(r)
    BY <1>5, <1>8 DEF MainEspera, Atras
  <2> HIDE DEF r, q
  <2>3. Len(r) \in Nat
    BY <1>5
  <2>4. ASSUME NEW i \in 1..Len(r), NEW j \in 1..Len(r), r[i] = Main, r[j] \notin rodou \cup {Main}
        PROVE  j < i /\ PrioEnvelhecida[r[j]] <= PrioEnvelhecida[Main]
    <3>1. i # j
      BY <2>4
    <3>2. CASE i < j
      <4>1. PICK m, n \in 1..Len(q) : m < n /\ q[m] = r[i] /\ q[n] = r[j]
        BY <1>4, <3>2
      <4>2. n < m
        BY <1>6, <2>4, <4>1
      <4> QED BY <1>1, <4>1, <4>2
    <3>3. CASE j < i
      <4>1. PICK m, n \in 1..Len(q) : m < n /\ q[m] = r[j] /\ q[n] = r[i]
        BY <1>4, <3>3
      <4>2. PrioEnvelhecida[q[m]] <= PrioEnvelhecida[Main]
        BY <1>6, <2>4, <4>1
      <4> QED BY <3>3, <4>1, <4>2
    <3> QED BY <2>3, <3>1, <3>2, <3>3
  <2>5. Atras(r, PrioInicial', rodou)
    <3> SUFFICES ASSUME NEW i \in 1..Len(r), NEW j \in 1..Len(r), r[i] = Main, r[j] \notin rodou \cup {Main}
                 PROVE  j < i /\ PrioInicial'[r[j]] <= PrioInicial'[Main]
      BY <2>2 DEF Atras
    <3>1. PrioInicial'[r[j]] = PrioEnvelhecida[r[j]] /\ PrioInicial'[r[i]] = PrioEnvelhecida[r[i]]
      BY <2>1
    <3> QED BY <2>4, <3>1
  <2> QED BY <1>1, <2>5 DEF MainEspera
<1> QED BY <1>7, <1>8

\* Main goes back to the end of the queue, and another task that has run does.
LEMMA EsperaPronta ==
    ASSUME IInv, IInv', PrioridadesIguais', EsperaAVez, MainEspera \/ MainCede, DispatcherPronta, rodou' = rodou
    PROVE  MainEspera'
<1> USE Nomes
<1> DEFINE q == filaProntas
           s == filaProntas'
<1>1. /\ tarefaPrevia' = tarefaPrevia /\ tarefaPrevia \in Usuarias /\ tarefaPrevia \notin ToSet(q)
      /\ Len(q) \in Nat /\ Len(s) = Len(q) + 1
      /\ \A i \in 1..Len(q) : s[i] = q[i]
      /\ s[Len(s)] = tarefaPrevia /\ UNCHANGED <<prioEstatica, prioDinamica>>
  BY ProntaNoFim
<1>2. tarefaPrevia \in rodou
  BY DEF EsperaAVez, DispatcherPronta, Em
<1>3. \A i \in 1..Len(q) : PrioInicial'[q[i]] = PrioInicial[q[i]]
  BY <1>1, PrioridadeMesma
<1>4. \A i \in 1..Len(s) : i \in 1..Len(q) \/ i = Len(s)
  BY <1>1
<1>5. filaProntas' \in Seq(Usuarias) /\ Len(s) \in Nat
  BY DEF IInv, TypeOK
<1> HIDE DEF q, s
<1>6. CASE MainCede
  <2>1. tarefaPrevia = Main
    BY <1>6 DEF MainCede
  <2>2. Main \in ToSet(s)
    BY <1>1, <2>1 DEF ToSet
  <2>3. PrioInicial'[Main] = 0
    BY <1>1, <2>1, PrioridadeDepois DEF IInv, PrioridadesIguais
  <2>4. ASSUME NEW i \in 1..Len(s), NEW j \in 1..Len(s), s[i] = Main, s[j] \notin rodou \cup {Main}
        PROVE  j < i /\ PrioInicial'[s[j]] <= PrioInicial'[Main]
    <3>1. i = Len(s)
      BY <1>1, <1>4, <2>1, <2>4 DEF ToSet
    <3>2. j < i
      BY <1>5, <2>4, <3>1
    <3>3. s[j] \in Usuarias /\ s[j] # tarefaPrevia
      BY <1>5, <2>1, <2>4 DEF s
    <3>4. PrioInicial'[s[j]] = prioDinamica'[s[j]]
      BY <1>1, <3>3, PrioridadeDepois DEF IInv
    <3>5. prioDinamica'[s[j]] <= 0
      BY <3>3 DEF PrioridadesIguais
    <3> QED BY <2>3, <3>2, <3>4, <3>5
  <2> QED BY <2>2, <2>4 DEF MainEspera, Atras, s
<1>7. CASE MainEspera
  <2>1. Atras(q, PrioInicial, rodou)
    BY <1>7 DEF MainEspera, q
  <2>2. PICK m \in 1..Len(q) : q[m] = Main
    BY <2>1 DEF Atras, ToSet
  <2>3. m \in 1..Len(s) /\ s[m] = Main /\ PrioInicial'[Main] = PrioInicial[Main]
    BY <1>1, <1>3, <2>2
  <2>4. Main \in ToSet(s) /\ tarefaPrevia # Main
    BY <1>1, <2>2, <2>3 DEF ToSet
  <2>5. ASSUME NEW i \in 1..Len(s), NEW j \in 1..Len(s), s[i] = Main, s[j] \notin rodou \cup {Main}
        PROVE  j < i /\ PrioInicial'[s[j]] <= PrioInicial'[Main]
    <3>1. i \in 1..Len(q) /\ j \in 1..Len(q)
      BY <1>1, <1>2, <1>4, <2>4, <2>5
    <3>2. q[i] = Main /\ q[j] = s[j]
      BY <1>1, <2>5, <3>1
    <3>3. j < i /\ PrioInicial[q[j]] <= PrioInicial[Main]
      BY <2>1, <2>5, <3>1, <3>2 DEF Atras
    <3>4. PrioInicial'[q[j]] = PrioInicial[q[j]]
      BY <1>3, <3>1
    <3> QED BY <2>3, <3>2, <3>3, <3>4
  <2> QED BY <2>4, <2>5 DEF MainEspera, Atras, s
<1> QED BY <1>6, <1>7

\* Main is at its exit only when all have run.
LEMMA FimComTodas ==
    ASSUME IInv, ProgramaInv, app \in UmaVez, VezDeMain, NEW t \in Usuarias, FazFim(t)
    PROVE  UserTasks \subseteq rodou
<1>1. Chamada(t) /\ ~FazCreateEmUso(t) /\ ~FazCreate(t) /\ ~FazYield(t) /\ ~FazExit(t)
  BY DEF Chamada, FazCreate, FazCreateEmUso, FazYield, FazExit, FazFim, Faz
<1>2. t = Main /\ linha[Main] = N + 2
  BY <1>1, ChamadaUmaVez
<1>3. cpu = Main /\ pc[Main] = "livre" /\ FaseUsuario /\ tarefaPrevia = Main
  BY <1>1, <1>2, EfeitoDaChamada
<1>4. linha[Main] > N + 1
  BY <1>2, NumeroDeTarefas
<1>5. ~MainCede
  BY <1>3, Nomes DEF MainCede
<1>6. ~MainEspera
  BY <1>3 DEF MainEspera, Atras, FaseUsuario, Despachada
<1> QED BY <1>4, <1>5, <1>6 DEF VezDeMain

LEMMA VezNaChamada ==
    ASSUME IInv, ProgramaInv, app \in UmaVez, VezDeMain, NEW t \in Usuarias, Chamada(t), ~FazCreateEmUso(t),
           linha'[Main] > N + 1
    PROVE  UserTasks \subseteq rodou' \/ MainCede' \/ MainEspera'
<1> USE Nomes
<1>1. /\ cpu = t /\ tarefaPrevia = t /\ FaseUsuario
      /\ pc'[t] = IF FazCreate(t) THEN "gravaId" ELSE IF FazFim(t) THEN "livre" ELSE "troca"
      /\ pc'[Dispatcher] = pc[Dispatcher]
      /\ linha'[Main] = IF t = Main THEN linha[Main] + 1 ELSE linha[Main]
      /\ UNCHANGED <<filaProntas, tarefaPrevia, prioEstatica, prioDinamica, rodou>>
  BY EfeitoDaChamada
<1>2. CASE t # Main
  <2>1. ~MainCede
    BY <1>1, <1>2 DEF MainCede
  <2>2. MainEspera => MainEspera'
    BY <1>1, EsperaMesma
  <2> QED BY <1>1, <1>2, <2>1, <2>2 DEF VezDeMain
<1>3. CASE t = Main /\ FazFim(t)
  BY <1>1, <1>3, FimComTodas
<1>4. CASE t = Main /\ ~FazFim(t)
  <2>1. ~FazCreate(t)
    <3> SUFFICES ASSUME FazCreate(t) PROVE FALSE
      OBVIOUS
    <3>1. ~FazYield(t) /\ ~FazExit(t) /\ ~FazFim(t)
      BY DEF FazCreate, FazYield, FazExit, FazFim, Faz
    <3>2. linha[Main] \in 1..N /\ N \in Nat
      BY <3>1, ChamadaUmaVez, NumeroDeTarefas
    <3> QED BY <1>1, <1>4, <3>2
  <2>2. pc'[Main] = "troca" /\ tarefaPrevia' = Main /\ pc'[Dispatcher] = "retorno"
    BY <1>1, <1>4, <2>1 DEF FaseUsuario
  <2> QED BY <2>2 DEF MainCede
<1> QED BY <1>2, <1>3, <1>4

\* Main, while it gives the processor up, and the other steps.
LEMMA CedeMantem ==
    ASSUME IInv, ProgramaInv, [ANext]_avars, ~DispatcherTroca, ~MudaFila, status[Main] = PRONTA,
           \A t \in Usuarias : ~Chamada(t) /\ ~Inicia(t) /\ ~CriaPublica(t), MainCede
    PROVE  MainCede'
<1> USE Nomes
<1>1. pc[Dispatcher] = "retorno" /\ tarefaPrevia = Main /\ (cpu = Dispatcher \/ pc[Main] = "troca")
  BY DEF MainCede
<1>2. pc'[Dispatcher] = "retorno" /\ tarefaPrevia' = Main
  <2>1. ~DispatcherRecolhe
    BY <1>1 DEF DispatcherRecolhe, PRONTA, TERMINADA
  <2> QED BY <1>1, <2>1, PassosSemVez
<1>3. FaseRetorno \/ FaseUsuario
  BY <1>1 DEF IInv, Fases, FaseBoot, FaseLaco, FaseJanela
<1>4. pc[Main] # "boot" /\ ~Despacha
  <2>1. pc[Main] # "boot"
    BY <1>3 DEF FaseRetorno, FaseUsuario, Despachada
  <2>2. ~DispatcherRecolhe /\ ~DispatcherFim
    BY <1>1 DEF DispatcherRecolhe, DispatcherFim, Em, PRONTA, TERMINADA
  <2> QED BY <2>1, <2>2 DEF Despacha, DispatcherNext, MudaFila
<1>5. CASE FaseRetorno
  <2>1. cpu = Dispatcher /\ id[tarefaAtual] = 1
    BY <1>5 DEF FaseRetorno, IInv, Relogio
  <2>2. ~Systick /\ ~PposInit /\ \A t \in Usuarias : ~Continua(t) \/ UNCHANGED cpu
    <3>1. ~Systick /\ ~PposInit
      BY <1>4, <2>1 DEF Systick, PposInit, Em
    <3>2. ASSUME NEW t \in Usuarias, Continua(t) PROVE FALSE
      BY <2>1, <3>2 DEF Continua, ChamadaNext, CriaGravaId, CriaInicia, CriaSemMemoria, CriaPublica, CriaLeCont,
                CriaGravaCont, GravaPrioDinamica, GravaPrioEstatica, Troca, Em
    <3> QED BY <3>1, <3>2
  <2>3. cpu' = Dispatcher
    BY <1>4, <2>1, <2>2 DEF ANext, Entra, Tick, Encerrado, avars, vars, maquina
  <2> QED BY <1>2, <2>3 DEF MainCede
<1>6. CASE FaseUsuario
  <2>1. cpu = Main /\ pc[Main] = "troca" /\ contexto[Dispatcher] = Dispatcher
    BY <1>1, <1>6 DEF FaseUsuario, IInv, Contextos
  <2>2. ASSUME NEW t \in Usuarias, Continua(t) PROVE cpu' = Dispatcher
    <3>1. Troca(t)
      BY <2>1, <2>2 DEF Continua, ChamadaNext, CriaGravaId, CriaInicia, CriaSemMemoria, CriaPublica, CriaLeCont,
                CriaGravaCont, GravaPrioDinamica, GravaPrioEstatica, Troca, Em
    <3> QED BY <2>1, <3>1 DEF Troca, TrocaParaDispatcher
  <2>3. CASE Systick
    <3>1. pc' = pc /\ (cpu' = cpu \/ cpu' = Dispatcher)
      BY <2>1, <2>3 DEF Systick, TickDecrementa, TickPreempta, TrocaParaDispatcher
    <3> QED BY <1>2, <2>1, <3>1 DEF MainCede
  <2>4. CASE UNCHANGED avars
    BY <1>2, <2>1, <2>4 DEF MainCede, avars, vars, maquina
  <2>5. ~PposInit
    BY <1>4 DEF PposInit, Em
  <2> QED BY <1>2, <1>4, <2>2, <2>3, <2>4, <2>5 DEF MainCede, ANext, Entra, Tick, Encerrado
<1> QED BY <1>3, <1>5, <1>6

LEMMA VezDeMainPreserva ==
    ASSUME IInv, IInv', ProgramaInv, app \in UmaVez, PreviaNoFim, PrioridadesIguais, PrioridadesIguais', MainCria,
           EsperaAVez, VezDeMain, [ANext]_avars, \A t \in Usuarias : ~FazCreateEmUso(t)
    PROVE  VezDeMain'
<1> USE Nomes
<1> SUFFICES ASSUME linha'[Main] > N' + 1 PROVE UserTasks \subseteq rodou' \/ MainCede' \/ MainEspera'
  BY DEF VezDeMain
<1>1. N' = N /\ linha'[Main] > N + 1
  BY DEF N
<1>2. ASSUME NEW t \in Usuarias, Chamada(t) PROVE UserTasks \subseteq rodou' \/ MainCede' \/ MainEspera'
  BY <1>1, <1>2, VezNaChamada
<1>3. CASE \A t \in Usuarias : ~Chamada(t)
  <2>1. linha[Main] > N + 1 /\ [Next]_vars
    BY <1>1, <1>3, ForaDasChamadas, PassoDoNucleo
  <2>2. pc[Main] \notin Criando \cup Gravando
    <3>1. linha[Main] \in Nat /\ N \in Nat
      BY NumeroDeTarefas DEF ProgramaInv
    <3> QED BY <2>1, <3>1 DEF MainCria
  <2>3. UserTasks \subseteq rodou \/ MainCede \/ MainEspera
    BY <2>1 DEF VezDeMain
  <2>4. \A t \in Usuarias : pc[t] \notin Criando \cup Gravando
    BY <2>2 DEF ProgramaInv, PrioridadesIguais, Usuarias
  <2>5. \A t \in Usuarias : ~Inicia(t) /\ ~CriaPublica(t) /\ ~MudaOrdem(t)
    BY <2>4, Lugares DEF Inicia, CriaInicia, CriaPublica, MudaOrdem, GravaPrioDinamica, GravaPrioEstatica, Em, Gravando
  <2>6. CASE DispatcherTroca
    <3>1. pc[Dispatcher] = "janela" /\ ~MudaFila
      BY <2>6 DEF DispatcherTroca, MudaFila, DispatcherOcioso, DispatcherDespacha, DispatcherPronta, Em
    <3>2. UNCHANGED <<filaProntas, tarefaPrevia, prioEstatica, prioDinamica>>
      BY <2>1, <2>5, <3>1, MesmaFila
    <3>3. rodou \subseteq rodou'
      BY <1>3, <2>5 DEF ANext, Continua, Entra, Despacha, Tick, Encerrado, avars
    <3>4. ~MainCede
      BY <3>1 DEF MainCede
    <3> QED BY <2>3, <3>2, <3>3, <3>4, EsperaMesma
  <2>7. CASE MudaFila
    <3>1. rodou' = rodou
      <4>1. pc[Dispatcher] # "janela"
        BY <2>7 DEF MudaFila, DispatcherOcioso, DispatcherDespacha, DispatcherPronta, Em
      <4>2. ~Entra
        BY <4>1 DEF Entra, DispatcherTroca, Em
      <4> QED BY <1>3, <2>5, <4>2 DEF ANext, Continua, Despacha, Tick, Encerrado, avars
    <3>2. CASE DispatcherOcioso
      <4>1. pc[Dispatcher] = "laco" /\ filaProntas = <<>>
        BY <3>2 DEF DispatcherOcioso, Em
      <4>2. ~MainCede /\ ~MainEspera
        BY <4>1 DEF MainCede, MainEspera, Atras, ToSet
      <4> QED BY <2>3, <3>1, <4>2
    <3>3. CASE DispatcherDespacha
      <4>1. pc[Dispatcher] = "laco"
        BY <3>3 DEF DispatcherDespacha, Em
      <4>2. \A e \in UserTasks : e \in rodou \/ e \in ToSet(filaProntas)
        <5> SUFFICES ASSUME NEW e \in UserTasks, e \notin rodou PROVE e \in ToSet(filaProntas)
          OBVIOUS
        <5>1. e \in 1..N /\ N \in Nat /\ linha[Main] \in Nat
          BY NumeroDeTarefas DEF ProgramaInv
        <5>2. Publicada(e)
          BY <2>1, <2>2, <5>1, Lugares DEF Publicada, AntesDePublicar
        <5> QED BY <4>1, <5>2 DEF EsperaAVez
      <4>3. ~MainCede
        BY <4>1 DEF MainCede
      <4> QED BY <2>3, <3>1, <3>3, <4>2, <4>3, EsperaDespacha
    <3>4. CASE DispatcherPronta
      BY <2>3, <3>1, <3>4, EsperaPronta
    <3> QED BY <2>7, <3>2, <3>3, <3>4 DEF MudaFila
  <2>8. CASE ~DispatcherTroca /\ ~MudaFila
    <3>1. UNCHANGED <<filaProntas, tarefaPrevia, prioEstatica, prioDinamica>> /\ rodou' = rodou
      BY <1>3, <2>1, <2>5, <2>8, MesmaFila, PassosSemVez
    <3>2. MainEspera => MainEspera'
      BY <3>1, EsperaMesma
    <3>3. MainCede => MainCede'
      BY <1>3, <2>5, <2>8, CedeMantem DEF MainCria
    <3> QED BY <2>3, <3>1, <3>2, <3>3
  <2> QED BY <2>6, <2>7, <2>8
<1> QED BY <1>2, <1>3

LEMMA EncerradoFica ==
    ASSUME [ANext]_avars, saida # "nenhuma"
    PROVE  UNCHANGED avars
BY DEF ANext, Encerrado, Chamada, FazCreate, FazCreateEmUso, FazSetprio, FazSwitch, FazYield, FazExit, FazFim,
       Faz, Inicia, CriaInicia, Continua, ChamadaNext, CriaGravaId, CriaSemMemoria, CriaPublica, CriaLeCont,
       CriaGravaCont, GravaPrioDinamica, GravaPrioEstatica, Troca, Entra, Despacha, DispatcherNext,
       DispatcherFim, DispatcherOcioso, DispatcherDespacha, DispatcherTroca, DispatcherPronta,
       DispatcherRecolhe, Tick, Systick, PposInit, Em

\* Only a call of exit ends the process by exit.
LEMMA SoFimSai ==
    ASSUME IInv, [ANext]_avars, saida' = "exit", saida # "exit", \A t \in Usuarias : ~FazFim(t)
    PROVE  FALSE
<1>1. ASSUME NEW t \in Usuarias, Chamada(t) PROVE FALSE
  <2>1. CASE FazCreateEmUso(t)
    BY <2>1 DEF FazCreateEmUso, MausFins
  <2>2. CASE FazCreate(t) \/ FazSetprio(t) \/ FazSwitch(t) \/ FazYield(t) \/ FazExit(t)
    BY <2>2 DEF FazCreate, CriaLeId, FazSetprio, Setprio, FazSwitch, TaskSwitch, FazYield, TaskYield, FazExit,
                TaskExit, vars
  <2> QED BY <1>1, <2>1, <2>2 DEF Chamada
<1>2. ASSUME NEW t \in Usuarias, Inicia(t) \/ Continua(t) PROVE FALSE
  BY <1>2 DEF Inicia, CriaInicia, Continua, ChamadaNext, CriaGravaId, CriaSemMemoria, CriaPublica, CriaLeCont,
       CriaGravaCont, GravaPrioDinamica, GravaPrioEstatica, Troca
<1> QED BY <1>1, <1>2 DEF ANext, Encerrado, Entra, Despacha, DispatcherNext,
       DispatcherFim, DispatcherOcioso, DispatcherDespacha, DispatcherTroca, DispatcherPronta,
       DispatcherRecolhe, Tick, Systick, PposInit, avars, vars

LEMMA VezPreserva ==
    ASSUME IInv, IInv', ProgramaInv, PreviaNoFim, VezInv, [ANext]_avars, \A t \in Usuarias : ~FazCreateEmUso(t)
    PROVE  VezInv'
<1> SUFFICES ASSUME app' \in UmaVez
             PROVE  /\ PrioridadesIguais' /\ MainCria' /\ EsperaAVez' /\ VezDeMain'
                    /\ saida' = "exit" => UserTasks \subseteq rodou'
  BY DEF VezInv, UmaVez, MesmaPrioridade
<1>1. app' = app
  BY DEF ANext, Chamada, FazCreate, FazCreateEmUso, FazSetprio, FazSwitch, FazYield, FazExit, FazFim, Faz,
         Inicia, Continua, Entra, Despacha, Tick, Encerrado, avars
<1>2. app \in UmaVez /\ PrioridadesIguais /\ MainCria /\ EsperaAVez /\ VezDeMain
      /\ (saida = "exit" => UserTasks \subseteq rodou)
  BY <1>1 DEF VezInv
<1>3. PrioridadesIguais' /\ MainCria' /\ EsperaAVez'
  BY <1>2, IguaisPreserva, MainCriaPreserva, EsperaPreserva
<1>4. VezDeMain'
  BY <1>2, <1>3, VezDeMainPreserva
<1>5. ASSUME saida' = "exit" PROVE UserTasks \subseteq rodou'
  <2>1. CASE saida = "exit"
    <3>1. rodou' = rodou
      BY <2>1, EncerradoFica DEF avars
    <3> QED BY <1>2, <2>1, <3>1
  <2>2. CASE saida # "exit"
    <3>1. PICK t \in Usuarias : FazFim(t)
      BY <1>5, <2>2, SoFimSai
    <3>2. rodou' = rodou
      BY <3>1 DEF FazFim, Faz
    <3> QED BY <1>2, <3>1, <3>2, FimComTodas
  <2> QED BY <2>1, <2>2
<1> QED BY <1>3, <1>4, <1>5

-----------------------------------------------------------------------------
\* The invariant of the applications.
LEMMA AInitInv == ASSUME AInit PROVE Aplicadas
<1> USE Nomes
<1>1. IInv /\ Init
  BY InitInv DEF AInit
<1>2. \A t \in Usuarias : pc[t] = IF t = Main THEN "boot" ELSE "livre"
  BY <1>1 DEF Init
<1>3. ProgramaInv
  BY <1>2, Lugares DEF AInit, ProgramaInv, Gravando
<1>4. filaProntas = <<Main>> /\ tarefaPrevia = NULL /\ Main # NULL
  BY <1>1 DEF Init
<1>5. PreviaNoFim
  BY <1>4 DEF PreviaNoFim
<1>6. \A t \in Usuarias : ~NoMeio(t)
  <2> SUFFICES ASSUME NEW t \in Usuarias, NoMeio(t) PROVE FALSE
    OBVIOUS
  <2>1. t \in UserTasks /\ linha[t] = 1 /\ app \in Apps
    BY <1>2 DEF NoMeio, LugaresCont, AInit, Usuarias
  <2> QED BY <1>2, <2>1, SetprioDosProgramas DEF NoMeio, Proxima, LugaresCont
<1>7. Vivas = {Main} /\ prioEstatica[Main] = 0 /\ pedida[Main] = 0
  BY <1>1, <1>4 DEF AInit, Init, Vivas, ToSet
<1>8. PedidaInv
  BY <1>2, <1>6, <1>7, Lugares DEF PedidaInv, MeioNaCpu, PrioridadePedida, Gravando
<1>9. Foco = {} /\ Len(filaProntas) = 1 /\ filaProntas[1] = Main
  BY <1>4, <1>6 DEF Foco
<1>10. PrioInicial[Main] = 0 /\ prioEstatica[Main] = 0
  BY <1>1, <1>4 DEF Init, PrioInicial
<1>11. OrdemInv
  BY <1>2, <1>9, <1>10 DEF OrdemInv, EmOrdem, Ordenada
<1>12. \A t \in Tarefas : prioEstatica[t] = 0 /\ prioDinamica[t] = 0 /\ status[t] = PRONTA
  BY <1>1 DEF Init
<1>13. pc[Main] = "boot" /\ pc[Dispatcher] = "laco" /\ linha[Main] = 1 /\ saida = "nenhuma"
  BY <1>1 DEF Init, AInit
<1>14. PrioridadesIguais /\ MainCria
  BY <1>2, <1>12, <1>13, Lugares DEF PrioridadesIguais, MainCria, Gravando
<1>15. EsperaAVez /\ VezDeMain
  <2>1. \A e \in UserTasks : ~Publicada(e)
    BY <1>13, NumeroDeTarefas DEF Publicada
  <2>2. ~(linha[Main] > N + 1)
    BY <1>13, NumeroDeTarefas
  <2> QED BY <1>13, <2>1, <2>2 DEF EsperaAVez, VezDeMain
<1>16. VezInv
  BY <1>13, <1>14, <1>15 DEF VezInv
<1> QED BY <1>1, <1>3, <1>5, <1>8, <1>11, <1>16 DEF Aplicadas

LEMMA AplicadasPreserva ==
    ASSUME Aplicadas, [ANext]_avars, \A t \in Usuarias : ~FazCreateEmUso(t)
    PROVE  Aplicadas'
<1>1. [Next]_vars /\ IInv' /\ ProgramaInv'
  BY PassoDoNucleo, NextInv, ProgramaPreserva DEF Aplicadas
<1> QED BY <1>1, PedidaPreserva, PreviaPreserva, OrdemPreserva, VezPreserva DEF Aplicadas

LEMMA ANextInv == AInv /\ [ANext]_avars => AInv'
<1> SUFFICES ASSUME AInv, [ANext]_avars PROVE AInv'
  OBVIOUS
<1>1. CASE saida \in MausFins
  <2>1. UNCHANGED avars
    BY <1>1, EncerradoFica DEF MausFins
  <2>2. PrioridadePedida' = PrioridadePedida /\ saida' \in MausFins
    BY <1>1, <2>1 DEF avars, vars, filas, tcb, maquina, PrioridadePedida, EmMudanca, Vivas
  <2> QED BY <2>2 DEF AInv
<1>2. CASE saida \notin MausFins /\ \A t \in Usuarias : ~FazCreateEmUso(t)
  <2>1. Aplicadas'
    BY <1>2, AplicadasPreserva DEF AInv
  <2>2. PrioridadePedida'
    BY <2>1 DEF Aplicadas, PedidaInv, PrioridadePedida
  <2> QED BY <2>1, <2>2 DEF AInv
<1>3. ASSUME NEW t \in Usuarias, FazCreateEmUso(t) PROVE AInv'
  <2>1. saida' \in MausFins /\ UNCHANGED <<filas, tcb, maquina, pedida, cortou>>
    BY <1>3 DEF FazCreateEmUso, Faz
  <2>2. PrioridadePedida' = PrioridadePedida
    BY <2>1 DEF filas, tcb, maquina, PrioridadePedida, EmMudanca, Vivas
  <2> QED BY <2>1, <2>2 DEF AInv
<1> QED BY <1>1, <1>2, <1>3

\* In every run of every application, on any number of tasks: the kernel's states
\* are those of IInv, each task is where its program is, the one that sets
\* priorities has the processor, and the ready queue is in the order of the static
\* priorities; until a task is created in a descriptor in use.
THEOREM AplicacaoInvariante == ASpec => []AInv
<1>1. AInit => AInv
  BY AInitInv DEF AInv, Aplicadas, PedidaInv, PrioridadePedida
<1> QED BY <1>1, ANextInv, PTL DEF ASpec

\* However many tasks there are, and wherever preemptions fall but between the
\* publication of a task and the last store to its priorities, the static priority
\* of a task is the last one its creator or itself has asked task_setprio for.
THEOREM PrioridadeSemprePedida == ASpec => []PrioridadePedida
<1>1. AInv => PrioridadePedida
  BY DEF AInv
<1> QED BY <1>1, AplicacaoInvariante, PTL

\* With the same exception, scheduler() never chooses a task that is in filaProntas
\* after one whose static priority is as good, whatever the two have aged.
THEOREM SempreSemUltrapassagem == ASpec => SemUltrapassagem
<1> DEFINE Ordem == DispatcherDespacha /\ ~cortou =>
                       \A i, j \in 1..Len(filaProntas) :
                           i < j /\ filaProntas[j] = tarefaPrevia' =>
                               prioEstatica[filaProntas[i]] > prioEstatica[filaProntas[j]]
<1>1. AInv => Ordem
  <2> SUFFICES ASSUME AInv, DispatcherDespacha, ~cortou,
                      NEW i \in 1..Len(filaProntas), NEW j \in 1..Len(filaProntas),
                      i < j, filaProntas[j] = tarefaPrevia'
               PROVE  prioEstatica[filaProntas[i]] > prioEstatica[filaProntas[j]]
    OBVIOUS
  <2>1. cpu = Dispatcher /\ saida = "nenhuma"
    BY DEF DispatcherDespacha, Em
  <2>2. IInv /\ PreviaNoFim /\ EmOrdem /\ MeioNaCpu
    BY <2>1 DEF AInv, MausFins, Aplicadas, OrdemInv, PedidaInv
  <2>3. Foco = {}
    BY <2>1, <2>2, FocoVazio, Nomes
  <2>4. Ordenada(filaProntas, {}, PrioInicial, prioEstatica)
    BY <2>2, <2>3 DEF EmOrdem
  <2> QED BY <2>2, <2>4, EscolheEmOrdem
<1>2. AInv => [Ordem]_avars
  BY <1>1
<1> QED BY <1>2, AplicacaoInvariante, PTL DEF SemUltrapassagem

\* Where all have the same priority, ageing and preemptions do not let main reach
\* its exit, after one task_yield, before every task it has created has run.
THEOREM TodasSempreTiveramVez == ASpec => []TodasTiveramVez
<1>1. AInv => TodasTiveramVez
  BY DEF AInv, MausFins, Aplicadas, VezInv, UmaVez, TodasTiveramVez
<1> QED BY <1>1, AplicacaoInvariante, PTL

=============================================================================
