--------------------------- MODULE LeitoresProof ---------------------------
(***************************************************************************)
(* The readers and writers of module Leitores, for any numbers of them and *)
(* in the three programs: what semEscritor, usando and querUsar count.     *)
(***************************************************************************)
EXTENDS Leitores, Contagem

\* Where a thread can be.
Lugares ==
    {"inicio", "quer", "pede", "escreve", "sai", "larga", "posta", "dorme", "passa",
     "espera", "primeiro", "entra", "conta", "le", "desconta", "testa"}

\* Lugar is where a reader is, with one more place: the reader that has brought
\* usando to zero, and did not test it yet, still has the semaphore.
Onde(p, valor) == IF p = "testa" /\ valor = 0 THEN "ultimo" ELSE p
Lugar == [r \in Leitores |-> Onde(pc[r], reg[r])]

\* The writers that have the semaphore and those that asked for it; the readers
\* that usando counts, and those that have the semaphore and are not counted.
Dono == {"escreve", "sai", "larga", "posta"}
Pediu == {"pede", "escreve", "sai", "larga"}
Contado == {"le", "sai", "desconta"}
Esperou == {"primeiro"}
Entrando == {"conta"}
Ultimo == {"ultimo"}

\* How many of each.
Dentro == Quantos(pc, Escritores, Dono)
Querendo == Quantos(pc, Escritores, Pediu)
NaLista == Quantos(Lugar, Leitores, Contado)
Primeiros == Quantos(Lugar, Leitores, Esperou)
Chegando == Quantos(Lugar, Leitores, Entrando)
NaoLargou == Quantos(Lugar, Leitores, Ultimo)

\* The types, races included.
Tipos ==
    /\ variante \in {"igual", "leitor", "escritor"} /\ variante \in Variantes
    /\ semEscritor \in Nat /\ usando \in Int /\ querUsar \in Int
    /\ fila \in 0..LIMITE /\ erro \in {"nao", "segv"}
    /\ pc \in [Threads -> Lugares] /\ reg \in [Threads -> Int]
    /\ corrida \in BOOLEAN /\ perdeu \in BOOLEAN

\* Where everybody is equal the semaphore has one owner.
Iguais ==
    variante = "igual" =>
        /\ \A r \in Leitores : pc[r] \in {"inicio", "le", "sai"}
        /\ usando = 0
        /\ semEscritor + Dentro + NaLista = 1

\* With priorities usando counts the readers on the list; at zero, the
\* semaphore may be in the hands of the reader that arrives or of the one that
\* leaves last.
Prioridades ==
    ~corrida /\ variante # "igual" =>
        /\ usando = NaLista
        /\ IF usando = 0
             THEN semEscritor + Dentro + Primeiros + Chegando + NaoLargou = 1
             ELSE semEscritor + Dentro + Primeiros + NaoLargou = 0

\* What a reader has loaded of usando is what usando is.
RegLeitores ==
    ~corrida =>
        \A r \in Leitores : /\ reg[r] \in 0..Cardinality(Leitores)
                            /\ pc[r] \in {"conta", "desconta"} => reg[r] = usando

\* querUsar counts the writers that asked.
Pedidos ==
    /\ variante # "escritor" => \A w \in Escritores : pc[w] \in {"inicio", "escreve", "sai"}
    /\ ~perdeu =>
        /\ querUsar = IF variante = "escritor" THEN Querendo ELSE 0
        /\ \A w \in Escritores : /\ reg[w] \in 0..Cardinality(Escritores)
                                 /\ pc[w] \in Contando => reg[w] = querUsar

\* The inductive invariant.
LInv == Tipos /\ Iguais /\ Prioridades /\ RegLeitores /\ Pedidos

-----------------------------------------------------------------------------
\* The counts.

LEMMA Finitos ==
    /\ IsFiniteSet(Escritores) /\ IsFiniteSet(Leitores)
    /\ Cardinality(Escritores) \in Nat /\ Cardinality(Leitores) \in Nat
  BY ConstantesAssumption, FS_CardinalityType

LEMMA ContasNaturais ==
    /\ Dentro \in Nat /\ Querendo \in Nat /\ NaLista \in Nat
    /\ Primeiros \in Nat /\ Chegando \in Nat /\ NaoLargou \in Nat
    /\ Querendo <= Cardinality(Escritores) /\ NaLista <= Cardinality(Leitores)
  BY Finitos, QuantosNatural DEF Dentro, Querendo, NaLista, Primeiros, Chegando, NaoLargou

LEMMA ContasDepois ==
    /\ Dentro' \in Nat /\ Querendo' \in Nat /\ NaLista' \in Nat
    /\ Primeiros' \in Nat /\ Chegando' \in Nat /\ NaoLargou' \in Nat
    /\ Querendo' <= Cardinality(Escritores) /\ NaLista' <= Cardinality(Leitores)
  BY Finitos, QuantosNatural DEF Dentro, Querendo, NaLista, Primeiros, Chegando, NaoLargou

\* A writer moves: the readers' counts stay.
LEMMA ContasEscritor ==
    ASSUME Tipos, NEW t \in Escritores, NEW de, NEW para, Passa(t, de, para),
           \A r \in Leitores : reg'[r] = reg[r]
    PROVE  /\ Muda(Dentro, Dentro', de \in Dono, para \in Dono)
           /\ Muda(Querendo, Querendo', de \in Pediu, para \in Pediu)
           /\ NaLista' = NaLista /\ Primeiros' = Primeiros
           /\ Chegando' = Chegando /\ NaoLargou' = NaoLargou
           /\ \A r \in Leitores : pc'[r] = pc[r]
           /\ \A w \in Escritores : pc'[w] = IF w = t THEN para ELSE pc[w]
<1>1. /\ pc[t] = de /\ Movido(pc, pc', Escritores, t, para)
      /\ \A r \in Leitores : pc'[r] = pc[r]
      /\ \A w \in Escritores : pc'[w] = IF w = t THEN para ELSE pc[w]
  BY ConstantesAssumption DEF Passa, Movido, Tipos, Threads
<1>2. Lugar' = Lugar
  BY <1>1 DEF Lugar
<1>3. Muda(Dentro, Dentro', t \in Escritores /\ pc[t] \in Dono, t \in Escritores /\ para \in Dono)
  BY <1>1, Finitos, QuantosMuda DEF Dentro
<1>4. Muda(Querendo, Querendo', t \in Escritores /\ pc[t] \in Pediu,
           t \in Escritores /\ para \in Pediu)
  BY <1>1, Finitos, QuantosMuda DEF Querendo
<1>5. /\ NaLista' = NaLista /\ Primeiros' = Primeiros
      /\ Chegando' = Chegando /\ NaoLargou' = NaoLargou
  BY <1>2 DEF NaLista, Primeiros, Chegando, NaoLargou, Quantos
<1> QED BY <1>1, <1>3, <1>4, <1>5 DEF Muda

\* A reader moves: the writers' counts stay.
LEMMA ContasLeitor ==
    ASSUME Tipos, NEW t \in Leitores, NEW de, NEW para, Passa(t, de, para),
           NEW valor, Movido(reg, reg', Threads, t, valor)
    PROVE  /\ Muda(NaLista, NaLista', Onde(de, reg[t]) \in Contado, Onde(para, valor) \in Contado)
           /\ Muda(Primeiros, Primeiros', Onde(de, reg[t]) \in Esperou,
                   Onde(para, valor) \in Esperou)
           /\ Muda(Chegando, Chegando', Onde(de, reg[t]) \in Entrando,
                   Onde(para, valor) \in Entrando)
           /\ Muda(NaoLargou, NaoLargou', Onde(de, reg[t]) \in Ultimo, Onde(para, valor) \in Ultimo)
           /\ Dentro' = Dentro /\ Querendo' = Querendo
           /\ \A r \in Leitores : pc'[r] = IF r = t THEN para ELSE pc[r]
           /\ \A w \in Escritores : pc'[w] = pc[w] /\ reg'[w] = reg[w]
<1>1. /\ pc[t] = de
      /\ \A r \in Leitores : pc'[r] = IF r = t THEN para ELSE pc[r]
      /\ \A r \in Leitores : reg'[r] = IF r = t THEN valor ELSE reg[r]
      /\ \A w \in Escritores : pc'[w] = pc[w] /\ reg'[w] = reg[w]
  BY ConstantesAssumption DEF Passa, Tipos, Threads, Movido
<1>2. Lugar[t] = Onde(de, reg[t]) /\ Movido(Lugar, Lugar', Leitores, t, Onde(para, valor))
  BY <1>1 DEF Lugar, Movido
<1>3. ASSUME NEW L
      PROVE  Muda(Quantos(Lugar, Leitores, L), Quantos(Lugar, Leitores, L)',
                  Onde(de, reg[t]) \in L, Onde(para, valor) \in L)
  <2>1. ASSUME NEW f, NEW g, Movido(f, g, Leitores, t, Onde(para, valor))
        PROVE  Muda(Quantos(f, Leitores, L), Quantos(g, Leitores, L),
                    t \in Leitores /\ f[t] \in L, t \in Leitores /\ Onde(para, valor) \in L)
    BY <2>1, Finitos, QuantosMuda
  <2> QED BY <1>2, <2>1
<1>4. /\ Muda(NaLista, NaLista', Onde(de, reg[t]) \in Contado, Onde(para, valor) \in Contado)
      /\ Muda(Primeiros, Primeiros', Onde(de, reg[t]) \in Esperou,
                   Onde(para, valor) \in Esperou)
  BY <1>3 DEF NaLista, Primeiros
<1>5. Muda(Chegando, Chegando', Onde(de, reg[t]) \in Entrando, Onde(para, valor) \in Entrando)
  BY <1>3 DEF Chegando
<1>6. Muda(NaoLargou, NaoLargou', Onde(de, reg[t]) \in Ultimo, Onde(para, valor) \in Ultimo)
  BY <1>3 DEF NaoLargou
<1>7. Dentro' = Dentro /\ Querendo' = Querendo
  <2>1. /\ {w \in Escritores : pc'[w] \in Dono} = {w \in Escritores : pc[w] \in Dono}
        /\ {w \in Escritores : pc'[w] \in Pediu} = {w \in Escritores : pc[w] \in Pediu}
    BY <1>1
  <2> QED BY <2>1 DEF Dentro, Querendo, Quantos
<1> QED BY <1>1, <1>4, <1>5, <1>6, <1>7

-----------------------------------------------------------------------------
\* The types.

LEMMA PassaTipos ==
    ASSUME Tipos, NEW t \in Threads, NEW de, NEW para \in Lugares, Passa(t, de, para)
    PROVE  pc' \in [Threads -> Lugares]
  BY DEF Tipos, Passa

LEMMA TiposPasso ==
    ASSUME Tipos, NEW t \in Threads, Passo(t)
    PROVE  Tipos'
<1> USE DEF Tipos, SemWait, SemPost
<1>1. CASE ListaVazia(t)
  BY <1>1 DEF ListaVazia
<1>2. CASE EscritorCarregaQuer(t)
  <2>1. pc' \in [Threads -> Lugares]
    BY <1>2, PassaTipos DEF EscritorCarregaQuer, Lugares
  <2> QED BY <1>2, <2>1 DEF EscritorCarregaQuer
<1>3. CASE EscritorQuer(t)
  <2>1. pc' \in [Threads -> Lugares]
    BY <1>3, PassaTipos DEF EscritorQuer, Lugares
  <2>2. perdeu' \in BOOLEAN
    BY <1>3, Zenon DEF EscritorQuer, GuardaQuerUsar
  <2>3. reg' \in [Threads -> Int] /\ querUsar' \in Int
    BY <1>3 DEF EscritorQuer, GuardaQuerUsar
  <2> QED BY <1>3, <2>1, <2>2, <2>3 DEF EscritorQuer
<1>4. CASE EscritorEntra(t)
  <2>1. pc' \in [Threads -> Lugares]
    BY <1>4, PassaTipos DEF EscritorEntra, Lugares
  <2> QED BY <1>4, <2>1 DEF EscritorEntra
<1>5. CASE EscritorTroca(t)
  <2>1. pc' \in [Threads -> Lugares]
    BY <1>5, PassaTipos DEF EscritorTroca, Lugares
  <2> QED BY <1>5, <2>1, ConstantesAssumption DEF EscritorTroca
<1>6. CASE EscritorCarregaLarga(t)
  <2>1. pc' \in [Threads -> Lugares]
    BY <1>6, PassaTipos DEF EscritorCarregaLarga, Lugares
  <2> QED BY <1>6, <2>1 DEF EscritorCarregaLarga
<1>7. CASE EscritorLarga(t)
  <2>1. pc' \in [Threads -> Lugares]
    BY <1>7, PassaTipos DEF EscritorLarga, Lugares
  <2>2. perdeu' \in BOOLEAN
    BY <1>7, Zenon DEF EscritorLarga, GuardaQuerUsar
  <2>3. reg' \in [Threads -> Int] /\ querUsar' \in Int
    BY <1>7 DEF EscritorLarga, GuardaQuerUsar
  <2> QED BY <1>7, <2>1, <2>2, <2>3 DEF EscritorLarga
<1>8. CASE EscritorSai(t)
  <2>1. pc' \in [Threads -> Lugares]
    BY <1>8, PassaTipos DEF EscritorSai, Lugares
  <2> QED BY <1>8, <2>1 DEF EscritorSai
<1>9. CASE LeitorIgualEntra(t)
  <2>1. pc' \in [Threads -> Lugares]
    BY <1>9, PassaTipos DEF LeitorIgualEntra, Lugares
  <2> QED BY <1>9, <2>1 DEF LeitorIgualEntra
<1>10. CASE LeitorIgualSai(t)
  <2>1. pc' \in [Threads -> Lugares]
    BY <1>10, PassaTipos DEF LeitorIgualSai, Lugares
  <2> QED BY <1>10, <2>1 DEF LeitorIgualSai
<1>11. CASE LeitorLe(t)
  <2>1. pc' \in [Threads -> Lugares]
    BY <1>11, PassaTipos DEF LeitorLe, Lugares
  <2> QED BY <1>11, <2>1 DEF LeitorLe
<1>12. CASE LeitorVeQuer(t)
  <2>1. pc' \in [Threads -> Lugares]
    BY <1>12, PassaTipos DEF LeitorVeQuer, Lugares
  <2> QED BY <1>12, <2>1 DEF LeitorVeQuer
<1>13. CASE LeitorAcorda(t)
  <2>1. pc' \in [Threads -> Lugares]
    BY <1>13, PassaTipos DEF LeitorAcorda, Lugares
  <2> QED BY <1>13, <2>1 DEF LeitorAcorda
<1>14. CASE LeitorTesta(t)
  <2>1. pc' \in [Threads -> Lugares]
    BY <1>14, PassaTipos DEF LeitorTesta, Lugares
  <2> QED BY <1>14, <2>1 DEF LeitorTesta
<1>15. CASE LeitorEspera(t)
  <2>1. pc' \in [Threads -> Lugares]
    BY <1>15, PassaTipos DEF LeitorEspera, Lugares
  <2> QED BY <1>15, <2>1 DEF LeitorEspera
<1>16. CASE LeitorCarrega(t)
  <2>1. pc' \in [Threads -> Lugares]
    BY <1>16, PassaTipos DEF LeitorCarrega, Lugares
  <2> QED BY <1>16, <2>1 DEF LeitorCarrega
<1>17. CASE LeitorConta(t)
  <2>1. pc' \in [Threads -> Lugares]
    BY <1>17, PassaTipos DEF LeitorConta, Lugares
  <2>2. corrida' \in BOOLEAN
    BY <1>17, Zenon DEF LeitorConta, Sobreposto
  <2>3. reg' \in [Threads -> Int]
    BY <1>17 DEF LeitorConta
  <2> QED BY <1>17, <2>1, <2>2, <2>3 DEF LeitorConta
<1>18. CASE LeitorDescarrega(t)
  <2>1. pc' \in [Threads -> Lugares]
    BY <1>18, PassaTipos DEF LeitorDescarrega, Lugares
  <2> QED BY <1>18, <2>1 DEF LeitorDescarrega
<1>19. CASE LeitorDesconta(t)
  <2>1. pc' \in [Threads -> Lugares]
    BY <1>19, PassaTipos DEF LeitorDesconta, Lugares
  <2>2. corrida' \in BOOLEAN
    BY <1>19, Zenon DEF LeitorDesconta, Sobreposto
  <2>3. reg' \in [Threads -> Int]
    BY <1>19 DEF LeitorDesconta
  <2> QED BY <1>19, <2>1, <2>2, <2>3 DEF LeitorDesconta
<1>20. CASE LeitorUltimo(t)
  <2>1. pc' \in [Threads -> Lugares]
    BY <1>20, PassaTipos DEF LeitorUltimo, Lugares
  <2>2. corrida' \in BOOLEAN
    BY <1>20, Zenon DEF LeitorUltimo
  <2>3. reg' \in [Threads -> Int]
    BY <1>20 DEF LeitorUltimo
  <2> QED BY <1>20, <2>1, <2>2, <2>3 DEF LeitorUltimo
<1>21. CASE LeitorNaoUltimo(t)
  <2>1. pc' \in [Threads -> Lugares]
    BY <1>21, PassaTipos DEF LeitorNaoUltimo, Lugares
  <2>2. corrida' \in BOOLEAN
    BY <1>21, Zenon DEF LeitorNaoUltimo
  <2>3. reg' \in [Threads -> Int]
    BY <1>21 DEF LeitorNaoUltimo
  <2> QED BY <1>21, <2>1, <2>2, <2>3 DEF LeitorNaoUltimo
<1> QED BY <1>1, <1>2, <1>3, <1>4, <1>5, <1>6, <1>7, <1>8, <1>9, <1>10, <1>11,
          <1>12, <1>13, <1>14, <1>15, <1>16, <1>17, <1>18, <1>19, <1>20, <1>21 DEF Passo

-----------------------------------------------------------------------------
\* The counts and the semaphore, when a writer moves.

LEMMA EscritorContas ==
    ASSUME LInv, NEW t \in Escritores, Passo(t), t \notin Leitores, ~ListaVazia(t)
    PROVE  Iguais' /\ Prioridades' /\ RegLeitores' /\ Pedidos'
<1>1. /\ Tipos /\ Tipos' /\ t \in Threads
      /\ \A x \in Escritores : x \in Threads /\ x \notin Leitores
      /\ \A x \in Leitores : x \in Threads /\ x \notin Escritores
  BY TiposPasso, ConstantesAssumption DEF LInv, Threads
<1>2. /\ Dentro \in Nat /\ Querendo \in Nat /\ NaLista \in Nat
      /\ Primeiros \in Nat /\ Chegando \in Nat /\ NaoLargou \in Nat
      /\ Dentro' \in Nat /\ Querendo' \in Nat /\ NaLista' \in Nat
      /\ Primeiros' \in Nat /\ Chegando' \in Nat /\ NaoLargou' \in Nat
      /\ Querendo <= Cardinality(Escritores) /\ Querendo' <= Cardinality(Escritores)
  BY ContasNaturais, ContasDepois
<1>3. ASSUME /\ NaLista' = NaLista /\ Primeiros' = Primeiros
             /\ Chegando' = Chegando /\ NaoLargou' = NaoLargou
             /\ semEscritor' + Dentro' = semEscritor + Dentro
             /\ \A r \in Leitores : pc'[r] = pc[r] /\ reg'[r] = reg[r]
             /\ usando' = usando /\ variante' = variante /\ corrida' = corrida
      PROVE  Iguais' /\ Prioridades' /\ RegLeitores'
  <2>1. Iguais'
    BY <1>1, <1>2, <1>3 DEF LInv, Iguais, Tipos
  <2>2. Prioridades'
    BY <1>1, <1>2, <1>3 DEF LInv, Prioridades, Tipos
  <2>3. RegLeitores'
    BY <1>1, <1>3 DEF LInv, RegLeitores
  <2> QED BY <2>1, <2>2, <2>3
<1>4. CASE EscritorCarregaQuer(t)
  <2>1. /\ Passa(t, "inicio", "quer")
        /\ \A r \in Leitores : reg'[r] = reg[r]
        /\ usando' = usando /\ variante' = variante /\ corrida' = corrida
        /\ semEscritor' = semEscritor
    BY <1>1, <1>4 DEF EscritorCarregaQuer, Tipos
  <2>2. /\ Dentro' = Dentro /\ Querendo' = Querendo
        /\ NaLista' = NaLista /\ Primeiros' = Primeiros
        /\ Chegando' = Chegando /\ NaoLargou' = NaoLargou
        /\ \A r \in Leitores : pc'[r] = pc[r]
        /\ \A w \in Escritores : pc'[w] = IF w = t THEN "quer" ELSE pc[w]
    BY <1>1, <2>1, ContasEscritor DEF Muda, Dono, Pediu
  <2>3. Iguais' /\ Prioridades' /\ RegLeitores'
    BY <1>1, <1>2, <1>3, <2>1, <2>2 DEF Tipos
  <2>4. Pedidos'
    BY <1>1, <1>2, <1>4, <2>1, <2>2, Finitos
       DEF EscritorCarregaQuer, LInv, Pedidos, Tipos, Contando, Passa
  <2> QED BY <2>3, <2>4
<1>5. CASE EscritorQuer(t)
  <2>1. /\ Passa(t, "quer", "pede")
        /\ \A r \in Leitores : reg'[r] = reg[r]
        /\ usando' = usando /\ variante' = variante /\ corrida' = corrida
        /\ semEscritor' = semEscritor
    BY <1>1, <1>5 DEF EscritorQuer, GuardaQuerUsar, Tipos
  <2>2. /\ Dentro' = Dentro /\ Querendo' = Querendo + 1
        /\ NaLista' = NaLista /\ Primeiros' = Primeiros
        /\ Chegando' = Chegando /\ NaoLargou' = NaoLargou
        /\ \A r \in Leitores : pc'[r] = pc[r]
        /\ \A w \in Escritores : pc'[w] = IF w = t THEN "pede" ELSE pc[w]
    BY <1>1, <2>1, ContasEscritor DEF Muda, Dono, Pediu
  <2>3. Iguais' /\ Prioridades' /\ RegLeitores'
    BY <1>1, <1>2, <1>3, <2>1, <2>2 DEF Tipos
  <2>4. Pedidos'
    <3>1. pc[t] \in Contando /\ variante = "escritor" /\ variante' = variante
      BY <1>1, <1>5 DEF EscritorQuer, LInv, Pedidos, Contando, Passa
    <3>2. ASSUME ~perdeu'
          PROVE  /\ ~perdeu /\ \A v \in Escritores \ {t} : pc[v] \notin Contando
                 /\ querUsar' = reg[t] + 1
                 /\ \A w \in Escritores : reg'[w] = IF w = t THEN 0 ELSE reg[w]
      BY <1>1, <1>5, <3>2 DEF EscritorQuer, GuardaQuerUsar
    <3>3. ASSUME ~perdeu'
          PROVE  /\ querUsar' = Querendo'
                 /\ \A w \in Escritores : /\ reg'[w] \in 0..Cardinality(Escritores)
                                           /\ pc'[w] \notin Contando
      BY <1>1, <1>2, <2>2, <3>1, <3>2, <3>3, Finitos DEF LInv, Pedidos, Contando
    <3> QED BY <3>1, <3>3 DEF Pedidos
  <2> QED BY <2>3, <2>4
<1>6. CASE EscritorEntra(t)
  <2>1. /\ Passa(t, IF variante = "escritor" THEN "pede" ELSE "inicio", "escreve")
        /\ \A r \in Leitores : reg'[r] = reg[r]
        /\ usando' = usando /\ variante' = variante /\ corrida' = corrida
        /\ semEscritor' = semEscritor - 1
    BY <1>1, <1>6 DEF EscritorEntra, SemWait, Tipos
  <2>2. /\ Dentro' = Dentro + 1 /\ (variante = "escritor" => Querendo' = Querendo)
        /\ NaLista' = NaLista /\ Primeiros' = Primeiros
        /\ Chegando' = Chegando /\ NaoLargou' = NaoLargou
        /\ \A r \in Leitores : pc'[r] = pc[r]
        /\ \A w \in Escritores : pc'[w] = IF w = t THEN "escreve" ELSE pc[w]
    BY <1>1, <2>1, ContasEscritor DEF Muda, Dono, Pediu
  <2>3. Iguais' /\ Prioridades' /\ RegLeitores'
    BY <1>1, <1>2, <1>3, <2>1, <2>2 DEF Tipos
  <2>4. Pedidos'
    BY <1>1, <1>2, <1>6, <2>1, <2>2, Finitos
       DEF EscritorEntra, LInv, Pedidos, Tipos, Contando, Passa
  <2> QED BY <2>3, <2>4
<1>7. CASE EscritorTroca(t)
  <2>1. /\ Passa(t, "escreve", "sai")
        /\ \A r \in Leitores : reg'[r] = reg[r]
        /\ usando' = usando /\ variante' = variante /\ corrida' = corrida
        /\ semEscritor' = semEscritor
    BY <1>1, <1>7 DEF EscritorTroca, Tipos
  <2>2. /\ Dentro' = Dentro /\ Querendo' = Querendo
        /\ NaLista' = NaLista /\ Primeiros' = Primeiros
        /\ Chegando' = Chegando /\ NaoLargou' = NaoLargou
        /\ \A r \in Leitores : pc'[r] = pc[r]
        /\ \A w \in Escritores : pc'[w] = IF w = t THEN "sai" ELSE pc[w]
    BY <1>1, <2>1, ContasEscritor DEF Muda, Dono, Pediu
  <2>3. Iguais' /\ Prioridades' /\ RegLeitores'
    BY <1>1, <1>2, <1>3, <2>1, <2>2 DEF Tipos
  <2>4. Pedidos'
    BY <1>1, <1>2, <1>7, <2>1, <2>2, Finitos
       DEF EscritorTroca, LInv, Pedidos, Tipos, Contando, Passa
  <2> QED BY <2>3, <2>4
<1>8. CASE EscritorCarregaLarga(t)
  <2>1. /\ Passa(t, "sai", "larga")
        /\ \A r \in Leitores : reg'[r] = reg[r]
        /\ usando' = usando /\ variante' = variante /\ corrida' = corrida
        /\ semEscritor' = semEscritor
    BY <1>1, <1>8 DEF EscritorCarregaLarga, Tipos
  <2>2. /\ Dentro' = Dentro /\ Querendo' = Querendo
        /\ NaLista' = NaLista /\ Primeiros' = Primeiros
        /\ Chegando' = Chegando /\ NaoLargou' = NaoLargou
        /\ \A r \in Leitores : pc'[r] = pc[r]
        /\ \A w \in Escritores : pc'[w] = IF w = t THEN "larga" ELSE pc[w]
    BY <1>1, <2>1, ContasEscritor DEF Muda, Dono, Pediu
  <2>3. Iguais' /\ Prioridades' /\ RegLeitores'
    BY <1>1, <1>2, <1>3, <2>1, <2>2 DEF Tipos
  <2>4. Pedidos'
    BY <1>1, <1>2, <1>8, <2>1, <2>2, Finitos
       DEF EscritorCarregaLarga, LInv, Pedidos, Tipos, Contando, Passa
  <2> QED BY <2>3, <2>4
<1>9. CASE EscritorLarga(t)
  <2>1. /\ Passa(t, "larga", "posta")
        /\ \A r \in Leitores : reg'[r] = reg[r]
        /\ usando' = usando /\ variante' = variante /\ corrida' = corrida
        /\ semEscritor' = semEscritor
    BY <1>1, <1>9 DEF EscritorLarga, GuardaQuerUsar, Tipos
  <2>2. /\ Dentro' = Dentro /\ Querendo' = Querendo - 1
        /\ NaLista' = NaLista /\ Primeiros' = Primeiros
        /\ Chegando' = Chegando /\ NaoLargou' = NaoLargou
        /\ \A r \in Leitores : pc'[r] = pc[r]
        /\ \A w \in Escritores : pc'[w] = IF w = t THEN "posta" ELSE pc[w]
    BY <1>1, <2>1, ContasEscritor DEF Muda, Dono, Pediu
  <2>3. Iguais' /\ Prioridades' /\ RegLeitores'
    BY <1>1, <1>2, <1>3, <2>1, <2>2 DEF Tipos
  <2>4. Pedidos'
    <3>1. pc[t] \in Contando /\ variante = "escritor" /\ variante' = variante
      BY <1>1, <1>9 DEF EscritorLarga, LInv, Pedidos, Contando, Passa
    <3>2. ASSUME ~perdeu'
          PROVE  /\ ~perdeu /\ \A v \in Escritores \ {t} : pc[v] \notin Contando
                 /\ querUsar' = reg[t] - 1
                 /\ \A w \in Escritores : reg'[w] = IF w = t THEN 0 ELSE reg[w]
      BY <1>1, <1>9, <3>2 DEF EscritorLarga, GuardaQuerUsar
    <3>3. ASSUME ~perdeu'
          PROVE  /\ querUsar' = Querendo'
                 /\ \A w \in Escritores : /\ reg'[w] \in 0..Cardinality(Escritores)
                                           /\ pc'[w] \notin Contando
      BY <1>1, <1>2, <2>2, <3>1, <3>2, <3>3, Finitos DEF LInv, Pedidos, Contando
    <3> QED BY <3>1, <3>3 DEF Pedidos
  <2> QED BY <2>3, <2>4
<1>10. CASE EscritorSai(t)
  <2>1. /\ Passa(t, IF variante = "escritor" THEN "posta" ELSE "sai", "inicio")
        /\ \A r \in Leitores : reg'[r] = reg[r]
        /\ usando' = usando /\ variante' = variante /\ corrida' = corrida
        /\ semEscritor' = semEscritor + 1
    BY <1>1, <1>10 DEF EscritorSai, SemPost, Tipos
  <2>2. /\ Dentro' = Dentro - 1 /\ (variante = "escritor" => Querendo' = Querendo)
        /\ NaLista' = NaLista /\ Primeiros' = Primeiros
        /\ Chegando' = Chegando /\ NaoLargou' = NaoLargou
        /\ \A r \in Leitores : pc'[r] = pc[r]
        /\ \A w \in Escritores : pc'[w] = IF w = t THEN "inicio" ELSE pc[w]
    BY <1>1, <2>1, ContasEscritor DEF Muda, Dono, Pediu
  <2>3. Iguais' /\ Prioridades' /\ RegLeitores'
    BY <1>1, <1>2, <1>3, <2>1, <2>2 DEF Tipos
  <2>4. Pedidos'
    BY <1>1, <1>2, <1>10, <2>1, <2>2, Finitos
       DEF EscritorSai, LInv, Pedidos, Tipos, Contando, Passa
  <2> QED BY <2>3, <2>4
<1> QED BY <1>1, <1>4, <1>5, <1>6, <1>7, <1>8, <1>9, <1>10 DEF Passo

-----------------------------------------------------------------------------
\* The counts and the semaphore, when a reader moves.

LEMMA LeitorContas ==
    ASSUME LInv, NEW t \in Leitores, Passo(t), t \notin Escritores, ~ListaVazia(t)
    PROVE  Iguais' /\ Prioridades' /\ RegLeitores' /\ Pedidos'
<1>1. /\ Tipos /\ Tipos' /\ t \in Threads
      /\ \A x \in Leitores : x \in Threads /\ x \notin Escritores
  BY TiposPasso, ConstantesAssumption DEF LInv, Threads
<1>2. /\ Dentro \in Nat /\ NaLista \in Nat
      /\ Primeiros \in Nat /\ Chegando \in Nat /\ NaoLargou \in Nat
      /\ Dentro' \in Nat /\ NaLista' \in Nat
      /\ Primeiros' \in Nat /\ Chegando' \in Nat /\ NaoLargou' \in Nat
      /\ NaLista <= Cardinality(Leitores) /\ NaLista' <= Cardinality(Leitores)
  BY ContasNaturais, ContasDepois
<1>3. ASSUME /\ Querendo' = Querendo
             /\ \A w \in Escritores : pc'[w] = pc[w] /\ reg'[w] = reg[w]
             /\ querUsar' = querUsar /\ variante' = variante /\ perdeu' = perdeu
      PROVE  Pedidos'
  BY <1>3 DEF LInv, Pedidos
<1>4. CASE LeitorIgualEntra(t)
  <2>1. /\ Passa(t, "inicio", "le") /\ Movido(reg, reg', Threads, t, reg[t])
        /\ querUsar' = querUsar /\ variante' = variante /\ perdeu' = perdeu
        /\ semEscritor' = semEscritor - 1
    BY <1>1, <1>4 DEF LeitorIgualEntra, SemWait, Tipos, Movido
  <2>2. /\ NaLista' = NaLista + 1 /\ Primeiros' = Primeiros
        /\ Chegando' = Chegando /\ NaoLargou' = NaoLargou
        /\ Dentro' = Dentro /\ Querendo' = Querendo
        /\ \A r \in Leitores : pc'[r] = IF r = t THEN "le" ELSE pc[r]
        /\ \A r \in Leitores : reg'[r] = IF r = t THEN reg[t] ELSE reg[r]
        /\ \A w \in Escritores : pc'[w] = pc[w] /\ reg'[w] = reg[w]
    <3>1. \A r \in Leitores : reg'[r] = IF r = t THEN reg[t] ELSE reg[r]
      BY <1>1, <2>1 DEF Movido
    <3>2. reg[t] \in Int
      BY <1>1 DEF Tipos
    <3> QED BY <1>1, <1>2, <2>1, <3>1, <3>2, ContasLeitor
            DEF Muda, Onde, Contado, Esperou, Entrando, Ultimo
  <2>3. pc[t] = "inicio" /\ ~corrida
    BY <2>1 DEF Passa, Roda
  <2>4. Iguais'
    BY <1>1, <1>2, <1>4, <2>1, <2>2, <2>3 DEF LeitorIgualEntra, LInv, Iguais, Tipos
  <2>5. Prioridades'
    BY <1>1, <1>2, <1>4, <2>1, <2>2, <2>3
       DEF LeitorIgualEntra, LInv, Prioridades, RegLeitores, Tipos
  <2>6. RegLeitores'
    BY <1>1, <1>2, <1>4, <2>1, <2>2, <2>3, Finitos
       DEF LeitorIgualEntra, LInv, Prioridades, Iguais, RegLeitores, Tipos
  <2> QED BY <1>3, <2>1, <2>2, <2>4, <2>5, <2>6
<1>5. CASE LeitorIgualSai(t)
  <2>1. /\ Passa(t, "sai", "inicio") /\ Movido(reg, reg', Threads, t, reg[t])
        /\ querUsar' = querUsar /\ variante' = variante /\ perdeu' = perdeu
        /\ semEscritor' = semEscritor + 1
    BY <1>1, <1>5 DEF LeitorIgualSai, SemPost, Tipos, Movido
  <2>2. /\ NaLista' = NaLista - 1 /\ Primeiros' = Primeiros
        /\ Chegando' = Chegando /\ NaoLargou' = NaoLargou
        /\ Dentro' = Dentro /\ Querendo' = Querendo
        /\ \A r \in Leitores : pc'[r] = IF r = t THEN "inicio" ELSE pc[r]
        /\ \A r \in Leitores : reg'[r] = IF r = t THEN reg[t] ELSE reg[r]
        /\ \A w \in Escritores : pc'[w] = pc[w] /\ reg'[w] = reg[w]
    <3>1. \A r \in Leitores : reg'[r] = IF r = t THEN reg[t] ELSE reg[r]
      BY <1>1, <2>1 DEF Movido
    <3>2. reg[t] \in Int
      BY <1>1 DEF Tipos
    <3> QED BY <1>1, <1>2, <2>1, <3>1, <3>2, ContasLeitor
            DEF Muda, Onde, Contado, Esperou, Entrando, Ultimo
  <2>3. pc[t] = "sai" /\ ~corrida
    BY <2>1 DEF Passa, Roda
  <2>4. Iguais'
    BY <1>1, <1>2, <1>5, <2>1, <2>2, <2>3 DEF LeitorIgualSai, LInv, Iguais, Tipos
  <2>5. Prioridades'
    BY <1>1, <1>2, <1>5, <2>1, <2>2, <2>3
       DEF LeitorIgualSai, LInv, Prioridades, RegLeitores, Tipos
  <2>6. RegLeitores'
    BY <1>1, <1>2, <1>5, <2>1, <2>2, <2>3, Finitos
       DEF LeitorIgualSai, LInv, Prioridades, Iguais, RegLeitores, Tipos
  <2> QED BY <1>3, <2>1, <2>2, <2>4, <2>5, <2>6
<1>6. CASE LeitorLe(t)
  <2>1. /\ Passa(t, "le", "sai") /\ Movido(reg, reg', Threads, t, reg[t])
        /\ querUsar' = querUsar /\ variante' = variante /\ perdeu' = perdeu
        /\ semEscritor' = semEscritor
    BY <1>1, <1>6 DEF LeitorLe, Tipos, Movido
  <2>2. /\ NaLista' = NaLista /\ Primeiros' = Primeiros
        /\ Chegando' = Chegando /\ NaoLargou' = NaoLargou
        /\ Dentro' = Dentro /\ Querendo' = Querendo
        /\ \A r \in Leitores : pc'[r] = IF r = t THEN "sai" ELSE pc[r]
        /\ \A r \in Leitores : reg'[r] = IF r = t THEN reg[t] ELSE reg[r]
        /\ \A w \in Escritores : pc'[w] = pc[w] /\ reg'[w] = reg[w]
    <3>1. \A r \in Leitores : reg'[r] = IF r = t THEN reg[t] ELSE reg[r]
      BY <1>1, <2>1 DEF Movido
    <3>2. reg[t] \in Int
      BY <1>1 DEF Tipos
    <3> QED BY <1>1, <1>2, <2>1, <3>1, <3>2, ContasLeitor
            DEF Muda, Onde, Contado, Esperou, Entrando, Ultimo
  <2>3. pc[t] = "le" /\ ~corrida
    BY <2>1 DEF Passa, Roda
  <2>4. Iguais'
    BY <1>1, <1>2, <1>6, <2>1, <2>2, <2>3 DEF LeitorLe, LInv, Iguais, Tipos
  <2>5. Prioridades'
    BY <1>1, <1>2, <1>6, <2>1, <2>2, <2>3
       DEF LeitorLe, LInv, Prioridades, RegLeitores, Tipos
  <2>6. RegLeitores'
    BY <1>1, <1>2, <1>6, <2>1, <2>2, <2>3, Finitos
       DEF LeitorLe, LInv, Prioridades, Iguais, RegLeitores, Tipos
  <2> QED BY <1>3, <2>1, <2>2, <2>4, <2>5, <2>6
<1>7. CASE LeitorVeQuer(t)
  <2>0. PICK para \in {"dorme", "passa"} : Passa(t, "inicio", para)
    BY <1>7 DEF LeitorVeQuer
  <2>1. /\ Passa(t, "inicio", para) /\ Movido(reg, reg', Threads, t, reg[t])
        /\ querUsar' = querUsar /\ variante' = variante /\ perdeu' = perdeu
        /\ semEscritor' = semEscritor
    BY <2>0, <1>1, <1>7 DEF LeitorVeQuer, Tipos, Movido
  <2>2. /\ NaLista' = NaLista /\ Primeiros' = Primeiros
        /\ Chegando' = Chegando /\ NaoLargou' = NaoLargou
        /\ Dentro' = Dentro /\ Querendo' = Querendo
        /\ \A r \in Leitores : pc'[r] = IF r = t THEN para ELSE pc[r]
        /\ \A r \in Leitores : reg'[r] = IF r = t THEN reg[t] ELSE reg[r]
        /\ \A w \in Escritores : pc'[w] = pc[w] /\ reg'[w] = reg[w]
    <3>1. \A r \in Leitores : reg'[r] = IF r = t THEN reg[t] ELSE reg[r]
      BY <1>1, <2>1 DEF Movido
    <3>2. reg[t] \in Int
      BY <1>1 DEF Tipos
    <3> QED BY <2>0, <1>1, <1>2, <2>1, <3>1, <3>2, ContasLeitor
            DEF Muda, Onde, Contado, Esperou, Entrando, Ultimo
  <2>3. pc[t] = "inicio" /\ ~corrida
    BY <2>1 DEF Passa, Roda
  <2>4. Iguais'
    BY <2>0, <1>1, <1>2, <1>7, <2>1, <2>2, <2>3 DEF LeitorVeQuer, LInv, Iguais, Tipos
  <2>5. Prioridades'
    BY <2>0, <1>1, <1>2, <1>7, <2>1, <2>2, <2>3
       DEF LeitorVeQuer, LInv, Prioridades, RegLeitores, Tipos
  <2>6. RegLeitores'
    BY <2>0, <1>1, <1>2, <1>7, <2>1, <2>2, <2>3, Finitos
       DEF LeitorVeQuer, LInv, Prioridades, Iguais, RegLeitores, Tipos
  <2> QED BY <1>3, <2>1, <2>2, <2>4, <2>5, <2>6
<1>8. CASE LeitorAcorda(t)
  <2>1. /\ Passa(t, "dorme", "passa") /\ Movido(reg, reg', Threads, t, reg[t])
        /\ querUsar' = querUsar /\ variante' = variante /\ perdeu' = perdeu
        /\ semEscritor' = semEscritor
    BY <1>1, <1>8 DEF LeitorAcorda, Tipos, Movido
  <2>2. /\ NaLista' = NaLista /\ Primeiros' = Primeiros
        /\ Chegando' = Chegando /\ NaoLargou' = NaoLargou
        /\ Dentro' = Dentro /\ Querendo' = Querendo
        /\ \A r \in Leitores : pc'[r] = IF r = t THEN "passa" ELSE pc[r]
        /\ \A r \in Leitores : reg'[r] = IF r = t THEN reg[t] ELSE reg[r]
        /\ \A w \in Escritores : pc'[w] = pc[w] /\ reg'[w] = reg[w]
    <3>1. \A r \in Leitores : reg'[r] = IF r = t THEN reg[t] ELSE reg[r]
      BY <1>1, <2>1 DEF Movido
    <3>2. reg[t] \in Int
      BY <1>1 DEF Tipos
    <3> QED BY <1>1, <1>2, <2>1, <3>1, <3>2, ContasLeitor
            DEF Muda, Onde, Contado, Esperou, Entrando, Ultimo
  <2>3. pc[t] = "dorme" /\ ~corrida
    BY <2>1 DEF Passa, Roda
  <2>4. Iguais'
    BY <1>1, <1>2, <1>8, <2>1, <2>2, <2>3 DEF LeitorAcorda, LInv, Iguais, Tipos
  <2>5. Prioridades'
    BY <1>1, <1>2, <1>8, <2>1, <2>2, <2>3
       DEF LeitorAcorda, LInv, Prioridades, RegLeitores, Tipos
  <2>6. RegLeitores'
    BY <1>1, <1>2, <1>8, <2>1, <2>2, <2>3, Finitos
       DEF LeitorAcorda, LInv, Prioridades, Iguais, RegLeitores, Tipos
  <2> QED BY <1>3, <2>1, <2>2, <2>4, <2>5, <2>6
<1>9. CASE LeitorTesta(t)
  <2>0. PICK de \in {"inicio", "passa"}, para \in {"espera", "entra"} : Passa(t, de, para)
    BY <1>9 DEF LeitorTesta
  <2>1. /\ Passa(t, de, para) /\ Movido(reg, reg', Threads, t, reg[t])
        /\ querUsar' = querUsar /\ variante' = variante /\ perdeu' = perdeu
        /\ semEscritor' = semEscritor
    BY <2>0, <1>1, <1>9 DEF LeitorTesta, Tipos, Movido
  <2>2. /\ NaLista' = NaLista /\ Primeiros' = Primeiros
        /\ Chegando' = Chegando /\ NaoLargou' = NaoLargou
        /\ Dentro' = Dentro /\ Querendo' = Querendo
        /\ \A r \in Leitores : pc'[r] = IF r = t THEN para ELSE pc[r]
        /\ \A r \in Leitores : reg'[r] = IF r = t THEN reg[t] ELSE reg[r]
        /\ \A w \in Escritores : pc'[w] = pc[w] /\ reg'[w] = reg[w]
    <3>1. \A r \in Leitores : reg'[r] = IF r = t THEN reg[t] ELSE reg[r]
      BY <1>1, <2>1 DEF Movido
    <3>2. reg[t] \in Int
      BY <1>1 DEF Tipos
    <3> QED BY <2>0, <1>1, <1>2, <2>1, <3>1, <3>2, ContasLeitor
            DEF Muda, Onde, Contado, Esperou, Entrando, Ultimo
  <2>3. pc[t] = de /\ ~corrida
    BY <2>1 DEF Passa, Roda
  <2>4. Iguais'
    BY <2>0, <1>1, <1>2, <1>9, <2>1, <2>2, <2>3 DEF LeitorTesta, LInv, Iguais, Tipos
  <2>5. Prioridades'
    BY <2>0, <1>1, <1>2, <1>9, <2>1, <2>2, <2>3
       DEF LeitorTesta, LInv, Prioridades, RegLeitores, Tipos
  <2>6. RegLeitores'
    BY <2>0, <1>1, <1>2, <1>9, <2>1, <2>2, <2>3, Finitos
       DEF LeitorTesta, LInv, Prioridades, Iguais, RegLeitores, Tipos
  <2> QED BY <1>3, <2>1, <2>2, <2>4, <2>5, <2>6
<1>10. CASE LeitorEspera(t)
  <2>1. /\ Passa(t, "espera", "primeiro") /\ Movido(reg, reg', Threads, t, reg[t])
        /\ querUsar' = querUsar /\ variante' = variante /\ perdeu' = perdeu
        /\ semEscritor' = semEscritor - 1
    BY <1>1, <1>10 DEF LeitorEspera, SemWait, Tipos, Movido
  <2>2. /\ NaLista' = NaLista /\ Primeiros' = Primeiros + 1
        /\ Chegando' = Chegando /\ NaoLargou' = NaoLargou
        /\ Dentro' = Dentro /\ Querendo' = Querendo
        /\ \A r \in Leitores : pc'[r] = IF r = t THEN "primeiro" ELSE pc[r]
        /\ \A r \in Leitores : reg'[r] = IF r = t THEN reg[t] ELSE reg[r]
        /\ \A w \in Escritores : pc'[w] = pc[w] /\ reg'[w] = reg[w]
    <3>1. \A r \in Leitores : reg'[r] = IF r = t THEN reg[t] ELSE reg[r]
      BY <1>1, <2>1 DEF Movido
    <3>2. reg[t] \in Int
      BY <1>1 DEF Tipos
    <3> QED BY <1>1, <1>2, <2>1, <3>1, <3>2, ContasLeitor
            DEF Muda, Onde, Contado, Esperou, Entrando, Ultimo
  <2>3. pc[t] = "espera" /\ ~corrida
    BY <2>1 DEF Passa, Roda
  <2>4. Iguais'
    BY <1>1, <1>2, <1>10, <2>1, <2>2, <2>3 DEF LeitorEspera, LInv, Iguais, Tipos
  <2>5. Prioridades'
    BY <1>1, <1>2, <1>10, <2>1, <2>2, <2>3
       DEF LeitorEspera, LInv, Prioridades, RegLeitores, Tipos
  <2>6. RegLeitores'
    BY <1>1, <1>2, <1>10, <2>1, <2>2, <2>3, Finitos
       DEF LeitorEspera, LInv, Prioridades, Iguais, RegLeitores, Tipos
  <2> QED BY <1>3, <2>1, <2>2, <2>4, <2>5, <2>6
<1>11. CASE LeitorCarrega(t)
  <2>0. PICK de \in {"primeiro", "entra"} : Passa(t, de, "conta")
    BY <1>11 DEF LeitorCarrega
  <2>1. /\ Passa(t, de, "conta") /\ Movido(reg, reg', Threads, t, usando)
        /\ querUsar' = querUsar /\ variante' = variante /\ perdeu' = perdeu
        /\ semEscritor' = semEscritor
    BY <2>0, <1>1, <1>11 DEF LeitorCarrega, Tipos, Movido
  <2>2. /\ NaLista' = NaLista /\ Primeiros' = IF de = "primeiro" THEN Primeiros - 1 ELSE Primeiros
        /\ Chegando' = Chegando + 1 /\ NaoLargou' = NaoLargou
        /\ Dentro' = Dentro /\ Querendo' = Querendo
        /\ \A r \in Leitores : pc'[r] = IF r = t THEN "conta" ELSE pc[r]
        /\ \A r \in Leitores : reg'[r] = IF r = t THEN usando ELSE reg[r]
        /\ \A w \in Escritores : pc'[w] = pc[w] /\ reg'[w] = reg[w]
    <3>1. \A r \in Leitores : reg'[r] = IF r = t THEN usando ELSE reg[r]
      BY <1>1, <2>1 DEF Movido
    <3>2. reg[t] \in Int
      BY <1>1 DEF Tipos
    <3> QED BY <2>0, <1>1, <1>2, <2>1, <3>1, <3>2, ContasLeitor
            DEF Muda, Onde, Contado, Esperou, Entrando, Ultimo
  <2>3. pc[t] = de /\ ~corrida
    BY <2>1 DEF Passa, Roda
  <2>4. Iguais'
    BY <2>0, <1>1, <1>2, <1>11, <2>1, <2>2, <2>3 DEF LeitorCarrega, LInv, Iguais, Tipos
  <2>5. Prioridades'
    <3>1. usando' = usando /\ (~corrida' /\ de = "entra" => usando # 0)
      BY <1>11, <2>3 DEF LeitorCarrega, Passa
    <3> QED BY <2>0, <1>1, <1>2, <2>1, <2>2, <2>3, <3>1 DEF LInv, Prioridades, Tipos
  <2>6. RegLeitores'
    BY <2>0, <1>1, <1>2, <1>11, <2>1, <2>2, <2>3, Finitos
       DEF LeitorCarrega, LInv, Prioridades, Iguais, RegLeitores, Tipos
  <2> QED BY <1>3, <2>1, <2>2, <2>4, <2>5, <2>6
<1>12. CASE LeitorConta(t)
  <2>1. /\ Passa(t, "conta", "le") /\ Movido(reg, reg', Threads, t, 0)
        /\ querUsar' = querUsar /\ variante' = variante /\ perdeu' = perdeu
        /\ semEscritor' = semEscritor
    BY <1>1, <1>12 DEF LeitorConta, Tipos, Movido
  <2>2. /\ NaLista' = NaLista + 1 /\ Primeiros' = Primeiros
        /\ Chegando' = Chegando - 1 /\ NaoLargou' = NaoLargou
        /\ Dentro' = Dentro /\ Querendo' = Querendo
        /\ \A r \in Leitores : pc'[r] = IF r = t THEN "le" ELSE pc[r]
        /\ \A r \in Leitores : reg'[r] = IF r = t THEN 0 ELSE reg[r]
        /\ \A w \in Escritores : pc'[w] = pc[w] /\ reg'[w] = reg[w]
    <3>1. \A r \in Leitores : reg'[r] = IF r = t THEN 0 ELSE reg[r]
      BY <1>1, <2>1 DEF Movido
    <3>2. reg[t] \in Int
      BY <1>1 DEF Tipos
    <3> QED BY <1>1, <1>2, <2>1, <3>1, <3>2, ContasLeitor
            DEF Muda, Onde, Contado, Esperou, Entrando, Ultimo
  <2>3. pc[t] = "conta" /\ ~corrida
    BY <2>1 DEF Passa, Roda
  <2>4. Iguais'
    BY <1>1, <1>2, <1>12, <2>1, <2>2, <2>3 DEF LeitorConta, LInv, Iguais, Tipos
  <2>5. Prioridades'
    BY <1>1, <1>2, <1>12, <2>1, <2>2, <2>3
       DEF LeitorConta, Sobreposto, LInv, Prioridades, RegLeitores, Tipos
  <2>6. RegLeitores'
    BY <1>1, <1>2, <1>12, <2>1, <2>2, <2>3, Finitos
       DEF LeitorConta, Sobreposto, LInv, Prioridades, Iguais, RegLeitores, Tipos
  <2> QED BY <1>3, <2>1, <2>2, <2>4, <2>5, <2>6
<1>13. CASE LeitorDescarrega(t)
  <2>1. /\ Passa(t, "sai", "desconta") /\ Movido(reg, reg', Threads, t, usando)
        /\ querUsar' = querUsar /\ variante' = variante /\ perdeu' = perdeu
        /\ semEscritor' = semEscritor
    BY <1>1, <1>13 DEF LeitorDescarrega, Tipos, Movido
  <2>2. /\ NaLista' = NaLista /\ Primeiros' = Primeiros
        /\ Chegando' = Chegando /\ NaoLargou' = NaoLargou
        /\ Dentro' = Dentro /\ Querendo' = Querendo
        /\ \A r \in Leitores : pc'[r] = IF r = t THEN "desconta" ELSE pc[r]
        /\ \A r \in Leitores : reg'[r] = IF r = t THEN usando ELSE reg[r]
        /\ \A w \in Escritores : pc'[w] = pc[w] /\ reg'[w] = reg[w]
    <3>1. \A r \in Leitores : reg'[r] = IF r = t THEN usando ELSE reg[r]
      BY <1>1, <2>1 DEF Movido
    <3>2. reg[t] \in Int
      BY <1>1 DEF Tipos
    <3> QED BY <1>1, <1>2, <2>1, <3>1, <3>2, ContasLeitor
            DEF Muda, Onde, Contado, Esperou, Entrando, Ultimo
  <2>3. pc[t] = "sai" /\ ~corrida
    BY <2>1 DEF Passa, Roda
  <2>4. Iguais'
    BY <1>1, <1>2, <1>13, <2>1, <2>2, <2>3 DEF LeitorDescarrega, LInv, Iguais, Tipos
  <2>5. Prioridades'
    BY <1>1, <1>2, <1>13, <2>1, <2>2, <2>3
       DEF LeitorDescarrega, LInv, Prioridades, RegLeitores, Tipos
  <2>6. RegLeitores'
    BY <1>1, <1>2, <1>13, <2>1, <2>2, <2>3, Finitos
       DEF LeitorDescarrega, LInv, Prioridades, Iguais, RegLeitores, Tipos
  <2> QED BY <1>3, <2>1, <2>2, <2>4, <2>5, <2>6
<1>14. CASE LeitorDesconta(t)
  <2>1. /\ Passa(t, "desconta", "testa") /\ Movido(reg, reg', Threads, t, reg[t] - 1)
        /\ querUsar' = querUsar /\ variante' = variante /\ perdeu' = perdeu
        /\ semEscritor' = semEscritor
    BY <1>1, <1>14 DEF LeitorDesconta, Tipos, Movido
  <2>2. /\ NaLista' = NaLista - 1 /\ Primeiros' = Primeiros
        /\ Chegando' = Chegando /\ NaoLargou' = IF reg[t] = 1 THEN NaoLargou + 1 ELSE NaoLargou
        /\ Dentro' = Dentro /\ Querendo' = Querendo
        /\ \A r \in Leitores : pc'[r] = IF r = t THEN "testa" ELSE pc[r]
        /\ \A r \in Leitores : reg'[r] = IF r = t THEN reg[t] - 1 ELSE reg[r]
        /\ \A w \in Escritores : pc'[w] = pc[w] /\ reg'[w] = reg[w]
    <3>1. \A r \in Leitores : reg'[r] = IF r = t THEN reg[t] - 1 ELSE reg[r]
      BY <1>1, <2>1 DEF Movido
    <3>2. reg[t] \in Int
      BY <1>1 DEF Tipos
    <3> QED BY <1>1, <1>2, <2>1, <3>1, <3>2, ContasLeitor
            DEF Muda, Onde, Contado, Esperou, Entrando, Ultimo
  <2>3. pc[t] = "desconta" /\ ~corrida
    BY <2>1 DEF Passa, Roda
  <2>4. Iguais'
    BY <1>1, <1>2, <1>14, <2>1, <2>2, <2>3 DEF LeitorDesconta, LInv, Iguais, Tipos
  <2>5. Prioridades'
    <3>1. reg[t] = usando /\ usando' = usando - 1 /\ usando \in Int
      BY <1>1, <1>14, <2>3 DEF LeitorDesconta, LInv, RegLeitores, Tipos
    <3>2. ASSUME ~corrida'
          PROVE  Chegando = 0
      <4>1. \A r \in Leitores : Lugar[r] \notin Entrando
        BY <1>14, <2>3, <3>2 DEF LeitorDesconta, Sobreposto, Lugar, Onde, Entrando
      <4> QED BY <4>1, Finitos, QuantosNatural DEF Chegando
    <3> QED BY <1>1, <1>2, <2>1, <2>2, <2>3, <3>1, <3>2 DEF LInv, Prioridades, Tipos
  <2>6. RegLeitores'
    BY <1>1, <1>2, <1>14, <2>1, <2>2, <2>3, Finitos
       DEF LeitorDesconta, Sobreposto, LInv, Prioridades, Iguais, RegLeitores, Tipos
  <2> QED BY <1>3, <2>1, <2>2, <2>4, <2>5, <2>6
<1>15. CASE LeitorUltimo(t)
  <2>1. /\ Passa(t, "testa", "inicio") /\ Movido(reg, reg', Threads, t, 0)
        /\ querUsar' = querUsar /\ variante' = variante /\ perdeu' = perdeu
        /\ semEscritor' = semEscritor + 1
    BY <1>1, <1>15 DEF LeitorUltimo, SemPost, Tipos, Movido
  <2>2. /\ NaLista' = NaLista /\ Primeiros' = Primeiros
        /\ Chegando' = Chegando /\ NaoLargou' = IF reg[t] = 0 THEN NaoLargou - 1 ELSE NaoLargou
        /\ Dentro' = Dentro /\ Querendo' = Querendo
        /\ \A r \in Leitores : pc'[r] = IF r = t THEN "inicio" ELSE pc[r]
        /\ \A r \in Leitores : reg'[r] = IF r = t THEN 0 ELSE reg[r]
        /\ \A w \in Escritores : pc'[w] = pc[w] /\ reg'[w] = reg[w]
    <3>1. \A r \in Leitores : reg'[r] = IF r = t THEN 0 ELSE reg[r]
      BY <1>1, <2>1 DEF Movido
    <3>2. reg[t] \in Int
      BY <1>1 DEF Tipos
    <3> QED BY <1>1, <1>2, <2>1, <3>1, <3>2, ContasLeitor
            DEF Muda, Onde, Contado, Esperou, Entrando, Ultimo
  <2>3. pc[t] = "testa" /\ ~corrida
    BY <2>1 DEF Passa, Roda
  <2>4. Iguais'
    BY <1>1, <1>2, <1>15, <2>1, <2>2, <2>3 DEF LeitorUltimo, LInv, Iguais, Tipos
  <2>5. Prioridades'
    <3>1. usando' = usando /\ usando = 0 /\ (~corrida' => reg[t] = 0)
      BY <1>15 DEF LeitorUltimo
    <3> QED BY <1>1, <1>2, <2>1, <2>2, <2>3, <3>1 DEF LInv, Prioridades, Tipos
  <2>6. RegLeitores'
    BY <1>1, <1>2, <1>15, <2>1, <2>2, <2>3, Finitos
       DEF LeitorUltimo, LInv, Prioridades, Iguais, RegLeitores, Tipos
  <2> QED BY <1>3, <2>1, <2>2, <2>4, <2>5, <2>6
<1>16. CASE LeitorNaoUltimo(t)
  <2>1. /\ Passa(t, "testa", "inicio") /\ Movido(reg, reg', Threads, t, 0)
        /\ querUsar' = querUsar /\ variante' = variante /\ perdeu' = perdeu
        /\ semEscritor' = semEscritor
    BY <1>1, <1>16 DEF LeitorNaoUltimo, Tipos, Movido
  <2>2. /\ NaLista' = NaLista /\ Primeiros' = Primeiros
        /\ Chegando' = Chegando /\ NaoLargou' = IF reg[t] = 0 THEN NaoLargou - 1 ELSE NaoLargou
        /\ Dentro' = Dentro /\ Querendo' = Querendo
        /\ \A r \in Leitores : pc'[r] = IF r = t THEN "inicio" ELSE pc[r]
        /\ \A r \in Leitores : reg'[r] = IF r = t THEN 0 ELSE reg[r]
        /\ \A w \in Escritores : pc'[w] = pc[w] /\ reg'[w] = reg[w]
    <3>1. \A r \in Leitores : reg'[r] = IF r = t THEN 0 ELSE reg[r]
      BY <1>1, <2>1 DEF Movido
    <3>2. reg[t] \in Int
      BY <1>1 DEF Tipos
    <3> QED BY <1>1, <1>2, <2>1, <3>1, <3>2, ContasLeitor
            DEF Muda, Onde, Contado, Esperou, Entrando, Ultimo
  <2>3. pc[t] = "testa" /\ ~corrida
    BY <2>1 DEF Passa, Roda
  <2>4. Iguais'
    BY <1>1, <1>2, <1>16, <2>1, <2>2, <2>3 DEF LeitorNaoUltimo, LInv, Iguais, Tipos
  <2>5. Prioridades'
    <3>1. usando' = usando /\ usando # 0 /\ (~corrida' => reg[t] # 0)
      BY <1>16 DEF LeitorNaoUltimo
    <3> QED BY <1>1, <1>2, <2>1, <2>2, <2>3, <3>1 DEF LInv, Prioridades, Tipos
  <2>6. RegLeitores'
    BY <1>1, <1>2, <1>16, <2>1, <2>2, <2>3, Finitos
       DEF LeitorNaoUltimo, LInv, Prioridades, Iguais, RegLeitores, Tipos
  <2> QED BY <1>3, <2>1, <2>2, <2>4, <2>5, <2>6
<1> QED BY <1>1, <1>4, <1>5, <1>6, <1>7, <1>8, <1>9, <1>10,
          <1>11, <1>12, <1>13, <1>14, <1>15, <1>16 DEF Passo

-----------------------------------------------------------------------------
\* The invariant, and what it says of the program.

LEMMA InitLInv == Init => LInv
<1> SUFFICES ASSUME Init PROVE LInv
  OBVIOUS
<1>1. Tipos
  <2>1. variante \in {"igual", "leitor", "escritor"} /\ fila \in 0..LIMITE
    BY ConstantesAssumption DEF Init
  <2>2. pc \in [Threads -> Lugares] /\ reg \in [Threads -> Int]
    BY DEF Init, Lugares
  <2>3. corrida \in BOOLEAN /\ perdeu \in BOOLEAN
    BY Zenon DEF Init
  <2>4. /\ variante \in Variantes /\ erro \in {"nao", "segv"}
        /\ semEscritor \in Nat /\ usando \in Int /\ querUsar \in Int
    BY DEF Init
  <2> QED BY <2>1, <2>2, <2>3, <2>4 DEF Tipos
<1>2. /\ \A w \in Escritores : pc[w] = "inicio" /\ reg[w] = 0
      /\ \A r \in Leitores : pc[r] = "inicio" /\ reg[r] = 0 /\ Lugar[r] = "inicio"
  BY DEF Init, Threads, Lugar, Onde
<1>3. /\ \A w \in Escritores : pc[w] \notin Dono /\ pc[w] \notin Pediu
      /\ \A r \in Leitores : /\ Lugar[r] \notin Contado /\ Lugar[r] \notin Esperou
                             /\ Lugar[r] \notin Entrando /\ Lugar[r] \notin Ultimo
  BY <1>2 DEF Dono, Pediu, Contado, Esperou, Entrando, Ultimo
<1>4. /\ Dentro = 0 /\ Querendo = 0 /\ NaLista = 0
      /\ Primeiros = 0 /\ Chegando = 0 /\ NaoLargou = 0
  BY <1>3, Finitos, QuantosNatural DEF Dentro, Querendo, NaLista, Primeiros, Chegando, NaoLargou
<1>5. Iguais /\ Prioridades
  BY <1>2, <1>4 DEF Init, Iguais, Prioridades
<1>6. RegLeitores /\ Pedidos
  BY <1>2, <1>4, Finitos DEF Init, RegLeitores, Pedidos, Contando
<1> QED BY <1>1, <1>5, <1>6 DEF LInv

LEMMA ParadoLInv ==
    ASSUME LInv, UNCHANGED <<variante, semEscritor, usando, querUsar, pc, reg, corrida, perdeu>>,
           fila' = fila, erro' \in {"nao", "segv"}
    PROVE  LInv'
<1>1. /\ Dentro' = Dentro /\ Querendo' = Querendo /\ NaLista' = NaLista
      /\ Primeiros' = Primeiros /\ Chegando' = Chegando /\ NaoLargou' = NaoLargou
  BY DEF Dentro, Querendo, NaLista, Primeiros, Chegando, NaoLargou, Lugar, Quantos
<1> QED BY <1>1 DEF LInv, Tipos, Iguais, Prioridades, RegLeitores, Pedidos

LEMMA PassoLInv ==
    ASSUME LInv, NEW t \in Threads, Passo(t)
    PROVE  LInv'
<1>1. CASE ListaVazia(t)
  BY <1>1, ParadoLInv DEF ListaVazia
<1>2. CASE ~ListaVazia(t)
  <2>1. \/ t \in Escritores /\ t \notin Leitores
        \/ t \in Leitores /\ t \notin Escritores
    BY ConstantesAssumption DEF Threads
  <2>2. Tipos'
    BY TiposPasso DEF LInv
  <2> QED BY <1>2, <2>1, <2>2, EscritorContas, LeitorContas DEF LInv
<1> QED BY <1>1, <1>2

\* The counts hold for as long as no reader has acted on a stale usando.
THEOREM SemaforosContados == Spec => []LInv
<1>1. LInv /\ UNCHANGED vars => LInv'
  BY ParadoLInv DEF vars, LInv, Tipos
<1>2. LInv /\ [Next]_vars => LInv'
  BY <1>1, PassoLInv DEF Next, Parou
<1> QED BY <1>2, InitLInv, PTL DEF Spec

\* A writer on the list is alone on it.
THEOREM ExclusaoSempre == Spec => []ExclusaoMutua
<1>1. LInv => ExclusaoMutua
  <2> SUFFICES ASSUME LInv, ~corrida, EscritoresDentro # {}
               PROVE  Cardinality(EscritoresDentro) = 1 /\ EmLugar(Leitores, {"le"}) = {}
    BY DEF ExclusaoMutua
  <2>1. Cardinality(EscritoresDentro) = Dentro /\ Dentro # 0
    <3>1. \E w \in Escritores : pc[w] \in Dono
      BY DEF EscritoresDentro, EmLugar, Dono
    <3>2. Cardinality(EscritoresDentro) = Dentro
      BY DEF EscritoresDentro, EmLugar, Dono, Dentro, Quantos
    <3> QED BY <3>1, <3>2, Finitos, QuantosNatural DEF Dentro
  <2>2. Dentro = 1 /\ NaLista = 0
    BY <2>1, ContasNaturais DEF LInv, Tipos, Iguais, Prioridades
  <2>3. \A r \in Leitores : Lugar[r] \notin Contado
    BY <2>2, Finitos, QuantosNatural DEF NaLista
  <2>4. EmLugar(Leitores, {"le"}) = {}
    BY <2>3 DEF EmLugar, Lugar, Onde, Contado
  <2> QED BY <2>1, <2>2, <2>4
<1> QED BY <1>1, SemaforosContados, PTL

\* The semaphore is never lost nor given twice, and usando counts the readers.
THEOREM SemaforoSempreConservado == Spec => []SemaforoConservado
<1>1. LInv => SemaforoConservado
  <2> SUFFICES ASSUME LInv, ~corrida, variante # "igual"
               PROVE  SemaforoConservado
    BY DEF SemaforoConservado
  <2>1. Cardinality(EscritoresDentro) = Dentro
    BY DEF EscritoresDentro, EmLugar, Dono, Dentro, Quantos
  <2>2. Cardinality(EmLugar(Leitores, {"le", "sai", "desconta"})) = NaLista
    <3>1. EmLugar(Leitores, {"le", "sai", "desconta"}) = {r \in Leitores : Lugar[r] \in Contado}
      BY DEF EmLugar, Lugar, Onde, Contado
    <3> QED BY <3>1 DEF NaLista, Quantos
  <2>3. EmLugar(Leitores, {"primeiro", "conta"}) # {} <=> Primeiros # 0 \/ Chegando # 0
    <3>1. EmLugar(Leitores, {"primeiro", "conta"}) # {}
             <=> \E r \in Leitores : Lugar[r] \in Esperou \/ Lugar[r] \in Entrando
      BY DEF EmLugar, Lugar, Onde, Esperou, Entrando
    <3> QED BY <3>1, Finitos, QuantosNatural DEF Primeiros, Chegando
  <2>4. (\E r \in EmLugar(Leitores, {"testa"}) : reg[r] = 0) <=> NaoLargou # 0
    <3>1. (\E r \in EmLugar(Leitores, {"testa"}) : reg[r] = 0)
             <=> \E r \in Leitores : Lugar[r] \in Ultimo
      <4>1. \A r \in Leitores : pc[r] \in Lugares
        BY DEF LInv, Tipos, Threads
      <4> QED BY <4>1 DEF EmLugar, Lugar, Onde, Ultimo, Lugares
    <3> QED BY <3>1, Finitos, QuantosNatural DEF NaoLargou
  <2> QED BY <2>1, <2>2, <2>3, <2>4, ContasNaturais
          DEF LInv, Tipos, Prioridades, SemaforoConservado
<1> QED BY <1>1, SemaforosContados, PTL

\* querUsar counts the writers that want the list, while none of their updates
\* is lost.
THEOREM QuerUsarSempreConta == Spec => []QuerUsarConta
<1>1. LInv => QuerUsarConta
  <2> SUFFICES ASSUME LInv, ~corrida, ~perdeu
               PROVE  QuerUsarConta
    BY DEF QuerUsarConta
  <2>1. querUsar = IF variante = "escritor" THEN Querendo ELSE 0
    BY DEF LInv, Pedidos
  <2>2. Cardinality(EmLugar(Escritores, {"pede", "escreve", "sai", "larga"})) = Querendo
    BY DEF EmLugar, Pediu, Querendo, Quantos
  <2>3. semEscritor \in 0..1 /\ usando \in 0..Cardinality(Leitores)
    BY Finitos, ContasNaturais DEF LInv, Tipos, Iguais, Prioridades
  <2>4. querUsar \in 0..Cardinality(Escritores)
    BY <2>1, Finitos, ContasNaturais
  <2>5. reg \in [Threads -> 0..Cardinality(Threads)]
    <3>1. /\ IsFiniteSet(Threads) /\ Cardinality(Threads) \in Nat
          /\ Cardinality(Escritores) <= Cardinality(Threads)
          /\ Cardinality(Leitores) <= Cardinality(Threads)
      BY Finitos, FS_Union, FS_Subset, FS_CardinalityType DEF Threads
    <3>2. \A t \in Threads : reg[t] \in 0..Cardinality(Threads)
      BY <3>1, Finitos DEF LInv, Pedidos, RegLeitores, Threads
    <3> QED BY <3>2 DEF LInv, Tipos
  <2> QED BY <2>1, <2>2, <2>3, <2>4, <2>5 DEF LInv, Tipos, TypeOK, QuerUsarConta
<1> QED BY <1>1, SemaforosContados, PTL

=============================================================================
