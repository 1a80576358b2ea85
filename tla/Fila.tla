-------------------------------- MODULE Fila --------------------------------
(***************************************************************************)
(* The queue library (sources/queue.c): circular doubly linked rings whose *)
(* nodes are the elements themselves.  One caller at a time, as in         *)
(* testafila.c; the loops of queue_remove, queue_size and queue_print are  *)
(* taken one iteration per step, so that their termination is checked.     *)
(***************************************************************************)
EXTENDS Ponteiro, Integers, Sequences, FiniteSets, SequencesExt

CONSTANTS Elems, Filas

ASSUME NomesAssumption == NULL \notin Elems \cup Filas /\ IsFiniteSet(Elems)

VARIABLES
    cabeca,       \* the queue_t * variable of each queue
    next, prev,   \* the two fields of each element
    chamada,      \* the call in progress
    atual,        \* its local variable
    contador,     \* queue_size's counter
    impressos,    \* what queue_print has printed
    retorno       \* the value the last append, remove or size returned

anel == <<cabeca, next, prev>>
vars == <<anel, chamada, atual, contador, impressos, retorno>>

Nenhuma == [op |-> "nenhuma", fila |-> NULL, elem |-> NULL]
Livre == chamada = Nenhuma
Chama(o, f, e) == chamada' = [op |-> o, fila |-> f, elem |-> e]
Em(o) == chamada.op = o

\* queue_size and queue_print are given the value of the head.
Cabeca == cabeca[chamada.fila]

Init ==
    /\ cabeca = [f \in Filas |-> NULL]
    /\ next = [e \in Elems |-> NULL] /\ prev = [e \in Elems |-> NULL]
    /\ chamada = Nenhuma /\ atual = NULL
    /\ contador = 0 /\ impressos = <<>> /\ retorno = 0

\* A call returns r and its locals are gone.
Retorna(r) ==
    /\ retorno' = r
    /\ chamada' = Nenhuma /\ atual' = NULL /\ contador' = 0
    /\ UNCHANGED impressos

-----------------------------------------------------------------------------
\* queue_append.

\* Mutant: an element that is in a queue already is accepted.
ErroAppend_SemTeste(f, e) ==
    CASE f = NULL -> -1
      [] f # NULL /\ e = NULL -> -2
      [] OTHER -> 0

ErroAppend(f, e) ==
    CASE f = NULL -> -1
      [] f # NULL /\ e = NULL -> -2
      [] OTHER -> IF next[e] # NULL \/ prev[e] # NULL THEN -3 ELSE 0

AppendRecusa(f, e) ==
    /\ Livre /\ ErroAppend(f, e) # 0
    /\ Retorna(ErroAppend(f, e)) /\ UNCHANGED anel

AppendVazia(f, e) ==
    /\ Livre /\ ErroAppend(f, e) = 0 /\ cabeca[f] = NULL
    /\ cabeca' = [cabeca EXCEPT ![f] = e]
    /\ next' = [next EXCEPT ![e] = e]
    /\ prev' = [prev EXCEPT ![e] = e]
    /\ Retorna(0)

\* Mutant: the head moves to the new element, a stack instead of a queue.
AppendFim_NoInicio(f, e) ==
    /\ Livre /\ ErroAppend(f, e) = 0 /\ cabeca[f] # NULL
    /\ LET primeiro == cabeca[f]
           ultimo == prev[primeiro]
       IN  /\ next' = [next EXCEPT ![ultimo] = e, ![e] = primeiro]
           /\ prev' = [prev EXCEPT ![primeiro] = e, ![e] = ultimo]
    /\ cabeca' = [cabeca EXCEPT ![f] = e]
    /\ Retorna(0)

AppendFim(f, e) ==
    /\ Livre /\ ErroAppend(f, e) = 0 /\ cabeca[f] # NULL
    /\ LET primeiro == cabeca[f]
           ultimo == prev[primeiro]
       IN  /\ next' = [next EXCEPT ![ultimo] = e, ![e] = primeiro]
           /\ prev' = [prev EXCEPT ![primeiro] = e, ![e] = ultimo]
    /\ UNCHANGED cabeca
    /\ Retorna(0)

-----------------------------------------------------------------------------
\* queue_remove.

ErroRemove(f, e) ==
    CASE f = NULL -> -1
      [] f # NULL /\ e = NULL -> IF cabeca[f] = NULL THEN -2 ELSE -3
      [] OTHER -> IF cabeca[f] = NULL THEN -2 ELSE 0

RemoveRecusa(f, e) ==
    /\ Livre /\ ErroRemove(f, e) # 0
    /\ Retorna(ErroRemove(f, e)) /\ UNCHANGED anel

RemoveUnico(f, e) ==
    /\ Livre /\ ErroRemove(f, e) = 0 /\ cabeca[f] = e /\ next[e] = e
    /\ cabeca' = [cabeca EXCEPT ![f] = NULL]
    /\ next' = [next EXCEPT ![e] = NULL]
    /\ prev' = [prev EXCEPT ![e] = NULL]
    /\ Retorna(0)

\* Mutant: the backward link of the successor is forgotten.
Desliga_SemVolta(e) ==
    /\ next' = [next EXCEPT ![prev[e]] = next[e], ![e] = NULL]
    /\ prev' = [prev EXCEPT ![e] = NULL]

\* The four stores that unlink an element with two distinct neighbours or the
\* same neighbour twice.
Desliga(e) ==
    /\ next' = [next EXCEPT ![prev[e]] = next[e], ![e] = NULL]
    /\ prev' = [prev EXCEPT ![next[e]] = prev[e], ![e] = NULL]

RemoveCabeca(f, e) ==
    /\ Livre /\ ErroRemove(f, e) = 0 /\ cabeca[f] = e /\ next[e] # e
    /\ cabeca' = [cabeca EXCEPT ![f] = next[e]]
    /\ Desliga(e)
    /\ Retorna(0)

RemoveComeca(f, e) ==
    /\ Livre /\ ErroRemove(f, e) = 0 /\ cabeca[f] # e
    /\ Chama("remove", f, e)
    /\ atual' = cabeca[f]
    /\ UNCHANGED <<anel, contador, impressos, retorno>>

\* Mutant: the walk does not notice that it is back at the head.
RemoveAvanca_SemVolta ==
    /\ Em("remove") /\ next[atual] # chamada.elem
    /\ atual' = next[atual]
    /\ UNCHANGED <<anel, chamada, contador, impressos, retorno>>

\* An iteration of the search; -4 is a broken ring, -5 an element not found.
RemoveAvanca ==
    LET proximo == next[atual] IN
    /\ Em("remove") /\ proximo # chamada.elem
    /\ IF proximo = NULL THEN Retorna(-4)
       ELSE IF proximo = Cabeca THEN Retorna(-5)
       ELSE atual' = proximo /\ UNCHANGED <<chamada, contador, impressos, retorno>>
    /\ UNCHANGED anel

RemoveAcha ==
    /\ Em("remove") /\ next[atual] = chamada.elem
    /\ Desliga(chamada.elem)
    /\ UNCHANGED cabeca
    /\ Retorna(0)

-----------------------------------------------------------------------------
\* queue_size.

SizeVazia(f) == Livre /\ cabeca[f] = NULL /\ Retorna(0) /\ UNCHANGED anel

SizeComeca(f) ==
    /\ Livre /\ cabeca[f] # NULL
    /\ Chama("size", f, NULL)
    /\ atual' = cabeca[f] /\ contador' = 0
    /\ UNCHANGED <<anel, impressos, retorno>>

SizeAvanca ==
    /\ Em("size")
    /\ IF next[atual] = Cabeca THEN Retorna(contador + 1)
       ELSE /\ atual' = next[atual] /\ contador' = contador + 1
            /\ UNCHANGED <<chamada, impressos, retorno>>
    /\ UNCHANGED anel

-----------------------------------------------------------------------------
\* queue_print: the test of the loop looks one element ahead, and the element
\* the loop stops at is printed after it.

FimDaImpressao == chamada' = Nenhuma /\ atual' = NULL /\ UNCHANGED <<anel, contador, retorno>>

PrintVazia(f) == Livre /\ cabeca[f] = NULL /\ impressos' = <<>> /\ FimDaImpressao

PrintComeca(f) ==
    /\ Livre /\ cabeca[f] # NULL
    /\ Chama("print", f, NULL)
    /\ atual' = cabeca[f] /\ impressos' = <<>>
    /\ UNCHANGED <<anel, contador, retorno>>

PrintAvanca ==
    /\ Em("print") /\ next[next[atual]] # Cabeca
    /\ impressos' = Append(impressos, atual)
    /\ atual' = next[atual]
    /\ UNCHANGED <<anel, chamada, contador, retorno>>

\* Mutant: nothing is printed after the loop.
PrintTermina_SemUltimo ==
    /\ Em("print") /\ next[next[atual]] = Cabeca
    /\ impressos' = Append(impressos, atual)
    /\ FimDaImpressao

PrintTermina ==
    /\ Em("print") /\ next[next[atual]] = Cabeca
    /\ impressos' = impressos \o <<atual, next[atual]>>
    /\ FimDaImpressao

-----------------------------------------------------------------------------
Continua == RemoveAvanca \/ RemoveAcha \/ SizeAvanca \/ PrintAvanca \/ PrintTermina

Next ==
    \/ \E f \in Filas \cup {NULL}, e \in Elems \cup {NULL} :
          AppendRecusa(f, e) \/ RemoveRecusa(f, e)
    \/ \E f \in Filas, e \in Elems :
          \/ AppendVazia(f, e) \/ AppendFim(f, e)
          \/ RemoveUnico(f, e) \/ RemoveCabeca(f, e) \/ RemoveComeca(f, e)
    \/ \E f \in Filas :
          SizeVazia(f) \/ SizeComeca(f) \/ PrintVazia(f) \/ PrintComeca(f)
    \/ Continua

Spec == Init /\ [][Next]_vars

\* The processor executes the loop of a call that has begun.
LiveSpec == Spec /\ WF_vars(Continua)

-----------------------------------------------------------------------------
\* The sequence a ring stands for: what a walk along "next" visits from the
\* head until it is about to come back to it.

N == Cardinality(Elems)

\* The walk, NULL from where it ends.
Passeio(inicio, nx) ==
    LET p[i \in 1..N] ==
            IF i = 1 THEN inicio
            ELSE IF p[i - 1] = NULL \/ nx[p[i - 1]] = inicio THEN NULL
            ELSE nx[p[i - 1]]
    IN  p

Comprimento(p) == CHOOSE n \in 0..N : \A i \in 1..N : p[i] # NULL <=> i <= n

Percurso(inicio, nx) ==
    LET p == Passeio(inicio, nx) IN SubSeq(p, 1, Comprimento(p))

Conteudo(f) == Percurso(cabeca[f], next)

-----------------------------------------------------------------------------
\* Properties.

\* The values every variable takes; retorno is never another error code.
TypeOK ==
    /\ cabeca \in [Filas -> Elems \cup {NULL}]
    /\ next \in [Elems -> Elems \cup {NULL}] /\ prev \in [Elems -> Elems \cup {NULL}]
    /\ chamada \in [op : {"nenhuma", "remove", "size", "print"},
                    fila : Filas \cup {NULL}, elem : Elems \cup {NULL}]
    /\ atual \in Elems \cup {NULL}
    /\ contador \in 0..N
    /\ impressos \in Seq(Elems)
    /\ retorno \in {-5, -3, -2, -1} \cup 0..N

\* Every element is either outside all queues, with both links NULL, or in the
\* ring of exactly one head, where next and prev are inverse of each other.
AneisConsistentes ==
    /\ \A e \in Elems :
          IF \E f \in Filas : e \in ToSet(Conteudo(f))
          THEN /\ next[e] # NULL /\ prev[e] # NULL
               /\ prev[next[e]] = e /\ next[prev[e]] = e
          ELSE next[e] = NULL /\ prev[e] = NULL
    /\ \A f, g \in Filas : f # g => ToSet(Conteudo(f)) \cap ToSet(Conteudo(g)) = {}

\* The rings implement the sequences of FilaAbs, with the same return codes:
\* every call inserts last, removes the right element or refuses with the code
\* of queue.h, and queue_size counts the elements.
A == INSTANCE FilaAbs WITH fila <- [f \in Filas |-> Conteudo(f)]

ImplementaFila == A!Spec

\* queue_print shows every element once, in order, when the queue has several.
ImprimeVarios ==
    [][Em("print") /\ chamada' = Nenhuma /\ Len(Conteudo(chamada.fila)) > 1
          => impressos' = Conteudo(chamada.fila)]_vars

\* No walk over a ring goes on for ever.
ChamadaTermina == ~Livre ~> Livre

=============================================================================
