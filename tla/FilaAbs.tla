------------------------------ MODULE FilaAbs ------------------------------
(***************************************************************************)
(* What the queue library promises (include/queue.h): each queue is a      *)
(* sequence of elements, an element is in at most one queue, and a call    *)
(* that breaks a precondition changes nothing and returns its error code.  *)
(***************************************************************************)
EXTENDS Integers, Sequences, SequencesExt

CONSTANTS Elems, Filas, NULL

VARIABLES fila, retorno   \* the sequences, the value the last call returned

vars == <<fila, retorno>>

EmAlguma(e) == \E f \in Filas : e \in ToSet(fila[f])

Init == fila = [f \in Filas |-> <<>>] /\ retorno = 0

Falha(erro) == retorno' = erro /\ UNCHANGED fila

Insere(f, e) ==
    \/ f = NULL /\ Falha(-1)
    \/ f # NULL /\ e = NULL /\ Falha(-2)
    \/ f # NULL /\ e # NULL /\ EmAlguma(e) /\ Falha(-3)
    \/ /\ f # NULL /\ e # NULL /\ ~EmAlguma(e)
       /\ fila' = [fila EXCEPT ![f] = Append(@, e)]
       /\ retorno' = 0

Tira(f, e) ==
    \/ f = NULL /\ Falha(-1)
    \/ f # NULL /\ fila[f] = <<>> /\ Falha(-2)
    \/ f # NULL /\ fila[f] # <<>> /\ e = NULL /\ Falha(-3)
    \/ f # NULL /\ fila[f] # <<>> /\ e # NULL /\ e \notin ToSet(fila[f]) /\ Falha(-5)
    \/ /\ f # NULL
       /\ \E i \in 1..Len(fila[f]) :
             fila[f][i] = e /\ fila' = [fila EXCEPT ![f] = RemoveAt(@, i)]
       /\ retorno' = 0

Tamanho(f) == retorno' = Len(fila[f]) /\ UNCHANGED fila

Next ==
    \/ \E f \in Filas \cup {NULL}, e \in Elems \cup {NULL} : Insere(f, e) \/ Tira(f, e)
    \/ \E f \in Filas : Tamanho(f)

Spec == Init /\ [][Next]_vars

=============================================================================
