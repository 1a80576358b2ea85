------------------------------ MODULE Tarefas ------------------------------
(***************************************************************************)
(* What the PingPongOS kernel promises about the life of its tasks, with   *)
(* no queue, context or timer: a task becomes ready because a running task *)
(* created it, at most one task runs, a task that has exited is never run  *)
(* again and disappears before any other task runs.                        *)
(***************************************************************************)
CONSTANTS Usuarias, Main

VARIABLE estado   \* the phase of each task descriptor

Fases == {"fora", "pronta", "rodando", "terminada"}

EmFase(f) == {t \in Usuarias : estado[t] = f}
ProcessadorLivre == EmFase("rodando") \cup EmFase("terminada") = {}

Init == estado = [t \in Usuarias |-> IF t = Main THEN "pronta" ELSE "fora"]

Passa(t, de, para) == estado[t] = de /\ estado' = [estado EXCEPT ![t] = para]

Cria(t) == EmFase("rodando") # {} /\ Passa(t, "fora", "pronta")
Despacha(t) == ProcessadorLivre /\ Passa(t, "pronta", "rodando")
Devolve(t) == Passa(t, "rodando", "pronta")
Termina(t) == Passa(t, "rodando", "terminada")
Recolhe(t) == Passa(t, "terminada", "fora")

Next == \E t \in Usuarias :
            Cria(t) \/ Despacha(t) \/ Devolve(t) \/ Termina(t) \/ Recolhe(t)

Spec == Init /\ [][Next]_estado

=============================================================================
