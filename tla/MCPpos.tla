------------------------------- MODULE MCPpos -------------------------------
(* Ppos on small instances, for TLC. *)
EXTENDS PposInv

\* The application's descriptors are interchangeable.
Simetria == Permutations(UserTasks)

=============================================================================
