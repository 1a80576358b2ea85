----------------------------- MODULE MCAplicacao -----------------------------
(* Aplicacao on small instances, for TLC. *)
EXTENDS Aplicacao

\* The priorities of two or three tasks in the applications.
MCPrios == -4..4

=============================================================================
