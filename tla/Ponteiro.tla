------------------------------ MODULE Ponteiro ------------------------------
(***************************************************************************)
(* The null pointer of the queue library's structures, one and the same    *)
(* for every module that looks at their links.                             *)
(***************************************************************************)
CONSTANT NULL

=============================================================================
