--------------------------- MODULE MCSharedStateDir ---------------------------
(***************************************************************************)
(* A run of one server, and another server on the same state directory.    *)
(***************************************************************************)
EXTENDS SharedStateDir

CONSTANT p

MCHome == [r \in Run |-> p]
===============================================================================
