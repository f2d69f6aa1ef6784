--------------------------- MODULE MCProviderProcess ---------------------------
(***************************************************************************)
(* One execution with pipes that hold less than is written to them.        *)
(***************************************************************************)
EXTENDS ProviderProcess
================================================================================
