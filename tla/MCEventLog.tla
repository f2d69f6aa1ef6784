------------------------------- MODULE MCEventLog -------------------------------
(***************************************************************************)
(* One run that reports twice, with and without a cancel and a crash.      *)
(***************************************************************************)
EXTENDS EventLog
================================================================================
