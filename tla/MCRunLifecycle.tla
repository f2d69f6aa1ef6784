----------------------------- MODULE MCRunLifecycle -----------------------------
(***************************************************************************)
(* One or two runs that claim the same scope and work in a temporary       *)
(* workspace, spawned or synchronous.                                      *)
(***************************************************************************)
EXTENDS RunLifecycle, TLC

CONSTANTS a, b

BothRuns == {a, b}
OnlyA == {a}
OneScope == {1}
EveryStatus == Terminal
SameScope == [r \in Run |-> {1}]
OneSync == (a :> "async") @@ (b :> "sync")
================================================================================
