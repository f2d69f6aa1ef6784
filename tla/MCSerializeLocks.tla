---------------------------- MODULE MCSerializeLocks ----------------------------
(***************************************************************************)
(* Three runs whose key sets overlap pairwise, in a ring, and one that     *)
(* claims no key.                                                          *)
(***************************************************************************)
EXTENDS SerializeLocks, TLC

CONSTANTS r1, r2, r3, r4

MCRun == {r1, r2, r3, r4}
MCKey == 1..3
MCLockKeys == (r1 :> {1, 2}) @@ (r2 :> {2, 3}) @@ (r3 :> {1, 3}) @@ (r4 :> {})

================================================================================
