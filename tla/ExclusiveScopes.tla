---------------------------- MODULE ExclusiveScopes ----------------------------
(***************************************************************************)
(* What the serialize locks of the runtime promise, with nothing said of   *)
(* how: a run claims a set of scopes, and it works inside its scopes only  *)
(* while no other run works inside one of them.                            *)
(***************************************************************************)
CONSTANTS
  Run,        \* the runs of one server process
  LockKeys    \* LockKeys[r]: the scopes the run r claims

VARIABLE inside   \* the runs that work inside their scopes

Init == inside = {}

Enter(r) ==
  /\ r \in Run \ inside
  /\ \A q \in inside : LockKeys[q] \cap LockKeys[r] = {}
  /\ inside' = inside \cup {r}

Leave(r) ==
  /\ r \in inside
  /\ inside' = inside \ {r}

Next == \E r \in Run : Enter(r) \/ Leave(r)

Spec == Init /\ [][Next]_inside
================================================================================
