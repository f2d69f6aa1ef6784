------------------------------- MODULE RunPromise -------------------------------
(***************************************************************************)
(* What the server promises of a run, as seen by whoever holds the lock of *)
(* the runtime state: its status in the map, its status in run.json and    *)
(* its terminal events.  A run that was spawned is settled, by its task or *)
(* by a cancel, in one indivisible step that changes the three together.   *)
(* The call that made it writes the record it registered once, whatever    *)
(* has become of the run since; only a cancel can come before that.        *)
(***************************************************************************)
EXTENDS Sequences

CONSTANTS Run, Terminal

VARIABLES
  status,
  copy,    \* what the call that registered the run still has to save
  saved,
  events

promiseVars == <<status, copy, saved, events>>

Init ==
  /\ status = [r \in Run |-> "absent"]
  /\ copy   = [r \in Run |-> "none"]
  /\ saved  = [r \in Run |-> "absent"]
  /\ events = [r \in Run |-> <<>>]

(* A spawned run is registered as running, a synchronous one when it has   *)
(* finished.                                                               *)
Register(r) ==
  /\ status[r] = "absent"
  /\ \E s \in {"running"} \cup Terminal :
       /\ status' = [status EXCEPT ![r] = s]
       /\ copy'   = [copy EXCEPT ![r] = s]
  /\ UNCHANGED <<saved, events>>

Save(r) ==
  /\ copy[r] # "none"
  /\ saved' = [saved EXCEPT ![r] = copy[r]]
  /\ copy'  = [copy EXCEPT ![r] = "none"]
  /\ UNCHANGED <<status, events>>

Settle(r) ==
  /\ status[r] = "running"
  /\ \E s \in IF copy[r] = "none" THEN Terminal ELSE {"cancelled"} :
       /\ status' = [status EXCEPT ![r] = s]
       /\ saved'  = [saved EXCEPT ![r] = s]
       /\ events' = [events EXCEPT ![r] = <<s>>]
  /\ UNCHANGED copy

(* A run one of whose files could not be written is promised nothing, and  *)
(* no longer looked at.                                                    *)
GiveUp(r) ==
  /\ status' = [status EXCEPT ![r] = "given up"]
  /\ copy'   = [copy EXCEPT ![r] = "none"]
  /\ saved'  = [saved EXCEPT ![r] = "given up"]
  /\ events' = [events EXCEPT ![r] = <<>>]

Next == \E r \in Run : Register(r) \/ Save(r) \/ Settle(r) \/ GiveUp(r)

Spec == Init /\ [][Next]_promiseVars
================================================================================
