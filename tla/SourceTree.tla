------------------------------- MODULE SourceTree -------------------------------
(***************************************************************************)
(* The runs of one server in the directories they work on.  A run works    *)
(* inside the scopes of its request as ExclusiveScopes says, which the     *)
(* serialize locks implement, and may add an entry to the archive index of *)
(* its source before it leaves them (apply_archive_hook).                  *)
(*                                                                         *)
(* The index is a file that is read, extended and written again, in two    *)
(* steps.  The task of a spawned run holds the lock of the runtime state   *)
(* meanwhile, which keeps other spawned runs out; run_agent holds nothing  *)
(* but its serialize locks.  One write of the file is one step.            *)
(***************************************************************************)
EXTENDS ConflictKeys

CONSTANT Run

ASSUME SyncAssumption == \A q \in Request : q.sync \in BOOLEAN   \* run_agent

VARIABLES
  request,  \* what each run was asked for
  stage,    \* where the run is
  seen,     \* the entries it read from the index of its source
  index,    \* the runs with an entry in the index of their source
  lost      \* history: the runs whose entry was once overwritten

vars == <<request, stage, seen, index, lost>>

Keys(r) == LockKeys(request[r])

(* The run holds its serialize locks.  (Mutant: run_agent gives them back  *)
(* before the archive hook.)                                               *)
InsideUntilHook(r) == stage[r] \in {"inside", "archived"}
Inside(r) == stage[r] \in {"inside", "reading", "archived"}

TypeOK ==
  /\ request \in [Run -> Request]
  /\ stage \in [Run -> {"waiting", "inside", "reading", "archived", "left"}]
  /\ seen \in [Run -> SUBSET Run]
  /\ index \subseteq Run
  /\ lost \subseteq Run

Init ==
  /\ request \in [Run -> Request]
  /\ stage = [r \in Run |-> "waiting"]
  /\ seen = [r \in Run |-> {}]
  /\ index = {}
  /\ lost = {}

Move(r, from, to) == stage[r] = from /\ stage' = [stage EXCEPT ![r] = to]

(* All serialize locks of the run are held.                                *)
Enter(r) ==
  /\ Move(r, "waiting", "inside")
  /\ \A o \in Run \ {r} : Inside(o) => Keys(o) \cap Keys(r) = {}
  /\ UNCHANGED <<request, seen, index, lost>>

(* The runs with an entry in the file that r reads and writes.             *)
SameSource(r) == {o \in Run : request[o].source = request[r].source}

(* The run holds the lock of the runtime state for its hook.               *)
HasTheState(r) == ~request[r].sync /\ stage[r] = "reading"

(* The archive hook: the index is read ...                                 *)
ReadIndex(r) ==
  /\ request[r].sync \/ ~ \E o \in Run : HasTheState(o)
  /\ Move(r, "inside", "reading")
  /\ seen' = [seen EXCEPT ![r] = index \cap SameSource(r)]
  /\ UNCHANGED <<request, index, lost>>

(* ... and written.                                                        *)
WriteIndex(r) ==
  /\ Move(r, "reading", "archived")
  /\ index' = (index \ SameSource(r)) \cup seen[r] \cup {r}
  /\ lost' = lost \cup (index \ index')
  /\ UNCHANGED <<request, seen>>

(* The locks are released: at the end, after an error, after an abort,     *)
(* also when the index could not be read or not be written.                *)
Leave(r) ==
  /\ \E from \in {"inside", "reading", "archived"} : Move(r, from, "left")
  /\ UNCHANGED <<request, seen, index, lost>>

Next == \E r \in Run :
  Enter(r) \/ ReadIndex(r) \/ WriteIndex(r) \/ Leave(r)

Spec == Init /\ [][Next]_vars

--------------------------------------------------------------------------------
(* The inductive invariant: runs inside share no key, and one at most has  *)
(* the state lock; the index holds what a reader saw, and a reader saw     *)
(* what those added who cannot write while it reads, as far as nothing of  *)
(* it was ever lost.                                                       *)
Exclusive ==
  \A r, o \in Run : r # o /\ Inside(r) /\ Inside(o) => Keys(r) \cap Keys(o) = {}

OneHasTheState == \A r, o \in Run : HasTheState(r) /\ HasTheState(o) => r = o

(* Two runs that cannot be in the archive hook at the same time.           *)
KeptApart(r, o) ==
  Keys(r) \cap Keys(o) # {} \/ (~request[r].sync /\ ~request[o].sync)

SeenIsCurrent ==
  \A r \in Run : stage[r] = "reading" =>
    /\ seen[r] \ lost \subseteq index
    /\ \A e \in (index \ lost) \cap SameSource(r) : KeptApart(e, r) => e \in seen[r]

TreeInv == TypeOK /\ Exclusive /\ OneHasTheState /\ SeenIsCurrent

(* Two runs that write a common file never work at the same time.  This is *)
(* what the serialize policy is for.                                       *)
NoConflictInside ==
  \A r, o \in Run :
    r # o /\ Inside(r) /\ Inside(o) => ~Conflicting(request[r], request[o])

(* The same for requests on one source that both select files, or both     *)
(* select none, and write the paths of these without "..".                 *)
PlainConflictsExclude ==
  \A r, o \in Run :
    r # o /\ Inside(r) /\ Inside(o) /\ Comparable(request[r], request[o])
      => ~Conflicting(request[r], request[o])

(* An entry of the index is first lost to a run that read the index before *)
(* the entry was there, with no scope in common with the entry's run and   *)
(* one of the two a run_agent: serialize locks and state lock are held     *)
(* long enough, but run_agent does not take the second.  (Another run may  *)
(* then put the entry back from what it read, and anyone lose it again.)   *)
EntriesLostAcrossScopesOnly ==
  [][\A e \in index \ (index' \cup lost) : \E r \in Run :
       /\ stage[r] = "reading" /\ stage'[r] = "archived"
       /\ Keys(e) \cap Keys(r) = {}
       /\ (request[e].sync \/ request[r].sync)]_vars
================================================================================
