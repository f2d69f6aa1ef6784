----------------------------- MODULE SerializeLocks -----------------------------
(***************************************************************************)
(* The serialize locks of one server process: acquire_serialize_locks,     *)
(* acquire_serialize_locks_from_state and the dropping of the guards they  *)
(* return (src/mcp/server.rs), as the synchronous and the asynchronous     *)
(* path of a run use them (src/mcp/tools.rs).                              *)
(*                                                                         *)
(* A run takes the mutexes of its keys one at a time, in the order of the  *)
(* sorted, deduplicated keys.  For each key it first locks the runtime     *)
(* state to get or insert the key's entry of `serialize_locks` and clones  *)
(* the Arc found there, then waits for the mutex behind the Arc.  Between  *)
(* the two the state is unlocked.  The future that waits may be dropped at *)
(* any await (cancel_agent aborts the task): everything it holds is then   *)
(* released.                                                               *)
(*                                                                         *)
(* A key is a string; only the order of the strings matters, so a key is   *)
(* the integer of its place in that order.                                 *)
(***************************************************************************)
EXTENDS Integers, FiniteSets

CONSTANTS
  Run,        \* the runs of one server process
  Key,        \* the lock keys, in the order of their strings
  LockKeys,   \* LockKeys[r]: what conflict_lock_keys returned for the run r
  Nobody      \* not a run

ASSUME KeyAssumption == Key \subseteq Int /\ IsFiniteSet(Key)
ASSUME RunAssumption == IsFiniteSet(Run) /\ Nobody \notin Run
ASSUME LockKeysAssumption == LockKeys \in [Run -> SUBSET Key]

VARIABLES
  stage,   \* where the run is in the acquisition
  todo,    \* the keys its loop has not locked yet
  arc,     \* the mutex whose Arc it cloned for the key at hand
  table,   \* serialize_locks: the run that inserted the entry of a key
  owner,   \* the run whose guard locks a mutex
  ahead    \* the runs queued on the same mutex before this one

lockVars == <<stage, todo, arc, table, owner, ahead>>

(***************************************************************************)
(* A mutex is named by its key and the run that created it: two runs that  *)
(* both inserted an entry for a key would wait on different mutexes.       *)
(***************************************************************************)
Mutex == Key \X Run

Stage == {"idle", "next", "cloned", "queued", "holding", "released"}

Acquiring(r) == stage[r] \in {"next", "cloned", "queued"}
Holding(r)   == stage[r] = "holding"

(* The keys the run has locked so far. *)
Taken(r) == LockKeys[r] \ todo[r]

(* The next key of the loop: the vector is sorted.  (Mutant: it is not.)   *)
AnyOf(k, S)   == k \in S
IsFirst(k, S) == k \in S /\ \A j \in S : k <= j

(* The Arc that entry(k).or_insert_with(..).clone() gives the run r.       *)
(* (Mutant: a new one is inserted in any case.)                            *)
Inserted(k, r) == r
Entry(k, r)    == IF table[k] = Nobody THEN r ELSE table[k]

(* The owners and the queues without the run r.  (Mutant: its guards are   *)
(* leaked.)                                                                *)
StayLocked(r) == owner
Unlock(r)     == [m \in Mutex |-> IF owner[m] = r THEN Nobody ELSE owner[m]]
Dequeue(r)    == [q \in Run |-> IF q = r THEN {} ELSE ahead[q] \ {r}]

LockTypeOK ==
  /\ stage \in [Run -> Stage]
  /\ todo \in [Run -> SUBSET Key]
  /\ arc \in [Run -> Mutex \cup {Nobody}]
  /\ table \in [Key -> Run \cup {Nobody}]
  /\ owner \in [Mutex -> Run \cup {Nobody}]
  /\ ahead \in [Run -> SUBSET Run]

LockInit ==
  /\ stage = [r \in Run |-> "idle"]
  /\ todo  = [r \in Run |-> {}]
  /\ arc   = [r \in Run |-> Nobody]
  /\ table = [k \in Key |-> Nobody]
  /\ owner = [m \in Mutex |-> Nobody]
  /\ ahead = [r \in Run |-> {}]

--------------------------------------------------------------------------------

(* The call.  Without keys it returns an empty vector of guards at once.   *)
Begin(r) ==
  /\ stage[r] = "idle"
  /\ stage' = [stage EXCEPT ![r] = IF LockKeys[r] = {} THEN "holding" ELSE "next"]
  /\ todo' = [todo EXCEPT ![r] = LockKeys[r]]
  /\ UNCHANGED <<arc, table, owner, ahead>>

(* The entry of the next key is looked up, and inserted when it is absent, *)
(* in one critical section of the runtime state.                           *)
LookUp(r) ==
  /\ stage[r] = "next"
  /\ \E k \in todo[r] :
       /\ IsFirst(k, todo[r])
       /\ table' = [table EXCEPT ![k] = Entry(k, r)]
       /\ arc' = [arc EXCEPT ![r] = <<k, Entry(k, r)>>]
  /\ stage' = [stage EXCEPT ![r] = "cloned"]
  /\ UNCHANGED <<todo, owner, ahead>>

(* lock_owned is polled for the first time: the run joins the queue of the *)
(* mutex, which tokio serves in the order of arrival.                      *)
Enqueue(r) ==
  /\ stage[r] = "cloned"
  /\ stage' = [stage EXCEPT ![r] = "queued"]
  /\ ahead' = [ahead EXCEPT ![r] = {q \in Run : stage[q] = "queued" /\ arc[q] = arc[r]}]
  /\ UNCHANGED <<todo, arc, table, owner>>

(* The guard is granted and pushed; the loop goes on or returns.           *)
Grant(r) ==
  /\ stage[r] = "queued"
  /\ owner[arc[r]] = Nobody
  /\ ahead[r] = {}
  /\ owner' = [owner EXCEPT ![arc[r]] = r]
  /\ todo' = [todo EXCEPT ![r] = @ \ {arc[r][1]}]
  /\ stage' = [stage EXCEPT ![r] = IF todo'[r] = {} THEN "holding" ELSE "next"]
  /\ arc' = [arc EXCEPT ![r] = Nobody]
  /\ ahead' = [q \in Run |-> ahead[q] \ {r}]
  /\ UNCHANGED table

(* The future or the vector of guards is dropped: the run leaves the queue *)
(* it waits in and unlocks every mutex it holds.                           *)
Drop(r) ==
  /\ Acquiring(r) \/ Holding(r)
  /\ stage' = [stage EXCEPT ![r] = "released"]
  /\ todo' = [todo EXCEPT ![r] = {}]
  /\ arc' = [arc EXCEPT ![r] = Nobody]
  /\ owner' = Unlock(r)
  /\ ahead' = Dequeue(r)
  /\ UNCHANGED table

(* The end of the run, and its abort while it still waits for a guard.     *)
Finish(r) == Holding(r) /\ Drop(r)
Abort(r)  == Acquiring(r) /\ Drop(r)

LockStep(r) ==
  Begin(r) \/ LookUp(r) \/ Enqueue(r) \/ Grant(r) \/ Finish(r) \/ Abort(r)

(* The server waits for requests once every run has ended.                 *)
Quiescent ==
  /\ \A r \in Run : stage[r] = "released"
  /\ UNCHANGED lockVars

LockNext == Quiescent \/ \E r \in Run : LockStep(r)

LockSpec == LockInit /\ [][LockNext]_lockVars

(***************************************************************************)
(* A run that holds its guards ends: every runner stops at its timeout.    *)
(* The scheduler polls every runnable task, and the mutexes are granted in *)
(* order, so weak fairness of each step is enough.  Nothing makes an abort *)
(* happen.                                                                 *)
(***************************************************************************)
FairLockSpec ==
  /\ LockSpec
  /\ \A r \in Run : /\ WF_lockVars(LookUp(r))
                    /\ WF_lockVars(Enqueue(r))
                    /\ WF_lockVars(Grant(r))
                    /\ WF_lockVars(Finish(r))

--------------------------------------------------------------------------------

(* Two runs that claim a common key never work at the same time: what      *)
(* FileConflictPolicy::Serialize is for.                                   *)
Exclusion ==
  \A p, q \in Run :
    p # q /\ Holding(p) /\ Holding(q) => LockKeys[p] \cap LockKeys[q] = {}

(* A mutex is locked only by a run that is still under way and claims its  *)
(* key, so neither the end of a run nor its abort leaves a lock behind.    *)
NoStrayGuard ==
  \A m \in Mutex :
    owner[m] # Nobody =>
      /\ Acquiring(owner[m]) \/ Holding(owner[m])
      /\ m[1] \in Taken(owner[m])

(* The runs that have to move before the queued run r can: the one that    *)
(* locks the mutex, and those queued before r.                             *)
WaitsFor(r) == ahead[r] \cup ({owner[arc[r]]} \ {Nobody})

(* There is no set of queued runs each of which waits for another of them: *)
(* the sorted order of acquisition rules every cycle of waiting out.       *)
NoDeadlock ==
  \A W \in (SUBSET Run) \ {{}} :
    ~ \A r \in W : stage[r] = "queued" /\ WaitsFor(r) \cap W # {}

(* A run that began to acquire its locks gets all of them, or is aborted.  *)
EveryRunGetsItsLocks == \A r \in Run : Acquiring(r) ~> ~Acquiring(r)

(* Why the above holds, for every set of runs and keys (the proofs are in  *)
(* RunLifecycleProof): the mutex of a key is the one in the table, a run   *)
(* owns exactly the mutexes of the keys it has taken, it took them in      *)
(* ascending order, and the queue before a waiter contains the queues      *)
(* before those it waits for.                                              *)
OwnersAreUnderWay ==
  \A m \in Mutex :
    owner[m] # Nobody => /\ Acquiring(owner[m]) \/ Holding(owner[m])
                         /\ m[1] \in Taken(owner[m])
                         /\ table[m[1]] = m[2]

TakenAreOwned ==
  \A r \in Run : Acquiring(r) \/ Holding(r) =>
    \A k \in Taken(r) : table[k] # Nobody /\ owner[<<k, table[k]>>] = r

TakenInOrder ==
  \A r \in Run :
    /\ todo[r] \subseteq LockKeys[r]
    /\ Acquiring(r) => \A j \in Taken(r), k \in todo[r] : j < k
    /\ Holding(r) => todo[r] = {}

ArcIsCurrent ==
  \A r \in Run : stage[r] \in {"cloned", "queued"} =>
    \E k \in todo[r] : /\ IsFirst(k, todo[r])
                       /\ table[k] # Nobody
                       /\ arc[r] = <<k, table[k]>>

QueuesNest ==
  \A r \in Run : \A q \in ahead[r] :
    /\ stage[r] = "queued" /\ stage[q] = "queued"
    /\ arc[q] = arc[r]
    /\ q \notin ahead[q] /\ ahead[q] \subseteq ahead[r]

LockInv ==
  LockTypeOK /\ OwnersAreUnderWay /\ TakenAreOwned /\ TakenInOrder
    /\ ArcIsCurrent /\ QueuesNest

(* The locks implement mutual exclusion of the scopes.                     *)
Scopes == INSTANCE ExclusiveScopes WITH inside <- {r \in Run : Holding(r)}
ScopesSpec == Scopes!Spec
================================================================================
