------------------------------ MODULE RunLifecycle ------------------------------
(***************************************************************************)
(* The runs of one server process, from the tool call that starts them to  *)
(* their record on disk: spawn_agent, run_agent, cancel_agent, the         *)
(* background task and what it calls (run_dispatch, the drop of the        *)
(* workspace guard, persist_run_record), get_agent_status and              *)
(* wait_for_run.  The serialize locks are those of SerializeLocks.         *)
(*                                                                         *)
(* The runtime is multi-threaded.  A step is the code between two points   *)
(* where another thread can notice the difference: an await, the lock of   *)
(* the runtime state, a file operation.  The state lock is held across     *)
(* several file operations when a run is settled or cancelled; `section`   *)
(* is that critical section.                                               *)
(*                                                                         *)
(* Aborting a tokio task takes effect when the task is next polled, so the *)
(* task may still go past the awaits that are ready: every step of an      *)
(* aborted task stays possible, and so does its unwinding at an await.     *)
(*                                                                         *)
(* A file operation may fail, at most MaxFaults times in a behaviour.      *)
(***************************************************************************)
EXTENDS SerializeLocks, Sequences

CONSTANTS
  Mode,            \* "async" (spawn_agent) or "sync" (run_agent), per run
  TempWorkspace,   \* the runs whose workspace mode has a cleanup guard
  DispatchStatus,  \* the statuses with which run_dispatch may return
  WaitedFor,       \* the runs the process calls wait_for_run for
  MaxFaults        \* bound on failing file operations

ASSUME ModeAssumption == Mode \in [Run -> {"async", "sync"}]
ASSUME RunSetsAssumption == TempWorkspace \subseteq Run /\ WaitedFor \subseteq Run
ASSUME BoundAssumption == MaxFaults \in Nat

VARIABLES
  call,       \* the progress of the tool call that starts the run
  task,       \* where the body of the run is
  aborted,    \* the runs whose task got abort()
  result,     \* what run_dispatch returned
  workspace,  \* the runs that have a temporary workspace on disk
  mem,        \* the status in the runs map of the runtime state
  tasks,      \* the runs that have a JoinHandle in the tasks map
  section,    \* the critical section of the runtime state under way
  disk,       \* the status in run.json
  log,        \* the terminal events of events.jsonl
  told,       \* the terminal status a client was told
  waiter,     \* the progress of wait_for_run
  faults,     \* the number of file operations that failed
  failed,     \* the runs one of whose file operations failed
  overwritten \* the runs that were cancelled before spawn_agent wrote its copy
              \* of the record (a history variable)

runVars == <<call, task, aborted, result, workspace, mem, tasks, section, disk,
             log, told, waiter, faults, failed, overwritten>>
vars == <<lockVars, runVars>>

Terminal == {"succeeded", "failed", "cancelled", "timed_out"}
Status   == {"absent", "running"} \cup Terminal

ASSUME DispatchStatusAssumption == DispatchStatus \subseteq Terminal

CallStage == {"none", "inserted", "started", "accepted", "executing",
              "returned", "refused"}
TaskStage == {"none", "delayed", "failing", "locking", "executing", "settling",
              "persisting", "leaving", "unlocking", "done"}

(* The awaits of the task: where an abort takes effect.                    *)
Awaiting == {"delayed", "failing", "locking", "executing", "settling"}

NoSection == [run |-> Nobody, by |-> "none", step |-> "none"]
Unlocked  == section = NoSection
InSection(r) == section.run = r

TypeOK ==
  /\ LockTypeOK
  /\ call \in [Run -> CallStage]
  /\ task \in [Run -> TaskStage]
  /\ aborted \in SUBSET Run
  /\ result \in [Run -> Terminal \cup {"none", "error"}]
  /\ workspace \in SUBSET Run
  /\ mem \in [Run -> Status]
  /\ tasks \in SUBSET Run
  /\ section \in [run : Run \cup {Nobody}, by : {"none", "task", "cancel"},
                  step : {"none", "event", "persist"}]
  /\ disk \in [Run -> Status \cup {"torn"}]
  /\ log \in [Run -> Seq(Terminal)]
  /\ told \in [Run -> {"absent"} \cup Terminal]
  /\ waiter \in [Run -> {"none", "waiting", "returned"}]
  /\ faults \in 0..MaxFaults
  /\ failed \in SUBSET Run /\ overwritten \in SUBSET Run

Init ==
  /\ LockInit
  /\ call = [r \in Run |-> "none"]
  /\ task = [r \in Run |-> "none"]
  /\ aborted = {}
  /\ result = [r \in Run |-> "none"]
  /\ workspace = {}
  /\ mem = [r \in Run |-> "absent"]
  /\ tasks = {}
  /\ section = NoSection
  /\ disk = [r \in Run |-> "absent"]
  /\ log = [r \in Run |-> <<>>]
  /\ told = [r \in Run |-> "absent"]
  /\ waiter = [r \in Run |-> "none"]
  /\ faults = 0
  /\ failed = {} /\ overwritten = {}

--------------------------------------------------------------------------------
(* File operations.                                                        *)

(* A file operation for run r goes well, or fails and is remembered.       *)
FileOk == UNCHANGED <<faults, failed>>
FileFails(r) ==
  /\ faults < MaxFaults
  /\ faults' = faults + 1
  /\ failed' = failed \cup {r}

(* persist_run_record(r, status) returns Ok.  (Mutant: it does not replace *)
(* a run.json that exists.)                                                *)
PersistNew(r, status) ==
  disk' = [disk EXCEPT ![r] = IF @ = "absent" THEN status ELSE @] /\ FileOk
Persist(r, status) == disk' = [disk EXCEPT ![r] = status] /\ FileOk

(* It returns Err before run.json is written, in the middle of the write,  *)
(* or at one of the files it writes after run.json.                        *)
PersistFails(r, status) ==
  /\ FileFails(r)
  /\ \E d \in {disk[r], "torn", status} : disk' = [disk EXCEPT ![r] = d]

(* The file operations a caller ignores the result of (`let _ =`).         *)
AppendTerminal(r, status) ==
  \/ log' = [log EXCEPT ![r] = Append(@, status)] /\ FileOk
  \/ UNCHANGED log /\ FileFails(r)

--------------------------------------------------------------------------------
(* spawn_agent                                                             *)

(* upsert_and_persist_run puts the running record into the map ...         *)
SpawnInsert(r) ==
  /\ Mode[r] = "async" /\ call[r] = "none"
  /\ Unlocked
  /\ mem' = [mem EXCEPT ![r] = "running"]
  /\ call' = [call EXCEPT ![r] = "inserted"]
  /\ UNCHANGED <<lockVars, task, aborted, result, workspace, tasks, section, disk,
                 log, told, waiter, faults, failed, overwritten>>

(* ... and writes its own copy of that record after the lock is released,  *)
(* over what a cancel may have written meanwhile.  run.accepted and        *)
(* run.queued are appended and the task is spawned; an error of a file     *)
(* operation ends the call and leaves the record behind.                   *)
SpawnPersist(r) ==
  /\ call[r] = "inserted"
  /\ \/ /\ Persist(r, "running")
        /\ call' = [call EXCEPT ![r] = "started"]
        /\ task' = [task EXCEPT ![r] = "delayed"]
        /\ overwritten' = overwritten \cup
             {q \in {r} : mem[q] = "cancelled" /\ ~InSection(q)}
     \/ /\ PersistFails(r, "running")
        /\ call' = [call EXCEPT ![r] = "refused"]
        /\ UNCHANGED <<task, overwritten>>
  /\ UNCHANGED <<lockVars, aborted, result, workspace, mem, tasks, section, log,
                 told, waiter>>

(* The JoinHandle goes into the map only after the task was spawned.       *)
SpawnReturn(r) ==
  /\ call[r] = "started"
  /\ Unlocked
  /\ tasks' = tasks \cup {r}
  /\ call' = [call EXCEPT ![r] = "accepted"]
  /\ UNCHANGED <<lockVars, task, aborted, result, workspace, mem, section, disk,
                 log, told, waiter, faults, failed, overwritten>>

--------------------------------------------------------------------------------
(* The background task.                                                    *)

(* After its delay the task probes the provider.  If it is available the   *)
(* task calls acquire_serialize_locks_from_state.                          *)
Probe(r) ==
  /\ task[r] = "delayed"
  /\ \/ /\ task' = [task EXCEPT ![r] = "failing"]
        /\ UNCHANGED lockVars
     \/ /\ task' = [task EXCEPT ![r] = "locking"]
        /\ Begin(r)
  /\ UNCHANGED <<call, aborted, result, workspace, mem, tasks, section, disk, log,
                 told, waiter, faults, failed, overwritten>>

(* One step of the lock acquisition; the lookup locks the runtime state.   *)
AcquireStep(r) ==
  /\ task[r] = "locking"
  /\ (Unlocked /\ LookUp(r)) \/ Enqueue(r) \/ Grant(r)
  /\ UNCHANGED runVars

(* run_dispatch prepares the workspace under a cleanup guard and starts    *)
(* the provider, or returns an error and has dropped the guard.            *)
Prepare(r) ==
  /\ task[r] = "locking" /\ Holding(r)
  /\ \/ /\ task' = [task EXCEPT ![r] = "executing"]
        /\ workspace' = workspace \cup ({r} \cap TempWorkspace)
        /\ UNCHANGED result
     \/ /\ task' = [task EXCEPT ![r] = "settling"]
        /\ result' = [result EXCEPT ![r] = "error"]
        /\ UNCHANGED workspace
  /\ UNCHANGED <<lockVars, call, aborted, mem, tasks, section, disk, log, told,
                 waiter, faults, failed, overwritten>>

(* The workspaces without that of r: WorkspaceCleanupGuard::drop.          *)
(* (Mutant: the guard was forgotten.)                                      *)
Forgotten(r) == workspace
CleanedUp(r) == workspace \ {r}

(* run_dispatch returns.  An Ok result carries the cleanup guard along; an *)
(* error drops it.                                                         *)
DispatchReturns(r) ==
  /\ task[r] = "executing"
  /\ task' = [task EXCEPT ![r] = "settling"]
  /\ \/ /\ \E s \in DispatchStatus : result' = [result EXCEPT ![r] = s]
        /\ UNCHANGED workspace
     \/ /\ result' = [result EXCEPT ![r] = "error"]
        /\ workspace' = CleanedUp(r)
  /\ UNCHANGED <<lockVars, call, aborted, mem, tasks, section, disk, log, told,
                 waiter, faults, failed, overwritten>>

(* The status the task records: that of the dispatcher, or Failed when the *)
(* provider is unavailable or run_dispatch returned an error.              *)
(* (Mutant: the result as it is.)                                          *)
RawStatus(r)   == result[r]
FinalStatus(r) == IF result[r] \in Terminal THEN result[r] ELSE "failed"

(* The run was cancelled before its task got here.  (Mutant: not checked.) *)
NotChecked(r) == FALSE
Overtaken(r)  == mem[r] = "cancelled"

(* The task has the state lock: it takes its JoinHandle out of the map,    *)
(* and records its status unless the run was cancelled.                    *)
Settle(r) ==
  /\ Mode[r] = "async" /\ task[r] \in {"failing", "settling"}
  /\ Unlocked
  /\ tasks' = tasks \ {r}
  /\ \/ /\ Overtaken(r)
        /\ task' = [task EXCEPT ![r] = "leaving"]
        /\ UNCHANGED <<mem, section>>
     \/ /\ ~Overtaken(r)
        /\ mem' = [mem EXCEPT ![r] = FinalStatus(r)]
        /\ section' = [run |-> r, by |-> "task", step |-> "event"]
        /\ task' = [task EXCEPT ![r] = "persisting"]
  /\ UNCHANGED <<lockVars, call, aborted, result, workspace, disk, log, told,
                 waiter, faults, failed, overwritten>>

(* The terminal event is appended, and the workspace guard dropped.        *)
SettleEvent(r) ==
  /\ section = [run |-> r, by |-> "task", step |-> "event"]
  /\ AppendTerminal(r, mem[r])
  /\ workspace' = CleanedUp(r)
  /\ section' = [section EXCEPT !.step = "persist"]
  /\ UNCHANGED <<lockVars, call, task, aborted, result, mem, tasks, disk, told,
                 waiter, overwritten>>

(* The record is written; an error only goes into its error_message.  Then *)
(* the state lock is released.                                             *)
SettlePersist(r) ==
  /\ section = [run |-> r, by |-> "task", step |-> "persist"]
  /\ Persist(r, mem[r]) \/ PersistFails(r, mem[r])
  /\ section' = NoSection
  /\ task' = [task EXCEPT ![r] = "leaving"]
  /\ UNCHANGED <<lockVars, call, aborted, result, workspace, mem, tasks, log,
                 told, waiter, overwritten>>

(* An aborted task is dropped where it awaits.                             *)
Unwind(r) ==
  /\ r \in aborted /\ task[r] \in Awaiting
  /\ task' = [task EXCEPT ![r] = "leaving"]
  /\ UNCHANGED <<lockVars, call, aborted, result, workspace, mem, tasks, section,
                 disk, log, told, waiter, faults, failed, overwritten>>

(* The locals of the body are dropped in the reverse order of their        *)
(* declaration: the dispatch with its workspace guard before the guards of *)
(* the serialize locks.  From here on an abort changes nothing any more.   *)
DropDispatch(r) ==
  /\ task[r] = "leaving"
  /\ workspace' = CleanedUp(r)
  /\ result' = [result EXCEPT ![r] = "none"]
  /\ aborted' = aborted \ {r}
  /\ task' = [task EXCEPT ![r] = IF Acquiring(r) \/ Holding(r) THEN "unlocking" ELSE "done"]
  /\ UNCHANGED <<lockVars, call, mem, tasks, section, disk, log, told, waiter,
                 faults, failed, overwritten>>

DropLocks(r) ==
  /\ task[r] = "unlocking"
  /\ Drop(r)
  /\ task' = [task EXCEPT ![r] = "done"]
  /\ UNCHANGED <<call, aborted, result, workspace, mem, tasks, section, disk, log,
                 told, waiter, faults, failed, overwritten>>

TaskStep(r) ==
  \/ Probe(r) \/ AcquireStep(r) \/ Prepare(r) \/ DispatchReturns(r)
  \/ Settle(r) \/ SettleEvent(r) \/ SettlePersist(r)
  \/ Unwind(r) \/ DropDispatch(r) \/ DropLocks(r)

--------------------------------------------------------------------------------
(* run_agent                                                               *)

(* The provider is ready; the call takes its locks and then goes through   *)
(* the same dispatch as a task.                                            *)
SyncStart(r) ==
  /\ Mode[r] = "sync" /\ call[r] = "none"
  /\ call' = [call EXCEPT ![r] = "executing"]
  /\ task' = [task EXCEPT ![r] = "locking"]
  /\ Begin(r)
  /\ UNCHANGED <<aborted, result, workspace, mem, tasks, section, disk, log, told,
                 waiter, faults, failed, overwritten>>

(* An error of run_dispatch ends the call; no record was ever made.        *)
SyncError(r) ==
  /\ Mode[r] = "sync" /\ task[r] = "settling" /\ result[r] = "error"
  /\ call' = [call EXCEPT ![r] = "refused"]
  /\ task' = [task EXCEPT ![r] = "leaving"]
  /\ UNCHANGED <<lockVars, aborted, result, workspace, mem, tasks, section, disk,
                 log, told, waiter, faults, failed, overwritten>>

(* The workspace guard is dropped, and upsert_and_persist_run puts the     *)
(* finished record into the map ...                                        *)
SyncRecord(r) ==
  /\ Mode[r] = "sync" /\ task[r] = "settling" /\ result[r] \in Terminal
  /\ Unlocked
  /\ workspace' = CleanedUp(r)
  /\ mem' = [mem EXCEPT ![r] = result[r]]
  /\ task' = [task EXCEPT ![r] = "persisting"]
  /\ UNCHANGED <<lockVars, call, aborted, result, tasks, section, disk, log, told,
                 waiter, faults, failed, overwritten>>

(* ... and writes it without the lock, before the call returns.            *)
SyncPersist(r) ==
  /\ Mode[r] = "sync" /\ task[r] = "persisting"
  /\ \/ Persist(r, result[r]) /\ call' = [call EXCEPT ![r] = "returned"]
     \/ PersistFails(r, result[r]) /\ call' = [call EXCEPT ![r] = "refused"]
  /\ task' = [task EXCEPT ![r] = "leaving"]
  /\ UNCHANGED <<lockVars, aborted, result, workspace, mem, tasks, section, log,
                 told, waiter, overwritten>>

SyncStep(r) == SyncStart(r) \/ SyncError(r) \/ SyncRecord(r) \/ SyncPersist(r)

--------------------------------------------------------------------------------
(* cancel_agent, get_agent_status, wait_for_run                            *)

(* list_runs shows every handle in the map, also while the call that made  *)
(* it is under way; cancel_agent goes on only with a run that is not       *)
(* terminal.                                                               *)
Cancellable(r) == mem[r] = "running"

(* The call finds a run that is not terminal: it takes the JoinHandle out  *)
(* of the map and aborts the task, and marks the record.                   *)
Cancel(r) ==
  /\ Unlocked
  /\ Cancellable(r)
  /\ tasks' = tasks \ {r}
  /\ aborted' = aborted \cup ({r} \cap tasks)
  /\ mem' = [mem EXCEPT ![r] = "cancelled"]
  /\ section' = [run |-> r, by |-> "cancel", step |-> "event"]
  /\ UNCHANGED <<lockVars, call, task, result, workspace, disk, log, told, waiter,
                 faults, failed, overwritten>>

(* run.cancelled is appended; an error ends the call at once.              *)
CancelEvent(r) ==
  /\ section = [run |-> r, by |-> "cancel", step |-> "event"]
  /\ \/ /\ log' = [log EXCEPT ![r] = Append(@, "cancelled")]
        /\ section' = [section EXCEPT !.step = "persist"]
        /\ FileOk
     \/ /\ section' = NoSection
        /\ UNCHANGED log
        /\ FileFails(r)
  /\ UNCHANGED <<lockVars, call, task, aborted, result, workspace, mem, tasks,
                 disk, told, waiter, overwritten>>

CancelPersist(r) ==
  /\ section = [run |-> r, by |-> "cancel", step |-> "persist"]
  /\ Persist(r, mem[r]) \/ PersistFails(r, mem[r])
  /\ section' = NoSection
  /\ UNCHANGED <<lockVars, call, task, aborted, result, workspace, mem, tasks,
                 log, told, waiter, overwritten>>

CancelStep(r) == Cancel(r) \/ CancelEvent(r) \/ CancelPersist(r)

(* get_or_load_run_record finds the record in the map; the answer is kept  *)
(* when it is terminal.                                                    *)
Observe(r) ==
  /\ Unlocked
  /\ mem[r] \in Terminal /\ told[r] # mem[r]
  /\ told' = [told EXCEPT ![r] = mem[r]]
  /\ UNCHANGED <<lockVars, call, task, aborted, result, workspace, mem, tasks,
                 section, disk, log, waiter, faults, failed, overwritten>>

(* The JoinHandle resolves.                                                *)
Joined(r) == task[r] = "done"

(* wait_for_run takes the JoinHandle out of the map and awaits it; without *)
(* a handle it returns at once.                                            *)
Wait(r) ==
  /\ r \in WaitedFor
  /\ call[r] = "accepted" /\ waiter[r] = "none"
  /\ Unlocked
  /\ waiter' = [waiter EXCEPT ![r] = IF r \in tasks THEN "waiting" ELSE "returned"]
  /\ tasks' = tasks \ {r}
  /\ UNCHANGED <<lockVars, call, task, aborted, result, workspace, mem, section,
                 disk, log, told, faults, failed, overwritten>>

WaitReturn(r) ==
  /\ waiter[r] = "waiting" /\ Joined(r)
  /\ waiter' = [waiter EXCEPT ![r] = "returned"]
  /\ UNCHANGED <<lockVars, call, task, aborted, result, workspace, mem, tasks,
                 section, disk, log, told, faults, failed, overwritten>>

ClientStep(r) == CancelStep(r) \/ Observe(r) \/ Wait(r) \/ WaitReturn(r)

--------------------------------------------------------------------------------

SpawnStep(r) == SpawnInsert(r) \/ SpawnPersist(r) \/ SpawnReturn(r)

RunStep(r) == SpawnStep(r) \/ TaskStep(r) \/ SyncStep(r) \/ ClientStep(r)

Next == \E r \in Run : RunStep(r)

Spec == Init /\ [][Next]_vars

(***************************************************************************)
(* The runtime polls every task that can go on, calls under way are        *)
(* carried on, a critical section is straight-line code, and a provider    *)
(* process ends at the latest at its timeout (collect_streaming_output),   *)
(* so every step of a call or a task that stays possible is taken.  The    *)
(* state lock is taken for good only by a critical section, which ends,    *)
(* and there are finitely many of them.  No client has to call anything.   *)
(***************************************************************************)
FairSpec ==
  /\ Spec
  /\ \A r \in Run :
       /\ WF_vars(SpawnPersist(r)) /\ WF_vars(SpawnReturn(r))
       /\ WF_vars(TaskStep(r))
       /\ WF_vars(SyncError(r) \/ SyncRecord(r) \/ SyncPersist(r))
       /\ WF_vars(CancelEvent(r) \/ CancelPersist(r))
       /\ WF_vars(WaitReturn(r))

--------------------------------------------------------------------------------
(* Properties.                                                             *)

(* A terminal status in the map is never replaced: a task that finishes    *)
(* after it was cancelled, and a cancel that arrives after the task        *)
(* finished, both leave the record alone.                                  *)
TerminalIsFinal ==
  [][\A r \in Run : mem[r] \in Terminal => mem'[r] = mem[r]]_vars

(* The terminal event of a spawned run is written exactly once, and it     *)
(* names the status of the record, whoever of the task and cancel_agent    *)
(* came first (unless the append itself failed).                           *)
OneTerminalEvent ==
  \A r \in Run :
    /\ Len(log[r]) <= 1
    /\ Len(log[r]) = 1 => log[r][1] = mem[r]
    /\ Mode[r] = "async" /\ mem[r] \in Terminal /\ r \notin failed /\ ~InSection(r)
         => Len(log[r]) = 1

(* A terminal status that get_agent_status told a client about a spawned   *)
(* run is in run.json, so a restart of the server tells the same; and when *)
(* no call and no task of a run is under way, run.json holds the status of *)
(* the record in the map, whoever wrote last.  Unless a file operation     *)
(* failed only one run can be different: one that list_runs showed and a   *)
(* client cancelled before spawn_agent wrote its own copy says running for *)
(* good.  After a failure too run.json tells no end but that of the record.*)
Resting(r) ==
  /\ call[r] \in {"accepted", "returned", "refused"}
  /\ task[r] \in {"none", "done"}
  /\ ~InSection(r)
OnDisk(r, status) == disk[r] = IF r \in overwritten THEN "running" ELSE status
RecordIsOnDisk ==
  \A r \in Run :
    /\ disk[r] \in Terminal => disk[r] = mem[r]
    /\ r \notin failed =>
         /\ Mode[r] = "async" /\ told[r] \in Terminal => OnDisk(r, told[r])
         /\ Resting(r) => OnDisk(r, mem[r])

(* A run works in the source tree or a workspace only while no other run   *)
(* that claims one of its scopes executes or still has its workspace.      *)
HandoverIsClean ==
  \A p, q \in Run :
    p # q /\ LockKeys[p] \cap LockKeys[q] # {} /\ task[p] = "executing" =>
      task[q] # "executing" /\ q \notin workspace

(* On every way out of a run (result, error, abort, cancelled meanwhile)   *)
(* its workspace is removed and its locks are released.                    *)
NothingLeftBehind ==
  \A r \in Run :
    task[r] \in {"none", "done"} =>
      r \notin workspace /\ \A m \in Mutex : owner[m] # r

(* wait_for_run returns only when the record is terminal, so a CLI process *)
(* that waits does not exit before its run has settled.                    *)
WaitMeansSettled == \A r \in Run : waiter[r] = "returned" => mem[r] \in Terminal

(* A run whose handle spawn_agent returned reaches a terminal status.      *)
AcceptedRunsSettle == \A r \in Run : call[r] = "accepted" ~> mem[r] \in Terminal

(* Every task and every call of run_agent ends and has let go of all it    *)
(* had: no run waits for ever for a scope, not after an abort of the run   *)
(* before it, and not when it was cancelled and cancel_agent found no      *)
(* JoinHandle to abort.                                                    *)
TasksEnd == \A r \in Run : task[r] # "none" ~> task[r] = "done"

(* Why the safety properties above hold, whatever the clients do (the      *)
(* proofs are in RunLifecycleProof).  A run is inside its scopes while it  *)
(* has a workspace or executes, and has no lock before it asked for one    *)
(* and after it is done.                                                   *)
LocksFollowTask ==
  \A r \in Run :
    /\ task[r] \in {"none", "delayed", "failing"} => stage[r] = "idle"
    /\ task[r] = "done" => ~Acquiring(r) /\ ~Holding(r)
    /\ task[r] \in {"executing", "settling"} => Holding(r)
    /\ r \in workspace =>
         task[r] \in {"executing", "settling", "persisting", "leaving"} /\ Holding(r)

(* The status in the map follows the call and the task; only a cancel sets *)
(* it before the task does, and only such a task is dropped at an await.   *)
RecordFollowsRun ==
  \A r \in Run :
    /\ call[r] = "none" => mem[r] = "absent" /\ task[r] = "none"
    /\ call[r] = "inserted" => Mode[r] = "async" /\ task[r] = "none"
    /\ call[r] \in {"started", "accepted"} => Mode[r] = "async" /\ task[r] # "none"
    /\ Mode[r] = "async" /\ call[r] # "none" =>
         mem[r] \in IF task[r] \in {"none"} \cup Awaiting THEN {"running", "cancelled"}
                                                        ELSE Terminal
    /\ Mode[r] = "sync" =>
         mem[r] \in IF task[r] \in {"none"} \cup Awaiting THEN {"absent"}
                                                        ELSE {"absent"} \cup Terminal
    /\ Mode[r] = "sync" /\ task[r] = "persisting" =>
         result[r] \in Terminal /\ mem[r] = result[r]
    /\ r \in tasks \cup aborted => Mode[r] = "async"
    /\ r \in aborted => mem[r] = "cancelled"

(* A critical section belongs to a settled record, and the terminal event  *)
(* is missing only until the section has tried to append it.               *)
EventsFollowRecord ==
  \A r \in Run :
    /\ InSection(r) => /\ Mode[r] = "async" /\ mem[r] \in Terminal
                       /\ section.by = "task" => task[r] = "persisting"
                       /\ section.by = "cancel" => mem[r] = "cancelled"
    /\ log[r] # <<>> => Mode[r] = "async" /\ mem[r] \in Terminal /\ log[r] = <<mem[r]>>
    /\ InSection(r) /\ section.step = "event" => log[r] = <<>>
    /\ /\ Mode[r] = "async" /\ mem[r] \in Terminal /\ r \notin failed
       /\ ~(InSection(r) /\ section.step = "event")
       => log[r] # <<>>

(* The JoinHandle of an accepted run leaves the map by a wait, or by a     *)
(* step that settles the record.                                           *)
HandlesFollowWaits ==
  \A r \in Run :
    /\ call[r] = "accepted" /\ waiter[r] = "none" /\ r \notin tasks => mem[r] \in Terminal
    /\ waiter[r] = "waiting" => Mode[r] = "async" /\ call[r] # "none"
    /\ waiter[r] = "returned" => mem[r] \in Terminal

(* run.json follows the record: that of a spawned run from the return of   *)
(* its first write on, but for the section that settles it, and unless     *)
(* this write came after a cancel; that of a synchronous one when the call *)
(* returns.                                                                *)
SavedAsRecorded(r) ==
  /\ told[r] \in Terminal => mem[r] = told[r] /\ ~InSection(r)
  /\ disk[r] \in Terminal => mem[r] = disk[r]
  /\ call[r] \in {"executing", "returned"} => Mode[r] = "sync"
  /\ Mode[r] = "async" /\ call[r] = "refused" => r \in failed
  /\ Mode[r] = "sync" /\ call[r] \in {"returned", "refused"} =>
       task[r] \in {"leaving", "unlocking", "done"}
  /\ r \in overwritten =>
       /\ Mode[r] = "async" /\ call[r] \notin {"none", "inserted"}
       /\ mem[r] = "cancelled" /\ ~InSection(r)
  /\ r \notin failed =>
       /\ Mode[r] = "async" =>
            disk[r] = IF call[r] \in {"none", "inserted"}
                        THEN IF mem[r] = "cancelled" /\ ~InSection(r) THEN "cancelled" ELSE "absent"
                      ELSE IF InSection(r) \/ r \in overwritten THEN "running" ELSE mem[r]
       /\ Mode[r] = "sync" =>
            disk[r] = IF call[r] \in {"returned", "refused"} THEN mem[r] ELSE "absent"
DiskFollowsRecord == \A r \in Run : SavedAsRecorded(r)

RunInv ==
  TypeOK /\ LockInv /\ LocksFollowTask /\ RecordFollowsRun
    /\ EventsFollowRecord /\ HandlesFollowWaits /\ DiskFollowsRecord

(* Between the critical sections the runs are as RunPromise says.  Inside  *)
(* one nobody else can look at the map.                                    *)
Promised(r, value) == IF r \in failed THEN "given up" ELSE value
Unsaved(r) == CASE call[r] = "inserted" -> "running"
                [] Mode[r] = "sync" /\ task[r] = "persisting" -> result[r]
                [] OTHER -> "none"
Promise == INSTANCE RunPromise WITH
             status <- [r \in Run |-> Promised(r, IF InSection(r) THEN "running" ELSE mem[r])],
             copy   <- [r \in Run |-> IF r \in failed THEN "none" ELSE Unsaved(r)],
             saved  <- [r \in Run |-> Promised(r, disk[r])],
             events <- [r \in Run |-> IF InSection(r) \/ r \in failed THEN <<>> ELSE log[r]]

(* Settling and cancelling are atomic for every run whose file operations  *)
(* go well, and its first record is written once, whenever that may be.    *)
PromiseSpec == Promise!Spec
================================================================================
