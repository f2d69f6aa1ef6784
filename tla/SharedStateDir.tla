----------------------------- MODULE SharedStateDir -----------------------------
(***************************************************************************)
(* One state directory, several processes: the servers of different hosts, *)
(* servers that were restarted, and the commands of the CLI, which are     *)
(* processes with a map of their own that end soon.  All of them answer    *)
(* from their map of runs, and load into it from run.json what they miss.  *)
(*                                                                         *)
(* A run belongs to the process that accepted it, its home; what happens   *)
(* inside that process is the matter of RunLifecycle and is taken here in  *)
(* large steps.  What matters here are the steps of run.json (it is        *)
(* truncated and written in place), those of get_or_load_run_record (it    *)
(* reads without the lock and inserts what it read later), and the memory  *)
(* lost when a process ends.                                               *)
(***************************************************************************)
EXTENDS Naturals, FiniteSets

CONSTANTS
  Process,        \* the processes; one that ended starts again without memory
  Run,
  Caller,         \* the requests a process may serve at the same time
  Home,           \* the process that accepts a run
  ForeignCancel,  \* clients cancel runs at a process that is not their home
  MaxExits,       \* bound on the processes that end
  MaxCleans       \* bound on the uses of `clean`

ASSUME HomeAssumption == Home \in [Run -> Process]
ASSUME BoundsAssumption ==
  ForeignCancel \in BOOLEAN /\ MaxExits \in Nat /\ MaxCleans \in Nat

VARIABLES
  work,      \* what the home does for a run
  mem,       \* the status of a run in the map of a process
  writer,    \* persist_run_record under way in a process
  file,      \* run.json
  query,     \* get_or_load_run_record under way in a process
  waiter,    \* a CLI `wait`
  verdicts,  \* the ends of a run that anyone was told
  exits, cleans

vars == <<work, mem, writer, file, query, waiter, verdicts, exits, cleans>>

(* What a dispatch ends with; only cancel_agent makes a run "cancelled".   *)
Finished == {"succeeded", "failed", "timed_out"}
Terminal == Finished \cup {"cancelled"}
Status   == {"running"} \cup Terminal

(* What a reader of run.json can parse.  A directory without the file is   *)
(* "bare", a file truncated and not yet written is "torn".  (Mutant: the   *)
(* file is taken for what it holds.)                                       *)
ReadableTorn == Status \cup {"torn"}
Readable == Status

NoWriter == [step |-> "none", status |-> "running", locked |-> FALSE]
NoQuery  == [step |-> "none", run |-> "none", status |-> "running"]

Writer == {NoWriter} \cup [step : {"begin", "open"}, status : Status, locked : BOOLEAN]
Query  == {NoQuery} \cup [step : {"missed", "read"}, run : Run, status : Status]

TypeOK ==
  /\ work \in [Run -> {"idle", "accepting", "running", "executing", "settled", "lost"}]
  /\ mem \in [Process -> [Run -> Status \cup {"absent"}]]
  /\ writer \in [Process -> [Run -> Writer]]
  /\ file \in [Run -> Status \cup {"none", "bare", "torn"}]
  /\ query \in [Process -> [Caller -> Query]]
  /\ waiter \in [Run -> {"none", "polling", "broken"} \cup Terminal]
  /\ verdicts \in [Run -> SUBSET Terminal]
  /\ exits \in 0..MaxExits
  /\ cleans \in 0..MaxCleans

Init ==
  /\ work = [r \in Run |-> "idle"]
  /\ mem = [p \in Process |-> [r \in Run |-> "absent"]]
  /\ writer = [p \in Process |-> [r \in Run |-> NoWriter]]
  /\ file = [r \in Run |-> "none"]
  /\ query = [p \in Process |-> [c \in Caller |-> NoQuery]]
  /\ waiter = [r \in Run |-> "none"]
  /\ verdicts = [r \in Run |-> {}]
  /\ exits = 0
  /\ cleans = 0

(* The state lock of p is free.  (Mutant: those who look do not take it.)  *)
UnlockedOrNot(p) == p \in Process
Unlocked(p) == \A r \in Run : ~writer[p][r].locked

(* Someone is told the status of a run.                                    *)
Told(r, status) == verdicts' = [verdicts EXCEPT ![r] = @ \cup ({status} \cap Terminal)]

Remember(p, r, status) == mem' = [mem EXCEPT ![p][r] = status]

(* The start of persist_run_record, inside the critical section of the     *)
(* state lock or not.                                                      *)
Persist(p, r, status, locked) ==
  writer' = [writer EXCEPT ![p][r] =
               [step |-> "begin", status |-> status, locked |-> locked]]

--------------------------------------------------------------------------------
(* The home of a run.                                                      *)

(* spawn_agent inserts the record and writes it without the lock.          *)
SpawnAccept(r) ==
  /\ work[r] = "idle" /\ Unlocked(Home[r])
  /\ work' = [work EXCEPT ![r] = "accepting"]
  /\ Remember(Home[r], r, "running")
  /\ Persist(Home[r], r, "running", FALSE)
  /\ UNCHANGED <<file, query, waiter, verdicts, exits, cleans>>

(* run_agent keeps no record until the end, but its first event makes the  *)
(* directory of the run.                                                   *)
SyncStart(r) ==
  /\ work[r] = "idle"
  /\ work' = [work EXCEPT ![r] = "executing"]
  /\ file' = [file EXCEPT ![r] = "bare"]
  /\ UNCHANGED <<mem, writer, query, waiter, verdicts, exits, cleans>>

(* The task settles its run, unless it was cancelled: record and run.json  *)
(* in one critical section.  (Mutant: the file is written afterwards.)     *)
SettleUnlocked(r, status) ==
  /\ work[r] = "running"
  /\ Unlocked(Home[r]) /\ mem[Home[r]][r] = "running"
  /\ work' = [work EXCEPT ![r] = "settled"]
  /\ Remember(Home[r], r, status)
  /\ Persist(Home[r], r, status, FALSE)
  /\ UNCHANGED <<file, query, waiter, verdicts, exits, cleans>>

Settle(r, status) ==
  /\ work[r] = "running"
  /\ Unlocked(Home[r]) /\ mem[Home[r]][r] = "running"
  /\ work' = [work EXCEPT ![r] = "settled"]
  /\ Remember(Home[r], r, status)
  /\ Persist(Home[r], r, status, TRUE)
  /\ UNCHANGED <<file, query, waiter, verdicts, exits, cleans>>

(* upsert_and_persist_run at the end of run_agent: the lock is released    *)
(* before the file is written.                                             *)
SyncRecord(r, status) ==
  /\ work[r] = "executing" /\ Unlocked(Home[r])
  /\ work' = [work EXCEPT ![r] = "settled"]
  /\ Remember(Home[r], r, status)
  /\ Persist(Home[r], r, status, FALSE)
  /\ UNCHANGED <<file, query, waiter, verdicts, exits, cleans>>

(* fs::write opens run.json and truncates it ...                           *)
Truncate(p, r) ==
  /\ writer[p][r].step = "begin"
  /\ writer' = [writer EXCEPT ![p][r].step = "open"]
  /\ file' = [file EXCEPT ![r] = "torn"]
  /\ UNCHANGED <<work, mem, query, waiter, verdicts, exits, cleans>>

(* ... and writes it.  What `clean` removed meanwhile stays removed.  The  *)
(* task of an accepted run starts, run_agent and cancel_agent answer; a    *)
(* task that settled its run tells nobody.                                 *)
Write(p, r) ==
  /\ writer[p][r].step = "open"
  /\ writer' = [writer EXCEPT ![p][r] = NoWriter]
  /\ file' = [file EXCEPT ![r] = IF @ = "none" THEN @ ELSE writer[p][r].status]
  /\ work' = [work EXCEPT ![r] = IF @ = "accepting" THEN "running" ELSE @]
  /\ IF writer[p][r].locked /\ writer[p][r].status # "cancelled"
       THEN UNCHANGED verdicts
       ELSE Told(r, writer[p][r].status)
  /\ UNCHANGED <<mem, query, waiter, exits, cleans>>

--------------------------------------------------------------------------------
(* Every process.                                                          *)

(* cancel_agent looks into the map only, so a process that has not loaded  *)
(* the run, such as the CLI command, does not find it.  A task that is     *)
(* aborted settles nothing; the task of another process is out of reach.   *)
(* (Cancels before spawn_agent returned are left to RunLifecycle.)         *)
Cancel(p, r) ==
  /\ Home[r] = p \/ ForeignCancel
  /\ work[r] # "accepting"
  /\ Unlocked(p) /\ mem[p][r] = "running"
  /\ Remember(p, r, "cancelled")
  /\ Persist(p, r, "cancelled", TRUE)
  /\ work' = [work EXCEPT ![r] =
                IF Home[r] = p /\ @ = "running" THEN "settled" ELSE @]
  /\ UNCHANGED <<file, query, waiter, verdicts, exits, cleans>>

(* get_agent_status and the other readers find the run in the map.         *)
Answer(p, r) ==
  /\ Unlocked(p) /\ mem[p][r] # "absent"
  /\ Told(r, mem[p][r])
  /\ UNCHANGED <<work, mem, writer, file, query, waiter, exits, cleans>>

(* They do not find it, ...                                                *)
Miss(p, c, r) ==
  /\ work[r] # "idle" /\ query[p][c] = NoQuery
  /\ Unlocked(p) /\ mem[p][r] = "absent"
  /\ query' = [query EXCEPT ![p][c] =
                 [step |-> "missed", run |-> r, status |-> "running"]]
  /\ UNCHANGED <<work, mem, writer, file, waiter, verdicts, exits, cleans>>

(* ... read run.json without the lock, or answer with an error, ...        *)
Load(p, c) ==
  LET q == query[p][c] IN
  /\ q.step = "missed"
  /\ query' = [query EXCEPT ![p][c] =
                 IF file[q.run] \in Readable
                   THEN [q EXCEPT !.step = "read", !.status = file[q.run]]
                   ELSE NoQuery]
  /\ UNCHANGED <<work, mem, writer, file, waiter, verdicts, exits, cleans>>

(* ... and insert what they read, whatever the map holds by then.          *)
Insert(p, c) ==
  LET q == query[p][c] IN
  /\ q.step = "read" /\ Unlocked(p)
  /\ Remember(p, q.run, q.status)
  /\ Told(q.run, q.status)
  /\ query' = [query EXCEPT ![p][c] = NoQuery]
  /\ UNCHANGED <<work, writer, file, waiter, exits, cleans>>

(* list_runs takes what the map does not hold from the directories and     *)
(* keeps none of it; one torn file makes the whole call fail.              *)
List(p, r) ==
  /\ Unlocked(p) /\ mem[p][r] = "absent" /\ file[r] \in Readable
  /\ \A x \in Run : file[x] = "torn" => mem[p][x] # "absent"
  /\ Told(r, file[r])
  /\ UNCHANGED <<work, mem, writer, file, query, waiter, exits, cleans>>

(* The CLI `wait` reads run.json over and over and ends when it tells an   *)
(* end or cannot be read.  (Mutant: it takes "timed_out" for running.)     *)
EndsButTimeout(status) == status \in Terminal \ {"timed_out"}
Ends(status) == status \in Terminal

StartWait(r) ==
  /\ work[r] # "idle" /\ waiter[r] = "none"
  /\ waiter' = [waiter EXCEPT ![r] = "polling"]
  /\ UNCHANGED <<work, mem, writer, file, query, verdicts, exits, cleans>>

Poll(r) ==
  /\ waiter[r] = "polling" /\ file[r] # "running"
  /\ \/ /\ Ends(file[r])
        /\ waiter' = [waiter EXCEPT ![r] = file[r]]
        /\ Told(r, file[r])
     \/ /\ file[r] \notin Readable
        /\ waiter' = [waiter EXCEPT ![r] = "broken"]
        /\ UNCHANGED verdicts
  /\ UNCHANGED <<work, mem, writer, file, query, exits, cleans>>

(* A process ends, on request or not, and starts again with an empty map.  *)
(* Nothing takes up the runs it leaves.                                    *)
Exit(p) ==
  /\ exits < MaxExits
  /\ exits' = exits + 1
  /\ mem' = [mem EXCEPT ![p] = [r \in Run |-> "absent"]]
  /\ writer' = [writer EXCEPT ![p] = [r \in Run |-> NoWriter]]
  /\ query' = [query EXCEPT ![p] = [c \in Caller |-> NoQuery]]
  /\ work' = [r \in Run |->
       IF /\ Home[r] = p
          /\ work[r] \in {"accepting", "running", "executing"} \/ writer[p][r] # NoWriter
         THEN "lost" ELSE work[r]]
  /\ UNCHANGED <<file, waiter, verdicts, cleans>>

(* The CLI `clean` removes the directories of all runs, live or not.       *)
Clean ==
  /\ cleans < MaxCleans
  /\ cleans' = cleans + 1
  /\ file' = [r \in Run |-> "none"]
  /\ UNCHANGED <<work, mem, writer, query, waiter, verdicts, exits>>

--------------------------------------------------------------------------------
SettleAny(r)  == \E status \in Finished : Settle(r, status) \/ SyncRecord(r, status)
WriteStep(p, r) == Truncate(p, r) \/ Write(p, r)
QueryStep(p, c) == (\E r \in Run : Miss(p, c, r)) \/ Load(p, c) \/ Insert(p, c)

Next ==
  \/ \E r \in Run : SpawnAccept(r) \/ SyncStart(r) \/ SettleAny(r) \/ StartWait(r) \/ Poll(r)
  \/ \E p \in Process, r \in Run : WriteStep(p, r) \/ Cancel(p, r) \/ Answer(p, r) \/ List(p, r)
  \/ \E p \in Process, c \in Caller : QueryStep(p, c)
  \/ \E p \in Process : Exit(p)
  \/ Clean

Spec == Init /\ [][Next]_vars

(* A run that was accepted is dispatched, which ends at the latest at its  *)
(* timeout; a file operation under way ends; `wait` keeps polling.         *)
Fairness ==
  /\ \A r \in Run : WF_vars(SettleAny(r)) /\ WF_vars(Poll(r))
  /\ \A p \in Process, r \in Run : WF_vars(WriteStep(p, r))

FairSpec == Spec /\ Fairness

--------------------------------------------------------------------------------
(* The inductive invariant, run by run.                                    *)

(* s is an end of run r that is known somewhere.                           *)
InMaps(r, s)    == \E p \in Process : mem[p][r] = s
InQueries(r, s) == \E p \in Process, c \in Caller :
                     query[p][c].step = "read" /\ query[p][c].run = r /\ query[p][c].status = s
Knows(r, s) ==
  s \in Terminal /\ (InMaps(r, s) \/ InQueries(r, s) \/ file[r] = s \/ s \in verdicts[r])

Asking(p, r) == \E c \in Caller : query[p][c] # NoQuery /\ query[p][c].run = r
AskingOld(r) == \E c \in Caller : LET q == query[Home[r]][c] IN
                  q.step = "read" /\ q.run = r /\ q.status = "running"

(* Only the home writes run.json, and it writes what its map says.         *)
HomeWrites(r) ==
  /\ \A p \in Process \ {Home[r]} : writer[p][r] = NoWriter
  /\ LET w == writer[Home[r]][r] IN w # NoWriter => w.status = mem[Home[r]][r]

OneEnd(r) == \A s, t \in Terminal : Knows(r, s) /\ Knows(r, t) => s = t

(* While run.json says that the run is running, its end is known to none   *)
(* but its home, which is about to write it.                               *)
OldFile(r) ==
  file[r] = "running" =>
    \A s \in Terminal :
      /\ ~InQueries(r, s) /\ s \notin verdicts[r]
      /\ \A p \in Process : mem[p][r] = s =>
           /\ p = Home[r]
           /\ writer[p][r].locked /\ writer[p][r].step = "begin"

NothingKnown(r) == \A s \in Terminal : ~Knows(r, s)

(* What can be at each stage of the work of the home.                      *)
StageInv(r) ==
  LET h == Home[r] IN
  /\ work[r] = "idle" =>
       /\ \A p \in Process : mem[p][r] = "absent" /\ ~Asking(p, r)
       /\ file[r] = "none" /\ verdicts[r] = {} /\ writer[h][r] = NoWriter
  /\ work[r] \in {"accepting", "running"} =>
       mem[h][r] = "running" /\ ~Asking(h, r) /\ NothingKnown(r)
  /\ work[r] = "accepting" => writer[h][r] # NoWriter /\ ~writer[h][r].locked
  /\ work[r] \in {"running", "executing"} => writer[h][r] = NoWriter
  /\ work[r] = "executing" =>
       /\ \A p \in Process : mem[p][r] = "absent"
       /\ \A p \in Process, c \in Caller : query[p][c].run = r => query[p][c].step # "read"
       /\ file[r] \in {"none", "bare"} /\ verdicts[r] = {}
  /\ work[r] = "settled" =>
       /\ mem[h][r] # "running" /\ ~AskingOld(r)
       /\ Asking(h, r) => file[r] # "running"
       /\ file[r] = "running" => writer[h][r].locked /\ writer[h][r].step = "begin"
  /\ work[r] = "lost" =>
       /\ mem[h][r] = "running" \/ AskingOld(r) \/ file[r] = "running" =>
            \A s \in Terminal : Knows(r, s) => s = "cancelled"
       /\ writer[h][r] # NoWriter => writer[h][r].locked /\ mem[h][r] = "cancelled"

StateDirInv ==
  /\ TypeOK
  /\ \A r \in Run : HomeWrites(r) /\ OneEnd(r) /\ OldFile(r) /\ StageInv(r)

(* Nobody is told two different ends of one run: not by its home, not by a *)
(* process that loaded it before or after it ended, not by a restarted     *)
(* server, not by `wait`.  The map of a process may be old, and the home   *)
(* may be gone between the record and the file.                            *)
OneVerdict == \A r \in Run : Cardinality(verdicts[r]) <= 1

(* Once anyone was told the end of a run, run.json never says that it is   *)
(* still running: whoever starts later cannot cancel what has ended.       *)
EndStays == \A r \in Run : verdicts[r] # {} => file[r] # "running"

(* Waiting for a run ends, unless the home of the run is gone before it    *)
(* has written its end: nothing then ever does.                            *)
WaitEnds ==
  \A r \in Run : (waiter[r] = "polling") ~> (waiter[r] # "polling" \/ work[r] = "lost")
================================================================================
