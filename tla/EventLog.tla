-------------------------------- MODULE EventLog --------------------------------
(***************************************************************************)
(* events.jsonl of one spawned run: who appends to it and who follows it.  *)
(*                                                                         *)
(* Two threads of the server process append.  The run's task reports its   *)
(* progress (phases, output, heartbeats) without any lock and its end      *)
(* under the state lock; cancel_agent appends run.cancelled under the      *)
(* state lock, while the aborted task goes on until its next await.        *)
(* append_run_event is three file operations: it reads the file for the    *)
(* largest seq, writes the line, and writes the newline.                   *)
(*                                                                         *)
(* One client follows the run; clients write nothing, so one at a time     *)
(* shows all there is to see.  `events`, `events --all`, `watch` and       *)
(* `logs`, each with --follow, are processes of their own (main.rs): they  *)
(* read run.json and then what is new in the file, until the status is     *)
(* terminal.  `spawn --stream` is `logs --follow` inside the process that  *)
(* runs the task.  watch_run and watch_agent_events with since_seq are     *)
(* calls of a host of the server.                                          *)
(*                                                                         *)
(* The file is a sequence of lines and newlines.  A crash ends the server  *)
(* process at any point; a new one reads run.json again when it is asked   *)
(* for the run, and can then cancel it.                                    *)
(***************************************************************************)
EXTENDS Loops

CONSTANTS
  MaxProgress,  \* progress events of the task
  MaxCancels,   \* calls of cancel_agent that change the record
  MaxCrashes,   \* crashes of the server process
  Limit         \* limit of watch_agent_events

ASSUME LogAssumption ==
  /\ MaxProgress \in Nat /\ MaxCancels \in Nat /\ MaxCrashes \in Nat
  /\ Limit \in Nat \ {0}

VARIABLES
  file,      \* events.jsonl
  append,    \* append_run_event under way in the task and in cancel_agent
  task,      \* the task of the run
  canceller, \* cancel_agent
  mem,       \* the status in state.runs, "absent" when it is not loaded
  disk,      \* the status in run.json
  stored,    \* the output of the run is among its files
  crashes,
  client,    \* who follows the run
  follower,  \* its progress, for all clients but the one that polls
  poller     \* the host that polls watch_agent_events

serverVars == <<file, append, task, canceller, mem, disk, stored, crashes>>
readerVars == <<client, follower, poller>>
vars == <<serverVars, readerVars>>

Writers == {"task", "cancel"}
Statuses == {"running", "succeeded", "cancelled"}
Events == [seq : Nat \ {0}, kind : {"accepted", "progress", "succeeded", "cancelled"},
           n : 0 .. MaxProgress]

Newline == [seq |-> 0, kind |-> "newline", n |-> 0]
Event(seq, kind, n) == [seq |-> seq, kind |-> kind, n |-> n]

Clients == {"events", "events_all", "watch", "logs", "stream", "watch_run", "host"}
Incremental == {"events", "events_all", "watch"}  \* they read what is new
InServer == {"stream", "watch_run"}               \* they end with the server
Ended == {"exited", "failed", "timed_out", "killed"}

NoAppend == [at |-> "idle", event |-> Newline]

--------------------------------------------------------------------------------
(* The file.                                                               *)

IsEvent(text, i) == text[i] # Newline

(* A line that two events share does not parse.                            *)
Shared(text, i) ==
  /\ IsEvent(text, i)
  /\ \/ i > 1 /\ IsEvent(text, i - 1)
     \/ i < Len(text) /\ IsEvent(text, i + 1)
Parses(text) == \A i \in 1 .. Len(text) : ~Shared(text, i)

EventsIn(text) == Keep(text, Events)

Largest(S) == CHOOSE m \in S : \A n \in S : n <= m

(* next_event_seq: lines that do not parse are skipped.                    *)
FirstSeq(text) == 1
NextEventSeq(text) ==
  1 + Largest({0} \cup {text[i].seq : i \in {j \in 1 .. Len(text) : ~Shared(text, j)}})

(* What follows the last newline.                                          *)
LastNewline(text) == Largest({0} \cup {i \in 1 .. Len(text) : ~IsEvent(text, i)})
CompleteLines(text) == SubSeq(text, 1, LastNewline(text))
Unfinished(text) == SubSeq(text, LastNewline(text) + 1, Len(text))

--------------------------------------------------------------------------------
Init ==
  /\ file = <<Event(1, "accepted", 0), Newline>>
  /\ append = [w \in Writers |-> NoAppend]
  /\ task = "working" /\ canceller = 0
  /\ mem = "running" /\ disk = "running" /\ stored = FALSE
  /\ crashes = 0
  /\ client \in Clients
  /\ follower = [at |-> "record", status |-> "running", offset |-> 0,
                 pending |-> <<>>, printed |-> <<>>, lost |-> FALSE, output |-> FALSE]
  /\ poller = [since |-> 0, answers |-> <<>>]

Idle(w) == append[w].at = "idle"

(* run.json is written after the terminal event, in the same section.      *)
InAnyOrder(w) == TRUE
AfterEvent(w) == Idle(w)

(* append_run_event, first part: the directory is there and the seq is     *)
(* read.                                                                   *)
BeginAppend(w, kind, n) ==
  append' = [append EXCEPT ![w] =
               [at |-> "line", event |-> Event(NextEventSeq(file), kind, n)]]

(* append_event_line: the line and the newline are written one by one.     *)
WriteLine(w) ==
  /\ append[w].at = "line"
  /\ file' = Append(file, append[w].event)
  /\ append' = [append EXCEPT ![w].at = "newline"]
  /\ UNCHANGED <<task, canceller, mem, disk, stored, crashes, readerVars>>

WriteNewline(w) ==
  /\ append[w].at = "newline"
  /\ file' = Append(file, Newline)
  /\ append' = [append EXCEPT ![w] = NoAppend]
  /\ UNCHANGED <<task, canceller, mem, disk, stored, crashes, readerVars>>

(* canceller counts the calls, 2 for each one: odd while one holds the     *)
(* state lock.                                                             *)
Cancelling == canceller % 2 = 1
LockIsFree == ~Cancelling /\ task \notin {"settling", "storing"}

(* The number of progress events the task has begun to append.             *)
Reported ==
  Len(Keep(file, {e \in Events : e.kind = "progress"}))
    + (IF append["task"].at = "line" /\ append["task"].event.kind = "progress" THEN 1 ELSE 0)

(* The task reports progress, without a lock.  An aborted task does so     *)
(* until its next await.                                                   *)
Progress ==
  /\ task \in {"working", "aborted"} /\ Idle("task")
  /\ Reported < MaxProgress
  /\ BeginAppend("task", "progress", Reported + 1)
  /\ UNCHANGED <<file, task, canceller, mem, disk, stored, crashes, readerVars>>

(* The dispatch has returned: under the state lock the task finds its run  *)
(* cancelled, or appends the terminal event and writes run.json.           *)
Settle ==
  /\ task = "working" /\ Idle("task") /\ LockIsFree
  /\ \/ /\ mem = "cancelled"
        /\ task' = "gone"
        /\ UNCHANGED <<mem, append>>
     \/ /\ mem = "running"
        /\ mem' = "succeeded"
        /\ task' = "settling"
        /\ BeginAppend("task", "succeeded", 0)
  /\ UNCHANGED <<file, canceller, disk, stored, crashes, readerVars>>

SettlePersist ==
  /\ task = "settling" /\ AfterEvent("task")
  /\ disk' = mem
  /\ task' = "storing"
  /\ UNCHANGED <<file, append, canceller, mem, stored, crashes, readerVars>>

(* persist_run_record writes run.json first and then the other files.      *)
SettleStore ==
  /\ task = "storing"
  /\ stored' = TRUE
  /\ task' = "gone"
  /\ UNCHANGED <<file, append, canceller, mem, disk, crashes, readerVars>>

(* The aborted task is dropped at an await, which an append has none of.   *)
Unwind ==
  /\ task = "aborted" /\ Idle("task")
  /\ task' = "gone"
  /\ UNCHANGED <<file, append, canceller, mem, disk, stored, crashes, readerVars>>

(* cancel_agent of a run in the map: abort, change the record, append, and *)
(* write run.json.  The task is not aborted when its JoinHandle is not in  *)
(* the map (see RunLifecycle).  A `spawn --stream` serves no host.         *)
Cancel ==
  /\ client # "stream"
  /\ LockIsFree /\ canceller < 2 * MaxCancels
  /\ mem = "running"
  /\ mem' = "cancelled"
  /\ task' \in IF task = "working" THEN {"working", "aborted"} ELSE {task}
  /\ canceller' = canceller + 1
  /\ BeginAppend("cancel", "cancelled", 0)
  /\ UNCHANGED <<file, disk, stored, crashes, readerVars>>

CancelPersist ==
  /\ Cancelling /\ AfterEvent("cancel")
  /\ disk' = mem
  /\ canceller' = canceller + 1
  /\ UNCHANGED <<file, append, task, mem, stored, crashes, readerVars>>

(* The server process ends in the middle of whatever it does.              *)
Crash ==
  /\ crashes < MaxCrashes
  /\ crashes' = crashes + 1
  /\ append' = [w \in Writers |-> NoAppend]
  /\ task' = "gone"
  /\ canceller' = IF Cancelling THEN canceller + 1 ELSE canceller
  /\ mem' = "absent"
  /\ follower' = IF client \in InServer /\ follower.at \notin Ended
                   THEN [follower EXCEPT !.at = "killed"] ELSE follower
  /\ UNCHANGED <<file, disk, stored, client, poller>>

(* A query in the new process: get_or_load_run_record.                     *)
Load ==
  /\ mem = "absent"
  /\ mem' = disk
  /\ UNCHANGED <<file, append, task, canceller, disk, stored, crashes, readerVars>>

--------------------------------------------------------------------------------
(* The readers.                                                            *)

NotCancelledStatus(s) == s \in {"succeeded", "failed", "timed_out"}
IsTerminalStatus(s) == s \in {"succeeded", "failed", "timed_out", "cancelled"}

(* A round of each loop begins with the status: in run.json, or, for       *)
(* watch_run, in the map under the state lock.                             *)
FollowRecord ==
  /\ client \notin {"host", "watch_run"}
  /\ follower.at = "record"
  /\ follower' = [follower EXCEPT !.at = "events", !.status = disk]
  /\ UNCHANGED <<serverVars, client, poller>>

FollowMap ==
  /\ client = "watch_run"
  /\ follower.at = "record"
  /\ mem # "absent" /\ LockIsFree
  /\ follower' = [follower EXCEPT !.at = "events", !.status = mem]
  /\ UNCHANGED <<serverVars, client, poller>>

(* `events --all` goes on for further runs; `spawn --stream` sets no       *)
(* timeouts and goes on to wait_for_run.                                   *)
EndsWithRun == client # "events_all"
Streams == client = "stream"

(* The ways out of a round.                                                *)
AfterRound ==
  IF IsTerminalStatus(follower.status) /\ EndsWithRun
    THEN IF Streams THEN {"waiting"} ELSE {"exited"}
    ELSE IF Streams THEN {"record"} ELSE {"record", "timed_out"}

(* load_run_events_incremental: the text since the offset, after what was  *)
(* left of the line before, up to the last newline.  A file that is        *)
(* shorter than the offset is read from its beginning.                     *)
Restarted == Len(file) < follower.offset
ReadFrom == IF Restarted THEN 0 ELSE follower.offset
Chunk == SubSeq(file, ReadFrom + 1, Len(file))
NewTextOnly == Chunk
NewText == IF Restarted THEN Chunk ELSE follower.pending \o Chunk
NextOffset == ReadFrom + Len(Chunk)

(* What is new in events.jsonl.  A line that does not parse ends the       *)
(* reader; `watch` passes over the text it came with.                      *)
PassesOver == client = "watch"
FollowEvents ==
  LET readable == Parses(CompleteLines(NewText)) IN
  /\ client \in Incremental
  /\ follower.at = "events"
  /\ \E at \in IF readable \/ PassesOver THEN AfterRound ELSE {"failed"} :
       follower' =
         [follower EXCEPT
            !.at = at,
            !.offset = NextOffset,
            !.pending = Unfinished(NewText),
            !.printed = IF readable THEN @ \o EventsIn(CompleteLines(NewText)) ELSE @,
            !.lost = @ \/ ~readable]
  /\ UNCHANGED <<serverVars, client, poller>>

(* load_run_events: the whole file must parse, its last line too.  The     *)
(* events after those that were there before are printed.                  *)
FollowWholeFile ==
  LET events == EventsIn(file) IN
  /\ client \in {"logs", "stream", "watch_run"}
  /\ follower.at = "events"
  /\ \/ /\ Parses(file)
        /\ \E at \in IF client = "watch_run" THEN AfterRound ELSE {"output"} :
             follower' =
               [follower EXCEPT
                  !.at = at,
                  !.offset = Len(file),
                  !.printed = @ \o SubSeq(events, Len(@) + 1, Len(events))]
     \/ /\ ~Parses(file)
        /\ follower' = [follower EXCEPT !.at = "failed", !.lost = TRUE]
  /\ UNCHANGED <<serverVars, client, poller>>

(* `logs` prints stdout.txt and stderr.txt if they are there.              *)
FollowOutput ==
  /\ follower.at = "output"
  /\ \E at \in AfterRound :
       follower' = [follower EXCEPT !.at = at, !.output = @ \/ stored]
  /\ UNCHANGED <<serverVars, client, poller>>

(* wait_for_run, and get_agent_status of the same process.                 *)
FinalStatus == mem
AwaitRun ==
  /\ follower.at = "waiting" /\ task = "gone"
  /\ follower' = [follower EXCEPT !.at = "exited", !.status = FinalStatus]
  /\ UNCHANGED <<serverVars, client, poller>>

(* watch_agent_events: the whole file must parse; the events after         *)
(* since_seq, the last ones if they are more than limit.                   *)
SinceInclusive(since, events) == Keep(events, {e \in Events : e.seq >= since})
Since(since, events) == Keep(events, {e \in Events : e.seq > since})
LastOf(events) ==
  IF Len(events) > Limit THEN SubSeq(events, Len(events) - Limit + 1, Len(events)) ELSE events

LastSeq(since, events) ==
  IF events = <<>> THEN since ELSE Largest({events[i].seq : i \in 1 .. Len(events)})
NextSeq(since, events) ==
  IF events = <<>> THEN since ELSE LastSeq(since, events) + 1

(* The host asks again from next_seq of the answer, or from the last seq   *)
(* it was given.                                                           *)
Poll ==
  LET events == LastOf(Since(poller.since, EventsIn(file))) IN
  /\ client = "host"
  /\ mem # "absent"
  /\ Parses(file)
  /\ events # <<>>
  /\ \E cursor \in {NextSeq(poller.since, events), LastSeq(poller.since, events)} :
       poller' = [since   |-> cursor,
                  answers |-> Append(poller.answers, [since |-> poller.since, events |-> events])]
  /\ UNCHANGED <<serverVars, client, follower>>

--------------------------------------------------------------------------------
ServerStep ==
  \/ \E w \in Writers : WriteLine(w) \/ WriteNewline(w)
  \/ Settle \/ SettlePersist \/ SettleStore \/ Unwind \/ CancelPersist

FollowStep ==
  FollowRecord \/ FollowMap \/ FollowEvents \/ FollowWholeFile \/ FollowOutput \/ AwaitRun

Next ==
  \/ ServerStep \/ Progress \/ Cancel \/ Crash \/ Load
  \/ FollowStep \/ Poll

Spec == Init /\ [][Next]_vars

FairSpec == Spec /\ WF_vars(ServerStep) /\ WF_vars(FollowStep)

--------------------------------------------------------------------------------
(* Properties.                                                             *)

Lines == Events \cup {Newline}
TypeOK ==
  /\ file \in Seq(Lines)
  /\ append \in [Writers -> [at : {"idle", "line", "newline"}, event : Lines]]
  /\ task \in {"working", "aborted", "settling", "storing", "gone"}
  /\ canceller \in 0 .. 2 * MaxCancels
  /\ mem \in Statuses \cup {"absent"} /\ disk \in Statuses /\ stored \in BOOLEAN
  /\ crashes \in 0 .. MaxCrashes
  /\ client \in Clients
  /\ follower.at \in {"record", "events", "output", "waiting"} \cup Ended
  /\ follower.offset \in 0 .. Len(file)
  /\ poller \in [since : Nat, answers : Seq([since : Nat, events : Seq(Events)])]

(* The seqs in events.jsonl increase from line to line, so that a seq is a *)
(* place to continue from.                                                 *)
SeqsIncrease ==
  \A i, j \in 1 .. Len(file) :
    i < j /\ IsEvent(file, i) /\ IsEvent(file, j) => file[i].seq < file[j].seq

(* As long as nobody has cancelled the run its log is in order, whenever   *)
(* the server dies: the seqs increase, and every line is one event (a line *)
(* that is not makes every later query of the run fail).                   *)
LogIsInOrder == canceller = 0 => SeqsIncrease /\ Parses(file)

(* A client prints what is in the file, in its order, each event once,     *)
(* wherever its reads cut the lines, as long as it could read them all.    *)
(* Those that read what is new print complete lines and keep the rest.     *)
FollowerPrintsTheLog ==
  LET read == SubSeq(file, 1, follower.offset) IN
  ~follower.lost =>
    IF client \in Incremental
      THEN /\ follower.printed = EventsIn(CompleteLines(read))
           /\ follower.pending = Unfinished(read)
      ELSE follower.printed = EventsIn(read)

(* No client exits with success before it has printed the event that says  *)
(* how the run ended; and `spawn --stream` then reports that end.          *)
FollowerSeesTheEnd ==
  follower.at = "exited" /\ ~follower.lost =>
    \E i \in 1 .. Len(follower.printed) : follower.printed[i].kind = follower.status

(* Once the run has ended every client ends but `events --all`.            *)
FollowerFinishes ==
  disk \in Statuses \ {"running"} ~>
    client \in {"host", "events_all"} \/ follower.at \in Ended

(* What a host has been answered so far.                                   *)
AnswersTo == 1 .. Len(poller.answers)
EventsOf(a) == poller.answers[a].events
Given(event) == \E a \in AnswersTo : \E i \in 1 .. Len(EventsOf(a)) : EventsOf(a)[i] = event

(* It asked for what comes after the event it had not seen.                *)
SkippedByCursor(event) ==
  event.seq = poller.since \/ \E a \in AnswersTo : event.seq = poller.answers[a].since

(* The answer had no room for it: it keeps the newest.                     *)
CutByLimit(event) ==
  \E a \in AnswersTo :
    /\ Len(EventsOf(a)) = Limit
    /\ poller.answers[a].since < event.seq /\ event.seq < EventsOf(a)[1].seq

(* No event is given to a polling host twice, and it misses an event its   *)
(* cursor is past for one of two reasons only: the cursor was the next_seq *)
(* of an answer, which since_seq leaves out, so that the event that got    *)
(* this seq is skipped; or an answer was full and left out the oldest.     *)
(* (The log must be in order for that: canceller = 0.)                     *)
PollerMissesAreKnown ==
  canceller = 0 =>
    /\ \A a, b \in AnswersTo : \A i \in 1 .. Len(EventsOf(a)), j \in 1 .. Len(EventsOf(b)) :
         EventsOf(a)[i] = EventsOf(b)[j] => a = b /\ i = j
    /\ \A i \in 1 .. Len(file) :
         IsEvent(file, i) /\ file[i].seq <= poller.since =>
           Given(file[i]) \/ SkippedByCursor(file[i]) \/ CutByLimit(file[i])
================================================================================
