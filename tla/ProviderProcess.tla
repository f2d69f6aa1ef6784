---------------------------- MODULE ProviderProcess ----------------------------
(***************************************************************************)
(* One execution of a provider CLI: the runner (runtime/runners), the      *)
(* child process, the pipes between them and collect_streaming_output      *)
(* (runtime/runners/streaming.rs).                                         *)
(*                                                                         *)
(* CodexRunner writes the prompt to the child's stdin before anything      *)
(* reads the child's output; the other runners pass it as an argument.     *)
(* Then a task per stream reads its pipe until the end of file and sends   *)
(* the chunks to the collector, which every 20 ms drains the channel,      *)
(* looks whether the child has exited, and gives up at the timeout, which  *)
(* it counts from its own start.  After that it waits for the two tasks.   *)
(* The child does what it likes, and may leave a process behind that       *)
(* still holds its pipes.  Chunks are counted, not looked into.            *)
(***************************************************************************)
EXTENDS Naturals

CONSTANTS
  PromptChunks,  \* what CodexRunner writes to stdin, 0 for the other runners
  OutputChunks,  \* what is written to each stream at most
  PipeCapacity,  \* what a pipe holds before its writer blocks
  Heirs          \* whether the child may leave a process behind

ASSUME ProcessAssumption ==
  /\ PromptChunks \in Nat /\ OutputChunks \in Nat
  /\ PipeCapacity \in Nat \ {0}
  /\ Heirs \in BOOLEAN

Streams == {"stdout", "stderr"}
Pipes == Streams \cup {"stdin"}

VARIABLES
  runner,    \* where execute_task_with_observer is
  prompt,    \* what is left to write, what is in the pipe
  pipe,      \* chunks in the two output pipes
  written,   \* chunks ever written to each stream
  child,     \* the child process
  open,      \* the pipes whose other end some process still holds
  reader,    \* read_stream_chunks of each stream
  collected, \* the chunks each reader has read (`all`)
  channel,   \* chunks sent and not yet received, of each stream
  observed,  \* chunks given to observer.on_output
  closed,    \* channel_closed
  status,    \* the exit status the collector has seen
  expired,   \* started.elapsed() >= timeout
  timed_out

vars == <<runner, prompt, pipe, written, child, open, reader, collected, channel,
          observed, closed, status, expired, timed_out>>
readVars == <<reader, collected, channel>>
collVars == <<observed, closed, status, expired, timed_out>>

Over == {"returned", "error", "dropped"}

--------------------------------------------------------------------------------
Init ==
  /\ runner = "feeding"
  /\ prompt = [left |-> PromptChunks, inPipe |-> 0]
  /\ pipe = [s \in Streams |-> 0] /\ written = [s \in Streams |-> 0]
  /\ child = "running" /\ open = Pipes
  /\ reader = [s \in Streams |-> "none"]
  /\ collected = [s \in Streams |-> 0]
  /\ channel = [s \in Streams |-> 0]
  /\ observed = [s \in Streams |-> 0]
  /\ closed = FALSE /\ status = "none"
  /\ expired = FALSE /\ timed_out = FALSE

(* The processes at the other end.  A process that ends closes its pipes,  *)
(* unless it has left another one behind that still holds them.            *)
StillOpen == IF Heirs THEN SUBSET open ELSE {{}}

Emit(s) ==
  /\ s \in open
  /\ written[s] < OutputChunks /\ pipe[s] < PipeCapacity
  /\ written' = [written EXCEPT ![s] = @ + 1]
  /\ pipe' = [pipe EXCEPT ![s] = @ + 1]
  /\ UNCHANGED <<runner, prompt, child, open, readVars, collVars>>

ReadPrompt ==
  /\ "stdin" \in open /\ prompt.inPipe > 0
  /\ prompt' = [prompt EXCEPT !.inPipe = @ - 1]
  /\ UNCHANGED <<runner, pipe, written, child, open, readVars, collVars>>

Close(p) ==
  /\ p \in open
  /\ open' = open \ {p}
  /\ UNCHANGED <<runner, prompt, pipe, written, child, readVars, collVars>>

Exit ==
  /\ child = "running"
  /\ child' = "exited"
  /\ open' \in StillOpen
  /\ UNCHANGED <<runner, prompt, pipe, written, readVars, collVars>>

(* child.kill(), and kill_on_drop when the future is dropped.              *)
LeftRunning == UNCHANGED <<child, open>>
Killed ==
  IF child = "running" THEN child' = "killed" /\ open' \in StillOpen
                       ELSE UNCHANGED <<child, open>>

(* CodexRunner: stdin.write_all(prompt).await, which blocks while the pipe *)
(* is full and fails when nobody can read it any more.                     *)
Feed ==
  /\ runner = "feeding" /\ prompt.left > 0
  /\ "stdin" \in open /\ prompt.inPipe < PipeCapacity
  /\ prompt' = [left |-> prompt.left - 1, inPipe |-> prompt.inPipe + 1]
  /\ UNCHANGED <<runner, pipe, written, child, open, readVars, collVars>>

FeedFails ==
  /\ runner = "feeding" /\ prompt.left > 0
  /\ "stdin" \notin open
  /\ runner' = "error"
  /\ Killed
  /\ UNCHANGED <<prompt, pipe, written, readVars, collVars>>

(* collect_streaming_output starts: the readers are spawned and the clock  *)
(* of the timeout runs.                                                    *)
Collect ==
  /\ runner = "feeding" /\ prompt.left = 0
  /\ runner' = "polling"
  /\ reader' = [s \in Streams |-> "reading"]
  /\ UNCHANGED <<prompt, pipe, written, child, open, collected, channel, collVars>>

Expire ==
  /\ runner = "polling" /\ ~expired
  /\ expired' = TRUE
  /\ UNCHANGED <<runner, prompt, pipe, written, child, open, readVars, observed, closed,
                 status, timed_out>>

(* read_stream_chunks.                                                     *)
Read(s) ==
  /\ reader[s] = "reading" /\ pipe[s] > 0
  /\ pipe' = [pipe EXCEPT ![s] = @ - 1]
  /\ collected' = [collected EXCEPT ![s] = @ + 1]
  /\ channel' = [channel EXCEPT ![s] = @ + 1]
  /\ UNCHANGED <<runner, prompt, written, child, open, reader, collVars>>

EndOfFile(s) ==
  /\ reader[s] = "reading" /\ pipe[s] = 0
  /\ s \notin open
  /\ reader' = [reader EXCEPT ![s] = "ended"]
  /\ UNCHANGED <<runner, prompt, pipe, written, child, open, collected, channel, collVars>>

Ended(s) == reader[s] = "ended"

(* The loop ends when the child has exited and both streams have.          *)
StopsAtExit(seen, disconnected) == seen # "none"
CanStop(seen, disconnected) == seen # "none" /\ disconnected

NeverExpired == FALSE
TimeIsUp == expired

(* One round of the loop: the channel is drained, then the child is asked. *)
Poll ==
  /\ runner = "polling"
  /\ observed' = [s \in Streams |-> observed[s] + channel[s]]
  /\ channel' = [s \in Streams |-> 0]
  /\ closed' = (closed \/ \A s \in Streams : Ended(s))
  /\ status' = IF status = "none" /\ child # "running" THEN "exit" ELSE status
  /\ runner' = IF CanStop(status', closed') THEN "joining"
               ELSE IF TimeIsUp THEN "killing" ELSE "polling"
  /\ timed_out' = (runner' = "killing")
  /\ UNCHANGED <<prompt, pipe, written, child, open, reader, collected, expired>>

(* child.kill() and child.wait().                                          *)
Kill ==
  /\ runner = "killing"
  /\ runner' = "joining"
  /\ Killed
  /\ status' = IF child' = "killed" THEN "kill" ELSE "exit"
  /\ UNCHANGED <<prompt, pipe, written, readVars, observed, closed, expired, timed_out>>

(* join_chunk_task of both readers, and the result.                        *)
NotAwaited(s) == TRUE
Awaited(s) == Ended(s)

Join ==
  /\ runner = "joining"
  /\ \A s \in Streams : Awaited(s)
  /\ runner' = "returned"
  /\ UNCHANGED <<prompt, pipe, written, child, open, readVars, collVars>>

(* cancel_agent aborts the task: the future is dropped at an await, and    *)
(* the readers go on by themselves.                                        *)
Abort ==
  /\ runner \in {"feeding", "polling", "killing", "joining"}
  /\ runner' = "dropped"
  /\ Killed
  /\ UNCHANGED <<prompt, pipe, written, readVars, collVars>>

RunnerStep == Feed \/ FeedFails \/ Collect \/ Poll \/ Kill \/ Join
ReaderStep == \E s \in Streams : Read(s) \/ EndOfFile(s)
ChildStep ==
  \/ \E s \in Streams : Emit(s)
  \/ \E p \in Pipes : Close(p)
  \/ ReadPrompt \/ Exit

Next == RunnerStep \/ ReaderStep \/ ChildStep \/ Expire \/ Abort

Spec == Init /\ [][Next]_vars

(* The runtime polls the runner and the readers, and time passes.  The     *)
(* child may stop doing anything, which is what a timeout is for.          *)
FairSpec ==
  /\ Spec
  /\ WF_vars(RunnerStep) /\ WF_vars(Expire)
  /\ \A s \in Streams : WF_vars(Read(s) \/ EndOfFile(s))

--------------------------------------------------------------------------------
(* Properties.                                                             *)

(* The types of the state, and that an exit status is that of a child that *)
(* has gone.                                                               *)
TypeOK ==
  /\ runner \in {"feeding", "polling", "killing", "joining"} \cup Over
  /\ prompt \in [left : 0 .. PromptChunks, inPipe : 0 .. PipeCapacity]
  /\ pipe \in [Streams -> 0 .. PipeCapacity]
  /\ written \in [Streams -> 0 .. OutputChunks]
  /\ child \in {"running", "exited", "killed"} /\ open \in SUBSET Pipes
  /\ reader \in [Streams -> {"none", "reading", "ended"}]
  /\ collected \in [Streams -> Nat] /\ observed \in [Streams -> Nat]
  /\ channel \in [Streams -> Nat]
  /\ status \in {"none", "exit", "kill"}
  /\ closed \in BOOLEAN /\ expired \in BOOLEAN /\ timed_out \in BOOLEAN
  /\ status # "none" => child # "running"

(* The result holds all that was ever written to stdout and stderr, also   *)
(* what was written after the timeout and before the end.                  *)
OutputIsComplete ==
  runner = "returned" => collected = written

(* The observer is told of every chunk once, in time: when an execution    *)
(* returns by itself its delta events are all there.                       *)
ObserverIsTold ==
  /\ \A s \in Streams : observed[s] + channel[s] = collected[s]
  /\ runner = "returned" /\ ~timed_out => observed = collected

(* When the runner is left, by a result, an error, a timeout or a cancel,  *)
(* the provider does not go on.                                            *)
ChildIsGone == runner \in Over => child # "running"

(* Whatever the child does, the runner returns: at the latest when its     *)
(* timeout has passed.  It does so unless a child never reads its prompt,  *)
(* for which no timeout counts, or a process that outlives the child holds *)
(* stdout or stderr for ever.                                              *)
Blocked ==
  \/ runner = "feeding" /\ prompt.inPipe = PipeCapacity
  \/ runner = "joining" /\ open \cap Streams # {}
ReturnsUnlessBlocked == <>(runner \in Over) \/ <>[]Blocked
RunnerReturns == <>(runner \in Over)
================================================================================
