------------------------- MODULE ProviderProcessProof -------------------------
(***************************************************************************)
(* That an execution returns the whole output, told its observer of it,    *)
(* and leaves no child behind, for every size of the prompt, of the output *)
(* and of the pipes, and whatever the child and its heirs do.  That it     *)
(* returns at all is left to TLC.                                          *)
(***************************************************************************)
EXTENDS ProviderProcess, TLAPS

(* Every chunk is in one place: still in the pipe, or read, and then       *)
(* either in the channel or observed.                                      *)
Conserved ==
  \A s \in Streams : /\ collected[s] + pipe[s] = written[s]
                     /\ observed[s] + channel[s] = collected[s]

(* A reader that has ended left nothing in its pipe and nobody to write.   *)
EndedForGood ==
  \A s \in Streams : Ended(s) => pipe[s] = 0 /\ s \notin open

(* The channel is closed when both readers have ended and it was drained.  *)
ClosedForGood ==
  closed => \A s \in Streams : Ended(s) /\ channel[s] = 0

(* What the runner knows at each of its places.                            *)
Knows ==
  /\ runner = "feeding" => ~closed
  /\ runner \in {"joining", "returned"} => status # "none" /\ (closed \/ timed_out)
  /\ runner = "killing" => timed_out
  /\ runner = "returned" => \A s \in Streams : Ended(s)
  /\ runner \in Over => child # "running"

ProcessInv == TypeOK /\ Conserved /\ EndedForGood /\ ClosedForGood /\ Knows

(* A prefix of a sum is the whole when nothing is left.                    *)
LEMMA InvGivesComplete == ProcessInv => OutputIsComplete
<1> SUFFICES ASSUME ProcessInv, runner = "returned" PROVE collected = written
  BY DEF OutputIsComplete
<1>1. ASSUME NEW s \in Streams PROVE collected[s] = written[s]
  <2>1. pipe[s] = 0  BY DEF ProcessInv, Knows, EndedForGood
  <2>2. collected[s] \in Nat /\ written[s] \in Nat  BY DEF ProcessInv, TypeOK
  <2>3. collected[s] + pipe[s] = written[s]  BY DEF ProcessInv, Conserved
  <2> QED  BY <2>1, <2>2, <2>3
<1>2. collected \in [Streams -> Nat] /\ written \in [Streams -> 0 .. OutputChunks]
  BY DEF ProcessInv, TypeOK
<1> QED  BY <1>1, <1>2

(* What has left the channel has reached the observer.                     *)
LEMMA InvGivesTold == ProcessInv => ObserverIsTold
<1> SUFFICES ASSUME ProcessInv PROVE ObserverIsTold
  OBVIOUS
<1>1. \A s \in Streams : observed[s] + channel[s] = collected[s]
  BY DEF ProcessInv, Conserved
<1>2. ASSUME runner = "returned", ~timed_out PROVE observed = collected
  <2>1. ASSUME NEW s \in Streams PROVE observed[s] = collected[s]
    <3>1. channel[s] = 0  BY <1>2 DEF ProcessInv, Knows, ClosedForGood
    <3>2. observed[s] \in Nat /\ collected[s] \in Nat  BY DEF ProcessInv, TypeOK
    <3> QED  BY <1>1, <3>1, <3>2
  <2>2. observed \in [Streams -> Nat] /\ collected \in [Streams -> Nat]
    BY DEF ProcessInv, TypeOK
  <2> QED  BY <2>1, <2>2
<1> QED  BY <1>1, <1>2 DEF ObserverIsTold

LEMMA InitEstablishes == Init => ProcessInv
<1> SUFFICES ASSUME Init PROVE ProcessInv
  OBVIOUS
<1>1. prompt \in [left : 0 .. PromptChunks, inPipe : 0 .. PipeCapacity]
  BY ProcessAssumption DEF Init
<1>2. pipe \in [Streams -> 0 .. PipeCapacity] /\ written \in [Streams -> 0 .. OutputChunks]
  BY ProcessAssumption DEF Init
<1>3. TypeOK
  BY <1>1, <1>2 DEF Init, TypeOK, Pipes
<1>4. Conserved /\ EndedForGood /\ ClosedForGood /\ Knows
  BY DEF Init, Conserved, EndedForGood, ClosedForGood, Knows, Ended, Over
<1> QED  BY <1>3, <1>4 DEF ProcessInv

(* What killing the child leaves of it.                                    *)
LEMMA KilledIsGone ==
  ASSUME Killed, child \in {"running", "exited", "killed"}, open \in SUBSET Pipes
  PROVE  /\ child' \in {"exited", "killed"}
         /\ open' \subseteq open
BY DEF Killed, StillOpen

LEMMA StepPreserves == ProcessInv /\ [Next]_vars => ProcessInv'
<1> SUFFICES ASSUME ProcessInv, [Next]_vars PROVE ProcessInv'
  OBVIOUS
<1> USE ProcessAssumption
<1>1. ASSUME NEW s \in Streams, Emit(s) PROVE ProcessInv'
  <2>1. TypeOK'
    BY <1>1 DEF Emit, ProcessInv, TypeOK, readVars, collVars, Over, Streams
  <2>2. Conserved'
    BY <1>1 DEF Emit, ProcessInv, TypeOK, Conserved, readVars, collVars
  <2>3. (EndedForGood /\ ClosedForGood /\ Knows)'
    BY <1>1 DEF Emit, ProcessInv, TypeOK, EndedForGood, ClosedForGood, Knows, Ended,
                readVars, collVars
  <2> QED  BY <2>1, <2>2, <2>3 DEF ProcessInv
<1>2. CASE ReadPrompt
  <2>1. prompt' \in [left : 0 .. PromptChunks, inPipe : 0 .. PipeCapacity]
    BY <1>2 DEF ReadPrompt, ProcessInv, TypeOK
  <2> QED
    BY <1>2, <2>1 DEF ReadPrompt, ProcessInv, TypeOK, Conserved, EndedForGood,
                      ClosedForGood, Knows, Ended, readVars, collVars
<1>3. ASSUME NEW p \in Pipes, Close(p) PROVE ProcessInv'
  BY <1>3 DEF Close, ProcessInv, TypeOK, Conserved, EndedForGood, ClosedForGood, Knows,
              Ended, readVars, collVars
<1>4. CASE Exit
  <2>1. open' \subseteq open  BY <1>4 DEF Exit, StillOpen
  <2> QED
    BY <1>4, <2>1 DEF Exit, ProcessInv, TypeOK, Conserved, EndedForGood, ClosedForGood,
                      Knows, Ended, readVars, collVars
<1>5. CASE Feed
  <2>1. prompt' \in [left : 0 .. PromptChunks, inPipe : 0 .. PipeCapacity]
    BY <1>5 DEF Feed, ProcessInv, TypeOK
  <2> QED
    BY <1>5, <2>1 DEF Feed, ProcessInv, TypeOK, Conserved, EndedForGood, ClosedForGood,
                      Knows, Ended, readVars, collVars
<1>6. CASE FeedFails
  <2>1. child' \in {"exited", "killed"} /\ open' \subseteq open
    BY <1>6, KilledIsGone DEF FeedFails, ProcessInv, TypeOK
  <2> QED
    BY <1>6, <2>1 DEF FeedFails, ProcessInv, TypeOK, Conserved, EndedForGood, ClosedForGood,
                      Knows, Ended, Over, readVars, collVars
<1>7. CASE Collect
  BY <1>7 DEF Collect, ProcessInv, TypeOK, Conserved, EndedForGood, ClosedForGood, Knows,
              Ended, Over, Streams, collVars
<1>8. CASE Expire
  BY <1>8 DEF Expire, ProcessInv, TypeOK, Conserved, EndedForGood, ClosedForGood, Knows,
              Ended, readVars
<1>9. ASSUME NEW s \in Streams, Read(s) PROVE ProcessInv'
  <2>1. TypeOK'
    BY <1>9 DEF Read, ProcessInv, TypeOK, collVars
  <2>2. Conserved'
    BY <1>9 DEF Read, ProcessInv, TypeOK, Conserved, collVars
  <2>3. ~closed
    BY <1>9 DEF Read, ProcessInv, ClosedForGood, Ended
  <2>4. (EndedForGood /\ ClosedForGood /\ Knows)'
    BY <1>9, <2>3 DEF Read, ProcessInv, TypeOK, EndedForGood, ClosedForGood, Knows, Ended,
                      collVars
  <2> QED  BY <2>1, <2>2, <2>4 DEF ProcessInv
<1>10. ASSUME NEW s \in Streams, EndOfFile(s) PROVE ProcessInv'
  BY <1>10 DEF EndOfFile, ProcessInv, TypeOK, Conserved, EndedForGood, ClosedForGood, Knows,
               Ended, collVars
<1>11. CASE Poll
  <2>1. Conserved'
    BY <1>11 DEF Poll, ProcessInv, TypeOK, Conserved
  <2>2. (EndedForGood /\ ClosedForGood)'
    BY <1>11 DEF Poll, ProcessInv, TypeOK, EndedForGood, ClosedForGood, Ended
  <2>3. runner' \in {"joining", "killing", "polling"} /\ timed_out' = (runner' = "killing")
    BY <1>11 DEF Poll
  <2>4. TypeOK'
    <3>1. observed' \in [Streams -> Nat] /\ channel' \in [Streams -> Nat]
      BY <1>11 DEF Poll, ProcessInv, TypeOK
    <3>2. closed' \in BOOLEAN
      BY <1>11 DEF Poll, ProcessInv, TypeOK
    <3>3. status' \in {"none", "exit", "kill"} /\ (status' # "none" => child # "running")
      BY <1>11 DEF Poll, ProcessInv, TypeOK
    <3> QED
      BY <1>11, <2>3, <3>1, <3>2, <3>3 DEF Poll, ProcessInv, TypeOK
  <2>5. Knows'
    BY <1>11, <2>3 DEF Poll, CanStop, Knows, Over
  <2> QED  BY <2>1, <2>2, <2>4, <2>5 DEF ProcessInv
<1>12. CASE Kill
  <2>1. child' \in {"exited", "killed"} /\ open' \subseteq open
    BY <1>12, KilledIsGone DEF Kill, ProcessInv, TypeOK
  <2>2. timed_out
    BY <1>12 DEF Kill, ProcessInv, Knows
  <2> QED
    BY <1>12, <2>1, <2>2 DEF Kill, ProcessInv, TypeOK, Conserved, EndedForGood,
                             ClosedForGood, Knows, Ended, Over, readVars
<1>13. CASE Join
  BY <1>13 DEF Join, Awaited, ProcessInv, TypeOK, Conserved, EndedForGood, ClosedForGood,
               Knows, Ended, Over, readVars, collVars
<1>14. CASE Abort
  <2>1. child' \in {"exited", "killed"} /\ open' \subseteq open
    BY <1>14, KilledIsGone DEF Abort, ProcessInv, TypeOK
  <2> QED
    BY <1>14, <2>1 DEF Abort, ProcessInv, TypeOK, Conserved, EndedForGood, ClosedForGood,
                       Knows, Ended, Over, readVars, collVars
<1>15. CASE UNCHANGED vars
  BY <1>15 DEF vars, ProcessInv, TypeOK, Conserved, EndedForGood, ClosedForGood, Knows, Ended
<1> QED
  BY <1>1, <1>2, <1>3, <1>4, <1>5, <1>6, <1>7, <1>8, <1>9, <1>10, <1>11, <1>12, <1>13,
     <1>14, <1>15
  DEF Next, RunnerStep, ReaderStep, ChildStep

(* Where the chunks are and what the runner knows, at every step of every  *)
(* execution.                                                              *)
THEOREM ProcessInvariant == Spec => []ProcessInv
<1> QED  BY InitEstablishes, StepPreserves, PTL DEF Spec

(* The states of runner, readers and child stay within their types.        *)
THEOREM ProcessTypes == Spec => []TypeOK
<1>1. ProcessInv => TypeOK  BY DEF ProcessInv
<1> QED  BY <1>1, ProcessInvariant, PTL

(* read_stream_chunks and join_chunk_task: a result holds the whole of     *)
(* stdout and stderr.                                                      *)
THEOREM OutputComplete == Spec => []OutputIsComplete
<1> QED  BY InvGivesComplete, ProcessInvariant, PTL

(* The loop of collect_streaming_output: the observer misses no chunk of   *)
(* an execution that was not timed out.                                    *)
THEOREM ObserverTold == Spec => []ObserverIsTold
<1> QED  BY InvGivesTold, ProcessInvariant, PTL

(* Neither a result nor an error, nor a cancel leaves the child running.   *)
THEOREM ChildGone == Spec => []ChildIsGone
<1>1. ProcessInv => ChildIsGone  BY DEF ProcessInv, Knows, ChildIsGone
<1> QED  BY <1>1, ProcessInvariant, PTL
================================================================================
