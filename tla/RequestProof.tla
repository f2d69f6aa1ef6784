------------------------------- MODULE RequestProof -------------------------------
(***************************************************************************)
(* What holds of every request, in every setting and with every answer of  *)
(* its provider: a request implements the Dispatcher, whose theorems so    *)
(* hold of it, and all of RequestProperties but what a doc says and the    *)
(* code does not do.  Invariants carry them: RequestInv says what there is *)
(* of workspace and temp files, phase by phase, GateInv what was judged    *)
(* before a provider is called, RecordInv what is on disk of what a client *)
(* was told, MemoryInv what a provider is given to read, StreamsInv what   *)
(* it prints, AcceptedInv which agent was taken, and LogInv what is logged *)
(* and in which order.  Loops over lists are proved with LoopsProof.       *)
(***************************************************************************)
EXTENDS RequestProperties, DispatcherProof, LoopsProof, FiniteSetTheorems

(* A set of positions that is not empty has a first one.                   *)
LEMMA FirstPosition ==
  ASSUME NEW n \in Nat, NEW S \in SUBSET (1 .. n), S # {}
  PROVE  Min(S) \in S /\ \A j \in S : Min(S) <= j
<1> DEFINE T == {1 .. i : i \in S}
<1>1. IsWellFoundedOn(StrictSubsetOrdering(1 .. n), SUBSET (1 .. n))
  <2>1. IsFiniteSet(1 .. n)
    BY FS_Interval
  <2>2. FiniteSubsetsOf(1 .. n) = SUBSET (1 .. n)
    BY <2>1, FS_FiniteSubsetsOfFinite
  <2> QED BY <2>2, FS_StrictSubsetOrderingWellFounded
<1>2. T \subseteq SUBSET (1 .. n) /\ T # {}
  <2>1. ASSUME NEW i \in S PROVE 1 .. i \subseteq 1 .. n
    OBVIOUS
  <2> QED BY <2>1
<1>3. PICK t \in T : \A u \in T : ~ (<<u, t>> \in StrictSubsetOrdering(1 .. n))
  <2> HIDE DEF T
  <2> QED BY <1>1, <1>2, WFMin
<1>4. PICK i \in S : t = 1 .. i
  OBVIOUS
<1>5. ASSUME NEW j \in S PROVE i <= j
  <2>1. SUFFICES ASSUME j < i PROVE FALSE
    OBVIOUS
  <2>2. 1 .. j \in T /\ 1 .. j \subseteq 1 .. i /\ i \in 1 .. i /\ i \notin 1 .. j
    BY <2>1
  <2>3. <<1 .. j, 1 .. i>> \in StrictSubsetOrdering(1 .. n)
    BY <2>2 DEF StrictSubsetOrdering
  <2> QED BY <1>3, <1>4, <2>2, <2>3
<1> QED BY <1>5 DEF Min

(* The line a runner reports is one of those the classification knows.     *)
LEMMA LineIsKnown ==
  ASSUME NEW provider, NEW stderr \in Seq(STRING)
  PROVE  ChosenLine(provider, stderr) \in DOMAIN ErrorLines \cup {"none"}
<1>1. \A i \in Lines(stderr) : i \in 1 .. Len(stderr) /\ stderr[i] \in DOMAIN ErrorLines
  BY DEF Lines
<1>2. CodexLines(stderr) \subseteq Lines(stderr)
  BY DEF CodexLines, Marked
<1> DEFINE found == IF provider = "codex" THEN CodexLines(stderr) ELSE Lines(stderr)
<1>3. found \in SUBSET (1 .. Len(stderr)) /\ found \subseteq Lines(stderr)
  BY <1>1, <1>2
<1>4. CASE found = {}
  BY <1>4 DEF ChosenLine
<1>5. CASE found # {}
  <2> HIDE DEF found
  <2>1. Len(stderr) \in Nat
    OBVIOUS
  <2>2. Min(found) \in Lines(stderr)
    BY <1>3, <1>5, <2>1, FirstPosition
  <2>3. ChosenLine(provider, stderr) = stderr[Min(found)]
    BY <1>5 DEF ChosenLine, found
  <2> QED
    BY <1>1, <2>2, <2>3
<1> QED
  BY <1>4, <1>5

(* So a call that is answered ends in a way the Dispatcher knows.          *)
LEMMA EndIsKnown ==
  ASSUME NEW provider, NEW answer \in PossibleAnswers \cup {MockAnswer}
  PROVE  EndOf(provider, answer) \in Ends
<1>1. CASE answer = MockAnswer
  BY <1>1 DEF MockAnswer, EndOf, Ends
<1>2. CASE answer \in PossibleAnswers
  <2>1. /\ answer.exit \in {"success", "failure", "timeout"}
        /\ answer.stderr \in Seq(STRING)
    BY <1>2 DEF PossibleAnswers
  <2>2. ClassOfFailure(provider, answer.stderr) \in {"retryable", "non_retryable", "unknown"}
    BY <2>1, LineIsKnown DEF ClassOfFailure, ErrorLines
  <2> QED
    BY <2>1, <2>2 DEF EndOf, Ends
<1> QED
  BY <1>1, <1>2

LEMMA StatusIsKnown ==
  ASSUME NEW stdout, NEW stderr
  PROVE  ParseSummaryContract(stdout, stderr).status \in {"validated", "degraded", "invalid"}
  BY DEF ParseSummaryContract, Parsed

--------------------------------------------------------------------------------
(* The setting stays what it was.                                          *)
SettingIsGiven == \E group \in DOMAIN Settings : setting \in Settings[group]

LEMMA PossibleAsTyped == SettingIsGiven => Possible \subseteq PossibleAnswers \cup {MockAnswer}
<1> SUFFICES ASSUME NEW group \in DOMAIN Settings, setting \in Settings[group]
             PROVE  Possible \subseteq PossibleAnswers \cup {MockAnswer}
  BY DEF SettingIsGiven
<1>1. setting.answers \in DOMAIN Answers
  BY AnswersAssumption
<1> QED
  BY <1>1, AnswersAssumption DEF Possible

(* A provider's answer is an execution the Dispatcher collects.            *)
LEMMA AnswerCollects ==
  ASSUME SettingIsGiven, NEW answer \in Possible, Answer(answer)
  PROVE  \E e \in Executions : Collect(e)
<1>1. PICK stderr, execution :
         /\ execution = Execution(agent.provider, answer, stderr)
         /\ Collect([end |-> execution.end,
                     parse |-> ParseSummaryContract(execution.stdout, execution.stderr).status])
  BY DEF Answer
<1>2. execution.end \in Ends
  BY <1>1, PossibleAsTyped, EndIsKnown DEF Execution
<1>3. ParseSummaryContract(execution.stdout, execution.stderr).status
        \in {"validated", "degraded", "invalid"}
  BY StatusIsKnown
<1> QED
  BY <1>1, <1>2, <1>3 DEF Executions

LEMMA SettingInit == RequestInit => SettingIsGiven
  BY DEF RequestInit, SettingIsGiven

(* The actions of a request that are none of the Dispatcher's.             *)
Aside ==
  \/ RefuseRequest \/ Accept \/ ProbeProvider \/ MakeWorkspace \/ ReadMemory
  \/ (\E answer \in Possible : CallAgain(answer)) \/ (\E warns \in BOOLEAN : Beat(warns))
  \/ Save \/ Restart \/ RequestOver

LEMMA AsideLeavesDispatcher == Aside => UNCHANGED <<setting, vars>>
  BY DEF Aside, RefuseRequest, Accept, ProbeProvider, MakeWorkspace, ReadMemory, CallAgain,
         Beat, Save, Restart, RequestOver, requestVars

(* Every other action takes a step of the Dispatcher with it.              *)
LEMMA RequestSteps ==
  ASSUME SettingIsGiven, [RequestNext]_<<requestVars, vars>>
  PROVE  UNCHANGED setting /\ SettingIsGiven' /\ [Next]_vars
<1>1. ASSUME Aside PROVE UNCHANGED setting /\ UNCHANGED vars
  BY <1>1, AsideLeavesDispatcher
<1>2. ASSUME NEW answer \in Possible, Answer(answer)
      PROVE  UNCHANGED setting /\ Next
  <2>1. UNCHANGED setting
    BY <1>2 DEF Answer
  <2> QED
    BY <1>2, <2>1, AnswerCollects DEF Next
<1>3. FailGate => UNCHANGED setting /\ Refuse
  BY DEF FailGate
<1>4. Compile => UNCHANGED setting /\ Prepare
  BY DEF Compile
<1>5. Call => UNCHANGED setting /\ Launch
  BY DEF Call
<1>6. CallError => UNCHANGED setting /\ RunnerError
  BY DEF CallError
<1>7. Wait => UNCHANGED setting /\ BackOff
  BY DEF Wait, requestVars
<1>8. Cancel => UNCHANGED setting /\ Abort
  BY DEF Cancel
<1>9. Settle => UNCHANGED setting /\ Finalize
  BY DEF Settle
<1>10. UNCHANGED <<requestVars, vars>> => UNCHANGED setting /\ UNCHANGED vars
  BY DEF requestVars
<1>11. UNCHANGED setting /\ [Next]_vars
  BY <1>1, <1>2, <1>3, <1>4, <1>5, <1>6, <1>7, <1>8, <1>9, <1>10
     DEF RequestNext, Aside, Next
<1> QED
  BY <1>11 DEF SettingIsGiven

(* A request implements the Dispatcher: whatever setting it is made in and *)
(* whatever its provider answers, what it does to a run's attempts is what *)
(* run_with_observers alone does.                                          *)
THEOREM RequestImplementsDispatcher == RequestSpec => Spec
<1>1. RequestInit => Init
  <2>1. SUFFICES ASSUME RequestInit PROVE spec \in Specs
    BY DEF RequestInit, Init
  <2> QED
    BY <2>1, AgentsAssumption DEF RequestInit
<1> QED
  BY <1>1, SettingInit, RequestSteps, PTL DEF RequestSpec, Spec

(* So what is proved of every dispatch holds of every request: the budget, *)
THEOREM RequestKeepsBudget == RequestSpec => []BudgetIsKept
  BY RequestImplementsDispatcher, DispatchKeepsBudget, PTL

(* the reasons for its retries,                                            *)
THEOREM RequestEarnsRetries == RequestSpec => []RetriesAreEarned
  BY RequestImplementsDispatcher, DispatchEarnsRetries, PTL

(* and the attempt its result is of.                                       *)
THEOREM RequestReportsLast == RequestSpec => []ResultIsOfLastAttempt
  BY RequestImplementsDispatcher, DispatchReportsLast, PTL

--------------------------------------------------------------------------------
(* What a request was accepted as, what it has made and which files of its *)
(* calls there are, phase by phase.                                        *)
Before == {"starting", "accepted", "ready"}
Inside == {"in_workspace", "gated", "dispatching", "calling", "calling_again", "call_failed"}

AcceptedAsPrepared ==
  phase \in (Before \cup Inside) \ {"starting"} =>
    accepted = Prepared(setting) /\ accepted.error = "none"

StopsEndRequests ==
  step \in {"runner_error", "aborted"} => phase \in {"over", "restarted"}

(* What may stay of a workspace when the guard is done with it.            *)
StaysOnlyIfStuck ==
  /\ "workspace" \in left => "remove" \notin setting.world.works
  /\ {"registration", "misplaced"} \cap left # {} =>
       "worktree_remove" \notin setting.world.works
WorkspaceFollowsPhase ==
  /\ phase \in Before => left = {}
  /\ phase \in Inside =>
       /\ workspace.mode \in {"in_place", "stable_scratch", "temp_copy",
                             "fallback_temp_copy", "git_worktree"}
       /\ left = Made(workspace, setting.world)
  /\ phase \notin Inside => StaysOnlyIfStuck

TempFollowsPhase ==
  /\ phase = "calling" => temp = TempFiles(effective, effective.runtime.native_discovery)
  /\ phase = "calling_again" => temp = TempFiles(effective, "minimal")
  /\ phase \notin {"calling", "calling_again", "call_failed"} =>
       temp = {} \/ step \in {"runner_error", "aborted"}
  /\ temp # {} => \E files \in FilesOfOneCall : temp \subseteq files

RequestInv ==
  /\ SettingIsGiven /\ AcceptedAsPrepared /\ StopsEndRequests
  /\ WorkspaceFollowsPhase /\ TempFollowsPhase

(* The agent of an accepted request is one of those in the settings.       *)
LEMMA AgentAsTyped ==
  ASSUME SettingIsGiven, NEW taken, taken = Prepared(setting), taken.error = "none"
  PROVE  LET s == taken.file.spec IN
         /\ DOMAIN s = DOMAIN DefaultSpec /\ DOMAIN s.runtime = DOMAIN DefaultRuntime
         /\ s.provider \in Providers
         /\ s.runtime.working_dir_policy \in WorkingDirPolicies
         /\ s.runtime.sandbox \in {"read_only", "workspace_write", "full_access"}
         /\ s.runtime.approval \in
              {"provider_default", "ask", "auto_accept_edits", "deny_by_default"}
<1>1. PICK group \in DOMAIN Settings : setting \in Settings[group]
  BY DEF SettingIsGiven
<1>2. AgentOf(Prepared(setting)) = taken.file.spec
  BY DEF AgentOf
<1> QED
  BY <1>1, <1>2, AgentsAssumption

(* What a preparation returns.                                             *)
LEMMA PreparationAsTyped ==
  ASSUME NEW s, NEW r, NEW world, s.runtime.working_dir_policy \in WorkingDirPolicies
  PROVE  LET prepared == PrepareWorkspace(s, r, world) IN
         \/ /\ prepared.error = "none"
            /\ prepared.mode \in {"in_place", "stable_scratch", "temp_copy",
                                  "fallback_temp_copy", "git_worktree"}
         \/ /\ prepared.error # "none" /\ prepared.mode = "none"
<1>1. WantedMode(s, r) \in {"in_place", "stable_scratch", "temp_copy", "git_worktree"}
  BY DEF WantedMode, WorkingDirPolicies
<1> QED
  BY <1>1 DEF PrepareWorkspace, Workspace, NoWorkspace

(* The guard leaves only what it could not remove.                         *)
LEMMA GuardClears ==
  ASSUME NEW prepared, NEW world,
         prepared.mode \in {"in_place", "stable_scratch", "temp_copy",
                            "fallback_temp_copy", "git_worktree"}
  PROVE  LET over == Leftovers(prepared, world) IN
         /\ "workspace" \in over => "remove" \notin world.works
         /\ {"registration", "misplaced"} \cap over # {} => "worktree_remove" \notin world.works
  BY DEF Leftovers, Made

LEMMA FailedPreparationClears ==
  ASSUME NEW prepared, NEW world, prepared.mode = "none"
  PROVE  LET over == Made(prepared, world) IN
         /\ "workspace" \in over => "remove" \notin world.works
         /\ {"registration", "misplaced"} \cap over = {}
  BY DEF Made

LEMMA InitRequest == RequestInit => RequestInv
  BY DEF RequestInit, RequestInv, SettingIsGiven, AcceptedAsPrepared, StopsEndRequests,
         WorkspaceFollowsPhase, TempFollowsPhase, StaysOnlyIfStuck, Before, Inside

LEMMA StopIsTheEnd ==
  ASSUME NEW error, Stop(error)
  PROVE  phase' = "over"
  BY DEF Stop, Fail

(* Before there is a workspace.                                            *)
LEMMA ArrivalInv ==
  ASSUME RequestInv, RefuseRequest \/ Accept \/ ProbeProvider
  PROVE  RequestInv'
<1> USE DEF RequestInv
<1>1. /\ UNCHANGED <<setting, workspace, temp, left, vars>>
      /\ phase \in Before /\ left = {}
      /\ phase' \in {"accepted", "ready", "over"}
  <2>1. CASE RefuseRequest
    BY <2>1 DEF RefuseRequest, WorkspaceFollowsPhase, Before
  <2>2. CASE Accept
    <3>1. phase = "starting" /\ phase' \in {"accepted", "over"}
      BY <2>2 DEF Accept
    <3> QED BY <2>2, <3>1 DEF Accept, WorkspaceFollowsPhase, Before
  <2>3. CASE ProbeProvider
    <3>1. phase = "accepted" /\ phase' \in {"ready", "over"}
      BY <2>3, StopIsTheEnd DEF ProbeProvider, Fail
    <3> QED BY <2>3, <3>1 DEF ProbeProvider, WorkspaceFollowsPhase, Before
  <2> QED BY <2>1, <2>2, <2>3
<1>2. phase' \in {"accepted", "ready"} =>
        accepted' = Prepared(setting)' /\ accepted'.error = "none"
  <2>1. CASE RefuseRequest
    BY <2>1 DEF RefuseRequest
  <2>2. CASE Accept
    BY <1>1, <2>2 DEF Accept
  <2>3. CASE ProbeProvider
    BY <1>1, <2>3 DEF ProbeProvider, AcceptedAsPrepared, Before
  <2> QED BY <2>1, <2>2, <2>3
<1>3. SettingIsGiven' /\ AcceptedAsPrepared' /\ StopsEndRequests'
  BY <1>1, <1>2 DEF SettingIsGiven, AcceptedAsPrepared, StopsEndRequests, Before, Inside, vars
<1>4. WorkspaceFollowsPhase'
  BY <1>1 DEF WorkspaceFollowsPhase, StaysOnlyIfStuck, Before, Inside
<1>5. TempFollowsPhase'
  <2>1. temp = {} /\ temp' = {}
    BY <1>1 DEF TempFollowsPhase, StopsEndRequests, Before
  <2> QED BY <1>1, <2>1 DEF TempFollowsPhase, Before
<1> QED BY <1>3, <1>4, <1>5

LEMMA WorkspaceInv ==
  ASSUME RequestInv, MakeWorkspace
  PROVE  RequestInv'
<1> USE DEF RequestInv
<1> DEFINE prepared == PrepareWorkspace(agent, request, setting.world)
<1>1. /\ UNCHANGED <<setting, accepted, temp, vars>>
      /\ phase = "ready" /\ workspace' = prepared
      /\ left' = Made(prepared, setting.world)
  BY DEF MakeWorkspace
<1>2. accepted = Prepared(setting) /\ accepted.error = "none"
  BY <1>1 DEF AcceptedAsPrepared, Before
<1>3. agent.runtime.working_dir_policy \in WorkingDirPolicies
  BY <1>2, AgentAsTyped DEF agent
<1>4. \/ /\ prepared.error = "none" /\ phase' = "in_workspace"
         /\ prepared.mode \in {"in_place", "stable_scratch", "temp_copy",
                               "fallback_temp_copy", "git_worktree"}
      \/ prepared.error # "none" /\ phase' = "over" /\ prepared.mode = "none"
  BY <1>3, PreparationAsTyped, StopIsTheEnd DEF MakeWorkspace
<1> HIDE DEF prepared
<1>5. SettingIsGiven' /\ AcceptedAsPrepared' /\ StopsEndRequests'
  BY <1>1, <1>2, <1>4 DEF SettingIsGiven, AcceptedAsPrepared, StopsEndRequests, vars
<1>6. WorkspaceFollowsPhase'
  <2>1. CASE phase' = "in_workspace"
    BY <1>1, <1>4, <2>1 DEF WorkspaceFollowsPhase, Before, Inside
  <2>2. CASE phase' = "over"
    BY <1>1, <1>4, <2>2, FailedPreparationClears
       DEF WorkspaceFollowsPhase, StaysOnlyIfStuck, Before, Inside
  <2> QED BY <1>4, <2>1, <2>2
<1>7. TempFollowsPhase'
  <2>1. temp = {} /\ temp' = {}
    BY <1>1 DEF TempFollowsPhase, StopsEndRequests
  <2> QED BY <1>1, <1>4, <2>1 DEF TempFollowsPhase
<1> QED BY <1>5, <1>6, <1>7

(* The steps in the workspace that leave the temp directory as it is, and  *)
(* either go on or end with the guard.                                     *)
LEMMA InsideInv ==
  ASSUME RequestInv,
         UNCHANGED <<setting, accepted, workspace, temp>>,
         phase \in Inside,
         \/ /\ phase' \in {"gated", "dispatching"} /\ UNCHANGED left
            /\ phase \in {"in_workspace", "gated", "dispatching"}
            /\ step' \notin {"runner_error", "aborted"}
         \/ /\ phase' \in {"over", "settled"} /\ Release
            /\ \/ step' \in {"runner_error", "aborted"} /\ phase' = "over"
               \/ /\ step' \notin {"runner_error", "aborted"}
                  /\ phase \in {"in_workspace", "gated", "dispatching"}
  PROVE  RequestInv'
<1> USE DEF RequestInv
<1>1. SettingIsGiven' /\ StopsEndRequests'
  BY DEF SettingIsGiven, StopsEndRequests
<1>2. AcceptedAsPrepared'
  BY DEF AcceptedAsPrepared, Before, Inside
<1>3. WorkspaceFollowsPhase'
  <2>1. CASE phase' \in {"gated", "dispatching"}
    BY <2>1 DEF WorkspaceFollowsPhase, StaysOnlyIfStuck, Before, Inside
  <2>2. CASE phase' \in {"over", "settled"}
    <3>1. left' = Leftovers(workspace, setting.world)
      BY <2>2 DEF Release
    <3>2. workspace.mode \in {"in_place", "stable_scratch", "temp_copy",
                             "fallback_temp_copy", "git_worktree"}
      BY DEF WorkspaceFollowsPhase
    <3> QED
      BY <2>2, <3>1, <3>2, GuardClears
         DEF WorkspaceFollowsPhase, StaysOnlyIfStuck, Before, Inside
  <2> QED BY <2>1, <2>2
<1>4. TempFollowsPhase'
  <2>1. effective' = effective
    BY DEF effective, agent
  <2> QED BY <2>1 DEF TempFollowsPhase, StopsEndRequests, Inside, FilesOfOneCall
<1> QED BY <1>1, <1>2, <1>3, <1>4

LEMMA InsideSteps ==
  ASSUME RequestInv,
         ReadMemory \/ FailGate \/ Compile \/ CallError \/ Wait \/ Cancel \/ Settle
  PROVE  RequestInv'
<1>0. UNCHANGED <<setting, accepted, workspace, temp>> /\ phase \in Inside
  BY DEF ReadMemory, FailGate, Compile, CallError, Wait, Cancel, Settle, requestVars, Inside
<1>1. CASE ReadMemory
  <2>1. phase = "in_workspace" /\ step' = step /\ step \notin {"runner_error", "aborted"}
    BY <1>1 DEF ReadMemory, vars, RequestInv, StopsEndRequests
  <2>2. \/ phase' = "gated" /\ UNCHANGED left
        \/ phase' = "over" /\ Release
    BY <1>1, StopIsTheEnd DEF ReadMemory
  <2> QED BY <1>0, <2>1, <2>2, InsideInv
<1>2. CASE FailGate
  <2>1. /\ phase = "gated" /\ step' = "refused" /\ phase' = "over" /\ Release
    BY <1>2, StopIsTheEnd DEF FailGate, Refuse
  <2> QED BY <1>0, <2>1, InsideInv
<1>3. CASE Compile
  <2>1. step' \notin {"runner_error", "aborted"}
    BY <1>3 DEF Compile, Prepare, LoopHead
  <2>2. phase = "gated" /\ phase' = "dispatching" /\ UNCHANGED left
    BY <1>3 DEF Compile
  <2> QED BY <1>0, <2>1, <2>2, InsideInv
<1>4. CASE CallError
  <2>1. step' = "runner_error" /\ phase' = "over" /\ Release
    BY <1>4, StopIsTheEnd DEF CallError, RunnerError
  <2> QED BY <1>0, <2>1, InsideInv
<1>5. CASE Wait
  <2>1. step' \notin {"runner_error", "aborted"}
    BY <1>5 DEF Wait, BackOff, LoopHead
  <2>2. phase = "dispatching" /\ phase' = "dispatching" /\ UNCHANGED left
    BY <1>5 DEF Wait, requestVars
  <2> QED BY <1>0, <2>1, <2>2, InsideInv
<1>6. CASE Cancel
  <2>1. step' = "aborted" /\ phase' = "over" /\ Release
    BY <1>6 DEF Cancel, Abort
  <2> QED BY <1>0, <2>1, InsideInv
<1>7. CASE Settle
  <2>1. step' = "returned" /\ phase = "dispatching" /\ phase' = "settled" /\ Release
    BY <1>7 DEF Settle, Finalize
  <2> QED BY <1>0, <2>1, InsideInv
<1> QED BY <1>1, <1>2, <1>3, <1>4, <1>5, <1>6, <1>7

(* A call, the same call again, and its answer.                            *)
LEMMA CallInv ==
  ASSUME RequestInv,
         Call \/ (\E answer \in Possible : CallAgain(answer) \/ Answer(answer))
  PROVE  RequestInv'
<1> USE DEF RequestInv
<1> DEFINE discovery == effective.runtime.native_discovery
<1>1. /\ UNCHANGED <<setting, accepted, workspace, left>>
      /\ phase \in {"dispatching", "calling", "calling_again"}
      /\ phase' \in {"dispatching", "calling", "calling_again", "call_failed"}
  BY DEF Call, CallAgain, Answer
<1>2. step' \notin {"runner_error", "aborted"}
  <2>1. CASE Call
    BY <2>1 DEF Call, Launch
  <2>2. CASE \E answer \in Possible : CallAgain(answer)
    BY <1>1, <2>2 DEF CallAgain, vars, StopsEndRequests
  <2>3. ASSUME NEW answer \in Possible, Answer(answer)
        PROVE  step' \in {"backing_off", "finalizing"}
    <3>1. PICK e : Collect(e)
      BY <2>3 DEF Answer
    <3> QED BY <3>1 DEF Collect
  <2> QED BY <2>1, <2>2, <2>3
<1>3. SettingIsGiven' /\ AcceptedAsPrepared' /\ StopsEndRequests' /\ WorkspaceFollowsPhase'
  BY <1>1, <1>2 DEF SettingIsGiven, AcceptedAsPrepared, StopsEndRequests,
                    WorkspaceFollowsPhase, Before, Inside
<1>4. effective' = effective
  BY <1>1 DEF effective, agent
<1>5. CASE Call
  <2>1. temp = {}
    BY <1>5 DEF Call, TempFollowsPhase, StopsEndRequests
  <2>2. CASE phase' = "calling"
    <3>1. temp' = TempFiles(effective, discovery)
      BY <1>5, <2>1, <2>2 DEF Call
    <3> QED BY <1>3, <1>5, <1>4, <2>2, <3>1 DEF TempFollowsPhase, FilesOfOneCall
  <2>3. CASE phase' = "call_failed"
    <3>1. PICK verdict : temp' = TempAtError(effective, verdict)
      BY <1>5, <2>1, <2>3 DEF Call
    <3>2. temp' \subseteq TempFiles(effective, discovery)
      BY <3>1 DEF TempAtError
    <3> QED BY <1>3, <1>4, <2>3, <3>2 DEF TempFollowsPhase, FilesOfOneCall
  <2> QED BY <1>5, <1>3, <2>2, <2>3 DEF Call
<1>6. CASE \E answer \in Possible : CallAgain(answer)
  <2>1. /\ phase = "calling" /\ phase' = "calling_again"
        /\ effective.provider = "gemini" /\ discovery = "isolated"
        /\ temp' = (temp \ DiscoveryDirs("isolated")) \cup DiscoveryDirs("minimal")
    BY <1>6 DEF CallAgain, CallsAgain
  <2>2. temp = {"root"}
    BY <2>1 DEF TempFollowsPhase, TempFiles, DiscoveryDirs
  <2>3. temp' = {"launch"}
    BY <2>1, <2>2 DEF DiscoveryDirs
  <2>4. TempFiles(effective, "minimal") = {"launch"}
    BY <2>1 DEF TempFiles, DiscoveryDirs
  <2> QED BY <1>3, <1>4, <2>1, <2>3, <2>4 DEF TempFollowsPhase, FilesOfOneCall
<1>7. CASE \E answer \in Possible : Answer(answer)
  <2>1. phase' = "dispatching"
    BY <1>7 DEF Answer
  <2>2. temp' = {}
    BY <1>7 DEF Answer, Cleared, TempFollowsPhase
  <2> QED BY <1>3, <2>1, <2>2 DEF TempFollowsPhase
<1> QED BY <1>5, <1>6, <1>7

(* When the guard is done, and while nothing but time passes.              *)
LEMMA AfterInv ==
  ASSUME RequestInv,
         \/ (\E warns \in BOOLEAN : Beat(warns)) \/ Save \/ Restart \/ RequestOver
         \/ UNCHANGED <<requestVars, vars>>
  PROVE  RequestInv'
<1> USE DEF RequestInv
<1>1. /\ UNCHANGED <<setting, accepted, workspace, temp, left, step>>
      /\ \/ phase' = phase
         \/ phase \in {"settled", "over"} /\ phase' \in {"over", "restarted"}
  BY DEF Beat, Save, Restart, RequestOver, requestVars, vars
<1>2. SettingIsGiven' /\ AcceptedAsPrepared' /\ StopsEndRequests' /\ WorkspaceFollowsPhase'
  BY <1>1 DEF SettingIsGiven, AcceptedAsPrepared, StopsEndRequests, WorkspaceFollowsPhase,
              StaysOnlyIfStuck, Before, Inside
<1>3. effective' = effective
  BY <1>1 DEF effective, agent
<1>4. TempFollowsPhase'
  BY <1>1, <1>3 DEF TempFollowsPhase, FilesOfOneCall
<1> QED BY <1>2, <1>4

(* Phase by phase, what a request has made and what it will remove agree.  *)
THEOREM RequestInvariant == RequestSpec => []RequestInv
<1>1. RequestInv /\ [RequestNext]_<<requestVars, vars>> => RequestInv'
  BY ArrivalInv, WorkspaceInv, InsideSteps, CallInv, AfterInv DEF RequestNext
<1> QED
  BY <1>1, InitRequest, PTL DEF RequestSpec

(* Every way out of a request takes its workspace with it where that can be*)
(* removed; an error of the runner and an abort leave at most the temporary*)
(* files of one call, all others none.                                     *)
THEOREM RequestLeavesNothing == RequestSpec => []NothingIsLeft
<1>1. ASSUME RequestInv PROVE NothingIsLeft
  <2>1. temp # {} => \E files \in FilesOfOneCall : temp \subseteq files
    BY <1>1 DEF RequestInv, TempFollowsPhase
  <2>2. Done => StaysOnlyIfStuck /\ (temp = {} \/ step \in {"runner_error", "aborted"})
    BY <1>1 DEF RequestInv, WorkspaceFollowsPhase, TempFollowsPhase, Done, Inside
  <2> QED BY <2>1, <2>2 DEF NothingIsLeft, StaysOnlyIfStuck
<1> QED
  BY <1>1, RequestInvariant, PTL

(* Under `serialize` the source is written without its lock keys by these  *)
(* alone: an agent with a read-only sandbox and a section of its own in    *)
(* provider_overrides, and claude with auto_accept_edits.                  *)
THEOREM RequestWritersAreLocked == RequestSpec => []WritersAreLockedOrAlone
<1>1. ASSUME RequestInv, Calling, MayWrite(effective), ReadOnly(agent), ~Sections(agent)
      PROVE  agent.provider = "claude" /\ agent.runtime.approval = "auto_accept_edits"
  <2>1. accepted = Prepared(setting) /\ accepted.error = "none"
    BY <1>1 DEF RequestInv, AcceptedAsPrepared, Calling, Before, Inside
  <2>2. /\ DOMAIN agent = DOMAIN DefaultSpec
        /\ DOMAIN agent.runtime = DOMAIN DefaultRuntime
        /\ agent.runtime.approval \in
             {"provider_default", "ask", "auto_accept_edits", "deny_by_default"}
    BY <1>1, <2>1, AgentAsTyped DEF RequestInv, agent
  <2>3. /\ effective.provider = agent.provider /\ effective.overrides = agent.overrides
        /\ effective.override_mode = agent.override_mode
        /\ effective.runtime.sandbox = agent.runtime.sandbox
        /\ effective.runtime.approval = agent.runtime.approval
    BY <2>2 DEF effective, EffectiveSpec, DefaultSpec, DefaultRuntime
  <2>4. ~Sections(effective) /\ effective.runtime.sandbox = "read_only"
    BY <1>1, <2>3 DEF Sections, ReadOnly
  <2>5. CASE effective.provider = "claude"
    BY <1>1, <2>2, <2>3, <2>4, <2>5 DEF MayWrite, PermissionMode
  <2>6. CASE effective.provider # "claude"
    BY <1>1, <2>4, <2>6 DEF MayWrite, CodexSandbox, GeminiApproval
  <2> QED BY <2>3, <2>5, <2>6
<1>2. RequestInv => WritersAreLockedOrAlone
  BY <1>1 DEF WritersAreLockedOrAlone, TakesLocks
<1> QED
  BY <1>2, RequestInvariant, PTL

--------------------------------------------------------------------------------
(* The gate: what a request has to pass before its provider is called.     *)

(* A list of checks that ends well has passed each of them.                *)
LEMMA NoneFailed ==
  ASSUME NEW n \in Nat, NEW checks, DOMAIN checks = 1 .. n,
         \A i \in 1 .. n : checks[i][1] # "ok",
         FirstFailure(checks) = "ok"
  PROVE  \A i \in 1 .. n : checks[i][2]
<1> DEFINE failing == {i \in DOMAIN checks : ~checks[i][2]}
<1>1. CASE failing = {}
  BY <1>1
<1>2. CASE failing # {}
  <2>1. failing \in SUBSET (1 .. n)
    OBVIOUS
  <2>2. Min(failing) \in failing
    <3> HIDE DEF failing
    <3> QED BY <1>2, <2>1, FirstPosition
  <2>3. FirstFailure(checks) = checks[Min(failing)][1]
    BY <1>2 DEF FirstFailure
  <2> QED BY <2>1, <2>2, <2>3
<1> QED BY <1>1, <1>2

(* So a request that passes has a depth that is allowed, and passes the    *)
(* review policy where it is in a stage.                                   *)
LEMMA PassedGate ==
  ASSUME NEW s, NEW r, NEW dir, DispatchVerdict(s, r, dir) = "ok"
  PROVE  /\ DepthAllowed(s, r)
         /\ Enabled(s) /\ Stage(r) # Unset => ReviewAllowed(s, r, dir)
<1> DEFINE early == << <<"spec", ValidateAgentSpec(s)>>, <<"scope", ScopeAllowed(s, r)>>,
                       <<"depth", DepthAllowed(s, r)>> >>
           gate  == << <<"stage", Stage(r) \in Stages /\ StageEnabled(s, r)>>,
                       <<"routing", RoutingAllowed(s, r)>>,
                       <<"review", ReviewAllowed(s, r, dir)>>,
                       <<"plan", PlanAllowed(s, r, dir)>> >>
<1>1. FirstFailure(early) = "ok" /\ GateVerdict(s, r, dir) = "ok"
  BY Zenon DEF DispatchVerdict
<1>2. DepthAllowed(s, r)
  <2>1. DOMAIN early = 1 .. 3 /\ \A i \in 1 .. 3 : early[i][1] # "ok"
    OBVIOUS
  <2>2. \A i \in 1 .. 3 : early[i][2]
    <3> HIDE DEF early
    <3> QED BY <1>1, <2>1, NoneFailed
  <2>3. early[3][2] = DepthAllowed(s, r)
    OBVIOUS
  <2>4. 3 \in 1 .. 3
    OBVIOUS
  <2> QED BY <2>2, <2>3, <2>4
<1>3. ASSUME Enabled(s), Stage(r) # Unset PROVE ReviewAllowed(s, r, dir)
  <2>1. FirstFailure(gate) = "ok"
    BY <1>1, <1>3, Zenon DEF GateVerdict
  <2>2. DOMAIN gate = 1 .. 4 /\ \A i \in 1 .. 4 : gate[i][1] # "ok"
    OBVIOUS
  <2>3. \A i \in 1 .. 4 : gate[i][2]
    <3> HIDE DEF gate
    <3> QED BY <2>1, <2>2, NoneFailed
  <2>4. gate[3][2] = ReviewAllowed(s, r, dir)
    OBVIOUS
  <2>5. 3 \in 1 .. 4
    OBVIOUS
  <2> QED BY <2>3, <2>4, <2>5
<1> QED BY <1>2, <1>3

(* What an agent is run as differs from it by where a CLI looks for files. *)
LEMMA EffectiveAsAgent ==
  ASSUME NEW s, NEW prepared,
         DOMAIN s = DOMAIN DefaultSpec, DOMAIN s.runtime = DOMAIN DefaultRuntime
  PROVE  LET e == EffectiveSpec(s, prepared) IN
         /\ e.workflow = s.workflow /\ e.words = s.words /\ e.tags = s.tags
         /\ e.runtime.approval = s.runtime.approval
         /\ e.runtime.timeout_secs = s.runtime.timeout_secs
         /\ e.runtime.spawn_policy = s.runtime.spawn_policy
         /\ e.runtime.background_preference = s.runtime.background_preference
         /\ e.runtime.memory_sources = s.runtime.memory_sources
  BY DEF EffectiveSpec, DefaultSpec, DefaultRuntime

(* Nothing is attempted before the gate, and whatever is attempted has     *)
(* passed it, in the workspace and as the agent it is attempted with.      *)
Gate == {"in_workspace", "gated"}
Passed == {"dispatching", "calling", "calling_again", "call_failed", "settled"}
Attempting == attempts_used > 0 \/ phase \in Passed
GateInv ==
  /\ SettingIsGiven
  /\ phase \in Before \cup Gate => attempts_used = 0
  /\ Attempting \/ phase \in {"accepted", "ready"} \cup Gate =>
       accepted = Prepared(setting) /\ accepted.error = "none"
  /\ phase \in Gate =>
       workspace = PrepareWorkspace(agent, request, setting.world) /\ workspace.error = "none"
  /\ Attempting => Verdict = "ok"

LEMMA InitGate == RequestInit => GateInv
  BY DEF RequestInit, GateInv, SettingIsGiven, Attempting, Before, Gate, Passed

(* Steps behind the gate change neither what was judged nor the verdict.   *)
LEMMA BehindGate ==
  ASSUME GateInv, UNCHANGED <<setting, accepted, workspace>>,
         Attempting, phase' \in Passed \cup {"over", "restarted"}
  PROVE  GateInv'
<1>1. accepted = Prepared(setting) /\ accepted.error = "none" /\ Verdict = "ok"
  BY DEF GateInv
<1>2. Verdict' = Verdict /\ Prepared(setting)' = Prepared(setting)
  BY DEF Verdict, effective, agent, request
<1> QED
  BY <1>1, <1>2 DEF GateInv, SettingIsGiven, Before, Gate, Passed

(* Nor do those that end a request where nothing was attempted.            *)
LEMMA NothingAttempted ==
  ASSUME GateInv, UNCHANGED <<setting, attempts_used>>, attempts_used = 0,
         phase' \in {"over", "restarted"}
  PROVE  GateInv'
  BY DEF GateInv, SettingIsGiven, Attempting, Before, Gate, Passed

LEMMA ArrivalGate ==
  ASSUME GateInv, RefuseRequest \/ Accept \/ ProbeProvider \/ MakeWorkspace \/ ReadMemory
  PROVE  GateInv'
<1>1. UNCHANGED <<setting, attempts_used>> /\ attempts_used = 0
  BY DEF RefuseRequest, Accept, ProbeProvider, MakeWorkspace, ReadMemory, vars, GateInv,
         Before, Gate
<1>2. CASE RefuseRequest
  BY <1>1, <1>2, NothingAttempted DEF RefuseRequest
<1>3. CASE Accept
  <2>1. /\ phase' \in {"accepted", "over"}
        /\ accepted' = Prepared(setting) /\ accepted'.error = "none"
    BY <1>3 DEF Accept
  <2> QED
    BY <1>1, <2>1 DEF GateInv, SettingIsGiven, Attempting, Before, Gate, Passed
<1>4. CASE ProbeProvider
  <2>1. phase' \in {"ready", "over"} /\ phase = "accepted" /\ UNCHANGED accepted
    BY <1>4, StopIsTheEnd DEF ProbeProvider, Fail
  <2> QED
    BY <1>1, <2>1 DEF GateInv, SettingIsGiven, Attempting, Before, Gate, Passed
<1>5. CASE MakeWorkspace
  <2>1. /\ workspace' = PrepareWorkspace(agent, request, setting.world)
        /\ phase = "ready" /\ UNCHANGED accepted
        /\ \/ phase' = "in_workspace" /\ workspace'.error = "none"
           \/ phase' = "over"
    BY <1>5, StopIsTheEnd DEF MakeWorkspace
  <2>2. PrepareWorkspace(agent, request, setting.world)'
          = PrepareWorkspace(agent, request, setting.world)
    BY <1>1, <2>1 DEF agent, request
  <2> QED
    BY <1>1, <2>1, <2>2 DEF GateInv, SettingIsGiven, Attempting, Before, Gate, Passed
<1>6. CASE ReadMemory
  <2>1. /\ phase' \in {"gated", "over"} /\ phase = "in_workspace"
        /\ UNCHANGED <<accepted, workspace>>
    BY <1>6, StopIsTheEnd DEF ReadMemory
  <2>2. PrepareWorkspace(agent, request, setting.world)'
          = PrepareWorkspace(agent, request, setting.world)
    BY <1>1, <2>1 DEF agent, request
  <2> QED
    BY <1>1, <2>1, <2>2 DEF GateInv, SettingIsGiven, Attempting, Before, Gate, Passed
<1> QED BY <1>2, <1>3, <1>4, <1>5, <1>6

LEMMA CompileGate ==
  ASSUME GateInv, Compile
  PROVE  GateInv'
<1>1. /\ UNCHANGED <<setting, accepted, workspace, attempts_used>>
      /\ phase = "gated" /\ phase' = "dispatching" /\ Verdict = "ok"
  BY DEF Compile, Prepare
<1>2. accepted = Prepared(setting) /\ accepted.error = "none"
  BY <1>1 DEF GateInv, Gate
<1>3. Verdict' = Verdict /\ Prepared(setting)' = Prepared(setting)
  BY <1>1 DEF Verdict, effective, agent, request
<1> QED
  BY <1>1, <1>2, <1>3 DEF GateInv, SettingIsGiven, Before, Gate, Passed

LEMMA DispatchGate ==
  ASSUME GateInv,
         \/ Call \/ CallError \/ Wait \/ Cancel \/ Settle \/ Save
         \/ (\E answer \in Possible : CallAgain(answer) \/ Answer(answer))
  PROVE  GateInv'
<1>1. /\ UNCHANGED <<setting, accepted, workspace>>
      /\ phase \in Passed
  BY DEF Call, CallError, Wait, Cancel, Settle, Save, CallAgain, Answer, requestVars, Passed
<1>2. phase' \in Passed \cup {"over"}
  <2>1. CallError => phase' = "over"
    BY StopIsTheEnd DEF CallError
  <2> QED
    BY <1>1, <2>1 DEF Call, Wait, Cancel, Settle, Save, CallAgain, Answer, requestVars, Passed
<1> QED BY <1>1, <1>2, BehindGate DEF Attempting

LEMMA RestGate ==
  ASSUME GateInv,
         \/ FailGate \/ Restart \/ RequestOver \/ (\E warns \in BOOLEAN : Beat(warns))
         \/ UNCHANGED <<requestVars, vars>>
  PROVE  GateInv'
<1>1. CASE FailGate
  <2>1. /\ UNCHANGED <<setting, attempts_used>> /\ attempts_used = 0
        /\ phase' = "over"
    BY <1>1, StopIsTheEnd DEF FailGate, Refuse, GateInv, Gate
  <2> QED BY <2>1, NothingAttempted
<1>2. CASE Restart
  <2>1. /\ UNCHANGED <<setting, accepted, workspace, attempts_used>>
        /\ phase = "over" /\ phase' = "restarted"
    BY <1>2 DEF Restart, vars
  <2>2. Verdict' = Verdict /\ Prepared(setting)' = Prepared(setting)
    BY <2>1 DEF Verdict, effective, agent, request
  <2> QED
    BY <2>1, <2>2 DEF GateInv, SettingIsGiven, Attempting, Before, Gate, Passed
<1>3. CASE \/ RequestOver \/ (\E warns \in BOOLEAN : Beat(warns))
           \/ UNCHANGED <<requestVars, vars>>
  <2>1. UNCHANGED <<setting, accepted, workspace, attempts_used, phase>>
    BY <1>3 DEF RequestOver, Beat, requestVars, vars
  <2>2. /\ Verdict' = Verdict /\ Prepared(setting)' = Prepared(setting)
        /\ PrepareWorkspace(agent, request, setting.world)'
             = PrepareWorkspace(agent, request, setting.world)
    BY <2>1 DEF Verdict, effective, agent, request
  <2> QED
    BY <2>1, <2>2 DEF GateInv, SettingIsGiven, Attempting, Before, Gate, Passed
<1> QED BY <1>1, <1>2, <1>3

(* Every call of a provider comes after the gate has let the request pass. *)
THEOREM CallsPassTheGate == RequestSpec => []GateInv
<1>1. GateInv /\ [RequestNext]_<<requestVars, vars>> => GateInv'
  BY ArrivalGate, CompileGate, DispatchGate, RestGate DEF RequestNext
<1> QED
  BY <1>1, InitGate, PTL DEF RequestSpec

(* What the agent of a request that got there is, and what its fields are. *)
LEMMA AgentBehindGate ==
  ASSUME GateInv, Attempting \/ phase \in Gate
  PROVE  /\ DOMAIN agent = DOMAIN DefaultSpec
         /\ DOMAIN agent.runtime = DOMAIN DefaultRuntime
         /\ agent.runtime.working_dir_policy \in WorkingDirPolicies
         /\ Enabled(agent) => agent.workflow.max_runtime_depth \in 0 .. 255
<1>1. accepted = Prepared(setting) /\ accepted.error = "none" /\ SettingIsGiven
  BY DEF GateInv
<1>2. PICK group \in DOMAIN Settings : setting \in Settings[group]
  BY <1>1 DEF SettingIsGiven
<1>3. AgentOf(Prepared(setting)) = agent
  BY <1>1 DEF AgentOf, agent
<1> QED
  BY <1>2, <1>3, AgentsAssumption

(* Whoever is below a marked parent has passed the check of its depth, so  *)
(* a chain of runs in which each marks its own depth ends.                 *)
THEOREM RequestBoundsChains == RequestSpec => []ChainIsBounded
<1>1. ASSUME GateInv PROVE ChainIsBounded
  <2> DEFINE marked == request.parent_summary.depth
             room   == agent.workflow.max_runtime_depth
  <2>1. SUFFICES ASSUME attempts_used > 0, Enabled(agent), request.parent_summary # Unset,
                        marked # Unset
                 PROVE  marked < room \/ (marked = 255 /\ room = 255)
    BY DEF ChainIsBounded
  <2>2. Attempting /\ Verdict = "ok"
    BY <1>1, <2>1 DEF GateInv, Attempting
  <2>3. /\ DOMAIN agent = DOMAIN DefaultSpec /\ DOMAIN agent.runtime = DOMAIN DefaultRuntime
        /\ room \in 0 .. 255
    BY <1>1, <2>1, <2>2, AgentBehindGate
  <2>4. marked \in 0 .. 255
    BY <1>1, <2>1, RequestsAssumption DEF GateInv, SettingIsGiven, request
  <2>5. effective.workflow = agent.workflow
    BY <2>3, EffectiveAsAgent DEF effective
  <2>6. DepthAllowed(effective, request)
    BY <2>2, PassedGate DEF Verdict
  <2>7. RuntimeDepth(request) <= room
    BY <2>1, <2>5, <2>6 DEF DepthAllowed, Enabled
  <2>8. RuntimeDepth(request) = IF marked = 255 THEN 255 ELSE marked + 1
    BY <2>1 DEF RuntimeDepth
  <2> HIDE DEF marked, room
  <2>9. CASE marked = 255
    BY <2>3, <2>7, <2>8, <2>9
  <2>10. CASE marked # 255
    BY <2>3, <2>4, <2>7, <2>8, <2>10
  <2> QED BY <2>9, <2>10
<1> QED
  BY <1>1, CallsPassTheGate, PTL

(* The hook takes a review for risky only where the gate has a reason for  *)
(* a plan.                                                                 *)
LEMMA RiskIsAReason ==
  ASSUME NEW s, NEW e, NEW r, NEW dir, HighRisk(s, r),
         e.workflow = s.workflow,
         e.runtime.timeout_secs = s.runtime.timeout_secs,
         e.runtime.spawn_policy = s.runtime.spawn_policy,
         e.runtime.background_preference = s.runtime.background_preference
  PROVE  Reasons(e, r, dir) # {}
<1> DEFINE flags == e.workflow.plan_if.flags
<1>1. /\ TouchesMany(s, r) <=> TouchesMany(e, r)
      /\ RunsLong(s) <=> RunsLong(e)
      /\ RunModeOf(s, r) = RunModeOf(e, r)
  BY DEF TouchesMany, RunsLong, RunModeOf, PreferredRunMode
<1>2. \/ TouchesMany(e, r)
      \/ RunsLong(e)
      \/ flags /\ RunModeOf(e, r) = "async"
      \/ flags /\ CrossModule(r, dir)
      \/ flags /\ NewInterface(r)
      \/ flags /\ Migration(r)
      \/ flags /\ ApprovalPoint(e, r)
  <2>1. HighRiskWords(r) =>
          CrossModule(r, dir) \/ NewInterface(r) \/ Migration(r) \/ ApprovalPoint(e, r)
    BY DEF HighRiskWords, CrossModule, NewInterface, Migration, ApprovalPoint
  <2> QED BY <1>1, <2>1 DEF HighRisk
<1> DEFINE Triggered == [touched_files |-> TouchesMany(e, r),
                    minutes |-> RunsLong(e),
                    parallel |-> flags /\ RunModeOf(e, r) = "async",
                    cross_module |-> flags /\ CrossModule(r, dir),
                    new_interface |-> flags /\ NewInterface(r),
                    migration |-> flags /\ Migration(r),
                    approval |-> flags /\ ApprovalPoint(e, r)]
<1>3. Reasons(e, r, dir) = {reason \in DOMAIN Triggered : Triggered[reason]}
  BY Zenon DEF Reasons
<1>4. \E reason \in DOMAIN Triggered : Triggered[reason]
  BY <1>2
<1> QED BY <1>3, <1>4

(* The evidence of a review agrees with the gate.                          *)
THEOREM RequestEvidenceAgrees == RequestSpec => []ReviewEvidenceAgrees
<1>1. ASSUME GateInv PROVE ReviewEvidenceAgrees
  <2> DEFINE evidence == ReviewEvidence(agent, request)
             missing  == evidence.required \ evidence.available
             risky    == Reasons(effective, request, workspace.dir) # {}
  <2>1. SUFFICES ASSUME phase = "settled", WritesEvidence(agent, request, record.status)
                 PROVE  /\ evidence.high_risk => risky
                        /\ missing \subseteq {"style"}
                        /\ missing # {} =>
                             "clean code" \in Profile(agent) \cup ParentWords(request)
    BY DEF ReviewEvidenceAgrees
  <2>2. Attempting /\ Verdict = "ok"
    BY <1>1, <2>1 DEF GateInv, Attempting, Passed
  <2>3. /\ DOMAIN agent = DOMAIN DefaultSpec /\ DOMAIN agent.runtime = DOMAIN DefaultRuntime
    BY <1>1, <2>2, AgentBehindGate
  <2>4. /\ effective.workflow = agent.workflow
        /\ effective.words = agent.words /\ effective.tags = agent.tags
        /\ effective.runtime.timeout_secs = agent.runtime.timeout_secs
        /\ effective.runtime.spawn_policy = agent.runtime.spawn_policy
        /\ effective.runtime.background_preference = agent.runtime.background_preference
    BY <2>3, EffectiveAsAgent DEF effective
  <2>5. HighRisk(agent, request) => risky
    BY <2>4, RiskIsAReason
  <2>6. Stage(request) = "review" /\ Stage(request) # Unset /\ Enabled(effective)
    BY <2>1, <2>4, RequestsAssumption DEF WritesEvidence, Enabled, Stages
  <2>7. ReviewAllowed(effective, request, workspace.dir)
    BY <2>2, <2>6, PassedGate DEF Verdict
  <2>8. RequiredTracks(effective, risky)
          \subseteq GateTracks(Profile(agent)) \cup GateTracks(ParentWords(request))
    BY <2>4, <2>6, <2>7 DEF ReviewAllowed, Profile
  <2>9. RequiredTracks(agent, HighRisk(agent, request)) \subseteq RequiredTracks(effective, risky)
    BY <2>4, <2>5 DEF RequiredTracks
  <2>10. /\ evidence.high_risk = HighRisk(agent, request)
         /\ evidence.required = RequiredTracks(agent, HighRisk(agent, request))
         /\ evidence.available = HookTracks(Profile(agent)) \cup HookTracks(ParentWords(request))
    BY DEF ReviewEvidence
  <2>11. ASSUME NEW words
         PROVE  /\ GateTracks(words) \ HookTracks(words) \subseteq {"style"}
                /\ GateTracks(words) # HookTracks(words) => "clean code" \in words
    BY DEF GateTracks, HookTracks, Tracks
  <2> HIDE DEF evidence, risky
  <2>12. missing \subseteq
           (GateTracks(Profile(agent)) \ HookTracks(Profile(agent)))
             \cup (GateTracks(ParentWords(request)) \ HookTracks(ParentWords(request)))
    BY <2>8, <2>9, <2>10
  <2> QED BY <2>5, <2>10, <2>11, <2>12
<1> QED
  BY <1>1, CallsPassTheGate, PTL

(* Where no plan of one is missing in the other, two directories differ    *)
(* for the gate only by where their absolute paths lie.                    *)
LEMMA SameVerdict ==
  ASSUME NEW s, NEW one, NEW other,
         one.source_files = other.source_files,
         PlansIn(one) = PlansIn(other),
         one.is_source = other.is_source \/ \A file \in request.selected_files : ~file.absolute
  PROVE  DispatchVerdict(s, request, one) = DispatchVerdict(s, request, other)
<1>1. \A file \in request.selected_files :
        TopLevelModule(file, one) = TopLevelModule(file, other)
  BY DEF TopLevelModule
<1>2. {TopLevelModule(file, one) : file \in request.selected_files}
        = {TopLevelModule(file, other) : file \in request.selected_files}
  BY <1>1
<1>3. CrossModule(request, one) <=> CrossModule(request, other)
  BY <1>2, Zenon DEF CrossModule
<1>4. Reasons(s, request, one) = Reasons(s, request, other)
  <2> DEFINE Triggered(cross) ==
               [touched_files |-> TouchesMany(s, request),
                minutes |-> RunsLong(s),
                parallel |-> s.workflow.plan_if.flags /\ RunModeOf(s, request) = "async",
                cross_module |-> s.workflow.plan_if.flags /\ cross,
                new_interface |-> s.workflow.plan_if.flags /\ NewInterface(request),
                migration |-> s.workflow.plan_if.flags /\ Migration(request),
                approval |-> s.workflow.plan_if.flags /\ ApprovalPoint(s, request)]
             Because(cross) == {reason \in DOMAIN Triggered(cross) : Triggered(cross)[reason]}
  <2>1. /\ Reasons(s, request, one) = Because(CrossModule(request, one))
        /\ Reasons(s, request, other) = Because(CrossModule(request, other))
    BY Zenon DEF Reasons
  <2>2. CrossModule(request, one) = CrossModule(request, other)
    BY <1>3 DEF CrossModule
  <2> QED BY <2>1, <2>2, Zenon
<1>5. HasPlanFile(request, one) <=> HasPlanFile(request, other)
  <2> DEFINE own == {"PLAN.md", ".mcp-subagent/PLAN.md"}
             ref == IF request.plan_ref = Unset THEN {} ELSE {request.plan_ref.path}
  <2>1. DOMAIN one.files \cap (own \cup ref) = DOMAIN other.files \cap (own \cup ref)
    BY Zenon DEF PlansIn
  <2>2. own \cap DOMAIN one.files = own \cap DOMAIN other.files
    BY <2>1
  <2>3. request.plan_ref # Unset =>
          (request.plan_ref.path \in DOMAIN one.files
             <=> request.plan_ref.path \in DOMAIN other.files)
    BY <2>1
  <2> QED BY <2>2, <2>3 DEF HasPlanFile
<1>6. /\ ReviewAllowed(s, request, one) = ReviewAllowed(s, request, other)
      /\ PlanAllowed(s, request, one) = PlanAllowed(s, request, other)
  BY <1>4, <1>5 DEF ReviewAllowed, PlanAllowed
<1>7. GateVerdict(s, request, one) = GateVerdict(s, request, other)
  BY <1>6, Zenon DEF GateVerdict
<1> QED BY <1>7, Zenon DEF DispatchVerdict

(* What a preparation makes of the source.                                 *)
LEMMA PreparedDir ==
  ASSUME NEW s, NEW r, NEW world, s.runtime.working_dir_policy \in WorkingDirPolicies,
         NEW prepared, prepared = PrepareWorkspace(s, r, world), prepared.error = "none"
  PROVE  LET source == SourceDir(world) IN
         /\ prepared.dir.source_files = source.source_files
         /\ \/ prepared.mode \in {"git_worktree", "stable_scratch"}
            \/ prepared.dir.files = source.files
         /\ source.is_source /\ prepared.dir.is_source \in BOOLEAN
<1>1. WantedMode(s, r) \in {"in_place", "stable_scratch", "temp_copy", "git_worktree"}
  BY DEF WantedMode, WorkingDirPolicies
<1> DEFINE source == SourceDir(world)
<1>2. /\ source.is_source = TRUE /\ source.source_files = DOMAIN world.source.files
      /\ DOMAIN source = {"files", "unreadable", "outline", "is_source", "source_files"}
  BY DEF SourceDir
<1>3. /\ CopyOf(world).source_files = source.source_files
      /\ CopyOf(world).files = source.files
      /\ CopyOf(world).is_source = FALSE
      /\ DOMAIN CopyOf(world) = DOMAIN source
  BY <1>2 DEF CopyOf
<1>4. ASSUME NEW files
      PROVE  /\ DirWith(world, files).source_files = source.source_files
             /\ DirWith(world, files).is_source = FALSE
  BY <1>2, <1>3 DEF DirWith
<1> HIDE DEF source
<1>5. CASE WantedMode(s, r) = "in_place"
  <2>1. prepared.dir = source
    BY <1>5 DEF PrepareWorkspace, Workspace, NoWorkspace, source
  <2> QED BY <1>2, <2>1 DEF source
<1>6. CASE WantedMode(s, r) = "stable_scratch"
  <2>1. prepared.mode = "stable_scratch" /\ prepared.dir = DirWith(world, NoFiles)
    BY <1>6 DEF PrepareWorkspace, Workspace, NoWorkspace
  <2> QED BY <1>2, <1>4, <2>1 DEF source
<1>7. CASE WantedMode(s, r) = "git_worktree" /\ WorktreeWorks(world)
  <2>1. /\ prepared.mode = "git_worktree"
        /\ prepared.dir = DirWith(world, IF Misplaced(world) THEN NoFiles
                                         ELSE world.source.checkout)
    BY <1>7 DEF PrepareWorkspace, Workspace, NoWorkspace
  <2> QED BY <1>2, <1>4, <2>1 DEF source
<1>8. CASE \/ WantedMode(s, r) = "temp_copy"
           \/ WantedMode(s, r) = "git_worktree" /\ ~WorktreeWorks(world)
  <2>1. prepared.dir = CopyOf(world)
    BY <1>8 DEF PrepareWorkspace, Workspace, NoWorkspace
  <2> QED BY <1>2, <1>3, <2>1 DEF source
<1> QED BY <1>1, <1>5, <1>6, <1>7, <1>8

(* The gate judges a workspace as it would judge the source, but for the   *)
(* plans a checkout or the scratch directory has or lacks, and for         *)
(* absolute paths.                                                         *)
THEOREM RequestGateSeesSource == RequestSpec => []GateSeesTheSource
<1>1. ASSUME GateInv PROVE GateSeesTheSource
  <2> DEFINE source == SourceDir(setting.world)
  <2>1. SUFFICES ASSUME phase = "gated",
                        ~(/\ workspace.mode \in {"git_worktree", "stable_scratch"}
                          /\ PlansIn(workspace.dir) # PlansIn(source)),
                        ~(/\ ~workspace.dir.is_source
                          /\ \E file \in request.selected_files : file.absolute)
                 PROVE  Verdict = DispatchVerdict(effective, request, source)
    BY DEF GateSeesTheSource
  <2>2. /\ workspace = PrepareWorkspace(agent, request, setting.world)
        /\ workspace.error = "none"
        /\ agent.runtime.working_dir_policy \in WorkingDirPolicies
    BY <1>1, <2>1, AgentBehindGate DEF GateInv, Gate
  <2>3. /\ workspace.dir.source_files = source.source_files
        /\ \/ workspace.mode \in {"git_worktree", "stable_scratch"}
           \/ workspace.dir.files = source.files
        /\ source.is_source /\ workspace.dir.is_source \in BOOLEAN
    BY <2>2, PreparedDir
  <2>4. PlansIn(workspace.dir) = PlansIn(source)
    BY <2>1, <2>3 DEF PlansIn
  <2> HIDE DEF source
  <2>5. \/ workspace.dir.is_source = source.is_source
        \/ \A file \in request.selected_files : ~file.absolute
    BY <2>1, <2>3
  <2> QED BY <2>3, <2>4, <2>5, SameVerdict DEF Verdict
<1> QED
  BY <1>1, CallsPassTheGate, PTL

--------------------------------------------------------------------------------
(* The archive: what a hook writes into the source keeps what is there.    *)

KeepsFiles(archive, r, files) ==
  /\ DOMAIN archive.files \subseteq DOMAIN files
  /\ \A name \in DOMAIN archive.files :
       files[name] = archive.files[name] \/ (name[2] = r.slug /\ name[3] = archive.window)
KeepsIndex(archive, index) ==
  /\ archive.index = Broken => index = Broken
  /\ archive.index \notin {Broken, Unset} => IsPrefix(archive.index, index)

LEMMA OneMoreIsPrefix ==
  ASSUME NEW S, NEW s \in Seq(S), NEW e
  PROVE  IsPrefix(s, s) /\ IsPrefix(s, Append(s, e))
<1> DEFINE T == S \cup {e}
<1>1. s \in Seq(T) /\ e \in T
  <2>1. S \subseteq T
    OBVIOUS
  <2> QED BY <2>1, SeqMonotonic
<1> HIDE DEF T
<1>2. /\ Append(s, e) \in Seq(T) /\ Len(Append(s, e)) = Len(s) + 1
      /\ \A i \in 1 .. Len(s) : Append(s, e)[i] = s[i]
  BY <1>1, AppendProperties
<1>3. Len(s) \in Nat
  BY <1>1, LenProperties
<1> QED BY <1>1, <1>2, <1>3 DEF IsPrefix

(* A note takes the place only of one of the same slug and window.         *)
LEMMA NoteKeeps ==
  ASSUME NEW archive, NEW r, NEW kind, NEW state,
         DOMAIN state = {"files", "index", "writable", "artifacts", "warned"},
         KeepsFiles(archive, r, state.files)
  PROVE  LET noted == WriteNote(state, kind, r, archive.window) IN
         /\ DOMAIN noted = DOMAIN state
         /\ noted.index = state.index
         /\ KeepsFiles(archive, r, noted.files)
<1> DEFINE new == ArchiveName(kind, r, archive.window)
           files == Put(new, "this", state.files)
<1>1. new[2] = r.slug /\ new[3] = archive.window
  BY DEF ArchiveName
<1>2. /\ DOMAIN files = {new} \cup DOMAIN state.files
      /\ \A name \in DOMAIN files : name = new \/ files[name] = state.files[name]
  BY DEF Put
<1> HIDE DEF new, files
<1>3. KeepsFiles(archive, r, files)
  BY <1>1, <1>2 DEF KeepsFiles
<1> QED BY <1>3 DEF WriteNote, new, files

(* An entry is added to the index, or nothing is.                          *)
LEMMA IndexKeeps ==
  ASSUME NEW archive, NEW state,
         DOMAIN state = {"files", "index", "writable", "artifacts", "warned"},
         archive.index \in {Unset, Broken} \cup Seq(STRING),
         state.index = archive.index
  PROVE  LET listed == AppendIndex(state) IN
         /\ DOMAIN listed = DOMAIN state
         /\ listed.files = state.files
         /\ KeepsIndex(archive, listed.index)
<1>1. CASE state.index = Broken \/ ~state.writable
  <2>1. /\ DOMAIN AppendIndex(state) = DOMAIN state
        /\ AppendIndex(state).files = state.files /\ AppendIndex(state).index = archive.index
    BY <1>1 DEF AppendIndex
  <2> QED BY <2>1, OneMoreIsPrefix DEF KeepsIndex
<1>2. CASE ~(state.index = Broken \/ ~state.writable)
  <2>1. /\ DOMAIN AppendIndex(state) = DOMAIN state
        /\ AppendIndex(state).files = state.files
        /\ AppendIndex(state).index
             = Append(IF state.index = Unset THEN <<>> ELSE state.index, "this")
    BY <1>2 DEF AppendIndex
  <2>2. archive.index \notin {Broken, Unset} => IsPrefix(archive.index, AppendIndex(state).index)
    BY <2>1, OneMoreIsPrefix
  <2> QED BY <1>2, <2>1, <2>2 DEF KeepsIndex
<1> QED BY <1>1, <1>2

LEMMA HookKeeps ==
  ASSUME NEW s, NEW r, NEW report, NEW archive, NEW artifacts,
         archive.index \in {Unset, Broken} \cup Seq(STRING)
  PROVE  LET done == ApplyArchiveHook(s, r, report, archive, artifacts) IN
         KeepsFiles(archive, r, done.files) /\ KeepsIndex(archive, done.index)
<1> DEFINE policy == s.workflow.archive
           start  == ArchiveState(archive, artifacts)
           summed == IF policy.final_summary
                     THEN WriteNote(start, "final-summary", r, archive.window) ELSE start
           noted  == IF WritesDecisionNote(s, r, report)
                     THEN WriteNote(summed, "decision-note", r, archive.window) ELSE summed
           listed == IF policy.metadata_index THEN AppendIndex(noted) ELSE noted
           done   == IF policy.dir = "outside" THEN [start EXCEPT !.warned = TRUE] ELSE listed
           fields == {"files", "index", "writable", "artifacts", "warned"}
<1>1. /\ DOMAIN start = fields /\ start.index = archive.index
      /\ KeepsFiles(archive, r, start.files)
  BY DEF ArchiveState, KeepsFiles
<1> HIDE DEF start
<1>2. /\ DOMAIN summed = fields /\ summed.index = archive.index
      /\ KeepsFiles(archive, r, summed.files)
  BY <1>1, NoteKeeps
<1> HIDE DEF summed
<1>3. /\ DOMAIN noted = fields /\ noted.index = archive.index
      /\ KeepsFiles(archive, r, noted.files)
  BY <1>2, NoteKeeps
<1> HIDE DEF noted
<1>4. KeepsIndex(archive, archive.index)
  BY OneMoreIsPrefix DEF KeepsIndex
<1>5. /\ DOMAIN listed = fields
      /\ KeepsIndex(archive, listed.index) /\ KeepsFiles(archive, r, listed.files)
  BY <1>3, <1>4, IndexKeeps
<1> HIDE DEF listed
<1>6. /\ DOMAIN done = fields
      /\ KeepsIndex(archive, done.index) /\ KeepsFiles(archive, r, done.files)
  BY <1>1, <1>4, <1>5
<1> HIDE DEF done
<1>7. \/ ApplyArchiveHook(s, r, report, archive, artifacts) = done
      \/ ApplyArchiveHook(s, r, report, archive, artifacts)
           = [done EXCEPT !.artifacts = Upsert(@, WarningsKey, "runtime")]
  BY Zenon DEF ApplyArchiveHook, done, listed, noted, summed, start
<1> QED BY <1>6, <1>7

LEMMA AllStepsButSettle ==
  ASSUME [RequestNext]_<<requestVars, vars>>
  PROVE  Settle \/ UNCHANGED <<setting, archived>>
  BY DEF RequestNext, RefuseRequest, Accept, ProbeProvider, MakeWorkspace, ReadMemory,
         FailGate, Compile, Call, CallError, CallAgain, Answer, Beat, Wait, Cancel, Save,
         Restart, RequestOver, requestVars

(* The archive of a source loses nothing to a run.                         *)
THEOREM RequestArchiveKeeps == RequestSpec => []ArchiveKeepsOthers
<1> DEFINE Kept == /\ SettingIsGiven
                   /\ KeepsFiles(setting.archive, request, archived.files)
                   /\ KeepsIndex(setting.archive, archived.index)
<1>1. SettingIsGiven => setting.archive.index \in {Unset, Broken} \cup Seq(STRING)
  BY RequestsAssumption DEF SettingIsGiven
<1>2. RequestInit => Kept
  <2>1. ASSUME RequestInit
        PROVE  /\ SettingIsGiven
               /\ archived = [files |-> setting.archive.files, index |-> setting.archive.index]
    BY <2>1, SettingInit DEF RequestInit
  <2>2. ASSUME RequestInit PROVE KeepsIndex(setting.archive, setting.archive.index)
    BY <1>1, <2>1, <2>2, OneMoreIsPrefix DEF KeepsIndex
  <2>3. ASSUME RequestInit
        PROVE  KeepsFiles(setting.archive, request, setting.archive.files)
    BY DEF KeepsFiles
  <2> QED BY <2>1, <2>2, <2>3
<1>3. ASSUME Kept, Settle PROVE Kept'
  <2> DEFINE variant == final.judged.status
             hooked == Hooked(variant)
  <2>1. /\ archived' = [files |-> hooked.files, index |-> hooked.index]
        /\ UNCHANGED setting
    BY <1>3 DEF Settle
  <2>2. /\ KeepsFiles(setting.archive, request, hooked.files)
        /\ KeepsIndex(setting.archive, hooked.index)
    <3>1. PICK artifacts :
            \/ hooked = ApplyArchiveHook(agent, request, Report, setting.archive, artifacts)
            \/ hooked = [ArchiveState(setting.archive, artifacts) EXCEPT !.warned = FALSE]
      BY DEF Hooked
    <3>2. CASE hooked = ApplyArchiveHook(agent, request, Report, setting.archive, artifacts)
      <4> HIDE DEF hooked
      <4> QED BY <1>1, <1>3, <3>2, HookKeeps
    <3>3. CASE hooked = [ArchiveState(setting.archive, artifacts) EXCEPT !.warned = FALSE]
      <4> HIDE DEF hooked
      <4> QED
        BY <1>1, <1>3, <3>3, OneMoreIsPrefix DEF ArchiveState, KeepsFiles, KeepsIndex
    <3> QED BY <3>1, <3>2, <3>3
  <2> HIDE DEF hooked
  <2> QED BY <1>3, <2>1, <2>2 DEF SettingIsGiven, request
<1>4. Kept /\ [RequestNext]_<<requestVars, vars>> => Kept'
  BY <1>3, AllStepsButSettle DEF SettingIsGiven, request
<1>5. Kept => ArchiveKeepsOthers
  BY DEF KeepsFiles, KeepsIndex, ArchiveKeepsOthers
<1> HIDE DEF Kept
<1> QED
  BY <1>2, <1>4, <1>5, PTL DEF RequestSpec

--------------------------------------------------------------------------------
(* The record: what is on disk is what was told.                           *)

(* The artifacts of a record: listed ones are there, each has a producer,  *)
(* and each is declared by the summary or one of the server's own.         *)
Producers == {"agent", "runtime"}
KnownArtifacts(artifacts) ==
  /\ DOMAIN artifacts = {"index", "data"}
  /\ artifacts.index \subseteq DOMAIN artifacts.data
  /\ artifacts.data \in [DOMAIN artifacts.data -> Producers]
  /\ DOMAIN artifacts.data \subseteq DeclaredKeys \cup OwnKeys

(* A stream has the place of its name, which a declared file of that name  *)
(* takes only where there is none.                                         *)
StreamKept(name, text, data) ==
  LET key == Plain(<<name>>) IN
  /\ (key \in DOMAIN data /\ data[key] = "runtime") <=> text # <<>>
  /\ (key \in DOMAIN data /\ data[key] = "agent") => key \in DeclaredKeys
StreamsKept(data) ==
  StreamKept("stdout.txt", printed.stdout, data) /\ StreamKept("stderr.txt", printed.stderr, data)

LEMMA BuiltArtifacts ==
  ASSUME NEW variant, NEW present,
         NEW built, built = BuildArtifacts(variant, Report.declared, printed.stdout,
                                           printed.stderr, present)
  PROVE  KnownArtifacts(built) /\ StreamsKept(built.data)
<1> DEFINE declared == IF variant = "Succeeded" THEN Declared(Report.declared, present) ELSE {}
           Own(name, written) == IF written THEN {Plain(<<name>>)} ELSE {}
           runtime == Own("summary.json", TRUE) \cup Own("summary.raw.txt", variant = "Failed")
                        \cup Own("stdout.txt", printed.stdout # <<>>)
                        \cup Own("stderr.txt", printed.stderr # <<>>)
<1>1. built = [index |-> declared \cup runtime,
               data  |-> [key \in declared \cup runtime |->
                            IF key \in runtime THEN "runtime" ELSE "agent"]]
  BY Zenon DEF BuildArtifacts
<1>2. declared \subseteq DeclaredKeys
  BY DEF Declared, DeclaredKeys
<1>3. runtime \subseteq OwnKeys
  BY DEF OwnKeys
<1>4. \A name, other : Plain(<<name>>) = Plain(<<other>>) => name = other
  BY DEF Plain
<1>5. /\ Plain(<<"stdout.txt">>) \in runtime <=> printed.stdout # <<>>
      /\ Plain(<<"stderr.txt">>) \in runtime <=> printed.stderr # <<>>
  BY <1>4
<1> HIDE DEF declared, runtime
<1>6. KnownArtifacts(built)
  BY <1>1, <1>2, <1>3 DEF KnownArtifacts, Producers
<1>7. ASSUME NEW name, NEW text, Plain(<<name>>) \in runtime <=> text # <<>>
      PROVE  StreamKept(name, text, built.data)
  BY <1>1, <1>2, <1>7 DEF StreamKept
<1> QED BY <1>5, <1>6, <1>7 DEF StreamsKept

LEMMA UpsertedArtifacts ==
  ASSUME NEW artifacts, NEW key, KnownArtifacts(artifacts), StreamsKept(artifacts.data),
         key \in OwnKeys,
         key \notin {Plain(<<"stdout.txt">>), Plain(<<"stderr.txt">>)}
  PROVE  LET upserted == Upsert(artifacts, key, "runtime") IN
         KnownArtifacts(upserted) /\ StreamsKept(upserted.data)
<1> DEFINE upserted == Upsert(artifacts, key, "runtime")
<1>1. /\ upserted.index = artifacts.index \cup {key}
      /\ upserted.data = Put(key, "runtime", artifacts.data)
      /\ DOMAIN upserted = {"index", "data"}
  BY DEF Upsert
<1>2. /\ DOMAIN upserted.data = DOMAIN artifacts.data \cup {key}
      /\ \A k \in DOMAIN artifacts.data : k # key => upserted.data[k] = artifacts.data[k]
      /\ upserted.data \in [DOMAIN artifacts.data \cup {key} -> Producers]
  BY <1>1 DEF Put, KnownArtifacts, Producers
<1> HIDE DEF upserted
<1>3. KnownArtifacts(upserted)
  BY <1>1, <1>2 DEF KnownArtifacts
<1>4. StreamsKept(upserted.data)
  BY <1>2 DEF StreamsKept, StreamKept
<1> QED BY <1>3, <1>4 DEF upserted

LEMMA OwnKeysApart ==
  /\ EvidenceKey \in OwnKeys /\ WarningsKey \in OwnKeys
  /\ \A kind \in {"final-summary", "decision-note", "index.json"} : ArchiveKey(kind) \in OwnKeys
  /\ \A name, kind : Plain(<<name>>) \notin {EvidenceKey, WarningsKey, ArchiveKey(kind)}
<1>1. ASSUME NEW name, NEW one, NEW two PROVE Plain(<<name>>) # Plain(<<one, two>>)
  <2>1. Len(<<name>>) = 1 /\ Len(<<one, two>>) = 2
    OBVIOUS
  <2>2. <<name>> # <<one, two>>
    BY <2>1
  <2> QED BY <2>2 DEF Plain
<1> QED BY <1>1 DEF OwnKeys, EvidenceKey, WarningsKey, ArchiveKey

LEMMA HookedArtifacts ==
  ASSUME NEW variant
  PROVE  KnownArtifacts(Hooked(variant).artifacts) /\ StreamsKept(Hooked(variant).artifacts.data)
<1> DEFINE Fine(artifacts) == KnownArtifacts(artifacts) /\ StreamsKept(artifacts.data)
           own == {EvidenceKey, WarningsKey}
                    \cup {ArchiveKey(kind) :
                            kind \in {"final-summary", "decision-note", "index.json"}}
           built == BuildArtifacts(variant, Report.declared, printed.stdout, printed.stderr,
                                   workspace.present)
           reviewed == IF WritesEvidence(agent, request, variant)
                       THEN Upsert(built, EvidenceKey, "runtime") ELSE built
<1>1. ASSUME NEW artifacts, NEW key \in own, Fine(artifacts)
      PROVE  Fine(Upsert(artifacts, key, "runtime"))
  BY <1>1, UpsertedArtifacts, OwnKeysApart
<1>2. Fine(built)
  BY BuiltArtifacts
<1> HIDE DEF Fine, built
<1>3. Fine(reviewed)
  BY <1>1, <1>2
<1> HIDE DEF reviewed
<1>4. ASSUME NEW state, NEW r, NEW window, NEW kind \in {"final-summary", "decision-note"},
             Fine(state.artifacts), "artifacts" \in DOMAIN state
      PROVE  LET noted == WriteNote(state, kind, r, window) IN
             Fine(noted.artifacts) /\ "artifacts" \in DOMAIN noted
  BY <1>1, <1>4 DEF WriteNote
<1>5. ASSUME NEW state, Fine(state.artifacts), "artifacts" \in DOMAIN state
      PROVE  Fine(AppendIndex(state).artifacts) /\ "artifacts" \in DOMAIN AppendIndex(state)
  BY <1>1, <1>5 DEF AppendIndex
<1>6. ASSUME NEW s, NEW r, NEW report, NEW archive
      PROVE  Fine(ApplyArchiveHook(s, r, report, archive, reviewed).artifacts)
  <2> DEFINE policy == s.workflow.archive
             start  == ArchiveState(archive, reviewed)
             summed == IF policy.final_summary
                       THEN WriteNote(start, "final-summary", r, archive.window) ELSE start
             noted  == IF WritesDecisionNote(s, r, report)
                       THEN WriteNote(summed, "decision-note", r, archive.window) ELSE summed
             listed == IF policy.metadata_index THEN AppendIndex(noted) ELSE noted
             done   == IF policy.dir = "outside" THEN [start EXCEPT !.warned = TRUE] ELSE listed
             Good(state) == Fine(state.artifacts) /\ "artifacts" \in DOMAIN state
  <2>1. Good(start)
    BY <1>3 DEF ArchiveState
  <2> HIDE DEF start
  <2>2. Good(summed)
    BY <1>4, <2>1
  <2> HIDE DEF summed
  <2>3. Good(noted)
    BY <1>4, <2>2
  <2> HIDE DEF noted
  <2>4. Good(listed)
    BY <1>5, <2>3
  <2> HIDE DEF listed
  <2>5. Good(done)
    BY <2>1, <2>4
  <2> HIDE DEF done
  <2>6. \/ ApplyArchiveHook(s, r, report, archive, reviewed) = done
        \/ ApplyArchiveHook(s, r, report, archive, reviewed)
             = [done EXCEPT !.artifacts = Upsert(@, WarningsKey, "runtime")]
    BY Zenon DEF ApplyArchiveHook, done, listed, noted, summed, start
  <2> QED BY <1>1, <2>5, <2>6
<1>7. \/ Hooked(variant) = ApplyArchiveHook(agent, request, Report, setting.archive, reviewed)
      \/ Hooked(variant) = [ArchiveState(setting.archive, reviewed) EXCEPT !.warned = FALSE]
  BY Zenon DEF Hooked, reviewed, built
<1>8. [ArchiveState(setting.archive, reviewed) EXCEPT !.warned = FALSE].artifacts = reviewed
  BY DEF ArchiveState
<1>9. Fine(Hooked(variant).artifacts)
  BY <1>3, <1>6, <1>7, <1>8
<1> QED BY <1>9 DEF Fine

(* The server's own artifacts can always be written beside each other, so  *)
(* a record that cannot be written in full is one the summary spoiled.     *)
THEOREM OwnKeysAreFine == DeclaredKeys = {} => ~Undeclarable
<1> DEFINE names == {"summary.json", "summary.raw.txt", "stdout.txt", "stderr.txt"}
           pairs == {<<"review", "evidence.json">>, <<"archive", "hook-warnings.txt">>,
                     <<"docs", "final-summary">>, <<"docs", "decision-note">>,
                     <<"docs", "index.json">>}
<1>1. \A key \in OwnKeys :
        Sane(key) /\ ((\E name \in names : key.path = <<name>>) \/ key.path \in pairs)
  BY DEF OwnKeys, Plain, EvidenceKey, WarningsKey, ArchiveKey, Sane
<1>2. ASSUME NEW name \in names, NEW other \in names, IsPrefix(<<name>>, <<other>>)
      PROVE  <<name>> = <<other>>
  BY <1>2 DEF IsPrefix
<1>3. ASSUME NEW name \in names, NEW pair \in pairs
      PROVE  ~IsPrefix(<<name>>, pair) /\ ~IsPrefix(pair, <<name>>)
  BY DEF IsPrefix
<1>4. ASSUME NEW one \in pairs, NEW two \in pairs, IsPrefix(one, two) PROVE one = two
  BY <1>4 DEF IsPrefix
<1>5. ~Clashes(OwnKeys)
  <2> HIDE DEF names, pairs
  <2>1. SUFFICES ASSUME NEW k \in OwnKeys, NEW l \in OwnKeys, IsPrefix(k.path, l.path)
                 PROVE  k.path = l.path
    BY DEF Clashes
  <2>2. CASE \E name \in names : k.path = <<name>>
    <3>1. PICK name \in names : k.path = <<name>>
      BY <2>2
    <3>2. CASE \E other \in names : l.path = <<other>>
      BY <1>2, <2>1, <3>1, <3>2
    <3>3. CASE l.path \in pairs
      BY <1>3, <2>1, <3>1, <3>3
    <3> QED BY <1>1, <3>2, <3>3
  <2>3. CASE k.path \in pairs
    <3>1. CASE \E other \in names : l.path = <<other>>
      BY <1>3, <2>1, <2>3, <3>1
    <3>2. CASE l.path \in pairs
      BY <1>4, <2>1, <2>3, <3>2
    <3> QED BY <1>1, <3>1, <3>2
  <2> QED BY <1>1, <2>2, <2>3
<1> QED BY <1>1, <1>5 DEF Undeclarable

(* Whoever reads a record finds the same exit code and the same retries in *)
(* it, and the usage although the outcome may hold none.                   *)
ReadTheSame(r) ==
  /\ UsageOnDisk(r) = r.usage
  /\ CliExitCode(r) = ServerExitCode(r)
  /\ FirstOf(CliRetries(r), 0) = FirstOf(r.policy.retries_used, 0)
DispatchWasTimed(r) ==
  /\ r.outcome.stats.duration \in {Unset, "dispatch"}
  /\ r.outcome.stats.duration # Unset => r.status \in {"Succeeded", "Failed"} /\ r.compiled

(* What a full record is: its fields, its artifacts, and what was used.    *)
WellFormed(r) ==
  /\ DOMAIN r = {"status", "error", "artifacts", "policy", "spec", "compiled", "usage", "outcome"}
  /\ r.status \in TerminalPhases
  /\ KnownArtifacts(r.artifacts)
  /\ ReadTheSame(r) /\ DispatchWasTimed(r)

(* Until it is over, a request has on disk what its client was told: that  *)
(* it is accepted, or nothing.                                             *)
Recorded == {"over", "restarted"}
Announced == phase # "starting" /\ async
NotYetRecorded ==
  phase \notin Recorded =>
    /\ told = IF Announced THEN "accepted" ELSE "nothing"
    /\ disk.meta = IF Announced THEN Record(accepted, "Running", "none", NoArtifacts)
                   ELSE NoRecord
    /\ DOMAIN disk.stored = {}
    /\ phase # "settled" => record = disk.meta /\ step # "returned"
    /\ phase = "settled" =>
         WellFormed(record) /\ StreamsKept(record.artifacts.data)

(* Then nothing is on disk, and its client knows of no run; or its record  *)
(* is, with all artifacts it could be written with.                        *)
NothingOnDisk == told = "error" /\ disk.meta = NoRecord /\ record = NoRecord
OnDisk ==
  LET artifacts == disk.meta.artifacts IN
  /\ WellFormed(disk.meta)
  /\ DOMAIN disk.stored \subseteq DOMAIN artifacts.data
  /\ PersistWorks(artifacts) => disk.stored = artifacts.data
  /\ told \in {"accepted", "error"} \/ (told = disk.meta.status /\ PersistWorks(artifacts))
  /\ step = "returned" => StreamsKept(artifacts.data)
OverAsRecorded ==
  phase = "over" =>
    \/ NothingOnDisk
    \/ /\ OnDisk
       /\ record.status = disk.meta.status /\ record.artifacts = disk.meta.artifacts
       /\ PersistWorks(record.artifacts) => record = disk.meta
RestartedAsOnDisk ==
  phase = "restarted" =>
    \/ NothingOnDisk
    \/ /\ OnDisk
       /\ record = IF LoadRecord(disk.meta.artifacts.index, disk.stored) = "unreadable"
                   THEN [status |-> "unreadable"]
                   ELSE [disk.meta EXCEPT !.artifacts.data = disk.stored]

(* A run directory that holds events but no record is that of a run_agent  *)
(* that has got its workspace.                                             *)
LogFollowsPhase ==
  /\ phase \in Inside => workspace.error = "none"
  /\ phase = "starting" \/ (phase \in Before /\ ~async) => log = <<>>
  /\ log # <<>> /\ disk.meta.status = "none" => ~async /\ workspace.error = "none"

RecordInv ==
  /\ NotYetRecorded /\ OverAsRecorded /\ RestartedAsOnDisk /\ LogFollowsPhase
  /\ step = "backing_off" => phase = "dispatching"

LEMMA InitRecord == RequestInit => RecordInv
  BY DEF RequestInit, RecordInv, NotYetRecorded, OverAsRecorded, RestartedAsOnDisk,
         LogFollowsPhase, Announced, NoDisk, NoArtifacts, NoRecord, NoWorkspace, Recorded

(* A record in which nothing was attempted.                                *)
LEMMA LostRecord ==
  ASSUME NEW run_status \in {"Failed", "Cancelled"}, NEW taken, NEW error
  PROVE  LET r == Record(taken, run_status, error, NoOutput(run_status)) IN
         WellFormed(r) /\ r.status = run_status /\ r.artifacts = NoOutput(run_status)
<1> DEFINE r == Record(taken, run_status, error, NoOutput(run_status))
<1>1. /\ DOMAIN r = {"status", "error", "artifacts", "policy", "spec", "compiled", "usage",
                     "outcome"}
      /\ r.status = run_status /\ r.artifacts = NoOutput(run_status)
      /\ r.usage = NoUsage /\ r.error = error
      /\ r.outcome = RunOutcome(run_status, NoStats, error, 0)
  BY DEF Record
<1>2. ReadTheSame(r) /\ DispatchWasTimed(r)
  <2>1. /\ r.outcome.stats = NoStats /\ r.outcome.error = error
        /\ r.outcome.attempts \in {Unset, 0}
    BY <1>1 DEF RunOutcome, NoStats
  <2> HIDE DEF r
  <2>2. UsageOnDisk(r) = r.usage
    BY <1>1, <2>1 DEF UsageOnDisk, NoUsage, NoStats, FirstOf
  <2>3. CliExitCode(r) = ServerExitCode(r)
    BY <1>1, <2>1 DEF CliExitCode, ServerExitCode, MessageCode, FirstOf
  <2>4. FirstOf(CliRetries(r), 0) = FirstOf(r.policy.retries_used, 0)
    BY <2>1 DEF CliRetries, FirstOf
  <2> QED BY <2>1, <2>2, <2>3, <2>4 DEF ReadTheSame, DispatchWasTimed, NoStats
<1>3. KnownArtifacts(NoOutput(run_status))
  <2> DEFINE own == {Plain(<<"summary.json">>)}
                      \cup (IF run_status = "Failed" THEN {Plain(<<"summary.raw.txt">>)} ELSE {})
  <2>1. NoOutput(run_status) = [index |-> own, data |-> [key \in own |-> "runtime"]]
    BY DEF NoOutput, BuildArtifacts, Declared
  <2>2. own \subseteq OwnKeys
    BY DEF OwnKeys
  <2> HIDE DEF own
  <2> QED BY <2>1, <2>2 DEF KnownArtifacts, Producers
<1> HIDE DEF r
<1> QED BY <1>1, <1>2, <1>3 DEF WellFormed, TerminalPhases, r

(* persist_run_record in an empty directory writes all that it can.        *)
LEMMA WrittenRecord ==
  ASSUME DOMAIN disk.stored = {}, NEW r, KnownArtifacts(r.artifacts),
         NEW written \in WrittenArtifacts(r.artifacts),
         disk' = [meta |-> r, stored |-> [k \in DOMAIN disk.stored \cup written |->
                    IF k \in written THEN r.artifacts.data[k] ELSE disk.stored[k]]]
  PROVE  /\ disk'.meta = r
         /\ DOMAIN disk'.stored \subseteq DOMAIN r.artifacts.data
         /\ PersistWorks(r.artifacts) => disk'.stored = r.artifacts.data
<1>1. /\ written \subseteq DOMAIN r.artifacts.data
      /\ PersistWorks(r.artifacts) => written = DOMAIN r.artifacts.data
  BY DEF WrittenArtifacts
<1>2. disk'.meta = r /\ disk'.stored = [k \in written |-> r.artifacts.data[k]]
  BY <1>1
<1> QED BY <1>1, <1>2 DEF KnownArtifacts

(* What is known of artifacts and streams depends on what was printed.     *)
LEMMA SamePrinted ==
  ASSUME UNCHANGED <<setting, printed>>
  PROVE  /\ DeclaredKeys' = DeclaredKeys
         /\ \A artifacts : (KnownArtifacts(artifacts))' = KnownArtifacts(artifacts)
         /\ \A data : (StreamsKept(data))' = StreamsKept(data)
         /\ \A r : (WellFormed(r))' = WellFormed(r)
<1>1. DeclaredKeys' = DeclaredKeys
  BY DEF DeclaredKeys, Report
<1>2. \A artifacts : (KnownArtifacts(artifacts))' = KnownArtifacts(artifacts)
  BY <1>1 DEF KnownArtifacts
<1>3. \A data : (StreamsKept(data))' = StreamsKept(data)
  BY <1>1 DEF StreamsKept, StreamKept
<1> QED BY <1>1, <1>2, <1>3 DEF WellFormed

(* A spawned run that fails or is cancelled on the way.                    *)
LEMMA LosesRun ==
  ASSUME RecordInv, phase \in {"accepted", "ready"} \cup Inside, async, phase' = "over",
         NEW run_status \in {"Failed", "Cancelled"}, NEW error,
         Persist(Record(accepted, run_status, error, NoOutput(run_status))),
         UNCHANGED <<setting, accepted, printed, told>>,
         step' \notin {"returned", "backing_off"}
  PROVE  RecordInv'
<1> DEFINE r == Record(accepted, run_status, error, NoOutput(run_status))
<1>1. WellFormed(r) /\ r.status = run_status
  BY LostRecord
<1>2. told = "accepted" /\ DOMAIN disk.stored = {}
  BY DEF RecordInv, NotYetRecorded, Recorded, Announced, Inside
<1> HIDE DEF r
<1>3. PICK written \in WrittenArtifacts(r.artifacts) :
        /\ record' = r
        /\ disk' = [meta |-> r, stored |-> [k \in DOMAIN disk.stored \cup written |->
                      IF k \in written THEN r.artifacts.data[k] ELSE disk.stored[k]]]
  BY DEF Persist, r
<1>4. KnownArtifacts(r.artifacts)
  BY <1>1 DEF WellFormed
<1>5. /\ disk'.meta = r
      /\ DOMAIN disk'.stored \subseteq DOMAIN r.artifacts.data
      /\ PersistWorks(r.artifacts) => disk'.stored = r.artifacts.data
  BY <1>2, <1>3, <1>4, WrittenRecord
<1>6. (WellFormed(disk.meta))'
  BY <1>1, <1>5, SamePrinted
<1>7. OnDisk'
  BY <1>2, <1>5, <1>6 DEF OnDisk
<1>8. OverAsRecorded'
  BY <1>3, <1>5, <1>7 DEF OverAsRecorded
<1>9. LogFollowsPhase'
  BY <1>1, <1>5 DEF LogFollowsPhase, Before, Inside
<1> QED
  BY <1>8, <1>9 DEF RecordInv, NotYetRecorded, RestartedAsOnDisk, Recorded

(* An error on the way.                                                    *)
LEMMA FailsRun ==
  ASSUME RecordInv, phase \in {"accepted", "ready"} \cup Inside, NEW error, NEW events,
         Fail(error, events), UNCHANGED <<setting, accepted, printed>>,
         UNCHANGED workspace \/ phase \in Before,
         step' \notin {"returned", "backing_off"}
  PROVE  RecordInv'
<1>1. phase' = "over"
  BY DEF Fail
<1>2. CASE async
  BY <1>1, <1>2, LosesRun DEF Fail
<1>3. CASE ~async
  <2>1. told' = "error" /\ UNCHANGED <<record, disk, log>>
    BY <1>3 DEF Fail, LogIfSpawned
  <2>2. record = NoRecord /\ disk.meta = NoRecord
    BY <1>3 DEF RecordInv, NotYetRecorded, Recorded, Announced, Inside
  <2>3. NothingOnDisk'
    BY <2>1, <2>2 DEF NothingOnDisk
  <2>4. LogFollowsPhase'
    <3>1. log # <<>> => workspace' = workspace /\ workspace.error = "none"
      BY <1>3 DEF RecordInv, LogFollowsPhase, Before
    <3>2. async' = async
      BY DEF async
    <3> QED
      BY <1>1, <1>3, <2>1, <3>1, <3>2 DEF LogFollowsPhase, Before, Inside
  <2> QED
    BY <1>1, <2>3, <2>4
       DEF RecordInv, NotYetRecorded, OverAsRecorded, RestartedAsOnDisk, Recorded
<1> QED BY <1>2, <1>3
LEMMA StopsRun ==
  ASSUME RecordInv, phase \in {"accepted", "ready"} \cup Inside, NEW error, Stop(error),
         UNCHANGED <<setting, accepted, printed>>, UNCHANGED workspace \/ phase \in Before,
         step' \notin {"returned", "backing_off"}
  PROVE  RecordInv'
  BY FailsRun DEF Stop

(* Nothing is recorded of a run that goes on.                              *)
LEMMA GoesOn ==
  ASSUME RecordInv, phase \in {"accepted", "ready"} \cup Inside,
         phase' \in {"accepted", "ready"} \cup Inside,
         UNCHANGED <<setting, accepted, record, disk, told>>,
         step' # "returned", step' = "backing_off" => phase' = "dispatching",
         phase' \in Inside => workspace'.error = "none",
         phase' \in Before => phase \in Before /\ (async \/ log' = log)
  PROVE  RecordInv'
<1>1. Announced' = Announced /\ async' = async
  BY DEF Announced, async, Inside
<1>2. NotYetRecorded'
  BY <1>1 DEF RecordInv, NotYetRecorded, Recorded, Inside
<1>3. LogFollowsPhase'
  BY <1>1 DEF RecordInv, LogFollowsPhase, NotYetRecorded, Recorded, Announced, Before, Inside,
              Record
<1> QED
  BY <1>2, <1>3 DEF RecordInv, OverAsRecorded, RestartedAsOnDisk, Inside

LEMMA ArrivalRecord ==
  ASSUME RecordInv, RefuseRequest \/ Accept \/ ProbeProvider \/ MakeWorkspace \/ ReadMemory
  PROVE  RecordInv'
<1>1. step' = step /\ step \notin {"returned", "backing_off"}
  BY DEF RefuseRequest, Accept, ProbeProvider, MakeWorkspace, ReadMemory, vars, RecordInv,
         NotYetRecorded, Recorded
<1>2. phase = "starting" => /\ record = NoRecord /\ disk.meta = NoRecord /\ log = <<>>
                            /\ told = "nothing" /\ DOMAIN disk.stored = {}
  BY DEF RecordInv, NotYetRecorded, LogFollowsPhase, Recorded, Announced
<1>3. ASSUME phase = "starting", phase' = "over", told' = "error", UNCHANGED <<record, disk, log>>
      PROVE  RecordInv'
  <2>1. NothingOnDisk' /\ log' = <<>>
    BY <1>2, <1>3 DEF NothingOnDisk
  <2> QED
    BY <1>1, <1>3, <2>1 DEF RecordInv, NotYetRecorded, OverAsRecorded, RestartedAsOnDisk,
                            LogFollowsPhase, Recorded, Inside
<1>4. CASE RefuseRequest
  BY <1>3, <1>4 DEF RefuseRequest
<1>5. CASE Accept
  <2>1. phase = "starting" /\ UNCHANGED <<setting, workspace>>
    BY <1>5 DEF Accept
  <2>2. CASE /\ accepted'.run_mode = "sync" /\ phase' = "accepted"
             /\ UNCHANGED <<record, disk, log, told>>
    <3>1. ~async' /\ ~Announced'
      BY <2>2 DEF async, Announced
    <3> QED
      BY <1>1, <1>2, <2>1, <2>2, <3>1
         DEF RecordInv, NotYetRecorded, OverAsRecorded, RestartedAsOnDisk, LogFollowsPhase,
             Recorded, Inside, Before
  <2>3. CASE phase' = "over" /\ told' = "error" /\ UNCHANGED <<record, disk, log>>
    BY <1>3, <2>1, <2>3
  <2>4. CASE /\ accepted'.run_mode = "async" /\ phase' = "accepted" /\ told' = "accepted"
             /\ Persist(Record(accepted', "Running", "none", NoArtifacts))
    <3> DEFINE r == Record(accepted', "Running", "none", NoArtifacts)
    <3>1. async' /\ Announced'
      BY <2>4 DEF async, Announced
    <3>2. r.artifacts = NoArtifacts /\ r.status = "Running"
      BY DEF Record
    <3> HIDE DEF r
    <3>3. \A written \in WrittenArtifacts(NoArtifacts) : written = {}
      BY DEF WrittenArtifacts, NoArtifacts
    <3>4. PICK written \in WrittenArtifacts(r.artifacts) :
            /\ record' = r
            /\ disk' = [meta |-> r, stored |-> [k \in DOMAIN disk.stored \cup written |->
                          IF k \in written THEN r.artifacts.data[k] ELSE disk.stored[k]]]
      BY <2>4 DEF Persist, r
    <3>5. disk'.meta = r /\ DOMAIN disk'.stored = {}
      BY <1>2, <2>1, <3>2, <3>3, <3>4
    <3>6. NotYetRecorded'
      BY <1>1, <2>4, <3>1, <3>4, <3>5 DEF NotYetRecorded, r
    <3>7. LogFollowsPhase'
      BY <2>4, <3>1, <3>2, <3>5 DEF LogFollowsPhase, Inside
    <3> QED
      BY <1>1, <2>4, <3>6, <3>7 DEF RecordInv, OverAsRecorded, RestartedAsOnDisk
  <2> QED BY <1>5, <2>2, <2>3, <2>4 DEF Accept
<1>6. CASE ProbeProvider
  <2>1. phase = "accepted" /\ UNCHANGED <<setting, accepted, workspace, printed>>
    BY <1>6 DEF ProbeProvider
  <2>2. CASE phase' = "ready" /\ UNCHANGED <<record, disk, told>> /\ (async \/ log' = log)
    BY <1>1, <2>1, <2>2, GoesOn DEF Before, Inside
  <2> QED BY <1>1, <1>6, <2>1, <2>2, FailsRun, StopsRun DEF ProbeProvider, LogIfSpawned
<1>7. CASE MakeWorkspace
  <2>1. phase = "ready" /\ UNCHANGED <<setting, accepted, printed>>
    BY <1>7 DEF MakeWorkspace
  <2>2. CASE /\ phase' = "in_workspace" /\ workspace'.error = "none"
             /\ UNCHANGED <<record, disk, told>>
    BY <1>1, <2>1, <2>2, GoesOn DEF Before, Inside
  <2> QED BY <1>1, <1>7, <2>1, <2>2, StopsRun DEF MakeWorkspace, Before
<1>8. CASE ReadMemory
  <2>1. phase = "in_workspace" /\ UNCHANGED <<setting, accepted, workspace, printed>>
    BY <1>8 DEF ReadMemory
  <2>2. CASE phase' = "gated" /\ UNCHANGED <<record, disk, told>>
    <3>1. workspace'.error = "none"
      BY <2>1 DEF RecordInv, LogFollowsPhase, Inside
    <3> QED BY <1>1, <2>1, <2>2, <3>1, GoesOn DEF Before, Inside
  <2> QED BY <1>1, <1>8, <2>1, <2>2, StopsRun DEF ReadMemory, Inside
<1> QED BY <1>4, <1>5, <1>6, <1>7, <1>8

LEMMA OngoingRecord ==
  ASSUME RecordInv,
         \/ Compile \/ Call \/ Wait \/ (\E warns \in BOOLEAN : Beat(warns))
         \/ (\E answer \in Possible : CallAgain(answer) \/ Answer(answer))
  PROVE  RecordInv'
<1>1. /\ phase \in Inside /\ phase' \in Inside /\ UNCHANGED <<setting, accepted, workspace>>
      /\ UNCHANGED <<record, disk, told>>
  BY DEF RecordInv, Compile, Call, Wait, Beat, CallAgain, Answer, requestVars, Inside
<1>2. step # "returned" /\ workspace.error = "none"
  BY <1>1 DEF RecordInv, NotYetRecorded, LogFollowsPhase, Recorded, Inside
<1>3. step' # "returned" /\ (step' = "backing_off" => phase' = "dispatching")
  <2>1. CASE Compile
    BY <2>1 DEF Compile, Prepare, LoopHead
  <2>2. CASE Call
    BY <2>2 DEF Call, Launch
  <2>3. CASE Wait
    BY <2>3 DEF Wait, BackOff, LoopHead
  <2>4. ASSUME NEW warns, Beat(warns) PROVE step' = step /\ phase' = phase
    BY <2>4 DEF Beat, vars
  <2>5. ASSUME NEW answer, CallAgain(answer) PROVE step' = step /\ phase = "calling"
    BY <2>5 DEF CallAgain, vars
  <2>6. ASSUME NEW answer, Answer(answer) PROVE step' # "returned" /\ phase' = "dispatching"
    BY <2>6 DEF Answer, Collect
  <2> QED BY <1>2, <2>1, <2>2, <2>3, <2>4, <2>5, <2>6 DEF RecordInv
<1>4. phase \in {"accepted", "ready"} \cup Inside /\ phase' \in {"accepted", "ready"} \cup Inside
      /\ phase' \notin Before
  BY <1>1 DEF Inside, Before
<1> QED BY <1>1, <1>2, <1>3, <1>4, GoesOn

LEMMA EndingRecord ==
  ASSUME RecordInv, FailGate \/ CallError \/ Cancel
  PROVE  RecordInv'
<1>1. CASE FailGate
  <2>1. /\ phase \in Inside /\ Stop(Verdict) /\ UNCHANGED <<setting, accepted, workspace, printed>>
        /\ step' \notin {"returned", "backing_off"}
    BY <1>1 DEF FailGate, Refuse, Inside
  <2> QED BY <2>1, StopsRun
<1>2. CASE CallError
  <2>1. /\ phase \in Inside /\ Stop("runner_error")
        /\ UNCHANGED <<setting, accepted, workspace, printed>>
        /\ step' \notin {"returned", "backing_off"}
    BY <1>2 DEF CallError, RunnerError, Inside
  <2> QED BY <2>1, StopsRun
<1>3. CASE Cancel
  <2>1. /\ phase \in Inside /\ phase' = "over" /\ async
        /\ Persist(Record(accepted, "Cancelled", "cancelled", NoOutput("Cancelled")))
        /\ UNCHANGED <<setting, accepted, printed, told>>
        /\ step' \notin {"returned", "backing_off"}
    BY <1>3 DEF Cancel, Abort, Inside
  <2> QED BY <2>1, LosesRun
<1> QED BY <1>1, <1>2, <1>3

(* The policy of the record is begun with no retries known.                *)
LEMMA PolicyOfAccepted ==
  ASSUME NEW s, Prepared(s).error = "none"
  PROVE  Prepared(s).policy = PolicySnapshot(Prepared(s).file.spec, s.request.tool)
<1> DEFINE config == ResolveRuntimeConfig(s.shell)
           loaded == LoadFromDirs([i \in DOMAIN config.agents_dirs |->
                                     s.dirs[config.agents_dirs[i]]])
           asked  == s.request
           named  == {i \in DOMAIN loaded : loaded[i].name = asked.agent}
           file   == loaded[Min(named)]
           runMode == EffectiveRunMode(asked.tool, PreferredRunMode(file.spec))
<1>1. Prepared(s) = PrepareRun(loaded, asked)
  <2>1. Prepared(s) = CASE config = Broken -> [error |-> "config"]
                        [] OTHER -> CASE loaded = Broken -> [error |-> "specs"]
                                      [] OTHER           -> PrepareRun(loaded, asked)
    BY Zenon DEF Prepared
  <2> HIDE DEF config, loaded, asked
  <2> QED BY <2>1
<1>2. PrepareRun(loaded, asked)
        = CASE named = {}                        -> [error |-> "not_found"]
            [] named # {} /\ runMode.reject    -> [error |-> "use_spawn_agent"]
            [] named # {} /\ ~runMode.reject   ->
                 [error |-> "none", file |-> file, run_mode |-> runMode.mode,
                  policy |-> PolicySnapshot(file.spec, asked.tool),
                  acceptance |-> {"sentinel", "concise"}]
  BY Zenon DEF PrepareRun
<1> HIDE DEF file, named, loaded, runMode
<1>3. \/ Prepared(s).error \in {"not_found", "use_spawn_agent"}
      \/ Prepared(s).file = file /\ Prepared(s).policy = PolicySnapshot(file.spec, asked.tool)
  BY <1>1, <1>2, SMT
<1> QED BY <1>3

LEMMA SettledRecord ==
  ASSUME RecordInv, TypeOK, AcceptedAsPrepared, Settle
  PROVE  RecordInv'
<1> DEFINE judged == final.judged
           hooked == Hooked(judged.status)
           usage  == NativeUsage(agent.provider, printed.stdout, printed.stderr)
           Stats(span) ==
             [usage |-> usage, exit_code |-> ExitCode(printed.end), duration |-> span]
           Full(span) ==
             [Record(accepted, judged.status, judged.message, hooked.artifacts) EXCEPT
                !.policy = Outcome(@, attempts_used, retry_attempts'),
                !.compiled = TRUE, !.usage = usage,
                !.outcome = RunOutcome(judged.status, Stats(span), judged.message, attempts_used)]
<1>0. PICK span \in {Unset, "dispatch"} : record' = Full(span)
  BY Zenon DEF Settle
<1> DEFINE full == Full(span)
<1>1. /\ phase = "dispatching" /\ phase' = "settled" /\ record' = full
      /\ UNCHANGED <<setting, accepted, workspace, printed, disk, told>>
  BY <1>0, Zenon DEF Settle
<1>2. judged.status \in TerminalPhases
  BY DEF TypeOK
<1>3. KnownArtifacts(hooked.artifacts) /\ StreamsKept(hooked.artifacts.data)
  BY HookedArtifacts
<1>4. DOMAIN usage = {"input", "output", "total"}
  BY DEF NativeUsage
<1>5. usage = [input |-> usage.input, output |-> usage.output, total |-> usage.total]
  BY DEF NativeUsage
<1> HIDE DEF usage, hooked
<1>6. /\ DOMAIN full = {"status", "error", "artifacts", "policy", "spec", "compiled", "usage",
                        "outcome"}
      /\ full.status = judged.status /\ full.artifacts = hooked.artifacts /\ full.usage = usage
      /\ full.error = judged.message /\ full.compiled = TRUE
      /\ full.outcome = RunOutcome(judged.status, Stats(span), judged.message, attempts_used)
      /\ full.policy = Outcome(Record(accepted, judged.status, judged.message,
                                      hooked.artifacts).policy, attempts_used, retry_attempts')
  BY DEF Record
<1>7. /\ full.outcome.stats \in {Stats(span), NoStats}
      /\ full.outcome.stats # NoStats => judged.status \in {"Succeeded", "Failed"}
      /\ full.outcome.error \in {judged.message, "none"}
  BY <1>6 DEF RunOutcome
<1> HIDE DEF full
<1>8. ReadTheSame(full) /\ DispatchWasTimed(full)
  <2>1. UsageOnDisk(full)
          = [number \in DOMAIN usage |-> FirstOf(full.outcome.stats.usage[number], usage[number])]
    BY <1>6 DEF UsageOnDisk
  <2>2. \A number \in DOMAIN usage :
          FirstOf(full.outcome.stats.usage[number], usage[number]) = usage[number]
    BY <1>4, <1>7 DEF FirstOf, NoUsage, NoStats
  <2>3. usage = [number \in DOMAIN usage |-> usage[number]]
    BY <1>4, <1>5
  <2>4. CliExitCode(full) = ServerExitCode(full)
    BY <1>6, <1>7 DEF CliExitCode, ServerExitCode, MessageCode, FirstOf
  <2>5. full.policy.retries_used = retry_attempts' /\ retry_attempts' # Unset
    <3>1. retry_attempts' \in Nat
      BY DEF TypeOK, Settle, Finalize, SaturatingSub
    <3>2. accepted.policy = PolicySnapshot(accepted.file.spec, request.tool)
      BY <1>1, PolicyOfAccepted DEF AcceptedAsPrepared, Before, Inside, request
    <3>3. DOMAIN accepted.policy = DOMAIN PolicySnapshot(DefaultSpec, "sync")
      BY <3>2 DEF PolicySnapshot
    <3> QED BY <1>6, <3>1, <3>3, SettingsAssumption DEF Outcome, Record, PolicySnapshot
  <2>6. DispatchWasTimed(full)
    BY <1>0, <1>6, <1>7 DEF DispatchWasTimed, NoStats
  <2>7. UsageOnDisk(full) = full.usage
    BY <1>6, <2>1, <2>2, <2>3
  <2>8. FirstOf(CliRetries(full), 0) = FirstOf(full.policy.retries_used, 0)
    BY <2>5 DEF CliRetries, FirstOf
  <2> QED BY <2>4, <2>6, <2>7, <2>8 DEF ReadTheSame
<1>9. WellFormed(full)
  BY <1>2, <1>3, <1>6, <1>8 DEF WellFormed
<1>10. (WellFormed(record) /\ StreamsKept(record.artifacts.data))'
  BY <1>1, <1>3, <1>6, <1>9, SamePrinted
<1>11. Announced' = Announced /\ async' = async
  BY <1>1 DEF Announced, async
<1>12. NotYetRecorded'
  BY <1>1, <1>10, <1>11 DEF RecordInv, NotYetRecorded, Recorded
<1>13. LogFollowsPhase'
  BY <1>1, <1>11 DEF RecordInv, LogFollowsPhase, NotYetRecorded, Recorded, Announced, Inside,
                     Before, Record
<1>14. step' # "backing_off"
  BY DEF Settle, Finalize
<1> QED
  BY <1>1, <1>12, <1>13, <1>14 DEF RecordInv, OverAsRecorded, RestartedAsOnDisk

LEMMA SavedRecord ==
  ASSUME RecordInv, Save
  PROVE  RecordInv'
<1> DEFINE works == PersistWorks(record.artifacts)
<1>1. /\ phase = "settled" /\ phase' = "over"
      /\ UNCHANGED <<setting, accepted, workspace, printed, log, step>>
  BY DEF Save, vars
<1>2. /\ record' = IF async /\ ~works THEN [record EXCEPT !.error = "not_persisted"] ELSE record
      /\ told' = CASE async            -> told
                   [] ~async /\ works  -> record.status
                   [] ~async /\ ~works -> "error"
  BY Zenon DEF Save
<1>3. PICK written \in WrittenArtifacts(record.artifacts) :
        disk' = [meta |-> record, stored |-> [k \in DOMAIN disk.stored \cup written |->
                   IF k \in written THEN record.artifacts.data[k] ELSE disk.stored[k]]]
  BY DEF Save
<1>4. /\ WellFormed(record) /\ StreamsKept(record.artifacts.data) /\ DOMAIN disk.stored = {}
      /\ async => told = "accepted"
      /\ step # "backing_off"
  BY <1>1 DEF RecordInv, NotYetRecorded, Recorded, Announced
<1>5. /\ disk'.meta = record
      /\ DOMAIN disk'.stored \subseteq DOMAIN record.artifacts.data
      /\ works => disk'.stored = record.artifacts.data
  <2>1. KnownArtifacts(record.artifacts)
    BY <1>4 DEF WellFormed
  <2> QED BY <1>3, <1>4, <2>1, WrittenRecord
<1>6. /\ record'.status = record.status /\ record'.artifacts = record.artifacts
      /\ works => record' = record
  BY <1>2, <1>4 DEF WellFormed
<1>7. (WellFormed(disk.meta))' /\ (StreamsKept(disk.meta.artifacts.data))'
  BY <1>1, <1>4, <1>5, SamePrinted
<1>8. told' \in {"accepted", "error"} \/ (told' = record.status /\ works)
  BY <1>2, <1>4
<1> HIDE DEF works
<1>9. OnDisk'
  BY <1>5, <1>7, <1>8 DEF OnDisk, works
<1>10. OverAsRecorded'
  BY <1>5, <1>6, <1>9 DEF OverAsRecorded, works
<1>11. LogFollowsPhase'
  BY <1>1, <1>4, <1>5 DEF LogFollowsPhase, Before, Inside, WellFormed, TerminalPhases
<1> QED
  BY <1>1, <1>4, <1>10, <1>11 DEF RecordInv, NotYetRecorded, RestartedAsOnDisk, Recorded

LEMMA RestRecord ==
  ASSUME RecordInv, Restart \/ RequestOver \/ UNCHANGED <<requestVars, vars>>
  PROVE  RecordInv'
<1>1. ASSUME UNCHANGED <<setting, printed, disk, told, step>>
      PROVE  (OnDisk => OnDisk') /\ (NothingOnDisk /\ UNCHANGED record => NothingOnDisk')
  <2>1. (WellFormed(disk.meta))' = WellFormed(disk.meta)
    BY <1>1, SamePrinted
  <2>2. (StreamsKept(disk.meta.artifacts.data))' = StreamsKept(disk.meta.artifacts.data)
    BY <1>1, SamePrinted
  <2> QED BY <1>1, <2>1, <2>2 DEF OnDisk, NothingOnDisk
<1>2. CASE Restart
  <2>1. /\ phase = "over" /\ phase' = "restarted"
        /\ UNCHANGED <<setting, accepted, workspace, printed, disk, log, told, step>>
        /\ record' = IF disk.meta = NoRecord THEN NoRecord
                     ELSE IF LoadRecord(disk.meta.artifacts.index, disk.stored) = "unreadable"
                     THEN [status |-> "unreadable"]
                     ELSE [disk.meta EXCEPT !.artifacts.data = disk.stored]
    BY <1>2 DEF Restart, vars
  <2>2. CASE NothingOnDisk
    <3>1. UNCHANGED record
      BY <2>1, <2>2 DEF NothingOnDisk
    <3> QED
      BY <1>1, <2>1, <2>2, <3>1
         DEF RecordInv, NotYetRecorded, OverAsRecorded, RestartedAsOnDisk, LogFollowsPhase,
             Recorded, Before, Inside, async
  <2>3. CASE OnDisk
    <3>1. disk.meta # NoRecord
      BY <2>3 DEF OnDisk, WellFormed, NoRecord, TerminalPhases
    <3>2. RestartedAsOnDisk'
      BY <1>1, <2>1, <2>3, <3>1 DEF RestartedAsOnDisk
    <3> QED
      BY <2>1, <3>2
         DEF RecordInv, NotYetRecorded, OverAsRecorded, LogFollowsPhase, Recorded, Before,
             Inside, async
  <2> QED BY <2>1, <2>2, <2>3 DEF RecordInv, OverAsRecorded
<1>3. CASE RequestOver \/ UNCHANGED <<requestVars, vars>>
  <2>1. /\ UNCHANGED <<setting, phase, accepted, workspace, printed, record, disk, log, told>>
        /\ UNCHANGED step
    BY <1>3 DEF RequestOver, requestVars, vars
  <2>2. /\ (WellFormed(record))' = WellFormed(record)
        /\ (StreamsKept(record.artifacts.data))' = StreamsKept(record.artifacts.data)
    BY <2>1, SamePrinted
  <2>3. async' = async /\ Announced' = Announced
    BY <2>1 DEF async, Announced
  <2>4. NotYetRecorded'
    BY <2>1, <2>2, <2>3 DEF RecordInv, NotYetRecorded, Recorded
  <2>5. OverAsRecorded' /\ RestartedAsOnDisk'
    BY <1>1, <2>1 DEF RecordInv, OverAsRecorded, RestartedAsOnDisk
  <2> QED
    BY <2>1, <2>3, <2>4, <2>5 DEF RecordInv, LogFollowsPhase, Before, Inside
<1> QED BY <1>2, <1>3

(* At every step a request has on disk what its client was told.           *)
THEOREM RequestIsRecorded == RequestSpec => []RecordInv
<1>1. RecordInv /\ TypeOK /\ AcceptedAsPrepared /\ [RequestNext]_<<requestVars, vars>>
        => RecordInv'
  BY ArrivalRecord, OngoingRecord, EndingRecord, SettledRecord, SavedRecord, RestRecord
     DEF RequestNext
<1>2. DispatchInv => TypeOK
  BY DEF DispatchInv
<1>3. RequestInv => AcceptedAsPrepared
  BY DEF RequestInv
<1> QED
  BY <1>1, <1>2, <1>3, InitRecord, RequestImplementsDispatcher, DispatchInvariant,
     RequestInvariant, PTL
     DEF RequestSpec

(* Two usages of the same numbers, code and retries differ in the duration.*)
LEMMA UsageButTime ==
  ASSUME NEW native, NEW known, NEW streamed, NEW code, NEW span, NEW other,
         NEW r, NEW s, FirstOf(r, 0) = FirstOf(s, 0)
  PROVE  UsageOutput(native, known, streamed, span, code, r)
           = [UsageOutput(native, known, streamed, other, code, s) EXCEPT !.duration = span]
<1> DEFINE input  == Shown(native.input, known)
           output == Shown(native.output, streamed)
           summed == "unknown" \notin {input.from, output.from}
           total  == IF native.total = Unset /\ summed THEN [from |-> "sum", number |-> Unset]
                     ELSE Shown(native.total, FALSE)
           used   == {input.from, output.from, total.from} \cap {"native", "estimated"}
           source == CASE used = {}          -> "unknown"
                       [] Cardinality(used) = 2 -> "mixed"
                       [] OTHER              -> CHOOSE x \in used : TRUE
           Usage(time, retries) ==
             [input |-> input, output |-> output, total |-> total, source |-> source,
              duration |-> time, exit_code |-> code, retries |-> FirstOf(retries, 0)]
<1>1. /\ UsageOutput(native, known, streamed, span, code, r) = Usage(span, r)
      /\ UsageOutput(native, known, streamed, other, code, s) = Usage(other, s)
  BY Zenon DEF UsageOutput
<1> HIDE DEF source, total, input, output
<1> QED BY <1>1

(* The usage is made of what is the same in a record and in its copy.      *)
LEMMA SameUsage ==
  ASSUME NEW run, NEW copy, NEW stored, ReadTheSame(copy), DispatchWasTimed(copy),
         run.usage = copy.usage, run.compiled = copy.compiled, run.outcome = copy.outcome,
         run.policy = copy.policy, run.error = copy.error, run.status = copy.status,
         run.artifacts.data = stored
  PROVE  LET there == ServerUsage(run)
             here  == CliUsage(copy, stored) IN
         /\ here = [there EXCEPT !.duration = here.duration]
         /\ here.duration # there.duration =>
              /\ run.compiled /\ run.status \in {"Succeeded", "Failed"}
              /\ here.duration = "dispatch" /\ there.duration = "run"
<1> DEFINE there == ServerUsage(run)
           here  == CliUsage(copy, stored)
           span  == FirstOf(copy.outcome.stats.duration, "run")
<1>1. ServerExitCode(run) = CliExitCode(copy)
  BY DEF ReadTheSame, ServerExitCode
<1>2. /\ UsageOnDisk(copy) = run.usage
      /\ FirstOf(CliRetries(copy), 0) = FirstOf(run.policy.retries_used, 0)
  BY DEF ReadTheSame
<1>3. here = UsageOutput(run.usage, run.compiled, HasOutput(stored), span,
                         CliExitCode(copy), CliRetries(copy))
  BY <1>2, Zenon DEF CliUsage
<1>4. there = UsageOutput(run.usage, run.compiled, HasOutput(stored), "run",
                          CliExitCode(copy), run.policy.retries_used)
  BY <1>1, Zenon DEF ServerUsage
<1>5. here.duration = span /\ there.duration = "run"
  BY <1>3, <1>4 DEF UsageOutput
<1>6. here = [there EXCEPT !.duration = span]
  BY <1>2, <1>3, <1>4, UsageButTime
<1>7. span # "run" => copy.compiled /\ copy.status \in {"Succeeded", "Failed"} /\ span = "dispatch"
  BY DEF FirstOf, DispatchWasTimed
<1> HIDE DEF there, here, span
<1>8. /\ here = [there EXCEPT !.duration = here.duration]
      /\ here.duration # there.duration =>
           /\ run.compiled /\ run.status \in {"Succeeded", "Failed"}
           /\ here.duration = "dispatch" /\ there.duration = "run"
  BY <1>5, <1>6, <1>7
<1> QED BY <1>8 DEF there, here

(* So what a run has used is the same wherever its record is read, but for *)
(* the time of a dispatch that has come to its end.                        *)
THEOREM RequestUsageIsTheSame == RequestSpec => []UsageIsTheSame
<1>1. ASSUME RecordInv PROVE UsageIsTheSame
  <2>1. SUFFICES
          ASSUME record.status \in TerminalPhases,
                 \/ phase = "over" /\ PersistWorks(record.artifacts)
                 \/ phase = "restarted"
          PROVE  LET there == ServerUsage(record)
                     here  == CliUsage(disk.meta, disk.stored) IN
                 /\ here = [there EXCEPT !.duration = here.duration]
                 /\ here.duration # there.duration =>
                      /\ record.compiled /\ record.status \in {"Succeeded", "Failed"}
                      /\ here.duration = "dispatch" /\ there.duration = "run"
    BY Zenon DEF UsageIsTheSame
  <2>2. ASSUME NothingOnDisk PROVE FALSE
    BY <2>1, <2>2 DEF NothingOnDisk, NoRecord, TerminalPhases
  <2>3. OnDisk /\ ReadTheSame(disk.meta) /\ DispatchWasTimed(disk.meta)
    BY <1>1, <2>1, <2>2
       DEF RecordInv, OverAsRecorded, RestartedAsOnDisk, OnDisk, WellFormed
  <2>4. CASE phase = "over"
    <3>1. record = disk.meta /\ disk.stored = record.artifacts.data
      BY <1>1, <2>1, <2>2, <2>4 DEF RecordInv, OverAsRecorded, OnDisk
    <3> QED BY <2>3, <3>1, SameUsage
  <2>5. CASE phase = "restarted"
    <3>1. record = [disk.meta EXCEPT !.artifacts.data = disk.stored]
      BY <1>1, <2>1, <2>2, <2>5 DEF RecordInv, RestartedAsOnDisk, TerminalPhases
    <3>2. /\ record.usage = disk.meta.usage /\ record.compiled = disk.meta.compiled
          /\ record.outcome = disk.meta.outcome /\ record.policy = disk.meta.policy
          /\ record.error = disk.meta.error /\ record.status = disk.meta.status
          /\ record.artifacts.data = disk.stored
      BY <2>3, <3>1 DEF OnDisk, WellFormed, KnownArtifacts
    <3> QED BY <2>3, <3>2, SameUsage
  <2> QED BY <2>1, <2>4, <2>5
<1> QED
  BY <1>1, RequestIsRecorded, PTL

(* Artifacts that cannot be written in full were declared so.              *)
LEMMA DeclaredSo ==
  ASSUME NEW artifacts, KnownArtifacts(artifacts), ~PersistWorks(artifacts)
  PROVE  Undeclarable
  BY DEF KnownArtifacts, PersistWorks, Undeclarable, Clashes

(* Those that can are all found again.                                     *)
LEMMA LoadedAgain ==
  ASSUME NEW artifacts, KnownArtifacts(artifacts), PersistWorks(artifacts)
  PROVE  /\ LoadRecord(artifacts.index, artifacts.data) = "loaded"
         /\ \A key \in artifacts.index : ReadArtifact(key, artifacts.data) \in Producers
<1>1. \A key \in artifacts.index : key \in DOMAIN artifacts.data /\ Sane(key)
  BY DEF KnownArtifacts, PersistWorks
<1>2. LoadRecord(artifacts.index, artifacts.data) = "loaded"
  BY <1>1 DEF PersistWorks, LoadRecord, Clashes
<1>3. \A key \in artifacts.index : artifacts.data[key] \in Producers
  BY <1>1 DEF KnownArtifacts
<1> QED BY <1>1, <1>2, <1>3 DEF ReadArtifact

(* And the streams are what the provider printed.                          *)
LEMMA StreamsReadAgain ==
  ASSUME StreamsKept(disk.stored), record.artifacts.data = disk.stored,
         disk.stored \in [DOMAIN disk.stored -> Producers]
  PROVE  StreamsAreShown(disk.stored)
<1> DEFINE Producer(name) == ReadRunLog(name, disk.stored, disk.stored)
<1>1. ASSUME NEW name, NEW text, StreamKept(name, text, disk.stored)
      PROVE  /\ Producer(name) = "runtime" <=> text # <<>>
             /\ Producer(name) = "agent" => Plain(<<name>>) \in DeclaredKeys
  <2> DEFINE key == Plain(<<name>>)
  <2>1. Producer(name) = IF key \in DOMAIN disk.stored THEN disk.stored[key] ELSE Unset
    BY DEF ReadRunLog
  <2>2. Unset \notin {"agent", "runtime"}
    BY RequestsAssumption
  <2> HIDE DEF Producer
  <2> QED BY <1>1, <2>1, <2>2 DEF StreamKept
<1>2. NativeResult(disk.stored) = "summary" => printed.stdout = <<>>
  <2> DEFINE key == Plain(<<"stdout.txt">>)
  <2>1. SUFFICES ASSUME printed.stdout # <<>> PROVE NativeResult(disk.stored) # "summary"
    OBVIOUS
  <2>2. key \in DOMAIN disk.stored /\ disk.stored[key] = "runtime"
    BY <2>1 DEF StreamsKept, StreamKept
  <2>3. ReadRunLog("stdout.txt", NoArtifacts.data, disk.stored) = "runtime"
    BY <2>2 DEF ReadRunLog, NoArtifacts
  <2>4. Unset # "runtime"
    BY RequestsAssumption
  <2> QED BY <2>3, <2>4 DEF NativeResult, FirstOf
<1> QED BY <1>1, <1>2 DEF StreamsKept, StreamsAreShown

(* What a client was told of a run is found again after a restart.         *)
THEOREM RequestHistoryIsReadable == RequestSpec => []HistoryIsReadable
<1>1. ASSUME RecordInv PROVE HistoryIsReadable
  <2> DEFINE artifacts == disk.meta.artifacts
  <2>1. ASSUME OnDisk, PersistWorks(artifacts)
        PROVE  /\ disk.stored = artifacts.data
               /\ LoadRecord(artifacts.index, disk.stored) = "loaded"
               /\ \A key \in artifacts.index : ReadArtifact(key, disk.stored) \in Producers
    BY <2>1, LoadedAgain DEF OnDisk, WellFormed
  <2>2. ASSUME OnDisk, ~PersistWorks(artifacts) PROVE Undeclarable
    BY <2>2, DeclaredSo DEF OnDisk, WellFormed
  <2>3. ASSUME phase = "restarted", told \in TerminalPhases \/ told = "accepted"
        PROVE  \/ told = "accepted" /\ Undeclarable
               \/ /\ record.status \in TerminalPhases
                  /\ told \in TerminalPhases => record.status = told
                  /\ \A key \in record.artifacts.index :
                       ReadArtifact(key, record.artifacts.data) \in {"agent", "runtime"}
                  /\ step = "returned" => StreamsAreShown(disk.stored)
    <3>1. ~NothingOnDisk
      BY <2>3 DEF NothingOnDisk, TerminalPhases
    <3>2. /\ OnDisk
          /\ record = IF LoadRecord(artifacts.index, disk.stored) = "unreadable"
                      THEN [status |-> "unreadable"]
                      ELSE [disk.meta EXCEPT !.artifacts.data = disk.stored]
      BY <1>1, <2>3, <3>1 DEF RecordInv, RestartedAsOnDisk
    <3>3. CASE ~PersistWorks(artifacts)
      <4>1. told = "accepted"
        BY <2>3, <3>2, <3>3 DEF OnDisk, TerminalPhases
      <4> QED BY <2>2, <3>2, <3>3, <4>1
    <3>4. CASE PersistWorks(artifacts)
      <4>1. record = [disk.meta EXCEPT !.artifacts.data = disk.stored]
        BY <2>1, <3>2, <3>4
      <4>2. /\ record.status = disk.meta.status /\ record.status \in TerminalPhases
            /\ record.artifacts.index = artifacts.index
            /\ record.artifacts.data = disk.stored
        BY <3>2, <4>1 DEF OnDisk, WellFormed, KnownArtifacts
      <4>3. told \in TerminalPhases => record.status = told
        BY <3>2, <4>2 DEF OnDisk, TerminalPhases
      <4>4. step = "returned" => StreamsAreShown(disk.stored)
        <5>1. disk.stored \in [DOMAIN disk.stored -> Producers]
          BY <2>1, <3>2, <3>4 DEF OnDisk, WellFormed, KnownArtifacts
        <5>2. step = "returned" => StreamsKept(disk.stored)
          BY <2>1, <3>2, <3>4 DEF OnDisk
        <5> QED BY <4>2, <5>1, <5>2, StreamsReadAgain
      <4> QED BY <2>1, <3>2, <3>4, <4>2, <4>3, <4>4 DEF Producers
    <3> QED BY <3>3, <3>4
  <2>4. ASSUME phase = "restarted", ListRuns(FALSE, disk) = "error" PROVE Undeclarable
    <3>1. /\ disk.meta.status # "none"
          /\ LoadRecord(artifacts.index, disk.stored) # "loaded"
      BY <2>4 DEF ListRuns
    <3>2. OnDisk
      BY <1>1, <2>4, <3>1 DEF RecordInv, RestartedAsOnDisk, NothingOnDisk, NoRecord
    <3> QED BY <2>1, <2>2, <3>1, <3>2
  <2>5. ASSUME Done, CliListRuns(disk, log) = "error"
        PROVE  told \notin TerminalPhases /\ ~async /\ workspace.error = "none"
    <3>1. disk.meta.status = "none" /\ log # <<>>
      BY <2>5 DEF CliListRuns
    <3>2. NothingOnDisk
      BY <1>1, <2>5, <3>1 DEF RecordInv, OverAsRecorded, RestartedAsOnDisk, Done, OnDisk,
                              WellFormed, TerminalPhases
    <3> QED BY <1>1, <3>1, <3>2 DEF RecordInv, LogFollowsPhase, NothingOnDisk, TerminalPhases
  <2> QED BY <2>3, <2>4, <2>5 DEF HistoryIsReadable
<1> QED
  BY <1>1, RequestIsRecorded, PTL

--------------------------------------------------------------------------------
(* What the sources of a spec may make of a memory, and that no file is in *)
(* it twice.                                                               *)
MemoryLabels == {"project", "active_plan", "archived_plan", "file", "glob", "inline"}
MemoryErrors ==
  {"none", "unreadable", "no_file", "no_match", "no_selector", "no_plan", "no_section"}
FilesOf(dir) == Range(dir.files) \cup {Unset}
SaysOnce(m) ==
  /\ IsInjective(m.native)
  /\ Inlined(m) \cap Range(m.native) = {}
  /\ \A i, j \in DOMAIN m.inline :
       m.inline[i].file = m.inline[j].file => i = j \/ m.inline[i].file = Unset
MemoriesOf(dir) ==
  {m \in [inline : Seq([label : MemoryLabels, file : FilesOf(dir)]),
          native : Seq(FilesOf(dir)), error : MemoryErrors] : SaysOnce(m)}

LEMMA NothingIsSaid == ASSUME NEW dir PROVE NoMemory \in MemoriesOf(dir)
<1>1. /\ NoMemory.inline = <<>> /\ NoMemory.native = <<>> /\ NoMemory.error = "none"
      /\ NoMemory \in [inline : Seq([label : MemoryLabels, file : FilesOf(dir)]),
                       native : Seq(FilesOf(dir)), error : MemoryErrors]
  BY EmptySeq DEF NoMemory, MemoryErrors
<1>2. SaysOnce(NoMemory)
  BY <1>1 DEF SaysOnce, Inlined, Whole, IsInjective, Range
<1> QED BY <1>1, <1>2 DEF MemoriesOf

LEMMA FailingSays ==
  ASSUME NEW dir, NEW m \in MemoriesOf(dir), NEW error \in MemoryErrors
  PROVE  Failed(m, error) \in MemoriesOf(dir)
<1>1. /\ Failed(m, error).inline = m.inline /\ Failed(m, error).native = m.native
      /\ Failed(m, error) \in [inline : Seq([label : MemoryLabels, file : FilesOf(dir)]),
                               native : Seq(FilesOf(dir)), error : MemoryErrors]
  BY DEF MemoriesOf, Failed
<1>2. SaysOnce(Failed(m, error))
  BY <1>1 DEF SaysOnce, Inlined, Whole, MemoriesOf
<1> QED BY <1>1, <1>2 DEF MemoriesOf

(* What is kept of a list without repetitions is one.                      *)
LEMMA KeptOnce ==
  ASSUME NEW V, NEW list \in Seq(V), IsInjective(list), NEW S
  PROVE  LET kept == Keep(list, S) IN
         /\ kept \in Seq(V) /\ IsInjective(kept)
         /\ Range(kept) \subseteq Range(list) \cap S
<1> DEFINE kept == Keep(list, S)
<1>1. kept \in Seq(V) /\ kept \in Seq(S)
  BY KeepTyped
<1>2. /\ \A j \in 1 .. Len(kept) : \E a \in 1 .. Len(list) : list[a] = kept[j] /\ list[a] \in S
      /\ \A j, k \in 1 .. Len(kept) : j < k =>
           \E a, b \in 1 .. Len(list) :
             a < b /\ list[a] = kept[j] /\ list[b] = kept[k] /\ list[a] \in S /\ list[b] \in S
  BY KeepOrder
<1> HIDE DEF kept
<1>3. /\ DOMAIN kept = 1 .. Len(kept) /\ DOMAIN list = 1 .. Len(list)
      /\ Len(kept) \in Nat /\ Len(list) \in Nat
  BY <1>1
<1>4. ASSUME NEW j \in 1 .. Len(kept), NEW k \in 1 .. Len(kept), j < k PROVE kept[j] # kept[k]
  <2>1. PICK a, b \in 1 .. Len(list) : a < b /\ list[a] = kept[j] /\ list[b] = kept[k]
    BY <1>2, <1>4
  <2>2. a # b
    BY <1>3, <2>1
  <2> QED BY <1>3, <2>1, <2>2 DEF IsInjective
<1>5. ASSUME NEW j \in DOMAIN kept, NEW k \in DOMAIN kept, kept[j] = kept[k] PROVE j = k
  <2>1. j \in Int /\ k \in Int
    BY <1>3
  <2>2. ~(j < k) /\ ~(k < j)
    BY <1>3, <1>4, <1>5
  <2> QED BY <2>1, <2>2
<1>6. IsInjective(kept)
  BY <1>5 DEF IsInjective
<1>7. Range(kept) \subseteq Range(list) \cap S
  BY <1>2, <1>3 DEF Range
<1> QED BY <1>1, <1>6, <1>7 DEF kept

LEMMA LabelsAreWhole ==
  ASSUME NEW F, NEW list \in Seq([label : MemoryLabels, file : F])
  PROVE  \A i \in DOMAIN list : list[i].label # "plan_section"
<1> DEFINE S == [label : MemoryLabels, file : F]
<1>1. \A i \in DOMAIN list : list[i] \in S
  <2>1. list \in Seq(S)
    OBVIOUS
  <2> HIDE DEF S
  <2> QED BY <2>1
<1>2. "plan_section" \notin MemoryLabels
  BY DEF MemoryLabels
<1> QED BY <1>1, <1>2

LEMMA TextSays ==
  ASSUME NEW dir, NEW m \in MemoriesOf(dir), NEW label \in MemoryLabels
  PROVE  [m EXCEPT !.inline = Append(@, Snippet(label, Unset))] \in MemoriesOf(dir)
<1> DEFINE new == Snippet(label, Unset)
           said == [m EXCEPT !.inline = Append(@, new)]
<1>1. new \in [label : MemoryLabels, file : FilesOf(dir)] /\ new.file = Unset
  BY DEF Snippet, FilesOf
<1> HIDE DEF new
<1>2. /\ m.inline \in Seq([label : MemoryLabels, file : FilesOf(dir)])
      /\ said.inline = Append(m.inline, new) /\ said.native = m.native
      /\ said \in [inline : Seq([label : MemoryLabels, file : FilesOf(dir)]),
                   native : Seq(FilesOf(dir)), error : MemoryErrors]
  BY <1>1, AppendProperties DEF MemoriesOf
<1>3. /\ Len(m.inline) \in Nat /\ DOMAIN m.inline = 1 .. Len(m.inline)
      /\ DOMAIN said.inline = 1 .. Len(m.inline) + 1
      /\ said.inline[Len(m.inline) + 1] = new
      /\ \A i \in 1 .. Len(m.inline) : said.inline[i] = m.inline[i]
  BY <1>2, AppendProperties
<1> HIDE DEF said
<1>4. Inlined(said) = Inlined(m)
  <2>1. Whole(said) \in {Whole(m), Whole(m) \cup {Len(m.inline) + 1}}
    BY <1>3 DEF Whole
  <2>2. \A i \in Whole(m) : said.inline[i].file = m.inline[i].file
    BY <1>3 DEF Whole
  <2>3. said.inline[Len(m.inline) + 1].file = Unset
    BY <1>1, <1>3
  <2> QED BY <2>1, <2>2, <2>3 DEF Inlined
<1>5. SaysOnce(m)
  BY DEF MemoriesOf
<1>6. SaysOnce(said)
  <2>1. ASSUME NEW i \in DOMAIN said.inline, NEW j \in DOMAIN said.inline,
               said.inline[i].file = said.inline[j].file
        PROVE  i = j \/ said.inline[i].file = Unset
    <3>1. CASE i = Len(m.inline) + 1 \/ j = Len(m.inline) + 1
      BY <1>1, <1>3, <2>1, <3>1
    <3>2. CASE i \in 1 .. Len(m.inline) /\ j \in 1 .. Len(m.inline)
      BY <1>3, <1>5, <2>1, <3>2 DEF SaysOnce
    <3> QED BY <1>3, <3>1, <3>2
  <2> QED BY <1>2, <1>4, <1>5, <2>1 DEF SaysOnce
<1> QED BY <1>2, <1>6 DEF MemoriesOf, said, new

(* A file that is inlined is taken back from the provider's own loader.    *)
LEMMA InliningSays ==
  ASSUME NEW dir, NEW m \in MemoriesOf(dir), NEW label \in MemoryLabels,
         NEW path \in DOMAIN dir.files
  PROVE  AddInline(m, path, label, dir) \in MemoriesOf(dir)
<1> DEFINE file == dir.files[path]
           new == Snippet(label, file)
           kept == Keep(m.native, Range(m.native) \ {file})
           said == [m EXCEPT !.inline = Append(@, new), !.native = kept]
<1>1. /\ m.inline \in Seq([label : MemoryLabels, file : FilesOf(dir)])
      /\ m.native \in Seq(FilesOf(dir)) /\ SaysOnce(m) /\ m.error \in MemoryErrors
      /\ m \in [inline : Seq([label : MemoryLabels, file : FilesOf(dir)]),
                native : Seq(FilesOf(dir)), error : MemoryErrors]
  BY DEF MemoriesOf
<1>2. file \in FilesOf(dir)
  BY DEF FilesOf, Range
<1>3. CASE m.error # "none" \/ file \in Inlined(m)
  <2>1. AddInline(m, path, label, dir) = m
    BY <1>3 DEF AddInline
  <2> QED BY <2>1
<1>4. CASE m.error = "none" /\ file \notin Inlined(m) /\ file \in dir.unreadable
  <2>1. AddInline(m, path, label, dir) = Failed(m, "unreadable")
    BY <1>4 DEF AddInline
  <2> QED BY <2>1, FailingSays DEF MemoryErrors
<1>5. CASE m.error = "none" /\ file \notin Inlined(m) /\ file \notin dir.unreadable
  <2>1. AddInline(m, path, label, dir) = said
    BY <1>5 DEF AddInline
  <2>2. new \in [label : MemoryLabels, file : FilesOf(dir)] /\ new.file = file
    BY <1>2 DEF Snippet
  <2>3. /\ kept \in Seq(FilesOf(dir)) /\ IsInjective(kept)
        /\ Range(kept) \subseteq Range(m.native) /\ file \notin Range(kept)
    BY <1>1, KeptOnce DEF SaysOnce
  <2> HIDE DEF new, kept
  <2>4. /\ said.inline = Append(m.inline, new) /\ said.native = kept
        /\ said \in [inline : Seq([label : MemoryLabels, file : FilesOf(dir)]),
                     native : Seq(FilesOf(dir)), error : MemoryErrors]
    BY <1>1, <2>2, <2>3, AppendProperties
  <2>5. /\ Len(m.inline) \in Nat /\ DOMAIN m.inline = 1 .. Len(m.inline)
        /\ DOMAIN said.inline = 1 .. Len(m.inline) + 1
        /\ said.inline[Len(m.inline) + 1] = new
        /\ \A i \in 1 .. Len(m.inline) : said.inline[i] = m.inline[i]
    BY <1>1, <2>2, <2>4, AppendProperties
  <2> HIDE DEF said, file
  <2>6. Inlined(said) \subseteq Inlined(m) \cup {file}
    BY <2>2, <2>5 DEF Inlined, Whole
  <2>7. \A i \in DOMAIN m.inline : m.inline[i].file = file => file = Unset
    <3>1. \A i \in DOMAIN m.inline : m.inline[i].label # "plan_section"
      BY <1>1, LabelsAreWhole
    <3> QED BY <1>5, <3>1 DEF Inlined, Whole
  <2>8. ASSUME NEW i \in DOMAIN said.inline, NEW j \in DOMAIN said.inline,
               said.inline[i].file = said.inline[j].file
        PROVE  i = j \/ said.inline[i].file = Unset
    <3>1. CASE i = Len(m.inline) + 1 /\ j \in 1 .. Len(m.inline)
      BY <2>2, <2>5, <2>7, <2>8, <3>1
    <3>2. CASE j = Len(m.inline) + 1 /\ i \in 1 .. Len(m.inline)
      BY <2>2, <2>5, <2>7, <2>8, <3>2
    <3>3. CASE i \in 1 .. Len(m.inline) /\ j \in 1 .. Len(m.inline)
      BY <1>1, <2>5, <2>8, <3>3 DEF SaysOnce
    <3> QED BY <2>5, <3>1, <3>2, <3>3
  <2>9. Inlined(said) \cap Range(said.native) = {}
    BY <1>1, <2>3, <2>4, <2>6 DEF SaysOnce
  <2>10. SaysOnce(said)
    BY <2>3, <2>4, <2>8, <2>9 DEF SaysOnce
  <2> QED BY <2>1, <2>4, <2>10 DEF MemoriesOf
<1> QED BY <1>3, <1>4, <1>5

(* A file is left to the provider's own loader only where it is not yet.   *)
LEMMA LeavingSays ==
  ASSUME NEW dir, NEW m \in MemoriesOf(dir), NEW path \in DOMAIN dir.files
  PROVE  AddNative(m, path, dir) \in MemoriesOf(dir)
<1> DEFINE file == dir.files[path]
           said == [m EXCEPT !.native = Append(@, file)]
<1>1. /\ m.native \in Seq(FilesOf(dir)) /\ SaysOnce(m)
      /\ m \in [inline : Seq([label : MemoryLabels, file : FilesOf(dir)]),
                native : Seq(FilesOf(dir)), error : MemoryErrors]
  BY DEF MemoriesOf
<1>2. file \in FilesOf(dir)
  BY DEF FilesOf, Range
<1>3. CASE m.error # "none" \/ file \in Inlined(m) \cup Range(m.native)
  BY <1>3 DEF AddNative
<1>4. CASE m.error = "none" /\ file \notin Inlined(m) \cup Range(m.native)
  <2>1. AddNative(m, path, dir) = said
    BY <1>4 DEF AddNative
  <2>2. /\ said.inline = m.inline /\ said.native = Append(m.native, file)
        /\ said \in [inline : Seq([label : MemoryLabels, file : FilesOf(dir)]),
                     native : Seq(FilesOf(dir)), error : MemoryErrors]
    BY <1>1, <1>2, AppendProperties
  <2>3. /\ Len(m.native) \in Nat /\ DOMAIN m.native = 1 .. Len(m.native)
        /\ DOMAIN said.native = 1 .. Len(m.native) + 1
        /\ said.native[Len(m.native) + 1] = file
        /\ \A i \in 1 .. Len(m.native) : said.native[i] = m.native[i]
    BY <1>1, <1>2, <2>2, AppendProperties
  <2> HIDE DEF said, file
  <2>4. \A i \in DOMAIN m.native : m.native[i] # file
    BY <1>4 DEF Range
  <2>5. ASSUME NEW i \in DOMAIN said.native, NEW j \in DOMAIN said.native,
               said.native[i] = said.native[j]
        PROVE  i = j
    <3>1. CASE i = Len(m.native) + 1 \/ j = Len(m.native) + 1
      BY <2>3, <2>4, <2>5, <3>1
    <3>2. CASE i \in 1 .. Len(m.native) /\ j \in 1 .. Len(m.native)
      BY <1>1, <2>3, <2>5, <3>2 DEF SaysOnce, IsInjective
    <3> QED BY <2>3, <3>1, <3>2
  <2>6. Range(said.native) \subseteq Range(m.native) \cup {file}
    BY <2>3 DEF Range
  <2>7. Inlined(said) = Inlined(m)
    BY <2>2 DEF Inlined, Whole
  <2>8. IsInjective(said.native)
    BY <2>5 DEF IsInjective
  <2>9. SaysOnce(said)
    BY <1>1, <1>4, <2>2, <2>6, <2>7, <2>8 DEF SaysOnce
  <2> QED BY <2>1, <2>2, <2>9 DEF MemoriesOf
<1> QED BY <1>3, <1>4

(* Loops over the paths that are there.                                    *)
LEMMA InliningAllSays ==
  ASSUME NEW dir, NEW m \in MemoriesOf(dir), NEW label \in MemoryLabels,
         NEW V, NEW paths \in Seq(V)
  PROVE  AddAll(m, paths, label, dir) \in MemoriesOf(dir)
<1> DEFINE M == MemoriesOf(dir)
           X == DOMAIN dir.files
           list == Present(paths, dir)
           n == Len(list)
           by == [x \in M \X X |-> AddInline(x[1], x[2], label, dir)]
           Is(f) == f = [i \in 0 .. n |-> IF i = 0 THEN m
                                          ELSE AddInline(f[i - 1], list[i], label, dir)]
           made == CHOOSE f : Is(f)
<1>1. list \in Seq(X) /\ n \in Nat
  BY KeepTyped DEF Present
<1>2. AddAll(m, paths, label, dir) = made[n]
  BY DEF AddAll, Loop
<1> HIDE DEF list, n
<1>3. by \in [M \X X -> M] /\ \A i \in 1 .. n : list[i] \in X
  BY <1>1, InliningSays DEF n
<1>4. \E f : Is(f)
  <2>0. m \in M /\ \A a \in M, b \in X : by[<<a, b>>] = AddInline(a, b, label, dir)
    OBVIOUS
  <2> HIDE DEF by, M, X
  <2>1. PICK f : MadeBy(by, m, list, n, M, f)
    BY <1>1, <1>3, <2>0, LoopExists
  <2>2. \A i \in 1 .. n : i - 1 \in 0 .. n
    BY <1>1
  <2>3. \A i \in 1 .. n : f[i] = AddInline(f[i - 1], list[i], label, dir)
    BY <1>3, <2>0, <2>1, <2>2 DEF MadeBy
  <2>4. \A i \in 0 .. n : f[i] = IF i = 0 THEN m ELSE AddInline(f[i - 1], list[i], label, dir)
    <3>1. \A i \in 0 .. n : i = 0 \/ i \in 1 .. n
      BY <1>1
    <3>2. f[0] = m
      BY <2>1 DEF MadeBy
    <3> QED BY <2>3, <3>1, <3>2
  <2>5. f = [i \in 0 .. n |-> f[i]]
    BY <2>1 DEF MadeBy
  <2>6. Is(f)
    BY <2>4, <2>5
  <2> QED BY <2>6
<1>5. Is(made)
  BY <1>4
<1> HIDE DEF made
<1>6. made[0] = m /\ \A i \in 1 .. n : made[i] = AddInline(made[i - 1], list[i], label, dir)
  BY <1>1, <1>5
<1>7. \A i \in 1 .. n : made[i - 1] \in M => made[i] \in M
  BY <1>3, <1>6, InliningSays
<1>8. \A i \in 0 .. n : made[i] \in M
  <2> HIDE DEF M
  <2>1. made[0] \in M
    BY <1>6 DEF M
  <2> QED BY <1>1, <1>7, <2>1, LoopStays
<1> QED BY <1>1, <1>2, <1>8

LEMMA NativeTyped == \A provider : \E V : NativeMemory(provider) \in Seq(V)
<1> TAKE provider
<1> DEFINE V == {"CLAUDE.md", ".claude/CLAUDE.md", "AGENTS.md", "AGENTS.override.md", "GEMINI.md"}
<1>1. /\ <<"CLAUDE.md", ".claude/CLAUDE.md">> \in Seq(V)
      /\ <<"AGENTS.md", "AGENTS.override.md">> \in Seq(V)
      /\ <<"GEMINI.md">> \in Seq(V)
      /\ <<>> \in Seq(V)
  OBVIOUS
<1>2. NativeMemory(provider) \in Seq(V)
  BY <1>1 DEF NativeMemory
<1> QED BY <1>2

LEMMA AutoSays ==
  ASSUME NEW dir, NEW m \in MemoriesOf(dir), NEW provider
  PROVE  AddAutoProject(m, provider, dir) \in MemoriesOf(dir)
<1> DEFINE M == MemoriesOf(dir)
           X == DOMAIN dir.files
           start == AddAll(m, ProjectMemory, "project", dir)
           list == Present(NativeMemory(provider), dir)
           n == Len(list)
           by == [x \in M \X X |-> AddNative(x[1], x[2], dir)]
           Is(f) == f = [i \in 0 .. n |-> IF i = 0 THEN start
                                          ELSE AddNative(f[i - 1], list[i], dir)]
           made == CHOOSE f : Is(f)
<1>1. list \in Seq(X) /\ n \in Nat
  BY KeepTyped, NativeTyped DEF Present
<1>2. start \in M
  <2>1. ProjectMemory \in Seq({"PROJECT.md", ".mcp-subagent/PROJECT.md"})
    BY DEF ProjectMemory
  <2> QED BY <2>1, InliningAllSays DEF MemoryLabels
<1>3. AddAutoProject(m, provider, dir) = made[n]
  BY DEF AddAutoProject, Loop
<1> HIDE DEF list, n, start
<1>4. by \in [M \X X -> M] /\ \A i \in 1 .. n : list[i] \in X
  BY <1>1, LeavingSays DEF n
<1>5. \E f : Is(f)
  <2>1. \A a \in M, b \in X : by[<<a, b>>] = AddNative(a, b, dir)
    OBVIOUS
  <2> HIDE DEF by, M, X
  <2>2. PICK f : MadeBy(by, start, list, n, M, f)
    BY <1>1, <1>2, <1>4, LoopExists
  <2>3. \A i \in 1 .. n : i - 1 \in 0 .. n
    BY <1>1
  <2>4. \A i \in 1 .. n : f[i] = AddNative(f[i - 1], list[i], dir)
    BY <1>4, <2>1, <2>2, <2>3 DEF MadeBy
  <2>5. \A i \in 0 .. n : i = 0 \/ i \in 1 .. n
    BY <1>1
  <2>6. f[0] = start /\ f = [i \in 0 .. n |-> f[i]]
    BY <2>2 DEF MadeBy
  <2>7. \A i \in 0 .. n : f[i] = IF i = 0 THEN start ELSE AddNative(f[i - 1], list[i], dir)
    BY <2>4, <2>5, <2>6
  <2>8. Is(f)
    BY <2>6, <2>7
  <2> QED BY <2>8
<1>6. Is(made)
  BY <1>5
<1> HIDE DEF made
<1>7. made[0] = start /\ \A i \in 1 .. n : made[i] = AddNative(made[i - 1], list[i], dir)
  BY <1>1, <1>6
<1>8. \A i \in 1 .. n : made[i - 1] \in M => made[i] \in M
  BY <1>4, <1>7, LeavingSays
<1>9. \A i \in 0 .. n : made[i] \in M
  <2>1. made[0] \in M
    BY <1>2, <1>7
  <2> HIDE DEF M
  <2> QED BY <1>1, <1>8, <2>1, LoopStays
<1> QED BY <1>1, <1>3, <1>9

LEMMA ActivePlanTyped ==
  ActivePlan \in Seq({"PLAN.md", ".mcp-subagent/PLAN.md"})
BY DEF ActivePlan

LEMMA ActiveSays ==
  ASSUME NEW dir, NEW m \in MemoriesOf(dir)
  PROVE  AddActivePlan(m, dir) \in MemoriesOf(dir)
<1> DEFINE found == Present(ActivePlan, dir)
<1>1. found \in Seq(DOMAIN dir.files)
  BY ActivePlanTyped, KeepTyped DEF Present
<1>2. AddActivePlan(m, dir)
        = IF found = <<>> THEN m ELSE AddInline(m, found[1], "active_plan", dir)
  BY DEF AddActivePlan
<1> HIDE DEF found
<1>3. found # <<>> => found[1] \in DOMAIN dir.files
  BY <1>1
<1> QED BY <1>2, <1>3, InliningSays DEF MemoryLabels

MemoryKinds == {"auto", "active_plan", "archived_plans", "file", "glob", "inline"}

(* One source of the spec.                                                 *)
LEMMA SourceSays ==
  ASSUME NEW dir, NEW m \in MemoriesOf(dir), NEW provider,
         NEW source, source.kind \in MemoryKinds,
         source.kind = "glob" => source.matches \in Seq(STRING)
  PROVE  AddSource(m, source, provider, dir) \in MemoriesOf(dir)
<1>1. CASE m.error # "none"
  BY <1>1 DEF AddSource
<1>2. CASE m.error = "none"
  <2>1. CASE source.kind = "auto"
    BY <1>2, <2>1, AutoSays DEF AddSource
  <2>2. CASE source.kind = "active_plan"
    BY <1>2, <2>2, ActiveSays DEF AddSource
  <2>3. CASE source.kind = "archived_plans"
    <3>1. ArchivedPlans \in Seq({"docs/plans/old.md", "docs/plans/older.md"})
      BY DEF ArchivedPlans
    <3>2. AddSource(m, source, provider, dir) = AddAll(m, ArchivedPlans, "archived_plan", dir)
      BY <1>2, <2>3 DEF AddSource
    <3> QED BY <3>1, <3>2, InliningAllSays DEF MemoryLabels
  <2>4. CASE source.kind = "file"
    <3>1. AddSource(m, source, provider, dir) = AddFile(m, source.target, dir)
      BY <1>2, <2>4 DEF AddSource
    <3>2. AddFile(m, source.target, dir) \in MemoriesOf(dir)
      BY InliningSays, FailingSays DEF AddFile, MemoryLabels, MemoryErrors
    <3> QED BY <3>1, <3>2
  <2>5. CASE source.kind = "glob"
    <3>1. AddSource(m, source, provider, dir) = AddGlob(m, source.matches, dir)
      BY <1>2, <2>5 DEF AddSource
    <3>2. AddAll(m, source.matches, "glob", dir) \in MemoriesOf(dir)
      BY <2>5, InliningAllSays DEF MemoryLabels
    <3>3. Failed(m, "no_match") \in MemoriesOf(dir)
      BY FailingSays DEF MemoryErrors
    <3>4. AddGlob(m, source.matches, dir) \in MemoriesOf(dir)
      BY <3>2, <3>3 DEF AddGlob
    <3> QED BY <3>1, <3>4
  <2>6. CASE source.kind = "inline"
    <3>1. AddSource(m, source, provider, dir) = AddText(m)
      BY <1>2, <2>6 DEF AddSource
    <3>2. AddText(m) \in MemoriesOf(dir)
      BY TextSays DEF AddText, MemoryLabels
    <3> QED BY <3>1, <3>2
  <2> QED BY <2>1, <2>2, <2>3, <2>4, <2>5, <2>6 DEF MemoryKinds
<1> QED BY <1>1, <1>2

(* Only the section of a plan, which comes last, may be of a file that was *)
(* given before.                                                           *)
SaysAgain(m) ==
  /\ IsInjective(m.native)
  /\ Inlined(m) \cap Range(m.native) = {}
  /\ \A i, j \in DOMAIN m.inline :
       i < j /\ m.inline[i].file = m.inline[j].file =>
         \/ m.inline[i].file = Unset
         \/ j = Len(m.inline) /\ m.inline[j].label = "plan_section"

LEMMA OnceIsEnough == ASSUME NEW dir, NEW m \in MemoriesOf(dir) PROVE SaysAgain(m)
<1>1. SaysOnce(m) /\ Len(m.inline) \in Nat /\ DOMAIN m.inline = 1 .. Len(m.inline)
  BY DEF MemoriesOf
<1> QED BY <1>1 DEF SaysOnce, SaysAgain

LEMMA SectionSays ==
  ASSUME NEW dir, NEW m \in MemoriesOf(dir), NEW selector
  PROVE  SaysAgain(AddPlanSection(m, selector, dir))
<1> DEFINE plan == Present(ActivePlan, dir)
           checks == << <<"no_selector", selector \notin {Unset, Blank}>>,
                        <<"no_plan", plan # <<>> >>,
                        <<"unreadable", plan = <<>> \/ dir.files[plan[1]] \notin dir.unreadable>>,
                        <<"no_section", SectionStart(dir.outline, selector) # 0>> >>
           verdict == FirstFailure(checks)
<1>1. verdict = "ok" \/ verdict \in MemoryErrors
  <2>1. Len(checks) = 4 /\ DOMAIN checks = 1 .. 4
    OBVIOUS
  <2>2. \A i \in 1 .. 4 : checks[i][1] \in MemoryErrors
    BY DEF MemoryErrors
  <2> HIDE DEF checks
  <2> DEFINE failing == {i \in DOMAIN checks : ~checks[i][2]}
  <2>3. failing \in SUBSET (1 .. 4)
    BY <2>1
  <2>4. verdict = IF failing = {} THEN "ok" ELSE checks[Min(failing)][1]
    BY DEF FirstFailure
  <2>5. failing # {} => Min(failing) \in 1 .. 4
    <3> HIDE DEF failing
    <3> QED BY <2>3, FirstPosition
  <2> QED BY <2>2, <2>4, <2>5
<1>2. CASE m.error # "none"
  <2>1. AddPlanSection(m, selector, dir) = m
    BY <1>2 DEF AddPlanSection
  <2> QED BY <2>1, OnceIsEnough
<1>3. CASE m.error = "none"
  <2> DEFINE new == Snippet("plan_section", dir.files[plan[1]])
             said == [m EXCEPT !.inline = Append(@, new)]
  <2>1. AddPlanSection(m, selector, dir) = IF verdict = "ok" THEN said ELSE Failed(m, verdict)
    BY <1>3 DEF AddPlanSection
  <2>2. CASE verdict # "ok"
    <3>1. verdict \in MemoryErrors
      BY <1>1, <2>2
    <3> HIDE DEF verdict
    <3>2. Failed(m, verdict) \in MemoriesOf(dir)
      BY <3>1, FailingSays
    <3> QED BY <2>1, <2>2, <3>2, OnceIsEnough
  <2>3. new.label = "plan_section"
    BY DEF Snippet
  <2> HIDE DEF new, verdict
  <2>4. /\ m.inline \in Seq([label : MemoryLabels, file : FilesOf(dir)]) /\ SaysOnce(m)
        /\ said.inline = Append(m.inline, new) /\ said.native = m.native
    BY DEF MemoriesOf
  <2>5. /\ Len(m.inline) \in Nat /\ DOMAIN m.inline = 1 .. Len(m.inline)
        /\ DOMAIN said.inline = 1 .. Len(m.inline) + 1 /\ Len(said.inline) = Len(m.inline) + 1
        /\ said.inline[Len(m.inline) + 1] = new
        /\ \A i \in 1 .. Len(m.inline) : said.inline[i] = m.inline[i]
    BY <2>4, AppendProperties
  <2> HIDE DEF said
  <2>6. Whole(said) = Whole(m)
    BY <2>3, <2>5 DEF Whole
  <2>7. Inlined(said) = Inlined(m)
    BY <2>5, <2>6 DEF Inlined, Whole
  <2>8. ASSUME NEW i \in DOMAIN said.inline, NEW j \in DOMAIN said.inline,
               i < j, said.inline[i].file = said.inline[j].file
        PROVE  \/ said.inline[i].file = Unset
               \/ j = Len(said.inline) /\ said.inline[j].label = "plan_section"
    <3>1. CASE j = Len(m.inline) + 1
      BY <2>3, <2>5, <3>1
    <3>2. CASE j \in 1 .. Len(m.inline)
      <4>1. i \in 1 .. Len(m.inline) /\ i # j
        BY <2>5, <2>8, <3>2
      <4> QED BY <2>4, <2>5, <2>8, <3>2, <4>1 DEF SaysOnce
    <3> QED BY <2>5, <3>1, <3>2
  <2>9. SaysAgain(said)
    BY <2>4, <2>7, <2>8 DEF SaysOnce, SaysAgain
  <2> QED BY <2>1, <2>2, <2>9
<1> QED BY <1>2, <1>3

(* The sources of the spec, one after the other, and the section.          *)
LEMMA ResolvingSays ==
  ASSUME NEW dir, NEW s, NEW n \in Nat, Len(s.runtime.memory_sources) = n,
         \A i \in 1 .. n :
           LET source == s.runtime.memory_sources[i] IN
           /\ source.kind \in MemoryKinds
           /\ source.kind = "glob" => source.matches \in Seq(STRING)
  PROVE  SaysAgain(ResolveMemory(s, dir))
<1> DEFINE M == MemoriesOf(dir)
           list == s.runtime.memory_sources
           X == {list[i] : i \in 1 .. n}
           by == [x \in M \X X |-> AddSource(x[1], x[2], s.provider, dir)]
           Is(f) == f = [i \in 0 .. n |-> IF i = 0 THEN NoMemory
                                          ELSE AddSource(f[i - 1], list[i], s.provider, dir)]
           made == CHOOSE f : Is(f)
<1>1. ResolveMemory(s, dir)
        = IF s.runtime.delegation_context = "plan_section"
          THEN AddPlanSection(made[n], s.runtime.plan_section_selector, dir) ELSE made[n]
  BY DEF ResolveMemory, Loop
<1>2. \A x \in X : x.kind \in MemoryKinds /\ (x.kind = "glob" => x.matches \in Seq(STRING))
  OBVIOUS
<1>3. \A i \in 1 .. n : list[i] \in X
  OBVIOUS
<1>4. \A a \in M, x \in X : AddSource(a, x, s.provider, dir) \in M
  <2> HIDE DEF X
  <2> QED BY <1>2, SourceSays
<1>5. by \in [M \X X -> M]
  BY <1>4
<1>6. NoMemory \in M
  BY NothingIsSaid
<1> HIDE DEF list
<1>7. \E f : Is(f)
  <2>1. \A a \in M, x \in X : by[<<a, x>>] = AddSource(a, x, s.provider, dir)
    OBVIOUS
  <2> HIDE DEF by, M, X
  <2>2. PICK f : MadeBy(by, NoMemory, list, n, M, f)
    BY <1>3, <1>5, <1>6, LoopExists
  <2>3. \A i \in 1 .. n : i - 1 \in 0 .. n
    OBVIOUS
  <2>4. \A i \in 1 .. n : f[i] = AddSource(f[i - 1], list[i], s.provider, dir)
    BY <1>3, <2>1, <2>2, <2>3 DEF MadeBy
  <2>5. \A i \in 0 .. n : i = 0 \/ i \in 1 .. n
    OBVIOUS
  <2>6. f[0] = NoMemory /\ f = [i \in 0 .. n |-> f[i]]
    BY <2>2 DEF MadeBy
  <2>7. \A i \in 0 .. n :
          f[i] = IF i = 0 THEN NoMemory ELSE AddSource(f[i - 1], list[i], s.provider, dir)
    BY <2>4, <2>5, <2>6
  <2>8. Is(f)
    BY <2>6, <2>7
  <2> QED BY <2>8
<1>8. Is(made)
  BY <1>7
<1> HIDE DEF made
<1>9. /\ made[0] = NoMemory
      /\ \A i \in 1 .. n : made[i] = AddSource(made[i - 1], list[i], s.provider, dir)
  BY <1>8
<1> HIDE DEF M, X
<1>10. \A i \in 1 .. n : made[i - 1] \in M => made[i] \in M
  BY <1>3, <1>4, <1>9
<1>11. \A i \in 0 .. n : made[i] \in M
  BY <1>6, <1>9, <1>10, LoopStays
<1>12. made[n] \in M
  BY <1>11
<1> QED BY <1>1, <1>12, SectionSays, OnceIsEnough DEF M

(* A request has read its memory once, in its workspace, or not at all.    *)
MemoryInv == SaysAgain(memory)

LEMMA ReadingSays ==
  ASSUME GateInv, phase = "in_workspace", memory' = ResolveMemory(effective, workspace.dir)
  PROVE  SaysAgain(memory)'
<1> DEFINE sources == agent.runtime.memory_sources
<1>1. accepted = Prepared(setting) /\ accepted.error = "none" /\ SettingIsGiven
  BY DEF GateInv, Gate
<1>2. AgentOf(Prepared(setting)) = agent
  BY <1>1 DEF agent, AgentOf
<1>3. /\ DOMAIN agent = DOMAIN DefaultSpec /\ DOMAIN agent.runtime = DOMAIN DefaultRuntime
      /\ sources \in Seq(Range(sources))
      /\ \A source \in Range(sources) :
           /\ source.kind \in MemoryKinds
           /\ source.kind = "glob" => source.matches \in Seq(STRING)
  BY <1>1, <1>2, AgentsAssumption DEF SettingIsGiven, MemoryKinds
<1>4. effective.runtime.memory_sources = sources
  BY <1>3, EffectiveAsAgent DEF effective
<1> HIDE DEF sources
<1>5. Len(sources) \in Nat /\ \A i \in 1 .. Len(sources) : sources[i] \in Range(sources)
  BY <1>3 DEF Range
<1>6. SaysAgain(ResolveMemory(effective, workspace.dir))
  BY <1>3, <1>4, <1>5, ResolvingSays
<1>7. SaysAgain(memory')
  BY <1>6
<1> QED BY <1>7 DEF SaysAgain, Inlined, Whole

LEMMA OnlyReadingReads ==
  ASSUME [RequestNext]_<<requestVars, vars>>
  PROVE  ReadMemory \/ UNCHANGED memory
<1>1. CASE RefuseRequest \/ Accept \/ ProbeProvider \/ MakeWorkspace
  BY <1>1 DEF RefuseRequest, Accept, ProbeProvider, MakeWorkspace
<1>2. CASE FailGate \/ Compile \/ Call \/ CallError
  BY <1>2 DEF FailGate, Compile, Call, CallError
<1>3. CASE \E answer \in Possible : CallAgain(answer) \/ Answer(answer)
  BY <1>3 DEF CallAgain, Answer
<1>4. CASE \E warns \in BOOLEAN : Beat(warns)
  BY <1>4 DEF Beat
<1>5. CASE Cancel \/ Settle \/ Save \/ Restart
  BY <1>5 DEF Cancel, Settle, Save, Restart
<1>6. CASE Wait \/ RequestOver \/ UNCHANGED <<requestVars, vars>>
  BY <1>6 DEF Wait, RequestOver, requestVars
<1> QED BY <1>1, <1>2, <1>3, <1>4, <1>5, <1>6 DEF RequestNext

(* THEOREM: no file is given to a provider twice, and of the plan at most  *)
(* the section that the delegation asks for.                               *)
THEOREM RequestSaysOnce == RequestSpec => []MemoryIsSaidOnce
<1>1. RequestInit => MemoryInv
  BY NothingIsSaid, OnceIsEnough DEF RequestInit, MemoryInv
<1>2. ASSUME GateInv, MemoryInv, [RequestNext]_<<requestVars, vars>> PROVE MemoryInv'
  <2>1. CASE UNCHANGED memory
    BY <1>2, <2>1 DEF MemoryInv, SaysAgain, Inlined, Whole
  <2>2. CASE ReadMemory
    BY <1>2, <2>2, ReadingSays DEF ReadMemory, MemoryInv
  <2>3. ReadMemory \/ UNCHANGED memory
    BY <1>2, OnlyReadingReads
  <2> QED BY <2>1, <2>2, <2>3
<1>3. MemoryInv => MemoryIsSaidOnce
  BY DEF MemoryInv, SaysAgain, MemoryIsSaidOnce
<1> QED BY <1>1, <1>2, <1>3, CallsPassTheGate, PTL DEF RequestSpec

--------------------------------------------------------------------------------
(* A block is open where a sentinel was read and nothing has closed it.    *)
Unclosed(tokens, i) ==
  \E k \in 1 .. i : tokens[k] = "START" /\ \A e \in k .. i : tokens[e] # "END"

LEMMA UnclosedUnfolds ==
  ASSUME NEW tokens, NEW i \in Nat
  PROVE  /\ ~Unclosed(tokens, 0)
         /\ Unclosed(tokens, i + 1) <=>
              tokens[i + 1] # "END" /\ (tokens[i + 1] = "START" \/ Unclosed(tokens, i))
<1>1. ~Unclosed(tokens, 0)
  BY DEF Unclosed
<1>2. ASSUME Unclosed(tokens, i + 1)
      PROVE  tokens[i + 1] # "END" /\ (tokens[i + 1] = "START" \/ Unclosed(tokens, i))
  <2>1. PICK k \in 1 .. i + 1 : tokens[k] = "START" /\ \A e \in k .. i + 1 : tokens[e] # "END"
    BY <1>2 DEF Unclosed
  <2>2. tokens[i + 1] # "END"
    BY <2>1
  <2>3. CASE k = i + 1
    BY <2>1, <2>2, <2>3
  <2>4. CASE k # i + 1
    <3>1. k \in 1 .. i /\ \A e \in k .. i : tokens[e] # "END"
      BY <2>1, <2>4
    <3> QED BY <2>1, <2>2, <3>1 DEF Unclosed
  <2> QED BY <2>3, <2>4
<1>3. ASSUME tokens[i + 1] # "END", tokens[i + 1] = "START" PROVE Unclosed(tokens, i + 1)
  <2>1. i + 1 \in 1 .. i + 1 /\ \A e \in i + 1 .. i + 1 : tokens[e] # "END"
    BY <1>3
  <2> QED BY <1>3, <2>1 DEF Unclosed
<1>4. ASSUME tokens[i + 1] # "END", Unclosed(tokens, i) PROVE Unclosed(tokens, i + 1)
  <2>1. PICK k \in 1 .. i : tokens[k] = "START" /\ \A e \in k .. i : tokens[e] # "END"
    BY <1>4 DEF Unclosed
  <2>2. k \in 1 .. i + 1 /\ \A e \in k .. i + 1 : tokens[e] # "END"
    <3>1. \A e \in k .. i + 1 : e \in k .. i \/ e = i + 1
      OBVIOUS
    <3> QED BY <1>4, <2>1, <3>1
  <2> QED BY <2>1, <2>2 DEF Unclosed
<1> QED BY <1>1, <1>2, <1>3, <1>4

LEMMA OpeningIsNotOpen ==
  ASSUME NEW tokens, NEW i \in Nat
  PROVE  Opens(tokens, i + 1) <=> tokens[i + 1] = "START" /\ ~Unclosed(tokens, i)
<1>1. (i + 1) - 1 = i
  OBVIOUS
<1> QED BY <1>1 DEF Opens, Unclosed

(* What the scan has found of the first i tokens, in the terms of their    *)
(* places: the objects that stand alone in a block that has been closed.   *)
Wrapped == {<<object>> : object \in Objects}
AloneUpTo(tokens, i) ==
  {m \in 2 .. i - 1 : tokens[m] \in Objects /\ Opens(tokens, m - 1) /\ tokens[m + 1] = "END"}
FindsFirst(found, tokens, S) ==
  \/ S = {} /\ found = <<>>
  \/ \E m \in S : (\A j \in S : m <= j) /\ found # <<>> /\ found[1] = <<tokens[m]>>
Scans(V) == [open : BOOLEAN, block : Seq(V), blocks : Seq(Seq(V))]
ScanIs(scan, tokens, i) ==
  /\ scan.open <=> Unclosed(tokens, i)
  /\ scan.open => /\ scan.block = <<>> <=> Opens(tokens, i)
                  /\ scan.block \in Wrapped <=>
                       i >= 2 /\ tokens[i] \in Objects /\ Opens(tokens, i - 1)
                  /\ scan.block \in Wrapped => scan.block = <<tokens[i]>>
  /\ FindsFirst(Keep(scan.blocks, Wrapped), tokens, AloneUpTo(tokens, i))

LEMMA NothingReadIs ==
  ASSUME NEW V, NEW tokens
  PROVE  NothingRead \in Scans(V) /\ ScanIs(NothingRead, tokens, 0)
<1>1. /\ NothingRead.open = FALSE /\ NothingRead.block = <<>> /\ NothingRead.blocks = <<>>
      /\ NothingRead \in Scans(V)
  BY EmptySeq DEF NothingRead, Scans
<1>2. Keep(NothingRead.blocks, Wrapped) = <<>> /\ AloneUpTo(tokens, 0) = {}
  BY <1>1, KeepEmpty DEF AloneUpTo
<1> QED BY <1>1, <1>2, UnclosedUnfolds DEF ScanIs, FindsFirst

LEMMA TokenIsRead ==
  ASSUME NEW V, NEW scan \in Scans(V), NEW token \in V
  PROVE  LET next == ReadToken(scan, token) IN
         /\ next \in Scans(V)
         /\ next.open <=> token # "END" /\ (token = "START" \/ scan.open)
         /\ next.open => next.block = IF scan.open THEN Append(scan.block, token) ELSE <<>>
         /\ next.blocks = IF scan.open /\ token = "END" THEN Append(scan.blocks, scan.block)
                          ELSE scan.blocks
<1>1. /\ scan.open \in BOOLEAN /\ scan.block \in Seq(V) /\ scan.blocks \in Seq(Seq(V))
  BY DEF Scans
<1>2. Append(scan.block, token) \in Seq(V) /\ <<>> \in Seq(V)
  BY <1>1
<1>3. Append(scan.blocks, scan.block) \in Seq(Seq(V))
  BY <1>1, AppendProperties
<1>4. CASE ~scan.open /\ token = "START"
  <2>1. ReadToken(scan, token) = [scan EXCEPT !.open = TRUE, !.block = <<>>]
    BY <1>4 DEF ReadToken
  <2> QED BY <1>1, <1>2, <1>4, <2>1 DEF Scans
<1>5. CASE scan.open /\ token = "END"
  <2>1. ReadToken(scan, token)
          = [scan EXCEPT !.open = FALSE, !.blocks = Append(@, scan.block)]
    BY <1>5 DEF ReadToken
  <2> QED BY <1>1, <1>3, <1>5, <2>1 DEF Scans
<1>6. CASE scan.open /\ token # "END"
  <2>1. ReadToken(scan, token) = [scan EXCEPT !.block = Append(@, token)]
    BY <1>6 DEF ReadToken
  <2> QED BY <1>1, <1>2, <1>6, <2>1 DEF Scans
<1>7. CASE ~scan.open /\ token # "START"
  <2>1. ReadToken(scan, token) = scan
    BY <1>7 DEF ReadToken
  <2> QED BY <1>7, <2>1
<1> QED BY <1>1, <1>4, <1>5, <1>6, <1>7

(* An object alone is one more, where an end follows it.                   *)
LEMMA OneMoreAlone ==
  ASSUME NEW tokens, NEW i \in Nat
  PROVE  AloneUpTo(tokens, i + 1)
           = AloneUpTo(tokens, i) \cup
             {m \in {i} : /\ i >= 2 /\ tokens[i] \in Objects /\ Opens(tokens, i - 1)
                          /\ tokens[i + 1] = "END"}
<1>1. \A m : m \in 2 .. (i + 1) - 1 <=> m \in 2 .. i - 1 \/ (m = i /\ i >= 2)
  OBVIOUS
<1> QED BY <1>1 DEF AloneUpTo

LEMMA AppendIsOne ==
  ASSUME NEW V, NEW s \in Seq(V), NEW x \in V, NEW y
  PROVE  Append(s, x) = <<y>> <=> s = <<>> /\ y = x
<1>1. Len(Append(s, x)) = Len(s) + 1 /\ Append(s, x)[Len(s) + 1] = x /\ Len(s) \in Nat
  BY AppendProperties, LenProperties
<1>2. Len(<<y>>) = 1 /\ <<y>>[1] = y
  OBVIOUS
<1>3. ASSUME Append(s, x) = <<y>> PROVE s = <<>> /\ y = x
  <2>1. Len(s) = 0
    BY <1>1, <1>2, <1>3
  <2> QED BY <1>1, <1>2, <1>3, <2>1, EmptySeq
<1>4. s = <<>> => Append(s, x) = <<x>>
  OBVIOUS
<1> QED BY <1>3, <1>4

LEMMA WrappedByOne ==
  ASSUME NEW V, NEW s \in Seq(V), NEW x \in V
  PROVE  Append(s, x) \in Wrapped <=> s = <<>> /\ x \in Objects
<1>1. \A y : Append(s, x) = <<y>> <=> s = <<>> /\ y = x
  <2> TAKE y
  <2> QED BY AppendIsOne
<1> QED BY <1>1 DEF Wrapped

LEMMA ScanGoesOn ==
  ASSUME NEW tokens, NEW i \in Nat, NEW V, NEW scan \in Scans(V), ScanIs(scan, tokens, i),
         tokens[i + 1] \in V
  PROVE  ScanIs(ReadToken(scan, tokens[i + 1]), tokens, i + 1)
<1> DEFINE token == tokens[i + 1]
           next == ReadToken(scan, token)
           block == scan.block
           blocks == scan.blocks
           found == Keep(blocks, Wrapped)
           texts == Seq(V)
<1>1. /\ next \in Scans(V)
      /\ next.open <=> token # "END" /\ (token = "START" \/ scan.open)
      /\ next.open => next.block = IF scan.open THEN Append(block, token) ELSE <<>>
      /\ next.blocks = IF scan.open /\ token = "END" THEN Append(scan.blocks, block)
                       ELSE scan.blocks
  BY TokenIsRead
<1>2. block \in Seq(V) /\ scan.blocks \in Seq(Seq(V)) /\ scan.open \in BOOLEAN
  BY DEF Scans
<1>3. (i + 1) - 1 = i /\ (i + 1 >= 2 <=> i # 0)
  OBVIOUS
<1>4. Opens(tokens, i + 1) <=> token = "START" /\ ~scan.open
  BY OpeningIsNotOpen DEF ScanIs
<1>5. Keep(Append(blocks, block), Wrapped)
        = IF block \in Wrapped THEN Append(found, block) ELSE found
  <2>1. blocks \in Seq(texts) /\ block \in texts
    BY <1>2
  <2> HIDE DEF blocks, block, texts, found
  <2>2. Keep(Append(blocks, block), Wrapped)
          = IF block \in Wrapped THEN Append(Keep(blocks, Wrapped), block)
            ELSE Keep(blocks, Wrapped)
    BY <2>1, KeepAppend
  <2> QED BY <2>2 DEF found
<1> HIDE DEF next
<1>6. next.open <=> Unclosed(tokens, i + 1)
  BY <1>1, UnclosedUnfolds DEF ScanIs
<1>7. ASSUME next.open
      PROVE  /\ next.block = <<>> <=> Opens(tokens, i + 1)
             /\ next.block \in Wrapped <=>
                  i + 1 >= 2 /\ token \in Objects /\ Opens(tokens, i)
             /\ next.block \in Wrapped => next.block = <<token>>
  <2>1. CASE scan.open
    <3>1. next.block = Append(block, token) /\ next.block # <<>>
      BY <1>1, <1>2, <1>7, <2>1
    <3>2. ~Opens(tokens, i + 1)
      BY <1>4, <2>1
    <3>4. next.block \in Wrapped <=> block = <<>> /\ token \in Objects
      <4>1. block \in Seq(V) /\ token \in V
        BY <1>2
      <4> HIDE DEF block, token
      <4>2. Append(block, token) \in Wrapped <=> block = <<>> /\ token \in Objects
        BY <4>1, WrappedByOne
      <4> QED BY <3>1, <4>2
    <3>5. block = <<>> <=> Opens(tokens, i)
      BY <2>1 DEF ScanIs
    <3>6. block = <<>> => i # 0
      <4>1. ~Unclosed(tokens, 0) /\ Unclosed(tokens, i)
        BY <2>1, UnclosedUnfolds DEF ScanIs
      <4> QED BY <4>1
    <3>7. block = <<>> => Append(block, token) = <<token>>
      OBVIOUS
    <3> QED BY <1>3, <3>1, <3>2, <3>4, <3>5, <3>6, <3>7
  <2>2. CASE ~scan.open
    <3>1. token = "START" /\ next.block = <<>>
      BY <1>1, <1>7, <2>2
    <3>2. token \notin Objects
      BY <3>1 DEF Objects
    <3>3. next.block \notin Wrapped
      BY <3>1 DEF Wrapped
    <3> QED BY <1>4, <2>2, <3>1, <3>2, <3>3
  <2> QED BY <2>1, <2>2
<1>8. FindsFirst(Keep(next.blocks, Wrapped), tokens, AloneUpTo(tokens, i + 1))
  <2> DEFINE isAlone == i >= 2 /\ tokens[i] \in Objects /\ Opens(tokens, i - 1)
             S == AloneUpTo(tokens, i)
  <2>1. AloneUpTo(tokens, i + 1) = S \cup {m \in {i} : isAlone /\ token = "END"}
    BY OneMoreAlone
  <2>2. FindsFirst(found, tokens, S)
    BY DEF ScanIs
  <2>3. CASE ~(isAlone /\ token = "END")
    <3>1. AloneUpTo(tokens, i + 1) = S
      BY <2>1, <2>3
    <3>2. scan.open /\ token = "END" => block \notin Wrapped
      BY <2>3 DEF ScanIs
    <3>4. Keep(next.blocks, Wrapped) = found
      BY <1>1, <1>5, <3>2
    <3> QED BY <2>2, <3>1, <3>4
  <2>4. CASE isAlone /\ token = "END"
    <3>1. AloneUpTo(tokens, i + 1) = S \cup {i}
      BY <2>1, <2>4
    <3>2. scan.open
      <4>1. /\ i - 1 \in Nat /\ (i - 1) + 1 = i /\ i - 2 \in Nat /\ (i - 2) + 1 = i - 1
            /\ tokens[i - 1] = "START" /\ tokens[i] # "END"
        BY <2>4 DEF Opens, Objects
      <4>2. Unclosed(tokens, (i - 2) + 1)
        <5>1. tokens[(i - 2) + 1] = "START"
          BY <4>1
        <5> QED BY <4>1, <5>1, UnclosedUnfolds
      <4>3. Unclosed(tokens, (i - 1) + 1)
        <5>1. Unclosed(tokens, i - 1) /\ tokens[(i - 1) + 1] # "END"
          BY <4>1, <4>2
        <5> QED BY <4>1, <5>1, UnclosedUnfolds
      <4>4. Unclosed(tokens, i)
        BY <4>1, <4>3
      <4> QED BY <4>4 DEF ScanIs
    <3>3. block \in Wrapped /\ block = <<tokens[i]>>
      BY <2>4, <3>2 DEF ScanIs
    <3>4. Keep(next.blocks, Wrapped) = Append(found, block)
      BY <1>1, <1>5, <2>4, <3>2, <3>3
    <3>5. found \in Seq(Seq(V))
      BY <1>2, KeepTyped
    <3>6. \A m \in S : m <= i
      BY DEF AloneUpTo
    <3>7. i \in Int
      OBVIOUS
    <3> HIDE DEF found, S, block
    <3>8. CASE S = {} /\ found = <<>>
      <4>1. Append(found, block) # <<>> /\ Append(found, block)[1] = <<tokens[i]>>
        BY <3>3, <3>8
      <4>2. \A j \in {i} : i <= j
        OBVIOUS
      <4> QED BY <3>1, <3>4, <3>8, <4>1, <4>2 DEF FindsFirst
    <3>9. ASSUME NEW m \in S, \A j \in S : m <= j, found # <<>>, found[1] = <<tokens[m]>>
          PROVE  FindsFirst(Append(found, block), tokens, S \cup {i})
      <4>1. Append(found, block) # <<>> /\ Append(found, block)[1] = found[1]
        <5>1. block \in texts /\ found \in Seq(texts)
          BY <1>2, <3>5 DEF block
        <5> HIDE DEF texts
        <5> QED BY <3>9, <5>1, AppendProperties, EmptySeq
      <4>2. \A j \in S \cup {i} : m <= j
        BY <3>6, <3>9
      <4> QED BY <3>9, <4>1, <4>2 DEF FindsFirst
    <3> QED BY <2>2, <3>1, <3>4, <3>8, <3>9 DEF FindsFirst
  <2> QED BY <2>3, <2>4
<1> QED BY <1>3, <1>6, <1>7, <1>8 DEF ScanIs, next

LEMMA BlocksAreFound ==
  ASSUME NEW V, NEW tokens \in Seq(V)
  PROVE  /\ Blocks(tokens) \in Seq(Seq(V))
         /\ FindsFirst(Keep(Blocks(tokens), Wrapped), tokens, Alone(tokens))
<1> DEFINE M == {scan \in Scans(V) : TRUE}
           n == Len(tokens)
           by == [x \in M \X V |-> ReadToken(x[1], x[2])]
           Is(f) == f = [i \in 0 .. n |-> IF i = 0 THEN NothingRead
                                          ELSE ReadToken(f[i - 1], tokens[i])]
           scan == CHOOSE f : Is(f)
<1>1. n \in Nat /\ \A i \in 1 .. n : tokens[i] \in V
  OBVIOUS
<1>2. Blocks(tokens) = scan[n].blocks
  BY DEF Blocks, Loop
<1>3. \A a \in M, x \in V : ReadToken(a, x) \in M
  BY TokenIsRead
<1>4. by \in [M \X V -> M]
  BY <1>3
<1>5. NothingRead \in M
  BY NothingReadIs
<1> HIDE DEF n
<1>6. \E f : Is(f)
  <2>1. \A a \in M, x \in V : by[<<a, x>>] = ReadToken(a, x)
    OBVIOUS
  <2> HIDE DEF by, M
  <2>2. PICK f : MadeBy(by, NothingRead, tokens, n, M, f)
    BY <1>1, <1>4, <1>5, LoopExists
  <2>3. \A i \in 1 .. n : i - 1 \in 0 .. n
    BY <1>1
  <2>4. \A i \in 1 .. n : f[i] = ReadToken(f[i - 1], tokens[i])
    BY <1>1, <2>1, <2>2, <2>3 DEF MadeBy
  <2>5. \A i \in 0 .. n : i = 0 \/ i \in 1 .. n
    BY <1>1
  <2>6. f[0] = NothingRead /\ f = [i \in 0 .. n |-> f[i]]
    BY <2>2 DEF MadeBy
  <2>7. \A i \in 0 .. n : f[i] = IF i = 0 THEN NothingRead ELSE ReadToken(f[i - 1], tokens[i])
    BY <2>4, <2>5, <2>6
  <2>8. Is(f)
    BY <2>6, <2>7
  <2> QED BY <2>8
<1>7. Is(scan)
  BY <1>6
<1> HIDE DEF scan
<1>8. scan[0] = NothingRead /\ \A i \in 1 .. n : scan[i] = ReadToken(scan[i - 1], tokens[i])
  BY <1>1, <1>7
<1> DEFINE T == {i \in Nat : i <= n => scan[i] \in Scans(V) /\ ScanIs(scan[i], tokens, i)}
<1>9. 0 \in T
  BY <1>8, NothingReadIs
<1>10. \A i \in Nat : i \in T => i + 1 \in T
  <2> SUFFICES ASSUME NEW i \in Nat, i + 1 <= n,
                      scan[i] \in Scans(V), ScanIs(scan[i], tokens, i)
               PROVE  scan[i + 1] \in Scans(V) /\ ScanIs(scan[i + 1], tokens, i + 1)
    BY <1>1
  <2>1. i + 1 \in 1 .. n /\ (i + 1) - 1 = i
    BY <1>1
  <2>2. scan[i + 1] = ReadToken(scan[i], tokens[i + 1]) /\ tokens[i + 1] \in V
    BY <1>1, <1>8, <2>1
  <2> QED BY <2>2, ScanGoesOn, TokenIsRead
<1>11. n \in T
  <2> HIDE DEF T
  <2> QED BY <1>1, <1>9, <1>10, NatInSet
<1>12. AloneUpTo(tokens, n) = Alone(tokens)
  BY DEF AloneUpTo, Alone, n
<1> QED BY <1>1, <1>2, <1>11, <1>12 DEF ScanIs, Scans

LEMMA SentinelsAreFound ==
  ASSUME NEW V, NEW tokens \in Seq(V)
  PROVE  Sentinels(tokens) \in Seq(Seq(V)) /\ FindsFirst(Sentinels(tokens), tokens, Alone(tokens))
<1> DEFINE blocks == Blocks(tokens)
           full == Range(blocks) \ {<<>>, <<"placeholder">>}
           texts == Seq(V)
<1>1. blocks \in Seq(texts) /\ FindsFirst(Keep(blocks, Wrapped), tokens, Alone(tokens))
  BY BlocksAreFound
<1>2. Sentinels(tokens) = Keep(Keep(blocks, full), Wrapped)
  BY DEF Sentinels, Candidates, Wrapped
<1>3. \A w \in Wrapped : w # <<>> /\ w # <<"placeholder">>
  <2>1. \A object \in Objects : <<object>> # <<>> /\ object # "placeholder"
    BY DEF Objects
  <2> QED BY <2>1 DEF Wrapped
<1> HIDE DEF blocks, texts
<1>4. \A i \in 1 .. Len(blocks) : blocks[i] \in full \cap Wrapped <=> blocks[i] \in Wrapped
  <2>1. \A i \in 1 .. Len(blocks) : blocks[i] \in Range(blocks)
    BY <1>1 DEF Range
  <2> QED BY <1>3, <2>1
<1>5. Keep(Keep(blocks, full), Wrapped) = Keep(blocks, full \cap Wrapped)
  BY <1>1, KeepTwice
<1>6. Keep(blocks, full \cap Wrapped) = Keep(blocks, Wrapped)
  <2> HIDE DEF full
  <2> QED BY <1>1, <1>4, KeepSame
<1>7. Keep(blocks, Wrapped) \in Seq(texts)
  BY <1>1, KeepTyped
<1> QED BY <1>1, <1>2, <1>5, <1>6, <1>7 DEF texts

LEMMA BareAreFound ==
  ASSUME NEW V, NEW tokens \in Seq(V)
  PROVE  /\ BareObjects(tokens) \in Seq(V)
         /\ \/ Anywhere(tokens) = {} /\ BareObjects(tokens) = <<>>
            \/ \E m \in Anywhere(tokens) :
                 /\ \A j \in Anywhere(tokens) : m <= j
                 /\ BareObjects(tokens) # <<>> /\ BareObjects(tokens)[1] = tokens[m]
<1>1. BareObjects(tokens) \in Seq(V)
  BY KeepTyped DEF BareObjects
<1>2. \/ (\A i \in 1 .. Len(tokens) : tokens[i] \notin Objects) /\ BareObjects(tokens) = <<>>
      \/ \E i \in 1 .. Len(tokens) :
           /\ tokens[i] \in Objects /\ \A j \in 1 .. Len(tokens) : tokens[j] \in Objects => i <= j
           /\ BareObjects(tokens) # <<>> /\ BareObjects(tokens)[1] = tokens[i]
  BY KeepFirst DEF BareObjects
<1>3. \A i : i \in Anywhere(tokens) <=> i \in 1 .. Len(tokens) /\ tokens[i] \in Objects
  BY DEF Anywhere
<1>4. CASE (\A i \in 1 .. Len(tokens) : tokens[i] \notin Objects) /\ BareObjects(tokens) = <<>>
  <2>1. Anywhere(tokens) = {}
    BY <1>3, <1>4
  <2> QED BY <1>1, <1>4, <2>1
<1>5. ASSUME NEW i \in 1 .. Len(tokens), tokens[i] \in Objects,
             \A j \in 1 .. Len(tokens) : tokens[j] \in Objects => i <= j,
             BareObjects(tokens) # <<>>, BareObjects(tokens)[1] = tokens[i]
      PROVE  \E m \in Anywhere(tokens) :
               /\ \A j \in Anywhere(tokens) : m <= j
               /\ BareObjects(tokens) # <<>> /\ BareObjects(tokens)[1] = tokens[m]
  <2>1. i \in Anywhere(tokens) /\ \A j \in Anywhere(tokens) : i <= j
    BY <1>3, <1>5
  <2> QED BY <1>5, <2>1
<1> QED BY <1>1, <1>2, <1>4, <1>5

(* The first element of two lists, one after the other.                    *)
LEMMA FirstOfBoth ==
  ASSUME NEW V, NEW s \in Seq(V), NEW t \in Seq(V)
  PROVE  /\ s \o t = <<>> <=> s = <<>> /\ t = <<>>
         /\ s # <<>> => (s \o t)[1] = s[1]
         /\ s = <<>> => s \o t = t
<1>1. /\ s \o t \in Seq(V) /\ Len(s \o t) = Len(s) + Len(t) /\ Len(s) \in Nat /\ Len(t) \in Nat
      /\ \A i \in 1 .. Len(s) : (s \o t)[i] = s[i]
  BY ConcatProperties, LenProperties
<1>2. \A u \in Seq(V) : u = <<>> <=> Len(u) = 0
  BY EmptySeq
<1>3. s # <<>> => 1 \in 1 .. Len(s)
  BY <1>1, <1>2
<1> QED BY <1>1, <1>2, <1>3, ConcatEmptySeq

(* The summary that is made of two streams.                                *)
LEMMA SummaryOfStreams ==
  ASSUME NEW V, printed.stdout \in Seq(V), printed.stderr \in Seq(V), phase = "settled"
  PROVE  SummaryIsFound
<1> DEFINE out == printed.stdout
           err == printed.stderr
           wrapped == Sentinels(out) \o Sentinels(err)
           bare == BareObjects(out) \o BareObjects(err)
           parsed == ParseSummaryContract(out, err)
           texts == Seq(V)
<1>1. /\ Sentinels(out) \in Seq(texts) /\ Sentinels(err) \in Seq(texts)
      /\ FindsFirst(Sentinels(out), out, Alone(out))
      /\ FindsFirst(Sentinels(err), err, Alone(err))
  BY SentinelsAreFound
<1>2. /\ BareObjects(out) \in Seq(V) /\ BareObjects(err) \in Seq(V)
      /\ Anywhere(out) = {} <=> BareObjects(out) = <<>>
      /\ Anywhere(err) = {} <=> BareObjects(err) = <<>>
  BY BareAreFound
<1>3. /\ wrapped = <<>> <=> Alone(out) = {} /\ Alone(err) = {}
      /\ Alone(out) # {} => wrapped[1] = Sentinels(out)[1]
      /\ Alone(out) = {} => wrapped = Sentinels(err)
  <2>1. /\ Sentinels(out) = <<>> <=> Alone(out) = {}
        /\ Sentinels(err) = <<>> <=> Alone(err) = {}
    BY <1>1 DEF FindsFirst
  <2> HIDE DEF texts
  <2> QED BY <1>1, <2>1, FirstOfBoth
<1>4. /\ bare = <<>> <=> Anywhere(out) = {} /\ Anywhere(err) = {}
      /\ Anywhere(out) # {} => bare[1] = BareObjects(out)[1]
      /\ Anywhere(out) = {} => bare = BareObjects(err)
  BY <1>2, FirstOfBoth
<1>5. ASSUME NEW tokens \in Seq(V), Alone(tokens) # {}
      PROVE  /\ Sentinels(tokens)[1][1] = FirstIn(Alone, tokens)
             /\ FirstIn(Alone, tokens) \in Objects
  <2>1. PICK m \in Alone(tokens) :
          (\A j \in Alone(tokens) : m <= j) /\ Sentinels(tokens)[1] = <<tokens[m]>>
    BY <1>5, SentinelsAreFound DEF FindsFirst
  <2>2. Alone(tokens) \subseteq Int /\ tokens[m] \in Objects
    BY DEF Alone
  <2>3. (CHOOSE i \in Alone(tokens) : \A j \in Alone(tokens) : i <= j) = m
    BY <2>1, <2>2
  <2> QED BY <2>1, <2>2, <2>3 DEF FirstIn
<1>6. ASSUME NEW tokens \in Seq(V), Anywhere(tokens) # {}
      PROVE  /\ BareObjects(tokens)[1] = FirstIn(Anywhere, tokens)
             /\ FirstIn(Anywhere, tokens) \in Objects
  <2>1. PICK m \in Anywhere(tokens) :
          (\A j \in Anywhere(tokens) : m <= j) /\ BareObjects(tokens)[1] = tokens[m]
    BY <1>6, BareAreFound
  <2>2. Anywhere(tokens) \subseteq Int /\ tokens[m] \in Objects
    BY DEF Anywhere
  <2>3. (CHOOSE i \in Anywhere(tokens) : \A j \in Anywhere(tokens) : i <= j) = m
    BY <2>1, <2>2
  <2> QED BY <2>1, <2>2, <2>3 DEF FirstIn
<1>7. Alone(out) \subseteq Anywhere(out) /\ Alone(err) \subseteq Anywhere(err)
  <2>1. ASSUME NEW tokens \in Seq(V) PROVE Alone(tokens) \subseteq Anywhere(tokens)
    BY DEF Alone, Anywhere
  <2> QED BY <2>1
<1>8. "fallback" \notin Objects
  BY DEF Objects
<1> HIDE DEF wrapped, bare, parsed, texts
<1>9. CASE Alone(out) \cup Alone(err) # {}
  <2>1. parsed.status = "validated" /\ parsed.report = wrapped[1][1]
    BY <1>3, <1>9 DEF ParseSummaryContract, Parsed, parsed, wrapped
  <2>2. parsed.report = FirstOfStreams(Alone) /\ parsed.report \in Objects
    BY <1>1, <1>3, <1>5, <1>9, <2>1 DEF FirstOfStreams
  <2>3. Anywhere(out) \cup Anywhere(err) # {}
    BY <1>7, <1>9
  <2> QED BY <1>8, <1>9, <2>1, <2>2, <2>3 DEF SummaryIsFound, parsed
<1>10. CASE Alone(out) \cup Alone(err) = {} /\ Anywhere(out) \cup Anywhere(err) # {}
  <2>1. parsed.status = "degraded" /\ parsed.report = bare[1]
    BY <1>3, <1>4, <1>10 DEF ParseSummaryContract, Parsed, parsed, wrapped, bare
  <2>2. parsed.report = FirstOfStreams(Anywhere) /\ parsed.report \in Objects
    BY <1>4, <1>6, <1>10, <2>1 DEF FirstOfStreams
  <2> QED BY <1>8, <1>10, <2>1, <2>2 DEF SummaryIsFound, parsed
<1>11. CASE Alone(out) \cup Alone(err) = {} /\ Anywhere(out) \cup Anywhere(err) = {}
  <2>1. parsed.status # "validated" /\ parsed.report = "fallback"
    BY <1>3, <1>4, <1>11 DEF ParseSummaryContract, Parsed, parsed, wrapped, bare
  <2> QED BY <1>11, <2>1 DEF SummaryIsFound, parsed
<1> QED BY <1>9, <1>10, <1>11

(* What a provider prints are texts.                                       *)
Texts == STRING \cup {"text", "START", "report", "END"}
StreamsInv ==
  /\ printed.stdout \in Seq(Texts) /\ printed.stderr \in Seq(Texts)
  /\ first.stderr \in Seq(Texts)

LEMMA PossibleTexts ==
  ASSUME SettingIsGiven, NEW answer \in Possible
  PROVE  /\ answer.stdout \in Seq(Texts) /\ answer.stderr \in Seq(Texts)
         /\ answer.last_message \in Seq(Texts)
<1>1. \A s \in Seq(STRING) : s \in Seq(Texts)
  BY SeqMonotonic DEF Texts
<1>2. CASE answer \in PossibleAnswers
  BY <1>1, <1>2 DEF PossibleAnswers
<1>3. CASE answer = MockAnswer
  <2>1. /\ answer.stdout = <<"text", "START", "report", "END">>
        /\ answer.stderr = <<>> /\ answer.last_message = <<>>
    BY <1>3 DEF MockAnswer
  <2>2. <<"text", "START", "report", "END">> \in Seq(Texts) /\ <<>> \in Seq(Texts)
    BY DEF Texts
  <2> QED BY <2>1, <2>2
<1> QED BY <1>2, <1>3, PossibleAsTyped

LEMMA AnswersAreTexts ==
  ASSUME SettingIsGiven, StreamsInv, NEW answer \in Possible, Answer(answer)
  PROVE  StreamsInv'
<1> DEFINE stderr == IF phase = "calling_again" THEN MergedStderr(first, answer)
                     ELSE answer.stderr
<1>1. /\ answer.stdout \in Seq(Texts) /\ answer.stderr \in Seq(Texts)
      /\ answer.last_message \in Seq(Texts) /\ first.stderr \in Seq(Texts)
  BY PossibleTexts DEF StreamsInv
<1>2. stderr \in Seq(Texts) /\ <<"text">> \in Seq(Texts)
  <2>1. answer.stderr \o first.stderr \in Seq(Texts)
    BY <1>1, ConcatProperties
  <2>2. <<"text">> \in Seq(Texts)
    BY DEF Texts
  <2> QED BY <1>1, <2>1, <2>2 DEF MergedStderr
<1>3. StdoutOf(agent.provider, answer) \in Seq(Texts)
  <2>1. answer.stdout \o answer.last_message \in Seq(Texts)
    BY <1>1, ConcatProperties
  <2> QED BY <1>1, <2>1 DEF StdoutOf
<1>4. printed' = Execution(agent.provider, answer, stderr) /\ UNCHANGED first
  BY DEF Answer
<1> HIDE DEF stderr
<1>5. printed'.stdout \in Seq(Texts) /\ printed'.stderr \in Seq(Texts)
  BY <1>2, <1>3, <1>4 DEF Execution
<1> QED BY <1>1, <1>4, <1>5 DEF StreamsInv

LEMMA OnlyAnswersPrint ==
  ASSUME [RequestNext]_<<requestVars, vars>>
  PROVE  \/ UNCHANGED <<printed, first>>
         \/ \E answer \in Possible : CallAgain(answer) \/ Answer(answer)
<1>1. CASE RefuseRequest \/ Accept \/ ProbeProvider \/ MakeWorkspace \/ ReadMemory
  BY <1>1 DEF RefuseRequest, Accept, ProbeProvider, MakeWorkspace, ReadMemory
<1>2. CASE FailGate \/ Compile \/ Call \/ CallError
  BY <1>2 DEF FailGate, Compile, Call, CallError
<1>3. CASE \E warns \in BOOLEAN : Beat(warns)
  BY <1>3 DEF Beat
<1>4. CASE Cancel \/ Settle \/ Save \/ Restart
  BY <1>4 DEF Cancel, Settle, Save, Restart
<1>5. CASE Wait \/ RequestOver \/ UNCHANGED <<requestVars, vars>>
  BY <1>5 DEF Wait, RequestOver, requestVars
<1> QED BY <1>1, <1>2, <1>3, <1>4, <1>5 DEF RequestNext

(* THEOREM: the summary of a run is the one its provider wrote.            *)
THEOREM RequestFindsSummary == RequestSpec => []SummaryIsFound
<1>1. RequestInit => StreamsInv
  BY EmptySeq DEF RequestInit, StreamsInv, NoExecution
<1>2. ASSUME GateInv, StreamsInv, [RequestNext]_<<requestVars, vars>> PROVE StreamsInv'
  <2>1. CASE UNCHANGED <<printed, first>>
    BY <1>2, <2>1 DEF StreamsInv
  <2>2. ASSUME NEW answer \in Possible, CallAgain(answer) PROVE StreamsInv'
    <3>1. SettingIsGiven
      BY <1>2 DEF GateInv
    <3>2. first' = answer /\ printed' = printed /\ answer.stderr \in Seq(Texts)
      BY <2>2, <3>1, PossibleTexts DEF CallAgain
    <3> QED BY <1>2, <3>2 DEF StreamsInv
  <2>3. ASSUME NEW answer \in Possible, Answer(answer) PROVE StreamsInv'
    BY <1>2, <2>3, AnswersAreTexts DEF GateInv
  <2>4. \/ UNCHANGED <<printed, first>>
        \/ \E answer \in Possible : CallAgain(answer) \/ Answer(answer)
    BY <1>2, OnlyAnswersPrint
  <2> QED BY <2>1, <2>2, <2>3, <2>4
<1>3. StreamsInv => SummaryIsFound
  <2>1. phase # "settled" => SummaryIsFound
    BY DEF SummaryIsFound
  <2> QED BY <2>1, SummaryOfStreams DEF StreamsInv
<1> QED BY <1>1, <1>2, <1>3, CallsPassTheGate, PTL DEF RequestSpec

--------------------------------------------------------------------------------
(* Sorting by name changes the places only, and keeps the order of those   *)
(* that have the same name.                                                *)
Reorders(at, n) == at \in [1 .. n -> 1 .. n] /\ \A i \in 1 .. n : \E k \in 1 .. n : at[k] = i
SortedAt(s, at, n) ==
  /\ ByName(s) = [k \in 1 .. n |-> s[at[k]]]
  /\ \A k, l \in 1 .. n : k < l /\ s[at[k]].order = s[at[l]].order => at[k] < at[l]

LEMMA ByNameSorts ==
  ASSUME NEW n \in Nat, NEW s, DOMAIN s = 1 .. n, \A i \in 1 .. n : s[i].order \in Nat
  PROVE  \E at : Reorders(at, n) /\ SortedAt(s, at, n)
<1> DEFINE Ahead(i) == {j \in 1 .. n : \/ s[j].order < s[i].order
                                       \/ s[j].order = s[i].order /\ j <= i}
           rank == [i \in 1 .. n |-> Cardinality(Ahead(i))]
           at == [k \in 1 .. n |-> CHOOSE i \in 1 .. n : rank[i] = k]
<1>1. IsFiniteSet(1 .. n) /\ Cardinality(1 .. n) = n
  BY FS_Interval
<1>2. ASSUME NEW i \in 1 .. n, NEW j \in 1 .. n, i # j
      PROVE  \/ Ahead(i) \subseteq Ahead(j) /\ j \notin Ahead(i)
             \/ Ahead(j) \subseteq Ahead(i) /\ i \notin Ahead(j)
  <2>1. CASE s[i].order < s[j].order \/ (s[i].order = s[j].order /\ i < j)
    BY <2>1
  <2>2. CASE s[j].order < s[i].order \/ (s[i].order = s[j].order /\ j < i)
    BY <2>2
  <2> QED BY <1>2, <2>1, <2>2
<1>3. \A i \in 1 .. n : i \in Ahead(i) /\ Ahead(i) \in SUBSET (1 .. n)
  OBVIOUS
<1>4. \A i \in 1 .. n : Cardinality(Ahead(i)) \in 1 .. n
  <2> SUFFICES ASSUME NEW i \in 1 .. n PROVE Cardinality(Ahead(i)) \in 1 .. n
    OBVIOUS
  <2>1. i \in Ahead(i) /\ Ahead(i) \in SUBSET (1 .. n)
    BY <1>3
  <2> HIDE DEF Ahead
  <2>2. IsFiniteSet(Ahead(i)) /\ Cardinality(Ahead(i)) <= n
    BY <1>1, <2>1, FS_Subset
  <2>3. Cardinality(Ahead(i)) \in Nat /\ Cardinality(Ahead(i)) # 0
    BY <2>1, <2>2, FS_CardinalityType, FS_EmptySet
  <2> QED BY <2>2, <2>3
<1>5. ASSUME NEW i \in 1 .. n, NEW j \in 1 .. n, Ahead(i) \subseteq Ahead(j)
      PROVE  /\ Cardinality(Ahead(i)) <= Cardinality(Ahead(j))
             /\ Cardinality(Ahead(i)) = Cardinality(Ahead(j)) => Ahead(i) = Ahead(j)
  <2>1. Ahead(j) \in SUBSET (1 .. n) /\ Ahead(i) \in SUBSET Ahead(j)
    BY <1>3, <1>5
  <2> HIDE DEF Ahead
  <2>2. IsFiniteSet(Ahead(j))
    BY <1>1, <2>1, FS_Subset
  <2> QED BY <2>1, <2>2, FS_Subset
<1>6. ASSUME NEW i \in 1 .. n, NEW j \in 1 .. n, i # j PROVE rank[i] # rank[j]
  <2>1. i \in Ahead(i) /\ j \in Ahead(j)
    BY <1>3
  <2>2. \/ Ahead(i) \subseteq Ahead(j) /\ j \notin Ahead(i)
        \/ Ahead(j) \subseteq Ahead(i) /\ i \notin Ahead(j)
    BY <1>2, <1>6
  <2> HIDE DEF Ahead
  <2> QED BY <1>5, <2>1, <2>2
<1>7. rank \in Injection(1 .. n, 1 .. n)
  <2>1. rank \in [1 .. n -> 1 .. n]
    BY <1>4
  <2> HIDE DEF rank
  <2> QED BY <1>6, <2>1 DEF Injection, IsInjective
<1>8. rank \in Surjection(1 .. n, 1 .. n)
  <2> HIDE DEF rank
  <2> QED BY <1>1, <1>7, FS_Injection
<1>9. \A k \in 1 .. n : \E i \in 1 .. n : rank[i] = k
  <2> HIDE DEF rank
  <2> QED BY <1>8 DEF Surjection
<1>10. \A k \in 1 .. n : at[k] \in 1 .. n /\ rank[at[k]] = k
  <2> HIDE DEF rank
  <2> QED BY <1>9
<1>11. Reorders(at, n)
  <2>1. at \in [1 .. n -> 1 .. n]
    BY <1>10
  <2>2. ASSUME NEW i \in 1 .. n PROVE at[rank[i]] = i /\ rank[i] \in 1 .. n
    <3>1. rank[i] \in 1 .. n
      BY <1>4
    <3>2. at[rank[i]] \in 1 .. n /\ rank[at[rank[i]]] = rank[i]
      BY <1>10, <3>1
    <3> HIDE DEF rank, at
    <3> QED BY <1>6, <3>1, <3>2
  <2> HIDE DEF rank, at
  <2> QED BY <2>1, <2>2 DEF Reorders
<1>12. ByName(s) = [k \in 1 .. n |-> s[at[k]]]
  <2>1. ByName(s) = [k \in 1 .. n |-> s[CHOOSE i \in 1 .. n : Cardinality(Ahead(i)) = k]]
    BY DEF ByName
  <2>2. \A k \in 1 .. n : (CHOOSE i \in 1 .. n : Cardinality(Ahead(i)) = k) = at[k]
    <3>1. \A i \in 1 .. n : rank[i] = Cardinality(Ahead(i))
      OBVIOUS
    <3> TAKE k \in 1 .. n
    <3>2. at[k] = CHOOSE i \in 1 .. n : rank[i] = k
      OBVIOUS
    <3> HIDE DEF rank, Ahead
    <3> QED BY <3>1, <3>2
  <2> HIDE DEF at, Ahead
  <2> QED BY <2>1, <2>2
<1>13. ASSUME NEW k \in 1 .. n, NEW l \in 1 .. n, k < l, s[at[k]].order = s[at[l]].order
       PROVE  at[k] < at[l]
  <2> DEFINE i == at[k]
             j == at[l]
  <2>1. i \in 1 .. n /\ j \in 1 .. n /\ rank[i] = k /\ rank[j] = l
    BY <1>10
  <2>2. rank[i] = Cardinality(Ahead(i)) /\ rank[j] = Cardinality(Ahead(j))
    BY <2>1
  <2> HIDE DEF i, j, rank, at
  <2>3. SUFFICES ASSUME ~(i < j) PROVE FALSE
    BY DEF i, j
  <2>4. s[i].order = s[j].order /\ j <= i
    BY <1>13, <2>1, <2>3 DEF i, j
  <2>5. Ahead(j) \subseteq Ahead(i)
    BY <2>1, <2>4
  <2>6. Cardinality(Ahead(j)) <= Cardinality(Ahead(i))
    BY <1>5, <2>1, <2>5
  <2> HIDE DEF Ahead
  <2> QED BY <1>13, <2>1, <2>2, <2>6
<1> QED BY <1>11, <1>12, <1>13 DEF SortedAt

--------------------------------------------------------------------------------
(* The directories that are configured are those that were meant.          *)
Texted == STRING \cup {""}
Cleaned(dirs) == Keep(dirs, Range(dirs) \ {""})

LEMMA CleanedDirs ==
  ASSUME NEW dirs \in Seq(Texted), Unset \notin Seq(STRING)
  PROVE  /\ Cleaned(dirs) \in Seq(STRING)
         /\ IF \E dir \in Range(dirs) : dir # ""
            THEN Cleaned(dirs) # <<>> /\ NonEmptyDirs(dirs) = Cleaned(dirs)
            ELSE NonEmptyDirs(dirs) = Unset
         /\ Cleaned(dirs) # Unset /\ \A dir \in Range(Cleaned(dirs)) : dir # ""
         /\ Cleaned(Cleaned(dirs)) = Cleaned(dirs)
<1> DEFINE S == Range(dirs) \ {""}
           kept == Keep(dirs, S)
<1>1. kept \in Seq(S) /\ S \subseteq STRING
  <2>1. \A x \in Range(dirs) : x \in Texted
    BY DEF Range
  <2> QED BY <2>1, KeepTyped DEF Texted
<1>2. kept \in Seq(STRING)
  BY <1>1, SeqMonotonic
<1>3. kept # Unset
  BY <1>2
<1>4. /\ \A i \in 1 .. Len(kept) : kept[i] \in S
      /\ DOMAIN kept = 1 .. Len(kept) /\ DOMAIN dirs = 1 .. Len(dirs)
  BY <1>1, ElementOfSeq, LenProperties
<1>5. \A dir \in Range(kept) : dir # ""
  <2> HIDE DEF kept
  <2> QED BY <1>2, <1>4 DEF Range
<1>6. Cleaned(kept) = kept
  <2> HIDE DEF kept
  <2>1. \A i \in 1 .. Len(kept) : kept[i] \in Range(kept) \ {""}
    BY <1>2, <1>4 DEF Range
  <2> DEFINE R == Range(kept) \ {""}
  <2>2. Keep(kept, R) = kept
    <3> HIDE DEF R
    <3> QED BY <1>2, <2>1, KeepAll DEF R
  <2> QED BY <2>2 DEF Cleaned
<1>7. CASE \E dir \in Range(dirs) : dir # ""
  <2>1. PICK i \in 1 .. Len(dirs) : dirs[i] \in S
    BY <1>4, <1>7 DEF Range
  <2>2. \E j \in 1 .. Len(kept) : kept[j] = dirs[i]
    <3> HIDE DEF S
    <3> QED BY <2>1, KeepHasAll
  <2>3. kept # <<>>
    <3> HIDE DEF kept
    <3>1. Len(<<>>) = 0
      OBVIOUS
    <3> QED BY <2>2, <3>1
  <2>4. NonEmptyDirs(dirs) = kept
    BY <2>3 DEF NonEmptyDirs, S
  <2> QED BY <1>2, <1>3, <1>5, <1>6, <1>7, <2>3, <2>4 DEF Cleaned, S
<1>8. CASE ~ \E dir \in Range(dirs) : dir # ""
  <2>1. \A i \in 1 .. Len(dirs) : dirs[i] \notin S
    BY <1>4, <1>8 DEF Range
  <2>2. kept = <<>>
    <3> HIDE DEF S
    <3> QED BY <2>1, KeepNone
  <2>3. NonEmptyDirs(dirs) = Unset
    BY <2>2 DEF NonEmptyDirs
  <2> QED BY <1>2, <1>3, <1>5, <1>6, <1>8, <2>3 DEF Cleaned
<1> QED BY <1>7, <1>8

LEMMA SegmentsAsDirs ==
  ASSUME NEW raw, raw.segments \in Seq(STRING), Unset \notin Seq(STRING)
  PROVE  LET dirs == ParseDirsEnv(raw) IN
         \/ dirs = Unset
         \/ /\ dirs \in Seq(STRING) /\ Cleaned(dirs) = dirs /\ dirs # Unset
            /\ \E dir \in Range(dirs) : dir # ""
<1> DEFINE trimmed == [i \in DOMAIN raw.segments |->
                         IF raw.commas /\ raw.segments[i] = Blank THEN "" ELSE raw.segments[i]]
<1>1. trimmed \in Seq(Texted)
  <2>1. DOMAIN raw.segments = 1 .. Len(raw.segments) /\ Len(raw.segments) \in Nat
    OBVIOUS
  <2>2. \A i \in 1 .. Len(raw.segments) : raw.segments[i] \in STRING
    BY ElementOfSeq
  <2>3. ASSUME NEW i \in 1 .. Len(raw.segments) PROVE trimmed[i] \in Texted
    BY <2>1, <2>2 DEF Texted
  <2>4. trimmed = [i \in 1 .. Len(raw.segments) |-> trimmed[i]]
    BY <2>1
  <2> HIDE DEF trimmed
  <2>5. trimmed \in [1 .. Len(raw.segments) -> Texted]
    BY <2>3, <2>4
  <2> QED BY <2>1, <2>5
<1>2. ParseDirsEnv(raw) = NonEmptyDirs(trimmed)
  BY DEF ParseDirsEnv
<1> HIDE DEF trimmed
<1>3. CASE \E dir \in Range(trimmed) : dir # ""
  <2> DEFINE dirs == Cleaned(trimmed)
  <2>1. /\ dirs \in Seq(STRING) /\ dirs # <<>> /\ NonEmptyDirs(trimmed) = dirs /\ dirs # Unset
        /\ Cleaned(dirs) = dirs /\ \A dir \in Range(dirs) : dir # ""
    BY <1>1, <1>3, CleanedDirs
  <2> HIDE DEF dirs
  <2>2. dirs[1] \in Range(dirs)
    <3>1. 1 \in DOMAIN dirs
      <4>1. Len(dirs) \in Nat \ {0} /\ DOMAIN dirs = 1 .. Len(dirs)
        BY <2>1, EmptySeq, LenProperties
      <4> QED BY <4>1
    <3> QED BY <3>1 DEF Range
  <2> QED BY <1>2, <2>1, <2>2
<1>4. CASE ~ \E dir \in Range(trimmed) : dir # ""
  BY <1>1, <1>2, <1>4, CleanedDirs
<1> QED BY <1>3, <1>4

LEMMA MinIs ==
  ASSUME NEW S, S \subseteq Int, NEW m \in S, \A j \in S : m <= j
  PROVE  Min(S) = m
<1>1. \A x \in S : (\A y \in S : x <= y) => x = m
  OBVIOUS
<1>2. Min(S) = CHOOSE x \in S : \A y \in S : x <= y
  BY DEF Min
<1> QED BY <1>1, <1>2

LEMMA MeantAreConfigured ==
  ASSUME NEW shell, Unset \notin Seq(STRING), Unset # <<"agents">>, Written(shell.cli),
         LET content == shell.configs[ResolveConfigPath(shell.cli_config, shell.env_config,
                                                        shell.configs["project"] # Unset)]
         IN  content \in {Unset, Broken} \/ Written(content),
         shell.env.agents_dirs # Unset => shell.env.agents_dirs.segments \in Seq(STRING),
         ResolveRuntimeConfig(shell) # Broken
  PROVE  /\ ResolveRuntimeConfig(shell).agents_dirs = MeantDirs(shell)
         /\ MeantDirs(shell) \in Seq(STRING) \cup {<<"agents">>}
<1> DEFINE content == shell.configs[ResolveConfigPath(shell.cli_config, shell.env_config,
                                                      shell.configs["project"] # Unset)]
           file == LoadFileConfig(content)
           cli == shell.cli.agents_dirs
           OfEnv == IF shell.env.agents_dirs = Unset THEN Unset
                    ELSE ParseDirsEnv(shell.env.agents_dirs)
           OfFile == IF content = Unset THEN Unset ELSE content.agents_dirs
           Or(written) == IF written = Unset THEN Unset ELSE NonEmptyDirs(written)
           layers == <<cli, OfEnv, OfFile, <<"agents">> >>
           Given(i) == layers[i] # Unset /\ \E dir \in Range(layers[i]) : dir # ""
           given == {i \in DOMAIN layers : Given(i)}
<1>1. /\ file # Broken
      /\ ResolveRuntimeConfig(shell)
           = MergeLayers(file, EnvLayer(shell.env), WrittenLayer(shell.cli))
  BY DEF ResolveRuntimeConfig
<1>2. "agents_dirs" \in Fields /\ WrittenLayer(shell.cli).agents_dirs = Or(cli)
  BY DEF Written, WrittenLayer, Fields
<1>3. file.agents_dirs = Or(OfFile)
  <2>1. CASE content = Unset
    <3>1. file = NoLayer
      BY <1>1, <2>1 DEF LoadFileConfig
    <3> QED BY <2>1, <3>1 DEF NoLayer, Fields
  <2>2. CASE content # Unset
    <3>1. content # Broken
      BY <1>1, <2>2 DEF LoadFileConfig
    <3>2. file = WrittenLayer(content) /\ Written(content)
      BY <2>2, <3>1 DEF LoadFileConfig
    <3> QED BY <2>2, <3>2 DEF Written, WrittenLayer, Fields
  <2> QED BY <2>1, <2>2
<1>4. EnvLayer(shell.env).agents_dirs = OfEnv
  BY DEF EnvLayer
<1> HIDE DEF file, OfEnv, OfFile
<1>5. ResolveRuntimeConfig(shell).agents_dirs
        = IF Or(cli) # Unset THEN Or(cli)
          ELSE IF OfEnv # Unset THEN OfEnv
          ELSE IF Or(OfFile) # Unset THEN Or(OfFile) ELSE <<"agents">>
  BY <1>1, <1>2, <1>3, <1>4 DEF MergeLayers, Overlay, Defaults
<1>6. MeantDirs(shell) = Cleaned(layers[Min(given)])
  BY DEF MeantDirs, Cleaned, OfEnv, OfFile
<1>7. /\ DOMAIN layers = 1 .. 4 /\ layers[1] = cli /\ layers[2] = OfEnv /\ layers[3] = OfFile
      /\ layers[4] = <<"agents">>
  OBVIOUS
<1>8. cli \in {Unset} \cup Seq(STRING) /\ OfFile \in {Unset} \cup Seq(STRING)
  BY <1>1 DEF Written, OfFile, file, LoadFileConfig
<1>9. ASSUME NEW written \in {Unset} \cup Seq(STRING)
      PROVE  IF written # Unset /\ \E dir \in Range(written) : dir # ""
             THEN /\ Or(written) = Cleaned(written) /\ Or(written) # Unset
                  /\ Cleaned(written) \in Seq(STRING)
             ELSE Or(written) = Unset
  <2>1. written # Unset => written \in Seq(Texted)
    BY SeqMonotonic DEF Texted
  <2> QED BY <2>1, CleanedDirs
<1>10. IF Given(2) THEN OfEnv = Cleaned(OfEnv) /\ OfEnv # Unset /\ OfEnv \in Seq(STRING)
       ELSE OfEnv = Unset
  BY <1>7, SegmentsAsDirs DEF OfEnv
<1>11. Given(4) /\ Cleaned(<<"agents">>) = <<"agents">>
  <2> DEFINE dirs == <<"agents">>
  <2>1. dirs \in Seq({"agents"}) /\ Len(dirs) = 1 /\ DOMAIN dirs = 1 .. 1 /\ dirs[1] = "agents"
    OBVIOUS
  <2>2. "agents" # "" /\ dirs # Unset
    BY <2>1
  <2> HIDE DEF dirs
  <2>3. "agents" \in Range(dirs)
    BY <2>1 DEF Range
  <2>4. \A i \in 1 .. Len(dirs) : dirs[i] \in Range(dirs) \ {""}
    <3>1. \A i \in 1 .. Len(dirs) : dirs[i] = "agents"
      BY <2>1
    <3> DEFINE R == Range(dirs)
    <3> HIDE DEF R
    <3>2. \A i \in 1 .. Len(dirs) : dirs[i] \in R \ {""}
      BY <2>2, <2>3, <3>1 DEF R
    <3> QED BY <3>2 DEF R
  <2>5. Keep(dirs, Range(dirs) \ {""}) = dirs
    <3> DEFINE R == Range(dirs) \ {""}
           V == {"agents"}
    <3>1. dirs \in Seq(V) /\ \A i \in 1 .. Len(dirs) : dirs[i] \in R
      BY <2>1, <2>4
    <3> HIDE DEF R, V
    <3>2. Keep(dirs, R) = dirs
      BY <3>1, KeepAll
    <3> QED BY <3>2 DEF R
  <2> QED BY <1>7, <2>2, <2>3, <2>5 DEF Cleaned, dirs
<1>12. /\ IF Given(1)
          THEN Or(cli) = Cleaned(cli) /\ Or(cli) # Unset /\ Cleaned(cli) \in Seq(STRING)
          ELSE Or(cli) = Unset
       /\ IF Given(3)
          THEN /\ Or(OfFile) = Cleaned(OfFile) /\ Or(OfFile) # Unset
               /\ Cleaned(OfFile) \in Seq(STRING)
          ELSE Or(OfFile) = Unset
  BY <1>7, <1>8, <1>9
<1> HIDE DEF layers, Or, cli
<1>13. \A i : i \in given <=> i \in 1 .. 4 /\ Given(i)
  BY <1>7
<1> HIDE DEF Given
<1>14. CASE Given(1)
  <2>1. given \subseteq Int /\ 1 \in given /\ \A j \in given : 1 <= j
    BY <1>13, <1>14
  <2>2. Min(given) = 1
    <3> HIDE DEF given
    <3> QED BY <2>1, MinIs
  <2> QED BY <1>5, <1>6, <1>7, <1>12, <1>14, <2>2
<1>15. CASE ~Given(1) /\ Given(2)
  <2>1. given \subseteq Int /\ 2 \in given /\ \A j \in given : 2 <= j
    BY <1>13, <1>15
  <2>2. Min(given) = 2
    <3> HIDE DEF given
    <3> QED BY <2>1, MinIs
  <2> QED BY <1>5, <1>6, <1>7, <1>10, <1>12, <1>15, <2>2
<1>16. CASE ~Given(1) /\ ~Given(2) /\ Given(3)
  <2>1. given \subseteq Int /\ 3 \in given /\ \A j \in given : 3 <= j
    BY <1>13, <1>16
  <2>2. Min(given) = 3
    <3> HIDE DEF given
    <3> QED BY <2>1, MinIs
  <2> QED BY <1>5, <1>6, <1>7, <1>10, <1>12, <1>16, <2>2
<1>17. CASE ~Given(1) /\ ~Given(2) /\ ~Given(3)
  <2>1. given \subseteq Int /\ 4 \in given /\ \A j \in given : 4 <= j
    BY <1>11, <1>13, <1>17
  <2>2. Min(given) = 4
    <3> HIDE DEF given
    <3> QED BY <2>1, MinIs
  <2> QED BY <1>5, <1>6, <1>7, <1>10, <1>11, <1>12, <1>17, <2>2
<1> QED BY <1>14, <1>15, <1>16, <1>17

--------------------------------------------------------------------------------
(* What is loaded of the directories are their agent files, all of them,   *)
(* those of a directory before those of a later one.                       *)
LEMMA DirIsLoaded ==
  ASSUME NEW W, \A f \in W : f.order \in Nat, NEW dir \in Seq(W)
  PROVE  /\ LoadFromDir(dir) \in Seq(W)
         /\ \A k \in 1 .. Len(LoadFromDir(dir)) :
              LoadFromDir(dir)[k] \in Range(dir) /\ LoadFromDir(dir)[k].is_agent
         /\ \A f \in Range(dir) : f.is_agent =>
              \E k \in 1 .. Len(LoadFromDir(dir)) : LoadFromDir(dir)[k] = f
<1> DEFINE S == {file \in Range(dir) : file.is_agent}
           kept == Keep(dir, S)
           n == Len(kept)
<1>1. /\ kept \in Seq(W) /\ kept \in Seq(S) /\ n \in Nat /\ DOMAIN kept = 1 .. n
      /\ \A k \in 1 .. n : kept[k] \in W /\ kept[k] \in S
  <2> HIDE DEF S
  <2>1. kept \in Seq(W) /\ kept \in Seq(S) /\ n \in Nat
    BY KeepTyped
  <2> HIDE DEF kept
  <2> QED BY <2>1, ElementOfSeq, LenProperties
<1>2. \A f \in Range(dir) : f.is_agent => \E k \in 1 .. n : kept[k] = f
  <2> SUFFICES ASSUME NEW f \in Range(dir), f.is_agent PROVE \E k \in 1 .. n : kept[k] = f
    OBVIOUS
  <2>1. PICK i \in 1 .. Len(dir) : dir[i] = f
    BY LenProperties DEF Range
  <2>2. dir[i] \in S
    BY <2>1
  <2> HIDE DEF S
  <2> QED BY <2>1, <2>2, KeepHasAll
<1> HIDE DEF kept, n
<1>3. PICK at : Reorders(at, n) /\ SortedAt(kept, at, n)
  BY <1>1, ByNameSorts
<1> DEFINE L == [k \in 1 .. n |-> kept[at[k]]]
<1>4. LoadFromDir(dir) = L
  BY <1>3 DEF LoadFromDir, SortedAt, kept
<1>5. \A k \in 1 .. n : at[k] \in 1 .. n /\ \E l \in 1 .. n : at[l] = k
  BY <1>3 DEF Reorders
<1>6. L \in Seq(W) /\ Len(L) = n
  <2>1. L \in [1 .. n -> W]
    BY <1>1, <1>5
  <2> HIDE DEF L
  <2> QED BY <1>1, <2>1
<1>7. \A k \in 1 .. n : L[k] \in S
  BY <1>1, <1>5
<1>8. ASSUME NEW f \in Range(dir), f.is_agent PROVE \E k \in 1 .. n : L[k] = f
  <2>1. PICK i \in 1 .. n : kept[i] = f
    BY <1>2, <1>8
  <2>2. PICK k \in 1 .. n : at[k] = i
    BY <1>5
  <2> QED BY <2>1, <2>2
<1> HIDE DEF L
<1> QED BY <1>4, <1>6, <1>7, <1>8

OfDirs(from, all, dirs, m) ==
  /\ from \in [1 .. Len(all) -> 1 .. m]
  /\ \A j, k \in 1 .. Len(all) : j < k => from[j] <= from[k]
  /\ \A k \in 1 .. Len(all) : all[k] \in Range(dirs[from[k]]) /\ all[k].is_agent
  /\ \A i \in 1 .. m : \A f \in Range(dirs[i]) : f.is_agent =>
       \E k \in 1 .. Len(all) : all[k] = f /\ from[k] = i
Gathered(all, dirs, m) == \E from : OfDirs(from, all, dirs, m)

LEMMA GatherMore ==
  ASSUME NEW W, \A f \in W : f.order \in Nat, NEW all \in Seq(W), NEW m \in Nat, NEW dirs,
         dirs[m + 1] \in Seq(W), Gathered(all, dirs, m)
  PROVE  Gathered(all \o LoadFromDir(dirs[m + 1]), dirs, m + 1)
<1> DEFINE L == LoadFromDir(dirs[m + 1])
           more == all \o L
           n == Len(all)
<1>1. /\ L \in Seq(W)
      /\ \A k \in 1 .. Len(L) : L[k] \in Range(dirs[m + 1]) /\ L[k].is_agent
      /\ \A f \in Range(dirs[m + 1]) : f.is_agent => \E k \in 1 .. Len(L) : L[k] = f
  BY DirIsLoaded
<1> HIDE DEF L
<1>2. /\ n \in Nat /\ Len(L) \in Nat /\ Len(more) = n + Len(L)
      /\ \A k \in 1 .. n : more[k] = all[k]
      /\ \A k \in 1 .. Len(more) : k > n => more[k] = L[k - n] /\ k - n \in 1 .. Len(L)
      /\ \A k \in 1 .. Len(L) : more[n + k] = L[k] /\ n + k \in 1 .. Len(more)
  BY <1>1, ConcatProperties, LenProperties
<1> HIDE DEF more, n
<1>3. PICK from : OfDirs(from, all, dirs, m)
  BY DEF Gathered
<1> DEFINE to == [k \in 1 .. Len(more) |-> IF k <= n THEN from[k] ELSE m + 1]
<1>4. \A k \in 1 .. n : from[k] \in 1 .. m
  BY <1>3 DEF OfDirs, n
<1>5. \A k \in 1 .. Len(more) : to[k] \in 1 .. m + 1
  BY <1>2, <1>4
<1>6. ASSUME NEW j \in 1 .. Len(more), NEW k \in 1 .. Len(more), j < k PROVE to[j] <= to[k]
  <2>1. CASE k <= n
    BY <1>2, <1>3, <1>6, <2>1 DEF OfDirs, n
  <2>2. CASE ~(k <= n)
    BY <1>5, <2>2
  <2> QED BY <2>1, <2>2
<1>7. ASSUME NEW k \in 1 .. Len(more) PROVE more[k] \in Range(dirs[to[k]]) /\ more[k].is_agent
  <2>1. CASE k <= n
    BY <1>2, <1>3, <2>1 DEF OfDirs, n
  <2>2. CASE ~(k <= n)
    BY <1>1, <1>2, <2>2
  <2> QED BY <2>1, <2>2
<1>8. ASSUME NEW i \in 1 .. m + 1, NEW f \in Range(dirs[i]), f.is_agent
      PROVE  \E k \in 1 .. Len(more) : more[k] = f /\ to[k] = i
  <2>1. CASE i \in 1 .. m
    <3>1. PICK k \in 1 .. n : all[k] = f /\ from[k] = i
      BY <1>3, <1>8, <2>1 DEF OfDirs, n
    <3>2. k \in 1 .. Len(more) /\ more[k] = f /\ to[k] = i
      BY <1>2, <3>1
    <3> QED BY <3>2
  <2>2. CASE i = m + 1
    <3>1. PICK k \in 1 .. Len(L) : L[k] = f
      BY <1>1, <1>8, <2>2
    <3>2. n + k \in 1 .. Len(more) /\ more[n + k] = f /\ to[n + k] = i
      BY <1>2, <2>2, <3>1
    <3> QED BY <3>2
  <2> QED BY <2>1, <2>2
<1>9. to \in [1 .. Len(more) -> 1 .. m + 1]
  BY <1>5
<1> HIDE DEF to
<1>10. OfDirs(to, more, dirs, m + 1)
  BY <1>6, <1>7, <1>8, <1>9 DEF OfDirs
<1> QED BY <1>10 DEF Gathered, more, L

LEMMA DirsAreLoaded ==
  ASSUME NEW W, \A f \in W : f.order \in Nat, NEW dirs, NEW n \in Nat, Len(dirs) = n,
         \A i \in 1 .. n : dirs[i] \in Seq(W)
  PROVE  \E all \in Seq(W) :
           /\ Gathered(all, dirs, n)
           /\ LoadFromDirs(dirs) = IF \A i \in 1 .. Len(all) : Loadable(all[i]) THEN ByName(all)
                                   ELSE Broken
<1> DEFINE M == Seq(W)
           by == [x \in M \X M |-> x[1] \o LoadFromDir(x[2])]
           Is(f) == f = [i \in 0 .. n |-> IF i = 0 THEN <<>>
                                          ELSE f[i - 1] \o LoadFromDir(dirs[i])]
           made == CHOOSE f : Is(f)
           all == made[n]
<1>1. LoadFromDirs(dirs) = IF \A i \in DOMAIN all : Loadable(all[i]) THEN ByName(all) ELSE Broken
  BY DEF LoadFromDirs, Loop
<1>2. \A a, d \in M : a \o LoadFromDir(d) \in M
  <2> TAKE a, d \in M
  <2>1. LoadFromDir(d) \in M
    BY DirIsLoaded
  <2> QED BY <2>1, ConcatProperties
<1>3. by \in [M \X M -> M]
  BY <1>2
<1>4. <<>> \in M
  BY EmptySeq
<1>5. \E f : Is(f)
  <2>1. \A a, d \in M : by[<<a, d>>] = a \o LoadFromDir(d)
    OBVIOUS
  <2>2. \A i \in 1 .. n : dirs[i] \in M
    OBVIOUS
  <2> HIDE DEF by, M
  <2>3. PICK f : MadeBy(by, <<>>, dirs, n, M, f)
    BY <1>3, <1>4, <2>2, LoopExists
  <2>4. \A i \in 1 .. n : i - 1 \in 0 .. n
    OBVIOUS
  <2>5. \A i \in 1 .. n : f[i] = f[i - 1] \o LoadFromDir(dirs[i])
    BY <2>1, <2>2, <2>3, <2>4 DEF MadeBy
  <2>6. \A i \in 0 .. n : i = 0 \/ i \in 1 .. n
    OBVIOUS
  <2>7. f[0] = <<>> /\ f = [i \in 0 .. n |-> f[i]]
    BY <2>3 DEF MadeBy
  <2>8. \A i \in 0 .. n : f[i] = IF i = 0 THEN <<>> ELSE f[i - 1] \o LoadFromDir(dirs[i])
    BY <2>5, <2>6, <2>7
  <2>9. Is(f)
    BY <2>7, <2>8
  <2> QED BY <2>9
<1>6. Is(made)
  BY <1>5
<1> HIDE DEF made
<1>7. made[0] = <<>> /\ \A i \in 1 .. n : made[i] = made[i - 1] \o LoadFromDir(dirs[i])
  <2>1. 0 \in 0 .. n /\ \A i \in 1 .. n : i \in 0 .. n /\ i # 0
    OBVIOUS
  <2> DEFINE R == 0 .. n
  <2>2. made = [i \in R |-> IF i = 0 THEN <<>> ELSE made[i - 1] \o LoadFromDir(dirs[i])]
    BY <1>6
  <2> HIDE DEF R
  <2>3. 0 \in R /\ \A i \in 1 .. n : i \in R /\ i # 0
    BY <2>1 DEF R
  <2> QED BY <2>2, <2>3
<1> DEFINE T == {i \in Nat : i <= n => made[i] \in M /\ Gathered(made[i], dirs, i)}
<1>8. 0 \in T
  <2> DEFINE none == [k \in 1 .. 0 |-> 1]
  <2>1. OfDirs(none, <<>>, dirs, 0)
    <3>1. Len(<<>>) = 0 /\ \A k \in 1 .. 0 : FALSE
      OBVIOUS
    <3>2. none \in [1 .. 0 -> 1 .. 0]
      OBVIOUS
    <3> HIDE DEF none
    <3> QED BY <3>1, <3>2 DEF OfDirs
  <2> HIDE DEF none
  <2> QED BY <1>4, <1>7, <2>1 DEF Gathered
<1>9. \A i \in Nat : i \in T => i + 1 \in T
  <2> SUFFICES ASSUME NEW i \in Nat, i + 1 <= n, made[i] \in M, Gathered(made[i], dirs, i)
               PROVE  made[i + 1] \in M /\ Gathered(made[i + 1], dirs, i + 1)
    OBVIOUS
  <2>1. i + 1 \in 1 .. n /\ (i + 1) - 1 = i
    OBVIOUS
  <2>2. made[i + 1] = made[i] \o LoadFromDir(dirs[i + 1]) /\ dirs[i + 1] \in M
    BY <1>7, <2>1
  <2>3. made[i + 1] \in M
    BY <1>2, <2>2
  <2>4. Gathered(made[i] \o LoadFromDir(dirs[i + 1]), dirs, i + 1)
    <3> DEFINE a == made[i]
    <3> HIDE DEF a
    <3>1. a \in Seq(W) /\ Gathered(a, dirs, i)
      BY DEF a
    <3>2. Gathered(a \o LoadFromDir(dirs[i + 1]), dirs, i + 1)
      BY <2>2, <3>1, GatherMore
    <3> QED BY <3>2 DEF a
  <2> QED BY <2>2, <2>3, <2>4
<1>10. n \in T
  <2> HIDE DEF T
  <2> QED BY <1>8, <1>9, NatInSet
<1>11. all \in Seq(W) /\ DOMAIN all = 1 .. Len(all) /\ Gathered(all, dirs, n)
  BY <1>10, LenProperties
<1> HIDE DEF all
<1> QED BY <1>1, <1>11

(* Of the files in the order of their names the first with a name is the   *)
(* one from the first directory that has one.                              *)
Ordered(W) ==
  /\ \A f \in W : f.order \in Nat
  /\ \A f, g \in W : f.name = g.name => f.order = g.order
Named(dir, name) == {file \in Range(dir) : file.is_agent /\ file.name = name}
IsOfFirst(file, dirs, n, name) ==
  \E i \in 1 .. n : /\ file \in Named(dirs[i], name)
                    /\ \A j \in 1 .. i - 1 : Named(dirs[j], name) = {}

LEMMA FirstIsOfFirst ==
  ASSUME NEW W, Ordered(W),
         NEW dirs, NEW n \in Nat, \A i \in 1 .. n : dirs[i] \in Seq(W),
         NEW all \in Seq(W), NEW from, OfDirs(from, all, dirs, n), NEW N \in Nat, Len(all) = N,
         NEW at, Reorders(at, N), SortedAt(all, at, N),
         NEW name, NEW m \in 1 .. N, all[at[m]].name = name,
         \A l \in 1 .. N : all[at[l]].name = name => m <= l
  PROVE  IsOfFirst(all[at[m]], dirs, n, name)
<1> DEFINE p == at[m]
           i == from[p]
<1>1. \A k \in 1 .. N : at[k] \in 1 .. N /\ \E l \in 1 .. N : at[l] = k
  BY DEF Reorders
<1>2. \A k \in 1 .. N : from[k] \in 1 .. n /\ all[k] \in W
  BY ElementOfSeq DEF OfDirs
<1>3. /\ p \in 1 .. N /\ i \in 1 .. n /\ all[p] \in W
      /\ all[p] \in Range(dirs[i]) /\ all[p].is_agent /\ all[p].name = name
  BY <1>1, <1>2 DEF OfDirs
<1> HIDE DEF i
<1>4. ASSUME NEW j \in 1 .. i - 1, NEW g \in Range(dirs[j]), g.is_agent, g.name = name
      PROVE  FALSE
  <2>1. j \in 1 .. n /\ j < i
    BY <1>3
  <2>2. PICK q \in 1 .. N : all[q] = g /\ from[q] = j
    BY <1>4, <2>1 DEF OfDirs
  <2>3. q < p
    <3>1. from[p] = i
      BY DEF i
    <3>2. q # p
      BY <2>1, <2>2, <3>1, <1>3
    <3> HIDE DEF p
    <3>3. ~(p < q)
      BY <1>3, <2>1, <2>2, <3>1 DEF OfDirs
    <3> QED BY <1>3, <3>2, <3>3
  <2>4. PICK l \in 1 .. N : at[l] = q
    BY <1>1
  <2>5. m < l
    <3>1. m <= l
      BY <1>4, <2>2, <2>4
    <3>2. at[m] \in 1 .. N
      BY <1>3
    <3>3. m # l
      BY <2>3, <2>4, <3>2
    <3> QED BY <3>1, <3>3
  <2>6. all[at[m]].order = all[at[l]].order
    BY <1>2, <1>3, <1>4, <2>2, <2>4 DEF Ordered
  <2>7. at[m] < at[l]
    BY <2>5, <2>6 DEF SortedAt
  <2> QED BY <1>3, <2>3, <2>4, <2>7
<1>5. \A j \in 1 .. i - 1 : Named(dirs[j], name) = {}
  BY <1>4 DEF Named
<1> QED BY <1>3, <1>5 DEF Named, IsOfFirst

(* What prepare_run gives is the first of that name.                       *)
LEMMA FirstIsTaken ==
  ASSUME NEW loaded, NEW N \in Nat, DOMAIN loaded = 1 .. N, NEW asked,
         PrepareRun(loaded, asked).error = "none"
  PROVE  \E m \in 1 .. N :
           /\ PrepareRun(loaded, asked).file = loaded[m] /\ loaded[m].name = asked.agent
           /\ \A l \in 1 .. N : loaded[l].name = asked.agent => m <= l
<1> DEFINE named == {i \in 1 .. N : loaded[i].name = asked.agent}
           m == Min(named)
           given == EffectiveRunMode(asked.tool, PreferredRunMode(loaded[m].spec))
<1>1. PrepareRun(loaded, asked) =
        CASE named = {}                   -> [error |-> "not_found"]
          [] named # {} /\ given.reject   -> [error |-> "use_spawn_agent"]
          [] named # {} /\ ~given.reject  ->
               [error |-> "none", file |-> loaded[m], run_mode |-> given.mode,
                policy |-> PolicySnapshot(loaded[m].spec, asked.tool),
                acceptance |-> {"sentinel", "concise"}]
  BY DEF PrepareRun
<1> HIDE DEF given, m
<1>2. named # {} /\ PrepareRun(loaded, asked).file = loaded[m]
  <2> HIDE DEF named
  <2>1. CASE named = {}
    BY <1>1, <2>1
  <2>2. CASE named # {} /\ given.reject
    BY <1>1, <2>2
  <2>3. CASE named # {} /\ ~given.reject
    BY <1>1, <2>3
  <2> QED BY <2>1, <2>2, <2>3
<1>3. m \in named /\ \A l \in named : m <= l
  BY <1>2, FirstPosition DEF m
<1> QED BY <1>2, <1>3

(* So what prepare_run accepts is the agent that was meant.                *)
IsMeant(s) ==
  LET dirs == MeantDirs(s.shell) IN
  /\ \E i \in DOMAIN dirs :
       /\ Prepared(s).file \in Named(s.dirs[dirs[i]], s.request.agent)
       /\ \A j \in 1 .. i - 1 : Named(s.dirs[dirs[j]], s.request.agent) = {}
  /\ \A i \in DOMAIN dirs : \A file \in Range(s.dirs[dirs[i]]) :
       file.is_agent => Loadable(file)

LEMMA PreparedIsMeant ==
  ASSUME NEW s, Catalogued(s), Prepared(s).error = "none"
  PROVE  IsMeant(s)
<1> DEFINE dirs == ResolveRuntimeConfig(s.shell).agents_dirs
           W == UNION {Range(s.dirs[d]) : d \in Range(dirs)}
           held == [i \in DOMAIN dirs |-> s.dirs[dirs[i]]]
           loaded == LoadFromDirs(held)
           config == ResolveRuntimeConfig(s.shell)
           n == Len(dirs)
<1>1. config # Broken /\ loaded # Broken /\ Prepared(s) = PrepareRun(loaded, s.request)
  <2>1. Prepared(s) = CASE config = Broken -> [error |-> "config"]
                        [] OTHER -> CASE loaded = Broken -> [error |-> "specs"]
                                      [] OTHER           -> PrepareRun(loaded, s.request)
    BY DEF Prepared
  <2> HIDE DEF config, loaded
  <2>2. CASE config = Broken
    BY <2>1, <2>2
  <2>3. CASE config # Broken /\ loaded = Broken
    BY <2>1, <2>3
  <2>4. CASE config # Broken /\ loaded # Broken
    BY <2>1, <2>4
  <2> QED BY <2>2, <2>3, <2>4
<1>2. dirs = MeantDirs(s.shell) /\ dirs \in Seq(STRING) \cup {<<"agents">>}
  <2> DEFINE shell == s.shell
  <2> HIDE DEF shell
  <2> SUFFICES dirs = MeantDirs(shell) /\ MeantDirs(shell) \in Seq(STRING) \cup {<<"agents">>}
    BY DEF shell
  <2>1. ResolveRuntimeConfig(shell) # Broken /\ dirs = ResolveRuntimeConfig(shell).agents_dirs
    BY <1>1 DEF shell
  <2>2. /\ Written(shell.cli)
        /\ shell.env.agents_dirs # Unset => shell.env.agents_dirs.segments \in Seq(STRING)
        /\ LET content == shell.configs[ResolveConfigPath(shell.cli_config, shell.env_config,
                                                          shell.configs["project"] # Unset)]
           IN  content \in {Unset, Broken} \/ Written(content)
    BY DEF shell, Catalogued
  <2>3. Unset \notin Seq(STRING) /\ Unset # <<"agents">>
    BY CataloguesAssumption DEF Defaults
  <2> HIDE DEF dirs
  <2> QED BY <2>1, <2>2, <2>3, MeantAreConfigured
<1>0. /\ \A d \in Range(dirs) : s.dirs[d] \in Seq(W)
      /\ Ordered(W)
  BY <1>1 DEF Catalogued, Ordered
<1> HIDE DEF dirs, W, config
<1>3. n \in Nat /\ DOMAIN dirs = 1 .. n
  <2>1. CASE dirs \in Seq(STRING)
    BY <2>1
  <2>2. CASE dirs = <<"agents">>
    BY <2>2
  <2> QED BY <1>2, <2>1, <2>2
<1> HIDE DEF n
<1>4. Len(held) = n /\ \A i \in 1 .. n : held[i] = s.dirs[dirs[i]] /\ held[i] \in Seq(W)
  <2>1. \A i \in 1 .. n : dirs[i] \in Range(dirs)
    BY <1>3 DEF Range
  <2>2. held = [i \in 1 .. n |-> s.dirs[dirs[i]]]
    BY <1>3
  <2> HIDE DEF held
  <2>3. \A i \in 1 .. n : held[i] = s.dirs[dirs[i]] /\ held[i] \in Seq(W)
    BY <1>0, <2>1, <2>2
  <2>4. held \in [1 .. n -> Seq(W)]
    BY <2>2, <2>3
  <2>5. Len(held) = n
    <3> DEFINE V == Seq(W)
    <3>1. held \in [1 .. n -> V]
      BY <2>4
    <3> HIDE DEF V
    <3> QED BY <1>3, <3>1
  <2> QED BY <2>3, <2>5
<1>5. \A f \in W : f.order \in Nat
  BY <1>0 DEF Ordered
<1> HIDE DEF held
<1>6. PICK all \in Seq(W) :
        /\ Gathered(all, held, n)
        /\ loaded = IF \A i \in 1 .. Len(all) : Loadable(all[i]) THEN ByName(all) ELSE Broken
  BY <1>3, <1>4, <1>5, DirsAreLoaded
<1> DEFINE N == Len(all)
<1>7. /\ N \in Nat /\ DOMAIN all = 1 .. N /\ \A k \in 1 .. N : all[k] \in W
      /\ loaded = ByName(all) /\ \A i \in 1 .. N : Loadable(all[i])
  <2>1. loaded = ByName(all) /\ \A i \in 1 .. Len(all) : Loadable(all[i])
    <3> DEFINE valid == \A i \in 1 .. Len(all) : Loadable(all[i])
    <3> HIDE DEF valid, loaded
    <3>1. loaded = IF valid THEN ByName(all) ELSE Broken
      BY <1>6 DEF valid
    <3>2. loaded = ByName(all) /\ valid
      BY <1>1, <3>1
    <3> QED BY <3>2 DEF valid
  <2> QED BY <2>1, ElementOfSeq, LenProperties
<1> HIDE DEF N, loaded
<1>8. PICK at : Reorders(at, N) /\ SortedAt(all, at, N)
  <2>1. \A i \in 1 .. N : all[i].order \in Nat
    BY <1>5, <1>7
  <2> QED BY <1>7, <2>1, ByNameSorts
<1>9. loaded = [k \in 1 .. N |-> all[at[k]]]
  BY <1>7, <1>8 DEF SortedAt
<1>10. PICK m \in 1 .. N :
         /\ Prepared(s).file = loaded[m] /\ loaded[m].name = s.request.agent
         /\ \A l \in 1 .. N : loaded[l].name = s.request.agent => m <= l
  <2>1. DOMAIN loaded = 1 .. N /\ PrepareRun(loaded, s.request).error = "none"
    BY <1>1, <1>9
  <2>2. Prepared(s) = PrepareRun(loaded, s.request)
    BY <1>1
  <2> DEFINE asked == s.request
  <2> HIDE DEF asked
  <2>3. PrepareRun(loaded, asked).error = "none"
    BY <2>1 DEF asked
  <2>4. \E m \in 1 .. N :
          /\ PrepareRun(loaded, asked).file = loaded[m] /\ loaded[m].name = asked.agent
          /\ \A l \in 1 .. N : loaded[l].name = asked.agent => m <= l
    BY <1>7, <2>1, <2>3, FirstIsTaken
  <2> QED BY <2>2, <2>4 DEF asked
<1>11. PICK from : OfDirs(from, all, held, n)
  BY <1>6 DEF Gathered
<1>12. IsOfFirst(all[at[m]], held, n, s.request.agent)
  <2> DEFINE name == s.request.agent
  <2> HIDE DEF name
  <2>1. all[at[m]].name = name /\ \A l \in 1 .. N : all[at[l]].name = name => m <= l
    BY <1>9, <1>10 DEF name
  <2>2. N = Len(all) /\ \A i \in 1 .. n : held[i] \in Seq(W)
    BY <1>4 DEF N
  <2>3. IsOfFirst(all[at[m]], held, n, name)
    BY <1>0, <1>3, <1>7, <1>8, <1>11, <2>1, <2>2, FirstIsOfFirst
  <2> QED BY <2>3 DEF name
<1>13. ASSUME NEW i \in 1 .. n, NEW file \in Range(held[i]), file.is_agent PROVE Loadable(file)
  <2>1. \E k \in 1 .. N : all[k] = file
    BY <1>11, <1>13 DEF OfDirs, N
  <2> QED BY <1>7, <2>1
<1>14. /\ Prepared(s).file = all[at[m]]
       /\ DOMAIN MeantDirs(s.shell) = 1 .. n
       /\ \A i \in 1 .. n : held[i] = s.dirs[MeantDirs(s.shell)[i]]
  BY <1>2, <1>3, <1>4, <1>9, <1>10
<1>15. \A i \in 1 .. n : \A j \in 1 .. i - 1 : j \in 1 .. n
  BY <1>3
<1> QED BY <1>12, <1>13, <1>14, <1>15 DEF IsMeant, IsOfFirst

(* What was accepted is what was asked for, or nothing.                    *)
AcceptedInv ==
  /\ SettingIsGiven
  /\ accepted # NothingAccepted => accepted = Prepared(setting) /\ accepted.error = "none"

LEMMA OnlyAcceptAccepts ==
  ASSUME [RequestNext]_<<requestVars, vars>>
  PROVE  Accept \/ UNCHANGED accepted
<1>1. CASE UNCHANGED <<requestVars, vars>>
  BY <1>1 DEF requestVars
<1>2. CASE RefuseRequest \/ ProbeProvider \/ MakeWorkspace \/ ReadMemory
  BY <1>2 DEF RefuseRequest, ProbeProvider, MakeWorkspace, ReadMemory
<1>3. CASE FailGate \/ Compile \/ Call \/ CallError
  BY <1>3 DEF FailGate, Compile, Call, CallError
<1>4. CASE \E answer \in Possible : CallAgain(answer) \/ Answer(answer)
  BY <1>4 DEF CallAgain, Answer
<1>5. CASE \E warns \in BOOLEAN : Beat(warns)
  BY <1>5 DEF Beat
<1>6. CASE Wait \/ Cancel \/ Settle \/ Save \/ Restart \/ RequestOver
  BY <1>6 DEF Wait, Cancel, Settle, Save, Restart, RequestOver, requestVars
<1> QED BY <1>1, <1>2, <1>3, <1>4, <1>5, <1>6 DEF RequestNext

(* THEOREM: a request is served by the agent that was meant.               *)
THEOREM RequestTakesTheMeant == RequestSpec => []AgentIsTheOneMeant
<1>1. RequestInit => AcceptedInv
  BY SettingInit DEF RequestInit, AcceptedInv
<1>2. ASSUME AcceptedInv, [RequestNext]_<<requestVars, vars>> PROVE AcceptedInv'
  <2>1. SettingIsGiven' /\ setting' = setting
    BY <1>2, RequestSteps DEF AcceptedInv
  <2>2. CASE UNCHANGED accepted
    BY <1>2, <2>1, <2>2 DEF AcceptedInv
  <2>3. CASE Accept
    BY <2>1, <2>3 DEF AcceptedInv, Accept
  <2> QED BY <1>2, <2>2, <2>3, OnlyAcceptAccepts
<1>3. ASSUME AcceptedInv, accepted # NothingAccepted PROVE AgentIsTheOneMeant
  <2>1. PICK group \in DOMAIN Settings : setting \in Settings[group]
    BY <1>3 DEF AcceptedInv, SettingIsGiven
  <2>2. accepted = Prepared(setting) /\ Prepared(setting).error = "none"
    BY <1>3 DEF AcceptedInv
  <2>3. IsMeant(setting)
    BY <2>1, <2>2, CataloguesAssumption, PreparedIsMeant
  <2> QED BY <2>2, <2>3 DEF AgentIsTheOneMeant, IsMeant, Named, request
<1>4. AcceptedInv => AgentIsTheOneMeant
  BY <1>3 DEF AgentIsTheOneMeant
<1> QED BY <1>1, <1>2, <1>4, PTL DEF RequestSpec

--------------------------------------------------------------------------------
(* What the log of a run says: of every event what its words and its name  *)
(* may be taken for, and in which order its timed steps come.              *)
Speaks(list, words, waits) ==
  \A i \in DOMAIN list :
    list[i].words \subseteq words /\ WaitReasonOf(list[i].event) \in waits \cup {"none"}

StepOf(name) ==
  CASE name = "provider.probe.started"    -> 1
    [] name = "provider.probe.completed"  -> 2
    [] name = "workspace.prepare.started" -> 3
    [] name = "provider.boot.started"     -> 4
    [] OTHER                              -> 0
InOrder(list) ==
  \A i, j \in DOMAIN list :
    i < j /\ StepOf(list[i].event) # 0 /\ StepOf(list[j].event) # 0 =>
      StepOf(list[i].event) <= StepOf(list[j].event)

(* The words that only the error of a run accounts for.                    *)
Late ==
  IF phase \in Recorded /\ disk.meta # NoRecord THEN ErrorWords(disk.meta.error) ELSE {}
SaidWords == NameWords(request.agent) \cup ProbeWords(setting.env.version) \cup Late
SaidWaits == LastWords \cup Late

Preparing == Event("workspace.prepare.started", "workspace_prepare", {})
Arrived == Event("workspace.prepare.completed", "workspace_prepare", {})
LogAtFirst ==
  /\ phase = "accepted" /\ async => log = Accepted
  /\ phase = "ready" /\ async => log = Accepted \o <<Probed, Preparing>>
  /\ phase \in {"in_workspace", "gated"} /\ async =>
       log = Append(Accepted \o <<Probed, Preparing>>, Arrived)

LogOk(list, words, waits) ==
  list \in Seq(Range(list)) /\ Speaks(list, words, waits) /\ InOrder(list)
LogInv == LogOk(log, SaidWords, SaidWaits) /\ LogAtFirst

(* What is logged once a provider may have been called.                    *)
LateOk(list, words, waits) ==
  /\ list \in Seq(Range(list)) /\ Speaks(list, words, waits)
  /\ \A i \in DOMAIN list : StepOf(list[i].event) \in {0, 4}

LEMMA StepIsKnown == \A name : StepOf(name) \in 0 .. 4
  BY DEF StepOf

LEMMA LogGrows ==
  ASSUME NEW a, NEW b, NEW W, NEW V, NEW W2, NEW V2, W \subseteq W2, V \subseteq V2,
         LogOk(a, W, V), LateOk(b, W2, V2)
  PROVE  LogOk(a \o b, W2, V2)
<1> DEFINE c == a \o b
           n == Len(a)
<1>1. /\ c \in Seq(Range(c)) /\ n \in Nat /\ Len(b) \in Nat
      /\ DOMAIN a = 1 .. n /\ DOMAIN b = 1 .. Len(b) /\ DOMAIN c = 1 .. n + Len(b)
      /\ \A i \in 1 .. n : c[i] = a[i]
      /\ \A i \in 1 .. n + Len(b) : i > n => c[i] = b[i - n] /\ i - n \in 1 .. Len(b)
  BY TwoLists DEF LogOk, LateOk
<1> HIDE DEF c, n
<1>2. Speaks(c, W2, V2)
  <2> SUFFICES ASSUME NEW i \in 1 .. n + Len(b)
               PROVE  /\ c[i].words \subseteq W2
                      /\ WaitReasonOf(c[i].event) \in V2 \cup {"none"}
    BY <1>1 DEF Speaks
  <2>1. CASE i <= n
    <3>1. i \in DOMAIN a /\ c[i] = a[i]
      BY <1>1, <2>1
    <3> QED BY <3>1 DEF LogOk, Speaks
  <2>2. CASE i > n
    <3>1. c[i] = b[i - n] /\ i - n \in DOMAIN b
      BY <1>1, <2>2
    <3> QED BY <3>1 DEF LateOk, Speaks
  <2> QED BY <1>1, <2>1, <2>2
<1>3. InOrder(c)
  <2> SUFFICES ASSUME NEW i \in 1 .. n + Len(b), NEW j \in 1 .. n + Len(b), i < j,
                      StepOf(c[i].event) # 0, StepOf(c[j].event) # 0
               PROVE  StepOf(c[i].event) <= StepOf(c[j].event)
    BY <1>1 DEF InOrder
  <2>1. CASE j <= n
    <3>1. i \in DOMAIN a /\ j \in DOMAIN a /\ c[i] = a[i] /\ c[j] = a[j]
      BY <1>1, <2>1
    <3> QED BY <3>1 DEF LogOk, InOrder
  <2>2. CASE j > n
    <3>1. c[j] = b[j - n] /\ j - n \in DOMAIN b
      BY <1>1, <2>2
    <3>2. StepOf(c[j].event) = 4
      BY <3>1 DEF LateOk
    <3> QED BY <3>2, StepIsKnown
  <2> QED BY <1>1, <2>1, <2>2
<1> QED BY <1>1, <1>2, <1>3 DEF LogOk, c

LEMMA LogStays ==
  ASSUME NEW a, NEW W, NEW V, NEW W2, NEW V2, W \subseteq W2, V \subseteq V2, LogOk(a, W, V)
  PROVE  LogOk(a, W2, V2)
  BY DEF LogOk, Speaks

LEMMA LateGrows ==
  ASSUME NEW a, NEW b, NEW W, NEW V, LateOk(a, W, V), LateOk(b, W, V)
  PROVE  LateOk(a \o b, W, V)
<1> DEFINE c == a \o b
           n == Len(a)
<1>1. /\ c \in Seq(Range(c)) /\ n \in Nat /\ Len(b) \in Nat
      /\ DOMAIN a = 1 .. n /\ DOMAIN b = 1 .. Len(b) /\ DOMAIN c = 1 .. n + Len(b)
      /\ \A i \in 1 .. n : c[i] = a[i]
      /\ \A i \in 1 .. n + Len(b) : i > n => c[i] = b[i - n] /\ i - n \in 1 .. Len(b)
  BY TwoLists DEF LateOk
<1> HIDE DEF c, n
<1>2. ASSUME NEW i \in 1 .. n + Len(b)
      PROVE  /\ c[i].words \subseteq W /\ WaitReasonOf(c[i].event) \in V \cup {"none"}
             /\ StepOf(c[i].event) \in {0, 4}
  <2>1. CASE i <= n
    <3>1. i \in DOMAIN a /\ c[i] = a[i]
      BY <1>1, <2>1
    <3> QED BY <3>1 DEF LateOk, Speaks
  <2>2. CASE i > n
    <3>1. c[i] = b[i - n] /\ i - n \in DOMAIN b
      BY <1>1, <2>2
    <3> QED BY <3>1 DEF LateOk, Speaks
  <2> QED BY <1>1, <2>1, <2>2
<1>3. LateOk(c, W, V)
  BY <1>1, <1>2 DEF LateOk, Speaks
<1> QED BY <1>3 DEF c

LEMMA LateOne ==
  ASSUME NEW name, NEW shown, NEW said, NEW W, NEW V, said \subseteq W,
         WaitReasonOf(name) \in V \cup {"none"}, StepOf(name) \in {0, 4}
  PROVE  LateOk(<<Event(name, shown, said)>>, W, V)
<1> DEFINE e == Event(name, shown, said)
<1>1. e.event = name /\ e.words = said
  BY DEF Event
<1> HIDE DEF e
<1>2. <<e>> \in Seq({e}) /\ DOMAIN <<e>> = 1 .. 1 /\ <<e>>[1] = e
  OBVIOUS
<1>3. <<e>> \in Seq(Range(<<e>>))
  BY <1>2, SeqOfItsRange
<1> DEFINE list == <<e>>
<1> HIDE DEF list
<1>4. list \in Seq(Range(list)) /\ DOMAIN list = 1 .. 1 /\ list[1] = e
  BY <1>2, <1>3 DEF list
<1>5. LateOk(list, W, V)
  BY <1>1, <1>4 DEF LateOk, Speaks
<1> QED BY <1>5 DEF list, e

LEMMA LateNone == \A W, V : LateOk(<<>>, W, V)
<1>1. <<>> \in Seq(Range(<<>>)) /\ DOMAIN <<>> = {}
  BY EmptySeq
<1> QED BY <1>1 DEF LateOk, Speaks

--------------------------------------------------------------------------------
(* What is read off texts and events.                                      *)
LEMMA FirstKnownIs ==
  ASSUME NEW n \in Nat, NEW reasons, DOMAIN reasons = 1 .. n
  PROVE  /\ FirstKnown(reasons) # "none" => \E i \in 1 .. n : FirstKnown(reasons) = reasons[i]
         /\ \A k \in 1 .. n : reasons[k] # "none" /\ (\A j \in 1 .. k - 1 : reasons[j] = "none")
              => FirstKnown(reasons) = reasons[k]
<1> DEFINE known == {i \in 1 .. n : reasons[i] # "none"}
<1>1. FirstKnown(reasons) = IF known = {} THEN "none" ELSE reasons[Min(known)]
  BY DEF FirstKnown
<1>2. known \in SUBSET (1 .. n)
  OBVIOUS
<1>3. ASSUME FirstKnown(reasons) # "none"
      PROVE  \E i \in 1 .. n : FirstKnown(reasons) = reasons[i]
  <2> HIDE DEF known
  <2>1. known # {} /\ FirstKnown(reasons) = reasons[Min(known)]
    BY <1>1, <1>3
  <2>2. Min(known) \in known
    BY <1>2, <2>1, FirstPosition
  <2> QED BY <1>2, <2>1, <2>2
<1>4. ASSUME NEW k \in 1 .. n, reasons[k] # "none", \A j \in 1 .. k - 1 : reasons[j] = "none"
      PROVE  FirstKnown(reasons) = reasons[k]
  <2>1. k \in known
    BY <1>4
  <2>2. \A j \in known : k <= j
    BY <1>4
  <2>3. known \subseteq Int /\ known # {}
    BY <1>2, <2>1
  <2> HIDE DEF known
  <2>4. Min(known) = k
    BY <2>1, <2>2, <2>3, MinIs
  <2> QED BY <1>1, <2>3, <2>4
<1> QED BY <1>3, <1>4

LEMMA FirstKnownAt ==
  ASSUME NEW n \in Nat, NEW reasons, DOMAIN reasons = 1 .. n, NEW k \in 1 .. n,
         reasons[k] # "none", \A j \in 1 .. k - 1 : reasons[j] = "none"
  PROVE  FirstKnown(reasons) = reasons[k]
  BY FirstKnownIs

LEMMA FirstOfThree ==
  ASSUME NEW a, NEW b, NEW c
  PROVE  FirstKnown(<<a, b, c>>) = IF a # "none" THEN a ELSE IF b # "none" THEN b ELSE c
<1> DEFINE s == <<a, b, c>>
<1>1. /\ DOMAIN s = 1 .. 3 /\ s[1] = a /\ s[2] = b /\ s[3] = c
      /\ 3 \in Nat /\ 1 \in 1 .. 3 /\ 2 \in 1 .. 3 /\ 3 \in 1 .. 3
  OBVIOUS
<1> HIDE DEF s
<1>2. CASE a # "none"
  <2>1. s[1] # "none" /\ \A j \in 1 .. 1 - 1 : s[j] = "none"
    BY <1>1, <1>2
  <2>2. FirstKnown(s) = s[1]
    BY <1>1, <2>1, FirstKnownAt
  <2> QED BY <1>1, <1>2, <2>2 DEF s
<1>3. CASE a = "none" /\ b # "none"
  <2>1. s[2] # "none" /\ \A j \in 1 .. 2 - 1 : s[j] = "none"
    BY <1>1, <1>3
  <2>2. FirstKnown(s) = s[2]
    BY <1>1, <2>1, FirstKnownAt
  <2> QED BY <1>1, <1>3, <2>2 DEF s
<1>4. CASE a = "none" /\ b = "none" /\ c # "none"
  <2>1. s[3] # "none" /\ \A j \in 1 .. 3 - 1 : s[j] = "none"
    BY <1>1, <1>4
  <2>2. FirstKnown(s) = s[3]
    BY <1>1, <2>1, FirstKnownAt
  <2> QED BY <1>1, <1>4, <2>2 DEF s
<1>5. CASE a = "none" /\ b = "none" /\ c = "none"
  <2>1. \A i \in 1 .. 3 : s[i] = "none"
    BY <1>1, <1>5
  <2>2. {i \in DOMAIN s : s[i] # "none"} = {}
    BY <1>1, <2>1
  <2>3. FirstKnown(s) = "none"
    BY <2>2 DEF FirstKnown
  <2> QED BY <1>5, <2>3 DEF s
<1> QED BY <1>2, <1>3, <1>4, <1>5

LEMMA SearchFinds ==
  ASSUME NEW V, NEW reasons \in Seq(V), NEW words
  PROVE  Searched(words, reasons) # "none" =>
           Searched(words, reasons) \in words /\ Searched(words, reasons) \in V
<1> DEFINE n == Len(reasons)
           found == [i \in DOMAIN reasons |->
                       IF Says(words, reasons[i]) THEN reasons[i] ELSE "none"]
<1>1. n \in Nat /\ DOMAIN reasons = 1 .. n /\ \A i \in 1 .. n : reasons[i] \in V
  BY ElementOfSeq, LenProperties
<1>2. Searched(words, reasons) = FirstKnown(found)
  BY DEF Searched
<1> HIDE DEF n
<1>3. DOMAIN found = 1 .. n
  BY <1>1
<1>4. \A i \in 1 .. n : found[i] # "none" => found[i] \in words /\ found[i] \in V
  BY <1>1 DEF Says
<1> HIDE DEF found
<1>5. FirstKnown(found) # "none" => \E i \in 1 .. n : FirstKnown(found) = found[i]
  BY <1>1, <1>3, FirstKnownIs
<1> QED BY <1>2, <1>4, <1>5

LEMMA TextIsKnown == \A words : ClassifyText(words) \in words \cup {"none"}
<1> TAKE words
<1> DEFINE V == {"trust_required", "auth_required", "tool_approval_required", "skill_discovery",
                 "workspace_scan", "provider_unavailable", "normalization_failed",
                 "network_error"}
           more == <<"provider_unavailable", "normalization_failed", "network_error">>
<1>1. Waits \in Seq(V) /\ more \in Seq(V) /\ TextReasons = Waits \o more
  BY DEF Waits, TextReasons
<1> HIDE DEF V, more
<1>2. TextReasons \in Seq(V)
  BY <1>1, ConcatProperties
<1> QED BY <1>2, SearchFinds DEF ClassifyText

WaitNames == DOMAIN WaitEvents

LEMMA WaitsAreKnown ==
  /\ Waits \in Seq(WaitNames)
  /\ \A reason \in WaitNames :
       WaitReasonOf(WaitEvents[reason]) = reason /\ StepOf(WaitEvents[reason]) = 0
<1>1. WaitNames = {"trust_required", "auth_required", "tool_approval_required",
                   "skill_discovery", "workspace_scan"}
  BY DEF WaitNames, WaitEvents
<1>2. Waits \in Seq(WaitNames)
  BY <1>1 DEF Waits
<1>3. /\ WaitEvents["trust_required"] = "waiting_for_trust"
      /\ WaitEvents["auth_required"] = "waiting_for_auth"
      /\ WaitEvents["tool_approval_required"] = "waiting_for_tool_approval"
      /\ WaitEvents["skill_discovery"] = "waiting_for_skill_discovery"
      /\ WaitEvents["workspace_scan"] = "waiting_for_workspace_scan"
  BY DEF WaitEvents
<1>4. ASSUME NEW reason \in WaitNames
      PROVE  WaitReasonOf(WaitEvents[reason]) = reason
  <2> DEFINE named == {r \in WaitNames : WaitEvents[r] = WaitEvents[reason]}
  <2>1. \A r \in WaitNames : WaitEvents[r] = WaitEvents[reason] => r = reason
    BY <1>1, <1>3
  <2>2. named = {reason}
    BY <2>1
  <2>3. WaitReasonOf(WaitEvents[reason])
          = IF named = {} THEN "none" ELSE CHOOSE r \in named : TRUE
    BY DEF WaitReasonOf, WaitNames
  <2> HIDE DEF named
  <2> QED BY <2>2, <2>3
<1>5. \A reason \in WaitNames : StepOf(WaitEvents[reason]) = 0
  BY <1>1, <1>3 DEF StepOf
<1> QED BY <1>2, <1>4, <1>5

LEMMA PlainNames ==
  /\ \A name \in {"run.accepted", "run.queued", "provider.probe.started",
                  "provider.probe.completed", "workspace.prepare.started",
                  "workspace.prepare.completed", "context.compile.started",
                  "context.compile.completed", "provider.boot.started", "parse.started",
                  "parse.completed", "provider.first_output", "provider.heartbeat",
                  "provider.first_output.warning", "run.completed", "run.failed",
                  "run.timed_out", "run.cancelled"} : WaitReasonOf(name) = "none"
  /\ \A name \in {"run.accepted", "run.queued", "workspace.prepare.completed",
                  "context.compile.started", "context.compile.completed",
                  "provider.boot.started", "parse.started",
                  "parse.completed", "provider.first_output", "provider.heartbeat",
                  "provider.first_output.warning", "run.completed", "run.failed",
                  "run.timed_out", "run.cancelled"} : StepOf(name) \in {0, 4}
<1>1. /\ WaitNames = {"trust_required", "auth_required", "tool_approval_required",
                      "skill_discovery", "workspace_scan"}
      /\ WaitEvents["trust_required"] = "waiting_for_trust"
      /\ WaitEvents["auth_required"] = "waiting_for_auth"
      /\ WaitEvents["tool_approval_required"] = "waiting_for_tool_approval"
      /\ WaitEvents["skill_discovery"] = "waiting_for_skill_discovery"
      /\ WaitEvents["workspace_scan"] = "waiting_for_workspace_scan"
  BY DEF WaitNames, WaitEvents
<1>2. ASSUME NEW name, \A reason \in WaitNames : WaitEvents[reason] # name
      PROVE  WaitReasonOf(name) = "none"
  BY <1>2 DEF WaitReasonOf, WaitNames
<1>3. \A name \in {"run.accepted", "run.queued", "provider.probe.started",
                  "provider.probe.completed", "workspace.prepare.started",
                  "workspace.prepare.completed", "context.compile.started",
                  "context.compile.completed", "provider.boot.started", "parse.started",
                  "parse.completed", "provider.first_output", "provider.heartbeat",
                  "provider.first_output.warning", "run.completed", "run.failed",
                  "run.timed_out", "run.cancelled"} :
        name \notin {"waiting_for_trust", "waiting_for_auth", "waiting_for_tool_approval",
                     "waiting_for_skill_discovery", "waiting_for_workspace_scan"}
  OBVIOUS
<1>4. \A name : name \notin {"waiting_for_trust", "waiting_for_auth", "waiting_for_tool_approval",
                     "waiting_for_skill_discovery", "waiting_for_workspace_scan"} =>
        WaitReasonOf(name) = "none"
  BY <1>1, <1>2
<1> QED BY <1>3, <1>4 DEF StepOf

LEMMA SignalIsKnown ==
  ASSUME NEW words, NEW W, NEW V, words \subseteq V
  PROVE  LateOk(WaitSignal(words), W, V)
<1> DEFINE reason == Searched(words, Waits)
<1>1. CASE reason = "none"
  BY <1>1, LateNone DEF WaitSignal
<1>2. CASE reason # "none"
  <2>1. reason \in words /\ reason \in WaitNames
    BY <1>2, WaitsAreKnown, SearchFinds
  <2> DEFINE name == WaitEvents[reason]
  <2>2. WaitReasonOf(name) = reason /\ StepOf(name) = 0
    BY <2>1, WaitsAreKnown
  <2>3. WaitSignal(words) = <<Event(name, name, {})>>
    BY <1>2 DEF WaitSignal
  <2> HIDE DEF name, reason
  <2> QED BY <2>1, <2>2, <2>3, LateOne
<1> QED BY <1>1, <1>2

(* Without a stall, a reason is one of the words or waits of the log.      *)
LEMMA ReasonIsSaid ==
  ASSUME NEW list, NEW W, NEW V, LogOk(list, W, V), NEW words, NEW run_status
  PROVE  BlockReason(run_status, FALSE, list, words) \in words \cup W \cup V \cup {"none"}
<1> DEFINE n == Len(list)
           K == W \cup V \cup {"none"}
           back == Reverse(list)
           reasons == [i \in DOMAIN list |-> EventReason(back[i], FALSE)]
<1>1. n \in Nat /\ DOMAIN list = 1 .. n /\ \A i \in 1 .. n : back[i] = list[(n - i) + 1]
  BY LenProperties DEF LogOk, Reverse
<1>2. ASSUME NEW i \in 1 .. n PROVE EventReason(list[i], FALSE) \in K
  <2> DEFINE e == list[i]
  <2>1. e.words \subseteq W /\ WaitReasonOf(e.event) \in V \cup {"none"}
    BY <1>1 DEF LogOk, Speaks
  <2> HIDE DEF e
  <2>2. EventReason(e, FALSE) = FirstKnown(<<WaitReasonOf(e.event), "none", ClassifyText(e.words)>>)
    BY DEF EventReason
  <2>3. ClassifyText(e.words) \in W \cup {"none"}
    BY <2>1, TextIsKnown
  <2> DEFINE a == WaitReasonOf(e.event)
             c == ClassifyText(e.words)
  <2> HIDE DEF a, c
  <2>4. FirstKnown(<<a, "none", c>>) = IF a # "none" THEN a ELSE c
    BY FirstOfThree
  <2>5. FirstKnown(<<a, "none", c>>) \in K
    BY <2>1, <2>3, <2>4 DEF a, c
  <2> QED BY <2>2, <2>5 DEF e, a, c
<1> HIDE DEF n, back
<1>3. DOMAIN reasons = 1 .. n /\ \A i \in 1 .. n : reasons[i] \in K
  <2>1. \A i \in 1 .. n : (n - i) + 1 \in 1 .. n
    BY <1>1
  <2> HIDE DEF K
  <2> QED BY <1>1, <1>2, <2>1
<1>4. ClassifyEvents(list, FALSE) \in K
  <2>1. ClassifyEvents(list, FALSE) = FirstKnown(reasons)
    BY DEF ClassifyEvents, back
  <2>2. "none" \in K
    OBVIOUS
  <2> HIDE DEF reasons, K
  <2>3. FirstKnown(reasons) # "none" => \E i \in 1 .. n : FirstKnown(reasons) = reasons[i]
    BY <1>1, <1>3, FirstKnownIs
  <2> QED BY <1>3, <2>1, <2>2, <2>3
<1>5. BlockReason(run_status, FALSE, list, words)
        = IF run_status = "Succeeded" THEN "none"
          ELSE FirstKnown(<<ClassifyText(words), ClassifyEvents(list, FALSE), "none">>)
  BY DEF BlockReason
<1>6. ClassifyText(words) \in words \cup {"none"}
  BY TextIsKnown
<1> DEFINE a == ClassifyText(words)
           b == ClassifyEvents(list, FALSE)
<1> HIDE DEF a, b
<1>7. FirstKnown(<<a, b, "none">>) = IF a # "none" THEN a ELSE b
  BY FirstOfThree
<1>8. FirstKnown(<<a, b, "none">>) \in words \cup K
  BY <1>4, <1>6, <1>7 DEF a, b
<1> QED BY <1>5, <1>8 DEF a, b

(* With one, it is that of the last event that says something.             *)
LEMMA StallIsSaid ==
  ASSUME NEW n \in Nat, NEW list, Len(list) = n, DOMAIN list = 1 .. n, NEW k \in 1 .. n,
         \A j \in k + 1 .. n : EventReason(list[j], TRUE) = "none",
         EventReason(list[k], TRUE) # "none", NEW words, NEW run_status
  PROVE  BlockReason(run_status, TRUE, list, words)
           \in words \cup {"none", EventReason(list[k], TRUE)}
<1> DEFINE back == Reverse(list)
           reasons == [i \in DOMAIN list |-> EventReason(back[i], TRUE)]
           shown == EventReason(list[k], TRUE)
           at == (n - k) + 1
<1>1. \A i \in 1 .. n : back[i] = list[(n - i) + 1]
  BY DEF Reverse
<1> HIDE DEF back
<1>2. DOMAIN reasons = 1 .. n /\ \A i \in 1 .. n : reasons[i] = EventReason(list[(n - i) + 1], TRUE)
  BY <1>1
<1>3. at \in 1 .. n /\ (n - at) + 1 = k /\ \A j \in 1 .. at - 1 :
         j \in 1 .. n /\ (n - j) + 1 \in k + 1 .. n
  OBVIOUS
<1>4. ClassifyEvents(list, TRUE) = FirstKnown(reasons)
  BY DEF ClassifyEvents, back
<1> HIDE DEF reasons, at
<1>5. reasons[at] = shown /\ \A j \in 1 .. at - 1 : reasons[j] = "none"
  BY <1>2, <1>3
<1>6. ClassifyEvents(list, TRUE) = shown
  <2>1. reasons[at] # "none"
    BY <1>5
  <2>2. FirstKnown(reasons) = reasons[at]
    <3>1. DOMAIN reasons = 1 .. n /\ at \in 1 .. n /\ \A j \in 1 .. at - 1 : reasons[j] = "none"
      BY <1>2, <1>3, <1>5
    <3> QED BY <2>1, <3>1, FirstKnownAt
  <2> QED BY <1>4, <1>5, <2>2
<1> DEFINE last == Fallback(Last(list).phase)
<1>7. BlockReason(run_status, TRUE, list, words)
        = IF run_status = "Succeeded" THEN "none"
          ELSE FirstKnown(<<ClassifyText(words), shown, last>>)
  BY <1>6 DEF BlockReason
<1>8. shown # "none" /\ ClassifyText(words) \in words \cup {"none"}
  BY TextIsKnown
<1> DEFINE a == ClassifyText(words)
<1> HIDE DEF last, shown, a
<1>9. FirstKnown(<<a, shown, last>>) = IF a # "none" THEN a ELSE shown
  BY <1>8, FirstOfThree
<1>10. FirstKnown(<<a, shown, last>>) \in words \cup {"none", shown}
  BY <1>8, <1>9 DEF a
<1> QED BY <1>7, <1>10 DEF shown, a

LEMMA EventStalls ==
  /\ EventReason(Accepted[3], TRUE) = "provider_probe"
  /\ EventReason(Preparing, TRUE) = "workspace_prepare"
  /\ EventReason(Arrived, TRUE) = "none"
<1>1. ASSUME NEW e, NEW reason, reason # "none", WaitReasonOf(e.event) = "none",
             StallReason(e.event) = reason
      PROVE  EventReason(e, TRUE) = reason
  <2>1. EventReason(e, TRUE)
          = FirstKnown(<<WaitReasonOf(e.event), StallReason(e.event), ClassifyText(e.words)>>)
    BY DEF EventReason
  <2> QED BY <1>1, <2>1, FirstOfThree
<1>2. EventReason(Accepted[3], TRUE) = "provider_probe"
  <2> DEFINE e == Accepted[3]
  <2>1. e.event = "provider.probe.started"
    BY DEF Accepted, Event
  <2>2. StallReason(e.event) = "provider_probe" /\ WaitReasonOf(e.event) = "none"
    BY <2>1, PlainNames DEF StallReason
  <2> HIDE DEF e
  <2>3. EventReason(e, TRUE) = "provider_probe"
    BY <1>1, <2>2
  <2> QED BY <2>3 DEF e
<1>3. EventReason(Preparing, TRUE) = "workspace_prepare"
  <2>1. Preparing.event = "workspace.prepare.started"
    BY DEF Preparing, Event
  <2>2. StallReason(Preparing.event) = "workspace_prepare" /\ WaitReasonOf(Preparing.event) = "none"
    BY <2>1, PlainNames DEF StallReason
  <2> QED BY <1>1, <2>2
<1>4. EventReason(Arrived, TRUE) = "none"
  <2>1. Arrived.event = "workspace.prepare.completed" /\ Arrived.words = {}
    BY DEF Arrived, Event
  <2>2. /\ StallReason(Arrived.event) = "none" /\ WaitReasonOf(Arrived.event) = "none"
        /\ ClassifyText(Arrived.words) = "none"
    BY <2>1, PlainNames, TextIsKnown DEF StallReason
  <2>3. EventReason(Arrived, TRUE) = FirstKnown(<<"none", "none", "none">>)
    BY <2>2 DEF EventReason
  <2> QED BY <2>3, FirstOfThree
<1> QED BY <1>2, <1>3, <1>4

(* The reasons of all waits are waits of the log.                          *)
LEMMA WaitsAreSaid ==
  ASSUME NEW list, NEW W, NEW V, LogOk(list, W, V)
  PROVE  Range(WaitReasons(list)) \subseteq V
<1> DEFINE n == Len(list)
           M == Seq(V)
           X == Range(list)
           Read(reasons, event) ==
             LET reason == WaitReasonOf(event.event)
             IN IF reason = "none" \/ reason \in Range(reasons) THEN reasons
                ELSE Append(reasons, reason)
           by == [x \in M \X X |-> Read(x[1], x[2])]
           Is(f) == f = [i \in 0 .. n |-> IF i = 0 THEN <<>> ELSE Read(f[i - 1], list[i])]
           read == CHOOSE f : Is(f)
<1>1. n \in Nat /\ DOMAIN list = 1 .. n /\ \A i \in 1 .. n : list[i] \in X
  BY LenProperties DEF LogOk, Range
<1>2. WaitReasons(list) = read[n]
  BY DEF WaitReasons, Loop
<1>3. \A a \in M, x \in X : Read(a, x) \in M
  <2> TAKE a \in M, x \in X
  <2>1. WaitReasonOf(x.event) \in V \cup {"none"}
    BY DEF LogOk, Speaks, Range
  <2> QED BY <2>1, AppendProperties
<1>4. by \in [M \X X -> M]
  BY <1>3
<1>5. <<>> \in M
  BY EmptySeq
<1> HIDE DEF n, Read
<1>6. \E f : Is(f)
  <2>1. \A a \in M, x \in X : by[<<a, x>>] = Read(a, x)
    OBVIOUS
  <2> HIDE DEF by, M, X
  <2>2. PICK f : MadeBy(by, <<>>, list, n, M, f)
    BY <1>1, <1>4, <1>5, LoopExists
  <2>3. \A i \in 1 .. n : i - 1 \in 0 .. n
    BY <1>1
  <2>4. \A i \in 1 .. n : f[i] = Read(f[i - 1], list[i])
    BY <1>1, <2>1, <2>2, <2>3 DEF MadeBy
  <2>5. \A i \in 0 .. n : i = 0 \/ i \in 1 .. n
    BY <1>1
  <2>6. f[0] = <<>> /\ f = [i \in 0 .. n |-> f[i]]
    BY <2>2 DEF MadeBy
  <2>7. \A i \in 0 .. n : f[i] = IF i = 0 THEN <<>> ELSE Read(f[i - 1], list[i])
    BY <2>4, <2>5, <2>6
  <2>8. Is(f)
    BY <2>6, <2>7
  <2> QED BY <2>8
<1>7. Is(read)
  BY <1>6
<1> HIDE DEF read
<1>8. read[0] = <<>> /\ \A i \in 1 .. n : read[i] = Read(read[i - 1], list[i])
  BY <1>1, <1>7
<1>9. \A i \in 1 .. n : read[i - 1] \in M => read[i] \in M
  BY <1>1, <1>3, <1>8
<1> HIDE DEF M
<1>10. \A i \in 0 .. n : read[i] \in M
  BY <1>1, <1>5, <1>8, <1>9, LoopStays
<1>11. read[n] \in Seq(V)
  BY <1>1, <1>10 DEF M
<1>12. \A i \in DOMAIN read[n] : read[n][i] \in V
  BY <1>11, ElementOfSeq, LenProperties
<1> QED BY <1>2, <1>12 DEF Range

--------------------------------------------------------------------------------
(* What may be said grows only.                                            *)
LEMMA SaidEarly ==
  ASSUME RecordInv, phase \notin Recorded \cup {"settled"}, UNCHANGED setting
  PROVE  /\ SaidWords \subseteq SaidWords' /\ SaidWaits = {} /\ Late = {}
         /\ NameWords(request.agent) \cup ProbeWords(setting.env.version) \subseteq SaidWords'
         /\ Late' \subseteq SaidWords' /\ Late' \subseteq SaidWaits'
         /\ LastWords' \subseteq SaidWaits'
<1>1. step # "returned"
  BY DEF RecordInv, NotYetRecorded
<1>2. Late = {} /\ LastWords = {}
  BY <1>1 DEF Late, LastWords
<1>3. request' = request
  BY DEF request
<1> QED BY <1>2, <1>3 DEF SaidWords, SaidWaits

LEMMA SaidLate ==
  ASSUME RecordInv, Save \/ Restart \/ RequestOver \/ UNCHANGED <<requestVars, vars>>
  PROVE  UNCHANGED log /\ SaidWords \subseteq SaidWords' /\ SaidWaits \subseteq SaidWaits'
<1>1. UNCHANGED <<setting, printed, step, ended, log>>
  BY DEF Save, Restart, RequestOver, requestVars, vars
<1>2. Late \subseteq Late'
  <2>1. CASE Save
    BY <2>1 DEF Save, Late, Recorded
  <2>2. CASE Restart \/ RequestOver \/ UNCHANGED <<requestVars, vars>>
    <3>1. UNCHANGED disk /\ (phase \in Recorded => phase' \in Recorded)
      BY <2>2 DEF Restart, RequestOver, requestVars, Recorded
    <3>2. (ErrorWords(disk.meta.error))' = ErrorWords(disk.meta.error)
      BY <1>1, <3>1 DEF ErrorWords
    <3> QED BY <3>1, <3>2 DEF Late
  <2> QED BY <2>1, <2>2
<1>3. LastWords' = LastWords /\ request' = request
  BY <1>1 DEF LastWords, request
<1> QED BY <1>1, <1>2, <1>3 DEF SaidWords, SaidWaits

(* How a log grows once its first events are there.                        *)
Grew ==
  log' = log \/ \E more : log' = log \o more /\ LateOk(more, SaidWords', SaidWaits')

LEMMA GrownIsOk ==
  ASSUME LogOk(log, SaidWords, SaidWaits), SaidWords \subseteq SaidWords',
         SaidWaits \subseteq SaidWaits', Grew
  PROVE  (LogOk(log, SaidWords, SaidWaits))'
<1> DEFINE W == SaidWords'
           V == SaidWaits'
<1> HIDE DEF W, V
<1>0. SaidWords \subseteq W /\ SaidWaits \subseteq V
  BY DEF W, V
<1>1. CASE log' = log
  <2>1. LogOk(log, W, V)
    BY <1>0, LogStays
  <2> QED BY <1>1, <2>1 DEF LogOk, Speaks, W, V
<1>2. ASSUME NEW more, log' = log \o more, LateOk(more, W, V)
      PROVE  (LogOk(log, SaidWords, SaidWaits))'
  <2>1. LogOk(log \o more, W, V)
    BY <1>0, <1>2, LogGrows
  <2> QED BY <1>2, <2>1 DEF W, V
<1> QED BY <1>1, <1>2 DEF Grew, W, V

LEMMA OneGrows ==
  ASSUME NEW name, NEW shown, NEW said, said \subseteq SaidWords',
         WaitReasonOf(name) = "none", StepOf(name) \in {0, 4},
         log' = log \o <<Event(name, shown, said)>>
  PROVE  Grew
<1> DEFINE W == SaidWords'
           V == SaidWaits'
<1> HIDE DEF W, V
<1>1. LateOk(<<Event(name, shown, said)>>, W, V)
  BY LateOne DEF W
<1> QED BY <1>1 DEF Grew, W, V

(* The error of a spawned run is on record when it is over.                *)
LEMMA FailedWords ==
  ASSUME NEW error, NEW events, Fail(error, events), async,
         UNCHANGED <<setting, printed, ended>>
  PROVE  Late' = ErrorWords(error) /\ log' = log \o events /\ phase' = "over"
<1> DEFINE r == Record(accepted, "Failed", error, NoOutput("Failed"))
<1>1. r.error = error /\ r.status = "Failed"
  BY DEF Record
<1> HIDE DEF r
<1>2. phase' = "over" /\ log' = log \o events /\ Persist(r)
  BY DEF Fail, LogIfSpawned, r
<1>3. disk'.meta = r
  BY <1>2 DEF Persist
<1>4. disk'.meta # NoRecord
  BY <1>1, <1>3 DEF NoRecord
<1>5. (ErrorWords(disk.meta.error))' = ErrorWords(error)
  BY <1>1, <1>3 DEF ErrorWords
<1> QED BY <1>2, <1>4, <1>5 DEF Late, Recorded

LEMMA StopSays ==
  ASSUME NEW error, NEW words, words = ErrorWords(error), NEW W, NEW V,
         words \subseteq W, words \subseteq V
  PROVE  LateOk(WaitSignal(words) \o <<Event("run.failed", "execution", words)>>, W, V)
<1>1. LateOk(WaitSignal(words), W, V)
  BY SignalIsKnown
<1>2. LateOk(<<Event("run.failed", "execution", words)>>, W, V)
  <2>1. WaitReasonOf("run.failed") = "none" /\ StepOf("run.failed") \in {0, 4}
    BY PlainNames
  <2> QED BY <2>1, LateOne
<1> QED BY <1>1, <1>2, LateGrows

LEMMA StopGrows ==
  ASSUME RecordInv, phase \notin Recorded \cup {"settled"}, NEW error, Stop(error),
         UNCHANGED <<setting, printed, ended>>
  PROVE  Grew /\ phase' = "over"
<1> DEFINE words == ErrorWords(error)
           more  == WaitSignal(words) \o <<Event("run.failed", "execution", words)>>
<1>1. CASE ~async
  BY <1>1 DEF Stop, Fail, LogIfSpawned, Grew
<1>2. CASE async
  <2>1. Late' = words /\ log' = log \o more /\ phase' = "over"
    BY <1>2, FailedWords DEF Stop
  <2>2. words \subseteq SaidWords' /\ words \subseteq SaidWaits'
    BY <2>1, SaidEarly
  <2> DEFINE W == SaidWords'
             V == SaidWaits'
  <2> HIDE DEF W, V, words
  <2>3. words = ErrorWords(error) /\ words \subseteq W /\ words \subseteq V
    BY <2>2 DEF W, V, words
  <2>4. LateOk(more, W, V)
    BY <2>3, StopSays
  <2> QED BY <2>1, <2>4 DEF Grew, W, V
<1> QED BY <1>1, <1>2

LEMMA GrowsByMore ==
  ASSUME NEW more, log' = log \o more,
         \A W, V : SaidWords' \subseteq W /\ SaidWaits' \subseteq V => LateOk(more, W, V)
  PROVE  Grew
<1> DEFINE W == SaidWords'
           V == SaidWaits'
<1> HIDE DEF W, V
<1>1. SaidWords' \subseteq W /\ SaidWaits' \subseteq V
  BY DEF W, V
<1>2. LateOk(more, W, V)
  BY <1>1
<1> QED BY <1>2 DEF Grew, W, V

LEMMA CallsGrow ==
  ASSUME log \in Seq(Range(log)), Compile \/ Call
  PROVE  Grew
<1>1. CASE Compile
  <2>1. log' = log \o <<Event("context.compile.started", "context_compile", {})>>
    BY <1>1, OneMore DEF Compile
  <2> QED BY <2>1, OneGrows, PlainNames
<1>2. CASE Call
  <2> DEFINE boot == Event("provider.boot.started", "provider_boot", {})
             late == IF status = "ParsingSummary" THEN Event("parse.completed", "parse", {})
                     ELSE Event("context.compile.completed", "context_compile", {})
  <2>1. log' = log \o <<boot, late>>
    BY <1>2 DEF Call
  <2>2. \A W, V : LateOk(<<boot>>, W, V) /\ LateOk(<<late>>, W, V)
    BY LateOne, PlainNames
  <2> HIDE DEF boot, late
  <2>3. <<boot, late>> = <<boot>> \o <<late>>
    BY TwoInAList
  <2>4. \A W, V : LateOk(<<boot, late>>, W, V)
    BY <2>2, <2>3, LateGrows
  <2> QED BY <2>1, <2>4, GrowsByMore
<1> QED BY <1>1, <1>2

LEMMA StreamedSays == \A W, V, answer : LateOk(Streamed(answer), W, V)
<1>1. \A W, V : LateOk(<<FirstOutput>>, W, V)
  BY LateOne, PlainNames DEF FirstOutput
<1> QED BY <1>1, LateNone DEF Streamed

LEMMA AnswersGrow ==
  ASSUME LogOk(log, SaidWords, SaidWaits), NEW answer, CallAgain(answer) \/ Answer(answer)
  PROVE  Grew
<1>1. CASE CallAgain(answer)
  <2>1. log' = log \o Streamed(answer)
    BY <1>1 DEF CallAgain
  <2> QED BY <2>1, StreamedSays, GrowsByMore
<1>2. CASE Answer(answer)
  <2> DEFINE more == Streamed(answer)
             last == <<Event("parse.started", "parse", {})>>
  <2>1. log' = (log \o more) \o last
    BY <1>2 DEF Answer
  <2>2. \A W, V : LateOk(more, W, V) /\ LateOk(last, W, V)
    BY StreamedSays, LateOne, PlainNames
  <2> HIDE DEF more, last
  <2>3. (log \o more) \o last = log \o (more \o last)
    BY <2>2, ThreeLists DEF LogOk, LateOk
  <2>4. \A W, V : LateOk(more \o last, W, V)
    BY <2>2, LateGrows
  <2>5. log' = log \o (more \o last)
    BY <2>1, <2>3
  <2> DEFINE both == more \o last
  <2> HIDE DEF both
  <2>6. log' = log \o both /\ \A W, V : LateOk(both, W, V)
    BY <2>4, <2>5 DEF both
  <2> QED BY <2>6, GrowsByMore
<1> QED BY <1>1, <1>2

LEMMA BeatGrows ==
  ASSUME LogOk(log, SaidWords, SaidWaits), NEW warns, Beat(warns)
  PROVE  Grew
<1> DEFINE seen == HasEvent(log, "provider.first_output")
           shown == IF seen THEN "running" ELSE "provider_boot"
           late == warns /\ ~seen
<1>1. log' = (log \o <<Event("provider.heartbeat", shown, {})>>)
               \o (IF late THEN <<Event("provider.first_output.warning", shown, {})>> ELSE <<>>)
  BY DEF Beat
<1> HIDE DEF seen, shown, late
<1> DEFINE a == <<Event("provider.heartbeat", shown, {})>>
           b == IF late THEN <<Event("provider.first_output.warning", shown, {})>> ELSE <<>>
<1>2. \A W, V : LateOk(a, W, V)
  BY LateOne, PlainNames
<1>3. \A W, V : LateOk(b, W, V)
  BY LateOne, LateNone, PlainNames
<1>4. log' = (log \o a) \o b
  BY <1>1
<1> HIDE DEF a, b
<1>5. (log \o a) \o b = log \o (a \o b)
  BY <1>2, <1>3, ThreeLists DEF LogOk, LateOk
<1>6. \A W, V : LateOk(a \o b, W, V)
  BY <1>2, <1>3, LateGrows
<1> DEFINE both == a \o b
<1> HIDE DEF both
<1>7. log' = log \o both /\ \A W, V : LateOk(both, W, V)
  BY <1>4, <1>5, <1>6 DEF both
<1> QED BY <1>7, GrowsByMore

LEMMA ArrivalGrows ==
  ASSUME RecordInv, LogOk(log, SaidWords, SaidWaits), MakeWorkspace \/ ReadMemory
  PROVE  Grew
<1>1. /\ phase \in {"ready", "in_workspace"} /\ UNCHANGED <<setting, printed, ended>>
      /\ log \in Seq(Range(log))
  BY DEF MakeWorkspace, ReadMemory, vars, LogOk
<1>2. phase \notin Recorded \cup {"settled"}
  BY <1>1 DEF Recorded
<1>3. ASSUME NEW error, Stop(error) PROVE Grew
  BY <1>1, <1>2, <1>3, StopGrows
<1>4. CASE MakeWorkspace
  <2>1. CASE log' = Append(log, Event("workspace.prepare.completed", "workspace_prepare", {}))
    <3>1. log' = log \o <<Event("workspace.prepare.completed", "workspace_prepare", {})>>
      BY <1>1, <2>1, OneMore
    <3> QED BY <3>1, OneGrows, PlainNames
  <2> QED BY <1>3, <1>4, <2>1 DEF MakeWorkspace
<1>5. CASE ReadMemory
  BY <1>3, <1>5 DEF ReadMemory, Grew
<1> QED BY <1>4, <1>5

LEMMA EndingGrows ==
  ASSUME RecordInv, LogOk(log, SaidWords, SaidWaits), FailGate \/ CallError \/ Cancel
  PROVE  Grew /\ phase' = "over"
<1>1. CASE Cancel
  <2>1. log' = log \o <<Event("run.cancelled", "completed", {})>> /\ phase' = "over"
    BY <1>1, OneMore DEF Cancel, LogOk
  <2> QED BY <2>1, OneGrows, PlainNames
<1>2. CASE FailGate \/ CallError
  <2>1. /\ phase \in {"gated", "call_failed", "calling", "calling_again"}
        /\ UNCHANGED <<setting, printed, ended>>
        /\ \E error : Stop(error)
    BY <1>2 DEF FailGate, CallError, Refuse, RunnerError
  <2>2. phase \notin Recorded \cup {"settled"}
    BY <2>1 DEF Recorded
  <2> QED BY <2>1, <2>2, StopGrows
<1> QED BY <1>1, <1>2

LEMMA SettledGrows ==
  ASSUME RecordInv, TypeOK, LogOk(log, SaidWords, SaidWaits), Settle
  PROVE  Grew
<1> DEFINE words == WordsIn(Range(printed.stdout \o printed.stderr))
           run_status == final.judged.status
           end == <<Event(FinalEvents[run_status], "completed", {})>>
           heard == IF /\ printed.stdout \o printed.stderr # <<>>
                       /\ ~HasEvent(log, "provider.first_output")
                    THEN <<FirstOutput>> ELSE <<>>
           a == <<Event("parse.completed", "parse", {})>>
           b == IF async THEN LastEvents(run_status) ELSE <<>>
<1>1. /\ phase = "dispatching" /\ step' = "returned" /\ UNCHANGED <<setting, printed>>
      /\ log' = Append(log, Event("parse.completed", "parse", {})) \o b
  BY DEF Settle, Finalize
<1>2. words \subseteq SaidWaits'
  <2>1. LastWords' = words
    BY <1>1 DEF LastWords
  <2> QED BY <2>1 DEF SaidWaits
<1>3. LastEvents(run_status) = (heard \o WaitSignal(words)) \o end
  BY DEF LastEvents
<1>4. FinalEvents[run_status] \in {"run.completed", "run.failed", "run.timed_out", "run.cancelled"}
  BY DEF TypeOK, TerminalPhases, FinalEvents
<1>5. \A W, V : LateOk(a, W, V) /\ LateOk(end, W, V)
  <2> DEFINE name == FinalEvents[run_status]
  <2> HIDE DEF name
  <2>1. WaitReasonOf(name) = "none" /\ StepOf(name) \in {0, 4}
    BY <1>4, PlainNames DEF name
  <2>2. \A W, V : LateOk(<<Event(name, "completed", {})>>, W, V)
    BY <2>1, LateOne
  <2>3. \A W, V : LateOk(a, W, V)
    BY LateOne, PlainNames
  <2> QED BY <2>2, <2>3 DEF name
<1>6. \A W, V : LateOk(heard, W, V)
  <2>1. \A W, V : LateOk(<<FirstOutput>>, W, V)
    BY LateOne, PlainNames DEF FirstOutput
  <2> QED BY <2>1, LateNone
<1> DEFINE W == SaidWords'
           V == SaidWaits'
<1>7. words \subseteq V
  BY <1>2
<1> HIDE DEF W, V, words, end, heard, a
<1>8. LateOk(b, W, V)
  <2>1. LateOk(WaitSignal(words), W, V)
    BY <1>7, SignalIsKnown
  <2>2. LateOk(heard \o WaitSignal(words), W, V)
    BY <1>6, <2>1, LateGrows
  <2>3. LateOk((heard \o WaitSignal(words)) \o end, W, V)
    BY <1>5, <2>2, LateGrows
  <2>4. LateOk(LastEvents(run_status), W, V)
    BY <1>3, <2>3
  <2> QED BY <2>4, LateNone
<1>9. log' = (log \o a) \o b
  BY <1>1, OneMore DEF LogOk, a
<1> HIDE DEF b
<1>10. LateOk(a, W, V)
  BY <1>5
<1>11. (log \o a) \o b = log \o (a \o b)
  BY <1>8, <1>10, ThreeLists DEF LogOk, LateOk
<1>12. LateOk(a \o b, W, V)
  BY <1>8, <1>10, LateGrows
<1> QED BY <1>9, <1>11, <1>12 DEF Grew, W, V

--------------------------------------------------------------------------------
(* The first events of a spawned run.                                      *)
LEMMA AcceptedIs ==
  /\ Accepted \in Seq(Range(Accepted)) /\ Len(Accepted) = 3 /\ DOMAIN Accepted = 1 .. 3
  /\ Accepted[1].event = "run.accepted" /\ Accepted[1].words = NameWords(request.agent)
  /\ Accepted[2].event = "run.queued" /\ Accepted[2].words = {}
  /\ Accepted[3].event = "provider.probe.started" /\ Accepted[3].words = {}
<1> DEFINE a == Event("run.accepted", "accepted", NameWords(request.agent))
           b == Event("run.queued", "queueing", {})
           c == Event("provider.probe.started", "provider_probe", {})
<1>1. /\ a.event = "run.accepted" /\ a.words = NameWords(request.agent)
      /\ b.event = "run.queued" /\ b.words = {}
      /\ c.event = "provider.probe.started" /\ c.words = {}
  BY DEF Event
<1>2. Accepted = <<a, b, c>>
  BY DEF Accepted
<1> HIDE DEF a, b, c
<1> DEFINE list == <<a, b, c>>
           S == {a, b, c}
<1>3. list \in Seq(S) /\ Len(list) = 3 /\ list[1] = a /\ list[2] = b /\ list[3] = c
  OBVIOUS
<1> HIDE DEF list, S
<1>4. list \in Seq(Range(list)) /\ DOMAIN list = 1 .. 3
  BY <1>3, SeqOfItsRange
<1>5. Accepted = list
  BY <1>2 DEF list
<1> QED BY <1>1, <1>3, <1>4, <1>5

LEMMA AcceptedIsOk ==
  ASSUME NEW W, NEW V, NameWords(request.agent) \subseteq W
  PROVE  LogOk(Accepted, W, V)
<1> DEFINE a == Accepted
<1>1. /\ a \in Seq(Range(a)) /\ DOMAIN a = 1 .. 3
      /\ a[1].event = "run.accepted" /\ a[1].words \subseteq W
      /\ a[2].event = "run.queued" /\ a[2].words \subseteq W
      /\ a[3].event = "provider.probe.started" /\ a[3].words \subseteq W
  BY AcceptedIs
<1> HIDE DEF a
<1>2. \A i \in 1 .. 3 : i = 1 \/ i = 2 \/ i = 3
  OBVIOUS
<1>3. Speaks(a, W, V)
  BY <1>1, <1>2, PlainNames DEF Speaks
<1>4. StepOf(a[1].event) = 0 /\ StepOf(a[2].event) = 0 /\ StepOf(a[3].event) = 1
  BY <1>1 DEF StepOf
<1>5. InOrder(a)
  BY <1>1, <1>2, <1>4 DEF InOrder
<1> QED BY <1>1, <1>3, <1>5 DEF LogOk, a

LEMMA ProbedIsOk ==
  ASSUME NEW e, NEW W, NEW V,
         NameWords(request.agent) \cup ProbeWords(setting.env.version) \subseteq W,
         e.words \subseteq W, WaitReasonOf(e.event) = "none", StepOf(e.event) \in {0, 3}
  PROVE  LogOk(Accepted \o <<Probed, e>>, W, V)
<1> DEFINE a == Accepted
           p == Probed
           b == <<p, e>>
           c == a \o b
<1>1. p.event = "provider.probe.completed" /\ p.words \subseteq W
  BY DEF Probed, Event, ProbeWords
<1> HIDE DEF p
<1>2. LogOk(a, W, V)
  BY AcceptedIsOk
<1>3. b \in Seq({p, e}) /\ Len(b) = 2 /\ b[1] = p /\ b[2] = e
  OBVIOUS
<1> HIDE DEF b
<1>4. b \in Seq(Range(b)) /\ a \in Seq(Range(a)) /\ Len(a) = 3
  BY <1>3, AcceptedIs, SeqOfItsRange
<1> HIDE DEF a
<1>5. /\ c \in Seq(Range(c)) /\ DOMAIN c = 1 .. 3 + 2 /\ DOMAIN a = 1 .. 3
      /\ \A i \in 1 .. 3 : c[i] = a[i]
      /\ \A i \in 1 .. 3 + 2 : i > 3 => c[i] = b[i - 3]
  <2>1. /\ c \in Seq(Range(c)) /\ DOMAIN c = 1 .. Len(a) + Len(b) /\ DOMAIN a = 1 .. Len(a)
        /\ \A i \in 1 .. Len(a) : c[i] = a[i]
        /\ \A i \in 1 .. Len(a) + Len(b) : i > Len(a) => c[i] = b[i - Len(a)]
    BY <1>4, TwoLists
  <2> HIDE DEF c
  <2> QED BY <1>3, <1>4, <2>1
<1> HIDE DEF c
<1>6. DOMAIN c = 1 .. 5 /\ c[4] = p /\ c[5] = e
  <2>1. c[4] = b[4 - 3] /\ c[5] = b[5 - 3] /\ 4 - 3 = 1 /\ 5 - 3 = 2
    BY <1>5
  <2> QED BY <1>3, <1>5, <2>1
<1>7. \A i \in 1 .. 5 : i \in 1 .. 3 \/ i = 4 \/ i = 5
  OBVIOUS
<1>8. Speaks(c, W, V)
  <2>1. \A i \in 1 .. 3 : c[i].words \subseteq W /\ WaitReasonOf(c[i].event) \in V \cup {"none"}
    BY <1>2, <1>5 DEF LogOk, Speaks
  <2>2. WaitReasonOf(p.event) = "none"
    BY <1>1, PlainNames
  <2> QED BY <1>1, <1>6, <1>7, <2>1, <2>2 DEF Speaks
<1>9. InOrder(c)
  <2>1. \A i \in 1 .. 3 : StepOf(c[i].event) \in {0, 1}
    <3>1. /\ StepOf(a[1].event) = 0 /\ StepOf(a[2].event) = 0 /\ StepOf(a[3].event) = 1
      BY AcceptedIs DEF StepOf, a
    <3>2. \A i \in 1 .. 3 : i = 1 \/ i = 2 \/ i = 3
      OBVIOUS
    <3> QED BY <1>5, <3>1, <3>2
  <2>2. StepOf(c[4].event) = 2 /\ StepOf(c[5].event) \in {0, 3}
    BY <1>1, <1>6 DEF StepOf
  <2>3. \A i \in 1 .. 5 : \A j \in 1 .. 5 : i < j =>
          (i \in 1 .. 3 /\ j \in 1 .. 3) \/ (i \in 1 .. 3 /\ j = 4) \/ (i \in 1 .. 4 /\ j = 5)
    OBVIOUS
  <2>4. \A i \in 1 .. 4 : i \in 1 .. 3 \/ i = 4
    OBVIOUS
  <2>5. \A i \in 1 .. 4 : StepOf(c[i].event) \in {0, 1, 2}
    BY <2>1, <2>2, <2>4
  <2>6. ASSUME NEW i \in 1 .. 5, NEW j \in 1 .. 5, i < j,
               StepOf(c[i].event) # 0, StepOf(c[j].event) # 0
        PROVE  StepOf(c[i].event) <= StepOf(c[j].event)
    BY <2>1, <2>2, <2>3, <2>5, <2>6
  <2> QED BY <1>6, <2>6 DEF InOrder
<1> QED BY <1>5, <1>8, <1>9 DEF LogOk, c, b, a, p

(* The log of a request that is accepted or probed is as it was stated.    *)
LEMMA AcceptKeepsLog ==
  ASSUME RecordInv, LogInv, RefuseRequest \/ Accept
  PROVE  LogInv'
<1>1. phase = "starting" /\ UNCHANGED setting /\ log = <<>>
  BY DEF RecordInv, LogFollowsPhase, RefuseRequest, Accept
<1>2. SaidWords \subseteq SaidWords' /\ SaidWaits \subseteq SaidWaits'
      /\ NameWords(request.agent) \subseteq SaidWords'
  BY <1>1, SaidEarly DEF Recorded
<1>3. CASE UNCHANGED log /\ (phase' = "over" \/ ~async')
  <2>1. (LogOk(log, SaidWords, SaidWaits))'
    BY <1>2, <1>3, GrownIsOk DEF LogInv, Grew
  <2> QED BY <1>3, <2>1 DEF LogInv, LogAtFirst
<1>4. CASE log' = Accepted /\ phase' = "accepted"
  <2>1. Accepted' = Accepted
    BY <1>1 DEF Accepted, request
  <2> DEFINE W == SaidWords'
             V == SaidWaits'
  <2>2. NameWords(request.agent) \subseteq W
    BY <1>2
  <2> HIDE DEF W, V
  <2>3. LogOk(Accepted, W, V)
    BY <2>2, AcceptedIsOk
  <2> QED BY <1>4, <2>1, <2>3 DEF LogInv, LogAtFirst, W, V
<1>5. ASSUME Accept
      PROVE  \/ UNCHANGED log /\ (phase' = "over" \/ ~async')
             \/ log' = Accepted /\ phase' = "accepted"
  BY <1>5 DEF Accept, async
<1> QED BY <1>3, <1>4, <1>5 DEF RefuseRequest

LEMMA ProbeKeepsLog ==
  ASSUME RecordInv, LogInv, ProbeProvider
  PROVE  LogInv'
<1>1. phase = "accepted" /\ UNCHANGED <<setting, accepted, printed, ended>>
  BY DEF ProbeProvider, vars
<1>2. phase \notin Recorded \cup {"settled"} /\ async' = async
  BY <1>1 DEF Recorded, async
<1>3. /\ SaidWords \subseteq SaidWords' /\ SaidWaits \subseteq SaidWaits'
      /\ NameWords(request.agent) \cup ProbeWords(setting.env.version) \subseteq SaidWords'
  BY <1>1, <1>2, SaidEarly
<1>4. Accepted' = Accepted /\ Probed' = Probed /\ Preparing' = Preparing
  BY <1>1 DEF Accepted, Probed, Preparing, request
<1>5. CASE Grew /\ phase' = "over"
  <2>1. (LogOk(log, SaidWords, SaidWaits))'
    BY <1>3, <1>5, GrownIsOk DEF LogInv
  <2> QED BY <1>5, <2>1 DEF LogInv, LogAtFirst
<1>6. CASE log' = log /\ ~async /\ phase' \in {"over", "ready"}
  <2>1. (LogOk(log, SaidWords, SaidWaits))'
    BY <1>3, <1>6, GrownIsOk DEF LogInv, Grew
  <2> QED BY <1>2, <1>6, <2>1 DEF LogInv, LogAtFirst
<1>7. ASSUME async, NEW e, log' = log \o <<Probed, e>>,
             e.words \subseteq ProbeWords(setting.env.version),
             WaitReasonOf(e.event) = "none", StepOf(e.event) \in {0, 3},
             phase' = "over" \/ (phase' = "ready" /\ e = Preparing)
      PROVE  LogInv'
  <2> DEFINE W == SaidWords'
             V == SaidWaits'
             list == Accepted \o <<Probed, e>>
  <2>1. /\ NameWords(request.agent) \cup ProbeWords(setting.env.version) \subseteq W
        /\ e.words \subseteq W
    BY <1>3, <1>7
  <2>2. log' = list
    BY <1>1, <1>7 DEF LogInv, LogAtFirst
  <2> HIDE DEF W, V
  <2>3. LogOk(list, W, V)
    BY <1>7, <2>1, ProbedIsOk
  <2>4. (LogOk(log, SaidWords, SaidWaits))'
    BY <2>2, <2>3 DEF LogOk, Speaks, W, V
  <2> QED BY <1>4, <1>7, <2>2, <2>4 DEF LogInv, LogAtFirst
<1>8. CASE Stop("no_working_dir")
  BY <1>1, <1>2, <1>5, <1>8, StopGrows
<1> DEFINE failed == Event("run.failed", "provider_probe", {"provider_unavailable"})
<1>9. CASE Fail("provider_unavailable", <<Probed, failed>>)
  <2>1. CASE async
    <3>1. log' = log \o <<Probed, failed>> /\ phase' = "over"
      BY <1>9, <2>1 DEF Fail, LogIfSpawned
    <3>2. failed.event = "run.failed" /\ failed.words \subseteq ProbeWords(setting.env.version)
      BY DEF Event, ProbeWords
    <3> HIDE DEF failed
    <3> QED BY <1>7, <2>1, <3>1, <3>2, PlainNames DEF StepOf
  <2>2. CASE ~async
    <3>1. log' = log /\ phase' = "over"
      BY <1>9, <2>2 DEF Fail, LogIfSpawned
    <3> QED BY <1>6, <2>2, <3>1
  <2> QED BY <2>1, <2>2
<1>10. CASE phase' = "ready" /\ LogIfSpawned(<<Probed, Preparing>>)
  <2>1. Preparing.event = "workspace.prepare.started" /\ Preparing.words = {}
    BY DEF Preparing, Event
  <2>2. StepOf(Preparing.event) = 3 /\ WaitReasonOf(Preparing.event) = "none"
    BY <2>1, PlainNames DEF StepOf
  <2>3. CASE async
    <3>1. log' = log \o <<Probed, Preparing>>
      BY <1>10, <2>3 DEF LogIfSpawned
    <3> QED BY <1>7, <1>10, <2>1, <2>2, <2>3, <3>1
  <2>4. CASE ~async
    BY <1>6, <1>10, <2>4 DEF LogIfSpawned
  <2> QED BY <2>3, <2>4
<1> QED BY <1>8, <1>9, <1>10 DEF ProbeProvider, Preparing

LEMMA ArrivalKeepsLog ==
  ASSUME RecordInv, LogInv, MakeWorkspace \/ ReadMemory
  PROVE  LogInv'
<1>1. Grew
  BY ArrivalGrows DEF LogInv
<1>2. phase \in {"ready", "in_workspace"} /\ UNCHANGED <<setting, accepted, printed, ended>>
  BY DEF MakeWorkspace, ReadMemory, vars
<1>3. phase \notin Recorded \cup {"settled"} /\ async' = async
  BY <1>2 DEF Recorded, async
<1>4. SaidWords \subseteq SaidWords' /\ SaidWaits \subseteq SaidWaits'
  BY <1>2, <1>3, SaidEarly
<1>5. (LogOk(log, SaidWords, SaidWaits))'
  BY <1>1, <1>4, GrownIsOk DEF LogInv
<1>6. ASSUME NEW error, Stop(error) PROVE phase' = "over"
  BY <1>6 DEF Stop, Fail
<1>7. \/ phase' = "over"
      \/ phase = "ready" /\ phase' = "in_workspace" /\ log' = Append(log, Arrived)
      \/ phase = "in_workspace" /\ phase' = "gated" /\ log' = log
  BY <1>6 DEF MakeWorkspace, ReadMemory, Arrived
<1>8. Accepted' = Accepted /\ Probed' = Probed /\ Preparing' = Preparing /\ Arrived' = Arrived
  BY <1>2 DEF Accepted, Probed, Preparing, Arrived, request
<1>9. LogAtFirst'
  BY <1>3, <1>7, <1>8 DEF LogInv, LogAtFirst
<1> QED BY <1>5, <1>9 DEF LogInv

LEMMA DispatchKeepsLog ==
  ASSUME RecordInv, TypeOK, LogInv, UNCHANGED setting,
         \/ FailGate \/ Compile \/ Call \/ CallError \/ Cancel \/ Settle
         \/ (\E answer \in Possible : CallAgain(answer) \/ Answer(answer))
         \/ (\E warns \in BOOLEAN : Beat(warns))
  PROVE  LogInv'
<1>1. Grew
  <2>1. log \in Seq(Range(log)) /\ LogOk(log, SaidWords, SaidWaits)
    BY DEF LogInv, LogOk
  <2> QED BY <2>1, CallsGrow, AnswersGrow, BeatGrows, EndingGrows, SettledGrows
<1>2. /\ phase \in {"gated", "dispatching", "calling", "calling_again", "call_failed"}
      /\ phase' \notin {"accepted", "ready", "in_workspace", "gated"}
  <2>1. CASE FailGate \/ CallError \/ Cancel
    <3>1. phase' = "over"
      BY <2>1, EndingGrows DEF LogInv
    <3> QED BY <2>1, <3>1 DEF FailGate, CallError, Cancel
  <2>2. CASE Compile \/ Call \/ Settle
    BY <2>2 DEF Compile, Call, Settle
  <2>3. ASSUME NEW answer, CallAgain(answer) \/ Answer(answer)
        PROVE  phase \in {"calling", "calling_again"} /\ phase' \in {"calling_again", "dispatching"}
    BY <2>3 DEF CallAgain, Answer
  <2>4. ASSUME NEW warns, Beat(warns)
        PROVE  phase \in {"dispatching", "calling", "calling_again"} /\ phase' = phase
    BY <2>4 DEF Beat, RecordInv
  <2> QED BY <2>1, <2>2, <2>3, <2>4
<1>3. phase \notin Recorded \cup {"settled"}
  BY <1>2 DEF Recorded
<1>4. SaidWords \subseteq SaidWords' /\ SaidWaits \subseteq SaidWaits'
  BY <1>3, SaidEarly
<1>5. (LogOk(log, SaidWords, SaidWaits))'
  BY <1>1, <1>4, GrownIsOk DEF LogInv
<1> QED BY <1>2, <1>5 DEF LogInv, LogAtFirst

LEMMA RestKeepsLog ==
  ASSUME RecordInv, LogInv,
         Wait \/ Save \/ Restart \/ RequestOver \/ UNCHANGED <<requestVars, vars>>
  PROVE  LogInv'
<1>1. /\ UNCHANGED <<setting, accepted, log>>
      /\ phase' = phase \/ phase' \in {"over", "restarted"}
  BY DEF Wait, Save, Restart, RequestOver, requestVars
<1>2. SaidWords \subseteq SaidWords' /\ SaidWaits \subseteq SaidWaits'
  <2>1. CASE Wait
    <3>1. phase \notin Recorded \cup {"settled"}
      BY <2>1 DEF Wait, Recorded
    <3> QED BY <1>1, <3>1, SaidEarly
  <2> QED BY <2>1, SaidLate
<1>3. (LogOk(log, SaidWords, SaidWaits))'
  BY <1>1, <1>2, GrownIsOk DEF LogInv, Grew
<1>4. /\ Accepted' = Accepted /\ Probed' = Probed /\ Preparing' = Preparing
      /\ Arrived' = Arrived /\ async' = async
  BY <1>1 DEF Accepted, Probed, Preparing, Arrived, request, async
<1>5. LogAtFirst'
  BY <1>1, <1>4 DEF LogInv, LogAtFirst
<1> QED BY <1>3, <1>5 DEF LogInv

LEMMA InitLog == RequestInit => LogInv
<1> SUFFICES ASSUME RequestInit PROVE LogInv
  OBVIOUS
<1>1. log = <<>> /\ phase = "starting"
  BY DEF RequestInit
<1>2. log \in Seq(Range(log)) /\ DOMAIN log = {}
  BY <1>1, EmptySeq
<1> QED BY <1>1, <1>2 DEF LogInv, LogOk, Speaks, InOrder, LogAtFirst

(* What the events of a request may be taken for: their words are of its   *)
(* name, of its probe or, once it is recorded, of its error; their waits   *)
(* are of the last output or of that error; the events that are timed      *)
(* (probe, workspace, provider) come in this order; and before a provider  *)
(* can be called the log is the list of the server's own events.           *)
THEOREM LogIsKnown == RequestSpec => []LogInv
<1>1. ASSUME GateInv, RecordInv, TypeOK, LogInv, [RequestNext]_<<requestVars, vars>>
      PROVE  LogInv'
  <2>1. UNCHANGED setting
    BY <1>1, RequestSteps DEF GateInv
  <2>2. CASE RefuseRequest \/ Accept
    BY <1>1, <2>2, AcceptKeepsLog
  <2>3. CASE ProbeProvider
    BY <1>1, <2>3, ProbeKeepsLog
  <2>4. CASE MakeWorkspace \/ ReadMemory
    BY <1>1, <2>4, ArrivalKeepsLog
  <2>5. CASE \/ FailGate \/ Compile \/ Call \/ CallError \/ Cancel \/ Settle
             \/ (\E answer \in Possible : CallAgain(answer) \/ Answer(answer))
             \/ (\E warns \in BOOLEAN : Beat(warns))
    BY <1>1, <2>1, <2>5, DispatchKeepsLog
  <2>6. CASE Wait \/ Save \/ Restart \/ RequestOver \/ UNCHANGED <<requestVars, vars>>
    BY <1>1, <2>6, RestKeepsLog
  <2> QED BY <1>1, <2>2, <2>3, <2>4, <2>5, <2>6 DEF RequestNext
<1>2. DispatchInv => TypeOK
  BY DEF DispatchInv
<1> QED
  BY <1>1, <1>2, InitLog, CallsPassTheGate, RequestIsRecorded, RequestImplementsDispatcher,
     DispatchInvariant, PTL DEF RequestSpec

--------------------------------------------------------------------------------
(* The timed phases of a log follow each other.                            *)
LEMMA FirstEvent ==
  ASSUME NEW list, list \in Seq(Range(list)), NEW name, FirstAt(list, name) # Unset
  PROVE  /\ FirstAt(list, name) \in DOMAIN list /\ FirstAt(list, name) \in Nat
         /\ list[FirstAt(list, name)].event = name
<1> DEFINE at == {i \in DOMAIN list : list[i].event = name}
<1>1. at # {} /\ FirstAt(list, name) = Min(at)
  BY DEF FirstAt, HasEvent
<1>2. Len(list) \in Nat /\ DOMAIN list = 1 .. Len(list)
  BY LenProperties
<1>3. at \in SUBSET (1 .. Len(list))
  BY <1>2
<1> HIDE DEF at
<1>4. Min(at) \in at
  BY <1>1, <1>2, <1>3, FirstPosition
<1> QED BY <1>1, <1>2, <1>3, <1>4 DEF at

LEMMA FirstInOrder ==
  ASSUME NEW list, NEW W, NEW V, LogOk(list, W, V), NEW name, NEW next,
         FirstAt(list, name) # Unset, FirstAt(list, next) # Unset,
         StepOf(name) # 0, StepOf(name) < StepOf(next)
  PROVE  FirstAt(list, name) <= FirstAt(list, next)
<1> DEFINE i == FirstAt(list, name)
           j == FirstAt(list, next)
<1>1. /\ i \in DOMAIN list /\ i \in Nat /\ list[i].event = name
      /\ j \in DOMAIN list /\ j \in Nat /\ list[j].event = next
  BY FirstEvent DEF LogOk
<1> HIDE DEF i, j
<1>2. StepOf(name) \in 0 .. 4 /\ StepOf(next) \in 0 .. 4
  BY StepIsKnown
<1>3. ASSUME j < i PROVE FALSE
  <2>1. StepOf(next) <= StepOf(name)
    BY <1>1, <1>2, <1>3 DEF LogOk, InOrder
  <2> QED BY <1>2, <2>1
<1>4. i <= j
  BY <1>1, <1>3
<1> QED BY <1>4 DEF i, j

LEMMA BetweenIs ==
  ASSUME NEW from, NEW to, Between(from, to) # Unset
  PROVE  from # Unset /\ to # Unset /\ Between(from, to).from = from /\ Between(from, to).to = to
  BY DEF Between

LEMMA PartsInOrder ==
  ASSUME NEW accepted_at, NEW probed, NEW ready, NEW preparing, NEW boot, NEW output, NEW end,
         probed # Unset => probed \in Nat, boot # Unset => boot \in Nat,
         preparing # Unset => preparing \in Nat,
         probed # Unset /\ preparing # Unset => probed <= preparing,
         probed # Unset /\ boot # Unset => probed <= boot,
         preparing # Unset /\ boot # Unset => preparing <= boot,
         ready # Unset /\ preparing # Unset => ready <= preparing,
         ready # Unset /\ boot # Unset => ready <= boot
  PROVE  LET parts == <<Between(accepted_at, FirstOf(probed, preparing)), Between(probed, ready),
                        Between(preparing, FirstOf(FirstOf(boot, output), end)),
                        Between(boot, FirstOf(output, end))>> IN
         \A i, j \in DOMAIN parts :
           i < j /\ Unset \notin {parts[i], parts[j]} => parts[i].to <= parts[j].from
<1> DEFINE queue == Between(accepted_at, FirstOf(probed, preparing))
           probe == Between(probed, ready)
           space == Between(preparing, FirstOf(FirstOf(boot, output), end))
           start == Between(boot, FirstOf(output, end))
           parts == <<queue, probe, space, start>>
<1>1. queue # Unset => queue.to = (IF probed = Unset THEN preparing ELSE probed)
  BY BetweenIs DEF FirstOf
<1>2. probe # Unset => probe.from = probed /\ probe.to = ready /\ probed # Unset /\ ready # Unset
  BY BetweenIs
<1>3. space # Unset => /\ space.from = preparing /\ preparing # Unset
                       /\ boot # Unset => space.to = boot
  BY BetweenIs DEF FirstOf
<1>4. start # Unset => start.from = boot /\ boot # Unset
  BY BetweenIs
<1>5. queue # Unset => probed # Unset \/ preparing # Unset
  BY BetweenIs DEF FirstOf
<1> HIDE DEF queue, probe, space, start
<1>6. /\ DOMAIN parts = 1 .. 4
      /\ parts[1] = queue /\ parts[2] = probe /\ parts[3] = space /\ parts[4] = start
  OBVIOUS
<1> HIDE DEF parts
<1>7. queue # Unset /\ probe # Unset => queue.to <= probe.from
  BY <1>1, <1>2
<1>8. queue # Unset /\ space # Unset => queue.to <= space.from
  BY <1>1, <1>3
<1>9. queue # Unset /\ start # Unset => queue.to <= start.from
  BY <1>1, <1>4, <1>5
<1>10. probe # Unset /\ space # Unset => probe.to <= space.from
  BY <1>2, <1>3
<1>11. probe # Unset /\ start # Unset => probe.to <= start.from
  BY <1>2, <1>4
<1>12. space # Unset /\ start # Unset => space.to <= start.from
  BY <1>3, <1>4
<1>13. \A i \in 1 .. 4 : \A j \in 1 .. 4 : i < j =>
         \/ i = 1 /\ j \in {2, 3, 4}
         \/ i = 2 /\ j \in {3, 4}
         \/ i = 3 /\ j = 4
  OBVIOUS
<1>14. \A i \in 1 .. 4 : \A j \in 1 .. 4 :
         i < j /\ parts[i] # Unset /\ parts[j] # Unset => parts[i].to <= parts[j].from
  BY <1>6, <1>7, <1>8, <1>9, <1>10, <1>11, <1>12, <1>13
<1>15. \A i, j \in DOMAIN parts :
         i < j /\ Unset \notin {parts[i], parts[j]} => parts[i].to <= parts[j].from
  BY <1>6, <1>14
<1> QED BY <1>15 DEF parts, queue, probe, space, start

LEMMA StatsInOrder ==
  ASSUME NEW list, NEW W, NEW V, LogOk(list, W, V), NEW stats, stats = RunStats(list)
  PROVE  LET parts == <<stats.queue, stats.probe, stats.workspace, stats.boot>> IN
         \A i, j \in DOMAIN parts :
           i < j /\ Unset \notin {parts[i], parts[j]} => parts[i].to <= parts[j].from
<1> DEFINE probed    == FirstAt(list, "provider.probe.started")
           ready     == FirstAt(list, "provider.probe.completed")
           preparing == FirstAt(list, "workspace.prepare.started")
           boot      == FirstAt(list, "provider.boot.started")
           output    == FirstAt(list, "provider.first_output")
           accepted_at == FirstOf(FirstAt(list, "run.accepted"), 0)
           end       == Len(list)
<1>1. /\ stats.queue = Between(accepted_at, FirstOf(probed, preparing))
      /\ stats.probe = Between(probed, ready)
      /\ stats.workspace = Between(preparing, FirstOf(FirstOf(boot, output), end))
      /\ stats.boot = Between(boot, FirstOf(output, end))
  BY DEF RunStats
<1>2. /\ StepOf("provider.probe.started") = 1 /\ StepOf("provider.probe.completed") = 2
      /\ StepOf("workspace.prepare.started") = 3 /\ StepOf("provider.boot.started") = 4
  BY DEF StepOf
<1>3. \A name : FirstAt(list, name) # Unset => FirstAt(list, name) \in Nat
  BY FirstEvent DEF LogOk
<1>4. /\ probed # Unset /\ preparing # Unset => probed <= preparing
      /\ probed # Unset /\ boot # Unset => probed <= boot
      /\ preparing # Unset /\ boot # Unset => preparing <= boot
      /\ ready # Unset /\ preparing # Unset => ready <= preparing
      /\ ready # Unset /\ boot # Unset => ready <= boot
  BY <1>2, FirstInOrder
<1>5. /\ probed # Unset => probed \in Nat
      /\ preparing # Unset => preparing \in Nat
      /\ boot # Unset => boot \in Nat
  BY <1>3
<1> HIDE DEF probed, ready, preparing, boot, output, accepted_at, end
<1> QED BY <1>1, <1>4, <1>5, PartsInOrder

--------------------------------------------------------------------------------
(* What a run is waiting for before a provider is called.                  *)
LEMMA ListAtFirst ==
  /\ LET list == Accepted \o <<Probed, Preparing>> IN
     /\ list \in Seq(Range(list)) /\ Len(list) = 5 /\ DOMAIN list = 1 .. 5
     /\ list[5] = Preparing
  /\ LET list == Append(Accepted \o <<Probed, Preparing>>, Arrived) IN
     Len(list) = 6 /\ DOMAIN list = 1 .. 6 /\ list[5] = Preparing /\ list[6] = Arrived
<1> DEFINE a == Accepted
           p == Probed
           e == Preparing
           f == Arrived
           b == <<p, e>>
           c == a \o b
           S == Range(c) \cup {f}
           d == Append(c, f)
<1>1. b \in Seq({p, e}) /\ Len(b) = 2 /\ b[1] = p /\ b[2] = e
  <2> HIDE DEF p, e
  <2> QED OBVIOUS
<1> HIDE DEF p, e, b, f
<1>2. b \in Seq(Range(b)) /\ a \in Seq(Range(a)) /\ Len(a) = 3
  BY <1>1, AcceptedIs, SeqOfItsRange
<1> HIDE DEF a
<1>3. /\ c \in Seq(Range(c)) /\ DOMAIN c = 1 .. Len(a) + Len(b)
      /\ \A i \in 1 .. Len(a) + Len(b) : i > Len(a) => c[i] = b[i - Len(a)]
  BY <1>2, TwoLists
<1> HIDE DEF c
<1>4. c \in Seq(Range(c)) /\ DOMAIN c = 1 .. 5 /\ c[5] = e
  <2>1. 5 \in 1 .. 3 + 2 /\ 5 > 3 /\ 5 - 3 = 2 /\ 3 + 2 = 5
    OBVIOUS
  <2>2. DOMAIN c = 1 .. 3 + 2 /\ c[5] = b[5 - 3]
    BY <1>1, <1>2, <1>3, <2>1
  <2> QED BY <1>1, <1>3, <2>1, <2>2
<1>5. Len(c) = 5
  <2>1. Len(c) \in Nat /\ DOMAIN c = 1 .. Len(c)
    BY <1>4, LenProperties
  <2> QED BY <1>4, <2>1
<1>6. c \in Seq(S) /\ f \in S
  <2>1. Range(c) \subseteq S /\ f \in S
    OBVIOUS
  <2> HIDE DEF S
  <2> QED BY <1>4, <2>1, SeqMonotonic
<1> HIDE DEF S
<1>7. /\ d \in Seq(S) /\ Len(d) = Len(c) + 1
      /\ \A i \in 1 .. Len(c) : d[i] = c[i]
      /\ d[Len(c) + 1] = f
  BY <1>6, AppendProperties
<1> HIDE DEF d
<1>8. Len(d) = 6 /\ d[5] = e /\ d[6] = f
  BY <1>4, <1>5, <1>7
<1>9. DOMAIN d = 1 .. 6
  BY <1>7, <1>8, LenProperties
<1> QED BY <1>4, <1>5, <1>8, <1>9 DEF a, p, e, f, b, c, d

LEMMA StallAtFirst ==
  ASSUME LogInv, async, NEW words, NEW run_status
  PROVE  /\ phase = "accepted" =>
              BlockReason(run_status, TRUE, log, words) \in words \cup {"none", "provider_probe"}
         /\ phase \in {"ready", "in_workspace", "gated"} =>
              BlockReason(run_status, TRUE, log, words) \in words \cup {"none", "workspace_prepare"}
<1> DEFINE Stalls(list, n, k, reason) ==
             /\ n \in Nat /\ Len(list) = n /\ DOMAIN list = 1 .. n /\ k \in 1 .. n
             /\ \A j \in k + 1 .. n : EventReason(list[j], TRUE) = "none"
             /\ EventReason(list[k], TRUE) = reason /\ reason # "none"
<1>1. ASSUME NEW list, NEW n, NEW k, NEW reason, Stalls(list, n, k, reason)
      PROVE  BlockReason(run_status, TRUE, list, words) \in words \cup {"none", reason}
  <2>1. BlockReason(run_status, TRUE, list, words)
          \in words \cup {"none", EventReason(list[k], TRUE)}
    BY <1>1, StallIsSaid
  <2> QED BY <1>1, <2>1
<1>2. CASE phase = "accepted"
  <2> DEFINE list == Accepted
  <2>1. Len(list) = 3 /\ DOMAIN list = 1 .. 3 /\ EventReason(list[3], TRUE) = "provider_probe"
    BY AcceptedIs, EventStalls
  <2> HIDE DEF list
  <2>2. Stalls(list, 3, 3, "provider_probe")
    <3>1. 3 \in Nat /\ 3 \in 1 .. 3 /\ \A j \in 3 + 1 .. 3 : FALSE
      OBVIOUS
    <3> QED BY <2>1, <3>1
  <2>3. log = list
    BY <1>2 DEF LogInv, LogAtFirst, list
  <2> HIDE DEF Stalls
  <2>4. BlockReason(run_status, TRUE, list, words) \in words \cup {"none", "provider_probe"}
    BY <1>1, <2>2
  <2> QED BY <1>2, <2>3, <2>4
<1>3. CASE phase = "ready"
  <2> DEFINE list == Accepted \o <<Probed, Preparing>>
  <2>1. Len(list) = 5 /\ DOMAIN list = 1 .. 5 /\ EventReason(list[5], TRUE) = "workspace_prepare"
    BY ListAtFirst, EventStalls
  <2> HIDE DEF list
  <2>2. Stalls(list, 5, 5, "workspace_prepare")
    <3>1. 5 \in Nat /\ 5 \in 1 .. 5 /\ \A j \in 5 + 1 .. 5 : FALSE
      OBVIOUS
    <3> QED BY <2>1, <3>1
  <2>3. log = list
    BY <1>3 DEF LogInv, LogAtFirst, list
  <2> HIDE DEF Stalls
  <2>4. BlockReason(run_status, TRUE, list, words) \in words \cup {"none", "workspace_prepare"}
    BY <1>1, <2>2
  <2> QED BY <1>3, <2>3, <2>4
<1>4. CASE phase \in {"in_workspace", "gated"}
  <2> DEFINE list == Append(Accepted \o <<Probed, Preparing>>, Arrived)
  <2>1. /\ Len(list) = 6 /\ DOMAIN list = 1 .. 6
        /\ EventReason(list[5], TRUE) = "workspace_prepare" /\ EventReason(list[6], TRUE) = "none"
    BY ListAtFirst, EventStalls
  <2> HIDE DEF list
  <2>2. Stalls(list, 6, 5, "workspace_prepare")
    <3>1. 6 \in Nat /\ 5 \in 1 .. 6 /\ \A j \in 5 + 1 .. 6 : j = 6
      OBVIOUS
    <3> QED BY <2>1, <3>1
  <2>3. log = list
    BY <1>4 DEF LogInv, LogAtFirst, list
  <2> HIDE DEF Stalls
  <2>4. BlockReason(run_status, TRUE, list, words) \in words \cup {"none", "workspace_prepare"}
    BY <1>1, <2>2
  <2> QED BY <1>4, <2>3, <2>4
<1> QED BY <1>2, <1>3, <1>4

(* Whose record is looked at, and what is on disk then.                    *)
LEMMA SeenSoFar ==
  ASSUME RecordInv, async, record.status \in TerminalPhases \cup {"Running"}
  PROVE  /\ disk.meta # NoRecord
         /\ \/ phase \in {"accepted", "ready", "in_workspace", "gated"}
            \/ disk.meta.status = "Running" /\ phase \notin Recorded
            \/ /\ phase \in Recorded
               /\ record.status \in TerminalPhases /\ disk.meta.status \in TerminalPhases
<1>1. NoRecord.status \notin TerminalPhases \cup {"Running"}
  BY DEF NoRecord, TerminalPhases
<1>2. CASE phase \notin Recorded
  <2>1. phase # "starting"
    BY <1>1, <1>2 DEF RecordInv, NotYetRecorded, Announced, Recorded
  <2>2. disk.meta = Record(accepted, "Running", "none", NoArtifacts)
    BY <1>2, <2>1 DEF RecordInv, NotYetRecorded, Announced
  <2>3. disk.meta.status = "Running"
    BY <2>2 DEF Record
  <2> QED BY <1>1, <1>2, <2>3
<1>3. CASE phase \in Recorded
  <2>1. ~NothingOnDisk
    BY <1>1 DEF NothingOnDisk
  <2>2. OnDisk /\ disk.meta.status \in TerminalPhases
    BY <1>3, <2>1 DEF RecordInv, OverAsRecorded, RestartedAsOnDisk, Recorded, OnDisk, WellFormed
  <2>3. DOMAIN disk.meta = {"status", "error", "artifacts", "policy", "spec", "compiled", "usage",
                            "outcome"}
    BY <2>2 DEF OnDisk, WellFormed
  <2>4. CASE phase = "over"
    BY <1>1, <1>3, <2>1, <2>2, <2>4 DEF RecordInv, OverAsRecorded
  <2>5. CASE phase = "restarted"
    <3>1. \/ record = [status |-> "unreadable"]
          \/ record = [disk.meta EXCEPT !.artifacts.data = disk.stored]
      BY <2>1, <2>5 DEF RecordInv, RestartedAsOnDisk
    <3>2. [status |-> "unreadable"].status \notin TerminalPhases \cup {"Running"}
      BY DEF TerminalPhases
    <3>3. record = [disk.meta EXCEPT !.artifacts.data = disk.stored]
      BY <3>1, <3>2
    <3>4. record.status = disk.meta.status
      BY <2>3, <3>3
    <3> QED BY <1>1, <1>3, <2>2, <3>4
  <2> QED BY <1>3, <2>4, <2>5 DEF Recorded
<1> QED BY <1>2, <1>3

KnownWords ==
  ErrorWords(record.error) \cup ErrorWords(disk.meta.error) \cup NameWords(request.agent)
    \cup LastWords \cup ProbeWords(setting.env.version)
Explained(silent, reason) ==
  \/ reason \in KnownWords \cup {"none"}
  \/ reason = "provider_probe" /\ phase = "accepted" /\ silent
  \/ reason = "workspace_prepare" /\ silent /\ phase \in {"ready", "in_workspace", "gated"}

LEMMA ReasonIsExplained ==
  ASSUME RecordInv, LogInv, async, record.status \in TerminalPhases \cup {"Running"},
         NEW silent \in MayBeSilent, NEW seen \in {record, disk.meta},
         NEW reason,
         reason = BlockReason(seen.status,
                    ~(seen.status \in TerminalPhases) /\ silent /\ log # <<>>, log,
                    ErrorWords(seen.error))
  PROVE  Explained(silent, reason)
<1> DEFINE stalled == ~(seen.status \in TerminalPhases) /\ silent /\ log # <<>>
           words == ErrorWords(seen.error)
<1>1. silent \in BOOLEAN
  BY DEF MayBeSilent
<1>2. words \subseteq KnownWords
  BY DEF KnownWords
<1>3. CASE ~stalled
  <2>1. reason = BlockReason(seen.status, FALSE, log, words)
    <3>1. stalled = FALSE
      BY <1>3
    <3> QED BY <3>1
  <2>2. reason \in words \cup SaidWords \cup SaidWaits \cup {"none"}
    <3>1. LogOk(log, SaidWords, SaidWaits)
      BY DEF LogInv
    <3>2. BlockReason(seen.status, FALSE, log, words)
            \in words \cup SaidWords \cup SaidWaits \cup {"none"}
      BY <3>1, ReasonIsSaid
    <3> QED BY <2>1, <3>2
  <2> HIDE DEF words
  <2>3. SaidWords \cup SaidWaits \subseteq KnownWords
    BY DEF SaidWords, SaidWaits, Late, KnownWords
  <2> QED BY <1>2, <2>2, <2>3 DEF Explained
<1>4. CASE stalled
  <2>1. silent = TRUE /\ stalled = TRUE /\ seen.status \notin TerminalPhases
    BY <1>1, <1>4
  <2>2. phase \in {"accepted", "ready", "in_workspace", "gated"}
    BY <2>1, SeenSoFar DEF MayBeSilent
  <2>3. reason = BlockReason(seen.status, TRUE, log, words)
    BY <2>1
  <2> HIDE DEF words, stalled
  <2>4. /\ phase = "accepted" => reason \in words \cup {"none", "provider_probe"}
        /\ phase \in {"ready", "in_workspace", "gated"} =>
             reason \in words \cup {"none", "workspace_prepare"}
    BY <2>3, StallAtFirst
  <2> QED BY <1>2, <2>1, <2>2, <2>4 DEF Explained
<1> QED BY <1>3, <1>4

(* THEOREM: what a client is shown of a run that does not get on is a      *)
(* cause the run has, and the phases it is shown follow each other.        *)
THEOREM RequestExplainsBlocks == RequestSpec => []BlockIsExplained
<1>1. ASSUME RecordInv, LogInv PROVE BlockIsExplained
  <2>1. ASSUME record.status \in TerminalPhases \cup {"Running"}, async,
               NEW silent \in MayBeSilent, NEW reason \in ShownReasons(silent)
        PROVE  Explained(silent, reason)
    <3>1. \E seen \in {record, disk.meta} :
            reason = BlockReason(seen.status,
                       ~(seen.status \in TerminalPhases) /\ silent /\ log # <<>>, log,
                       ErrorWords(seen.error))
      BY <2>1 DEF ShownReasons, Snapshot, CliSnapshot, CliBlockReason
    <3> QED BY <1>1, <2>1, <3>1, ReasonIsExplained
  <2>2. ASSUME record.status \in TerminalPhases \cup {"Running"}, async
        PROVE  Range(WaitReasons(log))
                 \subseteq ErrorWords(record.error) \cup ErrorWords(disk.meta.error) \cup LastWords
    <3>1. Range(WaitReasons(log)) \subseteq SaidWaits
      BY <1>1, WaitsAreSaid DEF LogInv
    <3> QED BY <3>1 DEF SaidWaits, Late
  <2>3. ASSUME NEW stats \in {RunStats(log), CliStats(log)}
        PROVE  LET parts == <<stats.queue, stats.probe, stats.workspace, stats.boot>> IN
               \A i, j \in DOMAIN parts :
                 i < j /\ Unset \notin {parts[i], parts[j]} => parts[i].to <= parts[j].from
    <3>1. stats = RunStats(log)
      BY DEF CliStats
    <3> QED BY <1>1, <3>1, StatsInOrder DEF LogInv
  <2> QED BY <2>1, <2>2, <2>3 DEF BlockIsExplained, Explained, KnownWords
<1>2. RecordInv /\ LogInv => BlockIsExplained
  BY <1>1
<1> QED BY <1>2, LogIsKnown, RequestIsRecorded, PTL
================================================================================
