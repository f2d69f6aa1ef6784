-------------------------------- MODULE RunRequest --------------------------------
(***************************************************************************)
(* One request for a run, from the configuration of the server to the      *)
(* record a later process reads back: prepare_run, ensure_provider_ready,  *)
(* run_dispatch and what run_agent and the task of spawn_agent do after it *)
(* (mcp/server.rs, service.rs, tools.rs), with the Dispatcher's loop and   *)
(* the calls of the provider inside it.                                    *)
(*                                                                         *)
(* The rest of the server is in other modules: the locks in SerializeLocks,*)
(* cancellation and the record of an accepted run in RunLifecycle, the     *)
(* writing of events in EventLog.  Here one request meets whatever setting *)
(* it is made in: a setting is all that a run finds and does not change,   *)
(* and only providers choose.                                              *)
(***************************************************************************)
EXTENDS RunViews, Dispatcher

CONSTANTS
  Settings, \* of the server, the agents, the request and the world, in groups
  Answers,  \* what a provider's CLI may print, and how it may end, in each setting
  SlowAnswers \* the answers that may take more than the two seconds of a heartbeat

VARIABLES
  setting,   \* shell, dirs, request, world, env, reports, archive
  phase,     \* where the request is
  accepted,  \* what prepare_run returned
  workspace, \* PreparedWorkspace
  memory,    \* ResolvedMemory
  compiled,  \* CompiledContext
  first,     \* the execution of a call that is made again
  printed,   \* the RunnerExecution of the last attempt
  temp,      \* what calls left or have in the temp directory
  left,      \* what there is of the workspace
  archived,  \* the files and the index in the archive of the source
  record,    \* the record in memory
  disk,      \* the run's directory
  log,       \* the run's events, in it
  told       \* the client: a status, that the run is accepted, or an error

requestVars == <<setting, phase, accepted, workspace, memory, compiled, first, printed,
                 temp, left, archived, record, disk, log, told>>

request == setting.request
agent == accepted.file.spec
effective == EffectiveSpec(agent, workspace)
async == accepted.run_mode = "async"

NoRecord == [status |-> "none"]
NoDisk == [meta |-> NoRecord, stored |-> NoArtifacts.data]
NoExecution == [end |-> "none", line |-> "none", stdout |-> <<>>, stderr |-> <<>>]
NothingAccepted == [error |-> "none"]

(* The record of the run accepted as `taken`, in which nothing was attempted.*)
Record(taken, run_status, error, artifacts) ==
  [status |-> run_status, error |-> error, artifacts |-> artifacts, policy |-> taken.policy,
   spec |-> SpecSnapshot(taken.file.spec), compiled |-> FALSE, usage |-> NoUsage,
   outcome |-> RunOutcome(run_status, NoStats, error, 0)]
NoOutput(run_status) == BuildArtifacts(run_status, <<>>, <<>>, <<>>, FALSE)

(* The policy the Dispatcher sees of the agent that will be asked for.     *)
PolicyOf(s) ==
  [max_attempts |-> s.runtime.max_attempts, max_turns |-> s.runtime.max_turns,
   parse_policy |-> s.runtime.parse_policy]

(* The server comes up with its configuration, and loads the agents for    *)
(* each request anew.                                                      *)
Prepared(s) ==
  LET config == ResolveRuntimeConfig(s.shell)
      loaded == LoadFromDirs([i \in DOMAIN config.agents_dirs |-> s.dirs[config.agents_dirs[i]]])
  IN CASE config = Broken -> [error |-> "config"]
       [] OTHER -> CASE loaded = Broken -> [error |-> "specs"]
                     [] OTHER           -> PrepareRun(loaded, s.request)

AgentOf(taken) == IF taken.error = "none" THEN taken.file.spec ELSE DefaultSpec

(* The fields of an agent are of their types, and so is what a CLI prints. *)
ASSUME AgentsAssumption ==
  \A group \in DOMAIN Settings : \A s \in Settings[group] :
    LET taken == AgentOf(Prepared(s)) IN
    /\ PolicyOf(taken) \in Specs
    /\ DOMAIN taken = DOMAIN DefaultSpec /\ DOMAIN taken.runtime = DOMAIN DefaultRuntime
    /\ taken.provider \in Providers
    /\ taken.runtime.working_dir_policy \in WorkingDirPolicies
    /\ taken.runtime.sandbox \in {"read_only", "workspace_write", "full_access"}
    /\ taken.runtime.approval \in
         {"provider_default", "ask", "auto_accept_edits", "deny_by_default"}
    /\ Enabled(taken) => taken.workflow.max_runtime_depth \in 0 .. 255
    /\ LET sources == taken.runtime.memory_sources IN
       /\ sources \in Seq(Range(sources))
       /\ \A source \in Range(sources) :
            /\ source.kind \in {"auto", "active_plan", "archived_plans", "file", "glob", "inline"}
            /\ source.kind = "glob" => source.matches \in Seq(STRING)
(* A depth is a u8, a stage and who produced an artifact are texts where   *)
(* they are there, and an index that can be read is a list.                *)
ASSUME RequestsAssumption ==
  /\ Unset \notin Stages \cup {"agent", "runtime"}
  /\ \A group \in DOMAIN Settings : \A s \in Settings[group] :
       /\ s.request.parent_summary # Unset =>
            s.request.parent_summary.depth \in 0 .. 255 \cup {Unset}
       /\ s.archive.index \in {Unset, Broken} \cup Seq(STRING)
(* What is written of directories is a list of texts; an agent file has its*)
(* place in the order of the names, the same for files of one name.        *)
Written(layer) ==
  DOMAIN layer = Fields /\ layer.agents_dirs \in {Unset} \cup Seq(STRING)
Catalogued(s) ==
  LET shell   == s.shell
      content == shell.configs[ResolveConfigPath(shell.cli_config, shell.env_config,
                                                 shell.configs["project"] # Unset)]
      config  == ResolveRuntimeConfig(shell)
      held    == UNION {Range(s.dirs[d]) : d \in Range(config.agents_dirs)}
  IN /\ Written(shell.cli) /\ (content \in {Unset, Broken} \/ Written(content))
     /\ shell.env.agents_dirs # Unset => shell.env.agents_dirs.segments \in Seq(STRING)
     /\ config # Broken =>
          /\ \A d \in Range(config.agents_dirs) : s.dirs[d] \in Seq(held)
          /\ \A f \in held : f.order \in Nat
          /\ \A f, g \in held : f.name = g.name => f.order = g.order
ASSUME CataloguesAssumption ==
  /\ Unset \notin {Defaults.agents_dirs} \cup Seq(STRING)
  /\ \A group \in DOMAIN Settings : \A s \in Settings[group] : Catalogued(s)
PossibleAnswers ==
  [exit : {"success", "failure", "timeout"}, stdout : Seq(STRING), stderr : Seq(STRING),
   last_message : Seq(STRING)]
ASSUME AnswersAssumption ==
  /\ \A of \in DOMAIN Answers : Answers[of] \subseteq PossibleAnswers
  /\ \A group \in DOMAIN Settings : {s.answers : s \in Settings[group]} \subseteq DOMAIN Answers

RequestInit ==
  /\ \E group \in DOMAIN Settings : setting \in Settings[group]
  /\ spec = PolicyOf(AgentOf(Prepared(setting)))
  /\ phase = "starting"
  /\ accepted = NothingAccepted /\ workspace = NoWorkspace("none") /\ memory = NoMemory
  /\ compiled = [files |-> {}] /\ first = NoExecution /\ printed = NoExecution
  /\ temp = {} /\ left = {}
  /\ archived = [files |-> setting.archive.files, index |-> setting.archive.index]
  /\ record = NoRecord /\ disk = NoDisk /\ log = <<>> /\ told = "nothing"
  /\ step = "received" /\ history = <<"Received">>
  /\ attempts_used = 0 /\ retry_attempts = 0 /\ ended = <<>>
  /\ final = NoFinal /\ outcome = NoOutcome

(* persist_run_record of r: all of it, or an error after run.json.         *)
Persist(r) ==
  /\ record' = r
  /\ \E written \in WrittenArtifacts(r.artifacts) :
       disk' = [meta |-> r, stored |-> [k \in DOMAIN disk.stored \cup written |->
                  IF k \in written THEN r.artifacts.data[k] ELSE disk.stored[k]]]

(* What the message of an error may be taken for: that of a provider is its*)
(* own line, a file that cannot be read is a permission that is denied.    *)
ProbeWords(version) ==
  {"provider_unavailable"} \cup
    CASE version.run = "ran" -> WordsIn(version.words)
      [] version.run = "permission_denied" -> {"tool_approval_required"}
      [] OTHER -> {}
ErrorWords(error) ==
  CASE error = "provider_unavailable" -> ProbeWords(setting.env.version)
    [] error = "runner"               -> WordsIn({printed.line})
    [] error = "parse"                ->
         IF ended[Len(ended)].parse = "invalid" THEN {"normalization_failed"} ELSE {}
    [] error \in {"not_copied", "unreadable"} /\ setting.world.source.unreadable # {} ->
         {"tool_approval_required"}
    [] OTHER -> {}

(* Events of a spawned run only.                                           *)
LogIfSpawned(events) == log' = IF async THEN log \o events ELSE log

(* An error on the way.  The client of a run_agent gets it; a spawned run  *)
(* gets a failed record.                                                   *)
Fail(error, events) ==
  /\ phase' = "over"
  /\ LogIfSpawned(events)
  /\ IF async THEN /\ Persist(Record(accepted, "Failed", error, NoOutput("Failed")))
                  /\ UNCHANGED told
     ELSE told' = "error" /\ UNCHANGED <<record, disk>>
Stop(error) ==
  Fail(error, WaitSignal(ErrorWords(error))
                \o <<Event("run.failed", "execution", ErrorWords(error))>>)

(* The drop of RunDispatchData, or of what there was of it.                *)
Release == left' = Leftovers(workspace, setting.world)

--------------------------------------------------------------------------------
(* Before the dispatch.                                                    *)

RefuseRequest ==
  LET taken == Prepared(setting) IN
  /\ phase = "starting" /\ taken.error # "none"
  /\ phase' = "over" /\ told' = "error"
  /\ UNCHANGED <<setting, accepted, workspace, memory, compiled, first, printed, temp, left,
                 archived, record, disk, log, vars>>

(* conflict_lock_keys gives none to the others.  (Mutant: only for         *)
(* workspace_write.)                                                       *)
TakesLocksToWrite(s) ==
  s.runtime.file_conflict_policy = "serialize" /\ s.runtime.sandbox = "workspace_write"
TakesLocks(s) == s.runtime.file_conflict_policy = "serialize" /\ ~ReadOnly(s)

(* A spawned run is accepted once its lock keys are computed; its task     *)
(* begins with the probe.                                                  *)
Accepted ==
  <<Event("run.accepted", "accepted", NameWords(request.agent)),
    Event("run.queued", "queueing", {}), Event("provider.probe.started", "provider_probe", {})>>
Accept ==
  LET taken == Prepared(setting)
      lost == TakesLocks(taken.file.spec) /\ ~setting.world.source.exists IN
  /\ phase = "starting" /\ taken.error = "none"
  /\ accepted' = taken
  /\ \/ /\ taken.run_mode = "sync"
        /\ phase' = "accepted" /\ UNCHANGED <<record, disk, log, told>>
     \/ /\ taken.run_mode = "async" /\ lost
        /\ phase' = "over" /\ told' = "error" /\ UNCHANGED <<record, disk, log>>
     \/ /\ taken.run_mode = "async" /\ ~lost
        /\ phase' = "accepted" /\ told' = "accepted" /\ log' = Accepted
        /\ Persist(Record(taken, "Running", "none", NoArtifacts))
  /\ UNCHANGED <<setting, workspace, memory, compiled, first, printed, temp, left, archived,
                 vars>>

(* ensure_provider_ready; then the lock keys, which need the source.       *)
Probed ==
  LET version == setting.env.version
      words == IF version.run = "ran" /\ version.first_line # "version"
               THEN WordsIn(version.words) ELSE {}
  IN Event("provider.probe.completed", "provider_probe", words)
ProbeProvider ==
  LET ready == ProbeStatus(agent.provider, setting.env.version) = "ready"
      lost == TakesLocks(agent) /\ ~setting.world.source.exists IN
  /\ phase = "accepted"
  /\ \/ /\ ~ready
        /\ Fail("provider_unavailable",
                <<Probed, Event("run.failed", "provider_probe", {"provider_unavailable"})>>)
     \/ ready /\ lost /\ Stop("no_working_dir")
     \/ /\ ready /\ ~lost
        /\ phase' = "ready" /\ UNCHANGED <<record, disk, told>>
        /\ LogIfSpawned(<<Probed, Event("workspace.prepare.started", "workspace_prepare", {})>>)
  /\ UNCHANGED <<setting, accepted, workspace, memory, compiled, first, printed, temp, left,
                 archived, vars>>

MakeWorkspace ==
  LET prepared == PrepareWorkspace(agent, request, setting.world) IN
  /\ phase = "ready"
  /\ workspace' = prepared
  /\ IF prepared.error = "none"
     THEN /\ phase' = "in_workspace" /\ UNCHANGED <<record, disk, told>>
          /\ log' = Append(log, Event("workspace.prepare.completed", "workspace_prepare", {}))
     ELSE Stop(prepared.error)
  /\ left' = Made(prepared, setting.world)
  /\ UNCHANGED <<setting, accepted, memory, compiled, first, printed, temp, archived, vars>>

ReadMemory ==
  /\ phase = "in_workspace"
  /\ memory' = ResolveMemory(effective, workspace.dir)
  /\ IF memory'.error = "none"
     THEN phase' = "gated" /\ UNCHANGED <<record, disk, log, told, left>>
     ELSE Stop(memory'.error) /\ Release
  /\ UNCHANGED <<setting, accepted, workspace, compiled, first, printed, temp, archived, vars>>

--------------------------------------------------------------------------------
(* The dispatch.                                                           *)

Verdict == DispatchVerdict(effective, request, workspace.dir)

(* A check of run_with_observers fails.                                    *)
FailGate ==
  /\ phase = "gated" /\ Verdict # "ok"
  /\ Refuse
  /\ Stop(Verdict) /\ Release
  /\ UNCHANGED <<setting, accepted, workspace, memory, compiled, first, printed, temp, archived>>

Compile ==
  /\ phase = "gated" /\ Verdict = "ok"
  /\ Prepare
  /\ compiled' = CompileTask(effective, request, memory,
                             AcceptanceCriteria(effective, request, memory, workspace.dir))
  /\ phase' = "dispatching"
  /\ log' = Append(log, Event("context.compile.started", "context_compile", {}))
  /\ UNCHANGED <<setting, accepted, workspace, memory, first, printed, temp, left, archived,
                 record, disk, told>>

(* An attempt calls the provider, if the runner gets that far.  The end of *)
(* the step before it is logged after its own beginning.                   *)
Call ==
  LET verdict == CallVerdict(effective, workspace, setting.env) IN
  /\ phase = "dispatching"
  /\ Launch
  /\ log' = log \o <<Event("provider.boot.started", "provider_boot", {}),
                     IF status = "ParsingSummary" THEN Event("parse.completed", "parse", {})
                     ELSE Event("context.compile.completed", "context_compile", {})>>
  /\ IF verdict = "ok"
     THEN /\ phase' = "calling"
          /\ temp' = temp \cup TempFiles(effective, effective.runtime.native_discovery)
     ELSE phase' = "call_failed" /\ temp' = temp \cup TempAtError(effective, verdict)
  /\ UNCHANGED <<setting, accepted, workspace, memory, compiled, first, printed, left, archived,
                 record, disk, told>>

(* The CLI could not be started, or reading from it or writing to it       *)
(* failed: what the call has made in the temp directory stays.             *)
CallError ==
  /\ \/ phase = "call_failed"
     \/ phase \in {"calling", "calling_again"} /\ agent.provider # "mock"
  /\ RunnerError
  /\ Stop("runner_error") /\ Release
  /\ UNCHANGED <<setting, accepted, workspace, memory, compiled, first, printed, temp, archived>>

(* What the observer of its output logs, where the runner has one.         *)
FirstOutput == Event("provider.first_output", "running", {})
Streamed(answer) ==
  IF /\ agent.provider \in {"codex", "claude", "gemini"}
     /\ answer.stdout \o answer.stderr # <<>> /\ ~HasEvent(log, "provider.first_output")
  THEN <<FirstOutput>> ELSE <<>>

(* The task of a spawned run says that it is alive, and after a while that *)
(* nothing was printed yet.  One heartbeat stands for all of them.         *)
Beat(warns) ==
  LET seen == HasEvent(log, "provider.first_output")
      shown == IF seen THEN "running" ELSE "provider_boot" IN
  /\ phase \in {"calling", "calling_again"} \/ step = "backing_off"
  /\ async /\ setting.answers \in SlowAnswers
  /\ ~HasEvent(log, "provider.heartbeat")
  /\ log' = log \o <<Event("provider.heartbeat", shown, {})>>
              \o (IF warns /\ ~seen
                  THEN <<Event("provider.first_output.warning", shown, {})>> ELSE <<>>)
  /\ UNCHANGED <<setting, phase, accepted, workspace, memory, compiled, first, printed, temp,
                 left, archived, record, disk, told, vars>>

(* The removals at the end of a call.  (Mutant: without that of codex's    *)
(* output file.)                                                           *)
ClearedOfSchema(files, made) == files \ (made \ {"last_message"})
Cleared(files, made) == files \ made

(* MockRunner answers with a report of its own.                            *)
MockAnswer == [exit |-> "success", stdout |-> <<"text", "START", "report", "END">>,
               stderr |-> <<>>, last_message |-> <<>>]
Possible == IF agent.provider = "mock" THEN {MockAnswer} ELSE Answers[setting.answers]

(* codex itself finds that the directory after --cd is missing.            *)
Believable(answer) == answer.exit = "success" => workspace.present

CallAgain(answer) ==
  /\ phase = "calling" /\ Believable(answer) /\ CallsAgain(effective, answer)
  /\ phase' = "calling_again"
  /\ first' = answer
  /\ temp' = (temp \ DiscoveryDirs("isolated")) \cup DiscoveryDirs("minimal")
  /\ log' = log \o Streamed(answer)
  /\ UNCHANGED <<setting, accepted, workspace, memory, compiled, printed, left, archived,
                 record, disk, told, vars>>

Answer(answer) ==
  LET again == phase = "calling_again"
      stderr == IF again THEN MergedStderr(first, answer) ELSE answer.stderr
      execution == Execution(agent.provider, answer, stderr)
      parsed == ParseSummaryContract(execution.stdout, execution.stderr)
      made == TempFiles(effective, IF again THEN "minimal" ELSE effective.runtime.native_discovery)
  IN
  /\ again \/ (phase = "calling" /\ ~CallsAgain(effective, answer))
  /\ Believable(answer)
  /\ Collect([end |-> execution.end, parse |-> parsed.status])
  /\ printed' = execution
  /\ temp' = Cleared(temp, made)
  /\ log' = log \o Streamed(answer) \o <<Event("parse.started", "parse", {})>>
  /\ phase' = "dispatching"
  /\ UNCHANGED <<setting, accepted, workspace, memory, compiled, first, left, archived, record,
                 disk, told>>

Wait ==
  /\ phase = "dispatching"
  /\ BackOff
  /\ UNCHANGED requestVars

(* cancel_agent: the task is aborted, its future dropped where it is.      *)
Cancel ==
  /\ phase \in {"dispatching", "calling", "calling_again"}
  /\ async /\ agent.provider # "mock"
  /\ Abort
  /\ Persist(Record(accepted, "Cancelled", "cancelled", NoOutput("Cancelled")))
  /\ log' = Append(log, Event("run.cancelled", "completed", {}))
  /\ Release
  /\ phase' = "over"
  /\ UNCHANGED <<setting, accepted, workspace, memory, compiled, first, printed, temp, archived,
                 told>>

--------------------------------------------------------------------------------
(* After it.                                                               *)

NoReport == [declared |-> <<>>, touched_files |-> 0, touches_config |-> FALSE, words |-> {}]
Report ==
  LET parsed == ParseSummaryContract(printed.stdout, printed.stderr)
  IN IF parsed.report = "fallback" THEN NoReport ELSE setting.reports[parsed.report]

(* build_runtime_artifacts, apply_review_evidence_hook, apply_archive_hook.*)
Hooked(variant) ==
  LET built == BuildArtifacts(variant, Report.declared, printed.stdout, printed.stderr,
                              workspace.present)
      reviewed == IF WritesEvidence(agent, request, variant)
                  THEN Upsert(built, EvidenceKey, "runtime") ELSE built
  IN IF ArchiveHookRuns(agent, request, variant)
     THEN ApplyArchiveHook(agent, request, Report, setting.archive, reviewed)
     ELSE [ArchiveState(setting.archive, reviewed) EXCEPT !.warned = FALSE]

(* The output nobody logged while it came, what the provider waited for,   *)
(* and the end.                                                            *)
FinalEvents ==
  [Succeeded |-> "run.completed", Failed |-> "run.failed", TimedOut |-> "run.timed_out",
   Cancelled |-> "run.cancelled"]
LastEvents(run_status) ==
  LET tokens == printed.stdout \o printed.stderr
      late   == tokens # <<>> /\ ~HasEvent(log, "provider.first_output")
  IN (IF late THEN <<FirstOutput>> ELSE <<>>) \o WaitSignal(WordsIn(Range(tokens)))
       \o <<Event(FinalEvents[run_status], "completed", {})>>

Settle ==
  /\ phase = "dispatching"
  /\ Finalize
  /\ log' = Append(log, Event("parse.completed", "parse", {}))
              \o (IF async THEN LastEvents(final.judged.status) ELSE <<>>)
  /\ LET judged == final.judged
         hooked == Hooked(judged.status)
         usage  == NativeUsage(agent.provider, printed.stdout, printed.stderr)
         Stats(span) ==
           [usage |-> usage, exit_code |-> ExitCode(printed.end), duration |-> span]
     IN
     /\ archived' = [files |-> hooked.files, index |-> hooked.index]
     /\ \E span \in {Unset, "dispatch"} :
          record' = [Record(accepted, judged.status, judged.message, hooked.artifacts) EXCEPT
                       !.policy = Outcome(@, attempts_used, retry_attempts'),
                       !.compiled = TRUE, !.usage = usage,
                       !.outcome = RunOutcome(judged.status, Stats(span), judged.message,
                                              attempts_used)]
  /\ Release
  /\ phase' = "settled"
  /\ UNCHANGED <<setting, accepted, workspace, memory, compiled, first, printed, temp, disk, told>>

(* upsert_and_persist_run: the client of a run_agent gets the view or the  *)
(* error of it, that of a spawned run finds it in the message.             *)
Save ==
  LET works == PersistWorks(record.artifacts) IN
  /\ phase = "settled"
  /\ \E written \in WrittenArtifacts(record.artifacts) :
       disk' = [meta |-> record, stored |-> [k \in DOMAIN disk.stored \cup written |->
                  IF k \in written THEN record.artifacts.data[k] ELSE disk.stored[k]]]
  /\ record' = IF async /\ ~works THEN [record EXCEPT !.error = "not_persisted"] ELSE record
  /\ told' = CASE async            -> told
               [] ~async /\ works  -> record.status
               [] ~async /\ ~works -> "error"
  /\ phase' = "over"
  /\ UNCHANGED <<setting, accepted, workspace, memory, compiled, first, printed, temp, left,
                 archived, log, vars>>

(* A later process knows only the disk.                                    *)
Restart ==
  /\ phase = "over"
  /\ phase' = "restarted"
  /\ record' = IF disk.meta = NoRecord THEN NoRecord
               ELSE IF LoadRecord(disk.meta.artifacts.index, disk.stored) = "unreadable"
               THEN [status |-> "unreadable"]
               ELSE [disk.meta EXCEPT !.artifacts.data = disk.stored]
  /\ UNCHANGED <<setting, accepted, workspace, memory, compiled, first, printed, temp, left,
                 archived, disk, log, told, vars>>

RequestOver == phase = "restarted" /\ UNCHANGED <<requestVars, vars>>

RequestNext ==
  \/ RefuseRequest \/ Accept \/ ProbeProvider \/ MakeWorkspace \/ ReadMemory
  \/ FailGate \/ Compile \/ Call \/ CallError
  \/ (phase \in {"calling", "calling_again"} /\ \E answer \in Possible :
        CallAgain(answer) \/ Answer(answer))
  \/ (\E warns \in BOOLEAN : Beat(warns))
  \/ Wait \/ Cancel \/ Settle \/ Save \/ Restart \/ RequestOver

RequestSpec == RequestInit /\ [][RequestNext]_<<requestVars, vars>>
================================================================================
