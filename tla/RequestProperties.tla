---------------------------- MODULE RequestProperties ----------------------------
(***************************************************************************)
(* What must hold of every request, whatever setting it is made in: the    *)
(* properties of RunRequest.  Most of them set two parts of the code       *)
(* against each other that look at the same thing and must agree on it.    *)
(***************************************************************************)
EXTENDS RunRequest

Done == phase \in {"over", "restarted"}
Calling == phase \in {"calling", "calling_again"}
Dispatched == phase \in {"dispatching", "calling", "calling_again", "call_failed"}

(* The directories of agents the user meant: those of the command line, or *)
(* else of the environment, or else of the config file, or else `agents`.  *)
MeantDirs(shell) ==
  LET path == ResolveConfigPath(shell.cli_config, shell.env_config,
                                shell.configs["project"] # Unset)
      OfFile == IF shell.configs[path] = Unset THEN Unset ELSE shell.configs[path].agents_dirs
      OfEnv  == IF shell.env.agents_dirs = Unset THEN Unset
                ELSE ParseDirsEnv(shell.env.agents_dirs)
      layers == <<shell.cli.agents_dirs, OfEnv, OfFile, <<"agents">> >>
      Given(i) == layers[i] # Unset /\ \E dir \in Range(layers[i]) : dir # ""
      first_given == layers[Min({i \in DOMAIN layers : Given(i)})]
  IN Keep(first_given, Range(first_given) \ {""})

(* A request is served by the agent of its name in the first of these      *)
(* directories that has one, however the files are sorted on the way, and  *)
(* only while every agent file in all of them is valid.                    *)
AgentIsTheOneMeant ==
  accepted # NothingAccepted =>
    LET dirs == MeantDirs(setting.shell)
        Named(i) == {file \in Range(setting.dirs[dirs[i]]) :
                       file.is_agent /\ file.name = request.agent}
    IN /\ \E i \in DOMAIN dirs : accepted.file \in Named(i) /\ \A j \in 1 .. i - 1 : Named(j) = {}
       /\ \A i \in DOMAIN dirs : \A file \in Range(setting.dirs[dirs[i]]) :
            file.is_agent => Loadable(file)

(* A provider is started below a marked parent only while there is room    *)
(* for one more level, so a chain in which each run marks its own depth    *)
(* ends; but where max_runtime_depth is 255, the counter stops there and   *)
(* the chain does not.                                                     *)
ChainIsBounded ==
  attempts_used > 0 /\ Enabled(agent) /\ request.parent_summary # Unset =>
    LET marked == request.parent_summary.depth
        room   == agent.workflow.max_runtime_depth
    IN marked # Unset => marked < room \/ (marked = 255 /\ room = 255)

(* Under `serialize` a provider that may edit its source does so with the  *)
(* lock keys of it, except in two ways of getting around a read-only       *)
(* sandbox, which conflict_lock_keys does not know of: a section of its own*)
(* in provider_overrides, or, for claude, approval = auto_accept_edits.    *)
WritersAreLockedOrAlone ==
  /\ Calling /\ MayWrite(effective) /\ workspace.dir.is_source
  /\ agent.runtime.file_conflict_policy = "serialize"
  => \/ TakesLocks(agent)
     \/ ReadOnly(agent) /\ Sections(agent)
     \/ /\ ReadOnly(agent) /\ agent.provider = "claude"
        /\ agent.runtime.approval = "auto_accept_edits"

(* Whatever way a request ends, what its workspace was made of is gone     *)
(* unless its removal failed.  In the temp directory a request that ended  *)
(* with an error of the runner or was aborted may leave files behind, of   *)
(* its last call at most and only those its provider makes, however often  *)
(* it was tried; any other leaves none.                                    *)
FilesOfOneCall ==
  {TempFiles(effective, discovery) :
     discovery \in {effective.runtime.native_discovery, "minimal"}}
NothingIsLeft ==
  Done =>
    /\ "workspace" \in left => "remove" \notin setting.world.works
    /\ {"registration", "misplaced"} \cap left # {} =>
         "worktree_remove" \notin setting.world.works
    /\ temp # {} => /\ step \in {"runner_error", "aborted"}
                    /\ \E files \in FilesOfOneCall : temp \subseteq files

(* The workflow gate judges a workspace as it would judge the source, but  *)
(* for two differences: a checkout or the scratch directory may lack a     *)
(* plan the source has, or have one it lacks; and outside the source an    *)
(* absolute path of a selected file counts as one of another module.       *)
PlansIn(dir) ==
  LET ref == IF request.plan_ref = Unset THEN {} ELSE {request.plan_ref.path}
  IN DOMAIN dir.files \cap ({"PLAN.md", ".mcp-subagent/PLAN.md"} \cup ref)
GateSeesTheSource ==
  phase = "gated" =>
    LET source == SourceDir(setting.world) IN
    \/ Verdict = DispatchVerdict(effective, request, source)
    \/ /\ workspace.mode \in {"git_worktree", "stable_scratch"}
       /\ PlansIn(workspace.dir) # PlansIn(source)
    \/ ~workspace.dir.is_source /\ \E file \in request.selected_files : file.absolute

(* The evidence of a review agrees with the gate that let it run: the hook *)
(* calls no review of high risk that the gate did not, and finds a track   *)
(* missing only if the gate took it from the words "clean code", which     *)
(* the hook does not know.                                                 *)
ReviewEvidenceAgrees ==
  phase = "settled" /\ WritesEvidence(agent, request, record.status) =>
    LET evidence == ReviewEvidence(agent, request)
        missing  == evidence.required \ evidence.available
    IN /\ evidence.high_risk => Reasons(effective, request, workspace.dir) # {}
       /\ missing \subseteq {"style"}
       /\ missing # {} => "clean code" \in Profile(agent) \cup ParentWords(request)

(* No file is given to the provider twice: by two sources, by two paths of *)
(* one file, or as text and by the provider's own loader.  One text can    *)
(* be: the section that the delegation asks for, which comes last, is also *)
(* in its plan, and the plan may have been given whole before.             *)
MemoryIsSaidOnce ==
  Dispatched =>
    /\ IsInjective(memory.native)
    /\ Inlined(memory) \cap Range(memory.native) = {}
    /\ \A i, j \in DOMAIN memory.inline :
         i < j /\ memory.inline[i].file = memory.inline[j].file =>
           \/ memory.inline[i].file = Unset
           \/ j = Len(memory.inline) /\ memory.inline[j].label = "plan_section"

(* The summary of a run is the first object that stands alone between a    *)
(* sentinel that opens a block and the next that closes one, on stdout     *)
(* before stderr: also one that was drafted before the last message of     *)
(* codex.  Without any it is the first object, and only without an object  *)
(* the text itself.                                                        *)
Opens(tokens, i) ==
  /\ tokens[i] = "START"
  /\ \A k \in 1 .. i - 1 : tokens[k] = "START" => \E e \in k .. i - 1 : tokens[e] = "END"
Alone(tokens) ==
  {i \in 2 .. Len(tokens) - 1 :
     tokens[i] \in Objects /\ Opens(tokens, i - 1) /\ tokens[i + 1] = "END"}
Anywhere(tokens) == {i \in 1 .. Len(tokens) : tokens[i] \in Objects}
FirstIn(Found(_), tokens) ==
  LET at == CHOOSE i \in Found(tokens) : \A j \in Found(tokens) : i <= j IN tokens[at]
FirstOfStreams(Found(_)) ==
  IF Found(printed.stdout) # {} THEN FirstIn(Found, printed.stdout)
  ELSE FirstIn(Found, printed.stderr)
SummaryIsFound ==
  phase = "settled" =>
    LET parsed == ParseSummaryContract(printed.stdout, printed.stderr)
        InStreams(Found(_)) == Found(printed.stdout) \cup Found(printed.stderr) # {}
    IN /\ parsed.status = "validated" <=> InStreams(Alone)
       /\ parsed.report = "fallback" <=> ~InStreams(Anywhere)
       /\ InStreams(Alone) => parsed.report = FirstOfStreams(Alone)
       /\ ~InStreams(Alone) /\ InStreams(Anywhere) => parsed.report = FirstOfStreams(Anywhere)

(* A run that a client was told of is found again after a restart, as it   *)
(* was told and with every artifact of its index; but a spawned run whose  *)
(* summary declares an artifact under a path that no file of the run's     *)
(* directory can have may have lost artifacts, or be unreadable for good,  *)
(* and with it the list of all runs.  What is shown as its output is what  *)
(* the provider printed, unless there is none and the summary declares a   *)
(* file of that name.  The list of the CLI fails, once no call is under    *)
(* way, only over a run_agent that ended in an error after its workspace   *)
(* was made.                                                               *)
OwnKeys ==
  {Plain(<<name>>) : name \in {"summary.json", "summary.raw.txt", "stdout.txt", "stderr.txt"}}
  \cup {EvidenceKey, WarningsKey}
  \cup {ArchiveKey(kind) : kind \in {"final-summary", "decision-note", "index.json"}}
DeclaredKeys == {Report.declared[i].key : i \in DOMAIN Report.declared}
Undeclarable ==
  LET keys == DeclaredKeys \cup OwnKeys IN (\E key \in keys : ~Sane(key)) \/ Clashes(keys)
StreamsAreShown(stored) ==
  LET OfAgent(name) == Plain(<<name>>) \in DeclaredKeys
      Shows(name, text) ==
        LET producer == ReadRunLog(name, record.artifacts.data, stored) IN
        /\ producer = "runtime" <=> text # <<>>
        /\ producer = "agent" => OfAgent(name)
  IN /\ Shows("stdout.txt", printed.stdout) /\ Shows("stderr.txt", printed.stderr)
     /\ NativeResult(stored) = "summary" => printed.stdout = <<>>
HistoryIsReadable ==
  /\ phase = "restarted" /\ (told \in TerminalPhases \/ told = "accepted") =>
       \/ told = "accepted" /\ Undeclarable
       \/ /\ record.status \in TerminalPhases
          /\ told \in TerminalPhases => record.status = told
          /\ \A key \in record.artifacts.index :
               ReadArtifact(key, record.artifacts.data) \in {"agent", "runtime"}
          /\ step = "returned" => StreamsAreShown(disk.stored)
  /\ phase = "restarted" /\ ListRuns(FALSE, disk) = "error" => Undeclarable
  /\ Done /\ CliListRuns(disk, log) = "error" =>
       told \notin TerminalPhases /\ ~async /\ workspace.error = "none"

(* The archive of a source loses nothing to a run: its index keeps every   *)
(* entry and stays as it is where it cannot be read, and a file of another *)
(* run is written over only by one of the same slug within the window of   *)
(* time that the first group of a handle stands for.                       *)
ArchiveKeepsOthers ==
  LET before == setting.archive IN
  /\ before.index = Broken => archived.index = Broken
  /\ before.index \notin {Broken, Unset} => IsPrefix(before.index, archived.index)
  /\ \A name \in DOMAIN before.files :
       archived.files[name] = before.files[name]
         \/ (name[2] = request.slug /\ name[3] = before.window)

(* What a run has used is the same to a client of the server that ran it,  *)
(* to the CLI that reads its files, and to a client of a later server,     *)
(* whether its numbers are the provider's or estimates, and although the   *)
(* outcome of a run that timed out holds none, nor that of a run that came *)
(* to no dispatch its retries; unless the record could not be written in   *)
(* full, where it is the same after the restart.  All but the time it took:*)
(* that of a run whose provider came to an end is to the CLI the time of   *)
(* its dispatch, if that is a millisecond or more, and to a server that of *)
(* all of the run.                                                         *)
UsageIsTheSame ==
  LET there == ServerUsage(record)
      here  == CliUsage(disk.meta, disk.stored) IN
  /\ \/ phase = "over" /\ record.status \in TerminalPhases /\ PersistWorks(record.artifacts)
     \/ phase = "restarted" /\ record.status \in TerminalPhases
  => /\ here = [there EXCEPT !.duration = here.duration]
     /\ here.duration # there.duration =>
          /\ record.compiled /\ record.status \in {"Succeeded", "Failed"}
          /\ here.duration = "dispatch" /\ there.duration = "run"

(* A client is shown why a run does not get on only for a cause the run has*)
(* still: a text reason is in its error, its name, its probe or the output *)
(* of its last attempt, not of one before; a stall is shown only of a run  *)
(* that goes on, as the step it is in (as the preparation of its workspace *)
(* also while it waits for locks), and never while a provider is silent,   *)
(* for its heartbeats are events.  So it is for a client of the server,    *)
(* which looks at its record, and for the CLI, which looks at run.json.    *)
(* The phases that are timed follow each other and do not overlap, however *)
(* often the provider was called.                                          *)
LastWords == IF step = "returned" THEN WordsIn(Range(printed.stdout \o printed.stderr)) ELSE {}
MayBeSilent ==
  IF /\ "Running" \in {record.status, disk.meta.status}
     /\ phase \notin {"accepted", "ready", "in_workspace", "gated"}
  THEN {FALSE} ELSE BOOLEAN
ShownReasons(silent) ==
  LET Shows(View(_, _, _, _, _), seen) ==
        View(seen.status, seen.status \in TerminalPhases, silent, log,
             ErrorWords(seen.error)).block_reason
  IN {Shows(Snapshot, record), Shows(CliSnapshot, disk.meta)}
BlockIsExplained ==
  /\ record.status \in TerminalPhases \cup {"Running"} /\ async =>
       LET errors == ErrorWords(record.error) \cup ErrorWords(disk.meta.error)
           known  == errors \cup NameWords(request.agent) \cup LastWords
                       \cup ProbeWords(setting.env.version)
       IN /\ \A silent \in MayBeSilent : \A reason \in ShownReasons(silent) :
               \/ reason \in known \cup {"none"}
               \/ reason = "provider_probe" /\ phase = "accepted" /\ silent
               \/ /\ reason = "workspace_prepare" /\ silent
                  /\ phase \in {"ready", "in_workspace", "gated"}
          /\ Range(WaitReasons(log)) \subseteq errors \cup LastWords
  /\ \A stats \in {RunStats(log), CliStats(log)} :
       LET parts == <<stats.queue, stats.probe, stats.workspace, stats.boot>>
       IN \A i, j \in DOMAIN parts :
            i < j /\ Unset \notin {parts[i], parts[j]} => parts[i].to <= parts[j].from

(* A run whose policy asks for a workspace of its own gets one: from git,  *)
(* or a copy of its source where git has none to give (TODO.md:723).       *)
WorktreeFallsBackToCopy ==
  /\ Done /\ accepted # NothingAccepted
  /\ setting.world.works = Operations
  /\ setting.world.source.unreadable = {} /\ ~setting.world.source.links_to_dir
  => workspace.error # "not_copied"
================================================================================
