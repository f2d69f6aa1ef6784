-------------------------------- MODULE RunResults --------------------------------
(***************************************************************************)
(* What is made of what a provider printed: the summary (summary.rs), the  *)
(* usage (usage.rs), the artifacts of the run (mcp/artifacts.rs), the      *)
(* files its archive hook writes into the source (mcp/archive.rs), and the *)
(* record on disk, as it is read back after a restart (mcp/persistence.rs).*)
(*                                                                         *)
(* Objects are the texts that parse as a ProviderSummary; the world says   *)
(* what a report holds: the artifacts it declares, the files it touched,   *)
(* the words of its text.                                                  *)
(***************************************************************************)
EXTENDS ProviderCalls

CONSTANT U64Max  \* u64::MAX

Objects == {"report", "draft"}

(* insert of a map.                                                        *)
Put(key, value, map) ==
  [k \in DOMAIN map \cup {key} |-> IF k = key THEN value ELSE map[k]]

--------------------------------------------------------------------------------
(* summary.rs.                                                             *)

(* extract_json_blocks: what stands between a sentinel and the next end.   *)
NothingRead == [open |-> FALSE, block |-> <<>>, blocks |-> <<>>]
ReadToken(scan, token) ==
  CASE ~scan.open /\ token = "START"  -> [scan EXCEPT !.open = TRUE, !.block = <<>>]
    [] scan.open /\ token = "END"     -> [scan EXCEPT !.open = FALSE,
                                                      !.blocks = Append(@, scan.block)]
    [] scan.open /\ token # "END"     -> [scan EXCEPT !.block = Append(@, token)]
    [] ~scan.open /\ token # "START"  -> scan
(* (Mutant: between the last sentinel before an end, and the end.)         *)
BlocksFromLastStart(tokens) ==
  LET Read(scan, token) ==
        IF token = "START" THEN [scan EXCEPT !.open = TRUE, !.block = <<>>]
        ELSE ReadToken(scan, token)
  IN Loop(Read, NothingRead, tokens).blocks
Blocks(tokens) == Loop(ReadToken, NothingRead, tokens).blocks

(* The blocks that are neither empty nor the placeholder of the template.  *)
Candidates(tokens) ==
  Keep(Blocks(tokens), Range(Blocks(tokens)) \ {<<>>, <<"placeholder">>})

(* The candidates that parse, and the objects anywhere.                    *)
Sentinels(tokens) == Keep(Candidates(tokens), {<<object>> : object \in Objects})
BareObjects(tokens) == Keep(tokens, Objects)

Parsed(status, report) == [status |-> status, report |-> report]
ParseSummaryContract(stdout, stderr) ==
  LET wrapped == Sentinels(stdout) \o Sentinels(stderr)
      bare    == BareObjects(stdout) \o BareObjects(stderr)
  IN CASE wrapped # <<>>                  -> Parsed("validated", wrapped[1][1])
       [] wrapped = <<>> /\ bare # <<>>   -> Parsed("degraded", bare[1])
       [] wrapped = <<>> /\ bare = <<>>   ->
            Parsed(IF Candidates(stdout) \o Candidates(stderr) # <<>>
                   THEN "invalid" ELSE "degraded", "fallback")

--------------------------------------------------------------------------------
(* usage.rs, UsageStats and what tools.rs shows of them.  Tokens with a    *)
(* number after a key of the input, the output or the total, or after      *)
(* codex's "tokens used"; a null is no number.                             *)

UsageNumbers ==
  [input_3    |-> [key |-> "input",  number |-> 3],
   input_null |-> [key |-> "input",  number |-> Unset],
   output_2   |-> [key |-> "output", number |-> 2],
   output_max |-> [key |-> "output", number |-> U64Max],
   total_7    |-> [key |-> "total",  number |-> 7],
   used_6     |-> [key |-> "used",   number |-> 6]]

FindUsageValue(tokens, key) ==
  LET found == SelectSeq(tokens, LAMBDA token :
                 /\ token \in DOMAIN UsageNumbers
                 /\ UsageNumbers[token].key = key /\ UsageNumbers[token].number # Unset)
  IN IF found = <<>> THEN Unset ELSE UsageNumbers[found[1]].number

FirstOf(a, b) == IF a # Unset THEN a ELSE b
SaturatingSum(a, b) == Min({a + b, U64Max})

NoUsage == [input |-> Unset, output |-> Unset, total |-> Unset]
NativeUsage(provider, stdout, stderr) ==
  LET Value(key) == FirstOf(FindUsageValue(stdout, key), FindUsageValue(stderr, key))
      input  == Value("input")
      output == Value("output")
      used   == IF provider = "codex" THEN Value("used") ELSE Unset
      total  == FirstOf(Value("total"), used)
  IN [input |-> input, output |-> output,
      total |-> IF total = Unset /\ input # Unset /\ output # Unset
                THEN SaturatingSum(input, output) ELSE total]

ExitCode(end) ==
  CASE end = "succeeded" -> 0
    [] end = "timed_out" -> 124
    [] end = "cancelled" -> 130
    [] OTHER             -> 1

(* UsageStats: a duration is the span it is of, Unset where that is not a  *)
(* millisecond long.                                                       *)
NoStats == [usage |-> NoUsage, exit_code |-> Unset, duration |-> Unset]

(* RunOutcome: only the two with an output carry UsageStats, only a failure*)
(* its attempts.                                                           *)
RunOutcome(variant, stats, error, attempts) ==
  [stats    |-> IF variant \in {"Succeeded", "Failed"} THEN stats ELSE NoStats,
   error    |-> IF variant \in {"Failed", "Cancelled"} THEN error ELSE "none",
   attempts |-> IF variant = "Failed" THEN attempts ELSE Unset]

(* A number that is shown: the provider's own, or an estimate that needs   *)
(* the compiled context (input) or a stream (output), or a sum.            *)
Shown(native, estimated) ==
  [from   |-> IF native # Unset THEN "native" ELSE IF estimated THEN "estimated" ELSE "unknown",
   number |-> native]
UsageOutput(native, compiled, printed, duration, exit_code, retries) ==
  LET input  == Shown(native.input, compiled)
      output == Shown(native.output, printed)
      summed == "unknown" \notin {input.from, output.from}
      total  == IF native.total = Unset /\ summed THEN [from |-> "sum", number |-> Unset]
                ELSE Shown(native.total, FALSE)
      used   == {input.from, output.from, total.from} \cap {"native", "estimated"}
  IN [input |-> input, output |-> output, total |-> total,
      source |-> CASE used = {}          -> "unknown"
                   [] Cardinality(used) = 2 -> "mixed"
                   [] OTHER              -> CHOOSE source \in used : TRUE,
      duration |-> duration, exit_code |-> exit_code, retries |-> FirstOf(retries, 0)]

(* What follows "exited with code" in a message: only a runner writes that,*)
(* of whatever code the provider ended with.                               *)
MessageCode(error) == IF error = "runner" THEN 2 ELSE Unset

--------------------------------------------------------------------------------
(* artifacts.rs.  A key is a path as it was written: plain, with a "." or  *)
(* ".." component, or absolute.  index is the set of the keys that are     *)
(* listed, data the payload of each: who produced it.                      *)

Plain(path) == [form |-> "plain", path |-> path]
NoArtifacts == [index |-> {}, data |-> [key \in {} |-> "runtime"]]

Upsert(artifacts, key, producer) ==
  [index |-> artifacts.index \cup {key}, data |-> Put(key, producer, artifacts.data)]

(* A declared artifact is read when it resolves to a text file inside the  *)
(* workspace.                                                              *)
Declared(declared, present) ==
  {declared[i].key : i \in {j \in DOMAIN declared : present /\ declared[j].inside}}

(* What the runtime writes takes the place of what the agent declared.     *)
BuildArtifacts(variant, declared, stdout, stderr, present) ==
  LET agent == IF variant = "Succeeded" THEN Declared(declared, present) ELSE {}
      Own(name, written) == IF written THEN {Plain(<<name>>)} ELSE {}
      runtime == Own("summary.json", TRUE) \cup Own("summary.raw.txt", variant = "Failed")
                   \cup Own("stdout.txt", stdout # <<>>) \cup Own("stderr.txt", stderr # <<>>)
  IN [index |-> agent \cup runtime,
      data  |-> [key \in agent \cup runtime |-> IF key \in runtime THEN "runtime" ELSE "agent"]]

EvidenceKey == Plain(<<"review", "evidence.json">>)

--------------------------------------------------------------------------------
(* archive.rs.  The archive of a source: the files in it with the run that *)
(* wrote each, and its index.json: Unset, Broken, or the runs listed.      *)

(* The name of an archived file: the slug of the task and the first group  *)
(* of the handle, which is the upper part of the clock.                    *)
ArchiveName(kind, request, window) == <<kind, request.slug, window>>
ArchiveKey(kind) == Plain(<<"docs", kind>>)
WarningsKey == Plain(<<"archive", "hook-warnings.txt">>)

WriteNote(state, kind, request, window) ==
  IF state.writable
  THEN [state EXCEPT !.files = Put(ArchiveName(kind, request, window), "this", @),
                     !.artifacts = Upsert(@, ArchiveKey(kind), "runtime")]
  ELSE [state EXCEPT !.warned = TRUE]

(* append_metadata_index.  (Mutant: an index that does not parse is begun  *)
(* anew.)                                                                  *)
AppendIndexAnew(state) ==
  IF ~state.writable THEN [state EXCEPT !.warned = TRUE]
  ELSE [state EXCEPT !.index = Append(IF state.index \in {Unset, Broken} THEN <<>> ELSE @, "this"),
                     !.artifacts = Upsert(@, ArchiveKey("index.json"), "runtime")]
AppendIndex(state) ==
  CASE state.index = Broken \/ ~state.writable -> [state EXCEPT !.warned = TRUE]
    [] OTHER ->
       [state EXCEPT !.index = Append(IF state.index = Unset THEN <<>> ELSE @, "this"),
                     !.artifacts = Upsert(@, ArchiveKey("index.json"), "runtime")]

ArchiveState(archive, artifacts) ==
  [files |-> archive.files, index |-> archive.index, writable |-> archive.writable,
   artifacts |-> artifacts, warned |-> FALSE]

ApplyArchiveHook(spec, request, report, archive, artifacts) ==
  LET policy == spec.workflow.archive
      start  == ArchiveState(archive, artifacts)
      summed == IF policy.final_summary
                THEN WriteNote(start, "final-summary", request, archive.window) ELSE start
      noted  == IF WritesDecisionNote(spec, request, report)
                THEN WriteNote(summed, "decision-note", request, archive.window) ELSE summed
      listed == IF policy.metadata_index THEN AppendIndex(noted) ELSE noted
      done   == IF policy.dir = "outside" THEN [start EXCEPT !.warned = TRUE] ELSE listed
  IN IF done.warned
     THEN [done EXCEPT !.artifacts = Upsert(@, WarningsKey, "runtime")] ELSE done

--------------------------------------------------------------------------------
(* persistence.rs.                                                         *)

Sane(key) == key.form = "plain"
(* A file where another artifact needs a directory.                        *)
Clashes(keys) ==
  \E k \in keys, l \in keys : k.path # l.path /\ IsPrefix(k.path, l.path)

(* persist_run_record: run.json first, the artifacts in any order; an      *)
(* error leaves what was written before it.  (Mutant: a clash of two paths *)
(* is no error.)                                                           *)
PersistsIfSane(artifacts) == \A k \in DOMAIN artifacts.data : Sane(k)
PersistWorks(artifacts) ==
  LET keys == DOMAIN artifacts.data IN (\A k \in keys : Sane(k)) /\ ~Clashes(keys)
WrittenArtifacts(artifacts) ==
  LET keys == DOMAIN artifacts.data
      Writable(S) == (\A k \in S : Sane(k)) /\ ~Clashes(S)
  IN IF PersistWorks(artifacts) THEN {keys}
     ELSE {S \in SUBSET keys : Writable(S) /\ \E k \in keys \ S : ~Writable(S \cup {k})}

(* load_run_record_from_disk, and read_agent_artifact of one of its keys.  *)
LoadRecord(index, stored) ==
  CASE \E key \in index : ~Sane(key) -> "unreadable"
    [] OTHER ->
       IF \E key \in index, k \in DOMAIN stored :
            key.path # k.path /\ IsPrefix(key.path, k.path)
       THEN "unreadable" ELSE "loaded"
ReadArtifact(key, data) ==
  CASE ~Sane(key)                         -> "invalid"
    [] Sane(key) /\ key \in DOMAIN data    -> data[key]
    [] Sane(key) /\ key \notin DOMAIN data -> "not_found"

(* build_usage_output of the server (mcp/tools.rs), from its record.       *)
HasOutput(stored) == \E key \in DOMAIN stored : key.path \in {<<"stdout.txt">>, <<"stderr.txt">>}

ServerExitCode(run) == FirstOf(run.outcome.stats.exit_code, MessageCode(run.error))
ServerUsage(run) ==
  UsageOutput(run.usage, run.compiled, HasOutput(run.artifacts.data), "run",
              ServerExitCode(run), run.policy.retries_used)

(* The same of the CLI (main.rs), from run.json and the files beside it:   *)
(* what the outcome holds comes first, but for the retries and the message.*)
(* (Mutant: the CLI knows the usage of the outcome only.)                  *)
UsageOfOutcome(run) == run.outcome.stats.usage
UsageOnDisk(run) ==
  [number \in DOMAIN run.usage |-> FirstOf(run.outcome.stats.usage[number], run.usage[number])]
CliExitCode(run) ==
  FirstOf(run.outcome.stats.exit_code,
          MessageCode(IF run.error # "none" THEN run.error ELSE run.outcome.error))
CliRetries(run) ==
  LET attempts == run.outcome.attempts IN
  FirstOf(run.policy.retries_used, IF attempts \in {Unset, 0} THEN 0 ELSE attempts - 1)
CliUsage(run, stored) ==
  UsageOutput(UsageOnDisk(run), run.compiled, HasOutput(stored),
              FirstOf(run.outcome.stats.duration, "run"), CliExitCode(run), CliRetries(run))
================================================================================
