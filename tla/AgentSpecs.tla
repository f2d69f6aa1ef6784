------------------------------- MODULE AgentSpecs -------------------------------
(***************************************************************************)
(* From the configuration to the agent of a request (config.rs, spec/*.rs, *)
(* the first half of mcp/server.rs): which directories hold the agents,    *)
(* which files of them are agents, what a valid AgentSpec is, and what     *)
(* prepare_run makes of a request for one.                                 *)
(*                                                                         *)
(* A path, a name and a text are members of small sets.  Blank stands for  *)
(* any text that trims to nothing and "" for the empty one.                *)
(***************************************************************************)
EXTENDS Options, Loops, SequencesExt

CONSTANT Broken  \* a file, or what is read from it, that does not parse

Blank == " "

(* The name of the first check that fails, in the order they are made.     *)
FirstFailure(checks) ==
  LET failing == {i \in DOMAIN checks : ~checks[i][2]}
  IN IF failing = {} THEN "ok" ELSE checks[Min(failing)][1]

Providers == {"mock", "claude", "codex", "gemini", "ollama"}

--------------------------------------------------------------------------------
(* config.rs.                                                              *)

Fields == {"agents_dirs", "state_dir", "log_level"}
NoLayer == [f \in Fields |-> Unset]
Defaults == [agents_dirs |-> <<"agents">>, state_dir |-> "state", log_level |-> "info"]

NonEmpty(text) == IF text \in {"", Blank} THEN Unset ELSE text
NonEmptyDirs(dirs) ==
  LET cleaned == Keep(dirs, Range(dirs) \ {""})
  IN IF cleaned = <<>> THEN Unset ELSE cleaned

(* An environment variable that lists directories: its segments, and       *)
(* whether commas or the separator of PATH stand between them; only the    *)
(* segments between commas are trimmed.                                    *)
ParseDirsEnv(raw) ==
  LET trimmed == [i \in DOMAIN raw.segments |->
                    IF raw.commas /\ raw.segments[i] = Blank THEN "" ELSE raw.segments[i]]
  IN NonEmptyDirs(trimmed)

EnvLayer(env) ==
  [agents_dirs |-> IF env.agents_dirs = Unset THEN Unset ELSE ParseDirsEnv(env.agents_dirs),
   state_dir |-> NonEmpty(env.state_dir), log_level |-> NonEmpty(env.log_level)]

(* The layers of the file and of the command line keep a blank state_dir.  *)
WrittenLayer(written) ==
  [written EXCEPT !.agents_dirs = IF @ = Unset THEN Unset ELSE NonEmptyDirs(@),
                  !.log_level = NonEmpty(@)]

(* (Mutant: the file over the environment over the command line.)          *)
Overlay(below, above) == [f \in Fields |-> IF above[f] = Unset THEN below[f] ELSE above[f]]
MergeUpwards(file, env, cli) == Overlay(Overlay(Overlay(Defaults, cli), env), file)
MergeLayers(file, env, cli) == Overlay(Overlay(Overlay(Defaults, file), env), cli)

(* Which config.toml is read.                                              *)
ResolveConfigPath(cli, env, project_exists) ==
  CASE cli # Unset                          -> cli
    [] cli = Unset /\ NonEmpty(env) # Unset -> env
    [] OTHER                                -> IF project_exists THEN "project" ELSE "home"

(* What reading it gives: nothing when there is none, also for a path the  *)
(* user named; an error when it does not parse; or its layer.              *)
LoadFileConfig(content) ==
  CASE content = Unset  -> NoLayer
    [] content = Broken -> Broken
    [] OTHER            -> WrittenLayer(content)

(* shell holds the command line, the environment and the files of config.  *)
ResolveRuntimeConfig(shell) ==
  LET path == ResolveConfigPath(shell.cli_config, shell.env_config,
                                shell.configs["project"] # Unset)
      file == LoadFileConfig(shell.configs[path])
  IN IF file = Broken THEN Broken
     ELSE MergeLayers(file, EnvLayer(shell.env), WrittenLayer(shell.cli))

--------------------------------------------------------------------------------
(* The types of spec/*.rs with their defaults, and validate.rs.            *)

DefaultRuntime ==
  [context_mode |-> [kind |-> "isolated"], delegation_context |-> "minimal",
   plan_section_selector |-> Unset, memory_sources |-> <<[kind |-> "auto"]>>,
   native_discovery |-> "minimal", working_dir_policy |-> "auto",
   file_conflict_policy |-> "serialize", sandbox |-> "read_only",
   approval |-> "provider_default", max_turns |-> Unset, timeout_secs |-> 900,
   background_preference |-> "foreground", parse_policy |-> "best_effort",
   spawn_policy |-> "sync", emit_summary_json |-> TRUE,
   max_attempts |-> 1, backoff_secs |-> 1]

Stages == {"research", "plan", "build", "review", "archive"}
NoWorkflow == [enabled |-> FALSE, stages |-> <<>>]
DefaultWorkflow ==
  [enabled |-> TRUE, stages |-> <<"research", "plan", "build", "review", "archive">>,
   allowed_stages |-> <<>>, max_runtime_depth |-> 1,
   plan_if |-> [touched_files |-> 5, minutes |-> 15, flags |-> TRUE],
   review |-> [correctness |-> TRUE, style |-> FALSE, allow_same_provider |-> TRUE],
   knowledge |-> [write_note |-> TRUE, touched_files |-> 3, new_config |-> TRUE,
                  behavior_change |-> TRUE, bugfix |-> TRUE],
   archive |-> [enabled |-> TRUE, dir |-> "docs/plans", final_summary |-> TRUE,
                metadata_index |-> TRUE]]

(* An AgentSpec: overrides are the providers that have a section of        *)
(* provider_overrides, override_mode the mode its own section sets.        *)
DefaultSpec ==
  [provider |-> "codex", model |-> Unset, words |-> {}, tags |-> {},
   overrides |-> {}, override_mode |-> Unset,
   runtime |-> DefaultRuntime, workflow |-> NoWorkflow]

OverridesValid(spec) == spec.overrides \subseteq {spec.provider}

(* A path of a memory source is blank, absolute, goes through "..", holds  *)
(* characters of a glob pattern, or is a plain relative one.               *)
PathValid(source) ==
  source.path \in IF source.kind = "glob" THEN {"plain", "pattern"} ELSE {"plain"}
MemoryValid(spec) ==
  \A source \in Range(spec.runtime.memory_sources) :
    /\ source.kind = "inline" => source.text # Blank
    /\ source.kind \in {"file", "glob"} => PathValid(source)

RuntimeValid(spec) ==
  LET runtime == spec.runtime IN
  /\ runtime.timeout_secs # 0
  /\ runtime.max_turns # 0
  /\ runtime.delegation_context = "plan_section" => runtime.plan_section_selector # Unset
  /\ runtime.plan_section_selector # Blank

WorkflowValid(spec) ==
  LET workflow == spec.workflow IN
  workflow # NoWorkflow =>
    /\ workflow.max_runtime_depth # 0
    /\ workflow.enabled => workflow.stages # <<>>
    /\ workflow.plan_if.touched_files # 0 /\ workflow.plan_if.minutes # 0
    /\ IsInjective(workflow.stages) /\ IsInjective(workflow.allowed_stages)
    /\ workflow.allowed_stages # <<>> =>
         Range(workflow.stages) \subseteq Range(workflow.allowed_stages)

ValidateAgentSpec(spec) ==
  OverridesValid(spec) /\ MemoryValid(spec) /\ RuntimeValid(spec) /\ WorkflowValid(spec)

--------------------------------------------------------------------------------
(* registry.rs.  A directory is the sequence of its files in the order     *)
(* WalkDir finds them, a missing one is empty.                             *)

Loadable(file) == file.parses /\ ValidateAgentSpec(file.spec)

(* The stable sort by name.                                                *)
ByName(loaded) ==
  LET Rank(i) == Cardinality({j \in DOMAIN loaded :
                                \/ loaded[j].order < loaded[i].order
                                \/ loaded[j].order = loaded[i].order /\ j <= i})
  IN [k \in DOMAIN loaded |-> loaded[CHOOSE i \in DOMAIN loaded : Rank(i) = k]]

LoadFromDir(dir) == ByName(Keep(dir, {file \in Range(dir) : file.is_agent}))
LoadFromDirs(dirs) ==
  LET Extend(loaded, dir) == loaded \o LoadFromDir(dir)
      all == Loop(Extend, <<>>, dirs)
  IN IF \A i \in DOMAIN all : Loadable(all[i]) THEN ByName(all) ELSE Broken

--------------------------------------------------------------------------------
(* helpers.rs, state.rs and the first half of server.rs.                   *)

PreferredRunMode(spec) ==
  IF spec.runtime.spawn_policy = "async" \/ spec.runtime.background_preference = "background"
  THEN "async" ELSE "sync"

EffectiveRunMode(requested, preferred) ==
  [mode   |-> IF "async" \in {requested, preferred} THEN "async" ELSE "sync",
   source |-> IF requested = "async" /\ preferred = "sync" THEN "override" ELSE "spec",
   reject |-> requested = "sync" /\ preferred = "async"]

(* hints.run_mode of a run that was not rejected.                          *)
RunModeOf(spec, request) == EffectiveRunMode(request.tool, PreferredRunMode(spec)).mode

SourceOf(field, runtime) ==
  IF runtime[field] = DefaultRuntime[field] THEN "default" ELSE "spec"

PolicySnapshot(spec, requested) ==
  LET effective == EffectiveRunMode(requested, PreferredRunMode(spec))
      Source(field) == SourceOf(field, spec.runtime)
  IN [requested_run_mode |-> requested, effective_run_mode |-> effective.mode,
      effective_source |-> effective.source, spawn_source |-> Source("spawn_policy"),
      background_source |-> Source("background_preference"),
      max_turns |-> spec.runtime.max_turns, turns_source |-> Source("max_turns"),
      retry_source |-> IF Source("max_attempts") = "spec" THEN "spec"
                       ELSE Source("backoff_secs"),
      attempts_used |-> Unset, retries_used |-> Unset]

Outcome(policy, attempts, retries) ==
  [policy EXCEPT !.attempts_used = attempts, !.retries_used = retries]

(* What the record of a run keeps of its spec.                             *)
SpecSnapshot(spec) ==
  [provider |-> spec.provider, context_mode |-> spec.runtime.context_mode,
   delegation_context |-> spec.runtime.delegation_context,
   working_dir_policy |-> spec.runtime.working_dir_policy,
   sandbox |-> spec.runtime.sandbox, approval |-> spec.runtime.approval,
   memory_sources |-> [i \in DOMAIN spec.runtime.memory_sources |->
                         spec.runtime.memory_sources[i].kind]]

(* prepare_run: the first agent of that name and what is asked of it, or   *)
(* the error.                                                              *)
PrepareRun(loaded, request) ==
  LET named == {i \in DOMAIN loaded : loaded[i].name = request.agent}
      file == loaded[Min(named)]
      effective == EffectiveRunMode(request.tool, PreferredRunMode(file.spec))
  IN CASE named = {}                        -> [error |-> "not_found"]
       [] named # {} /\ effective.reject    -> [error |-> "use_spawn_agent"]
       [] named # {} /\ ~effective.reject   ->
            [error |-> "none", file |-> file, run_mode |-> effective.mode,
             policy |-> PolicySnapshot(file.spec, request.tool),
             acceptance |-> {"sentinel", "concise"}]
================================================================================
