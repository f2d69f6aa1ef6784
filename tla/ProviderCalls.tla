------------------------------ MODULE ProviderCalls ------------------------------
(***************************************************************************)
(* The providers: whether one is ready (probe/mod.rs), and a call of its   *)
(* CLI (runtime/runners/*.rs) up to the execution the runner returns.  The *)
(* process itself is in ProviderProcess; here it answers what it likes.    *)
(*                                                                         *)
(* env is what the server finds outside: version, what `<cli> --version`   *)
(* does; bin, the executable MCP_SUBAGENT_<P>_BIN names; model, the one of *)
(* MCP_SUBAGENT_OLLAMA_MODEL.  A stream is the sequence of the tokens in   *)
(* it: texts, sentinels, JSON objects; and, on stderr, lines of errors.    *)
(***************************************************************************)
EXTENDS Workspaces

--------------------------------------------------------------------------------
(* probe/mod.rs.                                                           *)

Experimental(provider) == provider = "gemini"

InferProbeStatus(words, experimental, succeeded) ==
  CASE "permission" \in words -> "permission_denied"
    [] OTHER ->
       CASE "auth" \in words                            -> "needs_authentication"
         [] "auth" \notin words /\ "unsupported" \in words -> "unsupported_version"
         [] words \cap {"auth", "unsupported"} = {}     ->
              IF experimental /\ "experimental" \in words THEN "experimental_unavailable"
              ELSE IF succeeded THEN "ready" ELSE "probe_failed"

(* A CLI that prints its version and succeeds is ready also when it warns  *)
(* of a permission.                                                        *)
ProbeStatus(provider, version) ==
  CASE provider = "mock" -> "ready"
    [] provider # "mock" /\ version.run # "ran" -> version.run
    [] provider # "mock" /\ version.run = "ran" ->
         LET inferred == InferProbeStatus(version.words, Experimental(provider), version.succeeds)
         IN IF inferred = "permission_denied" /\ version.succeeds /\ version.first_line = "version"
            THEN "ready" ELSE inferred

--------------------------------------------------------------------------------
(* What a runner does before it starts its CLI.                            *)

Sections(spec) == spec.provider \in spec.overrides /\ spec.override_mode # Unset

CodexSandbox(spec) == IF Sections(spec) THEN spec.override_mode ELSE spec.runtime.sandbox

PermissionModes == {"default", "acceptEdits", "plan", "dontAsk", "bypassPermissions"}
PermissionMode(spec) ==
  CASE Sections(spec) -> spec.override_mode
    [] OTHER ->
       CASE spec.runtime.approval = "provider_default"  ->
              [read_only |-> "plan", workspace_write |-> "acceptEdits",
               full_access |-> "bypassPermissions"][spec.runtime.sandbox]
         [] spec.runtime.approval = "deny_by_default"   -> "plan"
         [] spec.runtime.approval = "auto_accept_edits" -> "acceptEdits"
         [] spec.runtime.approval = "ask"               -> "refused"

ApprovalMapped(spec) == spec.runtime.approval \in {"provider_default", "deny_by_default"}
GeminiApproval(spec) ==
  [read_only |-> "default", workspace_write |-> "auto_edit",
   full_access |-> "yolo"][spec.runtime.sandbox]

OllamaModel(spec, env) ==
  IF NonEmpty(spec.model) # Unset THEN spec.model ELSE NonEmpty(env.model)

(* What the provider is told it may do.                                    *)
MayWrite(spec) ==
  CASE spec.provider = "codex"  -> CodexSandbox(spec) # "read_only"
    [] spec.provider = "claude" -> PermissionMode(spec) \in {"acceptEdits", "bypassPermissions"}
    [] spec.provider = "gemini" -> GeminiApproval(spec) # "default"
    [] OTHER                    -> FALSE

(* The executable that is started need not be the one that was probed.     *)
Spawns(env) == IF NonEmpty(env.bin) = Unset THEN env.version.run = "ran" ELSE env.bin = "works"

(* Gemini is started in its workspace only under these two policies.       *)
GeminiInWorkspace(spec) == spec.runtime.native_discovery \in {"inherit", "allowlist"}

(* What each runner checks and starts before its CLI runs; codex is started*)
(* in the server's own directory, claude and ollama in the workspace.      *)
CodexChecks(spec, env) ==
  << <<"approval", ApprovalMapped(spec)>>, <<"spawn", Spawns(env)>> >>
ClaudeChecks(spec, prepared, env) ==
  << <<"permission", PermissionMode(spec) \in PermissionModes>>,
     <<"spawn", Spawns(env) /\ prepared.present>> >>
GeminiChecks(spec, prepared, env) ==
  << <<"approval", ApprovalMapped(spec)>>,
     <<"spawn", Spawns(env) /\ (GeminiInWorkspace(spec) => prepared.present)>> >>
OllamaChecks(spec, prepared, env) ==
  << <<"model", OllamaModel(spec, env) # Unset>>, <<"spawn", Spawns(env) /\ prepared.present>> >>

(* The first reason why the call is an error before the CLI runs.          *)
CallVerdict(spec, prepared, env) ==
  LET checks == CASE spec.provider = "codex"  -> CodexChecks(spec, env)
                  [] spec.provider = "claude" -> ClaudeChecks(spec, prepared, env)
                  [] spec.provider = "gemini" -> GeminiChecks(spec, prepared, env)
                  [] spec.provider = "ollama" -> OllamaChecks(spec, prepared, env)
                  [] spec.provider = "mock"   -> <<>>
  IN FirstFailure(checks)

(* What a call has in the temp directory while its CLI runs, and what is   *)
(* there when the call is an error before that.                            *)
DiscoveryDirs(policy) ==
  CASE policy = "minimal"  -> {"launch"}
    [] policy = "isolated" -> {"root"}
    [] OTHER               -> {}
TempFiles(spec, discovery) ==
  CASE spec.provider = "codex"  -> {"schema", "last_message"}
    [] spec.provider = "claude" -> {"schema"}
    [] spec.provider = "gemini" -> DiscoveryDirs(discovery)
    [] OTHER                    -> {}
TempAtError(spec, verdict) ==
  IF spec.provider = "gemini" /\ verdict = "approval" THEN {}
  ELSE TempFiles(spec, spec.runtime.native_discovery) \ {"last_message"}

--------------------------------------------------------------------------------
(* What a runner makes of the answer of its CLI.                           *)

(* Lines of stderr.  The class is what classify_error_message finds in it. *)
ErrorLines ==
  [rate_limit   |-> [marker |-> "none",    class |-> "retryable"],
   error_prefix |-> [marker |-> "ERROR:",  class |-> "unknown"],
   bad_schema   |-> [marker |-> "schema",  class |-> "non_retryable"],
   io_error     |-> [marker |-> "error",   class |-> "unknown"],
   login        |-> [marker |-> "none",    class |-> "non_retryable"],
   notice       |-> [marker |-> "none",    class |-> "unknown"]]
Lines(stderr) == {i \in DOMAIN stderr : stderr[i] \in DOMAIN ErrorLines}
Marked(stderr, marker) == {i \in Lines(stderr) : ErrorLines[stderr[i]].marker = marker}

(* Where the line that goes into the message may be: codex looks for the   *)
(* error, the others take the first of all.                                *)
CodexLines(stderr) ==
  LET Found(marker) == Marked(stderr, marker) # {} IN
  CASE Found("ERROR:")                                        -> Marked(stderr, "ERROR:")
    [] ~Found("ERROR:") /\ Found("schema")                    -> Marked(stderr, "schema")
    [] ~Found("ERROR:") /\ ~Found("schema") /\ Found("error") -> Marked(stderr, "error")
    [] OTHER                                                  -> Lines(stderr)

ChosenLine(provider, stderr) ==
  LET found == IF provider = "codex" THEN CodexLines(stderr) ELSE Lines(stderr)
  IN IF found = {} THEN "none" ELSE stderr[Min(found)]
ClassOfFailure(provider, stderr) ==
  LET line == ChosenLine(provider, stderr)
  IN IF line = "none" THEN "unknown" ELSE ErrorLines[line].class

EndOf(provider, answer) ==
  CASE answer.exit = "success" -> "succeeded"
    [] answer.exit = "timeout" -> "timed_out"
    [] answer.exit = "failure" ->
         LET class == ClassOfFailure(provider, answer.stderr)
         IN [retryable |-> "failed_retryable", non_retryable |-> "failed_non_retryable",
             unknown |-> "failed_unknown"][class]

(* Codex: the last message follows what was printed, unless it timed out.  *)
StdoutOf(provider, answer) ==
  IF provider = "codex" /\ answer.exit # "timeout"
  THEN answer.stdout \o answer.last_message ELSE answer.stdout

(* Gemini: an isolated call that fails on a login is made once more with   *)
(* the user's own home, and only that one is reported.                     *)
CallsAgain(spec, answer) ==
  /\ spec.provider = "gemini" /\ spec.runtime.native_discovery = "isolated"
  /\ answer.exit = "failure" /\ "login" \in Range(answer.stderr)
MergedStderr(first, retried) == retried.stderr \o first.stderr

(* A call that timed out without a word on stderr says so itself.          *)
Execution(provider, answer, stderr) ==
  [end |-> EndOf(provider, answer), line |-> ChosenLine(provider, answer.stderr),
   stdout |-> StdoutOf(provider, answer),
   stderr |-> IF answer.exit = "timeout" /\ stderr = <<>> THEN <<"text">> ELSE stderr]
================================================================================
