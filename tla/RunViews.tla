---------------------------------- MODULE RunViews ----------------------------------
(***************************************************************************)
(* What clients are shown of a run besides its record: why it does not get *)
(* on, how long its phases took, whether it is listed, what it printed.    *)
(* The server (mcp/tools.rs) and the CLI (main.rs) have a copy of most of  *)
(* this each.                                                              *)
(*                                                                         *)
(* A log is a run's events.jsonl: of an event, its name, its phase, and as *)
(* words what its message and detail may be taken for.  The events that    *)
(* only count bytes are left out, and a place in the log stands for a time.*)
(***************************************************************************)
EXTENDS RunResults

Event(name, shown_phase, words) == [event |-> name, phase |-> shown_phase, words |-> words]
HasEvent(log, name) == \E i \in DOMAIN log : log[i].event = name

--------------------------------------------------------------------------------
(* Texts.                                                                  *)

(* What a text is searched for, in this order: a provider that waits, or   *)
(* else an error.                                                          *)
Waits == <<"trust_required", "auth_required", "tool_approval_required", "skill_discovery",
           "workspace_scan">>
TextReasons == Waits \o <<"provider_unavailable", "normalization_failed", "network_error">>

(* Whoever loaded cached credentials does not wait for a login.            *)
Says(words, reason) ==
  reason \in words /\ (reason = "auth_required" => "credentials_loaded" \notin words)

FirstKnown(reasons) ==
  LET known == {i \in DOMAIN reasons : reasons[i] # "none"}
  IN IF known = {} THEN "none" ELSE reasons[Min(known)]
Searched(words, reasons) ==
  FirstKnown([i \in DOMAIN reasons |-> IF Says(words, reasons[i]) THEN reasons[i] ELSE "none"])
ClassifyText(words) == Searched(words, TextReasons)

(* What a provider may print of this, and what the texts of a probe are.   *)
Prompts ==
  [trust_prompt |-> "trust_required", login |-> "auth_required",
   cached_login |-> "credentials_loaded", permission |-> "tool_approval_required",
   auth |-> "auth_required"]
WordsIn(tokens) == {Prompts[token] : token \in tokens \cap DOMAIN Prompts}
(* The name of an agent is text as well: one named like a sentinel.        *)
NameWords(name) == IF name = "sentinel" THEN {"normalization_failed"} ELSE {}

WaitEvents ==
  [trust_required |-> "waiting_for_trust", auth_required |-> "waiting_for_auth",
   tool_approval_required |-> "waiting_for_tool_approval",
   skill_discovery |-> "waiting_for_skill_discovery",
   workspace_scan |-> "waiting_for_workspace_scan"]
(* The event of a wait, named like its phase.                              *)
WaitSignal(words) ==
  LET reason == Searched(words, Waits)
  IN IF reason = "none" THEN <<>> ELSE <<Event(WaitEvents[reason], WaitEvents[reason], {})>>

--------------------------------------------------------------------------------
(* Why a run does not get on.  stalled: nothing happened for eight seconds *)
(* in a run that goes on.                                                  *)

WaitReasonOf(name) ==
  LET reasons == {reason \in DOMAIN WaitEvents : WaitEvents[reason] = name}
  IN IF reasons = {} THEN "none" ELSE CHOOSE reason \in reasons : TRUE

StallReason(name) ==
  CASE name = "provider.first_output.warning" -> "provider_output_wait"
    [] name = "run.queued"                    -> "queueing"
    [] name = "workspace.prepare.started"     -> "workspace_prepare"
    [] name = "provider.probe.started"        -> "provider_probe"
    [] name = "provider.boot.started"         -> "provider_boot"
    [] OTHER                                  -> "none"
EventReason(event, stalled) ==
  FirstKnown(<<WaitReasonOf(event.event), IF stalled THEN StallReason(event.event) ELSE "none",
               ClassifyText(event.words)>>)

(* The last event that says something.  (Mutant: a stall is read off any   *)
(* run.)                                                                   *)
ClassifyAnyEvents(log, stalled) ==
  FirstKnown([i \in DOMAIN log |-> EventReason(Reverse(log)[i], TRUE)])
ClassifyEvents(log, stalled) ==
  FirstKnown([i \in DOMAIN log |-> EventReason(Reverse(log)[i], stalled)])

Fallback(shown_phase) ==
  CASE shown_phase \in {"queueing", "workspace_prepare", "provider_probe", "provider_boot"} ->
         shown_phase
    [] shown_phase = "running" -> "provider_output_wait"
    [] OTHER                   -> "unknown_startup_wait"

BlockReason(run_status, stalled, log, error) ==
  CASE run_status = "Succeeded" -> "none"
    [] OTHER ->
       FirstKnown(<<ClassifyText(error), ClassifyEvents(log, stalled),
                    IF stalled THEN Fallback(Last(log).phase) ELSE "none">>)

(* build_event_runtime_snapshot: silent is whether the last event is old.  *)
Snapshot(run_status, ended, silent, log, error) ==
  [phase |-> IF log = <<>> THEN Unset ELSE Last(log).phase,
   block_reason |-> BlockReason(run_status, ~ended /\ silent /\ log # <<>>, log, error)]

(* The same of the CLI: list_runs and read_stats of main.rs, from run.json.*)
CliBlockReason(run_status, stalled, log, error) == BlockReason(run_status, stalled, log, error)
CliSnapshot(run_status, ended, silent, log, error) ==
  [phase |-> IF log = <<>> THEN Unset ELSE Last(log).phase,
   block_reason |-> CliBlockReason(run_status, ~ended /\ silent /\ log # <<>>, log, error)]

(* The reasons of all waits, and the one that came last for the first time.*)
WaitReasons(log) ==
  LET Read(reasons, event) ==
        LET reason == WaitReasonOf(event.event)
        IN IF reason = "none" \/ reason \in Range(reasons) THEN reasons ELSE Append(reasons, reason)
  IN Loop(Read, <<>>, log)

--------------------------------------------------------------------------------
(* build_agent_stats_output: from when to when each phase lasted, as far   *)
(* as the first event of each name says.                                   *)

FirstAt(log, name) ==
  IF HasEvent(log, name) THEN Min({i \in DOMAIN log : log[i].event = name}) ELSE Unset
Between(from, to) ==
  IF Unset \in {from, to} THEN Unset ELSE IF to < from THEN Unset ELSE [from |-> from, to |-> to]

RunStats(log) ==
  LET created   == 0
      end       == Len(log)
      accepted  == FirstOf(FirstAt(log, "run.accepted"), created)
      probed    == FirstAt(log, "provider.probe.started")
      ready     == FirstAt(log, "provider.probe.completed")
      preparing == FirstAt(log, "workspace.prepare.started")
      boot      == FirstAt(log, "provider.boot.started")
      output    == FirstAt(log, "provider.first_output")
  IN [queue        |-> Between(accepted, FirstOf(probed, preparing)),
      probe        |-> Between(probed, ready),
      workspace    |-> Between(preparing, FirstOf(FirstOf(boot, output), end)),
      boot         |-> Between(boot, FirstOf(output, end)),
      execution    |-> Between(FirstOf(FirstOf(preparing, ready), FirstOf(probed, accepted)), end),
      first_output |-> Between(accepted, output),
      wall         |-> Between(accepted, end)]
CliStats(log) == RunStats(log)

--------------------------------------------------------------------------------
(* Lists and results.  dir is a run's directory: meta its run.json, if     *)
(* there is one, stored its artifacts.                                     *)

(* list_runs of a server that holds the run in memory, or not: a run that  *)
(* cannot be loaded is an error of the whole call.                         *)
ListRuns(held, dir) ==
  CASE held                                -> "listed"
    [] ~held /\ dir.meta.status = "none"   -> "left_out"
    [] ~held /\ dir.meta.status # "none"   ->
         IF LoadRecord(dir.meta.artifacts.index, dir.stored) = "loaded" THEN "listed" ELSE "error"

(* list_run_records of the CLI: a directory without a run.json is an error *)
(* of the whole command.                                                   *)
CliListRuns(dir, log) ==
  CASE dir.meta.status # "none"                -> "listed"
    [] dir.meta.status = "none" /\ log = <<>>  -> "left_out"
    [] dir.meta.status = "none" /\ log # <<>>  -> "error"

(* read_run_logs: who produced the text that is shown as a stream.         *)
ReadRunLog(name, data, stored) ==
  LET key == Plain(<<name>>) IN
  CASE key \in DOMAIN data                          -> data[key]
    [] key \notin DOMAIN data /\ key \in DOMAIN stored -> stored[key]
    [] OTHER                                        -> Unset

(* read_result of the CLI: the text of stdout, or else the summary.        *)
NativeResult(stored) ==
  FirstOf(ReadRunLog("stdout.txt", NoArtifacts.data, stored), "summary")
================================================================================
