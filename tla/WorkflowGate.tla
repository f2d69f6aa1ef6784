------------------------------ MODULE WorkflowGate ------------------------------
(***************************************************************************)
(* What the workflow section of a spec asks of a run: the three checks     *)
(* Dispatcher makes before it compiles the context (dispatcher.rs), and    *)
(* the two hooks that read the same policy after the run (review.rs,       *)
(* archive.rs), which have keyword lists and a notion of risk of their own.*)
(*                                                                         *)
(* A text is the set of words found in it.  A word stands for the keywords *)
(* that are in the same lists: "logic" for those of the correctness track  *)
(* alone, "correctness" for those that also tell a reviewer, "naming" and  *)
(* "style" likewise; "clean code", "multiple modules", "breaking change",  *)
(* "upgrade" and "needs approval" for those only the gate knows.           *)
(***************************************************************************)
EXTENDS AgentSpecs, FiniteSets

Enabled(spec) == spec.workflow.enabled
Stage(request) == request.stage
Profile(spec) == spec.words \cup spec.tags

PlanningSignals == {"research", "plan"}
ReviewerSignals == {"review", "correctness", "style"}
BuilderSignals  == {"build"}

Tracks(words, style_words) ==
  (IF words \cap {"correctness", "logic"} # {} THEN {"correctness"} ELSE {})
  \cup (IF words \cap style_words # {} THEN {"style"} ELSE {})

GateTracks(words) == Tracks(words, {"style", "naming", "clean code"})
HookTracks(words) == Tracks(words, {"style", "naming"})

(* parent_summary is Unset or what the text of the parent holds.           *)
ParentWords(request) ==
  IF request.parent_summary = Unset THEN {} ELSE request.parent_summary.words

--------------------------------------------------------------------------------
(* Reasons to ask for a plan.                                              *)

(* The first component of a selected path: an absolute one that is not     *)
(* below the working directory begins at the root of the file system.      *)
TopLevelModule(file, dir) ==
  IF file.absolute /\ ~dir.is_source THEN "/" ELSE file.path[1]

CrossModule(request, dir) ==
  \/ Cardinality({TopLevelModule(file, dir) : file \in request.selected_files}) >= 2
  \/ request.words \cap {"cross module", "multiple modules"} # {}
NewInterface(request) == request.words \cap {"new interface", "breaking change"} # {}
Migration(request) == request.words \cap {"migration", "upgrade"} # {}
ApprovalPoint(spec, request) ==
  spec.runtime.approval = "ask" \/ request.words \cap {"human approval", "needs approval"} # {}

TouchesMany(spec, request) ==
  /\ spec.workflow.plan_if.touched_files # Unset
  /\ Cardinality(request.selected_files) >= spec.workflow.plan_if.touched_files
RunsLong(spec) ==
  /\ spec.workflow.plan_if.minutes # Unset
  /\ spec.runtime.timeout_secs \div 60 >= spec.workflow.plan_if.minutes

Reasons(spec, request, dir) ==
  LET flags == spec.workflow.plan_if.flags
      Triggered == [touched_files |-> TouchesMany(spec, request),
                    minutes |-> RunsLong(spec),
                    parallel |-> flags /\ RunModeOf(spec, request) = "async",
                    cross_module |-> flags /\ CrossModule(request, dir),
                    new_interface |-> flags /\ NewInterface(request),
                    migration |-> flags /\ Migration(request),
                    approval |-> flags /\ ApprovalPoint(spec, request)]
  IN {reason \in DOMAIN Triggered : Triggered[reason]}

--------------------------------------------------------------------------------
(* The checks of run_with_observers.                                       *)

(* Depth written as runtime_depth= in the text of the parent, plus one, as *)
(* a u8 that saturates.  (Mutant: one that wraps.)                         *)
WrappingDepth(request) ==
  CASE request.parent_summary = Unset -> 0
    [] OTHER -> LET marked == request.parent_summary.depth
                IN IF marked = Unset THEN 1 ELSE (marked + 1) % 256
RuntimeDepth(request) ==
  CASE request.parent_summary = Unset -> 0
    [] OTHER -> LET marked == request.parent_summary.depth
                IN IF marked = Unset THEN 1 ELSE IF marked = 255 THEN 255 ELSE marked + 1

DepthAllowed(spec, request) ==
  Enabled(spec) => RuntimeDepth(request) <= spec.workflow.max_runtime_depth

ScopeAllowed(spec, request) ==
  spec.runtime.sandbox = "read_only" /\ spec.runtime.working_dir_policy = "git_worktree"
    => Stage(request) \in {"research", "plan"}

(* enforce_stage_agent_routing.                                            *)
RoutingAllowed(spec, request) ==
  /\ Stage(request) \in {"research", "plan"} => Profile(spec) \cap PlanningSignals # {}
  /\ Stage(request) = "review" =>
       Profile(spec) \cap ReviewerSignals # {} \/ Profile(spec) \cap BuilderSignals = {}

RequiredTracks(spec, high_risk) ==
  (IF spec.workflow.review.correctness THEN {"correctness"} ELSE {})
  \cup (IF spec.workflow.review.style \/ high_risk THEN {"style"} ELSE {})

(* enforce_review_policy.  (Mutant: the reasons for a plan do not count.)  *)
ReviewAllowedAtAnyRisk(spec, request, dir) ==
  Stage(request) = "review" =>
    RequiredTracks(spec, FALSE)
      \subseteq GateTracks(Profile(spec)) \cup GateTracks(ParentWords(request))
ReviewAllowed(spec, request, dir) ==
  LET required == RequiredTracks(spec, Reasons(spec, request, dir) # {})
      current  == GateTracks(Profile(spec))
  IN Stage(request) = "review" =>
       /\ required \subseteq current \cup GateTracks(ParentWords(request))
       /\ required = {"correctness", "style"} => current # {}

(* A plan is looked for in the working directory the run is given, which   *)
(* may be a copy or a checkout; only an absolute plan_ref leads elsewhere. *)
HasPlanFile(request, dir) ==
  \/ /\ request.plan_ref # Unset
     /\ request.plan_ref.path \in
          IF request.plan_ref.absolute THEN dir.source_files ELSE DOMAIN dir.files
  \/ {"PLAN.md", ".mcp-subagent/PLAN.md"} \cap DOMAIN dir.files # {}

PlanAllowed(spec, request, dir) ==
  Stage(request) \in {"build", "review"} /\ Reasons(spec, request, dir) # {}
    => HasPlanFile(request, dir)

StageEnabled(spec, request) ==
  /\ spec.workflow.stages # <<>> => Stage(request) \in Range(spec.workflow.stages)
  /\ spec.workflow.allowed_stages # <<>> =>
       Stage(request) \in Range(spec.workflow.allowed_stages)

(* enforce_workflow_gate: the first check that fails.                      *)
GateVerdict(spec, request, dir) ==
  IF ~Enabled(spec) \/ Stage(request) = Unset THEN "ok"
  ELSE FirstFailure(<< <<"stage", Stage(request) \in Stages /\ StageEnabled(spec, request)>>,
                       <<"routing", RoutingAllowed(spec, request)>>,
                       <<"review", ReviewAllowed(spec, request, dir)>>,
                       <<"plan", PlanAllowed(spec, request, dir)>> >>)

(* The order of run_with_observers after Validating.                       *)
DispatchVerdict(spec, request, dir) ==
  LET early == FirstFailure(<< <<"spec", ValidateAgentSpec(spec)>>,
                               <<"scope", ScopeAllowed(spec, request)>>,
                               <<"depth", DepthAllowed(spec, request)>> >>)
  IN IF early = "ok" THEN GateVerdict(spec, request, dir) ELSE early

--------------------------------------------------------------------------------
(* review.rs, after a run that succeeded.                                  *)

(* is_high_risk_review: neither the files nor the approval policy count.   *)
HighRiskWords(request) ==
  request.words \cap {"cross module", "new interface", "migration", "human approval"} # {}
HighRisk(spec, request) ==
  \/ TouchesMany(spec, request) \/ RunsLong(spec)
  \/ spec.workflow.plan_if.flags /\ RunModeOf(spec, request) = "async"
  \/ spec.workflow.plan_if.flags /\ HighRiskWords(request)

(* review/evidence.json.                                                   *)
ReviewEvidence(spec, request) ==
  LET required  == RequiredTracks(spec, HighRisk(spec, request))
      available == HookTracks(Profile(spec)) \cup HookTracks(ParentWords(request))
  IN [high_risk |-> HighRisk(spec, request), required |-> required, available |-> available,
      dual_review_satisfied |-> required \subseteq available]

WritesEvidence(spec, request, variant) ==
  Stage(request) = "review" /\ Enabled(spec) /\ variant = "Succeeded"

(* archive.rs.                                                             *)
ArchiveHookRuns(spec, request, run_status) ==
  /\ run_status = "Succeeded" /\ Stage(request) = "archive"
  /\ Enabled(spec) /\ spec.workflow.archive.enabled

(* Of the summary: how many files it names, whether one of them is a file  *)
(* of configuration, and the words of its text.                            *)
WritesDecisionNote(spec, request, success) ==
  LET knowledge == spec.workflow.knowledge
      words == request.words \cup success.words
  IN /\ knowledge.write_note
     /\ \/ knowledge.touched_files # Unset /\ success.touched_files > knowledge.touched_files
        \/ knowledge.new_config /\ success.touches_config
        \/ knowledge.behavior_change /\ "breaking change" \in words
        \/ knowledge.bugfix /\ "bugfix" \in words
================================================================================
