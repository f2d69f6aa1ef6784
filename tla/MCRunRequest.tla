------------------------------- MODULE MCRunRequest -------------------------------
(***************************************************************************)
(* Settings in groups: each group varies what one part of the code looks   *)
(* at, together with what other parts make of the same, around a setting   *)
(* in which nothing is unusual.                                            *)
(***************************************************************************)
EXTENDS RequestProperties

Pick(r, choices) == {[f \in DOMAIN r |-> IF f \in DOMAIN c THEN c[f] ELSE r[f]] : c \in choices}

(* A usual setting.                                                        *)
File(name, order, s) ==
  [name |-> name, order |-> order, is_agent |-> TRUE, parses |-> TRUE, spec |-> s]
Worker(s) == File("worker", 2, s)
NoShell ==
  [cli |-> NoLayer, env |-> NoLayer, cli_config |-> Unset, env_config |-> Unset,
   configs |-> [project |-> Unset, home |-> Unset, named |-> Unset]]
Dirs(agents, team, other) ==
  [d \in {"agents", "team", "other", Blank} |->
     CASE d = "agents" -> agents [] d = "team" -> team [] d = "other" -> other [] OTHER -> <<>>]

Runtime(changes) == CHOOSE r \in Pick(DefaultRuntime, {changes}) : TRUE
Workflow(changes) == CHOOSE w \in Pick(DefaultWorkflow, {changes}) : TRUE
Codex == [DefaultSpec EXCEPT !.runtime = Runtime([sandbox |-> "workspace_write",
                                                  working_dir_policy |-> "in_place"])]

Request ==
  [agent |-> "worker", tool |-> "sync", stage |-> Unset, plan_ref |-> Unset,
   parent_summary |-> Unset, selected_files |-> {}, words |-> {}, slug |-> "task"]

Files(paths) == [path \in paths |-> path]
Source ==
  [exists |-> TRUE, files |-> Files({"PROJECT.md"}), unreadable |-> {}, outline |-> <<>>,
   links_to_dir |-> FALSE, in_git |-> TRUE, checkout |-> Files({"PROJECT.md"})]
World == [source |-> Source, place |-> "cwd", state_dir |-> "outside", works |-> Operations]
Version == [run |-> "ran", succeeds |-> TRUE, words |-> {}, first_line |-> "version"]
Env == [version |-> Version, bin |-> Unset, model |-> Unset]
Archive == [files |-> [n \in {} |-> "other"], index |-> Unset, writable |-> TRUE, window |-> 1]

Usual ==
  [shell |-> NoShell, dirs |-> Dirs(<<Worker(Codex)>>, <<>>, <<>>), request |-> Request,
   world |-> World, env |-> Env, reports |-> [report |-> NoReport, draft |-> NoReport],
   archive |-> Archive, answers |-> "one"]
With(s) == [Usual EXCEPT !.dirs = Dirs(<<Worker(s)>>, <<>>, <<>>)]

--------------------------------------------------------------------------------
(* Answers.                                                                *)

Reported == <<"START", "report", "END">>
Answered(exit, stdout, stderr, last_message) ==
  [exit |-> exit, stdout |-> stdout, stderr |-> stderr, last_message |-> last_message]
Good == Answered("success", Reported, <<>>, <<>>)

Tokens == {"START", "END", "report", "draft", "placeholder"}
Streams == UNION {[1 .. n -> Tokens] : n \in 0 .. 4}

MCAnswers ==
  [one     |-> {Good},
   ends    |-> {Good, Answered("success", <<"text">>, <<>>, <<>>),
                Answered("success", <<"START", "text", "END">>, <<>>, <<>>),
                Answered("timeout", <<>>, <<>>, <<>>),
                Answered("timeout", <<"input_3", "output_2">>, <<"text">>, <<>>)}
               \cup {Answered("failure", <<>>, <<line>>, <<>>) :
                       line \in {"rate_limit", "bad_schema", "notice"}},
   logins  |-> {Answered("failure", <<>>, <<"login", "input_3">>, <<>>),
                Answered("failure", <<"permission">>, <<"rate_limit">>, <<>>),
                Answered("success", Reported, <<"output_2">>, <<>>),
                Answered("success", <<"trust_prompt">> \o Reported, <<>>, <<>>),
                Answered("failure", <<"cached_login">>, <<"login">>, <<>>)},
   quiet   |-> {Answered("success", <<>>, Reported, <<>>)},
   streams |-> {Answered("success", out, err, last) : out \in Streams,
                  err \in {<<>>, Reported, <<"draft">>}, last \in {<<>>, Reported}},
   errors  |-> {Answered("failure", out, <<a, b>>, <<>>) :
                  out \in {<<>>, <<"input_null", "input_3", "total_7">>},
                  a \in DOMAIN ErrorLines \cup {"output_max"},
                  b \in {"error_prefix", "io_error", "rate_limit", "used_6"}}]

MCSlowAnswers == {"logins"}

--------------------------------------------------------------------------------
(* Configuration and agents.                                               *)

Layer(dirs) == [NoLayer EXCEPT !.agents_dirs = dirs]
Shells ==
  [cli : {Layer(Unset), Layer(<<"team">>), Layer(<<"">>)},
   env : {Layer(Unset), Layer([segments |-> <<"other", "team">>, commas |-> TRUE]),
          Layer([segments |-> <<Blank, "other">>, commas |-> TRUE]),
          Layer([segments |-> <<Blank, "team">>, commas |-> FALSE])},
   cli_config : {Unset, "named"}, env_config : {Unset, Blank, "named"},
   configs : [project : {Unset, Broken, Layer(<<"team", "agents">>)},
              home : {Layer(<<"other", "agents">>)}, named : {Unset, Layer(<<"agents", "">>)}]]
Slow == [Codex EXCEPT !.runtime.timeout_secs = 600]
Invalid == [Codex EXCEPT !.runtime.timeout_secs = 0]
Catalogues ==
  {Dirs(<<Worker(Codex)>>, <<File("reviewer", 1, Codex), Worker(Slow)>>, <<>>),
   Dirs(<<Worker(Codex), Worker(Slow)>>, <<File("broken", 1, Invalid)>>,
        <<File("worker", 2, Slow), File("reviewer", 1, Slow)>>),
   Dirs(<<[File("notes", 1, Invalid) EXCEPT !.is_agent = FALSE], File("reviewer", 1, Slow)>>,
        <<>>, <<[Worker(Codex) EXCEPT !.parses = FALSE]>>)}

ConfigSettings ==
  {[Usual EXCEPT !.shell = shell, !.dirs = dirs, !.request.agent = name] :
     shell \in Shells, dirs \in Catalogues, name \in {"worker", "reviewer"}}

(* What makes a spec invalid.                                              *)
InvalidSpecs ==
  {[Codex EXCEPT !.overrides = {"claude"}], [Codex EXCEPT !.runtime.max_turns = 0],
   [Codex EXCEPT !.runtime.plan_section_selector = Blank],
   [Codex EXCEPT !.runtime.delegation_context = "plan_section"]}
  \cup {[Codex EXCEPT !.runtime.memory_sources = <<source>>] : source \in
          {[kind |-> "inline", text |-> Blank],
           [kind |-> "file", path |-> "parent", target |-> "README.md"],
           [kind |-> "file", path |-> "pattern", target |-> "README.md"],
           [kind |-> "glob", path |-> "absolute", matches |-> <<>>]}}
  \cup {[Codex EXCEPT !.workflow = w] : w \in Pick(DefaultWorkflow,
          {[max_runtime_depth |-> 0], [stages |-> <<>>], [stages |-> <<"plan", "plan">>],
           [allowed_stages |-> <<"plan">>],
           [plan_if |-> [DefaultWorkflow.plan_if EXCEPT !.minutes = 0]]})}
SpecSettings == {With(s) : s \in InvalidSpecs}

--------------------------------------------------------------------------------
(* Access.                                                                 *)

OverrideModes(provider) ==
  {Unset} \cup CASE provider = "codex"  -> {"read_only", "workspace_write"}
                 [] provider = "claude" -> {"plan", "acceptEdits", "unknown"}
                 [] OTHER               -> {}
AccessSpecs ==
  {[[DefaultSpec EXCEPT !.provider = provider, !.override_mode = mode,
                        !.overrides = IF mode = Unset THEN {} ELSE {provider}]
      EXCEPT !.runtime.sandbox = sandbox, !.runtime.approval = approval,
             !.runtime.file_conflict_policy = conflict, !.runtime.spawn_policy = spawn,
             !.runtime.working_dir_policy = policy] :
     provider \in Providers, mode \in UNION {OverrideModes(p) : p \in Providers},
     sandbox \in {"read_only", "workspace_write", "full_access"},
     approval \in {"provider_default", "ask", "auto_accept_edits", "deny_by_default"},
     conflict \in {"serialize", "deny"}, spawn \in {"sync", "async"},
     policy \in {"in_place", "auto"}}
AccessSettings ==
  {[With(s) EXCEPT !.request.tool = s.runtime.spawn_policy] :
     s \in {a \in AccessSpecs : a.override_mode \in OverrideModes(a.provider)}}

(* What the probe and the runners find of the CLI.                         *)
Gemini ==
  [Codex EXCEPT !.provider = "gemini", !.runtime.native_discovery = "isolated"]
EnvSettings ==
  {[With(s) EXCEPT !.env = env, !.request.tool = tool] :
     s \in {[Codex EXCEPT !.provider = p, !.model = model] :
              p \in Providers, model \in {Unset, Blank, "named"}},
     tool \in {"sync", "async"},
     env \in [version : {Version, [Version EXCEPT !.run = "missing_binary"]},
              bin : {Unset, "", "works", "missing"}, model : {Unset, "", "set"}]}
  \cup
  {[With(s) EXCEPT !.env.version = [run |-> "ran", succeeds |-> ok, words |-> words,
                                    first_line |-> line]] :
     s \in {Codex, Gemini}, ok \in BOOLEAN, line \in {"version", "other"},
     words \in SUBSET {"permission", "auth", "unsupported", "experimental"}}
CallSettings ==
  {[With([s EXCEPT !.runtime.native_discovery = discovery, !.runtime.spawn_policy = tool,
                   !.runtime.max_attempts = IF answers = "logins" THEN 3 ELSE 1])
      EXCEPT !.answers = answers, !.request.tool = tool] :
     s \in {Codex, Gemini, [Codex EXCEPT !.provider = "claude"]},
     discovery \in {"minimal", "isolated"},
     tool \in {"sync", "async"}, answers \in {"logins", "errors"}}
  \cup {[Usual EXCEPT !.dirs = Dirs(<<File("sentinel", 1, [Codex EXCEPT
                                        !.runtime.spawn_policy = "async"])>>, <<>>, <<>>),
                      !.request.agent = "sentinel", !.request.tool = "async",
                      !.answers = answers] : answers \in {"one", "ends", "logins"}}

--------------------------------------------------------------------------------
(* Workspaces.                                                             *)

Reader == [Codex EXCEPT !.runtime.sandbox = "read_only"]
Plan == Files({"PROJECT.md", "PLAN.md"})
WorkspaceSpecs ==
  {[s EXCEPT !.runtime.working_dir_policy = policy, !.runtime.spawn_policy = tool] :
     s \in {Codex, Reader, [Codex EXCEPT !.provider = "claude"],
            [Gemini EXCEPT !.runtime.sandbox = "read_only"]},
     policy \in {"auto", "in_place", "temp_copy", "git_worktree"}, tool \in {"sync", "async"}}
Worlds ==
  {[World EXCEPT !.place = place, !.state_dir = dir, !.works = Operations \ {fails},
                 !.source.in_git = git] :
     place \in {"cwd", "above", "below", "elsewhere"},
     dir \in {"relative", "inside", "outside"},
     fails \in Operations \cup {"nothing"}, git \in BOOLEAN}
  \cup
  {[World EXCEPT !.works = Operations \ {"worktree_add", "remove", "worktree_remove"}],
   [World EXCEPT !.works = Operations \ {"remove", "worktree_remove"}]}
Sources ==
  {[Source EXCEPT !.exists = FALSE], [Source EXCEPT !.unreadable = {"PROJECT.md"}],
   [Source EXCEPT !.links_to_dir = TRUE], [Source EXCEPT !.files = Plan],
   [Source EXCEPT !.checkout = Plan], [Source EXCEPT !.checkout = Files({})]}
WorkspaceSettings ==
  {[With(s) EXCEPT !.world = world, !.request.stage = stage,
                   !.request.tool = s.runtime.spawn_policy] :
     s \in WorkspaceSpecs,
     world \in Worlds \cup {[World EXCEPT !.source = source] : source \in Sources},
     stage \in {Unset, "research"}}

--------------------------------------------------------------------------------
(* The workflow gate and the hooks.                                        *)

GateSpecs ==
  {[Codex EXCEPT !.words = words, !.workflow = w, !.runtime.working_dir_policy = policy] :
     words \in {{}, {"plan"}, {"build"}, {"correctness"}, {"logic", "naming"}, {"clean code"}},
     policy \in {"in_place", "temp_copy", "git_worktree"},
     w \in {NoWorkflow} \cup Pick(DefaultWorkflow,
            {[enabled |-> TRUE],
             [stages |-> <<"plan", "build">>], [allowed_stages |-> Reverse(DefaultWorkflow.stages)],
             [plan_if |-> [touched_files |-> Unset, minutes |-> 20, flags |-> FALSE]],
             [plan_if |-> [touched_files |-> 2, minutes |-> Unset, flags |-> TRUE]]})}
Selected(absolute, path) == [absolute |-> absolute, path |-> path]
Selections ==
  {{}, {Selected(FALSE, <<"src", "main.rs">>), Selected(FALSE, <<"docs", "a.md">>)},
   {Selected(TRUE, <<"src", "main.rs">>), Selected(FALSE, <<"src", "lib.rs">>)}}
Parent(words, depth) == [words |-> words, depth |-> depth, role_lines |-> 0]

GateSettings ==
  {[With(s) EXCEPT !.request.stage = stage, !.request.words = words,
                   !.request.selected_files = files] :
     s \in GateSpecs, stage \in {Unset, "plan", "build", "review"},
     words \in {{}, {"migration"}, {"multiple modules"}},
     files \in Selections}
PlanSettings ==
  {[With([s EXCEPT !.workflow.plan_if.minutes = 15])
      EXCEPT !.world.source.files = Files(there), !.world.source.checkout = Files(checked),
             !.request.stage = stage, !.request.plan_ref = ref] :
     s \in {g \in GateSpecs : g.workflow = DefaultWorkflow /\ g.words = {"logic", "naming"}},
     there \in {{}, {"PLAN.md"}, {".mcp-subagent/PLAN.md"}, {"docs/my.md"}},
     checked \in {{}, {"PLAN.md"}, {"docs/my.md"}}, stage \in {"build", "review"},
     ref \in {Unset, [absolute |-> TRUE, path |-> "docs/my.md"],
              [absolute |-> FALSE, path |-> "docs/my.md"]}}
ReviewSettings ==
  {[With([Codex EXCEPT !.words = words, !.tags = tags, !.runtime.approval = approval,
                       !.runtime.spawn_policy = tool,
                       !.workflow = [DefaultWorkflow EXCEPT !.review.style = style,
                                                            !.review.correctness = correct]])
      EXCEPT !.request.stage = "review", !.request.words = asked, !.request.tool = tool,
             !.request.parent_summary = parent, !.world.source.files = Plan] :
     words \in {{"review"}, {"logic"}, {"naming"}, {"clean code"}},
     tags \in {{}, {"correctness"}, {"style"}},
     approval \in {"provider_default", "deny_by_default"}, tool \in {"sync", "async"},
     style \in BOOLEAN, correct \in BOOLEAN,
     asked \in {{}, {"migration"}, {"upgrade"}, {"human approval"}},
     parent \in {Unset} \cup {Parent(w, Unset) : w \in {{}, {"style"}, {"clean code", "logic"}}}}
DepthSettings ==
  {[With([Codex EXCEPT !.workflow = [DefaultWorkflow EXCEPT !.enabled = on,
                                                            !.max_runtime_depth = limit]])
      EXCEPT !.request.parent_summary = Parent({}, depth)] :
     on \in BOOLEAN, limit \in {1, 2, 254, 255}, depth \in {Unset, 0, 1, 2, 253, 254, 255}}
ScopeSettings ==
  {[With([Reader EXCEPT !.runtime.working_dir_policy = "git_worktree"])
      EXCEPT !.request.stage = stage] : stage \in {Unset, "research", "build"}}

--------------------------------------------------------------------------------
(* Memory and context.                                                     *)

Heading(level, title, items) == [level |-> level, title |-> title, items |-> items]
Outlines ==
  {<<>>,
   <<Heading(1, <<"Plan">>, {}), Heading(2, <<"Step", "one">>, {"a"}),
     Heading(3, <<"Check">>, {"b"}), Heading(2, <<"Step">>, {"c"}), Heading(3, <<"More">>, {"d"})>>}
MemorySources ==
  {<<[kind |-> "auto"]>>, <<[kind |-> "active_plan"], [kind |-> "auto"]>>,
   <<[kind |-> "auto"], [kind |-> "file", path |-> "plain", target |-> "CLAUDE.md"]>>,
   <<[kind |-> "file", path |-> "plain", target |-> "CLAUDE.md"], [kind |-> "auto"]>>,
   <<[kind |-> "glob", path |-> "pattern", matches |-> <<"CLAUDE.md", "PLAN.md">>],
     [kind |-> "archived_plans"], [kind |-> "inline", text |-> "note"], [kind |-> "auto"]>>}
MemoryFiles ==
  {Files({}), Plan, Files({"PLAN.md", "CLAUDE.md", ".claude/CLAUDE.md", "docs/plans/old.md"}),
   [path \in {"PROJECT.md", ".mcp-subagent/PROJECT.md", "CLAUDE.md", ".claude/CLAUDE.md"} |-> "one"]}
MemorySettings ==
  {[With([Codex EXCEPT !.provider = "claude", !.runtime.memory_sources = sources,
                       !.runtime.delegation_context = delegation,
                       !.runtime.plan_section_selector = selector])
      EXCEPT !.world.source.files = files, !.world.source.outline = outline,
             !.world.source.unreadable = unreadable] :
     sources \in MemorySources, delegation \in {"minimal", "plan_section"},
     selector \in {"Step", "Check", "Missing"}, files \in MemoryFiles, outline \in Outlines,
     unreadable \in {{}, {"CLAUDE.md"}, {"PLAN.md"}}}
ContextSettings ==
  {[With([Codex EXCEPT !.runtime.context_mode = mode, !.tags = tags])
      EXCEPT !.request.parent_summary = parent, !.request.selected_files = files] :
     mode \in {[kind |-> "isolated"], [kind |-> "summary_only"], [kind |-> "expanded_brief"],
               [kind |-> "selected_files", allow |-> {<<"main.rs">>, <<>>}]},
     tags \in {{}, {"review"}}, files \in Selections,
     parent \in {Unset, Parent({}, Unset), [Parent({}, Unset) EXCEPT !.role_lines = 2]}}

--------------------------------------------------------------------------------
(* Attempts, summaries and artifacts.                                      *)

Attempts == 0 .. 3
Turns == 0 .. 4
RetrySettings ==
  {[With([Codex EXCEPT !.runtime.max_attempts = attempts, !.runtime.max_turns = turns,
                       !.runtime.parse_policy = parse, !.runtime.spawn_policy = tool])
      EXCEPT !.answers = "ends", !.request.tool = tool] :
     attempts \in Attempts, turns \in (Turns \ {0}) \cup {Unset},
     parse \in {"best_effort", "strict"}, tool \in {"sync", "async"}}

OutputSettings == {[Usual EXCEPT !.answers = "streams"]}

Key(form, path) == [form |-> form, path |-> path]
Declarations ==
  {<<>>, <<Key("plain", <<"a.txt">>), Key("plain", <<"a.txt">>)>>, <<Key("plain", <<"summary.json">>)>>,
   <<Key("dotted", <<"a.txt">>)>>, <<Key("absolute", <<"a.txt">>), Key("plain", <<"b.txt">>)>>,
   <<Key("plain", <<"stdout.txt">>)>>, <<Key("plain", <<"review">>)>>, <<Key("plain", <<"a.txt">>), Key("plain", <<"a.txt", "b">>)>>}
ArtifactSettings ==
  {[With([Codex EXCEPT !.words = {"review", "logic"}, !.workflow = DefaultWorkflow,
                       !.runtime.timeout_secs = 60, !.runtime.spawn_policy = tool])
      EXCEPT !.reports.report.declared = [i \in DOMAIN keys |-> [key |-> keys[i], inside |-> inside]],
             !.request.stage = stage, !.request.tool = tool, !.world.source.files = Plan,
             !.answers = answers] :
     answers \in {"one", "quiet"}, keys \in Declarations, inside \in BOOLEAN, stage \in {Unset, "review"},
     tool \in {"sync", "async"}}

Other(slug, window) == <<"final-summary", slug, window>>
ArchiveSettings ==
  {[With([Codex EXCEPT !.workflow = w])
      EXCEPT !.request.stage = "archive", !.reports.report = report, !.request.words = words,
             !.archive = [files |-> (name :> "other"), index |-> index, writable |-> writable,
                          window |-> 1]] :
     w \in {NoWorkflow, [DefaultWorkflow EXCEPT !.knowledge.write_note = FALSE]}
             \cup {[DefaultWorkflow EXCEPT !.archive.dir = dir,
                                !.archive.final_summary = summary,
                                !.archive.metadata_index = indexed] :
             dir \in {"docs/plans", "outside"}, summary \in BOOLEAN, indexed \in BOOLEAN},
     report \in {NoReport, [NoReport EXCEPT !.touched_files = 4],
                 [NoReport EXCEPT !.words = {"bugfix"}], [NoReport EXCEPT !.touches_config = TRUE]},
     words \in {{}, {"breaking change"}},
     name \in {Other("task", 1), Other("task", 2), Other("else", 1)},
     index \in {Unset, Broken, <<>>, <<"other", "other">>}, writable \in BOOLEAN}

--------------------------------------------------------------------------------
(* The setting `mcp-subagent init` and config.rs give a user who starts    *)
(* the server in a project: a relative state directory, in the project.    *)
DefaultSettings ==
  [workspace |-> {[With([Codex EXCEPT !.runtime.working_dir_policy = "auto"])
                     EXCEPT !.world.state_dir = "relative", !.world.source.in_git = git] :
                    git \in BOOLEAN}]

MCSettings ==
  [config |-> ConfigSettings, specs |-> SpecSettings, access |-> AccessSettings,
   env |-> EnvSettings, calls |-> CallSettings, workspace |-> WorkspaceSettings,
   gate |-> GateSettings, plan |-> PlanSettings, review |-> ReviewSettings,
   depth |-> DepthSettings, scope |-> ScopeSettings, memory |-> MemorySettings,
   context |-> ContextSettings, retry |-> RetrySettings, output |-> OutputSettings,
   artifacts |-> ArtifactSettings, archive |-> ArchiveSettings]
================================================================================
