------------------------------- MODULE TaskContext -------------------------------
(***************************************************************************)
(* What a provider is told: the memory a spec asks for (runtime/memory.rs),*)
(* the acceptance criteria that come from the plan (mcp/service.rs) and    *)
(* the prompt made of them (runtime/context.rs).                           *)
(*                                                                         *)
(* A directory is a function from the paths of its regular files to the    *)
(* files themselves, so that two paths may be one file; dir.unreadable are *)
(* the files that cannot be read, dir.outline the headings of the plan,    *)
(* each with its level, the words of its title and the items listed in it. *)
(***************************************************************************)
EXTENDS WorkflowGate

ProjectMemory == <<"PROJECT.md", ".mcp-subagent/PROJECT.md">>
ActivePlan    == <<"PLAN.md", ".mcp-subagent/PLAN.md">>
ArchivedPlans == <<"docs/plans/old.md", "docs/plans/older.md">>
NativeMemory(provider) ==
  CASE provider = "claude" -> <<"CLAUDE.md", ".claude/CLAUDE.md">>
    [] provider = "codex"  -> <<"AGENTS.md", "AGENTS.override.md">>
    [] provider = "gemini" -> <<"GEMINI.md">>
    [] OTHER               -> <<>>

Present(paths, dir) == Keep(paths, DOMAIN dir.files)

(* MemoryResolver: the snippets in the order they were added, the files    *)
(* left to the provider's own loader, and the error that ended it.         *)
NoMemory == [inline |-> <<>>, native |-> <<>>, error |-> "none"]
Failed(memory, error) == [memory EXCEPT !.error = error]

(* The files given whole (seen_inline_paths); the section of a plan is not *)
(* entered among them.                                                     *)
Snippet(label, file) == [label |-> label, file |-> file]
Whole(memory) == {i \in DOMAIN memory.inline : memory.inline[i].label # "plan_section"}
Inlined(memory) == {memory.inline[i].file : i \in Whole(memory)} \ {Unset}

(* A file that was inlined is not inlined again, and one that had been     *)
(* left to the provider is taken back.  (Mutant: it is left there.)        *)
AddInlineBeside(memory, path, label, dir) ==
  LET file == dir.files[path] IN
  CASE memory.error # "none" \/ file \in Inlined(memory) -> memory
    [] memory.error = "none" /\ file \notin Inlined(memory) /\ file \in dir.unreadable ->
         Failed(memory, "unreadable")
    [] OTHER -> [memory EXCEPT !.inline = Append(@, Snippet(label, file))]
AddInline(memory, path, label, dir) ==
  LET file == dir.files[path] IN
  CASE memory.error # "none" \/ file \in Inlined(memory) -> memory
    [] memory.error = "none" /\ file \notin Inlined(memory) /\ file \in dir.unreadable ->
         Failed(memory, "unreadable")
    [] OTHER ->
         [memory EXCEPT !.inline = Append(@, Snippet(label, file)),
                        !.native = Keep(@, Range(@) \ {file})]

AddNative(memory, path, dir) ==
  LET file == dir.files[path] IN
  IF memory.error # "none" \/ file \in Inlined(memory) \cup Range(memory.native)
  THEN memory ELSE [memory EXCEPT !.native = Append(@, file)]

AddAll(memory, paths, label, dir) ==
  Loop(LAMBDA m, path : AddInline(m, path, label, dir), memory, Present(paths, dir))

AddAutoProject(memory, provider, dir) ==
  Loop(LAMBDA m, path : AddNative(m, path, dir),
       AddAll(memory, ProjectMemory, "project", dir),
       Present(NativeMemory(provider), dir))

AddActivePlan(memory, dir) ==
  LET found == Present(ActivePlan, dir)
  IN IF found = <<>> THEN memory ELSE AddInline(memory, found[1], "active_plan", dir)

AddFile(memory, path, dir) ==
  IF path \in DOMAIN dir.files THEN AddInline(memory, path, "file", dir)
  ELSE Failed(memory, "no_file")

AddGlob(memory, matched, dir) ==
  IF Present(matched, dir) = <<>> THEN Failed(memory, "no_match")
  ELSE AddAll(memory, matched, "glob", dir)

AddText(memory) == [memory EXCEPT !.inline = Append(@, Snippet("inline", Unset))]

(* One memory source of the spec; nothing is added after an error.         *)
AddSource(memory, source, provider, dir) ==
  CASE memory.error # "none"      -> memory
    [] OTHER ->
       CASE source.kind = "auto"           -> AddAutoProject(memory, provider, dir)
         [] source.kind = "active_plan"    -> AddActivePlan(memory, dir)
         [] source.kind = "archived_plans" -> AddAll(memory, ArchivedPlans, "archived_plan", dir)
         [] source.kind = "file"           -> AddFile(memory, source.target, dir)
         [] source.kind = "glob"           -> AddGlob(memory, source.matches, dir)
         [] source.kind = "inline"         -> AddText(memory)

(* extract_markdown_section: the first heading whose title is the selector,*)
(* or the first that contains it, with all below it of a deeper level.     *)
SectionStart(outline, selector) ==
  LET exact    == {i \in DOMAIN outline : outline[i].title = <<selector>>}
      contains == {i \in DOMAIN outline : selector \in Range(outline[i].title)}
      First(S) == CHOOSE i \in S : \A j \in S : i <= j
  IN CASE exact # {}                    -> First(exact)
       [] exact = {} /\ contains # {}   -> First(contains)
       [] exact = {} /\ contains = {}   -> 0

Section(outline, selector) ==
  LET start == SectionStart(outline, selector)
  IN {i \in start .. Len(outline) :
        \A j \in start + 1 .. i : outline[j].level > outline[start].level}

SectionItems(outline, selector) ==
  UNION {outline[i].items : i \in Section(outline, selector)}

(* The section is added whether or not its plan was given already.         *)
AddPlanSection(memory, selector, dir) ==
  LET plan == Present(ActivePlan, dir) IN
  CASE memory.error # "none" -> memory
    [] OTHER ->
       LET verdict == FirstFailure(
             << <<"no_selector", selector \notin {Unset, Blank}>>,
                <<"no_plan", plan # <<>> >>,
                <<"unreadable", plan = <<>> \/ dir.files[plan[1]] \notin dir.unreadable>>,
                <<"no_section", SectionStart(dir.outline, selector) # 0>> >>)
       IN IF verdict = "ok"
          THEN [memory EXCEPT !.inline = Append(@, Snippet("plan_section", dir.files[plan[1]]))]
          ELSE Failed(memory, verdict)

ResolveMemory(spec, dir) ==
  LET runtime == spec.runtime
      sources == Loop(LAMBDA m, source : AddSource(m, source, spec.provider, dir),
                      NoMemory, runtime.memory_sources)
  IN IF runtime.delegation_context = "plan_section"
     THEN AddPlanSection(sources, runtime.plan_section_selector, dir) ELSE sources

--------------------------------------------------------------------------------
(* attach_plan_section_acceptance_criteria.                                *)

TakesPlanCriteria(spec, request) ==
  \/ spec.runtime.delegation_context = "plan_section"
  \/ request.stage = "review"
  \/ "review" \in spec.tags

AcceptanceCriteria(spec, request, memory, dir) ==
  {"sentinel", "concise"} \cup
  IF /\ TakesPlanCriteria(spec, request)
     /\ \E i \in DOMAIN memory.inline : memory.inline[i].label = "plan_section"
  THEN SectionItems(dir.outline, spec.runtime.plan_section_selector) ELSE {}

--------------------------------------------------------------------------------
(* compile_task.                                                           *)

(* What of the text of the parent goes in: two lines that begin with a     *)
(* role make it a transcript.                                              *)
ParentContext(spec, request) ==
  LET kind == spec.runtime.context_mode.kind
      parent == request.parent_summary IN
  CASE parent = Unset \/ kind \notin {"summary_only", "expanded_brief"} -> "none"
    [] OTHER -> CASE parent.role_lines >= 2                         -> "suppressed"
                  [] parent.role_lines < 2 /\ kind = "summary_only" -> "whole"
                  [] OTHER                                          -> "digest"

(* A selected file goes in when the mode lists it: its path, or the last   *)
(* components of it.                                                       *)
Included(spec, file) ==
  /\ spec.runtime.context_mode.kind = "selected_files"
  /\ \E entry \in spec.runtime.context_mode.allow : entry # <<>> /\ IsSuffix(entry, file.path)

CompileTask(spec, request, memory, acceptance) ==
  [parent |-> ParentContext(spec, request),
   files |-> {file \in request.selected_files : Included(spec, file)},
   memory |-> [i \in DOMAIN memory.inline |-> memory.inline[i].label],
   native |-> memory.native,
   acceptance |-> acceptance,
   stage |-> request.stage]
================================================================================
