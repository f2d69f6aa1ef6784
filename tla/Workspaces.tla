-------------------------------- MODULE Workspaces --------------------------------
(***************************************************************************)
(* Where a run works: prepare_workspace (runtime/workspace.rs), the guard  *)
(* that removes what it made (runtime/cleanup.rs) and the part of          *)
(* run_dispatch that hands the workspace to memory and dispatcher          *)
(* (mcp/service.rs).                                                       *)
(*                                                                         *)
(* A world is the file system and the commands around the server:          *)
(*   source    the working directory of the task: whether it exists, its   *)
(*             files, those that cannot be read, the outline of its plan,  *)
(*             whether it holds a link to a directory, whether it is in a  *)
(*             repository, and the files a checkout of HEAD has at its top;*)
(*   place     where it lies from the server's current directory;          *)
(*   state_dir a relative path, an absolute one inside the source, or one  *)
(*             outside;                                                    *)
(*   works     the commands and file operations that work.                 *)
(***************************************************************************)
EXTENDS TaskContext

Operations == {"copy", "worktree_add", "worktree_remove", "remove", "scratch"}

ReadOnly(spec) == spec.runtime.sandbox = "read_only"
ReadStage(request) == Stage(request) \in {"research", "plan"}

UsesScratch(spec, request) ==
  /\ spec.provider = "gemini" /\ ReadOnly(spec)
  /\ spec.runtime.delegation_context = "minimal"
  /\ request.selected_files = {} /\ request.plan_ref = Unset
  /\ ReadStage(request) \/ "research" \in spec.tags

WorkingDirPolicies == {"auto", "in_place", "temp_copy", "git_worktree"}

(* What WorkingDirPolicy asks for, Auto resolved.                          *)
WantedMode(spec, request) ==
  LET policy == spec.runtime.working_dir_policy IN
  CASE policy # "auto"                                  -> policy
    [] policy = "auto" /\ UsesScratch(spec, request)    -> "stable_scratch"
    [] policy = "auto" /\ ~UsesScratch(spec, request)   ->
         IF ReadOnly(spec) \/ ReadStage(request) THEN "in_place" ELSE "git_worktree"

(* A state directory inside the source holds the copy of the source too:   *)
(* the walk meets what it has just written and never ends but by an error. *)
NestedCopy(world) ==
  \/ world.state_dir = "inside"
  \/ world.state_dir = "relative" /\ world.place \in {"cwd", "above"}

(* git -C <source> takes a relative path from the source, everything else  *)
(* from the current directory.                                             *)
Misplaced(world) == world.state_dir = "relative" /\ world.place # "cwd"

(* copy_dir_recursively: fs::copy fails on what is no regular file.        *)
CopyWorks(world) ==
  /\ "copy" \in world.works /\ ~NestedCopy(world)
  /\ world.source.unreadable = {} /\ ~world.source.links_to_dir
WorktreeWorks(world) == world.source.in_git /\ "worktree_add" \in world.works

SourceDir(world) ==
  [files |-> world.source.files, unreadable |-> world.source.unreadable,
   outline |-> world.source.outline, is_source |-> TRUE,
   source_files |-> DOMAIN world.source.files]
NoFiles == [path \in {} |-> Unset]
(* (Mutant: a copy without hidden directories.)                            *)
VisibleCopyOf(world) ==
  [SourceDir(world) EXCEPT !.is_source = FALSE,
                           !.files = [path \in DOMAIN @ \ {".mcp-subagent/PLAN.md"} |-> @[path]]]
CopyOf(world) == [SourceDir(world) EXCEPT !.is_source = FALSE]
DirWith(world, files) == [CopyOf(world) EXCEPT !.files = files, !.unreadable = {}]

Workspace(mode, present, dir) ==
  [error |-> "none", mode |-> mode, present |-> present, dir |-> dir]
NoWorkspace(error) == [error |-> error, mode |-> "none"]

PrepareWorkspace(spec, request, world) ==
  LET wanted == WantedMode(spec, request) IN
  CASE ~world.source.exists -> NoWorkspace("no_working_dir")
    [] OTHER ->
       CASE wanted = "in_place" -> Workspace("in_place", TRUE, SourceDir(world))
         [] wanted = "stable_scratch" ->
              IF "scratch" \in world.works
              THEN Workspace("stable_scratch", TRUE, DirWith(world, NoFiles))
              ELSE NoWorkspace("no_scratch")
         [] wanted = "git_worktree" /\ WorktreeWorks(world) ->
              Workspace("git_worktree", ~Misplaced(world),
                        DirWith(world, IF Misplaced(world) THEN NoFiles
                                       ELSE world.source.checkout))
         [] wanted = "temp_copy" \/ (wanted = "git_worktree" /\ ~WorktreeWorks(world)) ->
              IF CopyWorks(world)
              THEN Workspace(IF wanted = "temp_copy" THEN "temp_copy" ELSE "fallback_temp_copy",
                             TRUE, CopyOf(world))
              ELSE NoWorkspace("not_copied")

(* What a preparation makes, and what of it a failed copy and the guard    *)
(* leave behind: the directory goes at the latest with a removal of its    *)
(* files, the entry in .git/worktrees only with git's own.                 *)
Made(prepared, world) ==
  CASE prepared.mode \in {"in_place", "stable_scratch"}      -> {}
    [] prepared.mode \in {"temp_copy", "fallback_temp_copy"} -> {"workspace"}
    [] prepared.mode = "git_worktree" ->
         {"registration", IF Misplaced(world) THEN "misplaced" ELSE "workspace"}
    [] prepared.mode = "none" ->
         IF prepared.error = "not_copied" /\ "remove" \notin world.works
         THEN {"workspace"} ELSE {}

Leftovers(prepared, world) ==
  CASE prepared.mode = "git_worktree" /\ "worktree_remove" \in world.works -> {}
    [] prepared.mode = "git_worktree" /\ "worktree_remove" \notin world.works ->
         Made(prepared, world) \ (IF "remove" \in world.works THEN {"workspace"} ELSE {})
    [] prepared.mode \in {"temp_copy", "fallback_temp_copy"} ->
         IF "remove" \in world.works THEN {} ELSE {"workspace"}
    [] OTHER -> Made(prepared, world)

--------------------------------------------------------------------------------
(* service.rs.                                                             *)

(* apply_workspace_runtime_overrides.                                      *)
EffectiveSpec(spec, prepared) ==
  IF /\ prepared.mode = "stable_scratch" /\ spec.provider = "gemini"
     /\ spec.runtime.native_discovery = "isolated"
  THEN [spec EXCEPT !.runtime.native_discovery = "minimal"] ELSE spec
================================================================================
