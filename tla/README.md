# mcp-subagent in TLA+

A model of mcp-subagent, a server that runs coding agents (Codex, Claude, Gemini,
Ollama) on behalf of an MCP client: TLA+ modules translated from the Rust source,
TLC configurations that check them on small instances, and proofs that TLAPS
checks for every value of the constants. Paths such as `mcp/tools.rs` are
relative to `src/` of the repository.

## 1. Inventory

| Component | State | Operations | Interacts through | What is hard |
|---|---|---|---|---|
| Serialize locks (`mcp/server.rs`) | a map key -> tokio mutex, its queue, the guards of a run | `acquire_serialize_locks_from_state`, drop of the guards | the state lock (lookup), tokio's FIFO mutexes | several locks at once, abort while queued |
| Run lifecycle (`mcp/tools.rs`, `server.rs`, `service.rs`) | runs map, tasks map, `run.json`, the terminal event | `spawn_agent` and its task, `run_agent`, `cancel_agent`, `get_agent_status`, `wait_for_run` | the state lock, JoinHandles, files | cancel against completion, abort, failing file operations, drop order |
| Dispatcher (`runtime/dispatcher.rs`) | attempt, phase history, the `final_*` variables | `run_with_observers` | runner, summary parser, policy | retry budget, stale result of an earlier attempt, edge values |
| Event log (`mcp/persistence.rs`, readers in `mcp/tools.rs`, `main.rs`) | `events.jsonl`, cursors | `append_run_event`, `watch_agent_events`, `watch_run`, `events`, `watch`, `logs` and `spawn --stream` that follow | one file, several tasks and processes | seq and line are separate steps, partial lines, record and events read apart, crash |
| Provider process (`runtime/runners/*`) | child, pipes, reader tasks, channel | `execute_task_with_observer`, `collect_streaming_output` | pipes, timeout, kill on drop | timeout against end of file, full pipes, descendants |
| Run state on disk (`mcp/persistence.rs`, `server.rs`) | run directories | `persist_run_record`, `load_run_record_from_disk`, `get_or_load_run_record` | the state directory shared by CLI and server processes | stale copies, torn files, crash |
| Conflict keys (`server.rs`) | none, pure | `conflict_lock_keys` | yields the keys of the serialize locks | overlapping scopes with different names |
| Request (`mcp/service.rs`, `server.rs`, `tools.rs`) | what one request has accepted, made and recorded | `prepare_run`, `ensure_provider_ready`, `run_dispatch`, the hooks, the record | calls every component below | components that look at the same thing and may disagree on it |
| Agent specs (`config.rs`, `spec/*`) | none | `resolve_runtime_config`, `load_agent_specs_from_dirs`, `validate_*` | yields the agent of a request | layers, blank values, which directory wins |
| Workflow gate (`runtime/dispatcher.rs`) | none | `enforce_workflow_gate`, `enforce_review_policy`, `infer_runtime_depth`, ... | refuses a dispatch | combinations of stage, plan, tracks and depth; keyword lists kept twice |
| Context and memory (`runtime/memory.rs`, `context.rs`) | none | `resolve_memory_for_task`, `compile_task` | files of the workspace, prompt | one file by two sources or paths, sections of a plan |
| Workspaces (`runtime/workspace.rs`, `cleanup.rs`) | directories, git worktrees | `prepare_workspace`, `WorkspaceCleanupGuard::drop` | file system, git | fallbacks, partial failure, relative paths |
| Provider probe and calls (`probe/mod.rs`, `runtime/runners/*`) | temporary files | `probe`, `execute_internal` | environment, CLI of the provider | overrides of the sandbox, files left on `?`, the second call of gemini |
| Summary parsing (`runtime/summary.rs`) | none | `parse_summary_contract` | text of the provider | malformed and nested sentinels |
| Usage (`runtime/usage.rs`) | none | `parse_native_usage`, `build_usage_output` | text of the provider, record | saturation, server and CLI compute it apart |
| Archive, review, artifacts (`mcp/archive.rs`, `review.rs`, `artifacts.rs`) | the archive of the source, its index | `apply_archive_hook`, `apply_review_evidence_hook`, `build_runtime_artifacts` | files all runs share | lost update, name collisions |
| Views (`mcp/tools.rs`, `main.rs`) | none | `classify_block_reason`, `build_agent_stats_output`, `list_runs`, `read_run_logs` | record, event log, run directory | stale causes, two copies of each |
| CLI commands, setup commands (`main.rs`, `init.rs`, `doctor.rs`, `connect.rs`) | none between calls | formatting, files written once | | |

What makes each component correct:

* **Locks**: two runs with a common scope never run together; no deadlock; an abort
  at any await leaves no mutex locked and no place in a queue.
* **Lifecycle**: a terminal status is final; map, `run.json` and event log agree once a
  run rests; a scope is handed over only when the workspace of the earlier run is
  gone; every way out of a run releases everything; accepted runs settle.
* **Dispatcher**: budget and turn limit bound the attempts for every value of both;
  only failures worth it are retried; the result is that of the last attempt.
* **Event log**: seqs increase; a reader prints exactly the log; a follower sees the end.
* **State directory**: no two processes tell different ends of one run; once an end is
  known the run is never running again; waiting ends.
* **Conflict keys, archive index**: requests that write a common file have a common key; an
  entry of the index survives the runs that share a key with it.
* **Provider process**: the result is the whole output; the observer misses nothing;
  no child outlives its run; a run ends at its timeout.
* **Request**: the agent is the one the user meant; gate, review hook and workspace judge
  the same task alike; who writes holds locks or is alone; nothing is left behind; what
  is recorded is what the provider said, the same to every client, and can be read back.

## 2. Plan

| # | Module | Composes / refines | State |
|---|---|---|---|
| 1 | `SerializeLocks`, abstract `ExclusiveScopes`, first part of `RunLifecycleProof` | implements `ExclusiveScopes` | done |
| 2 | `RunLifecycle`, abstract `RunPromise`, `RunLifecycleProof` | extends `SerializeLocks`, implements `RunPromise` | done |
| 3 | `Dispatcher`, `DispatcherProof` | its result is the free choice `DispatchReturns` of 2 | done |
| 4 | `EventLog` | the file operations behind the atomic events of 2 | done |
| 5 | `ProviderProcess`, `ProviderProcessProof` | its result is the free choice `Executions` of 3 | done |
| 6 | `SharedStateDir`, `SharedStateDirProof` | several processes around the run of 2 | done |
| 7 | `ConflictKeys`, `SourceTree`, `SourceTreeProof` | the keys of 1, and what runs that hold them do in their source | done |
| 8 | `AgentSpecs`, `WorkflowGate`, `TaskContext`, `Workspaces`, `ProviderCalls`, `RunResults`, `RunViews` | the pure parts, each extends the one before | done |
| 9 | `RunRequest`, `RequestProperties`, `RequestProof` | extends 3 and 8, implements 3 | done |
| 10 | `EventLogProof` | the order of the log of 4 while its task is the only writer, and its readers | done |
| 11 | `RequestProof`, second part | the gate, the archive, and the record of 9 on disk | done |
| 12 | `Loops`, `LoopsProof`, `RequestProof`, third part | what 9 says of loops over files, words, tokens and events | done |

The modules of 8 are pure algorithms. A property of one of them alone would restate it, so
they are checked in 9, where one request meets all of them and what one part makes of a
task is set against what another makes of it. The same request implements the abstract
`Dispatcher`, so that what is proved of every dispatch holds of it.

## 3. Modules and the code

**SerializeLocks** (`mcp/server.rs:324-347`). `owner` and `queue` are the tokio mutexes,
`stage`, `pending`, `guards` the progress of `acquire_serialize_locks_from_state` of a
run: keys sorted and deduplicated, each mutex looked up in the map under the state lock,
then awaited. `Dequeue` and `Drop` are what dropping the future or the guards does.
Keys are integers, since the code orders strings and only their order matters.
`ExclusiveScopes` is what it is for: a run enters all its scopes at once.

**RunLifecycle** extends it with the calls. `call[r]` is the progress of the tool call,
`task[r]` where the body of the run is, `mem` and `tasks` the two maps of
`RuntimeState`, `disk` and `log` the files, `section` the critical section of the state
lock that spans several file operations, `aborted` the tasks that got `abort()`.

| Code | Actions |
|---|---|
| `spawn_agent` | `SpawnInsert`, `SpawnPersist`, `SpawnReturn` |
| its task | `Probe`, `AcquireStep`, `Prepare`, `DispatchReturns`, `Settle`, `SettleEvent`, `SettlePersist`, `DropDispatch`, `DropLocks` |
| `run_agent` | `SyncStart`, the middle of a task, `SyncError`, `SyncRecord`, `SyncPersist`, the drops |
| `cancel_agent` | `Cancel`, `CancelEvent`, `CancelPersist` |
| abort at an await | `Unwind` |
| `get_agent_status`, `wait_for_run` | `Observe`; `Wait`, `WaitReturn` |

A step is the code between two points where another thread can notice a difference: an
await, the state lock, a file operation. An abort takes effect when the task is next
polled, so an aborted task may still take its normal steps; every await it reaches may
also unwind it. `RunPromise` is the promise to whoever holds the state lock: a run is
registered, and settled once, in one step that changes map, file and log. The record that
registered it is saved once, possibly after a cancel (`copy` is what is still to be saved).

**Dispatcher** (`runtime/dispatcher.rs`). One run of `run_with_observers`: `step` is the
place in the code; `history`, `attempts_used` and `retry_attempts` are the tracker's fields,
`final` the three `final_*` variables, `outcome` the result's. An attempt ends in any of
`Ends` (how the runner ended, and what `classify_error_message` makes of a failure) with any
parse status of the summary. `spec` is any combination of `max_attempts`, `max_turns` and
parse policy. Numbers saturate at `U32Max`.

**EventLog**. `file` is `events.jsonl` as a sequence of lines and newlines;
`append_run_event` is three steps (largest seq, line, newline) in two writers: the task,
which reports progress without a lock, and `cancel_agent`. `stored` says that the output of
the run is among its files, which `persist_run_record` writes after `run.json`. `Crash` ends the
server; a later `cancel_agent` finds the record again after `Load`. A reader changes nothing, so
the `client` is one of those the code has, with its progress in `follower` or `poller`:

| Code | `client` | Actions |
|---|---|---|
| `events --follow`, `events --all --follow`, `watch` (`load_run_events_incremental`) | `"events"`, `"events_all"`, `"watch"` | `FollowRecord`, `FollowEvents` |
| `logs --follow` and `spawn --stream` (`load_run_events`, `read_run_logs`) | `"logs"`, `"stream"` | `FollowRecord`, `FollowWholeFile`, `FollowOutput`; `AwaitRun` |
| `watch_run` of the server | `"watch_run"` | `FollowMap`, `FollowWholeFile` |
| a host that calls `watch_agent_events` | `"host"` | `Poll` |

**ProviderProcess** (`runtime/runners/streaming.rs`, `codex.rs`). One execution: `runner`
is the place in the code, `pipe` and `prompt` the three pipes with a capacity, `open` the
pipes whose other end is still held, `reader` and `channel` the reader tasks and their
channel, `status`, `closed`, `timed_out` the locals of the loop. The child prints, reads,
closes and exits as it likes. `PromptChunks = 0` stands for the runners that pass the
prompt as an argument. With `Heirs` a child that ends may leave descendants that hold its
pipes.

**SharedStateDir** (`mcp/persistence.rs`, `mcp/server.rs:201-248`, the CLI in `main.rs`).
One state directory and several processes, each with a map of its own. `work[r]` is what
the home of a run, the process that accepted it, does for it; `mem`, `writer` and `query`
are the map, the writes of `run.json` under way and the calls of `get_or_load_run_record`
in each process; `file` is `run.json`, also between truncation and write; `waiter` is the
CLI `wait`. `verdicts` is a history of the ends that anyone was told.

| Code | Actions |
|---|---|
| `spawn_agent`, `run_agent` | `SpawnAccept`, `SyncStart`, `SyncRecord` |
| the end of a spawned task | `Settle` |
| `persist_run_record` | `Truncate`, `Write` |
| `get_or_load_run_record` | `Answer` (in the map), or `Miss`, `Load`, `Insert` |
| `list_runs`, `cancel_agent` | `List`, `Cancel` |
| CLI `wait`, `clean`; the end of a process | `StartWait`, `Poll`, `Clean`, `Exit` |

`RunLifecycle` has the steps inside one process; this module takes them in large ones and
has instead the steps between processes. A failing file operation is in the first only.

**ConflictKeys** (`mcp/server.rs:250-294`). `LockKeys` is what `conflict_lock_keys` returns;
a path is the sequence of its components. The second half of the module says what the
keys are to stand for: `Conflicting` is whether two requests write below a common path.

**SourceTree**. Runs with any requests enter when they hold their keys and leave at any
time; in between a run may add its entry to the archive index (`mcp/archive.rs:337-380`),
in two steps, which read and rewrite the file. A spawned run holds the state lock meanwhile
(`HasTheState`), `run_agent` does not, so it may come between the two. That entering is one step is what `ExclusiveScopes` allows
and `SerializeLocks` implements.

**AgentSpecs**, **WorkflowGate**, **TaskContext**, **Workspaces**, **ProviderCalls**, **RunResults**,
**RunViews** are operators without state, named for the functions they translate.

| Module | Code | Data it keeps |
|---|---|---|
| `AgentSpecs` | `config.rs`, `spec/*.rs`, `prepare_run` | layers of settings, agent files, the spec as a record |
| `WorkflowGate` | the gates of `dispatcher.rs`, `review.rs`, `archive.rs` | a text is the set of words found in it; a word stands for the keywords that are in the same lists |
| `TaskContext` | `memory.rs`, `context.rs`, `attach_plan_section_acceptance_criteria` | a directory maps paths to files, so two paths may be one file |
| `Workspaces` | `workspace.rs`, `cleanup.rs` | a world: the source, where it lies from the server, which commands work |
| `ProviderCalls` | `probe/mod.rs`, the runners | a stream is a sequence of tokens: texts, sentinels, objects, error lines |
| `RunResults` | `summary.rs`, `usage.rs`, `artifacts.rs`, `archive.rs`, `persist_run_record` | the artifacts by path with their producer, their index as the set of paths listed in it, the record on disk |
| `RunViews` | the views of `tools.rs` and their copies in `main.rs` | a log is a sequence of events with their phases |

**RunRequest** is one request that goes through all of them. `setting` is all it finds and
does not change; `phase` is where it is, `accepted`, `workspace`, `memory`, `compiled`,
`printed` are the values the code hands on, `temp` and `left` the files it makes, `archived`,
`disk` and `log` those it writes, `record` its entry in the map, `told` what the client got:
a status, that its run is accepted, or an error of whatever kind.
The variables of `Dispatcher` are its loop.

| Code | Actions |
|---|---|
| `prepare_run`, `spawn_agent`, `run_agent` | `RefuseRequest`, `Accept` |
| `ensure_provider_ready` | `ProbeProvider` |
| `run_dispatch` | `MakeWorkspace`, `ReadMemory` |
| `run_with_observers` | `FailGate`, `Compile`, `Call`, `Answer`, `Wait` |
| the runners | `CallError`, `CallAgain` |
| `cancel_agent` | `Cancel` |
| the record, the hooks, the terminal event, `persist_run_record` | `Settle`, `Save` |
| `get_or_load_run_record` in a later process | `Restart` |

In a step the code is sequential and no other request is near; what runs do to each other
is in `SerializeLocks`, `RunLifecycle`, `SourceTree` and `SharedStateDir`.

**Loops** has the two loops over lists that the pure modules and `EventLog` need, a filter (`Keep`)
and an accumulation (`Loop`), as recursive functions: the folds of the library choose elements of
a set and give the provers no list to go through.

## 4. Runs

Passing runs.

| Run | Instance | Shows |
|---|---|---|
| `locks` | three runs with keys {1,2}, {2,3}, {1,3}, one without | exclusion, no deadlock, no guard left after an abort, every run gets its locks, implements `ExclusiveScopes` |
| `runs` | a spawned run that is waited for and a synchronous one in the same scope, temporary workspaces, one failing file operation, cancels as soon as the handle is in the map | one terminal event, a record on disk that says what a client was told, a scope handed over clean, nothing left behind; accepted runs settle, tasks end; implements `RunPromise` |
| `request` | one request in each of 24 000 settings, in seventeen groups | budget, retries and result of a dispatch inside a whole request; the twelve places where parts of the code look at the same thing (next table) |
| `events` | two progress events, a cancel, a crash, each of seven clients; answers of two events, to a host that goes on from either cursor | the order of the log; that each client prints it, sees its end, and ends; what a polling host can miss |
| `process` | two prompt chunks, two chunks per stream, pipes of one, descendants | whole output, observer, no child left, and a return unless a descendant or the prompt blocks it |
| `state_dir` | a run of one server, another server, two requests in each, two exits, one `clean` | one end for everyone, no way back to running, `wait` ends |
| `source_tree` | two runs, every pair of some eighty requests | requests in conflict exclude each other as far as the keys can tell; which entries of the index can be lost |

What `request` compares.

| Property | One part | Another |
|---|---|---|
| `AgentIsTheOneMeant` | what the user said of the agents' directories | layers, load order and name lookup |
| `ChainIsBounded` | the marker of the parent's depth | the limit of the agent |
| `WritersAreLockedOrAlone` | who asked for lock keys | who may write, after overrides, and where |
| `NothingIsLeft` | what workspace, worktree and runners made, call by call | what each way out removes |
| `GateSeesTheSource` | the gate in the workspace | the gate in the source |
| `ReviewEvidenceAgrees` | the tracks and the risk of the gate | those of the review hook |
| `MemoryIsSaidOnce` | what is inlined | what the provider loads by itself |
| `SummaryIsFound` | the summary parser | a definition of the first object alone between sentinels |
| `HistoryIsReadable` | what the client was told and shown | what a later process, and the CLI, read |
| `ArchiveKeepsOthers` | the archive before | the archive after |
| `UsageIsTheSame` | the server's usage, from its record | the CLI's, from the outcome and its own fallbacks, before and after a restart |
| `BlockIsExplained` | the reasons a client is shown | the causes the run has still |

Runs that find the code to differ from what the repository says of it.

| Run | What happens |
|---|---|
| `events_seq` | `cancel_agent` and the task read the same largest seq (`append_run_event` is tested as "incrementing seq"). |
| `process_orphan` | A descendant holds stdout; after timeout and kill the runner waits for it ("`timeout_secs` 统一在 runtime 层生效"). |
| `state_dir_foreign` | A server that loaded a run while it was running cancels it after its home settled it, and overwrites its end (`runtime/outcome.rs:26`: a terminal state is immutable). |
| `source_tree_conflict` | A run on the whole workspace and one with a selected file of it have no key in common and work at the same time (`TODO.md:1356`: conflicting tasks exclude each other). |
| `request_copy` | A run that may write, in a project without git and with the default state directory inside it, cannot get the copy it falls back to: the copy descends into itself (`TODO.md:723`: `GitWorktree`, else `TempCopy`). |

The models show more, which no run of its own repeats:

* A host that finds a handle with `list_runs` can cancel it while `spawn_agent` is between its
  insert and its write (`mcp/server.rs:247`). If the cancel is over before the write, the record
  it cancelled is overwritten by the running one, for good (`overwritten`). `RecordIsOnDisk`
  says that without a failing file operation only such a run differs from its `run.json`, and
  that `run.json` then says running and nothing else.
* A run whose `run.cancelled` cannot be appended, or whose `spawn_agent` fails after its insert,
  stays running, the first on disk and the second in the map: `failed` exempts both, except
  that `run.json` tells no end but that of the record.
* A host that passes the `next_seq` of an answer of `watch_agent_events` back as `since_seq`
  misses the event that gets this seq: `next_seq` is one past the last event and `since_seq` is
  exclusive (`mcp/tools.rs:1239`, `1193`). One whose answer is full misses the oldest
  events (`mcp/tools.rs:1229`). `PollerMissesAreKnown` says that these two are the only losses, and
  that no event is given twice; without either of its two exceptions it fails.
* `persist_run_record` writes `run.json` before the other files (`mcp/persistence.rs:57-110`), so
  `logs --follow` and `spawn --stream`, which look for the output after they saw the end in
  `run.json`, may exit with success without having printed it.
* `watch` passes over a chunk that holds a line that does not parse (`if let Ok` in
  `watch_run` of `main.rs`): its events are never printed, and it still exits with success. After two
  lines were glued by a cancel and a progress event `logs --follow` fails instead.
* `CodexRunner` writes the prompt before anything reads the child's output and before its
  timeout counts (`codex.rs:101`); this is the case that `ReturnsUnlessBlocked` excepts.
* A process that is not the home of a run keeps "running" for good once it loaded it, and
  two queries that overlap can put "running" back over an end in its map.
* `wait` fails with code 1, like a failed run, when it polls in the middle of a write or
  after `clean`; the run of a home that is gone stays "running" on disk and `wait` without
  a timeout never ends. One torn `run.json` makes the whole `list_runs` fail. The CLI `cancel`
  starts with an empty map and never finds its run.
* Keys do not see that two requests meet if a path holds "..", if one source lies in the
  other, or if one request selects files and the other none (`Comparable`).
* A summary that declares an artifact as `./x` or by an absolute path makes the spawned run
  write a `run.json` that no later process can load (`TODO.md:72`), and with it the server's
  whole `list_runs` fails after a restart; an artifact named `review` stands in the way of
  the review evidence.
* `git -C <source> worktree add` resolves a relative state directory against the source
  while the server resolves it against its own directory, so the run works where no
  worktree is; a source in a subdirectory gets a checkout of the repository's root; a plan
  that is not committed is missing in a worktree, and the gate refuses for want of it.
* The file names of an archive hold the first group of the handle only, which is the same
  for 65 seconds (`TODO.md:1239`): a run with the same slug overwrites the other's note.
* A copy fails for a source with a link to a directory, or with one file it cannot read.
* An agent with the memory source `active_plan` (or the plan as a file) and the delegation context
  `plan_section` gives its provider the section twice: alone and in the plan
  (`runtime/memory.rs:171-187` looks at labels only). `MemoryIsSaidOnce` excepts this and no more.
* The probe looks at the default executable (`probe/mod.rs:292-300`); the runner starts the one
  of `MCP_SUBAGENT_<PROVIDER>_BIN`.
* A read-only agent writes without locks if an override or claude's `auto_accept_edits` lets
  it: `conflict_lock_keys` looks at `runtime.sandbox` alone.
* A silent provider is to be shown as stalled after 8 s (`docs/mcp-subagent_tech_design_v0.10.md:372`),
  but heartbeats every 2 s are events (`mcp/tools.rs:1551`), so it never is; a run that waits for
  locks is shown as preparing its workspace; what a provider waits for is looked at only
  after the dispatch; an error text may be explained by a word of the agent's name.
* `boot.started` precedes `context.compile.completed`, so while a provider boots the phase shown
  is `context_compile` until its first output or heartbeat.
* The CLI `ps` fails for all runs while one run directory has no `run.json`: while any
  `run_agent` is under way, and for good after one that ended in an error once its
  workspace was made (`mcp/tools.rs:1293-1301`). The server's `list_runs` skips such directories.
* The duration of a run that succeeded or failed is that of its dispatch in the CLI
  (`main.rs:2387`), without its wait for locks, workspace and hooks, and that of all of it in the
  server (`mcp/tools.rs:173`): the one difference `UsageIsTheSame` allows. `provider_exit_code`
  is made up from the terminal state (`TODO.md:3412`), so that the code in the message, which is
  looked for second, is never shown; the `attempts_used` of a dispatch that ended in an error is 0.
* An artifact declared as `stdout.txt` is shown as the run's stdout if the provider printed
  nothing there.

## 5. Bounds

* Two runs in one scope are the smallest instance of every race between runs; the locks,
  where rings need it, have three. The theorems of `RunLifecycle` and `SerializeLocks`
  hold for any number.
* `MaxFaults`: every property about files is about one failing operation and what follows;
  `failed` exempts the run that met it, and only that run.
* Attempts and turns go one below, at and one above each other, and 0.
* Two progress events: one before and one after a cancel, each able to meet the other writer.
  One client at a time: clients write nothing that another reads. The theorems hold for any
  number of events, cancels and crashes.
* Pipes of one chunk and two chunks to write: a writer blocks and continues.
* `state_dir`: runs do not touch each other's state but for the state lock, so one run is
  enough; two requests in a process are the fewest of which one can overtake the other;
  two exits let the home end, load what it left and end again. The theorems hold for any
  number of all of these.
* `source_tree`: names and paths are such that paths are equal, one below the other, or
  apart below a common directory, relative and absolute, with ".." and without.
* `request`: each group of `MCRunRequest` is the product of everything one part of the code
  branches on, around a setting in which nothing is unusual (`Usual`). Parts that only hand
  a value on are in the group of the part that looks at it. Providers answer with the
  summaries, endings and error lines of `MCAnswers`; in the group `streams` with every stdout
  of up to four tokens, which is the least in which two blocks can nest or overlap. Only the
  answers of `MCSlowAnswers` are late enough for a heartbeat. `U32Max` and `U64Max` are 9: above
  every number that occurs, so that each saturation happens only where a setting asks for it.
* The other bounds of a cfg are 0 to switch a case off: `MaxCrashes = 0` in `events_seq`, since a
  crash is no part of the counterexample.

## 6. Fairness

`RunLifecycle`: tokio polls every task that can go on, a call under way is carried on, a
critical section is straight-line code, mutexes are FIFO, and a provider ends at the
latest at its timeout. The last of these is what `process` checks of `ProviderProcess` as
far as it holds (`Blocked` is the exception), and `process_orphan` shows where it fails, so the
liveness of `runs` is conditional on it. No client is required to call anything.

`ProviderProcess`: the runner and its readers are polled and time passes; nothing is
assumed of the child.

`EventLog`: the writers go on unless they crash, and a client that follows keeps polling: its
loops sleep for a fixed time and read again.

`RunRequest` needs none: its properties are about every state it can be in.

`SharedStateDir`: an accepted run is settled, by the above, a write under way is carried
on, and `wait` polls. A process may end all the same, and then the run is "lost", which
`WaitEnds` excepts.

## 7. Proofs

`tlapm` checks every theorem to the last leaf.

* `LoopsProof`: what `Keep` and `Loop` (section 3) compute, for lists of any length. The provers
  cannot instantiate a theorem about an operator, so induction is the statement that a set with 0
  that is closed under the step has all numbers (`NatInSet`), and likewise of lists (`SeqInSet`).
  From it the functions behind `Keep` and `Loop` exist and unfold (`KeptExists`, `LoopExists`), a
  loop stays in any set its step stays in (`LoopStays`), and a filter keeps order, appends,
  concatenations and first elements (`KeepOrder`, `KeepAppend`, `KeepConcat`, `KeepFirst`).
* `RunLifecycleProof`, the locks: `LockInv` is inductive. Besides exclusion it says that a run's
  guards are exactly the mutexes it owns, all smaller than the one it waits for. The
  absence of deadlock is proved as: for any set of queued runs there is one that waits for nobody in
  the set, the one whose awaited key is the largest. From it the refinement to
  `ExclusiveScopes`.
* `RunLifecycleProof`, the calls: `RunInv` is inductive. `LocksFollowTask` ties the place of a task to its
  locks and workspace and carries `HandoverIsClean` and `NothingLeftBehind`;
  `RecordFollowsRun` says which statuses a record can have at each place, so that only a
  cancel settles it before its task does; `DiskFollowsRecord` says the same of `run.json` and
  carries `RecordIsOnDisk` and the refinement to `RunPromise`, with cancels also between
  insert and first write; `EventsFollowRecord` says that the terminal event is that of the
  record and missing only inside a critical section; `HandlesFollowWaits` carries
  `WaitMeansSettled`.
* `DispatcherProof`: `DispatchInv` relates attempt, remaining budget, the judgement of
  the last attempt and the history; from it the history, the budget, the retries and the result.
* `RequestProof`: every step of a request is a step of `Dispatcher` or leaves its variables
  alone, for every setting (`RequestImplementsDispatcher`); so budget, retries and result
  hold of every request. Seven invariants carry the other properties.
  * `RequestInv` ties what there is of the workspace and of the temporary files to the
    phase (`WorkspaceFollowsPhase`, `TempFollowsPhase`), since each way out removes what the phase
    before it has made; `NothingIsLeft` and `WritersAreLockedOrAlone` follow, the second from the
    choice of sandbox in each runner.
  * `GateInv` says that whatever is attempted has passed the gate, in the workspace and as
    the agent it is attempted with, and that neither changes afterwards. `NoneFailed` (a list of
    checks without a first failure has passed them all) then gives what a property needs of
    the gate: the depth for `ChainIsBounded`, the review policy for `ReviewEvidenceAgrees`.
    `GateSeesTheSource` is about what each way to prepare a workspace keeps of the source.
  * `RecordInv` says what is on disk of what the client was told: before the end nothing, or
    the accepted record; afterwards nothing and an error, or a record whose artifacts are
    known and whose files are as many of them as can be written (`OnDisk`). It needs to know
    of the artifacts (`KnownArtifacts`) that each was declared by the summary or is one of the
    server's own, and of the streams (`StreamsKept`) that a declared file takes the place of one
    only where nothing was printed; both are followed through the hooks (`HookedArtifacts`).
    `HistoryIsReadable` and `UsageIsTheSame` follow, the exception of the first for no summary
    that declares nothing (`OwnKeysAreFine`). `DispatchInv` is used for the status of a result.
  * `ArchiveKeepsOthers` needs of the hook that each of its steps keeps the index and the files
    of others (`HookKeeps`).
  * `AcceptedInv` says that what was accepted is what the request asked for, so that
    `AgentIsTheOneMeant` is about one pass through the catalogue: the directories that the layers
    configure are those the user meant (`MeantAreConfigured`), the files of all of them are gathered
    in the order of the directories (`Gathered`), sorting by name is stable (`ByNameSorts`), and
    so the first file of a name is that of the first directory that has one (`FirstIsOfFirst`).
  * `MemoryInv` (what was read says no file twice) gives `MemoryIsSaidOnce`: it is kept by every
    source (`SourceSays`), through its loop over paths, and so by the loop over all sources; the
    plan section comes last (`SectionSays`).
  * `StreamsInv` says that what a provider prints is a list of texts. On any list the scan for
    sentinels has a block open where one was opened and not closed, and has found the objects that
    stand alone so far (`ScanIs`, one token at a time in `ScanGoesOn`); `SummaryIsFound` follows for
    the two streams together (`SummaryOfStreams`).
  * `LogInv` (`LogIsKnown`) says of the log which words and which waits it can hold so far,
    that its phases follow each other (`InOrder`), and what it is before a provider can be called
    (`LogAtFirst`). What can have been said only grows (`SaidEarly`, `SaidLate`). From it
    `BlockIsExplained`, for the views of server and CLI alike.
* `EventLogProof`: `TaskAppendsAlone` says how the file ends in each of the three steps of an
  append while nobody has cancelled; `LargestOfSet` that a finite set has a largest number,
  so that the next seq is above all. A crash in the middle of an append leaves a line
  without its newline, after which nothing appends any more. The readers use the laws of
  `Keep` of `LoopsProof`. A text splits in one way into complete lines and an
  unfinished one (`TextSplits`), also where a read cuts it; from this `PrintInv` and
  `FollowerPrintsTheLog`. `EndInv` ties the status to the event that says it (announced before it
  is in `run.json`, or before the lock is free) and gives `FollowerSeesTheEnd`. `PollInv` gives
  `PollerMissesAreKnown` for every limit and whichever cursor a host goes on from: the cursor is at most
  one past the log (`CursorIsNear`), so a new line is beyond it or has its very seq (`LinePoll`), and
  an answer is the end of what is beyond it (`NewEvents`, `LastOfIs`, `PollIs`).
* `ProviderProcessProof`: chunks are conserved between pipe, reader, channel and observer;
  an ended reader has an empty pipe that nobody holds; a closed channel is empty.
* `SharedStateDirProof`: `StateDirInv` is inductive for `~ForeignCancel`. `HomeWrites` keeps every
  other process from writing; `OneEnd` says that map, queries, file and answers know one
  end; `OldFile` says that an end is known to the home alone while the file still says
  running, which is what the write under the state lock is for; `StageInv` says what is known
  at each stage of the work, so that what a home left behind can at most be cancelled.
  `OneVerdict` and `EndStays` follow.
* `SourceTreeProof`: `ConflictsShareAKey` is about sequences: if one of two paths below a source
  begins with the other, both have the same first name. With mutual exclusion in `TreeInv` it
  gives `ConflictsExclude`. `SeenIsCurrent` says that a reader of the index has seen what runs
  added that are kept apart from it, by a common key or by the state lock, as far as it was
  never lost; without the history `lost` it is not inductive, because another writer may put
  a lost entry back.

Assumptions are those on the constants, named in the modules: `Run` and `Key` are finite
where a largest element is chosen, `Mode` and the sets of runs have their types, counts
are naturals, every run has a home, requests and paths have their shape.

The settings of `RequestProof` are any set whose agents have the fields and the types of
an agent (`AgentsAssumption`), and whose requests and archives those of theirs
(`RequestsAssumption`): a depth is a `u8`, an index that can be read is a list, and a text is not
the absence of one. `AgentsAssumption` also gives the memory sources of an agent their type, the
kinds of `spec/runtime_policy.rs`; `CataloguesAssumption` says that what a layer writes of directories is a
list of texts, and that a file of an agent has its place in the order of the names, the same
for files of one name.

Only model-checked: liveness (fairness is out of the prover's reach), so `AcceptedRunsSettle`,
`TasksEnd`, `WaitEnds`, `EveryRunGetsItsLocks`, `FollowerFinishes` and `ReturnsUnlessBlocked`. Every
safety and refinement property of a passing run has its theorem. What ".." does to a selected path
is not part of one: the keys do not follow it, so `PlainConflictsExclude` is about paths without it.

## 8. Abstractions

* In `RunLifecycle` and `SharedStateDir` the validation of requests, the workflow gate and the
  provider probe are free choices to refuse, and so are the executions in `Dispatcher`;
  `RunRequest` has them in detail.
* Texts are words and tokens: wording, layout, trimming and truncation are left out, and
  times are places in the log. A failing hook or artifact is modelled by what it leaves.
* In `RunLifecycle` removing a workspace succeeds; in `RunRequest` it may fail, which the code
  only logs (`runtime/cleanup.rs:41-50`).
* A file write is one step, and may fail before, in the middle (`torn`) or after `run.json`;
  in `EventLog` one `write_all` of a line is one step and a failure is left out; in
  `SharedStateDir` truncation and write are two steps; the archive index is read in one step and
  written in another.
* `run.accepted` and `run.queued` are one event; heartbeats and output are `progress`.
* A chunk has no content; output is complete when its chunks are.
* A key is the pair of its parts and not their text. Symbolic links and names that differ
  only in case are left out: each path names one file.
* Of a run directory the modules but `RunRequest` have only `run.json` and `events.jsonl`.

Not modelled:

* The setup commands (`init.rs`, `doctor.rs`, `connect.rs`, `cwd.rs`, `logging.rs`) write files once or
  report on them; nothing runs beside them and no other component reads what they keep.
* Of the CLI: argument parsing and output; of the commands that follow a run the filters, the
  progress line and `--json`.
* Of the probe and the runners: the arguments of the command lines, except those that
  decide on writing; the files of an isolated gemini home.
* The types of `types.rs` and `dto.rs` are data; the parts a decision depends on are records of the
  modules that decide.
