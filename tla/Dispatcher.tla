------------------------------- MODULE Dispatcher -------------------------------
(***************************************************************************)
(* Dispatcher::run_with_observers (runtime/dispatcher.rs): one dispatch of *)
(* one run.  The spec is validated, the context compiled, and the provider *)
(* tried until an attempt needs no retry or the budget of attempts is      *)
(* spent.  Between two awaits the code is sequential; the provider, which  *)
(* may answer anything, is the environment, and the task around the        *)
(* dispatch may be aborted at an await.                                    *)
(*                                                                         *)
(* Kept of an execution: how the provider ended, the class its error       *)
(* message falls into, and the parse status of the summary.  Kept of an    *)
(* error message: where it comes from.                                     *)
(***************************************************************************)
EXTENDS Options, Naturals, Sequences

CONSTANTS
  AttemptSettings,  \* values of runtime.retry_policy.max_attempts
  TurnSettings,     \* values of runtime.max_turns where it is set; Unset is None
  U32Max            \* u32::MAX

ASSUME SettingsAssumption ==
  /\ U32Max \in Nat \ {0}
  /\ AttemptSettings \subseteq 0 .. U32Max
  /\ TurnSettings \subseteq 0 .. U32Max
  /\ Unset \notin Nat

VARIABLES
  spec,           \* the runtime policy of the AgentSpec
  step,           \* where run_with_observers is
  history,        \* tracker.status_history
  attempts_used,  \* tracker.attempts_used
  retry_attempts, \* tracker.retry_attempts
  ended,          \* what the runner returned, attempt by attempt
  final,          \* final_status, final_error_message and final_retry_classification
  outcome         \* result.outcome

vars == <<spec, step, history, attempts_used, retry_attempts, ended, final, outcome>>

Specs == [max_attempts : AttemptSettings, max_turns : TurnSettings \cup {Unset},
          parse_policy : {"best_effort", "strict"}]

(* RunnerTerminalState; "failed" is split by what classify_error_message   *)
(* finds in the message.                                                   *)
Ends == {"succeeded", "timed_out", "cancelled",
         "failed_retryable", "failed_non_retryable", "failed_unknown"}
Executions == [end : Ends, parse : {"validated", "degraded", "invalid"}]

TerminalPhases == {"Succeeded", "Failed", "Cancelled", "TimedOut"}

(* The status history of a run whose context is being compiled.            *)
Preparation == <<"Received", "Validating", "ProbingProvider", "PreparingWorkspace",
                 "ResolvingMemory", "CompilingContext">>

status == history[Len(history)]

SaturatingSub(m, n) == IF m < n THEN 0 ELSE m - n
Lower(m, n) == IF m <= n THEN m ELSE n

AtLeastOne(n) == IF n = 0 THEN 1 ELSE n

TurnLimit(s) == IF s.max_turns = Unset THEN U32Max ELSE s.max_turns

ConfiguredOnly(s) == AtLeastOne(s.max_attempts)
AttemptBudget(s) == AtLeastOne(Lower(AtLeastOne(s.max_attempts), TurnLimit(s)))

(* assess_attempt_outcome.                                                 *)
Judge(state, message, retryable, classification) ==
  [status |-> state, message |-> message, retryable |-> retryable,
   classification |-> classification]

Assess(e, s) ==
  CASE e.end = "succeeded" /\ e.parse = "validated" ->
         Judge("Succeeded", "none", FALSE, "non_retryable")
    [] e.end = "succeeded" /\ e.parse # "validated" /\ s.parse_policy = "best_effort" ->
         Judge("Succeeded", "none", FALSE, "non_retryable")
    [] e.end = "succeeded" /\ e.parse # "validated" /\ s.parse_policy = "strict" ->
         Judge("Failed", "parse", TRUE, "retryable")
    [] e.end = "failed_retryable"     -> Judge("Failed", "runner", TRUE, "retryable")
    [] e.end = "failed_non_retryable" -> Judge("Failed", "runner", FALSE, "non_retryable")
    [] e.end = "failed_unknown"       -> Judge("Failed", "runner", FALSE, "unknown")
    [] e.end = "timed_out"            -> Judge("TimedOut", "timeout", TRUE, "retryable")
    [] e.end = "cancelled" ->
         Judge("Cancelled", "cancelled", FALSE, "non_retryable")

(* Whether the loop goes on after an attempt.                              *)
RetriesAnyFailure(judged, attempt) ==
  judged.status \in {"Failed", "TimedOut"} /\ attempt < AttemptBudget(spec)
CanRetry(judged, attempt) == judged.retryable /\ attempt < AttemptBudget(spec)

(* The head of `for attempt in 1..=attempt_budget`, and what follows when  *)
(* the range is used up before a break.                                    *)
LoopHead ==
  IF attempts_used < AttemptBudget(spec) THEN "attempting"
  ELSE IF ended = <<>> THEN "nothing_collected"
  ELSE "finalizing"

(* What the error message says of the budget.                              *)
AlwaysAttempts(judged, attempt) == IF judged.retryable THEN "attempts" ELSE "no"
Exhausted(judged, attempt) ==
  IF ~judged.retryable THEN "no"
  ELSE IF spec.max_turns # Unset /\ spec.max_turns <= attempt THEN "turns"
  ELSE "attempts"

(* The variant of RunOutcome, with the retry information only Failed has.  *)
OutcomeOf(f) ==
  IF f.judged.status = "Failed"
  THEN [variant |-> "Failed", classification |-> f.judged.classification,
        message |-> f.judged.message, attempts_used |-> attempts_used]
  ELSE [variant |-> f.judged.status]

NoFinal == [judged |-> Judge("Failed", "unexpected", FALSE, "unknown"), exhausted |-> "no"]
NoOutcome == [variant |-> "none"]

--------------------------------------------------------------------------------
Init ==
  /\ spec \in Specs
  /\ step = "received"
  /\ history = <<"Received">>
  /\ attempts_used = 0 /\ retry_attempts = 0
  /\ ended = <<>>
  /\ final = NoFinal
  /\ outcome = NoOutcome

(* validate_agent_spec or one of the three gates returns an error: the     *)
(* first when max_turns is 0, each of them for reasons left out here.      *)
Refuse ==
  /\ step = "received"
  /\ history' = Append(history, "Validating")
  /\ step' = "refused"
  /\ UNCHANGED <<spec, attempts_used, retry_attempts, ended, final, outcome>>

(* The checks pass and the context is compiled, which the only compiler    *)
(* there is never fails to do.                                             *)
Prepare ==
  /\ step = "received"
  /\ spec.max_turns # 0
  /\ history' = Preparation
  /\ step' = LoopHead
  /\ UNCHANGED <<spec, attempts_used, retry_attempts, ended, final, outcome>>

Launch ==
  /\ step = "attempting"
  /\ attempts_used' = attempts_used + 1
  /\ history' = Append(Append(history, "Launching"), "Running")
  /\ step' = "executing"
  /\ UNCHANGED <<spec, retry_attempts, ended, final, outcome>>

(* The runner returns an error instead of an execution (`?`).              *)
RunnerError ==
  /\ step = "executing"
  /\ step' = "runner_error"
  /\ UNCHANGED <<spec, history, attempts_used, retry_attempts, ended, final, outcome>>

(* The runner returned: the summary is parsed, the attempt assessed, and   *)
(* every final_* variable assigned.                                        *)
Collect(e) ==
  LET judged == Assess(e, spec) IN
  /\ step = "executing"
  /\ history' = Append(Append(history, "Collecting"), "ParsingSummary")
  /\ ended' = Append(ended, e)
  /\ \/ /\ CanRetry(judged, attempts_used)
        /\ step' = "backing_off"
        /\ final' = [judged |-> judged, exhausted |-> "no"]
     \/ /\ ~CanRetry(judged, attempts_used)
        /\ step' = "finalizing"
        /\ final' = [judged |-> judged, exhausted |-> Exhausted(judged, attempts_used)]
  /\ UNCHANGED <<spec, attempts_used, retry_attempts, outcome>>

(* The sleep of backoff_secs is over.                                      *)
BackOff ==
  /\ step = "backing_off"
  /\ step' = LoopHead
  /\ UNCHANGED <<spec, history, attempts_used, retry_attempts, ended, final, outcome>>

(* The result: Finalizing, the final status, and the RunOutcome.           *)
Finalize ==
  /\ step = "finalizing"
  /\ retry_attempts' = SaturatingSub(attempts_used, 1)
  /\ history' = Append(Append(history, "Finalizing"), final.judged.status)
  /\ outcome' = OutcomeOf(final)
  /\ step' = "returned"
  /\ UNCHANGED <<spec, attempts_used, ended, final>>

(* cancel_agent aborts the task: the future is dropped at an await.        *)
Abort ==
  /\ step \in {"executing", "backing_off"}
  /\ step' = "aborted"
  /\ UNCHANGED <<spec, history, attempts_used, retry_attempts, ended, final, outcome>>

Over == {"refused", "nothing_collected", "runner_error", "returned", "aborted"}
Ended == step \in Over /\ UNCHANGED vars

Next ==
  \/ Refuse \/ Prepare \/ Launch \/ RunnerError
  \/ (\E e \in Executions : Collect(e))
  \/ BackOff \/ Finalize \/ Abort \/ Ended

Spec == Init /\ [][Next]_vars

--------------------------------------------------------------------------------
(* Properties.                                                             *)

Phases == {"Received", "Validating", "ProbingProvider", "PreparingWorkspace",
           "ResolvingMemory", "CompilingContext", "Launching", "Running",
           "Collecting", "ParsingSummary", "Finalizing"} \cup TerminalPhases

TypeOK ==
  /\ spec \in Specs
  /\ step \in {"received", "attempting", "executing", "backing_off", "finalizing"} \cup Over
  /\ history \in Seq(Phases) \ {<<>>}
  /\ attempts_used \in Nat /\ retry_attempts \in Nat
  /\ ended \in Seq(Executions)
  /\ final.exhausted \in {"no", "turns", "attempts"}
  /\ final.judged \in [status : TerminalPhases, retryable : BOOLEAN,
                       message : {"none", "parse", "runner", "timeout", "cancelled", "unexpected"},
                       classification : {"retryable", "non_retryable", "unknown"}]

LastEnded(s) == s[Len(s)]

(* A run never uses more attempts than max_attempts (one where that is 0)  *)
(* nor more than max_turns, and no attempt ends that was not launched; but *)
(* a run whose spec and context are valid tries its provider once, also    *)
(* with max_attempts = 0, which no validation rejects: the error           *)
(* `dispatcher did not collect runner execution` is never returned.        *)
BudgetIsKept ==
  /\ attempts_used <= AtLeastOne(spec.max_attempts)
  /\ spec.max_turns # Unset /\ step # "received" /\ step # "refused" =>
       attempts_used <= spec.max_turns
  /\ Len(ended) <= attempts_used
  /\ step # "nothing_collected"

(* An attempt is repeated only after a failure that is worth repeating,    *)
(* and a run with attempts left never reports such a failure.              *)
RetriesAreEarned ==
  /\ \A i \in 1 .. Len(ended) : i < attempts_used => Assess(ended[i], spec).retryable
  /\ step = "returned" /\ Assess(LastEnded(ended), spec).retryable =>
       attempts_used = AttemptBudget(spec)

(* The result is that of the last attempt, with nothing left over from the *)
(* ones before: a run that succeeds at last reports no error and a run     *)
(* that fails keeps its own classification; the message names the limit    *)
(* that ended the retries, and retry_attempts does not count the first.    *)
ResultIsOfLastAttempt ==
  step = "returned" =>
    LET judged == Assess(LastEnded(ended), spec) IN
    /\ Len(ended) = attempts_used
    /\ status = judged.status /\ final.judged = judged
    /\ outcome.variant = judged.status
    /\ outcome.variant = "Failed" =>
         outcome.classification = judged.classification /\ outcome.message = judged.message
    /\ final.exhausted # "no" <=> judged.retryable
    /\ final.exhausted = "turns" <=>
         judged.retryable /\ spec.max_turns # Unset
           /\ spec.max_turns <= AtLeastOne(spec.max_attempts)
    /\ retry_attempts + 1 = attempts_used

(* The order of RunPhase: what tracker.transition may append to what.      *)
Successors(phase) ==
  CASE phase = "Received"           -> {"Validating"}
    [] phase = "Validating"         -> {"ProbingProvider"}
    [] phase = "ProbingProvider"    -> {"PreparingWorkspace"}
    [] phase = "PreparingWorkspace" -> {"ResolvingMemory"}
    [] phase = "ResolvingMemory"    -> {"CompilingContext"}
    [] phase = "CompilingContext"   -> {"Launching"}
    [] phase = "Launching"          -> {"Running"}
    [] phase = "Running"            -> {"Collecting"}
    [] phase = "Collecting"         -> {"ParsingSummary"}
    [] phase = "ParsingSummary"     -> {"Launching", "Finalizing"}
    [] phase = "Finalizing"         -> TerminalPhases
    [] OTHER                        -> {}

(* The status history is a path of the phase diagram from Received, and a  *)
(* terminal phase is in it only when the dispatch has returned.            *)
HistoryIsAPath ==
  /\ history[1] = "Received"
  /\ \A i \in 1 .. Len(history) - 1 : history[i + 1] \in Successors(history[i])
  /\ status \in TerminalPhases <=> step = "returned"

(* Why: each step of the dispatch knows how many attempts were launched    *)
(* and ended, that all of them but the last were worth a retry, and which  *)
(* phase the tracker is in.                                                *)
AttemptsFollowStep ==
  LET budget == AttemptBudget(spec) IN
  /\ step # "nothing_collected"
  /\ attempts_used <= budget
  /\ spec.max_turns = 0 => step \in {"received", "refused"}
  /\ step \in {"received", "refused"} => attempts_used = 0 /\ ended = <<>>
  /\ step = "attempting" => Len(ended) = attempts_used /\ attempts_used < budget
  /\ step \in {"executing", "runner_error"} => attempts_used = Len(ended) + 1
  /\ step = "backing_off" => Len(ended) = attempts_used /\ attempts_used < budget
  /\ step = "aborted" => attempts_used - Len(ended) \in {0, 1}
  /\ step \in {"finalizing", "returned"} =>
       Len(ended) = attempts_used /\ attempts_used >= 1

RetriesFollowStep ==
  /\ \A i \in 1 .. Len(ended) :
       i < attempts_used \/ step \in {"attempting", "backing_off"} =>
         Assess(ended[i], spec).retryable
  /\ step \in {"finalizing", "returned"} =>
       /\ final.judged = Assess(ended[Len(ended)], spec)
       /\ final.judged.retryable => attempts_used = AttemptBudget(spec)
       /\ final.exhausted = Exhausted(final.judged, attempts_used)
  /\ step = "returned" =>
       outcome = OutcomeOf(final) /\ retry_attempts = attempts_used - 1

PhaseFollowsStep ==
  /\ step = "received" => history = <<"Received">>
  /\ step = "attempting" => status \in {"CompilingContext", "ParsingSummary"}
  /\ step = "executing" => status = "Running"
  /\ step \in {"backing_off", "finalizing"} => status = "ParsingSummary"
  /\ step = "returned" => status = final.judged.status

DispatchInv ==
  TypeOK /\ AttemptsFollowStep /\ RetriesFollowStep /\ PhaseFollowsStep /\ HistoryIsAPath
================================================================================
