----------------------------- MODULE DispatcherProof -----------------------------
(***************************************************************************)
(* What holds of every dispatch, for every runtime policy: proofs of the   *)
(* safety properties of Dispatcher.                                        *)
(***************************************************************************)
EXTENDS Dispatcher, TLAPS

(* What the budget is: at least one attempt, and within every limit.       *)
LEMMA BudgetBounds ==
  ASSUME NEW s \in Specs
  PROVE  /\ AttemptBudget(s) \in Nat /\ AttemptBudget(s) >= 1
         /\ AttemptBudget(s) <= AtLeastOne(s.max_attempts)
         /\ s.max_attempts \in Nat
         /\ s.max_turns # Unset => s.max_turns \in Nat
         /\ s.max_turns # Unset /\ s.max_turns # 0 =>
              /\ AttemptBudget(s) <= s.max_turns
              /\ s.max_turns <= AttemptBudget(s)
                   <=> s.max_turns <= AtLeastOne(s.max_attempts)
<1>0. s.max_attempts \in AttemptSettings /\ s.max_turns \in TurnSettings \cup {Unset}
  BY DEF Specs
<1>1. s.max_attempts \in 0 .. U32Max /\ U32Max \in Nat \ {0}
  BY <1>0, SettingsAssumption
<1>2. AtLeastOne(s.max_attempts) \in Nat \ {0}
  BY <1>1 DEF AtLeastOne
<1>3. CASE s.max_turns = Unset
  <2>1. AttemptBudget(s) = AtLeastOne(Lower(AtLeastOne(s.max_attempts), U32Max))
    BY <1>3 DEF AttemptBudget, TurnLimit
  <2>2. AtLeastOne(s.max_attempts) <= U32Max
    BY <1>1 DEF AtLeastOne
  <2> QED
    BY <1>1, <1>2, <1>3, <2>1, <2>2 DEF Lower, AtLeastOne
<1>4. CASE s.max_turns # Unset
  <2>1. s.max_turns \in Nat
    <3>1. s.max_turns \in TurnSettings
      BY <1>0, <1>4
    <3>2. \A n \in TurnSettings : n \in 0 .. U32Max
      BY SettingsAssumption
    <3> QED
      BY <1>1, <3>1, <3>2
  <2>2. AttemptBudget(s) = AtLeastOne(Lower(AtLeastOne(s.max_attempts), s.max_turns))
    BY <1>4 DEF AttemptBudget, TurnLimit
  <2> DEFINE configured == AtLeastOne(s.max_attempts)
  <2>3. configured \in Nat \ {0}
    BY <1>2
  <2>4. AttemptBudget(s) = AtLeastOne(Lower(configured, s.max_turns))
    BY <2>2
  <2> HIDE DEF configured
  <2>5. /\ AttemptBudget(s) \in Nat /\ AttemptBudget(s) >= 1
        /\ AttemptBudget(s) <= configured
        /\ s.max_turns # 0 =>
             /\ AttemptBudget(s) <= s.max_turns
             /\ s.max_turns <= AttemptBudget(s) <=> s.max_turns <= configured
    BY <2>1, <2>3, <2>4 DEF Lower, AtLeastOne
  <2> QED
    BY <1>1, <1>4, <2>1, <2>5 DEF configured
<1> QED
  BY <1>3, <1>4

(* What an assessment looks like.                                          *)
LEMMA Assessed ==
  ASSUME NEW e \in Executions, NEW s \in Specs
  PROVE  Assess(e, s) \in
           [status : TerminalPhases, retryable : BOOLEAN,
            message : {"none", "parse", "runner", "timeout", "cancelled", "unexpected"},
            classification : {"retryable", "non_retryable", "unknown"}]
  BY DEF Executions, Ends, Specs, Assess, Judge, TerminalPhases

(* A path of the phase diagram, as in HistoryIsAPath.                      *)
Path(h) ==
  /\ h \in Seq(Phases) /\ h # <<>>
  /\ h[1] = "Received"
  /\ \A i \in 1 .. Len(h) - 1 : h[i + 1] \in Successors(h[i])

(* Appending a phase that may follow the last one keeps the path.          *)
LEMMA AppendToPath ==
  ASSUME NEW h, Path(h), NEW p \in Phases, p \in Successors(h[Len(h)])
  PROVE  /\ Path(Append(h, p))
         /\ Append(h, p)[Len(Append(h, p))] = p
         /\ Append(h, p) # <<>>
<1> DEFINE g == Append(h, p)
<1>1. /\ h \in Seq(Phases) /\ Len(h) \in Nat \ {0}
      /\ g \in Seq(Phases) /\ Len(g) = Len(h) + 1
      /\ g[Len(g)] = p /\ \A i \in 1 .. Len(h) : g[i] = h[i]
  BY DEF Path
<1>2. g # <<>> /\ g[1] = "Received"
  BY <1>1 DEF Path
<1>3. ASSUME NEW i \in 1 .. Len(g) - 1 PROVE g[i + 1] \in Successors(g[i])
  <2>1. CASE i = Len(h)
    BY <1>1, <2>1
  <2>2. CASE i # Len(h)
    <3>1. i \in 1 .. Len(h) - 1 /\ g[i] = h[i] /\ g[i + 1] = h[i + 1]
      BY <1>1, <2>2
    <3> QED
      BY <3>1 DEF Path
  <2> QED
    BY <2>1, <2>2
<1> QED
  BY <1>1, <1>2, <1>3 DEF Path

LEMMA HistoryPath == DispatchInv => Path(history)
  BY DEF DispatchInv, TypeOK, HistoryIsAPath, Path

(* The two phases each step of an attempt appends.                         *)
LEMMA TwoPhases ==
  ASSUME DispatchInv, NEW p \in Phases, NEW q \in Phases,
         p \in Successors(status), q \in Successors(p),
         history' = Append(Append(history, p), q)
  PROVE  Path(history') /\ status' = q
  BY HistoryPath, AppendToPath DEF status

--------------------------------------------------------------------------------
(* The initial states satisfy the invariant.                               *)
LEMMA InitDispatch == Init => DispatchInv
<1> SUFFICES ASSUME Init PROVE DispatchInv
  OBVIOUS
<1>1. AttemptBudget(spec) \in Nat /\ AttemptBudget(spec) >= 1
  BY BudgetBounds DEF Init
<1>2. TypeOK
  BY DEF Init, TypeOK, NoFinal, Judge, Phases, TerminalPhases, Executions
<1>3. AttemptsFollowStep /\ RetriesFollowStep
  BY <1>1 DEF Init, AttemptsFollowStep, RetriesFollowStep
<1>4. PhaseFollowsStep /\ HistoryIsAPath
  BY DEF Init, PhaseFollowsStep, HistoryIsAPath, status, TerminalPhases
<1> QED
  BY <1>2, <1>3, <1>4 DEF DispatchInv

(* Before a run has attempted anything it is typed and its history a path. *)
LEMMA RefuseInv == DispatchInv /\ Refuse => DispatchInv'
<1> SUFFICES ASSUME DispatchInv, Refuse PROVE DispatchInv'
  OBVIOUS
<1> USE DEF DispatchInv
<1>1. /\ history = <<"Received">> /\ Path(history') /\ status' = "Validating"
  BY HistoryPath, AppendToPath
     DEF Refuse, PhaseFollowsStep, Phases, Successors, status
<1>2. TypeOK'
  BY <1>1 DEF Refuse, TypeOK, Over, Path
<1>3. AttemptsFollowStep' /\ RetriesFollowStep'
  BY ZenonT(40) DEF Refuse, AttemptsFollowStep, RetriesFollowStep, TypeOK, AttemptBudget, Assess
<1>4. PhaseFollowsStep' /\ HistoryIsAPath'
  BY <1>1 DEF Refuse, PhaseFollowsStep, HistoryIsAPath, TerminalPhases, Path
<1> QED
  BY <1>2, <1>3, <1>4

LEMMA PrepareInv == DispatchInv /\ Prepare => DispatchInv'
<1> SUFFICES ASSUME DispatchInv, Prepare PROVE DispatchInv'
  OBVIOUS
<1> USE DEF DispatchInv
<1>1. spec \in Specs /\ AttemptBudget(spec) \in Nat /\ AttemptBudget(spec) >= 1
  BY BudgetBounds DEF TypeOK
<1>2. attempts_used = 0 /\ ended = <<>> /\ spec.max_turns # 0
  BY DEF Prepare, AttemptsFollowStep
<1>3. step' = "attempting"
  BY <1>1, <1>2 DEF Prepare, LoopHead
<1>4. TypeOK'
  BY <1>3 DEF Prepare, TypeOK, Phases, Over, Preparation
<1>5. AttemptsFollowStep' /\ RetriesFollowStep'
  BY <1>1, <1>2, <1>3 DEF Prepare, AttemptsFollowStep, RetriesFollowStep, AttemptBudget
<1>6. PhaseFollowsStep' /\ HistoryIsAPath'
  BY <1>3 DEF Prepare, PhaseFollowsStep, HistoryIsAPath, status, TerminalPhases,
              Successors, Preparation
<1> QED
  BY <1>4, <1>5, <1>6

(* An attempt begins.                                                      *)
LEMMA LaunchInv == DispatchInv /\ Launch => DispatchInv'
<1> SUFFICES ASSUME DispatchInv, Launch PROVE DispatchInv'
  OBVIOUS
<1> USE DEF DispatchInv
<1>1. Path(history') /\ status' = "Running"
  BY TwoPhases DEF Launch, PhaseFollowsStep, Phases, Successors
<1>2. /\ spec \in Specs /\ AttemptBudget(spec) \in Nat /\ AttemptBudget(spec)' = AttemptBudget(spec)
      /\ attempts_used \in Nat /\ ended \in Seq(Executions)
  BY BudgetBounds DEF TypeOK, Launch, AttemptBudget
<1>3. TypeOK'
  BY <1>1, <1>2 DEF Launch, TypeOK, Path
<1>4. AttemptsFollowStep'
  BY <1>2 DEF Launch, AttemptsFollowStep
<1>5. RetriesFollowStep'
  <2>1. Len(ended) = attempts_used /\ attempts_used < AttemptBudget(spec)
    BY DEF Launch, AttemptsFollowStep
  <2>2. \A i \in 1 .. Len(ended) : Assess(ended[i], spec).retryable
    BY DEF Launch, RetriesFollowStep
  <2> QED
    BY <1>2, <2>1, <2>2 DEF Launch, RetriesFollowStep
<1>6. PhaseFollowsStep' /\ HistoryIsAPath'
  BY <1>1 DEF Launch, PhaseFollowsStep, HistoryIsAPath, TerminalPhases, Path
<1> QED
  BY <1>3, <1>4, <1>5, <1>6

(* It ends without an execution, or the task around it is aborted.         *)
LEMMA StopInv == DispatchInv /\ (RunnerError \/ Abort) => DispatchInv'
<1> SUFFICES ASSUME DispatchInv, RunnerError \/ Abort PROVE DispatchInv'
  OBVIOUS
<1> USE DEF DispatchInv
<1>1. /\ UNCHANGED <<spec, history, attempts_used, retry_attempts, ended, final, outcome>>
      /\ \/ step = "executing" /\ step' \in {"runner_error", "aborted"}
         \/ step = "backing_off" /\ step' = "aborted"
  BY DEF RunnerError, Abort
<1>2. spec \in Specs /\ attempts_used \in Nat /\ Len(ended) \in Nat
  BY DEF TypeOK
<1>3. TypeOK'
  BY <1>1 DEF TypeOK, Over
<1>4. AttemptsFollowStep'
  BY <1>1, <1>2 DEF AttemptsFollowStep, AttemptBudget
<1>5. RetriesFollowStep'
  BY <1>1, <1>2 DEF RetriesFollowStep
<1>6. PhaseFollowsStep' /\ HistoryIsAPath'
  BY <1>1 DEF PhaseFollowsStep, HistoryIsAPath, status
<1> QED
  BY <1>3, <1>4, <1>5, <1>6

(* It ends with one: the next attempt, or the result.                      *)
LEMMA CollectInv ==
  ASSUME DispatchInv, NEW e \in Executions, Collect(e)
  PROVE  DispatchInv'
<1> USE DEF DispatchInv
<1> DEFINE judged == Assess(e, spec)
<1>1. Path(history') /\ status' = "ParsingSummary"
  BY TwoPhases DEF Collect, PhaseFollowsStep, Phases, Successors
<1>2. /\ spec \in Specs /\ spec' = spec
      /\ AttemptBudget(spec) \in Nat /\ AttemptBudget(spec)' = AttemptBudget(spec)
      /\ attempts_used \in Nat /\ attempts_used' = attempts_used
      /\ attempts_used = Len(ended) + 1 /\ attempts_used <= AttemptBudget(spec)
  BY BudgetBounds DEF TypeOK, Collect, AttemptBudget, AttemptsFollowStep
<1>3. /\ ended \in Seq(Executions) /\ ended' \in Seq(Executions)
      /\ Len(ended') = attempts_used /\ ended'[attempts_used] = e
      /\ \A i \in 1 .. Len(ended) : ended'[i] = ended[i]
  BY <1>2 DEF Collect, TypeOK
<1>4. /\ judged \in [status : TerminalPhases, retryable : BOOLEAN,
            message : {"none", "parse", "runner", "timeout", "cancelled", "unexpected"},
            classification : {"retryable", "non_retryable", "unknown"}]
  BY <1>2, Assessed
<1> HIDE DEF judged
<1>5. \/ /\ step' = "backing_off" /\ judged.retryable
         /\ attempts_used < AttemptBudget(spec)
         /\ final' = [judged |-> judged, exhausted |-> "no"]
      \/ /\ step' = "finalizing"
         /\ judged.retryable => attempts_used = AttemptBudget(spec)
         /\ final' = [judged |-> judged, exhausted |-> Exhausted(judged, attempts_used)]
  BY <1>2 DEF Collect, CanRetry, judged
<1>6. Exhausted(judged, attempts_used) \in {"no", "turns", "attempts"}
  BY DEF Exhausted
<1>7. TypeOK'
  BY <1>1, <1>2, <1>3, <1>4, <1>5, <1>6 DEF Collect, TypeOK, Over, Path
<1>8. AttemptsFollowStep'
  BY <1>2, <1>3, <1>5 DEF Collect, AttemptsFollowStep
<1>9. RetriesFollowStep'
  <2>1. \A i \in 1 .. Len(ended) : Assess(ended'[i], spec).retryable
    BY <1>2, <1>3 DEF RetriesFollowStep
  <2>2. Assess(ended'[attempts_used], spec) = judged
    BY <1>3 DEF judged
  <2>3. \A i \in 1 .. Len(ended') : i = attempts_used \/ i \in 1 .. Len(ended)
    BY <1>2, <1>3
  <2> QED
    BY <1>2, <1>3, <1>5, <2>1, <2>2, <2>3 DEF RetriesFollowStep, Exhausted
<1>10. PhaseFollowsStep' /\ HistoryIsAPath'
  BY <1>1, <1>5 DEF PhaseFollowsStep, HistoryIsAPath, TerminalPhases, Path
<1> QED
  BY <1>7, <1>8, <1>9, <1>10

(* The sleep ends with attempts left, so the loop goes on.                 *)
LEMMA BackOffInv == DispatchInv /\ BackOff => DispatchInv'
<1> SUFFICES ASSUME DispatchInv, BackOff PROVE DispatchInv'
  OBVIOUS
<1> USE DEF DispatchInv
<1>1. /\ UNCHANGED <<spec, history, attempts_used, retry_attempts, ended, final, outcome>>
      /\ step = "backing_off" /\ step' = "attempting"
  BY DEF BackOff, AttemptsFollowStep, LoopHead
<1>2. TypeOK'
  BY <1>1 DEF TypeOK
<1>3. AttemptsFollowStep'
  BY <1>1 DEF AttemptsFollowStep, AttemptBudget
<1>4. RetriesFollowStep'
  BY <1>1 DEF RetriesFollowStep
<1>5. PhaseFollowsStep' /\ HistoryIsAPath'
  BY <1>1 DEF PhaseFollowsStep, HistoryIsAPath, status
<1> QED
  BY <1>2, <1>3, <1>4, <1>5

(* The result.                                                             *)
LEMMA FinalizeInv == DispatchInv /\ Finalize => DispatchInv'
<1> SUFFICES ASSUME DispatchInv, Finalize PROVE DispatchInv'
  OBVIOUS
<1> USE DEF DispatchInv
<1>1. final.judged.status \in TerminalPhases
  BY DEF TypeOK
<1>2. Path(history') /\ status' = final.judged.status
  BY <1>1, TwoPhases DEF Finalize, PhaseFollowsStep, Phases, Successors
<1>3. UNCHANGED <<spec, attempts_used, ended, final>> /\ step' = "returned"
  BY DEF Finalize
<1>4. /\ attempts_used \in Nat /\ attempts_used >= 1
      /\ retry_attempts' = attempts_used - 1
  BY DEF Finalize, AttemptsFollowStep, TypeOK, SaturatingSub
<1>5. TypeOK'
  BY <1>2, <1>3, <1>4 DEF TypeOK, Over, Path
<1>6. AttemptsFollowStep'
  BY <1>3, <1>4 DEF Finalize, AttemptsFollowStep, AttemptBudget
<1>7. RetriesFollowStep'
  <2>1. outcome' = OutcomeOf(final)'
    BY <1>3 DEF Finalize, OutcomeOf
  <2>2. /\ final.judged = Assess(ended[Len(ended)], spec)
        /\ final.judged.retryable => attempts_used = AttemptBudget(spec)
        /\ final.exhausted = Exhausted(final.judged, attempts_used)
        /\ \A i \in 1 .. Len(ended) : i < attempts_used => Assess(ended[i], spec).retryable
    BY DEF Finalize, RetriesFollowStep
  <2>3. /\ AttemptBudget(spec)' = AttemptBudget(spec)
        /\ Exhausted(final.judged, attempts_used)' = Exhausted(final.judged, attempts_used)
        /\ Assess(ended[Len(ended)], spec)' = Assess(ended[Len(ended)], spec)
    BY <1>3 DEF AttemptBudget, Exhausted, Assess
  <2> QED
    BY <1>3, <1>4, <2>1, <2>2, <2>3 DEF RetriesFollowStep
<1>8. PhaseFollowsStep' /\ HistoryIsAPath'
  BY <1>1, <1>2, <1>3 DEF PhaseFollowsStep, HistoryIsAPath, Path
<1> QED
  BY <1>5, <1>6, <1>7, <1>8

LEMMA StutterDispatch == DispatchInv /\ UNCHANGED vars => DispatchInv'
  BY DEF DispatchInv, vars, TypeOK, AttemptsFollowStep, RetriesFollowStep,
         PhaseFollowsStep, HistoryIsAPath, status, AttemptBudget, OutcomeOf, Exhausted

LEMMA NextDispatch == DispatchInv /\ [Next]_vars => DispatchInv'
  BY RefuseInv, PrepareInv, LaunchInv, StopInv, CollectInv, BackOffInv, FinalizeInv,
     StutterDispatch
     DEF Next, Ended

--------------------------------------------------------------------------------
(* The attempts, the judgement of each and the phase history agree at      *)
(* every step of a dispatch.                                               *)
THEOREM DispatchInvariant == Spec => []DispatchInv
  BY InitDispatch, NextDispatch, PTL DEF Spec

(* The status history is a path of the phase diagram.                      *)
THEOREM DispatchHistory == Spec => []HistoryIsAPath
<1>1. DispatchInv => HistoryIsAPath
  BY DEF DispatchInv
<1> QED
  BY <1>1, DispatchInvariant, PTL

(* max_attempts and max_turns are never exceeded, and one attempt is made.  *)
THEOREM DispatchKeepsBudget == Spec => []BudgetIsKept
<1>1. ASSUME DispatchInv PROVE BudgetIsKept
  <2>1. /\ spec \in Specs /\ attempts_used \in Nat
        /\ ended \in Seq(Executions) /\ Len(ended) \in Nat
    BY <1>1 DEF DispatchInv, TypeOK
  <2>2. attempts_used <= AttemptBudget(spec) /\ Len(ended) <= attempts_used
    BY <1>1, <2>1 DEF DispatchInv, TypeOK, AttemptsFollowStep, Over
  <2>3. spec.max_turns = 0 => step \in {"received", "refused"}
    BY <1>1 DEF DispatchInv, AttemptsFollowStep
  <2>4. step # "nothing_collected"
    BY <1>1 DEF DispatchInv, AttemptsFollowStep
  <2> QED
    BY <2>1, <2>2, <2>3, <2>4, BudgetBounds DEF BudgetIsKept, AtLeastOne
<1> QED
  BY <1>1, DispatchInvariant, PTL

(* Only failures worth a retry are retried, and those to the last attempt. *)
THEOREM DispatchEarnsRetries == Spec => []RetriesAreEarned
<1>1. DispatchInv => RetriesAreEarned
  BY DEF DispatchInv, RetriesFollowStep, RetriesAreEarned, LastEnded
<1> QED
  BY <1>1, DispatchInvariant, PTL

(* The result is the last attempt's and says why there was no other.       *)
THEOREM DispatchReportsLast == Spec => []ResultIsOfLastAttempt
<1>1. ASSUME DispatchInv, step = "returned" PROVE ResultIsOfLastAttempt
  <2> DEFINE judged == Assess(LastEnded(ended), spec)
  <2>1. /\ Len(ended) = attempts_used /\ attempts_used \in Nat /\ attempts_used >= 1
        /\ spec \in Specs /\ (spec.max_turns # 0)
    BY <1>1 DEF DispatchInv, TypeOK, AttemptsFollowStep
  <2>2. /\ final.judged = judged /\ outcome = OutcomeOf(final)
        /\ retry_attempts = attempts_used - 1
        /\ judged.retryable => attempts_used = AttemptBudget(spec)
        /\ final.exhausted = Exhausted(judged, attempts_used)
    BY <1>1 DEF DispatchInv, RetriesFollowStep, LastEnded
  <2>3. status = judged.status
    BY <1>1, <2>2 DEF DispatchInv, PhaseFollowsStep
  <2> HIDE DEF judged
  <2>4. /\ outcome.variant = judged.status
        /\ outcome.variant = "Failed" =>
             /\ outcome.classification = judged.classification
             /\ outcome.message = judged.message
    BY <2>2 DEF OutcomeOf
  <2>5. final.exhausted # "no" <=> judged.retryable
    BY <2>2 DEF Exhausted
  <2>6. final.exhausted = "turns" <=>
          judged.retryable /\ spec.max_turns # Unset
            /\ spec.max_turns <= AtLeastOne(spec.max_attempts)
    BY <2>1, <2>2, BudgetBounds DEF Exhausted
  <2> QED
    BY <2>1, <2>2, <2>3, <2>4, <2>5, <2>6 DEF ResultIsOfLastAttempt, judged
<1>2. step # "returned" => ResultIsOfLastAttempt
  BY DEF ResultIsOfLastAttempt
<1>3. DispatchInv => ResultIsOfLastAttempt
  BY <1>1, <1>2
<1> QED
  BY <1>3, DispatchInvariant, PTL
================================================================================
