----------------------- MODULE OracleLifecycle_proofs -----------------------
(***************************************************************************)
(* Proofs about OracleLifecycle, for any set of requests, configuration    *)
(* and collector results, and about AdaptiveThreshold, for any scores,     *)
(* rates and streams.                                                      *)
(***************************************************************************)
EXTENDS OracleLifecycle, AdaptiveThreshold, FiniteSetTheorems, SequenceTheorems,
        WellFoundedInduction, TLAPS

(***************************************************************************)
(* The refit policy answers with one of its actions, whatever the context. *)
(***************************************************************************)
LEMMA DecideType == ASSUME NEW c PROVE Decide(c) \in Actions
  BY DEF Decide, RefitIf, RecalibrateIf, Actions

LEMMA NewRequestType == NewRequest \in RequestType
  BY DEF NewRequest, RequestType, Points, Scorers, MaybeThreshold, Statuses,
         NoFeedback, FeedbackType, Actions, NoLabel

LEMMA NoJobType == NoJob \in JobType
  BY DEF NoJob, JobType, Scorers, MaybeThreshold

LEMMA GivenType == GivenThreshold \in Threshold
  BY DEF GivenThreshold, Threshold, Scorers

(***************************************************************************)
(* Type correctness.                                                       *)
(***************************************************************************)
LEMMA InitType == Init => TypeOK
  <1> SUFFICES ASSUME Init PROVE TypeOK
    OBVIOUS
  <1>1. since \in SinceType
    BY DEF Init, SinceType
  <1>2. monitor \in MonitorType
    BY DEF Init, MonitorType, NoRate, Rate
  <1>3. req \in [Requests -> RequestType] /\ job \in [Requests -> JobType]
    BY NewRequestType, NoJobType DEF Init
  <1>4. threshold \in MaybeThreshold /\ provider \in MaybeThreshold
    BY GivenType DEF Init, Givens, MaybeThreshold
  <1>5. store \in [h0 : Nat, h1 : Nat]
    BY LifecycleAssumption DEF Init
  <1>6. QED
    BY <1>1, <1>2, <1>3, <1>4, <1>5 DEF Init, TypeOK, Scorers

LEMMA ExecutedType ==
  ASSUME TypeOK, NEW r \in Requests, Executed(r)
  PROVE  req' \in [Requests -> RequestType]
  <1>1. [NewRequest EXCEPT !.at = "executed"] \in RequestType
    BY NewRequestType DEF RequestType, Points
  <1>2. QED
    BY <1>1 DEF Executed, TypeOK

LEMMA ResetMonitorType ==
  ASSUME TypeOK, ResetMonitor
  PROVE  monitor' \in MonitorType
  BY DEF TypeOK, ResetMonitor, MonitorType, Rate

LEMMA SwapPolicyType ==
  ASSUME TypeOK, NEW s \in Scorers, NEW tau \in Threshold, SwapPolicy(s, tau)
  PROVE  /\ scorer' \in Scorers
         /\ threshold' \in MaybeThreshold
         /\ version' \in Nat
         /\ disabled' \in BOOLEAN
         /\ activated' \in SUBSET Threshold
  <1>1. scorer' \in Scorers /\ threshold' \in MaybeThreshold
    BY DEF SwapPolicy, MaybeThreshold
  <1>2. version' \in Nat
    BY DEF SwapPolicy, TypeOK
  <1>3. disabled' \in BOOLEAN
    BY DEF SwapPolicy
  <1>4. activated' \in SUBSET Threshold
    BY DEF SwapPolicy, TypeOK
  <1>5. QED
    BY <1>1, <1>2, <1>3, <1>4

LEMMA RequestStepType ==
  ASSUME TypeOK, NEW r \in Requests, RequestStep(r)
  PROVE  TypeOK'
  <1> USE LifecycleAssumption DEF TypeOK, policyVars, threadVars
  <1>0. req[r] \in RequestType
    OBVIOUS
  <1>1. CASE Snapshot(r)
    <2>1. since' \in SinceType
      <3>1. /\ since.decisions_fit + 1 \in Nat
            /\ since.decisions_cal + 1 \in Nat
        BY DEF SinceType
      <3>2. since' = [since EXCEPT !.decisions_fit = since.decisions_fit + 1,
                                   !.decisions_cal = since.decisions_cal + 1]
        BY <1>1 DEF Snapshot
      <3>3. QED BY <3>1, <3>2 DEF SinceType
    <2>2. [req[r] EXCEPT !.at = "snapped", !.scorer = scorer,
                         !.threshold = threshold, !.disabled = disabled]
             \in RequestType
      BY <1>0 DEF RequestType, Points
    <2>3. req' \in [Requests -> RequestType]
      BY <1>1, <2>2 DEF Snapshot
    <2>4. QED BY <1>1, <2>1, <2>3 DEF Snapshot
  <1>2. CASE ScoreRequest(r)
    <2>1. PICK tau \in ServingThresholds(r) : \E status \in OutcomesWith(r, tau) :
             req' = [req EXCEPT ![r].at = "scored", ![r].threshold = tau,
                                ![r].status = status, ![r].scorer = Cold,
                                ![r].disabled = FALSE]
      BY <1>2 DEF ScoreRequest
    <2>2. PICK status \in OutcomesWith(r, tau) :
             req' = [req EXCEPT ![r].at = "scored", ![r].threshold = tau,
                                ![r].status = status, ![r].scorer = Cold,
                                ![r].disabled = FALSE]
      BY <2>1
    <2>3. tau \in MaybeThreshold
      BY DEF ServingThresholds, RequestType
    <2>4. status \in Statuses
      BY DEF OutcomesWith, Statuses
    <2>5. [req[r] EXCEPT !.at = "scored", !.threshold = tau,
                         !.status = status, !.scorer = Cold,
                         !.disabled = FALSE] \in RequestType
      BY <1>0, <2>3, <2>4 DEF RequestType, Points, Scorers
    <2>6. req' \in [Requests -> RequestType]
      BY <2>2, <2>5
    <2>7. QED BY <1>2, <2>6 DEF ScoreRequest
  <1>3. CASE CollectFeedback(r)
    <2>1. PICK f \in Feedbacks :
             /\ \E h0 \in 0..f.h0_added, h1 \in 0..f.h1_added :
                   store' = [h0 |-> store.h0 + h0, h1 |-> store.h1 + h1]
             /\ req' = [req EXCEPT ![r].at = "collected", ![r].feedback = f]
      BY <1>3 DEF CollectFeedback
    <2>2. f \in FeedbackType
      OBVIOUS
    <2>3. store' \in [h0 : Nat, h1 : Nat]
      <3>1. PICK h0 \in 0..f.h0_added, h1 \in 0..f.h1_added :
               store' = [h0 |-> store.h0 + h0, h1 |-> store.h1 + h1]
        BY <2>1
      <3>2. /\ h0 \in Nat /\ h1 \in Nat
            /\ store.h0 \in Nat /\ store.h1 \in Nat
        BY <2>2 DEF FeedbackType
      <3>3. QED BY <3>1, <3>2
    <2>4. [req[r] EXCEPT !.at = "collected", !.feedback = f] \in RequestType
      BY <1>0, <2>2 DEF RequestType, Points
    <2>5. req' \in [Requests -> RequestType]
      BY <2>1, <2>4
    <2>6. QED BY <1>3, <2>3, <2>5 DEF CollectFeedback
  <1>4. CASE RecordFeedback(r)
    <2>1. req[r].feedback \in FeedbackType
      BY DEF RequestType
    <2> DEFINE f == req[r].feedback
               hit == req[r].status = "HIT"
    <2>2. since' \in SinceType
      <3>1. /\ since.new_h0_fit + f.h0_added \in Nat
            /\ since.new_h1_fit + f.h1_added \in Nat
            /\ since.new_h0_cal + f.h0_added \in Nat
        BY <2>1 DEF SinceType, FeedbackType
      <3>2. since' = [since EXCEPT !.new_h0_fit = since.new_h0_fit + f.h0_added,
                                   !.new_h1_fit = since.new_h1_fit + f.h1_added,
                                   !.new_h0_cal = since.new_h0_cal + f.h0_added]
        BY <1>4 DEF RecordFeedback
      <3>3. QED BY <3>1, <3>2 DEF SinceType
    <2>3. monitor' \in MonitorType
      <3>1. /\ monitor.h0 + f.h0_added \in Nat
            /\ monitor.h1 + f.h1_added \in Nat
            /\ monitor.false_accepts + One(hit /\ f.label = 0) \in Nat
            /\ monitor.true_accepts + One(hit /\ f.label = 1) \in Nat
        BY <2>1 DEF MonitorType, FeedbackType, One
      <3>2. monitor' = [monitor EXCEPT
                !.h0 = monitor.h0 + f.h0_added,
                !.h1 = monitor.h1 + f.h1_added,
                !.false_accepts = monitor.false_accepts + One(hit /\ f.label = 0),
                !.true_accepts = monitor.true_accepts + One(hit /\ f.label = 1)]
        BY <1>4 DEF RecordFeedback
      <3>3. QED BY <3>1, <3>2 DEF MonitorType
    <2>4. [req[r] EXCEPT !.at = "recorded", !.feedback = NoFeedback,
                         !.status = "NONE"] \in RequestType
      BY <1>0 DEF RequestType, Points, Statuses
    <2>5. req' \in [Requests -> RequestType]
      BY <1>4, <2>4 DEF RecordFeedback
    <2>6. QED BY <1>4, <2>2, <2>3, <2>5 DEF RecordFeedback
  <1>5. CASE ReadRefitRows(r)
    <2>1. req' \in [Requests -> RequestType]
      BY <1>5, ExecutedType DEF ReadRefitRows, RequestType, Points
    <2>2. QED BY <1>5, <2>1 DEF ReadRefitRows
  <1>6. CASE DecideRefit(r)
    <2>1. req' \in [Requests -> RequestType]
      BY <1>6, ExecutedType, DecideType
      DEF DecideRefit, RequestType, Points, MaybeThreshold
    <2>2. QED BY <1>6, <2>1 DEF DecideRefit
  <1>7. CASE ExecuteNoop(r)
    BY <1>7, ExecutedType DEF ExecuteNoop
  <1>8. CASE ExecuteRecalibrate(r)
    <2>1. job' \in [Requests -> JobType]
      BY <1>8 DEF ExecuteRecalibrate, JobType
    <2>2. QED BY <1>8, <2>1, ExecutedType DEF ExecuteRecalibrate
  <1>9. CASE ExecuteRefit(r)
    <2>1. job' \in [Requests -> JobType]
      BY <1>9 DEF ExecuteRefit, StartFit, JobType
    <2>2. QED BY <1>9, <2>1, ExecutedType DEF ExecuteRefit, StartFit
  <1>10. CASE ReadPolicyScorer(r)
    <2>1. req' \in [Requests -> RequestType]
      <3>1. [req[r] EXCEPT !.at = "policy", !.scorer = scorer] \in RequestType
        BY <1>0 DEF RequestType, Points
      <3>2. QED BY <1>10, <3>1 DEF ReadPolicyScorer
    <2>2. QED BY <1>10, <2>1 DEF ReadPolicyScorer
  <1>11. CASE ReadPolicyThreshold(r)
    <2>1. req' \in [Requests -> RequestType]
      <3>1. [req[r] EXCEPT !.at = "done", !.scorer = Cold] \in RequestType
        BY <1>0 DEF RequestType, Points, Scorers
      <3>2. QED BY <1>11, <3>1 DEF ReadPolicyThreshold
    <2>2. QED BY <1>11, <2>1 DEF ReadPolicyThreshold
  <1>12. QED
    BY <1>1, <1>2, <1>3, <1>4, <1>5, <1>6, <1>7, <1>8, <1>9, <1>10, <1>11
    DEF RequestStep

LEMMA ToPublishType ==
  ASSUME TypeOK, NEW r \in Requests, NEW tau \in Threshold, ToPublish(r, tau)
  PROVE  job' \in [Requests -> JobType]
  <1>1. job \in [Requests -> JobType] /\ job[r] \in JobType
    BY DEF TypeOK
  <1>2. [job[r] EXCEPT !.phase = "publishing", !.threshold = tau] \in JobType
    BY <1>1 DEF JobType, MaybeThreshold
  <1>3. CASE HasProvider
    <2>1. job' = [job EXCEPT
            ![r] = [job[r] EXCEPT !.phase = "publishing", !.threshold = tau]]
      BY <1>3 DEF ToPublish
    <2>2. QED BY <1>1, <1>2, <2>1
  <1>4. CASE ~HasProvider
    BY <1>1, <1>4, NoJobType DEF ToPublish
  <1>5. QED
    BY <1>3, <1>4

LEMMA JobStepType ==
  ASSUME TypeOK, NEW r \in Requests, JobStep(r)
  PROVE  TypeOK'
  <1> USE LifecycleAssumption DEF TypeOK, policyVars, threadVars
  <1>0. job[r] \in JobType
    OBVIOUS
  <1>1. CASE StartThread(r)
    BY <1>1, <1>0 DEF StartThread, JobType
  <1>2. CASE ActivateFit(r)
    <2>1. FitThreshold(r) \in Threshold
      BY DEF FitThreshold, Threshold, Scorers
    <2>2. job' \in [Requests -> JobType]
      BY <1>2, <2>1, ToPublishType DEF ActivateFit
    <2>3. since' \in SinceType
      BY <1>2 DEF ActivateFit, CountersAfterFit, SinceType
    <2>4. monitor' \in MonitorType
      BY <1>2, ResetMonitorType DEF ActivateFit
    <2>5. /\ scorer' \in Scorers
          /\ threshold' \in MaybeThreshold
          /\ version' \in Nat
          /\ disabled' \in BOOLEAN
          /\ activated' \in SUBSET Threshold
      <3>1. SwapPolicy(r, FitThreshold(r))
        BY <1>2 DEF ActivateFit
      <3>2. r \in Scorers
        BY DEF Scorers
      <3>3. QED BY <3>1, <3>2, <2>1, SwapPolicyType
    <2>6. QED BY <1>2, <2>2, <2>3, <2>4, <2>5 DEF ActivateFit
  <1>3. CASE RejectFit(r)
    BY <1>3, NoJobType, ConfigAssumption DEF RejectFit
  <1>4. CASE ReadScorer(r)
    <2>1. [job[r] EXCEPT !.phase = "scored", !.scorer = scorer] \in JobType
      BY <1>0 DEF JobType
    <2>2. job' = [job EXCEPT
            ![r] = [job[r] EXCEPT !.phase = "scored", !.scorer = scorer]]
      BY <1>4 DEF ReadScorer
    <2>3. job' \in [Requests -> JobType]
      BY <2>1, <2>2
    <2>4. QED BY <1>4, <2>3 DEF ReadScorer
  <1>5. CASE ActivateRecalibration(r)
    <2>1. RecalThreshold(r) \in Threshold
      BY DEF RecalThreshold, Threshold, JobType
    <2>2. job' \in [Requests -> JobType]
      BY <1>5, <2>1, ToPublishType DEF ActivateRecalibration
    <2>3. since' \in SinceType
      BY <1>5 DEF ActivateRecalibration, SinceType
    <2>4. monitor' \in MonitorType
      BY <1>5, ResetMonitorType DEF ActivateRecalibration
    <2>5. /\ scorer' \in Scorers
          /\ threshold' \in MaybeThreshold
          /\ version' \in Nat
          /\ disabled' \in BOOLEAN
          /\ activated' \in SUBSET Threshold
      <3>1. SwapPolicy(scorer, RecalThreshold(r))
        BY <1>5 DEF ActivateRecalibration
      <3>2. QED BY <3>1, <2>1, SwapPolicyType
    <2>6. QED BY <1>5, <2>2, <2>3, <2>4, <2>5 DEF ActivateRecalibration
  <1>6. CASE RejectRecalibration(r)
    BY <1>6, NoJobType, ConfigAssumption DEF RejectRecalibration
  <1>7. CASE JobRaises(r)
    BY <1>7, NoJobType DEF JobRaises
  <1>8. CASE PublishThreshold(r)
    <2>1. job[r].threshold \in MaybeThreshold
      BY DEF JobType
    <2>2. QED BY <1>8, <2>1, NoJobType DEF PublishThreshold
  <1>9. QED
    BY <1>1, <1>2, <1>3, <1>4, <1>5, <1>6, <1>7, <1>8 DEF JobStep

LEMMA StepType == TypeOK /\ [Next]_vars => TypeOK'
  <1> SUFFICES ASSUME TypeOK, [Next]_vars PROVE TypeOK'
    OBVIOUS
  <1>1. ASSUME NEW r \in Requests, CallFit(r) PROVE TypeOK'
    <2>1. req' \in [Requests -> RequestType]
      BY <1>1 DEF CallFit, TypeOK, RequestType, Points
    <2>2. job' \in [Requests -> JobType]
      BY <1>1 DEF CallFit, StartFit, TypeOK, JobType
    <2>3. QED
      BY <1>1, <2>1, <2>2 DEF CallFit, StartFit, TypeOK, policyVars
  <1>2. CASE Freeze
    BY <1>2 DEF Freeze, TypeOK, policyVars, threadVars
  <1>3. CASE UNCHANGED vars
    BY <1>3 DEF vars, TypeOK
  <1>4. ASSUME NEW r \in Requests, SetThreshold(r) PROVE TypeOK'
    <2>1. req' \in [Requests -> RequestType]
      BY <1>4 DEF SetThreshold, TypeOK, RequestType, Points
    <2>2. [kind |-> "set", phase |-> "publishing", scorer |-> Cold,
           threshold |-> GivenThreshold] \in JobType
      BY GivenType DEF JobType, Scorers, MaybeThreshold
    <2>3. job' \in [Requests -> JobType]
      BY <1>4, <2>2 DEF SetThreshold, TypeOK
    <2>4. threshold' \in MaybeThreshold
      BY <1>4, GivenType DEF SetThreshold, MaybeThreshold
    <2>5. QED
      BY <1>4, <2>1, <2>3, <2>4 DEF SetThreshold, TypeOK, threadVars
  <1>5. QED
    BY <1>1, <1>2, <1>3, <1>4, RequestStepType, JobStepType DEF Next

(***************************************************************************)
(* Every variable keeps its type: the record fields the code reads exist,  *)
(* counters never go negative, and threads are ones a request created.     *)
(***************************************************************************)
THEOREM TypeCorrect == Spec => []TypeOK
  BY InitType, StepType, PTL DEF Spec

(***************************************************************************)
(* The counters of the monitor and of the refit policy.                    *)
(***************************************************************************)

\* The steps that touch no counter.
Uncounted(r) ==
    \/ ScoreRequest(r) \/ CollectFeedback(r) \/ ReadRefitRows(r)
    \/ DecideRefit(r) \/ ExecuteNoop(r) \/ ExecuteRecalibrate(r)
    \/ ExecuteRefit(r) \/ ReadPolicyScorer(r) \/ ReadPolicyThreshold(r)
    \/ StartThread(r) \/ RejectFit(r) \/ ReadScorer(r)
    \/ RejectRecalibration(r) \/ JobRaises(r) \/ PublishThreshold(r)
    \/ CallFit(r) \/ SetThreshold(r)

LEMMA NextCounted ==
  ASSUME [Next]_vars
  PROVE  \/ \E r \in Requests : \/ Snapshot(r) \/ RecordFeedback(r)
                                \/ ActivateFit(r) \/ ActivateRecalibration(r)
                                \/ Uncounted(r)
         \/ Freeze
         \/ UNCHANGED vars
  BY DEF Next, RequestStep, JobStep, Uncounted

LEMMA UncountedKeeps ==
  ASSUME NEW r \in Requests, Uncounted(r)
  PROVE  UNCHANGED <<since, monitor>>
  BY DEF Uncounted, ScoreRequest, CollectFeedback, ReadRefitRows, DecideRefit,
         ExecuteNoop, ExecuteRecalibrate, ExecuteRefit, ReadPolicyScorer,
         ReadPolicyThreshold, StartThread, RejectFit, ReadScorer,
         RejectRecalibration, JobRaises, PublishThreshold, CallFit,
         SetThreshold

\* What RecordFeedback does to the counters, field by field.
LEMMA RecordFeedbackCounts ==
  ASSUME TypeOK, NEW r \in Requests, RecordFeedback(r)
  PROVE  LET f == req[r].feedback
             hit == req[r].status = "HIT"
         IN  /\ f \in FeedbackType
             /\ since'.new_h0_fit = since.new_h0_fit + f.h0_added
             /\ since'.new_h0_cal = since.new_h0_cal + f.h0_added
             /\ since'.decisions_fit = since.decisions_fit
             /\ since'.decisions_cal = since.decisions_cal
             /\ monitor'.h0 = monitor.h0 + f.h0_added
             /\ monitor'.h1 = monitor.h1 + f.h1_added
             /\ monitor'.false_accepts = monitor.false_accepts + One(hit /\ f.label = 0)
             /\ monitor'.true_accepts = monitor.true_accepts + One(hit /\ f.label = 1)
  BY DEF RecordFeedback, TypeOK, RequestType, SinceType, MonitorType

LEMMA WindowsStep == TypeOK /\ WindowsNested /\ [Next]_vars => WindowsNested'
  <1> SUFFICES ASSUME TypeOK, WindowsNested, [Next]_vars PROVE WindowsNested'
    OBVIOUS
  <1>1. ASSUME NEW r \in Requests, Snapshot(r) PROVE WindowsNested'
    <2>1. since.decisions_fit \in Nat /\ since.decisions_cal \in Nat
      BY DEF TypeOK, SinceType
    <2>2. /\ since'.decisions_fit = since.decisions_fit + 1
          /\ since'.decisions_cal = since.decisions_cal + 1
          /\ since'.new_h0_cal = since.new_h0_cal
          /\ since'.new_h0_fit = since.new_h0_fit
          /\ monitor' = monitor
      BY <1>1 DEF Snapshot, TypeOK, SinceType
    <2>3. QED BY <2>1, <2>2 DEF WindowsNested
  <1>2. ASSUME NEW r \in Requests, RecordFeedback(r) PROVE WindowsNested'
    <2>1. since.new_h0_fit \in Nat /\ since.new_h0_cal \in Nat
      BY DEF TypeOK, SinceType
    <2>2. QED
      BY <1>2, <2>1, RecordFeedbackCounts DEF WindowsNested, FeedbackType
  <1>3. ASSUME NEW r \in Requests, ActivateFit(r) PROVE WindowsNested'
    BY <1>3 DEF ActivateFit, CountersAfterFit, ResetMonitor, WindowsNested
  <1>4. ASSUME NEW r \in Requests, ActivateRecalibration(r) PROVE WindowsNested'
    <2>1. since.new_h0_fit \in Nat /\ since.decisions_fit \in Nat
      BY DEF TypeOK, SinceType
    <2>2. /\ since'.new_h0_cal = 0 /\ since'.decisions_cal = 0
          /\ since'.new_h0_fit = since.new_h0_fit
          /\ since'.decisions_fit = since.decisions_fit
          /\ monitor'.h0 = 0
      BY <1>4 DEF ActivateRecalibration, ResetMonitor, TypeOK, SinceType
    <2>3. QED BY <2>1, <2>2 DEF WindowsNested
  <1>5. ASSUME UNCHANGED <<since, monitor>> PROVE WindowsNested'
    BY <1>5 DEF WindowsNested
  <1>6. QED
    BY <1>1, <1>2, <1>3, <1>4, <1>5, NextCounted, UncountedKeeps DEF Freeze, vars

(***************************************************************************)
(* The monitor window, the calibration window and the fit window stay      *)
(* nested under every interleaving of requests, fits and recalibrations.   *)
(***************************************************************************)
THEOREM WindowsStayNested == Spec => []WindowsNested
  <1>1. Init => WindowsNested
    BY DEF Init, WindowsNested
  <1>2. QED
    BY <1>1, WindowsStep, TypeCorrect, PTL DEF Spec

\* What a request still has to record came from the collector.
FeedbackCollected == \A r \in Requests : req[r].feedback \in Feedbacks

LEMMA FeedbackCollectedStep ==
  TypeOK /\ FeedbackCollected /\ [Next]_vars => FeedbackCollected'
  <1> SUFFICES ASSUME TypeOK, FeedbackCollected, [Next]_vars,
                      NEW s \in Requests
               PROVE  req'[s].feedback \in Feedbacks
    BY DEF FeedbackCollected
  <1> USE LifecycleAssumption DEF TypeOK, FeedbackCollected, RequestType
  <1>1. ASSUME NEW r \in Requests, Executed(r)
        PROVE  req'[s].feedback \in Feedbacks
    BY <1>1 DEF Executed, NewRequest
  <1>2. ASSUME NEW r \in Requests, RequestStep(r)
        PROVE  req'[s].feedback \in Feedbacks
    <2>0. req[s].feedback \in Feedbacks /\ req[s] \in RequestType
      OBVIOUS
    <2>1. CASE Snapshot(r)
      BY <2>0, <2>1 DEF Snapshot
    <2>2. CASE ScoreRequest(r)
      BY <2>0, <2>2 DEF ScoreRequest
    <2>3. CASE CollectFeedback(r)
      BY <2>0, <2>3 DEF CollectFeedback
    <2>4. CASE RecordFeedback(r)
      BY <2>0, <2>4 DEF RecordFeedback
    <2>5. CASE ReadRefitRows(r)
      BY <1>1, <2>0, <2>5 DEF ReadRefitRows
    <2>6. CASE DecideRefit(r)
      BY <1>1, <2>0, <2>6 DEF DecideRefit
    <2>7. CASE ExecuteNoop(r)
      BY <1>1, <2>0, <2>7 DEF ExecuteNoop
    <2>8. CASE ExecuteRecalibrate(r)
      BY <1>1, <2>0, <2>8 DEF ExecuteRecalibrate
    <2>9. CASE ExecuteRefit(r)
      BY <1>1, <2>0, <2>9 DEF ExecuteRefit
    <2>10. CASE ReadPolicyScorer(r)
      BY <2>0, <2>10 DEF ReadPolicyScorer
    <2>11. CASE ReadPolicyThreshold(r)
      BY <2>0, <2>11 DEF ReadPolicyThreshold
    <2> QED
      BY <1>2, <2>1, <2>2, <2>3, <2>4, <2>5, <2>6, <2>7, <2>8, <2>9, <2>10, <2>11 DEF RequestStep
  <1>3. ASSUME NEW r \in Requests, JobStep(r)
        PROVE  req'[s].feedback \in Feedbacks
    BY <1>3
    DEF JobStep, StartThread, ActivateFit, RejectFit, ReadScorer,
        ActivateRecalibration, RejectRecalibration, JobRaises, PublishThreshold
  <1>4. QED
    BY <1>2, <1>3 DEF Next, CallFit, SetThreshold, Freeze, vars

LEMMA MonitorStep ==
  ASSUME ServedLabelCounted
  PROVE  TypeOK /\ FeedbackCollected /\ MonitorWithinCounts /\ [Next]_vars
         => MonitorWithinCounts'
  <1> SUFFICES ASSUME TypeOK, FeedbackCollected, MonitorWithinCounts, [Next]_vars
               PROVE  MonitorWithinCounts'
    OBVIOUS
  <1>1. ASSUME NEW r \in Requests, RecordFeedback(r) PROVE MonitorWithinCounts'
    <2> DEFINE f == req[r].feedback
               hit == req[r].status = "HIT"
    <2>1. /\ monitor.h0 \in Nat /\ monitor.h1 \in Nat
          /\ monitor.false_accepts \in Nat /\ monitor.true_accepts \in Nat
      BY DEF TypeOK, MonitorType
    <2>2. f \in Feedbacks /\ f.h0_added \in Nat /\ f.h1_added \in Nat
      BY LifecycleAssumption DEF FeedbackCollected, FeedbackType
    <2>3. /\ One(hit /\ f.label = 0) <= f.h0_added
          /\ One(hit /\ f.label = 1) <= f.h1_added
      BY <2>2 DEF ServedLabelCounted, One
    <2>4. /\ One(hit /\ f.label = 0) \in Nat
          /\ One(hit /\ f.label = 1) \in Nat
      BY DEF One
    <2>5. QED
      BY <1>1, <2>1, <2>2, <2>3, <2>4, RecordFeedbackCounts DEF MonitorWithinCounts
  <1>2. ASSUME ResetMonitor PROVE MonitorWithinCounts'
    BY <1>2 DEF ResetMonitor, MonitorWithinCounts
  <1>3. ASSUME UNCHANGED monitor PROVE MonitorWithinCounts'
    BY <1>3 DEF MonitorWithinCounts
  <1>4. QED
    BY <1>1, <1>2, <1>3, NextCounted, UncountedKeeps
    DEF Snapshot, ActivateFit, ActivateRecalibration, Freeze, vars

(***************************************************************************)
(* The monitor never counts an accept whose pair it did not count, as long *)
(* as the collector counts the pair of every label it returns.             *)
(***************************************************************************)
THEOREM MonitorStaysWithinCounts ==
  ServedLabelCounted => (Spec => []MonitorWithinCounts)
  <1> SUFFICES ASSUME ServedLabelCounted PROVE Spec => []MonitorWithinCounts
    OBVIOUS
  <1>1. Init => MonitorWithinCounts /\ FeedbackCollected
    BY LifecycleAssumption
    DEF Init, MonitorWithinCounts, FeedbackCollected, NewRequest
  <1>2. TypeOK /\ FeedbackCollected /\ MonitorWithinCounts /\ [Next]_vars
        => MonitorWithinCounts'
    BY MonitorStep
  <1>3. QED
    BY <1>1, <1>2, FeedbackCollectedStep, TypeCorrect, PTL DEF Spec

(***************************************************************************)
(* Jobs and activations.  A step of a request is one of five kinds.        *)
(***************************************************************************)
Past == {"executed", "policy", "done"}

SamePolicy == UNCHANGED <<scorer, threshold, version, activated>>

\* It serves, labels or decides.
Serves(r) ==
    /\ SamePolicy
    /\ job'[r] = job[r]
    /\ req[r].at \in Past => req'[r].at \in Past
    /\ req'[r].scorer \in {Cold, scorer, req[r].scorer}
    /\ req'[r].at = "snapped" => /\ req'[r].scorer = scorer
                                 /\ req'[r].threshold = threshold

\* It creates its job and is finished with maintenance.
Starts(r) ==
    /\ SamePolicy
    /\ req[r].at \notin Past
    /\ req'[r].at \in Past
    /\ req'[r].scorer \in {Cold, req[r].scorer}
    /\ job'[r].scorer = job[r].scorer
    /\ job'[r].kind # "none"
    /\ job'[r].phase # "none"

\* It sets a given threshold.
Sets(r) ==
    /\ UNCHANGED <<scorer, version, activated>>
    /\ threshold' = GivenThreshold
    /\ req[r].at \notin Past
    /\ req'[r].at \in Past
    /\ req'[r].scorer = req[r].scorer
    /\ \/ job'[r] = job[r]
       \/ job'[r] = [kind |-> "set", phase |-> "publishing", scorer |-> Cold,
                     threshold |-> GivenThreshold]

\* Its job goes on.
Works(r) ==
    /\ SamePolicy
    /\ req'[r] = req[r]
    /\ job[r].phase \in {"created", "running"}
    /\ job'[r].phase \in {"running", "scored"}
    /\ job'[r].kind = job[r].kind
    /\ job'[r].scorer \in {scorer, job[r].scorer}

\* Its job is over.
Ends(r) ==
    /\ SamePolicy
    /\ req'[r] = req[r]
    /\ job[r].phase # "none"
    /\ job'[r] = NoJob

\* Its job replaces the policy.
Activates(r) ==
    /\ req'[r] = req[r]
    /\ job[r].phase \in {"running", "scored"}
    /\ job'[r].phase \in {"none", "publishing"}
    /\ job'[r].kind = "none" <=> job'[r].phase = "none"
    /\ job'[r].scorer \in {Cold, job[r].scorer}
    /\ \/ /\ SwapPolicy(r, FitThreshold(r))
          /\ job'[r].kind \in {"none", "fit"}
       \/ SwapPolicy(scorer, RecalThreshold(r))

\* Nothing happens to another request or its job.
Own(r) == \A s \in Requests \ {r} : req'[s] = req[s] /\ job'[s] = job[s]

LEMMA ExecutedShape ==
  ASSUME TypeOK, NEW r \in Requests, Executed(r)
  PROVE  /\ req'[r].at = "executed"
         /\ req'[r].scorer = Cold
         /\ \A s \in Requests \ {r} : req'[s] = req[s]
  BY DEF Executed, NewRequest, TypeOK

LEMMA StartFitShape ==
  ASSUME TypeOK, NEW r \in Requests, StartFit(r)
  PROVE  /\ \A s \in Requests \ {r} : job'[s] = job[s]
         /\ \/ job' = job
            \/ /\ job'[r].scorer = job[r].scorer
               /\ job'[r].kind # "none"
               /\ job'[r].phase # "none"
  <1>1. CASE job' = job
    BY <1>1
  <1>2. CASE job' = [job EXCEPT ![r].kind = "fit", ![r].phase = "created"]
    BY <1>2 DEF TypeOK, JobType
  <1>3. QED
    BY <1>1, <1>2 DEF StartFit

LEMMA RequestShape ==
  ASSUME TypeOK, NEW r \in Requests, RequestStep(r) \/ CallFit(r) \/ SetThreshold(r)
  PROVE  Own(r) /\ (Serves(r) \/ Starts(r) \/ Sets(r))
  <1> USE DEF Own, SamePolicy, policyVars, threadVars, Past
  <1>0. /\ req \in [Requests -> RequestType] /\ req[r] \in RequestType
        /\ job \in [Requests -> JobType] /\ job[r] \in JobType
    BY DEF TypeOK
  <1>1. CASE Snapshot(r)
    BY <1>0, <1>1 DEF Snapshot, Serves, RequestType
  <1>2. CASE ScoreRequest(r)
    BY <1>0, <1>2 DEF ScoreRequest, Serves, RequestType
  <1>3. CASE CollectFeedback(r)
    BY <1>0, <1>3 DEF CollectFeedback, Serves, RequestType
  <1>4. CASE RecordFeedback(r)
    BY <1>0, <1>4 DEF RecordFeedback, Serves, RequestType
  <1>5. CASE ReadRefitRows(r)
    BY <1>0, <1>5, ExecutedShape DEF ReadRefitRows, Serves, RequestType
  <1>6. CASE DecideRefit(r)
    BY <1>0, <1>6, ExecutedShape DEF DecideRefit, Serves, RequestType
  <1>7. CASE ExecuteNoop(r)
    BY <1>0, <1>7, ExecutedShape DEF ExecuteNoop, Serves
  <1>8. CASE ExecuteRecalibrate(r)
    <2>1. \/ job' = job
          \/ job' = [job EXCEPT ![r].kind = "recal_sync", ![r].phase = "running"]
          \/ job' = [job EXCEPT ![r].kind = "recal_async", ![r].phase = "created"]
      BY <1>8 DEF ExecuteRecalibrate
    <2>2. /\ \A s \in Requests \ {r} : job'[s] = job[s]
          /\ \/ job' = job
             \/ /\ job'[r].scorer = job[r].scorer
                /\ job'[r].kind # "none"
                /\ job'[r].phase # "none"
      BY <1>0, <2>1 DEF JobType
    <2>3. QED
      BY <1>8, <2>2, ExecutedShape DEF ExecuteRecalibrate, Serves, Starts
  <1>9. CASE ExecuteRefit(r)
    BY <1>9, ExecutedShape, StartFitShape DEF ExecuteRefit, Serves, Starts
  <1>10. CASE ReadPolicyScorer(r)
    BY <1>0, <1>10 DEF ReadPolicyScorer, Serves, RequestType
  <1>11. CASE ReadPolicyThreshold(r)
    BY <1>0, <1>11 DEF ReadPolicyThreshold, Serves, RequestType
  <1>12. CASE CallFit(r)
    BY <1>0, <1>12, StartFitShape DEF CallFit, Serves, Starts, RequestType
  <1>13. CASE SetThreshold(r)
    <2>1. /\ \A s \in Requests \ {r} : req'[s] = req[s] /\ job'[s] = job[s]
          /\ req'[r].at = "done" /\ req'[r].scorer = req[r].scorer
      BY <1>0, <1>13 DEF SetThreshold, RequestType
    <2>2. \/ job'[r] = job[r]
          \/ job'[r] = [kind |-> "set", phase |-> "publishing", scorer |-> Cold,
                        threshold |-> GivenThreshold]
      BY <1>0, <1>13 DEF SetThreshold
    <2>3. QED
      BY <1>13, <2>1, <2>2 DEF SetThreshold, Sets
  <1>14. QED
    BY <1>1, <1>2, <1>3, <1>4, <1>5, <1>6, <1>7, <1>8, <1>9, <1>10, <1>11, <1>12, <1>13
    DEF RequestStep

\* A request has a job only when it is finished with maintenance, and what
\* has a phase has a kind.
JobsStarted ==
    \A r \in Requests :
        /\ job[r].phase # "none" => req[r].at \in Past
        /\ job[r].kind = "none" <=> job[r].phase = "none"

LEMMA JobShape ==
  ASSUME TypeOK, JobsStarted, NEW r \in Requests, JobStep(r)
  PROVE  Own(r) /\ (Works(r) \/ Ends(r) \/ Activates(r))
  <1> USE DEF Own, SamePolicy, policyVars, threadVars
  <1>0. job \in [Requests -> JobType] /\ job[r] \in JobType
    BY DEF TypeOK
  <1>1. CASE StartThread(r)
    BY <1>0, <1>1 DEF StartThread, Works, JobType
  <1>2. CASE ActivateFit(r)
    <2>1. \/ job' = [job EXCEPT ![r].phase = "publishing",
                                ![r].threshold = FitThreshold(r)]
          \/ job' = [job EXCEPT ![r] = NoJob]
      BY <1>2 DEF ActivateFit, ToPublish
    <2>2. /\ \A s \in Requests \ {r} : job'[s] = job[s]
          /\ job'[r].phase \in {"none", "publishing"}
          /\ job'[r].kind = "none" <=> job'[r].phase = "none"
          /\ job'[r].scorer \in {Cold, job[r].scorer}
          /\ job'[r].kind \in {"none", "fit"}
      BY <1>0, <1>2, <2>1 DEF ActivateFit, JobType, NoJob
    <2>3. QED BY <1>2, <2>2 DEF ActivateFit, Activates
  <1>3. CASE RejectFit(r)
    BY <1>0, <1>3 DEF RejectFit, Ends
  <1>4. CASE ReadScorer(r)
    BY <1>0, <1>4 DEF ReadScorer, Works, JobType
  <1>5. CASE RejectRecalibration(r)
    BY <1>0, <1>5 DEF RejectRecalibration, Ends
  <1>6. CASE JobRaises(r)
    BY <1>0, <1>6 DEF JobRaises, Ends
  <1>7. CASE PublishThreshold(r)
    BY <1>0, <1>7 DEF PublishThreshold, Ends
  <1>8. CASE ActivateRecalibration(r)
    <2>1. \/ job' = [job EXCEPT ![r].phase = "publishing",
                                ![r].threshold = RecalThreshold(r)]
          \/ job' = [job EXCEPT ![r] = NoJob]
      BY <1>8 DEF ActivateRecalibration, ToPublish
    <2>2. /\ \A s \in Requests \ {r} : job'[s] = job[s]
          /\ job'[r].phase \in {"none", "publishing"}
          /\ job'[r].kind = "none" <=> job'[r].phase = "none"
          /\ job'[r].scorer \in {Cold, job[r].scorer}
      BY <1>0, <1>8, <2>1 DEF ActivateRecalibration, JobsStarted, JobType, NoJob
    <2>3. QED BY <1>8, <2>2 DEF ActivateRecalibration, Activates
  <1>9. QED
    BY <1>1, <1>2, <1>3, <1>4, <1>5, <1>6, <1>7, <1>8 DEF JobStep

\* Request s has nothing left that could activate anything.
Spent(s) == req[s].at \in Past /\ job[s].phase \in {"none", "publishing"}

\* A scorer in use is Cold or the one a spent fit trained.
Trained(s) == s \in Requests => Spent(s) /\ job[s].kind \in {"none", "fit"}

\* The strengthening of VersionCountsActivations: every activated threshold
\* belongs to a spent job, so the next activation adds a new one.
ActivationInv ==
    /\ JobsStarted
    /\ IsFiniteSet(activated)
    /\ \A a \in activated : a.by \in Requests /\ Spent(a.by)
    /\ version = Cardinality(activated)

\* The strengthening of PairsFromOneFit: a recalibration that still runs
\* cannot hold a scorer of its own name.
ScorersInv ==
    /\ Trained(scorer)
    /\ \A r \in Requests : Trained(req[r].scorer) /\ Trained(job[r].scorer)
    /\ PairsFromOneFit

LEMMA SpentStays ==
  ASSUME TypeOK, JobsStarted, NEW r \in Requests,
         RequestStep(r) \/ JobStep(r) \/ CallFit(r) \/ SetThreshold(r),
         NEW s \in Requests, Spent(s)
  PROVE  Spent(s)' /\ (job[s].kind \in {"none", "fit"} => job'[s].kind \in {"none", "fit"})
  <1>1. CASE s # r
    <2>1. Own(r)
      BY RequestShape, JobShape
    <2>2. QED BY <1>1, <2>1 DEF Own, Spent
  <1>2. CASE s = r
    <2>1. CASE Serves(r)
      BY <1>2, <2>1 DEF Serves, Spent
    <2>2. CASE Starts(r)
      BY <1>2, <2>2 DEF Starts, Spent
    <2>3. CASE Works(r) \/ Activates(r)
      BY <1>2, <2>3 DEF Works, Activates, Spent
    <2>4. CASE Ends(r)
      BY <1>2, <2>4 DEF Ends, Spent, NoJob
    <2>5. CASE Sets(r)
      BY <1>2, <2>5 DEF Sets, Spent
    <2>6. QED
      BY <2>1, <2>2, <2>3, <2>4, <2>5, RequestShape, JobShape
  <1>3. QED
    BY <1>1, <1>2

LEMMA JobsStartedStep ==
  ASSUME TypeOK, JobsStarted, NEW r \in Requests,
         RequestStep(r) \/ JobStep(r) \/ CallFit(r) \/ SetThreshold(r)
  PROVE  JobsStarted'
  <1> SUFFICES ASSUME NEW s \in Requests
               PROVE  /\ job'[s].phase # "none" => req'[s].at \in Past
                      /\ job'[s].kind = "none" <=> job'[s].phase = "none"
    BY DEF JobsStarted
  <1>0. /\ job[s].phase # "none" => req[s].at \in Past
        /\ job[s].kind = "none" <=> job[s].phase = "none"
    BY DEF JobsStarted
  <1>1. CASE s # r
    <2>1. Own(r)
      BY RequestShape, JobShape
    <2>2. QED BY <1>0, <1>1, <2>1 DEF Own
  <1>2. CASE s = r
    <2>1. CASE Serves(r)
      BY <1>0, <1>2, <2>1 DEF Serves
    <2>2. CASE Starts(r)
      BY <1>2, <2>2 DEF Starts
    <2>3. CASE Works(r)
      BY <1>0, <1>2, <2>3 DEF Works
    <2>4. CASE Ends(r)
      BY <1>2, <2>4 DEF Ends, NoJob
    <2>5. CASE Activates(r)
      BY <1>0, <1>2, <2>5 DEF Activates
    <2>6. CASE Sets(r)
      BY <1>0, <1>2, <2>6 DEF Sets
    <2>7. QED
      BY <2>1, <2>2, <2>3, <2>4, <2>5, <2>6, RequestShape, JobShape
  <1>3. QED
    BY <1>1, <1>2

LEMMA ActivationStep ==
  ASSUME TypeOK, ActivationInv, [Next]_vars
  PROVE  ActivationInv'
  <1> USE DEF ActivationInv
  <1>1. ASSUME NEW r \in Requests, RequestStep(r) \/ JobStep(r) \/ CallFit(r) \/ SetThreshold(r)
        PROVE  ActivationInv'
    <2>1. JobsStarted'
      BY <1>1, JobsStartedStep
    <2>2. \A a \in activated : a.by \in Requests /\ Spent(a.by)'
      BY <1>1, SpentStays
    <2>3. CASE UNCHANGED <<version, activated>>
      BY <2>1, <2>2, <2>3
    <2>4. CASE Activates(r)
      <3>1. PICK tau : /\ tau.by = r
                       /\ activated' = activated \cup {tau}
                       /\ version' = version + 1
        BY <2>4 DEF Activates, SwapPolicy, FitThreshold, RecalThreshold
      <3>2. tau \notin activated
        BY <2>4, <3>1 DEF Activates, Spent
      <3>3. /\ IsFiniteSet(activated')
            /\ Cardinality(activated') = Cardinality(activated) + 1
        BY <3>1, <3>2, FS_AddElement
      <3>4. Spent(r)'
        <4>1. req[r].at \in Past
          BY <2>4 DEF Activates, JobsStarted
        <4>2. QED BY <2>4, <4>1 DEF Activates, Spent
      <3>5. \A a \in activated' : a.by \in Requests /\ Spent(a.by)'
        BY <2>2, <3>1, <3>4
      <3>6. QED
        BY <2>1, <3>1, <3>3, <3>5
    <2>5. QED
      BY <1>1, <2>3, <2>4, RequestShape, JobShape
      DEF Serves, Starts, Sets, Works, Ends, SamePolicy
  <1>2. CASE Freeze
    BY <1>2 DEF Freeze, policyVars, threadVars, JobsStarted, Spent
  <1>3. CASE UNCHANGED vars
    BY <1>3 DEF vars, JobsStarted, Spent
  <1>4. QED
    BY <1>1, <1>2, <1>3 DEF Next

(***************************************************************************)
(* threshold_version counts the activations and no job activates twice, so *)
(* that two thresholds never go under one version, however many fits and   *)
(* recalibrations run at the same time.                                    *)
(***************************************************************************)
THEOREM VersionsCountActivations == Spec => []VersionCountsActivations
  <1>1. Init => ActivationInv
    BY FS_EmptySet
    DEF Init, ActivationInv, JobsStarted, NoJob
  <1>2. TypeOK /\ ActivationInv /\ [Next]_vars => ActivationInv'
    BY ActivationStep
  <1>3. ActivationInv => VersionCountsActivations
    BY DEF ActivationInv, VersionCountsActivations
  <1>4. QED
    BY <1>1, <1>2, <1>3, TypeCorrect, PTL DEF Spec

LEMMA TrainedStays ==
  ASSUME TypeOK, JobsStarted, NEW r \in Requests,
         RequestStep(r) \/ JobStep(r) \/ CallFit(r) \/ SetThreshold(r),
         NEW s, Trained(s)
  PROVE  Trained(s)'
  BY SpentStays DEF Trained

\* No fit calibrated a given threshold.
LEMMA GivenFits == \A s : FromOneFit(s, GivenThreshold)
  BY LifecycleAssumption DEF FromOneFit, GivenThreshold

LEMMA ScorersStep ==
  ASSUME TypeOK, JobsStarted, ScorersInv, [Next]_vars
  PROVE  ScorersInv'
  <1> USE DEF ScorersInv
  <1>1. ASSUME NEW r \in Requests, RequestStep(r) \/ JobStep(r) \/ CallFit(r) \/ SetThreshold(r)
        PROVE  ScorersInv'
    <2>1. /\ \A t \in {scorer, Cold, req[r].scorer, job[r].scorer} :
                t \in Requests => Spent(t)' /\ job'[t].kind \in {"none", "fit"}
          /\ \A s \in Requests :
                \A t \in {req[s].scorer, job[s].scorer} :
                   t \in Requests => Spent(t)' /\ job'[t].kind \in {"none", "fit"}
      <3>1. Cold \notin Requests
        BY LifecycleAssumption
      <3>2. QED BY <1>1, <3>1, SpentStays DEF Trained
    <2>2. Own(r)
      BY <1>1, RequestShape, JobShape
    <2>3. Trained(scorer)'
      <3>1. CASE UNCHANGED scorer
        BY <2>1, <3>1 DEF Trained
      <3>2. CASE Activates(r)
        <4>1. CASE SwapPolicy(scorer, RecalThreshold(r))
          BY <2>1, <4>1 DEF SwapPolicy, Trained
        <4>2. CASE scorer' = r /\ job'[r].kind \in {"none", "fit"}
          <5>1. Spent(r)'
            BY <3>2 DEF Activates, JobsStarted, Spent
          <5>2. QED BY <4>2, <5>1 DEF Trained
        <4>3. QED BY <3>2, <4>1, <4>2 DEF Activates, SwapPolicy
      <3>3. QED
        BY <1>1, <3>1, <3>2, RequestShape, JobShape
        DEF Serves, Starts, Sets, Works, Ends, SamePolicy
    <2>4. \A s \in Requests : (Trained(req[s].scorer) /\ Trained(job[s].scorer))'
      <3> SUFFICES ASSUME NEW s \in Requests
                   PROVE  (Trained(req[s].scorer) /\ Trained(job[s].scorer))'
        OBVIOUS
      <3>1. CASE s # r
        BY <2>1, <2>2, <3>1 DEF Own, Trained
      <3>2. CASE s = r
        <4>1. /\ req'[r].scorer \in {Cold, scorer, req[r].scorer}
              /\ job'[r].scorer \in {Cold, scorer, job[r].scorer}
          BY <1>1, RequestShape, JobShape
          DEF Serves, Starts, Sets, Works, Ends, Activates, NoJob
        <4>2. QED BY <2>1, <3>2, <4>1 DEF Trained
      <3>3. QED BY <3>1, <3>2
    <2>5. FromOneFit(scorer', threshold')
      <3>1. CASE SamePolicy
        BY <3>1 DEF SamePolicy, PairsFromOneFit
      <3>2. CASE Activates(r)
        <4>1. CASE SwapPolicy(scorer, RecalThreshold(r))
          <5>1. job[r].scorer # r
            BY <3>2 DEF Activates, Trained, Spent
          <5>2. QED BY <4>1, <5>1 DEF SwapPolicy, RecalThreshold, FromOneFit
        <4>2. CASE SwapPolicy(r, FitThreshold(r))
          BY <4>2 DEF SwapPolicy, FitThreshold, FromOneFit
        <4>3. QED BY <3>2, <4>1, <4>2 DEF Activates
      <3>3. CASE Sets(r)
        BY <3>3, GivenFits DEF Sets
      <3>4. QED
        BY <1>1, <3>1, <3>2, <3>3, RequestShape, JobShape
        DEF Serves, Starts, Works, Ends
    <2>6. \A s \in Requests : req'[s].at = "snapped"
                             => FromOneFit(req'[s].scorer, req'[s].threshold)
      <3> SUFFICES ASSUME NEW s \in Requests, req'[s].at = "snapped"
                   PROVE  FromOneFit(req'[s].scorer, req'[s].threshold)
        OBVIOUS
      <3>1. CASE req'[s] = req[s]
        BY <3>1 DEF PairsFromOneFit
      <3>2. CASE s = r /\ Serves(r)
        BY <3>2 DEF Serves, PairsFromOneFit
      <3>3. CASE s = r /\ Starts(r)
        BY <3>3 DEF Starts, Past
      <3>4. CASE s = r /\ Sets(r)
        BY <3>4 DEF Sets, Past
      <3>5. QED
        BY <1>1, <2>2, <3>1, <3>2, <3>3, <3>4, RequestShape, JobShape
        DEF Own, Works, Ends, Activates
    <2>7. QED
      BY <2>3, <2>4, <2>5, <2>6 DEF PairsFromOneFit
  <1>2. CASE Freeze
    BY <1>2
    DEF Freeze, policyVars, threadVars, PairsFromOneFit, FromOneFit, Trained, Spent
  <1>3. CASE UNCHANGED vars
    BY <1>3 DEF vars, PairsFromOneFit, FromOneFit, Trained, Spent
  <1>4. QED
    BY <1>1, <1>2, <1>3 DEF Next

(***************************************************************************)
(* A threshold calibrated by a fit is only ever live, or handed to a       *)
(* request under the lock, together with the scorer of that fit.           *)
(***************************************************************************)
THEOREM PairsStayFromOneFit == Spec => []PairsFromOneFit
  <1>1. Init => ActivationInv /\ ScorersInv
    <2>1. Init => ActivationInv
      BY FS_EmptySet DEF Init, ActivationInv, JobsStarted, NoJob
    <2>2. Init => FromOneFit(scorer, threshold)
      BY GivenFits DEF Init, Givens, FromOneFit
    <2>3. QED
      BY <2>1, <2>2, LifecycleAssumption
      DEF Init, NoJob, ScorersInv, Trained, NewRequest, PairsFromOneFit
  <1>2. TypeOK /\ ActivationInv /\ ScorersInv /\ [Next]_vars
        => ActivationInv' /\ ScorersInv'
    BY ActivationStep, ScorersStep DEF ActivationInv
  <1>3. ScorersInv => PairsFromOneFit
    BY DEF ScorersInv
  <1>4. QED
    BY <1>1, <1>2, <1>3, TypeCorrect, PTL DEF Spec

(***************************************************************************)
(* Nothing serves that a gate did not let pass, unless it was given.       *)
(***************************************************************************)
LEMMA GivenServes == GivenThreshold \in Servable /\ GivenThreshold # NoThreshold
  BY GivenType, NoThresholdAssumption DEF Servable

\* The strengthening of RejectedNeverServes: what a job is about to publish
\* may serve.
PublishesServable ==
    \A r \in Requests : job[r].phase = "publishing" => job[r].threshold \in Servable

\* The part of RejectedNeverServes about request r.
RequestServes(r) ==
    /\ req[r].threshold \in Servable
    /\ req[r].at = "scored" /\ req[r].status = "HIT"
         => req[r].threshold # NoThreshold

LEMMA ServeByParts ==
  RejectedNeverServes <=> /\ threshold \in Servable /\ provider \in Servable
                         /\ \A r \in Requests : RequestServes(r)
  BY DEF RejectedNeverServes, RequestServes

LEMMA RequestServeStep ==
  ASSUME TypeOK, RejectedNeverServes, PublishesServable,
         NEW r \in Requests, RequestStep(r) \/ CallFit(r)
  PROVE  RejectedNeverServes' /\ PublishesServable'
  <1> USE DEF policyVars, threadVars
  <1>0. /\ req \in [Requests -> RequestType] /\ req[r] \in RequestType
        /\ job \in [Requests -> JobType]
    BY DEF TypeOK
  <1>1. UNCHANGED <<threshold, provider, activated>>
    BY DEF RequestStep, Snapshot, ScoreRequest, CollectFeedback, RecordFeedback,
           ReadRefitRows, DecideRefit, ExecuteNoop, ExecuteRecalibrate,
           ExecuteRefit, ReadPolicyScorer, ReadPolicyThreshold, CallFit
  <1>a. Servable' = Servable
    BY <1>1 DEF Servable
  <1>2. \A s \in Requests \ {r} : req'[s] = req[s] /\ job'[s] = job[s]
    BY RequestShape DEF Own, SetThreshold
  <1>3. {threshold, provider, req[r].threshold, NoThreshold} \subseteq Servable
    BY DEF RejectedNeverServes, Servable
  <1>4. RequestServes(r)'
    <2>1. CASE Snapshot(r)
      BY <1>0, <1>a, <1>3, <2>1 DEF Snapshot, RequestServes, RequestType
    <2>2. CASE ScoreRequest(r)
      <3>1. PICK tau \in ServingThresholds(r) : \E status \in OutcomesWith(r, tau) :
              req' = [req EXCEPT ![r].at = "scored", ![r].threshold = tau,
                                 ![r].status = status, ![r].scorer = Cold,
                                 ![r].disabled = FALSE]
        BY <2>2 DEF ScoreRequest
      <3>2. PICK status \in OutcomesWith(r, tau) :
              req' = [req EXCEPT ![r].at = "scored", ![r].threshold = tau,
                                 ![r].status = status, ![r].scorer = Cold,
                                 ![r].disabled = FALSE]
        BY <3>1
      <3>3. req'[r].threshold = tau /\ req'[r].status = status
        BY <1>0, <3>2 DEF RequestType
      <3>4. tau \in Servable
        BY <1>3 DEF ServingThresholds
      <3>5. status = "HIT" => tau # NoThreshold
        BY DEF OutcomesWith
      <3>6. QED
        BY <1>a, <3>3, <3>4, <3>5 DEF RequestServes
    <2>3. CASE CollectFeedback(r)
      BY <1>0, <1>a, <1>3, <2>3 DEF CollectFeedback, RequestServes, RequestType
    <2>4. CASE RecordFeedback(r)
      BY <1>0, <1>a, <1>3, <2>4 DEF RecordFeedback, RequestServes, RequestType
    <2>5. ASSUME Executed(r) PROVE RequestServes(r)'
      BY <1>0, <1>a, <1>3, <2>5 DEF Executed, NewRequest, RequestServes
    <2>6. CASE ReadRefitRows(r)
      BY <1>0, <1>a, <1>3, <2>5, <2>6 DEF ReadRefitRows, RequestServes, RequestType
    <2>7. CASE DecideRefit(r)
      BY <1>0, <1>a, <1>3, <2>5, <2>7 DEF DecideRefit, RequestServes, RequestType
    <2>8. CASE ExecuteNoop(r) \/ ExecuteRecalibrate(r) \/ ExecuteRefit(r)
      BY <2>5, <2>8 DEF ExecuteNoop, ExecuteRecalibrate, ExecuteRefit
    <2>9. CASE ReadPolicyScorer(r)
      BY <1>0, <1>a, <1>3, <2>9 DEF ReadPolicyScorer, RequestServes, RequestType
    <2>10. CASE ReadPolicyThreshold(r)
      BY <1>0, <1>a, <1>3, <2>10 DEF ReadPolicyThreshold, RequestServes, RequestType
    <2>11. CASE CallFit(r)
      BY <1>0, <1>a, <1>3, <2>11 DEF CallFit, RequestServes, RequestType
    <2>12. QED
      BY <2>1, <2>2, <2>3, <2>4, <2>6, <2>7, <2>8, <2>9, <2>10, <2>11 DEF RequestStep
  <1>5. \A s \in Requests : RequestServes(s)'
    <2>1. ASSUME NEW s \in Requests \ {r} PROVE RequestServes(s)'
      BY <1>a, <1>2, <2>1, ServeByParts DEF RequestServes
    <2>2. QED BY <1>4, <2>1
  <1>6. RejectedNeverServes'
    BY <1>1, <1>a, <1>3, <1>5 DEF RejectedNeverServes, RequestServes
  <1>7. job'[r].phase = "publishing" => job'[r] = job[r]
    <2>1. CASE ExecuteRecalibrate(r)
      BY <1>0, <2>1 DEF ExecuteRecalibrate, JobType
    <2>2. ASSUME StartFit(r) PROVE job'[r].phase = "publishing" => job'[r] = job[r]
      BY <1>0, <2>2 DEF StartFit, JobType
    <2>3. CASE ExecuteRefit(r) \/ CallFit(r)
      BY <2>2, <2>3 DEF ExecuteRefit, CallFit
    <2>4. QED
      BY <2>1, <2>3
      DEF RequestStep, Snapshot, ScoreRequest, CollectFeedback, RecordFeedback,
          ReadRefitRows, DecideRefit, ExecuteNoop, ReadPolicyScorer,
          ReadPolicyThreshold
  <1>8. PublishesServable'
    BY <1>a, <1>2, <1>7 DEF PublishesServable
  <1>9. QED
    BY <1>6, <1>8

LEMMA SetServeStep ==
  ASSUME TypeOK, RejectedNeverServes, PublishesServable,
         NEW r \in Requests, SetThreshold(r)
  PROVE  RejectedNeverServes' /\ PublishesServable'
  <1>1. Servable' = Servable
    BY DEF SetThreshold, Servable
  <1>2. \A s \in Requests :
           /\ req'[s].threshold = req[s].threshold
           /\ req'[s].at = "scored" => req[s].at = "scored"
           /\ req'[s].status = req[s].status
    BY DEF SetThreshold, TypeOK, RequestType
  <1>3. RejectedNeverServes'
    BY <1>1, <1>2, GivenServes DEF SetThreshold, RejectedNeverServes
  <1>4. \A s \in Requests : \/ job'[s] = job[s]
                           \/ job'[s].threshold = GivenThreshold
    BY DEF SetThreshold, TypeOK
  <1>5. PublishesServable'
    BY <1>1, <1>4, GivenServes DEF PublishesServable
  <1>6. QED
    BY <1>3, <1>5

LEMMA JobServeStep ==
  ASSUME TypeOK, RejectedNeverServes, PublishesServable, NEW r \in Requests,
         JobStep(r)
  PROVE  RejectedNeverServes' /\ PublishesServable'
  <1> USE DEF policyVars, threadVars
  <1>0. job \in [Requests -> JobType] /\ job[r] \in JobType
    BY DEF TypeOK
  <1>1. req' = req
    BY DEF JobStep, StartThread, ActivateFit, RejectFit, ReadScorer,
           ActivateRecalibration, RejectRecalibration, JobRaises,
           PublishThreshold
  <1>2. ASSUME NEW s, NEW tau, SwapPolicy(s, tau), ToPublish(r, tau),
               provider' = provider
        PROVE  RejectedNeverServes' /\ PublishesServable'
    <2>1. /\ Servable' = Servable \cup {tau}
          /\ threshold' = tau
      BY <1>2 DEF SwapPolicy, Servable
    <2>2. RejectedNeverServes'
      BY <1>1, <1>2, <2>1 DEF RejectedNeverServes
    <2>3. PublishesServable'
      BY <1>0, <1>2, <2>1 DEF PublishesServable, ToPublish, NoJob, JobType
    <2>4. QED BY <2>2, <2>3
  <1>3. ASSUME UNCHANGED <<threshold, activated>>,
               provider' \in {provider, job[r].threshold},
               provider' # provider => job[r].phase = "publishing",
               \A s \in Requests : job'[s].phase = "publishing" => job'[s] = job[s]
        PROVE  RejectedNeverServes' /\ PublishesServable'
    <2>0. Servable' = Servable
      BY <1>3 DEF Servable
    <2>1. provider' \in Servable
      BY <1>3 DEF PublishesServable, RejectedNeverServes
    <2>2. RejectedNeverServes'
      BY <1>1, <1>3, <2>0, <2>1 DEF RejectedNeverServes
    <2>3. PublishesServable'
      BY <1>3, <2>0 DEF PublishesServable
    <2>4. QED BY <2>2, <2>3
  <1>4. CASE StartThread(r)
    BY <1>0, <1>3, <1>4 DEF StartThread, JobType
  <1>5. CASE ActivateFit(r)
    BY <1>2, <1>5 DEF ActivateFit
  <1>6. CASE RejectFit(r)
    BY <1>0, <1>3, <1>6 DEF RejectFit, NoJob
  <1>7. CASE ReadScorer(r)
    BY <1>0, <1>3, <1>7 DEF ReadScorer, JobType
  <1>8. CASE ActivateRecalibration(r)
    BY <1>2, <1>8 DEF ActivateRecalibration
  <1>9. CASE RejectRecalibration(r)
    BY <1>0, <1>3, <1>9 DEF RejectRecalibration, NoJob
  <1>10. CASE JobRaises(r)
    BY <1>0, <1>3, <1>10 DEF JobRaises, NoJob
  <1>11. CASE PublishThreshold(r)
    BY <1>0, <1>3, <1>11 DEF PublishThreshold, NoJob
  <1>12. QED
    BY <1>4, <1>5, <1>6, <1>7, <1>8, <1>9, <1>10, <1>11 DEF JobStep

(***************************************************************************)
(* Every threshold that serves, live, in the provider or in a request's    *)
(* hands, was given from outside or passed an activation gate, whatever    *)
(* the fits and recalibrations that were rejected; and a HIT needs one.    *)
(***************************************************************************)
THEOREM RejectedNeverServe == Spec => []RejectedNeverServes
  <1>1. Init => RejectedNeverServes /\ PublishesServable
    BY GivenServes
    DEF Init, Givens, RejectedNeverServes, Servable, PublishesServable,
        NewRequest, NoJob
  <1>2. TypeOK /\ RejectedNeverServes /\ PublishesServable /\ [Next]_vars
        => RejectedNeverServes' /\ PublishesServable'
    <2> SUFFICES ASSUME TypeOK, RejectedNeverServes, PublishesServable, [Next]_vars
                 PROVE  RejectedNeverServes' /\ PublishesServable'
      OBVIOUS
    <2>1. CASE Freeze \/ UNCHANGED vars
      BY <2>1 DEF Freeze, vars, policyVars, RejectedNeverServes, PublishesServable, Servable
    <2>2. QED
      BY <2>1, RequestServeStep, SetServeStep, JobServeStep DEF Next
  <1>3. QED
    BY <1>1, <1>2, TypeCorrect, PTL DEF Spec

(***************************************************************************)
(* The thresholds                                                          *)
(***************************************************************************)

\* A nonempty finite set of integers has a least and a greatest one.
LEMMA LeastExists ==
  ASSUME NEW S, S \subseteq Int, IsFiniteSet(S), S # {}
  PROVE  \E s \in S : \A r \in S : s <= r
  <1> DEFINE R == StrictSubsetOrdering(S)
             UpTo(s) == {r \in S : r <= s}
             Parts == {UpTo(s) : s \in S}
  <1>1. IsWellFoundedOn(R, FiniteSubsetsOf(S))
    BY FS_StrictSubsetOrderingWellFounded
  <1>2. Parts \subseteq FiniteSubsetsOf(S)
    <2> SUFFICES ASSUME NEW s \in S PROVE UpTo(s) \in FiniteSubsetsOf(S)
      OBVIOUS
    <2>1. UpTo(s) \in SUBSET S /\ IsFiniteSet(UpTo(s))
      BY FS_Subset
    <2> QED BY <2>1 DEF FiniteSubsetsOf
  <1>3. Parts # {}
    OBVIOUS
  <1>4. PICK x \in Parts : \A y \in Parts : ~ (<<y, x>> \in R)
    <2> HIDE DEF R, Parts
    <2> QED BY <1>1, <1>2, <1>3, WFMin
  <1>5. PICK s \in S : x = UpTo(s)
    OBVIOUS
  <1>6. ASSUME NEW r \in S, ~(s <= r) PROVE FALSE
    <2>1. s \in Int /\ r \in Int /\ r < s
      BY <1>6
    <2>2. UpTo(r) \subseteq UpTo(s) /\ s \in UpTo(s) /\ s \notin UpTo(r)
      <3>1. \A q \in S : q \in Int /\ (q <= r => q <= s)
        BY <2>1
      <3>2. s <= s /\ ~(s <= r)
        BY <2>1
      <3> QED BY <3>1, <3>2
    <2>3. UpTo(r) \in SUBSET S /\ UpTo(s) \in SUBSET S /\ UpTo(r) # UpTo(s)
      BY <2>2
    <2>4. <<UpTo(r), x>> \in R
      BY <1>5, <2>2, <2>3 DEF StrictSubsetOrdering
    <2> QED BY <1>4, <2>4
  <1> QED BY <1>6

LEMMA GreatestExists ==
  ASSUME NEW S, S \subseteq Int, IsFiniteSet(S), S # {}
  PROVE  \E s \in S : \A r \in S : r <= s
  <1> DEFINE negated == [s \in S |-> -s]
             N == {-s : s \in S}
  <1>1. negated \in Surjection(S, N)
    BY DEF Surjection
  <1>2. IsFiniteSet(N)
    <2> HIDE DEF negated, N
    <2> QED BY <1>1, FS_Surjection
  <1>3. N \subseteq Int /\ N # {}
    OBVIOUS
  <1>4. PICK n \in N : \A m \in N : n <= m
    <2> HIDE DEF N
    <2> QED BY <1>2, <1>3, LeastExists
  <1>5. PICK s \in S : n = -s
    OBVIOUS
  <1>6. ASSUME NEW r \in S PROVE r <= s
    <2>1. -s <= -r /\ s \in Int /\ r \in Int
      BY <1>4, <1>5
    <2> QED BY <2>1
  <1> QED BY <1>6

\* A score is one of the integers below Infinity.
LEMMA ScoresBounded == /\ Scores \subseteq Int /\ Infinity \in Int
                       /\ \A s \in Scores : s < Infinity
  BY AdaptiveAssumption

\* The scores that a threshold accepts, counted.
LEMMA AcceptedCounts ==
  ASSUME NEW scores \in Seq(Scores), NEW tie, NEW tau
  PROVE  /\ Accepted(tie, scores, tau) \subseteq 1..Len(scores)
         /\ IsFiniteSet(Accepted(tie, scores, tau))
         /\ AcceptCount(tie, scores, tau) \in Nat
         /\ AcceptCount(tie, scores, tau) <= Len(scores)
         /\ AcceptCount(tie, scores, tau) = Cardinality(Accepted(tie, scores, tau))
  <1>1. DOMAIN scores = 1..Len(scores) /\ Len(scores) \in Nat
    OBVIOUS
  <1>2. Accepted(tie, scores, tau) \in SUBSET (1..Len(scores))
    BY <1>1 DEF Accepted
  <1>3. IsFiniteSet(1..Len(scores)) /\ Cardinality(1..Len(scores)) = Len(scores)
    BY <1>1, FS_Interval
  <1>4. IsFiniteSet(Accepted(tie, scores, tau))
        /\ Cardinality(Accepted(tie, scores, tau)) <= Len(scores)
    BY <1>2, <1>3, FS_Subset
  <1> QED BY <1>2, <1>4, FS_CardinalityType DEF AcceptCount

\* Who accepts more counts more, and strictly more if one of the scores is new.
LEMMA AcceptedMore ==
  ASSUME NEW scores \in Seq(Scores), NEW tie, NEW tau, NEW tie2, NEW tau2,
         Accepted(tie, scores, tau) \subseteq Accepted(tie2, scores, tau2)
  PROVE  /\ AcceptCount(tie, scores, tau) <= AcceptCount(tie2, scores, tau2)
         /\ \A i \in Accepted(tie2, scores, tau2) :
               i \notin Accepted(tie, scores, tau) =>
                 AcceptCount(tie, scores, tau) < AcceptCount(tie2, scores, tau2)
  <1> DEFINE A == Accepted(tie, scores, tau)
             B == Accepted(tie2, scores, tau2)
  <1>1. /\ AcceptCount(tie, scores, tau) = Cardinality(A) /\ Cardinality(A) \in Nat
        /\ AcceptCount(tie2, scores, tau2) = Cardinality(B) /\ Cardinality(B) \in Nat
        /\ IsFiniteSet(B)
    BY AcceptedCounts
  <1>2. /\ Cardinality(A) <= Cardinality(B)
        /\ Cardinality(A) = Cardinality(B) => A = B
    <2>1. A \in SUBSET B
      OBVIOUS
    <2> HIDE DEF A, B
    <2>2. Cardinality(A) <= Cardinality(B) /\ (Cardinality(B) = Cardinality(A) => B = A)
      BY <1>1, <2>1, FS_Subset
    <2> QED BY <2>2
  <1> HIDE DEF A, B
  <1>3. ASSUME NEW i \in B, i \notin A PROVE Cardinality(A) < Cardinality(B)
    <2>1. Cardinality(A) # Cardinality(B)
      BY <1>2, <1>3
    <2> QED BY <1>1, <1>2, <2>1
  <1> QED BY <1>1, <1>2, <1>3 DEF A, B

LEMMA ValuesFinite ==
  ASSUME NEW scores \in Seq(Scores)
  PROVE  /\ IsFiniteSet(Values(scores)) /\ Values(scores) \subseteq Int
         /\ Values(scores) \subseteq Scores
         /\ scores # <<>> => Values(scores) # {}
  <1> DEFINE f == [i \in DOMAIN scores |-> scores[i]]
  <1>1. f \in Surjection(DOMAIN scores, Values(scores))
    BY DEF Surjection, Values
  <1>2. DOMAIN scores = 1..Len(scores) /\ Len(scores) \in Nat
    OBVIOUS
  <1>3. IsFiniteSet(DOMAIN scores)
    BY <1>2, FS_Interval
  <1>4. IsFiniteSet(Values(scores))
    <2> HIDE DEF f
    <2> QED BY <1>1, <1>3, FS_Surjection
  <1>5. scores # <<>> => 1 \in DOMAIN scores
    BY <1>2
  <1>6. \A i \in DOMAIN scores : scores[i] \in Scores
    OBVIOUS
  <1> QED BY <1>4, <1>5, <1>6, ScoresBounded DEF Values

\* There is a k-th largest score: as many as k are at least as large, and fewer
\* are larger.
LEMMA KthLargestIs ==
  ASSUME NEW scores \in Seq(Scores), NEW k \in 1..Len(scores)
  PROVE  /\ KthLargest(scores, k) \in Values(scores)
         /\ AcceptCount("GE", scores, KthLargest(scores, k)) >= k
         /\ AcceptCount("GT", scores, KthLargest(scores, k)) < k
  <1> DEFINE Enough == {v \in Values(scores) : AcceptCount("GE", scores, v) >= k}
  <1>1. /\ Values(scores) \subseteq Int /\ IsFiniteSet(Values(scores)) /\ Values(scores) # {}
        /\ k \in Nat /\ 1 <= k /\ k <= Len(scores) /\ Len(scores) \in Nat
    <2>1. scores # <<>>
      OBVIOUS
    <2> QED BY <2>1, ValuesFinite
  <1>2. \A i \in DOMAIN scores : scores[i] \in Values(scores)
    BY DEF Values
  <1>3. DOMAIN scores = 1..Len(scores)
    OBVIOUS
  <1>4. Enough # {}
    <2>1. PICK low \in Values(scores) : \A v \in Values(scores) : low <= v
      BY <1>1, LeastExists
    <2>2. Accepted("GE", scores, low) = 1..Len(scores)
      <3>1. \A i \in DOMAIN scores : scores[i] >= low
        BY <1>1, <1>2, <2>1
      <3> QED BY <1>3, <3>1 DEF Accepted, Accepts
    <2>3. AcceptCount("GE", scores, low) = Len(scores)
      <3>1. Cardinality(1..Len(scores)) = Len(scores)
        BY <1>1, FS_Interval
      <3> QED BY <2>2, <3>1 DEF AcceptCount
    <2>4. AcceptCount("GE", scores, low) >= k
      BY <1>1, <2>3
    <2>5. low \in Enough
      BY <2>4
    <2> QED BY <2>5
  <1>5. PICK v \in Enough : \A w \in Enough : w <= v
    <2>1. Enough \in SUBSET Values(scores)
      OBVIOUS
    <2>2. Enough \subseteq Int /\ IsFiniteSet(Enough)
      BY <1>1, <2>1, FS_Subset
    <2> HIDE DEF Enough
    <2> QED BY <1>4, <2>2, GreatestExists
  <1>6. v \in Values(scores) /\ AcceptCount("GE", scores, v) >= k /\ v \in Int
    BY <1>1
  <1>7. AcceptCount("GT", scores, v) < k
    <2> DEFINE Above == {w \in Values(scores) : w > v}
    <2>1. CASE Above = {}
      <3>1. Accepted("GT", scores, v) = {}
        BY <1>2, <2>1 DEF Accepted, Accepts
      <3>2. AcceptCount("GT", scores, v) = 0
        BY <3>1, FS_EmptySet DEF AcceptCount
      <3> QED BY <1>1, <3>2
    <2>2. CASE Above # {}
      <3>1. Above \in SUBSET Values(scores)
        OBVIOUS
      <3>2. Above \subseteq Int /\ IsFiniteSet(Above)
        BY <1>1, <3>1, FS_Subset
      <3>3. PICK u \in Above : \A w \in Above : u <= w
        <4> HIDE DEF Above
        <4> QED BY <2>2, <3>2, LeastExists
      <3>4. u \in Values(scores) /\ u \in Int /\ u > v
        BY <1>1
      <3>5. \A w \in Values(scores) : w > v <=> w >= u
        BY <1>1, <1>6, <3>3, <3>4
      <3>6. Accepted("GT", scores, v) = Accepted("GE", scores, u)
        BY <1>2, <3>5 DEF Accepted, Accepts
      <3>7. u \notin Enough
        BY <1>5, <1>6, <3>4
      <3>8. ~(AcceptCount("GE", scores, u) >= k)
        BY <3>4, <3>7
      <3>9. AcceptCount("GE", scores, u) \in Nat
        BY AcceptedCounts
      <3> QED BY <1>1, <3>6, <3>8, <3>9 DEF AcceptCount
    <2> QED BY <2>1, <2>2
  <1> HIDE DEF Enough
  <1> QED BY <1>6, <1>7 DEF KthLargest

\* a is at most p \div d exactly when d * a is at most p.
LEMMA Shares ==
  ASSUME NEW d \in Nat \ {0}, NEW p \in Nat
  PROVE  /\ p \div d \in Nat
         /\ \A a \in Nat : d * a <= p <=> a <= p \div d
  <1> DEFINE q == p \div d
             r == p % d
  <1>1. q \in Nat /\ r \in Nat /\ r < d /\ p = d * q + r
    OBVIOUS
  <1> HIDE DEF q, r
  <1>2. ASSUME NEW a \in Nat, a <= q PROVE d * a <= p
    <2>1. q - a \in Nat /\ d * (q - a) \in Nat
      BY <1>1, <1>2
    <2>2. d * q = d * a + d * (q - a)
      BY <1>1
    <2> QED BY <1>1, <2>1, <2>2
  <1>3. ASSUME NEW a \in Nat, ~(a <= q) PROVE ~(d * a <= p)
    <2>1. a - q - 1 \in Nat /\ d * (a - q - 1) \in Nat
      BY <1>1, <1>3
    <2>2. d * a = d * q + d + d * (a - q - 1)
      BY <1>1
    <2> QED BY <1>1, <2>1, <2>2
  <1> QED BY <1>1, <1>2, <1>3 DEF q

LEMMA AllowedIs ==
  ASSUME NEW rate \in Nat, rate < Unit, NEW n \in Nat \ {0}
  PROVE  /\ Allowed(rate, n) \in Nat /\ Allowed(rate, n) < n
         /\ \A a \in Nat : Unit * a <= rate * n <=> a <= Allowed(rate, n)
  <1>1. Unit \in Nat \ {0} /\ rate * n \in Nat
    BY AdaptiveAssumption
  <1>2. /\ Allowed(rate, n) \in Nat
        /\ \A a \in Nat : Unit * a <= rate * n <=> a <= Allowed(rate, n)
    BY <1>1, Shares DEF Allowed
  <1>3. ~(Unit * n <= rate * n)
    <2>1. (Unit - rate) - 1 \in Nat /\ ((Unit - rate) - 1) * n \in Nat
      BY <1>1
    <2>2. Unit * n = rate * n + n + ((Unit - rate) - 1) * n
      BY <1>1
    <2> QED BY <1>1, <2>1, <2>2
  <1> QED BY <1>2, <1>3

\* What scores_to_threshold chooses from.
Within(tie, scores, rate) ==
  {v \in Values(scores) : Unit * AcceptCount(tie, scores, v) <= rate * Len(scores)}

LEMMA WithinIs ==
  ASSUME NEW tie, NEW scores \in Seq(Scores), scores # <<>>, NEW rate \in Nat, rate < Unit
  PROVE  /\ Within(tie, scores, rate) =
              {v \in Values(scores) : AcceptCount(tie, scores, v) <= Allowed(rate, Len(scores))}
         /\ Within(tie, scores, rate) = {} => ScoresToThreshold(tie, scores, rate) = Infinity
         /\ \A u \in Within(tie, scores, rate) :
               (\A v \in Within(tie, scores, rate) : u <= v) =>
                  ScoresToThreshold(tie, scores, rate) = u
  <1>1. Len(scores) \in Nat \ {0}
    OBVIOUS
  <1>2. \A v \in Values(scores) : AcceptCount(tie, scores, v) \in Nat
    BY AcceptedCounts
  <1>3. \A a \in Nat : Unit * a <= rate * Len(scores) <=> a <= Allowed(rate, Len(scores))
    BY <1>1, AllowedIs
  <1>4. Within(tie, scores, rate) =
          {v \in Values(scores) : AcceptCount(tie, scores, v) <= Allowed(rate, Len(scores))}
    BY <1>2, <1>3 DEF Within
  <1>5. Within(tie, scores, rate) \subseteq Int
    BY <1>4, ValuesFinite
  <1>6. ScoresToThreshold(tie, scores, rate) =
          IF Within(tie, scores, rate) = {} THEN Infinity
          ELSE CHOOSE v \in Within(tie, scores, rate) :
                  \A w \in Within(tie, scores, rate) : v <= w
    BY DEF ScoresToThreshold, Within
  <1> DEFINE W == Within(tie, scores, rate)
  <1> HIDE DEF W
  <1>7. ASSUME NEW u \in W, \A v \in W : u <= v
        PROVE  (CHOOSE v \in W : \A w \in W : v <= w) = u
    <2> DEFINE c == CHOOSE v \in W : \A w \in W : v <= w
    <2>1. c \in W /\ \A w \in W : c <= w
      BY <1>7
    <2>2. c <= u /\ u <= c /\ c \in Int /\ u \in Int
      BY <1>5, <1>7, <2>1 DEF W
    <2> QED BY <2>2
  <1> QED BY <1>4, <1>6, <1>7 DEF W

\* The threshold of the controller and of the batch calibration accepts no more
\* H0 scores than the rate allows, and those that the pair-level rule accepts.
LEMMA ThresholdsMeet ==
  ASSUME NEW tie \in Ties, NEW scores \in Seq(Scores), NEW rate \in Nat, rate < Unit
  PROVE  LET online == Accepted(tie, scores, SelectedThreshold(tie, scores, rate))
         IN  /\ Cardinality(online) <= Allowed(rate, Len(scores))
             /\ online = Accepted(tie, scores, ScoresToThreshold(tie, scores, rate))
             /\ SelectedThreshold(tie, scores, rate) \in Int
  <1> DEFINE n == Len(scores)
             allowed == Allowed(rate, n)
             k == IF allowed = 0 THEN 1 ELSE allowed
             b == KthLargest(scores, k)
             fits == AcceptCount("GE", scores, b) <= allowed
             tau == SelectedThreshold(tie, scores, rate)
             other == ScoresToThreshold(tie, scores, rate)
             W == Within(tie, scores, rate)
             Count(how, v) == AcceptCount(how, scores, v)
  <1>1. /\ Values(scores) \subseteq Int /\ IsFiniteSet(Values(scores))
        /\ \A v \in Values(scores) : v < Infinity
        /\ Infinity \in Int
    BY ValuesFinite, ScoresBounded
  <1>2. \A i \in DOMAIN scores : scores[i] \in Values(scores)
    BY DEF Values
  <1>3. \A v \in Values(scores) : \E i \in DOMAIN scores : scores[i] = v
    BY DEF Values
  <1>4. CASE scores = <<>>
    <2>1. tau = Infinity
      BY <1>4 DEF SelectedThreshold
    <2>2. Accepted(tie, scores, tau) = {} /\ Accepted(tie, scores, other) = {}
      BY <1>4 DEF Accepted
    <2>3. Allowed(rate, Len(scores)) = 0
      <3>1. Unit \in Nat \ {0} /\ 0 \in Nat /\ rate * Len(scores) = 0
        BY <1>4, AdaptiveAssumption
      <3>2. Unit * 1 <= 0 <=> 1 <= 0 \div Unit
        BY <3>1, Shares
      <3>3. 0 \div Unit \in Nat
        BY <3>1, Shares
      <3> QED BY <3>1, <3>2, <3>3 DEF Allowed
    <2> QED BY <1>1, <2>1, <2>2, <2>3, FS_EmptySet
  <1>5. CASE scores # <<>>
    <2>1. n \in Nat \ {0} /\ DOMAIN scores = 1..n
      BY <1>5
    <2>2. allowed \in Nat /\ allowed < n
      BY <2>1, AllowedIs
    <2>3. k \in 1..n /\ k \in Nat /\ 1 <= k
      BY <2>1, <2>2
    <2>4. b \in Values(scores) /\ Count("GE", b) >= k /\ Count("GT", b) < k
      <3> HIDE DEF k
      <3> QED BY <2>3, KthLargestIs
    <2>5. tau = IF tie = "GE" THEN IF fits THEN b ELSE b + 1
                ELSE IF fits THEN b - 1 ELSE b
      BY <1>5 DEF SelectedThreshold
    <2>6. /\ W = {v \in Values(scores) : Count(tie, v) <= allowed}
          /\ W = {} => other = Infinity
          /\ \A u \in W : (\A v \in W : u <= v) => other = u
      BY <1>5, WithinIs
    <2>7. \A how, v : Count(how, v) \in Nat /\ Cardinality(Accepted(how, scores, v)) = Count(how, v)
      BY AcceptedCounts
    <2>8. b \in Int /\ b < Infinity
      BY <1>1, <2>4
    <2>9. Count("GT", b) <= allowed
      <3>1. Count("GT", b) \in Nat
        BY <2>7
      <3> HIDE DEF Count, b
      <3> QED BY <2>2, <2>3, <2>4, <3>1
    <2>10. fits => allowed # 0 /\ Count("GE", b) = allowed
      <3>1. Count("GE", b) \in Nat
        BY <2>7
      <3>2. fits => Count("GE", b) <= allowed
        OBVIOUS
      <3> HIDE DEF Count, b, fits
      <3> QED BY <2>2, <2>3, <2>4, <3>1, <3>2
    <2>11. ~fits => Count("GE", b) > allowed
      <3>1. Count("GE", b) \in Nat
        BY <2>7
      <3>2. ~fits => ~(Count("GE", b) <= allowed)
        OBVIOUS
      <3> HIDE DEF Count, b, fits
      <3> QED BY <2>2, <3>1, <3>2
    <2> HIDE DEF n, allowed, k, b, fits, tau, other, W
    <2>12. tau \in Int
      BY <2>5, <2>8
    <2>13. CASE tie = "GE" /\ fits
      <3>1. tau = b
        BY <2>5, <2>13
      <3>2. b \in W
        <4>1. Count("GE", b) <= allowed
          BY <2>2, <2>10, <2>13
        <4> QED BY <2>4, <2>6, <2>13, <4>1
      <3>3. \A v \in W : b <= v
        <4> SUFFICES ASSUME NEW v \in W, v < b PROVE FALSE
          BY <1>1, <2>6, <2>8
        <4>1. v \in Values(scores) /\ v \in Int /\ Count("GE", v) <= allowed
          BY <1>1, <2>6, <2>13
        <4>2. PICK i \in DOMAIN scores : scores[i] = v
          BY <1>3, <4>1
        <4>3. Accepted("GE", scores, b) \subseteq Accepted("GE", scores, v)
          BY <1>1, <1>2, <2>8, <4>1 DEF Accepted, Accepts
        <4>4. i \in Accepted("GE", scores, v) /\ i \notin Accepted("GE", scores, b)
          BY <2>8, <4>1, <4>2 DEF Accepted, Accepts
        <4>5. Count("GE", b) < Count("GE", v)
          BY <4>3, <4>4, AcceptedMore
        <4>6. Count("GE", b) \in Nat /\ Count("GE", v) \in Nat
          BY <2>7
        <4> HIDE DEF Count
        <4> QED BY <2>2, <2>10, <2>13, <4>1, <4>5, <4>6
      <3>4. other = b
        BY <2>6, <3>2, <3>3
      <3>5. Count(tie, tau) <= allowed
        BY <2>2, <2>10, <2>13, <3>1
      <3> QED BY <2>7, <2>12, <3>1, <3>4, <3>5 DEF tau, other, allowed, n
    <2>14. CASE tie = "GE" /\ ~fits
      <3>1. tau = b + 1
        BY <2>5, <2>14
      <3>2. Accepted("GE", scores, tau) = Accepted("GT", scores, b)
        BY <1>1, <1>2, <2>8, <3>1 DEF Accepted, Accepts
      <3>3. Count("GE", tau) <= allowed
        BY <2>7, <2>9, <3>2
      <3>4. ASSUME NEW v \in W PROVE v > b
        <4> SUFFICES ASSUME v <= b PROVE FALSE
          BY <1>1, <2>6, <2>8
        <4>1. v \in Int /\ Count("GE", v) <= allowed
          BY <1>1, <2>6, <2>14
        <4>2. Accepted("GE", scores, b) \subseteq Accepted("GE", scores, v)
          BY <1>1, <1>2, <2>8, <4>1 DEF Accepted, Accepts
        <4>3. Count("GE", b) <= Count("GE", v)
          BY <4>2, AcceptedMore
        <4>4. Count("GE", b) \in Nat /\ Count("GE", v) \in Nat
          BY <2>7
        <4> HIDE DEF Count
        <4> QED BY <2>2, <2>11, <2>14, <4>1, <4>3, <4>4
      <3>5. ASSUME NEW v \in Values(scores), v > b PROVE v \in W
        <4>1. v \in Int
          BY <1>1
        <4>2. Accepted("GE", scores, v) \subseteq Accepted("GT", scores, b)
          BY <1>1, <1>2, <2>8, <3>5, <4>1 DEF Accepted, Accepts
        <4>3. Count("GE", v) <= Count("GT", b)
          BY <4>2, AcceptedMore
        <4>4. Count("GT", b) \in Nat /\ Count("GE", v) \in Nat
          BY <2>7
        <4>5. Count("GE", v) <= allowed
          <5> HIDE DEF Count
          <5> QED BY <2>2, <2>9, <4>3, <4>4
        <4> QED BY <2>6, <2>14, <4>5
      <3>6. Accepted("GE", scores, other) = Accepted("GT", scores, b)
        <4>1. CASE W = {}
          <5>1. other = Infinity /\ \A v \in Values(scores) : ~(v > b)
            BY <2>6, <3>5, <4>1
          <5>2. \A v \in Values(scores) : ~(v >= Infinity)
            BY <1>1
          <5> QED BY <1>2, <5>1, <5>2 DEF Accepted, Accepts
        <4>2. CASE W # {}
          <5>1. W \in SUBSET Values(scores)
            BY <2>6
          <5>2. W \subseteq Int /\ IsFiniteSet(W)
            BY <1>1, <5>1, FS_Subset
          <5>3. PICK u \in W : \A v \in W : u <= v
            BY <4>2, <5>2, LeastExists
          <5>4. other = u /\ u > b /\ u \in Int
            BY <2>6, <3>4, <5>2, <5>3
          <5>5. \A v \in Values(scores) : v >= u <=> v > b
            BY <1>1, <2>8, <3>5, <5>3, <5>4
          <5> QED BY <1>2, <5>4, <5>5 DEF Accepted, Accepts
        <4> QED BY <4>1, <4>2
      <3> QED BY <2>7, <2>12, <2>14, <3>2, <3>3, <3>6 DEF tau, other, allowed, n
    <2>15. CASE tie = "GT" /\ fits
      <3>1. tau = b - 1
        BY <2>5, <2>15
      <3>2. Accepted("GT", scores, tau) = Accepted("GE", scores, b)
        BY <1>1, <1>2, <2>8, <3>1 DEF Accepted, Accepts
      <3>3. Count("GT", tau) <= allowed
        BY <2>2, <2>7, <2>10, <2>15, <3>2
      <3> DEFINE Below == {v \in Values(scores) : v < b}
      <3>4. Below # {}
        <4> SUFFICES ASSUME Below = {} PROVE FALSE
          OBVIOUS
        <4>1. \A v \in Values(scores) : v >= b
          BY <1>1, <2>8
        <4>2. Accepted("GE", scores, b) = 1..n
          BY <1>2, <2>1, <4>1 DEF Accepted, Accepts
        <4>3. Count("GE", b) = n
          BY <2>1, <2>7, <4>2, FS_Interval
        <4> HIDE DEF Count
        <4> QED BY <2>1, <2>2, <2>10, <2>15, <4>3
      <3>5. PICK p \in Below : \A v \in Below : v <= p
        <4>1. Below \in SUBSET Values(scores)
          OBVIOUS
        <4>2. Below \subseteq Int /\ IsFiniteSet(Below)
          BY <1>1, <4>1, FS_Subset
        <4> HIDE DEF Below
        <4> QED BY <3>4, <4>2, GreatestExists
      <3>6. p \in Values(scores) /\ p \in Int /\ p < b
        BY <1>1
      <3>7. \A v \in Values(scores) : v > p <=> v >= b
        BY <1>1, <2>8, <3>5, <3>6
      <3>8. Accepted("GT", scores, p) = Accepted("GE", scores, b)
        BY <1>2, <3>7 DEF Accepted, Accepts
      <3>9. p \in W
        <4>1. Count("GT", p) <= allowed
          BY <2>2, <2>7, <2>10, <2>15, <3>8
        <4> QED BY <2>6, <2>15, <3>6, <4>1
      <3>10. \A v \in W : p <= v
        <4> SUFFICES ASSUME NEW v \in W, v < p PROVE FALSE
          BY <1>1, <2>6, <3>6
        <4>1. v \in Values(scores) /\ v \in Int /\ Count("GT", v) <= allowed
          BY <1>1, <2>6, <2>15
        <4>2. PICK i \in DOMAIN scores : scores[i] = p
          BY <1>3, <3>6
        <4>3. Accepted("GT", scores, p) \subseteq Accepted("GT", scores, v)
          BY <1>1, <1>2, <3>6, <4>1 DEF Accepted, Accepts
        <4>4. i \in Accepted("GT", scores, v) /\ i \notin Accepted("GT", scores, p)
          BY <3>6, <4>1, <4>2 DEF Accepted, Accepts
        <4>5. Count("GT", p) < Count("GT", v)
          BY <4>3, <4>4, AcceptedMore
        <4>6. Count("GT", p) = allowed
          BY <2>7, <2>10, <2>15, <3>8
        <4>7. Count("GT", v) \in Nat
          BY <2>7
        <4> HIDE DEF Count
        <4> QED BY <2>2, <4>1, <4>5, <4>6, <4>7
      <3>11. other = p
        BY <2>6, <3>9, <3>10
      <3> HIDE DEF Below
      <3> QED BY <2>7, <2>12, <2>15, <3>2, <3>3, <3>8, <3>11 DEF tau, other, allowed, n
    <2>16. CASE tie = "GT" /\ ~fits
      <3>1. tau = b
        BY <2>5, <2>16
      <3>2. b \in W
        BY <2>4, <2>6, <2>9, <2>16
      <3>3. \A v \in W : b <= v
        <4> SUFFICES ASSUME NEW v \in W, v < b PROVE FALSE
          BY <1>1, <2>6, <2>8
        <4>1. v \in Int /\ Count("GT", v) <= allowed
          BY <1>1, <2>6, <2>16
        <4>2. Accepted("GE", scores, b) \subseteq Accepted("GT", scores, v)
          BY <1>1, <1>2, <2>8, <4>1 DEF Accepted, Accepts
        <4>3. Count("GE", b) <= Count("GT", v)
          BY <4>2, AcceptedMore
        <4>4. Count("GE", b) \in Nat /\ Count("GT", v) \in Nat
          BY <2>7
        <4> HIDE DEF Count
        <4> QED BY <2>2, <2>11, <2>16, <4>1, <4>3, <4>4
      <3>4. other = b
        BY <2>6, <3>2, <3>3
      <3>5. Count(tie, tau) <= allowed
        BY <2>9, <2>16, <3>1
      <3> QED BY <2>7, <2>12, <3>1, <3>4, <3>5 DEF tau, other, allowed, n
    <2> QED BY <2>13, <2>14, <2>15, <2>16 DEF Ties
  <1> QED BY <1>4, <1>5

(***************************************************************************)
(* The controller and its account                                          *)
(***************************************************************************)

Smaller(a, b) == IF a < b THEN a ELSE b
Seen == metrics.control.h0
Aci == config.method = "aci"

\* The newest m elements of a queue, and no others, are x.
NewestAre(queue, x, m) ==
  /\ Len(queue) >= m
  /\ \A i \in 1..Len(queue) : queue[i] = x <=> i > Len(queue) - m

\* The newest scores of the buffer are those that were learned, as many as were
\* seen, or all of it.
NewestLearned == NewestAre(origin, TRUE, Smaller(Seen, BufferSize))

SliceInv ==
  /\ counts.h0_seen = Seen /\ counts.updates = Seen
  /\ counts.blocked + metrics.control.fp <= Seen
  /\ Len(outcomes) = Smaller(Seen, WilsonWindow)
  /\ FalseHits(outcomes) <= metrics.control.fp
  /\ Seen <= WilsonWindow => FalseHits(outcomes) = metrics.control.fp
  /\ NewestLearned

AdaptiveInv ==
  /\ AdaptiveTypeOK
  /\ Aci => SliceInv
  /\ FalseHitsPaidFor

\* What is left of a queue that something was appended to: the newest ones.
LEMMA PushGrows ==
  ASSUME NEW S, NEW queue \in Seq(S), NEW x \in S, NEW size \in Nat \ {0}, Len(queue) < size
  PROVE  Push(queue, x, size) = Append(queue, x)
  <1> DEFINE longer == Append(queue, x)
  <1>1. Len(longer) = Len(queue) + 1 /\ Len(queue) \in Nat
    BY AppendProperties
  <1>2. Push(queue, x, size) = IF Len(longer) > size THEN Tail(longer) ELSE longer
    BY DEF Push
  <1> HIDE DEF longer
  <1>3. Push(queue, x, size) = longer
    BY <1>1, <1>2
  <1> QED BY <1>3 DEF longer

\* A full queue that x was pushed to.
Shifted(queue, x, left) ==
  /\ Len(left) = Len(queue)
  /\ \A i \in 1..(Len(queue) - 1) : left[i] = queue[i + 1]
  /\ left[Len(queue)] = x

LEMMA PushShifts ==
  ASSUME NEW S, NEW queue \in Seq(S), NEW x \in S, NEW size \in Nat \ {0}, Len(queue) = size
  PROVE  /\ Push(queue, x, size) \in Seq(S)
         /\ Shifted(queue, x, Push(queue, x, size))
  <1> DEFINE longer == Append(queue, x)
  <1>1. longer \in Seq(S) /\ longer # <<>> /\ Len(longer) = size + 1
    BY AppendProperties
  <1>2. /\ Tail(longer) \in Seq(S) /\ Len(Tail(longer)) = Len(longer) - 1
        /\ \A i \in 1..Len(Tail(longer)) : Tail(longer)[i] = longer[i + 1]
    <2> HIDE DEF longer
    <2> QED BY <1>1, HeadTailProperties
  <1>3. Push(queue, x, size) = IF Len(longer) > size THEN Tail(longer) ELSE longer
    BY DEF Push
  <1>4. (\A i \in 1..(size - 1) : longer[i + 1] = queue[i + 1]) /\ longer[size + 1] = x
    BY AppendProperties
  <1> HIDE DEF longer
  <1>5. Push(queue, x, size) = Tail(longer)
    BY <1>1, <1>3
  <1> QED BY <1>1, <1>2, <1>4, <1>5 DEF Shifted

LEMMA PushIs ==
  ASSUME NEW S, NEW queue \in Seq(S), NEW x \in S, NEW size \in Nat \ {0}, Len(queue) <= size
  PROVE  /\ Push(queue, x, size) \in Seq(S)
         /\ Len(Push(queue, x, size)) <= size
         /\ Len(Push(queue, x, size)) = Smaller(Len(queue) + 1, size)
  <1>1. Len(queue) \in Nat /\ Append(queue, x) \in Seq(S) /\ Len(Append(queue, x)) = Len(queue) + 1
    BY AppendProperties
  <1>2. CASE Len(queue) < size
    <2>1. Push(queue, x, size) = Append(queue, x)
      BY <1>2, PushGrows
    <2> QED BY <1>1, <1>2, <2>1 DEF Smaller
  <1>3. CASE Len(queue) = size
    <2>1. Push(queue, x, size) \in Seq(S) /\ Shifted(queue, x, Push(queue, x, size))
      BY <1>3, PushShifts
    <2> QED BY <1>1, <1>3, <2>1 DEF Smaller, Shifted
  <1> QED BY <1>1, <1>2, <1>3

\* The ones of a queue, after something was appended to it.
LEMMA FalseHitsPushed ==
  ASSUME NEW S, NEW queue \in Seq(S), NEW x \in S, NEW size \in Nat \ {0}, Len(queue) <= size
  PROVE  /\ FalseHits(queue) \in Nat /\ FalseHits(Push(queue, x, size)) \in Nat
         /\ FalseHits(Push(queue, x, size)) <= FalseHits(queue) + Indicator(x = 1)
         /\ Len(queue) < size => FalseHits(Push(queue, x, size)) = FalseHits(queue) + Indicator(x = 1)
  <1> DEFINE longer == Append(queue, x)
             Ones(q) == {i \in DOMAIN q : q[i] = 1}
             n == Len(queue)
  <1>1. /\ longer \in Seq(S) /\ Len(longer) = n + 1 /\ longer[n + 1] = x
        /\ \A i \in 1..n : longer[i] = queue[i]
        /\ n \in Nat /\ DOMAIN queue = 1..n /\ DOMAIN longer = 1..(n + 1)
    BY AppendProperties
  <1>2. \A q : FalseHits(q) = Cardinality(Ones(q))
    BY DEF FalseHits
  <1>3. \A q \in Seq(S) : IsFiniteSet(Ones(q)) /\ Cardinality(Ones(q)) \in Nat
    <2> SUFFICES ASSUME NEW q \in Seq(S)
                 PROVE  IsFiniteSet(Ones(q)) /\ Cardinality(Ones(q)) \in Nat
      OBVIOUS
    <2>1. Ones(q) \in SUBSET (1..Len(q)) /\ IsFiniteSet(1..Len(q))
      BY FS_Interval
    <2> HIDE DEF Ones
    <2>2. IsFiniteSet(Ones(q))
      BY <2>1, FS_Subset
    <2> QED BY <2>2, FS_CardinalityType
  <1>4. Ones(longer) = Ones(queue) \cup (IF x = 1 THEN {n + 1} ELSE {}) /\ n + 1 \notin Ones(queue)
    BY <1>1
  <1>5. FalseHits(longer) = FalseHits(queue) + Indicator(x = 1)
    <2>1. IsFiniteSet(Ones(queue)) /\ Cardinality(Ones(queue)) \in Nat
      BY <1>3
    <2>2. CASE x = 1
      <3>1. Ones(longer) = Ones(queue) \cup {n + 1}
        BY <1>4, <2>2
      <3> HIDE DEF Ones, longer, n
      <3>2. Cardinality(Ones(queue) \cup {n + 1}) = Cardinality(Ones(queue)) + 1
        BY <1>4, <2>1, FS_AddElement
      <3> QED BY <1>2, <2>2, <3>1, <3>2 DEF Indicator
    <2>3. CASE x # 1
      <3>1. Ones(longer) = Ones(queue)
        BY <1>4, <2>3
      <3> HIDE DEF Ones, longer, n
      <3> QED BY <1>2, <2>1, <2>3, <3>1 DEF Indicator
    <2> QED BY <2>2, <2>3
  <1>6. CASE n < size
    <2>1. Push(queue, x, size) = longer
      BY <1>6, PushGrows
    <2>2. FalseHits(longer) \in Nat /\ FalseHits(queue) \in Nat
      BY <1>1, <1>2, <1>3
    <2> HIDE DEF longer
    <2> QED BY <1>5, <1>6, <2>1, <2>2
  <1>7. CASE n = size
    <2> DEFINE left == Push(queue, x, size)
               shift == [i \in Ones(left) |-> i + 1]
    <2>1. left \in Seq(S) /\ Len(left) = size /\ \A i \in 1..size : left[i] = longer[i + 1]
      <3>1. Len(queue) = size
        BY <1>7
      <3>2. left \in Seq(S) /\ Shifted(queue, x, left)
        BY <3>1, PushShifts
      <3> HIDE DEF left
      <3> QED BY <1>1, <1>7, <3>2 DEF Shifted
    <2> HIDE DEF left
    <2>2. \A i \in Ones(left) : i \in Nat /\ i + 1 \in Ones(longer)
      BY <1>1, <1>7, <2>1
    <2>3. shift \in Injection(Ones(left), Ones(longer))
      <3> HIDE DEF Ones
      <3> QED BY <2>2 DEF Injection, IsInjective
    <2>4. Cardinality(Ones(left)) <= Cardinality(Ones(longer))
      <3>1. IsFiniteSet(Ones(longer))
        BY <1>1, <1>3
      <3> HIDE DEF shift, Ones, longer
      <3> QED BY <2>3, <3>1, FS_Injection
    <2>5. FalseHits(left) \in Nat /\ FalseHits(queue) \in Nat /\ FalseHits(left) <= FalseHits(longer)
      BY <1>2, <1>3, <2>1, <2>4
    <2> QED BY <1>5, <1>7, <2>5 DEF left
  <1> HIDE DEF n, longer, Ones
  <1>8. n < size \/ n = size
    <2>1. n \in Nat /\ n <= size
      BY DEF n
    <2> QED BY <2>1
  <1> QED BY <1>6, <1>7, <1>8

\* What one update does, with the outcome and the gate's verdict as numbers.
LearnedFrom(score, hit, blocked) ==
  LET moved == IF hit = 1 THEN alpha - Down ELSE alpha + Up
  IN  /\ buffer' = Push(buffer, score, BufferSize)
      /\ origin' = Push(origin, TRUE, BufferSize)
      /\ outcomes' = Push(outcomes, hit, WilsonWindow)
      /\ alpha' = Clip(IF blocked = 1 THEN alpha ELSE moved)
      /\ lifted' = (lifted \/ moved < AlphaMin)
      /\ counts' = [h0_seen |-> counts.h0_seen + 1, updates |-> counts.updates + 1,
                    blocked |-> counts.blocked + blocked]

LEMMA UpdateIs ==
  ASSUME AdaptiveTypeOK, NEW score, NEW accepted, Update(score, accepted)
  PROVE  \E hit, blocked \in {0, 1} :
            /\ hit = 1 <=> accepted
            /\ hit = 1 => blocked = 0
            /\ LearnedFrom(score, hit, blocked)
  <1> DEFINE hit == IF accepted THEN 1 ELSE 0
             window == Push(outcomes, hit, WilsonWindow)
             moved == IF accepted THEN alpha - Down ELSE alpha + Up
             blocked == IF Blocks(window, moved) THEN 1 ELSE 0
  <1>1. alpha \in Nat /\ Down \in Nat \ {0}
    BY AdaptiveAssumption DEF AdaptiveTypeOK
  <1>2. accepted => ~Blocks(window, moved)
    BY <1>1 DEF Blocks
  <1>3. LearnedFrom(score, hit, blocked)
    BY DEF Update, LearnedFrom
  <1> QED BY <1>2, <1>3

\* What one query does to the account of the control slice and to the controller.
LEMMA ServeIs ==
  ASSUME AdaptiveTypeOK, Serve
  PROVE  /\ UNCHANGED <<config, calibration, fallback>> /\ metrics' \in MetricsType
         /\ \/ /\ UNCHANGED controller
               /\ Aci => metrics'.control.h0 = Seen /\ metrics'.control.fp = metrics.control.fp
            \/ /\ Aci
               /\ \E score \in Scores, hit, blocked \in {0, 1} :
                     /\ hit = 1 => blocked = 0
                     /\ LearnedFrom(score, hit, blocked)
                     /\ metrics'.control.h0 = Seen + 1
                     /\ metrics'.control.fp = metrics.control.fp + hit
  <1>1. PICK row \in Selections :
           LET tau == CurrentThreshold
               accepted == Accepts(config.tie, row.score, tau)
           IN  \E audit \in Audits(row.score, tau) :
                 /\ Learn(row.score, row.label, accepted, audit.control)
                 /\ Record(row.label, accepted, audit)
                 /\ UNCHANGED <<config, calibration, fallback>>
    BY DEF Serve
  <1> DEFINE accepted == Accepts(config.tie, row.score, CurrentThreshold)
             label == row.label
  <1>2. PICK audit \in Audits(row.score, CurrentThreshold) :
           /\ Learn(row.score, label, accepted, audit.control)
           /\ Record(label, accepted, audit)
           /\ UNCHANGED <<config, calibration, fallback>>
    BY <1>1
  <1> HIDE DEF accepted
  <1>3. audit.control \in BOOLEAN /\ row.score \in Scores
    BY DEF Audits, Selections
  <1>4. metrics \in MetricsType
    BY DEF AdaptiveTypeOK
  <1>5. \A c : Indicator(c) \in {0, 1}
    BY DEF Indicator
  <1>6. \A counter \in Counter : Add(counter, label, accepted) \in Counter
    BY <1>5 DEF Add, Counter
  <1>7. \A c : \A counter \in Counter : AddIf(c, counter, label, accepted) \in Counter
    BY <1>6 DEF AddIf
  <1>8. metrics' \in MetricsType /\ metrics'.control = AddIf(audit.control, metrics.control, label, accepted)
    <2>1. /\ metrics.total \in Nat /\ metrics.accepted \in Nat /\ metrics.unjudged_hits \in Nat
          /\ metrics.judged \in Nat /\ metrics.provider_calls \in Nat /\ metrics.truth \in Counter
          /\ metrics.raw \in Counter /\ metrics.control \in Counter /\ metrics.weighted \in Counter
      BY <1>4 DEF MetricsType
    <2>2. Indicator(accepted) \in Nat /\ Indicator(~accepted) \in Nat
          /\ Indicator(accepted /\ ~(audit.control \/ audit.diagnostic)) \in Nat
          /\ Indicator(audit.control \/ audit.diagnostic) \in Nat
      BY <1>5
    <2>3. /\ Add(metrics.truth, label, accepted) \in Counter
          /\ AddIf(audit.control \/ audit.diagnostic, metrics.raw, label, accepted) \in Counter
          /\ AddIf(audit.control, metrics.control, label, accepted) \in Counter
          /\ AddIf(audit.diagnostic, metrics.weighted, label, accepted) \in Counter
      BY <1>6, <1>7, <2>1
    <2>4. Record(label, accepted, audit)
      BY <1>2
    <2> QED BY <2>1, <2>2, <2>3, <2>4 DEF Record, MetricsType
  <1>9. metrics.control \in Counter
    BY <1>4 DEF MetricsType
  <1>10. CASE Learns(label, audit.control)
    <2>1. Aci /\ audit.control /\ label = "H0"
      BY <1>10 DEF Learns, Aci
    <2>2. Update(row.score, accepted)
      BY <1>2, <1>10 DEF Learn
    <2>3. PICK hit, blocked \in {0, 1} :
             /\ hit = 1 <=> accepted
             /\ hit = 1 => blocked = 0
             /\ LearnedFrom(row.score, hit, blocked)
      BY <2>2, UpdateIs
    <2>4. metrics'.control.h0 = Seen + 1 /\ metrics'.control.fp = metrics.control.fp + hit
      BY <1>8, <2>1, <2>3 DEF AddIf, Add, Indicator, Seen
    <2> QED BY <1>2, <1>3, <1>8, <2>1, <2>3, <2>4
  <1>11. CASE ~Learns(label, audit.control)
    <2>1. UNCHANGED controller
      BY <1>2, <1>11 DEF Learn
    <2>2. ASSUME Aci
          PROVE  metrics'.control.h0 = Seen /\ metrics'.control.fp = metrics.control.fp
      <3>1. CASE ~audit.control
        BY <1>8, <3>1 DEF AddIf, Seen
      <3>2. CASE audit.control
        <4>1. label # "H0"
          BY <1>11, <2>2, <3>2 DEF Learns, Aci
        <4>2. metrics.control.h0 \in Nat /\ metrics.control.fp \in Nat
          BY <1>9 DEF Counter
        <4> QED BY <1>8, <3>2, <4>1, <4>2 DEF AddIf, Add, Indicator, Seen
      <3> QED BY <3>1, <3>2
    <2> QED BY <1>2, <1>8, <2>1, <2>2
  <1> QED BY <1>10, <1>11

\* What the constants are used for below.
LEMMA AdaptiveNumbers ==
  /\ Unit \in Nat /\ Target \in Nat /\ AlphaMin \in Nat /\ AlphaMax \in Nat
  /\ AlphaMin <= Target /\ Target <= AlphaMax /\ AlphaMax < Unit
  /\ Up \in Nat /\ Down \in Nat
  /\ BufferSize \in Nat \ {0} /\ WilsonWindow \in Nat \ {0}
  BY AdaptiveAssumption

LEMMA NewestIs ==
  ASSUME NEW scores \in Seq(Scores)
  PROVE  /\ Newest(scores, BufferSize) \in Seq(Scores)
         /\ Len(Newest(scores, BufferSize)) <= BufferSize
  <1> DEFINE n == Len(scores)
             first == n - BufferSize + 1
  <1>1. n \in Nat /\ BufferSize \in Nat \ {0}
    BY AdaptiveNumbers
  <1>2. CASE n > BufferSize
    <2>1. first \in 1..(n + 1) /\ n \in (first - 1)..n /\ n - first + 1 = BufferSize /\ first <= n
      BY <1>1, <1>2
    <2>2. SubSeq(scores, first, n) \in Seq(Scores) /\ Len(SubSeq(scores, first, n)) = BufferSize
      <3> HIDE DEF first, n
      <3>1. /\ SubSeq(scores, first, n) \in Seq(Scores)
            /\ Len(SubSeq(scores, first, n)) = IF first <= n THEN n - first + 1 ELSE 0
        <4>1. first \in 1..(Len(scores) + 1) /\ n \in (first - 1)..Len(scores)
          BY <2>1 DEF n
        <4> QED BY <4>1, SubSeqProperties
      <3> QED BY <2>1, <3>1
    <2>3. Newest(scores, BufferSize) = SubSeq(scores, first, n)
      BY <1>2 DEF Newest
    <2> QED BY <1>1, <2>2, <2>3
  <1>3. CASE ~(n > BufferSize)
    <2>1. Newest(scores, BufferSize) = scores
      BY <1>3 DEF Newest
    <2> QED BY <1>1, <1>3, <2>1
  <1> QED BY <1>2, <1>3

LEMMA AdaptiveInitially == AdaptiveInit => AdaptiveInv
  <1> SUFFICES ASSUME AdaptiveInit PROVE AdaptiveInv
    OBVIOUS
  <1>1. config \in Configs /\ config \in ConfigType
    BY AdaptiveAssumption DEF AdaptiveInit
  <1>2. calibration \in Seq(Scores)
    <2>1. calibration \in CalibrationScores
      BY DEF AdaptiveInit
    <2>2. PICK n \in 0..MaxCalibration : calibration \in [1..n -> Scores]
      BY <2>1 DEF CalibrationScores
    <2>3. n \in Nat
      BY <2>2, AdaptiveAssumption
    <2> QED BY <2>2, <2>3
  <1>3. SelectedThreshold(config.tie, calibration, Target) \in Int /\ Infinity \in Int
    <2>1. config.tie \in Ties
      BY <1>1 DEF ConfigType
    <2>2. Target \in Nat /\ Target < Unit
      BY AdaptiveNumbers
    <2> QED BY <1>2, <2>1, <2>2, ThresholdsMeet, ScoresBounded
  <1>4. fallback \in Int
    <2>1. config.warm \in {"cold", "batch", "gated"}
      BY <1>1 DEF ConfigType
    <2>2. fallback = CASE config.warm = "cold" -> Infinity
                       [] config.warm = "batch" -> BatchThreshold(config.tie, calibration)
                       [] config.warm = "gated" -> GatedThreshold(config.tie, calibration)
      BY DEF AdaptiveInit
    <2>3. BatchThreshold(config.tie, calibration) \in Int
      BY <1>3 DEF BatchThreshold
    <2>4. GatedThreshold(config.tie, calibration) \in Int
      BY <1>3 DEF GatedThreshold
    <2> QED BY <1>3, <2>1, <2>2, <2>3, <2>4
  <1>5. buffer \in Seq(Scores) /\ Len(buffer) <= BufferSize
    <2>1. CASE config.warm = "cold"
      BY <2>1, AdaptiveNumbers DEF AdaptiveInit
    <2>2. CASE config.warm # "cold"
      <3>1. buffer = Newest(calibration, BufferSize)
        BY <2>2 DEF AdaptiveInit
      <3> QED BY <1>2, <3>1, NewestIs
    <2> QED BY <2>1, <2>2
  <1>6. /\ origin \in Seq(BOOLEAN) /\ Len(origin) = Len(buffer)
        /\ \A i \in DOMAIN origin : origin[i] = FALSE
    <2>1. origin = [i \in 1..Len(buffer) |-> FALSE] /\ Len(buffer) \in Nat
      BY <1>5 DEF AdaptiveInit
    <2> QED BY <2>1
  <1>7. /\ outcomes = <<>> /\ FalseHits(outcomes) = 0 /\ lifted = FALSE
        /\ counts = [h0_seen |-> 0, updates |-> 0, blocked |-> 0]
    <2>1. {i \in DOMAIN <<>> : <<>>[i] = 1} = {}
      OBVIOUS
    <2> QED BY <2>1, FS_EmptySet DEF AdaptiveInit, FalseHits
  <1>8. metrics \in MetricsType /\ metrics.control = NoCount
    BY DEF AdaptiveInit, MetricsType, Counter, NoCount
  <1>9. Seen = 0 /\ metrics.control.fp = 0
    BY <1>8 DEF Seen, NoCount
  <1>10. alpha = Target /\ alpha \in AlphaMin..AlphaMax
    BY AdaptiveNumbers DEF AdaptiveInit
  <1>11. AdaptiveTypeOK
    <2>1. counts \in CountsType
      BY <1>7 DEF CountsType
    <2>2. outcomes \in Seq({0, 1}) /\ Len(outcomes) <= WilsonWindow
      BY <1>7, AdaptiveNumbers
    <2> QED BY <1>1, <1>2, <1>4, <1>5, <1>6, <1>7, <1>8, <1>10, <2>1, <2>2 DEF AdaptiveTypeOK
  <1>12. SliceInv
    <2>1. Smaller(Seen, WilsonWindow) = 0 /\ Smaller(Seen, BufferSize) = 0
      BY <1>9, AdaptiveNumbers DEF Smaller
    <2>2. NewestLearned
      <3>1. Len(origin) \in Nat /\ DOMAIN origin = 1..Len(origin)
        BY <1>6
      <3> QED BY <1>6, <2>1, <3>1 DEF NewestLearned, NewestAre
    <2>3. Len(outcomes) = 0
      BY <1>7
    <2> QED BY <1>7, <1>9, <2>1, <2>2, <2>3 DEF SliceInv
  <1>13. FalseHitsPaidFor
    BY <1>9, <1>10, AdaptiveNumbers DEF FalseHitsPaidFor, Seen
  <1> QED BY <1>11, <1>12, <1>13 DEF AdaptiveInv

\* A step that leaves the controller and its account alone.
LEMMA AccountKept ==
  ASSUME AdaptiveInv, AdaptiveTypeOK', UNCHANGED controller, config' = config,
         Aci => metrics'.control.h0 = Seen /\ metrics'.control.fp = metrics.control.fp
  PROVE  AdaptiveInv'
  <1>1. UNCHANGED <<alpha, buffer, origin, outcomes, counts, lifted>>
    BY DEF controller
  <1>2. Aci' = Aci
    BY DEF Aci
  <1>3. ASSUME Aci PROVE SliceInv' /\ FalseHitsPaidFor'
    <2>1. Seen' = Seen /\ metrics'.control.fp = metrics.control.fp
      BY <1>3 DEF Seen
    <2>2. SliceInv
      BY <1>3 DEF AdaptiveInv
    <2>3. NewestLearned'
      BY <1>1, <2>1, <2>2 DEF SliceInv, NewestLearned
    <2>4. FalseHits(outcomes)' = FalseHits(outcomes)
      BY <1>1
    <2>5. SliceInv'
      BY <1>1, <2>1, <2>2, <2>3, <2>4 DEF SliceInv
    <2>6. FalseHitsPaidFor'
      BY <1>1, <2>1 DEF AdaptiveInv, FalseHitsPaidFor, Seen
    <2> QED BY <2>5, <2>6
  <1>4. ~Aci => FalseHitsPaidFor'
    BY DEF Aci, FalseHitsPaidFor
  <1> QED BY <1>2, <1>3, <1>4 DEF AdaptiveInv

\* alpha after an update: within its range, and no lower than was paid for.
LEMMA AlphaMoved ==
  ASSUME AdaptiveTypeOK, NEW score, NEW hit \in {0, 1}, NEW blocked \in {0, 1},
         hit = 1 => blocked = 0, LearnedFrom(score, hit, blocked)
  PROVE  /\ alpha' \in AlphaMin..AlphaMax
         /\ lifted' \in BOOLEAN /\ (lifted => lifted')
         /\ ~lifted' => alpha' <= alpha + (IF hit = 1 THEN -Down ELSE Up)
  <1> DEFINE moved == IF hit = 1 THEN alpha - Down ELSE alpha + Up
             proposed == IF blocked = 1 THEN alpha ELSE moved
  <1>1. /\ alpha' = Clip(proposed) /\ lifted' = (lifted \/ moved < AlphaMin) /\ lifted \in BOOLEAN
        /\ alpha \in Nat /\ AlphaMin <= alpha /\ alpha <= AlphaMax
    BY AdaptiveNumbers DEF LearnedFrom, AdaptiveTypeOK
  <1>2. alpha' = IF proposed < AlphaMin THEN AlphaMin
                 ELSE IF proposed > AlphaMax THEN AlphaMax ELSE proposed
    BY <1>1 DEF Clip
  <1>3. /\ moved \in Int /\ moved = alpha + (IF hit = 1 THEN -Down ELSE Up)
        /\ proposed \in Int
        /\ blocked # 1 => proposed = moved
        /\ blocked = 1 => proposed = alpha /\ alpha <= moved
    BY <1>1, AdaptiveNumbers
  <1>4. proposed \in Int /\ proposed <= moved
    BY <1>1, <1>3
  <1> HIDE DEF moved, proposed
  <1>5. alpha' \in AlphaMin..AlphaMax
    BY <1>2, <1>4, AdaptiveNumbers
  <1>6. lifted' \in BOOLEAN /\ (lifted => lifted')
    BY <1>1
  <1>7. ~lifted' => alpha' <= moved
    <2>1. ~lifted' => ~(moved < AlphaMin)
      BY <1>1
    <2>2. AlphaMin \in Nat /\ AlphaMax \in Nat
      BY AdaptiveNumbers
    <2>3. moved \in Int
      BY <1>3
    <2>4. moved >= AlphaMin => alpha' <= moved
      BY <1>2, <1>4, <2>2, <2>3
    <2> QED BY <2>1, <2>2, <2>3, <2>4
  <1> QED BY <1>3, <1>5, <1>6, <1>7

\* The marked elements stay the newest ones of a queue when one is added.
LEMMA NewestMarked ==
  ASSUME NEW S, NEW yes \in S, NEW queue \in Seq(S), NEW size \in Nat \ {0}, NEW seen \in Nat,
         Len(queue) <= size, NewestAre(queue, yes, Smaller(seen, size))
  PROVE  NewestAre(Push(queue, yes, size), yes, Smaller(seen + 1, size))
  <1> DEFINE n == Len(queue)
             m == Smaller(seen, size)
             m1 == Smaller(seen + 1, size)
             left == Push(queue, yes, size)
  <1>1. /\ n \in Nat /\ n <= size /\ n >= m
        /\ \A i \in 1..n : queue[i] = yes <=> i > n - m
    BY DEF NewestAre
  <1>2. m \in Nat /\ m1 \in Nat /\ m <= size /\ m1 <= size
    BY DEF Smaller
  <1>3. CASE n < size
    <2>1. m = seen /\ m1 = seen + 1
      BY <1>1, <1>3 DEF Smaller
    <2>2. left = Append(queue, yes)
      BY <1>3, PushGrows
    <2>3. /\ Len(left) = n + 1 /\ left[n + 1] = yes
          /\ \A i \in 1..n : left[i] = queue[i]
      <3>1. /\ Len(Append(queue, yes)) = n + 1 /\ Append(queue, yes)[n + 1] = yes
            /\ \A i \in 1..n : Append(queue, yes)[i] = queue[i]
        BY AppendProperties
      <3> QED BY <2>2, <3>1
    <2> HIDE DEF n, m, m1, left
    <2>4. /\ n + 1 >= m1 /\ n + 1 > n + 1 - m1
          /\ \A i \in 1..n : i > n - m <=> i > n + 1 - m1
      BY <1>1, <2>1
    <2>5. \A i \in 1..(n + 1) : i \in 1..n \/ i = n + 1
      BY <1>1
    <2>6. \A i \in 1..(n + 1) : left[i] = yes <=> i > n + 1 - m1
      BY <1>1, <2>3, <2>4, <2>5
    <2>7. Len(left) = n + 1
      BY <2>3
    <2>8. NewestAre(left, yes, m1)
      BY <1>1, <1>2, <2>4, <2>6, <2>7 DEF NewestAre
    <2> QED BY <2>8 DEF left, m1
  <1>4. CASE n = size
    <2>1. Len(queue) = size
      BY <1>4
    <2>2. /\ Len(left) = size
          /\ \A i \in 1..(size - 1) : left[i] = queue[i + 1]
          /\ left[size] = yes
      <3>1. Shifted(queue, yes, left)
        BY <2>1, PushShifts
      <3> HIDE DEF left
      <3> QED BY <2>1, <3>1 DEF Shifted
    <2>3. /\ size >= m1 /\ size > size - m1
          /\ \A i \in 1..size : i < size => (i + 1 > size - m <=> i > size - m1)
      BY <1>1 DEF Smaller
    <2> HIDE DEF n, m, m1, left
    <2>4. ASSUME NEW i \in 1..size
          PROVE  left[i] = yes <=> i > size - m1
      <3>1. CASE i < size
        <4>1. i + 1 \in 1..n
          BY <1>1, <1>4, <3>1
        <4>2. queue[i + 1] = yes <=> i + 1 > n - m
          BY <1>1, <4>1
        <4>3. left[i] = queue[i + 1]
          <5>1. i \in 1..(size - 1)
            BY <3>1
          <5> QED BY <2>2, <5>1
        <4> QED BY <1>4, <2>3, <3>1, <4>2, <4>3
      <3>2. CASE ~(i < size)
        <4>1. i = size
          BY <3>2
        <4>2. left[i] = yes
          BY <2>2, <4>1
        <4> QED BY <2>3, <4>1, <4>2
      <3> QED BY <3>1, <3>2
    <2>5. NewestAre(left, yes, m1)
      BY <2>2, <2>3, <2>4 DEF NewestAre
    <2> QED BY <2>5 DEF left, m1
  <1>5. n < size \/ n = size
    BY <1>1
  <1> QED BY <1>3, <1>4, <1>5

\* The learned scores stay the newest ones of the buffer.
LEMMA NewestLearnedStep ==
  ASSUME NewestLearned, NEW seen \in Nat, Seen = seen, Seen' = seen + 1,
         origin \in Seq(BOOLEAN), origin' \in Seq(BOOLEAN), Len(origin) <= BufferSize,
         NEW yes \in BOOLEAN, yes = TRUE, origin' = Push(origin, yes, BufferSize)
  PROVE  NewestLearned'
  <1>1. NewestAre(origin, yes, Smaller(seen, BufferSize)) /\ BufferSize \in Nat \ {0}
    BY AdaptiveNumbers DEF NewestLearned
  <1>2. NewestAre(Push(origin, yes, BufferSize), yes, Smaller(seen + 1, BufferSize))
    BY <1>1, NewestMarked
  <1> QED BY <1>2 DEF NewestLearned

\* What an accepted H0 candidate costs, and what a rejected one pays back.
LEMMA PaidStep ==
  ASSUME NEW fp \in Nat, NEW h0 \in Nat, fp <= h0, NEW hit \in {0, 1},
         NEW old \in Nat, NEW new \in Nat,
         Down * fp - Up * (h0 - fp) <= Target - old,
         new <= old + (IF hit = 1 THEN -Down ELSE Up)
  PROVE  Down * (fp + hit) - Up * (h0 + 1 - (fp + hit)) <= Target - new
  <1> DEFINE A == Down * fp
             B == Up * (h0 - fp)
             C == Down * (fp + hit)
             D == Up * (h0 + 1 - (fp + hit))
  <1>1. /\ Up \in Nat /\ Down \in Nat /\ Target \in Nat /\ h0 - fp \in Nat
        /\ A \in Int /\ B \in Int /\ C \in Int /\ D \in Int
    BY AdaptiveNumbers
  <1>2. /\ hit = 1 => C = A + Down
        /\ hit = 0 => C = A
    BY <1>1
  <1>3. hit = 1 => D = B
    <2>1. hit = 1 => h0 + 1 - (fp + hit) = h0 - fp
      OBVIOUS
    <2> QED BY <2>1
  <1>4. hit = 0 => D = B + Up
    <2>1. hit = 0 => h0 + 1 - (fp + hit) = (h0 - fp) + 1
      OBVIOUS
    <2>2. Up * ((h0 - fp) + 1) = B + Up
      BY <1>1
    <2> QED BY <2>1, <2>2
  <1>5. A - B <= Target - old
    OBVIOUS
  <1> HIDE DEF A, B, C, D
  <1>6. C - D <= Target - new
    BY <1>1, <1>2, <1>3, <1>4, <1>5
  <1> QED BY <1>6 DEF C, D

\* A step that learns from one candidate.
LEMMA AccountLearned ==
  ASSUME AdaptiveInv, Aci, UNCHANGED <<config, calibration, fallback>>, metrics' \in MetricsType,
         NEW score \in Scores, NEW hit \in {0, 1}, NEW blocked \in {0, 1},
         hit = 1 => blocked = 0, LearnedFrom(score, hit, blocked),
         metrics'.control.h0 = Seen + 1, metrics'.control.fp = metrics.control.fp + hit
  PROVE  AdaptiveInv'
  <1> DEFINE seen == metrics.control.h0
             fp == metrics.control.fp
  <1>1. /\ AdaptiveTypeOK /\ SliceInv /\ FalseHitsPaidFor
    BY DEF AdaptiveInv
  <1>2. /\ seen \in Nat /\ fp \in Nat /\ Seen = seen /\ Seen' = seen + 1
        /\ metrics'.control.fp = fp + hit
    <2>1. metrics.control \in Counter
      BY <1>1 DEF AdaptiveTypeOK, MetricsType
    <2> QED BY <2>1 DEF Counter, Seen
  <1>3. /\ buffer' = Push(buffer, score, BufferSize)
        /\ origin' = Push(origin, TRUE, BufferSize)
        /\ outcomes' = Push(outcomes, hit, WilsonWindow)
        /\ counts' = [h0_seen |-> counts.h0_seen + 1, updates |-> counts.updates + 1,
                      blocked |-> counts.blocked + blocked]
    BY DEF LearnedFrom
  <1> HIDE DEF seen, fp
  <1>4. /\ buffer \in Seq(Scores) /\ Len(buffer) <= BufferSize
        /\ origin \in Seq(BOOLEAN) /\ Len(origin) = Len(buffer)
        /\ outcomes \in Seq({0, 1}) /\ Len(outcomes) <= WilsonWindow
        /\ counts \in CountsType
    BY <1>1 DEF AdaptiveTypeOK
  <1>5. /\ buffer' \in Seq(Scores) /\ Len(buffer') <= BufferSize
        /\ Len(buffer') = Smaller(Len(buffer) + 1, BufferSize)
    BY <1>3, <1>4, AdaptiveNumbers, PushIs
  <1>6. origin' \in Seq(BOOLEAN) /\ Len(origin') = Smaller(Len(origin) + 1, BufferSize)
    <2>1. PICK yes \in BOOLEAN : yes = TRUE
      OBVIOUS
    <2>2. Len(origin) <= BufferSize
      BY <1>4
    <2>3. origin' = Push(origin, yes, BufferSize)
      BY <1>3, <2>1
    <2> QED BY <1>4, <2>2, <2>3, AdaptiveNumbers, PushIs
  <1>7. /\ outcomes' \in Seq({0, 1}) /\ Len(outcomes') <= WilsonWindow
        /\ Len(outcomes') = Smaller(Len(outcomes) + 1, WilsonWindow)
    <2>1. PICK Bits : Bits = {0, 1}
      OBVIOUS
    <2>2. outcomes \in Seq(Bits) /\ hit \in Bits
      BY <1>4, <2>1
    <2>3. /\ outcomes' \in Seq(Bits) /\ Len(outcomes') <= WilsonWindow
          /\ Len(outcomes') = Smaller(Len(outcomes) + 1, WilsonWindow)
      BY <1>3, <1>4, <2>2, AdaptiveNumbers, PushIs
    <2> QED BY <2>1, <2>3
  <1>8. /\ alpha' \in AlphaMin..AlphaMax /\ lifted' \in BOOLEAN /\ (lifted => lifted')
        /\ ~lifted' => alpha' <= alpha + (IF hit = 1 THEN -Down ELSE Up)
    BY <1>1, AlphaMoved
  <1>9. /\ counts.h0_seen = seen /\ counts.updates = seen /\ counts.blocked \in Nat
        /\ counts.blocked + fp <= seen
    BY <1>1, <1>2, <1>4 DEF SliceInv, CountsType, fp
  <1>10. /\ counts' \in CountsType
         /\ counts'.h0_seen = seen + 1 /\ counts'.updates = seen + 1
         /\ counts'.blocked = counts.blocked + blocked
    BY <1>2, <1>3, <1>9 DEF CountsType
  <1>11. AdaptiveTypeOK'
    <2>1. config' \in Configs /\ calibration' \in Seq(Scores) /\ fallback' \in Int
      BY <1>1 DEF AdaptiveTypeOK
    <2>2. Len(origin') = Len(buffer')
      BY <1>4, <1>5, <1>6
    <2> QED BY <1>5, <1>6, <1>7, <1>8, <1>10, <2>1, <2>2 DEF AdaptiveTypeOK
  <1>12. SliceInv'
    <2>1. counts'.blocked + (fp + hit) <= seen + 1
      BY <1>2, <1>9, <1>10
    <2>2. Len(outcomes) = Smaller(seen, WilsonWindow)
      BY <1>1, <1>2 DEF SliceInv
    <2>3. Len(outcomes') = Smaller(seen + 1, WilsonWindow)
      BY <1>2, <1>7, <2>2, AdaptiveNumbers DEF Smaller
    <2>4. FalseHits(outcomes) <= fp /\ (seen <= WilsonWindow => FalseHits(outcomes) = fp)
      BY <1>1, <1>2 DEF SliceInv, fp
    <2>5. /\ FalseHits(outcomes) \in Nat /\ FalseHits(outcomes') \in Nat
          /\ FalseHits(outcomes') <= FalseHits(outcomes) + Indicator(hit = 1)
          /\ Len(outcomes) < WilsonWindow => FalseHits(outcomes') = FalseHits(outcomes) + Indicator(hit = 1)
      <3>1. PICK Bits : Bits = {0, 1}
        OBVIOUS
      <3>2. outcomes \in Seq(Bits) /\ hit \in Bits
        BY <1>4, <3>1
      <3> QED BY <1>3, <1>4, <3>2, AdaptiveNumbers, FalseHitsPushed
    <2>6. Indicator(hit = 1) = hit
      BY DEF Indicator
    <2>7. FalseHits(outcomes') <= fp + hit
      BY <1>2, <2>4, <2>5, <2>6
    <2>8. seen + 1 <= WilsonWindow => FalseHits(outcomes') = fp + hit
      BY <1>2, <2>2, <2>4, <2>5, <2>6, AdaptiveNumbers DEF Smaller
    <2>9. NewestLearned'
      <3>1. NewestLearned /\ Len(origin) <= BufferSize
        BY <1>1, <1>4 DEF SliceInv
      <3>2. PICK yes \in BOOLEAN : yes = TRUE
        OBVIOUS
      <3>3. origin' = Push(origin, yes, BufferSize)
        BY <1>3, <3>2
      <3> QED BY <1>2, <1>4, <1>6, <3>1, <3>2, <3>3, NewestLearnedStep
    <2> QED BY <1>2, <1>10, <2>1, <2>3, <2>7, <2>8, <2>9 DEF SliceInv
  <1>13. FalseHitsPaidFor'
    <2>1. CASE ~lifted'
      <3>1. Down * fp - Up * (seen - fp) <= Target - alpha
        BY <1>1, <1>8, <2>1 DEF FalseHitsPaidFor, Aci, fp, seen
      <3>2. alpha' <= alpha + (IF hit = 1 THEN -Down ELSE Up)
        BY <1>8, <2>1
      <3>3. alpha \in Nat /\ alpha' \in Nat
        BY <1>1, <1>8, AdaptiveNumbers DEF AdaptiveTypeOK
      <3>4. fp <= seen
        BY <1>2, <1>9
      <3>5. Down * (fp + hit) - Up * (seen + 1 - (fp + hit)) <= Target - alpha'
        BY <1>2, <3>1, <3>2, <3>3, <3>4, PaidStep
      <3> QED BY <1>2, <3>5 DEF FalseHitsPaidFor, Seen
    <2>2. CASE lifted'
      BY <2>2 DEF FalseHitsPaidFor
    <2> QED BY <2>1, <2>2
  <1> QED BY <1>11, <1>12, <1>13 DEF AdaptiveInv

LEMMA AdaptiveStep == AdaptiveInv /\ [AdaptiveNext]_adaptiveVars => AdaptiveInv'
  <1> SUFFICES ASSUME AdaptiveInv, [AdaptiveNext]_adaptiveVars PROVE AdaptiveInv'
    OBVIOUS
  <1>1. AdaptiveTypeOK
    BY DEF AdaptiveInv
  <1>2. ASSUME UNCHANGED controller, config' = config, calibration' = calibration,
               fallback' = fallback, metrics' \in MetricsType
        PROVE  AdaptiveTypeOK'
    BY <1>1, <1>2 DEF AdaptiveTypeOK, controller
  <1>3. CASE Serve
    <2>1. UNCHANGED <<config, calibration, fallback>> /\ metrics' \in MetricsType
      BY <1>1, <1>3, ServeIs
    <2>2. CASE /\ UNCHANGED controller
               /\ Aci => metrics'.control.h0 = Seen /\ metrics'.control.fp = metrics.control.fp
      <3>1. AdaptiveTypeOK'
        BY <1>2, <2>1, <2>2
      <3> QED BY <2>1, <2>2, <3>1, AccountKept
    <2>3. CASE /\ Aci
               /\ \E score \in Scores, hit, blocked \in {0, 1} :
                     /\ hit = 1 => blocked = 0
                     /\ LearnedFrom(score, hit, blocked)
                     /\ metrics'.control.h0 = Seen + 1
                     /\ metrics'.control.fp = metrics.control.fp + hit
      BY <2>1, <2>3, AccountLearned
    <2> QED BY <1>1, <1>3, <2>2, <2>3, ServeIs
  <1>4. CASE UNCHANGED adaptiveVars
    <2>1. /\ UNCHANGED controller /\ config' = config /\ calibration' = calibration
          /\ fallback' = fallback /\ metrics' = metrics
      BY <1>4 DEF adaptiveVars
    <2>2. AdaptiveTypeOK'
      BY <1>1, <1>2, <2>1 DEF AdaptiveTypeOK
    <2>3. metrics'.control.h0 = Seen /\ metrics'.control.fp = metrics.control.fp
      BY <2>1 DEF Seen
    <2> QED BY <2>1, <2>2, <2>3, AccountKept
  <1> QED BY <1>3, <1>4 DEF AdaptiveNext

LEMMA AdaptiveInvAlways == AdaptiveSpec => []AdaptiveInv
  BY AdaptiveInitially, AdaptiveStep, PTL DEF AdaptiveSpec

\* The state of GlobalACIController, its deques within their lengths and alpha
\* within its bounds, and the runner's metrics are of their types.
THEOREM AdaptiveTypeCorrect == AdaptiveSpec => []AdaptiveTypeOK
  <1>1. AdaptiveInv => AdaptiveTypeOK
    BY DEF AdaptiveInv
  <1> QED BY <1>1, AdaptiveInvAlways, PTL

\* For every stream of scores: threshold_from_selected_h0_scores never accepts
\* more of the scores it was given than its rate allows, and draws the line
\* where scores_to_threshold draws it, ties included, whatever the buffer holds
\* and wherever alpha has moved.
THEOREM LineDrawnOnce == AdaptiveSpec => []ThresholdsAgree
  <1>1. AdaptiveInv => ThresholdsAgree
    <2> SUFFICES ASSUME AdaptiveInv, NEW tie \in Ties, NEW rate \in {alpha, Target},
                        NEW scores \in {buffer, calibration}
                 PROVE  LET online == Accepted(tie, scores, SelectedThreshold(tie, scores, rate))
                        IN  /\ Cardinality(online) <= Allowed(rate, Len(scores))
                            /\ online = Accepted(tie, scores, ScoresToThreshold(tie, scores, rate))
      BY DEF ThresholdsAgree
    <2>1. rate \in Nat /\ rate < Unit
      BY AdaptiveNumbers DEF AdaptiveInv, AdaptiveTypeOK
    <2>2. scores \in Seq(Scores)
      BY DEF AdaptiveInv, AdaptiveTypeOK
    <2> QED BY <2>1, <2>2, ThresholdsMeet
  <1> QED BY <1>1, AdaptiveInvAlways, PTL

\* However long the stream and whatever the Wilson gate blocks: until alpha_min
\* holds alpha up, the excess of false hits over the target share among the
\* audited H0 candidates is what GlobalACIController.update took from alpha.
THEOREM ExcessIsTaken == AdaptiveSpec => []FalseHitsPaidFor
  <1>1. AdaptiveInv => FalseHitsPaidFor
    BY DEF AdaptiveInv
  <1> QED BY <1>1, AdaptiveInvAlways, PTL

\* The controller's buffer, window and counts are the control slice of
\* AdmissionMetrics and nothing else of the stream, for every buffer and window.
THEOREM SliceLearnedAlone == AdaptiveSpec => []ControlSliceAgrees
  <1>1. AdaptiveInv => ControlSliceAgrees
    <2> SUFFICES ASSUME AdaptiveInv, Aci PROVE ControlSliceAgrees
      BY DEF Aci, ControlSliceAgrees
    <2> DEFINE seen == metrics.control.h0
               n == Len(origin)
               m == Smaller(seen, BufferSize)
    <2>1. SliceInv /\ AdaptiveTypeOK /\ Seen = seen
      BY DEF AdaptiveInv, Seen
    <2>2. seen \in Nat /\ metrics.control.fp \in Nat /\ counts.blocked \in Nat
      BY <2>1 DEF AdaptiveTypeOK, MetricsType, Counter, CountsType
    <2>3. counts.blocked <= seen - metrics.control.fp
      <3>1. counts.blocked + metrics.control.fp <= seen
        BY <2>1 DEF SliceInv
      <3> HIDE DEF seen
      <3> QED BY <2>2, <3>1
    <2>4. /\ n \in Nat /\ DOMAIN origin = 1..n /\ n >= m
          /\ \A i \in 1..n : origin[i] = TRUE <=> i > n - m
      BY <2>1 DEF AdaptiveTypeOK, SliceInv, NewestLearned, NewestAre
    <2>5. m \in Nat /\ m = (IF seen < BufferSize THEN seen ELSE BufferSize)
      BY <2>2, AdaptiveNumbers DEF Smaller
    <2>6. Cardinality({i \in DOMAIN origin : origin[i]}) = m
      <3> HIDE DEF seen, n, m
      <3>1. {i \in DOMAIN origin : origin[i]} = (n - m + 1)..n
        <4>1. \A i \in 1..n : i > n - m <=> i \in (n - m + 1)..n
          BY <2>4, <2>5
        <4>2. (n - m + 1)..n \subseteq 1..n
          BY <2>4, <2>5
        <4>3. \A i \in DOMAIN origin : origin[i] <=> origin[i] = TRUE
          BY <2>4
        <4> QED BY <2>4, <4>1, <4>2, <4>3
      <3>2. Cardinality((n - m + 1)..n) = IF n - m + 1 > n THEN 0 ELSE n - (n - m + 1) + 1
        <4>1. n - m + 1 \in Int /\ n \in Int
          BY <2>4, <2>5
        <4> QED BY <4>1, FS_Interval
      <3>3. Cardinality((n - m + 1)..n) = m
        BY <2>4, <2>5, <3>2
      <3> QED BY <3>1, <3>3
    <2> HIDE DEF n, m
    <2> QED BY <2>1, <2>3, <2>5, <2>6 DEF SliceInv, ControlSliceAgrees, Smaller
  <1> QED BY <1>1, AdaptiveInvAlways, PTL
==============================================================================
