-------------------------- MODULE OracleLifecycle --------------------------
(***************************************************************************)
(* TrainableSemanticCacheOracle: concurrent requests that serve with the   *)
(* active scorer and threshold, label what they retrieved, and start fits  *)
(* and recalibrations that replace the active policy while other requests  *)
(* are being served; SemanticCacheSystem.policy and freeze on top.         *)
(*                                                                         *)
(* A step is what happens under one hold of _fit_lock, or one access to    *)
(* the threshold provider, the training store or an unlocked field; what   *)
(* lies between two of them (searching, scoring, judging, fitting) only    *)
(* touches the thread's own data.                                          *)
(*                                                                         *)
(* Data is abstract.  A scorer is named by the request whose fit trained   *)
(* it (Cold: the one the oracle was built with); a threshold by the scorer *)
(* that calibrated it and the request whose job computed it, and those no  *)
(* job of this oracle computed are one GivenThreshold: the argument of     *)
(* MLCache.from_preset, the configuration, set_threshold and               *)
(* prefit_and_calibrate, what an earlier process left in the provider.     *)
(* Whether a candidate passes the threshold, what the judge says and       *)
(* whether the activation gate passes are nondeterministic.                *)
(* _last_refit_decision, _fit_result and _activation_metadata are reports  *)
(* no decision reads and are left out, and so is                           *)
(* judge_can_override_decision (off by default).                           *)
(***************************************************************************)
EXTENDS RefitPolicy, FiniteSets

CONSTANTS
    Requests,        \* ids of the calls to decide() or fit(), each made once
    Cold,            \* the scorer of construction time
    NoThreshold,     \* None in _threshold and in the provider
    NoThread,        \* None in _fit_thread and _recalibration_thread
    HasProvider,     \* threshold_provider is not None
    UserFits,        \* fit() is also called by the user, not only by decide()
    Given,           \* whose threshold it is that no job computed
    GivenBy,         \* how such a threshold gets in: "preset" (from_preset),
                     \* "provider" (configured or left by an earlier process)
                     \* and "caller" (MLCache.set_threshold)
    StoredPairs,     \* the pairs an earlier process may have left in the store
    Feedbacks,       \* the ShadowCollectionResults a request can bring back
    SyncMaxH0,       \* sync_recalibration_max_h0
    MonitorWindowMin \* monitor_window_min_examples

NoLabel == 2

\* Labels the shadow collector reports for one request: how many H0 and H1
\* pairs it stored, and what the judge said of the served candidate.
FeedbackType == [h0_added : Nat, h1_added : Nat, label : {0, 1, NoLabel}]

NoFeedback == [h0_added |-> 0, h1_added |-> 0, label |-> NoLabel]

\* The judged label of the served candidate is one of the pairs counted.
\* False of a collector whose store raised for that very pair.
ServedLabelCounted ==
    \A f \in Feedbacks : /\ f.label = 0 => f.h0_added >= 1
                         /\ f.label = 1 => f.h1_added >= 1

ASSUME LifecycleAssumption ==
    /\ Cold \notin Requests
    /\ Given \notin Requests \cup {Cold}
    /\ GivenBy \subseteq {"preset", "provider", "caller"}
    /\ StoredPairs \subseteq [h0 : Nat, h1 : Nat]
    /\ NoThread \notin Requests
    /\ HasProvider \in BOOLEAN
    /\ UserFits \in BOOLEAN
    /\ Feedbacks \subseteq FeedbackType
    /\ NoFeedback \in Feedbacks
    /\ SyncMaxH0 \in Nat \ {0}
    /\ MonitorWindowMin \in Nat \ {0}

Scorers == Requests \cup {Cold}
Threshold == [scorer : Scorers, by : Requests \cup {Given}]
GivenThreshold == [scorer |-> Cold, by |-> Given]

ASSUME NoThresholdAssumption == NoThreshold \notin Threshold

MaybeThreshold == Threshold \cup {NoThreshold}

VARIABLES
    scorer,       \* self.scorer
    threshold,    \* _threshold
    version,      \* _threshold_version
    disabled,     \* _semantic_hits_disabled
    since,        \* the _new_*_since_* and _decisions_since_* counters
    monitor,      \* the _monitor_* counters and _previous_monitor_tpr
    provider,     \* what threshold_provider holds for the scorer's name
    store,        \* labelled pairs in judge_training_store
    auto_refit,   \* auto_refit; FALSE from the moment freeze() has returned
    req,          \* one request: control point and local variables
    job,          \* the fit or recalibration a request started, or its
                  \* set_threshold
    fit_thread,   \* _fit_thread
    recal_thread, \* _recalibration_thread
    activated     \* history: every threshold that passed a gate and was set

vars == <<scorer, threshold, version, disabled, since, monitor, provider,
          store, auto_refit, req, job, fit_thread, recal_thread, activated>>

policyVars == <<scorer, threshold, version, disabled, activated>>
threadVars == <<fit_thread, recal_thread>>

(***************************************************************************)
(* Types and initial state                                                 *)
(***************************************************************************)
Points == {"idle", "snapped", "scored", "collected", "recorded", "rows",
           "planned", "executed", "policy", "done"}

Statuses == {"NONE", "HIT", "MISS", "ABSTAIN"}

RequestType ==
    [at : Points, scorer : Scorers, threshold : MaybeThreshold,
     disabled : BOOLEAN, status : Statuses, feedback : FeedbackType,
     rows : [h0 : Nat, h1 : Nat], action : Actions]

JobType ==
    [kind : {"none", "fit", "recal_sync", "recal_async", "set"},
     phase : {"none", "created", "running", "scored", "publishing"},
     scorer : Scorers, threshold : MaybeThreshold]

NoJob == [kind |-> "none", phase |-> "none", scorer |-> Cold,
          threshold |-> NoThreshold]

NewRequest ==
    [at |-> "idle", scorer |-> Cold, threshold |-> NoThreshold,
     disabled |-> FALSE, status |-> "NONE", feedback |-> NoFeedback,
     rows |-> [h0 |-> 0, h1 |-> 0], action |-> "NOOP"]

SinceType ==
    [new_h0_fit : Nat, new_h1_fit : Nat, new_h0_cal : Nat,
     decisions_fit : Nat, decisions_cal : Nat]

MonitorType ==
    [h0 : Nat, h1 : Nat, false_accepts : Nat, true_accepts : Nat,
     previous : Rate]

TypeOK ==
    /\ scorer \in Scorers
    /\ threshold \in MaybeThreshold
    /\ version \in Nat
    /\ disabled \in BOOLEAN
    /\ since \in SinceType
    /\ monitor \in MonitorType
    /\ provider \in MaybeThreshold
    /\ store \in [h0 : Nat, h1 : Nat]
    /\ auto_refit \in BOOLEAN
    /\ req \in [Requests -> RequestType]
    /\ job \in [Requests -> JobType]
    /\ fit_thread \in Requests \cup {NoThread}
    /\ recal_thread \in Requests \cup {NoThread}
    /\ activated \in SUBSET Threshold

\* The thresholds that come in one of the ways of GivenBy.
Givens(way) == {GivenThreshold : w \in GivenBy \cap {way}}

\* An oracle as built: from_preset writes its threshold to the oracle and to
\* the provider; the query-level configuration writes only the provider, and
\* the file and SQL providers and the SQL pair store come with what an earlier
\* process left in them.
Init ==
    /\ scorer = Cold
    /\ threshold \in {NoThreshold} \cup Givens("preset")
    /\ version = 0
    /\ disabled = FALSE
    /\ since = [new_h0_fit |-> 0, new_h1_fit |-> 0, new_h0_cal |-> 0,
                decisions_fit |-> 0, decisions_cal |-> 0]
    /\ monitor = [h0 |-> 0, h1 |-> 0, false_accepts |-> 0,
                  true_accepts |-> 0, previous |-> NoRate]
    /\ provider \in
         IF ~HasProvider THEN {NoThreshold}
         ELSE IF threshold # NoThreshold THEN {threshold}
         ELSE {NoThreshold} \cup Givens("provider")
    /\ store \in StoredPairs
    /\ auto_refit = TRUE
    /\ req = [r \in Requests |-> NewRequest]
    /\ job = [r \in Requests |-> NoJob]
    /\ fit_thread = NoThread
    /\ recal_thread = NoThread
    /\ activated = {}

(***************************************************************************)
(* Serving                                                                 *)
(***************************************************************************)

\* _snapshot_runtime_state, the part under the lock.
Snapshot(r) ==
    /\ req[r].at = "idle"
    /\ since' = [since EXCEPT !.decisions_fit = @ + 1, !.decisions_cal = @ + 1]
    /\ req' = [req EXCEPT ![r].at = "snapped", ![r].scorer = scorer,
                          ![r].threshold = threshold, ![r].disabled = disabled]
    /\ UNCHANGED <<policyVars, monitor, provider, store, auto_refit, job,
                   threadVars>>

\* The threshold the request goes on with: the provider's, read after the
\* lock is released, unless there is none or reading it raises.
ServingThresholds(r) ==
    IF HasProvider /\ ~req[r].disabled /\ provider # NoThreshold
    THEN {provider, req[r].threshold}
    ELSE {req[r].threshold}

\* _score_request_with_snapshot.  MISS: no neighbours, hits disabled or no
\* candidate passed; HIT: the best candidate that passed.
OutcomesWith(r, tau) ==
    IF req[r].disabled THEN {"MISS"}
    ELSE IF tau = NoThreshold THEN {"MISS", "ABSTAIN"}
    ELSE {"MISS", "HIT"}

ScoreRequest(r) ==
    /\ req[r].at = "snapped"
    /\ \E tau \in ServingThresholds(r) : \E status \in OutcomesWith(r, tau) :
          req' = [req EXCEPT ![r].at = "scored", ![r].threshold = tau,
                             ![r].status = status, ![r].scorer = Cold,
                             ![r].disabled = FALSE]
    /\ UNCHANGED <<policyVars, since, monitor, provider, store, auto_refit,
                   job, threadVars>>

(***************************************************************************)
(* Feedback                                                                *)
(***************************************************************************)

\* The judge labels what was retrieved and the store is given the pairs.  It
\* refuses a pair that is in its other split, and a full bucket evicts one
\* for it: neither makes the store larger, both are counted as added.  The
\* served candidate has a label only if there is one: a HIT.
CollectFeedback(r) ==
    /\ req[r].at = "scored"
    /\ \E f \in Feedbacks :
          /\ req[r].status # "HIT" => f.label = NoLabel
          /\ \E h0 \in 0..f.h0_added, h1 \in 0..f.h1_added :
                store' = [h0 |-> store.h0 + h0, h1 |-> store.h1 + h1]
          /\ req' = [req EXCEPT ![r].at = "collected", ![r].feedback = f]
    /\ UNCHANGED <<policyVars, since, monitor, provider, auto_refit, job,
                   threadVars>>

One(b) == IF b THEN 1 ELSE 0

\* _record_shadow_collection_for_monitoring, and _record_judge_feedback with
\* its one label.
RecordFeedback(r) ==
    LET f == req[r].feedback
        hit == req[r].status = "HIT"
    IN  /\ req[r].at = "collected"
        /\ since' = [since EXCEPT !.new_h0_fit = @ + f.h0_added,
                                  !.new_h1_fit = @ + f.h1_added,
                                  !.new_h0_cal = @ + f.h0_added]
        /\ monitor' = [monitor EXCEPT
                         !.h0 = @ + f.h0_added,
                         !.h1 = @ + f.h1_added,
                         !.false_accepts = @ + One(hit /\ f.label = 0),
                         !.true_accepts = @ + One(hit /\ f.label = 1)]
        /\ req' = [req EXCEPT ![r].at = "recorded", ![r].feedback = NoFeedback,
                              ![r].status = "NONE"]
        /\ UNCHANGED <<policyVars, provider, store, auto_refit, job,
                       threadVars>>

(***************************************************************************)
(* Maintenance decided by a request                                        *)
(***************************************************************************)
Alive(phase) == phase \in {"running", "scored", "publishing"}

\* fit_in_progress: a thread that was created but not started is not alive.
FitInProgress == /\ fit_thread # NoThread
                 /\ job[fit_thread].kind = "fit"
                 /\ Alive(job[fit_thread].phase)

RecalibrationInProgress == /\ recal_thread # NoThread
                           /\ job[recal_thread].kind = "recal_async"
                           /\ Alive(job[recal_thread].phase)

\* A request is finished with maintenance: what it started is in job[r], and
\* its local variables are gone.
Executed(r) == req' = [req EXCEPT ![r] = [NewRequest EXCEPT !.at = "executed"]]

\* _maybe_auto_refit up to the rows of the training store.
ReadRefitRows(r) ==
    /\ req[r].at = "recorded"
    /\ IF auto_refit
       THEN req' = [req EXCEPT ![r].at = "rows", ![r].rows = store]
       ELSE Executed(r)
    /\ UNCHANGED <<policyVars, since, monitor, provider, store, auto_refit,
                   job, threadVars>>

\* The RefitPolicyContext, built in one hold of the lock.
ContextOf(r) ==
    [total_h0 |-> req[r].rows.h0, total_h1 |-> req[r].rows.h1,
     has_threshold |-> req[r].threshold # NoThreshold,
     distribution_changed |-> FALSE,
     new_h0_since_fit |-> since.new_h0_fit,
     new_h1_since_fit |-> since.new_h1_fit,
     new_h0_since_calibration |-> since.new_h0_cal,
     decisions_since_fit |-> since.decisions_fit,
     decisions_since_calibration |-> since.decisions_cal,
     monitor_fpr |-> [hits |-> monitor.false_accepts, of |-> monitor.h0],
     monitor_tpr |-> [hits |-> monitor.true_accepts, of |-> monitor.h1],
     previous_monitor_tpr |-> monitor.previous,
     fit_in_progress |-> FitInProgress]

\* The policy decides; an impossible monitor makes wilson_upper_bound raise
\* and _maybe_auto_refit report auto_refit_failed.
DecideRefit(r) ==
    /\ req[r].at = "rows"
    /\ IF WilsonRaises(monitor.false_accepts, monitor.h0)
       THEN Executed(r)
       ELSE req' = [req EXCEPT ![r].at = "planned", ![r].threshold = NoThreshold,
                               ![r].action = Decide(ContextOf(r))]
    /\ UNCHANGED <<policyVars, since, monitor, provider, store, auto_refit,
                   job, threadVars>>

\* _execute_refit_decision: nothing to do.
ExecuteNoop(r) ==
    /\ req[r].at = "planned"
    /\ req[r].action = "NOOP"
    /\ Executed(r)
    /\ UNCHANGED <<policyVars, since, monitor, provider, store, auto_refit,
                   job, threadVars>>

\* _execute_refit_decision, RECALIBRATE_THRESHOLD: in the request's own
\* thread, or in a thread of its own when there are many rows and no such
\* thread is alive.  The rows are those of the calibration bucket when the
\* store is split: none, some or all of the row total.
ExecuteRecalibrate(r) ==
    /\ req[r].at = "planned"
    /\ req[r].action = "RECALIBRATE_THRESHOLD"
    /\ Executed(r)
    /\ \/ /\ req[r].rows.h0 >= 1
          /\ job' = [job EXCEPT ![r].kind = "recal_sync", ![r].phase = "running"]
          /\ UNCHANGED recal_thread
       \/ /\ req[r].rows.h0 > SyncMaxH0
          /\ ~RecalibrationInProgress
          /\ job' = [job EXCEPT ![r].kind = "recal_async", ![r].phase = "created"]
          /\ recal_thread' = r
       \/ UNCHANGED <<job, recal_thread>>
    /\ UNCHANGED <<policyVars, since, monitor, provider, store, auto_refit,
                   fit_thread>>

\* fit_async under the lock; it raises when a fit is in progress.
StartFit(r) ==
    IF FitInProgress
    THEN UNCHANGED <<job, fit_thread>>
    ELSE /\ job' = [job EXCEPT ![r].kind = "fit", ![r].phase = "created"]
         /\ fit_thread' = r

\* _execute_refit_decision, REFIT_SCORER.  The split is not ready when one of
\* the buckets it needs is empty, which the row totals do not tell.
ExecuteRefit(r) ==
    /\ req[r].at = "planned"
    /\ req[r].action = "REFIT_SCORER"
    /\ Executed(r)
    /\ \/ StartFit(r)
       \/ UNCHANGED <<job, fit_thread>>
    /\ UNCHANGED <<policyVars, since, monitor, provider, store, auto_refit,
                   recal_thread>>

\* fit()/fit_async() called by the user of the oracle instead of decide().
CallFit(r) ==
    /\ UserFits
    /\ req[r].at = "idle"
    /\ req' = [req EXCEPT ![r].at = "done"]
    /\ StartFit(r)
    /\ UNCHANGED <<policyVars, since, monitor, provider, store, auto_refit,
                   recal_thread>>

\* MLCache.set_threshold, also at the end of prefit_and_calibrate: the
\* oracle's threshold is written without the lock and without a new version,
\* the provider is told next.
SetThreshold(r) ==
    /\ "caller" \in GivenBy
    /\ req[r].at = "idle"
    /\ req' = [req EXCEPT ![r].at = "done"]
    /\ threshold' = GivenThreshold
    /\ job' = IF HasProvider
              THEN [job EXCEPT ![r] = [kind |-> "set", phase |-> "publishing",
                                       scorer |-> Cold,
                                       threshold |-> GivenThreshold]]
              ELSE job
    /\ UNCHANGED <<scorer, version, disabled, activated, since, monitor,
                   provider, store, auto_refit, threadVars>>

(***************************************************************************)
(* Fit and recalibration jobs                                              *)
(***************************************************************************)

\* thread.start(), after the lock was released.
StartThread(r) ==
    /\ job[r].phase = "created"
    /\ job' = [job EXCEPT ![r].phase = "running"]
    /\ UNCHANGED <<policyVars, since, monitor, provider, store, auto_refit,
                   req, threadVars>>

\* Mutant: the windows of the monitor are cleared, the accepts in them are not.
ResetMonitorKeepsAccepts ==
    monitor' = [monitor EXCEPT !.h0 = 0, !.h1 = 0]

\* _reset_monitor_counts.
ResetMonitor ==
    monitor' = [h0 |-> 0, h1 |-> 0, false_accepts |-> 0, true_accepts |-> 0,
                previous |->
                  IF monitor.h0 + monitor.h1 >= MonitorWindowMin /\ monitor.h1 > 0
                  THEN [hits |-> monitor.true_accepts, of |-> monitor.h1]
                  ELSE monitor.previous]

CountersAfterFit ==
    [new_h0_fit |-> 0, new_h1_fit |-> 0, new_h0_cal |-> 0,
     decisions_fit |-> 0, decisions_cal |-> 0]

\* Mutant: a threshold that is already set is kept.
SwapPolicyKeepsThreshold(s, tau) ==
    /\ scorer' = s
    /\ threshold' = IF threshold = NoThreshold THEN tau ELSE threshold
    /\ activated' = activated \cup {tau}
    /\ version' = version + 1
    /\ disabled' = FALSE

\* The policy fields a passed gate sets in one hold of the lock.
SwapPolicy(s, tau) ==
    /\ scorer' = s
    /\ threshold' = tau
    /\ activated' = activated \cup {tau}
    /\ version' = version + 1
    /\ disabled' = FALSE

\* What is left to do of a job that activated tau: tell the provider.
ToPublish(r, tau) ==
    job' = IF HasProvider
           THEN [job EXCEPT ![r].phase = "publishing", ![r].threshold = tau]
           ELSE [job EXCEPT ![r] = NoJob]

FitThreshold(r) == [scorer |-> r, by |-> r]

\* _fit_in_current_thread, the swap: the gate passed.
ActivateFit(r) ==
    /\ job[r].kind = "fit" /\ job[r].phase = "running"
    /\ SwapPolicy(r, FitThreshold(r))
    /\ since' = CountersAfterFit
    /\ ResetMonitor
    /\ ToPublish(r, FitThreshold(r))
    /\ UNCHANGED <<provider, store, auto_refit, req, threadVars>>

\* _fit_in_current_thread: the gate failed.
RejectFit(r) ==
    /\ job[r].kind = "fit" /\ job[r].phase = "running"
    /\ disabled' = (disabled \/ Config.deactivate_on_failed_refit)
    /\ job' = [job EXCEPT ![r] = NoJob]
    /\ UNCHANGED <<scorer, threshold, version, activated, since, monitor,
                   provider, store, auto_refit, req, threadVars>>

\* _recalibrate_threshold_from_rows reads the scorer it will calibrate.
ReadScorer(r) ==
    /\ job[r].kind \in {"recal_sync", "recal_async"} /\ job[r].phase = "running"
    /\ job' = [job EXCEPT ![r].phase = "scored", ![r].scorer = scorer]
    /\ UNCHANGED <<policyVars, since, monitor, provider, store, auto_refit,
                   req, threadVars>>

RecalThreshold(r) == [scorer |-> job[r].scorer, by |-> r]

\* The gate passed: the threshold is replaced, whatever the scorer is now.
ActivateRecalibration(r) ==
    /\ job[r].phase = "scored"
    /\ SwapPolicy(scorer, RecalThreshold(r))
    /\ since' = [since EXCEPT !.new_h0_cal = 0, !.decisions_cal = 0]
    /\ ResetMonitor
    /\ ToPublish(r, RecalThreshold(r))
    /\ UNCHANGED <<provider, store, auto_refit, req, threadVars>>

\* Mutant: a rejected threshold still reaches the provider.
RejectRecalibrationPublishes(r) ==
    /\ job[r].phase = "scored"
    /\ job' = [job EXCEPT ![r].phase = "publishing",
                          ![r].threshold = RecalThreshold(r)]
    /\ UNCHANGED <<policyVars, since, monitor, provider, store, auto_refit,
                   req, threadVars>>

\* The gate failed.
RejectRecalibration(r) ==
    /\ job[r].phase = "scored"
    /\ disabled' = (disabled \/ (/\ Config.deactivate_on_failed_refit
                                 /\ threshold = NoThreshold))
    /\ job' = [job EXCEPT ![r] = NoJob]
    /\ UNCHANGED <<scorer, threshold, version, activated, since, monitor,
                   provider, store, auto_refit, req, threadVars>>

\* Scoring, fitting or calibrating raised: the worker (or _maybe_auto_refit)
\* notes the exception and the job is over.
JobRaises(r) ==
    /\ job[r].phase \in {"running", "scored"}
    /\ job' = [job EXCEPT ![r] = NoJob]
    /\ UNCHANGED <<policyVars, since, monitor, provider, store, auto_refit,
                   req, threadVars>>

\* threshold_provider.set_threshold, outside the lock; an exception is
\* swallowed after an activation and raised to the caller of set_threshold.
PublishThreshold(r) ==
    /\ job[r].phase = "publishing"
    /\ provider' \in {job[r].threshold, provider}
    /\ job' = [job EXCEPT ![r] = NoJob]
    /\ UNCHANGED <<policyVars, since, monitor, store, auto_refit, req,
                   threadVars>>

(***************************************************************************)
(* SemanticCacheSystem: policy and freeze                                  *)
(***************************************************************************)

\* handle() reads the policy once decide() has returned, so after a thread it
\* made was started and after a recalibration of its own: first the scorer,
\* without the lock ...
ReadPolicyScorer(r) ==
    /\ req[r].at = "executed"
    /\ job[r].kind # "recal_sync"
    /\ job[r].phase # "created"
    /\ req' = [req EXCEPT ![r].at = "policy", ![r].scorer = scorer]
    /\ UNCHANGED <<policyVars, since, monitor, provider, store, auto_refit,
                   job, threadVars>>

\* ... and then the threshold: the ActivePolicy of the response is complete.
ReadPolicyThreshold(r) ==
    /\ req[r].at = "policy"
    /\ req' = [req EXCEPT ![r].at = "done", ![r].scorer = Cold]
    /\ UNCHANGED <<policyVars, since, monitor, provider, store, auto_refit,
                   job, threadVars>>

Freeze ==
    /\ auto_refit
    /\ auto_refit' = FALSE
    /\ UNCHANGED <<policyVars, since, monitor, provider, store, req, job,
                   threadVars>>

RequestStep(r) ==
    \/ Snapshot(r) \/ ScoreRequest(r) \/ CollectFeedback(r) \/ RecordFeedback(r)
    \/ ReadRefitRows(r) \/ DecideRefit(r) \/ ExecuteNoop(r)
    \/ ExecuteRecalibrate(r) \/ ExecuteRefit(r)
    \/ ReadPolicyScorer(r) \/ ReadPolicyThreshold(r)

JobStep(r) ==
    \/ StartThread(r) \/ ActivateFit(r) \/ RejectFit(r) \/ ReadScorer(r)
    \/ ActivateRecalibration(r) \/ RejectRecalibration(r) \/ JobRaises(r)
    \/ PublishThreshold(r)

Next ==
    \/ \E r \in Requests :
          RequestStep(r) \/ JobStep(r) \/ CallFit(r) \/ SetThreshold(r)
    \/ Freeze

Spec == Init /\ [][Next]_vars

(***************************************************************************)
(* Properties                                                              *)
(***************************************************************************)

\* The online monitor never counts more accepted H0 (H1) pairs than H0 (H1)
\* pairs: otherwise wilson_upper_bound raises in every _maybe_auto_refit and
\* nothing resets the monitor any more.  A window may be reset between the
\* decision and the feedback of a request.
MonitorWithinCounts ==
    /\ monitor.false_accepts <= monitor.h0
    /\ monitor.true_accepts <= monitor.h1

\* The three windows the refit policy compares stay nested whatever the order
\* of feedback, fits and recalibrations: the monitor covers exactly the H0
\* pairs since the last calibration, and nothing counted since a calibration
\* is missing from what is counted since the last fit.
WindowsNested ==
    /\ monitor.h0 = since.new_h0_cal
    /\ since.new_h0_cal <= since.new_h0_fit
    /\ since.decisions_cal <= since.decisions_fit

\* A threshold that a fit calibrated is live, and is seen by a request that
\* snapshots under the lock, only together with the scorer of that fit.
FromOneFit(s, tau) ==
    tau # NoThreshold /\ tau.by = tau.scorer => s = tau.scorer

PairsFromOneFit ==
    /\ FromOneFit(scorer, threshold)
    /\ \A r \in Requests :
          req[r].at = "snapped" => FromOneFit(req[r].scorer, req[r].threshold)

\* Whatever a request can serve with, in the oracle, the provider or its own
\* hands, was given from outside or passed an activation gate: a fit or a
\* recalibration that was rejected, or has not been judged yet, leaves no trace
\* in any of them.  And there is no HIT without a threshold.
Servable == activated \cup {NoThreshold, GivenThreshold}

RejectedNeverServes ==
    /\ {threshold, provider} \subseteq Servable
    /\ \A r \in Requests :
          /\ req[r].threshold \in Servable
          /\ req[r].at = "scored" /\ req[r].status = "HIT"
               => req[r].threshold # NoThreshold

\* threshold_version counts the activations, and no job activates twice: two
\* thresholds that were activated never share a version.  (set_threshold
\* replaces the threshold and leaves the version as it is.)
VersionCountsActivations == version = Cardinality(activated)

\* What README.md says of an activation: the scorer and the threshold are one
\* versioned unit.
LivePairSameGeneration == threshold \in activated => threshold.scorer = scorer

\* What README.md says of a cold start: until a calibrated policy exists,
\* ActivePolicy.calibrated being that the oracle has a threshold, the oracle
\* abstains and every request is a genuine call of the LLM.  The code breaks it when
\* the provider was given a threshold or kept one of an earlier process.
ColdStartAbstains ==
    \A r \in Requests : req[r].at = "scored" /\ req[r].status = "HIT"
                        => threshold # NoThreshold

\* What README.md and the docstring say of SemanticCacheSystem.policy: the
\* scorer and the threshold in it belong to one activation.  A request at
\* "policy" has read the scorer and reads the threshold next; the code breaks it
\* when a fit activates at this moment.
PolicyFromOneFit ==
    \A r \in Requests : req[r].at = "policy" => FromOneFit(req[r].scorer, threshold)
=============================================================================
