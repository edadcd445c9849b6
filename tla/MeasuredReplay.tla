---------------------------- MODULE MeasuredReplay ----------------------------
(***************************************************************************)
(* run_one_system of online_replay_h1h0_final.py: a stream of dataset rows *)
(* is served by a SemanticCacheSystem that learns meanwhile, first to warm *)
(* it up and then to measure it.  The judge of the shadow collector tells  *)
(* a MetricsRecorder of every pair it judges, and each request is resolved *)
(* against the decision that was served; besides, the cache hits are       *)
(* audited one by one, by the verdicts of the judge that are on file.      *)
(*                                                                         *)
(* A score is what the oracle does with it: any retrieved candidate may be *)
(* accepted once there is a threshold.  Fits and recalibrations run in     *)
(* threads of their own; whether their gate lets them activate is left     *)
(* open, and nothing is deactivated (deactivate_on_failed_refit is False). *)
(***************************************************************************)
EXTENDS Stopping, FiniteSets

CONSTANTS
    Rows,                          \* DatasetRow
    TopK, BatchSize, MaxAttempts,
    OptionsSet,                    \* streams and configurations to choose from
    Verdict,                       \* what the LLM says of a row and a candidate, at temperature 0
    None,
    MaxVersion                     \* bound: activations

VARIABLES
    options,   \* method, warm-up and measured stream, shared_cache, judge_cache,
               \* freeze_after_warmup; anchors: the replay of AnchorReplay; main:
               \* the rows of OnlineComparison, 0 in the other two
    phase,     \* "warmup", "refit", "measured" or "done"
    idx,       \* request index within the phase
    at,        \* what the serving thread does next: "next", "judge", "handled" or "check"
    request,   \* candidates left to judge, the accepted one, the policy of the decision
    rows,      \* rows that are in the cache
    verdicts,  \* pairs in the JudgeDecisionCache
    policy,    \* live scorer and threshold
    learning,  \* auto_refit, and the threads that run
    recorder,  \* MetricsRecorder
    session,   \* active_session_start_index and active_session_baseline
    audit,     \* counts of audit_rows
    attempts,  \* of _force_refit_after_warmup
    stopping,  \* the stopping controller, and _update_count
    frozen

vars == <<options, phase, idx, at, request, rows, verdicts, policy, learning, recorder,
          session, audit, attempts, stopping, frozen>>
serving == <<idx, at, request, rows, verdicts>>
measuring == <<recorder, session, audit>>

Labels == {"H1", "H0", "UNCERTAIN"}
Jobs == {"refit", "recalibrate"}

ASSUME ReplayAssumption ==
    /\ \A o \in OptionsSet :
          /\ o.warmup \in Seq(Rows) /\ o.measured \in Seq(Rows)
          /\ \A i \in DOMAIN o.warmup, j \in DOMAIN o.measured : o.warmup[i] # o.measured[j]
    /\ None \notin Rows \cup Nat
    /\ Verdict \in [Rows \X Rows -> Labels]
    /\ \A x \in {TopK, BatchSize, MaxAttempts} : x \in Nat \ {0}
    /\ MaxVersion \in Nat

\* run_one_system wraps the live scorer in a TimingScorer, when the system has
\* already kept the bare one as its cold scorer; the other two replays do not.
Timed == ~options.anchors /\ options.main = 0

\* system.policy: the two flags of a snapshot.  A scorer is trained if it is not the
\* cold one, which the wrapper never is; bare cosine is trained when calibrated.
Calibrated(p) == p.finite
Trained(p) ==
    \/ Timed
    \/ IF options.method = "ensemble" THEN p.fitted ELSE p.finite

\* Mutant: the flag of a trained scorer decides for cosine too.
ActiveWhenTrained(p) == Trained(p)

Active(p) == IF options.method = "ensemble" THEN Trained(p) ELSE Calibrated(p)

Cold == [version |-> 0, fitted |-> FALSE, finite |-> FALSE]
NoRequest == [candidates |-> {}, accepted |-> None, policy |-> Cold]
NoCounts == [true_accepts |-> 0, false_accepts |-> 0, true_rejects |-> 0,
             false_rejects |-> 0, unjudged_accepts |-> 0]
NoAudit == [tp |-> 0, fp |-> 0, uncertain |-> 0]

Init ==
    /\ options \in OptionsSet
    /\ phase = IF options.warmup = <<>> THEN "refit" ELSE "warmup"
    /\ idx = 0 /\ at = "next" /\ request = NoRequest
    /\ rows = {}
    /\ verdicts = {}
    /\ policy = Cold
    /\ learning = [auto |-> TRUE, jobs |-> {}]
    /\ recorder = [pending |-> {}, counts |-> NoCounts]
    /\ session = [start |-> None, baseline |-> NoCounts]
    /\ audit = [all |-> NoAudit, post |-> NoAudit]
    /\ attempts = 0
    /\ stopping = [controller |-> NewController, updates |-> 0]
    /\ frozen = FALSE

Stream == IF phase = "warmup" THEN options.warmup ELSE options.measured
Row == Stream[idx]
Serves == phase \in {"warmup", "measured"}

(***************************************************************************)
(* SemanticCacheSystem.handle.                                             *)
(***************************************************************************)
\* The decision on the nearest rows, made with the policy of this moment.
Decide(candidates, accepted) ==
    /\ Serves /\ at = "next"
    /\ idx < Len(Stream)
    /\ Cardinality(candidates) =
         IF Cardinality(rows) < TopK THEN Cardinality(rows) ELSE TopK
    /\ accepted # None => Calibrated(policy)
    /\ idx' = idx + 1
    /\ at' = "judge"
    /\ request' = [candidates |-> candidates \ {Stream[idx + 1]}, accepted |-> accepted,
                   policy |-> policy]
    /\ UNCHANGED <<options, phase, rows, verdicts, policy, learning, measuring, attempts,
                   stopping, frozen>>

\* judge and record_judge.  A pair on file has the verdict that is there.
JudgeCandidate(c) ==
    LET label == Verdict[Row, c]
    IN  /\ at = "judge" /\ c \in request.candidates
        /\ verdicts' = IF options.judge_cache THEN verdicts \cup {<<Row, c>>} ELSE verdicts
        /\ recorder' = [recorder EXCEPT !.pending =
                            @ \cup {[index |-> idx, key |-> c, label |-> label]}]
        /\ request' = [request EXCEPT !.candidates = @ \ {c}]
        /\ UNCHANGED <<options, phase, idx, at, rows, policy, learning, session, audit,
                       attempts, stopping, frozen>>

\* The call to the LLM raises, and the collector goes on without the pair.
JudgeFails(c) ==
    /\ at = "judge" /\ c \in request.candidates
    /\ <<Row, c>> \notin verdicts
    /\ request' = [request EXCEPT !.candidates = @ \ {c}]
    /\ UNCHANGED <<options, phase, idx, at, rows, verdicts, policy, learning, measuring,
                   attempts, stopping, frozen>>

\* What the refit policy may start: nothing, or a thread that is not running.
MayStart(jobs) ==
    /\ Cardinality(jobs) <= 1
    /\ jobs # {} => learning.auto /\ jobs \cap learning.jobs = {}

\* The rest of the lookup and, on a miss, the put; then, with a shared cache,
\* the row is written through on a hit as well.
Return(jobs) ==
    /\ at = "judge" /\ request.candidates = {}
    /\ MayStart(jobs)
    /\ learning' = [learning EXCEPT !.jobs = @ \cup jobs]
    /\ rows' = IF request.accepted = None \/ options.shared_cache
               THEN rows \cup {Row} ELSE rows
    /\ at' = "handled"
    /\ UNCHANGED <<options, phase, idx, request, verdicts, policy, measuring, attempts,
                   stopping, frozen>>

(***************************************************************************)
(* The threads of the oracle.                                              *)
(***************************************************************************)
\* A job that its gate lets activate; the scorer of a refit is a fitted one.
Activate(job) ==
    /\ job \in learning.jobs
    /\ policy.version < MaxVersion
    /\ policy' = [version |-> policy.version + 1, finite |-> TRUE,
                  fitted |-> policy.fitted \/ job = "refit"]
    /\ learning' = [learning EXCEPT !.jobs = @ \ {job}]
    /\ UNCHANGED <<options, phase, serving, measuring, attempts, stopping, frozen>>

Reject(job) ==
    /\ job \in learning.jobs
    /\ learning' = [learning EXCEPT !.jobs = @ \ {job}]
    /\ UNCHANGED <<options, phase, serving, policy, measuring, attempts, stopping, frozen>>

(***************************************************************************)
(* The bookkeeping after a request.                                        *)
(***************************************************************************)
\* What resolve_request adds to a count: the pending pairs of the request with
\* one of the labels, served or not.
Pairs(label, served) ==
    Cardinality({pair \in recorder.pending :
        /\ pair.index = idx /\ pair.label = label
        /\ served <=> pair.key = request.accepted})

Resolved ==
    LET matched == \E pair \in recorder.pending :
                      /\ pair.index = idx /\ pair.key = request.accepted
                      /\ pair.label # "UNCERTAIN"
        old == recorder.counts
    IN  [pending |-> {pair \in recorder.pending : pair.index # idx},
         counts |-> [true_accepts |-> old.true_accepts + Pairs("H1", TRUE),
                     false_accepts |-> old.false_accepts + Pairs("H0", TRUE),
                     true_rejects |-> old.true_rejects + Pairs("H0", FALSE),
                     false_rejects |-> old.false_rejects + Pairs("H1", FALSE),
                     unjudged_accepts |-> old.unjudged_accepts +
                        (IF request.accepted # None /\ ~matched THEN 1 ELSE 0)]]

\* Mutant: the accounting begins with the request that found the policy active.
StartHere == idx

StartAfter == idx + 1

\* The active session starts when the policy is first found to be active.
Session(counts) ==
    IF session.start = None /\ Active(policy)
    THEN [start |-> StartAfter, baseline |-> counts]
    ELSE session

\* reuse_label.
ReuseLabel ==
    IF <<Row, request.accepted>> \in verdicts THEN Verdict[Row, request.accepted]
    ELSE "UNCERTAIN"

Count1(counts, label) ==
    [counts EXCEPT !.tp = IF label = "H1" THEN @ + 1 ELSE @,
                   !.fp = IF label = "H0" THEN @ + 1 ELSE @,
                   !.uncertain = IF label = "UNCERTAIN" THEN @ + 1 ELSE @]

\* The audit row of a hit.
Audited(started) ==
    IF request.accepted = None THEN audit
    ELSE [all |-> Count1(audit.all, ReuseLabel),
          post |-> IF started.start # None /\ idx >= started.start
                   THEN Count1(audit.post, ReuseLabel) ELSE audit.post]

Account ==
    /\ at = "handled"
    /\ recorder' = Resolved
    /\ IF phase = "measured"
       THEN /\ session' = Session(Resolved.counts)
            /\ audit' = Audited(Session(Resolved.counts))
            /\ at' = IF idx % BatchSize = 0 THEN "check" ELSE "next"
       ELSE /\ at' = "next"
            /\ UNCHANGED <<session, audit>>
    /\ request' = NoRequest
    /\ UNCHANGED <<options, phase, idx, rows, verdicts, policy, learning, attempts, stopping,
                   frozen>>

(***************************************************************************)
(* _maybe_check_stopping.                                                  *)
(***************************************************************************)
SkipCheck ==
    /\ at = "check"
    /\ at' = "next"
    /\ UNCHANGED <<options, phase, idx, request, rows, verdicts, policy, learning, measuring,
                   attempts, stopping, frozen>>

\* The threshold, and then the scorer, are read while threads may activate
\* others, so the rate is any.
CheckStopping(rate, enough) ==
    LET updates == stopping.updates + 1
        after == Observe(stopping.controller, updates,
                         [threshold |-> policy.version, rate |-> rate], enough)
    IN  /\ at = "check"
        /\ ~frozen /\ Calibrated(policy)
        /\ stopping' = [controller |-> after, updates |-> updates]
        /\ frozen' = after.stopped
        /\ learning' = [learning EXCEPT !.auto = @ /\ ~after.stopped]
        /\ at' = "next"
        /\ UNCHANGED <<options, phase, idx, request, rows, verdicts, policy, measuring, attempts>>

(***************************************************************************)
(* From the warm-up to the measured replay.                                *)
(***************************************************************************)
WarmupEnds ==
    /\ phase = "warmup" /\ at = "next" /\ idx = Len(options.warmup)
    /\ phase' = "refit"
    /\ UNCHANGED <<options, serving, policy, learning, measuring, attempts, stopping, frozen>>

\* One round of _force_refit_after_warmup: wait_for_fit may time out, and the
\* rounds go on only while there is a refit to start (never with a timed scorer).
ForceRefit ==
    /\ phase = "refit" /\ options.warmup # <<>>
    /\ ~Trained(policy) /\ attempts < MaxAttempts
    /\ MayStart({"refit"})
    /\ learning' = [learning EXCEPT !.jobs = @ \cup {"refit"}]
    /\ attempts' = attempts + 1
    /\ UNCHANGED <<options, phase, serving, policy, measuring, stopping, frozen>>

ResetRecorder == [pending |-> {}, counts |-> NoCounts]

\* The last round starts at most a recalibration; then the recorder is reset
\* and learning stops if it should.
EnterMeasured(jobs) ==
    /\ phase = "refit"
    /\ jobs \subseteq {"recalibrate"} /\ MayStart(jobs)
    /\ jobs # {} => options.warmup # <<>> /\ ~Trained(policy) /\ attempts < MaxAttempts
    /\ phase' = "measured"
    /\ idx' = 0
    /\ recorder' = IF options.warmup = <<>> THEN recorder ELSE ResetRecorder
    /\ learning' = [auto |-> learning.auto /\ ~options.freeze_after_warmup,
                    jobs |-> learning.jobs \cup jobs]
    /\ UNCHANGED <<options, at, request, rows, verdicts, policy, audit, attempts, stopping, frozen>>

\* The session starts at once if the policy is active.
BeginMeasured(jobs) ==
    /\ EnterMeasured(jobs)
    /\ session' = IF Active(policy) THEN [start |-> 1, baseline |-> NoCounts] ELSE session

Finish ==
    /\ phase = "measured" /\ at = "next" /\ idx = Len(options.measured)
    /\ phase' = "done"
    /\ UNCHANGED <<options, serving, policy, learning, measuring, attempts, stopping, frozen>>

Decides == \E candidates \in SUBSET rows :
              \E accepted \in candidates \cup {None} : Decide(candidates, accepted)
Judges == \E c \in request.candidates :
             JudgeFails(c) \/ JudgeCandidate(c)
Returns == \E jobs \in SUBSET Jobs : Return(jobs)
Learns == \E job \in Jobs : Activate(job) \/ Reject(job)
Checks == SkipCheck \/ \E rate \in Rates, enough \in BOOLEAN : CheckStopping(rate, enough)
Begins == \E jobs \in SUBSET Jobs : BeginMeasured(jobs)

Next ==
    \/ Decides
    \/ Judges
    \/ Returns
    \/ Learns
    \/ Account
    \/ Checks
    \/ WarmupEnds
    \/ ForceRefit
    \/ Begins
    \/ Finish

Spec == Init /\ [][Next]_vars

(***************************************************************************)
(* Properties.                                                             *)
(***************************************************************************)
Policies == [version : 0..MaxVersion, fitted : BOOLEAN, finite : BOOLEAN]
Pair == [index : Nat, key : Rows, label : Labels]
Counts == [true_accepts : Nat, false_accepts : Nat, true_rejects : Nat,
           false_rejects : Nat, unjudged_accepts : Nat]
AuditCounts == [tp : Nat, fp : Nat, uncertain : Nat]

TypeOK ==
    /\ options \in OptionsSet
    /\ phase \in {"warmup", "refit", "measured", "done", "failed"}
    /\ idx \in Nat /\ at \in {"next", "judge", "handled", "check"}
    /\ request \in [candidates : SUBSET Rows, accepted : Rows \cup {None}, policy : Policies]
    /\ rows \subseteq Rows
    /\ verdicts \subseteq Rows \X Rows
    /\ policy \in Policies
    /\ learning \in [auto : BOOLEAN, jobs : SUBSET Jobs]
    /\ recorder \in [pending : SUBSET Pair, counts : Counts]
    /\ session \in [start : Nat \cup {None}, baseline : Counts]
    /\ audit \in [all : AuditCounts, post : AuditCounts]
    /\ attempts \in 0..MaxAttempts
    /\ stopping.updates \in Nat /\ frozen \in BOOLEAN

Agrees(audited, counts, baseline) ==
    /\ audited.tp = counts.true_accepts - baseline.true_accepts
    /\ audited.fp = counts.false_accepts - baseline.false_accepts
    /\ audited.uncertain = counts.unjudged_accepts - baseline.unjudged_accepts

\* The two accounts of a replay agree, as long as verdicts are kept: the audit,
\* which goes through the hits and reads verdicts back, finds as many true and
\* false positives as the recorder, which joins judged pairs with decisions as
\* they are made, over the measured replay and over the active session.
AuditAgrees ==
    (phase \in {"measured", "done"} /\ at \in {"next", "check"} /\ options.judge_cache
        /\ ~options.anchors) =>
        /\ Agrees(audit.all, recorder.counts, NoCounts)
        /\ IF session.start # None
           THEN Agrees(audit.post, recorder.counts, session.baseline)
           ELSE audit.post = NoAudit

\* The active session of cosine, which metrics_since reports: once it has its
\* baseline, a request adds to the counts only if its decision was made with a
\* threshold, whenever the thread that activated one did so.
CosineSessionIsActive ==
    [][(/\ phase = "measured" /\ session.start # None /\ recorder'.counts # recorder.counts
        /\ options.method = "cosine")
          => request.policy.finite]_vars

\* What the active session is for, in either method: it counts only decisions made
\* with a threshold and, in the ensemble, with a fitted scorer.  The ensemble, whose
\* wrapped scorer counts as trained, is active from the first request on, and so the
\* code breaks it.
ActiveSessionIsActive ==
    [][(phase = "measured" /\ session.start # None /\ recorder'.counts # recorder.counts)
          => /\ request.policy.finite
             /\ options.method = "ensemble" => request.policy.fitted]_vars

\* The checks of a window from some batch on.
ChecksFrom(first) ==
    {i \in Window..Len(stopping.controller.history) : i >= first /\ i % CheckEvery = 0}

\* The policy is frozen only by convergence: at each of the last checks, of
\* which there are as many as patience asks for, the observations of the window
\* were the same and the FPR within the limit; a check that differs, or one
\* that skips batches, does not count.
FrozenMeansConverged ==
    frozen =>
        LET history == stopping.controller.history
        IN  \E first \in DOMAIN history :
                /\ Cardinality(ChecksFrom(first)) >= Patience
                /\ \A i \in ChecksFrom(first) :
                      /\ \A j \in i - Window + 1..i : history[j] = history[i]
                      /\ history[i].rate <= FprLimit
=============================================================================
