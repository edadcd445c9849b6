--------------------------- MODULE AdaptiveThreshold ---------------------------
(***************************************************************************)
(* OfflineReplayRunner driving one admission method over a stream of       *)
(* selected candidates: a fixed threshold of batch calibration, or the     *)
(* GlobalACIController, which moves its own false-positive budget alpha    *)
(* after every audited H0 candidate and takes its threshold from the       *)
(* scores of those.                                                        *)
(*                                                                         *)
(* Scores are integers and nextafter is the next integer.  Rates are       *)
(* integers out of Unit, and gamma is given by what one update adds to     *)
(* alpha: Up for a rejected H0, -Down for an accepted one.  A threshold of *)
(* Infinity accepts nothing; it stands for None as well, which the         *)
(* controller turns into it.                                               *)
(***************************************************************************)
EXTENDS Integers, Sequences, FiniteSets

CONSTANTS
    Scores,          \* of selected candidates
    Infinity,
    Configs,         \* the admission methods tried
    Unit,            \* what rates are out of
    Target,          \* alpha_target
    AlphaMin, AlphaMax,
    Up, Down,        \* gamma * alpha_target, gamma * (1 - alpha_target)
    BufferSize,
    WilsonZ,
    WilsonWindow,
    WilsonMargin,    \* fpr_wilson_margin of the query-level calibration
    MinSelected,     \* its min_selected_h0
    AcceptMargin, RejectMargin,
    AuditedZones,    \* those whose diagnostic audit has a probability above 0
    MaxCalibration,  \* bound: selected H0 scores of the calibration prefix
    MaxEvents        \* bound: queries served

Ties == {"GE", "GT"}
Zones == {"safe_accept", "borderline_accept", "borderline_reject", "safe_reject"}

\* What the judge knows of the selected pair: nothing, unless it is the query's own.
Labels == {"H0", "H1", "unknown"}

\* The rows of the frozen table: the best of the candidates a search found.
Selections == [score : Scores, label : Labels]

ConfigType == [method : {"fixed", "aci"}, tie : Ties, gate : BOOLEAN,
               min_buffer : Nat \ {0}, warm : {"cold", "batch", "gated"}]

ASSUME AdaptiveAssumption ==
    /\ Scores \subseteq Int
    /\ Infinity \in Int
    /\ \A s \in Scores : s + 1 < Infinity
    /\ Configs \subseteq ConfigType
    /\ Unit \in Nat \ {0}
    /\ Target \in Nat /\ AlphaMin \in Nat \ {0} /\ AlphaMax \in Nat
    /\ AlphaMin <= Target /\ Target <= AlphaMax /\ AlphaMax < Unit
    /\ Up \in Nat \ {0} /\ Down \in Nat \ {0}
    /\ Up * (Unit - Target) = Down * Target
    /\ BufferSize \in Nat \ {0}
    /\ WilsonZ \in Nat \ {0}
    /\ WilsonWindow \in Nat \ {0}
    /\ WilsonMargin \in Nat
    /\ MinSelected \in Nat \ {0}
    /\ AcceptMargin \in Nat /\ RejectMargin \in Nat
    /\ AuditedZones \subseteq Zones
    /\ MaxCalibration \in Nat
    /\ MaxEvents \in Nat

VARIABLES
    config,      \* the method that is run
    calibration, \* selected H0 scores of the calibration prefix
    fallback,    \* fallback_threshold; the threshold itself of a fixed method
    alpha,       \* alpha_t
    buffer,      \* recent control-audited H0 scores, seeded with the calibration's
    origin,      \* for each of them, whether it was appended by update
    outcomes,    \* recent control-audited outcomes: 1 for a false hit
    counts,      \* _h0_seen, _update_count, _blocked_loosen_count
    metrics,     \* AdmissionMetrics
    lifted       \* history: alpha was once held up by alpha_min

controller == <<alpha, buffer, origin, outcomes, counts, lifted>>
adaptiveVars == <<config, calibration, fallback, controller, metrics>>

CountsType == [h0_seen : Nat, updates : Nat, blocked : Nat]
Counter == [h0 : Nat, h1 : Nat, fp : Nat, tp : Nat]
NoCount == [h0 |-> 0, h1 |-> 0, fp |-> 0, tp |-> 0]
MetricsType == [total : Nat, accepted : Nat, unjudged_hits : Nat, judged : Nat,
                provider_calls : Nat, truth : Counter, raw : Counter, control : Counter,
                weighted : Counter]

(***************************************************************************)
(* Thresholds from H0 scores.                                              *)
(***************************************************************************)
Accepts(tie, score, tau) == IF tie = "GT" THEN score > tau ELSE score >= tau

Accepted(tie, scores, tau) == {i \in DOMAIN scores : Accepts(tie, scores[i], tau)}

AcceptCount(tie, scores, tau) == Cardinality(Accepted(tie, scores, tau))

Allowed(rate, n) == (rate * n) \div Unit

Values(scores) == {scores[i] : i \in DOMAIN scores}

\* values[k - 1] of the scores sorted in descending order.
KthLargest(scores, k) ==
    CHOOSE v \in Values(scores) :
        /\ AcceptCount("GE", scores, v) >= k
        /\ AcceptCount("GT", scores, v) < k

\* As a slip would have it: the boundary score is taken without a look at ties.
SelectedThresholdTied(tie, scores, rate) ==
    IF scores = <<>> \/ Allowed(rate, Len(scores)) = 0
    THEN Infinity
    ELSE KthLargest(scores, Allowed(rate, Len(scores)))

\* threshold_from_selected_h0_scores.
SelectedThreshold(tie, scores, rate) ==
    IF scores = <<>>
    THEN Infinity
    ELSE LET allowed == Allowed(rate, Len(scores))
             boundary == KthLargest(scores, IF allowed = 0 THEN 1 ELSE allowed)
             fits == AcceptCount("GE", scores, boundary) <= allowed
         IN  IF tie = "GE"
             THEN IF fits THEN boundary ELSE boundary + 1
             ELSE IF fits THEN boundary - 1 ELSE boundary

\* scores_to_threshold, the pair-level counterpart.
ScoresToThreshold(tie, scores, rate) ==
    LET within == {v \in Values(scores) :
                     Unit * AcceptCount(tie, scores, v) <= rate * Len(scores)}
    IN  IF within = {} THEN Infinity
        ELSE CHOOSE v \in within : \A w \in within : v <= w

(***************************************************************************)
(* wilson_upper_bound(k, n, z) > rate / Unit, for k <= n and n > 0:        *)
(* the bound is (2k + zz + z * sqrt(4k(n-k)/n + zz)) / (2(n + zz)).        *)
(***************************************************************************)
WilsonExceeds(k, n, rate) ==
    LET zz == WilsonZ * WilsonZ
        rest == 2 * rate * (n + zz) - Unit * (2 * k + zz)
    IN  \/ rest < 0
        \/ Unit * Unit * zz * (4 * k * (n - k) + zz * n) > rest * rest * n

\* The threshold of DefaultQueryLevelCalibrationBuilder.calibrate, behind its gate.
GatedThreshold(tie, scores) ==
    LET tau == SelectedThreshold(tie, scores, Target)
    IN  IF /\ Len(scores) >= MinSelected
           /\ ~WilsonExceeds(AcceptCount(tie, scores, tau), Len(scores), Target + WilsonMargin)
        THEN tau
        ELSE Infinity

(***************************************************************************)
(* The controller.                                                         *)
(***************************************************************************)
\* append to a deque with maxlen.
Push(queue, x, size) ==
    LET longer == Append(queue, x)
    IN  IF Len(longer) > size THEN Tail(longer) ELSE longer

\* What is left in a deque with maxlen after every element was appended.
Newest(scores, size) ==
    IF Len(scores) > size THEN SubSeq(scores, Len(scores) - size + 1, Len(scores)) ELSE scores

\* What the calibration prefix may hold of selected H0 scores.
CalibrationScores == UNION {[1..n -> Scores] : n \in 0..MaxCalibration}

\* calibrate_selected_h0.
BatchThreshold(tie, scores) == SelectedThreshold(tie, scores, Target)

AdaptiveInit ==
    /\ config \in Configs
    /\ calibration \in CalibrationScores
    /\ config.method = "fixed" => calibration # <<>>
    /\ fallback = CASE config.warm = "cold" -> Infinity
                    [] config.warm = "batch" -> BatchThreshold(config.tie, calibration)
                    [] config.warm = "gated" -> GatedThreshold(config.tie, calibration)
    /\ alpha = Target
    /\ buffer = IF config.warm = "cold" THEN <<>> ELSE Newest(calibration, BufferSize)
    /\ origin = [i \in DOMAIN buffer |-> FALSE]
    /\ outcomes = <<>>
    /\ counts = [h0_seen |-> 0, updates |-> 0, blocked |-> 0]
    /\ metrics = [total |-> 0, accepted |-> 0, unjudged_hits |-> 0, judged |-> 0,
                  provider_calls |-> 0, truth |-> NoCount, raw |-> NoCount, control |-> NoCount,
                  weighted |-> NoCount]
    /\ lifted = FALSE

BufferReady == config.method = "aci" /\ Len(buffer) >= config.min_buffer

CurrentThreshold ==
    IF BufferReady THEN SelectedThreshold(config.tie, buffer, alpha) ELSE fallback

FalseHits(queue) == Cardinality({i \in DOMAIN queue : queue[i] = 1})

\* An upward move that the Wilson gate blocks; window holds the new outcome.
Blocks(window, proposed) ==
    /\ config.gate
    /\ proposed > alpha
    /\ WilsonExceeds(FalseHits(window), Len(window), Target)

\* As a slip would have it: clipped from below at alpha_target.
ClipAtTarget(proposed) ==
    IF proposed < Target THEN Target
    ELSE IF proposed > AlphaMax THEN AlphaMax ELSE proposed

\* The clip to [alpha_min, alpha_max].
Clip(proposed) ==
    IF proposed < AlphaMin THEN AlphaMin
    ELSE IF proposed > AlphaMax THEN AlphaMax ELSE proposed

\* update of a control-audited H0 candidate.
Update(score, accepted) ==
    LET window == Push(outcomes, IF accepted THEN 1 ELSE 0, WilsonWindow)
        moved == IF accepted THEN alpha - Down ELSE alpha + Up
        blocked == Blocks(window, moved)
    IN  /\ buffer' = Push(buffer, score, BufferSize)
        /\ origin' = Push(origin, TRUE, BufferSize)
        /\ outcomes' = window
        /\ alpha' = Clip(IF blocked THEN alpha ELSE moved)
        /\ lifted' = (lifted \/ moved < AlphaMin)
        /\ counts' = [h0_seen |-> counts.h0_seen + 1, updates |-> counts.updates + 1,
                      blocked |-> counts.blocked + (IF blocked THEN 1 ELSE 0)]

\* As a slip would have it: whatever was judged is learned from.
LearnsJudged(label, control) == config.method = "aci" /\ label = "H0"

\* learn: only the control-audited slice, and of it only H0, moves the controller.
Learns(label, control) == config.method = "aci" /\ control /\ label = "H0"

Learn(score, label, accepted, control) ==
    IF Learns(label, control) THEN Update(score, accepted) ELSE UNCHANGED controller

(***************************************************************************)
(* MarginBandAuditPolicy: two independent draws, the second one by the     *)
(* margin.                                                                 *)
(***************************************************************************)
Zone(margin) ==
    IF margin >= AcceptMargin THEN "safe_accept"
    ELSE IF margin >= 0 THEN "borderline_accept"
    ELSE IF margin >= -RejectMargin THEN "borderline_reject"
    ELSE "safe_reject"

Audits(score, tau) ==
    {audit \in [control : BOOLEAN, diagnostic : BOOLEAN] :
       audit.diagnostic => Zone(score - tau) \in AuditedZones}

(***************************************************************************)
(* Metrics and the loop of the runner.                                     *)
(***************************************************************************)
Indicator(condition) == IF condition THEN 1 ELSE 0

Add(counter, label, accepted) ==
    [h0 |-> counter.h0 + Indicator(label = "H0"),
     h1 |-> counter.h1 + Indicator(label = "H1"),
     fp |-> counter.fp + Indicator(label = "H0" /\ accepted),
     tp |-> counter.tp + Indicator(label = "H1" /\ accepted)]

AddIf(condition, counter, label, accepted) ==
    IF condition THEN Add(counter, label, accepted) ELSE counter

\* AdmissionMetrics.record.
Record(label, accepted, audit) ==
    LET judged == audit.control \/ audit.diagnostic
    IN  metrics' =
          [total |-> metrics.total + 1,
           accepted |-> metrics.accepted + Indicator(accepted),
           unjudged_hits |-> metrics.unjudged_hits + Indicator(accepted /\ ~judged),
           judged |-> metrics.judged + Indicator(judged),
           provider_calls |-> metrics.provider_calls + Indicator(~accepted),
           truth |-> Add(metrics.truth, label, accepted),
           raw |-> AddIf(judged, metrics.raw, label, accepted),
           control |-> AddIf(audit.control, metrics.control, label, accepted),
           weighted |-> AddIf(audit.diagnostic, metrics.weighted, label, accepted)]

\* One query: decided on its score alone, audited at random, and only then labelled.
Serve ==
    \E row \in Selections :
        LET tau == CurrentThreshold
            accepted == Accepts(config.tie, row.score, tau)
        IN  \E audit \in Audits(row.score, tau) :
              /\ metrics.total < MaxEvents
              /\ Learn(row.score, row.label, accepted, audit.control)
              /\ Record(row.label, accepted, audit)
              /\ UNCHANGED <<config, calibration, fallback>>

AdaptiveNext == Serve
AdaptiveSpec == AdaptiveInit /\ [][AdaptiveNext]_adaptiveVars

(***************************************************************************)
(* Properties.                                                             *)
(***************************************************************************)
AdaptiveTypeOK ==
    /\ config \in Configs
    /\ calibration \in Seq(Scores)
    /\ fallback \in Int
    /\ alpha \in AlphaMin..AlphaMax
    /\ buffer \in Seq(Scores) /\ Len(buffer) <= BufferSize
    /\ origin \in Seq(BOOLEAN) /\ Len(origin) = Len(buffer)
    /\ outcomes \in Seq({0, 1}) /\ Len(outcomes) <= WilsonWindow
    /\ counts \in CountsType
    /\ metrics \in MetricsType
    /\ lifted \in BOOLEAN

\* The online threshold never accepts more of the H0 scores it was computed from
\* than alpha allows, ties included, and accepts exactly those that the
\* pair-level rule (scores_to_threshold) accepts for the same rate: the two
\* calibrations and the controller draw the line at the same place.
ThresholdsAgree ==
    \A tie \in Ties, rate \in {alpha, Target}, scores \in {buffer, calibration} :
        LET online == Accepted(tie, scores, SelectedThreshold(tie, scores, rate))
        IN  /\ Cardinality(online) <= Allowed(rate, Len(scores))
            /\ online = Accepted(tie, scores, ScoresToThreshold(tie, scores, rate))

\* Adaptive conformal inference's promise: as long as alpha_min has not held
\* alpha up, the false hits among the audited H0 candidates are paid for.  Their
\* excess over the target share, times gamma, is what alpha has fallen by, and
\* neither the Wilson gate nor alpha_max can make it more.
FalseHitsPaidFor ==
    config.method = "aci" /\ ~lifted =>
        Down * metrics.control.fp - Up * (metrics.control.h0 - metrics.control.fp)
            <= Target - alpha

\* The control slice that the metrics report is the one the controller learned
\* from: what diagnostic audits, H1 and unknown labels add to the metrics is
\* never in its buffer, its window or its counts.
ControlSliceAgrees ==
    config.method = "aci" =>
        LET seen == metrics.control.h0
        IN  /\ counts.h0_seen = seen /\ counts.updates = seen
            /\ counts.blocked <= seen - metrics.control.fp
            /\ Len(outcomes) = (IF seen < WilsonWindow THEN seen ELSE WilsonWindow)
            /\ FalseHits(outcomes) <= metrics.control.fp
            /\ seen <= WilsonWindow => FalseHits(outcomes) = metrics.control.fp
            /\ Cardinality({i \in DOMAIN origin : origin[i]})
                 = (IF seen < BufferSize THEN seen ELSE BufferSize)
=============================================================================
