---------------------------- MODULE ActivationGate ----------------------------
(***************************************************************************)
(* What has to come together before a first threshold serves: how many     *)
(* judged pairs the ConservativeRefitPolicy waits for, how the collector   *)
(* or the oracle splits them, and what the activation gate then asks of    *)
(* the buckets and of the threshold.  SemanticCacheSystem and the online   *)
(* replay each derive the minimum counts from a few parameters.            *)
(*                                                                         *)
(* Rates are out of Unit and shares are fractions [num, den].  The code    *)
(* has floats for both, so that its int() of a product that is whole may   *)
(* come out one below.                                                     *)
(***************************************************************************)
EXTENDS AdaptiveThreshold

CeilDiv(a, b) == (a + b - 1) \div b
AtLeast(low, x) == IF x < low THEN low ELSE x
Part(n, share) == (n * share.num) \div share.den

(***************************************************************************)
(* _next_split, for the pairs of one label.                                *)
(***************************************************************************)
NoShare == [num |-> 0, den |-> 1]
EveryNth(n) == [every |-> n, share |-> NoShare]
ShareOf(num, den) == [every |-> 1, share |-> [num |-> num, den |-> den]]
IsExplicit(rule) == rule.share # NoShare

ToCalibration(rule, calibrated, seen) ==
    IF IsExplicit(rule) THEN calibrated * rule.share.den < rule.share.num * seen
    ELSE seen % rule.every = 0

\* How many of the first n pairs are in the calibration bucket.
InCalibration(rule, n) ==
    LET count[m \in 0..n] ==
            IF m = 0 THEN 0
            ELSE LET before == count[m - 1]
                 IN  before + (IF ToCalibration(rule, before, m) THEN 1 ELSE 0)
    IN  count[n]

Buckets(rule, h0, h1) ==
    [h0_calib |-> InCalibration(rule, h0), h0_train |-> h0 - InCalibration(rule, h0),
     h1_calib |-> InCalibration(rule, h1), h1_train |-> h1 - InCalibration(rule, h1)]

(***************************************************************************)
(* Minimum counts.  A limit is target plus the margin of the Wilson gate.  *)
(***************************************************************************)
Margin(target) == IF 100 * target >= 3 * Unit THEN target ELSE (3 * Unit) \div 100

\* Below so many H0 scores the Wilson bound is above the limit even if the
\* threshold rejects them all.
WilsonFloor(limit) ==
    AtLeast(1, CeilDiv(WilsonZ * WilsonZ * (Unit - limit), limit))

\* SemanticCacheSystem.__init__: the share that it believes goes to calibration.
BelievedShare(rule) ==
    IF IsExplicit(rule) THEN rule.share
    ELSE IF rule.every > 1 THEN [num |-> 1, den |-> rule.every] ELSE NoShare

TrainShare(rule) ==
    LET share == BelievedShare(rule)
    IN  [num |-> share.den - share.num, den |-> share.den]

EveryN(batch_size) == AtLeast(1, batch_size \div 10)

SystemPolicy(min_h0, min_h1, rule, target) ==
    LET share == BelievedShare(rule)
        min_calib_h0 == AtLeast(AtLeast(1, Part(min_h0, share)),
                                WilsonFloor(target + Margin(target)))
    IN  [min_h0_for_fit |-> IF share.num = 0 THEN min_h0
                            ELSE AtLeast(min_h0, CeilDiv(min_calib_h0 * share.den, share.num)),
         min_h1_for_fit |-> min_h1,
         min_train_total |-> AtLeast(2, Part(min_h0 + min_h1, TrainShare(rule))),
         min_train_h0 |-> AtLeast(1, Part(min_h0, TrainShare(rule))),
         min_train_h1 |-> AtLeast(1, Part(min_h1, TrainShare(rule))),
         min_calibration_h0 |-> min_calib_h0,
         min_calibration_h1 |-> AtLeast(1, Part(min_h1, share)),
         limit |-> target + Margin(target)]

\* build_refit_policy of the online replay, from explicit gates.
ReplayPolicy(train_h0, train_h1, calib_h0, calib_h1, target, use_wilson) ==
    LET margin == IF use_wilson THEN Margin(target) ELSE Unit
        calib == IF use_wilson THEN AtLeast(WilsonFloor(target + margin), calib_h0) ELSE calib_h0
    IN  [min_h0_for_fit |-> train_h0 + calib,
         min_h1_for_fit |-> train_h1 + calib_h1,
         min_train_total |-> AtLeast(2, train_h0 + train_h1),
         min_train_h0 |-> AtLeast(1, train_h0),
         min_train_h1 |-> AtLeast(1, train_h1),
         min_calibration_h0 |-> calib,
         min_calibration_h1 |-> AtLeast(1, calib_h1),
         limit |-> target + margin]

(***************************************************************************)
(* The rows of a refit, by their numbers in each bucket.                   *)
(***************************************************************************)
\* _split_rows: train, calibration and evaluation; a float may take one of the
\* 70 percent from the training rows.
SplitRows(n, float_error) ==
    LET train == AtLeast(1, (7 * n) \div 10 - (IF float_error /\ n % 10 = 0 THEN 1 ELSE 0))
        calib == AtLeast(1, n \div 5)
    IN  IF n < 2 THEN [train |-> n, calib |-> 0, eval |-> 0]
        ELSE IF n = 2 THEN [train |-> 1, calib |-> 1, eval |-> 0]
        ELSE IF train + calib > n THEN [train |-> n - calib, calib |-> calib, eval |-> 0]
        ELSE [train |-> train, calib |-> calib, eval |-> n - train - calib]

\* _build_refit_split of a store without buckets, as the buckets it makes.
LegacySplit(h0, h1, float_error) ==
    LET zero == SplitRows(h0, float_error)
        one == SplitRows(h1, float_error)
    IN  [h0_train |-> zero.train, h0_calib |-> zero.calib,
         h1_train |-> one.train, h1_calib |-> one.calib]

\* refit_split_not_ready is the answer to any other split.
SplitReady(b) == b.h0_train > 0 /\ b.h1_train > 0 /\ b.h0_calib > 0

(***************************************************************************)
(* _activation_gate_from_counts: the first reason against, or "passed".    *)
(* A recalibration has H0 scores and nothing else to show.                 *)
(***************************************************************************)
CountReason(policy, b, refit) ==
    IF refit /\ b.h0_train + b.h1_train < policy.min_train_total THEN "min_train_total_not_met"
    ELSE IF refit /\ b.h0_train < policy.min_train_h0 THEN "min_train_h0_not_met"
    ELSE IF refit /\ b.h1_train < policy.min_train_h1 THEN "min_train_h1_not_met"
    ELSE IF b.h0_calib < policy.min_calibration_h0 THEN "min_calibration_h0_not_met"
    ELSE IF refit /\ b.h1_calib < policy.min_calibration_h1 THEN "min_calibration_h1_not_met"
    ELSE "passed"

GateReason(policy, b, refit, tie, scores, tau) ==
    IF CountReason(policy, b, refit) # "passed" THEN CountReason(policy, b, refit)
    ELSE IF tau = Infinity THEN "threshold_not_finite"
    ELSE IF b.h0_calib = 0 THEN "wilson_upper_fpr_unavailable"
    ELSE IF WilsonExceeds(AcceptCount(tie, scores, tau), b.h0_calib, policy.limit)
    THEN "wilson_upper_fpr_exceeds_bound"
    ELSE "passed"

\* _recalibrate_threshold_from_rows, up to the gate: the scores that the scorer
\* gives the H0 rows of the calibration bucket decide.
Recalibrated(policy, tie, scores, target) ==
    LET tau == ScoresToThreshold(tie, scores, target)
        b == [h0_train |-> 0, h1_train |-> 0, h0_calib |-> Len(scores), h1_calib |-> 0]
    IN  IF scores = <<>> THEN "no_rows"
        ELSE GateReason(policy, b, FALSE, tie, scores, tau)

(***************************************************************************)
(* What the two derivations promise, checked over small parameters.        *)
(***************************************************************************)
HasFitData(policy, h0, h1) == h0 >= policy.min_h0_for_fit /\ h1 >= policy.min_h1_for_fit

\* Whatever numbers of pairs up to a bound make the policy refit, the buckets
\* satisfy the counts of the gate: "when the fit fires, the calib bucket already
\* has _min_calib_h0 examples".  late is how many pairs of each label may be
\* missing.
FitsAreReady(policy, rule, late, bound) ==
    \A h0, h1 \in 1..bound :
        HasFitData(policy, h0 - late, h1 - late) =>
            LET b == Buckets(rule, h0, h1)
            IN  SplitReady(b) /\ CountReason(policy, b, TRUE) = "passed"

\* No number of pairs will do: there is nothing to train with.
NeverReady(rule, bound) ==
    \A h0, h1 \in 0..bound : ~SplitReady(Buckets(rule, h0, h1))

\* The floor is the least number of H0 scores with which the gate can open.
FloorIsTight(limit, bound) ==
    \A n \in 1..bound : ~WilsonExceeds(0, n, limit) <=> n >= WilsonFloor(limit)
=============================================================================
