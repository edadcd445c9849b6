---------------------------- MODULE RefitPolicy ----------------------------
(***************************************************************************)
(* ConservativeRefitPolicy: the pure decision that the trainable oracle    *)
(* takes after every request, from the counters of a RefitPolicyContext.   *)
(*                                                                         *)
(* Rates are integers out of 100 and a measured rate is a pair of counts,  *)
(* so every comparison of the code is an integer comparison here.  The     *)
(* wall-clock limits of the configuration are left out: the oracle never   *)
(* fills seconds_since_fit or seconds_since_calibration, and the policy    *)
(* ignores a limit whose clock is None.                                    *)
(***************************************************************************)
EXTENDS Integers

CONSTANTS
    Config,   \* ConservativeRefitConfig, a record with the source's names
    Alpha     \* target_false_accept_rate, out of 100

\* Nat standing for "max_decisions_between_* is None".
NoLimit == 0

ASSUME ConfigAssumption ==
    /\ Alpha \in 1..99
    /\ Config \in
        [min_h0_for_fit : Nat, min_h1_for_fit : Nat,
         min_h0_for_calibration : Nat, min_new_h0_for_calibration : Nat,
         min_new_h0_for_refit : Nat, min_new_h1_for_refit : Nat,
         min_new_fraction_for_refit : Nat, tpr_drop_margin : Nat,
         min_decisions_between_calibrations : Nat,
         min_decisions_between_refits : Nat,
         max_decisions_between_calibrations : Nat,
         max_decisions_between_refits : Nat,
         deactivate_on_failed_refit : BOOLEAN]

Actions == {"NOOP", "RECALIBRATE_THRESHOLD", "REFIT_SCORER"}

\* A measured rate: hits out of a count, absent when the count is 0.
Rate == [hits : Nat, of : Nat]
NoRate == [hits |-> 0, of |-> 0]

(***************************************************************************)
(* wilson_upper_bound(k, n, z = 1.96) > Alpha/100, over the integers.      *)
(* z*z is 2401/625; the bound is                                           *)
(*   (2k + z*z + z*sqrt(4k(n-k)/n + z*z)) / (2(n + z*z)).                  *)
(* The code raises for k > n: callers test WilsonRaises first.             *)
(***************************************************************************)
WilsonRaises(k, n) == k > n

WilsonAbove(k, n) ==
    LET rest == 2 * Alpha * (625 * n + 2401) - 100 * (1250 * k + 2401)
    IN  /\ n > 0
        /\ IF k = 0
           THEN 240100 > Alpha * (625 * n + 2401)
           ELSE \/ rest < 0
                \/ 24010000 * (2500 * k * (n - k) + 2401 * n) > rest * rest * n

FprAboveLimit(c) == WilsonAbove(c.monitor_fpr.hits, c.monitor_fpr.of)

TprDropped(c) ==
    LET now == c.monitor_tpr
        was == c.previous_monitor_tpr
    IN  /\ now.of > 0
        /\ was.of > 0
        /\ 100 * (was.hits * now.of - now.hits * was.of)
             >= Config.tpr_drop_margin * was.of * now.of

HasEnoughFitData(c) ==
    /\ c.total_h0 >= Config.min_h0_for_fit
    /\ c.total_h1 >= Config.min_h1_for_fit

HasEnoughCalibrationData(c) == c.total_h0 >= Config.min_h0_for_calibration

HasNewCalibrationData(c) ==
    c.new_h0_since_calibration >= Config.min_new_h0_for_calibration

HasNewRefitData(c) ==
    LET new == c.new_h0_since_fit + c.new_h1_since_fit
        old == c.total_h0 + c.total_h1 - new
        previous == IF old > 1 THEN old ELSE 1
    IN  /\ c.new_h0_since_fit >= Config.min_new_h0_for_refit
        /\ c.new_h1_since_fit >= Config.min_new_h1_for_refit
        /\ 100 * new >= Config.min_new_fraction_for_refit * previous

RefitCooldownElapsed(c) ==
    c.decisions_since_fit >= Config.min_decisions_between_refits

CalibrationCooldownElapsed(c) ==
    c.decisions_since_calibration >= Config.min_decisions_between_calibrations

ThresholdIsStale(c) ==
    \/ /\ Config.max_decisions_between_calibrations # NoLimit
       /\ c.decisions_since_calibration >= Config.max_decisions_between_calibrations
    \/ /\ Config.max_decisions_between_refits # NoLimit
       /\ c.decisions_since_fit >= Config.max_decisions_between_refits

(***************************************************************************)
(* decide(context): the first signal that is present is the one acted on,  *)
(* and a signal whose data or cooldown is not ready yields NOOP, never a   *)
(* look at the next signal.                                                *)
(***************************************************************************)
RefitIf(ready) == IF ready THEN "REFIT_SCORER" ELSE "NOOP"
RecalibrateIf(ready) == IF ready THEN "RECALIBRATE_THRESHOLD" ELSE "NOOP"

Decide(c) ==
    LET canFit == HasEnoughFitData(c)
        canCalibrate == HasEnoughCalibrationData(c)
    IN  IF c.fit_in_progress
        THEN "NOOP"
        ELSE IF ~c.has_threshold \/ c.distribution_changed
        THEN RefitIf(canFit /\ RefitCooldownElapsed(c))
        ELSE IF FprAboveLimit(c)
        THEN RecalibrateIf(/\ canCalibrate
                           /\ HasNewCalibrationData(c)
                           /\ CalibrationCooldownElapsed(c))
        ELSE IF TprDropped(c) \/ (canFit /\ HasNewRefitData(c))
        THEN RefitIf(canFit /\ HasNewRefitData(c) /\ RefitCooldownElapsed(c))
        ELSE RecalibrateIf(/\ canCalibrate
                           /\ ThresholdIsStale(c)
                           /\ CalibrationCooldownElapsed(c))
=============================================================================
