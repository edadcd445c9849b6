------------------------- MODULE MCOracleLifecycle -------------------------
(***************************************************************************)
(* OracleLifecycle for TLC: minimum counts of one, so that a first fit, a  *)
(* second fit, a recalibration on a high false-accept rate and one on a    *)
(* stale threshold all happen within a handful of requests.                *)
(***************************************************************************)
EXTENDS OracleLifecycle, TLC

MCConfig ==
    [min_h0_for_fit |-> 1, min_h1_for_fit |-> 0,
     min_h0_for_calibration |-> 1, min_new_h0_for_calibration |-> 1,
     min_new_h0_for_refit |-> 1, min_new_h1_for_refit |-> 0,
     min_new_fraction_for_refit |-> 25, tpr_drop_margin |-> 5,
     min_decisions_between_calibrations |-> 1,
     min_decisions_between_refits |-> 1,
     max_decisions_between_calibrations |-> 2,
     max_decisions_between_refits |-> NoLimit,
     deactivate_on_failed_refit |-> TRUE]

\* Nothing judged, one H0, and the served candidate judged H0 or H1.
MCFeedbacks ==
    {NoFeedback,
     [h0_added |-> 1, h1_added |-> 0, label |-> NoLabel],
     [h0_added |-> 1, h1_added |-> 0, label |-> 0],
     [h0_added |-> 0, h1_added |-> 1, label |-> 1]}

\* What the pair store holds at the start: nothing, or also a pair of each
\* label from an earlier process.
NoPairs == {[h0 |-> 0, h1 |-> 0]}
SomePairs == NoPairs \cup {[h0 |-> 1, h1 |-> 1]}

ASSUME ServedLabelCounted

RequestSymmetry == Permutations(Requests)
=============================================================================
