------------------------- MODULE MCAdaptiveThreshold -------------------------
(***************************************************************************)
(* Instance of AdaptiveThreshold for TLC: alpha_target 2/5 and gamma 1/5,  *)
(* so that one update adds 2/25 or takes 3/25.  The definitions of         *)
(* ActivationGate and ReplayTables are evaluated over small parameters.    *)
(***************************************************************************)
EXTENDS ActivationGate, ReplayTables

Aci(tie, gate, warm) ==
    [method |-> "aci", tie |-> tie, gate |-> gate, min_buffer |-> 2, warm |-> warm]

MCConfigs ==
    {Aci("GE", FALSE, "cold"), Aci("GE", TRUE, "batch"), Aci("GT", FALSE, "batch"),
     Aci("GE", TRUE, "gated"), [Aci("GE", FALSE, "batch") EXCEPT !.method = "fixed"]}

(***************************************************************************)
(* The activation gate.                                                    *)
(***************************************************************************)
\* The Wilson floor is exactly where the gate begins to open, and with
\* --no-wilson, a limit above 1, it never closes.
ASSUME FloorOpensTheGate ==
    /\ \A limit \in 1..Unit - 1 : FloorIsTight(limit, 60)
    /\ \A n \in 1..20 : \A k \in 0..n : ~WilsonExceeds(k, n, Target + Unit)

\* With every second pair or fewer set aside, a batch_size of 20 or more, the
\* first fit of SemanticCacheSystem has the buckets that its gate asks for, if
\* min_h1 is not below the interval.
ASSUME EveryNthIsReady ==
    \A every \in 2..4, target \in {1, 10}, h0 \in {1, 5, 16} :
        \A h1 \in every..6 :
            LET rule == EveryNth(every)
                policy == SystemPolicy(h0, h1, rule, target)
            IN  FitsAreReady(policy, rule, 0, policy.min_h0_for_fit + 2)

\* With an explicit share the counts may come together up to four pairs late.
ASSUME ShareIsReadyLate ==
    \A part \in 1..4, h0 \in {1, 5, 16}, h1 \in 1..6 :
        LET rule == ShareOf(part, 5)
            policy == SystemPolicy(h0, h1, rule, Target)
        IN  FitsAreReady(policy, rule, 4, policy.min_h0_for_fit + 6)

\* With a batch_size below 20 every pair is set aside and none ever trains,
\* however many there are, although the policy believes that all of them do.
ASSUME SmallBatchesNeverTrain ==
    \A batch_size \in 1..40 :
        (batch_size < 20) <=> NeverReady(EveryNth(EveryN(batch_size)), 9)

\* The gates of the online replay ask for no more than the two buckets that its
\* trigger waits for, and without the Wilson bound for what was requested.
ASSUME ReplayTriggerCoversGates ==
    \A t0, t1, c0, c1 \in 1..4, target \in {1, 10}, wilson \in BOOLEAN :
        LET p == ReplayPolicy(t0, t1, c0, c1, target, wilson)
        IN  /\ p.min_train_h0 + p.min_calibration_h0 = p.min_h0_for_fit
            /\ p.min_train_h1 + p.min_calibration_h1 = p.min_h1_for_fit
            /\ p.min_train_total = t0 + t1
            /\ wilson => ~WilsonExceeds(0, p.min_calibration_h0, p.limit)

\* A store without buckets is split so that no row is lost or used twice, and
\* every label with two rows has one to train with and one to calibrate with.
ASSUME SplitsPartition ==
    \A n \in 0..60, float_error \in BOOLEAN :
        LET s == SplitRows(n, float_error)
        IN  /\ s.train + s.calib + s.eval = n
            /\ s.eval \in 0..n
            /\ \A other \in 2..6 :
                  SplitReady(LegacySplit(n, other, float_error)) <=> n >= 2

\* A threshold that passes its recalibration accepts no more of the H0 scores
\* than the target, and the Wilson bound of that is within the limit.
ASSUME GatePassesWithinTarget ==
    \A n \in 0..4 : \A scores \in [1..n -> Scores] :
        \A target \in {1, 10}, tie \in Ties :
            LET p == ReplayPolicy(1, 1, 2, 1, target, TRUE)
                accepted == AcceptCount(tie, scores, ScoresToThreshold(tie, scores, target))
            IN  Recalibrated(p, tie, scores, target) = "passed" =>
                    /\ n >= p.min_calibration_h0
                    /\ Unit * accepted <= target * n
                    /\ ~WilsonExceeds(accepted, n, p.limit)

(***************************************************************************)
(* The tables.                                                             *)
(***************************************************************************)
Row(i, score, label, region) ==
    [query_id |-> i, stream_index |-> i, score |-> score, label |-> label, region_id |-> region]

\* Tables are not in the order of the stream.
Tables ==
    {[i \in 1..n |-> Row(n + 1 - i, score[i], label[i], IF i \in first THEN "a" ELSE "b")] :
        n \in {3}, score \in [1..3 -> 1..3], label \in [1..3 -> {"H0", "H1"}],
        first \in SUBSET (1..3)}

Values3(stream) == {stream[i] : i \in DOMAIN stream}

\* Every ordering replays each row once; in blocks the rows of a region follow one
\* another, in the order of the stream.
ASSUME OrderingsKeepTheRows ==
    \A table \in Tables, ordering \in {"natural", "random", "cluster_block"} :
        \A stream \in OrderStream(table, ordering) :
            /\ Len(stream) = Len(table)
            /\ Values3(stream) = Values3(table)
            /\ ordering = "cluster_block" =>
                  \A i, j \in DOMAIN stream :
                      i < j /\ stream[i].region_id = stream[j].region_id =>
                          /\ stream[i].stream_index < stream[j].stream_index
                          /\ \A k \in i..j : stream[k].region_id = stream[i].region_id

\* A stream of two rows or more has something to calibrate with and something to
\* serve, and no row in both; of a single row nothing calibrates.
ASSUME PrefixCalibrates ==
    \A n \in 0..8, num \in 1..9 :
        LET stream == [i \in 1..n |-> i]
            split == SplitCalibrationServing(stream, num, 10)
        IN  /\ n >= 2 => split.calibration # <<>> /\ split.serving # <<>>
            /\ n # 0 => split.calibration \o split.serving = stream
            /\ n <= 1 => split.calibration = <<>>

\* A scorer that ranks as another admits the same queries, however it scales its
\* scores, at the batch threshold of each: disagreement is a matter of rank.
ASSUME RescaledTablesAgree ==
    \A table \in Tables, tie \in Ties, rate \in {4, 10, 20} :
        LET scaled == [i \in DOMAIN table |-> [table[i] EXCEPT !.score = 3 * @ - 2]]
        IN  tie = "GE" => Disagree(tie, table, scaled, rate) = {}
=============================================================================
