---------------------------- MODULE ReplayTables ----------------------------
(***************************************************************************)
(* The frozen tables of the adaptive replay before AdaptiveThreshold runs  *)
(* over them: the order in which a table is replayed, the prefix of it     *)
(* that calibrates, and how far two tables admit the same queries.         *)
(***************************************************************************)
EXTENDS AdaptiveThreshold

LOCAL INSTANCE SequencesExt

(***************************************************************************)
(* order_stream.  The set is what the seeds can make of a table.           *)
(***************************************************************************)
ByStreamIndex(rows) == SetToSortSeq(rows, LAMBDA r, s : r.stream_index < s.stream_index)

Regions(table) == {table[i].region_id : i \in DOMAIN table}
Block(table, region) == ByStreamIndex({r \in ToSet(table) : r.region_id = region})

OrderStream(table, ordering) ==
    CASE ordering = "natural" -> {ByStreamIndex(ToSet(table))}
      [] ordering = "random" -> SetToSeqs(ToSet(table))
      [] ordering = "cluster_block" ->
            {FlattenSeq([i \in DOMAIN keys |-> Block(table, keys[i])]) :
                keys \in SetToSeqs(Regions(table))}

(***************************************************************************)
(* split_calibration_serving, with calib_fraction as num / den.            *)
(***************************************************************************)
\* round: a half goes to the even neighbour.
Rounded(num, den) ==
    LET whole == num \div den
        twice == 2 * (num % den)
    IN  IF twice > den \/ (twice = den /\ whole % 2 = 1) THEN whole + 1 ELSE whole

CalibrationLength(n, num, den) ==
    LET wanted == IF Rounded(n * num, den) < 1 THEN 1 ELSE Rounded(n * num, den)
    IN  IF wanted < n - 1 THEN wanted ELSE n - 1

SplitCalibrationServing(stream, num, den) ==
    LET n == CalibrationLength(Len(stream), num, den)
    IN  [calibration |-> SubSeq(stream, 1, n),
         serving |-> SubSeq(stream, IF n < 0 THEN 1 ELSE n + 1, Len(stream))]

(***************************************************************************)
(* table_separation_diagnostics, without the correlation of the ranks.     *)
(***************************************************************************)
H0Scores(table) ==
    LET h0 == SelectSeq(table, LAMBDA r : r.label = "H0")
    IN  [i \in DOMAIN h0 |-> h0[i].score]

TableThreshold(tie, table, rate) == SelectedThreshold(tie, H0Scores(table), rate)

\* The queries that are in both tables, each with its scores.
Aligned(a, b) == {p \in ToSet(a) \X ToSet(b) : p[1].query_id = p[2].query_id}

\* Both are admitted at their threshold or above, whatever the tie mode; nothing is
\* said of a table without a threshold.
Disagree(tie, a, b, rate) ==
    {p \in Aligned(a, b) :
        /\ H0Scores(a) # <<>> /\ H0Scores(b) # <<>>
        /\ (p[1].score >= TableThreshold(tie, a, rate))
           # (p[2].score >= TableThreshold(tie, b, rate))}
=============================================================================
