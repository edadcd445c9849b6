----------------------------- MODULE ReplayStreams -----------------------------
(***************************************************************************)
(* The streams that the replays of experiments/online_replay_h1h0_final.py *)
(* feed to both methods: uniform traffic over the rows of the universe,    *)
(* traffic that dwells on the clusters with the most to reuse, a mixture   *)
(* of both, and a warm-up of rows that the measured stream leaves alone.   *)
(* A set of streams is what the seeds can make of the same arguments; it   *)
(* is empty where the builder raises.                                      *)
(*                                                                         *)
(* A cluster id is a number here: the ids are compared to break ties only. *)
(***************************************************************************)
EXTENDS OnlineComparison

Seqs == INSTANCE SequencesExt

\* rng.permutation over the rows.
Shuffles(order) ==
    {[i \in DOMAIN order |-> order[p[i]]] :
        p \in {f \in [DOMAIN order -> DOMAIN order] : Cardinality(Range(f)) = Len(order)}}

(***************************************************************************)
(* build_stream_uniform: the rows in their order, then epochs of the same  *)
(* rows, cut where the requests end.                                       *)
(***************************************************************************)
Epochs(order, n) == (n - 1) \div Len(order)

UniformStreams(order, n) ==
    IF n <= Len(order) THEN {SubSeq(order, 1, n)}
    ELSE {SubSeq(order \o Seqs!FlattenSeq(epochs), 1, n) :
             epochs \in [1..Epochs(order, n) -> Shuffles(order)]}

(***************************************************************************)
(* build_stream_cluster_reuse.                                             *)
(***************************************************************************)
ClusterRows(order, cluster) == SelectSeq(order, LAMBDA row : Cluster[row] = cluster)
H1Rows(order, cluster) == SelectSeq(ClusterRows(order, cluster), LAMBDA row : RowLabel[row] = 1)

\* The sort of select_reuse_clusters, in reverse: size, H1 members, id.
Ahead(order, c, d) ==
    LET size(x) == Len(ClusterRows(order, x))
        h1(x) == Len(H1Rows(order, x))
    IN  \/ size(c) > size(d)
        \/ size(c) = size(d) /\ h1(c) > h1(d)
        \/ size(c) = size(d) /\ h1(c) = h1(d) /\ c > d

ReuseClusters(order, top_k, min_size) ==
    LET eligible == {c \in {Cluster[row] : row \in Range(order)} :
                        Len(H1Rows(order, c)) >= min_size}
        ranked == Seqs!SetToSortSeq(eligible, LAMBDA c, d : Ahead(order, c, d))
    IN  SubSeq(ranked, 1, IF top_k < Len(ranked) THEN top_k ELSE Len(ranked))

\* One request of each cluster in turn, each cluster going round its own rows.
RoundRobin(shuffled, n) ==
    [i \in 1..n |->
        LET own == shuffled[((i - 1) % Len(shuffled)) + 1]
        IN  own[(((i - 1) \div Len(shuffled)) % Len(own)) + 1]]

ReuseStreams(order, n, top_k, min_size) ==
    LET clusters == ReuseClusters(order, top_k, min_size)
        shuffles(i) == Shuffles(ClusterRows(order, clusters[i]))
        choices == {f \in [DOMAIN clusters -> UNION {shuffles(i) : i \in DOMAIN clusters}] :
                       \A i \in DOMAIN clusters : f[i] \in shuffles(i)}
    IN  IF clusters = <<>> THEN {} ELSE {RoundRobin(f, n) : f \in choices}

(***************************************************************************)
(* build_stream_mixed and the dispatch on --selection.                     *)
(***************************************************************************)
Masks(fraction, n) ==
    IF fraction = "none" THEN {{}} ELSE IF fraction = "all" THEN {1..n} ELSE SUBSET (1..n)

MixedStreams(order, n, top_k, min_size, fraction) ==
    {[i \in 1..n |-> IF i \in mask THEN reuse[i] ELSE uniform[i]] :
        mask \in Masks(fraction, n),
        uniform \in UniformStreams(order, n),
        reuse \in ReuseStreams(order, n, top_k, min_size)}

Streams(order, n, how) ==
    CASE how.selection = "uniform" -> UniformStreams(order, n)
      [] how.selection = "cluster_reuse" -> ReuseStreams(order, n, how.top_k, how.min_size)
      [] how.selection = "mixed" ->
            MixedStreams(order, n, how.top_k, how.min_size, how.fraction)

(***************************************************************************)
(* build_warmup_stream_disjoint, and what the two entry points make of     *)
(* their arguments: the measured stream, and the warm-up if there is one.  *)
(***************************************************************************)
WarmupPool(order, measured) == SelectSeq(order, LAMBDA row : row \notin Range(measured))

WarmupStreams(order, measured, n, how) ==
    LET pool == WarmupPool(order, measured)
    IN  IF pool = <<>> THEN {} ELSE Streams(pool, n, how)

\* run_retrieved_anchor_diagnostics has a warm-up of its own for the ensemble.
WarmupRequests(method, anchors, asked, default) ==
    IF anchors /\ method = "ensemble" /\ asked <= 0 THEN default ELSE asked

Replays(order, n, warmup, how) ==
    IF ~CanTrain(order, FALSE) THEN {}
    ELSE UNION {{[measured |-> m, warmup |-> w] :
                    w \in IF warmup <= 0 THEN {<<>>} ELSE WarmupStreams(order, m, warmup, how)} :
                m \in Streams(order, n, how)}

(***************************************************************************)
(* _improvement_verdict of the two summaries of a replay.  Rates as in     *)
(* Summary, of the active session; learned when the ensemble was activated *)
(* with its trained scorer.                                                *)
(***************************************************************************)
ImprovementVerdict(cosine, ensemble, learned, target) ==
    LET rates == {cosine.fpr, ensemble.fpr, cosine.tpr, ensemble.tpr}
        feasible(s) == s.fpr <= target
        both == feasible(cosine) /\ feasible(ensemble)
    IN  IF ~learned \/ \E r \in rates : ~Computable(r) THEN "inconclusive"
        ELSE IF feasible(ensemble) /\ ~feasible(cosine) THEN "yes"
        ELSE IF feasible(cosine) /\ ~feasible(ensemble) THEN "no"
        ELSE IF both
        THEN IF ensemble.tpr > cosine.tpr THEN "yes"
             ELSE IF cosine.tpr > ensemble.tpr THEN "no" ELSE "tie"
        ELSE IF /\ ensemble.fpr <= cosine.fpr /\ ensemble.tpr >= cosine.tpr
                /\ ensemble.tpr > cosine.tpr \/ ensemble.fpr < cosine.fpr
        THEN "dominates"
        ELSE IF ensemble.tpr > cosine.tpr /\ ensemble.fpr > cosine.fpr THEN "higher"
        ELSE IF ensemble.tpr < cosine.tpr /\ ensemble.fpr < cosine.fpr THEN "lower"
        ELSE "neither"

(***************************************************************************)
(* build_fp_diagnosis: what is said of the audited cache hits of a replay. *)
(* A row has the index of its request, the anchor that was served with its *)
(* cluster, its score and whether it was a false positive.                 *)
(***************************************************************************)
FalsePositives(hits) == {i \in DOMAIN hits : hits[i].false_positive}

Latest(hits, default) ==
    IF hits = <<>> THEN default
    ELSE CHOOSE x \in {hits[i].index : i \in DOMAIN hits} :
            \A i \in DOMAIN hits : hits[i].index <= x

\* The first fifth of the requests since the activation, at least one.
EarlyCut(hits, activation) ==
    LET span == Latest(hits, activation) - activation + 1
    IN  activation + (IF span \div 5 < 1 THEN 1 ELSE span \div 5)

\* A rate that cannot be computed is 0.
FrontLoaded(hits, activation) ==
    LET post == {i \in FalsePositives(hits) : hits[i].index >= activation}
        early == {i \in post : hits[i].index < EarlyCut(hits, activation)}
    IN  10 * Cardinality(early) > 4 * Cardinality(post)

\* The five anchors with the most false positives have more than half of them.
Concentrated(hits) ==
    LET anchors == {hits[i].anchor : i \in FalsePositives(hits)}
        of(some) == Cardinality({i \in FalsePositives(hits) : hits[i].anchor \in some})
    IN  \E top \in SUBSET anchors :
            Cardinality(top) <= 5 /\ 2 * of(top) > of(anchors)

\* Against the threshold at the end, whichever the hit was decided with.
BelowThreshold(hits, final) == {i \in DOMAIN hits : hits[i].score < final}

\* Rates in percent, as in Summary.
FprDisagreement(shadow, active) ==
    Computable(shadow) /\ Computable(active) /\ active - shadow > 2

FpDiagnosis(hits, summary) ==
    [timing |-> IF summary.activation = 0 \/ FalsePositives(hits) = {} THEN "none"
                ELSE IF FrontLoaded(hits, summary.activation) THEN "front-loaded"
                ELSE "spread",
     concentration |-> IF Concentrated(hits) THEN "concentrated" ELSE "spread",
     threshold |-> IF BelowThreshold(hits, summary.threshold) = {} THEN "applied" ELSE "warning",
     scorer |-> IF summary.trained /\ summary.activation # 0 THEN "ensemble" ELSE "fallback",
     disagrees |-> FprDisagreement(summary.shadow_fpr, summary.active_fpr)]
=============================================================================
