--------------------------- MODULE MCMeasuredReplay ---------------------------
(***************************************************************************)
(* An instance of MeasuredReplay, AnchorReplay and OnlineComparison for    *)
(* TLC: the ensemble after a warm-up request, cosine from cold over a      *)
(* stream that repeats a row, both once more with the diagnostic, and the  *)
(* two methods of a comparison.                                            *)
(***************************************************************************)
EXTENDS ReplayStreams, TLC

CONSTANTS r1, r2, r3, r4, r5

MCRowLabel == [r \in Rows |-> IF r = r5 THEN -1 ELSE IF r = r1 THEN 0 ELSE 1]

\* The clusters are r1, r2 with r3, whose gold anchor is r3, and r4 with r5.
MCCluster == [r \in Rows |-> CASE r = r1 -> 1 [] r \in {r2, r3} -> 2 [] OTHER -> 3]
MCGold == [r \in Rows |-> CASE r \in {r2, r3} -> r3 [] r \in {r4, r5} -> r4 [] OTHER -> r]

MCVerdict ==
    [pair \in Rows \X Rows |->
        CASE pair[2] = r1 -> "H1" [] pair[2] = r2 -> "UNCERTAIN" [] pair[2] = r3 -> "H0"
          [] OTHER -> DatasetLabel(pair[1], pair[2])]

Replayed(method, warmup, measured) ==
    [method |-> method, warmup |-> warmup, measured |-> measured, main |-> 0,
     shared_cache |-> FALSE, judge_cache |-> TRUE, freeze_after_warmup |-> FALSE,
     anchors |-> FALSE]

Unjudged(replay) == [replay EXCEPT !.judge_cache = FALSE, !.freeze_after_warmup = TRUE]

Compared(method) ==
    [Replayed(method, <<>>, <<r4, r5, r4>>) EXCEPT !.judge_cache = FALSE, !.main = 2]

MCOptions ==
    {[Replayed("ensemble", <<r1, r2>>, <<r3>>) EXCEPT !.shared_cache = TRUE],
     Unjudged(Replayed("ensemble", <<r1>>, <<r2, r3>>)),
     Replayed("cosine", <<>>, <<r2, r3, r2, r3>>),
     [Unjudged(Replayed("ensemble", <<r3>>, <<r2>>)) EXCEPT !.anchors = TRUE],
     [Replayed("cosine", <<>>, <<r3, r2, r2>>) EXCEPT !.anchors = TRUE],
     Compared("cosine"), Compared("ensemble")}

(***************************************************************************)
(* determine_winner and the selection of rows, over small inputs.          *)
(***************************************************************************)
Judgements ==
    {[true_accepts |-> ta, false_accepts |-> fa, true_rejects |-> tr, false_rejects |-> fr] :
        ta, fa, tr, fr \in 0..1}

Summaries ==
    {Summary(c, hits, 2, calibrated) : c \in Judgements, hits \in 0..2, calibrated \in BOOLEAN}

Swapped(winner) ==
    CASE winner = "cosine" -> "ensemble" [] winner = "ensemble" -> "cosine" [] OTHER -> winner

\* The winner does not depend on which method is named first, and a method whose
\* measured rate is above the target never wins over one that respects it.
ASSUME WinnerIsFair ==
    \A c, e \in Summaries, target \in {0, 50} :
        /\ Winner(e, c, target) = Swapped(Winner(c, e, target))
        /\ Winner(c, e, target) = "ensemble" => Respects(e, target) \/ ~Respects(c, target)

\* Every selection has as many rows as there are or were asked for, none twice,
\* and without the uncertain ones only rows that somebody labelled.
ASSUME SelectionsAreRows ==
    \A order \in {<<>>, <<r1>>, <<r5, r1, r2>>, <<r3, r5, r4, r1>>}, n \in 0..5 :
        \A uncertain \in BOOLEAN, mode \in {"head", "random"} :
            LET all == {order[i] : i \in DOMAIN order}
                may == {r \in all : IsSelectable(r, uncertain)}
            IN  \A s \in Selections(order, n, uncertain, mode) :
                    /\ Range(s) \subseteq may
                    /\ Cardinality(Range(s)) = Len(s)
                    /\ Len(s) = (IF n < Cardinality(may) THEN n ELSE Cardinality(may))
                    /\ ~uncertain /\ CanTrain(s, uncertain) => Len(s) >= 2

(***************************************************************************)
(* The streams.                                                            *)
(***************************************************************************)
Asked(row, s) == Cardinality({i \in DOMAIN s : s[i] = row})

Reuse == [selection |-> "cluster_reuse", top_k |-> 2, min_size |-> 1]
Mixture == [Reuse EXCEPT !.selection = "mixed"] @@ [fraction |-> "some"]
Uniform == [selection |-> "uniform"]

Universe == <<r1, r2, r3, r4>>

\* A uniform stream asks every row equally often, up to one request.
ASSUME UniformIsFair ==
    \A n \in 0..7 : \A s \in UniformStreams(<<r1, r2, r3>>, n) :
        /\ Len(s) = n
        /\ \A r, q \in {r1, r2, r3} : Asked(r, s) - Asked(q, s) \in {-1, 0, 1}

\* Cluster traffic is about the chosen clusters only, each of which has the H1
\* rows asked for and none of which is worse than one left out; their requests,
\* and those of the rows within one, differ by one at most.
ASSUME ReuseIsFair ==
    \A n \in 1..7, top_k \in 1..3, min_size \in 1..2 :
        LET chosen == Range(ReuseClusters(Universe, top_k, min_size))
            enough == {c \in 1..3 : Len(H1Rows(Universe, c)) >= min_size}
            visits(s, c) == Cardinality({i \in DOMAIN s : Cluster[s[i]] = c})
        IN  /\ chosen \subseteq enough
            /\ Cardinality(chosen) < top_k => chosen = enough
            /\ \A c \in chosen, d \in enough \ chosen : Ahead(Universe, c, d)
            /\ \A s \in ReuseStreams(Universe, n, top_k, min_size) :
                 \A c, d \in chosen :
                    /\ visits(s, c) - visits(s, d) \in {-1, 0, 1}
                    /\ \A i, j \in DOMAIN s : Cluster[s[i]] = c /\ Cluster[s[j]] = c =>
                          Asked(s[i], s) - Asked(s[j], s) \in {-1, 0, 1}

\* The warm-up of a replay has no row of the measured stream, whatever selects
\* the two.
ASSUME WarmupIsDisjoint ==
    \A n \in 1..3, how \in {Uniform, Reuse, Mixture} :
        \A x \in Replays(Universe, n, 2, how) :
            /\ Len(x.measured) = n /\ Len(x.warmup) = 2
            /\ Range(x.measured) \cap Range(x.warmup) = {}

\* No stream can be the warm-up of one that asked every row.
ASSUME NothingLeftToWarmUp == Replays(Universe, 5, 1, Uniform) = {}

\* The replays checked here are among those that can be built.
ASSUME OptionsAreBuilt ==
    \A o \in {p \in MCOptions : p.main = 0} :
        LET asked == SubSeq(o.measured, 1, Cardinality(Range(o.measured)))
        IN  /\ o.measured \in UniformStreams(asked, Len(o.measured))
            /\ o.warmup # <<>> =>
                 o.warmup \in WarmupStreams(asked \o o.warmup, o.measured, Len(o.warmup), Uniform)

\* The two verdicts agree: the one of the replay is "yes" only where that of the
\* comparison is the ensemble, and "no" only where it is cosine.
ASSUME VerdictsAgree ==
    \A c, e \in Summaries, learned \in BOOLEAN, target \in {0, 50} :
        LET verdict == ImprovementVerdict(c, e, learned, target)
        IN  /\ verdict = "yes" => Winner(c, e, target) = "ensemble"
            /\ verdict = "no" => Winner(c, e, target) = "cosine"

Audits ==
    UNION {[1..n -> [index : 1..6, anchor : 1..2, score : 1..2, false_positive : BOOLEAN]] :
              n \in 0..2}

\* Hits that passed a threshold that never rose afterwards are not reported as hits
\* below the threshold; after a rise they are, though every one passed its own.
ASSUME WarningMeansRise ==
    \A hits \in Audits :
        \A used \in [DOMAIN hits -> 1..2], final \in 1..2 :
            (\A i \in DOMAIN hits : hits[i].score >= used[i])
            => /\ BelowThreshold(hits, final) # {} => \E i \in DOMAIN hits : used[i] < final
               /\ (\A i \in DOMAIN hits : used[i] >= final) => BelowThreshold(hits, final) = {}

\* False positives that all came within the first fifth are found there, and those of
\* up to five anchors are concentrated, if there are any.
ASSUME DiagnosisSeesTheExtremes ==
    \A hits \in Audits, activation \in 1..6 :
        LET fps == FalsePositives(hits)
        IN  /\ /\ fps # {}
               /\ \A i \in fps : hits[i].index \in activation..EarlyCut(hits, activation) - 1
               => FrontLoaded(hits, activation)
            /\ (\A i \in fps : hits[i].index >= EarlyCut(hits, activation))
               => ~FrontLoaded(hits, activation)
            /\ Concentrated(hits) <=> fps # {}
=============================================================================
