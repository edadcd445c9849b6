----------------------------- MODULE AnchorReplay -----------------------------
(***************************************************************************)
(* The retrieved-anchor diagnostic of online_replay_h1h0_final.py: the     *)
(* measured replay once more, and before each request the retrieval is     *)
(* probed, so that what was served can be compared with the gold anchor,   *)
(* the row its cluster should be served from.  A record is put together    *)
(* from three moments: the probe, the decision, and the verdicts on file   *)
(* after it.  With options.anchors FALSE it is MeasuredReplay unchanged.   *)
(***************************************************************************)
EXTENDS MeasuredReplay

CONSTANTS
    Cluster,   \* DatasetRow.group
    Gold       \* gold_rid_by_cluster: the gold anchor of a row's cluster

ASSUME AnchorAssumption ==
    /\ \A r \in Rows : Gold[r] \in Rows /\ Cluster[Gold[r]] = Cluster[r]
    /\ \A r, s \in Rows : Cluster[r] = Cluster[s] => Gold[r] = Gold[s]
    /\ \A o \in OptionsSet : o.anchors => ~o.shared_cache

VARIABLES
    probe,    \* what the probe of the request found
    records   \* AnchorDiagRecord of each measured request, in order

diagnosis == <<probe, records>>

NoProbe == [made |-> FALSE, candidates |-> {}, top1 |-> None, available |-> FALSE,
            threshold |-> FALSE, evaluated |-> 0, accepted |-> 0]

DiagnosedInit == Init /\ probe = NoProbe /\ records = <<>>

Probes == options.anchors /\ phase = "measured"

Label(query, anchor) ==
    IF options.judge_cache /\ <<query, anchor>> \in verdicts
    THEN Verdict[query, anchor] ELSE "UNCERTAIN"

\* Mutant: the row counts as cached although it is not written yet.
CachedAfter(row) == rows \cup {row}

Cached(row) == rows

\* The nearest rows and their judgements so far, the latter of the policy of
\* this moment: whichever of those on file as H0 it would accept.
Probe(candidates, top1, accepted) ==
    LET row == Stream[idx + 1]
        h0 == {c \in candidates : Label(row, c) = "H0"}
    IN  /\ Probes /\ at = "next" /\ ~probe.made
        /\ idx < Len(Stream)
        /\ Cardinality(candidates) =
             IF Cardinality(rows) < TopK THEN Cardinality(rows) ELSE TopK
        /\ IF candidates = {} THEN top1 = None ELSE top1 \in candidates
        /\ accepted \subseteq h0
        /\ accepted # {} => Calibrated(policy)
        /\ probe' = [made |-> TRUE, candidates |-> candidates, top1 |-> top1,
                     available |-> Gold[row] \in Cached(row),
                     threshold |-> Calibrated(policy),
                     evaluated |-> Cardinality(h0), accepted |-> Cardinality(accepted)]
        /\ UNCHANGED <<vars, records>>

\* Nothing was written since the probe, so handle retrieves the same rows.
DecideProbed(accepted) ==
    /\ Probes /\ probe.made
    /\ Decide(probe.candidates, accepted)
    /\ UNCHANGED diagnosis

Hit == request.accepted # None

\* Mutant: the nearest candidate stands for the served one.
NearestAnchor == probe.top1

RetrievedAnchor == IF Hit THEN request.accepted ELSE probe.top1

\* forced: whether the score of the gold anchor, under the scorer of the probe,
\* reaches the threshold of the decision or else of the probe.
AnchorRecord(forced) ==
    [query |-> Row,
     gold |-> Gold[Row],
     available |-> probe.available,
     top1 |-> probe.top1,
     retrieved |-> RetrievedAnchor,
     in_topk |-> Gold[Row] \in probe.candidates,
     gold_label |-> Label(Row, Gold[Row]),
     retrieved_label |-> IF RetrievedAnchor = None THEN "NONE" ELSE Label(Row, RetrievedAnchor),
     threshold |-> request.policy.finite \/ probe.threshold,
     accepted_gold |-> forced,
     hit |-> Hit,
     evaluated |-> probe.evaluated,
     accepted |-> probe.accepted]

\* The bookkeeping after a request.
Diagnose(forced) ==
    /\ Probes /\ at = "handled"
    /\ forced => request.policy.finite \/ probe.threshold
    /\ records' = Append(records, AnchorRecord(forced))
    /\ probe' = NoProbe
    /\ recorder' = Resolved
    /\ request' = NoRequest
    /\ at' = IF idx % BatchSize = 0 THEN "check" ELSE "next"
    /\ UNCHANGED <<options, phase, idx, rows, verdicts, policy, learning, session, audit,
                   attempts, stopping, frozen>>

Activated == Trained(policy) /\ Calibrated(policy)

\* require_activation, which the ensemble has.
BeginDiagnosed(jobs) ==
    /\ options.anchors
    /\ options.method = "ensemble" => Activated
    /\ EnterMeasured(jobs)
    /\ UNCHANGED <<session, diagnosis>>

FailFast ==
    /\ options.anchors
    /\ phase = "refit" /\ options.method = "ensemble" /\ ~Activated
    /\ phase' = "failed"
    /\ UNCHANGED <<options, serving, policy, learning, measuring, attempts, stopping, frozen,
                   diagnosis>>

Diagnoses ==
    \/ \E candidates \in SUBSET rows :
          \E top1 \in candidates \cup {None}, accepted \in SUBSET candidates :
             Probe(candidates, top1, accepted)
    \/ \E accepted \in probe.candidates \cup {None} : DecideProbed(accepted)
    \/ \E forced \in BOOLEAN : Diagnose(forced)
    \/ \E jobs \in SUBSET Jobs : BeginDiagnosed(jobs)
    \/ FailFast

DiagnosedNext ==
    \/ Diagnoses
    \/ /\ \/ ~Probes /\ (Decides \/ Account)
          \/ ~options.anchors /\ Begins
          \/ Judges \/ Returns \/ Learns \/ Checks \/ WarmupEnds \/ ForceRefit \/ Finish
       /\ UNCHANGED diagnosis

DiagnosedSpec == DiagnosedInit /\ [][DiagnosedNext]_<<vars, diagnosis>>

(***************************************************************************)
(* aggregate_anchor_diagnostics.                                           *)
(***************************************************************************)
IsSelfPair(r) == r.hit /\ r.retrieved = r.query

ServedClass(r) ==
    CASE ~r.hit -> "miss"
      [] r.hit /\ ~IsSelfPair(r) /\ r.retrieved_label = "H1" -> "tp"
      [] r.hit /\ ~IsSelfPair(r) /\ r.retrieved_label = "H0" -> "fp"
      [] OTHER -> "unjudged"

AcceptedWrongAnchor(r) == r.hit /\ ~IsSelfPair(r) /\ r.retrieved # r.gold
RejectedWrongAnchor(r) == ~r.hit /\ r.top1 # None /\ r.top1 # r.gold

SameCluster(r) == r.retrieved # None /\ Cluster[r.retrieved] = Cluster[r.gold]

\* Gold pairs that should be accepted and could be scored.
Forced(r) == r.gold_label = "H1" /\ r.threshold

\* active_fp_attribution, of one false positive.
Attribution(r) ==
    IF ~r.available THEN "gold_anchor_absent"
    ELSE IF ~r.in_topk THEN "gold_present_not_in_topk"
    ELSE IF r.retrieved # r.gold THEN "gold_in_topk_not_selected"
    ELSE "other"

CountIf(Test(_)) == Cardinality({i \in DOMAIN records : Test(records[i])})

RawCounts ==
    [gold_available |-> CountIf(LAMBDA r : r.available),
     top1_gold |-> CountIf(LAMBDA r : r.top1 = r.gold),
     top1_wrong |-> CountIf(LAMBDA r : r.top1 \notin {None, r.gold}),
     topk_gold |-> CountIf(LAMBDA r : r.in_topk),
     accepted_gold |-> CountIf(LAMBDA r : Forced(r) /\ r.accepted_gold),
     rejected_gold |-> CountIf(LAMBDA r : Forced(r) /\ ~r.accepted_gold),
     accepted_wrong |-> CountIf(AcceptedWrongAnchor),
     rejected_wrong |-> CountIf(RejectedWrongAnchor),
     same_cluster_wrong |-> CountIf(LAMBDA r : AcceptedWrongAnchor(r) /\ SameCluster(r)),
     served_hits |-> CountIf(LAMBDA r : r.hit),
     active_tp |-> CountIf(LAMBDA r : ServedClass(r) = "tp"),
     active_fp |-> CountIf(LAMBDA r : ServedClass(r) = "fp"),
     active_unjudged |-> CountIf(LAMBDA r : ServedClass(r) = "unjudged")]

\* active_fp_attribution, and dominant_active_fp_bucket: the first of the
\* largest.
Buckets == <<"gold_anchor_absent", "gold_present_not_in_topk",
             "gold_in_topk_not_selected", "other">>

InBucket(bucket) ==
    CountIf(LAMBDA r : ServedClass(r) = "fp" /\ Attribution(r) = bucket)

Dominant ==
    IF RawCounts.active_fp = 0 THEN None
    ELSE Buckets[CHOOSE i \in DOMAIN Buckets :
            /\ \A j \in DOMAIN Buckets : InBucket(Buckets[j]) <= InBucket(Buckets[i])
            /\ \A j \in 1..i - 1 : InBucket(Buckets[j]) < InBucket(Buckets[i])]

\* _anchor_verdict, which compares scorer_tpr_given_gold_anchor, a rate over
\* the forced pairs, with 0.7 and 0.5.
AnchorVerdict ==
    LET accepted == RawCounts.accepted_gold
        forced == accepted + RawCounts.rejected_gold
    IN  CASE RawCounts.active_fp = 0 -> "none"
          [] RawCounts.active_fp > 0 /\ forced = 0 -> "inconclusive"
          [] RawCounts.active_fp > 0 /\ forced > 0 /\ 10 * accepted >= 7 * forced -> "retrieval"
          [] RawCounts.active_fp > 0 /\ forced > 0 /\ 2 * accepted < forced -> "scorer"
          [] OTHER -> "mixed"

(***************************************************************************)
(* Properties.                                                             *)
(***************************************************************************)
Measured == options.anchors /\ phase \in {"measured", "done"} /\ at \in {"next", "check"}

\* The diagnostic agrees with the recorder: the true, false and unjudged hits,
\* which together are the hits, that aggregate_anchor_diagnostics finds in its records, from the anchor that
\* was served and the verdicts on file, are those that resolve_request joined
\* from the pairs the judge reported, whatever it failed to judge.
DiagnosticsAgree ==
    (Measured /\ options.judge_cache) =>
        /\ RawCounts.active_tp = recorder.counts.true_accepts
        /\ RawCounts.active_fp = recorder.counts.false_accepts
        /\ RawCounts.active_unjudged = recorder.counts.unjudged_accepts
        /\ RawCounts.served_hits = RawCounts.active_tp + RawCounts.active_fp
                                    + RawCounts.active_unjudged

Misses(n) == {records[i].query : i \in {j \in 1..n : ~records[j].hit}}
Warm == {options.warmup[i] : i \in DOMAIN options.warmup} \cap rows

\* The attribution blames the cache only when the cache is to blame: the gold
\* anchor counts as present exactly when an earlier request, of the warm-up or
\* a miss of the replay, stored it, never by the write of the request itself,
\* and a false positive is put down to an absent anchor only then.
AttributionByHistory ==
    Measured =>
        \A i \in DOMAIN records :
            LET stored == Warm \cup Misses(i - 1)
            IN  /\ records[i].available <=> records[i].gold \in stored
                /\ ServedClass(records[i]) = "fp" =>
                      (Attribution(records[i]) = "gold_anchor_absent"
                         <=> records[i].gold \notin stored)
=============================================================================
