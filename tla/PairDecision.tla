---------------------------- MODULE PairDecision ----------------------------
(***************************************************************************)
(* One request of TrainableSemanticCacheOracle, as functions of what it    *)
(* retrieved: the decision of the scorer, the verdict of a judge that may  *)
(* override it (judge_can_override_decision), the candidates the shadow    *)
(* collector has judged, and what the online monitor is told.              *)
(* OracleLifecycle and TrainingData leave open what a candidate scores,    *)
(* which are skipped and what the judge says; here it is computed.         *)
(*                                                                         *)
(* A score, a threshold, a rank or a key that is None is an empty set, any *)
(* other a set of one.                                                     *)
(***************************************************************************)
EXTENDS Integers, Sequences, FiniteSets

JudgeLabels == {"REUSABLE", "NOT_REUSABLE", "UNCERTAIN"}

The(one) == CHOOSE x \in one : TRUE

(***************************************************************************)
(* The scorer's decision                                                   *)
(***************************************************************************)

\* _predict_score.
PredictScore(score, threshold, tie_mode) ==
    IF tie_mode = "GT" THEN score > threshold ELSE score >= threshold

\* A candidate whose features the scorer cannot score is no candidate.
Passes(candidates, snapshot) ==
    {r \in DOMAIN candidates :
        /\ candidates[r].score # {}
        /\ PredictScore(The(candidates[r].score), The(snapshot.threshold),
                        snapshot.tie_mode)}

\* The best of those that pass; of equals the one retrieved first.
BestRank(candidates, passing) ==
    {r \in passing : \A s \in passing :
        LET mine == The(candidates[r].score)
            other == The(candidates[s].score)
        IN  mine > other \/ (mine = other /\ r <= s)}

Decision(status, key, rank, reason) ==
    [status |-> status, accepted |-> status = "HIT", cache_key |-> key, rank |-> rank,
     reason |-> reason]

\* _score_request_with_snapshot.
ScoreRequestWithSnapshot(candidates, snapshot) ==
    IF candidates = <<>> THEN Decision("MISS", {}, {}, "no_neighbors")
    ELSE IF snapshot.semantic_hits_disabled
         THEN Decision("MISS", {}, {}, "semantic_hits_disabled")
    ELSE IF snapshot.threshold = {} THEN Decision("ABSTAIN", {}, {}, "oracle_not_fitted")
    ELSE LET best == BestRank(candidates, Passes(candidates, snapshot))
         IN  IF best = {} THEN Decision("MISS", {}, {}, "no_candidate_passed_threshold")
             ELSE Decision("HIT", {candidates[The(best)].key}, best, "accepted")

(***************************************************************************)
(* The judge's decision                                                    *)
(***************************************************************************)

\* The candidate that is judged: the one decided on, or the first.
FeedbackRank(candidates, decision) ==
    IF candidates = <<>> THEN {} ELSE IF decision.accepted THEN decision.rank ELSE {1}

\* _decision_from_judge_feedback.
DecisionFromJudgeFeedback(candidate, rank, label) ==
    CASE label = "REUSABLE" -> Decision("HIT", {candidate.key}, {rank}, "judge_labeled_h1")
      [] label = "NOT_REUSABLE" -> Decision("MISS", {}, {}, "judge_labeled_h0")
      [] label = "UNCERTAIN" -> Decision("ABSTAIN", {}, {}, "judge_uncertain")

\* _finalize_decision; without a judge there is no feedback.
FinalizeDecision(candidates, decision, labels, override) ==
    LET rank == FeedbackRank(candidates, decision)
    IN  IF rank = {} \/ ~override THEN decision
        ELSE DecisionFromJudgeFeedback(candidates[The(rank)], The(rank),
                                       labels[candidates[The(rank)].key])

(***************************************************************************)
(* The shadow collector's candidates                                       *)
(***************************************************************************)

IsServed(candidate, served) == candidate.key \in served.cache_key

\* _should_skip_candidate; earlier are the ranks before this one.
ShouldSkipCandidate(config, query, candidates, rank, served) ==
    LET c == candidates[rank]
    IN  \/ config.skip_duplicate_candidates
           /\ \E earlier \in 1..(rank - 1) : candidates[earlier].key = c.key
        \/ config.skip_self_pairs /\ c.query = query
        \/ IsServed(c, served) /\ ~config.include_served_candidate
        \/ ~IsServed(c, served) /\ ~config.include_unserved_candidates

\* The ranks that are judged: at most max_pairs_per_request of the first top_k.
JudgedRanks(config, query, candidates, served) ==
    LET wanted == {r \in DOMAIN candidates :
                      /\ r <= config.top_k
                      /\ ~ShouldSkipCandidate(config, query, candidates, r, served)}
    IN  {r \in wanted : config.max_pairs = {} \/
                        Cardinality({s \in wanted : s < r}) < The(config.max_pairs)}

(***************************************************************************)
(* The monitor                                                             *)
(***************************************************************************)

Monitored(h0, h1, true_accepts, false_accepts) ==
    [h0 |-> h0, h1 |-> h1, true_accepts |-> true_accepts, false_accepts |-> false_accepts]

OneIf(condition) == IF condition THEN 1 ELSE 0

\* _record_shadow_collection_for_monitoring: every judged pair, and of the
\* decision that was served whether its candidate was found reusable.
MonitorShadow(candidates, ranks, labels, served) ==
    LET labelled(l) == {r \in ranks : labels[candidates[r].key] = l}
        serves(l) == /\ served.accepted
                     /\ \E r \in labelled(l) : IsServed(candidates[r], served)
    IN  Monitored(Cardinality(labelled("NOT_REUSABLE")), Cardinality(labelled("REUSABLE")),
                  OneIf(serves("REUSABLE")), OneIf(serves("NOT_REUSABLE")))

\* _record_judge_feedback: the one judged pair, and the scorer's decision on it.
MonitorFeedback(label, decision) ==
    Monitored(OneIf(label = "NOT_REUSABLE"), OneIf(label = "REUSABLE"),
              OneIf(label = "REUSABLE" /\ decision.accepted),
              OneIf(label = "NOT_REUSABLE" /\ decision.accepted))

Nothing == Monitored(0, 0, 0, 0)

\* decide: what is served, and what the monitor hears of it.  The counts of a
\* request with shadow collection are taken of the decision as it was served.
Decide(config, query, candidates, snapshot, labels, override, shadow) ==
    LET scored == ScoreRequestWithSnapshot(candidates, snapshot)
        served == FinalizeDecision(candidates, scored, labels, override)
        rank == FeedbackRank(candidates, scored)
        ranks == JudgedRanks(config, query, candidates, served)
    IN  [scored |-> scored, served |-> served,
         monitored |-> IF shadow THEN MonitorShadow(candidates, ranks, labels, served)
                       ELSE IF rank = {} THEN Nothing
                       ELSE MonitorFeedback(labels[candidates[The(rank)].key], scored)]
=============================================================================
