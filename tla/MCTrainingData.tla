--------------------------- MODULE MCTrainingData ---------------------------
(***************************************************************************)
(* Instances of TrainingData for TLC, and PairDecision on small requests.  *)
(***************************************************************************)
EXTENDS TrainingData, PairDecision, TLC

CONSTANTS p1, p2, t1

MCPairs == {p1, p2}
MCThreads == {t1}

\* Every other pair, the first one to calibration; every third pair.
MCRules == {[num |-> 1, den |-> 2, every_n |-> 5],
            [num |-> 0, den |-> 1, every_n |-> 3]}

\* Room for a key twice in the buckets that evict.
MCCapacity == [s \in Splits |-> [l \in Labels |-> 2]]

(***************************************************************************)
(* Small requests                                                          *)
(***************************************************************************)

Candidates ==
    [key : 1..2, score : {{}, {1}, {2}}, query : {"same"}] \cup
    [key : {3}, score : {{1}}, query : {"other"}]

Retrieved == UNION {[1..n -> Candidates] : n \in 0..3}

Snapshots == [semantic_hits_disabled : BOOLEAN, threshold : {{}, {1}, {2}},
              tie_mode : {"GT", "GE"}]

KeyLabels == [1..3 -> {"REUSABLE", "NOT_REUSABLE"}]

Config(self, top_k, max_pairs) ==
    [skip_duplicate_candidates |-> TRUE, skip_self_pairs |-> self,
     include_served_candidate |-> TRUE, include_unserved_candidates |-> TRUE,
     top_k |-> top_k, max_pairs |-> max_pairs]

\* The served candidate passed the threshold, no candidate scores more, and of
\* those that score as much none was retrieved before it; a request that a candidate
\* passes is served, unless hits are disabled or there is no threshold.
ASSUME BestIsServed ==
    \A candidates \in Retrieved, snapshot \in Snapshots :
        LET decision == ScoreRequestWithSnapshot(candidates, snapshot)
            off == snapshot.semantic_hits_disabled \/ snapshot.threshold = {}
        IN  /\ decision.accepted <=> ~off /\ Passes(candidates, snapshot) # {}
            /\ decision.accepted =>
                  LET best == The(decision.rank)
                  IN  /\ candidates[best].key \in decision.cache_key
                      /\ best \in Passes(candidates, snapshot)
                      /\ \A r \in DOMAIN candidates, score \in {1, 2} :
                            candidates[r].score = {score}
                            => \/ score < The(candidates[best].score)
                               \/ {score} = candidates[best].score /\ best <= r

\* A judge that overrides decides alone: a request that retrieved anything is a hit
\* if and only if the judge finds the judged candidate reusable, also while hits are
\* disabled and before there is a threshold.
ASSUME JudgeDecidesAlone ==
    \A candidates \in Retrieved \ {<<>>}, snapshot \in Snapshots, labels \in KeyLabels :
        LET decision == ScoreRequestWithSnapshot(candidates, snapshot)
            final == FinalizeDecision(candidates, decision, labels, TRUE)
            judged == candidates[The(FeedbackRank(candidates, decision))].key
        IN  /\ final.accepted <=> labels[judged] = "REUSABLE"
            /\ final.accepted => final.cache_key = {judged}

\* With shadow collection an accept of the scorer is monitored as what it was, as it
\* is without; but for the pairs the collector skips, the query's own.
ASSUME ModesMonitorAlike ==
    \A candidates \in Retrieved, snapshot \in Snapshots, labels \in KeyLabels :
        LET one == Decide(Config(FALSE, 3, {}), "same", candidates, snapshot, labels,
                          FALSE, TRUE)
            other == Decide(Config(FALSE, 3, {}), "same", candidates, snapshot, labels,
                            FALSE, FALSE)
        IN  /\ one.served = other.served
            /\ one.monitored.true_accepts = other.monitored.true_accepts
            /\ one.monitored.false_accepts = other.monitored.false_accepts
            /\ one.monitored.h0 >= other.monitored.h0
            /\ one.monitored.h1 >= other.monitored.h1

\* With shadow collection, a judge that overrides hides every false accept of the
\* scorer from the monitor: what is refused by the judge is not served, and what is
\* not served is not counted, though the scorer passed it.
ASSUME OverrideHidesFalseAccepts ==
    /\ \A candidates \in Retrieved, snapshot \in Snapshots, labels \in KeyLabels :
          Decide(Config(FALSE, 3, {}), "same", candidates, snapshot, labels,
                 TRUE, TRUE).monitored.false_accepts = 0
    /\ \E candidates \in Retrieved, snapshot \in Snapshots, labels \in KeyLabels :
          Decide(Config(FALSE, 3, {}), "same", candidates, snapshot, labels,
                 TRUE, FALSE).monitored.false_accepts = 1

\* Each key is judged at most once, no pair of the query with itself, and no more
\* pairs than there may be; a pair that may be judged is left out only if as many
\* were judged before it.
ASSUME CandidatesJudgedOnce ==
    \A candidates \in Retrieved, top_k \in 1..3, max_pairs \in {{}, {1}, {2}} :
        LET served == Decision("MISS", {}, {}, "no_neighbors")
            ranks == JudgedRanks(Config(TRUE, top_k, max_pairs), "other", candidates, served)
        IN  /\ \A r, s \in ranks : candidates[r].key = candidates[s].key => r = s
            /\ \A r \in ranks : candidates[r].query # "other" /\ r <= top_k
            /\ max_pairs # {} => Cardinality(ranks) <= The(max_pairs)
            /\ \A r \in DOMAIN candidates :
                  \/ r > top_k
                  \/ candidates[r].query = "other"
                  \/ \E s \in ranks : candidates[s].key = candidates[r].key
                  \/ max_pairs = {Cardinality({s \in ranks : s < r})}
=============================================================================
