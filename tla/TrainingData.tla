---------------------------- MODULE TrainingData ----------------------------
(***************************************************************************)
(* DefaultShadowTopKCollector and InMemorySplitJudgeTrainingStore: requests *)
(* have their candidates judged, and the labelled pairs go to the training *)
(* or the calibration split of a bounded store.  The collector's counters  *)
(* have a lock; the store has none.                                        *)
(*                                                                         *)
(* A step is one statement on the store (the three that count a key down   *)
(* are one), or one hold of the lock; judging touches nothing shared, so   *)
(* that the candidates of a call are judged in one batch does not show.    *)
(* An example is a query-candidate pair and its label, which is what the   *)
(* store takes for its key.  What the judge says is nondeterministic, also *)
(* about a pair it has judged before; candidates that a call skips are     *)
(* those it does not pick.  The calibration fraction is an exact quotient  *)
(* here, a float in the code.  raise_on_failure (off by default), the      *)
(* uncertain examples, which the store drops, and the query records of the *)
(* collector are left out.                                                 *)
(***************************************************************************)
EXTENDS Integers, Sequences, FiniteSets

CONSTANTS
    Pairs,         \* query-candidate pairs
    Threads,       \* threads that collect
    Capacity,      \* max_h0_train, ...: one per split and label
    Rules,         \* split configurations the collector may be built with
    TopK,          \* top_k
    MaxCalls       \* bound: calls of collect

Labels == {"H0", "H1"}
Splits == {"train", "calibration"}
Other(s) == IF s = "train" THEN "calibration" ELSE "train"

\* calibration_fraction as the quotient num/den, num = 0 if it is None, and
\* calibration_every_n, which then applies.
RuleType == {r \in [num : Nat, den : Nat, every_n : Nat \ {0}] : r.num < r.den}

ASSUME TrainingAssumption ==
    /\ Pairs # {}
    /\ Capacity \in [Splits -> [Labels -> Nat \ {0}]]
    /\ Rules \subseteq RuleType
    /\ TopK \in Nat \ {0}
    /\ MaxCalls \in Nat

Examples == [pair : Pairs, label : Labels]

VARIABLES
    rule,    \* the configured split, fixed at construction
    seen,    \* _h0_split_count, _h1_split_count
    calib,   \* _h0_calib_count, _h1_calib_count
    bucket,  \* the examples of each split and label, oldest first
    keys,    \* the list of keys kept beside each bucket
    counts,  \* _train_keys and _calibration_keys: occurrences of a key
    thread,  \* one call of collect per thread
    calls    \* calls so far

vars == <<rule, seen, calib, bucket, keys, counts, thread, calls>>
counters == <<rule, seen, calib>>
store == <<bucket, keys, counts>>

Points == {"idle", "judging", "labelled", "assigned", "admitted", "full",
           "popped", "unkeyed", "room", "appended", "keyed", "returned"}

ThreadType ==
    [at : Points,
     judged : SUBSET Pairs,        \* candidates of this call that are done
     served : SUBSET Pairs,        \* the served candidate, or none
     label : Labels \cup {"none"}, \* candidate_labels of the served one
     example : Examples, split : Splits, evicted : Examples,
     added : [Labels -> Nat]]      \* h0_added, h1_added

AnyExample == CHOOSE e \in Examples : TRUE
Idle == [at |-> "idle", judged |-> {}, served |-> {}, label |-> "none",
         example |-> AnyExample, split |-> "train", evicted |-> AnyExample,
         added |-> [l \in Labels |-> 0]]

TypeOK ==
    /\ rule \in Rules
    /\ seen \in [Labels -> Nat]
    /\ calib \in [Labels -> Nat]
    /\ bucket \in [Splits -> [Labels -> Seq(Examples)]]
    /\ keys \in [Splits -> [Labels -> Seq(Examples)]]
    /\ counts \in [Splits -> [Examples -> Nat]]
    /\ thread \in [Threads -> ThreadType]
    /\ calls \in 0..MaxCalls

Init ==
    /\ rule \in Rules
    /\ seen = [l \in Labels |-> 0]
    /\ calib = [l \in Labels |-> 0]
    /\ bucket = [s \in Splits |-> [l \in Labels |-> <<>>]]
    /\ keys = [s \in Splits |-> [l \in Labels |-> <<>>]]
    /\ counts = [s \in Splits |-> [e \in Examples |-> 0]]
    /\ thread = [t \in Threads |-> Idle]
    /\ calls = 0

(***************************************************************************)
(* The collector                                                           *)
(***************************************************************************)

AtMostOnePair == {{}} \cup {{p} : p \in Pairs}

\* collect, for a request served with one of its candidates or with none.
CallCollect(t) ==
    /\ thread[t].at = "idle"
    /\ calls < MaxCalls
    /\ calls' = calls + 1
    /\ \E served \in AtMostOnePair :
          thread' = [thread EXCEPT ![t].at = "judging", ![t].served = served]
    /\ UNCHANGED <<counters, store>>

\* The next candidate: its features or its judge raise, the judge is
\* uncertain, or it has a label.
JudgeCandidate(t) ==
    /\ thread[t].at = "judging"
    /\ Cardinality(thread[t].judged) < TopK
    /\ \E p \in Pairs \ thread[t].judged :
          \/ thread' = [thread EXCEPT ![t].judged = @ \cup {p}]
          \/ \E l \in Labels :
                thread' = [thread EXCEPT
                             ![t].at = "labelled",
                             ![t].judged = @ \cup {p},
                             ![t].example = [pair |-> p, label |-> l],
                             ![t].label = IF p \in thread[t].served THEN l ELSE @]
    /\ UNCHANGED <<counters, store, calls>>

\* Whether the n-th pair of a label goes to calibration, where c are.
ToCalibration(n, c) ==
    IF rule.num > 0 THEN c * rule.den < rule.num * n
                    ELSE n % rule.every_n = 0

\* _next_split, under the collector's lock.
NextSplit(t) ==
    LET l == thread[t].example.label
        to == ToCalibration(seen[l] + 1, calib[l])
    IN  /\ thread[t].at = "labelled"
        /\ UNCHANGED rule
        /\ seen' = [seen EXCEPT ![l] = @ + 1]
        /\ calib' = [calib EXCEPT ![l] = IF to THEN @ + 1 ELSE @]
        /\ thread' = [thread EXCEPT ![t].at = "assigned",
                                    ![t].split = IF to THEN "calibration"
                                                 ELSE "train"]
        /\ UNCHANGED <<store, calls>>

\* The store returned: the pair counts, be it refused or stored.
Counted(t) ==
    thread' = [thread EXCEPT
                 ![t].at = "judging",
                 ![t].added[thread[t].example.label] = @ + 1]

\* The store raised: the pair does not count, its label stays.
Failed(t) == thread' = [thread EXCEPT ![t].at = "judging"]

Moves(t, at) == thread' = [thread EXCEPT ![t].at = at]

\* The result is made and the totals are committed.
FinishCollect(t) ==
    /\ thread[t].at = "judging"
    /\ Moves(t, "returned")
    /\ UNCHANGED <<counters, store, calls>>

\* The oracle takes the result.
TakeResult(t) ==
    /\ thread[t].at = "returned"
    /\ thread' = [thread EXCEPT ![t] = Idle]
    /\ UNCHANGED <<counters, store, calls>>

(***************************************************************************)
(* add_train and add_calibration                                           *)
(***************************************************************************)
BucketOf(t) == bucket[thread[t].split][thread[t].example.label]
KeysOf(t) == keys[thread[t].split][thread[t].example.label]

SetBucket(t, b) ==
    bucket' = [bucket EXCEPT ![thread[t].split][thread[t].example.label] = b]
SetKeys(t, k) ==
    keys' = [keys EXCEPT ![thread[t].split][thread[t].example.label] = k]

\* Mutant: a refused pair is not counted.
AdmitCountsStored(t) ==
    /\ thread[t].at = "assigned"
    /\ IF counts[Other(thread[t].split)][thread[t].example] > 0
       THEN Failed(t)
       ELSE Moves(t, "admitted")
    /\ UNCHANGED <<counters, store, calls>>

\* An example of the other split is refused.
Admit(t) ==
    /\ thread[t].at = "assigned"
    /\ IF counts[Other(thread[t].split)][thread[t].example] > 0
       THEN Counted(t)
       ELSE Moves(t, "admitted")
    /\ UNCHANGED <<counters, store, calls>>

CheckRoom(t) ==
    /\ thread[t].at = "admitted"
    /\ Moves(t, IF Len(BucketOf(t))
                     >= Capacity[thread[t].split][thread[t].example.label]
                THEN "full" ELSE "room")
    /\ UNCHANGED <<counters, store, calls>>

\* FIFO: the oldest example goes.  IndexError if another thread took it.
PopExample(t) ==
    /\ thread[t].at = "full"
    /\ IF BucketOf(t) = <<>>
       THEN Failed(t) /\ UNCHANGED bucket
       ELSE Moves(t, "popped") /\ SetBucket(t, Tail(BucketOf(t)))
    /\ UNCHANGED <<counters, keys, counts, calls>>

PopKey(t) ==
    /\ thread[t].at = "popped"
    /\ IF KeysOf(t) = <<>>
       THEN Failed(t) /\ UNCHANGED keys
       ELSE /\ thread' = [thread EXCEPT ![t].at = "unkeyed",
                                        ![t].evicted = Head(KeysOf(t))]
            /\ SetKeys(t, Tail(KeysOf(t)))
    /\ UNCHANGED <<counters, bucket, counts, calls>>

\* Mutant: the key is dropped although the bucket may hold it twice.
ForgetKey(t) ==
    /\ thread[t].at = "unkeyed"
    /\ counts' = [counts EXCEPT ![thread[t].split][thread[t].evicted] = 0]
    /\ Moves(t, "room")
    /\ UNCHANGED <<counters, bucket, keys, calls>>

\* One occurrence less; the Counter drops a key that has none.
UncountKey(t) ==
    /\ thread[t].at = "unkeyed"
    /\ counts' = [counts EXCEPT ![thread[t].split][thread[t].evicted] =
                    IF @ > 0 THEN @ - 1 ELSE 0]
    /\ Moves(t, "room")
    /\ UNCHANGED <<counters, bucket, keys, calls>>

AppendExample(t) ==
    /\ thread[t].at = "room"
    /\ SetBucket(t, Append(BucketOf(t), thread[t].example))
    /\ Moves(t, "appended")
    /\ UNCHANGED <<counters, keys, counts, calls>>

AppendKey(t) ==
    /\ thread[t].at = "appended"
    /\ SetKeys(t, Append(KeysOf(t), thread[t].example))
    /\ Moves(t, "keyed")
    /\ UNCHANGED <<counters, bucket, counts, calls>>

CountKey(t) ==
    /\ thread[t].at = "keyed"
    /\ counts' = [counts EXCEPT ![thread[t].split][thread[t].example] = @ + 1]
    /\ Counted(t)
    /\ UNCHANGED <<counters, bucket, keys, calls>>

ThreadStep(t) ==
    \/ CallCollect(t) \/ JudgeCandidate(t) \/ NextSplit(t) \/ Admit(t)
    \/ CheckRoom(t) \/ PopExample(t) \/ PopKey(t) \/ UncountKey(t)
    \/ AppendExample(t) \/ AppendKey(t) \/ CountKey(t)
    \/ FinishCollect(t) \/ TakeResult(t)

Next == \E t \in Threads : ThreadStep(t)

Spec == Init /\ [][Next]_vars

(***************************************************************************)
(* Properties                                                              *)
(***************************************************************************)

\* The calibration share of the pairs of each label is the configured one at
\* every moment, to within one pair, whichever threads ask the shared counters
\* for a split in between.
ShareKept ==
    \A l \in Labels :
        IF rule.num > 0
        THEN /\ rule.num * seen[l] <= calib[l] * rule.den
             /\ calib[l] * rule.den < rule.num * seen[l] + rule.den
        ELSE calib[l] = seen[l] \div rule.every_n

InBuckets(s, e) ==
    \E i \in DOMAIN bucket[s][e.label] : bucket[s][e.label][i] = e

\* What the docstring of SplitJudgeTrainingStore says: an example the scorer
\* is trained with is not one its threshold is calibrated with, however often
\* pairs come back and however often the buckets evict.
SplitsDisjoint ==
    \A e \in Examples : ~(InBuckets("train", e) /\ InBuckets("calibration", e))

Occurrences(e, q) == Cardinality({i \in DOMAIN q : q[i] = e})

InStore == {"popped", "unkeyed", "appended", "keyed"}

\* Between two calls of the store the keys are those of the examples in the
\* bucket, and a key counts as often as its example is there: a key that is
\* lost lets its example into the other split, one that is left over keeps it
\* out for ever.
KeysInStep ==
    (\A t \in Threads : thread[t].at \notin InStore) =>
        \A s \in Splits, l \in Labels :
            /\ keys[s][l] = bucket[s][l]
            /\ \A e \in {x \in Examples : x.label = l} :
                  counts[s][e] = Occurrences(e, bucket[s][l])

\* A bucket never holds more than its capacity.
BucketsBounded ==
    \A s \in Splits, l \in Labels : Len(bucket[s][l]) <= Capacity[s][l]

\* What the oracle's monitor relies on: a label reported for the served
\* candidate is one of the pairs reported as added, also when the store
\* refused the pair.
ServedLabelCounted ==
    \A t \in Threads :
        thread[t].at = "returned" /\ thread[t].label # "none"
        => thread[t].added[thread[t].label] > 0
=============================================================================
