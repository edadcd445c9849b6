------------------------ MODULE TrainingData_proofs ------------------------
(***************************************************************************)
(* Theorems about TrainingData: types and the calibration share for any    *)
(* number of threads, and what a store that one thread uses promises.      *)
(***************************************************************************)
EXTENDS TrainingData, FiniteSetTheorems, TLAPS

LEMMA AnyExampleType == AnyExample \in Examples
  <1>1. PICK p \in Pairs : TRUE
    BY TrainingAssumption
  <1>2. [pair |-> p, label |-> "H0"] \in Examples
    BY DEF Examples, Labels
  <1>3. QED BY <1>2 DEF AnyExample

LEMMA IdleType == Idle \in ThreadType
  BY AnyExampleType DEF Idle, ThreadType, Points, Splits, Labels

(***************************************************************************)
(* Types                                                                   *)
(***************************************************************************)

LEMMA InitType == Init => TypeOK
  BY TrainingAssumption, IdleType DEF Init, TypeOK, Splits, Labels

LEMMA CollectorStepType ==
  ASSUME TypeOK, NEW t \in Threads,
         CallCollect(t) \/ JudgeCandidate(t) \/ NextSplit(t)
           \/ FinishCollect(t) \/ TakeResult(t)
  PROVE  TypeOK'
  <1> USE TrainingAssumption DEF TypeOK, counters, store
  <1>0. thread[t] \in ThreadType
    OBVIOUS
  <1>1. CASE CallCollect(t)
    <2>0. AtMostOnePair \subseteq SUBSET Pairs
      BY DEF AtMostOnePair
    <2>1. PICK served \in AtMostOnePair :
            thread' = [thread EXCEPT ![t].at = "judging", ![t].served = served]
      BY <1>1 DEF CallCollect
    <2>2. [thread[t] EXCEPT !.at = "judging", !.served = served] \in ThreadType
      BY <1>0, <2>0 DEF ThreadType, Points
    <2>3. thread' \in [Threads -> ThreadType]
      BY <2>1, <2>2
    <2>4. calls < MaxCalls /\ calls' = calls + 1 /\ UNCHANGED <<counters, store>>
      BY <1>1 DEF CallCollect
    <2>5. calls' \in 0..MaxCalls
      BY <2>4
    <2>6. QED BY <2>3, <2>4, <2>5
  <1>2. CASE JudgeCandidate(t)
    <2>1. PICK p \in Pairs :
            \/ thread' = [thread EXCEPT ![t].judged = @ \cup {p}]
            \/ \E l \in Labels :
                 thread' = [thread EXCEPT
                              ![t].at = "labelled",
                              ![t].judged = @ \cup {p},
                              ![t].example = [pair |-> p, label |-> l],
                              ![t].label = IF p \in thread[t].served THEN l ELSE @]
      BY <1>2 DEF JudgeCandidate
    <2>2. CASE thread' = [thread EXCEPT ![t].judged = @ \cup {p}]
      <3>1. [thread[t] EXCEPT !.judged = @ \cup {p}] \in ThreadType
        BY <1>0 DEF ThreadType
      <3>2. QED BY <1>2, <2>2, <3>1 DEF JudgeCandidate
    <2>3. ASSUME NEW l \in Labels,
                 thread' = [thread EXCEPT
                              ![t].at = "labelled",
                              ![t].judged = @ \cup {p},
                              ![t].example = [pair |-> p, label |-> l],
                              ![t].label = IF p \in thread[t].served THEN l ELSE @]
          PROVE  TypeOK'
      <3>1. [thread[t] EXCEPT
               !.at = "labelled",
               !.judged = @ \cup {p},
               !.example = [pair |-> p, label |-> l],
               !.label = IF p \in thread[t].served THEN l ELSE @] \in ThreadType
        BY <1>0 DEF ThreadType, Points, Examples
      <3>2. QED BY <1>2, <2>3, <3>1 DEF JudgeCandidate
    <2>4. QED BY <2>1, <2>2, <2>3
  <1>3. CASE NextSplit(t)
    <2>1. thread[t].example.label \in Labels
      BY <1>0 DEF ThreadType, Examples
    <2>2. seen' \in [Labels -> Nat] /\ calib' \in [Labels -> Nat]
      BY <1>3, <2>1 DEF NextSplit
    <2>3. \A s \in Splits :
             [thread[t] EXCEPT !.at = "assigned", !.split = s] \in ThreadType
      BY <1>0 DEF ThreadType, Points
    <2>4. thread' \in [Threads -> ThreadType]
      BY <1>3, <2>3 DEF NextSplit, Splits
    <2>5. QED BY <1>3, <2>2, <2>4 DEF NextSplit
  <1>4. CASE FinishCollect(t)
    <2>1. [thread[t] EXCEPT !.at = "returned"] \in ThreadType
      BY <1>0 DEF ThreadType, Points
    <2>2. QED BY <1>4, <2>1 DEF FinishCollect, Moves
  <1>5. CASE TakeResult(t)
    BY <1>5, IdleType DEF TakeResult
  <1>6. QED
    BY <1>1, <1>2, <1>3, <1>4, <1>5

LEMMA MovesType ==
  ASSUME TypeOK, NEW t \in Threads, NEW at \in Points, Moves(t, at)
  PROVE  thread' \in [Threads -> ThreadType]
  <1>1. [thread[t] EXCEPT !.at = at] \in ThreadType
    BY DEF TypeOK, ThreadType
  <1>2. QED BY <1>1 DEF Moves, TypeOK

LEMMA CountedType ==
  ASSUME TypeOK, NEW t \in Threads, Counted(t)
  PROVE  thread' \in [Threads -> ThreadType]
  <1> DEFINE l == thread[t].example.label
  <1>1. thread[t] \in ThreadType /\ l \in Labels
    BY DEF TypeOK, ThreadType, Examples
  <1>2. [thread[t].added EXCEPT ![l] = @ + 1] \in [Labels -> Nat]
    BY <1>1 DEF ThreadType
  <1>3. [thread[t] EXCEPT !.at = "judging",
           !.added = [thread[t].added EXCEPT ![l] = @ + 1]] \in ThreadType
    BY <1>1, <1>2 DEF ThreadType, Points
  <1>4. thread' = [thread EXCEPT ![t] =
                     [thread[t] EXCEPT !.at = "judging",
                        !.added = [thread[t].added EXCEPT ![l] = @ + 1]]]
    BY DEF Counted, TypeOK
  <1>5. QED BY <1>3, <1>4 DEF TypeOK

LEMMA FailedType ==
  ASSUME TypeOK, NEW t \in Threads, Failed(t)
  PROVE  thread' \in [Threads -> ThreadType]
  BY MovesType DEF Failed, Moves, Points

\* Where a thread in the store works.
LEMMA PlaceType ==
  ASSUME TypeOK, NEW t \in Threads
  PROVE  /\ thread[t] \in ThreadType
         /\ thread[t].split \in Splits
         /\ thread[t].example \in Examples
         /\ thread[t].evicted \in Examples
         /\ thread[t].example.label \in Labels
         /\ BucketOf(t) \in Seq(Examples)
         /\ KeysOf(t) \in Seq(Examples)
  <1>1. thread[t] \in ThreadType
    BY DEF TypeOK
  <1>2. /\ thread[t].split \in Splits
        /\ thread[t].example \in Examples
        /\ thread[t].evicted \in Examples
    BY <1>1 DEF ThreadType
  <1>3. thread[t].example.label \in Labels
    BY <1>2 DEF Examples
  <1>4. BucketOf(t) \in Seq(Examples) /\ KeysOf(t) \in Seq(Examples)
    BY <1>2, <1>3 DEF TypeOK, BucketOf, KeysOf
  <1>5. QED BY <1>1, <1>2, <1>3, <1>4

LEMMA SetBucketType ==
  ASSUME TypeOK, NEW t \in Threads, NEW b \in Seq(Examples), SetBucket(t, b)
  PROVE  bucket' \in [Splits -> [Labels -> Seq(Examples)]]
  BY PlaceType DEF TypeOK, SetBucket

LEMMA SetKeysType ==
  ASSUME TypeOK, NEW t \in Threads, NEW k \in Seq(Examples), SetKeys(t, k)
  PROVE  keys' \in [Splits -> [Labels -> Seq(Examples)]]
  BY PlaceType DEF TypeOK, SetKeys

LEMMA StoreStepType ==
  ASSUME TypeOK, NEW t \in Threads,
         Admit(t) \/ CheckRoom(t) \/ PopExample(t) \/ PopKey(t)
           \/ UncountKey(t) \/ AppendExample(t) \/ AppendKey(t) \/ CountKey(t)
  PROVE  TypeOK'
  <1> USE DEF counters, store
  <1>1. CASE Admit(t)
    <2>1. thread' \in [Threads -> ThreadType]
      BY <1>1, MovesType, CountedType DEF Admit, Points
    <2>2. QED BY <1>1, <2>1 DEF Admit, TypeOK
  <1>2. CASE CheckRoom(t)
    <2>1. thread' \in [Threads -> ThreadType]
      BY <1>2, MovesType DEF CheckRoom, Points
    <2>2. QED BY <1>2, <2>1 DEF CheckRoom, TypeOK
  <1>3. CASE PopExample(t)
    <2>1. thread' \in [Threads -> ThreadType]
      BY <1>3, MovesType, FailedType DEF PopExample, Points
    <2>2. bucket' \in [Splits -> [Labels -> Seq(Examples)]]
      <3>1. CASE BucketOf(t) = <<>>
        BY <1>3, <3>1 DEF PopExample, TypeOK
      <3>2. CASE BucketOf(t) # <<>>
        <4>1. Tail(BucketOf(t)) \in Seq(Examples)
          BY <3>2, PlaceType
        <4>2. QED BY <1>3, <3>2, <4>1, SetBucketType DEF PopExample
      <3>3. QED BY <3>1, <3>2
    <2>3. QED BY <1>3, <2>1, <2>2 DEF PopExample, TypeOK
  <1>4. CASE PopKey(t)
    <2>1. CASE KeysOf(t) = <<>>
      BY <1>4, <2>1, FailedType DEF PopKey, TypeOK
    <2>2. CASE KeysOf(t) # <<>>
      <3>1. Tail(KeysOf(t)) \in Seq(Examples) /\ Head(KeysOf(t)) \in Examples
        BY <2>2, PlaceType
      <3>2. keys' \in [Splits -> [Labels -> Seq(Examples)]]
        BY <1>4, <2>2, <3>1, SetKeysType DEF PopKey
      <3>3. [thread[t] EXCEPT !.at = "unkeyed", !.evicted = Head(KeysOf(t))]
              \in ThreadType
        BY <3>1, PlaceType DEF ThreadType, Points
      <3>4. thread' \in [Threads -> ThreadType]
        BY <1>4, <2>2, <3>3 DEF PopKey, TypeOK
      <3>5. QED BY <1>4, <3>2, <3>4 DEF PopKey, TypeOK
    <2>3. QED BY <2>1, <2>2
  <1>5. CASE UncountKey(t)
    <2>1. thread' \in [Threads -> ThreadType]
      BY <1>5, MovesType DEF UncountKey, Points
    <2>2. counts' \in [Splits -> [Examples -> Nat]]
      BY <1>5, PlaceType DEF UncountKey, TypeOK
    <2>3. QED BY <1>5, <2>1, <2>2 DEF UncountKey, TypeOK
  <1>6. CASE AppendExample(t)
    <2>1. Append(BucketOf(t), thread[t].example) \in Seq(Examples)
      BY PlaceType
    <2>2. bucket' \in [Splits -> [Labels -> Seq(Examples)]]
      BY <1>6, <2>1, SetBucketType DEF AppendExample
    <2>3. thread' \in [Threads -> ThreadType]
      BY <1>6, MovesType DEF AppendExample, Points
    <2>4. QED BY <1>6, <2>2, <2>3 DEF AppendExample, TypeOK
  <1>7. CASE AppendKey(t)
    <2>1. Append(KeysOf(t), thread[t].example) \in Seq(Examples)
      BY PlaceType
    <2>2. keys' \in [Splits -> [Labels -> Seq(Examples)]]
      BY <1>7, <2>1, SetKeysType DEF AppendKey
    <2>3. thread' \in [Threads -> ThreadType]
      BY <1>7, MovesType DEF AppendKey, Points
    <2>4. QED BY <1>7, <2>2, <2>3 DEF AppendKey, TypeOK
  <1>8. CASE CountKey(t)
    <2>1. thread' \in [Threads -> ThreadType]
      BY <1>8, CountedType DEF CountKey
    <2>2. counts' \in [Splits -> [Examples -> Nat]]
      BY <1>8, PlaceType DEF CountKey, TypeOK
    <2>3. QED BY <1>8, <2>1, <2>2 DEF CountKey, TypeOK
  <1>9. QED
    BY <1>1, <1>2, <1>3, <1>4, <1>5, <1>6, <1>7, <1>8

LEMMA StepType == TypeOK /\ [Next]_vars => TypeOK'
  <1>1. ASSUME TypeOK, UNCHANGED vars PROVE TypeOK'
    BY <1>1 DEF TypeOK, vars
  <1>2. QED
    BY <1>1, CollectorStepType, StoreStepType DEF Next, ThreadStep

\* Every variable keeps its type in every behaviour: for any pairs and any
\* number of threads, the counts of keys in particular are never negative.
THEOREM TypeCorrect == Spec => []TypeOK
  BY InitType, StepType, PTL DEF Spec

(***************************************************************************)
(* The calibration share                                                   *)
(***************************************************************************)

\* One more pair under calibration_fraction.
LEMMA FractionStep ==
  ASSUME NEW num \in Nat, NEW den \in Nat, num < den,
         NEW n \in Nat, NEW c \in Nat,
         num * n <= c * den, c * den < num * n + den
  PROVE  /\ c * den < num * (n + 1)
              => /\ num * (n + 1) <= (c + 1) * den
                 /\ (c + 1) * den < num * (n + 1) + den
         /\ ~(c * den < num * (n + 1))
              => /\ num * (n + 1) <= c * den
                 /\ c * den < num * (n + 1) + den
  <1>1. num * (n + 1) = num * n + num
    OBVIOUS
  <1>2. (c + 1) * den = c * den + den
    OBVIOUS
  <1>3. num * n \in Nat /\ c * den \in Nat
    OBVIOUS
  <1>4. QED BY <1>1, <1>2, <1>3

\* One more pair under calibration_every_n.
LEMMA EveryStep ==
  ASSUME NEW k \in Nat \ {0}, NEW n \in Nat
  PROVE  (n + 1) \div k = IF (n + 1) % k = 0 THEN (n \div k) + 1 ELSE n \div k
  <1>1. n = k * (n \div k) + (n % k) /\ n % k \in 0..(k - 1) /\ n \div k \in Nat
    OBVIOUS
  <1>2. /\ n + 1 = k * ((n + 1) \div k) + ((n + 1) % k)
        /\ (n + 1) % k \in 0..(k - 1)
        /\ (n + 1) \div k \in Nat
    OBVIOUS
  <1>3. QED BY <1>1, <1>2

LEMMA ShareStep ==
  ASSUME TypeOK, ShareKept, NEW t \in Threads, NextSplit(t)
  PROVE  ShareKept'
  <1> DEFINE l == thread[t].example.label
             to == ToCalibration(seen[l] + 1, calib[l])
  <1>1. /\ l \in Labels
        /\ rule' = rule
        /\ seen' = [seen EXCEPT ![l] = @ + 1]
        /\ calib' = [calib EXCEPT ![l] = IF to THEN @ + 1 ELSE @]
    BY PlaceType DEF NextSplit
  <1>2. /\ seen \in [Labels -> Nat] /\ calib \in [Labels -> Nat]
        /\ rule.num \in Nat /\ rule.den \in Nat /\ rule.num < rule.den
        /\ rule.every_n \in Nat \ {0}
    BY TrainingAssumption DEF TypeOK, RuleType
  <1>3. ASSUME NEW m \in Labels, m # l
        PROVE  seen'[m] = seen[m] /\ calib'[m] = calib[m]
    BY <1>1, <1>2, <1>3
  <1>4. /\ seen'[l] = seen[l] + 1
        /\ calib'[l] = IF to THEN calib[l] + 1 ELSE calib[l]
    BY <1>1, <1>2
  <1>5. CASE rule.num > 0
    <2>1. to <=> calib[l] * rule.den < rule.num * (seen[l] + 1)
      BY <1>5 DEF ToCalibration
    <2>2. /\ rule.num * seen[l] <= calib[l] * rule.den
          /\ calib[l] * rule.den < rule.num * seen[l] + rule.den
      BY <1>1, <1>5 DEF ShareKept
    <2>3. /\ rule.num * seen'[l] <= calib'[l] * rule.den
          /\ calib'[l] * rule.den < rule.num * seen'[l] + rule.den
      BY <1>1, <1>2, <1>4, <2>1, <2>2, FractionStep
    <2>4. QED BY <1>1, <1>3, <1>5, <2>3 DEF ShareKept
  <1>6. CASE ~(rule.num > 0)
    <2>1. to <=> (seen[l] + 1) % rule.every_n = 0
      BY <1>6 DEF ToCalibration
    <2>2. calib[l] = seen[l] \div rule.every_n
      BY <1>1, <1>6 DEF ShareKept
    <2>3. calib'[l] = seen'[l] \div rule.every_n
      BY <1>1, <1>2, <1>4, <2>1, <2>2, EveryStep
    <2>4. QED BY <1>1, <1>3, <1>6, <2>3 DEF ShareKept
  <1>7. QED BY <1>5, <1>6

LEMMA ShareInit == Init => ShareKept
  <1> SUFFICES ASSUME Init PROVE ShareKept
    OBVIOUS
  <1>1. /\ rule.num \in Nat /\ rule.den \in Nat /\ rule.num < rule.den
        /\ rule.every_n \in Nat \ {0}
    BY TrainingAssumption DEF Init, RuleType
  <1>2. 0 \div rule.every_n = 0 /\ rule.num * 0 = 0 /\ 0 * rule.den = 0
    BY <1>1
  <1>3. QED BY <1>1, <1>2 DEF Init, ShareKept

\* Whatever threads ask for splits, and in whatever order, the share of the
\* pairs of each label that goes to calibration is the configured one to
\* within one pair.
THEOREM ShareStaysKept == Spec => []ShareKept
  <1>1. TypeOK /\ ShareKept /\ [Next]_vars => ShareKept'
    <2> SUFFICES ASSUME TypeOK, ShareKept, [Next]_vars PROVE ShareKept'
      OBVIOUS
    <2>1. ASSUME NEW t \in Threads, ThreadStep(t), ~NextSplit(t)
          PROVE  UNCHANGED counters
      BY <2>1 DEF ThreadStep, CallCollect, JudgeCandidate, Admit, CheckRoom,
                  PopExample, PopKey, UncountKey, AppendExample, AppendKey,
                  CountKey, FinishCollect, TakeResult
    <2>2. CASE UNCHANGED counters
      BY <2>2 DEF counters, ShareKept
    <2>3. CASE UNCHANGED vars
      BY <2>2, <2>3 DEF vars, counters
    <2>4. QED
      BY <2>1, <2>2, <2>3, ShareStep DEF Next
  <1>2. QED
    BY <1>1, ShareInit, TypeCorrect, PTL DEF Spec

(***************************************************************************)
(* The store, used by one thread.  Places says how buckets and keys differ *)
(* in the middle of an insertion, Counts how keys and their counts do;     *)
(* with them an example that is in no count of the other split is in no    *)
(* bucket of it.                                                           *)
(***************************************************************************)
Here(t, s, l) == s = thread[t].split /\ l = thread[t].example.label

KeysLabelled ==
    \A s \in Splits, l \in Labels :
        \A i \in DOMAIN keys[s][l] : keys[s][l][i].label = l

PlaceInv(t, s, l) ==
    /\ Len(bucket[s][l]) <= Capacity[s][l]
    /\ ~Here(t, s, l) => bucket[s][l] = keys[s][l]
    /\ thread[t].at \notin {"popped", "appended"} => bucket[s][l] = keys[s][l]
    /\ Here(t, s, l) =>
         /\ thread[t].at = "full" => Len(bucket[s][l]) = Capacity[s][l]
         /\ thread[t].at = "popped" => /\ keys[s][l] # <<>>
                                       /\ bucket[s][l] = Tail(keys[s][l])
         /\ thread[t].at \in {"popped", "unkeyed", "room"}
              => Len(bucket[s][l]) < Capacity[s][l]
         /\ thread[t].at = "appended"
              => bucket[s][l] = Append(keys[s][l], thread[t].example)

Places(t) == \A s \in Splits, l \in Labels : PlaceInv(t, s, l)

LEMMA MovesFields ==
  ASSUME TypeOK, NEW t \in Threads, NEW at \in Points, Moves(t, at)
  PROVE  /\ thread'[t].at = at
         /\ thread'[t].split = thread[t].split
         /\ thread'[t].example = thread[t].example
         /\ thread'[t].evicted = thread[t].evicted
         /\ thread'[t].label = thread[t].label
         /\ thread'[t].added = thread[t].added
  <1>1. thread[t] \in ThreadType
    BY DEF TypeOK
  <1>2. thread'[t] = [thread[t] EXCEPT !.at = at]
    BY DEF Moves, TypeOK
  <1>3. QED BY <1>1, <1>2 DEF ThreadType

LEMMA CountedFields ==
  ASSUME TypeOK, NEW t \in Threads, Counted(t)
  PROVE  /\ thread'[t].at = "judging"
         /\ thread'[t].label = thread[t].label
         /\ thread'[t].added = [thread[t].added EXCEPT
                                  ![thread[t].example.label] = @ + 1]
  <1>1. thread[t] \in ThreadType
    BY DEF TypeOK
  <1>2. thread'[t] = [thread[t] EXCEPT
                        !.at = "judging",
                        !.added[thread[t].example.label] = @ + 1]
    BY DEF Counted, TypeOK
  <1>3. QED BY <1>1, <1>2 DEF ThreadType

LEMMA CollectLeads ==
  ASSUME TypeOK, NEW t \in Threads, CallCollect(t)
  PROVE  /\ thread'[t].at = "judging"
         /\ thread'[t].label = thread[t].label
  <1>0. thread \in [Threads -> ThreadType] /\ thread[t] \in ThreadType
    BY DEF TypeOK
  <1>1. PICK served \in AtMostOnePair :
          thread' = [thread EXCEPT ![t].at = "judging", ![t].served = served]
    BY DEF CallCollect
  <1>2. QED BY <1>0, <1>1 DEF ThreadType

\* A label of the served candidate is one of the example at hand.
LEMMA JudgeLeads ==
  ASSUME TypeOK, NEW t \in Threads, JudgeCandidate(t)
  PROVE  /\ thread[t].at = "judging"
         /\ thread'[t].at \in {"judging", "labelled"}
         /\ thread'[t].added = thread[t].added
         /\ \/ thread'[t].label = thread[t].label
            \/ /\ thread'[t].at = "labelled"
               /\ thread'[t].label = thread'[t].example.label
  <1>0. thread \in [Threads -> ThreadType] /\ thread[t] \in ThreadType
    BY DEF TypeOK
  <1>1. thread[t].at = "judging"
    BY DEF JudgeCandidate
  <1>2. PICK p \in Pairs :
          \/ thread' = [thread EXCEPT ![t].judged = @ \cup {p}]
          \/ \E l \in Labels :
               thread' = [thread EXCEPT
                            ![t].at = "labelled",
                            ![t].judged = @ \cup {p},
                            ![t].example = [pair |-> p, label |-> l],
                            ![t].label = IF p \in thread[t].served THEN l ELSE @]
    BY DEF JudgeCandidate
  <1>3. CASE thread' = [thread EXCEPT ![t].judged = @ \cup {p}]
    BY <1>0, <1>1, <1>3 DEF ThreadType
  <1>4. CASE \E l \in Labels :
               thread' = [thread EXCEPT
                            ![t].at = "labelled",
                            ![t].judged = @ \cup {p},
                            ![t].example = [pair |-> p, label |-> l],
                            ![t].label = IF p \in thread[t].served THEN l ELSE @]
    BY <1>0, <1>1, <1>4 DEF ThreadType
  <1>5. QED BY <1>2, <1>3, <1>4

LEMMA SplitLeads ==
  ASSUME TypeOK, NEW t \in Threads, NextSplit(t)
  PROVE  /\ thread'[t].at = "assigned"
         /\ thread'[t].example = thread[t].example
         /\ thread'[t].label = thread[t].label
         /\ thread'[t].added = thread[t].added
  <1>0. thread \in [Threads -> ThreadType] /\ thread[t] \in ThreadType
    BY DEF TypeOK
  <1>1. PICK s \in Splits :
          thread' = [thread EXCEPT ![t].at = "assigned", ![t].split = s]
    BY DEF NextSplit, Splits
  <1>2. QED BY <1>0, <1>1 DEF ThreadType

\* Where the steps that neither add to a bucket nor take from it lead.
LEMMA OutsideMoves ==
  ASSUME TypeOK, NEW t \in Threads,
         CallCollect(t) \/ JudgeCandidate(t) \/ NextSplit(t) \/ Admit(t)
           \/ CountKey(t) \/ FinishCollect(t) \/ TakeResult(t)
  PROVE  thread'[t].at \in {"judging", "labelled", "assigned", "admitted",
                            "returned", "idle"}
  <1>1. CASE CallCollect(t)
    BY <1>1, CollectLeads
  <1>2. CASE JudgeCandidate(t)
    BY <1>2, JudgeLeads
  <1>3. CASE NextSplit(t)
    BY <1>3, SplitLeads
  <1>4. CASE Admit(t)
    BY <1>4, MovesFields, CountedFields DEF Admit, Points
  <1>5. CASE CountKey(t)
    BY <1>5, CountedFields DEF CountKey
  <1>6. CASE FinishCollect(t)
    BY <1>6, MovesFields DEF FinishCollect, Points
  <1>7. CASE TakeResult(t)
    BY <1>7 DEF TakeResult, Idle, TypeOK
  <1>8. QED
    BY <1>1, <1>2, <1>3, <1>4, <1>5, <1>6, <1>7

LEMMA PlacesStep ==
  ASSUME NEW t \in Threads, TypeOK, Places(t), ThreadStep(t)
  PROVE  Places(t)'
  <1> DEFINE s0 == thread[t].split
             l0 == thread[t].example.label
  <1>0. /\ thread[t] \in ThreadType
        /\ s0 \in Splits /\ l0 \in Labels
        /\ thread[t].example \in Examples
        /\ \A s \in Splits, l \in Labels : /\ bucket[s][l] \in Seq(Examples)
                                            /\ keys[s][l] \in Seq(Examples)
                                            /\ Capacity[s][l] \in Nat \ {0}
    BY PlaceType, TrainingAssumption DEF TypeOK
  <1> SUFFICES ASSUME NEW s \in Splits, NEW l \in Labels
               PROVE  PlaceInv(t, s, l)'
    BY DEF Places
  <1>1. PlaceInv(t, s, l)
    BY DEF Places
  \* The thread is not at a place that PlaceInv speaks of.
  <1>2. CASE /\ UNCHANGED <<bucket, keys>>
             /\ thread[t].at \notin {"popped", "appended"}
             /\ thread'[t].at \notin {"full", "popped", "unkeyed", "room",
                                      "appended"}
    BY <1>1, <1>2 DEF PlaceInv, Here
  <1>3. CASE CheckRoom(t)
    <2>1. /\ thread'[t].split = s0 /\ thread'[t].example = thread[t].example
          /\ UNCHANGED <<bucket, keys>>
          /\ thread[t].at = "admitted"
          /\ thread'[t].at = IF Len(bucket[s0][l0]) >= Capacity[s0][l0]
                             THEN "full" ELSE "room"
      BY <1>0, <1>3 DEF CheckRoom, Moves, BucketOf, store, TypeOK
    <2>2. QED BY <1>0, <1>1, <2>1 DEF PlaceInv, Here
  <1>4. CASE PopExample(t)
    <2>1. thread[t].at = "full" /\ UNCHANGED keys
      BY <1>4 DEF PopExample
    <2>2. PlaceInv(t, s0, l0) /\ Here(t, s0, l0)
      BY <1>0 DEF Places, Here
    <2>3. Len(bucket[s0][l0]) = Capacity[s0][l0] /\ bucket[s0][l0] # <<>>
      BY <1>0, <2>1, <2>2 DEF PlaceInv
    <2>4. /\ Moves(t, "popped")
          /\ bucket' = [bucket EXCEPT ![s0][l0] = Tail(bucket[s0][l0])]
      BY <1>4, <2>3 DEF PopExample, SetBucket, BucketOf
    <2>8. /\ thread'[t].split = s0 /\ thread'[t].example = thread[t].example
          /\ thread'[t].at = "popped"
      BY <2>4, MovesFields DEF Points
    <2>5. CASE Here(t, s, l)
      <3>1. bucket'[s][l] = Tail(bucket[s][l])
        BY <1>0, <2>4, <2>5 DEF Here, TypeOK
      <3>2. Len(Tail(bucket[s][l])) = Len(bucket[s][l]) - 1
        BY <1>0, <2>3, <2>5 DEF Here
      <3>3. /\ Len(bucket[s][l]) = Capacity[s][l] /\ bucket[s][l] # <<>>
            /\ keys'[s][l] = bucket[s][l]
        BY <1>1, <2>1, <2>3, <2>5 DEF Here, PlaceInv
      <3>4. Len(bucket'[s][l]) < Capacity[s][l] /\ Len(bucket'[s][l]) <= Capacity[s][l]
        BY <1>0, <3>1, <3>2, <3>3
      <3>5. Here(t, s, l)'
        BY <2>5, <2>8 DEF Here
      <3>6. QED
        BY <2>8, <3>1, <3>3, <3>4, <3>5 DEF PlaceInv
    <2>6. CASE ~Here(t, s, l)
      <3>1. bucket'[s][l] = bucket[s][l]
        BY <1>0, <2>4, <2>6 DEF Here, TypeOK
      <3>2. QED BY <1>1, <2>1, <2>6, <2>8, <3>1 DEF PlaceInv, Here
    <2>7. QED BY <2>5, <2>6
  <1>5. CASE PopKey(t)
    <2>1. thread[t].at = "popped" /\ UNCHANGED bucket
      BY <1>5 DEF PopKey
    <2>2. PlaceInv(t, s0, l0) /\ Here(t, s0, l0)
      BY <1>0 DEF Places, Here
    <2>3. keys[s0][l0] # <<>>
      BY <2>1, <2>2 DEF PlaceInv
    <2>8. /\ thread' = [thread EXCEPT ![t].at = "unkeyed",
                                     ![t].evicted = Head(KeysOf(t))]
          /\ keys' = [keys EXCEPT ![s0][l0] = Tail(keys[s0][l0])]
      BY <1>5, <2>3 DEF PopKey, SetKeys, KeysOf
    <2>9. thread'[t] = [thread[t] EXCEPT !.at = "unkeyed",
                                         !.evicted = Head(KeysOf(t))]
      BY <2>8 DEF TypeOK
    <2>4. /\ thread'[t].split = s0 /\ thread'[t].example = thread[t].example
          /\ thread'[t].at = "unkeyed"
          /\ keys' = [keys EXCEPT ![s0][l0] = Tail(keys[s0][l0])]
      BY <1>0, <2>8, <2>9 DEF ThreadType
    <2>5. CASE Here(t, s, l)
      <3>1. keys'[s][l] = Tail(keys[s][l])
        BY <1>0, <2>4, <2>5 DEF Here, TypeOK
      <3>2. QED BY <1>1, <2>1, <2>4, <2>5, <3>1 DEF PlaceInv, Here
    <2>6. CASE ~Here(t, s, l)
      <3>1. keys'[s][l] = keys[s][l]
        BY <1>0, <2>4, <2>6 DEF Here, TypeOK
      <3>2. QED BY <1>1, <2>1, <2>4, <2>6, <3>1 DEF PlaceInv, Here
    <2>7. QED BY <2>5, <2>6
  <1>6. CASE UncountKey(t)
    <2>1. /\ thread'[t].split = s0 /\ thread'[t].example = thread[t].example
          /\ thread[t].at = "unkeyed" /\ thread'[t].at = "room"
          /\ UNCHANGED <<bucket, keys>>
      BY <1>6 DEF UncountKey, Moves, TypeOK
    <2>2. QED BY <1>1, <2>1 DEF PlaceInv, Here
  <1>7. CASE AppendExample(t)
    <2>1. /\ thread'[t].split = s0 /\ thread'[t].example = thread[t].example
          /\ thread[t].at = "room" /\ thread'[t].at = "appended"
          /\ UNCHANGED keys
          /\ bucket' = [bucket EXCEPT ![s0][l0] =
                           Append(bucket[s0][l0], thread[t].example)]
      BY <1>7 DEF AppendExample, Moves, SetBucket, BucketOf, TypeOK
    <2>2. CASE Here(t, s, l)
      <3>1. bucket'[s][l] = Append(bucket[s][l], thread[t].example)
        BY <1>0, <2>1, <2>2 DEF Here, TypeOK
      <3>2. Len(Append(bucket[s][l], thread[t].example)) = Len(bucket[s][l]) + 1
        BY <1>0
      <3>3. Len(bucket[s][l]) \in Nat
        BY <1>0
      <3>4. /\ Len(bucket[s][l]) < Capacity[s][l]
            /\ bucket[s][l] = keys[s][l]
        BY <1>1, <2>1, <2>2 DEF PlaceInv
      <3>5. Len(bucket'[s][l]) <= Capacity[s][l]
        BY <1>0, <3>1, <3>2, <3>3, <3>4
      <3>6. Here(t, s, l)'
        BY <2>1, <2>2 DEF Here
      <3>7. QED BY <2>1, <3>1, <3>4, <3>5, <3>6 DEF PlaceInv
    <2>3. CASE ~Here(t, s, l)
      <3>1. bucket'[s][l] = bucket[s][l]
        BY <1>0, <2>1, <2>3 DEF Here, TypeOK
      <3>2. QED BY <1>1, <2>1, <2>3, <3>1 DEF PlaceInv, Here
    <2>4. QED BY <2>2, <2>3
  <1>8. CASE AppendKey(t)
    <2>1. /\ thread'[t].split = s0 /\ thread'[t].example = thread[t].example
          /\ thread[t].at = "appended" /\ thread'[t].at = "keyed"
          /\ UNCHANGED bucket
          /\ keys' = [keys EXCEPT ![s0][l0] =
                         Append(keys[s0][l0], thread[t].example)]
      BY <1>8 DEF AppendKey, Moves, SetKeys, KeysOf, TypeOK
    <2>2. CASE Here(t, s, l)
      <3>1. keys'[s][l] = Append(keys[s][l], thread[t].example)
        BY <1>0, <2>1, <2>2 DEF Here, TypeOK
      <3>2. QED BY <1>1, <2>1, <2>2, <3>1 DEF PlaceInv, Here
    <2>3. CASE ~Here(t, s, l)
      <3>1. keys'[s][l] = keys[s][l]
        BY <1>0, <2>1, <2>3 DEF Here, TypeOK
      <3>2. QED BY <1>1, <2>1, <2>3, <3>1 DEF PlaceInv, Here
    <2>4. QED BY <2>2, <2>3
  <1>9. CASE CallCollect(t) \/ JudgeCandidate(t) \/ NextSplit(t) \/ Admit(t)
             \/ CountKey(t) \/ FinishCollect(t) \/ TakeResult(t)
    <2>1. /\ UNCHANGED <<bucket, keys>>
          /\ thread[t].at \notin {"popped", "appended"}
      BY <1>9 DEF CallCollect, JudgeCandidate, NextSplit, Admit, CountKey,
                  FinishCollect, TakeResult, store
    <2>2. thread'[t].at \in {"judging", "labelled", "assigned", "admitted",
                             "returned", "idle"}
      BY <1>9, OutsideMoves
    <2>3. QED BY <1>2, <2>1, <2>2
  <1>10. QED
    BY <1>3, <1>4, <1>5, <1>6, <1>7, <1>8, <1>9 DEF ThreadStep

LEMMA TailIndex ==
  ASSUME NEW S, NEW q \in Seq(S), q # <<>>
  PROVE  /\ Tail(q) \in Seq(S)
         /\ Head(q) = q[1] /\ 1 \in DOMAIN q /\ Head(q) \in S
         /\ \A i \in DOMAIN Tail(q) :
               i \in Nat /\ i + 1 \in DOMAIN q /\ i + 1 # 1
                         /\ Tail(q)[i] = q[i + 1]
         /\ \A k \in DOMAIN q : k = 1 \/ (k - 1 \in DOMAIN Tail(q) /\ k \in Nat)
  OBVIOUS

LEMMA AppendIndex ==
  ASSUME NEW S, NEW q \in Seq(S), NEW x \in S
  PROVE  /\ Append(q, x) \in Seq(S)
         /\ DOMAIN Append(q, x) = DOMAIN q \cup {Len(q) + 1}
         /\ Len(q) + 1 \notin DOMAIN q
         /\ \A i \in DOMAIN q : Append(q, x)[i] = q[i]
         /\ Append(q, x)[Len(q) + 1] = x
  OBVIOUS

\* Keys of a label are in the lists of that label.
LEMMA LabelledStep ==
  ASSUME NEW t \in Threads, TypeOK, KeysLabelled, ThreadStep(t)
  PROVE  KeysLabelled'
  <1> DEFINE s0 == thread[t].split
             l0 == thread[t].example.label
             x == thread[t].example
  <1>0. /\ s0 \in Splits /\ l0 \in Labels
        /\ \A s \in Splits, l \in Labels : keys[s][l] \in Seq(Examples)
        /\ x \in Examples
    BY PlaceType DEF TypeOK
  <1> SUFFICES ASSUME NEW s \in Splits, NEW l \in Labels,
                      NEW i \in DOMAIN keys'[s][l]
               PROVE  keys'[s][l][i].label = l
    BY DEF KeysLabelled
  <1>q. keys[s][l] \in Seq(Examples)
    BY <1>0
  <1>1. CASE keys'[s][l] = keys[s][l]
    BY <1>1 DEF KeysLabelled
  <1>2. CASE PopKey(t) /\ keys'[s][l] # keys[s][l]
    <2>1. keys' = [keys EXCEPT ![s0][l0] = Tail(keys[s0][l0])] /\ keys[s0][l0] # <<>>
      BY <1>2 DEF PopKey, SetKeys, KeysOf
    <2>2. /\ keys'[s][l] = Tail(keys[s][l])
          /\ keys[s][l] # <<>>
      BY <1>0, <1>2, <2>1 DEF TypeOK
    <2>3. i + 1 \in DOMAIN keys[s][l] /\ keys'[s][l][i] = keys[s][l][i + 1]
      BY <1>q, <2>2, TailIndex
    <2>4. QED BY <2>3 DEF KeysLabelled
  <1>3. CASE AppendKey(t) /\ keys'[s][l] # keys[s][l]
    <2>1. keys' = [keys EXCEPT ![s0][l0] = Append(keys[s0][l0], x)]
      BY <1>3 DEF AppendKey, SetKeys, KeysOf
    <2>2. l = l0 /\ keys'[s][l] = Append(keys[s][l], x)
      BY <1>0, <1>3, <2>1 DEF TypeOK
    <2> DEFINE q == keys[s][l]
    <2>3. /\ DOMAIN Append(q, x) = DOMAIN q \cup {Len(q) + 1}
          /\ \A j \in DOMAIN q : Append(q, x)[j] = q[j]
          /\ Append(q, x)[Len(q) + 1] = x
      BY <1>0, <1>q, AppendIndex
    <2>4. CASE i \in DOMAIN q
      <3>1. keys[s][l][i].label = l
        BY <2>4 DEF KeysLabelled
      <3>2. Append(q, x)[i] = keys[s][l][i]
        BY <2>3, <2>4
      <3>3. QED BY <2>2, <3>1, <3>2
    <2>5. CASE i \notin DOMAIN q
      BY <2>2, <2>3, <2>5
    <2>6. QED BY <2>4, <2>5
  <1>4. CASE ~PopKey(t) /\ ~AppendKey(t)
    <2>1. UNCHANGED keys
      BY <1>4 DEF ThreadStep, CallCollect, JudgeCandidate, NextSplit, Admit,
         CheckRoom, PopExample, UncountKey, AppendExample, CountKey,
         FinishCollect, TakeResult, store
    <2>2. QED BY <1>1, <2>1
  <1>5. QED BY <1>1, <1>2, <1>3, <1>4

(***************************************************************************)
(* Occurrences                                                             *)
(***************************************************************************)
LEMMA OccurrencesType ==
  ASSUME NEW S, NEW q \in Seq(S), NEW e
  PROVE  /\ IsFiniteSet({i \in DOMAIN q : q[i] = e})
         /\ Occurrences(e, q) \in Nat
         /\ Occurrences(e, q) = 0 <=> \A i \in DOMAIN q : q[i] # e
  <1> DEFINE A == {i \in DOMAIN q : q[i] = e}
  <1>1. DOMAIN q = 1..Len(q) /\ 1 \in Int /\ Len(q) \in Int
    OBVIOUS
  <1>2. IsFiniteSet(1..Len(q))
    BY <1>1, FS_Interval
  <1>3. A \in SUBSET (1..Len(q))
    BY <1>1
  <1>4. IsFiniteSet(A)
    BY <1>2, <1>3, FS_Subset
  <1>5. Occurrences(e, q) = Cardinality(A)
    BY DEF Occurrences
  <1>6. A = {} <=> \A i \in DOMAIN q : q[i] # e
    OBVIOUS
  <1> HIDE DEF A
  <1>7. Cardinality(A) \in Nat /\ (Cardinality(A) = 0 <=> A = {})
    BY <1>4, FS_CardinalityType, FS_EmptySet
  <1>8. QED
    BY <1>4, <1>5, <1>6, <1>7 DEF A

LEMMA OccurrencesAppend ==
  ASSUME NEW S, NEW q \in Seq(S), NEW x \in S, NEW e
  PROVE  Occurrences(e, Append(q, x))
           = Occurrences(e, q) + (IF x = e THEN 1 ELSE 0)
  <1> DEFINE A == {i \in DOMAIN q : q[i] = e}
             B == {i \in DOMAIN Append(q, x) : Append(q, x)[i] = e}
  <1>1. /\ DOMAIN Append(q, x) = DOMAIN q \cup {Len(q) + 1}
        /\ Len(q) + 1 \notin DOMAIN q
        /\ \A i \in DOMAIN q : Append(q, x)[i] = q[i]
        /\ Append(q, x)[Len(q) + 1] = x
    BY AppendIndex
  <1>2. Occurrences(e, q) = Cardinality(A)
    BY DEF Occurrences
  <1>3. Occurrences(e, Append(q, x)) = Cardinality(B)
    BY DEF Occurrences
  <1>4. IsFiniteSet(A) /\ Cardinality(A) \in Nat
    BY <1>2, OccurrencesType
  <1>5. CASE x = e
    <2>1. B = A \cup {Len(q) + 1}
      BY <1>1, <1>5
    <2>2. Len(q) + 1 \notin A
      BY <1>1
    <2> HIDE DEF A, B
    <2>3. Cardinality(A \cup {Len(q) + 1}) = Cardinality(A) + 1
      BY <1>4, <2>2, FS_AddElement
    <2>4. QED BY <1>2, <1>3, <1>5, <2>1, <2>3
  <1>6. CASE x # e
    <2>1. B = A
      BY <1>1, <1>6
    <2> HIDE DEF A, B
    <2>2. QED BY <1>2, <1>3, <1>4, <1>6, <2>1
  <1>7. QED BY <1>5, <1>6

LEMMA OccurrencesTail ==
  ASSUME NEW S, NEW q \in Seq(S), q # <<>>, NEW e
  PROVE  Occurrences(e, q)
           = Occurrences(e, Tail(q)) + (IF Head(q) = e THEN 1 ELSE 0)
  <1> DEFINE A == {i \in DOMAIN q : q[i] = e}
             B == {i \in DOMAIN Tail(q) : Tail(q)[i] = e}
             C == A \ {1}
             f == [i \in B |-> i + 1]
  <1>1. /\ Tail(q) \in Seq(S)
        /\ Head(q) = q[1] /\ 1 \in DOMAIN q
        /\ \A i \in DOMAIN Tail(q) :
              i \in Nat /\ i + 1 \in DOMAIN q /\ i + 1 # 1
                        /\ Tail(q)[i] = q[i + 1]
        /\ \A k \in DOMAIN q : k = 1 \/ (k - 1 \in DOMAIN Tail(q) /\ k \in Nat)
    BY TailIndex
  <1>2. Occurrences(e, q) = Cardinality(A)
    BY DEF Occurrences
  <1>3. Occurrences(e, Tail(q)) = Cardinality(B)
    BY DEF Occurrences
  <1>4. IsFiniteSet(A) /\ Cardinality(A) \in Nat
    BY <1>2, OccurrencesType
  <1>5. IsFiniteSet(B) /\ Cardinality(B) \in Nat
    BY <1>1, <1>3, OccurrencesType
  <1>6. f \in Bijection(B, C)
    <2>1. f \in [B -> C]
      BY <1>1
    <2>2. \A i, j \in B : f[i] = f[j] => i = j
      BY <1>1
    <2>3. ASSUME NEW k \in C PROVE \E i \in B : f[i] = k
      <3>1. k - 1 \in DOMAIN Tail(q) /\ k \in Nat /\ q[k] = e
        BY <1>1
      <3>2. (k - 1) + 1 = k
        BY <3>1
      <3>3. k - 1 \in B
        BY <1>1, <3>1, <3>2
      <3>4. QED BY <3>2, <3>3
    <2>4. QED
      BY <2>1, <2>2, <2>3 DEF Bijection, Injection, Surjection, IsInjective
  <1>7. Cardinality(C) = Cardinality(B)
    <2>1. ExistsBijection(B, C)
      BY <1>6 DEF ExistsBijection
    <2> HIDE DEF B, C
    <2>2. QED BY <1>5, <2>1, FS_Bijection
  <1>8. CASE Head(q) = e
    <2>1. 1 \in A
      BY <1>1, <1>8
    <2> HIDE DEF A, B
    <2>2. Cardinality(A \ {1}) = Cardinality(A) - 1
      BY <1>4, <2>1, FS_RemoveElement
    <2>3. QED BY <1>2, <1>3, <1>4, <1>5, <1>7, <1>8, <2>2
  <1>9. CASE Head(q) # e
    <2>1. C = A
      BY <1>1, <1>9
    <2> HIDE DEF A, B, C
    <2>2. QED BY <1>2, <1>3, <1>5, <1>7, <1>9, <2>1
  <1>10. QED BY <1>8, <1>9


(***************************************************************************)
(* Keys and their counts                                                   *)
(***************************************************************************)

\* What the thread in the store has still to count down or up.
Pending(t, s, e) ==
    IF thread[t].at = "unkeyed" /\ s = thread[t].split /\ e = thread[t].evicted
    THEN 1
    ELSE IF thread[t].at = "keyed" /\ s = thread[t].split /\ e = thread[t].example
    THEN -1 ELSE 0

CountInv(t, s, e) ==
    counts[s][e] = Occurrences(e, keys[s][e.label]) + Pending(t, s, e)

Counting(t) == \A s \in Splits, e \in Examples : CountInv(t, s, e)

LEMMA KeyTypes ==
  ASSUME TypeOK, NEW s \in Splits, NEW e \in Examples
  PROVE  /\ e.label \in Labels
         /\ keys[s][e.label] \in Seq(Examples)
         /\ counts[s][e] \in Nat
         /\ Occurrences(e, keys[s][e.label]) \in Nat
  <1>1. e.label \in Labels
    BY DEF Examples
  <1>2. keys[s][e.label] \in Seq(Examples) /\ counts[s][e] \in Nat
    BY <1>1 DEF TypeOK
  <1>3. QED BY <1>1, <1>2, OccurrencesType

LEMMA CountStep ==
  ASSUME NEW t \in Threads, TypeOK, Places(t), KeysLabelled, Counting(t),
         ThreadStep(t)
  PROVE  Counting(t)'
  <1> DEFINE s0 == thread[t].split
             x == thread[t].example
             l0 == x.label
             v == thread[t].evicted
  <1>0. /\ thread[t] \in ThreadType
        /\ s0 \in Splits /\ l0 \in Labels /\ x \in Examples /\ v \in Examples
    BY PlaceType DEF TypeOK, ThreadType
  <1> SUFFICES ASSUME NEW s \in Splits, NEW e \in Examples
               PROVE  CountInv(t, s, e)'
    BY DEF Counting
  <1>1. CountInv(t, s, e)
    BY DEF Counting
  <1>2. /\ e.label \in Labels
        /\ keys[s][e.label] \in Seq(Examples)
        /\ counts[s][e] \in Nat
        /\ Occurrences(e, keys[s][e.label]) \in Nat
    BY KeyTypes
  \* The thread neither comes from a place with a pending count nor gets there.
  <1>3. CASE /\ UNCHANGED <<keys, counts>>
             /\ thread[t].at \notin {"unkeyed", "keyed"}
             /\ thread'[t].at \notin {"unkeyed", "keyed"}
    BY <1>1, <1>3 DEF CountInv, Pending
  <1>4. CASE PopKey(t)
    <2>1. thread[t].at = "popped" /\ UNCHANGED counts
      BY <1>4 DEF PopKey
    <2>2. PlaceInv(t, s0, l0) /\ Here(t, s0, l0)
      BY <1>0 DEF Places, Here
    <2>3. keys[s0][l0] # <<>>
      BY <2>1, <2>2 DEF PlaceInv
    <2>4. /\ thread' = [thread EXCEPT ![t].at = "unkeyed",
                                     ![t].evicted = Head(keys[s0][l0])]
          /\ keys' = [keys EXCEPT ![s0][l0] = Tail(keys[s0][l0])]
      BY <1>4, <2>3 DEF PopKey, SetKeys, KeysOf
    <2>5. thread'[t] = [thread[t] EXCEPT !.at = "unkeyed",
                                         !.evicted = Head(keys[s0][l0])]
      BY <2>4 DEF TypeOK
    <2>6. /\ thread'[t].split = s0
          /\ thread'[t].at = "unkeyed"
          /\ thread'[t].evicted = Head(keys[s0][l0])
      BY <1>0, <2>5 DEF ThreadType
    <2>7. keys[s0][l0] \in Seq(Examples)
      BY <1>0 DEF TypeOK
    <2>8. /\ Head(keys[s0][l0]) = keys[s0][l0][1]
          /\ 1 \in DOMAIN keys[s0][l0]
      BY <2>3, <2>7, TailIndex
    <2>9. Head(keys[s0][l0]).label = l0
      BY <1>0, <2>8 DEF KeysLabelled
    <2>10. Pending(t, s, e) = 0
      BY <2>1 DEF Pending
    <2>11. CASE s = s0 /\ e.label = l0
      <3>1. keys'[s][e.label] = Tail(keys[s][e.label])
        BY <1>0, <2>4, <2>11 DEF TypeOK
      <3>2. Occurrences(e, keys[s][e.label])
              = Occurrences(e, keys'[s][e.label])
                  + (IF Head(keys[s0][l0]) = e THEN 1 ELSE 0)
        BY <2>3, <2>7, <2>11, <3>1, OccurrencesTail
      <3>3. Pending(t, s, e)' = IF Head(keys[s0][l0]) = e THEN 1 ELSE 0
        BY <2>6, <2>11 DEF Pending
      <3>4. QED BY <1>1, <1>2, <2>1, <2>10, <3>2, <3>3 DEF CountInv
    <2>12. CASE ~(s = s0 /\ e.label = l0)
      <3>1. keys'[s][e.label] = keys[s][e.label]
        BY <1>0, <1>2, <2>4, <2>12 DEF TypeOK
      <3>2. Pending(t, s, e)' = 0
        BY <2>6, <2>9, <2>12 DEF Pending
      <3>3. QED BY <1>1, <2>1, <2>10, <3>1, <3>2 DEF CountInv
    <2>13. QED BY <2>11, <2>12
  <1>5. CASE UncountKey(t)
    <2>1. /\ thread[t].at = "unkeyed" /\ thread'[t].at = "room"
          /\ UNCHANGED keys
          /\ counts' = [counts EXCEPT ![s0][v] = IF @ > 0 THEN @ - 1 ELSE 0]
      BY <1>5, MovesFields DEF UncountKey, Points
    <2>2. Pending(t, s, e)' = 0
      BY <2>1 DEF Pending
    <2>3. CASE s = s0 /\ e = v
      <3>1. Pending(t, s, e) = 1
        BY <2>1, <2>3 DEF Pending
      <3>2. counts[s][e] > 0
        BY <1>1, <1>2, <3>1 DEF CountInv
      <3>3. counts'[s][e] = counts[s][e] - 1
        BY <1>0, <2>1, <2>3, <3>2 DEF TypeOK
      <3>4. QED BY <1>1, <1>2, <2>1, <2>2, <3>1, <3>3 DEF CountInv
    <2>4. CASE ~(s = s0 /\ e = v)
      <3>1. Pending(t, s, e) = 0
        BY <2>1, <2>4 DEF Pending
      <3>2. counts'[s][e] = counts[s][e]
        BY <1>0, <2>1, <2>4 DEF TypeOK
      <3>3. Occurrences(e, keys'[s][e.label]) = Occurrences(e, keys[s][e.label])
        BY <2>1
      <3>4. counts[s][e] = Occurrences(e, keys[s][e.label]) + Pending(t, s, e)
        BY <1>1 DEF CountInv
      <3>5. counts'[s][e]
              = Occurrences(e, keys'[s][e.label]) + Pending(t, s, e)'
        BY <2>2, <3>1, <3>2, <3>3, <3>4
      <3>6. QED BY <3>5 DEF CountInv
    <2>5. QED BY <2>3, <2>4
  <1>6. CASE AppendKey(t)
    <2>1. /\ thread[t].at = "appended" /\ thread'[t].at = "keyed"
          /\ thread'[t].split = s0 /\ thread'[t].example = x
          /\ UNCHANGED counts
          /\ keys' = [keys EXCEPT ![s0][l0] = Append(keys[s0][l0], x)]
      BY <1>6, MovesFields DEF AppendKey, SetKeys, KeysOf, Points
    <2>2. Pending(t, s, e) = 0
      BY <2>1 DEF Pending
    <2>3. CASE s = s0 /\ e.label = l0
      <3>1. keys'[s][e.label] = Append(keys[s][e.label], x)
        BY <1>0, <2>1, <2>3 DEF TypeOK
      <3>2. Occurrences(e, keys'[s][e.label])
              = Occurrences(e, keys[s][e.label]) + (IF x = e THEN 1 ELSE 0)
        BY <1>0, <1>2, <3>1, OccurrencesAppend
      <3>3. Pending(t, s, e)' = IF x = e THEN -1 ELSE 0
        BY <2>1, <2>3 DEF Pending
      <3>4. QED BY <1>1, <1>2, <2>1, <2>2, <3>2, <3>3 DEF CountInv
    <2>4. CASE ~(s = s0 /\ e.label = l0)
      <3>1. keys'[s][e.label] = keys[s][e.label]
        BY <1>0, <1>2, <2>1, <2>4 DEF TypeOK
      <3>2. Pending(t, s, e)' = 0
        BY <2>1, <2>4 DEF Pending
      <3>3. QED BY <1>1, <2>1, <2>2, <3>1, <3>2 DEF CountInv
    <2>5. QED BY <2>3, <2>4
  <1>7. CASE CountKey(t)
    <2>1. /\ thread[t].at = "keyed" /\ thread'[t].at = "judging"
          /\ UNCHANGED keys
          /\ counts' = [counts EXCEPT ![s0][x] = @ + 1]
      BY <1>7, CountedFields DEF CountKey
    <2>2. Pending(t, s, e)' = 0
      BY <2>1 DEF Pending
    <2>3. CASE s = s0 /\ e = x
      <3>1. Pending(t, s, e) = -1
        BY <2>1, <2>3 DEF Pending
      <3>2. counts'[s][e] = counts[s][e] + 1
        BY <1>0, <2>1, <2>3 DEF TypeOK
      <3>3. QED BY <1>1, <1>2, <2>1, <2>2, <3>1, <3>2 DEF CountInv
    <2>4. CASE ~(s = s0 /\ e = x)
      <3>1. Pending(t, s, e) = 0
        BY <2>1, <2>4 DEF Pending
      <3>2. counts'[s][e] = counts[s][e]
        BY <1>0, <2>1, <2>4 DEF TypeOK
      <3>3. QED BY <1>1, <2>1, <2>2, <3>1, <3>2 DEF CountInv
    <2>5. QED BY <2>3, <2>4
  <1>8. CASE CheckRoom(t) \/ PopExample(t) \/ AppendExample(t)
    <2>1. /\ UNCHANGED <<keys, counts>>
          /\ thread[t].at \in {"admitted", "full", "room"}
          /\ \E at \in {"full", "room", "popped", "appended", "judging"} :
                thread' = [thread EXCEPT ![t].at = at]
      BY <1>8 DEF CheckRoom, PopExample, AppendExample, Moves, Failed, store
    <2>2. thread'[t].at \in {"full", "room", "popped", "appended", "judging"}
      BY <1>0, <2>1 DEF ThreadType, TypeOK
    <2>3. QED BY <1>3, <2>1, <2>2
  <1>9. CASE CallCollect(t) \/ JudgeCandidate(t) \/ NextSplit(t) \/ Admit(t)
             \/ FinishCollect(t) \/ TakeResult(t)
    <2>1. /\ UNCHANGED <<keys, counts>>
          /\ thread[t].at \notin {"unkeyed", "keyed"}
      BY <1>9 DEF CallCollect, JudgeCandidate, NextSplit, Admit,
                  FinishCollect, TakeResult, store
    <2>2. thread'[t].at \notin {"unkeyed", "keyed"}
      BY <1>9, OutsideMoves
    <2>3. QED BY <1>3, <2>1, <2>2
  <1>10. QED
    BY <1>4, <1>5, <1>6, <1>7, <1>8, <1>9 DEF ThreadStep

(***************************************************************************)
(* The splits                                                              *)
(***************************************************************************)

\* Where the thread has been let into the store with its example.
Inside == {"admitted", "full", "popped", "unkeyed", "room", "appended", "keyed"}

Apart(t) ==
    /\ \A e \in Examples :
          counts["train"][e] = 0 \/ counts["calibration"][e] = 0
    /\ thread[t].at \in Inside
         => counts[Other(thread[t].split)][thread[t].example] = 0

\* A count only grows for an example the other split was found not to have,
\* and the thread that looked is the only one to add.
LEMMA ApartStep ==
  ASSUME NEW t \in Threads, TypeOK, Apart(t), ThreadStep(t)
  PROVE  Apart(t)'
  <1> DEFINE s0 == thread[t].split
             x == thread[t].example
             v == thread[t].evicted
  <1>0. /\ thread[t] \in ThreadType
        /\ s0 \in Splits /\ x \in Examples /\ v \in Examples
        /\ Other(s0) \in Splits /\ Other(s0) # s0
        /\ counts \in [Splits -> [Examples -> Nat]]
    BY PlaceType DEF TypeOK, ThreadType, Other, Splits
  <1>1. CASE UNCHANGED counts /\ thread'[t].at \notin Inside
    BY <1>1 DEF Apart
  <1>2. CASE /\ UNCHANGED counts
             /\ thread[t].at \in Inside
             /\ thread'[t].split = s0 /\ thread'[t].example = x
    BY <1>2 DEF Apart
  <1>3. CASE CallCollect(t) \/ JudgeCandidate(t) \/ NextSplit(t)
             \/ FinishCollect(t) \/ TakeResult(t)
    <2>1. UNCHANGED counts
      BY <1>3 DEF CallCollect, JudgeCandidate, NextSplit, FinishCollect,
                  TakeResult, store
    <2>2. thread'[t].at \notin Inside
      <3>1. CASE JudgeCandidate(t)
        BY <3>1, JudgeLeads DEF Inside
      <3>2. CASE CallCollect(t)
        BY <3>2, CollectLeads DEF Inside
      <3>3. CASE NextSplit(t)
        BY <3>3, SplitLeads DEF Inside
      <3>4. CASE FinishCollect(t)
        BY <3>4, MovesFields DEF FinishCollect, Points, Inside
      <3>5. CASE TakeResult(t)
        BY <3>5 DEF TakeResult, Idle, TypeOK, Inside
      <3>6. QED BY <1>3, <3>1, <3>2, <3>3, <3>4, <3>5
    <2>3. QED BY <1>1, <2>1, <2>2
  <1>4. CASE Admit(t)
    <2>1. UNCHANGED counts
      BY <1>4 DEF Admit, store
    <2>2. CASE counts[Other(s0)][x] > 0
      <3>1. Counted(t)
        BY <1>4, <2>2 DEF Admit
      <3>2. QED BY <1>1, <2>1, <3>1, CountedFields DEF Inside
    <2>3. CASE ~(counts[Other(s0)][x] > 0)
      <3>1. Moves(t, "admitted")
        BY <1>4, <2>3 DEF Admit
      <3>2. thread'[t].split = s0 /\ thread'[t].example = x
        BY <3>1, MovesFields DEF Points
      <3>3. counts[Other(s0)][x] \in Nat
        BY <1>0
      <3>4. counts[Other(s0)][x] = 0
        BY <2>3, <3>3
      <3>5. QED BY <2>1, <3>2, <3>4 DEF Apart
    <2>4. QED BY <2>2, <2>3
  <1>5. CASE CheckRoom(t) \/ PopExample(t) \/ AppendExample(t) \/ AppendKey(t)
    <2>1. /\ UNCHANGED counts
          /\ thread[t].at \in Inside
          /\ \E at \in Points : thread' = [thread EXCEPT ![t].at = at]
      BY <1>5 DEF CheckRoom, PopExample, AppendExample, AppendKey, Moves,
                  Failed, store, Inside, Points
    <2>2. thread'[t].split = s0 /\ thread'[t].example = x
      BY <1>0, <2>1 DEF ThreadType, TypeOK
    <2>3. QED BY <1>2, <2>1, <2>2
  <1>6. CASE PopKey(t)
    <2>1. /\ UNCHANGED counts
          /\ thread[t].at \in Inside
          /\ \/ thread' = [thread EXCEPT ![t].at = "judging"]
             \/ thread' = [thread EXCEPT ![t].at = "unkeyed",
                                         ![t].evicted = Head(KeysOf(t))]
      BY <1>6 DEF PopKey, Failed, Inside
    <2>2. thread'[t].split = s0 /\ thread'[t].example = x
      BY <1>0, <2>1 DEF ThreadType, TypeOK
    <2>3. QED BY <1>2, <2>1, <2>2
  <1>7. CASE UncountKey(t)
    <2>1. /\ thread[t].at \in Inside
          /\ counts' = [counts EXCEPT ![s0][v] = IF @ > 0 THEN @ - 1 ELSE 0]
          /\ thread'[t].split = s0 /\ thread'[t].example = x
      BY <1>7, MovesFields DEF UncountKey, Points, Inside
    <2>2. \A s \in Splits, e \in Examples :
             counts[s][e] = 0 => counts'[s][e] = 0
      BY <1>0, <2>1
    <2>3. QED BY <1>0, <2>1, <2>2 DEF Apart, Splits
  <1>8. CASE CountKey(t)
    <2>1. /\ counts' = [counts EXCEPT ![s0][x] = @ + 1]
          /\ thread[t].at \in Inside
          /\ thread'[t].at = "judging"
      BY <1>8, CountedFields DEF CountKey, Inside
    <2>2. counts[Other(s0)][x] = 0
      BY <2>1 DEF Apart
    <2>3. \A s \in Splits, e \in Examples :
             ~(s = s0 /\ e = x) => counts'[s][e] = counts[s][e]
      BY <1>0, <2>1
    <2>4. ASSUME NEW e \in Examples
          PROVE  counts'["train"][e] = 0 \/ counts'["calibration"][e] = 0
      <3>1. CASE e = x
        BY <1>0, <2>2, <2>3, <3>1 DEF Other, Splits
      <3>2. CASE e # x
        BY <2>3, <3>2 DEF Apart, Splits
      <3>3. QED BY <3>1, <3>2
    <2>5. QED BY <2>1, <2>4 DEF Apart, Inside
  <1>9. QED
    BY <1>3, <1>4, <1>5, <1>6, <1>7, <1>8 DEF ThreadStep

(***************************************************************************)
(* What collect reports                                                    *)
(***************************************************************************)

\* The pair of a label has been added or is on its way into the store.
Reported(t) ==
    thread[t].label # "none" =>
        \/ thread[t].added[thread[t].label] > 0
        \/ /\ thread[t].at \in Inside \cup {"labelled", "assigned"}
           /\ thread[t].example.label = thread[t].label

LEMMA ReportedStep ==
  ASSUME NEW t \in Threads, TypeOK, Places(t), Reported(t), ThreadStep(t)
  PROVE  Reported(t)'
  <1> DEFINE s0 == thread[t].split
             x == thread[t].example
             l0 == thread[t].example.label
  <1>0. /\ thread[t] \in ThreadType
        /\ s0 \in Splits /\ l0 \in Labels /\ x \in Examples
        /\ thread[t].added \in [Labels -> Nat]
        /\ thread[t].label \in Labels \cup {"none"}
        /\ "none" \notin Labels
    BY PlaceType DEF TypeOK, ThreadType, Labels
  \* The thread goes on with its example.
  <1>1. CASE /\ thread'[t].at \in Inside \cup {"labelled", "assigned"}
             /\ thread'[t].label = thread[t].label
             /\ thread'[t].added = thread[t].added
             /\ thread'[t].example = x
             /\ thread[t].at \in Inside \cup {"labelled", "assigned"}
    BY <1>1 DEF Reported
  <1>2. CASE Counted(t)
    <2>1. /\ thread'[t].label = thread[t].label
          /\ thread'[t].added = [thread[t].added EXCEPT ![l0] = @ + 1]
      BY <1>2, CountedFields
    <2>2. CASE thread[t].label \in Labels
      <3>1. thread[t].label = l0 => thread'[t].added[thread[t].label] > 0
        BY <1>0, <2>1, <2>2
      <3>2. thread[t].label # l0 =>
               thread'[t].added[thread[t].label] = thread[t].added[thread[t].label]
        BY <1>0, <2>1, <2>2
      <3>3. QED BY <2>1, <3>1, <3>2 DEF Reported
    <2>3. CASE thread[t].label = "none"
      BY <2>1, <2>3 DEF Reported
    <2>4. QED BY <1>0, <2>2, <2>3
  <1>3. CASE CallCollect(t)
    <2>1. PICK served \in AtMostOnePair :
            thread' = [thread EXCEPT ![t].at = "judging", ![t].served = served]
      BY <1>3 DEF CallCollect
    <2>2. /\ thread'[t].label = thread[t].label
          /\ thread'[t].added = thread[t].added
      BY <1>0, <2>1 DEF ThreadType, TypeOK
    <2>3. thread[t].at = "idle"
      BY <1>3 DEF CallCollect
    <2>4. QED BY <2>2, <2>3 DEF Reported, Inside
  <1>4. CASE JudgeCandidate(t)
    BY <1>4, JudgeLeads DEF Reported, Inside
  <1>5. CASE NextSplit(t)
    <2>1. thread[t].at = "labelled"
      BY <1>5 DEF NextSplit
    <2>2. QED BY <1>1, <1>5, <2>1, SplitLeads
  <1>6. CASE Admit(t)
    <2>1. thread[t].at = "assigned"
      BY <1>6 DEF Admit
    <2>2. CASE Moves(t, "admitted")
      BY <1>1, <2>1, <2>2, MovesFields DEF Points, Inside
    <2>3. QED BY <1>2, <1>6, <2>2 DEF Admit
  <1>7. CASE CheckRoom(t)
    <2>1. thread[t].at = "admitted" /\ \E at \in {"full", "room"} : Moves(t, at)
      BY <1>7 DEF CheckRoom
    <2>2. QED BY <1>1, <2>1, MovesFields DEF Points, Inside
  \* One thread never finds an empty bucket that it saw full.
  <1>8. CASE PopExample(t)
    <2>1. PlaceInv(t, s0, l0) /\ Here(t, s0, l0) /\ thread[t].at = "full"
      BY <1>0, <1>8 DEF Places, Here, PopExample
    <2>2. Len(bucket[s0][l0]) = Capacity[s0][l0] /\ Capacity[s0][l0] \in Nat \ {0}
      BY <1>0, <2>1, TrainingAssumption DEF PlaceInv
    <2>3. BucketOf(t) # <<>>
      BY <2>2 DEF BucketOf
    <2>4. Moves(t, "popped")
      BY <1>8, <2>3 DEF PopExample
    <2>5. QED BY <1>1, <2>1, <2>4, MovesFields DEF Points, Inside
  <1>9. CASE PopKey(t)
    <2>1. PlaceInv(t, s0, l0) /\ Here(t, s0, l0) /\ thread[t].at = "popped"
      BY <1>0, <1>9 DEF Places, Here, PopKey
    <2>2. KeysOf(t) # <<>>
      BY <2>1 DEF PlaceInv, KeysOf
    <2>3. thread' = [thread EXCEPT ![t].at = "unkeyed",
                                   ![t].evicted = Head(KeysOf(t))]
      BY <1>9, <2>2 DEF PopKey
    <2>4. /\ thread'[t].at = "unkeyed"
          /\ thread'[t].label = thread[t].label
          /\ thread'[t].added = thread[t].added
          /\ thread'[t].example = x
      BY <1>0, <2>3 DEF ThreadType, TypeOK
    <2>5. QED BY <1>1, <2>1, <2>4 DEF Inside
  <1>10. CASE UncountKey(t) \/ AppendExample(t) \/ AppendKey(t)
    <2>1. /\ thread[t].at \in Inside
          /\ \E at \in {"room", "appended", "keyed"} : Moves(t, at)
      BY <1>10 DEF UncountKey, AppendExample, AppendKey, Inside
    <2>2. QED BY <1>1, <2>1, MovesFields DEF Points, Inside
  <1>11. CASE CountKey(t)
    BY <1>2, <1>11 DEF CountKey
  <1>12. CASE FinishCollect(t)
    <2>1. thread[t].at = "judging" /\ Moves(t, "returned")
      BY <1>12 DEF FinishCollect
    <2>2. QED BY <2>1, MovesFields DEF Points, Reported, Inside
  <1>13. CASE TakeResult(t)
    <2>1. thread'[t].label = "none"
      BY <1>13 DEF TakeResult, Idle, TypeOK
    <2>2. QED BY <2>1 DEF Reported
  <1>14. QED
    BY <1>3, <1>4, <1>5, <1>6, <1>7, <1>8, <1>9, <1>10, <1>11, <1>12, <1>13
       DEF ThreadStep

(***************************************************************************)
(* What one thread keeps                                                   *)
(***************************************************************************)
StoreInv(t) ==
    /\ TypeOK
    /\ Places(t)
    /\ KeysLabelled
    /\ Counting(t)
    /\ Apart(t)
    /\ Reported(t)

LEMMA StoreInit ==
  ASSUME NEW t \in Threads, Init
  PROVE  StoreInv(t)
  <1>1. TypeOK
    BY InitType
  <1>2. /\ thread[t].at = "idle" /\ thread[t].label = "none"
        /\ \A s \in Splits, l \in Labels : bucket[s][l] = <<>> /\ keys[s][l] = <<>>
        /\ \A s \in Splits, e \in Examples : counts[s][e] = 0
    BY DEF Init, Idle
  <1>3. Places(t)
    <2>1. \A s \in Splits, l \in Labels : Capacity[s][l] \in Nat \ {0}
      BY TrainingAssumption
    <2>2. QED BY <1>2, <2>1 DEF Places, PlaceInv
  <1>4. KeysLabelled
    BY <1>2 DEF KeysLabelled
  <1>5. Counting(t)
    <2> SUFFICES ASSUME NEW s \in Splits, NEW e \in Examples
                 PROVE  CountInv(t, s, e)
      BY DEF Counting
    <2>1. keys[s][e.label] = <<>>
      BY <1>2 DEF Examples
    <2>2. Occurrences(e, <<>>) = 0
      <3>1. <<>> \in Seq(Examples) /\ \A i \in DOMAIN <<>> : <<>>[i] # e
        OBVIOUS
      <3>2. QED BY <3>1, OccurrencesType
    <2>3. Pending(t, s, e) = 0
      BY <1>2 DEF Pending
    <2>4. QED BY <1>2, <2>1, <2>2, <2>3 DEF CountInv
  <1>6. Apart(t) /\ Reported(t)
    BY <1>2 DEF Apart, Reported, Inside, Splits
  <1>7. QED BY <1>1, <1>3, <1>4, <1>5, <1>6 DEF StoreInv

LEMMA StoreStep ==
  ASSUME NEW t, Threads = {t}, StoreInv(t), [Next]_vars
  PROVE  StoreInv(t)'
  <1>1. CASE ThreadStep(t)
    <2>1. t \in Threads /\ Next
      BY <1>1 DEF Next
    <2>2. TypeOK'
      BY <2>1, StepType DEF StoreInv
    <2>3. QED
      BY <1>1, <2>1, <2>2, PlacesStep, LabelledStep, CountStep, ApartStep,
         ReportedStep DEF StoreInv
  <1>2. CASE UNCHANGED vars
    BY <1>2 DEF vars, StoreInv, TypeOK, Places, PlaceInv, Here, KeysLabelled,
                Counting, CountInv, Pending, Apart, Reported
  <1>3. QED BY <1>1, <1>2 DEF Next

LEMMA StoreInvariant ==
  ASSUME NEW t, Threads = {t}
  PROVE  Spec => []StoreInv(t)
  <1>1. Init => StoreInv(t)
    BY StoreInit
  <1>2. StoreInv(t) /\ [Next]_vars => StoreInv(t)'
    BY StoreStep
  <1>3. QED BY <1>1, <1>2, PTL DEF Spec

\* A bucket that one thread fills never holds more than its capacity.
THEOREM BucketsStayBounded ==
  ASSUME NEW t, Threads = {t}
  PROVE  Spec => []BucketsBounded
  <1>1. StoreInv(t) => BucketsBounded
    BY DEF StoreInv, Places, PlaceInv, BucketsBounded
  <1>2. QED BY <1>1, StoreInvariant, PTL

\* Between two calls of the store the keys are those of the examples in the
\* buckets, each counted as often as it is there.
THEOREM KeysStayInStep ==
  ASSUME NEW t, Threads = {t}
  PROVE  Spec => []KeysInStep
  <1>1. StoreInv(t) => KeysInStep
    <2> SUFFICES ASSUME StoreInv(t), thread[t].at \notin InStore,
                        NEW s \in Splits, NEW l \in Labels
                 PROVE  /\ keys[s][l] = bucket[s][l]
                        /\ \A e \in {x \in Examples : x.label = l} :
                              counts[s][e] = Occurrences(e, bucket[s][l])
      BY DEF KeysInStep
    <2>1. keys[s][l] = bucket[s][l]
      BY DEF StoreInv, Places, PlaceInv, InStore
    <2>2. ASSUME NEW e \in Examples, e.label = l
          PROVE  counts[s][e] = Occurrences(e, bucket[s][l])
      <3>1. Pending(t, s, e) = 0
        BY DEF Pending, InStore
      <3>2. counts[s][e] = Occurrences(e, keys[s][l]) + 0
        BY <2>2, <3>1 DEF StoreInv, Counting, CountInv
      <3>3. Occurrences(e, keys[s][l]) \in Nat
        BY <2>2, KeyTypes DEF StoreInv
      <3>4. QED BY <2>1, <3>2, <3>3
    <2>3. QED BY <2>1, <2>2
  <1>2. QED BY <1>1, StoreInvariant, PTL

\* An example that is in a bucket is counted, or it is the one at hand.
LEMMA InBucketsCounted ==
  ASSUME NEW t \in Threads, StoreInv(t), NEW s \in Splits, NEW e \in Examples,
         InBuckets(s, e)
  PROVE  \/ counts[s][e] # 0
         \/ /\ thread[t].at \in {"appended", "keyed"}
            /\ s = thread[t].split
            /\ e = thread[t].example
  <1> DEFINE b == bucket[s][e.label]
             k == keys[s][e.label]
             x == thread[t].example
  <1>0. /\ e.label \in Labels /\ k \in Seq(Examples) /\ x \in Examples
        /\ Occurrences(e, k) \in Nat /\ counts[s][e] \in Nat
        /\ PlaceInv(t, s, e.label)
    BY KeyTypes, PlaceType DEF StoreInv, Places
  <1>1. PICK i \in DOMAIN b : b[i] = e
    BY DEF InBuckets
  <1>2. CASE \E j \in DOMAIN k : k[j] = e
    <2>1. Occurrences(e, k) # 0
      BY <1>0, <1>2, OccurrencesType
    <2>2. counts[s][e] = Occurrences(e, k) + Pending(t, s, e)
      BY DEF StoreInv, Counting, CountInv
    <2>3. CASE Pending(t, s, e) \in {0, 1}
      BY <1>0, <2>1, <2>2, <2>3
    <2>4. CASE Pending(t, s, e) = -1
      BY <2>4 DEF Pending
    <2>5. QED BY <2>3, <2>4 DEF Pending
  <1>3. CASE b = k
    BY <1>1, <1>2, <1>3
  <1>4. CASE k # <<>> /\ b = Tail(k)
    <2>1. i + 1 \in DOMAIN k /\ k[i + 1] = e
      BY <1>0, <1>1, <1>4, TailIndex
    <2>2. QED BY <1>2, <2>1
  <1>5. CASE /\ b = Append(k, x)
             /\ thread[t].at = "appended"
             /\ s = thread[t].split
    <2>1. /\ DOMAIN Append(k, x) = DOMAIN k \cup {Len(k) + 1}
          /\ \A j \in DOMAIN k : Append(k, x)[j] = k[j]
          /\ Append(k, x)[Len(k) + 1] = x
      BY <1>0, AppendIndex
    <2>2. i \in DOMAIN Append(k, x) /\ Append(k, x)[i] = e
      BY <1>1, <1>5
    <2>3. CASE i \in DOMAIN k
      BY <1>2, <2>1, <2>2, <2>3
    <2>4. CASE i = Len(k) + 1
      BY <1>5, <2>1, <2>2, <2>4
    <2>5. QED BY <2>1, <2>2, <2>3, <2>4
  <1>6. b = k \/ (k # <<>> /\ b = Tail(k))
          \/ /\ b = Append(k, x)
             /\ thread[t].at = "appended"
             /\ s = thread[t].split
    BY <1>0 DEF PlaceInv, Here
  <1>7. QED BY <1>3, <1>4, <1>5, <1>6

\* The splits of a store that one thread uses are disjoint, also in the
\* middle of an insertion.
THEOREM SplitsStayDisjoint ==
  ASSUME NEW t, Threads = {t}
  PROVE  Spec => []SplitsDisjoint
  <1>1. StoreInv(t) => SplitsDisjoint
    <2> SUFFICES ASSUME StoreInv(t), NEW e \in Examples,
                        InBuckets("train", e), InBuckets("calibration", e)
                 PROVE  FALSE
      BY DEF SplitsDisjoint
    <2> DEFINE AtHand(s) == /\ thread[t].at \in {"appended", "keyed"}
                            /\ s = thread[t].split
                            /\ e = thread[t].example
    <2>1. counts["train"][e] # 0 \/ AtHand("train")
      BY InBucketsCounted DEF Splits
    <2>2. counts["calibration"][e] # 0 \/ AtHand("calibration")
      BY InBucketsCounted DEF Splits
    <2>3. counts["train"][e] = 0 \/ counts["calibration"][e] = 0
      BY DEF StoreInv, Apart
    <2>4. AtHand("train") => counts["calibration"][e] = 0
      BY DEF StoreInv, Apart, Inside, Other
    <2>5. AtHand("calibration") => counts["train"][e] = 0
      BY DEF StoreInv, Apart, Inside, Other
    <2>6. QED BY <2>1, <2>2, <2>3, <2>4, <2>5
  <1>2. QED BY <1>1, StoreInvariant, PTL

\* A label that collect reports for the served candidate is one of the pairs
\* it reports as added, which the monitor of the oracle takes for granted.
THEOREM ServedLabelsCount ==
  ASSUME NEW t, Threads = {t}
  PROVE  Spec => []ServedLabelCounted
  <1>1. StoreInv(t) => ServedLabelCounted
    BY DEF StoreInv, Reported, ServedLabelCounted, Inside
  <1>2. QED BY <1>1, StoreInvariant, PTL

=============================================================================
