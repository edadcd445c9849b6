------------------------- MODULE QueryServing_proofs -------------------------
(***************************************************************************)
(* Theorems about QueryServing, for any keys, threads, configurations,     *)
(* scores and bounds: what a request is served was generated for the key   *)
(* it is reported with, is nothing an earlier invalidation had removed,    *)
(* and is the policy's decision where the configuration says so.           *)
(***************************************************************************)
EXTENDS QueryServing, FiniteSetTheorems, SequenceTheorems, WellFoundedInduction,
        TLAPS

(***************************************************************************)
(* Types                                                                   *)
(***************************************************************************)

\* The empty list is a list of candidates.
LEMMA NoCandidates == <<>> \in CandidateLists
  <1>1. <<>> \in [1..0 -> [key : Keys, score : Scores]]
    OBVIOUS
  <1>2. 0 \in 0..TopK
    BY ServingAssumption
  <1>3. Ranked(<<>>)
    BY DEF Ranked
  <1>4. QED BY <1>1, <1>2, <1>3 DEF CandidateLists

LEMMA IdleType ==
  /\ Nothing \in ResultType /\ NoChoice \in ChoiceType
  /\ Idle \in ThreadType
  <1>1. AnyKey \in Keys
    BY ServingAssumption DEF AnyKey
  <1>2. 0 \in 0..MaxCalls
    BY ServingAssumption
  <1>3. Nothing \in ResultType /\ NoChoice \in ChoiceType
    BY <1>2 DEF Nothing, NoChoice, None, ResultType, ChoiceType
  <1>4. QED
    BY <1>1, <1>2, <1>3, NoCandidates DEF Idle, ThreadType, Points, None

LEMMA InitType == Init => TypeOK
  <1> SUFFICES ASSUME Init PROVE TypeOK
    OBVIOUS
  <1>1. 0 \in 0..MaxCalls /\ 0 \in 0..MaxFaults /\ 0 <= MaxRecords
    BY ServingAssumption
  <1>2. IsFiniteSet({})
    BY FS_EmptySet
  <1>3. QED
    BY <1>1, <1>2, IdleType DEF Init, TypeOK, None

\* A thread that gets a record of its type: nothing else of thread changes.
LEMMA BecomesType ==
  ASSUME TypeOK, NEW t \in Threads, NEW x \in ThreadType, Becomes(t, x)
  PROVE  /\ thread' \in [Threads -> ThreadType]
         /\ thread'[t] = x
         /\ \A u \in Threads : u # t => thread'[u] = thread[u]
  BY DEF Becomes, TypeOK

LEMMA MovesType ==
  ASSUME TypeOK, NEW t \in Threads, NEW at \in Points, Moves(t, at)
  PROVE  thread' \in [Threads -> ThreadType]
  <1>1. [thread[t] EXCEPT !.at = at] \in ThreadType
    BY DEF TypeOK, ThreadType
  <1>2. QED BY <1>1, BecomesType DEF Moves

LEMMA ReturnsType ==
  ASSUME TypeOK, NEW t \in Threads, Returns(t)
  PROVE  thread' \in [Threads -> ThreadType]
  BY IdleType, BecomesType DEF Returns

\* A bounded list keeps its type and its bound.
LEMMA KeptType ==
  ASSUME NEW S, NEW list \in Seq(S), NEW item \in S, NEW max \in Nat \ {0},
         Len(list) <= max
  PROVE  Kept(list, item, max) \in Seq(S) /\ Len(Kept(list, item, max)) <= max
  <1>1. CASE Len(list) >= max
    <2>1. list # <<>>
      BY <1>1
    <2>2. Tail(list) \in Seq(S) /\ Len(Tail(list)) = Len(list) - 1
      BY <2>1
    <2>3. QED BY <1>1, <2>2 DEF Kept
  <1>2. CASE ~(Len(list) >= max)
    BY <1>2 DEF Kept
  <1>3. QED BY <1>1, <1>2

\* The order of the policy is over the keys, with one of them taken out or put last.
LEMMA OrderType ==
  ASSUME TypeOK, NEW k \in Keys
  PROVE  Without(k) \in Seq(Keys) /\ Append(Without(k), k) \in Seq(Keys)
  <1> DEFINE at == {i \in DOMAIN recency : recency[i] = k}
             i == CHOOSE j \in at : TRUE
  <1>1. recency \in Seq(Keys)
    BY DEF TypeOK
  <1>2. CASE at = {}
    BY <1>1, <1>2 DEF Without
  <1>3. CASE at # {}
    <2>1. i \in 1..Len(recency)
      BY <1>1, <1>3
    <2> HIDE DEF i
    <2>2. SubSeq(recency, 1, i - 1) \in Seq(Keys)
      <3>1. /\ 1 \in Int /\ i - 1 \in Int
            /\ \A j \in 1..(i - 1) : recency[j] \in Keys
        BY <1>1, <2>1
      <3>2. QED BY <3>1, SubSeqProperties
    <2>3. SubSeq(recency, i + 1, Len(recency)) \in Seq(Keys)
      <3>1. /\ i + 1 \in Int /\ Len(recency) \in Int
            /\ \A j \in (i + 1)..Len(recency) : recency[j] \in Keys
        BY <1>1, <2>1
      <3>2. QED BY <3>1, SubSeqProperties
    <2>4. RemoveAt(recency, i) \in Seq(Keys)
      BY <2>2, <2>3, ConcatProperties DEF RemoveAt
    <2>5. Without(k) = RemoveAt(recency, i)
      BY <1>3 DEF Without, i
    <2>6. QED BY <2>4, <2>5
  <1>4. QED BY <1>2, <1>3

\* What the vector store loses or gains leaves it a finite set of keys.
LEMMA VectorsType ==
  ASSUME TypeOK, NEW k
  PROVE  /\ vectors \ {k} \subseteq Keys /\ IsFiniteSet(vectors \ {k})
         /\ k \in Keys => vectors \cup {k} \subseteq Keys /\ IsFiniteSet(vectors \cup {k})
  <1>1. vectors \subseteq Keys /\ IsFiniteSet(vectors)
    BY DEF TypeOK
  <1>2. IsFiniteSet(vectors \ {k})
    BY <1>1, FS_RemoveElement
  <1>3. IsFiniteSet(vectors \cup {k})
    BY <1>1, FS_AddElement
  <1>4. QED BY <1>1, <1>2, <1>3

\* What a search finds is a list of candidates over the keys.
LEMMA FoundType ==
  ASSUME TypeOK, NEW c \in Found
  PROVE  /\ c \in CandidateLists
         /\ \A i \in DOMAIN c : c[i].key \in Keys
  <1> DEFINE n == IF Cardinality(vectors) < TopK THEN Cardinality(vectors) ELSE TopK
  <1>1. vectors \subseteq Keys /\ Cardinality(vectors) \in Nat
    BY FS_CardinalityType DEF TypeOK
  <1>2. n \in 0..TopK
    BY <1>1, ServingAssumption
  <1>3. c \in [1..n -> [key : vectors, score : Scores]] /\ Ranked(c)
    BY DEF Found
  <1>4. c \in [1..n -> [key : Keys, score : Scores]]
    BY <1>1, <1>3
  <1>5. \A i \in DOMAIN c : c[i].key \in Keys
    BY <1>4
  <1>6. c \in CandidateLists
    BY <1>2, <1>3, <1>4 DEF CandidateLists
  <1>7. QED BY <1>5, <1>6

\* Of a ranked list that is not empty the first candidate has the highest score, so
\* the policy has a candidate to choose, and its key is one of the keys.
LEMMA EvaluateType ==
  ASSUME NEW c \in CandidateLists
  PROVE  /\ Evaluate(c) \in ChoiceType
         /\ Evaluate(c).status = "HIT" => Evaluate(c).key \in Keys
  <1>1. CASE c = <<>>
    BY <1>1 DEF Evaluate, NoChoice, ChoiceType, None
  <1>2. CASE c # <<>>
    <2>1. PICK n \in 0..TopK : c \in [1..n -> [key : Keys, score : Scores]]
      BY DEF CandidateLists
    <2>2. Ranked(c)
      BY DEF CandidateLists
    <2>3. n \in Nat /\ n # 0
      <3>1. n \in Nat
        BY ServingAssumption
      <3>2. n = 0 => c = <<>>
        BY <2>1
      <3>3. QED BY <1>2, <3>1, <3>2
    <2>4. DOMAIN c = 1..n
      BY <2>1
    <2>5. \A i \in 1..n : c[i].score \in Int /\ c[i].key \in Keys
      BY <2>1, ServingAssumption
    <2>6. \A j \in DOMAIN c : \/ c[j].score < c[1].score
                              \/ c[j].score = c[1].score /\ 1 <= j
      <3>1. SUFFICES ASSUME NEW j \in 1..n
                     PROVE  \/ c[j].score < c[1].score
                            \/ c[j].score = c[1].score /\ 1 <= j
        BY <2>4
      <3>2. 1 \in 1..n
        BY <2>3
      <3>3. j = 1 \/ c[1].score >= c[j].score
        BY <2>2, <2>4, <3>2 DEF Ranked
      <3>4. QED BY <2>5, <3>2, <3>3
    <2>7. 1 \in DOMAIN c
      BY <2>3, <2>4
    <2>8. PICK i \in DOMAIN c : Selected(c) = c[i]
      BY <2>6, <2>7 DEF Selected
    <2>9. Selected(c).key \in Keys
      BY <2>4, <2>5, <2>8
    <2>10. QED BY <1>2, <2>9 DEF Evaluate, ChoiceType
  <1>3. QED BY <1>1, <1>2

(***************************************************************************)
(* Every step keeps the types: the lookup of the gateway first             *)
(***************************************************************************)

\* The fields of a record of thread, and the records made of one.
LEMMA ThreadFields ==
  ASSUME TypeOK, NEW t \in Threads
  PROVE  /\ thread[t] \in ThreadType
         /\ thread[t].at \in Points /\ thread[t].key \in Keys
         /\ thread[t].call \in 0..MaxCalls
         /\ thread[t].candidates \in CandidateLists
         /\ thread[t].pair \in ResultType /\ thread[t].result \in ResultType
         /\ thread[t].choice \in ChoiceType
         /\ thread[t].victim \in Keys \cup {None}
         /\ thread[t].found \in SUBSET Responses
         /\ thread[t].ended \in SUBSET Responses
  BY DEF TypeOK, ThreadType

LEMMA BeginsType ==
  ASSUME TypeOK, NEW t \in Threads, NEW k \in Keys, NEW at \in Points,
         Begins(t, k, at)
  PROVE  TypeOK'
  <1> DEFINE found == IF kv[k] = None THEN {} ELSE {<<k, kv[k]>>}
             x == [Idle EXCEPT !.at = at, !.key = k, !.call = calls + 1,
                               !.found = found, !.ended = ended]
  <1>1. calls + 1 \in 0..MaxCalls
    BY ServingAssumption DEF Begins, TypeOK
  <1>2. found \in SUBSET Responses
    <2>1. kv[k] # None => kv[k] \in 1..MaxCalls
      BY ServingAssumption DEF TypeOK, None
    <2>2. QED BY <2>1 DEF Responses
  <1>3. x \in ThreadType
    <2>1. ended \in SUBSET Responses
      BY DEF TypeOK
    <2> HIDE DEF found
    <2>2. QED BY <1>1, <1>2, <2>1, IdleType DEF ThreadType
  <1>4. thread' \in [Threads -> ThreadType]
    BY <1>3, BecomesType DEF Begins
  <1>5. asked' \in Seq(Keys) /\ Len(asked') = calls'
    <2>1. asked' = Append(asked, k) /\ calls' = calls + 1
      BY DEF Begins
    <2>2. asked \in Seq(Keys) /\ Len(asked) = calls
      BY DEF TypeOK
    <2>3. QED BY <2>1, <2>2, AppendProperties
  <1>6. QED
    BY <1>1, <1>4, <1>5 DEF Begins, TypeOK, stores

LEMMA SearchType ==
  ASSUME TypeOK, NEW t \in Threads, Search(t)
  PROVE  TypeOK'
  <1>1. PICK c \in Found :
          \E accepted \in {None} \cup {c[i].key : i \in DOMAIN c} :
             Becomes(t, [thread[t] EXCEPT
                !.at = "searched", !.candidates = c,
                !.pair = [Nothing EXCEPT !.accepted = accepted # None,
                                         !.key = accepted]])
    BY DEF Search
  <1>2. PICK accepted \in {None} \cup {c[i].key : i \in DOMAIN c} :
             Becomes(t, [thread[t] EXCEPT
                !.at = "searched", !.candidates = c,
                !.pair = [Nothing EXCEPT !.accepted = accepted # None,
                                         !.key = accepted]])
    BY <1>1
  <1>3. c \in CandidateLists /\ accepted \in Keys \cup {None}
    BY FoundType
  <1> DEFINE y == [Nothing EXCEPT !.accepted = accepted # None, !.key = accepted]
  <1>4. y \in ResultType
    BY <1>3, IdleType DEF ResultType
  <1> HIDE DEF y
  <1>5. [thread[t] EXCEPT !.at = "searched", !.candidates = c, !.pair = y]
           \in ThreadType
    BY <1>3, <1>4, ThreadFields DEF ThreadType, Points
  <1>6. thread' \in [Threads -> ThreadType]
    BY <1>2, <1>5, BecomesType DEF y
  <1>7. QED
    BY <1>6 DEF Search, TypeOK, stores, counters, history

LEMMA CollectType ==
  ASSUME TypeOK, NEW t \in Threads, Collect(t)
  PROVE  TypeOK'
  <1> DEFINE r == [query |-> thread[t].key, candidates |-> thread[t].candidates]
  <1>1. r \in RecordType
    BY ThreadFields DEF RecordType
  <1>2. records' \in Seq(RecordType) /\ Len(records') <= MaxRecords
    <2>1. records \in Seq(RecordType) /\ Len(records) <= MaxRecords
          /\ MaxRecords \in Nat \ {0}
      BY ServingAssumption DEF TypeOK
    <2>2. /\ Kept(records, r, MaxRecords) \in Seq(RecordType)
          /\ Len(Kept(records, r, MaxRecords)) <= MaxRecords
      BY <1>1, <2>1, KeptType
    <2>3. QED BY <2>1, <2>2 DEF Collect
  <1>3. thread' \in [Threads -> ThreadType]
    BY MovesType DEF Collect, Points
  <1>4. QED
    BY <1>2, <1>3 DEF Collect, TypeOK, stores, counters, history

LEMMA GetResponseType ==
  ASSUME TypeOK, NEW t \in Threads, GetResponse(t), thread[t].pair.key \in Keys
  PROVE  TypeOK'
  <1> DEFINE r == kv[thread[t].pair.key]
             y == [thread[t].pair EXCEPT !.response = r, !.source = "pair"]
             at == IF r = None THEN "missing" ELSE "hit"
  <1>1. r \in 0..MaxCalls
    BY DEF TypeOK
  <1>2. y \in ResultType
    BY <1>1, ThreadFields DEF ResultType
  <1>3. at \in Points
    BY DEF Points
  <1>4. Becomes(t, [thread[t] EXCEPT !.at = at, !.pair = y])
    BY ThreadFields DEF GetResponse, ThreadType, ResultType
  <1> HIDE DEF y, at
  <1>5. [thread[t] EXCEPT !.at = at, !.pair = y] \in ThreadType
    BY <1>2, <1>3, ThreadFields DEF ThreadType
  <1>6. thread' \in [Threads -> ThreadType]
    BY <1>4, <1>5, BecomesType
  <1>7. QED
    BY <1>6 DEF GetResponse, TypeOK, stores, counters, history

\* The steps of the lookup that only touch the policy's order or the vectors.
LEMMA TouchType ==
  ASSUME TypeOK, NEW t \in Threads, thread[t].pair.key \in Keys,
         TouchEntry(t) \/ ForgetEntry(t) \/ RemoveForgotten(t)
  PROVE  TypeOK'
  <1> DEFINE k == thread[t].pair.key
  <1>1. thread' \in [Threads -> ThreadType]
    BY MovesType DEF TouchEntry, ForgetEntry, RemoveForgotten, Points
  <1>2. recency' \in Seq(Keys)
    <2>1. recency' = recency \/ recency' = Without(k) \/ recency' = Append(Without(k), k)
      BY DEF TouchEntry, ForgetEntry, RemoveForgotten, Track, Untrack
    <2>2. QED BY <2>1, OrderType DEF TypeOK
  <1>3. vectors' \subseteq Keys /\ IsFiniteSet(vectors')
    <2>1. vectors' = vectors \/ vectors' = vectors \ {k}
      BY DEF TouchEntry, ForgetEntry, RemoveForgotten
    <2>2. QED BY <2>1, VectorsType DEF TypeOK
  <1>4. UNCHANGED <<kv, records, decided, counters, history>>
    BY DEF TouchEntry, ForgetEntry, RemoveForgotten
  <1>5. QED
    BY <1>1, <1>2, <1>3, <1>4 DEF TypeOK, counters, history

(***************************************************************************)
(* ... the query-level policy                                              *)
(***************************************************************************)

\* A result that falls back on the pair-level one, or on no response.
LEMMA FallsBackType ==
  ASSUME TypeOK, NEW t \in Threads, NEW allowed, NEW choice \in ChoiceType,
         FallsBack(t, allowed, choice)
  PROVE  /\ thread' \in [Threads -> ThreadType]
         /\ thread'[t] = [thread[t] EXCEPT
               !.at = "looked_up", !.choice = choice,
               !.result = IF allowed THEN thread[t].pair ELSE Nothing]
         /\ \A u \in Threads : u # t => thread'[u] = thread[u]
  <1> DEFINE y == IF allowed THEN thread[t].pair ELSE Nothing
  <1>1. y \in ResultType
    BY IdleType, ThreadFields
  <1> HIDE DEF y
  <1>2. [thread[t] EXCEPT !.at = "looked_up", !.choice = choice, !.result = y]
           \in ThreadType
    BY <1>1, ThreadFields DEF ThreadType, Points
  <1>3. QED BY <1>2, BecomesType DEF FallsBack, y

\* A finite set of integers that is not empty has a largest member: the member with
\* the fewest above it, since the sets of those above are well-founded.
LEMMA LargestExists ==
  ASSUME NEW S, IsFiniteSet(S), S \subseteq Int, S # {}
  PROVE  \E m \in S : \A j \in S : j <= m
  <1> DEFINE above(i) == {j \in S : i < j}
             T == {above(i) : i \in S}
             R == StrictSubsetOrdering(S)
  <1>1. IsWellFoundedOn(R, FiniteSubsetsOf(S))
    BY FS_StrictSubsetOrderingWellFounded
  <1>2. T \subseteq FiniteSubsetsOf(S) /\ T # {}
    <2>1. FiniteSubsetsOf(S) = SUBSET S
      BY FS_FiniteSubsetsOfFinite
    <2>2. \A i \in S : above(i) \in SUBSET S
      OBVIOUS
    <2> HIDE DEF above
    <2>3. T \subseteq SUBSET S
      BY <2>2
    <2>4. T # {}
      <3>1. PICK i \in S : TRUE
        OBVIOUS
      <3>2. above(i) \in T
        OBVIOUS
      <3>3. QED BY <3>2
    <2>5. QED BY <2>1, <2>3, <2>4
  <1>3. PICK x \in T : \A y \in T : <<y, x>> \notin R
    <2> HIDE DEF T, R
    <2>1. QED BY <1>1, <1>2, WFMin
  <1>4. PICK m \in S : x = above(m)
    OBVIOUS
  <1>5. \A j \in S : j <= m
    <2>1. SUFFICES ASSUME NEW j \in S, m < j PROVE FALSE
      OBVIOUS
    <2>2. above(j) \subseteq above(m) /\ above(j) # above(m)
      <3>1. \A i \in above(j) : i \in above(m)
        BY <2>1
      <3>2. j \in above(m) /\ j \notin above(j)
        BY <2>1
      <3>3. QED BY <3>1, <3>2
    <2>3. <<above(j), above(m)>> \in R
      <3>1. above(j) \in SUBSET S /\ above(m) \in SUBSET S
        OBVIOUS
      <3> HIDE DEF above
      <3>2. QED BY <2>2, <3>1 DEF StrictSubsetOrdering
    <2>4. above(j) \in T
      OBVIOUS
    <2>5. QED BY <1>3, <1>4, <2>3, <2>4
  <1>6. QED BY <1>5

\* The record the policy decides on is of its type, and the decision too.
LEMMA LatestType ==
  ASSUME TypeOK, NEW k, NEW r \in LatestRecord(k)
  PROVE  /\ r \in RecordType /\ Evaluate(r.candidates) \in ChoiceType
         /\ Evaluate(r.candidates).status = "HIT"
              => Evaluate(r.candidates).key \in Keys
  <1>1. records \in Seq(RecordType)
    BY DEF TypeOK
  <1>2. r \in RecordType
    <2> DEFINE Newest(i) == \A j \in RecordsOf(k) : j <= i
               n == CHOOSE i \in RecordsOf(k) : Newest(i)
    <2>1. RecordsOf(k) # {} /\ r = records[n]
      BY DEF LatestRecord
    <2>2. \E i \in RecordsOf(k) : Newest(i)
      <3>1. IsFiniteSet(RecordsOf(k)) /\ RecordsOf(k) \subseteq Int
        <4>1. DOMAIN records = 1..Len(records) /\ Len(records) \in Nat
          BY <1>1
        <4>2. IsFiniteSet(1..Len(records))
          BY <4>1, FS_Interval
        <4>3. QED BY <4>1, <4>2, FS_Subset DEF RecordsOf
      <3>2. QED BY <2>1, <3>1, LargestExists
    <2>3. n \in RecordsOf(k)
      BY <2>2
    <2>4. QED BY <1>1, <2>1, <2>3 DEF RecordsOf
  <1>3. r.candidates \in CandidateLists
    BY <1>2 DEF RecordType
  <1>4. QED BY <1>2, <1>3, EvaluateType

\* Of the three ways to a choice, the one that finds a record and accepts its best.
LEMMA EvaluateActiveCases ==
  ASSUME TypeOK, NEW t \in Threads, EvaluateActive(t)
  PROVE  \/ MissingRecord(t)
         \/ \E choice \in ChoiceType :
               /\ choice.status = "HIT" /\ choice.key \in Keys
               /\ Becomes(t, [thread[t] EXCEPT !.at = "chosen", !.choice = choice])
         \/ \E choice \in ChoiceType :
               choice.status # "HIT" /\ NotAccepted(t, choice)
  <1>1. CASE MissingRecord(t)
    BY <1>1
  <1>2. CASE ~MissingRecord(t)
    <2>1. PICK r \in LatestRecord(thread[t].key) :
             IF Evaluate(r.candidates).status = "HIT"
             THEN Becomes(t, [thread[t] EXCEPT !.at = "chosen",
                                               !.choice = Evaluate(r.candidates)])
             ELSE NotAccepted(t, Evaluate(r.candidates))
      BY <1>2 DEF EvaluateActive
    <2>2. /\ Evaluate(r.candidates) \in ChoiceType
          /\ Evaluate(r.candidates).status = "HIT"
               => Evaluate(r.candidates).key \in Keys
      BY LatestType
    <2> DEFINE choice == Evaluate(r.candidates)
    <2>3. CASE choice.status = "HIT"
      <3>1. Becomes(t, [thread[t] EXCEPT !.at = "chosen", !.choice = choice])
        BY <2>1, <2>3
      <3>2. choice \in ChoiceType /\ choice.key \in Keys
        BY <2>2, <2>3
      <3> HIDE DEF choice
      <3>3. QED BY <2>3, <3>1, <3>2
    <2>4. CASE choice.status # "HIT"
      <3>1. NotAccepted(t, choice) /\ choice \in ChoiceType
        BY <2>1, <2>2, <2>4
      <3> HIDE DEF choice
      <3>2. QED BY <2>4, <3>1
    <2>5. QED BY <2>3, <2>4
  <1>3. QED BY <1>1, <1>2

LEMMA EvaluateActiveType ==
  ASSUME TypeOK, NEW t \in Threads, EvaluateActive(t)
  PROVE  TypeOK'
  <1>1. thread' \in [Threads -> ThreadType]
    <2>1. CASE MissingRecord(t)
      BY <2>1, IdleType, FallsBackType DEF MissingRecord
    <2>2. ASSUME NEW choice \in ChoiceType,
                 Becomes(t, [thread[t] EXCEPT !.at = "chosen", !.choice = choice])
          PROVE  thread' \in [Threads -> ThreadType]
      <3>1. [thread[t] EXCEPT !.at = "chosen", !.choice = choice] \in ThreadType
        BY ThreadFields DEF ThreadType, Points
      <3>2. QED BY <2>2, <3>1, BecomesType
    <2>3. ASSUME NEW choice \in ChoiceType, NotAccepted(t, choice)
          PROVE  thread' \in [Threads -> ThreadType]
      BY <2>3, FallsBackType DEF NotAccepted
    <2>4. QED BY <2>1, <2>2, <2>3, EvaluateActiveCases
  <1>2. QED
    BY <1>1 DEF EvaluateActive, TypeOK, stores, counters, history

LEMMA EvaluationFailsType ==
  ASSUME TypeOK, NEW t \in Threads, EvaluationFails(t)
  PROVE  TypeOK'
  <1>1. thread' \in [Threads -> ThreadType]
    BY FallsBackType, ThreadFields DEF EvaluationFails
  <1>2. faults' \in 0..MaxFaults
    BY ServingAssumption DEF EvaluationFails, TypeOK
  <1>3. QED
    BY <1>1, <1>2 DEF EvaluationFails, TypeOK, stores, history

\* GetSelected leaves for a removal, or with the response of the key chosen.
LEMMA GetSelectedCases ==
  ASSUME TypeOK, NEW t \in Threads, GetSelected(t), thread[t].choice.key \in Keys
  PROVE  \/ Moves(t, "key_missing")
         \/ /\ kv[thread[t].choice.key] # None
            /\ [accepted |-> TRUE, key |-> thread[t].choice.key,
                response |-> kv[thread[t].choice.key], source |-> "query"]
                  \in ResultType
            /\ Becomes(t, [thread[t] EXCEPT
                  !.at = "looked_up",
                  !.result = [accepted |-> TRUE, key |-> thread[t].choice.key,
                              response |-> kv[thread[t].choice.key],
                              source |-> "query"]])
  <1>1. kv[thread[t].choice.key] \in 0..MaxCalls
    BY DEF TypeOK
  <1>2. [accepted |-> TRUE, key |-> thread[t].choice.key,
         response |-> kv[thread[t].choice.key], source |-> "query"] \in ResultType
    BY <1>1 DEF ResultType
  <1>3. QED BY <1>2 DEF GetSelected

LEMMA GetSelectedType ==
  ASSUME TypeOK, NEW t \in Threads, GetSelected(t), thread[t].choice.key \in Keys
  PROVE  TypeOK'
  <1>1. thread' \in [Threads -> ThreadType]
    <2>1. CASE Moves(t, "key_missing")
      BY <2>1, MovesType DEF Points
    <2>2. CASE ~Moves(t, "key_missing")
      <3> DEFINE y == [accepted |-> TRUE, key |-> thread[t].choice.key,
                       response |-> kv[thread[t].choice.key], source |-> "query"]
      <3>1. y \in ResultType
            /\ Becomes(t, [thread[t] EXCEPT !.at = "looked_up", !.result = y])
        BY <2>2, GetSelectedCases
      <3> HIDE DEF y
      <3>2. [thread[t] EXCEPT !.at = "looked_up", !.result = y] \in ThreadType
        BY <3>1, ThreadFields DEF ThreadType, Points
      <3>3. QED BY <3>1, <3>2, BecomesType
    <2>3. QED BY <2>1, <2>2
  <1>2. QED
    BY <1>1 DEF GetSelected, TypeOK, stores, counters, history

LEMMA RemoveSelectedType ==
  ASSUME TypeOK, NEW t \in Threads, RemoveSelected(t)
  PROVE  TypeOK'
  <1>1. thread' \in [Threads -> ThreadType]
    BY FallsBackType, ThreadFields DEF RemoveSelected, ResponseMissing
  <1>2. vectors' \subseteq Keys /\ IsFiniteSet(vectors')
    BY VectorsType DEF RemoveSelected
  <1>3. QED
    BY <1>1, <1>2 DEF RemoveSelected, TypeOK, counters, history

LEMMA EvaluateShadowType ==
  ASSUME TypeOK, NEW t \in Threads, EvaluateShadow(t)
  PROVE  TypeOK'
  <1>1. thread' \in [Threads -> ThreadType]
    BY FallsBackType, ThreadFields DEF EvaluateShadow
  <1>2. decided' \in Seq(ChoiceType) /\ Len(decided') <= MaxRecords
    <2>1. /\ decided \in Seq(ChoiceType) /\ Len(decided) <= MaxRecords
          /\ MaxRecords \in Nat \ {0}
      BY ServingAssumption DEF TypeOK
    <2>2. CASE UNCHANGED decided
      BY <2>1, <2>2
    <2>3. CASE decided' # decided
      <3>1. PICK r \in LatestRecord(thread[t].key) :
               decided' = Kept(decided, Evaluate(r.candidates), MaxRecords)
        BY <2>3 DEF EvaluateShadow
      <3>2. Evaluate(r.candidates) \in ChoiceType
        BY LatestType
      <3>3. QED BY <2>1, <3>1, <3>2, KeptType
    <2>4. QED BY <2>2, <2>3
  <1>3. QED
    BY <1>1, <1>2 DEF EvaluateShadow, TypeOK, stores, counters, history

(***************************************************************************)
(* ... the wrapper's put, and an invalidation                              *)
(***************************************************************************)
LEMMA GenerateType ==
  ASSUME TypeOK, NEW t \in Threads, Serve(t) \/ Generate(t) \/ GenerationFails(t)
  PROVE  TypeOK'
  <1>1. thread' \in [Threads -> ThreadType]
    BY MovesType, ReturnsType DEF Serve, Generate, GenerationFails, Points
  <1>2. faults' \in 0..MaxFaults
    BY ServingAssumption
    DEF Serve, Generate, GenerationFails, TypeOK, counters
  <1>3. /\ UNCHANGED <<stores, records, decided, config, calls, asked, ended>>
    BY DEF Serve, Generate, GenerationFails, counters, history
  <1>4. QED
    BY <1>1, <1>2, <1>3 DEF TypeOK, stores

LEMMA StoreResponseType ==
  ASSUME TypeOK, NEW t \in Threads, StoreResponse(t)
  PROVE  TypeOK'
  <1>1. thread' \in [Threads -> ThreadType]
    BY MovesType DEF StoreResponse, Points
  <1>2. kv' \in [Keys -> 0..MaxCalls]
    BY ThreadFields DEF StoreResponse, TypeOK
  <1>3. QED
    BY <1>1, <1>2 DEF StoreResponse, TypeOK, counters, history

LEMMA IndexEntryType ==
  ASSUME TypeOK, NEW t \in Threads, IndexEntry(t)
  PROVE  TypeOK'
  <1>1. thread' \in [Threads -> ThreadType]
    BY MovesType DEF IndexEntry, Points
  <1>2. vectors' \subseteq Keys /\ IsFiniteSet(vectors')
    BY ThreadFields, VectorsType DEF IndexEntry
  <1>3. QED
    BY <1>1, <1>2 DEF IndexEntry, TypeOK, counters, history

LEMMA TrackEntryType ==
  ASSUME TypeOK, NEW t \in Threads, TrackEntry(t)
  PROVE  TypeOK'
  <1>1. thread' \in [Threads -> ThreadType]
    BY MovesType DEF TrackEntry, Points
  <1>2. recency' \in Seq(Keys)
    BY ThreadFields, OrderType DEF TrackEntry, Track
  <1>3. QED
    BY <1>1, <1>2 DEF TrackEntry, TypeOK, counters, history

\* Over the bound there is a first key, the victim.
LEMMA CheckCapacityType ==
  ASSUME TypeOK, NEW t \in Threads, CheckCapacity(t)
  PROVE  TypeOK'
  <1>1. thread' \in [Threads -> ThreadType]
    <2>1. CASE Len(recency) > MaxEntries
      <3>1. recency \in Seq(Keys) /\ recency # <<>>
        BY <2>1, ServingAssumption DEF TypeOK
      <3>2. Head(recency) \in Keys
        BY <3>1, HeadTailProperties
      <3>3. [thread[t] EXCEPT !.at = "removing", !.victim = Head(recency)]
               \in ThreadType
        BY <3>2, ThreadFields DEF ThreadType, Points
      <3>4. QED BY <2>1, <3>3, BecomesType DEF CheckCapacity
    <2>2. CASE ~(Len(recency) > MaxEntries)
      BY <2>2, ReturnsType DEF CheckCapacity
    <2>3. QED BY <2>1, <2>2
  <1>2. QED
    BY <1>1 DEF CheckCapacity, TypeOK, stores, counters, history

LEMMA DroppedType ==
  ASSUME TypeOK, NEW t \in Threads
  PROVE  Dropped(t) \in Keys
  BY ThreadFields DEF Dropped

LEMMA ForgetDroppedType ==
  ASSUME TypeOK, NEW t \in Threads, ForgetDropped(t)
  PROVE  TypeOK'
  <1>1. thread' \in [Threads -> ThreadType]
    BY MovesType DEF ForgetDropped, Points
  <1>2. recency' \in Seq(Keys)
    BY DroppedType, OrderType DEF ForgetDropped, Untrack
  <1>3. QED
    BY <1>1, <1>2 DEF ForgetDropped, TypeOK, counters, history

LEMMA UnindexDroppedType ==
  ASSUME TypeOK, NEW t \in Threads, UnindexDropped(t)
  PROVE  TypeOK'
  <1>1. thread' \in [Threads -> ThreadType]
    BY MovesType DEF UnindexDropped, Points
  <1>2. vectors' \subseteq Keys /\ IsFiniteSet(vectors')
    BY VectorsType DEF UnindexDropped
  <1>3. QED
    BY <1>1, <1>2 DEF UnindexDropped, TypeOK, counters, history

\* A put goes on after its victim, an invalidation returns.
LEMMA DeleteResponseCases ==
  ASSUME TypeOK, NEW t \in Threads, DeleteResponse(t)
  PROVE  \/ /\ thread[t].victim = None /\ Returns(t)
            /\ ended' = ended \cup thread[t].found
         \/ /\ Becomes(t, [thread[t] EXCEPT !.at = "tracked", !.victim = None])
            /\ ended' = ended
  BY DEF DeleteResponse

LEMMA DeleteResponseType ==
  ASSUME TypeOK, NEW t \in Threads, DeleteResponse(t)
  PROVE  TypeOK'
  <1>1. thread' \in [Threads -> ThreadType]
    <2>1. [thread[t] EXCEPT !.at = "tracked", !.victim = None] \in ThreadType
      BY ThreadFields DEF ThreadType, Points
    <2>2. QED BY <2>1, DeleteResponseCases, ReturnsType, BecomesType
  <1>2. kv' \in [Keys -> 0..MaxCalls]
    <2>1. None \in 0..MaxCalls
      BY ServingAssumption DEF None
    <2>2. QED BY <2>1, DroppedType DEF DeleteResponse, TypeOK
  <1>3. ended' \subseteq Responses
    BY DeleteResponseCases, ThreadFields DEF TypeOK
  <1>4. QED
    BY <1>1, <1>2, <1>3 DEF DeleteResponse, TypeOK, counters

(***************************************************************************)
(* Where a key is used it is one: the pair-level decision has a key once   *)
(* it accepted, and the policy's choice has one while it is looked up.     *)
(***************************************************************************)
KeysHeld(t) ==
    /\ thread[t].pair.accepted => thread[t].pair.key \in Keys
    /\ thread[t].at \in {"accepted", "hit", "missing", "forgotten"}
          => thread[t].pair.accepted
    /\ thread[t].at \in {"chosen", "key_missing"}
          => thread[t].choice.status = "HIT" /\ thread[t].choice.key \in Keys

Progress(t) == Step(t) \/ EvaluationFails(t) \/ GenerationFails(t)

LEMMA ProgressType ==
  ASSUME TypeOK, NEW t \in Threads, KeysHeld(t), Progress(t)
  PROVE  TypeOK'
  <1>1. CASE Pair(t)
    <2>1. thread[t].at \in {"accepted", "hit", "missing", "forgotten"}
            => thread[t].pair.key \in Keys
      BY DEF KeysHeld
    <2>2. CASE GetResponse(t)
      BY <2>1, <2>2, GetResponseType DEF GetResponse, At
    <2>3. CASE TouchEntry(t) \/ ForgetEntry(t) \/ RemoveForgotten(t)
      BY <2>1, <2>3, TouchType DEF TouchEntry, ForgetEntry, RemoveForgotten, At
    <2>4. QED
      BY <1>1, <2>2, <2>3, SearchType, CollectType DEF Pair
  <1>2. CASE Query(t)
    <2>1. CASE GetSelected(t)
      BY <2>1, GetSelectedType DEF GetSelected, KeysHeld, At
    <2>2. QED
      BY <1>2, <2>1, EvaluateActiveType, RemoveSelectedType, EvaluateShadowType
      DEF Query
  <1>3. CASE Put(t)
    BY <1>3, GenerateType, StoreResponseType, IndexEntryType, TrackEntryType,
       CheckCapacityType, ForgetDroppedType, UnindexDroppedType, DeleteResponseType
    DEF Put
  <1>4. QED
    BY <1>1, <1>2, <1>3, EvaluationFailsType, GenerateType DEF Progress, Step

(***************************************************************************)
(* What a step leaves of a call.  Storing: the call may still store the    *)
(* generation of its number.  A response a thread holds is one it held, or *)
(* one just read from under its key.                                       *)
(***************************************************************************)
Storing == {"asked", "searched", "accepted", "hit", "missing", "forgotten",
            "paired", "chosen", "key_missing", "looked_up", "generated"}

Read(t, y) ==
    \/ y.response = None
    \/ y = thread[t].pair \/ y = thread[t].result
    \/ y.key \in Keys /\ y.response = kv[y.key]

Carries(t) ==
    /\ thread'[t].call = thread[t].call /\ thread'[t].key = thread[t].key
    /\ thread'[t].found = thread[t].found /\ thread'[t].ended = thread[t].ended
    /\ thread'[t].at \in Storing => thread[t].at \in Storing
    /\ KeysHeld(t)'
    /\ Read(t, thread'[t].pair) /\ Read(t, thread'[t].result)

Continues(t) ==
    /\ UNCHANGED <<calls, asked>>
    /\ \A u \in Threads : u # t => thread'[u] = thread[u]
    /\ thread'[t] = Idle \/ Carries(t)

LEMMA MovesCarries ==
  ASSUME TypeOK, NEW t \in Threads, KeysHeld(t), NEW at \in Points, Moves(t, at),
         at \in Storing => thread[t].at \in Storing,
         at \in {"accepted", "hit", "missing", "forgotten"} => thread[t].pair.accepted,
         at \in {"chosen", "key_missing"}
            => thread[t].choice.status = "HIT" /\ thread[t].choice.key \in Keys
  PROVE  /\ Carries(t)
         /\ \A u \in Threads : u # t => thread'[u] = thread[u]
  <1> DEFINE x == [thread[t] EXCEPT !.at = at]
  <1>1. x \in ThreadType
    BY ThreadFields DEF ThreadType
  <1>2. /\ thread'[t] = x
        /\ \A u \in Threads : u # t => thread'[u] = thread[u]
    BY <1>1, BecomesType DEF Moves
  <1>3. /\ x.at = at /\ x.call = thread[t].call /\ x.key = thread[t].key
        /\ x.found = thread[t].found /\ x.ended = thread[t].ended
        /\ x.pair = thread[t].pair /\ x.result = thread[t].result
        /\ x.choice = thread[t].choice
    BY ThreadFields DEF ThreadType
  <1> HIDE DEF x
  <1>4. KeysHeld(t)'
    BY <1>2, <1>3 DEF KeysHeld
  <1>5. QED BY <1>2, <1>3, <1>4 DEF Carries, Read

LEMMA ReturnsContinues ==
  ASSUME TypeOK, NEW t \in Threads, Returns(t), UNCHANGED <<calls, asked>>
  PROVE  Continues(t)
  BY IdleType, BecomesType DEF Returns, Continues

LEMMA FallsBackCarries ==
  ASSUME TypeOK, NEW t \in Threads, KeysHeld(t), NEW allowed,
         NEW choice \in ChoiceType, FallsBack(t, allowed, choice),
         thread[t].at \in Storing
  PROVE  /\ Carries(t)
         /\ \A u \in Threads : u # t => thread'[u] = thread[u]
  <1> DEFINE y == IF allowed THEN thread[t].pair ELSE Nothing
             x == [thread[t] EXCEPT !.at = "looked_up", !.choice = choice, !.result = y]
  <1>1. /\ thread'[t] = x
        /\ \A u \in Threads : u # t => thread'[u] = thread[u]
    <2>1. y \in ResultType
      BY IdleType, ThreadFields
    <2>2. Becomes(t, x)
      BY DEF FallsBack
    <2> HIDE DEF y
    <2>3. x \in ThreadType
      BY <2>1, ThreadFields DEF ThreadType, Points
    <2> HIDE DEF x
    <2>4. QED BY <2>2, <2>3, BecomesType
  <1>2. y = thread[t].pair \/ y.response = None
    BY DEF Nothing, None
  <1> HIDE DEF y
  <1>3. /\ x.at = "looked_up" /\ x.call = thread[t].call /\ x.key = thread[t].key
        /\ x.found = thread[t].found /\ x.ended = thread[t].ended
        /\ x.pair = thread[t].pair /\ x.result = y
    BY ThreadFields DEF ThreadType
  <1> HIDE DEF x
  <1>4. KeysHeld(t)'
    BY <1>1, <1>3 DEF KeysHeld
  <1>5. QED BY <1>1, <1>2, <1>3, <1>4 DEF Carries, Read, Storing

LEMMA SearchCarries ==
  ASSUME TypeOK, NEW t \in Threads, KeysHeld(t), Search(t)
  PROVE  Continues(t)
  <1>1. PICK c \in Found :
          \E accepted \in {None} \cup {c[i].key : i \in DOMAIN c} :
             Becomes(t, [thread[t] EXCEPT
                !.at = "searched", !.candidates = c,
                !.pair = [Nothing EXCEPT !.accepted = accepted # None,
                                         !.key = accepted]])
    BY DEF Search
  <1>2. PICK accepted \in {None} \cup {c[i].key : i \in DOMAIN c} :
             Becomes(t, [thread[t] EXCEPT
                !.at = "searched", !.candidates = c,
                !.pair = [Nothing EXCEPT !.accepted = accepted # None,
                                         !.key = accepted]])
    BY <1>1
  <1>3. c \in CandidateLists /\ accepted \in Keys \cup {None}
    BY FoundType
  <1> DEFINE y == [Nothing EXCEPT !.accepted = accepted # None, !.key = accepted]
             x == [thread[t] EXCEPT !.at = "searched", !.candidates = c, !.pair = y]
  <1>4. y \in ResultType
    BY <1>3, IdleType DEF ResultType
  <1>5. y.response = None /\ (y.accepted => y.key \in Keys)
    BY <1>3 DEF Nothing
  <1>6. Becomes(t, x)
    BY <1>2
  <1> HIDE DEF y
  <1>7. x \in ThreadType
    BY <1>3, <1>4, ThreadFields DEF ThreadType, Points
  <1>8. /\ x.at = "searched" /\ x.call = thread[t].call /\ x.key = thread[t].key
        /\ x.found = thread[t].found /\ x.ended = thread[t].ended
        /\ x.pair = y /\ x.result = thread[t].result
    BY ThreadFields DEF ThreadType
  <1>9. /\ thread'[t] = x
        /\ \A u \in Threads : u # t => thread'[u] = thread[u]
    BY <1>6, <1>7, BecomesType
  <1>10. thread[t].at = "asked" /\ UNCHANGED <<calls, asked>>
    BY DEF Search, At, counters, history
  <1> HIDE DEF x
  <1>11. KeysHeld(t)'
    BY <1>5, <1>8, <1>9 DEF KeysHeld
  <1>12. QED
    BY <1>5, <1>8, <1>9, <1>10, <1>11 DEF Continues, Carries, Read, Storing

LEMMA GetResponseCarries ==
  ASSUME TypeOK, NEW t \in Threads, KeysHeld(t), GetResponse(t)
  PROVE  Continues(t)
  <1> DEFINE r == kv[thread[t].pair.key]
             y == [thread[t].pair EXCEPT !.response = r, !.source = "pair"]
             at == IF r = None THEN "missing" ELSE "hit"
             x == [thread[t] EXCEPT !.at = at, !.pair = y]
  <1>1. thread[t].at = "accepted" /\ UNCHANGED <<calls, asked>>
    BY DEF GetResponse, At, counters, history
  <1>2. thread[t].pair.accepted /\ thread[t].pair.key \in Keys
    BY <1>1 DEF KeysHeld
  <1>3. r \in 0..MaxCalls
    BY <1>2 DEF TypeOK
  <1>4. y \in ResultType /\ y.response = r /\ y.key = thread[t].pair.key
        /\ y.accepted = thread[t].pair.accepted
    BY <1>3, ThreadFields DEF ResultType
  <1>5. at \in {"missing", "hit"}
    OBVIOUS
  <1>6. Becomes(t, x)
    BY ThreadFields DEF GetResponse, ThreadType, ResultType
  <1>7. Read(t, y)
    BY <1>2, <1>4 DEF Read
  <1> HIDE DEF y, at
  <1>8. x \in ThreadType
    <2>1. at \in Points
      BY <1>5 DEF Points
    <2>2. QED BY <1>4, <2>1, ThreadFields DEF ThreadType
  <1>9. /\ x.at = at /\ x.call = thread[t].call /\ x.key = thread[t].key
        /\ x.found = thread[t].found /\ x.ended = thread[t].ended
        /\ x.pair = y /\ x.result = thread[t].result
    BY ThreadFields DEF ThreadType
  <1>10. /\ thread'[t] = x
         /\ \A u \in Threads : u # t => thread'[u] = thread[u]
    BY <1>6, <1>8, BecomesType
  <1> HIDE DEF x
  <1>11. KeysHeld(t)'
    BY <1>2, <1>4, <1>5, <1>9, <1>10 DEF KeysHeld
  <1>12. Read(t, thread[t].result)
    BY DEF Read
  <1>13. QED
    BY <1>1, <1>7, <1>9, <1>10, <1>11, <1>12 DEF Continues, Carries, Storing

LEMMA PairContinues ==
  ASSUME TypeOK, NEW t \in Threads, KeysHeld(t), Pair(t)
  PROVE  Continues(t)
  <1>1. CASE Collect(t)
    <2>1. thread[t].at = "searched" /\ UNCHANGED <<calls, asked>>
      BY <1>1 DEF Collect, At, counters, history
    <2>2. CASE thread[t].pair.accepted
      <3>1. Moves(t, "accepted")
        BY <1>1, <2>2 DEF Collect
      <3>2. "accepted" \in Points
        BY DEF Points
      <3>3. QED BY <2>1, <2>2, <3>1, <3>2, MovesCarries DEF Continues, Storing
    <2>3. CASE ~thread[t].pair.accepted
      <3>1. Moves(t, "paired")
        BY <1>1, <2>3 DEF Collect
      <3>2. "paired" \in Points
        BY DEF Points
      <3>3. QED BY <2>1, <3>1, <3>2, MovesCarries DEF Continues, Storing
    <2>4. QED BY <2>2, <2>3
  <1>2. CASE TouchEntry(t) \/ RemoveForgotten(t)
    <2>1. /\ thread[t].at \in {"hit", "forgotten"} /\ Moves(t, "paired")
          /\ UNCHANGED <<calls, asked>>
      BY <1>2 DEF TouchEntry, RemoveForgotten, At, counters, history
    <2>2. "paired" \in Points
      BY DEF Points
    <2>3. QED BY <2>1, <2>2, MovesCarries DEF Continues, Storing
  <1>3. CASE ForgetEntry(t)
    <2>1. /\ thread[t].at = "missing" /\ Moves(t, "forgotten")
          /\ UNCHANGED <<calls, asked>>
      BY <1>3 DEF ForgetEntry, At, counters, history
    <2>2. "forgotten" \in Points
      BY DEF Points
    <2>3. thread[t].pair.accepted
      BY <2>1 DEF KeysHeld
    <2>4. QED BY <2>1, <2>2, <2>3, MovesCarries DEF Continues, Storing
  <1>4. QED
    BY <1>1, <1>2, <1>3, SearchCarries, GetResponseCarries DEF Pair

LEMMA EvaluateActiveContinues ==
  ASSUME TypeOK, NEW t \in Threads, KeysHeld(t), EvaluateActive(t)
  PROVE  Continues(t)
  <1>1. thread[t].at = "paired" /\ UNCHANGED <<calls, asked>>
    BY DEF EvaluateActive, At, counters, history
  <1>2. thread[t].at \in Storing
    BY <1>1 DEF Storing
  <1>3. CASE MissingRecord(t)
    BY <1>1, <1>2, <1>3, IdleType, FallsBackCarries DEF MissingRecord, Continues
  <1>4. ASSUME NEW choice \in ChoiceType, NotAccepted(t, choice)
        PROVE  Continues(t)
    BY <1>1, <1>2, <1>4, FallsBackCarries DEF NotAccepted, Continues
  <1>5. ASSUME NEW choice \in ChoiceType, choice.status = "HIT", choice.key \in Keys,
               Becomes(t, [thread[t] EXCEPT !.at = "chosen", !.choice = choice])
        PROVE  Continues(t)
    <2> DEFINE x == [thread[t] EXCEPT !.at = "chosen", !.choice = choice]
    <2>1. x \in ThreadType
      BY ThreadFields DEF ThreadType, Points
    <2>2. /\ x.at = "chosen" /\ x.call = thread[t].call /\ x.key = thread[t].key
          /\ x.found = thread[t].found /\ x.ended = thread[t].ended
          /\ x.pair = thread[t].pair /\ x.result = thread[t].result
          /\ x.choice = choice
      BY ThreadFields DEF ThreadType
    <2>3. /\ thread'[t] = x
          /\ \A u \in Threads : u # t => thread'[u] = thread[u]
      BY <1>5, <2>1, BecomesType
    <2> HIDE DEF x
    <2>4. KeysHeld(t)'
      BY <1>5, <2>2, <2>3 DEF KeysHeld
    <2>5. QED BY <1>1, <1>2, <2>2, <2>3, <2>4 DEF Continues, Carries, Read
  <1>6. QED BY <1>3, <1>4, <1>5, EvaluateActiveCases

LEMMA GetSelectedContinues ==
  ASSUME TypeOK, NEW t \in Threads, KeysHeld(t), GetSelected(t)
  PROVE  Continues(t)
  <1>1. thread[t].at = "chosen" /\ UNCHANGED <<calls, asked>>
    BY DEF GetSelected, At, counters, history
  <1>2. thread[t].choice.status = "HIT" /\ thread[t].choice.key \in Keys
    BY <1>1 DEF KeysHeld
  <1>3. CASE Moves(t, "key_missing")
    <2>1. "key_missing" \in Points
      BY DEF Points
    <2>2. QED BY <1>1, <1>2, <1>3, <2>1, MovesCarries DEF Continues, Storing
  <1>4. CASE ~Moves(t, "key_missing")
    <2> DEFINE y == [accepted |-> TRUE, key |-> thread[t].choice.key,
                     response |-> kv[thread[t].choice.key], source |-> "query"]
               x == [thread[t] EXCEPT !.at = "looked_up", !.result = y]
    <2>1. y \in ResultType /\ Becomes(t, x)
      BY <1>2, <1>4, GetSelectedCases
    <2>2. Read(t, y)
      BY <1>2 DEF Read
    <2> HIDE DEF y
    <2>3. x \in ThreadType
      BY <2>1, ThreadFields DEF ThreadType, Points
    <2>4. /\ x.at = "looked_up" /\ x.call = thread[t].call /\ x.key = thread[t].key
          /\ x.found = thread[t].found /\ x.ended = thread[t].ended
          /\ x.pair = thread[t].pair /\ x.result = y
      BY ThreadFields DEF ThreadType
    <2>5. /\ thread'[t] = x
          /\ \A u \in Threads : u # t => thread'[u] = thread[u]
      BY <2>1, <2>3, BecomesType
    <2> HIDE DEF x
    <2>6. KeysHeld(t)'
      BY <2>4, <2>5 DEF KeysHeld
    <2>7. Read(t, thread[t].pair)
      BY DEF Read
    <2>8. QED
      BY <1>1, <2>2, <2>4, <2>5, <2>6, <2>7 DEF Continues, Carries, Storing
  <1>5. QED BY <1>3, <1>4

LEMMA QueryContinues ==
  ASSUME TypeOK, NEW t \in Threads, KeysHeld(t), Query(t) \/ EvaluationFails(t)
  PROVE  Continues(t)
  <1>1. CASE RemoveSelected(t) \/ EvaluateShadow(t) \/ EvaluationFails(t)
    <2>1. thread[t].at \in Storing /\ UNCHANGED <<calls, asked>>
      BY <1>1
      DEF RemoveSelected, EvaluateShadow, EvaluationFails, At, Storing, counters, history
    <2>2. \E allowed : FallsBack(t, allowed, thread[t].choice)
      BY <1>1 DEF RemoveSelected, ResponseMissing, EvaluateShadow, EvaluationFails
    <2>3. PICK allowed : FallsBack(t, allowed, thread[t].choice)
      BY <2>2
    <2>4. thread[t].choice \in ChoiceType
      BY ThreadFields
    <2>5. QED BY <2>1, <2>3, <2>4, FallsBackCarries DEF Continues
  <1>2. QED
    BY <1>1, EvaluateActiveContinues, GetSelectedContinues DEF Query

LEMMA PutContinues ==
  ASSUME TypeOK, NEW t \in Threads, KeysHeld(t), Put(t) \/ GenerationFails(t)
  PROVE  Continues(t)
  <1>1. UNCHANGED <<calls, asked>>
    BY DEF Put, Serve, Generate, GenerationFails, StoreResponse, IndexEntry,
           TrackEntry, CheckCapacity, ForgetDropped, UnindexDropped, DeleteResponse,
           counters, history
  <1>2. CASE Returns(t)
    BY <1>1, <1>2, ReturnsContinues
  <1>3. CASE Generate(t)
    <2>1. "generated" \in Points /\ thread[t].at \in Storing /\ Moves(t, "generated")
      BY <1>3 DEF Generate, At, Points, Storing
    <2>2. QED BY <1>1, <2>1, MovesCarries DEF Continues
  <1>4. CASE StoreResponse(t) \/ IndexEntry(t) \/ TrackEntry(t)
             \/ ForgetDropped(t) \/ UnindexDropped(t)
    <2>1. PICK at \in {"stored", "indexed", "tracked", "untracked", "unindexed"} :
             Moves(t, at)
      BY <1>4 DEF StoreResponse, IndexEntry, TrackEntry, ForgetDropped, UnindexDropped
    <2>2. at \in Points /\ at \notin Storing
      BY <2>1 DEF Points, Storing
    <2>3. at \notin {"accepted", "hit", "missing", "forgotten", "chosen", "key_missing"}
      BY <2>1
    <2>4. QED BY <1>1, <2>1, <2>2, <2>3, MovesCarries DEF Continues
  <1>5. ASSUME NEW at \in {"removing", "tracked"}, NEW v \in Keys \cup {None},
               Becomes(t, [thread[t] EXCEPT !.at = at, !.victim = v])
        PROVE  Continues(t)
    <2> DEFINE x == [thread[t] EXCEPT !.at = at, !.victim = v]
    <2>1. at \in Points /\ at \notin Storing
      BY DEF Points, Storing
    <2>2. x \in ThreadType
      BY <2>1, ThreadFields DEF ThreadType
    <2>3. /\ x.at = at /\ x.call = thread[t].call /\ x.key = thread[t].key
          /\ x.found = thread[t].found /\ x.ended = thread[t].ended
          /\ x.pair = thread[t].pair /\ x.result = thread[t].result
      BY ThreadFields DEF ThreadType
    <2>4. /\ thread'[t] = x
          /\ \A u \in Threads : u # t => thread'[u] = thread[u]
      BY <1>5, <2>2, BecomesType
    <2> HIDE DEF x
    <2>5. KeysHeld(t)'
      BY <2>3, <2>4 DEF KeysHeld
    <2>6. QED BY <1>1, <2>1, <2>3, <2>4, <2>5 DEF Continues, Carries, Read
  <1>6. CASE CheckCapacity(t)
    <2>1. CASE Len(recency) > MaxEntries
      <3>1. recency \in Seq(Keys) /\ recency # <<>>
        BY <2>1, ServingAssumption DEF TypeOK
      <3>2. Head(recency) \in Keys
        BY <3>1, HeadTailProperties
      <3>3. QED BY <1>5, <1>6, <2>1, <3>2 DEF CheckCapacity
    <2>2. CASE ~(Len(recency) > MaxEntries)
      BY <1>2, <1>6, <2>2 DEF CheckCapacity
    <2>3. QED BY <2>1, <2>2
  <1>7. CASE DeleteResponse(t)
    BY <1>2, <1>5, <1>7, DeleteResponseCases
  <1>8. CASE Serve(t) \/ GenerationFails(t)
    BY <1>2, <1>8 DEF Serve, GenerationFails
  <1>9. QED
    BY <1>3, <1>4, <1>6, <1>7, <1>8 DEF Put

(***************************************************************************)
(* The inductive invariant.  A generation that is stored, was found by an  *)
(* invalidation or is in a record of what was invalidated is spent: no     *)
(* call can store it any more, which is why what an invalidation removed   *)
(* does not come back.                                                     *)
(***************************************************************************)
Spent(r) == \A u \in Threads : thread[u].at \in Storing => thread[u].call # r

CallInv(t) ==
    /\ thread[t].call <= calls
    /\ thread[t].at \in Storing
          => thread[t].call # 0 /\ asked[thread[t].call] = thread[t].key
    /\ \A u \in Threads :
          u # t /\ thread[u].call = thread[t].call => thread[t].call = 0

StoredInv(k) ==
    kv[k] # None => kv[k] <= calls /\ asked[kv[k]] = k /\ Spent(kv[k])

InvalidatedInv(p) == p[2] <= calls /\ Spent(p[2]) /\ kv[p[1]] # p[2]

FoundInv(t) ==
    /\ thread[t].ended \subseteq ended
    /\ \A p \in thread[t].found :
          p[1] = thread[t].key /\ p[2] <= calls /\ Spent(p[2])

HeldInv(t, y) ==
    y.response # None => /\ y.response <= calls
                         /\ asked[y.response] = y.key
                         /\ <<y.key, y.response>> \notin thread[t].ended

ServingInv ==
    /\ TypeOK
    /\ \A t \in Threads : KeysHeld(t) /\ CallInv(t) /\ FoundInv(t)
    /\ \A t \in Threads : HeldInv(t, thread[t].pair) /\ HeldInv(t, thread[t].result)
    /\ \A k \in Keys : StoredInv(k)
    /\ \A p \in ended : InvalidatedInv(p)

LEMMA InitServing == Init => ServingInv
  <1> SUFFICES ASSUME Init PROVE ServingInv
    OBVIOUS
  <1>1. TypeOK
    BY InitType
  <1>2. ASSUME NEW t \in Threads
        PROVE  /\ KeysHeld(t) /\ CallInv(t) /\ FoundInv(t)
               /\ HeldInv(t, thread[t].pair) /\ HeldInv(t, thread[t].result)
    <2>1. thread[t] = Idle /\ calls = 0
      BY DEF Init
    <2>2. \A u \in Threads : thread[u] = Idle
      BY DEF Init
    <2>3. /\ Idle.at = "idle" /\ Idle.call = 0 /\ Idle.found = {} /\ Idle.ended = {}
          /\ Idle.pair = Nothing /\ Idle.result = Nothing
          /\ Nothing.response = None /\ ~Nothing.accepted
      BY DEF Idle, Nothing, None
    <2>4. KeysHeld(t)
      BY <2>1, <2>3 DEF KeysHeld
    <2>5. CallInv(t)
      BY <2>1, <2>2, <2>3 DEF CallInv, Storing
    <2>6. FoundInv(t)
      BY <2>1, <2>3 DEF FoundInv
    <2>7. HeldInv(t, thread[t].pair) /\ HeldInv(t, thread[t].result)
      BY <2>1, <2>3 DEF HeldInv
    <2>8. QED BY <2>4, <2>5, <2>6, <2>7
  <1>3. \A k \in Keys : StoredInv(k)
    BY DEF Init, StoredInv
  <1>4. \A p \in ended : InvalidatedInv(p)
    BY DEF Init
  <1>5. QED BY <1>1, <1>2, <1>3, <1>4 DEF ServingInv

\* What is spent stays spent: a call gets a number nobody had, and no step takes a
\* call back to where it may store.
LEMMA SpentContinues ==
  ASSUME NEW t \in Threads, Continues(t), NEW r, Spent(r)
  PROVE  Spent(r)'
  <1>1. SUFFICES ASSUME NEW u \in Threads, thread'[u].at \in Storing
                 PROVE  thread'[u].call # r
    BY DEF Spent
  <1>2. CASE u # t
    BY <1>1, <1>2 DEF Continues, Spent
  <1>3. CASE u = t
    <2>1. thread'[t] # Idle
      BY <1>1, <1>3 DEF Idle, Storing
    <2>2. QED BY <1>1, <1>3, <2>1 DEF Continues, Carries, Spent
  <1>4. QED BY <1>2, <1>3

LEMMA BeginsFields ==
  ASSUME TypeOK, NEW t \in Threads, NEW k \in Keys, NEW at \in Points,
         Begins(t, k, at)
  PROVE  /\ \A u \in Threads : u # t => thread'[u] = thread[u]
         /\ thread'[t].at = at /\ thread'[t].key = k /\ thread'[t].call = calls + 1
         /\ thread'[t].pair = Nothing /\ thread'[t].result = Nothing
         /\ thread'[t].ended = ended
         /\ thread'[t].found = IF kv[k] = None THEN {} ELSE {<<k, kv[k]>>}
         /\ calls' = calls + 1 /\ calls \in Nat
         /\ asked'[calls + 1] = k
         /\ \A r \in 1..calls : asked'[r] = asked[r]
         /\ UNCHANGED <<kv, ended>>
  <1> DEFINE found == IF kv[k] = None THEN {} ELSE {<<k, kv[k]>>}
             x == [Idle EXCEPT !.at = at, !.key = k, !.call = calls + 1,
                               !.found = found, !.ended = ended]
  <1>1. thread' = [thread EXCEPT ![t] = x] /\ calls' = calls + 1
        /\ asked' = Append(asked, k) /\ UNCHANGED <<kv, ended>>
    BY DEF Begins, Becomes, stores
  <1>2. thread'[t] = x /\ \A u \in Threads : u # t => thread'[u] = thread[u]
    BY <1>1 DEF TypeOK
  <1> HIDE DEF found
  <1>3. /\ x.at = at /\ x.key = k /\ x.call = calls + 1
        /\ x.pair = Nothing /\ x.result = Nothing
        /\ x.ended = ended /\ x.found = found
    BY DEF Idle
  <1> HIDE DEF x
  <1>4. asked \in Seq(Keys) /\ Len(asked) = calls /\ calls \in Nat
    BY DEF TypeOK
  <1>5. /\ asked'[calls + 1] = k
        /\ \A r \in 1..calls : asked'[r] = asked[r]
    BY <1>1, <1>4, AppendProperties
  <1>6. QED BY <1>1, <1>2, <1>3, <1>4, <1>5 DEF found

LEMMA BeginsServing ==
  ASSUME ServingInv, NEW t \in Threads, NEW k \in Keys,
         NEW at \in {"asked", "removing"}, Begins(t, k, at)
  PROVE  ServingInv'
  <1>1. TypeOK /\ at \in Points
    BY DEF ServingInv, Points
  <1>2. TypeOK'
    BY <1>1, BeginsType
  <1>3. /\ \A u \in Threads : u # t => thread'[u] = thread[u]
        /\ thread'[t].at = at /\ thread'[t].key = k /\ thread'[t].call = calls + 1
        /\ thread'[t].pair = Nothing /\ thread'[t].result = Nothing
        /\ thread'[t].ended = ended
        /\ thread'[t].found = IF kv[k] = None THEN {} ELSE {<<k, kv[k]>>}
        /\ calls' = calls + 1 /\ calls \in Nat
        /\ asked'[calls + 1] = k
        /\ \A r \in 1..calls : asked'[r] = asked[r]
        /\ UNCHANGED <<kv, ended>>
    BY <1>1, BeginsFields
  <1>4. ASSUME NEW r \in Nat, r <= calls, Spent(r)
        PROVE  Spent(r)' /\ r <= calls'
    <2>1. ASSUME NEW u \in Threads, thread'[u].at \in Storing
          PROVE  thread'[u].call # r
      BY <1>3, <1>4, <2>1 DEF Spent
    <2>2. QED BY <1>3, <1>4, <2>1 DEF Spent
  <1>5. ASSUME NEW j \in Keys PROVE StoredInv(j)'
    <2>1. kv[j] \in Nat /\ StoredInv(j)
      BY <1>1 DEF TypeOK, ServingInv
    <2>2. QED BY <1>3, <1>4, <2>1 DEF StoredInv, None
  <1>6. ASSUME NEW p \in ended PROVE InvalidatedInv(p)'
    <2>1. p[2] \in Nat /\ InvalidatedInv(p)
      BY <1>1 DEF TypeOK, Responses, ServingInv
    <2>2. QED BY <1>3, <1>4, <2>1 DEF InvalidatedInv
  <1>7. ASSUME NEW u \in Threads PROVE KeysHeld(u)' /\ CallInv(u)' /\ FoundInv(u)'
    <2>1. /\ KeysHeld(u) /\ CallInv(u) /\ FoundInv(u)
          /\ \A v \in Threads : thread[v].call \in Nat /\ thread[v].call <= calls
      BY <1>1, ThreadFields DEF ServingInv, CallInv
    <2>2. KeysHeld(u)'
      <3>1. CASE u = t
        BY <1>3, <3>1 DEF KeysHeld, Nothing
      <3>2. CASE u # t
        BY <1>3, <2>1, <3>2 DEF KeysHeld
      <3>3. QED BY <3>1, <3>2
    <2>3. CallInv(u)'
      <3>1. CASE u = t
        BY <1>3, <2>1, <3>1 DEF CallInv
      <3>2. CASE u # t
        BY <1>3, <2>1, <3>2 DEF CallInv
      <3>3. QED BY <3>1, <3>2
    <2>4. FoundInv(u)'
      <3>1. CASE u = t
        <4>1. kv[k] # None => kv[k] \in Nat /\ kv[k] <= calls /\ Spent(kv[k])
          BY <1>1 DEF ServingInv, StoredInv, TypeOK
        <4>2. QED BY <1>3, <1>4, <3>1, <4>1 DEF FoundInv
      <3>2. CASE u # t
        <4>1. \A p \in thread[u].found : p[2] \in Nat
          BY <1>1, ThreadFields DEF Responses
        <4>2. QED BY <1>3, <1>4, <2>1, <3>2, <4>1 DEF FoundInv
      <3>3. QED BY <3>1, <3>2
    <2>5. QED BY <2>2, <2>3, <2>4
  <1>8. ASSUME NEW u \in Threads
        PROVE  HeldInv(u, thread[u].pair)' /\ HeldInv(u, thread[u].result)'
    <2>1. CASE u = t
      BY <1>3, <2>1 DEF HeldInv, Nothing
    <2>2. CASE u # t
      <3>1. /\ HeldInv(u, thread[u].pair) /\ HeldInv(u, thread[u].result)
            /\ thread[u].pair.response \in Nat /\ thread[u].result.response \in Nat
        BY <1>1, ThreadFields DEF ServingInv, ResultType
      <3>2. QED BY <1>3, <2>2, <3>1 DEF HeldInv, None
    <2>3. QED BY <2>1, <2>2
  <1>9. QED
    BY <1>2, <1>3, <1>5, <1>6, <1>7, <1>8 DEF ServingInv

LEMMA ProgressContinues ==
  ASSUME TypeOK, NEW t \in Threads, KeysHeld(t), Progress(t)
  PROVE  Continues(t)
  BY PairContinues, QueryContinues, PutContinues DEF Progress, Step

\* What becomes of the stored responses and of those that were invalidated.
LEMMA ProgressStores ==
  ASSUME NEW t \in Threads, Progress(t)
  PROVE  UNCHANGED <<kv, ended>> \/ StoreResponse(t) \/ DeleteResponse(t)
  <1>1. CASE Pair(t)
    BY <1>1 DEF Pair, Search, Collect, GetResponse, TouchEntry, ForgetEntry,
                RemoveForgotten, stores, history
  <1>2. CASE Query(t) \/ EvaluationFails(t)
    BY <1>2 DEF Query, EvaluateActive, GetSelected, RemoveSelected, EvaluateShadow,
                EvaluationFails, stores, history
  <1>3. CASE Put(t) \/ GenerationFails(t)
    BY <1>3 DEF Put, Serve, Generate, GenerationFails, IndexEntry, TrackEntry,
                CheckCapacity, ForgetDropped, UnindexDropped, stores, history
  <1>4. QED BY <1>1, <1>2, <1>3 DEF Progress, Step

\* The number of the call that stores is spent by it, and is no response that was
\* invalidated before.
LEMMA StoreSpends ==
  ASSUME ServingInv, NEW t \in Threads, StoreResponse(t), Continues(t),
         NEW r, r = thread[t].call
  PROVE  /\ r \in 1..calls /\ asked[r] = thread[t].key
         /\ Spent(r)'
         /\ \A p \in ended : p[2] # r
  <1>1. thread[t].at = "generated" /\ Moves(t, "stored")
    BY DEF StoreResponse, At
  <1>2. TypeOK /\ CallInv(t) /\ "stored" \in Points /\ "generated" \in Storing
    BY DEF ServingInv, Points, Storing
  <1>3. /\ r \in Nat /\ calls \in Nat /\ r # 0 /\ r <= calls
        /\ asked[r] = thread[t].key
    BY <1>1, <1>2, ThreadFields DEF CallInv, TypeOK
  <1>4. thread'[t].at = "stored"
    <2>1. [thread[t] EXCEPT !.at = "stored"] \in ThreadType
          /\ [thread[t] EXCEPT !.at = "stored"].at = "stored"
      BY <1>2, ThreadFields DEF ThreadType
    <2>2. QED BY <1>1, <1>2, <2>1, BecomesType DEF Moves
  <1>5. ASSUME NEW u \in Threads, thread'[u].at \in Storing
        PROVE  thread'[u].call # r
    <2>1. u # t
      BY <1>4, <1>5 DEF Storing
    <2>2. thread'[u] = thread[u]
      BY <2>1 DEF Continues
    <2>3. QED BY <1>2, <1>3, <2>1, <2>2 DEF CallInv
  <1>6. Spent(r)'
    BY <1>5 DEF Spent
  <1>7. \A p \in ended : p[2] # r
    BY <1>1, <1>2 DEF ServingInv, InvalidatedInv, Spent
  <1>8. QED BY <1>3, <1>6, <1>7

LEMMA ProgressServing ==
  ASSUME ServingInv, NEW t \in Threads, Progress(t)
  PROVE  ServingInv'
  <1>1. TypeOK /\ KeysHeld(t)
    BY DEF ServingInv
  <1>2. TypeOK' /\ Continues(t)
    BY <1>1, ProgressType, ProgressContinues
  <1>3. /\ calls' = calls /\ asked' = asked /\ calls \in Nat
        /\ \A u \in Threads : u # t => thread'[u] = thread[u]
        /\ thread'[t] = Idle \/ Carries(t)
    BY <1>1, <1>2 DEF Continues, TypeOK
  <1>4. /\ Idle.at = "idle" /\ Idle.call = 0 /\ Idle.found = {} /\ Idle.ended = {}
        /\ Idle.pair = Nothing /\ Idle.result = Nothing
        /\ Nothing.response = None /\ ~Nothing.accepted
    BY DEF Idle, Nothing, None
  <1>5. ended \subseteq ended'
    BY <1>1, ProgressStores, DeleteResponseCases DEF StoreResponse, history
  \* Calls, and what they found when they began.
  <1>6. ASSUME NEW u \in Threads PROVE KeysHeld(u)' /\ CallInv(u)' /\ FoundInv(u)'
    <2>1. KeysHeld(u) /\ CallInv(u) /\ FoundInv(u)
      BY DEF ServingInv
    <2>2. \A v \in Threads : thread'[v].call = 0 \/ thread'[v].call = thread[v].call
      BY <1>3, <1>4 DEF Carries
    <2>3. KeysHeld(u)'
      BY <1>3, <1>4, <2>1 DEF KeysHeld, Carries
    <2>4. CallInv(u)'
      <3>1. CASE thread'[u] = Idle
        BY <1>3, <1>4, <3>1 DEF CallInv, Storing
      <3>2. CASE thread'[u] # Idle
        <4>1. /\ thread'[u].call = thread[u].call /\ thread'[u].key = thread[u].key
              /\ thread'[u].at \in Storing => thread[u].at \in Storing
          BY <1>3, <3>2 DEF Carries
        <4>2. QED BY <1>3, <2>1, <2>2, <4>1 DEF CallInv
      <3>3. QED BY <3>1, <3>2
    <2>5. FoundInv(u)'
      <3>1. CASE thread'[u] = Idle
        BY <1>4, <3>1 DEF FoundInv
      <3>2. CASE thread'[u] # Idle
        <4>1. /\ thread'[u].found = thread[u].found /\ thread'[u].key = thread[u].key
              /\ thread'[u].ended = thread[u].ended
          BY <1>3, <3>2 DEF Carries
        <4>2. ASSUME NEW p \in thread[u].found
              PROVE  p[1] = thread[u].key /\ p[2] <= calls /\ Spent(p[2])'
          <5>1. p[1] = thread[u].key /\ p[2] <= calls /\ Spent(p[2])
            BY <2>1 DEF FoundInv
          <5>2. \A r : Spent(r) => Spent(r)'
            BY <1>2, SpentContinues
          <5>3. QED BY <5>1, <5>2
        <4>3. QED BY <1>3, <1>5, <2>1, <4>1, <4>2 DEF FoundInv
      <3>3. QED BY <3>1, <3>2
    <2>6. QED BY <2>3, <2>4, <2>5
  \* What is held was held, or is stored now and so was not invalidated.
  <1>7. ASSUME NEW u \in Threads
        PROVE  HeldInv(u, thread[u].pair)' /\ HeldInv(u, thread[u].result)'
    <2>1. HeldInv(u, thread[u].pair) /\ HeldInv(u, thread[u].result)
      BY DEF ServingInv
    <2>2. CASE u # t
      BY <1>3, <2>1, <2>2 DEF HeldInv
    <2>3. CASE u = t /\ thread'[t] = Idle
      BY <1>4, <2>3 DEF HeldInv
    <2>4. CASE u = t /\ Carries(t)
      <3>1. ASSUME NEW y, Read(t, y) PROVE HeldInv(t, y)
        <4>1. CASE y.key \in Keys /\ y.response = kv[y.key] /\ y.response # None
          <5>1. StoredInv(y.key)
            BY <4>1 DEF ServingInv
          <5>2. <<y.key, y.response>> \notin ended
            BY <4>1 DEF ServingInv, InvalidatedInv
          <5>3. thread[t].ended \subseteq ended
            BY DEF ServingInv, FoundInv
          <5>4. QED BY <4>1, <5>1, <5>2, <5>3 DEF HeldInv, StoredInv
        <4>2. QED BY <2>1, <2>4, <3>1, <4>1 DEF Read, HeldInv
      <3>2. thread'[t].ended = thread[t].ended
        BY <2>4 DEF Carries
      <3>3. HeldInv(t, thread'[t].pair) /\ HeldInv(t, thread'[t].result)
        BY <2>4, <3>1 DEF Carries
      <3>4. QED BY <1>3, <2>4, <3>2, <3>3 DEF HeldInv
    <2>5. QED BY <1>3, <2>2, <2>3, <2>4
  \* What is stored, and what was invalidated.
  <1>8. ASSUME NEW r, Spent(r) PROVE Spent(r)'
    BY <1>2, <1>8, SpentContinues
  <1>9. CASE UNCHANGED <<kv, ended>>
    <2>1. \A k \in Keys : StoredInv(k)'
      BY <1>3, <1>8, <1>9 DEF ServingInv, StoredInv
    <2>2. \A p \in ended' : InvalidatedInv(p)'
      BY <1>3, <1>8, <1>9 DEF ServingInv, InvalidatedInv
    <2>3. QED BY <1>2, <1>6, <1>7, <2>1, <2>2 DEF ServingInv
  <1>10. CASE StoreResponse(t)
    <2>1. PICK r : r = thread[t].call
      OBVIOUS
    <2>2. /\ r \in 1..calls /\ asked[r] = thread[t].key
          /\ Spent(r)'
          /\ \A p \in ended : p[2] # r
      BY <1>2, <1>10, <2>1, StoreSpends
    <2>3. /\ kv' = [kv EXCEPT ![thread[t].key] = r] /\ ended' = ended
          /\ kv \in [Keys -> 0..MaxCalls]
      BY <1>1, <1>10, <2>1 DEF StoreResponse, history, TypeOK
    <2>4. ASSUME NEW k \in Keys PROVE StoredInv(k)'
      <3>1. CASE k = thread[t].key
        <4>1. kv'[k] = r
          BY <2>3, <3>1
        <4>2. r <= calls
          BY <1>3, <2>2
        <4>3. QED BY <1>3, <2>2, <3>1, <4>1, <4>2 DEF StoredInv
      <3>2. CASE k # thread[t].key
        <4>1. kv'[k] = kv[k] /\ StoredInv(k)
          BY <2>3, <3>2 DEF ServingInv
        <4>2. QED BY <1>3, <1>8, <4>1 DEF StoredInv
      <3>3. QED BY <3>1, <3>2
    <2>5. ASSUME NEW p \in ended' PROVE InvalidatedInv(p)'
      <3>1. InvalidatedInv(p) /\ p[2] # r /\ p[1] \in Keys
        BY <1>1, <2>2, <2>3 DEF ServingInv, TypeOK, Responses
      <3>2. kv'[p[1]] # p[2]
        BY <2>3, <3>1 DEF InvalidatedInv
      <3>3. QED BY <1>3, <1>8, <3>1, <3>2 DEF InvalidatedInv
    <2>6. QED BY <1>2, <1>6, <1>7, <2>4, <2>5 DEF ServingInv
  <1>11. CASE DeleteResponse(t)
    <2>1. /\ kv' = [kv EXCEPT ![Dropped(t)] = None]
          /\ kv \in [Keys -> 0..MaxCalls]
      BY <1>1, <1>11 DEF DeleteResponse, TypeOK
    <2>2. \A k \in Keys : kv'[k] = None \/ kv'[k] = kv[k]
      BY <2>1
    <2>3. ASSUME NEW k \in Keys PROVE StoredInv(k)'
      BY <1>3, <1>8, <2>2 DEF ServingInv, StoredInv
    <2>4. ASSUME NEW p \in ended' PROVE InvalidatedInv(p)'
      <3>1. CASE p \in ended
        <4>1. InvalidatedInv(p) /\ p[1] \in Keys /\ p[2] # None
          BY <1>1, <3>1 DEF ServingInv, TypeOK, Responses, None
        <4>2. QED BY <1>3, <1>8, <2>2, <4>1 DEF InvalidatedInv
      <3>2. CASE p \notin ended
        <4>1. p \in thread[t].found /\ thread[t].victim = None
          BY <1>1, <1>11, <3>2, DeleteResponseCases
        <4>2. p[1] = thread[t].key /\ p[2] <= calls /\ Spent(p[2])
          BY <4>1 DEF ServingInv, FoundInv
        <4>3. p[1] \in Keys /\ p[2] # None
          BY <1>1, <4>1, ThreadFields DEF Responses, None
        <4>4. kv'[p[1]] = None
          BY <2>1, <4>1, <4>2, <4>3 DEF Dropped
        <4>5. QED BY <1>3, <1>8, <4>2, <4>3, <4>4 DEF InvalidatedInv
      <3>3. QED BY <3>1, <3>2
    <2>5. QED BY <1>2, <1>6, <1>7, <2>3, <2>4 DEF ServingInv
  <1>12. QED BY <1>9, <1>10, <1>11, ProgressStores

LEMMA NextServing == ServingInv /\ [Next]_vars => ServingInv'
  <1> SUFFICES ASSUME ServingInv, [Next]_vars PROVE ServingInv'
    OBVIOUS
  <1>1. CASE Next
    <2>1. PICK t \in Threads : \/ \E k \in Keys : Ask(t, k) \/ CallInvalidate(t, k)
                               \/ Progress(t)
      BY <1>1 DEF Next, Progress
    <2>2. ASSUME NEW k \in Keys, Ask(t, k) \/ CallInvalidate(t, k) PROVE ServingInv'
      BY <2>2, BeginsServing DEF Ask, CallInvalidate
    <2>3. CASE Progress(t)
      BY <2>3, ProgressServing
    <2>4. QED BY <2>1, <2>2, <2>3
  <1>2. CASE UNCHANGED vars
    <2>1. UNCHANGED <<kv, vectors, recency, records, decided, config, thread, calls,
                      faults, asked, ended>>
      BY <1>2 DEF vars, stores, counters, history
    <2>2. TypeOK'
      BY <2>1 DEF ServingInv, TypeOK
    <2>3. \A r : Spent(r) => Spent(r)'
      BY <2>1 DEF Spent
    <2>4. \A t \in Threads : KeysHeld(t)' /\ CallInv(t)' /\ FoundInv(t)'
      BY <2>1, <2>3 DEF ServingInv, KeysHeld, CallInv, FoundInv
    <2>5. \A t \in Threads :
             HeldInv(t, thread[t].pair)' /\ HeldInv(t, thread[t].result)'
      BY <2>1 DEF ServingInv, HeldInv
    <2>6. \A k \in Keys : StoredInv(k)'
      BY <2>1, <2>3 DEF ServingInv, StoredInv
    <2>7. \A p \in ended' : InvalidatedInv(p)'
      BY <2>1, <2>3 DEF ServingInv, InvalidatedInv
    <2>8. QED BY <2>2, <2>4, <2>5, <2>6, <2>7 DEF ServingInv
  <1>3. QED BY <1>1, <1>2

THEOREM ServingInductive == Spec => []ServingInv
  BY InitServing, NextServing, PTL DEF Spec

(***************************************************************************)
(* Every variable keeps its type, the records and decisions their bound,   *)
(* and the policy always has a candidate of the list it decides on.        *)
(***************************************************************************)
THEOREM TypeCorrect == Spec => []TypeOK
  <1>1. ServingInv => TypeOK
    BY DEF ServingInv
  <1>2. QED BY <1>1, ServingInductive, PTL

(***************************************************************************)
(* What CachedLLM serves was generated for the key the result names,       *)
(* whether the pair-level oracle or the query-level policy chose it.       *)
(***************************************************************************)
THEOREM ServedUnderKey == Spec => []ServedUnderItsKey
  <1>1. ServingInv => ServedUnderItsKey
    BY DEF ServingInv, HeldInv, ServedUnderItsKey, Served
  <1>2. QED BY <1>1, ServingInductive, PTL

(***************************************************************************)
(* A response that an invalidation found, and that returned, is served to  *)
(* no request that began after, whatever records and vectors still name it.*)
(***************************************************************************)
THEOREM InvalidatedStaysAway == Spec => []InvalidatedIsNotServed
  <1>1. ServingInv => InvalidatedIsNotServed
    BY DEF ServingInv, HeldInv, InvalidatedIsNotServed, Served
  <1>2. QED BY <1>1, ServingInductive, PTL

(***************************************************************************)
(* The last word of the policy                                             *)
(***************************************************************************)
LastWord(t) ==
    /\ thread[t].at = "looked_up"
    /\ config.mode = "active" /\ faults = 0
    /\ thread[t].result.source = "pair"
    => \/ thread[t].choice.status = "HIT" /\ config.on_kv_miss
       \/ thread[t].choice.status \in {"MISS", "ABSTAIN"} /\ config.on_abstain
       \/ thread[t].choice.status = "ABSTAIN" /\ config.on_missing_record

LEMMA FallsBackLastWord ==
  ASSUME TypeOK, NEW t \in Threads, NEW allowed, NEW choice \in ChoiceType,
         FallsBack(t, allowed, choice)
  PROVE  /\ thread'[t].choice = choice
         /\ thread'[t].result.source = "pair" => allowed
  <1> DEFINE y == IF allowed THEN thread[t].pair ELSE Nothing
             x == [thread[t] EXCEPT !.at = "looked_up", !.choice = choice, !.result = y]
  <1>1. thread'[t] = x
    BY DEF FallsBack, Becomes, TypeOK
  <1>2. ~allowed => y.source = "none"
    BY DEF Nothing
  <1> HIDE DEF y
  <1>3. x.choice = choice /\ x.result = y
    BY ThreadFields DEF ThreadType
  <1>4. QED BY <1>1, <1>2, <1>3

\* A thread comes to "looked_up" by a decision of the policy alone.
LEMMA OtherPoints ==
  ASSUME TypeOK, NEW t \in Threads, Pair(t) \/ Put(t) \/ GenerationFails(t)
  PROVE  thread'[t].at # "looked_up"
  <1>1. ASSUME NEW at \in Points \ {"looked_up"}, Moves(t, at)
        PROVE  thread'[t].at # "looked_up"
    <2>1. [thread[t] EXCEPT !.at = at] \in ThreadType
          /\ [thread[t] EXCEPT !.at = at].at = at
      BY ThreadFields DEF ThreadType
    <2>2. QED BY <1>1, <2>1, BecomesType DEF Moves
  <1>2. CASE Returns(t)
    BY <1>2, IdleType, BecomesType DEF Returns, Idle
  <1>3. CASE Search(t)
    <2>1. PICK x : Becomes(t, x) /\ x.at = "searched"
      <3>1. PICK c \in Found :
              \E accepted \in {None} \cup {c[i].key : i \in DOMAIN c} :
                 Becomes(t, [thread[t] EXCEPT
                    !.at = "searched", !.candidates = c,
                    !.pair = [Nothing EXCEPT !.accepted = accepted # None,
                                             !.key = accepted]])
        BY <1>3 DEF Search
      <3>2. PICK y :
              Becomes(t, [thread[t] EXCEPT
                 !.at = "searched", !.candidates = c, !.pair = y])
        BY <3>1
      <3>3. [thread[t] EXCEPT !.at = "searched", !.candidates = c, !.pair = y].at
              = "searched"
        BY ThreadFields DEF ThreadType
      <3>4. QED BY <3>2, <3>3
    <2>2. thread'[t] = x
      BY <2>1 DEF Becomes, TypeOK
    <2>3. QED BY <2>1, <2>2
  <1>4. CASE GetResponse(t)
    <2> DEFINE at == IF kv[thread[t].pair.key] = None THEN "missing" ELSE "hit"
               y == [thread[t].pair EXCEPT !.response = kv[thread[t].pair.key],
                                           !.source = "pair"]
               x == [thread[t] EXCEPT !.at = at, !.pair = y]
    <2>1. Becomes(t, x)
      BY <1>4, ThreadFields DEF GetResponse, ThreadType, ResultType
    <2>2. thread'[t] = x
      BY <2>1 DEF Becomes, TypeOK
    <2>3. at # "looked_up"
      OBVIOUS
    <2> HIDE DEF at, y
    <2>4. x.at = at
      BY ThreadFields DEF ThreadType
    <2>5. QED BY <2>2, <2>3, <2>4
  <1>5. CASE Becomes(t, [thread[t] EXCEPT !.at = "removing", !.victim = Head(recency)])
    <2> DEFINE v == Head(recency)
               x == [thread[t] EXCEPT !.at = "removing", !.victim = v]
    <2>1. thread'[t] = x
      BY <1>5 DEF Becomes, TypeOK
    <2> HIDE DEF v
    <2>2. x.at = "removing"
      BY ThreadFields DEF ThreadType
    <2>3. QED BY <2>1, <2>2
  <1>6. CASE DeleteResponse(t)
    <2> DEFINE x == [thread[t] EXCEPT !.at = "tracked", !.victim = None]
    <2>1. CASE Becomes(t, x)
      <3>1. thread'[t] = x
        BY <2>1 DEF Becomes, TypeOK
      <3>2. x.at = "tracked"
        BY ThreadFields DEF ThreadType
      <3>3. QED BY <3>1, <3>2
    <2>2. QED BY <1>2, <1>6, <2>1, DeleteResponseCases
  <1>7. CASE CheckCapacity(t)
    BY <1>2, <1>5, <1>7 DEF CheckCapacity
  <1>8. CASE Serve(t) \/ GenerationFails(t)
    BY <1>2, <1>8 DEF Serve, GenerationFails
  <1>9. CASE \/ Collect(t) \/ TouchEntry(t) \/ ForgetEntry(t) \/ RemoveForgotten(t)
             \/ Generate(t) \/ StoreResponse(t) \/ IndexEntry(t) \/ TrackEntry(t)
             \/ ForgetDropped(t) \/ UnindexDropped(t)
    <2>1. PICK at \in {"accepted", "paired", "forgotten", "generated", "stored",
                       "indexed", "tracked", "untracked", "unindexed"} : Moves(t, at)
      BY <1>9 DEF Collect, TouchEntry, ForgetEntry, RemoveForgotten, Generate,
                  StoreResponse, IndexEntry, TrackEntry, ForgetDropped, UnindexDropped
    <2>2. at \in Points \ {"looked_up"}
      BY <2>1 DEF Points
    <2>3. QED BY <1>1, <2>1, <2>2
  <1>10. QED
    BY <1>3, <1>4, <1>6, <1>7, <1>8, <1>9 DEF Pair, Put

LEMMA LastWordReached ==
  ASSUME TypeOK, NEW t \in Threads, KeysHeld(t), Progress(t)
  PROVE  LastWord(t)'
  <1>1. SUFFICES ASSUME thread'[t].at = "looked_up", config'.mode = "active",
                        faults' = 0, thread'[t].result.source = "pair"
        PROVE  \/ thread'[t].choice.status = "HIT" /\ config'.on_kv_miss
               \/ thread'[t].choice.status \in {"MISS", "ABSTAIN"} /\ config'.on_abstain
               \/ thread'[t].choice.status = "ABSTAIN" /\ config'.on_missing_record
    BY DEF LastWord
  <1>2. CASE Pair(t) \/ Put(t) \/ GenerationFails(t)
    BY <1>1, <1>2, OtherPoints
  <1>3. CASE EvaluateActive(t)
    <2>1. config' = config
      BY <1>3 DEF EvaluateActive, counters
    <2>2. CASE MissingRecord(t)
      <3>1. NoChoice \in ChoiceType /\ NoChoice.status = "ABSTAIN"
        BY IdleType DEF NoChoice
      <3>2. thread'[t].choice = NoChoice /\ config.on_missing_record
        BY <1>1, <2>2, <3>1, FallsBackLastWord DEF MissingRecord
      <3>3. QED BY <2>1, <3>1, <3>2
    <2>3. ASSUME NEW choice \in ChoiceType, choice.status # "HIT", NotAccepted(t, choice)
          PROVE  /\ thread'[t].choice.status \in {"MISS", "ABSTAIN"}
                 /\ config'.on_abstain
      <3>1. thread'[t].choice = choice /\ config.on_abstain
        BY <1>1, <2>3, FallsBackLastWord DEF NotAccepted
      <3>2. choice.status \in {"MISS", "ABSTAIN"}
        BY <2>3 DEF ChoiceType
      <3>3. QED BY <2>1, <3>1, <3>2
    <2>4. ASSUME NEW choice \in ChoiceType,
                 Becomes(t, [thread[t] EXCEPT !.at = "chosen", !.choice = choice])
          PROVE  FALSE
      <3> DEFINE x == [thread[t] EXCEPT !.at = "chosen", !.choice = choice]
      <3>1. thread'[t] = x
        BY <2>4 DEF Becomes, TypeOK
      <3>2. x.at = "chosen"
        BY ThreadFields DEF ThreadType
      <3>3. QED BY <1>1, <3>1, <3>2
    <2>5. QED BY <1>3, <2>2, <2>3, <2>4, EvaluateActiveCases
  <1>4. CASE GetSelected(t)
    <2>1. thread[t].choice.key \in Keys
      BY <1>4 DEF GetSelected, At, KeysHeld
    <2>2. CASE Moves(t, "key_missing")
      <3> DEFINE x == [thread[t] EXCEPT !.at = "key_missing"]
      <3>1. thread'[t] = x
        BY <2>2 DEF Moves, Becomes, TypeOK
      <3>2. x.at = "key_missing"
        BY ThreadFields DEF ThreadType
      <3>3. QED BY <1>1, <3>1, <3>2
    <2>3. CASE ~Moves(t, "key_missing")
      <3> DEFINE y == [accepted |-> TRUE, key |-> thread[t].choice.key,
                       response |-> kv[thread[t].choice.key], source |-> "query"]
                 x == [thread[t] EXCEPT !.at = "looked_up", !.result = y]
      <3>1. Becomes(t, x)
        BY <1>4, <2>1, <2>3, GetSelectedCases
      <3>2. thread'[t] = x
        BY <3>1 DEF Becomes, TypeOK
      <3>3. y.source = "query"
        OBVIOUS
      <3> HIDE DEF y
      <3>4. x.result = y
        BY ThreadFields DEF ThreadType
      <3>5. QED BY <1>1, <3>2, <3>3, <3>4
    <2>4. QED BY <2>2, <2>3
  <1>5. CASE RemoveSelected(t)
    <2>1. /\ thread[t].choice \in ChoiceType /\ thread[t].choice.status = "HIT"
          /\ FallsBack(t, config.on_kv_miss, thread[t].choice) /\ config' = config
      BY <1>5, ThreadFields
      DEF RemoveSelected, ResponseMissing, At, KeysHeld, counters
    <2>2. thread'[t].choice = thread[t].choice /\ config.on_kv_miss
      BY <1>1, <2>1, FallsBackLastWord
    <2>3. QED BY <2>1, <2>2
  <1>6. CASE EvaluateShadow(t)
    BY <1>1, <1>6 DEF EvaluateShadow, counters
  <1>7. CASE EvaluationFails(t)
    BY <1>1, <1>7 DEF EvaluationFails, TypeOK
  <1>8. QED
    BY <1>2, <1>3, <1>4, <1>5, <1>6, <1>7 DEF Progress, Step, Query

LEMMA NextLastWord ==
  ASSUME ServingInv, \A t \in Threads : LastWord(t), [Next]_vars
  PROVE  \A t \in Threads : LastWord(t)'
  <1> SUFFICES ASSUME NEW u \in Threads PROVE LastWord(u)'
    OBVIOUS
  <1>1. TypeOK /\ \A t \in Threads : KeysHeld(t)
    BY DEF ServingInv
  <1>2. CASE UNCHANGED vars
    BY <1>2 DEF vars, counters, LastWord
  <1>3. ASSUME NEW t \in Threads, NEW k \in Keys, Ask(t, k) \/ CallInvalidate(t, k)
        PROVE  LastWord(u)'
    <2>1. PICK at \in {"asked", "removing"} : Begins(t, k, at)
      BY <1>3 DEF Ask, CallInvalidate
    <2>2. /\ at \in Points /\ at # "looked_up"
          /\ config' = config /\ faults' = faults
      BY <2>1 DEF Points, Begins
    <2>3. /\ thread'[t].at = at
          /\ \A v \in Threads : v # t => thread'[v] = thread[v]
      BY <1>1, <2>1, <2>2, BeginsFields
    <2>4. QED BY <2>2, <2>3 DEF LastWord
  <1>4. ASSUME NEW t \in Threads, Progress(t)
        PROVE  LastWord(u)'
    <2>1. CASE u = t
      BY <1>1, <1>4, <2>1, LastWordReached
    <2>2. CASE u # t
      <3>1. thread'[u] = thread[u]
        BY <1>1, <1>4, <2>2, ProgressContinues DEF Continues
      <3>2. config' = config /\ (faults' = 0 => faults = 0)
        <4>1. CASE Pair(t)
          BY <4>1 DEF Pair, Search, Collect, GetResponse, TouchEntry, ForgetEntry,
                      RemoveForgotten, counters
        <4>2. CASE Query(t)
          BY <4>2 DEF Query, EvaluateActive, GetSelected, RemoveSelected,
                      EvaluateShadow, counters
        <4>3. CASE Put(t)
          BY <4>3 DEF Put, Serve, Generate, StoreResponse, IndexEntry, TrackEntry,
                      CheckCapacity, ForgetDropped, UnindexDropped, DeleteResponse,
                      counters
        <4>4. CASE EvaluationFails(t) \/ GenerationFails(t)
          <5>1. config' = config
            BY <4>4 DEF EvaluationFails, GenerationFails
          <5>2. faults' = faults + 1
            BY <4>4 DEF EvaluationFails, GenerationFails
          <5>3. faults \in Nat
            BY <1>1 DEF TypeOK
          <5>4. QED BY <5>1, <5>2, <5>3
        <4>5. QED BY <1>4, <4>1, <4>2, <4>3, <4>4 DEF Progress, Step
      <3>3. QED BY <3>1, <3>2 DEF LastWord
    <2>3. QED BY <2>1, <2>2
  <1>5. QED BY <1>2, <1>3, <1>4 DEF Next, Progress

(***************************************************************************)
(* In active mode the pair-level decision is served only where the         *)
(* configuration names the case, unless a store raised.                    *)
(***************************************************************************)
THEOREM PolicyDecides == Spec => []PolicyHasLastWord
  <1> DEFINE Inv == \A t \in Threads : LastWord(t)
  <1>1. Init => Inv
    BY DEF Init, Idle, LastWord
  <1>2. ServingInv /\ Inv /\ [Next]_vars => Inv'
    BY NextLastWord
  <1>3. Inv => PolicyHasLastWord
    BY DEF LastWord, PolicyHasLastWord, At
  <1> HIDE DEF Inv
  <1>4. QED BY <1>1, <1>2, <1>3, ServingInductive, PTL DEF Spec
=============================================================================
