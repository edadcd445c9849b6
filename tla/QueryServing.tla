----------------------------- MODULE QueryServing -----------------------------
(***************************************************************************)
(* A request from end to end: CachedLLM asks the runtime, the runtime its  *)
(* gateway and, in active mode, the query-level policy, which decides on a *)
(* stored record of the query instead of on what was just retrieved and    *)
(* takes the response by its key, past the vector store.  What is not      *)
(* served is generated and put.  Threads share everything; a step is one   *)
(* call of a store, of the policy or of the LLM.                           *)
(*                                                                         *)
(* A prompt is its cache key, as _cache_key_for derives one from the other.*)
(* A response is the number of the generation it came from.  A score is    *)
(* compared with Threshold; the pair-level oracle accepts what it likes.   *)
(* Eviction is by recency; the other policies are in CacheGateway.         *)
(***************************************************************************)
EXTENDS Integers, Sequences, FiniteSets, SequencesExt

CONSTANTS
    Keys,        \* prompts and their cache keys
    Threads,
    Configs,     \* MLCacheRuntimeConfig.query_level, and whether records are collected
    TopK,        \* candidates of a search
    Scores,
    Threshold,   \* of the query-level policy, compared as TieMode.GE does
    MaxRecords,  \* max_records of the record store
    MaxEntries,  \* max_entries of the gateway
    MaxCalls,    \* bound: requests and invalidations
    MaxFaults    \* bound: exceptions out of the record store or the LLM

ConfigType == [mode : {"disabled", "shadow", "active"}, collects : BOOLEAN,
               on_missing_record : BOOLEAN, on_abstain : BOOLEAN, on_kv_miss : BOOLEAN]

ASSUME ServingAssumption ==
    /\ Keys # {}
    /\ IsFiniteSet(Threads)
    /\ Configs \subseteq ConfigType
    /\ Scores \subseteq Int
    /\ Threshold \in Int
    /\ TopK \in Nat \ {0}
    /\ MaxRecords \in Nat \ {0}
    /\ MaxEntries \in Nat \ {0}
    /\ MaxCalls \in Nat
    /\ MaxFaults \in Nat

VARIABLES
    config,   \* fixed at construction
    kv,       \* kv_store: the response of each key, 0 for none
    vectors,  \* keys in the vector store
    recency,  \* keys the eviction policy tracks, least recently used first
    records,  \* query calibration records, oldest first
    decided,  \* query_level_shadow_store: decisions, oldest first
    thread,   \* the call each thread is in
    calls,    \* calls begun so far: also numbers the generations
    faults,   \* exceptions so far
    asked,    \* history: the key of every call
    ended     \* history: responses an invalidation that returned had found

stores == <<kv, vectors, recency>>
counters == <<config, calls, faults>>
history == <<asked, ended>>
vars == <<stores, records, decided, thread, counters, history>>

None == 0
Nothing == [accepted |-> FALSE, key |-> None, response |-> None, source |-> "none"]
NoChoice == [status |-> "ABSTAIN", key |-> None]
AnyKey == CHOOSE k \in Keys : TRUE
Idle == [at |-> "idle", key |-> AnyKey, call |-> 0, candidates |-> <<>>,
         pair |-> Nothing, choice |-> NoChoice, result |-> Nothing,
         victim |-> None, found |-> {}, ended |-> {}]

Init ==
    /\ config \in Configs
    /\ kv = [k \in Keys |-> None]
    /\ vectors = {}
    /\ recency = <<>>
    /\ records = <<>>
    /\ decided = <<>>
    /\ thread = [t \in Threads |-> Idle]
    /\ calls = 0
    /\ faults = 0
    /\ asked = <<>>
    /\ ended = {}

At(t, point) == thread[t].at = point
Becomes(t, changed) == thread' = [thread EXCEPT ![t] = changed]
Moves(t, point) == Becomes(t, [thread[t] EXCEPT !.at = point])
Returns(t) == Becomes(t, Idle)

\* A bounded list drops its oldest item first.
Kept(list, item, max) == Append(IF Len(list) >= max THEN Tail(list) ELSE list, item)

\* The order of the policy without k, which it holds at most once.
Without(k) ==
    LET at == {i \in DOMAIN recency : recency[i] = k}
    IN  IF at = {} THEN recency ELSE RemoveAt(recency, CHOOSE i \in at : TRUE)

Untrack(k) == recency' = Without(k)
Track(k) == recency' = Append(Without(k), k)

Begins(t, k, point) ==
    /\ At(t, "idle")
    /\ calls < MaxCalls
    /\ calls' = calls + 1
    /\ asked' = Append(asked, k)
    /\ Becomes(t, [Idle EXCEPT !.at = point, !.key = k, !.call = calls + 1,
                               !.found = IF kv[k] = None THEN {} ELSE {<<k, kv[k]>>},
                               !.ended = ended])
    /\ UNCHANGED <<stores, records, decided, config, faults, ended>>

(***************************************************************************)
(* The pair-level lookup: MLCacheRuntime calls its gateway, it the oracle  *)
(***************************************************************************)
Ask(t, k) == Begins(t, k, "asked")

Ranked(c) == \A i, j \in DOMAIN c : i < j => c[i].score >= c[j].score

\* What a search may find: the nearest keys, best first.
Found ==
    LET n == IF Cardinality(vectors) < TopK THEN Cardinality(vectors) ELSE TopK
    IN  {c \in [1..n -> [key : vectors, score : Scores]] :
            /\ \A i, j \in 1..n : i # j => c[i].key # c[j].key
            /\ Ranked(c)}

\* One candidate may be accepted, none while hits are disabled.
Search(t) ==
    /\ At(t, "asked")
    /\ \E c \in Found :
       \E accepted \in {None} \cup {c[i].key : i \in DOMAIN c} :
          Becomes(t, [thread[t] EXCEPT
                         !.at = "searched", !.candidates = c,
                         !.pair = [Nothing EXCEPT !.accepted = accepted # None,
                                                  !.key = accepted]])
    /\ UNCHANGED <<stores, records, decided, counters, history>>

\* _maybe_store_query_record, called by the oracle before it answers.
Collect(t) ==
    /\ At(t, "searched")
    /\ records' = IF config.collects
                  THEN Kept(records, [query |-> thread[t].key,
                                      candidates |-> thread[t].candidates], MaxRecords)
                  ELSE records
    /\ Moves(t, IF thread[t].pair.accepted THEN "accepted" ELSE "paired")
    /\ UNCHANGED <<stores, decided, counters, history>>

GetResponse(t) ==
    /\ At(t, "accepted")
    /\ LET r == kv[thread[t].pair.key]
       IN  Becomes(t, [thread[t] EXCEPT
                          !.at = IF r = None THEN "missing" ELSE "hit",
                          !.pair.response = r, !.pair.source = "pair"])
    /\ UNCHANGED <<stores, records, decided, counters, history>>

TouchEntry(t) ==
    /\ At(t, "hit")
    /\ IF Contains(recency, thread[t].pair.key)
       THEN Track(thread[t].pair.key) ELSE UNCHANGED recency
    /\ Moves(t, "paired")
    /\ UNCHANGED <<kv, vectors, records, decided, counters, history>>

ForgetEntry(t) ==
    /\ At(t, "missing")
    /\ Untrack(thread[t].pair.key)
    /\ Moves(t, "forgotten")
    /\ UNCHANGED <<kv, vectors, records, decided, counters, history>>

RemoveForgotten(t) ==
    /\ At(t, "forgotten")
    /\ vectors' = vectors \ {thread[t].pair.key}
    /\ Moves(t, "paired")
    /\ UNCHANGED <<kv, recency, records, decided, counters, history>>

(***************************************************************************)
(* The query-level policy                                                  *)
(***************************************************************************)

\* _latest_query_calibration_record
RecordsOf(k) == {i \in DOMAIN records : records[i].query = k}
LatestRecord(k) ==
    IF RecordsOf(k) = {} THEN {}
    ELSE {records[CHOOSE i \in RecordsOf(k) : \A j \in RecordsOf(k) : j <= i]}

\* select_max_score: of the best, the one ranked first.
Selected(c) ==
    c[CHOOSE i \in DOMAIN c :
        \A j \in DOMAIN c : c[j].score < c[i].score
                            \/ (c[j].score = c[i].score /\ i <= j)]

Evaluate(c) ==
    IF c = <<>> THEN NoChoice
    ELSE [status |-> IF Selected(c).score >= Threshold THEN "HIT" ELSE "MISS",
          key |-> Selected(c).key]

\* _fallback_pair_level_result, or no response.
FallsBack(t, allowed, choice) ==
    Becomes(t, [thread[t] EXCEPT
                   !.at = "looked_up", !.choice = choice,
                   !.result = IF allowed THEN thread[t].pair ELSE Nothing])

\* _query_level_active_no_record_or_policy_result.
MissingRecord(t) == FallsBack(t, config.on_missing_record, NoChoice)

\* _query_level_active_rejected_or_abstained_result.
NotAccepted(t, choice) == FallsBack(t, config.on_abstain, choice)

\* _query_level_active_kv_miss_result.
ResponseMissing(t) == FallsBack(t, config.on_kv_miss, thread[t].choice)

\* Mutant: a decision against the candidate falls back like any other.
EvaluateFallsBack(t) ==
    /\ At(t, "paired")
    /\ config.mode = "active"
    /\ \/ /\ LatestRecord(thread[t].key) = {}
          /\ MissingRecord(t)
       \/ \E r \in LatestRecord(thread[t].key) :
             IF Evaluate(r.candidates).status = "HIT"
             THEN Becomes(t, [thread[t] EXCEPT !.at = "chosen",
                                               !.choice = Evaluate(r.candidates)])
             ELSE FallsBack(t, config.on_missing_record, Evaluate(r.candidates))
    /\ UNCHANGED <<stores, records, decided, counters, history>>

\* _lookup_with_query_level_active, up to the response.
EvaluateActive(t) ==
    /\ At(t, "paired")
    /\ config.mode = "active"
    /\ \/ /\ LatestRecord(thread[t].key) = {}
          /\ MissingRecord(t)
       \/ \E r \in LatestRecord(thread[t].key) :
             IF Evaluate(r.candidates).status = "HIT"
             THEN Becomes(t, [thread[t] EXCEPT !.at = "chosen",
                                               !.choice = Evaluate(r.candidates)])
             ELSE NotAccepted(t, Evaluate(r.candidates))
    /\ UNCHANGED <<stores, records, decided, counters, history>>

\* The record or the response store raises: the pair-level result whatever the configuration.
EvaluationFails(t) ==
    /\ At(t, "paired") \/ At(t, "chosen")
    /\ config.mode # "disabled"
    /\ faults < MaxFaults
    /\ faults' = faults + 1
    /\ FallsBack(t, TRUE, thread[t].choice)
    /\ UNCHANGED <<stores, records, decided, config, calls, history>>

\* Mutant: the response of one decision with the key of the other.
GetSelectedMixed(t) ==
    /\ At(t, "chosen")
    /\ LET k == thread[t].choice.key
           r == IF thread[t].pair.response # None THEN thread[t].pair.response ELSE kv[k]
       IN  IF r = None THEN Moves(t, "key_missing")
           ELSE Becomes(t, [thread[t] EXCEPT
                               !.at = "looked_up",
                               !.result = [accepted |-> TRUE, key |-> k, response |-> r,
                                           source |-> "query"]])
    /\ UNCHANGED <<stores, records, decided, counters, history>>

\* kv_store.get of the selected key.  The eviction policy hears nothing of it.
GetSelected(t) ==
    /\ At(t, "chosen")
    /\ LET k == thread[t].choice.key
       IN  IF kv[k] = None THEN Moves(t, "key_missing")
           ELSE Becomes(t, [thread[t] EXCEPT
                               !.at = "looked_up",
                               !.result = [accepted |-> TRUE, key |-> k,
                                           response |-> kv[k], source |-> "query"]])
    /\ UNCHANGED <<stores, records, decided, counters, history>>

\* _remove_query_level_kv_miss_candidate: from the vector store alone.
RemoveSelected(t) ==
    /\ At(t, "key_missing")
    /\ vectors' = vectors \ {thread[t].choice.key}
    /\ ResponseMissing(t)
    /\ UNCHANGED <<kv, recency, records, decided, counters, history>>

\* Without active mode the result is the gateway's; a shadow decision is noted.
EvaluateShadow(t) ==
    /\ At(t, "paired")
    /\ config.mode # "active"
    /\ FallsBack(t, TRUE, thread[t].choice)
    /\ IF config.mode = "shadow" /\ LatestRecord(thread[t].key) # {}
       THEN \E r \in LatestRecord(thread[t].key) :
               decided' = Kept(decided, Evaluate(r.candidates), MaxRecords)
       ELSE UNCHANGED decided
    /\ UNCHANGED <<stores, records, counters, history>>

(***************************************************************************)
(* CachedLLM.generate: serve, or generate and put                          *)
(***************************************************************************)
Served(t) == thread[t].result.accepted /\ thread[t].result.response # None

Serve(t) ==
    /\ At(t, "looked_up")
    /\ Served(t)
    /\ Returns(t)
    /\ UNCHANGED <<stores, records, decided, counters, asked, ended>>

Generate(t) ==
    /\ At(t, "looked_up")
    /\ ~Served(t)
    /\ Moves(t, "generated")
    /\ UNCHANGED <<stores, records, decided, counters, history>>

GenerationFails(t) ==
    /\ At(t, "looked_up")
    /\ ~Served(t)
    /\ faults < MaxFaults
    /\ faults' = faults + 1
    /\ Returns(t)
    /\ UNCHANGED <<stores, records, decided, config, calls, history>>

StoreResponse(t) ==
    /\ At(t, "generated")
    /\ kv' = [kv EXCEPT ![thread[t].key] = thread[t].call]
    /\ Moves(t, "stored")
    /\ UNCHANGED <<vectors, recency, records, decided, counters, history>>

IndexEntry(t) ==
    /\ At(t, "stored")
    /\ vectors' = vectors \cup {thread[t].key}
    /\ Moves(t, "indexed")
    /\ UNCHANGED <<kv, recency, records, decided, counters, history>>

TrackEntry(t) ==
    /\ At(t, "indexed")
    /\ Track(thread[t].key)
    /\ Moves(t, "tracked")
    /\ UNCHANGED <<kv, vectors, records, decided, counters, asked, ended>>

\* _enforce_capacity
CheckCapacity(t) ==
    /\ At(t, "tracked")
    /\ IF Len(recency) > MaxEntries
       THEN Becomes(t, [thread[t] EXCEPT !.at = "removing", !.victim = Head(recency)])
       ELSE Returns(t)
    /\ UNCHANGED <<stores, records, decided, counters, history>>

(***************************************************************************)
(* invalidate: of the caller, or of the victim of a put                    *)
(***************************************************************************)
CallInvalidate(t, k) == Begins(t, k, "removing")

Dropped(t) == IF thread[t].victim = None THEN thread[t].key ELSE thread[t].victim

ForgetDropped(t) ==
    /\ At(t, "removing")
    /\ Untrack(Dropped(t))
    /\ Moves(t, "untracked")
    /\ UNCHANGED <<kv, vectors, records, decided, counters, history>>

UnindexDropped(t) ==
    /\ At(t, "untracked")
    /\ vectors' = vectors \ {Dropped(t)}
    /\ Moves(t, "unindexed")
    /\ UNCHANGED <<kv, recency, records, decided, counters, history>>

\* Mutant: what cannot be found any more need not be deleted.
DeleteNothing(t) ==
    /\ At(t, "unindexed")
    /\ IF thread[t].victim = None
       THEN Returns(t) /\ ended' = ended \cup thread[t].found
       ELSE Becomes(t, [thread[t] EXCEPT !.at = "tracked", !.victim = None])
            /\ UNCHANGED ended
    /\ UNCHANGED <<stores, records, decided, counters, asked>>

DeleteResponse(t) ==
    /\ At(t, "unindexed")
    /\ kv' = [kv EXCEPT ![Dropped(t)] = None]
    /\ IF thread[t].victim = None
       THEN Returns(t) /\ ended' = ended \cup thread[t].found
       ELSE Becomes(t, [thread[t] EXCEPT !.at = "tracked", !.victim = None])
            /\ UNCHANGED ended
    /\ UNCHANGED <<vectors, recency, records, decided, counters, asked>>

Pair(t) ==
    \/ Search(t) \/ Collect(t) \/ GetResponse(t) \/ TouchEntry(t)
    \/ ForgetEntry(t) \/ RemoveForgotten(t)
Query(t) == EvaluateActive(t) \/ GetSelected(t) \/ RemoveSelected(t) \/ EvaluateShadow(t)
Put(t) ==
    \/ Serve(t) \/ Generate(t) \/ StoreResponse(t) \/ IndexEntry(t) \/ TrackEntry(t)
    \/ CheckCapacity(t) \/ ForgetDropped(t) \/ UnindexDropped(t) \/ DeleteResponse(t)

Step(t) == Pair(t) \/ Query(t) \/ Put(t)

Next ==
    \E t \in Threads :
        \/ \E k \in Keys : Ask(t, k) \/ CallInvalidate(t, k)
        \/ Step(t) \/ EvaluationFails(t) \/ GenerationFails(t)

Spec == Init /\ [][Next]_vars

(***************************************************************************)
(* Properties                                                              *)
(***************************************************************************)
Points == {"idle", "asked", "searched", "accepted", "hit", "missing", "forgotten",
           "paired", "chosen", "key_missing", "looked_up", "generated", "stored",
           "indexed", "tracked", "removing", "untracked", "unindexed"}
ResultType == [accepted : BOOLEAN, key : Keys \cup {None}, response : 0..MaxCalls,
               source : {"none", "pair", "query"}]
ChoiceType == [status : {"HIT", "MISS", "ABSTAIN"}, key : Keys \cup {None}]
CandidateLists ==
    {c \in UNION {[1..n -> [key : Keys, score : Scores]] : n \in 0..TopK} : Ranked(c)}
RecordType == [query : Keys, candidates : CandidateLists]
Responses == Keys \X (1..MaxCalls)
ThreadType == [at : Points, key : Keys, call : 0..MaxCalls, candidates : CandidateLists,
               pair : ResultType, choice : ChoiceType, result : ResultType,
               victim : Keys \cup {None}, found : SUBSET Responses,
               ended : SUBSET Responses]

\* Every variable has its type, and the stores of records their bound.
TypeOK ==
    /\ config \in Configs
    /\ kv \in [Keys -> 0..MaxCalls]
    /\ vectors \subseteq Keys /\ IsFiniteSet(vectors)
    /\ recency \in Seq(Keys)
    /\ records \in Seq(RecordType) /\ Len(records) <= MaxRecords
    /\ decided \in Seq(ChoiceType) /\ Len(decided) <= MaxRecords
    /\ thread \in [Threads -> ThreadType]
    /\ calls \in 0..MaxCalls
    /\ faults \in 0..MaxFaults
    /\ asked \in Seq(Keys) /\ Len(asked) = calls
    /\ ended \subseteq Responses

\* A response was generated for the key it is reported with, whichever of the two
\* decisions was taken in the end.
ServedUnderItsKey ==
    \A t \in Threads :
        At(t, "looked_up") /\ Served(t) =>
            asked[thread[t].result.response] = thread[t].result.key

\* In active mode the policy has the last word: the pair-level decision is served
\* only where the configuration lets it, or after an exception.
PolicyHasLastWord ==
    \A t \in Threads :
        /\ At(t, "looked_up") /\ Served(t)
        /\ config.mode = "active" /\ faults = 0
        /\ thread[t].result.source = "pair"
        => \/ thread[t].choice.status = "HIT" /\ config.on_kv_miss
           \/ thread[t].choice.status \in {"MISS", "ABSTAIN"} /\ config.on_abstain
           \/ thread[t].choice.status = "ABSTAIN" /\ config.on_missing_record

\* What an invalidation found is not served by a request that began after the
\* invalidation had returned, although a record may name its key for ever.
InvalidatedIsNotServed ==
    \A t \in Threads :
        At(t, "looked_up") /\ Served(t) =>
            <<thread[t].result.key, thread[t].result.response>> \notin thread[t].ended
=============================================================================
