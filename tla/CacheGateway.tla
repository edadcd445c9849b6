---------------------------- MODULE CacheGateway ----------------------------
(***************************************************************************)
(* SemanticCacheGateway over local stores: a response store, a vector      *)
(* store and an eviction policy that no lock keeps together.  Threads look *)
(* up, put and invalidate; a put evicts while the policy tracks too many   *)
(* entries.  With file stores the process may stop and start again: what   *)
(* is stored comes back, what the policy knew does not.                    *)
(*                                                                         *)
(* A step is one call of a store or of the policy.  An entry is its key:   *)
(* responses and embeddings are left out, and so is a lookup that accepts  *)
(* no candidate, which changes nothing here.  insertion_order and          *)
(* last_access_tick are drawn from one clock, as only their order matters. *)
(***************************************************************************)
EXTENDS Naturals, FiniteSets, Sequences

CONSTANTS
    Keys,
    Threads,
    Policies,    \* eviction policies the gateway may be built with
    MaxEntries,  \* max_entries, not None
    MaxCalls,    \* bound: calls of the gateway
    MaxRestarts  \* bound: restarts of the process

ASSUME GatewayAssumption ==
    /\ Keys # {}
    /\ IsFiniteSet(Threads)
    /\ Policies \subseteq {"lru", "lfu", "fifo"}
    /\ MaxEntries \in Nat \ {0}
    /\ MaxCalls \in Nat
    /\ MaxRestarts \in Nat

VARIABLES
    policy,   \* name of the eviction policy, fixed at construction
    kv,       \* keys with a response in kv_store
    vectors,  \* keys in the oracle's vector store
    tracked,  \* keys in the policy's _entries
    meta,     \* EvictionEntryMetadata of the tracked keys
    thread,   \* one call per thread: where it is, for which key
    calls,    \* calls so far
    restarts, \* restarts so far
    log,      \* history: inserts and hits the policy was told of
    excused   \* history: puts that raised since the last one that returned

vars == <<policy, kv, vectors, tracked, meta, thread, calls, restarts, log,
          excused>>
stores == <<kv, vectors>>
bookkeeping == <<tracked, meta, log>>
counters == <<policy, calls, restarts, excused>>

\* put: stored (in kv), indexed, tracked, full (one entry too many).
\* invalidate: removing, untracked, unindexed.  put: whether it is the one a
\* put makes for its victim.  lookup: accepted, hit, missing, forgotten.
Points == {"idle", "stored", "indexed", "tracked", "full", "removing",
           "untracked", "unindexed", "accepted", "hit", "missing", "forgotten"}

AnyKey == CHOOSE k \in Keys : TRUE
Idle == [at |-> "idle", key |-> AnyKey, put |-> FALSE]
NoMeta == [inserted |-> 0, used |-> 0, count |-> 0]

TypeOK ==
    /\ policy \in Policies
    /\ kv \subseteq Keys
    /\ vectors \subseteq Keys
    /\ tracked \subseteq Keys
    /\ meta \in [Keys -> [inserted : Nat, used : Nat, count : Nat]]
    /\ thread \in [Threads -> [at : Points, key : Keys, put : BOOLEAN]]
    /\ calls \in 0..MaxCalls
    /\ restarts \in 0..MaxRestarts
    /\ log \in Seq([key : Keys, op : {"insert", "hit"}])
    /\ excused \in Nat

Init ==
    /\ policy \in Policies
    /\ kv = {} /\ vectors = {} /\ tracked = {}
    /\ meta = [k \in Keys |-> NoMeta]
    /\ thread = [t \in Threads |-> Idle]
    /\ calls = 0 /\ restarts = 0
    /\ log = <<>> /\ excused = 0

(***************************************************************************)
(* The eviction policy                                                     *)
(***************************************************************************)
Tick == Len(log) + 1

RecordInsert(k) ==
    /\ tracked' = tracked \cup {k}
    /\ meta' = [meta EXCEPT ![k] = [inserted |-> Tick, used |-> Tick,
                                    count |-> 1]]
    /\ log' = Append(log, [key |-> k, op |-> "insert"])

\* Mutant: a hit counts, but the entry is not the latest one used.
RecordHitKeepsTick(k) ==
    IF k \in tracked
    THEN /\ meta' = [meta EXCEPT ![k].count = @ + 1]
         /\ log' = Append(log, [key |-> k, op |-> "hit"])
         /\ UNCHANGED tracked
    ELSE UNCHANGED bookkeeping

RecordHit(k) ==
    IF k \in tracked
    THEN /\ meta' = [meta EXCEPT ![k].count = @ + 1, ![k].used = Tick]
         /\ log' = Append(log, [key |-> k, op |-> "hit"])
         /\ UNCHANGED tracked
    ELSE UNCHANGED bookkeeping

\* Mutant: the bookkeeping of a removed entry is cleared, not dropped.
RecordRemovalKeepsKey(k) ==
    /\ meta' = [meta EXCEPT ![k] = NoMeta]
    /\ UNCHANGED <<tracked, log>>

RecordRemoval(k) ==
    /\ tracked' = tracked \ {k}
    /\ meta' = [meta EXCEPT ![k] = NoMeta]
    /\ UNCHANGED log

\* _eviction_sort_key: v sorts before k.
SortsBefore(v, k) ==
    CASE policy = "fifo" -> meta[v].inserted < meta[k].inserted
      [] policy = "lru"  -> meta[v].used < meta[k].used
      [] policy = "lfu"  -> \/ meta[v].count < meta[k].count
                            \/ /\ meta[v].count = meta[k].count
                               /\ meta[v].used < meta[k].used

(***************************************************************************)
(* Calls of the gateway                                                    *)
(***************************************************************************)
Moves(t, at) == thread' = [thread EXCEPT ![t].at = at]

Returns(t) == thread' = [thread EXCEPT ![t] = Idle]

Calls(t, k, at) ==
    /\ thread[t].at = "idle"
    /\ calls < MaxCalls
    /\ calls' = calls + 1
    /\ thread' = [thread EXCEPT ![t] = [at |-> at, key |-> k, put |-> FALSE]]
    /\ UNCHANGED <<policy, restarts, excused>>

\* lookup_with_decision: the oracle finds and accepts k.
CallLookup(t, k) ==
    /\ k \in vectors
    /\ Calls(t, k, "accepted")
    /\ UNCHANGED <<stores, bookkeeping>>

GetResponse(t) ==
    /\ thread[t].at = "accepted"
    /\ Moves(t, IF thread[t].key \in kv THEN "hit" ELSE "missing")
    /\ UNCHANGED <<stores, bookkeeping, counters>>

TouchEntry(t) ==
    /\ thread[t].at = "hit"
    /\ RecordHit(thread[t].key)
    /\ Returns(t)
    /\ UNCHANGED <<stores, counters>>

\* The response is missing: the policy, then the oracle forget the entry.
ForgetEntry(t) ==
    /\ thread[t].at = "missing"
    /\ RecordRemoval(thread[t].key)
    /\ Moves(t, "forgotten")
    /\ UNCHANGED <<stores, counters>>

RemoveForgotten(t) ==
    /\ thread[t].at = "forgotten"
    /\ vectors' = vectors \ {thread[t].key}
    /\ Returns(t)
    /\ UNCHANGED <<kv, bookkeeping, counters>>

\* put: kv_store.set ...
CallPut(t, k) ==
    /\ Calls(t, k, "stored")
    /\ kv' = kv \cup {k}
    /\ UNCHANGED <<vectors, bookkeeping>>

\* ... oracle.index ...
IndexEntry(t) ==
    /\ thread[t].at = "stored"
    /\ vectors' = vectors \cup {thread[t].key}
    /\ Moves(t, "indexed")
    /\ UNCHANGED <<kv, bookkeeping, counters>>

\* ... record_insert ...
TrackEntry(t) ==
    /\ thread[t].at = "indexed"
    /\ RecordInsert(thread[t].key)
    /\ Moves(t, "tracked")
    /\ UNCHANGED <<stores, counters>>

\* Mutant: one entry too many is not yet too many.
CheckCapacityLate(t) ==
    /\ thread[t].at = "tracked"
    /\ IF Cardinality(tracked) > MaxEntries + 1
       THEN Moves(t, "full") /\ UNCHANGED excused
       ELSE Returns(t) /\ excused' = 0
    /\ UNCHANGED <<stores, bookkeeping, policy, calls, restarts>>

\* ... and _enforce_capacity.
CheckCapacity(t) ==
    /\ thread[t].at = "tracked"
    /\ IF Cardinality(tracked) > MaxEntries
       THEN Moves(t, "full") /\ UNCHANGED excused
       ELSE Returns(t) /\ excused' = 0
    /\ UNCHANGED <<stores, bookkeeping, policy, calls, restarts>>

IsVictim(v) == v \in tracked /\ \A k \in tracked \ {v} : SortsBefore(v, k)

\* select_victim, then invalidate.  Another thread may have emptied the
\* policy since the check.
SelectVictim(t) ==
    /\ thread[t].at = "full"
    /\ \/ \E v \in tracked :
             /\ IsVictim(v)
             /\ thread' = [thread EXCEPT ![t] = [at |-> "removing", key |-> v,
                                                 put |-> TRUE]]
       \/ tracked = {} /\ Returns(t)
    /\ UNCHANGED <<stores, bookkeeping, counters>>

\* The thread's next step changes the size of _entries.
Resizes(t) ==
    \/ thread[t].at = "indexed" /\ thread[t].key \notin tracked
    \/ thread[t].at \in {"removing", "missing"} /\ thread[t].key \in tracked

\* min() over _entries raises when another thread resizes it meanwhile; the
\* entry stays, the put does not return.
SelectVictimRaises(t) ==
    /\ thread[t].at = "full"
    /\ \E u \in Threads \ {t} : Resizes(u)
    /\ excused' = excused + 1
    /\ Returns(t)
    /\ UNCHANGED <<stores, bookkeeping, policy, calls, restarts>>

\* invalidate, by a caller or for a victim: _record_removal ...
CallInvalidate(t, k) ==
    /\ Calls(t, k, "removing")
    /\ UNCHANGED <<stores, bookkeeping>>

UntrackEntry(t) ==
    /\ thread[t].at = "removing"
    /\ RecordRemoval(thread[t].key)
    /\ Moves(t, "untracked")
    /\ UNCHANGED <<stores, counters>>

\* ... oracle.remove ...
RemoveVector(t) ==
    /\ thread[t].at = "untracked"
    /\ vectors' = vectors \ {thread[t].key}
    /\ Moves(t, "unindexed")
    /\ UNCHANGED <<kv, bookkeeping, counters>>

\* Mutant: the bookkeeping of the entry goes last, with its response.
DeleteResponseUntracks(t) ==
    /\ thread[t].at = "unindexed"
    /\ kv' = kv \ {thread[t].key}
    /\ RecordRemoval(thread[t].key)
    /\ IF thread[t].put THEN Moves(t, "tracked") ELSE Returns(t)
    /\ UNCHANGED <<vectors, counters>>

\* ... kv_store.delete, and back to the loop of the put.
DeleteResponse(t) ==
    /\ thread[t].at = "unindexed"
    /\ kv' = kv \ {thread[t].key}
    /\ IF thread[t].put THEN Moves(t, "tracked") ELSE Returns(t)
    /\ UNCHANGED <<vectors, bookkeeping, counters>>

\* A new process reads the files of both stores; its policy is empty.
Restart ==
    /\ restarts < MaxRestarts
    /\ restarts' = restarts + 1
    /\ tracked' = {}
    /\ meta' = [k \in Keys |-> NoMeta]
    /\ thread' = [t \in Threads |-> Idle]
    /\ log' = <<>> /\ excused' = 0
    /\ UNCHANGED <<stores, policy, calls>>

CallStep(t) ==
    \/ GetResponse(t) \/ TouchEntry(t) \/ ForgetEntry(t) \/ RemoveForgotten(t)
    \/ IndexEntry(t) \/ TrackEntry(t) \/ CheckCapacity(t) \/ SelectVictim(t)
    \/ SelectVictimRaises(t)
    \/ UntrackEntry(t) \/ RemoveVector(t) \/ DeleteResponse(t)

Next ==
    \/ \E t \in Threads, k \in Keys :
          CallLookup(t, k) \/ CallPut(t, k) \/ CallInvalidate(t, k)
    \/ \E t \in Threads : CallStep(t)
    \/ Restart

Spec == Init /\ [][Next]_vars

\* A thread inside a call keeps running.
FairSpec == Spec /\ \A t \in Threads : WF_vars(CallStep(t))

(***************************************************************************)
(* Properties                                                              *)
(***************************************************************************)
InPut(t) == \/ thread[t].at \in {"tracked", "full"}
            \/ thread[t].at \in {"untracked", "unindexed", "removing"} /\ thread[t].put

\* The policy is over its bound by no more entries than there are puts that
\* have yet to check it, or raised: two puts that evict at the same time do
\* not both count on the other's victim.
TrackedWithinCapacity ==
    Cardinality(tracked)
        <= MaxEntries + Cardinality({t \in Threads : InPut(t)}) + excused

\* Whatever a search can return the policy can evict, or the thread that will
\* see to it is still under way: no order of puts, invalidations, evictions
\* and clean-ups leaves a vector that is not tracked.
SearchableTracked ==
    restarts = 0 =>
        \A k \in vectors \ tracked :
            \E t \in Threads :
                /\ thread[t].key = k
                /\ thread[t].at \in {"indexed", "untracked", "forgotten"}

\* The events the policy was told of k since its last insertion.
LastInsert(k) ==
    CHOOSE i \in DOMAIN log :
        /\ log[i] = [key |-> k, op |-> "insert"]
        /\ \A j \in DOMAIN log : j > i => log[j] # log[i]
Uses(k) == {i \in DOMAIN log : i >= LastInsert(k) /\ log[i].key = k}
LastUse(k) == CHOOSE i \in Uses(k) : \A j \in Uses(k) : j <= i

\* The victim is the entry README.md describes, in terms of what happened to
\* the entries and not of the counters kept of it: the oldest inserted, the
\* least recently used, or the least frequently used since its insertion,
\* whatever order the threads' inserts, hits and removals came in.
VictimByHistory ==
    [][\A t \in Threads :
          thread[t].at = "full" /\ thread'[t].at = "removing" =>
            LET v == thread'[t].key
            IN  \A k \in tracked \ {v} :
                  CASE policy = "fifo" -> LastInsert(v) < LastInsert(k)
                    [] policy = "lru"  -> LastUse(v) < LastUse(k)
                    [] policy = "lfu"  ->
                         /\ Cardinality(Uses(v)) <= Cardinality(Uses(k))
                         /\ Cardinality(Uses(v)) = Cardinality(Uses(k))
                            => LastUse(v) < LastUse(k)]_vars

\* Every call returns: the loop that evicts ends even though other threads
\* insert and remove entries meanwhile.
CallsReturn == \A t \in Threads : thread[t].at # "idle" ~> thread[t].at = "idle"
=============================================================================
