------------------------ MODULE CacheGateway_proofs ------------------------
(***************************************************************************)
(* Theorems about CacheGateway, for any keys, any finite number of threads *)
(* and any capacity: what a search finds the policy can evict, the policy  *)
(* is over its bound only by puts that are under way or raised, and it     *)
(* evicts the entry that its history says.                                 *)
(***************************************************************************)
EXTENDS CacheGateway, FiniteSetTheorems, TLAPS

USE DEF stores, bookkeeping, counters

(***************************************************************************)
(* Types                                                                   *)
(***************************************************************************)
ThreadType == [at : Points, key : Keys, put : BOOLEAN]
MetaType == [inserted : Nat, used : Nat, count : Nat]
LogType == [key : Keys, op : {"insert", "hit"}]

LEMMA IdleType == Idle \in ThreadType /\ NoMeta \in MetaType
  <1>1. AnyKey \in Keys
    BY GatewayAssumption DEF AnyKey
  <1>2. QED
    BY <1>1 DEF Idle, NoMeta, ThreadType, MetaType, Points

LEMMA InitType == Init => TypeOK
  <1> SUFFICES ASSUME Init PROVE TypeOK
    OBVIOUS
  <1>1. thread \in [Threads -> ThreadType] /\ meta \in [Keys -> MetaType]
    BY IdleType DEF Init
  <1>2. 0 \in 0..MaxCalls /\ 0 \in 0..MaxRestarts
    BY GatewayAssumption
  <1>3. QED
    BY <1>1, <1>2 DEF Init, TypeOK, ThreadType, MetaType

LEMMA MovesType ==
  ASSUME TypeOK, NEW t \in Threads, NEW at \in Points, Moves(t, at)
  PROVE  /\ thread' \in [Threads -> ThreadType]
         /\ thread'[t].at = at
         /\ thread'[t].key = thread[t].key
         /\ thread'[t].put = thread[t].put
         /\ \A u \in Threads : u # t => thread'[u] = thread[u]
  <1>1. thread[t] \in ThreadType
    BY DEF TypeOK, ThreadType
  <1>2. thread' = [thread EXCEPT ![t] = [thread[t] EXCEPT !.at = at]]
    BY DEF Moves
  <1>3. [thread[t] EXCEPT !.at = at] \in ThreadType
    BY <1>1 DEF ThreadType
  <1>4. thread'[t] = [thread[t] EXCEPT !.at = at]
    BY <1>2 DEF TypeOK
  <1>5. QED BY <1>1, <1>2, <1>3, <1>4 DEF TypeOK, ThreadType

LEMMA ReturnsType ==
  ASSUME TypeOK, NEW t \in Threads, Returns(t)
  PROVE  /\ thread' \in [Threads -> ThreadType]
         /\ thread'[t].at = "idle"
         /\ \A u \in Threads : u # t => thread'[u] = thread[u]
  BY IdleType DEF Returns, TypeOK, ThreadType, Idle

LEMMA CallsType ==
  ASSUME TypeOK, NEW t \in Threads, NEW k \in Keys, NEW at \in Points,
         Calls(t, k, at)
  PROVE  /\ thread' \in [Threads -> ThreadType]
         /\ thread[t].at = "idle"
         /\ thread'[t] = [at |-> at, key |-> k, put |-> FALSE]
         /\ \A u \in Threads : u # t => thread'[u] = thread[u]
         /\ calls' \in 0..MaxCalls
         /\ UNCHANGED <<policy, restarts, excused>>
  <1>1. [at |-> at, key |-> k, put |-> FALSE] \in ThreadType
    BY DEF ThreadType
  <1>2. calls' \in 0..MaxCalls
    <2>1. /\ calls \in 0..MaxCalls /\ MaxCalls \in Nat
          /\ calls < MaxCalls /\ calls' = calls + 1
      BY GatewayAssumption DEF TypeOK, Calls
    <2>2. QED BY <2>1
  <1>3. QED BY <1>1, <1>2 DEF Calls, TypeOK, ThreadType

LEMMA RecordType ==
  ASSUME TypeOK, NEW k \in Keys,
         RecordInsert(k) \/ RecordHit(k) \/ RecordRemoval(k)
  PROVE  /\ tracked' \in SUBSET Keys
         /\ meta' \in [Keys -> MetaType]
         /\ log' \in Seq(LogType)
  <1>0. /\ meta[k] \in MetaType /\ meta \in [Keys -> MetaType]
        /\ log \in Seq(LogType) /\ Tick \in Nat
    BY DEF TypeOK, MetaType, LogType, Tick
  <1>1. CASE RecordInsert(k)
    <2>1. [inserted |-> Tick, used |-> Tick, count |-> 1] \in MetaType
      BY <1>0 DEF MetaType
    <2>2. [key |-> k, op |-> "insert"] \in LogType
      BY DEF LogType
    <2>3. Append(log, [key |-> k, op |-> "insert"]) \in Seq(LogType)
      BY <1>0, <2>2
    <2>4. QED BY <1>0, <1>1, <2>1, <2>3 DEF RecordInsert, TypeOK
  <1>2. CASE RecordHit(k)
    <2>1. [key |-> k, op |-> "hit"] \in LogType
      BY DEF LogType
    <2>2. Append(log, [key |-> k, op |-> "hit"]) \in Seq(LogType)
      BY <1>0, <2>1
    <2>3. [meta[k] EXCEPT !.count = @ + 1, !.used = Tick] \in MetaType
      <3>1. meta[k].count + 1 \in Nat
        BY <1>0 DEF MetaType
      <3>2. [meta[k] EXCEPT !.count = meta[k].count + 1, !.used = Tick] \in MetaType
        BY <1>0, <3>1 DEF MetaType
      <3>3. QED BY <3>2
    <2>4. CASE k \in tracked
      <3>1. meta' = [meta EXCEPT ![k] =
                       [meta[k] EXCEPT !.count = @ + 1, !.used = Tick]]
        BY <1>2, <2>4 DEF RecordHit
      <3>2. meta' \in [Keys -> MetaType]
        BY <1>0, <2>3, <3>1
      <3>3. QED BY <1>2, <2>2, <2>4, <3>2 DEF RecordHit, TypeOK
    <2>5. CASE k \notin tracked
      BY <1>0, <1>2, <2>5 DEF RecordHit, TypeOK
    <2>6. QED BY <2>4, <2>5
  <1>3. CASE RecordRemoval(k)
    BY <1>0, <1>3, IdleType DEF RecordRemoval, TypeOK
  <1>4. QED BY <1>1, <1>2, <1>3

LEMMA CallType ==
  ASSUME TypeOK, NEW t \in Threads, NEW k \in Keys,
         CallLookup(t, k) \/ CallPut(t, k) \/ CallInvalidate(t, k)
  PROVE  TypeOK'
  <1>1. /\ \E at \in {"accepted", "stored", "removing"} : Calls(t, k, at)
        /\ kv' \subseteq Keys
        /\ UNCHANGED <<vectors, bookkeeping>>
    BY DEF CallLookup, CallPut, CallInvalidate, TypeOK
  <1>2. /\ thread' \in [Threads -> ThreadType]
        /\ calls' \in 0..MaxCalls
        /\ UNCHANGED <<policy, restarts, excused>>
    BY <1>1, CallsType DEF Points
  <1>3. QED BY <1>1, <1>2 DEF TypeOK, ThreadType

LEMMA CallStepType ==
  ASSUME TypeOK, NEW t \in Threads, CallStep(t)
  PROVE  TypeOK'
  <1>0. thread[t] \in ThreadType /\ thread[t].key \in Keys
    BY DEF TypeOK, ThreadType
  <1>1. CASE GetResponse(t)
    <2>1. thread' \in [Threads -> ThreadType]
      BY <1>1, MovesType DEF GetResponse, Points
    <2>2. QED BY <1>1, <2>1 DEF GetResponse, TypeOK, ThreadType
  <1>2. CASE TouchEntry(t) \/ ForgetEntry(t) \/ TrackEntry(t) \/ UntrackEntry(t)
    <2>1. /\ tracked' \in SUBSET Keys
          /\ meta' \in [Keys -> MetaType]
          /\ log' \in Seq(LogType)
      BY <1>0, <1>2, RecordType DEF TouchEntry, ForgetEntry, TrackEntry, UntrackEntry
    <2>2. thread' \in [Threads -> ThreadType]
      BY <1>2, MovesType, ReturnsType
         DEF TouchEntry, ForgetEntry, TrackEntry, UntrackEntry, Points
    <2>3. UNCHANGED <<stores, counters>>
      BY <1>2 DEF TouchEntry, ForgetEntry, TrackEntry, UntrackEntry
    <2>4. QED BY <2>1, <2>2, <2>3 DEF TypeOK, ThreadType, MetaType, LogType
  <1>3. CASE RemoveForgotten(t) \/ IndexEntry(t) \/ RemoveVector(t)
             \/ DeleteResponse(t)
    <2>1. kv' \subseteq Keys /\ vectors' \subseteq Keys
      BY <1>0, <1>3 DEF RemoveForgotten, IndexEntry, RemoveVector, DeleteResponse,
                        TypeOK
    <2>2. thread' \in [Threads -> ThreadType]
      BY <1>3, MovesType, ReturnsType
         DEF RemoveForgotten, IndexEntry, RemoveVector, DeleteResponse, Points
    <2>3. UNCHANGED <<bookkeeping, counters>>
      BY <1>3 DEF RemoveForgotten, IndexEntry, RemoveVector, DeleteResponse
    <2>4. QED BY <2>1, <2>2, <2>3 DEF TypeOK, ThreadType
  <1>4. CASE CheckCapacity(t) \/ SelectVictimRaises(t)
    <2>1. thread' \in [Threads -> ThreadType]
      BY <1>4, MovesType, ReturnsType DEF CheckCapacity, SelectVictimRaises, Points
    <2>2. excused' \in Nat
      BY <1>4 DEF CheckCapacity, SelectVictimRaises, TypeOK
    <2>3. UNCHANGED <<stores, bookkeeping, policy, calls, restarts>>
      BY <1>4 DEF CheckCapacity, SelectVictimRaises
    <2>4. QED BY <2>1, <2>2, <2>3 DEF TypeOK, ThreadType
  <1>5. CASE SelectVictim(t)
    <2>1. thread' \in [Threads -> ThreadType]
      <3>1. ASSUME NEW v \in tracked,
                   thread' = [thread EXCEPT ![t] = [at |-> "removing", key |-> v,
                                                    put |-> TRUE]]
            PROVE  thread' \in [Threads -> ThreadType]
        <4>1. [at |-> "removing", key |-> v, put |-> TRUE] \in ThreadType
          BY DEF TypeOK, ThreadType, Points
        <4>2. QED BY <3>1, <4>1 DEF TypeOK, ThreadType
      <3>2. QED BY <1>5, <3>1, ReturnsType DEF SelectVictim
    <2>2. UNCHANGED <<stores, bookkeeping, counters>>
      BY <1>5 DEF SelectVictim
    <2>3. QED BY <2>1, <2>2 DEF TypeOK, ThreadType
  <1>6. QED
    BY <1>1, <1>2, <1>3, <1>4, <1>5 DEF CallStep

LEMMA RestartType == TypeOK /\ Restart => TypeOK'
  <1> SUFFICES ASSUME TypeOK, Restart PROVE TypeOK'
    OBVIOUS
  <1>1. restarts' \in 0..MaxRestarts
    <2>1. /\ restarts \in 0..MaxRestarts /\ MaxRestarts \in Nat
          /\ restarts < MaxRestarts /\ restarts' = restarts + 1
      BY GatewayAssumption DEF Restart, TypeOK
    <2>2. QED BY <2>1
  <1>2. meta' \in [Keys -> MetaType] /\ thread' \in [Threads -> ThreadType]
    BY IdleType DEF Restart
  <1>3. log' \in Seq(LogType)
    BY DEF Restart
  <1>4. QED
    BY <1>1, <1>2, <1>3 DEF Restart, TypeOK, ThreadType, MetaType, LogType

LEMMA StepType == TypeOK /\ [Next]_vars => TypeOK'
  <1> SUFFICES ASSUME TypeOK, [Next]_vars PROVE TypeOK'
    OBVIOUS
  <1>1. CASE UNCHANGED vars
    BY <1>1 DEF vars, TypeOK
  <1>2. QED
    BY <1>1, CallType, CallStepType, RestartType DEF Next

\* Every variable keeps its type.
THEOREM TypeCorrect == Spec => []TypeOK
  BY InitType, StepType, PTL DEF Spec

(***************************************************************************)
(* What a search finds                                                     *)
(***************************************************************************)

\* The thread sees to it that k is tracked, or not found any more.
SeesTo(t, k) ==
    thread[t].key = k /\ thread[t].at \in {"indexed", "untracked", "forgotten"}

\* A key the step leaves in the vector store and not tracked was there before
\* and has the same thread, or the acting thread now sees to it.
LEMMA SeenToStep ==
  ASSUME TypeOK, NEW t \in Threads, NEW k \in vectors' \ tracked',
         SearchableTracked, restarts = 0,
         \A u \in Threads : u # t => thread'[u] = thread[u],
         \/ SeesTo(t, k)'
         \/ k \in vectors \ tracked /\ ~SeesTo(t, k)
  PROVE  \E u \in Threads : SeesTo(u, k)'
  <1>1. CASE SeesTo(t, k)'
    BY <1>1
  <1>2. CASE k \in vectors \ tracked /\ ~SeesTo(t, k)
    <2>1. PICK u \in Threads : SeesTo(u, k)
      BY <1>2 DEF SearchableTracked, SeesTo
    <2>2. u # t
      BY <1>2, <2>1
    <2>3. QED BY <2>1, <2>2 DEF SeesTo
  <1>3. QED BY <1>1, <1>2

LEMMA SearchableCallStep ==
  ASSUME TypeOK, SearchableTracked, NEW t \in Threads, CallStep(t)
  PROVE  SearchableTracked'
  <1>0. thread[t] \in ThreadType /\ thread \in [Threads -> ThreadType]
    BY DEF TypeOK, ThreadType
  <1> SUFFICES ASSUME restarts' = 0, NEW k \in vectors' \ tracked'
               PROVE  \E u \in Threads : SeesTo(u, k)'
    BY DEF SearchableTracked, SeesTo
  <1>1. restarts = 0
    BY DEF CallStep, GetResponse, TouchEntry, ForgetEntry, RemoveForgotten,
       IndexEntry, TrackEntry, CheckCapacity, SelectVictim, SelectVictimRaises,
       UntrackEntry, RemoveVector, DeleteResponse
  <1>2. ASSUME \A u \in Threads : u # t => thread'[u] = thread[u],
               SeesTo(t, k)' \/ (k \in vectors \ tracked /\ ~SeesTo(t, k))
        PROVE  \E u \in Threads : SeesTo(u, k)'
    BY <1>1, <1>2, SeenToStep
  <1>3. CASE IndexEntry(t) \/ UntrackEntry(t) \/ ForgetEntry(t)
    <2>1. /\ thread'[t].key = thread[t].key
          /\ thread'[t].at \in {"indexed", "untracked", "forgotten"}
          /\ thread[t].at \notin {"indexed", "untracked", "forgotten"}
          /\ \A u \in Threads : u # t => thread'[u] = thread[u]
      BY <1>3, MovesType DEF IndexEntry, UntrackEntry, ForgetEntry, Points
    <2>2. k = thread[t].key \/ k \in vectors \ tracked
      BY <1>3 DEF IndexEntry, UntrackEntry, ForgetEntry, RecordRemoval
    <2>3. QED BY <1>2, <2>1, <2>2 DEF SeesTo
  <1>4. CASE TrackEntry(t) \/ RemoveVector(t) \/ RemoveForgotten(t)
    <2>1. \A u \in Threads : u # t => thread'[u] = thread[u]
      BY <1>4, MovesType, ReturnsType
         DEF TrackEntry, RemoveVector, RemoveForgotten, Points
    <2>2. k \in vectors \ tracked /\ k # thread[t].key
      BY <1>4 DEF TrackEntry, RemoveVector, RemoveForgotten, RecordInsert
    <2>3. QED BY <1>2, <2>1, <2>2 DEF SeesTo
  <1>5. CASE GetResponse(t) \/ TouchEntry(t) \/ CheckCapacity(t)
             \/ SelectVictim(t) \/ SelectVictimRaises(t) \/ DeleteResponse(t)
    <2>1. \A u \in Threads : u # t => thread'[u] = thread[u]
      <3>1. CASE SelectVictim(t)
        BY <1>0, <3>1, ReturnsType DEF SelectVictim
      <3>2. QED
        BY <1>5, <3>1, MovesType, ReturnsType DEF GetResponse, TouchEntry,
           CheckCapacity, SelectVictimRaises, DeleteResponse, Points
    <2>2. k \in vectors \ tracked
      BY <1>5 DEF GetResponse, TouchEntry, CheckCapacity, SelectVictim,
                  SelectVictimRaises, DeleteResponse, RecordHit
    <2>3. thread[t].at \notin {"indexed", "untracked", "forgotten"}
      BY <1>5 DEF GetResponse, TouchEntry, CheckCapacity, SelectVictim,
                  SelectVictimRaises, DeleteResponse
    <2>4. QED BY <1>2, <2>1, <2>2, <2>3 DEF SeesTo
  <1>6. QED BY <1>3, <1>4, <1>5 DEF CallStep

LEMMA SearchableStep == TypeOK /\ SearchableTracked /\ [Next]_vars => SearchableTracked'
  <1> SUFFICES ASSUME TypeOK, SearchableTracked, [Next]_vars
               PROVE  SearchableTracked'
    OBVIOUS
  <1>1. ASSUME NEW t \in Threads, NEW k \in Keys,
               CallLookup(t, k) \/ CallPut(t, k) \/ CallInvalidate(t, k)
        PROVE  SearchableTracked'
    <2>1. /\ \E at \in {"accepted", "stored", "removing"} : Calls(t, k, at)
          /\ UNCHANGED <<vectors, tracked>>
      BY <1>1 DEF CallLookup, CallPut, CallInvalidate
    <2>2. /\ thread[t].at = "idle"
          /\ \A u \in Threads : u # t => thread'[u] = thread[u]
          /\ UNCHANGED restarts
      BY <2>1, CallsType DEF Points
    <2>3. QED BY <2>1, <2>2 DEF SearchableTracked
  <1>2. CASE Restart
    <2>1. restarts' # 0
      BY <1>2 DEF Restart, TypeOK
    <2>2. QED BY <2>1 DEF SearchableTracked
  <1>3. CASE UNCHANGED vars
    BY <1>3 DEF vars, SearchableTracked
  <1>4. QED BY <1>1, <1>2, <1>3, SearchableCallStep DEF Next

\* In a process that started with empty stores, a vector that a search can
\* return is tracked by the policy, or a thread is about to see to it.
THEOREM SearchableStaysTracked == Spec => []SearchableTracked
  <1>1. Init => SearchableTracked
    BY DEF Init, SearchableTracked
  <1>2. QED BY <1>1, SearchableStep, TypeCorrect, PTL DEF Spec

(***************************************************************************)
(* The bound                                                               *)
(***************************************************************************)
Putting == {t \in Threads : InPut(t)}

BoundInv ==
    /\ TypeOK
    /\ IsFiniteSet(tracked)
    /\ TrackedWithinCapacity

LEMMA PuttingFinite ==
  /\ IsFiniteSet(Putting) /\ Cardinality(Putting) \in Nat
  /\ IsFiniteSet(Putting') /\ Cardinality(Putting') \in Nat
  <1>1. Putting \in SUBSET Threads /\ Putting' \in SUBSET Threads
    BY DEF Putting
  <1>2. IsFiniteSet(Putting) /\ IsFiniteSet(Putting')
    BY <1>1, FS_Subset, GatewayAssumption
  <1>3. QED BY <1>2, FS_CardinalityType

\* How a step of one thread changes the number of puts under way.
LEMMA PuttingStep ==
  ASSUME NEW t \in Threads,
         \A u \in Threads : u # t => thread'[u] = thread[u]
  PROVE  /\ (InPut(t) <=> InPut(t)') => Putting' = Putting
         /\ ~InPut(t) /\ InPut(t)'
              => Cardinality(Putting') = Cardinality(Putting) + 1
         /\ InPut(t) /\ ~InPut(t)'
              => Cardinality(Putting') = Cardinality(Putting) - 1
  <1>1. \A u \in Threads : u # t => (InPut(u)' <=> InPut(u))
    BY DEF InPut
  <1>2. (InPut(t) <=> InPut(t)') => Putting' = Putting
    BY <1>1 DEF Putting
  <1>3. ASSUME ~InPut(t), InPut(t)'
        PROVE  Cardinality(Putting') = Cardinality(Putting) + 1
    <2>1. Putting' = Putting \cup {t} /\ t \notin Putting
      BY <1>1, <1>3 DEF Putting
    <2>2. QED BY <2>1, PuttingFinite, FS_AddElement
  <1>4. ASSUME InPut(t), ~InPut(t)'
        PROVE  Cardinality(Putting') = Cardinality(Putting) - 1
    <2>1. Putting' = Putting \ {t} /\ t \in Putting
      BY <1>1, <1>4 DEF Putting
    <2>2. QED BY <2>1, PuttingFinite, FS_RemoveElement
  <1>5. QED BY <1>2, <1>3, <1>4

\* A step that tracks nothing new and ends no put keeps the bound.
LEMMA NoWorse ==
  ASSUME BoundInv, NEW t \in Threads, TypeOK',
         tracked' \subseteq tracked, excused' = excused,
         \A u \in Threads : u # t => thread'[u] = thread[u],
         InPut(t) => InPut(t)'
  PROVE  BoundInv'
  <1>1. /\ IsFiniteSet(tracked) /\ IsFiniteSet(tracked')
        /\ Cardinality(tracked') <= Cardinality(tracked)
        /\ Cardinality(tracked) \in Nat /\ Cardinality(tracked') \in Nat
    <2>1. IsFiniteSet(tracked) /\ tracked' \in SUBSET tracked
      BY DEF BoundInv
    <2>2. IsFiniteSet(tracked') /\ Cardinality(tracked') <= Cardinality(tracked)
      BY <2>1, FS_Subset
    <2>3. QED BY <2>1, <2>2, FS_CardinalityType
  <1>2. Cardinality(Putting) <= Cardinality(Putting')
    <2>1. CASE InPut(t) <=> InPut(t)'
      <3>1. Putting' = Putting
        BY <2>1, PuttingStep
      <3>2. QED BY <3>1, PuttingFinite
    <2>2. CASE ~InPut(t) /\ InPut(t)'
      BY <2>2, PuttingStep, PuttingFinite
    <2>3. QED BY <2>1, <2>2
  <1>3. /\ Cardinality(tracked) <= MaxEntries + Cardinality(Putting) + excused
        /\ MaxEntries \in Nat /\ excused \in Nat
    BY GatewayAssumption DEF BoundInv, TypeOK, TrackedWithinCapacity, Putting
  <1>4. Cardinality(tracked') <= MaxEntries + Cardinality(Putting') + excused'
    BY <1>1, <1>2, <1>3, PuttingFinite
  <1>5. QED BY <1>1, <1>4 DEF BoundInv, TrackedWithinCapacity, Putting

LEMMA BoundCallStep ==
  ASSUME BoundInv, NEW t \in Threads, CallStep(t), TypeOK'
  PROVE  BoundInv'
  <1>0. /\ TypeOK /\ IsFiniteSet(tracked)
        /\ Cardinality(tracked) \in Nat
        /\ Cardinality(tracked) <= MaxEntries + Cardinality(Putting) + excused
        /\ MaxEntries \in Nat /\ excused \in Nat
        /\ thread[t] \in ThreadType /\ thread \in [Threads -> ThreadType]
    BY GatewayAssumption, FS_CardinalityType
       DEF BoundInv, TypeOK, ThreadType, TrackedWithinCapacity, Putting
  <1>1. ASSUME tracked' = tracked \/ tracked' = {}, excused' \in Nat,
               Cardinality(tracked')
                 <= MaxEntries + Cardinality(Putting') + excused'
        PROVE  BoundInv'
    <2>1. IsFiniteSet(tracked')
      BY <1>0, <1>1, FS_EmptySet
    <2>2. QED BY <1>1, <2>1 DEF BoundInv, TrackedWithinCapacity, Putting
  <1>2. CASE GetResponse(t) \/ TouchEntry(t) \/ ForgetEntry(t)
             \/ RemoveForgotten(t) \/ IndexEntry(t)
    <2>1. /\ \A u \in Threads : u # t => thread'[u] = thread[u]
          /\ ~InPut(t)
      BY <1>0, <1>2, MovesType, ReturnsType DEF GetResponse, TouchEntry,
         ForgetEntry, RemoveForgotten, IndexEntry, Points, InPut
    <2>2. tracked' \subseteq tracked /\ excused' = excused
      BY <1>2 DEF GetResponse, TouchEntry, ForgetEntry, RemoveForgotten,
                  IndexEntry, RecordHit, RecordRemoval
    <2>3. QED BY <2>1, <2>2, NoWorse
  <1>3. CASE UntrackEntry(t) \/ RemoveVector(t) \/ DeleteResponse(t)
    <2>1. /\ \A u \in Threads : u # t => thread'[u] = thread[u]
          /\ InPut(t) => InPut(t)'
      BY <1>0, <1>3, MovesType, ReturnsType DEF UntrackEntry, RemoveVector,
         DeleteResponse, Points, InPut
    <2>2. tracked' \subseteq tracked /\ excused' = excused
      BY <1>3 DEF UntrackEntry, RemoveVector, DeleteResponse, RecordRemoval
    <2>3. QED BY <2>1, <2>2, NoWorse
  \* One entry more, and one put more.
  <1>4. CASE TrackEntry(t)
    <2>1. /\ \A u \in Threads : u # t => thread'[u] = thread[u]
          /\ ~InPut(t) /\ InPut(t)'
          /\ tracked' = tracked \cup {thread[t].key}
          /\ excused' = excused
      BY <1>0, <1>4, MovesType DEF TrackEntry, Points, InPut, RecordInsert
    <2>2. Cardinality(Putting') = Cardinality(Putting) + 1
      BY <2>1, PuttingStep
    <2>3. /\ IsFiniteSet(tracked')
          /\ Cardinality(tracked') <= Cardinality(tracked) + 1
      <3>1. /\ IsFiniteSet(tracked \cup {thread[t].key})
            /\ Cardinality(tracked \cup {thread[t].key})
                 = IF thread[t].key \in tracked THEN Cardinality(tracked)
                                               ELSE Cardinality(tracked) + 1
        BY <1>0, FS_AddElement
      <3>2. QED BY <1>0, <2>1, <3>1
    <2>4. Cardinality(tracked') \in Nat
      BY <2>3, FS_CardinalityType
    <2>5. Cardinality(tracked') <= MaxEntries + Cardinality(Putting') + excused'
      BY <1>0, <2>1, <2>2, <2>3, <2>4, PuttingFinite
    <2>6. QED BY <2>3, <2>5 DEF BoundInv, TrackedWithinCapacity, Putting
  \* A put returns when there are no more entries than allowed.
  <1>5. CASE CheckCapacity(t)
    <2>1. CASE Cardinality(tracked) > MaxEntries
      <3>1. /\ \A u \in Threads : u # t => thread'[u] = thread[u]
            /\ InPut(t)'
        BY <1>0, <1>5, <2>1, MovesType DEF CheckCapacity, Points, InPut
      <3>2. tracked' \subseteq tracked /\ excused' = excused
        BY <1>5, <2>1 DEF CheckCapacity
      <3>3. QED BY <3>1, <3>2, NoWorse
    <2>2. CASE Cardinality(tracked) <= MaxEntries
      <3>1. tracked' = tracked /\ excused' = 0
        BY <1>0, <1>5, <2>2 DEF CheckCapacity
      <3>2. Cardinality(tracked') <= MaxEntries + Cardinality(Putting') + excused'
        BY <1>0, <2>2, <3>1, PuttingFinite
      <3>3. QED BY <1>1, <3>1, <3>2
    <2>3. QED BY <1>0, <2>1, <2>2
  <1>6. CASE SelectVictim(t)
    <2>1. tracked' = tracked /\ excused' = excused
      BY <1>6 DEF SelectVictim
    <2>2. CASE tracked = {}
      <3>1. Cardinality(tracked') = 0
        BY <2>1, <2>2, FS_EmptySet
      <3>2. Cardinality(tracked') <= MaxEntries + Cardinality(Putting') + excused'
        BY <1>0, <2>1, <3>1, PuttingFinite
      <3>3. QED BY <1>0, <1>1, <2>1, <3>2
    <2>3. CASE tracked # {}
      <3>1. PICK v \in tracked :
               thread' = [thread EXCEPT ![t] = [at |-> "removing", key |-> v,
                                                put |-> TRUE]]
        BY <1>6, <2>3 DEF SelectVictim
      <3>2. InPut(t)' /\ \A u \in Threads : u # t => thread'[u] = thread[u]
        BY <1>0, <3>1 DEF InPut
      <3>3. QED BY <2>1, <3>2, NoWorse
    <2>4. QED BY <2>2, <2>3
  \* A put that raises is excused.
  <1>7. CASE SelectVictimRaises(t)
    <2>1. /\ \A u \in Threads : u # t => thread'[u] = thread[u]
          /\ InPut(t) /\ ~InPut(t)'
          /\ tracked' = tracked /\ excused' = excused + 1
      BY <1>0, <1>7, ReturnsType DEF SelectVictimRaises, InPut
    <2>2. Cardinality(Putting') = Cardinality(Putting) - 1
      BY <2>1, PuttingStep
    <2>3. Cardinality(tracked') <= MaxEntries + Cardinality(Putting') + excused'
      BY <1>0, <2>1, <2>2, PuttingFinite
    <2>4. QED BY <1>0, <1>1, <2>1, <2>3
  <1>8. QED
    BY <1>2, <1>3, <1>4, <1>5, <1>6, <1>7 DEF CallStep

LEMMA BoundStep == BoundInv /\ [Next]_vars => BoundInv'
  <1> SUFFICES ASSUME BoundInv, [Next]_vars PROVE BoundInv'
    OBVIOUS
  <1>0. TypeOK /\ TypeOK'
    BY StepType DEF BoundInv
  <1>1. ASSUME NEW t \in Threads, NEW k \in Keys,
               CallLookup(t, k) \/ CallPut(t, k) \/ CallInvalidate(t, k)
        PROVE  BoundInv'
    <2>1. /\ \E at \in {"accepted", "stored", "removing"} : Calls(t, k, at)
          /\ UNCHANGED tracked
      BY <1>1 DEF CallLookup, CallPut, CallInvalidate
    <2>2. /\ thread[t].at = "idle"
          /\ \A u \in Threads : u # t => thread'[u] = thread[u]
          /\ UNCHANGED excused
      BY <1>0, <2>1, CallsType DEF Points
    <2>3. QED BY <1>0, <2>1, <2>2, NoWorse DEF InPut
  <1>2. CASE Restart
    <2>1. tracked' = {} /\ excused' = 0
      BY <1>2 DEF Restart
    <2>2. IsFiniteSet(tracked') /\ Cardinality(tracked') = 0
      BY <2>1, FS_EmptySet
    <2>3. Cardinality(tracked') <= MaxEntries + Cardinality(Putting') + excused'
      BY <2>1, <2>2, PuttingFinite, GatewayAssumption
    <2>4. QED BY <1>0, <2>2, <2>3 DEF BoundInv, TrackedWithinCapacity, Putting
  <1>3. CASE UNCHANGED vars
    BY <1>0, <1>3 DEF vars, BoundInv, TrackedWithinCapacity, InPut
  <1>4. QED BY <1>0, <1>1, <1>2, <1>3, BoundCallStep DEF Next

\* The policy tracks no more entries than allowed, plus one for each put that
\* is under way and each that raised since a put last returned.
THEOREM TrackedStaysWithinCapacity == Spec => []TrackedWithinCapacity
  <1>1. Init => BoundInv
    <2> SUFFICES ASSUME Init PROVE BoundInv
      OBVIOUS
    <2>1. TypeOK /\ tracked = {} /\ excused = 0
      BY InitType DEF Init
    <2>2. IsFiniteSet(tracked) /\ Cardinality(tracked) = 0
      BY <2>1, FS_EmptySet
    <2>3. Cardinality(tracked) <= MaxEntries + Cardinality(Putting) + excused
      BY <2>1, <2>2, PuttingFinite, GatewayAssumption
    <2>4. QED BY <2>1, <2>2, <2>3 DEF BoundInv, TrackedWithinCapacity, Putting
  <1>2. BoundInv => TrackedWithinCapacity
    BY DEF BoundInv
  <1>3. QED BY <1>1, <1>2, BoundStep, PTL DEF Spec

(***************************************************************************)
(* The victim                                                              *)
(***************************************************************************)

\* What the metadata of an entry says happened to it: inserted is its latest
\* insertion, used the latest event of all, count the events since insertion.
Since(k, first) == {i \in DOMAIN log : i >= first /\ log[i].key = k}

Tells(k) ==
    LET entry == meta[k]
    IN  /\ entry.inserted \in DOMAIN log /\ entry.used \in DOMAIN log
        /\ log[entry.inserted] = [key |-> k, op |-> "insert"]
        /\ \A j \in DOMAIN log : log[j] = [key |-> k, op |-> "insert"] => j <= entry.inserted
        /\ log[entry.used].key = k /\ entry.inserted <= entry.used
        /\ \A j \in DOMAIN log : log[j].key = k => j <= entry.used
        /\ IsFiniteSet(Since(k, entry.inserted))
        /\ Cardinality(Since(k, entry.inserted)) = entry.count

HistoryInv == \A k \in tracked : Tells(k)

\* An event that is appended to the log is the last one, and of its own key.
LEMMA LogAppended ==
  ASSUME TypeOK, NEW event \in LogType, log' = Append(log, event)
  PROVE  /\ Tick = Len(log) + 1 /\ Tick \in Nat /\ Len(log) \in Nat
         /\ DOMAIN log = 1..Len(log) /\ DOMAIN log' = 1..Tick
         /\ Tick \notin DOMAIN log /\ Tick \in DOMAIN log'
         /\ log'[Tick] = event
         /\ \A i \in DOMAIN log : i \in DOMAIN log' /\ log'[i] = log[i] /\ i < Tick
         /\ \A i \in DOMAIN log' : i \in DOMAIN log \/ i = Tick
  <1>1. PICK n \in Nat : n = Len(log)
    BY DEF TypeOK
  <1>2. /\ log \in Seq(LogType) /\ Tick = n + 1 /\ DOMAIN log = 1..n
        /\ DOMAIN log' = 1..n + 1 /\ log'[n + 1] = event
        /\ \A i \in 1..n : log'[i] = log[i]
    BY <1>1 DEF TypeOK, LogType, Tick
  <1>3. QED BY <1>1, <1>2

\* The events of a key since one of them, when another is appended.
LEMMA SinceAppended ==
  ASSUME TypeOK, NEW event \in LogType, log' = Append(log, event),
         NEW k \in Keys, NEW first \in Nat, first <= Tick
  PROVE  Since(k, first)' = IF event.key = k THEN Since(k, first) \cup {Tick}
                            ELSE Since(k, first)
  BY LogAppended DEF Since

\* The metadata of a key no event is about still tells its history.
LEMMA OthersTold ==
  ASSUME TypeOK, NEW event \in LogType, log' = Append(log, event),
         NEW k \in Keys, event.key # k, meta'[k] = meta[k], Tells(k)
  PROVE  Tells(k)'
  <1>1. /\ meta[k].inserted \in Nat /\ meta[k].used \in Nat
        /\ meta[k].inserted \in DOMAIN log /\ meta[k].used \in DOMAIN log
    BY DEF TypeOK, Tells
  <1>2. Since(k, meta[k].inserted)' = Since(k, meta[k].inserted)
    <2>1. PICK first \in Nat : first = meta[k].inserted /\ first <= Tick
      BY <1>1, LogAppended
    <2>2. Since(k, first)' = Since(k, first)
      BY <2>1, SinceAppended
    <2>3. meta'[k].inserted = first
      BY <2>1
    <2>4. QED BY <2>1, <2>2, <2>3 DEF Since
  <1>3. [key |-> k, op |-> "insert"] # event
    OBVIOUS
  <1>4. /\ meta'[k].inserted \in DOMAIN log' /\ meta'[k].used \in DOMAIN log'
        /\ log'[meta'[k].inserted] = [key |-> k, op |-> "insert"]
        /\ log'[meta'[k].used].key = k /\ meta'[k].inserted <= meta'[k].used
    BY <1>1, LogAppended DEF Tells
  <1>5. /\ \A j \in DOMAIN log' : log'[j] = [key |-> k, op |-> "insert"] => j <= meta'[k].inserted
        /\ \A j \in DOMAIN log' : log'[j].key = k => j <= meta'[k].used
    BY <1>1, <1>3, LogAppended DEF Tells
  <1>6. QED BY <1>2, <1>4, <1>5 DEF Tells

\* record_insert begins the history of its entry anew.
LEMMA InsertTold ==
  ASSUME TypeOK, NEW k \in Keys, RecordInsert(k)
  PROVE  Tells(k)'
  <1> DEFINE event == [key |-> k, op |-> "insert"]
  <1>1. event \in LogType /\ log' = Append(log, event)
    BY DEF LogType, RecordInsert
  <1>2. meta'[k].inserted = Tick /\ meta'[k].used = Tick /\ meta'[k].count = 1
    BY DEF RecordInsert, TypeOK
  <1>3. event.key = k
    OBVIOUS
  <1> HIDE DEF event
  <1>4. /\ Tick \in DOMAIN log' /\ log'[Tick] = event
        /\ \A j \in DOMAIN log' : j <= Tick
    BY <1>1, LogAppended
  <1>5. Since(k, meta[k].inserted)' = {Tick}
    <2>1. \A i \in DOMAIN log' : i >= Tick <=> i = Tick
      BY <1>1, LogAppended
    <2>2. QED BY <1>2, <1>3, <1>4, <2>1 DEF Since
  <1>6. IsFiniteSet({Tick}) /\ Cardinality({Tick}) = 1
    BY FS_Singleton
  <1>7. Tick <= Tick
    BY <1>1, LogAppended
  <1>8. QED BY <1>2, <1>3, <1>4, <1>5, <1>6, <1>7 DEF Tells, event

\* record_hit adds one use to the history of its entry, the latest.
LEMMA HitTold ==
  ASSUME TypeOK, NEW k \in Keys, k \in tracked, RecordHit(k), Tells(k)
  PROVE  Tells(k)'
  <1> DEFINE event == [key |-> k, op |-> "hit"]
  <1>1. event \in LogType /\ log' = Append(log, event) /\ event.key = k
        /\ event # [key |-> k, op |-> "insert"]
    BY DEF LogType, RecordHit
  <1> HIDE DEF event
  <1>2. /\ meta'[k].inserted = meta[k].inserted /\ meta'[k].used = Tick
        /\ meta'[k].count = meta[k].count + 1
    BY DEF RecordHit, TypeOK
  <1>3. /\ meta[k].inserted \in Nat /\ meta[k].inserted \in DOMAIN log
        /\ meta[k].count \in Nat
    BY DEF TypeOK, Tells
  <1>4. PICK first \in Nat : first = meta[k].inserted
    BY <1>3
  <1>5. /\ first \in DOMAIN log /\ first \in DOMAIN log' /\ first < Tick /\ first <= Tick
        /\ log'[first] = [key |-> k, op |-> "insert"]
        /\ Tick \in DOMAIN log' /\ log'[Tick] = event /\ Tick \notin DOMAIN log
        /\ \A j \in DOMAIN log' : j <= Tick
    BY <1>1, <1>3, <1>4, LogAppended DEF Tells
  <1>6. \A j \in DOMAIN log' : log'[j] = [key |-> k, op |-> "insert"] => j <= first
    BY <1>1, <1>4, <1>5, LogAppended DEF Tells
  <1>7. Since(k, first)' = Since(k, first) \cup {Tick} /\ Tick \notin Since(k, first)
    BY <1>1, <1>5, SinceAppended DEF Since
  <1>8. /\ IsFiniteSet(Since(k, first)')
        /\ Cardinality(Since(k, first)') = meta[k].count + 1
    <2>1. IsFiniteSet(Since(k, first)) /\ Cardinality(Since(k, first)) = meta[k].count
      BY <1>4 DEF Tells
    <2>2. QED BY <1>7, <2>1, FS_AddElement
  <1>9. Since(k, meta[k].inserted)' = Since(k, first)'
    BY <1>2, <1>4 DEF Since
  <1>10. QED BY <1>1, <1>2, <1>4, <1>5, <1>6, <1>8, <1>9 DEF Tells

\* A call of the policy keeps what the metadata of every entry tells.
LEMMA RecordTold ==
  ASSUME TypeOK, HistoryInv, NEW k \in Keys,
         RecordInsert(k) \/ RecordHit(k) \/ RecordRemoval(k)
  PROVE  HistoryInv'
  <1> SUFFICES ASSUME NEW x \in tracked' PROVE Tells(x)'
    BY DEF HistoryInv
  <1>1. x \in Keys
    BY RecordType
  <1>2. CASE RecordInsert(k)
    <2>1. CASE x = k
      BY <1>2, <2>1, InsertTold
    <2>2. CASE x # k
      <3> DEFINE event == [key |-> k, op |-> "insert"]
      <3>1. event \in LogType /\ log' = Append(log, event) /\ event.key # x
        BY <1>2, <2>2 DEF LogType, RecordInsert
      <3>2. meta'[x] = meta[x] /\ x \in tracked
        BY <1>1, <1>2, <2>2 DEF RecordInsert, TypeOK
      <3> HIDE DEF event
      <3>3. QED BY <1>1, <3>1, <3>2, OthersTold DEF HistoryInv
    <2>3. QED BY <2>1, <2>2
  <1>3. CASE RecordHit(k) /\ k \in tracked
    <2>0. x \in tracked
      BY <1>3 DEF RecordHit
    <2>1. CASE x = k
      BY <1>3, <2>0, <2>1, HitTold DEF HistoryInv
    <2>2. CASE x # k
      <3> DEFINE event == [key |-> k, op |-> "hit"]
      <3>1. event \in LogType /\ log' = Append(log, event) /\ event.key # x
        BY <1>3, <2>2 DEF LogType, RecordHit
      <3>2. meta'[x] = meta[x]
        BY <1>1, <1>3, <2>2 DEF RecordHit, TypeOK
      <3> HIDE DEF event
      <3>3. QED BY <1>1, <2>0, <3>1, <3>2, OthersTold DEF HistoryInv
    <2>3. QED BY <2>1, <2>2
  <1>4. CASE RecordHit(k) /\ k \notin tracked
    BY <1>4 DEF RecordHit, HistoryInv, Tells, Since
  <1>5. CASE RecordRemoval(k)
    <2>1. x \in tracked /\ meta'[x] = meta[x] /\ log' = log
      BY <1>1, <1>5 DEF RecordRemoval, TypeOK
    <2>2. Tells(x)
      BY <2>1 DEF HistoryInv
    <2>3. QED BY <2>1, <2>2 DEF Tells, Since
  <1>6. QED BY <1>2, <1>3, <1>4, <1>5

LEMMA HistoryStep == TypeOK /\ HistoryInv /\ [Next]_vars => HistoryInv'
  <1> SUFFICES ASSUME TypeOK, HistoryInv, [Next]_vars PROVE HistoryInv'
    OBVIOUS
  <1>1. ASSUME UNCHANGED bookkeeping PROVE HistoryInv'
    <2> SUFFICES ASSUME NEW k \in tracked' PROVE Tells(k)'
      BY DEF HistoryInv
    <2>1. tracked' = tracked /\ meta' = meta /\ log' = log
      BY <1>1
    <2>2. \A first : Since(k, first)' = Since(k, first)
      BY <2>1 DEF Since
    <2>3. Tells(k)
      BY <2>1 DEF HistoryInv
    <2>4. QED BY <2>1, <2>2, <2>3 DEF Tells
  <1>2. ASSUME NEW t \in Threads, CallStep(t) PROVE HistoryInv'
    <2>1. CASE TouchEntry(t) \/ ForgetEntry(t) \/ TrackEntry(t) \/ UntrackEntry(t)
      <3>1. thread[t].key \in Keys
        BY DEF TypeOK
      <3>2. PICK k \in Keys : RecordInsert(k) \/ RecordHit(k) \/ RecordRemoval(k)
        BY <2>1, <3>1 DEF TouchEntry, ForgetEntry, TrackEntry, UntrackEntry
      <3>3. QED BY <3>2, RecordTold
    <2>2. CASE GetResponse(t) \/ RemoveForgotten(t) \/ IndexEntry(t) \/ CheckCapacity(t)
               \/ SelectVictim(t) \/ SelectVictimRaises(t) \/ RemoveVector(t)
               \/ DeleteResponse(t)
      BY <1>1, <2>2 DEF GetResponse, RemoveForgotten, IndexEntry, CheckCapacity,
         SelectVictim, SelectVictimRaises, RemoveVector, DeleteResponse
    <2>3. QED BY <1>2, <2>1, <2>2 DEF CallStep
  <1>3. ASSUME NEW t \in Threads, NEW k \in Keys,
               CallLookup(t, k) \/ CallPut(t, k) \/ CallInvalidate(t, k)
        PROVE  HistoryInv'
    BY <1>1, <1>3 DEF CallLookup, CallPut, CallInvalidate
  <1>4. CASE Restart
    BY <1>4 DEF Restart, HistoryInv
  <1>5. CASE UNCHANGED vars
    BY <1>1, <1>5 DEF vars
  <1>6. QED BY <1>2, <1>3, <1>4, <1>5 DEF Next

\* The counters of an entry and the events they stand for.
LEMMA CountersTell ==
  ASSUME TypeOK, HistoryInv, NEW k \in tracked
  PROVE  /\ LastInsert(k) = meta[k].inserted
         /\ LastUse(k) = meta[k].used
         /\ Cardinality(Uses(k)) = meta[k].count
  <1> DEFINE insertion == [key |-> k, op |-> "insert"]
  <1>1. /\ log \in Seq(LogType) /\ Len(log) \in Nat /\ DOMAIN log = 1..Len(log)
        /\ k \in Keys /\ Tells(k)
    BY DEF TypeOK, LogType, HistoryInv
  <1>2. /\ meta[k].inserted \in DOMAIN log /\ log[meta[k].inserted] = insertion
        /\ \A j \in DOMAIN log : log[j] = insertion => j <= meta[k].inserted
    BY <1>1 DEF Tells
  <1>3. LastInsert(k) = meta[k].inserted
    <2> DEFINE IsLast(i) == log[i] = insertion /\ \A j \in DOMAIN log : j > i => log[j] # log[i]
    <2>1. IsLast(meta[k].inserted)
      BY <1>1, <1>2
    <2>2. \A i \in DOMAIN log : IsLast(i) => i = meta[k].inserted
      <3> SUFFICES ASSUME NEW i \in DOMAIN log, IsLast(i) PROVE i = meta[k].inserted
        OBVIOUS
      <3>1. i <= meta[k].inserted
        BY <1>2
      <3>2. ~(meta[k].inserted > i)
        BY <1>2
      <3>3. QED BY <1>1, <1>2, <3>1, <3>2
    <2>3. LastInsert(k) = CHOOSE i \in DOMAIN log : IsLast(i)
      BY DEF LastInsert
    <2> HIDE DEF IsLast
    <2>4. QED BY <1>2, <2>1, <2>2, <2>3
  <1>4. Uses(k) = Since(k, meta[k].inserted)
    BY <1>3 DEF Uses, Since
  <1>5. LastUse(k) = meta[k].used
    <2>1. meta[k].used \in Uses(k) /\ \A j \in Uses(k) : j <= meta[k].used
      BY <1>1, <1>4 DEF Tells, Since
    <2>2. Uses(k) \subseteq Nat
      BY <1>1, <1>4 DEF Since
    <2>3. \A i \in Uses(k) : (\A j \in Uses(k) : j <= i) => i = meta[k].used
      BY <2>1, <2>2
    <2>4. QED BY <2>1, <2>3 DEF LastUse
  <1>6. QED BY <1>1, <1>3, <1>4, <1>5 DEF Tells

\* A put turns to the removal of a victim only by its selection.
LEMMA OnlySelects ==
  ASSUME TypeOK, [Next]_vars, NEW t \in Threads,
         thread[t].at = "full", thread'[t].at = "removing"
  PROVE  /\ thread'[t].key \in tracked
         /\ \A k \in tracked \ {thread'[t].key} : SortsBefore(thread'[t].key, k)
  <1>0. thread[t] \in ThreadType /\ thread \in [Threads -> ThreadType]
    BY DEF TypeOK, ThreadType
  <1>1. ASSUME NEW u \in Threads, NEW k \in Keys,
               CallLookup(u, k) \/ CallPut(u, k) \/ CallInvalidate(u, k)
        PROVE  FALSE
    <2>1. \E at \in {"accepted", "stored", "removing"} : Calls(u, k, at)
      BY <1>1 DEF CallLookup, CallPut, CallInvalidate
    <2>2. thread[u].at = "idle" /\ \A w \in Threads : w # u => thread'[w] = thread[w]
      BY <2>1, CallsType DEF Points
    <2>3. QED BY <2>2
  <1>2. ASSUME NEW u \in Threads, CallStep(u), ~SelectVictim(u)
        PROVE  FALSE
    <2>1. /\ \A w \in Threads : w # u => thread'[w] = thread[w]
          /\ thread'[u].at # "removing"
      BY <1>2, MovesType, ReturnsType DEF CallStep, GetResponse, TouchEntry, ForgetEntry,
         RemoveForgotten, IndexEntry, TrackEntry, CheckCapacity, SelectVictimRaises,
         UntrackEntry, RemoveVector, DeleteResponse, Points
    <2>2. QED BY <2>1
  <1>3. ASSUME NEW u \in Threads, SelectVictim(u), u # t
        PROVE  FALSE
    <2>1. thread'[t] = thread[t]
      BY <1>0, <1>3 DEF SelectVictim, Returns
    <2>2. QED BY <2>1
  <1>4. ~Restart
    BY DEF Restart, Idle
  <1>5. ~UNCHANGED vars
    BY DEF vars
  <1>6. SelectVictim(t)
    <2>1. PICK u \in Threads : CallStep(u)
      BY <1>1, <1>4, <1>5 DEF Next
    <2>2. SelectVictim(u)
      BY <1>2, <2>1
    <2>3. QED BY <1>3, <2>2
  <1>7. ~Returns(t)
    BY ReturnsType
  <1>8. PICK v \in tracked :
           /\ IsVictim(v)
           /\ thread' = [thread EXCEPT ![t] = [at |-> "removing", key |-> v, put |-> TRUE]]
    BY <1>6, <1>7 DEF SelectVictim
  <1>9. thread'[t].key = v
    BY <1>0, <1>8
  <1>10. QED BY <1>8, <1>9 DEF IsVictim

\* Each of the three policies evicts the entry its name says, by what happened
\* to the entries and not by the counters kept of it.
THEOREM VictimFollowsHistory == Spec => VictimByHistory
  <1>1. ASSUME TypeOK, HistoryInv, [Next]_vars, NEW t \in Threads,
               thread[t].at = "full", thread'[t].at = "removing",
               NEW v, v = thread'[t].key, NEW k \in tracked \ {v}
        PROVE  CASE policy = "fifo" -> LastInsert(v) < LastInsert(k)
                 [] policy = "lru"  -> LastUse(v) < LastUse(k)
                 [] policy = "lfu"  ->
                      /\ Cardinality(Uses(v)) <= Cardinality(Uses(k))
                      /\ Cardinality(Uses(v)) = Cardinality(Uses(k))
                           => LastUse(v) < LastUse(k)
    <2>1. v \in tracked /\ SortsBefore(v, k)
      BY <1>1, OnlySelects
    <2>2. /\ LastInsert(v) = meta[v].inserted /\ LastUse(v) = meta[v].used
          /\ Cardinality(Uses(v)) = meta[v].count
      BY <1>1, <2>1, CountersTell
    <2>3. /\ LastInsert(k) = meta[k].inserted /\ LastUse(k) = meta[k].used
          /\ Cardinality(Uses(k)) = meta[k].count
      BY <1>1, CountersTell
    <2>4. policy \in {"lru", "lfu", "fifo"}
      BY <1>1, GatewayAssumption DEF TypeOK
    <2>5. meta[v].count \in Nat /\ meta[k].count \in Nat
      BY <1>1, <2>1 DEF TypeOK
    <2>6. /\ policy = "fifo" => meta[v].inserted < meta[k].inserted
          /\ policy = "lru" => meta[v].used < meta[k].used
          /\ policy = "lfu" => /\ meta[v].count <= meta[k].count
                               /\ meta[v].count = meta[k].count
                                    => meta[v].used < meta[k].used
      <3>1. CASE policy = "fifo"
        BY <2>1, <3>1 DEF SortsBefore
      <3>2. CASE policy = "lru"
        BY <2>1, <3>2 DEF SortsBefore
      <3>3. CASE policy = "lfu"
        BY <2>1, <2>5, <3>3 DEF SortsBefore
      <3>4. QED BY <2>4, <3>1, <3>2, <3>3
    <2>7. CASE policy = "fifo"
      BY <2>2, <2>3, <2>6, <2>7
    <2>8. CASE policy = "lru"
      BY <2>2, <2>3, <2>6, <2>8
    <2>9. CASE policy = "lfu"
      BY <2>2, <2>3, <2>6, <2>9
    <2>10. QED BY <2>4, <2>7, <2>8, <2>9
  <1>2. TypeOK /\ HistoryInv /\ [Next]_vars =>
          [\A t \in Threads :
             thread[t].at = "full" /\ thread'[t].at = "removing" =>
               LET v == thread'[t].key
               IN  \A k \in tracked \ {v} :
                     CASE policy = "fifo" -> LastInsert(v) < LastInsert(k)
                       [] policy = "lru"  -> LastUse(v) < LastUse(k)
                       [] policy = "lfu"  ->
                            /\ Cardinality(Uses(v)) <= Cardinality(Uses(k))
                            /\ Cardinality(Uses(v)) = Cardinality(Uses(k))
                                 => LastUse(v) < LastUse(k)]_vars
    BY <1>1
  <1>3. Init => HistoryInv
    BY DEF Init, HistoryInv
  <1>4. QED BY <1>2, <1>3, HistoryStep, TypeCorrect, PTL DEF Spec, VictimByHistory

=============================================================================
