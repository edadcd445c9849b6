------------------------- MODULE FaissOutbox_proofs -------------------------
(***************************************************************************)
(* Theorems about FaissOutbox: what the transactions, the outbox and the   *)
(* indexer promise of each other, for any number of keys, clients, writes, *)
(* crashes and exceptions and any size of the batches.  And about SqlAudit:*)
(* what the audit tables hold, for any number of sessions, calls, queries  *)
(* and candidates, on each engine.                                         *)
(***************************************************************************)
EXTENDS FaissOutbox, SqlAudit, FiniteSetTheorems, SequenceTheorems, TLAPS

USE DEF database, index

(***************************************************************************)
(* Types                                                                   *)
(***************************************************************************)
IndexerType == [at : {"idle", "next", "read", "added", "applied"},
                batch : SUBSET Event, content : Contents, fits : BOOLEAN]
ClientType == [at : {"idle", "found", "accepted", "missing", "tombstoned"},
               key : Keys]

LEMMA IdleTypes == /\ IdleIndexer \in IndexerType
                   /\ IdleClient \in ClientType
                   /\ NoContent \in Contents
  <1>1. AnyKey \in Keys
    BY OutboxAssumption DEF AnyKey
  <1>2. NoContent \in Contents
    BY OutboxAssumption DEF NoContent, Contents
  <1>3. QED
    BY <1>1, <1>2 DEF IdleIndexer, IndexerType, IdleClient, ClientType

LEMMA InitType == Init => TypeOK
  <1> SUFFICES ASSUME Init PROVE TypeOK
    OBVIOUS
  <1>1. row \in [Keys -> RowType]
    BY IdleTypes DEF Init, RowType, Statuses
  <1>2. indexer \in IndexerType /\ client \in [Clients -> ClientType]
    BY IdleTypes DEF Init
  <1>3. 0 \in 0..MaxWrites /\ 0 \in 0..MaxFaults
    BY OutboxAssumption
  <1>4. vectors \in [Keys -> Contents] /\ file \in [Keys -> Contents]
    BY IdleTypes DEF Init, NoVectors
  <1>5. outbox = {} /\ local = {} /\ writes = 0 /\ faults = 0
    BY DEF Init
  <1>6. QED
    BY <1>1, <1>2, <1>3, <1>4, <1>5 DEF TypeOK, IndexerType, ClientType

LEMMA WriteType ==
  ASSUME TypeOK, NEW k \in Keys, NEW fits \in BOOLEAN,
         InsertPending(k, fits) \/ Tombstone(k)
  PROVE  /\ row' \in [Keys -> RowType]
         /\ outbox' \in SUBSET Event
         /\ writes' \in 0..MaxWrites
         /\ writes' = writes + 1 /\ writes \in Nat
         /\ writes + 1 \in 1..MaxWrites
  <1>1. /\ writes \in 0..MaxWrites /\ MaxWrites \in Nat /\ writes < MaxWrites
        /\ writes' = writes + 1
    BY OutboxAssumption DEF TypeOK, InsertPending, Tombstone
  <1>2. writes' \in 0..MaxWrites /\ writes + 1 \in 1..MaxWrites /\ writes \in Nat
    BY <1>1
  <1>3. CASE InsertPending(k, fits)
    <2>1. [status |-> "PENDING_INDEX", content |-> writes + 1, fits |-> fits]
            \in RowType
      BY <1>1 DEF RowType, Statuses, Contents
    <2>2. [id |-> writes + 1, type |-> "UPSERT_ENTRY", key |-> k] \in Event
      BY <1>2 DEF Event
    <2>3. QED BY <1>1, <1>2, <1>3, <2>1, <2>2 DEF InsertPending, TypeOK
  <1>4. CASE Tombstone(k)
    <2>1. row[k] \in RowType
      BY DEF TypeOK
    <2>2. \A s \in Statuses : [row[k] EXCEPT !.status = s] \in RowType
      BY <2>1 DEF RowType
    <2>3. row[k].status \in Statuses
      BY <2>1 DEF RowType
    <2>4. row' \in [Keys -> RowType]
      BY <1>4, <2>1, <2>2, <2>3 DEF Tombstone, TypeOK, Statuses
    <2>5. [id |-> writes + 1, type |-> "DELETE_ENTRY", key |-> k] \in Event
      BY <1>2 DEF Event
    <2>6. QED BY <1>1, <1>2, <1>4, <2>4, <2>5 DEF Tombstone, TypeOK
  <1>5. QED BY <1>3, <1>4

LEMMA DeleteVectorType ==
  ASSUME TypeOK, NEW k \in Keys, DeleteVector(k) \/ UNCHANGED index
  PROVE  /\ vectors' \in [Keys -> Contents]
         /\ local' \in SUBSET Keys
  BY IdleTypes DEF DeleteVector, TypeOK

LEMMA ClientMoves ==
  ASSUME TypeOK, NEW c \in Clients,
         \/ Finishes(c)
         \/ \E k \in Keys, at \in {"found", "accepted", "missing", "tombstoned"} :
               Moves(c, at, k)
  PROVE  client' \in [Clients -> ClientType]
  BY IdleTypes DEF Finishes, Moves, TypeOK, ClientType

LEMMA ClientStepType ==
  ASSUME TypeOK, NEW c \in Clients, ClientStep(c)
  PROVE  TypeOK'
  <1>0. client[c] \in ClientType /\ client[c].key \in Keys
    BY DEF TypeOK, ClientType
  <1>1. ASSUME NEW k \in Keys, InvalidateRow(c, k)
        PROVE  TypeOK'
    <2>1. /\ row' \in [Keys -> RowType]
          /\ outbox' \in SUBSET Event
          /\ writes' \in 0..MaxWrites
      BY <1>1, WriteType DEF InvalidateRow
    <2>2. client' \in [Clients -> ClientType]
      BY <1>1, ClientMoves DEF InvalidateRow
    <2>3. QED
      BY <1>1, <2>1, <2>2 DEF InvalidateRow, TypeOK, ClientType
  <1>2. ASSUME NEW k \in Keys, SearchVectors(c, k)
        PROVE  TypeOK'
    <2>1. client' \in [Clients -> ClientType]
      BY <1>2, ClientMoves DEF SearchVectors
    <2>2. QED BY <1>2, <2>1 DEF SearchVectors, TypeOK, ClientType
  <1>3. CASE InvalidateVector(c) \/ RemoveMissing(c)
    <2>1. client' \in [Clients -> ClientType]
      BY <1>3, ClientMoves DEF InvalidateVector, RemoveMissing
    <2>2. DeleteVector(client[c].key) \/ UNCHANGED index
      BY <1>3 DEF InvalidateVector, RemoveMissing
    <2>3. vectors' \in [Keys -> Contents] /\ local' \in SUBSET Keys
      BY <1>0, <2>2, DeleteVectorType
    <2>4. UNCHANGED <<database, file, indexer, faults>>
      BY <1>3 DEF InvalidateVector, RemoveMissing
    <2>5. QED BY <2>1, <2>3, <2>4 DEF TypeOK, ClientType
  <1>4. CASE ResolveRow(c) \/ GetPayload(c)
    <2>1. client' \in [Clients -> ClientType]
      BY <1>0, <1>4, ClientMoves DEF ResolveRow, GetPayload
    <2>2. UNCHANGED <<database, index, file, indexer, faults>>
      BY <1>4 DEF ResolveRow, GetPayload
    <2>3. QED BY <2>1, <2>2 DEF TypeOK, ClientType
  <1>5. QED BY <1>1, <1>2, <1>3, <1>4 DEF ClientStep

LEMMA NextEventType ==
  ASSUME TypeOK, NEW e \in indexer.batch, NextEvent(e)
  PROVE  /\ indexer' \in IndexerType
         /\ indexer'.batch = indexer.batch \ {e}
         /\ indexer'.at \in {"idle", "next"}
  <1>1. indexer.batch \in SUBSET Event
    BY DEF TypeOK
  <1>2. indexer' = [at |-> IF indexer.batch \ {e} = {} THEN "idle" ELSE "next",
                    batch |-> indexer.batch \ {e},
                    content |-> NoContent, fits |-> TRUE]
    BY DEF NextEvent, IdleIndexer
  <1>3. QED BY <1>1, <1>2, IdleTypes DEF IndexerType

LEMMA IndexerStepType ==
  ASSUME TypeOK, IndexerStep
  PROVE  TypeOK'
  <1>0. indexer \in IndexerType /\ indexer.batch \in SUBSET Event
    BY DEF TypeOK, IndexerType
  <1> USE DEF TypeOK
  <1>1. CASE ReadBatch
    <2>1. PICK b \in SUBSET outbox :
             indexer' = [indexer EXCEPT !.at = "next", !.batch = b]
      BY <1>1 DEF ReadBatch
    <2>2. indexer' \in IndexerType
      BY <1>0, <2>1 DEF IndexerType
    <2>3. QED BY <1>1, <2>2 DEF ReadBatch, IndexerType
  <1>2. ASSUME NEW e \in indexer.batch, ReadEntry(e) PROVE TypeOK'
    <2>1. row[e.key] \in RowType
      BY <1>0 DEF Event
    <2>2. row[e.key].content \in Contents /\ row[e.key].fits \in BOOLEAN
      BY <2>1 DEF RowType
    <2>3. CASE row[e.key].status = "PENDING_INDEX"
      <3>1. indexer' = [indexer EXCEPT !.at = "read",
                                       !.content = row[e.key].content,
                                       !.fits = row[e.key].fits]
        BY <1>2, <2>3 DEF ReadEntry
      <3>2. indexer' \in IndexerType
        BY <1>0, <2>2, <3>1 DEF IndexerType
      <3>3. QED BY <1>2, <3>2 DEF ReadEntry, IndexerType
    <2>4. CASE row[e.key].status # "PENDING_INDEX"
      <3>1. indexer' \in IndexerType
        BY <1>2, <2>4, NextEventType DEF ReadEntry
      <3>2. QED BY <1>2, <3>1 DEF ReadEntry, IndexerType
    <2>5. QED BY <2>3, <2>4
  <1>3. ASSUME NEW e \in indexer.batch, IndexEntry(e) PROVE TypeOK'
    <2>1. e.key \in Keys /\ indexer.content \in Contents
      BY <1>0 DEF Event, IndexerType
    <2>2. indexer' \in IndexerType
      BY <1>0, <1>3 DEF IndexEntry, IndexerType
    <2>3. QED BY <1>3, <2>1, <2>2 DEF IndexEntry, AddVector, IndexerType
  <1>4. ASSUME NEW e \in indexer.batch, IndexEntryRaises(e) PROVE TypeOK'
    BY <1>4, IdleTypes DEF IndexEntryRaises, IndexerType
  <1>5. ASSUME NEW e \in indexer.batch, MarkEntry(e) PROVE TypeOK'
    <2>1. row[e.key] \in RowType /\ e.key \in Keys
      BY <1>0 DEF Event
    <2>2. [row[e.key] EXCEPT !.status =
             IF @ = "PENDING_INDEX" THEN "ACTIVE" ELSE @] \in RowType
      BY <2>1 DEF RowType, Statuses
    <2>3. row' \in [Keys -> RowType]
      BY <1>5, <2>1, <2>2 DEF MarkEntry, MarkIndexed
    <2>4. indexer' \in IndexerType
      BY <1>0, <1>5 DEF MarkEntry, IndexerType
    <2>5. QED BY <1>5, <2>3, <2>4 DEF MarkEntry, IndexerType
  <1>6. ASSUME NEW e \in indexer.batch, RemoveEntry(e) PROVE TypeOK'
    <2>1. vectors' \in [Keys -> Contents] /\ local' \in SUBSET Keys
      BY <1>0, <1>6, DeleteVectorType DEF RemoveEntry, Event
    <2>2. indexer' \in IndexerType
      BY <1>0, <1>6 DEF RemoveEntry, IndexerType
    <2>3. QED BY <1>6, <2>1, <2>2 DEF RemoveEntry, IndexerType
  <1>7. ASSUME NEW e \in indexer.batch, FinishEvent(e) PROVE TypeOK'
    <2>1. indexer' \in IndexerType
      BY <1>7, NextEventType DEF FinishEvent
    <2>2. QED BY <1>7, <2>1 DEF FinishEvent, MarkProcessed, IndexerType
  <1>8. QED
    BY <1>1, <1>2, <1>3, <1>4, <1>5, <1>6, <1>7 DEF IndexerStep

LEMMA StepType == TypeOK /\ [Next]_vars => TypeOK'
  <1> SUFFICES ASSUME TypeOK, [Next]_vars PROVE TypeOK'
    OBVIOUS
  <1>1. CASE Write
    <2>1. PICK k \in Keys, fits \in BOOLEAN : Put(k, fits)
      BY <1>1 DEF Write
    <2>2. /\ row' \in [Keys -> RowType]
          /\ outbox' \in SUBSET Event
          /\ writes' \in 0..MaxWrites
      BY <2>1, WriteType DEF Put
    <2>3. QED BY <2>1, <2>2 DEF Put, TypeOK
  <1>2. CASE SaveSnapshot
    BY <1>2 DEF SaveSnapshot, TypeOK
  <1>3. CASE IndexerRaises \/ Restart
    <2>1. faults' \in 0..MaxFaults
      <3>1. /\ faults \in 0..MaxFaults /\ MaxFaults \in Nat
            /\ faults < MaxFaults /\ faults' = faults + 1
        BY <1>3, OutboxAssumption DEF IndexerRaises, Restart, TypeOK
      <3>2. QED BY <3>1
    <2>2. CASE IndexerRaises
      BY <2>1, <2>2, IdleTypes DEF IndexerRaises, TypeOK, IndexerType
    <2>3. CASE Restart
      <3>1. client' \in [Clients -> ClientType] /\ indexer' \in IndexerType
        BY <2>3, IdleTypes DEF Restart
      <3>2. QED BY <2>1, <2>3, <3>1 DEF Restart, TypeOK, ClientType, IndexerType
    <2>4. QED BY <1>3, <2>2, <2>3
  <1>4. CASE UNCHANGED vars
    BY <1>4 DEF vars, TypeOK
  <1>5. QED
    BY <1>1, <1>2, <1>3, <1>4, ClientStepType, IndexerStepType DEF Next

\* Every variable keeps its type.
THEOREM TypeCorrect == Spec => []TypeOK
  BY InitType, StepType, PTL DEF Spec

(***************************************************************************)
(* The outbox and the indexer                                              *)
(***************************************************************************)
Ordered ==
    /\ \A e \in outbox : e.id <= writes
    /\ \A e, f \in outbox : e.id = f.id => e = f
    /\ indexer.batch \subseteq outbox

\* The content of a row is the id of the put that wrote it.
Named ==
    \A k \in Keys :
        /\ row[k].content <= writes
        /\ \A e \in outbox :
              e.id = row[k].content => e.key = k /\ e.type = "UPSERT_ENTRY"

\* The put that wrote the row has an event, and e is another one.
OtherEvent(e) == \E f \in outbox \ {e} : f.id = row[e.key].content

\* What holds of the event the indexer is at, with its entry read, its vector
\* added, and the event applied.
Reading(e) ==
    indexer.at \in {"read", "added"} =>
        /\ e.type = "UPSERT_ENTRY"
        /\ row[e.key].status = "TOMBSTONED" => HasEvent(e.key, "DELETE_ENTRY")
        /\ row[e.key].content # indexer.content => OtherEvent(e)

Adding(e) ==
    indexer.at = "added" /\ e.key \in local => vectors[e.key] = indexer.content

Applying(e) ==
    indexer.at = "applied" =>
        /\ row[e.key].status = "PENDING_INDEX"
             => \E f \in outbox \ {e} : f.key = e.key /\ f.type = "UPSERT_ENTRY"
        /\ e.type = "DELETE_ENTRY" => e.key \notin local
        /\ row[e.key].status = "ACTIVE" /\ e.key \in local
             => vectors[e.key] = row[e.key].content \/ OtherEvent(e)

AtWork ==
    \A e \in indexer.batch :
        IsCurrent(e) => Reading(e) /\ Adding(e) /\ Applying(e)

OutboxInv ==
    /\ TypeOK
    /\ Ordered
    /\ Named
    /\ AtWork
    /\ PendingRowHasEvent
    /\ TombstonedVectorHasEvent
    /\ StaleVectorHasEvent

LEMMA OutboxInit == Init => OutboxInv
  <1> SUFFICES ASSUME Init PROVE OutboxInv
    OBVIOUS
  <1>1. /\ outbox = {} /\ local = {} /\ writes = 0
        /\ indexer.batch = {}
        /\ \A k \in Keys : row[k].status = "ABSENT" /\ row[k].content = 0
    BY DEF Init, IdleIndexer, NoContent
  <1>2. TypeOK
    BY InitType
  <1>3. QED
    BY <1>1, <1>2 DEF OutboxInv, Ordered, Named, AtWork, PendingRowHasEvent,
                      TombstonedVectorHasEvent, StaleVectorHasEvent

\* One event at a time.
LEMMA OneCurrent ==
  ASSUME TypeOK, Ordered, NEW e \in indexer.batch, NEW f \in indexer.batch,
         IsCurrent(e), IsCurrent(f)
  PROVE  e = f
  <1>1. e \in Event /\ f \in Event /\ e \in outbox /\ f \in outbox
    BY DEF TypeOK, Ordered
  <1>2. e.id \in Nat /\ f.id \in Nat /\ e.id <= f.id /\ f.id <= e.id
    BY <1>1, OutboxAssumption DEF Event, IsCurrent
  <1>3. QED BY <1>1, <1>2 DEF Ordered

\* Steps that leave the database alone, take vectors away at most, and leave
\* the indexer where it is or between two events.
LEMMA QuietStep ==
  ASSUME OutboxInv, TypeOK',
         UNCHANGED <<row, outbox, writes>>,
         local' \subseteq local,
         \A k \in local' : vectors'[k] = vectors[k],
         \/ indexer' = indexer
         \/ indexer'.batch \subseteq outbox /\ indexer'.at \in {"idle", "next"}
  PROVE  OutboxInv'
  <1>1. Ordered' /\ Named' /\ PendingRowHasEvent'
    BY DEF OutboxInv, Ordered, Named, PendingRowHasEvent, HasEvent
  <1>2. TombstonedVectorHasEvent'
    BY DEF OutboxInv, TombstonedVectorHasEvent, HasEvent
  <1>3. StaleVectorHasEvent'
    BY DEF OutboxInv, StaleVectorHasEvent
  <1>4. AtWork'
    <2>1. CASE indexer' = indexer
      <3> SUFFICES ASSUME NEW e \in indexer.batch, IsCurrent(e)
                   PROVE  (Reading(e) /\ Adding(e) /\ Applying(e))'
        BY <2>1 DEF AtWork, IsCurrent
      <3>1. Reading(e) /\ Adding(e) /\ Applying(e)
        BY DEF OutboxInv, AtWork
      <3>2. Reading(e)'
        BY <2>1, <3>1 DEF Reading, HasEvent, OtherEvent
      <3>3. Adding(e)'
        BY <2>1, <3>1 DEF Adding
      <3>4. OtherEvent(e)' <=> OtherEvent(e)
        BY DEF OtherEvent
      <3>5. Applying(e)'
        <4> SUFFICES ASSUME indexer.at = "applied" PROVE Applying(e)'
          BY <2>1 DEF Applying
        <4>1. /\ row[e.key].status = "PENDING_INDEX"
                   => \E f \in outbox \ {e} : f.key = e.key /\ f.type = "UPSERT_ENTRY"
              /\ e.type = "DELETE_ENTRY" => e.key \notin local
              /\ row[e.key].status = "ACTIVE" /\ e.key \in local
                   => vectors[e.key] = row[e.key].content \/ OtherEvent(e)
          BY <3>1 DEF Applying
        <4>2. row' = row /\ outbox' = outbox
          OBVIOUS
        <4>3. row[e.key].status = "ACTIVE" /\ e.key \in local'
                => vectors'[e.key] = row[e.key].content \/ OtherEvent(e)'
          BY <3>4, <4>1
        <4>4. QED BY <2>1, <4>1, <4>2, <4>3 DEF Applying
      <3>6. QED BY <3>2, <3>3, <3>5
    <2>2. CASE indexer'.at \in {"idle", "next"}
      BY <2>2 DEF AtWork, Reading, Adding, Applying
    <2>3. QED BY <2>1, <2>2
  <1>5. QED
    BY <1>1, <1>2, <1>3, <1>4 DEF OutboxInv

\* A put or an invalidation: the event it adds is newer than all others.
LEMMA WriteStep ==
  ASSUME OutboxInv, NEW k \in Keys, NEW fits \in BOOLEAN,
         InsertPending(k, fits) \/ Tombstone(k),
         TypeOK', UNCHANGED <<vectors, local, indexer>>
  PROVE  OutboxInv'
  <1> DEFINE type == IF InsertPending(k, fits) THEN "UPSERT_ENTRY" ELSE "DELETE_ENTRY"
             new == [id |-> writes + 1, type |-> type, key |-> k]
  <1>0. TypeOK /\ writes \in Nat /\ writes' = writes + 1
    BY WriteType DEF OutboxInv
  <1>1. /\ outbox' = outbox \cup {new}
        /\ \A j \in Keys : j # k => row'[j] = row[j]
    BY <1>0 DEF InsertPending, Tombstone, TypeOK
  <1>2. ASSUME InsertPending(k, fits)
        PROVE  /\ row'[k].status = "PENDING_INDEX"
               /\ row'[k].content = writes + 1
               /\ new.type = "UPSERT_ENTRY"
    BY <1>0, <1>2 DEF InsertPending, TypeOK
  <1>3. ASSUME ~InsertPending(k, fits)
        PROVE  /\ row'[k].status \in {"ABSENT", "TOMBSTONED"}
               /\ row'[k].status = "ABSENT" => row[k].status = "ABSENT"
               /\ row'[k].content = row[k].content
               /\ new.type = "DELETE_ENTRY"
    <2>1. row' = [row EXCEPT ![k].status =
                    IF @ = "ABSENT" THEN @ ELSE "TOMBSTONED"]
      BY <1>3 DEF Tombstone
    <2>2. row[k] \in RowType
      BY <1>0 DEF TypeOK
    <2>3. row'[k] = [row[k] EXCEPT !.status =
                       IF @ = "ABSENT" THEN @ ELSE "TOMBSTONED"]
      BY <1>0, <2>1 DEF TypeOK
    <2>4. QED BY <1>3, <2>2, <2>3 DEF RowType
  <1>4. /\ new.id = writes + 1 /\ new.key = k
        /\ \A e \in outbox : e.id \in Nat /\ e.id <= writes
        /\ \A j \in Keys : row[j].content \in Nat /\ row[j].content <= writes
        /\ new \notin outbox
    <2>1. \A e \in outbox : e.id \in Nat
      BY <1>0, OutboxAssumption DEF TypeOK, Event
    <2>2. \A j \in Keys : row[j].content \in Nat
      BY <1>0, OutboxAssumption DEF TypeOK, RowType, Contents
    <2>3. /\ \A e \in outbox : e.id <= writes
          /\ \A j \in Keys : row[j].content <= writes
      BY DEF OutboxInv, Ordered, Named
    <2>4. QED BY <1>0, <2>1, <2>2, <2>3
  <1> HIDE DEF new
  <1>5. Ordered'
    BY <1>0, <1>1, <1>4 DEF OutboxInv, Ordered
  <1>6. Named'
    <2> SUFFICES ASSUME NEW j \in Keys
                 PROVE  /\ row'[j].content <= writes'
                        /\ \A e \in outbox' : e.id = row'[j].content
                              => e.key = j /\ e.type = "UPSERT_ENTRY"
      BY DEF Named
    <2>1. CASE row'[j].content = row[j].content
      BY <1>0, <1>1, <1>4, <2>1 DEF OutboxInv, Named
    <2>2. CASE j = k /\ InsertPending(k, fits)
      BY <1>0, <1>1, <1>2, <1>4, <2>2
    <2>3. QED BY <1>1, <1>3, <2>1, <2>2
  <1>7. PendingRowHasEvent'
    BY <1>1, <1>2, <1>3, <1>4 DEF OutboxInv, PendingRowHasEvent, HasEvent
  <1>8. TombstonedVectorHasEvent'
    <2>1. local \subseteq Keys
      BY <1>0 DEF TypeOK
    <2>2. QED
      BY <1>1, <1>2, <1>3, <1>4, <2>1 DEF OutboxInv, TombstonedVectorHasEvent, HasEvent
  <1>9. StaleVectorHasEvent'
    <2>1. local \subseteq Keys
      BY <1>0 DEF TypeOK
    <2>2. QED
      BY <1>1, <1>2, <1>3, <2>1 DEF OutboxInv, StaleVectorHasEvent
  <1>10. AtWork'
    <2> SUFFICES ASSUME NEW e \in indexer.batch, IsCurrent(e)
                 PROVE  (Reading(e) /\ Adding(e) /\ Applying(e))'
      BY DEF AtWork, IsCurrent
    <2>1. Reading(e) /\ Adding(e) /\ Applying(e)
      BY DEF OutboxInv, AtWork
    <2>2. e \in outbox /\ e.key \in Keys /\ e # new
      BY <1>0, <1>4 DEF OutboxInv, Ordered, TypeOK, Event
    <2>3. CASE e.key # k
      BY <1>1, <2>1, <2>2, <2>3
         DEF Reading, Adding, Applying, HasEvent, OtherEvent
    <2>4. CASE e.key = k /\ InsertPending(k, fits)
      <3>1. OtherEvent(e)'
        BY <1>1, <1>2, <1>4, <2>2, <2>4 DEF OtherEvent
      <3>2. Reading(e)' /\ Adding(e)'
        BY <1>2, <2>1, <2>4, <3>1 DEF Reading, Adding
      <3>3. new \in outbox' \ {e} /\ new.key = e.key /\ new.type = "UPSERT_ENTRY"
        BY <1>1, <1>2, <1>4, <2>2, <2>4
      <3>4. indexer.at = "applied" /\ e.type = "DELETE_ENTRY" => e.key \notin local
        BY <2>1 DEF Applying
      <3>5. Applying(e)'
        BY <3>1, <3>3, <3>4 DEF Applying
      <3>6. QED BY <3>2, <3>5
    <2>5. CASE e.key = k /\ ~InsertPending(k, fits)
      <3>1. row[e.key].content # indexer.content /\ OtherEvent(e)
              => OtherEvent(e)'
        BY <1>1, <1>3, <2>5 DEF OtherEvent
      <3>2. HasEvent(k, "DELETE_ENTRY")'
        BY <1>1, <1>3, <1>4, <2>5 DEF HasEvent
      <3>3. Reading(e)' /\ Adding(e)'
        BY <1>3, <2>1, <2>5, <3>1, <3>2 DEF Reading, Adding
      <3>4. indexer.at = "applied" /\ e.type = "DELETE_ENTRY" => e.key \notin local
        BY <2>1 DEF Applying
      <3>5. row'[e.key].status \notin {"PENDING_INDEX", "ACTIVE"}
        BY <1>3, <2>5
      <3>6. Applying(e)'
        BY <3>4, <3>5 DEF Applying
      <3>7. QED BY <3>3, <3>6
    <2>6. QED BY <2>3, <2>4, <2>5
  <1>11. QED
    BY <1>5, <1>6, <1>7, <1>8, <1>9, <1>10 DEF OutboxInv

\* The entry is read: nothing has come in between yet.
LEMMA ReadEntryStep ==
  ASSUME OutboxInv, TypeOK', NEW e \in indexer.batch, ReadEntry(e)
  PROVE  OutboxInv'
  <1>0. /\ TypeOK /\ Ordered
        /\ indexer \in IndexerType
        /\ indexer.batch \subseteq outbox
    BY DEF OutboxInv, Ordered, TypeOK, IndexerType
  <1>1. CASE row[e.key].status # "PENDING_INDEX"
    <2>1. NextEvent(e) /\ UNCHANGED <<database, index>>
      BY <1>1 DEF ReadEntry
    <2>2. indexer'.batch \subseteq outbox /\ indexer'.at \in {"idle", "next"}
      BY <1>0, <2>1, NextEventType
    <2>3. QED BY <2>1, <2>2, QuietStep
  <1>2. CASE row[e.key].status = "PENDING_INDEX"
    <2>1. /\ indexer' = [indexer EXCEPT !.at = "read",
                                        !.content = row[e.key].content,
                                        !.fits = row[e.key].fits]
          /\ UNCHANGED <<row, outbox, writes, vectors, local>>
          /\ IsCurrent(e) /\ e.type = "UPSERT_ENTRY"
      BY <1>2 DEF ReadEntry
    <2>2. /\ indexer'.at = "read"
          /\ indexer'.content = row[e.key].content
          /\ indexer'.batch = indexer.batch
      BY <1>0, <2>1 DEF IndexerType
    <2>3. /\ Ordered' /\ Named' /\ PendingRowHasEvent'
          /\ TombstonedVectorHasEvent' /\ StaleVectorHasEvent'
      BY <2>1, <2>2 DEF OutboxInv, Ordered, Named, PendingRowHasEvent, HasEvent,
                        TombstonedVectorHasEvent, StaleVectorHasEvent
    <2>4. AtWork'
      <3> SUFFICES ASSUME NEW d \in indexer.batch, IsCurrent(d)
                   PROVE  (Reading(d) /\ Adding(d) /\ Applying(d))'
        BY <2>2 DEF AtWork, IsCurrent
      <3>1. d = e
        BY <1>0, <2>1, OneCurrent
      <3>2. Adding(d)' /\ Applying(d)'
        BY <2>2 DEF Adding, Applying
      <3>3. Reading(d)'
        BY <1>2, <2>1, <2>2, <3>1 DEF Reading
      <3>4. QED BY <3>2, <3>3
    <2>5. QED BY <2>3, <2>4 DEF OutboxInv
  <1>3. QED BY <1>1, <1>2

\* The vector is added: if the row has moved on, its put or its deletion has
\* an event.
LEMMA IndexEntryStep ==
  ASSUME OutboxInv, TypeOK', NEW e \in indexer.batch, IndexEntry(e)
  PROVE  OutboxInv'
  <1>0. /\ TypeOK /\ Ordered
        /\ indexer \in IndexerType
        /\ e \in outbox /\ e.key \in Keys
        /\ local \subseteq Keys
    BY DEF OutboxInv, Ordered, TypeOK, IndexerType, Event
  <1>1. /\ indexer' = [indexer EXCEPT !.at = "added"]
        /\ indexer.at = "read" /\ IsCurrent(e)
        /\ UNCHANGED <<row, outbox, writes>>
        /\ vectors' = [vectors EXCEPT ![e.key] = indexer.content]
        /\ local' = local \cup {e.key}
    BY DEF IndexEntry, AddVector
  <1>2. /\ indexer'.at = "added"
        /\ indexer'.content = indexer.content
        /\ indexer'.batch = indexer.batch
    BY <1>0, <1>1 DEF IndexerType
  <1>3. vectors'[e.key] = indexer.content
        /\ \A k \in Keys : k # e.key => vectors'[k] = vectors[k]
    BY <1>0, <1>1 DEF TypeOK
  <1>4. Reading(e)
    BY <1>1 DEF OutboxInv, AtWork
  <1>5. Ordered' /\ Named' /\ PendingRowHasEvent'
    BY <1>1, <1>2 DEF OutboxInv, Ordered, Named, PendingRowHasEvent, HasEvent
  <1>6. TombstonedVectorHasEvent'
    BY <1>1, <1>4 DEF OutboxInv, TombstonedVectorHasEvent, HasEvent, Reading
  <1>7. StaleVectorHasEvent'
    <2> SUFFICES ASSUME NEW k \in local', row[k].status = "ACTIVE",
                        vectors'[k] # row[k].content
                 PROVE  \E f \in outbox : f.id = row[k].content
      BY <1>1 DEF StaleVectorHasEvent
    <2>1. CASE k = e.key
      BY <1>1, <1>3, <1>4, <2>1 DEF Reading, OtherEvent
    <2>2. CASE k # e.key
      BY <1>0, <1>1, <1>3, <2>2 DEF OutboxInv, StaleVectorHasEvent
    <2>3. QED BY <2>1, <2>2
  <1>8. AtWork'
    <2> SUFFICES ASSUME NEW d \in indexer.batch, IsCurrent(d)
                 PROVE  (Reading(d) /\ Adding(d) /\ Applying(d))'
      BY <1>2 DEF AtWork, IsCurrent
    <2>1. d = e
      BY <1>0, <1>1, OneCurrent
    <2>2. Reading(d)'
      BY <1>1, <1>2, <1>4, <2>1 DEF Reading, HasEvent, OtherEvent
    <2>3. Adding(d)' /\ Applying(d)'
      BY <1>2, <1>3, <2>1 DEF Adding, Applying
    <2>4. QED BY <2>2, <2>3
  <1>9. QED
    BY <1>5, <1>6, <1>7, <1>8 DEF OutboxInv

\* The row becomes ACTIVE: with its own vector, or with the event of the put
\* that replaced its content.
LEMMA MarkEntryStep ==
  ASSUME OutboxInv, TypeOK', NEW e \in indexer.batch, MarkEntry(e)
  PROVE  OutboxInv'
  <1>0. /\ TypeOK /\ Ordered
        /\ indexer \in IndexerType
        /\ e \in outbox /\ e.key \in Keys
        /\ local \subseteq Keys
        /\ row[e.key] \in RowType
    BY DEF OutboxInv, Ordered, TypeOK, IndexerType, Event
  <1>1. /\ indexer' = [indexer EXCEPT !.at = "applied"]
        /\ indexer.at = "added" /\ IsCurrent(e)
        /\ UNCHANGED <<outbox, writes, vectors, local>>
        /\ row' = [row EXCEPT ![e.key].status =
                     IF @ = "PENDING_INDEX" THEN "ACTIVE" ELSE @]
    BY DEF MarkEntry, MarkIndexed
  <1>2. indexer'.at = "applied" /\ indexer'.batch = indexer.batch
    BY <1>0, <1>1 DEF IndexerType
  <1>3. row'[e.key] = [row[e.key] EXCEPT !.status =
                         IF @ = "PENDING_INDEX" THEN "ACTIVE" ELSE @]
        /\ \A k \in Keys : k # e.key => row'[k] = row[k]
    BY <1>0, <1>1 DEF TypeOK
  <1>4. /\ row'[e.key].content = row[e.key].content
        /\ row'[e.key].status = IF row[e.key].status = "PENDING_INDEX"
                                THEN "ACTIVE" ELSE row[e.key].status
    BY <1>0, <1>3 DEF RowType
  <1>5. Reading(e) /\ Adding(e)
    BY <1>1 DEF OutboxInv, AtWork
  <1>6. \A k \in Keys : row'[k].content = row[k].content
    BY <1>3, <1>4
  <1>7. Ordered' /\ Named'
    BY <1>1, <1>2, <1>6 DEF OutboxInv, Ordered, Named
  <1>8. PendingRowHasEvent'
    BY <1>1, <1>3, <1>4 DEF OutboxInv, PendingRowHasEvent, HasEvent
  <1>9. TombstonedVectorHasEvent'
    BY <1>0, <1>1, <1>3, <1>4 DEF OutboxInv, TombstonedVectorHasEvent, HasEvent
  <1>10. e.key \in local /\ vectors[e.key] # row[e.key].content => OtherEvent(e)
    BY <1>1, <1>5 DEF Reading, Adding
  <1>11. StaleVectorHasEvent'
    <2> SUFFICES ASSUME NEW k \in local, row'[k].status = "ACTIVE",
                        vectors[k] # row[k].content
                 PROVE  \E f \in outbox : f.id = row[k].content
      BY <1>0, <1>1, <1>6 DEF StaleVectorHasEvent
    <2>1. CASE k = e.key
      BY <1>10, <2>1 DEF OtherEvent
    <2>2. CASE k # e.key
      BY <1>0, <1>3, <2>2 DEF OutboxInv, StaleVectorHasEvent
    <2>3. QED BY <2>1, <2>2
  <1>12. AtWork'
    <2> SUFFICES ASSUME NEW d \in indexer.batch, IsCurrent(d)
                 PROVE  (Reading(d) /\ Adding(d) /\ Applying(d))'
      BY <1>2 DEF AtWork, IsCurrent
    <2>1. d = e
      BY <1>0, <1>1, OneCurrent
    <2>2. Reading(d)' /\ Adding(d)'
      BY <1>2 DEF Reading, Adding
    <2>3. OtherEvent(e) => OtherEvent(e)'
      BY <1>1, <1>4 DEF OtherEvent
    <2>4. /\ e.type = "UPSERT_ENTRY"
          /\ row'[e.key].status # "PENDING_INDEX"
      BY <1>1, <1>4, <1>5 DEF Reading
    <2>5. e.key \in local'
             => vectors'[e.key] = row'[e.key].content \/ OtherEvent(e)'
      BY <1>1, <1>4, <1>10, <2>3
    <2>6. Applying(d)'
      BY <2>1, <2>4, <2>5 DEF Applying
    <2>7. QED BY <2>2, <2>6
  <1>13. QED
    BY <1>7, <1>8, <1>9, <1>11, <1>12 DEF OutboxInv

\* The vector is removed.
LEMMA RemoveEntryStep ==
  ASSUME OutboxInv, TypeOK', NEW e \in indexer.batch, RemoveEntry(e)
  PROVE  OutboxInv'
  <1>0. /\ TypeOK /\ Ordered
        /\ indexer \in IndexerType
        /\ e \in outbox /\ e.key \in Keys
        /\ local \subseteq Keys
    BY DEF OutboxInv, Ordered, TypeOK, IndexerType, Event
  <1>1. /\ indexer' = [indexer EXCEPT !.at = "applied"]
        /\ e.type = "DELETE_ENTRY" /\ IsCurrent(e)
        /\ UNCHANGED <<row, outbox, writes>>
        /\ DeleteVector(e.key)
    BY DEF RemoveEntry
  <1>2. indexer'.at = "applied" /\ indexer'.batch = indexer.batch
    BY <1>0, <1>1 DEF IndexerType
  <1>3. /\ local' \subseteq local /\ e.key \notin local'
        /\ \A k \in local' : vectors'[k] = vectors[k]
    BY <1>0, <1>1 DEF DeleteVector, TypeOK
  <1>4. Ordered' /\ Named' /\ PendingRowHasEvent'
    BY <1>1, <1>2 DEF OutboxInv, Ordered, Named, PendingRowHasEvent, HasEvent
  <1>5. TombstonedVectorHasEvent' /\ StaleVectorHasEvent'
    BY <1>1, <1>3 DEF OutboxInv, TombstonedVectorHasEvent, StaleVectorHasEvent,
                      HasEvent
  <1>6. AtWork'
    <2> SUFFICES ASSUME NEW d \in indexer.batch, IsCurrent(d)
                 PROVE  (Reading(d) /\ Adding(d) /\ Applying(d))'
      BY <1>2 DEF AtWork, IsCurrent
    <2>1. d = e
      BY <1>0, <1>1, OneCurrent
    <2>2. Reading(d)' /\ Adding(d)'
      BY <1>2 DEF Reading, Adding
    <2>3. row[e.key].status = "PENDING_INDEX"
             => \E f \in outbox \ {e} : f.key = e.key /\ f.type = "UPSERT_ENTRY"
      BY <1>0, <1>1 DEF OutboxInv, PendingRowHasEvent, HasEvent
    <2>4. Applying(d)'
      BY <1>1, <1>3, <2>1, <2>3 DEF Applying
    <2>5. QED BY <2>2, <2>4
  <1>7. QED BY <1>4, <1>5, <1>6 DEF OutboxInv

\* The event goes; whatever a row still needs is in another one.
LEMMA FinishEventStep ==
  ASSUME OutboxInv, TypeOK', NEW e \in indexer.batch, FinishEvent(e)
  PROVE  OutboxInv'
  <1>0. /\ TypeOK /\ Ordered
        /\ e \in outbox /\ e.key \in Keys
        /\ local \subseteq Keys
        /\ indexer.batch \subseteq outbox
    BY DEF OutboxInv, Ordered, TypeOK, Event
  <1>1. /\ indexer.at = "applied" /\ IsCurrent(e)
        /\ NextEvent(e)
        /\ outbox' = outbox \ {e}
        /\ UNCHANGED <<row, writes, vectors, local>>
    BY DEF FinishEvent, MarkProcessed
  <1>2. indexer'.batch = indexer.batch \ {e} /\ indexer'.at \in {"idle", "next"}
    BY <1>0, <1>1, NextEventType
  <1>3. /\ row[e.key].status = "PENDING_INDEX"
             => \E f \in outbox \ {e} : f.key = e.key /\ f.type = "UPSERT_ENTRY"
        /\ e.type = "DELETE_ENTRY" => e.key \notin local
        /\ row[e.key].status = "ACTIVE" /\ e.key \in local
             => vectors[e.key] = row[e.key].content \/ OtherEvent(e)
    BY <1>1 DEF OutboxInv, AtWork, Applying
  <1>4. Ordered' /\ Named'
    BY <1>0, <1>1, <1>2 DEF OutboxInv, Ordered, Named
  <1>5. PendingRowHasEvent'
    <2> SUFFICES ASSUME NEW k \in Keys, row[k].status = "PENDING_INDEX"
                 PROVE  \E f \in outbox \ {e} : f.key = k /\ f.type = "UPSERT_ENTRY"
      BY <1>1 DEF PendingRowHasEvent, HasEvent
    <2>1. CASE k = e.key
      BY <1>3, <2>1
    <2>2. CASE k # e.key
      BY <2>2 DEF OutboxInv, PendingRowHasEvent, HasEvent
    <2>3. QED BY <2>1, <2>2
  <1>6. TombstonedVectorHasEvent'
    <2> SUFFICES ASSUME NEW k \in local, row[k].status = "TOMBSTONED"
                 PROVE  \E f \in outbox \ {e} : f.key = k /\ f.type = "DELETE_ENTRY"
      BY <1>1 DEF TombstonedVectorHasEvent, HasEvent
    <2>1. PICK f \in outbox : f.key = k /\ f.type = "DELETE_ENTRY"
      BY DEF OutboxInv, TombstonedVectorHasEvent, HasEvent
    <2>2. f # e
      BY <1>3, <2>1
    <2>3. QED BY <2>1, <2>2
  <1>7. StaleVectorHasEvent'
    <2> SUFFICES ASSUME NEW k \in local, row[k].status = "ACTIVE",
                        vectors[k] # row[k].content
                 PROVE  \E f \in outbox \ {e} : f.id = row[k].content
      BY <1>1 DEF StaleVectorHasEvent
    <2>1. CASE k = e.key
      BY <1>3, <2>1 DEF OtherEvent
    <2>2. CASE k # e.key
      <3>1. PICK f \in outbox : f.id = row[k].content
        BY DEF OutboxInv, StaleVectorHasEvent
      <3>2. f.key = k
        BY <1>0, <3>1 DEF OutboxInv, Named
      <3>3. QED BY <2>2, <3>1, <3>2
    <2>3. QED BY <2>1, <2>2
  <1>8. AtWork'
    BY <1>2 DEF AtWork, Reading, Adding, Applying
  <1>9. QED
    BY <1>4, <1>5, <1>6, <1>7, <1>8 DEF OutboxInv

LEMMA OutboxStep == OutboxInv /\ [Next]_vars => OutboxInv'
  <1> SUFFICES ASSUME OutboxInv, [Next]_vars PROVE OutboxInv'
    OBVIOUS
  <1>0. TypeOK /\ TypeOK' /\ indexer.batch \subseteq outbox
    BY StepType DEF OutboxInv, Ordered
  <1>1. CASE Write
    <2>1. PICK k \in Keys, fits \in BOOLEAN : Put(k, fits)
      BY <1>1 DEF Write
    <2>2. InsertPending(k, fits) /\ UNCHANGED <<vectors, local, indexer>>
      BY <2>1 DEF Put
    <2>3. QED BY <1>0, <2>2, WriteStep
  <1>2. ASSUME NEW c \in Clients, ClientStep(c)
        PROVE  OutboxInv'
    <2>1. ASSUME NEW k \in Keys, InvalidateRow(c, k)
          PROVE  OutboxInv'
      <3>1. Tombstone(k) /\ UNCHANGED <<vectors, local, indexer>>
        BY <2>1 DEF InvalidateRow
      <3>2. QED BY <1>0, <3>1, WriteStep
    <2>2. CASE \/ \E k \in Keys : SearchVectors(c, k)
               \/ ResolveRow(c) \/ GetPayload(c)
      <3>1. UNCHANGED <<row, outbox, writes, vectors, local, indexer>>
        BY <2>2 DEF SearchVectors, ResolveRow, GetPayload
      <3>2. QED BY <1>0, <3>1, QuietStep
    <2>3. CASE InvalidateVector(c) \/ RemoveMissing(c)
      <3>1. /\ UNCHANGED <<row, outbox, writes, indexer>>
            /\ DeleteVector(client[c].key) \/ UNCHANGED index
        BY <2>3 DEF InvalidateVector, RemoveMissing
      <3>2. local' \subseteq local /\ \A k \in local' : vectors'[k] = vectors[k]
        BY <1>0, <3>1 DEF DeleteVector, TypeOK
      <3>3. QED BY <1>0, <3>1, <3>2, QuietStep
    <2>4. QED BY <1>2, <2>1, <2>2, <2>3 DEF ClientStep
  <1>3. CASE IndexerStep
    <2>1. CASE ReadBatch
      <3>1. PICK b \in SUBSET outbox :
               indexer' = [indexer EXCEPT !.at = "next", !.batch = b]
        BY <2>1 DEF ReadBatch
      <3>2. indexer'.at = "next" /\ indexer'.batch = b
        BY <1>0, <3>1 DEF TypeOK
      <3>3. UNCHANGED <<row, outbox, writes, vectors, local>>
        BY <2>1 DEF ReadBatch
      <3>4. QED BY <1>0, <3>2, <3>3, QuietStep
    <2>2. ASSUME NEW e \in indexer.batch, IndexEntryRaises(e)
          PROVE  OutboxInv'
      <3>1. /\ UNCHANGED <<row, outbox, writes, vectors, local>>
            /\ indexer'.at = "idle" /\ indexer'.batch = {}
        BY <2>2 DEF IndexEntryRaises, IdleIndexer
      <3>2. QED BY <1>0, <3>1, QuietStep
    <2>3. QED
      BY <1>0, <1>3, <2>1, <2>2, ReadEntryStep, IndexEntryStep, MarkEntryStep,
         RemoveEntryStep, FinishEventStep DEF IndexerStep
  <1>4. CASE SaveSnapshot
    <2>1. UNCHANGED <<row, outbox, writes, vectors, local, indexer>>
      BY <1>4 DEF SaveSnapshot
    <2>2. QED BY <1>0, <2>1, QuietStep
  <1>5. CASE IndexerRaises \/ Restart
    <2>1. /\ UNCHANGED <<row, outbox, writes>>
          /\ indexer'.at = "idle" /\ indexer'.batch = {}
          /\ local' = {} \/ UNCHANGED <<vectors, local>>
      BY <1>5 DEF IndexerRaises, Restart, IdleIndexer
    <2>2. local' \subseteq local /\ \A k \in local' : vectors'[k] = vectors[k]
      BY <2>1
    <2>3. QED BY <1>0, <2>1, <2>2, QuietStep
  <1>6. CASE UNCHANGED vars
    <2>1. UNCHANGED <<row, outbox, writes, vectors, local, indexer>>
      BY <1>6 DEF vars
    <2>2. QED BY <1>0, <2>1, QuietStep
  <1>7. QED
    BY <1>1, <1>2, <1>3, <1>4, <1>5, <1>6 DEF Next

LEMMA OutboxInvariant == Spec => []OutboxInv
  BY OutboxInit, OutboxStep, PTL DEF Spec

\* A pending row has its UPSERT_ENTRY event, however puts, passes of the indexer, crashes and exceptions interleave.
THEOREM PendingRowsHaveEvents == Spec => []PendingRowHasEvent
  BY OutboxInvariant, PTL DEF OutboxInv

\* A vector that this process added for a row that is tombstoned has its
\* DELETE_ENTRY event.
THEOREM TombstonedVectorsHaveEvents == Spec => []TombstonedVectorHasEvent
  BY OutboxInvariant, PTL DEF OutboxInv

\* A put whose active row has the vector of an earlier put is not marked
\* processed: its event shows what the index lacks.
THEOREM StaleVectorsHaveEvents == Spec => []StaleVectorHasEvent
  BY OutboxInvariant, PTL DEF OutboxInv

\* No step makes a tombstoned entry active.
THEOREM TombstonedStayDead == Spec => TombstonedStaysDead
  <1>1. ASSUME TypeOK, [Next]_vars, NEW k \in Keys,
               row[k].status = "TOMBSTONED", row'[k] # row[k]
        PROVE  row'[k].status # "ACTIVE"
    <2>0. row[k] \in RowType
      BY <1>1 DEF TypeOK
    <2>1. ASSUME NEW j \in Keys, NEW fits \in BOOLEAN, InsertPending(j, fits)
          PROVE  row'[k].status # "ACTIVE"
      BY <1>1, <2>1 DEF InsertPending, TypeOK
    <2>2. ASSUME NEW j \in Keys, Tombstone(j)
          PROVE  row'[k].status # "ACTIVE"
      <3>1. j = k /\ row'[k] = [row[k] EXCEPT !.status = "TOMBSTONED"]
        BY <1>1, <2>2 DEF Tombstone, TypeOK
      <3>2. QED BY <2>0, <3>1 DEF RowType
    <2>3. ASSUME NEW j \in Keys, MarkIndexed(j)
          PROVE  row'[k].status # "ACTIVE"
      <3>1. row'[k] = [row[k] EXCEPT !.status = row[k].status]
        BY <1>1, <2>3 DEF MarkIndexed, TypeOK
      <3>2. QED BY <1>1, <2>0, <3>1 DEF RowType
    <2>4. CASE Write
      BY <2>1, <2>4 DEF Write, Put
    <2>5. ASSUME NEW c \in Clients, ClientStep(c)
          PROVE  row'[k].status # "ACTIVE"
      BY <1>1, <2>2, <2>5 DEF ClientStep, InvalidateRow, SearchVectors,
           InvalidateVector, ResolveRow, GetPayload, RemoveMissing
    <2>6. CASE IndexerStep
      <3>1. \A e \in indexer.batch : e.key \in Keys
        BY <1>1 DEF TypeOK, Event
      <3>2. QED
        BY <1>1, <2>3, <2>6, <3>1 DEF IndexerStep, ReadBatch, ReadEntry, IndexEntry,
           IndexEntryRaises, MarkEntry, RemoveEntry, FinishEvent
    <2>7. QED
      BY <1>1, <2>4, <2>5, <2>6 DEF Next, SaveSnapshot, IndexerRaises, Restart,
           vars
  <1>2. TypeOK /\ [Next]_vars
          => [\A k \in Keys : row[k].status = "TOMBSTONED"
                                => row'[k].status # "ACTIVE"]_vars
    BY <1>1
  <1>3. QED
    BY <1>2, TypeCorrect, PTL DEF Spec, TombstonedStaysDead

(***************************************************************************)
(* The audit tables                                                        *)
(***************************************************************************)
Methods == {"event", "record", "clear", "threshold", "snapshot"}
LockNames ==
  {<<"database", 0>>} \cup {<<"query", q>> : q \in Nat} \cup {<<"gap", q>> : q \in Nat}
    \cup {<<"version", n>> : n \in Nat} \cup {<<"rows", m>> : m \in Methods}
    \cup {<<"range", m>> : m \in Methods}

SessionType ==
  [method : Methods \cup {"none"}, key : Queries, count : 0..MaxRank, active : BOOLEAN,
   call : 0..MaxCalls,
   todo : Seq(Statements), held : SUBSET LockNames, begun : Nat, before : SUBSET (0..MaxCalls),
   targets : SUBSET Nat, query : QueryType, candidate : [Ranks -> 0..MaxCalls],
   cleared : SUBSET Queries, off : SUBSET Nat, new : SUBSET VersionType]

\* What a session w that writes a query has sent so far.
RowOf(w) == [kind |-> w.method, writer |-> w.call, count |-> w.count]
FirstRanks(w, k) == [r \in Ranks |-> IF r <= k THEN w.call ELSE 0]

QueryPhase(w) ==
  /\ w.cleared = {} /\ w.off = {} /\ w.new = {}
  /\ \/ /\ w.todo = <<"upsert_query", "delete_candidates", "insert_candidates">>
        /\ w.query = NoQuery
     \/ /\ w.todo = <<"delete_candidates", "insert_candidates">>
        /\ w.query = RowOf(w)
     \/ /\ w.todo = <<"insert_candidates">>
        /\ w.query = RowOf(w)
        /\ \E k \in 0..w.count : w.candidate = FirstRanks(w, k)
     \/ /\ w.todo = <<>>
        /\ w.query = RowOf(w)
        /\ w.candidate = FirstRanks(w, w.count)

ClearPhase(w) ==
  /\ w.query = NoQuery /\ w.off = {} /\ w.new = {}
  /\ w.todo \in {<<"delete_records">>, <<>>}

\* Of the committed versions vs: those of a table, and those that a session is
\* to deactivate because they were there when its call began.
NumbersIn(vs, table) == {v.number : v \in {u \in vs : u.table = table}}
ToReplace(w, vs) ==
  {v.number : v \in {u \in vs : u.table = w.method /\ u.active /\ u.number \in w.before}}

VersionPhase(w, vs) ==
  /\ w.query = NoQuery /\ w.cleared = {}
  /\ w.before \subseteq NumbersIn(vs, w.method)
  /\ \/ /\ w.todo = <<"deactivate", "insert_version">>
        /\ w.off = {} /\ w.new = {}
        /\ w.begun # 0 => ToReplace(w, vs) \subseteq w.targets
     \/ /\ w.todo = <<"insert_version">>
        /\ w.new = {}
        /\ ToReplace(w, vs) \subseteq w.off
     \/ /\ w.todo = <<>>
        /\ ToReplace(w, vs) \subseteq w.off
        /\ \E v \in VersionType : /\ v.number = w.call /\ v.table = w.method
                                  /\ v.before = w.before /\ w.new = {v}

\* What holds of a session, given the committed versions and the calls begun.
SessionOK(w, vs, n) ==
  /\ w.method = "none" => w = Idle
  /\ w.method \in {"event", "record"} => QueryPhase(w)
  /\ w.method = "clear" => ClearPhase(w)
  /\ w.method \in VersionTables => VersionPhase(w, vs)
  /\ w.method # "none" => w.call \in 1..n /\ \A v \in vs : v.number # w.call

\* A version that was committed when the call of another one began is inactive.
VersionsOK(vs, n) ==
  /\ \A v \in vs : v.number <= n
  /\ \A w \in vs : w.before \subseteq NumbersIn(vs, w.table)
  /\ \A v, w \in vs : v.table = w.table /\ v.number \in w.before => ~v.active

AuditInv ==
  /\ engine \in Engines /\ family \in Families
  /\ query \in [Queries -> QueryType]
  /\ candidate \in [Queries -> [Ranks -> 0..MaxCalls]]
  /\ versions \in SUBSET VersionType
  /\ clock \in Nat
  /\ calls \in 0..MaxCalls
  /\ session \in [Sessions -> SessionType]
  /\ \A s \in Sessions : SessionOK(session[s], versions, calls)
  /\ \A s, t \in Sessions : s # t /\ Busy(s) /\ Busy(t) => session[s].call # session[t].call
  /\ CandidatesAreTheQuerys
  /\ VersionsOK(versions, calls)

LEMMA AuditNumbers ==
  /\ MaxRank \in Nat \ {0} /\ MaxCalls \in Nat /\ Queries \subseteq Nat \ {0}
  /\ AnyQuery \in Queries
  BY AuditAssumption DEF AnyQuery

LEMMA IdleIs ==
  /\ Idle \in SessionType /\ Idle.method = "none" /\ Idle.todo = <<>> /\ Idle.begun = 0
  /\ Idle.query = NoQuery /\ Idle.cleared = {} /\ Idle.off = {} /\ Idle.new = {}
  /\ NoQuery \in QueryType /\ NoCandidates \in [Ranks -> 0..MaxCalls]
  <1>1. NoQuery \in QueryType /\ NoCandidates \in [Ranks -> 0..MaxCalls]
    BY AuditNumbers DEF NoQuery, NoCandidates, QueryType
  <1>2. Idle = [method |-> "none", key |-> AnyQuery, count |-> 0, active |-> TRUE, call |-> 0,
                todo |-> <<>>, held |-> {}, begun |-> 0, before |-> {}, targets |-> {},
                query |-> NoQuery, candidate |-> NoCandidates, cleared |-> {},
                off |-> {}, new |-> {}]
    BY DEF Idle
  <1>3. <<>> \in Seq(Statements) /\ 0 \in 0..MaxRank /\ 0 \in 0..MaxCalls
    BY AuditNumbers
  <1>4. Idle \in SessionType
    BY <1>1, <1>2, <1>3, AuditNumbers DEF SessionType
  <1> QED BY <1>1, <1>2, <1>4

\* The next statement says which method it is of and what has been sent.
LEMMA SendingIs ==
  ASSUME NEW w \in SessionType, NEW vs, NEW n, SessionOK(w, vs, n), w.todo # <<>>
  PROVE  /\ Head(w.todo) = "upsert_query" =>
              /\ w.method \in {"event", "record"}
              /\ w.todo = <<"upsert_query", "delete_candidates", "insert_candidates">>
         /\ Head(w.todo) = "delete_candidates" =>
              /\ w.method \in {"event", "record"}
              /\ w.todo = <<"delete_candidates", "insert_candidates">>
         /\ Head(w.todo) = "insert_candidates" =>
              /\ w.method \in {"event", "record"}
              /\ w.todo = <<"insert_candidates">>
         /\ Head(w.todo) = "delete_records" =>
              w.method = "clear" /\ w.todo = <<"delete_records">>
         /\ Head(w.todo) = "deactivate" =>
              w.method \in VersionTables /\ w.todo = <<"deactivate", "insert_version">>
         /\ Head(w.todo) = "insert_version" =>
              w.method \in VersionTables /\ w.todo = <<"insert_version">>
  <1>1. w.method # "none"
    BY IdleIs DEF SessionOK
  <1>2. w.method \in {"event", "record"} \/ w.method = "clear" \/ w.method \in VersionTables
    BY <1>1 DEF SessionType, Methods, VersionTables
  <1>3. CASE w.method \in {"event", "record"}
    <2>1. w.todo \in {<<"upsert_query", "delete_candidates", "insert_candidates">>,
                      <<"delete_candidates", "insert_candidates">>, <<"insert_candidates">>}
      BY <1>3 DEF SessionOK, QueryPhase
    <2> QED BY <1>3, <2>1
  <1>4. CASE w.method = "clear"
    <2>1. w.todo = <<"delete_records">>
      BY <1>4 DEF SessionOK, ClearPhase
    <2> QED BY <1>4, <2>1
  <1>5. CASE w.method \in VersionTables
    <2>1. w.todo \in {<<"deactivate", "insert_version">>, <<"insert_version">>}
      BY <1>5 DEF SessionOK, VersionPhase
    <2> QED BY <1>5, <2>1
  <1> QED BY <1>2, <1>3, <1>4, <1>5

LEMMA TailsAre ==
  /\ Tail(<<"upsert_query", "delete_candidates", "insert_candidates">>)
       = <<"delete_candidates", "insert_candidates">>
  /\ Tail(<<"delete_candidates", "insert_candidates">>) = <<"insert_candidates">>
  /\ Tail(<<"insert_candidates">>) = <<>>
  /\ Tail(<<"delete_records">>) = <<>>
  /\ Tail(<<"deactivate", "insert_version">>) = <<"insert_version">>
  /\ Tail(<<"insert_version">>) = <<>>
  OBVIOUS

\* A session whose statement is done.
Sent(c, w) ==
  /\ w \in SessionType /\ w.todo = Tail(c.todo)
  /\ w.method = c.method /\ w.key = c.key /\ w.count = c.count /\ w.call = c.call
  /\ w.held = c.held /\ w.begun = c.begun /\ w.before = c.before
  /\ w.targets = c.targets /\ w.query = c.query /\ w.candidate = c.candidate
  /\ w.cleared = c.cleared /\ w.off = c.off /\ w.new = c.new

LEMMA SentIs ==
  ASSUME NEW c \in SessionType, c.todo # <<>>
  PROVE  Sent(c, [c EXCEPT !.todo = Tail(@)])
  <1>1. c.todo \in Seq(Statements)
    BY DEF SessionType
  <1>2. Tail(c.todo) \in Seq(Statements)
    BY <1>1, HeadTailProperties
  <1> QED BY <1>2 DEF SessionType, Sent

\* A step of one session that commits nothing.
LEMMA OneSession ==
  ASSUME AuditInv, NEW s \in Sessions, NEW w \in SessionType, SessionOK(w, versions, calls),
         w.method = "none" \/ (w.method = session[s].method /\ w.call = session[s].call),
         session' = [session EXCEPT ![s] = w], UNCHANGED <<chosen, auditTables, calls>>,
         clock' \in Nat
  PROVE  AuditInv'
  <1>1. /\ engine' = engine /\ family' = family /\ query' = query /\ candidate' = candidate
        /\ versions' = versions /\ calls' = calls
    BY DEF chosen, auditTables
  <1>2. /\ session' \in [Sessions -> SessionType] /\ session'[s] = w
        /\ \A t \in Sessions \ {s} : session'[t] = session[t]
    BY DEF AuditInv
  <1>3. \A t \in Sessions : SessionOK(session'[t], versions', calls')
    BY <1>1, <1>2 DEF AuditInv
  <1>4. ASSUME NEW t \in Sessions, NEW u \in Sessions, t # u, Busy(t)', Busy(u)'
        PROVE  session'[t].call # session'[u].call
    <2>1. \A x \in Sessions : Busy(x)' => Busy(x) /\ session'[x].call = session[x].call
      BY <1>2 DEF Busy
    <2> QED BY <1>4, <2>1 DEF AuditInv
  <1>5. CandidatesAreTheQuerys'
    BY <1>1 DEF AuditInv, CandidatesAreTheQuerys
  <1> QED BY <1>1, <1>2, <1>3, <1>4, <1>5 DEF AuditInv

\* What the locks of a statement are named by.
LEMMA LocksNamed ==
  ASSUME AuditInv, NEW s \in Sessions, Sends(s, "upsert_query") \/ Sends(s, "delete_records")
           \/ Sends(s, "deactivate") \/ Sends(s, "delete_candidates") \/ Sends(s, "insert_version")
  PROVE  /\ session[s].held \subseteq LockNames
         /\ {<<"database", 0>>} \subseteq LockNames
         /\ {<<"gap", q>> : q \in GapsNextTo(Key(s))} \subseteq LockNames
         /\ Wants(s) \subseteq LockNames
         /\ RangeLocks(session[s].method) \subseteq LockNames
         /\ {<<"rows", session[s].method>>} \subseteq LockNames
  <1>1. session[s] \in SessionType /\ Queries \subseteq Nat
    BY AuditNumbers DEF AuditInv
  <1>2. /\ session[s].held \subseteq LockNames /\ session[s].key \in Nat
        /\ session[s].targets \subseteq Nat
    BY <1>1 DEF SessionType
  <1>9. session[s].method \in Methods
    <2>1. session[s].method # "none"
      BY IdleIs DEF AuditInv, SessionOK, Sends
    <2> QED BY <1>1, <2>1 DEF SessionType
  <1>3. \A v \in versions : v.table \in Methods
    BY DEF AuditInv, VersionType, VersionTables, Methods
  <1>4. /\ <<"database", 0>> \in LockNames
        /\ \A n \in Nat : /\ <<"query", n>> \in LockNames /\ <<"gap", n>> \in LockNames
                          /\ <<"version", n>> \in LockNames
        /\ \A m \in Methods : <<"rows", m>> \in LockNames /\ <<"range", m>> \in LockNames
    BY DEF LockNames
  <1>5. {<<"database", 0>>} \subseteq LockNames /\ {<<"rows", session[s].method>>} \subseteq LockNames
        /\ {<<"range", session[s].method>>} \subseteq LockNames
        /\ {<<"query", session[s].key>>} \subseteq LockNames
        /\ {<<"gap", session[s].key>>} \subseteq LockNames
    BY <1>2, <1>9, <1>4
  <1>6. {<<"gap", q>> : q \in GapsNextTo(Key(s))} \subseteq LockNames
    BY <1>1, <1>4 DEF GapsNextTo
  <1>7. RangeLocks(session[s].method) \subseteq LockNames
    <2>1. \A v \in RowsToDeactivate(session[s].method) : v.table \in Methods
      <3>1. \A v \in RowsToDeactivate(session[s].method) : v \in versions
        BY Zenon DEF RowsToDeactivate, VersionsOf
      <3> QED BY <1>3, <3>1
    <2>2. {<<"rows", v.table>> : v \in RowsToDeactivate(session[s].method)} \subseteq LockNames
      <3>1. \A m \in Methods : <<"rows", m>> \in LockNames
        BY <1>4
      <3> QED BY <2>1, <3>1, Zenon
    <2> QED BY <1>5, <2>2 DEF RangeLocks
  <1>8. Wants(s) \subseteq LockNames
    <2>1. /\ {<<"version", n>> : n \in session[s].targets} \subseteq LockNames
          /\ {<<"query", q>> : q \in Queries} \subseteq LockNames
          /\ {<<"query", q>> : q \in session[s].targets} \subseteq LockNames
      BY <1>1, <1>2, <1>4
    <2>2. Wants(s) \in {{<<"database", 0>>}, {<<"query", session[s].key>>}, {<<"gap", session[s].key>>},
                        {<<"query", q>> : q \in Queries}, {<<"query", q>> : q \in session[s].targets},
                        {<<"version", n>> : n \in session[s].targets},
                        {<<"rows", session[s].method>>}, {<<"range", session[s].method>>}, {}}
      BY DEF Wants, Key
    <2> QED BY <1>5, <2>1, <2>2
  <1> QED BY <1>2, <1>5, <1>6, <1>7, <1>8

LEMMA HoldingNamed ==
  ASSUME NEW s \in Sessions, session[s].held \subseteq LockNames,
         NEW locks, locks \subseteq LockNames
  PROVE  Holding(s, locks) \in SUBSET LockNames
  <1>1. <<"database", 0>> \in LockNames
    BY DEF LockNames
  <1> QED BY <1>1 DEF Holding

LEMMA UpsertQueryKeeps ==
  ASSUME AuditInv, NEW s \in Sessions, UpsertQuery(s)
  PROVE  AuditInv'
  <1> DEFINE w == session[s]
             c == [w EXCEPT !.held = Holding(s, Wants(s)),
                            !.query = [kind |-> w.method, writer |-> w.call, count |-> w.count],
                            !.candidate = candidate[Key(s)]]
             w1 == [c EXCEPT !.todo = Tail(@)]
  <1>1. /\ Sends(s, "upsert_query") /\ session' = [session EXCEPT ![s] = w1]
        /\ UNCHANGED <<chosen, auditTables, clock, calls>>
    BY DEF UpsertQuery, Goes
  <1>2. w \in SessionType /\ SessionOK(w, versions, calls) /\ clock' \in Nat
    BY <1>1 DEF AuditInv
  <1>3. /\ w.method \in {"event", "record"}
        /\ w.todo = <<"upsert_query", "delete_candidates", "insert_candidates">>
    BY <1>1, <1>2, SendingIs DEF Sends
  <1>4. QueryPhase(w) /\ w.method # "none" /\ w.method \notin VersionTables /\ w.method # "clear"
    BY <1>2, <1>3 DEF SessionOK, VersionTables
  <1>5. RowOf(w) \in QueryType /\ candidate[Key(s)] \in [Ranks -> 0..MaxCalls]
        /\ Holding(s, Wants(s)) \in SUBSET LockNames
    <2>1. RowOf(w) \in QueryType
      BY <1>2, <1>3 DEF SessionType, QueryType, RowOf
    <2>2. Key(s) \in Queries
      BY <1>2 DEF SessionType, Key
    <2> QED BY <1>1, <2>1, <2>2, LocksNamed, HoldingNamed DEF AuditInv
  <1>6. /\ c \in SessionType /\ c.todo = w.todo /\ c.method = w.method /\ c.call = w.call
        /\ c.count = w.count /\ c.query = RowOf(w) /\ c.cleared = w.cleared
        /\ c.off = w.off /\ c.new = w.new
    BY <1>2, <1>5 DEF SessionType, RowOf
  <1> HIDE DEF c
  <1>7. /\ w1 \in SessionType /\ w1.todo = <<"delete_candidates", "insert_candidates">>
        /\ w1.method = w.method /\ w1.call = w.call /\ w1.count = w.count /\ w1.query = RowOf(w)
        /\ w1.cleared = w.cleared /\ w1.off = w.off /\ w1.new = w.new
    <2>1. c.todo # <<>> /\ Tail(c.todo) = <<"delete_candidates", "insert_candidates">>
      BY <1>3, <1>6, TailsAre
    <2>2. Sent(c, w1)
      BY <1>6, <2>1, SentIs
    <2> HIDE DEF w1
    <2> QED BY <1>6, <2>1, <2>2 DEF Sent
  <1> HIDE DEF w1
  <1>8. QueryPhase(w1)
    BY <1>4, <1>7 DEF QueryPhase, RowOf
  <1>9. SessionOK(w1, versions, calls)
    BY <1>2, <1>3, <1>4, <1>7, <1>8 DEF SessionOK
  <1> QED BY <1>1, <1>2, <1>7, <1>9, OneSession

LEMMA DeleteCandidatesKeeps ==
  ASSUME AuditInv, NEW s \in Sessions, DeleteCandidates(s)
  PROVE  AuditInv'
  <1> DEFINE w == session[s]
             locks == Holding(s, IF engine = "mysql" THEN {<<"gap", q>> : q \in GapsNextTo(Key(s))}
                                 ELSE {})
             c == [w EXCEPT !.held = locks, !.candidate = NoCandidates]
             w1 == [c EXCEPT !.todo = Tail(@)]
  <1>1. /\ Sends(s, "delete_candidates") /\ session' = [session EXCEPT ![s] = w1]
        /\ UNCHANGED <<chosen, auditTables, clock, calls>>
    BY DEF DeleteCandidates, Goes
  <1>2. w \in SessionType /\ SessionOK(w, versions, calls) /\ clock' \in Nat
    BY <1>1 DEF AuditInv
  <1>3. /\ w.method \in {"event", "record"}
        /\ w.todo = <<"delete_candidates", "insert_candidates">>
    BY <1>1, <1>2, SendingIs DEF Sends
  <1>4. QueryPhase(w) /\ w.method # "none" /\ w.method \notin VersionTables /\ w.method # "clear"
        /\ w.query = RowOf(w)
    BY <1>2, <1>3 DEF SessionOK, VersionTables, QueryPhase
  <1>5. locks \in SUBSET LockNames
    BY <1>1, LocksNamed, HoldingNamed
  <1> HIDE DEF locks
  <1>6. /\ c \in SessionType /\ c.todo = w.todo /\ c.method = w.method /\ c.call = w.call
        /\ c.count = w.count /\ c.query = w.query /\ c.cleared = w.cleared
        /\ c.off = w.off /\ c.new = w.new /\ c.candidate = NoCandidates
    BY <1>2, <1>5, IdleIs DEF SessionType
  <1> HIDE DEF c
  <1>7. /\ w1 \in SessionType /\ w1.todo = <<"insert_candidates">>
        /\ w1.method = w.method /\ w1.call = w.call /\ w1.count = w.count /\ w1.query = w.query
        /\ w1.cleared = w.cleared /\ w1.off = w.off /\ w1.new = w.new
        /\ w1.candidate = NoCandidates
    <2>1. c.todo # <<>> /\ Tail(c.todo) = <<"insert_candidates">>
      BY <1>3, <1>6, TailsAre
    <2>2. Sent(c, w1)
      BY <1>6, <2>1, SentIs
    <2> HIDE DEF w1
    <2> QED BY <1>6, <2>1, <2>2 DEF Sent
  <1> HIDE DEF w1
  <1>8. w1.candidate = FirstRanks(w1, 0) /\ 0 \in 0..w1.count
    BY <1>2, <1>7, AuditNumbers DEF NoCandidates, FirstRanks, Ranks, SessionType
  <1>9. QueryPhase(w1)
    BY <1>4, <1>7, <1>8 DEF QueryPhase, RowOf
  <1>10. SessionOK(w1, versions, calls)
    BY <1>2, <1>3, <1>4, <1>7, <1>9 DEF SessionOK
  <1> QED BY <1>1, <1>2, <1>7, <1>10, OneSession

\* How many candidates a session has inserted.
LEMMA WrittenIs ==
  ASSUME NEW s \in Sessions, NEW k \in 0..MaxRank, session[s].call \in Nat \ {0},
         session[s].candidate = FirstRanks(session[s], k)
  PROVE  Written(s) = k
  <1> DEFINE w == session[s]
  <1>1. {r \in Ranks : w.candidate[r] = w.call} = 1..k
    BY AuditNumbers DEF FirstRanks, Ranks
  <1>2. k \in Nat
    BY AuditNumbers
  <1>3. Cardinality(1..k) = k
    <2>9. 1 \in Int /\ k \in Int
      BY <1>2
    <2>1. Cardinality(1..k) = IF 1 > k THEN 0 ELSE k - 1 + 1
      BY <2>9, FS_Interval
    <2> QED BY <1>2, <2>1
  <1> QED BY <1>1, <1>3 DEF Written

\* A session that inserts candidates knows how many are there.
LEMMA Inserting ==
  ASSUME AuditInv, NEW s \in Sessions, Sends(s, "insert_candidates")
  PROVE  /\ session[s] \in SessionType /\ SessionOK(session[s], versions, calls)
         /\ session[s].method \in {"event", "record"} /\ session[s].todo = <<"insert_candidates">>
         /\ QueryPhase(session[s])
         /\ Written(s) \in 0..session[s].count
         /\ session[s].candidate = FirstRanks(session[s], Written(s))
  <1> DEFINE w == session[s]
  <1>1. w \in SessionType /\ SessionOK(w, versions, calls)
    BY DEF AuditInv
  <1>2. w.method \in {"event", "record"} /\ w.todo = <<"insert_candidates">>
    BY <1>1, SendingIs DEF Sends
  <1>3. QueryPhase(w) /\ w.call \in 1..calls
    BY <1>1, <1>2 DEF SessionOK
  <1>4. PICK k \in 0..w.count : w.candidate = FirstRanks(w, k)
    BY <1>2, <1>3 DEF QueryPhase
  <1>5. k \in 0..MaxRank
    BY <1>1, <1>4, AuditNumbers DEF SessionType
  <1>6. w.call \in Nat \ {0}
    BY <1>3 DEF AuditInv
  <1>7. Written(s) = k
    BY <1>4, <1>5, <1>6, WrittenIs
  <1> QED BY <1>1, <1>2, <1>3, <1>4, <1>7

LEMMA InsertCandidateKeeps ==
  ASSUME AuditInv, NEW s \in Sessions, InsertCandidate(s)
  PROVE  AuditInv'
  <1> DEFINE w == session[s]
             k == Written(s)
             w1 == [w EXCEPT !.candidate = [w.candidate EXCEPT ![k + 1] = w.call]]
  <1>1. /\ Sends(s, "insert_candidates") /\ k < w.count
        /\ session' = [session EXCEPT ![s].candidate[k + 1] = w.call]
        /\ UNCHANGED <<chosen, auditTables, clock, calls>> /\ clock' \in Nat
    BY DEF InsertCandidate, AuditInv
  <1>2. /\ w \in SessionType /\ SessionOK(w, versions, calls)
        /\ w.method \in {"event", "record"} /\ w.todo = <<"insert_candidates">> /\ QueryPhase(w)
        /\ k \in 0..w.count /\ w.candidate = FirstRanks(w, k)
    BY <1>1, Inserting
  <1>3. session' = [session EXCEPT ![s] = w1]
    BY <1>1
  <1> HIDE DEF k
  <1>4. k + 1 \in 0..w.count /\ k + 1 \in Ranks /\ w.call \in 0..MaxCalls
        /\ w.candidate \in [Ranks -> 0..MaxCalls]
    BY <1>1, <1>2, AuditNumbers DEF SessionType, Ranks
  <1>5. [w.candidate EXCEPT ![k + 1] = w.call] = FirstRanks(w, k + 1)
    <2>1. \A r \in Ranks : [w.candidate EXCEPT ![k + 1] = w.call][r] = IF r <= k + 1 THEN w.call ELSE 0
      BY <1>2, <1>4, AuditNumbers DEF FirstRanks, Ranks
    <2>2. [w.candidate EXCEPT ![k + 1] = w.call] \in [Ranks -> 0..MaxCalls]
      BY <1>4
    <2> HIDE DEF w
    <2> QED BY <2>1, <2>2 DEF FirstRanks
  <1>6. /\ w1 \in SessionType /\ w1.todo = w.todo /\ w1.method = w.method /\ w1.call = w.call
        /\ w1.count = w.count /\ w1.query = w.query /\ w1.cleared = w.cleared
        /\ w1.off = w.off /\ w1.new = w.new /\ w1.candidate = FirstRanks(w, k + 1)
    <2>1. [w.candidate EXCEPT ![k + 1] = w.call] \in [Ranks -> 0..MaxCalls]
      BY <1>4
    <2> QED BY <1>2, <1>5, <2>1 DEF SessionType
  <1> HIDE DEF w1
  <1>7. FirstRanks(w1, k + 1) = FirstRanks(w, k + 1) /\ RowOf(w1) = RowOf(w)
    BY <1>6 DEF FirstRanks, RowOf
  <1>8. QueryPhase(w1)
    <2>1. w.query = RowOf(w) /\ w.cleared = {} /\ w.off = {} /\ w.new = {}
      BY <1>2 DEF QueryPhase
    <2> QED BY <1>2, <1>4, <1>6, <1>7, <2>1 DEF QueryPhase
  <1>9. SessionOK(w1, versions, calls)
    BY <1>2, <1>6, <1>8 DEF SessionOK, VersionTables
  <1> QED BY <1>1, <1>3, <1>6, <1>9, OneSession

LEMMA LastCandidateKeeps ==
  ASSUME AuditInv, NEW s \in Sessions, LastCandidate(s)
  PROVE  AuditInv'
  <1> DEFINE w == session[s]
             w1 == [w EXCEPT !.todo = Tail(@)]
  <1>1. /\ Sends(s, "insert_candidates") /\ Written(s) = w.count
        /\ session' = [session EXCEPT ![s] = w1]
        /\ UNCHANGED <<chosen, auditTables, clock, calls>> /\ clock' \in Nat
    BY DEF LastCandidate, Goes, AuditInv
  <1>2. /\ w \in SessionType /\ SessionOK(w, versions, calls)
        /\ w.method \in {"event", "record"} /\ w.todo = <<"insert_candidates">> /\ QueryPhase(w)
        /\ w.candidate = FirstRanks(w, w.count)
    BY <1>1, Inserting
  <1>3. /\ w1 \in SessionType /\ w1.todo = <<>> /\ w1.method = w.method /\ w1.call = w.call
        /\ w1.count = w.count /\ w1.query = w.query /\ w1.cleared = w.cleared
        /\ w1.off = w.off /\ w1.new = w.new /\ w1.candidate = w.candidate
    <2>1. w.todo # <<>> /\ Tail(w.todo) = <<>>
      BY <1>2, TailsAre
    <2>2. Sent(w, w1)
      BY <1>2, <2>1, SentIs
    <2> HIDE DEF w1
    <2> QED BY <1>2, <2>1, <2>2 DEF Sent
  <1> HIDE DEF w1
  <1>4. FirstRanks(w1, w1.count) = FirstRanks(w, w.count) /\ RowOf(w1) = RowOf(w)
    BY <1>3 DEF FirstRanks, RowOf
  <1>5. QueryPhase(w1)
    <2>1. w.query = RowOf(w) /\ w.cleared = {} /\ w.off = {} /\ w.new = {}
      BY <1>2 DEF QueryPhase
    <2> QED BY <1>2, <1>3, <1>4, <2>1 DEF QueryPhase
  <1>6. SessionOK(w1, versions, calls)
    BY <1>2, <1>3, <1>5 DEF SessionOK, VersionTables
  <1> QED BY <1>1, <1>3, <1>6, OneSession

\* A session that waits for the rows its statement is to work on.
LEMMA SnapshotKeeps ==
  ASSUME AuditInv, NEW s \in Sessions, NEW rows \in SUBSET Nat, Snapshot(s, rows),
         \/ Sends(s, "delete_records")
         \/ Sends(s, "deactivate") /\ rows = Numbers(RowsToDeactivate(session[s].method))
  PROVE  AuditInv'
  <1> DEFINE w == session[s]
             w1 == [w EXCEPT !.begun = clock + 1, !.targets = rows]
  <1>1. /\ session' = [session EXCEPT ![s] = w1] /\ clock' \in Nat /\ clock + 1 \in Nat \ {0}
        /\ UNCHANGED <<chosen, auditTables, calls>>
    <2>1. session' = [session EXCEPT ![s].begun = clock + 1, ![s].targets = rows]
      BY DEF Snapshot
    <2>2. session' = [session EXCEPT ![s] = w1]
      BY <2>1 DEF AuditInv
    <2>3. clock \in Nat /\ clock' = clock + 1 /\ UNCHANGED <<chosen, auditTables, calls>>
      BY DEF Snapshot, AuditInv
    <2>4. clock' \in Nat /\ clock + 1 \in Nat \ {0}
      BY <2>3
    <2> HIDE DEF w1
    <2> QED BY <2>2, <2>3, <2>4
  <1>2. w \in SessionType /\ SessionOK(w, versions, calls)
    BY DEF AuditInv
  <1>3. /\ w1 \in SessionType /\ w1.todo = w.todo /\ w1.method = w.method /\ w1.call = w.call
        /\ w1.query = w.query /\ w1.cleared = w.cleared /\ w1.before = w.before
        /\ w1.off = w.off /\ w1.new = w.new /\ w1.begun # 0 /\ w1.targets = rows
    BY <1>1, <1>2 DEF SessionType
  <1> HIDE DEF w1
  <1>4. CASE Sends(s, "delete_records")
    <2>1. w.method = "clear" /\ w.todo = <<"delete_records">>
      BY <1>2, <1>4, SendingIs DEF Sends
    <2>2. ClearPhase(w1)
      BY <1>2, <1>3, <2>1 DEF SessionOK, ClearPhase
    <2>3. SessionOK(w1, versions, calls)
      BY <1>2, <1>3, <2>1, <2>2 DEF SessionOK, VersionTables
    <2> QED BY <1>1, <1>3, <2>3, OneSession
  <1>5. CASE Sends(s, "deactivate") /\ rows = Numbers(RowsToDeactivate(session[s].method))
    <2>1. w.method \in VersionTables /\ w.todo = <<"deactivate", "insert_version">>
      BY <1>2, <1>5, SendingIs DEF Sends
    <2>2. VersionPhase(w, versions)
      BY <1>2, <2>1 DEF SessionOK
    <2>3. ToReplace(w1, versions) \subseteq rows
      BY <1>3, <1>5 DEF ToReplace, Numbers, RowsToDeactivate, VersionsOf
    <2>4. w.off = {} /\ w.new = {}
      BY <2>1, <2>2 DEF VersionPhase
    <2>5. VersionPhase(w1, versions)
      BY <1>3, <2>1, <2>2, <2>3, <2>4 DEF VersionPhase
    <2>6. SessionOK(w1, versions, calls)
      BY <1>2, <1>3, <2>1, <2>5 DEF SessionOK, VersionTables
    <2> QED BY <1>1, <1>3, <2>6, OneSession
  <1> QED BY <1>4, <1>5

LEMMA DeleteRecordsKeeps ==
  ASSUME AuditInv, NEW s \in Sessions, DeleteRecords(s)
  PROVE  AuditInv'
  <1> DEFINE w == session[s]
             c == [w EXCEPT !.cleared = Seen(s, RecordsNow), !.held = Holding(s, Wants(s))]
             w1 == [c EXCEPT !.todo = Tail(@)]
  <1>1. /\ Sends(s, "delete_records") /\ session' = [session EXCEPT ![s] = w1]
        /\ UNCHANGED <<chosen, auditTables, clock, calls>>
    BY DEF DeleteRecords, Goes
  <1>2. w \in SessionType /\ SessionOK(w, versions, calls) /\ clock' \in Nat
    BY <1>1 DEF AuditInv
  <1>3. w.method = "clear" /\ w.todo = <<"delete_records">>
    BY <1>1, <1>2, SendingIs DEF Sends
  <1>4. Seen(s, RecordsNow) \in SUBSET Queries /\ Holding(s, Wants(s)) \in SUBSET LockNames
    <2>1. Seen(s, RecordsNow) \in SUBSET Queries
      BY DEF Seen, RecordsNow
    <2> QED BY <1>1, <2>1, LocksNamed, HoldingNamed
  <1>5. /\ c \in SessionType /\ c.todo = w.todo /\ c.method = w.method /\ c.call = w.call
        /\ c.query = w.query /\ c.off = w.off /\ c.new = w.new
    BY <1>2, <1>4 DEF SessionType
  <1> HIDE DEF c
  <1>6. /\ w1 \in SessionType /\ w1.todo = <<>> /\ w1.method = w.method /\ w1.call = w.call
        /\ w1.query = w.query /\ w1.off = w.off /\ w1.new = w.new
    <2>1. c.todo # <<>> /\ Tail(c.todo) = <<>>
      BY <1>3, <1>5, TailsAre
    <2>2. Sent(c, w1)
      BY <1>5, <2>1, SentIs
    <2> HIDE DEF w1
    <2> QED BY <1>5, <2>1, <2>2 DEF Sent
  <1> HIDE DEF w1
  <1>7. ClearPhase(w1)
    BY <1>2, <1>3, <1>6 DEF SessionOK, ClearPhase
  <1>8. SessionOK(w1, versions, calls)
    BY <1>2, <1>3, <1>6, <1>7 DEF SessionOK, VersionTables
  <1> QED BY <1>1, <1>2, <1>6, <1>8, OneSession

\* Whatever the engine, no row that was active when the call began is missed: a
\* PostgreSQL statement began after it.
LEMMA DeactivateKeeps ==
  ASSUME AuditInv, NEW s \in Sessions, Deactivate(s)
  PROVE  AuditInv'
  <1> DEFINE w == session[s]
             off == Seen(s, Numbers(RowsToDeactivate(session[s].method)))
             locks == Holding(s, IF engine = "postgres" THEN Wants(s)
                                 ELSE RangeLocks(session[s].method))
             c == [w EXCEPT !.off = off, !.held = locks]
             w1 == [c EXCEPT !.todo = Tail(@)]
  <1>1. /\ Sends(s, "deactivate") /\ session' = [session EXCEPT ![s] = w1]
        /\ UNCHANGED <<chosen, auditTables, clock, calls>> /\ MayRun(s)
    BY DEF Deactivate, Goes
  <1>2. w \in SessionType /\ SessionOK(w, versions, calls) /\ clock' \in Nat
    BY <1>1 DEF AuditInv
  <1>3. w.method \in VersionTables /\ w.todo = <<"deactivate", "insert_version">>
    BY <1>1, <1>2, SendingIs DEF Sends
  <1>4. /\ VersionPhase(w, versions) /\ w.new = {}
        /\ w.begun # 0 => ToReplace(w, versions) \subseteq w.targets
    <2>1. VersionPhase(w, versions)
      BY <1>2, <1>3 DEF SessionOK
    <2> QED BY <1>3, <2>1 DEF VersionPhase
  <1>5. Numbers(RowsToDeactivate(w.method)) \in SUBSET Nat
        /\ ToReplace(w, versions) \subseteq Numbers(RowsToDeactivate(w.method))
    <2>1. \A v \in versions : v.number \in Nat
      BY AuditNumbers DEF AuditInv, VersionType
    <2>2. RowsToDeactivate(w.method) \subseteq versions
      BY Zenon DEF RowsToDeactivate, VersionsOf
    <2>3. Numbers(RowsToDeactivate(w.method)) \in SUBSET Nat
      BY <2>1, <2>2 DEF Numbers
    <2>4. ToReplace(w, versions) \subseteq Numbers(RowsToDeactivate(w.method))
      BY DEF ToReplace, Numbers, RowsToDeactivate, VersionsOf
    <2> QED BY <2>3, <2>4
  <1>6. off \in SUBSET Nat /\ ToReplace(w, versions) \subseteq off
    <2>1. CASE engine = "postgres"
      <3>1. w.begun # 0 /\ off = Numbers(RowsToDeactivate(w.method)) \cap w.targets
        BY <1>1, <2>1 DEF MayRun, Seen
      <3> HIDE DEF off
      <3> QED BY <1>4, <1>5, <3>1
    <2>2. CASE engine # "postgres"
      <3>1. off = Numbers(RowsToDeactivate(w.method))
        BY <2>2 DEF Seen
      <3> HIDE DEF off
      <3> QED BY <1>5, <3>1
    <2> QED BY <2>1, <2>2
  <1>7. locks \in SUBSET LockNames
    BY <1>1, LocksNamed, HoldingNamed
  <1> HIDE DEF off, locks
  <1>8. /\ c \in SessionType /\ c.todo = w.todo /\ c.method = w.method /\ c.call = w.call
        /\ c.query = w.query /\ c.cleared = w.cleared /\ c.before = w.before
        /\ c.new = w.new /\ c.off = off
    BY <1>2, <1>6, <1>7 DEF SessionType
  <1> HIDE DEF c
  <1>9. /\ w1 \in SessionType /\ w1.todo = <<"insert_version">> /\ w1.method = w.method
        /\ w1.call = w.call /\ w1.query = w.query /\ w1.cleared = w.cleared
        /\ w1.before = w.before /\ w1.new = w.new /\ w1.off = off
    <2>1. c.todo # <<>> /\ Tail(c.todo) = <<"insert_version">>
      BY <1>3, <1>8, TailsAre
    <2>2. Sent(c, w1)
      BY <1>8, <2>1, SentIs
    <2> HIDE DEF w1
    <2> QED BY <1>8, <2>1, <2>2 DEF Sent
  <1> HIDE DEF w1
  <1>10. VersionPhase(w1, versions)
    <2>1. ToReplace(w1, versions) = ToReplace(w, versions)
      BY <1>9 DEF ToReplace
    <2>2. w.query = NoQuery /\ w.cleared = {} /\ w.before \subseteq NumbersIn(versions, w.method)
      BY <1>4 DEF VersionPhase
    <2> QED BY <1>4, <1>6, <1>9, <2>1, <2>2 DEF VersionPhase
  <1>11. SessionOK(w1, versions, calls)
    BY <1>2, <1>3, <1>9, <1>10 DEF SessionOK, VersionTables
  <1> QED BY <1>1, <1>2, <1>9, <1>11, OneSession

LEMMA InsertVersionKeeps ==
  ASSUME AuditInv, NEW s \in Sessions, InsertVersion(s)
  PROVE  AuditInv'
  <1> DEFINE w == session[s]
             version == [number |-> w.call, table |-> w.method,
                         stamp |-> IF w.method = "snapshot" THEN w.count
                                   ELSE IF engine = "postgres" THEN w.begun ELSE clock + 1,
                         active |-> w.active, before |-> w.before]
             locks == Holding(s, {<<"rows", w.method>>})
             c == [w EXCEPT !.held = locks, !.new = {version}]
             w1 == [c EXCEPT !.todo = Tail(@)]
  <1>1. /\ Sends(s, "insert_version") /\ session' = [session EXCEPT ![s] = w1]
        /\ UNCHANGED <<chosen, auditTables, calls>> /\ clock' = clock + 1
    BY DEF InsertVersion, Goes
  <1>2. w \in SessionType /\ SessionOK(w, versions, calls) /\ clock \in Nat /\ clock' \in Nat
    BY <1>1 DEF AuditInv
  <1>3. w.method \in VersionTables /\ w.todo = <<"insert_version">>
    BY <1>1, <1>2, SendingIs DEF Sends
  <1>4. VersionPhase(w, versions) /\ ToReplace(w, versions) \subseteq w.off
    <2>1. VersionPhase(w, versions)
      BY <1>2, <1>3 DEF SessionOK
    <2> QED BY <1>3, <2>1 DEF VersionPhase
  <1>5. version \in VersionType
    <2>1. w.call \in 1..MaxCalls
      BY <1>2, <1>3, AuditNumbers DEF SessionOK, AuditInv, VersionTables
    <2>2. /\ w.count \in Nat /\ w.begun \in Nat /\ clock + 1 \in Nat
          /\ w.before \in SUBSET (0..MaxCalls) /\ w.active \in BOOLEAN
      BY <1>2, AuditNumbers DEF SessionType
    <2>3. version.stamp \in Nat
      BY <2>2
    <2> QED BY <1>3, <2>1, <2>2, <2>3 DEF VersionType
  <1>6. locks \in SUBSET LockNames
    BY <1>1, LocksNamed, HoldingNamed
  <1>7. version.number = w.call /\ version.table = w.method /\ version.before = w.before
    OBVIOUS
  <1> HIDE DEF locks, version
  <1>8. /\ c \in SessionType /\ c.todo = w.todo /\ c.method = w.method /\ c.call = w.call
        /\ c.query = w.query /\ c.cleared = w.cleared /\ c.before = w.before
        /\ c.off = w.off /\ c.new = {version}
    BY <1>2, <1>5, <1>6 DEF SessionType
  <1> HIDE DEF c
  <1>9. /\ w1 \in SessionType /\ w1.todo = <<>> /\ w1.method = w.method
        /\ w1.call = w.call /\ w1.query = w.query /\ w1.cleared = w.cleared
        /\ w1.before = w.before /\ w1.off = w.off /\ w1.new = {version}
    <2>1. c.todo # <<>> /\ Tail(c.todo) = <<>>
      BY <1>3, <1>8, TailsAre
    <2>2. Sent(c, w1)
      BY <1>8, <2>1, SentIs
    <2> HIDE DEF w1
    <2> QED BY <1>8, <2>1, <2>2 DEF Sent
  <1> HIDE DEF w1
  <1>10. VersionPhase(w1, versions)
    <2>1. ToReplace(w1, versions) = ToReplace(w, versions)
      BY <1>9 DEF ToReplace
    <2>2. w.query = NoQuery /\ w.cleared = {} /\ w.before \subseteq NumbersIn(versions, w.method)
      BY <1>4 DEF VersionPhase
    <2> QED BY <1>4, <1>5, <1>7, <1>9, <2>1, <2>2 DEF VersionPhase
  <1>11. SessionOK(w1, versions, calls)
    BY <1>2, <1>3, <1>9, <1>10 DEF SessionOK, VersionTables
  <1> QED BY <1>1, <1>2, <1>9, <1>11, OneSession

\* A session that is rolled back.
LEMMA VictimKeeps ==
  ASSUME AuditInv, NEW s \in Sessions, Victim(s)
  PROVE  AuditInv'
  <1>1. /\ session' = [session EXCEPT ![s] = Idle] /\ clock' \in Nat
        /\ UNCHANGED <<chosen, auditTables, calls>>
    BY DEF Victim, Rollback, AuditInv
  <1>2. SessionOK(Idle, versions, calls)
    BY IdleIs DEF SessionOK, VersionTables
  <1> QED BY <1>1, <1>2, IdleIs, OneSession

\* A snapshot that is inserted inactive takes one statement.
LEMMA ProgramIs ==
  ASSUME engine \in Engines, NEW on \in BOOLEAN
  PROVE  /\ \A m \in {"event", "record"} :
              Program(m, on) = <<"upsert_query", "delete_candidates", "insert_candidates">>
         /\ Program("clear", on) = <<"delete_records">>
         /\ Program("threshold", on) = <<"deactivate", "insert_version">>
         /\ Program("snapshot", on) = IF on THEN <<"deactivate", "insert_version">>
                                      ELSE <<"insert_version">>
         /\ \A m \in Methods : Program(m, on) \in Seq(Statements)
  <1> DEFINE snapshot == IF on THEN <<"deactivate", "insert_version">> ELSE <<"insert_version">>
             programs == [event |-> <<"upsert_query", "delete_candidates", "insert_candidates">>,
                          record |-> <<"upsert_query", "delete_candidates", "insert_candidates">>,
                          clear |-> <<"delete_records">>,
                          threshold |-> <<"deactivate", "insert_version">>,
                          snapshot |-> snapshot]
  <1>1. \A m \in Methods : Program(m, on) = programs[m]
    <2>1. CASE engine = "postgres"
      BY <2>1 DEF Program, PostgresRecordQueryEvent, PostgresAddQueryCalibrationRecord,
            PostgresClearQueryCalibrationRecords, PostgresSetThreshold, PostgresInsertFaissSnapshot
    <2>2. CASE engine = "mysql"
      BY <2>2 DEF Program, MySQLRecordQueryEvent, MySQLAddQueryCalibrationRecord,
            MySQLClearQueryCalibrationRecords, MySQLSetThreshold, MySQLInsertFaissSnapshot
    <2>3. CASE engine = "sqlite"
      BY <2>3 DEF Program, SQLiteRecordQueryEvent, SQLiteAddQueryCalibrationRecord,
            SQLiteClearQueryCalibrationRecords, SQLiteSetThreshold, SQLiteInsertFaissSnapshot
    <2> QED BY <2>1, <2>2, <2>3 DEF Engines
  <1>2. /\ programs["event"] = <<"upsert_query", "delete_candidates", "insert_candidates">>
        /\ programs["record"] = <<"upsert_query", "delete_candidates", "insert_candidates">>
        /\ programs["clear"] = <<"delete_records">>
        /\ programs["threshold"] = <<"deactivate", "insert_version">>
        /\ programs["snapshot"] = snapshot
    OBVIOUS
  <1>3. /\ <<"upsert_query", "delete_candidates", "insert_candidates">> \in Seq(Statements)
        /\ <<"delete_records">> \in Seq(Statements)
        /\ <<"deactivate", "insert_version">> \in Seq(Statements)
        /\ <<"insert_version">> \in Seq(Statements)
    BY DEF Statements
  <1>4. snapshot \in Seq(Statements)
    BY <1>3
  <1> HIDE DEF programs
  <1> QED BY <1>1, <1>2, <1>3, <1>4 DEF Methods

\* A call begins: its number is new, and what it is to replace is committed.
LEMMA CallKeeps ==
  ASSUME AuditInv, NEW s \in Sessions, Call(s)
  PROVE  AuditInv'
  <1>1. PICK m \in family, q \in Queries, n \in 0..MaxRank, on \in BOOLEAN :
           /\ m \notin {"event", "record"} => q = AnyQuery
           /\ m \in {"clear", "threshold"} => n = 0
           /\ m # "snapshot" => on
           /\ session' = [session EXCEPT ![s] =
                [Idle EXCEPT !.method = m, !.key = q, !.count = n, !.active = on,
                             !.call = calls + 1, !.todo = Program(m, on),
                             !.before = IF m \notin VersionTables
                                        THEN {query[p].writer : p \in Queries}
                                        ELSE IF on THEN Numbers(VersionsOf(m))
                                        ELSE {}]]
    BY Zenon DEF Call
  <1> DEFINE before == IF m \notin VersionTables THEN {query[p].writer : p \in Queries}
                       ELSE IF on THEN Numbers(VersionsOf(m)) ELSE {}
             w1 == [Idle EXCEPT !.method = m, !.key = q, !.count = n, !.active = on,
                                !.call = calls + 1, !.todo = Program(m, on), !.before = before]
  <1>2. /\ ~Busy(s) /\ calls' = calls + 1 /\ calls + 1 \in 1..MaxCalls /\ calls \in Nat
        /\ engine' = engine /\ family' = family /\ query' = query /\ candidate' = candidate
        /\ versions' = versions /\ clock' = clock
    BY AuditNumbers DEF Call, AuditInv, chosen, auditTables
  <1>3. m \in Methods
    <2>1. family \in Families
      BY DEF AuditInv
    <2> QED BY <2>1 DEF Families, Methods
  <1>4. before \in SUBSET (0..MaxCalls)
    <2>1. \A v \in versions : v.number \in 0..MaxCalls
      BY AuditNumbers DEF AuditInv, VersionType
    <2>2. \A p \in Queries : query[p].writer \in 0..MaxCalls
      BY DEF AuditInv, QueryType
    <2>3. Numbers(VersionsOf(m)) \subseteq 0..MaxCalls
      BY <2>1 DEF Numbers, VersionsOf
    <2> QED BY <2>2, <2>3
  <1>5. m \in VersionTables => before = IF on THEN NumbersIn(versions, m) ELSE {}
    BY DEF Numbers, VersionsOf, NumbersIn
  <1> HIDE DEF before
  <1>6. Program(m, on) \in Seq(Statements)
    BY <1>3, ProgramIs DEF AuditInv
  <1>7. /\ w1 \in SessionType /\ w1.method = m /\ w1.call = calls + 1 /\ w1.count = n
        /\ w1.todo = Program(m, on) /\ w1.before = before
        /\ w1.query = NoQuery /\ w1.cleared = {} /\ w1.off = {} /\ w1.new = {} /\ w1.begun = 0
    <2>1. calls + 1 \in 0..MaxCalls
      BY <1>2, AuditNumbers
    <2>2. Idle \in SessionType
      BY IdleIs
    <2>3. w1 \in SessionType
      BY <1>3, <1>4, <1>6, <2>1, <2>2 DEF SessionType
    <2>4. /\ w1.method = m /\ w1.call = calls + 1 /\ w1.count = n
          /\ w1.todo = Program(m, on) /\ w1.before = before
      BY <2>2 DEF SessionType
    <2>5. /\ w1.query = NoQuery /\ w1.cleared = {} /\ w1.off = {} /\ w1.new = {} /\ w1.begun = 0
      BY <2>2, IdleIs DEF SessionType
    <2> QED BY <2>3, <2>4, <2>5
  <1>8. session' = [session EXCEPT ![s] = w1]
    BY <1>1 DEF before
  <1> HIDE DEF w1
  <1>9. /\ session' \in [Sessions -> SessionType] /\ session'[s] = w1
        /\ \A t \in Sessions \ {s} : session'[t] = session[t]
    BY <1>7, <1>8 DEF AuditInv
  <1>10. \A v \in versions : v.number \in Nat /\ v.number <= calls
    BY AuditNumbers DEF AuditInv, VersionType, VersionsOK
  <1>11. SessionOK(w1, versions, calls + 1)
    <2>1. w1.call \in 1..(calls + 1) /\ \A v \in versions : v.number # w1.call
      BY <1>2, <1>7, <1>10
    <2>2. engine \in Engines
      BY DEF AuditInv
    <2>3. m \in {"event", "record"} => QueryPhase(w1)
      BY <1>7, <2>2, ProgramIs DEF QueryPhase
    <2>4. m = "clear" => ClearPhase(w1)
      BY <1>7, <2>2, ProgramIs DEF ClearPhase
    <2>5. ASSUME m \in VersionTables PROVE VersionPhase(w1, versions)
      <3>1. CASE on
        <4>1. w1.todo = <<"deactivate", "insert_version">>
          BY <1>7, <2>2, <2>5, <3>1, ProgramIs DEF VersionTables
        <4> QED BY <1>5, <1>7, <2>5, <3>1, <4>1 DEF VersionPhase
      <3>2. CASE ~on
        <4>1. w1.todo = <<"insert_version">>
          BY <1>1, <1>7, <2>2, <2>5, <3>2, ProgramIs DEF VersionTables
        <4>2. w1.before = {} /\ ToReplace(w1, versions) = {}
          BY <1>5, <1>7, <2>5, <3>2 DEF ToReplace
        <4> QED BY <1>7, <4>1, <4>2 DEF VersionPhase
      <3> QED BY <3>1, <3>2
    <2>6. m # "none"
      BY <1>3 DEF Methods
    <2> QED BY <1>7, <2>1, <2>3, <2>4, <2>5, <2>6 DEF SessionOK
  <1>12. ASSUME NEW t \in Sessions PROVE SessionOK(session'[t], versions', calls')
    <2>1. CASE t = s
      BY <1>2, <1>9, <1>11, <2>1
    <2>2. CASE t # s
      <3>1. SessionOK(session[t], versions, calls) /\ session'[t] = session[t]
        BY <1>9, <2>2 DEF AuditInv
      <3>2. 1..calls \subseteq 1..(calls + 1)
        BY <1>2
      <3>3. SessionOK(session[t], versions, calls + 1)
        BY <3>1, <3>2 DEF SessionOK
      <3> QED BY <1>2, <3>1, <3>3
    <2> QED BY <2>1, <2>2
  <1>13. ASSUME NEW t \in Sessions, NEW u \in Sessions, t # u, Busy(t)', Busy(u)'
         PROVE  session'[t].call # session'[u].call
    <2>1. ASSUME NEW x \in Sessions \ {s}, Busy(x)'
          PROVE  Busy(x) /\ session'[x].call = session[x].call /\ session[x].call \in 1..calls
      <3>1. session'[x] = session[x] /\ session[x].method # "none"
        BY <1>9, <2>1 DEF Busy
      <3>2. SessionOK(session[x], versions, calls)
        BY DEF AuditInv
      <3> QED BY <3>1, <3>2 DEF SessionOK, Busy
    <2>2. session'[s].call = calls + 1 /\ \A k \in 1..calls : k # calls + 1
      BY <1>2, <1>7, <1>9
    <2>3. CASE t = s
      BY <1>13, <2>1, <2>2, <2>3
    <2>4. CASE u = s
      BY <1>13, <2>1, <2>2, <2>4
    <2>5. CASE t # s /\ u # s
      BY <1>13, <2>1, <2>5 DEF AuditInv
    <2> QED BY <2>3, <2>4, <2>5
  <1>14. CandidatesAreTheQuerys'
    BY <1>2 DEF AuditInv, CandidatesAreTheQuerys
  <1>15. VersionsOK(versions', calls')
    <2>1. \A v \in versions : v.number <= calls + 1
      BY <1>2, <1>10
    <2> QED BY <1>2, <2>1 DEF AuditInv, VersionsOK
  <1>16. calls' \in 0..MaxCalls
    BY <1>2, AuditNumbers
  <1> QED BY <1>2, <1>9, <1>12, <1>13, <1>14, <1>15, <1>16 DEF AuditInv

\* The versions after a commit.
Committed(vs, off, new) ==
  {[v EXCEPT !.active = @ /\ v.number \notin off] : v \in vs} \cup new

LEMMA CommittedIs ==
  ASSUME NEW vs \in SUBSET VersionType, NEW off, NEW new \in SUBSET VersionType,
         NEW after, after = Committed(vs, off, new)
  PROVE  /\ after \in SUBSET VersionType
         /\ \A u \in after : u \in new \/ \E v \in vs :
               /\ u.number = v.number /\ u.table = v.table /\ u.before = v.before
               /\ u.active => v.active /\ v.number \notin off
         /\ \A v \in vs : \E u \in after : u.number = v.number /\ u.table = v.table
         /\ new \subseteq after
  <1> DEFINE Was(v) == [v EXCEPT !.active = @ /\ v.number \notin off]
  <1>1. ASSUME NEW v \in vs
        PROVE  /\ Was(v) \in VersionType
               /\ Was(v).number = v.number /\ Was(v).table = v.table /\ Was(v).before = v.before
               /\ Was(v).active => v.active /\ v.number \notin off
    <2>1. v \in VersionType
      OBVIOUS
    <2>2. PICK on \in BOOLEAN : on = (v.active /\ v.number \notin off)
      OBVIOUS
    <2>3. Was(v) = [v EXCEPT !.active = on]
      BY <2>2
    <2> HIDE DEF Was
    <2> QED BY <2>1, <2>2, <2>3 DEF VersionType
  <1>2. after = {Was(v) : v \in vs} \cup new
    BY DEF Committed
  <1> HIDE DEF Was
  <1> QED BY <1>1, <1>2

\* Another session does not see a commit as a change of what it relies on.
LEMMA OthersKeep ==
  ASSUME NEW vs \in SUBSET VersionType, NEW after \in SUBSET VersionType, NEW c, NEW n,
         \A v \in vs : v.number # c,
         \A u \in after : u.number = c \/ \E v \in vs :
            u.number = v.number /\ u.table = v.table /\ (u.active => v.active),
         \A v \in vs : \E u \in after : u.number = v.number /\ u.table = v.table,
         NEW w \in SessionType, w.call # c \/ w.method = "none", SessionOK(w, vs, n)
  PROVE  SessionOK(w, after, n)
  <1>1. \A t : NumbersIn(vs, t) \subseteq NumbersIn(after, t)
    BY DEF NumbersIn
  <1>2. \A t : c \notin NumbersIn(vs, t)
    BY DEF NumbersIn
  <1>3. w.method # "none" => \A u \in after : u.number # w.call
    BY DEF SessionOK
  <1>4. ASSUME w.method \in VersionTables, VersionPhase(w, vs)
        PROVE  VersionPhase(w, after)
    <2>1. w.before \subseteq NumbersIn(vs, w.method)
      BY <1>4 DEF VersionPhase
    <2>2. ToReplace(w, after) \subseteq ToReplace(w, vs)
      BY <1>2, <2>1 DEF ToReplace
    <2>3. w.before \subseteq NumbersIn(after, w.method)
      BY <1>1, <2>1
    <2> QED BY <1>4, <2>2, <2>3 DEF VersionPhase
  <1> QED BY <1>3, <1>4 DEF SessionOK

\* What a commit does to the versions: nothing new was there when an older call
\* began, and what was there when this one began is off.
LEMMA VersionsCommitted ==
  ASSUME NEW vs \in SUBSET VersionType, NEW n \in Nat, NEW w \in SessionType, w.method # "none",
         w.todo = <<>>, SessionOK(w, vs, n), VersionsOK(vs, n),
         NEW after, after = Committed(vs, w.off, w.new)
  PROVE  VersionsOK(after, n) /\ \A u \in w.new : u.number = w.call
  <1>1. w.method \in {"event", "record"} \/ w.method = "clear" \/ w.method \in VersionTables
    BY DEF SessionType, Methods, VersionTables
  <1>2. \/ w.off = {} /\ w.new = {}
        \/ /\ w.method \in VersionTables /\ VersionPhase(w, vs)
           /\ ToReplace(w, vs) \subseteq w.off
           /\ w.before \subseteq NumbersIn(vs, w.method)
           /\ \E v \in VersionType : /\ v.number = w.call /\ v.table = w.method
                                     /\ v.before = w.before /\ w.new = {v}
    <2>1. CASE w.method \in {"event", "record"}
      BY <2>1 DEF SessionOK, QueryPhase
    <2>2. CASE w.method = "clear"
      BY <2>2 DEF SessionOK, ClearPhase
    <2>3. CASE w.method \in VersionTables
      BY <2>3 DEF SessionOK, VersionPhase
    <2> QED BY <1>1, <2>1, <2>2, <2>3
  <1>3. \A u \in w.new : u.number = w.call /\ u.table = w.method /\ u.before = w.before
    BY <1>2
  <1>4. /\ w.new \in SUBSET VersionType
        /\ w.call \in Nat /\ w.call <= n /\ \A v \in vs : v.number # w.call
    BY DEF SessionType, SessionOK
  <1>5. /\ \A u \in after : u \in w.new \/ \E v \in vs :
               /\ u.number = v.number /\ u.table = v.table /\ u.before = v.before
               /\ u.active => v.active /\ v.number \notin w.off
        /\ \A v \in vs : \E u \in after : u.number = v.number /\ u.table = v.table
        /\ w.new \subseteq after
    <2>1. PICK off : off = w.off
      OBVIOUS
    <2>2. PICK new \in SUBSET VersionType : new = w.new
      BY <1>4
    <2>3. after = Committed(vs, off, new)
      BY <2>1, <2>2
    <2>4. /\ \A u \in after : u \in new \/ \E v \in vs :
                 /\ u.number = v.number /\ u.table = v.table /\ u.before = v.before
                 /\ u.active => v.active /\ v.number \notin off
          /\ \A v \in vs : \E u \in after : u.number = v.number /\ u.table = v.table
          /\ new \subseteq after
      BY <2>3, CommittedIs
    <2> QED BY <2>1, <2>2, <2>4
  <1>6. \A u \in after : u.number <= n
    BY <1>3, <1>4, <1>5 DEF VersionsOK
  <1>7. \A t : NumbersIn(vs, t) \subseteq NumbersIn(after, t)
    BY <1>5 DEF NumbersIn
  <1>8. ASSUME NEW u \in after PROVE u.before \subseteq NumbersIn(after, u.table)
    <2>1. CASE u \in w.new
      BY <1>2, <1>3, <1>7, <2>1
    <2>2. CASE u \notin w.new
      <3>1. PICK v \in vs : u.table = v.table /\ u.before = v.before
        BY <1>5, <2>2
      <3>2. v.before \subseteq NumbersIn(vs, v.table)
        BY DEF VersionsOK
      <3> QED BY <1>7, <3>1, <3>2
    <2> QED BY <2>1, <2>2
  <1>9. ASSUME NEW u \in after, NEW x \in after, u.table = x.table, u.number \in x.before, u.active
        PROVE  FALSE
    <2>1. \A t : w.call \notin NumbersIn(vs, t)
      BY <1>4 DEF NumbersIn
    <2>2. x.before \subseteq NumbersIn(vs, x.table)
      <3>1. CASE x \in w.new
        BY <1>2, <1>3, <3>1
      <3>2. CASE x \notin w.new
        BY <1>5, <3>2 DEF VersionsOK
      <3> QED BY <3>1, <3>2
    <2>3. u \notin w.new
      BY <1>3, <1>9, <2>1, <2>2
    <2>4. PICK v \in vs : /\ u.number = v.number /\ u.table = v.table
                          /\ v.active /\ v.number \notin w.off
      BY <1>5, <1>9, <2>3
    <2>5. CASE x \in w.new
      <3>1. ToReplace(w, vs) \subseteq w.off
        BY <1>2, <2>5
      <3>2. v.number \in ToReplace(w, vs)
        BY <1>3, <1>9, <2>4, <2>5 DEF ToReplace
      <3> QED BY <2>4, <3>1, <3>2
    <2>6. CASE x \notin w.new
      <3>1. PICK y \in vs : x.table = y.table /\ x.before = y.before
        BY <1>5, <2>6
      <3> QED BY <1>9, <2>4, <3>1 DEF VersionsOK
    <2> QED BY <2>5, <2>6
  <1> QED BY <1>3, <1>6, <1>8, <1>9 DEF VersionsOK

\* What a session that is to commit has written.
LEMMA ReadyIs ==
  ASSUME NEW w \in SessionType, NEW vs, NEW n, SessionOK(w, vs, n), w.method # "none",
         w.todo = <<>>
  PROVE  w.query # NoQuery => /\ w.query = RowOf(w)
                              /\ w.candidate = FirstRanks(w, w.count)
                              /\ w.cleared = {}
  <1>1. w.method \in {"event", "record"} \/ w.method = "clear" \/ w.method \in VersionTables
    BY DEF SessionType, Methods, VersionTables
  <1>2. CASE w.method \in {"event", "record"}
    BY <1>2 DEF SessionOK, QueryPhase
  <1>3. CASE w.method = "clear"
    BY <1>3 DEF SessionOK, ClearPhase
  <1>4. CASE w.method \in VersionTables
    BY <1>4 DEF SessionOK, VersionPhase
  <1> QED BY <1>1, <1>2, <1>3, <1>4

\* The candidates of one query after a commit.
LEMMA CandidatesCommitted ==
  ASSUME AuditInv, NEW s \in Sessions, Commit(s), NEW q \in Queries
  PROVE  /\ query'[q] \in QueryType /\ candidate'[q] \in [Ranks -> 0..MaxCalls]
         /\ \A r \in Ranks :
              candidate'[q][r] = IF r <= query'[q].count THEN query'[q].writer ELSE 0
  <1> DEFINE w == session[s]
             itsOwn == w.query # NoQuery /\ q = Key(s)
  <1>1. /\ w \in SessionType /\ SessionOK(w, versions, calls)
        /\ w.method # "none" /\ w.todo = <<>>
    BY DEF AuditInv, Commit, Busy
  <1>2. /\ query'[q] = IF itsOwn THEN w.query ELSE IF q \in w.cleared THEN NoQuery ELSE query[q]
        /\ candidate'[q] = IF itsOwn THEN w.candidate
                           ELSE IF q \in w.cleared THEN NoCandidates ELSE candidate[q]
    BY DEF Commit
  <1>3. w.query # NoQuery => w.query = RowOf(w) /\ w.candidate = FirstRanks(w, w.count)
    BY <1>1, ReadyIs
  <1>4. /\ w.query \in QueryType /\ w.candidate \in [Ranks -> 0..MaxCalls]
    BY <1>1 DEF SessionType
  <1>5. CASE itsOwn
    <2>1. query'[q] = w.query /\ candidate'[q] = w.candidate
      BY <1>2, <1>5
    <2>2. w.query = RowOf(w) /\ w.candidate = FirstRanks(w, w.count)
      BY <1>3, <1>5
    <2>3. \A r \in Ranks : FirstRanks(w, w.count)[r] = IF r <= RowOf(w).count
                                                        THEN RowOf(w).writer ELSE 0
      BY DEF FirstRanks, RowOf
    <2> HIDE DEF w
    <2> QED BY <1>4, <2>1, <2>2, <2>3
  <1>6. CASE ~itsOwn /\ q \in w.cleared
    <2>1. query'[q] = NoQuery /\ candidate'[q] = NoCandidates
      BY <1>2, <1>6
    <2>2. NoQuery \in QueryType /\ NoCandidates \in [Ranks -> 0..MaxCalls]
      BY IdleIs
    <2>3. \A r \in Ranks : NoCandidates[r] = IF r <= NoQuery.count THEN NoQuery.writer ELSE 0
      BY DEF NoCandidates, NoQuery
    <2> QED BY <2>1, <2>2, <2>3
  <1>7. CASE ~itsOwn /\ q \notin w.cleared
    <2>1. query'[q] = query[q] /\ candidate'[q] = candidate[q]
      BY <1>2, <1>7
    <2>2. /\ query[q] \in QueryType /\ candidate[q] \in [Ranks -> 0..MaxCalls]
          /\ \A r \in Ranks : candidate[q][r] = IF r <= query[q].count
                                                THEN query[q].writer ELSE 0
      BY DEF AuditInv, CandidatesAreTheQuerys
    <2> QED BY <2>1, <2>2
  <1> QED BY <1>5, <1>6, <1>7

LEMMA CommitKeeps ==
  ASSUME AuditInv, NEW s \in Sessions, Commit(s)
  PROVE  AuditInv'
  <1> DEFINE w == session[s]
  <1>1. /\ engine' = engine /\ family' = family /\ clock' = clock /\ calls' = calls
        /\ session' = [session EXCEPT ![s] = Idle]
        /\ versions' = Committed(versions, w.off, w.new)
        /\ w.method # "none" /\ w.todo = <<>>
    BY DEF Commit, Rollback, Busy, chosen, Committed
  <1>2. w \in SessionType /\ SessionOK(w, versions, calls)
    BY DEF AuditInv
  <1>3. query' \in [Queries -> QueryType] /\ candidate' \in [Queries -> [Ranks -> 0..MaxCalls]]
    <2>1. \A q \in Queries : query'[q] \in QueryType /\ candidate'[q] \in [Ranks -> 0..MaxCalls]
      BY CandidatesCommitted
    <2>2. query' = [q \in Queries |-> query'[q]] /\ candidate' = [q \in Queries |-> candidate'[q]]
      BY DEF Commit
    <2> QED BY <2>1, <2>2
  <1>4. CandidatesAreTheQuerys'
    <2>1. \A q \in Queries : \A r \in Ranks :
             candidate'[q][r] = IF r <= query'[q].count THEN query'[q].writer ELSE 0
      BY CandidatesCommitted
    <2> QED BY <2>1 DEF CandidatesAreTheQuerys
  <1>5. /\ versions \in SUBSET VersionType /\ w.new \in SUBSET VersionType
        /\ calls \in Nat /\ VersionsOK(versions, calls)
    BY <1>2, AuditNumbers DEF AuditInv, SessionType
  <1>6. /\ versions' \in SUBSET VersionType
        /\ \A u \in versions' : u \in w.new \/ \E v \in versions :
               /\ u.number = v.number /\ u.table = v.table /\ u.before = v.before
               /\ u.active => v.active /\ v.number \notin w.off
        /\ \A v \in versions : \E u \in versions' : u.number = v.number /\ u.table = v.table
    BY <1>1, <1>5, CommittedIs
  <1>7. VersionsOK(versions', calls) /\ \A u \in w.new : u.number = w.call
    <2>1. PICK after : after = versions'
      OBVIOUS
    <2>2. after = Committed(versions, w.off, w.new)
      BY <1>1, <2>1
    <2>3. PICK vs \in SUBSET VersionType, n \in Nat : vs = versions /\ n = calls
      BY <1>5
    <2>4. /\ w \in SessionType /\ w.method # "none" /\ w.todo = <<>> /\ SessionOK(w, vs, n)
          /\ VersionsOK(vs, n) /\ after = Committed(vs, w.off, w.new)
      BY <1>1, <1>2, <1>5, <2>2, <2>3
    <2> HIDE DEF w
    <2>5. VersionsOK(after, n) /\ \A u \in w.new : u.number = w.call
      BY <2>4, VersionsCommitted
    <2> QED BY <2>1, <2>3, <2>5
  <1>8. \A v \in versions : v.number # w.call
    BY <1>1, <1>2 DEF SessionOK
  <1>9. /\ session' \in [Sessions -> SessionType] /\ session'[s] = Idle
        /\ \A t \in Sessions \ {s} : session'[t] = session[t]
    BY <1>1, IdleIs DEF AuditInv
  <1>10. ASSUME NEW t \in Sessions PROVE SessionOK(session'[t], versions', calls')
    <2>1. CASE t = s
      BY <1>9, <2>1, IdleIs DEF SessionOK, VersionTables
    <2>2. CASE t # s
      <3>1. /\ session[t] \in SessionType /\ SessionOK(session[t], versions, calls)
            /\ session[t].call # w.call \/ session[t].method = "none"
        BY <1>1, <2>2 DEF AuditInv, Busy
      <3>2. \A u \in versions' : u.number = w.call \/ \E v \in versions :
               u.number = v.number /\ u.table = v.table /\ (u.active => v.active)
        BY <1>6, <1>7
      <3>3. SessionOK(session[t], versions', calls)
        <4>1. PICK other \in SessionType : other = session[t]
          BY <3>1
        <4>2. PICK c : c = w.call
          OBVIOUS
        <4>3. PICK vs \in SUBSET VersionType, after \in SUBSET VersionType, n \in Nat :
                 vs = versions /\ after = versions' /\ n = calls
          BY <1>5, <1>6
        <4>4. /\ \A v \in vs : v.number # c
              /\ \A u \in after : u.number = c \/ \E v \in vs :
                    u.number = v.number /\ u.table = v.table /\ (u.active => v.active)
              /\ \A v \in vs : \E u \in after : u.number = v.number /\ u.table = v.table
              /\ other.call # c \/ other.method = "none"
              /\ SessionOK(other, vs, n)
          BY <1>6, <1>8, <3>1, <3>2, <4>1, <4>2, <4>3
        <4>5. SessionOK(other, after, n)
          BY <4>4, OthersKeep
        <4> QED BY <4>1, <4>3, <4>5
      <3> QED BY <1>1, <1>9, <2>2, <3>3
    <2> QED BY <2>1, <2>2
  <1>11. ASSUME NEW t \in Sessions, NEW u \in Sessions, t # u, Busy(t)', Busy(u)'
         PROVE  session'[t].call # session'[u].call
    <2>1. t # s /\ u # s
      BY <1>9, <1>11, IdleIs DEF Busy
    <2> QED BY <1>9, <1>11, <2>1 DEF AuditInv, Busy
  <1>12. engine' \in Engines /\ family' \in Families /\ clock' \in Nat /\ calls' \in 0..MaxCalls
         /\ VersionsOK(versions', calls')
    BY <1>1, <1>7 DEF AuditInv
  <1> HIDE DEF w
  <1> QED BY <1>3, <1>4, <1>6, <1>9, <1>10, <1>11, <1>12 DEF AuditInv

LEMMA AuditInitially ==
  AuditInit => AuditInv
  <1> SUFFICES ASSUME AuditInit PROVE AuditInv
    OBVIOUS
  <1>1. /\ query \in [Queries -> QueryType] /\ candidate \in [Queries -> [Ranks -> 0..MaxCalls]]
        /\ session \in [Sessions -> SessionType] /\ \A s \in Sessions : session[s] = Idle
    BY IdleIs DEF AuditInit
  <1>2. \A s \in Sessions : SessionOK(session[s], versions, calls)
    BY <1>1, IdleIs DEF SessionOK, VersionTables
  <1>3. \A s \in Sessions : ~Busy(s)
    BY <1>1, IdleIs DEF Busy
  <1>4. CandidatesAreTheQuerys
    BY DEF AuditInit, CandidatesAreTheQuerys, NoCandidates, NoQuery
  <1>5. VersionsOK(versions, calls) /\ versions \in SUBSET VersionType
    BY DEF AuditInit, VersionsOK
  <1>6. engine \in Engines /\ family \in Families /\ clock \in Nat /\ calls \in 0..MaxCalls
    BY AuditNumbers DEF AuditInit
  <1> QED BY <1>1, <1>2, <1>3, <1>4, <1>5, <1>6 DEF AuditInv

LEMMA AuditStep ==
  AuditInv /\ [AuditNext]_auditVars => AuditInv'
  <1> SUFFICES ASSUME AuditInv, [AuditNext]_auditVars PROVE AuditInv'
    OBVIOUS
  <1>1. ASSUME NEW s \in Sessions, Statement(s) PROVE AuditInv'
    <2>1. CASE UpsertQuery(s)
      BY <2>1, UpsertQueryKeeps
    <2>2. CASE DeleteCandidates(s)
      BY <2>2, DeleteCandidatesKeeps
    <2>3. CASE InsertCandidate(s)
      BY <2>3, InsertCandidateKeeps
    <2>4. CASE LastCandidate(s)
      BY <2>4, LastCandidateKeeps
    <2>5. CASE Sends(s, "delete_records") /\ Snapshot(s, RecordsNow)
      <3>1. RecordsNow \in SUBSET Nat
        BY AuditNumbers DEF RecordsNow
      <3> QED BY <2>5, <3>1, SnapshotKeeps
    <2>6. CASE Sends(s, "deactivate") /\ Snapshot(s, Numbers(RowsToDeactivate(session[s].method)))
      <3>1. \A v \in versions : v.number \in Nat
        BY AuditNumbers DEF AuditInv, VersionType
      <3>2. RowsToDeactivate(session[s].method) \subseteq versions
        BY Zenon DEF RowsToDeactivate, VersionsOf
      <3>3. Numbers(RowsToDeactivate(session[s].method)) \in SUBSET Nat
        BY <3>1, <3>2 DEF Numbers
      <3> QED BY <2>6, <3>3, SnapshotKeeps
    <2>7. CASE DeleteRecords(s)
      BY <2>7, DeleteRecordsKeeps
    <2>8. CASE Deactivate(s)
      BY <2>8, DeactivateKeeps
    <2>9. CASE InsertVersion(s)
      BY <2>9, InsertVersionKeeps
    <2> QED
      BY <1>1, <2>1, <2>2, <2>3, <2>4, <2>5, <2>6, <2>7, <2>8, <2>9 DEF Statement
  <1>2. CASE UNCHANGED auditVars
    BY <1>2 DEF auditVars, chosen, auditTables, AuditInv, CandidatesAreTheQuerys, Busy
  <1>3. CASE AuditNext
    <2>1. PICK s \in Sessions : Call(s) \/ Statement(s) \/ Commit(s) \/ Victim(s)
      BY <1>3 DEF AuditNext
    <2> QED BY <1>1, <2>1, CallKeeps, CommitKeeps, VictimKeeps
  <1> QED BY <1>2, <1>3

LEMMA AuditInvariant == AuditSpec => []AuditInv
  BY AuditInitially, AuditStep, PTL DEF AuditSpec

\* The audit tables and the sessions that write them keep their types: a session
\* that has returned keeps no lock and no uncommitted row, whichever statement
\* its transaction was rolled back at.
THEOREM AuditTypeCorrect == AuditSpec => []AuditTypeOK
  <1>1. AuditInv => AuditTypeOK
    BY DEF AuditInv, AuditTypeOK, SessionOK, Busy
  <1> QED BY <1>1, AuditInvariant, PTL

\* Whichever calls write a query_id at the same time, on whichever engine: the
\* committed candidates of a query are the ones of the call that wrote it.
THEOREM CandidatesStayTheQuerys == AuditSpec => []CandidatesAreTheQuerys
  <1>1. AuditInv => CandidatesAreTheQuerys
    BY DEF AuditInv
  <1> QED BY <1>1, AuditInvariant, PTL

\* A threshold or a snapshot that was committed when a call began that has
\* committed an active one is never read again as the current one: it was
\* deactivated, and no later commit makes a version active again.
THEOREM CurrentStaysUnreplaced == AuditSpec => []CurrentIsNotReplaced
  <1>1. AuditInv => CurrentIsNotReplaced
    <2> SUFFICES ASSUME AuditInv, NEW v \in versions, IsCurrentVersion(v),
                        NEW w \in VersionsOf(v.table), v.number \in w.before
                 PROVE  FALSE
      BY DEF CurrentIsNotReplaced
    <2>1. v.active /\ w \in versions /\ w.table = v.table
      BY DEF IsCurrentVersion, VersionsOf
    <2> QED BY <2>1 DEF AuditInv, VersionsOK
  <1> QED BY <1>1, AuditInvariant, PTL
=============================================================================
