---------------------------- MODULE FaissOutbox ----------------------------
(***************************************************************************)
(* The durable cache: rows, payloads and the outbox in one SQL database,   *)
(* vectors in a FAISS index in memory, FaissOutboxIndexer between the two. *)
(* Clients put, invalidate and look up entries while the indexer works;    *)
(* the process may die and start again from the last index file.           *)
(*                                                                         *)
(* A step is one SQL transaction or one hold of the FAISS lock.  The three *)
(* SQL repositories (SQLite, PostgreSQL, MySQL) have the same transactions *)
(* and gateways; the SQLite one is the one mapped.  An embedding, query    *)
(* and response are named by the outbox event of the put that wrote them.  *)
(* Ranking, expiry, scopes, hit counts and the query audit are left out.   *)
(***************************************************************************)
EXTENDS Naturals, FiniteSets

CONSTANTS
    Keys,      \* cache keys; a key keeps its faiss_id for ever
    UuidKeys,  \* those that are UUIDs already, so named alike in both stores
    Clients,   \* threads in the gateway's lookup_with_decision or invalidate
    Limit,     \* limit of process_once
    MaxWrites, \* bound: puts and invalidations
    MaxFaults  \* bound: crashes, and indexer passes cut short by an exception

ASSUME OutboxAssumption ==
    /\ Keys # {}
    /\ UuidKeys \subseteq Keys
    /\ Limit \in Nat \ {0}
    /\ MaxWrites \in Nat
    /\ MaxFaults \in Nat

VARIABLES
    row,      \* cache_entries joined with cache_payloads
    outbox,   \* the outbox_events with no processed_at
    writes,   \* the last event_id
    vectors,  \* _index: the content of the vector under a key's faiss_id
    local,    \* keys in _local_key_to_id
    file,     \* the index file: what save_snapshot wrote
    indexer,  \* process_once: control point and local variables
    client,   \* one gateway call per client
    faults    \* crashes and exceptions so far

vars == <<row, outbox, writes, vectors, local, file, indexer, client, faults>>
database == <<row, outbox, writes>>
index == <<vectors, local>>

NoContent == 0
Contents == 0..MaxWrites
Statuses == {"ABSENT", "PENDING_INDEX", "ACTIVE", "TOMBSTONED"}

\* fits: the embedding has the dimension of the index.
RowType == [status : Statuses, content : Contents, fits : BOOLEAN]
Event == [id : 1..MaxWrites, type : {"UPSERT_ENTRY", "DELETE_ENTRY"},
          key : Keys]

TypeOK ==
    /\ row \in [Keys -> RowType]
    /\ outbox \in SUBSET Event
    /\ writes \in 0..MaxWrites
    /\ vectors \in [Keys -> Contents]
    /\ local \in SUBSET Keys
    /\ file \in [Keys -> Contents]
    /\ indexer \in [at : {"idle", "next", "read", "added", "applied"},
                    batch : SUBSET Event, content : Contents, fits : BOOLEAN]
    /\ client \in [Clients -> [at : {"idle", "found", "accepted", "missing",
                                     "tombstoned"},
                               key : Keys]]
    /\ faults \in 0..MaxFaults

NoVectors == [k \in Keys |-> NoContent]
IdleIndexer == [at |-> "idle", batch |-> {}, content |-> NoContent,
                fits |-> TRUE]
AnyKey == CHOOSE k \in Keys : TRUE
IdleClient == [at |-> "idle", key |-> AnyKey]

Init ==
    /\ row = [k \in Keys |-> [status |-> "ABSENT", content |-> NoContent,
                              fits |-> TRUE]]
    /\ outbox = {}
    /\ writes = 0
    /\ vectors = NoVectors
    /\ local = {}
    /\ file = NoVectors
    /\ indexer = IdleIndexer
    /\ client = [c \in Clients |-> IdleClient]
    /\ faults = 0

(***************************************************************************)
(* The FAISS index                                                         *)
(***************************************************************************)

\* add_with_id with a result: the vector replaces the one under the same id.
AddVector(k, content) ==
    /\ vectors' = [vectors EXCEPT ![k] = content]
    /\ local' = local \cup {k}

\* delete: a vector that came from the index file is not in the local maps
\* and stays.
DeleteVector(k) ==
    IF k \in local
    THEN /\ vectors' = [vectors EXCEPT ![k] = NoContent]
         /\ local' = local \ {k}
    ELSE UNCHANGED index

(***************************************************************************)
(* Clients of the gateway                                                  *)
(***************************************************************************)

\* insert_pending_entry: the row, its payload and the event, or none of them.
InsertPending(k, fits) ==
    /\ writes < MaxWrites
    /\ writes' = writes + 1
    /\ row' = [row EXCEPT ![k] = [status |-> "PENDING_INDEX",
                                  content |-> writes + 1, fits |-> fits]]
    /\ outbox' = outbox \cup {[id |-> writes + 1, type |-> "UPSERT_ENTRY",
                               key |-> k]}

\* Mutant: a row that was never indexed needs no event.
TombstoneIfActive(k) ==
    /\ writes < MaxWrites
    /\ writes' = writes + 1
    /\ row' = [row EXCEPT ![k].status = IF @ = "ABSENT" THEN @ ELSE "TOMBSTONED"]
    /\ outbox' = IF row[k].status # "ACTIVE" THEN outbox
                 ELSE outbox \cup {[id |-> writes + 1,
                                    type |-> "DELETE_ENTRY", key |-> k]}

\* tombstone_entry: there is an event even when there is no row.
Tombstone(k) ==
    /\ writes < MaxWrites
    /\ writes' = writes + 1
    /\ row' = [row EXCEPT ![k].status = IF @ = "ABSENT" THEN @ ELSE "TOMBSTONED"]
    /\ outbox' = outbox \cup {[id |-> writes + 1, type |-> "DELETE_ENTRY",
                               key |-> k]}

\* put.
Put(k, fits) ==
    /\ InsertPending(k, fits)
    /\ UNCHANGED <<index, file, indexer, client, faults>>

Moves(c, at, k) == client' = [client EXCEPT ![c] = [at |-> at, key |-> k]]

Finishes(c) == client' = [client EXCEPT ![c] = IdleClient]

\* invalidate: the transaction, then the oracle's vector store.
InvalidateRow(c, k) ==
    /\ client[c].at = "idle"
    /\ Tombstone(k)
    /\ Moves(c, "tombstoned", k)
    /\ UNCHANGED <<index, file, indexer, faults>>

\* The vector store knows an entry by the UUID of its row, the caller by the
\* key it chose.
InvalidateVector(c) ==
    /\ client[c].at = "tombstoned"
    /\ IF client[c].key \in UuidKeys
       THEN DeleteVector(client[c].key)
       ELSE UNCHANGED index
    /\ Finishes(c)
    /\ UNCHANGED <<database, file, indexer, faults>>

\* lookup: k is the candidate, among the ids FAISS returns, that the oracle
\* will accept.
SearchVectors(c, k) ==
    /\ client[c].at = "idle"
    /\ vectors[k] # NoContent
    /\ Moves(c, "found", k)
    /\ UNCHANGED <<database, index, file, indexer, faults>>

\* fetch_active_results_by_faiss_ids.
ResolveRow(c) ==
    /\ client[c].at = "found"
    /\ IF row[client[c].key].status = "ACTIVE"
       THEN Moves(c, "accepted", client[c].key)
       ELSE Finishes(c)
    /\ UNCHANGED <<database, index, file, indexer, faults>>

\* get_payload: a hit, or the entry is gone by now.
GetPayload(c) ==
    /\ client[c].at = "accepted"
    /\ IF row[client[c].key].status = "ACTIVE"
       THEN Finishes(c)
       ELSE Moves(c, "missing", client[c].key)
    /\ UNCHANGED <<database, index, file, indexer, faults>>

\* oracle.remove, because the payload was missing.
RemoveMissing(c) ==
    /\ client[c].at = "missing"
    /\ DeleteVector(client[c].key)
    /\ Finishes(c)
    /\ UNCHANGED <<database, file, indexer, faults>>

(***************************************************************************)
(* FaissOutboxIndexer.process_once                                         *)
(***************************************************************************)

\* pending_outbox_events: the first Limit events by event_id.
IsBatch(b) ==
    /\ b \subseteq outbox
    /\ \A e \in b, f \in outbox \ b : e.id < f.id
    /\ Cardinality(b) = IF Cardinality(outbox) < Limit
                        THEN Cardinality(outbox) ELSE Limit

ReadBatch ==
    /\ indexer.at = "idle"
    /\ outbox # {}
    /\ \E b \in SUBSET outbox :
          /\ IsBatch(b)
          /\ indexer' = [indexer EXCEPT !.at = "next", !.batch = b]
    /\ UNCHANGED <<database, index, file, client, faults>>

IsCurrent(e) ==
    /\ e \in indexer.batch
    /\ \A f \in indexer.batch : e.id <= f.id

\* Mutant: the pass ends with the event.
NextEventEndsPass(e) == indexer' = IdleIndexer

\* On to the next event of the batch, which may be the end of the pass.
NextEvent(e) ==
    LET rest == indexer.batch \ {e}
    IN  indexer' = [IdleIndexer EXCEPT !.at = IF rest = {} THEN "idle" ELSE "next",
                                       !.batch = rest]

\* Mutant: every event of the entry counts as processed.
MarkProcessedForEntry(e) == outbox' = {f \in outbox : f.key # e.key}

\* mark_outbox_processed.
MarkProcessed(e) == outbox' = outbox \ {e}

\* Mutant: an event that is passed over counts as processed.
ReadEntryMarksPassed(e) ==
    /\ indexer.at = "next"
    /\ IsCurrent(e)
    /\ e.type = "UPSERT_ENTRY"
    /\ IF row[e.key].status = "PENDING_INDEX"
       THEN /\ indexer' = [indexer EXCEPT !.at = "read",
                                          !.content = row[e.key].content,
                                          !.fits = row[e.key].fits]
            /\ UNCHANGED outbox
       ELSE /\ NextEvent(e)
            /\ MarkProcessed(e)
    /\ UNCHANGED <<row, writes, index, file, client, faults>>

\* get_indexable_entry_by_faiss_id.  An event whose row is not PENDING_INDEX
\* is passed over, and stays in the outbox.
ReadEntry(e) ==
    /\ indexer.at = "next"
    /\ IsCurrent(e)
    /\ e.type = "UPSERT_ENTRY"
    /\ IF row[e.key].status = "PENDING_INDEX"
       THEN indexer' = [indexer EXCEPT !.at = "read",
                                       !.content = row[e.key].content,
                                       !.fits = row[e.key].fits]
       ELSE NextEvent(e)
    /\ UNCHANGED <<database, index, file, client, faults>>

\* add_with_id.
IndexEntry(e) ==
    /\ indexer.at = "read"
    /\ IsCurrent(e)
    /\ indexer.fits
    /\ AddVector(e.key, indexer.content)
    /\ indexer' = [indexer EXCEPT !.at = "added"]
    /\ UNCHANGED <<database, file, client, faults>>

\* add_with_id raises, and with it process_once.
IndexEntryRaises(e) ==
    /\ indexer.at = "read"
    /\ IsCurrent(e)
    /\ ~indexer.fits
    /\ indexer' = IdleIndexer
    /\ UNCHANGED <<database, index, file, client, faults>>

\* mark_entry_indexed.
MarkIndexed(k) ==
    row' = [row EXCEPT ![k].status = IF @ = "PENDING_INDEX" THEN "ACTIVE" ELSE @]

MarkEntry(e) ==
    /\ indexer.at = "added"
    /\ IsCurrent(e)
    /\ MarkIndexed(e.key)
    /\ indexer' = [indexer EXCEPT !.at = "applied"]
    /\ UNCHANGED <<outbox, writes, index, file, client, faults>>

\* DELETE_ENTRY.
RemoveEntry(e) ==
    /\ indexer.at = "next"
    /\ IsCurrent(e)
    /\ e.type = "DELETE_ENTRY"
    /\ DeleteVector(e.key)
    /\ indexer' = [indexer EXCEPT !.at = "applied"]
    /\ UNCHANGED <<database, file, client, faults>>

FinishEvent(e) ==
    /\ indexer.at = "applied"
    /\ IsCurrent(e)
    /\ MarkProcessed(e)
    /\ NextEvent(e)
    /\ UNCHANGED <<row, writes, index, file, client, faults>>

(***************************************************************************)
(* Index file, exceptions and crashes                                      *)
(***************************************************************************)

\* save_snapshot; the file is replaced in one rename.
SaveSnapshot ==
    /\ file # vectors
    /\ file' = vectors
    /\ UNCHANGED <<database, index, indexer, client, faults>>

\* A transaction of the indexer raises: what it did before stays.
IndexerRaises ==
    /\ indexer.at # "idle"
    /\ faults < MaxFaults
    /\ faults' = faults + 1
    /\ indexer' = IdleIndexer
    /\ UNCHANGED <<database, index, file, client>>

\* The process dies and another one loads the index file: the vectors come
\* back, the local maps do not.
Restart ==
    /\ faults < MaxFaults
    /\ faults' = faults + 1
    /\ vectors' = file
    /\ local' = {}
    /\ indexer' = IdleIndexer
    /\ client' = [c \in Clients |-> IdleClient]
    /\ UNCHANGED <<database, file>>

Write == \E k \in Keys, fits \in BOOLEAN : Put(k, fits)

ClientStep(c) ==
    \/ \E k \in Keys : InvalidateRow(c, k) \/ SearchVectors(c, k)
    \/ InvalidateVector(c) \/ ResolveRow(c) \/ GetPayload(c) \/ RemoveMissing(c)

IndexerStep ==
    \/ ReadBatch
    \/ \E e \in indexer.batch :
          \/ ReadEntry(e) \/ IndexEntry(e) \/ IndexEntryRaises(e) \/ MarkEntry(e)
          \/ RemoveEntry(e) \/ FinishEvent(e)

Next ==
    \/ Write
    \/ \E c \in Clients : ClientStep(c)
    \/ IndexerStep
    \/ SaveSnapshot \/ IndexerRaises \/ Restart

Spec == Init /\ [][Next]_vars

\* process_once is called again and again, as the scripts do, and every pass
\* that does not raise comes to its end.
FairSpec == Spec /\ WF_vars(IndexerStep)

(***************************************************************************)
(* Properties                                                              *)
(***************************************************************************)
HasEvent(k, type) == \E e \in outbox : e.key = k /\ e.type = type

\* A row that waits for its vector has an UPSERT_ENTRY event that the indexer
\* has yet to process, whatever put came between its transactions and wherever
\* it was interrupted.
PendingRowHasEvent ==
    \A k \in Keys : row[k].status = "PENDING_INDEX" => HasEvent(k, "UPSERT_ENTRY")

\* A deleted entry's vector goes: if this process added it, and the row is
\* tombstoned, the DELETE_ENTRY event is still there.
TombstonedVectorHasEvent ==
    \A k \in local : row[k].status = "TOMBSTONED" => HasEvent(k, "DELETE_ENTRY")

\* What the outbox says to be processed was indexed: a put is never marked
\* processed while its active row has an earlier put's vector, as it does when
\* the put came between the indexer's reading the entry and marking it.  The
\* event that remains shows what the index lacks; no pass repairs it, for the
\* row is ACTIVE and its events are passed over from now on.
StaleVectorHasEvent ==
    \A k \in local :
        row[k].status = "ACTIVE" /\ vectors[k] # row[k].content
        => \E e \in outbox : e.id = row[k].content

\* The indexer never brings a tombstoned entry back: only a put makes
\* anything of it, and that is pending first.
TombstonedStaysDead ==
    [][\A k \in Keys : row[k].status = "TOMBSTONED" => row'[k].status # "ACTIVE"]_vars

\* The events that a pass passes over and leaves where they are.
PassedOver ==
    {e \in outbox : e.type = "UPSERT_ENTRY" /\ row[e.key].status # "PENDING_INDEX"}

\* No row waits for ever, unless the events that are passed over have come to
\* fill every batch: nothing else at the head of the outbox, no event it is
\* beside, and no interruption keeps a pending row from being indexed,
\* superseded or tombstoned.  Every embedding has the dimension of the index.
\* That an indexed row is in the index is not said, see ActiveRowHasVector.
PendingEventuallyIndexed ==
    [](\A k \in Keys : row[k].fits)
    => \A k \in Keys :
          row[k].status = "PENDING_INDEX"
          ~> row[k].status # "PENDING_INDEX" \/ Cardinality(PassedOver) >= Limit

\* What the README says of the indexer, that it adds the vector of an entry and
\* marks its row ACTIVE: between two passes an active row has a vector.  The
\* code breaks it when an entry is put, invalidated and put again before it is
\* indexed: the first event indexes the row, the second takes its vector away,
\* and the third is passed over since the row is ACTIVE.
ActiveRowHasVector ==
    indexer.at = "idle"
    => \A k \in Keys : row[k].status = "ACTIVE" => vectors[k] # NoContent
=============================================================================
