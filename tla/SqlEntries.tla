----------------------------- MODULE SqlEntries -----------------------------
(***************************************************************************)
(* The entry operations of the three SQL repositories, one SQL statement   *)
(* at a time, on the three engines.  Each operation is a transaction: the  *)
(* sequence of statements that its method sends, and a commit.  What two   *)
(* transactions can do to each other is a matter of the engine:            *)
(*   sqlite    sqlite3's default mode.  A SELECT before the first write    *)
(*             belongs to no transaction; the first write takes the one    *)
(*             write lock of the database.                                 *)
(*   postgres  READ COMMITTED.  A write locks the row it finds, and looks  *)
(*             at it again when it has waited; an UPDATE that finds no     *)
(*             row locks nothing.                                          *)
(*   mysql     REPEATABLE READ.  An UPDATE that finds no row locks the gap *)
(*             where the row would be.                                     *)
(*                                                                         *)
(* The columns of an entry other than its status, faiss_id and hit_count   *)
(* are one version, as is the response; the number of the call is the      *)
(* version it writes.  Expiry and scope filters are left out.              *)
(***************************************************************************)
EXTENDS Naturals, Sequences, FiniteSets

CONSTANTS
    Keys,      \* cache keys
    Sessions,  \* threads that call the repository, each on a connection
    Nobody,    \* not a session
    Old,       \* the key that an earlier process has put and indexed, if any
    Numbers,   \* what versions, faiss_ids and event_ids are drawn from
    MaxCalls,  \* bound: calls of the repository
    MaxFaults  \* bound: connections lost and lock waits given up

ASSUME EntriesAssumption ==
    /\ Nobody \notin Sessions
    /\ Keys # {}
    /\ Numbers \subseteq Nat
    /\ MaxCalls \in Nat
    /\ MaxFaults \in Nat

VARIABLES
    engine,    \* chosen once: MLCACHE_STORAGE_BACKEND
    entry,     \* cache_entries, committed
    payload,   \* cache_payloads, committed
    outbox,    \* outbox_events, committed
    processed, \* the event_ids that have a processed_at, committed
    lastId,    \* the sequence of faiss_ids
    lastEvent, \* the sequence of event_ids
    lock,      \* who holds the lock of a row
    gap,       \* mysql: who holds the gap where a key would be
    session,   \* what each session is doing, and its uncommitted writes
    calls,     \* calls begun so far
    faults     \* faults so far

database == <<entry, payload, outbox, processed>>
locks == <<lock, gap>>
vars == <<engine, database, lastId, lastEvent, locks, session, calls, faults>>

Engines == {"sqlite", "postgres", "mysql"}
Tables == {"entry", "payload"}
Rows == Tables \X Keys
Absent == [status |-> "ABSENT", id |-> 0, version |-> 0, hits |-> 0]

OldEntry == [status |-> "ACTIVE", id |-> 1, version |-> MaxCalls + 1, hits |-> 0]

(***************************************************************************)
(* The methods, as the statements they send                                *)
(***************************************************************************)

PostgresInsertPendingEntry == <<"upsert_entry", "upsert_payload", "insert_upsert_event">>
PostgresSetPayload == <<"upsert_payload">>
PostgresGetPayload == <<"select_payload", "count_hit">>
PostgresTombstoneEntry == <<"update_tombstoned", "insert_delete_event">>
PostgresMarkEntryIndexed == <<"update_active">>
PostgresMarkOutboxProcessed == <<"update_processed">>

MySQLInsertPendingEntry == <<"upsert_entry", "select_id", "upsert_payload",
                             "insert_upsert_event">>
MySQLSetPayload == <<"upsert_payload">>
MySQLGetPayload == <<"select_payload", "count_hit">>

\* Mutant: the event is written before the row, so before any lock is held.
MySQLTombstoneEventFirst == <<"select_id", "insert_delete_event", "update_tombstoned">>

MySQLTombstoneEntry == <<"select_id", "update_tombstoned", "insert_delete_event">>
MySQLMarkEntryIndexed == <<"update_active">>
MySQLMarkOutboxProcessed == <<"update_processed">>

SQLiteInsertPendingEntry == <<"select_id", "insert_or_update_entry",
                              "upsert_payload", "insert_upsert_event">>
SQLiteSetPayload == <<"upsert_payload">>
SQLiteGetPayload == <<"select_payload", "count_hit">>
SQLiteTombstoneEntry == <<"select_id", "update_tombstoned", "insert_delete_event">>
SQLiteMarkEntryIndexed == <<"update_active">>
SQLiteMarkOutboxProcessed == <<"update_processed">>

Methods == {"put", "set", "get", "tombstone", "mark", "finish"}

Program(method) ==
    CASE engine = "postgres" ->
           [put |-> PostgresInsertPendingEntry, set |-> PostgresSetPayload,
            get |-> PostgresGetPayload, tombstone |-> PostgresTombstoneEntry,
            mark |-> PostgresMarkEntryIndexed,
            finish |-> PostgresMarkOutboxProcessed][method]
      [] engine = "mysql" ->
           [put |-> MySQLInsertPendingEntry, set |-> MySQLSetPayload,
            get |-> MySQLGetPayload, tombstone |-> MySQLTombstoneEntry,
            mark |-> MySQLMarkEntryIndexed,
            finish |-> MySQLMarkOutboxProcessed][method]
      [] engine = "sqlite" ->
           [put |-> SQLiteInsertPendingEntry, set |-> SQLiteSetPayload,
            get |-> SQLiteGetPayload, tombstone |-> SQLiteTombstoneEntry,
            mark |-> SQLiteMarkEntryIndexed,
            finish |-> SQLiteMarkOutboxProcessed][method]

Statements == {"upsert_entry", "insert_or_update_entry", "select_id",
               "upsert_payload", "select_payload", "count_hit",
               "insert_upsert_event", "insert_delete_event",
               "update_tombstoned", "update_active", "update_processed"}

(***************************************************************************)
(* Sessions                                                                *)
(***************************************************************************)

\* An idle session, and one that has written nothing.
AnyKey == CHOOSE k \in Keys : TRUE
Idle == [method |-> "none", key |-> AnyKey, version |-> 0, todo |-> <<>>,
         id |-> 0, entry |-> Absent, payload |-> 0, events |-> {}, done |-> {}]

Init ==
    /\ engine \in Engines
    /\ entry = [k \in Keys |-> IF k = Old THEN OldEntry ELSE Absent]
    /\ payload = [k \in Keys |-> entry[k].version]
    /\ outbox = {}
    /\ processed = {}
    /\ lastId = OldEntry.id
    /\ lastEvent = 0
    /\ lock = [r \in Rows |-> Nobody]
    /\ gap = [k \in Keys |-> {}]
    /\ session = [s \in Sessions |-> Idle]
    /\ calls = 0
    /\ faults = 0

Key(s) == session[s].key
Busy(s) == session[s].method # "none"

\* Does the session's next statement have this name?
Sends(s, statement) == session[s].todo # <<>> /\ Head(session[s].todo) = statement

\* What the session sees in the row of its key: its own write, if any.
Row(s) == IF session[s].entry # Absent THEN session[s].entry ELSE entry[Key(s)]

Call(s) ==
    /\ ~Busy(s)
    /\ calls < MaxCalls
    /\ calls' = calls + 1
    /\ \E m \in Methods \ {"finish"}, k \in Keys :
          session' = [session EXCEPT ![s] = [Idle EXCEPT !.method = m, !.key = k,
                                                         !.version = calls + 1,
                                                         !.todo = Program(m)]]
    /\ UNCHANGED <<engine, database, lastId, lastEvent, locks, faults>>

\* mark_outbox_processed is called for an event that pending_outbox_events
\* returned, so for a committed one.
CallFinish(s) ==
    /\ ~Busy(s)
    /\ calls < MaxCalls
    /\ calls' = calls + 1
    /\ \E e \in outbox :
          session' = [session EXCEPT ![s] = [Idle EXCEPT !.method = "finish",
                                                         !.key = e.key,
                                                         !.version = calls + 1,
                                                         !.todo = Program("finish"),
                                                         !.id = e.event]]
    /\ UNCHANGED <<engine, database, lastId, lastEvent, locks, faults>>

\* The connection's context manager: a session that is through commits, and one
\* that meets an exception rolls back.  Both let go of every lock.
Unlocks(s) ==
    /\ lock' = [r \in Rows |-> IF lock[r] = s THEN Nobody ELSE lock[r]]
    /\ gap' = [k \in Keys |-> gap[k] \ {s}]

Rollback(s) ==
    /\ Unlocks(s)
    /\ session' = [session EXCEPT ![s] = Idle]

Commit(s) ==
    /\ Busy(s)
    /\ session[s].todo = <<>>
    /\ entry' = IF session[s].entry = Absent THEN entry
                ELSE [entry EXCEPT ![Key(s)] = session[s].entry]
    /\ payload' = IF session[s].payload = 0 THEN payload
                  ELSE [payload EXCEPT ![Key(s)] = session[s].payload]
    /\ outbox' = outbox \cup session[s].events
    /\ processed' = processed \cup session[s].done
    /\ Rollback(s)
    /\ UNCHANGED <<engine, lastId, lastEvent, calls, faults>>

(***************************************************************************)
(* Locks                                                                   *)
(***************************************************************************)

LocksOf(table, k) == IF engine = "sqlite" THEN Rows ELSE {<<table, k>>}

Free(s, table, k) == \A r \in LocksOf(table, k) : lock[r] \in {s, Nobody}

\* Mutant: nobody waits.
TakesAnyway(s, table, k) ==
    lock' = [r \in Rows |-> IF r \in LocksOf(table, k) THEN s ELSE lock[r]]

Takes(s, table, k) ==
    /\ Free(s, table, k)
    /\ lock' = [r \in Rows |-> IF r \in LocksOf(table, k) THEN s ELSE lock[r]]

\* The statement is done; f are the changes to the session.
Goes(s, changed) ==
    session' = [session EXCEPT ![s] = [changed EXCEPT !.todo = Tail(@)]]

(***************************************************************************)
(* Statements                                                              *)
(***************************************************************************)

\* A plain SELECT takes no lock.
SelectId(s) ==
    /\ Sends(s, "select_id")
    /\ Goes(s, [session[s] EXCEPT !.id = Row(s).id])
    /\ UNCHANGED <<engine, database, lastId, lastEvent, locks, calls, faults>>

PendingRow(s, id) ==
    [status |-> "PENDING_INDEX", id |-> id, version |-> session[s].version,
     hits |-> entry[Key(s)].hits]

\* INSERT ... ON CONFLICT DO UPDATE: waits for whoever is inserting the same
\* key, and for whoever holds the gap.  The faiss_id that a conflict discards
\* is drawn all the same.
UpsertEntry(s) ==
    LET id == IF entry[Key(s)] = Absent THEN lastId + 1 ELSE entry[Key(s)].id
    IN  /\ Sends(s, "upsert_entry")
        /\ Takes(s, "entry", Key(s))
        /\ entry[Key(s)] = Absent => gap[Key(s)] \subseteq {s}
        /\ lastId' = lastId + 1
        /\ Goes(s, [session[s] EXCEPT !.entry = PendingRow(s, id), !.id = id])
        /\ UNCHANGED <<engine, database, lastEvent, gap, calls, faults>>

\* sqlite: UPDATE where the SELECT found a row.
UpdateEntry(s) ==
    /\ Sends(s, "insert_or_update_entry")
    /\ session[s].id # 0
    /\ Takes(s, "entry", Key(s))
    /\ Goes(s, [session[s] EXCEPT !.entry = PendingRow(s, session[s].id)])
    /\ UNCHANGED <<engine, database, lastId, lastEvent, gap, calls, faults>>

\* sqlite: INSERT under the next faiss_id where the SELECT found none...
InsertEntry(s) ==
    /\ Sends(s, "insert_or_update_entry")
    /\ session[s].id = 0
    /\ Takes(s, "entry", Key(s))
    /\ entry[Key(s)] = Absent
    /\ lastId' = lastId + 1
    /\ Goes(s, [session[s] EXCEPT !.entry = PendingRow(s, lastId + 1),
                                  !.id = lastId + 1])
    /\ UNCHANGED <<engine, database, lastEvent, gap, calls, faults>>

\* ... which is an IntegrityError if there is one by now: put raises, and the
\* number drawn from faiss_id_seq is rolled back with the rest.
InsertEntryRaises(s) ==
    /\ Sends(s, "insert_or_update_entry")
    /\ session[s].id = 0
    /\ Free(s, "entry", Key(s))
    /\ entry[Key(s)] # Absent
    /\ Rollback(s)
    /\ UNCHANGED <<engine, database, lastId, lastEvent, calls, faults>>

\* The payload's foreign key wants the row of the entry.
UpsertPayload(s) ==
    /\ Sends(s, "upsert_payload")
    /\ Row(s) # Absent
    /\ Takes(s, "payload", Key(s))
    /\ Goes(s, [session[s] EXCEPT !.payload = session[s].version])
    /\ UNCHANGED <<engine, database, lastId, lastEvent, gap, calls, faults>>

\* MySQL and SQLite wait for the transaction that is inserting it.
UpsertPayloadRaises(s) ==
    /\ Sends(s, "upsert_payload")
    /\ Row(s) = Absent
    /\ Free(s, "payload", Key(s))
    /\ engine # "postgres" => Free(s, "entry", Key(s))
    /\ Rollback(s)
    /\ UNCHANGED <<engine, database, lastId, lastEvent, calls, faults>>

\* Only an active entry is served; otherwise get_payload returns None.
SelectPayload(s) ==
    /\ Sends(s, "select_payload")
    /\ IF entry[Key(s)].status = "ACTIVE" THEN Goes(s, session[s])
       ELSE session' = [session EXCEPT ![s].todo = <<>>]
    /\ UNCHANGED <<engine, database, lastId, lastEvent, locks, calls, faults>>

\* hit_count = hit_count + 1, of whatever the row is by now.
CountHit(s) ==
    /\ Sends(s, "count_hit")
    /\ Takes(s, "entry", Key(s))
    /\ Goes(s, [session[s] EXCEPT !.entry = [entry[Key(s)] EXCEPT !.hits = @ + 1]])
    /\ UNCHANGED <<engine, database, lastId, lastEvent, gap, calls, faults>>

\* UPDATE ... WHERE cache_key: an UPDATE that finds no row takes the gap in
\* MySQL, the write lock in SQLite, and nothing in PostgreSQL, which does not
\* wait for a row that is being inserted either.
UpdateTombstoned(s) ==
    /\ Sends(s, "update_tombstoned")
    /\ entry[Key(s)] # Absent
    /\ Takes(s, "entry", Key(s))
    /\ Goes(s, [session[s] EXCEPT
                   !.entry = [entry[Key(s)] EXCEPT !.status = "TOMBSTONED"],
                   !.id = IF engine = "postgres" THEN entry[Key(s)].id ELSE @])
    /\ UNCHANGED <<engine, database, lastId, lastEvent, gap, calls, faults>>

UpdateTombstonedFindsNone(s) ==
    /\ Sends(s, "update_tombstoned")
    /\ entry[Key(s)] = Absent
    /\ engine # "postgres" => Free(s, "entry", Key(s))
    /\ lock' = [r \in Rows |-> IF engine = "sqlite" THEN s ELSE lock[r]]
    /\ gap' = [gap EXCEPT ![Key(s)] = IF engine = "mysql" THEN @ \cup {s} ELSE @]
    /\ Goes(s, session[s])
    /\ UNCHANGED <<engine, database, lastId, lastEvent, calls, faults>>

\* UPDATE ... WHERE cache_key AND status = 'PENDING_INDEX'.  PostgreSQL does not
\* wait for a row whose committed version is not pending.
UpdateActive(s) ==
    /\ Sends(s, "update_active")
    /\ entry[Key(s)].status = "PENDING_INDEX"
    /\ Takes(s, "entry", Key(s))
    /\ Goes(s, [session[s] EXCEPT !.entry = [entry[Key(s)] EXCEPT !.status = "ACTIVE"]])
    /\ UNCHANGED <<engine, database, lastId, lastEvent, gap, calls, faults>>

UpdateActiveFindsNone(s) ==
    /\ Sends(s, "update_active")
    /\ entry[Key(s)].status # "PENDING_INDEX"
    /\ engine # "postgres" => Free(s, "entry", Key(s))
    /\ Goes(s, session[s])
    /\ UNCHANGED <<engine, database, lastId, lastEvent, locks, calls, faults>>

\* The event_id is drawn now and seen at the commit.
InsertEvent(s, type) ==
    /\ lastEvent' = lastEvent + 1
    /\ Goes(s, [session[s] EXCEPT
                   !.events = {[event |-> lastEvent + 1, type |-> type,
                                key |-> Key(s), id |-> session[s].id]}])
    /\ UNCHANGED <<engine, database, lastId, locks, calls, faults>>

InsertUpsertEvent(s) ==
    /\ Sends(s, "insert_upsert_event")
    /\ InsertEvent(s, "UPSERT_ENTRY")

InsertDeleteEvent(s) ==
    /\ Sends(s, "insert_delete_event")
    /\ InsertEvent(s, "DELETE_ENTRY")

\* One row of the outbox; only SQLite's write lock can be in its way.
UpdateProcessed(s) ==
    /\ Sends(s, "update_processed")
    /\ engine = "sqlite" => Free(s, "entry", Key(s))
    /\ lock' = [r \in Rows |-> IF engine = "sqlite" THEN s ELSE lock[r]]
    /\ Goes(s, [session[s] EXCEPT !.done = {session[s].id}])
    /\ UNCHANGED <<engine, database, lastId, lastEvent, gap, calls, faults>>

\* The connection is lost, or the wait for a lock is given up.  The sequences of
\* SQLite are tables and roll back too.
Fault(s) ==
    LET inserted == session[s].entry # Absent /\ entry[Key(s)] = Absent
        returned(n) == IF engine = "sqlite" THEN n ELSE 0
    IN  /\ Busy(s)
        /\ faults < MaxFaults
        /\ faults' = faults + 1
        /\ lastId' = lastId - returned(IF inserted THEN 1 ELSE 0)
        /\ lastEvent' = lastEvent - returned(Cardinality(session[s].events))
        /\ Rollback(s)
        /\ UNCHANGED <<engine, database, calls>>

Statement(s) ==
    \/ SelectId(s) \/ UpsertEntry(s) \/ UpdateEntry(s) \/ InsertEntry(s)
    \/ InsertEntryRaises(s) \/ UpsertPayload(s) \/ UpsertPayloadRaises(s)
    \/ SelectPayload(s) \/ CountHit(s) \/ UpdateTombstoned(s)
    \/ UpdateTombstonedFindsNone(s) \/ UpdateActive(s) \/ UpdateActiveFindsNone(s)
    \/ InsertUpsertEvent(s) \/ InsertDeleteEvent(s) \/ UpdateProcessed(s)

Next ==
    \E s \in Sessions :
        Call(s) \/ CallFinish(s) \/ Statement(s) \/ Commit(s) \/ Fault(s)

Spec == Init /\ [][Next]_vars

(***************************************************************************)
(* Properties                                                              *)
(***************************************************************************)

EntryType == [status : {"ABSENT", "PENDING_INDEX", "ACTIVE", "TOMBSTONED"},
              id : Nat, version : Nat, hits : Nat]
EventType == [event : Nat, type : {"UPSERT_ENTRY", "DELETE_ENTRY"}, key : Keys,
              id : Nat]
SessionType == [method : Methods \cup {"none"}, key : Keys, version : Nat,
                todo : Seq(Statements), id : Nat, entry : EntryType, payload : Nat,
                events : SUBSET EventType, done : SUBSET Nat]

TypeOK ==
    /\ engine \in Engines
    /\ entry \in [Keys -> EntryType]
    /\ payload \in [Keys -> Nat]
    /\ outbox \in SUBSET EventType
    /\ processed \in SUBSET Nat
    /\ lastId \in Nat
    /\ lastEvent \in Nat
    /\ lock \in [Rows -> Sessions \cup {Nobody}]
    /\ gap \in [Keys -> SUBSET Sessions]
    /\ session \in [Sessions -> SessionType]
    /\ calls \in 0..MaxCalls
    /\ faults \in 0..MaxFaults

Store == INSTANCE EntryTable WITH late <- engine = "postgres"

\* Statement by statement, on every engine, the repository is the entry table of
\* EntryTable: each operation happens at once, at its commit, or not at all.
ImplementsEntryTable == Store!Spec

\* The outbox ends on the state of the row: a consumer that goes through it by
\* event_id leaves the index as the row says.  In PostgreSQL an invalidation
\* that found no row may be noted after the put it ran beside, and the
\* consumer then drops the vector of an entry that stays active.
LastEventTellsRow ==
    engine # "postgres" =>
    \A e \in outbox :
        (\A f \in outbox : f.key = e.key => f.event <= e.event)
        => \/ entry[e.key] = Absent /\ e.type = "DELETE_ENTRY"
           \/ entry[e.key].status = "TOMBSTONED" /\ e.type = "DELETE_ENTRY"
           \/ entry[e.key].status \in {"PENDING_INDEX", "ACTIVE"} /\ e.type = "UPSERT_ENTRY"
=============================================================================
