------------------------- MODULE SqlEntries_proofs -------------------------
(***************************************************************************)
(* SqlEntries implements EntryTable, for any keys, sessions and bounds, on *)
(* each of the three engines: a transaction that commits is one step of    *)
(* the table and every other statement is none.  And the outbox ends on    *)
(* the state of the row, except in PostgreSQL.                             *)
(***************************************************************************)
EXTENDS SqlEntries, FiniteSetTheorems, SequenceTheorems, TLAPS

(***************************************************************************)
(* What a session is at, by its method and the statements it still sends   *)
(***************************************************************************)

\* The session has the row of its key to itself, SQLite's the whole database.
Holds(s) ==
    /\ lock[<<"entry", Key(s)>>] = s
    /\ engine = "sqlite" => \A r \in Rows : lock[r] = s

\* The faiss_id the session read is the row's.
Known(s) == entry[Key(s)] # Absent /\ session[s].id = entry[Key(s)].id

Blank(s) ==
    /\ session[s].entry = Absent /\ session[s].payload = 0
    /\ session[s].events = {} /\ session[s].done = {}

Noted(s, type) ==
    \E n \in Nat : session[s].events =
        {[event |-> n, type |-> type, key |-> Key(s), id |-> session[s].id]}

Inserted(s) ==
    /\ Holds(s)
    /\ session[s].entry = [status |-> "PENDING_INDEX", id |-> session[s].id,
                           version |-> session[s].version, hits |-> entry[Key(s)].hits]
    /\ entry[Key(s)] # Absent => session[s].id = entry[Key(s)].id

Updated(s, row) ==
    /\ Holds(s)
    /\ entry[Key(s)] # Absent
    /\ session[s].entry = row

\* An invalidation that found no row.
FoundNone(s) ==
    /\ session[s].entry = Absent /\ session[s].id = 0
    /\ engine = "sqlite" => Holds(s) /\ entry[Key(s)] = Absent
    /\ engine = "mysql" => s \in gap[Key(s)]

PutBegun(s) ==
    /\ Blank(s)
    /\ \/ session[s].todo = <<"upsert_entry", "upsert_payload", "insert_upsert_event">>
       \/ session[s].todo = <<"upsert_entry", "select_id", "upsert_payload",
                              "insert_upsert_event">>
       \/ /\ session[s].todo = <<"select_id", "insert_or_update_entry",
                                 "upsert_payload", "insert_upsert_event">>
          /\ engine = "sqlite"
       \/ /\ session[s].todo = <<"insert_or_update_entry", "upsert_payload",
                                 "insert_upsert_event">>
          /\ engine = "sqlite"
          /\ session[s].id = 0 \/ Known(s)

PutInserted(s) ==
    /\ Inserted(s)
    /\ \/ /\ session[s].todo \in {<<"select_id", "upsert_payload", "insert_upsert_event">>,
                                  <<"upsert_payload", "insert_upsert_event">>}
          /\ session[s].payload = 0 /\ session[s].events = {}
       \/ /\ session[s].todo = <<"insert_upsert_event">>
          /\ session[s].payload = session[s].version /\ session[s].events = {}
       \/ /\ session[s].todo = <<>>
          /\ session[s].payload = session[s].version /\ Noted(s, "UPSERT_ENTRY")

Putting(s) ==
    /\ session[s].method = "put" /\ session[s].done = {} /\ session[s].version # 0
    /\ PutBegun(s) \/ PutInserted(s)

Setting(s) ==
    /\ session[s].method = "set" /\ session[s].version # 0
    /\ session[s].entry = Absent /\ session[s].events = {} /\ session[s].done = {}
    /\ \/ session[s].todo = <<"upsert_payload">> /\ session[s].payload = 0
       \/ /\ session[s].todo = <<>> /\ session[s].payload = session[s].version
          /\ entry[Key(s)] # Absent

Getting(s) ==
    /\ session[s].method = "get"
    /\ session[s].payload = 0 /\ session[s].events = {} /\ session[s].done = {}
    /\ \/ session[s].todo = <<"select_payload", "count_hit">> /\ session[s].entry = Absent
       \/ /\ session[s].todo = <<"count_hit">> /\ session[s].entry = Absent
          /\ entry[Key(s)] # Absent
       \/ /\ session[s].todo = <<>>
          /\ \/ session[s].entry = Absent
             \/ Updated(s, [entry[Key(s)] EXCEPT !.hits = entry[Key(s)].hits + 1])

Tombstoning(s) ==
    /\ session[s].method = "tombstone" /\ session[s].payload = 0 /\ session[s].done = {}
    /\ \/ /\ session[s].todo = <<"select_id", "update_tombstoned", "insert_delete_event">>
          /\ Blank(s) /\ session[s].id = 0
       \/ /\ session[s].todo = <<"update_tombstoned", "insert_delete_event">>
          /\ Blank(s) /\ (session[s].id = 0 \/ Known(s))
       \/ /\ \/ /\ Updated(s, [entry[Key(s)] EXCEPT !.status = "TOMBSTONED"])
                /\ session[s].id = 0 \/ Known(s)
             \/ FoundNone(s)
          /\ \/ session[s].todo = <<"insert_delete_event">> /\ session[s].events = {}
             \/ session[s].todo = <<>> /\ Noted(s, "DELETE_ENTRY")

Marking(s) ==
    /\ session[s].method = "mark"
    /\ session[s].payload = 0 /\ session[s].events = {} /\ session[s].done = {}
    /\ \/ session[s].todo = <<"update_active">> /\ session[s].entry = Absent
       \/ /\ session[s].todo = <<>>
          /\ \/ session[s].entry = Absent
             \/ /\ entry[Key(s)].status = "PENDING_INDEX"
                /\ Updated(s, [entry[Key(s)] EXCEPT !.status = "ACTIVE"])

Finishing(s) ==
    /\ session[s].method = "finish"
    /\ session[s].entry = Absent /\ session[s].payload = 0 /\ session[s].events = {}
    /\ \E e \in outbox : e.event = session[s].id
    /\ \/ session[s].todo = <<"update_processed">> /\ session[s].done = {}
       \/ session[s].todo = <<>> /\ session[s].done = {session[s].id}

Stage(s) ==
    \/ session[s] = Idle
    \/ Putting(s) \/ Setting(s) \/ Getting(s) \/ Tombstoning(s) \/ Marking(s)
    \/ Finishing(s)

(***************************************************************************)
(* What sessions owe each other                                            *)
(***************************************************************************)

\* The session is about to bring a key into the table.
New(s) == session[s].entry # Absent /\ entry[Key(s)] = Absent

\* faiss_ids are those of the sequence, and no two keys have one.
IdsInv ==
    \A k \in Keys :
        /\ entry[k].status = "ABSENT" => entry[k] = Absent
        /\ entry[k] # Absent => 1 <= entry[k].id /\ entry[k].id <= lastId
        /\ \A j \in Keys : entry[j].id = entry[k].id => j = k \/ entry[j] = Absent

FreshInv(s) ==
    New(s) =>
        /\ 1 <= session[s].entry.id /\ session[s].entry.id <= lastId
        /\ engine = "sqlite" => session[s].entry.id = lastId
        /\ \A j \in Keys : entry[j].id # session[s].entry.id
        /\ \A t \in Sessions : t # s /\ New(t) => session[t].entry.id # session[s].entry.id

OutOfTurn(e) == engine = "postgres" /\ e.type = "DELETE_ENTRY" /\ e.id = 0

\* event_ids are those of the sequence, and whoever has the row to itself has the
\* last word about it.
OutboxInv == \A e \in outbox : 1 <= e.event /\ e.event <= lastEvent

EventInv(s) ==
    \A e \in session[s].events :
        /\ 1 <= e.event /\ e.event <= lastEvent
        /\ engine = "sqlite" => e.event = lastEvent
        /\ \A f \in outbox : f.event # e.event
        /\ \A t \in Sessions : t # s => \A f \in session[t].events : f.event # e.event
        /\ session[s].entry # Absent =>
              \A f \in outbox : f.key = Key(s) => f.event < e.event \/ OutOfTurn(f)

\* MySQL's gap keeps a key out while invalidations that found none are open.
GapInv ==
    \A k \in Keys : \A t \in gap[k] :
        /\ engine = "mysql" /\ entry[k] = Absent
        /\ session[t].method = "tombstone" /\ Key(t) = k
        /\ \A s \in Sessions : Key(s) = k => session[s].entry = Absent

EntriesInv ==
    /\ TypeOK
    /\ \A s \in Sessions : Stage(s) /\ FreshInv(s) /\ EventInv(s)
    /\ IdsInv /\ OutboxInv /\ GapInv

(***************************************************************************)
(* Types and initial states                                                *)
(***************************************************************************)
LEMMA AbsentType ==
  /\ Absent \in EntryType /\ OldEntry \in EntryType
  /\ Absent # OldEntry /\ Absent.id = 0 /\ OldEntry.id = 1
  /\ Absent.status = "ABSENT" /\ OldEntry.status = "ACTIVE"
  BY EntriesAssumption DEF Absent, OldEntry, EntryType

LEMMA IdleType ==
  /\ Idle \in SessionType
  /\ Idle.method = "none" /\ Idle.entry = Absent /\ Idle.events = {}
  /\ Idle.todo = <<>> /\ Idle.id = 0 /\ Idle.payload = 0 /\ Idle.done = {}
  <1>1. AnyKey \in Keys
    BY EntriesAssumption DEF AnyKey
  <1>2. QED BY <1>1, AbsentType DEF Idle, SessionType

LEMMA InitEntries == Init => EntriesInv
  <1> SUFFICES ASSUME Init PROVE EntriesInv
    OBVIOUS
  <1>1. TypeOK
    <2>1. entry \in [Keys -> EntryType]
      BY AbsentType DEF Init
    <2>2. payload \in [Keys -> Nat]
      BY <2>1 DEF Init, EntryType
    <2>3. session \in [Sessions -> SessionType]
      BY IdleType DEF Init
    <2>4. lastId \in Nat /\ lastEvent \in Nat /\ calls \in 0..MaxCalls
          /\ faults \in 0..MaxFaults
      BY EntriesAssumption, AbsentType DEF Init
    <2>5. QED BY <2>1, <2>2, <2>3, <2>4 DEF Init, TypeOK
  <1>2. \A s \in Sessions : session[s] = Idle
    BY DEF Init
  <1>3. \A s \in Sessions : Stage(s) /\ FreshInv(s) /\ EventInv(s)
    BY <1>2, IdleType DEF Stage, FreshInv, New, EventInv
  <1>4. IdsInv
    <2>1. \A k \in Keys : entry[k] = IF k = Old THEN OldEntry ELSE Absent
      BY DEF Init
    <2>2. lastId = 1
      BY AbsentType DEF Init
    <2>3. QED BY <2>1, <2>2, AbsentType DEF IdsInv
  <1>5. OutboxInv /\ GapInv
    BY DEF Init, OutboxInv, GapInv
  <1>6. QED BY <1>1, <1>3, <1>4, <1>5 DEF EntriesInv

LEMMA SessionFields ==
  ASSUME TypeOK, NEW s \in Sessions
  PROVE  /\ session[s] \in SessionType /\ Key(s) \in Keys
         /\ session[s].method \in Methods \cup {"none"}
         /\ session[s].version \in Nat /\ session[s].todo \in Seq(Statements)
         /\ session[s].id \in Nat /\ session[s].entry \in EntryType
         /\ session[s].payload \in Nat /\ session[s].events \in SUBSET EventType
         /\ session[s].done \in SUBSET Nat
         /\ entry[Key(s)] \in EntryType
  BY DEF TypeOK, SessionType, Key

(***************************************************************************)
(* Sequences of statements                                                 *)
(***************************************************************************)
LEMMA StatementSequences ==
  /\ <<>> \in Seq(Statements)
  /\ \A m \in Methods : Program(m) \in Seq(Statements) \/ engine \notin Engines
  <1>1. <<>> \in Seq(Statements)
    OBVIOUS
  <1>2. ASSUME NEW m \in Methods, engine \in Engines
        PROVE  Program(m) \in Seq(Statements)
    <2>1. /\ PostgresInsertPendingEntry \in Seq(Statements)
          /\ PostgresSetPayload \in Seq(Statements)
          /\ PostgresGetPayload \in Seq(Statements)
          /\ PostgresTombstoneEntry \in Seq(Statements)
          /\ PostgresMarkEntryIndexed \in Seq(Statements)
          /\ PostgresMarkOutboxProcessed \in Seq(Statements)
      BY DEF Statements, PostgresInsertPendingEntry, PostgresSetPayload,
             PostgresGetPayload, PostgresTombstoneEntry, PostgresMarkEntryIndexed,
             PostgresMarkOutboxProcessed
    <2>2. /\ MySQLInsertPendingEntry \in Seq(Statements)
          /\ MySQLSetPayload \in Seq(Statements)
          /\ MySQLGetPayload \in Seq(Statements)
          /\ MySQLTombstoneEntry \in Seq(Statements)
          /\ MySQLMarkEntryIndexed \in Seq(Statements)
          /\ MySQLMarkOutboxProcessed \in Seq(Statements)
      BY DEF Statements, MySQLInsertPendingEntry, MySQLSetPayload,
             MySQLGetPayload, MySQLTombstoneEntry, MySQLMarkEntryIndexed,
             MySQLMarkOutboxProcessed
    <2>3. /\ SQLiteInsertPendingEntry \in Seq(Statements)
          /\ SQLiteSetPayload \in Seq(Statements)
          /\ SQLiteGetPayload \in Seq(Statements)
          /\ SQLiteTombstoneEntry \in Seq(Statements)
          /\ SQLiteMarkEntryIndexed \in Seq(Statements)
          /\ SQLiteMarkOutboxProcessed \in Seq(Statements)
      BY DEF Statements, SQLiteInsertPendingEntry, SQLiteSetPayload,
             SQLiteGetPayload, SQLiteTombstoneEntry, SQLiteMarkEntryIndexed,
             SQLiteMarkOutboxProcessed
    <2>4. CASE engine = "postgres"
      BY <2>1, <2>4 DEF Program, Methods
    <2>5. CASE engine = "mysql"
      BY <2>2, <2>5 DEF Program, Methods
    <2>6. CASE engine = "sqlite"
      BY <2>3, <2>6 DEF Program, Methods
    <2>7. QED BY <1>2, <2>4, <2>5, <2>6 DEF Engines
  <1>3. QED BY <1>1, <1>2

\* What each sequence sends first and what is left of it.
LEMMA Sending ==
  /\ Head(<<"upsert_entry", "upsert_payload", "insert_upsert_event">>) = "upsert_entry"
  /\ Tail(<<"upsert_entry", "upsert_payload", "insert_upsert_event">>)
        = <<"upsert_payload", "insert_upsert_event">>
  /\ Head(<<"upsert_entry", "select_id", "upsert_payload", "insert_upsert_event">>)
        = "upsert_entry"
  /\ Tail(<<"upsert_entry", "select_id", "upsert_payload", "insert_upsert_event">>)
        = <<"select_id", "upsert_payload", "insert_upsert_event">>
  /\ Head(<<"select_id", "insert_or_update_entry", "upsert_payload",
            "insert_upsert_event">>) = "select_id"
  /\ Tail(<<"select_id", "insert_or_update_entry", "upsert_payload",
            "insert_upsert_event">>)
        = <<"insert_or_update_entry", "upsert_payload", "insert_upsert_event">>
  /\ Head(<<"insert_or_update_entry", "upsert_payload", "insert_upsert_event">>)
        = "insert_or_update_entry"
  /\ Tail(<<"insert_or_update_entry", "upsert_payload", "insert_upsert_event">>)
        = <<"upsert_payload", "insert_upsert_event">>
  /\ Head(<<"select_id", "upsert_payload", "insert_upsert_event">>) = "select_id"
  /\ Tail(<<"select_id", "upsert_payload", "insert_upsert_event">>)
        = <<"upsert_payload", "insert_upsert_event">>
  /\ Head(<<"upsert_payload", "insert_upsert_event">>) = "upsert_payload"
  /\ Tail(<<"upsert_payload", "insert_upsert_event">>) = <<"insert_upsert_event">>
  /\ Head(<<"insert_upsert_event">>) = "insert_upsert_event"
  /\ Tail(<<"insert_upsert_event">>) = <<>>
  /\ Head(<<"upsert_payload">>) = "upsert_payload" /\ Tail(<<"upsert_payload">>) = <<>>
  /\ Head(<<"select_payload", "count_hit">>) = "select_payload"
  /\ Tail(<<"select_payload", "count_hit">>) = <<"count_hit">>
  /\ Head(<<"count_hit">>) = "count_hit" /\ Tail(<<"count_hit">>) = <<>>
  /\ Head(<<"select_id", "update_tombstoned", "insert_delete_event">>) = "select_id"
  /\ Tail(<<"select_id", "update_tombstoned", "insert_delete_event">>)
        = <<"update_tombstoned", "insert_delete_event">>
  /\ Head(<<"update_tombstoned", "insert_delete_event">>) = "update_tombstoned"
  /\ Tail(<<"update_tombstoned", "insert_delete_event">>) = <<"insert_delete_event">>
  /\ Head(<<"insert_delete_event">>) = "insert_delete_event"
  /\ Tail(<<"insert_delete_event">>) = <<>>
  /\ Head(<<"update_active">>) = "update_active" /\ Tail(<<"update_active">>) = <<>>
  /\ Head(<<"update_processed">>) = "update_processed"
  /\ Tail(<<"update_processed">>) = <<>>
  OBVIOUS

\* The session after a statement.
LEMMA GoesOn ==
  ASSUME TypeOK, NEW s \in Sessions, NEW x \in SessionType, x.todo # <<>>, Goes(s, x)
  PROVE  /\ session' \in [Sessions -> SessionType]
         /\ \A t \in Sessions : t # s => session'[t] = session[t]
         /\ session'[s].todo = Tail(x.todo)
         /\ session'[s].method = x.method /\ session'[s].key = x.key
         /\ session'[s].version = x.version /\ session'[s].id = x.id
         /\ session'[s].entry = x.entry /\ session'[s].payload = x.payload
         /\ session'[s].events = x.events /\ session'[s].done = x.done
  <1> DEFINE y == [x EXCEPT !.todo = Tail(x.todo)]
  <1>1. Tail(x.todo) \in Seq(Statements)
    <2>1. x.todo \in Seq(Statements)
      BY DEF SessionType
    <2>2. QED BY <2>1
  <1>2. /\ y \in SessionType /\ y.todo = Tail(x.todo)
        /\ y.method = x.method /\ y.key = x.key /\ y.version = x.version
        /\ y.id = x.id /\ y.entry = x.entry /\ y.payload = x.payload
        /\ y.events = x.events /\ y.done = x.done
    BY <1>1 DEF SessionType
  <1>3. session' = [session EXCEPT ![s] = y]
    BY DEF Goes
  <1> HIDE DEF y
  <1>4. QED BY <1>2, <1>3 DEF TypeOK

(***************************************************************************)
(* Locks                                                                   *)
(***************************************************************************)

\* What a statement or a rollback of s leaves to the others.
Spares(s) ==
    \A t \in Sessions : t # s =>
        /\ \A r \in Rows : lock[r] = t => lock'[r] = t
        /\ \A k \in Keys : t \in gap[k] => t \in gap'[k]

LEMMA TakesSpares ==
  ASSUME TypeOK, NEW s \in Sessions, NEW table \in Tables, NEW k \in Keys,
         Takes(s, table, k)
  PROVE  /\ lock' \in [Rows -> Sessions \cup {Nobody}]
         /\ \A t \in Sessions : \A r \in Rows : lock[r] = t => lock'[r] = t
         /\ lock'[<<table, k>>] = s
         /\ engine = "sqlite" => \A r \in Rows : lock'[r] = s
         /\ lock[<<table, k>>] \in {s, Nobody}
         /\ engine = "sqlite" => \A r \in Rows : lock[r] \in {s, Nobody}
  <1>1. <<table, k>> \in Rows /\ <<table, k>> \in LocksOf(table, k)
    BY DEF Rows, LocksOf
  <1>2. engine = "sqlite" => LocksOf(table, k) = Rows
    BY DEF LocksOf
  <1>3. lock' = [r \in Rows |-> IF r \in LocksOf(table, k) THEN s ELSE lock[r]]
    BY DEF Takes
  <1>4. \A r \in LocksOf(table, k) : lock[r] \in {s, Nobody}
    BY DEF Takes, Free
  <1>5. QED BY <1>1, <1>2, <1>3, <1>4, EntriesAssumption DEF TypeOK

LEMMA UnlocksSpares ==
  ASSUME TypeOK, NEW s \in Sessions, Unlocks(s)
  PROVE  /\ lock' \in [Rows -> Sessions \cup {Nobody}]
         /\ gap' \in [Keys -> SUBSET Sessions]
         /\ Spares(s)
         /\ \A k \in Keys : gap'[k] = gap[k] \ {s}
  BY DEF TypeOK, Unlocks, Spares

(***************************************************************************)
(* What the stage of a session says                                        *)
(***************************************************************************)
LEMMA WriterHolds ==
  ASSUME TypeOK, IdsInv, NEW s \in Sessions, Stage(s), session[s].entry # Absent
  PROVE  /\ Holds(s)
         /\ session[s].entry.status # "ABSENT"
         /\ entry[Key(s)] # Absent => session[s].entry.id = entry[Key(s)].id
         /\ session[s].method \in {"put", "get", "tombstone", "mark"}
  <1>1. entry[Key(s)] \in EntryType
    BY SessionFields
  <1>2. entry[Key(s)] # Absent => entry[Key(s)].status # "ABSENT"
    BY SessionFields DEF IdsInv
  <1>3. CASE session[s] = Idle
    BY <1>3, IdleType
  <1>4. CASE Putting(s)
    BY <1>4 DEF Putting, PutBegun, Blank, PutInserted, Inserted
  <1>5. CASE Setting(s)
    BY <1>5 DEF Setting
  <1>6. CASE Getting(s)
    BY <1>1, <1>2, <1>6 DEF Getting, Updated, EntryType
  <1>7. CASE Tombstoning(s)
    BY <1>1, <1>2, <1>7 DEF Tombstoning, Updated, FoundNone, Blank, EntryType
  <1>8. CASE Marking(s)
    BY <1>1, <1>2, <1>8 DEF Marking, Updated, EntryType
  <1>9. CASE Finishing(s)
    BY <1>9 DEF Finishing
  <1>10. QED BY <1>3, <1>4, <1>5, <1>6, <1>7, <1>8, <1>9 DEF Stage

LEMMA NoterHolds ==
  ASSUME TypeOK, NEW s \in Sessions, Stage(s), session[s].events # {}
  PROVE  /\ session[s].todo = <<>>
         /\ \E type \in {"UPSERT_ENTRY", "DELETE_ENTRY"} : Noted(s, type)
         /\ engine = "sqlite" => Holds(s)
         /\ session[s].entry = Absent =>
               FoundNone(s) /\ Noted(s, "DELETE_ENTRY") /\ session[s].method = "tombstone"
  <1>1. CASE session[s] = Idle
    BY <1>1, IdleType
  <1>2. CASE Putting(s)
    <2>1. PutInserted(s)
      BY <1>2 DEF Putting, PutBegun, Blank
    <2>2. session[s].entry.status = "PENDING_INDEX"
      BY <2>1 DEF PutInserted, Inserted
    <2>3. QED BY <2>1, <2>2, AbsentType DEF PutInserted, Inserted
  <1>3. CASE Setting(s) \/ Getting(s) \/ Marking(s) \/ Finishing(s)
    BY <1>3 DEF Setting, Getting, Marking, Finishing
  <1>4. CASE Tombstoning(s)
    <2>1. entry[Key(s)] \in EntryType
      BY SessionFields
    <2>2. Updated(s, [entry[Key(s)] EXCEPT !.status = "TOMBSTONED"])
             => session[s].entry.status = "TOMBSTONED"
      BY <2>1 DEF Updated, EntryType
    <2>3. QED BY <1>4, <2>2, AbsentType DEF Tombstoning, Blank, Updated, FoundNone
  <1>5. QED BY <1>1, <1>2, <1>3, <1>4 DEF Stage

LEMMA OneHolder ==
  ASSUME TypeOK, NEW s \in Sessions, NEW t \in Sessions, Holds(s), Holds(t),
         Key(s) = Key(t) \/ engine = "sqlite"
  PROVE  s = t
  <1>1. <<"entry", Key(t)>> \in Rows
    BY SessionFields DEF Rows, Tables
  <1>2. QED BY <1>1 DEF Holds

(***************************************************************************)
(* A step of s leaves another session where it was: its row is as it was,  *)
(* or t does not hold it and s has kept it alive under its faiss_id.       *)
(***************************************************************************)
LEMMA OtherStage ==
  ASSUME TypeOK, NEW t \in Sessions, Stage(t),
         engine' = engine, session'[t] = session[t],
         \A e \in outbox : e \in outbox',
         \A r \in Rows : lock[r] = t => lock'[r] = t,
         \A k \in Keys : t \in gap[k] => t \in gap'[k],
         \/ entry'[Key(t)] = entry[Key(t)]
         \/ /\ ~Holds(t) /\ entry'[Key(t)] # Absent /\ t \notin gap[Key(t)]
            /\ entry[Key(t)] # Absent => entry'[Key(t)].id = entry[Key(t)].id
  PROVE  Stage(t)'
  <1>1. Key(t)' = Key(t) /\ Key(t) \in Keys
    BY SessionFields DEF Key
  <1>2. Holds(t) => Holds(t)'
    <2>1. <<"entry", Key(t)>> \in Rows
      BY <1>1 DEF Rows, Tables
    <2>2. QED BY <1>1, <2>1 DEF Holds
  <1>3. Blank(t)' = Blank(t)
    BY DEF Blank
  <1>4. Known(t) => Known(t)'
    BY <1>1 DEF Known
  <1>5. \A type : Noted(t, type) => Noted(t, type)'
    BY <1>1 DEF Noted
  <1>6. Holds(t) => entry'[Key(t)] = entry[Key(t)]
    OBVIOUS
  <1>7. entry[Key(t)] # Absent => entry'[Key(t)] # Absent
    OBVIOUS
  <1>8. FoundNone(t) => FoundNone(t)'
    BY <1>1, <1>2, <1>6 DEF FoundNone
  <1>9. CASE session[t] = Idle
    BY <1>9 DEF Stage
  <1>10. CASE Putting(t)
    <2>1. PutBegun(t) => PutBegun(t)'
      BY <1>3, <1>4 DEF PutBegun
    <2>2. Inserted(t) => Inserted(t)'
      BY <1>1, <1>2, <1>6 DEF Inserted
    <2>3. PutInserted(t) => PutInserted(t)'
      BY <2>2, <1>5 DEF PutInserted
    <2>4. QED BY <2>1, <2>3, <1>10 DEF Putting, Stage
  <1>11. CASE Setting(t)
    BY <1>1, <1>7, <1>11 DEF Setting, Stage
  <1>12. CASE Getting(t)
    <2>1. Updated(t, [entry[Key(t)] EXCEPT !.hits = entry[Key(t)].hits + 1])
            => Updated(t, [entry[Key(t)] EXCEPT !.hits = entry[Key(t)].hits + 1])'
      BY <1>1, <1>2, <1>6 DEF Updated
    <2>2. QED BY <1>1, <1>7, <1>12, <2>1 DEF Getting, Stage
  <1>13. CASE Tombstoning(t)
    <2>1. Updated(t, [entry[Key(t)] EXCEPT !.status = "TOMBSTONED"])
            => Updated(t, [entry[Key(t)] EXCEPT !.status = "TOMBSTONED"])'
      BY <1>1, <1>2, <1>6 DEF Updated
    <2>2. QED BY <1>1, <1>3, <1>4, <1>5, <1>8, <1>13, <2>1 DEF Tombstoning, Stage
  <1>14. CASE Marking(t)
    <2>1. Updated(t, [entry[Key(t)] EXCEPT !.status = "ACTIVE"])
            => /\ Updated(t, [entry[Key(t)] EXCEPT !.status = "ACTIVE"])'
               /\ entry'[Key(t)] = entry[Key(t)]
      BY <1>1, <1>2, <1>6 DEF Updated
    <2>2. QED BY <1>1, <1>14, <2>1 DEF Marking, Stage
  <1>15. CASE Finishing(t)
    BY <1>15 DEF Finishing, Stage
  <1>16. QED BY <1>9, <1>10, <1>11, <1>12, <1>13, <1>14, <1>15 DEF Stage

(***************************************************************************)
(* Steps that change no table                                              *)
(***************************************************************************)

\* faiss_ids: a step of s brings in the next number, or none.
Draws(s) ==
    /\ session'[s].entry # Absent /\ entry[session'[s].key] = Absent =>
          \/ /\ New(s) /\ session'[s].entry.id = session[s].entry.id
             /\ lastId' = lastId
          \/ session'[s].entry.id = lastId + 1 /\ lastId' = lastId + 1
    /\ \A t \in Sessions : t # s /\ New(t) =>
          lastId <= lastId' /\ (engine = "sqlite" => lastId' = lastId)
    /\ \A k \in Keys : entry[k] # Absent => entry[k].id <= lastId'

\* event_ids likewise.
Notes(s) ==
    /\ \A e \in session'[s].events : e.event = lastEvent + 1 /\ lastEvent' = lastEvent + 1
    /\ \A t \in Sessions : t # s /\ session[t].events # {} =>
          lastEvent <= lastEvent' /\ (engine = "sqlite" => lastEvent' = lastEvent)
    /\ \A e \in outbox : e.event <= lastEvent'

\* A gap stays with an open invalidation, and no session writes into it.
Closes(s) ==
    /\ \A k \in Keys : \A t \in gap'[k] :
          \/ t \in gap[k] /\ t # s
          \/ t \in gap[k] /\ session'[s].method = session[s].method
             /\ session'[s].key = session[s].key
          \/ /\ t = s /\ engine = "mysql" /\ entry[k] = Absent
             /\ session'[s].method = "tombstone" /\ session'[s].key = k
             /\ \A u \in Sessions : Key(u) = k => session[u].entry = Absent
    /\ \/ session'[s].entry = Absent
       \/ session'[s].key = session[s].key /\ session'[s].entry = session[s].entry
       \/ gap'[session'[s].key] = {}

LEMMA FreshStep ==
  ASSUME TypeOK, IdsInv, NEW s \in Sessions, lastId' \in Nat,
         engine' = engine, entry' = entry,
         session' \in [Sessions -> SessionType],
         \A t \in Sessions : t # s => session'[t] = session[t],
         \A t \in Sessions : FreshInv(t), Draws(s)
  PROVE  \A t \in Sessions : FreshInv(t)'
  <1> SUFFICES ASSUME NEW t \in Sessions, New(t)'
               PROVE  FreshInv(t)'
    BY DEF FreshInv
  <1>1. \A u \in Sessions : u # s => New(u)' = New(u)
    BY DEF New, Key
  <1>2. New(s)' <=> session'[s].entry # Absent /\ entry[session'[s].key] = Absent
    BY DEF New, Key
  <1>3. lastId \in Nat /\ \A u \in Sessions : session[u].entry.id \in Nat
                                       /\ session'[u].entry.id \in Nat
    BY DEF TypeOK, SessionType, EntryType
  <1>4. \A j \in Keys : entry[j].id \in Nat /\ entry[j].id <= lastId
    BY AbsentType, <1>3 DEF TypeOK, IdsInv, EntryType
  <1>5. \A u \in Sessions : u # s /\ New(u) =>
            /\ 1 <= session[u].entry.id /\ session[u].entry.id <= lastId
            /\ session[u].entry.id <= lastId'
            /\ engine = "sqlite" => session[u].entry.id = lastId'
    BY <1>3 DEF FreshInv, Draws
  <1>6. CASE t # s
    <2>1. New(t) /\ session'[t] = session[t]
      BY <1>1, <1>6
    <2>2. \A j \in Keys : entry[j].id # session[t].entry.id
      BY <2>1 DEF FreshInv
    <2>3. ASSUME NEW u \in Sessions, u # t, New(u)'
          PROVE  session'[u].entry.id # session'[t].entry.id
      <3>1. CASE u # s
        BY <1>1, <2>1, <2>3, <3>1 DEF FreshInv
      <3>2. CASE u = s
        BY <1>2, <1>3, <1>5, <1>6, <2>1, <2>3, <3>2 DEF FreshInv, Draws
      <3>3. QED BY <3>1, <3>2
    <2>4. QED BY <1>5, <1>6, <2>1, <2>2, <2>3 DEF FreshInv
  <1>7. CASE t = s
    <2>1. CASE /\ New(s) /\ session'[s].entry.id = session[s].entry.id
               /\ lastId' = lastId
      <3>1. \A u \in Sessions : u # s /\ New(u)' =>
                session'[u].entry.id # session'[s].entry.id
        BY <1>1, <2>1 DEF FreshInv
      <3>2. QED BY <1>7, <2>1, <3>1 DEF FreshInv
    <2>2. CASE session'[s].entry.id = lastId + 1 /\ lastId' = lastId + 1
      <3>1. \A u \in Sessions : u # s /\ New(u)' =>
                session'[u].entry.id # session'[s].entry.id
        BY <1>1, <1>3, <1>5, <2>2
      <3>2. /\ 1 <= session'[s].entry.id /\ session'[s].entry.id <= lastId'
            /\ session'[s].entry.id = lastId'
            /\ \A j \in Keys : entry[j].id # session'[s].entry.id
        BY <1>3, <1>4, <2>2
      <3>3. QED BY <1>7, <3>1, <3>2 DEF FreshInv
    <2>3. QED BY <1>2, <1>7, <2>1, <2>2 DEF Draws
  <1>8. QED BY <1>6, <1>7

LEMMA EventStep ==
  ASSUME TypeOK, OutboxInv, NEW s \in Sessions, lastEvent' \in Nat,
         engine' = engine, outbox' = outbox,
         session' \in [Sessions -> SessionType],
         \A t \in Sessions : t # s => session'[t] = session[t],
         \A t \in Sessions : EventInv(t), Notes(s)
  PROVE  OutboxInv' /\ \A t \in Sessions : EventInv(t)'
  <1>1. OutboxInv'
    BY DEF Notes, OutboxInv
  <1>2. lastEvent \in Nat /\ (\A f \in outbox : f.event \in Nat)
        /\ \A u \in Sessions : \A e \in session[u].events : e.event \in Nat
    <2>1. lastEvent \in Nat /\ outbox \subseteq EventType
          /\ \A u \in Sessions : session[u].events \subseteq EventType
      BY DEF TypeOK, SessionType
    <2>2. \A e \in EventType : e.event \in Nat
      BY DEF EventType
    <2>3. QED BY <2>1, <2>2
  <1>3. ASSUME NEW t \in Sessions, t # s, NEW e \in session[t].events
        PROVE  /\ 1 <= e.event /\ e.event <= lastEvent /\ e.event <= lastEvent'
               /\ engine = "sqlite" => e.event = lastEvent'
    BY <1>2, <1>3 DEF EventInv, Notes
  <1>4. ASSUME NEW t \in Sessions
        PROVE  EventInv(t)'
    <2>1. CASE t # s
      <3>1. session'[t] = session[t] /\ Key(t)' = Key(t)
        BY <2>1 DEF Key
      <3>2. \A e \in session[t].events : \A u \in Sessions : u # t =>
                \A f \in session'[u].events : f.event # e.event
        <4>1. ASSUME NEW e \in session[t].events, NEW f \in session'[s].events
              PROVE  f.event # e.event
          BY <1>2, <1>3, <2>1, <4>1 DEF Notes
        <4>2. QED BY <2>1, <4>1 DEF EventInv
      <3>3. \A e \in session[t].events :
               /\ \A f \in outbox : f.event # e.event
               /\ session[t].entry # Absent =>
                     \A f \in outbox : f.key = Key(t) => f.event < e.event \/ OutOfTurn(f)
        BY DEF EventInv
      <3>4. \A f : OutOfTurn(f)' = OutOfTurn(f)
        BY DEF OutOfTurn
      <3>5. QED BY <1>3, <2>1, <3>1, <3>2, <3>3, <3>4 DEF EventInv
    <2>2. CASE t = s
      <3>1. ASSUME NEW e \in session'[s].events
            PROVE  /\ 1 <= e.event /\ e.event = lastEvent' /\ e.event <= lastEvent'
                   /\ \A f \in outbox : f.event # e.event /\ f.event < e.event
                   /\ \A u \in Sessions : u # s =>
                         \A f \in session'[u].events : f.event # e.event
        <4>1. e.event = lastEvent + 1 /\ lastEvent' = lastEvent + 1
          BY <3>1 DEF Notes
        <4>2. \A f \in outbox : f.event <= lastEvent
          BY DEF OutboxInv
        <4>3. ASSUME NEW u \in Sessions, u # s, NEW f \in session'[u].events
              PROVE  f.event # e.event
          BY <1>2, <1>3, <4>1, <4>3
        <4>4. QED BY <1>2, <4>1, <4>2, <4>3
      <3>2. QED BY <2>2, <3>1 DEF EventInv
    <2>3. QED BY <2>1, <2>2
  <1>5. QED BY <1>1, <1>4

LEMMA GapStep ==
  ASSUME TypeOK, GapInv, NEW s \in Sessions,
         engine' = engine, entry' = entry,
         session' \in [Sessions -> SessionType],
         gap' \in [Keys -> SUBSET Sessions],
         \A t \in Sessions : t # s => session'[t] = session[t], Closes(s)
  PROVE  GapInv'
  <1> SUFFICES ASSUME NEW k \in Keys, NEW t \in gap'[k]
               PROVE  /\ engine = "mysql" /\ entry[k] = Absent
                      /\ session'[t].method = "tombstone" /\ session'[t].key = k
                      /\ \A u \in Sessions : session'[u].key = k =>
                             session'[u].entry = Absent
    BY DEF GapInv, Key
  <1>1. t \in Sessions
    OBVIOUS
  <1>2. CASE t \in gap[k] /\ (t # s \/ (session'[s].method = session[s].method
                                      /\ session'[s].key = session[s].key))
    <2>1. /\ engine = "mysql" /\ entry[k] = Absent
          /\ session[t].method = "tombstone" /\ session[t].key = k
          /\ \A u \in Sessions : session[u].key = k => session[u].entry = Absent
      BY <1>2 DEF GapInv, Key
    <2>2. session'[t].method = "tombstone" /\ session'[t].key = k
      BY <1>1, <1>2, <2>1
    <2>3. session'[s].key = k => session'[s].entry = Absent
      BY <2>1 DEF Closes
    <2>4. QED BY <2>1, <2>2, <2>3
  <1>3. CASE /\ t = s /\ engine = "mysql" /\ entry[k] = Absent
             /\ session'[s].method = "tombstone" /\ session'[s].key = k
             /\ \A u \in Sessions : Key(u) = k => session[u].entry = Absent
    <2>1. \A u \in Sessions : u # s /\ session'[u].key = k => session'[u].entry = Absent
      BY <1>3 DEF Key
    <2>2. session'[s].entry = Absent
      BY <1>3 DEF Closes, Key
    <2>3. QED BY <1>3, <2>1, <2>2
  <1>4. QED BY <1>2, <1>3 DEF Closes

\* Altogether.
LEMMA StatementStep ==
  ASSUME EntriesInv, TypeOK', NEW s \in Sessions,
         engine' = engine, entry' = entry, outbox' = outbox,
         \A t \in Sessions : t # s => session'[t] = session[t],
         Spares(s), Stage(s)', Draws(s), Notes(s), Closes(s)
  PROVE  EntriesInv'
  <1>1. TypeOK /\ IdsInv /\ OutboxInv /\ GapInv
        /\ \A t \in Sessions : Stage(t) /\ FreshInv(t) /\ EventInv(t)
    BY DEF EntriesInv
  <1>2. /\ session' \in [Sessions -> SessionType] /\ gap' \in [Keys -> SUBSET Sessions]
        /\ lastId' \in Nat /\ lastEvent' \in Nat
    BY DEF TypeOK
  <1>3. \A t \in Sessions : FreshInv(t)'
    BY <1>1, <1>2, FreshStep
  <1>4. OutboxInv' /\ \A t \in Sessions : EventInv(t)'
    BY <1>1, <1>2, EventStep
  <1>5. GapInv'
    BY <1>1, <1>2, GapStep
  <1>6. IdsInv'
    BY <1>1 DEF IdsInv, Draws
  <1>7. ASSUME NEW t \in Sessions, t # s
        PROVE  Stage(t)'
    BY <1>1, <1>7, OtherStage DEF Spares
  <1>8. QED BY <1>3, <1>4, <1>5, <1>6, <1>7 DEF EntriesInv

\* A statement that draws no number and writes, if at all, to a row that is there.
LEMMA PlainStep ==
  ASSUME EntriesInv, TypeOK', NEW s \in Sessions,
         engine' = engine, entry' = entry, outbox' = outbox,
         \A t \in Sessions : t # s => session'[t] = session[t],
         Spares(s), Stage(s)', gap' = gap, lastId' = lastId, lastEvent' = lastEvent,
         session'[s].events = {}, session'[s].method = session[s].method,
         session'[s].key = session[s].key,
         session'[s].entry = session[s].entry \/ entry[Key(s)] # Absent
  PROVE  EntriesInv'
  <1>1. TypeOK /\ IdsInv /\ OutboxInv /\ GapInv
    BY DEF EntriesInv
  <1>2. Key(s) \in Keys /\ lastId \in Nat /\ lastEvent \in Nat
    BY <1>1, SessionFields DEF TypeOK
  <1>3. Draws(s)
    <2>1. session'[s].entry # Absent /\ entry[session'[s].key] = Absent =>
             New(s) /\ session'[s].entry.id = session[s].entry.id
      BY DEF New, Key
    <2>2. QED BY <1>1, <1>2, <2>1 DEF Draws, IdsInv
  <1>4. Notes(s)
    BY <1>1, <1>2 DEF Notes, OutboxInv
  <1>5. Closes(s)
    <2>1. entry[Key(s)] # Absent => gap[Key(s)] = {}
      BY <1>1, <1>2 DEF GapInv
    <2>2. QED BY <1>2, <2>1 DEF Closes, Key
  <1>6. QED BY <1>3, <1>4, <1>5, StatementStep

LEMMA StaysTyped ==
  ASSUME TypeOK, UNCHANGED <<engine, database, calls, faults>>,
         session' \in [Sessions -> SessionType], lastId' \in Nat, lastEvent' \in Nat,
         lock' \in [Rows -> Sessions \cup {Nobody}], gap' \in [Keys -> SUBSET Sessions]
  PROVE  TypeOK' /\ engine' = engine /\ entry' = entry /\ outbox' = outbox
  BY DEF TypeOK, database

(***************************************************************************)
(* Who sends which statement                                               *)
(***************************************************************************)
LEMMA Sender ==
  ASSUME TypeOK, NEW s \in Sessions, Stage(s)
  PROVE
  /\ Sends(s, "select_id") =>
        \/ /\ Putting(s) /\ Blank(s) /\ engine = "sqlite"
           /\ session[s].todo = <<"select_id", "insert_or_update_entry",
                                  "upsert_payload", "insert_upsert_event">>
        \/ /\ Putting(s) /\ Inserted(s) /\ session[s].payload = 0
           /\ session[s].todo = <<"select_id", "upsert_payload", "insert_upsert_event">>
        \/ /\ Tombstoning(s) /\ Blank(s)
           /\ session[s].todo = <<"select_id", "update_tombstoned", "insert_delete_event">>
  /\ Sends(s, "upsert_entry") =>
        /\ Putting(s) /\ Blank(s)
        /\ Tail(session[s].todo) \in
              {<<"upsert_payload", "insert_upsert_event">>,
               <<"select_id", "upsert_payload", "insert_upsert_event">>}
  /\ Sends(s, "insert_or_update_entry") =>
        /\ Putting(s) /\ Blank(s) /\ engine = "sqlite" /\ (session[s].id = 0 \/ Known(s))
        /\ Tail(session[s].todo) = <<"upsert_payload", "insert_upsert_event">>
  /\ Sends(s, "upsert_payload") =>
        \/ /\ Putting(s) /\ Inserted(s)
           /\ Tail(session[s].todo) = <<"insert_upsert_event">>
        \/ Setting(s) /\ Tail(session[s].todo) = <<>>
  /\ Sends(s, "select_payload") =>
        Getting(s) /\ session[s].entry = Absent /\ Tail(session[s].todo) = <<"count_hit">>
  /\ Sends(s, "count_hit") =>
        /\ Getting(s) /\ session[s].entry = Absent /\ Tail(session[s].todo) = <<>>
        /\ entry[Key(s)] # Absent
  /\ Sends(s, "update_tombstoned") =>
        /\ Tombstoning(s) /\ Blank(s) /\ (session[s].id = 0 \/ Known(s))
        /\ Tail(session[s].todo) = <<"insert_delete_event">>
  /\ Sends(s, "update_active") =>
        Marking(s) /\ session[s].entry = Absent /\ Tail(session[s].todo) = <<>>
  /\ Sends(s, "insert_upsert_event") =>
        /\ Putting(s) /\ Inserted(s) /\ session[s].payload = session[s].version
        /\ Tail(session[s].todo) = <<>>
  /\ Sends(s, "insert_delete_event") =>
        /\ Tombstoning(s) /\ Tail(session[s].todo) = <<>>
        /\ \/ /\ Updated(s, [entry[Key(s)] EXCEPT !.status = "TOMBSTONED"])
              /\ session[s].id = 0 \/ Known(s)
           \/ FoundNone(s)
  /\ Sends(s, "update_processed") =>
        Finishing(s) /\ Tail(session[s].todo) = <<>>
  <1>1. CASE session[s] = Idle
    BY <1>1, IdleType DEF Sends
  <1>2. CASE Putting(s)
    <2>1. CASE PutBegun(s)
      BY <1>2, <2>1, Sending DEF PutBegun, Sends
    <2>2. CASE PutInserted(s)
      BY <1>2, <2>2, Sending DEF PutInserted, Sends
    <2>3. QED BY <1>2, <2>1, <2>2 DEF Putting
  <1>3. CASE Setting(s)
    BY <1>3, Sending DEF Setting, Sends
  <1>4. CASE Getting(s)
    BY <1>4, Sending DEF Getting, Sends
  <1>5. CASE Tombstoning(s)
    BY <1>5, Sending DEF Tombstoning, Blank, Sends
  <1>6. CASE Marking(s)
    BY <1>6, Sending DEF Marking, Sends
  <1>7. CASE Finishing(s)
    BY <1>7, Sending DEF Finishing, Sends
  <1>8. QED BY <1>1, <1>2, <1>3, <1>4, <1>5, <1>6, <1>7 DEF Stage

\* A session that still sends statements has noted no event.
LEMMA SenderNotesNone ==
  ASSUME TypeOK, NEW s \in Sessions, Stage(s), NEW statement, Sends(s, statement)
  PROVE  session[s].events = {} /\ session[s].todo # <<>>
  BY NoterHolds DEF Sends

LEMMA AtSession ==
  ASSUME EntriesInv, NEW s \in Sessions
  PROVE  TypeOK /\ IdsInv /\ GapInv /\ OutboxInv /\ Stage(s) /\ FreshInv(s) /\ EventInv(s)
  BY DEF EntriesInv

(***************************************************************************)
(* Each statement                                                          *)
(***************************************************************************)
LEMMA SelectIdStep ==
  ASSUME EntriesInv, NEW s \in Sessions, SelectId(s)
  PROVE  EntriesInv'
  <1> DEFINE x == [session[s] EXCEPT !.id = Row(s).id]
  <1>1. /\ TypeOK /\ IdsInv /\ Stage(s) /\ Sends(s, "select_id")
        /\ session[s].events = {} /\ session[s].todo # <<>>
    BY AtSession, SenderNotesNone DEF SelectId
  <1>2. Row(s) \in EntryType /\ Row(s).id \in Nat
    BY <1>1, SessionFields DEF Row, EntryType
  <1>3. /\ x \in SessionType /\ x.todo = session[s].todo /\ x.method = session[s].method
        /\ x.key = session[s].key /\ x.version = session[s].version
        /\ x.id = Row(s).id /\ x.entry = session[s].entry
        /\ x.payload = session[s].payload /\ x.events = session[s].events
        /\ x.done = session[s].done
    BY <1>1, <1>2, SessionFields DEF SessionType
  <1>4. Goes(s, x)
    BY DEF SelectId
  <1> HIDE DEF x
  <1>5. /\ session' \in [Sessions -> SessionType]
        /\ \A t \in Sessions : t # s => session'[t] = session[t]
        /\ session'[s].todo = Tail(session[s].todo)
        /\ session'[s].method = session[s].method /\ session'[s].key = session[s].key
        /\ session'[s].version = session[s].version /\ session'[s].id = Row(s).id
        /\ session'[s].entry = session[s].entry
        /\ session'[s].payload = session[s].payload
        /\ session'[s].events = session[s].events /\ session'[s].done = session[s].done
    BY <1>1, <1>3, <1>4, GoesOn
  <1>6. UNCHANGED <<engine, database, lastId, lastEvent, locks, calls, faults>>
    BY DEF SelectId
  <1>7. TypeOK' /\ engine' = engine /\ entry' = entry /\ outbox' = outbox
        /\ lock' = lock /\ gap' = gap /\ lastId' = lastId /\ lastEvent' = lastEvent
    BY <1>1, <1>5, <1>6 DEF TypeOK, database, locks
  <1>8. Key(s)' = Key(s) /\ (Holds(s) => Holds(s)') /\ (Blank(s) => Blank(s)')
    BY <1>5, <1>7 DEF Key, Holds, Blank
  <1>9. session[s].entry = Absent => session'[s].id = 0 \/ Known(s)'
    BY <1>5, <1>7, <1>8, AbsentType DEF Row, Known
  <1>10. Stage(s)'
    <2>1. CASE /\ Putting(s) /\ Blank(s) /\ engine = "sqlite"
               /\ session[s].todo = <<"select_id", "insert_or_update_entry",
                                      "upsert_payload", "insert_upsert_event">>
      <3>1. PutBegun(s)'
        BY <1>5, <1>7, <1>8, <1>9, <2>1, Sending DEF PutBegun, Blank
      <3>2. QED BY <1>5, <2>1, <3>1 DEF Putting, Stage
    <2>2. CASE /\ Putting(s) /\ Inserted(s) /\ session[s].payload = 0
               /\ session[s].todo = <<"select_id", "upsert_payload", "insert_upsert_event">>
      <3>1. session[s].entry # Absent /\ Row(s).id = session[s].id
        BY <2>2, AbsentType DEF Inserted, Row
      <3>2. Inserted(s)'
        BY <1>5, <1>7, <1>8, <2>2, <3>1 DEF Inserted
      <3>3. PutInserted(s)'
        BY <1>1, <1>5, <2>2, <3>2, Sending DEF PutInserted
      <3>4. QED BY <1>5, <2>2, <3>3 DEF Putting, Stage
    <2>3. CASE /\ Tombstoning(s) /\ Blank(s)
               /\ session[s].todo = <<"select_id", "update_tombstoned",
                                      "insert_delete_event">>
      BY <1>5, <1>8, <1>9, <2>3, Sending DEF Tombstoning, Blank, Stage
    <2>4. QED BY <1>1, <2>1, <2>2, <2>3, Sender
  <1>11. QED BY <1>1, <1>5, <1>7, <1>10, PlainStep DEF Spares

\* What a statement that takes the lock of a row leaves.
LEMMA TakesStep ==
  ASSUME EntriesInv, NEW s \in Sessions, NEW table \in Tables, Takes(s, table, Key(s)),
         NEW x \in SessionType, x.todo # <<>>, Goes(s, x), x.key = session[s].key,
         lastId' \in Nat, lastEvent' \in Nat,
         UNCHANGED <<engine, database, gap, calls, faults>>
  PROVE  /\ TypeOK' /\ engine' = engine /\ entry' = entry /\ outbox' = outbox
         /\ \A t \in Sessions : t # s => session'[t] = session[t]
         /\ Spares(s) /\ gap' = gap /\ Key(s)' = Key(s)
         /\ table = "entry" \/ engine = "sqlite" \/ Holds(s) => Holds(s)'
  <1>1. TypeOK /\ Key(s) \in Keys
    BY AtSession, SessionFields
  <1>2. /\ lock' \in [Rows -> Sessions \cup {Nobody}]
        /\ \A t \in Sessions : \A r \in Rows : lock[r] = t => lock'[r] = t
        /\ lock'[<<table, Key(s)>>] = s
        /\ engine = "sqlite" => \A r \in Rows : lock'[r] = s
    BY <1>1, TakesSpares
  <1>3. /\ session' \in [Sessions -> SessionType] /\ session'[s].key = x.key
        /\ \A t \in Sessions : t # s => session'[t] = session[t]
    BY <1>1, GoesOn
  <1>4. TypeOK' /\ engine' = engine /\ entry' = entry /\ outbox' = outbox
        /\ gap' = gap
    BY <1>1, <1>2, <1>3 DEF TypeOK, database
  <1>5. Key(s)' = Key(s) /\ <<"entry", Key(s)>> \in Rows
    BY <1>1, <1>3 DEF Key, Rows, Tables
  <1>6. table = "entry" \/ engine = "sqlite" \/ Holds(s) => Holds(s)'
    BY <1>2, <1>4, <1>5 DEF Holds
  <1>7. QED BY <1>2, <1>3, <1>4, <1>5, <1>6 DEF Spares

LEMMA PendingRowType ==
  ASSUME TypeOK, NEW s \in Sessions, NEW id \in Nat
  PROVE  /\ PendingRow(s, id) \in EntryType /\ PendingRow(s, id).id = id
         /\ PendingRow(s, id) # Absent
         /\ PendingRow(s, id) = [status |-> "PENDING_INDEX", id |-> id,
                                 version |-> session[s].version, hits |-> entry[Key(s)].hits]
  <1>1. session[s].version \in Nat /\ entry[Key(s)].hits \in Nat
    BY SessionFields DEF EntryType
  <1>2. QED BY <1>1, AbsentType DEF PendingRow, EntryType

LEMMA UpdateEntryStep ==
  ASSUME EntriesInv, NEW s \in Sessions, UpdateEntry(s)
  PROVE  EntriesInv'
  <1> DEFINE x == [session[s] EXCEPT !.entry = PendingRow(s, session[s].id)]
  <1>1. /\ TypeOK /\ IdsInv /\ Stage(s) /\ Sends(s, "insert_or_update_entry")
        /\ session[s].events = {} /\ session[s].todo # <<>> /\ session[s].id \in Nat
    BY AtSession, SenderNotesNone, SessionFields DEF UpdateEntry
  <1>2. /\ Putting(s) /\ Blank(s) /\ Known(s)
        /\ Tail(session[s].todo) = <<"upsert_payload", "insert_upsert_event">>
    BY <1>1, Sender DEF UpdateEntry
  <1>3. /\ x \in SessionType /\ x.todo = session[s].todo /\ x.method = session[s].method
        /\ x.key = session[s].key /\ x.version = session[s].version
        /\ x.id = session[s].id /\ x.entry = PendingRow(s, session[s].id)
        /\ x.payload = session[s].payload /\ x.events = session[s].events
        /\ x.done = session[s].done
    BY <1>1, PendingRowType, SessionFields DEF SessionType
  <1>4. Goes(s, x) /\ Takes(s, "entry", Key(s))
        /\ UNCHANGED <<engine, database, lastId, lastEvent, gap, calls, faults>>
    BY DEF UpdateEntry
  <1> HIDE DEF x
  <1>5. /\ session'[s].todo = Tail(session[s].todo)
        /\ session'[s].method = session[s].method /\ session'[s].key = session[s].key
        /\ session'[s].version = session[s].version /\ session'[s].id = session[s].id
        /\ session'[s].entry = PendingRow(s, session[s].id)
        /\ session'[s].payload = session[s].payload
        /\ session'[s].events = session[s].events /\ session'[s].done = session[s].done
    BY <1>1, <1>3, <1>4, GoesOn
  <1>6. lastId' = lastId /\ lastEvent' = lastEvent /\ lastId' \in Nat /\ lastEvent' \in Nat
    BY <1>1, <1>4 DEF TypeOK
  <1>7. /\ TypeOK' /\ engine' = engine /\ entry' = entry /\ outbox' = outbox
        /\ \A t \in Sessions : t # s => session'[t] = session[t]
        /\ Spares(s) /\ gap' = gap /\ Key(s)' = Key(s) /\ Holds(s)'
    BY <1>1, <1>3, <1>4, <1>6, TakesStep DEF Tables
  <1>8. Stage(s)'
    <2>1. Inserted(s)'
      BY <1>1, <1>2, <1>5, <1>7, PendingRowType DEF Inserted, Known
    <2>2. PutInserted(s)'
      BY <1>1, <1>2, <1>5, <2>1 DEF PutInserted, Blank
    <2>3. QED BY <1>2, <1>5, <2>2 DEF Putting, Stage
  <1>9. QED BY <1>1, <1>2, <1>5, <1>6, <1>7, <1>8, PlainStep DEF Known

LEMMA UpsertPayloadStep ==
  ASSUME EntriesInv, NEW s \in Sessions, UpsertPayload(s)
  PROVE  EntriesInv'
  <1> DEFINE x == [session[s] EXCEPT !.payload = session[s].version]
  <1>1. /\ TypeOK /\ IdsInv /\ Stage(s) /\ Sends(s, "upsert_payload") /\ Row(s) # Absent
        /\ session[s].events = {} /\ session[s].todo # <<>>
    BY AtSession, SenderNotesNone DEF UpsertPayload
  <1>2. \/ /\ Putting(s) /\ Inserted(s)
           /\ Tail(session[s].todo) = <<"insert_upsert_event">>
        \/ Setting(s) /\ Tail(session[s].todo) = <<>>
    BY <1>1, Sender
  <1>3. /\ x \in SessionType /\ x.todo = session[s].todo /\ x.method = session[s].method
        /\ x.key = session[s].key /\ x.version = session[s].version
        /\ x.id = session[s].id /\ x.entry = session[s].entry
        /\ x.payload = session[s].version /\ x.events = session[s].events
        /\ x.done = session[s].done
    BY <1>1, SessionFields DEF SessionType
  <1>4. Goes(s, x) /\ Takes(s, "payload", Key(s))
        /\ UNCHANGED <<engine, database, lastId, lastEvent, gap, calls, faults>>
    BY DEF UpsertPayload
  <1> HIDE DEF x
  <1>5. /\ session'[s].todo = Tail(session[s].todo)
        /\ session'[s].method = session[s].method /\ session'[s].key = session[s].key
        /\ session'[s].version = session[s].version /\ session'[s].id = session[s].id
        /\ session'[s].entry = session[s].entry
        /\ session'[s].payload = session[s].version
        /\ session'[s].events = session[s].events /\ session'[s].done = session[s].done
    BY <1>1, <1>3, <1>4, GoesOn
  <1>6. lastId' = lastId /\ lastEvent' = lastEvent /\ lastId' \in Nat /\ lastEvent' \in Nat
    BY <1>1, <1>4 DEF TypeOK
  <1>7. /\ TypeOK' /\ engine' = engine /\ entry' = entry /\ outbox' = outbox
        /\ \A t \in Sessions : t # s => session'[t] = session[t]
        /\ Spares(s) /\ gap' = gap /\ Key(s)' = Key(s) /\ (Holds(s) => Holds(s)')
    BY <1>1, <1>3, <1>4, <1>6, TakesStep DEF Tables
  <1>8. Stage(s)'
    <2>1. CASE /\ Putting(s) /\ Inserted(s)
               /\ Tail(session[s].todo) = <<"insert_upsert_event">>
      <3>1. Inserted(s)'
        BY <1>5, <1>7, <2>1 DEF Inserted
      <3>2. PutInserted(s)'
        BY <1>1, <1>5, <2>1, <3>1 DEF PutInserted
      <3>3. QED BY <1>5, <2>1, <3>2 DEF Putting, Stage
    <2>2. CASE Setting(s) /\ Tail(session[s].todo) = <<>>
      BY <1>1, <1>5, <1>7, <2>2 DEF Setting, Row, Stage
    <2>3. QED BY <1>2, <2>1, <2>2
  <1>9. QED BY <1>1, <1>5, <1>6, <1>7, <1>8, PlainStep

LEMMA SelectPayloadStep ==
  ASSUME EntriesInv, NEW s \in Sessions, SelectPayload(s)
  PROVE  EntriesInv'
  <1>1. /\ TypeOK /\ IdsInv /\ Stage(s) /\ Sends(s, "select_payload")
        /\ session[s].events = {} /\ session[s].todo # <<>>
    BY AtSession, SenderNotesNone DEF SelectPayload
  <1>2. Getting(s) /\ session[s].entry = Absent /\ Tail(session[s].todo) = <<"count_hit">>
    BY <1>1, Sender
  <1>3. /\ session' \in [Sessions -> SessionType]
        /\ \A t \in Sessions : t # s => session'[t] = session[t]
        /\ session'[s].method = session[s].method /\ session'[s].key = session[s].key
        /\ session'[s].entry = session[s].entry
        /\ session'[s].payload = session[s].payload
        /\ session'[s].events = session[s].events /\ session'[s].done = session[s].done
        /\ \/ session'[s].todo = <<"count_hit">> /\ entry[Key(s)].status = "ACTIVE"
           \/ session'[s].todo = <<>>
    <2>1. CASE entry[Key(s)].status = "ACTIVE"
      <3>1. Goes(s, session[s]) /\ session[s] \in SessionType
        BY <1>1, <2>1, SessionFields DEF SelectPayload
      <3>2. QED BY <1>1, <1>2, <2>1, <3>1, GoesOn
    <2>2. CASE entry[Key(s)].status # "ACTIVE"
      <3> DEFINE y == [session[s] EXCEPT !.todo = <<>>]
      <3>1. session' = [session EXCEPT ![s] = y]
        BY <2>2 DEF SelectPayload
      <3>2. /\ y \in SessionType /\ y.todo = <<>> /\ y.method = session[s].method
            /\ y.key = session[s].key /\ y.entry = session[s].entry
            /\ y.payload = session[s].payload /\ y.events = session[s].events
            /\ y.done = session[s].done
        BY <1>1, SessionFields, StatementSequences DEF SessionType
      <3> HIDE DEF y
      <3>3. QED BY <1>1, <3>1, <3>2 DEF TypeOK
    <2>3. QED BY <2>1, <2>2
  <1>4. UNCHANGED <<engine, database, lastId, lastEvent, locks, calls, faults>>
    BY DEF SelectPayload
  <1>5. TypeOK' /\ engine' = engine /\ entry' = entry /\ outbox' = outbox
        /\ lock' = lock /\ gap' = gap /\ lastId' = lastId /\ lastEvent' = lastEvent
    BY <1>1, <1>3, <1>4 DEF TypeOK, database, locks
  <1>6. Stage(s)'
    <2>1. Key(s)' = Key(s)
      BY <1>3 DEF Key
    <2>2. QED BY <1>2, <1>3, <1>5, <2>1, AbsentType DEF Getting, Stage
  <1>7. QED BY <1>1, <1>3, <1>5, <1>6, PlainStep DEF Spares

LEMMA CountHitStep ==
  ASSUME EntriesInv, NEW s \in Sessions, CountHit(s)
  PROVE  EntriesInv'
  <1> DEFINE row == [entry[Key(s)] EXCEPT !.hits = entry[Key(s)].hits + 1]
             x == [session[s] EXCEPT !.entry = row]
  <1>1. /\ TypeOK /\ IdsInv /\ Stage(s) /\ Sends(s, "count_hit")
        /\ session[s].events = {} /\ session[s].todo # <<>>
    BY AtSession, SenderNotesNone DEF CountHit
  <1>2. /\ Getting(s) /\ session[s].entry = Absent /\ Tail(session[s].todo) = <<>>
        /\ entry[Key(s)] # Absent
    BY <1>1, Sender
  <1>3. row \in EntryType
    BY <1>1, SessionFields DEF EntryType
  <1>4. Goes(s, x) /\ Takes(s, "entry", Key(s))
        /\ UNCHANGED <<engine, database, lastId, lastEvent, gap, calls, faults>>
    BY DEF CountHit
  <1>5. Updated(s, row)' <=> Holds(s)' /\ entry'[session'[s].key] # Absent
          /\ session'[s].entry = [entry'[session'[s].key] EXCEPT
                                     !.hits = entry'[session'[s].key].hits + 1]
    BY DEF Updated, Key
  <1>6. row = [entry[session[s].key] EXCEPT !.hits = entry[session[s].key].hits + 1]
    BY DEF Key
  <1> HIDE DEF row
  <1>7. /\ x \in SessionType /\ x.todo = session[s].todo /\ x.method = session[s].method
        /\ x.key = session[s].key /\ x.entry = row
        /\ x.payload = session[s].payload /\ x.events = session[s].events
        /\ x.done = session[s].done
    BY <1>1, <1>3, SessionFields DEF SessionType
  <1> HIDE DEF x
  <1>8. /\ session'[s].todo = Tail(session[s].todo)
        /\ session'[s].method = session[s].method /\ session'[s].key = session[s].key
        /\ session'[s].entry = row /\ session'[s].payload = session[s].payload
        /\ session'[s].events = session[s].events /\ session'[s].done = session[s].done
    BY <1>1, <1>7, <1>4, GoesOn
  <1>9. lastId' = lastId /\ lastEvent' = lastEvent /\ lastId' \in Nat /\ lastEvent' \in Nat
    BY <1>1, <1>4 DEF TypeOK
  <1>10. /\ TypeOK' /\ engine' = engine /\ entry' = entry /\ outbox' = outbox
         /\ \A t \in Sessions : t # s => session'[t] = session[t]
         /\ Spares(s) /\ gap' = gap /\ Key(s)' = Key(s) /\ Holds(s)'
    BY <1>1, <1>4, <1>7, <1>9, TakesStep DEF Tables
  <1>11. Stage(s)'
    <2>1. /\ Holds(s)' /\ entry'[Key(s)'] # Absent
          /\ session'[s].entry = [entry'[Key(s)'] EXCEPT !.hits = entry'[Key(s)'].hits + 1]
      BY <1>2, <1>6, <1>8, <1>10 DEF Key
    <2>2. Updated(s, [entry[Key(s)] EXCEPT !.hits = entry[Key(s)].hits + 1])'
      BY <2>1 DEF Updated
    <2>3. QED BY <1>1, <1>2, <1>8, <2>2 DEF Getting, Stage
  <1>12. QED BY <1>1, <1>2, <1>8, <1>9, <1>10, <1>11, PlainStep

LEMMA UpdateTombstonedStep ==
  ASSUME EntriesInv, NEW s \in Sessions, UpdateTombstoned(s)
  PROVE  EntriesInv'
  <1> DEFINE row == [entry[Key(s)] EXCEPT !.status = "TOMBSTONED"]
             id == IF engine = "postgres" THEN entry[Key(s)].id ELSE session[s].id
             x == [session[s] EXCEPT !.entry = row, !.id = id]
  <1>1. /\ TypeOK /\ IdsInv /\ Stage(s) /\ Sends(s, "update_tombstoned")
        /\ session[s].events = {} /\ session[s].todo # <<>> /\ entry[Key(s)] # Absent
    BY AtSession, SenderNotesNone DEF UpdateTombstoned
  <1>2. /\ Tombstoning(s) /\ Blank(s) /\ (session[s].id = 0 \/ Known(s))
        /\ Tail(session[s].todo) = <<"insert_delete_event">>
    BY <1>1, Sender
  <1>3. row \in EntryType /\ id \in Nat
    BY <1>1, SessionFields DEF EntryType
  <1>4. Goes(s, x) /\ Takes(s, "entry", Key(s))
        /\ UNCHANGED <<engine, database, lastId, lastEvent, gap, calls, faults>>
    BY DEF UpdateTombstoned
  <1>5. row = [entry[session[s].key] EXCEPT !.status = "TOMBSTONED"]
    BY DEF Key
  <1>6. id = 0 \/ id = entry[Key(s)].id
    BY <1>2 DEF Known
  <1> HIDE DEF row, id
  <1>7. /\ x \in SessionType /\ x.todo = session[s].todo /\ x.method = session[s].method
        /\ x.key = session[s].key /\ x.entry = row /\ x.id = id
        /\ x.payload = session[s].payload /\ x.events = session[s].events
        /\ x.done = session[s].done
    BY <1>1, <1>3, SessionFields DEF SessionType
  <1> HIDE DEF x
  <1>8. /\ session'[s].todo = Tail(session[s].todo) /\ session'[s].id = id
        /\ session'[s].method = session[s].method /\ session'[s].key = session[s].key
        /\ session'[s].entry = row /\ session'[s].payload = session[s].payload
        /\ session'[s].events = session[s].events /\ session'[s].done = session[s].done
    BY <1>1, <1>7, <1>4, GoesOn
  <1>9. lastId' = lastId /\ lastEvent' = lastEvent /\ lastId' \in Nat /\ lastEvent' \in Nat
    BY <1>1, <1>4 DEF TypeOK
  <1>10. /\ TypeOK' /\ engine' = engine /\ entry' = entry /\ outbox' = outbox
         /\ \A t \in Sessions : t # s => session'[t] = session[t]
         /\ Spares(s) /\ gap' = gap /\ Key(s)' = Key(s) /\ Holds(s)'
    BY <1>1, <1>4, <1>7, <1>9, TakesStep DEF Tables
  <1>11. Stage(s)'
    <2>1. /\ Holds(s)' /\ entry'[Key(s)'] # Absent
          /\ session'[s].entry = [entry'[Key(s)'] EXCEPT !.status = "TOMBSTONED"]
      BY <1>1, <1>5, <1>8, <1>10 DEF Key
    <2>2. Updated(s, [entry[Key(s)] EXCEPT !.status = "TOMBSTONED"])'
      BY <2>1 DEF Updated
    <2>3. session'[s].id = 0 \/ Known(s)'
      BY <1>1, <1>6, <1>8, <1>10 DEF Known
    <2>4. QED BY <1>1, <1>2, <1>8, <2>2, <2>3 DEF Tombstoning, Blank, Stage
  <1>12. QED BY <1>1, <1>8, <1>9, <1>10, <1>11, PlainStep

LEMMA UpdateActiveStep ==
  ASSUME EntriesInv, NEW s \in Sessions, UpdateActive(s)
  PROVE  EntriesInv'
  <1> DEFINE row == [entry[Key(s)] EXCEPT !.status = "ACTIVE"]
             x == [session[s] EXCEPT !.entry = row]
  <1>1. /\ TypeOK /\ IdsInv /\ Stage(s) /\ Sends(s, "update_active")
        /\ session[s].events = {} /\ session[s].todo # <<>>
        /\ entry[Key(s)].status = "PENDING_INDEX"
    BY AtSession, SenderNotesNone DEF UpdateActive
  <1>2. Marking(s) /\ session[s].entry = Absent /\ Tail(session[s].todo) = <<>>
    BY <1>1, Sender
  <1>3. row \in EntryType /\ entry[Key(s)] # Absent
    BY <1>1, SessionFields, AbsentType DEF EntryType
  <1>4. Goes(s, x) /\ Takes(s, "entry", Key(s))
        /\ UNCHANGED <<engine, database, lastId, lastEvent, gap, calls, faults>>
    BY DEF UpdateActive
  <1>5. row = [entry[session[s].key] EXCEPT !.status = "ACTIVE"]
    BY DEF Key
  <1> HIDE DEF row
  <1>6. /\ x \in SessionType /\ x.todo = session[s].todo /\ x.method = session[s].method
        /\ x.key = session[s].key /\ x.entry = row
        /\ x.payload = session[s].payload /\ x.events = session[s].events
        /\ x.done = session[s].done
    BY <1>1, <1>3, SessionFields DEF SessionType
  <1> HIDE DEF x
  <1>7. /\ session'[s].todo = Tail(session[s].todo)
        /\ session'[s].method = session[s].method /\ session'[s].key = session[s].key
        /\ session'[s].entry = row /\ session'[s].payload = session[s].payload
        /\ session'[s].events = session[s].events /\ session'[s].done = session[s].done
    BY <1>1, <1>6, <1>4, GoesOn
  <1>8. lastId' = lastId /\ lastEvent' = lastEvent /\ lastId' \in Nat /\ lastEvent' \in Nat
    BY <1>1, <1>4 DEF TypeOK
  <1>9. /\ TypeOK' /\ engine' = engine /\ entry' = entry /\ outbox' = outbox
        /\ \A t \in Sessions : t # s => session'[t] = session[t]
        /\ Spares(s) /\ gap' = gap /\ Key(s)' = Key(s) /\ Holds(s)'
    BY <1>1, <1>4, <1>6, <1>8, TakesStep DEF Tables
  <1>10. Stage(s)'
    <2>1. /\ Holds(s)' /\ entry'[Key(s)'] # Absent
          /\ session'[s].entry = [entry'[Key(s)'] EXCEPT !.status = "ACTIVE"]
          /\ entry'[Key(s)'].status = "PENDING_INDEX"
      BY <1>1, <1>3, <1>5, <1>7, <1>9 DEF Key
    <2>2. Updated(s, [entry[Key(s)] EXCEPT !.status = "ACTIVE"])'
      BY <2>1 DEF Updated
    <2>3. QED BY <1>1, <1>2, <1>7, <2>1, <2>2 DEF Marking, Stage
  <1>11. QED BY <1>1, <1>3, <1>7, <1>8, <1>9, <1>10, PlainStep

LEMMA UpdateActiveFindsNoneStep ==
  ASSUME EntriesInv, NEW s \in Sessions, UpdateActiveFindsNone(s)
  PROVE  EntriesInv'
  <1>1. /\ TypeOK /\ Stage(s) /\ Sends(s, "update_active") /\ session[s] \in SessionType
        /\ session[s].events = {} /\ session[s].todo # <<>>
    BY AtSession, SenderNotesNone, SessionFields DEF UpdateActiveFindsNone
  <1>2. Marking(s) /\ session[s].entry = Absent /\ Tail(session[s].todo) = <<>>
    BY <1>1, Sender
  <1>3. Goes(s, session[s])
        /\ UNCHANGED <<engine, database, lastId, lastEvent, locks, calls, faults>>
    BY DEF UpdateActiveFindsNone
  <1>4. /\ session' \in [Sessions -> SessionType]
        /\ \A t \in Sessions : t # s => session'[t] = session[t]
        /\ session'[s].todo = Tail(session[s].todo)
        /\ session'[s].method = session[s].method /\ session'[s].key = session[s].key
        /\ session'[s].entry = session[s].entry
        /\ session'[s].payload = session[s].payload
        /\ session'[s].events = session[s].events /\ session'[s].done = session[s].done
    BY <1>1, <1>3, GoesOn
  <1>5. TypeOK' /\ engine' = engine /\ entry' = entry /\ outbox' = outbox
        /\ lock' = lock /\ gap' = gap /\ lastId' = lastId /\ lastEvent' = lastEvent
    BY <1>1, <1>3, <1>4 DEF TypeOK, database, locks
  <1>6. Stage(s)'
    BY <1>2, <1>4 DEF Marking, Stage
  <1>7. QED BY <1>1, <1>4, <1>5, <1>6, PlainStep DEF Spares

LEMMA UpdateProcessedStep ==
  ASSUME EntriesInv, NEW s \in Sessions, UpdateProcessed(s)
  PROVE  EntriesInv'
  <1> DEFINE x == [session[s] EXCEPT !.done = {session[s].id}]
  <1>1. /\ TypeOK /\ Stage(s) /\ Sends(s, "update_processed")
        /\ session[s].events = {} /\ session[s].todo # <<>>
    BY AtSession, SenderNotesNone DEF UpdateProcessed
  <1>2. Finishing(s) /\ Tail(session[s].todo) = <<>>
    BY <1>1, Sender
  <1>3. /\ x \in SessionType /\ x.todo = session[s].todo /\ x.method = session[s].method
        /\ x.key = session[s].key /\ x.id = session[s].id /\ x.entry = session[s].entry
        /\ x.payload = session[s].payload /\ x.events = session[s].events
        /\ x.done = {session[s].id}
    BY <1>1, SessionFields DEF SessionType
  <1>4. Goes(s, x)
        /\ UNCHANGED <<engine, database, lastId, lastEvent, gap, calls, faults>>
    BY DEF UpdateProcessed
  <1> HIDE DEF x
  <1>5. /\ session' \in [Sessions -> SessionType]
        /\ \A t \in Sessions : t # s => session'[t] = session[t]
        /\ session'[s].todo = Tail(session[s].todo) /\ session'[s].id = session[s].id
        /\ session'[s].method = session[s].method /\ session'[s].key = session[s].key
        /\ session'[s].entry = session[s].entry
        /\ session'[s].payload = session[s].payload
        /\ session'[s].events = session[s].events
        /\ session'[s].done = {session[s].id}
    BY <1>1, <1>3, <1>4, GoesOn
  <1>6. /\ lock' \in [Rows -> Sessions \cup {Nobody}]
        /\ \A t \in Sessions : \A r \in Rows : t # s /\ lock[r] = t => lock'[r] = t
    <2>1. lock' = [r \in Rows |-> IF engine = "sqlite" THEN s ELSE lock[r]]
      BY DEF UpdateProcessed
    <2>2. engine = "sqlite" => \A r \in Rows : lock[r] \in {s, Nobody}
      BY DEF UpdateProcessed, Free, LocksOf
    <2>3. QED BY <1>1, <2>1, <2>2, EntriesAssumption DEF TypeOK
  <1>7. TypeOK' /\ engine' = engine /\ entry' = entry /\ outbox' = outbox
        /\ gap' = gap /\ lastId' = lastId /\ lastEvent' = lastEvent
    BY <1>1, <1>4, <1>5, <1>6 DEF TypeOK, database
  <1>8. Stage(s)'
    BY <1>1, <1>2, <1>5, <1>7 DEF Finishing, Stage
  <1>9. QED BY <1>1, <1>5, <1>6, <1>7, <1>8, PlainStep DEF Spares

\* Whoever got a lock of the row, or SQLite's, found no other writer there.
LEMMA NoOtherWriter ==
  ASSUME EntriesInv, NEW s \in Sessions, NEW t \in Sessions, t # s,
         lock[<<"entry", Key(s)>>] \in {s, Nobody},
         engine = "sqlite" => \A r \in Rows : lock[r] \in {s, Nobody}
  PROVE  /\ Key(t) = Key(s) => session[t].entry = Absent
         /\ engine = "sqlite" => session[t].entry = Absent /\ session[t].events = {}
  <1>1. TypeOK /\ IdsInv /\ Stage(t) /\ <<"entry", Key(t)>> \in Rows
    BY AtSession, SessionFields DEF Rows, Tables
  <1>2. Key(t) = Key(s) \/ engine = "sqlite" => ~Holds(t)
    BY <1>1, EntriesAssumption DEF Holds
  <1>3. QED BY <1>1, <1>2, WriterHolds, NoterHolds

LEMMA UpsertEntryStep ==
  ASSUME EntriesInv, NEW s \in Sessions, UpsertEntry(s)
  PROVE  EntriesInv'
  <1> DEFINE id == IF entry[Key(s)] = Absent THEN lastId + 1 ELSE entry[Key(s)].id
             x == [session[s] EXCEPT !.entry = PendingRow(s, id), !.id = id]
  <1>1. /\ TypeOK /\ IdsInv /\ OutboxInv /\ GapInv /\ Stage(s) /\ Sends(s, "upsert_entry")
        /\ session[s].events = {} /\ session[s].todo # <<>>
    BY AtSession, SenderNotesNone DEF UpsertEntry
  <1>2. /\ Putting(s) /\ Blank(s)
        /\ Tail(session[s].todo) \in
              {<<"upsert_payload", "insert_upsert_event">>,
               <<"select_id", "upsert_payload", "insert_upsert_event">>}
    BY <1>1, Sender
  <1>3. /\ lastId \in Nat /\ lastEvent \in Nat /\ Key(s) \in Keys /\ id \in Nat
        /\ entry[Key(s)] = Absent => id = lastId + 1
        /\ entry[Key(s)] # Absent => id = entry[Key(s)].id
    BY <1>1, SessionFields DEF TypeOK, EntryType
  <1>4. Goes(s, x) /\ Takes(s, "entry", Key(s)) /\ lastId' = lastId + 1
        /\ UNCHANGED <<engine, database, lastEvent, gap, calls, faults>>
        /\ (entry[Key(s)] = Absent => gap[Key(s)] \subseteq {s})
    BY DEF UpsertEntry
  <1> HIDE DEF id
  <1>5. /\ PendingRow(s, id) \in EntryType /\ PendingRow(s, id).id = id
        /\ PendingRow(s, id) = [status |-> "PENDING_INDEX", id |-> id,
              version |-> session[s].version, hits |-> entry[Key(s)].hits]
    BY <1>1, <1>3, PendingRowType
  <1>6. /\ x \in SessionType /\ x.todo = session[s].todo /\ x.method = session[s].method
        /\ x.key = session[s].key /\ x.version = session[s].version
        /\ x.id = id /\ x.entry = PendingRow(s, id)
        /\ x.payload = session[s].payload /\ x.events = session[s].events
        /\ x.done = session[s].done
    BY <1>1, <1>3, <1>5, SessionFields DEF SessionType
  <1> HIDE DEF x
  <1>7. /\ session'[s].todo = Tail(session[s].todo) /\ session'[s].id = id
        /\ session'[s].method = session[s].method /\ session'[s].key = session[s].key
        /\ session'[s].version = session[s].version
        /\ session'[s].entry = PendingRow(s, id)
        /\ session'[s].payload = session[s].payload
        /\ session'[s].events = session[s].events /\ session'[s].done = session[s].done
    BY <1>1, <1>6, <1>4, GoesOn
  <1>8. lastId' \in Nat /\ lastEvent' \in Nat /\ lastEvent' = lastEvent
    BY <1>3, <1>4
  <1>9. /\ TypeOK' /\ engine' = engine /\ entry' = entry /\ outbox' = outbox
        /\ \A t \in Sessions : t # s => session'[t] = session[t]
        /\ Spares(s) /\ gap' = gap /\ Key(s)' = Key(s) /\ Holds(s)'
    BY <1>1, <1>4, <1>6, <1>8, TakesStep DEF Tables
  <1>10. Stage(s)'
    <2>1. Inserted(s)'
      BY <1>3, <1>5, <1>7, <1>9 DEF Inserted
    <2>2. PutInserted(s)'
      BY <1>1, <1>2, <1>7, <2>1 DEF PutInserted, Blank
    <2>3. QED BY <1>2, <1>7, <2>2 DEF Putting, Stage
  <1>11. Draws(s)
    <2>1. engine = "sqlite" => \A t \in Sessions : t # s => ~New(t)
      <3>1. engine = "sqlite" => \A r \in Rows : lock[r] \in {s, Nobody}
        BY <1>1, <1>3, <1>4, TakesSpares DEF Tables
      <3>2. lock[<<"entry", Key(s)>>] \in {s, Nobody}
        BY <1>1, <1>3, <1>4, TakesSpares DEF Tables
      <3>3. QED BY <3>1, <3>2, NoOtherWriter DEF New
    <2>2. \A k \in Keys : entry[k] # Absent => entry[k].id <= lastId'
      BY <1>1, <1>3, <1>4 DEF IdsInv, TypeOK, EntryType
    <2>3. QED BY <1>3, <1>4, <1>5, <1>7, <2>1, <2>2 DEF Draws, Key
  <1>12. Notes(s)
    BY <1>1, <1>3, <1>7, <1>8 DEF Notes, OutboxInv
  <1>13. Closes(s)
    <2>1. gap[Key(s)] = {}
      <3>1. \A t \in gap[Key(s)] : entry[Key(s)] = Absent /\ session[t].method = "tombstone"
        BY <1>1, <1>3 DEF GapInv
      <3>2. session[s].method = "put"
        BY <1>2 DEF Putting
      <3>3. QED BY <1>4, <3>1, <3>2
    <2>2. QED BY <1>7, <1>9, <2>1 DEF Closes, Key
  <1>14. QED BY <1>9, <1>10, <1>11, <1>12, <1>13, StatementStep

LEMMA InsertEntryStep ==
  ASSUME EntriesInv, NEW s \in Sessions, InsertEntry(s)
  PROVE  EntriesInv'
  <1> DEFINE x == [session[s] EXCEPT !.entry = PendingRow(s, lastId + 1),
                                     !.id = lastId + 1]
  <1>1. /\ TypeOK /\ IdsInv /\ OutboxInv /\ GapInv /\ Stage(s)
        /\ Sends(s, "insert_or_update_entry")
        /\ session[s].events = {} /\ session[s].todo # <<>>
    BY AtSession, SenderNotesNone DEF InsertEntry
  <1>2. /\ Putting(s) /\ Blank(s) /\ engine = "sqlite"
        /\ Tail(session[s].todo) = <<"upsert_payload", "insert_upsert_event">>
    BY <1>1, Sender
  <1>3. lastId \in Nat /\ lastEvent \in Nat /\ Key(s) \in Keys /\ lastId + 1 \in Nat
    BY <1>1, SessionFields DEF TypeOK
  <1>4. Goes(s, x) /\ Takes(s, "entry", Key(s)) /\ lastId' = lastId + 1
        /\ UNCHANGED <<engine, database, lastEvent, gap, calls, faults>>
        /\ entry[Key(s)] = Absent
    BY DEF InsertEntry
  <1>5. /\ PendingRow(s, lastId + 1) \in EntryType
        /\ PendingRow(s, lastId + 1).id = lastId + 1
        /\ PendingRow(s, lastId + 1) = [status |-> "PENDING_INDEX", id |-> lastId + 1,
              version |-> session[s].version, hits |-> entry[Key(s)].hits]
    BY <1>1, <1>3, PendingRowType
  <1>6. /\ x \in SessionType /\ x.todo = session[s].todo /\ x.method = session[s].method
        /\ x.key = session[s].key /\ x.version = session[s].version
        /\ x.id = lastId + 1 /\ x.entry = PendingRow(s, lastId + 1)
        /\ x.payload = session[s].payload /\ x.events = session[s].events
        /\ x.done = session[s].done
    BY <1>1, <1>3, <1>5, SessionFields DEF SessionType
  <1> HIDE DEF x
  <1>7. /\ session'[s].todo = Tail(session[s].todo) /\ session'[s].id = lastId + 1
        /\ session'[s].method = session[s].method /\ session'[s].key = session[s].key
        /\ session'[s].version = session[s].version
        /\ session'[s].entry = PendingRow(s, lastId + 1)
        /\ session'[s].payload = session[s].payload
        /\ session'[s].events = session[s].events /\ session'[s].done = session[s].done
    BY <1>1, <1>6, <1>4, GoesOn
  <1>8. lastId' \in Nat /\ lastEvent' \in Nat /\ lastEvent' = lastEvent
    BY <1>3, <1>4
  <1>9. /\ TypeOK' /\ engine' = engine /\ entry' = entry /\ outbox' = outbox
        /\ \A t \in Sessions : t # s => session'[t] = session[t]
        /\ Spares(s) /\ gap' = gap /\ Key(s)' = Key(s) /\ Holds(s)'
    BY <1>1, <1>4, <1>6, <1>8, TakesStep DEF Tables
  <1>10. Stage(s)'
    <2>1. Inserted(s)'
      BY <1>4, <1>5, <1>7, <1>9 DEF Inserted
    <2>2. PutInserted(s)'
      BY <1>1, <1>2, <1>7, <2>1 DEF PutInserted, Blank
    <2>3. QED BY <1>2, <1>7, <2>2 DEF Putting, Stage
  <1>11. Draws(s)
    <2>1. \A t \in Sessions : t # s => ~New(t)
      <3>1. \A r \in Rows : lock[r] \in {s, Nobody}
        BY <1>1, <1>2, <1>3, <1>4, TakesSpares DEF Tables
      <3>2. lock[<<"entry", Key(s)>>] \in {s, Nobody}
        BY <1>1, <1>3, <1>4, TakesSpares DEF Tables
      <3>3. QED BY <1>2, <3>1, <3>2, NoOtherWriter DEF New
    <2>2. \A k \in Keys : entry[k] # Absent => entry[k].id <= lastId'
      BY <1>1, <1>3, <1>4 DEF IdsInv, TypeOK, EntryType
    <2>3. QED BY <1>4, <1>5, <1>7, <2>1, <2>2 DEF Draws
  <1>12. Notes(s)
    BY <1>1, <1>3, <1>7, <1>8 DEF Notes, OutboxInv
  <1>13. Closes(s)
    <2>1. gap[Key(s)] = {}
      BY <1>1, <1>2, <1>3 DEF GapInv
    <2>2. QED BY <1>7, <1>9, <2>1 DEF Closes, Key
  <1>14. QED BY <1>9, <1>10, <1>11, <1>12, <1>13, StatementStep

LEMMA UpdateTombstonedFindsNoneStep ==
  ASSUME EntriesInv, NEW s \in Sessions, UpdateTombstonedFindsNone(s)
  PROVE  EntriesInv'
  <1>1. /\ TypeOK /\ IdsInv /\ OutboxInv /\ GapInv /\ Stage(s)
        /\ Sends(s, "update_tombstoned") /\ session[s] \in SessionType
        /\ session[s].events = {} /\ session[s].todo # <<>> /\ Key(s) \in Keys
    BY AtSession, SenderNotesNone, SessionFields DEF UpdateTombstonedFindsNone
  <1>2. /\ Goes(s, session[s]) /\ entry[Key(s)] = Absent
        /\ UNCHANGED <<engine, database, lastId, lastEvent, calls, faults>>
        /\ lock' = [r \in Rows |-> IF engine = "sqlite" THEN s ELSE lock[r]]
        /\ gap' = [gap EXCEPT ![Key(s)] = IF engine = "mysql" THEN gap[Key(s)] \cup {s}
                                          ELSE gap[Key(s)]]
        /\ engine # "postgres" => Free(s, "entry", Key(s))
    BY DEF UpdateTombstonedFindsNone
  <1>3. /\ Tombstoning(s) /\ Blank(s) /\ session[s].id = 0
        /\ Tail(session[s].todo) = <<"insert_delete_event">>
    BY <1>1, <1>2, Sender DEF Known
  <1>4. /\ session' \in [Sessions -> SessionType]
        /\ \A t \in Sessions : t # s => session'[t] = session[t]
        /\ session'[s].todo = <<"insert_delete_event">> /\ session'[s].id = 0
        /\ session'[s].method = session[s].method /\ session'[s].key = session[s].key
        /\ session'[s].entry = session[s].entry
        /\ session'[s].payload = session[s].payload
        /\ session'[s].events = session[s].events /\ session'[s].done = session[s].done
    BY <1>1, <1>2, <1>3, GoesOn
  <1>5. /\ engine # "postgres" => lock[<<"entry", Key(s)>>] \in {s, Nobody}
        /\ engine = "sqlite" => \A r \in Rows : lock[r] \in {s, Nobody}
    <2>1. <<"entry", Key(s)>> \in LocksOf("entry", Key(s))
      BY <1>1 DEF LocksOf, Rows, Tables
    <2>2. engine = "sqlite" => LocksOf("entry", Key(s)) = Rows
      BY DEF LocksOf
    <2>3. QED BY <1>2, <2>1, <2>2 DEF Free
  <1>6. /\ lock' \in [Rows -> Sessions \cup {Nobody}]
        /\ gap' \in [Keys -> SUBSET Sessions]
        /\ Spares(s) /\ (engine = "sqlite" => \A r \in Rows : lock'[r] = s)
        /\ engine = "mysql" => gap'[Key(s)] = gap[Key(s)] \cup {s}
        /\ engine # "mysql" => gap'[Key(s)] = gap[Key(s)]
        /\ \A k \in Keys : k # Key(s) => gap'[k] = gap[k]
    <2>1. gap \in [Keys -> SUBSET Sessions] /\ lock \in [Rows -> Sessions \cup {Nobody}]
      BY <1>1 DEF TypeOK
    <2>2. lock' \in [Rows -> Sessions \cup {Nobody}]
          /\ (engine = "sqlite" => \A r \in Rows : lock'[r] = s)
          /\ \A t \in Sessions : \A r \in Rows : t # s /\ lock[r] = t => lock'[r] = t
      BY <1>2, <1>5, <2>1, EntriesAssumption
    <2>3. /\ gap' \in [Keys -> SUBSET Sessions]
          /\ engine = "mysql" => gap'[Key(s)] = gap[Key(s)] \cup {s}
          /\ engine # "mysql" => gap'[Key(s)] = gap[Key(s)]
          /\ \A k \in Keys : k # Key(s) => gap'[k] = gap[k]
      BY <1>1, <1>2, <2>1
    <2>4. \A t \in Sessions : \A k \in Keys : t \in gap[k] => t \in gap'[k]
      BY <2>3
    <2>5. QED BY <2>2, <2>3, <2>4 DEF Spares
  <1>7. /\ TypeOK' /\ engine' = engine /\ entry' = entry /\ outbox' = outbox
        /\ lastId' = lastId /\ lastEvent' = lastEvent
        /\ lastId \in Nat /\ lastEvent \in Nat
    BY <1>1, <1>2, <1>4, <1>6 DEF TypeOK, database
  <1>8. Stage(s)'
    <2>1. engine = "sqlite" => Holds(s)'
      <3>1. <<"entry", Key(s)>> \in Rows /\ Key(s)' = Key(s)
        BY <1>1, <1>4 DEF Rows, Tables, Key
      <3>2. QED BY <1>6, <3>1 DEF Holds
    <2>2. FoundNone(s)'
      BY <1>2, <1>3, <1>4, <1>6, <1>7, <2>1 DEF FoundNone, Blank, Key
    <2>3. QED BY <1>1, <1>3, <1>4, <2>2 DEF Tombstoning, Blank, Stage
  <1>9. Draws(s)
    BY <1>1, <1>3, <1>4, <1>7 DEF Draws, Blank, IdsInv
  <1>10. Notes(s)
    BY <1>1, <1>4, <1>7 DEF Notes, OutboxInv
  <1>11. Closes(s)
    <2>1. engine = "mysql" => \A u \in Sessions : Key(u) = Key(s) => session[u].entry = Absent
      <3>1. \A u \in Sessions : u # s /\ engine = "mysql" /\ Key(u) = Key(s)
                                   => session[u].entry = Absent
        BY <1>5, NoOtherWriter
      <3>2. QED BY <1>3, <3>1 DEF Blank
    <2>2. session'[s].method = "tombstone" /\ session'[s].key = Key(s)
      BY <1>3, <1>4 DEF Tombstoning, Key
    <2>3. ASSUME NEW k \in Keys, NEW t \in gap'[k]
          PROVE  t \in gap[k] \/ (t = s /\ k = Key(s) /\ engine = "mysql")
      BY <1>6
    <2>4. QED BY <1>2, <1>3, <1>4, <2>1, <2>2, <2>3 DEF Closes, Blank
  <1>12. QED BY <1>4, <1>6, <1>7, <1>8, <1>9, <1>10, <1>11, StatementStep

LEMMA InsertEventStep ==
  ASSUME EntriesInv, NEW s \in Sessions, InsertUpsertEvent(s) \/ InsertDeleteEvent(s)
  PROVE  EntriesInv'
  <1>1. /\ TypeOK /\ IdsInv /\ OutboxInv /\ GapInv /\ Stage(s)
        /\ session[s].events = {} /\ session[s].todo # <<>>
    BY AtSession, SenderNotesNone DEF InsertUpsertEvent, InsertDeleteEvent
  <1>2. PICK type \in {"UPSERT_ENTRY", "DELETE_ENTRY"} :
           /\ InsertEvent(s, type)
           /\ type = "UPSERT_ENTRY" =>
                 /\ Putting(s) /\ Inserted(s) /\ session[s].payload = session[s].version
           /\ type = "DELETE_ENTRY" =>
                 /\ Tombstoning(s)
                 /\ \/ /\ Updated(s, [entry[Key(s)] EXCEPT !.status = "TOMBSTONED"])
                       /\ session[s].id = 0 \/ Known(s)
                    \/ FoundNone(s)
           /\ Tail(session[s].todo) = <<>>
    <2>1. CASE InsertUpsertEvent(s)
      BY <1>1, <2>1, Sender DEF InsertUpsertEvent
    <2>2. CASE InsertDeleteEvent(s)
      BY <1>1, <2>2, Sender DEF InsertDeleteEvent
    <2>3. QED BY <2>1, <2>2
  <1> DEFINE e == [event |-> lastEvent + 1, type |-> type, key |-> Key(s),
                   id |-> session[s].id]
             x == [session[s] EXCEPT !.events = {e}]
  <1>3. lastId \in Nat /\ lastEvent \in Nat /\ Key(s) \in Keys /\ session[s].id \in Nat
    BY <1>1, SessionFields DEF TypeOK
  <1>4. e \in EventType /\ e.event = lastEvent + 1
    BY <1>3 DEF EventType
  <1>5. Goes(s, x) /\ lastEvent' = lastEvent + 1
        /\ UNCHANGED <<engine, database, lastId, locks, calls, faults>>
    BY <1>2 DEF InsertEvent
  <1>6. e = [event |-> lastEvent + 1, type |-> type, key |-> session[s].key,
             id |-> session[s].id]
    BY DEF Key
  <1> HIDE DEF e
  <1>7. /\ x \in SessionType /\ x.todo = session[s].todo /\ x.method = session[s].method
        /\ x.key = session[s].key /\ x.version = session[s].version
        /\ x.id = session[s].id /\ x.entry = session[s].entry
        /\ x.payload = session[s].payload /\ x.events = {e}
        /\ x.done = session[s].done
    BY <1>1, <1>4, SessionFields DEF SessionType
  <1> HIDE DEF x
  <1>8. /\ session' \in [Sessions -> SessionType]
        /\ \A t \in Sessions : t # s => session'[t] = session[t]
        /\ session'[s].todo = <<>> /\ session'[s].id = session[s].id
        /\ session'[s].method = session[s].method /\ session'[s].key = session[s].key
        /\ session'[s].version = session[s].version
        /\ session'[s].entry = session[s].entry
        /\ session'[s].payload = session[s].payload
        /\ session'[s].events = {e} /\ session'[s].done = session[s].done
    <2>1. Tail(session[s].todo) = <<>>
      BY <1>2
    <2>2. x.todo # <<>> /\ Tail(x.todo) = <<>>
      BY <1>1, <1>7, <2>1
    <2>3. TypeOK /\ x \in SessionType /\ Goes(s, x)
      BY <1>1, <1>5, <1>7
    <2>4. /\ session' \in [Sessions -> SessionType]
          /\ \A t \in Sessions : t # s => session'[t] = session[t]
          /\ session'[s].todo = Tail(x.todo)
          /\ session'[s].method = x.method /\ session'[s].key = x.key
          /\ session'[s].version = x.version /\ session'[s].id = x.id
          /\ session'[s].entry = x.entry /\ session'[s].payload = x.payload
          /\ session'[s].events = x.events /\ session'[s].done = x.done
      BY <2>2, <2>3, GoesOn
    <2>5. QED BY <1>7, <2>2, <2>4
  <1>9. TypeOK' /\ engine' = engine /\ entry' = entry /\ outbox' = outbox
        /\ lock' = lock /\ gap' = gap /\ lastId' = lastId /\ lastEvent' = lastEvent + 1
        /\ lastEvent' \in Nat
    <2>1. /\ UNCHANGED <<engine, database, calls, faults>>
          /\ lock' = lock /\ gap' = gap /\ lastId' = lastId
      BY <1>5 DEF locks
    <2>2. lastEvent' \in Nat /\ lastEvent' = lastEvent + 1
      BY <1>3, <1>5
    <2>3. lock \in [Rows -> Sessions \cup {Nobody}] /\ gap \in [Keys -> SUBSET Sessions]
      BY <1>1 DEF TypeOK
    <2>4. QED BY <1>1, <1>3, <1>8, <2>1, <2>2, <2>3, StaysTyped
  <1>10. Key(s)' = Key(s) /\ (Holds(s) => Holds(s)') /\ (Known(s) => Known(s)')
    BY <1>8, <1>9 DEF Key, Holds, Known
  <1>11. Noted(s, type)'
    <2>1. lastEvent + 1 \in Nat
      BY <1>3
    <2>2. session'[s].events = {[event |-> lastEvent + 1, type |-> type,
                                 key |-> session'[s].key, id |-> session'[s].id]}
      BY <1>6, <1>8
    <2>3. QED BY <2>1, <2>2 DEF Noted, Key
  <1>12. Stage(s)'
    <2>1. CASE type = "UPSERT_ENTRY"
      <3>1. Inserted(s)'
        BY <1>2, <1>8, <1>9, <1>10, <2>1 DEF Inserted
      <3>2. PutInserted(s)'
        BY <1>2, <1>8, <1>11, <2>1, <3>1 DEF PutInserted
      <3>3. QED BY <1>2, <1>8, <2>1, <3>2 DEF Putting, Stage
    <2>2. CASE type = "DELETE_ENTRY"
      <3>1. Updated(s, [entry[Key(s)] EXCEPT !.status = "TOMBSTONED"])
               => Updated(s, [entry[Key(s)] EXCEPT !.status = "TOMBSTONED"])'
        BY <1>8, <1>9, <1>10 DEF Updated
      <3>2. FoundNone(s) => FoundNone(s)'
        BY <1>8, <1>9, <1>10 DEF FoundNone
      <3>3. QED BY <1>2, <1>8, <1>10, <1>11, <2>2, <3>1, <3>2 DEF Tombstoning, Stage
    <2>3. QED BY <2>1, <2>2
  <1>13. Draws(s)
    BY <1>1, <1>3, <1>8, <1>9 DEF Draws, New, Key, IdsInv
  <1>14. Notes(s)
    <2>1. engine = "sqlite" => Holds(s)
      BY <1>2 DEF Inserted, Updated, FoundNone
    <2>2. engine = "sqlite" => \A t \in Sessions : t # s => session[t].events = {}
      <3>1. ASSUME engine = "sqlite", NEW t \in Sessions, t # s
            PROVE  session[t].events = {}
        <4>1. Stage(t)
          BY AtSession
        <4>2. QED BY <1>1, <2>1, <3>1, <4>1, NoterHolds, OneHolder
      <3>2. QED BY <3>1
    <2>3. \A f \in outbox : f.event <= lastEvent'
      <3>1. \A f \in outbox : f.event \in Nat /\ f.event <= lastEvent
        BY <1>1 DEF OutboxInv, TypeOK, EventType
      <3>2. QED BY <1>3, <1>9, <3>1
    <2>4. \A f \in session'[s].events : f.event = lastEvent + 1
      BY <1>4, <1>8
    <2>5. lastEvent <= lastEvent'
      BY <1>3, <1>9
    <2>6. QED BY <1>9, <2>2, <2>3, <2>4, <2>5 DEF Notes
  <1>15. Closes(s)
    BY <1>8, <1>9 DEF Closes
  <1>16. QED BY <1>8, <1>9, <1>12, <1>13, <1>14, <1>15, StatementStep DEF Spares

(***************************************************************************)
(* Calls and rollbacks                                                     *)
(***************************************************************************)
LEMMA FreeSession ==
  ASSUME EntriesInv, NEW s \in Sessions, ~Busy(s)
  PROVE  /\ session[s] = Idle
         /\ \A k \in Keys : s \notin gap[k]
  <1>1. Stage(s) /\ GapInv
    BY AtSession
  <1>2. session[s].method = "none"
    BY DEF Busy
  <1>3. QED BY <1>1, <1>2 DEF Stage, Putting, Setting, Getting, Tombstoning, Marking,
                             Finishing, GapInv

\* A call writes nothing yet.
LEMMA BeginStep ==
  ASSUME EntriesInv, NEW s \in Sessions, ~Busy(s), NEW x \in SessionType,
         session' = [session EXCEPT ![s] = x], x.entry = Absent, x.events = {},
         calls < MaxCalls, calls' = calls + 1, Stage(s)',
         UNCHANGED <<engine, database, lastId, lastEvent, locks, faults>>
  PROVE  EntriesInv'
  <1>1. TypeOK /\ IdsInv /\ OutboxInv /\ GapInv
    BY AtSession
  <1>2. /\ session' \in [Sessions -> SessionType] /\ session'[s] = x
        /\ \A t \in Sessions : t # s => session'[t] = session[t]
    BY <1>1 DEF TypeOK
  <1>3. calls' \in 0..MaxCalls
    BY <1>1, EntriesAssumption DEF TypeOK
  <1>4. TypeOK' /\ engine' = engine /\ entry' = entry /\ outbox' = outbox
        /\ lock' = lock /\ gap' = gap /\ lastId' = lastId /\ lastEvent' = lastEvent
        /\ lastId \in Nat /\ lastEvent \in Nat
    BY <1>1, <1>2, <1>3 DEF TypeOK, database, locks
  <1>5. Draws(s)
    BY <1>1, <1>2, <1>4 DEF Draws, IdsInv
  <1>6. Notes(s)
    BY <1>1, <1>2, <1>4 DEF Notes, OutboxInv
  <1>7. Closes(s)
    BY <1>2, <1>4, FreeSession DEF Closes
  <1>8. QED BY <1>2, <1>4, <1>5, <1>6, <1>7, StatementStep DEF Spares

LEMMA CallStep ==
  ASSUME EntriesInv, NEW s \in Sessions, Call(s)
  PROVE  EntriesInv'
  <1>1. PICK m \in Methods \ {"finish"}, k \in Keys :
          session' = [session EXCEPT ![s] = [Idle EXCEPT !.method = m, !.key = k,
                                                         !.version = calls + 1,
                                                         !.todo = Program(m)]]
    BY DEF Call
  <1> DEFINE x == [Idle EXCEPT !.method = m, !.key = k, !.version = calls + 1,
                               !.todo = Program(m)]
  <1>2. TypeOK /\ engine \in Engines /\ calls \in Nat
    BY AtSession DEF TypeOK
  <1>3. Program(m) \in Seq(Statements)
    BY <1>2, StatementSequences
  <1>4. /\ x \in SessionType /\ x.method = m /\ x.key = k /\ x.version = calls + 1
        /\ x.todo = Program(m) /\ x.id = 0 /\ x.entry = Absent /\ x.payload = 0
        /\ x.events = {} /\ x.done = {}
    <2>1. calls + 1 \in Nat
      BY <1>2
    <2>2. x \in SessionType
      BY <1>3, <2>1, IdleType DEF SessionType
    <2>3. /\ x.method = m /\ x.key = k /\ x.version = calls + 1 /\ x.todo = Program(m)
          /\ x.id = Idle.id /\ x.entry = Idle.entry /\ x.payload = Idle.payload
          /\ x.events = Idle.events /\ x.done = Idle.done
      BY IdleType DEF SessionType
    <2>4. QED BY <2>2, <2>3, IdleType
  <1>5. session' = [session EXCEPT ![s] = x]
    BY <1>1
  <1> HIDE DEF x
  <1>6. session'[s] = x /\ engine' = engine
    BY <1>2, <1>5 DEF TypeOK, Call
  <1>7. Stage(s)'
    <2>1. Blank(s)' /\ session'[s].version # 0
      BY <1>2, <1>4, <1>6 DEF Blank
    <2>2. CASE m = "put"
      <3>1. \/ engine = "postgres" /\ x.todo = PostgresInsertPendingEntry
            \/ engine = "mysql" /\ x.todo = MySQLInsertPendingEntry
            \/ engine = "sqlite" /\ x.todo = SQLiteInsertPendingEntry
        BY <1>2, <1>4, <2>2 DEF Program, Engines
      <3>2. PutBegun(s)'
        BY <1>6, <2>1, <3>1 DEF PutBegun, PostgresInsertPendingEntry,
                                MySQLInsertPendingEntry, SQLiteInsertPendingEntry
      <3>3. QED BY <1>4, <1>6, <2>1, <2>2, <3>2 DEF Putting, Stage
    <2>3. CASE m = "set"
      <3>1. x.todo = <<"upsert_payload">>
        BY <1>2, <1>4, <2>3 DEF Program, Engines, PostgresSetPayload, MySQLSetPayload,
                                SQLiteSetPayload
      <3>2. QED BY <1>4, <1>6, <2>1, <2>3, <3>1 DEF Setting, Stage
    <2>4. CASE m = "get"
      <3>1. x.todo = <<"select_payload", "count_hit">>
        BY <1>2, <1>4, <2>4 DEF Program, Engines, PostgresGetPayload, MySQLGetPayload,
                                SQLiteGetPayload
      <3>2. QED BY <1>4, <1>6, <2>4, <3>1 DEF Getting, Stage
    <2>5. CASE m = "tombstone"
      <3>1. x.todo \in {<<"select_id", "update_tombstoned", "insert_delete_event">>,
                        <<"update_tombstoned", "insert_delete_event">>}
        BY <1>2, <1>4, <2>5 DEF Program, Engines, PostgresTombstoneEntry,
                                MySQLTombstoneEntry, SQLiteTombstoneEntry
      <3>2. QED BY <1>4, <1>6, <2>1, <2>5, <3>1 DEF Tombstoning, Stage
    <2>6. CASE m = "mark"
      <3>1. x.todo = <<"update_active">>
        BY <1>2, <1>4, <2>6 DEF Program, Engines, PostgresMarkEntryIndexed,
                                MySQLMarkEntryIndexed, SQLiteMarkEntryIndexed
      <3>2. QED BY <1>4, <1>6, <2>6, <3>1 DEF Marking, Stage
    <2>7. QED BY <2>2, <2>3, <2>4, <2>5, <2>6 DEF Methods
  <1>8. ~Busy(s) /\ calls < MaxCalls /\ calls' = calls + 1
        /\ UNCHANGED <<engine, database, lastId, lastEvent, locks, faults>>
    BY DEF Call
  <1>9. QED BY <1>4, <1>5, <1>7, <1>8, BeginStep

LEMMA CallFinishStep ==
  ASSUME EntriesInv, NEW s \in Sessions, CallFinish(s)
  PROVE  EntriesInv'
  <1>1. PICK e \in outbox :
          session' = [session EXCEPT ![s] = [Idle EXCEPT !.method = "finish",
                                                         !.key = e.key,
                                                         !.version = calls + 1,
                                                         !.todo = Program("finish"),
                                                         !.id = e.event]]
    BY DEF CallFinish
  <1> DEFINE x == [Idle EXCEPT !.method = "finish", !.key = e.key, !.version = calls + 1,
                               !.todo = Program("finish"), !.id = e.event]
  <1>2. TypeOK /\ engine \in Engines /\ calls \in Nat
    BY AtSession DEF TypeOK
  <1>3. e \in EventType
    BY <1>1, <1>2 DEF TypeOK
  <1>4. e.key \in Keys /\ e.event \in Nat
    BY <1>3 DEF EventType
  <1>5. Program("finish") \in Seq(Statements) /\ Program("finish") = <<"update_processed">>
    BY <1>2, StatementSequences DEF Methods, Program, Engines, PostgresMarkOutboxProcessed,
                                    MySQLMarkOutboxProcessed, SQLiteMarkOutboxProcessed
  <1>6. /\ x \in SessionType /\ x.method = "finish" /\ x.todo = <<"update_processed">>
        /\ x.id = e.event /\ x.entry = Absent /\ x.payload = 0
        /\ x.events = {} /\ x.done = {}
    <2>1. calls + 1 \in Nat /\ "finish" \in Methods
      BY <1>2 DEF Methods
    <2>2. x \in SessionType
      BY <1>4, <1>5, <2>1, IdleType DEF SessionType
    <2>3. /\ x.method = "finish" /\ x.todo = Program("finish") /\ x.id = e.event
          /\ x.entry = Idle.entry /\ x.payload = Idle.payload
          /\ x.events = Idle.events /\ x.done = Idle.done
      BY IdleType DEF SessionType
    <2>4. QED BY <1>5, <2>2, <2>3, IdleType
  <1>7. session' = [session EXCEPT ![s] = x]
    BY <1>1
  <1> HIDE DEF x
  <1>8. session'[s] = x /\ outbox' = outbox
    BY <1>2, <1>7 DEF TypeOK, CallFinish, database
  <1>9. Stage(s)'
    BY <1>1, <1>6, <1>8 DEF Finishing, Stage
  <1>10. ~Busy(s) /\ calls < MaxCalls /\ calls' = calls + 1
         /\ UNCHANGED <<engine, database, lastId, lastEvent, locks, faults>>
    BY DEF CallFinish
  <1>11. QED BY <1>6, <1>7, <1>9, <1>10, BeginStep

\* A session that rolls back, whatever numbers go back with it.
LEMMA RollbackStep ==
  ASSUME EntriesInv, NEW s \in Sessions, Rollback(s),
         UNCHANGED <<engine, database, calls>>, faults' \in 0..MaxFaults,
         lastId' \in Nat, lastEvent' \in Nat,
         \A t \in Sessions : t # s /\ New(t) =>
             lastId <= lastId' /\ (engine = "sqlite" => lastId' = lastId),
         \A k \in Keys : entry[k] # Absent => entry[k].id <= lastId',
         \A t \in Sessions : t # s /\ session[t].events # {} =>
             lastEvent <= lastEvent' /\ (engine = "sqlite" => lastEvent' = lastEvent),
         \A e \in outbox : e.event <= lastEvent'
  PROVE  EntriesInv'
  <1>1. TypeOK
    BY AtSession
  <1>2. /\ lock' \in [Rows -> Sessions \cup {Nobody}]
        /\ gap' \in [Keys -> SUBSET Sessions]
        /\ Spares(s)
        /\ \A k \in Keys : gap'[k] = gap[k] \ {s}
    BY <1>1, UnlocksSpares DEF Rollback
  <1>3. /\ session' \in [Sessions -> SessionType] /\ session'[s] = Idle
        /\ \A t \in Sessions : t # s => session'[t] = session[t]
    BY <1>1, IdleType DEF Rollback, TypeOK
  <1>4. TypeOK' /\ engine' = engine /\ entry' = entry /\ outbox' = outbox
    BY <1>1, <1>2, <1>3 DEF TypeOK, database
  <1>5. Stage(s)'
    BY <1>3 DEF Stage, Idle, AnyKey, Absent
  <1>6. Draws(s) /\ Notes(s) /\ Closes(s)
    BY <1>2, <1>3, IdleType DEF Draws, Notes, Closes
  <1>7. QED BY <1>2, <1>3, <1>4, <1>5, <1>6, StatementStep

LEMMA RaisesStep ==
  ASSUME EntriesInv, NEW s \in Sessions, InsertEntryRaises(s) \/ UpsertPayloadRaises(s)
  PROVE  EntriesInv'
  <1>1. Rollback(s) /\ UNCHANGED <<engine, database, lastId, lastEvent, calls, faults>>
    BY DEF InsertEntryRaises, UpsertPayloadRaises
  <1>2. TypeOK /\ IdsInv /\ OutboxInv
    BY AtSession
  <1>3. lastId' = lastId /\ lastEvent' = lastEvent /\ lastId \in Nat /\ lastEvent \in Nat
        /\ faults' \in 0..MaxFaults
    BY <1>1, <1>2 DEF TypeOK
  <1>4. QED BY <1>1, <1>2, <1>3, RollbackStep DEF IdsInv, OutboxInv

\* In SQLite the numbers of a lost transaction are the last ones drawn, and go back.
LEMMA FaultStep ==
  ASSUME EntriesInv, NEW s \in Sessions, Fault(s)
  PROVE  EntriesInv'
  <1> DEFINE inserted == IF New(s) THEN 1 ELSE 0
             noted == Cardinality(session[s].events)
  <1>1. TypeOK /\ IdsInv /\ OutboxInv /\ Stage(s) /\ FreshInv(s) /\ EventInv(s)
    BY AtSession
  <1>2. lastId \in Nat /\ lastEvent \in Nat /\ faults \in Nat
    BY <1>1 DEF TypeOK
  <1>3. /\ Rollback(s) /\ UNCHANGED <<engine, database, calls>>
        /\ faults < MaxFaults /\ faults' = faults + 1
        /\ lastId' = lastId - (IF engine = "sqlite" THEN inserted ELSE 0)
        /\ lastEvent' = lastEvent - (IF engine = "sqlite" THEN noted ELSE 0)
    BY DEF Fault, New
  <1>4. faults' \in 0..MaxFaults
    BY <1>2, <1>3, EntriesAssumption
  <1>5. \/ session[s].events = {} /\ noted = 0
        \/ \E e \in session[s].events : session[s].events = {e} /\ noted = 1
    <2>1. CASE session[s].events = {}
      BY <2>1, FS_EmptySet
    <2>2. CASE session[s].events # {}
      <3>1. PICK type \in {"UPSERT_ENTRY", "DELETE_ENTRY"} : Noted(s, type)
        BY <1>1, <2>2, NoterHolds
      <3>2. PICK e : session[s].events = {e}
        BY <3>1 DEF Noted
      <3>3. QED BY <3>2, FS_Singleton
    <2>3. QED BY <2>1, <2>2
  <1> HIDE DEF noted
  <1>6. /\ lastId' \in Nat
        /\ \A t \in Sessions : t # s /\ New(t) =>
             lastId <= lastId' /\ (engine = "sqlite" => lastId' = lastId)
        /\ \A k \in Keys : entry[k] # Absent => entry[k].id <= lastId'
    <2>1. CASE engine = "sqlite" /\ New(s)
      <3>1. lastId' = lastId - 1
        BY <1>3, <2>1
      <3>2. 1 <= lastId /\ \A j \in Keys : entry[j].id # lastId
        BY <1>1, <2>1 DEF FreshInv
      <3>3. \A k \in Keys : entry[k] # Absent => entry[k].id <= lastId - 1
        <4>1. \A k \in Keys : entry[k].id \in Nat
          BY <1>1 DEF TypeOK, EntryType
        <4>2. QED BY <1>1, <1>2, <3>2, <4>1 DEF IdsInv
      <3>4. \A t \in Sessions : t # s => ~New(t)
        <4>1. ASSUME NEW t \in Sessions, t # s, New(t)
              PROVE  FALSE
          <5>1. Stage(t)
            BY AtSession
          <5>2. Holds(t) /\ Holds(s)
            BY <1>1, <2>1, <4>1, <5>1, WriterHolds DEF New
          <5>3. QED BY <1>1, <2>1, <4>1, <5>2, OneHolder
        <4>2. QED BY <4>1
      <3>5. QED BY <1>2, <3>1, <3>2, <3>3, <3>4
    <2>2. CASE ~(engine = "sqlite" /\ New(s))
      <3>1. lastId' = lastId
        BY <1>2, <1>3, <2>2
      <3>2. QED BY <1>1, <1>2, <3>1 DEF IdsInv
    <2>3. QED BY <2>1, <2>2
  <1>7. /\ lastEvent' \in Nat
        /\ \A t \in Sessions : t # s /\ session[t].events # {} =>
             lastEvent <= lastEvent' /\ (engine = "sqlite" => lastEvent' = lastEvent)
        /\ \A e \in outbox : e.event <= lastEvent'
    <2>1. CASE engine = "sqlite" /\ session[s].events # {}
      <3>1. lastEvent' = lastEvent - 1
        BY <1>3, <1>5, <2>1
      <3>2. 1 <= lastEvent /\ \A f \in outbox : f.event # lastEvent
        BY <1>1, <2>1 DEF EventInv
      <3>3. \A f \in outbox : f.event <= lastEvent - 1
        <4>1. \A f \in outbox : f.event \in Nat
          BY <1>1 DEF TypeOK, EventType
        <4>2. QED BY <1>1, <1>2, <3>2, <4>1 DEF OutboxInv
      <3>4. \A t \in Sessions : t # s => session[t].events = {}
        <4>1. ASSUME NEW t \in Sessions, t # s, session[t].events # {}
              PROVE  FALSE
          <5>1. Stage(t)
            BY AtSession
          <5>2. Holds(t) /\ Holds(s)
            BY <1>1, <2>1, <4>1, <5>1, NoterHolds
          <5>3. QED BY <1>1, <2>1, <4>1, <5>2, OneHolder
        <4>2. QED BY <4>1
      <3>5. QED BY <1>2, <3>1, <3>2, <3>3, <3>4
    <2>2. CASE ~(engine = "sqlite" /\ session[s].events # {})
      <3>1. lastEvent' = lastEvent
        BY <1>2, <1>3, <1>5, <2>2
      <3>2. QED BY <1>1, <1>2, <3>1 DEF OutboxInv
    <2>3. QED BY <2>1, <2>2
  <1>8. QED BY <1>3, <1>4, <1>6, <1>7, RollbackStep

(***************************************************************************)
(* Commits                                                                 *)
(***************************************************************************)
LEMMA CommitWrites ==
  ASSUME EntriesInv, NEW s \in Sessions, Commit(s)
  PROVE  /\ entry' \in [Keys -> EntryType]
         /\ session[s].entry = Absent => entry' = entry
         /\ session[s].entry # Absent => entry'[Key(s)] = session[s].entry /\ Holds(s)
         /\ \A k \in Keys : k # Key(s) => entry'[k] = entry[k]
         /\ \A k \in Keys : entry[k] # Absent =>
               entry'[k] # Absent /\ entry'[k].id = entry[k].id
         /\ \A k \in Keys : entry'[k] = entry[k] \/
               (k = Key(s) /\ session[s].entry # Absent /\ entry'[k].status # "ABSENT")
         /\ \A k \in Keys : entry'[k] # Absent /\ entry[k] = Absent =>
               k = Key(s) /\ New(s) /\ entry'[k].id = session[s].entry.id
  <1>1. TypeOK /\ IdsInv /\ Stage(s)
    BY AtSession
  <1>2. Key(s) \in Keys /\ session[s].entry \in EntryType /\ entry \in [Keys -> EntryType]
    BY <1>1, SessionFields DEF TypeOK
  <1>3. entry' = IF session[s].entry = Absent THEN entry
                 ELSE [entry EXCEPT ![Key(s)] = session[s].entry]
    BY DEF Commit
  <1>4. session[s].entry # Absent =>
          /\ Holds(s) /\ session[s].entry.status # "ABSENT"
          /\ entry[Key(s)] # Absent => session[s].entry.id = entry[Key(s)].id
    BY <1>1, WriterHolds
  <1>5. entry' \in [Keys -> EntryType]
    BY <1>2, <1>3
  <1>6. /\ session[s].entry = Absent => entry' = entry
        /\ session[s].entry # Absent => entry'[Key(s)] = session[s].entry
        /\ \A k \in Keys : k # Key(s) => entry'[k] = entry[k]
    BY <1>2, <1>3
  <1>7. QED BY <1>2, <1>4, <1>5, <1>6 DEF New

LEMMA CommitTypes ==
  ASSUME EntriesInv, NEW s \in Sessions, Commit(s)
  PROVE  /\ TypeOK' /\ session'[s] = Idle /\ Spares(s)
         /\ \A t \in Sessions : t # s => session'[t] = session[t]
         /\ \A k \in Keys : gap'[k] = gap[k] \ {s}
         /\ engine' = engine /\ lastId' = lastId /\ lastEvent' = lastEvent
         /\ outbox' = outbox \cup session[s].events
         /\ processed' = processed \cup session[s].done
         /\ payload' = IF session[s].payload = 0 THEN payload
                       ELSE [payload EXCEPT ![Key(s)] = session[s].payload]
         /\ session[s].todo = <<>> /\ Busy(s)
  <1>1. TypeOK
    BY AtSession
  <1>2. /\ Key(s) \in Keys /\ session[s].payload \in Nat
        /\ session[s].events \in SUBSET EventType /\ session[s].done \in SUBSET Nat
    BY <1>1, SessionFields
  <1>3. /\ Rollback(s) /\ Busy(s) /\ session[s].todo = <<>>
        /\ UNCHANGED <<engine, lastId, lastEvent, calls, faults>>
        /\ outbox' = outbox \cup session[s].events
        /\ processed' = processed \cup session[s].done
        /\ payload' = IF session[s].payload = 0 THEN payload
                      ELSE [payload EXCEPT ![Key(s)] = session[s].payload]
    BY DEF Commit
  <1>4. /\ lock' \in [Rows -> Sessions \cup {Nobody}]
        /\ gap' \in [Keys -> SUBSET Sessions]
        /\ Spares(s) /\ \A k \in Keys : gap'[k] = gap[k] \ {s}
    BY <1>1, <1>3, UnlocksSpares DEF Rollback
  <1>5. /\ session' \in [Sessions -> SessionType] /\ session'[s] = Idle
        /\ \A t \in Sessions : t # s => session'[t] = session[t]
    BY <1>1, <1>3, IdleType DEF Rollback, TypeOK
  <1>6. payload' \in [Keys -> Nat]
    BY <1>1, <1>2, <1>3 DEF TypeOK
  <1>7. outbox' \in SUBSET EventType /\ processed' \in SUBSET Nat
    BY <1>1, <1>2, <1>3 DEF TypeOK
  <1>8. entry' \in [Keys -> EntryType]
    BY CommitWrites
  <1>9. TypeOK'
    BY <1>1, <1>3, <1>4, <1>5, <1>6, <1>7, <1>8 DEF TypeOK
  <1>10. QED BY <1>3, <1>4, <1>5, <1>9

\* What the others see of a commit: not a row they hold, nor a gap.
LEMMA CommitSpares ==
  ASSUME EntriesInv, NEW s \in Sessions, Commit(s), NEW t \in Sessions, t # s
  PROVE  \/ entry'[Key(t)] = entry[Key(t)]
         \/ /\ ~Holds(t) /\ entry'[Key(t)] # Absent /\ t \notin gap[Key(t)]
            /\ session[t].entry = Absent
            /\ entry[Key(t)] # Absent => entry'[Key(t)].id = entry[Key(t)].id
  <1>1. TypeOK /\ IdsInv /\ GapInv /\ Stage(t) /\ Key(t) \in Keys
    BY AtSession, SessionFields
  <1>2. SUFFICES ASSUME entry'[Key(t)] # entry[Key(t)]
                 PROVE  /\ ~Holds(t) /\ entry'[Key(t)] # Absent /\ t \notin gap[Key(t)]
                        /\ session[t].entry = Absent
                        /\ entry[Key(t)] # Absent => entry'[Key(t)].id = entry[Key(t)].id
    OBVIOUS
  <1>3. /\ Key(t) = Key(s) /\ session[s].entry # Absent /\ Holds(s)
        /\ entry'[Key(t)].status # "ABSENT"
        /\ entry[Key(t)] # Absent => entry'[Key(t)].id = entry[Key(t)].id
    BY <1>1, <1>2, CommitWrites
  <1>4. ~Holds(t)
    BY <1>1, <1>3, OneHolder
  <1>5. session[t].entry = Absent
    BY <1>1, <1>4, WriterHolds
  <1>6. t \notin gap[Key(t)]
    BY <1>1, <1>3 DEF GapInv
  <1>7. QED BY <1>3, <1>4, <1>5, <1>6, AbsentType

LEMMA CommitStep ==
  ASSUME EntriesInv, NEW s \in Sessions, Commit(s)
  PROVE  EntriesInv'
  <1>1. TypeOK /\ IdsInv /\ OutboxInv /\ GapInv /\ Stage(s) /\ FreshInv(s) /\ EventInv(s)
    BY AtSession
  <1>2. /\ TypeOK' /\ session'[s] = Idle /\ Spares(s)
        /\ \A t \in Sessions : t # s => session'[t] = session[t]
        /\ \A k \in Keys : gap'[k] = gap[k] \ {s}
        /\ engine' = engine /\ lastId' = lastId /\ lastEvent' = lastEvent
        /\ outbox' = outbox \cup session[s].events
    BY CommitTypes
  <1>3. /\ \A k \in Keys : entry[k] # Absent =>
               entry'[k] # Absent /\ entry'[k].id = entry[k].id
        /\ \A k \in Keys : entry'[k] = entry[k] \/
               (k = Key(s) /\ session[s].entry # Absent /\ entry'[k].status # "ABSENT")
        /\ \A k \in Keys : entry'[k] # Absent /\ entry[k] = Absent =>
               k = Key(s) /\ New(s) /\ entry'[k].id = session[s].entry.id
    BY CommitWrites
  <1>4. lastId \in Nat /\ lastEvent \in Nat /\ session[s].entry.id \in Nat
        /\ \A k \in Keys : entry[k].id \in Nat /\ entry'[k].id \in Nat
    BY <1>1, <1>2, SessionFields DEF TypeOK, EntryType
  <1>5. New(s) => /\ 1 <= session[s].entry.id /\ session[s].entry.id <= lastId
                  /\ \A j \in Keys : entry[j].id # session[s].entry.id
                  /\ \A t \in Sessions : t # s /\ New(t) =>
                        session[t].entry.id # session[s].entry.id
    BY <1>1 DEF FreshInv
  <1>6. IdsInv'
    <2>1. \A k \in Keys : entry'[k].status = "ABSENT" => entry'[k] = Absent
      BY <1>1, <1>3 DEF IdsInv
    <2>2. \A k \in Keys : entry'[k] # Absent => 1 <= entry'[k].id /\ entry'[k].id <= lastId
      BY <1>1, <1>3, <1>5 DEF IdsInv
    <2>3. ASSUME NEW j \in Keys, NEW k \in Keys, j # k, entry'[j] # Absent
          PROVE  entry'[j].id # entry'[k].id
      <3>1. CASE entry'[k] = Absent
        BY <1>4, <2>2, <2>3, <3>1, AbsentType
      <3>2. CASE entry'[k] # Absent
        <4>1. CASE entry[j] # Absent /\ entry[k] # Absent
          BY <1>1, <1>3, <2>3, <4>1 DEF IdsInv
        <4>2. CASE entry[j] = Absent /\ entry[k] # Absent
          BY <1>3, <1>5, <2>3, <4>2
        <4>3. CASE entry[j] # Absent /\ entry[k] = Absent
          BY <1>3, <1>5, <2>3, <3>2, <4>3
        <4>4. CASE entry[j] = Absent /\ entry[k] = Absent
          BY <1>3, <2>3, <3>2, <4>4
        <4>5. QED BY <4>1, <4>2, <4>3, <4>4
      <3>3. QED BY <3>1, <3>2
    <2>4. QED BY <1>2, <2>1, <2>2, <2>3 DEF IdsInv
  <1>7. ASSUME NEW t \in Sessions
        PROVE  Stage(t)'
    <2>1. CASE t = s
      BY <1>2, <2>1 DEF Stage, Idle, AnyKey, Absent
    <2>2. CASE t # s
      <3>1. Stage(t) /\ session'[t] = session[t]
        BY <1>2, <2>2, AtSession
      <3>2. /\ \A e \in outbox : e \in outbox'
            /\ \A r \in Rows : lock[r] = t => lock'[r] = t
            /\ \A k \in Keys : t \in gap[k] => t \in gap'[k]
        BY <1>2, <2>2 DEF Spares
      <3>3. \/ entry'[Key(t)] = entry[Key(t)]
            \/ /\ ~Holds(t) /\ entry'[Key(t)] # Absent /\ t \notin gap[Key(t)]
               /\ entry[Key(t)] # Absent => entry'[Key(t)].id = entry[Key(t)].id
        BY <2>2, CommitSpares
      <3>4. QED BY <1>1, <1>2, <3>1, <3>2, <3>3, OtherStage
    <2>3. QED BY <2>1, <2>2
  <1>8. ASSUME NEW t \in Sessions
        PROVE  FreshInv(t)'
    <2>1. \A u \in Sessions : New(u)' => u # s /\ New(u) /\ session'[u] = session[u]
      <3>1. ~New(s)'
        BY <1>2, IdleType DEF New
      <3>2. ASSUME NEW u \in Sessions, u # s, New(u)'
            PROVE  New(u) /\ session'[u] = session[u]
        <4>1. Key(u) \in Keys /\ Key(u)' = Key(u) /\ session'[u] = session[u]
          BY <1>1, <1>2, <3>2, SessionFields DEF Key
        <4>2. QED BY <1>3, <3>2, <4>1 DEF New
      <3>3. QED BY <3>1, <3>2
    <2>2. SUFFICES ASSUME New(t)'
                   PROVE  FreshInv(t)'
      BY DEF FreshInv
    <2>3. /\ t # s /\ New(t) /\ session'[t] = session[t]
      BY <2>1, <2>2
    <2>4. /\ 1 <= session[t].entry.id /\ session[t].entry.id <= lastId
          /\ engine = "sqlite" => session[t].entry.id = lastId
          /\ \A j \in Keys : entry[j].id # session[t].entry.id
          /\ \A u \in Sessions : u # t /\ New(u) => session[u].entry.id # session[t].entry.id
      BY <2>3, AtSession DEF FreshInv
    <2>5. \A j \in Keys : entry'[j].id # session[t].entry.id
      <3>1. ASSUME NEW j \in Keys
            PROVE  entry'[j].id # session[t].entry.id
        <4>1. CASE entry'[j] = Absent \/ entry[j] # Absent
          BY <1>3, <2>4, <4>1
        <4>2. CASE entry'[j] # Absent /\ entry[j] = Absent
          BY <1>3, <1>5, <2>3, <4>2
        <4>3. QED BY <4>1, <4>2
      <3>2. QED BY <3>1
    <2>6. QED BY <1>2, <2>1, <2>3, <2>4, <2>5 DEF FreshInv
  <1>9. OutboxInv'
    BY <1>1, <1>2 DEF OutboxInv, EventInv
  <1>10. ASSUME NEW t \in Sessions
         PROVE  EventInv(t)'
    <2>1. CASE t = s
      BY <1>2, <2>1, IdleType DEF EventInv
    <2>2. CASE t # s
      <3>1. session'[t] = session[t] /\ Key(t)' = Key(t) /\ EventInv(t) /\ Stage(t)
        BY <1>2, <2>2, AtSession DEF Key
      <3>2. \A f : OutOfTurn(f)' = OutOfTurn(f)
        BY <1>2 DEF OutOfTurn
      <3>3. ASSUME NEW e \in session[t].events, session[t].entry # Absent,
                   NEW f \in session[s].events, f.key = Key(t)
            PROVE  OutOfTurn(f)
        <4>1. Key(s) = Key(t)
          BY <1>1, <3>3, NoterHolds DEF Noted
        <4>2. Holds(t)
          BY <1>1, <3>1, <3>3, WriterHolds
        <4>3. ~Holds(s) /\ engine # "sqlite"
          BY <1>1, <2>2, <3>3, <4>1, <4>2, NoterHolds, OneHolder
        <4>4. session[s].entry = Absent
          BY <1>1, <4>3, WriterHolds
        <4>5. FoundNone(s) /\ Noted(s, "DELETE_ENTRY")
          BY <1>1, <3>3, <4>4, NoterHolds
        <4>6. Key(s) \in Keys
          BY <1>1, SessionFields
        <4>7. engine # "mysql"
          BY <1>1, <3>3, <4>1, <4>5, <4>6 DEF FoundNone, GapInv
        <4>8. f.type = "DELETE_ENTRY" /\ f.id = 0
          BY <3>3, <4>5 DEF FoundNone, Noted
        <4>9. QED BY <1>1, <4>3, <4>7, <4>8 DEF TypeOK, Engines, OutOfTurn
      <3>4. ASSUME NEW e \in session[t].events
            PROVE  /\ \A f \in outbox' : f.event # e.event
                   /\ \A u \in Sessions : u # t => \A f \in session'[u].events :
                          f.event # e.event
        <4>1. /\ \A f \in outbox : f.event # e.event
              /\ \A u \in Sessions : u # t => \A f \in session[u].events :
                     f.event # e.event
          BY <3>1, <3>4 DEF EventInv
        <4>2. QED BY <1>2, <2>2, <4>1, IdleType
      <3>5. ASSUME NEW e \in session[t].events
            PROVE  /\ 1 <= e.event /\ e.event <= lastEvent
                   /\ engine = "sqlite" => e.event = lastEvent
                   /\ session[t].entry # Absent => \A f \in outbox :
                         f.key = Key(t) => f.event < e.event \/ OutOfTurn(f)
        BY <3>1, <3>5 DEF EventInv
      <3>6. QED BY <1>2, <3>1, <3>2, <3>3, <3>4, <3>5 DEF EventInv
    <2>3. QED BY <2>1, <2>2
  <1>11. GapInv'
    <2>1. SUFFICES ASSUME NEW k \in Keys, NEW t \in gap[k], t # s
                   PROVE  /\ engine = "mysql" /\ entry'[k] = Absent
                          /\ session'[t].method = "tombstone" /\ session'[t].key = k
                          /\ \A u \in Sessions : session'[u].key = k =>
                                 session'[u].entry = Absent
      BY <1>2 DEF GapInv, Key
    <2>2. t \in Sessions
      BY <1>1, <2>1 DEF TypeOK
    <2>3. /\ engine = "mysql" /\ entry[k] = Absent
          /\ session[t].method = "tombstone" /\ session[t].key = k
          /\ \A u \in Sessions : session[u].key = k => session[u].entry = Absent
      BY <1>1, <2>1 DEF GapInv, Key
    <2>4. entry'[k] = Absent
      BY <1>3, <2>3 DEF Key
    <2>5. QED BY <1>2, <2>1, <2>2, <2>3, <2>4, IdleType
  <1>12. QED BY <1>2, <1>6, <1>7, <1>8, <1>9, <1>10, <1>11 DEF EntriesInv

(***************************************************************************)
(* The invariant                                                           *)
(***************************************************************************)
LEMMA EntriesStep == EntriesInv /\ [Next]_vars => EntriesInv'
  <1> SUFFICES ASSUME EntriesInv, [Next]_vars PROVE EntriesInv'
    OBVIOUS
  <1>1. ASSUME NEW s \in Sessions, Statement(s)
        PROVE  EntriesInv'
    BY <1>1, SelectIdStep, UpsertEntryStep, UpdateEntryStep, InsertEntryStep,
       RaisesStep, UpsertPayloadStep, SelectPayloadStep, CountHitStep,
       UpdateTombstonedStep, UpdateTombstonedFindsNoneStep, UpdateActiveStep,
       UpdateActiveFindsNoneStep, InsertEventStep, UpdateProcessedStep DEF Statement
  <1>2. CASE Next
    BY <1>1, <1>2, CallStep, CallFinishStep, CommitStep, FaultStep DEF Next
  <1>3. CASE UNCHANGED vars
    <2>1. /\ engine' = engine /\ entry' = entry /\ payload' = payload
          /\ outbox' = outbox /\ processed' = processed /\ lastId' = lastId
          /\ lastEvent' = lastEvent /\ lock' = lock /\ gap' = gap
          /\ session' = session /\ calls' = calls /\ faults' = faults
      BY <1>3 DEF vars, database, locks
    <2>2. TypeOK /\ IdsInv /\ OutboxInv /\ GapInv
          /\ \A s \in Sessions : Stage(s) /\ FreshInv(s) /\ EventInv(s)
      BY DEF EntriesInv
    <2>3. TypeOK'
      BY <2>1, <2>2 DEF TypeOK
    <2>4. IdsInv' /\ OutboxInv' /\ GapInv'
      BY <2>1, <2>2 DEF IdsInv, OutboxInv, GapInv, Key
    <2>5. ASSUME NEW s \in Sessions
          PROVE  Stage(s)'
      BY <2>1, <2>2, OtherStage
    <2>6. ASSUME NEW s \in Sessions
          PROVE  FreshInv(s)'
      BY <2>1, <2>2 DEF FreshInv, New, Key
    <2>7. ASSUME NEW s \in Sessions
          PROVE  EventInv(s)'
      BY <2>1, <2>2 DEF EventInv, OutOfTurn, Key
    <2>8. QED BY <2>3, <2>4, <2>5, <2>6, <2>7 DEF EntriesInv
  <1>4. QED BY <1>2, <1>3

\* The inductive invariant: where each session is in its method, what it holds
\* and has written, and that no two of them have drawn the same number.
THEOREM EntriesInductive == Spec => []EntriesInv
  BY InitEntries, EntriesStep, PTL DEF Spec

\* The variables of SqlEntries keep their types.
THEOREM TypeCorrect == Spec => []TypeOK
  <1>1. EntriesInv => TypeOK
    BY DEF EntriesInv
  <1>2. QED BY <1>1, EntriesInductive, PTL

\* Only a commit changes what is committed.
LEMMA OnlyCommits ==
  ASSUME [Next]_vars
  PROVE  (\E s \in Sessions : Commit(s)) \/ UNCHANGED <<engine, database>>
  <1>1. ASSUME NEW s \in Sessions, Statement(s)
        PROVE  UNCHANGED <<engine, database>>
    BY <1>1 DEF Statement, SelectId, UpsertEntry, UpdateEntry, InsertEntry,
                InsertEntryRaises, UpsertPayload, UpsertPayloadRaises, SelectPayload,
                CountHit, UpdateTombstoned, UpdateTombstonedFindsNone, UpdateActive,
                UpdateActiveFindsNone, InsertUpsertEvent, InsertDeleteEvent, InsertEvent,
                UpdateProcessed
  <1>2. CASE Next
    BY <1>1, <1>2 DEF Next, Call, CallFinish, Fault
  <1>3. CASE UNCHANGED vars
    BY <1>3 DEF vars, database
  <1>4. QED BY <1>2, <1>3

\* A session that commits has come to the end of a method.
LEMMA Ended ==
  ASSUME TypeOK, NEW s \in Sessions, Stage(s), session[s].todo = <<>>, Busy(s)
  PROVE  \/ /\ Inserted(s) /\ session[s].payload = session[s].version
            /\ Noted(s, "UPSERT_ENTRY") /\ session[s].done = {} /\ session[s].payload # 0
         \/ /\ session[s].entry = Absent /\ session[s].payload = session[s].version
            /\ session[s].events = {} /\ session[s].done = {} /\ session[s].payload # 0
            /\ entry[Key(s)] # Absent
         \/ /\ session[s].payload = 0 /\ session[s].events = {} /\ session[s].done = {}
            /\ \/ session[s].entry = Absent
               \/ Updated(s, [entry[Key(s)] EXCEPT !.hits = entry[Key(s)].hits + 1])
               \/ /\ entry[Key(s)].status = "PENDING_INDEX"
                  /\ Updated(s, [entry[Key(s)] EXCEPT !.status = "ACTIVE"])
         \/ /\ session[s].payload = 0 /\ session[s].done = {} /\ Noted(s, "DELETE_ENTRY")
            /\ \/ /\ Updated(s, [entry[Key(s)] EXCEPT !.status = "TOMBSTONED"])
                  /\ session[s].id = 0 \/ Known(s)
               \/ FoundNone(s)
         \/ /\ session[s].entry = Absent /\ session[s].payload = 0
            /\ session[s].events = {} /\ session[s].done = {session[s].id}
            /\ \E e \in outbox : e.event = session[s].id
  <1>1. session[s] # Idle
    BY IdleType DEF Busy
  <1>2. CASE Putting(s)
    BY <1>2 DEF Putting, PutBegun, PutInserted
  <1>3. CASE Setting(s)
    BY <1>3 DEF Setting
  <1>4. CASE Getting(s)
    BY <1>4 DEF Getting
  <1>5. CASE Tombstoning(s)
    BY <1>5 DEF Tombstoning
  <1>6. CASE Marking(s)
    BY <1>6 DEF Marking
  <1>7. CASE Finishing(s)
    BY <1>7 DEF Finishing
  <1>8. QED BY <1>1, <1>2, <1>3, <1>4, <1>5, <1>6, <1>7 DEF Stage

(***************************************************************************)
(* The last event of a key tells its row                                   *)
(***************************************************************************)
Tells(e, row) ==
    \/ row = Absent /\ e.type = "DELETE_ENTRY"
    \/ row.status = "TOMBSTONED" /\ e.type = "DELETE_ENTRY"
    \/ row.status \in {"PENDING_INDEX", "ACTIVE"} /\ e.type = "UPSERT_ENTRY"

LEMMA CommitTells ==
  ASSUME EntriesInv, LastEventTellsRow, NEW s \in Sessions, Commit(s)
  PROVE  LastEventTellsRow'
  <1>1. TypeOK /\ IdsInv /\ GapInv /\ Stage(s) /\ EventInv(s)
    BY AtSession
  <1>2. engine' = engine /\ outbox' = outbox \cup session[s].events
        /\ session[s].todo = <<>> /\ Busy(s)
    BY CommitTypes
  <1>3. /\ session[s].entry = Absent => entry' = entry
        /\ session[s].entry # Absent => entry'[Key(s)] = session[s].entry
        /\ \A k \in Keys : k # Key(s) => entry'[k] = entry[k]
    BY CommitWrites
  <1>4. Key(s) \in Keys /\ entry[Key(s)] \in EntryType /\ outbox \subseteq EventType
        /\ session[s].events \subseteq EventType
    BY <1>1, SessionFields DEF TypeOK
  <1>5. SUFFICES ASSUME engine # "postgres", NEW e \in outbox',
                        \A f \in outbox' : f.key = e.key => f.event <= e.event
                 PROVE  Tells(e, entry'[e.key])
    BY <1>2 DEF LastEventTellsRow, Tells
  <1>6. e.key \in Keys /\ e.event \in Nat
    BY <1>2, <1>4, <1>5 DEF EventType
  <1>7. e \in outbox => Tells(e, entry[e.key])
    BY <1>2, <1>5 DEF LastEventTellsRow, Tells
  <1>8. CASE entry'[e.key] = entry[e.key] /\ e \in outbox
    BY <1>7, <1>8
  <1>9. CASE session[s].entry = Absent /\ e \notin outbox
    <2>1. e \in session[s].events
      BY <1>2, <1>5, <1>9
    <2>2. FoundNone(s) /\ Noted(s, "DELETE_ENTRY")
      BY <1>1, <1>9, <2>1, NoterHolds
    <2>3. e.key = Key(s) /\ e.type = "DELETE_ENTRY"
      BY <2>1, <2>2 DEF Noted
    <2>4. entry[Key(s)] = Absent
      BY <1>1, <1>4, <1>5, <2>2 DEF FoundNone, GapInv, TypeOK, Engines
    <2>5. QED BY <1>3, <1>9, <2>3, <2>4 DEF Tells
  <1>10. CASE session[s].entry # Absent /\ e.key = Key(s)
    <2>1. ASSUME NEW f \in session[s].events
          PROVE  e = f
      <3>1. f.key = Key(s) /\ session[s].events = {f}
        BY <1>1, <2>1, NoterHolds DEF Noted
      <3>2. f.event <= e.event /\ f.event \in Nat
        BY <1>2, <1>4, <1>5, <1>10, <2>1, <3>1 DEF EventType
      <3>3. e \in outbox => e.event < f.event
        BY <1>1, <1>5, <1>10, <2>1 DEF EventInv, OutOfTurn
      <3>4. QED BY <1>2, <1>5, <1>6, <3>1, <3>2, <3>3
    <2>2. entry'[e.key] = session[s].entry
      BY <1>3, <1>10
    <2>3. CASE Inserted(s) /\ Noted(s, "UPSERT_ENTRY")
      <3>1. session[s].entry.status = "PENDING_INDEX"
        BY <2>3 DEF Inserted
      <3>2. e.type = "UPSERT_ENTRY"
        BY <2>1, <2>3 DEF Noted
      <3>3. QED BY <2>2, <3>1, <3>2 DEF Tells
    <2>4. CASE /\ Updated(s, [entry[Key(s)] EXCEPT !.status = "TOMBSTONED"])
               /\ Noted(s, "DELETE_ENTRY")
      <3>1. session[s].entry.status = "TOMBSTONED"
        BY <1>4, <2>4 DEF Updated, EntryType
      <3>2. e.type = "DELETE_ENTRY"
        BY <2>1, <2>4 DEF Noted
      <3>3. QED BY <2>2, <3>1, <3>2 DEF Tells
    <2>5. CASE /\ session[s].events = {}
               /\ Updated(s, [entry[Key(s)] EXCEPT !.hits = entry[Key(s)].hits + 1])
      <3>1. session[s].entry.status = entry[Key(s)].status /\ entry[Key(s)] # Absent
        BY <1>4, <2>5 DEF Updated, EntryType
      <3>2. Tells(e, entry[Key(s)])
        BY <1>2, <1>5, <1>7, <1>10, <2>5
      <3>3. QED BY <2>2, <3>1, <3>2 DEF Tells
    <2>6. CASE /\ session[s].events = {} /\ entry[Key(s)].status = "PENDING_INDEX"
               /\ Updated(s, [entry[Key(s)] EXCEPT !.status = "ACTIVE"])
      <3>1. session[s].entry.status = "ACTIVE"
        BY <1>4, <2>6 DEF Updated, EntryType
      <3>2. Tells(e, entry[Key(s)])
        BY <1>2, <1>5, <1>7, <1>10, <2>6
      <3>3. QED BY <2>2, <2>6, <3>1, <3>2, AbsentType DEF Tells
    <2>7. QED BY <1>1, <1>2, <1>10, <2>3, <2>4, <2>5, <2>6, Ended DEF FoundNone
  <1>11. CASE session[s].entry = Absent /\ e \in outbox
    BY <1>3, <1>8, <1>11
  <1>12. CASE session[s].entry # Absent /\ e.key # Key(s)
    <2>1. e \in outbox
      <3>1. \A f \in session[s].events : f.key = Key(s)
        BY <1>1, NoterHolds DEF Noted
      <3>2. QED BY <1>2, <1>5, <1>12, <3>1
    <2>2. QED BY <1>3, <1>6, <1>8, <1>12, <2>1
  <1>13. QED BY <1>9, <1>10, <1>11, <1>12

\* A consumer that goes through the outbox in order leaves the index as the row
\* says, in SQLite and MySQL.
THEOREM LastEventTold == Spec => []LastEventTellsRow
  <1>1. Init => LastEventTellsRow
    BY DEF Init, LastEventTellsRow
  <1>2. EntriesInv /\ LastEventTellsRow /\ [Next]_vars => LastEventTellsRow'
    <2>1. SUFFICES ASSUME EntriesInv, LastEventTellsRow, [Next]_vars
                   PROVE  LastEventTellsRow'
      OBVIOUS
    <2>2. CASE UNCHANGED <<engine, database>>
      BY <2>1, <2>2 DEF LastEventTellsRow, database
    <2>3. CASE \E s \in Sessions : Commit(s)
      BY <2>1, <2>3, CommitTells
    <2>4. QED BY <2>1, <2>2, <2>3, OnlyCommits
  <1>3. QED BY <1>1, <1>2, EntriesInductive, PTL DEF Spec

(***************************************************************************)
(* The refinement                                                          *)
(***************************************************************************)
LEMMA StoreAbsent == Store!Absent = Absent
  BY DEF Store!Absent, Absent

LEMMA StoreInit == Init => Store!Init
  <1> SUFFICES ASSUME Init PROVE Store!Init
    OBVIOUS
  <1>1. \A k \in Keys : entry[k] = IF k = Old THEN OldEntry ELSE Absent
    BY DEF Init
  <1>2. \A k \in Keys : payload[k] = entry[k].version
    BY DEF Init
  <1>3. outbox = {} /\ processed = {}
    BY DEF Init
  <1>4. QED BY <1>1, <1>2, <1>3, AbsentType, StoreAbsent DEF Store!Init

\* The event of a transaction that has the row is the newest of its key.
LEMMA CommitTellsEvent ==
  ASSUME Numbers = Nat, EntriesInv, NEW s \in Sessions, Commit(s),
         session[s].entry # Absent, NEW type, Noted(s, type)
  PROVE  Store!Tells(type, Key(s), session[s].id)
  <1>1. EventInv(s)
    BY AtSession
  <1>2. outbox' = outbox \cup session[s].events
    BY CommitTypes
  <1>3. PICK n \in Nat : session[s].events =
            {[event |-> n, type |-> type, key |-> Key(s), id |-> session[s].id]}
    BY DEF Noted
  <1> DEFINE e == [event |-> n, type |-> type, key |-> Key(s), id |-> session[s].id]
  <1>4. e \in session[s].events /\ e.event = n
    BY <1>3
  <1>5. \A f \in outbox : f.event # n /\ (f.key = Key(s) => f.event < n \/ OutOfTurn(f))
    BY <1>1, <1>4 DEF EventInv
  <1>6. \A f \in outbox : f.event # n /\ (f.key = Key(s) => f.event < n \/ Store!OutOfTurn(f))
    BY <1>5 DEF OutOfTurn, Store!OutOfTurn
  <1>7. n \in Numbers /\ outbox' = outbox \cup {e}
    BY <1>2, <1>3
  <1>8. QED BY <1>6, <1>7 DEF Store!Tells

LEMMA CommitMaps ==
  ASSUME Numbers = Nat, EntriesInv, NEW s \in Sessions, Commit(s)
  PROVE  Store!Next \/ UNCHANGED Store!table
  <1>1. TypeOK /\ IdsInv /\ GapInv /\ Stage(s) /\ FreshInv(s) /\ EventInv(s)
    BY AtSession
  <1>2. /\ outbox' = outbox \cup session[s].events
        /\ processed' = processed \cup session[s].done
        /\ payload' = IF session[s].payload = 0 THEN payload
                      ELSE [payload EXCEPT ![Key(s)] = session[s].payload]
        /\ session[s].todo = <<>> /\ Busy(s)
    BY CommitTypes
  <1>3. entry' = IF session[s].entry = Absent THEN entry
                 ELSE [entry EXCEPT ![Key(s)] = session[s].entry]
    BY DEF Commit
  <1>4. /\ Key(s) \in Keys /\ session[s].id \in Numbers /\ session[s].version \in Numbers
        /\ entry[Key(s)] \in EntryType /\ session[s].entry \in EntryType
    BY <1>1, SessionFields
  <1>5. Store!Exists(Key(s)) <=> entry[Key(s)] # Absent
    BY <1>1, <1>4, AbsentType DEF Store!Exists, IdsInv
  <1>6. CASE /\ Inserted(s) /\ session[s].payload = session[s].version
             /\ Noted(s, "UPSERT_ENTRY") /\ session[s].done = {} /\ session[s].payload # 0
    <2>1. session[s].entry = [status |-> "PENDING_INDEX", id |-> session[s].id,
                              version |-> session[s].version, hits |-> entry[Key(s)].hits]
      BY <1>6 DEF Inserted
    <2>2. session[s].entry # Absent /\ session[s].entry.id = session[s].id
      BY <2>1, AbsentType
    <2>3. IF Store!Exists(Key(s)) THEN session[s].id = entry[Key(s)].id
          ELSE \A j \in Keys : entry[j].id # session[s].id
      BY <1>1, <1>5, <1>6, <2>2 DEF Inserted, FreshInv, New
    <2>4. Store!Tells("UPSERT_ENTRY", Key(s), session[s].id)
      BY <1>6, <2>2, CommitTellsEvent
    <2>5. entry' = [entry EXCEPT ![Key(s)] =
                       [status |-> "PENDING_INDEX", id |-> session[s].id,
                        version |-> session[s].version, hits |-> entry[Key(s)].hits]]
      BY <1>3, <2>1, <2>2
    <2>6. payload' = [payload EXCEPT ![Key(s)] = session[s].version]
          /\ processed' = processed
      BY <1>2, <1>6
    <2>7. Store!Put(Key(s), session[s].version)
      BY <1>4, <2>3, <2>4, <2>5, <2>6 DEF Store!Put
    <2>8. QED BY <1>4, <2>7 DEF Store!Next
  <1>7. CASE /\ session[s].entry = Absent /\ session[s].payload = session[s].version
             /\ session[s].events = {} /\ session[s].done = {} /\ session[s].payload # 0
             /\ entry[Key(s)] # Absent
    <2>1. Store!SetPayload(Key(s), session[s].version)
      BY <1>2, <1>3, <1>5, <1>7 DEF Store!SetPayload
    <2>2. QED BY <1>4, <2>1 DEF Store!Next
  <1>8. CASE /\ session[s].payload = 0 /\ session[s].events = {} /\ session[s].done = {}
             /\ \/ session[s].entry = Absent
                \/ Updated(s, [entry[Key(s)] EXCEPT !.hits = entry[Key(s)].hits + 1])
                \/ /\ entry[Key(s)].status = "PENDING_INDEX"
                   /\ Updated(s, [entry[Key(s)] EXCEPT !.status = "ACTIVE"])
    <2>1. payload' = payload /\ outbox' = outbox /\ processed' = processed
      BY <1>2, <1>8
    <2>2. CASE session[s].entry = Absent
      BY <1>3, <2>1, <2>2 DEF Store!table
    <2>3. CASE /\ session[s].entry # Absent
               /\ Updated(s, [entry[Key(s)] EXCEPT !.hits = entry[Key(s)].hits + 1])
      <3>1. entry' = [entry EXCEPT ![Key(s)] =
                         [entry[Key(s)] EXCEPT !.hits = entry[Key(s)].hits + 1]]
            /\ entry[Key(s)] # Absent
        BY <1>3, <2>3 DEF Updated
      <3>2. Store!Serve(Key(s))
        BY <1>5, <2>1, <3>1 DEF Store!Serve
      <3>3. QED BY <1>4, <3>2 DEF Store!Next
    <2>4. CASE /\ session[s].entry # Absent /\ entry[Key(s)].status = "PENDING_INDEX"
               /\ Updated(s, [entry[Key(s)] EXCEPT !.status = "ACTIVE"])
      <3>1. entry' = [entry EXCEPT ![Key(s)] = [entry[Key(s)] EXCEPT !.status = "ACTIVE"]]
        BY <1>3, <2>4 DEF Updated
      <3>2. Store!MarkIndexed(Key(s))
        BY <2>1, <2>4, <3>1 DEF Store!MarkIndexed
      <3>3. QED BY <1>4, <3>2 DEF Store!Next
    <2>5. QED BY <1>8, <2>2, <2>3, <2>4
  <1>9. CASE /\ session[s].payload = 0 /\ session[s].done = {} /\ Noted(s, "DELETE_ENTRY")
             /\ Updated(s, [entry[Key(s)] EXCEPT !.status = "TOMBSTONED"])
             /\ session[s].id = 0 \/ Known(s)
    <2>1. payload' = payload /\ processed' = processed
      BY <1>2, <1>9
    <2>2. session[s].entry.status = "TOMBSTONED" /\ entry[Key(s)] # Absent
          /\ session[s].entry = [entry[Key(s)] EXCEPT !.status = "TOMBSTONED"]
      BY <1>4, <1>9 DEF Updated, EntryType
    <2>3. session[s].entry # Absent
      BY <2>2, AbsentType
    <2>4. entry' = [entry EXCEPT ![Key(s)] = [entry[Key(s)] EXCEPT !.status = "TOMBSTONED"]]
      BY <1>3, <2>2, <2>3
    <2>5. Store!Tells("DELETE_ENTRY", Key(s), session[s].id)
      BY <1>9, <2>3, CommitTellsEvent
    <2>6. \/ Store!Tells("DELETE_ENTRY", Key(s), entry[Key(s)].id)
          \/ Store!Tells("DELETE_ENTRY", Key(s), 0)
      <3>1. CASE session[s].id = 0
        BY <2>5, <3>1
      <3>2. CASE session[s].id = entry[Key(s)].id
        BY <2>5, <3>2
      <3>3. QED BY <1>9, <3>1, <3>2 DEF Known
    <2>7. Store!Tombstone(Key(s))
      BY <1>5, <2>1, <2>2, <2>4, <2>6 DEF Store!Tombstone
    <2>8. QED BY <1>4, <2>7 DEF Store!Next
  <1>10. CASE /\ session[s].payload = 0 /\ session[s].done = {} /\ Noted(s, "DELETE_ENTRY")
              /\ FoundNone(s)
    <2>1. payload' = payload /\ processed' = processed /\ entry' = entry
      BY <1>2, <1>3, <1>10 DEF FoundNone
    <2>2. entry[Key(s)] # Absent => engine = "postgres"
      BY <1>1, <1>4, <1>10 DEF FoundNone, GapInv, TypeOK, Engines
    <2>3. PICK n \in Nat : session[s].events =
              {[event |-> n, type |-> "DELETE_ENTRY", key |-> Key(s), id |-> session[s].id]}
      BY <1>10 DEF Noted
    <2>4. \A e \in outbox : e.event # n
      BY <1>1, <2>3 DEF EventInv
    <2>5. n \in Numbers /\ outbox' = outbox \cup
              {[event |-> n, type |-> "DELETE_ENTRY", key |-> Key(s), id |-> 0]}
      BY <1>2, <1>10, <2>3 DEF FoundNone
    <2>6. Store!TombstoneNothing(Key(s))
      BY <1>5, <2>1, <2>2, <2>4, <2>5 DEF Store!TombstoneNothing
    <2>7. QED BY <1>4, <2>6 DEF Store!Next
  <1>11. CASE /\ session[s].entry = Absent /\ session[s].payload = 0
              /\ session[s].events = {} /\ session[s].done = {session[s].id}
              /\ \E e \in outbox : e.event = session[s].id
    <2>1. Store!MarkProcessed(session[s].id)
      BY <1>2, <1>3, <1>11 DEF Store!MarkProcessed
    <2>2. QED BY <1>4, <2>1 DEF Store!Next
  <1>12. QED BY <1>1, <1>2, <1>6, <1>7, <1>8, <1>9, <1>10, <1>11, Ended

\* Statement by statement, on every engine, the repository is the entry table:
\* each operation happens at once, at its commit, or not at all.
THEOREM EntriesRefine ==
  ASSUME Numbers = Nat
  PROVE  Spec => ImplementsEntryTable
  <1>1. Init => Store!Init
    BY StoreInit
  <1>2. EntriesInv /\ [Next]_vars => [Store!Next]_(Store!table)
    <2>1. SUFFICES ASSUME EntriesInv, [Next]_vars
                   PROVE  Store!Next \/ UNCHANGED Store!table
      OBVIOUS
    <2>2. CASE UNCHANGED <<engine, database>>
      BY <2>2 DEF database, Store!table
    <2>3. CASE \E s \in Sessions : Commit(s)
      BY <2>1, <2>3, CommitMaps
    <2>4. QED BY <2>1, <2>2, <2>3, OnlyCommits
  <1>3. QED BY <1>1, <1>2, EntriesInductive, PTL DEF Spec, ImplementsEntryTable, Store!Spec
=============================================================================
