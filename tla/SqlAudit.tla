------------------------------ MODULE SqlAudit ------------------------------
(***************************************************************************)
(* The audit tables of the three SQL repositories, one SQL statement at a  *)
(* time: query events and calibration records, which share query_events    *)
(* and query_candidates, and the versioned rows of threshold_versions and  *)
(* faiss_snapshots, of which the active one is read.  The engines are      *)
(* those of SqlEntries.  A MySQL transaction also locks the gap between    *)
(* two index records in which its DELETE or UPDATE found nothing; several  *)
(* may hold a gap, and an INSERT into it waits for all the others.         *)
(*                                                                         *)
(* What a row says is named by the call that wrote it.  One scorer, scope  *)
(* and shard; query_ids are given, as those of a request are.  No statement*)
(* touches the rows of two families of tables, so a behaviour calls the    *)
(* methods of one family.                                                  *)
(***************************************************************************)
EXTENDS Integers, Sequences, FiniteSets

CONSTANTS
    Queries,   \* query_ids, in the order of the index: numbers
    MaxRank,   \* bound: candidates of a query
    Sessions,  \* threads that call the repository, each on a connection
    MaxCalls   \* bound: calls of the repository

ASSUME AuditAssumption ==
    /\ Queries \subseteq Nat \ {0}
    /\ Queries # {}
    /\ MaxRank \in Nat \ {0}
    /\ MaxCalls \in Nat

VARIABLES
    engine,    \* chosen once: MLCACHE_STORAGE_BACKEND
    family,    \* chosen once: the methods that are called
    query,     \* query_events, committed
    candidate, \* query_candidates, committed: who wrote the row of each rank
    versions,  \* threshold_versions and faiss_snapshots, committed
    clock,     \* the database's clock: ticks when it is read
    session,   \* what each session is doing, its locks and uncommitted writes
    calls      \* calls begun so far

auditTables == <<query, candidate, versions>>
chosen == <<engine, family>>
auditVars == <<chosen, auditTables, clock, session, calls>>

Engines == {"sqlite", "postgres", "mysql"}
Ranks == 1..MaxRank
VersionTables == {"threshold", "snapshot"}

NoQuery == [kind |-> "ABSENT", writer |-> 0, count |-> 0]
NoCandidates == [r \in Ranks |-> 0]

(***************************************************************************)
(* The methods, as the statements they send                                *)
(***************************************************************************)

\* Mutant: a record that is written again keeps its old candidates.
PostgresAddRecordOnly == <<"upsert_query", "insert_candidates">>

PostgresRecordQueryEvent == <<"upsert_query", "delete_candidates", "insert_candidates">>
PostgresAddQueryCalibrationRecord ==
    <<"upsert_query", "delete_candidates", "insert_candidates">>
PostgresClearQueryCalibrationRecords == <<"delete_records">>
PostgresSetThreshold == <<"deactivate", "insert_version">>
PostgresInsertFaissSnapshot(active) ==
    IF active THEN <<"deactivate", "insert_version">> ELSE <<"insert_version">>

MySQLRecordQueryEvent == <<"upsert_query", "delete_candidates", "insert_candidates">>
MySQLAddQueryCalibrationRecord ==
    <<"upsert_query", "delete_candidates", "insert_candidates">>
MySQLClearQueryCalibrationRecords == <<"delete_records">>
MySQLInsertFaissSnapshot(active) ==
    IF active THEN <<"deactivate", "insert_version">> ELSE <<"insert_version">>

MySQLSetThreshold == <<"deactivate", "insert_version">>

SQLiteRecordQueryEvent == <<"upsert_query", "delete_candidates", "insert_candidates">>
SQLiteAddQueryCalibrationRecord ==
    <<"upsert_query", "delete_candidates", "insert_candidates">>
SQLiteClearQueryCalibrationRecords == <<"delete_records">>
SQLiteSetThreshold == <<"deactivate", "insert_version">>
SQLiteInsertFaissSnapshot(active) ==
    IF active THEN <<"deactivate", "insert_version">> ELSE <<"insert_version">>

Families == {{"event", "record", "clear"}, {"threshold"}, {"snapshot"}}

\* active is an argument of insert_faiss_snapshot alone.
Program(method, active) ==
    CASE engine = "postgres" ->
           [event |-> PostgresRecordQueryEvent,
            record |-> PostgresAddQueryCalibrationRecord,
            clear |-> PostgresClearQueryCalibrationRecords,
            threshold |-> PostgresSetThreshold,
            snapshot |-> PostgresInsertFaissSnapshot(active)][method]
      [] engine = "mysql" ->
           [event |-> MySQLRecordQueryEvent,
            record |-> MySQLAddQueryCalibrationRecord,
            clear |-> MySQLClearQueryCalibrationRecords,
            threshold |-> MySQLSetThreshold,
            snapshot |-> MySQLInsertFaissSnapshot(active)][method]
      [] engine = "sqlite" ->
           [event |-> SQLiteRecordQueryEvent,
            record |-> SQLiteAddQueryCalibrationRecord,
            clear |-> SQLiteClearQueryCalibrationRecords,
            threshold |-> SQLiteSetThreshold,
            snapshot |-> SQLiteInsertFaissSnapshot(active)][method]

Statements == {"upsert_query", "delete_candidates", "insert_candidates",
               "delete_records", "deactivate", "insert_version"}

(***************************************************************************)
(* Sessions                                                                *)
(***************************************************************************)

AnyQuery == CHOOSE q \in Queries : TRUE
Idle == [method |-> "none", key |-> AnyQuery, count |-> 0, active |-> TRUE, call |-> 0,
         todo |-> <<>>, held |-> {}, begun |-> 0, before |-> {}, targets |-> {},
         query |-> NoQuery, candidate |-> NoCandidates, cleared |-> {},
         off |-> {}, new |-> {}]

AuditInit ==
    /\ engine \in Engines
    /\ family \in Families
    /\ query = [q \in Queries |-> NoQuery]
    /\ candidate = [q \in Queries |-> NoCandidates]
    /\ versions = {}
    /\ clock = 0
    /\ session = [s \in Sessions |-> Idle]
    /\ calls = 0

Busy(s) == session[s].method # "none"
Key(s) == session[s].key
Sends(s, statement) == session[s].todo # <<>> /\ Head(session[s].todo) = statement

VersionsOf(table) == {v \in versions : v.table = table}
Numbers(vs) == {v.number : v \in vs}

\* get_threshold, get_active_threshold_version_id, latest_active_snapshot: the
\* newest of the active rows.
Newer(v, w) ==
    v.stamp > w.stamp \/ (v.stamp = w.stamp /\ v.number >= w.number)
IsCurrentVersion(v) ==
    /\ v.active
    /\ \A w \in VersionsOf(v.table) : w.active => Newer(v, w)

\* before is history: what was committed when the call began, as far as the
\* call replaces it.  A snapshot that is inserted inactive replaces nothing.
Call(s) ==
    /\ ~Busy(s)
    /\ calls < MaxCalls
    /\ calls' = calls + 1
    /\ \E m \in family, q \in Queries, n \in 0..MaxRank, active \in BOOLEAN :
          /\ m \notin {"event", "record"} => q = AnyQuery
          /\ m \in {"clear", "threshold"} => n = 0
          /\ m # "snapshot" => active
          /\ session' = [session EXCEPT ![s] =
                [Idle EXCEPT !.method = m, !.key = q, !.count = n, !.active = active,
                             !.call = calls + 1, !.todo = Program(m, active),
                             !.before = IF m \notin VersionTables
                                        THEN {query[p].writer : p \in Queries}
                                        ELSE IF active THEN Numbers(VersionsOf(m))
                                        ELSE {}]]
    /\ UNCHANGED <<chosen, auditTables, clock>>

Goes(s, changed) ==
    session' = [session EXCEPT ![s] = [changed EXCEPT !.todo = Tail(@)]]

\* The connection's context manager: commit, or roll back.
Rollback(s) == session' = [session EXCEPT ![s] = Idle]

\* The candidates of a deleted query go with it: ON DELETE CASCADE.
Commit(s) ==
    LET w == session[s]
        writes(q) == w.query # NoQuery /\ q = Key(s)
    IN  /\ Busy(s)
        /\ w.todo = <<>>
        /\ query' = [q \in Queries |-> IF writes(q) THEN w.query
                                       ELSE IF q \in w.cleared THEN NoQuery ELSE query[q]]
        /\ candidate' = [q \in Queries |->
                            IF writes(q) THEN w.candidate
                            ELSE IF q \in w.cleared THEN NoCandidates ELSE candidate[q]]
        /\ versions' = {[v EXCEPT !.active = @ /\ v.number \notin w.off] :
                           v \in versions} \cup w.new
        /\ Rollback(s)
        /\ UNCHANGED <<chosen, clock, calls>>

(***************************************************************************)
(* Locks                                                                   *)
(***************************************************************************)

\* mysql: the query_ids whose candidates would lie in a gap next to those of q.
GapsNextTo(q) ==
    {p \in Queries :
        \A r \in Queries : (p < r /\ r < q) \/ (q < r /\ r < p)
                           => candidate[r] = NoCandidates}

RowsToDeactivate(table) ==
    {v \in VersionsOf(table) : v.active \/ table = "snapshot"}

\* The locks the next statement waits for.
Wants(s) ==
    IF engine = "sqlite" THEN {<<"database", 0>>}
    ELSE CASE Sends(s, "upsert_query") -> {<<"query", Key(s)>>}
           [] Sends(s, "insert_candidates") -> {<<"gap", Key(s)>>}
           [] Sends(s, "delete_records") ->
                {<<"query", q>> : q \in IF engine = "mysql" THEN Queries
                                        ELSE session[s].targets}
           [] Sends(s, "deactivate") ->
                IF engine = "postgres" THEN {<<"version", n>> : n \in session[s].targets}
                ELSE {<<"rows", session[s].method>>}
           [] Sends(s, "insert_version") -> {<<"range", session[s].method>>}
           [] OTHER -> {}

Blockers(s) == {t \in Sessions \ {s} : session[t].held \cap Wants(s) # {}}
Free(s) == Busy(s) /\ Blockers(s) = {}

\* Every one of a set of sessions waits for another of them.
Deadlocked(s) ==
    \E c \in SUBSET Sessions :
        s \in c /\ \A t \in c : Busy(t) /\ Blockers(t) \cap c # {}

\* The deadlock detector rolls back one of them; its caller gets the exception.
Victim(s) ==
    /\ Deadlocked(s)
    /\ Rollback(s)
    /\ UNCHANGED <<chosen, auditTables, clock, calls>>

Holding(s, locks) ==
    session[s].held \cup (IF engine = "sqlite" THEN {<<"database", 0>>} ELSE locks)

(***************************************************************************)
(* Statements                                                              *)
(***************************************************************************)

\* record_query_event and add_query_calibration_record write the same row.
UpsertQuery(s) ==
    /\ Sends(s, "upsert_query")
    /\ Free(s)
    /\ Goes(s, [session[s] EXCEPT
                   !.held = Holding(s, Wants(s)),
                   !.query = [kind |-> session[s].method, writer |-> session[s].call,
                              count |-> session[s].count],
                   !.candidate = candidate[Key(s)]])
    /\ UNCHANGED <<chosen, auditTables, clock, calls>>

DeleteCandidates(s) ==
    /\ Sends(s, "delete_candidates")
    /\ Free(s)
    /\ Goes(s, [session[s] EXCEPT
                   !.held = Holding(s, IF engine = "mysql"
                                       THEN {<<"gap", q>> : q \in GapsNextTo(Key(s))}
                                       ELSE {}),
                   !.candidate = NoCandidates])
    /\ UNCHANGED <<chosen, auditTables, clock, calls>>

Written(s) == Cardinality({r \in Ranks : session[s].candidate[r] = session[s].call})

\* One INSERT after the other.
InsertCandidate(s) ==
    /\ Sends(s, "insert_candidates")
    /\ Written(s) < session[s].count
    /\ Free(s)
    /\ session' = [session EXCEPT ![s].candidate[Written(s) + 1] = session[s].call]
    /\ UNCHANGED <<chosen, auditTables, clock, calls>>

LastCandidate(s) ==
    /\ Sends(s, "insert_candidates")
    /\ Written(s) = session[s].count
    /\ Goes(s, session[s])
    /\ UNCHANGED <<chosen, auditTables, clock, calls>>

RecordsNow == {q \in Queries : query[q].kind = "record"}

\* A PostgreSQL statement works on the rows that it saw when it began, and on
\* what became of them while it waited; the others on the rows that are there
\* when they have their locks.
Snapshot(s, rows) ==
    /\ engine = "postgres"
    /\ session[s].begun = 0
    /\ clock' = clock + 1
    /\ session' = [session EXCEPT ![s].begun = clock + 1, ![s].targets = rows]
    /\ UNCHANGED <<chosen, auditTables, calls>>

MayRun(s) == Free(s) /\ (engine = "postgres" => session[s].begun # 0)
Seen(s, rows) == IF engine = "postgres" THEN rows \cap session[s].targets ELSE rows

DeleteRecords(s) ==
    /\ Sends(s, "delete_records")
    /\ MayRun(s)
    /\ Goes(s, [session[s] EXCEPT !.cleared = Seen(s, RecordsNow),
                                  !.held = Holding(s, Wants(s))])
    /\ UNCHANGED <<chosen, auditTables, clock, calls>>

\* mysql: the index records that the UPDATE found, and the gap after them.
RangeLocks(table) ==
    {<<"range", table>>} \cup {<<"rows", v.table>> : v \in RowsToDeactivate(table)}

\* Mutant: of several active rows the current one is deactivated.
DeactivateCurrent(s) ==
    /\ Sends(s, "deactivate")
    /\ MayRun(s)
    /\ Goes(s, [session[s] EXCEPT
                   !.off = Seen(s, {v.number : v \in {w \in RowsToDeactivate(session[s].method) :
                                                        IsCurrentVersion(w)}}),
                   !.held = Holding(s, IF engine = "postgres" THEN Wants(s)
                                       ELSE RangeLocks(session[s].method))])
    /\ UNCHANGED <<chosen, auditTables, clock, calls>>

\* UPDATE ... SET active = false.
Deactivate(s) ==
    /\ Sends(s, "deactivate")
    /\ MayRun(s)
    /\ Goes(s, [session[s] EXCEPT
                   !.off = Seen(s, Numbers(RowsToDeactivate(session[s].method))),
                   !.held = Holding(s, IF engine = "postgres" THEN Wants(s)
                                       ELSE RangeLocks(session[s].method))])
    /\ UNCHANGED <<chosen, auditTables, clock, calls>>

\* now() is the start of a PostgreSQL transaction, elsewhere the moment of the
\* INSERT.  The generation of a snapshot is the caller's to choose.
InsertVersion(s) ==
    LET table == session[s].method
    IN  /\ Sends(s, "insert_version")
        /\ Free(s)
        /\ clock' = clock + 1
        /\ Goes(s, [session[s] EXCEPT
                       !.held = Holding(s, {<<"rows", table>>}),
                       !.new = {[number |-> session[s].call, table |-> table,
                                 stamp |-> IF table = "snapshot" THEN session[s].count
                                           ELSE IF engine = "postgres"
                                                THEN session[s].begun ELSE clock + 1,
                                 active |-> session[s].active, before |-> session[s].before]}])
        /\ UNCHANGED <<chosen, auditTables, calls>>

Statement(s) ==
    \/ UpsertQuery(s) \/ DeleteCandidates(s) \/ InsertCandidate(s) \/ LastCandidate(s)
    \/ Sends(s, "delete_records") /\ Snapshot(s, RecordsNow)
    \/ Sends(s, "deactivate") /\ Snapshot(s, Numbers(RowsToDeactivate(session[s].method)))
    \/ DeleteRecords(s) \/ Deactivate(s) \/ InsertVersion(s)

AuditNext == \E s \in Sessions : Call(s) \/ Statement(s) \/ Commit(s) \/ Victim(s)

AuditSpec == AuditInit /\ [][AuditNext]_auditVars

(***************************************************************************)
(* Properties                                                              *)
(***************************************************************************)

QueryType == [kind : {"ABSENT", "event", "record"}, writer : 0..MaxCalls,
              count : 0..MaxRank]
VersionType == [number : 1..MaxCalls, table : VersionTables, stamp : Nat,
                active : BOOLEAN, before : SUBSET (0..MaxCalls)]

AuditTypeOK ==
    /\ engine \in Engines
    /\ family \in Families
    /\ query \in [Queries -> QueryType]
    /\ candidate \in [Queries -> [Ranks -> 0..MaxCalls]]
    /\ versions \in SUBSET VersionType
    /\ clock \in Nat
    /\ calls \in 0..MaxCalls
    /\ \A s \in Sessions : ~Busy(s) => session[s] = Idle

\* A query's candidates are those of the call that wrote the query, all of them
\* and no others, whichever calls wrote the same query_id at the same time.
CandidatesAreTheQuerys ==
    \A q \in Queries, r \in Ranks :
        candidate[q][r] = IF r <= query[q].count THEN query[q].writer ELSE 0

\* Whoever reads a threshold or a snapshot never gets one that was committed
\* already when a call began that has committed an active one since: of two
\* calls that follow one another the second one's is read, and a snapshot that
\* was inserted inactive in between changes nothing about it.
CurrentIsNotReplaced ==
    \A v \in versions :
        IsCurrentVersion(v) => \A w \in VersionsOf(v.table) : v.number \notin w.before
=============================================================================
