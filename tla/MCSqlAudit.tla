----------------------------- MODULE MCSqlAudit -----------------------------
(***************************************************************************)
(* Instances of SqlAudit for TLC, and what SqlReads says on small tables.  *)
(***************************************************************************)
EXTENDS SqlAudit, SqlReads

CONSTANTS session_1, session_2

MCQueries == {1, 2}
MCSessions == {session_1, session_2}

(***************************************************************************)
(* Small tables                                                            *)
(***************************************************************************)

Metadata(namespace, model) == [namespace |-> namespace, model |-> model]

EntryRow(id, status, expires, namespace) ==
    [cache_key |-> id, faiss_id |-> id, status |-> status, expires_at |-> expires,
     namespace |-> namespace, model |-> "model"]

Payload(text, json) ==
    [response_text |-> text, payload_json |-> json, payload_bytes |-> Null]

Databases ==
    {[entries |-> {EntryRow(1, s, e, "a"), EntryRow(2, "ACTIVE", 0, n)},
      payloads |-> p] :
        s \in {"ACTIVE", "PENDING_INDEX", "TOMBSTONED"}, e \in 0..3, n \in {"a", "b"},
        p \in {<<Payload("text", Null)>>, <<Payload(Null, "json"), Payload("text", "json")>>}}

Moments == {[called |-> 1, begun |-> 1, sent |-> 2], [called |-> 1, begun |-> 2, sent |-> 3]}

Asked == UNION {[1..n -> [id : 1..3, score : {1, 2}]] : n \in 0..3}

Reads(db, key, read) ==
    {PostgresGetVectorResult(db, key, TRUE, read), MySQLGetVectorResult(db, key, TRUE, read),
     SQLiteGetVectorResult(db, key, TRUE, read)}

\* No engine returns an entry that had expired when it was asked, and every engine
\* returns one that has not expired when the statement runs: which clock an engine
\* reads matters only to an entry that expires meanwhile.
ASSUME ExpiredIsNotRead ==
    \A db \in Databases, read \in Moments, key \in {1, 2} :
        \A row \in {r \in db.entries : r.cache_key = key} :
            /\ ~Served(row, read.called) => Reads(db, key, read) = {{}}
            /\ Served(row, read.sent) => {} \notin Reads(db, key, read)

\* The results of a search are in the order of the search, of active entries in the
\* scope alone, each once for every time it was found.
ASSUME ResultsAreSearched ==
    \A db \in Databases, asked \in Asked, namespace \in {Null, "a"}, of \in {Null, "b"} :
        \A read \in Moments :
            LET results == MySQLFetchActiveResultsByFaissIds(
                               db, asked, namespace, Metadata(of, Null), read)
                wanted == IF namespace # Null THEN namespace ELSE of
            IN  /\ \A i \in 1..Len(results) :
                      \E row \in db.entries :
                          /\ row.faiss_id = results[i].faiss_id
                          /\ row.status = "ACTIVE"
                          /\ wanted \in {Null, row.namespace}
                /\ \E place \in [1..Len(results) -> 1..Len(asked)] :
                      /\ \A i, j \in 1..Len(results) : i < j => place[i] < place[j]
                      /\ \A i \in 1..Len(results) : results[i].faiss_id = asked[place[i]].id

\* An entry is indexed or served, never both.
ASSUME IndexableIsNotServed ==
    \A db \in Databases, read \in Moments, id \in {1, 2} :
        \/ PostgresGetIndexableEntryByFaissId(db, id) = {}
        \/ PostgresFetchActiveResultsByFaissIds(
               db, <<[id |-> id, score |-> 1]>>, Null, Metadata(Null, Null), read) = <<>>

Outboxes == {{[event_id |-> i, processed |-> i \in done] : i \in 1..4} : done \in SUBSET (1..4)}
EventIds(events) == {e.event_id : e \in events}

\* Two indexers that poll in one moment share the events, the earliest first; the
\* second to poll after the first has returned gets the same ones.
ASSUME PollsShareTheOutbox ==
    \A events \in Outboxes, limit \in 1..4, other \in 1..4 :
        LET one == PostgresPendingOutboxEvents(events, {}, limit)
            two == MySQLPendingOutboxEvents(events, EventIds(one), other)
            left == {e \in events : ~e.processed} \ (one \cup two)
        IN  /\ one \cap two = {}
            /\ \A e \in one \cup two, f \in left : e.event_id < f.event_id
            /\ MySQLPendingOutboxEvents(events, {}, limit) = one

VersionRows ==
    {{[id |-> i, created_at |-> at[i], active |-> on[i], scorer |-> "cosine",
       scope |-> "GLOBAL", region |-> of[i], cluster |-> Null] : i \in 1..3} :
        at \in [1..3 -> 1..2], on \in [1..3 -> BOOLEAN], of \in [1..3 -> {Null, "region"}]}

\* The version an event names is that of the threshold that is read, as long as no
\* region has one of its own; a region's version, if it is newer, is named for
\* every event.
ASSUME EventNamesItsThreshold ==
    \A rows \in VersionRows :
        LET version == SQLiteGetActiveThresholdVersionId(rows, "cosine", "GLOBAL")
            threshold == SQLiteGetThreshold(rows, "cosine", "GLOBAL", Null, Null)
        IN  (\A v \in version : v.region = Null) => version = threshold

SnapshotRows ==
    {{[id |-> i, created_at |-> g[i], active |-> on[i], shard_id |-> of[i]] : i \in 1..3} :
        g \in [1..3 -> 1..2], on \in [1..3 -> BOOLEAN], of \in [1..3 -> {"one", "two"}]}

\* A shard that has an active snapshot has exactly one latest, its own.
ASSUME SnapshotIsTheShards ==
    \A rows \in SnapshotRows, shard \in {"one", "two"} :
        LET latest == MySQLLatestActiveSnapshot(rows, shard)
        IN  /\ latest = SQLiteLatestActiveSnapshot(rows, shard)
            /\ Cardinality(latest) =
                  IF \E v \in rows : v.active /\ v.shard_id = shard THEN 1 ELSE 0

EventRows ==
    {{[query_id |-> i, created_at |-> at[i], decision_status |-> of[i]] : i \in 1..3} :
        at \in [1..3 -> 1..2], of \in [1..3 -> {"CALIBRATION_RECORD", "REUSE"}]}

CandidateRows ==
    {[query_id |-> q, candidate_rank |-> r, label |-> "REUSABLE",
      scorer_score |-> IF q = 1 THEN {q + r} ELSE {}, vector_score |-> {r}] :
        q \in 1..2, r \in 1..2}

\* The records read are as many as there may be, none older than one left out; a
\* query that shares its time with another keeps its own candidates, by rank.
ASSUME RecordsAreTheLatest ==
    \A events \in EventRows, limit \in 1..3 :
        \A records \in SQLiteQueryCalibrationRecords(events, CandidateRows, limit) :
            LET written == Recorded(events)
                read == {records[i].query_id : i \in 1..Len(records)}
            IN  /\ Cardinality(read) = Len(records)
                /\ Len(records) = limit \/ read = {e.query_id : e \in written}
                /\ \A e, f \in written :
                      e.query_id \in read /\ f.query_id \notin read
                      => e.created_at >= f.created_at
                /\ \A i \in 1..Len(records) :
                      [j \in 1..Len(records[i].candidates) |->
                           records[i].candidates[j].candidate_rank]
                      = IF records[i].query_id = 3 THEN <<>> ELSE <<1, 2>>

Examples ==
    [label : {"REUSABLE", "NOT_REUSABLE", "UNCERTAIN"}, created_at : {1, 2},
     query : {"text"}, candidate_query : {Null}, confidence : {Null}]

Splits == {Null, "train", "calibration"}

Added == {PostgresAddFeedbackPair(PostgresAddFeedbackPair({}, e, s), f, t) :
             e \in Examples, f \in Examples, s \in Splits, t \in Splits}

\* A pair that was judged certainly is read once, with the label it was judged
\* with, by the store of its split; the store that knows no splits reads them all.
ASSUME PairsAreReadOnce ==
    \A rows \in Added :
        /\ \A label \in {0, 1} :
              Len(SQLiteFeedbackPairs(rows, label, Unset)) =
              Len(SQLiteFeedbackPairs(rows, label, Null))
              + Len(SQLiteFeedbackPairs(rows, label, "train"))
              + Len(SQLiteFeedbackPairs(rows, label, "calibration"))
        /\ Len(SQLiteFeedbackPairs(rows, 0, Unset)) + Len(SQLiteFeedbackPairs(rows, 1, Unset))
           = Cardinality(rows)
        /\ \A i \in 1..Len(SQLiteFeedbackPairs(rows, 0, Unset)) :
              SQLiteFeedbackPairs(rows, 0, Unset)[i].label = "NOT_REUSABLE"

\* The engines store and read pairs, records and versions alike.
ASSUME EnginesAgree ==
    /\ \A e \in Examples, s \in Splits :
          /\ PostgresAddFeedbackPair({}, e, s) = MySQLAddFeedbackPair({}, e, s)
          /\ MySQLAddFeedbackPair({}, e, s) = SQLiteAddFeedbackPair({}, e, s)
    /\ \A rows \in Added, label \in {0, 1}, split \in Splits \cup {Unset} :
          /\ PostgresFeedbackPairs(rows, label, split) = MySQLFeedbackPairs(rows, label, split)
          /\ MySQLFeedbackPairs(rows, label, split) = SQLiteFeedbackPairs(rows, label, split)
    /\ \A events \in EventRows, limit \in 1..3 :
          /\ PostgresQueryCalibrationRecords(events, CandidateRows, limit)
             = MySQLQueryCalibrationRecords(events, CandidateRows, limit)
          /\ MySQLQueryCalibrationRecords(events, CandidateRows, limit)
             = SQLiteQueryCalibrationRecords(events, CandidateRows, limit)
    /\ \A rows \in VersionRows :
          MySQLGetActiveThresholdVersionId(rows, "cosine", "GLOBAL")
          = SQLiteGetActiveThresholdVersionId(rows, "cosine", "GLOBAL")

Evidence == UNION {[1..n -> [cache_key : {"key"}, is_dictionary : BOOLEAN, rank : {{}}]] :
                      n \in 0..3}

\* Candidates that come without ranks get different ones, which query_candidates
\* needs: its key is the query and the rank.
ASSUME RanksDiffer ==
    \A items \in Evidence :
        LET rows == CandidateEvidence([has_evidence |-> TRUE, evidence |-> items,
                                       cache_key |-> "key", accepted_rank |-> {}])
        IN  \A i, j \in 1..Len(rows) : rows[i].rank = rows[j].rank => i = j

\* Two ids name one row only if they are one id, or both name none.
ASSUME IdsAreKeptApart ==
    \A one, two \in {Null, "", "id", "uuid"} :
        QueryUuid(one, {"uuid"}) = QueryUuid(two, {"uuid"})
        => one = two \/ {one, two} = {Null, ""}
=============================================================================
