------------------------------ MODULE SqlReads ------------------------------
(***************************************************************************)
(* What the SQL repositories read.  Each method is one SELECT, so it is a  *)
(* function of the committed rows; where the engines differ a method has   *)
(* one definition for each.  A table is a set of rows, a row a record of   *)
(* the columns that a WHERE, an ORDER BY or the caller looks at, and a     *)
(* result or a number that may be None a set of at most one.               *)
(*                                                                         *)
(* A time is a number, 0 for NULL.  A read is made at three moments, in    *)
(* this order: called, when the method begins; begun, when its transaction *)
(* does; sent, when the database gets the statement.                       *)
(***************************************************************************)
EXTENDS Integers, Sequences, FiniteSets

LOCAL INSTANCE SequencesExt

Null == "NULL"

First(rows, before(_, _)) ==
    {r \in rows : \A s \in rows \ {r} : before(r, s)}

(***************************************************************************)
(* Entries                                                                 *)
(***************************************************************************)

\* _response_from_payload: the first column that is not NULL.  A row without a
\* payload has none of them (LEFT JOIN).
ResponseFromPayload(payload) ==
    IF payload.response_text # Null THEN payload.response_text
    ELSE IF payload.payload_json # Null THEN payload.payload_json
    ELSE payload.payload_bytes

NoPayload == [response_text |-> Null, payload_json |-> Null, payload_bytes |-> Null]

PayloadOf(db, row) ==
    IF row.cache_key \in DOMAIN db.payloads THEN db.payloads[row.cache_key] ELSE NoPayload

\* _row_to_vector_result.
RowToVectorResult(db, row, score) ==
    [cache_key |-> row.cache_key, faiss_id |-> row.faiss_id, score |-> score,
     response |-> ResponseFromPayload(PayloadOf(db, row))]

Served(row, now) == row.status = "ACTIVE" /\ (row.expires_at = 0 \/ row.expires_at > now)

VectorResults(db, key, require_active, now) ==
    {RowToVectorResult(db, row, 1) :
        row \in {r \in db.entries : r.cache_key = key /\ (require_active => Served(r, now))}}

\* now() is the time at which the transaction began; CURRENT_TIMESTAMP that of
\* the statement; _sqlite_now is read by the caller, before it connects.
PostgresGetVectorResult(db, key, require_active, read) ==
    VectorResults(db, key, require_active, read.begun)

MySQLGetVectorResult(db, key, require_active, read) ==
    VectorResults(db, key, require_active, read.sent)

SQLiteGetVectorResult(db, key, require_active, read) ==
    VectorResults(db, key, require_active, read.called)

PostgresGetIndexableEntryByFaissId(db, id) ==
    {RowToVectorResult(db, row, 1) :
        row \in {r \in db.entries : r.faiss_id = id /\ r.status = "PENDING_INDEX"}}

MySQLGetIndexableEntryByFaissId(db, id) ==
    {RowToVectorResult(db, row, 1) :
        row \in {r \in db.entries : r.status = "PENDING_INDEX" /\ r.faiss_id = id}}

\* A namespace that is given goes before that of the metadata.
Scope(namespace, metadata) ==
    [metadata EXCEPT !.namespace = IF namespace # Null THEN namespace ELSE @]

InScope(row, scope) == \A c \in DOMAIN scope : scope[c] \in {Null, row[c]}

\* The rows come back in any order; the results in that of the ids asked for, an
\* id without a row passed over, an id asked for twice with its last score.
ResultsInOrder(db, rows, faiss_scores) ==
    LET rowOf(id) == {r \in rows : r.faiss_id = id}
        score(id) == faiss_scores[SelectLastInSeq(faiss_scores, LAMBDA a : a.id = id)].score
        found == SelectSeq(faiss_scores, LAMBDA a : rowOf(a.id) # {})
    IN  [i \in 1..Len(found) |->
            RowToVectorResult(db, CHOOSE r \in rowOf(found[i].id) : TRUE, score(found[i].id))]

AskedFor(row, faiss_scores) == \E i \in 1..Len(faiss_scores) : faiss_scores[i].id = row.faiss_id

PostgresFetchActiveResultsByFaissIds(db, faiss_scores, namespace, metadata, read) ==
    ResultsInOrder(db, {r \in db.entries : /\ AskedFor(r, faiss_scores)
                                           /\ Served(r, read.begun)
                                           /\ InScope(r, Scope(namespace, metadata))},
                   faiss_scores)

MySQLFetchActiveResultsByFaissIds(db, faiss_scores, namespace, metadata, read) ==
    ResultsInOrder(db, {r \in db.entries : /\ AskedFor(r, faiss_scores)
                                           /\ Served(r, read.sent)
                                           /\ InScope(r, Scope(namespace, metadata))},
                   faiss_scores)

(***************************************************************************)
(* The outbox                                                              *)
(***************************************************************************)

FirstEvents(events, limit) ==
    {e \in events : Cardinality({f \in events : f.event_id < e.event_id}) < limit}

\* FOR UPDATE SKIP LOCKED: the events another transaction holds are passed over.
\* The locks are gone when the method returns, whose connection ends with it.
PostgresPendingOutboxEvents(events, locked, limit) ==
    FirstEvents({e \in events : ~e.processed /\ e.event_id \notin locked}, limit)

MySQLPendingOutboxEvents(events, locked, limit) ==
    FirstEvents({e \in events : e.event_id \notin locked /\ ~e.processed}, limit)

(***************************************************************************)
(* Versions                                                                *)
(***************************************************************************)

Later(v, w) ==
    v.created_at > w.created_at \/ (v.created_at = w.created_at /\ v.id > w.id)

SQLiteLatestActiveSnapshot(snapshots, shard) ==
    First({v \in snapshots : v.shard_id = shard /\ v.active}, Later)

MySQLLatestActiveSnapshot(snapshots, shard) ==
    First({v \in snapshots : v.active /\ v.shard_id = shard}, Later)

\* No condition on the region and the cluster.
SQLiteGetActiveThresholdVersionId(rows, scorer, scope) ==
    IF scorer = Null THEN {}
    ELSE First({v \in rows : v.active /\ v.scorer = scorer /\ v.scope = scope}, Later)

MySQLGetActiveThresholdVersionId(rows, scorer, scope) ==
    IF scorer = Null THEN {}
    ELSE First({v \in rows : v.scorer = scorer /\ v.scope = scope /\ v.active}, Later)

\* A region that is NULL is not any region.  KeyError without a row.
SQLiteGetThreshold(rows, scorer, scope, region, cluster) ==
    First({v \in rows : /\ v.active
                        /\ <<v.scorer, v.scope, v.region, v.cluster>>
                           = <<scorer, scope, region, cluster>>}, Later)

(***************************************************************************)
(* Calibration records                                                     *)
(***************************************************************************)

\* LIMIT after ORDER BY created_at: of rows of the same time, any.
NewestOf(rows, limit) ==
    {s \in SUBSET rows :
        /\ \A r \in s, t \in rows \ s : r.created_at >= t.created_at
        /\ Cardinality(s) = IF Cardinality(rows) < limit THEN Cardinality(rows) ELSE limit}

OldestFirst(rows) ==
    {s \in SetToSeqs(rows) :
        \A i, j \in 1..Len(s) : i < j => s[i].created_at <= s[j].created_at}

\* A candidate without a score of the scorer has that of the search, or 0.
RecordedScore(c) ==
    LET value == IF c.scorer_score # {} THEN c.scorer_score ELSE c.vector_score
    IN  IF value = {} THEN 0 ELSE CHOOSE score \in value : TRUE

CandidatesByRank(candidates, q) ==
    LET byRank == SetToSortSeq({c \in candidates : c.query_id = q},
                               LAMBDA c, d : c.candidate_rank < d.candidate_rank)
    IN  [i \in 1..Len(byRank) |->
            [candidate_rank |-> byRank[i].candidate_rank, score |-> RecordedScore(byRank[i]),
             label |-> byRank[i].label]]

Recorded(events) == {e \in events : e.decision_status = "CALIBRATION_RECORD"}

RecordsWith(candidates, rows) ==
    [i \in 1..Len(rows) |->
        [query_id |-> rows[i].query_id,
         candidates |-> CandidatesByRank(candidates, rows[i].query_id)]]

\* The results the statement may have.
PostgresQueryCalibrationRecords(events, candidates, max_records) ==
    {RecordsWith(candidates, rows) :
        rows \in UNION {OldestFirst(s) : s \in NewestOf(Recorded(events), max_records)}}

MySQLQueryCalibrationRecords(events, candidates, max_records) ==
    UNION {{RecordsWith(candidates, rows) : rows \in OldestFirst(s)} :
              s \in NewestOf(Recorded(events), max_records)}

SQLiteQueryCalibrationRecords(events, candidates, max_records) ==
    UNION {{RecordsWith(candidates, rows) : rows \in OldestFirst(s)} :
              s \in NewestOf(Recorded(events), max_records)}

(***************************************************************************)
(* Feedback pairs                                                          *)
(***************************************************************************)

\* _encode_judged_pair_metadata and the columns; _row_to_judged_pair.  A query
\* that is missing is empty.
EncodeJudgedPair(example) ==
    [query |-> example.query, candidate_query |-> example.candidate_query,
     confidence |-> example.confidence]

RowToJudgedPair(row) ==
    [label |-> IF row.label = 1 THEN "REUSABLE" ELSE "NOT_REUSABLE",
     query |-> IF row.metadata.query = Null THEN "" ELSE row.metadata.query,
     candidate_query |-> row.metadata.candidate_query,
     confidence |-> row.metadata.confidence, created_at |-> row.created_at]

\* _query_uuid: an id that is not a UUID is named by one of its own.
QueryUuid(id, uuids) ==
    [kind |-> IF id \in {Null, ""} THEN "none" ELSE IF id \in uuids THEN "uuid" ELSE "uuid5",
     of |-> IF id \in {Null, ""} THEN "" ELSE id]

InsertPair(rows, example, split) ==
    rows \cup {[pair_id |-> Cardinality(rows) + 1,
                label |-> IF example.label = "REUSABLE" THEN 1 ELSE 0, split_name |-> split,
                created_at |-> example.created_at, metadata |-> EncodeJudgedPair(example)]}

\* An uncertain label is no pair.
PostgresAddFeedbackPair(rows, example, split) ==
    IF example.label = "UNCERTAIN" THEN rows ELSE InsertPair(rows, example, split)

MySQLAddFeedbackPair(rows, example, split) ==
    IF example.label # "UNCERTAIN" THEN InsertPair(rows, example, split) ELSE rows

SQLiteAddFeedbackPair(rows, example, split) ==
    IF example.label # "UNCERTAIN" THEN InsertPair(rows, example, split) ELSE rows

InTheOrderJudged(rows) ==
    LET sorted == SetToSortSeq(rows, LAMBDA r, s :
                        \/ r.created_at < s.created_at
                        \/ r.created_at = s.created_at /\ r.pair_id < s.pair_id)
    IN  [i \in 1..Len(sorted) |-> RowToJudgedPair(sorted[i])]

\* Without a split_name the rows of every split are read; NULL is a split.
Unset == "UNSET"

PostgresFeedbackPairs(rows, label, split) ==
    InTheOrderJudged({r \in rows : r.label = label /\ split \in {Unset, r.split_name}})

MySQLFeedbackPairs(rows, label, split) ==
    InTheOrderJudged({r \in rows : split \in {Unset, r.split_name} /\ r.label = label})

SQLiteFeedbackPairs(rows, label, split) ==
    InTheOrderJudged({r \in rows : split \in {Unset, r.split_name} /\ r.label = label})

(***************************************************************************)
(* What an event says of its candidates                                    *)
(***************************************************************************)

\* _candidate_evidence: those of the evidence, ranked by their place if they are
\* not ranked, those that are no dictionary left out; without any, the candidate
\* that was decided on.
CandidateEvidence(decision) ==
    LET items == decision.evidence
        ranked == [i \in 1..Len(items) |->
                      [items[i] EXCEPT !.rank = IF @ = {} THEN {i} ELSE @]]
    IN  IF decision.has_evidence THEN SelectSeq(ranked, LAMBDA c : c.is_dictionary)
        ELSE IF decision.cache_key = Null THEN <<>>
        ELSE <<[cache_key |-> decision.cache_key, is_dictionary |-> TRUE,
                rank |-> IF decision.accepted_rank \in {{}, {0}} THEN {1}
                         ELSE decision.accepted_rank]>>
=============================================================================
