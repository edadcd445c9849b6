------------------------------ MODULE FileStores ------------------------------
(***************************************************************************)
(* The stores of the local runtime with file persistence: responses,       *)
(* vectors, query calibration records and thresholds, each one kept in     *)
(* memory and written as a whole to its JSON file after every change.      *)
(* atomic_write_json writes a temporary file and renames it; the process   *)
(* may crash anywhere and is started again over the files it left.         *)
(*                                                                         *)
(* The vector store is a dense matrix: a deleted row is taken by the last  *)
(* one.  One thread serves and another one, the fit, sets thresholds; two  *)
(* threads that persist the same store are outside of this module.  The    *)
(* store of shadow decisions is the one of the records over again.         *)
(***************************************************************************)
EXTENDS Integers, Sequences, FiniteSets

CONSTANTS
    KeyOrder,      \* the cache keys, in the order of their strings
    Embeddings,
    Similarity,    \* cosine similarity of two embeddings
    Namespaces,
    Thresholds,
    RecordLimits,  \* max_records of a configuration
    None,
    MaxChanges, MaxCrashes  \* bounds

Keys == {KeyOrder[i] : i \in DOMAIN KeyOrder}

ASSUME FileStoresAssumption ==
    /\ KeyOrder \in Seq(Keys) /\ Cardinality(Keys) = Len(KeyOrder)
    /\ Similarity \in [Embeddings \X Embeddings -> Nat]
    /\ None \notin Namespaces /\ None \notin Thresholds
    /\ RecordLimits \subseteq Nat \ {0}
    /\ MaxChanges \in Nat /\ MaxCrashes \in Nat

VARIABLES
    memory,    \* what the stores hold
    limit,     \* max_records of this process
    files,     \* the files by their names, and the temporary ones
    writers,   \* of each thread: changes to make, and the file it is writing
    process,   \* "down", "starting" or "up"
    log,       \* history: records whose add was persisted
    changes, crashes  \* counts, for the bounds

vars == <<memory, limit, files, writers, process, log, changes, crashes>>
counts == <<changes, crashes>>

Stores == {"responses", "vectors", "records", "thresholds"}
Threads == {"serving", "fit"}

(***************************************************************************)
(* InMemoryVectorStore.                                                    *)
(***************************************************************************)
NoEntry == [embedding |-> None, namespace |-> None]

\* entries is _entries, index is _key_to_idx with 0 for a key that it lacks,
\* rows the matrix, which keeps what it held beyond the last row.
EmptyMatrix ==
    [entries |-> [key \in Keys |-> NoEntry],
     index |-> [key \in Keys |-> 0],
     keys |-> <<>>,
     spaces |-> <<>>,
     rows |-> [i \in 1..Len(KeyOrder) |-> None]]

AddResult(store, key, entry) ==
    LET new == store.index[key] = 0
        row == IF new THEN Len(store.keys) + 1 ELSE store.index[key]
    IN  [entries |-> [store.entries EXCEPT ![key] = entry],
         index |-> [store.index EXCEPT ![key] = row],
         keys |-> IF new THEN Append(store.keys, key) ELSE store.keys,
         spaces |-> IF new THEN Append(store.spaces, entry.namespace)
                    ELSE [store.spaces EXCEPT ![row] = entry.namespace],
         rows |-> [store.rows EXCEPT ![row] = entry.embedding]]

\* Mutant: the namespace stays behind.
MoveRow(store, from, to) ==
    [store EXCEPT !.rows[to] = store.rows[from], !.keys[to] = store.keys[from],
                  !.index[store.keys[from]] = to]

MoveLast(store, from, to) ==
    [store EXCEPT !.rows[to] = store.rows[from], !.keys[to] = store.keys[from],
                  !.spaces[to] = store.spaces[from],
                  !.index[store.keys[from]] = to]

DeleteKey(store, key) ==
    LET row == store.index[key]
        last == Len(store.keys)
        gone == [store EXCEPT !.index[key] = 0, !.entries[key] = NoEntry]
        moved == IF row = last THEN gone ELSE MoveLast(gone, last, row)
    IN  IF row = 0 THEN store
        ELSE [moved EXCEPT !.keys = SubSeq(@, 1, last - 1),
                           !.spaces = SubSeq(@, 1, last - 1)]

\* The scores of a search: -1 for a row that the namespace masks.
RowScore(store, query, namespace, row) ==
    IF namespace \notin {None, store.spaces[row]} THEN -1
    ELSE Similarity[store.rows[row], query]

\* The keys that search may find: argpartition breaks ties as it likes.
SearchResults(store, query, namespace, k) ==
    LET count == Len(store.keys)
        Score(row) == RowScore(store, query, namespace, row)
        tops == {top \in SUBSET (1..count) :
                    /\ Cardinality(top) = IF k < count THEN k ELSE count
                    /\ \A i \in top, j \in (1..count) \ top : Score(i) >= Score(j)}
    IN  {{store.keys[row] : row \in {i \in top : Score(i) # -1}} : top \in tops}

(***************************************************************************)
(* The files.                                                              *)
(***************************************************************************)
Whole(data) == [whole |-> TRUE, data |-> data]

\* What read_json_or_default finds where there is no file.
NoData == [responses |-> {}, vectors |-> EmptyMatrix.entries, records |-> <<>>,
           thresholds |-> None]

Torn(store) == [whole |-> FALSE, data |-> NoData[store]]

Encode(store, stores) == IF store = "vectors" THEN stores.vectors.entries ELSE stores[store]

\* The records of the file are sorted by key.
DecodeVectors(entries) ==
    LET loaded[n \in 0..Len(KeyOrder)] ==
            IF n = 0 THEN EmptyMatrix
            ELSE IF entries[KeyOrder[n]] = NoEntry THEN loaded[n - 1]
            ELSE AddResult(loaded[n - 1], KeyOrder[n], entries[KeyOrder[n]])
    IN  loaded[Len(KeyOrder)]

\* Mutant: the oldest records are kept.
FirstRecords(records, max) == SubSeq(records, 1, IF Len(records) < max THEN Len(records) ELSE max)

LastRecords(records, max) ==
    IF Len(records) < max THEN records ELSE SubSeq(records, Len(records) - max + 1, Len(records))

Load(max) ==
    LET data == [store \in Stores |-> files.target[store].data]
    IN  [responses |-> data.responses,
         vectors |-> DecodeVectors(data.vectors),
         records |-> LastRecords(data.records, max),
         thresholds |-> data.thresholds]

(***************************************************************************)
(* Changes of a store, each of which is followed by _persist.              *)
(***************************************************************************)
AddRecord(records, record) ==
    Append(IF Len(records) >= limit THEN Tail(records) ELSE records, record)

Changed(change) ==
    CASE change.do = "set" -> [memory EXCEPT !.responses = @ \cup {change.key}]
      [] change.do = "delete" -> [memory EXCEPT !.responses = @ \ {change.key}]
      [] change.do = "upsert" -> [memory EXCEPT !.vectors = AddResult(@, change.key, change.entry)]
      [] change.do = "remove" -> [memory EXCEPT !.vectors = DeleteKey(@, change.key)]
      [] change.do = "add" -> [memory EXCEPT !.records = AddRecord(@, change.record)]
      [] change.do = "set_threshold" -> [memory EXCEPT !.thresholds = change.threshold]

StoreOf(change) ==
    CASE change.do \in {"set", "delete"} -> "responses"
      [] change.do \in {"upsert", "remove"} -> "vectors"
      [] change.do = "add" -> "records"
      [] change.do = "set_threshold" -> "thresholds"

Idle == [todo |-> <<>>, writing |-> FALSE, data |-> Whole(None)]

Init ==
    /\ memory = [NoData EXCEPT !.vectors = EmptyMatrix]
    /\ limit \in RecordLimits
    /\ files = [target |-> [store \in Stores |-> Whole(NoData[store])],
                tmp |-> [store \in Stores |-> Whole(NoData[store])]]
    /\ writers = [thread \in Threads |-> Idle]
    /\ process = "up"
    /\ log = <<>>
    /\ changes = 0 /\ crashes = 0

\* A call of a thread makes its changes one after the other.
Call(thread) ==
    /\ process = "up"
    /\ writers[thread] = Idle
    /\ changes < MaxChanges
    /\ changes' = changes + 1
    /\ UNCHANGED <<memory, limit, files, process, log, crashes>>

\* Mutant: the vector is indexed before its response is there.
IndexFirst(key, entry) ==
    <<[do |-> "upsert", key |-> key, entry |-> entry], [do |-> "set", key |-> key]>>

PutChanges(key, entry) ==
    <<[do |-> "set", key |-> key], [do |-> "upsert", key |-> key, entry |-> entry]>>

Put(key, entry) ==
    /\ Call("serving")
    /\ writers' = [writers EXCEPT !["serving"].todo = PutChanges(key, entry)]

\* Also what an eviction does.
Invalidate(key) ==
    /\ Call("serving")
    /\ writers' = [writers EXCEPT !["serving"].todo =
            <<[do |-> "remove", key |-> key], [do |-> "delete", key |-> key]>>]

AddQueryRecord ==
    /\ Call("serving")
    /\ writers' = [writers EXCEPT !["serving"].todo = <<[do |-> "add", record |-> changes + 1]>>]

SetThreshold(threshold) ==
    /\ Call("fit")
    /\ writers' = [writers EXCEPT !["fit"].todo =
            <<[do |-> "set_threshold", threshold |-> threshold]>>]

\* Mutant: what was there before the change is encoded.
EncodedBefore(store, after) == Encode(store, memory)

Encoded(store, after) == Encode(store, after)

Scratch == "tmp"

\* The change in memory; atomic_write_json encodes the store and begins to write
\* the temporary file.
Change(thread) ==
    LET writer == writers[thread]
        change == Head(writer.todo)
        store == StoreOf(change)
        after == Changed(change)
    IN  /\ ~writer.writing /\ writer.todo # <<>>
        /\ memory' = after
        /\ writers' = [writers EXCEPT ![thread] =
                [todo |-> writer.todo, writing |-> TRUE, data |-> Whole(Encoded(store, after))]]
        /\ files' = [files EXCEPT ![Scratch][store] = Torn(store)]
        /\ UNCHANGED <<limit, process, log, counts>>

\* The rest of the text, and os.replace, after which the change is made.
Replace(thread) ==
    LET writer == writers[thread]
        change == Head(writer.todo)
        store == StoreOf(change)
    IN  /\ writer.writing
        /\ files' = [files EXCEPT !.target[store] = writer.data, !.tmp[store] = Whole(NoData[store])]
        /\ writers' = [writers EXCEPT ![thread] = [Idle EXCEPT !.todo = Tail(writer.todo)]]
        /\ log' = IF change.do = "add" THEN Append(log, change.record) ELSE log
        /\ UNCHANGED <<memory, limit, process, counts>>

(***************************************************************************)
(* The process.                                                            *)
(***************************************************************************)
Crash ==
    /\ process # "down" /\ crashes < MaxCrashes
    /\ process' = "down"
    /\ crashes' = crashes + 1
    /\ memory' = [NoData EXCEPT !.vectors = EmptyMatrix]
    /\ writers' = [thread \in Threads |-> Idle]
    /\ UNCHANGED <<limit, files, log, changes>>

\* build_local_mlcache_runtime; a query-level threshold of the configuration
\* is set before anything is served.
Start(max, configured) ==
    /\ process = "down"
    /\ \A store \in Stores : files.target[store].whole
    /\ process' = "starting"
    /\ limit' = max
    /\ memory' = Load(max)
    /\ writers' = [writers EXCEPT !["serving"].todo =
            IF configured = None THEN <<>>
            ELSE <<[do |-> "set_threshold", threshold |-> configured]>>]
    /\ UNCHANGED <<files, log, counts>>

Started ==
    /\ process = "starting" /\ writers["serving"] = Idle
    /\ process' = "up"
    /\ UNCHANGED <<memory, limit, files, writers, log, counts>>

Entries == [embedding : Embeddings, namespace : Namespaces]

Calls ==
    \/ \E key \in Keys : (\E entry \in Entries : Put(key, entry)) \/ Invalidate(key)
    \/ AddQueryRecord
    \/ \E threshold \in Thresholds : SetThreshold(threshold)

Persists(thread) ==
    Change(thread) \/ Replace(thread)

Next ==
    \/ Calls
    \/ \E thread \in Threads : Persists(thread)
    \/ Crash
    \/ \E max \in RecordLimits, configured \in Thresholds \cup {None} : Start(max, configured)
    \/ Started

Spec == Init /\ [][Next]_vars

(***************************************************************************)
(* Properties.                                                             *)
(***************************************************************************)
Indexed(entries) == {key \in Keys : entries[key] # NoEntry}

Matrices ==
    [entries : [Keys -> Entries \cup {NoEntry}],
     index : [Keys -> 0..Len(KeyOrder)],
     keys : Seq(Keys), spaces : Seq(Namespaces),
     rows : [1..Len(KeyOrder) -> Embeddings \cup {None}]]

TypeOK ==
    /\ memory.responses \subseteq Keys
    /\ memory.vectors \in Matrices
    /\ memory.records \in Seq(Nat) /\ log \in Seq(Nat)
    /\ memory.thresholds \in Thresholds \cup {None}
    /\ limit \in RecordLimits
    /\ DOMAIN files = {"target", "tmp"}
    /\ \A thread \in Threads : writers[thread].writing \in BOOLEAN
    /\ process \in {"down", "starting", "up"}
    /\ changes \in 0..MaxChanges /\ crashes \in 0..MaxCrashes

\* What a call has returned for survives: while no thread has a change to
\* finish, a process that starts with the same configuration loads what this
\* one holds, the entries of the matrix included.
ReturnedSurvives ==
    (process = "up" /\ \A thread \in Threads : writers[thread] = Idle) =>
        LET loaded == Load(limit)
        IN  /\ loaded.vectors.entries = memory.vectors.entries
            /\ [loaded EXCEPT !.vectors = memory.vectors] = memory

\* The order of put and invalidate keeps the two files consistent: after a
\* crash at any moment every vector that a search may find has its response.
IndexedHasResponse ==
    /\ Indexed(files.target.vectors.data) \subseteq files.target.responses.data
    /\ Indexed(memory.vectors.entries) \subseteq memory.responses

\* The matrix answers for the entries, whatever rows were moved by deletions or
\* loaded in another order: a search finds the most similar entries of the
\* namespace and as many of them as there are, up to top_k.
SearchIsNearest ==
    \A query \in Embeddings, namespace \in Namespaces \cup {None}, k \in 1..Len(KeyOrder) :
        LET entries == memory.vectors.entries
            all == {key \in Indexed(entries) :
                       namespace \in {None, entries[key].namespace}}
        IN  \A found \in SearchResults(memory.vectors, query, namespace, k) :
                /\ found \subseteq all
                /\ Cardinality(found) = IF k < Cardinality(all) THEN k ELSE Cardinality(all)
                /\ \A a \in found, b \in all \ found :
                      Similarity[entries[a].embedding, query]
                         >= Similarity[entries[b].embedding, query]

\* The bounded store forgets from the oldest record on, over restarts with
\* other limits too: it holds the latest of the records whose add returned.
RecordsAreLatest ==
    (process = "up" /\ writers["serving"] = Idle) =>
        /\ Len(memory.records) <= limit
        /\ memory.records = LastRecords(log, Len(memory.records))
=============================================================================
