-------------------------- MODULE FileStores_proofs --------------------------
(***************************************************************************)
(* Theorems about FileStores, for any keys in any order, embeddings,       *)
(* similarities, namespaces, limits and bounds: whatever a call returned   *)
(* for is loaded by the next process, no vector is on file without its     *)
(* response, a search answers for the entries, and the records kept are    *)
(* the latest.                                                             *)
(***************************************************************************)
EXTENDS FileStores, FiniteSetTheorems, SequenceTheorems, WellFoundedInduction,
        TLAPS

(***************************************************************************)
(* The inductive invariant                                                 *)
(***************************************************************************)

EntriesOf == [Keys -> Entries \cup {NoEntry}]
Limits == Thresholds \cup {None}

\* What each file holds, by the store it belongs to.
OnFile(store) == files.target[store].data

MemoryType ==
  [responses : SUBSET Keys, vectors : Matrices, records : Seq(Nat), thresholds : Limits]

Typed ==
  /\ memory \in MemoryType
  /\ limit \in RecordLimits
  /\ DOMAIN files = {"target", "tmp"} /\ DOMAIN files.target = Stores
  /\ OnFile("responses") \in SUBSET Keys
  /\ OnFile("vectors") \in EntriesOf
  /\ OnFile("records") \in Seq(Nat)
  /\ OnFile("thresholds") \in Limits
  /\ DOMAIN writers = Threads
  /\ \A thread \in Threads :
        /\ DOMAIN writers[thread] = {"todo", "writing", "data"}
        /\ writers[thread].writing \in BOOLEAN
  /\ process \in {"down", "starting", "up"}
  /\ log \in Seq(Nat)
  /\ changes \in 0..MaxChanges /\ crashes \in 0..MaxCrashes

\* The rows of the matrix are the entries, each at the index of its key.
GoodMatrix(store) ==
  /\ store \in Matrices
  /\ Len(store.keys) <= Len(KeyOrder) /\ Len(store.spaces) = Len(store.keys)
  /\ \A key \in Keys :
        IF store.entries[key] = NoEntry THEN store.index[key] = 0
        ELSE /\ store.index[key] \in 1..Len(store.keys)
             /\ store.keys[store.index[key]] = key
             /\ store.spaces[store.index[key]] = store.entries[key].namespace
             /\ store.rows[store.index[key]] = store.entries[key].embedding
  /\ \A row \in 1..Len(store.keys) : store.index[store.keys[row]] = row

\* What is left of a call of the serving thread.
SetOf(key) == [do |-> "set", key |-> key]
UpsertOf(key, entry) == [do |-> "upsert", key |-> key, entry |-> entry]
RemoveOf(key) == [do |-> "remove", key |-> key]
DeleteOf(key) == [do |-> "delete", key |-> key]
AddOf(record) == [do |-> "add", record |-> record]
ThresholdOf(threshold) == [do |-> "set_threshold", threshold |-> threshold]

\* The vector of a put waits for its response, the response of an invalidation
\* for its vector to be gone.
ServingTodo(todo, writing) ==
  \/ \E key \in Keys, entry \in Entries :
        todo = <<SetOf(key), UpsertOf(key, entry)>> /\ (writing => key \in memory.responses)
  \/ \E key \in Keys, entry \in Entries : todo = <<UpsertOf(key, entry)>> /\ key \in memory.responses
  \/ \E key \in Keys :
        /\ todo = <<RemoveOf(key), DeleteOf(key)>>
        /\ writing => memory.vectors.entries[key] = NoEntry
  \/ \E key \in Keys : todo = <<DeleteOf(key)>> /\ memory.vectors.entries[key] = NoEntry
  \/ \E record \in 1..MaxChanges : todo = <<AddOf(record)>>

SetsThreshold(todo) == \E threshold \in Thresholds : todo = <<ThresholdOf(threshold)>>

Todos ==
  /\ \/ writers["serving"].todo = <<>>
     \/ process = "up" /\ ServingTodo(writers["serving"].todo, writers["serving"].writing)
     \/ process = "starting" /\ SetsThreshold(writers["serving"].todo)
  /\ \/ writers["fit"].todo = <<>>
     \/ process = "up" /\ SetsThreshold(writers["fit"].todo)
  /\ \A thread \in Threads : writers[thread].writing => writers[thread].todo # <<>>

Writes(thread, store) ==
  writers[thread].writing /\ StoreOf(Head(writers[thread].todo)) = store

\* A file that nobody writes holds what the store holds; the records may be cut
\* to the limit of this process.
Saved(store) ==
  IF store = "records" THEN memory.records = LastRecords(OnFile("records"), limit)
  ELSE OnFile(store) = Encode(store, memory)

FilesFollow ==
  /\ \A store \in Stores : files.target[store].whole
  /\ process # "down" =>
       \A store \in Stores : (\A thread \in Threads : ~Writes(thread, store)) => Saved(store)
  /\ \A thread \in Threads, store \in Stores :
        Writes(thread, store) => writers[thread].data = Whole(Encode(store, memory))

\* The records are the end of the log; of one that is being added, of the log
\* that it will make.
Ends(records, all) ==
  /\ Len(records) <= Len(all)
  /\ \A i \in 1..Len(records) : records[i] = all[Len(all) - Len(records) + i]

RecordsFollow ==
  /\ Ends(OnFile("records"), log)
  /\ Len(memory.records) <= limit
  /\ Writes("serving", "records") =>
        Ends(memory.records, Append(log, Head(writers["serving"].todo).record))

IInv ==
  /\ Typed
  /\ GoodMatrix(memory.vectors)
  /\ Todos
  /\ FilesFollow
  /\ RecordsFollow
  /\ IndexedHasResponse

(***************************************************************************)
(* The matrix                                                              *)
(***************************************************************************)

\* A set of numbers that has 0, and with a number the next one, has them all:
\* the least initial segment with an end outside of it could not be.
LEMMA SetInduction ==
  ASSUME NEW S, 0 \in S, \A n \in Nat : n \in S => n + 1 \in S
  PROVE  Nat \subseteq S
  <1> DEFINE R == StrictSubsetOrdering(Nat)
             Outside == {0..n : n \in Nat \ S}
  <1>1. IsWellFoundedOn(R, FiniteSubsetsOf(Nat))
    BY FS_StrictSubsetOrderingWellFounded
  <1>2. Outside \subseteq FiniteSubsetsOf(Nat)
    <2> SUFFICES ASSUME NEW n \in Nat PROVE 0..n \in FiniteSubsetsOf(Nat)
      OBVIOUS
    <2> QED BY FS_Interval DEF FiniteSubsetsOf
  <1> SUFFICES ASSUME Outside # {} PROVE FALSE
    OBVIOUS
  <1>3. PICK x \in Outside : \A y \in Outside : ~ (<<y, x>> \in R)
    <2> HIDE DEF R, Outside
    <2> QED BY <1>1, <1>2, WFMin
  <1>4. PICK n \in Nat \ S : x = 0..n
    BY <1>3
  <1>5. n - 1 \in Nat \ S
    OBVIOUS
  <1>6. 0..n - 1 \in Outside
    BY <1>5
  <1>7. 0..n - 1 \subseteq 0..n /\ 0..n - 1 # 0..n /\ 0..n \subseteq Nat
    <2>1. n \in 0..n /\ n \notin 0..n - 1
      BY <1>5
    <2> QED BY <1>5, <2>1
  <1>8. <<0..n - 1, 0..n>> \in R
    BY <1>7 DEF StrictSubsetOrdering
  <1> QED BY <1>3, <1>4, <1>6, <1>8

\* One row of a file after the other.
DecodeStep(entries, loaded, n) ==
  IF n = 0 THEN EmptyMatrix
  ELSE IF entries[KeyOrder[n]] = NoEntry THEN loaded[n - 1]
  ELSE AddResult(loaded[n - 1], KeyOrder[n], entries[KeyOrder[n]])

Decodes(entries, loaded, max) == loaded = [n \in 0..max |-> DecodeStep(entries, loaded, n)]

\* The recursion has a solution: one up to a row is continued by the next.
LEMMA DecodeExists ==
  ASSUME NEW entries
  PROVE  \A max \in Nat : \E loaded : Decodes(entries, loaded, max)
  <1> DEFINE S == {max \in Nat : \E loaded : Decodes(entries, loaded, max)}
  <1>1. 0 \in S
    <2> DEFINE f == [n \in 0..0 |-> EmptyMatrix]
    <2>1. f = [n \in 0..0 |-> DecodeStep(entries, f, n)]
      BY DEF DecodeStep
    <2> QED BY <2>1 DEF Decodes
  <1>2. ASSUME NEW max \in Nat, max \in S PROVE max + 1 \in S
    <2>1. PICK f : Decodes(entries, f, max)
      BY <1>2
    <2> DEFINE g == [n \in 0..max + 1 |->
                       IF n <= max THEN f[n] ELSE DecodeStep(entries, f, n)]
    <2>2. ASSUME NEW n \in 0..max + 1
          PROVE  g[n] = DecodeStep(entries, g, n)
      <3>1. n = 0 \/ n - 1 \in 0..max
        OBVIOUS
      <3>2. DecodeStep(entries, g, n) = DecodeStep(entries, f, n)
        BY <3>1 DEF DecodeStep
      <3>3. n <= max => f[n] = DecodeStep(entries, f, n)
        BY <2>1 DEF Decodes
      <3> QED BY <3>2, <3>3
    <2>3. g = [n \in 0..max + 1 |-> DecodeStep(entries, g, n)]
      BY <2>2
    <2>4. Decodes(entries, g, max + 1)
      BY <2>3 DEF Decodes
    <2> HIDE DEF g
    <2> QED BY <2>4
  <1>3. Nat \subseteq S
    <2> HIDE DEF S
    <2> QED BY <1>1, <1>2, SetInduction
  <1> QED BY <1>3

LEMMA DecodeUnfolds ==
  ASSUME NEW entries
  PROVE  \E loaded : /\ Decodes(entries, loaded, Len(KeyOrder))
                     /\ DecodeVectors(entries) = loaded[Len(KeyOrder)]
  <1> DEFINE f == CHOOSE loaded : Decodes(entries, loaded, Len(KeyOrder))
  <1>1. DecodeVectors(entries) = f[Len(KeyOrder)]
    BY Zenon DEF DecodeVectors, Decodes, DecodeStep
  <1>2. Len(KeyOrder) \in Nat
    BY FileStoresAssumption
  <1>3. \E loaded : Decodes(entries, loaded, Len(KeyOrder))
    BY <1>2, DecodeExists
  <1>4. Decodes(entries, f, Len(KeyOrder))
    BY <1>3, Zenon
  <1> QED BY <1>1, <1>4

LEMMA KeysFinite == IsFiniteSet(Keys) /\ Len(KeyOrder) \in Nat /\ Cardinality(Keys) = Len(KeyOrder)
  <1>1. KeyOrder \in [1..Len(KeyOrder) -> Keys] /\ Len(KeyOrder) \in Nat
    BY FileStoresAssumption
  <1>2. KeyOrder \in Surjection(1..Len(KeyOrder), Keys)
    BY <1>1 DEF Surjection, Keys
  <1>3. IsFiniteSet(1..Len(KeyOrder))
    BY <1>1, FS_Interval
  <1> QED BY <1>1, <1>2, <1>3, FS_Surjection, FileStoresAssumption

LEMMA NoEntryIsNone == NoEntry \notin Entries
  BY FileStoresAssumption DEF NoEntry, Entries

\* The fields of a matrix.
LEMMA MatrixFields ==
  ASSUME NEW store \in Matrices
  PROVE  /\ store.entries \in EntriesOf
         /\ store.index \in [Keys -> 0..Len(KeyOrder)]
         /\ store.keys \in Seq(Keys) /\ store.spaces \in Seq(Namespaces)
         /\ store.rows \in [1..Len(KeyOrder) -> Embeddings \cup {None}]
         /\ Len(store.keys) \in Nat
         /\ \A row \in 1..Len(store.keys) : store.keys[row] \in Keys
         /\ \A row \in 1..Len(store.spaces) : store.spaces[row] \in Namespaces
  BY DEF Matrices, EntriesOf

LEMMA EmptyIsGood ==
  /\ GoodMatrix(EmptyMatrix)
  /\ EmptyMatrix.entries = [key \in Keys |-> NoEntry]
  <1>1. EmptyMatrix \in Matrices
    BY KeysFinite DEF EmptyMatrix, Matrices
  <1> QED BY <1>1, KeysFinite DEF EmptyMatrix, GoodMatrix

\* There is room for a key that has no row, as no two rows are of the same key.
LEMMA RoomForKey ==
  ASSUME NEW store, GoodMatrix(store), NEW key \in Keys, store.index[key] = 0
  PROVE  Len(store.keys) + 1 <= Len(KeyOrder)
  <1> DEFINE L == Len(store.keys)
             Others == Keys \ {key}
  <1>1. /\ L \in Nat /\ store.keys \in [1..L -> Keys]
        /\ \A row \in 1..L : store.index[store.keys[row]] = row
    BY MatrixFields DEF GoodMatrix
  <1>2. \A row \in 1..L : store.keys[row] # key
    BY <1>1
  <1>3. store.keys \in [1..L -> Others]
    BY <1>1, <1>2
  <1>4. store.keys \in Injection(1..L, Others)
    <2>1. \A a, b \in 1..L : store.keys[a] = store.keys[b] => a = b
      BY <1>1
    <2> HIDE DEF L, Others
    <2> QED BY <1>3, <2>1 DEF Injection, IsInjective
  <1>5. IsFiniteSet(Others) /\ Cardinality(Others) = Len(KeyOrder) - 1
    BY KeysFinite, FS_RemoveElement
  <1>6. Cardinality(1..L) = L
    BY <1>1, FS_Interval
  <1>7. Cardinality(1..L) <= Cardinality(Others)
    <2> HIDE DEF L, Others
    <2> QED BY <1>4, <1>5, FS_Injection
  <1> QED BY <1>1, <1>5, <1>6, <1>7, KeysFinite

\* upsert: the row of the key, or one more.
LEMMA AddResultGood ==
  ASSUME NEW store, GoodMatrix(store), NEW key \in Keys, NEW entry \in Entries
  PROVE  /\ GoodMatrix(AddResult(store, key, entry))
         /\ AddResult(store, key, entry).entries = [store.entries EXCEPT ![key] = entry]
  <1> DEFINE L == Len(store.keys)
             new == store.index[key] = 0
             row == IF new THEN L + 1 ELSE store.index[key]
             after == AddResult(store, key, entry)
  <1>1. /\ after.entries = [store.entries EXCEPT ![key] = entry]
        /\ after.index = [store.index EXCEPT ![key] = row]
        /\ after.keys = IF new THEN Append(store.keys, key) ELSE store.keys
        /\ after.spaces = IF new THEN Append(store.spaces, entry.namespace)
                          ELSE [store.spaces EXCEPT ![row] = entry.namespace]
        /\ after.rows = [store.rows EXCEPT ![row] = entry.embedding]
        /\ after = [entries |-> after.entries, index |-> after.index, keys |-> after.keys,
                    spaces |-> after.spaces, rows |-> after.rows]
    BY DEF AddResult
  <1> HIDE DEF after
  <1>2. /\ store.entries \in EntriesOf
        /\ store.index \in [Keys -> 0..Len(KeyOrder)]
        /\ store.keys \in Seq(Keys) /\ store.spaces \in Seq(Namespaces)
        /\ store.rows \in [1..Len(KeyOrder) -> Embeddings \cup {None}]
        /\ L \in Nat /\ Len(store.spaces) = L /\ L <= Len(KeyOrder) /\ Len(KeyOrder) \in Nat
    BY MatrixFields, KeysFinite DEF GoodMatrix
  <1>3. entry.namespace \in Namespaces /\ entry.embedding \in Embeddings /\ entry # NoEntry
    BY NoEntryIsNone DEF Entries
  <1>4. /\ row \in 1..Len(KeyOrder)
        /\ ~new => row \in 1..L /\ store.keys[row] = key
    BY <1>2, RoomForKey DEF GoodMatrix
  <1>5. /\ after.keys \in Seq(Keys) /\ after.spaces \in Seq(Namespaces)
        /\ Len(after.keys) = IF new THEN L + 1 ELSE L
        /\ Len(after.spaces) = Len(after.keys)
        /\ \A i \in 1..Len(after.keys) :
              /\ after.keys[i] = IF i = row THEN key ELSE store.keys[i]
              /\ after.spaces[i] = IF i = row THEN entry.namespace ELSE store.spaces[i]
    <2>1. CASE new
      BY <1>1, <1>2, <1>3, <2>1
    <2>2. CASE ~new
      BY <1>1, <1>2, <1>3, <1>4, <2>2
    <2> QED BY <2>1, <2>2
  <1>6. after.entries \in EntriesOf /\ after.index \in [Keys -> 0..Len(KeyOrder)]
        /\ after.rows \in [1..Len(KeyOrder) -> Embeddings \cup {None}]
    BY <1>1, <1>2, <1>3, <1>4 DEF EntriesOf
  <1>7. after \in Matrices
    <2> HIDE DEF row
    <2> QED BY <1>1, <1>5, <1>6 DEF Matrices, EntriesOf
  <1>8. ASSUME NEW k \in Keys
        PROVE  IF after.entries[k] = NoEntry THEN after.index[k] = 0
               ELSE /\ after.index[k] \in 1..Len(after.keys)
                    /\ after.keys[after.index[k]] = k
                    /\ after.spaces[after.index[k]] = after.entries[k].namespace
                    /\ after.rows[after.index[k]] = after.entries[k].embedding
    <2>1. CASE k = key
      <3>1. after.entries[k] = entry /\ after.index[k] = row /\ after.rows[row] = entry.embedding
        BY <1>1, <1>2, <1>4, <2>1 DEF EntriesOf
      <3>2. row \in 1..Len(after.keys)
        BY <1>2, <1>4, <1>5
      <3> HIDE DEF row, new
      <3> QED BY <1>3, <1>5, <2>1, <3>1, <3>2
    <2>2. CASE k # key
      <3>1. after.entries[k] = store.entries[k] /\ after.index[k] = store.index[k]
        BY <1>1, <1>2, <2>2 DEF EntriesOf
      <3>2. store.entries[k] = NoEntry => store.index[k] = 0
        BY DEF GoodMatrix
      <3>3. store.entries[k] # NoEntry =>
              /\ store.index[k] \in 1..L
              /\ store.keys[store.index[k]] = k
              /\ store.spaces[store.index[k]] = store.entries[k].namespace
              /\ store.rows[store.index[k]] = store.entries[k].embedding
        BY DEF GoodMatrix
      <3>4. store.entries[k] # NoEntry => store.index[k] # row
        BY <1>2, <1>4, <2>2, <3>3
      <3>5. store.entries[k] # NoEntry => after.rows[store.index[k]] = store.rows[store.index[k]]
        BY <1>1, <1>2, <3>3, <3>4
      <3> HIDE DEF row
      <3>6. CASE store.entries[k] = NoEntry
        BY <3>1, <3>2, <3>6
      <3>7. CASE store.entries[k] # NoEntry
        <4>1. store.index[k] \in 1..Len(after.keys)
          BY <1>2, <1>5, <3>3, <3>7
        <4> QED BY <1>5, <3>1, <3>3, <3>4, <3>5, <3>7, <4>1
      <3> QED BY <3>6, <3>7
    <2> QED BY <2>1, <2>2
  <1>9. ASSUME NEW i \in 1..Len(after.keys)
        PROVE  after.index[after.keys[i]] = i
    <2>1. CASE i = row
      <3>1. after.keys[i] = key /\ after.index[key] = row
        BY <1>1, <1>2, <1>5, <2>1
      <3> QED BY <2>1, <3>1
    <2>2. CASE i # row
      <3>1. i \in 1..L /\ after.keys[i] = store.keys[i]
        BY <1>2, <1>5, <2>2
      <3>2. store.index[store.keys[i]] = i /\ store.keys[i] \in Keys
        BY <1>2, <3>1 DEF GoodMatrix
      <3>3. store.keys[i] # key
        BY <1>2, <1>4, <2>2, <3>2, <3>1
      <3> QED BY <1>1, <1>2, <3>1, <3>2, <3>3
    <2> QED BY <2>1, <2>2
  <1>10. Len(after.keys) <= Len(KeyOrder)
    BY <1>2, <1>4, <1>5
  <1>11. GoodMatrix(after)
    <2> HIDE DEF row, new, L
    <2> QED BY <1>5, <1>7, <1>8, <1>9, <1>10 DEF GoodMatrix
  <1> QED BY <1>1, <1>11 DEF after

LEMMA PrefixOf ==
  ASSUME NEW T, NEW s \in Seq(T), NEW n \in 0..Len(s)
  PROVE  /\ SubSeq(s, 1, n) \in Seq(T) /\ Len(SubSeq(s, 1, n)) = n
         /\ \A i \in 1..n : SubSeq(s, 1, n)[i] = s[i]
  <1>1. SubSeq(s, 1, n) \in Seq(T)
    BY SubSeqProperties
  <1> QED BY <1>1

\* delete: the last row takes the place of the one that goes.
LEMMA DeleteKeyGood ==
  ASSUME NEW store, GoodMatrix(store), NEW key \in Keys
  PROVE  /\ GoodMatrix(DeleteKey(store, key))
         /\ DeleteKey(store, key).entries = [store.entries EXCEPT ![key] = NoEntry]
  <1> DEFINE row == store.index[key]
             last == Len(store.keys)
             lastkey == store.keys[last]
             after == DeleteKey(store, key)
  <1>1. /\ store.entries \in EntriesOf
        /\ store.index \in [Keys -> 0..Len(KeyOrder)]
        /\ store.keys \in Seq(Keys) /\ store.spaces \in Seq(Namespaces)
        /\ store.rows \in [1..Len(KeyOrder) -> Embeddings \cup {None}]
        /\ last \in Nat /\ Len(store.spaces) = last /\ last <= Len(KeyOrder)
        /\ Len(KeyOrder) \in Nat
    BY MatrixFields, KeysFinite DEF GoodMatrix
  <1>2. CASE row = 0
    <2>1. after = store
      BY <1>2 DEF DeleteKey
    <2>2. store.entries[key] = NoEntry
      BY <1>1, <1>2 DEF GoodMatrix
    <2>3. store.entries = [store.entries EXCEPT ![key] = NoEntry]
      BY <1>1, <2>2 DEF EntriesOf
    <2> QED BY <2>1, <2>3
  <1>3. CASE row # 0
    <2>1. row \in 1..last /\ store.keys[row] = key
      BY <1>1, <1>3 DEF GoodMatrix
    <2>2. lastkey \in Keys /\ store.index[lastkey] = last
      BY <1>1, <2>1 DEF GoodMatrix
    <2>3. lastkey = key <=> row = last
      BY <2>1, <2>2
    <2> DEFINE gone == [store EXCEPT !.index[key] = 0, !.entries[key] = NoEntry]
               moved == IF row = last THEN gone ELSE MoveLast(gone, last, row)
    <2>4. gone = [entries |-> [store.entries EXCEPT ![key] = NoEntry],
                  index |-> [store.index EXCEPT ![key] = 0],
                  keys |-> store.keys, spaces |-> store.spaces, rows |-> store.rows]
      <3>1. store \in Matrices
        BY DEF GoodMatrix
      <3>2. /\ gone.entries = [store.entries EXCEPT ![key] = NoEntry]
            /\ gone.index = [store.index EXCEPT ![key] = 0]
            /\ gone.keys = store.keys /\ gone.spaces = store.spaces /\ gone.rows = store.rows
        BY <3>1 DEF Matrices
      <3>3. gone = [entries |-> gone.entries, index |-> gone.index, keys |-> gone.keys,
                    spaces |-> gone.spaces, rows |-> gone.rows]
        <4> DEFINE entries == [store.entries EXCEPT ![key] = NoEntry]
                   index == [store.index EXCEPT ![key] = 0]
        <4>1. entries \in EntriesOf /\ index \in [Keys -> 0..Len(KeyOrder)]
          BY <1>1 DEF EntriesOf
        <4>2. gone = [store EXCEPT !.index = index, !.entries = entries]
          BY <3>1 DEF Matrices
        <4> HIDE DEF gone, entries, index
        <4>3. gone \in Matrices
          BY <3>1, <4>1, <4>2 DEF Matrices, EntriesOf
        <4> QED BY <4>3 DEF Matrices
      <3> HIDE DEF gone
      <3> QED BY <3>2, <3>3
    <2>5. after = [moved EXCEPT !.keys = SubSeq(@, 1, last - 1), !.spaces = SubSeq(@, 1, last - 1)]
      BY <1>3 DEF DeleteKey
    <2>6. moved = [entries |-> [store.entries EXCEPT ![key] = NoEntry],
                   index |-> IF row = last THEN [store.index EXCEPT ![key] = 0]
                             ELSE [[store.index EXCEPT ![key] = 0] EXCEPT ![lastkey] = row],
                   keys |-> IF row = last THEN store.keys
                            ELSE [store.keys EXCEPT ![row] = lastkey],
                   spaces |-> IF row = last THEN store.spaces
                              ELSE [store.spaces EXCEPT ![row] = store.spaces[last]],
                   rows |-> IF row = last THEN store.rows
                            ELSE [store.rows EXCEPT ![row] = store.rows[last]]]
      <3> HIDE DEF row, last
      <3>1. CASE row = last
        BY <2>4, <3>1
      <3>2. CASE row # last
        BY <2>4, <3>2 DEF MoveLast
      <3> QED BY <3>1, <3>2
    <2> HIDE DEF gone, moved, after
    <2>7. /\ after.entries = moved.entries /\ after.index = moved.index
          /\ after.rows = moved.rows
          /\ after.keys = SubSeq(moved.keys, 1, last - 1)
          /\ after.spaces = SubSeq(moved.spaces, 1, last - 1)
          /\ after = [entries |-> after.entries, index |-> after.index, keys |-> after.keys,
                      spaces |-> after.spaces, rows |-> after.rows]
      BY <2>5, <2>6
    <2>8. /\ moved.entries = [store.entries EXCEPT ![key] = NoEntry]
          /\ \A k \in Keys : moved.index[k] = IF k = key THEN 0
                                              ELSE IF k = lastkey THEN row ELSE store.index[k]
          /\ \A i \in 1..Len(KeyOrder) :
                moved.rows[i] = IF i = row THEN store.rows[last] ELSE store.rows[i]
          /\ moved.keys \in Seq(Keys) /\ Len(moved.keys) = last
          /\ moved.spaces \in Seq(Namespaces) /\ Len(moved.spaces) = last
          /\ \A i \in 1..last :
                /\ moved.keys[i] = IF i = row THEN lastkey ELSE store.keys[i]
                /\ moved.spaces[i] = IF i = row THEN store.spaces[last] ELSE store.spaces[i]
          /\ moved.index \in [Keys -> 0..Len(KeyOrder)]
          /\ moved.rows \in [1..Len(KeyOrder) -> Embeddings \cup {None}]
      <3>0. last \in 1..Len(store.spaces) /\ store.spaces[last] \in Namespaces
            /\ last \in 1..Len(KeyOrder) /\ store.rows[last] \in Embeddings \cup {None}
            /\ row \in 0..Len(KeyOrder) /\ row \in 1..Len(KeyOrder)
            /\ Len(store.keys) = last
        <4>1. last \in 1..last
          BY <1>1, <2>1
        <4> QED BY <1>1, <2>1, <4>1
      <3> HIDE DEF row, last, lastkey
      <3>1. CASE row = last
        <4>1. /\ moved.entries = [store.entries EXCEPT ![key] = NoEntry]
              /\ moved.index = [store.index EXCEPT ![key] = 0]
              /\ moved.keys = store.keys /\ moved.spaces = store.spaces
              /\ moved.rows = store.rows
          BY <2>6, <3>1
        <4>2. lastkey = store.keys[row]
          BY <2>1, <2>3, <3>1
        <4> QED BY <1>1, <2>1, <2>2, <2>3, <3>0, <3>1, <4>1, <4>2
      <3>2. CASE row # last
        <4>1. /\ moved.entries = [store.entries EXCEPT ![key] = NoEntry]
              /\ moved.index = [[store.index EXCEPT ![key] = 0] EXCEPT ![lastkey] = row]
              /\ moved.keys = [store.keys EXCEPT ![row] = lastkey]
              /\ moved.spaces = [store.spaces EXCEPT ![row] = store.spaces[last]]
              /\ moved.rows = [store.rows EXCEPT ![row] = store.rows[last]]
          BY <2>6, <3>2
        <4>2. /\ \A k \in Keys : moved.index[k] = IF k = key THEN 0
                                              ELSE IF k = lastkey THEN row ELSE store.index[k]
              /\ moved.index \in [Keys -> 0..Len(KeyOrder)]
          BY <1>1, <2>2, <2>3, <3>0, <3>2, <4>1
        <4>3. /\ \A i \in 1..Len(KeyOrder) :
                    moved.rows[i] = IF i = row THEN store.rows[last] ELSE store.rows[i]
              /\ moved.rows \in [1..Len(KeyOrder) -> Embeddings \cup {None}]
          BY <1>1, <3>0, <4>1
        <4>4. /\ moved.keys \in Seq(Keys) /\ Len(moved.keys) = last
              /\ \A i \in 1..last : moved.keys[i] = IF i = row THEN lastkey ELSE store.keys[i]
          BY <1>1, <2>1, <2>2, <3>0, <4>1
        <4>5. /\ moved.spaces \in Seq(Namespaces) /\ Len(moved.spaces) = last
              /\ \A i \in 1..last : moved.spaces[i] = IF i = row THEN store.spaces[last]
                                                       ELSE store.spaces[i]
          BY <1>1, <2>1, <3>0, <4>1
        <4> QED BY <4>1, <4>2, <4>3, <4>4, <4>5
      <3> QED BY <3>1, <3>2
    <2>9. /\ after.keys \in Seq(Keys) /\ after.spaces \in Seq(Namespaces)
          /\ Len(after.keys) = last - 1 /\ Len(after.spaces) = last - 1
          /\ \A i \in 1..last - 1 :
                /\ after.keys[i] = IF i = row THEN lastkey ELSE store.keys[i]
                /\ after.spaces[i] = IF i = row THEN store.spaces[last] ELSE store.spaces[i]
      <3> HIDE DEF row, lastkey, last
      <3>1. last - 1 \in 0..Len(moved.keys) /\ last - 1 \in 0..Len(moved.spaces)
        BY <1>1, <2>1, <2>8
      <3>2. /\ after.keys \in Seq(Keys) /\ Len(after.keys) = last - 1
            /\ \A i \in 1..last - 1 : after.keys[i] = moved.keys[i]
        BY <2>7, <2>8, <3>1, PrefixOf
      <3>3. /\ after.spaces \in Seq(Namespaces) /\ Len(after.spaces) = last - 1
            /\ \A i \in 1..last - 1 : after.spaces[i] = moved.spaces[i]
        BY <2>7, <2>8, <3>1, PrefixOf
      <3>4. \A i \in 1..last - 1 : i \in 1..last
        BY <1>1
      <3> QED BY <2>8, <3>2, <3>3, <3>4
    <2>10. after \in Matrices
      <3>1. after.entries \in EntriesOf
        BY <1>1, <2>7, <2>8 DEF EntriesOf
      <3> QED BY <2>7, <2>8, <2>9, <3>1 DEF Matrices, EntriesOf
    <2>11. ASSUME NEW k \in Keys
           PROVE  IF after.entries[k] = NoEntry THEN after.index[k] = 0
                  ELSE /\ after.index[k] \in 1..Len(after.keys)
                       /\ after.keys[after.index[k]] = k
                       /\ after.spaces[after.index[k]] = after.entries[k].namespace
                       /\ after.rows[after.index[k]] = after.entries[k].embedding
      <3>1. CASE k = key
        BY <1>1, <2>7, <2>8, <3>1 DEF EntriesOf
      <3>2. ASSUME k # key, store.entries[k] = NoEntry
            PROVE  after.entries[k] = NoEntry /\ after.index[k] = 0
        <4>1. store.index[k] = 0
          BY <3>2 DEF GoodMatrix
        <4>2. k # lastkey
          BY <2>1, <2>2, <4>1
        <4> HIDE DEF lastkey
        <4> QED BY <1>1, <2>7, <2>8, <3>2, <4>1, <4>2 DEF EntriesOf
      <3>3. ASSUME k # key, store.entries[k] # NoEntry
            PROVE  /\ after.entries[k] # NoEntry
                   /\ after.index[k] \in 1..Len(after.keys)
                   /\ after.keys[after.index[k]] = k
                   /\ after.spaces[after.index[k]] = after.entries[k].namespace
                   /\ after.rows[after.index[k]] = after.entries[k].embedding
        <4>1. /\ store.index[k] \in 1..last
              /\ store.keys[store.index[k]] = k
              /\ store.spaces[store.index[k]] = store.entries[k].namespace
              /\ store.rows[store.index[k]] = store.entries[k].embedding
          BY <3>3 DEF GoodMatrix
        <4>2. after.entries[k] = store.entries[k]
          BY <1>1, <2>7, <2>8, <3>3 DEF EntriesOf
        <4>3. store.index[k] # row
          BY <2>1, <3>3, <4>1
        <4>4. CASE k = lastkey
          <5>0. row # last /\ row \in 1..last - 1
            BY <1>1, <2>1, <2>3, <3>3, <4>4
          <5>1. after.index[k] = row
            BY <2>7, <2>8, <3>3, <4>4
          <5>2. store.index[k] = last
            BY <2>2, <4>4
          <5>3. row \in 1..Len(KeyOrder)
            BY <1>1, <2>1
          <5> HIDE DEF row, lastkey, last
          <5>4. after.keys[row] = k /\ after.spaces[row] = store.spaces[last]
            BY <2>9, <4>4, <5>0
          <5>5. after.rows[row] = store.rows[last]
            BY <2>7, <2>8, <5>3
          <5> QED BY <2>9, <3>3, <4>1, <4>2, <5>0, <5>1, <5>2, <5>4, <5>5
        <4>5. CASE k # lastkey
          <5>1. after.index[k] = store.index[k]
            BY <2>7, <2>8, <3>3, <4>5
          <5>2. store.index[k] \in 1..last - 1
            BY <1>1, <4>1, <4>5
          <5>3. store.index[k] \in 1..Len(KeyOrder)
            BY <1>1, <4>1
          <5> HIDE DEF row, lastkey, last
          <5>4. /\ after.keys[store.index[k]] = k
                /\ after.spaces[store.index[k]] = store.spaces[store.index[k]]
            BY <2>9, <4>1, <4>3, <5>2
          <5>5. after.rows[store.index[k]] = store.rows[store.index[k]]
            BY <2>7, <2>8, <4>3, <5>3
          <5> QED BY <2>9, <3>3, <4>1, <4>2, <5>1, <5>2, <5>4, <5>5
        <4> QED BY <4>4, <4>5
      <3> QED BY <3>1, <3>2, <3>3
    <2>12. ASSUME NEW i \in 1..Len(after.keys)
           PROVE  after.index[after.keys[i]] = i
      <3>1. i \in 1..last - 1 /\ i \in 1..last
        BY <1>1, <2>9
      <3>2. CASE i = row
        <4>1. row # last
          BY <1>1, <3>1, <3>2
        <4> QED BY <2>2, <2>3, <2>7, <2>8, <2>9, <3>1, <3>2, <4>1
      <3>3. CASE i # row
        <4>1. store.keys[i] \in Keys /\ store.index[store.keys[i]] = i
          BY <1>1, <3>1 DEF GoodMatrix
        <4>2. store.keys[i] # key /\ store.keys[i] # lastkey
          BY <1>1, <2>2, <3>1, <3>3, <4>1
        <4>3. after.keys[i] = store.keys[i]
          BY <2>9, <3>1, <3>3
        <4> HIDE DEF row, lastkey
        <4> QED BY <2>7, <2>8, <4>1, <4>2, <4>3
      <3> QED BY <3>2, <3>3
    <2>13. GoodMatrix(after)
      <3>1. Len(after.keys) <= Len(KeyOrder) /\ Len(after.spaces) = Len(after.keys)
        BY <1>1, <2>1, <2>9
      <3> QED BY <2>10, <2>11, <2>12, <3>1 DEF GoodMatrix
    <2> QED BY <2>7, <2>8, <2>13 DEF after
  <1> QED BY <1>2, <1>3

\* _load: the entries of the file, and a matrix that agrees with them.
LEMMA DecodeGood ==
  ASSUME NEW entries \in EntriesOf
  PROVE  GoodMatrix(DecodeVectors(entries)) /\ DecodeVectors(entries).entries = entries
  <1>1. PICK loaded : /\ Decodes(entries, loaded, Len(KeyOrder))
                      /\ DecodeVectors(entries) = loaded[Len(KeyOrder)]
    BY DecodeUnfolds
  <1>2. Len(KeyOrder) \in Nat /\ \A i \in 1..Len(KeyOrder) : KeyOrder[i] \in Keys
    BY FileStoresAssumption
  <1> DEFINE Before(n) == {KeyOrder[i] : i \in 1..n}
             Upto(n) == [key \in Keys |-> IF key \in Before(n) THEN entries[key] ELSE NoEntry]
             S == {n \in Nat : n <= Len(KeyOrder) =>
                                  GoodMatrix(loaded[n]) /\ loaded[n].entries = Upto(n)}
  <1>3. \A n \in 0..Len(KeyOrder) : loaded[n] = DecodeStep(entries, loaded, n)
    BY <1>1 DEF Decodes
  <1>4. 0 \in S
    <2>1. loaded[0] = EmptyMatrix
      BY <1>2, <1>3 DEF DecodeStep
    <2>2. Upto(0) = [key \in Keys |-> NoEntry]
      OBVIOUS
    <2> QED BY <2>1, <2>2, EmptyIsGood
  <1>5. ASSUME NEW n \in Nat, n \in S PROVE n + 1 \in S
    <2> SUFFICES ASSUME n + 1 <= Len(KeyOrder)
                 PROVE  GoodMatrix(loaded[n + 1]) /\ loaded[n + 1].entries = Upto(n + 1)
      OBVIOUS
    <2> DEFINE key == KeyOrder[n + 1]
    <2>1. key \in Keys /\ entries[key] \in Entries \cup {NoEntry}
      BY <1>2 DEF EntriesOf
    <2>2. GoodMatrix(loaded[n]) /\ loaded[n].entries = Upto(n)
      BY <1>2, <1>5
    <2>3. loaded[n + 1] = IF entries[key] = NoEntry THEN loaded[n]
                          ELSE AddResult(loaded[n], key, entries[key])
      BY <1>2, <1>3 DEF DecodeStep
    <2>4. Before(n + 1) = Before(n) \cup {key}
      OBVIOUS
    <2> HIDE DEF Before, key
    <2>5. CASE entries[key] = NoEntry
      <3>1. Upto(n + 1) = Upto(n)
        BY <2>4, <2>5
      <3> QED BY <2>2, <2>3, <2>5, <3>1
    <2>6. CASE entries[key] # NoEntry
      <3>1. Upto(n + 1) = [Upto(n) EXCEPT ![key] = entries[key]]
        BY <2>1, <2>4
      <3> HIDE DEF Upto
      <3> QED BY <2>1, <2>2, <2>3, <2>6, <3>1, AddResultGood
    <2> QED BY <2>5, <2>6
  <1>6. Nat \subseteq S
    <2> HIDE DEF S
    <2> QED BY <1>4, <1>5, SetInduction
  <1>7. Upto(Len(KeyOrder)) = entries
    <2>1. Before(Len(KeyOrder)) = Keys
      BY <1>2, FileStoresAssumption DEF Keys
    <2> HIDE DEF Before
    <2> QED BY <2>1 DEF EntriesOf
  <1> QED BY <1>1, <1>2, <1>6, <1>7

(***************************************************************************)
(* A search                                                                *)
(***************************************************************************)

\* The rows that the namespace does not mask, and the entries of the namespace.
Live(store, namespace) ==
  {row \in 1..Len(store.keys) : namespace \in {None, store.spaces[row]}}

Visible(store, namespace) ==
  {key \in Indexed(store.entries) : namespace \in {None, store.entries[key].namespace}}

LEMMA UpTo ==
  ASSUME NEW n \in Nat
  PROVE  IsFiniteSet(1..n) /\ Cardinality(1..n) = n
  BY FS_Interval

\* Rows and entries are the same thing.
LEMMA RowsAreEntries ==
  ASSUME NEW store, GoodMatrix(store), NEW namespace
  PROVE  /\ \A row \in 1..Len(store.keys) :
              LET key == store.keys[row]
              IN  /\ key \in Indexed(store.entries) /\ store.index[key] = row
                  /\ store.entries[key] \in Entries
                  /\ store.spaces[row] = store.entries[key].namespace
                  /\ store.rows[row] = store.entries[key].embedding
                  /\ row \in Live(store, namespace) <=> key \in Visible(store, namespace)
         /\ \A key \in Indexed(store.entries) :
              /\ store.index[key] \in 1..Len(store.keys)
              /\ store.keys[store.index[key]] = key
              /\ store.index[key] \in Live(store, namespace)
                   <=> key \in Visible(store, namespace)
  <1>1. ASSUME NEW row \in 1..Len(store.keys)
        PROVE  LET key == store.keys[row]
               IN  /\ key \in Indexed(store.entries) /\ store.index[key] = row
                   /\ store.entries[key] \in Entries
                   /\ store.spaces[row] = store.entries[key].namespace
                   /\ store.rows[row] = store.entries[key].embedding
                   /\ row \in Live(store, namespace) <=> key \in Visible(store, namespace)
    <2> DEFINE key == store.keys[row]
    <2>1. key \in Keys /\ row \in Nat /\ row # 0 /\ store.entries \in EntriesOf
      BY MatrixFields DEF GoodMatrix
    <2>2. store.index[key] = row
      BY DEF GoodMatrix
    <2> HIDE DEF key
    <2>3. store.entries[key] # NoEntry /\ store.entries[key] \in Entries
      BY <2>1, <2>2 DEF GoodMatrix, EntriesOf
    <2>4. /\ store.spaces[row] = store.entries[key].namespace
          /\ store.rows[row] = store.entries[key].embedding
      BY <2>1, <2>2, <2>3 DEF GoodMatrix
    <2>5. key \in Indexed(store.entries)
      BY <2>1, <2>3 DEF Indexed
    <2>6. row \in Live(store, namespace) <=> key \in Visible(store, namespace)
      BY <2>4, <2>5 DEF Live, Visible
    <2> QED BY <2>2, <2>3, <2>4, <2>5, <2>6 DEF key
  <1>2. ASSUME NEW key \in Indexed(store.entries)
        PROVE  /\ store.index[key] \in 1..Len(store.keys)
               /\ store.keys[store.index[key]] = key
    BY DEF GoodMatrix, Indexed
  <1> QED BY <1>1, <1>2

LEMMA LiveCount ==
  ASSUME NEW store, GoodMatrix(store), NEW namespace
  PROVE  /\ IsFiniteSet(Visible(store, namespace)) /\ IsFiniteSet(Live(store, namespace))
         /\ Cardinality(Visible(store, namespace)) = Cardinality(Live(store, namespace))
  <1>1. IsFiniteSet(Live(store, namespace))
    <2>1. Len(store.keys) \in Nat
      BY MatrixFields DEF GoodMatrix
    <2>2. IsFiniteSet(1..Len(store.keys))
      BY <2>1, UpTo
    <2> QED BY <2>2, FS_Subset DEF Live
  <1> DEFINE f == [row \in Live(store, namespace) |-> store.keys[row]]
             A == Live(store, namespace)
             B == Visible(store, namespace)
  <1>2. f \in [A -> B]
    BY RowsAreEntries DEF Live
  <1>3. \A x, y \in A : f[x] = f[y] => x = y
    BY RowsAreEntries DEF Live
  <1>4. \A b \in B : \E x \in A : f[x] = b
    <2> SUFFICES ASSUME NEW b \in B PROVE \E x \in A : f[x] = b
      OBVIOUS
    <2>1. b \in Indexed(store.entries)
      BY DEF Visible
    <2>2. store.index[b] \in A /\ store.keys[store.index[b]] = b
      BY <2>1, RowsAreEntries
    <2> QED BY <2>2
  <1> HIDE DEF f, A, B
  <1>5. f \in Bijection(A, B)
    BY <1>2, <1>3, <1>4 DEF Bijection, Injection, Surjection, IsInjective
  <1>6. ExistsBijection(A, B)
    BY <1>5 DEF ExistsBijection
  <1> QED BY <1>1, <1>6, FS_Bijection DEF A, B

\* The keys of some rows are as many as the rows.
LEMMA KeysOfRows ==
  ASSUME NEW store, GoodMatrix(store), NEW some \in SUBSET (1..Len(store.keys))
  PROVE  /\ IsFiniteSet(some)
         /\ Cardinality({store.keys[row] : row \in some}) = Cardinality(some)
  <1>1. IsFiniteSet(some)
    <2>1. Len(store.keys) \in Nat
      BY MatrixFields DEF GoodMatrix
    <2>2. IsFiniteSet(1..Len(store.keys))
      BY <2>1, UpTo
    <2> QED BY <2>2, FS_Subset
  <1> DEFINE f == [row \in some |-> store.keys[row]]
             B == {store.keys[row] : row \in some}
  <1>2. \A x, y \in some : f[x] = f[y] => x = y
    BY DEF GoodMatrix
  <1>3. f \in [some -> B] /\ \A b \in B : \E x \in some : f[x] = b
    OBVIOUS
  <1> HIDE DEF f, B
  <1>4. f \in Bijection(some, B)
    BY <1>2, <1>3 DEF Bijection, Injection, Surjection, IsInjective
  <1>5. ExistsBijection(some, B)
    BY <1>4 DEF ExistsBijection
  <1> QED BY <1>1, <1>5, FS_Bijection DEF B

\* A masked row is below every other one.
LEMMA ScoreOfRow ==
  ASSUME NEW store, GoodMatrix(store), NEW namespace, NEW query \in Embeddings,
         NEW row \in 1..Len(store.keys)
  PROVE  /\ row \in Live(store, namespace) => RowScore(store, query, namespace, row) \in Nat
         /\ row \notin Live(store, namespace) => RowScore(store, query, namespace, row) = -1
  <1>1. store.entries[store.keys[row]] \in Entries
        /\ store.rows[row] = store.entries[store.keys[row]].embedding
    BY RowsAreEntries
  <1>2. store.rows[row] \in Embeddings
    BY <1>1 DEF Entries
  <1>3. Similarity[store.rows[row], query] \in Nat
    BY <1>2, FileStoresAssumption
  <1> QED BY <1>3 DEF RowScore, Live

Alike(entry, query) == Similarity[entry.embedding, query]

LEMMA ScoreIsSimilarity ==
  ASSUME NEW store, GoodMatrix(store), NEW namespace, NEW query,
         NEW row \in Live(store, namespace)
  PROVE  RowScore(store, query, namespace, row)
            = Alike(store.entries[store.keys[row]], query)
  <1>1. store.rows[row] = store.entries[store.keys[row]].embedding
    BY RowsAreEntries DEF Live
  <1>2. namespace \in {None, store.spaces[row]}
    BY DEF Live
  <1> QED BY <1>1, <1>2, Zenon DEF RowScore, Alike

\* SearchIsNearest, of any matrix whose rows are its entries: if a row that is
\* not masked is left out then no masked one is in.
LEMMA SearchGood ==
  ASSUME NEW store, GoodMatrix(store), NEW query \in Embeddings,
         NEW namespace \in Namespaces \cup {None}, NEW k \in 1..Len(KeyOrder),
         NEW found \in SearchResults(store, query, namespace, k)
  PROVE  LET all == Visible(store, namespace)
         IN  /\ found \subseteq all
             /\ Cardinality(found) = IF k < Cardinality(all) THEN k ELSE Cardinality(all)
             /\ \A a \in found, b \in all \ found :
                   Alike(store.entries[a], query)
                      >= Alike(store.entries[b], query)
  <1> DEFINE count == Len(store.keys)
             all == Visible(store, namespace)
             live == Live(store, namespace)
             Score(row) == RowScore(store, query, namespace, row)
  <1>1. PICK top \in SUBSET (1..count) :
           /\ Cardinality(top) = IF k < count THEN k ELSE count
           /\ \A i \in top, j \in (1..count) \ top : Score(i) >= Score(j)
           /\ found = {store.keys[row] : row \in {i \in top : Score(i) # -1}}
    BY DEF SearchResults
  <1>2. \A row \in 1..count : /\ row \in live <=> Score(row) # -1
                              /\ row \in live => Score(row) \in Nat
                              /\ row \notin live => Score(row) = -1
    <2> SUFFICES ASSUME NEW row \in 1..count
                 PROVE  /\ row \in live => Score(row) \in Nat
                        /\ row \notin live => Score(row) = -1
      OBVIOUS
    <2> QED BY ScoreOfRow
  <1> HIDE DEF live
  <1>3. found = {store.keys[row] : row \in top \cap live}
    BY <1>1, <1>2
  <1>4. top \cap live \in SUBSET (1..count)
    OBVIOUS
  <1>5. Cardinality(found) = Cardinality(top \cap live) /\ IsFiniteSet(top)
    BY <1>3, <1>4, KeysOfRows
  <1>6. IsFiniteSet(live) /\ Cardinality(live) = Cardinality(all) /\ live \subseteq 1..count
    BY LiveCount DEF live, Live
  <1>7. /\ count \in Nat /\ k \in Nat /\ IsFiniteSet(1..count) /\ Cardinality(1..count) = count
        /\ Cardinality(live) \in Nat /\ Cardinality(live) <= count
    <2>1. count \in Nat /\ k \in Nat
      BY MatrixFields, KeysFinite DEF GoodMatrix
    <2>2. IsFiniteSet(1..count) /\ Cardinality(1..count) = count
      BY <2>1, UpTo
    <2> HIDE DEF count
    <2>3. Cardinality(live) \in Nat /\ Cardinality(live) <= Cardinality(1..count)
      BY <1>6, <2>2, FS_Subset, FS_CardinalityType
    <2> QED BY <2>1, <2>2, <2>3
  <1>8. found \subseteq all
    <2> SUFFICES ASSUME NEW row \in top \cap live PROVE store.keys[row] \in all
      BY <1>3
    <2>1. row \in 1..count
      OBVIOUS
    <2> HIDE DEF all
    <2> QED BY <2>1, RowsAreEntries DEF live, all
  <1>9. Cardinality(found) = IF k < Cardinality(all) THEN k ELSE Cardinality(all)
    <2>1. CASE live \subseteq top
      <3>1. top \cap live = live
        BY <2>1
      <3>2. Cardinality(live) <= Cardinality(top)
        BY <1>5, <2>1, FS_Subset
      <3>3. Cardinality(top) = IF k < count THEN k ELSE count
        BY <1>1
      <3>4. Cardinality(found) = Cardinality(all)
        BY <1>5, <1>6, <3>1
      <3> HIDE DEF count, all
      <3>5. Cardinality(all) \in Nat /\ Cardinality(all) <= Cardinality(top)
            /\ Cardinality(all) <= count
        BY <1>6, <1>7, <3>2
      <3> QED BY <1>7, <3>3, <3>4, <3>5
    <2>2. CASE ~(live \subseteq top)
      <3>1. PICK j \in live : j \notin top
        BY <2>2
      <3>2. \A i \in top : i \in live
        <4> SUFFICES ASSUME NEW i \in top PROVE i \in live
          OBVIOUS
        <4>1. Score(i) >= Score(j) /\ Score(j) \in Nat
          BY <1>1, <1>2, <1>6, <3>1
        <4>2. i \in 1..count
          BY <1>1
        <4> HIDE DEF Score
        <4> QED BY <1>2, <4>1, <4>2
      <3>3. top \cap live = top /\ top \in SUBSET live /\ top # live
        BY <3>1, <3>2
      <3>4. Cardinality(top) <= Cardinality(live) /\ Cardinality(top) # Cardinality(live)
            /\ Cardinality(top) \in Nat
        BY <1>5, <1>6, <3>3, FS_Subset, FS_CardinalityType
      <3>5. Cardinality(top) = IF k < count THEN k ELSE count
        BY <1>1
      <3>6. Cardinality(found) = Cardinality(top)
        BY <1>5, <3>3
      <3> HIDE DEF count, all
      <3>7. /\ Cardinality(all) \in Nat /\ Cardinality(top) \in Nat
            /\ Cardinality(top) < Cardinality(all) /\ Cardinality(all) <= count
        BY <1>6, <1>7, <3>4
      <3> QED BY <1>7, <3>5, <3>6, <3>7
    <2> QED BY <2>1, <2>2
  <1>10. ASSUME NEW a \in found, NEW b \in all \ found
         PROVE  Alike(store.entries[a], query)
                   >= Alike(store.entries[b], query)
    <2>1. PICK i \in top \cap live : a = store.keys[i]
      BY <1>3
    <2> DEFINE j == store.index[b]
    <2>2. b \in Indexed(store.entries)
      BY DEF Visible
    <2>3. j \in live /\ j \in 1..count /\ store.keys[j] = b
      BY <2>2, RowsAreEntries DEF live
    <2> HIDE DEF j
    <2>4. j \notin top
      BY <1>3, <2>3
    <2>5. Score(i) >= Score(j)
      BY <1>1, <2>1, <2>3, <2>4
    <2>6. i \in 1..count
      BY <1>1, <2>1
    <2>7. Score(i) = Alike(store.entries[a], query)
          /\ Score(j) = Alike(store.entries[b], query)
      <3>1. i \in Live(store, namespace) /\ j \in Live(store, namespace)
        BY <2>1, <2>3 DEF live
      <3>2. \A row \in Live(store, namespace) :
               RowScore(store, query, namespace, row)
                  = Alike(store.entries[store.keys[row]], query)
        BY ScoreIsSimilarity
      <3>3. store.keys[i] = a /\ store.keys[j] = b
        BY <2>1, <2>3
      <3> QED BY <3>1, <3>2, <3>3
    <2> QED BY <2>5, <2>7
  <1> QED BY <1>8, <1>9, <1>10

(***************************************************************************)
(* Records                                                                 *)
(***************************************************************************)

LEMMA LimitType == \A max \in RecordLimits : max \in Nat /\ max >= 1
  BY FileStoresAssumption

LEMMA LastRecordsEnd ==
  ASSUME NEW records \in Seq(Nat), NEW max \in Nat, max >= 1
  PROVE  /\ LastRecords(records, max) \in Seq(Nat)
         /\ Len(LastRecords(records, max)) <= max
         /\ Ends(LastRecords(records, max), records)
         /\ Len(records) <= max => LastRecords(records, max) = records
  <1> DEFINE n == Len(records)
             cut == SubSeq(records, n - max + 1, n)
  <1>1. n \in Nat /\ \A i \in 1..n : records[i] \in Nat
    OBVIOUS
  <1>2. CASE n < max
    <2>1. LastRecords(records, max) = records
      BY <1>2 DEF LastRecords
    <2>2. Ends(records, records)
      BY <1>1 DEF Ends
    <2> QED BY <1>1, <1>2, <2>1, <2>2
  <1>3. CASE n >= max
    <2>1. LastRecords(records, max) = cut
      BY <1>1, <1>3 DEF LastRecords
    <2>2. cut \in Seq(Nat) /\ Len(cut) = max /\ \A i \in 1..max : cut[i] = records[n - max + i]
      <3>1. n - max + 1 \in 1..n /\ n \in 1..n
        BY <1>1, <1>3
      <3> QED BY <1>1, <1>3, <3>1
    <2> HIDE DEF cut
    <2>3. Ends(cut, records)
      BY <1>1, <1>3, <2>2 DEF Ends
    <2>4. n = max => cut = records
      BY <1>1, <2>2
    <2> HIDE DEF n
    <2>5. Len(records) <= max => n = max
      BY <1>1, <1>3 DEF n
    <2> QED BY <2>1, <2>2, <2>3, <2>4, <2>5
  <1> QED BY <1>1, <1>2, <1>3

LEMMA EndsTransitive ==
  ASSUME NEW a \in Seq(Nat), NEW b \in Seq(Nat), NEW c \in Seq(Nat), Ends(a, b), Ends(b, c)
  PROVE  Ends(a, c)
  <1>1. Len(a) \in Nat /\ Len(b) \in Nat /\ Len(c) \in Nat
    OBVIOUS
  <1>2. ASSUME NEW i \in 1..Len(a) PROVE a[i] = c[Len(c) - Len(a) + i]
    <2>1. a[i] = b[Len(b) - Len(a) + i]
      BY DEF Ends
    <2>2. Len(b) - Len(a) + i \in 1..Len(b)
      BY <1>1 DEF Ends
    <2>3. b[Len(b) - Len(a) + i] = c[Len(c) - Len(b) + (Len(b) - Len(a) + i)]
      BY <2>2 DEF Ends
    <2> QED BY <1>1, <2>1, <2>3
  <1> QED BY <1>1, <1>2 DEF Ends

LEMMA EndsIsLast ==
  ASSUME NEW a \in Seq(Nat), NEW b \in Seq(Nat), Ends(a, b)
  PROVE  a = LastRecords(b, Len(a))
  <1> DEFINE cut == SubSeq(b, Len(b) - Len(a) + 1, Len(b))
  <1>1. Len(a) \in Nat /\ Len(b) \in Nat /\ Len(a) <= Len(b)
    BY DEF Ends
  <1>2. LastRecords(b, Len(a)) = cut
    BY <1>1 DEF LastRecords
  <1>3. cut \in Seq(Nat) /\ Len(cut) = Len(a)
        /\ \A i \in 1..Len(a) : cut[i] = b[Len(b) - Len(a) + i]
    <2>1. CASE Len(a) = 0
      BY <1>1, <2>1
    <2>2. CASE Len(a) # 0
      <3>1. Len(b) - Len(a) + 1 \in 1..Len(b) /\ Len(b) \in 1..Len(b)
        BY <1>1, <2>2
      <3> QED BY <1>1, <2>2, <3>1
    <2> QED BY <2>1, <2>2
  <1> HIDE DEF cut
  <1>4. a = cut
    <2>1. \A i \in 1..Len(a) : a[i] = cut[i]
      BY <1>3 DEF Ends
    <2> QED BY <1>3, <2>1, SeqEqual
  <1> QED BY <1>2, <1>4

\* add: one more record at the end, and one less at the front when there are as
\* many as the limit.
LEMMA AddRecordEnd ==
  ASSUME NEW records \in Seq(Nat), NEW all \in Seq(Nat), Ends(records, all),
         Len(records) <= limit, limit \in RecordLimits, NEW record \in Nat
  PROVE  /\ AddRecord(records, record) \in Seq(Nat)
         /\ Len(AddRecord(records, record)) <= limit
         /\ Ends(AddRecord(records, record), Append(all, record))
  <1>1. limit \in Nat /\ limit >= 1 /\ Len(records) \in Nat /\ Len(all) \in Nat
        /\ Len(records) <= Len(all)
    BY LimitType DEF Ends
  <1> DEFINE kept == IF Len(records) >= limit THEN Tail(records) ELSE records
             after == AddRecord(records, record)
  <1>2. /\ kept \in Seq(Nat) /\ Len(kept) \in Nat /\ Len(kept) + 1 <= limit
        /\ Len(kept) <= Len(all)
        /\ \A i \in 1..Len(kept) : kept[i] = all[Len(all) - Len(kept) + i]
    <2>1. CASE Len(records) >= limit
      <3>1. records # <<>> /\ kept = Tail(records)
        BY <1>1, <2>1
      <3>2. kept \in Seq(Nat) /\ Len(kept) = Len(records) - 1
            /\ \A i \in 1..Len(kept) : kept[i] = records[i + 1]
        BY <3>1
      <3> HIDE DEF kept
      <3>3. ASSUME NEW i \in 1..Len(kept) PROVE kept[i] = all[Len(all) - Len(kept) + i]
        <4>1. i + 1 \in 1..Len(records)
          BY <1>1, <3>2
        <4>2. records[i + 1] = all[Len(all) - Len(records) + (i + 1)]
          BY <4>1 DEF Ends
        <4> QED BY <1>1, <3>2, <4>2
      <3> QED BY <1>1, <2>1, <3>2, <3>3
    <2>2. CASE ~(Len(records) >= limit)
      <3>1. kept = records
        BY <2>2
      <3> QED BY <1>1, <2>2, <3>1 DEF Ends
    <2> QED BY <2>1, <2>2
  <1>3. after = Append(kept, record)
    BY DEF AddRecord
  <1> HIDE DEF kept, after
  <1>4. after \in Seq(Nat) /\ Len(after) = Len(kept) + 1
        /\ after[Len(kept) + 1] = record /\ \A i \in 1..Len(kept) : after[i] = kept[i]
    BY <1>2, <1>3
  <1> DEFINE more == Append(all, record)
  <1>5. Len(more) = Len(all) + 1 /\ more[Len(all) + 1] = record
        /\ \A i \in 1..Len(all) : more[i] = all[i]
    BY <1>1
  <1> HIDE DEF more
  <1>6. ASSUME NEW i \in 1..Len(after) PROVE after[i] = more[Len(more) - Len(after) + i]
    <2>1. CASE i = Len(kept) + 1
      <3>1. Len(more) - Len(after) + i = Len(all) + 1
        BY <1>1, <1>2, <1>4, <1>5, <2>1
      <3> QED BY <1>4, <1>5, <2>1, <3>1
    <2>2. CASE i # Len(kept) + 1
      <3>1. i \in 1..Len(kept)
        BY <1>2, <1>4, <2>2
      <3>2. Len(more) - Len(after) + i = Len(all) - Len(kept) + i
            /\ Len(all) - Len(kept) + i \in 1..Len(all)
        BY <1>1, <1>2, <1>4, <1>5, <3>1
      <3> QED BY <1>2, <1>4, <1>5, <3>1, <3>2
    <2> QED BY <2>1, <2>2
  <1>7. Ends(after, more)
    BY <1>1, <1>2, <1>4, <1>5, <1>6 DEF Ends
  <1> QED BY <1>1, <1>2, <1>4, <1>7 DEF after, more

(***************************************************************************)
(* Changes and who makes them                                              *)
(***************************************************************************)

\* The store of a change.
LEMMA Kinds ==
  ASSUME NEW key, NEW entry, NEW record, NEW threshold
  PROVE  /\ StoreOf(SetOf(key)) = "responses" /\ StoreOf(DeleteOf(key)) = "responses"
         /\ StoreOf(UpsertOf(key, entry)) = "vectors" /\ StoreOf(RemoveOf(key)) = "vectors"
         /\ StoreOf(AddOf(record)) = "records"
         /\ StoreOf(ThresholdOf(threshold)) = "thresholds"
  BY DEF SetOf, DeleteOf, UpsertOf, RemoveOf, AddOf, ThresholdOf, StoreOf

\* What each change does.
LEMMA ChangedBy ==
  ASSUME NEW key, NEW entry, NEW record, NEW threshold
  PROVE  /\ Changed(SetOf(key)) = [memory EXCEPT !.responses = @ \cup {key}]
         /\ Changed(DeleteOf(key)) = [memory EXCEPT !.responses = @ \ {key}]
         /\ Changed(UpsertOf(key, entry)) = [memory EXCEPT !.vectors = AddResult(@, key, entry)]
         /\ Changed(RemoveOf(key)) = [memory EXCEPT !.vectors = DeleteKey(@, key)]
         /\ Changed(AddOf(record)) = [memory EXCEPT !.records = AddRecord(@, record)]
         /\ Changed(ThresholdOf(threshold)) = [memory EXCEPT !.thresholds = threshold]
  <1>1. Changed(SetOf(key)) = [memory EXCEPT !.responses = @ \cup {key}]
    BY DEF SetOf, Changed
  <1>2. Changed(DeleteOf(key)) = [memory EXCEPT !.responses = @ \ {key}]
    BY DEF DeleteOf, Changed
  <1>3. Changed(UpsertOf(key, entry)) = [memory EXCEPT !.vectors = AddResult(@, key, entry)]
    BY DEF UpsertOf, Changed
  <1>4. Changed(RemoveOf(key)) = [memory EXCEPT !.vectors = DeleteKey(@, key)]
    BY DEF RemoveOf, Changed
  <1>5. Changed(AddOf(record)) = [memory EXCEPT !.records = AddRecord(@, record)]
    BY DEF AddOf, Changed
  <1>6. Changed(ThresholdOf(threshold)) = [memory EXCEPT !.thresholds = threshold]
    BY DEF ThresholdOf, Changed
  <1> QED BY <1>1, <1>2, <1>3, <1>4, <1>5, <1>6

\* What comes first in what is left of a call.
LEMMA HeadOfServing ==
  ASSUME NEW todo, NEW writing, ServingTodo(todo, writing)
  PROVE  /\ todo # <<>>
         /\ \/ \E key \in Keys, entry \in Entries :
                  /\ Head(todo) = SetOf(key) /\ Tail(todo) = <<UpsertOf(key, entry)>>
                  /\ writing => key \in memory.responses
            \/ \E key \in Keys, entry \in Entries :
                  /\ Head(todo) = UpsertOf(key, entry) /\ Tail(todo) = <<>>
                  /\ key \in memory.responses
            \/ \E key \in Keys :
                  /\ Head(todo) = RemoveOf(key) /\ Tail(todo) = <<DeleteOf(key)>>
                  /\ writing => memory.vectors.entries[key] = NoEntry
            \/ \E key \in Keys :
                  /\ Head(todo) = DeleteOf(key) /\ Tail(todo) = <<>>
                  /\ memory.vectors.entries[key] = NoEntry
            \/ \E record \in 1..MaxChanges : Head(todo) = AddOf(record) /\ Tail(todo) = <<>>
  <1>1. CASE \E key \in Keys, entry \in Entries :
                todo = <<SetOf(key), UpsertOf(key, entry)>> /\ (writing => key \in memory.responses)
    <2>1. PICK key \in Keys, entry \in Entries :
             todo = <<SetOf(key), UpsertOf(key, entry)>> /\ (writing => key \in memory.responses)
      BY <1>1
    <2>2. todo # <<>> /\ Head(todo) = SetOf(key) /\ Tail(todo) = <<UpsertOf(key, entry)>>
      BY <2>1
    <2> QED BY <2>1, <2>2
  <1>2. CASE \E key \in Keys, entry \in Entries :
                todo = <<UpsertOf(key, entry)>> /\ key \in memory.responses
    <2>1. PICK key \in Keys, entry \in Entries :
             todo = <<UpsertOf(key, entry)>> /\ key \in memory.responses
      BY <1>2
    <2>2. todo # <<>> /\ Head(todo) = UpsertOf(key, entry) /\ Tail(todo) = <<>>
      BY <2>1
    <2> QED BY <2>1, <2>2
  <1>3. CASE \E key \in Keys :
                /\ todo = <<RemoveOf(key), DeleteOf(key)>>
                /\ writing => memory.vectors.entries[key] = NoEntry
    <2>1. PICK key \in Keys :
             /\ todo = <<RemoveOf(key), DeleteOf(key)>>
             /\ writing => memory.vectors.entries[key] = NoEntry
      BY <1>3
    <2>2. todo # <<>> /\ Head(todo) = RemoveOf(key) /\ Tail(todo) = <<DeleteOf(key)>>
      BY <2>1
    <2> QED BY <2>1, <2>2
  <1>4. CASE \E key \in Keys :
                todo = <<DeleteOf(key)>> /\ memory.vectors.entries[key] = NoEntry
    <2>1. PICK key \in Keys : todo = <<DeleteOf(key)>> /\ memory.vectors.entries[key] = NoEntry
      BY <1>4
    <2>2. todo # <<>> /\ Head(todo) = DeleteOf(key) /\ Tail(todo) = <<>>
      BY <2>1
    <2> QED BY <2>1, <2>2
  <1>5. CASE \E record \in 1..MaxChanges : todo = <<AddOf(record)>>
    <2>1. PICK record \in 1..MaxChanges : todo = <<AddOf(record)>>
      BY <1>5
    <2>2. todo # <<>> /\ Head(todo) = AddOf(record) /\ Tail(todo) = <<>>
      BY <2>1
    <2> QED BY <2>1, <2>2
  <1> QED BY <1>1, <1>2, <1>3, <1>4, <1>5 DEF ServingTodo

LEMMA HeadOfThreshold ==
  ASSUME NEW todo, SetsThreshold(todo)
  PROVE  /\ todo # <<>> /\ Tail(todo) = <<>>
         /\ \E threshold \in Thresholds : Head(todo) = ThresholdOf(threshold)
  <1>1. PICK threshold \in Thresholds : todo = <<ThresholdOf(threshold)>>
    BY DEF SetsThreshold
  <1> QED BY <1>1

\* The kinds of changes: a thread that has one to make has one of these.
Kind(thread) ==
  LET todo == writers[thread].todo
  IN  /\ todo # <<>>
      /\ \/ /\ thread = "serving" /\ process = "up"
            /\ ServingTodo(todo, writers[thread].writing)
         \/ SetsThreshold(todo) /\ IF thread = "fit" THEN process = "up" ELSE process = "starting"

LEMMA KindOf ==
  ASSUME Typed, Todos, NEW thread \in Threads, writers[thread].todo # <<>>
  PROVE  Kind(thread)
  BY DEF Todos, Kind, Threads

\* No two threads have a change of one store to make.
LEMMA StoreOfKind ==
  ASSUME NEW thread \in Threads, Kind(thread)
  PROVE  /\ StoreOf(Head(writers[thread].todo)) \in Stores
         /\ process # "down"
         /\ thread = "fit" => /\ StoreOf(Head(writers[thread].todo)) = "thresholds"
                              /\ process = "up"
         /\ thread = "serving" =>
               \/ process = "up" /\ StoreOf(Head(writers[thread].todo)) # "thresholds"
               \/ process = "starting"
  <1> DEFINE todo == writers[thread].todo
  <1>1. CASE SetsThreshold(todo) /\ IF thread = "fit" THEN process = "up" ELSE process = "starting"
    <2>1. StoreOf(Head(todo)) = "thresholds"
      BY <1>1, HeadOfThreshold, Kinds
    <2> QED BY <1>1, <2>1 DEF Stores, Threads
  <1>2. CASE thread = "serving" /\ process = "up" /\ ServingTodo(todo, writers[thread].writing)
    <2>1. StoreOf(Head(todo)) \in {"responses", "vectors", "records"}
      <3>1. \/ \E key \in Keys : Head(todo) = SetOf(key)
            \/ \E key \in Keys, entry \in Entries : Head(todo) = UpsertOf(key, entry)
            \/ \E key \in Keys : Head(todo) = RemoveOf(key)
            \/ \E key \in Keys : Head(todo) = DeleteOf(key)
            \/ \E record \in 1..MaxChanges : Head(todo) = AddOf(record)
        BY <1>2, HeadOfServing
      <3> HIDE DEF todo
      <3> QED BY <3>1, Kinds
    <2> QED BY <1>2, <2>1 DEF Stores, Threads
  <1> QED BY <1>1, <1>2 DEF Kind

LEMMA Exclusive ==
  ASSUME Typed, Todos, NEW t \in Threads, NEW u \in Threads, t # u, NEW store,
         writers[t].todo # <<>>, StoreOf(Head(writers[t].todo)) = store
  PROVE  ~Writes(u, store)
  <1> SUFFICES ASSUME Writes(u, store) PROVE FALSE
    OBVIOUS
  <1>1. writers[u].todo # <<>> /\ StoreOf(Head(writers[u].todo)) = store
    BY DEF Writes, Todos
  <1>2. Kind(t) /\ Kind(u)
    BY <1>1, KindOf
  <1> QED BY <1>1, <1>2, StoreOfKind DEF Threads

(***************************************************************************)
(* The invariant is kept                                                   *)
(***************************************************************************)

EmptyMemory == [NoData EXCEPT !.vectors = EmptyMatrix]

LEMMA EmptyMemoryType ==
  /\ EmptyMemory \in MemoryType
  /\ EmptyMemory.responses = {} /\ EmptyMemory.vectors = EmptyMatrix
  /\ EmptyMemory.records = <<>> /\ EmptyMemory.thresholds = None
  <1>1. EmptyMemory \in [responses : {{}}, vectors : {EmptyMatrix}, records : {<<>>},
                         thresholds : {None}]
    <2>1. NoData \in [responses : {{}}, vectors : {EmptyMatrix.entries}, records : {<<>>},
                      thresholds : {None}]
      BY DEF NoData
    <2> QED BY <2>1 DEF EmptyMemory
  <1>2. EmptyMatrix \in Matrices /\ <<>> \in Seq(Nat)
    BY EmptyIsGood DEF GoodMatrix
  <1> QED BY <1>1, <1>2 DEF MemoryType, Limits

LEMMA NoEnds == \A all \in Seq(Nat) : Ends(<<>>, all)
  BY DEF Ends

LEMMA InitInv == Init => IInv
  <1> SUFFICES ASSUME Init PROVE IInv
    OBVIOUS
  <1>1. memory = EmptyMemory
    BY DEF Init, EmptyMemory
  <1>2. /\ memory \in MemoryType /\ memory.responses = {} /\ memory.vectors = EmptyMatrix
        /\ memory.records = <<>> /\ memory.thresholds = None
    BY <1>1, EmptyMemoryType
  <1>3. /\ GoodMatrix(memory.vectors)
        /\ EmptyMatrix.entries = [key \in Keys |-> NoEntry]
    BY <1>2, EmptyIsGood
  <1>4. /\ DOMAIN files = {"target", "tmp"} /\ DOMAIN files.target = Stores
        /\ \A store \in Stores : files.target[store] = Whole(NoData[store])
    BY DEF Init
  <1>5. /\ OnFile("responses") = {} /\ OnFile("vectors") = EmptyMatrix.entries
        /\ OnFile("records") = <<>> /\ OnFile("thresholds") = None
        /\ \A store \in Stores : files.target[store].whole
    BY <1>4 DEF OnFile, Whole, NoData, Stores
  <1>6. /\ DOMAIN writers = Threads
        /\ \A thread \in Threads :
              /\ DOMAIN writers[thread] = {"todo", "writing", "data"}
              /\ writers[thread].writing = FALSE /\ writers[thread].todo = <<>>
    BY DEF Init, Idle
  <1>7. Typed
    <2>1. EmptyMatrix.entries \in EntriesOf
      BY <1>3 DEF EntriesOf
    <2>2. 0 \in 0..MaxChanges /\ 0 \in 0..MaxCrashes /\ <<>> \in Seq(Nat)
      BY FileStoresAssumption
    <2> QED BY <1>2, <1>4, <1>5, <1>6, <2>1, <2>2 DEF Init, Typed, Limits
  <1>8. Todos
    BY <1>6 DEF Todos, Threads
  <1>9. limit \in RecordLimits /\ limit \in Nat /\ limit >= 1
    BY LimitType DEF Init
  <1>10. FilesFollow
    <2>1. \A store \in Stores : Saved(store)
      <3>1. LastRecords(<<>>, limit) = <<>>
        <4>1. <<>> \in Seq(Nat) /\ Len(<<>>) <= limit
          BY <1>9
        <4> QED BY <1>9, <4>1, LastRecordsEnd
      <3>2. Saved("responses")
        BY <1>2, <1>5 DEF Saved, Encode
      <3>3. Saved("vectors")
        BY <1>2, <1>5 DEF Saved, Encode
      <3>4. Saved("records")
        BY <1>2, <1>5, <3>1 DEF Saved
      <3>5. Saved("thresholds")
        BY <1>2, <1>5 DEF Saved, Encode
      <3> QED BY <3>2, <3>3, <3>4, <3>5 DEF Stores
    <2>2. \A thread \in Threads, store \in Stores : ~Writes(thread, store)
      BY <1>6 DEF Writes
    <2> QED BY <1>5, <2>1, <2>2 DEF FilesFollow
  <1>11. RecordsFollow
    <2>1. Ends(<<>>, log)
      BY <1>7, NoEnds DEF Typed
    <2>2. ~Writes("serving", "records")
      BY <1>6 DEF Writes, Threads
    <2> QED BY <1>2, <1>5, <1>9, <2>1, <2>2 DEF RecordsFollow
  <1>12. IndexedHasResponse
    <2>1. Indexed(EmptyMatrix.entries) = {}
      BY <1>3 DEF Indexed
    <2>2. Indexed(files.target.vectors.data) = {}
      BY <1>5, <2>1 DEF OnFile
    <2> QED BY <1>2, <2>1, <2>2 DEF IndexedHasResponse
  <1> QED BY <1>3, <1>7, <1>8, <1>10, <1>11, <1>12, <1>2 DEF IInv

\* A call leaves everything as it is but what its thread has to do.
LEMMA CallInv ==
  ASSUME IInv, NEW thread \in Threads, Call(thread), NEW todo,
         writers' = [writers EXCEPT ![thread].todo = todo],
         IF thread = "fit" THEN SetsThreshold(todo) ELSE ServingTodo(todo, FALSE)
  PROVE  IInv'
  <1>1. /\ process = "up" /\ writers[thread].todo = <<>> /\ writers[thread].writing = FALSE
        /\ changes' \in 0..MaxChanges
        /\ UNCHANGED <<memory, limit, files, process, log, crashes>>
    <2>1. writers[thread].todo = <<>> /\ writers[thread].writing = FALSE
      BY DEF Call, Idle
    <2>2. changes' \in 0..MaxChanges
      BY FileStoresAssumption DEF Call, IInv, Typed
    <2> QED BY <2>1, <2>2 DEF Call
  <1>2. /\ memory' = memory /\ limit' = limit /\ files' = files /\ process' = process
        /\ log' = log /\ crashes' = crashes
    BY <1>1
  <1>3. /\ DOMAIN writers' = Threads
        /\ \A u \in Threads : DOMAIN writers'[u] = {"todo", "writing", "data"}
        /\ writers'[thread].todo = todo /\ writers'[thread].writing = FALSE
        /\ \A u \in Threads : u # thread => writers'[u] = writers[u]
        /\ \A u \in Threads : writers'[u].writing = writers[u].writing
                              /\ writers'[u].data = writers[u].data
    BY <1>1 DEF IInv, Typed
  <1>4. Typed'
    BY <1>1, <1>2, <1>3 DEF IInv, Typed, OnFile
  <1>5. Todos'
    <2>1. ServingTodo(todo, FALSE)' <=> ServingTodo(todo, FALSE)
      BY <1>2 DEF ServingTodo
    <2>2. ServingTodo(writers["serving"].todo, writers["serving"].writing)
             => thread = "serving" \/ ServingTodo(writers["serving"].todo, writers["serving"].writing)'
      BY <1>2, <1>3 DEF ServingTodo, Threads
    <2>3. SetsThreshold(todo)' <=> SetsThreshold(todo)
      BY DEF SetsThreshold
    <2>4. thread = "fit" \/ thread = "serving"
      BY DEF Threads
    <2>5. \A u \in Threads : (writers[u].writing => writers[u].todo # <<>>)'
      BY <1>1, <1>3 DEF IInv, Todos
    <2>6. CASE thread = "fit"
      <3>1. writers'["serving"] = writers["serving"] /\ writers'["fit"].todo = todo
        BY <1>3, <2>6 DEF Threads
      <3>2. writers["serving"].todo = <<>>
               \/ ServingTodo(writers["serving"].todo, writers["serving"].writing)
        BY <1>1 DEF IInv, Todos
      <3>3. SetsThreshold(writers["fit"].todo)'
        BY <2>3, <2>6, <3>1
      <3> QED BY <1>1, <1>2, <2>2, <2>5, <2>6, <3>1, <3>2, <3>3 DEF Todos
    <2>7. CASE thread = "serving"
      <3>1. writers'["fit"] = writers["fit"] /\ writers'["serving"].todo = todo
            /\ writers'["serving"].writing = FALSE
        BY <1>3, <2>7 DEF Threads
      <3>2. writers["fit"].todo = <<>> \/ SetsThreshold(writers["fit"].todo)
        BY DEF IInv, Todos
      <3>3. ServingTodo(writers["serving"].todo, writers["serving"].writing)'
        BY <2>1, <2>7, <3>1
      <3>4. writers["fit"].todo' = <<>> \/ SetsThreshold(writers["fit"].todo)'
        BY <3>1, <3>2
      <3> QED BY <1>1, <1>2, <2>5, <3>1, <3>3, <3>4 DEF Todos
    <2> QED BY <2>4, <2>6, <2>7
  <1>6. \A u \in Threads : \A store : Writes(u, store)' <=> Writes(u, store)
    BY <1>1, <1>3 DEF Writes
  <1>7. \A store : Saved(store)' <=> Saved(store)
    BY <1>2 DEF Saved, OnFile
  <1>8. FilesFollow'
    BY <1>2, <1>3, <1>6, <1>7 DEF IInv, FilesFollow
  <1>9. RecordsFollow'
    <2>1. Writes("serving", "records")' => writers'["serving"] = writers["serving"]
      BY <1>1, <1>3, <1>6 DEF Writes, Threads
    <2>2. "serving" \in Threads
      BY DEF Threads
    <2> QED BY <1>2, <1>6, <2>1, <2>2 DEF IInv, RecordsFollow, OnFile
  <1>10. IndexedHasResponse' /\ GoodMatrix(memory.vectors)'
    BY <1>2 DEF IInv, IndexedHasResponse
  <1> QED BY <1>4, <1>5, <1>8, <1>9, <1>10 DEF IInv

LEMMA CallsInv == IInv /\ Calls => IInv'
  <1> SUFFICES ASSUME IInv, Calls PROVE IInv'
    OBVIOUS
  <1>0. "serving" \in Threads /\ "fit" \in Threads
    BY DEF Threads
  <1>1. ASSUME NEW key \in Keys, NEW entry \in Entries, Put(key, entry) PROVE IInv'
    <2>1. ServingTodo(PutChanges(key, entry), FALSE)
      BY DEF ServingTodo, PutChanges, SetOf, UpsertOf
    <2> QED BY <1>0, <1>1, <2>1, CallInv DEF Put
  <1>2. ASSUME NEW key \in Keys, Invalidate(key) PROVE IInv'
    <2>1. ServingTodo(<<[do |-> "remove", key |-> key], [do |-> "delete", key |-> key]>>, FALSE)
      BY DEF ServingTodo, RemoveOf, DeleteOf
    <2> QED BY <1>0, <1>2, <2>1, CallInv DEF Invalidate
  <1>3. ASSUME AddQueryRecord PROVE IInv'
    <2>1. PICK record : record = changes + 1
      OBVIOUS
    <2>2. record \in 1..MaxChanges
      BY <1>3, <2>1, FileStoresAssumption DEF AddQueryRecord, Call, IInv, Typed
    <2>3. ServingTodo(<<[do |-> "add", record |-> record]>>, FALSE)
      BY <2>2 DEF ServingTodo, AddOf
    <2>4. /\ Call("serving")
          /\ writers' = [writers EXCEPT !["serving"].todo = <<[do |-> "add", record |-> record]>>]
      BY <1>3, <2>1 DEF AddQueryRecord
    <2> QED BY <1>0, <2>3, <2>4, CallInv
  <1>4. ASSUME NEW threshold \in Thresholds, SetThreshold(threshold) PROVE IInv'
    <2>1. SetsThreshold(<<[do |-> "set_threshold", threshold |-> threshold]>>)
      BY DEF SetsThreshold, ThresholdOf
    <2> QED BY <1>0, <1>4, <2>1, CallInv DEF SetThreshold
  <1> QED BY <1>1, <1>2, <1>3, <1>4 DEF Calls

\* What a thread does when it has made its change and begins to write.
LEMMA ChangeMoves ==
  ASSUME IInv, NEW t \in Threads, Change(t)
  PROVE  /\ Kind(t) /\ ~writers[t].writing
         /\ memory' = Changed(Head(writers[t].todo))
         /\ files'.target = files.target /\ DOMAIN files' = {"target", "tmp"}
         /\ DOMAIN writers' = Threads
         /\ \A u \in Threads : DOMAIN writers'[u] = {"todo", "writing", "data"}
         /\ writers'[t].todo = writers[t].todo /\ writers'[t].writing = TRUE
         /\ writers'[t].data = Whole(Encode(StoreOf(Head(writers[t].todo)), memory'))
         /\ \A u \in Threads : u # t => writers'[u] = writers[u]
         /\ limit' = limit /\ process' = process /\ log' = log
         /\ changes' = changes /\ crashes' = crashes
  <1>1. Kind(t) /\ ~writers[t].writing
    BY KindOf DEF Change, IInv
  <1>2. memory' = Changed(Head(writers[t].todo))
    BY DEF Change
  <1>3. files' = [files EXCEPT !["tmp"][StoreOf(Head(writers[t].todo))]
                     = Torn(StoreOf(Head(writers[t].todo)))]
    BY DEF Change, Scratch
  <1>4. files'.target = files.target /\ DOMAIN files' = {"target", "tmp"}
    BY <1>3 DEF IInv, Typed
  <1> DEFINE w == [todo |-> writers[t].todo, writing |-> TRUE,
                   data |-> Whole(Encode(StoreOf(Head(writers[t].todo)), memory'))]
  <1>5. writers' = [writers EXCEPT ![t] = w]
    BY <1>2 DEF Change, Encoded
  <1>6. DOMAIN w = {"todo", "writing", "data"} /\ w.todo = writers[t].todo /\ w.writing = TRUE
        /\ w.data = Whole(Encode(StoreOf(Head(writers[t].todo)), memory'))
    OBVIOUS
  <1> HIDE DEF w
  <1>7. /\ DOMAIN writers' = Threads /\ writers'[t] = w
        /\ \A u \in Threads : u # t => writers'[u] = writers[u]
    BY <1>5 DEF IInv, Typed
  <1>8. \A u \in Threads : DOMAIN writers'[u] = {"todo", "writing", "data"}
    BY <1>6, <1>7 DEF IInv, Typed
  <1>9. limit' = limit /\ process' = process /\ log' = log
        /\ changes' = changes /\ crashes' = crashes
    BY DEF Change, counts
  <1> QED BY <1>1, <1>2, <1>4, <1>6, <1>7, <1>8, <1>9

\* The file of a store is followed by its writer, the others as before.
LEMMA ChangeFollows ==
  ASSUME IInv, NEW t \in Threads, Change(t),
         \A store \in Stores : store # StoreOf(Head(writers[t].todo)) =>
            Encode(store, memory') = Encode(store, memory)
  PROVE  FilesFollow'
  <1> DEFINE mine == StoreOf(Head(writers[t].todo))
  <1>1. writers[t].todo # <<>> /\ mine \in Stores
    BY ChangeMoves, StoreOfKind DEF Kind
  <1>2. \A u \in Threads, store \in Stores :
           Writes(u, store)' <=> IF u = t THEN store = mine ELSE Writes(u, store)
    BY ChangeMoves DEF Writes
  <1>3. ~Writes(t, mine) /\ \A store \in Stores : ~Writes(t, store)
    BY ChangeMoves DEF Writes
  <1>4. \A u \in Threads : u # t => ~Writes(u, mine)
    BY <1>1, Exclusive DEF IInv
  <1>5. \A store \in Stores : files'.target[store].whole
    BY ChangeMoves DEF IInv, FilesFollow
  <1>6. ASSUME process' # "down", NEW store \in Stores,
               \A u \in Threads : ~Writes(u, store)'
        PROVE  Saved(store)'
    <2>1. store # mine /\ \A u \in Threads : ~Writes(u, store)
      BY <1>2, <1>3, <1>6
    <2>2. process # "down"
      BY <1>6, ChangeMoves
    <2>3. Saved(store)
      BY <2>1, <2>2 DEF IInv, FilesFollow
    <2>4. Encode(store, memory') = Encode(store, memory)
      BY <2>1
    <2>5. files'.target = files.target /\ limit' = limit
      BY ChangeMoves
    <2>6. CASE store = "records"
      <3>1. memory'.records = memory.records
        BY <2>4, <2>6 DEF Encode
      <3> QED BY <2>3, <2>5, <2>6, <3>1 DEF Saved, OnFile
    <2>7. CASE store # "records"
      BY <2>3, <2>4, <2>5, <2>7 DEF Saved, OnFile
    <2> QED BY <2>6, <2>7
  <1>7. ASSUME NEW u \in Threads, NEW store \in Stores, Writes(u, store)'
        PROVE  writers'[u].data = Whole(Encode(store, memory'))
    <2>1. CASE u = t
      <3>1. store = mine
        BY <1>2, <1>7, <2>1
      <3> QED BY <2>1, <3>1, ChangeMoves
    <2>2. CASE u # t
      <3>1. Writes(u, store) /\ store # mine
        BY <1>2, <1>4, <1>7, <2>2
      <3>2. writers[u].data = Whole(Encode(store, memory))
        BY <3>1 DEF IInv, FilesFollow
      <3>3. writers'[u] = writers[u]
        BY <2>2, ChangeMoves
      <3> QED BY <3>1, <3>2, <3>3
    <2> QED BY <2>1, <2>2
  <1> QED BY <1>5, <1>6, <1>7 DEF FilesFollow

\* Encodings of the stores, one by one.
LEMMA EncodeOf ==
  ASSUME NEW m
  PROVE  /\ Encode("responses", m) = m.responses /\ Encode("vectors", m) = m.vectors.entries
         /\ Encode("records", m) = m.records /\ Encode("thresholds", m) = m.thresholds
  BY DEF Encode

\* The rest of the invariant, of a change that says what it does to the memory.
LEMMA ChangeTyped ==
  ASSUME IInv, NEW t \in Threads, Change(t), memory' \in MemoryType
  PROVE  Typed'
  <1>1. /\ limit' \in RecordLimits /\ process' \in {"down", "starting", "up"}
        /\ log' \in Seq(Nat) /\ changes' \in 0..MaxChanges /\ crashes' \in 0..MaxCrashes
    BY ChangeMoves DEF IInv, Typed
  <1>2. /\ OnFile("responses")' \in SUBSET Keys /\ OnFile("vectors")' \in EntriesOf
        /\ OnFile("records")' \in Seq(Nat) /\ OnFile("thresholds")' \in Limits
        /\ DOMAIN files' = {"target", "tmp"} /\ DOMAIN files'.target = Stores
    BY ChangeMoves DEF IInv, Typed, OnFile
  <1>3. /\ DOMAIN writers' = Threads
        /\ \A u \in Threads : DOMAIN writers'[u] = {"todo", "writing", "data"}
        /\ \A u \in Threads : writers'[u].writing \in BOOLEAN
    BY ChangeMoves DEF IInv, Typed
  <1> QED BY <1>1, <1>2, <1>3 DEF Typed

\* Threads other than the serving one have thresholds to set, and nothing else
\* depends on those.
LEMMA OtherTodos ==
  ASSUME IInv, NEW t \in Threads, Change(t),
         \/ writers["serving"].todo = <<>>
         \/ process = "up" /\ ServingTodo(writers["serving"].todo, writers["serving"].writing)'
         \/ process = "starting" /\ SetsThreshold(writers["serving"].todo)
  PROVE  Todos'
  <1>1. /\ writers'["serving"].todo = writers["serving"].todo
        /\ writers'["fit"].todo = writers["fit"].todo
        /\ process' = process
    BY ChangeMoves DEF Threads
  <1>2. \A u \in Threads : writers'[u].writing => writers'[u].todo # <<>>
    BY ChangeMoves DEF Kind, IInv, Todos
  <1>3. \/ writers["fit"].todo = <<>>
        \/ process = "up" /\ SetsThreshold(writers["fit"].todo)
    BY DEF IInv, Todos
  <1>4. /\ SetsThreshold(writers["fit"].todo)' <=> SetsThreshold(writers["fit"].todo)
        /\ SetsThreshold(writers["serving"].todo)' <=> SetsThreshold(writers["serving"].todo)
    BY <1>1 DEF SetsThreshold
  <1> QED BY <1>1, <1>2, <1>3, <1>4 DEF Todos

LEMMA OtherRecords ==
  ASSUME IInv, NEW t \in Threads, Change(t), memory'.records = memory.records,
         StoreOf(Head(writers[t].todo)) # "records"
  PROVE  RecordsFollow'
  <1>1. files'.target = files.target /\ limit' = limit /\ log' = log
    BY ChangeMoves
  <1>2. Ends(OnFile("records"), log)' /\ Len(memory'.records) <= limit'
    BY <1>1 DEF IInv, RecordsFollow, OnFile
  <1>3. ASSUME Writes("serving", "records")'
        PROVE  writers'["serving"] = writers["serving"] /\ Writes("serving", "records")
    <2>1. t # "serving"
      BY <1>3, ChangeMoves DEF Writes
    <2>2. writers'["serving"] = writers["serving"]
      BY <2>1, ChangeMoves DEF Threads
    <2> QED BY <1>3, <2>2 DEF Writes
  <1>4. Writes("serving", "records")' =>
           Ends(memory'.records, Append(log', Head(writers'["serving"].todo).record))
    BY <1>1, <1>3 DEF IInv, RecordsFollow
  <1> QED BY <1>2, <1>4 DEF RecordsFollow

\* The serving thread in a call.
LEMMA ServingChangeInv ==
  ASSUME IInv, Change("serving"), process = "up",
         ServingTodo(writers["serving"].todo, writers["serving"].writing)
  PROVE  IInv'
  <1> DEFINE todo == writers["serving"].todo
             c == Head(todo)
  <1>0. "serving" \in Threads
    BY DEF Threads
  <1>1. /\ Typed /\ GoodMatrix(memory.vectors) /\ memory \in MemoryType
        /\ memory.responses \in SUBSET Keys /\ memory.vectors \in Matrices
        /\ memory.vectors.entries \in EntriesOf
        /\ memory' = Changed(c)
        /\ writers'["serving"].todo = todo /\ writers'["serving"].writing = TRUE
        /\ files'.target = files.target
    BY <1>0, ChangeMoves, MatrixFields DEF IInv, Typed, MemoryType
  <1>2. /\ Indexed(OnFile("vectors")) \subseteq OnFile("responses")
        /\ Indexed(memory.vectors.entries) \subseteq memory.responses
    BY DEF IInv, IndexedHasResponse, OnFile
  <1>3. ASSUME memory' \in MemoryType, GoodMatrix(memory'.vectors),
               Indexed(memory'.vectors.entries) \subseteq memory'.responses,
               ServingTodo(todo, TRUE)', FilesFollow', RecordsFollow'
        PROVE  IInv'
    <2>1. Typed'
      BY <1>0, <1>3, ChangeTyped
    <2>2. ServingTodo(writers["serving"].todo, writers["serving"].writing)'
      BY <1>1, <1>3
    <2>3. Todos'
      BY <1>0, <2>2, OtherTodos
    <2>4. IndexedHasResponse'
      BY <1>1, <1>2, <1>3 DEF IndexedHasResponse, OnFile
    <2> QED BY <1>3, <2>1, <2>3, <2>4 DEF IInv
  <1>4. CASE \E key \in Keys, entry \in Entries :
                todo = <<SetOf(key), UpsertOf(key, entry)>>
    <2>1. PICK key \in Keys, entry \in Entries : todo = <<SetOf(key), UpsertOf(key, entry)>>
      BY <1>4
    <2>2. c = SetOf(key)
      BY <2>1
    <2>3. memory' = [memory EXCEPT !.responses = @ \cup {key}] /\ StoreOf(c) = "responses"
      BY <1>1, <2>2, ChangedBy, Kinds
    <2>4. /\ memory'.responses = memory.responses \cup {key} /\ memory'.vectors = memory.vectors
          /\ memory'.records = memory.records /\ memory'.thresholds = memory.thresholds
          /\ memory' \in MemoryType
      BY <1>1, <2>3 DEF MemoryType
    <2>5. \A store \in Stores : store # StoreOf(c) => Encode(store, memory') = Encode(store, memory)
      BY <2>3, <2>4, EncodeOf DEF Stores
    <2>6. FilesFollow' /\ RecordsFollow'
      BY <1>0, <2>3, <2>4, <2>5, ChangeFollows, OtherRecords
    <2>7. ServingTodo(todo, TRUE)'
      BY <1>1, <2>1, <2>4 DEF ServingTodo
    <2> QED BY <1>1, <1>2, <1>3, <2>4, <2>6, <2>7
  <1>5. CASE \E key \in Keys, entry \in Entries :
                todo = <<UpsertOf(key, entry)>> /\ key \in memory.responses
    <2>1. PICK key \in Keys, entry \in Entries :
             todo = <<UpsertOf(key, entry)>> /\ key \in memory.responses
      BY <1>5
    <2>2. c = UpsertOf(key, entry)
      BY <2>1
    <2> DEFINE m == AddResult(memory.vectors, key, entry)
    <2>3. memory' = [memory EXCEPT !.vectors = m] /\ StoreOf(c) = "vectors"
      BY <1>1, <2>2, ChangedBy, Kinds
    <2>4. GoodMatrix(m) /\ m.entries = [memory.vectors.entries EXCEPT ![key] = entry]
      BY <1>1, AddResultGood
    <2>5. m \in Matrices
      BY <2>4 DEF GoodMatrix
    <2> HIDE DEF m
    <2>6. /\ memory'.responses = memory.responses /\ memory'.vectors = m
          /\ memory'.records = memory.records /\ memory'.thresholds = memory.thresholds
          /\ memory' \in MemoryType
      BY <1>1, <2>3, <2>5 DEF MemoryType
    <2>7. \A store \in Stores : store # StoreOf(c) => Encode(store, memory') = Encode(store, memory)
      BY <2>3, <2>6, EncodeOf DEF Stores
    <2>8. FilesFollow' /\ RecordsFollow'
      BY <1>0, <2>3, <2>6, <2>7, ChangeFollows, OtherRecords
    <2>9. ServingTodo(todo, TRUE)'
      BY <1>1, <2>1, <2>6 DEF ServingTodo
    <2>10. Indexed(m.entries) \subseteq memory.responses
      BY <1>1, <1>2, <2>1, <2>4 DEF Indexed, EntriesOf
    <2> QED BY <1>3, <2>4, <2>6, <2>8, <2>9, <2>10
  <1>6. CASE \E key \in Keys : todo = <<RemoveOf(key), DeleteOf(key)>>
    <2>1. PICK key \in Keys : todo = <<RemoveOf(key), DeleteOf(key)>>
      BY <1>6
    <2>2. c = RemoveOf(key)
      BY <2>1
    <2> DEFINE m == DeleteKey(memory.vectors, key)
    <2>3. memory' = [memory EXCEPT !.vectors = m] /\ StoreOf(c) = "vectors"
      BY <1>1, <2>2, ChangedBy, Kinds
    <2>4. GoodMatrix(m) /\ m.entries = [memory.vectors.entries EXCEPT ![key] = NoEntry]
      BY <1>1, DeleteKeyGood
    <2>5. m \in Matrices
      BY <2>4 DEF GoodMatrix
    <2> HIDE DEF m
    <2>6. /\ memory'.responses = memory.responses /\ memory'.vectors = m
          /\ memory'.records = memory.records /\ memory'.thresholds = memory.thresholds
          /\ memory' \in MemoryType
      BY <1>1, <2>3, <2>5 DEF MemoryType
    <2>7. \A store \in Stores : store # StoreOf(c) => Encode(store, memory') = Encode(store, memory)
      BY <2>3, <2>6, EncodeOf DEF Stores
    <2>8. FilesFollow' /\ RecordsFollow'
      BY <1>0, <2>3, <2>6, <2>7, ChangeFollows, OtherRecords
    <2>9. m.entries[key] = NoEntry /\ Indexed(m.entries) \subseteq memory.responses
      BY <1>1, <1>2, <2>4 DEF Indexed, EntriesOf
    <2>10. ServingTodo(todo, TRUE)'
      BY <1>1, <2>1, <2>6, <2>9 DEF ServingTodo
    <2> QED BY <1>3, <2>4, <2>6, <2>8, <2>9, <2>10
  <1>7. CASE \E key \in Keys :
                todo = <<DeleteOf(key)>> /\ memory.vectors.entries[key] = NoEntry
    <2>1. PICK key \in Keys : todo = <<DeleteOf(key)>> /\ memory.vectors.entries[key] = NoEntry
      BY <1>7
    <2>2. c = DeleteOf(key)
      BY <2>1
    <2>3. memory' = [memory EXCEPT !.responses = @ \ {key}] /\ StoreOf(c) = "responses"
      BY <1>1, <2>2, ChangedBy, Kinds
    <2>4. /\ memory'.responses = memory.responses \ {key} /\ memory'.vectors = memory.vectors
          /\ memory'.records = memory.records /\ memory'.thresholds = memory.thresholds
          /\ memory' \in MemoryType
      BY <1>1, <2>3 DEF MemoryType
    <2>5. \A store \in Stores : store # StoreOf(c) => Encode(store, memory') = Encode(store, memory)
      BY <2>3, <2>4, EncodeOf DEF Stores
    <2>6. FilesFollow' /\ RecordsFollow'
      BY <1>0, <2>3, <2>4, <2>5, ChangeFollows, OtherRecords
    <2>7. ServingTodo(todo, TRUE)'
      BY <1>1, <2>1, <2>4 DEF ServingTodo
    <2>8. Indexed(memory.vectors.entries) \subseteq memory.responses \ {key}
      BY <1>2, <2>1 DEF Indexed
    <2> QED BY <1>1, <1>3, <2>4, <2>6, <2>7, <2>8
  <1>8. CASE \E record \in 1..MaxChanges : todo = <<AddOf(record)>>
    <2>1. PICK record \in 1..MaxChanges : todo = <<AddOf(record)>>
      BY <1>8
    <2>2. c = AddOf(record) /\ c.record = record /\ record \in Nat /\ todo # <<>>
      BY <2>1 DEF AddOf
    <2> DEFINE r == AddRecord(memory.records, record)
    <2>3. memory' = [memory EXCEPT !.records = r] /\ StoreOf(c) = "records"
      <3>1. Changed(AddOf(record)) = [memory EXCEPT !.records = r]
        BY ChangedBy
      <3>2. StoreOf(AddOf(record)) = "records"
        BY Kinds
      <3> QED BY <1>1, <2>2, <3>1, <3>2
    <2>4. Ends(memory.records, log) /\ Len(memory.records) <= limit
      <3>1. ~Writes("serving", "records")
        BY <1>0, ChangeMoves DEF Writes
      <3>2. \A u \in Threads : ~Writes(u, "records")
        BY <1>0, <1>1, <2>2, <2>3, <3>1, Exclusive DEF IInv
      <3>3. Saved("records")
        BY <3>2 DEF IInv, FilesFollow, Stores
      <3>4. memory.records = LastRecords(OnFile("records"), limit)
        BY <3>3 DEF Saved
      <3>5. OnFile("records") \in Seq(Nat) /\ log \in Seq(Nat) /\ limit \in Nat /\ limit >= 1
            /\ Ends(OnFile("records"), log)
        BY LimitType DEF IInv, Typed, RecordsFollow
      <3>6. memory.records \in Seq(Nat) /\ Ends(memory.records, OnFile("records"))
        BY <3>4, <3>5, LastRecordsEnd
      <3> QED BY <3>5, <3>6, EndsTransitive DEF IInv, RecordsFollow
    <2>5. /\ r \in Seq(Nat) /\ Len(r) <= limit /\ Ends(r, Append(log, record))
      <3>1. memory.records \in Seq(Nat) /\ log \in Seq(Nat) /\ limit \in RecordLimits
        BY <1>1 DEF IInv, Typed, MemoryType
      <3> QED BY <2>2, <2>4, <3>1, AddRecordEnd
    <2> HIDE DEF r
    <2>6. /\ memory'.responses = memory.responses /\ memory'.vectors = memory.vectors
          /\ memory'.records = r /\ memory'.thresholds = memory.thresholds
          /\ memory' \in MemoryType
      BY <1>1, <2>3, <2>5 DEF MemoryType
    <2>7. \A store \in Stores : store # StoreOf(c) => Encode(store, memory') = Encode(store, memory)
      BY <2>3, <2>6, EncodeOf DEF Stores
    <2>8. FilesFollow'
      BY <1>0, <2>7, ChangeFollows
    <2>9. RecordsFollow'
      <3>1. limit' = limit /\ log' = log
        BY <1>0, ChangeMoves
      <3>2. Ends(OnFile("records"), log)'
        BY <1>1, <3>1 DEF IInv, RecordsFollow, OnFile
      <3>3. Head(writers'["serving"].todo).record = record
        BY <1>1, <2>2
      <3> QED BY <2>5, <2>6, <3>1, <3>2, <3>3 DEF RecordsFollow
    <2>10. ServingTodo(todo, TRUE)'
      BY <1>1, <2>1 DEF ServingTodo
    <2> QED BY <1>1, <1>2, <1>3, <2>6, <2>8, <2>9, <2>10
  <1> QED BY <1>4, <1>5, <1>6, <1>7, <1>8 DEF ServingTodo

\* A threshold: in a fit, or when the process starts.
LEMMA ThresholdChangeInv ==
  ASSUME IInv, NEW t \in Threads, Change(t), SetsThreshold(writers[t].todo),
         IF t = "fit" THEN process = "up" ELSE process = "starting"
  PROVE  IInv'
  <1>1. PICK threshold \in Thresholds : Head(writers[t].todo) = ThresholdOf(threshold)
    BY HeadOfThreshold
  <1>2. memory' = [memory EXCEPT !.thresholds = threshold]
        /\ StoreOf(Head(writers[t].todo)) = "thresholds"
    <2>1. Changed(ThresholdOf(threshold)) = [memory EXCEPT !.thresholds = threshold]
      BY ChangedBy
    <2>2. StoreOf(ThresholdOf(threshold)) = "thresholds"
      BY Kinds
    <2>3. memory' = Changed(Head(writers[t].todo))
      BY ChangeMoves
    <2> QED BY <1>1, <2>1, <2>2, <2>3
  <1>3. /\ memory'.responses = memory.responses /\ memory'.vectors = memory.vectors
        /\ memory'.records = memory.records /\ memory' \in MemoryType
    <2>1. memory \in MemoryType /\ threshold \in Limits
      BY DEF IInv, Typed, Limits
    <2> QED BY <1>2, <2>1 DEF MemoryType
  <1>4. \A store \in Stores : store # StoreOf(Head(writers[t].todo)) =>
           Encode(store, memory') = Encode(store, memory)
    BY <1>2, <1>3, EncodeOf DEF Stores
  <1>5. FilesFollow' /\ RecordsFollow' /\ Typed'
    BY <1>2, <1>3, <1>4, ChangeFollows, OtherRecords, ChangeTyped
  <1>6. Todos'
    <2>1. CASE t = "serving"
      BY <2>1, OtherTodos
    <2>2. CASE t = "fit"
      <3>1. writers'["serving"] = writers["serving"]
        BY <2>2, ChangeMoves DEF Threads
      <3>2. ServingTodo(writers["serving"].todo, writers["serving"].writing)
              => ServingTodo(writers["serving"].todo, writers["serving"].writing)'
        BY <1>3, <3>1 DEF ServingTodo
      <3>3. \/ writers["serving"].todo = <<>>
            \/ process = "up" /\ ServingTodo(writers["serving"].todo, writers["serving"].writing)
        BY <2>2 DEF IInv, Todos
      <3> QED BY <3>2, <3>3, OtherTodos
    <2> QED BY <2>1, <2>2 DEF Threads
  <1>7. IndexedHasResponse' /\ GoodMatrix(memory.vectors)'
    <2>1. files'.target = files.target
      BY ChangeMoves
    <2> QED BY <1>3, <2>1 DEF IInv, IndexedHasResponse
  <1> QED BY <1>3, <1>5, <1>6, <1>7 DEF IInv

LEMMA ChangeInv ==
  ASSUME IInv, NEW t \in Threads, Change(t)
  PROVE  IInv'
  <1>1. Kind(t)
    BY ChangeMoves
  <1> QED BY <1>1, ServingChangeInv, ThresholdChangeInv DEF Kind

\* Responses, vectors and records are written by the serving thread only.
LEMMA ServingWrites ==
  ASSUME IInv, NEW u \in Threads, NEW store \in Stores, Writes(u, store)
  PROVE  /\ Kind(u)
         /\ store # "thresholds" => u = "serving"
  <1>1. writers[u].todo # <<>> /\ StoreOf(Head(writers[u].todo)) = store
    BY DEF Writes, IInv, Todos
  <1>2. Kind(u)
    BY <1>1, KindOf DEF IInv
  <1>3. u = "fit" => StoreOf(Head(writers[u].todo)) = "thresholds"
    BY <1>2, StoreOfKind
  <1> QED BY <1>1, <1>2, <1>3 DEF Threads

\* What a thread does when it replaces the file.
LEMMA ReplaceMoves ==
  ASSUME IInv, NEW t \in Threads, Replace(t)
  PROVE  LET mine == StoreOf(Head(writers[t].todo))
         IN  /\ mine \in Stores /\ Writes(t, mine) /\ Kind(t)
             /\ files'.target = [files.target EXCEPT ![mine] = Whole(Encode(mine, memory))]
             /\ DOMAIN files' = {"target", "tmp"}
             /\ DOMAIN writers' = Threads
             /\ \A u \in Threads : DOMAIN writers'[u] = {"todo", "writing", "data"}
             /\ writers'[t].todo = Tail(writers[t].todo) /\ writers'[t].writing = FALSE
             /\ \A u \in Threads : u # t => writers'[u] = writers[u]
             /\ memory' = memory /\ limit' = limit /\ process' = process
             /\ changes' = changes /\ crashes' = crashes
             /\ log' = IF mine = "records" THEN Append(log, Head(writers[t].todo).record) ELSE log
  <1> DEFINE mine == StoreOf(Head(writers[t].todo))
             change == Head(writers[t].todo)
  <1>1. writers[t].writing /\ Writes(t, mine)
    BY DEF Replace, Writes
  <1>2. Kind(t)
    BY <1>1, KindOf DEF IInv, Todos
  <1>3. mine \in Stores
    BY <1>2, StoreOfKind
  <1>4. writers[t].data = Whole(Encode(mine, memory))
    BY <1>1, <1>3 DEF IInv, FilesFollow
  <1>5. files' = [files EXCEPT !.target[mine] = writers[t].data, !.tmp[mine] = Whole(NoData[mine])]
    BY DEF Replace
  <1>6. /\ files'.target = [files.target EXCEPT ![mine] = Whole(Encode(mine, memory))]
        /\ DOMAIN files' = {"target", "tmp"}
    BY <1>4, <1>5 DEF IInv, Typed
  <1> DEFINE w == [Idle EXCEPT !.todo = Tail(writers[t].todo)]
  <1>7. writers' = [writers EXCEPT ![t] = w]
    BY DEF Replace
  <1>8. DOMAIN w = {"todo", "writing", "data"} /\ w.todo = Tail(writers[t].todo)
        /\ w.writing = FALSE
    BY DEF Idle
  <1> HIDE DEF w
  <1>9. /\ DOMAIN writers' = Threads /\ writers'[t] = w
        /\ \A u \in Threads : u # t => writers'[u] = writers[u]
    BY <1>7 DEF IInv, Typed
  <1>10. \A u \in Threads : DOMAIN writers'[u] = {"todo", "writing", "data"}
    BY <1>8, <1>9 DEF IInv, Typed
  <1>11. memory' = memory /\ limit' = limit /\ process' = process
         /\ changes' = changes /\ crashes' = crashes
    BY DEF Replace, counts
  <1>12. log' = IF mine = "records" THEN Append(log, change.record) ELSE log
    <2>1. change.do = "add" <=> mine = "records"
      <3>1. change.do = "add" => mine = "records"
        BY DEF StoreOf
      <3>2. ASSUME mine = "records" PROVE change.do = "add"
        <4>1. ServingTodo(writers[t].todo, writers[t].writing)
          <5>1. ~SetsThreshold(writers[t].todo)
            BY <3>2, HeadOfThreshold, Kinds
          <5> QED BY <1>2, <5>1 DEF Kind
        <4>2. \/ \E key \in Keys : change = SetOf(key)
              \/ \E key \in Keys, entry \in Entries : change = UpsertOf(key, entry)
              \/ \E key \in Keys : change = RemoveOf(key)
              \/ \E key \in Keys : change = DeleteOf(key)
              \/ \E record \in 1..MaxChanges : change = AddOf(record)
          BY <4>1, HeadOfServing
        <4>3. StoreOf(change) = "records"
          BY <3>2
        <4> HIDE DEF change
        <4>4. \E record \in 1..MaxChanges : change = AddOf(record)
          BY <4>2, <4>3, Kinds
        <4> QED BY <4>4 DEF AddOf
      <3> QED BY <3>1, <3>2
    <2>2. log' = IF change.do = "add" THEN Append(log, change.record) ELSE log
      BY DEF Replace
    <2> QED BY <2>1, <2>2
  <1> QED BY <1>1, <1>2, <1>3, <1>6, <1>8, <1>9, <1>10, <1>11, <1>12

\* What is left of the call.
LEMMA ReplaceTodos ==
  ASSUME IInv, NEW t \in Threads, Replace(t)
  PROVE  Todos'
  <1> DEFINE todo == writers[t].todo
  <1>0. /\ Kind(t) /\ writers[t].writing /\ process' = process /\ memory' = memory
        /\ writers'[t].todo = Tail(todo) /\ writers'[t].writing = FALSE
        /\ \A u \in Threads : u # t => writers'[u] = writers[u]
    BY ReplaceMoves DEF Writes
  <1>1. \A u \in Threads : writers'[u].writing => writers'[u].todo # <<>>
    BY <1>0 DEF IInv, Todos
  <1>2. ASSUME SetsThreshold(todo) PROVE Tail(todo) = <<>>
    BY <1>2, HeadOfThreshold
  <1>3. CASE t = "fit"
    <2>1. writers'["serving"] = writers["serving"] /\ writers'["fit"].todo = Tail(todo)
          /\ process = "up"
      BY <1>0, <1>3, StoreOfKind DEF Threads
    <2>2. Tail(todo) = <<>>
      BY <1>0, <1>2, <1>3 DEF Kind
    <2>3. writers["serving"].todo = <<>>
          \/ ServingTodo(writers["serving"].todo, writers["serving"].writing)
      BY <2>1 DEF IInv, Todos
    <2>4. ServingTodo(writers["serving"].todo, writers["serving"].writing)
            => ServingTodo(writers["serving"].todo, writers["serving"].writing)'
      BY <1>0, <2>1 DEF ServingTodo
    <2> QED BY <1>0, <1>1, <2>1, <2>2, <2>3, <2>4 DEF Todos
  <1>4. CASE t = "serving"
    <2>1. writers'["fit"] = writers["fit"] /\ writers'["serving"].todo = Tail(todo)
          /\ writers'["serving"].writing = FALSE
      BY <1>0, <1>4 DEF Threads
    <2>2. \/ writers["fit"].todo = <<>>
          \/ process = "up" /\ SetsThreshold(writers["fit"].todo)
      BY DEF IInv, Todos
    <2>3. SetsThreshold(writers["fit"].todo) => SetsThreshold(writers["fit"].todo)'
      BY <2>1 DEF SetsThreshold
    <2>4. \/ Tail(todo) = <<>>
          \/ process = "up" /\ ServingTodo(Tail(todo), FALSE)
      <3>1. CASE SetsThreshold(todo)
        BY <1>2, <3>1
      <3>2. CASE process = "up" /\ ServingTodo(todo, writers[t].writing)
        <4>1. \/ Tail(todo) = <<>>
              \/ \E key \in Keys, entry \in Entries :
                    Tail(todo) = <<UpsertOf(key, entry)>> /\ key \in memory.responses
              \/ \E key \in Keys :
                    Tail(todo) = <<DeleteOf(key)>> /\ memory.vectors.entries[key] = NoEntry
          BY <1>0, <3>2, HeadOfServing
        <4> HIDE DEF todo
        <4> QED BY <3>2, <4>1 DEF ServingTodo
      <3> QED BY <1>0, <3>1, <3>2 DEF Kind
    <2>5. ServingTodo(Tail(todo), FALSE) => ServingTodo(writers["serving"].todo, writers["serving"].writing)'
      BY <1>0, <2>1 DEF ServingTodo
    <2> QED BY <1>0, <1>1, <2>1, <2>2, <2>3, <2>4, <2>5 DEF Todos
  <1> QED BY <1>3, <1>4 DEF Threads

LEMMA ReplaceInv ==
  ASSUME IInv, NEW t \in Threads, Replace(t)
  PROVE  IInv'
  <1> DEFINE mine == StoreOf(Head(writers[t].todo))
  <1>0. /\ mine \in Stores /\ Writes(t, mine) /\ Kind(t)
        /\ files'.target = [files.target EXCEPT ![mine] = Whole(Encode(mine, memory))]
        /\ DOMAIN files' = {"target", "tmp"}
        /\ DOMAIN writers' = Threads
        /\ \A u \in Threads : DOMAIN writers'[u] = {"todo", "writing", "data"}
        /\ writers'[t].writing = FALSE
        /\ \A u \in Threads : u # t => writers'[u] = writers[u]
        /\ memory' = memory /\ limit' = limit /\ process' = process
        /\ changes' = changes /\ crashes' = crashes
        /\ log' = IF mine = "records" THEN Append(log, Head(writers[t].todo).record) ELSE log
    BY ReplaceMoves
  <1> HIDE DEF mine
  <1>1. /\ \A store \in Stores : OnFile(store)' = IF store = mine THEN Encode(mine, memory)
                                                 ELSE OnFile(store)
        /\ \A store \in Stores : files'.target[store].whole
        /\ DOMAIN files'.target = Stores
    BY <1>0 DEF OnFile, Whole, IInv, Typed, FilesFollow
  <1>2. /\ memory.responses \in SUBSET Keys /\ memory.vectors.entries \in EntriesOf
        /\ memory.records \in Seq(Nat) /\ memory.thresholds \in Limits
    BY MatrixFields DEF IInv, Typed, MemoryType
  <1>3. /\ Encode("responses", memory) = memory.responses
        /\ Encode("vectors", memory) = memory.vectors.entries
        /\ Encode("records", memory) = memory.records
        /\ Encode("thresholds", memory) = memory.thresholds
    BY EncodeOf
  <1>4. /\ "responses" \in Stores /\ "vectors" \in Stores
        /\ "records" \in Stores /\ "thresholds" \in Stores
    BY DEF Stores
  <1>5. /\ \A u \in Threads, store \in Stores :
              Writes(u, store)' <=> u # t /\ Writes(u, store)
        /\ \A store \in Stores : store # mine => ~Writes(t, store)
    BY <1>0 DEF Writes, mine
  <1>6. \A store \in Stores : mine # "thresholds" /\ store # "thresholds" /\ store # mine =>
           Saved(store)
    <2> SUFFICES ASSUME NEW store \in Stores, mine # "thresholds", store # "thresholds", store # mine
                 PROVE  Saved(store)
      OBVIOUS
    <2>1. t = "serving"
      BY <1>0, ServingWrites
    <2>2. \A u \in Threads : ~Writes(u, store)
      BY <1>5, <2>1, ServingWrites
    <2>3. process # "down"
      BY <1>0, StoreOfKind
    <2> QED BY <2>2, <2>3 DEF IInv, FilesFollow
  <1>7. log' \in Seq(Nat) /\ Ends(OnFile("records"), log)'
    <2>1. CASE mine = "records"
      <3>1. t = "serving"
        BY <1>0, <2>1, ServingWrites
      <3>2. Ends(memory.records, Append(log, Head(writers[t].todo).record))
        BY <1>0, <2>1, <3>1 DEF IInv, RecordsFollow
      <3>3. \E record \in Nat : Head(writers[t].todo) = AddOf(record)
        <4>1. ServingTodo(writers[t].todo, writers[t].writing)
          <5>1. ~SetsThreshold(writers[t].todo)
            BY <2>1, HeadOfThreshold, Kinds DEF mine
          <5> QED BY <1>0, <5>1 DEF Kind
        <4> DEFINE change == Head(writers[t].todo)
        <4>2. \/ \E key \in Keys : change = SetOf(key)
              \/ \E key \in Keys, entry \in Entries : change = UpsertOf(key, entry)
              \/ \E key \in Keys : change = RemoveOf(key)
              \/ \E key \in Keys : change = DeleteOf(key)
              \/ \E record \in 1..MaxChanges : change = AddOf(record)
          BY <4>1, HeadOfServing
        <4>3. StoreOf(change) = "records"
          BY <2>1 DEF mine
        <4> HIDE DEF change
        <4>4. \E record \in 1..MaxChanges : change = AddOf(record)
          BY <4>2, <4>3, Kinds
        <4> QED BY <4>4, FileStoresAssumption DEF change
      <3>4. Head(writers[t].todo).record \in Nat
        BY <3>3 DEF AddOf
      <3>5. log \in Seq(Nat)
        BY DEF IInv, Typed
      <3>6. log' = Append(log, Head(writers[t].todo).record) /\ OnFile("records")' = memory.records
        BY <1>0, <1>1, <1>3, <1>4, <2>1
      <3>7. log' \in Seq(Nat)
        BY <3>4, <3>5, <3>6
      <3>8. Ends(OnFile("records")', log')
        BY <3>2, <3>6
      <3> QED BY <3>7, <3>8 DEF Ends
    <2>2. CASE mine # "records"
      <3>1. log' = log /\ OnFile("records")' = OnFile("records")
        BY <1>0, <1>1, <1>4, <2>2
      <3> QED BY <3>1 DEF IInv, Typed, RecordsFollow, Ends
    <2> QED BY <2>1, <2>2
  <1>8. Typed'
    <2>1. /\ OnFile("responses")' \in SUBSET Keys
          /\ OnFile("vectors")' \in EntriesOf
          /\ OnFile("records")' \in Seq(Nat)
          /\ OnFile("thresholds")' \in Limits
      BY <1>1, <1>2, <1>3, <1>4 DEF IInv, Typed
    <2>2. \A u \in Threads : writers'[u].writing \in BOOLEAN
      BY <1>0 DEF IInv, Typed
    <2>3. memory' \in MemoryType /\ limit' \in RecordLimits
          /\ process' \in {"down", "starting", "up"}
          /\ changes' \in 0..MaxChanges /\ crashes' \in 0..MaxCrashes
      BY <1>0 DEF IInv, Typed
    <2> QED BY <1>0, <1>1, <1>7, <2>1, <2>2, <2>3 DEF Typed
  <1>9. FilesFollow'
    <2>1. ASSUME process' # "down", NEW store \in Stores, \A u \in Threads : ~Writes(u, store)'
          PROVE  Saved(store)'
      <3>1. CASE store = mine
        <4>1. OnFile(store)' = Encode(store, memory)
          BY <1>1, <3>1
        <4>2. store = "records" => memory.records = LastRecords(memory.records, limit)
          <5>1. Len(memory.records) <= limit /\ limit \in Nat /\ limit >= 1
            BY LimitType DEF IInv, Typed, RecordsFollow
          <5> QED BY <1>2, <5>1, LastRecordsEnd
        <4> QED BY <1>0, <1>3, <4>1, <4>2 DEF Saved
      <3>2. CASE store # mine
        <4>1. \A u \in Threads : ~Writes(u, store)
          BY <1>5, <2>1, <3>2
        <4>2. Saved(store)
          BY <1>0, <2>1, <4>1 DEF IInv, FilesFollow
        <4>3. OnFile(store)' = OnFile(store)
          BY <1>1, <3>2
        <4>4. CASE store = "records"
          BY <1>0, <4>2, <4>3, <4>4 DEF Saved
        <4>5. CASE store # "records"
          BY <1>0, <4>2, <4>3, <4>5 DEF Saved
        <4> QED BY <4>4, <4>5
      <3> QED BY <3>1, <3>2
    <2>2. ASSUME NEW u \in Threads, NEW store \in Stores, Writes(u, store)'
          PROVE  writers'[u].data = Whole(Encode(store, memory'))
      <3>1. u # t /\ Writes(u, store)
        BY <1>5, <2>2
      <3>2. writers[u].data = Whole(Encode(store, memory))
        BY <3>1 DEF IInv, FilesFollow
      <3> QED BY <1>0, <3>1, <3>2
    <2> QED BY <1>1, <2>1, <2>2 DEF FilesFollow
  <1>10. RecordsFollow'
    <2>1. ASSUME Writes("serving", "records")'
          PROVE  Ends(memory'.records, Append(log', Head(writers'["serving"].todo).record))
      <3>1. t # "serving" /\ Writes("serving", "records")
        BY <1>4, <1>5, <2>1 DEF Threads
      <3>2. mine # "records"
        BY <1>0, <3>1, ServingWrites
      <3>3. log' = log /\ writers'["serving"] = writers["serving"]
        BY <1>0, <3>1, <3>2 DEF Threads
      <3> QED BY <1>0, <3>1, <3>3 DEF IInv, RecordsFollow
    <2>2. Len(memory'.records) <= limit'
      BY <1>0 DEF IInv, RecordsFollow
    <2> QED BY <1>7, <2>1, <2>2 DEF RecordsFollow
  <1>11. IndexedHasResponse'
    <2>1. /\ Indexed(OnFile("vectors")) \subseteq OnFile("responses")
          /\ Indexed(memory.vectors.entries) \subseteq memory.responses
      BY DEF IInv, IndexedHasResponse, OnFile
    <2>2. CASE mine = "vectors"
      <3>1. Saved("responses")
        BY <1>4, <1>6, <2>2
      <3>2. OnFile("responses") = memory.responses
        BY <1>3, <3>1 DEF Saved
      <3>3. OnFile("responses")' = memory.responses /\ OnFile("vectors")' = memory.vectors.entries
        BY <1>1, <1>3, <1>4, <2>2, <3>2
      <3> QED BY <1>0, <2>1, <3>3 DEF IndexedHasResponse, OnFile
    <2>3. CASE mine = "responses"
      <3>1. Saved("vectors")
        BY <1>4, <1>6, <2>3
      <3>2. OnFile("vectors") = memory.vectors.entries
        BY <1>3, <3>1 DEF Saved
      <3>3. OnFile("responses")' = memory.responses /\ OnFile("vectors")' = memory.vectors.entries
        BY <1>1, <1>3, <1>4, <2>3, <3>2
      <3> QED BY <1>0, <2>1, <3>3 DEF IndexedHasResponse, OnFile
    <2>4. CASE mine \notin {"vectors", "responses"}
      <3>1. OnFile("responses")' = OnFile("responses") /\ OnFile("vectors")' = OnFile("vectors")
        BY <1>1, <1>4, <2>4
      <3> QED BY <1>0, <2>1, <3>1 DEF IndexedHasResponse, OnFile
    <2> QED BY <2>2, <2>3, <2>4
  <1>12. Todos'
    BY ReplaceTodos
  <1>13. GoodMatrix(memory.vectors)'
    BY <1>0 DEF IInv
  <1> QED BY <1>8, <1>9, <1>10, <1>11, <1>12, <1>13 DEF IInv

(***************************************************************************)
(* Crashes and starts                                                      *)
(***************************************************************************)

LEMMA CrashInv == IInv /\ Crash => IInv'
  <1> SUFFICES ASSUME IInv, Crash PROVE IInv'
    OBVIOUS
  <1>1. /\ memory' = EmptyMemory /\ process' = "down"
        /\ limit' = limit /\ files' = files /\ log' = log /\ changes' = changes
    BY DEF Crash, EmptyMemory
  <1>2. /\ memory' \in MemoryType /\ memory'.responses = {} /\ memory'.vectors = EmptyMatrix
        /\ memory'.records = <<>>
    BY <1>1, EmptyMemoryType
  <1>3. GoodMatrix(memory'.vectors) /\ Indexed(memory'.vectors.entries) = {}
    BY <1>2, EmptyIsGood DEF Indexed
  <1>4. /\ DOMAIN writers' = Threads
        /\ \A u \in Threads : /\ DOMAIN writers'[u] = {"todo", "writing", "data"}
                              /\ writers'[u].todo = <<>> /\ writers'[u].writing = FALSE
    BY DEF Crash, Idle
  <1>5. crashes' \in 0..MaxCrashes
    BY FileStoresAssumption DEF Crash, IInv, Typed
  <1>6. Typed'
    BY <1>1, <1>2, <1>4, <1>5 DEF IInv, Typed, OnFile
  <1>7. Todos'
    BY <1>4 DEF Todos, Threads
  <1>8. \A u \in Threads, store \in Stores : ~Writes(u, store)'
    BY <1>4 DEF Writes
  <1>9. FilesFollow'
    BY <1>1, <1>8 DEF IInv, FilesFollow
  <1>10. RecordsFollow'
    <2>1. Len(memory'.records) <= limit'
      BY <1>1, <1>2, LimitType DEF IInv, Typed
    <2>2. ~Writes("serving", "records")'
      BY <1>8 DEF Threads, Stores
    <2> QED BY <1>1, <2>1, <2>2 DEF IInv, RecordsFollow, OnFile
  <1>11. IndexedHasResponse'
    BY <1>1, <1>2, <1>3 DEF IInv, IndexedHasResponse
  <1> QED BY <1>3, <1>6, <1>7, <1>9, <1>10, <1>11 DEF IInv

\* What a process loads is what the files hold; the matrix is built again.
LEMMA LoadIs ==
  ASSUME NEW max
  PROVE  Load(max) = [responses |-> OnFile("responses"),
                      vectors |-> DecodeVectors(OnFile("vectors")),
                      records |-> LastRecords(OnFile("records"), max),
                      thresholds |-> OnFile("thresholds")]
  <1> DEFINE data == [store \in Stores |-> files.target[store].data]
  <1>1. /\ data.responses = OnFile("responses") /\ data.vectors = OnFile("vectors")
        /\ data.records = OnFile("records") /\ data.thresholds = OnFile("thresholds")
    BY DEF Stores, OnFile
  <1>2. Load(max) = [responses |-> data.responses, vectors |-> DecodeVectors(data.vectors),
                     records |-> LastRecords(data.records, max),
                     thresholds |-> data.thresholds]
    BY DEF Load
  <1> HIDE DEF data
  <1> QED BY <1>1, <1>2

LEMMA StartInv ==
  ASSUME IInv, NEW max \in RecordLimits, NEW configured \in Thresholds \cup {None},
         Start(max, configured)
  PROVE  IInv'
  <1> DEFINE todo == IF configured = None THEN <<>> ELSE <<ThresholdOf(configured)>>
  <1>1. /\ process = "down" /\ process' = "starting" /\ limit' = max /\ memory' = Load(max)
        /\ writers' = [writers EXCEPT !["serving"].todo = todo]
        /\ files' = files /\ log' = log /\ changes' = changes /\ crashes' = crashes
    BY DEF Start, counts, ThresholdOf
  <1>2. todo = <<>> \/ SetsThreshold(todo)
    BY FileStoresAssumption DEF SetsThreshold
  <1> HIDE DEF todo
  <1>3. /\ writers["serving"].todo = <<>> /\ writers["fit"].todo = <<>>
        /\ \A u \in Threads : writers[u].writing = FALSE
    <2>1. writers["serving"].todo = <<>> /\ writers["fit"].todo = <<>>
      BY <1>1 DEF IInv, Todos
    <2> QED BY <2>1 DEF IInv, Typed, Todos, Threads
  <1>4. /\ DOMAIN writers' = Threads
        /\ \A u \in Threads : DOMAIN writers'[u] = {"todo", "writing", "data"}
        /\ writers'["serving"].todo = todo /\ writers'["fit"].todo = <<>>
        /\ \A u \in Threads : writers'[u].writing = FALSE
    BY <1>1, <1>3 DEF IInv, Typed, Threads
  <1>5. /\ memory'.responses = OnFile("responses")
        /\ memory'.vectors = DecodeVectors(OnFile("vectors"))
        /\ memory'.records = LastRecords(OnFile("records"), max)
        /\ memory'.thresholds = OnFile("thresholds")
        /\ DOMAIN memory' = {"responses", "vectors", "records", "thresholds"}
        /\ memory' = [responses |-> memory'.responses, vectors |-> memory'.vectors,
                      records |-> memory'.records, thresholds |-> memory'.thresholds]
    BY <1>1, LoadIs
  <1>6. /\ OnFile("responses") \in SUBSET Keys /\ OnFile("vectors") \in EntriesOf
        /\ OnFile("records") \in Seq(Nat) /\ OnFile("thresholds") \in Limits
        /\ log \in Seq(Nat) /\ max \in Nat /\ max >= 1
    BY LimitType DEF IInv, Typed
  <1>7. GoodMatrix(memory'.vectors) /\ memory'.vectors.entries = OnFile("vectors")
    BY <1>5, <1>6, DecodeGood
  <1>8. /\ memory'.records \in Seq(Nat) /\ Len(memory'.records) <= limit'
    BY <1>1, <1>5, <1>6, LastRecordsEnd
  <1>9. memory' \in MemoryType
    <2>1. memory'.vectors \in Matrices
      BY <1>7 DEF GoodMatrix
    <2>2. memory'.responses \in SUBSET Keys /\ memory'.thresholds \in Limits
      BY <1>5, <1>6
    <2> QED BY <1>5, <1>8, <2>1, <2>2 DEF MemoryType
  <1>10. Typed'
    BY <1>1, <1>4, <1>9 DEF IInv, Typed, OnFile
  <1>11. Todos'
    <2>1. SetsThreshold(todo) => SetsThreshold(writers["serving"].todo)'
      BY <1>4 DEF SetsThreshold
    <2> QED BY <1>1, <1>2, <1>4, <2>1 DEF Todos
  <1>12. \A u \in Threads, store \in Stores : ~Writes(u, store)'
    BY <1>4 DEF Writes
  <1>13. FilesFollow'
    <2>1. \A store \in Stores : OnFile(store)' = OnFile(store)
      BY <1>1 DEF OnFile
    <2>2. Saved("responses")'
      BY <1>5, <2>1 DEF Saved, Encode, Stores
    <2>3. Saved("vectors")'
      BY <1>7, <2>1 DEF Saved, Encode, Stores
    <2>4. Saved("records")'
      BY <1>1, <1>5, <2>1 DEF Saved, Stores
    <2>5. Saved("thresholds")'
      BY <1>5, <2>1 DEF Saved, Encode, Stores
    <2>6. \A store \in Stores : Saved(store)'
      BY <2>2, <2>3, <2>4, <2>5 DEF Stores
    <2>7. \A store \in Stores : files'.target[store].whole
      BY <1>1 DEF IInv, FilesFollow
    <2> QED BY <1>12, <2>6, <2>7 DEF FilesFollow
  <1>14. RecordsFollow'
    <2>1. ~Writes("serving", "records")'
      BY <1>12 DEF Threads, Stores
    <2> QED BY <1>1, <1>8, <2>1 DEF IInv, RecordsFollow, OnFile
  <1>15. IndexedHasResponse'
    <2>1. /\ files' = files
          /\ memory'.vectors.entries = files.target.vectors.data
          /\ memory'.responses = files.target.responses.data
      BY <1>1, <1>5, <1>7 DEF OnFile
    <2> QED BY <2>1 DEF IInv, IndexedHasResponse
  <1> QED BY <1>7, <1>10, <1>11, <1>13, <1>14, <1>15 DEF IInv

LEMMA StartedInv == IInv /\ Started => IInv'
  <1> SUFFICES ASSUME IInv, Started PROVE IInv'
    OBVIOUS
  <1>1. /\ process = "starting" /\ process' = "up" /\ writers["serving"].todo = <<>>
        /\ memory' = memory /\ limit' = limit /\ files' = files /\ writers' = writers
        /\ log' = log /\ changes' = changes /\ crashes' = crashes
    BY DEF Started, counts, Idle
  <1>2. Typed'
    BY <1>1 DEF IInv, Typed, OnFile
  <1>3. writers["fit"].todo = <<>>
    BY <1>1 DEF IInv, Todos
  <1>4. Todos'
    BY <1>1, <1>3 DEF IInv, Todos
  <1>5. /\ \A u \in Threads, store \in Stores : Writes(u, store)' <=> Writes(u, store)
        /\ \A store \in Stores : Saved(store)' <=> Saved(store)
    BY <1>1 DEF Writes, Saved, OnFile
  <1>6. FilesFollow'
    BY <1>1, <1>5 DEF IInv, FilesFollow
  <1>7. RecordsFollow'
    BY <1>1 DEF IInv, RecordsFollow, OnFile, Writes
  <1>8. IndexedHasResponse' /\ GoodMatrix(memory.vectors)'
    BY <1>1 DEF IInv, IndexedHasResponse
  <1> QED BY <1>2, <1>4, <1>6, <1>7, <1>8 DEF IInv

LEMMA NextInv == IInv /\ [Next]_vars => IInv'
  <1> SUFFICES ASSUME IInv, [Next]_vars PROVE IInv'
    OBVIOUS
  <1>1. CASE Calls
    BY <1>1, CallsInv
  <1>2. ASSUME NEW t \in Threads, Persists(t) PROVE IInv'
    BY <1>2, ChangeInv, ReplaceInv DEF Persists
  <1>3. CASE Crash
    BY <1>3, CrashInv
  <1>4. ASSUME NEW max \in RecordLimits, NEW configured \in Thresholds \cup {None},
               Start(max, configured)
        PROVE  IInv'
    BY <1>4, StartInv
  <1>5. CASE Started
    BY <1>5, StartedInv
  <1>6. CASE UNCHANGED vars
    <2>1. /\ memory' = memory /\ limit' = limit /\ files' = files /\ writers' = writers
          /\ process' = process /\ log' = log /\ changes' = changes /\ crashes' = crashes
      BY <1>6 DEF vars
    <2>2. Typed' /\ GoodMatrix(memory.vectors)'
      BY <2>1 DEF IInv, Typed, OnFile
    <2>3. Todos'
      BY <2>1 DEF IInv, Todos, ServingTodo, SetsThreshold
    <2>4. /\ \A u \in Threads, store \in Stores : Writes(u, store)' <=> Writes(u, store)
          /\ \A store \in Stores : Saved(store)' <=> Saved(store)
      BY <2>1 DEF Writes, Saved, OnFile
    <2>5. FilesFollow'
      BY <2>1, <2>4 DEF IInv, FilesFollow
    <2>6. RecordsFollow' /\ IndexedHasResponse'
      BY <2>1 DEF IInv, RecordsFollow, OnFile, Writes, IndexedHasResponse
    <2> QED BY <2>2, <2>3, <2>5, <2>6 DEF IInv
  <1> QED BY <1>1, <1>2, <1>3, <1>4, <1>5, <1>6 DEF Next

(***************************************************************************)
(* Theorems                                                                *)
(***************************************************************************)

\* Whatever is called and wherever the process crashes, no temporary file is
\* ever taken for a store's file, a matrix answers for its entries row by row,
\* and a file that nobody writes holds what the store holds.
THEOREM Invariant == Spec => []IInv
  BY InitInv, NextInv, PTL DEF Spec

\* The types of what the stores hold, of the limit of the process and of the
\* records persisted.
THEOREM TypeCorrect == Spec => []TypeOK
  <1>1. IInv => TypeOK
    BY DEF IInv, Typed, TypeOK, MemoryType, Limits
  <1> QED BY <1>1, Invariant, PTL

\* What a call returned for survives: once the threads have nothing to finish,
\* a process that starts with the same configuration loads what this one holds.
THEOREM Survives == Spec => []ReturnedSurvives
  <1>1. IInv => ReturnedSurvives
    <2> SUFFICES ASSUME IInv, process = "up", \A thread \in Threads : writers[thread] = Idle
                 PROVE  LET loaded == Load(limit)
                        IN  /\ loaded.vectors.entries = memory.vectors.entries
                            /\ [loaded EXCEPT !.vectors = memory.vectors] = memory
      BY DEF ReturnedSurvives
    <2>1. \A u \in Threads, store \in Stores : ~Writes(u, store)
      BY DEF Writes, Idle
    <2>2. \A store \in Stores : Saved(store)
      BY <2>1 DEF IInv, FilesFollow
    <2>3. /\ OnFile("responses") = memory.responses
          /\ OnFile("vectors") = memory.vectors.entries
          /\ OnFile("thresholds") = memory.thresholds
          /\ memory.records = LastRecords(OnFile("records"), limit)
      BY <2>2 DEF Saved, Encode, Stores
    <2>4. DecodeVectors(OnFile("vectors")).entries = OnFile("vectors")
      BY DecodeGood DEF IInv, Typed
    <2> DEFINE loaded == Load(limit)
    <2>5. loaded = [responses |-> memory.responses,
                    vectors |-> DecodeVectors(OnFile("vectors")),
                    records |-> memory.records, thresholds |-> memory.thresholds]
      BY <2>3, LoadIs
    <2> HIDE DEF loaded
    <2>6. loaded.vectors.entries = memory.vectors.entries
      BY <2>3, <2>4, <2>5
    <2>7. [loaded EXCEPT !.vectors = memory.vectors] = memory
      <3>1. memory = [responses |-> memory.responses, vectors |-> memory.vectors,
                      records |-> memory.records, thresholds |-> memory.thresholds]
        BY DEF IInv, Typed, MemoryType
      <3> QED BY <2>5, <3>1
    <2> QED BY <2>6, <2>7 DEF loaded
  <1> QED BY <1>1, Invariant, PTL

\* At any moment, of a process and of the files that a crash would leave, every
\* vector that a search may find has its response.
THEOREM IndexedAnswers == Spec => []IndexedHasResponse
  <1>1. IInv => IndexedHasResponse
    BY DEF IInv
  <1> QED BY <1>1, Invariant, PTL

\* A search finds the most similar entries of the namespace, as many as there
\* are up to top_k, whatever deletions and restarts did to the rows.
THEOREM NearestFound == Spec => []SearchIsNearest
  <1>1. IInv => SearchIsNearest
    <2> SUFFICES ASSUME IInv, NEW query \in Embeddings, NEW namespace \in Namespaces \cup {None},
                        NEW k \in 1..Len(KeyOrder),
                        NEW found \in SearchResults(memory.vectors, query, namespace, k)
                 PROVE  LET entries == memory.vectors.entries
                            all == {key \in Indexed(entries) :
                                       namespace \in {None, entries[key].namespace}}
                        IN  /\ found \subseteq all
                            /\ Cardinality(found) = IF k < Cardinality(all) THEN k
                                                    ELSE Cardinality(all)
                            /\ \A a \in found, b \in all \ found :
                                  Similarity[entries[a].embedding, query]
                                     >= Similarity[entries[b].embedding, query]
      BY Zenon DEF SearchIsNearest
    <2>1. PICK store : store = memory.vectors
      OBVIOUS
    <2>2. GoodMatrix(store) /\ found \in SearchResults(store, query, namespace, k)
      BY <2>1 DEF IInv
    <2>3. LET all == Visible(store, namespace)
          IN  /\ found \subseteq all
              /\ Cardinality(found) = IF k < Cardinality(all) THEN k ELSE Cardinality(all)
              /\ \A a \in found, b \in all \ found :
                    Alike(store.entries[a], query) >= Alike(store.entries[b], query)
      BY <2>2, SearchGood
    <2> QED BY <2>1, <2>3, Zenon DEF Visible, Alike
  <1> QED BY <1>1, Invariant, PTL

\* The bounded store holds the latest of the records whose add returned, over
\* restarts with other limits too.
THEOREM LatestKept == Spec => []RecordsAreLatest
  <1>1. IInv => RecordsAreLatest
    <2> SUFFICES ASSUME IInv, process = "up", writers["serving"] = Idle
                 PROVE  /\ Len(memory.records) <= limit
                        /\ memory.records = LastRecords(log, Len(memory.records))
      BY DEF RecordsAreLatest
    <2>1. \A u \in Threads : ~Writes(u, "records")
      <3>1. ~Writes("serving", "records")
        BY DEF Writes, Idle
      <3> QED BY <3>1, ServingWrites DEF Stores
    <2>2. memory.records = LastRecords(OnFile("records"), limit)
      BY <2>1 DEF IInv, FilesFollow, Saved, Stores
    <2>3. /\ memory.records \in Seq(Nat) /\ OnFile("records") \in Seq(Nat) /\ log \in Seq(Nat)
          /\ limit \in Nat /\ limit >= 1 /\ Ends(OnFile("records"), log)
          /\ Len(memory.records) <= limit
      BY LimitType DEF IInv, Typed, MemoryType, RecordsFollow
    <2>4. Ends(memory.records, OnFile("records"))
      BY <2>2, <2>3, LastRecordsEnd
    <2>5. Ends(memory.records, log)
      BY <2>3, <2>4, EndsTransitive
    <2> QED BY <2>3, <2>5, EndsIsLast
  <1> QED BY <1>1, Invariant, PTL
=============================================================================
