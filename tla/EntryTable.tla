----------------------------- MODULE EntryTable -----------------------------
(***************************************************************************)
(* What the SQL repositories promise about cache entries: each operation   *)
(* happens at once, at one moment between its call and its return, and the *)
(* outbox tells the story of every row in the order it happened.           *)
(* SqlEntries implements this, statement by statement.                     *)
(***************************************************************************)
EXTENDS Naturals

CONSTANTS
    Keys,
    Numbers   \* versions, faiss_ids and event_ids

VARIABLES
    late,     \* may an invalidation that found no row be noted late?
    entry,    \* cache_entries
    payload,  \* cache_payloads: the version of the response, 0 for none
    outbox,   \* outbox_events, processed or not
    processed \* the event_ids with a processed_at

table == <<entry, payload, outbox, processed>>

Absent == [status |-> "ABSENT", id |-> 0, version |-> 0, hits |-> 0]

\* Entries of earlier processes are active, and their events were processed.
Init ==
    /\ \A k \in Keys : entry[k] # Absent => entry[k].status = "ACTIVE"
    /\ \A k \in Keys : payload[k] = entry[k].version
    /\ \A j, k \in Keys : entry[j].id = entry[k].id => j = k \/ entry[j] = Absent
    /\ outbox = {}
    /\ processed = {}

Exists(k) == entry[k].status # "ABSENT"

\* An invalidation that found no row and took no number in turn.
OutOfTurn(e) == late /\ e.type = "DELETE_ENTRY" /\ e.id = 0

\* The event is the newest of its key.
Tells(type, k, id) ==
    \E n \in Numbers :
        /\ \A e \in outbox :
              e.event # n /\ (e.key = k => e.event < n \/ OutOfTurn(e))
        /\ outbox' = outbox \cup {[event |-> n, type |-> type, key |-> k, id |-> id]}

\* A key has one faiss_id for ever, and no other key has it.
Put(k, v) ==
    /\ \E id \in Numbers :
          /\ IF Exists(k) THEN id = entry[k].id
             ELSE \A j \in Keys : entry[j].id # id
          /\ entry' = [entry EXCEPT ![k] = [status |-> "PENDING_INDEX", id |-> id,
                                            version |-> v, hits |-> @.hits]]
          /\ Tells("UPSERT_ENTRY", k, id)
    /\ payload' = [payload EXCEPT ![k] = v]
    /\ UNCHANGED processed

SetPayload(k, v) ==
    /\ Exists(k)
    /\ payload' = [payload EXCEPT ![k] = v]
    /\ UNCHANGED <<entry, outbox, processed>>

\* The faiss_id of the event is the row's, or missing.
Tombstone(k) ==
    /\ Exists(k)
    /\ entry' = [entry EXCEPT ![k].status = "TOMBSTONED"]
    /\ Tells("DELETE_ENTRY", k, entry[k].id) \/ Tells("DELETE_ENTRY", k, 0)
    /\ UNCHANGED <<payload, processed>>

\* There is an event even when there was no row.
TombstoneNothing(k) ==
    /\ Exists(k) => late
    /\ \E n \in Numbers :
          /\ \A e \in outbox : e.event # n
          /\ outbox' = outbox \cup {[event |-> n, type |-> "DELETE_ENTRY",
                                     key |-> k, id |-> 0]}
    /\ UNCHANGED <<entry, payload, processed>>

MarkIndexed(k) ==
    /\ entry[k].status = "PENDING_INDEX"
    /\ entry' = [entry EXCEPT ![k].status = "ACTIVE"]
    /\ UNCHANGED <<payload, outbox, processed>>

Serve(k) ==
    /\ Exists(k)
    /\ entry' = [entry EXCEPT ![k].hits = @ + 1]
    /\ UNCHANGED <<payload, outbox, processed>>

MarkProcessed(n) ==
    /\ \E e \in outbox : e.event = n
    /\ processed' = processed \cup {n}
    /\ UNCHANGED <<entry, payload, outbox>>

Next ==
    \/ \E k \in Keys, v \in Numbers : Put(k, v) \/ SetPayload(k, v)
    \/ \E k \in Keys :
          Tombstone(k) \/ TombstoneNothing(k) \/ MarkIndexed(k) \/ Serve(k)
    \/ \E n \in Numbers : MarkProcessed(n)

Spec == Init /\ [][Next]_table
=============================================================================
