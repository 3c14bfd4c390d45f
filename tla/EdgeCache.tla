------------------------------ MODULE EdgeCache ------------------------------
(***************************************************************************)
(* The gateway ("queen") edge cache of src/firmware/queen/main.c: the      *)
(* forest_cache[] slot table with cache_count, Process_And_Cache_Data      *)
(* (dedup, insert into the first free slot, CIFO eviction by linear scan)  *)
(* and Flush_Cache_To_Rails (serialise the active slots into               *)
(* binary_batch_buffer, 21 bytes each, free them, reset the count, hand    *)
(* the batch to the modem).  The modem's AT/CoAP exchange is the uplink of *)
(* the batch.  The radio reports RSSI as int16; OnRxDone keeps it as int8. *)
(***************************************************************************)
EXTENDS Integers, FiniteSets

CONSTANTS
  Keys,             \* DIDs of reporting nodes
  Payloads,         \* 16-byte payloads, abstracted
  Signals,          \* int16 RSSI values the radio reports, dBm
  CacheMaxEntries,  \* CACHE_MAX_ENTRIES (50)
  BatchBufferSize,  \* sizeof(binary_batch_buffer) (2048)
  RecordSize        \* bytes per batch record (21)

VARIABLES
  forest_cache,  \* slot index -> [uid, payload, rssi, is_active]
  cache_count,   \* cache_count
  batch          \* records of the last batch handed to the modem

vars == <<forest_cache, cache_count, batch>>

Slots == 1..CacheMaxEntries

\* The (int8_t) conversion of the radio's int16 RSSI in OnRxDone.
Int8(r) == ((r + 128) % 256) - 128

EmptySlot == [uid |-> 0, payload |-> "zero", rssi |-> 0, is_active |-> FALSE]

\* One batch record: 4 bytes DID, (uint8_t)(-rssi), 16 bytes payload.
Record(s) == [uid |-> s.uid, sig |-> (0 - s.rssi) % 256, payload |-> s.payload]

Active == {i \in Slots : forest_cache[i].is_active}

Init ==
  /\ forest_cache = [i \in Slots |-> EmptySlot]
  /\ cache_count = 0
  /\ batch = {}

\* Mutant: the scan keeps the strongest slot (rssi > max_rssi).
FarthestIdxStrongest ==
  LET m == CHOOSE v \in {forest_cache[i].rssi : i \in Slots} :
             \A i \in Slots : v >= forest_cache[i].rssi
  IN CHOOSE i \in Slots : forest_cache[i].rssi = m
                         /\ \A j \in Slots : forest_cache[j].rssi = m => i <= j

\* The CIFO scan: the first slot whose rssi is below all earlier ones,
\* starting from min_rssi = 127; slot 1 (index 0) when none is below 127.
FarthestIdx ==
  LET below == {i \in Slots : forest_cache[i].rssi < 127}
      m == CHOOSE v \in {forest_cache[i].rssi : i \in below} :
             \A i \in below : v <= forest_cache[i].rssi
  IN IF below = {} THEN 1
     ELSE CHOOSE i \in below : forest_cache[i].rssi = m
                               /\ \A j \in below : forest_cache[j].rssi = m => i <= j

FirstFree == CHOOSE i \in Slots \ Active : \A j \in Slots \ Active : i <= j

\* Process_And_Cache_Data(uid, payload, rssi): an active slot with the uid
\* is refreshed; else, below capacity, the first inactive slot is taken
\* (nothing happens if none is inactive); at capacity the farthest slot is
\* overwritten in place.
Process_And_Cache_Data(uid, payload, rssi) ==
  LET fresh == [uid |-> uid, payload |-> payload, rssi |-> rssi, is_active |-> TRUE]
      hit == {i \in Active : forest_cache[i].uid = uid}
  IN /\ IF hit # {}
          THEN LET i == CHOOSE j \in hit : \A l \in hit : j <= l
               IN /\ forest_cache' = [forest_cache EXCEPT ![i].payload = payload,
                                                          ![i].rssi = rssi]
                  /\ UNCHANGED cache_count
          ELSE IF cache_count < CacheMaxEntries
          THEN IF Slots \ Active # {}
                 THEN /\ forest_cache' = [forest_cache EXCEPT ![FirstFree] = fresh]
                      /\ cache_count' = cache_count + 1
                 ELSE UNCHANGED <<forest_cache, cache_count>>
          ELSE /\ forest_cache' = [forest_cache EXCEPT
                                     ![FarthestIdx] = [@ EXCEPT !.uid = uid,
                                                         !.payload = payload,
                                                         !.rssi = rssi]]
               /\ UNCHANGED cache_count
     /\ UNCHANGED batch

\* A frame from the radio: OnRxDone's int8 conversion, then the cache.
Upsert(uid, payload, r) == Process_And_Cache_Data(uid, payload, Int8(r))

\* Mutant: cache_count is not reset after the flush.
FlushKeepsCount ==
  LET rank(i) == Cardinality({j \in Active : j <= i})
      sent == {i \in Active : rank(i) * RecordSize <= BatchBufferSize}
  IN /\ forest_cache' = [i \in Slots |->
                           IF i \in sent THEN [forest_cache[i] EXCEPT !.is_active = FALSE]
                                         ELSE forest_cache[i]]
     /\ UNCHANGED cache_count
     /\ batch' = IF sent = {} THEN batch ELSE {Record(forest_cache[i]) : i \in sent}

\* Flush_Cache_To_Rails: active slots in index order are serialised while
\* the next record fits in the buffer, and each serialised slot is freed;
\* cache_count is then zeroed.  A non-empty batch goes to the modem.
Flush_Cache_To_Rails ==
  LET rank(i) == Cardinality({j \in Active : j <= i})
      sent == {i \in Active : rank(i) * RecordSize <= BatchBufferSize}
  IN /\ forest_cache' = [i \in Slots |->
                           IF i \in sent THEN [forest_cache[i] EXCEPT !.is_active = FALSE]
                                         ELSE forest_cache[i]]
     /\ cache_count' = 0
     /\ batch' = IF sent = {} THEN batch ELSE {Record(forest_cache[i]) : i \in sent}

Next ==
  \/ \E k \in Keys, p \in Payloads, r \in Signals : Upsert(k, p, r)
  \/ Flush_Cache_To_Rails

Spec == Init /\ [][Next]_vars

-----------------------------------------------------------------------------
TypeOK ==
  /\ forest_cache \in [Slots -> [uid : {0} \cup Keys, payload : {"zero"} \cup Payloads,
                                  rssi : -128..127, is_active : BOOLEAN]]
  /\ cache_count \in 0..CacheMaxEntries
  /\ batch \subseteq [uid : Keys, sig : 0..255, payload : Payloads]

\* cache_count counts the active slots: the insert/CIFO branch decision and
\* the flush trigger both rely on it (spec 9 on the flush's count reset).
CountMatchesActive == cache_count = Cardinality(Active)

\* The slot table seen as the abstract cache: each active slot's DID with
\* its payload and signal.
AbsCache ==
  [k \in {forest_cache[i].uid : i \in Active} |->
     LET i == CHOOSE j \in Active : forest_cache[j].uid = k
     IN [payload |-> forest_cache[i].payload, rssi |-> forest_cache[i].rssi]]

Abs == INSTANCE EdgeCacheSpec
         WITH Signals <- {Int8(r) : r \in Signals}, Capacity <- CacheMaxEntries,
              cache <- AbsCache, batch <- batch

\* The slot table implements the CIFO cache of spec 4.4: dedup keeps the
\* latest payload and signal, a full cache evicts a weakest-signal DID
\* for a new one, and a flush uplinks exactly the cached DIDs and empties
\* the cache (spec 8: cache dedup, CIFO eviction, flush totality).
CifoRefinement == Abs!Spec
=============================================================================
