---------------------------- MODULE EdgeCacheSpec ----------------------------
(***************************************************************************)
(* What the gateway's edge cache promises (spec 4.4), with no slots:       *)
(* a map from DID to the latest payload and signal heard from it, holding  *)
(* at most Capacity DIDs.  A new DID arriving at a full cache replaces a   *)
(* DID whose signal is weakest (Closest-In / Farthest-Out).  A flush       *)
(* uplinks one record per cached DID and empties the cache.                *)
(***************************************************************************)
EXTENDS Integers, FiniteSets

CONSTANTS
  Keys,      \* DIDs of reporting nodes
  Payloads,  \* 16-byte payloads, abstracted
  Signals,   \* the i8 RSSI of a frame (spec 3), dBm
  Capacity   \* CACHE_MAX_ENTRIES

VARIABLES
  cache,     \* DID -> [payload, rssi]
  batch      \* the records of the last uplinked batch

vars == <<cache, batch>>

Entry == [payload : Payloads, rssi : Signals]

\* One uplink record: DID, the signal negated into an unsigned byte, payload.
Record(k, e) == [uid |-> k, sig |-> (0 - e.rssi) % 256, payload |-> e.payload]

Init ==
  /\ cache = <<>>
  /\ batch = {}

\* Replace the entry of k by e, or add k when it is absent.
Put(c, k, e) == [x \in DOMAIN c \cup {k} |-> IF x = k THEN e ELSE c[x]]

Drop(c, k) == [x \in DOMAIN c \ {k} |-> c[x]]

IsWeakest(k) == \A j \in DOMAIN cache : cache[k].rssi <= cache[j].rssi

Upsert(k, p, r) ==
  LET e == [payload |-> p, rssi |-> r] IN
  /\ \/ /\ k \in DOMAIN cache \/ Cardinality(DOMAIN cache) < Capacity
        /\ cache' = Put(cache, k, e)
     \/ /\ k \notin DOMAIN cache
        /\ Cardinality(DOMAIN cache) = Capacity
        /\ \E v \in DOMAIN cache : IsWeakest(v) /\ cache' = Put(Drop(cache, v), k, e)
  /\ UNCHANGED batch

Flush ==
  /\ batch' = {Record(k, cache[k]) : k \in DOMAIN cache}
  /\ cache' = <<>>

Next ==
  \/ \E k \in Keys, p \in Payloads, r \in Signals : Upsert(k, p, r)
  \/ Flush

Spec == Init /\ [][Next]_vars
=============================================================================
