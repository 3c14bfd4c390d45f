----------------------------- MODULE MCEdgeCache -----------------------------
(***************************************************************************)
(* The edge cache with two slots and three DIDs, so that the full-cache    *)
(* CIFO path, dedup of an active DID and flushes of one or two entries all *)
(* happen; two payloads tell an update from a stale entry.                 *)
(***************************************************************************)
EXTENDS EdgeCache

CONSTANTS k1, k2, k3, p1, p2

MCKeys == {k1, k2, k3}
MCPayloads == {p1, p2}

\* RSSI values within the int8 range, with a tie possible.
MCSignals == {-40, -90}

\* A node heard below -128 dBm (LoRa receivers decode down to about -148).
=============================================================================
