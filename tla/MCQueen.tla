------------------------------- MODULE MCQueen -------------------------------
(* The queen with three reporting DIDs, one payload and one signal (neither matters: CIFO never runs).      *)
EXTENDS Queen

CONSTANTS k1, k2, k3, p1

MCKeys == {k1, k2, k3}
MCPayloads == {p1}
MCSignals == {-60}
\* Only full 16-byte frames are on the air.
MCSizes == {16}
\* A foreign 12-byte LoRa frame on the same channel and sync word.
MCForeignSizes == {16, 12}
=============================================================================
