------------------------------ MODULE MCSoldier ------------------------------
(***************************************************************************)
(* Model-checking instances of Soldier.  Foreign DIDs 1 and 2, own DID     *)
(* from candidates {0, 3} (0 exercising the fallback 4), TTLs 0..3 as a    *)
(* node originates 3 and each relay lowers it, a two-chunk OTA campaign.   *)
(***************************************************************************)
EXTENDS Soldier

MCDids == {1, 2, 3, 4}
MCIdCandidates == {0, 3}
MCFallbackDid == 4
MCIncomingTtls == 0..3

\* No DID begins with the OTA marker byte.
MCDidHeader == [d \in MCDids |-> <<d, 0, 1>>]

\* DID 2 begins with 0x99 (one DID in 256 does): bytes 1 and 2 read as
\* chunk 0 of a one-chunk campaign.
MCMarkerDidHeader == [d \in MCDids |-> IF d = 2 THEN <<153, 0, 1>> ELSE <<d, 0, 1>>]

\* Backup registers cleared by a backup-domain reset.
MCCleanBackup == {0}

\* Backup registers holding what the code comment calls factory garbage.
MCGarbageBackup == {0, 77}
=============================================================================
