------------------------------- MODULE Soldier -------------------------------
(***************************************************************************)
(* One leaf node ("soldier") of the Silken Net mesh, as its firmware       *)
(* src/firmware/soldier/main.c runs it: the boot sequence that restores    *)
(* RAM from the RTC backup registers and creates the DID once, then the    *)
(* endless tick loop: relay emission, own emission, the listen window that *)
(* dispatches one received frame to the OTA assembler or the mesh relay    *)
(* engine, the backup-register writes and STOP2 sleep.  A reset (power    *)
(* loss, watchdog, NVIC_SystemReset) may strike between any two steps and *)
(* discards RAM; the PVD brown-out callback may preempt any step.          *)
(*                                                                         *)
(* The radio neighbourhood is the environment: a frame received in the     *)
(* listen window is any telemetry frame of a DID in Dids (this node's own  *)
(* included, as an echo) with a TTL in IncomingTtls, or any OTA chunk of   *)
(* the gateway's campaign of ImageChunks chunks.  Frames are the decrypted *)
(* 16-byte blocks; the AES step is the identity on this abstraction        *)
(* because encrypt and decrypt use one key and are inverse.                *)
(***************************************************************************)
EXTENDS Integers, FiniteSets, Sequences, TLC

CONSTANTS
  Dids,           \* non-zero 32-bit DIDs the model distinguishes
  DidHeader,      \* DidHeader[d] = <<byte0, byte1, byte2>> of DID d, big-endian
  IdCandidates,   \* values uid0 ^ (uid1 << 5) ^ (uid2 >> 3) ^ rng can take
  FallbackDid,    \* 0x511CEE01, substituted when the candidate is 0
  FactoryGarbage, \* values a backup register may hold before the first boot
  IncomingTtls,   \* TTL bytes of telemetry frames heard on the air
  ImageChunks,    \* total_chunks of the gateway's OTA campaign
  OtaMarker,      \* 0x99
  ChunkSize,      \* 16-byte frame minus the 3-byte OTA header
  OtaBufferSize,  \* sizeof(ota_buffer) = 1024
  OriginTtl,      \* TTL a node puts in its own frame (3)
  NoFrame,        \* content of DR3..DR6 that never held a frame
  MaxResets,      \* bound on asynchronous resets (power loss, watchdog)
  MaxPvd,         \* bound on PVD brown-out interrupts
  MaxInstalls     \* bound on OTA flash writes explored

ASSUME FallbackDid \in Dids /\ IdCandidates \subseteq Dids \cup {0}
ASSUME \A d \in Dids : d # 0 /\ DidHeader[d] \in Seq(0..255)

VARIABLES
  pc,        \* point reached in main()
  did,       \* tree_did
  hist,      \* recent_mesh_dids[0..2] as <<hist[1], hist[2], hist[3]>>
  hasRelay,  \* has_mesh_relay
  relay,     \* mesh_relay_payload (decrypted view)
  ota,       \* ota_chunk_received / ota_buffer / counters / ota_total_chunks
  tickOn,    \* SysTick running (HAL_SuspendTick / HAL_ResumeTick)
  rxOn,      \* radio in receive mode
  bkp,       \* RTC backup registers DR2..DR10
  resets,    \* asynchronous resets so far (bounded by MaxResets)
  pvds,      \* PVD interrupts so far (bounded by MaxPvd)
  owed,      \* history: frames accepted for relay and not yet transmitted
  flashes,   \* history: images written by Write_OTA_Contract_To_Flash
  installs   \* history: number of flash writes (bounded by MaxInstalls)

vars == <<pc, did, hist, hasRelay, relay, ota, tickOn, rxOn, bkp, resets,
          pvds, owed, flashes, installs>>

-----------------------------------------------------------------------------
(* Frames as they are after HAL_CRYP_Decrypt.                              *)
TeleFrames == [kind : {"tele"}, did : Dids, ttl : IncomingTtls]
OtaFrames  == [kind : {"ota"}, idx : 0..(ImageChunks - 1), total : {ImageChunks}]
RelayFrame == [did : Dids, ttl : 0..255]

\* decrypted_rx_payload[0]
Byte0(f) == IF f.kind = "ota" THEN OtaMarker ELSE DidHeader[f.did][1]

\* The OTA header fields and payload the code reads from a 0x99 frame: a
\* telemetry frame whose DID begins with 0x99 is read the same way.
ChunkOf(f) ==
  IF f.kind = "ota"
  THEN [idx |-> f.idx, total |-> f.total, data |-> <<"image", f.idx>>]
  ELSE [idx |-> DidHeader[f.did][2], total |-> DidHeader[f.did][3],
        data |-> <<"telemetry", f.did>>]

NoOta == [got |-> {}, buf |-> <<>>, count |-> 0, bytes |-> 0, total |-> 0]

\* Write_OTA_Contract_To_Flash(ota_buffer, ota_bytes_received): the first
\* ota_bytes_received bytes of the buffer, chunk slot by chunk slot.
FlashImage(o) ==
  [i \in 0..((o.bytes \div ChunkSize) - 1) |->
     IF i \in o.got THEN o.buf[i] ELSE <<"zero">>]

\* The image the gateway broadcasts.
QueenImage == [i \in 0..(ImageChunks - 1) |-> <<"image", i>>]

\* A reset: RAM is lost (main() rebuilds all of it before it is read).
ResetRam ==
  /\ pc' = "Boot"
  /\ did' = 0
  /\ hist' = <<0, 0, 0>>
  /\ hasRelay' = FALSE
  /\ relay' = NoFrame
  /\ ota' = NoOta
  /\ rxOn' = FALSE
  /\ tickOn' = TRUE

-----------------------------------------------------------------------------
Init ==
  /\ pc = "Boot"
  /\ did = 0
  /\ hist = <<0, 0, 0>>
  /\ hasRelay = FALSE
  /\ relay = NoFrame
  /\ ota = NoOta
  /\ tickOn = TRUE
  /\ rxOn = FALSE
  /\ \E g \in [1..4 -> FactoryGarbage] :
       bkp = [flag |-> g[4] # 0, relay |-> NoFrame, did |-> 0,
              hist |-> <<g[1], g[2], g[3]>>]
  /\ resets = 0
  /\ pvds = 0
  /\ owed = {}
  /\ flashes = {}
  /\ installs = 0

\* A DID candidate that came out 0 is replaced by the fallback constant.
NewDid(c) == IF c = 0 THEN FallbackDid ELSE c

\* main() up to the loop: restore DR2..DR6 and DR8..DR10, then read DR7
\* and, on the first boot of the device, create and store the DID and
\* clear the gossip cache in RAM.
Boot ==
  /\ pc = "Boot"
  /\ hasRelay' = bkp.flag
  /\ relay' = IF bkp.flag THEN bkp.relay ELSE NoFrame
  /\ IF bkp.did = 0
       THEN \E c \in IdCandidates :
              /\ did' = NewDid(c)
              /\ bkp' = [bkp EXCEPT !.did = NewDid(c)]
              /\ hist' = <<0, 0, 0>>
       ELSE /\ did' = bkp.did
            /\ hist' = bkp.hist
            /\ UNCHANGED bkp
  /\ pc' = "RelayEmit"
  /\ UNCHANGED <<ota, tickOn, rxOn, resets, pvds, owed, flashes, installs>>

\* Phases 0-4.1: watchdog refresh, sensing and frame building leave no
\* state the model keeps; the pending relay is sent first and cleared.
\* HAL_Delay(100) spins on SysTick: with SysTick suspended it never returns
\* and the unrefreshed watchdog resets the node.
RelayEmit ==
  /\ pc = "RelayEmit"
  /\ IF hasRelay
       THEN /\ owed' = owed \ {relay}
            /\ IF tickOn
                 THEN /\ hasRelay' = FALSE
                      /\ pc' = "OwnEmit"
                      /\ UNCHANGED <<did, hist, relay, ota, rxOn, tickOn>>
                 ELSE ResetRam
       ELSE /\ pc' = "OwnEmit"
            /\ UNCHANGED <<did, hist, relay, hasRelay, owed, ota, rxOn, tickOn>>
  /\ UNCHANGED <<bkp, resets, pvds, flashes, installs>>

\* Phase 4.2-4.3: encrypt and send the own frame; listen only if the
\* supercapacitor reads above 2800 mV (either reading is possible).
OwnEmit ==
  /\ pc = "OwnEmit"
  /\ \E rich \in BOOLEAN :
       IF rich THEN /\ rxOn' = TRUE
                    /\ pc' = "Listen"
               ELSE /\ pc' = "Persist"
                    /\ UNCHANGED rxOn
  /\ UNCHANGED <<did, hist, hasRelay, relay, ota, tickOn, bkp, resets, pvds,
                 owed, flashes, installs>>

\* The break out of the window loop and the Radio.Sleep() after it.
ListenDone ==
  /\ pc' = "Persist"
  /\ rxOn' = FALSE

\* Scenario A drops the chunk: ota_total_chunks is already overwritten
\* from its header; the window ends.
KeepTotal(c) ==
  /\ ota' = [ota EXCEPT !.total = c.total]
  /\ ListenDone
  /\ UNCHANGED <<did, hist, hasRelay, relay, tickOn, flashes, installs>>

\* A chunk that passed the checks is stored and counted; once the count
\* reaches the total the buffer is written to flash and the MCU resets.
StoreChunk(c) ==
  LET o == [got   |-> ota.got \cup {c.idx},
            buf   |-> (c.idx :> c.data) @@ ota.buf,
            count |-> (ota.count + 1) % 256,
            bytes |-> (ota.bytes + ChunkSize) % 65536,
            total |-> c.total]
  IN IF o.count >= o.total
       THEN /\ installs < MaxInstalls
            /\ installs' = installs + 1
            /\ flashes' = flashes \cup {FlashImage(o)}
            /\ ResetRam
       ELSE /\ ota' = o
            /\ ListenDone
            /\ UNCHANGED <<did, hist, hasRelay, relay, tickOn, flashes, installs>>

\* The bounds check: (offset + chunk_size) <= sizeof(ota_buffer).
Fits(c) == c.idx * ChunkSize + ChunkSize <= OtaBufferSize

\* Mutant: the ota_chunk_received[] duplicate check is missing.
OnOtaChunkNoDupCheck(f) ==
  LET c == ChunkOf(f)
  IN /\ UNCHANGED owed
     /\ IF Fits(c) THEN StoreChunk(c) ELSE KeepTotal(c)

\* Scenario A of the listen window: an OTA chunk (or what the code takes
\* for one), stored if new and in bounds.
OnOtaChunk(f) ==
  LET c == ChunkOf(f)
  IN /\ UNCHANGED owed
     /\ IF c.idx \notin ota.got /\ Fits(c) THEN StoreChunk(c) ELSE KeepTotal(c)

\* The loop-suppression test: the DID is one of the last three relayed.
IsKnownDid(d) == \E i \in 1..3 : hist[i] = d

\* The frame is stored for relay with its u8 TTL decremented, and its DID
\* is shifted into the gossip cache.
StoreRelay(f) ==
  LET r == [did |-> f.did, ttl |-> (f.ttl - 1) % 256]
  IN /\ relay' = r
     /\ hasRelay' = TRUE
     /\ hist' = <<f.did, hist[1], hist[2]>>
     /\ owed' = owed \cup {r}

\* A live frame from another node whose DID is not in the gossip cache;
\* the own DID ends the window at once (break).
Relayable(f) == f.ttl > 0 /\ f.did # did /\ ~IsKnownDid(f.did)

\* Scenario B: a foreign 16-byte frame.
OnMeshFrame(f) ==
  /\ IF Relayable(f) THEN StoreRelay(f)
                     ELSE UNCHANGED <<relay, hasRelay, hist, owed>>
  /\ ListenDone
  /\ UNCHANGED <<did, ota, tickOn, flashes, installs>>

\* Phase 4.5: lora_rx_flag is seen set; the frame is decrypted and
\* dispatched on its first byte, then the window ends and the radio sleeps.
Receive ==
  /\ pc = "Listen"
  /\ rxOn
  /\ \E f \in TeleFrames \cup OtaFrames :
       IF Byte0(f) = OtaMarker THEN OnOtaChunk(f) ELSE OnMeshFrame(f)
  /\ UNCHANGED <<bkp, resets, pvds>>

\* The radio's own 500 ms receive timeout puts it back in standby.
RadioRxTimeout ==
  /\ pc = "Listen"
  /\ rxOn
  /\ rxOn' = FALSE
  /\ UNCHANGED <<pc, did, hist, hasRelay, relay, ota, tickOn, bkp, resets,
                 pvds, owed, flashes, installs>>

\* The 600 ms window, measured on HAL_GetTick, runs out: only while SysTick
\* runs.  Radio.Sleep() follows the loop.
ListenTimeout ==
  /\ pc = "Listen"
  /\ tickOn
  /\ pc' = "Persist"
  /\ rxOn' = FALSE
  /\ UNCHANGED <<did, hist, hasRelay, relay, ota, tickOn, bkp, resets, pvds,
                 owed, flashes, installs>>

\* Mutant: DR2 is written only inside if (has_mesh_relay).
PersistFlagIfSet ==
  /\ pc = "Persist"
  /\ bkp' = IF hasRelay THEN [bkp EXCEPT !.flag = TRUE] ELSE bkp
  /\ pc' = "PersistRelay"
  /\ UNCHANGED <<did, hist, hasRelay, relay, ota, tickOn, rxOn, resets, pvds,
                 owed, flashes, installs>>

\* Phase 5, first writes: DR0, DR1 and DR2 = has_mesh_relay.
Persist ==
  /\ pc = "Persist"
  /\ bkp' = [bkp EXCEPT !.flag = hasRelay]
  /\ pc' = "PersistRelay"
  /\ UNCHANGED <<did, hist, hasRelay, relay, ota, tickOn, rxOn, resets, pvds,
                 owed, flashes, installs>>

\* DR3..DR6 = mesh_relay_payload, only when a relay is pending.
PersistRelay ==
  /\ pc = "PersistRelay"
  /\ bkp' = IF hasRelay THEN [bkp EXCEPT !.relay = relay] ELSE bkp
  /\ pc' = "PersistHist"
  /\ UNCHANGED <<did, hist, hasRelay, relay, ota, tickOn, rxOn, resets, pvds,
                 owed, flashes, installs>>

\* DR8..DR10 = recent_mesh_dids.
PersistHist ==
  /\ pc = "PersistHist"
  /\ bkp' = [bkp EXCEPT !.hist = hist]
  /\ pc' = "Sleep"
  /\ UNCHANGED <<did, hist, hasRelay, relay, ota, tickOn, rxOn, resets, pvds,
                 owed, flashes, installs>>

\* HAL_SuspendTick, STOP2 until the next wake-up, HAL_ResumeTick.
Sleep ==
  /\ pc = "Sleep"
  /\ tickOn' = TRUE
  /\ pc' = "RelayEmit"
  /\ UNCHANGED <<did, hist, hasRelay, relay, ota, rxOn, bkp, resets, pvds,
                 owed, flashes, installs>>

\* Power loss or a watchdog reset between two steps: RAM is lost, the
\* backup registers survive.
Reset ==
  /\ pc # "Boot"
  /\ resets < MaxResets
  /\ resets' = resets + 1
  /\ ResetRam
  /\ UNCHANGED <<bkp, pvds, owed, flashes, installs>>

\* HAL_PWR_PVDCallback preempts the current step: DR0 is written, the
\* radio is put to sleep, SysTick is suspended and the core stops in STOP2;
\* when it wakes the interrupted code resumes with SysTick still stopped.
PvdInterrupt ==
  /\ pvds < MaxPvd
  /\ pvds' = pvds + 1
  /\ tickOn' = FALSE
  /\ rxOn' = FALSE
  /\ UNCHANGED <<pc, did, hist, hasRelay, relay, ota, bkp, resets, owed,
                 flashes, installs>>

\* The steps main() takes; Reset and PvdInterrupt come from outside it.
Step ==
  \/ Boot \/ RelayEmit \/ OwnEmit \/ Receive \/ ListenTimeout
  \/ Persist \/ PersistRelay \/ PersistHist \/ Sleep

Next ==
  \/ Step
  \/ RadioRxTimeout
  \/ Reset
  \/ PvdInterrupt

\* The core executes main() whenever one of its steps is enabled; the
\* radio's receive timer always expires.  Frame arrival, resets and
\* brown-outs are not assumed to happen.
Fairness ==
  /\ WF_vars(Step)
  /\ WF_vars(RadioRxTimeout)

Spec == Init /\ [][Next]_vars /\ Fairness

-----------------------------------------------------------------------------
(***************************************************************************)
(* Invariants and properties.                                              *)
(***************************************************************************)
\* Crash consistency of phase 5: when the node enters STOP2 the backup
\* registers hold exactly the RAM state a reset would restore (relay flag,
\* pending frame, DID history and DID), so a reset in the sleep loses and
\* replays nothing; each of the DR writes is needed for it.
BackupMatchesRam ==
  pc = "Sleep" =>
    /\ bkp.flag = hasRelay
    /\ hasRelay => bkp.relay = relay
    /\ bkp.hist = hist
    /\ bkp.did = did

\* Every image the OTA assembler writes to flash is the gateway's image,
\* chunk for chunk, however chunks are duplicated, lost or reordered and
\* whatever other frames the node hears meanwhile.
FlashedImageIsQueenImage ==
  flashes \subseteq {QueenImage}

\* Spec 8, TTL monotonic decrease: a frame whose TTL is 0 after the
\* decrement is never queued for relay.
NoExpiredRelay == hasRelay /\ relay # NoFrame => relay.ttl > 0

\* Crash-safe relay slot (spec 1, 5): a relay emission transmits a frame
\* that the node accepted and has not transmitted since.
RelayTxOwed == pc = "RelayEmit" /\ hasRelay => relay \in owed

\* Spec 8, OTA completion triggers exactly once: a node installs the
\* gateway's image once.
OtaInstalledOnce == installs <= 1

\* The tick loop keeps running: the node always comes back to its STOP2
\* sleep, i.e. it keeps reporting and persisting.
TickProgress == []<>(pc = "Sleep")
=============================================================================
