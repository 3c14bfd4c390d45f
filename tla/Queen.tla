-------------------------------- MODULE Queen --------------------------------
(***************************************************************************)
(* The gateway ("queen") of src/firmware/queen/main.c: its endless main    *)
(* loop and the OnRxDone radio interrupt that feeds it.  The interrupt     *)
(* copies a 16-byte frame and its RSSI and raises lora_rx_flag; the radio  *)
(* is in single-receive mode, so it drops to standby after a frame until   *)
(* the loop calls Radio.Rx again.  The loop answers each frame with the    *)
(* next chunk of its OTA campaign, puts the frame into the edge cache      *)
(* (module EdgeCache), clears the flag, re-arms the receiver and flushes   *)
(* the cache when it is nearly full or an hour has passed.                 *)
(***************************************************************************)
EXTENDS Integers, FiniteSets

CONSTANTS
  Keys, Payloads, Signals, CacheMaxEntries, BatchBufferSize, RecordSize,
  FlushMargin,      \* the flush fires at CACHE_MAX_ENTRIES - 5 entries
  PendingOtaSize,   \* sizeof(pending_ota_bytecode) = 39
  OtaPayload,       \* bytes of image per 16-byte OTA frame = 13
  FrameSizes        \* sizes of the frames the radio can hand to OnRxDone

VARIABLES
  forest_cache, cache_count, batch,   \* the edge cache
  lora_rx_flag,      \* set by OnRxDone, cleared by the loop
  incoming,          \* incoming_lora_payload + current_rssi
  radio,             \* "rx", "standby"
  qpc,               \* where the main loop is
  ota_idx,           \* current_ota_chunk_idx
  hour_elapsed,      \* HAL_GetTick() - last_flush_time > 3600000
  handled,           \* history: frames captured by OnRxDone, not yet cached
  lost               \* history: a captured frame was overwritten unhandled

cacheVars == <<forest_cache, cache_count, batch>>
vars == <<forest_cache, cache_count, batch, lora_rx_flag, incoming, radio,
          qpc, ota_idx, hour_elapsed, handled, lost>>

C == INSTANCE EdgeCache

Frames == [uid : Keys, payload : Payloads, rssi : Signals]

\* total_chunks = (pending_ota_size + 12) / 13 as a uint8_t.
TotalChunks == ((PendingOtaSize + OtaPayload - 1) \div OtaPayload) % 256

Init ==
  /\ C!Init
  /\ lora_rx_flag = 0
  /\ incoming = CHOOSE f \in Frames : TRUE
  /\ radio = "rx"
  /\ qpc = "Loop"
  /\ ota_idx = 0
  /\ hour_elapsed = FALSE
  /\ handled = TRUE
  /\ lost = FALSE

\* OnRxDone(payload, size, rssi, snr): only while the radio receives; any
\* frame ends single-receive mode.  A 16-byte frame is copied and flagged;
\* a frame of another size is ignored.
OnRxDone ==
  /\ radio = "rx"
  /\ radio' = "standby"
  /\ \E size \in FrameSizes :
       IF size = 16
         THEN \E f \in Frames :
                /\ incoming' = f
                /\ lora_rx_flag' = 1
                /\ handled' = FALSE
                /\ lost' = (lost \/ ~handled)
         ELSE UNCHANGED <<lora_rx_flag, incoming, handled, lost>>
  /\ UNCHANGED <<cacheVars, qpc, ota_idx, hour_elapsed>>

\* Mutant: the chunk index is incremented without the wrap to 0.
NextChunkIdxNoWrap(i) == (i + 1) % 256

\* current_ota_chunk_idx++; if (>= total_chunks) current_ota_chunk_idx = 0;
NextChunkIdx(i) == IF (i + 1) % 256 >= TotalChunks THEN 0 ELSE (i + 1) % 256

\* Loop head with lora_rx_flag == 1: decrypt, answer with the current OTA
\* chunk (Radio.Send, HAL_Delay(60)) and advance the chunk index, extract
\* the DID and cache the frame with its RSSI.
CacheFrame ==
  /\ qpc = "Loop"
  /\ lora_rx_flag = 1
  /\ ota_idx' = NextChunkIdx(ota_idx)
  /\ C!Upsert(incoming.uid, incoming.payload, incoming.rssi)
  /\ handled' = TRUE
  /\ qpc' = "ClearFlag"
  /\ UNCHANGED <<lora_rx_flag, incoming, hour_elapsed, lost>>

\* Mutant: Radio.Rx is called as soon as the frame is decrypted.
HandleFrameRearms == CacheFrame /\ radio' = "rx"

\* The frame branch up to the flag clear leaves the radio in standby.
HandleFrame == CacheFrame /\ UNCHANGED radio

\* lora_rx_flag = 0;
ClearFlag ==
  /\ qpc = "ClearFlag"
  /\ lora_rx_flag' = 0
  /\ qpc' = "Rearm"
  /\ UNCHANGED <<cacheVars, incoming, radio, ota_idx, hour_elapsed, handled, lost>>

\* Mutant: the Radio.Rx call after clearing the flag is missing.
RearmSkipped ==
  /\ qpc = "Rearm"
  /\ qpc' = "FlushCheck"
  /\ UNCHANGED <<cacheVars, radio, lora_rx_flag, incoming, ota_idx, hour_elapsed,
                 handled, lost>>

\* Radio.Rx(0xFFFFFF);
Rearm ==
  /\ qpc = "Rearm"
  /\ radio' = "rx"
  /\ qpc' = "FlushCheck"
  /\ UNCHANGED <<cacheVars, lora_rx_flag, incoming, ota_idx, hour_elapsed,
                 handled, lost>>

\* Loop head with no frame waiting goes straight to the flush check.
NoFrame ==
  /\ qpc = "Loop"
  /\ lora_rx_flag = 0
  /\ qpc' = "FlushCheck"
  /\ UNCHANGED <<cacheVars, lora_rx_flag, incoming, radio, ota_idx,
                 hour_elapsed, handled, lost>>

\* Mutant: only the hour timer triggers the flush.
FlushDueHourOnly == hour_elapsed /\ cache_count > 0

\* Mutant: only the fill level triggers the flush.
FlushDueCountOnly == cache_count >= CacheMaxEntries - FlushMargin /\ cache_count > 0

\* Flush when nearly full or after an hour, and only a non-empty cache.
FlushDue ==
  /\ cache_count >= CacheMaxEntries - FlushMargin \/ hour_elapsed
  /\ cache_count > 0

\* last_flush_time is refreshed only when a flush happens.
FlushCheck ==
  /\ qpc = "FlushCheck"
  /\ IF FlushDue
       THEN /\ C!Flush_Cache_To_Rails
            /\ hour_elapsed' = FALSE
       ELSE UNCHANGED <<cacheVars, hour_elapsed>>
  /\ qpc' = "Loop"
  /\ UNCHANGED <<lora_rx_flag, incoming, radio, ota_idx, handled, lost>>

\* An hour of HAL_GetTick passes since the last flush.
HourPasses ==
  /\ ~hour_elapsed
  /\ hour_elapsed' = TRUE
  /\ UNCHANGED <<cacheVars, lora_rx_flag, incoming, radio, qpc, ota_idx,
                 handled, lost>>

Loop == HandleFrame \/ ClearFlag \/ Rearm \/ NoFrame \/ FlushCheck

Next == Loop \/ OnRxDone \/ HourPasses

\* The core always runs the loop and SysTick always advances; soldiers
\* are not assumed to transmit.
Fairness == WF_vars(Loop) /\ WF_vars(HourPasses)

Spec == Init /\ [][Next]_vars /\ Fairness

-----------------------------------------------------------------------------
TypeOK ==
  /\ C!TypeOK
  /\ lora_rx_flag \in {0, 1}
  /\ incoming \in Frames
  /\ radio \in {"rx", "standby"}
  /\ qpc \in {"Loop", "ClearFlag", "Rearm", "FlushCheck"}
  /\ ota_idx \in 0..(TotalChunks - 1)
  /\ hour_elapsed \in BOOLEAN
  /\ handled \in BOOLEAN
  /\ lost \in BOOLEAN

\* OnRxDone never overwrites incoming_lora_payload while the loop has yet
\* to cache it: the loop clears lora_rx_flag before Radio.Rx re-arms the
\* receiver, and the single-receive radio cannot deliver in between.
NoFrameOverwritten == ~lost

\* The loop never meets a full cache with a frame to cache, so the CIFO
\* eviction branch of Process_And_Cache_Data is never taken: the flush
\* check after every frame empties the cache at CACHE_MAX_ENTRIES - 5.
CifoNeverRuns == (qpc = "Loop" /\ lora_rx_flag = 1) => cache_count < CacheMaxEntries

\* After each frame the receiver is opened again (Radio.Rx(0xFFFFFF) at
\* the end of the frame branch): the queen never stays deaf.
QueenKeepsListening == (radio = "standby") ~> (radio = "rx")

\* Every DID in the cache is eventually uplinked by Flush_Cache_To_Rails,
\* even when no further frame arrives: the hour timer triggers the flush.
EntryEventuallyUplinked ==
  \A k \in Keys : (k \in DOMAIN C!AbsCache) ~> (k \notin DOMAIN C!AbsCache)
=============================================================================
