# TLA+ models of the Silken Net firmware

This directory holds TLC-checkable models of the two firmware images in `src/firmware/`:

- **soldier** (`src/firmware/soldier/main.c`) is a leaf sensor node.
- **queen** (`src/firmware/queen/main.c`) is the gateway.

Each module is written from the C source. Where the code and `spec.md` disagree, the code is modelled, and the disagreement becomes a *violation* run.

## The system

| Part | Code | State | Operations and events |
|---|---|---|---|
| Identity and persistent state | soldier `main` 164-220, 503-525 | RTC backup registers DR2-DR10 (relay flag, relay payload, DID, relay history) | boot restore, one-time DID creation, phase-5 writes; reset (power loss, IWDG, `NVIC_SystemReset`) |
| Mesh relay engine | soldier 402-407, 454-493 | `has_mesh_relay`, `mesh_relay_payload`, `recent_mesh_dids[3]` | relay emit, TTL test and decrement, self-echo break, history shift |
| OTA receiver | soldier 432-452 | `ota_buffer`, `ota_chunk_received[]`, counters, `ota_total_chunks` | chunk store with duplicate and bounds checks; flash write and reset |
| Tick scheduler and power | soldier 255-531, 567-578 | program point, SysTick on/off, radio RX on/off | relay emit, own emit, energy-gated listen window (radio 500 ms timeout, 600 ms `HAL_GetTick` window), persist, STOP2; the PVD brown-out callback |
| Edge cache | queen 267-369 | `forest_cache[50]`, `cache_count`, the batch | `Process_And_Cache_Data` (dedup, insert, CIFO), `Flush_Cache_To_Rails` |
| DMA audio capture | soldier 297-346, 555-561, 614-619 | `vibration_detected`, `audio_ready`, PRIMASK, the DMA transfer, NVIC pending bits, SysTick | the phase-1.5 entry, the masked wait on `audio_ready` around WFI, the EXTI and ADC-complete callbacks |
| Queen loop | queen 159-262 | `lora_rx_flag`, `incoming_lora_payload`, `current_rssi`, `current_ota_chunk_idx`, `last_flush_time` | `OnRxDone` interrupt, the frame branch (OTA reply, cache, clear flag, `Radio.Rx`), the flush trigger |

**How the parts interact.**

- Soldiers broadcast 16-byte AES frames each tick: first a pending relay, then their own frame.
- A soldier with enough energy then listens for one frame. That frame is either a neighbour's telemetry, which is relayed once with TTL−1, or an OTA chunk.
- The queen answers every frame it hears with the next chunk of its OTA campaign.
- The queen caches the frame by DID and uplinks the cache in batches.
- Interrupts only set flags and copy bytes. The PVD callback is the exception: it also writes DR0, sleeps the radio and suspends SysTick.

## Modules

**`Soldier.tla`** models one soldier.

- *Variables:*
  - `pc` is the point reached in `main`.
  - `did`, `hist`, `hasRelay`, `relay` and `ota` are RAM.
  - `bkp` holds the backup registers.
  - `tickOn` and `rxOn` are SysTick and the receiver.
  - The history variables `owed`, `flashes` and `installs` record frames accepted but not yet sent, images flashed and the number of installs.
- *Actions:* `Boot`, `RelayEmit`, `OwnEmit`, `Receive` (dispatching to `OnOtaChunk`, which stores through `Fits` and `StoreChunk` or drops through `KeepTotal`, or to `OnMeshFrame`, which stores through `Relayable` and `StoreRelay`), `ListenTimeout`, `RadioRxTimeout`, `Persist`, `PersistRelay`, `PersistHist` and `Sleep`. Each follows the code's steps in order.
- *Environment:*
  - `Reset` may strike between any two steps and loses RAM.
  - `PvdInterrupt` may preempt any step.
  - A received frame is any telemetry frame of a DID in `Dids` with a TTL in `IncomingTtls`, or any chunk of the queen's campaign. Order, loss and duplication are all allowed. Every frame is 16 bytes. The code's `chunk_size = incoming_lora_size - 3` for frames of other lengths is a hazard in `PROJECT.json`, not a modelled case.
- *Write_OTA_Contract_To_Flash* is declared but not defined under `src/`. Its effect, writing the first `ota_bytes_received` bytes of the buffer, is taken from spec 4.3 (`FlashImage`).

**`EdgeCacheSpec.tla`** is the abstract cache of spec 4.4:

- a map from DID to the latest payload and signal, holding at most `Capacity` DIDs;
- a new DID arriving at a full cache replaces a weakest DID;
- a flush uplinks one record per DID and empties the cache.

**`EdgeCache.tla`** is the slot table as the code has it. It covers the first-match dedup, the first-free insert, the linear CIFO scan starting from 127 with strict `<`, and the flush with its buffer bound. It also includes `OnRxDone`'s `(int8_t)` RSSI cast. The abstract cache takes the `i8` signal of spec 3, so `Signals` is mapped through the same cast. `Abs == INSTANCE EdgeCacheSpec WITH cache <- AbsCache` maps active slots to the abstract map.

**`Queen.tla`** composes the cache (via `INSTANCE EdgeCache`) with the main loop and the interrupt:

- `OnRxDone` runs only while the radio receives. Any frame ends single-receive mode, and only 16-byte frames are flagged.
- `HandleFrame` covers the OTA reply with the u8 index wrap, DID extraction and the cache.
- `ClearFlag` and `Rearm` are separate steps in code order, so the interrupt can fall between them.
- `FlushCheck` uses `CACHE_MAX_ENTRIES - 5`, written `CacheMaxEntries - FlushMargin`, or the hour timer, and requires `cache_count > 0`.
- `HourPasses` is the clock.
- The history variables `handled` and `lost` detect a frame overwritten before it was cached.

**`OtaChunking.tla`** models an endless OTA campaign end to end over a channel that loses chunks:

- the queen's `total_chunks = (size+12)/13` as a `uint8_t`, its `offset` and `bytes_to_copy`, and the index advance with its wrap (`NextIdx`);
- `SendChunk(heard)` is one reflex broadcast; a chunk may go unheard at most `MaxLosses` times;
- `AnswerOther` (enabled by `OtherFrames`) is the same reflex answering a frame whose answer this soldier cannot hear: the relay frame it sent 100 ms before its own, or another soldier's frame. It advances the index and delivers nothing;
- `Receive` is the soldier's duplicate and bounds check with its fixed 13-byte chunk, the flash write, and `NVIC_SystemReset`, which clears `ota_chunk_received` and the counters, so the soldier collects and flashes again;
- `image` is the set of image positions the flash holds, and `flashed` marks the step that wrote it.

**`DmaWait.tla`** models phase 1.5 of the soldier's tick with the two callbacks that feed it:

- `dpc` walks the code: `PhaseEntry` (flag test, DMA start, `HAL_SuspendTick`), `WhileTest`, `DisableIrq`, `IfTest`, `Wfi`, `Wake`, `EnableIrq`, `Resume` (`HAL_ResumeTick`, DMA stop) and `RestOfTick` (phases 2-5 and STOP2, modelled in `Soldier`).
- The hardware is as the Cortex-M core has it. WFI does not sleep while an interrupt is pending, and a pending interrupt wakes the core even under PRIMASK. The handler runs only when PRIMASK is clear, and returns to the instruction after WFI.
- The DMA raises its interrupt at half and at full transfer. Only the full one sets `audio_ready`, so the half one is a spurious wake-up. The piezo's EXTI can fire at any time.

**`Mesh.tla`** composes the relay engines of several soldiers with the queen's receiver:

- A `Tick` of soldier `n` is phases 4 and 4.5 in one step:
  - the relay slot is sent, then the own frame with TTL 3;
  - the slot is emptied;
  - a window opens if the capacitor allows.
- Each frame reaches any subset of the neighbours listening at that moment.
- A soldier's window ends with the first frame. Scenario B (`Relays`: TTL, self-echo, DID history) decides whether the frame goes to the slot.
- The queen takes any frame in range. Its reflex OTA answer may end the open windows in its range.
- Frames are (DID, TTL) pairs. `qheard` is the DID the queen took in the last step.

**`MC*.tla`** supply the model values and small sets for TLC.

## Runs

| Run (cfg) | Expect | What it shows |
|---|---|---|
| `MCSoldier.cfg` | pass | With 2 resets, 1 brown-out and up to 2 installs: every STOP2 sleep is entered with the backup registers equal to the RAM state a reset would restore: relay flag, pending frame, DID history and DID (`BackupMatchesRam`); every flashed image is the queen's, under loss, duplication and reordering of chunks (`FlashedImageIsQueenImage`). About 4 M states, roughly 40 s. |
| `MCSoldierCrashRelay.cfg` | violation | `RelayTxOwed`: on a first boot with garbage in DR2, the node relays a frame it never received, although spec 4.1 says this state is cleared. TLC reports this shortest trace. With `FactoryGarbage <- MCCleanBackup` it reports the reset case instead: a reset between the DR2 and DR3-DR6 writes, or after a relay send but before phase 5, makes the next boot send a frame it never accepted or already sent. |
| `MCSoldierPvdHang.cfg` | violation | `TickProgress`: a brown-out during the listen window suspends SysTick, and the `HAL_GetTick` window loop never ends. |
| `MCSoldierMarkerDid.cfg` | violation | `FlashedImageIsQueenImage`: a neighbour whose DID starts with 0x99 is parsed as OTA chunks, and its telemetry can be flashed. |
| `MCEdgeCache.cfg` | pass | `CifoRefinement`: the slot table implements the abstract CIFO cache for RSSI values within int8. `CountMatchesActive`: `cache_count` equals the number of active slots. |
| `MCQueen.cfg` | pass | `NoFrameOverwritten`: the flag is cleared before `Radio.Rx`, so the interrupt cannot overwrite an unprocessed frame. `CifoNeverRuns`: the flush check after every frame keeps the cache from being full when a frame arrives, so the CIFO branch is dead code under this loop. `QueenKeepsListening`: with only 16-byte frames the receiver is always re-armed. `EntryEventuallyUplinked`: the hour timer flushes a cache below the threshold. |
| `MCQueenForeign.cfg` | violation | `QueenKeepsListening`: one frame of another size leaves the receiver in standby forever, because `Radio.Rx` is re-armed only in the flag branch. |
| `MCOtaChunking.cfg` | pass | For sizes 1, 12, 13, 14, 26, 27, 39 (the real image) and 130, with up to two lost chunks and answers to unheard frames at any time: `FlashedImageExact` (every flash write, including each reinstall after the OTA reset, is the queen's image). 61,791 states. |
| `MCDmaWait.cfg` | pass | `SleepsWithWakeAhead`: the core sleeps in the wait only while the full-transfer interrupt is still ahead, because the second test of `audio_ready` and the WFI are under `__disable_irq`. `SamplingCompletes`: every wait ends and SysTick is resumed, across spurious wake-ups by the half-transfer and vibration interrupts. 128 states. |
| `MCMeshFar.cfg` | violation | `FarReported` in the line `a - b - queen`: `b` relays `a`'s frame once, keeps `a` in `recent_mesh_dids` for good, and drops every later frame of `a`. If that one relay is lost, the queen never hears `a`, on a channel that delivers every link infinitely often. With the history test removed, the same model satisfies the property. |
| `MCOtaChunkingStarved.cfg` | violation | `OtaInstalled` for a 14-byte (two-chunk) image on a lossless channel: the queen hears this soldier's frame (chunk 0 is heard) and then one frame whose answer it cannot hear (chunk 1 is spent), again and again, so chunk 1 never arrives. Spec 4.3 says the rebroadcast installs the image. |
| `MCOtaChunkingTail.cfg` | violation | `OtaInstalled` for a 1020-byte image: its last chunk at offset 1014 fails `offset + 13 <= 1024`, so the image is never installed although it fits the buffer. |

Three more configurations are kept beside the runs. None is among the runs in `PROJECT.json`; all three are recorded in its hazards.

- `MCSoldierTtlZero.cfg` violates `NoExpiredRelay`: a TTL-1 frame is stored with TTL 0, because the TTL is tested before the decrement.
- `MCOtaChunkingWrap.cfg` violates `FlashedImageExact` for images of 3328 and 3341 bytes. The queen's `uint8_t total_chunks` wraps to 0 or 1. The soldier then flashes the first 13 bytes alone and resets. That image passes the boot check for the `RITE` magic.
- `MCSoldierReflash.cfg` violates `OtaInstalledOnce`: the endless campaign makes the soldier flash the same image after every OTA reset.

Every property of a passing run has a mutant in `PROJECT.json`: an operator defined just before the code definition it replaces, modelling a plausible slip in that code. TLC finds the property violated with the mutant in place.

## Bounds and why they suffice

**Soldier.**

- Four DIDs: the own DID, two neighbours, and the fallback.
- TTLs 0..3, where 3 is the origin TTL. This covers 0, 1 and the maximum.
- A 2-chunk campaign exercises duplicates, holes and completion.
- 2 resets are enough to reach a reset in each of the two persist windows.
- 1 brown-out is enough to reach each preemption point.
- 2 installs are enough to see a second install.

**Edge cache.**

- 2 slots and 3 keys make eviction reachable.
- Two signals give a strict weakest entry.
- 2 × 21 ≤ 2048 keeps the code's ratio (50 × 21 = 1050 ≤ 2048): the flush's `break` is unreachable in both.

**Queen.**

- 3 slots with a margin of 1 put the fill trigger (2) below capacity, as 45 < 50 does in the code. Both the fill trigger and the hour trigger are therefore reachable.
- One payload and one signal suffice because `CifoNeverRuns` shows CIFO never runs in the loop.

**OTA campaign.** The sizes cover a 1-byte image, the chunk boundaries (12, 13, 14, 26, 27), the queen's real 39-byte image and a 10-chunk image (130). Answers to unheard frames let the soldier hear any subset of chunks in any order, which is why the large sizes are left to the tail and wrap configurations. Two losses are enough for a hole that waits for the queen's wrap, and for two holes in one cycle. 61,791 states.

**DMA wait.** The state space is complete: 128 states cover every order of the two DMA interrupts, the EXTI and the core's steps.

**Mesh.** Two soldiers in a line are the smallest topology with a node out of the queen's range. The history has 3 entries, so one or two foreign DIDs never leave it. A larger mesh with four or more foreign DIDs around `b` would rotate `a` out of the history now and then.

## Fairness

- Soldier: `WF` on the steps of `main` (the core always runs) and on the radio's own RX timeout (a hardware timer). Frames, resets and brown-outs get no fairness.
- Queen: `WF` on the loop and on the clock. Frame arrival gets no fairness.
- OTA campaign: `WF` on a heard broadcast, the most generous channel there is. No run that passes depends on it; the tail and starved runs show that installation fails even so. The code does not justify more: the index also advances on answers the soldier cannot hear, and the soldier listens only when `vcap_voltage > 2800`, so a regular frame pattern can keep a chunk from ever being heard.
- DMA wait: `WF` on the core's steps and on the DMA, which TIM2 paces without the core. `SF` on each interrupt handler: PRIMASK is cleared again and again, and the NVIC takes a pending interrupt as soon as it is. The piezo gets no fairness.
- Mesh: `WF` on each soldier's tick with the window open, because the RTC wakes it and the capacitor recharges. `SF` on each link: a transmission to an open window is heard, and the queen's answer to it goes unheard. Independent losses make each such outcome happen again and again when it is possible again and again.
- Liveness properties are stated only under these assumptions.

## Not modelled, and why

- The wait on `audio_ready` has no watchdog refresh. Its length against the IWDG period is unknown, because `MX_IWDG_Init`, `MX_ADC_Init` and `MX_TIM2_Init` are not defined under `src/`.
- Sensing (ADC, RNG, `delta_t`), frame packing, mruby and AES are data. AES with one key is a bijection, so frames are modelled decrypted.
- TinyML is dead code: `Run_Inference` is commented out, so `ml_confidence` stays 0.0. This makes the acoustic counter and `Trigger_Emergency_LoRa_TX` unreachable.
- The SIM7070 AT/CoAP exchange is I/O with fixed delays. Only the batch it sends is kept. The code never reads a modem reply (`HAL_Delay(2000)` stands in for the UDP ACK) and has already freed the cache, so a failed uplink loses the batch; there is no branch to model, and the hazard list records it.
- Both nodes call `Radio.Init(NULL)`, which registers no callbacks. The models assume `OnRxDone` is wired, as the comments intend.
- The radio driver is not in the repository, so neither TX-then-RX abort is modelled: the soldier's `Radio.Rx` right after its send, and the queen's `Radio.Rx` after `HAL_Delay(60)`.
- The cache's last-write-wins dedup lets a relayed older frame overwrite a fresher one. Spec 4.4 chooses this, and `Mesh` frames carry no age.

## Plan for further work

1. A mesh of four or more soldiers, to see how often the DID history rotates. A star of five soldiers around `b` had found only about 30,000 distinct states after three minutes, because every transmission enumerates all subsets of its listeners, so this needs a coarser delivery model first. Also and telemetry read as OTA across nodes, which needs DIDs with byte values.
