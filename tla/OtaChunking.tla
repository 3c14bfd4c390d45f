----------------------------- MODULE OtaChunking -----------------------------
(***************************************************************************)
(* An OTA campaign end to end: the queen's reflex broadcast in             *)
(* src/firmware/queen/main.c cuts the image into 13-byte chunks behind a   *)
(* 3-byte header and sends them in index order, wrapping round, for ever;  *)
(* the soldier's listen window in src/firmware/soldier/main.c places each  *)
(* 16-byte frame's 13 payload bytes at idx * 13 in ota_buffer, after the   *)
(* duplicate and bounds checks, writes the buffer to flash once it holds   *)
(* total_chunks chunks, and resets, which clears its RAM.  The queen       *)
(* answers every frame it hears and advances its index each time, but the  *)
(* soldier can take only the answer to its own frame: the answer to its    *)
(* relay frame or to another soldier's frame comes while its window is     *)
(* closed.  An answer to its own frame may go unheard, at most MaxLosses   *)
(* times.  Image bytes are their positions; a chunk is the set of          *)
(* positions it carries.                                                   *)
(***************************************************************************)
EXTENDS Integers, FiniteSets

CONSTANTS
  Sizes,          \* pending_ota_size values (u16) the campaign may carry
  OtaPayload,     \* 16-byte frame minus the 3-byte header = 13
  OtaBufferSize,  \* sizeof(ota_buffer) on the soldier = 1024
  MaxLosses,      \* bound on answers to the soldier's own frame it misses
  OtherFrames     \* TRUE: the queen also hears frames this soldier is not
                  \* listening after (its relay, other soldiers)

VARIABLES
  size,        \* pending_ota_size
  idx,         \* current_ota_chunk_idx on the queen
  got,         \* ota_chunk_received[] on the soldier, as a set of indices
  bytes,       \* ota_bytes_received
  image,       \* the image positions the soldier's flash holds
  flashed,     \* this step called Write_OTA_Contract_To_Flash
  lost         \* chunks lost so far

vars == <<size, idx, got, bytes, image, flashed, lost>>

\* Mutant: total_chunks = pending_ota_size / 13, rounding down.
TotalChunksFloor(s) == (s \div OtaPayload) % 256

\* uint8_t total_chunks = (pending_ota_size + 12) / 13;
TotalChunks(s) == ((s + OtaPayload - 1) \div OtaPayload) % 256

\* current_ota_chunk_idx++; if (>= total_chunks) current_ota_chunk_idx = 0;
NextIdx(i, total) == IF (i + 1) % 256 >= total THEN 0 ELSE (i + 1) % 256

\* The image positions one OTA frame carries: offset = idx * 13 and
\* bytes_to_copy = min(13, size - offset), cut to a byte.
Chunk(s, i) ==
  LET offset == (i * OtaPayload) % 65536
      n == IF s - offset > OtaPayload THEN OtaPayload ELSE (s - offset) % 256
  IN offset..(offset + n - 1)

Init ==
  /\ size \in Sizes
  /\ idx = 0
  /\ got = {}
  /\ bytes = 0
  /\ image = {}
  /\ flashed = FALSE
  /\ lost = 0

\* The soldier takes the frame: a new chunk whose 13 bytes fit in
\* ota_buffer is stored; once the chunk count reaches ota_total_chunks the
\* buffer is flashed and NVIC_SystemReset clears the RAM state.
Receive(total) ==
  LET got2 == got \cup {idx}
      fits == idx * OtaPayload + OtaPayload <= OtaBufferSize
      done == Cardinality(got2) >= total
  IN IF idx \notin got /\ fits
       THEN /\ got' = IF done THEN {} ELSE got2
            /\ bytes' = IF done THEN 0 ELSE (bytes + OtaPayload) % 65536
            /\ image' = IF done THEN UNION {Chunk(size, i) : i \in got2} ELSE image
            /\ flashed' = done
       ELSE /\ flashed' = FALSE
            /\ UNCHANGED <<got, bytes, image>>

\* The queen's reflex answer to the soldier's own frame: the chunk of the
\* current index, then the index advances; the soldier hears it, or it is
\* lost.
SendChunk(heard) ==
  LET total == TotalChunks(size)
  IN /\ idx' = NextIdx(idx, total)
     /\ IF heard
          THEN Receive(total) /\ UNCHANGED lost
          ELSE /\ lost < MaxLosses
               /\ lost' = lost + 1
               /\ flashed' = FALSE
               /\ UNCHANGED <<got, bytes, image>>
     /\ UNCHANGED size

\* The queen answers a frame sent while this soldier's window is closed:
\* its relay frame (sent 100 ms before its own) or another soldier's.  The
\* chunk is spent and the index advances; the soldier takes nothing.
AnswerOther ==
  /\ OtherFrames
  /\ idx' = NextIdx(idx, TotalChunks(size))
  /\ flashed' = FALSE
  /\ UNCHANGED <<size, got, bytes, image, lost>>

Next == AnswerOther \/ \E heard \in BOOLEAN : SendChunk(heard)

\* The most generous channel: the queen hears the soldier's own frame on
\* every tick and the soldier, listening, hears the answer whenever it is
\* not lost.  The code guarantees no more than that.
Spec == Init /\ [][Next]_vars /\ WF_vars(SendChunk(TRUE))

-----------------------------------------------------------------------------
\* Whatever the soldier writes to flash is the queen's image, byte for
\* byte: chunking on the queen and reassembly on the soldier agree on sizes
\* and offsets, over losses and after the OTA reset.
FlashedImageExact == image # {} => image = 0..(size - 1)

\* Spec 4.3: an image that fits ota_buffer is installed.  The queen's
\* wrapping index should bring every missing chunk round again.
OtaInstalled == <>flashed
=============================================================================
