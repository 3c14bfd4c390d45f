-------------------------------- MODULE Mesh --------------------------------
(***************************************************************************)
(* Several soldiers and the queen over the radio.  Each soldier tick       *)
(* (src/firmware/soldier/main.c, phases 4 and 4.5) sends its pending relay *)
(* frame, then its own frame with TTL 3, then, when the capacitor allows,  *)
(* opens a listen window that ends with the first frame heard.  A frame    *)
(* reaches any subset of the neighbours whose receiver is open at that     *)
(* moment: collisions, range and timing are loss.  The queen               *)
(* (src/firmware/queen/main.c) caches every telemetry frame it hears and   *)
(* answers with an OTA chunk.                                              *)
(* A frame is its sender DID and TTL; nodes are their DIDs.                *)
(***************************************************************************)
EXTENDS Naturals, FiniteSets

CONSTANTS
  Soldiers,    \* the soldiers, named by their DIDs
  Queen,       \* the gateway
  NoDid,       \* an empty entry of recent_mesh_dids (0)
  Nbrs,        \* Nbrs[x]: the nodes within radio range of x
  OriginTtl,   \* lora_payload[11] = 3
  Far          \* a soldier out of the queen's range

VARIABLES
  slot,        \* has_mesh_relay / mesh_relay_payload of each soldier
  hist,        \* recent_mesh_dids[0..2] of each soldier
  listening,   \* the soldier's listen window is open
  qheard       \* DID of the frame the queen took in this step, else NoDid

vars == <<slot, hist, listening, qheard>>

Frame(d, t) == [did |-> d, ttl |-> t]
NoFrame == Frame(NoDid, 0)

\* Who can take a frame sent by x now: open soldier windows, and the
\* queen, whose receiver is re-armed long before the next tick.
Listeners(x) == {m \in Nbrs[x] : m = Queen \/ listening[m]}

\* Scenario B of the listen window: TTL above 0, not our own DID and not
\* in recent_mesh_dids, so the frame is stored with TTL - 1.
Relays(m, f) ==
  /\ f.ttl > 0
  /\ f.did # m
  /\ \A i \in 1..3 : hist[m][i] # f.did

\* One soldier tick: Radio.Send of the relay slot (heard by R1), of the own
\* frame (heard by R2), has_mesh_relay = 0, then the window opens if
\* vcap_voltage > 2800 (listen).  Every receiver's window ends with the
\* frame; a soldier stores it for relay and shifts its DID history.  A
\* queen that took a frame answers 60 ms later with an OTA chunk, which
\* ends the windows still open in its range that hear it (R3).
Tick(n, R1, R2, R3, listen) ==
  LET recv == [m \in R1 \cup R2 |-> IF m \in R1 THEN slot[n] ELSE Frame(n, OriginTtl)]
      keep(m) == m \in DOMAIN recv /\ m # Queen /\ Relays(m, recv[m])
      open == [m \in Soldiers |->
                 IF m = n THEN listen ELSE listening[m] /\ m \notin DOMAIN recv]
  IN /\ R3 \subseteq {m \in Nbrs[Queen] : Queen \in DOMAIN recv /\ open[m]}
     /\ slot' = [m \in Soldiers |->
                   IF m = n THEN NoFrame
                   ELSE IF keep(m) THEN [recv[m] EXCEPT !.ttl = @ - 1]
                   ELSE slot[m]]
     /\ hist' = [m \in Soldiers |->
                   IF keep(m) THEN <<recv[m].did, hist[m][1], hist[m][2]>>
                   ELSE hist[m]]
     /\ listening' = [m \in Soldiers |-> open[m] /\ m \notin R3]
     /\ qheard' = IF Queen \in DOMAIN recv THEN recv[Queen].did ELSE NoDid

\* The receivers a tick may reach: the relay only if the slot is full.
SendTick(n, listen) ==
  \E R1 \in SUBSET (IF slot[n] = NoFrame THEN {} ELSE Listeners(n)) :
    \E R2 \in SUBSET (Listeners(n) \ R1), R3 \in SUBSET Soldiers :
      Tick(n, R1, R2, R3, listen)

\* A tick of n whose relay frame (k = 1) or own frame (k = 2) m takes,
\* and whose answer from the queen, if any, nobody hears.
Delivers(n, m, k) ==
  \E R1 \in SUBSET (IF slot[n] = NoFrame THEN {} ELSE Listeners(n)) :
    \E R2 \in SUBSET (Listeners(n) \ R1) :
      /\ m \in (IF k = 1 THEN R1 ELSE R2)
      /\ Tick(n, R1, R2, {}, TRUE)

Init ==
  /\ slot = [m \in Soldiers |-> NoFrame]
  /\ hist = [m \in Soldiers |-> <<NoDid, NoDid, NoDid>>]
  /\ listening = [m \in Soldiers |-> FALSE]
  /\ qheard = NoDid

Next == \E n \in Soldiers, listen \in BOOLEAN : SendTick(n, listen)

\* The RTC wakes every soldier, and its capacitor is above 2.8 V again and
\* again.  Every transmission is lost or heard independently of the
\* others, so an outcome possible again and again happens now and then:
\* a frame reaches a listener and the queen's answer to it goes unheard
\* (strong fairness, since the listener's window opens and closes).
Fairness ==
  /\ \A n \in Soldiers : WF_vars(SendTick(n, TRUE))
  /\ \A n \in Soldiers : \A m \in Nbrs[n] :
       SF_vars(Delivers(n, m, 1)) /\ SF_vars(Delivers(n, m, 2))

Spec == Init /\ [][Next]_vars /\ Fairness

-----------------------------------------------------------------------------
\* Spec 4.2: relay loss is self-healing because every node re-originates
\* its state each cycle.  A soldier out of the queen's range keeps being
\* heard by the queen through its neighbours, again and again.
FarReported == []<>(qheard = Far)
=============================================================================
