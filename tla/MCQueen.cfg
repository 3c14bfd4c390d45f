\* Queen loop: 3 cache slots, flush at 3 - 1 entries (the code's 50 - 5), only 16-byte frames.
CONSTANTS
  Keys <- MCKeys
  Payloads <- MCPayloads
  Signals <- MCSignals
  k1 = k1
  k2 = k2
  k3 = k3
  p1 = p1
  CacheMaxEntries = 3
  FlushMargin = 1
  BatchBufferSize = 2048
  RecordSize = 21
  PendingOtaSize = 39
  OtaPayload = 13
  FrameSizes <- MCSizes
SPECIFICATION Spec
INVARIANT TypeOK NoFrameOverwritten CifoNeverRuns
PROPERTY QueenKeepsListening EntryEventuallyUplinked
