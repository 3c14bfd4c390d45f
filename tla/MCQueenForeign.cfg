\* A frame of another size than 16 bytes reaches OnRxDone.
CONSTANTS
  Keys <- MCKeys
  Payloads <- MCPayloads
  Signals <- MCSignals
  k1 = k1
  k2 = k2
  k3 = k3
  p1 = p1
  CacheMaxEntries = 3
  FlushMargin = 1
  BatchBufferSize = 2048
  RecordSize = 21
  PendingOtaSize = 39
  OtaPayload = 13
  FrameSizes <- MCForeignSizes
SPECIFICATION Spec
PROPERTY QueenKeepsListening
