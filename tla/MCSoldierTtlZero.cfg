\* Spec 8: a frame with TTL 0 after the decrement is never queued (expected violation).
CONSTANTS
  Dids <- MCDids
  DidHeader <- MCDidHeader
  IdCandidates <- MCIdCandidates
  FallbackDid <- MCFallbackDid
  FactoryGarbage <- MCCleanBackup
  IncomingTtls <- MCIncomingTtls
  ImageChunks = 2
  OtaMarker = 153
  ChunkSize = 13
  OtaBufferSize = 1024
  OriginTtl = 3
  NoFrame = NoFrame
  MaxResets = 0
  MaxPvd = 0
  MaxInstalls = 1
SPECIFICATION Spec
INVARIANT NoExpiredRelay
