\* Crash-safe relay slot: factory garbage in the backup registers and one reset (expected violation).
CONSTANTS
  Dids <- MCDids
  DidHeader <- MCDidHeader
  IdCandidates <- MCIdCandidates
  FallbackDid <- MCFallbackDid
  FactoryGarbage <- MCGarbageBackup
  IncomingTtls <- MCIncomingTtls
  ImageChunks = 2
  OtaMarker = 153
  ChunkSize = 13
  OtaBufferSize = 1024
  OriginTtl = 3
  NoFrame = NoFrame
  MaxResets = 1
  MaxPvd = 0
  MaxInstalls = 1
SPECIFICATION Spec
INVARIANT RelayTxOwed
