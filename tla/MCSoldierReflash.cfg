\* The gateway rebroadcasts its campaign forever (expected violation).
CONSTANTS
  Dids <- MCDids
  DidHeader <- MCDidHeader
  IdCandidates <- MCIdCandidates
  FallbackDid <- MCFallbackDid
  FactoryGarbage <- MCCleanBackup
  IncomingTtls <- MCIncomingTtls
  ImageChunks = 2
  OtaMarker = 153
  ChunkSize = 13
  OtaBufferSize = 1024
  OriginTtl = 3
  NoFrame = NoFrame
  MaxResets = 0
  MaxPvd = 0
  MaxInstalls = 2
SPECIFICATION Spec
INVARIANT OtaInstalledOnce
