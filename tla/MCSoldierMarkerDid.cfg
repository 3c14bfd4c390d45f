\* A neighbour whose DID begins with 0x99 (expected violation).
CONSTANTS
  Dids <- MCDids
  DidHeader <- MCMarkerDidHeader
  IdCandidates <- MCIdCandidates
  FallbackDid <- MCFallbackDid
  FactoryGarbage <- MCCleanBackup
  IncomingTtls <- MCIncomingTtls
  ImageChunks = 2
  OtaMarker = 153
  ChunkSize = 13
  OtaBufferSize = 1024
  OriginTtl = 3
  NoFrame = NoFrame
  MaxResets = 0
  MaxPvd = 0
  MaxInstalls = 1
SPECIFICATION Spec
INVARIANT FlashedImageIsQueenImage
