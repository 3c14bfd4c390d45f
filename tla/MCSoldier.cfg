\* Safety of one soldier under resets, a brown-out and repeated OTA installs.
CONSTANTS
  Dids <- MCDids
  DidHeader <- MCDidHeader
  IdCandidates <- MCIdCandidates
  FallbackDid <- MCFallbackDid
  FactoryGarbage <- MCCleanBackup
  IncomingTtls <- MCIncomingTtls
  ImageChunks = 2
  OtaMarker = 153
  ChunkSize = 13
  OtaBufferSize = 1024
  OriginTtl = 3
  NoFrame = NoFrame
  MaxResets = 2
  MaxPvd = 1
  MaxInstalls = 2
SPECIFICATION Spec
INVARIANT BackupMatchesRam
INVARIANT FlashedImageIsQueenImage
\* A brown-out during the listen window leaves the core spinning in the
\* window loop forever (see the TickProgress run), so the system may stop.
CHECK_DEADLOCK FALSE
