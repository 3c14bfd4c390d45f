\* An image of 1015..1024 bytes: the last chunk slot runs past ota_buffer.
CONSTANTS
  Sizes <- MCTailSizes
  OtaPayload = 13
  OtaBufferSize = 1024
  MaxLosses = 0
  OtherFrames = FALSE
SPECIFICATION Spec
PROPERTY OtaInstalled
