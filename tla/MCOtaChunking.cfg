\* An endless OTA campaign: the queen also answers frames the soldier does
\* not listen after, and up to two answers to its own frame are lost.
CONSTANTS
  Sizes <- MCSizes
  OtaPayload = 13
  OtaBufferSize = 1024
  MaxLosses = 2
  OtherFrames = TRUE
SPECIFICATION Spec
INVARIANT FlashedImageExact
