\* A two-chunk image; the queen hears one frame the soldier does not listen
\* after (its relay, another soldier's) per frame of its own.
CONSTANTS
  Sizes <- MCStarvedSizes
  OtaPayload = 13
  OtaBufferSize = 1024
  MaxLosses = 0
  OtherFrames = TRUE
SPECIFICATION Spec
PROPERTY OtaInstalled
