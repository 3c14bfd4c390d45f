\* Images of 3316 bytes and more: total_chunks wraps to 0 or a small count.
CONSTANTS
  Sizes <- MCWrapSizes
  OtaPayload = 13
  OtaBufferSize = 1024
  MaxLosses = 0
  OtherFrames = FALSE
SPECIFICATION Spec
INVARIANT FlashedImageExact
