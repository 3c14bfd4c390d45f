---------------------------- MODULE MCOtaChunking ----------------------------
EXTENDS OtaChunking

\* The queen's image (39 bytes) and the sizes around the first and second
\* chunk boundaries, and a ten-chunk image.
MCSizes == {1, 12, 13, 14, 26, 27, 39, 130}
\* A two-chunk image.
MCStarvedSizes == {14}
\* An image that fits the buffer but not in whole 13-byte chunks.
MCTailSizes == {1020}
\* Images whose chunk count wraps the queen's uint8_t total_chunks.
MCWrapSizes == {3328, 3341}
=============================================================================
