\* The slot table implements the CIFO cache, with RSSI within int8, and cache_count tracks the active slots.
CONSTANTS
  k1 = k1
  k2 = k2
  k3 = k3
  p1 = p1
  p2 = p2
  Keys <- MCKeys
  Payloads <- MCPayloads
  Signals <- MCSignals
  CacheMaxEntries = 2
  BatchBufferSize = 2048
  RecordSize = 21
SPECIFICATION Spec
INVARIANT CountMatchesActive
PROPERTY CifoRefinement
