\* Bytes of eight values: numbers up to 8^8, all four sizes within reach.
CONSTANTS
  Base = 8
  Type <- MCType
  Values <- MCValues
  Depth <- MCDepth
  MaxDepth = 5
SPECIFICATION Spec
INVARIANT CodecTypeOK
INVARIANT RoundTrip
INVARIANT CutIsNoticed
CHECK_DEADLOCK FALSE
