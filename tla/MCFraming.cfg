\* Three frames, bodies of 1 and 5 bytes, every way to cut the stream.
CONSTANTS
  BodyLen = {1, 5}
  StreamLen = 23
SPECIFICATION FairSpec
INVARIANT FramingTypeOK
INVARIANT AtBoundary
PROPERTY ImplementsFifoLink
PROPERTY LossIsNoticed
CHECK_DEADLOCK FALSE
