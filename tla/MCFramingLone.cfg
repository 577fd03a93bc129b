\* Frames of one length; the stream stays up.
CONSTANTS
  BodyLen = {2}
  StreamLen = 6
SPECIFICATION FairSpec
PROPERTY WrittenIsReturned
CHECK_DEADLOCK FALSE
