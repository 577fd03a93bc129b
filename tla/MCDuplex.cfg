\* A direction of the socket holds half a packet, so each can be full in the
\* middle of one, and there are enough packets for both to be at once.
CONSTANTS
  o1 = o1
  o2 = o2
  a1 = a1
  p1 = p1
  p2 = p2
  k1 = k1
  k2 = k2
  Outgoing = {o1, o2}
  Message = {o1}
  Incoming = {p1, p2, a1}
  Said = {p1, p2}
  CliAck <- MCCliAck
  Closer = {k1, k2}
  ChannelCap = 1
  NetCap = 1
SPECIFICATION DuplexFairSpec
INVARIANT ConnTypeOK
INVARIANT DuplexTypeOK
INVARIANT EachWayInOrder
PROPERTY ImplementsFifoLink
PROPERTY WritesEnd
PROPERTY SendsReturnUnlessMutual
PROPERTY ClosesEndUnlessMutual
PROPERTY LossEndsBoth
CHECK_DEADLOCK FALSE
