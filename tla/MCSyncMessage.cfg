\* Two calls and a plain packet, two incoming packets, two ids.  The loop returns
\* by errors only, which is all the same to this layer: Duplex has the closes.
CONSTANTS
  c1 = c1
  c2 = c2
  o1 = o1
  i1 = i1
  i2 = i2
  r1 = r1
  r2 = r2
  NoCall = NoCall
  Outgoing = {c1, c2, o1}
  Call = {c1, c2}
  Incoming = {i1, i2}
  RequestId = {r1, r2}
  Closer = {}
  ChannelCap = 1
SPECIFICATION FairSpec
INVARIANT SyncTypeOK
INVARIANT WaitingIsReachable
INVARIANT OnlyTimeoutsLeaveEntries
PROPERTY ImplementsRequestReply
PROPERTY RepliesStayOutOfInner
PROPERTY CallsReturn
CHECK_DEADLOCK FALSE
