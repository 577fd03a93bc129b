\* One call, one incoming packet: the connection is lost while the call waits.
CONSTANTS
  c1 = c1
  i1 = i1
  r1 = r1
  NoCall = NoCall
  Outgoing = {c1}
  Call = {c1}
  Incoming = {i1}
  RequestId = {r1}
  Closer = {}
  ChannelCap = 1
SPECIFICATION FairSpec
PROPERTY LossWakesCallers
CHECK_DEADLOCK FALSE
