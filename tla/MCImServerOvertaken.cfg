\* One connection, a login and a message after it.
CONSTANTS
  c1 = c1
  u1 = u1
  t1 = t1
  t2 = t2
  None = None
  Conn = {c1}
  User = {u1}
  Task = {t1, t2}
  Kind = {"login", "other"}
  ForwardsDisconnect = FALSE
  MaxId = 2
SPECIFICATION FairSpec
PROPERTY LoginFirstIsEnough
CHECK_DEADLOCK FALSE
