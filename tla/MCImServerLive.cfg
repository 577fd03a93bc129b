\* Two connections, two users, two packets; `disconnected` gets this far.
CONSTANTS
  c1 = c1
  c2 = c2
  u1 = u1
  u2 = u2
  t1 = t1
  t2 = t2
  None = None
  Conn = {c1, c2}
  User = {u1, u2}
  Task = {t1, t2}
  Kind = {"login", "other"}
  ForwardsDisconnect = TRUE
  MaxId = 2
SPECIFICATION FairSpec
INVARIANT LeaversAreForgotten
INVARIANT SettledUsersAreFound
PROPERTY LoginsRegister
CHECK_DEADLOCK FALSE
