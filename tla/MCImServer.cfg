\* The stack of im/src/main.rs: two users, two connections, three packets.
CONSTANTS
  c1 = c1
  c2 = c2
  u1 = u1
  u2 = u2
  t1 = t1
  t2 = t2
  t3 = t3
  None = None
  Conn = {c1, c2}
  User = {u1, u2}
  Task = {t1, t2, t3}
  Kind = {"login", "badlogin", "logout", "other"}
  ForwardsDisconnect = FALSE
  MaxId = 2
SPECIFICATION Spec
INVARIANT ServerTypeOK
INVARIANT OnlyProvedAreRegistered
INVARIANT InnerIsGuarded
INVARIANT HandledLoginIsEnough
INVARIANT SettledUsersAreFound
INVARIANT IdsDiffer
INVARIANT StuckOnlyDuringLogin
SYMMETRY Symmetry
CHECK_DEADLOCK FALSE
