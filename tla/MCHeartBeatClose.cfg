\* A client that says nothing, or nothing any more.
CONSTANTS
  t1 = t1
  Task = {t1}
  Interval = 2
  MUST_BE_LOGOUT = 40
  Horizon = 9
SPECIFICATION FairSpec
PROPERTY SilentIsClosed
