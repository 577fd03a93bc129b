\* An interval of three ticks, so that packets come within it, too.
CONSTANTS
  t1 = t1
  t2 = t2
  Task = {t1, t2}
  Interval = 3
  MUST_BE_LOGOUT = 40
  Horizon = 14
SPECIFICATION Spec
INVARIANT HeartBeatTypeOK
INVARIANT DetectsInTime
INVARIANT OnlySilenceEndsIt
INVARIANT SignalIsKept
SYMMETRY Symmetry
