\* Two threads and three calls, two switches of the checker.
CONSTANTS
  Threads = {t1, t2}
  NoThread = NoThread
  MaxCalls = 3
  MaxSwitches = 2
SPECIFICATION Spec
SYMMETRY ThreadsAlike
INVARIANTS InsideExact StatsAddUp CheckerConsistent
CHECK_DEADLOCK FALSE
