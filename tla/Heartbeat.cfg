\* A dependent or an independent worker, pings that wait for the pong or not;
\* the worker becomes slow, unreliable or silent, crashes and is started again.
CONSTANTS
  Refs = {p1, p2, p3}
  MaxMissed = 2
  MaxLeaked = 1
  MaxMail = 4
  MaxOwed = 1
  None = None
SPECIFICATION FairSpec
INVARIANTS PingsAccounted HealthyWorkerSpared
PROPERTIES HungWorkerStopped KeepsPinging
CHECK_DEADLOCK FALSE
