SPECIFICATION Spec
CONSTANTS
  Sessions = {s1}
  Calls = {c1, c2}
  Options <- MCOptions
  MaxRetries = 2
  None = None
INVARIANTS EveryHeartbeatOwned AdapterReleased
PROPERTIES StopsWhenItShould ResultsArrive
CHECK_DEADLOCK FALSE
