\* Two callers, one probe: callers are killed, an operator resets, the retry
\* policy retries through an open circuit.
CONSTANTS
  Callers = {c1, c2}
  Threshold = 2
  MaxProbes = 1
  MaxAttempts = 2
  RetryOpen = TRUE
  Faults = {"killed", "reset"}
SPECIFICATION FairSpec
INVARIANTS SlotsAccounted ClosedBelowThreshold
PROPERTIES ProbesDecide ProtectedCallEnds
