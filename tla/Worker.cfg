\* Two calls and a health check under every fault.
CONSTANTS
  Clients = {a, b}
  Checks = {h}
  Faults = {"task_killed", "caller_timeout", "python_exit", "supervisor", "heartbeat", "system"}
SPECIFICATION FairSpec
INVARIANTS NoCallStranded
PROPERTIES NoFalseCrash ServesInOrder CallEnds
CHECK_DEADLOCK FALSE
