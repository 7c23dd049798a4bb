\* One worker and its replacements, two recycles at a time, one fault: a worker
\* that crashes or exits, tasks that are killed or time out, a start that fails,
\* a manager that ends with or without its terminate/2.
CONSTANTS
  Ids = {a, b}
  Initial = {a}
  Boots = {1, 2}
  MaxRequests = 1
  Jobs = {1, 2}
  MaxMail = 1
  Faults = {"timeout", "start_fails", "tasks_killed", "stop", "crash", "exit"}
  MaxFaults = 1
  None = None
SPECIFICATION Spec
INVARIANTS PoolAccounted StoppedBeforeReplaced DueIsRecycled
CHECK_DEADLOCK FALSE
