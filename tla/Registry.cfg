\* One worker id, two OS processes, and three starts of the registry, any of
\* which may be that of a new BEAM.
CONSTANTS
  WorkerIds = {w1}
  Pids = {p1, p2}
  NoPid = NoPid
  MaxRuns = 3
  Attempts = 1
  Scans = {TRUE, FALSE}
  Mishaps = {"beam_crash", "registry_crash", "worker_killed", "init_fails", "task_dies", "stop_cut"}
SPECIFICATION RegistrySpec
SYMMETRY PidsAlike
INVARIANTS OrphansGone RunningRecorded
PROPERTIES CleanupSparesWorkers
CHECK_DEADLOCK FALSE
