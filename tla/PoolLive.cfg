\* A stream and two calls on one worker that restarts, a queue of two.
CONSTANTS
  w1 = w1  w2 = w2  r1 = r1  r2 = r2  s1 = s1  session = session
  NoWorker = NoWorker  NoSession = NoSession
  Workers = {w1}
  Requests = {r1, r2}
  Streams = {s1}
  Sessions = {}
  SessionOf <- NoSessions
  Capacity = 1
  MaxQueue = 2
  AffinityOf <- Hint
  RetryPolicy = "never"
  Idempotent = {}
  MaxRetries = 0
  Faults = {"client_down", "worker_restart", "worker_gone", "retention"}
  MaxBoots = 2
SPECIFICATION FairSpec
INVARIANTS NothingLeftOver OverfilledOncePerLife CallsAccounted
PROPERTIES EveryCallAnswered
