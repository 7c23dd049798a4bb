\* One idempotent call whose worker may crash, and another worker to retry on.
CONSTANTS
  w1 = w1  w2 = w2  r1 = r1  r2 = r2  s1 = s1  session = session
  NoWorker = NoWorker  NoSession = NoSession
  Workers = {w1, w2}
  Requests = {r1}
  Streams = {}
  Sessions = {}
  SessionOf <- NoSessions
  Capacity = 1
  MaxQueue = 1
  AffinityOf <- Hint
  RetryPolicy = "idempotent"
  Idempotent = {r1}
  MaxRetries = 1
  Faults = {"crash"}
  MaxBoots = 1
SPECIFICATION FairSpec
PROPERTIES EveryCallAnswered
