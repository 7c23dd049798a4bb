\* A call that may be retried after a crash, a call and a stream of one session in
\* the two strict affinity modes, clients that die.
CONSTANTS
  w1 = w1  w2 = w2  r1 = r1  r2 = r2  s1 = s1  session = session
  NoWorker = NoWorker  NoSession = NoSession
  Workers = {w1, w2}
  Requests = {r1, r2}
  Streams = {s1}
  Sessions = {session}
  SessionOf <- TwoOfThem
  Capacity = 1
  MaxQueue = 1
  AffinityOf <- MixedModes
  RetryPolicy = "idempotent"
  Idempotent = {r1}
  MaxRetries = 1
  Faults = {"crash", "taint_expires", "checkout_timeout", "stream_killed", "client_down", "cache_expires"}
  MaxBoots = 1
SPECIFICATION Spec
SYMMETRY WorkersAlike
INVARIANTS LoadCoversWork AvailableIsFree WorkConserving
PROPERTIES ServesClients
