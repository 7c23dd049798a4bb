SPECIFICATION Spec
CONSTANTS
  Threads = {t1}
  LoopThread = loop
  Streams = {s1, s2}
  MaxBuffer = 2
  MaxEvents = 3
INVARIANTS Accounted LoopEventsInOrder
PROPERTIES CloseEndsStream
CHECK_DEADLOCK FALSE
