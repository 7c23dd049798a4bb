SPECIFICATION StreamSpec
CONSTANTS
  MaxQueue = 2
  MaxChunks = 4
INVARIANTS ChunksDelivered
PROPERTIES NothingHeld StreamEnds
CHECK_DEADLOCK FALSE
