SPECIFICATION FairSpec
CONSTANTS
  Publishers = {p1}
  Waiters = {w1}
  MaxPublish = 2
  NBuffers = 5
  Capacity = 1
  Faults = {"encode", "write", "stop"}
INVARIANTS TypeOK BufferOwned IntactUnlessLate WaitedFor
PROPERTIES EventuallyWritten EverybodyReturns
CHECK_DEADLOCK FALSE
