SPECIFICATION FairSpec
CONSTANTS
  Publishers = {p1}
  Waiters = {w1}
  MaxPublish = 4
  Sizes = {1, 3}
  GroupSize = 2
  MaxSize = 2
  groupMessages = TRUE
  Faults = {"write", "stop"}
INVARIANTS Conserved WaitedFor WrittenInOrder
PROPERTIES EventuallyWritten Released
CHECK_DEADLOCK FALSE
