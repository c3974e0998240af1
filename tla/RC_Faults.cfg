SPECIFICATION FairServerSpec
CONSTANTS
  Callers = {c1}
  Waiters = {w1}
  MaxCalls = 3
  Faults = {"encode", "decode", "send", "close", "stop"}
  NoCall = NoCall
INVARIANTS OwnReply AtMostOnce CallTracked
PROPERTIES CallReturns Released
CHECK_DEADLOCK FALSE
