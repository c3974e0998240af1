SPECIFICATION Spec
CONSTANTS
  Callers = {c1}
  MaxCalls = 2
  AwaitReply = FALSE
  Faults = {}
  NoCall = NoCall
INVARIANT TrueMeansSent
CHECK_DEADLOCK FALSE
