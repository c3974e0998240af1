SPECIFICATION FairServerSpec
CONSTANTS
  Callers = {c1}
  MaxCalls = 4
  AwaitReply = TRUE
  Faults = {"encode", "decode", "write", "close", "stop", "recall"}
  NoCall = NoCall
INVARIANTS OwnReply SentOnceUntilStop TrueMeansSent
PROPERTY CallReturns
CHECK_DEADLOCK FALSE
