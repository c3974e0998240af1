SPECIFICATION FairSpec
CONSTANTS
  Base = 3
  Ids = 3
  ArgLens <- MCArgLens
  RetLens <- MCRetLens
  Transports = {"stream", "udp"}
  GroupLimit = 4
  MaxDatagram = 6
  MaxSent = 2
CHECK_DEADLOCK FALSE
INVARIANT TypeOK
INVARIANT ExecutedAsCalled
INVARIANT ReplyMatches
INVARIANT SubscriberInStep
PROPERTY EverythingArrives
