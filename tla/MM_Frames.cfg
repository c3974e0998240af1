SPECIFICATION FairSpec
CONSTANTS
  StreamLen = 6
  Lens = {1, 2, 3}
  ReadCap = 4
  Roles = {"receiver", "sender"}
INVARIANTS Framing CopyInBounds
PROPERTIES StreamSpec SubMessageParsed PeerCloseEndsFlow
