SPECIFICATION FairSpec
CONSTANTS
  StreamLen = 6
  Lens = {1, 2, 3}
  ReadCap = 4
  Roles = {"receiver", "sender"}
INVARIANT Framing
PROPERTIES StreamSpec ParsedUnlessOvershot
