SPECIFICATION FairSpec
CONSTANTS
  StreamLen = 4
  Lens = {2}
  ReadCap = 4
  Roles = {"receiver"}
PROPERTY SubMessageParsed
