SPECIFICATION Spec
CONSTANTS
  Conns = {c1, c2}
  Kinds = {"tcpClient", "tcpServer", "udp", "pipe"}
  Ways = {"blocking", "callback", "direct"}
  Handles = {1, 2, 3}
  Listener = Listener
CHECK_DEADLOCK FALSE
INVARIANT NoDanglingUse
INVARIANT ClosedByOwner
INVARIANT KeptAndReleased
