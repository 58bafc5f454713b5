SPECIFICATION Spec
CONSTANTS
  Keepalive = 1
  Timeout = 2
  MinBackoff = 1
  MaxBackoff = 3
  ResolveInterval = 2
  LoginTimeout = 2
  PeerTimeout = 3
  Addresses = {"a", "b"}
  MaxDisturbances = 2
  NetworkID = 1
  StaleAfter = 2
  Places = {"a", "b"}
  MaxMoves = 2
CHECK_DEADLOCK FALSE
PROPERTY
  LinksRecover
  ClosedIsQuiet
