\* One transmission comes from its repeater and over a QSP link, an alert is
\* sent beside it, and one thing is edited at any moment: the table, the
\* lists, a registration or an attachment.  Three instants reach both sides
\* of the timeout.
SPECIFICATION MCSpec
CONSTANTS
  Scripts <- AllScripts
  a = a
  b = b
  q = q
  f = f
  z = z
  r1 = r1
  r2 = r2
  Peers = {a, b}
  LinkedPeers = {b}
  Links = {q, f}
  QSPLinks = {q}
  Transcoders = {z}
  Server = Server
  AnyPeer = AnyPeer
  Radios = {r1, r2}
  Streams = {1, 2}
  Talkgroups = {1, 2}
  Slots = {1}
  Calls <- MCCalls
  Tables <- MCTables
  Lists <- MCLists
  Timeout = 1
  MaxTime = 3
  MaxEdits = 1
INVARIANTS HolderIsEntitled
PROPERTIES NoInterleaving StaleIsFreed
CHECK_DEADLOCK FALSE
