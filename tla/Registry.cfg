\* Three stations log in from two hosts, as themselves or as each other: two
\* may be half-open at once and one may work, so logins that were in progress
\* together finish together, and a third pushes the oldest out.  A tick of the
\* clock is longer than either timeout; the throttle has one place.
SPECIFICATION Spec
CONSTANTS
  Ids = {i1, i2, i3}
  Hosts = {h1, h2}
  Ports = {1}
  MaxPeers = 1
  MaxHalfOpen = 2
  MaxRelogins = 1
  LoginTimeout = 0
  PeerTimeout = 0
  MaxFailures = 1
  Lockout = 1
  Window = 1
  MaxSources = 1
  MaxTime = 2
  MaxSalts = 3
  MaxEdits = 1
SYMMETRY Symmetry
INVARIANTS BooksAgree ProvedHere
PROPERTIES NotKnockedOff OwnLoginSurvives
CHECK_DEADLOCK FALSE
