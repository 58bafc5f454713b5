\* Two accounts, passwords and addresses with two requests at a time; three
\* hosts that compete for two places in the throttle's table, long enough for
\* a lockout to lapse and a run to go quiet.  Clocks are bounded, so each part
\* may stop.
SPECIFICATION Spec
CONSTANTS
  Nobody = Nobody
  Usernames = {n1, n2}
  Sources = {s1, s2}
  Passwords = {p1, p2}
  Requests = {r1, r2}
  Tokens = {t1, t2}
  SignInFailures = 2
  SignInLockout = 1
  SessionLifetime = 1
  MaxThrottled = 1
  MaxClock = 2
  MaxIds = 3
  MaxStarts = 4
  Hosts = {h1, h2, h3}
  MaxFailures = 2
  Lockout = 2
  Window = 3
  MaxSources = 2
  MaxTime = 7
SYMMETRY Alike
INVARIANTS SignInIsGuarded OldPasswordSignedOut
PROPERTY ThrottleHolds
CHECK_DEADLOCK FALSE
