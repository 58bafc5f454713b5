\* Two servers, two names and two secrets; two administrators of each, who may
\* have requests about an ID under way at once; offers are forgotten and expire
\* within two days.  The days are bounded, so the system may stop.
SPECIFICATION Spec
CONSTANTS
  Servers = {A, B}
  LinkNames = {dmr, east}
  ServerFile = dmr
  LinkIDs = {1}
  Secrets = {k1, k2}
  NoSecret = NoSecret
  Admins = {p, q}
  Lifetime = 1
  OfferMemory = 0
  OfferMemoryMax = 1
  MaxDays = 1
SYMMETRY Alike
INVARIANT AgreementsHold
PROPERTY RestartDoesAsTold
CHECK_DEADLOCK FALSE
