\* Two publishers, whose events may reach a queue in either order; a queue of
\* one and a ring of two, so that both overflow; the console comes back, also
\* to a restarted process.
SPECIFICATION StreamFairSpec
CONSTANTS
  Publishers = {p1, p2}
  Clients = {c1}
  Subs <- AllSubs
  HistorySize = 2
  SubscriberBuffer = 1
  MaxSeq = 3
  MaxConns = 2
  MaxRestarts = 1
INVARIANTS LossIsCounted LossIsToldOtherwise
PROPERTIES NoSendOnClosed NobodyIsHeldUp
CHECK_DEADLOCK FALSE
