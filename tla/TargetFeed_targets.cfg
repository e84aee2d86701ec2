SPECIFICATION FairSpec
CONSTANTS
  m1 = m1
  m2 = m2
  t1 = t1
  t2 = t2
  Mints = {m1, m2}
  Txs = {t1, t2}
  Touches <- MCTouches
  MaxRequests = 2
INVARIANTS
  StreamedIsHeard
  ReleaseIsHeeded
PROPERTIES
  SubscriptionFollows
