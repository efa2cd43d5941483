CONSTANTS
  t1 = t1
  t2 = t2
  Threads = {t1, t2}
  Nobody = Nobody
  Space = 10
  H = 2
  Requests = {0, 1, 3}
  HasLogger = TRUE
SPECIFICATION FairSpec
INVARIANTS Tiled ListSorted Coalesced HeldIntact
PROPERTIES FitHonoured KeepsPromise MutexReleased
