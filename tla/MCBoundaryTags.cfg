CONSTANTS
  t1 = t1
  t2 = t2
  Threads = {t1, t2}
  Nobody = Nobody
  Space = 9
  H = 2
  Requests = {0, 1, 3}
SPECIFICATION FairSpec
INVARIANTS AreaWhole
PROPERTIES FitHonoured KeepsPromise MutexReleased
