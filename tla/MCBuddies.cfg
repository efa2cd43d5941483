CONSTANTS
  t1 = t1
  t2 = t2
  Threads = {t1, t2}
  Nobody = Nobody
  SpaceSize = 64
  Requests = {0, 9, 25}
SPECIFICATION Spec
INVARIANTS AreaWhole
PROPERTIES FitHonoured KeepsPromise
