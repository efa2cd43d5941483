CONSTANTS
  Space = 14
  H = 1
  L = 1
  Requests = {1, 2, 3}
SPECIFICATION Spec
INVARIANTS ListWhole TreeHoldsFree
PROPERTIES FitHonoured KeepsPromise
