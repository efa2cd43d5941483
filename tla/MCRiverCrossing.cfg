CONSTANTS
  c1 = c1
  c2 = c2
  Clients = {c1, c2}
  QueueCap = 2
  Limits <- MCLimits
SPECIFICATION FairSpec
INVARIANTS OneSessionPerQueue ReplyInStep MovedIsTrue
PROPERTIES PlaysThePuzzle ClientsEnd SessionsFreed
CHECK_DEADLOCK FALSE
