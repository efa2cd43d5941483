CONSTANTS
  t1 = t1
  Threads = {t1}
  Nobody = Nobody
  SpaceSize = 40
  Requests = {8}
SPECIFICATION Spec
PROPERTIES SomeCommentHolds
