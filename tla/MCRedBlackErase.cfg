CONSTANTS
  Nil = Nil
  Wild = Wild
  Nodes <- MCNodes
  MinDegree = 2
  Kinds = {"rb"}
  SizeBits = 3
SPECIFICATION Spec
INVARIANT NoNullFollowed
CHECK_DEADLOCK FALSE
