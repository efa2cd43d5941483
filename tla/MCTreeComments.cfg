CONSTANTS
  Nil = Nil
  Wild = Wild
  Kinds = {"avl", "b", "bplus"}
  Nodes <- MCNodes
  MinDegree = 2
  SizeBits = 0
SPECIFICATION CommentsSpec
INVARIANT SomeCommentHolds
CHECK_DEADLOCK FALSE
