CONSTANTS
  Nil = Nil
  Wild = Wild
  Kinds = {"bst", "avl", "rb", "splay", "b", "bplus"}
  Nodes <- MCNodes
  MinDegree = 2
  SizeBits = 2
SPECIFICATION Spec
INVARIANTS ContentKept SearchesAnswer ShapeKept IteratorsComplete
PROPERTIES StaysUsable
CHECK_DEADLOCK FALSE
