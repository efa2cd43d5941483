---- MODULE MCTreeComments ----
(* An AVL tree of four keys, a B_tree of five elements, two of them with   *)
(* one key, and a BP_tree with as many keys as three leaves take            *)
EXTENDS TreeComments
MCNodes == [k \in Kinds |->
    CASE k = "avl"   -> (1..4) \X {1}
      [] k = "b"     -> ((1..4) \X {1}) \cup {<<3, 2>>}
      [] k = "bplus" -> ((1..6) \X {1}) \cup {<<3, 2>>}]
====
