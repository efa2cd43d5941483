---- MODULE MCSearchTrees ----
(* The binary trees with every shape that five keys, one of them twice, can *)
(* give them.  With eight keys the last leaf of a B_tree is split behind    *)
(* the root, a split finds no room in the root, and erases turn to what a   *)
(* split has left there; the root of a BP_tree is full with nine keys and a *)
(* tenth to come.                                                           *)
EXTENDS SearchTrees
MCNodes == [k \in Kinds |->
    CASE k \in BinaryKinds -> ((1..5) \X {1}) \cup {<<3, 2>>}
      [] k = "b"           -> (1..8) \X {1}
      [] k = "bplus"       -> (1..10) \X {1}]
====
