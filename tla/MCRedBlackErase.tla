---- MODULE MCRedBlackErase ----
(* A red_black_tree of five keys. *)
EXTENDS SearchTrees
MCNodes == [k \in Kinds |-> (1..5) \X {1}]
====
