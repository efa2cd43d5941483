---- MODULE MCRedBlackTree ----
(* An area for up to seven blocks. *)
EXTENDS RedBlackTreeAllocator
====
