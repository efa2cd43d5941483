---- MODULE MCBoundaryTags ----
(* Two threads share an area with room for up to four blocks. *)
EXTENDS BoundaryTagsAllocator
CONSTANTS t1, t2
====
