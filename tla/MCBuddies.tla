---- MODULE MCBuddies ----
(* Two threads share an area of four smallest blocks. *)
EXTENDS BuddiesAllocator
CONSTANTS t1, t2
====
