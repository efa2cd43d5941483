---- MODULE MCSortedList ----
(* Two threads fragment and reuse an area with room for up to five blocks. *)
EXTENDS SortedListAllocator
CONSTANTS t1, t2
====
