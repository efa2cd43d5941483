---- MODULE MCBuddiesComments ----
(* A request that fills a block to the last byte, in a memory whose size is *)
(* no power of two, as in the test positiveTests.test53.                    *)
EXTENDS BuddiesAllocator
CONSTANT t1
====
