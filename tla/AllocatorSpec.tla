---- MODULE AllocatorSpec ----
(***************************************************************************)
(* What an allocator over one trusted memory area promises to its callers, *)
(* whatever lists or trees it keeps inside: the regions it has handed out  *)
(* lie inside the area and never overlap, only the call that names a       *)
(* region takes it back, and a request is refused only when no hole        *)
(* between the handed-out regions could serve it.                          *)
(*                                                                         *)
(* The area is the offsets 0 .. Area - 1.  A region that starts at offset  *)
(* o and has size n covers its header and its payload, the offsets         *)
(* o .. o + H + n - 1.                                                     *)
(***************************************************************************)
EXTENDS Integers

CONSTANTS Area,       \* the bytes of the trusted memory that blocks can use
          H,          \* the bytes of one block header
          Requests,   \* the sizes callers ask for
          Needed      \* the length of a hole that a request must not be refused, by request

VARIABLES regions,    \* the size of each region handed out, by its offset
          last        \* how the last call ended

specVars == <<regions, last>>

End(o) == o + H + regions[o]

(* The offsets o .. o + len - 1 are inside the area and in no region. *)
Vacant(o, len) ==
    /\ o + len <= Area
    /\ \A r \in DOMAIN regions : End(r) <= o \/ o + len <= r

SpecInit ==
    /\ regions = [o \in {} |-> 0]
    /\ last = [op |-> "none", arg |-> 0, at |-> 0]

Grant(n) ==
    \E o \in 0..Area :
        /\ last' = [op |-> "allocated", arg |-> n, at |-> o]
        /\ \E len \in n..Area :
              /\ Vacant(o, H + len)
              /\ regions' = [r \in DOMAIN regions \cup {o} |->
                                IF r = o THEN len ELSE regions[r]]

Refuse(n) ==
    /\ last' = [op |-> "bad_alloc", arg |-> n, at |-> -1]
    /\ ~ \E o \in 0..Area : Vacant(o, Needed[n])
    /\ UNCHANGED regions

TakeBack(o) ==
    /\ last' = [op |-> "deallocated", arg |-> o, at |-> o]
    /\ regions' = [r \in DOMAIN regions \ {o} |-> regions[r]]

(* A pointer that names no region is reported and changes nothing. *)
Reject ==
    /\ last' = [op |-> "rejected", arg |-> -1, at |-> -1]
    /\ UNCHANGED regions

SpecNext ==
    \/ \E n \in Requests : Grant(n) \/ Refuse(n)
    \/ \E o \in DOMAIN regions : TakeBack(o)
    \/ Reject

AllocatorPromise == SpecInit /\ [][SpecNext]_specVars
====
