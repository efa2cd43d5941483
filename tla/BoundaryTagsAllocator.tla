---- MODULE BoundaryTagsAllocator ----
(***************************************************************************)
(* allocator_boundary_tags: the occupied blocks form a doubly linked list  *)
(* by address; the holes between them have no header and are found by an   *)
(* iterator that stops at every block and at every hole.  A position of    *)
(* the iterator is a pointer and a flag: (b, TRUE) is the block b,         *)
(* (b, FALSE) the hole behind it, and the trusted memory itself stands for *)
(* the block before the first one.  Every call works under one mutex.      *)
(*                                                                         *)
(* A pointer is the offset of a block header in the area.                  *)
(***************************************************************************)
EXTENDS Integers

CONSTANTS Threads, Nobody,
          Space,      \* mem_size_
          H,          \* sizeof(block_metadata)
          Requests    \* the sizes callers ask for, far from the end of size_t

ASSUME BoundaryTagsAssumption ==
    /\ H \in Nat \ {0}
    /\ Space \in Nat /\ Space >= H
    /\ Requests \subseteq Nat
    /\ Nobody \notin Threads

Null    == -1
Trusted == -2         \* _trusted_memory
Foreign == -3         \* a block of another allocator
Modes   == {"first_fit", "the_best_fit", "the_worst_fit"}

VARIABLES heap,       \* the headers of the occupied blocks: [size, next, prev]
          first,      \* first_block_
          fit_mode,
          mutex, call, loc,
          held,       \* the size asked for, by block a caller may still free
          last        \* how the last call ended

vars == <<heap, first, fit_mode, mutex, call, loc, held, last>>

Blocks == DOMAIN heap
End(b) == b + H + heap[b].size

Idle == [op |-> "idle", arg |-> 0]
NoLocals == [ptr |-> Null, occ |-> FALSE, res |-> Null, best |-> 0, sum |-> 0]

Init ==
    /\ heap = [b \in {} |-> [size |-> 0, next |-> Null, prev |-> Null]]
    /\ first = Null
    /\ fit_mode \in Modes
    /\ mutex = Nobody
    /\ call = [t \in Threads |-> Idle]
    /\ loc = NoLocals
    /\ held = [b \in {} |-> 0]
    /\ last = [op |-> "none", arg |-> 0, at |-> 0]

WithNext(h, b, n) == IF b \in DOMAIN h THEN [h EXCEPT ![b].next = n] ELSE h

(* Wrong: the link back is forgotten. *)
WithPrevKept(h, b, p) == h

WithPrev(h, b, p) == IF b \in DOMAIN h THEN [h EXCEPT ![b].prev = p] ELSE h

Inside(t, op) == mutex = t /\ call[t].op = op

Return(t, result) ==
    /\ mutex' = Nobody
    /\ call' = [call EXCEPT ![t] = Idle]
    /\ loc' = NoLocals
    /\ last' = result

-----------------------------------------------------------------------------
(* boundary_iterator *)

NextOf(b) == IF b = Trusted THEN first ELSE heap[b].next
EndOf(b) == IF b = Trusted THEN 0 ELSE End(b)

(* get_next_free_block_size *)
HoleAfter(b) == (IF NextOf(b) = Null THEN Space ELSE NextOf(b)) - EndOf(b)

IterSize == IF loc.occ THEN H + heap[loc.ptr].size ELSE HoleAfter(loc.ptr)

Begin == [NoLocals EXCEPT !.ptr = IF first = 0 THEN 0 ELSE Trusted, !.occ = first = 0]

(* Wrong: a block right behind a block is not reached. *)
AdvanceStuck(l) ==
    LET n     == NextOf(l.ptr)
        tight == End(l.ptr) = n \/ (n = Null /\ End(l.ptr) = Space)
    IN  CASE ~ l.occ -> [l EXCEPT !.occ = TRUE, !.ptr = n]
          [] l.occ /\ tight -> l
          [] OTHER -> [l EXCEPT !.occ = FALSE]

(* operator++: from a block to the block right behind it, to the hole      *)
(* behind it, or to the end; from a hole to the next block.                *)
Advance(l) ==
    LET n     == NextOf(l.ptr)
        tight == End(l.ptr) = n \/ (n = Null /\ End(l.ptr) = Space)
    IN  IF ~ l.occ \/ tight
        THEN [l EXCEPT !.occ = TRUE, !.ptr = n]
        ELSE [l EXCEPT !.occ = FALSE]

-----------------------------------------------------------------------------
(* do_allocate_sm *)

CallAllocate(t) ==
    /\ call[t] = Idle
    /\ \E n \in Requests : call' = [call EXCEPT ![t] = [op |-> "allocate", arg |-> n]]
    /\ UNCHANGED <<heap, first, fit_mode, mutex, loc, held, last>>

BeginSearch(t) ==
    /\ mutex = Nobody
    /\ call[t].op = "allocate"
    /\ mutex' = t
    /\ loc' = Begin
    /\ UNCHANGED <<heap, first, fit_mode, call, held, last>>

(* Wrong: the hole that fits exactly is passed over. *)
FitsOffByOne(size, n) == size > n + H

Fits(size, n) == size >= n + H

(* Wrong: best and worst fit are exchanged. *)
PreferredSwapped(size) ==
    \/ fit_mode = "first_fit"
    \/ fit_mode = "the_worst_fit" /\ (size < loc.best \/ loc.res = Null)
    \/ fit_mode = "the_best_fit" /\ size > loc.best

Preferred(size) ==
    \/ fit_mode = "first_fit"
    \/ fit_mode = "the_best_fit" /\ (size < loc.best \/ loc.res = Null)
    \/ fit_mode = "the_worst_fit" /\ size > loc.best

SearchStep(t) ==
    /\ Inside(t, "allocate")
    /\ loc.ptr # Null
    /\ LET take  == /\ ~ loc.occ
                    /\ Fits(IterSize, call[t].arg)
                    /\ Preferred(IterSize)
           taken == IF take THEN [loc EXCEPT !.res = loc.ptr, !.best = IterSize] ELSE loc
       IN  loc' = IF take /\ fit_mode = "first_fit" THEN [taken EXCEPT !.ptr = Null]
                  ELSE Advance(taken)
    /\ UNCHANGED <<heap, first, fit_mode, mutex, call, held, last>>

(* The block takes the whole hole when the rest could not hold a header. *)
TotalSize(hole, n) == IF hole < n + 2 * H THEN hole ELSE n + H

FinishAllocate(t) ==
    /\ Inside(t, "allocate")
    /\ loc.ptr = Null
    /\ loc.res # Null
    /\ LET p  == loc.res
           n  == call[t].arg
           b  == EndOf(p)
           s  == NextOf(p)
           h1 == [x \in Blocks \cup {b} |->
                    IF x = b THEN [size |-> TotalSize(HoleAfter(p), n) - H,
                                   next |-> s, prev |-> p]
                    ELSE heap[x]]
       IN  /\ heap' = WithNext(WithPrev(h1, s, b), p, b)
           /\ first' = IF p = Trusted THEN b ELSE first
           /\ held' = [x \in DOMAIN held \cup {b} |-> IF x = b THEN n ELSE held[x]]
           /\ Return(t, [op |-> "allocated", arg |-> n, at |-> b])
    /\ UNCHANGED fit_mode

ThrowBadAlloc(t) ==
    /\ Inside(t, "allocate")
    /\ loc.ptr = Null
    /\ loc.res = Null
    /\ Return(t, [op |-> "bad_alloc", arg |-> call[t].arg, at |-> Null])
    /\ UNCHANGED <<heap, first, fit_mode, held>>

-----------------------------------------------------------------------------
(* do_deallocate_sm: no loop, so one step under the mutex. *)

CallDeallocate(t) ==
    /\ call[t] = Idle
    /\ \E b \in DOMAIN held :
          /\ call' = [call EXCEPT ![t] = [op |-> "deallocate", arg |-> b]]
          /\ held' = [x \in DOMAIN held \ {b} |-> held[x]]
    /\ UNCHANGED <<heap, first, fit_mode, mutex, loc, last>>

CallDeallocateForeign(t) ==
    /\ call[t] = Idle
    /\ call' = [call EXCEPT ![t] = [op |-> "deallocate", arg |-> Foreign]]
    /\ UNCHANGED <<heap, first, fit_mode, mutex, loc, held, last>>

Deallocate(t) ==
    /\ mutex = Nobody
    /\ call[t].op = "deallocate"
    /\ call[t].arg \in Blocks
    /\ LET b  == call[t].arg
           p  == heap[b].prev
           s  == heap[b].next
           h1 == WithPrev(WithNext(heap, p, s), s, p)
       IN  /\ heap' = [x \in Blocks \ {b} |-> h1[x]]
           /\ first' = IF p = Trusted THEN s ELSE first
           /\ Return(t, [op |-> "deallocated", arg |-> b, at |-> b])
    /\ UNCHANGED <<fit_mode, held>>

(* The tag in the header is not this trusted memory. *)
RejectForeign(t) ==
    /\ mutex = Nobody
    /\ call[t].op = "deallocate"
    /\ call[t].arg \notin Blocks
    /\ Return(t, [op |-> "rejected", arg |-> -1, at |-> -1])
    /\ UNCHANGED <<heap, first, fit_mode, held>>

-----------------------------------------------------------------------------
(* get_blocks_info, kept as the sum of the sizes it reports *)

CallBlocksInfo(t) ==
    /\ call[t] = Idle
    /\ mutex = Nobody
    /\ mutex' = t
    /\ call' = [call EXCEPT ![t] = [op |-> "info", arg |-> 0]]
    /\ loc' = Begin
    /\ UNCHANGED <<heap, first, fit_mode, held, last>>

InfoStep(t) ==
    /\ Inside(t, "info")
    /\ loc.ptr # Null
    /\ loc' = Advance([loc EXCEPT !.sum = @ + IterSize])
    /\ UNCHANGED <<heap, first, fit_mode, mutex, call, held, last>>

FinishInfo(t) ==
    /\ Inside(t, "info")
    /\ loc.ptr = Null
    /\ Return(t, last)
    /\ UNCHANGED <<heap, first, fit_mode, held>>

SetFitMode(t) ==
    /\ mutex = Nobody
    /\ call[t] = Idle
    /\ fit_mode' \in Modes \ {fit_mode}
    /\ UNCHANGED <<heap, first, mutex, call, loc, held, last>>

ThreadCall(t) == CallAllocate(t) \/ CallDeallocate(t) \/ CallDeallocateForeign(t)
                 \/ SetFitMode(t) \/ CallBlocksInfo(t)
ThreadEnter(t) == BeginSearch(t) \/ Deallocate(t) \/ RejectForeign(t)
ThreadWork(t) == SearchStep(t) \/ FinishAllocate(t) \/ ThrowBadAlloc(t)
                 \/ InfoStep(t) \/ FinishInfo(t)

NextStep == \E t \in Threads : ThreadCall(t) \/ ThreadEnter(t) \/ ThreadWork(t)

Spec == Init /\ [][NextStep]_vars
FairSpec == Spec /\ \A t \in Threads : WF_vars(ThreadWork(t))

-----------------------------------------------------------------------------
(* Types of the headers, the iterator and the calls *)
TypeOK ==
    /\ Blocks \subseteq 0..Space
    /\ heap \in [Blocks -> [size : Nat, next : Int, prev : Int]]
    /\ first \in Int
    /\ fit_mode \in Modes
    /\ mutex \in Threads \cup {Nobody}
    /\ call \in [Threads -> [op : {"idle", "allocate", "deallocate", "info"}, arg : Int]]
    /\ loc \in [ptr : Int, occ : BOOLEAN, res : Int, best : Nat, sum : Nat]
    /\ DOMAIN held \subseteq 0..Space
    /\ held \in [DOMAIN held -> Nat]

(* The list links every occupied block, in the order of the addresses and in both directions. *)
ListLinked ==
    /\ \A b \in Blocks \cup {Trusted} :
          LET n     == NextOf(b)
              above == {x \in Blocks : x > b}
          IN  IF above = {} THEN n = Null
              ELSE /\ n \in above
                   /\ \A x \in above : n <= x
                   /\ heap[n].prev = b

(* A full walk of the iterator accounts for every byte once. *)
WalkComplete ==
    \A t \in Threads : Inside(t, "info") /\ loc.ptr = Null => loc.sum = Space

(* Whatever order blocks came and went in: the list links all of them both *)
(* ways, and a walk over it skips no hole and meets no block twice.        *)
AreaWhole == TypeOK /\ ListLinked /\ WalkComplete

(* The hole behind p serves the fit mode no worse than the hole behind q. *)
AsGood(p, q) ==
    /\ fit_mode = "first_fit"     => p <= q
    /\ fit_mode = "the_best_fit"  => HoleAfter(p) <= HoleAfter(q)
    /\ fit_mode = "the_worst_fit" => HoleAfter(p) >= HoleAfter(q)

(* The hole chosen is the one the fit mode names. *)
FitHonoured ==
    [][ \A t \in Threads : FinishAllocate(t) =>
          LET p == loc.res
              fits == {q \in Blocks \cup {Trusted} :
                          HoleAfter(q) >= call[t].arg + H}
          IN  p \in fits /\ \A q \in fits : AsGood(p, q) ]_vars

(* No walk runs for ever with the mutex held. *)
MutexReleased == \A t \in Threads : (mutex = t) ~> (mutex # t)

(* The allocator keeps the promise of AllocatorSpec: a request is refused  *)
(* only when no hole can take its header and its payload.                  *)
Promise == INSTANCE AllocatorSpec
             WITH Area <- Space,
                  Needed <- [n \in Requests |-> n + H],
                  regions <- [b \in Blocks |-> heap[b].size]
KeepsPromise == Promise!AllocatorPromise
====
