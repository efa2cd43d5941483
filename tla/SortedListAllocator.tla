---- MODULE SortedListAllocator ----
(***************************************************************************)
(* allocator_sorted_list: one trusted area cut into blocks, each behind a  *)
(* header of H bytes that holds its size and a pointer.  The pointer of a  *)
(* free block is the next free block by address, the pointer of an         *)
(* occupied block is the trusted memory itself.  Every call works under    *)
(* one mutex; its loops are modelled step by step, so that what a loop     *)
(* relies on is an invariant and its termination a property.               *)
(*                                                                         *)
(* A pointer is the offset of a block header from the first one.  The      *)
(* memory is the function `heap' from the offsets that hold a header.      *)
(***************************************************************************)
EXTENDS Integers

CONSTANTS Threads,    \* the callers
          Nobody,     \* the mutex is free
          Space,      \* space_size
          H,          \* block_metadata_size
          Requests,   \* the sizes callers ask for
          HasLogger   \* a logger was passed to the constructor

(* A request is at least H away from overflowing size_t, so that           *)
(* size + block_metadata_size is exact.                                    *)
ASSUME SortedListAssumption ==
    /\ Space \in Nat \ {0}
    /\ H \in Nat \ {0}
    /\ Requests \subseteq Nat
    /\ HasLogger \in BOOLEAN
    /\ Nobody \notin Threads

Null    == -1         \* nullptr
Trusted == -2         \* _trusted_memory, the tag of an occupied block
Foreign == -3         \* a block of another allocator
Modes   == {"first_fit", "the_best_fit", "the_worst_fit"}

VARIABLES heap,       \* the headers in memory: [size, next] by offset
          first,      \* the first free block, or Null
          fit_mode,
          mutex,      \* the thread in a critical section, or Nobody
          call,       \* what each thread has called and is inside of
          loc,        \* the locals of the thread that holds the mutex
          held,       \* the size asked for, by block a caller may still free
          last        \* how the last call ended

vars == <<heap, first, fit_mode, mutex, call, loc, held, last>>

Blocks == DOMAIN heap
Size(b) == heap[b].size
Next(b) == IF b \in Blocks THEN heap[b].next ELSE Null
End(b) == b + H + Size(b)
Occupied == {b \in Blocks : Next(b) = Trusted}
Free == Blocks \ Occupied

Idle == [op |-> "idle", arg |-> 0]
NoLocals == [it |-> Null, free |-> Null, prev |-> Null,
             res |-> Null, resPrev |-> Null, best |-> 0]

Init ==
    /\ heap = [b \in {0} |-> [size |-> Space, next |-> Null]]
    /\ first = 0
    /\ fit_mode \in Modes
    /\ mutex = Nobody
    /\ call = [t \in Threads |-> Idle]
    /\ loc = NoLocals
    /\ held = [b \in {} |-> 0]
    /\ last = [op |-> "none", arg |-> 0, at |-> 0]

(* The stores of the code, each a new heap. *)
WithHeader(h, b, s, n) ==
    [x \in DOMAIN h \cup {b} |-> IF x = b THEN [size |-> s, next |-> n] ELSE h[x]]
WithSize(h, b, s) == [h EXCEPT ![b].size = s]
WithNext(h, b, n) == IF b = Null THEN h ELSE [h EXCEPT ![b].next = n]

Inside(t, op) == mutex = t /\ call[t].op = op

Return(t, result) ==
    /\ mutex' = Nobody
    /\ call' = [call EXCEPT ![t] = Idle]
    /\ loc' = NoLocals
    /\ last' = result

-----------------------------------------------------------------------------
(* do_allocate_sm *)

CallAllocate(t) ==
    /\ call[t] = Idle
    /\ \E n \in Requests : call' = [call EXCEPT ![t] = [op |-> "allocate", arg |-> n]]
    /\ UNCHANGED <<heap, first, fit_mode, mutex, loc, held, last>>

BeginSearch(t) ==
    /\ mutex = Nobody
    /\ call[t].op = "allocate"
    /\ mutex' = t
    /\ loc' = [NoLocals EXCEPT !.it = first]
    /\ UNCHANGED <<heap, first, fit_mode, call, held, last>>

(* Wrong forms: the header is not set aside; the block that fits exactly   *)
(* is passed over.                                                         *)
FitsWithoutHeader(size, n) == size + H >= n
FitsOffByOne(size, n) == size > n + H

Fits(size, n) == size >= n + H

(* Wrong: of equal blocks the last one is kept. *)
PreferredLast(size, found) ==
    \/ fit_mode = "first_fit"
    \/ ~ found
    \/ fit_mode = "the_best_fit" /\ size < loc.best
    \/ fit_mode = "the_worst_fit" /\ size >= loc.best

(* The block under the iterator replaces the best candidate so far. *)
Preferred(size, found) ==
    \/ fit_mode = "first_fit"
    \/ ~ found
    \/ fit_mode = "the_best_fit" /\ size < loc.best
    \/ fit_mode = "the_worst_fit" /\ size > loc.best

(* Wrong: the iterator goes on only from a block that was taken. *)
ItAfterTaken(b, take) ==
    CASE take /\ fit_mode = "first_fit" -> Null
      [] take /\ fit_mode # "first_fit" -> Next(b)
      [] ~ take -> b

(* Where the search goes on from b: first fit leaves the loop. *)
ItAfter(b, take) == IF take /\ fit_mode = "first_fit" THEN Null ELSE Next(b)

SearchStep(t) ==
    /\ Inside(t, "allocate")
    /\ loc.it # Null
    /\ LET b    == loc.it
           take == /\ Fits(Size(b), call[t].arg)
                   /\ Preferred(Size(b), loc.res # Null)
       IN  loc' = [loc EXCEPT
                     !.it      = ItAfter(b, take),
                     !.prev    = b,
                     !.res     = IF take THEN b ELSE @,
                     !.resPrev = IF take THEN loc.prev ELSE @,
                     !.best    = IF take THEN Size(b) ELSE @]
    /\ UNCHANGED <<heap, first, fit_mode, mutex, call, held, last>>

(* Wrong: an empty rest is cut off too. *)
SplitsEmpty(best, n) == best - n >= H

(* A rest that could not hold a header and one byte stays in the block. *)
Splits(best, n) == best - n >= H + 1

RestSize(best, n) == best - n - H

FinishAllocate(t) ==
    /\ Inside(t, "allocate")
    /\ loc.it = Null
    /\ loc.res # Null
    /\ LET b    == loc.res
           n    == call[t].arg
           cut  == Splits(loc.best, n)
           rest == b + H + n
           succ == IF cut THEN rest ELSE Next(b)
           h1   == IF cut
                   THEN WithSize(WithHeader(heap, rest, RestSize(loc.best, n), Next(b)), b, n)
                   ELSE heap
           h2   == WithNext(h1, loc.resPrev, succ)
       IN  /\ heap' = WithNext(h2, b, Trusted)
           /\ first' = IF first = b THEN succ ELSE first
           /\ held' = [x \in DOMAIN held \cup {b} |-> IF x = b THEN n ELSE held[x]]
           /\ Return(t, [op |-> "allocated", arg |-> n, at |-> b])
    /\ UNCHANGED fit_mode

ThrowBadAlloc(t) ==
    /\ Inside(t, "allocate")
    /\ loc.it = Null
    /\ loc.res = Null
    /\ Return(t, [op |-> "bad_alloc", arg |-> call[t].arg, at |-> Null])
    /\ UNCHANGED <<heap, first, fit_mode, held>>

-----------------------------------------------------------------------------
(* do_deallocate_sm *)

CallDeallocate(t) ==
    /\ call[t] = Idle
    /\ \E b \in DOMAIN held :
          /\ call' = [call EXCEPT ![t] = [op |-> "deallocate", arg |-> b]]
          /\ held' = [x \in DOMAIN held \ {b} |-> held[x]]
    /\ UNCHANGED <<heap, first, fit_mode, mutex, loc, last>>

(* A block of another allocator.  Without a logger the check does not      *)
(* stop the call and the block is linked into this list: such callers are  *)
(* left out.                                                               *)
CallDeallocateForeign(t) ==
    /\ HasLogger
    /\ call[t] = Idle
    /\ call' = [call EXCEPT ![t] = [op |-> "deallocate", arg |-> Foreign]]
    /\ UNCHANGED <<heap, first, fit_mode, mutex, loc, held, last>>

BeginWalk(t) ==
    /\ mutex = Nobody
    /\ call[t].op = "deallocate"
    /\ Next(call[t].arg) = Trusted \/ ~ HasLogger
    /\ mutex' = t
    /\ loc' = [NoLocals EXCEPT !.it = 0, !.free = first]
    /\ UNCHANGED <<heap, first, fit_mode, call, held, last>>

RejectForeign(t) ==
    /\ mutex = Nobody
    /\ call[t].op = "deallocate"
    /\ Next(call[t].arg) # Trusted
    /\ HasLogger
    /\ Return(t, [op |-> "rejected", arg |-> -1, at |-> -1])
    /\ UNCHANGED <<heap, first, fit_mode, held>>

(* sorted_iterator: a block is free when it is the one the iterator's own  *)
(* walk of the free list has reached, and a header at or past space_size   *)
(* is taken for the end.                                                   *)
WalkStep(t) ==
    /\ Inside(t, "deallocate")
    /\ loc.it \notin {Null, call[t].arg}
    /\ LET isFree == loc.it = loc.free
       IN  loc' = [loc EXCEPT
                     !.prev = IF isFree THEN loc.it ELSE @,
                     !.free = IF isFree THEN Next(loc.it) ELSE @,
                     !.it   = IF End(loc.it) >= Space THEN Null ELSE End(loc.it)]
    /\ UNCHANGED <<heap, first, fit_mode, mutex, call, held, last>>

(* Wrong: the header of the left block is not counted. *)
MergeableNoHeader(h, l, r) == l # Null /\ r # Null /\ l + h[l].size = r

Mergeable(h, l, r) == l # Null /\ r # Null /\ l + H + h[l].size = r
Merged(h, l, r) ==
    [x \in DOMAIN h \ {r} |->
        IF x = l THEN [size |-> h[l].size + h[r].size + H, next |-> h[r].next] ELSE h[x]]
TryMerge(h, l, r) == IF Mergeable(h, l, r) THEN Merged(h, l, r) ELSE h

(* The freed block b goes between the free block p and the one behind it.  *)
Linked(p, b) ==
    LET n == IF p # Null THEN Next(p) ELSE first
    IN  WithNext(WithNext(heap, p, b), b, n)

(* Wrong: a block in front of the first free one does not become the first. *)
FirstUnlessEmpty(p, b) == IF first = Null THEN b ELSE first

FirstWith(p, b) == IF (p = Null /\ first > b) \/ first = Null THEN b ELSE first

FinishDeallocate(t) ==
    /\ Inside(t, "deallocate")
    /\ loc.it \in {Null, call[t].arg}
    /\ LET b    == call[t].arg
           p    == loc.prev
           h1   == Linked(p, b)
           n    == h1[b].next
           left == Mergeable(h1, p, b)
           h2   == TryMerge(h1, p, b)
       IN  /\ heap' = IF left THEN TryMerge(h2, p, n) ELSE TryMerge(h2, b, n)
           /\ first' = FirstWith(p, b)
           /\ Return(t, [op |-> "deallocated", arg |-> b, at |-> b])
    /\ UNCHANGED <<fit_mode, held>>

-----------------------------------------------------------------------------
SetFitMode(t) ==
    /\ mutex = Nobody
    /\ call[t] = Idle
    /\ fit_mode' \in Modes \ {fit_mode}
    /\ UNCHANGED <<heap, first, mutex, call, loc, held, last>>

ThreadCall(t) == CallAllocate(t) \/ CallDeallocate(t) \/ CallDeallocateForeign(t)
                 \/ SetFitMode(t)
ThreadEnter(t) == BeginSearch(t) \/ BeginWalk(t) \/ RejectForeign(t)
ThreadWork(t) == SearchStep(t) \/ FinishAllocate(t) \/ ThrowBadAlloc(t)
                 \/ WalkStep(t) \/ FinishDeallocate(t)

NextStep == \E t \in Threads : ThreadCall(t) \/ ThreadEnter(t) \/ ThreadWork(t)

Spec == Init /\ [][NextStep]_vars

(* A thread inside a critical section is not stopped for ever. *)
FairSpec == Spec /\ \A t \in Threads : WF_vars(ThreadWork(t))

-----------------------------------------------------------------------------
Pointers == Int
Call == [op : {"idle", "allocate", "deallocate"}, arg : Int]

(* Every variable has its type: a well-formed header at every offset the   *)
(* code of allocator_sorted_list stored one, and locals that are pointers. *)
TypeOK ==
    /\ Blocks \subseteq 0..(Space + H)
    /\ heap \in [Blocks -> [size : Nat, next : Pointers]]
    /\ first \in Pointers
    /\ fit_mode \in Modes
    /\ mutex \in Threads \cup {Nobody}
    /\ call \in [Threads -> Call]
    /\ loc \in [it : Pointers, free : Pointers, prev : Pointers,
                res : Pointers, resPrev : Pointers, best : Nat]
    /\ DOMAIN held \subseteq 0..(Space + H)
    /\ held \in [DOMAIN held -> Nat]

(* The blocks tile the area: each ends where the next one starts or at the *)
(* end, and the iterator's test for the end (a header at or past           *)
(* space_size) never hides a block.                                        *)
Tiled ==
    /\ 0 \in Blocks
    /\ \A b \in Blocks : End(b) \in Blocks \cup {Space + H}
    /\ \A a, b \in Blocks : a < b => End(a) <= b
    /\ \A b \in Blocks : b < Space

(* The least free block above an offset, Null when there is none. *)
IsNextFree(p, above) ==
    IF \E f \in Free : f > above
    THEN p \in Free /\ p > above /\ \A f \in Free : f > above => p <= f
    ELSE p = Null

(* The free list holds exactly the free blocks, in the order of their      *)
(* addresses, whatever order they were allocated and freed in.             *)
ListSorted ==
    /\ IsNextFree(first, -1)
    /\ \A f \in Free : IsNextFree(Next(f), f)

(* try_merge leaves no two free blocks side by side. *)
Coalesced == \A a, b \in Free : End(a) # b

(* A block a caller still holds stays occupied and at least as large as    *)
(* what the caller asked for.                                              *)
HeldIntact ==
    \A b \in DOMAIN held : b \in Occupied /\ Size(b) >= held[b]

(* The block b serves a request as well as f does by the fit mode; of      *)
(* equal blocks the one at the lower address is taken.                     *)
AsGood(b, f) ==
    /\ fit_mode = "first_fit"     => b <= f
    /\ fit_mode = "the_best_fit"  => Size(b) < Size(f) \/ (Size(b) = Size(f) /\ b <= f)
    /\ fit_mode = "the_worst_fit" => Size(b) > Size(f) \/ (Size(b) = Size(f) /\ b <= f)

(* do_allocate_sm hands out the block its fit mode names: the first by     *)
(* address, the smallest or the largest that is large enough.              *)
FitHonoured ==
    [][ \A t \in Threads : FinishAllocate(t) =>
          LET b == last'.at
              fits == {f \in Free : Size(f) >= call[t].arg + H}
          IN  b \in fits /\ \A f \in fits : AsGood(b, f) ]_vars

(* Every loop under the mutex ends: a walk never runs round a cycle of the *)
(* free list.                                                              *)
MutexReleased == \A t \in Threads : (mutex = t) ~> (mutex # t)

(* The allocator keeps the promise of AllocatorSpec, with a refused        *)
(* request having no hole of H + n + H offsets.                            *)
Promise == INSTANCE AllocatorSpec
             WITH Area <- Space + H,
                  Needed <- [n \in Requests |-> n + 2 * H],
                  regions <- [b \in Occupied |-> Size(b)]
KeepsPromise == Promise!AllocatorPromise
====
