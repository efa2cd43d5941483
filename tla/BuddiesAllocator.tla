---- MODULE BuddiesAllocator ----
(***************************************************************************)
(* allocator_buddies_system: the area is cut into blocks whose sizes are   *)
(* powers of two.  A header of one byte holds the occupied bit and the     *)
(* power; an occupied block also starts with a pointer to the trusted      *)
(* memory.  A block is split in halves until it is tight, and a freed one  *)
(* is merged with its buddy as long as that is free and as large.  Every   *)
(* call works under one mutex; a loop is modelled step by step.            *)
(*                                                                         *)
(* A pointer is the offset of a header in the area.  The sizes are those   *)
(* of the code on a machine with 8-byte pointers.                          *)
(***************************************************************************)
EXTENDS Integers

CONSTANTS Threads, Nobody,
          SpaceSize,  \* the bytes asked of the parent, space_size_power_of_two
          Requests    \* the sizes callers ask for

Null    == -1
Foreign == -3
Modes   == {"first_fit", "the_best_fit", "the_worst_fit"}

nearest_greater_k_of_2(n) ==
    CHOOSE k \in 0..64 : 2^k >= n /\ (k = 0 \/ 2^(k - 1) < n)

Meta  == 9            \* occupied_block_metadata_size
Added == 8            \* sizeof(occupied_block_metadata_size): that of a size_t
MinK  == nearest_greater_k_of_2(Meta)
SizeK == nearest_greater_k_of_2(SpaceSize)
Total == 2^SizeK      \* allocator_metadata::size()

(* The constructor throws for less than the smallest block, and a size is  *)
(* 1 << size_k, an int.  A request and what is added to it fit a size_t.   *)
ASSUME BuddiesAssumption ==
    /\ SpaceSize \in Nat \ {0}
    /\ SizeK \in MinK..30
    /\ Requests \subseteq Nat
    /\ \A n \in Requests : \E k \in 0..64 : n + Added < 2^k
    /\ Nobody \notin Threads

VARIABLES heap,       \* the headers: [occupied, k] by offset
          fit_mode,
          mutex, call, loc,
          held,       \* the size asked for, by block a caller may still free
          last        \* how the last call ended

vars == <<heap, fit_mode, mutex, call, loc, held, last>>

Blocks == DOMAIN heap
BlockSize(b) == 2^(heap[b].k + MinK)
Free == {b \in Blocks : ~ heap[b].occupied}
Occupied == Blocks \ Free

(* The offset with the bit of the size flipped (exclusive or). *)
Buddy(b) ==
    IF (b \div BlockSize(b)) % 2 = 0 THEN b + BlockSize(b) ELSE b - BlockSize(b)

Idle == [op |-> "idle", arg |-> 0]
NoLocals == [it |-> Null, block |-> Null]

Init ==
    /\ heap = [b \in {0} |-> [occupied |-> FALSE, k |-> SizeK - MinK]]
    /\ fit_mode \in Modes
    /\ mutex = Nobody
    /\ call = [t \in Threads |-> Idle]
    /\ loc = NoLocals
    /\ held = [b \in {} |-> 0]
    /\ last = [op |-> "none", arg |-> 0, at |-> 0]

Inside(t, op) == mutex = t /\ call[t].op = op

Return(t, result) ==
    /\ mutex' = Nobody
    /\ call' = [call EXCEPT ![t] = Idle]
    /\ loc' = NoLocals
    /\ last' = result

-----------------------------------------------------------------------------
(* do_allocate_sm *)

CallAllocate(t) ==
    /\ call[t] = Idle
    /\ \E n \in Requests : call' = [call EXCEPT ![t] = [op |-> "allocate", arg |-> n]]
    /\ UNCHANGED <<heap, fit_mode, mutex, loc, held, last>>

SizeWithMetadata(t) == call[t].arg + Added

BeginSearch(t) ==
    /\ mutex = Nobody
    /\ call[t].op = "allocate"
    /\ mutex' = t
    /\ loc' = [NoLocals EXCEPT !.it = 0]
    /\ UNCHANGED <<heap, fit_mode, call, held, last>>

(* Wrong: best fit keeps the largest block. *)
PreferredLargest(b) ==
    \/ fit_mode \in {"first_fit", "the_worst_fit"}
    \/ loc.block = Null
    \/ BlockSize(b) > BlockSize(loc.block)

(* Worst fit takes every block that is large enough, so it keeps the last. *)
Preferred(b) ==
    \/ fit_mode \in {"first_fit", "the_worst_fit"}
    \/ loc.block = Null
    \/ BlockSize(b) < BlockSize(loc.block)

(* operator++ of buddy_iterator *)
Behind(b) == b + BlockSize(b)

SearchStep(t) ==
    /\ Inside(t, "allocate")
    /\ loc.it # Total
    /\ LET b    == loc.it
           take == b \in Free /\ BlockSize(b) >= SizeWithMetadata(t) /\ Preferred(b)
       IN  loc' = [it    |-> IF take /\ fit_mode = "first_fit" THEN Total
                             ELSE Behind(b),
                   block |-> IF take THEN b ELSE loc.block]
    /\ UNCHANGED <<heap, fit_mode, mutex, call, held, last>>

TooLarge(t, b) == heap[b].k > 0 /\ BlockSize(b) >= SizeWithMetadata(t) * 2

Found(t) == Inside(t, "allocate") /\ loc.it = Total /\ loc.block # Null

SplitStep(t) ==
    /\ Found(t)
    /\ TooLarge(t, loc.block)
    /\ LET b    == loc.block
           half == [occupied |-> FALSE, k |-> heap[b].k - 1]
       IN  heap' = [x \in Blocks \cup {b + BlockSize(b) \div 2} |->
                       IF x \in {b, b + BlockSize(b) \div 2} THEN half ELSE heap[x]]
    /\ UNCHANGED <<fit_mode, mutex, call, loc, held, last>>

FinishAllocate(t) ==
    /\ Found(t)
    /\ ~ TooLarge(t, loc.block)
    /\ LET b == loc.block
           n == call[t].arg
       IN  /\ heap' = [heap EXCEPT ![b].occupied = TRUE]
           /\ held' = [x \in DOMAIN held \cup {b} |-> IF x = b THEN n ELSE held[x]]
           /\ Return(t, [op |-> "allocated", arg |-> n, at |-> b])
    /\ UNCHANGED fit_mode

ThrowBadAlloc(t) ==
    /\ Inside(t, "allocate")
    /\ loc.it = Total
    /\ loc.block = Null
    /\ Return(t, [op |-> "bad_alloc", arg |-> call[t].arg, at |-> Null])
    /\ UNCHANGED <<heap, fit_mode, held>>

-----------------------------------------------------------------------------
(* do_deallocate_sm *)

CallDeallocate(t) ==
    /\ call[t] = Idle
    /\ \E b \in DOMAIN held :
          /\ call' = [call EXCEPT ![t] = [op |-> "deallocate", arg |-> b]]
          /\ held' = [x \in DOMAIN held \ {b} |-> held[x]]
    /\ UNCHANGED <<heap, fit_mode, mutex, loc, last>>

CallDeallocateForeign(t) ==
    /\ call[t] = Idle
    /\ call' = [call EXCEPT ![t] = [op |-> "deallocate", arg |-> Foreign]]
    /\ UNCHANGED <<heap, fit_mode, mutex, loc, held, last>>

BeginFree(t) ==
    /\ mutex = Nobody
    /\ call[t].op = "deallocate"
    /\ call[t].arg \in Occupied
    /\ mutex' = t
    /\ heap' = [heap EXCEPT ![call[t].arg].occupied = FALSE]
    /\ loc' = [NoLocals EXCEPT !.block = call[t].arg]
    /\ last' = [op |-> "deallocated", arg |-> call[t].arg, at |-> call[t].arg]
    /\ UNCHANGED <<fit_mode, call, held>>

(* The pointer behind the header is not this trusted memory. *)
RejectForeign(t) ==
    /\ mutex = Nobody
    /\ call[t].op = "deallocate"
    /\ call[t].arg = Foreign
    /\ Return(t, [op |-> "rejected", arg |-> -1, at |-> -1])
    /\ UNCHANGED <<heap, fit_mode, held>>

(* Wrong forms: the buddy may be occupied; the two halves of the area stay *)
(* apart.                                                                  *)
MergeableOccupied(b) == BlockSize(b) < Total /\ BlockSize(Buddy(b)) = BlockSize(b)
MergeableBelowHalf(b) ==
    /\ BlockSize(b) * 2 < Total
    /\ BlockSize(Buddy(b)) = BlockSize(b)
    /\ ~ heap[Buddy(b)].occupied

Mergeable(b) ==
    /\ BlockSize(b) < Total
    /\ BlockSize(Buddy(b)) = BlockSize(b)
    /\ ~ heap[Buddy(b)].occupied

MergeStep(t) ==
    /\ Inside(t, "deallocate")
    /\ Mergeable(loc.block)
    /\ LET b    == loc.block
           low  == IF Buddy(b) < b THEN Buddy(b) ELSE b
           high == IF Buddy(b) < b THEN b ELSE Buddy(b)
       IN  /\ heap' = [x \in Blocks \ {high} |->
                          IF x = low THEN [heap[x] EXCEPT !.k = @ + 1] ELSE heap[x]]
           /\ loc' = [loc EXCEPT !.block = low]
    /\ UNCHANGED <<fit_mode, mutex, call, held, last>>

FinishDeallocate(t) ==
    /\ Inside(t, "deallocate")
    /\ ~ Mergeable(loc.block)
    /\ Return(t, last)
    /\ UNCHANGED <<heap, fit_mode, held>>

-----------------------------------------------------------------------------
SetFitMode(t) ==
    /\ mutex = Nobody
    /\ call[t] = Idle
    /\ fit_mode' \in Modes \ {fit_mode}
    /\ UNCHANGED <<heap, mutex, call, loc, held, last>>

ThreadCall(t) == CallAllocate(t) \/ CallDeallocate(t) \/ CallDeallocateForeign(t)
                 \/ SetFitMode(t)
ThreadEnter(t) == BeginSearch(t) \/ BeginFree(t) \/ RejectForeign(t)
ThreadWork(t) == SearchStep(t) \/ SplitStep(t) \/ FinishAllocate(t) \/ ThrowBadAlloc(t)
                 \/ MergeStep(t) \/ FinishDeallocate(t)

NextStep == \E t \in Threads : ThreadCall(t) \/ ThreadEnter(t) \/ ThreadWork(t)

Spec == Init /\ [][NextStep]_vars

-----------------------------------------------------------------------------
(* Types of the one-byte headers and of the locals *)
TypeOK ==
    /\ Blocks \subseteq 0..(Total - 1)
    /\ heap \in [Blocks -> [occupied : BOOLEAN, k : 0..(SizeK - MinK)]]
    /\ fit_mode \in Modes
    /\ mutex \in Threads \cup {Nobody}
    /\ call \in [Threads -> [op : {"idle", "allocate", "deallocate"}, arg : Int]]
    /\ loc \in [it : Blocks \cup {Null, Total}, block : Blocks \cup {Null}]
    /\ DOMAIN held \subseteq Blocks

(* The blocks tile the area, each at a multiple of its size. *)
Tiled ==
    /\ 0 \in Blocks
    /\ \A b \in Blocks :
          /\ b % BlockSize(b) = 0
          /\ b + BlockSize(b) \in Blocks \cup {Total}
    /\ \A a, b \in Blocks : a < b => a + BlockSize(a) <= b

(* Outside the calls no two free buddies are left unmerged *)
BuddiesMerged ==
    mutex = Nobody =>
        \A a, b \in Free : heap[a].k = heap[b].k => Buddy(a) # b

(* Every split and merge, also half-way through, leaves blocks that tile   *)
(* the area, so that the iterator always meets the end, and no call ends   *)
(* with two free buddies side by side.                                     *)
AreaWhole == TypeOK /\ Tiled /\ BuddiesMerged

Fitting(t) == {f \in Free : BlockSize(f) >= SizeWithMetadata(t)}

AsGood(b, f) ==
    /\ fit_mode = "first_fit"    => b <= f
    /\ fit_mode = "the_best_fit" => BlockSize(b) <= BlockSize(f)

(* First and best fit end with the block their names say, and every search *)
(* that could end with a block large enough does: no better one was passed *)
(* over, although first fit stops early and best fit looks at all blocks.  *)
(* Which of the blocks worst fit should take is another question, see      *)
(* WorstTaken.                                                             *)
FitHonoured ==
    [][ \A t \in Threads : SearchStep(t) /\ loc'.it = Total /\ Fitting(t) # {} =>
          /\ loc'.block \in Fitting(t)
          /\ \A f \in Fitting(t) : AsGood(loc'.block, f) ]_vars

(* Three comments of allocator_buddies_system.h.  "Возвращает размер блока *)
(* в байтах вместе с метаданными" (:67): a block has room for its metadata *)
(* and the bytes asked for.                                                *)
PayloadFits == \A b \in DOMAIN held : Meta + held[b] <= BlockSize(b)

(* "Степень двойки размера доверенной памяти" (:52): what is handed out    *)
(* lies inside the trusted memory.                                         *)
InsideTrusted == \A b \in DOMAIN held : b + BlockSize(b) <= SpaceSize

(* "Режим поиска свободных блоков: первый подходящий, наиболее/наименее    *)
(* подходящий" (:49): worst fit takes a block no smaller than any that     *)
(* fits.                                                                   *)
WorstTaken(t) ==
    fit_mode = "the_worst_fit" =>
        \A f \in Fitting(t) : BlockSize(f) <= BlockSize(loc'.block)

(* At the end of a search at least one of the three comments holds.  A step *)
(* that violates this contradicts all three at once.                       *)
SomeCommentHolds ==
    [][ \A t \in Threads : SearchStep(t) /\ loc'.it = Total /\ loc'.block # Null =>
          PayloadFits \/ InsideTrusted \/ WorstTaken(t) ]_vars

(* The allocator keeps the promise of AllocatorSpec for requests that do   *)
(* not fill a block to its last byte: a request is refused only when there *)
(* is no hole of twice the block it needs, because a hole that long holds  *)
(* a block of that size at a multiple of it, and merging has put it        *)
(* together.                                                               *)
Promise == INSTANCE AllocatorSpec
             WITH Area <- Total,
                  H <- Meta,
                  Needed <- [n \in Requests |-> 2 * 2^nearest_greater_k_of_2(n + Added)],
                  regions <- [b \in Occupied |-> BlockSize(b) - Meta]
KeepsPromise == Promise!AllocatorPromise
====
