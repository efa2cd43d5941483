---- MODULE RedBlackTreeAllocator ----
(***************************************************************************)
(* allocator_red_black_tree: all blocks, free and occupied, form a doubly  *)
(* linked list by address that leaves no gap, and the free blocks form a   *)
(* red-black tree ordered by size.  The size of a block is not stored: it  *)
(* is the distance to the next header.  The links of the tree lie in the   *)
(* payload of the free blocks.  Every call holds the one mutex from its    *)
(* first access to its last, so a call is one step.                        *)
(*                                                                         *)
(* A pointer is the offset of a block header behind allocator_metadata.    *)
(* Requests shorter than the two links are left out: the links of such a   *)
(* block, once it is freed, would lie over the header behind it.           *)
(***************************************************************************)
EXTENDS Integers, Sequences, FiniteSets

CONSTANTS Space,      \* size_
          H,          \* sizeof(block_metadata)
          L,          \* the bytes of left_ and right_ in the payload of a free block
          Requests    \* the sizes callers ask for

ASSUME RedBlackTreeAssumption ==
    /\ H \in Nat \ {0}
    /\ L \in Nat
    /\ Space \in Nat /\ Space >= H + L
    /\ Requests \subseteq Nat
    /\ \A n \in Requests : n >= L

Null  == -1
Modes  == {"first_fit", "the_best_fit", "the_worst_fit"}

VARIABLES heap,       \* the headers: [back, forward, occupied]
          tree,       \* root_ and the links and colours of the free blocks
          fit_mode,
          held,       \* the size asked for, by block a caller may still free
          last        \* how the last call ended

vars == <<heap, tree, fit_mode, held, last>>

Links == INSTANCE RedBlackLinks WITH Nil <- Null

Blocks == DOMAIN heap

(* get_size, read from the list h *)
SizeIn(h, b) == (IF h[b].forward = Null THEN Space ELSE h[b].forward) - b - H
Size(b) == SizeIn(heap, b)

Init ==
    /\ heap = [b \in {0} |-> [back |-> Null, forward |-> Null, occupied |-> FALSE]]
    /\ tree = [root |-> 0, crashed |-> FALSE,
               node |-> [b \in {0} |-> [left |-> Null, right |-> Null,
                                        parent |-> Null, red |-> FALSE]]]
    /\ fit_mode \in Modes
    /\ held = [b \in {} |-> 0]
    /\ last = [op |-> "none", arg |-> 0, at |-> 0]

-----------------------------------------------------------------------------
(* rb_tree_insert: equal sizes go to the right. *)

(* Wrong: the block in hand is compared by what it was before its neighbour was cut or joined. *)
PlaceBelowStale(h, T, z, p) ==
    LET side(m)   == IF z \in Blocks /\ Size(z) < SizeIn(h, m) THEN "left" ELSE "right"
        leaf[m \in Links!Members(T)] ==
            LET next == T.node[m][side(m)] IN IF next = Null THEN m ELSE leaf[next]
    IN  Links!Attach(T, z, leaf[p], side(leaf[p]), Links!RedLeaf)

PlaceBelow(h, T, z, p) ==
    LET side(m)   == IF SizeIn(h, z) < SizeIn(h, m) THEN "left" ELSE "right"
        leaf[m \in Links!Members(T)] ==
            LET next == T.node[m][side(m)] IN IF next = Null THEN m ELSE leaf[next]
    IN  Links!Attach(T, z, leaf[p], side(leaf[p]), Links!RedLeaf)

Insert(h, T, z) ==
    Links!RepairInsert(IF T.root = Null THEN Links!Attach(T, z, Null, "left", Links!RedLeaf)
                       ELSE PlaceBelow(h, T, z, T.root), z)

-----------------------------------------------------------------------------
(* The three searches, each from the root *)

Nodes == Links!Members(tree) \cup {Null}

(* Wrong: down the left links, to the smaller blocks. *)
FirstFitLeft(b, n) ==
    LET first[m \in Nodes] ==
            IF m = Null \/ Size(m) >= n THEN m ELSE first[tree.node[m].left]
    IN  first[b]

(* get_first_free_block: down the right links to the first that fits *)
FirstFit(b, n) ==
    LET first[m \in Nodes] ==
            IF m = Null \/ Size(m) >= n THEN m ELSE first[tree.node[m].right]
    IN  first[b]

(* Wrong: content with the first block that fits. *)
BestFitHasty(b, n) ==
    LET best[m \in Nodes] ==
            IF m = Null \/ Size(m) >= n THEN m ELSE best[tree.node[m].right]
    IN  best[b]

(* get_best_free_block: to the smaller ones while they fit; the last that  *)
(* did is the best                                                         *)
BestFit(b, n) ==
    LET best[m \in Nodes] ==
            IF m = Null THEN Null
            ELSE IF Size(m) < n THEN best[tree.node[m].right]
            ELSE IF Size(m) > n /\ best[tree.node[m].left] # Null THEN best[tree.node[m].left]
            ELSE m
    IN  best[b]

(* get_worst_free_block: down the right links; the last that fits is the worst *)
WorstFit(b, n) ==
    LET worst[m \in Nodes] ==
            IF m = Null THEN Null
            ELSE IF worst[tree.node[m].right] # Null THEN worst[tree.node[m].right]
            ELSE IF Size(m) >= n THEN m ELSE Null
    IN  worst[b]

Chosen(n) == CASE fit_mode = "first_fit"     -> FirstFit(tree.root, n)
               [] fit_mode = "the_best_fit"  -> BestFit(tree.root, n)
               [] fit_mode = "the_worst_fit" -> WorstFit(tree.root, n)

-----------------------------------------------------------------------------
(* do_allocate_sm *)

(* The rest of a block can be cut off when it holds the header of a free block. *)
CanSplit(b, n) == Size(b) >= n + H + (H + L)

WithBack(h, b, p) == IF b = Null THEN h ELSE [h EXCEPT ![b].back = p]

(* The list with b cut behind its first n bytes *)
Cut(b, n) ==
    LET rest == b + H + n
        next == heap[b].forward
        h1   == [x \in Blocks \cup {rest} |->
                    IF x = rest THEN [back |-> b, forward |-> next, occupied |-> FALSE]
                    ELSE heap[x]]
    IN  WithBack([h1 EXCEPT ![b].forward = rest], next, rest)

Allocate(n) ==
    LET b  == Chosen(n)
        T1 == Links!Remove(tree, b)
        h1 == IF CanSplit(b, n) THEN Cut(b, n) ELSE heap
    IN  /\ b # Null
        /\ heap' = [h1 EXCEPT ![b].occupied = TRUE]
        /\ tree' = IF CanSplit(b, n) /\ ~ T1.crashed THEN Insert(h1, T1, b + H + n) ELSE T1
        /\ held' = [x \in DOMAIN held \cup {b} |-> IF x = b THEN n ELSE held[x]]
        /\ last' = [op |-> "allocated", arg |-> n, at |-> b]
        /\ UNCHANGED fit_mode

ThrowBadAlloc(n) ==
    /\ Chosen(n) = Null
    /\ last' = [op |-> "bad_alloc", arg |-> n, at |-> Null]
    /\ UNCHANGED <<heap, tree, fit_mode, held>>

-----------------------------------------------------------------------------
(* do_deallocate_sm *)

(* Wrong: the block behind both is not told who stands before it. *)
JoinNextOneWay(h, b) ==
    [x \in DOMAIN h \ {h[b].forward} |->
        IF x = b THEN [h[b] EXCEPT !.forward = h[h[b].forward].forward] ELSE h[x]]

(* The block b swallows the next one. *)
JoinNext(h, b) ==
    LET next == h[b].forward
        h1   == [x \in DOMAIN h \ {next} |->
                    IF x = b THEN [h[b] EXCEPT !.forward = h[next].forward] ELSE h[x]]
    IN  WithBack(h1, h[next].forward, b)

IsFree(h, b) == b # Null /\ ~ h[b].occupied

Deallocate(b) ==
    LET h0   == [heap EXCEPT ![b].occupied = FALSE]
        p    == heap[b].back
        join == IsFree(h0, p)
        T1   == IF join THEN Links!Remove(tree, p) ELSE tree
        h1   == IF join THEN JoinNext(h0, p) ELSE h0
        a    == IF join THEN p ELSE b
        next == h1[a].forward
        more == IsFree(h1, next) /\ ~ T1.crashed
        T2   == IF more THEN Links!Remove(T1, next) ELSE T1
        h2   == IF more THEN JoinNext(h1, a) ELSE h1
    IN  /\ heap' = h2
        /\ tree' = IF T2.crashed THEN T2 ELSE Insert(h2, T2, a)
        /\ held' = [x \in DOMAIN held \ {b} |-> held[x]]
        /\ last' = [op |-> "deallocated", arg |-> b, at |-> b]
        /\ UNCHANGED fit_mode

(* parent_ of the block is not this trusted memory. *)
RejectForeign ==
    /\ last' = [op |-> "rejected", arg |-> -1, at |-> -1]
    /\ UNCHANGED <<heap, tree, fit_mode, held>>

SetFitMode ==
    /\ fit_mode' \in Modes \ {fit_mode}
    /\ UNCHANGED <<heap, tree, held, last>>

Next ==
    /\ ~ tree.crashed
    /\ \/ \E n \in Requests : Allocate(n) \/ ThrowBadAlloc(n)
       \/ \E b \in DOMAIN held : Deallocate(b)
       \/ RejectForeign
       \/ SetFitMode

Spec == Init /\ [][Next]_vars

-----------------------------------------------------------------------------
(* get_blocks_info: the iterator goes from the first header along forward_. *)

BlocksFrom(b) ==
    LET walk[c \in Blocks] ==
            IF heap[c].forward = Null THEN <<c>> ELSE <<c>> \o walk[heap[c].forward]
    IN  walk[b]

get_blocks_info ==
    LET walk == BlocksFrom(0)
    IN  [i \in DOMAIN walk |-> [size |-> Size(walk[i]), occupied |-> heap[walk[i]].occupied]]

Sum(f, n) ==
    LET sum[i \in 0..n] == IF i = 0 THEN 0 ELSE sum[i - 1] + f[i]
    IN  sum[n]

available_memory ==
    LET info == get_blocks_info
    IN  Sum([i \in DOMAIN info |-> IF info[i].occupied THEN 0 ELSE info[i].size], Len(info))

-----------------------------------------------------------------------------
Elements(walk) == {walk[i] : i \in DOMAIN walk}

FreeBlocks == {b \in Blocks : ~ heap[b].occupied}

(* After any sequence of calls the list leads forwards and backwards over  *)
(* all blocks by address, no two free blocks stand side by side, and the   *)
(* caller's blocks are the occupied ones.  Where a null pointer is         *)
(* followed do_deallocate_sm ends halfway, between a block marked free and *)
(* its neighbours still to be joined, so nothing is said of that state.    *)
ListWhole ==
    ~ tree.crashed =>
       LET walk == BlocksFrom(0)
       IN  /\ Elements(walk) = Blocks
           /\ heap[0].back = Null
           /\ \A i \in 1..(Len(walk) - 1) :
                 /\ walk[i] < walk[i + 1]
                 /\ heap[walk[i + 1]].back = walk[i]
                 /\ heap[walk[i]].occupied \/ heap[walk[i + 1]].occupied
           /\ DOMAIN held = Blocks \ FreeBlocks
           /\ \A b \in DOMAIN held : Size(b) >= held[b]

(* The tree holds each free block once, by size, and what available_memory *)
(* counts is what can be found through it.  That a block is searched by a  *)
(* size it no longer has, or is cut out by links that name another parent, *)
(* would break this long before a search follows a null pointer.           *)
TreeHoldsFree ==
    ~ tree.crashed =>
       LET walk == Links!InOrder(tree, tree.root)
       IN  /\ Elements(walk) = FreeBlocks
           /\ Len(walk) = Cardinality(FreeBlocks)
           /\ Links!Members(tree) = FreeBlocks
           /\ Links!LinksAgree(tree)
           /\ \A i \in 1..(Len(walk) - 1) : Size(walk[i]) <= Size(walk[i + 1])
           /\ available_memory = Sum([i \in DOMAIN walk |-> Size(walk[i])], Len(walk))

(* Best fit takes a smallest block that is large enough, worst fit a       *)
(* largest one, and no mode gives up while one is left: the tree has no    *)
(* size that is stale.                                                     *)
FitHonoured ==
    [][ \A n \in Requests : Allocate(n) =>
          LET fitting == {f \in FreeBlocks : Size(f) >= n}
          IN  /\ last'.at \in fitting
              /\ \A f \in fitting :
                    /\ fit_mode = "the_best_fit"  => Size(last'.at) <= Size(f)
                    /\ fit_mode = "the_worst_fit" => Size(last'.at) >= Size(f) ]_vars

(* The allocator keeps the promise of AllocatorSpec: it refuses a request  *)
(* only when no hole is as long as a header and the bytes asked for.       *)
Promise == INSTANCE AllocatorSpec
             WITH Area <- Space,
                  Needed <- [n \in Requests |-> n + H],
                  regions <- [b \in Blocks \ FreeBlocks |-> Size(b)]
KeepsPromise == Promise!AllocatorPromise
====
