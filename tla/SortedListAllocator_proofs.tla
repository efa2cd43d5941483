---- MODULE SortedListAllocator_proofs ----
(***************************************************************************)
(* allocator_sorted_list for every area, header size, set of requests and  *)
(* number of threads.  The type invariant is not inductive by itself: that *)
(* a call leaves well-formed headers depends on the tiling of the area, on *)
(* the order of the free list and on what the loops under the mutex have   *)
(* found, and all of these are proved together.                            *)
(*                                                                         *)
(* The facts about memory are stated of a heap h and a first pointer, so   *)
(* that they can be followed through the stores of one call.               *)
(***************************************************************************)
EXTENDS SortedListAllocator, TLAPS

Header == [size : Nat, next : Int]
Fr(h) == {b \in DOMAIN h : h[b].next # Trusted}
Ends(h, b) == b + H + h[b].size

(* The headers are well-formed and tile the area. *)
Tiles(h) ==
    /\ h \in [DOMAIN h -> Header]
    /\ DOMAIN h \subseteq Nat
    /\ 0 \in DOMAIN h
    /\ \A b \in DOMAIN h : b < Space /\ Ends(h, b) \in DOMAIN h \cup {Space + H}
    /\ \A a, b \in DOMAIN h : a < b => Ends(h, a) <= b

(* The least free block above an offset, the greatest below one. *)
NextFree(F, p, above) ==
    \/ p \in F /\ p > above /\ \A f \in F : f > above => p <= f
    \/ p = Null /\ \A f \in F : f <= above
PrevFree(F, p, below) ==
    \/ p \in F /\ p < below /\ \A f \in F : f < below => f <= p
    \/ p = Null /\ \A f \in F : f >= below

(* The free list goes through the free blocks in order. *)
Sorted(h, f) ==
    /\ NextFree(Fr(h), f, -1)
    /\ \A g \in Fr(h) : NextFree(Fr(h), h[g].next, g)

(* No two free blocks side by side. *)
Apart(h) == \A a, c \in Fr(h) : Ends(h, a) # c

Memory == Tiles(heap) /\ Sorted(heap, first) /\ Apart(heap)

(* What the search of do_allocate_sm has found. *)
Searching(n) ==
    /\ loc.it # Null => loc.it \in Fr(heap) /\ PrevFree(Fr(heap), loc.prev, loc.it)
    /\ loc.res # Null =>
          /\ loc.res \in Fr(heap)
          /\ PrevFree(Fr(heap), loc.resPrev, loc.res)
          /\ loc.best = heap[loc.res].size
          /\ loc.best >= n + H

(* What the walk of do_deallocate_sm has passed on its way to block b. *)
Walking(b) ==
    /\ loc.it \in DOMAIN heap
    /\ loc.it <= b
    /\ PrevFree(Fr(heap), loc.prev, loc.it)
    /\ NextFree(Fr(heap), loc.free, loc.it - 1)

(* Blocks that are being freed are occupied and nobody else's. *)
Freeing(t) == call[t].op = "deallocate" /\ call[t].arg # Foreign
Callers ==
    /\ \A t \in Threads :
          \/ call[t].op = "idle"
          \/ call[t].op = "allocate" /\ call[t].arg \in Nat
          \/ call[t].op = "deallocate" /\ call[t].arg = Foreign /\ HasLogger /\ mutex # t
          \/ Freeing(t) /\ call[t].arg \in Occupied \ DOMAIN held
    /\ \A t, u \in Threads :
          t # u /\ Freeing(t) /\ Freeing(u) => call[t].arg # call[u].arg
    /\ mutex # Nobody => call[mutex].op # "idle"

Locals ==
    /\ \A t \in Threads : Inside(t, "allocate") => Searching(call[t].arg)
    /\ \A t \in Threads : Inside(t, "deallocate") => Walking(call[t].arg)

IInv == TypeOK /\ Memory /\ Callers /\ HeldIntact /\ Locals

(* A free block is a block, its successor is free too or Null. *)
LEMMA FreeBlocks ==
    ASSUME NEW h, Tiles(h), NEW f, Sorted(h, f)
    PROVE  /\ f \in Fr(h) \cup {Null}
           /\ \A b \in Fr(h) : b \in DOMAIN h /\ b \in Nat /\ h[b].size \in Nat
           /\ \A b \in Fr(h) : h[b].next \in Fr(h) \cup {Null}
           /\ \A b \in Fr(h) : h[b].next # Null => h[b].next > b
BY DEF Tiles, Sorted, NextFree, Fr, Header

(* Every block has a length. *)
LEMMA Lengths ==
    ASSUME NEW h, Tiles(h), NEW a \in DOMAIN h
    PROVE  a \in Nat /\ h[a].size \in Nat /\ Ends(h, a) \in Nat /\ Ends(h, a) > a
<1>1. a \in Nat /\ h[a].size \in Nat
  BY DEF Tiles, Header
<1> QED BY <1>1, SortedListAssumption DEF Ends

(* do_allocate_sm cuts the rest off the free block b, which follows p: the *)
(* memory h becomes g.                                                     *)
IsCut(h, f, b, p, n, g) ==
    /\ Tiles(h) /\ Sorted(h, f) /\ Apart(h)
    /\ b \in Fr(h) /\ PrevFree(Fr(h), p, b)
    /\ n \in Nat /\ h[b].size >= n + H + 1
    /\ g \in [DOMAIN h \cup {b + H + n} -> Header]
    /\ g[b] = [size |-> n, next |-> Trusted]
    /\ g[b + H + n] = [size |-> h[b].size - n - H, next |-> h[b].next]
    /\ p # Null => g[p] = [size |-> h[p].size, next |-> b + H + n]
    /\ \A x \in DOMAIN h \ {b, p} : g[x] = h[x]

(* A cut leaves the memory in order. *)
LEMMA Cutting ==
    ASSUME NEW h, NEW f, NEW b, NEW p, NEW n, NEW g, IsCut(h, f, b, p, n, g)
    PROVE  /\ Tiles(g) /\ Sorted(g, IF f = b THEN b + H + n ELSE f) /\ Apart(g)
           /\ b + H + n \notin DOMAIN h
           /\ Fr(g) = (Fr(h) \ {b}) \cup {b + H + n}
           /\ Ends(g, b) = b + H + n /\ Ends(g, b + H + n) = Ends(h, b)
           /\ \A x \in DOMAIN h \ {b} : g[x].size = h[x].size /\ Ends(g, x) = Ends(h, x)
<1> USE DEF IsCut
<1> DEFINE rest == b + H + n
<1>1. b \in DOMAIN h /\ b \in Nat /\ h[b].size \in Nat /\ h[b].next # Trusted
      /\ H \in Nat \ {0} /\ Space \in Nat
  BY SortedListAssumption DEF Tiles, Fr, Header
<1>2. rest \in Nat /\ rest > b /\ rest < Ends(h, b) /\ rest < Space /\ rest \notin DOMAIN h
  BY <1>1 DEF Tiles, Ends
<1>3. /\ p # Null => p \in DOMAIN h /\ p \in Fr(h) /\ p < b
      /\ Null \notin DOMAIN h
  BY DEF PrevFree, Fr, Tiles, Null
<1>4. /\ DOMAIN g = DOMAIN h \cup {rest}
      /\ g[b].size = n /\ g[b].next = Trusted
      /\ g[rest].size = h[b].size - n - H /\ g[rest].next = h[b].next
      /\ \A x \in DOMAIN h : x # b => g[x].size = h[x].size
      /\ \A x \in DOMAIN h : x # b /\ x # p => g[x].next = h[x].next
      /\ p # Null => g[p].next = rest
  <2>1. \A x \in DOMAIN h : x # b => g[x].size = h[x].size
    BY <1>3
  <2> QED BY <2>1
<1>5. /\ Ends(g, b) = rest /\ Ends(g, rest) = Ends(h, b)
      /\ \A x \in DOMAIN h \ {b} : Ends(g, x) = Ends(h, x)
  BY <1>1, <1>2, <1>4 DEF Ends
<1>6. Tiles(g)
  <2>1. DOMAIN g \subseteq Nat /\ 0 \in DOMAIN g
    BY <1>2, <1>4 DEF Tiles
  <2>2. \A x \in DOMAIN g : x < Space /\ Ends(g, x) \in DOMAIN g \cup {Space + H}
    BY <1>1, <1>2, <1>4, <1>5 DEF Tiles
  <2>3. ASSUME NEW x \in DOMAIN g, NEW y \in DOMAIN g, x < y PROVE Ends(g, x) <= y
    <3>1. \A u, v \in DOMAIN h : u < v => Ends(h, u) <= v
      BY DEF Tiles
    <3>2. x \in Nat /\ y \in Nat
      BY <2>1
    <3>3. CASE x = rest
      <4>1. y \in DOMAIN h /\ b < y
        BY <1>2, <1>4, <2>3, <3>2, <3>3, <1>1
      <4> QED BY <1>1, <1>5, <3>1, <3>3, <4>1
    <3>4. CASE y = rest /\ x # rest
      <4>1. x \in DOMAIN h
        BY <1>4, <3>4
      <4>2. CASE x = b
        BY <1>2, <1>5, <3>4, <4>2
      <4>3. CASE x < b
        <5>1. Ends(h, x) <= b
          BY <1>1, <3>1, <4>1, <4>3
        <5>2. Ends(g, x) = Ends(h, x) /\ Ends(h, x) \in Int
          BY <1>1, <1>5, <3>2, <4>1, <4>3 DEF Tiles, Header, Ends
        <5> QED BY <1>1, <1>2, <3>4, <5>1, <5>2
      <4>4. CASE x > b
        BY <1>1, <1>2, <2>3, <3>1, <3>2, <3>4, <4>1, <4>4 DEF Ends
      <4> QED BY <1>1, <3>2, <4>2, <4>3, <4>4
    <3>5. CASE x # rest /\ y # rest
      <4>1. x \in DOMAIN h /\ y \in DOMAIN h
        BY <1>4, <3>5
      <4>2. CASE x = b
        BY <1>1, <1>2, <1>5, <2>3, <3>1, <3>2, <4>1, <4>2 DEF Ends
      <4> QED BY <1>5, <2>3, <3>1, <4>1, <4>2
    <3> QED BY <3>3, <3>4, <3>5
  <2> QED BY <1>4, <2>1, <2>2, <2>3 DEF Tiles
<1>7. Fr(g) = (Fr(h) \ {b}) \cup {rest}
  <2>1. h[b].next \in Int /\ Trusted # rest
    BY <1>1, <1>2 DEF Tiles, Header, Trusted
  <2>2. \A x \in DOMAIN h : x # b => (g[x].next # Trusted <=> h[x].next # Trusted)
    BY <1>3, <1>4, <2>1 DEF Fr
  <2> QED BY <1>1, <1>2, <1>4, <2>2 DEF Fr
<1>8. \A c \in Fr(h) : c # b => c < b \/ c >= Ends(h, b)
  BY <1>1 DEF Fr, Tiles
<1>9. \A c \in Fr(h) : c \in Nat /\ (c > b <=> c > rest \/ c = rest) /\ c # rest
  BY <1>1, <1>2, <1>8 DEF Fr, Tiles, Ends
<1>10. Sorted(g, IF f = b THEN rest ELSE f)
  <2>1. NextFree(Fr(g), IF f = b THEN rest ELSE f, -1)
    BY <1>1, <1>2, <1>7, <1>9 DEF Sorted, NextFree, Null
  <2>2. ASSUME NEW c \in Fr(g) PROVE NextFree(Fr(g), g[c].next, c)
    <3>1. CASE c = rest
      <4>1. NextFree(Fr(h), h[b].next, b) /\ g[c].next = h[b].next
        BY <3>1 DEF Sorted
      <4> QED BY <1>1, <1>2, <1>7, <1>9, <3>1, <4>1 DEF NextFree
    <3>2. CASE c = p
      <4>1. c \in Fr(h) /\ c < b /\ g[c].next = rest /\ \A d \in Fr(h) : d < b => d <= c
        <5>1. p # Null
          BY <1>2, <1>7, <1>9, <3>2 DEF Null
        <5> QED BY <1>1, <1>3, <1>4, <1>9, <3>2, <5>1 DEF PrevFree
      <4> QED BY <1>1, <1>2, <1>7, <1>9, <4>1 DEF NextFree
    <3>3. CASE c # rest /\ c # p
      <4>1. c \in Fr(h) /\ c # b /\ c \in DOMAIN h /\ g[c].next = h[c].next
        BY <1>7, <3>3 DEF Fr
      <4>2. NextFree(Fr(h), h[c].next, c)
        BY <4>1 DEF Sorted
      <4>3. h[c].next # b
        BY <1>1, <1>9, <3>3, <4>1, <4>2 DEF NextFree, PrevFree, Null
      <4> QED BY <1>1, <1>2, <1>7, <1>9, <4>1, <4>2, <4>3 DEF NextFree
    <3> QED BY <3>1, <3>2, <3>3
  <2> QED BY <2>1, <2>2 DEF Sorted
<1>11. Apart(g)
  <2>1. \A a \in Fr(h) : a # b => Ends(g, a) = Ends(h, a) /\ Ends(h, a) # rest
    <3>1. \A a \in DOMAIN h : a < b => Ends(h, a) <= b
      BY <1>1 DEF Tiles
    <3>2. \A a \in DOMAIN h : Ends(h, a) > a /\ Ends(h, a) \in Int /\ a \in Nat
      BY Lengths
    <3> QED BY <1>1, <1>2, <1>5, <1>8, <3>1, <3>2 DEF Fr
  <2>2. Ends(g, rest) # rest
    BY <1>1, <1>2, <1>4 DEF Ends
  <2> QED BY <1>1, <1>2, <1>5, <1>7, <2>1, <2>2 DEF Apart
<1> QED BY <1>2, <1>4, <1>5, <1>6, <1>7, <1>10, <1>11

(* do_allocate_sm gives out the whole free block b, which follows p: the    *)
(* memory h becomes g.                                                     *)
IsTaken(h, f, b, p, g) ==
    /\ Tiles(h) /\ Sorted(h, f) /\ Apart(h)
    /\ b \in Fr(h) /\ PrevFree(Fr(h), p, b)
    /\ g \in [DOMAIN h -> Header]
    /\ g[b] = [size |-> h[b].size, next |-> Trusted]
    /\ p # Null => g[p] = [size |-> h[p].size, next |-> h[b].next]
    /\ \A x \in DOMAIN h \ {b, p} : g[x] = h[x]

(* Giving out a whole block leaves the memory in order. *)
LEMMA Whole ==
    ASSUME NEW h, NEW f, NEW b, NEW p, NEW g, IsTaken(h, f, b, p, g)
    PROVE  /\ Tiles(g) /\ Sorted(g, IF f = b THEN h[b].next ELSE f) /\ Apart(g)
           /\ Fr(g) = Fr(h) \ {b}
           /\ \A x \in DOMAIN h : g[x].size = h[x].size /\ Ends(g, x) = Ends(h, x)
<1> USE DEF IsTaken
<1>1. b \in DOMAIN h /\ b \in Nat /\ h[b].next # Trusted /\ h[b].next \in Int
  BY DEF Tiles, Fr, Header
<1>2. /\ p # Null => p \in DOMAIN h /\ p \in Fr(h) /\ p < b
      /\ Null \notin DOMAIN h
  BY DEF PrevFree, Fr, Tiles, Null
<1>3. /\ DOMAIN g = DOMAIN h
      /\ g[b].next = Trusted
      /\ p # Null => g[p].next = h[b].next
      /\ \A x \in DOMAIN h : x # b /\ x # p => g[x].next = h[x].next
      /\ \A x \in DOMAIN h : g[x].size = h[x].size /\ Ends(g, x) = Ends(h, x)
  <2>1. \A x \in DOMAIN h : g[x].size = h[x].size
    BY <1>1, <1>2
  <2> QED BY <2>1 DEF Ends
<1>4. Tiles(g)
  BY <1>3 DEF Tiles
<1>5. Fr(g) = Fr(h) \ {b} /\ \A c \in Fr(h) : c \in Nat
  <2>1. \A x \in DOMAIN h : x # b => (g[x].next # Trusted <=> h[x].next # Trusted)
    BY <1>1, <1>2, <1>3 DEF Fr
  <2> QED BY <1>1, <1>3, <2>1 DEF Fr, Tiles
<1>6. Sorted(g, IF f = b THEN h[b].next ELSE f)
  <2>1. NextFree(Fr(h), h[b].next, b)
    BY DEF Sorted
  <2>2. NextFree(Fr(g), IF f = b THEN h[b].next ELSE f, -1)
    BY <1>1, <1>5, <2>1 DEF Sorted, NextFree, Null
  <2>3. ASSUME NEW c \in Fr(g) PROVE NextFree(Fr(g), g[c].next, c)
    <3>1. c \in Fr(h) /\ c # b /\ c \in DOMAIN h /\ NextFree(Fr(h), h[c].next, c)
      BY <1>5 DEF Fr, Sorted
    <3>2. CASE c = p
      BY <1>1, <1>5, <2>1, <3>1, <3>2 DEF NextFree, PrevFree, Null
    <3>3. CASE c # p
      <4>1. g[c].next = h[c].next
        BY <3>1, <3>3
      <4>2. h[c].next # b
        BY <1>1, <1>5, <3>1, <3>3 DEF NextFree, PrevFree, Null
      <4> QED BY <1>1, <1>5, <3>1, <4>1, <4>2 DEF NextFree
    <3> QED BY <3>2, <3>3
  <2> QED BY <2>2, <2>3 DEF Sorted
<1>7. Apart(g)
  BY <1>3, <1>5 DEF Apart, Fr
<1> QED BY <1>3, <1>4, <1>5, <1>6, <1>7

(* do_deallocate_sm links the block b into the list, behind p. *)
LEMMA Linking ==
    ASSUME NEW h, Tiles(h), NEW f, Sorted(h, f), Apart(h),
           NEW b \in DOMAIN h, h[b].next = Trusted, NEW p, PrevFree(Fr(h), p, b),
           NEW n, n = IF p # Null THEN h[p].next ELSE f,
           NEW g, g \in [DOMAIN h -> Header],
           g[b] = [size |-> h[b].size, next |-> n],
           p # Null => g[p] = [size |-> h[p].size, next |-> b],
           \A x \in DOMAIN h \ {b, p} : g[x] = h[x]
    PROVE  /\ Tiles(g)
           /\ Sorted(g, IF (p = Null /\ f > b) \/ f = Null THEN b ELSE f)
           /\ Fr(g) = Fr(h) \cup {b} /\ g[b].next = n /\ NextFree(Fr(h), n, b)
           /\ p # Null => g[p].next = b
           /\ \A x \in DOMAIN h : Ends(g, x) = Ends(h, x)
<1>1. b \in Nat /\ Null \notin DOMAIN h /\ f \in Fr(h) \cup {Null}
      /\ DOMAIN h \subseteq Nat /\ b \notin Fr(h)
  BY FreeBlocks DEF Tiles, Null, Fr
<1>2. p # Null => p \in DOMAIN h /\ p \in Fr(h) /\ p < b
  BY DEF PrevFree, Fr
<1>3. NextFree(Fr(h), n, b)
  <2>1. CASE p = Null
    <3>1. \A c \in Fr(h) : c >= b /\ c # b /\ c \in Nat
      BY <1>1, <1>2, <2>1 DEF PrevFree, Fr
    <3> QED BY <1>1, <2>1, <3>1 DEF Sorted, NextFree, Null
  <2>2. CASE p # Null
    <3>1. p \in Fr(h) /\ p < b /\ \A c \in Fr(h) : c < b => c <= p
      BY <2>2 DEF PrevFree
    <3>2. NextFree(Fr(h), n, p)
      BY <2>2, <3>1 DEF Sorted
    <3>3. \A c \in Fr(h) : c \in Nat /\ c # b
      BY <1>1 DEF Fr
    <3> QED BY <1>1, <3>1, <3>2, <3>3 DEF NextFree
  <2> QED BY <2>1, <2>2
<1>4. n \in Fr(h) \cup {Null} /\ n # Trusted
  BY <1>1, <1>3 DEF NextFree, Null, Trusted, Fr
<1>5. /\ DOMAIN g = DOMAIN h
      /\ g[b].next = n
      /\ p # Null => g[p].next = b
      /\ \A x \in DOMAIN h : x # b /\ x # p => g[x].next = h[x].next
      /\ \A x \in DOMAIN h : g[x].size = h[x].size /\ Ends(g, x) = Ends(h, x)
  <2>1. \A x \in DOMAIN h : g[x].size = h[x].size
    BY <1>1, <1>2
  <2> QED BY <2>1 DEF Ends
<1>6. Tiles(g)
  BY <1>5 DEF Tiles
<1>7. Fr(g) = Fr(h) \cup {b}
  <2>1. \A x \in DOMAIN h : x # b => (g[x].next # Trusted <=> h[x].next # Trusted)
    BY <1>1, <1>2, <1>5 DEF Fr, Trusted
  <2> QED BY <1>4, <1>5, <2>1 DEF Fr
<1>8. \A c \in Fr(h) : c \in Nat /\ c # b
  BY <1>1 DEF Fr
<1>9. NextFree(Fr(g), IF (p = Null /\ f > b) \/ f = Null THEN b ELSE f, -1)
  <2>1. NextFree(Fr(h), f, -1)
    BY DEF Sorted
  <2>2. CASE f = Null
    BY <1>1, <1>7, <1>8, <2>1, <2>2 DEF NextFree, Null
  <2>3. CASE f # Null /\ p = Null
    BY <1>1, <1>7, <1>8, <2>1, <2>3 DEF NextFree, PrevFree, Null
  <2>4. CASE f # Null /\ p # Null
    <3>1. f <= p /\ p < b /\ f \in Fr(h) /\ f \in Nat /\ p \in Nat
      BY <1>1, <1>2, <1>8, <2>1, <2>4 DEF NextFree
    <3> QED BY <1>1, <1>7, <1>8, <2>1, <2>4, <3>1 DEF NextFree
  <2> QED BY <2>2, <2>3, <2>4
<1>10. ASSUME NEW c \in Fr(g) PROVE NextFree(Fr(g), g[c].next, c)
  <2>1. CASE c = b
    BY <1>1, <1>3, <1>5, <1>7, <1>8, <2>1 DEF NextFree
  <2>2. CASE c = p /\ c # b
    <3>1. c \in Fr(h) /\ c < b /\ g[c].next = b /\ \A d \in Fr(h) : d < b => d <= c
      BY <1>1, <1>2, <1>5, <1>7, <1>8, <2>2 DEF PrevFree, Null
    <3> QED BY <1>1, <1>7, <1>8, <3>1 DEF NextFree
  <2>3. CASE c # p /\ c # b
    <3>1. c \in Fr(h) /\ c \in DOMAIN h /\ g[c].next = h[c].next
      BY <1>5, <1>7, <2>3 DEF Fr
    <3>2. NextFree(Fr(h), h[c].next, c)
      BY <3>1 DEF Sorted
    <3>3. c < b => h[c].next < b /\ h[c].next \in Fr(h)
      BY <1>1, <1>8, <2>3, <3>1, <3>2 DEF NextFree, PrevFree
    <3>4. c \in Nat
      BY <1>8, <3>1
    <3>5. CASE c < b
      BY <1>7, <1>8, <3>1, <3>2, <3>3, <3>5, <1>1 DEF NextFree, Null
    <3>6. CASE b < c
      BY <1>1, <1>7, <1>8, <3>1, <3>2, <3>6 DEF NextFree
    <3> QED BY <1>1, <2>3, <3>4, <3>5, <3>6
  <2> QED BY <2>1, <2>2, <2>3
<1>11. Sorted(g, IF (p = Null /\ f > b) \/ f = Null THEN b ELSE f)
  BY <1>9, <1>10 DEF Sorted
<1> QED BY <1>3, <1>5, <1>6, <1>7, <1>11

(* try_merge of a free block l and the free block r right behind it. *)
LEMMA Merging ==
    ASSUME NEW h, Tiles(h), NEW f, Sorted(h, f),
           NEW l \in Fr(h), NEW r \in Fr(h), h[l].next = r, Ends(h, l) = r
    PROVE  /\ Tiles(Merged(h, l, r)) /\ Sorted(Merged(h, l, r), f)
           /\ DOMAIN Merged(h, l, r) = DOMAIN h \ {r}
           /\ Fr(Merged(h, l, r)) = Fr(h) \ {r}
           /\ Ends(Merged(h, l, r), l) = Ends(h, r)
           /\ Merged(h, l, r)[l].next = h[r].next
           /\ \A x \in DOMAIN h \ {l, r} : Merged(h, l, r)[x] = h[x]
           /\ l < r
<1> DEFINE g == Merged(h, l, r)
<1>1. /\ l \in DOMAIN h /\ r \in DOMAIN h /\ DOMAIN h \subseteq Nat
      /\ H \in Nat \ {0} /\ Space \in Nat
      /\ h[l] \in Header /\ h[r] \in Header /\ h[r].next # Trusted
  BY SortedListAssumption DEF Fr, Tiles
<1>2. l < r
  BY <1>1 DEF Ends, Header
<1>3. /\ DOMAIN g = DOMAIN h \ {r}
      /\ g[l] = [size |-> h[l].size + h[r].size + H, next |-> h[r].next]
      /\ \A x \in DOMAIN h \ {l, r} : g[x] = h[x]
  BY <1>1, <1>2 DEF Merged
<1>4. g \in [DOMAIN g -> Header]
  <2>1. g = [x \in DOMAIN g |-> g[x]]
    BY DEF Merged
  <2>2. \A x \in DOMAIN g : g[x] \in Header
    BY <1>1, <1>3 DEF Header, Tiles
  <2> HIDE DEF g
  <2> QED BY <2>1, <2>2
<1> HIDE DEF g
<1>5. /\ Ends(g, l) = Ends(h, r) /\ g[l].next = h[r].next
      /\ \A x \in DOMAIN h \ {l, r} : Ends(g, x) = Ends(h, x)
  BY <1>1, <1>2, <1>3 DEF Ends, Header
<1>6. Tiles(g)
  <2>1. \A x \in DOMAIN h : Ends(h, x) > x /\ Ends(h, x) \in Int
    BY Lengths
  <2>2. \A x \in DOMAIN h \ {l} : Ends(h, x) # r
    <3>1. \A x \in DOMAIN h : x < l => Ends(h, x) <= l
      BY <1>1 DEF Tiles
    <3> QED BY <1>1, <1>2, <2>1, <3>1 DEF Tiles
  <2>3. \A x \in DOMAIN g : x < Space /\ Ends(g, x) \in DOMAIN g \cup {Space + H}
    <3>1. Ends(h, r) # r
      BY <1>1, <2>1
    <3> QED BY <1>1, <1>2, <1>3, <1>5, <2>2, <3>1 DEF Tiles
  <2>4. \A x, y \in DOMAIN g : x < y => Ends(g, x) <= y
    <3> SUFFICES ASSUME NEW x \in DOMAIN g, NEW y \in DOMAIN g, x < y PROVE Ends(g, x) <= y
      OBVIOUS
    <3>1. x \in DOMAIN h /\ y \in DOMAIN h /\ x # r /\ y # r /\ Ends(h, x) <= y
      BY <1>3 DEF Tiles
    <3>2. CASE x = l
      <4>1. r < y /\ Ends(h, r) <= y
        BY <1>1, <3>1, <3>2 DEF Tiles
      <4> QED BY <1>5, <3>2, <4>1
    <3> QED BY <1>5, <3>1, <3>2
  <2>5. 0 \in DOMAIN g
    BY <1>1, <1>2, <1>3 DEF Tiles
  <2> QED BY <1>1, <1>3, <1>4, <2>3, <2>4, <2>5 DEF Tiles
<1>7. Fr(g) = Fr(h) \ {r}
  BY <1>1, <1>2, <1>3, <1>5 DEF Fr
<1>8. \A c \in Fr(h) : c \in Nat
  BY <1>1 DEF Fr
<1>9. NextFree(Fr(g), f, -1)
  BY <1>1, <1>2, <1>7, <1>8 DEF Sorted, NextFree, Null
<1>10. ASSUME NEW c \in Fr(g) PROVE NextFree(Fr(g), g[c].next, c)
  <2>1. c \in Fr(h) /\ c # r /\ c \in DOMAIN h
    BY <1>7 DEF Fr
  <2>2. CASE c = l
    <3>1. NextFree(Fr(h), h[r].next, r) /\ NextFree(Fr(h), r, l)
      BY DEF Sorted
    <3> QED BY <1>1, <1>2, <1>5, <1>7, <1>8, <2>2, <3>1 DEF NextFree, Null
  <2>3. CASE c # l
    <3>1. NextFree(Fr(h), h[c].next, c) /\ NextFree(Fr(h), r, l) /\ g[c].next = h[c].next
      BY <1>3, <2>1, <2>3 DEF Sorted
    <3>2. h[c].next # r
      BY <1>1, <1>2, <1>8, <2>1, <2>3, <3>1 DEF NextFree, Null
    <3> QED BY <1>1, <1>7, <1>8, <2>1, <3>1, <3>2 DEF NextFree
  <2> QED BY <2>2, <2>3
<1>11. Sorted(g, f)
  BY <1>9, <1>10 DEF Sorted
<1> QED BY <1>2, <1>3, <1>5, <1>6, <1>7, <1>11 DEF g

(* When b is the only free block that ends at another one, its successor,  *)
(* trying to merge these two leaves no free neighbours.                    *)
LEMMA MergingLast ==
    ASSUME NEW h, Tiles(h), NEW f, Sorted(h, f),
           NEW b \in Fr(h), NEW n, h[b].next = n,
           \A a, c \in Fr(h) : Ends(h, a) = c => a = b /\ c = n
    PROVE  /\ Tiles(TryMerge(h, b, n)) /\ Sorted(TryMerge(h, b, n), f)
           /\ Apart(TryMerge(h, b, n))
           /\ \A x \in DOMAIN h \ Fr(h) :
                 x \in DOMAIN TryMerge(h, b, n) /\ TryMerge(h, b, n)[x] = h[x]
<1>1. /\ n \in Fr(h) \cup {Null} /\ b # Null /\ Fr(h) \subseteq DOMAIN h
      /\ Null \notin DOMAIN h
  BY FreeBlocks DEF Null, Tiles, Fr
<1>2. CASE Mergeable(h, b, n)
  <2> DEFINE k == Merged(h, b, n)
  <2>1. n \in Fr(h) /\ Ends(h, b) = n /\ TryMerge(h, b, n) = k
    BY <1>1, <1>2 DEF TryMerge, Mergeable, Ends
  <2>2. /\ Tiles(k) /\ Sorted(k, f)
        /\ DOMAIN k = DOMAIN h \ {n}
        /\ Fr(k) = Fr(h) \ {n}
        /\ Ends(k, b) = Ends(h, n)
        /\ \A x \in DOMAIN h \ {b, n} : k[x] = h[x]
        /\ b < n
    BY <2>1, Merging
  <2> HIDE DEF k
  <2>3. Apart(k)
    <3> SUFFICES ASSUME NEW a \in Fr(k), NEW c \in Fr(k), Ends(k, a) = c PROVE FALSE
      BY DEF Apart
    <3>1. a \in Fr(h) /\ c \in Fr(h) /\ a # n /\ c # n /\ a \in DOMAIN h
      BY <1>1, <2>2
    <3>2. CASE a = b
      <4>1. n # b
        BY <2>2, Lengths, <1>1, <2>1
      <4> QED BY <2>1, <2>2, <3>1, <3>2, <4>1
    <3>3. CASE a # b
      <4>1. Ends(k, a) = Ends(h, a)
        BY <2>2, <3>1, <3>3 DEF Ends
      <4> QED BY <3>1, <3>3, <4>1
    <3> QED BY <3>2, <3>3
  <2> QED BY <1>1, <2>1, <2>2, <2>3
<1>3. CASE ~ Mergeable(h, b, n)
  <2>1. TryMerge(h, b, n) = h
    BY <1>3 DEF TryMerge
  <2>2. n # Null => Ends(h, b) # n
    BY <1>1, <1>3 DEF Mergeable, Ends
  <2>3. Apart(h)
    BY <1>1, <2>2 DEF Apart
  <2> QED BY <2>1, <2>3
<1> QED BY <1>2, <1>3

(* The occupied block b of the memory h is linked behind p and before n,   *)
(* which gives g, and merged with its neighbours, which gives k.           *)
IsFreed(h, f, b, p, n, g, k) ==
    /\ Tiles(h) /\ Sorted(h, f) /\ Apart(h)
    /\ b \in DOMAIN h /\ h[b].next = Trusted /\ PrevFree(Fr(h), p, b)
    /\ n = IF p # Null THEN h[p].next ELSE f
    /\ g \in [DOMAIN h -> Header]
    /\ g[b] = [size |-> h[b].size, next |-> n]
    /\ p # Null => g[p] = [size |-> h[p].size, next |-> b]
    /\ \A x \in DOMAIN h \ {b, p} : g[x] = h[x]
    /\ k = IF Mergeable(g, p, b)
           THEN TryMerge(TryMerge(g, p, b), p, n)
           ELSE TryMerge(TryMerge(g, p, b), b, n)

(* A block that is freed leaves the memory in order and every other block  *)
(* in use where it was.                                                    *)
LEMMA FreeingBlock ==
    ASSUME NEW h, NEW f, NEW b, NEW p, NEW n, NEW g, NEW k, IsFreed(h, f, b, p, n, g, k)
    PROVE  /\ Tiles(k)
           /\ Sorted(k, IF (p = Null /\ f > b) \/ f = Null THEN b ELSE f)
           /\ Apart(k)
           /\ \A x \in DOMAIN h : x # b /\ h[x].next = Trusted =>
                 x \in DOMAIN k /\ k[x] = h[x]
<1> USE DEF IsFreed
<1> DEFINE first1 == IF (p = Null /\ f > b) \/ f = Null THEN b ELSE f
<1>1. /\ Tiles(g) /\ Sorted(g, first1)
      /\ Fr(g) = Fr(h) \cup {b} /\ g[b].next = n /\ NextFree(Fr(h), n, b)
      /\ p # Null => g[p].next = b
      /\ \A x \in DOMAIN h : Ends(g, x) = Ends(h, x)
  BY Linking
<1> HIDE DEF first1
<1>2. /\ p \in Fr(h) \cup {Null} /\ n \in Fr(h) \cup {Null} /\ DOMAIN g = DOMAIN h
      /\ Null \notin DOMAIN h /\ b # Null /\ Fr(h) \subseteq DOMAIN h /\ DOMAIN h \subseteq Nat
  BY <1>1 DEF PrevFree, NextFree, Tiles, Null, Fr
<1>3. \A x \in DOMAIN h : x # b /\ h[x].next = Trusted => x \notin Fr(g) /\ g[x] = h[x] /\ x # p
  BY <1>1, <1>2 DEF Fr
<1>4. \A a, c \in Fr(g) : Ends(g, a) = c => a = b \/ c = b
  BY <1>1, <1>2 DEF Apart
<1>5. \A a \in DOMAIN h : Ends(h, a) > a /\ Ends(h, a) \in Int
  BY Lengths
<1>6. CASE Mergeable(g, p, b)
  <2>1. p # Null /\ p \in Fr(g) /\ Ends(g, p) = b /\ p < b
    BY <1>1, <1>2, <1>6 DEF Mergeable, Ends, PrevFree
  <2> DEFINE m == Merged(g, p, b)
  <2>2. /\ Tiles(m) /\ Sorted(m, first1)
        /\ DOMAIN m = DOMAIN g \ {b}
        /\ Fr(m) = Fr(g) \ {b}
        /\ Ends(m, p) = Ends(g, b)
        /\ m[p].next = n
        /\ \A x \in DOMAIN g \ {p, b} : m[x] = g[x]
    BY <1>1, <2>1, Merging
  <2>3. k = TryMerge(m, p, n)
    BY <1>6 DEF TryMerge
  <2> HIDE DEF m
  <2>4. \A a, c \in Fr(m) : Ends(m, a) = c => a = p /\ c = n
    <3> SUFFICES ASSUME NEW a \in Fr(m), NEW c \in Fr(m), Ends(m, a) = c PROVE a = p /\ c = n
      OBVIOUS
    <3>1. a \in Fr(g) /\ a # b /\ c \in Fr(g) /\ c # b /\ a \in DOMAIN g
      BY <1>1, <1>2, <2>2
    <3>2. a = p
      <4>1. a # p => Ends(m, a) = Ends(g, a)
        BY <2>2, <3>1 DEF Ends
      <4> QED BY <1>4, <3>1, <4>1
    <3>3. c = Ends(h, b) /\ c \in Fr(h) /\ c > b /\ n \in Fr(h) /\ n > b /\ n <= c
      BY <1>1, <1>2, <1>5, <2>2, <3>1, <3>2 DEF NextFree
    <3>4. Ends(h, b) <= n
      BY <1>2, <3>3 DEF Tiles
    <3> QED BY <1>2, <3>2, <3>3, <3>4
  <2>5. /\ Tiles(k) /\ Sorted(k, first1) /\ Apart(k)
        /\ \A x \in DOMAIN m \ Fr(m) : x \in DOMAIN k /\ k[x] = m[x]
    <3>1. p \in Fr(m)
      BY <1>2, <2>1, <2>2
    <3> QED BY <2>2, <2>3, <2>4, <3>1, MergingLast
  <2>6. \A x \in DOMAIN h : x # b /\ h[x].next = Trusted => x \in DOMAIN k /\ k[x] = h[x]
    <3> SUFFICES ASSUME NEW x \in DOMAIN h, x # b, h[x].next = Trusted
                 PROVE  x \in DOMAIN k /\ k[x] = h[x]
      OBVIOUS
    <3>1. x \in DOMAIN m \ Fr(m) /\ m[x] = h[x]
      BY <1>2, <1>3, <2>2
    <3> QED BY <2>5, <3>1
  <2> QED BY <2>5, <2>6 DEF first1
<1>7. CASE ~ Mergeable(g, p, b)
  <2>1. k = TryMerge(g, b, n)
    BY <1>7 DEF TryMerge
  <2>2. \A a, c \in Fr(g) : Ends(g, a) = c => a = b /\ c = n
    <3> SUFFICES ASSUME NEW a \in Fr(g), NEW c \in Fr(g), Ends(g, a) = c PROVE a = b /\ c = n
      OBVIOUS
    <3>1. CASE a # b
      <4>1. c = b /\ a \in Fr(h) /\ a < b
        BY <1>1, <1>2, <1>4, <1>5, <3>1
      <4>2. p # Null /\ p \in Fr(h) /\ a <= p /\ p < b
        BY <1>2, <4>1 DEF PrevFree
      <4>3. a # p
        BY <1>2, <1>7, <4>1, <4>2 DEF Mergeable, Ends
      <4>4. Ends(h, a) <= p
        BY <1>2, <4>1, <4>2, <4>3 DEF Tiles
      <4> QED BY <1>1, <1>2, <4>1, <4>2, <4>4
    <3>2. CASE a = b
      <4>1. c = Ends(h, b) /\ c \in Fr(h) /\ c > b
        BY <1>1, <1>5, <3>2
      <4>2. n \in Fr(h) /\ n > b /\ n <= c
        BY <1>1, <1>2, <4>1 DEF NextFree
      <4>3. Ends(h, b) <= n
        BY <1>2, <4>2 DEF Tiles
      <4> QED BY <1>2, <3>2, <4>1, <4>2, <4>3
    <3> QED BY <3>1, <3>2
  <2>3. /\ Tiles(k) /\ Sorted(k, first1) /\ Apart(k)
        /\ \A x \in DOMAIN g \ Fr(g) : x \in DOMAIN k /\ k[x] = g[x]
    BY <1>1, <2>1, <2>2, MergingLast
  <2> QED BY <1>2, <1>3, <2>3 DEF first1
<1> QED BY <1>6, <1>7

(* The stores of the code keep the headers well-formed. *)
LEMMA StoreNext ==
    ASSUME NEW D, NEW h \in [D -> Header], Null \notin D, NEW x \in D \cup {Null}, NEW v \in Int
    PROVE  /\ WithNext(h, x, v) \in [D -> Header]
           /\ x # Null => WithNext(h, x, v)[x] = [size |-> h[x].size, next |-> v]
           /\ \A y \in D : y # x => WithNext(h, x, v)[y] = h[y]
BY DEF WithNext, Header

(* A stored size keeps the headers well-formed. *)
LEMMA StoreSize ==
    ASSUME NEW D, NEW h \in [D -> Header], NEW x \in D, NEW v \in Nat
    PROVE  /\ WithSize(h, x, v) \in [D -> Header]
           /\ WithSize(h, x, v)[x] = [size |-> v, next |-> h[x].next]
           /\ \A y \in D : y # x => WithSize(h, x, v)[y] = h[y]
BY DEF WithSize, Header

(* A new header is well-formed. *)
LEMMA StoreHeader ==
    ASSUME NEW D, NEW h \in [D -> Header], NEW x, NEW s \in Nat, NEW v \in Int
    PROVE  /\ WithHeader(h, x, s, v) \in [D \cup {x} -> Header]
           /\ WithHeader(h, x, s, v)[x] = [size |-> s, next |-> v]
           /\ \A y \in D : y # x => WithHeader(h, x, s, v)[y] = h[y]
<1>1. DOMAIN h = D
  OBVIOUS
<1> QED BY <1>1 DEF WithHeader, Header

(* The free blocks and the others, in the terms of the memory. *)
LEMMA FreeIsFr ==
    /\ Free = Fr(heap) /\ Occupied = Blocks \ Fr(heap)
    /\ \A b \in Blocks : b \in Occupied <=> heap[b].next = Trusted
BY DEF Free, Occupied, Blocks, Next, Fr

(* Offsets are numbers, the markers are none of them. *)
LEMMA Offsets ==
    ASSUME Memory
    PROVE  /\ Blocks \subseteq Nat /\ Fr(heap) \subseteq Blocks
           /\ Null \notin Blocks /\ Trusted \notin Blocks /\ Foreign \notin Blocks
           /\ Null # Trusted
           /\ first \in Fr(heap) \cup {Null}
           /\ \A b \in Blocks : heap[b].size \in Nat /\ heap[b].next \in Int
BY FreeBlocks DEF Memory, Tiles, Blocks, Fr, Null, Trusted, Foreign, Header

(* The type invariant's part about memory. *)
LEMMA MemoryTypes ==
    ASSUME Memory
    PROVE  /\ Blocks \subseteq 0..(Space + H)
           /\ heap \in [Blocks -> [size : Nat, next : Pointers]]
           /\ first \in Pointers
<1>1. \A b \in Blocks : b \in Nat /\ b < Space
  BY DEF Memory, Tiles, Blocks
<1>2. Blocks \subseteq 0..(Space + H)
  BY <1>1, SortedListAssumption
<1>3. first \in Int
  BY Offsets DEF Null
<1> QED BY <1>2, <1>3 DEF Memory, Tiles, Header, Blocks, Pointers

(* The types of what is not memory. *)
RestOK ==
    /\ fit_mode \in Modes
    /\ mutex \in Threads \cup {Nobody}
    /\ call \in [Threads -> Call]
    /\ loc \in [it : Int, free : Int, prev : Int, res : Int, resPrev : Int, best : Nat]
    /\ held \in [DOMAIN held -> Nat]

(* With the memory in order, only the rest of the type invariant is open. *)
LEMMA Types == ASSUME Memory, HeldIntact PROVE TypeOK <=> RestOK
<1>1. DOMAIN held \subseteq Blocks
  BY DEF HeldIntact, Occupied
<1> QED BY <1>1, MemoryTypes DEF TypeOK, RestOK, Pointers

(* The same of the state after a step. *)
LEMMA TypesPrimed == ASSUME Memory', HeldIntact' PROVE TypeOK' <=> RestOK'
BY Types, PTL

(* The initial state is one free block. *)
LEMMA InitIInv == Init => IInv
<1> SUFFICES ASSUME Init PROVE IInv
  OBVIOUS
<1>1. Space \in Nat /\ Space > 0 /\ H \in Nat /\ Nobody \notin Threads
  BY SortedListAssumption
<1>2. DOMAIN heap = {0} /\ heap[0] = [size |-> Space, next |-> Null] /\ first = 0
  BY DEF Init
<1>3. heap \in [{0} -> Header]
  BY <1>1 DEF Init, Header, Null
<1>4. Fr(heap) = {0}
  BY <1>2 DEF Fr, Null, Trusted
<1>5. Tiles(heap)
  BY <1>1, <1>2, <1>3 DEF Tiles, Ends
<1>6. Sorted(heap, first)
  BY <1>2, <1>4 DEF Sorted, NextFree, Null
<1>7. Apart(heap)
  BY <1>1, <1>2, <1>4 DEF Apart, Ends
<1>8. HeldIntact
  BY DEF Init, HeldIntact
<1>9. RestOK
  BY DEF Init, RestOK, Idle, Call, NoLocals, Null
<1>10. Callers /\ Locals
  BY <1>1 DEF Init, Callers, Locals, Idle, Freeing, Inside
<1> QED BY <1>5, <1>6, <1>7, <1>8, <1>9, <1>10, Types DEF IInv, Memory

(* A thread that holds the mutex is in a call of its own, which no step of *)
(* another thread's caller touches.                                        *)
LEMMA CallAllocateStep == ASSUME IInv, NEW t \in Threads, CallAllocate(t) PROVE IInv'
<1> USE DEF IInv
<1>1. PICK n \in Requests : call' = [call EXCEPT ![t] = [op |-> "allocate", arg |-> n]]
  BY DEF CallAllocate
<1>2. /\ call[t].op = "idle" /\ n \in Nat
      /\ UNCHANGED <<heap, first, fit_mode, mutex, loc, held, last>>
  BY SortedListAssumption DEF CallAllocate, Idle
<1>3. mutex # t
  BY <1>2, SortedListAssumption DEF Callers
<1>4. Memory' /\ HeldIntact' /\ Occupied' = Occupied
  BY <1>2 DEF Memory, HeldIntact, Occupied, Size, Blocks, Next
<1>5. \A u \in Threads : call'[u] = IF u = t THEN [op |-> "allocate", arg |-> n] ELSE call[u]
  BY <1>1 DEF TypeOK
<1>6. RestOK'
  BY <1>1, <1>2, <1>4, Types DEF RestOK, Call
<1>7. Callers'
  BY <1>2, <1>3, <1>4, <1>5 DEF Callers, Freeing, RestOK, TypeOK
<1>8. Locals'
  BY <1>2, <1>3, <1>5 DEF Locals, Inside, Searching, Walking
<1> QED BY <1>4, <1>6, <1>7, <1>8, TypesPrimed

(* A caller that frees a block gives it up: no other call names it. *)
LEMMA CallDeallocateStep == ASSUME IInv, NEW t \in Threads, CallDeallocate(t) PROVE IInv'
<1> USE DEF IInv
<1>1. PICK b \in DOMAIN held :
        /\ call' = [call EXCEPT ![t] = [op |-> "deallocate", arg |-> b]]
        /\ held' = [x \in DOMAIN held \ {b} |-> held[x]]
  BY DEF CallDeallocate
<1>2. /\ call[t].op = "idle"
      /\ UNCHANGED <<heap, first, fit_mode, mutex, loc, last>>
  BY DEF CallDeallocate, Idle
<1>3. mutex # t
  BY <1>2, SortedListAssumption DEF Callers
<1>4. b \in Occupied /\ b # Foreign /\ b \in Nat
  BY Offsets DEF HeldIntact, Occupied
<1>5. Memory' /\ Occupied' = Occupied
  BY <1>2 DEF Memory, Occupied, Blocks, Next
<1>6. HeldIntact'
  BY <1>1, <1>2, <1>5 DEF HeldIntact, Size
<1>7. \A u \in Threads : call'[u] = IF u = t THEN [op |-> "deallocate", arg |-> b] ELSE call[u]
  BY <1>1 DEF TypeOK
<1>8. RestOK'
  BY <1>1, <1>2, <1>4, Types DEF RestOK, Call
<1>9. Callers'
  <2>1. ASSUME NEW u \in Threads
        PROVE  \/ call'[u].op = "idle"
               \/ call'[u].op = "allocate" /\ call'[u].arg \in Nat
               \/ call'[u].op = "deallocate" /\ call'[u].arg = Foreign /\ HasLogger /\ mutex' # u
               \/ Freeing(u)' /\ call'[u].arg \in Occupied' \ DOMAIN held'
    BY <1>1, <1>2, <1>4, <1>5, <1>7, <2>1 DEF Callers, Freeing
  <2>2. \A u \in Threads : u # t /\ Freeing(u) => call[u].arg # b
    BY DEF Callers, Freeing
  <2>3. \A u, v \in Threads : u # v /\ Freeing(u)' /\ Freeing(v)' => call'[u].arg # call'[v].arg
    BY <1>7, <2>2 DEF Callers, Freeing
  <2>4. mutex' # Nobody => call'[mutex'].op # "idle"
    BY <1>2, <1>3, <1>7 DEF Callers, TypeOK
  <2> QED BY <2>1, <2>3, <2>4 DEF Callers
<1>10. Locals'
  BY <1>2, <1>3, <1>7 DEF Locals, Inside, Searching, Walking
<1> QED BY <1>5, <1>6, <1>8, <1>9, <1>10, TypesPrimed

(* A caller with another allocator's block waits for the mutex. *)
LEMMA CallForeignStep == ASSUME IInv, NEW t \in Threads, CallDeallocateForeign(t) PROVE IInv'
<1> USE DEF IInv
<1>1. /\ call' = [call EXCEPT ![t] = [op |-> "deallocate", arg |-> Foreign]]
      /\ call[t].op = "idle" /\ HasLogger
      /\ UNCHANGED <<heap, first, fit_mode, mutex, loc, held, last>>
  BY DEF CallDeallocateForeign, Idle
<1>2. mutex # t
  BY <1>1, SortedListAssumption DEF Callers
<1>3. Memory' /\ HeldIntact' /\ Occupied' = Occupied
  BY <1>1 DEF Memory, HeldIntact, Occupied, Size, Blocks, Next
<1>4. \A u \in Threads :
        call'[u] = IF u = t THEN [op |-> "deallocate", arg |-> Foreign] ELSE call[u]
  BY <1>1 DEF TypeOK
<1>5. RestOK'
  BY <1>1, Types DEF RestOK, Call, Foreign
<1>6. Callers'
  BY <1>1, <1>2, <1>3, <1>4 DEF Callers, Freeing, TypeOK
<1>7. Locals'
  BY <1>1, <1>2, <1>4 DEF Locals, Inside, Searching, Walking
<1> QED BY <1>3, <1>5, <1>6, <1>7, TypesPrimed

(* A change of the fit mode needs the mutex, so no search sees it. *)
LEMMA SetFitModeStep == ASSUME IInv, NEW t \in Threads, SetFitMode(t) PROVE IInv'
<1> USE DEF IInv
<1>1. fit_mode' \in Modes /\ UNCHANGED <<heap, first, mutex, call, loc, held, last>>
  BY DEF SetFitMode
<1>2. Memory' /\ HeldIntact' /\ Occupied' = Occupied
  BY <1>1 DEF Memory, HeldIntact, Occupied, Size, Blocks, Next
<1>3. RestOK'
  BY <1>1, Types DEF RestOK
<1>4. Callers' /\ Locals'
  BY <1>1, <1>2 DEF Callers, Freeing, Locals, Inside, Searching, Walking
<1> QED BY <1>2, <1>3, <1>4, TypesPrimed

(* The lock is taken and the search begins at the first free block. *)
LEMMA BeginSearchStep == ASSUME IInv, NEW t \in Threads, BeginSearch(t) PROVE IInv'
<1> USE DEF IInv
<1>1. /\ mutex' = t /\ call[t].op = "allocate"
      /\ loc' = [NoLocals EXCEPT !.it = first]
      /\ UNCHANGED <<heap, first, fit_mode, call, held, last>>
  BY DEF BeginSearch
<1>2. Memory' /\ HeldIntact' /\ Occupied' = Occupied
  BY <1>1 DEF Memory, HeldIntact, Occupied, Size, Blocks, Next
<1>3. loc' = [it |-> first, free |-> Null, prev |-> Null, res |-> Null, resPrev |-> Null, best |-> 0]
  BY <1>1 DEF NoLocals
<1>4. RestOK'
  <2>1. first \in Int /\ Null \in Int
    BY MemoryTypes DEF Pointers, Null
  <2>2. RestOK
    BY Types
  <2>3. loc' \in [it : Int, free : Int, prev : Int, res : Int, resPrev : Int, best : Nat]
    BY <1>3, <2>1
  <2> QED BY <1>1, <2>2, <2>3 DEF RestOK
<1>5. Callers'
  BY <1>1, <1>2, SortedListAssumption DEF Callers, Freeing
<1>6. Searching(call[t].arg)'
  <2>1. first # Null => first \in Fr(heap) /\ PrevFree(Fr(heap), Null, first)
    BY DEF Memory, Sorted, NextFree, PrevFree, Tiles, Fr
  <2> QED BY <1>1, <1>3, <2>1 DEF Searching
<1>7. Locals'
  BY <1>1, <1>6, SortedListAssumption DEF Locals, Inside, Searching
<1> QED BY <1>2, <1>4, <1>5, <1>7, TypesPrimed

(* The lock is taken for a block of this allocator, the walk begins at the *)
(* first block.                                                            *)
LEMMA BeginWalkStep == ASSUME IInv, NEW t \in Threads, BeginWalk(t) PROVE IInv'
<1> USE DEF IInv
<1>1. /\ mutex' = t /\ call[t].op = "deallocate"
      /\ loc' = [NoLocals EXCEPT !.it = 0, !.free = first]
      /\ Next(call[t].arg) = Trusted \/ ~ HasLogger
      /\ UNCHANGED <<heap, first, fit_mode, call, held, last>>
  BY DEF BeginWalk
<1>2. Memory' /\ HeldIntact' /\ Occupied' = Occupied
  BY <1>1 DEF Memory, HeldIntact, Occupied, Size, Blocks, Next
<1>3. loc' = [it |-> 0, free |-> first, prev |-> Null, res |-> Null, resPrev |-> Null, best |-> 0]
  BY <1>1 DEF NoLocals
<1>4. RestOK'
  <2>1. first \in Int /\ Null \in Int
    BY MemoryTypes DEF Pointers, Null
  <2>2. RestOK
    BY Types
  <2>3. loc' \in [it : Int, free : Int, prev : Int, res : Int, resPrev : Int, best : Nat]
    BY <1>3, <2>1
  <2> QED BY <1>1, <2>2, <2>3 DEF RestOK
<1>5. call[t].arg # Foreign /\ call[t].arg \in Occupied /\ call[t].arg \in Nat
  <2>1. Next(Foreign) # Trusted
    BY Offsets DEF Next
  <2> QED BY <1>1, <2>1, Offsets DEF Callers, Freeing, Occupied
<1>6. Callers'
  BY <1>1, <1>2, <1>5, SortedListAssumption DEF Callers, Freeing
<1>7. Walking(call[t].arg)'
  <2>1. PrevFree(Fr(heap), Null, 0) /\ 0 \in DOMAIN heap
    BY DEF Memory, Tiles, PrevFree, Fr
  <2>2. NextFree(Fr(heap), first, 0 - 1)
    BY DEF Memory, Sorted
  <2>3. loc'.it = 0 /\ loc'.free = first /\ loc'.prev = Null
    BY <1>3
  <2>4. Fr(heap)' = Fr(heap) /\ call'[t].arg = call[t].arg /\ DOMAIN heap' = DOMAIN heap
    BY <1>1 DEF Fr
  <2> QED BY <1>5, <2>1, <2>2, <2>3, <2>4 DEF Walking
<1>8. Locals'
  BY <1>1, <1>7, SortedListAssumption DEF Locals, Inside, Walking
<1> QED BY <1>2, <1>4, <1>6, <1>8, TypesPrimed

(* A call ends: the mutex is free again and the caller idle. *)
LEMMA Returning ==
    ASSUME IInv, NEW t \in Threads, NEW r, Return(t, r), mutex \in {t, Nobody},
           fit_mode' = fit_mode, held' \in [DOMAIN held' -> Nat],
           \A u \in Threads : u # t /\ Freeing(u) => call[u].arg \in Occupied' \ DOMAIN held'
    PROVE  RestOK' /\ Callers' /\ Locals'
<1> USE DEF IInv
<1>1. mutex' = Nobody /\ call' = [call EXCEPT ![t] = Idle] /\ loc' = NoLocals
  BY DEF Return
<1>2. \A u \in Threads : call'[u] = IF u = t THEN Idle ELSE call[u]
  BY <1>1 DEF TypeOK
<1>3. RestOK'
  BY <1>1, Types DEF RestOK, Call, Idle, NoLocals, Null
<1>4. Callers'
  BY <1>1, <1>2, SortedListAssumption DEF Callers, Freeing, Idle
<1>5. Locals'
  BY <1>1, SortedListAssumption DEF Locals, Inside
<1> QED BY <1>3, <1>4, <1>5

(* A refused block changes nothing. *)
LEMMA RejectForeignStep == ASSUME IInv, NEW t \in Threads, RejectForeign(t) PROVE IInv'
<1> USE DEF IInv
<1>1. /\ mutex = Nobody /\ Return(t, [op |-> "rejected", arg |-> -1, at |-> -1])
      /\ UNCHANGED <<heap, first, fit_mode, held>>
  BY DEF RejectForeign
<1>2. Memory' /\ HeldIntact' /\ Occupied' = Occupied
  BY <1>1 DEF Memory, HeldIntact, Occupied, Size, Blocks, Next
<1>3. RestOK' /\ Callers' /\ Locals'
  BY <1>1, <1>2, Returning DEF Callers, Freeing, TypeOK
<1> QED BY <1>2, <1>3, TypesPrimed

(* A refused request changes nothing. *)
LEMMA ThrowBadAllocStep == ASSUME IInv, NEW t \in Threads, ThrowBadAlloc(t) PROVE IInv'
<1> USE DEF IInv
<1>1. /\ mutex = t /\ Return(t, [op |-> "bad_alloc", arg |-> call[t].arg, at |-> Null])
      /\ UNCHANGED <<heap, first, fit_mode, held>>
  BY DEF ThrowBadAlloc, Inside
<1>2. Memory' /\ HeldIntact' /\ Occupied' = Occupied
  BY <1>1 DEF Memory, HeldIntact, Occupied, Size, Blocks, Next
<1>3. RestOK' /\ Callers' /\ Locals'
  BY <1>1, <1>2, Returning DEF Callers, Freeing, TypeOK
<1> QED BY <1>2, <1>3, TypesPrimed

(* One step of the search: what it remembers is a free block that fits,    *)
(* with its predecessor in the list.                                       *)
LEMMA SearchingStep == ASSUME IInv, NEW t \in Threads, SearchStep(t) PROVE IInv'
<1> USE DEF IInv
<1> DEFINE b == loc.it
           n == call[t].arg
<1>1. /\ mutex = t /\ call[t].op = "allocate" /\ b # Null
      /\ UNCHANGED <<heap, first, fit_mode, mutex, call, held, last>>
  BY DEF SearchStep, Inside
<1>2. PICK take \in BOOLEAN :
        /\ take => Fits(Size(b), n)
        /\ loc' = [loc EXCEPT !.it = ItAfter(b, take), !.prev = b,
                              !.res = IF take THEN b ELSE @,
                              !.resPrev = IF take THEN loc.prev ELSE @,
                              !.best = IF take THEN Size(b) ELSE @]
  <2> DEFINE take == Fits(Size(b), n) /\ Preferred(Size(b), loc.res # Null)
  <2>1. loc' = [loc EXCEPT !.it = ItAfter(b, take), !.prev = b,
                           !.res = IF take THEN b ELSE @,
                           !.resPrev = IF take THEN loc.prev ELSE @,
                           !.best = IF take THEN Size(b) ELSE @]
    BY DEF SearchStep
  <2>2. take \in BOOLEAN /\ (take => Fits(Size(b), n))
    OBVIOUS
  <2> HIDE DEF take
  <2> QED BY <2>1, <2>2
<1>3. Memory' /\ HeldIntact' /\ Occupied' = Occupied /\ Fr(heap)' = Fr(heap)
  BY <1>1 DEF Memory, HeldIntact, Occupied, Size, Blocks, Next, Fr
<1>4. Searching(n) /\ b \in Fr(heap) /\ PrevFree(Fr(heap), loc.prev, b)
  BY <1>1 DEF Locals, Inside, Searching
<1>5. /\ b \in DOMAIN heap /\ b \in Nat /\ heap[b].size \in Nat
      /\ heap[b].next \in Fr(heap) \cup {Null} /\ heap[b].next \in Int
      /\ Next(b) = heap[b].next /\ Size(b) = heap[b].size
  BY <1>4, FreeBlocks, Offsets DEF Memory, Next, Size, Blocks, Null
<1>6. RestOK
  BY Types
<1>7. ItAfter(b, take) \in {Null, heap[b].next} /\ ItAfter(b, take) \in Int
  BY <1>5 DEF ItAfter, Null
<1>8. /\ loc'.it = ItAfter(b, take) /\ loc'.prev = b
      /\ loc'.res = IF take THEN b ELSE loc.res
      /\ loc'.resPrev = IF take THEN loc.prev ELSE loc.resPrev
      /\ loc'.best = IF take THEN heap[b].size ELSE loc.best
      /\ loc' \in [it : Int, free : Int, prev : Int, res : Int, resPrev : Int, best : Nat]
  BY <1>2, <1>5, <1>6, <1>7 DEF RestOK
<1>9. RestOK'
  BY <1>1, <1>6, <1>8 DEF RestOK
<1>10. Callers'
  BY <1>1, <1>3 DEF Callers, Freeing
<1>11. Searching(n)'
  <2>1. loc'.it # Null => loc'.it \in Fr(heap) /\ PrevFree(Fr(heap), loc'.prev, loc'.it)
    <3>1. heap[b].next # Null => PrevFree(Fr(heap), b, heap[b].next)
      <4>1. NextFree(Fr(heap), heap[b].next, b) /\ \A c \in Fr(heap) : c \in Nat
        BY <1>4, Offsets DEF Memory, Sorted
      <4> QED BY <1>4, <1>5, <4>1 DEF NextFree, PrevFree
    <3> QED BY <1>5, <1>7, <1>8, <3>1
  <2>2. CASE take
    BY <1>1, <1>2, <1>3, <1>4, <1>5, <1>8, <2>1, <2>2 DEF Searching, Fits
  <2>3. CASE ~ take
    BY <1>1, <1>3, <1>4, <1>8, <2>1, <2>3 DEF Searching
  <2> QED BY <2>2, <2>3
<1>12. Locals'
  BY <1>1, <1>11 DEF Locals, Inside
<1> QED BY <1>3, <1>9, <1>10, <1>12, TypesPrimed

(* One step of the walk: it meets every block, and knows the free ones     *)
(* from its own walk of the free list.                                     *)
LEMMA WalkingStep == ASSUME IInv, NEW t \in Threads, WalkStep(t) PROVE IInv'
<1> USE DEF IInv
<1> DEFINE x == loc.it
           b == call[t].arg
           F == Fr(heap)
<1>1. /\ mutex = t /\ call[t].op = "deallocate" /\ x \notin {Null, b}
      /\ loc' = [loc EXCEPT !.prev = IF x = loc.free THEN x ELSE @,
                            !.free = IF x = loc.free THEN Next(x) ELSE @,
                            !.it   = IF End(x) >= Space THEN Null ELSE End(x)]
      /\ UNCHANGED <<heap, first, fit_mode, mutex, call, held, last>>
  BY DEF WalkStep, Inside
<1>2. Memory' /\ HeldIntact' /\ Occupied' = Occupied /\ Fr(heap)' = Fr(heap)
  BY <1>1 DEF Memory, HeldIntact, Occupied, Size, Blocks, Next, Fr
<1>3. Walking(b) /\ b \in Occupied
  BY <1>1 DEF Locals, Inside, Callers, Freeing
<1>4. /\ x \in DOMAIN heap /\ b \in DOMAIN heap /\ x \in Nat /\ b \in Nat /\ x < b
      /\ F \subseteq Nat /\ \A c \in F : c \in DOMAIN heap
  BY <1>1, <1>3, Offsets DEF Walking, Occupied, Blocks
<1>5. /\ Tiles(heap) /\ End(x) = Ends(heap, x) /\ Next(x) = heap[x].next
      /\ End(x) \in Nat /\ End(x) > x
  BY <1>4, Lengths DEF Memory, End, Ends, Size, Next, Blocks
<1>6. End(x) <= b /\ b < Space /\ End(x) \in DOMAIN heap /\ ~ (End(x) >= Space)
  BY <1>4, <1>5, SortedListAssumption DEF Tiles
<1>7. RestOK
  BY Types
<1>8. /\ loc'.it = End(x)
      /\ loc'.prev = IF x = loc.free THEN x ELSE loc.prev
      /\ loc'.free = IF x = loc.free THEN Next(x) ELSE loc.free
      /\ loc' \in [it : Int, free : Int, prev : Int, res : Int, resPrev : Int, best : Nat]
  <2>1. loc' = [loc EXCEPT !.prev = IF x = loc.free THEN x ELSE @,
                           !.free = IF x = loc.free THEN Next(x) ELSE @,
                           !.it   = End(x)]
    BY <1>1, <1>6
  <2>2. Next(x) \in Int /\ x \in Int /\ End(x) \in Int
    BY <1>4, <1>5, Offsets DEF Blocks
  <2>3. loc \in [it : Int, free : Int, prev : Int, res : Int, resPrev : Int, best : Nat]
    BY <1>7 DEF RestOK
  <2> HIDE DEF IInv
  <2> QED BY <2>1, <2>2, <2>3
<1>9. RestOK'
  BY <1>1, <1>7, <1>8 DEF RestOK
<1>10. Callers'
  BY <1>1, <1>2 DEF Callers, Freeing
<1>11. Walking(b)'
  <2>1. \A c \in F : c > x => c >= End(x)
    BY <1>4, <1>5 DEF Tiles
  <2>2. PrevFree(F, loc.prev, x) /\ NextFree(F, loc.free, x - 1)
    BY <1>3 DEF Walking
  <2>3. x \in F <=> x = loc.free
    BY <1>4, <2>2 DEF NextFree, Null
  <2>4. PrevFree(F, loc'.prev, End(x)) /\ NextFree(F, loc'.free, End(x) - 1)
    <3>1. CASE x = loc.free
      <4>1. NextFree(F, heap[x].next, x) /\ loc'.prev = x /\ loc'.free = heap[x].next
        BY <1>5, <1>8, <2>3, <3>1 DEF Memory, Sorted
      <4>2. PrevFree(F, x, End(x))
        BY <1>4, <1>5, <2>1, <2>3, <3>1 DEF PrevFree
      <4>3. NextFree(F, heap[x].next, End(x) - 1)
        BY <1>4, <1>5, <2>1, <4>1 DEF NextFree
      <4> QED BY <4>1, <4>2, <4>3
    <3>2. CASE x # loc.free
      <4>1. loc'.prev = loc.prev /\ loc'.free = loc.free /\ x \notin F
        BY <1>8, <2>3, <3>2
      <4>2. PrevFree(F, loc.prev, End(x))
        BY <1>4, <1>5, <2>1, <2>2, <4>1 DEF PrevFree
      <4>3. NextFree(F, loc.free, End(x) - 1)
        BY <1>4, <1>5, <2>1, <2>2, <4>1 DEF NextFree
      <4> QED BY <4>1, <4>2, <4>3
    <3> QED BY <3>1, <3>2
  <2> QED BY <1>1, <1>2, <1>6, <1>8, <2>4 DEF Walking
<1>12. Locals'
  BY <1>1, <1>11 DEF Locals, Inside
<1> QED BY <1>2, <1>9, <1>10, <1>12, TypesPrimed

(* The end of do_allocate_sm: the stores of both its branches leave the    *)
(* memory in order, and touch no block that is in use.                     *)
LEMMA Granting ==
    ASSUME IInv, NEW t \in Threads, FinishAllocate(t)
    PROVE  /\ Memory'
           /\ loc.res \in Fr(heap)
           /\ loc.res \in DOMAIN heap' /\ heap'[loc.res].next = Trusted
           /\ heap'[loc.res].size \in Nat /\ heap'[loc.res].size >= call[t].arg
           /\ \A x \in Occupied : x \in DOMAIN heap' /\ heap'[x] = heap[x]
           /\ \/ IsCut(heap, first, loc.res, loc.resPrev, call[t].arg, heap')
              \/ IsTaken(heap, first, loc.res, loc.resPrev, heap')
<1> USE DEF IInv
<1> DEFINE b == loc.res
           n == call[t].arg
           p == loc.resPrev
           rest == b + H + n
           succ == IF Splits(loc.best, n) THEN rest ELSE Next(b)
           h1 == IF Splits(loc.best, n)
                 THEN WithSize(WithHeader(heap, rest, RestSize(loc.best, n), Next(b)), b, n)
                 ELSE heap
           h2 == WithNext(h1, p, succ)
<1>1. /\ mutex = t /\ call[t].op = "allocate" /\ b # Null
      /\ heap' = WithNext(h2, b, Trusted)
      /\ first' = IF first = b THEN succ ELSE first
  BY DEF FinishAllocate, Inside
<1>2. Searching(n) /\ n \in Nat
  BY <1>1 DEF Locals, Inside, Callers, Freeing
<1>3. /\ b \in Fr(heap) /\ PrevFree(Fr(heap), p, b)
      /\ loc.best = heap[b].size /\ heap[b].size >= n + H
  BY <1>1, <1>2 DEF Searching
<1>4. /\ Tiles(heap) /\ Sorted(heap, first) /\ Apart(heap)
      /\ heap \in [DOMAIN heap -> Header] /\ DOMAIN heap \subseteq Nat
      /\ Null \notin DOMAIN heap /\ b \in DOMAIN heap
      /\ heap[b].size \in Nat /\ heap[b].next \in Int /\ Next(b) = heap[b].next
      /\ H \in Nat \ {0} /\ Trusted \in Int /\ Null \notin Nat
  BY <1>3, Offsets, SortedListAssumption DEF Memory, Tiles, Blocks, Next, Trusted, Null
<1>5. p \in (DOMAIN heap) \cup {Null} /\ (p # Null => p < b /\ p \in Fr(heap))
  BY <1>3 DEF PrevFree, Fr
<1>6. \A x \in Occupied : x \in DOMAIN heap /\ x # b /\ x # p
  BY <1>3, <1>4, <1>5 DEF Occupied, Blocks, Next, Fr
<1>7. CASE Splits(loc.best, n)
  <2>1. heap[b].size >= n + H + 1
    BY <1>2, <1>3, <1>4, <1>7 DEF Splits
  <2>2. /\ rest \in Nat /\ rest > b /\ rest \notin DOMAIN heap /\ rest # p
        /\ heap[b].size - n - H \in Nat
    BY <1>2, <1>4, <1>5, <2>1 DEF Tiles, Ends
  <2> DEFINE D == DOMAIN heap \cup {rest}
             size == heap[b].size - n - H
             next == heap[b].next
             a1 == WithHeader(heap, rest, size, next)
             a2 == WithSize(a1, b, n)
             a3 == WithNext(a2, p, rest)
             a4 == WithNext(a3, b, Trusted)
  <2>3. heap' = a4 /\ first' = IF first = b THEN rest ELSE first
    BY <1>1, <1>3, <1>4, <1>7 DEF RestSize
  <2>4. /\ a1 \in [D -> Header]
        /\ a1[rest] = [size |-> size, next |-> next]
        /\ \A y \in DOMAIN heap : y # rest => a1[y] = heap[y]
    <3>1. heap \in [DOMAIN heap -> Header] /\ size \in Nat /\ next \in Int
      BY <1>4, <2>2
    <3> HIDE DEF rest, IInv, size, next
    <3> HIDE DEF a2, a3, a4, h1, h2
    <3>2. DOMAIN a1 = D /\ \A y \in D : a1[y] = IF y = rest THEN [size |-> size, next |-> next]
                                                ELSE heap[y]
      BY DEF WithHeader
    <3> QED BY <3>1, <3>2 DEF Header, WithHeader
  <2> HIDE DEF a1
  <2>5. /\ a2 \in [D -> Header]
        /\ a2[b] = [size |-> n, next |-> a1[b].next]
        /\ \A y \in D : y # b => a2[y] = a1[y]
    BY <1>2, <1>4, <2>4, StoreSize
  <2> HIDE DEF a2
  <2>6. Null \notin D /\ p \in D \cup {Null} /\ b \in D \cup {Null} /\ rest \in Int
    BY <1>4, <1>5, <2>2
  <2>7. /\ a3 \in [D -> Header]
        /\ p # Null => a3[p] = [size |-> a2[p].size, next |-> rest]
        /\ \A y \in D : y # p => a3[y] = a2[y]
    BY <2>5, <2>6, StoreNext
  <2> HIDE DEF a3
  <2>8. /\ a4 \in [D -> Header]
        /\ a4[b] = [size |-> a3[b].size, next |-> Trusted]
        /\ \A y \in D : y # b => a4[y] = a3[y]
    BY <1>1, <1>4, <2>6, <2>7, StoreNext
  <2> HIDE DEF a4
  <2>9. b # p /\ b # rest /\ p # rest /\ b \in D /\ rest \in D
    BY <1>4, <1>5, <2>2
  <2>10. a4[b] = [size |-> n, next |-> Trusted]
    BY <2>5, <2>7, <2>8, <2>9
  <2>11. a4[rest] = [size |-> heap[b].size - n - H, next |-> heap[b].next]
    BY <2>4, <2>5, <2>7, <2>8, <2>9
  <2>12. p # Null => a4[p] = [size |-> heap[p].size, next |-> rest]
    BY <1>5, <2>2, <2>4, <2>5, <2>7, <2>8, <2>9
  <2>13. \A x \in DOMAIN heap \ {b, p} : a4[x] = heap[x]
    BY <2>2, <2>4, <2>5, <2>7, <2>8
  <2>19. IsCut(heap, first, b, p, n, a4)
    BY <1>2, <1>3, <1>4, <2>1, <2>8, <2>10, <2>11, <2>12, <2>13 DEF IsCut
  <2>14. Tiles(a4) /\ Sorted(a4, IF first = b THEN rest ELSE first) /\ Apart(a4)
    <3> HIDE DEF IInv
    <3> QED BY <2>19, Cutting
  <2>15. Memory'
    BY <2>3, <2>14 DEF Memory
  <2>16. b \in DOMAIN a4 /\ a4[b].next = Trusted /\ a4[b].size = n
    BY <2>8, <2>9, <2>10
  <2>17. \A x \in Occupied : x \in DOMAIN a4 /\ a4[x] = heap[x]
    BY <1>6, <2>8, <2>13
  <2> QED BY <1>2, <1>3, <2>3, <2>15, <2>16, <2>17, <2>19
<1>8. CASE ~ Splits(loc.best, n)
  <2> DEFINE D == DOMAIN heap
             a3 == WithNext(heap, p, heap[b].next)
             a4 == WithNext(a3, b, Trusted)
  <2>3. heap' = a4 /\ first' = IF first = b THEN heap[b].next ELSE first
    BY <1>1, <1>4, <1>8
  <2>7. /\ a3 \in [D -> Header]
        /\ p # Null => a3[p] = [size |-> heap[p].size, next |-> heap[b].next]
        /\ \A y \in D : y # p => a3[y] = heap[y]
    BY <1>4, <1>5, StoreNext
  <2> HIDE DEF a3
  <2>8. /\ a4 \in [D -> Header]
        /\ a4[b] = [size |-> a3[b].size, next |-> Trusted]
        /\ \A y \in D : y # b => a4[y] = a3[y]
    BY <1>1, <1>4, <2>7, StoreNext
  <2> HIDE DEF a4
  <2>9. b # p
    BY <1>4, <1>5
  <2>10. a4[b] = [size |-> heap[b].size, next |-> Trusted]
    BY <1>4, <2>7, <2>8, <2>9
  <2>12. p # Null => a4[p] = [size |-> heap[p].size, next |-> heap[b].next]
    BY <1>5, <2>7, <2>8, <2>9
  <2>13. \A x \in DOMAIN heap \ {b, p} : a4[x] = heap[x]
    BY <2>7, <2>8
  <2>19. IsTaken(heap, first, b, p, a4)
    BY <1>3, <1>4, <2>8, <2>10, <2>12, <2>13 DEF IsTaken
  <2>14. Tiles(a4) /\ Sorted(a4, IF first = b THEN heap[b].next ELSE first) /\ Apart(a4)
    <3> HIDE DEF IInv
    <3> QED BY <2>19, Whole
  <2>15. Memory'
    BY <2>3, <2>14 DEF Memory
  <2>16. b \in DOMAIN a4 /\ a4[b].next = Trusted /\ a4[b].size = heap[b].size
    BY <1>4, <2>8, <2>10
  <2>17. \A x \in Occupied : x \in DOMAIN a4 /\ a4[x] = heap[x]
    BY <1>6, <2>8, <2>13
  <2>18. heap[b].size >= n
    BY <1>2, <1>3, <1>4
  <2> QED BY <1>3, <1>4, <2>3, <2>15, <2>16, <2>17, <2>18, <2>19
<1> QED BY <1>7, <1>8

(* Blocks in use that a step leaves alone stay in use. *)
LEMMA StayOccupied ==
    ASSUME NEW x \in Occupied, x \in DOMAIN heap', heap'[x] = heap[x]
    PROVE  x \in Occupied' /\ Size(x)' = Size(x)
BY DEF Occupied, Blocks, Next, Size

(* The end of do_allocate_sm keeps the invariant. *)
LEMMA GrantingStep == ASSUME IInv, NEW t \in Threads, FinishAllocate(t) PROVE IInv'
<1> USE DEF IInv
<1> DEFINE b == loc.res
           n == call[t].arg
<1>1. /\ mutex = t /\ call[t].op = "allocate" /\ fit_mode' = fit_mode
      /\ held' = [x \in DOMAIN held \cup {b} |-> IF x = b THEN n ELSE held[x]]
      /\ Return(t, [op |-> "allocated", arg |-> n, at |-> b])
  BY DEF FinishAllocate, Inside
<1>2. n \in Nat
  BY <1>1 DEF Callers, Freeing
<1>3. b \notin Occupied /\ b \in Occupied' /\ heap'[b].size >= n
  <2> HIDE DEF IInv
  <2>1. /\ b \in Fr(heap) /\ b \in DOMAIN heap' /\ heap'[b].next = Trusted
        /\ heap'[b].size >= n
    BY Granting
  <2>2. b \notin Occupied
    BY <2>1, FreeIsFr
  <2>3. b \in Occupied'
    BY <2>1 DEF Occupied, Blocks, Next
  <2> QED BY <2>1, <2>2, <2>3
<1>4. \A x \in Occupied : x \in Occupied' /\ Size(x)' = Size(x)
  BY Granting, StayOccupied
<1>5. HeldIntact'
  <2> SUFFICES ASSUME NEW x \in DOMAIN held' PROVE x \in Occupied' /\ Size(x)' >= held'[x]
    BY DEF HeldIntact
  <2>1. CASE x = b
    <3>1. held'[b] = n
      BY <1>1
    <3> QED BY <1>3, <2>1, <3>1 DEF Size
  <2>2. CASE x # b
    BY <1>1, <1>4, <2>2 DEF HeldIntact
  <2> QED BY <2>1, <2>2
<1>6. held' \in [DOMAIN held' -> Nat]
  BY <1>1, <1>2 DEF TypeOK
<1>7. \A u \in Threads : u # t /\ Freeing(u) => call[u].arg \in Occupied' \ DOMAIN held'
  BY <1>1, <1>3, <1>4 DEF Callers, Freeing
<1>8. RestOK' /\ Callers' /\ Locals'
  BY <1>1, <1>6, <1>7, Returning
<1> QED BY <1>5, <1>8, Granting, TypesPrimed

(* The stores of do_deallocate_sm free the block its caller names, behind  *)
(* the free block the walk has passed last.                                *)
LEMMA TakingBack ==
    ASSUME IInv, NEW t \in Threads, FinishDeallocate(t)
    PROVE  /\ call[t].arg \in Occupied
           /\ first' = FirstWith(loc.prev, call[t].arg)
           /\ \E g : IsFreed(heap, first, call[t].arg, loc.prev,
                           IF loc.prev # Null THEN heap[loc.prev].next ELSE first, g, heap')
<1> USE DEF IInv
<1> DEFINE b == call[t].arg
           p == loc.prev
           n == IF p # Null THEN heap[p].next ELSE first
           h0 == WithNext(heap, p, b)
           h1 == WithNext(h0, b, n)
<1>1. mutex = t /\ call[t].op = "deallocate" /\ loc.it \in {Null, b}
  BY DEF FinishDeallocate, Inside
<1>2. Walking(b) /\ b \in Occupied
  BY <1>1 DEF Locals, Inside, Callers, Freeing
<1>3. /\ Tiles(heap) /\ Sorted(heap, first) /\ Apart(heap)
      /\ heap \in [DOMAIN heap -> Header] /\ DOMAIN heap \subseteq Nat
      /\ Null \notin DOMAIN heap /\ b \in DOMAIN heap /\ heap[b].next = Trusted
      /\ b \in Nat /\ b # Null
  BY <1>2, Offsets, FreeIsFr DEF Memory, Tiles, Blocks, Occupied
<1>4. loc.it = b /\ PrevFree(Fr(heap), p, b)
  BY <1>1, <1>2, <1>3 DEF Walking
<1>5. p \in DOMAIN heap \cup {Null} /\ p # b /\ n \in Int
  <2>1. p \in Fr(heap) \cup {Null} /\ p # b
    BY <1>3, <1>4 DEF PrevFree, Fr
  <2> QED BY <2>1, Offsets, MemoryTypes DEF Fr, Blocks, Pointers
<1>6. h1 = Linked(p, b)
  BY <1>3, <1>5 DEF Linked, Next, Blocks
<1>7. /\ h0 \in [DOMAIN heap -> Header]
      /\ p # Null => h0[p] = [size |-> heap[p].size, next |-> b]
      /\ \A y \in DOMAIN heap : y # p => h0[y] = heap[y]
  BY <1>3, <1>5, StoreNext
<1> HIDE DEF h0
<1>8. /\ h1 \in [DOMAIN heap -> Header]
      /\ h1[b] = [size |-> heap[b].size, next |-> n]
      /\ p # Null => h1[p] = [size |-> heap[p].size, next |-> b]
      /\ \A x \in DOMAIN heap \ {b, p} : h1[x] = heap[x]
  BY <1>3, <1>5, <1>7, StoreNext
<1>9. /\ heap' = IF Mergeable(h1, p, b)
                 THEN TryMerge(TryMerge(h1, p, b), p, h1[b].next)
                 ELSE TryMerge(TryMerge(h1, p, b), b, h1[b].next)
      /\ first' = FirstWith(p, b)
  BY <1>6 DEF FinishDeallocate
<1> HIDE DEF h1
<1>10. h1[b].next = n
  BY <1>8
<1>11. IsFreed(heap, first, b, p, n, h1, heap')
  <2> HIDE DEF n, IInv
  <2>1. n = IF p # Null THEN heap[p].next ELSE first
    BY DEF n
  <2>2. heap' = IF Mergeable(h1, p, b)
                THEN TryMerge(TryMerge(h1, p, b), p, n)
                ELSE TryMerge(TryMerge(h1, p, b), b, n)
    BY <1>9, <1>10
  <2> QED BY <1>3, <1>4, <1>8, <2>1, <2>2 DEF IsFreed
<1> QED BY <1>2, <1>9, <1>11

(* The end of do_deallocate_sm keeps the invariant. *)
LEMMA TakingBackStep == ASSUME IInv, NEW t \in Threads, FinishDeallocate(t) PROVE IInv'
<1> DEFINE b == call[t].arg
           p == loc.prev
<1>1. /\ mutex = t /\ call[t].op = "deallocate"
      /\ fit_mode' = fit_mode /\ held' = held
      /\ Return(t, [op |-> "deallocated", arg |-> b, at |-> b])
  BY DEF FinishDeallocate, Inside
<1>2. b \in Occupied /\ b \notin DOMAIN held /\ Freeing(t)
  BY <1>1, TakingBack DEF IInv, Callers, Freeing
<1>3. /\ Tiles(heap')
      /\ Sorted(heap', FirstWith(p, b))
      /\ Apart(heap')
      /\ \A x \in DOMAIN heap : x # b /\ heap[x].next = Trusted =>
            x \in DOMAIN heap' /\ heap'[x] = heap[x]
  <2> HIDE DEF b, p
  <2>1. PICK n, g : IsFreed(heap, first, b, p, n, g, heap')
    BY TakingBack DEF b, p
  <2> QED BY <2>1, FreeingBlock DEF FirstWith
<1>4. Memory'
  BY <1>3, TakingBack DEF Memory
<1>5. \A x \in Occupied : x # b => x \in Occupied' /\ Size(x)' = Size(x)
  BY <1>3, FreeIsFr, StayOccupied DEF Blocks, Occupied
<1>6. HeldIntact'
  BY <1>1, <1>2, <1>5 DEF IInv, HeldIntact
<1>7. \A u \in Threads : u # t /\ Freeing(u) => call[u].arg \in Occupied' \ DOMAIN held'
  BY <1>1, <1>2, <1>5 DEF IInv, Callers, Freeing
<1>8. RestOK' /\ Callers' /\ Locals'
  BY <1>1, <1>7, Returning DEF IInv, TypeOK
<1> QED BY <1>4, <1>6, <1>8, TypesPrimed DEF IInv

(* Every step of every thread keeps the invariant. *)
LEMMA NextIInv == IInv /\ [NextStep]_vars => IInv'
<1> SUFFICES ASSUME IInv, [NextStep]_vars PROVE IInv'
  OBVIOUS
<1>1. CASE NextStep
  <2>1. PICK t \in Threads : ThreadCall(t) \/ ThreadEnter(t) \/ ThreadWork(t)
    BY <1>1 DEF NextStep
  <2>2. CASE ThreadCall(t)
    BY <2>2, CallAllocateStep, CallDeallocateStep, CallForeignStep, SetFitModeStep
       DEF ThreadCall
  <2>3. CASE ThreadEnter(t)
    BY <2>3, BeginSearchStep, BeginWalkStep, RejectForeignStep DEF ThreadEnter
  <2>4. CASE ThreadWork(t)
    BY <2>4, SearchingStep, GrantingStep, ThrowBadAllocStep, WalkingStep, TakingBackStep
       DEF ThreadWork
  <2> QED BY <2>1, <2>2, <2>3, <2>4
<1>2. CASE UNCHANGED vars
  BY <1>2 DEF vars, IInv, TypeOK, Memory, Callers, HeldIntact, Locals, Searching, Walking,
              Freeing, Inside, Occupied, Blocks, Next, Size
<1> QED BY <1>1, <1>2

(* The invariant holds in every behaviour of allocator_sorted_list. *)
THEOREM Invariance == Spec => []IInv
BY InitIInv, NextIInv, PTL DEF Spec

(* Headers, pointers and locals are well-formed after any number of calls  *)
(* from any number of threads.                                             *)
THEOREM TypeCorrect == Spec => []TypeOK
<1>1. IInv => TypeOK
  BY DEF IInv
<1> QED BY <1>1, Invariance, PTL

(* The headers always tile the trusted area: no split, merge or rest that  *)
(* is too small to split ever tears it.                                    *)
THEOREM TiledAlways == Spec => []Tiled
<1>1. IInv => Tiled
  BY DEF IInv, Memory, Tiles, Tiled, Ends, End, Size, Blocks
<1> QED BY <1>1, Invariance, PTL

(* The free list is complete and sorted by address. *)
THEOREM ListSortedAlways == Spec => []ListSorted
<1>1. IInv => ListSorted
  <2> SUFFICES ASSUME Memory PROVE ListSorted
    BY DEF IInv
  <2>1. ASSUME NEW q, NEW above \in Int, NextFree(Fr(heap), q, above)
        PROVE  IsNextFree(q, above)
    <3>1. Fr(heap) \subseteq Nat /\ Free = Fr(heap)
      BY Offsets, FreeIsFr
    <3>2. CASE q \in Fr(heap) /\ q > above /\ \A f \in Fr(heap) : f > above => q <= f
      BY <3>1, <3>2 DEF IsNextFree
    <3>3. CASE q = Null /\ \A f \in Fr(heap) : f <= above
      <4>1. ~ \E f \in Free : f > above
        BY <3>1, <3>3
      <4> QED BY <3>3, <4>1 DEF IsNextFree
    <3> QED BY <2>1, <3>2, <3>3 DEF NextFree
  <2>2. \A g \in Fr(heap) : Next(g) = heap[g].next
    BY DEF Fr, Next, Blocks
  <2>3. Fr(heap) \subseteq Nat /\ Free = Fr(heap)
    BY Offsets, FreeIsFr
  <2> QED BY <2>1, <2>2, <2>3 DEF Memory, Sorted, ListSorted
<1> QED BY <1>1, Invariance, PTL

(* try_merge leaves no two free blocks side by side. *)
THEOREM CoalescedAlways == Spec => []Coalesced
<1>1. IInv => Coalesced
  BY FreeIsFr DEF IInv, Memory, Apart, Coalesced, Ends, End, Size
<1> QED BY <1>1, Invariance, PTL

(* No call ever damages, shrinks or gives away a block a caller holds. *)
THEOREM HeldIntactAlways == Spec => []HeldIntact
<1>1. IInv => HeldIntact
  BY DEF IInv
<1> QED BY <1>1, Invariance, PTL

-----------------------------------------------------------------------------
(***************************************************************************)
(* What allocator_sorted_list promises its callers: the block it gives out *)
(* is the one its fit mode names, and every call keeps AllocatorSpec.      *)
(*                                                                         *)
(* Both need to know what the search of do_allocate_sm has ruled out, not  *)
(* only what it has found: Seen is about the free blocks it has passed.    *)
(* That a refused request had no hole needs, besides, that the blocks      *)
(* leave no offset of the area uncovered.  Tiles says this in its own way, *)
(* each block ends where another starts, but to conclude it from there     *)
(* takes an induction; Covered is followed through every store instead.    *)
(***************************************************************************)

Used(h) == DOMAIN h \ Fr(h)

(* Every offset of the area is in a block. *)
Covered(h) ==
    \A o \in Nat : o < Space + H => \E b \in DOMAIN h : b <= o /\ o < Ends(h, b)

(* Callers ask for the sizes they may ask for. *)
Asked == \A t \in Threads : call[t].op = "allocate" => call[t].arg \in Requests

(* The search has gone past the block f. *)
Passed(f) == loc.it = Null \/ f < loc.it

(* Of the blocks passed, none serves a request of n better than the one    *)
(* found.                                                                  *)
Seen(n) ==
    /\ loc.res = Null => \A f \in Fr(heap) : Passed(f) => ~ (heap[f].size >= n + H)
    /\ loc.res # Null =>
          /\ Passed(loc.res)
          /\ fit_mode = "first_fit" => loc.it = Null
          /\ \A f \in Fr(heap) : Passed(f) /\ heap[f].size >= n + H => AsGood(loc.res, f)

SeenAll == \A t \in Threads : Inside(t, "allocate") => Seen(call[t].arg)

PInv == IInv /\ Asked /\ Covered(heap) /\ SeenAll

-----------------------------------------------------------------------------
(* A cut covers what was covered, and takes one block into use. *)
LEMMA CutCovers ==
    ASSUME NEW h, NEW f, NEW b, NEW p, NEW n, NEW g, IsCut(h, f, b, p, n, g), Covered(h)
    PROVE  Covered(g) /\ Used(g) = Used(h) \cup {b}
<1> DEFINE rest == b + H + n
<1>1. /\ Tiles(h) /\ Tiles(g) /\ b \in Fr(h) /\ b \in DOMAIN h /\ Fr(h) \subseteq DOMAIN h
      /\ DOMAIN g = DOMAIN h \cup {rest} /\ rest \notin DOMAIN h
      /\ Fr(g) = (Fr(h) \ {b}) \cup {rest}
      /\ Ends(g, b) = rest /\ Ends(g, rest) = Ends(h, b)
      /\ \A x \in DOMAIN h \ {b} : Ends(g, x) = Ends(h, x)
  <2>1. /\ Tiles(g) /\ rest \notin DOMAIN h /\ Fr(g) = (Fr(h) \ {b}) \cup {rest}
        /\ Ends(g, b) = rest /\ Ends(g, rest) = Ends(h, b)
        /\ \A x \in DOMAIN h \ {b} : Ends(g, x) = Ends(h, x)
    BY Cutting
  <2>2. Tiles(h) /\ b \in Fr(h) /\ DOMAIN g = DOMAIN h \cup {rest}
    BY DEF IsCut
  <2>3. Fr(h) \subseteq DOMAIN h
    BY DEF Fr
  <2> QED BY <2>1, <2>2, <2>3
<1>2. Used(g) = Used(h) \cup {b}
  BY <1>1 DEF Used
<1>3. b \in Nat /\ rest \in Nat
  BY <1>1 DEF Tiles
<1>4. ASSUME NEW o \in Nat, o < Space + H
      PROVE  \E x \in DOMAIN g : x <= o /\ o < Ends(g, x)
  <2>1. PICK x \in DOMAIN h : x <= o /\ o < Ends(h, x)
    BY <1>4 DEF Covered
  <2>2. CASE x # b
    BY <1>1, <2>1, <2>2
  <2>3. CASE x = b /\ o < rest
    BY <1>1, <2>1, <2>3
  <2>4. CASE x = b /\ ~ (o < rest)
    BY <1>1, <1>3, <2>1, <2>4
  <2> QED BY <2>2, <2>3, <2>4
<1> QED BY <1>2, <1>4 DEF Covered

(* So does giving out a whole block. *)
LEMMA WholeCovers ==
    ASSUME NEW h, NEW f, NEW b, NEW p, NEW g, IsTaken(h, f, b, p, g), Covered(h)
    PROVE  Covered(g) /\ Used(g) = Used(h) \cup {b}
<1>1. /\ b \in DOMAIN h /\ b \in Fr(h) /\ Fr(h) \subseteq DOMAIN h
      /\ DOMAIN g = DOMAIN h /\ Fr(g) = Fr(h) \ {b}
      /\ \A x \in DOMAIN h : Ends(g, x) = Ends(h, x)
  <2>1. IsTaken(h, f, b, p, g)
    OBVIOUS
  <2> QED BY <2>1, Whole DEF IsTaken, Fr
<1> QED BY <1>1 DEF Used, Covered

(* A merge, tried or done, covers what was covered and uses no other block. *)
LEMMA TryCovers ==
    ASSUME NEW h, h \in [DOMAIN h -> Header], DOMAIN h \subseteq Nat, Covered(h),
           NEW l \in Fr(h) \cup {Null}, NEW r \in Fr(h) \cup {Null},
           NEW k, k = TryMerge(h, l, r)
    PROVE  /\ k \in [DOMAIN k -> Header] /\ DOMAIN k \subseteq DOMAIN h /\ Covered(k)
           /\ Used(k) = Used(h) /\ \A x \in Used(h) : k[x] = h[x]
           /\ Fr(k) = IF Mergeable(h, l, r) THEN Fr(h) \ {r} ELSE Fr(h)
<1>1. CASE ~ Mergeable(h, l, r)
  BY <1>1 DEF TryMerge
<1>2. CASE Mergeable(h, l, r)
  <2>1. /\ l \in Fr(h) /\ r \in Fr(h) /\ l \in DOMAIN h /\ r \in DOMAIN h
        /\ h[l] \in Header /\ h[r] \in Header
        /\ l + H + h[l].size = r /\ k = Merged(h, l, r)
        /\ H \in Nat \ {0} /\ l \in Nat /\ r \in Nat
    BY <1>2, SortedListAssumption DEF Mergeable, TryMerge, Fr
  <2>2. l # r
    BY <2>1 DEF Header
  <2>3. /\ DOMAIN k = DOMAIN h \ {r}
        /\ k[l] = [size |-> h[l].size + h[r].size + H, next |-> h[r].next]
        /\ \A x \in DOMAIN h \ {l, r} : k[x] = h[x]
    BY <2>1, <2>2 DEF Merged
  <2>4. k \in [DOMAIN k -> Header]
    <3>1. k = [x \in DOMAIN k |-> k[x]]
      BY <2>1 DEF Merged
    <3>2. \A x \in DOMAIN k : k[x] \in Header
      BY <2>1, <2>3 DEF Header
    <3> QED BY <3>1, <3>2
  <2>5. Fr(k) = Fr(h) \ {r}
    BY <2>1, <2>2, <2>3 DEF Fr
  <2>6. Used(k) = Used(h) /\ \A x \in Used(h) : k[x] = h[x]
    BY <2>1, <2>3, <2>5 DEF Used
  <2>7. /\ Ends(h, l) = r /\ Ends(k, l) = Ends(h, r) /\ Ends(h, r) > r
        /\ \A x \in DOMAIN h \ {l, r} : Ends(k, x) = Ends(h, x)
    BY <2>1, <2>3 DEF Ends, Header
  <2>8. ASSUME NEW o \in Nat, o < Space + H
        PROVE  \E x \in DOMAIN k : x <= o /\ o < Ends(k, x)
    <3>1. PICK x \in DOMAIN h : x <= o /\ o < Ends(h, x)
      BY <2>8 DEF Covered
    <3>2. CASE x \notin {l, r}
      BY <2>3, <2>7, <3>1, <3>2
    <3>3. CASE x \in {l, r}
      <4>1. l \in DOMAIN k /\ l < r /\ Ends(h, r) \in Int
        BY <2>1, <2>2, <2>3 DEF Ends, Header
      <4> QED BY <2>1, <2>7, <3>1, <3>3, <4>1
    <3> QED BY <3>2, <3>3
  <2> QED BY <1>2, <2>3, <2>4, <2>5, <2>6, <2>8 DEF Covered
<1> QED BY <1>1, <1>2

(* Freeing a block covers what was covered and takes only this block out   *)
(* of use.                                                                 *)
LEMMA FreeingCovers ==
    ASSUME NEW h, NEW f, NEW b, NEW p, NEW n, NEW g, NEW k, IsFreed(h, f, b, p, n, g, k),
           Covered(h)
    PROVE  /\ Covered(k)
           /\ Used(k) = Used(h) \ {b}
           /\ \A x \in Used(k) : k[x] = h[x]
<1> USE DEF IsFreed
<1>1. /\ Fr(g) = Fr(h) \cup {b} /\ NextFree(Fr(h), n, b)
      /\ \A x \in DOMAIN h : Ends(g, x) = Ends(h, x)
  BY Linking
<1>2. /\ g \in [DOMAIN g -> Header] /\ DOMAIN g = DOMAIN h /\ DOMAIN g \subseteq Nat
      /\ p \in Fr(g) \cup {Null} /\ n \in Fr(g) \cup {Null} /\ b \in Fr(g)
      /\ n # b /\ p # b /\ b \notin Fr(h) /\ b # Null
      /\ p \in Fr(h) \cup {Null} /\ Null \notin Nat
  BY <1>1 DEF Tiles, PrevFree, NextFree, Fr, Null
<1>3. Covered(g)
  BY <1>1, <1>2 DEF Covered
<1>4. Used(g) = Used(h) \ {b} /\ \A x \in Used(g) : g[x] = h[x]
  <2>1. Used(g) = Used(h) \ {b}
    BY <1>1, <1>2 DEF Used
  <2>2. \A x \in Used(g) : x \in DOMAIN h /\ x # b /\ x # p
    BY <1>2, <2>1 DEF Used
  <2> QED BY <2>1, <2>2
<1> DEFINE m == TryMerge(g, p, b)
<1>5. /\ m \in [DOMAIN m -> Header] /\ DOMAIN m \subseteq DOMAIN g /\ Covered(m)
      /\ Used(m) = Used(g) /\ \A x \in Used(g) : m[x] = g[x]
      /\ Fr(m) = IF Mergeable(g, p, b) THEN Fr(g) \ {b} ELSE Fr(g)
  BY <1>2, <1>3, TryCovers
<1>6. /\ k = IF Mergeable(g, p, b) THEN TryMerge(m, p, n) ELSE TryMerge(m, b, n)
  OBVIOUS
<1> HIDE DEF m
<1>7. /\ Covered(k) /\ Used(k) = Used(m) /\ \A x \in Used(m) : k[x] = m[x]
  <2>1. DOMAIN m \subseteq Nat /\ n \in Fr(m) \cup {Null}
    BY <1>2, <1>5
  <2>2. PICK l \in Fr(m) \cup {Null} : k = TryMerge(m, l, n)
    <3>1. CASE Mergeable(g, p, b)
      BY <1>2, <1>5, <1>6, <3>1
    <3>2. CASE ~ Mergeable(g, p, b)
      BY <1>2, <1>5, <1>6, <3>2
    <3> QED BY <3>1, <3>2
  <2> HIDE DEF IsFreed
  <2> QED BY <1>5, <2>1, <2>2, TryCovers
<1> QED BY <1>4, <1>5, <1>7

(* Occupied and Used are the same blocks. *)
LEMMA UsedIsOccupied == Used(heap) = Occupied
BY FreeIsFr DEF Used, Blocks

LEMMA UsedIsOccupiedPrimed == Used(heap') = Occupied'
BY DEF Used, Fr, Occupied, Blocks, Next

-----------------------------------------------------------------------------
(* What the end of do_allocate_sm does to the blocks in use. *)
LEMMA GrantingCovers ==
    ASSUME IInv, Covered(heap), NEW t \in Threads, FinishAllocate(t)
    PROVE  Covered(heap') /\ Occupied' = Occupied \cup {loc.res}
<1>1. CASE IsCut(heap, first, loc.res, loc.resPrev, call[t].arg, heap')
  BY <1>1, CutCovers, UsedIsOccupied, UsedIsOccupiedPrimed
<1>2. CASE IsTaken(heap, first, loc.res, loc.resPrev, heap')
  BY <1>2, WholeCovers, UsedIsOccupied, UsedIsOccupiedPrimed
<1> QED BY <1>1, <1>2, Granting

(* What the end of do_deallocate_sm does to them. *)
LEMMA TakingBackCovers ==
    ASSUME IInv, Covered(heap), NEW t \in Threads, FinishDeallocate(t),
           NEW b, b = call[t].arg
    PROVE  /\ Covered(heap') /\ b \in Occupied /\ Occupied' = Occupied \ {b}
           /\ \A x \in Occupied' : heap'[x] = heap[x]
<1>1. PICK n, g : IsFreed(heap, first, b, loc.prev, n, g, heap')
  BY TakingBack
<1>2. b \in Occupied
  BY TakingBack
<1>3. /\ Covered(heap') /\ Used(heap') = Used(heap) \ {b}
      /\ \A x \in Used(heap') : heap'[x] = heap[x]
  BY <1>1, FreeingCovers
<1> QED BY <1>2, <1>3, UsedIsOccupied, UsedIsOccupiedPrimed

(* The area stays covered. *)
LEMMA CoveredStays ==
    ASSUME IInv, Covered(heap), NEW t \in Threads, ThreadCall(t) \/ ThreadEnter(t) \/ ThreadWork(t)
    PROVE  Covered(heap')
<1>1. CASE FinishAllocate(t)
  BY <1>1, GrantingCovers
<1>2. CASE FinishDeallocate(t)
  BY <1>2, TakingBackCovers
<1>3. CASE ThreadCall(t)
  BY <1>3 DEF ThreadCall, CallAllocate, CallDeallocate, CallDeallocateForeign, SetFitMode
<1>4. CASE ThreadEnter(t)
  BY <1>4 DEF ThreadEnter, BeginSearch, BeginWalk, RejectForeign
<1>5. CASE SearchStep(t) \/ WalkStep(t) \/ ThrowBadAlloc(t)
  BY <1>5 DEF SearchStep, WalkStep, ThrowBadAlloc
<1> QED BY <1>1, <1>2, <1>3, <1>4, <1>5 DEF ThreadWork

(* Requests are made in CallAllocate and nowhere else. *)
LEMMA AskedStays ==
    ASSUME IInv, Asked, NEW t \in Threads, ThreadCall(t) \/ ThreadEnter(t) \/ ThreadWork(t)
    PROVE  Asked'
<1>1. call \in [Threads -> Call]
  BY DEF IInv, TypeOK
<1>2. CASE CallAllocate(t)
  <2>1. PICK n \in Requests : call' = [call EXCEPT ![t] = [op |-> "allocate", arg |-> n]]
    BY <1>2 DEF CallAllocate
  <2>2. \A u \in Threads : call'[u] = IF u = t THEN [op |-> "allocate", arg |-> n] ELSE call[u]
    BY <1>1, <2>1
  <2> QED BY <2>2 DEF Asked
<1>3. CASE CallDeallocate(t) \/ CallDeallocateForeign(t)
  <2>1. PICK b : call' = [call EXCEPT ![t] = [op |-> "deallocate", arg |-> b]]
    BY <1>3 DEF CallDeallocate, CallDeallocateForeign
  <2>2. \A u \in Threads : call'[u] = IF u = t THEN [op |-> "deallocate", arg |-> b] ELSE call[u]
    BY <1>1, <2>1
  <2> QED BY <2>2 DEF Asked
<1>4. CASE RejectForeign(t) \/ FinishAllocate(t) \/ ThrowBadAlloc(t) \/ FinishDeallocate(t)
  <2>1. call' = [call EXCEPT ![t] = Idle]
    BY <1>4 DEF RejectForeign, FinishAllocate, ThrowBadAlloc, FinishDeallocate, Return
  <2>2. \A u \in Threads : call'[u] = IF u = t THEN Idle ELSE call[u]
    BY <1>1, <2>1
  <2> QED BY <2>2 DEF Asked, Idle
<1>5. CASE SetFitMode(t) \/ BeginSearch(t) \/ BeginWalk(t) \/ SearchStep(t) \/ WalkStep(t)
  BY <1>5 DEF SetFitMode, BeginSearch, BeginWalk, SearchStep, WalkStep, Asked
<1> QED BY <1>2, <1>3, <1>4, <1>5 DEF ThreadCall, ThreadEnter, ThreadWork

(* When the search begins it has passed nothing. *)
LEMMA SeenBegins ==
    ASSUME IInv, NEW t \in Threads, BeginSearch(t)
    PROVE  SeenAll'
<1>1. /\ mutex' = t /\ heap' = heap /\ call' = call
      /\ loc' = [NoLocals EXCEPT !.it = first]
  BY DEF BeginSearch
<1>2. loc'.it = first /\ loc'.res = Null
  BY <1>1 DEF NoLocals
<1>3. \A f \in Fr(heap) : first # Null /\ ~ (f < first)
  <2>1. NextFree(Fr(heap), first, -1) /\ \A f \in Fr(heap) : f \in Nat
    BY Offsets DEF IInv, Memory, Sorted
  <2>2. ASSUME NEW f \in Fr(heap) PROVE first # Null /\ ~ (f < first)
    <3>1. f \in Nat /\ f > -1
      BY <2>1
    <3>2. first \in Fr(heap) /\ first <= f
      BY <2>1, <3>1 DEF NextFree
    <3>3. first \in Nat
      BY <2>1, <3>2
    <3> QED BY <3>1, <3>2, <3>3 DEF Null
  <2> QED BY <2>2
<1> QED BY <1>1, <1>2, <1>3 DEF SeenAll, Seen, Passed, Inside

(* Each step of the search passes one more free block, and keeps the       *)
(* better one of it and the one found before.                              *)
LEMMA SeenGoesOn ==
    ASSUME IInv, SeenAll, NEW t \in Threads, SearchStep(t),
           NEW b, b = loc.it, NEW n, n = call[t].arg, NEW r, r = loc.res
    PROVE  SeenAll'
<1> DEFINE take == Fits(Size(b), n) /\ Preferred(Size(b), loc.res # Null)
<1>1. /\ mutex = t /\ call[t].op = "allocate" /\ b # Null /\ b = loc.it
      /\ n = call[t].arg /\ r = loc.res
      /\ UNCHANGED <<heap, fit_mode, mutex, call>>
      /\ loc' = [loc EXCEPT !.it = ItAfter(b, take), !.prev = b,
                            !.res = IF take THEN b ELSE @,
                            !.resPrev = IF take THEN loc.prev ELSE @,
                            !.best = IF take THEN Size(b) ELSE @]
  BY DEF SearchStep, Inside
<1>2. Seen(n) /\ Searching(n)
  BY <1>1 DEF SeenAll, IInv, Locals, Inside
<1>3. /\ b \in Fr(heap) /\ b \in Nat /\ heap[b].size \in Nat
      /\ NextFree(Fr(heap), heap[b].next, b)
      /\ Next(b) = heap[b].next /\ \A f \in Fr(heap) : f \in Nat /\ heap[f].size \in Nat
      /\ \A f : Size(f) = heap[f].size
  BY <1>1, <1>2, Offsets DEF Searching, IInv, Memory, Sorted, Next, Size, Blocks, Fr
<1>4. loc'.it = ItAfter(b, take) /\ loc'.res = IF take THEN b ELSE r
  BY <1>1 DEF IInv, TypeOK
<1>5. \A f \in Fr(heap) : f <= b => Passed(f)'
  <2>1. CASE loc'.it = Null
    BY <2>1 DEF Passed
  <2>2. CASE loc'.it # Null
    <3>1. loc'.it = heap[b].next
      BY <1>3, <1>4, <2>2 DEF ItAfter
    <3>2. heap[b].next > b /\ heap[b].next \in Nat
      BY <1>3, <2>2, <3>1 DEF NextFree
    <3> QED BY <1>3, <3>1, <3>2 DEF Passed
  <2> QED BY <2>1, <2>2
<1>6. ~ (take /\ fit_mode = "first_fit") =>
         \A f \in Fr(heap) : Passed(f)' => f <= b
  <2>1. SUFFICES ASSUME ~ (take /\ fit_mode = "first_fit"), NEW f \in Fr(heap), Passed(f)'
                 PROVE  f <= b
    OBVIOUS
  <2>2. loc'.it = heap[b].next
    BY <1>3, <1>4, <2>1 DEF ItAfter
  <2>3. heap[b].next = Null \/ f < heap[b].next
    BY <2>1, <2>2 DEF Passed
  <2>4. CASE heap[b].next \in Fr(heap) /\ \A g \in Fr(heap) : g > b => heap[b].next <= g
    BY <1>3, <2>3, <2>4 DEF Null
  <2>5. CASE \A g \in Fr(heap) : g <= b
    BY <2>5
  <2> QED BY <1>3, <2>4, <2>5 DEF NextFree
<1>7. \A f \in Fr(heap) : f < b <=> Passed(f)
  BY <1>1 DEF Passed
<1>8. \A f, g : AsGood(f, g)' <=> AsGood(f, g)
  BY <1>1 DEF AsGood, Size
<1>9. fit_mode \in Modes
  BY DEF IInv, TypeOK
<1> HIDE DEF take
<1>10. Seen(n)'
  <2>1. CASE take
    <3>1. loc'.res = b /\ b # Null /\ Passed(b)'
      BY <1>1, <1>3, <1>4, <1>5, <2>1
    <3>2. fit_mode' = "first_fit" => loc'.it = Null
      BY <1>1, <1>4, <2>1 DEF ItAfter
    <3>3. ASSUME NEW f \in Fr(heap), Passed(f)', heap[f].size >= n + H PROVE AsGood(b, f)
      <4>1. CASE fit_mode = "first_fit"
        <5>1. r = Null
          BY <1>1, <1>2, <4>1 DEF Seen
        <5>2. ~ (f < b)
          BY <1>1, <1>2, <1>7, <3>3, <5>1 DEF Seen
        <5> QED BY <1>3, <4>1, <5>2 DEF AsGood
      <4>2. CASE fit_mode # "first_fit"
        <5>1. f <= b
          BY <1>6, <3>3, <4>2
        <5>2. CASE f = b
          BY <1>3, <4>2, <5>2 DEF AsGood
        <5>3. CASE f < b /\ r = Null
          BY <1>1, <1>2, <1>7, <3>3, <5>3 DEF Seen
        <5>4. CASE f < b /\ r # Null
          <6>1. AsGood(r, f)
            BY <1>1, <1>2, <1>7, <3>3, <5>4 DEF Seen
          <6>2. r \in Fr(heap) /\ loc.best = Size(r) /\ Size(r) \in Nat
            BY <1>1, <1>2, <1>3, <5>4 DEF Searching
          <6>3. \/ fit_mode = "the_best_fit" /\ Size(b) < Size(r)
                \/ fit_mode = "the_worst_fit" /\ Size(b) > Size(r)
            BY <1>1, <2>1, <4>2, <5>4, <6>2 DEF take, Preferred
          <6>4. Size(b) \in Nat /\ Size(f) \in Nat
            BY <1>3
          <6> QED BY <6>1, <6>2, <6>3, <6>4 DEF AsGood
        <5> QED BY <1>3, <5>1, <5>2, <5>3, <5>4
      <4> QED BY <4>1, <4>2
    <3> QED BY <1>1, <1>8, <3>1, <3>2, <3>3 DEF Seen
  <2>2. CASE ~ take
    <3>1. loc'.res = r
      BY <1>4, <2>2
    <3>2. \A f \in Fr(heap) : Passed(f)' => f = b \/ Passed(f)
      BY <1>3, <1>6, <1>7, <2>2
    <3>3. CASE r = Null
      <4>1. ~ (heap[b].size >= n + H)
        BY <1>1, <1>3, <2>2, <3>3 DEF take, Fits, Preferred
      <4>2. \A f \in Fr(heap) : Passed(f)' => ~ (heap[f].size >= n + H)
        BY <1>1, <1>2, <3>2, <3>3, <4>1 DEF Seen
      <4> QED BY <1>1, <3>1, <3>3, <4>2 DEF Seen
    <3>4. CASE r # Null
      <4>1. /\ Passed(r) /\ r \in Fr(heap) /\ loc.best = Size(r)
            /\ fit_mode # "first_fit" /\ Size(r) \in Nat
        BY <1>1, <1>2, <1>3, <3>4 DEF Seen, Searching
      <4>2. Passed(r)' /\ r < b
        BY <1>3, <1>5, <1>7, <4>1
      <4>3. heap[b].size >= n + H => AsGood(r, b)
        <5>1. SUFFICES ASSUME heap[b].size >= n + H PROVE AsGood(r, b)
          OBVIOUS
        <5>2. /\ fit_mode = "the_best_fit" => ~ (Size(b) < Size(r))
              /\ fit_mode = "the_worst_fit" => ~ (Size(b) > Size(r))
          BY <1>1, <1>3, <2>2, <3>4, <4>1, <5>1 DEF take, Fits, Preferred
        <5>3. Size(b) \in Nat
          BY <1>3
        <5> QED BY <1>3, <4>1, <4>2, <5>2, <5>3 DEF AsGood
      <4>4. \A f \in Fr(heap) : Passed(f)' /\ heap[f].size >= n + H => AsGood(r, f)
        BY <1>1, <1>2, <3>2, <3>4, <4>3 DEF Seen
      <4> QED BY <1>1, <1>8, <3>1, <3>4, <4>1, <4>2, <4>4 DEF Seen
    <3> QED BY <3>3, <3>4
  <2> QED BY <2>1, <2>2
<1> QED BY <1>1, <1>10 DEF SeenAll, Inside

(* No other step of any thread disturbs a search: the memory and the fit   *)
(* mode change under the mutex only.                                       *)
LEMMA SeenStays ==
    ASSUME IInv, SeenAll, NEW t \in Threads, ThreadCall(t) \/ ThreadEnter(t) \/ ThreadWork(t)
    PROVE  SeenAll'
<1>1. call \in [Threads -> Call] /\ Nobody \notin Threads
  BY SortedListAssumption DEF IInv, TypeOK
<1>2. CASE CallAllocate(t) \/ CallDeallocate(t) \/ CallDeallocateForeign(t)
  <2>1. /\ UNCHANGED <<heap, fit_mode, mutex, loc>> /\ call[t].op = "idle"
        /\ \A u \in Threads : u # t => call'[u] = call[u]
    <3>1. CASE CallAllocate(t)
      BY <1>1, <3>1 DEF CallAllocate, Idle
    <3>2. CASE CallDeallocate(t)
      BY <1>1, <3>2 DEF CallDeallocate, Idle
    <3>3. CASE CallDeallocateForeign(t)
      BY <1>1, <3>3 DEF CallDeallocateForeign, Idle
    <3> QED BY <1>2, <3>1, <3>2, <3>3
  <2>2. mutex # t
    BY <1>1, <2>1 DEF IInv, Callers
  <2>3. \A u \in Threads : Inside(u, "allocate")' =>
           Inside(u, "allocate") /\ call'[u] = call[u]
    BY <2>1, <2>2 DEF Inside
  <2>4. ASSUME NEW n, Seen(n) PROVE Seen(n)'
    BY <2>1, <2>4 DEF Seen, Passed, AsGood, Size
  <2> QED BY <2>3, <2>4 DEF SeenAll
<1>3. CASE SetFitMode(t)
  BY <1>1, <1>3 DEF SetFitMode, SeenAll, Inside
<1>4. CASE BeginSearch(t)
  BY <1>4, SeenBegins
<1>5. CASE BeginWalk(t)
  BY <1>1, <1>5 DEF BeginWalk, SeenAll, Inside
<1>6. CASE RejectForeign(t) \/ FinishAllocate(t) \/ ThrowBadAlloc(t) \/ FinishDeallocate(t)
  BY <1>1, <1>6 DEF RejectForeign, FinishAllocate, ThrowBadAlloc, FinishDeallocate, Return,
                    SeenAll, Inside
<1>7. CASE SearchStep(t)
  BY <1>7, SeenGoesOn
<1>8. CASE WalkStep(t)
  BY <1>1, <1>8 DEF WalkStep, SeenAll, Inside
<1> QED BY <1>2, <1>3, <1>4, <1>5, <1>6, <1>7, <1>8 DEF ThreadCall, ThreadEnter, ThreadWork

(* At the start one free block covers the area. *)
LEMMA InitPInv == Init => PInv
<1> SUFFICES ASSUME Init PROVE PInv
  OBVIOUS
<1>1. Space \in Nat /\ H \in Nat /\ Nobody \notin Threads
  BY SortedListAssumption
<1>2. Covered(heap)
  BY <1>1 DEF Init, Covered, Ends
<1>3. Asked /\ SeenAll
  BY <1>1 DEF Init, Asked, SeenAll, Inside, Idle
<1> QED BY <1>2, <1>3, InitIInv DEF PInv

(* Every step of every thread keeps what is known of the searches. *)
LEMMA NextPInv == PInv /\ [NextStep]_vars => PInv'
<1> SUFFICES ASSUME PInv, [NextStep]_vars PROVE PInv'
  OBVIOUS
<1>1. IInv'
  BY NextIInv DEF PInv
<1>2. CASE NextStep
  <2>1. PICK t \in Threads : ThreadCall(t) \/ ThreadEnter(t) \/ ThreadWork(t)
    BY <1>2 DEF NextStep
  <2>2. Asked' /\ Covered(heap') /\ SeenAll'
    BY <2>1, AskedStays, CoveredStays, SeenStays DEF PInv
  <2> QED BY <1>1, <2>2 DEF PInv
<1>3. CASE UNCHANGED vars
  BY <1>1, <1>3 DEF vars, PInv, Asked, SeenAll, Seen, Passed, AsGood, Size, Inside
<1> QED BY <1>2, <1>3

(* What the searches have passed is known in every behaviour. *)
THEOREM SearchInvariance == Spec => []PInv
BY InitPInv, NextPInv, PTL DEF Spec

-----------------------------------------------------------------------------
(* do_allocate_sm hands out the first, the smallest or the largest block   *)
(* that can take the request and its header, as the fit mode says.         *)
THEOREM FitHonouredAlways == Spec => FitHonoured
<1> DEFINE Honoured ==
      \A t \in Threads : FinishAllocate(t) =>
          LET b == last'.at
              fits == {f \in Free : Size(f) >= call[t].arg + H}
          IN  b \in fits /\ \A f \in fits : AsGood(b, f)
<1>1. ASSUME PInv PROVE Honoured
  <2> SUFFICES ASSUME NEW t \in Threads, FinishAllocate(t), NEW b, b = last'.at,
                      NEW n, n = call[t].arg
               PROVE  /\ b \in {f \in Free : Size(f) >= n + H}
                      /\ \A f \in {f \in Free : Size(f) >= n + H} : AsGood(b, f)
    OBVIOUS
  <2>1. Inside(t, "allocate") /\ loc.it = Null /\ loc.res # Null /\ b = loc.res
    BY DEF FinishAllocate, Return
  <2>2. Searching(n) /\ Seen(n)
    BY <1>1, <2>1 DEF PInv, IInv, Locals, SeenAll
  <2>3. b \in Fr(heap) /\ heap[b].size >= n + H
    BY <2>1, <2>2 DEF Searching
  <2>4. \A f \in Fr(heap) : heap[f].size >= n + H => AsGood(b, f)
    BY <2>1, <2>2 DEF Seen, Passed
  <2> QED BY <2>3, <2>4, FreeIsFr DEF Size
<1>2. PInv /\ [NextStep]_vars => [Honoured]_vars
  BY <1>1
<1> QED BY <1>2, SearchInvariance, PTL DEF Spec, FitHonoured

-----------------------------------------------------------------------------
(* The regions of AllocatorSpec are the occupied blocks. *)
Regions == [b \in Occupied |-> Size(b)]

(* The blocks of an ordered memory, in the terms of AllocatorSpec. *)
LEMMA VacantOffsets ==
    ASSUME NEW o, NEW len
    PROVE  Promise!Vacant(o, len) <=>
             /\ o + len <= Space + H
             /\ \A r \in Occupied : Ends(heap, r) <= o \/ o + len <= r
BY DEF Promise!Vacant, Promise!End, Ends, Size

LEMMA PromiseInit == Init => Promise!SpecInit
<1> SUFFICES ASSUME Init PROVE Promise!SpecInit
  OBVIOUS
<1>1. Occupied = {}
  BY DEF Init, Occupied, Next, Blocks, Null, Trusted
<1> QED BY <1>1 DEF Init, Promise!SpecInit

(* The block given out was in no other region. *)
LEMMA PromiseGrant ==
    ASSUME PInv, NEW t \in Threads, FinishAllocate(t), NEW n, n = call[t].arg,
           NEW b, b = loc.res
    PROVE  Promise!Grant(n)
<1> DEFINE len == heap'[b].size
<1>1. /\ Memory' /\ b \in DOMAIN heap' /\ heap'[b].next = Trusted
      /\ len \in Nat /\ len >= n /\ n \in Nat
      /\ \A x \in Occupied : x \in DOMAIN heap' /\ heap'[x] = heap[x]
      /\ last' = [op |-> "allocated", arg |-> n, at |-> b]
      /\ b \in Fr(heap)
  <2>1. n \in Nat
    BY SortedListAssumption DEF PInv, Asked, FinishAllocate, Inside
  <2> QED BY <2>1, Granting DEF PInv, FinishAllocate, Return
<1>2. Occupied' = Occupied \cup {b} /\ b \notin Occupied
  BY <1>1, GrantingCovers, FreeIsFr DEF PInv
<1> HIDE DEF len
<1>3. /\ Tiles(heap') /\ DOMAIN heap' \subseteq Nat /\ b \in Nat
      /\ Space \in Nat /\ H \in Nat \ {0} /\ Ends(heap', b) = b + H + len
      /\ b < Space /\ b + H + len <= Space + H
      /\ \A x \in DOMAIN heap' : heap'[x].size \in Nat
  <2>1. Tiles(heap')
    BY <1>1 DEF Memory
  <2>2. Ends(heap', b) <= Space + H
    <3>1. \A x \in DOMAIN heap' : x < Space /\ x \in Nat
      BY <2>1 DEF Tiles
    <3>2. Ends(heap', b) \in DOMAIN heap' \cup {Space + H}
      BY <1>1, <2>1 DEF Tiles
    <3> QED BY <3>1, <3>2, SortedListAssumption
  <2>3. \A x \in DOMAIN heap' : heap'[x].size \in Nat
    BY <2>1, Lengths
  <2> QED BY <1>1, <2>1, <2>2, <2>3, SortedListAssumption DEF Tiles, Ends, len
<1>4. Promise!Vacant(b, H + len)
  <2>1. ASSUME NEW r \in Occupied PROVE Ends(heap, r) <= b \/ b + (H + len) <= r
    <3>1. r \in DOMAIN heap' /\ r # b /\ r \in Nat /\ Ends(heap', r) = Ends(heap, r)
      BY <1>1, <1>2, <1>3 DEF Ends
    <3>2. r < b => Ends(heap', r) <= b
      BY <1>1, <1>3, <3>1 DEF Tiles
    <3>3. b < r => Ends(heap', b) <= r
      BY <1>1, <1>3, <3>1 DEF Tiles
    <3> QED BY <1>1, <1>3, <3>1, <3>2, <3>3
  <2> QED BY <1>1, <1>3, <2>1, VacantOffsets
<1>5. Regions' = [r \in DOMAIN Regions \cup {b} |-> IF r = b THEN len ELSE Regions[r]]
  <2>1. \A x \in Occupied : Size(x)' = Size(x)
    BY <1>1 DEF Size
  <2>2. \A x : Size(x)' = heap'[x].size
    BY DEF Size
  <2> QED BY <1>2, <2>1, <2>2 DEF Regions, len
<1>6. b \in 0..(Space + H) /\ len \in n..(Space + H)
  BY <1>1, <1>3
<1> QED BY <1>1, <1>4, <1>5, <1>6 DEF Promise!Grant, Regions

(* When no free block can take n and a header, each is followed by a block *)
(* in use before a hole of H + n + H offsets could end.                    *)
LEMMA PromiseRefuse ==
    ASSUME PInv, NEW t \in Threads, ThrowBadAlloc(t), NEW n, n = call[t].arg
    PROVE  Promise!Refuse(n)
<1>1. /\ Inside(t, "allocate") /\ loc.it = Null /\ loc.res = Null
      /\ last' = [op |-> "bad_alloc", arg |-> n, at |-> -1]
      /\ heap' = heap
  BY DEF ThrowBadAlloc, Return, Null
<1>2. n \in Requests /\ n \in Nat /\ Space \in Nat /\ H \in Nat \ {0}
  BY <1>1, SortedListAssumption DEF PInv, Asked, Inside
<1>3. \A f \in Fr(heap) : ~ (heap[f].size >= n + H)
  BY <1>1 DEF PInv, SeenAll, Seen, Passed
<1>4. /\ Tiles(heap) /\ Apart(heap) /\ Covered(heap)
      /\ Occupied = DOMAIN heap \ Fr(heap) /\ Fr(heap) \subseteq DOMAIN heap
  BY FreeIsFr DEF PInv, IInv, Memory, Blocks, Fr
<1>5. \A b \in DOMAIN heap : b \in Nat /\ heap[b].size \in Nat /\ Ends(heap, b) = b + H + heap[b].size
  BY <1>4, Lengths DEF Ends
<1>6. ASSUME NEW o \in 0..(Space + H), Promise!Vacant(o, n + 2 * H) PROVE FALSE
  <2>1. /\ o + n + 2 * H <= Space + H
        /\ \A r \in Occupied : Ends(heap, r) <= o \/ o + n + 2 * H <= r
    BY <1>2, <1>6, VacantOffsets
  <2>2. PICK b \in DOMAIN heap : b <= o /\ o < Ends(heap, b)
    BY <1>2, <1>4, <2>1 DEF Covered
  <2>3. b \in Fr(heap)
    BY <1>2, <1>4, <1>5, <2>1, <2>2
  <2>4. o < Ends(heap, b) /\ Ends(heap, b) < o + n + 2 * H
    BY <1>2, <1>3, <1>5, <2>2, <2>3
  <2>5. Ends(heap, b) \in DOMAIN heap
    BY <1>2, <1>4, <1>5, <2>1, <2>4 DEF Tiles
  <2>6. Ends(heap, b) \in Occupied
    BY <1>4, <2>3, <2>5 DEF Apart
  <2>7. PICK e \in Occupied : e = Ends(heap, b)
    BY <2>6
  <2>8. Ends(heap, e) > e /\ e \in Nat /\ Ends(heap, e) \in Nat
    BY <1>4, <2>7, Lengths
  <2> QED BY <1>2, <2>1, <2>4, <2>7, <2>8
<1>7. \A o \in 0..(Space + H) : ~ Promise!Vacant(o, [m \in Requests |-> m + 2 * H][n])
  BY <1>2, <1>6
<1>8. Regions' = Regions
  BY <1>1 DEF Regions, Occupied, Blocks, Next, Size
<1> QED BY <1>1, <1>2, <1>7, <1>8 DEF Promise!Refuse, Regions

(* Only the block the caller names comes back. *)
LEMMA PromiseTakeBack ==
    ASSUME PInv, NEW t \in Threads, FinishDeallocate(t), NEW b, b = call[t].arg
    PROVE  b \in Occupied /\ Promise!TakeBack(b)
<1>1. /\ b \in Occupied /\ Occupied' = Occupied \ {b}
      /\ \A x \in Occupied' : heap'[x] = heap[x]
  BY TakingBackCovers DEF PInv
<1>2. last' = [op |-> "deallocated", arg |-> b, at |-> b]
  BY DEF FinishDeallocate, Return
<1>3. Regions' = [r \in DOMAIN Regions \ {b} |-> Regions[r]]
  <2>1. \A x \in Occupied' : Size(x)' = Size(x)
    BY <1>1 DEF Size
  <2> QED BY <1>1, <2>1 DEF Regions
<1> QED BY <1>1, <1>2, <1>3 DEF Promise!TakeBack, Regions

(* Every step of the allocator is a step of the promise, or none. *)
LEMMA PromiseStep ==
    ASSUME PInv, [NextStep]_vars
    PROVE  [Promise!SpecNext]_(Promise!specVars)
<1>1. UNCHANGED heap => Regions' = Regions
  BY DEF Regions, Occupied, Blocks, Next, Size
<1>2. UNCHANGED <<heap, last>> => UNCHANGED Promise!specVars
  BY <1>1 DEF Promise!specVars, Regions
<1>3. CASE UNCHANGED vars
  BY <1>2, <1>3 DEF vars
<1>4. CASE NextStep
  <2>1. PICK t \in Threads : ThreadCall(t) \/ ThreadEnter(t) \/ ThreadWork(t)
    BY <1>4 DEF NextStep
  <2>2. CASE ThreadCall(t)
    BY <1>2, <2>2 DEF ThreadCall, CallAllocate, CallDeallocate, CallDeallocateForeign,
                      SetFitMode
  <2>3. CASE BeginSearch(t) \/ BeginWalk(t) \/ SearchStep(t) \/ WalkStep(t)
    BY <1>2, <2>3 DEF BeginSearch, BeginWalk, SearchStep, WalkStep
  <2>4. CASE FinishAllocate(t)
    <3>1. PICK n \in Requests : n = call[t].arg
      BY <2>4 DEF FinishAllocate, Inside, PInv, Asked
    <3>2. Promise!Grant(n)
      BY <2>4, <3>1, PromiseGrant
    <3> QED BY <3>2 DEF Promise!SpecNext
  <2>5. CASE ThrowBadAlloc(t)
    <3>1. PICK n \in Requests : n = call[t].arg
      BY <2>5 DEF ThrowBadAlloc, Inside, PInv, Asked
    <3>2. Promise!Refuse(n)
      BY <2>5, <3>1, PromiseRefuse
    <3> QED BY <3>2 DEF Promise!SpecNext
  <2>6. CASE FinishDeallocate(t)
    <3>1. PICK b \in Occupied : b = call[t].arg
      BY <2>6, TakingBack DEF PInv
    <3>2. Promise!TakeBack(b)
      BY <2>6, <3>1, PromiseTakeBack
    <3> QED BY <3>1, <3>2 DEF Promise!SpecNext
  <2>7. CASE RejectForeign(t)
    <3>1. last' = [op |-> "rejected", arg |-> -1, at |-> -1] /\ UNCHANGED heap
      BY <2>7 DEF RejectForeign, Return
    <3>2. Promise!Reject
      BY <1>1, <3>1 DEF Promise!Reject, Regions
    <3> QED BY <3>2 DEF Promise!SpecNext
  <2> QED BY <2>1, <2>2, <2>3, <2>4, <2>5, <2>6, <2>7 DEF ThreadEnter, ThreadWork
<1> QED BY <1>3, <1>4

(* Whatever the threads do, a block is given out of a hole of the area,    *)
(* only the block a caller names comes back, and do_allocate_sm throws     *)
(* bad_alloc only when no hole has room for the request and two headers:   *)
(* the sorted list implements AllocatorSpec.                               *)
THEOREM KeepsPromiseAlways == Spec => KeepsPromise
<1>1. PInv /\ [NextStep]_vars => [Promise!SpecNext]_(Promise!specVars)
  BY PromiseStep
<1> QED BY <1>1, PromiseInit, SearchInvariance, PTL
       DEF Spec, KeepsPromise, Promise!AllocatorPromise
====
