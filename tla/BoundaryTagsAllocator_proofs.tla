---- MODULE BoundaryTagsAllocator_proofs ----
(***************************************************************************)
(* allocator_boundary_tags for every area, header size, set of requests    *)
(* and number of threads: the list of occupied blocks is linked both ways, *)
(* the iterator meets every byte once, the hole chosen is the one the fit  *)
(* mode names, and the allocator keeps the promise of AllocatorSpec.       *)
(*                                                                         *)
(* The facts about memory are stated of the headers h and a first pointer  *)
(* f, so that they can be followed through the stores of one call.         *)
(***************************************************************************)
EXTENDS BoundaryTagsAllocator, TLAPS

Header == [size : Nat, next : Int, prev : Int]
Stops(h) == DOMAIN h \cup {Trusted}
Ends(h, b) == IF b = Trusted THEN 0 ELSE b + H + h[b].size
Succ(h, f, b) == IF b = Trusted THEN f ELSE h[b].next
Limit(n) == IF n = Null THEN Space ELSE n

(* n is the first block behind the stop b and knows it, or nothing is behind b. *)
Follows(h, b, n) ==
    \/ n = Null /\ \A x \in DOMAIN h : x <= b
    \/ n \in DOMAIN h /\ n > b /\ h[n].prev = b /\ \A x \in DOMAIN h : x > b => n <= x

(* p is the last stop before the block b. *)
Precedes(h, p, b) == p \in Stops(h) /\ p < b /\ \A x \in DOMAIN h : x < b => x <= p

(* The blocks lie apart and inside the area. *)
Placed(h) ==
    /\ h \in [DOMAIN h -> Header]
    /\ DOMAIN h \subseteq Nat
    /\ \A b \in DOMAIN h : Ends(h, b) <= Space
    /\ \A a, b \in DOMAIN h : a < b => Ends(h, a) <= b

Linked(h, f) ==
    /\ \A b \in Stops(h) : Follows(h, b, Succ(h, f, b))
    /\ \A b \in DOMAIN h : Precedes(h, h[b].prev, b)

Memory == Placed(heap) /\ Linked(heap, first)

(* The iterator is at a block or at the hole behind a stop, or at the end. *)
AtStop == loc.ptr \in Stops(heap) /\ (loc.ptr = Trusted => ~ loc.occ)
Position == IF loc.occ THEN loc.ptr ELSE EndOf(loc.ptr)
Behind(q) == loc.ptr = Null \/ q < loc.ptr
Cleared(o) == loc.ptr = Null \/ o < Position

FitsIn(q, n) == HoleAfter(q) >= n + H

(* Room for a region of len bytes at o: Promise!Vacant in terms of the blocks *)
Room(o, len) == o + len <= Space /\ \A x \in Blocks : End(x) <= o \/ o + len <= x

(* What the search has found among the holes behind it, and at which       *)
(* offsets it has found no room.                                           *)
Searching(n) ==
    /\ loc.ptr # Null => AtStop
    /\ loc.res = Null =>
          /\ loc.best = 0
          /\ \A q \in Stops(heap) : Behind(q) => ~ FitsIn(q, n)
          /\ \A o \in Nat : Cleared(o) => ~ Room(o, n + H)
    /\ loc.res # Null =>
          /\ loc.res \in Stops(heap)
          /\ Behind(loc.res)
          /\ loc.best = HoleAfter(loc.res)
          /\ FitsIn(loc.res, n)
          /\ \A q \in Stops(heap) : Behind(q) /\ FitsIn(q, n) => AsGood(loc.res, q)
          /\ fit_mode = "first_fit" => loc.ptr = Null

(* What get_blocks_info has added up. *)
Summing ==
    /\ loc.ptr # Null => AtStop /\ loc.sum = Position
    /\ loc.ptr = Null => loc.sum = Space

Asked == \A t \in Threads : call[t].op = "allocate" => call[t].arg \in Requests

Busy == mutex # Nobody => call[mutex].op \in {"allocate", "info"}

IInv ==
    /\ TypeOK
    /\ Memory
    /\ Asked
    /\ Busy
    /\ \A t \in Threads : Inside(t, "allocate") => Searching(call[t].arg)
    /\ \A t \in Threads : Inside(t, "info") => Summing

-----------------------------------------------------------------------------
(* The numbers are what they look like. *)
LEMMA Numbers ==
    /\ H \in Nat /\ H > 0 /\ Space \in Nat /\ Space >= H
    /\ Null = -1 /\ Trusted = -2
    /\ Requests \subseteq Nat /\ Nobody \notin Threads
BY BoundaryTagsAssumption DEF Null, Trusted

(* Every stop has an end, and what follows it lies behind that. *)
LEMMA StopFacts ==
    ASSUME NEW h, NEW f, Placed(h), Linked(h, f), NEW b \in Stops(h)
    PROVE  /\ b \in Int /\ b >= -2 /\ b # Null
           /\ Ends(h, b) \in Nat /\ Ends(h, b) > b /\ Ends(h, b) <= Space
           /\ b # Trusted => b \in DOMAIN h /\ b \in Nat /\ h[b].size \in Nat
           /\ Succ(h, f, b) \in DOMAIN h \cup {Null}
           /\ Succ(h, f, b) \in Int
           /\ Limit(Succ(h, f, b)) >= Ends(h, b)
           /\ Limit(Succ(h, f, b)) \in Nat
           /\ Limit(Succ(h, f, b)) <= Space
<1>1. /\ b \in Int /\ b >= -2 /\ b # Null
      /\ b # Trusted => b \in DOMAIN h /\ b \in Nat /\ h[b].size \in Nat
  BY Numbers DEF Stops, Placed, Header
<1>2. Ends(h, b) \in Nat /\ Ends(h, b) > b /\ Ends(h, b) <= Space
  BY <1>1, Numbers DEF Ends, Placed
<1> DEFINE n == Succ(h, f, b)
<1>3. Follows(h, b, n)
  BY DEF Linked
<1>4. CASE n = Null
  BY <1>1, <1>2, <1>4, Numbers DEF Limit
<1>5. CASE n # Null
  <2>1. n \in DOMAIN h /\ n > b /\ n \in Nat
    BY <1>3, <1>5 DEF Follows, Placed
  <2>2. Ends(h, b) <= n
    <3>1. CASE b = Trusted
      BY <2>1, <3>1 DEF Ends
    <3>2. CASE b # Trusted
      BY <1>1, <2>1, <3>2 DEF Placed
    <3> QED BY <3>1, <3>2
  <2>3. n <= Space
    BY <2>1, Numbers DEF Placed, Ends, Header
  <2> QED BY <1>1, <1>2, <1>5, <2>1, <2>2, <2>3 DEF Limit
<1> QED BY <1>4, <1>5

-----------------------------------------------------------------------------
(* The headers g after a block of the given size has been put at the end of *)
(* the stop p, before its old successor.                                    *)
IsInserted(h, f, p, size, g) ==
    LET b == Ends(h, p)
        s == Succ(h, f, p)
    IN  /\ DOMAIN g = DOMAIN h \cup {b}
        /\ g[b] = [size |-> size, next |-> s, prev |-> p]
        /\ \A x \in DOMAIN h :
              g[x] = [size |-> h[x].size,
                      next |-> IF x = p THEN b ELSE h[x].next,
                      prev |-> IF x = s THEN b ELSE h[x].prev]

(* do_allocate_sm leaves the list linked and the blocks apart. *)
LEMMA Inserting ==
    ASSUME NEW h, NEW f, Placed(h), Linked(h, f), NEW p \in Stops(h),
           NEW size \in Nat, Ends(h, p) + H + size <= Limit(Succ(h, f, p)),
           NEW g, g \in [DOMAIN g -> Header], IsInserted(h, f, p, size, g)
    PROVE  /\ Placed(g)
           /\ Linked(g, IF p = Trusted THEN Ends(h, p) ELSE f)
           /\ Ends(h, p) \notin DOMAIN h
<1> DEFINE b == Ends(h, p)
           s == Succ(h, f, p)
           e == IF p = Trusted THEN b ELSE f
<1>1. /\ b \in Nat /\ b > p /\ p \in Int /\ p >= -2 /\ p # Null
      /\ s \in DOMAIN h \cup {Null} /\ s \in Int
      /\ Limit(s) \in Nat /\ Limit(s) <= Space
      /\ b + H + size <= Limit(s)
  BY StopFacts
<1>2. /\ DOMAIN h \subseteq Nat
      /\ \A x \in DOMAIN h : h[x].size \in Nat /\ h[x].next \in Int /\ h[x].prev \in Int
  BY DEF Placed, Header
<1>3. Follows(h, p, s)
  BY DEF Linked
<1>4. \A x \in DOMAIN h : x > p => x >= Limit(s) /\ x > b /\ s # Null /\ s <= x
  BY <1>1, <1>2, <1>3, Numbers DEF Follows, Limit
<1>5. /\ \A x \in DOMAIN h : x <= p \/ x > b
      /\ s # Null => s \in DOMAIN h /\ s > p /\ s > b /\ h[s].prev = p
  <2>1. \A x \in DOMAIN h : x <= p \/ x > b
    BY <1>1, <1>2, <1>4
  <2>2. s # Null => s \in DOMAIN h /\ s > p /\ h[s].prev = p
    BY <1>3 DEF Follows
  <2> QED BY <1>4, <2>1, <2>2
<1>6. \A x \in DOMAIN h : x # b
  BY <1>1, <1>2, <1>5
<1>7. /\ DOMAIN g = DOMAIN h \cup {b}
      /\ g[b].size = size /\ g[b].next = s /\ g[b].prev = p
      /\ \A x \in DOMAIN h : /\ g[x].size = h[x].size
                             /\ g[x].next = IF x = p THEN b ELSE h[x].next
                             /\ g[x].prev = IF x = s THEN b ELSE h[x].prev
  BY DEF IsInserted
<1>8. Trusted \notin DOMAIN h /\ b # Trusted /\ Null \notin DOMAIN h /\ b # Null
  BY <1>1, <1>2, Numbers
<1>9. /\ Ends(g, b) = b + H + size
      /\ \A x \in DOMAIN h : Ends(g, x) = Ends(h, x)
  BY <1>7, <1>8 DEF Ends
<1>10. Placed(g)
  <2>1. DOMAIN g \subseteq Nat
    BY <1>1, <1>2, <1>7
  <2>2. \A x \in DOMAIN g : Ends(g, x) <= Space
    <3>1. Ends(g, b) <= Space
      BY <1>1, <1>9, Numbers
    <3> QED BY <1>7, <1>9, <3>1 DEF Placed
  <2>3. ASSUME NEW x \in DOMAIN g, NEW y \in DOMAIN g, x < y PROVE Ends(g, x) <= y
    <3>1. CASE x # b /\ y # b
      BY <1>7, <1>9, <2>3, <3>1 DEF Placed
    <3>2. CASE x = b
      <4>1. y \in DOMAIN h /\ y > p
        BY <1>1, <1>2, <1>7, <2>3, <3>2
      <4> QED BY <1>1, <1>2, <1>4, <1>9, <3>2, <4>1, Numbers
    <3>3. CASE y = b /\ x # b
      <4>1. x \in DOMAIN h /\ x <= p /\ p # Trusted
        BY <1>1, <1>2, <1>5, <1>7, <2>3, <3>3, Numbers
      <4>2. p \in DOMAIN h
        BY <4>1 DEF Stops
      <4>3. CASE x = p
        BY <1>1, <1>9, <3>3, <4>1, <4>3
      <4>4. CASE x # p
        <5>1. Ends(h, x) <= p /\ Ends(h, x) \in Int
          BY <1>1, <1>2, <4>1, <4>2, <4>4, Numbers DEF Placed, Ends
        <5> QED BY <1>1, <1>9, <3>3, <4>1, <5>1
      <4> QED BY <4>3, <4>4
    <3> QED BY <3>1, <3>2, <3>3
  <2> QED BY <2>1, <2>2, <2>3 DEF Placed
<1>11. \A x \in Stops(h) : x # p => Succ(g, e, x) = Succ(h, f, x)
  BY <1>6, <1>7, <1>8 DEF Succ, Stops
<1>12. Succ(g, e, p) = b /\ Succ(g, e, b) = s
  BY <1>6, <1>7, <1>8 DEF Succ, Stops
<1>13. ASSUME NEW x \in Stops(g) PROVE Follows(g, x, Succ(g, e, x))
  <2>1. CASE x = p
    BY <1>1, <1>2, <1>5, <1>7, <1>12, <2>1 DEF Follows
  <2>2. CASE x = b
    <3>1. CASE s = Null
      BY <1>1, <1>2, <1>4, <1>5, <1>7, <1>12, <2>2, <3>1 DEF Follows
    <3>2. CASE s # Null
      <4>1. s \in DOMAIN h /\ s > b
        BY <1>1, <1>2, <1>3, <1>4, <3>2 DEF Follows
      <4> QED BY <1>1, <1>2, <1>4, <1>5, <1>7, <1>12, <2>2, <4>1 DEF Follows
    <3> QED BY <3>1, <3>2
  <2>3. CASE x # p /\ x # b
    <3>1. x \in Stops(h) /\ x \in Int
      BY <1>2, <1>7, <2>3, Numbers DEF Stops
    <3>2. Follows(h, x, Succ(h, f, x)) /\ Succ(g, e, x) = Succ(h, f, x)
      BY <1>11, <2>3, <3>1 DEF Linked
    <3> DEFINE n == Succ(h, f, x)
    <3>3. CASE n = Null
      <4>1. \A y \in DOMAIN h : y <= x
        BY <3>2, <3>3, <1>8 DEF Follows
      <4>2. x \in DOMAIN h /\ x > p
        BY <1>1, <1>2, <2>3, <3>1, <4>1, Numbers DEF Stops
      <4>3. x \in DOMAIN h /\ x > b
        BY <1>1, <1>2, <1>5, <4>2
      <4> QED BY <1>1, <1>2, <1>7, <3>2, <3>3, <4>1, <4>3 DEF Follows
    <3>4. CASE n # Null
      <4>1. n \in DOMAIN h /\ n > x /\ h[n].prev = x /\ \A y \in DOMAIN h : y > x => n <= y
        BY <3>2, <3>4 DEF Follows
      <4>2. n # s
        BY <1>3, <2>3, <4>1, <3>4 DEF Follows
      <4>3. g[n].prev = x
        BY <1>7, <4>1, <4>2
      <4>4. b > x => n <= b
        <5>1. SUFFICES ASSUME b > x, n > b PROVE FALSE
          BY <1>1, <1>2, <4>1
        <5>2. x <= p
          BY <1>1, <1>2, <1>5, <3>1, <5>1, Numbers DEF Stops
        <5>3. p > x
          BY <1>1, <2>3, <3>1, <5>2
        <5>4. p \in DOMAIN h
          BY <1>1, <3>1, <5>3, <1>2, Numbers DEF Stops
        <5> QED BY <1>1, <1>2, <4>1, <5>1, <5>3, <5>4
      <4> QED BY <1>7, <3>2, <4>1, <4>3, <4>4 DEF Follows
    <3> QED BY <3>3, <3>4
  <2> QED BY <2>1, <2>2, <2>3
<1>14. ASSUME NEW x \in DOMAIN g PROVE Precedes(g, g[x].prev, x)
  <2>1. CASE x = b
    BY <1>1, <1>2, <1>5, <1>7, <2>1 DEF Precedes, Stops
  <2>2. CASE x = s /\ x # b
    <3>1. x \in DOMAIN h /\ x > p /\ \A y \in DOMAIN h : y > p => x <= y
      BY <1>1, <1>3, <1>7, <1>8, <2>2 DEF Follows
    <3>2. b < x
      BY <1>1, <1>4, <3>1
    <3> QED BY <1>1, <1>2, <1>5, <1>7, <2>2, <3>1, <3>2 DEF Precedes, Stops
  <2>3. CASE x # s /\ x # b
    <3>1. /\ x \in DOMAIN h /\ g[x].prev = h[x].prev
          /\ Precedes(h, h[x].prev, x)
      BY <1>7, <2>3 DEF Linked
    <3>2. b < x => b <= h[x].prev
      <4>1. SUFFICES ASSUME b < x PROVE b <= h[x].prev
        OBVIOUS
      <4>2. s \in DOMAIN h /\ s < x
        BY <1>1, <1>2, <1>4, <2>3, <3>1, <4>1
      <4>3. s <= h[x].prev /\ b < s
        <5>1. s # Null /\ s > b
          BY <1>5, <1>8, <4>2
        <5> QED BY <3>1, <4>2, <5>1 DEF Precedes
      <4> QED BY <1>1, <1>2, <3>1, <4>2, <4>3
    <3> QED BY <1>7, <3>1, <3>2 DEF Precedes, Stops
  <2> QED BY <2>1, <2>2, <2>3
<1>15. Linked(g, e)
  BY <1>13, <1>14 DEF Linked
<1> QED BY <1>6, <1>10, <1>15

(* The headers g after the block b has been taken out of the list. *)
IsRemoved(h, b, g) ==
    /\ DOMAIN g = DOMAIN h \ {b}
    /\ \A x \in DOMAIN h \ {b} :
          g[x] = [size |-> h[x].size,
                  next |-> IF x = h[b].prev THEN h[b].next ELSE h[x].next,
                  prev |-> IF x = h[b].next THEN h[b].prev ELSE h[x].prev]

(* do_deallocate_sm leaves the list linked and the blocks apart. *)
LEMMA Removing ==
    ASSUME NEW h, NEW f, Placed(h), Linked(h, f), NEW b \in DOMAIN h,
           NEW g, g \in [DOMAIN g -> Header], IsRemoved(h, b, g)
    PROVE  /\ Placed(g)
           /\ Linked(g, IF h[b].prev = Trusted THEN h[b].next ELSE f)
<1> DEFINE p == h[b].prev
           s == h[b].next
           e == IF p = Trusted THEN s ELSE f
<1>1. /\ DOMAIN h \subseteq Nat
      /\ \A x \in DOMAIN h : h[x].size \in Nat /\ h[x].next \in Int /\ h[x].prev \in Int
      /\ Trusted \notin DOMAIN h /\ Null \notin DOMAIN h
  BY Numbers DEF Placed, Header
<1>2. /\ p \in Stops(h) /\ p \in Int /\ p < b /\ p # b
      /\ \A x \in DOMAIN h : x < b => x <= p
  BY <1>1 DEF Linked, Precedes
<1>3. Follows(h, b, s)
  BY <1>1 DEF Linked, Stops, Succ
<1>4. s # Null => s \in DOMAIN h /\ s > b /\ \A x \in DOMAIN h : x > b => s <= x
  BY <1>3 DEF Follows
<1>5. s = Null => \A x \in DOMAIN h : x <= b
  BY <1>1, <1>3 DEF Follows
<1>6. /\ DOMAIN g = DOMAIN h \ {b}
      /\ \A x \in DOMAIN g : /\ g[x].size = h[x].size
                             /\ g[x].next = IF x = p THEN s ELSE h[x].next
                             /\ g[x].prev = IF x = s THEN p ELSE h[x].prev
  BY DEF IsRemoved
<1>7. Placed(g)
  <2>1. \A x \in DOMAIN g : Ends(g, x) = Ends(h, x)
    BY <1>6 DEF Ends
  <2> QED BY <1>6, <2>1 DEF Placed
<1>8. Stops(g) = Stops(h) \ {b} /\ p \in Stops(g) /\ Stops(h) \subseteq Int
  BY <1>1, <1>2, <1>6, Numbers DEF Stops
<1>9. /\ \A x \in Stops(g) : x # p => Succ(g, e, x) = Succ(h, f, x)
      /\ Succ(g, e, p) = s
  BY <1>1, <1>2, <1>6, <1>8 DEF Succ, Stops
<1>10. ASSUME NEW x \in Stops(g) PROVE Follows(g, x, Succ(g, e, x))
  <2>1. CASE x = p
    <3>1. CASE s = Null
      BY <1>1, <1>2, <1>5, <1>6, <1>9, <2>1, <3>1 DEF Follows
    <3>2. CASE s # Null
      <4>1. g[s].prev = p /\ s \in DOMAIN g /\ s > p
        BY <1>1, <1>2, <1>4, <1>6, <3>2
      <4>2. \A y \in DOMAIN g : y > p => s <= y
        BY <1>1, <1>2, <1>4, <1>6, <3>2
      <4> QED BY <1>9, <2>1, <4>1, <4>2 DEF Follows
    <3> QED BY <3>1, <3>2
  <2>2. CASE x # p
    <3> DEFINE n == Succ(h, f, x)
    <3>1. Follows(h, x, n) /\ Succ(g, e, x) = n /\ x \in Int /\ x # b
      BY <1>8, <1>9, <2>2 DEF Linked
    <3>2. CASE n = Null
      BY <1>1, <1>6, <3>1, <3>2 DEF Follows
    <3>3. CASE n # Null
      <4>1. n \in DOMAIN h /\ n > x /\ h[n].prev = x /\ \A y \in DOMAIN h : y > x => n <= y
        BY <3>1, <3>3 DEF Follows
      <4>2. n # b
        BY <2>2, <4>1
      <4>3. n # s
        <5>1. SUFFICES ASSUME n = s PROVE FALSE
          OBVIOUS
        <5>2. h[s].prev = b
          BY <1>3, <3>3, <5>1 DEF Follows
        <5> QED BY <3>1, <4>1, <5>1, <5>2
      <4> QED BY <1>6, <3>1, <4>1, <4>2, <4>3 DEF Follows
    <3> QED BY <3>2, <3>3
  <2> QED BY <2>1, <2>2
<1>11. ASSUME NEW x \in DOMAIN g PROVE Precedes(g, g[x].prev, x)
  <2>1. x \in DOMAIN h /\ x # b /\ x \in Nat /\ Precedes(h, h[x].prev, x)
    BY <1>1, <1>6 DEF Linked
  <2>2. CASE x = s
    <3>1. g[x].prev = p /\ p < x
      BY <1>1, <1>2, <1>4, <1>6, <2>1, <2>2
    <3>2. \A y \in DOMAIN g : y < x => y <= p
      BY <1>1, <1>2, <1>4, <1>6, <2>1, <2>2
    <3> QED BY <1>8, <3>1, <3>2 DEF Precedes
  <2>3. CASE x # s
    <3>1. h[x].prev # b
      <4>1. SUFFICES ASSUME h[x].prev = b PROVE FALSE
        OBVIOUS
      <4>2. x > b /\ \A y \in DOMAIN h : y < x => y <= b
        BY <1>1, <2>1, <4>1 DEF Precedes
      <4> QED BY <1>1, <1>4, <1>5, <2>1, <2>3, <4>2
    <3>2. g[x].prev = h[x].prev /\ h[x].prev \in Stops(g)
      BY <1>6, <1>8, <2>1, <2>3, <3>1 DEF Precedes
    <3> QED BY <1>6, <2>1, <3>2 DEF Precedes
  <2> QED BY <2>2, <2>3
<1> QED BY <1>7, <1>10, <1>11 DEF Linked

-----------------------------------------------------------------------------
(* The same in the state: a stop, the hole behind it and the next block. *)
LEMMA Stopping ==
    ASSUME Memory, NEW b \in Stops(heap)
    PROVE  /\ b \in Int /\ b >= -2 /\ b # Null
           /\ b # Trusted => /\ b \in Blocks /\ b \in Nat /\ heap[b].size \in Nat
                            /\ End(b) = EndOf(b) /\ EndOf(b) = b + H + heap[b].size
           /\ EndOf(b) \in Nat /\ EndOf(b) > b /\ EndOf(b) <= Space
           /\ EndOf(b) = Ends(heap, b) /\ NextOf(b) = Succ(heap, first, b)
           /\ NextOf(b) \in Blocks \cup {Null}
           /\ HoleAfter(b) \in Nat /\ HoleAfter(b) <= Space
           /\ EndOf(b) + HoleAfter(b) = Limit(NextOf(b))
           /\ NextOf(b) # Null => NextOf(b) \in Nat /\ NextOf(b) > b
           /\ \A x \in Blocks : x > b => NextOf(b) # Null /\ NextOf(b) <= x
<1>1. Placed(heap) /\ Linked(heap, first)
  BY DEF Memory
<1>2. EndOf(b) = Ends(heap, b) /\ NextOf(b) = Succ(heap, first, b)
  BY DEF EndOf, Ends, End, NextOf, Succ
<1>3. HoleAfter(b) = Limit(NextOf(b)) - EndOf(b)
  BY DEF HoleAfter, Limit
<1>4. /\ b \in Int /\ b >= -2 /\ b # Null
      /\ b # Trusted => b \in Blocks /\ b \in Nat /\ heap[b].size \in Nat
      /\ EndOf(b) \in Nat /\ EndOf(b) > b /\ EndOf(b) <= Space
      /\ NextOf(b) \in Blocks \cup {Null}
      /\ Limit(NextOf(b)) >= EndOf(b) /\ Limit(NextOf(b)) \in Nat /\ Limit(NextOf(b)) <= Space
  BY <1>1, <1>2, StopFacts DEF Blocks
<1>5. b # Trusted => End(b) = EndOf(b) /\ EndOf(b) = b + H + heap[b].size
  BY DEF End, EndOf
<1>6. Follows(heap, b, NextOf(b))
  BY <1>1, <1>2 DEF Linked
<1>7. /\ NextOf(b) # Null => NextOf(b) \in Nat /\ NextOf(b) > b
      /\ \A x \in Blocks : x > b => NextOf(b) # Null /\ NextOf(b) <= x
  <2>1. DOMAIN heap \subseteq Nat
    BY <1>1 DEF Placed
  <2>2. CASE NextOf(b) = Null
    BY <1>4, <1>6, <2>1, <2>2, Numbers DEF Follows, Blocks
  <2>3. CASE NextOf(b) # Null
    BY <1>6, <2>1, <2>3 DEF Follows, Blocks
  <2> QED BY <2>2, <2>3
<1>8. /\ HoleAfter(b) \in Nat /\ HoleAfter(b) <= Space
      /\ EndOf(b) + HoleAfter(b) = Limit(NextOf(b))
  BY <1>3, <1>4, Numbers
<1> QED BY <1>2, <1>4, <1>5, <1>7, <1>8

Locs == [ptr : Int, occ : BOOLEAN, res : Int, best : Nat, sum : Nat]
PositionOf(m) == IF m.ptr = Null THEN Space ELSE IF m.occ THEN m.ptr ELSE EndOf(m.ptr)

(* operator++ goes on by the size of what it leaves, and leaves out at      *)
(* most a hole of no bytes.                                                 *)
LEMMA Advancing ==
    ASSUME Memory, loc \in Locs, loc.ptr # Null, AtStop,
           NEW l \in Locs, l.ptr = loc.ptr, l.occ = loc.occ,
           NEW m, m = Advance(l)
    PROVE  /\ m \in Locs /\ m.res = l.res /\ m.best = l.best /\ m.sum = l.sum
           /\ m.ptr # Null => m.ptr \in Stops(heap) /\ (m.ptr = Trusted => ~ m.occ)
           /\ IterSize \in Nat /\ PositionOf(m) = Position + IterSize
           /\ Position \in Nat
           /\ m.ptr = Null \/ m.ptr >= loc.ptr
           /\ ~ loc.occ => IterSize = HoleAfter(loc.ptr) /\ (m.ptr = Null \/ m.ptr > loc.ptr)
           /\ \A q \in Stops(heap) : m.ptr = Null \/ q < m.ptr =>
                 \/ Behind(q)
                 \/ q = loc.ptr /\ (loc.occ => HoleAfter(q) = 0)
<1> DEFINE p == loc.ptr
           n == NextOf(p)
           tight == End(p) = n \/ (n = Null /\ End(p) = Space)
<1>1. p \in Stops(heap) /\ (p = Trusted => ~ loc.occ) /\ loc.occ \in BOOLEAN
  BY DEF AtStop, Locs
<1>2. /\ p \in Int /\ p >= -2 /\ p # Null
      /\ p # Trusted => /\ p \in Blocks /\ p \in Nat /\ heap[p].size \in Nat
                       /\ End(p) = EndOf(p) /\ EndOf(p) = p + H + heap[p].size
      /\ EndOf(p) \in Nat /\ EndOf(p) > p /\ EndOf(p) <= Space
      /\ n \in Blocks \cup {Null}
      /\ HoleAfter(p) \in Nat
      /\ EndOf(p) + HoleAfter(p) = Limit(n)
      /\ n # Null => n \in Nat /\ n > p
      /\ \A x \in Blocks : x > p => n # Null /\ n <= x
  BY <1>1, Stopping
<1>3. \A q \in Stops(heap) : q \in Int /\ (q > p => q \in Blocks)
  <2>1. \A q \in Stops(heap) : q \in Int
    BY Stopping
  <2> QED BY <1>2, <2>1, Numbers DEF Stops, Blocks
<1>4. Trusted \notin Blocks
  BY Numbers DEF Memory, Placed, Blocks
<1>5. CASE ~ loc.occ \/ tight
  <2>1. m = [l EXCEPT !.occ = TRUE, !.ptr = n]
    BY <1>5 DEF Advance
  <2>2. /\ m.ptr = n /\ m.occ = TRUE /\ m.res = l.res /\ m.best = l.best /\ m.sum = l.sum
        /\ m \in Locs
    <3>1. l = [ptr |-> l.ptr, occ |-> l.occ, res |-> l.res, best |-> l.best, sum |-> l.sum]
      BY DEF Locs
    <3>2. m = [ptr |-> n, occ |-> TRUE, res |-> l.res, best |-> l.best, sum |-> l.sum]
      BY <2>1, <3>1
    <3>3. n \in Int
      BY <1>2, Numbers
    <3> QED BY <3>2, <3>3 DEF Locs
  <2>3. loc.occ => HoleAfter(p) = 0 /\ p # Trusted
    BY <1>1, <1>2, <1>5, Numbers DEF Limit
  <2>4. IterSize \in Nat /\ Position \in Nat /\ PositionOf(m) = Position + IterSize
    <3>1. CASE loc.occ
      BY <1>2, <2>2, <2>3, <3>1, Numbers DEF IterSize, Position, PositionOf, Limit
    <3>2. CASE ~ loc.occ
      BY <1>2, <2>2, <3>2, Numbers DEF IterSize, Position, PositionOf, Limit
    <3> QED BY <1>1, <3>1, <3>2
  <2>5. m.ptr # Null => m.ptr \in Stops(heap) /\ (m.ptr = Trusted => ~ m.occ)
    BY <1>2, <1>4, <2>2 DEF Stops, Blocks
  <2>6. m.ptr = Null \/ m.ptr > p
    BY <1>2, <2>2
  <2>7. ASSUME NEW q \in Stops(heap), m.ptr = Null \/ q < m.ptr
        PROVE  Behind(q) \/ (q = p /\ (loc.occ => HoleAfter(q) = 0))
    <3>1. ~ (q > p)
      BY <1>2, <1>3, <2>2, <2>7
    <3> QED BY <1>2, <1>3, <2>3, <3>1 DEF Behind
  <2>8. ~ loc.occ => IterSize = HoleAfter(p)
    BY DEF IterSize
  <2> QED BY <1>2, <2>2, <2>4, <2>5, <2>6, <2>7, <2>8
<1>6. CASE loc.occ /\ ~ tight
  <2>1. m = [l EXCEPT !.occ = FALSE]
    BY <1>6 DEF Advance
  <2>2. /\ m.ptr = p /\ m.occ = FALSE /\ m.res = l.res /\ m.best = l.best /\ m.sum = l.sum
        /\ m \in Locs
    BY <2>1 DEF Locs
  <2>3. IterSize \in Nat /\ Position \in Nat /\ PositionOf(m) = Position + IterSize
    BY <1>1, <1>2, <1>6, <2>2, Numbers DEF IterSize, Position, PositionOf
  <2> QED BY <1>1, <1>2, <1>3, <1>6, <2>2, <2>3 DEF Behind
<1> QED BY <1>1, <1>5, <1>6

(* Where the iterator has gone by there is room for a region only in a hole. *)
LEMMA RoomInHole ==
    ASSUME Memory, loc.ptr # Null, AtStop, loc.occ \in BOOLEAN,
           NEW n \in Nat, NEW o \in Nat, Room(o, n + H), ~ Cleared(o),
           o < Position + IterSize \/ Position + IterSize = Space
    PROVE  ~ loc.occ /\ FitsIn(loc.ptr, n)
<1> DEFINE p == loc.ptr
<1>1. p \in Stops(heap) /\ (p = Trusted => ~ loc.occ)
  BY DEF AtStop
<1>2. /\ p \in Int /\ p # Null
      /\ p # Trusted => /\ p \in Blocks /\ p \in Nat /\ heap[p].size \in Nat
                       /\ End(p) = EndOf(p) /\ EndOf(p) = p + H + heap[p].size
      /\ EndOf(p) \in Nat /\ NextOf(p) \in Blocks \cup {Null} /\ HoleAfter(p) \in Nat
      /\ EndOf(p) + HoleAfter(p) = Limit(NextOf(p))
      /\ NextOf(p) # Null => NextOf(p) \in Nat
  BY <1>1, Stopping
<1>3. o >= Position /\ o + n + H <= Space /\ \A x \in Blocks : End(x) <= o \/ o + n + H <= x
  <2>1. Position \in Int
    BY <1>1, <1>2 DEF Position
  <2> QED BY <2>1, Numbers DEF Cleared, Room
<1>4. ~ loc.occ
  <2>1. SUFFICES ASSUME loc.occ PROVE FALSE
    OBVIOUS
  <2>2. p # Trusted /\ Position = p /\ IterSize = H + heap[p].size
    BY <1>1, <2>1 DEF Position, IterSize
  <2>3. Position + IterSize = End(p) /\ End(p) \in Nat
    BY <1>2, <2>2, Numbers
  <2> QED BY <1>2, <1>3, <2>2, <2>3, Numbers
<1>5. Position = EndOf(p) /\ IterSize = HoleAfter(p)
  BY <1>4 DEF Position, IterSize
<1>6. CASE NextOf(p) = Null
  BY <1>2, <1>3, <1>4, <1>5, <1>6, Numbers DEF FitsIn, Limit
<1>7. CASE NextOf(p) # Null
  <2> DEFINE s == NextOf(p)
  <2>1. s \in Blocks /\ s \in Nat /\ s = EndOf(p) + HoleAfter(p)
    BY <1>2, <1>7 DEF Limit
  <2>2. End(s) \in Nat /\ End(s) > s /\ End(s) <= Space
    <3>1. s \in Stops(heap) /\ s # Trusted
      BY <2>1, Numbers DEF Stops, Blocks
    <3> QED BY <3>1, Stopping
  <2>3. o < s
    BY <1>5, <2>1, <2>2, Numbers
  <2>4. o + n + H <= s
    BY <1>3, <2>1, <2>2, <2>3
  <2> QED BY <1>2, <1>3, <1>4, <1>5, <2>1, <2>4, Numbers DEF FitsIn
<1> QED BY <1>6, <1>7

-----------------------------------------------------------------------------
LEMMA InitOK == Init => IInv
<1> SUFFICES ASSUME Init PROVE IInv
  OBVIOUS
<1> USE DEF Init
<1>1. DOMAIN heap = {} /\ Blocks = {} /\ Stops(heap) = {Trusted}
  BY DEF Blocks, Stops
<1>2. TypeOK
  BY <1>1, Numbers DEF TypeOK, Idle, NoLocals
<1>3. Memory
  <2>1. Follows(heap, Trusted, Succ(heap, first, Trusted))
    BY <1>1 DEF Follows, Succ
  <2> QED BY <1>1, <2>1 DEF Memory, Placed, Linked
<1>4. Asked /\ Busy /\ \A t \in Threads : ~ Inside(t, "allocate") /\ ~ Inside(t, "info")
  BY Numbers DEF Asked, Busy, Inside, Idle
<1> QED BY <1>2, <1>3, <1>4 DEF IInv

(* What is said of the memory stays when it does. *)
LEMMA SameMemory ==
    ASSUME UNCHANGED <<heap, first, fit_mode>>
    PROVE  /\ Stops(heap)' = Stops(heap) /\ fit_mode' = fit_mode
           /\ \A q : HoleAfter(q)' = HoleAfter(q) /\ EndOf(q)' = EndOf(q)
           /\ \A q, n : FitsIn(q, n)' = FitsIn(q, n) /\ Room(q, n)' = Room(q, n)
           /\ \A q, n : AsGood(q, n)' = AsGood(q, n)
           /\ Memory => Memory'
<1>1. heap' = heap /\ first' = first /\ fit_mode' = fit_mode
  OBVIOUS
<1>2. \A q : /\ NextOf(q)' = NextOf(q) /\ End(q)' = End(q) /\ EndOf(q)' = EndOf(q)
             /\ HoleAfter(q)' = HoleAfter(q)
  BY <1>1 DEF NextOf, End, EndOf, HoleAfter
<1>3. Blocks' = Blocks /\ Stops(heap)' = Stops(heap)
  BY <1>1, <1>2 DEF Blocks, Stops
<1>4. \A q, n : FitsIn(q, n)' = FitsIn(q, n) /\ Room(q, n)' = Room(q, n)
  BY <1>2, <1>3 DEF FitsIn, Room
<1>5. \A q, n : AsGood(q, n)' = AsGood(q, n)
  BY <1>1, <1>2 DEF AsGood
<1>6. Memory => Memory'
  BY <1>1 DEF Memory
<1> QED BY <1>1, <1>2, <1>3, <1>4, <1>5, <1>6

(* A step that leaves the memory, the mode and the locals alone, and only   *)
(* changes calls outside the mutex.                                         *)
LEMMA CallsOutside ==
    ASSUME IInv, TypeOK', Asked', Busy',
           UNCHANGED <<heap, first, fit_mode, mutex, loc>>,
           \A t \in Threads : t = mutex => call'[t] = call[t]
    PROVE  IInv'
<1>1. Memory'
  BY DEF IInv, Memory
<1>2. ASSUME NEW t \in Threads, Inside(t, "allocate")' PROVE Searching(call[t].arg)'
  <2>1. call'[t] = call[t] /\ Inside(t, "allocate")
    BY <1>2 DEF Inside
  <2>2. Searching(call[t].arg)
    BY <2>1 DEF IInv
  <2> QED BY <2>1, <2>2, SameMemory DEF Searching, AtStop, Behind, Cleared, Position
<1>3. ASSUME NEW t \in Threads, Inside(t, "info")' PROVE Summing'
  <2>1. call'[t] = call[t] /\ Inside(t, "info")
    BY <1>3 DEF Inside
  <2>2. Summing
    BY <2>1 DEF IInv
  <2> QED BY <2>2 DEF Summing, AtStop, Position, EndOf, End, Stops, Blocks
<1> QED BY <1>1, <1>2, <1>3 DEF IInv

(* A step that ends a call: nobody is inside afterwards. *)
LEMMA CallsDone ==
    ASSUME IInv, NEW t \in Threads, NEW r, Return(t, r), TypeOK', Memory'
    PROVE  IInv'
<1>1. call \in [Threads -> [op : {"idle", "allocate", "deallocate", "info"}, arg : Int]]
  BY DEF IInv, TypeOK
<1>2. Asked'
  BY <1>1 DEF Asked, Return, Idle, IInv
<1>3. mutex' = Nobody
  BY DEF Return
<1>4. Busy' /\ \A u \in Threads : ~ Inside(u, "allocate")' /\ ~ Inside(u, "info")'
  BY <1>3, Numbers DEF Busy, Inside
<1> QED BY <1>2, <1>4 DEF IInv

(* The first position: nothing is behind it that could be given out. *)
LEMMA Beginning ==
    ASSUME Memory, NEW m, m = Begin
    PROVE  /\ m \in Locs /\ m.res = Null /\ m.best = 0 /\ m.sum = 0 /\ m.ptr # Null
           /\ m.ptr \in Stops(heap) /\ (m.ptr = Trusted => ~ m.occ)
           /\ PositionOf(m) = 0
           /\ \A q \in Stops(heap) : q < m.ptr => HoleAfter(q) = 0
<1>1. Follows(heap, Trusted, first)
  BY DEF Memory, Linked, Stops, Succ
<1>2. CASE first = 0
  <2>1. m = [ptr |-> 0, occ |-> TRUE, res |-> Null, best |-> 0, sum |-> 0]
    BY <1>2 DEF Begin, NoLocals
  <2>2. 0 \in Blocks
    BY <1>1, <1>2, Numbers DEF Follows, Blocks
  <2>3. HoleAfter(Trusted) = 0
    BY <1>2, Numbers DEF HoleAfter, NextOf, EndOf
  <2>4. \A q \in Stops(heap) : q < 0 => q = Trusted
    BY Numbers DEF Memory, Placed, Stops
  <2> QED BY <2>1, <2>2, <2>3, <2>4, Numbers DEF Locs, PositionOf, Stops, Blocks
<1>3. CASE first # 0
  <2>1. m = [ptr |-> Trusted, occ |-> FALSE, res |-> Null, best |-> 0, sum |-> 0]
    BY <1>3 DEF Begin, NoLocals
  <2>2. \A q \in Stops(heap) : ~ (q < Trusted)
    BY Numbers DEF Memory, Placed, Stops
  <2> QED BY <2>1, <2>2, Numbers DEF Locs, PositionOf, Stops, EndOf
<1> QED BY <1>2, <1>3

(* The search takes what is better than what it has, and goes on. *)
LEMMA SearchGoesOn ==
    ASSUME IInv, NEW t \in Threads, SearchStep(t)
    PROVE  loc' \in Locs /\ Searching(call[t].arg)'
<1> DEFINE n == call[t].arg
           p == loc.ptr
           take == ~ loc.occ /\ Fits(IterSize, n) /\ Preferred(IterSize)
           l == IF take THEN [loc EXCEPT !.res = p, !.best = IterSize] ELSE loc
           m == Advance(l)
<1>1. /\ Memory /\ loc \in Locs /\ p # Null /\ Searching(n) /\ n \in Nat
      /\ fit_mode \in Modes /\ AtStop
  <2>1. Memory /\ loc \in Locs /\ p # Null /\ Searching(n) /\ fit_mode \in Modes
    BY DEF IInv, TypeOK, Locs, SearchStep, Inside
  <2>2. n \in Nat
    BY Numbers DEF IInv, Asked, SearchStep, Inside
  <2> QED BY <2>1, <2>2 DEF Searching
<1>2. /\ UNCHANGED <<heap, first, fit_mode, mutex, call, held, last>>
      /\ loc' = IF take /\ fit_mode = "first_fit" THEN [l EXCEPT !.ptr = Null] ELSE m
  BY DEF SearchStep
<1>3. p \in Stops(heap) /\ (p = Trusted => ~ loc.occ) /\ loc.occ \in BOOLEAN
  BY <1>1 DEF AtStop, Locs
<1>4. p \in Int /\ p # Null /\ HoleAfter(p) \in Nat
  BY <1>1, <1>3, Stopping
<1>5. IterSize \in Nat /\ (~ loc.occ => IterSize = HoleAfter(p))
  <2>1. CASE loc.occ
    <3>1. heap[p].size \in Nat
      BY <1>1, <1>3, <2>1, Stopping
    <3> QED BY <2>1, <3>1, Numbers DEF IterSize
  <2>2. CASE ~ loc.occ
    BY <1>4, <2>2 DEF IterSize
  <2> QED BY <2>1, <2>2
<1>6. /\ l \in Locs /\ l.ptr = p /\ l.occ = loc.occ /\ l.sum = loc.sum
      /\ take => l.res = p /\ l.best = IterSize
      /\ ~ take => l = loc
  <2>1. loc = [ptr |-> p, occ |-> loc.occ, res |-> loc.res, best |-> loc.best, sum |-> loc.sum]
    BY <1>1 DEF Locs
  <2>2. CASE take
    <3>1. l = [ptr |-> p, occ |-> loc.occ, res |-> p, best |-> IterSize, sum |-> loc.sum]
      BY <2>1, <2>2
    <3> QED BY <1>1, <1>4, <1>5, <2>2, <3>1 DEF Locs
  <2>3. CASE ~ take
    BY <1>1, <2>3
  <2> QED BY <2>2, <2>3
<1>7. /\ m \in Locs /\ m.res = l.res /\ m.best = l.best /\ m.sum = l.sum
      /\ m.ptr # Null => m.ptr \in Stops(heap) /\ (m.ptr = Trusted => ~ m.occ)
      /\ IterSize \in Nat /\ PositionOf(m) = Position + IterSize
      /\ Position \in Nat
      /\ m.ptr = Null \/ m.ptr >= loc.ptr
      /\ ~ loc.occ => IterSize = HoleAfter(loc.ptr) /\ (m.ptr = Null \/ m.ptr > loc.ptr)
      /\ \A q \in Stops(heap) : m.ptr = Null \/ q < m.ptr =>
            \/ Behind(q)
            \/ q = loc.ptr /\ (loc.occ => HoleAfter(q) = 0)
  BY <1>1, <1>6, Advancing
<1>8. \A q \in Stops(heap) : q \in Int /\ q # Null /\ HoleAfter(q) \in Nat /\ (FitsIn(q, n) => HoleAfter(q) > 0)
  <2>1. \A q \in Stops(heap) : q \in Int /\ q # Null /\ HoleAfter(q) \in Nat
    BY <1>1, Stopping
  <2> QED BY <1>1, <2>1, Numbers DEF FitsIn
<1>9. take <=> ~ loc.occ /\ FitsIn(p, n) /\ Preferred(IterSize)
  BY <1>5 DEF Fits, FitsIn
<1>10. loc.res = Null => ((~ loc.occ /\ FitsIn(p, n)) => take)
  <2>1. loc.res = Null => loc.best = 0
    BY <1>1 DEF Searching
  <2> QED BY <1>1, <1>5, <1>8, <1>3, <1>9, <2>1 DEF Preferred, Modes
<1>11. CASE take /\ fit_mode = "first_fit"
  <2>1. loc.res = Null
    BY <1>1, <1>11 DEF Searching
  <2>2. loc' = [l EXCEPT !.ptr = Null]
    BY <1>2, <1>11
  <2>3. /\ loc' \in Locs /\ loc'.ptr = Null /\ loc'.res = p /\ loc'.best = HoleAfter(p)
    <3> HIDE DEF l
    <3>1. loc' = [ptr |-> Null, occ |-> l.occ, res |-> l.res, best |-> l.best, sum |-> l.sum]
      BY <1>6, <2>2 DEF Locs
    <3>2. l.res = p /\ l.best = HoleAfter(p) /\ l.best \in Nat /\ l.occ \in BOOLEAN /\ l.sum \in Nat
      BY <1>5, <1>6, <1>11 DEF Locs
    <3> QED BY <1>4, <3>1, <3>2, Numbers DEF Locs
  <2>4. FitsIn(p, n)
    BY <1>9, <1>11
  <2>5. ASSUME NEW q \in Stops(heap), FitsIn(q, n) PROVE AsGood(p, q)
    <3>1. ~ Behind(q)
      BY <1>1, <2>1, <2>5 DEF Searching
    <3> QED BY <1>4, <1>8, <1>11, <3>1 DEF Behind, AsGood
  <2> QED BY <1>2, <1>3, <1>4, <2>3, <2>4, <2>5, SameMemory DEF Searching, Behind
<1>12. CASE take /\ fit_mode # "first_fit"
  <2>1. loc' = m /\ m.res = p /\ m.best = HoleAfter(p) /\ m.ptr # p /\ (m.ptr = Null \/ p < m.ptr)
    BY <1>2, <1>4, <1>5, <1>6, <1>7, <1>9, <1>12
  <2>2. FitsIn(p, n)
    BY <1>9, <1>12
  <2>3. ASSUME NEW q \in Stops(heap), m.ptr = Null \/ q < m.ptr, FitsIn(q, n) PROVE AsGood(p, q)
    <3>1. CASE q = p
      BY <1>1, <1>4, <3>1 DEF AsGood, Modes
    <3>2. CASE q # p
      <4>1. Behind(q) /\ loc.res # Null
        BY <1>1, <1>7, <2>3, <3>2 DEF Searching
      <4>2. AsGood(loc.res, q) /\ loc.res \in Stops(heap) /\ loc.best = HoleAfter(loc.res)
        BY <1>1, <2>3, <4>1 DEF Searching
      <4>3. Preferred(IterSize) /\ IterSize = HoleAfter(p)
        BY <1>5, <1>9, <1>12
      <4> QED BY <1>1, <1>4, <1>8, <1>12, <4>1, <4>2, <4>3 DEF AsGood, Preferred, Modes
    <3> QED BY <3>1, <3>2
  <2> QED BY <1>2, <1>3, <1>4, <1>7, <1>12, <2>1, <2>2, <2>3, SameMemory
          DEF Searching, Behind, AtStop
<1>13. CASE ~ take
  <2>1. loc' = m /\ m.res = loc.res /\ m.best = loc.best /\ loc' \in Locs
    BY <1>2, <1>6, <1>7, <1>13
  <2>2. AtStop' \/ loc'.ptr = Null
    BY <1>2, <1>7, <2>1, SameMemory DEF AtStop
  <2>3. CASE loc.res = Null
    <3>1. ~ (~ loc.occ /\ FitsIn(p, n))
      BY <1>10, <1>13, <2>3
    <3>2. ASSUME NEW q \in Stops(heap), m.ptr = Null \/ q < m.ptr PROVE ~ FitsIn(q, n)
      <4>1. Behind(q) \/ (q = p /\ (loc.occ => HoleAfter(q) = 0))
        BY <1>7, <3>2
      <4> QED BY <1>1, <1>8, <2>3, <3>1, <4>1 DEF Searching
    <3>3. ASSUME NEW o \in Nat, m.ptr = Null \/ o < PositionOf(m) PROVE ~ Room(o, n + H)
      <4>1. CASE Cleared(o)
        BY <1>1, <2>3, <4>1 DEF Searching
      <4>2. CASE ~ Cleared(o)
        <5>1. o < Position + IterSize \/ Position + IterSize = Space
          BY <1>7, <3>3 DEF PositionOf
        <5> QED BY <1>1, <1>3, <3>1, <4>2, <5>1, RoomInHole
      <4> QED BY <4>1, <4>2
    <3>4. \A o : Cleared(o)' => m.ptr = Null \/ o < PositionOf(m)
      BY <1>2, <2>1, SameMemory DEF Cleared, Position, PositionOf
    <3>5. /\ loc'.res = Null /\ loc'.best = 0
      BY <1>1, <2>1, <2>3 DEF Searching
    <3>6. \A q \in Stops(heap)' : Behind(q)' => ~ FitsIn(q, n)'
      BY <1>2, <2>1, <3>2, SameMemory DEF Behind
    <3>7. \A o \in Nat : Cleared(o)' => ~ Room(o, n + H)'
      BY <1>2, <3>3, <3>4, SameMemory
    <3> QED BY <1>2, <2>1, <2>2, <3>5, <3>6, <3>7 DEF Searching
  <2>4. CASE loc.res # Null
    <3>1. /\ loc.res \in Stops(heap) /\ Behind(loc.res) /\ loc.best = HoleAfter(loc.res)
          /\ FitsIn(loc.res, n) /\ fit_mode # "first_fit"
          /\ \A q \in Stops(heap) : Behind(q) /\ FitsIn(q, n) => AsGood(loc.res, q)
      BY <1>1, <2>4 DEF Searching
    <3>2. m.ptr = Null \/ loc.res < m.ptr
      BY <1>4, <1>7, <1>8, <3>1 DEF Behind, Locs
    <3>3. ASSUME NEW q \in Stops(heap), m.ptr = Null \/ q < m.ptr, FitsIn(q, n)
          PROVE  AsGood(loc.res, q)
      <4>1. CASE Behind(q)
        BY <3>1, <3>3, <4>1
      <4>2. CASE ~ Behind(q)
        <5>1. q = p /\ ~ loc.occ
          BY <1>7, <1>8, <3>3, <4>2
        <5>2. ~ Preferred(IterSize) /\ IterSize = HoleAfter(p)
          BY <1>5, <1>9, <1>13, <3>3, <5>1
        <5> QED BY <1>1, <1>8, <3>1, <5>1, <5>2 DEF AsGood, Preferred, Modes
      <4> QED BY <4>1, <4>2
    <3>4. Behind(loc.res)' /\ \A q : Behind(q)' => m.ptr = Null \/ q < m.ptr
      BY <2>1, <3>2 DEF Behind
    <3>5. loc'.res = loc.res /\ loc'.best = loc.best /\ loc'.res # Null
      BY <2>1, <2>4
    <3> QED BY <1>2, <2>1, <2>2, <3>1, <3>3, <3>4, <3>5, SameMemory DEF Searching
  <2> QED BY <2>1, <2>3, <2>4
<1> QED BY <1>11, <1>12, <1>13

(* A call that takes the mutex starts at the first position. *)
LEMMA Entering ==
    ASSUME IInv, NEW t \in Threads, mutex' = t, loc' = Begin,
           UNCHANGED <<heap, first, fit_mode>>,
           TypeOK', Asked', call'[t].op \in {"allocate", "info"}
    PROVE  IInv'
<1>1. Memory /\ Memory' /\ Stops(heap)' = Stops(heap)
  BY SameMemory DEF IInv
<1>2. /\ loc'.res = Null /\ loc'.best = 0 /\ loc'.sum = 0 /\ loc'.ptr # Null
      /\ loc'.ptr \in Stops(heap) /\ (loc'.ptr = Trusted => ~ loc'.occ)
      /\ PositionOf(loc') = 0
      /\ \A q \in Stops(heap) : q < loc'.ptr => HoleAfter(q) = 0
  BY <1>1, Beginning
<1>3. AtStop' /\ Position' = 0
  BY <1>1, <1>2, SameMemory DEF AtStop, Position, PositionOf
<1>4. Busy' /\ \A u \in Threads : u # t => ~ Inside(u, "allocate")' /\ ~ Inside(u, "info")'
  BY Numbers DEF Busy, Inside
<1>5. Inside(t, "allocate")' => Searching(call[t].arg)'
  <2> SUFFICES ASSUME Inside(t, "allocate")' PROVE Searching(call[t].arg)'
    OBVIOUS
  <2> DEFINE n == call'[t].arg
  <2>1. n \in Nat
    BY Numbers DEF Asked, Inside
  <2>2. ASSUME NEW q \in Stops(heap), Behind(q)' PROVE ~ FitsIn(q, n)
    <3>1. HoleAfter(q) = 0
      BY <1>2, <2>2 DEF Behind
    <3> QED BY <2>1, <3>1, Numbers DEF FitsIn
  <2>3. \A o \in Nat : ~ Cleared(o)'
    BY <1>2, <1>3 DEF Cleared
  <2>4. \A q \in Stops(heap)' : Behind(q)' => ~ FitsIn(q, call[t].arg)'
    BY <1>1, <2>2, SameMemory DEF FitsIn
  <2> QED BY <1>2, <1>3, <2>3, <2>4 DEF Searching
<1>6. Inside(t, "info")' => Summing'
  BY <1>2, <1>3 DEF Summing
<1> QED BY <1>1, <1>4, <1>5, <1>6 DEF IInv

LEMMA BeginSearchOK == ASSUME IInv, NEW t \in Threads, BeginSearch(t) PROVE IInv'
<1>1. loc' \in Locs
  BY Beginning DEF IInv, BeginSearch
<1>2. TypeOK'
  BY <1>1 DEF IInv, TypeOK, BeginSearch, Blocks, Locs
<1>3. Asked' /\ call'[t].op = "allocate" /\ mutex' = t /\ loc' = Begin
  BY DEF IInv, Asked, BeginSearch
<1> QED BY <1>2, <1>3, Entering DEF BeginSearch

LEMMA CallBlocksInfoOK == ASSUME IInv, NEW t \in Threads, CallBlocksInfo(t) PROVE IInv'
<1>1. loc' \in Locs
  BY Beginning DEF IInv, CallBlocksInfo
<1>2. call' = [call EXCEPT ![t] = [op |-> "info", arg |-> 0]]
      /\ call \in [Threads -> [op : {"idle", "allocate", "deallocate", "info"}, arg : Int]]
  BY DEF IInv, TypeOK, CallBlocksInfo
<1>3. TypeOK'
  <2>1. call' \in [Threads -> [op : {"idle", "allocate", "deallocate", "info"}, arg : Int]]
    BY <1>2
  <2> QED BY <1>1, <2>1 DEF IInv, TypeOK, CallBlocksInfo, Blocks, Locs
<1>4. Asked' /\ call'[t].op = "info"
  BY <1>2 DEF IInv, Asked
<1> QED BY <1>3, <1>4, Entering DEF CallBlocksInfo

LEMMA SearchStepOK == ASSUME IInv, NEW t \in Threads, SearchStep(t) PROVE IInv'
<1>1. loc' \in Locs /\ Searching(call[t].arg)'
  BY SearchGoesOn
<1>2. /\ UNCHANGED <<heap, first, fit_mode, mutex, call, held, last>>
      /\ Inside(t, "allocate")
  BY DEF SearchStep
<1>3. TypeOK'
  BY <1>1, <1>2 DEF IInv, TypeOK, Blocks, Locs
<1>4. Memory' /\ Asked' /\ Busy'
  BY <1>2, SameMemory DEF IInv, Asked, Busy
<1>5. \A u \in Threads : Inside(u, "allocate")' => u = t
  BY <1>2 DEF Inside
<1>6. \A u \in Threads : ~ Inside(u, "info")'
  BY <1>2 DEF Inside
<1> QED BY <1>1, <1>3, <1>4, <1>5, <1>6 DEF IInv

(* get_blocks_info adds up what the iterator goes by. *)
LEMMA InfoStepOK == ASSUME IInv, NEW t \in Threads, InfoStep(t) PROVE IInv'
<1> DEFINE l == [loc EXCEPT !.sum = @ + IterSize]
           m == Advance(l)
<1>1. /\ UNCHANGED <<heap, first, fit_mode, mutex, call, held, last>>
      /\ Inside(t, "info") /\ loc.ptr # Null /\ loc' = m
  BY DEF InfoStep
<1>2. Memory /\ loc \in Locs /\ Summing /\ AtStop /\ loc.sum = Position
  BY <1>1 DEF IInv, TypeOK, Locs, Summing
<1>3. IterSize \in Nat /\ Position \in Nat
  BY <1>1, <1>2, Advancing
<1>4. l \in Locs /\ l.ptr = loc.ptr /\ l.occ = loc.occ /\ l.sum = Position + IterSize
  BY <1>2, <1>3 DEF Locs
<1> HIDE DEF l
<1>5. /\ m \in Locs /\ m.sum = PositionOf(m)
      /\ m.ptr # Null => m.ptr \in Stops(heap) /\ (m.ptr = Trusted => ~ m.occ)
  BY <1>1, <1>2, <1>4, Advancing
<1> HIDE DEF m
<1>6. TypeOK'
  BY <1>1, <1>5 DEF IInv, TypeOK, Blocks, Locs
<1>7. Memory' /\ Asked' /\ Busy'
  BY <1>1, SameMemory DEF IInv, Asked, Busy
<1>8. Summing'
  <2>1. Stops(heap)' = Stops(heap) /\ \A q : EndOf(q)' = EndOf(q)
    BY <1>1, SameMemory
  <2> QED BY <1>1, <1>5, <2>1 DEF Summing, AtStop, Position, PositionOf
<1>9. \A u \in Threads : ~ Inside(u, "allocate")'
  BY <1>1 DEF Inside
<1> QED BY <1>6, <1>7, <1>8, <1>9 DEF IInv

(* A store to one link leaves the rest of the headers alone. *)
LEMMA Stored ==
    ASSUME NEW h, h \in [DOMAIN h -> Header], NEW b, NEW v \in Int
    PROVE  /\ WithNext(h, b, v) \in [DOMAIN h -> Header]
           /\ WithPrev(h, b, v) \in [DOMAIN h -> Header]
           /\ \A x \in DOMAIN h :
                 /\ WithNext(h, b, v)[x].size = h[x].size
                 /\ WithNext(h, b, v)[x].next = IF x = b THEN v ELSE h[x].next
                 /\ WithNext(h, b, v)[x].prev = h[x].prev
                 /\ WithPrev(h, b, v)[x].size = h[x].size
                 /\ WithPrev(h, b, v)[x].next = h[x].next
                 /\ WithPrev(h, b, v)[x].prev = IF x = b THEN v ELSE h[x].prev
<1>1. \A x \in DOMAIN h : /\ h[x] = [size |-> h[x].size, next |-> h[x].next, prev |-> h[x].prev]
                          /\ h[x].size \in Nat /\ h[x].next \in Int /\ h[x].prev \in Int
  BY DEF Header
<1>2. CASE b \in DOMAIN h
  <2>1. /\ WithNext(h, b, v) = [h EXCEPT ![b] = [h[b] EXCEPT !.next = v]]
        /\ WithPrev(h, b, v) = [h EXCEPT ![b] = [h[b] EXCEPT !.prev = v]]
    BY <1>2 DEF WithNext, WithPrev
  <2>2. /\ [h[b] EXCEPT !.next = v] = [size |-> h[b].size, next |-> v, prev |-> h[b].prev]
        /\ [h[b] EXCEPT !.prev = v] = [size |-> h[b].size, next |-> h[b].next, prev |-> v]
    BY <1>1, <1>2
  <2> QED BY <1>1, <1>2, <2>1, <2>2 DEF Header
<1>3. CASE b \notin DOMAIN h
  <2>1. WithNext(h, b, v) = h /\ WithPrev(h, b, v) = h
    BY <1>3 DEF WithNext, WithPrev
  <2> QED BY <1>1, <1>3, <2>1
<1> QED BY <1>2, <1>3

(* The block a search ends with is put into the hole it chose. *)
LEMMA Granting ==
    ASSUME IInv, NEW t \in Threads, FinishAllocate(t)
    PROVE  LET p == loc.res
               n == call[t].arg
               b == EndOf(p)
               size == TotalSize(HoleAfter(p), n) - H
           IN  /\ n \in Requests /\ n \in Nat
               /\ p \in Stops(heap) /\ FitsIn(p, n)
               /\ b \in Nat /\ b <= Space /\ b \notin Blocks /\ b = Ends(heap, p)
               /\ size \in Nat /\ size >= n
               /\ b + H + size <= Limit(NextOf(p)) /\ Limit(NextOf(p)) <= Space
               /\ NextOf(p) = Succ(heap, first, p)
               /\ IsInserted(heap, first, p, size, heap')
               /\ heap' \in [DOMAIN heap' -> Header]
               /\ first' = IF p = Trusted THEN b ELSE first
               /\ held' = [x \in DOMAIN held \cup {b} |-> IF x = b THEN n ELSE held[x]]
               /\ Return(t, [op |-> "allocated", arg |-> n, at |-> b])
               /\ fit_mode' = fit_mode
<1> DEFINE p == loc.res
           n == call[t].arg
           b == EndOf(p)
           s == NextOf(p)
           size == TotalSize(HoleAfter(p), n) - H
           h1 == [x \in Blocks \cup {b} |->
                    IF x = b THEN [size |-> size, next |-> s, prev |-> p] ELSE heap[x]]
           h2 == WithPrev(h1, s, b)
           h3 == WithNext(h2, p, b)
<1>1. /\ Inside(t, "allocate") /\ loc.ptr = Null /\ p # Null
      /\ heap' = h3
      /\ first' = IF p = Trusted THEN b ELSE first
      /\ held' = [x \in DOMAIN held \cup {b} |-> IF x = b THEN n ELSE held[x]]
      /\ Return(t, [op |-> "allocated", arg |-> n, at |-> b])
      /\ fit_mode' = fit_mode
  BY DEF FinishAllocate
<1>2. n \in Requests /\ n \in Nat
  BY <1>1, Numbers DEF IInv, Asked, Inside
<1>3. p \in Stops(heap) /\ FitsIn(p, n) /\ Memory
  BY <1>1 DEF IInv, Searching
<1>4. /\ p \in Int /\ p # Null
      /\ b \in Nat /\ b > p /\ b <= Space
      /\ b = Ends(heap, p) /\ s = Succ(heap, first, p)
      /\ s \in Blocks \cup {Null}
      /\ HoleAfter(p) \in Nat
      /\ b + HoleAfter(p) = Limit(s)
      /\ s # Null => s \in Nat /\ s > p
      /\ \A x \in Blocks : x > p => s # Null /\ s <= x
  BY <1>3, Stopping
<1>5. Limit(s) <= Space
  BY <1>3, <1>4, StopFacts DEF Memory
<1>6. size \in Nat /\ size >= n /\ size <= HoleAfter(p) - H
  BY <1>2, <1>3, <1>4, Numbers DEF TotalSize, FitsIn
<1> HIDE DEF size
<1>7. b + H + size <= Limit(s)
  BY <1>4, <1>6, Numbers
<1>8. Blocks = DOMAIN heap /\ Blocks \subseteq Nat /\ heap \in [Blocks -> Header]
  BY <1>3 DEF Memory, Placed, Blocks
<1>9. b \notin Blocks /\ s # b /\ p # b
  <2>1. s # Null => s > b
    BY <1>4, <1>6, <1>7, Numbers DEF Limit
  <2>2. \A x \in Blocks : x > b \/ x <= p
    BY <1>4, <1>8, <2>1
  <2> QED BY <1>4, <1>8, <2>1, <2>2, Numbers
<1>10. s \in Int /\ Null \notin Blocks /\ b # Null
  BY <1>4, <1>8, Numbers
<1>11. DOMAIN h1 = Blocks \cup {b} /\ h1 \in [DOMAIN h1 -> Header]
  <2>1. [size |-> size, next |-> s, prev |-> p] \in Header
    BY <1>4, <1>6, <1>10 DEF Header
  <2>2. \A x \in Blocks : heap[x] \in Header
    BY <1>8
  <2> QED BY <2>1, <2>2
<1>12. /\ h1[b].size = size /\ h1[b].next = s /\ h1[b].prev = p
       /\ \A x \in Blocks : h1[x] = heap[x]
  BY <1>9
<1> HIDE DEF h1
<1>13. DOMAIN h2 = DOMAIN h1 /\ h2 \in [DOMAIN h2 -> Header]
  BY <1>4, <1>11, Stored
<1>14. \A x \in DOMAIN h1 : /\ h2[x].size = h1[x].size /\ h2[x].next = h1[x].next
                            /\ h2[x].prev = IF x = s THEN b ELSE h1[x].prev
  BY <1>4, <1>11, Stored
<1> HIDE DEF h2
<1>15. DOMAIN h3 = DOMAIN h1 /\ h3 \in [DOMAIN h3 -> Header]
  BY <1>4, <1>13, Stored
<1>16. \A x \in DOMAIN h1 :
          /\ h3[x].size = h2[x].size /\ h3[x].prev = h2[x].prev
          /\ h3[x].next = IF x = p THEN b ELSE h2[x].next
  BY <1>4, <1>13, Stored
<1> HIDE DEF h3
<1>17. h3[b] = [size |-> size, next |-> s, prev |-> p]
  <2>1. h3[b].size = size /\ h3[b].next = s /\ h3[b].prev = p
    BY <1>9, <1>11, <1>12, <1>14, <1>16
  <2> QED BY <1>11, <1>15, <2>1 DEF Header
<1>18. \A x \in Blocks : h3[x] = [size |-> heap[x].size,
                                  next |-> IF x = p THEN b ELSE heap[x].next,
                                  prev |-> IF x = s THEN b ELSE heap[x].prev]
  <2> TAKE x \in Blocks
  <2>1. /\ h3[x].size = heap[x].size
        /\ h3[x].next = IF x = p THEN b ELSE heap[x].next
        /\ h3[x].prev = IF x = s THEN b ELSE heap[x].prev
    BY <1>9, <1>11, <1>12, <1>14, <1>16
  <2> QED BY <1>11, <1>15, <2>1 DEF Header
<1>19. IsInserted(heap, first, p, size, h3)
  BY <1>4, <1>8, <1>11, <1>15, <1>17, <1>18 DEF IsInserted
<1> QED BY <1>1, <1>2, <1>3, <1>4, <1>5, <1>6, <1>7, <1>9, <1>15, <1>19 DEF size

LEMMA FinishAllocateOK == ASSUME IInv, NEW t \in Threads, FinishAllocate(t) PROVE IInv'
<1> DEFINE p == loc.res
           n == call[t].arg
           b == EndOf(p)
           size == TotalSize(HoleAfter(p), n) - H
<1>1. /\ n \in Nat /\ p \in Stops(heap)
      /\ b \in Nat /\ b <= Space /\ b = Ends(heap, p)
      /\ size \in Nat
      /\ b + H + size <= Limit(Succ(heap, first, p))
      /\ IsInserted(heap, first, p, size, heap')
      /\ heap' \in [DOMAIN heap' -> Header]
      /\ first' = IF p = Trusted THEN b ELSE first
      /\ held' = [x \in DOMAIN held \cup {b} |-> IF x = b THEN n ELSE held[x]]
      /\ Return(t, [op |-> "allocated", arg |-> n, at |-> b])
      /\ fit_mode' = fit_mode
  BY Granting
<1> HIDE DEF n, b, p, size
<1>2. Placed(heap) /\ Linked(heap, first)
  BY DEF IInv, Memory
<1>3. Memory'
  BY <1>1, <1>2, Inserting DEF Memory
<1>4. TypeOK'
  <2>1. Blocks' \subseteq 0..Space /\ heap' \in [Blocks' -> Header]
    <3>1. Blocks' = Blocks \cup {b}
      BY <1>1 DEF IsInserted, Blocks
    <3> QED BY <1>1, <3>1, Numbers DEF IInv, TypeOK, Blocks
  <2>2. first' \in Int /\ fit_mode' \in Modes
    BY <1>1 DEF IInv, TypeOK
  <2>3. mutex' \in Threads \cup {Nobody} /\ loc' \in Locs
    BY <1>1, Numbers DEF Return, NoLocals, Locs
  <2>4. call' \in [Threads -> [op : {"idle", "allocate", "deallocate", "info"}, arg : Int]]
    BY <1>1 DEF IInv, TypeOK, Return, Idle
  <2>5. DOMAIN held' \subseteq 0..Space /\ held' \in [DOMAIN held' -> Nat]
    BY <1>1, Numbers DEF IInv, TypeOK
  <2> QED BY <2>1, <2>2, <2>3, <2>4, <2>5 DEF TypeOK, Header, Locs
<1> QED BY <1>1, <1>3, <1>4, CallsDone

(* The block is linked out of the list. *)
LEMMA TakingBack ==
    ASSUME IInv, NEW t \in Threads, Deallocate(t)
    PROVE  LET b == call[t].arg
           IN  /\ b \in Blocks
               /\ IsRemoved(heap, b, heap')
               /\ heap' \in [DOMAIN heap' -> Header]
               /\ first' = IF heap[b].prev = Trusted THEN heap[b].next ELSE first
               /\ Return(t, [op |-> "deallocated", arg |-> b, at |-> b])
               /\ UNCHANGED <<fit_mode, held>>
<1> DEFINE b == call[t].arg
           p == heap[b].prev
           s == heap[b].next
           h0 == WithNext(heap, p, s)
           h1 == WithPrev(h0, s, p)
           g == [x \in Blocks \ {b} |-> h1[x]]
<1>1. /\ b \in Blocks /\ heap' = g
      /\ first' = IF p = Trusted THEN s ELSE first
      /\ Return(t, [op |-> "deallocated", arg |-> b, at |-> b])
      /\ UNCHANGED <<fit_mode, held>>
  BY DEF Deallocate
<1>2. Blocks = DOMAIN heap /\ heap \in [DOMAIN heap -> Header] /\ p \in Int /\ s \in Int
  BY <1>1 DEF IInv, Memory, Placed, Blocks, Header
<1>3. /\ DOMAIN h0 = DOMAIN heap /\ h0 \in [DOMAIN h0 -> Header]
      /\ \A x \in DOMAIN heap :
            /\ h0[x].size = heap[x].size /\ h0[x].prev = heap[x].prev
            /\ h0[x].next = IF x = p THEN s ELSE heap[x].next
  BY <1>2, Stored
<1> HIDE DEF h0
<1>4. /\ DOMAIN h1 = DOMAIN heap /\ h1 \in [DOMAIN h1 -> Header]
      /\ \A x \in DOMAIN heap :
            /\ h1[x].size = h0[x].size /\ h1[x].next = h0[x].next
            /\ h1[x].prev = IF x = s THEN p ELSE h0[x].prev
  BY <1>2, <1>3, Stored
<1> HIDE DEF h1
<1>5. DOMAIN g = DOMAIN heap \ {b} /\ g \in [DOMAIN g -> Header]
  BY <1>2, <1>4
<1>6. IsRemoved(heap, b, g)
  <2>1. \A x \in DOMAIN heap \ {b} :
           g[x] = [size |-> heap[x].size, next |-> IF x = p THEN s ELSE heap[x].next,
                   prev |-> IF x = s THEN p ELSE heap[x].prev]
    <3> TAKE x \in DOMAIN heap \ {b}
    <3>1. /\ h1[x].size = heap[x].size
          /\ h1[x].next = IF x = p THEN s ELSE heap[x].next
          /\ h1[x].prev = IF x = s THEN p ELSE heap[x].prev
      BY <1>3, <1>4
    <3>2. g[x] = h1[x] /\ h1[x] \in Header
      BY <1>2, <1>4
    <3> QED BY <3>1, <3>2 DEF Header
  <2> QED BY <1>5, <2>1 DEF IsRemoved
<1> QED BY <1>1, <1>5, <1>6

LEMMA DeallocateOK == ASSUME IInv, NEW t \in Threads, Deallocate(t) PROVE IInv'
<1> DEFINE b == call[t].arg
<1>1. /\ b \in Blocks
      /\ IsRemoved(heap, b, heap')
      /\ heap' \in [DOMAIN heap' -> Header]
      /\ first' = IF heap[b].prev = Trusted THEN heap[b].next ELSE first
      /\ Return(t, [op |-> "deallocated", arg |-> b, at |-> b])
      /\ UNCHANGED <<fit_mode, held>>
  BY TakingBack
<1> HIDE DEF b
<1>2. Placed(heap) /\ Linked(heap, first)
  BY DEF IInv, Memory
<1>3. Memory'
  BY <1>1, <1>2, Removing DEF Memory, Blocks
<1>4. TypeOK'
  <2>1. Blocks' \subseteq 0..Space /\ heap' \in [Blocks' -> Header]
    BY <1>1 DEF IInv, TypeOK, Blocks, IsRemoved
  <2>2. first' \in Int
    BY <1>1, <1>2 DEF IInv, TypeOK, Blocks, Placed, Header
  <2>3. mutex' \in Threads \cup {Nobody} /\ loc' \in Locs
    BY <1>1, Numbers DEF Return, NoLocals, Locs
  <2>4. call' \in [Threads -> [op : {"idle", "allocate", "deallocate", "info"}, arg : Int]]
    BY <1>1 DEF IInv, TypeOK, Return, Idle
  <2>5. DOMAIN held' \subseteq 0..Space /\ held' \in [DOMAIN held' -> Nat] /\ fit_mode' \in Modes
    BY <1>1 DEF IInv, TypeOK
  <2> QED BY <2>1, <2>2, <2>3, <2>4, <2>5 DEF TypeOK, Header, Locs
<1> QED BY <1>1, <1>3, <1>4, CallsDone

(* A call that ends without touching the memory. *)
LEMMA EndingOK ==
    ASSUME IInv, NEW t \in Threads, ThrowBadAlloc(t) \/ RejectForeign(t) \/ FinishInfo(t)
    PROVE  IInv'
<1>1. PICK r : Return(t, r)
  BY DEF ThrowBadAlloc, RejectForeign, FinishInfo
<1>2. UNCHANGED <<heap, first, fit_mode, held>>
  BY DEF ThrowBadAlloc, RejectForeign, FinishInfo
<1>3. Memory'
  BY <1>2, SameMemory DEF IInv
<1>4. TypeOK'
  <2>1. mutex' \in Threads \cup {Nobody} /\ loc' \in Locs
    BY <1>1, Numbers DEF Return, NoLocals, Locs
  <2>2. call' \in [Threads -> [op : {"idle", "allocate", "deallocate", "info"}, arg : Int]]
    BY <1>1 DEF IInv, TypeOK, Return, Idle
  <2> QED BY <1>2, <2>1, <2>2 DEF IInv, TypeOK, Locs, Blocks
<1> QED BY <1>1, <1>3, <1>4, CallsDone

(* A caller outside the mutex. *)
LEMMA CallingOK ==
    ASSUME IInv, NEW t \in Threads,
           CallAllocate(t) \/ CallDeallocate(t) \/ CallDeallocateForeign(t)
    PROVE  IInv'
<1>1. /\ UNCHANGED <<heap, first, fit_mode, mutex, loc, last>>
      /\ call[t] = Idle
  BY DEF CallAllocate, CallDeallocate, CallDeallocateForeign
<1>2. call \in [Threads -> [op : {"idle", "allocate", "deallocate", "info"}, arg : Int]]
  BY DEF IInv, TypeOK
<1>3. t # mutex
  BY <1>1, <1>2, Numbers DEF IInv, Busy, Idle
<1>4. PICK c \in [op : {"allocate", "deallocate"}, arg : Int] :
         /\ call' = [call EXCEPT ![t] = c]
         /\ c.op = "allocate" => c.arg \in Requests
  <2>1. CASE CallAllocate(t)
    <3>1. PICK n \in Requests : call' = [call EXCEPT ![t] = [op |-> "allocate", arg |-> n]]
      BY <2>1 DEF CallAllocate
    <3>2. n \in Int
      BY Numbers
    <3> DEFINE c == [op |-> "allocate", arg |-> n]
    <3>3. c \in [op : {"allocate", "deallocate"}, arg : Int] /\ c.arg \in Requests
      BY <3>2
    <3> QED BY <3>1, <3>3
  <2>2. CASE CallDeallocate(t)
    <3>1. PICK b \in DOMAIN held : call' = [call EXCEPT ![t] = [op |-> "deallocate", arg |-> b]]
      BY <2>2 DEF CallDeallocate
    <3>2. b \in Int
      BY DEF IInv, TypeOK
    <3> DEFINE c == [op |-> "deallocate", arg |-> b]
    <3>3. c \in [op : {"allocate", "deallocate"}, arg : Int] /\ c.op # "allocate"
      BY <3>2
    <3> QED BY <3>1, <3>3
  <2>3. CASE CallDeallocateForeign(t)
    <3> DEFINE c == [op |-> "deallocate", arg |-> Foreign]
    <3>1. c \in [op : {"allocate", "deallocate"}, arg : Int] /\ c.op # "allocate"
      BY DEF Foreign
    <3> QED BY <2>3, <3>1 DEF CallDeallocateForeign
  <2> QED BY <2>1, <2>2, <2>3
<1>5. Asked'
  BY <1>2, <1>4 DEF IInv, Asked
<1>6. Busy'
  <2>1. ASSUME mutex' # Nobody PROVE mutex \in Threads /\ mutex # t
    BY <1>1, <1>3, <2>1 DEF IInv, TypeOK
  <2> QED BY <1>1, <1>2, <1>4, <2>1 DEF IInv, Busy
<1>7. TypeOK'
  <2>1. call' \in [Threads -> [op : {"idle", "allocate", "deallocate", "info"}, arg : Int]]
    BY <1>2, <1>4
  <2>2. DOMAIN held' \subseteq 0..Space /\ held' \in [DOMAIN held' -> Nat]
    BY DEF IInv, TypeOK, CallAllocate, CallDeallocate, CallDeallocateForeign
  <2> QED BY <1>1, <2>1, <2>2 DEF IInv, TypeOK, Blocks
<1>8. \A u \in Threads : u = mutex => call'[u] = call[u]
  BY <1>2, <1>3, <1>4
<1> QED BY <1>1, <1>5, <1>6, <1>7, <1>8, CallsOutside

LEMMA SetFitModeOK == ASSUME IInv, NEW t \in Threads, SetFitMode(t) PROVE IInv'
<1>1. mutex = Nobody /\ UNCHANGED <<heap, first, mutex, call, loc, held, last>> /\ fit_mode' \in Modes
  BY DEF SetFitMode
<1>2. TypeOK' /\ Asked' /\ Busy' /\ Memory'
  BY <1>1 DEF IInv, TypeOK, Asked, Busy, Memory, Blocks
<1>3. \A u \in Threads : ~ Inside(u, "allocate")' /\ ~ Inside(u, "info")'
  BY <1>1, Numbers DEF Inside
<1> QED BY <1>2, <1>3 DEF IInv

LEMMA StutterOK == ASSUME IInv, UNCHANGED vars PROVE IInv'
<1>1. UNCHANGED <<heap, first, fit_mode, mutex, loc>> /\ call' = call /\ held' = held
  BY DEF vars
<1>2. TypeOK' /\ Asked' /\ Busy'
  BY <1>1 DEF IInv, TypeOK, Asked, Busy, Blocks
<1> QED BY <1>1, <1>2, CallsOutside

LEMMA NextOK == IInv /\ [NextStep]_vars => IInv'
<1> SUFFICES ASSUME IInv, [NextStep]_vars PROVE IInv'
  OBVIOUS
<1>1. CASE UNCHANGED vars
  BY <1>1, StutterOK
<1>2. CASE NextStep
  <2>1. PICK t \in Threads : ThreadCall(t) \/ ThreadEnter(t) \/ ThreadWork(t)
    BY <1>2 DEF NextStep
  <2>2. CASE ThreadCall(t)
    BY <2>2, CallingOK, SetFitModeOK, CallBlocksInfoOK DEF ThreadCall
  <2>3. CASE ThreadEnter(t)
    BY <2>3, BeginSearchOK, DeallocateOK, EndingOK DEF ThreadEnter
  <2>4. CASE ThreadWork(t)
    BY <2>4, SearchStepOK, FinishAllocateOK, EndingOK, InfoStepOK DEF ThreadWork
  <2> QED BY <2>1, <2>2, <2>3, <2>4
<1> QED BY <1>1, <1>2

(* Every call, in every interleaving, keeps the list linked both ways and   *)
(* the running search or walk in agreement with it.                         *)
THEOREM Invariance == Spec => []IInv
BY InitOK, NextOK, PTL DEF Spec

(* Headers, links, the iterator and the calls are well-formed after any     *)
(* number of calls from any number of threads.                              *)
THEOREM TypeCorrect == Spec => []TypeOK
<1>1. IInv => TypeOK
  BY DEF IInv
<1> QED BY <1>1, Invariance, PTL

(* In whatever order blocks come and go, every block's next and prev name   *)
(* its neighbours by address, and get_blocks_info accounts for every byte.  *)
THEOREM AreaWholeAlways == Spec => []AreaWhole
<1>1. IInv => AreaWhole
  <2> SUFFICES ASSUME IInv PROVE AreaWhole
    OBVIOUS
  <2>1. TypeOK
    BY DEF IInv
  <2>2. ListLinked
    <3> SUFFICES ASSUME NEW b \in Blocks \cup {Trusted}
                 PROVE  LET n     == NextOf(b)
                            above == {x \in Blocks : x > b}
                        IN  IF above = {} THEN n = Null
                            ELSE /\ n \in above
                                 /\ \A x \in above : n <= x
                                 /\ heap[n].prev = b
      BY DEF ListLinked
    <3>1. b \in Stops(heap) /\ Memory
      BY DEF Stops, Blocks, IInv
    <3>2. NextOf(b) = Succ(heap, first, b) /\ b \in Int
      BY <3>1, Stopping
    <3>3. Follows(heap, b, NextOf(b))
      BY <3>1, <3>2 DEF Memory, Linked
    <3>4. Blocks \subseteq Nat /\ Null \notin Blocks
      BY <3>1, Numbers DEF Memory, Placed, Blocks
    <3>5. CASE NextOf(b) = Null
      BY <3>2, <3>3, <3>4, <3>5 DEF Follows, Blocks
    <3>6. CASE NextOf(b) # Null
      BY <3>2, <3>3, <3>4, <3>6 DEF Follows, Blocks
    <3> QED BY <3>5, <3>6
  <2>3. WalkComplete
    BY DEF IInv, WalkComplete, Summing
  <2> QED BY <2>1, <2>2, <2>3 DEF AreaWhole
<1> QED BY <1>1, Invariance, PTL

(* The search of do_allocate_sm ends with a hole that fits, and no hole     *)
(* that fits is better in the sense of the fit mode.                        *)
THEOREM FitHonouredAlways == Spec => FitHonoured
<1>1. ASSUME IInv, [NextStep]_vars, NEW t \in Threads, FinishAllocate(t)
      PROVE  LET p == loc.res
                 fits == {q \in Blocks \cup {Trusted} : HoleAfter(q) >= call[t].arg + H}
             IN  p \in fits /\ \A q \in fits : AsGood(p, q)
  <2>1. Inside(t, "allocate") /\ loc.ptr = Null /\ loc.res # Null
    BY <1>1 DEF FinishAllocate
  <2>2. Searching(call[t].arg)
    BY <1>1, <2>1 DEF IInv
  <2> QED BY <2>1, <2>2 DEF Searching, FitsIn, Behind, Stops, Blocks
<1>2. IInv /\ [NextStep]_vars =>
        [ \A t \in Threads : FinishAllocate(t) =>
          LET p == loc.res
              fits == {q \in Blocks \cup {Trusted} : HoleAfter(q) >= call[t].arg + H}
          IN  p \in fits /\ \A q \in fits : AsGood(p, q) ]_vars
  BY <1>1
<1> QED BY <1>2, Invariance, PTL DEF Spec, FitHonoured

-----------------------------------------------------------------------------
(* The regions of AllocatorSpec are the payloads of the blocks. *)
Regions == [b \in Blocks |-> heap[b].size]

LEMMA VacantIsRoom ==
    ASSUME NEW o, NEW len
    PROVE  Promise!Vacant(o, len) <=> Room(o, len)
BY DEF Promise!Vacant, Promise!End, Room, End, Blocks

LEMMA PromiseInit == Init => Promise!SpecInit
BY DEF Init, Promise!SpecInit, Blocks

(* A block goes into a hole that can take its header and its payload. *)
LEMMA PromiseGrant ==
    ASSUME IInv, NEW t \in Threads, FinishAllocate(t), NEW n, n = call[t].arg
    PROVE  Promise!Grant(n)
<1> DEFINE p == loc.res
           b == EndOf(p)
           size == TotalSize(HoleAfter(p), n) - H
<1>1. /\ n \in Requests /\ n \in Nat
      /\ p \in Stops(heap)
      /\ b \in Nat /\ b <= Space /\ b \notin Blocks
      /\ size \in Nat /\ size >= n
      /\ b + H + size <= Limit(NextOf(p)) /\ Limit(NextOf(p)) <= Space
      /\ NextOf(p) = Succ(heap, first, p)
      /\ b = Ends(heap, p)
      /\ IsInserted(heap, first, p, size, heap')
      /\ last' = [op |-> "allocated", arg |-> n, at |-> b]
  BY Granting DEF Return
<1> HIDE DEF size
<1>2. /\ p \in Int /\ p >= -2 /\ b > p
      /\ p # Trusted => p \in Blocks /\ p \in Nat /\ b = p + H + heap[p].size /\ heap[p].size \in Nat
      /\ \A x \in Blocks : x > p => NextOf(p) # Null /\ NextOf(p) <= x
      /\ NextOf(p) # Null => NextOf(p) \in Nat
      /\ Limit(NextOf(p)) \in Nat
  BY <1>1, Stopping, Numbers DEF IInv, Limit
<1> HIDE DEF p, b
<1>3. Blocks = DOMAIN heap /\ Blocks \subseteq Nat /\ \A x \in Blocks : heap[x].size \in Nat
  BY DEF IInv, Memory, Placed, Blocks, Header
<1>4. Room(b, H + size)
  <2>1. b + (H + size) <= Space
    BY <1>1, <1>2, Numbers
  <2>2. ASSUME NEW x \in Blocks PROVE End(x) <= b \/ b + (H + size) <= x
    <3>1. CASE x > p
      BY <1>1, <1>2, <1>3, <3>1, Numbers DEF Limit
    <3>2. CASE x = p
      BY <1>1, <1>2, <1>3, <3>2, Numbers DEF End
    <3>3. CASE x < p
      <4>1. p \in Blocks
        BY <1>2, <1>3, <3>3, Numbers
      <4>2. End(x) <= p
        <5>1. Ends(heap, x) <= p
          BY <1>3, <3>3, <4>1 DEF IInv, Memory, Placed
        <5> QED BY <1>3, <5>1, Numbers DEF End, Ends
      <4>3. End(x) \in Int
        BY <1>3, Numbers DEF End
      <4> QED BY <1>1, <1>2, <4>2, <4>3
    <3> QED BY <1>2, <1>3, <3>1, <3>2, <3>3
  <2> QED BY <2>1, <2>2 DEF Room
<1>5. Regions' = [r \in DOMAIN Regions \cup {b} |-> IF r = b THEN size ELSE Regions[r]]
  <2>1. Blocks' = Blocks \cup {b}
    BY <1>1, <1>3 DEF IsInserted, Blocks
  <2>2. heap'[b].size = size /\ \A x \in Blocks : heap'[x].size = heap[x].size
    BY <1>1, <1>3 DEF IsInserted
  <2> QED BY <1>1, <2>1, <2>2 DEF Regions
<1>6. b \in 0..Space /\ size \in n..Space
  BY <1>1, <1>2, Numbers
<1> QED BY <1>1, <1>4, <1>5, <1>6, VacantIsRoom DEF Promise!Grant, Regions

(* A request is refused only when no hole could take it. *)
LEMMA PromiseRefuse ==
    ASSUME IInv, NEW t \in Threads, ThrowBadAlloc(t), NEW n, n = call[t].arg
    PROVE  Promise!Refuse(n)
<1>1. /\ Inside(t, "allocate") /\ loc.ptr = Null /\ loc.res = Null
      /\ last' = [op |-> "bad_alloc", arg |-> n, at |-> Null]
      /\ heap' = heap
  BY DEF ThrowBadAlloc, Return
<1>2. n \in Requests /\ Searching(n)
  BY <1>1 DEF IInv, Asked, Inside
<1>3. \A o \in 0..Space : ~ Room(o, n + H)
  BY <1>1, <1>2, Numbers DEF Searching, Cleared
<1>4. \A o \in 0..Space : ~ Promise!Vacant(o, [m \in Requests |-> m + H][n])
  BY <1>2, <1>3, VacantIsRoom
<1>5. Regions' = Regions
  BY <1>1 DEF Regions, Blocks
<1> QED BY <1>1, <1>2, <1>4, <1>5, Numbers DEF Promise!Refuse, Regions

LEMMA SizesStay ==
    ASSUME NEW h, NEW b, NEW g, IsRemoved(h, b, g)
    PROVE  \A x \in DOMAIN h \ {b} : g[x].size = h[x].size
BY DEF IsRemoved

(* Only the block the caller names goes. *)
LEMMA PromiseTakeBack ==
    ASSUME IInv, NEW t \in Threads, Deallocate(t), NEW b, b = call[t].arg
    PROVE  Promise!TakeBack(b)
<1>1. /\ b \in Blocks /\ IsRemoved(heap, b, heap')
      /\ last' = [op |-> "deallocated", arg |-> b, at |-> b]
  BY TakingBack DEF Return
<1>2. Regions' = [r \in DOMAIN Regions \ {b} |-> Regions[r]]
  <2>1. Blocks' = Blocks \ {b}
    BY <1>1 DEF IsRemoved, Blocks
  <2>2. \A x \in DOMAIN heap \ {b} : heap'[x].size = heap[x].size
    BY <1>1, SizesStay
  <2> QED BY <2>1, <2>2 DEF Regions, Blocks
<1> QED BY <1>1, <1>2 DEF Promise!TakeBack, Regions

LEMMA PromiseStep ==
    ASSUME IInv, [NextStep]_vars
    PROVE  [Promise!SpecNext]_(Promise!specVars)
<1>1. UNCHANGED <<heap, last>> => UNCHANGED Promise!specVars
  BY DEF Promise!specVars, Blocks
<1>2. CASE UNCHANGED vars
  BY <1>1, <1>2 DEF vars
<1>3. CASE NextStep
  <2>1. PICK t \in Threads : ThreadCall(t) \/ ThreadEnter(t) \/ ThreadWork(t)
    BY <1>3 DEF NextStep
  <2>2. CASE ThreadCall(t)
    BY <1>1, <2>2 DEF ThreadCall, CallAllocate, CallDeallocate, CallDeallocateForeign,
                      SetFitMode, CallBlocksInfo
  <2>3. CASE BeginSearch(t) \/ SearchStep(t) \/ InfoStep(t) \/ FinishInfo(t)
    BY <1>1, <2>3 DEF BeginSearch, SearchStep, InfoStep, FinishInfo, Return
  <2>4. CASE FinishAllocate(t)
    <3>1. PICK n \in Requests : n = call[t].arg
      BY <2>4 DEF FinishAllocate, Inside, IInv, Asked
    <3>2. Promise!Grant(n)
      BY <2>4, <3>1, PromiseGrant
    <3> QED BY <3>2 DEF Promise!SpecNext
  <2>5. CASE ThrowBadAlloc(t)
    <3>1. PICK n \in Requests : n = call[t].arg
      BY <2>5 DEF ThrowBadAlloc, Inside, IInv, Asked
    <3>2. Promise!Refuse(n)
      BY <2>5, <3>1, PromiseRefuse
    <3> QED BY <3>2 DEF Promise!SpecNext
  <2>6. CASE Deallocate(t)
    <3>1. PICK b \in Blocks : b = call[t].arg
      BY <2>6 DEF Deallocate
    <3>2. Promise!TakeBack(b)
      BY <2>6, <3>1, PromiseTakeBack
    <3> QED BY <3>1, <3>2 DEF Promise!SpecNext
  <2>7. CASE RejectForeign(t)
    <3>1. /\ last' = [op |-> "rejected", arg |-> -1, at |-> -1]
          /\ heap' = heap
      BY <2>7 DEF RejectForeign, Return
    <3>2. Promise!Reject
      BY <3>1 DEF Promise!Reject, Blocks
    <3> QED BY <3>2 DEF Promise!SpecNext
  <2> QED BY <2>1, <2>2, <2>3, <2>4, <2>5, <2>6, <2>7 DEF ThreadEnter, ThreadWork
<1> QED BY <1>2, <1>3

(* Whatever the threads do, every block handed out lies in a hole of the    *)
(* area, only the block named comes back, and do_allocate_sm throws         *)
(* bad_alloc only when no hole can take the header and the payload: the     *)
(* allocator implements AllocatorSpec.                                      *)
THEOREM KeepsPromiseAlways == Spec => KeepsPromise
<1>1. IInv /\ [NextStep]_vars => [Promise!SpecNext]_(Promise!specVars)
  BY PromiseStep
<1> QED BY <1>1, PromiseInit, Invariance, PTL DEF Spec, KeepsPromise, Promise!AllocatorPromise
====
