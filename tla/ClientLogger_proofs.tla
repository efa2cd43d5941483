---- MODULE ClientLogger_proofs ----
(***************************************************************************)
(* client_logger for every set of paths, every number of logger variables  *)
(* and every length of the builder's list: the count of a path is always   *)
(* the number of handles on it, and what a logger writes to is open.       *)
(*                                                                         *)
(* A loop over a list counts one path once for every handle on it, so the  *)
(* map is compared with a tally C: the number of handles by path.  The     *)
(* loops are followed handle by handle, by induction on the number of      *)
(* handles seen.                                                           *)
(***************************************************************************)
EXTENDS ClientLogger, FiniteSetTheorems, TLAPS

-----------------------------------------------------------------------------
(* Induction over the naturals: a set of naturals that is not empty has a  *)
(* least element, which follows from the well-foundedness of finite sets.  *)

LEMMA Least == ASSUME NEW S, S \subseteq Nat, S # {}
               PROVE  \E m \in S : \A n \in S : m <= n
<1> DEFINE T == {0..n : n \in S}
<1>1. T \subseteq FiniteSubsetsOf(Nat)
  <2>1. \A n \in S : IsFiniteSet(0..n) /\ 0..n \subseteq Nat
    BY FS_Interval
  <2>2. QED BY <2>1 DEF FiniteSubsetsOf
<1>2. PICK I \in T : \A J \in T : <<J, I>> \notin StrictSubsetOrdering(Nat)
  <2>1. IsWellFoundedOn(StrictSubsetOrdering(Nat), FiniteSubsetsOf(Nat))
    BY FS_StrictSubsetOrderingWellFounded
  <2>2. T # {}
    OBVIOUS
  <2>3. QED BY <1>1, <2>1, <2>2, WFMin
<1>3. PICK m \in S : I = 0..m
  OBVIOUS
<1>4. ASSUME NEW n \in S, ~ m <= n PROVE FALSE
  <2>1. 0..n \subseteq 0..m /\ m \in 0..m /\ m \notin 0..n
    BY <1>4
  <2>2. <<0..n, 0..m>> \in StrictSubsetOrdering(Nat)
    BY <2>1 DEF StrictSubsetOrdering
  <2>3. QED BY <1>2, <1>3, <2>2
<1>5. QED BY <1>4

LEMMA NatSet == ASSUME NEW S, 0 \in S, \A n \in Nat : n \in S => n + 1 \in S
                PROVE  Nat \subseteq S
<1>1. SUFFICES ASSUME Nat \ S # {} PROVE FALSE
  OBVIOUS
<1>2. PICK m \in Nat \ S : \A n \in Nat \ S : m <= n
  BY <1>1, Least
<1>3. m # 0 /\ m - 1 \in Nat
  BY <1>2
<1>4. m - 1 \in S
  BY <1>2, <1>3
<1>5. (m - 1) + 1 \in S
  BY <1>3, <1>4
<1>6. QED BY <1>2, <1>5

-----------------------------------------------------------------------------
(* The tally and the map *)

Stream == [count : 0..(Word - 1), open : BOOLEAN]
Handles == [path : Paths, ptr : BOOLEAN]

(* The map counts C, and has no entry for a path without a handle. *)
Tallies(g, C) ==
    /\ DOMAIN g \subseteq Paths \cup {NoPath}
    /\ \A q \in DOMAIN g : g[q] \in Stream
    /\ \A p \in Paths : /\ p \in DOMAIN g <=> C[p] > 0
                        /\ p \in DOMAIN g => g[p].count = C[p]

IsOpen(g, p) == p \in DOMAIN g /\ g[p].open

LEMMA Modulo ==
    ASSUME NEW x \in Nat, x < Word
    PROVE  x % Word = x /\ (x + Word) % Word = x
<1>1. Word \in Nat /\ Word > 0
  BY ClientLoggerAssumption
<1>2. \A d \in Nat : d < Word => d % Word = d
  BY <1>1, SMT
<1>3. x + Word = x + Word * 1
  BY <1>1
<1>4. (x + Word) % Word = x
  BY <1>1, SMT
<1> QED BY <1>2, <1>4

-----------------------------------------------------------------------------
(* One handle. *)

LEMMA EntryOf ==
    ASSUME NEW C \in [Paths -> Nat], NEW g, Tallies(g, C), NEW p \in Paths
    PROVE  /\ Entry(g, p) \in [count : Nat, open : BOOLEAN]
           /\ Entry(g, p).count = C[p]
           /\ Entry(g, p).open <=> IsOpen(g, p)
<1>1. CASE p \in DOMAIN g
  <2>1. g[p] \in Stream /\ g[p].count = C[p]
    BY <1>1 DEF Tallies
  <2>2. C[p] \in Nat /\ g[p] = [count |-> g[p].count, open |-> g[p].open] /\ g[p].open \in BOOLEAN
    BY <2>1 DEF Stream
  <2> QED BY <1>1, <2>1, <2>2 DEF Entry, IsOpen
<1>2. CASE p \notin DOMAIN g
  <2>1. C[p] = 0
    BY <1>2 DEF Tallies
  <2> QED BY <1>2, <2>1 DEF Entry, IsOpen
<1> QED BY <1>1, <1>2

LEMMA StoreTallies ==
    ASSUME NEW C \in [Paths -> Nat], NEW g, Tallies(g, C), NEW p \in Paths,
           NEW e \in Stream, e.count > 0,
           NEW D \in [Paths -> Nat], \A q \in Paths : q # p => D[q] = C[q], D[p] = e.count
    PROVE  /\ Tallies(Store(g, p, e), D)
           /\ \A q \in Paths : q # p => (IsOpen(Store(g, p, e), q) <=> IsOpen(g, q))
           /\ IsOpen(Store(g, p, e), p) <=> e.open
<1> DEFINE h == Store(g, p, e)
<1>1. DOMAIN h = DOMAIN g \cup {p} /\ h[p] = e /\ \A q \in DOMAIN g : q # p => h[q] = g[q]
  BY DEF Store
<1> HIDE DEF h
<1>2. \A q \in DOMAIN h : h[q] \in Stream
  BY <1>1 DEF Tallies
<1>3. \A q \in Paths : (q \in DOMAIN h <=> D[q] > 0) /\ (q \in DOMAIN h => h[q].count = D[q])
  BY <1>1 DEF Tallies
<1>4. Tallies(h, D)
  BY <1>1, <1>2, <1>3 DEF Tallies
<1>5. /\ \A q \in Paths : q # p => (IsOpen(h, q) <=> IsOpen(g, q))
      /\ IsOpen(h, p) <=> e.open
  BY <1>1 DEF IsOpen
<1> QED BY <1>4, <1>5 DEF h

LEMMA EraseTallies ==
    ASSUME NEW C \in [Paths -> Nat], NEW g, Tallies(g, C), NEW p \in Paths,
           NEW D \in [Paths -> Nat], \A q \in Paths : q # p => D[q] = C[q], D[p] = 0
    PROVE  /\ Tallies(Erase(g, p), D)
           /\ \A q \in Paths : q # p => (IsOpen(Erase(g, p), q) <=> IsOpen(g, q))
<1> DEFINE h == Erase(g, p)
<1>1. DOMAIN h = DOMAIN g \ {p} /\ \A q \in DOMAIN g : q # p => h[q] = g[q]
  BY DEF Erase
<1> HIDE DEF h
<1>2. \A q \in Paths : (q \in DOMAIN h <=> D[q] > 0) /\ (q \in DOMAIN h => h[q].count = D[q])
  BY <1>1 DEF Tallies
<1>3. Tallies(h, D)
  BY <1>1, <1>2 DEF Tallies
<1>4. \A q \in Paths : q # p => (IsOpen(h, q) <=> IsOpen(g, q))
  BY <1>1 DEF IsOpen
<1> QED BY <1>3, <1>4 DEF h

(* D is C after one more, or one less, handle on p. *)
OneMore(C, D, p) == \A q \in Paths : D[q] = IF q = p THEN C[q] + 1 ELSE C[q]

LEMMA AcquireOne ==
    ASSUME NEW C \in [Paths -> Nat], NEW D \in [Paths -> Nat], NEW g, Tallies(g, C),
           NEW h \in Handles, OneMore(C, D, h.path), D[h.path] < Word
    PROVE  /\ Tallies(Acquire(g, h), D)
           /\ \A q \in Paths : IsOpen(Acquire(g, h), q) <=> IsOpen(g, q)
<1>1. PICK p : p = h.path
  OBVIOUS
<1>2. p \in Paths /\ D[p] = C[p] + 1 /\ C[p] \in Nat /\ \A q \in Paths : q # p => D[q] = C[q]
  BY <1>1 DEF Handles, OneMore
<1>3. PICK e : e = Entry(g, p)
  OBVIOUS
<1>4. e \in [count : Nat, open : BOOLEAN] /\ e.count = C[p] /\ (e.open <=> IsOpen(g, p))
  BY <1>2, <1>3, EntryOf
<1>5. (C[p] + 1) % Word = C[p] + 1
  BY <1>1, <1>2, Modulo
<1>6. PICK f : f = [e EXCEPT !.count = (@ + 1) % Word]
  OBVIOUS
<1>7. f.count = C[p] + 1 /\ f.open = e.open /\ f = [count |-> C[p] + 1, open |-> e.open]
  BY <1>4, <1>5, <1>6
<1>8. C[p] + 1 \in 0..(Word - 1)
  BY <1>1, <1>2, ClientLoggerAssumption
<1>9. f \in Stream /\ f.count > 0 /\ D[p] = f.count
  BY <1>2, <1>4, <1>7, <1>8 DEF Stream
<1>10. Acquire(g, h) = Store(g, p, f)
  BY <1>1, <1>3, <1>6 DEF Acquire
<1>11. /\ Tallies(Store(g, p, f), D)
       /\ \A q \in Paths : q # p => (IsOpen(Store(g, p, f), q) <=> IsOpen(g, q))
       /\ IsOpen(Store(g, p, f), p) <=> f.open
  BY <1>2, <1>9, StoreTallies
<1> QED BY <1>4, <1>7, <1>10, <1>11

LEMMA ReleaseOne ==
    ASSUME NEW C \in [Paths -> Nat], NEW D \in [Paths -> Nat], NEW g, Tallies(g, C),
           NEW h \in Handles, OneMore(D, C, h.path), C[h.path] < Word
    PROVE  /\ Tallies(Release(g, h), D)
           /\ \A q \in Paths : D[q] > 0 => (IsOpen(Release(g, h), q) <=> IsOpen(g, q))
<1>1. PICK p : p = h.path
  OBVIOUS
<1>2. p \in Paths /\ C[p] = D[p] + 1 /\ D[p] \in Nat /\ \A q \in Paths : q # p => D[q] = C[q]
  BY <1>1 DEF Handles, OneMore
<1>3. PICK e : e = Entry(g, p)
  OBVIOUS
<1>4. e \in [count : Nat, open : BOOLEAN] /\ e.count = C[p] /\ (e.open <=> IsOpen(g, p))
  BY <1>2, <1>3, EntryOf
<1>5. (e.count + Word - 1) % Word = D[p]
  <2>1. D[p] < Word /\ Word \in Nat
    BY <1>1, <1>2, ClientLoggerAssumption
  <2>2. e.count + Word - 1 = D[p] + Word
    BY <1>2, <1>4, <2>1
  <2> QED BY <1>2, <2>1, <2>2, Modulo
<1>6. PICK f : f = [e EXCEPT !.count = D[p]]
  OBVIOUS
<1>7. Release(g, h) = IF D[p] = 0 THEN Erase(g, p) ELSE Store(g, p, f)
  BY <1>1, <1>3, <1>5, <1>6 DEF Release
<1>8. CASE D[p] = 0
  <2>1. /\ Tallies(Erase(g, p), D)
        /\ \A q \in Paths : q # p => (IsOpen(Erase(g, p), q) <=> IsOpen(g, q))
    BY <1>2, <1>8, EraseTallies
  <2> QED BY <1>7, <1>8, <2>1
<1>9. CASE D[p] # 0
  <2>1. f.count = D[p] /\ f.open = e.open /\ f = [count |-> D[p], open |-> e.open]
    BY <1>4, <1>6
  <2>2. D[p] \in 0..(Word - 1) /\ D[p] > 0
    BY <1>1, <1>2, <1>9, ClientLoggerAssumption
  <2>3. f \in Stream /\ f.count > 0 /\ D[p] = f.count
    BY <1>4, <2>1, <2>2 DEF Stream
  <2>4. /\ Tallies(Store(g, p, f), D)
        /\ \A q \in Paths : q # p => (IsOpen(Store(g, p, f), q) <=> IsOpen(g, q))
        /\ IsOpen(Store(g, p, f), p) <=> f.open
    BY <1>2, <2>3, StoreTallies
  <2> QED BY <1>4, <1>7, <1>9, <2>1, <2>4
<1> QED BY <1>8, <1>9

LEMMA OpenOne ==
    ASSUME NEW C \in [Paths -> Nat], NEW g, Tallies(g, C),
           NEW h \in Handles, ~ h.ptr, C[h.path] > 0, C[h.path] < Word
    PROVE  /\ Tallies(Open(g, h), C)
           /\ \A q \in Paths : IsOpen(Open(g, h), q) <=> IsOpen(g, q) \/ q = h.path
<1>1. PICK p : p = h.path
  OBVIOUS
<1>2. p \in Paths /\ C[p] \in Nat
  BY <1>1 DEF Handles
<1>3. PICK e : e = Entry(g, p)
  OBVIOUS
<1>4. e \in [count : Nat, open : BOOLEAN] /\ e.count = C[p]
  BY <1>2, <1>3, EntryOf
<1>5. PICK f : f = [e EXCEPT !.open = TRUE]
  OBVIOUS
<1>6. f.count = C[p] /\ f.open /\ f = [count |-> C[p], open |-> TRUE]
  BY <1>4, <1>5
<1>7. C[p] \in 0..(Word - 1)
  BY <1>1, <1>2, ClientLoggerAssumption
<1>8. f \in Stream /\ f.count > 0 /\ C[p] = f.count
  BY <1>1, <1>6, <1>7 DEF Stream
<1>9. Open(g, h) = Store(g, p, f)
  BY <1>1, <1>3, <1>5 DEF Open
<1>10. /\ Tallies(Store(g, p, f), C)
       /\ \A q \in Paths : q # p => (IsOpen(Store(g, p, f), q) <=> IsOpen(g, q))
       /\ IsOpen(Store(g, p, f), p) <=> f.open
  <2>1. \A q \in Paths : q # p => C[q] = C[q]
    OBVIOUS
  <2> QED BY <1>2, <1>8, <2>1, StoreTallies
<1> QED BY <1>1, <1>6, <1>9, <1>10

-----------------------------------------------------------------------------
(* The loops.  A recursive function is chosen among the functions that     *)
(* satisfy its equation: there is one, as there is for every shorter list. *)

LEMMA AcquireLoop ==
    ASSUME NEW g, NEW hs, Len(hs) \in Nat
    PROVE  \E f : /\ f[0] = g
                  /\ \A k \in Nat : k < Len(hs) => f[k + 1] = Acquire(f[k], hs[k + 1])
                  /\ AcquireAll(g, hs) = f[Len(hs)]
<1> DEFINE Loop(f, n) == f = [k \in 0..n |-> IF k = 0 THEN g ELSE Acquire(f[k - 1], hs[k])]
           S == {n \in Nat : \E f : Loop(f, n)}
<1>1. 0 \in S
  <2> DEFINE f == [k \in 0..0 |-> g]
  <2>1. Loop(f, 0)
    OBVIOUS
  <2> QED BY <2>1
<1>2. ASSUME NEW n \in Nat, n \in S PROVE n + 1 \in S
  <2>1. PICK f : Loop(f, n)
    BY <1>2
  <2> DEFINE e == [k \in 0..(n + 1) |-> IF k = n + 1 THEN Acquire(f[n], hs[n + 1]) ELSE f[k]]
  <2>2. \A k \in 0..(n + 1) : e[k] = IF k = 0 THEN g ELSE Acquire(e[k - 1], hs[k])
    <3>1. ASSUME NEW k \in 0..(n + 1) PROVE e[k] = IF k = 0 THEN g ELSE Acquire(e[k - 1], hs[k])
      <4>1. CASE k = n + 1
        BY <4>1
      <4>2. CASE k # n + 1
        <5>1. k \in 0..n /\ (k # 0 => k - 1 \in 0..n)
          BY <4>2
        <5>2. f[k] = IF k = 0 THEN g ELSE Acquire(f[k - 1], hs[k])
          BY <2>1, <5>1
        <5> QED BY <5>1, <5>2
      <4> QED BY <4>1, <4>2
    <3> QED BY <3>1
  <2>3. Loop(e, n + 1)
    <3>1. e = [k \in 0..(n + 1) |-> e[k]]
      OBVIOUS
    <3> HIDE DEF e
    <3> QED BY <2>2, <3>1
  <2>4. \E j : Loop(j, n + 1)
    <3> HIDE DEF e, Loop
    <3> QED BY <2>3
  <2> HIDE DEF Loop
  <2> QED BY <2>4
<1>3. Len(hs) \in S
  <2> HIDE DEF S
  <2> QED BY <1>1, <1>2, NatSet
<1>4. PICK f : Loop(f, Len(hs)) /\ AcquireAll(g, hs) = f[Len(hs)]
  BY <1>3 DEF AcquireAll, ForEach
<1>5. ASSUME NEW k \in Nat, k < Len(hs) PROVE f[k + 1] = Acquire(f[k], hs[k + 1])
  <2>1. k + 1 \in 0..Len(hs) /\ k + 1 # 0 /\ (k + 1) - 1 = k
    BY <1>5
  <2> QED BY <1>4, <2>1
<1>6. f[0] = g
  BY <1>4
<1> QED BY <1>4, <1>5, <1>6

LEMMA ReleaseLoop ==
    ASSUME NEW g, NEW hs, Len(hs) \in Nat
    PROVE  \E f : /\ f[0] = g
                  /\ \A k \in Nat : k < Len(hs) => f[k + 1] = Release(f[k], hs[k + 1])
                  /\ ReleaseAll(g, hs) = f[Len(hs)]
<1> DEFINE Loop(f, n) == f = [k \in 0..n |-> IF k = 0 THEN g ELSE Release(f[k - 1], hs[k])]
           S == {n \in Nat : \E f : Loop(f, n)}
<1>1. 0 \in S
  <2> DEFINE f == [k \in 0..0 |-> g]
  <2>1. Loop(f, 0)
    OBVIOUS
  <2> QED BY <2>1
<1>2. ASSUME NEW n \in Nat, n \in S PROVE n + 1 \in S
  <2>1. PICK f : Loop(f, n)
    BY <1>2
  <2> DEFINE e == [k \in 0..(n + 1) |-> IF k = n + 1 THEN Release(f[n], hs[n + 1]) ELSE f[k]]
  <2>2. \A k \in 0..(n + 1) : e[k] = IF k = 0 THEN g ELSE Release(e[k - 1], hs[k])
    <3>1. ASSUME NEW k \in 0..(n + 1) PROVE e[k] = IF k = 0 THEN g ELSE Release(e[k - 1], hs[k])
      <4>1. CASE k = n + 1
        BY <4>1
      <4>2. CASE k # n + 1
        <5>1. k \in 0..n /\ (k # 0 => k - 1 \in 0..n)
          BY <4>2
        <5>2. f[k] = IF k = 0 THEN g ELSE Release(f[k - 1], hs[k])
          BY <2>1, <5>1
        <5> QED BY <5>1, <5>2
      <4> QED BY <4>1, <4>2
    <3> QED BY <3>1
  <2>3. Loop(e, n + 1)
    <3>1. e = [k \in 0..(n + 1) |-> e[k]]
      OBVIOUS
    <3> HIDE DEF e
    <3> QED BY <2>2, <3>1
  <2>4. \E j : Loop(j, n + 1)
    <3> HIDE DEF e, Loop
    <3> QED BY <2>3
  <2> HIDE DEF Loop
  <2> QED BY <2>4
<1>3. Len(hs) \in S
  <2> HIDE DEF S
  <2> QED BY <1>1, <1>2, NatSet
<1>4. PICK f : Loop(f, Len(hs)) /\ ReleaseAll(g, hs) = f[Len(hs)]
  BY <1>3 DEF ReleaseAll, ForEach
<1>5. ASSUME NEW k \in Nat, k < Len(hs) PROVE f[k + 1] = Release(f[k], hs[k + 1])
  <2>1. k + 1 \in 0..Len(hs) /\ k + 1 # 0 /\ (k + 1) - 1 = k
    BY <1>5
  <2> QED BY <1>4, <2>1
<1>6. f[0] = g
  BY <1>4
<1> QED BY <1>4, <1>5, <1>6

LEMMA OpenLoop ==
    ASSUME NEW g, NEW hs, Len(hs) \in Nat
    PROVE  \E f : /\ f[0] = g
                  /\ \A k \in Nat : k < Len(hs) => f[k + 1] = Open(f[k], hs[k + 1])
                  /\ OpenAll(g, hs) = f[Len(hs)]
<1> DEFINE Loop(f, n) == f = [k \in 0..n |-> IF k = 0 THEN g ELSE Open(f[k - 1], hs[k])]
           S == {n \in Nat : \E f : Loop(f, n)}
<1>1. 0 \in S
  <2> DEFINE f == [k \in 0..0 |-> g]
  <2>1. Loop(f, 0)
    OBVIOUS
  <2> QED BY <2>1
<1>2. ASSUME NEW n \in Nat, n \in S PROVE n + 1 \in S
  <2>1. PICK f : Loop(f, n)
    BY <1>2
  <2> DEFINE e == [k \in 0..(n + 1) |-> IF k = n + 1 THEN Open(f[n], hs[n + 1]) ELSE f[k]]
  <2>2. \A k \in 0..(n + 1) : e[k] = IF k = 0 THEN g ELSE Open(e[k - 1], hs[k])
    <3>1. ASSUME NEW k \in 0..(n + 1) PROVE e[k] = IF k = 0 THEN g ELSE Open(e[k - 1], hs[k])
      <4>1. CASE k = n + 1
        BY <4>1
      <4>2. CASE k # n + 1
        <5>1. k \in 0..n /\ (k # 0 => k - 1 \in 0..n)
          BY <4>2
        <5>2. f[k] = IF k = 0 THEN g ELSE Open(f[k - 1], hs[k])
          BY <2>1, <5>1
        <5> QED BY <5>1, <5>2
      <4> QED BY <4>1, <4>2
    <3> QED BY <3>1
  <2>3. Loop(e, n + 1)
    <3>1. e = [k \in 0..(n + 1) |-> e[k]]
      OBVIOUS
    <3> HIDE DEF e
    <3> QED BY <2>2, <3>1
  <2>4. \E j : Loop(j, n + 1)
    <3> HIDE DEF e, Loop
    <3> QED BY <2>3
  <2> HIDE DEF Loop
  <2> QED BY <2>4
<1>3. Len(hs) \in S
  <2> HIDE DEF S
  <2> QED BY <1>1, <1>2, NatSet
<1>4. PICK f : Loop(f, Len(hs)) /\ OpenAll(g, hs) = f[Len(hs)]
  BY <1>3 DEF OpenAll, ForEach
<1>5. ASSUME NEW k \in Nat, k < Len(hs) PROVE f[k + 1] = Open(f[k], hs[k + 1])
  <2>1. k + 1 \in 0..Len(hs) /\ k + 1 # 0 /\ (k + 1) - 1 = k
    BY <1>5
  <2> QED BY <1>4, <2>1
<1>6. f[0] = g
  BY <1>4
<1> QED BY <1>4, <1>5, <1>6

(* The handles on a path among the first k. *)
Among(hs, k, p) == Cardinality({i \in 1..k : hs[i].path = p})

LEMMA AmongFacts ==
    ASSUME NEW hs, NEW k \in Nat, NEW p
    PROVE  /\ Among(hs, k, p) \in Nat /\ Among(hs, k, p) <= k
           /\ Among(hs, 0, p) = 0
           /\ Among(hs, k + 1, p) = Among(hs, k, p) + (IF hs[k + 1].path = p THEN 1 ELSE 0)
<1> DEFINE S(n) == {i \in 1..n : hs[i].path = p}
<1>1. IsFiniteSet(1..k) /\ Cardinality(1..k) = k
  BY FS_Interval
<1>2. IsFiniteSet(S(k)) /\ Cardinality(S(k)) <= k
  <2>1. S(k) \in SUBSET (1..k)
    OBVIOUS
  <2> HIDE DEF S
  <2> QED BY <1>1, <2>1, FS_Subset
<1>3. Cardinality(S(k)) \in Nat
  BY <1>2, FS_CardinalityType
<1>4. Cardinality(S(0)) = 0
  <2>1. S(0) = {}
    OBVIOUS
  <2> QED BY <2>1, FS_EmptySet
<1>5. Cardinality(S(k + 1)) = Cardinality(S(k)) + (IF hs[k + 1].path = p THEN 1 ELSE 0)
  <2>1. CASE hs[k + 1].path = p
    <3>1. S(k + 1) = S(k) \cup {k + 1} /\ k + 1 \notin S(k)
      BY <2>1
    <3> HIDE DEF S
    <3>2. Cardinality(S(k) \cup {k + 1}) = Cardinality(S(k)) + 1
      BY <1>2, <3>1, FS_AddElement
    <3> QED BY <2>1, <3>1, <3>2
  <2>2. CASE hs[k + 1].path # p
    <3>1. S(k + 1) = S(k)
      BY <2>2
    <3> HIDE DEF S
    <3> QED BY <1>3, <2>2, <3>1
  <2> QED BY <2>1, <2>2
<1> QED BY <1>2, <1>3, <1>4, <1>5 DEF Among

LEMMA AmongLess ==
    ASSUME NEW hs, NEW n \in Nat, NEW k \in 0..n, NEW p
    PROVE  Among(hs, k, p) <= Among(hs, n, p)
<1> DEFINE A == {i \in 1..k : hs[i].path = p}
           B == {i \in 1..n : hs[i].path = p}
<1>1. A \in SUBSET B /\ B \in SUBSET (1..n)
  OBVIOUS
<1>2. IsFiniteSet(1..n)
  BY FS_Interval
<1> HIDE DEF A, B
<1>3. IsFiniteSet(B)
  BY <1>1, <1>2, FS_Subset
<1>4. Cardinality(A) <= Cardinality(B)
  BY <1>1, <1>3, FS_Subset
<1> QED BY <1>4 DEF Among, A, B

LEMMA OnIsAmong ==
    ASSUME NEW T, NEW hs \in Seq(T), NEW p
    PROVE  /\ Len(hs) \in Nat /\ DOMAIN hs = 1..Len(hs)
           /\ Cardinality(On(hs, p)) = Among(hs, Len(hs), p)
           /\ On(hs, p) = {} <=> Among(hs, Len(hs), p) = 0
<1>1. Len(hs) \in Nat /\ DOMAIN hs = 1..Len(hs)
  OBVIOUS
<1>2. On(hs, p) = {i \in 1..Len(hs) : hs[i].path = p}
  BY <1>1 DEF On
<1>3. On(hs, p) \in SUBSET (1..Len(hs)) /\ IsFiniteSet(1..Len(hs))
  BY <1>1, <1>2, FS_Interval
<1>4. IsFiniteSet(On(hs, p))
  BY <1>3, FS_Subset
<1> QED BY <1>1, <1>2, <1>4, FS_EmptySet DEF Among

LEMMA AcquireAllTallies ==
    ASSUME NEW C \in [Paths -> Nat], NEW g, Tallies(g, C), NEW hs \in Seq(Handles),
           NEW D \in [Paths -> Nat],
           \A p \in Paths : D[p] = C[p] + Cardinality(On(hs, p)) /\ D[p] < Word
    PROVE  /\ Tallies(AcquireAll(g, hs), D)
           /\ \A p \in Paths : IsOpen(AcquireAll(g, hs), p) <=> IsOpen(g, p)
<1>1. Len(hs) \in Nat /\ \A k \in Nat : k < Len(hs) => hs[k + 1] \in Handles
  BY OnIsAmong
<1>2. PICK f : /\ f[0] = g
               /\ \A k \in Nat : k < Len(hs) => f[k + 1] = Acquire(f[k], hs[k + 1])
               /\ AcquireAll(g, hs) = f[Len(hs)]
  BY <1>1, AcquireLoop
<1> DEFINE T(n) == [p \in Paths |-> C[p] + Among(hs, n, p)]
           Same(n) == \A p \in Paths : IsOpen(f[n], p) <=> IsOpen(g, p)
           S == {n \in Nat : n <= Len(hs) => Tallies(f[n], T(n)) /\ Same(n)}
<1>3. 0 \in S
  <2>1. T(0) = C
    BY AmongFacts
  <2> QED BY <1>2, <2>1
<1>4. ASSUME NEW n \in Nat, n \in S PROVE n + 1 \in S
  <2>1. SUFFICES ASSUME n + 1 <= Len(hs) PROVE Tallies(f[n + 1], T(n + 1)) /\ Same(n + 1)
    OBVIOUS
  <2>2. n < Len(hs) /\ n <= Len(hs)
    BY <1>1, <2>1
  <2>3. Tallies(f[n], T(n)) /\ Same(n)
    BY <1>4, <2>2
  <2>4. PICK h : h = hs[n + 1]
    OBVIOUS
  <2>5. h \in Handles /\ h.path \in Paths /\ f[n + 1] = Acquire(f[n], h)
    BY <1>1, <1>2, <2>2, <2>4 DEF Handles
  <2>6. T(n) \in [Paths -> Nat] /\ T(n + 1) \in [Paths -> Nat]
    <3>1. ASSUME NEW p \in Paths
          PROVE  C[p] + Among(hs, n, p) \in Nat /\ C[p] + Among(hs, n + 1, p) \in Nat
      <4>1. n + 1 \in Nat /\ C[p] \in Nat
        OBVIOUS
      <4>2. Among(hs, n, p) \in Nat /\ Among(hs, n + 1, p) \in Nat
        BY <4>1, AmongFacts
      <4> QED BY <4>1, <4>2
    <3> QED BY <3>1
  <2>7. OneMore(T(n), T(n + 1), h.path)
    <3>1. ASSUME NEW p \in Paths
          PROVE  T(n + 1)[p] = IF p = h.path THEN T(n)[p] + 1 ELSE T(n)[p]
      <4>1. Among(hs, n + 1, p) = Among(hs, n, p) + (IF h.path = p THEN 1 ELSE 0)
            /\ Among(hs, n, p) \in Nat /\ C[p] \in Nat
        BY <2>4, AmongFacts
      <4> QED BY <4>1
    <3> QED BY <3>1 DEF OneMore
  <2>8. T(n + 1)[h.path] < Word
    <3>1. Among(hs, n + 1, h.path) <= Among(hs, Len(hs), h.path)
      BY <1>1, <2>1, AmongLess
    <3>2. D[h.path] = C[h.path] + Among(hs, Len(hs), h.path) /\ D[h.path] < Word
      BY <2>5, OnIsAmong
    <3>3. Among(hs, n + 1, h.path) \in Nat /\ Among(hs, Len(hs), h.path) \in Nat
          /\ C[h.path] \in Nat /\ Word \in Nat
      BY <1>1, <2>5, AmongFacts, ClientLoggerAssumption
    <3> QED BY <2>5, <3>1, <3>2, <3>3
  <2> HIDE DEF T
  <2>9. /\ Tallies(Acquire(f[n], h), T(n + 1))
        /\ \A q \in Paths : IsOpen(Acquire(f[n], h), q) <=> IsOpen(f[n], q)
    BY <2>3, <2>5, <2>6, <2>7, <2>8, AcquireOne
  <2> QED BY <2>3, <2>5, <2>9
<1>5. Len(hs) \in S
  <2> HIDE DEF S
  <2> QED BY <1>1, <1>3, <1>4, NatSet
<1>6. T(Len(hs)) = D
  BY OnIsAmong
<1> QED BY <1>1, <1>2, <1>5, <1>6

LEMMA ReleaseAllTallies ==
    ASSUME NEW C \in [Paths -> Nat], NEW g, Tallies(g, C), NEW hs \in Seq(Handles),
           NEW D \in [Paths -> Nat],
           \A p \in Paths : C[p] = D[p] + Cardinality(On(hs, p)) /\ C[p] < Word
    PROVE  /\ Tallies(ReleaseAll(g, hs), D)
           /\ \A p \in Paths : D[p] > 0 => (IsOpen(ReleaseAll(g, hs), p) <=> IsOpen(g, p))
<1>1. Len(hs) \in Nat /\ \A k \in Nat : k < Len(hs) => hs[k + 1] \in Handles
  BY OnIsAmong
<1>2. PICK f : /\ f[0] = g
               /\ \A k \in Nat : k < Len(hs) => f[k + 1] = Release(f[k], hs[k + 1])
               /\ ReleaseAll(g, hs) = f[Len(hs)]
  BY <1>1, ReleaseLoop
<1> DEFINE T(n) == [p \in Paths |-> C[p] - Among(hs, n, p)]
           Same(n) == \A p \in Paths : D[p] > 0 => (IsOpen(f[n], p) <=> IsOpen(g, p))
           S == {n \in Nat : n <= Len(hs) => Tallies(f[n], T(n)) /\ Same(n)}
<1>3. \A n \in Nat : n <= Len(hs) =>
        \A p \in Paths : /\ Among(hs, n, p) \in Nat /\ D[p] \in Nat /\ C[p] \in Nat
                         /\ T(n)[p] \in Nat /\ T(n)[p] <= C[p] /\ D[p] <= T(n)[p]
  <2> SUFFICES ASSUME NEW n \in Nat, n <= Len(hs), NEW p \in Paths
               PROVE  /\ Among(hs, n, p) \in Nat /\ D[p] \in Nat /\ C[p] \in Nat
                      /\ T(n)[p] \in Nat /\ T(n)[p] <= C[p] /\ D[p] <= T(n)[p]
    OBVIOUS
  <2>1. Among(hs, n, p) <= Among(hs, Len(hs), p)
    BY <1>1, AmongLess
  <2>2. Among(hs, n, p) \in Nat /\ Among(hs, Len(hs), p) \in Nat
    BY <1>1, AmongFacts
  <2>3. C[p] = D[p] + Among(hs, Len(hs), p) /\ D[p] \in Nat /\ C[p] \in Nat
    BY OnIsAmong
  <2> QED BY <2>1, <2>2, <2>3
<1>4. 0 \in S
  <2>1. T(0) = C
    BY <1>1, <1>3, AmongFacts
  <2> QED BY <1>2, <2>1
<1>5. ASSUME NEW n \in Nat, n \in S PROVE n + 1 \in S
  <2>1. SUFFICES ASSUME n + 1 <= Len(hs) PROVE Tallies(f[n + 1], T(n + 1)) /\ Same(n + 1)
    OBVIOUS
  <2>2. n < Len(hs) /\ n <= Len(hs)
    BY <1>1, <2>1
  <2>3. Tallies(f[n], T(n)) /\ Same(n)
    BY <1>5, <2>2
  <2>4. PICK h : h = hs[n + 1]
    OBVIOUS
  <2>5. h \in Handles /\ h.path \in Paths /\ f[n + 1] = Release(f[n], h)
    BY <1>1, <1>2, <2>2, <2>4 DEF Handles
  <2>6. T(n) \in [Paths -> Nat] /\ T(n + 1) \in [Paths -> Nat]
    BY <1>3, <2>1, <2>2
  <2>7. OneMore(T(n + 1), T(n), h.path)
    <3>1. ASSUME NEW p \in Paths
          PROVE  T(n)[p] = IF p = h.path THEN T(n + 1)[p] + 1 ELSE T(n + 1)[p]
      <4>1. Among(hs, n + 1, p) = Among(hs, n, p) + (IF h.path = p THEN 1 ELSE 0)
            /\ Among(hs, n, p) \in Nat /\ C[p] \in Nat
        BY <2>4, AmongFacts
      <4> QED BY <4>1
    <3> QED BY <3>1 DEF OneMore
  <2>8. T(n)[h.path] < Word /\ \A p \in Paths : D[p] > 0 => T(n + 1)[p] > 0
    BY <1>3, <2>1, <2>2, <2>5, ClientLoggerAssumption
  <2> HIDE DEF T
  <2>9. /\ Tallies(Release(f[n], h), T(n + 1))
        /\ \A q \in Paths : T(n + 1)[q] > 0 =>
              (IsOpen(Release(f[n], h), q) <=> IsOpen(f[n], q))
    BY <2>3, <2>5, <2>6, <2>7, <2>8, ReleaseOne
  <2> QED BY <2>3, <2>5, <2>8, <2>9
<1>6. Len(hs) \in S
  <2> HIDE DEF S
  <2> QED BY <1>1, <1>4, <1>5, NatSet
<1>7. T(Len(hs)) = D
  <2>1. \A p \in Paths : T(Len(hs))[p] = D[p]
    BY <1>1, <1>3, OnIsAmong
  <2> QED BY <2>1
<1> QED BY <1>1, <1>2, <1>6, <1>7

LEMMA OpenAllTallies ==
    ASSUME NEW C \in [Paths -> Nat], NEW g, Tallies(g, C), NEW hs \in Seq(Handles),
           \A k \in DOMAIN hs : ~ hs[k].ptr /\ C[hs[k].path] > 0,
           \A p \in Paths : C[p] < Word
    PROVE  /\ Tallies(OpenAll(g, hs), C)
           /\ \A p \in Paths :
                 IsOpen(OpenAll(g, hs), p) <=> IsOpen(g, p) \/ On(hs, p) # {}
<1>1. Len(hs) \in Nat /\ \A k \in Nat : k < Len(hs) => hs[k + 1] \in Handles
                                                      /\ k + 1 \in DOMAIN hs
  BY OnIsAmong
<1>2. PICK f : /\ f[0] = g
               /\ \A k \in Nat : k < Len(hs) => f[k + 1] = Open(f[k], hs[k + 1])
               /\ OpenAll(g, hs) = f[Len(hs)]
  <2>1. Len(hs) \in Nat
    BY <1>1
  <2> QED BY <2>1, OpenLoop
<1> DEFINE More(n) == \A p \in Paths : IsOpen(f[n], p) <=> IsOpen(g, p) \/ Among(hs, n, p) # 0
           S == {n \in Nat : n <= Len(hs) => Tallies(f[n], C) /\ More(n)}
<1>3. 0 \in S
  BY <1>2, AmongFacts
<1>4. ASSUME NEW n \in Nat, n \in S PROVE n + 1 \in S
  <2>1. SUFFICES ASSUME n + 1 <= Len(hs) PROVE Tallies(f[n + 1], C) /\ More(n + 1)
    OBVIOUS
  <2>2. n < Len(hs) /\ n <= Len(hs)
    BY <1>1, <2>1
  <2>3. Tallies(f[n], C) /\ More(n)
    BY <1>4, <2>2
  <2>4. PICK h : h = hs[n + 1]
    OBVIOUS
  <2>5. /\ h \in Handles /\ h.path \in Paths /\ f[n + 1] = Open(f[n], h)
        /\ ~ h.ptr /\ C[h.path] > 0 /\ C[h.path] < Word
    BY <1>1, <1>2, <2>2, <2>4 DEF Handles
  <2>6. /\ Tallies(Open(f[n], h), C)
        /\ \A q \in Paths : IsOpen(Open(f[n], h), q) <=> IsOpen(f[n], q) \/ q = h.path
    BY <2>3, <2>5, OpenOne
  <2>7. \A p \in Paths : Among(hs, n + 1, p) # 0 <=> Among(hs, n, p) # 0 \/ p = h.path
    <3>1. ASSUME NEW p \in Paths
          PROVE  Among(hs, n + 1, p) # 0 <=> Among(hs, n, p) # 0 \/ p = h.path
      <4>1. Among(hs, n + 1, p) = Among(hs, n, p) + (IF h.path = p THEN 1 ELSE 0)
            /\ Among(hs, n, p) \in Nat
        BY <2>4, AmongFacts
      <4> QED BY <4>1
    <3> QED BY <3>1
  <2> QED BY <2>3, <2>5, <2>6, <2>7
<1>5. Len(hs) \in S
  <2> HIDE DEF S
  <2> QED BY <1>1, <1>3, <1>4, NatSet
<1>6. \A p \in Paths : On(hs, p) # {} <=> Among(hs, Len(hs), p) # 0
  BY OnIsAmong
<1> QED BY <1>1, <1>2, <1>5, <1>6

-----------------------------------------------------------------------------
(* The handles of all loggers, whose variables hold L. *)

Writing == [path : Paths, ptr : {TRUE}]
Shelf(L, p) ==
    {x \in {s \in Slots : L[s] # NoLogger} \X (1..MaxStreams) : x[2] \in On(L[x[1]], p)}
Held(L, s, p) == IF L[s] = NoLogger THEN 0 ELSE Cardinality(On(L[s], p))

Short(hs) == hs \in Seq(Handles) /\ Len(hs) <= MaxStreams
AllShort(L) == \A s \in Slots : L[s] # NoLogger => Short(L[s])

LEMMA OnFinite ==
    ASSUME NEW hs, Short(hs), NEW p
    PROVE  /\ IsFiniteSet(On(hs, p)) /\ On(hs, p) \subseteq 1..MaxStreams
           /\ Cardinality(On(hs, p)) \in Nat /\ Cardinality(On(hs, p)) <= MaxStreams
<1>1. Len(hs) \in Nat /\ DOMAIN hs = 1..Len(hs) /\ MaxStreams \in Nat
  BY ClientLoggerAssumption DEF Short
<1>2. On(hs, p) \in SUBSET (1..MaxStreams)
  BY <1>1 DEF On, Short
<1>3. IsFiniteSet(1..MaxStreams) /\ Cardinality(1..MaxStreams) = MaxStreams
  BY <1>1, FS_Interval
<1> QED BY <1>2, <1>3, FS_Subset, FS_CardinalityType

LEMMA ShelfFinite ==
    ASSUME NEW L, NEW p
    PROVE  /\ IsFiniteSet(Shelf(L, p)) /\ Cardinality(Shelf(L, p)) \in Nat
           /\ Cardinality(Shelf(L, p)) <= Cardinality(Slots) * MaxStreams
<1> DEFINE A == {s \in Slots : L[s] # NoLogger}
           B == 1..MaxStreams
<1>1. IsFiniteSet(B) /\ Cardinality(B) = MaxStreams
  BY ClientLoggerAssumption, FS_Interval
<1>2. IsFiniteSet(Slots) /\ Cardinality(Slots) \in Nat
  BY ClientLoggerAssumption, FS_CardinalityType
<1>3. Shelf(L, p) \in SUBSET (Slots \X B)
  BY DEF Shelf
<1> HIDE DEF B
<1>4. IsFiniteSet(Slots \X B) /\ Cardinality(Slots \X B) = Cardinality(Slots) * MaxStreams
  BY <1>1, <1>2, FS_Product
<1>5. IsFiniteSet(Shelf(L, p)) /\ Cardinality(Shelf(L, p)) <= Cardinality(Slots \X B)
  BY <1>3, <1>4, FS_Subset
<1> QED BY <1>4, <1>5, FS_CardinalityType

LEMMA HeldOf ==
    ASSUME NEW L, AllShort(L), NEW s \in Slots, NEW p
    PROVE  /\ Held(L, s, p) \in Nat
           /\ Cardinality({x \in Shelf(L, p) : x[1] = s}) = Held(L, s, p)
<1> DEFINE X == {x \in Shelf(L, p) : x[1] = s}
<1>1. CASE L[s] = NoLogger
  <2>1. X = {}
    BY <1>1 DEF Shelf
  <2> HIDE DEF X
  <2>2. Cardinality(X) = 0
    BY <2>1, FS_EmptySet
  <2> QED BY <1>1, <2>2 DEF Held, X
<1>2. CASE L[s] # NoLogger
  <2>1. Short(L[s])
    BY <1>2 DEF AllShort
  <2>2. IsFiniteSet(On(L[s], p)) /\ Cardinality(On(L[s], p)) \in Nat
        /\ On(L[s], p) \subseteq 1..MaxStreams
    BY <2>1, OnFinite
  <2>3. X = {s} \X On(L[s], p)
    <3>1. ASSUME NEW x \in X PROVE x \in {s} \X On(L[s], p)
      BY <3>1 DEF Shelf
    <3>2. ASSUME NEW x \in {s} \X On(L[s], p) PROVE x \in X
      BY <1>2, <2>2, <3>2 DEF Shelf
    <3> QED BY <3>1, <3>2
  <2>4. IsFiniteSet({s}) /\ Cardinality({s}) = 1
    BY FS_Singleton
  <2>5. Cardinality({s} \X On(L[s], p)) = 1 * Cardinality(On(L[s], p))
    BY <2>2, <2>4, FS_Product
  <2>6. Cardinality(X) = Cardinality(On(L[s], p))
    <3> HIDE DEF X
    <3> QED BY <2>2, <2>3, <2>5
  <2> QED BY <1>2, <2>2, <2>6 DEF Held
<1> QED BY <1>1, <1>2

(* What one variable holds is replaced. *)
LEMMA ReplaceOne ==
    ASSUME NEW L, AllShort(L), NEW M, AllShort(M), NEW s \in Slots, NEW p,
           \A t \in Slots : t # s => M[t] = L[t]
    PROVE  Cardinality(Shelf(M, p)) + Held(L, s, p) = Cardinality(Shelf(L, p)) + Held(M, s, p)
<1> DEFINE Others(K) == {x \in Shelf(K, p) : x[1] # s}
           Own(K) == {x \in Shelf(K, p) : x[1] = s}
<1>1. Others(M) = Others(L)
  <2>1. ASSUME NEW x \in Others(M) PROVE x \in Others(L)
    BY <2>1 DEF Shelf
  <2>2. ASSUME NEW x \in Others(L) PROVE x \in Others(M)
    BY <2>2 DEF Shelf
  <2> QED BY <2>1, <2>2
<1>2. ASSUME NEW K, AllShort(K)
      PROVE  /\ Cardinality(Shelf(K, p)) = Cardinality(Others(K)) + Held(K, s, p)
             /\ Held(K, s, p) \in Nat /\ Cardinality(Others(K)) \in Nat
  <2>1. IsFiniteSet(Shelf(K, p))
    BY ShelfFinite
  <2>2. /\ Others(K) \in SUBSET Shelf(K, p) /\ Own(K) \in SUBSET Shelf(K, p)
        /\ Shelf(K, p) = Others(K) \cup Own(K) /\ Others(K) \cap Own(K) = {}
    OBVIOUS
  <2>3. Cardinality(Own(K)) = Held(K, s, p) /\ Held(K, s, p) \in Nat
    BY <1>2, HeldOf
  <2> HIDE DEF Others, Own
  <2>4. IsFiniteSet(Others(K)) /\ IsFiniteSet(Own(K))
    BY <2>1, <2>2, FS_Subset
  <2>5. /\ Cardinality(Others(K)) \in Nat /\ Cardinality(Own(K)) \in Nat
        /\ Cardinality(Others(K) \cup Own(K)) =
             Cardinality(Others(K)) + Cardinality(Own(K)) - Cardinality(Others(K) \cap Own(K))
    BY <2>4, FS_Union, FS_CardinalityType
  <2>6. Cardinality(Others(K) \cap Own(K)) = 0
    BY <2>2, FS_EmptySet
  <2> QED BY <2>2, <2>3, <2>5, <2>6
<1> HIDE DEF Others
<1> QED BY <1>1, <1>2

-----------------------------------------------------------------------------
(* The inductive invariant, of a map g, a builder b and loggers L, so that *)
(* it can be followed through the steps of one call.                       *)

Queued == [path : Paths, ptr : {FALSE}]

WellFormed(b, L) ==
    /\ b \in Seq(Queued) /\ Len(b) <= MaxStreams
    /\ L \in [Slots -> {NoLogger} \cup Seq(Writing)]
    /\ \A s \in Slots : L[s] # NoLogger => Len(L[s]) <= MaxStreams

Refs(b, L) == [p \in Paths |-> Cardinality(On(b, p)) + Cardinality(Shelf(L, p))]

AllOpen(g, L) ==
    \A s \in Slots : L[s] # NoLogger => \A p \in Paths : On(L[s], p) # {} => IsOpen(g, p)

LoggersInv(g, b, L) == WellFormed(b, L) /\ Tallies(g, Refs(b, L)) /\ AllOpen(g, L)

IInv == LoggersInv(global, builder, loggers)

LEMMA WritingLists ==
    ASSUME NEW hs \in Seq(Writing)
    PROVE  hs # NoLogger /\ hs \in Seq(Handles)
<1>1. hs # NoLogger
  <2>1. ASSUME hs = NoLogger PROVE FALSE
    <3>1. NoLogger[1].ptr = FALSE /\ Len(NoLogger) = 1
      BY DEF NoLogger, Handle
    <3>2. hs[1] \in Writing
      BY <2>1, <3>1
    <3> QED BY <2>1, <3>1, <3>2 DEF Writing
  <2> QED BY <2>1
<1>2. Writing \subseteq Handles
  BY DEF Writing, Handles
<1>3. Len(hs) \in Nat /\ hs \in [1..Len(hs) -> Writing]
  OBVIOUS
<1>4. hs \in [1..Len(hs) -> Handles]
  BY <1>2, <1>3
<1> QED BY <1>1, <1>3, <1>4

LEMMA QueuedLists ==
    ASSUME NEW b \in Seq(Queued)
    PROVE  /\ b \in Seq(Handles) /\ Len(b) \in Nat /\ DOMAIN b = 1..Len(b)
           /\ \A k \in DOMAIN b : b[k] \in Queued /\ ~ b[k].ptr /\ b[k].path \in Paths
                                  /\ b[k] \in Handles
<1>1. Queued \subseteq Handles
  BY DEF Queued, Handles
<1>2. Len(b) \in Nat /\ b \in [1..Len(b) -> Queued]
  OBVIOUS
<1>3. b \in [1..Len(b) -> Handles]
  BY <1>1, <1>2
<1>4. \A x \in Queued : ~ x.ptr /\ x.path \in Paths /\ x \in Handles
  BY <1>1 DEF Queued
<1>5. \A k \in DOMAIN b : b[k] \in Queued
  BY <1>2
<1>6. b \in Seq(Handles)
  BY <1>2, <1>3
<1>7. DOMAIN b = 1..Len(b)
  BY <1>2
<1> QED BY <1>2, <1>4, <1>5, <1>6, <1>7

LEMMA WellFormedFacts ==
    ASSUME NEW b, NEW L, WellFormed(b, L)
    PROVE  /\ Short(b) /\ AllShort(L)
           /\ \A s \in Slots : L[s] # NoLogger => L[s] \in Seq(Writing)
           /\ Refs(b, L) \in [Paths -> Nat] /\ \A p \in Paths : Refs(b, L)[p] < Word
<1>1. \A s \in Slots : L[s] # NoLogger => L[s] \in Seq(Writing)
  BY DEF WellFormed
<1>2. Short(b)
  BY QueuedLists DEF WellFormed, Short
<1>3. AllShort(L)
  BY <1>1, WritingLists DEF WellFormed, Short, AllShort
<1>4. ASSUME NEW p \in Paths PROVE Refs(b, L)[p] \in Nat /\ Refs(b, L)[p] < Word
  <2>1. Cardinality(On(b, p)) \in Nat /\ Cardinality(On(b, p)) <= MaxStreams
    BY <1>2, OnFinite
  <2>2. /\ Cardinality(Shelf(L, p)) \in Nat
        /\ Cardinality(Shelf(L, p)) <= Cardinality(Slots) * MaxStreams
    BY ShelfFinite
  <2>3. Cardinality(Slots) \in Nat /\ MaxStreams \in Nat
        /\ Word \in Nat /\ Word > MaxStreams * (Cardinality(Slots) + 1)
    BY ClientLoggerAssumption, FS_CardinalityType
  <2>4. MaxStreams * (Cardinality(Slots) + 1) = Cardinality(Slots) * MaxStreams + MaxStreams
        /\ Cardinality(Slots) * MaxStreams \in Nat
    BY <2>3
  <2> QED BY <2>1, <2>2, <2>3, <2>4 DEF Refs
<1> QED BY <1>1, <1>2, <1>3, <1>4 DEF Refs

LEMMA OnPositive ==
    ASSUME NEW hs, Short(hs), NEW p
    PROVE  Cardinality(On(hs, p)) > 0 <=> On(hs, p) # {}
BY OnFinite, FS_EmptySet

(* The loggers are those of L but for s, which holds hs. *)
LEMMA PutWellFormed ==
    ASSUME NEW b, NEW L, WellFormed(b, L), NEW s \in Slots, NEW hs,
           hs = NoLogger \/ (hs \in Seq(Writing) /\ Len(hs) <= MaxStreams)
    PROVE  /\ WellFormed(b, [L EXCEPT ![s] = hs])
           /\ [L EXCEPT ![s] = hs][s] = hs
           /\ \A t \in Slots : t # s => [L EXCEPT ![s] = hs][t] = L[t]
<1> DEFINE M == [L EXCEPT ![s] = hs]
<1>1. DOMAIN L = Slots
  BY DEF WellFormed
<1>2. M[s] = hs /\ \A t \in Slots : t # s => M[t] = L[t]
  BY <1>1
<1>3. M \in [Slots -> {NoLogger} \cup Seq(Writing)]
  BY DEF WellFormed
<1> HIDE DEF M
<1>4. \A t \in Slots : M[t] # NoLogger => Len(M[t]) <= MaxStreams
  BY <1>2 DEF WellFormed
<1>5. WellFormed(b, M)
  BY <1>3, <1>4 DEF WellFormed
<1> QED BY <1>2, <1>5 DEF M

LEMMA RefsReplaced ==
    ASSUME NEW b, NEW L, NEW M, WellFormed(b, L), WellFormed(b, M), NEW s \in Slots,
           \A t \in Slots : t # s => M[t] = L[t], NEW p \in Paths
    PROVE  /\ Refs(b, M)[p] + Held(L, s, p) = Refs(b, L)[p] + Held(M, s, p)
           /\ Held(L, s, p) \in Nat /\ Held(M, s, p) \in Nat
           /\ Refs(b, L)[p] \in Nat /\ Refs(b, M)[p] \in Nat
<1>1. AllShort(L) /\ AllShort(M) /\ Short(b)
  BY WellFormedFacts
<1>2. Cardinality(Shelf(M, p)) + Held(L, s, p) = Cardinality(Shelf(L, p)) + Held(M, s, p)
  BY <1>1, ReplaceOne
<1>3. /\ Cardinality(On(b, p)) \in Nat
      /\ Cardinality(Shelf(M, p)) \in Nat /\ Cardinality(Shelf(L, p)) \in Nat
      /\ Held(L, s, p) \in Nat /\ Held(M, s, p) \in Nat
  BY <1>1, OnFinite, ShelfFinite, HeldOf
<1> QED BY <1>2, <1>3 DEF Refs

(* A path a logger or the builder has a handle on is counted. *)
LEMMA RefsPositive ==
    ASSUME NEW b, NEW L, WellFormed(b, L), NEW p \in Paths
    PROVE  /\ On(b, p) # {} => Refs(b, L)[p] > 0
           /\ \A s \in Slots : L[s] # NoLogger /\ On(L[s], p) # {} =>
                 Cardinality(Shelf(L, p)) > 0 /\ Refs(b, L)[p] > 0
<1>1. AllShort(L) /\ Short(b)
  BY WellFormedFacts
<1>2. /\ Cardinality(On(b, p)) \in Nat /\ Cardinality(Shelf(L, p)) \in Nat
      /\ IsFiniteSet(Shelf(L, p))
  BY <1>1, OnFinite, ShelfFinite
<1>3. On(b, p) # {} => Cardinality(On(b, p)) > 0
  BY <1>1, OnPositive
<1>4. ASSUME NEW s \in Slots, L[s] # NoLogger, On(L[s], p) # {}
      PROVE  Cardinality(Shelf(L, p)) > 0
  <2>1. Short(L[s])
    BY <1>1, <1>4 DEF AllShort
  <2>2. PICK k \in On(L[s], p) : k \in 1..MaxStreams
    BY <1>4, <2>1, OnFinite
  <2>3. <<s, k>> \in Shelf(L, p)
    BY <1>4, <2>2 DEF Shelf
  <2> QED BY <1>2, <2>3, FS_EmptySet
<1>5. Refs(b, L)[p] = Cardinality(On(b, p)) + Cardinality(Shelf(L, p))
  BY DEF Refs
<1>6. \A m, n \in Nat : (m > 0 => m + n > 0) /\ (n > 0 => m + n > 0)
  OBVIOUS
<1>7. On(b, p) # {} => Refs(b, L)[p] > 0
  BY <1>2, <1>3, <1>5, <1>6
<1>8. Cardinality(Shelf(L, p)) > 0 => Refs(b, L)[p] > 0
  BY <1>2, <1>5, <1>6
<1> QED BY <1>4, <1>7, <1>8

LEMMA HoldsNothing ==
    ASSUME NEW L, NEW s, L[s] \in {<<>>, NoLogger}, NEW p
    PROVE  Held(L, s, p) = 0
<1>1. On(<<>>, p) = {}
  BY DEF On
<1>2. Cardinality(On(<<>>, p)) = 0
  BY <1>1, FS_EmptySet
<1> QED BY <1>2 DEF Held

(* What a logger holds is destroyed. *)
LEMMA Emptied ==
    ASSUME NEW g, NEW b, NEW L, LoggersInv(g, b, L), NEW s \in Slots, L[s] # NoLogger,
           NEW v \in {<<>>, NoLogger}
    PROVE  LoggersInv(ReleaseAll(g, L[s]), b, [L EXCEPT ![s] = v])
<1> DEFINE M == [L EXCEPT ![s] = v]
           h == ReleaseAll(g, L[s])
<1>1. WellFormed(b, L) /\ Tallies(g, Refs(b, L)) /\ AllOpen(g, L)
  BY DEF LoggersInv
<1>2. v = NoLogger \/ (v \in Seq(Writing) /\ Len(v) <= MaxStreams)
  <2>1. <<>> \in Seq(Writing) /\ Len(<<>>) <= MaxStreams
    BY ClientLoggerAssumption
  <2> QED BY <2>1
<1>3. WellFormed(b, M) /\ M[s] = v /\ \A t \in Slots : t # s => M[t] = L[t]
  BY <1>1, <1>2, PutWellFormed
<1> HIDE DEF M
<1>4. /\ Refs(b, L) \in [Paths -> Nat] /\ Refs(b, M) \in [Paths -> Nat]
      /\ \A p \in Paths : Refs(b, L)[p] < Word
      /\ L[s] \in Seq(Handles)
  BY <1>1, <1>3, WellFormedFacts, WritingLists
<1>5. \A p \in Paths : Refs(b, L)[p] = Refs(b, M)[p] + Cardinality(On(L[s], p))
  <2> SUFFICES ASSUME NEW p \in Paths
               PROVE  Refs(b, L)[p] = Refs(b, M)[p] + Cardinality(On(L[s], p))
    OBVIOUS
  <2>1. /\ Refs(b, M)[p] + Held(L, s, p) = Refs(b, L)[p] + Held(M, s, p)
        /\ Held(L, s, p) \in Nat /\ Refs(b, L)[p] \in Nat /\ Refs(b, M)[p] \in Nat
    BY <1>1, <1>3, RefsReplaced
  <2>2. Held(M, s, p) = 0
    BY <1>3, HoldsNothing
  <2>3. Held(L, s, p) = Cardinality(On(L[s], p))
    BY DEF Held
  <2> QED BY <2>1, <2>2, <2>3
<1>6. /\ Tallies(h, Refs(b, M))
      /\ \A p \in Paths : Refs(b, M)[p] > 0 => (IsOpen(h, p) <=> IsOpen(g, p))
  BY <1>1, <1>4, <1>5, ReleaseAllTallies
<1> HIDE DEF h
<1>7. AllOpen(h, M)
  <2> SUFFICES ASSUME NEW t \in Slots, M[t] # NoLogger, NEW p \in Paths, On(M[t], p) # {}
               PROVE  IsOpen(h, p)
    BY DEF AllOpen
  <2>1. t # s
    <3>1. On(<<>>, p) = {}
      BY DEF On
    <3> QED BY <1>3, <3>1
  <2>2. IsOpen(g, p)
    BY <1>1, <1>3, <2>1 DEF AllOpen
  <2>3. Refs(b, M)[p] > 0
    BY <1>3, RefsPositive
  <2> QED BY <1>6, <2>2, <2>3
<1>8. LoggersInv(h, b, M)
  BY <1>3, <1>6, <1>7 DEF LoggersInv
<1> QED BY <1>8 DEF h, M

(* A variable that holds no handle is given copies of open ones. *)
LEMMA Filled ==
    ASSUME NEW g, NEW b, NEW L, LoggersInv(g, b, L), NEW s \in Slots,
           L[s] \in {<<>>, NoLogger},
           NEW hs \in Seq(Writing), Len(hs) <= MaxStreams,
           \A p \in Paths : On(hs, p) # {} => IsOpen(g, p)
    PROVE  LoggersInv(AcquireAll(g, hs), b, [L EXCEPT ![s] = hs])
<1> DEFINE M == [L EXCEPT ![s] = hs]
           h == AcquireAll(g, hs)
<1>1. WellFormed(b, L) /\ Tallies(g, Refs(b, L)) /\ AllOpen(g, L)
  BY DEF LoggersInv
<1>2. hs \in Seq(Handles) /\ hs # NoLogger
  BY WritingLists
<1>3. WellFormed(b, M) /\ M[s] = hs /\ \A t \in Slots : t # s => M[t] = L[t]
  BY <1>1, PutWellFormed
<1> HIDE DEF M
<1>4. /\ Refs(b, L) \in [Paths -> Nat] /\ Refs(b, M) \in [Paths -> Nat]
      /\ \A p \in Paths : Refs(b, M)[p] < Word
  BY <1>1, <1>3, WellFormedFacts
<1>5. \A p \in Paths : Refs(b, M)[p] = Refs(b, L)[p] + Cardinality(On(hs, p))
  <2> SUFFICES ASSUME NEW p \in Paths
               PROVE  Refs(b, M)[p] = Refs(b, L)[p] + Cardinality(On(hs, p))
    OBVIOUS
  <2>1. /\ Refs(b, M)[p] + Held(L, s, p) = Refs(b, L)[p] + Held(M, s, p)
        /\ Held(M, s, p) \in Nat /\ Refs(b, L)[p] \in Nat /\ Refs(b, M)[p] \in Nat
    BY <1>1, <1>3, RefsReplaced
  <2>2. Held(L, s, p) = 0
    BY HoldsNothing
  <2>3. Held(M, s, p) = Cardinality(On(hs, p))
    BY <1>2, <1>3 DEF Held
  <2> QED BY <2>1, <2>2, <2>3
<1>6. Tallies(h, Refs(b, M)) /\ \A p \in Paths : IsOpen(h, p) <=> IsOpen(g, p)
  BY <1>1, <1>2, <1>4, <1>5, AcquireAllTallies
<1> HIDE DEF h
<1>7. AllOpen(h, M)
  BY <1>1, <1>3, <1>6 DEF AllOpen
<1>8. LoggersInv(h, b, M)
  BY <1>3, <1>6, <1>7 DEF LoggersInv
<1> QED BY <1>8 DEF h, M

(* Handles that are moved are counted as before. *)
LEMMA Moved ==
    ASSUME NEW g, NEW b, NEW L, LoggersInv(g, b, L), NEW s \in Slots, NEW from \in Slots,
           s # from, L[s] \in {<<>>, NoLogger}, L[from] # NoLogger
    PROVE  LoggersInv(g, b, [L EXCEPT ![s] = L[from], ![from] = <<>>])
<1> DEFINE N == [L EXCEPT ![s] = L[from]]
           M == [N EXCEPT ![from] = <<>>]
<1>1. WellFormed(b, L) /\ Tallies(g, Refs(b, L)) /\ AllOpen(g, L)
  BY DEF LoggersInv
<1>2. L[from] \in Seq(Writing) /\ Len(L[from]) <= MaxStreams
  BY <1>1, WellFormedFacts DEF WellFormed
<1>3. WellFormed(b, N) /\ N[s] = L[from] /\ \A t \in Slots : t # s => N[t] = L[t]
  BY <1>1, <1>2, PutWellFormed
<1> HIDE DEF N
<1>4. <<>> \in Seq(Writing) /\ Len(<<>>) <= MaxStreams
  BY ClientLoggerAssumption
<1>5. WellFormed(b, M) /\ M[from] = <<>> /\ \A t \in Slots : t # from => M[t] = N[t]
  <2>1. PICK e : e = <<>>
    OBVIOUS
  <2>2. e \in Seq(Writing) /\ Len(e) <= MaxStreams
    BY <1>4, <2>1
  <2>3. /\ WellFormed(b, [N EXCEPT ![from] = e]) /\ [N EXCEPT ![from] = e][from] = e
        /\ \A t \in Slots : t # from => [N EXCEPT ![from] = e][t] = N[t]
    BY <1>3, <2>2, PutWellFormed
  <2> QED BY <2>1, <2>3
<1> HIDE DEF M
<1>6. ASSUME NEW p \in Paths PROVE Refs(b, M)[p] = Refs(b, L)[p]
  <2>1. /\ Refs(b, N)[p] + Held(L, s, p) = Refs(b, L)[p] + Held(N, s, p)
        /\ Held(N, s, p) \in Nat /\ Refs(b, L)[p] \in Nat /\ Refs(b, N)[p] \in Nat
    BY <1>1, <1>3, RefsReplaced
  <2>2. /\ Refs(b, M)[p] + Held(N, from, p) = Refs(b, N)[p] + Held(M, from, p)
        /\ Refs(b, M)[p] \in Nat
    BY <1>3, <1>5, RefsReplaced
  <2>3. Held(L, s, p) = 0 /\ Held(M, from, p) = 0
    BY <1>5, HoldsNothing
  <2>4. Held(N, from, p) = Held(N, s, p)
    BY <1>3 DEF Held
  <2> QED BY <2>1, <2>2, <2>3, <2>4
<1>7. Refs(b, M) = Refs(b, L)
  BY <1>6 DEF Refs
<1>8. AllOpen(g, M)
  <2> SUFFICES ASSUME NEW t \in Slots, M[t] # NoLogger, NEW p \in Paths, On(M[t], p) # {}
               PROVE  IsOpen(g, p)
    BY DEF AllOpen
  <2>1. t # from
    <3>1. On(<<>>, p) = {}
      BY DEF On
    <3> QED BY <1>5, <3>1
  <2> QED BY <1>1, <1>3, <1>5, <2>1 DEF AllOpen
<1>9. LoggersInv(g, b, M)
  BY <1>1, <1>5, <1>7, <1>8 DEF LoggersInv
<1>10. M = [L EXCEPT ![s] = L[from], ![from] = <<>>]
  BY DEF M, N
<1> QED BY <1>9, <1>10

-----------------------------------------------------------------------------
(* The builder, and the loggers it builds. *)

(* A handle is put in front of the list. *)
LEMMA OnFront ==
    ASSUME NEW b \in Seq(Queued), Len(b) <= MaxStreams, NEW h \in Queued, NEW p
    PROVE  /\ <<h>> \o b \in Seq(Queued) /\ Len(<<h>> \o b) = Len(b) + 1
           /\ Cardinality(On(<<h>> \o b, p)) =
                Cardinality(On(b, p)) + (IF h.path = p THEN 1 ELSE 0)
<1>1. PICK c : c = <<h>> \o b
  OBVIOUS
<1>2. /\ Len(b) \in Nat /\ DOMAIN b = 1..Len(b)
      /\ c \in Seq(Queued) /\ Len(c) = Len(b) + 1 /\ DOMAIN c = 1..(Len(b) + 1)
      /\ c[1] = h /\ \A k \in 1..Len(b) : c[k + 1] = b[k]
  <2>1. Len(b) \in Nat /\ DOMAIN b = 1..Len(b)
    OBVIOUS
  <2>2. c \in Seq(Queued) /\ Len(c) = Len(b) + 1 /\ c[1] = h
    BY <1>1, <2>1
  <2>3. DOMAIN c = 1..(Len(b) + 1)
    BY <2>1, <2>2
  <2>4. \A k \in 1..Len(b) : c[k + 1] = b[k]
    BY <1>1, <2>1
  <2> QED BY <2>1, <2>2, <2>3, <2>4
<1> DEFINE A == On(b, p)
           B == {k + 1 : k \in A}
           f == [k \in A |-> k + 1]
<1>3. IsFiniteSet(A) /\ A \subseteq 1..Len(b) /\ Cardinality(A) \in Nat
  <2>1. Short(b)
    BY QueuedLists DEF Short
  <2> QED BY <1>2, <2>1, OnFinite DEF On
<1>4. ExistsBijection(A, B)
  <2>1. f \in [A -> B]
    OBVIOUS
  <2>2. \A j, k \in A : f[j] = f[k] => j = k
    BY <1>2, <1>3
  <2>3. \A k \in B : \E j \in A : f[j] = k
    OBVIOUS
  <2> QED BY <2>1, <2>2, <2>3 DEF ExistsBijection, Bijection, Injection, Surjection, IsInjective
<1>5. IsFiniteSet(B) /\ Cardinality(B) = Cardinality(A)
  BY <1>3, <1>4, FS_Bijection
<1>6. 1 \notin B
  BY <1>2, <1>3
<1>7. On(c, p) = IF h.path = p THEN B \cup {1} ELSE B
  <2>1. ASSUME NEW k \in 1..Len(b) PROVE k + 1 \in On(c, p) <=> k \in A
    BY <1>2 DEF On
  <2>2. 1 \in On(c, p) <=> h.path = p
    BY <1>2 DEF On
  <2>3. On(c, p) \subseteq 1..(Len(b) + 1)
    BY <1>2 DEF On
  <2>4. \A j \in 1..(Len(b) + 1) : j = 1 \/ (j - 1 \in 1..Len(b) /\ (j - 1) + 1 = j)
    BY <1>2
  <2>5. \A j \in On(c, p) : j = 1 \/ j \in B
    BY <2>1, <2>3, <2>4
  <2>6. \A j \in B : j \in On(c, p)
    BY <1>3, <2>1
  <2> HIDE DEF A, B
  <2> QED BY <1>6, <2>2, <2>5, <2>6
<1> HIDE DEF B
<1>8. Cardinality(B \cup {1}) = Cardinality(B) + 1
  BY <1>5, <1>6, FS_AddElement
<1> QED BY <1>1, <1>2, <1>3, <1>5, <1>7, <1>8

(* The destructor of a handle that was moved from. *)
LEMMA ReleaseNoPath ==
    ASSUME NEW C \in [Paths -> Nat], NEW g, Tallies(g, C)
    PROVE  /\ Tallies(Release(g, Handle(NoPath, FALSE)), C)
           /\ \A p \in Paths : IsOpen(Release(g, Handle(NoPath, FALSE)), p) <=> IsOpen(g, p)
<1> DEFINE h == Release(g, Handle(NoPath, FALSE))
           e == Entry(g, NoPath)
           left == (e.count + Word - 1) % Word
           f == [e EXCEPT !.count = left]
<1>1. e \in [count : Nat, open : BOOLEAN]
  BY DEF Tallies, Stream, Entry
<1>2. left \in 0..(Word - 1)
  <2>1. Word \in Nat /\ Word > 0
    <3>1. Cardinality(Slots) \in Nat
      BY ClientLoggerAssumption, FS_CardinalityType
    <3>2. MaxStreams * (Cardinality(Slots) + 1) \in Nat
      BY <3>1, ClientLoggerAssumption
    <3> QED BY <3>2, ClientLoggerAssumption
  <2>2. e.count + Word - 1 \in Int
    BY <1>1, <2>1
  <2> QED BY <2>1, <2>2
<1> HIDE DEF e, left
<1>3. f = [count |-> left, open |-> e.open] /\ e.open \in BOOLEAN
  BY <1>1
<1>4. f \in Stream
  BY <1>2, <1>3 DEF Stream
<1>5. h = IF left = 0 THEN Erase(g, NoPath) ELSE Store(g, NoPath, f)
  BY DEF Release, Handle, e, left
<1> HIDE DEF f, h
<1>6. /\ DOMAIN h \subseteq Paths \cup {NoPath}
      /\ \A q \in DOMAIN h : h[q] \in Stream
      /\ \A p \in Paths : (p \in DOMAIN h <=> p \in DOMAIN g) /\ (p \in DOMAIN h => h[p] = g[p])
  BY <1>4, <1>5, ClientLoggerAssumption DEF Tallies, Erase, Store
<1>7. Tallies(h, C)
  BY <1>6 DEF Tallies
<1>8. \A p \in Paths : IsOpen(h, p) <=> IsOpen(g, p)
  BY <1>6 DEF IsOpen
<1> QED BY <1>7, <1>8 DEF h

LEMMA AddFileStreamKeeps == ASSUME IInv, AddFileStream PROVE IInv'
<1>1. PICK p \in Paths : /\ builder' = <<Handle(p, FALSE)>> \o builder
                         /\ global' = Release(Acquire(global, Handle(p, FALSE)),
                                              Handle(NoPath, FALSE))
  BY DEF AddFileStream
<1>2. Len(builder) < MaxStreams /\ loggers' = loggers
  BY DEF AddFileStream
<1>3. WellFormed(builder, loggers) /\ Tallies(global, Refs(builder, loggers))
      /\ AllOpen(global, loggers)
  BY DEF IInv, LoggersInv
<1>4. PICK h : h = Handle(p, FALSE)
  OBVIOUS
<1>5. h \in Queued /\ h \in Handles /\ h.path = p
  BY <1>4 DEF Handle, Queued, Handles
<1>6. builder \in Seq(Queued) /\ Len(builder) \in Nat /\ Len(builder) <= MaxStreams
  BY <1>3, QueuedLists DEF WellFormed
<1>7. /\ builder' \in Seq(Queued) /\ Len(builder') <= MaxStreams
      /\ \A q \in Paths : Cardinality(On(builder', q)) =
                            Cardinality(On(builder, q)) + (IF p = q THEN 1 ELSE 0)
  <2>1. PICK b : b = builder
    OBVIOUS
  <2>2. b \in Seq(Queued) /\ Len(b) \in Nat /\ Len(b) <= MaxStreams /\ Len(b) < MaxStreams
    BY <1>2, <1>6, <2>1
  <2>3. <<h>> \o b \in Seq(Queued) /\ Len(<<h>> \o b) = Len(b) + 1
    BY <1>5, <2>2, OnFront
  <2>4. \A q \in Paths : Cardinality(On(<<h>> \o b, q)) =
                           Cardinality(On(b, q)) + (IF p = q THEN 1 ELSE 0)
    BY <1>5, <2>2, OnFront
  <2>5. builder' = <<h>> \o b /\ Len(b) + 1 <= MaxStreams
    BY <1>1, <1>4, <2>1, <2>2, ClientLoggerAssumption
  <2> QED BY <2>1, <2>3, <2>4, <2>5
<1>8. WellFormed(builder', loggers)
  BY <1>3, <1>7 DEF WellFormed
<1>9. PICK C, D : C = Refs(builder, loggers) /\ D = Refs(builder', loggers)
  OBVIOUS
<1>10. /\ C \in [Paths -> Nat] /\ D \in [Paths -> Nat]
       /\ \A q \in Paths : D[q] < Word
  BY <1>3, <1>8, <1>9, WellFormedFacts
<1>11. OneMore(C, D, h.path)
  <2> SUFFICES ASSUME NEW q \in Paths PROVE D[q] = IF q = p THEN C[q] + 1 ELSE C[q]
    BY <1>5 DEF OneMore
  <2>1. Short(builder)
    BY <1>3, WellFormedFacts
  <2>2. Cardinality(On(builder, q)) \in Nat /\ Cardinality(Shelf(loggers, q)) \in Nat
    BY <2>1, OnFinite, ShelfFinite
  <2> QED BY <1>7, <1>9, <2>2 DEF Refs
<1>12. /\ Tallies(Acquire(global, h), D)
       /\ \A q \in Paths : IsOpen(Acquire(global, h), q) <=> IsOpen(global, q)
  BY <1>3, <1>5, <1>9, <1>10, <1>11, AcquireOne
<1>13. /\ Tallies(global', D)
       /\ \A q \in Paths : IsOpen(global', q) <=> IsOpen(Acquire(global, h), q)
  BY <1>1, <1>4, <1>10, <1>12, ReleaseNoPath
<1>14. AllOpen(global', loggers)
  BY <1>3, <1>12, <1>13 DEF AllOpen
<1> QED BY <1>2, <1>8, <1>9, <1>13, <1>14 DEF IInv, LoggersInv

LEMMA ClearKeeps == ASSUME IInv, Clear PROVE IInv'
<1>1. builder' = <<>> /\ global' = ReleaseAll(global, builder) /\ loggers' = loggers
  BY DEF Clear
<1>2. WellFormed(builder, loggers) /\ Tallies(global, Refs(builder, loggers))
      /\ AllOpen(global, loggers)
  BY DEF IInv, LoggersInv
<1>3. PICK e : e = <<>>
  OBVIOUS
<1>4. /\ WellFormed(e, loggers) /\ Short(builder)
      /\ \A p \in Paths : On(e, p) = {} /\ Cardinality(On(e, p)) = 0
  <2>1. e \in Seq(Queued) /\ Len(e) <= MaxStreams
    BY <1>3, ClientLoggerAssumption
  <2>2. \A p \in Paths : On(e, p) = {}
    BY <1>3 DEF On
  <2>3. Short(builder)
    BY <1>2, WellFormedFacts
  <2> QED BY <1>2, <2>1, <2>2, <2>3, FS_EmptySet DEF WellFormed
<1>5. PICK C, D : C = Refs(builder, loggers) /\ D = Refs(e, loggers)
  OBVIOUS
<1>6. /\ C \in [Paths -> Nat] /\ D \in [Paths -> Nat] /\ builder \in Seq(Handles)
      /\ \A p \in Paths : C[p] < Word
  BY <1>2, <1>4, <1>5, WellFormedFacts DEF Short
<1>7. \A p \in Paths : C[p] = D[p] + Cardinality(On(builder, p))
  <2> SUFFICES ASSUME NEW p \in Paths PROVE C[p] = D[p] + Cardinality(On(builder, p))
    OBVIOUS
  <2>1. Cardinality(On(builder, p)) \in Nat /\ Cardinality(Shelf(loggers, p)) \in Nat
    BY <1>4, OnFinite, ShelfFinite
  <2> QED BY <1>4, <1>5, <2>1 DEF Refs
<1>8. /\ Tallies(global', D)
      /\ \A p \in Paths : D[p] > 0 => (IsOpen(global', p) <=> IsOpen(global, p))
  BY <1>1, <1>2, <1>5, <1>6, <1>7, ReleaseAllTallies
<1>9. AllOpen(global', loggers)
  <2> SUFFICES ASSUME NEW s \in Slots, loggers[s] # NoLogger, NEW p \in Paths,
                      On(loggers[s], p) # {}
               PROVE  IsOpen(global', p)
    BY DEF AllOpen
  <2>1. D[p] > 0
    BY <1>4, <1>5, RefsPositive
  <2> QED BY <1>2, <1>8, <2>1 DEF AllOpen
<1> QED BY <1>1, <1>3, <1>4, <1>5, <1>8, <1>9 DEF IInv, LoggersInv

LEMMA OpenedList ==
    ASSUME NEW b \in Seq(Queued)
    PROVE  /\ Opened(b) \in Seq(Writing) /\ Len(Opened(b)) = Len(b)
           /\ \A p : On(Opened(b), p) = On(b, p)
<1> DEFINE c == Opened(b)
<1>1. Len(b) \in Nat /\ DOMAIN b = 1..Len(b) /\ \A k \in DOMAIN b : b[k] \in Queued
  BY QueuedLists
<1>2. /\ c = [k \in 1..Len(b) |-> [b[k] EXCEPT !.ptr = TRUE]]
      /\ \A k \in 1..Len(b) : c[k] \in Writing /\ c[k].path = b[k].path
  BY <1>1 DEF Opened, Queued, Writing
<1> HIDE DEF c
<1>3. c \in [1..Len(b) -> Writing] /\ DOMAIN c = 1..Len(b)
  BY <1>2
<1>4. c \in Seq(Writing) /\ Len(c) = Len(b)
  BY <1>1, <1>3
<1>5. \A p : On(c, p) = On(b, p)
  BY <1>1, <1>2, <1>3 DEF On
<1> QED BY <1>4, <1>5 DEF c

(* A logger that is being built: its copies are counted before any of them *)
(* is opened.                                                              *)
Built(b, L, s) == [L EXCEPT ![s] = Opened(b)]

CopiedFrom(g, b, L, s, M, h) ==
    /\ WellFormed(b, M) /\ M[s] = Opened(b)
    /\ \A t \in Slots : t # s => M[t] = L[t]
    /\ Refs(b, M) \in [Paths -> Nat]
    /\ \A p \in Paths : Refs(b, M)[p] < Word
    /\ \A p \in Paths : Refs(b, M)[p] = Refs(b, L)[p] + Cardinality(On(b, p))
    /\ Tallies(h, Refs(b, M))
    /\ \A p \in Paths : IsOpen(h, p) <=> IsOpen(g, p)

LEMMA Copied ==
    ASSUME NEW g, NEW b, NEW L, LoggersInv(g, b, L), NEW s \in Slots, L[s] = NoLogger
    PROVE  CopiedFrom(g, b, L, s, Built(b, L, s), AcquireAll(g, b))
<1> DEFINE M == Built(b, L, s)
<1>1. WellFormed(b, L) /\ Tallies(g, Refs(b, L))
  BY DEF LoggersInv
<1>2. b \in Seq(Queued) /\ b \in Seq(Handles) /\ Len(b) <= MaxStreams
  BY <1>1, QueuedLists DEF WellFormed
<1>3. PICK hs : hs = Opened(b)
  OBVIOUS
<1>4. hs \in Seq(Writing) /\ Len(hs) <= MaxStreams /\ hs # NoLogger
  BY <1>2, <1>3, OpenedList, WritingLists
<1>5. \A p : On(hs, p) = On(b, p)
  BY <1>2, <1>3, OpenedList
<1>6. /\ WellFormed(b, [L EXCEPT ![s] = hs]) /\ [L EXCEPT ![s] = hs][s] = hs
      /\ \A t \in Slots : t # s => [L EXCEPT ![s] = hs][t] = L[t]
  BY <1>1, <1>4, PutWellFormed
<1>7. WellFormed(b, M) /\ M[s] = hs /\ \A t \in Slots : t # s => M[t] = L[t]
  BY <1>3, <1>6 DEF Built
<1> HIDE DEF M
<1>8. /\ Refs(b, L) \in [Paths -> Nat] /\ Refs(b, M) \in [Paths -> Nat]
      /\ \A p \in Paths : Refs(b, M)[p] < Word
  BY <1>1, <1>7, WellFormedFacts
<1>9. \A p \in Paths : Refs(b, M)[p] = Refs(b, L)[p] + Cardinality(On(b, p))
  <2> SUFFICES ASSUME NEW p \in Paths
               PROVE  Refs(b, M)[p] = Refs(b, L)[p] + Cardinality(On(b, p))
    OBVIOUS
  <2>1. /\ Refs(b, M)[p] + Held(L, s, p) = Refs(b, L)[p] + Held(M, s, p)
        /\ Held(M, s, p) \in Nat /\ Refs(b, L)[p] \in Nat /\ Refs(b, M)[p] \in Nat
    BY <1>1, <1>7, RefsReplaced
  <2>2. Held(L, s, p) = 0 /\ Held(M, s, p) = Cardinality(On(b, p))
    BY <1>4, <1>5, <1>7 DEF Held
  <2> QED BY <2>1, <2>2
<1>10. /\ Tallies(AcquireAll(g, b), Refs(b, M))
       /\ \A p \in Paths : IsOpen(AcquireAll(g, b), p) <=> IsOpen(g, p)
  BY <1>1, <1>2, <1>8, <1>9, AcquireAllTallies
<1>11. CopiedFrom(g, b, L, s, M, AcquireAll(g, b))
  BY <1>3, <1>7, <1>8, <1>9, <1>10 DEF CopiedFrom
<1> QED BY <1>11 DEF M

LEMMA BuildKeeps == ASSUME IInv, NEW s \in Slots, Build(s) PROVE IInv'
<1>1. PICK M, g : M = Built(builder, loggers, s) /\ g = AcquireAll(global, builder)
  OBVIOUS
<1>2. s \notin Alive /\ global' = OpenAll(g, builder) /\ loggers' = M /\ builder' = builder
  BY <1>1 DEF Build, Built
<1>3. /\ WellFormed(builder, M) /\ M[s] = Opened(builder)
      /\ \A t \in Slots : t # s => M[t] = loggers[t]
      /\ Refs(builder, M) \in [Paths -> Nat]
      /\ \A p \in Paths : Refs(builder, M)[p] < Word
      /\ Tallies(g, Refs(builder, M))
      /\ \A p \in Paths : IsOpen(g, p) <=> IsOpen(global, p)
  <2>1. loggers[s] = NoLogger /\ LoggersInv(global, builder, loggers)
    BY <1>2 DEF Alive, IInv
  <2>2. CopiedFrom(global, builder, loggers, s, M, g)
    BY <1>1, <2>1, Copied
  <2> QED BY <2>2 DEF CopiedFrom
<1>4. /\ builder \in Seq(Queued) /\ builder \in Seq(Handles)
      /\ \A k \in DOMAIN builder : ~ builder[k].ptr /\ builder[k].path \in Paths
      /\ \A p : On(Opened(builder), p) = On(builder, p)
  BY <1>3, QueuedLists, OpenedList DEF WellFormed
<1>5. \A k \in DOMAIN builder : Refs(builder, M)[builder[k].path] > 0
  BY <1>3, <1>4, RefsPositive DEF On
<1>6. /\ Tallies(global', Refs(builder, M))
      /\ \A p \in Paths : IsOpen(global', p) <=> IsOpen(g, p) \/ On(builder, p) # {}
  BY <1>2, <1>3, <1>4, <1>5, OpenAllTallies
<1>7. AllOpen(global', M)
  <2> SUFFICES ASSUME NEW t \in Slots, M[t] # NoLogger, NEW p \in Paths, On(M[t], p) # {}
               PROVE  IsOpen(global', p)
    BY DEF AllOpen
  <2>1. CASE t = s
    BY <1>3, <1>4, <1>6, <2>1
  <2>2. CASE t # s
    BY <1>3, <1>6, <2>2 DEF IInv, LoggersInv, AllOpen
  <2> QED BY <2>1, <2>2
<1> QED BY <1>2, <1>3, <1>6, <1>7 DEF IInv, LoggersInv

(* When a file cannot be opened the map is left as it was, except that     *)
(* files the builder's handles are on may have been opened.                *)
LEMMA BuildThrowsKeeps == ASSUME IInv, NEW s \in Slots, BuildThrows(s) PROVE IInv'
<1>1. PICK M, g : M = Built(builder, loggers, s) /\ g = AcquireAll(global, builder)
  OBVIOUS
<1>2. PICK k \in DOMAIN builder :
         global' = ReleaseAll(OpenAll(g, SubSeq(builder, 1, k - 1)), builder)
  BY <1>1 DEF BuildThrows
<1>3. s \notin Alive /\ loggers' = loggers /\ builder' = builder
  BY DEF BuildThrows
<1>4. WellFormed(builder, loggers) /\ AllOpen(global, loggers)
  BY DEF IInv, LoggersInv
<1>5. PICK C, D : C = Refs(builder, M) /\ D = Refs(builder, loggers)
  OBVIOUS
<1>6. /\ WellFormed(builder, M) /\ C \in [Paths -> Nat]
      /\ \A p \in Paths : C[p] < Word
      /\ \A p \in Paths : C[p] = D[p] + Cardinality(On(builder, p))
      /\ Tallies(g, C)
      /\ \A p \in Paths : IsOpen(g, p) <=> IsOpen(global, p)
  <2>1. loggers[s] = NoLogger /\ LoggersInv(global, builder, loggers)
    BY <1>3 DEF Alive, IInv
  <2>2. CopiedFrom(global, builder, loggers, s, M, g)
    BY <1>1, <2>1, Copied
  <2> QED BY <1>5, <2>2 DEF CopiedFrom
<1>7. D \in [Paths -> Nat] /\ builder \in Seq(Handles) /\ builder \in Seq(Queued)
  BY <1>4, <1>5, WellFormedFacts DEF Short, WellFormed
<1>8. PICK before : before = SubSeq(builder, 1, k - 1)
  OBVIOUS
<1>9. /\ before \in Seq(Handles)
      /\ \A j \in DOMAIN before : ~ before[j].ptr /\ C[before[j].path] > 0
  <2>1. /\ Len(builder) \in Nat /\ DOMAIN builder = 1..Len(builder) /\ k - 1 \in Nat
        /\ k - 1 <= Len(builder)
    BY <1>7
  <2>2. before \in Seq(Handles) /\ Len(before) = k - 1
        /\ \A j \in 1..(k - 1) : before[j] = builder[j]
    BY <1>7, <1>8, <2>1
  <2>3. DOMAIN before = 1..(k - 1)
    BY <2>2
  <2>4. \A j \in DOMAIN builder : ~ builder[j].ptr /\ builder[j].path \in Paths
    BY <1>7, QueuedLists
  <2>5. \A j \in DOMAIN builder : C[builder[j].path] > 0
    BY <1>5, <1>6, <2>4, RefsPositive DEF On
  <2> QED BY <2>1, <2>2, <2>3, <2>4, <2>5
<1>10. PICK h : h = OpenAll(g, before)
  OBVIOUS
<1>11. Tallies(h, C) /\ \A p \in Paths : IsOpen(g, p) => IsOpen(h, p)
  BY <1>6, <1>9, <1>10, OpenAllTallies
<1>12. /\ Tallies(global', D)
       /\ \A p \in Paths : D[p] > 0 => (IsOpen(global', p) <=> IsOpen(h, p))
  BY <1>2, <1>6, <1>7, <1>8, <1>10, <1>11, ReleaseAllTallies
<1>13. AllOpen(global', loggers)
  <2> SUFFICES ASSUME NEW t \in Slots, loggers[t] # NoLogger, NEW p \in Paths,
                      On(loggers[t], p) # {}
               PROVE  IsOpen(global', p)
    BY DEF AllOpen
  <2>1. D[p] > 0
    BY <1>4, <1>5, RefsPositive
  <2>2. IsOpen(global, p)
    BY <1>4 DEF AllOpen
  <2> QED BY <1>6, <1>11, <1>12, <2>1, <2>2
<1> QED BY <1>3, <1>4, <1>5, <1>12, <1>13 DEF IInv, LoggersInv

-----------------------------------------------------------------------------
(* The invariance. *)

LEMMA DestroyKeeps == ASSUME IInv, NEW s \in Slots, Destroy(s) PROVE IInv'
<1>1. PICK g, b, L : g = global /\ b = builder /\ L = loggers
  OBVIOUS
<1>2. LoggersInv(g, b, L) /\ L[s] # NoLogger
  BY <1>1 DEF IInv, Destroy, Alive
<1>3. LoggersInv(ReleaseAll(g, L[s]), b, [L EXCEPT ![s] = NoLogger])
  BY <1>2, Emptied
<1> QED BY <1>1, <1>3 DEF IInv, Destroy

LEMMA CopyConstructKeeps ==
    ASSUME IInv, NEW s \in Slots, NEW from \in Slots, CopyConstruct(s, from) PROVE IInv'
<1>1. PICK g, b, L : g = global /\ b = builder /\ L = loggers
  OBVIOUS
<1>2. LoggersInv(g, b, L) /\ L[s] = NoLogger /\ L[from] # NoLogger
  BY <1>1 DEF IInv, CopyConstruct, Alive
<1>3. L[from] \in Seq(Writing) /\ Len(L[from]) <= MaxStreams
  BY <1>2, WellFormedFacts DEF LoggersInv, WellFormed
<1>4. \A p \in Paths : On(L[from], p) # {} => IsOpen(g, p)
  BY <1>2 DEF LoggersInv, AllOpen
<1>5. LoggersInv(AcquireAll(g, L[from]), b, [L EXCEPT ![s] = L[from]])
  BY <1>2, <1>3, <1>4, Filled
<1> QED BY <1>1, <1>5 DEF IInv, CopyConstruct

(* What the target held is released before it is filled, and the handles   *)
(* of the other logger keep its streams open meanwhile.                    *)
LEMMA CopyAssignKeeps ==
    ASSUME IInv, NEW s \in Slots, NEW from \in Slots, CopyAssign(s, from) PROVE IInv'
<1>1. PICK g, b, L : g = global /\ b = builder /\ L = loggers
  OBVIOUS
<1>2. LoggersInv(g, b, L) /\ L[s] # NoLogger /\ L[from] # NoLogger /\ s # from
  BY <1>1 DEF IInv, CopyAssign, Alive
<1>3. PICK h, N : h = ReleaseAll(g, L[s]) /\ N = [L EXCEPT ![s] = <<>>]
  OBVIOUS
<1>4. LoggersInv(h, b, N)
  BY <1>2, <1>3, Emptied
<1>5. DOMAIN L = Slots
  BY <1>2 DEF LoggersInv, WellFormed
<1>6. N[s] = <<>> /\ N[from] = L[from] /\ [N EXCEPT ![s] = L[from]] = [L EXCEPT ![s] = L[from]]
  BY <1>2, <1>3, <1>5
<1>7. L[from] \in Seq(Writing) /\ Len(L[from]) <= MaxStreams
  BY <1>2, WellFormedFacts DEF LoggersInv, WellFormed
<1>8. \A p \in Paths : On(L[from], p) # {} => IsOpen(h, p)
  BY <1>2, <1>4, <1>6 DEF LoggersInv, AllOpen
<1>9. LoggersInv(AcquireAll(h, L[from]), b, [N EXCEPT ![s] = L[from]])
  BY <1>4, <1>6, <1>7, <1>8, Filled
<1> QED BY <1>1, <1>3, <1>6, <1>9 DEF IInv, CopyAssign

LEMMA MoveConstructKeeps ==
    ASSUME IInv, NEW s \in Slots, NEW from \in Slots, MoveConstruct(s, from) PROVE IInv'
<1>1. PICK g, b, L : g = global /\ b = builder /\ L = loggers
  OBVIOUS
<1>2. LoggersInv(g, b, L) /\ L[s] = NoLogger /\ L[from] # NoLogger /\ s # from
  BY <1>1 DEF IInv, MoveConstruct, Alive
<1>3. LoggersInv(g, b, [L EXCEPT ![s] = L[from], ![from] = <<>>])
  BY <1>2, Moved
<1> QED BY <1>1, <1>3 DEF IInv, MoveConstruct

LEMMA MoveAssignKeeps ==
    ASSUME IInv, NEW s \in Slots, NEW from \in Slots, MoveAssign(s, from) PROVE IInv'
<1>1. PICK g, b, L : g = global /\ b = builder /\ L = loggers
  OBVIOUS
<1>2. LoggersInv(g, b, L) /\ L[s] # NoLogger /\ L[from] # NoLogger /\ s # from
  BY <1>1 DEF IInv, MoveAssign, Alive
<1>3. PICK h, N : h = ReleaseAll(g, L[s]) /\ N = [L EXCEPT ![s] = <<>>]
  OBVIOUS
<1>4. LoggersInv(h, b, N)
  BY <1>2, <1>3, Emptied
<1>5. DOMAIN L = Slots
  BY <1>2 DEF LoggersInv, WellFormed
<1>6. /\ N[s] = <<>> /\ N[from] = L[from]
      /\ [N EXCEPT ![s] = N[from], ![from] = <<>>] = [L EXCEPT ![s] = L[from], ![from] = <<>>]
  BY <1>2, <1>3, <1>5
<1>7. LoggersInv(h, b, [N EXCEPT ![s] = N[from], ![from] = <<>>])
  BY <1>2, <1>4, <1>6, Moved
<1> QED BY <1>1, <1>3, <1>6, <1>7 DEF IInv, MoveAssign

LEMMA InvInit == Init => IInv
<1> SUFFICES ASSUME Init PROVE IInv
  OBVIOUS
<1>1. PICK g, b, L : g = global /\ b = builder /\ L = loggers
  OBVIOUS
<1>2. /\ DOMAIN g = {} /\ b = <<>> /\ L = [s \in Slots |-> NoLogger]
  BY <1>1 DEF Init
<1>3. WellFormed(b, L)
  BY <1>2, ClientLoggerAssumption DEF WellFormed
<1>4. \A p \in Paths : Refs(b, L)[p] = 0
  <2> SUFFICES ASSUME NEW p \in Paths PROVE Refs(b, L)[p] = 0
    OBVIOUS
  <2>1. On(b, p) = {} /\ Shelf(L, p) = {}
    BY <1>2 DEF On, Shelf
  <2> QED BY <2>1, FS_EmptySet DEF Refs
<1>5. Tallies(g, Refs(b, L))
  BY <1>2, <1>4 DEF Tallies
<1>6. AllOpen(g, L)
  BY <1>2 DEF AllOpen
<1> QED BY <1>1, <1>3, <1>5, <1>6 DEF IInv, LoggersInv

LEMMA InvStep == IInv /\ [Next]_vars => IInv'
<1> SUFFICES ASSUME IInv, [Next]_vars PROVE IInv'
  OBVIOUS
<1>1. CASE UNCHANGED vars
  BY <1>1 DEF vars, IInv
<1>2. CASE AddFileStream \/ Clear
  BY <1>2, AddFileStreamKeeps, ClearKeeps
<1>3. ASSUME NEW s \in Slots, Build(s) \/ BuildThrows(s) \/ Destroy(s) PROVE IInv'
  BY <1>3, BuildKeeps, BuildThrowsKeeps, DestroyKeeps
<1>4. ASSUME NEW s \in Slots, NEW from \in Slots,
             \/ CopyConstruct(s, from) \/ CopyAssign(s, from)
             \/ MoveConstruct(s, from) \/ MoveAssign(s, from)
      PROVE  IInv'
  BY <1>4, CopyConstructKeeps, CopyAssignKeeps, MoveConstructKeeps, MoveAssignKeeps
<1> QED BY <1>1, <1>2, <1>3, <1>4 DEF Next

LEMMA Invariance == Spec => []IInv
BY InvInit, InvStep, PTL DEF Spec

(* The tally of the invariant is the number of handles there are. *)
LEMMA CountedHandles ==
    ASSUME IInv, NEW p \in Paths
    PROVE  References(p) = Refs(builder, loggers)[p]
BY DEF References, Refs, Places, Shelf, Alive

LEMMA TypesHold == IInv => TypeOK
<1> SUFFICES ASSUME IInv PROVE TypeOK
  OBVIOUS
<1>1. WellFormed(builder, loggers) /\ Tallies(global, Refs(builder, loggers))
  BY DEF IInv, LoggersInv
<1>2. \A s \in Alive : loggers[s] \in Seq(Writing)
  BY <1>1, WellFormedFacts DEF Alive
<1>3. /\ DOMAIN global \subseteq Paths \cup {NoPath}
      /\ \A p \in DOMAIN global : global[p] \in [count : 0..(Word - 1), open : BOOLEAN]
  BY <1>1 DEF Tallies, Stream
<1>4. builder \in Seq(Queued)
  BY <1>1 DEF WellFormed
<1> QED BY <1>2, <1>3, <1>4 DEF TypeOK, Queued, Writing

(* The map and the lists keep their types: no count leaves a size_t, and   *)
(* every handle of a logger points to a stream.                            *)
THEOREM TypeCorrect == Spec => []TypeOK
BY Invariance, TypesHold, PTL

(* The copy constructor and the destructor of refcounted_stream are in     *)
(* balance through every build, failed build, copy, move and destruction:  *)
(* a path is counted once per handle on it, and has no entry without one.  *)
THEOREM CountsExactAlways == Spec => []CountsExact
<1>1. IInv => CountsExact
  <2> SUFFICES ASSUME IInv, NEW p \in Paths
               PROVE  /\ Entry(global, p).count = References(p)
                      /\ p \in DOMAIN global => References(p) > 0
    BY TypesHold DEF CountsExact
  <2>1. /\ Refs(builder, loggers) \in [Paths -> Nat]
        /\ Tallies(global, Refs(builder, loggers))
    BY WellFormedFacts DEF IInv, LoggersInv
  <2>2. Entry(global, p).count = Refs(builder, loggers)[p]
    BY <2>1, EntryOf
  <2>3. p \in DOMAIN global => Refs(builder, loggers)[p] > 0
    BY <2>1 DEF Tallies
  <2> QED BY <2>2, <2>3, CountedHandles
<1> QED BY <1>1, Invariance, PTL

LEMMA WritesOpen == IInv => LoggersWritable
<1> SUFFICES ASSUME IInv, NEW s \in Alive, NEW k \in DOMAIN loggers[s]
             PROVE  loggers[s][k].ptr /\ Entry(global, loggers[s][k].path).open
  BY DEF LoggersWritable
<1>1. PICK h : h = loggers[s][k]
  OBVIOUS
<1>2. loggers[s] \in Seq(Writing)
  BY WellFormedFacts DEF Alive, IInv, LoggersInv
<1>3. h \in Writing
  BY <1>1, <1>2
<1>4. h.ptr /\ h.path \in Paths
  BY <1>3 DEF Writing
<1>5. IsOpen(global, h.path)
  BY <1>1, <1>4 DEF IInv, LoggersInv, AllOpen, Alive, On
<1>6. Entry(global, h.path).open
  BY <1>5 DEF IsOpen, Entry
<1> QED BY <1>1, <1>4, <1>6

(* log() writes through pointers to streams that are there and open: a     *)
(* stream is closed by the last of its handles only.                       *)
THEOREM LoggersWritableAlways == Spec => []LoggersWritable
BY WritesOpen, Invariance, PTL

(* open() truncates the file, and no logger writes to a file that is not   *)
(* open: none loses what another one wrote.                                *)
THEOREM NoTruncationAlways == Spec => NoTruncation
<1>1. ASSUME IInv, NEW p \in Paths, ~ Entry(global, p).open, NEW s \in Alive
      PROVE  On(loggers[s], p) = {}
  <2>1. LoggersWritable
    BY <1>1, WritesOpen
  <2>2. ASSUME NEW k \in On(loggers[s], p) PROVE FALSE
    BY <1>1, <2>1, <2>2 DEF LoggersWritable, On
  <2> QED BY <2>2
<1>2. IInv /\ [Next]_vars =>
        [\A p \in Paths :
            ~ Entry(global, p).open /\ Entry(global', p).open =>
                \A s \in Alive : On(loggers[s], p) = {}]_vars
  BY <1>1
<1> QED BY <1>2, Invariance, PTL DEF Spec, NoTruncation
====
