---- MODULE BuddiesAllocator_proofs ----
(***************************************************************************)
(* allocator_buddies_system, for every size of the area and every set of   *)
(* threads and requests: the blocks always tile the area at aligned        *)
(* offsets, the buddy that get_buddy computes is always the header of a    *)
(* block, no call leaves two free buddies apart, the fit mode is honoured, *)
(* and the allocator implements AllocatorSpec.                             *)
(*                                                                         *)
(* The shape of the area is argued about as a value h of the headers, so   *)
(* that the same lemmas speak of the headers before and after a step.      *)
(***************************************************************************)
EXTENDS BuddiesAllocator, FiniteSetTheorems, TLAPS

-----------------------------------------------------------------------------
(* Induction over the naturals: a set of naturals that is not empty has a  *)
(* least element, which follows from the well-foundedness of finite sets.  *)

LEMMA Least == ASSUME NEW S, S \subseteq Nat, S # {}
               PROVE  \E m \in S : \A n \in S : m <= n
<1> DEFINE T == {0..n : n \in S}
<1>1. T \subseteq FiniteSubsetsOf(Nat)
  <2>1. \A n \in S : IsFiniteSet(0..n) /\ 0..n \subseteq Nat
    BY FS_Interval
  <2>2. QED BY <2>1 DEF FiniteSubsetsOf
<1>2. PICK I \in T : \A J \in T : <<J, I>> \notin StrictSubsetOrdering(Nat)
  <2>1. IsWellFoundedOn(StrictSubsetOrdering(Nat), FiniteSubsetsOf(Nat))
    BY FS_StrictSubsetOrderingWellFounded
  <2>2. T # {}
    OBVIOUS
  <2>3. QED BY <1>1, <2>1, <2>2, WFMin
<1>3. PICK m \in S : I = 0..m
  OBVIOUS
<1>4. ASSUME NEW n \in S, ~ m <= n PROVE FALSE
  <2>1. 0..n \subseteq 0..m /\ m \in 0..m /\ m \notin 0..n
    BY <1>4
  <2>2. <<0..n, 0..m>> \in StrictSubsetOrdering(Nat)
    BY <2>1 DEF StrictSubsetOrdering
  <2>3. QED BY <1>2, <1>3, <2>2
<1>5. QED BY <1>4

LEMMA NatSet == ASSUME NEW S, 0 \in S, \A n \in Nat : n \in S => n + 1 \in S
                PROVE  Nat \subseteq S
<1>1. SUFFICES ASSUME Nat \ S # {} PROVE FALSE
  OBVIOUS
<1>2. PICK m \in Nat \ S : \A n \in Nat \ S : m <= n
  BY <1>1, Least
<1>3. m # 0 /\ m - 1 \in Nat
  BY <1>2
<1>4. m - 1 \in S
  BY <1>2, <1>3
<1>5. (m - 1) + 1 \in S
  BY <1>3, <1>4
<1>6. QED BY <1>2, <1>5

-----------------------------------------------------------------------------
(* Powers of two and their multiples.  The laws of exponentiation come     *)
(* from the number of subsets of an interval.                              *)

LEMMA PowCard == ASSUME NEW n \in Nat
                 PROVE  /\ 2^n = Cardinality(SUBSET (1..n))
                        /\ 2^n \in Nat
<1>1. IsFiniteSet(1..n) /\ Cardinality(1..n) = n
  BY FS_Interval
<1>2. IsFiniteSet(SUBSET (1..n)) /\ Cardinality(SUBSET (1..n)) = 2^Cardinality(1..n)
  BY <1>1, FS_SUBSET
<1>3. QED BY <1>1, <1>2, FS_CardinalityType

LEMMA PowZero == 2^0 = 1
OBVIOUS

LEMMA PowNext == ASSUME NEW n \in Nat
                 PROVE  2^(n + 1) = 2 * 2^n
<1> DEFINE A == SUBSET (1..n)
           B == {X \cup {n + 1} : X \in A}
           f == [X \in A |-> X \cup {n + 1}]
<1>1. SUBSET (1..(n + 1)) = A \cup B
  <2>1. ASSUME NEW Y \in SUBSET (1..(n + 1)) PROVE Y \in A \cup B
    <3>1. CASE n + 1 \in Y
      <4>1. Y \ {n + 1} \in A
        OBVIOUS
      <4>2. Y = (Y \ {n + 1}) \cup {n + 1}
        BY <3>1
      <4>3. QED BY <4>1, <4>2
    <3>2. CASE n + 1 \notin Y
      BY <3>2
    <3>3. QED BY <3>1, <3>2
  <2>2. A \subseteq SUBSET (1..(n + 1)) 
    OBVIOUS
  <2>3. ASSUME NEW X \in A PROVE X \cup {n + 1} \subseteq 1..(n + 1)
    OBVIOUS
  <2>4. B \subseteq SUBSET (1..(n + 1))
    BY <2>3
  <2> HIDE DEF A, B
  <2>5. QED BY <2>1, <2>2, <2>4
<1>2. A \cap B = {}
  OBVIOUS
<1>3. IsFiniteSet(A) /\ Cardinality(A) = 2^n /\ 2^n \in Nat
  <2>1. IsFiniteSet(1..n)
    BY FS_Interval
  <2>2. QED BY <2>1, PowCard, FS_SUBSET
<1>4. ExistsBijection(A, B)
  <2>1. f \in [A -> B]
    OBVIOUS
  <2>2. \A X, Y \in A : f[X] = f[Y] => X = Y
    OBVIOUS
  <2>3. \A Y \in B : \E X \in A : f[X] = Y
    OBVIOUS
  <2>4. QED BY <2>1, <2>2, <2>3 DEF ExistsBijection, Bijection, Injection, Surjection, IsInjective
<1>5. IsFiniteSet(B) /\ Cardinality(B) = 2^n
  BY <1>3, <1>4, FS_Bijection
<1> HIDE DEF A, B, f
<1>6. Cardinality(A \cup B) = 2^n + 2^n - Cardinality(A \cap B)
  BY <1>3, <1>5, FS_Union
<1>7. Cardinality({}) = 0
  BY FS_EmptySet
<1>8. 2^(n + 1) = Cardinality(A \cup B)
  BY <1>1, PowCard
<1>9. QED BY <1>2, <1>3, <1>6, <1>7, <1>8

LEMMA PowPositive == ASSUME NEW n \in Nat PROVE 2^n \in Nat /\ 2^n >= 1
<1> DEFINE S == {m \in Nat : 2^m >= 1}
<1>1. 0 \in S
  BY PowZero
<1>2. \A m \in Nat : m \in S => m + 1 \in S
  BY PowNext, PowCard
<1> HIDE DEF S
<1>3. Nat \subseteq S
  BY <1>1, <1>2, NatSet
<1> QED BY <1>3, PowCard DEF S

(* The powers of two divide each other. *)
LEMMA PowSum == ASSUME NEW m \in Nat, NEW n \in Nat
                PROVE  2^(m + n) = 2^n * 2^m
<1> DEFINE S == {d \in Nat : 2^(m + d) = 2^d * 2^m}
<1>1. 0 \in S
  BY PowZero, PowPositive
<1>2. ASSUME NEW d \in Nat, d \in S PROVE d + 1 \in S
  <2>1. 2^(m + (d + 1)) = 2 * 2^(m + d)
    BY PowNext, m + (d + 1) = (m + d) + 1, m + d \in Nat
  <2>2. 2^(m + d) = 2^d * 2^m
    BY <1>2
  <2>3. 2^(d + 1) * 2^m = (2 * 2^d) * 2^m
    BY PowNext
  <2>4. \A x, y \in Nat : (2 * x) * y = 2 * (x * y)
    OBVIOUS
  <2>5. (2 * 2^d) * 2^m = 2 * (2^d * 2^m)
    BY <2>4, PowPositive
  <2> QED BY <2>1, <2>2, <2>3, <2>5
<1> HIDE DEF S
<1>3. Nat \subseteq S
  BY <1>1, <1>2, NatSet
<1> QED BY <1>3 DEF S

LEMMA PowDivides ==
    ASSUME NEW m \in Nat, NEW n \in Nat, m <= n
    PROVE  \E c \in Nat : c >= 1 /\ 2^n = c * 2^m
<1>1. n - m \in Nat /\ n = m + (n - m)
  OBVIOUS
<1>2. 2^n = 2^(n - m) * 2^m
  BY <1>1, PowSum
<1> QED BY <1>1, <1>2, PowPositive

LEMMA PowMonotone ==
    ASSUME NEW m \in Nat, NEW n \in Nat
    PROVE  /\ m <= n => 2^m <= 2^n
           /\ m < n => 2 * 2^m <= 2^n
<1>1. ASSUME NEW i \in Nat, NEW j \in Nat, i <= j PROVE 2^i <= 2^j
  <2>1. PICK c \in Nat : c >= 1 /\ 2^j = c * 2^i
    BY <1>1, PowDivides
  <2>2. \A x \in Nat : c * x >= x
    BY <2>1
  <2> QED BY <2>1, <2>2, PowPositive
<1>2. m < n => 2^(m + 1) <= 2^n
  BY <1>1
<1> QED BY <1>1, <1>2, PowNext

(* The exponent is determined by the power. *)
LEMMA PowInjective ==
    ASSUME NEW m \in Nat, NEW n \in Nat
    PROVE  /\ 2^m = 2^n => m = n
           /\ 2^m < 2^n => m < n
           /\ 2^m <= 2^n => m <= n
<1>1. m < n => 2 * 2^m <= 2^n
  BY PowMonotone
<1>2. n < m => 2 * 2^n <= 2^m
  BY PowMonotone
<1> QED BY <1>1, <1>2, PowPositive

-----------------------------------------------------------------------------
(* x is a multiple of the j-th power of two. *)
Aligned(x, j) == \E q \in Nat : x = q * 2^j

LEMMA AlignedZero == ASSUME NEW j \in Nat PROVE Aligned(0, j)
BY PowPositive DEF Aligned

LEMMA AlignedFiner ==
    ASSUME NEW i \in Nat, NEW j \in Nat, j <= i, NEW x, Aligned(x, i)
    PROVE  Aligned(x, j)
<1>1. PICK c \in Nat : 2^i = c * 2^j
  BY PowDivides
<1>2. PICK q \in Nat : x = q * 2^i
  BY DEF Aligned
<1>3. \A u, v, w \in Nat : u * (v * w) = (u * v) * w
  OBVIOUS
<1>4. x = (q * c) * 2^j /\ q * c \in Nat
  BY <1>1, <1>2, <1>3, PowPositive
<1> QED BY <1>4 DEF Aligned

(* Two different multiples are at least the power apart. *)
LEMMA AlignedGap ==
    ASSUME NEW j \in Nat, NEW x \in Nat, NEW y \in Nat,
           Aligned(x, j), Aligned(y, j), x < y
    PROVE  x + 2^j <= y
<1>1. PICK p \in Nat : x = p * 2^j
  BY DEF Aligned
<1>2. PICK q \in Nat : y = q * 2^j
  BY DEF Aligned
<1>3. \A u, v, s \in Nat : u <= v => u * s <= v * s
  OBVIOUS
<1>4. ~ (q <= p)
  BY <1>1, <1>2, <1>3, PowPositive
<1>5. (p + 1) * 2^j <= q * 2^j
  <2>1. p + 1 \in Nat /\ p + 1 <= q /\ 2^j \in Nat
    BY <1>4, PowPositive
  <2> QED BY <1>3, <2>1
<1>6. \A u, s \in Nat : (u + 1) * s = u * s + s
  OBVIOUS
<1> QED BY <1>1, <1>2, <1>5, <1>6, PowPositive

LEMMA AlignedBehind ==
    ASSUME NEW j \in Nat, NEW x, Aligned(x, j)
    PROVE  x \in Nat /\ Aligned(x + 2^j, j)
<1>1. PICK q \in Nat : x = q * 2^j
  BY DEF Aligned
<1>2. \A u, s \in Nat : (u + 1) * s = u * s + s
  OBVIOUS
<1>3. x + 2^j = (q + 1) * 2^j
  BY <1>1, <1>2, PowPositive
<1>4. x \in Nat
  BY <1>1, PowPositive
<1> QED BY <1>3, <1>4 DEF Aligned

(* Of a multiple and the next one, exactly one is a multiple of the next   *)
(* power too.                                                              *)
LEMMA AlignedLower ==
    ASSUME NEW j \in Nat, NEW x, Aligned(x, j + 1)
    PROVE  ~ Aligned(x + 2^j, j + 1)
<1>1. x \in Nat /\ x + 2^j \in Nat /\ 2^j >= 1 /\ 2^(j + 1) = 2 * 2^j
  BY AlignedBehind, PowPositive, PowNext
<1>2. ASSUME Aligned(x + 2^j, j + 1) PROVE FALSE
  <2>1. x + 2^(j + 1) <= x + 2^j
    BY <1>1, <1>2, AlignedGap
  <2> QED BY <1>1, <2>1, PowPositive
<1> QED BY <1>2

LEMMA AlignedUpper ==
    ASSUME NEW j \in Nat, NEW x, Aligned(x, j), ~ Aligned(x, j + 1)
    PROVE  x - 2^j \in Nat /\ Aligned(x - 2^j, j + 1)
<1>1. PICK q \in Nat : x = q * 2^j
  BY DEF Aligned
<1>2. \A u, s \in Nat : (2 * u) * s = u * (2 * s) /\ (2 * u + 1) * s = u * (2 * s) + s
  OBVIOUS
<1>3. ASSUME NEW u \in Nat, q = 2 * u PROVE FALSE
  <2>1. x = u * 2^(j + 1)
    BY <1>1, <1>2, <1>3, PowNext, PowPositive
  <2> QED BY <2>1 DEF Aligned
<1>4. PICK u \in Nat : q = 2 * u + 1
  <2>1. q = 2 * (q \div 2) \/ q = 2 * (q \div 2) + 1
    OBVIOUS
  <2> QED BY <1>3, <2>1
<1>5. x = u * 2^(j + 1) + 2^j
  BY <1>1, <1>2, <1>4, PowNext, PowPositive
<1>6. u * 2^(j + 1) \in Nat
  <2>1. 2^(j + 1) \in Nat
    BY PowPositive
  <2> QED BY <2>1
<1> QED BY <1>5, <1>6, PowPositive DEF Aligned

(* Every stretch as long as the power begins at or before a multiple. *)
LEMMA AlignedAbove ==
    ASSUME NEW j \in Nat, NEW x \in Nat
    PROVE  \E a \in Nat : Aligned(a, j) /\ x <= a /\ a < x + 2^j
<1> DEFINE S == {q \in Nat : x <= q * 2^j}
<1>1. x \in S
  <2>1. \A s \in Nat : s >= 1 => x * s >= x
    OBVIOUS
  <2> QED BY <2>1, PowPositive
<1>2. PICK q \in S : \A p \in S : q <= p
  BY <1>1, Least
<1>3. q \in Nat /\ x <= q * 2^j /\ q * 2^j \in Nat
  BY PowPositive
<1>4. CASE q = 0
  BY <1>3, <1>4, PowPositive DEF Aligned
<1>5. CASE q # 0
  <2>1. q - 1 \in Nat /\ q - 1 \notin S
    BY <1>2, <1>3, <1>5
  <2>2. (q - 1) * 2^j < x
    BY <2>1, PowPositive
  <2>3. \A u, s \in Nat : u # 0 => u * s = (u - 1) * s + s
    OBVIOUS
  <2>4. q * 2^j = (q - 1) * 2^j + 2^j
    BY <1>3, <1>5, <2>3, PowPositive
  <2>5. q * 2^j < x + 2^j
    BY <2>1, <2>2, <2>4, PowPositive
  <2> QED BY <1>3, <2>5 DEF Aligned
<1> QED BY <1>4, <1>5

(* The remainder and the parity of the quotient say what is aligned. *)
LEMMA AlignedRemainder ==
    ASSUME NEW j \in Nat, NEW x \in Nat
    PROVE  /\ x % 2^j = 0 <=> Aligned(x, j)
           /\ Aligned(x, j) => ((x \div 2^j) % 2 = 0 <=> Aligned(x, j + 1))
<1>1. 2^j \in Nat /\ 2^j >= 1
  BY PowPositive
<1>2. \A u, s \in Nat : s >= 1 => /\ u = (u \div s) * s + (u % s)
                                 /\ u \div s \in Nat
                                 /\ u % s \in Nat /\ u % s < s
  OBVIOUS
<1>3. \A u, s \in Nat : s >= 1 => (u * s) % s = 0 /\ (u * s) \div s = u
  OBVIOUS
<1>4. x % 2^j = 0 => Aligned(x, j)
  <2>1. x % 2^j = 0 => x = (x \div 2^j) * 2^j
    BY <1>1, <1>2
  <2> QED BY <1>1, <1>2, <2>1 DEF Aligned
<1>5. ASSUME Aligned(x, j)
      PROVE  x % 2^j = 0 /\ ((x \div 2^j) % 2 = 0 <=> Aligned(x, j + 1))
  <2>1. PICK q \in Nat : x = q * 2^j
    BY <1>5 DEF Aligned
  <2>2. x % 2^j = 0 /\ x \div 2^j = q
    BY <1>1, <1>3, <2>1
  <2>3. ASSUME q % 2 = 0 PROVE Aligned(x, j + 1)
    <3>1. q = (q \div 2) * 2 /\ q \div 2 \in Nat
      BY <2>3
    <3>2. x = (q \div 2) * (2 * 2^j)
      <4>1. \A u, s \in Nat : (u * 2) * s = u * (2 * s)
        OBVIOUS
      <4> QED BY <1>1, <2>1, <3>1, <4>1
    <3> QED BY <3>1, <3>2, PowNext DEF Aligned
  <2>4. ASSUME Aligned(x, j + 1) PROVE q % 2 = 0
    <3>1. PICK u \in Nat : x = u * (2 * 2^j)
      BY <2>4, PowNext DEF Aligned
    <3>2. x = (2 * u) * 2^j /\ 2 * u \in Nat
      <4>1. \A s \in Nat : (2 * u) * s = u * (2 * s)
        OBVIOUS
      <4> QED BY <1>1, <3>1, <4>1
    <3>3. x \div 2^j = 2 * u
      BY <1>1, <1>3, <3>2
    <3> QED BY <2>2, <3>3
  <2> QED BY <2>2, <2>3, <2>4
<1> QED BY <1>4, <1>5

-----------------------------------------------------------------------------
(* The shape of the area *)

Lev(h, b)  == h[b].k + MinK
Sz(h, b)   == 2^Lev(h, b)
Ends(h, b) == b + Sz(h, b)
Fr(h)      == {b \in DOMAIN h : ~ h[b].occupied}

(* get_buddy: of two neighbours at the multiples of a size, the other one. *)
Pair(h, b) == IF Aligned(b, Lev(h, b) + 1) THEN b + Sz(h, b) ELSE b - Sz(h, b)

HeapOK(h) ==
    /\ DOMAIN h \subseteq 0..(Total - 1)
    /\ h \in [DOMAIN h -> [occupied : BOOLEAN, k : 0..(SizeK - MinK)]]

Tiles(h) ==
    /\ 0 \in DOMAIN h
    /\ \A b \in DOMAIN h : /\ Aligned(b, Lev(h, b))
                           /\ Ends(h, b) \in DOMAIN h \cup {Total}
    /\ \A a, b \in DOMAIN h : a < b => Ends(h, a) <= b

(* No two free buddies, unless one of them is x. *)
MergedBut(h, x) ==
    \A a, b \in Fr(h) : a # x /\ b # x /\ h[a].k = h[b].k => Pair(h, a) # b

-----------------------------------------------------------------------------
(* The constants: the rounding up to a power of two, and what follows from *)
(* it for the sizes.                                                       *)

LEMMA NearestPower ==
    ASSUME NEW n \in Nat, \E k \in 0..64 : n <= 2^k
    PROVE  LET k == nearest_greater_k_of_2(n)
           IN  k \in 0..64 /\ 2^k >= n /\ (k = 0 \/ 2^(k - 1) < n)
<1> DEFINE S == {k \in 0..64 : n <= 2^k}
<1>1. PICK k \in S : \A j \in S : k <= j
  <2>1. PICK i \in 0..64 : n <= 2^i
    OBVIOUS
  <2>2. i \in S /\ S \subseteq Nat
    BY <2>1
  <2> HIDE DEF S
  <2> QED BY <2>2, Least
<1>2. k \in 0..64 /\ 2^k >= n
  BY <1>1, PowPositive
<1>3. k = 0 \/ 2^(k - 1) < n
  <2>1. ASSUME k # 0 PROVE k - 1 \in 0..64 /\ k - 1 \notin S
    BY <1>1, <1>2, <2>1
  <2> QED BY <1>2, <2>1, PowPositive
<1> QED BY <1>2, <1>3 DEF nearest_greater_k_of_2

LEMMA MinKIs == MinK = 4
<1>1. Meta \in Nat /\ Meta <= 2^4 /\ 2^3 < Meta
  BY DEF Meta
<1>2. /\ MinK \in 0..64 /\ 2^MinK >= Meta
      /\ MinK = 0 \/ 2^(MinK - 1) < Meta
  <2>1. \E k \in 0..64 : Meta <= 2^k
    <3>1. 4 \in 0..64
      OBVIOUS
    <3> QED BY <1>1, <3>1
  <2> QED BY <1>1, <2>1, NearestPower DEF MinK
<1>3. ASSUME MinK <= 3 PROVE FALSE
  <2>1. MinK \in Nat /\ 3 \in Nat
    BY <1>2
  <2>2. 2^MinK <= 2^3
    BY <1>3, <2>1, PowMonotone
  <2> QED BY <1>1, <1>2, <2>1, <2>2, PowPositive
<1>4. ASSUME 4 <= MinK - 1 PROVE FALSE
  <2>1. MinK - 1 \in Nat /\ 4 \in Nat
    BY <1>2, <1>4
  <2>2. 2^4 <= 2^(MinK - 1)
    BY <1>4, <2>1, PowMonotone
  <2> QED BY <1>1, <1>2, <1>4, <2>1, <2>2, PowPositive
<1> QED BY <1>2, <1>3, <1>4

LEMMA Sizes ==
    /\ MinK \in Nat /\ SizeK \in Nat /\ MinK <= SizeK
    /\ Total \in Nat /\ Total >= 1 /\ Total = 2^SizeK
<1>1. MinK \in Nat /\ SizeK \in Nat /\ MinK <= SizeK
  BY MinKIs, BuddiesAssumption
<1> QED BY <1>1, PowPositive DEF Total

-----------------------------------------------------------------------------
(* The shape of the area. *)

LEMMA BlockFacts ==
    ASSUME NEW h, HeapOK(h), NEW b \in DOMAIN h
    PROVE  /\ b \in Nat /\ b < Total
           /\ h[b] \in [occupied : BOOLEAN, k : 0..(SizeK - MinK)]
           /\ h[b].k \in Nat
           /\ Lev(h, b) \in Nat /\ Lev(h, b) <= SizeK
           /\ Sz(h, b) \in Nat /\ Sz(h, b) >= 1 /\ Sz(h, b) <= Total
           /\ Ends(h, b) \in Nat /\ b < Ends(h, b) /\ Ends(h, b) = b + Sz(h, b)
<1>1. b \in Nat /\ b < Total /\ h[b] \in [occupied : BOOLEAN, k : 0..(SizeK - MinK)]
  BY Sizes DEF HeapOK
<1>2. h[b].k \in Nat /\ Lev(h, b) \in Nat /\ Lev(h, b) <= SizeK
  BY <1>1, Sizes DEF Lev
<1>3. Sz(h, b) \in Nat /\ Sz(h, b) >= 1 /\ Sz(h, b) <= Total
  BY <1>2, Sizes, PowPositive, PowMonotone DEF Sz
<1> QED BY <1>1, <1>2, <1>3 DEF Ends

LEMMA BlocksEnd ==
    ASSUME NEW h, HeapOK(h), Tiles(h), NEW b \in DOMAIN h
    PROVE  Ends(h, b) <= Total
BY BlockFacts, Sizes DEF Tiles, HeapOK

(* Every offset of the area is in a block. *)
LEMMA Covering ==
    ASSUME NEW h, HeapOK(h), Tiles(h), NEW x \in 0..(Total - 1)
    PROVE  \E b \in DOMAIN h : b <= x /\ x < Ends(h, b)
<1> DEFINE S == {d \in Nat : d <= x /\ x - d \in DOMAIN h}
<1>1. x \in S
  BY Sizes DEF Tiles
<1>2. PICK d \in S : \A e \in S : d <= e
  BY <1>1, Least
<1>3. PICK b \in DOMAIN h : b = x - d
  OBVIOUS
<1>4. b <= x /\ b \in Nat /\ x \in Nat /\ x < Total
  BY <1>3, BlockFacts, Sizes
<1>5. ASSUME Ends(h, b) <= x PROVE FALSE
  <2>1. Ends(h, b) \in Nat /\ b < Ends(h, b) /\ Ends(h, b) \in DOMAIN h
    BY <1>4, <1>5, BlockFacts DEF Tiles
  <2>2. x - Ends(h, b) \in S
    BY <1>4, <1>5, <2>1
  <2> QED BY <1>2, <1>3, <1>4, <2>1, <2>2
<1> QED BY <1>4, <1>5, BlockFacts

(* A block is the only one at its offsets. *)
LEMMA NoOverlap ==
    ASSUME NEW h, HeapOK(h), Tiles(h), NEW a \in DOMAIN h, NEW b \in DOMAIN h,
           a <= b, b < Ends(h, a)
    PROVE  a = b
BY BlockFacts DEF Tiles

(* Blocks are not divided by the multiples of a larger size. *)
LEMMA InsideMultiple ==
    ASSUME NEW h, HeapOK(h), Tiles(h), NEW b \in DOMAIN h,
           NEW j \in Nat, NEW a \in Nat, Aligned(a, j)
    PROVE  /\ Lev(h, b) <= j /\ b < a => Ends(h, b) <= a
           /\ Lev(h, b) >= j /\ b <= a /\ a < Ends(h, b) => a + 2^j <= Ends(h, b)
           /\ Lev(h, b) >= j /\ a <= b /\ b < a + 2^j => a = b
<1>1. Lev(h, b) \in Nat /\ b \in Nat /\ Aligned(b, Lev(h, b)) /\ Ends(h, b) = b + 2^Lev(h, b)
  BY BlockFacts DEF Tiles, Ends, Sz
<1>2. ASSUME Lev(h, b) <= j, b < a PROVE Ends(h, b) <= a
  <2>1. Aligned(a, Lev(h, b))
    BY <1>1, <1>2, AlignedFiner
  <2> QED BY <1>1, <1>2, <2>1, AlignedGap
<1>3. ASSUME Lev(h, b) >= j PROVE Aligned(b, j) /\ Ends(h, b) \in Nat /\ Aligned(Ends(h, b), j)
  <2>1. Aligned(Ends(h, b), Lev(h, b)) /\ Ends(h, b) \in Nat
    BY <1>1, AlignedBehind, BlockFacts
  <2> QED BY <1>1, <1>3, <2>1, AlignedFiner
<1>4. ASSUME Lev(h, b) >= j, b <= a, a < Ends(h, b) PROVE a + 2^j <= Ends(h, b)
  BY <1>3, <1>4, AlignedGap
<1>5. ASSUME Lev(h, b) >= j, a <= b, b < a + 2^j PROVE a = b
  <2>1. a < b => a + 2^j <= b
    BY <1>1, <1>3, <1>5, AlignedGap
  <2> QED BY <1>1, <1>5, <2>1, PowPositive
<1> QED BY <1>2, <1>4, <1>5

-----------------------------------------------------------------------------
(* Buddies. *)

LEMMA PairFacts ==
    ASSUME NEW h, HeapOK(h), Tiles(h), NEW b \in DOMAIN h
    PROVE  LET j == Lev(h, b)
               p == Pair(h, b)
           IN  \/ /\ p = b + 2^j /\ Aligned(b, j + 1) /\ ~ Aligned(p, j + 1)
                  /\ Aligned(p, j)
               \/ /\ b = p + 2^j /\ Aligned(p, j + 1) /\ ~ Aligned(b, j + 1)
                  /\ p \in Nat
<1> DEFINE j == Lev(h, b)
<1>1. j \in Nat /\ b \in Nat /\ Aligned(b, j) /\ Sz(h, b) = 2^j /\ 2^j \in Nat
  BY BlockFacts, PowPositive DEF Tiles, Sz
<1>2. CASE Aligned(b, j + 1)
  <2>1. Pair(h, b) = b + 2^j
    BY <1>1, <1>2 DEF Pair
  <2>2. Aligned(b + 2^j, j) /\ ~ Aligned(b + 2^j, j + 1)
    BY <1>1, <1>2, AlignedBehind, AlignedLower
  <2> QED BY <1>2, <2>1, <2>2
<1>3. CASE ~ Aligned(b, j + 1)
  <2>1. Pair(h, b) = b - 2^j
    BY <1>1, <1>3 DEF Pair
  <2>2. b - 2^j \in Nat /\ Aligned(b - 2^j, j + 1)
    BY <1>1, <1>3, AlignedUpper
  <2>3. b = (b - 2^j) + 2^j
    BY <1>1
  <2> QED BY <1>3, <2>1, <2>2, <2>3
<1> QED BY <1>2, <1>3

(* The buddy of every block but the whole area is a block: get_buddy never *)
(* returns the inside of one.                                              *)
LEMMA PairIsBlock ==
    ASSUME NEW h, HeapOK(h), Tiles(h), NEW b \in DOMAIN h, Lev(h, b) < SizeK
    PROVE  /\ Pair(h, b) \in DOMAIN h
           /\ Lev(h, Pair(h, b)) <= Lev(h, b)
<1> DEFINE j == Lev(h, b)
           p == Pair(h, b)
<1>1. /\ j \in Nat /\ j + 1 \in Nat /\ 2^j \in Nat /\ 2^j >= 1 /\ 2^(j + 1) = 2 * 2^j
      /\ b \in Nat /\ Ends(h, b) = b + 2^j /\ b + 2^j <= Total
  BY BlockFacts, BlocksEnd, PowPositive, PowNext DEF Ends, Sz
<1>2. \/ p = b + 2^j /\ Aligned(b, j + 1) /\ ~ Aligned(p, j + 1) /\ Aligned(p, j)
      \/ b = p + 2^j /\ Aligned(p, j + 1) /\ ~ Aligned(b, j + 1) /\ p \in Nat
  BY PairFacts
<1>3. Aligned(Total, j + 1)
  <2>1. 2^SizeK = 1 * 2^SizeK
    BY Sizes
  <2>2. Aligned(Total, SizeK)
    BY <2>1, Sizes DEF Aligned
  <2> QED BY <1>1, <2>2, Sizes, AlignedFiner
<1> HIDE DEF j, p
<1>4. CASE p = b + 2^j /\ ~ Aligned(p, j + 1) /\ Aligned(p, j)
  <2>1. p \in DOMAIN h
    BY <1>1, <1>3, <1>4 DEF Tiles
  <2>2. ASSUME j + 1 <= Lev(h, p) PROVE FALSE
    <3>1. Lev(h, p) \in Nat /\ Aligned(p, Lev(h, p))
      BY <2>1, BlockFacts DEF Tiles
    <3>2. Aligned(p, j + 1)
      BY <1>1, <2>2, <3>1, AlignedFiner
    <3> QED BY <1>4, <3>2
  <2>3. Lev(h, p) \in Nat
    BY <2>1, BlockFacts
  <2> QED BY <1>1, <2>1, <2>2, <2>3 DEF p, j
<1>5. CASE b = p + 2^j /\ Aligned(p, j + 1) /\ p \in Nat
  <2>1. PICK a \in DOMAIN h : a <= p /\ p < Ends(h, a)
    <3>1. p \in 0..(Total - 1)
      BY <1>1, <1>5, Sizes
    <3> QED BY <3>1, Covering
  <2>2. a \in Nat /\ Lev(h, a) \in Nat /\ Ends(h, a) \in Nat /\ Ends(h, a) <= b
        /\ Ends(h, a) = a + 2^Lev(h, a)
    <3>1. a < b
      BY <1>1, <1>5, <2>1, BlockFacts
    <3> QED BY <2>1, <3>1, BlockFacts DEF Tiles, Ends, Sz
  <2>3. ASSUME j + 1 <= Lev(h, a) PROVE FALSE
    <3>1. p + 2^(j + 1) <= Ends(h, a)
      BY <1>1, <1>5, <2>1, <2>2, <2>3, InsideMultiple
    <3> QED BY <1>1, <1>5, <2>2, <3>1
  <2>4. Lev(h, a) <= j /\ Lev(h, a) <= j + 1
    BY <1>1, <2>2, <2>3
  <2>5. ~ (a < p)
    BY <1>1, <1>5, <2>1, <2>2, <2>4, InsideMultiple
  <2>6. a = p
    BY <1>5, <2>1, <2>2, <2>5
  <2> QED BY <2>1, <2>4, <2>6 DEF p, j
<1> QED BY <1>2, <1>4, <1>5

(* The buddy of the buddy of a block, when as large, is the block. *)
LEMMA PairBack ==
    ASSUME NEW h, HeapOK(h), Tiles(h), NEW a \in DOMAIN h, NEW b \in DOMAIN h,
           Lev(h, a) = Lev(h, b), Pair(h, a) = b
    PROVE  Pair(h, b) = a
<1> DEFINE j == Lev(h, b)
<1>1. a \in Nat /\ b \in Nat /\ 2^j \in Nat /\ 2^j >= 1 /\ j \in Nat
  BY BlockFacts, PowPositive
<1>2. \/ b = a + 2^j /\ ~ Aligned(b, j + 1)
      \/ a = b + 2^j /\ Aligned(b, j + 1)
  BY PairFacts
<1>3. \/ Pair(h, b) = b + 2^j /\ Aligned(b, j + 1)
      \/ b = Pair(h, b) + 2^j /\ ~ Aligned(b, j + 1) /\ Pair(h, b) \in Nat
  BY PairFacts
<1> QED BY <1>1, <1>2, <1>3

LEMMA SizesAgree ==
    ASSUME NEW h, HeapOK(h), NEW a \in DOMAIN h, NEW b \in DOMAIN h
    PROVE  /\ Sz(h, a) = Sz(h, b) <=> h[a].k = h[b].k
           /\ Lev(h, a) = Lev(h, b) <=> h[a].k = h[b].k
<1>1. Lev(h, a) = Lev(h, b) <=> h[a].k = h[b].k
  BY BlockFacts, Sizes DEF Lev
<1>2. Sz(h, a) = Sz(h, b) <=> Lev(h, a) = Lev(h, b)
  BY BlockFacts, PowInjective DEF Sz
<1> QED BY <1>1, <1>2

-----------------------------------------------------------------------------
(* The two steps that change the blocks. *)

Middle(h, b) == b + 2^(Lev(h, b) - 1)
Halved(h, b) == [occupied |-> FALSE, k |-> h[b].k - 1]
Split(h, b) ==
    [x \in DOMAIN h \cup {Middle(h, b)} |->
        IF x \in {b, Middle(h, b)} THEN Halved(h, b) ELSE h[x]]

(* The headers g are those of h with b cut at m in two halves. *)
CutAt(h, b, m, g) ==
    /\ m \notin DOMAIN h /\ b < m /\ m < Ends(h, b) /\ m \in Nat
    /\ HeapOK(g) /\ DOMAIN g = DOMAIN h \cup {m}
    /\ Fr(g) = Fr(h) \cup {m}
    /\ Lev(g, b) = Lev(h, b) - 1 /\ Lev(g, m) = Lev(h, b) - 1
    /\ 2 * Sz(g, b) = Sz(h, b)
    /\ Ends(g, b) = m /\ Ends(g, m) = Ends(h, b)
    /\ \A x \in DOMAIN h : x # b =>
          g[x] = h[x] /\ Lev(g, x) = Lev(h, x) /\ Ends(g, x) = Ends(h, x)

(* The halves of a block are where it was, and every other block stays. *)
LEMMA SplitFacts ==
    ASSUME NEW h, HeapOK(h), Tiles(h), NEW b \in Fr(h), h[b].k > 0
    PROVE  CutAt(h, b, Middle(h, b), Split(h, b))
<1> DEFINE j == Lev(h, b) - 1
           m == Middle(h, b)
           g == Split(h, b)
<1>1. /\ b \in DOMAIN h /\ ~ h[b].occupied
      /\ b \in Nat /\ h[b].k \in Nat /\ h[b].k \in 0..(SizeK - MinK) /\ MinK \in Nat
      /\ Lev(h, b) = h[b].k + MinK /\ SizeK \in Nat
  BY BlockFacts, Sizes DEF Fr, Lev
<1>2. j \in Nat /\ Lev(h, b) = j + 1 /\ 2^j \in Nat /\ 2^j >= 1 /\ 2^(j + 1) = 2 * 2^j
  <2>1. j \in Nat /\ Lev(h, b) = j + 1
    BY <1>1
  <2> HIDE DEF j
  <2> QED BY <2>1, PowPositive, PowNext
<1>3. m = b + 2^j /\ Ends(h, b) = b + 2 * 2^j /\ Sz(h, b) = 2 * 2^j
  BY <1>2 DEF Middle, Ends, Sz
<1>4. b < m /\ m < Ends(h, b) /\ m \in Nat
  BY <1>1, <1>2, <1>3
<1>5. m \notin DOMAIN h
  BY <1>1, <1>4, NoOverlap
<1>6. Ends(h, b) <= Total
  BY <1>1, BlocksEnd
<1>7. Halved(h, b) \in [occupied : BOOLEAN, k : 0..(SizeK - MinK)]
  BY <1>1, Sizes DEF Halved
<1>8. /\ DOMAIN g = DOMAIN h \cup {m}
      /\ \A x \in DOMAIN h : x # b => g[x] = h[x]
      /\ g[b] = Halved(h, b) /\ g[m] = Halved(h, b)
  BY <1>1, <1>5 DEF Split
<1>9. HeapOK(g)
  <2>1. m \in 0..(Total - 1)
    BY <1>1, <1>4, <1>6, BlockFacts, Sizes
  <2>2. DOMAIN g \subseteq 0..(Total - 1)
    BY <1>8, <2>1 DEF HeapOK
  <2>3. \A x \in DOMAIN g : g[x] \in [occupied : BOOLEAN, k : 0..(SizeK - MinK)]
    BY <1>7, <1>8, BlockFacts
  <2>4. g = [x \in DOMAIN g |-> g[x]]
    BY DEF Split
  <2> QED BY <2>2, <2>3, <2>4 DEF HeapOK
<1>10. Fr(g) = Fr(h) \cup {m}
  <2>1. ~ g[b].occupied /\ ~ g[m].occupied
    BY <1>8 DEF Halved
  <2> QED BY <1>1, <1>8, <2>1 DEF Fr
<1>11. Lev(g, b) = j /\ Lev(g, m) = j
  BY <1>1, <1>8 DEF Lev, Halved
<1>12. Sz(g, b) = 2^j /\ Ends(g, b) = m /\ Ends(g, m) = Ends(h, b)
  <2>1. Ends(g, m) = m + 2^j
    BY <1>11 DEF Ends, Sz
  <2> QED BY <1>1, <1>2, <1>3, <1>11, <2>1 DEF Ends, Sz
<1>13. \A x \in DOMAIN h : x # b => Lev(g, x) = Lev(h, x) /\ Ends(g, x) = Ends(h, x)
  BY <1>8 DEF Lev, Sz, Ends
<1> HIDE DEF m, g
<1>14. CutAt(h, b, m, g)
  BY <1>2, <1>3, <1>4, <1>5, <1>8, <1>9, <1>10, <1>11, <1>12, <1>13 DEF CutAt
<1> QED BY <1>14 DEF m, g

LEMMA SplitTiles ==
    ASSUME NEW h, HeapOK(h), Tiles(h), NEW b \in Fr(h), NEW m, NEW g, CutAt(h, b, m, g)
    PROVE  Tiles(g)
<1>1. b \in DOMAIN h /\ Lev(h, b) \in Nat
  BY BlockFacts DEF Fr
<1>2. /\ m \notin DOMAIN h /\ b < m /\ m < Ends(h, b) /\ m \in Nat
      /\ DOMAIN g = DOMAIN h \cup {m}
      /\ Lev(g, b) = Lev(h, b) - 1 /\ Lev(g, m) = Lev(h, b) - 1
      /\ Ends(g, b) = m /\ Ends(g, m) = Ends(h, b)
      /\ \A x \in DOMAIN h : x # b => Lev(g, x) = Lev(h, x) /\ Ends(g, x) = Ends(h, x)
      /\ HeapOK(g)
  BY DEF CutAt
<1>3. Aligned(b, Lev(g, b)) /\ Aligned(m, Lev(g, m))
  <2>1. Lev(g, b) \in Nat /\ Aligned(b, Lev(h, b)) /\ Lev(g, b) <= Lev(h, b)
    BY <1>1, <1>2, BlockFacts DEF Tiles
  <2>2. Aligned(b, Lev(g, b))
    BY <1>1, <2>1, AlignedFiner
  <2>3. m = b + 2^Lev(g, b)
    BY <1>2 DEF Ends, Sz
  <2> QED BY <1>2, <2>1, <2>2, <2>3, AlignedBehind
<1>4. ASSUME NEW x \in DOMAIN g
      PROVE  Aligned(x, Lev(g, x)) /\ Ends(g, x) \in DOMAIN g \cup {Total}
  <2>1. CASE x \in {b, m}
    BY <1>1, <1>2, <1>3, <2>1 DEF Tiles
  <2>2. CASE x \in DOMAIN h /\ x # b
    BY <1>2, <2>2 DEF Tiles
  <2> QED BY <1>2, <2>1, <2>2
<1>5. ASSUME NEW x \in DOMAIN g, NEW y \in DOMAIN g, x < y
      PROVE  Ends(g, x) <= y
  <2>1. b \in Nat /\ Ends(h, b) \in Nat
    BY <1>1, BlockFacts
  <2>2. CASE x \in DOMAIN h /\ y \in DOMAIN h
    <3>1. Ends(h, x) <= y
      BY <1>5, <2>2 DEF Tiles
    <3> QED BY <1>2, <2>1, <2>2, <3>1, BlockFacts
  <2>3. CASE x = m /\ y \in DOMAIN h
    <3>1. Ends(h, b) <= y
      BY <1>1, <1>2, <1>5, <2>1, <2>3, BlockFacts DEF Tiles
    <3> QED BY <1>2, <2>3, <3>1
  <2>4. CASE x \in DOMAIN h /\ y = m
    <3>1. CASE x = b
      BY <1>2, <2>4, <3>1
    <3>2. CASE x # b
      <4>1. x \in Nat /\ ~ (b < x)
        BY <1>1, <1>2, <1>5, <2>1, <2>4, BlockFacts DEF Tiles
      <4>2. Ends(h, x) <= b
        BY <1>1, <2>1, <2>4, <3>2, <4>1 DEF Tiles
      <4> QED BY <1>2, <2>1, <2>4, <3>2, <4>1, <4>2, BlockFacts
    <3> QED BY <3>1, <3>2
  <2>5. ~ (x = m /\ y = m)
    BY <1>2, <1>5
  <2> QED BY <1>2, <2>2, <2>3, <2>4, <2>5
<1> QED BY <1>2, <1>4, <1>5 DEF Tiles

(* The new halves are buddies of each other and of no other block. *)
LEMMA SplitMerged ==
    ASSUME NEW h, HeapOK(h), Tiles(h), NEW b \in Fr(h), NEW m, NEW g, CutAt(h, b, m, g),
           MergedBut(h, b)
    PROVE  MergedBut(g, b)
<1>1. /\ Fr(g) = Fr(h) \cup {m} /\ HeapOK(g) /\ Tiles(g) /\ b \in DOMAIN h
      /\ DOMAIN g = DOMAIN h \cup {m} /\ b < m
      /\ \A x \in DOMAIN h : x # b => g[x] = h[x] /\ Lev(g, x) = Lev(h, x)
      /\ m = Ends(g, b) /\ Lev(g, b) = Lev(g, m) /\ Lev(g, b) + 1 = Lev(h, b)
  <2>1. b \in DOMAIN h /\ Lev(h, b) \in Nat
    BY BlockFacts DEF Fr
  <2>2. Tiles(g)
    BY SplitTiles
  <2> QED BY <2>1, <2>2 DEF CutAt
<1>2. Pair(g, b) = m
  <2>1. Aligned(b, Lev(g, b) + 1)
    BY <1>1 DEF Tiles
  <2> QED BY <1>1, <2>1 DEF Pair, Ends
<1>3. Pair(g, m) = b
  BY <1>1, <1>2, PairBack
<1>4. ASSUME NEW x \in Fr(g), NEW y \in Fr(g), x # b, y # b, g[x].k = g[y].k, Pair(g, x) = y
      PROVE  FALSE
  <2>1. x \in DOMAIN g /\ y \in DOMAIN g
    BY DEF Fr
  <2>2. Pair(g, y) = x
    BY <1>1, <1>4, <2>1, PairBack, SizesAgree
  <2>3. x # m /\ y # m
    BY <1>3, <1>4, <2>2
  <2>4. x \in Fr(h) /\ y \in Fr(h) /\ x \in DOMAIN h /\ y \in DOMAIN h
    BY <1>1, <2>3 DEF Fr
  <2>5. Pair(h, x) = Pair(g, x)
    BY <1>1, <1>4, <2>4 DEF Pair, Sz
  <2> QED BY <1>1, <1>4, <2>4, <2>5 DEF MergedBut
<1> QED BY <1>4 DEF MergedBut

Join(h, low, high) ==
    [x \in DOMAIN h \ {high} |->
        IF x = low THEN [h[x] EXCEPT !.k = @ + 1] ELSE h[x]]

(* low and high are free buddies of one size. *)
FreePair(h, low, high) ==
    /\ low \in Fr(h) /\ high \in Fr(h)
    /\ Lev(h, low) = Lev(h, high) /\ Lev(h, low) < SizeK
    /\ Pair(h, low) = high /\ low < high

(* The headers g are those of h with high joined to low. *)
Joined(h, low, high, g) ==
    /\ Ends(h, low) = high /\ Aligned(low, Lev(h, low) + 1)
    /\ HeapOK(g) /\ DOMAIN g = DOMAIN h \ {high}
    /\ Fr(g) = Fr(h) \ {high}
    /\ Lev(g, low) = Lev(h, low) + 1 /\ Ends(g, low) = Ends(h, high)
    /\ \A x \in DOMAIN g : x # low =>
          g[x] = h[x] /\ Lev(g, x) = Lev(h, x) /\ Ends(g, x) = Ends(h, x)

LEMMA MergeFacts ==
    ASSUME NEW h, HeapOK(h), Tiles(h), NEW low, NEW high, FreePair(h, low, high)
    PROVE  Joined(h, low, high, Join(h, low, high))
<1> DEFINE j == Lev(h, low)
           g == Join(h, low, high)
<1>1. /\ low \in DOMAIN h /\ high \in DOMAIN h /\ low # high
      /\ ~ h[low].occupied /\ low < high
      /\ low \in Nat /\ high \in Nat
      /\ h[low] \in [occupied : BOOLEAN, k : 0..(SizeK - MinK)]
      /\ j = h[low].k + MinK /\ j < SizeK /\ MinK \in Nat /\ SizeK \in Nat
      /\ Lev(h, high) = j /\ j \in Nat
  BY BlockFacts, Sizes DEF Fr, Lev, FreePair
<1>2. 2^j \in Nat /\ 2^j >= 1 /\ 2^(j + 1) = 2 * 2^j
  BY <1>1, PowPositive, PowNext
<1>3. high = low + 2^j /\ Aligned(low, j + 1)
  <2>1. \/ high = low + 2^j /\ Aligned(low, j + 1)
        \/ low = high + 2^j
    BY <1>1, PairFacts DEF FreePair
  <2> QED BY <1>1, <1>2, <2>1
<1>4. DOMAIN g = DOMAIN h \ {high} /\ low \in DOMAIN g
      /\ g[low] = [h[low] EXCEPT !.k = @ + 1]
      /\ \A x \in DOMAIN g : x # low => g[x] = h[x]
  BY <1>1 DEF Join
<1>5. g[low] \in [occupied : BOOLEAN, k : 0..(SizeK - MinK)]
      /\ g[low].k = h[low].k + 1 /\ g[low].occupied = h[low].occupied
  BY <1>1, <1>4
<1>6. HeapOK(g)
  <2>1. DOMAIN g \subseteq 0..(Total - 1)
    BY <1>4 DEF HeapOK
  <2>2. \A x \in DOMAIN g : g[x] \in [occupied : BOOLEAN, k : 0..(SizeK - MinK)]
    BY <1>4, <1>5, BlockFacts
  <2>3. g = [x \in DOMAIN g |-> g[x]]
    BY DEF Join
  <2> QED BY <2>1, <2>2, <2>3 DEF HeapOK
<1>7. Fr(g) = Fr(h) \ {high}
  BY <1>1, <1>4, <1>5 DEF Fr
<1>8. Lev(g, low) = j + 1
  BY <1>1, <1>5 DEF Lev
<1>9. Ends(h, low) = high /\ Ends(g, low) = Ends(h, high)
  <2>1. Ends(h, low) = low + 2^j /\ Ends(h, high) = high + 2^j /\ Ends(g, low) = low + 2^(j + 1)
    BY <1>1, <1>8 DEF Ends, Sz
  <2> HIDE DEF j, g
  <2> QED BY <1>1, <1>2, <1>3, <2>1
<1>10. \A x \in DOMAIN g : x # low => Lev(g, x) = Lev(h, x) /\ Ends(g, x) = Ends(h, x)
  BY <1>4 DEF Lev, Sz, Ends
<1> HIDE DEF g
<1>11. Joined(h, low, high, g)
  BY <1>1, <1>3, <1>4, <1>6, <1>7, <1>8, <1>9, <1>10 DEF Joined
<1> QED BY <1>11 DEF g

LEMMA MergeTiles ==
    ASSUME NEW h, HeapOK(h), Tiles(h), NEW low, NEW high, FreePair(h, low, high),
           NEW g, Joined(h, low, high, g)
    PROVE  Tiles(g)
<1>1. /\ low \in DOMAIN h /\ high \in DOMAIN h /\ low \in Nat /\ high \in Nat /\ low < high
      /\ Ends(h, high) \in Nat
  BY BlockFacts DEF FreePair, Fr
<1>2. /\ DOMAIN g = DOMAIN h \ {high} /\ low \in DOMAIN g
      /\ Ends(h, low) = high /\ Ends(g, low) = Ends(h, high)
      /\ Aligned(low, Lev(g, low))
      /\ \A x \in DOMAIN g : x # low => Lev(g, x) = Lev(h, x) /\ Ends(g, x) = Ends(h, x)
  BY <1>1 DEF Joined
<1>3. ASSUME NEW x \in DOMAIN g
      PROVE  Aligned(x, Lev(g, x)) /\ Ends(g, x) \in DOMAIN g \cup {Total}
  <2>1. CASE x = low
    <3>1. high < Ends(h, high)
      BY <1>1, BlockFacts
    <3> QED BY <1>1, <1>2, <2>1, <3>1 DEF Tiles
  <2>2. CASE x # low
    <3>1. x \in DOMAIN h /\ Aligned(x, Lev(h, x)) /\ Ends(h, x) \in DOMAIN h \cup {Total}
      BY <1>2 DEF Tiles
    <3>2. ASSUME Ends(h, x) = high PROVE FALSE
      <4>1. x \in Nat /\ x < high
        BY <3>1, <3>2, BlockFacts
      <4>2. CASE x < low
        <5>1. Ends(h, x) <= low
          BY <1>1, <3>1, <4>2 DEF Tiles
        <5> QED BY <1>1, <3>2, <5>1
      <4>3. CASE low < x
        <5>1. Ends(h, low) <= x
          BY <1>1, <3>1, <4>3 DEF Tiles
        <5> QED BY <1>1, <1>2, <4>1, <5>1
      <4> QED BY <1>1, <2>2, <4>1, <4>2, <4>3
    <3> QED BY <1>2, <2>2, <3>1, <3>2
  <2> QED BY <2>1, <2>2
<1>4. ASSUME NEW x \in DOMAIN g, NEW y \in DOMAIN g, x < y
      PROVE  Ends(g, x) <= y
  <2>1. x \in DOMAIN h /\ y \in DOMAIN h /\ y # high /\ Ends(h, x) <= y /\ x \in Nat /\ y \in Nat
    BY <1>2, <1>4, BlockFacts DEF Tiles
  <2>2. CASE x = low
    <3>1. high < y
      BY <1>1, <1>2, <2>1, <2>2
    <3> QED BY <1>1, <1>2, <2>1, <2>2, <3>1 DEF Tiles
  <2>3. CASE x # low
    BY <1>2, <2>1, <2>3
  <2> QED BY <2>2, <2>3
<1> QED BY <1>1, <1>2, <1>3, <1>4 DEF Tiles

LEMMA MergeMerged ==
    ASSUME NEW h, NEW low, NEW high, NEW g, Joined(h, low, high, g),
           MergedBut(h, low) \/ MergedBut(h, high)
    PROVE  MergedBut(g, low)
<1> SUFFICES ASSUME NEW x \in Fr(g), NEW y \in Fr(g), x # low, y # low, g[x].k = g[y].k,
                    Pair(g, x) = y
             PROVE  FALSE
  BY DEF MergedBut
<1>1. x \in DOMAIN g /\ y \in DOMAIN g
  BY DEF Fr
<1>2. x \in Fr(h) /\ y \in Fr(h) /\ x # high /\ y # high
      /\ g[x] = h[x] /\ g[y] = h[y]
  BY <1>1 DEF Joined
<1>3. Pair(h, x) = y
  BY <1>2 DEF Pair, Sz, Lev
<1> QED BY <1>2, <1>3 DEF MergedBut

-----------------------------------------------------------------------------
(* Where no free buddies are left, a hole of twice a power of two holds a  *)
(* free block of that size: a multiple of the power begins in its first    *)
(* half, and the smallest block behind it would have a buddy of its size.  *)
LEMMA HoleHasBlock ==
    ASSUME NEW h, HeapOK(h), Tiles(h), MergedBut(h, Null), NEW j \in Nat, NEW o \in Nat,
           o + 2 * 2^j <= Total,
           \A r \in DOMAIN h \ Fr(h) : Ends(h, r) <= o \/ o + 2 * 2^j <= r
    PROVE  \E f \in Fr(h) : Lev(h, f) >= j
<1> SUFFICES ASSUME \A f \in Fr(h) : ~ (Lev(h, f) >= j) PROVE FALSE
  OBVIOUS
<1>1. 2^j \in Nat /\ 2^j >= 1 /\ Total \in Nat
  BY PowPositive, Sizes
<1>2. PICK a \in Nat : Aligned(a, j) /\ o <= a /\ a < o + 2^j
  BY AlignedAbove
<1>3. a + 2^j <= Total /\ a + 2^j <= o + 2 * 2^j /\ a \in 0..(Total - 1)
      /\ a + 2^j \in Nat /\ Aligned(a + 2^j, j)
  BY <1>1, <1>2, AlignedBehind
<1>4. ASSUME NEW b \in DOMAIN h, b < a + 2^j, a < Ends(h, b)
      PROVE  b \in Fr(h) /\ Lev(h, b) < j
  <2>1. b \in Fr(h)
    BY <1>1, <1>2, <1>3, <1>4, BlockFacts
  <2> QED BY <2>1, BlockFacts
<1>5. a \in DOMAIN h
  <2>1. PICK c \in DOMAIN h : c <= a /\ a < Ends(h, c)
    BY <1>3, Covering
  <2>2. c \in Nat /\ Lev(h, c) \in Nat /\ Ends(h, c) \in Nat
    BY BlockFacts
  <2>3. Lev(h, c) < j
    BY <1>1, <1>2, <1>4, <2>1, <2>2
  <2>4. ~ (c < a)
    BY <1>2, <2>1, <2>2, <2>3, InsideMultiple
  <2> QED BY <2>1, <2>2, <2>4
<1> DEFINE Behind_a == {b \in DOMAIN h : a <= b /\ b < a + 2^j}
           S == {Lev(h, b) : b \in Behind_a}
<1>6. PICK x \in Behind_a : \A y \in Behind_a : Lev(h, x) <= Lev(h, y)
  <2>1. S \subseteq Nat
    BY BlockFacts
  <2>2. S # {}
    BY <1>1, <1>2, <1>5
  <2>3. PICK i \in S : \A k \in S : i <= k
    BY <2>1, <2>2, Least
  <2> QED BY <2>3
<1> DEFINE i == Lev(h, x)
           p == Pair(h, x)
<1>7. x \in DOMAIN h /\ x \in Nat /\ a <= x /\ x < a + 2^j /\ i \in Nat /\ a < Ends(h, x)
  BY <1>2, <1>6, BlockFacts
<1>8. x \in Fr(h) /\ i < j /\ i + 1 <= j
  BY <1>4, <1>7
<1>9. i < SizeK
  <2>1. 2^j <= 2^SizeK
    BY <1>1, <1>2, <1>3, Sizes
  <2>2. j <= SizeK
    BY <2>1, Sizes, PowInjective
  <2> QED BY <1>7, <1>8, <2>2, Sizes
<1>10. p \in DOMAIN h /\ Lev(h, p) <= i /\ p \in Nat
  BY <1>7, <1>9, PairIsBlock, BlockFacts
<1>11. Aligned(a, i + 1) /\ Aligned(a + 2^j, i + 1)
  BY <1>2, <1>3, <1>7, <1>8, AlignedFiner
<1>12. 2^i \in Nat /\ 2^i >= 1 /\ 2^(i + 1) = 2 * 2^i
  BY <1>7, PowPositive, PowNext
<1>13. \/ p = x + 2^i /\ Aligned(x, i + 1)
       \/ x = p + 2^i /\ Aligned(p, i + 1)
  BY <1>7, PairFacts
<1> HIDE DEF i, p, Behind_a, S
<1>14. a <= p /\ p < a + 2^j
  <2>1. CASE p = x + 2^i /\ Aligned(x, i + 1)
    <3>1. x + 2^(i + 1) <= a + 2^j
      BY <1>3, <1>7, <1>11, <2>1, AlignedGap
    <3> QED BY <1>1, <1>2, <1>7, <1>12, <2>1, <3>1
  <2>2. CASE x = p + 2^i /\ Aligned(p, i + 1)
    <3>1. p < a => p + 2^(i + 1) <= a
      BY <1>7, <1>10, <1>11, <2>2, AlignedGap
    <3> QED BY <1>1, <1>7, <1>10, <1>12, <2>2, <3>1
  <2> QED BY <1>13, <2>1, <2>2
<1>15. p \in Behind_a
  BY <1>10, <1>14 DEF Behind_a
<1>16. p \in Fr(h) /\ Lev(h, p) = i
  <2>1. Lev(h, p) \in Nat /\ p < Ends(h, p) /\ Ends(h, p) \in Nat
    BY <1>10, BlockFacts
  <2>2. i <= Lev(h, p)
    BY <1>6, <1>15 DEF i
  <2> QED BY <1>1, <1>2, <1>4, <1>7, <1>10, <1>14, <2>1, <2>2
<1>17. h[x].k = h[p].k
  BY <1>7, <1>10, <1>16, SizesAgree DEF i
<1>18. x # Null /\ p # Null
  BY <1>7, <1>10 DEF Null
<1> QED BY <1>8, <1>16, <1>17, <1>18 DEF MergedBut, p

-----------------------------------------------------------------------------
(* Occupying a block and giving it back leave every block where it is. *)
Marked(h, b, o) == [h EXCEPT ![b].occupied = o]

LEMMA MarkFacts ==
    ASSUME NEW h, HeapOK(h), NEW b \in DOMAIN h, NEW o \in BOOLEAN,
           NEW g, g = Marked(h, b, o)
    PROVE  /\ HeapOK(g) /\ DOMAIN g = DOMAIN h
           /\ \A x \in DOMAIN h : x # b => g[x] = h[x]
           /\ \A x \in DOMAIN h : /\ Lev(g, x) = Lev(h, x) /\ Sz(g, x) = Sz(h, x)
                                  /\ Ends(g, x) = Ends(h, x) /\ Pair(g, x) = Pair(h, x)
                                  /\ g[x].k = h[x].k
           /\ o => Fr(g) = Fr(h) \ {b}
           /\ ~ o => Fr(g) = Fr(h) \cup {b}
<1>1. h[b] \in [occupied : BOOLEAN, k : 0..(SizeK - MinK)]
  BY BlockFacts
<1>2. /\ DOMAIN g = DOMAIN h
      /\ \A x \in DOMAIN h : x # b => g[x] = h[x]
      /\ g[b] = [h[b] EXCEPT !.occupied = o]
  BY DEF Marked
<1>3. /\ g[b] \in [occupied : BOOLEAN, k : 0..(SizeK - MinK)]
      /\ g[b].k = h[b].k /\ g[b].occupied = o
  BY <1>1, <1>2
<1>4. HeapOK(g)
  <2>1. \A x \in DOMAIN g : g[x] \in [occupied : BOOLEAN, k : 0..(SizeK - MinK)]
    BY <1>2, <1>3, BlockFacts
  <2>2. g = [x \in DOMAIN g |-> g[x]]
    BY DEF Marked, HeapOK
  <2> QED BY <1>2, <2>1, <2>2 DEF HeapOK
<1>5. \A x \in DOMAIN h : g[x].k = h[x].k
  BY <1>2, <1>3
<1>6. \A x \in DOMAIN h : /\ Lev(g, x) = Lev(h, x) /\ Sz(g, x) = Sz(h, x)
                          /\ Ends(g, x) = Ends(h, x) /\ Pair(g, x) = Pair(h, x)
  BY <1>5 DEF Lev, Sz, Ends, Pair
<1>7. o => Fr(g) = Fr(h) \ {b}
  BY <1>2, <1>3 DEF Fr
<1>8. ~ o => Fr(g) = Fr(h) \cup {b}
  BY <1>2, <1>3 DEF Fr
<1> QED BY <1>2, <1>4, <1>5, <1>6, <1>7, <1>8

LEMMA MarkFreed ==
    ASSUME NEW h, HeapOK(h), NEW b \in DOMAIN h
    PROVE  Fr(Marked(h, b, FALSE)) = Fr(h) \cup {b}
<1>1. h[b] \in [occupied : BOOLEAN, k : 0..(SizeK - MinK)]
  BY BlockFacts
<1>2. \A x \in DOMAIN h : x # b => Marked(h, b, FALSE)[x] = h[x]
  BY DEF Marked
<1>3. ~ Marked(h, b, FALSE)[b].occupied
  BY <1>1 DEF Marked
<1>4. DOMAIN Marked(h, b, FALSE) = DOMAIN h
  BY DEF Marked
<1> QED BY <1>2, <1>3, <1>4 DEF Fr

LEMMA MarkSizes ==
    ASSUME NEW h, HeapOK(h), NEW b \in DOMAIN h, NEW o \in BOOLEAN
    PROVE  \A x \in DOMAIN h : Sz(Marked(h, b, o), x) = Sz(h, x)
<1> DEFINE g == Marked(h, b, o)
<1>1. \A x \in DOMAIN h : /\ Lev(g, x) = Lev(h, x) /\ Sz(g, x) = Sz(h, x)
                          /\ Ends(g, x) = Ends(h, x) /\ Pair(g, x) = Pair(h, x)
                          /\ g[x].k = h[x].k
  BY MarkFacts
<1> QED BY <1>1

LEMMA MarkTiles ==
    ASSUME NEW h, HeapOK(h), Tiles(h), NEW b \in DOMAIN h, NEW o \in BOOLEAN
    PROVE  Tiles(Marked(h, b, o))
<1> DEFINE g == Marked(h, b, o)
<1>1. /\ DOMAIN g = DOMAIN h
      /\ \A x \in DOMAIN h : Lev(g, x) = Lev(h, x) /\ Ends(g, x) = Ends(h, x)
  BY MarkFacts
<1> HIDE DEF g
<1>2. Tiles(g)
  BY <1>1 DEF Tiles
<1> QED BY <1>2 DEF g

LEMMA MarkMerged ==
    ASSUME NEW h, HeapOK(h), NEW b \in DOMAIN h, NEW o \in BOOLEAN, NEW x,
           MergedBut(h, x), x \in {b, Null}
    PROVE  /\ MergedBut(Marked(h, b, o), b)
           /\ o => MergedBut(Marked(h, b, o), Null)
<1> DEFINE g == Marked(h, b, o)
<1>1. /\ DOMAIN g = DOMAIN h
      /\ \A y \in DOMAIN h : Pair(g, y) = Pair(h, y) /\ g[y].k = h[y].k
      /\ o => Fr(g) = Fr(h) \ {b}
      /\ ~ o => Fr(g) = Fr(h) \cup {b}
  BY MarkFacts
<1>2. Null \notin DOMAIN h
  BY BlockFacts DEF Null
<1> HIDE DEF g
<1>3. ASSUME NEW y \in Fr(g), NEW z \in Fr(g), y # b, z # b, g[y].k = g[z].k, Pair(g, y) = z
      PROVE  FALSE
  <2>1. y \in Fr(h) /\ z \in Fr(h) /\ y \in DOMAIN h /\ z \in DOMAIN h
    BY <1>1, <1>3 DEF Fr
  <2>2. y # x /\ z # x /\ h[y].k = h[z].k /\ Pair(h, y) = z
    BY <1>1, <1>2, <1>3, <2>1
  <2> QED BY <2>1, <2>2 DEF MergedBut
<1>4. MergedBut(g, b)
  BY <1>3 DEF MergedBut
<1>5. o => b \notin Fr(g)
  BY <1>1
<1>6. o => MergedBut(g, Null)
  BY <1>4, <1>5 DEF MergedBut
<1> QED BY <1>4, <1>6 DEF g

(* What makes deallocate stop merging: the buddy is smaller or in use, or  *)
(* the block is the whole area.                                            *)
LEMMA NothingToMerge ==
    ASSUME NEW h, HeapOK(h), Tiles(h), NEW b \in DOMAIN h, MergedBut(h, b),
           ~ (/\ Sz(h, b) < Total
              /\ Sz(h, Pair(h, b)) = Sz(h, b)
              /\ ~ h[Pair(h, b)].occupied)
    PROVE  MergedBut(h, Null)
<1>1. ASSUME NEW y \in Fr(h), h[y].k = h[b].k, Pair(h, y) = b PROVE FALSE
  <2>1. y \in DOMAIN h /\ ~ h[y].occupied
    BY DEF Fr
  <2>2. Lev(h, y) = Lev(h, b) /\ Sz(h, y) = Sz(h, b)
    BY <1>1, <2>1, SizesAgree
  <2>3. Pair(h, b) = y
    BY <1>1, <2>1, <2>2, PairBack
  <2>4. Sz(h, b) < Total
    <3>1. /\ b \in Nat /\ y \in Nat /\ b < Total /\ y < Total
          /\ Sz(h, b) \in Nat /\ Sz(h, b) <= Total /\ Total \in Nat
          /\ Sz(h, b) = 2^Lev(h, b)
      BY <2>1, BlockFacts, Sizes DEF Sz
    <3>2. y = b + Sz(h, b) \/ b = y + Sz(h, b)
      BY <2>1, <2>3, <3>1, PairFacts
    <3> QED BY <3>1, <3>2
  <2> QED BY <2>1, <2>2, <2>3, <2>4
<1>2. ASSUME NEW y \in Fr(h), NEW z \in Fr(h), h[y].k = h[z].k, Pair(h, y) = z PROVE FALSE
  <2>1. y \in DOMAIN h /\ z \in DOMAIN h
    BY DEF Fr
  <2>2. Pair(h, z) = y
    BY <1>2, <2>1, PairBack, SizesAgree
  <2>3. z # b
    BY <1>1, <1>2
  <2>4. y # b
    BY <1>1, <1>2, <2>2
  <2> QED BY <1>2, <2>3, <2>4 DEF MergedBut
<1> QED BY <1>2 DEF MergedBut

-----------------------------------------------------------------------------
(* The model's operators are those above of its headers. *)

LEMMA SameSizes ==
    /\ Free = Fr(heap)
    /\ \A b : BlockSize(b) = Sz(heap, b) /\ Behind(b) = Ends(heap, b)
BY DEF Free, Fr, Blocks, BlockSize, Behind, Sz, Ends, Lev

LEMMA SameBuddy ==
    ASSUME HeapOK(heap), Tiles(heap), NEW b \in Blocks
    PROVE  Buddy(b) = Pair(heap, b)
<1>1. b \in DOMAIN heap /\ b \in Nat /\ Lev(heap, b) \in Nat /\ Aligned(b, Lev(heap, b))
  BY BlockFacts DEF Blocks, Tiles
<1>2. (b \div 2^Lev(heap, b)) % 2 = 0 <=> Aligned(b, Lev(heap, b) + 1)
  BY <1>1, AlignedRemainder
<1> QED BY <1>2, SameSizes DEF Buddy, Pair, Sz

LEMMA SameTiling ==
    ASSUME HeapOK(heap)
    PROVE  Tiled <=> Tiles(heap)
<1>1. \A b \in DOMAIN heap : b % BlockSize(b) = 0 <=> Aligned(b, Lev(heap, b))
  BY BlockFacts, AlignedRemainder, SameSizes DEF Sz
<1>2. \A b \in DOMAIN heap : b + BlockSize(b) = Ends(heap, b)
  BY SameSizes DEF Ends
<1> QED BY <1>1, <1>2 DEF Tiled, Tiles, Blocks

LEMMA SameSizesPrimed ==
    /\ Free' = Fr(heap') /\ Blocks' = DOMAIN heap' /\ Occupied' = DOMAIN heap' \ Fr(heap')
    /\ \A b : BlockSize(b)' = Sz(heap', b)
BY DEF Free, Fr, Blocks, Occupied, BlockSize, Sz, Lev

-----------------------------------------------------------------------------
(* The inductive invariant. *)

Memory == HeapOK(heap) /\ Tiles(heap) /\ MergedBut(heap, loc.block)

Callers ==
    /\ fit_mode \in Modes
    /\ mutex \in Threads \cup {Nobody}
    /\ call \in [Threads -> [op : {"idle", "allocate", "deallocate"}, arg : Int]]
    /\ \A t \in Threads : call[t].op = "allocate" => call[t].arg \in Requests

(* A block a thread is about to give back is occupied until it does, and   *)
(* nobody else holds it or gives it back.                                  *)
GivingBack(t) ==
    \/ call[t].arg = Foreign
    \/ /\ call[t].arg \notin DOMAIN held
       /\ mutex # t => call[t].arg \in Occupied
       /\ \A u \in Threads \ {t} :
             call[u].op = "deallocate" => call[u].arg # call[t].arg

Holding ==
    /\ DOMAIN held \subseteq Occupied
    /\ \A t \in Threads : call[t].op = "deallocate" => GivingBack(t)

(* The walk has kept the best of the blocks behind it, if any is large     *)
(* enough.                                                                 *)
Searching(t) ==
    /\ loc.it \in Blocks \cup {Total}
    /\ loc.it # Total => MergedBut(heap, Null)
    /\ loc.block # Null => loc.block \in Fitting(t) /\ loc.block < loc.it
    /\ fit_mode = "first_fit" /\ loc.it # Total => loc.block = Null
    /\ loc.block = Null => \A f \in Fitting(t) : ~ (f < loc.it)
    /\ loc.it # Total /\ loc.block # Null =>
          \A f \in Fitting(t) : f < loc.it => AsGood(loc.block, f)

Locals ==
    /\ loc \in [it : Blocks \cup {Null, Total}, block : Blocks \cup {Null}]
    /\ mutex = Nobody => loc = NoLocals
    /\ \A t \in Threads : mutex = t =>
          /\ call[t].op \in {"allocate", "deallocate"}
          /\ call[t].op = "allocate" => Searching(t)
          /\ call[t].op = "deallocate" => loc.it = Null /\ loc.block \in Free

IInv == Memory /\ Callers /\ Holding /\ Locals

LEMMA InvInit == Init => IInv
<1> SUFFICES ASSUME Init PROVE IInv
  OBVIOUS
<1>1. /\ DOMAIN heap = {0} /\ heap = [b \in {0} |-> heap[b]]
      /\ heap[0] = [occupied |-> FALSE, k |-> SizeK - MinK]
  BY DEF Init
<1>2. /\ MinK \in Nat /\ SizeK \in Nat /\ MinK <= SizeK
      /\ Total \in Nat /\ Total >= 1 /\ Total = 2^SizeK
  BY Sizes
<1>3. heap[0] \in [occupied : BOOLEAN, k : 0..(SizeK - MinK)]
  <2>1. SizeK - MinK \in 0..(SizeK - MinK)
    BY <1>2
  <2>2. [occupied |-> FALSE, k |-> SizeK - MinK] \in [occupied : BOOLEAN, k : 0..(SizeK - MinK)]
    BY <2>1
  <2> QED BY <1>1, <2>2
<1>4. HeapOK(heap)
  BY <1>1, <1>2, <1>3 DEF HeapOK
<1>5. Lev(heap, 0) = SizeK /\ Ends(heap, 0) = Total
  BY <1>1, <1>2 DEF Lev, Sz, Ends
<1>6. Tiles(heap)
  BY <1>1, <1>2, <1>5, AlignedZero DEF Tiles
<1>7. loc = NoLocals /\ loc.block = Null /\ mutex = Nobody
  BY DEF Init, NoLocals
<1>8. MergedBut(heap, loc.block)
  <2>1. ASSUME Pair(heap, 0) = 0 PROVE FALSE
    <3>1. 2^Lev(heap, 0) \in Nat /\ 2^Lev(heap, 0) >= 1
      BY <1>2, <1>5
    <3> QED BY <1>1, <1>4, <1>6, <2>1, <3>1, PairFacts
  <2> QED BY <1>1, <2>1 DEF MergedBut, Fr
<1>9. Callers
  BY DEF Callers, Init, Idle
<1>10. Holding
  BY DEF Holding, Init, Idle
<1>11. Locals
  BY <1>7, BuddiesAssumption DEF Locals, NoLocals
<1> QED BY <1>4, <1>6, <1>8, <1>9, <1>10, <1>11 DEF IInv, Memory

(* What a call asks for is a number, and so is what it adds. *)
LEMMA Asking ==
    ASSUME Callers, NEW t \in Threads, call[t].op = "allocate"
    PROVE  /\ call[t].arg \in Requests /\ call[t].arg \in Nat
           /\ SizeWithMetadata(t) \in Nat /\ SizeWithMetadata(t) = call[t].arg + 8
BY BuddiesAssumption DEF Callers, SizeWithMetadata, Added

(* A step under the mutex is that of the one thread that holds it. *)
LEMMA Alone ==
    ASSUME Locals, Callers, NEW t \in Threads
    PROVE  /\ Inside(t, "allocate") => Searching(t) /\ mutex = t /\ mutex # Nobody
           /\ Inside(t, "deallocate") => loc.block \in Free /\ mutex = t /\ mutex # Nobody
BY BuddiesAssumption DEF Locals, Inside

-----------------------------------------------------------------------------
(* Steps that leave the headers alone. *)

LEMMA CallsKeep ==
    ASSUME IInv, NEW t \in Threads,
           \/ CallAllocate(t) \/ CallDeallocate(t) \/ CallDeallocateForeign(t)
    PROVE  IInv'
<1>1. /\ UNCHANGED <<heap, fit_mode, mutex, loc>>
      /\ DOMAIN held' \subseteq DOMAIN held
      /\ call[t].op = "idle"
  <2>1. CASE CallAllocate(t)
    BY <2>1 DEF CallAllocate, Idle
  <2>2. CASE CallDeallocate(t)
    BY <2>2 DEF CallDeallocate, Idle
  <2>3. CASE CallDeallocateForeign(t)
    BY <2>3 DEF CallDeallocateForeign, Idle
  <2> QED BY <2>1, <2>2, <2>3
<1>2. PICK c \in [op : {"allocate", "deallocate"}, arg : Int] :
        call' = [call EXCEPT ![t] = c] /\ (c.op = "allocate" => c.arg \in Requests)
  <2>1. CASE CallAllocate(t)
    <3>1. PICK n \in Requests : call' = [call EXCEPT ![t] = [op |-> "allocate", arg |-> n]]
      BY <2>1 DEF CallAllocate
    <3>2. [op |-> "allocate", arg |-> n] \in [op : {"allocate", "deallocate"}, arg : Int]
      BY BuddiesAssumption
    <3> QED BY <3>1, <3>2
  <2>2. CASE CallDeallocate(t)
    <3>1. PICK b \in DOMAIN held : call' = [call EXCEPT ![t] = [op |-> "deallocate", arg |-> b]]
      BY <2>2 DEF CallDeallocate
    <3>2. b \in Int
      BY BlockFacts DEF IInv, Holding, Occupied, Blocks, Memory
    <3>3. [op |-> "deallocate", arg |-> b] \in [op : {"allocate", "deallocate"}, arg : Int]
      BY <3>2
    <3> QED BY <3>1, <3>3
  <2>3. CASE CallDeallocateForeign(t)
    <3>1. call' = [call EXCEPT ![t] = [op |-> "deallocate", arg |-> Foreign]]
      BY <2>3 DEF CallDeallocateForeign
    <3>2. [op |-> "deallocate", arg |-> Foreign] \in [op : {"allocate", "deallocate"}, arg : Int]
      BY DEF Foreign
    <3> QED BY <3>1, <3>2
  <2> QED BY <2>1, <2>2, <2>3
<1>3. Callers'
  BY <1>1, <1>2 DEF IInv, Callers
<1>4. Memory' /\ Occupied' = Occupied
  BY <1>1 DEF IInv, Memory, Occupied, Blocks, Free
<1>5. mutex # t
  BY <1>1 DEF IInv, Locals
<1>6. ASSUME NEW u \in Threads, mutex' = u
      PROVE  /\ call'[u].op \in {"allocate", "deallocate"}
             /\ call'[u].op = "allocate" => Searching(u)'
             /\ call'[u].op = "deallocate" => loc'.it = Null /\ loc'.block \in Free'
  <2>1. call'[u] = call[u] /\ mutex = u
    BY <1>1, <1>2, <1>5, <1>6 DEF IInv, Callers
  <2>2. Searching(u) => Searching(u)'
    BY <1>1, <2>1 DEF Searching, Fitting, AsGood, SizeWithMetadata, Free, Blocks, BlockSize
  <2> QED BY <1>1, <2>1, <2>2 DEF IInv, Locals, Free, Blocks
<1>7. Locals'
  BY <1>1, <1>6 DEF IInv, Locals, Blocks, Free
<1>8. Holding'
  <2>1. DOMAIN held' \subseteq Occupied'
    BY <1>1, <1>4 DEF IInv, Holding
  <2>2. c.op = "deallocate" =>
          c.arg = Foreign \/ (c.arg \in DOMAIN held /\ c.arg \notin DOMAIN held')
    <3>1. call'[t] = c
      BY <1>2 DEF IInv, Callers
    <3>2. CASE CallAllocate(t)
      BY <3>1, <3>2 DEF CallAllocate, IInv, Callers
    <3>3. CASE CallDeallocate(t)
      BY <3>1, <3>3 DEF CallDeallocate, IInv, Callers
    <3>4. CASE CallDeallocateForeign(t)
      BY <3>1, <3>4 DEF CallDeallocateForeign, IInv, Callers
    <3> QED BY <3>2, <3>3, <3>4
  <2>3. ASSUME NEW u \in Threads, u # t, call'[u].op = "deallocate" PROVE GivingBack(u)'
    <3>1. call'[u] = call[u] /\ GivingBack(u)
      BY <1>2, <2>3 DEF IInv, Callers, Holding
    <3>2. \A v \in Threads \ {u} : call'[v].op = "deallocate" /\ call[u].arg # Foreign =>
             call'[v].arg # call[u].arg
      BY <1>2, <2>2, <3>1 DEF IInv, Callers, GivingBack
    <3> QED BY <1>1, <1>4, <3>1, <3>2 DEF GivingBack
  <2>4. call'[t].op = "deallocate" => GivingBack(t)'
    <3>1. call'[t] = c
      BY <1>2 DEF IInv, Callers
    <3>2. \A v \in Threads \ {t} : call'[v] = call[v]
      BY <1>2 DEF IInv, Callers
    <3> QED BY <1>1, <1>4, <2>1, <2>2, <3>1, <3>2 DEF GivingBack, IInv, Holding
  <2> QED BY <2>1, <2>3, <2>4 DEF Holding
<1> QED BY <1>3, <1>4, <1>7, <1>8 DEF IInv

LEMMA ReturnsKeep ==
    ASSUME IInv, NEW t \in Threads,
           \/ ThrowBadAlloc(t) \/ RejectForeign(t) \/ FinishDeallocate(t)
    PROVE  IInv'
<1>1. /\ UNCHANGED <<heap, fit_mode, held>>
      /\ mutex' = Nobody /\ call' = [call EXCEPT ![t] = Idle] /\ loc' = NoLocals
  BY DEF ThrowBadAlloc, RejectForeign, FinishDeallocate, Return
<1>2. HeapOK(heap) /\ Tiles(heap) /\ MergedBut(heap, loc.block)
  BY DEF IInv, Memory
<1>3. MergedBut(heap, Null)
  <2>1. CASE ThrowBadAlloc(t)
    BY <1>2, <2>1 DEF ThrowBadAlloc
  <2>2. CASE RejectForeign(t)
    BY <1>2, <2>2 DEF RejectForeign, IInv, Locals, NoLocals
  <2>3. CASE FinishDeallocate(t)
    <3>1. PICK b : b = loc.block
      OBVIOUS
    <3>2. b \in DOMAIN heap /\ ~ Mergeable(b)
      BY <2>3, <3>1, Alone, SameSizes DEF FinishDeallocate, IInv, Fr
    <3>3. ~ (/\ Sz(heap, b) < Total
             /\ Sz(heap, Pair(heap, b)) = Sz(heap, b)
             /\ ~ heap[Pair(heap, b)].occupied)
      BY <1>2, <3>2, SameSizes, SameBuddy DEF Mergeable, Blocks
    <3> QED BY <1>2, <3>1, <3>2, <3>3, NothingToMerge
  <2> QED BY <2>1, <2>2, <2>3
<1>4. Memory'
  BY <1>1, <1>2, <1>3 DEF Memory, NoLocals
<1>5. Callers'
  BY <1>1 DEF IInv, Callers, Idle
<1>6. Locals'
  BY <1>1, BuddiesAssumption DEF Locals, NoLocals
<1>7. Holding'
  <2>1. Occupied' = Occupied
    BY <1>1 DEF Occupied, Blocks, Free
  <2>2. mutex \in {t, Nobody}
    BY Alone DEF IInv, ThrowBadAlloc, RejectForeign, FinishDeallocate
  <2>3. ASSUME NEW u \in Threads, call'[u].op = "deallocate" PROVE GivingBack(u)'
    <3>1. u # t /\ \A v \in Threads \ {t} : call'[v] = call[v]
      BY <1>1, <2>3 DEF IInv, Callers, Idle
    <3>2. GivingBack(u) /\ call'[t].op = "idle" /\ mutex # u
      BY <1>1, <2>2, <2>3, <3>1, BuddiesAssumption DEF IInv, Callers, Holding, Idle
    <3> QED BY <1>1, <2>1, <3>1, <3>2 DEF GivingBack
  <2> QED BY <1>1, <2>1, <2>3 DEF Holding, IInv
<1> QED BY <1>4, <1>5, <1>6, <1>7 DEF IInv

LEMMA SetFitModeKeeps ==
    ASSUME IInv, NEW t \in Threads, SetFitMode(t)
    PROVE  IInv'
<1>1. /\ UNCHANGED <<heap, mutex, call, loc, held>>
      /\ mutex = Nobody /\ fit_mode' \in Modes
  BY DEF SetFitMode
<1>2. Memory' /\ Callers' /\ Holding'
  BY <1>1 DEF IInv, Memory, Callers, Holding, GivingBack, Occupied, Blocks, Free
<1>3. Locals'
  BY <1>1, BuddiesAssumption DEF IInv, Locals, Blocks
<1> QED BY <1>2, <1>3 DEF IInv

(* The locals are those of the thread that holds the mutex. *)
LEMMA LocalsOf ==
    ASSUME NEW t \in Threads, mutex' = t,
           loc' \in [it : Blocks' \cup {Null, Total}, block : Blocks' \cup {Null}],
           \/ call'[t].op = "allocate" /\ Searching(t)'
           \/ call'[t].op = "deallocate" /\ loc'.it = Null /\ loc'.block \in Free'
    PROVE  Locals'
BY BuddiesAssumption DEF Locals

-----------------------------------------------------------------------------
(* The search. *)

LEMMA BeginSearchKeeps ==
    ASSUME IInv, NEW t \in Threads, BeginSearch(t)
    PROVE  IInv'
<1>1. /\ UNCHANGED <<heap, fit_mode, call, held>>
      /\ mutex = Nobody /\ mutex' = t /\ call[t].op = "allocate"
      /\ loc' = [it |-> 0, block |-> Null] /\ loc.block = Null
  BY DEF BeginSearch, NoLocals, IInv, Locals
<1>2. Memory' /\ Callers' /\ Holding'
  BY <1>1, BuddiesAssumption
     DEF IInv, Memory, Callers, Holding, GivingBack, Occupied, Blocks, Free
<1>3. 0 \in Blocks /\ HeapOK(heap)
  BY DEF IInv, Memory, Tiles, Blocks
<1>4. \A f \in Free : f \in Nat
  BY <1>3, SameSizes, BlockFacts DEF Fr
<1>5. Searching(t)'
  <2>1. \A f \in Fitting(t)' : ~ (f < 0)
    BY <1>1, <1>4 DEF Fitting, Free, Blocks
  <2>2. loc'.it = 0 /\ loc'.block = Null /\ 0 \in Blocks' /\ MergedBut(heap', Null)
    BY <1>1, <1>3 DEF Blocks, IInv, Memory
  <2> QED BY <2>1, <2>2 DEF Searching
<1>6. Locals'
  <2>1. loc' \in [it : Blocks' \cup {Null, Total}, block : Blocks' \cup {Null}]
    BY <1>1, <1>3 DEF Blocks
  <2> QED BY <1>1, <1>5, <2>1, LocalsOf
<1> QED BY <1>2, <1>6 DEF IInv

(* One block further: either it is taken, or what was kept is as good. *)
LEMMA SearchStepFacts ==
    ASSUME IInv, NEW t \in Threads, SearchStep(t), NEW b, b = loc.it
    PROVE  /\ b \in Blocks /\ b \in Nat /\ Behind(b) \in Blocks \cup {Total}
           /\ b < Behind(b) /\ Behind(b) \in Nat /\ b < Total
           /\ loc.block # Null => loc.block \in Nat /\ loc.block < b
           /\ \A f \in Fitting(t) : f \in Nat /\ BlockSize(f) \in Nat /\ (f < Behind(b) => f <= b)
           /\ Searching(t)
           /\ Null \notin Blocks
<1>1. HeapOK(heap) /\ Tiles(heap) /\ Searching(t) /\ Total \in Nat
  BY Alone, Sizes DEF IInv, Memory, SearchStep
<1>2. b \in Blocks /\ loc.it # Total
  BY <1>1 DEF Searching, SearchStep
<1>3. b \in Nat /\ Behind(b) \in Nat /\ b < Behind(b) /\ b < Total
      /\ Behind(b) \in Blocks \cup {Total}
  BY <1>1, <1>2, BlockFacts, SameSizes DEF Blocks, Tiles
<1>4. Fitting(t) \subseteq Free /\ Free \subseteq Blocks
  BY DEF Fitting, Free
<1>5. \A f \in Blocks : f \in Nat /\ BlockSize(f) \in Nat
  BY <1>1, BlockFacts, SameSizes DEF Blocks
<1>6. ASSUME NEW f \in Fitting(t), f < Behind(b) PROVE f <= b
  <2>1. f \in DOMAIN heap /\ f \in Nat
    BY <1>4, <1>5 DEF Blocks
  <2>2. b < f => Ends(heap, b) <= f
    BY <1>1, <1>2, <2>1 DEF Tiles, Blocks
  <2> QED BY <1>3, <1>6, <2>1, <2>2, SameSizes
<1>7. loc.block # Null => loc.block \in Nat /\ loc.block < b
  BY <1>1, <1>4, <1>5 DEF Searching
<1> QED BY <1>1, <1>2, <1>3, <1>4, <1>5, <1>6, <1>7 DEF Null

LEMMA SearchStepKeeps ==
    ASSUME IInv, NEW t \in Threads, SearchStep(t)
    PROVE  IInv'
<1>1. PICK b : b = loc.it
  OBVIOUS
<1>2. /\ b \in Blocks /\ b \in Nat /\ Behind(b) \in Blocks \cup {Total}
      /\ b < Behind(b) /\ Behind(b) \in Nat /\ b < Total
      /\ loc.block # Null => loc.block \in Nat /\ loc.block < b
      /\ \A f \in Fitting(t) : f \in Nat /\ BlockSize(f) \in Nat /\ (f < Behind(b) => f <= b)
      /\ Searching(t) /\ Null \notin Blocks
  BY <1>1, SearchStepFacts
<1> DEFINE take == b \in Free /\ BlockSize(b) >= SizeWithMetadata(t) /\ Preferred(b)
<1>3. /\ UNCHANGED <<heap, fit_mode, mutex, call, held>>
      /\ mutex = t /\ call[t].op = "allocate" /\ loc.it # Total
      /\ loc' = [it    |-> IF take /\ fit_mode = "first_fit" THEN Total ELSE Behind(b),
                 block |-> IF take THEN b ELSE loc.block]
  BY <1>1 DEF SearchStep, Inside
<1>4. take => b \in Fitting(t)
  BY DEF Fitting
<1>5. b \in Fitting(t) /\ ~ take => ~ Preferred(b)
  BY DEF Fitting
<1> HIDE DEF take
<1>6. Fitting(t)' = Fitting(t) /\ (\A x : BlockSize(x)' = BlockSize(x))
      /\ Blocks' = Blocks /\ Free' = Free
  BY <1>3 DEF Fitting, Free, Blocks, BlockSize, SizeWithMetadata
<1>7. MergedBut(heap, Null)
  BY <1>2, <1>3 DEF Searching
<1>8. Memory'
  <2>1. MergedBut(heap, loc'.block)
    BY <1>2, <1>7 DEF MergedBut, Fr, Blocks
  <2> QED BY <1>3, <2>1 DEF Memory, IInv
<1>9. Callers' /\ Holding'
  BY <1>3 DEF IInv, Callers, Holding, GivingBack, Occupied, Blocks, Free
<1>10. ASSUME Searching(t)' PROVE IInv'
  <2>1. loc' \in [it : Blocks' \cup {Null, Total}, block : Blocks' \cup {Null}]
    BY <1>2, <1>3, <1>4, <1>6 DEF Fitting, Free, IInv, Locals
  <2> QED BY <1>3, <1>8, <1>9, <1>10, <2>1, LocalsOf DEF IInv
<1>11. CASE take /\ fit_mode = "first_fit"
  <2>1. loc'.it = Total /\ loc'.block = b /\ b # Null
    BY <1>2, <1>3, <1>11
  <2>2. Searching(t)'
    BY <1>2, <1>3, <1>4, <1>6, <1>10, <2>1 DEF Searching
  <2> QED BY <1>10, <2>2
<1>12. CASE take /\ fit_mode # "first_fit"
  <2>1. loc'.it = Behind(b) /\ loc'.block = b /\ b # Null
    BY <1>2, <1>3, <1>12
  <2>2. ASSUME NEW f \in Fitting(t), f < Behind(b) PROVE AsGood(b, f)
    <3>1. f <= b /\ f \in Nat /\ BlockSize(f) \in Nat /\ BlockSize(b) \in Nat
      BY <1>2, <1>4, <1>12, <2>2
    <3>2. CASE f = b
      BY <3>1, <3>2 DEF AsGood
    <3>3. CASE f < b
      <4>1. loc.block # Null /\ loc.block \in Fitting(t) /\ AsGood(loc.block, f)
        BY <1>1, <1>2, <1>3, <3>3 DEF Searching
      <4>2. BlockSize(loc.block) \in Nat
        BY <1>2, <4>1
      <4>3. fit_mode = "the_worst_fit" \/ BlockSize(b) < BlockSize(loc.block)
        BY <1>12, <4>1 DEF take, Preferred
      <4>4. fit_mode = "the_best_fit" => BlockSize(loc.block) <= BlockSize(f)
        BY <4>1 DEF AsGood
      <4> QED BY <1>2, <1>12, <3>1, <3>3, <4>2, <4>3, <4>4 DEF AsGood
    <3> QED BY <1>2, <3>1, <3>2, <3>3
  <2>3. Searching(t)'
    BY <1>2, <1>3, <1>4, <1>6, <1>7, <1>12, <2>1, <2>2 DEF Searching, AsGood
  <2> QED BY <1>10, <2>3
<1>13. CASE ~ take
  <2>1. loc'.it = Behind(b) /\ loc'.block = loc.block
    BY <1>3, <1>13
  <2>2. ASSUME loc.block = Null PROVE b \notin Fitting(t)
    BY <1>5, <1>13, <2>2 DEF Preferred
  <2>3. ASSUME loc.block # Null, b \in Fitting(t) PROVE AsGood(loc.block, b)
    BY <1>2, <1>3, <1>5, <1>13, <2>3 DEF Preferred, AsGood, Searching, IInv, Callers, Modes
  <2>4. ASSUME loc.block = Null, NEW f \in Fitting(t) PROVE ~ (f < Behind(b))
    <3>1. f # b /\ f \in Nat /\ (f < Behind(b) => f <= b) /\ ~ (f < b)
      BY <1>1, <1>2, <2>2, <2>4 DEF Searching
    <3> QED BY <1>2, <3>1
  <2>5. ASSUME loc.block # Null, NEW f \in Fitting(t), f < Behind(b) PROVE AsGood(loc.block, f)
    <3>1. f \in Nat /\ f <= b
      BY <1>2, <2>5
    <3>2. f < b => AsGood(loc.block, f)
      BY <1>1, <1>2, <1>3, <2>5 DEF Searching
    <3> QED BY <1>2, <2>3, <2>5, <3>1, <3>2
  <2>6. loc.block # Null => loc.block \in Fitting(t) /\ loc.block < Behind(b)
    BY <1>2 DEF Searching
  <2>7. fit_mode = "first_fit" => loc.block = Null
    BY <1>2, <1>3 DEF Searching
  <2>8. \A f : AsGood(loc.block, f)' <=> AsGood(loc.block, f)
    BY <1>3, <1>6, <2>1 DEF AsGood
  <2>9. Searching(t)'
    BY <1>2, <1>3, <1>6, <1>7, <2>1, <2>4, <2>5, <2>6, <2>7, <2>8 DEF Searching
  <2> QED BY <1>10, <2>9
<1> QED BY <1>11, <1>12, <1>13

-----------------------------------------------------------------------------
(* Steps that change the headers. *)

LEMMA SplitIs ==
    ASSUME IInv, NEW t \in Threads, SplitStep(t), NEW b, b = loc.block
    PROVE  /\ b \in Fr(heap) /\ b \in DOMAIN heap /\ heap[b].k > 0
           /\ heap' = Split(heap, b)
<1>1. HeapOK(heap) /\ Searching(t) /\ b # Null
  BY Alone DEF IInv, Memory, SplitStep, Found
<1>2. b \in Fr(heap) /\ b \in DOMAIN heap
  BY <1>1, SameSizes DEF Searching, Fitting, Fr
<1>3. heap[b].k > 0
  BY DEF SplitStep, TooLarge
<1>4. BlockSize(b) \div 2 = 2^(Lev(heap, b) - 1)
  <2>1. BlockSize(b) = 2^Lev(heap, b)
    BY SameSizes DEF Sz
  <2>2. Lev(heap, b) - 1 \in Nat
    BY <1>1, <1>2, <1>3, BlockFacts, Sizes DEF Lev
  <2>3. PICK i \in Nat : i = Lev(heap, b) - 1
    BY <2>2
  <2>4. Lev(heap, b) = i + 1
    BY <1>1, <1>2, <2>3, BlockFacts
  <2>5. 2^(i + 1) = 2 * 2^i /\ 2^i \in Nat
    BY PowNext, PowPositive
  <2>6. \A x \in Nat : (2 * x) \div 2 = x
    OBVIOUS
  <2> QED BY <2>1, <2>3, <2>4, <2>5, <2>6
<1>5. heap' = Split(heap, b)
  BY <1>4 DEF SplitStep, Split, Middle, Halved, Blocks
<1> QED BY <1>2, <1>3, <1>5

LEMMA SplitStepKeeps ==
    ASSUME IInv, NEW t \in Threads, SplitStep(t)
    PROVE  IInv'
<1>1. PICK b : b = loc.block
  OBVIOUS
<1>2. /\ UNCHANGED <<fit_mode, mutex, call, loc, held>>
      /\ mutex = t /\ call[t].op = "allocate" /\ loc.it = Total /\ b # Null
      /\ BlockSize(b) >= SizeWithMetadata(t) * 2
  BY <1>1 DEF SplitStep, Found, Inside, TooLarge
<1>3. b \in Fr(heap) /\ b \in DOMAIN heap /\ heap[b].k > 0 /\ heap' = Split(heap, b)
  BY <1>1, SplitIs
<1>4. HeapOK(heap) /\ Tiles(heap) /\ MergedBut(heap, b)
  BY <1>1 DEF IInv, Memory
<1>5. PICK m : CutAt(heap, b, m, heap')
  BY <1>3, <1>4, SplitFacts
<1>6. Memory'
  <2>1. Tiles(heap') /\ MergedBut(heap', b)
    BY <1>3, <1>4, <1>5, SplitTiles, SplitMerged
  <2> QED BY <1>1, <1>2, <1>5, <2>1 DEF Memory, CutAt
<1>7. Callers'
  BY <1>2 DEF IInv, Callers
<1>8. Occupied' = Occupied /\ Blocks \subseteq Blocks'
  <2>1. Occupied = DOMAIN heap \ Fr(heap) /\ Blocks = DOMAIN heap
    BY SameSizes DEF Occupied, Blocks
  <2> QED BY <1>5, <2>1, SameSizesPrimed DEF CutAt
<1>9. Holding'
  BY <1>2, <1>8 DEF IInv, Holding, GivingBack
<1>10. b \in Fitting(t)'
  <2>1. b \in Free'
    BY <1>3, <1>5, SameSizesPrimed DEF CutAt
  <2>2. BlockSize(b) = 2 * Sz(heap', b)
    BY <1>5, SameSizes DEF CutAt
  <2>3. Sz(heap', b) \in Nat
    BY <1>3, <1>5, BlockFacts DEF CutAt
  <2>4. SizeWithMetadata(t) \in Nat /\ SizeWithMetadata(t)' = SizeWithMetadata(t)
    BY <1>2, Asking DEF IInv, SizeWithMetadata
  <2>5. Sz(heap', b) >= SizeWithMetadata(t)'
    BY <1>2, <2>2, <2>3, <2>4
  <2>6. \A x : BlockSize(x)' = Sz(heap', x)
    BY SameSizesPrimed
  <2> QED BY <2>1, <2>5, <2>6 DEF Fitting
<1>11. Searching(t)'
  <2>1. loc'.it = Total /\ loc'.block = b /\ b < Total
    BY <1>1, <1>2, <1>3, <1>4, BlockFacts
  <2> QED BY <1>2, <1>10, <2>1 DEF Searching
<1>12. loc' \in [it : Blocks' \cup {Null, Total}, block : Blocks' \cup {Null}]
  BY <1>2, <1>8 DEF IInv, Locals
<1>13. Locals'
  BY <1>2, <1>11, <1>12, LocalsOf
<1> QED BY <1>6, <1>7, <1>9, <1>13 DEF IInv

LEMMA FinishAllocateKeeps ==
    ASSUME IInv, NEW t \in Threads, FinishAllocate(t)
    PROVE  IInv'
<1>1. PICK b : b = loc.block
  OBVIOUS
<1>2. /\ mutex' = Nobody /\ call' = [call EXCEPT ![t] = Idle] /\ loc' = NoLocals
      /\ UNCHANGED fit_mode /\ DOMAIN held' = DOMAIN held \cup {b}
      /\ heap' = Marked(heap, b, TRUE)
      /\ mutex = t /\ Inside(t, "allocate") /\ b # Null
  BY <1>1 DEF FinishAllocate, Found, Inside, Return, Marked
<1>3. HeapOK(heap) /\ Tiles(heap) /\ MergedBut(heap, b)
  BY <1>1 DEF IInv, Memory
<1>4. b \in Free /\ b \in DOMAIN heap
  BY <1>1, <1>2, Alone DEF IInv, Searching, Fitting, Free, Blocks
<1>5. HeapOK(heap') /\ Fr(heap') = Fr(heap) \ {b} /\ DOMAIN heap' = DOMAIN heap
  BY <1>2, <1>3, <1>4, MarkFacts
<1>6. Memory'
  <2>1. Tiles(heap') /\ MergedBut(heap', Null)
    BY <1>2, <1>3, <1>4, MarkTiles, MarkMerged
  <2> QED BY <1>2, <1>5, <2>1 DEF Memory, NoLocals
<1>7. Callers'
  BY <1>2 DEF IInv, Callers, Idle
<1>8. Occupied' = Occupied \cup {b}
  BY <1>4, <1>5, SameSizes, SameSizesPrimed DEF Occupied, Blocks
<1>9. Holding'
  <2>1. DOMAIN held' \subseteq Occupied'
    BY <1>2, <1>8 DEF IInv, Holding
  <2>2. ASSUME NEW u \in Threads, call'[u].op = "deallocate" PROVE GivingBack(u)'
    <3>1. u # t /\ (\A v \in Threads \ {t} : call'[v] = call[v]) /\ call'[t].op = "idle"
      BY <1>2, <2>2 DEF IInv, Callers, Idle
    <3>2. GivingBack(u) /\ mutex # u
      BY <1>2, <2>2, <3>1 DEF IInv, Holding
    <3>3. call[u].arg \in Occupied => call[u].arg # b
      BY <1>4 DEF Occupied
    <3> QED BY <1>2, <1>8, <3>1, <3>2, <3>3 DEF GivingBack
  <2> QED BY <2>1, <2>2 DEF Holding
<1>10. Locals'
  BY <1>2, BuddiesAssumption DEF Locals, NoLocals
<1> QED BY <1>6, <1>7, <1>9, <1>10 DEF IInv

LEMMA BeginFreeKeeps ==
    ASSUME IInv, NEW t \in Threads, BeginFree(t)
    PROVE  IInv'
<1>1. PICK b : b = call[t].arg
  OBVIOUS
<1>2. /\ mutex = Nobody /\ mutex' = t /\ UNCHANGED <<fit_mode, call, held>>
      /\ b \in Occupied /\ call[t].op = "deallocate"
      /\ heap' = Marked(heap, b, FALSE)
      /\ loc' = [it |-> Null, block |-> b]
  BY <1>1 DEF BeginFree, Marked, NoLocals
<1>3. HeapOK(heap) /\ Tiles(heap) /\ MergedBut(heap, Null)
  BY <1>2 DEF IInv, Memory, Locals, NoLocals
<1>4. b \in DOMAIN heap /\ b \notin Free
  BY <1>2 DEF Occupied, Blocks
<1>5. HeapOK(heap') /\ Fr(heap') = Fr(heap) \cup {b} /\ DOMAIN heap' = DOMAIN heap
  BY <1>2, <1>3, <1>4, MarkFacts
<1>6. Memory'
  <2>1. Tiles(heap') /\ MergedBut(heap', b)
    BY <1>2, <1>3, <1>4, MarkTiles, MarkMerged
  <2> QED BY <1>2, <1>5, <2>1 DEF Memory
<1>7. Callers'
  BY <1>2 DEF IInv, Callers
<1>8. Occupied' = Occupied \ {b}
  BY <1>4, <1>5, SameSizes, SameSizesPrimed DEF Occupied, Blocks
<1>9. Holding'
  <2>1. GivingBack(t) /\ b # Foreign
    <3>1. b \in Nat
      BY <1>3, <1>4, BlockFacts
    <3> QED BY <1>2, <3>1 DEF IInv, Holding, Foreign
  <2>2. b \notin DOMAIN held
    BY <1>1, <2>1 DEF GivingBack
  <2>3. DOMAIN held' \subseteq Occupied'
    BY <1>2, <1>8, <2>2 DEF IInv, Holding
  <2>4. ASSUME NEW u \in Threads, call[u].op = "deallocate" PROVE GivingBack(u)'
    <3>1. GivingBack(u) /\ mutex # u
      BY <1>2, <2>4, BuddiesAssumption DEF IInv, Holding
    <3>2. u # t => call[u].arg # b
      BY <1>1, <2>1, <2>4 DEF GivingBack
    <3> QED BY <1>2, <1>8, <3>1, <3>2 DEF GivingBack
  <2> QED BY <1>2, <2>3, <2>4 DEF Holding
<1>10. Locals'
  <2>1. loc' \in [it : Blocks' \cup {Null, Total}, block : Blocks' \cup {Null}]
    BY <1>2, <1>4, <1>5, SameSizesPrimed
  <2>2. loc'.it = Null /\ loc'.block \in Free'
    BY <1>2, <1>5, SameSizesPrimed
  <2> QED BY <1>2, <2>1, <2>2, LocalsOf
<1> QED BY <1>6, <1>7, <1>9, <1>10 DEF IInv

LEMMA MergeIs ==
    ASSUME IInv, NEW t \in Threads, MergeStep(t), NEW b, b = loc.block
    PROVE  \E low, high : /\ FreePair(heap, low, high) /\ b \in {low, high}
                          /\ heap' = Join(heap, low, high) /\ loc' = [loc EXCEPT !.block = low]
<1>1. HeapOK(heap) /\ Tiles(heap) /\ b \in Free /\ Mergeable(b)
  BY Alone DEF IInv, Memory, MergeStep
<1>2. b \in DOMAIN heap /\ b \in Fr(heap) /\ b \in Nat
  BY <1>1, SameSizes, BlockFacts DEF Fr
<1>3. PICK p : p = Buddy(b) /\ p = Pair(heap, b)
  BY <1>1, <1>2, SameBuddy DEF Blocks
<1>4. Sz(heap, b) < Total /\ Sz(heap, p) = Sz(heap, b) /\ ~ heap[p].occupied
  BY <1>1, <1>3, SameSizes DEF Mergeable
<1>5. Lev(heap, b) < SizeK
  BY <1>1, <1>2, <1>4, Sizes, BlockFacts, PowInjective DEF Sz
<1>6. p \in DOMAIN heap /\ p \in Fr(heap) /\ p \in Nat
  BY <1>1, <1>2, <1>3, <1>4, <1>5, PairIsBlock, BlockFacts DEF Fr
<1>7. Lev(heap, p) = Lev(heap, b) /\ Pair(heap, p) = b
  BY <1>1, <1>2, <1>3, <1>4, <1>6, SizesAgree, PairBack
<1>8. p # b
  <2>1. 2^Lev(heap, b) \in Nat /\ 2^Lev(heap, b) >= 1
    BY <1>1, <1>2, BlockFacts, PowPositive
  <2> QED BY <1>1, <1>2, <1>3, <1>6, <2>1, PairFacts
<1> DEFINE low == IF p < b THEN p ELSE b
           high == IF p < b THEN b ELSE p
<1>9. FreePair(heap, low, high)
  BY <1>2, <1>3, <1>5, <1>6, <1>7, <1>8 DEF FreePair
<1>10. heap' = Join(heap, low, high) /\ loc' = [loc EXCEPT !.block = low]
  BY <1>3 DEF MergeStep, Join, Blocks
<1> QED BY <1>9, <1>10

LEMMA MergeStepKeeps ==
    ASSUME IInv, NEW t \in Threads, MergeStep(t)
    PROVE  IInv'
<1>1. PICK b : b = loc.block
  OBVIOUS
<1>2. PICK low, high : /\ FreePair(heap, low, high) /\ b \in {low, high}
                       /\ heap' = Join(heap, low, high) /\ loc' = [loc EXCEPT !.block = low]
  BY <1>1, MergeIs
<1>3. /\ UNCHANGED <<fit_mode, mutex, call, held>>
      /\ mutex = t /\ call[t].op = "deallocate"
  BY DEF MergeStep, Inside
<1>4. HeapOK(heap) /\ Tiles(heap) /\ MergedBut(heap, b)
  BY <1>1 DEF IInv, Memory
<1>5. Joined(heap, low, high, heap')
  BY <1>2, <1>4, MergeFacts
<1>6. loc'.block = low /\ loc'.it = loc.it /\ loc' = [it |-> loc.it, block |-> low]
  BY <1>2 DEF IInv, Locals
<1>7. low \in Fr(heap) /\ high \in Fr(heap) /\ low \in DOMAIN heap /\ low # high
      /\ low \in Fr(heap') /\ high \in DOMAIN heap
  BY <1>2, <1>4, <1>5, BlockFacts DEF FreePair, Fr, Joined
<1>8. Memory'
  <2>1. Tiles(heap') /\ MergedBut(heap', low)
    BY <1>2, <1>4, <1>5, MergeTiles, MergeMerged
  <2> QED BY <1>5, <1>6, <2>1 DEF Memory, Joined
<1>9. Callers'
  BY <1>3 DEF IInv, Callers
<1>10. Occupied' = Occupied
  BY <1>5, <1>7, SameSizes, SameSizesPrimed DEF Occupied, Blocks, Joined
<1>11. Holding'
  BY <1>3, <1>10 DEF IInv, Holding, GivingBack
<1>12. Locals'
  <2>1. loc'.block \in Free' /\ loc'.block \in Blocks'
    BY <1>6, <1>7, SameSizesPrimed DEF Fr
  <2>2. loc'.it = Null
    BY <1>3, <1>6 DEF IInv, Locals
  <2> QED BY <1>3, <1>6, <2>1, <2>2, LocalsOf
<1> QED BY <1>8, <1>9, <1>11, <1>12 DEF IInv

-----------------------------------------------------------------------------
(* The invariant of every step, and what it says to a user. *)

LEMMA InvStep == IInv /\ [NextStep]_vars => IInv'
<1> SUFFICES ASSUME IInv, [NextStep]_vars PROVE IInv'
  OBVIOUS
<1>1. CASE UNCHANGED vars
  <2>1. UNCHANGED <<heap, fit_mode, mutex, call, loc, held>>
    BY <1>1 DEF vars
  <2>2. Memory' /\ Callers' /\ Holding'
    BY <2>1 DEF IInv, Memory, Callers, Holding, GivingBack, Occupied, Blocks, Free
  <2>3. \A t : Searching(t) => Searching(t)'
    BY <2>1 DEF Searching, Fitting, AsGood, SizeWithMetadata, Free, Blocks, BlockSize
  <2>4. Locals'
    BY <2>1, <2>3 DEF IInv, Locals, Free, Blocks
  <2> QED BY <2>2, <2>4 DEF IInv
<1>2. CASE NextStep
  <2>1. PICK t \in Threads : ThreadCall(t) \/ ThreadEnter(t) \/ ThreadWork(t)
    BY <1>2 DEF NextStep
  <2>2. CASE ThreadCall(t)
    BY <2>2, CallsKeep, SetFitModeKeeps DEF ThreadCall
  <2>3. CASE ThreadEnter(t)
    BY <2>3, BeginSearchKeeps, BeginFreeKeeps, ReturnsKeep DEF ThreadEnter
  <2>4. CASE ThreadWork(t)
    BY <2>4, SearchStepKeeps, SplitStepKeeps, FinishAllocateKeeps, MergeStepKeeps, ReturnsKeep
       DEF ThreadWork
  <2> QED BY <2>1, <2>2, <2>3, <2>4
<1> QED BY <1>1, <1>2

LEMMA Invariance == Spec => []IInv
BY InvInit, InvStep, PTL DEF Spec

LEMMA TypesHold == IInv => TypeOK
<1> SUFFICES ASSUME IInv PROVE TypeOK
  OBVIOUS
<1>1. Blocks \subseteq 0..(Total - 1)
      /\ heap \in [Blocks -> [occupied : BOOLEAN, k : 0..(SizeK - MinK)]]
  BY DEF IInv, Memory, HeapOK, Blocks
<1>2. DOMAIN held \subseteq Blocks
  BY DEF IInv, Holding, Occupied
<1> QED BY <1>1, <1>2 DEF IInv, Callers, Locals, TypeOK

(* The headers, the locals of the calls and what callers hold are always   *)
(* of their types: no header has a power above that of the area.           *)
THEOREM TypeCorrect == Spec => []TypeOK
BY Invariance, TypesHold, PTL

(* Whatever splits and merges the threads cause, the blocks tile the area  *)
(* at multiples of their sizes, and deallocate leaves no two free buddies. *)
THEOREM AreaWholeAlways == Spec => []AreaWhole
<1>1. IInv => AreaWhole
  <2> SUFFICES ASSUME IInv PROVE AreaWhole
    OBVIOUS
  <2>1. Tiled
    BY SameTiling DEF IInv, Memory
  <2>2. BuddiesMerged
    <3> SUFFICES ASSUME mutex = Nobody, NEW a \in Free, NEW b \in Free,
                        heap[a].k = heap[b].k, Buddy(a) = b
                 PROVE  FALSE
      BY DEF BuddiesMerged
    <3>1. loc.block = Null /\ HeapOK(heap) /\ Tiles(heap) /\ MergedBut(heap, Null)
      BY DEF IInv, Memory, Locals, NoLocals
    <3>2. a \in Fr(heap) /\ b \in Fr(heap) /\ a \in DOMAIN heap /\ b \in DOMAIN heap
      BY SameSizes DEF Fr
    <3>3. a # Null /\ b # Null
      BY <3>1, <3>2, BlockFacts DEF Null
    <3>4. Pair(heap, a) = b
      BY <3>1, <3>2, SameBuddy DEF Blocks
    <3> QED BY <3>1, <3>2, <3>3, <3>4 DEF MergedBut
  <2> QED BY <2>1, <2>2, TypesHold DEF AreaWhole
<1> QED BY <1>1, Invariance, PTL

(* get_buddy, in do_deallocate_sm, is only ever followed to the header of  *)
(* a block: no step reads or joins the inside of one.                      *)
BuddyIsBlock == \A b \in Blocks : BlockSize(b) < Total => Buddy(b) \in Blocks

THEOREM BuddyIsBlockAlways == Spec => []BuddyIsBlock
<1>1. IInv => BuddyIsBlock
  <2> SUFFICES ASSUME IInv, NEW b \in Blocks, BlockSize(b) < Total
               PROVE  Buddy(b) \in Blocks
    BY DEF BuddyIsBlock
  <2>1. HeapOK(heap) /\ Tiles(heap) /\ b \in DOMAIN heap
    BY DEF IInv, Memory, Blocks
  <2>2. Lev(heap, b) < SizeK
    BY <2>1, SameSizes, BlockFacts, Sizes, PowInjective DEF Sz
  <2> QED BY <2>1, <2>2, PairIsBlock, SameBuddy DEF Blocks
<1> QED BY <1>1, Invariance, PTL

(* A block that a caller holds is occupied, and of the threads that are    *)
(* about to give one back, each names a block of its own.                  *)
HeldOnce ==
    /\ DOMAIN held \subseteq Occupied
    /\ \A t, u \in Threads :
          /\ t # u /\ call[t].op = "deallocate" /\ call[u].op = "deallocate"
          /\ call[t].arg # Foreign
          => call[t].arg # call[u].arg /\ call[t].arg \notin DOMAIN held

THEOREM HeldOnceAlways == Spec => []HeldOnce
<1>1. IInv => HeldOnce
  BY DEF IInv, Holding, GivingBack, HeldOnce
<1> QED BY <1>1, Invariance, PTL

-----------------------------------------------------------------------------
(* The search of first and best fit ends with the block its mode names, of *)
(* all that are large enough; in every mode, worst fit included, it ends   *)
(* with a free block that is large enough if there is one.                 *)
THEOREM FitHonouredAlways == Spec => FitHonoured
<1>1. ASSUME IInv, NEW t \in Threads, SearchStep(t), loc'.it = Total, Fitting(t) # {}
      PROVE  loc'.block \in Fitting(t) /\ \A f \in Fitting(t) : AsGood(loc'.block, f)
  <2>1. PICK b : b = loc.it
    OBVIOUS
  <2>2. /\ b \in Blocks /\ b \in Nat /\ Behind(b) \in Blocks \cup {Total}
        /\ b < Behind(b) /\ Behind(b) \in Nat /\ b < Total
        /\ loc.block # Null => loc.block \in Nat /\ loc.block < b
        /\ \A f \in Fitting(t) : f \in Nat /\ BlockSize(f) \in Nat /\ (f < Behind(b) => f <= b)
        /\ Searching(t) /\ Null \notin Blocks
    BY <1>1, <2>1, SearchStepFacts
  <2> DEFINE take == b \in Free /\ BlockSize(b) >= SizeWithMetadata(t) /\ Preferred(b)
  <2>3. /\ loc.it # Total
        /\ loc'.it = IF take /\ fit_mode = "first_fit" THEN Total ELSE Behind(b)
        /\ loc'.block = IF take THEN b ELSE loc.block
    BY <1>1, <2>1 DEF SearchStep
  <2>4. take => b \in Fitting(t)
    BY DEF Fitting
  <2>5. b \in Fitting(t) /\ ~ take => ~ Preferred(b)
    BY DEF Fitting
  <2> HIDE DEF take
  <2>6. CASE take /\ fit_mode = "first_fit"
    <3>1. loc.block = Null /\ loc'.block = b
      BY <2>2, <2>3, <2>6 DEF Searching
    <3>2. \A f \in Fitting(t) : b <= f
      BY <2>1, <2>2, <3>1 DEF Searching
    <3> QED BY <2>4, <2>6, <3>1, <3>2 DEF AsGood
  <2>7. CASE ~ (take /\ fit_mode = "first_fit")
    <3>1. Behind(b) = Total
      BY <1>1, <2>3, <2>7
    <3>2. ASSUME NEW f \in Fitting(t) PROVE f <= b /\ f \in Nat /\ BlockSize(f) \in Nat
      <4>1. f < Total
        BY <1>1, BlockFacts, Sizes DEF Fitting, Free, Blocks, IInv, Memory
      <4> QED BY <2>2, <3>1, <4>1
    <3>3. ASSUME NEW f \in Fitting(t), f < b
          PROVE  loc.block # Null /\ loc.block \in Fitting(t) /\ AsGood(loc.block, f)
      BY <2>1, <2>2, <2>3, <3>3 DEF Searching
    <3>4. CASE take
      <4>1. loc'.block = b /\ b \in Fitting(t) /\ fit_mode # "first_fit"
        BY <2>3, <2>4, <2>7, <3>4
      <4>2. ASSUME NEW f \in Fitting(t), f < b PROVE AsGood(b, f)
        <5>1. loc.block # Null /\ loc.block \in Fitting(t) /\ AsGood(loc.block, f)
          BY <3>3, <4>2
        <5>2. BlockSize(loc.block) \in Nat /\ BlockSize(b) \in Nat /\ BlockSize(f) \in Nat
          BY <3>2, <4>1, <5>1
        <5>3. fit_mode = "the_worst_fit" \/ BlockSize(b) < BlockSize(loc.block)
          BY <3>4, <4>1, <5>1 DEF take, Preferred
        <5>4. fit_mode = "the_best_fit" => BlockSize(loc.block) <= BlockSize(f)
          BY <5>1 DEF AsGood
        <5> QED BY <2>2, <3>2, <4>1, <4>2, <5>2, <5>3, <5>4 DEF AsGood
      <4>3. AsGood(b, b)
        BY <2>2, <3>2, <4>1 DEF AsGood
      <4> QED BY <2>2, <3>2, <4>1, <4>2, <4>3
    <3>5. CASE ~ take
      <4>1. loc'.block = loc.block
        BY <2>3, <3>5
      <4>2. loc.block # Null
        <5>1. PICK f \in Fitting(t) : TRUE
          BY <1>1
        <5>2. ASSUME loc.block = Null PROVE FALSE
          <6>1. f = b
            BY <2>2, <3>2, <3>3, <5>2
          <6> QED BY <2>5, <3>5, <5>2, <6>1 DEF Preferred
        <5> QED BY <5>2
      <4>3. loc.block \in Fitting(t)
        BY <2>2, <4>2 DEF Searching
      <4>4. b \in Fitting(t) => AsGood(loc.block, b)
        <5>1. b \in Fitting(t) => fit_mode = "the_best_fit"
                                  /\ ~ (BlockSize(b) < BlockSize(loc.block))
          BY <1>1, <2>5, <3>5, <4>2 DEF Preferred, IInv, Callers, Modes
        <5> QED BY <3>2, <4>3, <5>1 DEF AsGood
      <4> QED BY <2>2, <3>2, <3>3, <4>1, <4>3, <4>4
    <3> QED BY <3>4, <3>5
  <2> QED BY <2>6, <2>7
<1>2. IInv /\ [NextStep]_vars =>
        [\A t \in Threads : SearchStep(t) /\ loc'.it = Total /\ Fitting(t) # {} =>
            /\ loc'.block \in Fitting(t)
            /\ \A f \in Fitting(t) : AsGood(loc'.block, f)]_vars
  BY <1>1
<1> QED BY <1>2, Invariance, PTL DEF Spec, FitHonoured

-----------------------------------------------------------------------------
(* The abstract specification.  A request that fills a block to its last   *)
(* byte is left out: for it the code hands out a block one byte short.     *)

NoExactFit == \A n \in Requests : \A k \in MinK..SizeK : n + Added # 2^k

(* What is handed out, as AllocatorSpec sees it. *)
Regions == [b \in Occupied |-> BlockSize(b) - Meta]

LEMMA OccupiedFacts ==
    ASSUME IInv
    PROVE  /\ Occupied = DOMAIN heap \ Fr(heap) /\ Occupied \subseteq DOMAIN heap
           /\ HeapOK(heap) /\ Tiles(heap)
           /\ \A r \in Occupied : Ends(heap, r) = r + Meta + Regions[r]
BY SameSizes, BlockFacts DEF IInv, Memory, Occupied, Blocks, Regions, Meta, Ends

LEMMA VacantOffsets ==
    ASSUME IInv, NEW o, NEW len
    PROVE  Promise!Vacant(o, len) <=>
              /\ o + len <= Total
              /\ \A r \in Occupied : Ends(heap, r) <= o \/ o + len <= r
<1>1. \A r \in Occupied : Promise!End(r) = Ends(heap, r)
  BY OccupiedFacts DEF Promise!End, Regions
<1>2. DOMAIN Regions = Occupied
  BY DEF Regions
<1> QED BY <1>1, <1>2 DEF Promise!Vacant, Regions

LEMMA PromiseInit == Init => Promise!SpecInit
<1> SUFFICES ASSUME Init PROVE Promise!SpecInit
  OBVIOUS
<1>1. Occupied = {}
  BY DEF Init, Occupied, Free, Blocks
<1>2. Regions = [o \in {} |-> 0]
  BY <1>1 DEF Regions
<1> QED BY <1>2 DEF Init, Promise!SpecInit, Regions

LEMMA PromiseGrant ==
    ASSUME IInv, NoExactFit, NEW t \in Threads, FinishAllocate(t), NEW n, n = call[t].arg
    PROVE  n \in Requests /\ Promise!Grant(n)
<1>1. PICK b : b = loc.block
  OBVIOUS
<1>2. /\ Inside(t, "allocate") /\ b # Null
      /\ heap' = Marked(heap, b, TRUE)
      /\ last' = [op |-> "allocated", arg |-> n, at |-> b]
  BY <1>1 DEF FinishAllocate, Found, Return, Marked
<1>3. b \in Fitting(t) /\ n \in Requests /\ n \in Nat /\ SizeWithMetadata(t) = n + 8
  BY <1>1, <1>2, Alone, Asking DEF IInv, Searching, Inside
<1>4. /\ b \in DOMAIN heap /\ b \in Free /\ b \notin Occupied
      /\ HeapOK(heap) /\ Tiles(heap)
      /\ b \in Nat /\ Sz(heap, b) \in Nat /\ Sz(heap, b) >= n + 8
      /\ Ends(heap, b) = b + Sz(heap, b) /\ Ends(heap, b) <= Total /\ Total \in Nat
      /\ Lev(heap, b) \in MinK..SizeK
  <2>1. b \in Free /\ b \in DOMAIN heap /\ BlockSize(b) >= n + 8 /\ b \notin Occupied
    BY <1>3 DEF Fitting, Free, Blocks, Occupied
  <2>2. HeapOK(heap) /\ Tiles(heap)
    BY DEF IInv, Memory
  <2>3. Lev(heap, b) \in MinK..SizeK
    BY <2>1, <2>2, BlockFacts, Sizes DEF Lev
  <2> QED BY <2>1, <2>2, <2>3, BlockFacts, BlocksEnd, Sizes, SameSizes
<1>5. Sz(heap, b) >= n + Meta
  <2>1. Sz(heap, b) # n + 8
    BY <1>3, <1>4 DEF NoExactFit, Sz, Added
  <2> QED BY <1>3, <1>4, <2>1 DEF Meta
<1> DEFINE len == Sz(heap, b) - Meta
<1>6. len \in n..Total /\ b \in 0..Total /\ Meta + len = Sz(heap, b)
  BY <1>3, <1>4, <1>5, BlockFacts DEF Meta
<1> HIDE DEF len
<1>7. Promise!Vacant(b, Meta + len)
  <2>1. ASSUME NEW r \in Occupied
        PROVE  Ends(heap, r) <= b \/ b + (Meta + len) <= r
    <3>1. r \in DOMAIN heap /\ r # b /\ r \in Nat
      BY <1>4, BlockFacts DEF Occupied, Blocks
    <3> QED BY <1>4, <1>6, <3>1 DEF Tiles
  <2> QED BY <1>4, <1>6, <2>1, VacantOffsets
<1>8. Regions' = [r \in DOMAIN Regions \cup {b} |-> IF r = b THEN len ELSE Regions[r]]
  <2>1. /\ Fr(heap') = Fr(heap) \ {b} /\ DOMAIN heap' = DOMAIN heap
        /\ \A x \in DOMAIN heap : Sz(heap', x) = Sz(heap, x)
    <3>1. HeapOK(heap') /\ Fr(heap') = Fr(heap) \ {b} /\ DOMAIN heap' = DOMAIN heap
      BY <1>2, <1>4, MarkFacts
    <3>2. \A x \in DOMAIN heap : Sz(heap', x) = Sz(heap, x)
      BY <1>2, <1>4, MarkSizes
    <3> QED BY <3>1, <3>2
  <2>2. Occupied' = Occupied \cup {b}
    BY <1>4, <2>1, SameSizes, SameSizesPrimed DEF Occupied, Blocks
  <2>3. Regions' = [r \in Occupied' |-> Sz(heap', r) - Meta]
    BY SameSizesPrimed DEF Regions
  <2>4. Occupied \subseteq DOMAIN heap /\ DOMAIN Regions = Occupied
    BY DEF Occupied, Blocks, Regions
  <2>5. \A r \in Occupied : Regions[r] = Sz(heap, r) - Meta
    BY SameSizes DEF Regions
  <2> QED BY <1>4, <2>1, <2>2, <2>3, <2>4, <2>5 DEF len
<1> QED BY <1>2, <1>3, <1>6, <1>7, <1>8 DEF Promise!Grant, Regions

(* A hole of twice the block a request needs holds such a block, free and  *)
(* merged, so the search cannot have passed the end without one.           *)
LEMMA PromiseRefuse ==
    ASSUME IInv, NEW t \in Threads, ThrowBadAlloc(t), NEW n, n = call[t].arg
    PROVE  n \in Requests /\ Promise!Refuse(n)
<1>1. /\ Inside(t, "allocate") /\ loc.it = Total /\ loc.block = Null
      /\ last' = [op |-> "bad_alloc", arg |-> n, at |-> -1]
      /\ heap' = heap
  BY DEF ThrowBadAlloc, Return, Null
<1>2. n \in Requests /\ n \in Nat /\ SizeWithMetadata(t) = n + 8
  BY <1>1, Asking DEF IInv, Inside
<1>3. /\ HeapOK(heap) /\ Tiles(heap) /\ MergedBut(heap, Null)
      /\ Occupied = DOMAIN heap \ Fr(heap) /\ Total \in Nat
  BY <1>1, SameSizes, Sizes DEF IInv, Memory, Occupied, Blocks
<1>4. \A f \in Fr(heap) : ~ (Sz(heap, f) >= n + 8)
  <2>1. \A f \in Fitting(t) : ~ (f < Total)
    BY <1>1, Alone DEF IInv, Searching
  <2>2. \A f \in Fr(heap) : f < Total
    BY <1>3, BlockFacts DEF Fr
  <2> QED BY <1>2, <2>1, <2>2, SameSizes DEF Fitting
<1>5. PICK j \in Nat : j = nearest_greater_k_of_2(n + Added) /\ 2^j >= n + 8
  <2>1. n + Added \in Nat /\ n + Added = n + 8
    BY <1>2 DEF Added
  <2>2. \E k \in 0..64 : n + Added <= 2^k
    <3>1. PICK k \in 0..64 : n + Added < 2^k
      BY <1>2, BuddiesAssumption
    <3>2. k \in Nat /\ 2^k \in Nat
      BY PowPositive
    <3>3. n + Added <= 2^k
      BY <1>2, <3>1, <3>2 DEF Added
    <3> QED BY <3>3
  <2> DEFINE j == nearest_greater_k_of_2(n + Added)
  <2>3. j \in 0..64 /\ 2^j >= n + Added
    BY <2>1, <2>2, NearestPower
  <2> HIDE DEF j
  <2>4. j \in Nat /\ 2^j >= n + 8
    BY <2>1, <2>3
  <2> QED BY <2>4 DEF j
<1>6. ASSUME NEW o \in 0..Total, Promise!Vacant(o, 2 * 2^j) PROVE FALSE
  <2>1. /\ o + 2 * 2^j <= Total
        /\ \A r \in Occupied : Ends(heap, r) <= o \/ o + 2 * 2^j <= r
    BY <1>6, VacantOffsets
  <2>2. o \in Nat
    BY <1>3
  <2>3. PICK f \in Fr(heap) : Lev(heap, f) >= j
    BY <1>3, <2>1, <2>2, HoleHasBlock
  <2>4. f \in DOMAIN heap /\ Lev(heap, f) \in Nat
    BY <1>3, BlockFacts DEF Fr
  <2>5. Sz(heap, f) >= 2^j /\ Sz(heap, f) \in Nat /\ 2^j \in Nat
    BY <1>3, <2>3, <2>4, PowMonotone, PowPositive DEF Sz
  <2> QED BY <1>2, <1>4, <1>5, <2>5
<1>7. \A o \in 0..Total :
        ~ Promise!Vacant(o, [m \in Requests |-> 2 * 2^nearest_greater_k_of_2(m + Added)][n])
  BY <1>2, <1>5, <1>6
<1>8. Regions' = Regions
  BY <1>1 DEF Regions, Occupied, Blocks, Free, BlockSize
<1> QED BY <1>1, <1>2, <1>7, <1>8 DEF Promise!Refuse, Regions

LEMMA PromiseTakeBack ==
    ASSUME IInv, NEW t \in Threads, BeginFree(t), NEW b, b = call[t].arg
    PROVE  b \in Occupied /\ Promise!TakeBack(b)
<1>1. /\ b \in Occupied /\ heap' = Marked(heap, b, FALSE)
      /\ last' = [op |-> "deallocated", arg |-> b, at |-> b]
  BY DEF BeginFree, Marked
<1>2. b \in DOMAIN heap /\ HeapOK(heap) /\ b \notin Free
  BY <1>1 DEF Occupied, Blocks, IInv, Memory
<1>3. /\ Fr(heap') = Fr(heap) \cup {b} /\ DOMAIN heap' = DOMAIN heap
      /\ \A x \in DOMAIN heap : Sz(heap', x) = Sz(heap, x)
  <2>1. HeapOK(heap') /\ Fr(heap') = Fr(heap) \cup {b} /\ DOMAIN heap' = DOMAIN heap
    <3>1. b \in DOMAIN heap /\ HeapOK(heap) /\ heap' = Marked(heap, b, FALSE)
      BY <1>1, <1>2
    <3>2. Fr(Marked(heap, b, FALSE)) = Fr(heap) \cup {b}
      BY <3>1, MarkFreed
    <3>3. DOMAIN Marked(heap, b, FALSE) = DOMAIN heap /\ HeapOK(Marked(heap, b, FALSE))
      BY <3>1, MarkFacts
    <3> QED BY <3>1, <3>2, <3>3
  <2>2. \A x \in DOMAIN heap : Sz(heap', x) = Sz(heap, x)
    BY <1>1, <1>2, MarkSizes
  <2> QED BY <2>1, <2>2
<1>4. Occupied' = Occupied \ {b}
  BY <1>2, <1>3, SameSizes, SameSizesPrimed DEF Occupied, Blocks
<1>5. Regions' = [r \in DOMAIN Regions \ {b} |-> Regions[r]]
  <2>1. Regions' = [r \in Occupied' |-> Sz(heap', r) - Meta]
    BY SameSizesPrimed DEF Regions
  <2>2. Occupied \subseteq DOMAIN heap /\ DOMAIN Regions = Occupied
    BY DEF Occupied, Blocks, Regions
  <2>3. \A r \in Occupied : Regions[r] = Sz(heap, r) - Meta
    BY SameSizes DEF Regions
  <2> QED BY <1>3, <1>4, <2>1, <2>2, <2>3
<1> QED BY <1>1, <1>5 DEF Promise!TakeBack, Regions

(* Splitting and merging change nothing that is handed out. *)
LEMMA WorkSpares ==
    ASSUME IInv, NEW t \in Threads, SplitStep(t) \/ MergeStep(t)
    PROVE  Occupied' = Occupied /\ \A r \in Occupied : Sz(heap', r) = Sz(heap, r)
<1>1. HeapOK(heap) /\ Tiles(heap)
  BY DEF IInv, Memory
<1>2. CASE SplitStep(t)
  <2>1. PICK b : b = loc.block
    OBVIOUS
  <2>2. b \in Fr(heap) /\ heap[b].k > 0 /\ heap' = Split(heap, b)
    BY <1>2, <2>1, SplitIs
  <2>3. PICK m : CutAt(heap, b, m, heap')
    BY <1>1, <2>2, SplitFacts
  <2> QED BY <2>2, <2>3, SameSizes, SameSizesPrimed DEF CutAt, Occupied, Blocks, Sz
<1>3. CASE MergeStep(t)
  <2>1. PICK low, high : FreePair(heap, low, high) /\ heap' = Join(heap, low, high)
    BY <1>3, MergeIs
  <2>2. Joined(heap, low, high, heap') /\ low \in Fr(heap) /\ high \in Fr(heap) /\ low # high
    BY <1>1, <2>1, MergeFacts, BlockFacts DEF FreePair, Fr
  <2>3. low \in DOMAIN heap /\ high \in DOMAIN heap
    BY <2>2 DEF Fr
  <2> QED BY <2>2, <2>3, SameSizes, SameSizesPrimed DEF Joined, Occupied, Blocks, Sz
<1> QED BY <1>2, <1>3

LEMMA PromiseStutters ==
    ASSUME IInv, NEW t \in Threads, SplitStep(t) \/ MergeStep(t)
    PROVE  Regions' = Regions /\ last' = last
<1>1. last' = last
  BY DEF SplitStep, MergeStep
<1>2. Regions = [r \in Occupied |-> Sz(heap, r) - Meta]
      /\ Regions' = [r \in Occupied' |-> Sz(heap', r) - Meta]
  BY SameSizes, SameSizesPrimed DEF Regions
<1> QED BY <1>1, <1>2, WorkSpares

LEMMA PromiseStep ==
    ASSUME NoExactFit, IInv, [NextStep]_vars
    PROVE  [Promise!SpecNext]_(Promise!specVars)
<1>1. UNCHANGED heap => Regions' = Regions
  BY DEF Regions, Occupied, Blocks, Free, BlockSize
<1>2. UNCHANGED <<heap, last>> => UNCHANGED Promise!specVars
  BY <1>1 DEF Promise!specVars, Regions
<1>3. CASE UNCHANGED vars
  BY <1>2, <1>3 DEF vars
<1>4. CASE NextStep
  <2>1. PICK t \in Threads : ThreadCall(t) \/ ThreadEnter(t) \/ ThreadWork(t)
    BY <1>4 DEF NextStep
  <2>2. CASE ThreadCall(t)
    BY <1>2, <2>2 DEF ThreadCall, CallAllocate, CallDeallocate, CallDeallocateForeign,
                      SetFitMode
  <2>3. CASE BeginSearch(t) \/ SearchStep(t)
    BY <1>2, <2>3 DEF BeginSearch, SearchStep
  <2>4. CASE FinishAllocate(t)
    <3>1. PICK n \in Requests : Promise!Grant(n)
      BY <2>4, PromiseGrant
    <3> QED BY <3>1 DEF Promise!SpecNext
  <2>5. CASE ThrowBadAlloc(t)
    <3>1. PICK n \in Requests : Promise!Refuse(n)
      BY <2>5, PromiseRefuse
    <3> QED BY <3>1 DEF Promise!SpecNext
  <2>6. CASE BeginFree(t)
    <3>1. PICK b \in Occupied : Promise!TakeBack(b)
      BY <2>6, PromiseTakeBack
    <3>2. b \in DOMAIN Regions
      BY DEF Regions
    <3> QED BY <3>1, <3>2 DEF Promise!SpecNext, Regions
  <2>7. CASE RejectForeign(t)
    <3>1. last' = [op |-> "rejected", arg |-> -1, at |-> -1] /\ UNCHANGED heap
      BY <2>7 DEF RejectForeign, Return
    <3>2. Promise!Reject
      BY <1>1, <3>1 DEF Promise!Reject, Regions
    <3> QED BY <3>2 DEF Promise!SpecNext
  <2>8. CASE SplitStep(t) \/ MergeStep(t)
    BY <2>8, PromiseStutters DEF Promise!specVars, Regions
  <2>9. CASE FinishDeallocate(t)
    BY <1>2, <2>9 DEF FinishDeallocate, Return
  <2> QED BY <2>1, <2>2, <2>3, <2>4, <2>5, <2>6, <2>7, <2>8, <2>9 DEF ThreadEnter, ThreadWork
<1> QED BY <1>3, <1>4

(* The buddy system implements AllocatorSpec for requests that fill no     *)
(* block to its last byte: no two blocks overlap, only the block a caller  *)
(* names comes back, and do_allocate_sm throws bad_alloc only when no hole *)
(* is twice as long as the block the request needs.                        *)
THEOREM KeepsPromiseAlways == ASSUME NoExactFit PROVE Spec => KeepsPromise
<1>1. IInv /\ [NextStep]_vars => [Promise!SpecNext]_(Promise!specVars)
  BY PromiseStep
<1> QED BY <1>1, PromiseInit, Invariance, PTL
       DEF Spec, KeepsPromise, Promise!AllocatorPromise

-----------------------------------------------------------------------------
(* What a caller asked for, against the size of the block it was given.    *)

Covered == \A b \in DOMAIN held : held[b] \in Requests /\ held[b] + Added <= Sz(heap, b)

LEMMA CoveredStays ==
    ASSUME IInv, Covered, DOMAIN held' \subseteq DOMAIN held,
           \A b \in DOMAIN held' : held'[b] = held[b],
           \A r \in Occupied : Sz(heap', r) = Sz(heap, r)
    PROVE  Covered'
BY DEF IInv, Holding, Covered

LEMMA CoveredStep == IInv /\ Covered /\ [NextStep]_vars => Covered'
<1> SUFFICES ASSUME IInv, Covered, [NextStep]_vars PROVE Covered'
  OBVIOUS
<1>1. UNCHANGED heap => \A r \in Occupied : Sz(heap', r) = Sz(heap, r)
  OBVIOUS
<1>2. CASE UNCHANGED vars
  BY <1>1, <1>2, CoveredStays DEF vars
<1>3. CASE NextStep
  <2>1. PICK t \in Threads : ThreadCall(t) \/ ThreadEnter(t) \/ ThreadWork(t)
    BY <1>3 DEF NextStep
  <2>2. CASE ThreadCall(t)
    <3>1. CASE CallDeallocate(t)
      BY <1>1, <3>1, CoveredStays DEF CallDeallocate
    <3>2. CASE CallAllocate(t) \/ CallDeallocateForeign(t) \/ SetFitMode(t)
      BY <1>1, <3>2, CoveredStays DEF CallAllocate, CallDeallocateForeign, SetFitMode
    <3> QED BY <2>2, <3>1, <3>2 DEF ThreadCall
  <2>3. CASE BeginFree(t)
    <3>1. PICK b : b = call[t].arg
      OBVIOUS
    <3>2. b \in DOMAIN heap /\ HeapOK(heap) /\ heap' = Marked(heap, b, FALSE) /\ held' = held
      BY <2>3, <3>1 DEF BeginFree, Marked, Occupied, Blocks, IInv, Memory
    <3>3. \A r \in Occupied : Sz(heap', r) = Sz(heap, r)
      BY <3>2, MarkSizes DEF Occupied, Blocks
    <3> QED BY <3>2, <3>3, CoveredStays
  <2>4. CASE SplitStep(t) \/ MergeStep(t)
    <3>1. held' = held
      BY <2>4 DEF SplitStep, MergeStep
    <3> QED BY <2>4, <3>1, WorkSpares, CoveredStays
  <2>5. CASE FinishAllocate(t)
    <3>1. PICK b, n : b = loc.block /\ n = call[t].arg
      OBVIOUS
    <3>2. /\ Inside(t, "allocate") /\ b # Null
          /\ heap' = Marked(heap, b, TRUE)
          /\ held' = [x \in DOMAIN held \cup {b} |-> IF x = b THEN n ELSE held[x]]
      BY <2>5, <3>1 DEF FinishAllocate, Found, Marked
    <3>3. b \in Fitting(t) /\ n \in Requests /\ n \in Nat
      BY <3>1, <3>2, Alone, Asking DEF IInv, Searching, Inside
    <3>4. b \in DOMAIN heap /\ HeapOK(heap)
      BY <3>3 DEF Fitting, Free, Blocks, IInv, Memory
    <3>5. \A x \in DOMAIN heap : Sz(heap', x) = Sz(heap, x)
      BY <3>2, <3>4, MarkSizes
    <3>6. n + Added <= Sz(heap, b)
      BY <3>1, <3>3, <3>4, SameSizes, BlockFacts DEF Fitting, SizeWithMetadata, Added
    <3>7. \A x \in DOMAIN held : x \in DOMAIN heap
      BY DEF IInv, Holding, Occupied, Blocks
    <3> QED BY <3>2, <3>3, <3>4, <3>5, <3>6, <3>7 DEF Covered
  <2>6. CASE BeginSearch(t) \/ SearchStep(t) \/ RejectForeign(t) \/ ThrowBadAlloc(t)
             \/ FinishDeallocate(t)
    BY <1>1, <2>6, CoveredStays
       DEF BeginSearch, SearchStep, RejectForeign, ThrowBadAlloc, FinishDeallocate
  <2> QED BY <2>1, <2>2, <2>3, <2>4, <2>5, <2>6 DEF ThreadEnter, ThreadWork
<1> QED BY <1>2, <1>3

(* A request that with sizeof(occupied_block_metadata_size), eight bytes,  *)
(* is exactly a power of two is the only one whose block is too short for  *)
(* the nine bytes of metadata and the bytes asked for.                     *)
THEOREM PayloadFitsUnlessExact == ASSUME NoExactFit PROVE Spec => []PayloadFits
<1>1. Init => Covered
  BY DEF Init, Covered
<1>2. IInv /\ Covered => PayloadFits
  <2> SUFFICES ASSUME IInv, Covered, NEW b \in DOMAIN held
               PROVE  Meta + held[b] <= BlockSize(b)
    BY DEF PayloadFits
  <2>1. b \in DOMAIN heap /\ HeapOK(heap) /\ held[b] \in Nat
        /\ held[b] \in Requests /\ held[b] + Added <= Sz(heap, b)
    BY BuddiesAssumption DEF IInv, Holding, Memory, Occupied, Blocks, Covered
  <2>2. Lev(heap, b) \in MinK..SizeK /\ Sz(heap, b) \in Nat
    BY <2>1, BlockFacts, Sizes DEF Lev
  <2>3. Sz(heap, b) # held[b] + Added
    BY <2>1, <2>2 DEF NoExactFit, Sz
  <2> QED BY <2>1, <2>2, <2>3, SameSizes DEF Meta, Added
<1> QED BY <1>1, <1>2, Invariance, CoveredStep, PTL DEF Spec

(* The blocks reach the end of a memory of size() bytes, which lies inside *)
(* the memory asked of the parent when its size is a power of two.         *)
THEOREM InsideTrustedUnlessOdd == ASSUME SpaceSize = Total PROVE Spec => []InsideTrusted
<1>1. IInv => InsideTrusted
  <2> SUFFICES ASSUME IInv, NEW b \in DOMAIN held
               PROVE  b + BlockSize(b) <= SpaceSize
    BY DEF InsideTrusted
  <2>1. b \in DOMAIN heap /\ HeapOK(heap) /\ Tiles(heap)
    BY DEF IInv, Holding, Memory, Occupied, Blocks
  <2> QED BY <2>1, BlocksEnd, BlockFacts, SameSizes DEF Ends
<1> QED BY <1>1, Invariance, PTL
====
