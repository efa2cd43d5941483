---- MODULE RedBlackTreeAllocator_proofs ----
(***************************************************************************)
(* Proofs about allocator_red_black_tree, for every size of the trusted    *)
(* memory, of a header and of the links, every set of requests and every   *)
(* mode.                                                                   *)
(*                                                                         *)
(* The lemmas about a tree have its value T, its members M and a ghost sub *)
(* that names, for each node, what hangs below it: IsTree says that the    *)
(* links and sub agree and that keys are in order, whatever the keys are.  *)
(* A rotation, a colour, a new leaf and a removed node each keep that, and *)
(* so do the two repairs, by induction on their rounds, unless they follow *)
(* a null pointer.  The searches and walks go by induction on the size of  *)
(* what hangs below a node.                                                *)
(*                                                                         *)
(* The inductive invariant joins the two: the list leaves no gap, and the  *)
(* free blocks of the list are the nodes of a tree ordered by their sizes. *)
(* The size of a block changes only while the block is out of the tree.    *)
(***************************************************************************)
EXTENDS RedBlackTreeAllocator, FiniteSetTheorems, SequenceTheorems, TLAPS

(* Induction over the naturals, without an operator as a parameter: a set  *)
(* of naturals has a least member, so a set with 0 and all successors has  *)
(* every natural in it.                                                    *)

LEMMA Least == ASSUME NEW S, S \subseteq Nat, S # {}
               PROVE  \E m \in S : \A n \in S : m <= n
<1> DEFINE T == {0..n : n \in S}
<1>1. T \subseteq FiniteSubsetsOf(Nat)
  <2>1. \A n \in S : IsFiniteSet(0..n) /\ 0..n \subseteq Nat
    BY FS_Interval
  <2>2. QED BY <2>1 DEF FiniteSubsetsOf
<1>2. PICK I \in T : \A J \in T : <<J, I>> \notin StrictSubsetOrdering(Nat)
  <2>1. IsWellFoundedOn(StrictSubsetOrdering(Nat), FiniteSubsetsOf(Nat))
    BY FS_StrictSubsetOrderingWellFounded
  <2>2. T # {}
    OBVIOUS
  <2>3. QED BY <1>1, <2>1, <2>2, WFMin
<1>3. PICK m \in S : I = 0..m
  OBVIOUS
<1>4. ASSUME NEW n \in S, ~ m <= n PROVE FALSE
  <2>1. 0..n \subseteq 0..m /\ m \in 0..m /\ m \notin 0..n
    BY <1>4
  <2>2. <<0..n, 0..m>> \in StrictSubsetOrdering(Nat)
    BY <2>1 DEF StrictSubsetOrdering
  <2>3. QED BY <1>2, <1>3, <2>2
<1>5. QED BY <1>4

LEMMA NatSet == ASSUME NEW S, 0 \in S, \A n \in Nat : n \in S => n + 1 \in S
                PROVE  Nat \subseteq S
<1>1. SUFFICES ASSUME Nat \ S # {} PROVE FALSE
  OBVIOUS
<1>2. PICK m \in Nat \ S : \A n \in Nat \ S : m <= n
  BY <1>1, Least
<1>3. m # 0 /\ m - 1 \in Nat
  BY <1>2
<1>4. m - 1 \in S
  BY <1>2, <1>3
<1>5. (m - 1) + 1 \in S
  BY <1>3, <1>4
<1>6. QED BY <1>2, <1>5

-----------------------------------------------------------------------------
(* The shape of a tree.  sub[n] holds n and what hangs below it. *)

Trees(M) == [root : M \cup {Null}, crashed : BOOLEAN,
             node : [M -> [left : M \cup {Null}, right : M \cup {Null},
                           parent : M \cup {Null}, red : BOOLEAN]]]

Below(sub, n) == IF n = Null THEN {} ELSE sub[n]

(* The node n, seen with s as its one side and o as the other *)
Joint(T, sub, n, s, o) ==
    /\ sub[n] = {n} \cup Below(sub, T.node[n][s]) \cup Below(sub, T.node[n][o])
    /\ n \notin Below(sub, T.node[n][s])
    /\ n \notin Below(sub, T.node[n][o])
    /\ Below(sub, T.node[n][s]) \cap Below(sub, T.node[n][o]) = {}
    /\ T.node[n][s] # Null => T.node[T.node[n][s]].parent = n
    /\ T.node[n][o] # Null => T.node[T.node[n][o]].parent = n
    /\ T.node[n].parent = Null => T.root = n
    /\ T.node[n].parent # Null =>
          T.node[T.node[n].parent][s] = n \/ T.node[T.node[n].parent][o] = n

Top(M, T, sub) ==
    /\ M = {} => T.root = Null
    /\ M # {} => T.root # Null /\ T.node[T.root].parent = Null /\ sub[T.root] = M

Shape(M, T, sub) ==
    /\ IsFiniteSet(M) /\ Null \notin M
    /\ T \in Trees(M)
    /\ sub \in [M -> SUBSET M]
    /\ \A n \in M : Joint(T, sub, n, "left", "right")
    /\ Top(M, T, sub)

(* The keys on the left are not greater, those on the right not smaller. *)
Before(s, x, y) == IF s = "left" THEN x <= y ELSE y <= x

SortedAt(T, sub, key, n, s, o) ==
    /\ \A m \in Below(sub, T.node[n][s]) : Before(s, key[m], key[n])
    /\ \A m \in Below(sub, T.node[n][o]) : Before(o, key[m], key[n])

Grown(M, T, sub, key) ==
    /\ Shape(M, T, sub)
    /\ \A n \in M : key[n] \in Int
    /\ \A n \in M : SortedAt(T, sub, key, n, "left", "right")

IsTree(M, T, key) == \E sub : Grown(M, T, sub, key)

-----------------------------------------------------------------------------
(* What the operations on links do *)

LEMMA SidesFacts ==
    ASSUME NEW s \in Links!Sides
    PROVE  /\ Links!Other(s) \in Links!Sides
           /\ Links!Other(Links!Other(s)) = s
           /\ Links!Other(s) # s
           /\ Links!Sides = {s, Links!Other(s)}
           /\ Links!Sides = {"left", "right"}
           /\ \A x, y \in Int : Before(Links!Other(s), x, y) <=> Before(s, y, x)
           /\ \A x, y, z \in Int : Before(s, x, y) /\ Before(s, y, z) => Before(s, x, z)
BY DEF Links!Sides, Links!Other, Before

LEMMA TreesFacts ==
    ASSUME NEW M, NEW T \in Trees(M)
    PROVE  /\ T.root \in M \cup {Null}
           /\ T.crashed \in BOOLEAN
           /\ Links!Members(T) = M
           /\ \A n \in M : /\ \A s \in Links!Sides : T.node[n][s] \in M \cup {Null}
                           /\ T.node[n].parent \in M \cup {Null}
                           /\ T.node[n].red \in BOOLEAN
BY DEF Trees, Links!Sides, Links!Members

(* The four things a tree is made of, and what an operation leaves alone *)
SameSides(M, T, U) == \A x \in M, s \in Links!Sides : U.node[x][s] = T.node[x][s]
SameParents(M, T, U) == \A x \in M : U.node[x].parent = T.node[x].parent
SameColours(M, T, U) == \A x \in M : U.node[x].red = T.node[x].red
SameTop(T, U) == U.root = T.root /\ U.crashed = T.crashed

(* The child of n on the side s becomes m; the parent of n becomes p. *)
ChildSet(M, T, U, n, s, m) ==
    \A x \in M, t \in Links!Sides : U.node[x][t] = IF x = n /\ t = s THEN m ELSE T.node[x][t]
ParentSet(M, T, U, n, p) ==
    \A x \in M : U.node[x].parent = IF x = n THEN p ELSE T.node[x].parent

LEMMA WithChildActs ==
    ASSUME NEW M, Null \notin M, NEW T \in Trees(M), NEW n \in M \cup {Null},
           NEW s \in Links!Sides, NEW m \in M \cup {Null}, NEW U, U = Links!WithChild(T, n, s, m)
    PROVE  /\ U \in Trees(M)
           /\ SameTop(T, U)
           /\ SameParents(M, T, U)
           /\ ChildSet(M, T, U, n, s, m)
           /\ SameColours(M, T, U)
<1>1. CASE n = Null
  BY <1>1 DEF Links!WithChild, SameTop, SameParents, ChildSet, SameColours
<1>2. CASE n \in M
  <2>1. U = [T EXCEPT !.node[n][s] = m]
    BY <1>2 DEF Links!WithChild
  <2>2. CASE s = "left"
    BY <1>2, <2>1, <2>2 DEF SameTop, SameParents, ChildSet, SameColours, Trees, Links!Sides
  <2>3. CASE s = "right"
    BY <1>2, <2>1, <2>3 DEF SameTop, SameParents, ChildSet, SameColours, Trees, Links!Sides
  <2> QED BY <2>2, <2>3 DEF Links!Sides
<1> QED BY <1>1, <1>2

LEMMA WithParentActs ==
    ASSUME NEW M, Null \notin M, NEW T \in Trees(M), NEW n \in M \cup {Null},
           NEW p \in M \cup {Null}, NEW U, U = Links!WithParent(T, n, p)
    PROVE  /\ U \in Trees(M)
           /\ SameTop(T, U)
           /\ SameSides(M, T, U)
           /\ ParentSet(M, T, U, n, p)
           /\ SameColours(M, T, U)
<1>1. CASE n = Null
  BY <1>1 DEF Links!WithParent, SameTop, SameSides, ParentSet, SameColours
<1>2. CASE n \in M
  <2>1. U = [T EXCEPT !.node[n].parent = p]
    BY <1>2 DEF Links!WithParent
  <2> QED BY <1>2, <2>1 DEF SameTop, SameSides, ParentSet, SameColours, Trees, Links!Sides
<1> QED BY <1>1, <1>2

LEMMA PaintActs ==
    ASSUME NEW M, Null \notin M, NEW T \in Trees(M), NEW n \in M \cup {Null},
           NEW red \in BOOLEAN, NEW U, U = Links!Paint(T, n, red)
    PROVE  /\ U \in Trees(M)
           /\ SameTop(T, U)
           /\ SameSides(M, T, U)
           /\ SameParents(M, T, U)
<1>1. CASE n = Null
  BY <1>1 DEF Links!Paint, SameTop, SameSides, SameParents
<1>2. CASE n \in M
  <2>1. U = [T EXCEPT !.node[n].red = red]
    BY <1>2 DEF Links!Paint
  <2> QED BY <1>2, <2>1 DEF SameTop, SameSides, SameParents, Trees, Links!Sides
<1> QED BY <1>1, <1>2
(* If n has a parent p it is its child on one side only. *)
OnOneSide(T, n, p) ==
    p # Null => \E s \in Links!Sides : \A t \in Links!Sides : T.node[p][t] = n <=> t = s

(* The pointer that led to n leads to m. *)
LEMMA RelinkLinks ==
    ASSUME NEW M, Null \notin M, NEW T \in Trees(M), NEW n \in M, NEW m \in M \cup {Null},
           NEW p, p = T.node[n].parent,
           OnOneSide(T, n, p),
           NEW U, U = Links!Relink(T, n, m)
    PROVE  /\ U \in Trees(M)
           /\ U.crashed = T.crashed
           /\ U.root = IF p = Null THEN m ELSE T.root
           /\ SameParents(M, T, U)
           /\ \A x \in M, t \in Links!Sides :
                 U.node[x][t] = IF x = p /\ T.node[x][t] = n THEN m ELSE T.node[x][t]
           /\ SameColours(M, T, U)
<1>1. p \in M \cup {Null}
  BY TreesFacts
<1>2. CASE p = Null
  <2>1. U = [T EXCEPT !.root = m]
    BY <1>2 DEF Links!Relink
  <2> QED BY <1>1, <1>2, <2>1 DEF Trees, SameParents, SameColours
<1>3. CASE p # Null
  <2>1. PICK s \in Links!Sides : \A t \in Links!Sides : T.node[p][t] = n <=> t = s
    BY <1>3 DEF OnOneSide
  <2>2. s = IF T.node[p].left = n THEN "left" ELSE "right"
    BY <2>1 DEF Links!Sides
  <2>3. U = Links!WithChild(T, p, s, m)
    BY <1>3, <2>2 DEF Links!Relink
  <2>4. /\ U \in Trees(M) /\ SameTop(T, U) /\ SameParents(M, T, U)
        /\ ChildSet(M, T, U, p, s, m) /\ SameColours(M, T, U)
    BY <1>1, <2>1, <2>3, WithChildActs
  <2>5. \A x \in M, t \in Links!Sides :
                 U.node[x][t] = IF x = p /\ T.node[x][t] = n THEN m ELSE T.node[x][t]
    BY <2>1, <2>4 DEF ChildSet
  <2> QED BY <1>3, <2>4, <2>5 DEF SameTop
<1> QED BY <1>2, <1>3

(* A node stands on one side of its parent only. *)
LEMMA OneSide ==
    ASSUME NEW M, NEW sub, NEW T, Shape(M, T, sub), NEW n \in M
    PROVE  OnOneSide(T, n, T.node[n].parent)
<1>0. SUFFICES ASSUME T.node[n].parent # Null
               PROVE  OnOneSide(T, n, T.node[n].parent)
  BY DEF OnOneSide
<1>1. PICK p : p = T.node[n].parent
  OBVIOUS
<1>2. Null \notin M /\ T \in Trees(M) /\ p \in M \cup {Null} /\ p # Null
  BY <1>0, <1>1, TreesFacts DEF Shape
<1>3. T.node[p].left = n /\ T.node[p].right = n => FALSE
  <2>1. n \in sub[n] /\ n # Null
    BY <1>2 DEF Shape, Joint
  <2>2. Below(sub, n) # {}
    BY <2>1 DEF Below
  <2> QED BY <1>2, <2>2 DEF Shape, Joint
<1>4. T.node[p].left = n \/ T.node[p].right = n
  BY <1>1, <1>2 DEF Shape, Joint
<1>5. OnOneSide(T, n, p)
  BY <1>3, <1>4 DEF Links!Sides, OnOneSide
<1> QED BY <1>1, <1>5

LEMMA RelinkActs ==
    ASSUME NEW M, NEW sub, NEW T, Shape(M, T, sub), NEW n \in M, NEW m \in M \cup {Null},
           NEW U, U = Links!Relink(T, n, m)
    PROVE  /\ U \in Trees(M)
           /\ U.crashed = T.crashed
           /\ U.root = IF T.node[n].parent = Null THEN m ELSE T.root
           /\ SameParents(M, T, U)
           /\ \A x \in M, t \in Links!Sides :
                 U.node[x][t] = IF x = T.node[n].parent /\ T.node[x][t] = n THEN m
                                ELSE T.node[x][t]
           /\ SameColours(M, T, U)
<1>1. PICK p : p = T.node[n].parent
  OBVIOUS
<1>2. Null \notin M /\ T \in Trees(M) /\ p \in M \cup {Null}
  BY <1>1, TreesFacts DEF Shape
<1>3. OnOneSide(T, n, p)
  BY <1>1, OneSide
<1> QED BY <1>1, <1>2, <1>3, RelinkLinks

(* A node is not below the nodes below it. *)
LEMMA KidFacts ==
    ASSUME NEW M, NEW sub, NEW T, Shape(M, T, sub), NEW n \in M, NEW s \in Links!Sides,
           NEW o, o = Links!Other(s)
    PROVE  /\ Joint(T, sub, n, s, o)
           /\ n \in sub[n]
           /\ sub[n] \subseteq M
           /\ T.node[n][s] \in M \cup {Null}
           /\ T.node[n][s] # n
           /\ T.node[n][s] # Null => /\ T.node[n][s] \in M
                                     /\ T.node[n][s] \in sub[n]
                                     /\ n \notin sub[T.node[n][s]]
                                     /\ sub[T.node[n][s]] \subseteq sub[n]
<1>1. Joint(T, sub, n, "left", "right") /\ T \in Trees(M) /\ Null \notin M
  BY DEF Shape
<1>2. Joint(T, sub, n, s, o)
  <2>1. CASE s = "left"
    BY <1>1, <2>1 DEF Links!Other
  <2>2. CASE s = "right"
    BY <1>1, <2>2 DEF Links!Other, Joint
  <2> QED BY <2>1, <2>2 DEF Links!Sides
<1>3. n \in sub[n] /\ sub[n] \subseteq M
  BY <1>2 DEF Joint, Shape
<1>4. T.node[n][s] \in M \cup {Null}
  BY <1>1, TreesFacts
<1>5. ASSUME T.node[n][s] # Null
      PROVE  /\ T.node[n][s] \in M /\ T.node[n][s] \in sub[n] /\ n \notin sub[T.node[n][s]]
             /\ sub[T.node[n][s]] \subseteq sub[n]
  <2> DEFINE c == T.node[n][s]
  <2>1. c \in M
    BY <1>4, <1>5
  <2>2. c \in sub[c]
    BY <2>1 DEF Shape, Joint
  <2> HIDE DEF c
  <2>3. sub[c] \subseteq sub[n] /\ n \notin sub[c]
    BY <1>2, <1>5 DEF Joint, Below, c
  <2> QED BY <2>1, <2>2, <2>3 DEF c
<1> QED BY <1>1, <1>2, <1>3, <1>4, <1>5

LEMMA SubFacts ==
    ASSUME NEW M, NEW sub, NEW T, Shape(M, T, sub), NEW n \in M
    PROVE  n # Null /\ n \in sub[n] /\ sub[n] \subseteq M
BY KidFacts, SidesFacts DEF Shape, Links!Sides

(* A node has one parent, and stands on one side of it. *)
LEMMA ParentFacts ==
    ASSUME NEW M, NEW sub, NEW T, Shape(M, T, sub), NEW n \in M
    PROVE  /\ T.node[n].parent \in M \cup {Null}
           /\ \A x \in M, t \in Links!Sides : T.node[x][t] = n => T.node[n].parent = x
           /\ T.node[n].parent = Null <=> T.root = n
           /\ T.node[n].parent # Null => \E t \in Links!Sides : T.node[T.node[n].parent][t] = n
           /\ T.node[n].parent # n
<1>1. T \in Trees(M) /\ Null \notin M /\ Joint(T, sub, n, "left", "right") /\ Top(M, T, sub)
  BY DEF Shape
<1>2. T.node[n].parent \in M \cup {Null}
  BY <1>1, TreesFacts
<1>3. ASSUME NEW x \in M, NEW t \in Links!Sides, T.node[x][t] = n PROVE T.node[n].parent = x
  <2>1. Joint(T, sub, x, t, Links!Other(t))
    BY KidFacts
  <2> QED BY <1>1, <1>3, <2>1 DEF Joint
<1>4. T.node[n].parent = Null <=> T.root = n
  BY <1>1 DEF Joint, Top
<1>5. T.node[n].parent # Null => \E t \in Links!Sides : T.node[T.node[n].parent][t] = n
  BY <1>1 DEF Joint, Links!Sides
<1>6. T.node[n].parent # n
  <2>1. \A t \in Links!Sides : T.node[n][t] # n
    BY KidFacts
  <2> QED BY <1>1, <1>5, <2>1
<1> QED BY <1>2, <1>3, <1>4, <1>5, <1>6

LEMMA HasParent ==
    ASSUME NEW M, NEW sub, NEW T, Shape(M, T, sub), NEW n \in M, T.node[n].parent # Null
    PROVE  /\ T.node[n].parent \in M
           /\ \E t \in Links!Sides : T.node[T.node[n].parent][t] = n
BY ParentFacts

LEMMA OnlyRoot ==
    ASSUME NEW M, NEW sub, NEW T, Shape(M, T, sub), NEW n \in M
    PROVE  T.node[n].parent = Null <=> T.root = n
BY ParentFacts

LEMMA ParentOf ==
    ASSUME NEW M, NEW sub, NEW T, Shape(M, T, sub), NEW n \in M, NEW x \in M,
           NEW t \in Links!Sides, T.node[x][t] = n
    PROVE  T.node[n].parent = x
BY ParentFacts

LEMMA KidParent ==
    ASSUME NEW M, NEW sub, NEW T, Shape(M, T, sub), NEW x \in M, NEW t \in Links!Sides,
           T.node[x][t] # Null
    PROVE  T.node[x][t] \in M /\ T.node[T.node[x][t]].parent = x
<1>1. PICK n : n = T.node[x][t]
  OBVIOUS
<1>2. n \in M
  BY <1>1, TreesFacts DEF Shape
<1>3. T.node[n].parent = x
  BY <1>1, <1>2, ParentFacts
<1> QED BY <1>1, <1>2, <1>3

LEMMA SortedSides ==
    ASSUME NEW M, NEW sub, NEW T, NEW key, Grown(M, T, sub, key), NEW n \in M,
           NEW s \in Links!Sides, NEW o, o = Links!Other(s)
    PROVE  SortedAt(T, sub, key, n, s, o)
<1>1. SortedAt(T, sub, key, n, "left", "right")
  BY DEF Grown
<1>2. (s = "left" /\ o = "right") \/ (s = "right" /\ o = "left")
  BY DEF Links!Sides, Links!Other
<1> QED BY <1>1, <1>2 DEF SortedAt
-----------------------------------------------------------------------------
(* The rotation of a to the side s, read link by link: b is the child of a *)
(* that comes up, c the subtree that changes from b to a, q the parent.    *)
Rotated(M, T, U, a, s, o, b, c, q) ==
    /\ U.root = IF q = Null THEN b ELSE T.root
    /\ U.crashed = T.crashed
    /\ \A x \in M : U.node[x][s] = IF x = b THEN a
                                   ELSE IF x = q /\ T.node[q][s] = a THEN b ELSE T.node[x][s]
    /\ \A x \in M : U.node[x][o] = IF x = a THEN c
                                   ELSE IF x = q /\ T.node[q][o] = a THEN b ELSE T.node[x][o]
    /\ \A x \in M : U.node[x].parent = IF x = b THEN q ELSE IF x = a THEN b
                                       ELSE IF x = c THEN a ELSE T.node[x].parent

LEMMA RotationApart ==
    ASSUME NEW M, NEW sub, NEW T, Shape(M, T, sub), NEW a \in M, NEW s \in Links!Sides,
           NEW o, o = Links!Other(s), NEW b \in M, b = T.node[a][o],
           NEW c, c = T.node[b][s], NEW q, q = T.node[a].parent
    PROVE  /\ a # b /\ c # a /\ c # b /\ q # a /\ q # b /\ T.node[b].parent = a
           /\ T.node[a][s] # a /\ T.node[a][s] # b /\ (T.node[a][s] # c \/ c = Null)
           /\ T.node[b][o] # b /\ T.node[b][o] # a /\ (T.node[b][o] # c \/ c = Null)
<1>1. c = T.node[b][s] /\ q = T.node[a].parent
  OBVIOUS
<1>2. /\ Null \notin M /\ T \in Trees(M)
      /\ s # o /\ o \in Links!Sides /\ Links!Sides = {s, o} /\ s = Links!Other(o)
  BY SidesFacts DEF Shape
<1>3. /\ T.node[a][s] \in M \cup {Null} /\ T.node[b][o] \in M \cup {Null}
      /\ c \in M \cup {Null} /\ q \in M \cup {Null} /\ a # Null /\ b # Null
  BY <1>1, <1>2, TreesFacts
<1>41. /\ Joint(T, sub, a, o, s) /\ a # b
       /\ T.node[a][s] # a /\ b \notin Below(sub, T.node[a][s])
       /\ a \notin sub[b] /\ b \in sub[b]
  <2>1. Joint(T, sub, a, o, s) /\ a # b /\ a \notin sub[b]
    BY <1>2, <1>3, KidFacts
  <2>2. T.node[a][s] # a /\ b \in sub[b]
    BY <1>2, KidFacts
  <2>3. b \notin Below(sub, T.node[a][s])
    BY <1>3, <2>1, <2>2 DEF Joint, Below
  <2> QED BY <2>1, <2>2, <2>3
<1>42. /\ T.node[a][s] # Null => T.node[a][s] \in sub[T.node[a][s]]
       /\ c # Null => c \in sub[c] /\ c \in sub[b]
       /\ T.node[b][o] # Null => T.node[b][o] \in sub[T.node[b][o]] /\ T.node[b][o] \in sub[b]
  BY <1>1, <1>2, <1>3, KidFacts
<1>43. Joint(T, sub, b, s, o) /\ c # b /\ T.node[b][o] # b
  BY <1>1, <1>2, KidFacts
<1>44. q # a /\ T.node[b].parent = a
  BY <1>1, <1>2, ParentFacts
<1>45. ASSUME q = b PROVE FALSE
  <2>1. T.node[a].parent = b /\ T.node[a].parent # Null
    BY <1>1, <1>3, <1>45
  <2>2. \E t \in Links!Sides : T.node[b][t] = a
    BY <2>1, ParentFacts
  <2>3. T.node[b][s] = a \/ T.node[b][o] = a
    BY <1>2, <2>2
  <2>4. a \in sub[b]
    BY <1>1, <1>3, <1>42, <2>3
  <2> QED BY <1>41, <2>4
<1>46. T.node[a][s] # b
  BY <1>3, <1>41, <1>42 DEF Below
<1>47. c # a /\ T.node[b][o] # a
  BY <1>3, <1>41, <1>42
<1>48. T.node[b][o] = c => c = Null
  BY <1>1, <1>3, <1>42, <1>43 DEF Joint, Below
<1>49. T.node[a][s] = c => c = Null
  BY <1>3, <1>41, <1>42 DEF Joint, Below
<1> QED BY <1>41, <1>43, <1>44, <1>45, <1>46, <1>47, <1>48, <1>49

LEMMA RotateActs ==
    ASSUME NEW M, NEW sub, NEW T, Shape(M, T, sub), NEW a \in M, NEW s \in Links!Sides,
           NEW o, o = Links!Other(s), NEW b \in M, b = T.node[a][o],
           NEW U, U = Links!Rotate(T, a, s)
    PROVE  /\ U \in Trees(M)
           /\ Rotated(M, T, U, a, s, o, b, T.node[b][s], T.node[a].parent)
           /\ SameColours(M, T, U)
<1>1. PICK c, q : c = T.node[b][s] /\ q = T.node[a].parent
  OBVIOUS
<1>2. /\ Null \notin M /\ T \in Trees(M)
      /\ s # o /\ o \in Links!Sides /\ Links!Sides = {s, o} /\ s = Links!Other(o)
  BY SidesFacts DEF Shape
<1>3. /\ T.node[a][s] \in M \cup {Null} /\ T.node[b][o] \in M \cup {Null}
      /\ c \in M \cup {Null} /\ q \in M \cup {Null} /\ a # Null /\ b # Null
  BY <1>1, <1>2, TreesFacts
<1>4. PICK T0 : T0 = Links!Relink(T, a, b)
  OBVIOUS
<1>5. PICK T1 : T1 = Links!WithParent(T0, b, q)
  OBVIOUS
<1>6. PICK T2 : T2 = Links!WithChild(T1, b, s, a)
  OBVIOUS
<1>7. PICK T3 : T3 = Links!WithParent(T2, a, b)
  OBVIOUS
<1>8. PICK T4 : T4 = Links!WithChild(T3, a, o, c)
  OBVIOUS
<1>9. PICK T5 : T5 = Links!WithParent(T4, c, a)
  OBVIOUS
<1>10. PICK T6 : T6 = Links!WithParent(T5, T.node[a][s], a)
  OBVIOUS
<1>11. U = Links!WithParent(T6, T.node[b][o], b)
  BY <1>1, <1>2, <1>3, <1>4, <1>5, <1>6, <1>7, <1>8, <1>9, <1>10 DEF Links!Rotate
<1>20. /\ T0 \in Trees(M) /\ T0.crashed = T.crashed /\ T0.root = IF q = Null THEN b ELSE T.root
       /\ SameParents(M, T, T0) /\ SameColours(M, T, T0)
       /\ \A x \in M, t \in Links!Sides :
             T0.node[x][t] = IF x = q /\ T.node[x][t] = a THEN b ELSE T.node[x][t]
  BY <1>1, <1>4, RelinkActs
<1>21. /\ T1 \in Trees(M) /\ SameTop(T0, T1) /\ SameSides(M, T0, T1)
       /\ ParentSet(M, T0, T1, b, q) /\ SameColours(M, T0, T1)
  BY <1>2, <1>3, <1>5, <1>20, WithParentActs
<1>22. /\ T2 \in Trees(M) /\ SameTop(T1, T2) /\ SameParents(M, T1, T2)
       /\ ChildSet(M, T1, T2, b, s, a) /\ SameColours(M, T1, T2)
  BY <1>2, <1>3, <1>6, <1>21, WithChildActs
<1>23. /\ T3 \in Trees(M) /\ SameTop(T2, T3) /\ SameSides(M, T2, T3)
       /\ ParentSet(M, T2, T3, a, b) /\ SameColours(M, T2, T3)
  BY <1>2, <1>3, <1>7, <1>22, WithParentActs
<1>24. /\ T4 \in Trees(M) /\ SameTop(T3, T4) /\ SameParents(M, T3, T4)
       /\ ChildSet(M, T3, T4, a, o, c) /\ SameColours(M, T3, T4)
  BY <1>2, <1>3, <1>8, <1>23, WithChildActs
<1>25. /\ T5 \in Trees(M) /\ SameTop(T4, T5) /\ SameSides(M, T4, T5)
       /\ ParentSet(M, T4, T5, c, a) /\ SameColours(M, T4, T5)
  BY <1>2, <1>3, <1>9, <1>24, WithParentActs
<1>26. /\ T6 \in Trees(M) /\ SameTop(T5, T6) /\ SameSides(M, T5, T6)
       /\ ParentSet(M, T5, T6, T.node[a][s], a) /\ SameColours(M, T5, T6)
  BY <1>2, <1>3, <1>10, <1>25, WithParentActs
<1>27. /\ U \in Trees(M) /\ SameTop(T6, U) /\ SameSides(M, T6, U)
       /\ ParentSet(M, T6, U, T.node[b][o], b) /\ SameColours(M, T6, U)
  BY <1>2, <1>3, <1>11, <1>26, WithParentActs
<1>30. SameColours(M, T, U)
  BY <1>20, <1>21, <1>22, <1>23, <1>24, <1>25, <1>26, <1>27 DEF SameColours
<1>31. U.root = IF q = Null THEN b ELSE T.root
  BY <1>20, <1>21, <1>22, <1>23, <1>24, <1>25, <1>26, <1>27 DEF SameTop
<1>32. U.crashed = T.crashed
  BY <1>20, <1>21, <1>22, <1>23, <1>24, <1>25, <1>26, <1>27 DEF SameTop
<1>40. /\ a # b /\ c # a /\ c # b /\ q # a /\ q # b /\ T.node[b].parent = a
       /\ T.node[a][s] # a /\ T.node[a][s] # b /\ (T.node[a][s] # c \/ c = Null)
       /\ T.node[b][o] # b /\ T.node[b][o] # a /\ (T.node[b][o] # c \/ c = Null)
  BY <1>1, RotationApart
<1>41. ASSUME NEW x \in M
       PROVE  U.node[x][s] = IF x = b THEN a
                             ELSE IF x = q /\ T.node[q][s] = a THEN b ELSE T.node[x][s]
  <2>1. U.node[x][s] = T2.node[x][s]
    BY <1>2, <1>23, <1>24, <1>25, <1>26, <1>27 DEF SameSides, ChildSet
  <2>2. U.node[x][s] = IF x = b THEN a ELSE T0.node[x][s]
    BY <1>21, <1>22, <2>1 DEF SameSides, ChildSet
  <2> QED BY <1>20, <2>2
<1>42. ASSUME NEW x \in M
       PROVE  U.node[x][o] = IF x = a THEN c
                             ELSE IF x = q /\ T.node[q][o] = a THEN b ELSE T.node[x][o]
  <2>1. U.node[x][o] = T4.node[x][o]
    BY <1>2, <1>25, <1>26, <1>27 DEF SameSides, ChildSet
  <2>2. U.node[x][o] = IF x = a THEN c ELSE T0.node[x][o]
    BY <1>2, <1>21, <1>22, <1>23, <1>24, <2>1 DEF SameSides, ChildSet
  <2> QED BY <1>2, <1>20, <2>2
<1>43. ASSUME NEW x \in M
       PROVE  U.node[x].parent = IF x = b THEN q ELSE IF x = a THEN b
                                 ELSE IF x = c THEN a ELSE T.node[x].parent
  <2>1. T5.node[x].parent = IF x = b THEN q ELSE IF x = a THEN b
                                 ELSE IF x = c THEN a ELSE T.node[x].parent
    BY <1>20, <1>21, <1>22, <1>23, <1>24, <1>25, <1>40 DEF SameParents, ParentSet
  <2>2. U.node[x].parent = IF x = T.node[b][o] THEN b
                           ELSE IF x = T.node[a][s] THEN a ELSE T5.node[x].parent
    BY <1>26, <1>27 DEF ParentSet
  <2>3. T.node[b][o] # Null => T.node[T.node[b][o]].parent = b
    BY <1>2, KidParent
  <2>4. x = T.node[a][s] => T.node[x].parent = a
    BY <1>2, KidParent
  <2> QED BY <1>2, <1>40, <2>1, <2>2, <2>3, <2>4
<1> QED BY <1>1, <1>27, <1>30, <1>31, <1>32, <1>41, <1>42, <1>43 DEF Rotated
(* What the rotation of a to the side s is about *)
Turn(T, a, s, o, b, c, q) ==
    /\ o = Links!Other(s)
    /\ b = T.node[a][o] /\ c = T.node[b][s] /\ q = T.node[a].parent

(* Only the two nodes that change places hold another subtree. *)
SubTurned(M, T, sub, a, s, b, c) ==
    [n \in M |-> IF n = a THEN {a} \cup Below(sub, T.node[a][s]) \cup Below(sub, c)
                 ELSE IF n = b THEN sub[a] ELSE sub[n]]

LEMMA RotatedGrown ==
    ASSUME NEW M, NEW sub, NEW T, NEW key, Grown(M, T, sub, key),
           NEW a \in M, NEW b \in M, NEW c \in M \cup {Null}, NEW q \in M \cup {Null},
           NEW s \in Links!Sides, NEW o, Turn(T, a, s, o, b, c, q),
           NEW U \in Trees(M), Rotated(M, T, U, a, s, o, b, c, q)
    PROVE  Grown(M, U, SubTurned(M, T, sub, a, s, b, c), key)
<1>0. PICK sub2 : sub2 = SubTurned(M, T, sub, a, s, b, c)
  OBVIOUS
<1>16. b = T.node[a][o] /\ c = T.node[b][s] /\ q = T.node[a].parent /\ o = Links!Other(s)
  BY DEF Turn
<1>1. /\ Shape(M, T, sub) /\ Null \notin M /\ T \in Trees(M) /\ Top(M, T, sub) /\ IsFiniteSet(M)
      /\ sub \in [M -> SUBSET M] /\ a # Null /\ b # Null
      /\ s # o /\ o \in Links!Sides /\ Links!Sides = {s, o} /\ s = Links!Other(o)
  BY <1>16, SidesFacts DEF Grown, Shape
<1>2. /\ a # b /\ c # a /\ c # b /\ q # a /\ q # b /\ T.node[b].parent = a
      /\ T.node[a][s] # a /\ T.node[a][s] # b /\ (T.node[a][s] # c \/ c = Null)
      /\ T.node[b][o] # b /\ T.node[b][o] # a /\ (T.node[b][o] # c \/ c = Null)
  BY <1>1, <1>16, RotationApart
<1>3. /\ T.node[a][s] \in M \cup {Null} /\ T.node[b][o] \in M \cup {Null}
  BY <1>1, TreesFacts
<1>4. /\ Joint(T, sub, a, s, o) /\ Joint(T, sub, b, s, o)
      /\ SortedAt(T, sub, key, a, s, o) /\ SortedAt(T, sub, key, b, s, o)
  BY <1>1, <1>16, KidFacts, SortedSides
<1>5. /\ sub[a] = {a} \cup Below(sub, T.node[a][s]) \cup sub[b]
      /\ sub[b] = {b} \cup Below(sub, c) \cup Below(sub, T.node[b][o])
      /\ a \notin sub[b] /\ b \notin Below(sub, c) /\ b \notin Below(sub, T.node[b][o])
      /\ a \notin Below(sub, T.node[a][s])
      /\ Below(sub, T.node[a][s]) \cap sub[b] = {}
      /\ Below(sub, c) \cap Below(sub, T.node[b][o]) = {}
  BY <1>1, <1>4, <1>16 DEF Joint, Below
<1>6. /\ sub2[a] = {a} \cup Below(sub, T.node[a][s]) \cup Below(sub, c)
      /\ sub2[b] = sub[a]
      /\ \A n \in M : n # a /\ n # b => sub2[n] = sub[n]
      /\ \A n \in M \cup {Null} : n # a /\ n # b => Below(sub2, n) = Below(sub, n)
      /\ Below(sub2, a) = sub2[a] /\ Below(sub2, b) = sub[a] /\ Below(sub, a) = sub[a]
  BY <1>0, <1>1, <1>2 DEF Below, SubTurned
<1>7. sub2 \in [M -> SUBSET M]
  <2>1. \A n \in M : n \in sub[n] /\ sub[n] \subseteq M
    BY <1>1, KidFacts
  <2>2. Below(sub, T.node[a][s]) \subseteq M /\ Below(sub, c) \subseteq M
    BY <1>3, <2>1 DEF Below
  <2> QED BY <1>0, <1>6, <2>1, <2>2 DEF SubTurned
(* The children, by side *)
<1>8. /\ U.node[a][s] = T.node[a][s] /\ U.node[a][o] = c
      /\ U.node[b][s] = a /\ U.node[b][o] = T.node[b][o]
      /\ U.node[a].parent = b /\ U.node[b].parent = q
  BY <1>1, <1>2, <1>16 DEF Rotated
<1>9. ASSUME NEW n \in M, n # a, n # b
      PROVE  \A t \in Links!Sides : U.node[n][t] = IF T.node[n][t] = a THEN b ELSE T.node[n][t]
  <2>1. \A t \in Links!Sides : T.node[n][t] = a => n = q
    BY <1>1, <1>16, ParentOf
  <2>2. U.node[n][s] = IF T.node[n][s] = a THEN b ELSE T.node[n][s]
    BY <1>1, <1>9, <2>1 DEF Rotated
  <2>3. U.node[n][o] = IF T.node[n][o] = a THEN b ELSE T.node[n][o]
    BY <1>1, <1>9, <2>1 DEF Rotated
  <2> QED BY <1>1, <2>2, <2>3
<1>10. ASSUME NEW n \in M, n # a, n # b, NEW t \in Links!Sides
       PROVE  /\ T.node[n][t] \in M \cup {Null} /\ T.node[n][t] # b
              /\ Below(sub2, U.node[n][t]) = Below(sub, T.node[n][t])
              /\ U.node[n][t] # Null => U.node[U.node[n][t]].parent = n
  <2>1. T.node[n][t] \in M \cup {Null}
    BY <1>1, TreesFacts
  <2>2. T.node[n][t] # b
    BY <1>1, <1>2, <1>10, <1>16, ParentOf
  <2>3. U.node[n][t] = IF T.node[n][t] = a THEN b ELSE T.node[n][t]
    BY <1>9, <1>10
  <2>4. Below(sub2, U.node[n][t]) = Below(sub, T.node[n][t])
    BY <1>6, <2>1, <2>2, <2>3
  <2>5. ASSUME U.node[n][t] # Null PROVE U.node[U.node[n][t]].parent = n
    <3>1. CASE T.node[n][t] = a
      <4>1. n = q
        BY <1>1, <1>10, <3>1, <1>16, ParentOf
      <4> QED BY <1>8, <2>3, <3>1, <4>1
    <3>2. CASE T.node[n][t] # a
      <4>1. PICK k \in M : k = T.node[n][t] /\ k = U.node[n][t] /\ k # a /\ k # b
        BY <2>1, <2>2, <2>3, <2>5, <3>2
      <4>2. T.node[k].parent = n
        <5>1. T.node[n][t] # Null
          BY <1>1, <4>1
        <5>2. T.node[T.node[n][t]].parent = n
          BY <1>1, <1>10, <5>1, KidParent
        <5> QED BY <4>1, <5>2
      <4>3. c # Null => T.node[c].parent = b
        BY <1>1, <1>16, ParentOf
      <4>4. k # c
        BY <1>1, <1>10, <4>1, <4>2, <4>3
      <4>5. U.node[k].parent = T.node[k].parent
        BY <4>1, <4>4 DEF Rotated
      <4> QED BY <4>1, <4>2, <4>5
    <3> QED BY <3>1, <3>2
  <2> QED BY <2>1, <2>2, <2>4, <2>5
(* The parents *)
<1>11. ASSUME NEW n \in M
       PROVE  /\ U.node[n].parent = Null => U.root = n
              /\ U.node[n].parent # Null =>
                    U.node[U.node[n].parent][s] = n \/ U.node[U.node[n].parent][o] = n
  <2>1. CASE n = a
    BY <1>1, <1>8, <2>1
  <2>2. CASE n = b
    <3>1. q = Null => U.root = b
      BY DEF Rotated
    <3>2. ASSUME q # Null PROVE U.node[q][s] = b \/ U.node[q][o] = b
      <4>1. PICK t \in Links!Sides : T.node[q][t] = a
        BY <1>1, <3>2, <1>16, HasParent
      <4>2. U.node[q][t] = b
        BY <1>2, <1>9, <3>2, <4>1
      <4> QED BY <1>1, <4>2
    <3> QED BY <1>8, <2>2, <3>1, <3>2
  <2>3. CASE n = c
    BY <1>1, <1>2, <1>8, <2>3 DEF Rotated
  <2>4. CASE n # a /\ n # b /\ n # c
    <3>1. PICK p \in M \cup {Null} : p = T.node[n].parent /\ p = U.node[n].parent
      BY <1>1, <2>4, TreesFacts DEF Rotated
    <3>2. ASSUME p = Null PROVE U.root = n
      <4>1. T.root = n /\ (q = Null => T.root = a)
        <5>1. T.node[n].parent = Null
          BY <3>1, <3>2
        <5>2. T.root = n
          BY <1>1, <5>1, OnlyRoot
        <5>3. T.node[a].parent = Null => T.root = a
          BY <1>1, OnlyRoot
        <5> QED BY <1>16, <5>2, <5>3
      <4> QED BY <2>4, <4>1 DEF Rotated
    <3>3. ASSUME p # Null PROVE U.node[p][s] = n \/ U.node[p][o] = n
      <4>1. PICK t \in Links!Sides : T.node[p][t] = n
        <5>1. T.node[n].parent # Null
          BY <3>1, <3>3
        <5>2. \E t \in Links!Sides : T.node[T.node[n].parent][t] = n
          BY <1>1, <5>1, HasParent
        <5> QED BY <3>1, <5>2
      <4>2. CASE p = a
        BY <1>1, <1>8, <1>16, <2>4, <4>1, <4>2
      <4>3. CASE p = b
        BY <1>1, <1>8, <1>16, <2>4, <4>1, <4>3
      <4>4. CASE p # a /\ p # b
        BY <1>1, <1>9, <2>4, <3>3, <4>1, <4>4
      <4> QED BY <4>2, <4>3, <4>4
    <3> QED BY <3>1, <3>2, <3>3
  <2> QED BY <2>1, <2>2, <2>3, <2>4
<1>12. ASSUME NEW n \in M PROVE Joint(U, sub2, n, s, o)
  <2>1. CASE n = a
    <3>1. /\ Below(sub2, T.node[a][s]) = Below(sub, T.node[a][s])
          /\ Below(sub2, c) = Below(sub, c)
      BY <1>2, <1>3, <1>6
    <3>2. T.node[a][s] # Null => U.node[T.node[a][s]].parent = a
      <4>1. T.node[a][s] # Null => T.node[T.node[a][s]].parent = a
        BY <1>4 DEF Joint
      <4> QED BY <1>2, <1>3, <4>1 DEF Rotated
    <3>3. c # Null => U.node[c].parent = a
      BY <1>2 DEF Rotated
    <3> QED BY <1>5, <1>6, <1>8, <1>11, <2>1, <3>1, <3>2, <3>3 DEF Joint
  <2>2. CASE n = b
    <3>1. Below(sub2, T.node[b][o]) = Below(sub, T.node[b][o])
      BY <1>2, <1>3, <1>6
    <3>2. T.node[b][o] # Null => U.node[T.node[b][o]].parent = b
      <4>1. T.node[b][o] # Null => T.node[T.node[b][o]].parent = b
        BY <1>4 DEF Joint
      <4>2. T.node[b][o] # Null => T.node[b][o] # c
        BY <1>2
      <4> QED BY <1>2, <1>3, <4>1, <4>2 DEF Rotated
    <3>3. sub2[b] = sub2[a] \cup {b} \cup Below(sub, T.node[b][o])
      BY <1>5, <1>6
    <3>4. b \notin sub2[a] /\ sub2[a] \cap Below(sub, T.node[b][o]) = {}
      <4>1. b \in sub[b] /\ Below(sub, T.node[b][o]) \subseteq sub[b]
        BY <1>5
      <4>2. b \notin Below(sub, T.node[a][s]) /\ b \notin Below(sub, c) /\ b # a
        BY <1>2, <1>5, <4>1
      <4>3. /\ Below(sub, T.node[a][s]) \cap Below(sub, T.node[b][o]) = {}
            /\ Below(sub, c) \cap Below(sub, T.node[b][o]) = {}
            /\ a \notin Below(sub, T.node[b][o])
        BY <1>5, <4>1
      <4> QED BY <1>6, <4>2, <4>3
    <3> QED BY <1>5, <1>6, <1>8, <1>11, <2>2, <3>1, <3>2, <3>3, <3>4 DEF Joint
  <2>3. CASE n # a /\ n # b
    <3>1. Joint(T, sub, n, s, o)
      BY <1>1, <1>16, KidFacts
    <3>2. sub2[n] = sub[n]
      BY <1>6, <2>3
    <3> QED BY <1>1, <1>10, <1>11, <2>3, <3>1, <3>2 DEF Joint
  <2> QED BY <2>1, <2>2, <2>3
<1>13. ASSUME NEW n \in M PROVE SortedAt(U, sub2, key, n, s, o)
  <2>0. \A m \in M : key[m] \in Int
    BY DEF Grown
  <2>1. CASE n = a
    <3>1. /\ Below(sub2, T.node[a][s]) = Below(sub, T.node[a][s])
          /\ Below(sub2, c) = Below(sub, c) /\ Below(sub, c) \subseteq sub[b]
          /\ Below(sub, b) = sub[b]
      BY <1>1, <1>2, <1>3, <1>5, <1>6 DEF Below
    <3> QED BY <1>4, <1>8, <1>16, <2>1, <3>1 DEF SortedAt
  <2>2. CASE n = b
    <3>1. Below(sub2, T.node[b][o]) = Below(sub, T.node[b][o])
      BY <1>2, <1>3, <1>6
    <3>2. Before(s, key[a], key[b])
      <4>1. b \in Below(sub, T.node[a][o])
        BY <1>1, <1>5, <1>16 DEF Below
      <4>2. Before(o, key[b], key[a])
        BY <1>4, <4>1 DEF SortedAt
      <4> QED BY <1>1, <1>16, <2>0, <4>2, SidesFacts
    <3>3. \A m \in sub2[a] : Before(s, key[m], key[b])
      <4>1. \A m \in Below(sub, T.node[a][s]) : m \in M /\ Before(s, key[m], key[a])
        BY <1>1, <1>4, <1>5, KidFacts DEF SortedAt
      <4>2. \A m \in Below(sub, T.node[a][s]) : Before(s, key[m], key[b])
        BY <2>0, <3>2, <4>1, SidesFacts
      <4>3. \A m \in Below(sub, c) : Before(s, key[m], key[b])
        BY <1>4, <1>16 DEF SortedAt
      <4> QED BY <1>6, <3>2, <4>2, <4>3
    <3> QED BY <1>4, <1>6, <1>8, <2>2, <3>1, <3>3 DEF SortedAt
  <2>3. CASE n # a /\ n # b
    <3>1. SortedAt(T, sub, key, n, s, o)
      BY <1>1, <1>16, SortedSides
    <3> QED BY <1>1, <1>10, <2>3, <3>1 DEF SortedAt
  <2> QED BY <2>1, <2>2, <2>3
<1>14. Top(M, U, sub2)
  <2>1. M # {} /\ T.root # Null /\ T.node[T.root].parent = Null /\ sub[T.root] = M
    BY <1>1 DEF Top
  <2>2. CASE q = Null
    <3>1. T.root = a
      BY <1>1, <2>2, <1>16, OnlyRoot
    <3> QED BY <1>1, <1>6, <1>8, <2>1, <2>2, <3>1 DEF Top, Rotated
  <2>3. CASE q # Null
    <3>1. PICK r \in M : r = T.root /\ r = U.root
      BY <1>1, <2>1, <2>3, TreesFacts DEF Rotated
    <3>2. T.node[r].parent = Null /\ (c # Null => T.node[c].parent = b)
      BY <1>1, <2>1, <3>1, <1>16, ParentOf
    <3>3. r # a /\ r # b /\ r # c
      BY <1>1, <1>2, <1>16, <2>3, <3>1, <3>2
    <3>4. U.node[r].parent = Null /\ sub2[r] = M
      BY <1>1, <1>6, <2>1, <3>1, <3>2, <3>3 DEF Rotated
    <3> QED BY <1>1, <3>1, <3>4 DEF Top
  <2> QED BY <2>2, <2>3
<1>15. ASSUME NEW n \in M
       PROVE  Joint(U, sub2, n, "left", "right") /\ SortedAt(U, sub2, key, n, "left", "right")
  <2>1. Joint(U, sub2, n, s, o) /\ SortedAt(U, sub2, key, n, s, o)
    BY <1>12, <1>13
  <2>2. (s = "left" /\ o = "right") \/ (s = "right" /\ o = "left")
    BY <1>16 DEF Links!Sides, Links!Other
  <2>3. CASE s = "left" /\ o = "right"
    BY <2>1, <2>3
  <2>4. CASE s = "right" /\ o = "left"
    BY <2>1, <2>4 DEF Joint, SortedAt
  <2> QED BY <2>2, <2>3, <2>4
<1> QED BY <1>0, <1>1, <1>7, <1>14, <1>15 DEF Grown, Shape
LEMMA RotateKeeps ==
    ASSUME NEW M, NEW key, NEW T, IsTree(M, T, key), NEW a \in M, NEW s \in Links!Sides,
           NEW U, U = Links!Rotate(T, a, s)
    PROVE  IsTree(M, U, key) /\ U.crashed = T.crashed
<1>1. PICK sub : Grown(M, T, sub, key)
  BY DEF IsTree
<1>2. PICK o, b : o = Links!Other(s) /\ b = T.node[a][o]
  OBVIOUS
<1>3. /\ Shape(M, T, sub) /\ Null \notin M /\ T \in Trees(M) /\ Top(M, T, sub) /\ IsFiniteSet(M)
      /\ sub \in [M -> SUBSET M]
      /\ s # o /\ o \in Links!Sides /\ Links!Sides = {s, o} /\ s = Links!Other(o)
  BY <1>1, <1>2, SidesFacts DEF Grown, Shape
<1>4. CASE b = Null
  BY <1>2, <1>4 DEF Links!Rotate
<1>5. CASE b # Null
  <2>1. b \in M
    BY <1>2, <1>3, <1>5, TreesFacts
  <2>2. PICK c, q : c = T.node[b][s] /\ q = T.node[a].parent
    OBVIOUS
  <2>4. /\ U \in Trees(M) /\ Rotated(M, T, U, a, s, o, b, c, q)
    BY <1>2, <1>3, <2>1, <2>2, RotateActs
  <2>5. Turn(T, a, s, o, b, c, q)
    BY <1>2, <2>2 DEF Turn
  <2>6. /\ c \in M \cup {Null} /\ q \in M \cup {Null} /\ a # Null
        /\ T.node[a][s] \in M \cup {Null} /\ T.node[b][o] \in M \cup {Null}
    BY <1>3, <2>1, <2>2, TreesFacts
  <2>8. Grown(M, U, SubTurned(M, T, sub, a, s, b, c), key)
    BY <1>1, <1>2, <1>3, <2>1, <2>2, <2>4, <2>5, <2>6, RotatedGrown
  <2> QED BY <2>4, <2>8 DEF IsTree, Rotated
<1> QED BY <1>4, <1>5
-----------------------------------------------------------------------------
(* The repairs: painting and turning, round after round *)

(* The links alone make the tree. *)
LEMMA SameLinks ==
    ASSUME NEW M, NEW sub, NEW T, NEW key, Grown(M, T, sub, key),
           NEW U \in Trees(M), U.root = T.root, SameSides(M, T, U), SameParents(M, T, U)
    PROVE  Grown(M, U, sub, key)
<1>1. /\ IsFiniteSet(M) /\ Null \notin M /\ T \in Trees(M) /\ sub \in [M -> SUBSET M]
      /\ Top(M, T, sub) /\ \A n \in M : Joint(T, sub, n, "left", "right")
      /\ \A n \in M : key[n] \in Int
      /\ \A n \in M : SortedAt(T, sub, key, n, "left", "right")
  BY DEF Grown, Shape
<1>2. "left" \in Links!Sides /\ "right" \in Links!Sides
  BY DEF Links!Sides
<1>3. \A n \in M : /\ U.node[n]["left"] = T.node[n]["left"]
                   /\ U.node[n]["right"] = T.node[n]["right"]
                   /\ U.node[n].parent = T.node[n].parent
                   /\ T.node[n]["left"] \in M \cup {Null} /\ T.node[n]["right"] \in M \cup {Null}
                   /\ T.node[n].parent \in M \cup {Null}
  BY <1>1, <1>2, TreesFacts DEF SameSides, SameParents
<1>4. ASSUME NEW n \in M PROVE Joint(U, sub, n, "left", "right")
  <2>1. Joint(T, sub, n, "left", "right")
    BY <1>1
  <2> QED BY <1>1, <1>3, <2>1 DEF Joint
<1>5. ASSUME NEW n \in M PROVE SortedAt(U, sub, key, n, "left", "right")
  BY <1>1, <1>3 DEF SortedAt
<1>6. Top(M, U, sub)
  <2>1. CASE M = {}
    BY <1>1, <2>1 DEF Top
  <2>2. CASE M # {}
    <3>1. T.root \in M
      BY <1>1, <2>2, TreesFacts DEF Top
    <3> QED BY <1>1, <1>3, <2>2, <3>1 DEF Top
  <2> QED BY <2>1, <2>2
<1> QED BY <1>1, <1>4, <1>5, <1>6 DEF Grown, Shape

LEMMA IsTreeFacts ==
    ASSUME NEW M, NEW T, NEW key, IsTree(M, T, key)
    PROVE  /\ T \in Trees(M) /\ Null \notin M /\ IsFiniteSet(M)
           /\ T.root \in M \cup {Null} /\ (M # {} => T.root \in M)
           /\ \A n \in M : /\ T.node[n].parent \in M \cup {Null}
                           /\ n # T.root => T.node[n].parent \in M
                           /\ \A s \in Links!Sides : T.node[n][s] \in M \cup {Null}
                           /\ T.node[n].red \in BOOLEAN
<1>1. PICK sub : Shape(M, T, sub)
  BY DEF IsTree, Grown
<1>2. T \in Trees(M) /\ Null \notin M /\ IsFiniteSet(M) /\ Top(M, T, sub)
  BY <1>1 DEF Shape
<1>3. \A n \in M : T.node[n].parent = Null <=> T.root = n
  BY <1>1, OnlyRoot
<1>4. M # {} => T.root \in M
  BY <1>2, TreesFacts DEF Top
<1> QED BY <1>2, <1>3, <1>4, TreesFacts

LEMMA PaintKeeps ==
    ASSUME NEW M, NEW T, NEW key, IsTree(M, T, key), NEW n \in M \cup {Null},
           NEW red \in BOOLEAN, NEW U, U = Links!Paint(T, n, red)
    PROVE  /\ IsTree(M, U, key) /\ SameTop(T, U) /\ SameSides(M, T, U) /\ SameParents(M, T, U)
<1>1. PICK sub : Grown(M, T, sub, key)
  BY DEF IsTree
<1>2. T \in Trees(M) /\ Null \notin M
  BY IsTreeFacts
<1>3. /\ U \in Trees(M)
      /\ SameTop(T, U) /\ SameSides(M, T, U) /\ SameParents(M, T, U)
  BY <1>2, PaintActs
<1>4. Grown(M, U, sub, key)
  BY <1>1, <1>3, SameLinks DEF SameTop
<1> QED BY <1>3, <1>4 DEF IsTree

LEMMA CrashKeeps ==
    ASSUME NEW M, NEW T, NEW key, IsTree(M, T, key)
    PROVE  IsTree(M, Links!Crash(T), key)
<1>1. PICK sub : Grown(M, T, sub, key)
  BY DEF IsTree
<1>2. PICK U : U = Links!Crash(T)
  OBVIOUS
<1>3. T \in Trees(M)
  BY IsTreeFacts
<1>4. U \in Trees(M) /\ U.root = T.root /\ SameSides(M, T, U) /\ SameParents(M, T, U)
  BY <1>2, <1>3 DEF Trees, Links!Crash, SameSides, SameParents
<1>5. Grown(M, U, sub, key)
  BY <1>1, <1>4, SameLinks
<1> QED BY <1>2, <1>5 DEF IsTree

(* The places the two loops can be at: anywhere in a tree of these nodes *)
Climbs(M, key) == {s \in [tree : Trees(M), at : M \cup {Null}] : IsTree(M, s.tree, key)}

LEMMA ClimbsFacts ==
    ASSUME NEW M, NEW key, NEW T, IsTree(M, T, key)
    PROVE  /\ Links!Ended(T) \in Climbs(M, key)
           /\ \A n \in M \cup {Null} : Links!Climbing(T, n) \in Climbs(M, key)
<1>1. T \in Trees(M)
  BY IsTreeFacts
<1> QED BY <1>1 DEF Climbs, Links!Ended, Links!Climbing

LEMMA IsRedIsBoolean ==
    ASSUME NEW T, NEW n, NEW M, T \in Trees(M)
    PROVE  Links!IsRed(T, n) \in BOOLEAN /\ (Links!IsRed(T, n) => n \in M)
BY TreesFacts DEF Links!IsRed

LEMMA InsertRoundKeeps ==
    ASSUME NEW M, NEW key, NEW r \in Climbs(M, key)
    PROVE  Links!InsertRound(r) \in Climbs(M, key)
<1>1. PICK T, z : T = r.tree /\ z = r.at
  OBVIOUS
<1>2. IsTree(M, T, key) /\ T \in Trees(M) /\ z \in M \cup {Null} /\ Null \notin M
  BY <1>1, IsTreeFacts DEF Climbs
<1>3. PICK p : p = T.node[z].parent
  OBVIOUS
<1>4. PICK g : g = T.node[p].parent
  OBVIOUS
<1>5. PICK side : side = IF T.node[g].left = p THEN "left" ELSE "right"
  OBVIOUS
<1>6. PICK uncle : uncle = T.node[g][Links!Other(side)]
  OBVIOUS
<1>7. PICK inner \in BOOLEAN : inner = (T.node[p][Links!Other(side)] = z)
  OBVIOUS
<1>8. PICK T1 : T1 = IF inner THEN Links!Rotate(T, p, side) ELSE T
  OBVIOUS
<1>9. PICK top : top = IF inner THEN z ELSE p
  OBVIOUS
<1>10. side \in Links!Sides /\ Links!Other(side) \in Links!Sides
  BY <1>5 DEF Links!Sides, Links!Other
<1>11. Links!InsertRound(r) =
         IF z = Null THEN r
         ELSE IF z = T.root \/ ~ Links!IsRed(T, p)
              THEN Links!Ended(Links!Paint(T, T.root, FALSE))
         ELSE IF g = Null THEN Links!Ended(Links!Crash(T))
         ELSE IF Links!IsRed(T, uncle)
              THEN Links!Climbing(Links!Paint(Links!Paint(Links!Paint(T, p, FALSE), uncle, FALSE),
                                              g, TRUE), g)
         ELSE Links!Climbing(Links!Rotate(Links!Paint(Links!Paint(T1, top, FALSE), g, TRUE),
                                          g, Links!Other(side)), IF inner THEN p ELSE z)
  BY <1>1, <1>3, <1>4, <1>5, <1>6, <1>7, <1>8, <1>9 DEF Links!InsertRound
<1>12. CASE z = Null
  BY <1>11, <1>12
<1>13. CASE z # Null /\ (z = T.root \/ ~ Links!IsRed(T, p))
  <2>1. IsTree(M, Links!Paint(T, T.root, FALSE), key)
    <3>1. T.root \in M \cup {Null}
      BY <1>2, IsTreeFacts
    <3> QED BY <1>2, <3>1, PaintKeeps
  <2> QED BY <1>11, <1>13, <2>1, ClimbsFacts
<1>14. CASE /\ z # Null /\ z # T.root /\ Links!IsRed(T, p) /\ g = Null
  BY <1>2, <1>11, <1>14, CrashKeeps, ClimbsFacts
<1>15. CASE /\ z # Null /\ z # T.root /\ Links!IsRed(T, p) /\ g # Null
            /\ Links!IsRed(T, uncle)
  <2>1. p \in M /\ uncle \in M
    BY <1>2, <1>15, IsRedIsBoolean
  <2>2. g \in M
    BY <1>2, <1>4, <1>15, <2>1, IsTreeFacts
  <2>3. IsTree(M, Links!Paint(T, p, FALSE), key)
    BY <1>2, <2>1, PaintKeeps
  <2>4. IsTree(M, Links!Paint(Links!Paint(T, p, FALSE), uncle, FALSE), key)
    BY <2>1, <2>3, PaintKeeps
  <2>5. IsTree(M, Links!Paint(Links!Paint(Links!Paint(T, p, FALSE), uncle, FALSE), g, TRUE), key)
    BY <2>2, <2>4, PaintKeeps
  <2> QED BY <1>11, <1>15, <2>2, <2>5, ClimbsFacts
<1>16. CASE /\ z # Null /\ z # T.root /\ Links!IsRed(T, p) /\ g # Null
            /\ ~ Links!IsRed(T, uncle)
  <2>1. p \in M /\ z \in M /\ top \in M
    BY <1>2, <1>9, <1>16, IsRedIsBoolean
  <2>2. g \in M
    BY <1>2, <1>4, <1>16, <2>1, IsTreeFacts
  <2>3. IsTree(M, T1, key)
    <3>1. IsTree(M, Links!Rotate(T, p, side), key)
      BY <1>2, <1>10, <2>1, RotateKeeps
    <3> QED BY <1>2, <1>8, <3>1
  <2>4. IsTree(M, Links!Paint(T1, top, FALSE), key)
    BY <2>1, <2>3, PaintKeeps
  <2>5. IsTree(M, Links!Paint(Links!Paint(T1, top, FALSE), g, TRUE), key)
    BY <2>2, <2>4, PaintKeeps
  <2>6. IsTree(M, Links!Rotate(Links!Paint(Links!Paint(T1, top, FALSE), g, TRUE),
                               g, Links!Other(side)), key)
    BY <1>10, <2>2, <2>5, RotateKeeps
  <2> QED BY <1>11, <1>16, <2>1, <2>6, ClimbsFacts
<1> QED BY <1>12, <1>13, <1>14, <1>15, <1>16
(* What a rotation of a to the side s does next to a *)
LEMMA RotateNear ==
    ASSUME NEW M, NEW key, NEW T, IsTree(M, T, key), NEW a \in M, NEW s \in Links!Sides,
           NEW U, U = Links!Rotate(T, a, s)
    PROVE  /\ U.node[a][s] = T.node[a][s]
           /\ \A p \in M, t \in Links!Sides :
                 T.node[p][t] = a /\ T.node[a][Links!Other(s)] # Null
                    => U.node[p][t] = T.node[a][Links!Other(s)]
<1>1. PICK sub : Shape(M, T, sub)
  BY DEF IsTree, Grown
<1>2. PICK o, b : o = Links!Other(s) /\ b = T.node[a][o]
  OBVIOUS
<1>3. CASE b = Null
  BY <1>2, <1>3 DEF Links!Rotate
<1>4. CASE b # Null
  <2>1. /\ Null \notin M /\ T \in Trees(M) /\ b \in M
        /\ s # o /\ o \in Links!Sides /\ Links!Sides = {s, o}
    BY <1>1, <1>2, <1>4, TreesFacts, SidesFacts DEF Shape
  <2>2. PICK c, q : c = T.node[b][s] /\ q = T.node[a].parent
    OBVIOUS
  <2>3. a # b /\ q # a /\ q # b
    BY <1>1, <1>2, <2>1, <2>2, RotationApart
  <2>4. Rotated(M, T, U, a, s, o, b, c, q)
    BY <1>1, <1>2, <2>1, <2>2, RotateActs
  <2>5. U.node[a][s] = T.node[a][s]
    BY <2>3, <2>4 DEF Rotated
  <2>6. ASSUME NEW p \in M, NEW t \in Links!Sides, T.node[p][t] = a
        PROVE  U.node[p][t] = b
    <3>1. p = q
      BY <1>1, <2>2, <2>6, ParentOf
    <3>2. CASE t = s
      BY <2>3, <2>4, <2>6, <3>1, <3>2 DEF Rotated
    <3>3. CASE t = o
      BY <2>3, <2>4, <2>6, <3>1, <3>3 DEF Rotated
    <3> QED BY <2>1, <3>2, <3>3
  <2> QED BY <1>2, <2>5, <2>6
<1> QED BY <1>3, <1>4

LEMMA FirstCaseKeeps ==
    ASSUME NEW M, NEW key, NEW T, IsTree(M, T, key), NEW p \in M, NEW side \in Links!Sides
    PROVE  IsTree(M, Links!FirstCase(T, p, side), key)
<1>1. PICK w : w = Links!Sibling(T, p, side)
  OBVIOUS
<1>2. w \in M \cup {Null} /\ T \in Trees(M)
  BY <1>1, IsTreeFacts, SidesFacts DEF Links!Sibling
<1>3. IsTree(M, Links!Paint(T, w, FALSE), key)
  BY <1>2, PaintKeeps
<1>4. IsTree(M, Links!Paint(Links!Paint(T, w, FALSE), p, TRUE), key)
  BY <1>3, PaintKeeps
<1>5. IsTree(M, Links!Rotate(Links!Paint(Links!Paint(T, w, FALSE), p, TRUE), p, side), key)
  BY <1>4, RotateKeeps
<1> QED BY <1>1, <1>5 DEF Links!FirstCase

(* The third case leaves p a child beside x: the fourth needs one. *)
LEMMA ThirdCaseKeeps ==
    ASSUME NEW M, NEW key, NEW T, IsTree(M, T, key), NEW p \in M, NEW side \in Links!Sides,
           NEW w \in M, w = Links!Sibling(T, p, side), T.node[w][side] # Null,
           NEW U, U = Links!ThirdCase(T, p, side)
    PROVE  IsTree(M, U, key) /\ Links!Sibling(U, p, side) # Null
<1>1. PICK o, c : o = Links!Other(side) /\ c = T.node[w][side]
  OBVIOUS
<1>2. /\ o \in Links!Sides /\ side = Links!Other(o) /\ Null \notin M /\ c \in M
      /\ T.node[p][o] = w
  BY <1>1, IsTreeFacts, SidesFacts DEF Links!Sibling
<1>3. PICK T1 : T1 = Links!Paint(T, c, FALSE)
  OBVIOUS
<1>4. PICK T2 : T2 = Links!Paint(T1, w, TRUE)
  OBVIOUS
<1>5. IsTree(M, T1, key) /\ SameSides(M, T, T1)
  BY <1>2, <1>3, PaintKeeps
<1>6. IsTree(M, T2, key) /\ SameSides(M, T1, T2)
  BY <1>4, <1>5, PaintKeeps
<1>7. T2.node[w][side] = c /\ T2.node[p][o] = w
  BY <1>1, <1>2, <1>5, <1>6 DEF SameSides
<1>8. U = Links!Rotate(T2, IF side = "left" THEN w ELSE p, o)
  BY <1>1, <1>3, <1>4 DEF Links!ThirdCase
<1>9. CASE side = "left"
  <2>1. U = Links!Rotate(T2, w, o)
    BY <1>8, <1>9
  <2>2. IsTree(M, U, key)
    BY <1>2, <1>6, <2>1, RotateKeeps
  <2>3. U.node[p][o] = c
    BY <1>2, <1>6, <1>7, <2>1, RotateNear
  <2> QED BY <1>1, <1>2, <2>2, <2>3 DEF Links!Sibling
<1>10. CASE side # "left"
  <2>1. U = Links!Rotate(T2, p, o)
    BY <1>8, <1>10
  <2>2. IsTree(M, U, key)
    BY <1>2, <1>6, <2>1, RotateKeeps
  <2>3. U.node[p][o] = w
    BY <1>2, <1>6, <1>7, <2>1, RotateNear
  <2> QED BY <1>1, <1>2, <2>2, <2>3 DEF Links!Sibling
<1> QED BY <1>9, <1>10

LEMMA FourthCaseKeeps ==
    ASSUME NEW M, NEW key, NEW T, IsTree(M, T, key), NEW p \in M, NEW side \in Links!Sides,
           Links!Sibling(T, p, side) # Null
    PROVE  IsTree(M, Links!FourthCase(T, p, side), key)
<1>1. PICK w : w = Links!Sibling(T, p, side)
  OBVIOUS
<1>2. PICK out : out = Links!Sibling(T, w, side)
  OBVIOUS
<1>3. PICK red : red = T.node[p].red
  OBVIOUS
<1>4. w \in M /\ out \in M \cup {Null} /\ red \in BOOLEAN
  <2>1. Links!Other(side) \in Links!Sides
    BY SidesFacts
  <2>2. w \in M
    BY <1>1, <2>1, IsTreeFacts DEF Links!Sibling
  <2>3. out \in M \cup {Null}
    BY <1>2, <2>1, <2>2, IsTreeFacts DEF Links!Sibling
  <2> QED BY <1>3, <2>2, <2>3, IsTreeFacts
<1>5. IsTree(M, Links!Paint(T, w, red), key)
  BY <1>4, PaintKeeps
<1>6. IsTree(M, Links!Paint(Links!Paint(T, w, red), p, FALSE), key)
  BY <1>5, PaintKeeps
<1>7. IsTree(M, Links!Paint(Links!Paint(Links!Paint(T, w, red), p, FALSE), out, FALSE), key)
  BY <1>4, <1>6, PaintKeeps
<1>8. IsTree(M, Links!Rotate(Links!Paint(Links!Paint(Links!Paint(T, w, red), p, FALSE), out, FALSE),
                             p, side), key)
  BY <1>7, RotateKeeps
<1> QED BY <1>1, <1>2, <1>3, <1>8, CrashKeeps DEF Links!FourthCase

LEMMA OtherCasesKeep ==
    ASSUME NEW M, NEW key, NEW T, IsTree(M, T, key), NEW p \in M, NEW side \in Links!Sides
    PROVE  Links!OtherCases(T, p, side) \in Climbs(M, key)
<1>1. PICK w, o : w = Links!Sibling(T, p, side) /\ o = Links!Other(side)
  OBVIOUS
<1>2. o \in Links!Sides /\ w \in M \cup {Null} /\ T \in Trees(M) /\ Null \notin M
  BY <1>1, IsTreeFacts, SidesFacts DEF Links!Sibling
<1>3. PICK inner \in BOOLEAN : inner = (w # Null /\ Links!IsRed(T, T.node[w][side]))
  OBVIOUS
<1>4. PICK outer \in BOOLEAN : outer = (w # Null /\ Links!IsRed(T, T.node[w][o]))
  OBVIOUS
<1>5. Links!OtherCases(T, p, side) =
         IF inner \/ outer
         THEN Links!Ended(Links!FourthCase(IF outer THEN T ELSE Links!ThirdCase(T, p, side), p, side))
         ELSE Links!Climbing(Links!Paint(T, w, TRUE), p)
  BY <1>1, <1>3, <1>4 DEF Links!OtherCases
<1>6. CASE outer
  <2>1. IsTree(M, Links!FourthCase(T, p, side), key)
    BY <1>1, <1>4, <1>6, FourthCaseKeeps
  <2> QED BY <1>5, <1>6, <2>1, ClimbsFacts
<1>7. CASE inner /\ ~ outer
  <2>1. PICK U : U = Links!ThirdCase(T, p, side)
    OBVIOUS
  <2>2. w \in M /\ T.node[w][side] \in M
    BY <1>2, <1>3, <1>7, IsRedIsBoolean
  <2>3. IsTree(M, U, key) /\ Links!Sibling(U, p, side) # Null
    BY <1>1, <1>2, <2>1, <2>2, ThirdCaseKeeps
  <2>4. IsTree(M, Links!FourthCase(U, p, side), key)
    BY <2>3, FourthCaseKeeps
  <2> QED BY <1>5, <1>7, <2>1, <2>4, ClimbsFacts
<1>8. CASE ~ inner /\ ~ outer
  <2>1. IsTree(M, Links!Paint(T, w, TRUE), key)
    BY <1>2, PaintKeeps
  <2> QED BY <1>5, <1>8, <2>1, ClimbsFacts
<1> QED BY <1>6, <1>7, <1>8

LEMMA RemoveRoundKeeps ==
    ASSUME NEW M, NEW key, NEW r \in Climbs(M, key)
    PROVE  Links!RemoveRound(r) \in Climbs(M, key)
<1>1. PICK T, x : T = r.tree /\ x = r.at
  OBVIOUS
<1>2. IsTree(M, T, key) /\ T \in Trees(M) /\ x \in M \cup {Null} /\ Null \notin M
  BY <1>1, IsTreeFacts DEF Climbs
<1>3. PICK p : p = T.node[x].parent
  OBVIOUS
<1>4. PICK side : side = IF T.node[p].left = x THEN "left" ELSE "right"
  OBVIOUS
<1>5. side \in Links!Sides
  BY <1>4 DEF Links!Sides
<1>6. Links!RemoveRound(r) =
         IF x = Null THEN r
         ELSE IF x = T.root \/ Links!IsRed(T, x) THEN Links!Ended(Links!Paint(T, x, FALSE))
         ELSE IF Links!Sibling(T, p, side) = Null THEN Links!Climbing(T, p)
         ELSE Links!OtherCases(Links!FirstCase(T, p, side), p, side)
  BY <1>1, <1>3, <1>4 DEF Links!RemoveRound
<1>7. CASE x = Null
  BY <1>6, <1>7
<1>8. CASE x # Null /\ (x = T.root \/ Links!IsRed(T, x))
  <2>1. IsTree(M, Links!Paint(T, x, FALSE), key)
    BY <1>2, PaintKeeps
  <2> QED BY <1>6, <1>8, <2>1, ClimbsFacts
<1>9. CASE x # Null /\ x # T.root /\ ~ Links!IsRed(T, x)
  <2>1. p \in M
    BY <1>2, <1>3, <1>9, IsTreeFacts
  <2>2. Links!Climbing(T, p) \in Climbs(M, key)
    BY <1>2, <2>1, ClimbsFacts
  <2>3. Links!OtherCases(Links!FirstCase(T, p, side), p, side) \in Climbs(M, key)
    BY <1>2, <1>5, <2>1, FirstCaseKeeps, OtherCasesKeep
  <2> QED BY <1>6, <1>9, <2>2, <2>3
<1> QED BY <1>7, <1>8, <1>9
(* The trees count their nodes as the standard module does. *)
LEMMA SameCardinality == ASSUME NEW S PROVE Links!Cardinality(S) = Cardinality(S)
BY DEF Links!Cardinality, Cardinality

(* Both loops keep what their rounds keep.  A round is an operator, so     *)
(* each loop has its own proof.                                            *)
LEMMA InsertLoop ==
    ASSUME NEW S, NEW s \in S, NEW n \in Nat, \A x \in S : Links!InsertRound(x) \in S
    PROVE  Links!Loop(Links!InsertRound, s, n) \in S
<1> DEFINE After(f, m) == f = [k \in 0..m |-> IF k = 0 THEN s ELSE Links!InsertRound(f[k - 1])]
           R == {m \in Nat : \E f : After(f, m) /\ \A k \in 0..m : f[k] \in S}
<1>1. 0 \in R
  <2>1. PICK f : f = [k \in 0..0 |-> s]
    OBVIOUS
  <2>2. After(f, 0)
    BY <2>1
  <2> QED BY <2>1, <2>2
<1>2. ASSUME NEW m \in Nat, m \in R PROVE m + 1 \in R
  <2>1. PICK f : After(f, m) /\ \A k \in 0..m : f[k] \in S
    BY <1>2
  <2>2. PICK g : g = [k \in 0..(m + 1) |-> IF k = m + 1 THEN Links!InsertRound(f[m]) ELSE f[k]]
    OBVIOUS
  <2>3. \A k \in 0..(m + 1) : g[k] \in S
    <3>1. Links!InsertRound(f[m]) \in S
      BY <2>1
    <3> QED BY <2>1, <2>2, <3>1
  <2>4. ASSUME NEW k \in 0..(m + 1)
        PROVE  g[k] = IF k = 0 THEN s ELSE Links!InsertRound(g[k - 1])
    <3>1. CASE k = m + 1
      BY <2>2, <3>1
    <3>2. CASE k # m + 1
      <4>1. k \in 0..m /\ (k # 0 => k - 1 \in 0..m)
        BY <3>2
      <4>2. f[k] = IF k = 0 THEN s ELSE Links!InsertRound(f[k - 1])
        BY <2>1, <4>1
      <4> QED BY <2>2, <3>2, <4>1, <4>2
    <3> QED BY <3>1, <3>2
  <2>5. After(g, m + 1)
    <3>1. g = [k \in 0..(m + 1) |-> g[k]]
      BY <2>2
    <3> QED BY <2>4, <3>1
  <2> HIDE DEF After
  <2> QED BY <2>3, <2>5
<1> HIDE DEF R
<1>3. Nat \subseteq R
  BY <1>1, <1>2, NatSet
<1>4. \E f : After(f, n)
  BY <1>3 DEF R
<1>5. PICK f : f = CHOOSE h : After(h, n)
  OBVIOUS
<1>6. Links!Loop(Links!InsertRound, s, n) = f[n]
  BY <1>5 DEF Links!Loop
<1>10. After(f, n)
  <2> HIDE DEF After
  <2> QED BY <1>4, <1>5
<1>11. \A k \in 0..n : f[k] = IF k = 0 THEN s ELSE Links!InsertRound(f[k - 1])
  BY <1>10
<1> DEFINE Q == {k \in Nat : k <= n => f[k] \in S}
<1>7. 0 \in Q
  BY <1>11
<1>8. ASSUME NEW k \in Nat, k \in Q PROVE k + 1 \in Q
  <2>1. CASE k + 1 <= n
    <3>1. f[k + 1] = Links!InsertRound(f[(k + 1) - 1])
      BY <1>11, <2>1
    <3>2. f[k] \in S /\ (k + 1) - 1 = k
      BY <1>8, <2>1
    <3> QED BY <3>1, <3>2
  <2> QED BY <2>1
<1> HIDE DEF Q, After
<1>9. Nat \subseteq Q
  BY <1>7, <1>8, NatSet
<1> QED BY <1>6, <1>9 DEF Q

LEMMA RepairInsertKeeps ==
    ASSUME NEW M, NEW key, NEW T, IsTree(M, T, key), NEW z \in M
    PROVE  IsTree(M, Links!RepairInsert(T, z), key)
<1>1. Links!Climbing(T, z) \in Climbs(M, key)
  BY ClimbsFacts
<1>2. Links!Members(T) = M /\ Links!Cardinality(M) \in Nat
  BY IsTreeFacts, TreesFacts, FS_CardinalityType, SameCardinality
<1>3. \A x \in Climbs(M, key) : Links!InsertRound(x) \in Climbs(M, key)
  BY InsertRoundKeeps
<1>4. Links!Loop(Links!InsertRound, Links!Climbing(T, z), Links!Cardinality(Links!Members(T))) \in Climbs(M, key)
  BY <1>1, <1>2, <1>3, InsertLoop
<1>5. Links!RepairInsert(T, z) =
         Links!Loop(Links!InsertRound, Links!Climbing(T, z), Links!Cardinality(Links!Members(T))).tree
  BY DEF Links!RepairInsert
<1> QED BY <1>4, <1>5 DEF Climbs

LEMMA RemoveLoop ==
    ASSUME NEW S, NEW s \in S, NEW n \in Nat, \A x \in S : Links!RemoveRound(x) \in S
    PROVE  Links!Loop(Links!RemoveRound, s, n) \in S
<1> DEFINE After(f, m) == f = [k \in 0..m |-> IF k = 0 THEN s ELSE Links!RemoveRound(f[k - 1])]
           R == {m \in Nat : \E f : After(f, m) /\ \A k \in 0..m : f[k] \in S}
<1>1. 0 \in R
  <2>1. PICK f : f = [k \in 0..0 |-> s]
    OBVIOUS
  <2>2. After(f, 0)
    BY <2>1
  <2> QED BY <2>1, <2>2
<1>2. ASSUME NEW m \in Nat, m \in R PROVE m + 1 \in R
  <2>1. PICK f : After(f, m) /\ \A k \in 0..m : f[k] \in S
    BY <1>2
  <2>2. PICK g : g = [k \in 0..(m + 1) |-> IF k = m + 1 THEN Links!RemoveRound(f[m]) ELSE f[k]]
    OBVIOUS
  <2>3. \A k \in 0..(m + 1) : g[k] \in S
    <3>1. Links!RemoveRound(f[m]) \in S
      BY <2>1
    <3> QED BY <2>1, <2>2, <3>1
  <2>4. ASSUME NEW k \in 0..(m + 1)
        PROVE  g[k] = IF k = 0 THEN s ELSE Links!RemoveRound(g[k - 1])
    <3>1. CASE k = m + 1
      BY <2>2, <3>1
    <3>2. CASE k # m + 1
      <4>1. k \in 0..m /\ (k # 0 => k - 1 \in 0..m)
        BY <3>2
      <4>2. f[k] = IF k = 0 THEN s ELSE Links!RemoveRound(f[k - 1])
        BY <2>1, <4>1
      <4> QED BY <2>2, <3>2, <4>1, <4>2
    <3> QED BY <3>1, <3>2
  <2>5. After(g, m + 1)
    <3>1. g = [k \in 0..(m + 1) |-> g[k]]
      BY <2>2
    <3> QED BY <2>4, <3>1
  <2> HIDE DEF After
  <2> QED BY <2>3, <2>5
<1> HIDE DEF R
<1>3. Nat \subseteq R
  BY <1>1, <1>2, NatSet
<1>4. \E f : After(f, n)
  BY <1>3 DEF R
<1>5. PICK f : f = CHOOSE h : After(h, n)
  OBVIOUS
<1>6. Links!Loop(Links!RemoveRound, s, n) = f[n]
  BY <1>5 DEF Links!Loop
<1>10. After(f, n)
  <2> HIDE DEF After
  <2> QED BY <1>4, <1>5
<1>11. \A k \in 0..n : f[k] = IF k = 0 THEN s ELSE Links!RemoveRound(f[k - 1])
  BY <1>10
<1> DEFINE Q == {k \in Nat : k <= n => f[k] \in S}
<1>7. 0 \in Q
  BY <1>11
<1>8. ASSUME NEW k \in Nat, k \in Q PROVE k + 1 \in Q
  <2>1. CASE k + 1 <= n
    <3>1. f[k + 1] = Links!RemoveRound(f[(k + 1) - 1])
      BY <1>11, <2>1
    <3>2. f[k] \in S /\ (k + 1) - 1 = k
      BY <1>8, <2>1
    <3> QED BY <3>1, <3>2
  <2> QED BY <2>1
<1> HIDE DEF Q, After
<1>9. Nat \subseteq Q
  BY <1>7, <1>8, NatSet
<1> QED BY <1>6, <1>9 DEF Q

LEMMA RepairRemoveKeeps ==
    ASSUME NEW M, NEW key, NEW T, IsTree(M, T, key), NEW z \in M
    PROVE  IsTree(M, Links!RepairRemove(T, z), key)
<1>1. Links!Climbing(T, z) \in Climbs(M, key)
  BY ClimbsFacts
<1>2. Links!Members(T) = M /\ Links!Cardinality(M) \in Nat
  BY IsTreeFacts, TreesFacts, FS_CardinalityType, SameCardinality
<1>3. \A x \in Climbs(M, key) : Links!RemoveRound(x) \in Climbs(M, key)
  BY RemoveRoundKeeps
<1>4. Links!Loop(Links!RemoveRound, Links!Climbing(T, z), Links!Cardinality(Links!Members(T))) \in Climbs(M, key)
  BY <1>1, <1>2, <1>3, RemoveLoop
<1>5. Links!RepairRemove(T, z) =
         Links!Loop(Links!RemoveRound, Links!Climbing(T, z), Links!Cardinality(Links!Members(T))).tree
  BY DEF Links!RepairRemove
<1> QED BY <1>4, <1>5 DEF Climbs
-----------------------------------------------------------------------------
(* Induction and recursion over a tree, with sets and functions *)

LEMMA TreeInduction ==
    ASSUME NEW M, NEW sub, NEW T, Shape(M, T, sub), NEW S,
           \A m \in M : (\A s \in Links!Sides : T.node[m][s] \in S \cup {Null}) => m \in S
    PROVE  M \subseteq S
<1>1. SUFFICES ASSUME M \ S # {} PROVE FALSE
  OBVIOUS
<1>2. /\ IsFiniteSet(M) /\ \A m \in M : sub[m] \subseteq M
  BY KidFacts, SidesFacts DEF Shape
<1>3. \A m \in M : IsFiniteSet(sub[m]) /\ Cardinality(sub[m]) \in Nat
  BY <1>2, FS_Subset, FS_CardinalityType
<1> DEFINE Counts == {Cardinality(sub[m]) : m \in M \ S}
<1>4. Counts \subseteq Nat /\ Counts # {}
  BY <1>1, <1>3
<1>5. PICK k \in Counts : \A j \in Counts : k <= j
  BY <1>4, Least
<1>6. PICK m \in M \ S : k = Cardinality(sub[m])
  OBVIOUS
<1>7. ASSUME NEW s \in Links!Sides, T.node[m][s] # Null, T.node[m][s] \notin S PROVE FALSE
  <2>1. PICK c : c = T.node[m][s]
    OBVIOUS
  <2>2. c \in M /\ sub[c] \subseteq sub[m] /\ m \notin sub[c] /\ m \in sub[m]
    BY <1>6, <1>7, <2>1, KidFacts
  <2>3. Cardinality(sub[c]) < Cardinality(sub[m])
    BY <1>3, <1>6, <2>2, FS_Subset
  <2>4. Cardinality(sub[c]) \in Counts
    BY <1>7, <2>1, <2>2
  <2> HIDE DEF Counts
  <2> QED BY <1>3, <1>5, <1>6, <2>2, <2>3, <2>4
<1>8. m \in S
  BY <1>6, <1>7
<1> QED BY <1>6, <1>8

(* What is below a node below n is below n. *)
LEMMA Nested ==
    ASSUME NEW M, NEW sub, NEW T, Shape(M, T, sub), NEW n \in M, NEW x \in sub[n]
    PROVE  x \in M /\ sub[x] \subseteq sub[n]
<1> DEFINE S == {m \in M : \A y \in sub[m] : sub[y] \subseteq sub[m]}
<1>1. ASSUME NEW m \in M, \A s \in Links!Sides : T.node[m][s] \in S \cup {Null}
      PROVE  m \in S
  <2>1. Joint(T, sub, m, "left", "right")
    BY DEF Shape
  <2>2. ASSUME NEW y \in sub[m], y # m PROVE sub[y] \subseteq sub[m]
    <3>1. PICK s \in {"left", "right"} : y \in Below(sub, T.node[m][s])
      BY <2>1, <2>2 DEF Joint
    <3>2. s \in Links!Sides
      BY <3>1 DEF Links!Sides
    <3>3. PICK c : c = T.node[m][s] /\ c # Null /\ y \in sub[c]
      BY <3>1 DEF Below
    <3>4. c \in S /\ sub[c] \subseteq sub[m]
      BY <1>1, <3>2, <3>3, KidFacts
    <3> QED BY <3>3, <3>4
  <2> QED BY <2>2
<1> HIDE DEF S
<1>2. M \subseteq S
  BY <1>1, TreeInduction
<1>3. sub[n] \subseteq M
  BY SubFacts
<1> QED BY <1>2, <1>3 DEF S

(* A function that takes its value at a node from the values at the        *)
(* children: c says how, v is the value for a null pointer.                *)
Recursion(f, M, T, c, v) ==
    /\ DOMAIN f = M \cup {Null}
    /\ f[Null] = v
    /\ \A m \in M : f[m] = c[m, f[T.node[m].left], f[T.node[m].right]]

LEMMA TreeRecursion ==
    ASSUME NEW M, NEW sub, NEW T, Shape(M, T, sub), NEW V, NEW v \in V,
           NEW c \in [M \X V \X V -> V]
    PROVE  \E f \in [M \cup {Null} -> V] : Recursion(f, M, T, c, v)
<1> DEFINE Part(f, m) ==
              /\ f \in [M \cup {Null} -> V] /\ f[Null] = v
              /\ \A x \in sub[m] : f[x] = c[x, f[T.node[x].left], f[T.node[x].right]]
           S == {m \in M : \E f : Part(f, m)}
<1>1. Null \notin M /\ T \in Trees(M)
  BY DEF Shape
<1>2. ASSUME NEW m \in M, \A s \in Links!Sides : T.node[m][s] \in S \cup {Null}
      PROVE  m \in S
  <2>1. PICK l, r : l = T.node[m].left /\ r = T.node[m].right
    OBVIOUS
  <2>2. l \in S \cup {Null} /\ r \in S \cup {Null}
    BY <1>2, <2>1 DEF Links!Sides
  <2>3. l \in M \cup {Null} /\ r \in M \cup {Null}
    BY <2>2
  <2>4. Joint(T, sub, m, "left", "right") /\ sub[m] \subseteq M
    BY <1>1, KidFacts, SidesFacts DEF Shape
  <2>5. /\ sub[m] = {m} \cup Below(sub, l) \cup Below(sub, r)
        /\ m \notin Below(sub, l) /\ m \notin Below(sub, r)
        /\ Below(sub, l) \cap Below(sub, r) = {}
    BY <2>1, <2>4 DEF Joint
  <2>6. \E f \in [M \cup {Null} -> V] : f[Null] = v /\ (l # Null => Part(f, l))
    <3>1. CASE l = Null
      <4>1. [x \in M \cup {Null} |-> v] \in [M \cup {Null} -> V]
        OBVIOUS
      <4> QED BY <3>1, <4>1
    <3>2. CASE l # Null
      BY <2>2, <3>2
    <3> QED BY <3>1, <3>2
  <2>7. \E f \in [M \cup {Null} -> V] : f[Null] = v /\ (r # Null => Part(f, r))
    <3>1. CASE r = Null
      <4>1. [x \in M \cup {Null} |-> v] \in [M \cup {Null} -> V]
        OBVIOUS
      <4> QED BY <3>1, <4>1
    <3>2. CASE r # Null
      BY <2>2, <3>2
    <3> QED BY <3>1, <3>2
  <2>8. PICK f \in [M \cup {Null} -> V] : f[Null] = v /\ (l # Null => Part(f, l))
    BY <2>6
  <2>9. PICK g \in [M \cup {Null} -> V] : g[Null] = v /\ (r # Null => Part(g, r))
    BY <2>7
  <2>10. PICK h : h = [x \in M \cup {Null} |->
                         IF x = m THEN c[m, f[l], g[r]]
                         ELSE IF x \in Below(sub, r) THEN g[x] ELSE f[x]]
    OBVIOUS
  <2>11. h \in [M \cup {Null} -> V] /\ h[Null] = v
    <3>1. c[m, f[l], g[r]] \in V
      BY <2>3, <2>8, <2>9
    <3>2. Null \notin Below(sub, r) /\ m # Null
      BY <1>1, <2>4, <2>5
    <3> QED BY <2>8, <2>9, <2>10, <3>1, <3>2
  <2>12. \A x \in M : x \in Below(sub, l) => h[x] = f[x]
    BY <2>5, <2>10
  <2>13. \A x \in M : x \in Below(sub, r) => h[x] = g[x]
    BY <2>5, <2>10
  <2>14. h[l] = f[l] /\ h[r] = g[r]
    <3>1. l # Null => l \in M /\ l \in Below(sub, l)
      BY <2>3, SubFacts DEF Below
    <3>2. r # Null => r \in M /\ r \in Below(sub, r)
      BY <2>3, SubFacts DEF Below
    <3> QED BY <2>8, <2>9, <2>11, <2>12, <2>13, <3>1, <3>2
  <2>15. ASSUME NEW x \in sub[m]
         PROVE  h[x] = c[x, h[T.node[x].left], h[T.node[x].right]]
    <3>1. CASE x = m
      BY <2>1, <2>3, <2>10, <2>14, <3>1
    <3>2. CASE x \in Below(sub, l)
      <4>1. l \in M /\ l # Null /\ x \in sub[l] /\ Below(sub, l) = sub[l]
        BY <2>3, <3>2 DEF Below
      <4>2. f[x] = c[x, f[T.node[x].left], f[T.node[x].right]] /\ h[x] = f[x]
        BY <2>4, <2>8, <2>12, <3>2, <4>1
      <4>3. \A s \in Links!Sides : h[T.node[x][s]] = f[T.node[x][s]]
        <5>1. TAKE s \in Links!Sides
        <5>2. CASE T.node[x][s] = Null
          BY <2>8, <2>11, <5>2
        <5>3. CASE T.node[x][s] # Null
          <6>1. T.node[x][s] \in sub[x] /\ T.node[x][s] \in M
            BY <2>4, <5>3, KidFacts
          <6>2. sub[x] \subseteq sub[l]
            BY <4>1, Nested
          <6> QED BY <2>12, <4>1, <6>1, <6>2
        <5> QED BY <5>2, <5>3
      <4> QED BY <4>2, <4>3 DEF Links!Sides
    <3>3. CASE x \in Below(sub, r)
      <4>1. r \in M /\ r # Null /\ x \in sub[r] /\ Below(sub, r) = sub[r]
        BY <2>3, <3>3 DEF Below
      <4>2. g[x] = c[x, g[T.node[x].left], g[T.node[x].right]] /\ h[x] = g[x]
        BY <2>4, <2>9, <2>13, <3>3, <4>1
      <4>3. \A s \in Links!Sides : h[T.node[x][s]] = g[T.node[x][s]]
        <5>1. TAKE s \in Links!Sides
        <5>2. CASE T.node[x][s] = Null
          BY <2>9, <2>11, <5>2
        <5>3. CASE T.node[x][s] # Null
          <6>1. T.node[x][s] \in sub[x] /\ T.node[x][s] \in M
            BY <2>4, <5>3, KidFacts
          <6>2. sub[x] \subseteq sub[r]
            BY <4>1, Nested
          <6> QED BY <2>13, <4>1, <6>1, <6>2
        <5> QED BY <5>2, <5>3
      <4> QED BY <4>2, <4>3 DEF Links!Sides
    <3> QED BY <2>5, <3>1, <3>2, <3>3
  <2>16. Part(h, m)
    BY <2>11, <2>15
  <2> HIDE DEF Part
  <2> QED BY <2>16
<1>3. M \subseteq S
  <2> HIDE DEF S
  <2> QED BY <1>2, TreeInduction
<1>4. CASE M = {}
  <2>1. PICK f : f = [x \in M \cup {Null} |-> v]
    OBVIOUS
  <2> QED BY <1>4, <2>1 DEF Recursion
<1>5. CASE M # {}
  <2>1. T.root \in M /\ sub[T.root] = M
    BY <1>1, <1>5, TreesFacts DEF Shape, Top
  <2>2. PICK f : Part(f, T.root)
    BY <1>3, <2>1
  <2> QED BY <2>1, <2>2 DEF Recursion
<1> QED BY <1>4, <1>5
-----------------------------------------------------------------------------
(* Insertion *)

LEMMA RedLeafFacts ==
    ASSUME NEW M, NEW p \in M \cup {Null}, NEW r, r = [Links!RedLeaf EXCEPT !.parent = p]
    PROVE  /\ r \in [left : M \cup {Null}, right : M \cup {Null}, parent : M \cup {Null}, red : BOOLEAN]
           /\ r.left = Null /\ r.right = Null /\ r.parent = p
BY DEF Links!RedLeaf

LEMMA OneNode ==
    ASSUME NEW z, z # Null, NEW U \in Trees({z}), U.root = z, U.node[z].left = Null,
           U.node[z].right = Null, U.node[z].parent = Null, NEW key, key[z] \in Int
    PROVE  IsTree({z}, U, key)
<1>1. PICK sub : sub = [n \in {z} |-> {z}]
  OBVIOUS
<1>2. Joint(U, sub, z, "left", "right")
  BY <1>1 DEF Joint, Below
<1>3. SortedAt(U, sub, key, z, "left", "right")
  BY DEF SortedAt, Below
<1>4. Top({z}, U, sub)
  BY <1>1 DEF Top
<1>5. IsFiniteSet({z})
  BY FS_Singleton
<1>6. Shape({z}, U, sub)
  BY <1>1, <1>2, <1>4, <1>5 DEF Shape
<1> QED BY <1>3, <1>6 DEF IsTree, Grown

LEMMA AttachRoot ==
    ASSUME NEW T, NEW key0, IsTree({}, T, key0), NEW z, z # Null, NEW key, key[z] \in Int,
           NEW U, U = Links!Attach(T, z, Null, "left", Links!RedLeaf)
    PROVE  IsTree({z}, U, key)
<1>1. T \in Trees({})
  BY IsTreeFacts
<1>2. PICK r : r = [Links!RedLeaf EXCEPT !.parent = Null]
  OBVIOUS
<1>3. /\ r \in [left : {z} \cup {Null}, right : {z} \cup {Null},
                parent : {z} \cup {Null}, red : BOOLEAN]
      /\ r.left = Null /\ r.right = Null /\ r.parent = Null
  BY <1>2, RedLeafFacts
<1>4. Links!Members(T) = {}
  BY <1>1, TreesFacts
<1>5. U = [[T EXCEPT !.node = [n \in {z} |-> r]] EXCEPT !.root = z]
  BY <1>2, <1>4 DEF Links!Attach
<1>6. U \in Trees({z}) /\ U.root = z /\ U.node[z] = r
  <2>1. PICK N : N = {z}
    OBVIOUS
  <2>2. PICK f : f = [n \in N |-> r]
    OBVIOUS
  <2>3. U = [[T EXCEPT !.node = f] EXCEPT !.root = z]
    BY <1>5, <2>1, <2>2
  <2>4. f \in [N -> [left : N \cup {Null}, right : N \cup {Null},
                     parent : N \cup {Null}, red : BOOLEAN]]
    BY <1>3, <2>1, <2>2
  <2>5. z \in N \cup {Null}
    BY <2>1
  <2>6. U \in Trees(N) /\ U.root = z /\ U.node = f
    BY <1>1, <2>3, <2>4, <2>5 DEF Trees
  <2> QED BY <2>1, <2>2, <2>6
<1> QED BY <1>3, <1>6, OneNode

(* The search for the place of z has compared z with every node above p. *)
Placed(M, T, sub, key, z, p) ==
    \A x \in M, t \in Links!Sides : p \in Below(sub, T.node[x][t]) => Before(t, key[z], key[x])

SubAttached(M, sub, z, p) ==
    [x \in M \cup {z} |-> IF x = z THEN {z} ELSE IF p \in sub[x] THEN sub[x] \cup {z} ELSE sub[x]]

(* The new node z hangs below p on the given side. *)
Attached(M, T, U, z, p, side) ==
    /\ U.root = T.root /\ U.crashed = T.crashed
    /\ U.node[z].left = Null /\ U.node[z].right = Null /\ U.node[z].parent = p
    /\ \A x \in M : U.node[x].parent = T.node[x].parent
    /\ \A x \in M, t \in Links!Sides :
          U.node[x][t] = IF x = p /\ t = side THEN z ELSE T.node[x][t]

LEMMA AttachActs ==
    ASSUME NEW M, NEW T \in Trees(M), Null \notin M, NEW z, z \notin M, z # Null,
           NEW p \in M, NEW side \in Links!Sides,
           NEW U, U = Links!Attach(T, z, p, side, Links!RedLeaf)
    PROVE  U \in Trees(M \cup {z}) /\ Attached(M, T, U, z, p, side)
<1>1. PICK N : N = M \cup {z}
  OBVIOUS
<1>2. PICK r : r = [Links!RedLeaf EXCEPT !.parent = p]
  OBVIOUS
<1>3. /\ r \in [left : N \cup {Null}, right : N \cup {Null}, parent : N \cup {Null}, red : BOOLEAN]
      /\ r.left = Null /\ r.right = Null /\ r.parent = p
  BY <1>1, <1>2, RedLeafFacts
<1>4. PICK f : f = [n \in N |-> IF n = z THEN r ELSE T.node[n]]
  OBVIOUS
<1>5. PICK T1 : T1 = [T EXCEPT !.node = f]
  OBVIOUS
<1>6. Links!Members(T) = M /\ p # Null /\ Null \notin N
  BY <1>1, TreesFacts
<1>7. U = Links!WithChild(T1, p, side, z)
  BY <1>1, <1>2, <1>4, <1>5, <1>6 DEF Links!Attach
<1>8. T1 \in Trees(N) /\ T1.root = T.root /\ T1.crashed = T.crashed /\ T1.node = f
  <2>1. f \in [N -> [left : N \cup {Null}, right : N \cup {Null},
                     parent : N \cup {Null}, red : BOOLEAN]]
    BY <1>1, <1>3, <1>4 DEF Trees
  <2> QED BY <1>1, <1>5, <2>1 DEF Trees
<1>9. /\ U \in Trees(N) /\ SameTop(T1, U) /\ SameParents(N, T1, U)
      /\ ChildSet(N, T1, U, p, side, z)
  BY <1>1, <1>6, <1>7, <1>8, WithChildActs
<1>10. /\ \A x \in M : T1.node[x] = T.node[x]
       /\ T1.node[z] = r
  BY <1>1, <1>4, <1>8
<1>11. U.node[z].left = Null /\ U.node[z].right = Null /\ U.node[z].parent = p
  BY <1>1, <1>3, <1>9, <1>10 DEF ChildSet, SameParents, Links!Sides
<1>12. \A x \in M : U.node[x].parent = T.node[x].parent
  BY <1>1, <1>9, <1>10 DEF SameParents
<1>13. \A x \in M, t \in Links!Sides :
                 U.node[x][t] = IF x = p /\ t = side THEN z ELSE T.node[x][t]
  BY <1>1, <1>9, <1>10 DEF ChildSet
<1> QED BY <1>1, <1>8, <1>9, <1>11, <1>12, <1>13 DEF SameTop, Attached

LEMMA AttachBelow ==
    ASSUME NEW M, NEW sub, NEW T, NEW key, Grown(M, T, sub, key),
           NEW z, z \notin M, z # Null, key[z] \in Int,
           NEW p \in M, NEW side \in Links!Sides, T.node[p][side] = Null,
           Before(side, key[z], key[p]), Placed(M, T, sub, key, z, p),
           NEW U, U = Links!Attach(T, z, p, side, Links!RedLeaf)
    PROVE  IsTree(M \cup {z}, U, key)
<1>1. PICK N, sub2 : N = M \cup {z} /\ sub2 = SubAttached(M, sub, z, p)
  OBVIOUS
<1>2. /\ Shape(M, T, sub) /\ T \in Trees(M) /\ Null \notin M /\ IsFiniteSet(M)
      /\ sub \in [M -> SUBSET M] /\ Top(M, T, sub)
  BY DEF Grown, Shape
<1>3. /\ U \in Trees(N) /\ U.root = T.root
      /\ U.node[z].left = Null /\ U.node[z].right = Null /\ U.node[z].parent = p
      /\ \A x \in M : U.node[x].parent = T.node[x].parent
      /\ \A x \in M, t \in Links!Sides :
            U.node[x][t] = IF x = p /\ t = side THEN z ELSE T.node[x][t]
  <2>1. U \in Trees(N) /\ Attached(M, T, U, z, p, side)
    BY <1>1, <1>2, AttachActs
  <2> QED BY <2>1 DEF Attached
<1>4. /\ sub2 \in [N -> SUBSET N] /\ sub2[z] = {z}
      /\ \A x \in M : sub2[x] = IF p \in sub[x] THEN sub[x] \cup {z} ELSE sub[x]
      /\ \A x \in M : sub[x] \subseteq M /\ x \in sub[x]
  BY <1>1, <1>2, SubFacts DEF SubAttached
<1>5. ASSUME NEW x \in M, NEW t \in Links!Sides
      PROVE  /\ T.node[x][t] \in M \cup {Null}
             /\ Below(sub2, U.node[x][t]) =
                   IF (x = p /\ t = side) \/ p \in Below(sub, T.node[x][t])
                   THEN Below(sub, T.node[x][t]) \cup {z} ELSE Below(sub, T.node[x][t])
             /\ U.node[x][t] # Null => U.node[U.node[x][t]].parent = x
  <2>1. T.node[x][t] \in M \cup {Null}
    BY <1>2, TreesFacts
  <2>2. CASE x = p /\ t = side
    <3>1. U.node[x][t] = z /\ T.node[x][t] = Null
      BY <1>3, <2>2
    <3> QED BY <1>3, <1>4, <2>1, <2>2, <3>1 DEF Below
  <2>3. CASE ~ (x = p /\ t = side)
    <3>1. U.node[x][t] = T.node[x][t]
      BY <1>3, <2>3
    <3>2. Below(sub2, T.node[x][t]) =
             IF p \in Below(sub, T.node[x][t])
             THEN Below(sub, T.node[x][t]) \cup {z} ELSE Below(sub, T.node[x][t])
      BY <1>4, <2>1 DEF Below
    <3>3. T.node[x][t] # Null => T.node[T.node[x][t]].parent = x
      BY <1>2, KidParent
    <3> QED BY <1>3, <2>1, <2>3, <3>1, <3>2, <3>3
  <2> QED BY <2>1, <2>2, <2>3
<1>6. Joint(U, sub2, z, "left", "right")
  <2>1. p # Null /\ (U.node[p]["left"] = z \/ U.node[p]["right"] = z)
    BY <1>2, <1>3 DEF Links!Sides
  <2> QED BY <1>3, <1>4, <2>1 DEF Joint, Below
<1>7. ASSUME NEW x \in M PROVE Joint(U, sub2, x, "left", "right")
  <2>1. Joint(T, sub, x, "left", "right") /\ x \in sub[x]
    BY <1>2, SubFacts DEF Shape
  <2>2. PICK A, B : A = Below(sub, T.node[x]["left"]) /\ B = Below(sub, T.node[x]["right"])
    OBVIOUS
  <2>3. sub[x] = {x} \cup A \cup B /\ x \notin A /\ x \notin B /\ A \cap B = {} /\ z \notin sub[x]
    BY <1>4, <2>1, <2>2 DEF Joint
  <2>4. PICK A2, B2 : A2 = Below(sub2, U.node[x]["left"]) /\ B2 = Below(sub2, U.node[x]["right"])
    OBVIOUS
  <2>5. /\ A2 = IF (x = p /\ side = "left") \/ p \in A THEN A \cup {z} ELSE A
        /\ B2 = IF (x = p /\ side = "right") \/ p \in B THEN B \cup {z} ELSE B
    <3>1. "left" \in Links!Sides /\ "right" \in Links!Sides
      BY DEF Links!Sides
    <3> QED BY <1>5, <2>2, <2>4, <3>1
  <2>6. sub2[x] = {x} \cup A2 \cup B2 /\ x \notin A2 /\ x \notin B2 /\ A2 \cap B2 = {}
    <3>1. side = "left" \/ side = "right"
      BY DEF Links!Sides
    <3>2. x # z
      OBVIOUS
    <3>3. CASE x = p
      <4>1. CASE side = "left"
        <5>1. A2 = A \cup {z} /\ B2 = B /\ sub2[x] = sub[x] \cup {z}
          BY <1>4, <2>3, <2>5, <3>3, <4>1
        <5> QED BY <2>3, <3>2, <5>1
      <4>2. CASE side = "right"
        <5>1. A2 = A /\ B2 = B \cup {z} /\ sub2[x] = sub[x] \cup {z}
          BY <1>4, <2>3, <2>5, <3>3, <4>2
        <5> QED BY <2>3, <3>2, <5>1
      <4> QED BY <3>1, <4>1, <4>2
    <3>4. CASE x # p
      <4>1. CASE p \in A
        <5>1. A2 = A \cup {z} /\ B2 = B /\ sub2[x] = sub[x] \cup {z}
          BY <1>4, <2>3, <2>5, <3>4, <4>1
        <5> QED BY <2>3, <3>2, <5>1
      <4>2. CASE p \in B
        <5>1. A2 = A /\ B2 = B \cup {z} /\ sub2[x] = sub[x] \cup {z}
          BY <1>4, <2>3, <2>5, <3>4, <4>2
        <5> QED BY <2>3, <3>2, <5>1
      <4>3. CASE p \notin A /\ p \notin B
        <5>1. A2 = A /\ B2 = B /\ sub2[x] = sub[x]
          BY <1>4, <2>3, <2>5, <3>4, <4>3
        <5> QED BY <2>3, <3>2, <5>1
      <4> QED BY <4>1, <4>2, <4>3
    <3> QED BY <3>3, <3>4
  <2>7. /\ U.node[x]["left"] # Null => U.node[U.node[x]["left"]].parent = x
        /\ U.node[x]["right"] # Null => U.node[U.node[x]["right"]].parent = x
    BY <1>5 DEF Links!Sides
  <2>8. /\ U.node[x].parent = Null => U.root = x
        /\ U.node[x].parent # Null => U.node[U.node[x].parent]["left"] = x
                                         \/ U.node[U.node[x].parent]["right"] = x
    <3>1. T.node[x].parent = Null => T.root = x
      BY <1>2, OnlyRoot
    <3>2. ASSUME T.node[x].parent # Null
          PROVE  U.node[T.node[x].parent]["left"] = x \/ U.node[T.node[x].parent]["right"] = x
      <4>1. T.node[x].parent \in M
        BY <1>2, <3>2, HasParent
      <4>2. PICK t \in Links!Sides : T.node[T.node[x].parent][t] = x
        BY <1>2, <3>2, HasParent
      <4>3. U.node[T.node[x].parent][t] = x
        BY <1>2, <1>3, <4>1, <4>2
      <4> QED BY <4>3 DEF Links!Sides
    <3> QED BY <1>3, <3>1, <3>2
  <2> QED BY <2>4, <2>6, <2>7, <2>8 DEF Joint
<1>8. SortedAt(U, sub2, key, z, "left", "right")
  BY <1>3 DEF SortedAt, Below
<1>9. ASSUME NEW x \in M PROVE SortedAt(U, sub2, key, x, "left", "right")
  <2>1. SortedAt(T, sub, key, x, "left", "right")
    BY DEF Grown
  <2>2. ASSUME NEW t \in Links!Sides, NEW m \in Below(sub2, U.node[x][t])
        PROVE  m \in Below(sub, T.node[x][t]) \/ (m = z /\ Before(t, key[z], key[x]))
    <3>1. CASE x = p /\ t = side
      <4>1. m \in Below(sub, T.node[x][t]) \cup {z}
        BY <1>5, <2>2, <3>1
      <4> QED BY <3>1, <4>1
    <3>2. CASE p \in Below(sub, T.node[x][t])
      <4>1. m \in Below(sub, T.node[x][t]) \cup {z}
        BY <1>5, <2>2, <3>2
      <4>2. Before(t, key[z], key[x])
        BY <3>2 DEF Placed
      <4> QED BY <4>1, <4>2
    <3>3. CASE ~ (x = p /\ t = side) /\ p \notin Below(sub, T.node[x][t])
      BY <1>5, <2>2, <3>3
    <3> QED BY <3>1, <3>2, <3>3
  <2>3. "left" \in Links!Sides /\ "right" \in Links!Sides
    BY DEF Links!Sides
  <2> QED BY <2>1, <2>2, <2>3 DEF SortedAt
<1>10. Top(N, U, sub2)
  <2>1. T.root \in M /\ T.node[T.root].parent = Null /\ sub[T.root] = M /\ T.root # Null
    BY <1>2, TreesFacts DEF Top
  <2>2. sub2[T.root] = N
    BY <1>1, <1>4, <2>1
  <2>3. U.node[T.root].parent = Null
    BY <1>3, <2>1
  <2> QED BY <1>1, <1>3, <2>1, <2>2, <2>3 DEF Top
<1>11. IsFiniteSet(N)
  BY <1>1, <1>2, FS_AddElement
<1>12. Shape(N, U, sub2)
  BY <1>1, <1>2, <1>3, <1>4, <1>6, <1>7, <1>10, <1>11 DEF Shape
<1>13. \A x \in N : key[x] \in Int /\ SortedAt(U, sub2, key, x, "left", "right")
  BY <1>1, <1>8, <1>9 DEF Grown
<1> QED BY <1>1, <1>12, <1>13 DEF IsTree, Grown
(* From each node down to the last one, on the side that sd names: both    *)
(* the search for the place of a new node and the largest below a node     *)
Descent(f, M, T, sd) ==
    \A m \in M : f[m] = IF T.node[m][sd[m]] = Null THEN m ELSE f[T.node[m][sd[m]]]

LEMMA DescentExists ==
    ASSUME NEW M, NEW sub, NEW T, Shape(M, T, sub), NEW sd \in [M -> Links!Sides]
    PROVE  \E f : f = [m \in M |-> IF T.node[m][sd[m]] = Null THEN m ELSE f[T.node[m][sd[m]]]]
<1>1. PICK V : V = M \cup {Null}
  OBVIOUS
<1>2. PICK c : c = [t \in M \X V \X V |->
                      IF T.node[t[1]][sd[t[1]]] = Null THEN t[1]
                      ELSE IF sd[t[1]] = "left" THEN t[2] ELSE t[3]]
  OBVIOUS
<1>3. c \in [M \X V \X V -> V]
  BY <1>1, <1>2
<1>4. PICK f \in [M \cup {Null} -> V] : Recursion(f, M, T, c, Null)
  <2>1. Null \in V
    BY <1>1
  <2> QED BY <1>3, <2>1, TreeRecursion
<1>5. ASSUME NEW m \in M
      PROVE  f[m] = IF T.node[m][sd[m]] = Null THEN m ELSE f[T.node[m][sd[m]]]
  <2>1. f[m] = c[m, f[T.node[m].left], f[T.node[m].right]]
    BY <1>4 DEF Recursion
  <2>2. T.node[m].left \in V /\ T.node[m].right \in V
    BY <1>1, TreesFacts DEF Shape, Links!Sides
  <2>3. f[T.node[m].left] \in V /\ f[T.node[m].right] \in V
    BY <1>1, <1>4, <2>2
  <2>4. c[m, f[T.node[m].left], f[T.node[m].right]] =
          IF T.node[m][sd[m]] = Null THEN m
          ELSE IF sd[m] = "left" THEN f[T.node[m].left] ELSE f[T.node[m].right]
    BY <1>2, <2>3
  <2>5. sd[m] = "left" \/ sd[m] = "right"
    BY DEF Links!Sides
  <2> QED BY <2>1, <2>4, <2>5
<1>6. PICK g : g = [m \in M |-> f[m]]
  OBVIOUS
<1>7. Null \notin M /\ \A m \in M : T.node[m][sd[m]] \in M \cup {Null}
  BY TreesFacts DEF Shape
<1>8. g = [m \in M |-> IF T.node[m][sd[m]] = Null THEN m ELSE g[T.node[m][sd[m]]]]
  BY <1>5, <1>6, <1>7
<1> QED BY <1>8

LEMMA DescentFacts ==
    ASSUME NEW M, NEW sub, NEW T, Shape(M, T, sub), NEW sd \in [M -> Links!Sides],
           NEW f, Descent(f, M, T, sd), NEW n \in M
    PROVE  /\ f[n] \in sub[n]
           /\ T.node[f[n]][sd[f[n]]] = Null
           /\ \A x \in sub[n], t \in Links!Sides : f[n] \in Below(sub, T.node[x][t]) => t = sd[x]
<1> DEFINE Good(m) ==
              /\ f[m] \in sub[m]
              /\ T.node[f[m]][sd[f[m]]] = Null
              /\ \A x \in sub[m], t \in Links!Sides : f[m] \in Below(sub, T.node[x][t]) => t = sd[x]
           S == {m \in M : Good(m)}
<1>1. Null \notin M
  BY DEF Shape
<1>2. ASSUME NEW m \in M, \A s \in Links!Sides : T.node[m][s] \in S \cup {Null}
      PROVE  m \in S
  <2>1. PICK s, o : s = sd[m] /\ o = Links!Other(s)
    OBVIOUS
  <2>2. s \in Links!Sides /\ o \in Links!Sides /\ Links!Sides = {s, o} /\ s # o
    BY <2>1, SidesFacts
  <2>3. PICK A, B : A = Below(sub, T.node[m][s]) /\ B = Below(sub, T.node[m][o])
    OBVIOUS
  <2>4. Joint(T, sub, m, s, o)
    BY <2>1, <2>2, KidFacts
  <2>5. sub[m] = {m} \cup A \cup B /\ m \notin A /\ m \notin B /\ A \cap B = {}
    BY <2>3, <2>4 DEF Joint
  <2>6. ASSUME NEW x \in M, NEW t \in Links!Sides
        PROVE  Below(sub, T.node[x][t]) \subseteq sub[x]
    BY KidFacts DEF Below
  <2>7. ASSUME NEW x \in A PROVE x \in M /\ sub[x] \subseteq A
    <3>1. T.node[m][s] \in M /\ T.node[m][s] # Null /\ x \in sub[T.node[m][s]]
      BY <1>2, <2>2, <2>3, <2>7 DEF Below
    <3>2. x \in M /\ sub[x] \subseteq sub[T.node[m][s]]
      BY <3>1, Nested
    <3> QED BY <2>3, <3>1, <3>2 DEF Below
  <2>8. ASSUME NEW x \in B PROVE x \in M /\ sub[x] \subseteq B
    <3>1. T.node[m][o] \in M /\ T.node[m][o] # Null /\ x \in sub[T.node[m][o]]
      BY <1>2, <2>2, <2>3, <2>8 DEF Below
    <3>2. x \in M /\ sub[x] \subseteq sub[T.node[m][o]]
      BY <3>1, Nested
    <3> QED BY <2>3, <3>1, <3>2 DEF Below
  <2>9. CASE T.node[m][s] = Null
    <3>1. f[m] = m
      BY <2>1, <2>9 DEF Descent
    <3>2. ASSUME NEW x \in sub[m], NEW t \in Links!Sides, m \in Below(sub, T.node[x][t])
          PROVE  FALSE
      <4>1. x \in M /\ m \in sub[x]
        BY <2>5, <2>6, <2>7, <2>8, <3>2
      <4>2. x = m
        BY <2>5, <2>7, <2>8, <4>1
      <4>3. m \in A \/ m \in B
        BY <2>2, <2>3, <3>2, <4>2
      <4> QED BY <2>5, <4>3
    <3> QED BY <2>1, <2>5, <2>9, <3>1, <3>2
  <2>10. CASE T.node[m][s] # Null
    <3>1. PICK k : k = T.node[m][s]
      OBVIOUS
    <3>2. k \in M /\ Good(k) /\ A = sub[k]
      BY <1>2, <2>2, <2>3, <2>10, <3>1 DEF Below
    <3>3. f[m] = f[k]
      BY <2>1, <2>10, <3>1 DEF Descent
    <3>4. f[k] \in A
      BY <3>2
    <3>5. ASSUME NEW x \in sub[m], NEW t \in Links!Sides, f[m] \in Below(sub, T.node[x][t])
          PROVE  t = sd[x]
      <4>1. CASE x = m
        <5>1. t = o => f[m] \in B
          BY <2>3, <3>5, <4>1
        <5> QED BY <2>1, <2>2, <2>5, <3>3, <3>4, <4>1, <5>1
      <4>2. CASE x \in A
        BY <3>2, <3>3, <3>5, <4>2
      <4>3. CASE x \in B
        <5>1. f[m] \in B
          BY <2>6, <2>8, <3>5, <4>3
        <5> QED BY <2>5, <3>3, <3>4, <5>1
      <4> QED BY <2>5, <4>1, <4>2, <4>3
    <3>6. f[m] \in sub[m] /\ T.node[f[m]][sd[f[m]]] = Null
      BY <2>5, <3>2, <3>3, <3>4
    <3> QED BY <3>5, <3>6
  <2> QED BY <2>9, <2>10
<1> HIDE DEF S
<1>3. M \subseteq S
  BY <1>2, TreeInduction
<1> QED BY <1>3 DEF S

LEMMA PlaceBelowKeeps ==
    ASSUME NEW M, NEW T, NEW key, IsTree(M, T, key), M # {},
           NEW z, z \notin M, z # Null,
           NEW h, \A m \in M \cup {z} : key[m] = SizeIn(h, m) /\ key[m] \in Int
    PROVE  IsTree(M \cup {z}, PlaceBelow(h, T, z, T.root), key)
<1>1. PICK sub : Grown(M, T, sub, key)
  BY DEF IsTree
<1>2. /\ Shape(M, T, sub) /\ Links!Members(T) = M /\ T.root \in M
      /\ sub[T.root] = M
  BY <1>1, IsTreeFacts, TreesFacts DEF Grown, Shape, Top
<1>3. PICK sd : sd = [m \in M |-> IF SizeIn(h, z) < SizeIn(h, m) THEN "left" ELSE "right"]
  OBVIOUS
<1>4. sd \in [M -> Links!Sides]
  BY <1>3 DEF Links!Sides
<1> DEFINE Leaf(g) == g = [m \in M |->
                             IF T.node[m][IF SizeIn(h, z) < SizeIn(h, m) THEN "left" ELSE "right"] = Null
                             THEN m
                             ELSE g[T.node[m][IF SizeIn(h, z) < SizeIn(h, m) THEN "left" ELSE "right"]]]
<1>5. PICK leaf : leaf = CHOOSE g : Leaf(g)
  OBVIOUS
<1>6. Leaf(leaf)
  <2>1. PICK g : g = [m \in M |-> IF T.node[m][sd[m]] = Null THEN m ELSE g[T.node[m][sd[m]]]]
    BY <1>2, <1>4, DescentExists
  <2>2. Leaf(g)
    BY <1>3, <2>1
  <2> HIDE DEF Leaf
  <2> QED BY <1>5, <2>2
<1>7. Descent(leaf, M, T, sd)
  BY <1>3, <1>6 DEF Descent
<1>8. PICK p : p = leaf[T.root]
  OBVIOUS
<1>9. PlaceBelow(h, T, z, T.root) =
        Links!Attach(T, z, p, IF SizeIn(h, z) < SizeIn(h, p) THEN "left" ELSE "right", Links!RedLeaf)
  BY <1>2, <1>5, <1>8 DEF PlaceBelow
<1> HIDE DEF Leaf
<1>10. /\ p \in M /\ T.node[p][sd[p]] = Null
       /\ \A x \in M, t \in Links!Sides : p \in Below(sub, T.node[x][t]) => t = sd[x]
  BY <1>2, <1>4, <1>7, <1>8, DescentFacts
<1>11. \A x \in M : Before(sd[x], key[z], key[x])
  BY <1>3 DEF Before
<1>12. Placed(M, T, sub, key, z, p)
  BY <1>10, <1>11 DEF Placed
<1>13. sd[p] \in Links!Sides /\ sd[p] = IF SizeIn(h, z) < SizeIn(h, p) THEN "left" ELSE "right"
  BY <1>3, <1>4, <1>10
<1>14. key[z] \in Int /\ Before(sd[p], key[z], key[p])
  BY <1>10, <1>11
<1>15. PICK U : U = Links!Attach(T, z, p, sd[p], Links!RedLeaf)
  OBVIOUS
<1>16. IsTree(M \cup {z}, U, key)
  BY <1>1, <1>10, <1>12, <1>13, <1>14, <1>15, AttachBelow
<1> QED BY <1>9, <1>13, <1>15, <1>16

LEMMA InsertKeeps ==
    ASSUME NEW M, NEW T, NEW key, IsTree(M, T, key), NEW z, z \notin M, z # Null,
           NEW h, \A m \in M \cup {z} : key[m] = SizeIn(h, m) /\ key[m] \in Int
    PROVE  IsTree(M \cup {z}, Insert(h, T, z), key)
<1>1. PICK U : U = IF T.root = Null THEN Links!Attach(T, z, Null, "left", Links!RedLeaf)
                   ELSE PlaceBelow(h, T, z, T.root)
  OBVIOUS
<1>2. IsTree(M \cup {z}, U, key)
  <2>1. CASE M = {}
    <3>1. T.root = Null
      BY <2>1, IsTreeFacts
    <3>2. IsTree({z}, U, key)
      BY <1>1, <2>1, <3>1, AttachRoot
    <3>3. M \cup {z} = {z}
      BY <2>1
    <3> QED BY <3>2, <3>3
  <2>2. CASE M # {}
    <3>1. T.root # Null
      BY <2>2, IsTreeFacts
    <3> QED BY <1>1, <2>2, <3>1, PlaceBelowKeeps
  <2> QED BY <2>1, <2>2
<1>3. IsTree(M \cup {z}, Links!RepairInsert(U, z), key)
  BY <1>2, RepairInsertKeeps
<1> QED BY <1>1, <1>3 DEF Insert
-----------------------------------------------------------------------------
(* Removal *)

(* The parent of a node below n is n or below it too. *)
LEMMA Ancestors ==
    ASSUME NEW M, NEW sub, NEW T, Shape(M, T, sub), NEW n \in M, NEW x \in sub[n], x # n
    PROVE  T.node[x].parent \in sub[n]
<1> DEFINE S == {m \in M : \A y \in sub[m] : y # m => T.node[y].parent \in sub[m]}
<1>1. ASSUME NEW m \in M, \A s \in Links!Sides : T.node[m][s] \in S \cup {Null}
      PROVE  m \in S
  <2>1. Joint(T, sub, m, "left", "right") /\ m \in sub[m]
    BY SubFacts DEF Shape
  <2>2. ASSUME NEW y \in sub[m], y # m PROVE T.node[y].parent \in sub[m]
    <3>1. PICK s \in {"left", "right"} : y \in Below(sub, T.node[m][s])
      BY <2>1, <2>2 DEF Joint
    <3>2. s \in Links!Sides
      BY <3>1 DEF Links!Sides
    <3>3. PICK c : c = T.node[m][s] /\ c # Null /\ y \in sub[c]
      BY <3>1 DEF Below
    <3>4. c \in S /\ sub[c] \subseteq sub[m]
      BY <1>1, <3>2, <3>3, KidFacts
    <3>5. T.node[c].parent = m
      BY <3>2, <3>3, KidParent
    <3> QED BY <2>1, <3>3, <3>4, <3>5
  <2> QED BY <2>2
<1> HIDE DEF S
<1>2. M \subseteq S
  BY <1>1, TreeInduction
<1> QED BY <1>2 DEF S

(* z is gone, and c, its only child or a null pointer, has its place below q. *)
Detached(M, T, U, z, c, q) ==
    /\ U.root = IF q = Null THEN c ELSE T.root
    /\ \A x \in M \ {z}, t \in Links!Sides :
          U.node[x][t] = IF T.node[x][t] = z THEN c ELSE T.node[x][t]
    /\ \A x \in M \ {z} : U.node[x].parent = IF x = c THEN q ELSE T.node[x].parent

OnlyChild(T, z, c, q) ==
    /\ q = T.node[z].parent
    /\ \/ T.node[z].left = Null /\ c = T.node[z].right
       \/ T.node[z].right = Null /\ c = T.node[z].left

LEMMA OnlyChildFacts ==
    ASSUME NEW M, NEW sub, NEW T, Shape(M, T, sub), NEW z \in M, NEW c, NEW q,
           OnlyChild(T, z, c, q)
    PROVE  /\ c \in M \cup {Null} /\ c # z /\ q \in M \cup {Null} /\ q # z
           /\ \A t \in Links!Sides : T.node[z][t] \in {c, Null}
           /\ c # Null => T.node[c].parent = z
           /\ sub[z] = {z} \cup Below(sub, c) /\ z \notin Below(sub, c)
           /\ \A x \in M : T.node[x].parent = z => x = c
           /\ z # Null
<1>1. PICK s \in Links!Sides : T.node[z][Links!Other(s)] = Null /\ c = T.node[z][s]
  BY DEF OnlyChild, Links!Sides, Links!Other
<1>2. Joint(T, sub, z, s, Links!Other(s)) /\ c # z
  BY <1>1, KidFacts
<1>3. sub[z] = {z} \cup Below(sub, c) /\ z \notin Below(sub, c)
  BY <1>1, <1>2 DEF Joint, Below
<1>4. \A t \in Links!Sides : T.node[z][t] \in {c, Null}
  BY <1>1, SidesFacts
<1>5. c \in M \cup {Null} /\ q \in M \cup {Null} /\ z # Null
  BY <1>1, TreesFacts DEF OnlyChild, Shape
<1>6. q # z
  BY ParentFacts DEF OnlyChild
<1>7. c # Null => T.node[c].parent = z
  BY <1>1, KidParent
<1>8. ASSUME NEW x \in M, T.node[x].parent = z PROVE x = c
  <2>1. T.node[x].parent # Null
    BY <1>5, <1>8
  <2>2. PICK t \in Links!Sides : T.node[T.node[x].parent][t] = x
    BY <2>1, HasParent
  <2>3. x # Null
    BY SubFacts
  <2> QED BY <1>4, <1>8, <2>2, <2>3
<1> QED BY <1>2, <1>3, <1>4, <1>5, <1>6, <1>7, <1>8

LEMMA DetachedGrown ==
    ASSUME NEW M, NEW sub, NEW T, NEW key, Grown(M, T, sub, key), NEW z \in M, NEW c, NEW q,
           OnlyChild(T, z, c, q), NEW U \in Trees(M \ {z}), Detached(M, T, U, z, c, q)
    PROVE  Grown(M \ {z}, U, [n \in M \ {z} |-> sub[n] \ {z}], key)
<1>1. PICK N : N = M \ {z}
  OBVIOUS
<1>2. PICK sub2 : sub2 = [n \in N |-> sub[n] \ {z}]
  OBVIOUS
<1>3. /\ Shape(M, T, sub) /\ T \in Trees(M) /\ Null \notin M /\ IsFiniteSet(M)
      /\ sub \in [M -> SUBSET M] /\ Top(M, T, sub) /\ Null \notin N /\ N \subseteq M
  BY <1>1 DEF Grown, Shape
<1>4. /\ c \in M \cup {Null} /\ c # z /\ q \in M \cup {Null} /\ q # z
      /\ \A t \in Links!Sides : T.node[z][t] \in {c, Null}
      /\ c # Null => T.node[c].parent = z
      /\ sub[z] = {z} \cup Below(sub, c) /\ z \notin Below(sub, c)
      /\ \A x \in M : T.node[x].parent = z => x = c
      /\ z # Null
  BY <1>3, OnlyChildFacts
<1>5. /\ sub2 \in [N -> SUBSET N]
      /\ \A x \in N : sub2[x] = sub[x] \ {z}
  BY <1>1, <1>2, <1>3
<1>6. ASSUME NEW x \in N, NEW t \in Links!Sides
      PROVE  /\ Below(sub2, U.node[x][t]) = Below(sub, T.node[x][t]) \ {z}
             /\ U.node[x][t] # Null => U.node[U.node[x][t]].parent = x
  <2>1. T.node[x][t] \in M \cup {Null}
    BY <1>1, <1>3, TreesFacts
  <2>2. CASE T.node[x][t] = z
    <3>1. U.node[x][t] = c
      BY <1>1, <2>2 DEF Detached
    <3>2. Below(sub2, c) = Below(sub, c) \ {z}
      BY <1>1, <1>4, <1>5 DEF Below
    <3>3. Below(sub, z) = {z} \cup Below(sub, c)
      BY <1>4 DEF Below
    <3>4. T.node[z].parent = x
      BY <1>1, <1>3, <2>2, ParentOf
    <3>5. c # Null => U.node[c].parent = x
      BY <1>1, <1>4, <3>4 DEF Detached, OnlyChild
    <3> QED BY <1>4, <2>2, <3>1, <3>2, <3>3, <3>5
  <2>3. CASE T.node[x][t] # z
    <3>1. U.node[x][t] = T.node[x][t]
      BY <1>1, <2>3 DEF Detached
    <3>2. Below(sub2, T.node[x][t]) = Below(sub, T.node[x][t]) \ {z}
      BY <1>1, <1>3, <1>5, <2>1, <2>3 DEF Below
    <3>3. T.node[x][t] # Null => T.node[T.node[x][t]].parent = x
      BY <1>1, <1>3, KidParent
    <3>4. T.node[x][t] # Null => U.node[T.node[x][t]].parent = x
      BY <1>1, <1>4, <2>1, <2>3, <3>3 DEF Detached
    <3> QED BY <3>1, <3>2, <3>4
  <2> QED BY <2>2, <2>3
<1>7. ASSUME NEW x \in N
      PROVE  /\ U.node[x].parent = Null => U.root = x
             /\ U.node[x].parent # Null => U.node[U.node[x].parent]["left"] = x
                                              \/ U.node[U.node[x].parent]["right"] = x
  <2>1. CASE x = c
    <3>1. U.node[x].parent = q
      BY <1>1, <2>1 DEF Detached
    <3>2. q = Null => U.root = x
      BY <2>1 DEF Detached
    <3>3. ASSUME q # Null PROVE \E t \in Links!Sides : U.node[q][t] = x
      <4>1. \E t \in Links!Sides : T.node[T.node[z].parent][t] = z
        BY <1>3, <3>3, HasParent DEF OnlyChild
      <4>2. PICK t \in Links!Sides : T.node[q][t] = z
        BY <4>1 DEF OnlyChild
      <4>3. q \in M \ {z}
        BY <1>4, <3>3
      <4>4. U.node[q][t] = c
        BY <4>2, <4>3 DEF Detached
      <4> QED BY <2>1, <4>4
    <3> QED BY <3>1, <3>2, <3>3 DEF Links!Sides
  <2>2. CASE x # c
    <3>1. U.node[x].parent = T.node[x].parent /\ T.node[x].parent # z
      BY <1>1, <1>4, <2>2 DEF Detached
    <3>2. T.node[x].parent = Null => U.root = x
      <4>1. (T.node[x].parent = Null => T.root = x) /\ (T.node[z].parent = Null => T.root = z)
        BY <1>1, <1>3, OnlyRoot
      <4> QED BY <1>1, <4>1 DEF Detached, OnlyChild
    <3>3. ASSUME T.node[x].parent # Null
          PROVE  \E t \in Links!Sides : U.node[T.node[x].parent][t] = x
      <4>1. T.node[x].parent \in M
        BY <1>1, <1>3, <3>3, HasParent
      <4>2. PICK t \in Links!Sides : T.node[T.node[x].parent][t] = x
        BY <1>1, <1>3, <3>3, HasParent
      <4>3. U.node[T.node[x].parent][t] = x
        BY <1>1, <3>1, <4>1, <4>2 DEF Detached
      <4> QED BY <4>3
    <3> QED BY <3>1, <3>2, <3>3 DEF Links!Sides
  <2> QED BY <2>1, <2>2
<1>8. "left" \in Links!Sides /\ "right" \in Links!Sides
  BY DEF Links!Sides
<1>9. ASSUME NEW x \in N PROVE Joint(U, sub2, x, "left", "right")
  <2>1. Joint(T, sub, x, "left", "right")
    BY <1>1, <1>3 DEF Shape
  <2>2. PICK A, B : A = Below(sub, T.node[x]["left"]) /\ B = Below(sub, T.node[x]["right"])
    OBVIOUS
  <2>3. sub[x] = {x} \cup A \cup B /\ x \notin A /\ x \notin B /\ A \cap B = {}
    BY <2>1, <2>2 DEF Joint
  <2>4. PICK A2, B2 : A2 = Below(sub2, U.node[x]["left"]) /\ B2 = Below(sub2, U.node[x]["right"])
    OBVIOUS
  <2>5. A2 = A \ {z} /\ B2 = B \ {z} /\ sub2[x] = sub[x] \ {z} /\ x # z
    BY <1>1, <1>5, <1>6, <1>8, <2>2, <2>4
  <2>6. sub2[x] = {x} \cup A2 \cup B2 /\ x \notin A2 /\ x \notin B2 /\ A2 \cap B2 = {}
    BY <2>3, <2>5
  <2> QED BY <1>6, <1>7, <1>8, <2>4, <2>6 DEF Joint
<1>10. ASSUME NEW x \in N PROVE SortedAt(U, sub2, key, x, "left", "right")
  <2>1. SortedAt(T, sub, key, x, "left", "right")
    BY <1>1 DEF Grown
  <2> QED BY <1>6, <1>8, <2>1 DEF SortedAt
<1>11. Top(N, U, sub2)
  <2>0. T.root \in M /\ T.node[T.root].parent = Null /\ sub[T.root] = M /\ T.root # Null
    BY <1>3, TreesFacts DEF Top
  <2>1. CASE q = Null
    <3>1. T.root = z /\ U.root = c
      <4>1. T.node[z].parent = Null
        BY <2>1 DEF OnlyChild
      <4>2. T.root = z
        BY <1>3, <4>1, OnlyRoot
      <4> QED BY <2>1, <4>2 DEF Detached
    <3>2. N = Below(sub, c)
      BY <1>1, <1>4, <2>0, <3>1
    <3>3. CASE c = Null
      BY <3>1, <3>2, <3>3 DEF Top, Below
    <3>4. CASE c # Null
      <4>1. c \in N /\ sub2[c] = N
        BY <1>1, <1>4, <1>5, <3>2, <3>4 DEF Below
      <4>2. U.node[c].parent = Null
        BY <1>1, <2>1, <4>1 DEF Detached
      <4> QED BY <3>1, <3>4, <4>1, <4>2 DEF Top
    <3> QED BY <3>3, <3>4
  <2>2. CASE q # Null
    <3>1. T.root # z /\ T.root # c /\ U.root = T.root
      BY <1>4, <2>0, <2>2 DEF OnlyChild, Detached
    <3>2. T.root \in N /\ U.node[T.root].parent = Null
      BY <1>1, <2>0, <3>1 DEF Detached
    <3>3. sub2[T.root] = N
      BY <1>1, <1>5, <2>0, <3>2
    <3> QED BY <2>0, <3>1, <3>2, <3>3 DEF Top
  <2> QED BY <2>1, <2>2
<1>12. IsFiniteSet(N)
  BY <1>1, <1>3, FS_RemoveElement
<1>13. Shape(N, U, sub2)
  BY <1>1, <1>3, <1>5, <1>9, <1>11, <1>12 DEF Shape
<1>14. \A x \in N : key[x] \in Int
  BY <1>1 DEF Grown
<1> QED BY <1>1, <1>2, <1>10, <1>13, <1>14 DEF Grown
(* Nothing leads to z any more. *)
Unused(M, T, z) ==
    /\ T.root # z
    /\ \A x \in M \ {z} : /\ \A t \in Links!Sides : T.node[x][t] # z
                          /\ T.node[x].parent # z

SameRest(M, T, U, z) ==
    /\ U.root = T.root /\ U.crashed = T.crashed
    /\ \A x \in M \ {z} : U.node[x] = T.node[x]

LEMMA WithoutActs ==
    ASSUME NEW M, NEW T \in Trees(M), NEW z \in M, Unused(M, T, z),
           NEW U, U = Links!Without(T, z)
    PROVE  U \in Trees(M \ {z}) /\ SameRest(M, T, U, z)
<1>1. PICK N : N = M \ {z}
  OBVIOUS
<1>2. PICK f : f = [x \in N |-> T.node[x]]
  OBVIOUS
<1>3. Links!Members(T) = M
  BY TreesFacts
<1>4. U = [T EXCEPT !.node = f]
  BY <1>1, <1>2, <1>3 DEF Links!Without
<1>5. ASSUME NEW x \in N
      PROVE  T.node[x] \in [left : N \cup {Null}, right : N \cup {Null},
                            parent : N \cup {Null}, red : BOOLEAN]
  <2>1. T.node[x] \in [left : M \cup {Null}, right : M \cup {Null},
                       parent : M \cup {Null}, red : BOOLEAN]
    BY <1>1 DEF Trees
  <2>2. T.node[x].left # z /\ T.node[x].right # z /\ T.node[x].parent # z
    BY <1>1 DEF Links!Sides, Unused
  <2> QED BY <1>1, <2>1, <2>2
<1>6. f \in [N -> [left : N \cup {Null}, right : N \cup {Null},
                   parent : N \cup {Null}, red : BOOLEAN]]
  BY <1>2, <1>5
<1>7. T.root \in N \cup {Null}
  BY <1>1, TreesFacts DEF Unused
<1>8. U \in Trees(N) /\ U.root = T.root /\ U.crashed = T.crashed /\ U.node = f
  BY <1>4, <1>6, <1>7 DEF Trees
<1> QED BY <1>1, <1>2, <1>8 DEF SameRest

LEMMA DetachActs ==
    ASSUME NEW M, NEW sub, NEW T, Shape(M, T, sub), NEW z \in M, NEW c, NEW q,
           OnlyChild(T, z, c, q),
           NEW U, U = Links!Without(Links!Transplant(T, z, c), z)
    PROVE  U \in Trees(M \ {z}) /\ Detached(M, T, U, z, c, q)
<1>2. Shape(M, T, sub) /\ T \in Trees(M) /\ Null \notin M
  BY DEF Shape
<1>3. /\ c \in M \cup {Null} /\ c # z /\ q \in M \cup {Null} /\ q # z
      /\ c # Null => T.node[c].parent = z
      /\ \A x \in M : T.node[x].parent = z => x = c
      /\ z # Null /\ q = T.node[z].parent
  BY <1>2, OnlyChildFacts DEF OnlyChild
<1>4. PICK T1 : T1 = Links!Relink(T, z, c)
  OBVIOUS
<1>5. PICK T2 : T2 = Links!WithParent(T1, c, q)
  OBVIOUS
<1>6. U = Links!Without(T2, z)
  BY <1>3, <1>4, <1>5 DEF Links!Transplant
<1>7. /\ T1 \in Trees(M) /\ T1.crashed = T.crashed /\ SameParents(M, T, T1)
      /\ T1.root = IF q = Null THEN c ELSE T.root
      /\ \A x \in M, t \in Links!Sides :
            T1.node[x][t] = IF x = q /\ T.node[x][t] = z THEN c ELSE T.node[x][t]
  BY <1>2, <1>3, <1>4, RelinkActs
<1>8. /\ T2 \in Trees(M) /\ SameTop(T1, T2) /\ SameSides(M, T1, T2) /\ ParentSet(M, T1, T2, c, q)
  BY <1>2, <1>3, <1>5, <1>7, WithParentActs
<1>9. ASSUME NEW x \in M, NEW t \in Links!Sides
      PROVE  T2.node[x][t] = IF T.node[x][t] = z THEN c ELSE T.node[x][t]
  <2>1. T.node[x][t] = z => x = q
    BY <1>2, <1>3, ParentOf
  <2>2. T2.node[x][t] = T1.node[x][t]
    BY <1>8 DEF SameSides
  <2> QED BY <1>7, <2>1, <2>2
<1>10. \A x \in M : T2.node[x].parent = IF x = c THEN q ELSE T.node[x].parent
  BY <1>7, <1>8 DEF SameParents, ParentSet
<1>11. T2.root = IF q = Null THEN c ELSE T.root
  BY <1>7, <1>8 DEF SameTop
<1>12. T2.root # z
  <2>1. q # Null => T.root # z
    BY <1>2, <1>3, OnlyRoot
  <2> QED BY <1>3, <1>11, <2>1
<1>13. Unused(M, T2, z)
  BY <1>3, <1>9, <1>10, <1>12 DEF Unused
<1>14. U \in Trees(M \ {z}) /\ SameRest(M, T2, U, z)
  BY <1>6, <1>8, <1>13, WithoutActs
<1>15. Detached(M, T, U, z, c, q)
  BY <1>9, <1>10, <1>11, <1>14 DEF Detached, SameRest
<1> QED BY <1>14, <1>15

LEMMA DetachKeeps ==
    ASSUME NEW M, NEW T, NEW key, IsTree(M, T, key), NEW z \in M, NEW c, NEW q,
           OnlyChild(T, z, c, q),
           NEW U, U = Links!Without(Links!Transplant(T, z, c), z)
    PROVE  IsTree(M \ {z}, U, key)
<1>1. PICK sub : Grown(M, T, sub, key)
  BY DEF IsTree
<1>2. U \in Trees(M \ {z}) /\ Detached(M, T, U, z, c, q)
  BY <1>1, DetachActs DEF Grown
<1>3. Grown(M \ {z}, U, [n \in M \ {z} |-> sub[n] \ {z}], key)
  BY <1>1, <1>2, DetachedGrown
<1> QED BY <1>3 DEF IsTree

(* z has two children, l and r, and y, the last one to the right below l,  *)
(* takes its place; x is what y leaves behind, m and q are the parents of  *)
(* y and z.                                                                *)
Succeeds(T, sub, z, l, r, y, x, m, q) ==
    /\ l = T.node[z].left /\ r = T.node[z].right /\ l # Null /\ r # Null
    /\ y \in sub[l] /\ T.node[y].right = Null /\ x = T.node[y].left
    /\ m = T.node[y].parent /\ q = T.node[z].parent
    /\ \A n \in sub[l], t \in Links!Sides : y \in Below(sub, T.node[n][t]) => t = "right"

LEMMA TakenBelow ==
    ASSUME NEW M, NEW sub, NEW T, Shape(M, T, sub), NEW z \in M,
           NEW l, NEW r, NEW y, NEW x, NEW m, NEW q, Succeeds(T, sub, z, l, r, y, x, m, q)
    PROVE  /\ l \in M /\ r \in M /\ y \in M /\ z # Null /\ y # Null
           /\ sub[z] = {z} \cup sub[l] \cup sub[r] /\ z \notin sub[l] /\ z \notin sub[r]
           /\ sub[l] \cap sub[r] = {}
           /\ l \in sub[l] /\ r \in sub[r] /\ y \in sub[l]
           /\ sub[l] \subseteq M /\ sub[r] \subseteq M
           /\ x \in M \cup {Null} /\ x # y
           /\ sub[y] = {y} \cup Below(sub, x) /\ y \notin Below(sub, x) /\ sub[y] \subseteq sub[l]
           /\ x # Null => x \in Below(sub, x)
<1>1. l = T.node[z]["left"] /\ r = T.node[z]["right"] /\ l # Null /\ r # Null /\ y \in sub[l]
  BY DEF Succeeds
<1>2. T \in Trees(M) /\ Null \notin M /\ Joint(T, sub, z, "left", "right")
      /\ "left" \in Links!Sides /\ "right" \in Links!Sides
  BY DEF Shape, Links!Sides
<1>3. l \in M /\ r \in M
  BY <1>1, <1>2, TreesFacts
<1>4. /\ sub[z] = {z} \cup sub[l] \cup sub[r] /\ z \notin sub[l] /\ z \notin sub[r]
      /\ sub[l] \cap sub[r] = {}
  BY <1>1, <1>2 DEF Joint, Below
<1>5. l \in sub[l] /\ r \in sub[r] /\ sub[l] \subseteq M /\ sub[r] \subseteq M
  BY <1>3, SubFacts
<1>6. y \in M /\ sub[y] \subseteq sub[l]
  BY <1>1, <1>3, Nested
<1>7. x = T.node[y]["left"] /\ T.node[y]["right"] = Null
  BY DEF Succeeds
<1>8. Joint(T, sub, y, "left", "right") /\ x \in M \cup {Null} /\ x # y
  BY <1>2, <1>6, <1>7, KidFacts DEF Shape
<1>9. sub[y] = {y} \cup Below(sub, x) /\ y \notin Below(sub, x)
  BY <1>7, <1>8 DEF Joint, Below
<1>10. x # Null => x \in Below(sub, x)
  BY <1>8, SubFacts DEF Below
<1> QED BY <1>1, <1>2, <1>3, <1>4, <1>5, <1>6, <1>8, <1>9, <1>10

LEMMA TakenParents ==
    ASSUME NEW M, NEW sub, NEW T, Shape(M, T, sub), NEW z \in M,
           NEW l, NEW r, NEW y, NEW x, NEW m, NEW q, Succeeds(T, sub, z, l, r, y, x, m, q)
    PROVE  /\ q \in M \cup {Null} /\ q \notin sub[z]
           /\ T.node[l].parent = z /\ T.node[r].parent = z
           /\ x # Null => T.node[x].parent = y
           /\ y = l => m = z
           /\ y # l => m \in sub[l] /\ m # y /\ T.node[m].right = y /\ T.node[m].left # y
           /\ \A n \in M, t \in Links!Sides :
                 T.node[n][t] = y => n = m /\ (y = l \/ t = "right")
           /\ \A n \in M : T.node[n].parent = z => n = l \/ n = r
           /\ \A n \in M : T.node[n].parent = y => n = x
<1>1. /\ l = T.node[z]["left"] /\ r = T.node[z]["right"] /\ l # Null /\ r # Null
      /\ m = T.node[y].parent /\ q = T.node[z].parent
      /\ x = T.node[y]["left"] /\ T.node[y]["right"] = Null
      /\ \A n \in sub[l], t \in Links!Sides : y \in Below(sub, T.node[n][t]) => t = "right"
  BY DEF Succeeds
<1>2. T \in Trees(M) /\ Null \notin M
      /\ "left" \in Links!Sides /\ "right" \in Links!Sides
  BY DEF Shape, Links!Sides
<1>3. /\ l \in M /\ r \in M /\ y \in M /\ z # Null /\ y # Null /\ l \in sub[l] /\ y \in sub[l]
      /\ sub[z] = {z} \cup sub[l] \cup sub[r] /\ z \notin sub[l] /\ sub[l] \subseteq M
      /\ x \in M \cup {Null} /\ x # y
  BY TakenBelow
<1>4. q \in M \cup {Null}
  BY <1>1, <1>2, TreesFacts
<1>5. ASSUME q # Null PROVE q \notin sub[z]
  <2>1. PICK t \in Links!Sides : T.node[T.node[z].parent][t] = z
    BY <1>1, <1>5, HasParent
  <2>2. q \in M /\ T.node[q][t] = z
    BY <1>1, <1>4, <1>5, <2>1
  <2> QED BY <1>3, <2>2, KidFacts
<1>6. Null \notin sub[z]
  BY <1>2, SubFacts
<1>7. /\ T.node[l].parent = z /\ T.node[r].parent = z
      /\ x # Null => T.node[x].parent = y
  BY <1>1, <1>2, <1>3, KidParent
<1>8. ASSUME y # l
      PROVE  m \in sub[l] /\ m # y /\ T.node[m].right = y /\ T.node[m].left # y
  <2>1. m \in sub[l] /\ m \in M
    BY <1>1, <1>3, <1>8, Ancestors
  <2>2. m # y
    BY <1>1, <1>3, ParentFacts
  <2>3. T.node[y].parent # Null
    BY <1>1, <1>2, <2>1
  <2>4. PICK t \in Links!Sides : T.node[T.node[y].parent][t] = y
    BY <1>3, <2>3, HasParent
  <2>5. y \in Below(sub, y)
    BY <1>3, SubFacts DEF Below
  <2>6. \A s \in Links!Sides : T.node[m][s] = y => s = "right"
    BY <1>1, <2>1, <2>5
  <2>7. T.node[m][t] = y
    BY <1>1, <2>4
  <2> QED BY <1>2, <2>1, <2>2, <2>6, <2>7
<1>9. ASSUME NEW n \in M, NEW t \in Links!Sides, T.node[n][t] = y
      PROVE  n = m /\ (y = l \/ t = "right")
  <2>1. n = m
    BY <1>1, <1>3, <1>9, ParentOf
  <2> QED BY <1>8, <1>9, <2>1 DEF Links!Sides
<1>10. ASSUME NEW n \in M, T.node[n].parent = z PROVE n = l \/ n = r
  <2>1. T.node[n].parent # Null
    BY <1>3, <1>10
  <2>2. PICK t \in Links!Sides : T.node[T.node[n].parent][t] = n
    BY <2>1, HasParent
  <2> QED BY <1>1, <1>10, <2>2 DEF Links!Sides
<1>11. ASSUME NEW n \in M, T.node[n].parent = y PROVE n = x
  <2>1. T.node[n].parent # Null
    BY <1>3, <1>11
  <2>2. PICK t \in Links!Sides : T.node[T.node[n].parent][t] = n
    BY <2>1, HasParent
  <2> QED BY <1>1, <1>2, <1>11, <2>2 DEF Links!Sides
<1>12. y = l => m = z
  BY <1>1, <1>7
<1> QED BY <1>4, <1>5, <1>6, <1>7, <1>8, <1>9, <1>10, <1>11, <1>12

(* The last one to the right has the largest key. *)
LEMMA LastIsLargest ==
    ASSUME NEW M, NEW sub, NEW T, NEW key, Grown(M, T, sub, key), NEW l \in M, NEW y \in sub[l],
           \A n \in sub[l], t \in Links!Sides : y \in Below(sub, T.node[n][t]) => t = "right",
           T.node[y].right = Null
    PROVE  \A n \in sub[l] : key[n] <= key[y]
<1> DEFINE S == {n \in M : n \in sub[l] /\ y \in sub[n] => \A k \in sub[n] : key[k] <= key[y]}
<1>1. Shape(M, T, sub) /\ y \in M /\ \A n \in M : key[n] \in Int
  BY Nested DEF Grown
<1>2. ASSUME NEW n \in M, \A s \in Links!Sides : T.node[n][s] \in S \cup {Null}
      PROVE  n \in S
  <2>1. SUFFICES ASSUME n \in sub[l], y \in sub[n] PROVE \A k \in sub[n] : key[k] <= key[y]
    OBVIOUS
  <2>2. /\ Joint(T, sub, n, "left", "right") /\ SortedAt(T, sub, key, n, "left", "right")
        /\ "left" \in Links!Sides /\ "right" \in Links!Sides
    BY <1>1 DEF Grown, Shape, Links!Sides
  <2>3. y \notin Below(sub, T.node[n]["left"])
    BY <2>1, <2>2
  <2>4. \A k \in Below(sub, T.node[n]["left"]) : k \in M /\ key[k] <= key[n]
    <3>1. sub[n] \subseteq M
      BY <1>1, SubFacts
    <3> QED BY <2>2, <3>1 DEF SortedAt, Joint, Before
  <2>5. CASE y = n
    <3>1. sub[n] = {n} \cup Below(sub, T.node[n]["left"])
      BY <2>2, <2>5 DEF Joint, Below
    <3> QED BY <1>1, <2>4, <2>5, <3>1
  <2>6. CASE y \in Below(sub, T.node[n]["right"])
    <3>1. PICK c : c = T.node[n]["right"] /\ c # Null /\ y \in sub[c]
      BY <2>6 DEF Below
    <3>2. c \in S /\ c \in sub[n] /\ Below(sub, c) = sub[c]
      BY <1>1, <1>2, <2>2, <3>1, KidFacts DEF Below
    <3>3. c \in sub[l]
      BY <1>1, <2>1, <3>2, Nested
    <3>4. \A k \in sub[c] : key[k] <= key[y]
      BY <3>1, <3>2, <3>3
    <3>5. key[n] <= key[y]
      BY <2>2, <2>6 DEF SortedAt, Before
    <3>6. \A k \in Below(sub, T.node[n]["left"]) : key[k] <= key[y]
      BY <1>1, <2>4, <3>5
    <3> QED BY <2>2, <3>1, <3>2, <3>4, <3>5, <3>6 DEF Joint
  <2> QED BY <2>1, <2>2, <2>3, <2>5, <2>6 DEF Joint
<1>3. M \subseteq S
  <2> HIDE DEF S
  <2> QED BY <1>1, <1>2, TreeInduction
<1>4. l \in sub[l]
  BY <1>1, SubFacts
<1> QED BY <1>3, <1>4

(* The node y has taken the name and the place of z. *)
Renamed(N, T, U, z, y) ==
    /\ U.root = IF T.root = z THEN y ELSE T.root
    /\ \A t \in Links!Sides : U.node[y][t] = T.node[z][t]
    /\ U.node[y].parent = T.node[z].parent
    /\ \A n \in N \ {z}, t \in Links!Sides :
          U.node[n][t] = IF T.node[n][t] = z THEN y ELSE T.node[n][t]
    /\ \A n \in N \ {z} :
          U.node[n].parent = IF T.node[n].parent = z THEN y ELSE T.node[n].parent

(* The key of y suits the place of z. *)
Suits(T, sub, key, z, y) ==
    \A t \in Links!Sides : \A k \in Below(sub, T.node[z][t]) : Before(t, key[k], key[y])

LEMMA RenamedGrown ==
    ASSUME NEW N, NEW sub, NEW T, NEW key, Grown(N, T, sub, key), NEW z \in N,
           NEW y, y \notin N, y # Null, key[y] \in Int,
           Placed(N, T, sub, key, y, z), Suits(T, sub, key, z, y),
           NEW U \in Trees((N \ {z}) \cup {y}), Renamed(N, T, U, z, y)
    PROVE  IsTree((N \ {z}) \cup {y}, U, key)
<1>1. PICK O : O = (N \ {z}) \cup {y}
  OBVIOUS
<1> DEFINE Re(S) == IF z \in S THEN (S \ {z}) \cup {y} ELSE S
           to(n) == IF n = z THEN y ELSE n
<1>2. PICK sub2 : sub2 = [n \in O |-> IF n = y THEN Re(sub[z]) ELSE Re(sub[n])]
  OBVIOUS
<1>3. /\ Shape(N, T, sub) /\ T \in Trees(N) /\ Null \notin N /\ IsFiniteSet(N)
      /\ sub \in [N -> SUBSET N] /\ Top(N, T, sub) /\ Null \notin O
  BY <1>1 DEF Grown, Shape
<1>4. "left" \in Links!Sides /\ "right" \in Links!Sides
  BY DEF Links!Sides
<1>5. /\ sub2 \in [O -> SUBSET O]
      /\ \A n \in N : sub2[to(n)] = Re(sub[n])
  BY <1>1, <1>2, <1>3
<1>6. \A n \in N \cup {Null} : Below(sub2, to(n)) = Re(Below(sub, n))
  BY <1>1, <1>3, <1>5 DEF Below
<1>7. \A n \in N, t \in Links!Sides : T.node[n][t] \in N \cup {Null} /\ T.node[n][t] # n
  BY <1>3, KidFacts
<1>8. \A n \in N : T.node[n].parent \in N \cup {Null} /\ T.node[n].parent # n
  BY <1>3, ParentFacts
<1>9. \A n \in N, t \in Links!Sides : U.node[to(n)][t] = to(T.node[n][t])
  BY <1>7 DEF Renamed
<1>10. \A n \in N : U.node[to(n)].parent = to(T.node[n].parent)
  BY <1>8 DEF Renamed
<1>11. U.root = to(T.root)
  BY DEF Renamed
<1>12. \A n \in N \cup {Null} : to(n) = Null <=> n = Null
  BY <1>3
<1>13. \A n, k \in N \cup {Null} : to(n) = to(k) <=> n = k
  OBVIOUS
<1>14. \A S, R : S \subseteq N /\ R \subseteq N =>
          /\ Re(S \cup R) = Re(S) \cup Re(R)
          /\ S \cap R = {} => Re(S) \cap Re(R) = {}
          /\ \A n \in N : n \notin S => to(n) \notin Re(S)
          /\ \A n \in N : Re({n}) = {to(n)}
  OBVIOUS
<1> HIDE DEF Re, to
<1>15. ASSUME NEW n \in N PROVE Joint(U, sub2, to(n), "left", "right")
  <2>1. Joint(T, sub, n, "left", "right") /\ sub[n] \subseteq N
    BY <1>3 DEF Shape
  <2>2. PICK A, B : A = Below(sub, T.node[n]["left"]) /\ B = Below(sub, T.node[n]["right"])
    OBVIOUS
  <2>3. sub[n] = {n} \cup A \cup B /\ n \notin A /\ n \notin B /\ A \cap B = {}
        /\ A \subseteq N /\ B \subseteq N
    BY <2>1, <2>2 DEF Joint
  <2>4. PICK A2, B2 : A2 = Below(sub2, U.node[to(n)]["left"])
                      /\ B2 = Below(sub2, U.node[to(n)]["right"])
    OBVIOUS
  <2>5. A2 = Re(A) /\ B2 = Re(B) /\ sub2[to(n)] = Re(sub[n])
    BY <1>4, <1>5, <1>6, <1>7, <1>9, <2>2, <2>4
  <2>6. sub2[to(n)] = {to(n)} \cup A2 \cup B2
    <3>1. Re(({n} \cup A) \cup B) = Re({n} \cup A) \cup Re(B)
      BY <1>14, <2>3
    <3>2. Re({n} \cup A) = Re({n}) \cup Re(A)
      BY <1>14, <2>3
    <3>3. Re({n}) = {to(n)}
      BY <1>14
    <3> QED BY <2>3, <2>5, <3>1, <3>2, <3>3
  <2>7. to(n) \notin A2 /\ to(n) \notin B2 /\ A2 \cap B2 = {}
    BY <1>14, <2>3, <2>5
  <2>8. ASSUME NEW t \in Links!Sides, U.node[to(n)][t] # Null
        PROVE  U.node[U.node[to(n)][t]].parent = to(n)
    <3>1. T.node[n][t] # Null /\ T.node[n][t] \in N /\ U.node[to(n)][t] = to(T.node[n][t])
      BY <1>7, <1>9, <1>12, <2>8
    <3>2. T.node[T.node[n][t]].parent = n
      BY <1>3, <3>1, KidParent
    <3> QED BY <1>10, <3>1, <3>2
  <2>9. U.node[to(n)].parent = Null => U.root = to(n)
    <3>1. T.node[n].parent = Null <=> T.root = n
      BY <1>3, OnlyRoot
    <3> QED BY <1>8, <1>10, <1>11, <1>12, <3>1
  <2>10. ASSUME U.node[to(n)].parent # Null
         PROVE  \E t \in Links!Sides : U.node[U.node[to(n)].parent][t] = to(n)
    <3>1. T.node[n].parent # Null
      BY <1>8, <1>10, <1>12, <2>10
    <3>2. T.node[n].parent \in N
      BY <1>3, <3>1, HasParent
    <3>3. PICK t \in Links!Sides : T.node[T.node[n].parent][t] = n
      BY <1>3, <3>1, HasParent
    <3>4. U.node[to(T.node[n].parent)][t] = to(n)
      BY <1>9, <3>2, <3>3
    <3> QED BY <1>10, <3>4
  <2> QED BY <1>4, <2>4, <2>6, <2>7, <2>8, <2>9, <2>10 DEF Joint, Links!Sides
<1>16. ASSUME NEW n \in N, NEW t \in Links!Sides, NEW k \in Below(sub2, U.node[to(n)][t])
       PROVE  Before(t, key[k], key[to(n)])
  <2>1. k \in Re(Below(sub, T.node[n][t]))
    BY <1>6, <1>7, <1>9, <1>16
  <2>2. SortedAt(T, sub, key, n, t, Links!Other(t))
    BY SortedSides
  <2>3. CASE n = z
    <3>1. z \notin Below(sub, T.node[z][t])
      BY <1>3, <2>3, KidFacts DEF Below
    <3>2. k \in Below(sub, T.node[z][t]) /\ to(n) = y
      BY <2>1, <2>3, <3>1 DEF Re, to
    <3> QED BY <3>2 DEF Suits
  <2>4. CASE n # z
    <3>1. to(n) = n
      BY <2>4 DEF to
    <3>2. CASE z \in Below(sub, T.node[n][t])
      <4>1. Before(t, key[y], key[n])
        BY <3>2 DEF Placed
      <4>2. k = y \/ k \in Below(sub, T.node[n][t])
        BY <2>1, <3>2 DEF Re
      <4> QED BY <2>2, <3>1, <4>1, <4>2 DEF SortedAt
    <3>3. CASE z \notin Below(sub, T.node[n][t])
      BY <2>1, <2>2, <3>1, <3>3 DEF Re, SortedAt
    <3> QED BY <3>2, <3>3
  <2> QED BY <2>3, <2>4
<1>17. \A k \in O : \E n \in N : k = to(n)
  BY <1>1 DEF to
<1>18. Top(O, U, sub2)
  <2>1. T.root \in N /\ T.node[T.root].parent = Null /\ sub[T.root] = N /\ T.root # Null
    BY <1>3, TreesFacts DEF Top
  <2>2. sub2[to(T.root)] = O
    BY <1>1, <1>5, <2>1 DEF Re
  <2>3. U.node[to(T.root)].parent = Null
    <3>1. to(Null) = Null
      BY <1>12
    <3> QED BY <1>10, <2>1, <3>1
  <2>4. to(T.root) # Null /\ O # {}
    BY <1>1, <1>12, <2>1
  <2> QED BY <1>11, <2>2, <2>3, <2>4 DEF Top
<1>19. IsFiniteSet(O)
  BY <1>1, <1>3, FS_RemoveElement, FS_AddElement
<1>20. \A k \in O : Joint(U, sub2, k, "left", "right")
  BY <1>15, <1>17
<1>21. \A k \in O : SortedAt(U, sub2, key, k, "left", "right")
  BY <1>4, <1>16, <1>17 DEF SortedAt
<1>22. Shape(O, U, sub2)
  BY <1>1, <1>3, <1>5, <1>18, <1>19, <1>20 DEF Shape
<1>23. \A k \in O : key[k] \in Int
  BY <1>1 DEF Grown
<1> QED BY <1>1, <1>21, <1>22, <1>23 DEF IsTree, Grown

(* y has left its place to x and hangs above l; if it was l it stays. *)
Lifted(M, T, U, l, y, x, m) ==
    /\ U.root = T.root
    /\ \A n \in M, t \in Links!Sides :
          U.node[n][t] = IF y # l /\ n = y /\ t = "left" THEN l
                         ELSE IF y # l /\ T.node[n][t] = y THEN x ELSE T.node[n][t]
    /\ \A n \in M :
          U.node[n].parent = IF y # l /\ n = l THEN y
                             ELSE IF y # l /\ n = x THEN m ELSE T.node[n].parent

LEMMA LiftActs ==
    ASSUME NEW M, NEW sub, NEW T, Shape(M, T, sub), NEW z \in M,
           NEW l, NEW r, NEW y, NEW x, NEW m, NEW q, Succeeds(T, sub, z, l, r, y, x, m, q), y # l,
           NEW U, U = Links!WithParent(Links!WithChild(Links!Transplant(T, y, x), y, "left", l), l, y)
    PROVE  U \in Trees(M) /\ Lifted(M, T, U, l, y, x, m)
<1>1. /\ T \in Trees(M) /\ Null \notin M /\ "left" \in Links!Sides
      /\ m = T.node[y].parent
  BY DEF Shape, Links!Sides, Succeeds
<1>2. l \in M /\ y \in M /\ y # Null /\ x \in M \cup {Null} /\ m \in M /\ sub[l] \subseteq M
  BY TakenBelow, TakenParents
<1>3. \A n \in M, t \in Links!Sides : T.node[n][t] = y => n = m
  BY TakenParents
<1>4. PICK T1 : T1 = Links!Relink(T, y, x)
  OBVIOUS
<1>5. PICK T2 : T2 = Links!WithParent(T1, x, m)
  OBVIOUS
<1>6. PICK T3 : T3 = Links!WithChild(T2, y, "left", l)
  OBVIOUS
<1>7. U = Links!WithParent(T3, l, y)
  BY <1>1, <1>4, <1>5, <1>6 DEF Links!Transplant
<1>8. /\ T1 \in Trees(M) /\ SameParents(M, T, T1)
      /\ T1.root = T.root
      /\ \A n \in M, t \in Links!Sides :
            T1.node[n][t] = IF n = m /\ T.node[n][t] = y THEN x ELSE T.node[n][t]
  <2>1. m # Null
    BY <1>1, <1>2
  <2> QED BY <1>1, <1>2, <1>4, <2>1, RelinkActs
<1>9. T2 \in Trees(M) /\ SameTop(T1, T2) /\ SameSides(M, T1, T2) /\ ParentSet(M, T1, T2, x, m)
  BY <1>1, <1>2, <1>5, <1>8, WithParentActs
<1>10. /\ T3 \in Trees(M) /\ SameTop(T2, T3) /\ SameParents(M, T2, T3)
       /\ ChildSet(M, T2, T3, y, "left", l)
  BY <1>1, <1>2, <1>6, <1>9, WithChildActs
<1>11. U \in Trees(M) /\ SameTop(T3, U) /\ SameSides(M, T3, U) /\ ParentSet(M, T3, U, l, y)
  BY <1>1, <1>2, <1>7, <1>10, WithParentActs
<1>12. U.root = T.root
  BY <1>8, <1>9, <1>10, <1>11 DEF SameTop
<1>13. ASSUME NEW n \in M, NEW t \in Links!Sides
       PROVE  U.node[n][t] = IF n = y /\ t = "left" THEN l
                             ELSE IF T.node[n][t] = y THEN x ELSE T.node[n][t]
  <2>1. U.node[n][t] = IF n = y /\ t = "left" THEN l ELSE T1.node[n][t]
    BY <1>9, <1>10, <1>11 DEF SameSides, ChildSet
  <2> QED BY <1>3, <1>8, <2>1
<1>14. ASSUME NEW n \in M
       PROVE  U.node[n].parent = IF n = l THEN y ELSE IF n = x THEN m ELSE T.node[n].parent
  BY <1>8, <1>9, <1>10, <1>11 DEF SameParents, ParentSet
<1> QED BY <1>11, <1>12, <1>13, <1>14 DEF Lifted

(* z is gone and y has its place. *)
Replaced(M, T, U, z, l, r, y, x, m, q) ==
    /\ U.root = IF q = Null THEN y ELSE T.root
    /\ U.node[y].left = (IF y = l THEN x ELSE l) /\ U.node[y].right = r
    /\ \A n \in M \ {z, y}, t \in Links!Sides :
          U.node[n][t] = IF T.node[n][t] = z THEN y
                         ELSE IF T.node[n][t] = y THEN x ELSE T.node[n][t]
    /\ U.node[y].parent = q
    /\ \A n \in M \ {z, y} :
          U.node[n].parent = IF n = r \/ n = l THEN y
                             ELSE IF y # l /\ n = x THEN m ELSE T.node[n].parent

LEMMA ReplaceActs ==
    ASSUME NEW M, NEW sub, NEW T, Shape(M, T, sub), NEW z \in M,
           NEW l, NEW r, NEW y, NEW x, NEW m, NEW q, Succeeds(T, sub, z, l, r, y, x, m, q),
           NEW T1 \in Trees(M), Lifted(M, T, T1, l, y, x, m), NEW red \in BOOLEAN,
           NEW T2, T2 = Links!Paint(Links!WithChild(Links!WithParent(Links!Transplant(T1, z, y), r, y),
                                                    y, "right", r), y, red),
           NEW U, U = Links!Without(T2, z)
    PROVE  U \in Trees(M \ {z}) /\ Replaced(M, T, U, z, l, r, y, x, m, q)
<1>1. /\ T \in Trees(M) /\ Null \notin M /\ "left" \in Links!Sides /\ "right" \in Links!Sides
      /\ q = T.node[z].parent /\ l = T.node[z]["left"] /\ r = T.node[z]["right"]
      /\ T.node[y]["right"] = Null /\ x = T.node[y]["left"] /\ m = T.node[y].parent
  BY DEF Shape, Links!Sides, Succeeds
<1>2. /\ l \in M /\ r \in M /\ y \in M /\ y # Null /\ x \in M \cup {Null} /\ x # y
      /\ sub[l] \subseteq M /\ z \notin sub[l] /\ sub[l] \cap sub[r] = {}
      /\ sub[z] = {z} \cup sub[l] \cup sub[r] /\ l \in sub[l] /\ r \in sub[r] /\ y \in sub[l]
      /\ y # z /\ l # z /\ r # z /\ r # y /\ r # l /\ z # Null
  BY TakenBelow
<1>3. x # z
  <2>1. x # Null => x \in sub[l]
    BY TakenBelow
  <2> QED BY <1>2, <2>1
<1>4. /\ q \in M \cup {Null} /\ q \notin sub[z] /\ m \in sub[z]
      /\ T.node[l].parent = z /\ T.node[r].parent = z
      /\ \A n \in M, t \in Links!Sides :
            T.node[n][t] = y => n = m /\ (y = l \/ t = "right")
      /\ \A n \in M : T.node[n].parent = z => n = l \/ n = r
  BY <1>2, TakenParents
<1>5. /\ T1.root = T.root
      /\ \A n \in M, t \in Links!Sides :
            T1.node[n][t] = IF y # l /\ n = y /\ t = "left" THEN l
                            ELSE IF y # l /\ T.node[n][t] = y THEN x ELSE T.node[n][t]
      /\ \A n \in M :
            T1.node[n].parent = IF y # l /\ n = l THEN y
                                ELSE IF y # l /\ n = x THEN m ELSE T.node[n].parent
  BY DEF Lifted
<1>6. T1.node[z].parent = q
  BY <1>1, <1>2, <1>3, <1>5
<1>7. OnOneSide(T1, z, q)
  <2>1. OnOneSide(T, z, q)
    BY <1>1, OneSide
  <2>2. ASSUME q # Null, NEW t \in Links!Sides PROVE T1.node[q][t] = T.node[q][t]
    <3>1. q \in M /\ q # y /\ q # m
      BY <1>2, <1>4, <2>2
    <3> QED BY <1>4, <1>5, <3>1
  <2> QED BY <2>1, <2>2 DEF OnOneSide
<1>0. Null \notin M /\ y \in M \cup {Null} /\ r \in M \cup {Null} /\ q \in M \cup {Null}
  BY <1>1, <1>2, <1>4
<1>8. PICK R : R = Links!Relink(T1, z, y)
  OBVIOUS
<1>9. PICK W : W = Links!WithParent(R, y, q)
  OBVIOUS
<1>10. PICK V : V = Links!WithParent(W, r, y)
  OBVIOUS
<1>11. PICK C : C = Links!WithChild(V, y, "right", r)
  OBVIOUS
<1>12. T2 = Links!Paint(C, y, red)
  BY <1>6, <1>8, <1>9, <1>10, <1>11 DEF Links!Transplant
<1>13. /\ R \in Trees(M) /\ SameParents(M, T1, R)
       /\ R.root = IF q = Null THEN y ELSE T1.root
       /\ \A n \in M, t \in Links!Sides :
             R.node[n][t] = IF n = q /\ T1.node[n][t] = z THEN y ELSE T1.node[n][t]
  BY <1>0, <1>6, <1>7, <1>8, RelinkLinks
<1>14. W \in Trees(M) /\ SameTop(R, W) /\ SameSides(M, R, W) /\ ParentSet(M, R, W, y, q)
  BY <1>0, <1>9, <1>13, WithParentActs
<1>15. V \in Trees(M) /\ SameTop(W, V) /\ SameSides(M, W, V) /\ ParentSet(M, W, V, r, y)
  BY <1>0, <1>10, <1>14, WithParentActs
<1>16. /\ C \in Trees(M) /\ SameTop(V, C) /\ SameParents(M, V, C)
       /\ ChildSet(M, V, C, y, "right", r)
  BY <1>1, <1>2, <1>11, <1>15, WithChildActs
<1>17. T2 \in Trees(M) /\ SameTop(C, T2) /\ SameSides(M, C, T2) /\ SameParents(M, C, T2)
  BY <1>1, <1>2, <1>12, <1>16, PaintActs
<1>18. T2.root = IF q = Null THEN y ELSE T.root
  BY <1>5, <1>13, <1>14, <1>15, <1>16, <1>17 DEF SameTop
<1>19. ASSUME NEW n \in M, NEW t \in Links!Sides
       PROVE  T2.node[n][t] = IF n = y /\ t = "right" THEN r
                              ELSE IF T1.node[n][t] = z THEN y ELSE T1.node[n][t]
  <2>1. T2.node[n][t] = IF n = y /\ t = "right" THEN r ELSE R.node[n][t]
    BY <1>14, <1>15, <1>16, <1>17 DEF SameSides, ChildSet
  <2>2. T1.node[n][t] = z => n = q
    <3>1. T1.node[n][t] = z => T.node[n][t] = z
      BY <1>2, <1>3, <1>5
    <3> QED BY <1>1, <3>1, ParentOf
  <2> QED BY <1>13, <2>1, <2>2
<1>20. ASSUME NEW n \in M
       PROVE  T2.node[n].parent = IF n = r THEN y ELSE IF n = y THEN q ELSE T1.node[n].parent
  BY <1>13, <1>14, <1>15, <1>16, <1>17 DEF SameParents, ParentSet
<1>21. T2.node[y]["left"] = (IF y = l THEN x ELSE l) /\ T2.node[y]["right"] = r
  <2>1. T1.node[y]["left"] = IF y = l THEN x ELSE l
    BY <1>1, <1>2, <1>5
  <2>2. "left" # "right"
    OBVIOUS
  <2>3. T1.node[y]["left"] # z
    BY <1>2, <1>3, <2>1
  <2>4. y \in M
    BY <1>2
  <2>5. \A t \in Links!Sides :
           T2.node[y][t] = IF t = "right" THEN r
                           ELSE IF T1.node[y][t] = z THEN y ELSE T1.node[y][t]
    BY <1>19, <2>4
  <2>6. "left" \in Links!Sides /\ "right" \in Links!Sides
    BY DEF Links!Sides
  <2>7. T2.node[y]["left"] = T1.node[y]["left"]
    BY <2>2, <2>3, <2>5, <2>6
  <2>8. T2.node[y]["right"] = r
    BY <2>5, <2>6
  <2> QED BY <2>1, <2>7, <2>8
<1>22. ASSUME NEW n \in M \ {z, y}, NEW t \in Links!Sides
       PROVE  T2.node[n][t] = IF T.node[n][t] = z THEN y
                              ELSE IF T.node[n][t] = y THEN x ELSE T.node[n][t]
  <2>1. T1.node[n][t] = IF T.node[n][t] = y THEN x ELSE T.node[n][t]
    <3>1. T.node[n][t] = y => y # l
      BY <1>1, <1>4
    <3> QED BY <1>5, <3>1
  <2> QED BY <1>2, <1>3, <1>19, <2>1
<1>23. T2.node[y].parent = q
  BY <1>2, <1>20
<1>24. ASSUME NEW n \in M \ {z, y}
       PROVE  T2.node[n].parent = IF n = r \/ n = l THEN y
                                  ELSE IF y # l /\ n = x THEN m ELSE T.node[n].parent
  BY <1>5, <1>20
<1>25. Unused(M, T2, z)
  <2>1. T2.root # z
    <3>1. q # Null => T.root # z
      BY <1>1, OnlyRoot
    <3> QED BY <1>2, <1>18, <3>1
  <2>2. ASSUME NEW n \in M \ {z}, NEW t \in Links!Sides PROVE T2.node[n][t] # z
    BY <1>2, <1>3, <1>5, <1>19
  <2>3. ASSUME NEW n \in M \ {z} PROVE T2.node[n].parent # z
    <3>1. CASE n = y
      BY <1>2, <1>4, <1>23, <3>1
    <3>2. CASE n # y /\ (n = r \/ n = l)
      BY <1>2, <1>24, <3>2
    <3>3. CASE n # y /\ n # r /\ n # l
      <4>1. m = z => y = l
        BY <1>2, TakenParents
      <4> QED BY <1>4, <1>24, <3>3, <4>1
    <3> QED BY <3>1, <3>2, <3>3
  <2> QED BY <2>1, <2>2, <2>3 DEF Unused
<1>26. U \in Trees(M \ {z}) /\ SameRest(M, T2, U, z)
  BY <1>17, <1>25, WithoutActs
<1>27. /\ U.root = T2.root
       /\ \A n \in M \ {z} : U.node[n] = T2.node[n]
  BY <1>26 DEF SameRest
<1>28. y \in M \ {z}
  BY <1>2
<1>29. U.root = IF q = Null THEN y ELSE T.root
  BY <1>18, <1>27
<1>30. U.node[y].left = (IF y = l THEN x ELSE l) /\ U.node[y].right = r /\ U.node[y].parent = q
  BY <1>21, <1>23, <1>27, <1>28
<1>31. \A n \in M \ {z, y}, t \in Links!Sides :
          U.node[n][t] = IF T.node[n][t] = z THEN y
                         ELSE IF T.node[n][t] = y THEN x ELSE T.node[n][t]
  BY <1>22, <1>27
<1>32. \A n \in M \ {z, y} :
          U.node[n].parent = IF n = r \/ n = l THEN y
                             ELSE IF y # l /\ n = x THEN m ELSE T.node[n].parent
  BY <1>24, <1>27
<1> QED BY <1>26, <1>29, <1>30, <1>31, <1>32 DEF Replaced

LEMMA ReplacedGrown ==
    ASSUME NEW M, NEW sub, NEW T, NEW key, Grown(M, T, sub, key), NEW z \in M,
           NEW l, NEW r, NEW y, NEW x, NEW m, NEW q, Succeeds(T, sub, z, l, r, y, x, m, q),
           NEW U \in Trees(M \ {z}), Replaced(M, T, U, z, l, r, y, x, m, q)
    PROVE  IsTree(M \ {z}, U, key)
<1>1. /\ Shape(M, T, sub) /\ T \in Trees(M) /\ Null \notin M
      /\ \A n \in M : key[n] \in Int
      /\ "left" \in Links!Sides /\ "right" \in Links!Sides
  BY DEF Grown, Shape, Links!Sides
<1>2. /\ q = T.node[z].parent /\ l = T.node[z]["left"] /\ r = T.node[z]["right"]
      /\ T.node[y]["right"] = Null /\ x = T.node[y]["left"] /\ m = T.node[y].parent
      /\ \A n \in sub[l], t \in Links!Sides : y \in Below(sub, T.node[n][t]) => t = "right"
  BY DEF Succeeds
<1>3. /\ l \in M /\ r \in M /\ y \in M /\ y # Null /\ x \in M \cup {Null} /\ x # y
      /\ sub[l] \subseteq M /\ sub[r] \subseteq M /\ z \notin sub[l]
      /\ sub[l] \cap sub[r] = {} /\ r \in sub[r]
      /\ sub[z] = {z} \cup sub[l] \cup sub[r] /\ l \in sub[l] /\ y \in sub[l]
      /\ y # z /\ l # z /\ r # z /\ r # y /\ r # l /\ z # Null
      /\ sub[y] = {y} \cup Below(sub, x) /\ sub[y] \subseteq sub[l]
  BY <1>1, TakenBelow
<1>4. x # z /\ x # r
  <2>1. x # Null => x \in sub[l]
    BY <1>1, TakenBelow
  <2> QED BY <1>1, <1>3, <2>1
<1>5. /\ T.node[l].parent = z /\ T.node[r].parent = z
      /\ x # Null => T.node[x].parent = y
      /\ y = l => m = z
      /\ y # l => m \in sub[l]
      /\ \A n \in M : T.node[n].parent = z => n = l \/ n = r
  BY <1>1, TakenParents
<1>6. m \in M /\ m # Null
  BY <1>1, <1>3, <1>5
<1>7. PICK N, D, sub1 : N = M \ {y} /\ D = Links!Without(Links!Transplant(T, y, x), y)
                        /\ sub1 = [n \in M \ {y} |-> sub[n] \ {y}]
  OBVIOUS
<1>8. OnlyChild(T, y, x, m)
  BY <1>2 DEF OnlyChild
<1>9. D \in Trees(M \ {y}) /\ Detached(M, T, D, y, x, m)
  BY <1>1, <1>3, <1>7, <1>8, DetachActs
<1>10. Grown(M \ {y}, D, sub1, key)
  <2>1. Grown(M \ {y}, D, [n \in M \ {y} |-> sub[n] \ {y}], key)
    BY <1>3, <1>8, <1>9, DetachedGrown
  <2> QED BY <1>7, <2>1
<1>11. /\ D.root = T.root
       /\ \A n \in N, t \in Links!Sides :
             D.node[n][t] = IF T.node[n][t] = y THEN x ELSE T.node[n][t]
       /\ \A n \in N : D.node[n].parent = IF n = x THEN m ELSE T.node[n].parent
  BY <1>6, <1>7, <1>9 DEF Detached
<1>12. ASSUME NEW n \in N, NEW t \in Links!Sides
       PROVE  Below(sub1, D.node[n][t]) \subseteq Below(sub, T.node[n][t])
  <2>1. T.node[n][t] \in M \cup {Null}
    BY <1>1, <1>7, TreesFacts
  <2>2. CASE T.node[n][t] = y
    <3>1. Below(sub1, x) \subseteq Below(sub, x)
      BY <1>3, <1>7 DEF Below
    <3>2. Below(sub, y) = sub[y]
      BY <1>3 DEF Below
    <3> QED BY <1>3, <1>11, <2>2, <3>1, <3>2
  <2>3. CASE T.node[n][t] # y
    <3>1. D.node[n][t] = T.node[n][t]
      BY <1>11, <2>3
    <3> QED BY <1>7, <2>1, <2>3, <3>1 DEF Below
  <2> QED BY <2>2, <2>3
<1>13. Placed(N, D, sub1, key, y, z)
  <2>1. SUFFICES ASSUME NEW n \in N, NEW t \in Links!Sides, z \in Below(sub1, D.node[n][t])
                 PROVE  Before(t, key[y], key[n])
    BY DEF Placed
  <2>2. PICK c : c = T.node[n][t]
    OBVIOUS
  <2>3. z \in Below(sub, c) /\ c \in M \cup {Null} /\ n \in M
    BY <1>1, <1>7, <1>12, <2>1, <2>2, TreesFacts
  <2>4. c \in M /\ Below(sub, c) = sub[c]
    BY <2>3 DEF Below
  <2>5. y \in sub[c]
    <3>1. sub[z] \subseteq sub[c]
      BY <1>1, <2>3, <2>4, Nested
    <3> QED BY <1>3, <3>1
  <2>6. SortedAt(T, sub, key, n, t, Links!Other(t))
    BY <2>3, SortedSides
  <2> QED BY <2>2, <2>4, <2>5, <2>6 DEF SortedAt
<1>14. Suits(D, sub1, key, z, y)
  <2>1. SUFFICES ASSUME NEW t \in Links!Sides, NEW k \in Below(sub1, D.node[z][t])
                 PROVE  Before(t, key[k], key[y])
    BY DEF Suits
  <2>2. z \in N /\ k \in Below(sub, T.node[z][t])
    BY <1>3, <1>7, <1>12, <2>1
  <2>3. Below(sub, l) = sub[l] /\ Below(sub, r) = sub[r]
    BY <1>1, <1>3 DEF Below
  <2>4. SortedAt(T, sub, key, z, "left", "right")
    BY DEF Grown
  <2>5. CASE t = "left"
    <3>1. k \in sub[l]
      BY <1>2, <2>2, <2>3, <2>5
    <3>2. \A n \in sub[l] : key[n] <= key[y]
      BY <1>2, <1>3, LastIsLargest
    <3> QED BY <2>5, <3>1, <3>2 DEF Before
  <2>6. CASE t = "right"
    <3>1. k \in sub[r]
      BY <1>2, <2>2, <2>3, <2>6
    <3>2. key[y] <= key[z] /\ key[z] <= key[k]
      BY <1>2, <1>3, <2>3, <2>4, <3>1 DEF SortedAt, Before
    <3>3. key[y] <= key[k]
      BY <1>1, <1>3, <3>1, <3>2
    <3> QED BY <2>6, <3>3 DEF Before
  <2> QED BY <2>5, <2>6 DEF Links!Sides
<1>15. /\ U.root = IF q = Null THEN y ELSE T.root
       /\ U.node[y]["left"] = (IF y = l THEN x ELSE l) /\ U.node[y]["right"] = r
       /\ \A n \in M \ {z, y}, t \in Links!Sides :
             U.node[n][t] = IF T.node[n][t] = z THEN y
                            ELSE IF T.node[n][t] = y THEN x ELSE T.node[n][t]
       /\ U.node[y].parent = q
       /\ \A n \in M \ {z, y} :
             U.node[n].parent = IF n = r \/ n = l THEN y
                                ELSE IF y # l /\ n = x THEN m ELSE T.node[n].parent
  BY DEF Replaced
<1>16. U.root = IF D.root = z THEN y ELSE D.root
  <2>1. T.node[z].parent = Null <=> T.root = z
    BY <1>1, OnlyRoot
  <2> QED BY <1>2, <1>11, <1>15, <2>1
<1>17. \A t \in Links!Sides : U.node[y][t] = D.node[z][t]
  <2>1. z \in N
    BY <1>3, <1>7
  <2>2. D.node[z]["left"] = IF l = y THEN x ELSE l
    BY <1>1, <1>2, <1>11, <2>1
  <2>3. D.node[z]["right"] = r
    BY <1>1, <1>2, <1>3, <1>11, <2>1
  <2> QED BY <1>15, <2>2, <2>3 DEF Links!Sides
<1>18. U.node[y].parent = D.node[z].parent
  <2>1. z \in N
    BY <1>3, <1>7
  <2> QED BY <1>2, <1>4, <1>11, <1>15, <2>1
<1>19. ASSUME NEW n \in N \ {z}, NEW t \in Links!Sides
       PROVE  U.node[n][t] = IF D.node[n][t] = z THEN y ELSE D.node[n][t]
  BY <1>3, <1>4, <1>7, <1>11, <1>15
<1>20. ASSUME NEW n \in N \ {z}
       PROVE  U.node[n].parent = IF D.node[n].parent = z THEN y ELSE D.node[n].parent
  <2>1. n \in M \ {z, y} /\ n # Null
    BY <1>1, <1>7
  <2>2. l # x
    BY <1>1, <1>3, <1>5
  <2>3. D.node[n].parent = IF n = x THEN m ELSE T.node[n].parent
    BY <1>11
  <2>4. U.node[n].parent = IF n = r \/ n = l THEN y
                           ELSE IF y # l /\ n = x THEN m ELSE T.node[n].parent
    BY <1>15, <2>1
  <2>5. CASE n = r \/ n = l
    BY <1>4, <1>5, <2>2, <2>3, <2>4, <2>5
  <2>6. CASE n = x
    BY <1>3, <1>4, <1>5, <2>1, <2>2, <2>3, <2>4, <2>6
  <2>7. CASE n # r /\ n # l /\ n # x
    BY <1>5, <2>1, <2>3, <2>4, <2>7
  <2> QED BY <2>5, <2>6, <2>7
<1>21. Renamed(N, D, U, z, y)
  BY <1>16, <1>17, <1>18, <1>19, <1>20 DEF Renamed
<1>22. (N \ {z}) \cup {y} = M \ {z}
  BY <1>3, <1>7
<1>23. z \in N /\ y \notin N /\ key[y] \in Int /\ Grown(N, D, sub1, key)
  BY <1>1, <1>3, <1>7, <1>10
<1>24. U \in Trees((N \ {z}) \cup {y})
  BY <1>22
<1>25. IsTree((N \ {z}) \cup {y}, U, key)
  BY <1>3, <1>13, <1>14, <1>21, <1>23, <1>24, RenamedGrown
<1> QED BY <1>22, <1>25

(* The node that Remove puts in the place of z *)
LEMMA LastTaken ==
    ASSUME NEW M, NEW sub, NEW T, Shape(M, T, sub), NEW z \in M,
           NEW l, NEW r, l = T.node[z].left, r = T.node[z].right, l # Null, r # Null,
           NEW y, y = Links!Last(T, l, "right")
    PROVE  Succeeds(T, sub, z, l, r, y, T.node[y].left, T.node[y].parent, T.node[z].parent)
<1>1. /\ T \in Trees(M) /\ Null \notin M /\ Links!Members(T) = M
      /\ "right" \in Links!Sides /\ "left" \in Links!Sides
  BY TreesFacts DEF Shape, Links!Sides
<1>2. l \in M
  BY <1>1, TreesFacts
<1>3. PICK sd : sd = [n \in M |-> "right"]
  OBVIOUS
<1>4. sd \in [M -> Links!Sides]
  BY <1>1, <1>3
<1> DEFINE Leaf(g) == g = [n \in M |-> IF T.node[n]["right"] = Null THEN n
                                       ELSE g[T.node[n]["right"]]]
<1>5. PICK f : f = CHOOSE g : Leaf(g)
  OBVIOUS
<1>6. Leaf(f)
  <2>1. PICK g : g = [n \in M |-> IF T.node[n][sd[n]] = Null THEN n ELSE g[T.node[n][sd[n]]]]
    BY <1>4, DescentExists
  <2>2. Leaf(g)
    BY <1>3, <2>1
  <2> HIDE DEF Leaf
  <2> QED BY <1>5, <2>2
<1>7. Descent(f, M, T, sd)
  BY <1>3, <1>6 DEF Descent
<1>8. y = f[l]
  BY <1>1, <1>5 DEF Links!Last
<1> HIDE DEF Leaf
<1>9. /\ f[l] \in sub[l]
      /\ T.node[f[l]][sd[f[l]]] = Null
      /\ \A n \in sub[l], t \in Links!Sides : f[l] \in Below(sub, T.node[n][t]) => t = sd[n]
  BY <1>2, <1>4, <1>7, DescentFacts
<1>10. sub[l] \subseteq M
  BY <1>2, SubFacts
<1> QED BY <1>3, <1>8, <1>9, <1>10 DEF Succeeds

LEMMA RemoveKeeps ==
    ASSUME NEW M, NEW T, NEW key, IsTree(M, T, key), NEW z \in M
    PROVE  IsTree(M \ {z}, Links!Remove(T, z), key)
<1>1. PICK sub : Grown(M, T, sub, key)
  BY DEF IsTree
<1>2. Shape(M, T, sub) /\ T \in Trees(M) /\ Null \notin M
  BY <1>1 DEF Grown, Shape
<1>3. PICK l, r, q : l = T.node[z].left /\ r = T.node[z].right /\ q = T.node[z].parent
  OBVIOUS
<1>4. ASSUME NEW x \in (M \ {z}) \cup {Null}, NEW U, IsTree(M \ {z}, U, key), NEW red
      PROVE  IsTree(M \ {z}, IF red \/ x = Null THEN U ELSE Links!RepairRemove(U, x), key)
  <2>1. CASE x = Null
    BY <1>4, <2>1
  <2>2. CASE x # Null
    <3>1. IsTree(M \ {z}, Links!RepairRemove(U, x), key)
      BY <1>4, <2>2, RepairRemoveKeeps
    <3> QED BY <1>4, <3>1
  <2> QED BY <2>1, <2>2
<1>5. CASE l = Null \/ r = Null
  <2>1. PICK x : x = IF l = Null THEN r ELSE l
    OBVIOUS
  <2>2. PICK U : U = Links!Without(Links!Transplant(T, z, x), z)
    OBVIOUS
  <2>3. Links!Remove(T, z) = IF Links!IsRed(T, z) \/ x = Null THEN U ELSE Links!RepairRemove(U, x)
    BY <1>3, <1>5, <2>1, <2>2 DEF Links!Remove
  <2>4. OnlyChild(T, z, x, q)
    BY <1>3, <1>5, <2>1 DEF OnlyChild
  <2>5. IsTree(M \ {z}, U, key)
    BY <2>2, <2>4, DetachKeeps
  <2>6. x \in (M \ {z}) \cup {Null}
    BY <1>2, <2>4, OnlyChildFacts
  <2> QED BY <1>4, <2>3, <2>5, <2>6
<1>6. CASE l # Null /\ r # Null
  <2>1. PICK y : y = Links!Last(T, l, "right")
    OBVIOUS
  <2>2. PICK x, m : x = T.node[y].left /\ m = T.node[y].parent
    OBVIOUS
  <2>3. Succeeds(T, sub, z, l, r, y, x, m, q)
    BY <1>2, <1>3, <1>6, <2>1, <2>2, LastTaken
  <2>4. /\ z \notin sub[l] /\ x \in M \cup {Null}
        /\ x # Null => x \in Below(sub, x)
        /\ sub[y] = {y} \cup Below(sub, x) /\ sub[y] \subseteq sub[l]
    BY <1>2, <2>3, TakenBelow
  <2>5. m = z <=> y = l
    BY <1>2, <2>3, <2>4, TakenParents
  <2>6. PICK T1 : T1 = IF m = z THEN T
                       ELSE Links!WithParent(Links!WithChild(Links!Transplant(T, y, x), y, "left", l),
                                             l, y)
    OBVIOUS
  <2>7. T1 \in Trees(M) /\ Lifted(M, T, T1, l, y, x, m)
    <3>1. CASE m = z
      BY <1>2, <2>5, <2>6, <3>1 DEF Lifted
    <3>2. CASE m # z
      BY <1>2, <2>3, <2>5, <2>6, <3>2, LiftActs
    <3> QED BY <3>1, <3>2
  <2>8. PICK red : red = T.node[z].red
    OBVIOUS
  <2>9. PICK T2 : T2 = Links!Paint(Links!WithChild(Links!WithParent(Links!Transplant(T1, z, y), r, y),
                                                   y, "right", r), y, red)
    OBVIOUS
  <2>10. PICK U : U = Links!Without(T2, z)
    OBVIOUS
  <2>11. red \in BOOLEAN
    BY <1>2, <2>8, TreesFacts
  <2>12. U \in Trees(M \ {z}) /\ Replaced(M, T, U, z, l, r, y, x, m, q)
    BY <1>2, <2>3, <2>7, <2>9, <2>10, <2>11, ReplaceActs
  <2>13. IsTree(M \ {z}, U, key)
    BY <1>1, <2>3, <2>12, ReplacedGrown
  <2>14. x \in (M \ {z}) \cup {Null}
    BY <2>4
  <2>15. Links!Remove(T, z) = IF Links!IsRed(T, y) \/ x = Null THEN U ELSE Links!RepairRemove(U, x)
    BY <1>3, <1>6, <2>1, <2>2, <2>6, <2>8, <2>9, <2>10 DEF Links!Remove
  <2> QED BY <1>4, <2>13, <2>14, <2>15
<1> QED BY <1>5, <1>6
-----------------------------------------------------------------------------
(* The searches, seen from below a node: r is a block of S that is large   *)
(* enough, or null if there is none.                                       *)

Fits(key, S, n, r) == IF r = Null THEN \A k \in S : key[k] < n
                      ELSE r \in S /\ key[r] >= n
Smallest(key, S, n, r) == \A k \in S : key[k] >= n => r # Null /\ key[r] <= key[k]
Largest(key, S, n, r) == \A k \in S : key[k] >= n => r # Null /\ key[k] <= key[r]

(* A function on the nodes that a search computes *)
Computed(f, M, T, c) ==
    /\ f[Null] = Null
    /\ \A m \in M : /\ T.node[m].left \in M \cup {Null}
                    /\ T.node[m].right \in M \cup {Null}
                    /\ f[m] = c[m, f[T.node[m].left], f[T.node[m].right]]

LEMMA SearchExists ==
    ASSUME NEW M, NEW sub, NEW T, Shape(M, T, sub),
           NEW c \in [M \X (M \cup {Null}) \X (M \cup {Null}) -> M \cup {Null}]
    PROVE  \E f \in [M \cup {Null} -> M \cup {Null}] : Computed(f, M, T, c)
<1>1. PICK V : V = M \cup {Null}
  OBVIOUS
<1>2. c \in [M \X V \X V -> V] /\ Null \in V
  BY <1>1
<1>3. PICK f \in [M \cup {Null} -> V] : Recursion(f, M, T, c, Null)
  BY <1>2, TreeRecursion
<1>4. \A m \in M : T.node[m].left \in M \cup {Null} /\ T.node[m].right \in M \cup {Null}
  BY TreesFacts DEF Shape, Links!Sides
<1> QED BY <1>1, <1>3, <1>4 DEF Recursion, Computed

LEMMA FirstFitFinds ==
    ASSUME NEW M, NEW key, IsTree(M, tree, key), \A m \in M : key[m] = Size(m),
           NEW n \in Int
    PROVE  Fits(key, M, n, FirstFit(tree.root, n))
<1>1. PICK sub : Grown(M, tree, sub, key)
  BY DEF IsTree
<1>2. /\ Shape(M, tree, sub) /\ Links!Members(tree) = M /\ Null \notin M
      /\ \A m \in M : key[m] \in Int
  BY <1>1, IsTreeFacts, TreesFacts DEF Grown, Shape
<1>3. PICK c : c = [t \in M \X (M \cup {Null}) \X (M \cup {Null}) |->
                      IF key[t[1]] >= n THEN t[1] ELSE t[3]]
  OBVIOUS
<1>4. c \in [M \X (M \cup {Null}) \X (M \cup {Null}) -> M \cup {Null}]
  BY <1>3
<1>5. PICK f \in [M \cup {Null} -> M \cup {Null}] : Computed(f, M, tree, c)
  BY <1>2, <1>4, SearchExists
<1>6. \A m \in M : f[m] = IF Size(m) >= n THEN m ELSE f[tree.node[m].right]
  <2>1. TAKE m \in M
  <2>2. f[tree.node[m].left] \in M \cup {Null} /\ f[tree.node[m].right] \in M \cup {Null}
    BY <1>5 DEF Computed
  <2>3. c[m, f[tree.node[m].left], f[tree.node[m].right]] =
           IF key[m] >= n THEN m ELSE f[tree.node[m].right]
    BY <1>3, <2>2
  <2> QED BY <1>5, <2>3 DEF Computed
<1> DEFINE Search(g) == g = [m \in Nodes |->
                               IF m = Null \/ Size(m) >= n THEN m ELSE g[tree.node[m].right]]
<1>7. Search(f)
  <2>1. Nodes = M \cup {Null}
    BY <1>2 DEF Nodes
  <2>2. \A m \in M \cup {Null} :
           f[m] = IF m = Null \/ Size(m) >= n THEN m ELSE f[tree.node[m].right]
    BY <1>2, <1>5, <1>6 DEF Computed
  <2>3. f = [m \in M \cup {Null} |-> f[m]]
    OBVIOUS
  <2> QED BY <2>1, <2>2, <2>3
<1>8. PICK g : g = CHOOSE e : Search(e)
  OBVIOUS
<1>9. Search(g)
  <2> HIDE DEF Search
  <2> QED BY <1>7, <1>8
<1>10. FirstFit(tree.root, n) = g[tree.root]
  BY <1>8 DEF FirstFit
<1>11. /\ g[Null] = Null
       /\ \A m \in M : g[m] = IF key[m] >= n THEN m ELSE g[tree.node[m].right]
  <2>1. Nodes = M \cup {Null}
    BY <1>2 DEF Nodes
  <2> QED BY <1>2, <1>9, <2>1
<1> HIDE DEF Search
<1> DEFINE S == {m \in M : Fits(key, sub[m], n, g[m])}
<1>12. ASSUME NEW m \in M, \A s \in Links!Sides : tree.node[m][s] \in S \cup {Null}
       PROVE  m \in S
  <2>1. /\ Joint(tree, sub, m, "left", "right") /\ SortedAt(tree, sub, key, m, "left", "right")
        /\ "left" \in Links!Sides /\ "right" \in Links!Sides /\ sub[m] \subseteq M
    BY <1>1, <1>2 DEF Grown, Shape, Links!Sides
  <2>2. PICK A, B : A = Below(sub, tree.node[m]["left"]) /\ B = Below(sub, tree.node[m]["right"])
    OBVIOUS
  <2>3. sub[m] = {m} \cup A \cup B /\ A \subseteq M
    BY <2>1, <2>2 DEF Joint
  <2>4. CASE key[m] >= n
    <3>1. g[m] = m
      BY <1>11, <2>4
    <3> QED BY <1>2, <2>3, <2>4, <3>1 DEF Fits
  <2>5. CASE ~ key[m] >= n
    <3>1. g[m] = g[tree.node[m]["right"]]
      BY <1>11, <2>5
    <3>2. Fits(key, B, n, g[tree.node[m]["right"]])
      BY <1>11, <1>12, <2>1, <2>2 DEF Below, Fits
    <3>3. \A k \in A : key[k] < n
      BY <1>2, <2>1, <2>2, <2>3, <2>5 DEF SortedAt, Before
    <3>4. key[m] < n
      BY <1>2, <2>5
    <3> QED BY <2>3, <3>1, <3>2, <3>3, <3>4 DEF Fits
  <2> QED BY <2>4, <2>5
<1>13. M \subseteq S
  <2> HIDE DEF S
  <2> QED BY <1>2, <1>12, TreeInduction
<1>14. CASE M = {}
  <2>1. tree.root = Null
    BY <1>2, <1>14 DEF Shape, Top
  <2> QED BY <1>10, <1>11, <1>14, <2>1 DEF Fits
<1>15. CASE M # {}
  <2>1. tree.root \in M /\ sub[tree.root] = M
    BY <1>2, <1>15, TreesFacts DEF Shape, Top
  <2> QED BY <1>10, <1>13, <2>1
<1> QED BY <1>14, <1>15

LEMMA BestFitFinds ==
    ASSUME NEW M, NEW key, IsTree(M, tree, key), \A m \in M : key[m] = Size(m),
           NEW n \in Int
    PROVE  /\ Fits(key, M, n, BestFit(tree.root, n))
           /\ Smallest(key, M, n, BestFit(tree.root, n))
<1>1. PICK sub : Grown(M, tree, sub, key)
  BY DEF IsTree
<1>2. /\ Shape(M, tree, sub) /\ Links!Members(tree) = M /\ Null \notin M
      /\ \A m \in M : key[m] \in Int
  BY <1>1, IsTreeFacts, TreesFacts DEF Grown, Shape
<1>3. PICK c : c = [t \in M \X (M \cup {Null}) \X (M \cup {Null}) |->
                      IF key[t[1]] < n THEN t[3]
                      ELSE IF key[t[1]] > n /\ t[2] # Null THEN t[2] ELSE t[1]]
  OBVIOUS
<1>4. c \in [M \X (M \cup {Null}) \X (M \cup {Null}) -> M \cup {Null}]
  BY <1>3
<1>5. PICK f \in [M \cup {Null} -> M \cup {Null}] : Computed(f, M, tree, c)
  BY <1>2, <1>4, SearchExists
<1>6. \A m \in M : f[m] = IF Size(m) < n THEN f[tree.node[m].right]
                     ELSE IF Size(m) > n /\ f[tree.node[m].left] # Null THEN f[tree.node[m].left]
                     ELSE m
  <2>1. TAKE m \in M
  <2>2. f[tree.node[m].left] \in M \cup {Null} /\ f[tree.node[m].right] \in M \cup {Null}
    BY <1>5 DEF Computed
  <2>3. c[m, f[tree.node[m].left], f[tree.node[m].right]] =
           IF key[m] < n THEN f[tree.node[m].right]
           ELSE IF key[m] > n /\ f[tree.node[m].left] # Null THEN f[tree.node[m].left]
           ELSE m
    BY <1>3, <2>2
  <2> QED BY <1>5, <2>3 DEF Computed
<1> DEFINE Search(g) == g = [m \in Nodes |->
                               IF m = Null THEN Null
                               ELSE IF Size(m) < n THEN g[tree.node[m].right]
                               ELSE IF Size(m) > n /\ g[tree.node[m].left] # Null THEN g[tree.node[m].left]
                               ELSE m]
<1>7. Search(f)
  <2>1. Nodes = M \cup {Null}
    BY <1>2 DEF Nodes
  <2>2. \A m \in M \cup {Null} :
           f[m] = IF m = Null THEN Null
                  ELSE IF Size(m) < n THEN f[tree.node[m].right]
                  ELSE IF Size(m) > n /\ f[tree.node[m].left] # Null THEN f[tree.node[m].left]
                  ELSE m
    BY <1>2, <1>5, <1>6 DEF Computed
  <2>3. f = [m \in M \cup {Null} |-> f[m]]
    OBVIOUS
  <2> QED BY <2>1, <2>2, <2>3
<1>8. PICK g : g = CHOOSE e : Search(e)
  OBVIOUS
<1>9. Search(g)
  <2> HIDE DEF Search
  <2> QED BY <1>7, <1>8
<1>10. BestFit(tree.root, n) = g[tree.root]
  BY <1>8 DEF BestFit
<1>11. /\ g[Null] = Null
       /\ \A m \in M : g[m] = IF key[m] < n THEN g[tree.node[m].right]
                          ELSE IF key[m] > n /\ g[tree.node[m].left] # Null THEN g[tree.node[m].left]
                          ELSE m
  <2>1. Nodes = M \cup {Null}
    BY <1>2 DEF Nodes
  <2> QED BY <1>2, <1>9, <2>1
<1> HIDE DEF Search
<1> DEFINE S == {m \in M : Fits(key, sub[m], n, g[m]) /\ Smallest(key, sub[m], n, g[m])}
<1>12. ASSUME NEW m \in M, \A s \in Links!Sides : tree.node[m][s] \in S \cup {Null}
       PROVE  m \in S
  <2>1. /\ Joint(tree, sub, m, "left", "right") /\ SortedAt(tree, sub, key, m, "left", "right")
        /\ "left" \in Links!Sides /\ "right" \in Links!Sides /\ sub[m] \subseteq M
    BY <1>1, <1>2 DEF Grown, Shape, Links!Sides
  <2>2. PICK A, B : A = Below(sub, tree.node[m]["left"]) /\ B = Below(sub, tree.node[m]["right"])
    OBVIOUS
  <2>3. sub[m] = {m} \cup A \cup B /\ A \subseteq M
    BY <2>1, <2>2 DEF Joint
  <2>4. /\ tree.node[m]["left"] # Null => A = sub[tree.node[m]["left"]]
        /\ tree.node[m]["left"] = Null => A = {}
        /\ tree.node[m]["right"] # Null => B = sub[tree.node[m]["right"]]
        /\ tree.node[m]["right"] = Null => B = {}
    BY <2>2 DEF Below
  <2>5. PICK a, b : a = g[tree.node[m]["left"]] /\ b = g[tree.node[m]["right"]]
    OBVIOUS
  <2>6. Fits(key, A, n, a) /\ Smallest(key, A, n, a) /\ Fits(key, B, n, b) /\ Smallest(key, B, n, b)
    <3>1. /\ tree.node[m]["left"] \in S \cup {Null}
          /\ tree.node[m]["right"] \in S \cup {Null}
      BY <1>12, <2>1
    <3>2. Fits(key, A, n, a) /\ Smallest(key, A, n, a)
      BY <1>11, <2>4, <2>5, <3>1 DEF Fits, Smallest
    <3>3. Fits(key, B, n, b) /\ Smallest(key, B, n, b)
      BY <1>11, <2>4, <2>5, <3>1 DEF Fits, Smallest
    <3> QED BY <3>2, <3>3
  <2>7. /\ \A k \in A : key[k] \in Int /\ key[k] <= key[m]
        /\ \A k \in B : key[k] \in Int /\ key[m] <= key[k]
        /\ m # Null /\ key[m] \in Int
    BY <1>2, <2>1, <2>2, <2>3 DEF SortedAt, Before
  <2>8. g[m] = IF key[m] < n THEN b ELSE IF key[m] > n /\ a # Null THEN a ELSE m
    BY <1>11, <2>5
  <2>9. Fits(key, sub[m], n, g[m]) /\ Smallest(key, sub[m], n, g[m])
    <3>1. CASE key[m] < n
      <4>1. g[m] = b /\ \A k \in A : ~ key[k] >= n
        BY <2>8, <2>7, <3>1
      <4> QED BY <2>3, <2>6, <2>7, <3>1, <4>1 DEF Fits, Smallest
    <3>2. CASE key[m] > n /\ a # Null
      <4>1. g[m] = a /\ a \in A /\ key[a] >= n /\ key[a] <= key[m]
        BY <2>8, <2>6, <2>7, <3>2 DEF Fits
      <4>2. \A k \in B : key[a] <= key[k]
        BY <2>7, <4>1
      <4> QED BY <2>3, <2>6, <3>2, <4>1, <4>2 DEF Fits, Smallest
    <3>3. CASE key[m] >= n /\ (key[m] = n \/ a = Null)
      <4>1. g[m] = m
        BY <2>8, <2>7, <3>3
      <4>2. \A k \in A : key[k] >= n => key[m] <= key[k]
        BY <2>6, <2>7, <3>3 DEF Fits
      <4> QED BY <2>3, <2>7, <3>3, <4>1, <4>2 DEF Fits, Smallest
    <3> QED BY <2>7, <3>1, <3>2, <3>3
  <2> QED BY <2>9
<1>13. M \subseteq S
  <2> HIDE DEF S
  <2> QED BY <1>2, <1>12, TreeInduction
<1>14. CASE M = {}
  <2>1. tree.root = Null
    BY <1>2, <1>14 DEF Shape, Top
  <2> QED BY <1>10, <1>11, <1>14, <2>1 DEF Fits, Smallest
<1>15. CASE M # {}
  <2>1. tree.root \in M /\ sub[tree.root] = M
    BY <1>2, <1>15, TreesFacts DEF Shape, Top
  <2> QED BY <1>10, <1>13, <2>1
<1> QED BY <1>14, <1>15

LEMMA WorstFitFinds ==
    ASSUME NEW M, NEW key, IsTree(M, tree, key), \A m \in M : key[m] = Size(m),
           NEW n \in Int
    PROVE  /\ Fits(key, M, n, WorstFit(tree.root, n))
           /\ Largest(key, M, n, WorstFit(tree.root, n))
<1>1. PICK sub : Grown(M, tree, sub, key)
  BY DEF IsTree
<1>2. /\ Shape(M, tree, sub) /\ Links!Members(tree) = M /\ Null \notin M
      /\ \A m \in M : key[m] \in Int
  BY <1>1, IsTreeFacts, TreesFacts DEF Grown, Shape
<1>3. PICK c : c = [t \in M \X (M \cup {Null}) \X (M \cup {Null}) |->
                      IF t[3] # Null THEN t[3]
                      ELSE IF key[t[1]] >= n THEN t[1] ELSE Null]
  OBVIOUS
<1>4. c \in [M \X (M \cup {Null}) \X (M \cup {Null}) -> M \cup {Null}]
  BY <1>3
<1>5. PICK f \in [M \cup {Null} -> M \cup {Null}] : Computed(f, M, tree, c)
  BY <1>2, <1>4, SearchExists
<1>6. \A m \in M : f[m] = IF f[tree.node[m].right] # Null THEN f[tree.node[m].right]
                     ELSE IF Size(m) >= n THEN m ELSE Null
  <2>1. TAKE m \in M
  <2>2. f[tree.node[m].left] \in M \cup {Null} /\ f[tree.node[m].right] \in M \cup {Null}
    BY <1>5 DEF Computed
  <2>3. c[m, f[tree.node[m].left], f[tree.node[m].right]] =
           IF f[tree.node[m].right] # Null THEN f[tree.node[m].right]
           ELSE IF key[m] >= n THEN m ELSE Null
    BY <1>3, <2>2
  <2> QED BY <1>5, <2>3 DEF Computed
<1> DEFINE Search(g) == g = [m \in Nodes |->
                               IF m = Null THEN Null
                               ELSE IF g[tree.node[m].right] # Null THEN g[tree.node[m].right]
                               ELSE IF Size(m) >= n THEN m ELSE Null]
<1>7. Search(f)
  <2>1. Nodes = M \cup {Null}
    BY <1>2 DEF Nodes
  <2>2. \A m \in M \cup {Null} :
           f[m] = IF m = Null THEN Null
                  ELSE IF f[tree.node[m].right] # Null THEN f[tree.node[m].right]
                  ELSE IF Size(m) >= n THEN m ELSE Null
    BY <1>2, <1>5, <1>6 DEF Computed
  <2>3. f = [m \in M \cup {Null} |-> f[m]]
    OBVIOUS
  <2> QED BY <2>1, <2>2, <2>3
<1>8. PICK g : g = CHOOSE e : Search(e)
  OBVIOUS
<1>9. Search(g)
  <2> HIDE DEF Search
  <2> QED BY <1>7, <1>8
<1>10. WorstFit(tree.root, n) = g[tree.root]
  BY <1>8 DEF WorstFit
<1>11. /\ g[Null] = Null
       /\ \A m \in M : g[m] = IF g[tree.node[m].right] # Null THEN g[tree.node[m].right]
                          ELSE IF key[m] >= n THEN m ELSE Null
  <2>1. Nodes = M \cup {Null}
    BY <1>2 DEF Nodes
  <2> QED BY <1>2, <1>9, <2>1
<1> HIDE DEF Search
<1> DEFINE S == {m \in M : Fits(key, sub[m], n, g[m]) /\ Largest(key, sub[m], n, g[m])}
<1>12. ASSUME NEW m \in M, \A s \in Links!Sides : tree.node[m][s] \in S \cup {Null}
       PROVE  m \in S
  <2>1. /\ Joint(tree, sub, m, "left", "right") /\ SortedAt(tree, sub, key, m, "left", "right")
        /\ "left" \in Links!Sides /\ "right" \in Links!Sides /\ sub[m] \subseteq M
    BY <1>1, <1>2 DEF Grown, Shape, Links!Sides
  <2>2. PICK A, B : A = Below(sub, tree.node[m]["left"]) /\ B = Below(sub, tree.node[m]["right"])
    OBVIOUS
  <2>3. sub[m] = {m} \cup A \cup B /\ A \subseteq M
    BY <2>1, <2>2 DEF Joint
  <2>4. /\ tree.node[m]["left"] # Null => A = sub[tree.node[m]["left"]]
        /\ tree.node[m]["left"] = Null => A = {}
        /\ tree.node[m]["right"] # Null => B = sub[tree.node[m]["right"]]
        /\ tree.node[m]["right"] = Null => B = {}
    BY <2>2 DEF Below
  <2>5. PICK a, b : a = g[tree.node[m]["left"]] /\ b = g[tree.node[m]["right"]]
    OBVIOUS
  <2>6. Fits(key, A, n, a) /\ Largest(key, A, n, a) /\ Fits(key, B, n, b) /\ Largest(key, B, n, b)
    <3>1. /\ tree.node[m]["left"] \in S \cup {Null}
          /\ tree.node[m]["right"] \in S \cup {Null}
      BY <1>12, <2>1
    <3>2. Fits(key, A, n, a) /\ Largest(key, A, n, a)
      BY <1>11, <2>4, <2>5, <3>1 DEF Fits, Largest
    <3>3. Fits(key, B, n, b) /\ Largest(key, B, n, b)
      BY <1>11, <2>4, <2>5, <3>1 DEF Fits, Largest
    <3> QED BY <3>2, <3>3
  <2>7. /\ \A k \in A : key[k] \in Int /\ key[k] <= key[m]
        /\ \A k \in B : key[k] \in Int /\ key[m] <= key[k]
        /\ m # Null /\ key[m] \in Int
    BY <1>2, <2>1, <2>2, <2>3 DEF SortedAt, Before
  <2>8. g[m] = IF b # Null THEN b ELSE IF key[m] >= n THEN m ELSE Null
    BY <1>11, <2>5
  <2>9. Fits(key, sub[m], n, g[m]) /\ Largest(key, sub[m], n, g[m])
    <3>1. CASE b # Null
      <4>1. g[m] = b /\ b \in B /\ key[b] >= n /\ key[m] <= key[b]
        BY <2>8, <2>6, <2>7, <3>1 DEF Fits
      <4>2. \A k \in A : key[k] <= key[b]
        BY <2>7, <4>1
      <4> QED BY <2>3, <2>6, <3>1, <4>1, <4>2 DEF Fits, Largest
    <3>2. CASE b = Null /\ key[m] >= n
      <4>1. g[m] = m /\ \A k \in B : ~ key[k] >= n
        BY <2>8, <2>6, <2>7, <3>2 DEF Fits
      <4> QED BY <2>3, <2>7, <3>2, <4>1 DEF Fits, Largest
    <3>3. CASE b = Null /\ key[m] < n
      <4>1. g[m] = Null /\ \A k \in B : key[k] < n
        BY <2>8, <2>6, <2>7, <3>3 DEF Fits
      <4>2. \A k \in A : key[k] < n
        BY <2>7, <3>3
      <4>3. \A k \in sub[m] : key[k] \in Int /\ key[k] < n
        BY <2>3, <2>7, <3>3, <4>1, <4>2
      <4> QED BY <4>1, <4>3 DEF Fits, Largest
    <3> QED BY <2>7, <3>1, <3>2, <3>3
  <2> QED BY <2>9
<1>13. M \subseteq S
  <2> HIDE DEF S
  <2> QED BY <1>2, <1>12, TreeInduction
<1>14. CASE M = {}
  <2>1. tree.root = Null
    BY <1>2, <1>14 DEF Shape, Top
  <2> QED BY <1>10, <1>11, <1>14, <2>1 DEF Fits, Largest
<1>15. CASE M # {}
  <2>1. tree.root \in M /\ sub[tree.root] = M
    BY <1>2, <1>15, TreesFacts DEF Shape, Top
  <2> QED BY <1>10, <1>13, <2>1
<1> QED BY <1>14, <1>15

(* What do_allocate_sm takes, by the mode *)
LEMMA ChosenFinds ==
    ASSUME NEW M, NEW key, IsTree(M, tree, key), \A m \in M : key[m] = Size(m),
           NEW n \in Int, fit_mode \in Modes
    PROVE  /\ Fits(key, M, n, Chosen(n))
           /\ fit_mode = "the_best_fit"  => Smallest(key, M, n, Chosen(n))
           /\ fit_mode = "the_worst_fit" => Largest(key, M, n, Chosen(n))
<1>1. CASE fit_mode = "first_fit"
  <2>1. Chosen(n) = FirstFit(tree.root, n)
    BY <1>1 DEF Chosen
  <2> QED BY <1>1, <2>1, FirstFitFinds
<1>2. CASE fit_mode = "the_best_fit"
  <2>1. Chosen(n) = BestFit(tree.root, n)
    BY <1>2 DEF Chosen
  <2> QED BY <1>2, <2>1, BestFitFinds
<1>3. CASE fit_mode = "the_worst_fit"
  <2>1. Chosen(n) = WorstFit(tree.root, n)
    BY <1>3 DEF Chosen
  <2> QED BY <1>3, <2>1, WorstFitFinds
<1> QED BY <1>1, <1>2, <1>3 DEF Modes

-----------------------------------------------------------------------------
(* The list of all blocks *)

Headers(D) == [back : D \cup {Null}, forward : D \cup {Null}, occupied : BOOLEAN]

(* The neighbours of b name b, and there is no block between them. *)
Linked(h, b) ==
    /\ h[b].back = Null <=> b = 0
    /\ h[b].back # Null => h[h[b].back].forward = b
    /\ h[b].forward # Null => b < h[b].forward /\ h[h[b].forward].back = b
    /\ \A c \in DOMAIN h : c <= b \/ (h[b].forward # Null /\ h[b].forward <= c)

ListOK(h) ==
    /\ DOMAIN h \subseteq Nat /\ IsFiniteSet(DOMAIN h) /\ 0 \in DOMAIN h
    /\ h \in [DOMAIN h -> Headers(DOMAIN h)]
    /\ \A b \in DOMAIN h : Linked(h, b)
    /\ \A b \in DOMAIN h : SizeIn(h, b) >= L

LEMMA HeaderFacts ==
    ASSUME NEW h, ListOK(h), NEW b \in DOMAIN h
    PROVE  /\ b \in Nat /\ Null \notin DOMAIN h
           /\ h[b].back \in DOMAIN h \cup {Null}
           /\ h[b].forward \in DOMAIN h \cup {Null}
           /\ h[b].occupied \in BOOLEAN
           /\ Linked(h, b)
           /\ SizeIn(h, b) \in Int /\ SizeIn(h, b) >= L
<1>1. b \in Nat /\ h[b] \in Headers(DOMAIN h) /\ Linked(h, b) /\ SizeIn(h, b) >= L
  BY DEF ListOK
<1>2. DOMAIN h \subseteq Nat /\ Null \notin DOMAIN h /\ Null \in Int
  BY DEF ListOK, Null
<1>3. /\ h[b].back \in DOMAIN h \cup {Null} /\ h[b].forward \in DOMAIN h \cup {Null}
      /\ h[b].occupied \in BOOLEAN
  BY <1>1 DEF Headers
<1>4. SizeIn(h, b) \in Int
  BY <1>1, <1>2, <1>3, RedBlackTreeAssumption DEF SizeIn
<1> QED BY <1>1, <1>2, <1>3, <1>4

(* The block b is cut, and its rest is a free block of its own. *)
IsCut(h, b, rest, g) ==
    /\ DOMAIN g = DOMAIN h \cup {rest} /\ rest \notin DOMAIN h
    /\ g \in [DOMAIN g -> Headers(DOMAIN g)]
    /\ g[rest].back = b /\ g[rest].forward = h[b].forward /\ g[rest].occupied = FALSE
    /\ \A c \in DOMAIN h :
          /\ g[c].occupied = h[c].occupied
          /\ g[c].forward = IF c = b THEN rest ELSE h[c].forward
          /\ g[c].back = IF c = h[b].forward THEN rest ELSE h[c].back

(* The block b has swallowed the next one. *)
IsJoined(h, b, next, g) ==
    /\ DOMAIN g = DOMAIN h \ {next}
    /\ g \in [DOMAIN g -> Headers(DOMAIN g)]
    /\ \A c \in DOMAIN g :
          /\ g[c].occupied = h[c].occupied
          /\ g[c].forward = IF c = b THEN h[next].forward ELSE h[c].forward
          /\ g[c].back = IF c = h[next].forward THEN b ELSE h[c].back

BackSet(D, h, g, b, p) ==
    \A c \in D : /\ g[c].occupied = h[c].occupied
                /\ g[c].forward = h[c].forward
                /\ g[c].back = IF c = b THEN p ELSE h[c].back

LEMMA WithBackActs ==
    ASSUME NEW D, NEW E, Null \notin D, NEW h \in [D -> Headers(E)], NEW b \in D \cup {Null},
           NEW p \in E \cup {Null}, NEW g, g = WithBack(h, b, p)
    PROVE  g \in [D -> Headers(E)] /\ BackSet(D, h, g, b, p)
<1>1. CASE b = Null
  BY <1>1 DEF WithBack, BackSet
<1>2. CASE b # Null
  <2>1. g = [h EXCEPT ![b].back = p]
    BY <1>2 DEF WithBack
  <2> QED BY <1>2, <2>1 DEF Headers, BackSet
<1> QED BY <1>1, <1>2

LEMMA CutActs ==
    ASSUME ListOK(heap), NEW b \in Blocks, NEW n \in Requests, CanSplit(b, n),
           NEW rest, rest = b + H + n, NEW g, g = Cut(b, n)
    PROVE  IsCut(heap, b, rest, g) /\ ListOK(g)
<1>1. /\ b \in Nat /\ Null \notin Blocks /\ heap[b].forward \in Blocks \cup {Null}
      /\ Linked(heap, b) /\ Blocks = DOMAIN heap /\ Blocks \subseteq Nat /\ IsFiniteSet(Blocks)
      /\ heap \in [Blocks -> Headers(Blocks)] /\ 0 \in Blocks
      /\ \A c \in Blocks : Linked(heap, c) /\ SizeIn(heap, c) >= L
  BY HeaderFacts DEF ListOK, Blocks
<1>2. H \in Nat \ {0} /\ n \in Nat /\ n >= L /\ L \in Nat /\ Space \in Nat /\ rest \in Nat /\ b < rest
  BY <1>1, RedBlackTreeAssumption
<1>3. PICK next : next = heap[b].forward
  OBVIOUS
<1>4. PICK stop : stop = IF next = Null THEN Space ELSE next
  OBVIOUS
<1>5. stop - b - H >= n + H + (H + L) /\ stop \in Nat
  <2>1. SizeIn(heap, b) = stop - b - H
    BY <1>3, <1>4 DEF SizeIn
  <2>2. stop \in Nat
    BY <1>1, <1>2, <1>3, <1>4
  <2> QED BY <2>1, <2>2 DEF CanSplit, Size
<1>6. rest + H + L <= stop /\ rest < stop
  BY <1>1, <1>2, <1>5
<1>7. rest \notin Blocks
  <2>1. \A c \in Blocks : c <= b \/ (next # Null /\ next <= c)
    BY <1>1, <1>3 DEF Linked
  <2> QED BY <1>1, <1>2, <1>3, <1>4, <1>6, <2>1
<1>8. PICK D : D = Blocks \cup {rest}
  OBVIOUS
<1>9. PICK h1 : h1 = [x \in D |-> IF x = rest THEN [back |-> b, forward |-> next, occupied |-> FALSE]
                                  ELSE heap[x]]
  OBVIOUS
<1>10. PICK h2 : h2 = [h1 EXCEPT ![b].forward = rest]
  OBVIOUS
<1>11. g = WithBack(h2, next, rest)
  BY <1>3, <1>8, <1>9, <1>10 DEF Cut
<1>12. Null \notin D /\ next \in D \cup {Null} /\ rest \in D /\ b \in D /\ b # rest
  BY <1>1, <1>2, <1>3, <1>7, <1>8 DEF Null
<1>13. h1 \in [D -> Headers(D)]
  <2>1. [back |-> b, forward |-> next, occupied |-> FALSE] \in Headers(D)
    BY <1>12 DEF Headers
  <2>2. \A x \in Blocks : heap[x] \in Headers(D)
    BY <1>1, <1>8 DEF Headers
  <2> QED BY <1>8, <1>9, <2>1, <2>2
<1>14. /\ h2 \in [D -> Headers(D)]
       /\ \A c \in D : /\ h2[c].occupied = h1[c].occupied /\ h2[c].back = h1[c].back
                       /\ h2[c].forward = IF c = b THEN rest ELSE h1[c].forward
  BY <1>10, <1>12, <1>13 DEF Headers
<1>15. /\ g \in [D -> Headers(D)]
       /\ \A c \in D : /\ g[c].occupied = h2[c].occupied /\ g[c].forward = h2[c].forward
                       /\ g[c].back = IF c = next THEN rest ELSE h2[c].back
  <2>1. next \in D \cup {Null} /\ rest \in D \cup {Null} /\ Null \notin D
    BY <1>12
  <2>2. h2 \in [D -> Headers(D)]
    BY <1>14
  <2>3. PICK f, r : f = g /\ r = rest
    OBVIOUS
  <2>4. f = WithBack(h2, next, r) /\ r \in D \cup {Null}
    BY <1>11, <2>1, <2>3
  <2>5. f \in [D -> Headers(D)] /\ BackSet(D, h2, f, next, r)
    BY <2>1, <2>2, <2>4, WithBackActs
  <2> QED BY <2>3, <2>5 DEF BackSet
<1>16. /\ h1[rest].back = b /\ h1[rest].forward = next /\ h1[rest].occupied = FALSE
       /\ \A c \in Blocks : h1[c] = heap[c]
  BY <1>7, <1>8, <1>9
<1>17. rest # next
  BY <1>1, <1>3, <1>7, <1>12
<1>18. IsCut(heap, b, rest, g)
  <2>1. DOMAIN g = D
    BY <1>15
  <2>2. g[rest].back = b /\ g[rest].forward = next /\ g[rest].occupied = FALSE
    BY <1>12, <1>14, <1>15, <1>16, <1>17
  <2>3. \A c \in Blocks :
          /\ g[c].occupied = heap[c].occupied
          /\ g[c].forward = IF c = b THEN rest ELSE heap[c].forward
          /\ g[c].back = IF c = heap[b].forward THEN rest ELSE heap[c].back
    BY <1>3, <1>8, <1>14, <1>15, <1>16
  <2> QED BY <1>1, <1>3, <1>7, <1>8, <1>15, <2>1, <2>2, <2>3 DEF IsCut
<1>19. /\ g[rest].back = b /\ g[rest].forward = next
       /\ \A c \in Blocks :
          /\ g[c].forward = IF c = b THEN rest ELSE heap[c].forward
          /\ g[c].back = IF c = next THEN rest ELSE heap[c].back
  BY <1>1, <1>3, <1>18 DEF IsCut
<1>20. Linked(g, rest) /\ SizeIn(g, rest) >= L
  <2>1. SizeIn(g, rest) = stop - rest - H
    BY <1>4, <1>19 DEF SizeIn
  <2>2. \A c \in Blocks : c <= b \/ (next # Null /\ next <= c)
    BY <1>1, <1>3 DEF Linked
  <2>3. \A c \in D : c <= rest \/ (next # Null /\ next <= c)
    BY <1>1, <1>2, <1>8, <2>2
  <2>4. next # Null => next \in Blocks /\ rest < next /\ g[next].back = rest
    BY <1>1, <1>3, <1>4, <1>6, <1>19
  <2>5. b # Null /\ g[b].forward = rest /\ rest # 0
    BY <1>1, <1>2, <1>19
  <2>6. DOMAIN g = D
    BY <1>15
  <2> QED BY <1>1, <1>2, <1>5, <1>6, <1>19, <2>1, <2>3, <2>4, <2>5, <2>6 DEF Linked
<1>21. ASSUME NEW c \in Blocks PROVE Linked(g, c) /\ SizeIn(g, c) >= L
  <2>1. /\ Linked(heap, c) /\ SizeIn(heap, c) >= L /\ c \in Nat /\ c # rest
        /\ heap[c].back \in Blocks \cup {Null} /\ heap[c].forward \in Blocks \cup {Null}
        /\ DOMAIN g = D
    BY <1>1, <1>7, <1>15, HeaderFacts DEF Blocks
  <2>2. CASE c = b
    <3>0. next # b
      BY <1>1, <1>3 DEF Linked
    <3>1. g[c].forward = rest /\ g[c].back = heap[b].back /\ rest # Null
      BY <1>12, <1>19, <2>2, <3>0
    <3>2. SizeIn(g, c) = rest - b - H
      BY <2>2, <3>1 DEF SizeIn
    <3>3. \A e \in Blocks : e <= b \/ (next # Null /\ next <= e)
      BY <1>1, <1>3 DEF Linked
    <3>4. \A e \in D : e <= b \/ rest <= e
      <4>1. \A e \in Blocks : e <= b \/ rest <= e
        <5>1. next # Null => rest < next /\ next \in Nat
          BY <1>4, <1>5, <1>6
        <5> QED BY <1>1, <1>2, <3>3, <5>1
      <4> QED BY <1>2, <1>8, <4>1
    <3>5. g[c].back = Null <=> c = 0
      BY <2>1, <2>2, <3>1 DEF Linked
    <3>6. g[c].back # Null => g[g[c].back].forward = c
      <4>1. heap[c].back # Null => heap[c].back \in Blocks /\ heap[heap[c].back].forward = c
        BY <2>1 DEF Linked
      <4>2. heap[c].back # b
        BY <1>1, <2>1, <2>2, <4>1 DEF Linked
      <4> QED BY <1>19, <2>1, <2>2, <3>1, <4>1, <4>2
    <3> QED BY <1>1, <1>2, <1>19, <2>1, <2>2, <3>1, <3>2, <3>4, <3>5, <3>6 DEF Linked
  <2>3. CASE c # b
    <3>1. g[c].forward = heap[c].forward
      BY <1>19, <2>3
    <3>2. SizeIn(g, c) = SizeIn(heap, c)
      BY <3>1 DEF SizeIn
    <3>3. g[c].back = Null <=> c = 0
      <4>1. c = next => heap[c].back = b /\ b # Null
        BY <1>1, <1>3, <2>1 DEF Linked
      <4>2. rest # Null /\ (heap[c].back = Null <=> c = 0)
        BY <1>12, <2>1 DEF Linked
      <4> QED BY <1>19, <4>1, <4>2
    <3>4. ASSUME g[c].back # Null PROVE g[g[c].back].forward = c
      <4>1. CASE c = next
        BY <1>19, <4>1
      <4>2. CASE c # next
        <5>1. g[c].back = heap[c].back /\ heap[c].back \in Blocks
              /\ heap[heap[c].back].forward = c
          BY <1>19, <2>1, <3>4, <4>2 DEF Linked
        <5>2. heap[c].back # b
          BY <1>3, <4>2, <5>1
        <5> QED BY <1>19, <5>1, <5>2
      <4> QED BY <4>1, <4>2
    <3>5. ASSUME heap[c].forward # Null
          PROVE  c < heap[c].forward /\ g[heap[c].forward].back = c
      <4>1. heap[c].forward \in Blocks /\ c < heap[c].forward /\ heap[heap[c].forward].back = c
        BY <2>1, <3>5 DEF Linked
      <4>2. heap[c].forward # next
        <5>1. next # Null => heap[next].back = b
          BY <1>1, <1>3 DEF Linked
        <5> QED BY <2>3, <3>5, <4>1, <5>1
      <4> QED BY <1>19, <4>1, <4>2
    <3>6. rest <= c \/ (heap[c].forward # Null /\ heap[c].forward <= rest)
      <4>1. c < b => heap[c].forward # Null /\ heap[c].forward <= b
        BY <1>1, <2>1 DEF Linked
      <4>2. c > b => next # Null /\ next <= c
        BY <1>1, <1>3, <2>1 DEF Linked
      <4>3. heap[c].forward # Null => heap[c].forward \in Nat
        BY <1>1, <2>1
      <4>4. next # Null => rest < next /\ next \in Nat
        BY <1>4, <1>5, <1>6
      <4>5. c < b \/ c > b
        BY <1>1, <2>1, <2>3
      <4>6. CASE c < b
        BY <1>1, <1>2, <4>1, <4>3, <4>6
      <4>7. CASE c > b
        BY <1>2, <2>1, <4>2, <4>4, <4>7
      <4> QED BY <4>5, <4>6, <4>7
    <3>7. \A e \in D : e <= c \/ (heap[c].forward # Null /\ heap[c].forward <= e)
      BY <1>1, <1>2, <1>8, <2>1, <3>6 DEF Linked
    <3> QED BY <2>1, <3>1, <3>2, <3>3, <3>4, <3>5, <3>7 DEF Linked
  <2> QED BY <2>2, <2>3
<1>22. IsFiniteSet(D) /\ D \subseteq Nat /\ 0 \in D /\ DOMAIN g = D
  BY <1>1, <1>2, <1>8, <1>15, FS_AddElement
<1>23. \A c \in D : Linked(g, c) /\ SizeIn(g, c) >= L
  BY <1>8, <1>20, <1>21
<1> QED BY <1>15, <1>18, <1>22, <1>23 DEF ListOK

LEMMA JoinActs ==
    ASSUME NEW h, ListOK(h), NEW b \in DOMAIN h, NEW next, next = h[b].forward, next # Null,
           NEW g, g = JoinNext(h, b)
    PROVE  IsJoined(h, b, next, g) /\ ListOK(g)
<1>1. PICK D, nn : D = DOMAIN h /\ nn = h[next].forward
  OBVIOUS
<1>2. /\ Null \notin D /\ D \subseteq Nat /\ IsFiniteSet(D) /\ 0 \in D
      /\ h \in [D -> Headers(D)] /\ b \in D
  BY <1>1, HeaderFacts DEF ListOK
<1>3. \A c \in D : /\ c \in Nat /\ Linked(h, c) /\ SizeIn(h, c) \in Int /\ SizeIn(h, c) >= L
                   /\ h[c].back \in D \cup {Null} /\ h[c].forward \in D \cup {Null}
                   /\ h[c].occupied \in BOOLEAN
  BY <1>1, HeaderFacts
<1>4. /\ next \in D /\ nn \in D \cup {Null} /\ b < next /\ h[next].back = b
      /\ nn # Null => nn \in D /\ next < nn /\ h[nn].back = next
  BY <1>1, <1>2, <1>3 DEF Linked
<1>5. H \in Nat \ {0} /\ L \in Nat /\ Space \in Nat
  BY RedBlackTreeAssumption
<1>6. b # next /\ b # nn /\ nn # next /\ next # 0
  BY <1>2, <1>3, <1>4
<1>7. PICK D2 : D2 = D \ {next}
  OBVIOUS
<1>8. PICK h1 : h1 = [x \in D2 |-> IF x = b THEN [h[b] EXCEPT !.forward = nn] ELSE h[x]]
  OBVIOUS
<1>9. g = WithBack(h1, nn, b)
  BY <1>1, <1>7, <1>8 DEF JoinNext
<1>10. h1 \in [D2 -> Headers(D)]
  BY <1>2, <1>4, <1>7, <1>8 DEF Headers
<1>11. \A c \in D2 : /\ h1[c].occupied = h[c].occupied /\ h1[c].back = h[c].back
                     /\ h1[c].forward = IF c = b THEN nn ELSE h[c].forward
  <2>1. h[b] \in Headers(D)
    BY <1>2
  <2> QED BY <1>8, <2>1 DEF Headers
<1>12. Null \notin D2 /\ nn \in D2 \cup {Null} /\ b \in D \cup {Null} /\ b \in D2
  BY <1>2, <1>4, <1>6, <1>7
<1>13. /\ g \in [D2 -> Headers(D)]
       /\ \A c \in D2 : /\ g[c].occupied = h1[c].occupied /\ g[c].forward = h1[c].forward
                        /\ g[c].back = IF c = nn THEN b ELSE h1[c].back
  <2>1. g \in [D2 -> Headers(D)] /\ BackSet(D2, h1, g, nn, b)
    BY <1>9, <1>10, <1>12, WithBackActs
  <2> QED BY <2>1 DEF BackSet
<1>14. \A c \in D2 : /\ g[c].occupied = h[c].occupied
                     /\ g[c].forward = IF c = b THEN nn ELSE h[c].forward
                     /\ g[c].back = IF c = nn THEN b ELSE h[c].back
  BY <1>11, <1>13
<1>15. ASSUME NEW c \in D2, c # b
       PROVE  h[c].forward # next /\ (h[c].forward # Null => h[c].forward # nn)
  BY <1>3, <1>4, <1>7, <1>15 DEF Linked
<1>16. ASSUME NEW c \in D2, c # nn
       PROVE  h[c].back # next /\ h[c].back # b
  <2>1. h[c].back # Null => h[h[c].back].forward = c
    BY <1>3, <1>7 DEF Linked
  <2>2. b # Null /\ next # Null
    BY <1>2, <1>4
  <2> QED BY <1>1, <1>7, <1>16, <2>1, <2>2
<1>17. \A c \in D2 : g[c].forward \in D2 \cup {Null} /\ g[c].back \in D2 \cup {Null}
  BY <1>3, <1>7, <1>12, <1>14, <1>15, <1>16
<1>18. g \in [D2 -> Headers(D2)]
  <2>1. ASSUME NEW c \in D2 PROVE g[c] \in Headers(D2)
    <3>1. g[c] \in Headers(D)
      BY <1>13
    <3> QED BY <1>17, <3>1 DEF Headers
  <2> QED BY <1>13, <2>1
<1>19. DOMAIN g = D2
  BY <1>13
<1>20. IsJoined(h, b, next, g)
  BY <1>1, <1>7, <1>14, <1>18, <1>19 DEF IsJoined
<1>21. Linked(g, b) /\ SizeIn(g, b) >= L
  <2>1. g[b].forward = nn /\ g[b].back = h[b].back
    BY <1>6, <1>12, <1>14
  <2>2. nn # Null => b < nn /\ g[nn].back = b
    <3>1. nn # Null => nn \in D2 /\ b < nn
      BY <1>2, <1>3, <1>4, <1>7
    <3> QED BY <1>14, <3>1
  <2>3. ASSUME NEW e \in D2 PROVE e <= b \/ (nn # Null /\ nn <= e)
    <3>1. e <= b \/ next <= e
      BY <1>1, <1>2, <1>3, <1>7 DEF Linked
    <3>2. e <= next \/ (nn # Null /\ nn <= e)
      BY <1>1, <1>3, <1>4, <1>7 DEF Linked
    <3>3. e # next /\ e \in Nat /\ next \in Nat
      BY <1>3, <1>4, <1>7
    <3> QED BY <3>1, <3>2, <3>3
  <2>4. ASSUME h[b].back # Null PROVE g[h[b].back].forward = b
    <3>1. h[b].back \in D2 /\ h[h[b].back].forward = b
      BY <1>3, <1>6, <1>7, <1>12, <1>16, <2>4 DEF Linked
    <3>2. h[b].back # b
      BY <1>1, <1>6, <3>1
    <3> QED BY <1>14, <3>1, <3>2
  <2>5. h[b].back = Null <=> b = 0
    BY <1>2, <1>3 DEF Linked
  <2>6. SizeIn(g, b) >= L
    <3>1. SizeIn(h, b) = next - b - H
      BY <1>1 DEF SizeIn
    <3>2. SizeIn(h, next) = (IF nn = Null THEN Space ELSE nn) - next - H
      BY <1>1 DEF SizeIn
    <3>3. SizeIn(g, b) = (IF nn = Null THEN Space ELSE nn) - b - H
      BY <2>1 DEF SizeIn
    <3>4. PICK stop \in Int : stop = IF nn = Null THEN Space ELSE nn
      BY <1>3, <1>4, <1>5
    <3>5. SizeIn(h, b) >= L /\ SizeIn(h, next) >= L /\ b \in Nat /\ next \in Nat
      BY <1>2, <1>3, <1>4
    <3> QED BY <1>5, <3>1, <3>2, <3>3, <3>4, <3>5
  <2> QED BY <1>19, <2>1, <2>2, <2>3, <2>4, <2>5, <2>6 DEF Linked
<1>22. ASSUME NEW c \in D2, c # b PROVE Linked(g, c) /\ SizeIn(g, c) >= L
  <2>1. Linked(h, c) /\ SizeIn(h, c) >= L /\ c \in D
    BY <1>3, <1>7
  <2>2. g[c].forward = h[c].forward
    BY <1>14, <1>22
  <2>3. SizeIn(g, c) = SizeIn(h, c)
    BY <2>2 DEF SizeIn
  <2>4. \A e \in D2 : e <= c \/ (h[c].forward # Null /\ h[c].forward <= e)
    BY <1>1, <1>7, <2>1 DEF Linked
  <2>5. ASSUME h[c].forward # Null
        PROVE  c < h[c].forward /\ g[h[c].forward].back = c
    <3>1. h[c].forward \in D2 /\ h[c].forward # nn
      BY <1>15, <1>17, <1>22, <2>2, <2>5
    <3>2. c < h[c].forward /\ h[h[c].forward].back = c
      BY <2>1, <2>5 DEF Linked
    <3> QED BY <1>14, <3>1, <3>2
  <2>6. CASE c = nn
    <3>1. g[c].back = b /\ b # Null /\ g[b].forward = c
      BY <1>2, <1>12, <1>14, <2>6
    <3>2. c # 0
      BY <1>2, <1>3, <1>4, <2>1, <2>6
    <3> QED BY <1>19, <2>1, <2>2, <2>3, <2>4, <2>5, <3>1, <3>2 DEF Linked
  <2>7. CASE c # nn
    <3>1. g[c].back = h[c].back /\ (h[c].back = Null <=> c = 0)
      BY <1>14, <2>1, <2>7 DEF Linked
    <3>2. ASSUME h[c].back # Null PROVE g[h[c].back].forward = c
      <4>1. h[c].back \in D2 /\ h[c].back # b /\ h[h[c].back].forward = c
        BY <1>3, <1>7, <1>16, <2>1, <2>7, <3>2 DEF Linked
      <4> QED BY <1>14, <4>1
    <3> QED BY <1>19, <2>1, <2>2, <2>3, <2>4, <2>5, <3>1, <3>2 DEF Linked
  <2> QED BY <2>6, <2>7
<1>23. IsFiniteSet(D2) /\ D2 \subseteq Nat /\ 0 \in D2
  BY <1>2, <1>6, <1>7, FS_RemoveElement
<1> QED BY <1>18, <1>19, <1>20, <1>21, <1>22, <1>23 DEF ListOK
-----------------------------------------------------------------------------
(* The inductive invariant.  While no null pointer has been followed, the  *)
(* free blocks and nothing else are in the tree, by the sizes that the     *)
(* list gives them, and no two of them are neighbours.                     *)

FreeIn(h) == {b \in DOMAIN h : ~ h[b].occupied}
Sizes(h) == [b \in DOMAIN h |-> SizeIn(h, b)]

Apart(h, c) == h[c].forward # Null => h[c].occupied \/ h[h[c].forward].occupied
NoTwoFree(h) == \A c \in DOMAIN h : Apart(h, c)

(* The caller's blocks are the occupied ones and as long as was asked for. *)
Callers(h, asked) ==
    /\ DOMAIN asked = DOMAIN h \ FreeIn(h)
    /\ \A b \in DOMAIN asked : asked[b] \in Requests /\ SizeIn(h, b) >= asked[b]

Searchable(h, T) == NoTwoFree(h) /\ IsTree(FreeIn(h), T, Sizes(h))

IInv ==
    /\ fit_mode \in Modes
    /\ ListOK(heap)
    /\ Callers(heap, held)
    /\ ~ tree.crashed => Searchable(heap, tree)

(* The blocks in the callers' hands are the same, and of the same sizes. *)
Taken(h) == DOMAIN h \ FreeIn(h)
SameTaken(h, g, S) == Taken(g) = S /\ \A c \in S : SizeIn(g, c) = SizeIn(h, c)

(* The tree depends on the keys of its nodes only. *)
LEMMA SameKeys ==
    ASSUME NEW M, NEW T, NEW key, IsTree(M, T, key), NEW key2, \A m \in M : key2[m] = key[m]
    PROVE  IsTree(M, T, key2)
<1>1. PICK sub : Grown(M, T, sub, key)
  BY DEF IsTree
<1>2. \A m \in M : /\ Below(sub, T.node[m]["left"]) \subseteq M
                   /\ Below(sub, T.node[m]["right"]) \subseteq M
  BY <1>1 DEF Grown, Shape, Joint
<1>3. \A m \in M : SortedAt(T, sub, key2, m, "left", "right")
  BY <1>1, <1>2 DEF Grown, SortedAt
<1>4. Grown(M, T, sub, key2)
  BY <1>1, <1>3 DEF Grown
<1> QED BY <1>4 DEF IsTree

(* Only the mark of b has changed. *)
IsMarked(h, b, o, g) ==
    /\ DOMAIN g = DOMAIN h
    /\ \A c \in DOMAIN h :
          /\ g[c].occupied = IF c = b THEN o ELSE h[c].occupied
          /\ g[c].forward = h[c].forward /\ g[c].back = h[c].back
          /\ SizeIn(g, c) = SizeIn(h, c)

LEMMA MarkActs ==
    ASSUME NEW h, ListOK(h), NEW b \in DOMAIN h, NEW o \in BOOLEAN,
           NEW g, g = [h EXCEPT ![b].occupied = o]
    PROVE  ListOK(g) /\ IsMarked(h, b, o, g)
<1>1. PICK D : D = DOMAIN h
  OBVIOUS
<1>2. h \in [D -> Headers(D)] /\ b \in D
  BY <1>1 DEF ListOK
<1>3. /\ g \in [D -> Headers(D)]
      /\ \A c \in D : /\ g[c].occupied = IF c = b THEN o ELSE h[c].occupied
                      /\ g[c].forward = h[c].forward /\ g[c].back = h[c].back
  BY <1>2 DEF Headers
<1>4. \A c \in D : SizeIn(g, c) = SizeIn(h, c)
  BY <1>3 DEF SizeIn
<1>5. DOMAIN g = D
  BY <1>3
<1>6. ASSUME NEW c \in D PROVE Linked(g, c) /\ SizeIn(g, c) >= L
  <2>1. Linked(h, c) /\ SizeIn(h, c) >= L
        /\ h[c].back \in D \cup {Null} /\ h[c].forward \in D \cup {Null}
    BY <1>1, HeaderFacts
  <2> QED BY <1>1, <1>3, <1>4, <1>5, <2>1 DEF Linked
<1>7. D \subseteq Nat /\ IsFiniteSet(D) /\ 0 \in D
  BY <1>1 DEF ListOK
<1>8. ListOK(g)
  BY <1>3, <1>5, <1>6, <1>7 DEF ListOK
<1> QED BY <1>1, <1>3, <1>4, <1>5, <1>8 DEF IsMarked

LEMMA CutSizes ==
    ASSUME NEW h, NEW b \in DOMAIN h, NEW rest, NEW g, IsCut(h, b, rest, g), rest # Null
    PROVE  /\ \A c \in DOMAIN h \ {b} : SizeIn(g, c) = SizeIn(h, c)
           /\ SizeIn(g, b) = rest - b - H
BY DEF IsCut, SizeIn

LEMMA JoinSizes ==
    ASSUME NEW h, ListOK(h), NEW b \in DOMAIN h, NEW next, next = h[b].forward, next # Null,
           NEW g, IsJoined(h, b, next, g)
    PROVE  \A c \in DOMAIN h \ {b, next} : SizeIn(g, c) = SizeIn(h, c)
BY DEF IsJoined, SizeIn

LEMMA InitOK == Init => IInv
<1>1. SUFFICES ASSUME Init PROVE IInv
  OBVIOUS
<1>2. PICK D : D = {0}
  OBVIOUS
<1>3. heap = [b \in D |-> [back |-> Null, forward |-> Null, occupied |-> FALSE]]
  BY <1>1, <1>2 DEF Init
<1>4. /\ DOMAIN heap = D /\ heap[0].back = Null /\ heap[0].forward = Null
      /\ heap[0].occupied = FALSE /\ heap \in [D -> Headers(D)]
  BY <1>2, <1>3 DEF Headers
<1>5. SizeIn(heap, 0) = Space - 0 - H /\ SizeIn(heap, 0) >= L /\ SizeIn(heap, 0) \in Int
  BY <1>4, RedBlackTreeAssumption DEF SizeIn
<1>6. ListOK(heap)
  <2>1. Linked(heap, 0)
    BY <1>2, <1>4 DEF Linked
  <2>2. IsFiniteSet({0})
    BY FS_Singleton
  <2>3. DOMAIN heap = {0} /\ heap \in [{0} -> Headers({0})]
    BY <1>2, <1>4
  <2> QED BY <1>5, <2>1, <2>2, <2>3 DEF ListOK
<1>7. FreeIn(heap) = D
  BY <1>2, <1>4 DEF FreeIn
<1>8. NoTwoFree(heap)
  BY <1>2, <1>4 DEF NoTwoFree, Apart
<1>9. IsTree(D, tree, Sizes(heap))
  <2>1. PICK f : f = [b \in D |-> [left |-> Null, right |-> Null, parent |-> Null, red |-> FALSE]]
    OBVIOUS
  <2>2. tree = [root |-> 0, crashed |-> FALSE, node |-> f]
    BY <1>1, <1>2, <2>1 DEF Init
  <2>3. f \in [D -> [left : D \cup {Null}, right : D \cup {Null},
                     parent : D \cup {Null}, red : BOOLEAN]]
    BY <2>1
  <2>4. tree \in Trees(D)
    BY <1>2, <2>2, <2>3 DEF Trees
  <2>5. /\ tree.root = 0 /\ tree.node[0].left = Null /\ tree.node[0].right = Null
        /\ tree.node[0].parent = Null
    BY <1>2, <2>1, <2>2
  <2>6. Sizes(heap)[0] \in Int
    BY <1>2, <1>4, <1>5 DEF Sizes
  <2>7. 0 # Null
    BY DEF Null
  <2>8. IsTree({0}, tree, Sizes(heap))
    BY <1>2, <2>4, <2>5, <2>6, <2>7, OneNode
  <2> QED BY <1>2, <2>8
<1>10. held = [b \in {} |-> 0] /\ fit_mode \in Modes
  BY <1>1 DEF Init
<1>11. Callers(heap, held)
  BY <1>4, <1>7, <1>10 DEF Callers
<1> QED BY <1>6, <1>7, <1>8, <1>9, <1>10, <1>11 DEF IInv, Searchable

LEMMA SizesFacts ==
    ASSUME NEW h, ListOK(h)
    PROVE  /\ \A b \in DOMAIN h : Sizes(h)[b] = SizeIn(h, b) /\ Sizes(h)[b] \in Int
           /\ FreeIn(h) \subseteq DOMAIN h
BY HeaderFacts DEF Sizes, FreeIn

(* The block that do_allocate_sm takes *)
LEMMA AllocateTakes ==
    ASSUME IInv, ~ tree.crashed, NEW n \in Requests, NEW b, b = Chosen(n), b # Null
    PROVE  /\ b \in FreeIn(heap) /\ b \in Blocks /\ heap[b].occupied = FALSE
           /\ Size(b) >= n /\ Size(b) \in Int /\ n \in Nat /\ n >= L
           /\ \A f \in FreeIn(heap) : Size(f) >= n =>
                 /\ fit_mode = "the_best_fit"  => Size(b) <= Size(f)
                 /\ fit_mode = "the_worst_fit" => Size(b) >= Size(f)
<1>1. /\ ListOK(heap) /\ fit_mode \in Modes /\ IsTree(FreeIn(heap), tree, Sizes(heap))
  BY DEF IInv, Searchable
<1>2. n \in Nat /\ n >= L /\ n \in Int
  BY RedBlackTreeAssumption
<1>3. \A m \in FreeIn(heap) : Sizes(heap)[m] = Size(m) /\ Size(m) \in Int /\ m \in Blocks
  BY <1>1, SizesFacts DEF Size, Blocks
<1>4. /\ Fits(Sizes(heap), FreeIn(heap), n, b)
      /\ fit_mode = "the_best_fit"  => Smallest(Sizes(heap), FreeIn(heap), n, b)
      /\ fit_mode = "the_worst_fit" => Largest(Sizes(heap), FreeIn(heap), n, b)
  BY <1>1, <1>2, <1>3, ChosenFinds
<1>5. b \in FreeIn(heap) /\ Size(b) >= n
  BY <1>3, <1>4 DEF Fits
<1>6. heap[b].occupied = FALSE
  BY <1>1, <1>3, <1>5, HeaderFacts DEF FreeIn, Blocks
<1> QED BY <1>2, <1>3, <1>4, <1>5, <1>6 DEF Smallest, Largest

(* No block fits when do_allocate_sm throws. *)
LEMMA NothingFits ==
    ASSUME IInv, ~ tree.crashed, NEW n \in Requests, Chosen(n) = Null
    PROVE  \A f \in FreeIn(heap) : Size(f) < n
<1>1. /\ ListOK(heap) /\ fit_mode \in Modes /\ IsTree(FreeIn(heap), tree, Sizes(heap))
  BY DEF IInv, Searchable
<1>2. n \in Int
  BY RedBlackTreeAssumption
<1>3. \A m \in FreeIn(heap) : Sizes(heap)[m] = Size(m)
  BY <1>1, SizesFacts DEF Size
<1>4. Fits(Sizes(heap), FreeIn(heap), n, Chosen(n))
  BY <1>1, <1>2, <1>3, ChosenFinds
<1> QED BY <1>3, <1>4 DEF Fits

(* Removal and insertion, with the sizes before and after *)
LEMMA RemoveFree ==
    ASSUME NEW h, NEW F, NEW T, IsTree(F, T, Sizes(h)), NEW b \in F, NEW g,
           \A c \in F \ {b} : Sizes(g)[c] = Sizes(h)[c]
    PROVE  /\ IsTree(F \ {b}, Links!Remove(T, b), Sizes(g))
           /\ Links!Remove(T, b).crashed \in BOOLEAN
<1>1. IsTree(F \ {b}, Links!Remove(T, b), Sizes(h))
  BY RemoveKeeps
<1>2. IsTree(F \ {b}, Links!Remove(T, b), Sizes(g))
  BY <1>1, SameKeys
<1>3. Links!Remove(T, b) \in Trees(F \ {b})
  BY <1>1, IsTreeFacts
<1> QED BY <1>2, <1>3, TreesFacts

LEMMA InsertFree ==
    ASSUME NEW h, ListOK(h), NEW F, NEW T, IsTree(F, T, Sizes(h)), NEW z, z \notin F,
           F \cup {z} \subseteq DOMAIN h
    PROVE  IsTree(F \cup {z}, Insert(h, T, z), Sizes(h))
<1>1. \A m \in F \cup {z} : Sizes(h)[m] = SizeIn(h, m) /\ Sizes(h)[m] \in Int
  BY SizesFacts
<1>2. z # Null
  BY HeaderFacts
<1> QED BY <1>1, <1>2, InsertKeeps

(* The block b has become a caller's, as long as was asked for or longer. *)
Granted(b, n) ==
    /\ b \in FreeIn(heap) /\ b # Null
    /\ last' = [op |-> "allocated", arg |-> n, at |-> b]
    /\ SizeIn(heap', b) \in Int /\ n <= SizeIn(heap', b) /\ SizeIn(heap', b) <= SizeIn(heap, b)
    /\ Taken(heap') = Taken(heap) \cup {b}
    /\ \A c \in Taken(heap) : SizeIn(heap', c) = SizeIn(heap, c)

LEMMA AllocateOK ==
    ASSUME IInv, ~ tree.crashed, NEW n \in Requests, Allocate(n)
    PROVE  IInv' /\ \E b : Granted(b, n)
<1>1. PICK b, T1, h1, F : /\ b = Chosen(n) /\ T1 = Links!Remove(tree, b)
                          /\ h1 = (IF CanSplit(b, n) THEN Cut(b, n) ELSE heap)
                          /\ F = FreeIn(heap)
  OBVIOUS
<1>2. /\ b # Null
      /\ heap' = [h1 EXCEPT ![b].occupied = TRUE]
      /\ tree' = IF CanSplit(b, n) /\ ~ T1.crashed THEN Insert(h1, T1, b + H + n) ELSE T1
      /\ held' = [x \in DOMAIN held \cup {b} |-> IF x = b THEN n ELSE held[x]]
      /\ fit_mode' = fit_mode
      /\ last' = [op |-> "allocated", arg |-> n, at |-> b]
  BY <1>1 DEF Allocate
<1>3. /\ ListOK(heap) /\ fit_mode \in Modes /\ Callers(heap, held)
      /\ NoTwoFree(heap) /\ IsTree(F, tree, Sizes(heap))
  BY <1>1 DEF IInv, Searchable
<1>4. /\ b \in F /\ b \in DOMAIN heap /\ heap[b].occupied = FALSE
      /\ SizeIn(heap, b) >= n /\ SizeIn(heap, b) \in Int /\ n \in Nat
  BY <1>1, <1>2, AllocateTakes DEF Size, Blocks
<1>5. PICK rest : rest = b + H + n
  OBVIOUS
<1>6. b \in Nat /\ H \in Nat /\ rest \in Nat /\ rest # Null
  BY <1>3, <1>4, <1>5, HeaderFacts, RedBlackTreeAssumption DEF Null
<1>7. /\ ListOK(h1)
      /\ CanSplit(b, n) => IsCut(heap, b, rest, h1)
      /\ ~ CanSplit(b, n) => h1 = heap
  BY <1>1, <1>3, <1>4, <1>5, CutActs DEF Blocks
<1>8. b \in DOMAIN h1
  BY <1>4, <1>7 DEF IsCut
<1>9. ListOK(heap') /\ IsMarked(h1, b, TRUE, heap')
  BY <1>2, <1>7, <1>8, MarkActs
<1>10. /\ DOMAIN heap' = DOMAIN h1
       /\ \A c \in DOMAIN h1 :
             /\ heap'[c].occupied = IF c = b THEN TRUE ELSE h1[c].occupied
             /\ heap'[c].forward = h1[c].forward
             /\ SizeIn(heap', c) = SizeIn(h1, c)
  BY <1>9 DEF IsMarked
<1>11. Sizes(heap') = Sizes(h1)
  BY <1>10 DEF Sizes
<1>12. \A c \in DOMAIN heap : SizeIn(h1, c) = IF CanSplit(b, n) /\ c = b THEN n ELSE SizeIn(heap, c)
  <2>1. CASE CanSplit(b, n)
    <3>1. /\ \A c \in DOMAIN heap \ {b} : SizeIn(h1, c) = SizeIn(heap, c)
          /\ SizeIn(h1, b) = rest - b - H
      BY <1>4, <1>6, <1>7, <2>1, CutSizes
    <3>2. rest - b - H = n
      BY <1>4, <1>5, <1>6
    <3> QED BY <2>1, <3>1, <3>2
  <2>2. CASE ~ CanSplit(b, n)
    BY <1>7, <2>2
  <2> QED BY <2>1, <2>2
<1>13. DOMAIN heap \subseteq DOMAIN h1
  BY <1>7 DEF IsCut
<1>14. FreeIn(heap') = (F \ {b}) \cup (IF CanSplit(b, n) THEN {rest} ELSE {})
  <2>1. CASE CanSplit(b, n)
    <3>1. IsCut(heap, b, rest, h1)
      BY <1>7, <2>1
    <3>2. /\ DOMAIN h1 = DOMAIN heap \cup {rest} /\ rest \notin DOMAIN heap
          /\ h1[rest].occupied = FALSE
          /\ \A c \in DOMAIN heap : h1[c].occupied = heap[c].occupied
      BY <3>1 DEF IsCut
    <3> QED BY <1>1, <1>4, <1>10, <2>1, <3>2 DEF FreeIn
  <2>2. CASE ~ CanSplit(b, n)
    BY <1>1, <1>7, <1>10, <2>2 DEF FreeIn
  <2> QED BY <2>1, <2>2
<1>15. NoTwoFree(heap')
  <2>1. SUFFICES ASSUME NEW c \in DOMAIN h1 PROVE Apart(heap', c)
    BY <1>10 DEF NoTwoFree
  <2>2. CASE c = b
    BY <1>10, <2>2 DEF Apart
  <2>3. CASE c \in DOMAIN heap /\ c # b
    <3>1. h1[c].forward = heap[c].forward /\ h1[c].occupied = heap[c].occupied
      BY <1>7, <2>3 DEF IsCut
    <3>2. Apart(heap, c) /\ heap[c].forward \in DOMAIN heap \cup {Null}
      BY <1>3, <2>3, HeaderFacts DEF NoTwoFree
    <3>3. \A e \in DOMAIN heap : heap[e].occupied => heap'[e].occupied
      BY <1>4, <1>7, <1>10, <1>13 DEF IsCut
    <3> QED BY <1>10, <1>13, <2>3, <3>1, <3>2, <3>3 DEF Apart
  <2>4. CASE c \notin DOMAIN heap
    <3>1. CanSplit(b, n) /\ IsCut(heap, b, rest, h1) /\ c = rest
      BY <1>7, <2>4 DEF IsCut
    <3>2. h1[c].forward = heap[b].forward
      BY <3>1 DEF IsCut
    <3>3. Apart(heap, b) /\ heap[b].forward \in DOMAIN heap \cup {Null}
      BY <1>3, <1>4, HeaderFacts DEF NoTwoFree
    <3>4. heap[b].forward # Null => heap[heap[b].forward].occupied /\ heap[b].forward # b
      BY <1>4, <3>3 DEF Apart
    <3>5. \A e \in DOMAIN heap : heap[e].occupied => heap'[e].occupied
      BY <1>4, <1>7, <1>10, <1>13 DEF IsCut
    <3> QED BY <1>10, <3>2, <3>3, <3>4, <3>5 DEF Apart
  <2> QED BY <2>2, <2>3, <2>4
<1>16. /\ IsTree(F \ {b}, T1, Sizes(h1)) /\ T1.crashed \in BOOLEAN
  <2>1. \A c \in F \ {b} : Sizes(h1)[c] = Sizes(heap)[c]
    BY <1>1, <1>12, <1>13 DEF Sizes, FreeIn
  <2> QED BY <1>1, <1>3, <1>4, <2>1, RemoveFree
<1>17. ~ tree'.crashed => IsTree(FreeIn(heap'), tree', Sizes(heap'))
  <2>1. CASE CanSplit(b, n) /\ ~ T1.crashed
    <3>1. tree' = Insert(h1, T1, rest)
      BY <1>2, <1>5, <2>1
    <3>2. rest \notin F \ {b} /\ (F \ {b}) \cup {rest} \subseteq DOMAIN h1
      BY <1>1, <1>7, <2>1 DEF IsCut, FreeIn
    <3>3. IsTree((F \ {b}) \cup {rest}, Insert(h1, T1, rest), Sizes(h1))
      BY <1>7, <1>16, <3>2, InsertFree
    <3> QED BY <1>11, <1>14, <2>1, <3>1, <3>3
  <2>2. CASE ~ CanSplit(b, n)
    <3>1. tree' = T1 /\ FreeIn(heap') = F \ {b}
      BY <1>2, <1>14, <2>2
    <3> QED BY <1>11, <1>16, <3>1
  <2>3. CASE T1.crashed
    BY <1>2, <2>3
  <2> QED BY <2>1, <2>2, <2>3
<1>18. Callers(heap', held')
  <2>1. DOMAIN held = DOMAIN heap \ F
        /\ \A x \in DOMAIN held : held[x] \in Requests /\ SizeIn(heap, x) >= held[x]
    BY <1>1, <1>3 DEF Callers
  <2>2. DOMAIN held' = DOMAIN held \cup {b} /\ b \notin DOMAIN held
    BY <1>2, <1>4, <2>1
  <2>3. DOMAIN held' = DOMAIN heap' \ FreeIn(heap')
    <3>1. CanSplit(b, n) => DOMAIN h1 = DOMAIN heap \cup {rest} /\ rest \notin DOMAIN heap
      BY <1>7 DEF IsCut
    <3> QED BY <1>1, <1>4, <1>7, <1>10, <1>14, <2>1, <2>2, <3>1 DEF FreeIn
  <2>4. ASSUME NEW x \in DOMAIN held'
        PROVE  held'[x] \in Requests /\ SizeIn(heap', x) >= held'[x]
    <3>1. x \in DOMAIN heap /\ SizeIn(heap', x) = SizeIn(h1, x)
      BY <1>4, <1>10, <1>13, <2>1, <2>2
    <3>2. CASE x = b
      BY <1>2, <1>4, <1>12, <2>2, <3>1, <3>2
    <3>3. CASE x # b
      BY <1>2, <1>12, <2>1, <2>2, <3>1, <3>3
    <3> QED BY <3>2, <3>3
  <2> QED BY <2>3, <2>4 DEF Callers
<1>19. Granted(b, n)
  <2>1. SizeIn(heap', b) \in Int /\ n <= SizeIn(heap', b) /\ SizeIn(heap', b) <= SizeIn(heap, b)
    <3>1. SizeIn(heap', b) = SizeIn(h1, b)
      BY <1>8, <1>10
    <3>2. SizeIn(h1, b) = IF CanSplit(b, n) THEN n ELSE SizeIn(heap, b)
      BY <1>4, <1>12
    <3> QED BY <1>4, <3>1, <3>2
  <2>2. Taken(heap') = Taken(heap) \cup {b}
    <3>1. CanSplit(b, n) => DOMAIN h1 = DOMAIN heap \cup {rest} /\ rest \notin DOMAIN heap
      BY <1>7 DEF IsCut
    <3> QED BY <1>1, <1>4, <1>7, <1>10, <1>14, <3>1 DEF FreeIn, Taken
  <2>3. \A c \in Taken(heap) : SizeIn(heap', c) = SizeIn(heap, c)
    <3>1. \A c \in Taken(heap) : c \in DOMAIN heap /\ c # b /\ c \in DOMAIN h1
      BY <1>1, <1>4, <1>13 DEF Taken
    <3> QED BY <1>10, <1>12, <3>1
  <2> QED BY <1>1, <1>2, <1>4, <2>1, <2>2, <2>3 DEF Granted
<1>20. IInv'
  BY <1>2, <1>3, <1>9, <1>15, <1>17, <1>18 DEF IInv, Searchable
<1> QED BY <1>19, <1>20

(* The block b swallows the next one.  One of the two, y, is in the tree,  *)
(* the other one, x, is in hand.                                           *)
Joining(h, b, next, x, y, g) ==
    /\ b \in DOMAIN h /\ next = h[b].forward /\ next # Null
    /\ ~ h[b].occupied /\ ~ h[next].occupied
    /\ {x, y} = {b, next}
    /\ g = JoinNext(h, b)

LEMMA JoinStep ==
    ASSUME NEW h, ListOK(h), NEW b, NEW next, NEW x, NEW y, NEW g,
           Joining(h, b, next, x, y, g), NEW T, IsTree(FreeIn(h) \ {x}, T, Sizes(h)),
           NEW asked, Callers(h, asked)
    PROVE  /\ ListOK(g) /\ IsJoined(h, b, next, g)
           /\ b \in FreeIn(g)
           /\ IsTree(FreeIn(g) \ {b}, Links!Remove(T, y), Sizes(g))
           /\ Links!Remove(T, y).crashed \in BOOLEAN
           /\ Callers(g, asked)
           /\ SameTaken(h, g, Taken(h))
<1>0. /\ b \in DOMAIN h /\ next = h[b].forward /\ next # Null
      /\ ~ h[b].occupied /\ ~ h[next].occupied
      /\ {x, y} = {b, next}
      /\ g = JoinNext(h, b)
  BY DEF Joining
<1>1. ListOK(g) /\ IsJoined(h, b, next, g)
  BY <1>0, JoinActs
<1>2. /\ DOMAIN g = DOMAIN h \ {next}
      /\ \A c \in DOMAIN g : g[c].occupied = h[c].occupied
  BY <1>1 DEF IsJoined
<1>3. next \in DOMAIN h /\ next # b /\ b \in FreeIn(h) /\ next \in FreeIn(h) /\ x # y
  <2>1. Linked(h, b) /\ h[b].forward \in DOMAIN h \cup {Null} /\ b \in Nat
    BY <1>0, HeaderFacts
  <2>2. next \in DOMAIN h /\ next # b
    BY <1>0, <2>1 DEF Linked
  <2> QED BY <1>0, <2>2 DEF FreeIn
<1>4. FreeIn(g) = FreeIn(h) \ {next} /\ b \in FreeIn(g)
  BY <1>2, <1>3 DEF FreeIn
<1>5. FreeIn(g) \ {b} = (FreeIn(h) \ {x}) \ {y} /\ y \in FreeIn(h) \ {x}
  BY <1>0, <1>3, <1>4
<1>6. \A c \in DOMAIN h \ {b, next} : SizeIn(g, c) = SizeIn(h, c)
  BY <1>0, <1>1, JoinSizes
<1>7. \A c \in (FreeIn(h) \ {x}) \ {y} : Sizes(g)[c] = Sizes(h)[c]
  <2>1. \A c \in (FreeIn(h) \ {x}) \ {y} : c \in DOMAIN h /\ c \in DOMAIN g /\ c \notin {b, next}
    BY <1>0, <1>2, <1>3 DEF FreeIn
  <2> QED BY <1>6, <2>1 DEF Sizes
<1>8. IsTree((FreeIn(h) \ {x}) \ {y}, Links!Remove(T, y), Sizes(g))
      /\ Links!Remove(T, y).crashed \in BOOLEAN
  <2>1. PICK F : F = FreeIn(h) \ {x}
    OBVIOUS
  <2>2. IsTree(F, T, Sizes(h)) /\ y \in F
    BY <1>5, <2>1
  <2>3. \A c \in F \ {y} : Sizes(g)[c] = Sizes(h)[c]
    BY <1>7, <2>1
  <2>4. IsTree(F \ {y}, Links!Remove(T, y), Sizes(g))
        /\ Links!Remove(T, y).crashed \in BOOLEAN
    BY <2>2, <2>3, RemoveFree
  <2> QED BY <2>1, <2>4
<1>9. Callers(g, asked)
  <2>1. /\ DOMAIN asked = DOMAIN h \ FreeIn(h)
        /\ \A c \in DOMAIN asked : asked[c] \in Requests /\ SizeIn(h, c) >= asked[c]
    BY DEF Callers
  <2>2. DOMAIN asked = DOMAIN g \ FreeIn(g)
    BY <1>2, <1>3, <1>4, <2>1
  <2>3. \A c \in DOMAIN asked : SizeIn(g, c) = SizeIn(h, c)
    BY <1>3, <1>6, <2>1
  <2> QED BY <2>1, <2>2, <2>3 DEF Callers
<1>10. SameTaken(h, g, Taken(h))
  <2>1. Taken(g) = Taken(h) /\ \A c \in Taken(h) : c \in DOMAIN h \ {b, next}
    BY <1>0, <1>2, <1>3, <1>4 DEF Taken
  <2> QED BY <1>6, <2>1 DEF SameTaken
<1> QED BY <1>1, <1>4, <1>5, <1>8, <1>9, <1>10

LEMMA DeallocateOK ==
    ASSUME IInv, ~ tree.crashed, NEW b \in DOMAIN held, Deallocate(b)
    PROVE  IInv' /\ SameTaken(heap, heap', Taken(heap) \ {b})
<1> DEFINE h0   == [heap EXCEPT ![b].occupied = FALSE]
           p    == heap[b].back
           join == IsFree(h0, p)
           T1   == IF join THEN Links!Remove(tree, p) ELSE tree
           h1   == IF join THEN JoinNext(h0, p) ELSE h0
           a    == IF join THEN p ELSE b
           next == h1[a].forward
           more == IsFree(h1, next) /\ ~ T1.crashed
           T2   == IF more THEN Links!Remove(T1, next) ELSE T1
           h2   == IF more THEN JoinNext(h1, a) ELSE h1
           asked == [x \in DOMAIN held \ {b} |-> held[x]]
<1>6. /\ heap' = h2 /\ tree' = (IF T2.crashed THEN T2 ELSE Insert(h2, T2, a))
      /\ held' = asked /\ fit_mode' = fit_mode
  BY DEF Deallocate
<1>1. h0 = [heap EXCEPT ![b].occupied = FALSE] /\ p = heap[b].back
  OBVIOUS
<1>2. /\ join => T1 = Links!Remove(tree, p) /\ h1 = JoinNext(h0, p) /\ a = p
      /\ ~ join => T1 = tree /\ h1 = h0 /\ a = b
      /\ join <=> IsFree(h0, p)
  OBVIOUS
<1>3. next = h1[a].forward /\ (more <=> (IsFree(h1, next) /\ ~ T1.crashed))
  OBVIOUS
<1>4. /\ more => T2 = Links!Remove(T1, next) /\ h2 = JoinNext(h1, a)
      /\ ~ more => T2 = T1 /\ h2 = h1
  OBVIOUS
<1>5. DOMAIN asked = DOMAIN held \ {b} /\ \A c \in DOMAIN asked : asked[c] = held[c]
  OBVIOUS
<1> HIDE DEF h0, p, join, T1, h1, a, next, more, T2, h2, asked
<1>7. /\ ListOK(heap) /\ fit_mode \in Modes /\ Callers(heap, held) /\ NoTwoFree(heap)
      /\ IsTree(FreeIn(heap), tree, Sizes(heap)) /\ tree.crashed \in BOOLEAN
  BY IsTreeFacts, TreesFacts DEF IInv, Searchable
<1>8. b \in DOMAIN heap /\ heap[b].occupied = TRUE /\ b \notin FreeIn(heap)
  BY <1>7, HeaderFacts DEF Callers, FreeIn
<1>9. ListOK(h0) /\ IsMarked(heap, b, FALSE, h0)
  BY <1>1, <1>7, <1>8, MarkActs
<1>10. /\ DOMAIN h0 = DOMAIN heap
       /\ \A c \in DOMAIN heap :
             /\ h0[c].occupied = IF c = b THEN FALSE ELSE heap[c].occupied
             /\ h0[c].forward = heap[c].forward /\ h0[c].back = heap[c].back
             /\ SizeIn(h0, c) = SizeIn(heap, c)
  BY <1>9 DEF IsMarked
<1>11. FreeIn(h0) = FreeIn(heap) \cup {b} /\ Sizes(h0) = Sizes(heap)
  BY <1>8, <1>10 DEF FreeIn, Sizes
<1>12. Callers(h0, asked)
  <2>1. /\ DOMAIN held = DOMAIN heap \ FreeIn(heap)
        /\ \A c \in DOMAIN held : held[c] \in Requests /\ SizeIn(heap, c) >= held[c]
    BY <1>7 DEF Callers
  <2>2. DOMAIN asked = DOMAIN held \ {b} /\ \A c \in DOMAIN asked : asked[c] = held[c]
    BY <1>5
  <2> QED BY <1>8, <1>10, <1>11, <2>1, <2>2 DEF Callers
<1>13. IsTree(FreeIn(h0) \ {b}, tree, Sizes(h0))
  <2>1. FreeIn(h0) \ {b} = FreeIn(heap)
    BY <1>8, <1>11
  <2> QED BY <1>7, <1>11, <2>1
<1>14. p # Null => p \in DOMAIN heap /\ heap[p].forward = b /\ p # b
  <2>1. p \in DOMAIN heap \cup {Null} /\ Linked(heap, b)
    BY <1>1, <1>7, <1>8, HeaderFacts
  <2>2. p # Null => p \in DOMAIN heap /\ heap[p].forward = b
    BY <1>1, <2>1 DEF Linked
  <2>3. \A c \in DOMAIN heap : c \in Nat /\ Linked(heap, c)
    BY <1>7, HeaderFacts
  <2>4. b # Null
    BY <1>7, <1>8, HeaderFacts
  <2> QED BY <2>2, <2>3, <2>4 DEF Linked
<1>15. \A c \in DOMAIN heap : heap[c].forward = b => c = p
  <2>1. \A c \in DOMAIN heap : Linked(heap, c)
    BY <1>7, HeaderFacts
  <2>2. b # Null
    BY <1>7, <1>8, HeaderFacts
  <2> QED BY <1>1, <2>1, <2>2 DEF Linked
<1>16. /\ ListOK(h1) /\ a \in FreeIn(h1) /\ IsTree(FreeIn(h1) \ {a}, T1, Sizes(h1))
       /\ T1.crashed \in BOOLEAN /\ Callers(h1, asked)
       /\ \A c \in DOMAIN h1 \ {a} : Apart(h1, c)
       /\ SameTaken(h0, h1, Taken(h0))
  <2>1. CASE join
    <3>1. p # Null /\ ~ h0[p].occupied /\ T1 = Links!Remove(tree, p) /\ h1 = JoinNext(h0, p)
          /\ a = p
      BY <1>1, <1>2, <2>1 DEF IsFree
    <3>2. p \in DOMAIN h0 /\ h0[p].forward = b /\ ~ h0[b].occupied /\ b # Null /\ p # b
      BY <1>7, <1>8, <1>10, <1>14, <3>1, HeaderFacts
    <3>3. {b, p} = {p, b}
      OBVIOUS
    <3>4. /\ ListOK(h1) /\ IsJoined(h0, p, b, h1) /\ p \in FreeIn(h1)
          /\ IsTree(FreeIn(h1) \ {p}, T1, Sizes(h1)) /\ T1.crashed \in BOOLEAN
          /\ Callers(h1, asked) /\ SameTaken(h0, h1, Taken(h0))
      <4>1. Joining(h0, p, b, b, p, h1)
        BY <3>1, <3>2, <3>3 DEF Joining
      <4>2. ListOK(h0) /\ IsTree(FreeIn(h0) \ {b}, tree, Sizes(h0)) /\ Callers(h0, asked)
        BY <1>9, <1>12, <1>13
      <4>3. /\ ListOK(h1) /\ IsJoined(h0, p, b, h1) /\ p \in FreeIn(h1)
            /\ IsTree(FreeIn(h1) \ {p}, Links!Remove(tree, p), Sizes(h1))
            /\ Links!Remove(tree, p).crashed \in BOOLEAN
            /\ Callers(h1, asked) /\ SameTaken(h0, h1, Taken(h0))
        BY <4>1, <4>2, JoinStep
      <4> QED BY <3>1, <4>3
    <3>5. ASSUME NEW c \in DOMAIN h1 \ {p} PROVE Apart(h1, c)
      <4>1. /\ DOMAIN h1 = DOMAIN heap \ {b}
            /\ h1[c].forward = h0[c].forward
            /\ \A e \in DOMAIN h1 : h1[e].occupied = h0[e].occupied
        BY <1>10, <3>4 DEF IsJoined
      <4>2. c \in DOMAIN heap /\ c # b /\ Apart(heap, c)
            /\ heap[c].forward \in DOMAIN heap \cup {Null} /\ heap[c].forward # b
        BY <1>7, <1>15, <4>1, HeaderFacts DEF NoTwoFree
      <4> QED BY <1>10, <4>1, <4>2 DEF Apart
    <3> QED BY <3>1, <3>4, <3>5
  <2>2. CASE ~ join
    <3>1. T1 = tree /\ h1 = h0 /\ a = b /\ (p # Null => h0[p].occupied)
      BY <1>1, <1>2, <2>2 DEF IsFree
    <3>2. ASSUME NEW c \in DOMAIN h0 \ {b} PROVE Apart(h0, c)
      <4>1. Apart(heap, c) /\ heap[c].forward \in DOMAIN heap \cup {Null} /\ c \in DOMAIN heap
        BY <1>7, <1>10, HeaderFacts DEF NoTwoFree
      <4>2. CASE heap[c].forward = b
        <5>1. c = p /\ c # Null
          BY <1>7, <1>15, <4>1, <4>2, HeaderFacts
        <5> QED BY <3>1, <5>1 DEF Apart
      <4>3. CASE heap[c].forward # b
        BY <1>10, <4>1, <4>3 DEF Apart
      <4> QED BY <4>2, <4>3
    <3>3. b \in FreeIn(h0)
      BY <1>11
    <3>4. SameTaken(h0, h0, Taken(h0))
      BY DEF SameTaken
    <3> QED BY <1>7, <1>9, <1>12, <1>13, <3>1, <3>2, <3>3, <3>4
  <2> QED BY <1>1, <2>1, <2>2 DEF IsFree
<1>17. /\ ListOK(h2) /\ a \in FreeIn(h2) /\ IsTree(FreeIn(h2) \ {a}, T2, Sizes(h2))
       /\ T2.crashed \in BOOLEAN /\ Callers(h2, asked)
       /\ T2.crashed \/ NoTwoFree(h2)
       /\ SameTaken(h1, h2, Taken(h1))
  <2>1. a \in DOMAIN h1 /\ ~ h1[a].occupied
    BY <1>16 DEF FreeIn
  <2>2. next \in DOMAIN h1 \cup {Null}
    BY <1>3, <1>16, <2>1, HeaderFacts
  <2>3. CASE more
    <3>1. next # Null /\ ~ h1[next].occupied /\ T2 = Links!Remove(T1, next)
          /\ h2 = JoinNext(h1, a)
      BY <1>3, <1>4, <2>3 DEF IsFree
    <3>2. /\ ListOK(h2) /\ IsJoined(h1, a, next, h2) /\ a \in FreeIn(h2)
          /\ IsTree(FreeIn(h2) \ {a}, T2, Sizes(h2)) /\ T2.crashed \in BOOLEAN
          /\ Callers(h2, asked) /\ SameTaken(h1, h2, Taken(h1))
      <4>1. Joining(h1, a, next, a, next, h2)
        BY <1>3, <2>1, <3>1 DEF Joining
      <4>2. ListOK(h1) /\ IsTree(FreeIn(h1) \ {a}, T1, Sizes(h1)) /\ Callers(h1, asked)
        BY <1>16
      <4>3. /\ ListOK(h2) /\ IsJoined(h1, a, next, h2) /\ a \in FreeIn(h2)
            /\ IsTree(FreeIn(h2) \ {a}, Links!Remove(T1, next), Sizes(h2))
            /\ Links!Remove(T1, next).crashed \in BOOLEAN
            /\ Callers(h2, asked) /\ SameTaken(h1, h2, Taken(h1))
        BY <4>1, <4>2, JoinStep
      <4> QED BY <3>1, <4>3
    <3>3. /\ DOMAIN h2 = DOMAIN h1 \ {next}
          /\ \A c \in DOMAIN h2 :
                /\ h2[c].occupied = h1[c].occupied
                /\ h2[c].forward = IF c = a THEN h1[next].forward ELSE h1[c].forward
      BY <3>2 DEF IsJoined
    <3>4. \A c \in DOMAIN h2 : h2[c].forward \in DOMAIN h2 \cup {Null}
      BY <3>2, HeaderFacts
    <3>5. ASSUME NEW c \in DOMAIN h2 PROVE Apart(h2, c)
      <4>1. CASE c = a
        <5>1. next \in DOMAIN h1 /\ next # a
          <6>1. Linked(h1, a) /\ a \in Nat
            BY <1>16, <2>1, HeaderFacts
          <6> QED BY <1>3, <2>2, <3>1, <6>1 DEF Linked
        <5>2. Apart(h1, next)
          BY <1>16, <5>1
        <5> QED BY <3>1, <3>3, <3>4, <4>1, <5>2 DEF Apart
      <4>2. CASE c # a
        <5>1. Apart(h1, c)
          BY <1>16, <3>3, <4>2
        <5> QED BY <3>3, <3>4, <4>2, <5>1 DEF Apart
      <4> QED BY <4>1, <4>2
    <3> QED BY <3>2, <3>5 DEF NoTwoFree
  <2>4. CASE ~ more
    <3>1. T2 = T1 /\ h2 = h1 /\ (next = Null \/ h1[next].occupied \/ T1.crashed)
      BY <1>3, <1>4, <2>4 DEF IsFree
    <3>2. T1.crashed \/ Apart(h1, a)
      BY <1>3, <3>1 DEF Apart
    <3>3. T1.crashed \/ NoTwoFree(h1)
      BY <1>16, <3>2 DEF NoTwoFree
    <3>4. SameTaken(h1, h1, Taken(h1))
      BY DEF SameTaken
    <3> QED BY <1>16, <3>1, <3>3, <3>4
  <2> QED BY <1>3, <2>3, <2>4
<1>18. ~ tree'.crashed => Searchable(heap', tree')
  <2>1. CASE T2.crashed
    BY <1>6, <2>1
  <2>2. CASE ~ T2.crashed
    <3>1. a \notin FreeIn(h2) \ {a} /\ (FreeIn(h2) \ {a}) \cup {a} = FreeIn(h2)
          /\ FreeIn(h2) \subseteq DOMAIN h2
      BY <1>17 DEF FreeIn
    <3>2. IsTree((FreeIn(h2) \ {a}) \cup {a}, Insert(h2, T2, a), Sizes(h2))
      BY <1>17, <3>1, InsertFree
    <3> QED BY <1>6, <1>17, <2>2, <3>1, <3>2 DEF Searchable
  <2> QED BY <2>1, <2>2
<1>19. SameTaken(heap, heap', Taken(heap) \ {b})
  <2>1. Taken(h0) = Taken(heap) \ {b} /\ \A c \in Taken(h0) : SizeIn(h0, c) = SizeIn(heap, c)
    BY <1>8, <1>10, <1>11 DEF Taken
  <2>2. Taken(h1) = Taken(h0) /\ \A c \in Taken(h0) : SizeIn(h1, c) = SizeIn(h0, c)
    BY <1>16 DEF SameTaken
  <2>3. Taken(h2) = Taken(h1) /\ \A c \in Taken(h1) : SizeIn(h2, c) = SizeIn(h1, c)
    BY <1>17 DEF SameTaken
  <2> QED BY <1>6, <2>1, <2>2, <2>3 DEF SameTaken
<1>20. IInv'
  BY <1>6, <1>7, <1>17, <1>18 DEF IInv
<1> QED BY <1>19, <1>20

(* Every call keeps the invariant. *)
LEMMA NextOK == IInv /\ [Next]_vars => IInv'
<1>1. SUFFICES ASSUME IInv, [Next]_vars PROVE IInv'
  OBVIOUS
<1>2. CASE UNCHANGED vars
  BY <1>1, <1>2 DEF vars, IInv
<1>3. CASE Next
  <2>1. ~ tree.crashed
    BY <1>3 DEF Next
  <2>2. ASSUME NEW n \in Requests, Allocate(n) PROVE IInv'
    BY <1>1, <2>1, <2>2, AllocateOK
  <2>3. ASSUME NEW b \in DOMAIN held, Deallocate(b) PROVE IInv'
    BY <1>1, <2>1, <2>3, DeallocateOK
  <2>4. CASE (\E n \in Requests : ThrowBadAlloc(n)) \/ RejectForeign
    <3>1. UNCHANGED <<heap, tree, fit_mode, held>>
      BY <2>4 DEF ThrowBadAlloc, RejectForeign
    <3> QED BY <1>1, <3>1 DEF IInv
  <2>5. CASE SetFitMode
    <3>1. fit_mode' \in Modes /\ UNCHANGED <<heap, tree, held>>
      BY <2>5 DEF SetFitMode
    <3> QED BY <1>1, <3>1 DEF IInv
  <2> QED BY <1>3, <2>2, <2>3, <2>4, <2>5 DEF Next
<1> QED BY <1>1, <1>2, <1>3

(* What do_allocate_sm and do_deallocate_sm leave behind, in every mode:   *)
(* whole lists forwards and backwards, occupied blocks as long as their    *)
(* callers asked, and, until a null pointer is followed, a search tree of  *)
(* the free blocks by size and no two free neighbours.                     *)
THEOREM Invariance == Spec => []IInv
BY InitOK, NextOK, PTL DEF Spec

(* Best fit and worst fit in do_allocate_sm find what they are named for,  *)
(* and every block a search returns is free and large enough.              *)
THEOREM FitHonouredAlways == Spec => FitHonoured
<1>1. ASSUME IInv, Next, NEW n \in Requests, Allocate(n)
      PROVE  LET fitting == {f \in FreeBlocks : Size(f) >= n}
             IN  /\ last'.at \in fitting
                 /\ \A f \in fitting :
                       /\ fit_mode = "the_best_fit"  => Size(last'.at) <= Size(f)
                       /\ fit_mode = "the_worst_fit" => Size(last'.at) >= Size(f)
  <2>1. PICK b : b = Chosen(n)
    OBVIOUS
  <2>2. b # Null /\ last'.at = b
    BY <1>1, <2>1 DEF Allocate
  <2>3. ~ tree.crashed
    BY <1>1 DEF Next
  <2>4. FreeBlocks = FreeIn(heap)
    BY DEF FreeBlocks, FreeIn, Blocks
  <2> QED BY <1>1, <2>1, <2>2, <2>3, <2>4, AllocateTakes
<1>2. IInv /\ [Next]_vars =>
        [ \A n \in Requests : Allocate(n) =>
          LET fitting == {f \in FreeBlocks : Size(f) >= n}
          IN  /\ last'.at \in fitting
              /\ \A f \in fitting :
                    /\ fit_mode = "the_best_fit"  => Size(last'.at) <= Size(f)
                    /\ fit_mode = "the_worst_fit" => Size(last'.at) >= Size(f) ]_vars
  BY <1>1
<1> QED BY <1>2, Invariance, PTL DEF Spec, FitHonoured

-----------------------------------------------------------------------------
(* A walk: s names each member of S once, by its key. *)

Rising(key, s, i, j) == s[i] # s[j] /\ key[s[i]] <= key[s[j]]

Lists(s, S, key) ==
    /\ s \in Seq(S)
    /\ \A x \in S : \E i \in 1..Len(s) : s[i] = x
    /\ \A i, j \in 1..Len(s) : i < j => Rising(key, s, i, j)

LEMMA ListsEmpty == ASSUME NEW key PROVE Lists(<<>>, {}, key)
BY DEF Lists

LEMMA ListsConcat ==
    ASSUME NEW A, NEW B, NEW n, n \notin A, n \notin B, A \cap B = {},
           NEW key, NEW S, S = {n} \cup A \cup B, \A x \in S : key[x] \in Int,
           \A x \in A : key[x] <= key[n], \A x \in B : key[n] <= key[x],
           NEW s, Lists(s, A, key), NEW t, Lists(t, B, key)
    PROVE  Lists(s \o <<n>> \o t, S, key)
<1>1. s \in Seq(S) /\ t \in Seq(S) /\ <<n>> \in Seq(S) /\ Len(<<n>>) = 1 /\ <<n>>[1] = n
  <2>1. s \in Seq(A) /\ t \in Seq(B) /\ A \subseteq S /\ B \subseteq S /\ n \in S
    BY DEF Lists
  <2>2. s \in Seq(S) /\ t \in Seq(S)
    BY <2>1, SeqMonotonic
  <2> QED BY <2>1, <2>2
<1>2. PICK k, l : k = Len(s) /\ l = Len(t)
  OBVIOUS
<1>3. k \in Nat /\ l \in Nat
  BY <1>1, <1>2, LenProperties
<1>4. PICK u : u = s \o <<n>>
  OBVIOUS
<1>5. /\ u \in Seq(S) /\ Len(u) = k + 1
      /\ \A i \in 1..(k + 1) : u[i] = IF i <= k THEN s[i] ELSE n
  <2>1. /\ u \in Seq(S) /\ Len(u) = k + 1
        /\ \A i \in 1..(k + 1) : u[i] = IF i <= k THEN s[i] ELSE <<n>>[i - k]
    BY <1>1, <1>2, <1>4, ConcatProperties
  <2>2. \A i \in 1..(k + 1) : i <= k \/ i - k = 1
    BY <1>3
  <2> QED BY <1>1, <2>1, <2>2
<1>6. PICK w : w = u \o t
  OBVIOUS
<1>7. /\ w \in Seq(S) /\ Len(w) = k + 1 + l
      /\ \A i \in 1..(k + 1 + l) : w[i] = IF i <= k + 1 THEN u[i] ELSE t[i - (k + 1)]
  <2>1. PICK e : e = Len(u)
    OBVIOUS
  <2>2. /\ w \in Seq(S) /\ Len(w) = e + l
        /\ \A i \in 1..(e + l) : w[i] = IF i <= e THEN u[i] ELSE t[i - e]
    <3>1. u \in Seq(S) /\ t \in Seq(S)
      BY <1>1, <1>5
    <3>2. /\ u \o t \in Seq(S) /\ Len(u \o t) = Len(u) + Len(t)
          /\ \A i \in 1..(Len(u) + Len(t)) :
                (u \o t)[i] = IF i <= Len(u) THEN u[i] ELSE t[i - Len(u)]
      BY <3>1, ConcatProperties, Zenon
    <3> QED BY <1>2, <1>6, <2>1, <3>2
  <2>3. e = k + 1
    BY <1>5, <2>1
  <2> QED BY <2>2, <2>3
<1>8. \A i \in 1..(k + 1 + l) :
         /\ i <= k => w[i] = s[i] /\ i \in 1..k
         /\ i = k + 1 => w[i] = n
         /\ i > k + 1 => w[i] = t[i - (k + 1)] /\ i - (k + 1) \in 1..l
  BY <1>3, <1>5, <1>7
<1>9. /\ \A i \in 1..k : s[i] \in A
      /\ \A i \in 1..l : t[i] \in B
  BY <1>2, ElementOfSeq DEF Lists
<1>10. ASSUME NEW x \in S PROVE \E i \in 1..Len(w) : w[i] = x
  <2>1. CASE x \in A
    <3>1. PICK i \in 1..k : s[i] = x
      BY <1>2, <2>1 DEF Lists
    <3>2. i \in 1..(k + 1 + l) /\ i <= k
      BY <1>3
    <3> QED BY <1>7, <1>8, <3>1, <3>2
  <2>2. CASE x = n
    <3>1. k + 1 \in 1..(k + 1 + l)
      BY <1>3
    <3> QED BY <1>7, <1>8, <2>2, <3>1
  <2>3. CASE x \in B
    <3>1. PICK i \in 1..l : t[i] = x
      BY <1>2, <2>3 DEF Lists
    <3>2. PICK j : j = i + (k + 1)
      OBVIOUS
    <3>3. j \in 1..(k + 1 + l) /\ j > k + 1 /\ j - (k + 1) = i
      BY <1>3, <3>2
    <3> QED BY <1>7, <1>8, <3>1, <3>3
  <2> QED BY <2>1, <2>2, <2>3
<1>11. ASSUME NEW i \in 1..(k + 1 + l), NEW j \in 1..(k + 1 + l), i < j
       PROVE  Rising(key, w, i, j)
  <2>1. CASE j <= k
    <3>1. i <= k
      BY <1>3, <1>11, <2>1
    <3>2. Rising(key, s, i, j)
      BY <1>2, <1>8, <1>11, <2>1, <3>1 DEF Lists
    <3> QED BY <1>8, <2>1, <3>1, <3>2 DEF Rising
  <2>2. CASE i > k + 1
    <3>1. j > k + 1
      BY <1>3, <1>11, <2>2
    <3>2. i - (k + 1) < j - (k + 1)
      BY <1>3, <1>11
    <3>3. Rising(key, t, i - (k + 1), j - (k + 1))
      BY <1>2, <1>8, <1>11, <2>2, <3>1, <3>2 DEF Lists
    <3> QED BY <1>8, <2>2, <3>1, <3>3 DEF Rising
  <2>3. CASE i <= k + 1 /\ j > k
    <3>1. w[i] \in A \cup {n} /\ key[w[i]] <= key[n]
      <4>1. CASE i <= k
        BY <1>8, <1>9, <4>1
      <4>2. CASE i = k + 1
        BY <1>8, <4>2
      <4> QED BY <1>3, <2>3, <4>1, <4>2
    <3>2. w[j] \in B \cup {n} /\ key[n] <= key[w[j]]
      <4>1. CASE j > k + 1
        BY <1>8, <1>9, <4>1
      <4>2. CASE j = k + 1
        BY <1>8, <4>2
      <4> QED BY <1>3, <2>3, <4>1, <4>2
    <3>3. w[i] # w[j]
      <4>1. CASE i <= k
        BY <1>8, <1>9, <3>2, <4>1
      <4>2. CASE j > k + 1
        BY <1>8, <1>9, <3>1, <4>2
      <4> QED BY <1>3, <1>11, <2>3, <4>1, <4>2
    <3> QED BY <3>1, <3>2, <3>3 DEF Rising
  <2> QED BY <1>3, <2>1, <2>2, <2>3
<1>12. Lists(w, S, key)
  BY <1>7, <1>10, <1>11 DEF Lists
<1> QED BY <1>4, <1>6, <1>12

(* A walk of a tree: what is on the left, the node, what is on the right *)
WalkedAt(f, T, m) == f[m] = f[T.node[m].left] \o <<m>> \o f[T.node[m].right]

LEMMA WalkExists ==
    ASSUME NEW M, NEW sub, NEW T, Shape(M, T, sub)
    PROVE  \E f \in [M \cup {Null} -> Seq(M)] : f[Null] = <<>> /\ \A m \in M : WalkedAt(f, T, m)
<1>1. PICK V : V = Seq(M)
  OBVIOUS
<1>2. PICK c : c = [t \in M \X V \X V |-> t[2] \o <<t[1]>> \o t[3]]
  OBVIOUS
<1>3. ASSUME NEW m \in M, NEW x \in V, NEW y \in V
      PROVE  x \o <<m>> \o y \in V
  <2>1. <<m>> \in Seq(M) /\ x \in Seq(M) /\ y \in Seq(M)
    BY <1>1
  <2>2. x \o <<m>> \in Seq(M)
    BY <2>1, ConcatProperties
  <2> QED BY <1>1, <2>1, <2>2, ConcatProperties
<1>4. c \in [M \X V \X V -> V]
  BY <1>2, <1>3
<1>5. <<>> \in V
  BY <1>1
<1>6. PICK f \in [M \cup {Null} -> V] : Recursion(f, M, T, c, <<>>)
  BY <1>4, <1>5, TreeRecursion
<1>7. ASSUME NEW m \in M PROVE WalkedAt(f, T, m)
  <2>1. PICK l, r : l = T.node[m].left /\ r = T.node[m].right
    OBVIOUS
  <2>2. l \in M \cup {Null} /\ r \in M \cup {Null}
    BY <2>1, TreesFacts DEF Shape, Links!Sides
  <2>3. f[m] = c[m, f[l], f[r]] /\ f[l] \in V /\ f[r] \in V
    BY <1>6, <2>1, <2>2 DEF Recursion
  <2>4. c[m, f[l], f[r]] = f[l] \o <<m>> \o f[r]
    BY <1>2, <2>3
  <2> QED BY <2>1, <2>3, <2>4 DEF WalkedAt
<1> QED BY <1>1, <1>6, <1>7 DEF Recursion

LEMMA WalksList ==
    ASSUME NEW M, NEW sub, NEW T, NEW key, Grown(M, T, sub, key),
           NEW f, f[Null] = <<>>, \A m \in M : WalkedAt(f, T, m)
    PROVE  \A m \in M : Lists(f[m], sub[m], key)
<1> DEFINE S == {m \in M : Lists(f[m], sub[m], key)}
<1>1. Shape(M, T, sub) /\ \A n \in M : key[n] \in Int
  BY DEF Grown
<1>2. ASSUME NEW m \in M, \A s \in Links!Sides : T.node[m][s] \in S \cup {Null}
      PROVE  m \in S
  <2>1. /\ Joint(T, sub, m, "left", "right") /\ SortedAt(T, sub, key, m, "left", "right")
        /\ "left" \in Links!Sides /\ "right" \in Links!Sides /\ sub[m] \subseteq M
    BY <1>1, SubFacts DEF Grown, Shape, Links!Sides
  <2>2. PICK l, r : l = T.node[m].left /\ r = T.node[m].right
    OBVIOUS
  <2>3. PICK A, B : A = Below(sub, l) /\ B = Below(sub, r)
    OBVIOUS
  <2>4. /\ sub[m] = {m} \cup A \cup B /\ m \notin A /\ m \notin B /\ A \cap B = {}
        /\ \A x \in sub[m] : key[x] \in Int
    BY <1>1, <2>1, <2>2, <2>3 DEF Joint
  <2>5. /\ \A x \in A : key[x] <= key[m]
        /\ \A x \in B : key[m] <= key[x]
    BY <2>1, <2>2, <2>3 DEF SortedAt, Before
  <2>6. Lists(f[l], A, key)
    <3>1. CASE l = Null
      BY <2>3, <3>1, ListsEmpty DEF Below
    <3>2. CASE l # Null
      BY <1>2, <2>1, <2>2, <2>3, <3>2 DEF Below
    <3> QED BY <3>1, <3>2
  <2>7. Lists(f[r], B, key)
    <3>1. CASE r = Null
      BY <2>3, <3>1, ListsEmpty DEF Below
    <3>2. CASE r # Null
      BY <1>2, <2>1, <2>2, <2>3, <3>2 DEF Below
    <3> QED BY <3>1, <3>2
  <2>8. f[m] = f[l] \o <<m>> \o f[r]
    BY <2>2 DEF WalkedAt
  <2>9. PICK s, t, N : s = f[l] /\ t = f[r] /\ N = sub[m]
    OBVIOUS
  <2>10. Lists(s \o <<m>> \o t, N, key)
    <3>1. Lists(s, A, key) /\ Lists(t, B, key)
      BY <2>6, <2>7, <2>9
    <3>2. /\ N = {m} \cup A \cup B /\ m \notin A /\ m \notin B /\ A \cap B = {}
          /\ \A x \in N : key[x] \in Int
      BY <2>4, <2>9
    <3> QED BY <2>5, <3>1, <3>2, ListsConcat
  <2> QED BY <2>8, <2>9, <2>10
<1> HIDE DEF S
<1>3. M \subseteq S
  BY <1>1, <1>2, TreeInduction
<1> QED BY <1>3 DEF S

(* The walk of the whole tree names what is in it, by size. *)
LEMMA InOrderLists ==
    ASSUME NEW M, NEW T, NEW key, IsTree(M, T, key)
    PROVE  Lists(Links!InOrder(T, T.root), M, key)
<1>1. PICK sub : Grown(M, T, sub, key)
  BY DEF IsTree
<1>2. Shape(M, T, sub) /\ Links!Members(T) = M /\ Null \notin M
  BY <1>1, TreesFacts DEF Grown, Shape
<1>3. PICK f \in [M \cup {Null} -> Seq(M)] :
              f[Null] = <<>> /\ \A m \in M : WalkedAt(f, T, m)
  BY <1>2, WalkExists
<1> DEFINE Walk(g) == g = [m \in Links!Members(T) \cup {Null} |->
                             IF m = Null THEN <<>>
                             ELSE g[T.node[m].left] \o <<m>> \o g[T.node[m].right]]
<1>4. Walk(f)
  <2>1. \A m \in M \cup {Null} : f[m] = IF m = Null THEN <<>>
                             ELSE f[T.node[m].left] \o <<m>> \o f[T.node[m].right]
    BY <1>2, <1>3 DEF WalkedAt
  <2>2. f = [m \in M \cup {Null} |-> f[m]]
    OBVIOUS
  <2> QED BY <1>2, <2>1, <2>2
<1>5. PICK g : g = CHOOSE e : Walk(e)
  OBVIOUS
<1>6. Walk(g)
  <2> HIDE DEF Walk
  <2> QED BY <1>4, <1>5
<1>7. Links!InOrder(T, T.root) = g[T.root]
  BY <1>5 DEF Links!InOrder
<1>8. g[Null] = <<>> /\ \A m \in M : WalkedAt(g, T, m)
  <2>1. \A m \in M \cup {Null} : g[m] = IF m = Null THEN <<>>
                             ELSE g[T.node[m].left] \o <<m>> \o g[T.node[m].right]
    BY <1>2, <1>6
  <2> HIDE DEF Walk
  <2> QED BY <1>2, <2>1 DEF WalkedAt
<1> HIDE DEF Walk
<1>9. CASE M = {}
  <2>1. T.root = Null
    BY <1>2, <1>9 DEF Shape, Top
  <2> QED BY <1>7, <1>8, <1>9, <2>1, ListsEmpty
<1>10. CASE M # {}
  <2>1. T.root \in M /\ sub[T.root] = M
    BY <1>2, <1>10, TreesFacts DEF Shape, Top
  <2>2. \A m \in M : Lists(g[m], sub[m], key)
    BY <1>1, <1>8, WalksList
  <2> QED BY <1>7, <2>1, <2>2
<1> QED BY <1>9, <1>10

-----------------------------------------------------------------------------
(* How long a walk is, and what the numbers along it add up to *)

LEMMA Bijected ==
    ASSUME NEW S, NEW T, IsFiniteSet(S), NEW f \in [S -> T],
           \A x, y \in S : f[x] = f[y] => x = y, \A y \in T : \E x \in S : f[x] = y
    PROVE  IsFiniteSet(T) /\ Cardinality(T) = Cardinality(S)
<1>1. f \in Bijection(S, T)
  BY DEF Bijection, Injection, Surjection, IsInjective
<1>2. ExistsBijection(S, T)
  BY <1>1 DEF ExistsBijection
<1> QED BY <1>2, FS_Bijection

LEMMA ListLength ==
    ASSUME NEW s, NEW S, NEW key, Lists(s, S, key)
    PROVE  /\ Len(s) \in Nat /\ Len(s) = Cardinality(S) /\ IsFiniteSet(S)
           /\ Elements(s) = S
           /\ DOMAIN s = 1..Len(s) /\ \A i \in 1..Len(s) : s[i] \in S
           /\ \A i, j \in 1..Len(s) : s[i] = s[j] => i = j
<1>1. s \in Seq(S)
  BY DEF Lists
<1>2. Len(s) \in Nat /\ s \in [1..Len(s) -> S] /\ DOMAIN s = 1..Len(s)
  BY <1>1, LenProperties
<1>3. \A i, j \in 1..Len(s) : s[i] = s[j] => i = j
  <2>1. ASSUME NEW i \in 1..Len(s), NEW j \in 1..Len(s), i # j PROVE s[i] # s[j]
    <3>1. (i < j /\ Rising(key, s, i, j)) \/ (j < i /\ Rising(key, s, j, i))
      BY <1>2, <2>1 DEF Lists
    <3> QED BY <3>1 DEF Rising
  <2> QED BY <2>1
<1>4. \A x \in S : \E i \in 1..Len(s) : s[i] = x
  BY DEF Lists
<1>5. IsFiniteSet(1..Len(s)) /\ Cardinality(1..Len(s)) = Len(s)
  BY <1>2, FS_Interval
<1>6. IsFiniteSet(S) /\ Cardinality(S) = Cardinality(1..Len(s))
  BY <1>2, <1>3, <1>4, <1>5, Bijected
<1>7. Elements(s) = S
  BY <1>2, <1>4 DEF Elements
<1> QED BY <1>2, <1>3, <1>5, <1>6, <1>7

(* w[x] units of each x of S *)
Units(S, w) == {u \in S \X Nat : 1 <= u[2] /\ u[2] <= w[u[1]]}

LEMMA UnitsOfOne ==
    ASSUME NEW x, NEW w, w[x] \in Nat
    PROVE  IsFiniteSet(Units({x}, w)) /\ Cardinality(Units({x}, w)) = w[x]
<1>1. PICK f : f = [i \in 1..w[x] |-> <<x, i>>]
  OBVIOUS
<1>2. f \in [1..w[x] -> Units({x}, w)]
  BY <1>1 DEF Units
<1>3. \A i, j \in 1..w[x] : f[i] = f[j] => i = j
  BY <1>1
<1>4. \A u \in Units({x}, w) : \E i \in 1..w[x] : f[i] = u
  <2>1. TAKE u \in Units({x}, w)
  <2>2. PICK i \in Nat : u = <<x, i>> /\ 1 <= i /\ i <= w[x]
    BY DEF Units
  <2>3. i \in 1..w[x]
    BY <2>2
  <2> QED BY <1>1, <2>2, <2>3
<1>5. IsFiniteSet(1..w[x]) /\ Cardinality(1..w[x]) = w[x]
  BY FS_Interval
<1> QED BY <1>2, <1>3, <1>4, <1>5, Bijected

LEMMA UnitsOfMore ==
    ASSUME NEW S, NEW x, x \notin S, NEW w, w[x] \in Nat, IsFiniteSet(Units(S, w))
    PROVE  /\ IsFiniteSet(Units(S \cup {x}, w))
           /\ Cardinality(Units(S \cup {x}, w)) = Cardinality(Units(S, w)) + w[x]
<1>1. PICK A, B : A = Units(S, w) /\ B = Units({x}, w)
  OBVIOUS
<1>2. IsFiniteSet(B) /\ Cardinality(B) = w[x] /\ IsFiniteSet(A) /\ Cardinality(A) \in Nat
  BY <1>1, UnitsOfOne, FS_CardinalityType
<1>3. A \cap B = {}
  BY <1>1 DEF Units
<1>4. Units(S \cup {x}, w) = A \cup B
  BY <1>1 DEF Units
<1>5. IsFiniteSet(A \cup B) /\ Cardinality(A \cup B) = Cardinality(A) + Cardinality(B) - Cardinality({})
  BY <1>2, <1>3, FS_Union
<1>6. Cardinality({}) = 0
  BY FS_EmptySet
<1>7. IsFiniteSet(A \cup B) /\ Cardinality(A \cup B) = Cardinality(A) + w[x]
  BY <1>2, <1>5, <1>6
<1> QED BY <1>1, <1>4, <1>7

(* A sum along a walk counts units, so it does not depend on the order. *)
LEMMA SumCounts ==
    ASSUME NEW s, NEW S, NEW key, Lists(s, S, key), NEW w, \A x \in S : w[x] \in Nat,
           NEW f, \A i \in 1..Len(s) : f[i] = w[s[i]]
    PROVE  Sum(f, Len(s)) = Cardinality(Units(S, w))
<1>1. PICK n : n = Len(s)
  OBVIOUS
<1>2. /\ n \in Nat /\ Elements(s) = S /\ DOMAIN s = 1..n
      /\ \A i \in 1..n : s[i] \in S
      /\ \A i, j \in 1..n : s[i] = s[j] => i = j
  BY <1>1, ListLength
<1> DEFINE Front(i) == {s[j] : j \in 1..i}
           Count(i) == Cardinality(Units(Front(i), w))
<1>3. Front(0) = {} /\ Units({}, w) = {} /\ IsFiniteSet({}) /\ Cardinality({}) = 0
  <2>1. 1..0 = {}
    OBVIOUS
  <2> QED BY <2>1, FS_EmptySet DEF Units
<1>4. ASSUME NEW i \in Nat, i + 1 \in 1..n
      PROVE  Front(i + 1) = Front(i) \cup {s[i + 1]} /\ s[i + 1] \notin Front(i)
  <2>1. \A j \in 1..i : j \in 1..n /\ j # i + 1
    BY <1>2, <1>4
  <2>2. 1..(i + 1) = (1..i) \cup {i + 1}
    OBVIOUS
  <2> QED BY <1>2, <1>4, <2>1, <2>2
<1> HIDE DEF Front
<1> DEFINE Good == {i \in Nat : i <= n => IsFiniteSet(Units(Front(i), w))}
<1>5. Nat \subseteq Good
  <2>1. 0 \in Good
    BY <1>3
  <2>2. ASSUME NEW i \in Nat, i \in Good PROVE i + 1 \in Good
    <3>1. SUFFICES ASSUME i + 1 <= n PROVE IsFiniteSet(Units(Front(i + 1), w))
      OBVIOUS
    <3>2. i + 1 \in 1..n /\ i <= n
      BY <1>2, <3>1
    <3>3. w[s[i + 1]] \in Nat /\ IsFiniteSet(Units(Front(i), w))
      BY <1>2, <2>2, <3>2
    <3> QED BY <1>4, <3>2, <3>3, UnitsOfMore
  <2> HIDE DEF Good
  <2> QED BY <2>1, <2>2, NatSet
<1>6. ASSUME NEW i \in Nat, i + 1 \in 1..n PROVE Count(i + 1) = Count(i) + w[s[i + 1]]
  <2>1. i <= n /\ IsFiniteSet(Units(Front(i), w))
    BY <1>2, <1>5, <1>6
  <2>2. w[s[i + 1]] \in Nat
    BY <1>2, <1>6
  <2>3. Front(i + 1) = Front(i) \cup {s[i + 1]} /\ s[i + 1] \notin Front(i)
    BY <1>4, <1>6
  <2>4. PICK x, F : x = s[i + 1] /\ F = Front(i)
    OBVIOUS
  <2>5. Cardinality(Units(F \cup {x}, w)) = Cardinality(Units(F, w)) + w[x]
    BY <2>1, <2>2, <2>3, <2>4, UnitsOfMore
  <2> QED BY <2>3, <2>4, <2>5
<1>7. Count(0) = 0
  BY <1>3
<1> HIDE DEF Count
<1> DEFINE Adds(g) == g = [i \in 0..n |-> IF i = 0 THEN 0 ELSE g[i - 1] + f[i]]
<1>8. Adds([i \in 0..n |-> Count(i)])
  <2>1. ASSUME NEW i \in 0..n
        PROVE  Count(i) = IF i = 0 THEN 0 ELSE [j \in 0..n |-> Count(j)][i - 1] + f[i]
    <3>1. CASE i = 0
      BY <1>7, <3>1
    <3>2. CASE i # 0
      <4>1. i - 1 \in Nat /\ i - 1 \in 0..n /\ (i - 1) + 1 = i /\ i \in 1..n
        BY <1>2, <3>2
      <4>2. Count((i - 1) + 1) = Count(i - 1) + w[s[(i - 1) + 1]]
        BY <1>6, <4>1
      <4>3. f[i] = w[s[i]]
        BY <1>1, <4>1
      <4> QED BY <3>2, <4>1, <4>2, <4>3
    <3> QED BY <3>1, <3>2
  <2> QED BY <2>1
<1>9. PICK g : g = CHOOSE e : Adds(e)
  OBVIOUS
<1>10. Adds(g)
  <2> HIDE DEF Adds
  <2> QED BY <1>8, <1>9
<1>11. Sum(f, n) = g[n]
  BY <1>9 DEF Sum
<1>12. g[0] = 0 /\ \A i \in 1..n : g[i] = g[i - 1] + f[i]
  BY <1>2, <1>10
<1> HIDE DEF Adds
<1> DEFINE Same == {i \in Nat : i <= n => g[i] = Count(i)}
<1>13. Nat \subseteq Same
  <2>1. 0 \in Same
    BY <1>7, <1>12
  <2>2. ASSUME NEW i \in Nat, i \in Same PROVE i + 1 \in Same
    <3>1. SUFFICES ASSUME i + 1 <= n PROVE g[i + 1] = Count(i + 1)
      OBVIOUS
    <3>2. i + 1 \in 1..n /\ i <= n /\ (i + 1) - 1 = i
      BY <1>2, <3>1
    <3>3. g[i + 1] = g[i] + f[i + 1] /\ g[i] = Count(i)
      BY <1>12, <2>2, <3>2
    <3> QED BY <1>1, <1>6, <3>2, <3>3
  <2> HIDE DEF Same
  <2> QED BY <2>1, <2>2, NatSet
<1>14. g[n] = Count(n)
  BY <1>2, <1>13
<1>15. Front(n) = S
  BY <1>2 DEF Front, Elements
<1> QED BY <1>1, <1>11, <1>14, <1>15 DEF Count

-----------------------------------------------------------------------------
(* The iterator of get_blocks_info.  The list is a tree in which no node   *)
(* has a left child, so its walk is one of those above.                    *)

Chain(h) == [root |-> 0, crashed |-> FALSE,
             node |-> [b \in DOMAIN h |-> [left |-> Null, right |-> h[b].forward,
                                           parent |-> h[b].back, red |-> FALSE]]]
From(h) == [b \in DOMAIN h |-> {c \in DOMAIN h : b <= c}]
Offsets(h) == [b \in DOMAIN h |-> b]

LEMMA ChainGrown ==
    ASSUME NEW h, ListOK(h)
    PROVE  Grown(DOMAIN h, Chain(h), From(h), Offsets(h))
<1>1. PICK D, T, sub, key : /\ D = DOMAIN h /\ T = Chain(h) /\ sub = From(h)
                            /\ key = Offsets(h)
  OBVIOUS
<1>2. /\ D \subseteq Nat /\ IsFiniteSet(D) /\ 0 \in D /\ Null \notin D
      /\ \A b \in D : /\ h[b].back \in D \cup {Null} /\ h[b].forward \in D \cup {Null}
                      /\ Linked(h, b)
  BY <1>1, HeaderFacts DEF ListOK
<1>3. PICK node : node = [b \in D |-> [left |-> Null, right |-> h[b].forward,
                                       parent |-> h[b].back, red |-> FALSE]]
  OBVIOUS
<1>4. T = [root |-> 0, crashed |-> FALSE, node |-> node]
  BY <1>1, <1>3 DEF Chain
<1>5. node \in [D -> [left : D \cup {Null}, right : D \cup {Null},
                      parent : D \cup {Null}, red : BOOLEAN]]
  BY <1>2, <1>3
<1>6. T \in Trees(D) /\ T.root = 0
  BY <1>2, <1>4, <1>5 DEF Trees
<1>7. \A b \in D : /\ T.node[b]["left"] = Null /\ T.node[b].left = Null
                   /\ T.node[b]["right"] = h[b].forward /\ T.node[b].right = h[b].forward
                   /\ T.node[b].parent = h[b].back
  BY <1>3, <1>4
<1>8. sub = [b \in D |-> {c \in D : b <= c}] /\ key = [b \in D |-> b]
  BY <1>1 DEF From, Offsets
<1>9. sub \in [D -> SUBSET D]
  BY <1>8
<1>10. ASSUME NEW b \in D
       PROVE  Joint(T, sub, b, "left", "right") /\ SortedAt(T, sub, key, b, "left", "right")
  <2>1. PICK r : r = h[b].forward
    OBVIOUS
  <2>2. /\ r \in D \cup {Null} /\ b \in Nat
        /\ r # Null => b < r /\ h[r].back = b
        /\ \A c \in D : c <= b \/ (r # Null /\ r <= c)
    BY <1>1, <1>2, <2>1 DEF Linked
  <2>3. Below(sub, Null) = {} /\ Below(sub, r) = {c \in D : r # Null /\ r <= c}
    BY <1>8, <2>2 DEF Below
  <2>4. /\ sub[b] = {b} \cup Below(sub, r)
        /\ \A c \in Below(sub, r) : b < c /\ c \in D
    <3>1. sub[b] = {c \in D : b <= c}
      BY <1>8
    <3>2. \A c \in D : c \in Nat /\ (b <= c <=> c = b \/ (r # Null /\ r <= c))
      <4>1. \A c \in D : c \in Nat
        BY <1>2
      <4>2. r # Null => r \in Nat
        BY <1>2, <2>2
      <4> QED BY <2>2, <4>1, <4>2
    <3>3. \A c \in D : r # Null /\ r <= c => b < c
      <4>1. r # Null => r \in Nat
        BY <1>2, <2>2
      <4> QED BY <2>2, <3>2, <4>1
    <3> QED BY <2>3, <3>1, <3>2, <3>3
  <2>5. /\ h[b].back = Null => b = 0
        /\ h[b].back # Null => h[b].back \in D /\ h[h[b].back].forward = b
    BY <1>2 DEF Linked
  <2>6. Joint(T, sub, b, "left", "right")
    <3>1. /\ sub[b] = {b} \cup Below(sub, T.node[b]["left"]) \cup Below(sub, T.node[b]["right"])
          /\ b \notin Below(sub, T.node[b]["left"])
          /\ b \notin Below(sub, T.node[b]["right"])
          /\ Below(sub, T.node[b]["left"]) \cap Below(sub, T.node[b]["right"]) = {}
      BY <1>7, <2>1, <2>2, <2>3, <2>4
    <3>2. /\ T.node[b]["left"] # Null => T.node[T.node[b]["left"]].parent = b
          /\ T.node[b]["right"] # Null => T.node[T.node[b]["right"]].parent = b
      BY <1>7, <2>1, <2>2
    <3>3. /\ T.node[b].parent = Null => T.root = b
          /\ T.node[b].parent # Null => T.node[T.node[b].parent]["right"] = b
      BY <1>6, <1>7, <2>5
    <3> QED BY <3>1, <3>2, <3>3 DEF Joint
  <2>7. SortedAt(T, sub, key, b, "left", "right")
    <3>1. \A c \in Below(sub, T.node[b]["left"]) : FALSE
      BY <1>7, <2>3
    <3>2. \A c \in Below(sub, T.node[b]["right"]) : key[b] <= key[c]
      BY <1>2, <1>7, <1>8, <2>1, <2>2, <2>4
    <3> QED BY <3>1, <3>2 DEF SortedAt, Before
  <2> QED BY <2>6, <2>7
<1>11. Top(D, T, sub)
  <2>1. h[0].back = Null
    BY <1>2 DEF Linked
  <2>2. sub[0] = D
    <3>1. sub[0] = {c \in D : 0 <= c}
      BY <1>2, <1>8
    <3>2. \A c \in D : c \in Nat
      BY <1>2
    <3> QED BY <3>1, <3>2
  <2> QED BY <1>2, <1>6, <1>7, <2>1, <2>2 DEF Top, Null
<1>12. Shape(D, T, sub)
  BY <1>2, <1>6, <1>9, <1>10, <1>11 DEF Shape
<1>13. \A b \in D : key[b] \in Int
  BY <1>2, <1>8
<1> QED BY <1>1, <1>10, <1>12, <1>13 DEF Grown

LEMMA BlocksFromLists ==
    ASSUME ListOK(heap)
    PROVE  Lists(BlocksFrom(0), Blocks, Offsets(heap))
<1>1. PICK D, T, sub, key : /\ D = Blocks /\ T = Chain(heap) /\ sub = From(heap)
                            /\ key = Offsets(heap)
  OBVIOUS
<1>2. Grown(D, T, sub, key) /\ Shape(D, T, sub)
  BY <1>1, ChainGrown DEF Blocks, Grown
<1>3. /\ D \subseteq Nat /\ 0 \in D /\ Null \notin D /\ D = DOMAIN heap
      /\ \A b \in D : heap[b].forward \in D \cup {Null}
  BY <1>1, HeaderFacts DEF ListOK, Blocks
<1>4. \A b \in D : T.node[b].left = Null /\ T.node[b].right = heap[b].forward
  BY <1>1, <1>3 DEF Chain
<1>5. sub[0] = D
  BY <1>1, <1>3 DEF From
<1> DEFINE Walk(g) == g = [c \in D |-> IF heap[c].forward = Null THEN <<c>>
                                       ELSE <<c>> \o g[heap[c].forward]]
<1>6. PICK f \in [D \cup {Null} -> Seq(D)] :
              f[Null] = <<>> /\ \A m \in D : WalkedAt(f, T, m)
  BY <1>2, WalkExists
<1>7. \A m \in D : f[m] = IF heap[m].forward = Null THEN <<m>> ELSE <<m>> \o f[heap[m].forward]
  <2>1. TAKE m \in D
  <2>2. PICK r : r = heap[m].forward
    OBVIOUS
  <2>3. f[m] = <<>> \o <<m>> \o f[r]
    BY <1>4, <1>6, <2>2 DEF WalkedAt
  <2>4. <<>> \o <<m>> = <<m>> /\ <<m>> \o <<>> = <<m>>
    <3>1. <<m>> \in Seq(D)
      OBVIOUS
    <3> QED BY <3>1, ConcatEmptySeq
  <2> QED BY <1>6, <2>2, <2>3, <2>4
<1>8. Walk([c \in D |-> f[c]])
  <2>1. \A c \in D : [e \in D |-> f[e]][c] =
           IF heap[c].forward = Null THEN <<c>>
           ELSE <<c>> \o [e \in D |-> f[e]][heap[c].forward]
    BY <1>3, <1>7
  <2> QED BY <2>1
<1>9. PICK g : g = CHOOSE e : Walk(e)
  OBVIOUS
<1>10. Walk(g)
  <2> HIDE DEF Walk
  <2> QED BY <1>8, <1>9
<1>11. BlocksFrom(0) = g[0]
  BY <1>1, <1>9 DEF BlocksFrom
<1>12. \A c \in D : g[c] = IF heap[c].forward = Null THEN <<c>> ELSE <<c>> \o g[heap[c].forward]
  BY <1>10
<1> HIDE DEF Walk
<1>13. PICK w : w = [x \in D \cup {Null} |-> IF x = Null THEN <<>> ELSE g[x]]
  OBVIOUS
<1>14. w[Null] = <<>> /\ \A c \in D : w[c] = g[c]
  BY <1>3, <1>13
<1>15. ASSUME NEW m \in D PROVE WalkedAt(w, T, m)
  <2>1. PICK r : r = heap[m].forward
    OBVIOUS
  <2>2. <<>> \o <<m>> = <<m>> /\ <<m>> \o <<>> = <<m>>
    <3>1. <<m>> \in Seq(D)
      OBVIOUS
    <3> QED BY <3>1, ConcatEmptySeq
  <2>3. w[m] = <<m>> \o w[r]
    BY <1>3, <1>12, <1>14, <2>1, <2>2
  <2> QED BY <1>4, <1>14, <2>1, <2>2, <2>3 DEF WalkedAt
<1>16. Lists(w[0], sub[0], key)
  BY <1>2, <1>3, <1>14, <1>15, WalksList
<1> QED BY <1>1, <1>3, <1>5, <1>11, <1>14, <1>16

(* The list leads forwards and backwards over all blocks by address,       *)
(* between do_allocate_sm and do_deallocate_sm no two free blocks stand    *)
(* side by side, and a caller's block is as long as what was asked for.    *)
THEOREM ListAlwaysWhole == Spec => []ListWhole
<1>1. IInv => ListWhole
  <2>1. SUFFICES ASSUME IInv, ~ tree.crashed PROVE ListWhole
    BY DEF ListWhole
  <2>2. PICK walk, key : walk = BlocksFrom(0) /\ key = Offsets(heap)
    OBVIOUS
  <2>3. ListOK(heap) /\ NoTwoFree(heap) /\ Callers(heap, held)
    BY <2>1 DEF IInv, Searchable
  <2>4. Lists(walk, Blocks, key)
    BY <2>2, <2>3, BlocksFromLists
  <2>5. /\ Len(walk) \in Nat /\ Elements(walk) = Blocks
        /\ \A i \in 1..Len(walk) : walk[i] \in Blocks
    BY <2>4, ListLength
  <2>6. /\ Blocks = DOMAIN heap /\ Blocks \subseteq Nat /\ 0 \in Blocks
        /\ \A b \in Blocks : key[b] = b
    BY <2>2, <2>3 DEF ListOK, Blocks, Offsets
  <2>7. \A b \in Blocks : /\ Linked(heap, b) /\ heap[b].back \in Blocks \cup {Null}
                          /\ heap[b].forward \in Blocks \cup {Null}
    BY <2>3, <2>6, HeaderFacts
  <2>8. \A i, j \in 1..Len(walk) : i < j => walk[i] < walk[j]
    <3>1. ASSUME NEW i \in 1..Len(walk), NEW j \in 1..Len(walk), i < j PROVE walk[i] < walk[j]
      <4>1. Rising(key, walk, i, j)
        BY <2>4, <3>1 DEF Lists
      <4>2. walk[i] \in Nat /\ walk[j] \in Nat /\ key[walk[i]] = walk[i] /\ key[walk[j]] = walk[j]
        BY <2>5, <2>6
      <4> QED BY <4>1, <4>2 DEF Rising
    <3> QED BY <3>1
  <2>9. ASSUME NEW i \in 1..(Len(walk) - 1)
        PROVE  /\ walk[i] < walk[i + 1]
               /\ heap[walk[i + 1]].back = walk[i]
               /\ heap[walk[i]].occupied \/ heap[walk[i + 1]].occupied
    <3>1. i \in 1..Len(walk) /\ i + 1 \in 1..Len(walk) /\ i < i + 1
      BY <2>5
    <3>2. PICK b, n : b = walk[i] /\ n = walk[i + 1]
      OBVIOUS
    <3>3. b < n /\ b \in Blocks /\ n \in Blocks /\ b \in Nat /\ n \in Nat
      BY <2>5, <2>6, <2>8, <3>1, <3>2
    <3>4. PICK r : r = heap[b].forward
      OBVIOUS
    <3>5. /\ r # Null /\ r <= n /\ r \in Blocks /\ r \in Nat /\ b < r /\ heap[r].back = b
      BY <2>6, <2>7, <3>3, <3>4 DEF Linked
    <3>6. r = n
      <4>1. PICK j \in 1..Len(walk) : walk[j] = r
        BY <2>4, <3>5 DEF Lists
      <4>2. i < j
        <5>1. j < i => r < b
          BY <2>8, <3>1, <3>2, <4>1
        <5>2. j = i => r = b
          BY <3>2, <4>1
        <5> QED BY <3>1, <3>3, <3>5, <4>1, <5>1, <5>2
      <4>3. i + 1 < j => n < r
        BY <2>8, <3>1, <3>2, <4>1
      <4> QED BY <3>1, <3>2, <3>3, <3>5, <4>1, <4>2, <4>3
    <3>7. Apart(heap, b)
      BY <2>3, <2>6, <3>3 DEF NoTwoFree
    <3> QED BY <3>2, <3>3, <3>4, <3>5, <3>6, <3>7 DEF Apart
  <2>10. heap[0].back = Null
    BY <2>6, <2>7 DEF Linked
  <2>11. /\ DOMAIN held = Blocks \ FreeBlocks
         /\ \A b \in DOMAIN held : Size(b) >= held[b]
    BY <2>3 DEF Callers, FreeBlocks, FreeIn, Blocks, Size
  <2> QED BY <2>2, <2>5, <2>9, <2>10, <2>11 DEF ListWhole
<1> QED BY <1>1, Invariance, PTL

LEMMA ShapeLinksAgree ==
    ASSUME NEW M, NEW sub, NEW T, Shape(M, T, sub)
    PROVE  Links!LinksAgree(T)
<1>1. T \in Trees(M) /\ Links!Members(T) = M /\ Null \notin M
  BY TreesFacts DEF Shape
<1>2. T.root \in M => T.node[T.root].parent = Null
  BY OnlyRoot
<1>3. ASSUME NEW n \in M, NEW side \in Links!Sides, T.node[n][side] # Null
      PROVE  T.node[n][side] \in M /\ T.node[T.node[n][side]].parent = n
  BY <1>3, KidParent
<1>4. ASSUME NEW n \in M, T.node[n].left = T.node[n].right
      PROVE  T.node[n].left = Null
  <2>1. PICK l : l = T.node[n].left
    OBVIOUS
  <2>2. Joint(T, sub, n, "left", "right") /\ l \in M \cup {Null}
    BY <1>1, <2>1, TreesFacts DEF Shape, Links!Sides
  <2>3. Below(sub, l) \cap Below(sub, l) = {}
    BY <1>4, <2>1, <2>2 DEF Joint
  <2>4. l # Null => l \in Below(sub, l)
    BY <2>2, SubFacts DEF Below
  <2> QED BY <2>1, <2>3, <2>4
<1>5. ASSUME NEW n \in M, n # T.root
      PROVE  T.node[n].parent \in M /\ \E side \in Links!Sides : T.node[T.node[n].parent][side] = n
  <2>1. T.node[n].parent # Null
    BY <1>5, OnlyRoot
  <2> QED BY <2>1, HasParent
<1> QED BY <1>1, <1>2, <1>3, <1>4, <1>5 DEF Links!LinksAgree

(* The tree that the searches of do_allocate_sm go through holds each free *)
(* block once, by the size that the list gives it, with parents that agree *)
(* with children, and available_memory counts just what is in it.          *)
THEOREM TreeAlwaysHoldsFree == Spec => []TreeHoldsFree
<1>1. IInv => TreeHoldsFree
  <2>1. SUFFICES ASSUME IInv, ~ tree.crashed PROVE TreeHoldsFree
    BY DEF TreeHoldsFree
  <2>2. PICK M, key, walk : M = FreeIn(heap) /\ key = Sizes(heap)
                            /\ walk = Links!InOrder(tree, tree.root)
    OBVIOUS
  <2>3. ListOK(heap) /\ IsTree(M, tree, key)
    BY <2>1, <2>2 DEF IInv, Searchable
  <2>4. PICK sub : Grown(M, tree, sub, key)
    BY <2>3 DEF IsTree
  <2>5. Links!LinksAgree(tree) /\ Links!Members(tree) = M
    BY <2>4, ShapeLinksAgree, TreesFacts DEF Grown, Shape
  <2>6. Lists(walk, M, key)
    BY <2>2, <2>3, InOrderLists
  <2>7. /\ Len(walk) \in Nat /\ Len(walk) = Cardinality(M) /\ Elements(walk) = M
        /\ DOMAIN walk = 1..Len(walk) /\ \A i \in 1..Len(walk) : walk[i] \in M
    BY <2>6, ListLength
  <2>8. /\ M = FreeBlocks /\ M \subseteq Blocks
        /\ \A b \in Blocks : key[b] = Size(b) /\ Size(b) \in Nat
    <3>1. \A b \in Blocks : key[b] = Size(b)
      BY <2>2 DEF Sizes, Size, Blocks
    <3>2. \A b \in Blocks : SizeIn(heap, b) \in Int /\ SizeIn(heap, b) >= L
      BY <2>3, HeaderFacts DEF Blocks
    <3>3. \A b \in Blocks : Size(b) \in Nat
      BY <3>2, RedBlackTreeAssumption DEF Size
    <3> QED BY <2>2, <3>1, <3>3 DEF FreeBlocks, FreeIn, Blocks
  <2>9. ASSUME NEW i \in 1..(Len(walk) - 1) PROVE Size(walk[i]) <= Size(walk[i + 1])
    <3>1. i \in 1..Len(walk) /\ i + 1 \in 1..Len(walk) /\ i < i + 1
      BY <2>7
    <3>2. Rising(key, walk, i, i + 1)
      BY <2>6, <3>1 DEF Lists
    <3> QED BY <2>7, <2>8, <3>1, <3>2 DEF Rising
  <2>10. available_memory = Sum([i \in DOMAIN walk |-> Size(walk[i])], Len(walk))
    <3>1. PICK all, info : all = BlocksFrom(0)
                           /\ info = [i \in DOMAIN all |-> [size |-> Size(all[i]),
                                                            occupied |-> heap[all[i]].occupied]]
      OBVIOUS
    <3>2. Lists(all, Blocks, Offsets(heap))
      BY <2>3, <3>1, BlocksFromLists
    <3>3. /\ Len(all) \in Nat /\ DOMAIN all = 1..Len(all)
          /\ \A i \in 1..Len(all) : all[i] \in Blocks
      BY <3>2, ListLength
    <3>4. PICK f : f = [i \in DOMAIN info |-> IF info[i].occupied THEN 0 ELSE info[i].size]
      OBVIOUS
    <3>5. available_memory = Sum(f, Len(info))
      BY <3>1, <3>4 DEF available_memory, get_blocks_info
    <3>6. Len(info) = Len(all)
      BY <3>1, <3>3
    <3>7. PICK w : w = [b \in Blocks |-> IF heap[b].occupied THEN 0 ELSE Size(b)]
      OBVIOUS
    <3>8. \A b \in Blocks : w[b] \in Nat
      BY <2>8, <3>7
    <3>9. \A i \in 1..Len(all) : f[i] = w[all[i]]
      BY <3>1, <3>3, <3>4, <3>7
    <3>10. Sum(f, Len(all)) = Cardinality(Units(Blocks, w))
      BY <3>2, <3>8, <3>9, SumCounts
    <3>11. Units(Blocks, w) = Units(M, w)
      <4>1. \A b \in Blocks : b \notin M => w[b] = 0
        BY <2>8, <3>7 DEF FreeBlocks
      <4>2. \A k \in Nat : ~ (1 <= k /\ k <= 0)
        OBVIOUS
      <4> QED BY <2>8, <4>1, <4>2 DEF Units
    <3>12. PICK e : e = [i \in DOMAIN walk |-> Size(walk[i])]
      OBVIOUS
    <3>13. \A i \in 1..Len(walk) : e[i] = w[walk[i]]
      BY <2>7, <2>8, <3>7, <3>12 DEF FreeBlocks
    <3>14. Sum(e, Len(walk)) = Cardinality(Units(M, w))
      BY <2>6, <2>8, <3>8, <3>13, SumCounts
    <3> QED BY <3>5, <3>6, <3>10, <3>11, <3>12, <3>14
  <2> QED BY <2>2, <2>5, <2>7, <2>8, <2>9, <2>10 DEF TreeHoldsFree
<1> QED BY <1>1, Invariance, PTL

-----------------------------------------------------------------------------
(* The regions of AllocatorSpec are the payloads of the occupied blocks. *)

Regions == [b \in Taken(heap) |-> SizeIn(heap, b)]

Stop(b) == IF heap[b].forward = Null THEN Space ELSE heap[b].forward

LEMMA RegionsFacts ==
    /\ Regions = [b \in Blocks \ FreeBlocks |-> Size(b)]
    /\ Regions' = [b \in Blocks \ FreeBlocks |-> Size(b)]'
BY DEF Regions, Taken, FreeIn, FreeBlocks, Blocks, Size

(* The bytes o .. o + len - 1 are in no occupied block. *)
Room(o, len) ==
    /\ o + len <= Space
    /\ \A r \in Taken(heap) : r + H + SizeIn(heap, r) <= o \/ o + len <= r

LEMMA VacantIsRoom ==
    ASSUME NEW o, NEW len
    PROVE  Promise!Vacant(o, len) <=> Room(o, len)
BY RegionsFacts DEF Promise!Vacant, Promise!End, Room, Regions

(* Where a block ends *)
LEMMA StopFacts ==
    ASSUME ListOK(heap), NEW b \in DOMAIN heap
    PROVE  /\ b \in Nat /\ Stop(b) \in Nat /\ b + H + SizeIn(heap, b) = Stop(b)
           /\ \A c \in DOMAIN heap : c <= b \/ Stop(b) <= c
           /\ SizeIn(heap, b) \in Nat /\ Stop(b) <= Space
<1>1. /\ DOMAIN heap \subseteq Nat /\ IsFiniteSet(DOMAIN heap) /\ 0 \in DOMAIN heap
      /\ \A c \in DOMAIN heap : /\ Linked(heap, c) /\ SizeIn(heap, c) >= L
                                /\ heap[c].forward \in DOMAIN heap \cup {Null}
  BY HeaderFacts DEF ListOK
<1>2. H \in Nat \ {0} /\ L \in Nat /\ Space \in Nat
  BY RedBlackTreeAssumption
<1>3. ASSUME NEW c \in DOMAIN heap
      PROVE  /\ c \in Nat /\ Stop(c) \in Nat /\ c + H + SizeIn(heap, c) = Stop(c)
             /\ \A e \in DOMAIN heap : e <= c \/ Stop(c) <= e
             /\ SizeIn(heap, c) \in Nat
  <2>1. c \in Nat /\ Stop(c) \in Nat
    BY <1>1, <1>2 DEF Stop
  <2>2. SizeIn(heap, c) = Stop(c) - c - H
    BY DEF SizeIn, Stop
  <2>3. SizeIn(heap, c) >= L
    BY <1>1
  <2>4. \A e \in DOMAIN heap : e <= c \/ Stop(c) <= e
    BY <1>1 DEF Linked, Stop
  <2> QED BY <1>2, <2>1, <2>2, <2>3, <2>4
<1>4. Stop(b) <= Space
  <2>1. PICK walk, key : walk = BlocksFrom(0) /\ key = Offsets(heap)
    OBVIOUS
  <2>2. Lists(walk, DOMAIN heap, key)
    BY <2>1, BlocksFromLists DEF Blocks
  <2>3. PICK k : k = Len(walk)
    OBVIOUS
  <2>4. /\ k \in Nat /\ \A i \in 1..k : walk[i] \in DOMAIN heap
        /\ \A c \in DOMAIN heap : \E i \in 1..k : walk[i] = c
    BY <2>2, <2>3, ListLength DEF Lists
  <2>5. k \in 1..k
    BY <1>1, <2>4
  <2>6. PICK m : m = walk[k]
    OBVIOUS
  <2>7. m \in DOMAIN heap /\ m \in Nat
    BY <1>1, <2>4, <2>5, <2>6
  <2>8. ASSUME NEW c \in DOMAIN heap PROVE c <= m
    <3>1. PICK i \in 1..k : walk[i] = c
      BY <2>4
    <3>2. CASE i = k
      BY <1>1, <2>6, <3>1, <3>2
    <3>3. CASE i # k
      <4>1. i < k
        BY <2>4, <3>3
      <4>2. Rising(key, walk, i, k)
        BY <2>2, <2>3, <2>5, <4>1 DEF Lists
      <4>3. key[c] = c /\ key[m] = m
        BY <2>1, <2>7 DEF Offsets
      <4> QED BY <2>6, <3>1, <4>2, <4>3 DEF Rising
    <3> QED BY <3>2, <3>3
  <2>9. heap[m].forward = Null
    <3>1. SUFFICES ASSUME heap[m].forward # Null PROVE FALSE
      OBVIOUS
    <3>2. PICK r : r = heap[m].forward
      OBVIOUS
    <3>3. r \in DOMAIN heap /\ m < r
      BY <1>1, <2>7, <3>1, <3>2 DEF Linked
    <3>4. r <= m /\ r \in Nat
      BY <1>1, <2>8, <3>3
    <3> QED BY <2>7, <3>3, <3>4
  <2>10. Stop(m) = Space /\ m <= Space
    <3>1. Stop(m) = Space
      BY <2>9 DEF Stop
    <3>2. m + H + SizeIn(heap, m) = Stop(m) /\ SizeIn(heap, m) \in Nat
      BY <1>3, <2>7
    <3> QED BY <1>2, <2>7, <3>1, <3>2
  <2>11. CASE heap[b].forward = Null
    BY <1>2, <2>11 DEF Stop
  <2>12. CASE heap[b].forward # Null
    <3>1. Stop(b) \in DOMAIN heap
      BY <1>1, <2>12 DEF Stop
    <3>2. Stop(b) <= m /\ Stop(b) \in Nat
      BY <1>1, <2>8, <3>1
    <3> QED BY <1>2, <2>7, <2>10, <3>2
  <2> QED BY <2>11, <2>12
<1> QED BY <1>3, <1>4

LEMMA PromiseInit == Init => Promise!SpecInit
<1>1. SUFFICES ASSUME Init PROVE Promise!SpecInit
  OBVIOUS
<1>2. Taken(heap) = {}
  BY <1>1 DEF Init, Taken, FreeIn
<1>3. Regions = [o \in {} |-> 0]
  BY <1>2 DEF Regions
<1>4. last = [op |-> "none", arg |-> 0, at |-> 0]
  BY <1>1 DEF Init
<1> QED BY <1>3, <1>4, RegionsFacts DEF Promise!SpecInit

(* The region lies in the hole that the free block was. *)
LEMMA PromiseGrant ==
    ASSUME IInv, NEW n \in Requests, NEW b, Granted(b, n)
    PROVE  Promise!Grant(n)
<1>1. PICK len : len = SizeIn(heap', b)
  OBVIOUS
<1>2. /\ ListOK(heap) /\ b \in DOMAIN heap /\ b \notin Taken(heap)
      /\ Taken(heap) \subseteq DOMAIN heap
      /\ last' = [op |-> "allocated", arg |-> n, at |-> b]
      /\ n <= len /\ len <= SizeIn(heap, b)
      /\ Taken(heap') = Taken(heap) \cup {b}
      /\ \A c \in Taken(heap) : SizeIn(heap', c) = SizeIn(heap, c)
  BY <1>1 DEF IInv, Granted, Taken, FreeIn
<1>3. /\ b \in Nat /\ Stop(b) \in Nat /\ b + H + SizeIn(heap, b) = Stop(b)
      /\ SizeIn(heap, b) \in Nat /\ Stop(b) <= Space
      /\ \A c \in DOMAIN heap : c <= b \/ Stop(b) <= c
  BY <1>2, StopFacts
<1>4. n \in Nat /\ H \in Nat /\ Space \in Nat
  BY RedBlackTreeAssumption
<1>5. len \in Int
  BY <1>1 DEF Granted
<1>6. b \in 0..Space /\ len \in n..Space
  BY <1>2, <1>3, <1>4, <1>5
<1>7. Room(b, H + len)
  <2>1. b + (H + len) <= Stop(b)
    BY <1>2, <1>3, <1>4, <1>5
  <2>2. ASSUME NEW r \in Taken(heap) PROVE r + H + SizeIn(heap, r) <= b \/ b + (H + len) <= r
    <3>1. /\ r \in DOMAIN heap /\ r # b /\ r \in Nat
          /\ r + H + SizeIn(heap, r) = Stop(r) /\ Stop(r) \in Nat
          /\ b <= r \/ Stop(r) <= b
          /\ r <= b \/ Stop(b) <= r
      BY <1>2, <1>3, StopFacts
    <3> QED BY <1>3, <1>4, <1>5, <2>1, <3>1
  <2> QED BY <1>3, <1>4, <1>5, <2>1, <2>2 DEF Room
<1>8. Regions' = [r \in DOMAIN Regions \cup {b} |-> IF r = b THEN len ELSE Regions[r]]
  <2>1. Regions' = [r \in Taken(heap) \cup {b} |-> SizeIn(heap', r)]
    BY <1>2 DEF Regions
  <2>2. \A r \in Taken(heap) \cup {b} :
           SizeIn(heap', r) = IF r = b THEN len ELSE Regions[r]
    BY <1>1, <1>2 DEF Regions
  <2>3. DOMAIN Regions = Taken(heap)
    BY DEF Regions
  <2> QED BY <2>1, <2>2, <2>3
<1>9. Promise!Vacant(b, H + len)
  BY <1>7, VacantIsRoom
<1>10. [c \in Blocks \ FreeBlocks |-> Size(c)]'
         = [r \in DOMAIN [c \in Blocks \ FreeBlocks |-> Size(c)] \cup {b} |->
              IF r = b THEN len ELSE [c \in Blocks \ FreeBlocks |-> Size(c)][r]]
  BY <1>8, RegionsFacts, Zenon
<1> QED BY <1>2, <1>6, <1>9, <1>10, Zenon DEF Promise!Grant

(* A hole that is long enough would be a free block that fits. *)
LEMMA NoRoom ==
    ASSUME IInv, ~ tree.crashed, NEW n \in Requests, Chosen(n) = Null, NEW o \in 0..Space
    PROVE  ~ Room(o, n + H)
<1>1. SUFFICES ASSUME Room(o, n + H) PROVE FALSE
  OBVIOUS
<1>2. ListOK(heap) /\ NoTwoFree(heap) /\ DOMAIN heap \subseteq Nat /\ 0 \in DOMAIN heap
  BY DEF IInv, Searchable, ListOK
<1>3. n \in Nat /\ H \in Nat \ {0} /\ o \in Nat /\ Space \in Nat
  BY RedBlackTreeAssumption
<1> DEFINE Gaps == {o - c : c \in {e \in DOMAIN heap : e <= o}}
<1>4. Gaps \subseteq Nat /\ Gaps # {}
  <2>1. \A c \in DOMAIN heap : c \in Nat /\ (c <= o => o - c \in Nat)
    BY <1>2, <1>3
  <2>2. 0 <= o
    BY <1>3
  <2>3. o - 0 \in Gaps
    BY <1>2, <2>2
  <2> QED BY <2>1, <2>3
<1>5. PICK k \in Gaps : \A j \in Gaps : k <= j
  <2> HIDE DEF Gaps
  <2> QED BY <1>4, Least
<1>6. PICK b \in DOMAIN heap : b <= o /\ k = o - b
  OBVIOUS
<1>7. /\ b \in Nat /\ Stop(b) \in Nat /\ b + H + SizeIn(heap, b) = Stop(b)
      /\ SizeIn(heap, b) \in Nat
  BY <1>2, StopFacts
<1>8. ASSUME NEW c \in DOMAIN heap, c <= o PROVE c <= b
  <2>1. o - c \in Gaps
    BY <1>8
  <2>2. o - b <= o - c /\ c \in Nat
    BY <1>2, <1>5, <1>6, <2>1
  <2> QED BY <1>3, <1>7, <2>2
<1>9. o + (n + H) <= Space
  BY <1>1 DEF Room
<1>10. o < Stop(b)
  <2>1. CASE heap[b].forward = Null
    BY <1>3, <1>9, <2>1 DEF Stop
  <2>2. CASE heap[b].forward # Null
    <3>1. PICK r : r = heap[b].forward
      OBVIOUS
    <3>2. r \in DOMAIN heap /\ b < r /\ Stop(b) = r /\ r \in Nat
      BY <1>2, <2>2, <3>1, HeaderFacts DEF Linked, Stop
    <3> QED BY <1>3, <1>7, <1>8, <3>2
  <2> QED BY <2>1, <2>2
<1>11. CASE b \in Taken(heap)
  <2>1. b + H + SizeIn(heap, b) <= o \/ o + (n + H) <= b
    BY <1>1, <1>11 DEF Room
  <2>2. CASE b + H + SizeIn(heap, b) <= o
    BY <1>3, <1>7, <1>10, <2>2
  <2>3. CASE o + (n + H) <= b
    BY <1>3, <1>6, <1>7, <2>3
  <2> QED BY <2>1, <2>2, <2>3
<1>12. CASE b \notin Taken(heap)
  <2>1. b \in FreeIn(heap) /\ ~ heap[b].occupied
    BY <1>12 DEF Taken, FreeIn
  <2>2. SizeIn(heap, b) < n
    BY <2>1, NothingFits DEF Size
  <2>3. o + (n + H) <= Stop(b)
    <3>1. CASE heap[b].forward = Null
      BY <1>9, <3>1 DEF Stop
    <3>2. CASE heap[b].forward # Null
      <4>1. PICK r : r = heap[b].forward
        OBVIOUS
      <4>2. r \in DOMAIN heap /\ Stop(b) = r
        BY <1>2, <3>2, <4>1, HeaderFacts DEF Stop
      <4>3. Apart(heap, b)
        BY <1>2 DEF NoTwoFree
      <4>4. r \in Taken(heap)
        BY <2>1, <3>2, <4>1, <4>2, <4>3 DEF Apart, Taken, FreeIn
      <4>5. r + H + SizeIn(heap, r) <= o \/ o + (n + H) <= r
        BY <1>1, <4>4 DEF Room
      <4>6. r \in Nat /\ SizeIn(heap, r) \in Nat
        BY <1>2, <4>2, StopFacts
      <4> QED BY <1>3, <1>10, <4>2, <4>5, <4>6
    <3> QED BY <3>1, <3>2
  <2> QED BY <1>3, <1>6, <1>7, <2>2, <2>3
<1> QED BY <1>11, <1>12

(* A request is refused only when no hole could take it. *)
LEMMA PromiseRefuse ==
    ASSUME IInv, ~ tree.crashed, NEW n \in Requests, ThrowBadAlloc(n)
    PROVE  Promise!Refuse(n)
<1>1. /\ Chosen(n) = Null /\ last' = [op |-> "bad_alloc", arg |-> n, at |-> -1]
      /\ heap' = heap
  BY DEF ThrowBadAlloc, Null
<1>2. \A o \in 0..Space : ~ Room(o, n + H)
  BY <1>1, NoRoom
<1>3. [m \in Requests |-> m + H][n] = n + H
  OBVIOUS
<1>4. \A o \in 0..Space : ~ Promise!Vacant(o, [m \in Requests |-> m + H][n])
  BY <1>2, <1>3, VacantIsRoom
<1>5. Regions' = Regions
  BY <1>1 DEF Regions, Taken, FreeIn, SizeIn
<1> QED BY <1>1, <1>4, <1>5, RegionsFacts DEF Promise!Refuse

(* Only the block the caller names goes. *)
LEMMA PromiseTakeBack ==
    ASSUME NEW b \in Taken(heap), SameTaken(heap, heap', Taken(heap) \ {b}),
           last' = [op |-> "deallocated", arg |-> b, at |-> b]
    PROVE  Promise!TakeBack(b) /\ b \in DOMAIN Regions
<1>1. Regions' = [r \in DOMAIN Regions \ {b} |-> Regions[r]]
  BY DEF SameTaken, Regions
<1>2. b \in DOMAIN Regions
  BY DEF Regions
<1> QED BY <1>1, <1>2, RegionsFacts DEF Promise!TakeBack

LEMMA PromiseStep ==
    ASSUME IInv, [Next]_vars
    PROVE  [Promise!SpecNext]_(Promise!specVars)
<1>1. ASSUME heap' = heap PROVE Regions' = Regions
  BY <1>1 DEF Regions, Taken, FreeIn, SizeIn
<1>2. UNCHANGED <<heap, last>> => UNCHANGED Promise!specVars
  BY <1>1, RegionsFacts DEF Promise!specVars
<1>3. CASE UNCHANGED vars
  BY <1>2, <1>3 DEF vars
<1>4. CASE Next
  <2>1. ~ tree.crashed
    BY <1>4 DEF Next
  <2>2. ASSUME NEW n \in Requests, Allocate(n) PROVE Promise!SpecNext
    <3>1. PICK b : Granted(b, n)
      BY <2>1, <2>2, AllocateOK
    <3>2. Promise!Grant(n)
      BY <3>1, PromiseGrant
    <3> QED BY <3>2 DEF Promise!SpecNext
  <2>3. ASSUME NEW n \in Requests, ThrowBadAlloc(n) PROVE Promise!SpecNext
    BY <2>1, <2>3, PromiseRefuse DEF Promise!SpecNext
  <2>4. ASSUME NEW b \in DOMAIN held, Deallocate(b) PROVE Promise!SpecNext
    <3>1. SameTaken(heap, heap', Taken(heap) \ {b})
      BY <2>1, <2>4, DeallocateOK
    <3>2. b \in Taken(heap)
      BY DEF IInv, Callers, Taken
    <3>3. last' = [op |-> "deallocated", arg |-> b, at |-> b]
      BY <2>4 DEF Deallocate
    <3>4. Promise!TakeBack(b) /\ b \in DOMAIN Regions
      BY <3>1, <3>2, <3>3, PromiseTakeBack
    <3> QED BY <3>4, RegionsFacts DEF Promise!SpecNext
  <2>5. CASE RejectForeign
    <3>1. last' = [op |-> "rejected", arg |-> -1, at |-> -1] /\ heap' = heap
      BY <2>5 DEF RejectForeign
    <3>2. Promise!Reject
      BY <1>1, <3>1, RegionsFacts DEF Promise!Reject
    <3> QED BY <3>2 DEF Promise!SpecNext
  <2>6. CASE SetFitMode
    BY <1>2, <2>6 DEF SetFitMode
  <2> QED BY <1>4, <2>2, <2>3, <2>4, <2>5, <2>6 DEF Next
<1> QED BY <1>3, <1>4

(* do_allocate_sm hands out holes only, do_deallocate_sm takes back what   *)
(* the caller names and nothing else, and bad_alloc is thrown only when no *)
(* hole takes a header and the bytes asked for: every step of the list and *)
(* the tree is a step of AllocatorSpec.                                    *)
THEOREM KeepsPromiseAlways == Spec => KeepsPromise
<1>1. IInv /\ [Next]_vars => [Promise!SpecNext]_(Promise!specVars)
  BY PromiseStep
<1> QED BY <1>1, PromiseInit, Invariance, PTL DEF Spec, KeepsPromise, Promise!AllocatorPromise
====
