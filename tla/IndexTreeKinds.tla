---- MODULE IndexTreeKinds ----
(***************************************************************************)
(* B_tree and BP_tree, the trees of wide nodes.                            *)
(*                                                                         *)
(* A tree is a record [seps, leaves, stale, linked, crashed]: without      *)
(* separators the only leaf is the root, with them the root holds them and *)
(* the leaves are its children.  There is no third level: the pointers of  *)
(* the root of a B_tree run out before it has a separator too many, and a  *)
(* BP_tree does not survive a separator too many.                          *)
(* stale is for the root of a B_tree: the number of nodes behind the last  *)
(* leaf in its _pointers.  A split leaves the node it has split in them,   *)
(* with all its 2 * t keys, and no way down leads to it.                   *)
(* linked is for the leaves of a BP_tree: whether _next leads to the leaf  *)
(* behind it, or is null in the last leaf.  crashed is TRUE once the code  *)
(* has read what is no node or key of the tree, has thrown out of the      *)
(* middle of a split, or has left a node with a child too many.            *)
(***************************************************************************)
EXTENDS TreeWalks

LOCAL Seqs == INSTANCE SequencesExt

CONSTANT MinDegree     \* the template parameter t

ASSUME MinDegreeAssumption == MinDegree \in Nat /\ MinDegree > 1

MaxKeys == 2 * MinDegree - 1
MinKeys == MinDegree - 1

NoLeaves == [seps |-> <<>>, leaves |-> <<>>, stale |-> 0, linked |-> <<>>, crashed |-> FALSE]

TwoLevels(T) == T.seps # <<>>

(* The sequence s with n members from the i-th on replaced by those of part *)
Splice(s, i, n, part) == SubSeq(s, 1, i - 1) \o part \o SubSeq(s, i + n, Len(s))

(* How many members of s are below k, and how many are not above it *)
LessThan(s, k) == Len(SelectSeq(s, LAMBDA x : x < k))
NotAbove(s, k) == Len(SelectSeq(s, LAMBDA x : x <= k))

Holds(s, k) == \E i \in DOMAIN s : s[i] = k
Put(s, k)   == Splice(s, LessThan(s, k) + 1, 0, <<k>>)
Take(s, k)  == Splice(s, LessThan(s, k) + 1, 1, <<>>)
Final(s)    == s[Len(s)]
Initial(s)  == SubSeq(s, 1, Len(s) - 1)

(* The child of the root that a search for k goes to *)
LeafFor(T, k) == LessThan(T.seps, k) + 1

(* Both overloads of insert compare k with the last smaller key of a node, *)
(* or with its first one.                                                  *)
Refuses(s, k) == LessThan(s, k) = 0 /\ s # <<>> /\ s[1] = k

-----------------------------------------------------------------------------
(* B_tree.  The last leaf has one pointer more than keys, the others have  *)
(* as many: a split leaves the left part without the last one.             *)

BElements(T) ==
    IF ~ TwoLevels(T) THEN Seqs!FlattenSeq(T.leaves)
    ELSE Seqs!FlattenSeq([i \in DOMAIN T.leaves |->
             IF i = 1 THEN T.leaves[i] ELSE <<T.seps[i - 1]>> \o T.leaves[i]])

BRefuses(T, k) ==
    /\ T.leaves # <<>>
    /\ Refuses(T.seps, k) \/ Refuses(T.leaves[LeafFor(T, k)], k)

(* split: the root is replaced by its two parts and their separator.  A    *)
(* leaf below a root stays in the _pointers behind its parts, where the    *)
(* last leaf is out of the way; any other pushes the last one out of reach.*)
(* A root with room for one pointer or none throws what the parts are      *)
(* inserted with.                                                          *)
BSplit(T, j) ==
    LET keys  == T.leaves[j]
        mid   == keys[MinDegree + 1]
        parts == <<SubSeq(keys, 1, MinDegree), SubSeq(keys, MinDegree + 2, Len(keys))>>
        at    == LessThan(T.seps, mid) + 1
        room  == MaxKeys + 2 - (Len(T.leaves) + T.stale)
    IN  CASE ~ TwoLevels(T) -> [T EXCEPT !.seps = <<mid>>, !.leaves = parts]
          [] TwoLevels(T) /\ room < 2 -> Crash(T)
          [] OTHER -> [T EXCEPT !.seps = Splice(@, at, 0, <<mid>>),
                                !.leaves = SubSeq(Splice(@, at, 0, parts), 1, Len(@) + 1),
                                !.stale = @ + 1]

BInsert(T, k) ==
    LET j == LeafFor(T, k)
        added == [T EXCEPT !.leaves[j] = Put(@, k)]
    IN  CASE T.leaves = <<>> -> [T EXCEPT !.leaves = <<<<k>>>>]
          [] T.leaves # <<>> /\ Len(T.leaves[j]) = MaxKeys -> BSplit(added, j)
          [] OTHER -> added

(* merge: the leaves i and i + 1 and the separator between them.  A root   *)
(* without separators makes room for its first child.                      *)
BMerge(T, i) ==
    [T EXCEPT !.seps = Splice(@, i, 1, <<>>),
              !.stale = IF Len(T.seps) = 1 THEN 0 ELSE @,
              !.leaves = Splice(@, i, 2, <<T.leaves[i] \o <<T.seps[i]>> \o T.leaves[i + 1]>>)]

(* The leaf j has a stale node for its right sibling. *)
FollowedByStale(T, j) == j = Len(T.leaves) /\ T.stale > 0

(* Wrong: the separator stays what it was. *)
BRefillKeptSeparator(T, j) ==
    LET rich(i) == i \in DOMAIN T.leaves /\ Len(T.leaves[i]) > MinKeys
    IN  CASE rich(j - 1) ->
               [T EXCEPT !.leaves[j] = <<T.seps[j - 1]>> \o @, !.leaves[j - 1] = Initial(@)]
          [] ~ rich(j - 1) /\ FollowedByStale(T, j) -> Crash(T)
          [] ~ rich(j - 1) /\ rich(j + 1) ->
               [T EXCEPT !.leaves[j] = @ \o <<T.seps[j]>>, !.leaves[j + 1] = Tail(@)]
          [] OTHER -> BMerge(T, IF j > 1 THEN j - 1 ELSE j)

(* The leaf j gets a key through the root, from the left if there is one   *)
(* to spare, else from the right, or is merged.  A stale node on the right *)
(* has keys to spare, and the separator before it is read, which is none.  *)
BRefill(T, j) ==
    LET rich(i) == i \in DOMAIN T.leaves /\ Len(T.leaves[i]) > MinKeys
    IN  CASE rich(j - 1) ->
               [T EXCEPT !.leaves[j] = <<T.seps[j - 1]>> \o @,
                         !.seps[j - 1] = Final(T.leaves[j - 1]),
                         !.leaves[j - 1] = Initial(@)]
          [] ~ rich(j - 1) /\ FollowedByStale(T, j) -> Crash(T)
          [] ~ rich(j - 1) /\ rich(j + 1) ->
               [T EXCEPT !.leaves[j] = @ \o <<T.seps[j]>>,
                         !.seps[j] = Head(T.leaves[j + 1]),
                         !.leaves[j + 1] = Tail(@)]
          [] OTHER -> BMerge(T, IF j > 1 THEN j - 1 ELSE j)

(* delete_key_from_leaf *)
BTake(T, j, k) ==
    LET taken == [T EXCEPT !.leaves[j] = Take(@, k)]
    IN  CASE ~ TwoLevels(T) /\ Len(T.leaves[j]) = 1 -> NoLeaves
          [] TwoLevels(T) /\ Len(T.leaves[j]) <= MinKeys -> BRefill(taken, j)
          [] OTHER -> taken

(* erase: a separator is replaced by the last key of the leaf before it. *)
BErase(T, k) ==
    LET j    == LeafFor(T, k)
        last == Final(T.leaves[j])
    IN  IF Holds(T.seps, k) THEN BTake([T EXCEPT !.seps[j] = last], j, last)
        ELSE BTake(T, j, k)

(* A way down that ends behind the last key of a leaf reads the pointer there. *)
BFalls(T, j, i) == j # Len(T.leaves) /\ i = Len(T.leaves[j])

BFind(T, k) ==
    LET j == LeafFor(T, k)
    IN  CASE T.leaves = <<>> -> Wild
          [] T.leaves # <<>> /\ (Holds(T.seps, k) \/ Holds(T.leaves[j], k)) -> k
          [] OTHER -> IF BFalls(T, j, LessThan(T.leaves[j], k)) THEN Wild ELSE Nil

(* A bound takes the place in the leaf, and the node above the leaf if there is one. *)
BBound(T, j, i) ==
    LET s == IF TwoLevels(T) THEN T.seps ELSE T.leaves[j]
    IN  CASE BFalls(T, j, i) -> Wild
          [] ~ BFalls(T, j, i) /\ i < Len(s) -> s[i + 1]
          [] OTHER -> IF TwoLevels(T) THEN Wild ELSE Nil

BLowerBound(T, k) ==
    LET j == LeafFor(T, k)
    IN  IF T.leaves = <<>> THEN Wild ELSE BBound(T, j, LessThan(T.leaves[j], k))

BUpperBound(T, k) ==
    LET j == NotAbove(T.seps, k) + 1
    IN  IF T.leaves = <<>> THEN Wild ELSE BBound(T, j, NotAbove(T.leaves[j], k))

(* An iterator [path, index]: the nodes from the root down, each with its  *)
(* number among the children of the one above.  The root is the node 0 and *)
(* the child i the leaf i + 1.                                             *)
BKeys(T, n) == CASE n = 0 /\ TwoLevels(T) -> T.seps
                 [] n = 0 /\ ~ TwoLevels(T) -> T.leaves[1]
                 [] OTHER -> T.leaves[n]
Step(n, up) == [node |-> n, up |-> up]

BBegin(T) == [path |-> IF TwoLevels(T) THEN <<Step(0, 0), Step(1, 0)>> ELSE <<Step(0, 0)>>,
              index |-> 0]
BEnd(T) == [path |-> <<Step(0, 0)>>, index |-> Len(BKeys(T, 0))]

(* cend: behind all pointers of the last node the root points to, be it    *)
(* the last leaf or a stale node                                           *)
BConstEnd(T) ==
    LET p == Len(T.leaves) + T.stale
    IN  [path |-> IF TwoLevels(T) THEN <<Step(0, 0), Step(p, p - 1)>> ELSE <<Step(0, 0)>>,
         index |-> 1 + (IF T.stale > 0 THEN 2 * MinDegree ELSE Len(Final(T.leaves)))]

(* The iterator that find returns: the root is twice on its path. *)
BFound(T, k) ==
    LET j == LeafFor(T, k)
        root == <<Step(0, 0), Step(0, 0)>>
    IN  IF ~ TwoLevels(T) \/ Holds(T.seps, k)
        THEN [path |-> root, index |-> LessThan(BKeys(T, 0), k)]
        ELSE [path |-> Append(root, Step(j, j - 1)), index |-> LessThan(T.leaves[j], k)]

RECURSIVE BClimb(_, _)
BClimb(T, it) ==
    LET up    == Final(it.path).up
        above == [path |-> Initial(it.path), index |-> up]
    IN  CASE Len(it.path) = 1 -> [it EXCEPT !.index = Len(BKeys(T, it.path[1].node))]
          [] Len(it.path) > 1 /\ Len(BKeys(T, Final(above.path).node)) > up -> above
          [] OTHER -> BClimb(T, above)

(* go_to_next *)
BNext(T, it) ==
    LET n == Final(it.path).node
        child == it.index + 2
    IN  CASE n = 0 /\ TwoLevels(T) /\ child <= Len(T.leaves) ->
               [path |-> Append(it.path, Step(child, it.index + 1)), index |-> 0]
          [] (n = 0 => ~ TwoLevels(T)) /\ Len(BKeys(T, n)) > it.index + 1 ->
               [it EXCEPT !.index = @ + 1]
          [] OTHER -> BClimb(T, it)

(* The keys an iterator meets on its way to end() *)
RECURSIVE BWalkFrom(_, _)
BWalkFrom(T, it) ==
    IF it = BEnd(T) THEN <<>>
    ELSE <<BKeys(T, Final(it.path).node)[it.index + 1]>> \o BWalkFrom(T, BNext(T, it))

(* clear: the keys are collected from begin() to end() and erased one by one. *)
BClear(T) == IF T.leaves = <<>> THEN T ELSE Seqs!FoldLeft(BErase, T, BWalkFrom(T, BBegin(T)))

-----------------------------------------------------------------------------
(* BP_tree.  All keys are in the leaves. *)

BPElements(T) == Seqs!FlattenSeq(T.leaves)

BPRefuses(T, k) == T.leaves # <<>> /\ Refuses(T.seps, k)

(* split_terminate, and split_middle if the root has a separator too many  *)
(* then: it takes the leaf for the parent of the root.                     *)
BPSplit(T, j) ==
    LET keys  == T.leaves[j]
        left  == SubSeq(keys, 1, MinDegree)
        right == SubSeq(keys, MinDegree + 1, Len(keys))
        done  == [T EXCEPT !.seps = Splice(@, j, 0, <<right[1]>>),
                           !.leaves = Splice(@, j, 1, <<left, right>>),
                           !.linked = Splice(@, j, 0, <<TRUE>>)]
    IN  IF Len(done.seps) > MaxKeys THEN Crash(T) ELSE done

BPInsert(T, k) ==
    LET j == LeafFor(T, k)
        added == [T EXCEPT !.leaves[j] = Put(@, k)]
    IN  CASE T.leaves = <<>> -> [T EXCEPT !.leaves = <<<<k>>>>, !.linked = <<TRUE>>]
          [] T.leaves # <<>> /\ Len(T.leaves[j]) = MaxKeys -> BPSplit(added, j)
          [] OTHER -> added

(* merge_terminate: the new leaf leads nowhere, and the leaf before it to  *)
(* the one deleted.                                                        *)
BPMerge(T, i) ==
    LET last == i + 1 = Len(T.leaves)
        linked == [n \in DOMAIN T.linked |-> n # i - 1 /\ T.linked[n]]
    IN  [T EXCEPT !.seps = Splice(@, i, 1, <<>>),
                  !.leaves = Splice(@, i, 2, <<T.leaves[i] \o T.leaves[i + 1]>>),
                  !.linked = Splice(linked, i, 2, <<last>>)]

BPRefill(T, j) ==
    LET rich(i) == i \in DOMAIN T.leaves /\ Len(T.leaves[i]) > MinKeys
    IN  CASE rich(j - 1) ->
               [T EXCEPT !.leaves[j] = <<Final(T.leaves[j - 1])>> \o @,
                         !.seps[j - 1] = Final(T.leaves[j - 1]),
                         !.leaves[j - 1] = Initial(@)]
          [] ~ rich(j - 1) /\ rich(j + 1) ->
               [T EXCEPT !.leaves[j] = @ \o <<Head(T.leaves[j + 1])>>,
                         !.seps[j] = T.leaves[j + 1][2],
                         !.leaves[j + 1] = Tail(@)]
          [] OTHER -> BPMerge(T, IF j > 1 THEN j - 1 ELSE j)

BPTake(T, j, k) ==
    LET taken == [T EXCEPT !.leaves[j] = Take(@, k)]
    IN  CASE ~ TwoLevels(T) /\ Len(T.leaves[j]) = 1 -> NoLeaves
          [] TwoLevels(T) /\ Len(T.leaves[j]) <= MinKeys -> BPRefill(taken, j)
          [] OTHER -> taken

(* erase looks for k in this leaf only. *)
BPErases(T, k) == T.leaves # <<>> /\ Holds(T.leaves[LeafFor(T, k)], k)

(* erase reads the key behind k first, also behind the end of a leaf. *)
BPErase(T, k) ==
    LET j == LeafFor(T, k)
    IN  IF LessThan(T.leaves[j], k) + 1 = Len(T.leaves[j]) /\ ~ T.linked[j] THEN Crash(T)
        ELSE BPTake(T, j, k)

(* find and lower_bound go to the right of k if it is the last separator. *)
BPLeafFor(T, k) ==
    LET j == LeafFor(T, k)
    IN  IF j = Len(T.seps) /\ T.seps[j] = k THEN j + 1 ELSE j

BPFind(T, k) ==
    IF T.leaves # <<>> /\ Holds(T.leaves[BPLeafFor(T, k)], k) THEN k ELSE Nil

(* The key with i before it in the leaf j, or end() *)
BPBound(T, j, i) == IF i < Len(T.leaves[j]) THEN T.leaves[j][i + 1] ELSE Nil

BPLowerBound(T, k) ==
    LET j == BPLeafFor(T, k)
    IN  IF T.leaves = <<>> THEN Nil ELSE BPBound(T, j, LessThan(T.leaves[j], k))

BPUpperBound(T, k) ==
    LET j == NotAbove(T.seps, k) + 1
    IN  IF T.leaves = <<>> THEN Nil ELSE BPBound(T, j, NotAbove(T.leaves[j], k))

(* An iterator: a leaf and a place in it *)
BPBegin(T) == [leaf |-> 1, index |-> 0]
BPEnd(T)   == [leaf |-> Len(T.leaves), index |-> Len(Final(T.leaves))]

(* operator++ goes on to _next behind the last key of a leaf. *)
BPNext(T, it) ==
    CASE it.index + 1 < Len(T.leaves[it.leaf]) \/ it.leaf = Len(T.leaves) ->
           [it EXCEPT !.index = @ + 1]
      [] OTHER -> [leaf |-> IF T.linked[it.leaf] THEN it.leaf + 1 ELSE Wild, index |-> 0]

(* The keys an iterator meets on its way to end(), or as far as _next leads *)
RECURSIVE BPWalkFrom(_, _)
BPWalkFrom(T, it) ==
    IF it = BPEnd(T) \/ it.leaf = Wild THEN <<>>
    ELSE <<T.leaves[it.leaf][it.index + 1]>> \o BPWalkFrom(T, BPNext(T, it))

(* clear deletes every node and keeps _root, which is not null, as it is. *)
BPClear(T) == IF T.leaves = <<>> THEN T ELSE Crash(T)
====
