---- MODULE SearchTreeKinds ----
(***************************************************************************)
(* binary_search_tree and the trees derived from it: AVL_tree,             *)
(* red_black_tree and splay_tree.  They share the searches and the         *)
(* insertion below a leaf; each has its own repair after an insertion and  *)
(* its own erase.                                                          *)
(*                                                                         *)
(* A node is named by its key and a number that tells equal keys apart.    *)
(* Pointers are modelled as they are: an erase may leave links that        *)
(* disagree.                                                               *)
(***************************************************************************)
EXTENDS RedBlackLinks, TreeWalks

Key(n) == n[1]

-----------------------------------------------------------------------------
(* binary_search_tree *)

PlainLeaf == [left |-> Nil, right |-> Nil, parent |-> Nil]

RECURSIVE GoTo(_, _, _)
GoTo(T, n, k) ==
    CASE n = Nil -> Nil
      [] n # Nil /\ Key(n) = k -> n
      [] OTHER -> GoTo(T, T.node[n][IF k < Key(n) THEN "left" ELSE "right"], k)

(* go_to_node_with_key *)
Find(T, k) == GoTo(T, T.root, k)

(* Wrong: an equal key ends the way to the right. *)
RECURSIVE GoLowerOrEqual(_, _, _)
GoLowerOrEqual(T, n, k) ==
    LET l == T.node[n].left
    IN  CASE n = Nil -> Nil
          [] n # Nil /\ k > Key(n) -> GoLowerOrEqual(T, T.node[n].right, k)
          [] OTHER -> IF l # Nil /\ k < Key(l) THEN GoLowerOrEqual(T, l, k) ELSE n

(* The const lower_bound: it stops where the left child is not greater. *)
RECURSIVE GoLower(_, _, _)
GoLower(T, n, k) ==
    LET l == T.node[n].left
    IN  CASE n = Nil -> Nil
          [] n # Nil /\ k >= Key(n) -> GoLower(T, T.node[n].right, k)
          [] OTHER -> IF l # Nil /\ k < Key(l) THEN GoLower(T, l, k) ELSE n
LowerBound(T, k) == GoLower(T, T.root, k)

(* The other lower_bound follows the left link without a test and returns it. *)
LowerBoundMutable(T, k) ==
    LET n == GoLower(T, T.root, k)
    IN  CASE n = Nil -> Nil
          [] n # Nil /\ T.node[n].left = Nil -> Wild
          [] OTHER -> T.node[n].left

(* The nodes an insertion of k would pass *)
RECURSIVE PathFrom(_, _, _)
PathFrom(T, n, k) ==
    IF n = Nil THEN <<>>
    ELSE <<n>> \o PathFrom(T, T.node[n][IF k < Key(n) THEN "left" ELSE "right"], k)
Path(T, k) == PathFrom(T, T.root, k)

(* The const upper_bound: the last node of the path *)
UpperBound(T, k) == IF T.root = Nil THEN Wild ELSE Path(T, k)[Len(Path(T, k))]

(* The other upper_bound chooses from the last two. *)
UpperBoundMutable(T, k) ==
    LET path == Path(T, k)
        a    == path[Len(path)]
        b    == path[Len(path) - 1]
        less == IF Key(a) < Key(b) THEN a ELSE b
        more == IF Key(a) > Key(b) THEN a ELSE b
    IN  IF Len(path) < 2 THEN Wild ELSE IF k < Key(less) THEN less ELSE more

(* The descent of insert: equal keys go to the right. *)
RECURSIVE Below(_, _, _, _)
Below(T, p, z, leaf) ==
    LET side == IF Key(z) < Key(p) THEN "left" ELSE "right"
    IN  IF T.node[p][side] = Nil THEN Attach(T, z, p, side, leaf)
        ELSE Below(T, T.node[p][side], z, leaf)

Descend(T, z, leaf) == IF T.root = Nil THEN Attach(T, z, Nil, "left", leaf)
                       ELSE Below(T, T.root, z, leaf)

(* y takes over both children of z. *)
Adopt(T, y, l, r) == WithParent(WithParent([T EXCEPT !.node[y].left = l, !.node[y].right = r],
                                           l, y), r, y)

(* bst_impl::erase.  With two children the predecessor y takes the place   *)
(* of z; when y is the left child of z itself, the left link that is       *)
(* overwritten is the one of the parent of z.                              *)
EraseTwo(T, z) ==
    LET l  == T.node[z].left
        p  == T.node[z].parent
        y  == Last(T, l, "right")
        T1 == Relink(T, z, y)
        T2 == IF y = l THEN WithChild(T1, p, "left", T.node[y].left)
              ELSE WithChild(T1, T.node[y].parent, "right", T.node[y].left)
        T3 == Adopt(T2, y, IF y = l THEN T.node[y].left ELSE l, T.node[z].right)
    IN  IF y = l /\ p = Nil THEN Crash(T) ELSE Without(WithParent(T3, y, p), z)

EraseBst(T, z) ==
    LET l == T.node[z].left
        r == T.node[z].right
    IN  CASE r = Nil /\ T.node[z].parent = Nil -> Crash(T)
          [] r = Nil /\ T.node[z].parent # Nil -> Without(Transplant(T, z, l), z)
          [] r # Nil /\ l = Nil -> Without(Transplant(T, z, r), z)
          [] OTHER -> EraseTwo(T, z)

-----------------------------------------------------------------------------
(* AVL_tree *)

AvlLeaf == [left |-> Nil, right |-> Nil, parent |-> Nil, height |-> 0]

HeightOf(T, n) == IF n = Nil THEN 0 ELSE T.node[n].height

Higher(a, b) == IF a < b THEN b ELSE a

(* recalculate_height *)
Measure(T, n) ==
    IF n = Nil THEN T
    ELSE [T EXCEPT !.node[n].height = 1 + Higher(HeightOf(T, T.node[n].left),
                                                 HeightOf(T, T.node[n].right))]

(* get_balance: positive if the right subtree is higher *)
Balance(T, n) == HeightOf(T, T.node[n].right) - HeightOf(T, T.node[n].left)

(* Wrong: the big rotation is forgotten. *)
StraightenSmall(T, n, side) == Rotate(T, n, side)

(* n, whose other side is too high, is turned to the given side. *)
Straighten(T, n, side) ==
    LET heavy == T.node[n][Other(side)]
        in    == HeightOf(T, T.node[heavy][side])
        out   == HeightOf(T, T.node[heavy][Other(side)])
    IN  IF in <= out THEN Rotate(T, n, side) ELSE BigRotate(T, n, side)

(* rebalance: heights are also measured beside n, below its new parent. *)
MeasureAround(T, n) ==
    LET p  == T.node[n].parent
        T1 == Measure(T, n)
    IN  IF p = Nil THEN T1 ELSE Measure(Measure(T1, T.node[p].left), T.node[p].right)

Unbalanced(T, n) == Balance(T, n) \in {-2, 2}

Rebalance(T, n) ==
    MeasureAround(IF Unbalanced(T, n)
                  THEN Straighten(T, n, IF Balance(T, n) = 2 THEN "left" ELSE "right")
                  ELSE T, n)

(* From n to the root: bst_impl::post_insert, which measures every node    *)
(* before it looks at it (fresh), and rebalance_to_root, which does not.   *)
(* The next node is the parent of the top of the subtree: of n, or of the  *)
(* new parent of n.                                                        *)
RECURSIVE Upwards(_, _, _), UpFrom(_, _, _)
Upwards(T, n, fresh) ==
    LET T1 == IF fresh THEN Measure(T, n) ELSE T
        R  == Rebalance(T1, n)
    IN  IF n = Nil THEN T
        ELSE UpFrom(R, IF Unbalanced(T1, n) THEN R.node[n].parent ELSE n, fresh)
UpFrom(T, top, fresh) == Upwards(Measure(T, top), T.node[top].parent, fresh)

(* bst_impl::erase.  With a right subtree the predecessor y takes the      *)
(* place of z, and its place is taken by its right child, which it has     *)
(* not.  Without one the left child moves up and keeps z for its parent.   *)
EraseAvlTwo(T, z) ==
    LET l  == T.node[z].left
        p  == T.node[z].parent
        y  == Last(T, l, "right")
        T1 == Measure(WithChild(T, T.node[y].parent, IF y = l THEN "left" ELSE "right", Nil), y)
        T2 == Adopt(Relink(T1, z, y), y, IF y = l THEN T.node[y].left ELSE l, T.node[z].right)
    IN  Without(Upwards(WithParent(T2, y, p), y, FALSE), z)

EraseAvl(T, z) ==
    LET l == T.node[z].left
        r == T.node[z].right
    IN  CASE r = Nil /\ T.node[z].parent = Nil -> Crash(T)
          [] r = Nil /\ T.node[z].parent # Nil ->
                Without(Upwards(Relink(T, z, l), l, FALSE), z)
          [] r # Nil /\ l = Nil -> Crash(T)
          [] OTHER -> EraseAvlTwo(T, z)

-----------------------------------------------------------------------------
(* splay_tree *)

(* splay: x moves up until it has no parent. *)
RECURSIVE Splay(_, _)
Splay(T, x) ==
    LET p    == T.node[x].parent
        g    == T.node[p].parent
        down == IF T.node[p].left = x THEN "right" ELSE "left"
        over == IF T.node[g].left = p THEN "right" ELSE "left"
    IN  CASE p = Nil -> T
          [] p # Nil /\ g = Nil -> Splay(Rotate(T, p, down), x)
          [] OTHER -> Splay(IF down = over THEN DoubleRotate(T, g, over)
                            ELSE BigRotate(T, g, over), x)

(* merge: the greatest node of the left tree comes to its top and takes    *)
(* the right tree, but the old top is what is returned.  A tree that is    *)
(* merged with nothing keeps its parent.                                   *)
Merge(T, l, r) ==
    LET T1 == WithParent(WithParent(T, l, Nil), r, Nil)
        mx == Last(T1, l, "right")
        T2 == Splay(T1, mx)
    IN  CASE l = Nil -> [T EXCEPT !.root = r]
          [] l # Nil /\ r = Nil -> [T EXCEPT !.root = l]
          [] OTHER -> [WithParent(WithChild(T2, mx, "right", r), r, mx) EXCEPT !.root = l]

(* bst_impl::erase after z has come to the top: z is not deleted, but      *)
(* nothing leads to it unless one of its subtrees keeps it for a parent.   *)
MergeBelow(T, z) ==
    LET l  == T.node[z].left
        r  == T.node[z].right
        T1 == Merge(T, l, r)
    IN  IF (l = Nil) # (r = Nil) THEN T1 ELSE Without(T1, z)

EraseSplay(T, z) == MergeBelow(Splay(T, z), z)

====
