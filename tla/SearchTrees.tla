---- MODULE SearchTrees ----
(***************************************************************************)
(* One search tree of the repository and the calls of its user.  A tree is *)
(* used until a call has left it unsound: it has followed a null pointer,  *)
(* read what is not the tree's, thrown out of the middle of a split, or    *)
(* left links that disagree, a node with a child too many or with a key    *)
(* too many.  What the code does with such a tree is not followed.         *)
(***************************************************************************)
EXTENDS SearchTreeKinds, IndexTreeKinds, FiniteSets

CONSTANTS Kinds,       \* the trees to model
          Nodes,       \* the nodes a tree of a kind may have: a key and a number each
          SizeBits     \* the width of _size

BinaryKinds == {"bst", "avl", "rb", "splay"}
IndexKinds  == {"b", "bplus"}

ASSUME SearchTreesAssumption ==
    /\ Kinds \subseteq BinaryKinds \cup IndexKinds
    /\ \A k \in Kinds : Nodes[k] \subseteq Nat \X Nat
    /\ SizeBits \in Nat

VARIABLES kind,        \* the kind of the tree
          tree,
          size,        \* _size
          content,     \* how many elements with a key have been put in and not erased
          erased       \* whether anything has been erased

vars == <<kind, tree, size, content, erased>>

Binary == kind \in BinaryKinds
Keys == {Key(n) : n \in Nodes[kind]}

(* Bounds the elements with the key k *)
Copies(k) == Cardinality({n \in Nodes[kind] : Key(n) = k})

Init ==
    /\ kind \in Kinds
    /\ tree = IF Binary THEN Empty ELSE NoLeaves
    /\ size = 0
    /\ content = [k \in Keys |-> 0]
    /\ erased = FALSE

-----------------------------------------------------------------------------
(* The operations *)

NewNode(k) ==
    CHOOSE z \in Nodes[kind] :
       /\ Key(z) = k
       /\ z \notin Members(tree)
       /\ \A y \in Nodes[kind] \ Members(tree) : Key(y) = k => z[2] <= y[2]

Inserted(k) ==
    LET z == NewNode(k)
    IN  CASE kind = "bst"   -> Descend(tree, z, PlainLeaf)
          [] kind = "avl"   -> Upwards(Descend(tree, z, AvlLeaf), z, TRUE)
          [] kind = "rb"    -> RepairInsert(Descend(tree, z, RedLeaf), z)
          [] kind = "splay" -> [Splay(Descend(tree, z, PlainLeaf), z) EXCEPT !.root = z]
          [] kind = "b"     -> BInsert(tree, k)
          [] kind = "bplus" -> BPInsert(tree, k)

Erased(k) ==
    CASE kind = "bst"   -> EraseBst(tree, Find(tree, k))
      [] kind = "avl"   -> EraseAvl(tree, Find(tree, k))
      [] kind = "rb"    -> Remove(tree, Find(tree, k))
      [] kind = "splay" -> EraseSplay(tree, Find(tree, k))
      [] kind = "b"     -> BErase(tree, k)
      [] kind = "bplus" -> BPErase(tree, k)

(* What find answers *)
Searched(k) == CASE Binary         -> Find(tree, k)
                 [] kind = "b"     -> BFind(tree, k)
                 [] kind = "bplus" -> BPFind(tree, k)

(* insert finds the key in the tree.  The binary trees take any key. *)
Refused(k) == \/ kind = "b" /\ BRefuses(tree, k)
              \/ kind = "bplus" /\ BPRefuses(tree, k)

(* erase finds the key.  The way down of a BP_tree is another than that of its find. *)
Erasable(k) == IF kind = "bplus" THEN BPErases(tree, k) ELSE Searched(k) \notin {Nil, Wild}

(* The tree can be used further. *)
Sound ==
    /\ ~ tree.crashed
    /\ IF Binary THEN LinksAgree(tree) ELSE \A i \in DOMAIN tree.leaves : Len(tree.leaves[i]) <= MaxKeys

Resized(by) == size' = (size + by) % 2^SizeBits

(* insert, emplace: the first element of a binary tree is not counted in   *)
(* _size, and none whose insertion throws out of a split.                  *)
Insert(k) ==
    /\ Sound
    /\ content[k] < Copies(k)
    /\ ~ Refused(k)
    /\ tree' = Inserted(k)
    /\ Resized(IF (Binary /\ tree.root = Nil) \/ (kind = "b" /\ tree'.crashed) THEN 0 ELSE 1)
    /\ content' = [content EXCEPT ![k] = @ + 1]
    /\ UNCHANGED <<kind, erased>>

InsertRefused(k) ==
    /\ Sound
    /\ Refused(k)
    /\ UNCHANGED vars

(* insert_or_assign, emplace_or_assign of the binary trees: only the value *)
(* of a node that is there changes.  Those of the other trees return       *)
(* nothing.                                                                *)
InsertOrAssign(k) ==
    /\ Sound
    /\ Binary
    /\ \/ Find(tree, k) = Nil /\ Insert(k)
       \/ Find(tree, k) # Nil /\ UNCHANGED vars

(* splay_tree and B_tree do not count. *)
Erase(k) ==
    /\ Sound
    /\ Erasable(k)
    /\ tree' = Erased(k)
    /\ Resized(IF kind \in {"splay", "b"} THEN 0 ELSE -1)
    /\ content' = [content EXCEPT ![k] = @ - 1]
    /\ erased' = TRUE
    /\ UNCHANGED kind

(* The erase of a key that is not found follows a null pointer in a        *)
(* splay_tree and may read behind the pointers of a leaf in a B_tree;      *)
(* elsewhere it throws or returns end().                                   *)
LostErasing(k) == \/ kind = "splay"
                  \/ kind = "b" /\ tree.leaves # <<>> /\ Searched(k) = Wild

EraseAbsent(k) ==
    /\ Sound
    /\ ~ Erasable(k)
    /\ tree' = IF LostErasing(k) THEN Crash(tree) ELSE tree
    /\ UNCHANGED <<kind, size, content, erased>>

(* clear: that of the binary trees is empty. *)
Clear ==
    /\ Sound
    /\ tree' = CASE Binary         -> tree
                 [] kind = "b"     -> BClear(tree)
                 [] kind = "bplus" -> BPClear(tree)
    /\ content' = IF Binary THEN content ELSE [k \in Keys |-> 0]
    /\ erased' = (erased \/ (~ Binary /\ tree.leaves # <<>>))
    /\ UNCHANGED <<kind, size>>

Next == \/ \E k \in Keys : \/ Insert(k)
                           \/ InsertRefused(k)
                           \/ InsertOrAssign(k)
                           \/ Erase(k)
                           \/ EraseAbsent(k)
        \/ Clear

Spec == Init /\ [][Next]_vars

-----------------------------------------------------------------------------
Walk == InOrder(tree, tree.root)

(* The keys in the tree, in its order *)
Elements == CASE Binary         -> [i \in DOMAIN Walk |-> Key(Walk[i])]
              [] kind = "b"     -> BElements(tree)
              [] kind = "bplus" -> BPElements(tree)
Count == Len(Elements)

(* After any calls the elements are in order and are exactly those put in  *)
(* and not erased: no rotation, splice, split, borrowing or merge loses    *)
(* one without leaving an unsound tree.  size() is their number in a BP_tree and, as   *)
(* long as nothing is erased, in a B_tree; in a bst and an AVL tree it     *)
(* stays one below, because no erase leaves them empty to be started anew. *)
ContentKept ==
    Sound =>
      /\ \A i \in 1..(Count - 1) : Elements[i] <= Elements[i + 1]
      /\ \A k \in Keys : Cardinality({i \in DOMAIN Elements : Elements[i] = k}) = content[k]
      /\ kind = "bplus" \/ (kind = "b" /\ ~ erased) => size = Count % 2^SizeBits
      /\ kind \in {"bst", "avl"} => size = (IF Count = 0 THEN 0 ELSE Count - 1) % 2^SizeBits

(* The least element that is above k, or not below it *)
LeastOf(ks) == CHOOSE k \in ks : \A m \in ks : k <= m
Above(k)   == {m \in Keys : content[m] > 0 /\ m > k}
AtLeast(k) == {m \in Keys : content[m] > 0 /\ m >= k}

(* go_to_node_with_key finds each key that is there and no other.  The     *)
(* const lower_bound has a greater key whenever there is one, and the      *)
(* const upper_bound a neighbour of the key; the other lower_bound returns *)
(* no greater key, and the other upper_bound, if it returns a greater one, *)
(* the least of them.                                                      *)
BinaryAnswers(k) ==
    LET greater == {n \in Members(tree) : Key(n) > k}
        others  == Members(tree) \ greater
        least(n)    == n \in greater /\ \A m \in greater : Key(n) <= Key(m)
        greatest(n) == n \in others /\ \A m \in others : Key(n) >= Key(m)
        lower  == LowerBound(tree, k)
        upper  == UpperBound(tree, k)
        upper2 == UpperBoundMutable(tree, k)
    IN  /\ (Find(tree, k) # Nil) <=> content[k] > 0
        /\ IF greater = {} THEN lower = Nil ELSE lower \in greater
        /\ LowerBoundMutable(tree, k) \in others \cup {Nil, Wild}
        /\ Members(tree) # {} => least(upper) \/ greatest(upper)
        /\ upper2 \in greater => least(upper2)

(* The find of a B_tree finds each key that is there and no other.  The   *)
(* bounds are right in a tree of one node.                                 *)
BAnswers(k) ==
    LET right(answer, ks) == answer = IF ks = {} THEN Nil ELSE LeastOf(ks)
    IN  /\ BFind(tree, k) = k <=> content[k] > 0
        /\ tree.leaves # <<>> /\ ~ TwoLevels(tree) =>
              right(BLowerBound(tree, k), AtLeast(k)) /\ right(BUpperBound(tree, k), Above(k))

(* k begins a leaf of a BP_tree other than the first one. *)
Begins(k) == \E i \in 2..Len(tree.leaves) : tree.leaves[i][1] = k

(* The find of a BP_tree finds no key that is not there, and each that is  *)
(* there unless it begins a leaf; then it finds it if it is the last       *)
(* separator.  A bound is right if the element it is to return begins no   *)
(* leaf.                                                                   *)
BPAnswers(k) ==
    LET right(answer, ks) ==
           IF ks = {} THEN answer = Nil ELSE Begins(LeastOf(ks)) \/ answer = LeastOf(ks)
    IN  /\ BPFind(tree, k) = k => content[k] > 0
        /\ content[k] > 0 /\ ~ Begins(k) => BPFind(tree, k) = k
        /\ TwoLevels(tree) /\ k = Final(tree.seps) /\ content[k] > 0 => BPFind(tree, k) = k
        /\ right(BPLowerBound(tree, k), AtLeast(k))
        /\ right(BPUpperBound(tree, k), Above(k))

(* What the searches of each tree answer for any key, after any calls *)
SearchesAnswer ==
    Sound => \A k \in Keys : CASE Binary         -> BinaryAnswers(k)
                              [] kind = "b"     -> BAnswers(k)
                              [] kind = "bplus" -> BPAnswers(k)

RECURSIVE Depth(_)
Depth(n) == IF n = Nil THEN 0 ELSE 1 + Higher(Depth(tree.node[n].left), Depth(tree.node[n].right))

(* The numbers of black nodes on the paths from n down *)
RECURSIVE Blacks(_)
Blacks(n) ==
    IF n = Nil THEN {0}
    ELSE {(IF tree.node[n].red THEN 0 ELSE 1) + b :
             b \in Blacks(tree.node[n].left) \cup Blacks(tree.node[n].right)}

(* What the iterators of an AVL_tree and of a red_black_tree tell of their *)
(* node.  A balance is a short, and told as a size_t.                      *)
GetHeight(it)  == tree.node[it.at].height
GetBalance(it) == Balance(tree, it.at) % 2^SizeBits
GetColor(it)   == IF tree.node[it.at].red THEN "RED" ELSE "BLACK"

(* Insertions keep the shape each tree promises: the heights that the      *)
(* iterators of an AVL tree tell are true and differ by one at most, where *)
(* a node that leans to the left has the greatest size_t for its balance;  *)
(* the paths of a red-black tree have as many black nodes.  No erase of a  *)
(* red-black tree puts a red node below a red parent or makes the root     *)
(* red.  The leaves of a B_tree or BP_tree keep their minimum whatever is  *)
(* erased, and each separator of a BP_tree stays the first key of the leaf *)
(* behind it; the root of a B_tree never has more than t separators, so    *)
(* that it is never split.                                                 *)
ShapeKept ==
    /\ kind = "avl" /\ ~ erased =>
          \A n \in Members(tree) :
             GetHeight(At(n)) = Depth(n) /\ GetBalance(At(n)) \in {0, 1, 2^SizeBits - 1}
    /\ kind = "rb" /\ Sound =>
          /\ tree.root # Nil => GetColor(Begin(tree, "prefix")) = "BLACK"
          /\ \A n \in Members(tree) : IsRed(tree, n) => ~ IsRed(tree, tree.node[n].parent)
          /\ ~ erased => Cardinality(Blacks(tree.root)) = 1
    /\ kind \in IndexKinds /\ Sound =>
          /\ \A i \in DOMAIN tree.leaves :
                Len(tree.leaves[i]) \in (IF TwoLevels(tree) THEN MinKeys ELSE 1)..MaxKeys
          /\ TwoLevels(tree) => Len(tree.leaves) = Len(tree.seps) + 1
          /\ kind = "b" => Len(tree.seps) <= MinDegree
          /\ kind = "bplus" => \A i \in DOMAIN tree.seps : tree.leaves[i + 1][1] = tree.seps[i]

(* Shapes around the node z that goes in which an erase leaves a usable tree *)
ErasesWell(z) ==
    LET l      == tree.node[z].left
        r      == tree.node[z].right
        p      == tree.node[z].parent
        y      == Last(tree, l, "right")
        yl     == tree.node[y].left
        S      == Splay(tree, z)
        top(s) == S.node[z][s]
    IN  CASE kind = "bst" ->
               CASE r = Nil -> p # Nil
                 [] r # Nil /\ l = Nil -> TRUE
                 [] OTHER -> /\ yl = Nil
                             /\ y = l => IsChild(tree, z, "right") /\ tree.node[p].left = Nil
          [] kind = "avl" ->
               CASE r = Nil -> p # Nil /\ l = Nil
                 [] r # Nil /\ l = Nil -> FALSE
                 [] OTHER -> yl = Nil \/ y = l
          [] kind = "splay" ->
               \/ top("left") = Nil /\ top("right") = Nil
               \/ /\ top("left") # Nil /\ top("right") # Nil
                  /\ S.node[top("left")].right = Nil

(* The leaf for k is full, and the root cannot take its parts: that of a   *)
(* BP_tree is full itself; that of a B_tree has no room for two pointers,  *)
(* or the leaf it keeps pushes others away.                                *)
SplitsTooFar(k) ==
    LET j == LeafFor(tree, k)
    IN  /\ kind \in IndexKinds
        /\ tree.leaves # <<>>
        /\ Len(tree.leaves[j]) = MaxKeys
        /\ IF kind = "bplus" THEN Len(tree.seps) = MaxKeys
           ELSE /\ TwoLevels(tree)
                /\ j < Len(tree.leaves) \/ Len(tree.leaves) + tree.stale + 2 > MaxKeys + 2

(* k is in the last leaf of a B_tree, which has a stale node to its right, *)
(* and neither that leaf nor the one before it has a key to spare.         *)
TurnsToStale(k) ==
    LET l == Len(tree.leaves)
    IN  /\ kind = "b"
        /\ FollowedByStale(tree, l)
        /\ LeafFor(tree, k) = l
        /\ \A i \in {l - 1, l} : Len(tree.leaves[i]) = MinKeys

(* k ends a leaf of a BP_tree with a leaf behind it. *)
EndsLeaf(k) == \E i \in 1..(Len(tree.leaves) - 1) : Final(tree.leaves[i]) = k

(* A call leaves a usable tree behind: insert, unless a split goes too     *)
(* far; erase of a binary tree in the shapes named above, however the      *)
(* links got there; that of a B_tree unless it turns to a node a split has *)
(* left behind, through any number of splits, borrowings and merges; that  *)
(* of a BP_tree unless a leaf may have lost its _next; and clear of a      *)
(* B_tree, which erases key by key and leaves nothing.                     *)
StaysUsable ==
    [][ \A k \in Keys :
          /\ Insert(k) /\ ~ SplitsTooFar(k) => Sound'
          /\ Erase(k) /\ kind \in {"bst", "avl", "splay"} /\ ErasesWell(Find(tree, k)) => Sound'
          /\ Erase(k) /\ kind = "b" /\ ~ TurnsToStale(k) => Sound'
          /\ Erase(k) /\ kind = "bplus" /\ ~ (erased /\ EndsLeaf(k)) => Sound'
          /\ Clear /\ kind = "b" => Sound' /\ tree' = NoLeaves ]_vars

-----------------------------------------------------------------------------
(* The iterators *)

RECURSIVE PreOrder(_), PostOrder(_)
PreOrder(n) ==
    IF n = Nil THEN <<>> ELSE <<n>> \o PreOrder(tree.node[n].left) \o PreOrder(tree.node[n].right)
PostOrder(n) ==
    IF n = Nil THEN <<>> ELSE PostOrder(tree.node[n].left) \o PostOrder(tree.node[n].right) \o <<n>>

Traversal(order) == CASE order = "infix"   -> Walk
                      [] order = "prefix"  -> PreOrder(tree.root)
                      [] order = "postfix" -> PostOrder(tree.root)

(* The nodes an iterator meets until it is at no node any more *)
RECURSIVE Onwards(_, _), Backwards(_, _)
Onwards(order, it) ==
    IF it.at \in {Nil, Wild} THEN <<>> ELSE <<it.at>> \o Onwards(order, Advance(tree, order, it))
Backwards(order, it) ==
    IF it.at \in {Nil, Wild} THEN <<>> ELSE <<it.at>> \o Backwards(order, Retreat(tree, order, it))

Reversed(s) == [i \in DOMAIN s |-> s[Len(s) + 1 - i]]
Leaf(n) == tree.node[n].left = Nil /\ tree.node[n].right = Nil
Twins(n) == tree.node[n].left # Nil /\ tree.node[n].right # Nil

(* In every tree, also one an erase has left unbalanced: both infix walks  *)
(* and the prefix walk meet every node in order; the prefix walk backwards *)
(* does so if the last node of the order is where end_prefix stops, the    *)
(* postfix walk forwards if each descent of it ends in the first node      *)
(* below, and backwards if no leaf that is an only right child has nodes   *)
(* before it.                                                              *)
BinaryWalks ==
    LET reverse(order) == Backwards(order, Reverse(tree, order))
        ends   == End(tree, "prefix").backup = Traversal("prefix")[Count]
        starts == {tree.root} \cup {tree.node[n].right : n \in {m \in Members(tree) : Twins(m)}}
        stuck  == {n \in Members(tree) : /\ Leaf(n) /\ IsChild(tree, n, "right")
                                         /\ ~ Twins(tree.node[n].parent)}
    IN  /\ \A order \in {"infix", "prefix"} :
               Onwards(order, Begin(tree, order)) = Traversal(order)
        /\ reverse("infix") = Reversed(Walk)
        /\ ends => reverse("prefix") = Reversed(Traversal("prefix"))
        /\ (\A n \in starts : FirstBelow(tree, n) = PostOrder(n)[1])
              => Onwards("postfix", Begin(tree, "postfix")) = Traversal("postfix")
        /\ stuck \subseteq {Traversal("postfix")[1]}
              => reverse("postfix") = Reversed(Traversal("postfix"))

(* From begin() a B_tree is walked in order up to end(), also behind a     *)
(* split that has left its node in the root.  The walk from the iterator   *)
(* of find meets every element from there on before anything else.         *)
BWalks ==
    LET from(i) == SubSeq(Elements, i, Count)
    IN  /\ BWalkFrom(tree, BBegin(tree)) = Elements
        /\ \A k \in Keys : content[k] > 0 =>
              \E i \in DOMAIN Elements :
                 /\ Elements[i] = k
                 /\ SubSeq(BWalkFrom(tree, BFound(tree, k)), 1, Count + 1 - i) = from(i)

(* The walk of a BP_tree follows _next; it meets the elements in order,    *)
(* all of them as long as no leaves were merged, and never skips one.      *)
BPWalks ==
    LET met == BPWalkFrom(tree, BPBegin(tree))
    IN  /\ met = SubSeq(Elements, 1, Len(met))
        /\ ~ erased => met = Elements

(* What the iterators of each tree meet, after any calls *)
IteratorsComplete ==
    Sound /\ Count > 1 => CASE Binary         -> BinaryWalks
                            [] kind = "b"     -> BWalks
                            [] kind = "bplus" -> BPWalks

(* No erase follows a null pointer: "w is black, w's left child is red, and *)
(* w's right child is black", as the fourth case of the erase of a          *)
(* red_black_tree states before it writes to that left child.               *)
NoNullFollowed == ~ tree.crashed
====
