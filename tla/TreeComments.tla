---- MODULE TreeComments ----
(***************************************************************************)
(* What the comments in the headers of the search trees say, each as a     *)
(* statement about the model of the code.  A user works with one tree      *)
(* after the other, and the comments the code has contradicted by then are *)
(* remembered.                                                             *)
(***************************************************************************)
EXTENDS SearchTrees

VARIABLE contradicted     \* the comments some tree has not kept to

(* A tree that can be used and has no key twice: no other comment is held  *)
(* against an index tree than that no key is inserted twice, once it is.   *)
InsertsOnce == \A k \in Keys : content[k] <= 1
Usual == Sound /\ InsertsOnce

(* A node of an AVL_tree is balanced. *)
Level(n) == Depth(tree.node[n].left) - Depth(tree.node[n].right) \in -1..1

(* AVL_tree.h:633-634, of erase: without a right subtree "мы просто        *)
(* передвигаем его левое поддерево на его место" (we just move its left    *)
(* subtree into its place), with one "мы находим в нем самый левый элемент *)
(* и ставим его на место удаляемого" (we find the leftmost element in it   *)
(* and put it into the place of the erased).  Either way the tree is a     *)
(* tree again, and no null pointer has been followed.                      *)
ElementIsReplaced == kind = "avl" => Sound

(* AVL_tree.h:635-636, of the same erase: "запускаем ребалансировку от     *)
(* нового элемента до корня ... О(log n) остается" (we rebalance from the  *)
(* new element up to the root ... O(log n) remains).                       *)
RebalancesUpwards == kind = "avl" /\ Sound => \A n \in Members(tree) : Level(n)

(* binary_search_tree.h:101, 306 and 510, of the iterators of each order:  *)
(* "If iterator == end or before_begin _data points to nullptr, _backup to *)
(* last node".                                                             *)
BackupIsLastNode ==
    Binary /\ Sound /\ Count > 0 =>
       \A order \in Orders : End(tree, order).backup = Traversal(order)[Count]

(* binary_search_tree.h:82-91, of the reverse iterators: where the common  *)
(* iterator is at 4 in "1 2 3 -> 4 5 6 7", the reverse one is in           *)
(* "1 2 3 <- 4 5 6 7", "*rit == 3": from the end on each is at the element *)
(* before.                                                                 *)
ReverseIsBefore ==
    Binary /\ Sound =>
       \A order \in Orders :
          Count > 0 => Backwards(order, Reverse(tree, order)) = Reversed(Traversal(order))

(* b_tree.h:99-106, of the path of an iterator: "у корня номер = 0 ...     *)
(* <root, 0>, <root->_pointers[i1], i1>, ..." (the root has the number 0). *)
(* Below the root there are children of the node above only.               *)
PathGoesDown ==
    kind = "b" /\ Usual => \A k \in Keys :
       LET path == BFound(tree, k).path
       IN  content[k] > 0 => path[1] = Step(0, 0) /\ \A i \in 2..Len(path) : path[i].node # 0

(* b_tree.h:320, of find: "Returns end() if not exist". *)
FindReturnsEnd ==
    kind = "b" /\ Usual /\ tree.leaves # <<>> =>
       \A k \in Keys : content[k] = 0 => BFind(tree, k) = Nil

(* b_tree.h:320, of lower_bound and upper_bound: "Returns end() if not     *)
(* exist".                                                                 *)
BoundsReturnEnd ==
    kind = "b" /\ Usual /\ tree.leaves # <<>> =>
       \A k \in Keys : /\ AtLeast(k) = {} => BLowerBound(tree, k) = Nil
                       /\ Above(k) = {} => BUpperBound(tree, k) = Nil

(* b_tree.h:341 and b_plus_tree.h:231, of insert: "Does nothing if key     *)
(* exists".                                                                *)
BInsertsOnce  == kind = "b" => InsertsOnce
BPInsertsOnce == kind = "bplus" => InsertsOnce

(* b_tree.h:360, of erase: "Return iterator to node next ro removed or     *)
(* end() if key not exists".                                               *)
EraseReturnsEnd ==
    kind = "b" /\ Usual => \A k \in Keys : content[k] = 0 => ~ LostErasing(k)

(* b_tree.h:1091, of the iterators that follow: "Дальнейшие функции        *)
(* являются копипастой двух предыдущих, отличаясь только константностью    *)
(* или возвращаемым типом" (the functions that follow are copies of the    *)
(* two above, but for const and the type they return).                     *)
ConstEndIsEnd == kind = "b" /\ Usual /\ tree.leaves # <<>> => BConstEnd(tree) = BEnd(tree)

(* b_plus_tree.h:179, of at: "Returns a reference to the mapped value of   *)
(* the element with specified key".  It throws if find returns end().      *)
AtReturnsElement ==
    kind = "bplus" /\ Usual => \A k \in Keys : content[k] > 0 => BPFind(tree, k) = k

(* b_plus_tree.h:210, of lower_bound and upper_bound: "Returns end() if    *)
(* not exist".  They do so only if no element is left to return.           *)
BPBoundsReturnElement ==
    kind = "bplus" /\ Usual =>
       \A k \in Keys : /\ BPLowerBound(tree, k) = Nil => AtLeast(k) = {}
                       /\ BPUpperBound(tree, k) = Nil => Above(k) = {}

(* b_plus_tree.h:252, of erase: "Return iterator to node next ro removed   *)
(* or end() if key not exists".                                            *)
BPErasesElement ==
    kind = "bplus" /\ Usual => \A k \in Keys : content[k] > 0 => BPErases(tree, k)

(* The same: if the element is found, the step to the next one is to a     *)
(* node of the tree or to the end.                                         *)
BPStepsToNext ==
    kind = "bplus" /\ Usual => \A k \in Keys : BPErases(tree, k) => ~ BPErase(tree, k).crashed

-----------------------------------------------------------------------------
Comments == {"AVL_tree.h:633", "AVL_tree.h:635", "binary_search_tree.h:101",
             "binary_search_tree.h:82", "b_tree.h:99", "b_tree.h:320 find",
             "b_tree.h:320 bounds", "b_tree.h:341", "b_tree.h:360", "b_tree.h:1091",
             "b_plus_tree.h:179", "b_plus_tree.h:210", "b_plus_tree.h:231",
             "b_plus_tree.h:252 element", "b_plus_tree.h:252 next"}

Says(c) ==
    CASE c = "AVL_tree.h:633"           -> ElementIsReplaced
      [] c = "AVL_tree.h:635"           -> RebalancesUpwards
      [] c = "binary_search_tree.h:101" -> BackupIsLastNode
      [] c = "binary_search_tree.h:82"  -> ReverseIsBefore
      [] c = "b_tree.h:99"              -> PathGoesDown
      [] c = "b_tree.h:320 find"        -> FindReturnsEnd
      [] c = "b_tree.h:320 bounds"      -> BoundsReturnEnd
      [] c = "b_tree.h:341"             -> BInsertsOnce
      [] c = "b_tree.h:360"             -> EraseReturnsEnd
      [] c = "b_tree.h:1091"            -> ConstEndIsEnd
      [] c = "b_plus_tree.h:179"        -> AtReturnsElement
      [] c = "b_plus_tree.h:210"        -> BPBoundsReturnElement
      [] c = "b_plus_tree.h:231"        -> BPInsertsOnce
      [] c = "b_plus_tree.h:252 element" -> BPErasesElement
      [] c = "b_plus_tree.h:252 next"   -> BPStepsToNext

CommentsInit == Init /\ contradicted = {}

(* The user turns to a new tree. *)
Another ==
    /\ kind' \in Kinds
    /\ tree' = IF kind' \in BinaryKinds THEN Empty ELSE NoLeaves
    /\ size' = 0
    /\ content' = [k \in {Key(n) : n \in Nodes[kind']} |-> 0]
    /\ erased' = FALSE

(* Each step remembers what the tree before it contradicts. *)
CommentsNext ==
    /\ Next \/ Another
    /\ contradicted' = contradicted \cup {c \in Comments \ contradicted : ~ Says(c)}

CommentsSpec == CommentsInit /\ [][CommentsNext]_<<vars, contradicted>>

(* The comments that are quoted above are not all contradicted. *)
SomeCommentHolds == contradicted # Comments
====
