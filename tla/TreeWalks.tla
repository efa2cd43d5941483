---- MODULE TreeWalks ----
(***************************************************************************)
(* The walks of binary_search_tree: from a node to the next or previous    *)
(* one in the infix, prefix or postfix order, and the iterators made of    *)
(* them.  Only links are followed; keys play no part.                      *)
(***************************************************************************)
EXTENDS TreeLinks

CONSTANT Wild          \* the outcome of following a null pointer

Orders == {"infix", "prefix", "postfix"}

IsChild(T, n, side) == T.node[n].parent # Nil /\ T.node[T.node[n].parent][side] = n

(* The nearest node, n or above, that is the given child of its parent; Nil if there is none. *)
RECURSIVE Climb(_, _, _)
Climb(T, n, side) ==
    CASE n = Nil -> Nil
      [] n # Nil /\ IsChild(T, n, side) -> n
      [] OTHER -> Climb(T, T.node[n].parent, side)

ParentOf(T, n) == IF n = Nil THEN Nil ELSE T.node[n].parent

(* get_next_infix, with "right"; get_prev_infix, with "left" *)
StepInfix(T, n, side) ==
    IF T.node[n][side] # Nil THEN Last(T, T.node[n][side], Other(side))
    ELSE ParentOf(T, Climb(T, n, Other(side)))

(* Wrong: the ancestor may have no right child. *)
RECURSIVE RightOfAnyAncestor(_, _)
RightOfAnyAncestor(T, n) ==
    CASE T.node[n].parent = Nil -> Nil
      [] IsChild(T, n, "left") -> T.node[T.node[n].parent].right
      [] OTHER -> RightOfAnyAncestor(T, T.node[n].parent)

(* The right child of the nearest ancestor that was left through its left  *)
(* child and has a right child                                             *)
RECURSIVE RightOfAncestor(_, _)
RightOfAncestor(T, n) ==
    LET p == T.node[n].parent
    IN  CASE p = Nil -> Nil
          [] p # Nil /\ T.node[p].left = n /\ T.node[p].right # Nil -> T.node[p].right
          [] OTHER -> RightOfAncestor(T, p)

NextPrefix(T, n) ==
    CASE T.node[n].left # Nil -> T.node[n].left
      [] T.node[n].left = Nil /\ T.node[n].right # Nil -> T.node[n].right
      [] OTHER -> IF T.node[n].parent = Nil THEN Wild ELSE RightOfAncestor(T, n)

(* Down to the left and then to the right as far as it goes, until no left child is left *)
RECURSIVE LastBelow(_, _)
LastBelow(T, n) ==
    IF T.node[n].left = Nil THEN n ELSE LastBelow(T, Last(T, T.node[n].left, "right"))

PrevPrefix(T, n) ==
    LET p == T.node[n].parent
    IN  IF p = Nil \/ IsChild(T, n, "left") THEN p ELSE LastBelow(T, p)

(* Down to the left, then down to the right *)
FirstBelow(T, n) == Last(T, Last(T, n, "left"), "right")

NextPostfix(T, n) ==
    LET p == T.node[n].parent
    IN  CASE p = Nil -> Nil
          [] p # Nil /\ T.node[p].right \in {n, Nil} -> p
          [] OTHER -> FirstBelow(T, T.node[p].right)

RECURSIVE LeftOfAncestor(_, _)
LeftOfAncestor(T, n) ==
    LET p == T.node[n].parent
    IN  CASE p = Nil -> Nil
          [] p # Nil /\ T.node[p].right = n /\ T.node[p].left # Nil -> T.node[p].left
          [] OTHER -> LeftOfAncestor(T, p)

PrevPostfix(T, n) ==
    LET p == T.node[n].parent
    IN  CASE T.node[n].right # Nil -> T.node[n].right
          [] T.node[n].right = Nil /\ T.node[n].left # Nil -> T.node[n].left
          [] OTHER -> IF p = Nil THEN Nil
                      ELSE IF IsChild(T, n, "left") THEN LeftOfAncestor(T, n)
                      ELSE T.node[p].left

-----------------------------------------------------------------------------
(* An iterator [at, backup]: at is Nil at the end and before the beginning, *)
(* and backup is then the node it came from.                               *)

Moved(it, n) == [at |-> n, backup |-> it.at]
Back(it)     == [it EXCEPT !.at = it.backup]

(* operator++ of the iterators and operator-- of the reverse ones, by the  *)
(* order.  From the end they go back, but a prefix iterator goes nowhere.  *)
AdvanceInfix(T, it)   == IF it.at = Nil THEN Back(it) ELSE Moved(it, StepInfix(T, it.at, "right"))
AdvancePrefix(T, it)  == Moved(it, IF it.at = Nil THEN Nil ELSE NextPrefix(T, it.at))
AdvancePostfix(T, it) == IF it.at = Nil THEN Back(it) ELSE Moved(it, NextPostfix(T, it.at))

(* operator-- of the iterators and operator++ of the reverse ones *)
RetreatInfix(T, it)   == IF it.at = Nil THEN Back(it) ELSE Moved(it, StepInfix(T, it.at, "left"))
RetreatPrefix(T, it)  == IF it.at = Nil THEN Back(it) ELSE Moved(it, PrevPrefix(T, it.at))
RetreatPostfix(T, it) == IF it.at = Nil THEN Back(it) ELSE Moved(it, PrevPostfix(T, it.at))

Advance(T, order, it) == CASE order = "infix"   -> AdvanceInfix(T, it)
                           [] order = "prefix"  -> AdvancePrefix(T, it)
                           [] order = "postfix" -> AdvancePostfix(T, it)
Retreat(T, order, it) == CASE order = "infix"   -> RetreatInfix(T, it)
                           [] order = "prefix"  -> RetreatPrefix(T, it)
                           [] order = "postfix" -> RetreatPostfix(T, it)

At(n)        == [at |-> n, backup |-> Nil]
Behind(n)    == [at |-> Nil, backup |-> n]

(* end_prefix: as far right as it goes, one step left, until no left child is left *)
RECURSIVE LastPrefix(_, _)
LastPrefix(T, n) ==
    LET m == Last(T, n, "right")
    IN  CASE T.node[n].left = Nil -> n
          [] T.node[n].left # Nil /\ T.node[m].left = Nil -> m
          [] OTHER -> LastPrefix(T, T.node[m].left)

(* The begin and end requests; an end keeps what it takes for the last node. *)
BeginInfix(T)   == At(IF T.root = Nil THEN Nil ELSE Last(T, T.root, "left"))
EndInfix(T)     == Behind(IF T.root = Nil THEN Nil ELSE Last(T, T.root, "right"))
BeginPrefix(T)  == At(T.root)
EndPrefix(T)    == Behind(IF T.root = Nil THEN Wild ELSE LastPrefix(T, T.root))
BeginPostfix(T) == At(IF T.root = Nil THEN Wild ELSE FirstBelow(T, T.root))
EndPostfix(T)   == Behind(T.root)

Begin(T, order) == CASE order = "infix"   -> BeginInfix(T)
                     [] order = "prefix"  -> BeginPrefix(T)
                     [] order = "postfix" -> BeginPostfix(T)
End(T, order) == CASE order = "infix"   -> EndInfix(T)
                   [] order = "prefix"  -> EndPrefix(T)
                   [] order = "postfix" -> EndPostfix(T)

(* The reverse walks begin one step back from the end. *)
ReverseInfix(T)   == RetreatInfix(T, EndInfix(T))
ReversePrefix(T)  == RetreatPrefix(T, EndPrefix(T))
ReversePostfix(T) == RetreatPostfix(T, EndPostfix(T))

Reverse(T, order) == CASE order = "infix"   -> ReverseInfix(T)
                       [] order = "prefix"  -> ReversePrefix(T)
                       [] order = "postfix" -> ReversePostfix(T)
====
