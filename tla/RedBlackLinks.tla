---- MODULE RedBlackLinks ----
(***************************************************************************)
(* The red-black tree of the repository.  allocator_red_black_tree and     *)
(* red_black_tree have the same algorithm, each with its own copy of it:   *)
(* nodes with a colour, repaired after an insertion and after a removal.   *)
(***************************************************************************)
EXTENDS TreeLinks, FiniteSets

RedLeaf == [left |-> Nil, right |-> Nil, parent |-> Nil, red |-> TRUE]

(* A null node counts as black. *)
IsRed(T, n) == n \in Members(T) /\ T.node[n].red

Paint(T, n, red) == IF n = Nil THEN T ELSE [T EXCEPT !.node[n].red = red]

(* Both repairs are loops that climb from a node, [tree, at], so there are *)
(* not more rounds than nodes.  A round after the last one does nothing.   *)
Climbing(T, n) == [tree |-> T, at |-> n]
Ended(T) == Climbing(T, Nil)
Loop(round(_), s, n) ==
    LET after[k \in 0..n] == IF k = 0 THEN s ELSE round(after[k - 1])
    IN  after[n]

-----------------------------------------------------------------------------
(* Insertion: z goes below a leaf as a red node, then the colours are      *)
(* repaired upwards.                                                       *)

(* One round of the loop at s.at, which is Nil once the loop has ended *)
InsertRound(s) ==
    LET T     == s.tree
        z     == s.at
        p     == T.node[z].parent
        g     == T.node[p].parent
        side  == IF T.node[g].left = p THEN "left" ELSE "right"
        uncle == T.node[g][Other(side)]
        inner == T.node[p][Other(side)] = z
        T1    == IF inner THEN Rotate(T, p, side) ELSE T
        top   == IF inner THEN z ELSE p
    IN  IF z = Nil THEN s
        ELSE IF z = T.root \/ ~ IsRed(T, p) THEN Ended(Paint(T, T.root, FALSE))
        ELSE IF g = Nil THEN Ended(Crash(T))
        ELSE IF IsRed(T, uncle)
             THEN Climbing(Paint(Paint(Paint(T, p, FALSE), uncle, FALSE), g, TRUE), g)
        ELSE Climbing(Rotate(Paint(Paint(T1, top, FALSE), g, TRUE), g, Other(side)),
                IF inner THEN p ELSE z)

RepairInsert(T, z) == Loop(InsertRound, Climbing(T, z), Cardinality(Members(T))).tree

-----------------------------------------------------------------------------
(* Removal *)

Sibling(T, p, side) == T.node[p][Other(side)]

(* The first case: a red sibling is turned above p, whose child x on the   *)
(* given side gets another one.                                            *)
FirstCase(T, p, side) ==
    LET w == Sibling(T, p, side)
    IN  IF IsRed(T, w) THEN Rotate(Paint(Paint(T, w, FALSE), p, TRUE), p, side) ELSE T

(* The third case: the child of w beside x is red.  For a right x it turns *)
(* the parent, where its mirror image turns w.                             *)
ThirdCase(T, p, side) ==
    LET w == Sibling(T, p, side)
    IN  Rotate(Paint(Paint(T, T.node[w][side], FALSE), w, TRUE),
               IF side = "left" THEN w ELSE p, Other(side))

(* The fourth case: the outer child of w is painted, for a right x without *)
(* a test that there is one.                                               *)
FourthCase(T, p, side) ==
    LET w   == Sibling(T, p, side)
        out == Sibling(T, w, side)
    IN  IF side = "right" /\ out = Nil THEN Crash(T)
        ELSE Rotate(Paint(Paint(Paint(T, w, T.node[p].red), p, FALSE), out, FALSE), p, side)

(* Cases two to four, which follow the first one *)
OtherCases(T, p, side) ==
    LET w      == Sibling(T, p, side)
        red(s) == w # Nil /\ IsRed(T, T.node[w][s])
    IN  IF red(side) \/ red(Other(side))
        THEN Ended(FourthCase(IF red(Other(side)) THEN T ELSE ThirdCase(T, p, side), p, side))
        ELSE Climbing(Paint(T, w, TRUE), p)

(* One round of the loop at s.at.  A node without a sibling is left alone. *)
RemoveRound(s) ==
    LET T    == s.tree
        x    == s.at
        p    == T.node[x].parent
        side == IF T.node[p].left = x THEN "left" ELSE "right"
    IN  IF x = Nil THEN s
        ELSE IF x = T.root \/ IsRed(T, x) THEN Ended(Paint(T, x, FALSE))
        ELSE IF Sibling(T, p, side) = Nil THEN Climbing(T, p)
        ELSE OtherCases(FirstCase(T, p, side), p, side)

RepairRemove(T, x) == Loop(RemoveRound, Climbing(T, x), Cardinality(Members(T))).tree

(* z leaves the tree.  A null x ends the repair before it begins, whatever *)
(* the colour of the node that is gone.                                    *)
Remove(T, z) ==
    LET l   == T.node[z].left
        r   == T.node[z].right
        one == l = Nil \/ r = Nil
        y   == IF one THEN z ELSE Last(T, l, "right")
        x   == IF one THEN (IF l = Nil THEN r ELSE l) ELSE T.node[y].left
        T1  == IF one \/ T.node[y].parent = z THEN T
               ELSE WithParent(WithChild(Transplant(T, y, x), y, "left", l), l, y)
        T2  == IF one THEN Transplant(T, z, x)
               ELSE Paint(WithChild(WithParent(Transplant(T1, z, y), r, y), y, "right", r),
                          y, T.node[z].red)
        T3  == Without(T2, z)
    IN  IF IsRed(T, y) \/ x = Nil THEN T3 ELSE RepairRemove(T3, x)
====
