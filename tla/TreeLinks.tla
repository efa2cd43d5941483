---- MODULE TreeLinks ----
(***************************************************************************)
(* Binary trees of the repository as the code has them: nodes that point   *)
(* to a left child, a right child and a parent, and rotations that move    *)
(* those pointers.                                                         *)
(*                                                                         *)
(* A tree is a record [root, node, crashed]: node[n] is the record of n,   *)
(* with its links and what the kind of tree adds to them (a colour, a      *)
(* height); crashed is TRUE once the code has followed a null pointer, and *)
(* what happens after that is undefined.                                   *)
(***************************************************************************)
EXTENDS Integers, Sequences

CONSTANT Nil           \* the null pointer

Empty == [root |-> Nil, node |-> [n \in {} |-> 0], crashed |-> FALSE]

Members(T) == DOMAIN T.node
Crash(T) == [T EXCEPT !.crashed = TRUE]
Sides == {"left", "right"}
Other(side) == IF side = "left" THEN "right" ELSE "left"

WithChild(T, n, side, m) == IF n = Nil THEN T ELSE [T EXCEPT !.node[n][side] = m]
WithParent(T, n, p) == IF n = Nil THEN T ELSE [T EXCEPT !.node[n].parent = p]

(* The pointer that leads to n, of its parent or of the tree, now leads to m. *)
Relink(T, n, m) ==
    LET p == T.node[n].parent
    IN  IF p = Nil THEN [T EXCEPT !.root = m]
        ELSE WithChild(T, p, IF T.node[p].left = n THEN "left" ELSE "right", m)

(* m takes the place of n below the parent of n. *)
Transplant(T, n, m) == WithParent(Relink(T, n, m), m, T.node[n].parent)

Without(T, n) == [T EXCEPT !.node = [x \in Members(T) \ {n} |-> T.node[x]]]

(* The new node z below p on the given side, or as the root. *)
Attach(T, z, p, side, leaf) ==
    LET T1 == [T EXCEPT !.node = [n \in Members(T) \cup {z} |->
                                    IF n = z THEN [leaf EXCEPT !.parent = p] ELSE T.node[n]]]
    IN  IF p = Nil THEN [T1 EXCEPT !.root = z] ELSE WithChild(T1, p, side, z)

(* Wrong: the subtree that changes sides keeps its old parent. *)
RotateParentKept(T, a, side) ==
    LET b     == T.node[a][Other(side)]
        inner == T.node[b][side]
        T1    == WithParent(Relink(T, a, b), b, T.node[a].parent)
        T2    == WithParent(WithChild(T1, b, side, a), a, b)
    IN  IF b = Nil THEN T ELSE WithChild(T2, a, Other(side), inner)

(* The small rotation that moves a down to the given side.  The parents of *)
(* the three subtrees are all written, also where they do not change.      *)
Rotate(T, a, side) ==
    LET b     == T.node[a][Other(side)]
        inner == T.node[b][side]
        T1    == WithParent(Relink(T, a, b), b, T.node[a].parent)
        T2    == WithParent(WithChild(T1, b, side, a), a, b)
        T3    == WithParent(WithChild(T2, a, Other(side), inner), inner, a)
        T4    == WithParent(T3, T.node[a][side], a)
    IN  IF b = Nil THEN T ELSE WithParent(T4, T.node[b][Other(side)], b)

(* The big rotation: first the child of a is moved away from the given side. *)
BigRotate(T, a, side) ==
    IF T.node[a][Other(side)] = Nil THEN T
    ELSE Rotate(Rotate(T, T.node[a][Other(side)], Other(side)), a, side)

(* Two small rotations at the top of the same subtree, if it is deep enough. *)
DoubleRotate(T, a, side) ==
    LET b == T.node[a][Other(side)]
    IN  IF b = Nil THEN T
        ELSE IF T.node[b][Other(side)] = Nil THEN T
        ELSE Rotate(Rotate(T, a, side), b, side)

-----------------------------------------------------------------------------
(* As far as the links of one side lead from n *)
Last(T, n, side) ==
    LET last[m \in Members(T)] ==
            IF T.node[m][side] = Nil THEN m ELSE last[T.node[m][side]]
    IN  last[n]

(* The nodes below n, in order *)
InOrder(T, n) ==
    LET walk[m \in Members(T) \cup {Nil}] ==
            IF m = Nil THEN <<>>
            ELSE walk[T.node[m].left] \o <<m>> \o walk[T.node[m].right]
    IN  walk[n]

(* Children and parents name each other. *)
LinksAgree(T) ==
    /\ T.root \in Members(T) => T.node[T.root].parent = Nil
    /\ \A n \in Members(T) :
          /\ \A side \in Sides : T.node[n][side] # Nil =>
                /\ T.node[n][side] \in Members(T)
                /\ T.node[T.node[n][side]].parent = n
          /\ T.node[n].left = T.node[n].right => T.node[n].left = Nil
          /\ n # T.root =>
                /\ T.node[n].parent \in Members(T)
                /\ \E side \in Sides : T.node[T.node[n].parent][side] = n
====
