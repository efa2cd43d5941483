---- MODULE WolfGoatCabbage ----
(***************************************************************************)
(* The puzzle of SP/task4 as its players know it: a boat that carries at   *)
(* most one object, which must be on the boat's shore; once something was  *)
(* left alone with what eats it the game is over and can only be started   *)
(* again.                                                                  *)
(***************************************************************************)
CONSTANT Players

Objects == {"wolf", "goat", "cabbage"}

VARIABLES right,      \* the objects of each player on the right shore
          boat        \* whether the player's boat is there

puzzleVars == <<right, boat>>

BesideBoat(p) == {o \in Objects : (o \in right[p]) = boat[p]}

Eaten(p) ==
    /\ "goat" \notin BesideBoat(p)
    /\ "wolf" \notin BesideBoat(p) \/ "cabbage" \notin BesideBoat(p)

NewGame ==
    /\ right = [p \in Players |-> {}]
    /\ boat = [p \in Players |-> FALSE]

Cross(p) ==
    /\ ~ Eaten(p)
    /\ \E cargo \in SUBSET BesideBoat(p) :
          /\ \A a, b \in cargo : a = b
          /\ right' = [right EXCEPT ![p] = IF boat[p] THEN @ \ cargo ELSE @ \cup cargo]
    /\ boat' = [boat EXCEPT ![p] = ~ @]

Restart(S) ==
    /\ right' = [p \in Players |-> IF p \in S THEN {} ELSE right[p]]
    /\ boat' = [p \in Players |-> p \notin S /\ boat[p]]

Play == (\E p \in Players : Cross(p)) \/ (\E S \in SUBSET Players : Restart(S))

Puzzle == NewGame /\ [][Play]_puzzleVars
====
