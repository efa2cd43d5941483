---- MODULE MCRiverCrossing ----
(* Three kinds of history: two clients of a few commands each, with the     *)
(* server started again; two clients of which one is killed, at any moment  *)
(* of the other; one client with commands enough to solve the puzzle, which *)
(* may be killed.  Queue ids are used twice.                                *)
EXTENDS RiverCrossing
CONSTANTS c1, c2

MCLimits ==
    {[cmds |-> 2, runs |-> (c1 :> 2 @@ c2 :> 2), kills |-> 0, restarts |-> 1],
     [cmds |-> 1, runs |-> (c1 :> 2 @@ c2 :> 2), kills |-> 1, restarts |-> 0],
     [cmds |-> 19, runs |-> (c1 :> 2 @@ c2 :> 0), kills |-> 1, restarts |-> 1]}
====
