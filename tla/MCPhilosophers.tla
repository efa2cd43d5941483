---- MODULE MCPhilosophers ----
(* Four philosophers, two places, two rounds; up to two calls fail, at any *)
(* points of the program.                                                  *)
EXTENDS Philosophers
====
