---- MODULE MCBroadcast ----
(* TLC instances of Broadcast. *)
EXTENDS Broadcast, TLC

\* The walks differ only in name; safety runs may swap them.
WalkSymmetry == Permutations(Walks)
====
