----------------------------- MODULE MCRuntime -----------------------------
(* RuntimeControl on small instances.  Actors are interchangeable, so the   *)
(* safety runs with two of them use symmetry.                               *)
EXTENDS RuntimeControl, TLC

Symmetry == Permutations(Actors)
=============================================================================
