----------------------------- MODULE MCRegistry -----------------------------
(* Registry on a small instance: two sessions, so that a binding can be     *)
(* cleared and confused, and revisions cut off by a state constraint.       *)
EXTENDS Registry

CONSTANT MaxRev   \* bound on the revisions explored

RevisionBound == ws.rev <= MaxRev /\ rt.rev <= MaxRev /\ binding.rev <= MaxRev
=============================================================================
