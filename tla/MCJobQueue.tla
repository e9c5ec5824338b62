----------------------------- MODULE MCJobQueue -----------------------------
(* Instances of JobQueue for TLC.  Jobs and requests are interchangeable.  *)
EXTENDS JobQueue, TLC

Symmetry == Permutations(Jobs) \cup Permutations(Calls)
=============================================================================
