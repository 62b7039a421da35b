------------------------------ MODULE MCRebuild ------------------------------
(* The instances of Rebuild that TLC checks.                               *)
EXTENDS Rebuild, TLC

\* Callers are interchangeable.  Only for runs without liveness.
Symmetric == Permutations(Callers)

=============================================================================
