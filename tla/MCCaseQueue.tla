----------------------------- MODULE MCCaseQueue -----------------------------
(* The instances of CaseQueue that TLC checks.                             *)
EXTENDS CaseQueue, TLC

\* Slots are interchangeable (the file order is kept in `order`), and so are
\* the case keys.  Only for runs without liveness.
Symmetric == Permutations(Slots) \cup Permutations(Cases)

=============================================================================
