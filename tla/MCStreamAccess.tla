--------------------------- MODULE MCStreamAccess ---------------------------
(* Finite instances of StreamAccess.                                       *)
EXTENDS StreamAccess, TLC

\* Rows, requests and grants are interchangeable.
Symmetric == Permutations(Rows) \cup Permutations(Requests) \cup Permutations(Grants)

FreeOnly == {FALSE}
AnyPlan == BOOLEAN
=============================================================================
