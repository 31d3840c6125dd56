--------------------------- MODULE MCMobileSession ---------------------------
(* Small instances of MobileSession for the model checker. *)
EXTENDS MobileSession, TLC

\* Bound: a fourth token only in a family that is alone.
Bound == Len(tokens) <= 3 \/ \A t \in DOMAIN tokens : FamilyOf(t) = 1

Symmetry == Permutations(Requests) \cup Permutations(Devices)
=============================================================================
