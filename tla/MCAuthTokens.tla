---------------------------- MODULE MCAuthTokens ----------------------------
(* Small instances of AuthTokens for the model checker. *)
EXTENDS AuthTokens, TLC

Symmetry == Permutations(Accounts) \cup Permutations(Requests)
=============================================================================
