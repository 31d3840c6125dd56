-------------------------- MODULE TransactionClock --------------------------
(***************************************************************************)
(* The clock behind CURRENT_TIMESTAMP.  PostgreSQL answers the start of    *)
(* the transaction, so what a transaction writes carries the value of now  *)
(* it started with, not the one at its commit.                             *)
(***************************************************************************)
EXTENDS Naturals

CONSTANT MaxTime   \* bound: the clock stops here
ASSUME MaxTimeAssumption == MaxTime \in Nat

VARIABLE now
Times == 0 .. MaxTime
Tick == now < MaxTime /\ now' = now + 1
=============================================================================
