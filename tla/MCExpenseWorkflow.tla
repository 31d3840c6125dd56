-------------------------- MODULE MCExpenseWorkflow --------------------------
(* Small instances of ExpenseWorkflow for the model checker. *)
EXTENDS ExpenseWorkflow, TLC

Symmetry == Permutations(Users) \cup Permutations(Expenses) \cup Permutations(Requests)
=============================================================================
