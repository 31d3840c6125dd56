---------------------------- MODULE ExpenseClaim ----------------------------
(***************************************************************************)
(* What the expense and reimbursement services promise about one claim     *)
(* for money, with requests, locks, triggers and histories left out:       *)
(* a claim is filed, decided once by somebody other than the person who    *)
(* filed it, and settled at most once, and only after it was granted.      *)
(* The module docstring of backend/app/reimbursements/service.py and the   *)
(* transition tables of backend/app/core/constants.py state this promise;  *)
(* ExpenseWorkflow is shown to implement it.                               *)
(***************************************************************************)
CONSTANTS
  Users,      \* the people who file and review claims
  Expenses,   \* the claims that may ever be filed
  NoUser      \* stands for "nobody"

VARIABLE claim  \* claim[e]: the stage of e, who filed it, who decided it

Stages == {"none", "open", "refused", "granted", "owed", "settled"}

Unfiled == [stage |-> "none", owner |-> NoUser, decider |-> NoUser]

ClaimTypeOK ==
  claim \in [Expenses -> [stage   : Stages,
                          owner   : Users \cup {NoUser},
                          decider : Users \cup {NoUser}]]

ClaimInit == claim = [e \in Expenses |-> Unfiled]

File(u, e) ==
  /\ claim[e].stage = "none"
  /\ claim' = [claim EXCEPT ![e] =
                 [stage |-> "open", owner |-> u, decider |-> NoUser]]

\* A decision: the claim leaves "open" once, by somebody else's hand.
Decided(e, u, verdict) ==
  /\ claim[e].stage = "open"
  /\ u # claim[e].owner
  /\ claim' = [claim EXCEPT ![e] =
                 [stage |-> verdict, owner |-> @.owner, decider |-> u]]

Refuse(u, e) == Decided(e, u, "refused")

Grant(u, e) == Decided(e, u, "granted")

\* A payout is opened for a granted claim, at most once.
Owe(e) ==
  /\ claim[e].stage = "granted"
  /\ claim' = [claim EXCEPT ![e] =
                 [stage |-> "owed", owner |-> @.owner, decider |-> @.decider]]

Settle(e) ==
  /\ claim[e].stage = "owed"
  /\ claim' = [claim EXCEPT ![e] =
                 [stage |-> "settled", owner |-> @.owner, decider |-> @.decider]]

ClaimNext ==
  \E e \in Expenses :
    \/ \E u \in Users : File(u, e) \/ Refuse(u, e) \/ Grant(u, e)
    \/ Owe(e)
    \/ Settle(e)

ClaimSpec == ClaimInit /\ [][ClaimNext]_claim
=============================================================================
