----------------------------- MODULE MCAccounts -----------------------------
(***************************************************************************)
(* The two parts of the system that compare times of transactions.  They   *)
(* share the database's clock and nothing else, so a behaviour is one of   *)
(* the one or one of the other.                                            *)
(***************************************************************************)
EXTENDS SignInLimits, EmployeeStatus, TLC

VARIABLE part
vars == <<limitVars, statusVars, part>>

Symmetry ==
  Permutations(Requests) \cup Permutations(Calls) \cup Permutations(Statuses)

SmallLimits ==
  [k \in {"address", "address-accounts", "account"} |->
     CASE k = "address"          -> [count |-> 2, window |-> 1]
       [] k = "address-accounts" -> [count |-> 3, window |-> 2]
       [] k = "account"          -> [count |-> 1, window |-> 2]]

Init == LimitsInit /\ StatusInit /\ part \in {"limits", "status"}
InLimits == part = "limits" /\ UNCHANGED <<log, change, stale, part>>
InStatus == part = "status" /\ UNCHANGED <<bucket, call, guessed, part>>

Next ==
  \/ \E r \in Requests, a \in Accounts : InLimits /\ Login(r, a)
  \/ \E r \in Requests : InLimits /\ Look(r)
  \/ \E r \in Requests : InLimits /\ Count(r)
  \/ \E r \in Requests : InLimits /\ Fail(r)
  \/ \E r \in Requests : InLimits /\ Succeed(r)
  \/ \E r \in Requests : InLimits /\ clear(r)
  \/ \E r \in Requests : InLimits /\ Crash(r)
  \/ \E c \in Calls, s \in Statuses : InStatus /\ Begin(c, s)
  \/ \E c \in Calls : InStatus /\ get_active_status(c)
  \/ \E c \in Calls : InStatus /\ StartClosing(c)
  \/ \E c \in Calls : InStatus /\ close_status(c)
  \/ \E c \in Calls : InStatus /\ create_status(c)
  \/ \E c \in Calls : InStatus /\ GiveUp(c)
  \/ Tick /\ UNCHANGED <<bucket, call, guessed, log, change, stale, part>>
Spec == Init /\ [][Next]_vars
=============================================================================
