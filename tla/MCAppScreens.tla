---------------------------- MODULE MCAppScreens ----------------------------
(***************************************************************************)
(* Small instances of the app's list of expenses and of its payment        *)
(* dialogs. They share no state, so a behaviour is one of the one or one   *)
(* of the other.                                                           *)
(***************************************************************************)
EXTENDS ExpenseList, MarkPaid, TLC

VARIABLE part
screensVars == <<listVars, vars, part>>

\* Not over the dialogs: they have few states, and every permutation counts for
\* each state of the list.
Symmetry == Permutations(Calls) \cup Permutations(People)

\* Bound: one person leaves with a call under way, and does not come back (the
\* next one may: for the list, the late answers are the same). The first
\* expense is decided, the second asked about and resubmitted.
Bound ==
  /\ Cardinality(outlived) <= 1 /\ user \notin outlived
  /\ \A i \in DOMAIN server :
       server[i] \notin (IF i = 1 THEN {"info_requested"} ELSE {"approved", "rejected"})
  /\ \A c \in Calls : call[c].op \in Posts =>
       call[c].op \in (IF call[c].about = 1 THEN {"approve", "reject"} ELSE {"request_info", "resubmit"})

ScreensInit == ListInit /\ Init /\ part \in {"list", "dialogs"}
InList == part = "list" /\ UNCHANGED <<vars, part>>
InDialogs == part = "dialogs" /\ UNCHANGED <<listVars, part>>

ScreensNext ==
  \/ InList /\ Submit
  \/ \E id \in DOMAIN server : \E op \in Posts : InList /\ ReviewElsewhere(id, op)
  \/ InList /\ SignOut
  \/ \E c \in Calls : InList /\ Serve(c)
  \/ \E c \in Calls : \E p \in People : InList /\ SignIn(c, p)
  \/ \E c \in Calls : InList /\ Refresh(c)
  \/ \E c \in Calls : InList /\ LoadMore(c)
  \/ \E c \in Calls : \E id \in DOMAIN server : \E op \in Posts : InList /\ Decide(c, id, op)
  \/ \E c \in Calls : \E id \in DOMAIN server : \E op \in Posts : InList /\ Ask(c, id, op)
  \/ \E c \in Calls : InList /\ HearPage(c)
  \/ \E c \in Calls : InList /\ HearPostGranted(c)
  \/ \E c \in Calls : InList /\ HearRefusal(c)
  \/ \E c \in Calls : InList /\ HearNothing(c)
  \/ \E d \in Dialogs : InDialogs /\ Confirm(d)
  \/ \E d \in Dialogs : InDialogs /\ Grant(d)
  \/ \E d \in Dialogs : InDialogs /\ Refuse(d)
  \/ \E d \in Dialogs : \E step \in Steps : InDialogs /\ RunLate(d, step)
  \/ \E d \in Dialogs : InDialogs /\ Hear(d)
  \/ \E d \in Dialogs : InDialogs /\ Miss(d)
ScreensSpec == ScreensInit /\ [][ScreensNext]_screensVars
=============================================================================
