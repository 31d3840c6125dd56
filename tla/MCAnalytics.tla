---------------------------- MODULE MCAnalytics ----------------------------
EXTENDS Analytics, TLC

\* The last day of a December of two days, and the two of January after it.
DayNumbers == {23, 24, 25}
MonthNumbers == {<<0, 12>>, <<1, 1>>}
CONSTANTS e1, e2
About == e1 :> [day |-> 23, type |-> 1, project |-> 1, who |-> 1]
             @@ e2 :> [day |-> 24, type |-> 2, project |-> 1, who |-> 2]
Totals == [S \in SUBSET {e1, e2} |-> (IF e1 \in S THEN 5 ELSE 0) + (IF e2 \in S THEN 3 ELSE 0)]
Limits == [categories |-> 1, projects |-> 1, top_spenders |-> 2]
Owners == <<1>>
Form(v, d, n) == [value |-> v, start |-> d, end |-> n, said |-> TRUE]
SentForms == {Form(1, 0, 0), Form(2, 0, 0), Form(0, 24, 0), Form(0, 0, 24), Form(0, 23, 25), Form(0, 0, 0),
              [Form(0, 0, 0) EXCEPT !.said = FALSE]}
Symmetry == Permutations(Calls)
AskedWindows == {<<0, 0>>, <<24, 25>>}

\* Bound: edits, two at a time, without a report; or reports and claims, with a
\* budget of either length as it is or appearing, and no projects (no report
\* reads their rows). The second claim is approved, if anything; a person asks
\* for the default period, an overview is of the two days asked for.
Edits == {c \in Calls : call[c] # Idle}
Bound ==
  \/ report = Closed /\ \A e \in Claims : status[e] = "absent"
  \/ /\ Edits = {} /\ \A r \in rows : r.value = 1 /\ r.table = "budgets" /\ r.end = 25
     /\ status[e2] \notin {"info_requested", "rejected"} /\ payout[e2] = "absent"
     /\ report # Closed => (report.who = Everyone <=> report.window # _window(0, 0))
\* Nothing happens between a report's last statement and its answer.
MCNext ==
  \/ \E c \in Calls, t \in Tables, v \in Values : \E start, end \in DatesOf(t) :
       Create(c, t, v, start, end) /\ Notice /\ Bound' /\ ~Finished
  \/ \E c \in Calls, t \in Tables, i \in Ids, p \in Payloads :
       Read(c, t, i, p) /\ Notice /\ Bound' /\ ~Finished
  \/ \E c \in Calls : Update(c) /\ Notice /\ Bound' /\ ~Finished
  \/ \E c \in Calls : GiveUp(c) /\ Notice /\ Bound' /\ ~Finished
  \/ Execute /\ Bound' /\ ~Finished
  \/ Answer /\ Bound'
  \/ \E e \in Claims, s \in Statuses : Move(e, s) /\ Bound' /\ ~Finished
  \/ \E e \in Claims, s \in PayoutStatuses : MovePayout(e, s) /\ Bound' /\ ~Finished
  \/ \E who \in People \cup {Everyone}, w \in Windows : Ask(who, w[1], w[2]) /\ Bound' /\ ~Finished
MCSpec == AnalyticsInit /\ [][MCNext]_vars
=============================================================================
