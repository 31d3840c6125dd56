----------------------------- MODULE Analytics -----------------------------
(***************************************************************************)
(* The dashboards: a report on the claims and budgets of a period, for the *)
(* organization or for one person, read by several statements in one       *)
(* transaction.  The transaction is READ COMMITTED: every statement sees   *)
(* what was committed when it started, so claims are decided and budgets   *)
(* edited between two figures of one report.                               *)
(*                                                                         *)
(* A figure is the set of claims, budgets or payouts it adds up; averages  *)
(* and percentages are left out, and amounts appear only where a chart is  *)
(* cut to its largest slices: categories, projects and people are numbered *)
(* in the order of their names, and projects nobody has spent on, which    *)
(* come last, are not listed.  The rules for claims and payouts are        *)
(* ExpenseWorkflow's subject; payouts are opened on the reports' day.      *)
(***************************************************************************)
EXTENDS Budgets, Sequences

CONSTANTS
  Claims,       \* expenses
  Attributes,   \* [Claims -> [day, type, project, who]]: what never changes
  Total,        \* [SUBSET Claims -> Nat]: SUM(amount)
  ChartLimit,   \* [categories, projects, top_spenders]: the LIMIT of each chart
  Owner,        \* [Ids -> whose budget it is]
  Today,        \* the day the reports are asked for
  Windows,      \* bound: the (from, to) callers send, None for a date left out
  MaxWindow     \* _MAX_WINDOW_DAYS

ASSUME TodayIsADay == Today \in Nat \ {0} /\ MaxWindow \in Nat
ASSUME ClaimsAreDated == \A e \in Claims : Attributes[e].day \in Nat
ASSUME TotalsGrow ==
  /\ IsFiniteSet(Claims) /\ Total \in [SUBSET Claims -> Nat]
  /\ \A S, T \in SUBSET Claims : S \subseteq T => Total[S] <= Total[T]
ASSUME LimitsAreNumbers == \A n \in {"categories", "projects", "top_spenders"} : ChartLimit[n] \in Nat
ASSUME WindowsAreDates == Windows \subseteq Nat \X Nat

VARIABLES
  status,       \* status of each claim, "absent" before it is submitted
  payout,       \* status of its reimbursement, "absent" before it is opened
  report        \* the report being read: [who, start, end, todo, figures, quiet]

claimVars == <<status, payout>>
vars == <<budgetVars, claimVars, report>>

Statuses == {"pending", "info_requested", "approved", "rejected", "reimbursed"}

\* Mutant: an approval may be taken back.
ApprovalsWithdrawn ==
  [pending        |-> {"approved", "rejected", "info_requested"},
   info_requested |-> {"pending", "approved", "rejected"},
   approved       |-> {"reimbursed", "rejected"},
   rejected       |-> {},
   reimbursed     |-> {},
   absent         |-> {"pending"}]

EXPENSE_TRANSITIONS ==
  [pending        |-> {"approved", "rejected", "info_requested"},
   info_requested |-> {"pending", "approved", "rejected"},
   approved       |-> {"reimbursed"},
   rejected       |-> {},
   reimbursed     |-> {},
   absent         |-> {"pending"}]

REIMBURSEMENT_TRANSITIONS ==
  [pending    |-> {"processing"},
   processing |-> {"paid", "failed"},
   paid       |-> {},
   failed     |-> {"processing"},
   absent     |-> {"pending"}]
PayoutStatuses == {"pending", "processing", "paid", "failed"}

Everyone == 0
People == {Attributes[e].who : e \in Claims}
Filed == {e \in Claims : status[e] # "absent"}

-----------------------------------------------------------------------------
\* The period of a report.
FirstOfMonth(n) == date(Year(n), Month(n), 1)
MonthIndex(n) == Year(n) * 12 + Month(n) - 1
FirstDay(month_index) == date(month_index \div 12, (month_index % 12) + 1, 1)
DefaultStart(end) == FirstDay(MonthIndex(end) - 5)
_window(from, to) ==
  LET end == IF to = None THEN Today ELSE to
  IN [start |-> IF from = None THEN DefaultStart(end) ELSE from, end |-> end]
WindowAllowed(w) == w.start <= w.end /\ w.end - w.start <= MaxWindow

_previous_window(w) ==
  LET duration == w.end - w.start + 1
  IN [start |-> w.start - 1 - (duration - 1), end |-> w.start - 1]

-----------------------------------------------------------------------------
\* The statements.
SpendStatuses == {"approved", "reimbursed"}
Scoped(who) == {e \in Filed : who \in {Everyone, Attributes[e].who}}
Within(w, who) == {e \in Scoped(who) : Attributes[e].day \in w.start .. w.end}
Spend(claims) == {e \in claims : status[e] \in SpendStatuses}
ByStatus(claims) == [s \in Statuses |-> {e \in claims : status[e] = s}]
By(attribute(_), claims) ==
  [v \in {attribute(e) : e \in claims} |-> {e \in claims : attribute(e) = v}]

\* ORDER BY amount DESC, name ASC LIMIT n (namesakes with equal amounts, whom the
\* statement leaves unordered, by number).
Above(slices, v) ==
  {u \in DOMAIN slices \ {v} :
     \/ Total[slices[u]] > Total[slices[v]]
     \/ Total[slices[u]] = Total[slices[v]] /\ u < v}
Top(slices, n) == [v \in {u \in DOMAIN slices : Cardinality(Above(slices, u)) < n} |-> slices[v]]

summary(w, who) == ByStatus(Within(w, who))
_budget_scope(who) == {b \in Of("budgets") : who \in {Everyone, Owner[b.id]}}
budget_allocated(w) == {b \in Of("budgets") : b.start <= w.end /\ b.end >= w.start}

MonthsOf(w) == {FirstDay(i) : i \in MonthIndex(w.start) .. MonthIndex(w.end)}
NextMonth(m) == FirstDay(MonthIndex(m) + 1)
InMonth(m, n) == m <= n /\ n < NextMonth(m)
monthly(w, who) ==
  [m \in MonthsOf(w) |->
     [claims |-> {e \in Scoped(who) : InMonth(m, Attributes[e].day) /\ status[e] \in SpendStatuses},
      budgets |-> {b \in _budget_scope(who) : b.start < NextMonth(m) /\ b.end >= m}]]

\* The charts with a LIMIT: what each groups the spent claims by.
Charts == {"categories", "projects", "top_spenders"}
Key(n, e) ==
  IF n = "categories" THEN Attributes[e].type
  ELSE IF n = "projects" THEN Attributes[e].project ELSE Attributes[e].who
Chart(n, claims) == Top(By(LAMBDA e : Key(n, e), claims), ChartLimit[n])
categories(w, who) == Chart("categories", Spend(Within(w, who)))
projects(w) == Chart("projects", Spend(Within(w, Everyone)))
top_spenders(w) == Chart("top_spenders", Spend(Within(w, Everyone)))
reimbursements(w) ==
  [s \in PayoutStatuses |-> {e \in Claims : payout[e] = s /\ Today \in w.start .. w.end}]
status_breakdown(w, who) == ByStatus(Within(w, who))

Waiting == {e \in Filed : status[e] \in {"pending", "info_requested"}}
Bucket(n) ==
  LET age == Today - n
  IN IF age <= 2 THEN "0-2 days" ELSE IF age <= 7 THEN "3-7 days"
     ELSE IF age <= 14 THEN "8-14 days" ELSE "15+ days"
aging == By(LAMBDA e : Bucket(Attributes[e].day), Waiting)

Statement(name, w, who) ==
  CASE name = "summary"          -> summary(w, who)
    [] name = "budget_allocated" -> budget_allocated(w)
    [] name = "previous"         -> summary(_previous_window(w), who)
    [] name = "monthly"          -> monthly(w, who)
    [] name = "categories"       -> categories(w, who)
    [] name = "projects"         -> projects(w)
    [] name = "aging"            -> aging
    [] name = "top_spenders"     -> top_spenders(w)
    [] name = "reimbursements"   -> reimbursements(w)
    [] name = "status_breakdown" -> status_breakdown(w, who)

overview == <<"summary", "budget_allocated", "previous", "monthly", "categories", "projects",
              "aging", "top_spenders", "reimbursements", "status_breakdown">>
personal == <<"summary", "monthly", "categories", "status_breakdown">>

-----------------------------------------------------------------------------
Closed == [todo |-> <<>>, figures |-> <<>>]

AnalyticsInit ==
  /\ Init /\ report = Closed
  /\ status = [e \in Claims |-> "absent"] /\ payout = [e \in Claims |-> "absent"]

Ask(who, from, to) ==
  /\ report = Closed
  /\ WindowAllowed(_window(from, to))
  /\ report' = [who |-> who, window |-> _window(from, to), todo |-> IF who = Everyone THEN overview ELSE personal,
                figures |-> <<>>, quiet |-> TRUE]
  /\ UNCHANGED <<budgetVars, claimVars>>

\* figures: [statement |-> figure], as far as the report has got.
Execute ==
  /\ report.todo # <<>>
  /\ LET name == Head(report.todo)
         w    == report.window
     IN report' = [report EXCEPT !.todo = Tail(@),
          !.figures = [n \in DOMAIN @ \cup {name} |->
                         IF n = name THEN Statement(name, w, report.who) ELSE @[n]]]
  /\ UNCHANGED <<budgetVars, claimVars>>

Finished == report # Closed /\ report.todo = <<>>
Answer ==
  /\ Finished
  /\ report' = Closed
  /\ UNCHANGED <<budgetVars, claimVars>>

Disturbed == IF report = Closed THEN report ELSE [report EXCEPT !.quiet = (@ /\ report.todo = <<>>)]

\* A claim is submitted, decided or paid.
Move(e, s) ==
  /\ s \in EXPENSE_TRANSITIONS[status[e]]
  /\ s = "reimbursed" => "paid" \in REIMBURSEMENT_TRANSITIONS[payout[e]]
  /\ status' = [status EXCEPT ![e] = s]
  /\ payout' = IF s = "reimbursed" THEN [payout EXCEPT ![e] = "paid"] ELSE payout
  /\ report' = Disturbed
  /\ UNCHANGED budgetVars

\* Its payout is opened, processed, or fails.
MovePayout(e, s) ==
  /\ s \in REIMBURSEMENT_TRANSITIONS[payout[e]] \ {"paid"}
  /\ s = "pending" => status[e] = "approved"
  /\ payout' = [payout EXCEPT ![e] = s]
  /\ report' = Disturbed
  /\ UNCHANGED <<budgetVars, status>>

Notice == report' = (IF rows' = rows THEN report ELSE Disturbed) /\ UNCHANGED claimVars
Edit == BudgetNext /\ Notice

Next ==
  \/ Edit \/ Execute \/ Answer
  \/ \E e \in Claims, s \in Statuses : Move(e, s)
  \/ \E e \in Claims, s \in PayoutStatuses : MovePayout(e, s)
  \/ \E who \in People \cup {Everyone}, w \in Windows : Ask(who, w[1], w[2])

Spec == AnalyticsInit /\ [][Next]_vars

-----------------------------------------------------------------------------
\* Shapes.
TypeOK ==
  /\ \A r \in rows : r.table \in Tables /\ r.id \in Ids /\ r.value \in Values
                       /\ r.start \in DatesOf(r.table) /\ r.end \in DatesOf(r.table)
  /\ \A r, q \in rows : r.table = q.table /\ r.id = q.id => r = q
  /\ \A c \in Calls : call[c].pc \in {"idle", "read"}
  /\ raced \subseteq Calls
  /\ status \in [Claims -> Statuses \cup {"absent"}]
  /\ payout \in [Claims -> PayoutStatuses \cup {"absent"}]

\* A period that is given has its dates in order, whoever sends which end of it
\* at once: each edit checks the pair it would make of what it read, and only
\* the CHECK of the table sees the pair that two edits make together.
PeriodsInOrder ==
  TypeOK /\ \A r \in rows : r.start # None /\ r.end # None => r.start < r.end

\* The log tells what an edit replaced, unless another edit of the row came
\* between the read and the update: then its old value is one the row had
\* before, and no entry tells what was replaced.
LogTellsTheChange == audit.old = audit.was \/ audit.raced

Read_(name) == name \in DOMAIN report.figures
Figure(name) == report.figures[name]
Slices(name) == UNION {Figure(name)[v] : v \in DOMAIN Figure(name)}
SpendOf(f) == f["approved"] \cup f["reimbursed"]
InMonths == UNION {Figure("monthly")[m].claims : m \in DOMAIN Figure("monthly")}

Keys(n, claims) == {Key(n, e) : e \in claims}
Of_(n, v, claims) == {e \in claims : Key(n, e) = v}

\* What a full chart leaves out is worth no more than any slice it shows.
LeftOut(n, e, f, spent) ==
  /\ Cardinality(Keys(n, Spend(Within(report.window, report.who)))) > ChartLimit[n]
  /\ \A v \in DOMAIN f : Total[Of_(n, Key(n, e), spent)] <= Total[f[v]]

\* What was spent stays spent, and the headline is read first.
ChartsCoverTheHeadline ==
  Read_("summary") =>
    LET spent == SpendOf(Figure("summary"))
    IN /\ Read_("monthly") => spent \subseteq InMonths
       /\ \A n \in Charts : Read_(n) => \A e \in spent \ Slices(n) : LeftOut(n, e, Figure(n), spent)
       /\ Read_("reimbursements") /\ Today \in report.window.start .. report.window.end =>
            Figure("summary")["reimbursed"] \subseteq Figure("reimbursements")["paid"]
       /\ Read_("status_breakdown") => spent \subseteq SpendOf(Figure("status_breakdown"))

QuietReportAgrees ==
  Finished /\ report.quiet =>
    LET spent == SpendOf(Figure("summary"))
        w     == report.window
        month == Figure("monthly")
    IN /\ \A n \in Charts : Read_(n) => \A v \in DOMAIN Figure(n) : Figure(n)[v] = Of_(n, v, spent)
       /\ Figure("status_breakdown") = Figure("summary")
       /\ {e \in InMonths : Attributes[e].day \in w.start .. w.end} = spent
       /\ \A m, n \in DOMAIN month : m # n => month[m].claims \cap month[n].claims = {}
       /\ Read_("budget_allocated") =>
            Figure("budget_allocated") \subseteq UNION {month[m].budgets : m \in DOMAIN month}
       /\ Read_("aging") => \A s \in {"pending", "info_requested"} : Figure("summary")[s] \subseteq Slices("aging")

\* Every chart of a report counts the claims its headline does, however many
\* are decided and paid while it is read - except that a chart with a LIMIT,
\* when the period has more categories, projects or people than that, leaves
\* out some that are worth no more than any it shows. What the headline says is
\* reimbursed is among the payouts paid, where the period has today. With
\* nothing changed meanwhile, the report agrees with itself: every slice is all
\* of the headline's claims of its kind, a claim is in one month and one bucket,
\* and the window's budgets are among the months' (analytics/service.py
\* organization_overview, my_overview).
FiguresAgree == ChartsCoverTheHeadline /\ QuietReportAgrees

MonthListsItsBudgets ==
  \A m \in Months : list_by_org(m[1], m[2]) =
    {b \in Of("budgets") : \E n \in b.start .. b.end : Year(n) = m[1] /\ Month(n) = m[2]}

WindowsFit ==
  report # Closed =>
    LET w == report.window
        p == _previous_window(w)
    IN /\ p.end + 1 = w.start /\ p.end - p.start = w.end - w.start
       /\ w.start = DefaultStart(w.end) => Cardinality(MonthsOf(w)) = 6 /\ w.start = FirstOfMonth(w.start)

\* The calendar at its edges, December above all: the budgets listed for a
\* month are those with a day in it (budgets/service.py _month_window); the
\* period compared with is as long as the report's and ends the day before it
\* (analytics/service.py _previous_window); without a first day, the report has
\* the six months up to its last day (_window).
CalendarHolds == MonthListsItsBudgets /\ WindowsFit
=============================================================================
