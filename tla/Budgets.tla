------------------------------ MODULE Budgets ------------------------------
(***************************************************************************)
(* The budgets of an organization and the projects charged to them: rows   *)
(* with a period and a value, created and edited by administrators, and    *)
(* the budgets of a month.                                                 *)
(*                                                                         *)
(* Both services edit a row in the same way: read it, check the period it  *)
(* would have, update the columns that were sent, log the change; nothing  *)
(* locks the row between the read and the update.  The value stands for    *)
(* the columns that are not dates: a budget's amount, a project's state.   *)
(*                                                                         *)
(* A date is the number of days since the first day of year 0, in a        *)
(* calendar whose months have DaysInMonth days.                            *)
(***************************************************************************)
EXTENDS Integers, FiniteSets

CONSTANTS
  DaysInMonth,
  Days,         \* bound: the dates callers use
  Months,       \* bound: the months they ask for, as <<year, month>>
  Values,       \* bound: amounts, states
  Payloads,     \* bound: what callers send
  Calls,        \* calls under way at a time
  MaxRows       \* bound: rows a table ever gets

ASSUME CalendarIsSane == DaysInMonth \in Nat \ {0} /\ Days \subseteq Nat \ {0}
ASSUME ValuesAreSet == Values \subseteq Nat \ {0}
ASSUME PayloadsAreForms ==
  Payloads \subseteq [value : Values \cup {0}, start : Days \cup {0}, end : Days \cup {0}, said : BOOLEAN]
ASSUME RowsFit == MaxRows \in Nat \ {0}
ASSUME MonthsAreMonths == Months \subseteq Nat \X (1 .. 12)

VARIABLES
  rows,       \* budgets and projects: [table, id, value, start, end]
  call,       \* the calls
  audit,      \* audit_logs: the last edit's entry [table, id, old, new, was,
              \* raced]; was and raced are history: the value it replaced, and
              \* whether another edit of the row came between read and update
  raced       \* history: calls whose row was edited after they read it

tables == <<rows, audit>>
budgetVars == <<rows, call, audit, raced>>

Tables == {"budgets", "projects"}
Ids == 1 .. MaxRows
None == 0      \* no date; in a payload, a field that is null or left out

-----------------------------------------------------------------------------
\* The calendar.
Year(n) == n \div (12 * DaysInMonth)
Month(n) == ((n \div DaysInMonth) % 12) + 1
date(y, m, d) == (y * 12 + m - 1) * DaysInMonth + d - 1

\* Mutant: December ends in January of its own year.
SameYear(y, m) ==
  [start |-> date(y, m, 1), end |-> date(y, IF m = 12 THEN 1 ELSE m + 1, 1)]

_month_window(y, m) ==
  [start |-> date(y, m, 1),
   end   |-> date(y + (IF m = 12 THEN 1 ELSE 0), IF m = 12 THEN 1 ELSE m + 1, 1)]

-----------------------------------------------------------------------------
Of(t) == {r \in rows : r.table = t}
get_by_id(t, i) == CHOOSE r \in Of(t) : r.id = i
Exists(t, i) == \E r \in Of(t) : r.id = i

\* What the services require of a period, and the CHECK of each table.
_check_dates(start, end) == start = None \/ end = None \/ start < end
CheckHolds(r) == r.end = None \/ r.start = None \/ r.end > r.start

\* A budget's dates are given; a project's need not be.
DatesOf(t) == IF t = "budgets" THEN Days ELSE Days \cup {None}

Idle == [pc |-> "idle"]
NoEntry == [table |-> "none", was |-> None, old |-> None, raced |-> FALSE]

\* Rows from earlier calls.
Row(t, i, v, start, end) == [table |-> t, id |-> i, value |-> v, start |-> start, end |-> end]
Seeds ==
  {{}} \cup {{Row("budgets", 1, v, d1, n1), Row("projects", 1, v, d2, n2)} :
             v \in Values, d1 \in Days, n1 \in Days, d2 \in Days \cup {None}, n2 \in Days \cup {None}}
Init ==
  /\ rows \in {s \in Seeds : \A r \in s : CheckHolds(r)}
  /\ audit = NoEntry /\ raced = {}
  /\ call = [c \in Calls |-> Idle]

Finish(c) == call' = [call EXCEPT ![c] = Idle]
Refuse(c) == Finish(c) /\ raced' = raced \ {c} /\ UNCHANGED tables

\* create_budget, create_project: a project needs a budget of the organization.
HasBudget == Of("budgets") # {}
Insert(r) == rows' = rows \cup {r}
Create(c, t, v, start, end) ==
  /\ call[c] = Idle
  /\ Cardinality(Of(t)) < MaxRows
  /\ t = "projects" => HasBudget
  /\ _check_dates(start, end)
  /\ Insert(Row(t, Cardinality(Of(t)) + 1, v, start, end))
  /\ Finish(c)
  /\ UNCHANGED <<audit, raced>>

\* The fields of a payload; said: whether any was sent, null ones included.
Sends(p) == p.value # None \/ p.start # None \/ p.end # None
IsNoOp(t, p) == IF t = "budgets" THEN ~Sends(p) ELSE ~p.said
Or(x, y) == IF x = None THEN y ELSE x
Merged(r, p) ==
  [r EXCEPT !.value = Or(p.value, @), !.start = Or(p.start, @), !.end = Or(p.end, @)]

\* update_budget, update_project up to the UPDATE.
Read(c, t, i, p) ==
  /\ call[c] = Idle /\ Exists(t, i)
  /\ LET current == get_by_id(t, i)
     IN IF ~_check_dates(Merged(current, p).start, Merged(current, p).end) \/ IsNoOp(t, p)
          THEN Finish(c)
          ELSE call' = [call EXCEPT ![c] = [pc |-> "read", table |-> t, id |-> i, old |-> current.value,
                                                   payload |-> p]]
  /\ UNCHANGED <<tables, raced>>

\* Mutant: the old value is taken from the row after the UPDATE.
EntryAfter(c, was, r) ==
  [table |-> r.table, id |-> r.id, old |-> r.value, new |-> r.value, was |-> was.value,
   raced |-> c \in raced]

\* The UPDATE sets the columns sent, in the row as it is then; the entry of the
\* log has the value that was read.
Entry(c, was, r) ==
  [table |-> r.table, id |-> r.id, old |-> call[c].old, new |-> r.value, was |-> was.value,
   raced |-> c \in raced]

Replace(was, r) == rows' = (rows \ {was}) \cup {r}
Readers(r) == 
  {d \in Calls : call[d].pc = "read" /\ call[d].table = r.table /\ call[d].id = r.id}

\* Mutant: the table has no CHECK.
Unchecked(r) == TRUE

Checked(r) == CheckHolds(r)
Update(c) ==
  /\ call[c].pc = "read"
  /\ LET was == get_by_id(call[c].table, call[c].id)
         r   == Merged(was, call[c].payload)
     IN IF ~Checked(r) THEN Refuse(c)
        ELSE /\ Replace(was, r)
             /\ audit' = Entry(c, was, r)
             /\ raced' = (raced \cup Readers(r)) \ {c}
             /\ Finish(c)

GiveUp(c) == call[c].pc = "read" /\ Refuse(c)

BudgetNext ==
  \E c \in Calls :
    \/ \E t \in Tables, v \in Values : \E start, end \in DatesOf(t) : Create(c, t, v, start, end)
    \/ \E t \in Tables, i \in Ids, p \in Payloads : Read(c, t, i, p)
    \/ Update(c) \/ GiveUp(c)

-----------------------------------------------------------------------------
\* The budgets of a month: its first day, and the first day after it.
InWindow(b, w) == b.end >= w.start /\ b.start < w.end
list_by_org(y, m) == {b \in Of("budgets") : InWindow(b, _month_window(y, m))}
=============================================================================
