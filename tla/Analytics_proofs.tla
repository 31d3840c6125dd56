-------------------------- MODULE Analytics_proofs --------------------------
(***************************************************************************)
(* Proofs about the reports of Analytics and the budgets edited under      *)
(* them, for any dates, values, payloads, calls, claims and periods, any   *)
(* length of a month and any number of rows.                               *)
(*                                                                         *)
(* Budgets: rows are never deleted and their numbers run from one, so a    *)
(* table and a number name one row (RowsRight).  A call that nobody has    *)
(* overtaken still has the value of its row (CallsRight), because whoever  *)
(* edits a row notes all its readers.                                      *)
(*                                                                         *)
(* Reports: a report has read the first statements of its plan, in order   *)
(* (ReadSoFar), so the headline comes first and is read once.  Whatever    *)
(* it counts as spent is still spent when a later chart is read            *)
(* (SpentStays), because no transition leaves the spent statuses; and      *)
(* while nothing changes, every figure is what its statement would return  *)
(* now (StillTrue), so the charts can be compared in one state.            *)
(*                                                                         *)
(* The calendar: a month is a multiple of DaysInMonth, by the division the *)
(* prover is told about in DivBounds and DivUnique.                        *)
(***************************************************************************)
EXTENDS Analytics, FiniteSetTheorems, SequenceTheorems, TLAPS

RowType ==
  [table : Tables, id : Ids, value : Values, start : Days \cup {None}, end : Days \cup {None}]
RightRow(r) ==
  r \in RowType /\ r.start \in DatesOf(r.table) /\ r.end \in DatesOf(r.table) /\ CheckHolds(r)

\* The rows of a table have the numbers up to how many there are.
RowsRight ==
  /\ IsFiniteSet(rows)
  /\ \A r \in rows : RightRow(r)
  /\ \A r, q \in rows : r.table = q.table /\ r.id = q.id => r = q
  /\ \A r \in rows : r.id <= Cardinality(Of(r.table))

Reading == [pc : {"read"}, table : Tables, id : Ids, old : Values, payload : Payloads]

\* The row that a call has read is there, and as it was unless it was edited.
Knows(c, s) ==
  s.pc = "read" =>
    \E r \in rows : r.table = s.table /\ r.id = s.id /\ (c \notin raced => r.value = s.old)
CallsRight ==
  /\ call \in [Calls -> {Idle} \cup Reading]
  /\ \A c \in Calls : Knows(c, call[c])

BudgetInv ==
  /\ RowsRight /\ CallsRight /\ raced \subseteq Calls
  /\ LogTellsTheChange

-----------------------------------------------------------------------------
LEMMA NumberFacts ==
  /\ None \notin Days /\ None \notin Values /\ Days \subseteq Nat /\ Ids \subseteq Nat /\ None \in Nat
  BY CalendarIsSane, ValuesAreSet, RowsFit DEF None, Ids

LEMMA GetFacts ==
  ASSUME RowsRight, NEW t, NEW i, Exists(t, i)
  PROVE  get_by_id(t, i) \in rows /\ get_by_id(t, i).table = t /\ get_by_id(t, i).id = i
         /\ \A r \in rows : r.table = t /\ r.id = i => r = get_by_id(t, i)
  <1>1. PICK r \in rows : r.table = t /\ r.id = i
    BY DEF Exists, Of
  <1>2. get_by_id(t, i) \in Of(t) /\ get_by_id(t, i).id = i
    BY <1>1 DEF get_by_id, Of
  <1> QED
    BY <1>2 DEF Of, RowsRight

LEMMA OfFacts ==
  ASSUME IsFiniteSet(rows), NEW t
  PROVE  IsFiniteSet(Of(t)) /\ Cardinality(Of(t)) \in Nat
  <1>1. Of(t) \subseteq rows
    BY DEF Of
  <1> QED
    BY <1>1, FS_Subset, FS_CardinalityType

LEMMA MergedFacts ==
  ASSUME NEW r, RightRow(r), NEW p \in Payloads
  PROVE  /\ Merged(r, p) \in RowType /\ Merged(r, p).table = r.table /\ Merged(r, p).id = r.id
         /\ Merged(r, p).start \in DatesOf(r.table) /\ Merged(r, p).end \in DatesOf(r.table)
  <1> DEFINE v == Or(p.value, r.value)
             b == Or(p.start, r.start)
             e == Or(p.end, r.end)
  <1>1. r \in RowType /\ p.value \in Values \cup {0} /\ p.start \in Days \cup {0} /\ p.end \in Days \cup {0}
    BY PayloadsAreForms DEF RightRow
  <1>2. v \in Values
    BY <1>1 DEF Or, None, RowType
  <1>3. b \in DatesOf(r.table) /\ e \in DatesOf(r.table)
    BY <1>1 DEF RightRow, Or, None, DatesOf
  <1>4. b \in Days \cup {None} /\ e \in Days \cup {None}
    BY <1>3 DEF DatesOf
  <1>5. Merged(r, p) = [r EXCEPT !.value = v, !.start = b, !.end = e]
    BY <1>1 DEF Merged, RowType
  <1> HIDE DEF v, b, e
  <1> QED
    BY <1>1, <1>2, <1>3, <1>4, <1>5 DEF RowType

\* A call that ends without an edit.
LEMMA FinishKeeps ==
  ASSUME BudgetInv, NEW c \in Calls, Finish(c), UNCHANGED tables,
         raced' = raced \/ raced' = raced \ {c}
  PROVE  BudgetInv'
  <1>1. rows' = rows /\ audit' = audit /\ Idle.pc = "idle"
    BY DEF tables, Idle
  <1>2. call'[c] = Idle /\ \A d \in Calls \ {c} : call'[d] = call[d] /\ (d \in raced' <=> d \in raced)
    BY DEF Finish, BudgetInv, CallsRight
  <1>3. CallsRight'
    BY <1>1, <1>2 DEF Finish, BudgetInv, CallsRight, Knows
  <1> QED
    BY <1>1, <1>3 DEF BudgetInv, RowsRight, Of, LogTellsTheChange

LEMMA ReadKeeps ==
  ASSUME BudgetInv, NEW c \in Calls, NEW t \in Tables, NEW i \in Ids, NEW p \in Payloads, Read(c, t, i, p)
  PROVE  BudgetInv'
  <1> DEFINE current == get_by_id(t, i)
             s == [pc |-> "read", table |-> t, id |-> i, old |-> current.value, payload |-> p]
  <1>1. current \in rows /\ current.table = t /\ current.id = i
    BY GetFacts DEF Read, BudgetInv
  <1>2. current.value \in Values
    BY <1>1 DEF BudgetInv, RowsRight, RightRow, RowType
  <1>3. s \in Reading /\ s.pc = "read" /\ s.table = t /\ s.id = i /\ s.old = current.value
    BY <1>2 DEF Reading
  <1>4. UNCHANGED tables /\ raced' = raced /\ (Finish(c) \/ call' = [call EXCEPT ![c] = s])
    BY DEF Read
  <1> HIDE DEF s, current
  <1>5. CASE Finish(c)
    BY <1>4, <1>5, FinishKeeps
  <1>6. CASE call' = [call EXCEPT ![c] = s]
    <2>1. rows' = rows /\ audit' = audit
      BY <1>4 DEF tables
    <2>2. call'[c] = s /\ \A d \in Calls \ {c} : call'[d] = call[d]
      BY <1>6 DEF BudgetInv, CallsRight
    <2>3. CallsRight'
      BY <1>1, <1>3, <1>4, <1>6, <2>1, <2>2 DEF BudgetInv, CallsRight, Knows
    <2> QED
      BY <1>4, <2>1, <2>3 DEF BudgetInv, RowsRight, Of, LogTellsTheChange
  <1> QED
    BY <1>4, <1>5, <1>6

LEMMA CreateKeeps ==
  ASSUME BudgetInv, NEW c \in Calls, NEW t \in Tables, NEW v \in Values,
         NEW start \in DatesOf(t), NEW end \in DatesOf(t), Create(c, t, v, start, end)
  PROVE  BudgetInv'
  <1> DEFINE n == Cardinality(Of(t)) + 1
             r == Row(t, n, v, start, end)
  <1>1. Cardinality(Of(t)) \in Nat /\ IsFiniteSet(rows) /\ IsFiniteSet(Of(t))
    BY OfFacts DEF BudgetInv, RowsRight
  <1>2. n \in Ids /\ n > Cardinality(Of(t))
    BY <1>1, RowsFit DEF Create, Ids
  <1>3. start \in Days \cup {None} /\ end \in Days \cup {None} /\ start \in Nat /\ end \in Nat
    BY NumberFacts DEF DatesOf
  <1>4. rows' = rows \cup {r} /\ Finish(c) /\ audit' = audit /\ raced' = raced
    BY DEF Create, Insert
  <1>5. /\ r \in RowType /\ r.table = t /\ r.id = n /\ r.start = start /\ r.end = end
        /\ CheckHolds(r)
    BY <1>2, <1>3 DEF Row, RowType, CheckHolds, Create, _check_dates
  <1> HIDE DEF n, r
  <1>6. \A q \in rows : q.table = t => q.id # n
    BY <1>1, <1>2, NumberFacts DEF BudgetInv, RowsRight, RightRow, RowType
  <1>7. r \notin rows /\ IsFiniteSet(rows')
    BY <1>1, <1>4, <1>5, <1>6, FS_AddElement
  <1>8. Of(t)' = Of(t) \cup {r} /\ \A u : u # t => Of(u)' = Of(u)
    BY <1>4, <1>5 DEF Of
  <1>9. Cardinality(Of(t)') = n
    BY <1>1, <1>7, <1>8, FS_AddElement DEF Of, n
  <1>10. RowsRight'
    <2>1. \A q \in rows' : RightRow(q)
      BY <1>4, <1>5 DEF RightRow, BudgetInv, RowsRight
    <2>2. \A q, s \in rows' : q.table = s.table /\ q.id = s.id => q = s
      BY <1>4, <1>5, <1>6 DEF BudgetInv, RowsRight
    <2>3. ASSUME NEW q \in rows' PROVE q.id <= Cardinality(Of(q.table)')
      <3>1. CASE q = r
        BY <1>2, <1>5, <1>9, <3>1, NumberFacts
      <3>2. CASE q \in rows /\ q.table = t
        <4>1. q.id <= Cardinality(Of(t)) /\ q.id \in Ids
          BY <3>2 DEF BudgetInv, RowsRight, RightRow, RowType
        <4>2. q.id \in Nat /\ n \in Nat
          BY <1>2, <4>1, NumberFacts
        <4> QED
          BY <1>1, <1>2, <1>9, <3>2, <4>1, <4>2
      <3>3. CASE q \in rows /\ q.table # t
        BY <1>8, <3>3 DEF BudgetInv, RowsRight
      <3> QED
        BY <1>4, <3>1, <3>2, <3>3
    <2> QED
      BY <1>7, <2>1, <2>2, <2>3 DEF RowsRight, Of, RightRow, CheckHolds, DatesOf
  <1>11. CallsRight'
    <2>1. Idle.pc = "idle" /\ call'[c] = Idle /\ \A d \in Calls \ {c} : call'[d] = call[d]
      BY <1>4 DEF Finish, BudgetInv, CallsRight, Idle
    <2> QED
      BY <1>4, <2>1 DEF Finish, BudgetInv, CallsRight, Knows
  <1> QED
    BY <1>4, <1>10, <1>11 DEF BudgetInv, LogTellsTheChange

\* The row stays the one of its number, and whoever has read it is noted.
LEMMA UpdateKeeps ==
  ASSUME BudgetInv, NEW c \in Calls, Update(c)
  PROVE  BudgetInv'
  <1>1. PICK t \in Tables, i \in Ids, p \in Payloads :
          t = call[c].table /\ i = call[c].id /\ p = call[c].payload
    BY DEF Update, BudgetInv, CallsRight, Idle, Reading
  <1>2. PICK was \in rows : was = get_by_id(t, i) /\ was.table = t /\ was.id = i
          /\ (c \notin raced => was.value = call[c].old)
    <2>1. PICK r \in rows : r.table = t /\ r.id = i /\ (c \notin raced => r.value = call[c].old)
      BY <1>1 DEF Update, BudgetInv, CallsRight, Knows
    <2>2. Exists(t, i)
      BY <2>1 DEF Exists, Of
    <2> QED
      BY <2>1, <2>2, GetFacts DEF BudgetInv
  <1>3. PICK r : r = Merged(was, p)
    OBVIOUS
  <1>4. CASE ~Checked(r)
    <2>1. Refuse(c)
      BY <1>1, <1>2, <1>3, <1>4 DEF Update
    <2> QED
      BY <2>1, FinishKeeps DEF Refuse
  <1>5. CASE Checked(r)
    <2>1. /\ Replace(was, r) /\ audit' = Entry(c, was, r)
          /\ raced' = (raced \cup Readers(r)) \ {c} /\ Finish(c)
      BY <1>1, <1>2, <1>3, <1>5 DEF Update
    <2>2. RightRow(was)
      BY <1>2 DEF BudgetInv, RowsRight
    <2>3. RightRow(r) /\ r.table = t /\ r.id = i
      BY <1>2, <1>3, <1>5, <2>2, MergedFacts DEF RightRow, Checked
    <2>4. rows' = (rows \ {was}) \cup {r} /\ IsFiniteSet(rows)
      BY <2>1 DEF Replace, BudgetInv, RowsRight
    <2>5. \A q \in rows \ {was} : ~(q.table = t /\ q.id = i)
      BY <1>2 DEF BudgetInv, RowsRight
    <2>6. r \notin rows \ {was}
      BY <2>3, <2>5
    <2>7. IsFiniteSet(rows')
      BY <2>4, FS_RemoveElement, FS_AddElement
    <2>8. \A u : u # t => Of(u)' = Of(u)
      BY <1>2, <2>3, <2>4 DEF Of
    <2>9. Cardinality(Of(t)') = Cardinality(Of(t))
      <3>1. Of(t)' = (Of(t) \ {was}) \cup {r} /\ was \in Of(t) /\ r \notin Of(t) \ {was}
        BY <1>2, <2>3, <2>4, <2>6 DEF Of
      <3>2. IsFiniteSet(Of(t)) /\ Cardinality(Of(t)) \in Nat
        BY <2>4, OfFacts
      <3>3. IsFiniteSet(Of(t) \ {was}) /\ Cardinality(Of(t) \ {was}) = Cardinality(Of(t)) - 1
        BY <3>1, <3>2, FS_RemoveElement
      <3>4. Cardinality((Of(t) \ {was}) \cup {r}) = Cardinality(Of(t) \ {was}) + 1
        BY <3>1, <3>3, FS_AddElement
      <3> QED
        BY <3>1, <3>2, <3>3, <3>4
    <2>10. RowsRight'
      <3>1. \A q \in rows' : RightRow(q)
        BY <2>3, <2>4 DEF BudgetInv, RowsRight
      <3>2. \A q, s \in rows' : q.table = s.table /\ q.id = s.id => q = s
        BY <2>3, <2>4, <2>5 DEF BudgetInv, RowsRight
      <3>3. \A q \in rows' : q.id <= Cardinality(Of(q.table)')
        BY <1>2, <2>3, <2>4, <2>8, <2>9 DEF BudgetInv, RowsRight
      <3> QED
        BY <2>7, <3>1, <3>2, <3>3 DEF RowsRight, Of, RightRow, CheckHolds, DatesOf
    <2>11. Idle.pc = "idle" /\ call'[c] = Idle /\ \A d \in Calls \ {c} : call'[d] = call[d]
      BY <2>1 DEF Finish, BudgetInv, CallsRight, Idle
    <2>12. ASSUME NEW d \in Calls \ {c} PROVE Knows(d, call[d])'
      <3> SUFFICES ASSUME call[d].pc = "read"
                   PROVE  \E q \in rows' : /\ q.table = call[d].table /\ q.id = call[d].id
                                           /\ d \notin raced' => q.value = call[d].old
        BY <2>11 DEF Knows
      <3>1. PICK q \in rows : /\ q.table = call[d].table /\ q.id = call[d].id
                              /\ d \notin raced => q.value = call[d].old
        BY DEF BudgetInv, CallsRight, Knows
      <3>2. CASE q = was
        <4>1. d \in raced'
          BY <1>2, <2>1, <2>3, <3>1, <3>2 DEF Readers
        <4> QED
          BY <1>2, <2>3, <2>4, <3>1, <3>2, <4>1
      <3>3. CASE q # was
        <4>1. d \notin raced' => d \notin raced
          BY <2>1
        <4> QED
          BY <2>4, <3>1, <3>3, <4>1
      <3> QED
        BY <3>2, <3>3
    <2>13. CallsRight'
      <3>1. call' \in [Calls -> {Idle} \cup Reading]
        BY <2>1 DEF Finish, BudgetInv, CallsRight
      <3>2. Knows(c, call[c])'
        BY <2>11 DEF Knows
      <3> QED
        BY <2>12, <3>1, <3>2 DEF CallsRight
    <2>14. LogTellsTheChange'
      <3>1. audit'.old = call[c].old /\ audit'.was = was.value /\ (audit'.raced <=> c \in raced)
        BY <2>1 DEF Entry
      <3> QED
        BY <1>2, <3>1 DEF LogTellsTheChange
    <2>15. raced' \subseteq Calls
      BY <2>1 DEF BudgetInv, Readers
    <2> QED
      BY <2>10, <2>13, <2>14, <2>15 DEF BudgetInv
  <1> QED
    BY <1>4, <1>5

LEMMA BudgetNextKeeps ==
  ASSUME BudgetInv, BudgetNext
  PROVE  BudgetInv'
  <1>1. PICK c \in Calls :
          \/ \E t \in Tables, v \in Values : \E start, end \in DatesOf(t) : Create(c, t, v, start, end)
          \/ \E t \in Tables, i \in Ids, p \in Payloads : Read(c, t, i, p)
          \/ Update(c) \/ GiveUp(c)
    BY DEF BudgetNext
  <1>2. CASE GiveUp(c)
    BY <1>2, FinishKeeps DEF GiveUp, Refuse
  <1> QED
    BY <1>1, <1>2, CreateKeeps, ReadKeeps, UpdateKeeps

-----------------------------------------------------------------------------
LEMMA InitBudgetInv == Init => BudgetInv
  <1> SUFFICES ASSUME Init PROVE BudgetInv
    OBVIOUS
  <1>1. LogTellsTheChange /\ raced \subseteq Calls
    BY DEF Init, NoEntry, LogTellsTheChange
  <1>2. CallsRight
    BY DEF Init, CallsRight, Knows, Idle
  <1>3. CASE rows = {}
    BY <1>1, <1>2, <1>3, FS_EmptySet DEF BudgetInv, RowsRight
  <1>4. ASSUME NEW v \in Values, NEW d1 \in Days, NEW n1 \in Days,
               NEW d2 \in Days \cup {None}, NEW n2 \in Days \cup {None},
               rows = {Row("budgets", 1, v, d1, n1), Row("projects", 1, v, d2, n2)}
        PROVE  RowsRight
    <2> DEFINE b == Row("budgets", 1, v, d1, n1)
               p == Row("projects", 1, v, d2, n2)
    <2>1. \A r \in rows : CheckHolds(r)
      BY DEF Init
    <2>2. 1 \in Ids /\ "budgets" \in Tables /\ "projects" \in Tables
      BY RowsFit DEF Ids, Tables
    <2>3. /\ b \in RowType /\ b.table = "budgets" /\ b.id = 1 /\ b.start \in Days /\ b.end \in Days
          /\ p \in RowType /\ p.table = "projects" /\ p.id = 1
          /\ p.start \in Days \cup {None} /\ p.end \in Days \cup {None}
      BY <2>2 DEF Row, RowType
    <2> HIDE DEF b, p
    <2>4. rows = {b, p}
      BY <1>4 DEF b, p
    <2>5. RightRow(b) /\ RightRow(p)
      BY <2>1, <2>3, <2>4 DEF RightRow, DatesOf
    <2>6. IsFiniteSet(rows)
      <3>1. IsFiniteSet({b}) /\ rows = {b} \cup {p}
        BY <2>4, FS_Singleton
      <3> QED
        BY <3>1, FS_AddElement
    <2>7. Of("budgets") = {b} /\ Of("projects") = {p}
      BY <2>3, <2>4 DEF Of
    <2>8. Cardinality(Of("budgets")) = 1 /\ Cardinality(Of("projects")) = 1
      BY <2>7, FS_Singleton
    <2> QED
      BY <2>3, <2>4, <2>5, <2>6, <2>8 DEF RowsRight
  <1>5. RowsRight
    <2>1. rows \in Seeds
      BY DEF Init
    <2> QED
      BY <1>3, <1>4, <2>1 DEF Seeds, BudgetInv
  <1> QED
    BY <1>1, <1>2, <1>5 DEF BudgetInv

\* A claim is reimbursed by the payment of its payout.
ClaimsRight ==
  /\ status \in [Claims -> Statuses \cup {"absent"}]
  /\ payout \in [Claims -> PayoutStatuses \cup {"absent"}]
  /\ \A e \in Claims : status[e] = "reimbursed" => payout[e] = "paid"

LEMMA MoveKeepsClaims ==
  ASSUME ClaimsRight, NEW e \in Claims, NEW s \in Statuses, Move(e, s)
  PROVE  ClaimsRight'
  <1>1. s \in EXPENSE_TRANSITIONS[status[e]] /\ status' = [status EXCEPT ![e] = s]
    BY DEF Move
  <1>2. payout' = IF s = "reimbursed" THEN [payout EXCEPT ![e] = "paid"] ELSE payout
    BY DEF Move
  <1>3. status'[e] = s /\ \A d \in Claims \ {e} : status'[d] = status[d]
    BY <1>1 DEF ClaimsRight
  <1>4. /\ s = "reimbursed" => payout'[e] = "paid"
        /\ \A d \in Claims : payout'[d] = payout[d] \/ payout'[d] = "paid"
    BY <1>2 DEF ClaimsRight
  <1>5. status' \in [Claims -> Statuses \cup {"absent"}]
    BY <1>1 DEF ClaimsRight
  <1>6. payout' \in [Claims -> PayoutStatuses \cup {"absent"}]
    BY <1>2 DEF ClaimsRight, PayoutStatuses
  <1> QED
    BY <1>3, <1>4, <1>5, <1>6 DEF ClaimsRight

LEMMA MovePayoutKeepsClaims ==
  ASSUME ClaimsRight, NEW e \in Claims, NEW s \in PayoutStatuses, MovePayout(e, s)
  PROVE  ClaimsRight' /\ payout[e] # "paid"
  <1>1. s \in REIMBURSEMENT_TRANSITIONS[payout[e]] /\ payout' = [payout EXCEPT ![e] = s] /\ status' = status
    BY DEF MovePayout
  <1>2. payout[e] # "paid"
    BY <1>1 DEF REIMBURSEMENT_TRANSITIONS
  <1>3. payout' \in [Claims -> PayoutStatuses \cup {"absent"}] /\ \A d \in Claims \ {e} : payout'[d] = payout[d]
    BY <1>1 DEF ClaimsRight
  <1> QED
    BY <1>1, <1>2, <1>3 DEF ClaimsRight

LEMMA NextBudgetInv == BudgetInv /\ ClaimsRight /\ [Next]_vars => BudgetInv' /\ ClaimsRight'
  <1> SUFFICES ASSUME BudgetInv, ClaimsRight, [Next]_vars PROVE BudgetInv' /\ ClaimsRight'
    OBVIOUS
  <1>1. CASE UNCHANGED budgetVars
    <2>1. BudgetInv'
      BY <1>1 DEF budgetVars, BudgetInv, RowsRight, CallsRight, Knows, Of, LogTellsTheChange
    <2>2. \/ UNCHANGED claimVars
          \/ \E e \in Claims, s \in Statuses : Move(e, s)
          \/ \E e \in Claims, s \in PayoutStatuses : MovePayout(e, s)
      BY DEF Next, vars, Edit, Notice, Execute, Answer, Ask
    <2>3. ASSUME UNCHANGED claimVars PROVE ClaimsRight'
      BY <2>3 DEF ClaimsRight, claimVars
    <2>4. ClaimsRight'
      BY <2>2, <2>3, MoveKeepsClaims, MovePayoutKeepsClaims
    <2> QED
      BY <2>1, <2>4
  <1>2. CASE Edit
    BY <1>2, BudgetNextKeeps DEF Edit, Notice, ClaimsRight, claimVars
  <1> QED
    BY <1>1, <1>2 DEF Next, vars, Execute, Answer, Ask, Move, MovePayout

THEOREM BudgetInvariant == Spec => [](BudgetInv /\ ClaimsRight)
  <1>1. AnalyticsInit => BudgetInv /\ ClaimsRight
    BY InitBudgetInv DEF AnalyticsInit, ClaimsRight
  <1> QED
    BY <1>1, NextBudgetInv, PTL DEF Spec

(* A period that is given has its dates in order, whoever sends which end of
   it at once: the CHECK sees the pair that two edits make together. *)
THEOREM PeriodsStayInOrder == Spec => []PeriodsInOrder
  <1>1. ASSUME BudgetInv, ClaimsRight PROVE PeriodsInOrder
    <2>1. \A r \in rows : RightRow(r) /\ r \in RowType
      BY <1>1 DEF BudgetInv, RowsRight, RightRow
    <2>2. \A c \in Calls : call[c].pc \in {"idle", "read"}
      BY <1>1 DEF BudgetInv, CallsRight, Reading, Idle
    <2>3. TypeOK
      BY <1>1, <2>1, <2>2 DEF TypeOK, RightRow, RowType, BudgetInv, RowsRight, ClaimsRight
    <2>4. \A r \in rows : r.start # None /\ r.end # None => r.start < r.end
      BY <2>1, NumberFacts DEF RightRow, CheckHolds, RowType
    <2> QED
      BY <2>3, <2>4 DEF PeriodsInOrder
  <1> QED
    BY <1>1, BudgetInvariant, PTL

(* The log tells what an edit replaced, unless another edit of the row came
   between the read and the update (update_budget, update_project). *)
THEOREM LogIsTrue == Spec => []LogTellsTheChange
  <1>1. BudgetInv => LogTellsTheChange
    BY DEF BudgetInv
  <1> QED
    BY <1>1, BudgetInvariant, PTL

-----------------------------------------------------------------------------
\* Division, and the calendar.
LEMMA DivBounds ==
  ASSUME NEW d \in Nat \ {0}, NEW n \in Int
  PROVE  /\ n \div d \in Int
         /\ (n \div d) * d <= n
         /\ n < (n \div d) * d + d
  OBVIOUS

LEMMA MulOrder ==
  ASSUME NEW d \in Nat \ {0}, NEW a \in Int, NEW b \in Int, a < b
  PROVE  a * d + d <= b * d
  <1>1. (b - a - 1) * d >= 0
    OBVIOUS
  <1> QED BY <1>1

LEMMA DivUnique ==
  ASSUME NEW d \in Nat \ {0}, NEW n \in Int, NEW q \in Int, q * d <= n, n < q * d + d
  PROVE  n \div d = q
  <1>1. PICK p \in Int : p = n \div d /\ p * d <= n /\ n < p * d + d
    BY DivBounds
  <1>2. CASE p < q
    BY <1>1, <1>2, MulOrder
  <1>3. CASE q < p
    BY <1>1, <1>3, MulOrder
  <1> QED BY <1>1, <1>2, <1>3

LEMMA Twelve ==
  ASSUME NEW i \in Int
  PROVE  i \div 12 \in Int /\ i % 12 \in 0 .. 11 /\ i = (i \div 12) * 12 + (i % 12)
  OBVIOUS

\* The number of a month, and of its first day.
LEMMA FirstDayIs ==
  ASSUME NEW i \in Int
  PROVE  FirstDay(i) = i * DaysInMonth /\ FirstDay(i) \in Int
  <1>1. (i \div 12) * 12 + ((i % 12) + 1) - 1 = i
    BY Twelve
  <1>2. i * DaysInMonth \in Int
    BY CalendarIsSane
  <1>3. FirstDay(i) = ((i \div 12) * 12 + ((i % 12) + 1) - 1) * DaysInMonth + 1 - 1
    BY DEF FirstDay, date
  <1> QED BY <1>1, <1>2, <1>3

LEMMA MonthIndexIs ==
  ASSUME NEW n \in Int
  PROVE  /\ MonthIndex(n) = n \div DaysInMonth /\ MonthIndex(n) \in Int
         /\ Year(n) \in Int /\ Month(n) \in 1 .. 12
         /\ Year(n) * 12 + Month(n) - 1 = MonthIndex(n)
  <1>1. PICK d \in Nat \ {0} : d = DaysInMonth
    BY CalendarIsSane
  <1>2. PICK q \in Int : q = n \div d /\ q * d <= n /\ n < q * d + d
    BY DivBounds
  <1>3. PICK y \in Int, r \in 0 .. 11 : y = q \div 12 /\ r = q % 12 /\ q = y * 12 + r
    BY Twelve
  <1>4. 12 * d \in Nat \ {0}
    OBVIOUS
  <1>5. y * (12 * d) <= n /\ n < y * (12 * d) + 12 * d
    <2>1. PICK z \in Int, w \in Int, a \in Int, b \in Int :
            z = y * d /\ w = r * d /\ a = q * d /\ b = y * (12 * d)
      OBVIOUS
    <2>2. b = 12 * z
      BY <2>1
    <2>3. a = 12 * z + w
      BY <1>3, <2>1
    <2>4. w >= 0 /\ w + d <= 12 * d
      BY <1>3, <2>1, MulOrder
    <2>5. a <= n /\ n < a + d
      BY <1>2, <2>1
    <2>6. b <= n /\ n < b + 12 * d
      BY <2>2, <2>3, <2>4, <2>5
    <2> QED BY <2>1, <2>6
  <1>6. n \div (12 * d) = y
    BY <1>4, <1>5, DivUnique
  <1>7. Year(n) = y /\ Month(n) = r + 1
    BY <1>1, <1>2, <1>3, <1>6 DEF Year, Month
  <1> QED BY <1>1, <1>2, <1>3, <1>7 DEF MonthIndex

\* The days of a month.
LEMMA MonthDays ==
  ASSUME NEW n \in Int, NEW k \in Int
  PROVE  MonthIndex(n) = k <=> k * DaysInMonth <= n /\ n < k * DaysInMonth + DaysInMonth
  <1>1. PICK d \in Nat \ {0} : d = DaysInMonth
    BY CalendarIsSane
  <1>2. MonthIndex(n) = n \div d
    BY <1>1, MonthIndexIs
  <1>3. (n \div d) * d <= n /\ n < (n \div d) * d + d
    BY DivBounds
  <1>4. k * d <= n /\ n < k * d + d => n \div d = k
    BY DivUnique
  <1> QED BY <1>1, <1>2, <1>3, <1>4

LEMMA NextDays ==
  ASSUME NEW k \in Int
  PROVE  (k + 1) * DaysInMonth = k * DaysInMonth + DaysInMonth /\ k * DaysInMonth \in Int
         /\ DaysInMonth \in Nat \ {0}
  BY CalendarIsSane

LEMMA MonthWindowIs ==
  ASSUME NEW y \in Nat, NEW m \in 1 .. 12
  PROVE  LET k == y * 12 + m - 1
         IN /\ _month_window(y, m).start = k * DaysInMonth
            /\ _month_window(y, m).end = k * DaysInMonth + DaysInMonth
  <1> DEFINE k == y * 12 + m - 1
  <1>1. date(y, m, 1) = k * DaysInMonth + 1 - 1 /\ k \in Int
    BY DEF date
  <1>2. date(y + 1, 1, 1) = ((y + 1) * 12 + 1 - 1) * DaysInMonth + 1 - 1
    BY DEF date
  <1>3. date(y, m + 1, 1) = (y * 12 + (m + 1) - 1) * DaysInMonth + 1 - 1
    BY DEF date
  <1>4. m = 12 => (y + 1) * 12 + 1 - 1 = k + 1
    OBVIOUS
  <1>5. y * 12 + (m + 1) - 1 = k + 1 /\ y + 0 = y
    OBVIOUS
  <1> HIDE DEF k
  <1>6. /\ k * DaysInMonth + 1 - 1 = k * DaysInMonth
        /\ (k + 1) * DaysInMonth + 1 - 1 = k * DaysInMonth + DaysInMonth
    BY <1>1, NextDays
  <1>7. _month_window(y, m).start = date(y, m, 1)
    BY DEF _month_window
  <1>8. _month_window(y, m).end = IF m = 12 THEN date(y + 1, 1, 1) ELSE date(y, m + 1, 1)
    BY <1>5 DEF _month_window
  <1>9. /\ _month_window(y, m).start = k * DaysInMonth
        /\ _month_window(y, m).end = k * DaysInMonth + DaysInMonth
    BY <1>1, <1>2, <1>3, <1>4, <1>5, <1>6, <1>7, <1>8
  <1> QED BY <1>9 DEF k

\* A period with a day in a month.
LEMMA Meets ==
  ASSUME NEW a \in Int, NEW b \in Int, NEW lo \in Int, NEW hi \in Int, a <= b, lo < hi
  PROVE  b >= lo /\ a < hi <=> \E n \in a .. b : lo <= n /\ n < hi
  <1>1. CASE a < lo
    <2>1. b >= lo => lo \in a .. b
      BY <1>1
    <2> QED BY <1>1, <2>1
  <1>2. CASE a >= lo
    <2>1. a \in a .. b
      OBVIOUS
    <2> QED BY <1>2, <2>1
  <1> QED BY <1>1, <1>2

LEMMA BudgetDates ==
  ASSUME BudgetInv, NEW b \in Of("budgets")
  PROVE  b.start \in Int /\ b.end \in Int /\ b.start < b.end
  <1>1. b \in rows /\ b.table = "budgets" /\ RightRow(b)
    BY DEF Of, BudgetInv, RowsRight
  <1>2. b.start \in Days /\ b.end \in Days
    BY <1>1 DEF RightRow, DatesOf
  <1>3. PICK x \in Nat, y \in Nat : x = b.start /\ y = b.end /\ x # None /\ y # None
    BY <1>2, NumberFacts
  <1>4. y > x
    BY <1>1, <1>3 DEF RightRow, CheckHolds
  <1> QED
    BY <1>3, <1>4

LEMMA OneMonth ==
  ASSUME NEW y \in Int, NEW i \in 1 .. 12, NEW u \in Int, NEW v \in 1 .. 12, u * 12 + v = y * 12 + i
  PROVE  u = y /\ v = i
  <1>1. u < y \/ u = y \/ u > y
    OBVIOUS
  <1>2. u < y => u * 12 + 12 <= y * 12
    OBVIOUS
  <1>3. u > y => y * 12 + 12 <= u * 12
    OBVIOUS
  <1>4. v >= 1 /\ v <= 12 /\ i >= 1 /\ i <= 12
    OBVIOUS
  <1> QED BY <1>1, <1>2, <1>3, <1>4

LEMMA MonthsList ==
  ASSUME BudgetInv
  PROVE  MonthListsItsBudgets
  <1> SUFFICES ASSUME NEW m \in Months, NEW b \in Of("budgets")
        PROVE InWindow(b, _month_window(m[1], m[2]))
                <=> \E n \in b.start .. b.end : Year(n) = m[1] /\ Month(n) = m[2]
    BY DEF MonthListsItsBudgets, list_by_org
  <1>1. PICK y \in Nat, i \in 1 .. 12 : m[1] = y /\ m[2] = i
    BY MonthsAreMonths
  <1>2. PICK k \in Int : k = y * 12 + i - 1
    OBVIOUS
  <1>3. PICK lo \in Int, d \in Nat \ {0} : lo = k * DaysInMonth /\ d = DaysInMonth
    BY NextDays
  <1>4. _month_window(y, i).start = lo /\ _month_window(y, i).end = lo + d
    BY <1>2, <1>3, MonthWindowIs
  <1>5. PICK a \in Int, z \in Int : a = b.start /\ z = b.end /\ a < z
    BY BudgetDates
  <1>6. ASSUME NEW n \in Int
        PROVE (Year(n) = y /\ Month(n) = i) <=> (lo <= n /\ n < lo + d)
    <2>1. PICK u \in Int, v \in 1 .. 12 : u = Year(n) /\ v = Month(n) /\ u * 12 + v - 1 = MonthIndex(n)
      BY MonthIndexIs
    <2>2. u * 12 + v - 1 = y * 12 + i - 1 => u * 12 + v = y * 12 + i
      OBVIOUS
    <2>3. MonthIndex(n) = k <=> u = y /\ v = i
      BY <1>2, <2>1, <2>2, OneMonth
    <2> QED BY <1>3, <2>1, <2>3, MonthDays
  <1>7. InWindow(b, _month_window(y, i)) <=> z >= lo /\ a < lo + d
    BY <1>4, <1>5 DEF InWindow
  <1>8. (z >= lo /\ a < lo + d) <=> \E n \in a .. z : lo <= n /\ n < lo + d
    BY <1>5, Meets
  <1>9. \A n \in a .. z : n \in Int
    OBVIOUS
  <1> QED BY <1>1, <1>5, <1>6, <1>7, <1>8, <1>9

\* The months of a report that starts on the first day of the sixth month.
LEMMA SixMonths ==
  ASSUME NEW w, NEW last \in Int, MonthIndex(w.end) = last, MonthIndex(w.start) = last - 5
  PROVE  Cardinality(MonthsOf(w)) = 6
  <1> DEFINE S == last - 5 .. last
             f == [i \in S |-> FirstDay(i)]
  <1>1. IsFiniteSet(S) /\ Cardinality(S) = 6
    BY FS_Interval
  <1>2. MonthsOf(w) = {FirstDay(i) : i \in S}
    BY DEF MonthsOf
  <1>3. \A i, j \in S : FirstDay(i) = FirstDay(j) => i = j
    <2> SUFFICES ASSUME NEW i \in S, NEW j \in S, FirstDay(i) = FirstDay(j) PROVE i = j
      OBVIOUS
    <2>1. i \in Int /\ j \in Int
      OBVIOUS
    <2>2. PICK a \in Int, b \in Int, d \in Nat \ {0} :
            a = i * DaysInMonth /\ b = j * DaysInMonth /\ d = DaysInMonth
      BY <2>1, NextDays
    <2>3. a = b
      BY <2>1, <2>2, FirstDayIs
    <2>4. (i < j => a + d <= b) /\ (j < i => b + d <= a)
      BY <2>1, <2>2, MulOrder
    <2> QED BY <2>1, <2>2, <2>3, <2>4
  <1> HIDE DEF S
  <1>4. f \in Bijection(S, MonthsOf(w))
    BY <1>2, <1>3 DEF Bijection, Injection, Surjection, IsInjective
  <1>5. ExistsBijection(S, MonthsOf(w))
    BY <1>4 DEF ExistsBijection
  <1> QED BY <1>1, <1>5, FS_Bijection

WindowIsRight ==
  report # Closed =>
    /\ report.window.start \in Int /\ report.window.end \in Int
    /\ report.window.start <= report.window.end

LEMMA WindowFits ==
  ASSUME WindowIsRight
  PROVE  WindowsFit
  <1> SUFFICES ASSUME report # Closed PROVE WindowsFit
    BY DEF WindowsFit
  <1>1. PICK w : w = report.window
    OBVIOUS
  <1>2. PICK s \in Int, e \in Int : s = w.start /\ e = w.end
    BY <1>1 DEF WindowIsRight
  <1>3. PICK p : p = _previous_window(w)
    OBVIOUS
  <1>4. p.start = s - 1 - ((e - s + 1) - 1) /\ p.end = s - 1
    BY <1>2, <1>3 DEF _previous_window
  <1>5. p.end + 1 = s /\ p.end - p.start = e - s
    BY <1>4
  <1>6. ASSUME s = DefaultStart(e) PROVE Cardinality(MonthsOf(w)) = 6 /\ s = FirstOfMonth(s)
    <2>1. PICK last \in Int : last = MonthIndex(e)
      BY MonthIndexIs
    <2>2. last - 5 \in Int
      OBVIOUS
    <2>3. s = (last - 5) * DaysInMonth
      BY <1>6, <2>1, <2>2, FirstDayIs DEF DefaultStart
    <2>4. MonthIndex(s) = last - 5
      <3>1. PICK k \in Int, m \in Int, d \in Nat \ {0} :
              k = last - 5 /\ m = k * DaysInMonth /\ d = DaysInMonth
        BY <2>2, NextDays
      <3>2. s = m /\ m <= s /\ s < m + d
        BY <2>3, <3>1
      <3> QED BY <3>1, <3>2, MonthDays
    <2>5. Cardinality(MonthsOf(w)) = 6
      BY <1>2, <2>1, <2>4, SixMonths
    <2>6. FirstOfMonth(s) = (Year(s) * 12 + Month(s) - 1) * DaysInMonth + 1 - 1
      BY DEF FirstOfMonth, date
    <2>7. FirstOfMonth(s) = (last - 5) * DaysInMonth + 1 - 1
      BY <2>4, <2>6, MonthIndexIs
    <2> QED BY <2>2, <2>3, <2>5, <2>7
  <1> QED BY <1>1, <1>2, <1>3, <1>5, <1>6 DEF WindowsFit

-----------------------------------------------------------------------------
\* What the statements return.
Spent(w, who) == Spend(Within(w, who))
SlicesOf(f) == UNION {f[v] : v \in DOMAIN f}
ClaimsOf(f) == UNION {f[m].claims : m \in DOMAIN f}
BudgetsOf(f) == UNION {f[m].budgets : m \in DOMAIN f}
InPeriod(w, claims) == {e \in claims : Attributes[e].day \in w.start .. w.end}

LEMMA Headline ==
  ASSUME NEW w, NEW who
  PROVE  SpendOf(summary(w, who)) = Spent(w, who)
  BY DEF SpendOf, summary, ByStatus, Statuses, SpendStatuses, Spent, Spend

\* A chart shows the slices with fewer than its limit above them.
LEMMA ChartIs ==
  ASSUME NEW n, NEW S, NEW f, f = Chart(n, S)
  PROVE  \E slices :
           /\ DOMAIN slices = Keys(n, S) /\ \A v \in Keys(n, S) : slices[v] = Of_(n, v, S)
           /\ \A u \in Keys(n, S) : u \in DOMAIN f <=> Cardinality(Above(slices, u)) < ChartLimit[n]
           /\ \A v \in DOMAIN f : v \in Keys(n, S) /\ f[v] = Of_(n, v, S)
  <1>1. PICK slices : slices = [v \in Keys(n, S) |-> Of_(n, v, S)]
    OBVIOUS
  <1>2. By(LAMBDA e : Key(n, e), S) = slices
    BY <1>1 DEF By, Keys, Of_
  <1>3. f = Top(slices, ChartLimit[n])
    BY <1>2 DEF Chart
  <1>4. DOMAIN slices = Keys(n, S) /\ \A v \in Keys(n, S) : slices[v] = Of_(n, v, S)
    BY <1>1
  <1>5. f = [v \in {u \in DOMAIN slices : Cardinality(Above(slices, u)) < ChartLimit[n]} |-> slices[v]]
    BY <1>3 DEF Top
  <1> QED
    BY <1>4, <1>5

\* What the chart n leaves out of the claims `spent`.
Lost(n, e, f, spent, w, who) ==
  /\ Cardinality(Keys(n, Spent(w, who))) > ChartLimit[n]
  /\ \A v \in DOMAIN f : Total[Of_(n, Key(n, e), spent)] <= Total[f[v]]

LEMMA KeysAreFinite ==
  ASSUME NEW n, NEW S \in SUBSET Claims
  PROVE  IsFiniteSet(Keys(n, S)) /\ Cardinality(Keys(n, S)) \in Nat
  <1>1. IsFiniteSet(S)
    BY TotalsGrow, FS_Subset
  <1>2. PICK g : g = [e \in S |-> Key(n, e)]
    OBVIOUS
  <1>3. Keys(n, S) = {g[e] : e \in S}
    BY <1>2 DEF Keys
  <1>4. g \in Surjection(S, Keys(n, S))
    BY <1>2 DEF Keys, Surjection
  <1>5. IsFiniteSet(Keys(n, S))
    BY <1>1, <1>4, FS_Surjection
  <1> QED
    BY <1>5, FS_CardinalityType

\* A cut slice has at least as many as the limit above it, so there are more
\* slices than that; and were it worth more than one that is shown, all of
\* those, too, would be above the one that is shown.
LEMMA ChartCovers ==
  ASSUME NEW n \in Charts, NEW w, NEW who, NEW spent \in SUBSET Spent(w, who),
         NEW f, f = Chart(n, Spent(w, who))
  PROVE  \A e \in spent \ SlicesOf(f) : Lost(n, e, f, spent, w, who)
  <1>1. PICK S : S = Spent(w, who) /\ S \in SUBSET Claims
    BY DEF Spent, Spend, Within, Scoped, Filed
  <1>0. PICK limit \in Nat : limit = ChartLimit[n]
    BY LimitsAreNumbers DEF Charts
  <1>2. PICK K : K = Keys(n, S) /\ limit = ChartLimit[n]
    BY <1>0
  <1>3. PICK slices :
          /\ DOMAIN slices = K /\ \A v \in K : slices[v] = Of_(n, v, S)
          /\ \A u \in K : u \in DOMAIN f <=> Cardinality(Above(slices, u)) < limit
          /\ \A v \in DOMAIN f : v \in K /\ f[v] = Of_(n, v, S)
    BY <1>1, <1>2, ChartIs
  <1>4. IsFiniteSet(K) /\ Cardinality(K) \in Nat
    BY <1>1, <1>2, KeysAreFinite
  <1>5. \A v : Of_(n, v, S) \in SUBSET Claims
    BY <1>1 DEF Of_
  <1>6. \A v \in K : Total[slices[v]] \in Nat
    BY <1>3, <1>5, TotalsGrow
  <1>7. SUFFICES ASSUME NEW e \in spent, e \notin SlicesOf(f) PROVE Lost(n, e, f, spent, w, who)
    OBVIOUS
  <1>8. PICK x : x = Key(n, e) /\ x \in K /\ e \in Of_(n, x, S)
    BY <1>1, <1>2 DEF Keys, Of_
  <1>9. x \notin DOMAIN f
    BY <1>3, <1>7, <1>8 DEF SlicesOf
  <1>10. \A u \in K : /\ Above(slices, u) \subseteq K \ {u} /\ IsFiniteSet(Above(slices, u))
                      /\ Cardinality(Above(slices, u)) \in Nat
    <2> SUFFICES ASSUME NEW u \in K
          PROVE /\ Above(slices, u) \subseteq K \ {u} /\ IsFiniteSet(Above(slices, u))
                /\ Cardinality(Above(slices, u)) \in Nat
      OBVIOUS
    <2>1. Above(slices, u) \subseteq K \ {u} /\ Above(slices, u) \subseteq K
      BY <1>3 DEF Above
    <2>2. IsFiniteSet(Above(slices, u))
      BY <1>4, <2>1, FS_Subset
    <2> QED BY <2>1, <2>2, FS_CardinalityType
  <1>11. Cardinality(Above(slices, x)) >= limit
    BY <1>2, <1>3, <1>8, <1>9, <1>10
  <1>12. Cardinality(K) > limit
    <2>1. IsFiniteSet(K \ {x}) /\ Cardinality(K \ {x}) = Cardinality(K) - 1
      BY <1>4, <1>8, FS_RemoveElement
    <2>2. Cardinality(Above(slices, x)) <= Cardinality(K \ {x})
      BY <1>8, <1>10, <2>1, FS_Subset
    <2> QED BY <1>2, <1>4, <1>8, <1>10, <1>11, <2>1, <2>2
  <1>13. ASSUME NEW v \in DOMAIN f PROVE Total[slices[x]] <= Total[slices[v]]
    <2>1. v \in K /\ Cardinality(Above(slices, v)) < limit
      BY <1>3
    <2>2. SUFFICES ASSUME Total[slices[x]] > Total[slices[v]] PROVE FALSE
      BY <1>6, <1>8, <2>1
    <2>3. Above(slices, x) \subseteq Above(slices, v)
      <3> SUFFICES ASSUME NEW u \in Above(slices, x) PROVE u \in Above(slices, v)
        OBVIOUS
      <3>1. u \in K /\ (Total[slices[u]] > Total[slices[x]] \/ Total[slices[u]] = Total[slices[x]])
        BY <1>3 DEF Above
      <3>2. PICK a \in Nat, b \in Nat, c \in Nat :
              a = Total[slices[u]] /\ b = Total[slices[x]] /\ c = Total[slices[v]]
        BY <1>6, <1>8, <2>1, <3>1
      <3>3. a > c
        BY <2>2, <3>1, <3>2
      <3>4. u # v
        BY <3>2, <3>3
      <3> QED BY <1>3, <3>1, <3>2, <3>3, <3>4 DEF Above
    <2>4. Cardinality(Above(slices, x)) <= Cardinality(Above(slices, v))
      BY <1>10, <2>1, <2>3, FS_Subset
    <2> QED BY <1>2, <1>8, <1>10, <1>11, <2>1, <2>4
  <1>14. Total[Of_(n, x, spent)] <= Total[slices[x]]
    <2>1. Of_(n, x, spent) \subseteq Of_(n, x, S)
      BY <1>1 DEF Of_
    <2>2. Of_(n, x, spent) \in SUBSET Claims
      BY <1>1 DEF Of_
    <2> QED BY <1>3, <1>5, <1>8, <2>1, <2>2, TotalsGrow
  <1>15. ASSUME NEW v \in DOMAIN f PROVE Total[Of_(n, x, spent)] <= Total[f[v]]
    <2>1. v \in K /\ f[v] = slices[v]
      BY <1>3
    <2>2. Of_(n, x, spent) \in SUBSET Claims
      BY <1>1 DEF Of_
    <2>3. PICK a \in Nat, b \in Nat, c \in Nat :
            a = Total[Of_(n, x, spent)] /\ b = Total[slices[x]] /\ c = Total[slices[v]]
      BY <1>6, <1>8, <2>1, <2>2, TotalsGrow
    <2> QED BY <1>13, <1>14, <2>1, <2>3
  <1> QED
    BY <1>1, <1>2, <1>8, <1>12, <1>15 DEF Lost

\* What a chart has left out stays left out while more is spent.
LEMMA LostLasts ==
  ASSUME NEW n \in Charts, NEW e, NEW f, NEW spent, NEW w, NEW who, Lost(n, e, f, spent, w, who),
         Spent(w, who) \subseteq Spent(w, who)'
  PROVE  Lost(n, e, f, spent, w, who)'
  <1>0. Spent(w, who) \in SUBSET Claims
    BY DEF Spent, Spend, Within, Scoped, Filed
  <1>7. Spent(w, who)' \in SUBSET Claims
    BY DEF Spent, Spend, Within, Scoped, Filed
  <1>1. PICK S, T : S = Spent(w, who) /\ T = Spent(w, who)' /\ S \subseteq T
                    /\ S \in SUBSET Claims /\ T \in SUBSET Claims
    BY <1>0, <1>7
  <1>2. Keys(n, S) \subseteq Keys(n, T)
    BY <1>1 DEF Keys
  <1>3. /\ IsFiniteSet(Keys(n, T)) /\ Cardinality(Keys(n, T)) \in Nat
        /\ Cardinality(Keys(n, S)) \in Nat /\ Cardinality(Keys(n, S)) <= Cardinality(Keys(n, T))
    BY <1>1, <1>2, KeysAreFinite, FS_Subset
  <1>4. ChartLimit[n] \in Nat
    BY LimitsAreNumbers DEF Charts
  <1>5. Cardinality(Keys(n, T)) > ChartLimit[n]
    BY <1>1, <1>3, <1>4 DEF Lost
  <1>6. Keys(n, Spent(w, who))' = Keys(n, T)
    BY <1>1 DEF Keys, Key
  <1> QED
    BY <1>5, <1>6 DEF Lost, Of_, Key

LEMMA AgingCovers ==
  ASSUME NEW f, f = aging
  PROVE  SlicesOf(f) = Waiting
  BY DEF aging, By, SlicesOf

\* A month is named by its first day and has the days up to the next.
LEMMA MonthsAreDistinct ==
  ASSUME NEW i \in Int, NEW n \in Int
  PROVE  FirstDay(i) \in Int /\ (InMonth(FirstDay(i), n) <=> MonthIndex(n) = i)
         /\ NextMonth(FirstDay(i)) \in Int /\ NextMonth(FirstDay(i)) = FirstDay(i) + DaysInMonth
  <1>1. PICK m \in Int, d \in Nat \ {0} : m = i * DaysInMonth /\ d = DaysInMonth /\ m = FirstDay(i)
    BY NextDays, FirstDayIs
  <1>2. m <= m /\ m < m + d
    BY <1>1
  <1>3. MonthIndex(m) = i
    BY <1>1, <1>2, MonthDays
  <1>4. NextMonth(m) = (i + 1) * DaysInMonth
    BY <1>3, FirstDayIs DEF NextMonth
  <1>5. NextMonth(m) = m + d
    BY <1>1, <1>4, NextDays
  <1>6. MonthIndex(n) = i <=> m <= n /\ n < m + d
    BY <1>1, MonthDays
  <1> QED BY <1>1, <1>5, <1>6 DEF InMonth

\* The month of a later day is no earlier.
LEMMA MonthsGoOn ==
  ASSUME NEW a \in Int, NEW b \in Int, a <= b
  PROVE  MonthIndex(a) \in Int /\ MonthIndex(b) \in Int /\ MonthIndex(a) <= MonthIndex(b)
  <1>1. PICK i \in Int, j \in Int : i = MonthIndex(a) /\ j = MonthIndex(b)
    BY MonthIndexIs
  <1>2. PICK x \in Int, y \in Int, d \in Nat \ {0} :
          x = i * DaysInMonth /\ y = j * DaysInMonth /\ d = DaysInMonth
    BY NextDays
  <1>3. x <= a /\ a < x + d /\ y <= b /\ b < y + d
    BY <1>1, <1>2, MonthDays
  <1>4. j < i => y + d <= x
    BY <1>2, MulOrder
  <1>5. i <= j
    BY <1>1, <1>2, <1>3, <1>4
  <1> QED BY <1>1, <1>5

\* A day of the period is in one of its months.
LEMMA DaysHaveMonths ==
  ASSUME NEW w, w.start \in Int, w.end \in Int, NEW n \in w.start .. w.end
  PROVE  FirstDay(MonthIndex(n)) \in MonthsOf(w) /\ InMonth(FirstDay(MonthIndex(n)), n)
  <1>1. PICK s \in Int, e \in Int : s = w.start /\ e = w.end /\ n \in Int /\ s <= n /\ n <= e
    OBVIOUS
  <1>2. PICK i \in Int, a \in Int, b \in Int :
          i = MonthIndex(n) /\ a = MonthIndex(s) /\ b = MonthIndex(e) /\ a <= i /\ i <= b
    BY <1>1, MonthsGoOn
  <1>3. i \in a .. b
    BY <1>2
  <1>4. FirstDay(i) \in MonthsOf(w)
    BY <1>1, <1>2, <1>3 DEF MonthsOf
  <1>5. InMonth(FirstDay(i), n)
    BY <1>1, <1>2, MonthsAreDistinct
  <1> QED BY <1>2, <1>4, <1>5

LEMMA MonthlyCovers ==
  ASSUME NEW w, NEW who, w.start \in Int, w.end \in Int, NEW f, f = monthly(w, who)
  PROVE  InPeriod(w, ClaimsOf(f)) = Spent(w, who)
  <1> DEFINE In(m) == {e \in Scoped(who) : InMonth(m, Attributes[e].day) /\ status[e] \in SpendStatuses}
  <1>1. DOMAIN f = MonthsOf(w) /\ \A m \in MonthsOf(w) : f[m].claims = In(m)
    BY DEF monthly
  <1>2. Spent(w, who) =
          {e \in Scoped(who) : Attributes[e].day \in w.start .. w.end /\ status[e] \in SpendStatuses}
    BY DEF Spent, Spend, Within
  <1>3. \A e \in Spent(w, who) : \E m \in MonthsOf(w) : e \in In(m)
    <2> SUFFICES ASSUME NEW e \in Spent(w, who) PROVE \E m \in MonthsOf(w) : e \in In(m)
      OBVIOUS
    <2>1. PICK n : n = Attributes[e].day
      OBVIOUS
    <2>2. n \in w.start .. w.end /\ e \in Scoped(who) /\ status[e] \in SpendStatuses
      BY <1>2, <2>1
    <2>3. FirstDay(MonthIndex(n)) \in MonthsOf(w) /\ InMonth(FirstDay(MonthIndex(n)), n)
      BY <2>2, DaysHaveMonths
    <2> QED BY <2>1, <2>2, <2>3
  <1> QED BY <1>1, <1>2, <1>3 DEF InPeriod, ClaimsOf

LEMMA MonthsAreApart ==
  ASSUME NEW w, w.start \in Int, w.end \in Int, NEW who, NEW f, f = monthly(w, who)
  PROVE  \A m, n \in DOMAIN f : m # n => f[m].claims \cap f[n].claims = {}
  <1>1. SUFFICES ASSUME NEW m \in DOMAIN f, NEW n \in DOMAIN f, NEW e \in f[m].claims, e \in f[n].claims
        PROVE m = n
    OBVIOUS
  <1>2. /\ m \in MonthsOf(w) /\ n \in MonthsOf(w) /\ e \in Claims
        /\ InMonth(m, Attributes[e].day) /\ InMonth(n, Attributes[e].day)
    BY <1>1 DEF monthly, Scoped, Filed
  <1>3. Attributes[e].day \in Int
    BY <1>2, ClaimsAreDated
  <1>4. MonthIndex(w.start) \in Int /\ MonthIndex(w.end) \in Int
    BY MonthIndexIs
  <1>5. PICK i \in Int, j \in Int : m = FirstDay(i) /\ n = FirstDay(j)
    BY <1>2, <1>4 DEF MonthsOf
  <1> QED BY <1>2, <1>3, <1>5, MonthsAreDistinct

LEMMA BudgetsHaveMonths ==
  ASSUME BudgetInv, NEW w, w.start \in Int, w.end \in Int, w.start <= w.end,
         NEW f, f = monthly(w, Everyone)
  PROVE  budget_allocated(w) \subseteq BudgetsOf(f)
  <1> SUFFICES ASSUME NEW b \in budget_allocated(w) PROVE \E m \in DOMAIN f : b \in f[m].budgets
    BY DEF BudgetsOf
  <1>1. b \in Of("budgets") /\ b.start <= w.end /\ b.end >= w.start
    BY DEF budget_allocated
  <1>2. PICK s \in Int, e \in Int, x \in Int, y \in Int :
          s = w.start /\ e = w.end /\ x = b.start /\ y = b.end /\ x < y /\ s <= e /\ x <= e /\ y >= s
    BY <1>1, BudgetDates
  <1>3. PICK n \in Int : s <= n /\ n <= e /\ x <= n /\ n <= y
    <2>1. CASE x <= s
      BY <1>2, <2>1
    <2>2. CASE ~(x <= s)
      BY <1>2, <2>2
    <2> QED BY <2>1, <2>2
  <1>4. n \in w.start .. w.end
    BY <1>2, <1>3
  <1>5. PICK i \in Int, m \in Int : i = MonthIndex(n) /\ m = FirstDay(i)
    BY <1>3, MonthsAreDistinct, MonthIndexIs
  <1>6. m \in MonthsOf(w) /\ InMonth(m, n)
    BY <1>4, <1>5, DaysHaveMonths
  <1>7. PICK next \in Int : next = NextMonth(m) /\ m <= n /\ n < next
    BY <1>3, <1>5, <1>6, MonthsAreDistinct DEF InMonth
  <1>8. b.start < NextMonth(m) /\ b.end >= m
    BY <1>2, <1>3, <1>7
  <1>9. b \in _budget_scope(Everyone)
    BY <1>1 DEF _budget_scope
  <1> QED BY <1>6, <1>8, <1>9 DEF monthly

-----------------------------------------------------------------------------
\* The report while it is read: so many statements of its plan are answered.
Names ==
  {"summary", "budget_allocated", "previous", "monthly", "categories", "projects",
   "aging", "top_spenders", "reimbursements", "status_breakdown"}
Plan(who) == IF who = Everyone THEN overview ELSE personal

AllOf(who) == {Plan(who)[j] : j \in 1 .. Len(Plan(who))}

ReadSoFar(r, k) ==
  /\ k \in 0 .. Len(Plan(r.who))
  /\ r.todo = SubSeq(Plan(r.who), k + 1, Len(Plan(r.who)))
  /\ DOMAIN r.figures = {Plan(r.who)[i] : i \in 1 .. k}

Paid == {e \in Claims : payout[e] = "paid"}

\* What a headline counted as spent stays spent, and what it counted as
\* reimbursed is paid.
SpentStays ==
  Read_("summary") =>
    /\ SpendOf(Figure("summary")) \subseteq Spent(report.window, report.who)
    /\ Figure("summary")["reimbursed"] \subseteq Paid

\* While nothing changes, each figure is what its statement would return now.
StillTrue ==
  report.quiet /\ report.todo # <<>> =>
    \A n \in DOMAIN report.figures : Figure(n) = Statement(n, report.window, report.who)

ReportTyped ==
  /\ report = [who |-> report.who, window |-> report.window, todo |-> report.todo,
               figures |-> report.figures, quiet |-> report.quiet]
  /\ report.quiet \in BOOLEAN
  /\ WindowIsRight
  /\ \E k \in Nat : ReadSoFar(report, k)

ReportInv == report = Closed \/ (ReportTyped /\ SpentStays /\ StillTrue /\ FiguresAgree)

\* A chart that covers a headline, and figures that agree with each other.
Covered(n, f, spent, repaid, w, who) ==
  /\ n = "monthly" => spent \subseteq ClaimsOf(f)
  /\ n \in Charts => \A e \in spent \ SlicesOf(f) : Lost(n, e, f, spent, w, who)
  /\ n = "reimbursements" /\ Today \in w.start .. w.end => repaid \subseteq f["paid"]
  /\ n = "status_breakdown" => spent \subseteq SpendOf(f)

Agree(w, F) ==
  LET spent == SpendOf(F["summary"])
      month == F["monthly"]
  IN /\ \A n \in Charts : n \in DOMAIN F => \A v \in DOMAIN F[n] : F[n][v] = Of_(n, v, spent)
     /\ F["status_breakdown"] = F["summary"]
     /\ InPeriod(w, ClaimsOf(month)) = spent
     /\ \A m, n \in DOMAIN month : m # n => month[m].claims \cap month[n].claims = {}
     /\ "budget_allocated" \in DOMAIN F =>
          F["budget_allocated"] \subseteq BudgetsOf(month)
     /\ "aging" \in DOMAIN F =>
          \A s \in {"pending", "info_requested"} :
            F["summary"][s] \subseteq SlicesOf(F["aging"])

LEMMA CoverIs ==
  ChartsCoverTheHeadline <=>
    (Read_("summary") =>
       \A n \in DOMAIN report.figures :
         Covered(n, Figure(n), SpendOf(Figure("summary")), Figure("summary")["reimbursed"],
                 report.window, report.who))
  BY DEF ChartsCoverTheHeadline, Covered, Read_, InMonths, Slices, ClaimsOf, SlicesOf, LeftOut, Lost,
         Spent, Charts

LEMMA AgreeIs ==
  QuietReportAgrees <=> (Finished /\ report.quiet => Agree(report.window, report.figures))
  BY DEF QuietReportAgrees, Agree, Read_, InMonths, Slices, Figure, ClaimsOf, SlicesOf, BudgetsOf, InPeriod

LEMMA PlanFacts ==
  ASSUME NEW who
  PROVE  /\ Plan(who) \in Seq(Names) /\ Len(Plan(who)) \in Nat \ {0}
         /\ Plan(who)[1] = "summary"
         /\ \A j \in 2 .. Len(Plan(who)) : Plan(who)[j] # "summary"
         /\ \A j \in 1 .. Len(Plan(who)) :
              Plan(who)[j] \in {"projects", "top_spenders", "budget_allocated"} => who = Everyone
         /\ \A n \in {"summary", "monthly", "categories", "status_breakdown"} :
              \E j \in 1 .. Len(Plan(who)) : Plan(who)[j] = n
  <1>1. CASE who = Everyone
    <2>1. Plan(who) = overview
      BY <1>1 DEF Plan
    <2>2. overview \in Seq(Names) /\ Len(overview) = 10
      <3>1. Len(overview) = 10
        BY DEF overview
      <3>2. overview \in Seq(Names)
        BY DEF overview, Names
      <3> QED BY <3>1, <3>2
    <2>3. \A j \in 2 .. 10 : overview[j] # "summary"
      BY DEF overview
    <2>4. overview[1] = "summary" /\ overview[4] = "monthly" /\ overview[5] = "categories"
          /\ overview[10] = "status_breakdown"
      BY DEF overview
    <2>5. 1 \in 1 .. 10 /\ 4 \in 1 .. 10 /\ 5 \in 1 .. 10 /\ 10 \in 1 .. 10
      OBVIOUS
    <2>6. \A n \in {"summary", "monthly", "categories", "status_breakdown"} :
            \E j \in 1 .. 10 : overview[j] = n
      BY <2>4, <2>5
    <2> QED BY <1>1, <2>1, <2>2, <2>3, <2>4, <2>6
  <1>2. CASE who # Everyone
    <2>1. Plan(who) = personal
      BY <1>2 DEF Plan
    <2>2. personal \in Seq(Names) /\ Len(personal) = 4
      <3>1. Len(personal) = 4
        BY DEF personal
      <3>2. personal \in Seq(Names)
        BY DEF personal, Names
      <3> QED BY <3>1, <3>2
    <2>3. \A j \in 2 .. 4 : personal[j] # "summary"
      BY DEF personal
    <2>4. personal[1] = "summary" /\ personal[2] = "monthly" /\ personal[3] = "categories"
          /\ personal[4] = "status_breakdown"
      BY DEF personal
    <2>5. 1 \in 1 .. 4 /\ 2 \in 1 .. 4 /\ 3 \in 1 .. 4 /\ 4 \in 1 .. 4
      OBVIOUS
    <2>6. \A n \in {"summary", "monthly", "categories", "status_breakdown"} :
            \E j \in 1 .. 4 : personal[j] = n
      BY <2>4, <2>5
    <2>7. \A j \in 1 .. 4 : personal[j] \notin {"projects", "top_spenders", "budget_allocated"}
      <3>1. \A j \in 1 .. 4 : j = 1 \/ j = 2 \/ j = 3 \/ j = 4
        OBVIOUS
      <3> QED BY <2>4, <3>1
    <2> QED BY <2>1, <2>2, <2>3, <2>4, <2>6, <2>7
  <1> QED BY <1>1, <1>2

\* A chart with a LIMIT is of what is spent in the period.
LEMMA ChartStatement ==
  ASSUME NEW w, NEW who, NEW n \in Charts, n \in {"projects", "top_spenders"} => who = Everyone
  PROVE  Statement(n, w, who) = Chart(n, Spent(w, who))
  <1>1. CASE n = "categories"
    BY <1>1 DEF Statement, categories, Spent
  <1>2. CASE n = "projects"
    BY <1>2 DEF Statement, projects, Spent
  <1>3. CASE n = "top_spenders"
    BY <1>3 DEF Statement, top_spenders, Spent
  <1> QED BY <1>1, <1>2, <1>3 DEF Charts

\* What is read now covers every headline that is still spent.
LEMMA StatementCovers ==
  ASSUME NEW w, w.start \in Int, w.end \in Int, NEW who, NEW n, NEW spent \in SUBSET Spent(w, who),
         NEW repaid \in SUBSET Paid, n \in {"projects", "top_spenders"} => who = Everyone
  PROVE  Covered(n, Statement(n, w, who), spent, repaid, w, who)
  <1>1. CASE n = "monthly"
    <2>1. PICK f : f = monthly(w, who) /\ f = Statement(n, w, who)
      BY <1>1 DEF Statement
    <2>2. InPeriod(w, ClaimsOf(f)) = Spent(w, who)
      BY <2>1, MonthlyCovers
    <2> QED BY <1>1, <2>1, <2>2 DEF Covered, InPeriod, Charts
  <1>2. CASE n \in Charts
    <2>1. PICK f : f = Chart(n, Spent(w, who)) /\ f = Statement(n, w, who)
      BY <1>2, ChartStatement
    <2>2. \A e \in spent \ SlicesOf(f) : Lost(n, e, f, spent, w, who)
      BY <1>2, <2>1, ChartCovers
    <2> QED BY <1>2, <2>1, <2>2 DEF Covered, Charts
  <1>3. CASE n = "reimbursements"
    <2>1. Statement(n, w, who) = reimbursements(w)
      BY <1>3 DEF Statement
    <2>2. Today \in w.start .. w.end => reimbursements(w)["paid"] = Paid
      BY DEF reimbursements, PayoutStatuses, Paid
    <2> QED BY <1>3, <2>1, <2>2 DEF Covered, Charts
  <1>4. CASE n = "status_breakdown"
    <2>1. Statement(n, w, who) = summary(w, who)
      BY <1>4 DEF Statement, status_breakdown, summary
    <2> QED BY <1>4, <2>1, Headline DEF Covered, Charts
  <1> QED BY <1>1, <1>2, <1>3, <1>4 DEF Covered

\* A report whose figures are all true now agrees with itself.
LEMMA TrueAgrees ==
  ASSUME BudgetInv, NEW w, w.start \in Int, w.end \in Int, w.start <= w.end, NEW who, NEW F,
         DOMAIN F = AllOf(who),
         \A n \in DOMAIN F : F[n] = Statement(n, w, who)
  PROVE  Agree(w, F)
  <1>1. /\ "summary" \in DOMAIN F /\ "monthly" \in DOMAIN F
        /\ "categories" \in DOMAIN F /\ "status_breakdown" \in DOMAIN F
        /\ \A n \in {"projects", "top_spenders", "budget_allocated"} : n \in DOMAIN F => who = Everyone
    BY PlanFacts DEF AllOf
  <1>2. F["summary"] = summary(w, who) /\ F["status_breakdown"] = summary(w, who)
    BY <1>1 DEF Statement, status_breakdown, summary
  <1>3. PICK month : month = monthly(w, who) /\ month = F["monthly"]
    BY <1>1 DEF Statement
  <1>4. PICK spent : spent = SpendOf(F["summary"]) /\ spent = Spent(w, who)
    BY <1>2, Headline
  <1>5. InPeriod(w, ClaimsOf(month)) = spent
    BY <1>3, <1>4, MonthlyCovers
  <1>6. \A m, n \in DOMAIN month : m # n => month[m].claims \cap month[n].claims = {}
    BY <1>3, MonthsAreApart
  <1>7. "budget_allocated" \in DOMAIN F =>
          F["budget_allocated"] \subseteq BudgetsOf(month)
    <2>1. "budget_allocated" \in DOMAIN F => F["budget_allocated"] = budget_allocated(w)
      BY DEF Statement
    <2> QED BY <1>1, <1>3, <2>1, BudgetsHaveMonths
  <1>8. "aging" \in DOMAIN F =>
          \A s \in {"pending", "info_requested"} :
            F["summary"][s] \subseteq SlicesOf(F["aging"])
    <2> SUFFICES ASSUME "aging" \in DOMAIN F
          PROVE \A s \in {"pending", "info_requested"} :
                  F["summary"][s] \subseteq SlicesOf(F["aging"])
      OBVIOUS
    <2>1. PICK f : f = aging /\ f = F["aging"]
      BY DEF Statement
    <2>2. SlicesOf(f) = Waiting
      BY <2>1, AgingCovers
    <2>3. \A s \in {"pending", "info_requested"} : summary(w, who)[s] \subseteq Waiting
      BY DEF summary, ByStatus, Within, Scoped, Waiting, Statuses
    <2> QED BY <1>2, <2>1, <2>2, <2>3
  <1>9. ASSUME NEW n \in Charts, n \in DOMAIN F, NEW v \in DOMAIN F[n]
        PROVE  F[n][v] = Of_(n, v, spent)
    <2>1. n \in {"projects", "top_spenders"} => who = Everyone
      BY <1>1, <1>9
    <2>2. PICK f : f = F[n] /\ f = Chart(n, spent)
      BY <1>4, <1>9, <2>1, ChartStatement
    <2> QED BY <1>9, <2>2, ChartIs
  <1> QED BY <1>2, <1>3, <1>4, <1>5, <1>6, <1>7, <1>8, <1>9 DEF Agree

-----------------------------------------------------------------------------
LEMMA PlanStep ==
  ASSUME NEW who, NEW k \in 0 .. Len(Plan(who)), NEW todo, todo = SubSeq(Plan(who), k + 1, Len(Plan(who)))
  PROVE  /\ todo = <<>> <=> k = Len(Plan(who))
         /\ todo # <<>> =>
              /\ k + 1 \in 1 .. Len(Plan(who)) /\ k \in Nat
              /\ Head(todo) = Plan(who)[k + 1]
              /\ Tail(todo) = SubSeq(Plan(who), k + 2, Len(Plan(who)))
  <1>1. PICK s \in Seq(Names), n \in Nat : s = Plan(who) /\ n = Len(s)
    BY PlanFacts
  <1>2. k \in 0 .. n /\ todo = SubSeq(s, k + 1, n)
    BY <1>1
  <1>3. todo = <<>> <=> k = n
    <2>1. todo \in Seq(Names) /\ Len(todo) = n - k
      BY <1>1, <1>2
    <2>2. todo = <<>> <=> Len(todo) = 0
      BY <2>1, EmptySeq
    <2> QED BY <1>2, <2>1, <2>2
  <1>4. ASSUME todo # <<>> PROVE Head(todo) = s[k + 1] /\ Tail(todo) = SubSeq(s, k + 2, n) /\ k + 1 \in 1 .. n
    <2>1. k + 1 \in 1 .. n
      BY <1>2, <1>3, <1>4
    <2>2. Head(todo) = s[k + 1]
      BY <1>1, <1>2, <2>1
    <2>3. Tail(todo) = SubSeq(s, k + 2, n)
      BY <1>1, <1>2, <2>1
    <2> QED BY <2>1, <2>2, <2>3
  <1> QED BY <1>1, <1>3, <1>4

LEMMA NothingRead ==
  ASSUME NEW who, NEW r, r.who = who, r.todo = Plan(who), r.figures = <<>>
  PROVE  ReadSoFar(r, 0) /\ DOMAIN r.figures = {} /\ r.todo # <<>>
  <1>1. PICK s \in Seq(Names), n \in Nat \ {0} : s = Plan(who) /\ n = Len(s)
    BY PlanFacts
  <1>2. s = SubSeq(s, 0 + 1, n)
    BY <1>1
  <1>3. s # <<>>
    BY <1>1
  <1>4. DOMAIN <<>> = {} /\ {s[i] : i \in 1 .. 0} = {}
    OBVIOUS
  <1> QED BY <1>1, <1>2, <1>3, <1>4 DEF ReadSoFar

LEMMA AskKeepsReport ==
  ASSUME NEW who, NEW w \in Windows, Ask(who, w[1], w[2])
  PROVE  ReportInv'
  <1> DEFINE v == _window(w[1], w[2])
  <1>1. w[1] \in Nat /\ w[2] \in Nat
    BY WindowsAreDates
  <1>2. PICK from \in Nat, to \in Nat : from = w[1] /\ to = w[2]
    BY <1>1
  <1>3. PICK end \in Nat : end = IF to = None THEN Today ELSE to
    BY TodayIsADay
  <1>4. PICK last \in Int : last = MonthIndex(end) - 5
    BY MonthIndexIs
  <1>5. DefaultStart(end) \in Int
    BY <1>4, FirstDayIs DEF DefaultStart
  <1>6. v = [start |-> IF from = None THEN DefaultStart(end) ELSE from, end |-> end]
    BY <1>2, <1>3 DEF _window
  <1>7. v.start \in Int /\ v.end \in Int
    BY <1>5, <1>6
  <1>8. v.start <= v.end
    BY DEF Ask, WindowAllowed
  <1> HIDE DEF v
  <1>9. report' = [who |-> who, window |-> v, todo |-> Plan(who), figures |-> <<>>, quiet |-> TRUE]
    BY DEF Ask, Plan, v
  <1>10. report'.who = who /\ report'.window = v /\ report'.todo = Plan(who) /\ report'.figures = <<>>
         /\ report'.quiet = TRUE
    BY <1>9
  <1>11. ReadSoFar(report', 0) /\ DOMAIN report'.figures = {} /\ report'.todo # <<>>
    BY <1>10, NothingRead
  <1>12. ReportTyped'
    <2>1. 0 \in Nat
      OBVIOUS
    <2>2. \E k \in Nat : ReadSoFar(report', k)
      BY <1>11, <2>1
    <2> QED BY <1>7, <1>8, <1>9, <1>10, <2>2 DEF ReportTyped, WindowIsRight
  <1> QED
    BY <1>11, <1>12 DEF ReportInv, SpentStays, StillTrue, FiguresAgree, ChartsCoverTheHeadline,
                       QuietReportAgrees, Read_, Finished

\* A statement depends on nothing but the rows and the claims.
LEMMA StatementsRepeat ==
  ASSUME rows' = rows, status' = status, payout' = payout, NEW w, NEW who
  PROVE  /\ Spent(w, who)' = Spent(w, who) /\ Paid' = Paid
         /\ \A n \in Names : Statement(n, w, who)' = Statement(n, w, who)
  <1>1. Filed' = Filed /\ \A t : Of(t)' = Of(t)
    BY DEF Filed, Of
  <1>2. Scoped(who)' = Scoped(who) /\ Scoped(Everyone)' = Scoped(Everyone)
    BY <1>1 DEF Scoped
  <1>3. \A v, u : u \in {who, Everyone} => Within(v, u)' = Within(v, u)
    BY <1>2 DEF Within
  <1>4. \A v, u : u \in {who, Everyone} => Spend(Within(v, u))' = Spend(Within(v, u))
    BY <1>3 DEF Spend
  <1>5. \A v : summary(v, who)' = summary(v, who)
    BY <1>3 DEF summary, ByStatus
  <1>6. status_breakdown(w, who)' = status_breakdown(w, who)
    BY <1>5 DEF summary, status_breakdown
  <1>7. categories(w, who)' = categories(w, who)
    BY <1>4 DEF categories, Chart, Top, Above, By, Key
  <1>8. projects(w)' = projects(w)
    BY <1>4 DEF projects, Chart, Top, Above, By, Key
  <1>9. top_spenders(w)' = top_spenders(w)
    BY <1>4 DEF top_spenders, Chart, Top, Above, By, Key
  <1>10. budget_allocated(w)' = budget_allocated(w)
    BY <1>1 DEF budget_allocated
  <1>11. aging' = aging
    BY <1>1 DEF aging, By, Waiting
  <1>12. monthly(w, who)' = monthly(w, who)
    BY <1>1, <1>2 DEF monthly, _budget_scope
  <1>13. reimbursements(w)' = reimbursements(w)
    BY DEF reimbursements
  <1>14. \A n \in Names : Statement(n, w, who)' = Statement(n, w, who)
    BY <1>5, <1>6, <1>7, <1>8, <1>9, <1>10, <1>11, <1>12, <1>13 DEF Statement, Names
  <1> QED BY <1>4, <1>14 DEF Spent, Paid

LEMMA FiguresAreNamed ==
  ASSUME NEW r, NEW k \in Nat, ReadSoFar(r, k)
  PROVE  DOMAIN r.figures \subseteq Names
  <1>1. PICK s \in Seq(Names), n \in Nat : s = Plan(r.who) /\ n = Len(s)
    BY PlanFacts
  <1>2. \A i \in 1 .. n : s[i] \in Names
    BY <1>1
  <1>3. \A i \in 1 .. k : i \in 1 .. n
    BY <1>1 DEF ReadSoFar
  <1> QED BY <1>1, <1>2, <1>3 DEF ReadSoFar

LEMMA CoverNext ==
  ASSUME NEW w, NEW who, NEW F, report'.window = w, report'.who = who, report'.figures = F,
         "summary" \in DOMAIN F =>
           \A n \in DOMAIN F :
             Covered(n, F[n], SpendOf(F["summary"]), F["summary"]["reimbursed"], w, who)'
  PROVE  ChartsCoverTheHeadline'
  <1>1. PICK spent, repaid : spent = SpendOf(F["summary"]) /\ repaid = F["summary"]["reimbursed"]
    OBVIOUS
  <1>2. "summary" \in DOMAIN F => \A n \in DOMAIN F : Covered(n, F[n], spent, repaid, w, who)'
    BY <1>1 DEF SpendOf
  <1>3. \A n, e, f : LeftOut(n, e, f, spent)' <=> Lost(n, e, f, spent, w, who)'
    BY DEF LeftOut, Lost, Spent
  <1>4. /\ \A n : Read_(n)' <=> n \in DOMAIN F
        /\ \A n : Figure(n)' = F[n]
        /\ \A n : Slices(n)' = SlicesOf(F[n])
        /\ InMonths' = ClaimsOf(F["monthly"])
    BY DEF Read_, Figure, Slices, SlicesOf, InMonths, ClaimsOf
  <1>5. SUFFICES ASSUME "summary" \in DOMAIN F
        PROVE /\ "monthly" \in DOMAIN F => spent \subseteq ClaimsOf(F["monthly"])
              /\ \A n \in Charts : n \in DOMAIN F =>
                   \A e \in spent \ SlicesOf(F[n]) : Lost(n, e, F[n], spent, w, who)'
              /\ "reimbursements" \in DOMAIN F /\ Today \in w.start .. w.end =>
                   repaid \subseteq F["reimbursements"]["paid"]
              /\ "status_breakdown" \in DOMAIN F => spent \subseteq SpendOf(F["status_breakdown"])
    BY <1>1, <1>3, <1>4 DEF ChartsCoverTheHeadline, SpendOf
  <1> QED
    BY <1>2, <1>5 DEF Covered, ClaimsOf, SlicesOf, SpendOf

\* A headline that is covered stays covered while more is spent.
LEMMA CoverLasts ==
  ASSUME ChartsCoverTheHeadline, NEW w, NEW who, NEW F, w = report.window, who = report.who, F = report.figures,
         report'.window = w, report'.who = who, report'.figures = F,
         Spent(w, who) \subseteq Spent(w, who)'
  PROVE  ChartsCoverTheHeadline'
  <1>1. "summary" \in DOMAIN F =>
          \A n \in DOMAIN F : Covered(n, F[n], SpendOf(F["summary"]), F["summary"]["reimbursed"], w, who)
    BY CoverIs DEF Read_, Figure
  <1>2. ASSUME NEW n, NEW f, NEW spent, NEW repaid, Covered(n, f, spent, repaid, w, who)
        PROVE  Covered(n, f, spent, repaid, w, who)'
    <2>1. n \in Charts => \A e \in spent \ SlicesOf(f) : Lost(n, e, f, spent, w, who)
      BY <1>2 DEF Covered
    <2>2. n \in Charts => \A e \in spent \ SlicesOf(f) : Lost(n, e, f, spent, w, who)'
      BY <2>1, LostLasts
    <2> QED BY <1>2, <2>2 DEF Covered, ClaimsOf, SlicesOf, SpendOf, Charts
  <1>3. "summary" \in DOMAIN F =>
          \A n \in DOMAIN F : Covered(n, F[n], SpendOf(F["summary"]), F["summary"]["reimbursed"], w, who)'
    BY <1>1, <1>2
  <1> QED
    BY <1>3, CoverNext

\* Nothing the report has read or will read changes.
LEMMA SameKeepsReport ==
  ASSUME ReportInv, report' = report, rows' = rows, UNCHANGED claimVars
  PROVE  ReportInv'
  <1> SUFFICES ASSUME report # Closed PROVE ReportInv'
    BY DEF ReportInv
  <1>1. ReportTyped /\ SpentStays /\ StillTrue /\ FiguresAgree
    BY DEF ReportInv
  <1>2. PICK w, who, F : w = report.window /\ who = report.who /\ F = report.figures
    OBVIOUS
  <1>3. ReportTyped' /\ Closed' = Closed
    BY <1>1 DEF ReportTyped, WindowIsRight
  <1>4. /\ Spent(w, who)' = Spent(w, who) /\ Paid' = Paid
        /\ \A n \in Names : Statement(n, w, who)' = Statement(n, w, who)
    BY StatementsRepeat DEF claimVars
  <1>5. DOMAIN F \subseteq Names
    BY <1>1, <1>2, FiguresAreNamed DEF ReportTyped
  <1>6. SpentStays'
    BY <1>1, <1>2, <1>4 DEF SpentStays, Read_, Figure
  <1>7. StillTrue'
    BY <1>1, <1>2, <1>4, <1>5 DEF StillTrue, Figure
  <1>8. ChartsCoverTheHeadline'
    BY <1>1, <1>2, <1>4, CoverLasts DEF FiguresAgree
  <1>9. QuietReportAgrees'
    BY <1>1 DEF FiguresAgree, QuietReportAgrees, Read_, Figure, Slices, InMonths, Finished
  <1> QED BY <1>3, <1>6, <1>7, <1>8, <1>9 DEF ReportInv, FiguresAgree

\* Something the report may read changes.
LEMMA DisturbedKeepsReport ==
  ASSUME ReportInv, report # Closed, report' = Disturbed,
         \A w, who : Spent(w, who) \subseteq Spent(w, who)', Paid \subseteq Paid'
  PROVE  ReportInv'
  <1>1. ReportTyped /\ SpentStays /\ StillTrue /\ FiguresAgree
    BY DEF ReportInv
  <1>2. PICK w, who, todo, F, q :
          /\ q \in BOOLEAN
          /\ report = [who |-> who, window |-> w, todo |-> todo, figures |-> F, quiet |-> q]
          /\ w = report.window /\ who = report.who /\ F = report.figures
          /\ todo = report.todo /\ q = report.quiet
    BY <1>1 DEF ReportTyped
  <1>3. PICK z \in BOOLEAN : z = (q /\ todo = <<>>)
    OBVIOUS
  <1>4. report' = [report EXCEPT !.quiet = z]
    BY <1>2, <1>3 DEF Disturbed
  <1>5. /\ report' = [who |-> who, window |-> w, todo |-> todo, figures |-> F, quiet |-> z]
        /\ report'.who = who /\ report'.window = w /\ report'.figures = F
        /\ report'.todo = todo /\ report'.quiet = z
    BY <1>2, <1>4
  <1>6. \E k \in Nat : ReadSoFar(report', k)
    BY <1>1, <1>2, <1>5 DEF ReportTyped, ReadSoFar
  <1>7. ReportTyped'
    BY <1>1, <1>2, <1>5, <1>6 DEF ReportTyped, WindowIsRight
  <1>8. SpentStays'
    <2>1. Spent(w, who) \subseteq Spent(w, who)'
      OBVIOUS
    <2> QED BY <1>1, <1>2, <1>5, <2>1 DEF SpentStays, Read_, Figure
  <1>9. StillTrue'
    BY <1>3, <1>5 DEF StillTrue
  <1>10. ChartsCoverTheHeadline'
    BY <1>1, <1>2, <1>5, CoverLasts DEF FiguresAgree
  <1>11. QuietReportAgrees'
    <2>1. Finished' /\ report'.quiet => Finished /\ report.quiet
      BY <1>2, <1>3, <1>5 DEF Finished
    <2> QED BY <1>1, <1>2, <1>5, <2>1 DEF FiguresAgree, QuietReportAgrees, Read_, Figure, Slices, InMonths
  <1> QED BY <1>7, <1>8, <1>9, <1>10, <1>11 DEF ReportInv, FiguresAgree

\* What was spent stays spent: a claim leaves "approved" for "reimbursed" only.
LEMMA MoveKeepsSpent ==
  ASSUME ClaimsRight, NEW e \in Claims, NEW s \in Statuses, Move(e, s)
  PROVE  (\A w, who : Spent(w, who) \subseteq Spent(w, who)') /\ Paid \subseteq Paid'
  <1>1. s \in EXPENSE_TRANSITIONS[status[e]] /\ status' = [status EXCEPT ![e] = s]
    BY DEF Move
  <1>2. status'[e] = s /\ \A f \in Claims \ {e} : status'[f] = status[f]
    BY <1>1 DEF ClaimsRight
  <1>3. status[e] \in SpendStatuses => s \in SpendStatuses
    BY <1>1 DEF EXPENSE_TRANSITIONS, SpendStatuses
  <1>4. s # "absent"
    BY DEF Statuses
  <1>5. \A f \in Claims : status[f] # "absent" => status'[f] # "absent"
    BY <1>2, <1>4
  <1>6. \A f \in Claims : status[f] \in SpendStatuses => status'[f] \in SpendStatuses
    BY <1>2, <1>3
  <1>7. Paid \subseteq Paid'
    BY DEF Move, Paid, ClaimsRight
  <1> QED BY <1>5, <1>6, <1>7 DEF Spent, Spend, Within, Scoped, Filed

\* One more figure.
Executed(k, n, w, who, F, q) ==
  /\ k \in Nat /\ k + 1 \in 1 .. Len(Plan(who)) /\ n = Plan(who)[k + 1] /\ q \in BOOLEAN
  /\ w.start \in Int /\ w.end \in Int /\ w.start <= w.end
  /\ DOMAIN report.figures = {Plan(who)[i] : i \in 1 .. k}
  /\ DOMAIN F = DOMAIN report.figures \cup {n}
  /\ F[n] = Statement(n, w, who)
  /\ \A m \in DOMAIN report.figures \ {n} : F[m] = report.figures[m]
  /\ w = report.window /\ who = report.who /\ q = report.quiet
  /\ report' = [who |-> who, window |-> w, todo |-> SubSeq(Plan(who), k + 2, Len(Plan(who))),
                figures |-> F, quiet |-> q]

\* The next statement of the plan.
LEMMA ExecuteEffects ==
  ASSUME ReportInv, Execute
  PROVE  \E k, n, w, who, F, q : Executed(k, n, w, who, F, q)
  <1>1. report # Closed
    BY DEF Execute, Closed
  <1>2. ReportTyped
    BY <1>1 DEF ReportInv
  <1>3. PICK k \in Nat : ReadSoFar(report, k)
    BY <1>2 DEF ReportTyped
  <1>4. PICK w, who, todo, G, q :
          /\ q \in BOOLEAN
          /\ report = [who |-> who, window |-> w, todo |-> todo, figures |-> G, quiet |-> q]
          /\ w = report.window /\ who = report.who /\ G = report.figures
          /\ todo = report.todo /\ q = report.quiet
    BY <1>2 DEF ReportTyped
  <1>5. k \in 0 .. Len(Plan(who)) /\ todo = SubSeq(Plan(who), k + 1, Len(Plan(who)))
        /\ DOMAIN G = {Plan(who)[i] : i \in 1 .. k}
    BY <1>3, <1>4 DEF ReadSoFar
  <1>6. todo # <<>>
    BY <1>4 DEF Execute
  <1>7. /\ k + 1 \in 1 .. Len(Plan(who)) /\ Head(todo) = Plan(who)[k + 1]
        /\ Tail(todo) = SubSeq(Plan(who), k + 2, Len(Plan(who)))
    BY <1>5, <1>6, PlanStep
  <1>8. PICK n : n = Head(todo)
    OBVIOUS
  <1>9. PICK F : F = [m \in DOMAIN G \cup {n} |-> IF m = n THEN Statement(n, w, who) ELSE G[m]]
    OBVIOUS
  <1>10. PICK rest : rest = Tail(todo)
    OBVIOUS
  <1>11. report' = [report EXCEPT !.todo = rest, !.figures = F]
    BY <1>4, <1>8, <1>9, <1>10 DEF Execute
  <1>12. report' = [who |-> who, window |-> w, todo |-> rest, figures |-> F, quiet |-> q]
    BY <1>4, <1>11
  <1>13. DOMAIN F = DOMAIN G \cup {n} /\ F[n] = Statement(n, w, who) /\ \A m \in DOMAIN G \ {n} : F[m] = G[m]
    BY <1>9
  <1>14. w.start \in Int /\ w.end \in Int /\ w.start <= w.end
    BY <1>1, <1>2, <1>4 DEF ReportTyped, WindowIsRight
  <1>15. Executed(k, n, w, who, F, q)
    BY <1>4, <1>5, <1>7, <1>8, <1>10, <1>12, <1>13, <1>14 DEF Executed
  <1> QED
    BY <1>15

LEMMA ExecuteKeepsReport ==
  ASSUME BudgetInv, ClaimsRight, ReportInv, Execute
  PROVE  ReportInv'
  <1>1. report # Closed
    BY DEF Execute, Closed
  <1>2. ReportTyped /\ SpentStays /\ StillTrue /\ ChartsCoverTheHeadline
    BY <1>1 DEF ReportInv, FiguresAgree
  <1>3. rows' = rows /\ status' = status /\ payout' = payout
    BY DEF Execute, budgetVars, claimVars
  <1>0. PICK k, n, w, who, F, q : Executed(k, n, w, who, F, q)
    BY ExecuteEffects
  <1>4. /\ k \in Nat /\ k + 1 \in 1 .. Len(Plan(who)) /\ n = Plan(who)[k + 1] /\ q \in BOOLEAN
        /\ w.start \in Int /\ w.end \in Int /\ w.start <= w.end
        /\ DOMAIN report.figures = {Plan(who)[i] : i \in 1 .. k}
        /\ DOMAIN F = DOMAIN report.figures \cup {n}
        /\ F[n] = Statement(n, w, who)
        /\ \A m \in DOMAIN report.figures \ {n} : F[m] = report.figures[m]
        /\ w = report.window /\ who = report.who /\ q = report.quiet
        /\ report' = [who |-> who, window |-> w, todo |-> SubSeq(Plan(who), k + 2, Len(Plan(who))),
                      figures |-> F, quiet |-> q]
    BY <1>0 DEF Executed
  <1>5. PICK rest, G : rest = SubSeq(Plan(who), k + 2, Len(Plan(who))) /\ G = report.figures
    OBVIOUS
  <1>6. /\ report' = [who |-> who, window |-> w, todo |-> rest, figures |-> F, quiet |-> q]
        /\ report'.who = who /\ report'.window = w /\ report'.todo = rest /\ report'.figures = F
        /\ report'.quiet = q
    BY <1>4, <1>5
  <1>7. PICK top \in Nat : top = Len(Plan(who))
    BY PlanFacts
  <1>8. DOMAIN F = {Plan(who)[i] : i \in 1 .. k + 1}
    <2>1. \A i \in 1 .. k + 1 : i \in 1 .. k \/ i = k + 1
      BY <1>4
    <2>2. k + 1 \in 1 .. k + 1 /\ \A i \in 1 .. k : i \in 1 .. k + 1
      BY <1>4
    <2> QED BY <1>4, <2>1, <2>2
  <1>9. ReportTyped'
    <2>1. k + 1 \in 0 .. top /\ k + 1 \in Nat /\ (k + 1) + 1 = k + 2
      BY <1>4, <1>7
    <2>2. ReadSoFar(report', k + 1)
      BY <1>5, <1>6, <1>7, <1>8, <2>1 DEF ReadSoFar
    <2>3. \E j \in Nat : ReadSoFar(report', j)
      BY <2>1, <2>2
    <2> QED BY <1>4, <1>6, <2>3 DEF ReportTyped, WindowIsRight
  <1>10. /\ Spent(w, who)' = Spent(w, who) /\ Paid' = Paid
         /\ \A m \in Names : Statement(m, w, who)' = Statement(m, w, who)
    BY <1>3, StatementsRepeat
  <1>11. DOMAIN F \subseteq Names
    <2>1. PICK j \in Nat : ReadSoFar(report', j)
      BY <1>9 DEF ReportTyped
    <2> QED BY <1>6, <2>1, FiguresAreNamed
  \* The headline is read first and only once.
  <1>12. n = "summary" => k = 0 /\ DOMAIN G = {}
    <2>1. k # 0 => k + 1 \in 2 .. Len(Plan(who))
      BY <1>4, <1>7
    <2>2. n = "summary" => k = 0
      BY <1>4, <2>1, PlanFacts
    <2>3. 1 .. 0 = {}
      OBVIOUS
    <2> QED BY <1>4, <1>5, <2>2, <2>3
  <1>13. "summary" \in DOMAIN F =>
           SpendOf(F["summary"]) \subseteq Spent(w, who) /\ F["summary"]["reimbursed"] \subseteq Paid
    <2>1. CASE n = "summary"
      <3>1. F["summary"] = summary(w, who)
        BY <1>4, <2>1 DEF Statement
      <3>2. summary(w, who)["reimbursed"] \subseteq Paid
        BY DEF summary, ByStatus, Statuses, Within, Scoped, Filed, Paid, ClaimsRight
      <3> QED BY <3>1, <3>2, Headline
    <2>2. CASE n # "summary"
      BY <1>2, <1>4, <2>2 DEF SpentStays, Read_, Figure
    <2> QED BY <2>1, <2>2
  <1>14. SpentStays'
    BY <1>6, <1>10, <1>13 DEF SpentStays, Read_, Figure, SpendOf
  <1>15. PICK spent, repaid : spent = SpendOf(F["summary"]) /\ repaid = F["summary"]["reimbursed"]
    OBVIOUS
  <1>16. "summary" \in DOMAIN F => \A m \in DOMAIN F : Covered(m, F[m], spent, repaid, w, who)
    <2> SUFFICES ASSUME "summary" \in DOMAIN F, NEW m \in DOMAIN F
          PROVE Covered(m, F[m], spent, repaid, w, who)
      OBVIOUS
    <2>1. CASE m = n
      <3>1. n \in {"projects", "top_spenders"} => who = Everyone
        BY <1>4, PlanFacts
      <3> QED BY <1>4, <1>13, <1>15, <2>1, <3>1, StatementCovers
    <2>2. CASE m # n
      <3>1. m \in DOMAIN G /\ n # "summary"
        BY <1>4, <1>5, <1>12, <2>2
      <3>2. "summary" \in DOMAIN G /\ F["summary"] = G["summary"] /\ F[m] = G[m]
        BY <1>4, <1>5, <2>2, <3>1
      <3>3. Covered(m, G[m], SpendOf(G["summary"]), G["summary"]["reimbursed"], w, who)
        BY <1>2, <1>4, <1>5, <3>1, <3>2, CoverIs DEF Read_, Figure
      <3> QED BY <1>15, <3>2, <3>3
    <2> QED BY <2>1, <2>2
  <1>20. ChartsCoverTheHeadline'
    <2>2. Spent(w, who)' = Spent(w, who)
      BY <1>10
    <2>3. \A m, f : Covered(m, f, spent, repaid, w, who)' <=> Covered(m, f, spent, repaid, w, who)
      <3>1. PICK S : S = Spent(w, who) /\ S = Spent(w, who)'
        BY <2>2
      <3> QED BY <3>1 DEF Covered, Lost, Keys, Key, Of_, ClaimsOf, SlicesOf, SpendOf, Charts
    <2>4. "summary" \in DOMAIN F =>
            \A m \in DOMAIN F :
              Covered(m, F[m], SpendOf(F["summary"]), F["summary"]["reimbursed"], w, who)'
      BY <1>15, <1>16, <2>3 DEF SpendOf
    <2> QED
      BY <1>6, <2>4, CoverNext
  <1>17. q => \A m \in DOMAIN F : F[m] = Statement(m, w, who)
    <2>1. report.todo # <<>>
      BY DEF Execute
    <2>2. q => \A m \in DOMAIN G : G[m] = Statement(m, w, who)
      BY <1>2, <1>4, <1>5, <2>1 DEF StillTrue, Figure
    <2> QED BY <1>4, <1>5, <2>2
  <1>18. StillTrue'
    BY <1>6, <1>10, <1>11, <1>17 DEF StillTrue, Figure
  <1>19. QuietReportAgrees'
    <2>1. QuietReportAgrees' <=> (Finished' /\ q => Agree(w, F))
      BY <1>6 DEF QuietReportAgrees, Agree, Read_, Figure, InMonths, Slices, ClaimsOf, SlicesOf,
                  BudgetsOf, InPeriod, SpendOf
    <2>2. ASSUME Finished', q PROVE Agree(w, F)
      <3>1. rest = <<>>
        BY <1>6, <2>2 DEF Finished
      <3>2. k + 1 = top
        <4>1. k + 1 \in 0 .. Len(Plan(who)) /\ (k + 1) + 1 = k + 2
          BY <1>4, <1>7
        <4> QED BY <1>5, <1>7, <3>1, <4>1, PlanStep
      <3>3. DOMAIN F = AllOf(who)
        BY <1>7, <1>8, <3>2 DEF AllOf
      <3>4. w.start \in Int /\ w.end \in Int /\ w.start <= w.end
        BY <1>4
      <3>5. \A m \in DOMAIN F : F[m] = Statement(m, w, who)
        BY <1>17, <2>2
      <3> QED BY <3>3, <3>4, <3>5, TrueAgrees
    <2> QED BY <2>1, <2>2
  <1> QED BY <1>9, <1>14, <1>18, <1>19, <1>20 DEF ReportInv, FiguresAgree

LEMMA NextReportInv == BudgetInv /\ ClaimsRight /\ ReportInv /\ [Next]_vars => ReportInv'
  <1> SUFFICES ASSUME BudgetInv, ClaimsRight, ReportInv, [Next]_vars PROVE ReportInv'
    OBVIOUS
  <1>1. CASE UNCHANGED vars
    BY <1>1, SameKeepsReport DEF vars, budgetVars
  <1>2. ASSUME report' = Disturbed, \A w, who : Spent(w, who) \subseteq Spent(w, who)', Paid \subseteq Paid'
        PROVE ReportInv'
    <2>1. CASE report = Closed
      BY <1>2, <2>1 DEF Disturbed, ReportInv, Closed
    <2>2. CASE report # Closed
      BY <1>2, <2>2, DisturbedKeepsReport
    <2> QED BY <2>1, <2>2
  <1>3. CASE Edit
    <2>1. UNCHANGED claimVars
      BY <1>3 DEF Edit, Notice
    <2>2. CASE rows' = rows
      BY <1>3, <2>1, <2>2, SameKeepsReport DEF Edit, Notice
    <2>3. CASE rows' # rows
      <3>1. report' = Disturbed
        BY <1>3, <2>3 DEF Edit, Notice
      <3>2. (\A w, who : Spent(w, who)' = Spent(w, who)) /\ Paid' = Paid
        BY <2>1 DEF Spent, Spend, Within, Scoped, Filed, Paid, claimVars
      <3> QED BY <1>2, <3>1, <3>2
    <2> QED BY <2>2, <2>3
  <1>4. CASE Execute
    BY <1>4, ExecuteKeepsReport
  <1>5. CASE Answer
    BY <1>5 DEF Answer, ReportInv, Closed
  <1>6. ASSUME NEW e \in Claims, NEW s \in Statuses, Move(e, s) PROVE ReportInv'
    <2>1. report' = Disturbed
      BY <1>6 DEF Move
    <2> QED BY <1>2, <1>6, <2>1, MoveKeepsSpent
  <1>7. ASSUME NEW who, NEW w \in Windows, Ask(who, w[1], w[2]) PROVE ReportInv'
    BY <1>7, AskKeepsReport
  <1>8. ASSUME NEW e \in Claims, NEW s \in PayoutStatuses, MovePayout(e, s) PROVE ReportInv'
    <2>1. report' = Disturbed /\ status' = status /\ payout' = [payout EXCEPT ![e] = s]
      BY <1>8 DEF MovePayout
    <2>2. \A w, who : Spent(w, who)' = Spent(w, who)
      BY <2>1 DEF Spent, Spend, Within, Scoped, Filed
    <2>3. Paid \subseteq Paid'
      BY <1>8, <2>1, MovePayoutKeepsClaims DEF Paid, ClaimsRight
    <2> QED BY <1>2, <2>1, <2>2, <2>3
  <1> QED BY <1>1, <1>3, <1>4, <1>5, <1>6, <1>7, <1>8 DEF Next

(* What holds throughout: of the rows, of the claims and of the report. *)
THEOREM ReportInvariant == Spec => [](BudgetInv /\ ClaimsRight /\ ReportInv)
  <1>1. AnalyticsInit => BudgetInv /\ ClaimsRight /\ ReportInv
    BY InitBudgetInv DEF AnalyticsInit, ClaimsRight, ReportInv
  <1>2. BudgetInv /\ ClaimsRight /\ ReportInv /\ [Next]_vars => (BudgetInv /\ ClaimsRight /\ ReportInv)'
    BY NextBudgetInv, NextReportInv
  <1> QED
    BY <1>1, <1>2, PTL DEF Spec

(* Every chart of a report covers the headline, however many claims are
   decided, paid or submitted and budgets edited while it is read, but for the
   slices a LIMIT cuts: then there are more than the limit, and what is cut is
   worth no more than any slice that is shown. A report during which nothing
   changed agrees with itself (analytics/service.py organization_overview,
   my_overview). *)
THEOREM ReportsAgree == Spec => []FiguresAgree
  <1>1. ReportInv => FiguresAgree
    <2> SUFFICES ASSUME ReportInv, report = Closed PROVE FiguresAgree
      BY DEF ReportInv
    <2>1. report.figures = <<>> /\ DOMAIN report.figures = {} /\ ~Finished
      BY DEF Closed, Finished
    <2> QED
      BY <2>1 DEF FiguresAgree, ChartsCoverTheHeadline, QuietReportAgrees, Read_
  <1> QED
    BY <1>1, ReportInvariant, PTL

(* The calendar at its edges: a month's budgets are those with a day in it,
   December's included; the period compared with is as long and ends the day
   before; without a first day there are six months
   (budgets/service.py _month_window, analytics/service.py _window). *)
THEOREM CalendarIsRight == Spec => []CalendarHolds
  <1>1. BudgetInv /\ ReportInv => CalendarHolds
    <2>1. BudgetInv => MonthListsItsBudgets
      BY MonthsList
    <2>2. ReportInv => WindowIsRight
      BY DEF ReportInv, ReportTyped, WindowIsRight
    <2>3. WindowIsRight => WindowsFit
      BY WindowFits
    <2> QED
      BY <2>1, <2>2, <2>3 DEF CalendarHolds
  <1> QED
    BY <1>1, ReportInvariant, PTL
=============================================================================
