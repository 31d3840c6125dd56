----------------------- MODULE ExpenseWorkflow_proofs -----------------------
(***************************************************************************)
(* Proofs about ExpenseWorkflow, for any number of employees, expenses and *)
(* concurrent requests.                                                    *)
(*                                                                         *)
(* The argument: a row lock keeps what its holder checked true until the   *)
(* holder commits (LockedRowIsCurrent, inductive with the types alone);    *)
(* a status that was granted is never taken back, so the unlocked read of  *)
(* create_for_expense is still right when its INSERT runs                  *)
(* (CheckedIsGranted); everything else follows one commit at a time.       *)
(*                                                                         *)
(* The last sections show that the workflow implements ExpenseClaim, that  *)
(* an expense whose submitter has left is frozen, and that the two kinds of *)
(* row locks are never waited for in a circle.                             *)
(***************************************************************************)
EXTENDS ExpenseWorkflow, TLAPS

(* The part of TypeOK about the requests, and the fact that rows are never *)
(* deleted: together they say that a job keeps pointing at a filed expense. *)
JobsTyped ==
  /\ job \in [Requests -> Jobs \cup {Idle}]
  /\ \A r \in Requests : job[r].pc # "idle" =>
       /\ Filed(job[r].on)
       /\ job[r].op \in ExpenseOps <=> job[r].actor \in Users
  /\ updated \subseteq {r \in Requests : job[r].pc = "locked"}
  /\ outrun \subseteq updated

NothingUnfiled == \A d \in Expenses : Filed(d) => Filed(d)'

(* A request that is not idle carries a complete job record. *)
LEMMA JobShape ==
  ASSUME TypeOK, NEW r \in Requests, job[r].pc # "idle"
  PROVE  /\ job[r] \in Jobs
         /\ job[r].on \in Expenses
         /\ Filed(job[r].on)
         /\ expense[job[r].on].owner \in Users
BY DEF Jobs, TypeOK, Idle

(* Ending a request keeps the job table typed. *)
LEMMA FinishTyped ==
  ASSUME TypeOK, NEW r \in Requests, Finish(r), NothingUnfiled
  PROVE  JobsTyped'
<1>1. job' \in [Requests -> Jobs \cup {Idle}]
  BY DEF TypeOK, Finish
<1>2. \A q \in Requests : job'[q].pc # "idle" => job'[q] = job[q]
  BY DEF TypeOK, Finish, Idle
<1>3. \A q \in Requests : job'[q].pc # "idle" => job'[q].on \in Expenses
  BY <1>2, JobShape
<1>4. /\ updated' = updated \ {r} /\ outrun' = outrun \ {r}
      /\ \A q \in Requests \ {r} : job'[q] = job[q]
  BY DEF Finish, TypeOK
<1>5. QED
  BY <1>1, <1>2, <1>3, <1>4 DEF TypeOK, JobsTyped, NothingUnfiled

(* The target of an operation on an expense is an expense status, of an    *)
(* operation on a payout a payout status.                                  *)
LEMMA TargetStatus ==
  /\ \A op \in ExpenseOps : Target(op) \in ExpenseStatus
  /\ \A op \in {"process", "pay", "fail"} : Target(op) \in PayoutStatus
BY DEF ExpenseOps, Decisions, Resubmissions, Target, ExpenseStatus, PayoutStatus

(* Appending a well-typed row to one history keeps all histories typed. *)
LEMMA HistoryTyped ==
  ASSUME NEW S, NEW h \in [Expenses -> Seq(S)], NEW e \in Expenses, NEW x \in S
  PROVE  [h EXCEPT ![e] = Append(@, x)] \in [Expenses -> Seq(S)]
OBVIOUS

(* A request whose row is locked holds it with a legal operation. *)
LEMMA LockedExpenseJob ==
  ASSUME TypeOK, NEW r \in Requests, job[r].pc = "locked", job[r].op \in ExpenseOps
  PROVE  /\ job[r].on \in Expenses
         /\ job[r] \in Jobs
         /\ job[r].actor \in Users
         /\ job[r].seen \in ExpenseStatus \cup {"absent"}
         /\ Target(job[r].op) \in ExpenseStatus
BY JobShape, TargetStatus DEF Jobs, TypeOK

(* update_status writes a well-typed row with the same owner. *)
LEMMA UpdateStatusTyped ==
  ASSUME TypeOK, NEW r \in Requests, NEW reason \in BOOLEAN,
         NEW question \in Nat, NEW answer \in Nat,
         r \in updated, job[r].op \in ExpenseOps,
         UpdateStatus(r, reason, question, answer)
  PROVE  /\ expense' \in [Expenses -> ExpenseRows]
         /\ \A e \in Expenses : (Filed(e) <=> expense[e].owner \in Users)'
         /\ NothingUnfiled
         /\ audit' \in [Expenses -> Seq(AuditRows)]
<1> DEFINE e == job[r].on
           to == Target(job[r].op)
<1>1. job[r].pc = "locked"
  BY DEF TypeOK
<1>2. e \in Expenses /\ to \in ExpenseStatus
  BY <1>1, LockedExpenseJob
<1>3. expense[e].owner \in Users /\ Filed(e)
  BY <1>1, JobShape
<1>4. expense' = [expense EXCEPT ![e] =
                    [status |-> to, owner |-> expense[e].owner, reason |-> reason,
                     question |-> question, answer |-> answer]]
  BY <1>2 DEF UpdateStatus, TypeOK
<1>5. expense' \in [Expenses -> ExpenseRows]
  BY <1>2, <1>3, <1>4 DEF TypeOK, ExpenseRows
<1>6. \A d \in Expenses : (Filed(d) <=> expense[d].owner \in Users)'
  BY <1>2, <1>3, <1>4 DEF TypeOK, Filed, ExpenseStatus, ExpenseRows
<1>7. audit' \in [Expenses -> Seq(AuditRows)]
  <2>1. [actor |-> job[r].actor, old |-> job[r].seen, new |-> to] \in AuditRows
    BY <1>1, LockedExpenseJob DEF AuditRows
  <2>2. QED
    BY <1>2, <2>1, HistoryTyped DEF UpdateStatus, Logged, TypeOK
<1>8. NothingUnfiled
  BY <1>2, <1>3, <1>4 DEF TypeOK, Filed, ExpenseStatus, NothingUnfiled
<1>9. QED
  BY <1>5, <1>6, <1>7, <1>8

(* A request that goes on to its next point keeps the job table typed. *)
LEMMA AdvanceTyped ==
  ASSUME TypeOK, NEW r \in Requests, job[r].pc \in {"authorized", "checked"},
         NEW pc \in {"authorized", "checked", "locked"},
         NEW seen \in ExpenseStatus \cup {"absent"},
         Advance(r, pc, seen), NothingUnfiled
  PROVE  JobsTyped'
<1> DEFINE next == [pc |-> pc, op |-> job[r].op, actor |-> job[r].actor,
                    on |-> job[r].on, seen |-> seen]
<1>1. job[r] \in Jobs
  BY JobShape
<1>2. next \in Jobs
  BY <1>1 DEF Jobs
<1>3. job' = [job EXCEPT ![r] = next] /\ UNCHANGED <<updated, outrun>>
  BY DEF Advance, TypeOK
<1>4. next.op = job[r].op /\ next.actor = job[r].actor /\ next.on = job[r].on
  OBVIOUS
<1> HIDE DEF next
<1>5. job' \in [Requests -> Jobs \cup {Idle}]
  BY <1>2, <1>3 DEF TypeOK
<1>6. ASSUME NEW q \in Requests, job'[q].pc # "idle"
      PROVE  /\ Filed(job[q].on)' /\ (job[q].op \in ExpenseOps <=> job[q].actor \in Users)'
  <2>1. /\ job'[q].on = job[q].on /\ job'[q].op = job[q].op
        /\ job'[q].actor = job[q].actor /\ job[q].pc # "idle"
    BY <1>3, <1>4, <1>6 DEF TypeOK
  <2>2. Filed(job[q].on)' <=> expense'[job'[q].on].status # "absent"
    BY DEF Filed
  <2>3. QED
    BY <2>1, JobShape DEF TypeOK, NothingUnfiled, Filed
<1>7. \A q \in updated : q # r /\ job'[q] = job[q]
  BY <1>3 DEF TypeOK
<1>8. QED
  BY <1>3, <1>5, <1>6, <1>7 DEF JobsTyped, TypeOK

(* The two UPDATEs that run the triggers keep the job table typed. *)
LEMMA UpdatedTyped ==
  ASSUME TypeOK, NEW r \in Requests, Update(r) \/ MarkReimbursed(r)
  PROVE  TypeOK'
<1>1. job[r].pc = "locked" /\ Updated(r)
  BY DEF Update, MarkReimbursed
<1>2. QED
  BY <1>1 DEF Updated, orgVars, rowVars, TypeOK, Filed

(* Type correctness of every step. *)
LEMMA TypeStep == TypeOK /\ [Next]_vars => TypeOK'
<1> SUFFICES ASSUME TypeOK, [Next]_vars PROVE TypeOK'
  OBVIOUS
<1> USE NoUserAssumption
<1>1. ASSUME NEW u \in Users, RemoveMember(u) PROVE TypeOK'
  <2>1. outrun' \subseteq updated
    BY <1>1 DEF RemoveMember, TypeOK
  <2>2. QED
    BY <1>1, <2>1 DEF RemoveMember, rowVars, TypeOK, Filed
<1>2. ASSUME NEW u \in Users, NEW isAdmin \in BOOLEAN, AddMember(u, isAdmin) PROVE TypeOK'
  BY <1>2 DEF AddMember, rowVars, reqVars, TypeOK, Filed, JobsTyped, NothingUnfiled
<1>3. ASSUME NEW u \in Users, NEW e \in Expenses, Submit(u, e) PROVE TypeOK'
  <2>1. expense' = [expense EXCEPT ![e] =
          [status |-> "pending", owner |-> u, reason |-> FALSE, question |-> 0, answer |-> 0]]
    BY <1>3 DEF Submit
  <2>2. expense' \in [Expenses -> ExpenseRows]
    BY <2>1 DEF TypeOK, ExpenseRows, ExpenseStatus
  <2>3. \A d \in Expenses : (Filed(d) <=> expense[d].owner \in Users)'
    BY <2>1 DEF TypeOK, Filed, JobsTyped, NothingUnfiled
  <2>4. audit' \in [Expenses -> Seq(AuditRows)]
    <3>1. [actor |-> u, old |-> "absent", new |-> "pending"] \in AuditRows
      BY DEF AuditRows, ExpenseStatus
    <3>2. QED
      BY <1>3, <3>1, HistoryTyped DEF Submit, Logged, TypeOK
  <2>5. NothingUnfiled
    BY <2>1 DEF TypeOK, Filed, NothingUnfiled
  <2>6. JobsTyped'
    BY <1>3, <2>5, JobShape DEF Submit, reqVars, TypeOK, JobsTyped, NothingUnfiled
  <2>7. QED
    BY <1>3, <2>2, <2>3, <2>4, <2>6 DEF Submit, orgVars, reqVars, TypeOK, JobsTyped
<1>4. ASSUME NEW r \in Requests, NEW u \in Users, NEW op \in Ops, NEW e \in Expenses,
             Authorize(r, u, op, e)
      PROVE TypeOK'
  <2>1. [pc |-> "authorized", op |-> op, on |-> e, seen |-> "absent",
         actor |-> IF op \in ExpenseOps THEN u ELSE NoUser] \in Jobs
    BY DEF Jobs
  <2>2. QED
    BY <1>4, <2>1 DEF Authorize, orgVars, rowVars, TypeOK, Filed, JobsTyped, NothingUnfiled
<1>5. ASSUME NEW r \in Requests, Crash(r) PROVE TypeOK'
  BY <1>5, FinishTyped DEF Crash, orgVars, rowVars, TypeOK, Filed, JobsTyped, NothingUnfiled
<1>6. ASSUME NEW r \in Requests, LockExpense(r) PROVE TypeOK'
  <2>1. job[r] \in Jobs
    BY <1>6, JobShape DEF LockExpense
  <2>2. CASE Advance(r, "locked", expense[job[r].on].status)
    <3>1. expense[job[r].on].status \in ExpenseStatus \cup {"absent"}
      BY <2>1 DEF Jobs, TypeOK, ExpenseRows
    <3>2. QED
      BY <1>6, <2>2, <3>1, AdvanceTyped DEF LockExpense, orgVars, rowVars, TypeOK, Filed, JobsTyped, NothingUnfiled
  <2>3. CASE Finish(r)
    BY <1>6, <2>3, FinishTyped DEF LockExpense, orgVars, rowVars, TypeOK, Filed, JobsTyped, NothingUnfiled
  <2>4. QED
    BY <1>6, <2>2, <2>3 DEF LockExpense
<1>7. ASSUME NEW r \in Requests, Decide(r) PROVE TypeOK'
  <2>1. r \in updated /\ job[r].pc = "locked" /\ job[r].op \in ExpenseOps
    BY <1>7 DEF Decide, ExpenseOps, TypeOK
  <2>2. [by |-> job[r].actor, action |-> Target(job[r].op)] \in ApprovalRows
    BY <1>7, <2>1, LockedExpenseJob DEF Decide, ApprovalRows, Decisions, Target
  <2>3. approvals' \in [Expenses -> Seq(ApprovalRows)]
    BY <1>7, <2>1, <2>2, LockedExpenseJob, HistoryTyped DEF Decide, Recorded, TypeOK
  <2>4. UpdateStatus(r, job[r].op = "reject", 0, 0)
    BY <1>7 DEF Decide
  <2>5. expense[job[r].on].owner \in Users
    BY <2>1, JobShape
  <2>6. inbox' \subseteq Notices
    BY <1>7, <2>1, <2>5, LockedExpenseJob DEF Decide, Notify, Notices, TypeOK
  <2>7. Finish(r)
    BY <2>4 DEF UpdateStatus
  <2>8. QED
    BY <1>7, <2>1, <2>3, <2>4, <2>6, <2>7, UpdateStatusTyped, FinishTyped
    DEF Decide, orgVars, TypeOK, JobsTyped, NothingUnfiled
<1>8. ASSUME NEW r \in Requests, RequestInfo(r) PROVE TypeOK'
  <2>1. r \in updated /\ job[r].pc = "locked" /\ job[r].op \in ExpenseOps
    BY <1>8 DEF RequestInfo, ExpenseOps, TypeOK
  <2>2. [by |-> job[r].actor, action |-> "info_requested"] \in ApprovalRows
    BY <2>1, LockedExpenseJob DEF ApprovalRows
  <2>3. approvals' \in [Expenses -> Seq(ApprovalRows)]
    BY <1>8, <2>1, <2>2, LockedExpenseJob, HistoryTyped DEF RequestInfo, Recorded, TypeOK
  <2>4. UpdateStatus(r, expense[job[r].on].reason, Len(approvals[job[r].on]) + 1, 0)
    BY <1>8 DEF RequestInfo
  <2>5. expense[job[r].on].owner \in Users
    BY <2>1, JobShape
  <2>6. inbox' \subseteq Notices
    BY <1>8, <2>1, <2>5, LockedExpenseJob
    DEF RequestInfo, Notify, Notices, TypeOK, ExpenseStatus
  <2>7. expense[job[r].on].reason \in BOOLEAN /\ Len(approvals[job[r].on]) + 1 \in Nat
    BY <2>1, LockedExpenseJob DEF TypeOK, ExpenseRows
  <2>8. Finish(r)
    BY <2>4 DEF UpdateStatus
  <2>9. QED
    BY <1>8, <2>1, <2>3, <2>4, <2>6, <2>7, <2>8, UpdateStatusTyped, FinishTyped
    DEF RequestInfo, orgVars, TypeOK, JobsTyped, NothingUnfiled
<1>9. ASSUME NEW r \in Requests, Resubmit(r) PROVE TypeOK'
  <2> DEFINE e == job[r].on
             answer == IF job[r].op = "answer" THEN Len(approvals[e]) + 1 ELSE 0
  <2>1. r \in updated /\ job[r].pc = "locked" /\ job[r].op \in ExpenseOps
    BY <1>9 DEF Resubmit, ExpenseOps, TypeOK
  <2>2. [by |-> job[r].actor, action |-> "info_answered"] \in ApprovalRows
    BY <2>1, LockedExpenseJob DEF ApprovalRows
  <2>3. approvals' \in [Expenses -> Seq(ApprovalRows)]
    <3>1. CASE job[r].op = "answer"
      <4>1. Recorded(e, job[r].actor, "info_answered")
        BY <1>9, <3>1 DEF Resubmit
      <4>2. e \in Expenses
        BY <2>1, LockedExpenseJob
      <4>3. QED
        BY <2>2, <4>1, <4>2, HistoryTyped DEF Recorded, TypeOK
    <3>2. CASE job[r].op # "answer"
      BY <1>9, <3>2 DEF Resubmit, TypeOK
    <3>3. QED
      BY <3>1, <3>2
  <2>4. UpdateStatus(r, expense[e].reason, expense[e].question, answer)
    BY <1>9 DEF Resubmit
  <2>5. expense[e].reason \in BOOLEAN /\ expense[e].question \in Nat /\ answer \in Nat
    BY <2>1, LockedExpenseJob DEF TypeOK, ExpenseRows
  <2>6. Finish(r)
    BY <2>4 DEF UpdateStatus
  <2>7. QED
    BY <1>9, <2>1, <2>3, <2>4, <2>5, <2>6, UpdateStatusTyped, FinishTyped
    DEF Resubmit, orgVars, TypeOK, JobsTyped, NothingUnfiled
<1>10. ASSUME NEW r \in Requests, RejectedByTrigger(r) \/ PayRefused(r) PROVE TypeOK'
  BY <1>10, FinishTyped DEF RejectedByTrigger, PayRefused, orgVars, rowVars, TypeOK, Filed, JobsTyped, NothingUnfiled
<1>11. ASSUME NEW r \in Requests, ReadApproved(r) PROVE TypeOK'
  BY <1>11, AdvanceTyped, FinishTyped DEF ReadApproved, orgVars, rowVars, TypeOK, Filed, JobsTyped, NothingUnfiled
<1>12. ASSUME NEW r \in Requests, LockPayout(r) PROVE TypeOK'
  BY <1>12, AdvanceTyped, FinishTyped DEF LockPayout, orgVars, rowVars, TypeOK, Filed, JobsTyped, NothingUnfiled
<1>13. ASSUME NEW r \in Requests, NEW reference \in BOOLEAN, CreatePayout(r, reference)
       PROVE TypeOK'
  <2>1. job[r].on \in Expenses
    BY <1>13, JobShape DEF CreatePayout, Jobs
  <2>2. payout' \in [Expenses -> PayoutRows]
    BY <1>13, <2>1 DEF CreatePayout, AbsentPayout, TypeOK, PayoutStatus, PayoutRows
  <2>3. QED
    BY <1>13, <2>2, FinishTyped DEF CreatePayout, orgVars, TypeOK, Filed, JobsTyped, NothingUnfiled
<1>14. ASSUME NEW r \in Requests, NEW reference \in BOOLEAN, MovePayout(r, reference)
       PROVE TypeOK'
  <2> DEFINE e == job[r].on
  <2>1. e \in Expenses /\ job[r].op \in {"process", "fail"}
    BY <1>14, JobShape DEF MovePayout, Jobs
  <2>2. PICK st \in PayoutStatus : Target(job[r].op) = st
    BY <2>1, TargetStatus
  <2>3. payout' \in [Expenses -> PayoutRows]
    <3>1. payout' = [payout EXCEPT ![e] =
             [status |-> st, reference |-> payout[e].reference \/ reference,
              receipt |-> payout[e].receipt]]
      BY <1>14, <2>1, <2>2 DEF MovePayout, TypeOK
    <3>2. QED
      BY <2>1, <3>1 DEF TypeOK, PayoutRows
  <2>4. inbox' \subseteq Notices
    BY <1>14, <2>1, <2>2 DEF MovePayout, Notify, Notices, TypeOK
  <2>5. QED
    BY <1>14, <2>3, <2>4, FinishTyped DEF MovePayout, orgVars, TypeOK, Filed, JobsTyped, NothingUnfiled
<1>18. ASSUME NEW r \in Requests, Pay(r) PROVE TypeOK'
  <2> DEFINE e == job[r].on
  <2>1. e \in Expenses /\ Filed(e)
    BY <1>18, JobShape DEF Pay, TypeOK
  <2>2. expense' \in [Expenses -> ExpenseRows]
    <3>1. PICK row \in ExpenseRows : row = expense[e]
      BY <2>1 DEF TypeOK
    <3>2. [row EXCEPT !.status = "reimbursed"] \in ExpenseRows
      BY DEF ExpenseRows, ExpenseStatus
    <3>3. QED
      BY <1>18, <2>1, <3>1, <3>2 DEF Pay, TypeOK
  <2>3. \A d \in Expenses : (Filed(d) <=> expense[d].owner \in Users)'
    BY <1>18, <2>1 DEF Pay, TypeOK, Filed, ExpenseRows
  <2>4. inbox' \subseteq Notices
    BY <1>18, <2>1 DEF Pay, Notify, Notices, TypeOK, PayoutStatus, Filed
  <2>5. payout' \in [Expenses -> PayoutRows]
    BY <1>18, <2>1 DEF Pay, TypeOK, PayoutStatus, PayoutRows
  <2>6. NothingUnfiled
    BY <1>18, <2>1 DEF Pay, TypeOK, Filed, ExpenseRows, NothingUnfiled
  <2>7. JobsTyped'
    BY <1>18, <2>6, FinishTyped DEF Pay
  <2>8. QED
    BY <1>18, <2>2, <2>3, <2>4, <2>5, <2>7 DEF Pay, orgVars, TypeOK, JobsTyped
<1>15. ASSUME NEW r \in Requests, AttachReceipt(r) PROVE TypeOK'
  <2>1. job[r].on \in Expenses
    BY <1>15, JobShape DEF AttachReceipt, Jobs
  <2>2. QED
    BY <1>15, <2>1, FinishTyped DEF AttachReceipt, PayoutRows, orgVars, TypeOK, Filed, JobsTyped, NothingUnfiled
<1>19. ASSUME NEW r \in Requests, Update(r) \/ MarkReimbursed(r) PROVE TypeOK'
  BY <1>19, UpdatedTyped
<1>16. CASE UNCHANGED vars
  BY <1>16 DEF vars, TypeOK, Filed, JobsTyped, NothingUnfiled
<1>17. QED
  BY <1>1, <1>2, <1>3, <1>4, <1>5, <1>6, <1>7, <1>8, <1>9, <1>10, <1>11, <1>12, <1>13,
     <1>14, <1>15, <1>16, <1>18, <1>19
  DEF Next, Handle

LEMMA InitTyped == Init => TypeOK
<1> SUFFICES ASSUME Init PROVE TypeOK
  OBVIOUS
<1>1. members \subseteq Users /\ admins \subseteq members
  BY DEF Init
<1>2. /\ expense \in [Expenses -> ExpenseRows]
      /\ \A e \in Expenses : Filed(e) <=> expense[e].owner \in Users
  BY NoUserAssumption DEF Init, AbsentExpense, ExpenseRows, Filed
<1>3. payout \in [Expenses -> PayoutRows]
  BY DEF Init, AbsentPayout, PayoutRows
<1>4. QED
  BY <1>1, <1>2, <1>3 DEF Init, TypeOK, Idle

(* Every variable keeps its type, and a request in flight always works on  *)
(* an expense that exists: rows are inserted by submit and never deleted.  *)
THEOREM TypeCorrect == Spec => []TypeOK
BY InitTyped, TypeStep, PTL DEF Spec

\* A payout is being created only for an expense that was granted.
CheckedIsGranted ==
  \A r \in Requests : job[r].pc = "checked" =>
    job[r].op = "create_payout" /\ Granted(job[r].on)

-----------------------------------------------------------------------------
(* Row locks. *)

\* The part of LockedRowIsCurrent about the rows selected FOR UPDATE.
LocksHold ==
  /\ \A r \in Requests : job[r].pc = "locked" => CheckStillHolds(r)
  /\ RowsHeldOnce

\* No request takes a row lock in this step.
NoNewLock ==
  \A q \in Requests : job'[q].pc = "locked" => job'[q] = job[q]

\* The rows that stay locked are not written in this step.
LockedRowsAreLeftAlone ==
  \A q \in Requests : job'[q].pc = "locked" =>
    IF job[q].op \in ExpenseOps
      THEN expense'[job[q].on] = expense[job[q].on]
      ELSE payout'[job[q].on] = payout[job[q].on]

LEMMA FinishTakesNoLock ==
  ASSUME TypeOK, NEW r \in Requests, Finish(r)
  PROVE  /\ NoNewLock
         /\ job'[r].pc = "idle"
         /\ \A q \in Requests : job'[q].pc # "idle" => job'[q] = job[q]
BY DEF TypeOK, Finish, Idle, NoNewLock

LEMMA OpsAreDisjoint ==
  /\ ExpenseOps \cap PayoutOps = {}
  /\ "create_payout" \notin ExpenseOps \cup PayoutOps
  /\ \A op \in ExpenseOps : op \in Decisions \/ op = "request_info" \/ op \in Resubmissions
BY DEF ExpenseOps, PayoutOps, Decisions, Resubmissions

(* Nothing a lock holder relies on moves unless somebody writes its row. *)
LEMMA LocksFrame ==
  ASSUME TypeOK, LocksHold, NoNewLock, LockedRowsAreLeftAlone
  PROVE  LocksHold'
<1>1. RowsHeldOnce'
  <2> SUFFICES ASSUME NEW r \in Requests, NEW s \in Requests,
                      job'[r].pc = "locked", job'[s].pc = "locked", SameRow(r, s)'
               PROVE  r = s
    BY DEF RowsHeldOnce
  <2>1. job'[r] = job[r] /\ job'[s] = job[s]
    BY DEF NoNewLock
  <2>2. SameRow(r, s)
    BY <2>1 DEF SameRow
  <2>3. QED
    BY <2>1, <2>2 DEF LocksHold, RowsHeldOnce
<1>2. ASSUME NEW r \in Requests, job'[r].pc = "locked" PROVE CheckStillHolds(r)'
  <2>1. job'[r] = job[r]
    BY <1>2 DEF NoNewLock
  <2>2. CheckStillHolds(r)
    BY <1>2, <2>1 DEF LocksHold
  <2>3. CASE job[r].op \in ExpenseOps
    BY <1>2, <2>1, <2>2, <2>3, OpsAreDisjoint
    DEF CheckStillHolds, LockedRowsAreLeftAlone, MayProceed
  <2>4. CASE job[r].op \notin ExpenseOps
    BY <1>2, <2>1, <2>2, <2>4 DEF CheckStillHolds, LockedRowsAreLeftAlone, PayoutReady
  <2>5. QED
    BY <2>3, <2>4
<1>3. QED
  BY <1>1, <1>2 DEF LocksHold

(* Whoever writes a row holds its lock alone. *)
LEMMA WriterFrame ==
  ASSUME TypeOK, LocksHold, NEW r \in Requests, Finish(r), job[r].pc = "locked",
         \A d \in Expenses : d # job[r].on \/ job[r].op \notin ExpenseOps
                               => expense'[d] = expense[d],
         \A d \in Expenses : d # job[r].on \/ job[r].op \notin PayoutOps
                               => payout'[d] = payout[d]
  PROVE  LocksHold'
<1>1. NoNewLock /\ job'[r].pc = "idle"
  BY FinishTakesNoLock
<1>2. ASSUME NEW q \in Requests, job'[q].pc = "locked"
      PROVE IF job[q].op \in ExpenseOps
              THEN expense'[job[q].on] = expense[job[q].on]
              ELSE payout'[job[q].on] = payout[job[q].on]
  <2>1. job[q].pc = "locked" /\ q # r
    BY <1>1, <1>2 DEF NoNewLock
  <2>2. job[q].on \in Expenses /\ job[r].on \in Expenses
    BY <2>1, JobShape
  <2>3. job[r].op \in ExpenseOps \/ job[r].op \in PayoutOps
    BY DEF LocksHold, CheckStillHolds
  <2>4. ~SameRow(q, r)
    BY <2>1 DEF LocksHold, RowsHeldOnce
  <2>5. QED
    BY <2>2, <2>3, <2>4, OpsAreDisjoint DEF SameRow
<1>3. QED
  BY <1>1, <1>2, LocksFrame DEF LockedRowsAreLeftAlone

(* A request whose UPDATE has run holds the row, or the payout, it asked for. *)
LEMMA UpdatedIsLocked ==
  ASSUME TypeOK, NEW r \in updated
  PROVE  r \in Requests /\ job[r].pc = "locked"
BY DEF TypeOK

(* What update_status finds and leaves: the row was open, it is the one    *)
(* the request judged, and only it changes.                                *)
LEMMA UpdateFacts ==
  ASSUME TypeOK, LocksHold, NEW r \in Requests,
         NEW reason, NEW question, NEW answer, r \in updated,
         job[r].op \in ExpenseOps, UpdateStatus(r, reason, question, answer)
  PROVE  LET e == job[r].on IN
         /\ job[r].pc = "locked" /\ Finish(r)
         /\ e \in Expenses /\ job[r].actor \in Users
         /\ Open(e) /\ job[r].seen = expense[e].status
         /\ MayProceed(job[r].op, job[r].actor, e)
         /\ expense' = [expense EXCEPT ![e] =
                          [status |-> Target(job[r].op), owner |-> expense[e].owner,
                           reason |-> reason, question |-> question, answer |-> answer]]
<1> DEFINE e == job[r].on
<1>1. job[r].pc = "locked" /\ Finish(r)
  BY UpdatedIsLocked DEF UpdateStatus
<1>2. e \in Expenses /\ job[r].actor \in Users
  BY <1>1, LockedExpenseJob
<1>3. CheckStillHolds(r)
  BY <1>1 DEF LocksHold
<1>4. job[r].seen = expense[e].status /\ MayProceed(job[r].op, job[r].actor, e)
  BY <1>3, OpsAreDisjoint DEF CheckStillHolds
<1>5. Open(e)
  <2>1. Target(job[r].op) # "reimbursed"
    BY DEF Target, ExpenseOps, Decisions, Resubmissions
  <2>2. QED
    BY <1>4, <2>1 DEF MayProceed, ExpenseMoves, Open
<1>6. expense' = [expense EXCEPT ![e] =
                    [status |-> Target(job[r].op), owner |-> expense[e].owner,
                     reason |-> reason, question |-> question, answer |-> answer]]
  BY <1>2 DEF UpdateStatus, TypeOK
<1>7. QED
  BY <1>1, <1>2, <1>4, <1>5, <1>6

(* The holder of a payout's lock finds it as it judged it. *)
LEMMA PayoutFacts ==
  ASSUME TypeOK, LocksHold, NEW r \in Requests,
         job[r].pc = "locked", job[r].op \in PayoutOps
  PROVE  /\ job[r].on \in Expenses
         /\ PayoutReady(job[r].op, job[r].on)
         /\ HasPayout(job[r].on)
<1>1. CheckStillHolds(r)
  BY DEF LocksHold
<1>2. PayoutReady(job[r].op, job[r].on)
  BY <1>1, OpsAreDisjoint DEF CheckStillHolds
<1>3. QED
  BY <1>2, JobShape DEF PayoutReady, PayoutMoves, HasPayout

(* A request that takes a lock found it free and its check fulfilled. *)
LEMMA LockTaken ==
  ASSUME TypeOK, LocksHold, NEW r \in Requests,
         LockExpense(r) \/ LockPayout(r)
  PROVE  LocksHold'
<1> DEFINE e == job[r].on
<1>1. UNCHANGED <<expense, payout>> /\ job[r].pc = "authorized" /\ e \in Expenses
  BY JobShape DEF LockExpense, LockPayout, rowVars
<1>2. CASE Finish(r)
  <2>1. LockedRowsAreLeftAlone
    BY <1>1 DEF LockedRowsAreLeftAlone
  <2>2. QED
    BY <1>2, <2>1, FinishTakesNoLock, LocksFrame
<1>3. CASE /\ LockExpense(r) /\ MayProceed(job[r].op, job[r].actor, e)
           /\ Advance(r, "locked", expense[e].status)
  <2>1. job[r].op \in ExpenseOps /\ ~ExpenseLocked(e)
    BY <1>3 DEF LockExpense
  <2>2. /\ job'[r] = [pc |-> "locked", op |-> job[r].op, actor |-> job[r].actor,
                      on |-> e, seen |-> expense[e].status]
        /\ \A q \in Requests : q # r => job'[q] = job[q]
    BY <1>3 DEF Advance, TypeOK
  <2>3. \A q \in Requests : job[q].pc = "locked" => ~SameRow(q, r)
    BY <2>1 DEF ExpenseLocked, SameRow
  <2>4. RowsHeldOnce'
    BY <2>2, <2>3 DEF RowsHeldOnce, SameRow, LocksHold
  <2>5. ASSUME NEW q \in Requests, job'[q].pc = "locked" PROVE CheckStillHolds(q)'
    <3>1. CASE q = r
      BY <1>1, <1>3, <2>1, <2>2, <3>1 DEF CheckStillHolds, MayProceed
    <3>2. CASE q # r
      BY <1>1, <2>2, <2>5, <3>2
      DEF LocksHold, CheckStillHolds, MayProceed, PayoutReady
    <3>3. QED
      BY <3>1, <3>2
  <2>6. QED
    BY <2>4, <2>5 DEF LocksHold
<1>4. CASE /\ LockPayout(r) /\ PayoutReady(job[r].op, e)
           /\ Advance(r, "locked", "absent")
  <2>1. job[r].op \in PayoutOps /\ ~PayoutLocked(e)
    BY <1>4 DEF LockPayout
  <2>2. /\ job'[r] = [pc |-> "locked", op |-> job[r].op, actor |-> job[r].actor,
                      on |-> e, seen |-> "absent"]
        /\ \A q \in Requests : q # r => job'[q] = job[q]
    BY <1>4 DEF Advance, TypeOK
  <2>3. \A q \in Requests : job[q].pc = "locked" => ~SameRow(q, r)
    BY <2>1, OpsAreDisjoint DEF PayoutLocked, SameRow, LocksHold, CheckStillHolds
  <2>4. RowsHeldOnce'
    BY <2>2, <2>3 DEF RowsHeldOnce, SameRow, LocksHold
  <2>5. ASSUME NEW q \in Requests, job'[q].pc = "locked" PROVE CheckStillHolds(q)'
    <3>1. CASE q = r
      BY <1>1, <1>4, <2>1, <2>2, <3>1 DEF CheckStillHolds, PayoutReady
    <3>2. CASE q # r
      BY <1>1, <2>2, <2>5, <3>2
      DEF LocksHold, CheckStillHolds, MayProceed, PayoutReady
    <3>3. QED
      BY <3>1, <3>2
  <2>6. QED
    BY <2>4, <2>5 DEF LocksHold
<1>5. QED
  BY <1>2, <1>3, <1>4 DEF LockExpense, LockPayout

(* A payment whose UPDATE of the expense has run has that row to itself. *)
ExpensesHeld == \A r \in updated : ExpenseIsHeld(r)

(* Row locks do their work in every step. *)
LEMMA LocksStep ==
  ASSUME TypeOK, LocksHold, ExpensesHeld, [Next]_vars
  PROVE  LocksHold'
<1>1. ASSUME UNCHANGED <<expense, payout, job>> PROVE LocksHold'
  BY <1>1, LocksFrame DEF NoNewLock, LockedRowsAreLeftAlone
<1>2. ASSUME NEW r \in Requests, Finish(r), UNCHANGED <<expense, payout>>
      PROVE LocksHold'
  BY <1>2, FinishTakesNoLock, LocksFrame DEF LockedRowsAreLeftAlone
<1>3. ASSUME NEW u \in Users,
             RemoveMember(u) \/ \E isAdmin \in BOOLEAN : AddMember(u, isAdmin)
      PROVE LocksHold'
  BY <1>1, <1>3 DEF RemoveMember, AddMember, rowVars, reqVars
<1>4. ASSUME NEW u \in Users, NEW e \in Expenses, Submit(u, e) PROVE LocksHold'
  <2>1. ASSUME NEW q \in Requests, job[q].pc = "locked" PROVE job[q].on # e
    BY <1>4, <2>1 DEF Submit, TypeOK
  <2>2. NoNewLock /\ LockedRowsAreLeftAlone
    BY <1>4, <2>1 DEF Submit, reqVars, TypeOK, NoNewLock, LockedRowsAreLeftAlone
  <2>3. QED
    BY <2>2, LocksFrame
<1>5. ASSUME NEW r \in Requests, NEW u \in Users, NEW op \in Ops, NEW e \in Expenses,
             Authorize(r, u, op, e)
      PROVE LocksHold'
  <2>1. NoNewLock
    BY <1>5 DEF Authorize, TypeOK, NoNewLock
  <2>2. LockedRowsAreLeftAlone
    BY <1>5 DEF Authorize, rowVars, LockedRowsAreLeftAlone
  <2>3. QED
    BY <2>1, <2>2, LocksFrame
<1>6. ASSUME NEW r \in Requests, LockExpense(r) \/ LockPayout(r) PROVE LocksHold'
  BY <1>6, LockTaken
<1>7. ASSUME NEW r \in Requests, Decide(r) \/ RequestInfo(r) \/ Resubmit(r)
      PROVE LocksHold'
  <2>1. r \in updated /\ job[r].op \in ExpenseOps /\ UNCHANGED payout
    BY <1>7 DEF Decide, RequestInfo, Resubmit, ExpenseOps
  <2>2. PICK reason, question, answer : UpdateStatus(r, reason, question, answer)
    BY <1>7 DEF Decide, RequestInfo, Resubmit
  <2>3. /\ job[r].pc = "locked" /\ Finish(r)
        /\ \A d \in Expenses : d # job[r].on => expense'[d] = expense[d]
    BY <2>1, <2>2, UpdateFacts DEF TypeOK
  <2>4. QED
    BY <2>1, <2>3, WriterFrame
<1>8. ASSUME NEW r \in Requests, RejectedByTrigger(r) \/ PayRefused(r) \/ Crash(r)
      PROVE LocksHold'
  BY <1>2, <1>8 DEF RejectedByTrigger, PayRefused, Crash, rowVars
<1>9. ASSUME NEW r \in Requests, ReadApproved(r) PROVE LocksHold'
  <2>1. CASE Finish(r)
    BY <1>2, <1>9, <2>1 DEF ReadApproved, rowVars
  <2>2. CASE Advance(r, "checked", "absent")
    <3>1. NoNewLock
      BY <2>2 DEF Advance, TypeOK, NoNewLock
    <3>2. LockedRowsAreLeftAlone
      BY <1>9 DEF ReadApproved, rowVars, LockedRowsAreLeftAlone
    <3>3. QED
      BY <3>1, <3>2, LocksFrame
  <2>3. QED
    BY <1>9, <2>1, <2>2 DEF ReadApproved
<1>10. ASSUME NEW r \in Requests, NEW reference \in BOOLEAN, CreatePayout(r, reference)
       PROVE LocksHold'
  <2>1. job[r].on \in Expenses /\ Finish(r) /\ UNCHANGED expense
    BY <1>10, JobShape DEF CreatePayout
  <2>2. NoNewLock
    BY <2>1, FinishTakesNoLock
  <2>3. ASSUME NEW q \in Requests, job[q].pc = "locked", job[q].op \notin ExpenseOps
        PROVE payout'[job[q].on] = payout[job[q].on]
    <3>1. job[q].op \in PayoutOps
      BY <2>3 DEF LocksHold, CheckStillHolds
    <3>2. HasPayout(job[q].on) /\ job[q].on \in Expenses
      BY <2>3, <3>1, PayoutFacts
    <3>3. QED
      BY <1>10, <2>1, <3>2 DEF CreatePayout, TypeOK, HasPayout
  <2>4. LockedRowsAreLeftAlone
    BY <2>1, <2>2, <2>3 DEF NoNewLock, LockedRowsAreLeftAlone
  <2>5. QED
    BY <2>2, <2>4, LocksFrame
<1>11. ASSUME NEW r \in Requests, NEW reference \in BOOLEAN,
              MovePayout(r, reference) \/ AttachReceipt(r)
       PROVE LocksHold'
  <2>1. job[r].op \in PayoutOps /\ job[r].pc = "locked" /\ Finish(r) /\ UNCHANGED expense
    BY <1>11 DEF MovePayout, AttachReceipt, PayoutOps
  <2>2. \A d \in Expenses : d # job[r].on => payout'[d] = payout[d]
    BY <1>11 DEF MovePayout, AttachReceipt, TypeOK
  <2>3. QED
    BY <2>1, <2>2, WriterFrame
<1>12. ASSUME NEW r \in Requests, Pay(r) PROVE LocksHold'
  <2> DEFINE e == job[r].on
  <2>1. job[r].op \in PayoutOps /\ job[r].pc = "locked" /\ Finish(r) /\ ~ExpenseLocked(e)
    BY <1>12, UpdatedIsLocked, OpsAreDisjoint DEF Pay, PayoutOps, ExpensesHeld, ExpenseIsHeld
  <2>2. e \in Expenses
    BY <2>1, JobShape
  <2>3. \A d \in Expenses : d # e => payout'[d] = payout[d] /\ expense'[d] = expense[d]
    BY <1>12, <2>2 DEF Pay, TypeOK
  <2>4. NoNewLock /\ job'[r].pc = "idle"
    BY <2>1, FinishTakesNoLock
  <2>5. ASSUME NEW q \in Requests, job'[q].pc = "locked" PROVE job[q].on # e
    <3>1. job[q].pc = "locked" /\ q # r
      BY <2>4, <2>5 DEF NoNewLock
    <3>2. ~SameRow(q, r)
      BY <2>1, <3>1 DEF LocksHold, RowsHeldOnce
    <3>3. QED
      BY <2>1, <3>1, <3>2, OpsAreDisjoint DEF SameRow, ExpenseLocked
  <2>6. LockedRowsAreLeftAlone
    <3>1. \A q \in Requests : job'[q].pc = "locked" => job[q].on \in Expenses
      BY <2>4, JobShape DEF NoNewLock
    <3>2. QED
      BY <2>3, <2>5, <3>1 DEF LockedRowsAreLeftAlone
  <2>7. QED
    BY <2>4, <2>6, LocksFrame
<1>13. CASE UNCHANGED vars
  BY <1>1, <1>13 DEF vars
<1>14. ASSUME NEW r \in Requests, Update(r) \/ MarkReimbursed(r) PROVE LocksHold'
  BY <1>1, <1>14 DEF Update, MarkReimbursed, Updated, rowVars
<1>15. QED
  BY <1>3, <1>4, <1>5, <1>6, <1>7, <1>8, <1>9, <1>10, <1>11, <1>12, <1>13, <1>14
  DEF Next, Handle

(* A booked expense stays approved and unlocked while nobody else writes it. *)
LEMMA HeldFrame ==
  ASSUME TypeOK, TypeOK', ExpensesHeld, NoNewLock, updated' \subseteq updated,
         \A r \in updated' : job[r].op = "pay" =>
           expense'[job[r].on].status = expense[job[r].on].status
  PROVE  ExpensesHeld'
<1> SUFFICES ASSUME NEW r \in updated' PROVE ExpenseIsHeld(r)'
  BY DEF ExpensesHeld
<1>1. r \in Requests /\ job'[r].pc = "locked" /\ job'[r] = job[r] /\ ExpenseIsHeld(r)
  BY DEF TypeOK, NoNewLock, ExpensesHeld
<1>2. ASSUME ExpenseLocked(job[r].on)' PROVE ExpenseLocked(job[r].on)
  <2>1. PICK q \in Requests : /\ job'[q].pc = "locked" /\ job'[q].on = job'[r].on
                              /\ job'[q].op \in ExpenseOps
    BY <1>2 DEF ExpenseLocked
  <2>2. QED
    BY <1>1, <2>1 DEF NoNewLock, ExpenseLocked
<1>3. QED
  BY <1>1, <1>2 DEF ExpenseIsHeld

LEMMA HeldStep ==
  ASSUME TypeOK, TypeOK', LocksHold, ExpensesHeld, [Next]_vars
  PROVE  ExpensesHeld'
<1>1. ASSUME NoNewLock, updated' \subseteq updated, UNCHANGED expense PROVE ExpensesHeld'
  BY <1>1, HeldFrame
<1>2. ASSUME NEW r \in Requests, Finish(r), UNCHANGED expense PROVE ExpensesHeld'
  BY <1>1, <1>2, FinishTakesNoLock DEF Finish
<1>3. ASSUME NEW u \in Users,
             RemoveMember(u) \/ \E isAdmin \in BOOLEAN : AddMember(u, isAdmin)
      PROVE ExpensesHeld'
  BY <1>1, <1>3 DEF RemoveMember, AddMember, rowVars, reqVars, NoNewLock
<1>4. ASSUME NEW u \in Users, NEW d \in Expenses, Submit(u, d) PROVE ExpensesHeld'
  <2>1. \A q \in updated : job[q].on \in Expenses /\ job[q].on # d
    BY <1>4, UpdatedIsLocked, JobShape DEF Submit
  <2>2. QED
    BY <1>4, <2>1, HeldFrame DEF Submit, reqVars, TypeOK, NoNewLock
<1>5. ASSUME NEW r \in Requests, NEW u \in Users, NEW op \in Ops, NEW d \in Expenses,
             Authorize(r, u, op, d)
      PROVE ExpensesHeld'
  BY <1>1, <1>5 DEF Authorize, rowVars, TypeOK, NoNewLock
<1>6. ASSUME NEW r \in Requests, LockExpense(r) \/ LockPayout(r) PROVE ExpensesHeld'
  <2>1. CASE Finish(r)
    BY <1>2, <1>6, <2>1 DEF LockExpense, LockPayout, rowVars
  <2>2. CASE \E seen : Advance(r, "locked", seen)
    <3>1. /\ UNCHANGED <<expense, updated>> /\ job[r].pc = "authorized"
          /\ job'[r].on = job[r].on /\ job'[r].op = job[r].op
          /\ \A q \in Requests : q # r => job'[q] = job[q]
      BY <1>6, <2>2 DEF LockExpense, LockPayout, rowVars, Advance, TypeOK
    <3>2. ASSUME NEW q \in updated PROVE ExpenseIsHeld(q)'
      <4>1. q \in Requests /\ q # r /\ job'[q] = job[q] /\ ExpenseIsHeld(q)
        BY <3>1, UpdatedIsLocked DEF ExpensesHeld
      <4>2. ASSUME job[q].op = "pay", job[q].op \notin ExpenseOps PROVE ~ExpenseLocked(job[q].on)'
        <5>1. ~ExpenseLocked(job[q].on)
          BY <4>1, <4>2 DEF ExpenseIsHeld
        <5>2. job[r].op \in ExpenseOps => job[r].on # job[q].on
          BY <1>6, <4>2, OpsAreDisjoint DEF LockExpense, LockPayout, ExpenseBooked
        <5>3. QED
          BY <3>1, <4>1, <5>1, <5>2 DEF ExpenseLocked
      <4>3. QED
        BY <3>1, <4>1, <4>2 DEF ExpenseIsHeld
    <3>3. QED
      BY <3>1, <3>2 DEF ExpensesHeld
  <2>3. QED
    BY <1>6, <2>1, <2>2 DEF LockExpense, LockPayout
<1>7. ASSUME NEW r \in Requests, Decide(r) \/ RequestInfo(r) \/ Resubmit(r)
      PROVE ExpensesHeld'
  <2>1. r \in updated /\ job[r].op \in ExpenseOps
    BY <1>7 DEF Decide, RequestInfo, Resubmit, ExpenseOps
  <2>2. PICK reason, question, answer : UpdateStatus(r, reason, question, answer)
    BY <1>7 DEF Decide, RequestInfo, Resubmit
  <2>3. /\ job[r].pc = "locked" /\ Finish(r)
        /\ \A d \in Expenses : d # job[r].on => expense'[d] = expense[d]
    BY <2>1, <2>2, UpdateFacts DEF TypeOK
  <2>4. ASSUME NEW q \in updated', job[q].op = "pay"
        PROVE  expense'[job[q].on].status = expense[job[q].on].status
    <3>1. q \in updated /\ q \in Requests /\ job[q].on \in Expenses
      BY <2>3, <2>4, UpdatedIsLocked, JobShape DEF Finish
    <3>2. ~ExpenseLocked(job[q].on)
      BY <2>4, <3>1, OpsAreDisjoint DEF ExpensesHeld, ExpenseIsHeld, PayoutOps
    <3>3. job[r].on # job[q].on
      BY <2>1, <2>3, <3>2 DEF ExpenseLocked
    <3>4. QED
      BY <2>3, <3>1, <3>3
  <2>5. QED
    BY <2>3, <2>4, HeldFrame, FinishTakesNoLock DEF Finish
<1>8. ASSUME NEW r \in Requests, NEW reference \in BOOLEAN,
             \/ RejectedByTrigger(r) \/ PayRefused(r) \/ Crash(r) \/ AttachReceipt(r)
             \/ CreatePayout(r, reference) \/ MovePayout(r, reference)
      PROVE ExpensesHeld'
  BY <1>2, <1>8 DEF RejectedByTrigger, PayRefused, Crash, AttachReceipt,
                    CreatePayout, MovePayout, rowVars
<1>9. ASSUME NEW r \in Requests, ReadApproved(r) PROVE ExpensesHeld'
  <2>1. CASE Finish(r)
    BY <1>2, <1>9, <2>1 DEF ReadApproved, rowVars
  <2>2. CASE Advance(r, "checked", "absent")
    BY <1>1, <1>9, <2>2 DEF ReadApproved, rowVars, Advance, TypeOK, NoNewLock
  <2>3. QED
    BY <1>9, <2>1, <2>2 DEF ReadApproved
<1>10. ASSUME NEW r \in Requests, Update(r) PROVE ExpensesHeld'
  <2>1. /\ job[r].op \in ExpenseOps /\ UNCHANGED <<expense, job>>
        /\ updated' = updated \cup {r}
    BY <1>10 DEF Update, Updated, rowVars
  <2>2. QED
    BY <2>1 DEF ExpensesHeld, ExpenseIsHeld, ExpenseLocked
<1>11. ASSUME NEW r \in Requests, MarkReimbursed(r) PROVE ExpensesHeld'
  <2>1. /\ UNCHANGED <<expense, job>> /\ updated' = updated \cup {r} /\ ExpenseIsHeld(r)
    BY <1>11 DEF MarkReimbursed, Updated, rowVars, ExpenseIsHeld
  <2>2. QED
    BY <2>1 DEF ExpensesHeld, ExpenseIsHeld, ExpenseLocked
<1>12. ASSUME NEW r \in Requests, Pay(r) PROVE ExpensesHeld'
  <2>1. /\ r \in updated /\ job[r].op = "pay" /\ Finish(r) /\ job[r].pc = "locked"
        /\ job[r].on \in Expenses
    BY <1>12, UpdatedIsLocked, JobShape DEF Pay
  <2>2. \A d \in Expenses : d # job[r].on => expense'[d] = expense[d]
    BY <1>12, <2>1 DEF Pay, TypeOK
  <2>3. ASSUME NEW q \in updated', job[q].op = "pay"
        PROVE  expense'[job[q].on].status = expense[job[q].on].status
    <3>1. q \in updated /\ q # r /\ q \in Requests /\ job[q].pc = "locked"
          /\ job[q].on \in Expenses
      BY <2>1, <2>3, UpdatedIsLocked, JobShape DEF Finish
    <3>2. job[q].on # job[r].on
      BY <2>1, <2>3, <3>1 DEF LocksHold, RowsHeldOnce, SameRow
    <3>3. QED
      BY <2>2, <3>1, <3>2
  <2>4. QED
    BY <2>1, <2>3, HeldFrame, FinishTakesNoLock DEF Finish
<1>13. CASE UNCHANGED vars
  BY <1>1, <1>13 DEF vars, NoNewLock
<1>14. QED
  BY <1>3, <1>4, <1>5, <1>6, <1>7, <1>8, <1>9, <1>10, <1>11, <1>12, <1>13 DEF Next, Handle

(* The two parts make LockedRowIsCurrent. *)
LEMMA LocksAre == LockedRowIsCurrent <=> LocksHold /\ ExpensesHeld
BY DEF LockedRowIsCurrent, LocksHold, ExpensesHeld

-----------------------------------------------------------------------------
(* What each commit does to the row it works on, given the locks. *)

RowUnchanged(d) ==
  /\ expense'[d] = expense[d] /\ approvals'[d] = approvals[d]
  /\ audit'[d] = audit[d] /\ payout'[d] = payout[d]

ExpenseBecomes(e, status, reason, question, answer) ==
  /\ expense'[e].status = status
  /\ expense'[e].reason <=> reason
  /\ expense'[e].question = question
  /\ expense'[e].answer = answer
  /\ expense'[e].owner = expense[e].owner

\* One change of status by update_status, with its audit row.
Moves(e, u, from, to) ==
  /\ expense[e].status = from /\ ExpenseMoves(from, to)
  /\ audit'[e] = Append(audit[e], [actor |-> u, old |-> from, new |-> to])
  /\ payout'[e] = payout[e]

Adds(e, u, action) == approvals'[e] = Append(approvals[e], [by |-> u, action |-> action])

\* The ways in which the rows of one expense change.
Filing(e) ==
  \E u \in Users :
    /\ ~Filed(e)
    /\ expense'[e].status = "pending" /\ expense'[e].owner = u /\ ~expense'[e].reason
    /\ expense'[e].question = 0 /\ expense'[e].answer = 0
    /\ audit'[e] = Append(audit[e], [actor |-> u, old |-> "absent", new |-> "pending"])
    /\ approvals'[e] = approvals[e] /\ payout'[e] = payout[e] /\ inbox' = inbox

Deciding(e) ==
  \E u \in Users, to \in {"approved", "rejected"} :
    /\ u # expense[e].owner /\ Open(e)
    /\ Moves(e, u, expense[e].status, to)
    /\ ExpenseBecomes(e, to, to = "rejected", 0, 0)
    /\ Adds(e, u, to)
    /\ inbox' = inbox \cup {[to |-> expense[e].owner, about |-> e, type |-> to]}

Asking(e) ==
  \E u \in Users :
    /\ Moves(e, u, "pending", "info_requested")
    /\ ExpenseBecomes(e, "info_requested", expense[e].reason, Len(approvals[e]) + 1, 0)
    /\ Adds(e, u, "info_requested")
    /\ inbox' = inbox \cup {[to |-> expense[e].owner, about |-> e, type |-> "info_requested"]}

Answering(e) ==
  /\ Moves(e, expense[e].owner, "info_requested", "pending")
  /\ ExpenseBecomes(e, "pending", expense[e].reason, expense[e].question, Len(approvals[e]) + 1)
  /\ Adds(e, expense[e].owner, "info_answered")
  /\ inbox' = inbox

Resuming(e) ==
  /\ Moves(e, expense[e].owner, "info_requested", "pending")
  /\ ExpenseBecomes(e, "pending", expense[e].reason, expense[e].question, 0)
  /\ approvals'[e] = approvals[e] /\ inbox' = inbox

PayoutBecomes(e, status, reference, receipt) ==
  /\ payout'[e].status = status
  /\ payout'[e].reference <=> reference
  /\ payout'[e].receipt <=> receipt

Opening(e) ==
  /\ Granted(e) /\ ~HasPayout(e)
  /\ payout'[e].status = "pending" /\ ~payout'[e].receipt
  /\ UNCHANGED <<expense, approvals, audit, inbox>>

Moving(e) ==
  \E to \in {"processing", "failed"}, reference \in BOOLEAN :
    /\ HasPayout(e) /\ payout[e].status # "paid"
    /\ PayoutBecomes(e, to, payout[e].reference \/ reference, payout[e].receipt)
    /\ inbox' = inbox \cup {[to |-> expense[e].owner, about |-> e, type |-> to]}
    /\ UNCHANGED <<expense, approvals, audit>>

Settling(e) ==
  /\ expense[e].status = "approved" /\ payout[e].status = "processing"
  /\ PayoutBecomes(e, "paid", TRUE, payout[e].receipt)
  /\ ExpenseBecomes(e, "reimbursed", expense[e].reason, expense[e].question, expense[e].answer)
  /\ inbox' = inbox \cup {[to |-> expense[e].owner, about |-> e, type |-> "paid"]}
  /\ UNCHANGED <<approvals, audit>>

Attaching(e) ==
  /\ payout[e].status = "paid"
  /\ PayoutBecomes(e, "paid", payout[e].reference, TRUE)
  /\ UNCHANGED <<expense, approvals, audit, inbox>>

RowChange(e) ==
  \/ Filing(e) \/ Deciding(e) \/ Asking(e) \/ Answering(e) \/ Resuming(e)
  \/ Opening(e) \/ Moving(e) \/ Settling(e) \/ Attaching(e)

Elsewhere(e) == \A d \in Expenses \ {e} : RowUnchanged(d)

LEMMA SubmitFacts ==
  ASSUME TypeOK, NEW u \in Users, NEW e \in Expenses, Submit(u, e)
  PROVE  Filing(e) /\ Elsewhere(e)
<1>1. expense' = [expense EXCEPT ![e] =
        [status |-> "pending", owner |-> u, reason |-> FALSE, question |-> 0, answer |-> 0]]
  BY DEF Submit
<1>2. audit' = [audit EXCEPT ![e] =
                  Append(audit[e], [actor |-> u, old |-> "absent", new |-> "pending"])]
  BY DEF Submit, Logged, TypeOK
<1>3. /\ expense'[e].status = "pending" /\ expense'[e].owner = u /\ ~expense'[e].reason
      /\ expense'[e].question = 0 /\ expense'[e].answer = 0
  BY <1>1 DEF TypeOK
<1>4. Filing(e)
  BY <1>2, <1>3 DEF Submit, TypeOK, Filing
<1>5. Elsewhere(e)
  BY <1>1, <1>2 DEF Submit, TypeOK, Elsewhere, RowUnchanged
<1>6. QED
  BY <1>4, <1>5

(* The part update_status has in every decision, question and answer. *)
LEMMA MoveFacts ==
  ASSUME TypeOK, LocksHold, NEW r \in Requests, payout' = payout,
         NEW reason \in BOOLEAN, NEW question, NEW answer, r \in updated,
         job[r].op \in ExpenseOps, UpdateStatus(r, reason, question, answer)
  PROVE  LET e == job[r].on IN
         /\ Moves(e, job[r].actor, expense[e].status, Target(job[r].op))
         /\ ExpenseBecomes(e, Target(job[r].op), reason, question, answer)
         /\ \A d \in Expenses \ {e} : /\ expense'[d] = expense[d]
                                      /\ audit'[d] = audit[d]
                                      /\ payout'[d] = payout[d]
<1> DEFINE e == job[r].on
<1>1. /\ e \in Expenses /\ job[r].seen = expense[e].status
      /\ MayProceed(job[r].op, job[r].actor, e)
      /\ expense' = [expense EXCEPT ![e] =
           [status |-> Target(job[r].op), owner |-> expense[e].owner,
            reason |-> reason, question |-> question, answer |-> answer]]
  BY UpdateFacts
<1>2. audit' = [audit EXCEPT ![e] =
                  Append(audit[e], [actor |-> job[r].actor, old |-> expense[e].status,
                                    new |-> Target(job[r].op)])]
  BY <1>1 DEF UpdateStatus, Logged, TypeOK
<1>3. ExpenseBecomes(e, Target(job[r].op), reason, question, answer)
  BY <1>1 DEF ExpenseBecomes, TypeOK
<1>4. Moves(e, job[r].actor, expense[e].status, Target(job[r].op))
  BY <1>1, <1>2 DEF Moves, MayProceed, TypeOK
<1>5. \A d \in Expenses \ {e} : expense'[d] = expense[d] /\ audit'[d] = audit[d]
  BY <1>1, <1>2 DEF TypeOK
<1>6. QED
  BY <1>3, <1>4, <1>5

LEMMA DecideFacts ==
  ASSUME TypeOK, LocksHold, NEW r \in Requests, Decide(r)
  PROVE  Deciding(job[r].on) /\ Elsewhere(job[r].on)
<1> DEFINE e  == job[r].on
           u  == job[r].actor
           to == Target(job[r].op)
<1>1. r \in updated /\ job[r].op \in Decisions /\ job[r].op \in ExpenseOps
  BY DEF Decide, ExpenseOps
<1>2. to \in {"approved", "rejected"} /\ (job[r].op = "reject") = (to = "rejected")
  BY <1>1 DEF Decisions, Target
<1>3. UpdateStatus(r, to = "rejected", 0, 0) /\ payout' = payout
  BY <1>2 DEF Decide
<1>4. /\ e \in Expenses /\ u \in Users /\ Open(e) /\ u # expense[e].owner
  BY <1>1, <1>3, UpdateFacts DEF MayProceed
<1>5. /\ Moves(e, u, expense[e].status, to) /\ ExpenseBecomes(e, to, to = "rejected", 0, 0)
      /\ \A d \in Expenses \ {e} : /\ expense'[d] = expense[d] /\ audit'[d] = audit[d]
                                   /\ payout'[d] = payout[d]
  BY <1>1, <1>3, MoveFacts
<1>6. Adds(e, u, to) /\ \A d \in Expenses \ {e} : approvals'[d] = approvals[d]
  BY <1>4 DEF Decide, Recorded, TypeOK, Adds
<1>7. inbox' = inbox \cup {[to |-> expense[e].owner, about |-> e, type |-> to]}
  BY DEF Decide, Notify
<1>8. QED
  BY <1>2, <1>4, <1>5, <1>6, <1>7 DEF Deciding, Elsewhere, RowUnchanged

LEMMA RequestInfoFacts ==
  ASSUME TypeOK, LocksHold, NEW r \in Requests, RequestInfo(r)
  PROVE  Asking(job[r].on) /\ Elsewhere(job[r].on)
<1> DEFINE e == job[r].on
           u == job[r].actor
<1>1. r \in updated /\ job[r].op = "request_info" /\ job[r].op \in ExpenseOps
  BY DEF RequestInfo, ExpenseOps
<1>2. Target(job[r].op) = "info_requested"
  BY <1>1 DEF Target, Resubmissions
<1>3. UpdateStatus(r, expense[e].reason, Len(approvals[e]) + 1, 0) /\ payout' = payout
  BY DEF RequestInfo
<1>4. /\ e \in Expenses /\ u \in Users /\ MayProceed(job[r].op, u, e)
  BY <1>1, <1>3, UpdateFacts
<1>5. expense[e].status = "pending" /\ expense[e].reason \in BOOLEAN
  BY <1>2, <1>4 DEF MayProceed, ExpenseMoves, TypeOK, ExpenseRows
<1>6. /\ Moves(e, u, "pending", "info_requested")
      /\ ExpenseBecomes(e, "info_requested", expense[e].reason, Len(approvals[e]) + 1, 0)
      /\ \A d \in Expenses \ {e} : /\ expense'[d] = expense[d] /\ audit'[d] = audit[d]
                                   /\ payout'[d] = payout[d]
  BY <1>1, <1>2, <1>3, <1>5, MoveFacts
<1>7. Adds(e, u, "info_requested") /\ \A d \in Expenses \ {e} : approvals'[d] = approvals[d]
  BY <1>4 DEF RequestInfo, Recorded, TypeOK, Adds
<1>8. inbox' = inbox \cup {[to |-> expense[e].owner, about |-> e, type |-> "info_requested"]}
  BY DEF RequestInfo, Notify
<1>9. QED
  BY <1>4, <1>6, <1>7, <1>8 DEF Asking, Elsewhere, RowUnchanged

LEMMA ResubmitFacts ==
  ASSUME TypeOK, LocksHold, NEW r \in Requests, Resubmit(r)
  PROVE  (Answering(job[r].on) \/ Resuming(job[r].on)) /\ Elsewhere(job[r].on)
<1> DEFINE e == job[r].on
           u == job[r].actor
           answer == IF job[r].op = "answer" THEN Len(approvals[e]) + 1 ELSE 0
<1>1. r \in updated /\ job[r].op \in Resubmissions /\ job[r].op \in ExpenseOps
  BY DEF Resubmit, ExpenseOps
<1>2. Target(job[r].op) = "pending"
  BY <1>1 DEF Target, Resubmissions
<1>3. UpdateStatus(r, expense[e].reason, expense[e].question, answer)
  BY DEF Resubmit
<1>4. /\ payout' = payout /\ inbox' = inbox
      /\ job[r].op = "answer" => Recorded(e, u, "info_answered")
      /\ job[r].op # "answer" => approvals' = approvals
  BY DEF Resubmit
<1>5. answer = IF job[r].op = "answer" THEN Len(approvals[e]) + 1 ELSE 0
  OBVIOUS
<1> HIDE DEF answer
<1>6. /\ e \in Expenses /\ u \in Users /\ MayProceed(job[r].op, u, e)
  BY <1>1, <1>3, UpdateFacts
<1>7. u = expense[e].owner /\ expense[e].status = "info_requested" /\ expense[e].reason \in BOOLEAN
  BY <1>1, <1>2, <1>6 DEF MayProceed, ExpenseMoves, TypeOK, ExpenseRows
<1>8. /\ Moves(e, u, "info_requested", "pending")
      /\ ExpenseBecomes(e, "pending", expense[e].reason, expense[e].question, answer)
      /\ \A d \in Expenses \ {e} : /\ expense'[d] = expense[d] /\ audit'[d] = audit[d]
                                   /\ payout'[d] = payout[d]
  BY <1>1, <1>2, <1>3, <1>4, <1>7, MoveFacts
<1>9. CASE job[r].op = "answer"
  <2>1. Adds(e, u, "info_answered") /\ \A d \in Expenses \ {e} : approvals'[d] = approvals[d]
    BY <1>4, <1>6, <1>9 DEF Recorded, TypeOK, Adds
  <2>2. QED
    BY <1>4, <1>5, <1>7, <1>8, <1>9, <2>1 DEF Answering, Elsewhere, RowUnchanged
<1>10. CASE job[r].op # "answer"
  BY <1>4, <1>5, <1>7, <1>8, <1>10 DEF Resuming, Elsewhere, RowUnchanged
<1>11. QED
  BY <1>9, <1>10

LEMMA PayFacts ==
  ASSUME TypeOK, LocksHold, ExpensesHeld, NEW r \in Requests, Pay(r)
  PROVE  Settling(job[r].on) /\ Elsewhere(job[r].on)
<1> DEFINE e == job[r].on
<1>1. /\ r \in updated /\ job[r].pc = "locked"
      /\ job[r].op = "pay" /\ job[r].op \in PayoutOps
  BY UpdatedIsLocked DEF Pay, PayoutOps
<1>2. e \in Expenses /\ PayoutReady(job[r].op, e)
  BY <1>1, PayoutFacts
<1>3. Target("pay") = "paid"
  BY DEF Target, Resubmissions
<1>4. payout[e].status = "processing" /\ expense[e].status = "approved"
  BY <1>1, <1>2, <1>3, OpsAreDisjoint
  DEF PayoutReady, PayoutMoves, ExpensesHeld, ExpenseIsHeld
<1>5. PICK row \in ExpenseRows : row = expense[e]
  BY <1>2 DEF TypeOK
<1>6. expense' = [expense EXCEPT ![e] = [row EXCEPT !.status = "reimbursed"]]
  BY <1>2, <1>5 DEF Pay, TypeOK
<1>7. ExpenseBecomes(e, "reimbursed", expense[e].reason, expense[e].question, expense[e].answer)
  BY <1>2, <1>5, <1>6 DEF TypeOK, ExpenseBecomes, ExpenseRows
<1>8. PayoutBecomes(e, "paid", TRUE, payout[e].receipt)
  BY <1>2 DEF Pay, TypeOK, PayoutBecomes
<1>9. Elsewhere(e)
  BY <1>2 DEF Pay, TypeOK, Elsewhere, RowUnchanged
<1>10. QED
  BY <1>4, <1>7, <1>8, <1>9 DEF Pay, Notify, Settling

LEMMA MovePayoutFacts ==
  ASSUME TypeOK, LocksHold, NEW r \in Requests, NEW reference \in BOOLEAN,
         MovePayout(r, reference)
  PROVE  Moving(job[r].on) /\ Elsewhere(job[r].on)
<1> DEFINE e  == job[r].on
           to == Target(job[r].op)
<1>1. job[r].pc = "locked" /\ job[r].op \in {"process", "fail"} /\ job[r].op \in PayoutOps
  BY DEF MovePayout, PayoutOps
<1>2. to \in {"processing", "failed"}
  BY <1>1 DEF Target, Resubmissions
<1>3. e \in Expenses /\ PayoutReady(job[r].op, e) /\ HasPayout(e)
  BY <1>1, PayoutFacts
<1>4. payout[e].status # "paid"
  BY <1>1, <1>3 DEF PayoutReady, PayoutMoves
<1>5. PayoutBecomes(e, to, payout[e].reference \/ reference, payout[e].receipt)
  BY <1>3 DEF MovePayout, TypeOK, PayoutBecomes
<1>6. Elsewhere(e)
  BY <1>3 DEF MovePayout, TypeOK, Elsewhere, RowUnchanged
<1>7. /\ inbox' = inbox \cup {[to |-> expense[e].owner, about |-> e, type |-> to]}
      /\ UNCHANGED <<expense, approvals, audit>>
  BY DEF MovePayout, Notify
<1>8. QED
  BY <1>2, <1>3, <1>4, <1>5, <1>6, <1>7 DEF Moving

LEMMA CreatePayoutFacts ==
  ASSUME TypeOK, CheckedIsGranted, NEW r \in Requests, NEW reference \in BOOLEAN,
         CreatePayout(r, reference)
  PROVE  UNCHANGED rowVars \/ (Opening(job[r].on) /\ Elsewhere(job[r].on))
<1> DEFINE e == job[r].on
<1>1. e \in Expenses /\ Granted(e) /\ UNCHANGED <<expense, approvals, audit, inbox>>
  BY JobShape DEF CreatePayout, CheckedIsGranted
<1>2. CASE HasPayout(e)
  BY <1>1, <1>2 DEF CreatePayout, rowVars
<1>3. CASE ~HasPayout(e)
  BY <1>1, <1>3 DEF CreatePayout, TypeOK, Opening, Elsewhere, RowUnchanged
<1>4. QED
  BY <1>2, <1>3

LEMMA AttachReceiptFacts ==
  ASSUME TypeOK, LocksHold, NEW r \in Requests, AttachReceipt(r)
  PROVE  Attaching(job[r].on) /\ Elsewhere(job[r].on)
<1> DEFINE e == job[r].on
<1>1. job[r].pc = "locked" /\ job[r].op = "attach_receipt" /\ job[r].op \in PayoutOps
  BY DEF AttachReceipt, PayoutOps
<1>2. e \in Expenses /\ payout[e].status = "paid"
  BY <1>1, PayoutFacts DEF PayoutReady
<1>3. PayoutBecomes(e, "paid", payout[e].reference, TRUE)
  BY <1>2 DEF AttachReceipt, TypeOK, PayoutBecomes
<1>4. Elsewhere(e)
  BY <1>2 DEF AttachReceipt, TypeOK, Elsewhere, RowUnchanged
<1>5. UNCHANGED <<expense, approvals, audit, inbox>>
  BY DEF AttachReceipt
<1>6. QED
  BY <1>2, <1>3, <1>4, <1>5 DEF Attaching

(* One step changes the rows of at most one expense, in one of those ways. *)
LEMMA RowSteps ==
  ASSUME TypeOK, LockedRowIsCurrent, CheckedIsGranted, [Next]_vars
  PROVE  UNCHANGED rowVars \/ \E e \in Expenses : RowChange(e) /\ Elsewhere(e)
<1> USE LocksAre
<1>1. ASSUME NEW u \in Users,
             RemoveMember(u) \/ \E isAdmin \in BOOLEAN : AddMember(u, isAdmin)
      PROVE UNCHANGED rowVars
  BY <1>1 DEF RemoveMember, AddMember
<1>2. ASSUME NEW r \in Requests, NEW u \in Users, NEW op \in Ops, NEW e \in Expenses,
             Authorize(r, u, op, e)
      PROVE UNCHANGED rowVars
  BY <1>2 DEF Authorize
<1>3. ASSUME NEW r \in Requests,
             \/ LockExpense(r) \/ RejectedByTrigger(r) \/ ReadApproved(r)
             \/ LockPayout(r) \/ PayRefused(r) \/ Crash(r)
             \/ Update(r) \/ MarkReimbursed(r)
      PROVE UNCHANGED rowVars
  BY <1>3 DEF LockExpense, RejectedByTrigger, ReadApproved, LockPayout, PayRefused, Crash,
              Update, MarkReimbursed, Updated
<1>4. ASSUME NEW u \in Users, NEW e \in Expenses, Submit(u, e)
      PROVE RowChange(e) /\ Elsewhere(e)
  BY <1>4, SubmitFacts DEF RowChange
<1>5. ASSUME NEW r \in Requests,
             Decide(r) \/ RequestInfo(r) \/ Resubmit(r) \/ Pay(r) \/ AttachReceipt(r)
      PROVE job[r].on \in Expenses /\ RowChange(job[r].on) /\ Elsewhere(job[r].on)
  <2>1. job[r].pc # "idle"
    BY <1>5, UpdatedIsLocked DEF Decide, RequestInfo, Resubmit, Pay, AttachReceipt
  <2>2. QED
    BY <1>5, <2>1, JobShape, DecideFacts, RequestInfoFacts, ResubmitFacts, PayFacts,
       AttachReceiptFacts DEF RowChange
<1>6. ASSUME NEW r \in Requests, NEW reference \in BOOLEAN,
             CreatePayout(r, reference) \/ MovePayout(r, reference)
      PROVE UNCHANGED rowVars
            \/ (job[r].on \in Expenses /\ RowChange(job[r].on) /\ Elsewhere(job[r].on))
  <2>1. job[r].pc # "idle"
    BY <1>6 DEF CreatePayout, MovePayout
  <2>2. QED
    BY <1>6, <2>1, JobShape, CreatePayoutFacts, MovePayoutFacts DEF RowChange
<1>7. CASE UNCHANGED vars
  BY <1>7 DEF vars, rowVars
<1>8. QED
  BY <1>1, <1>2, <1>3, <1>4, <1>5, <1>6, <1>7 DEF Next, Handle

-----------------------------------------------------------------------------
(* One property at a time: what the changed row does to it. *)

LEMMA GrantIsForGood ==
  ASSUME NEW e \in Expenses, RowChange(e), Elsewhere(e), NEW d \in Expenses, Granted(d)
  PROVE  expense'[d].status \in {"approved", "reimbursed"}
<1>1. CASE d # e
  BY <1>1 DEF Elsewhere, RowUnchanged, Granted
<1>2. CASE d = e
  BY <1>2 DEF RowChange, Filing, Deciding, Asking, Answering, Resuming, Opening, Moving,
              Settling, Attaching, Moves, ExpenseBecomes, ExpenseMoves, Granted, Filed, Open
<1>3. QED
  BY <1>1, <1>2

(* Only the read of create_for_expense moves a request to "checked". *)
LEMMA CheckedSource ==
  ASSUME TypeOK, [Next]_vars, NEW q \in Requests, job'[q].pc = "checked"
  PROVE  \/ job'[q] = job[q]
         \/ /\ job'[q].op = "create_payout" /\ job'[q].on = job[q].on
            /\ job[q].pc # "idle" /\ expense[job[q].on].status = "approved"
            /\ UNCHANGED rowVars
<1>1. ASSUME NEW r \in Requests, Finish(r) PROVE job'[q] = job[q]
  BY <1>1, FinishTakesNoLock
<1>2. ASSUME NEW u \in Users,
             RemoveMember(u) \/ \E isAdmin \in BOOLEAN : AddMember(u, isAdmin)
      PROVE job'[q] = job[q]
  BY <1>2 DEF RemoveMember, AddMember, reqVars
<1>3. ASSUME NEW u \in Users, NEW e \in Expenses, Submit(u, e) PROVE job'[q] = job[q]
  BY <1>3 DEF Submit, reqVars
<1>4. ASSUME NEW r \in Requests, NEW u \in Users, NEW op \in Ops, NEW e \in Expenses,
             Authorize(r, u, op, e)
      PROVE job'[q] = job[q]
  BY <1>4 DEF Authorize, TypeOK
<1>5. ASSUME NEW r \in Requests, LockExpense(r) \/ LockPayout(r) PROVE job'[q] = job[q]
  BY <1>1, <1>5 DEF LockExpense, LockPayout, Advance, TypeOK
<1>6. ASSUME NEW r \in Requests, ReadApproved(r)
      PROVE \/ job'[q] = job[q]
            \/ /\ job'[q].op = "create_payout" /\ job'[q].on = job[q].on
               /\ job[q].pc # "idle" /\ expense[job[q].on].status = "approved"
               /\ UNCHANGED rowVars
  <2>1. CASE Finish(r)
    BY <1>1, <2>1
  <2>2. CASE Advance(r, "checked", "absent") /\ expense[job[r].on].status = "approved"
    BY <1>6, <2>2 DEF ReadApproved, Advance, TypeOK
  <2>3. QED
    BY <1>6, <2>1, <2>2 DEF ReadApproved
<1>7. ASSUME NEW r \in Requests, Decide(r) \/ RequestInfo(r) \/ Resubmit(r)
      PROVE job'[q] = job[q]
  BY <1>1, <1>7 DEF Decide, RequestInfo, Resubmit, UpdateStatus
<1>8. ASSUME NEW r \in Requests, NEW reference \in BOOLEAN,
             \/ RejectedByTrigger(r) \/ PayRefused(r) \/ Crash(r) \/ Pay(r) \/ AttachReceipt(r)
             \/ CreatePayout(r, reference) \/ MovePayout(r, reference)
             \/ Update(r) \/ MarkReimbursed(r)
      PROVE job'[q] = job[q]
  BY <1>1, <1>8 DEF RejectedByTrigger, PayRefused, Crash, Pay, AttachReceipt,
                    CreatePayout, MovePayout, Update, MarkReimbursed, Updated
<1>9. CASE UNCHANGED vars
  BY <1>9 DEF vars
<1>10. QED
  BY <1>2, <1>3, <1>4, <1>5, <1>6, <1>7, <1>8, <1>9 DEF Next, Handle

LEMMA CheckedStep ==
  ASSUME TypeOK, LockedRowIsCurrent, CheckedIsGranted, [Next]_vars
  PROVE  CheckedIsGranted'
<1> SUFFICES ASSUME NEW q \in Requests, job'[q].pc = "checked"
             PROVE  /\ job'[q].op = "create_payout"
                    /\ expense'[job'[q].on].status \in {"approved", "reimbursed"}
  BY DEF CheckedIsGranted, Granted
<1>1. CASE job'[q] = job[q]
  <2>1. job[q].op = "create_payout" /\ Granted(job[q].on) /\ job[q].on \in Expenses
    BY <1>1, JobShape DEF CheckedIsGranted
  <2>2. expense'[job[q].on].status \in {"approved", "reimbursed"}
    BY <2>1, RowSteps, GrantIsForGood DEF rowVars, Granted
  <2>3. QED
    BY <1>1, <2>1, <2>2
<1>2. CASE /\ job'[q].op = "create_payout" /\ job'[q].on = job[q].on
           /\ expense[job[q].on].status = "approved" /\ UNCHANGED rowVars
  BY <1>2 DEF rowVars
<1>3. QED
  BY <1>1, <1>2, CheckedSource

LEMMA MoneyStep ==
  ASSUME TypeOK, PayoutMatchesExpense, NEW e \in Expenses, RowChange(e), Elsewhere(e)
  PROVE  PayoutMatchesExpense'
<1>1. \A d \in Expenses \ {e} : PaidInStep(d)'
  BY DEF PayoutMatchesExpense, Elsewhere, RowUnchanged, PaidInStep, HasPayout, Granted
<1>2. PaidInStep(e)
  BY DEF PayoutMatchesExpense
<1>3. PaidInStep(e)'
  <2>1. CASE Filing(e)
    BY <1>2, <2>1 DEF Filing, PaidInStep, HasPayout, Granted, Filed
  <2>2. CASE Deciding(e) \/ Asking(e) \/ Answering(e) \/ Resuming(e)
    BY <1>2, <2>2 DEF Deciding, Asking, Answering, Resuming, Moves, ExpenseBecomes,
                      PaidInStep, HasPayout, Granted, Open
  <2>3. CASE Opening(e) \/ Moving(e) \/ Settling(e) \/ Attaching(e)
    BY <1>2, <2>3 DEF Opening, Moving, Settling, Attaching, PayoutBecomes, ExpenseBecomes,
                      PaidInStep, HasPayout, Granted
  <2>4. QED
    BY <2>1, <2>2, <2>3 DEF RowChange
<1>4. QED
  BY <1>1, <1>3 DEF PayoutMatchesExpense

LEMMA EvidenceStep ==
  ASSUME TypeOK, EvidenceIsThere, PayoutMatchesExpense,
         NEW e \in Expenses, RowChange(e), Elsewhere(e)
  PROVE  EvidenceIsThere'
<1>1. \A d \in Expenses \ {e} : Evidence(d)'
  BY DEF EvidenceIsThere, Elsewhere, RowUnchanged, Evidence, Refused
<1>2. Evidence(e) /\ PaidInStep(e)
  BY DEF EvidenceIsThere, PayoutMatchesExpense
<1>3. Evidence(e)'
  <2>1. CASE Filing(e)
    BY <1>2, <2>1 DEF Filing, Evidence, Refused
  <2>2. CASE Deciding(e) \/ Asking(e) \/ Answering(e) \/ Resuming(e)
    BY <1>2, <2>2 DEF Deciding, Asking, Answering, Resuming, Moves, ExpenseBecomes,
                      Evidence, Refused, Open
  <2>3. CASE Opening(e) \/ Moving(e) \/ Attaching(e)
    BY <1>2, <2>3 DEF Opening, Moving, Attaching, PayoutBecomes, Evidence, Refused, HasPayout
  <2>4. CASE Settling(e)
    BY <1>2, <2>4 DEF Settling, PayoutBecomes, ExpenseBecomes, Evidence, Refused
  <2>5. QED
    BY <2>1, <2>2, <2>3, <2>4 DEF RowChange
<1>4. QED
  BY <1>1, <1>3 DEF EvidenceIsThere

(* What Append does to the rows of a history. *)
LEMMA AppendRows ==
  ASSUME NEW S, NEW h \in Seq(S), NEW x \in S
  PROVE  /\ Len(h) \in Nat /\ DOMAIN h = 1 .. Len(h)
         /\ Append(h, x) \in Seq(S)
         /\ Len(Append(h, x)) = Len(h) + 1
         /\ DOMAIN Append(h, x) = 1 .. Len(h) + 1
         /\ \A i \in 1 .. Len(h) : Append(h, x)[i] = h[i]
         /\ Append(h, x)[Len(h) + 1] = x
OBVIOUS

(* The same for the approvals of an expense. *)
LEMMA HistoryGrows ==
  ASSUME TypeOK, NEW e \in Expenses, NEW u \in Users,
         NEW action \in {"approved", "rejected", "info_requested", "info_answered"},
         Adds(e, u, action)
  PROVE  /\ Len(approvals[e]) \in Nat /\ DOMAIN approvals[e] = 1 .. Len(approvals[e])
         /\ Len(approvals'[e]) = Len(approvals[e]) + 1
         /\ DOMAIN approvals'[e] = 1 .. Len(approvals[e]) + 1
         /\ \A i \in DOMAIN approvals[e] : approvals'[e][i] = approvals[e][i]
         /\ approvals'[e][Len(approvals[e]) + 1] = [by |-> u, action |-> action]
<1>1. approvals[e] \in Seq(ApprovalRows) /\ [by |-> u, action |-> action] \in ApprovalRows
  BY DEF TypeOK, ApprovalRows
<1>2. QED
  BY <1>1, AppendRows DEF Adds

(* A new decision, and a row that is none. *)
LEMMA DecisionAdded ==
  ASSUME TypeOK, NEW e \in Expenses, NEW u \in Users,
         NEW action \in {"approved", "rejected"}, Adds(e, u, action)
  PROVE  DecisionRows(e)' = DecisionRows(e) \cup {Len(approvals[e]) + 1}
<1>1. /\ Len(approvals[e]) \in Nat /\ DOMAIN approvals[e] = 1 .. Len(approvals[e])
      /\ DOMAIN approvals'[e] = 1 .. Len(approvals[e]) + 1
      /\ \A i \in DOMAIN approvals[e] : approvals'[e][i] = approvals[e][i]
      /\ approvals'[e][Len(approvals[e]) + 1].action = action
  <2>1. action \in {"approved", "rejected", "info_requested", "info_answered"}
    OBVIOUS
  <2>2. [by |-> u, action |-> action].action = action
    OBVIOUS
  <2>3. QED
    BY <2>1, <2>2, HistoryGrows
<1>2. DecisionRows(e)' =
        {i \in DOMAIN approvals'[e] : approvals'[e][i].action \in {"approved", "rejected"}}
  BY DEF DecisionRows
<1>3. QED
  BY <1>1, <1>2 DEF DecisionRows

LEMMA OtherRowAdded ==
  ASSUME TypeOK, NEW e \in Expenses, NEW u \in Users,
         NEW action \in {"info_requested", "info_answered"}, Adds(e, u, action)
  PROVE  DecisionRows(e)' = DecisionRows(e)
<1>1. /\ Len(approvals[e]) \in Nat /\ DOMAIN approvals[e] = 1 .. Len(approvals[e])
      /\ DOMAIN approvals'[e] = 1 .. Len(approvals[e]) + 1
      /\ \A i \in DOMAIN approvals[e] : approvals'[e][i] = approvals[e][i]
      /\ approvals'[e][Len(approvals[e]) + 1].action = action
  <2>1. action \in {"approved", "rejected", "info_requested", "info_answered"}
    OBVIOUS
  <2>2. [by |-> u, action |-> action].action = action
    OBVIOUS
  <2>3. QED
    BY <2>1, <2>2, HistoryGrows
<1>2. DecisionRows(e)' =
        {i \in DOMAIN approvals'[e] : approvals'[e][i].action \in {"approved", "rejected"}}
  BY DEF DecisionRows
<1>3. QED
  BY <1>1, <1>2 DEF DecisionRows

LEMMA DecidedStep ==
  ASSUME TypeOK, DecidedOnceByAnother, NEW e \in Expenses, RowChange(e), Elsewhere(e)
  PROVE  DecidedOnceByAnother'
<1>1. \A d \in Expenses \ {e} : DecidedOnce(d)'
  BY DEF DecidedOnceByAnother, Elsewhere, RowUnchanged, DecidedOnce, DecisionRows,
         Open, Filed, Refused, Granted
<1>2. DecidedOnce(e)
  BY DEF DecidedOnceByAnother
<1>3. DecidedOnce(e)'
  <2>1. CASE Filing(e)
    BY <1>2, <2>1 DEF Filing, DecidedOnce, DecisionRows, Open, Filed, Refused, Granted
  <2>2. CASE Deciding(e)
    <3>1. PICK u \in Users, to \in {"approved", "rejected"} :
            /\ u # expense[e].owner /\ Open(e) /\ Adds(e, u, to)
            /\ expense'[e].status = to /\ expense'[e].owner = expense[e].owner
      BY <2>2 DEF Deciding, ExpenseBecomes
    <3>2. DecisionRows(e)' = {Len(approvals[e]) + 1}
      BY <1>2, <3>1, DecisionAdded DEF DecidedOnce
    <3>3. /\ Len(approvals'[e]) = Len(approvals[e]) + 1
          /\ approvals'[e][Len(approvals[e]) + 1] = [by |-> u, action |-> to]
      BY <3>1, HistoryGrows
    <3>4. QED
      BY <3>1, <3>2, <3>3 DEF DecidedOnce, Open, Filed, Refused, Granted
  <2>3. CASE Asking(e) \/ Answering(e)
    <3>1. DecisionRows(e)' = DecisionRows(e)
      <4>1. ASSUME Asking(e) PROVE DecisionRows(e)' = DecisionRows(e)
        BY <4>1, OtherRowAdded DEF Asking
      <4>2. ASSUME Answering(e) PROVE DecisionRows(e)' = DecisionRows(e)
        BY <4>2, OtherRowAdded DEF Answering, Moves, TypeOK, Filed
      <4>3. QED
        BY <2>3, <4>1, <4>2
    <3>2. expense[e].status \in {"pending", "info_requested"}
          /\ expense'[e].status \in {"pending", "info_requested"}
      BY <2>3 DEF Asking, Answering, Moves, ExpenseBecomes
    <3>3. QED
      BY <1>2, <3>1, <3>2 DEF DecidedOnce, Open, Filed, Refused, Granted
  <2>4. CASE Resuming(e)
    BY <1>2, <2>4 DEF Resuming, Moves, ExpenseBecomes, DecidedOnce, DecisionRows,
                      Open, Filed, Refused, Granted
  <2>5. CASE Opening(e) \/ Moving(e) \/ Attaching(e)
    BY <1>2, <2>5 DEF Opening, Moving, Attaching, DecidedOnce, DecisionRows,
                      Open, Filed, Refused, Granted
  <2>6. CASE Settling(e)
    BY <1>2, <2>6 DEF Settling, ExpenseBecomes, DecidedOnce, DecisionRows,
                      Open, Filed, Refused, Granted
  <2>7. QED
    BY <2>1, <2>2, <2>3, <2>4, <2>5, <2>6 DEF RowChange
<1>4. QED
  BY <1>1, <1>3 DEF DecidedOnceByAnother

LEMMA AuditStep ==
  ASSUME TypeOK, AuditIsThePath, NEW e \in Expenses, RowChange(e), Elsewhere(e)
  PROVE  AuditIsThePath'
<1>1. \A d \in Expenses \ {e} : AuditPath(d)'
  BY DEF AuditIsThePath, Elsewhere, RowUnchanged, AuditPath, Filed
<1>2. AuditPath(e)
  BY DEF AuditIsThePath
<1>3. AuditPath(e)'
  <2>1. CASE Filing(e)
    <3>1. PICK u \in Users :
            /\ ~Filed(e) /\ expense'[e].status = "pending"
            /\ audit'[e] = Append(audit[e], [actor |-> u, old |-> "absent", new |-> "pending"])
      BY <2>1 DEF Filing
    <3>2. audit[e] = <<>>
      BY <1>2, <3>1 DEF AuditPath
    <3>3. audit'[e] = <<[actor |-> u, old |-> "absent", new |-> "pending"]>>
      BY <3>1, <3>2
    <3>4. QED
      BY <3>1, <3>3 DEF AuditPath, Filed
  <2>2. ASSUME NEW u \in Users, NEW to \in {"approved", "rejected", "pending", "info_requested"},
               Moves(e, u, expense[e].status, to), expense'[e].status = to, Filed(e)
        PROVE  AuditPath(e)'
    <3> DEFINE row == [actor |-> u, old |-> expense[e].status, new |-> to]
    <3>1. audit[e] \in Seq(AuditRows) /\ row \in AuditRows
      BY <2>2 DEF TypeOK, AuditRows, ExpenseRows, ExpenseStatus
    <3>2. row.old = expense[e].status /\ row.new = to
      OBVIOUS
    <3>3. audit'[e] = Append(audit[e], row) /\ ExpenseMoves(expense[e].status, to)
      BY <2>2 DEF Moves
    <3> HIDE DEF row
    <3>4. /\ Len(audit[e]) \in Nat /\ DOMAIN audit[e] = 1 .. Len(audit[e])
          /\ Len(audit'[e]) = Len(audit[e]) + 1
          /\ \A i \in 1 .. Len(audit[e]) : audit'[e][i] = audit[e][i]
          /\ audit'[e][Len(audit[e]) + 1] = row
      BY <3>1, <3>3, AppendRows
    <3>5. expense[e].status # "reimbursed"
      BY <3>3 DEF ExpenseMoves
    <3>6. /\ Len(audit[e]) > 0 /\ audit[e][1].old = "absent" /\ audit[e][1].new = "pending"
          /\ \A i \in 2 .. Len(audit[e]) : /\ audit[e][i].old = audit[e][i - 1].new
                                           /\ ExpenseMoves(audit[e][i].old, audit[e][i].new)
          /\ audit[e][Len(audit[e])].new = expense[e].status
      BY <1>2, <2>2, <3>5 DEF AuditPath
    <3>7. ASSUME NEW i \in 2 .. Len(audit'[e])
          PROVE  /\ audit'[e][i].old = audit'[e][i - 1].new
                 /\ ExpenseMoves(audit'[e][i].old, audit'[e][i].new)
      <4>1. CASE i = Len(audit[e]) + 1
        BY <3>2, <3>3, <3>4, <3>6, <3>7, <4>1
      <4>2. CASE i # Len(audit[e]) + 1
        <5>1. i \in 2 .. Len(audit[e]) /\ i \in 1 .. Len(audit[e]) /\ i - 1 \in 1 .. Len(audit[e])
          BY <3>4, <3>7, <4>2
        <5>2. audit'[e][i] = audit[e][i] /\ audit'[e][i - 1] = audit[e][i - 1]
          BY <3>4, <5>1
        <5>3. QED
          BY <3>6, <5>1, <5>2
      <4>3. QED
        BY <4>1, <4>2
    <3>8. QED
      BY <2>2, <3>2, <3>4, <3>6, <3>7 DEF AuditPath, Filed
  <2>3. CASE Deciding(e)
    BY <2>2, <2>3 DEF Deciding, ExpenseBecomes, Open, Filed
  <2>4. CASE Asking(e)
    BY <2>2, <2>4 DEF Asking, ExpenseBecomes, Moves, Filed
  <2>5. CASE Answering(e) \/ Resuming(e)
    <3>1. /\ Moves(e, expense[e].owner, expense[e].status, "pending")
          /\ expense'[e].status = "pending" /\ expense[e].status = "info_requested"
      BY <2>5 DEF Answering, Resuming, ExpenseBecomes, Moves
    <3>2. expense[e].owner \in Users
      BY <3>1 DEF TypeOK, Filed
    <3>3. QED
      BY <2>2, <3>1, <3>2 DEF Filed
  <2>6. CASE Opening(e) \/ Moving(e) \/ Attaching(e)
    BY <1>2, <2>6 DEF Opening, Moving, Attaching, AuditPath, Filed
  <2>7. CASE Settling(e)
    BY <1>2, <2>7 DEF Settling, ExpenseBecomes, AuditPath, Filed
  <2>8. QED
    BY <2>1, <2>3, <2>4, <2>5, <2>6, <2>7 DEF RowChange
<1>4. QED
  BY <1>1, <1>3 DEF AuditIsThePath

LEMMA QuestionStep ==
  ASSUME TypeOK, QuestionAndAnswerMatch, NEW e \in Expenses, RowChange(e), Elsewhere(e),
         ~Filed(e) => approvals[e] = <<>>
  PROVE  QuestionAndAnswerMatch'
<1>1. \A d \in Expenses \ {e} : QuestionAndAnswer(d)'
  BY DEF QuestionAndAnswerMatch, Elsewhere, RowUnchanged, QuestionAndAnswer, QuestionRows, Open
<1>2. QuestionAndAnswer(e) /\ approvals[e] \in Seq(ApprovalRows)
      /\ expense[e].question \in Nat /\ expense[e].answer \in Nat
  BY DEF QuestionAndAnswerMatch, TypeOK, ExpenseRows
<1>3. QuestionAndAnswer(e)'
  <2>1. CASE Filing(e)
    <3>1. approvals'[e] = <<>> /\ expense'[e].status = "pending"
          /\ expense'[e].question = 0 /\ expense'[e].answer = 0
      BY <2>1 DEF Filing
    <3>2. QuestionRows(e)' = {}
      BY <3>1 DEF QuestionRows
    <3>3. QED
      BY <3>1, <3>2 DEF QuestionAndAnswer, Open
  <2>2. CASE Deciding(e)
    BY <2>2 DEF Deciding, ExpenseBecomes, QuestionAndAnswer, Open
  <2>3. CASE Asking(e)
    <3> DEFINE n == Len(approvals[e])
    <3>1. PICK u \in Users : Adds(e, u, "info_requested")
      BY <2>3 DEF Asking
    <3>2. /\ n \in Nat /\ DOMAIN approvals[e] = 1 .. n
          /\ Len(approvals'[e]) = n + 1 /\ DOMAIN approvals'[e] = 1 .. n + 1
          /\ approvals'[e][n + 1] = [by |-> u, action |-> "info_requested"]
      BY <3>1, HistoryGrows
    <3>3. /\ expense'[e].status = "info_requested"
          /\ expense'[e].question = n + 1 /\ expense'[e].answer = 0
      BY <2>3 DEF Asking, ExpenseBecomes
    <3>4. approvals'[e][n + 1].action = "info_requested"
      BY <3>2
    <3>5. n + 1 \in QuestionRows(e)' /\ \A i \in QuestionRows(e)' : i <= n + 1
      BY <3>2, <3>4 DEF QuestionRows
    <3> HIDE DEF n
    <3>6. QED
      BY <3>2, <3>3, <3>5 DEF QuestionAndAnswer, Open
  <2>4. CASE Answering(e)
    <3> DEFINE n == Len(approvals[e])
               u == expense[e].owner
    <3>1. Adds(e, u, "info_answered") /\ expense[e].status = "info_requested"
      BY <2>4 DEF Answering, Moves
    <3>2. u \in Users
      BY <3>1 DEF TypeOK, Filed
    <3>3. /\ n \in Nat /\ DOMAIN approvals[e] = 1 .. n
          /\ Len(approvals'[e]) = n + 1 /\ DOMAIN approvals'[e] = 1 .. n + 1
          /\ \A i \in DOMAIN approvals[e] : approvals'[e][i] = approvals[e][i]
          /\ approvals'[e][n + 1] = [by |-> u, action |-> "info_answered"]
      BY <3>1, <3>2, HistoryGrows
    <3>4. /\ expense'[e].status = "pending" /\ expense'[e].owner = u
          /\ expense'[e].question = expense[e].question /\ expense'[e].answer = n + 1
      BY <2>4 DEF Answering, ExpenseBecomes
    <3>5. /\ expense[e].question = n /\ n # 0
          /\ n \in QuestionRows(e) /\ \A i \in QuestionRows(e) : i <= n
      BY <1>2, <3>1 DEF QuestionAndAnswer, Open
    <3>6. approvals'[e][n + 1].action = "info_answered"
      BY <3>3
    <3>7. QuestionRows(e)' = QuestionRows(e)
      <4>1. QuestionRows(e)' =
              {i \in DOMAIN approvals'[e] : approvals'[e][i].action = "info_requested"}
        BY DEF QuestionRows
      <4>2. QED
        BY <3>3, <3>6, <4>1 DEF QuestionRows
    <3> HIDE DEF n
    <3>8. /\ n + 1 \in DOMAIN approvals'[e]
          /\ approvals'[e][n + 1] = [by |-> expense'[e].owner, action |-> "info_answered"]
      BY <3>3, <3>4
    <3>9. /\ expense'[e].question = n
          /\ n \in QuestionRows(e)' /\ \A i \in QuestionRows(e)' : i <= n
      BY <3>4, <3>5, <3>7
    <3>10. QED
      BY <3>3, <3>4, <3>5, <3>8, <3>9 DEF QuestionAndAnswer, Open
  <2>5. CASE Resuming(e)
    <3>1. /\ approvals'[e] = approvals[e] /\ expense[e].status = "info_requested"
          /\ expense'[e].status = "pending"
          /\ expense'[e].question = expense[e].question /\ expense'[e].answer = 0
      BY <2>5 DEF Resuming, Moves, ExpenseBecomes
    <3>2. QuestionRows(e)' = QuestionRows(e)
      BY <3>1 DEF QuestionRows
    <3>3. QED
      BY <1>2, <3>1, <3>2 DEF QuestionAndAnswer, Open
  <2>6. CASE Opening(e) \/ Moving(e) \/ Attaching(e)
    BY <1>2, <2>6 DEF Opening, Moving, Attaching, QuestionAndAnswer, QuestionRows, Open
  <2>7. CASE Settling(e)
    BY <1>2, <2>7 DEF Settling, ExpenseBecomes, QuestionAndAnswer, QuestionRows, Open
  <2>8. QED
    BY <2>1, <2>2, <2>3, <2>4, <2>5, <2>6, <2>7 DEF RowChange
<1>4. QED
  BY <1>1, <1>3 DEF QuestionAndAnswerMatch

(* Nobody reviews an expense that does not exist. *)
NoEarlyHistory == \A e \in Expenses : ~Filed(e) => approvals[e] = <<>>

LEMMA HistoryStep ==
  ASSUME NoEarlyHistory, NEW e \in Expenses, RowChange(e), Elsewhere(e)
  PROVE  NoEarlyHistory'
<1>1. \A d \in Expenses \ {e} : (~Filed(d) => approvals[d] = <<>>)'
  BY DEF NoEarlyHistory, Elsewhere, RowUnchanged, Filed
<1>2. (~Filed(e) => approvals[e] = <<>>)'
  <2>1. CASE Filing(e)
    BY <2>1 DEF Filing, Filed
  <2>2. CASE Deciding(e) \/ Asking(e) \/ Answering(e) \/ Resuming(e)
    BY <2>2 DEF Deciding, Asking, Answering, Resuming, ExpenseBecomes, Filed
  <2>3. CASE Opening(e) \/ Moving(e) \/ Settling(e) \/ Attaching(e)
    BY <2>3 DEF NoEarlyHistory, Opening, Moving, Settling, Attaching, ExpenseBecomes, Filed
  <2>4. QED
    BY <2>1, <2>2, <2>3 DEF RowChange
<1>3. QED
  BY <1>1, <1>2 DEF NoEarlyHistory

(* Old notices stay true: an outcome is final, and nothing is told about   *)
(* an expense before it exists.                                            *)
Truthful(n) ==
  /\ n.type = "rejected" => Refused(n.about)
  /\ n.type = "approved" => Granted(n.about)
  /\ n.type = "paid" => payout[n.about].status = "paid"
  /\ n.type \in {"rejected", "approved", "paid"} => n.to = expense[n.about].owner

LEMMA InboxStep ==
  ASSUME TypeOK, InboxTellsTheTruth, PayoutMatchesExpense,
         NEW e \in Expenses, RowChange(e), Elsewhere(e)
  PROVE  InboxTellsTheTruth'
<1>1. InboxTellsTheTruth <=> \A n \in inbox : Truthful(n)
  BY DEF InboxTellsTheTruth, Truthful
<1>2. InboxTellsTheTruth' <=> \A n \in inbox' : Truthful(n)'
  BY DEF InboxTellsTheTruth, Truthful
<1>3. ASSUME NEW n \in inbox PROVE Truthful(n)'
  <2>1. Truthful(n) /\ n.about \in Expenses
    BY <1>1 DEF TypeOK, Notices
  <2>2. CASE n.about # e
    BY <2>1, <2>2 DEF Truthful, Elsewhere, RowUnchanged, Refused, Granted
  <2>3. CASE n.about = e
    <3>1. CASE Filing(e)
      BY <2>1, <2>3, <3>1 DEF Filing, Truthful, Refused, Granted, Filed,
                              PayoutMatchesExpense, PaidInStep
    <3>2. CASE Deciding(e) \/ Asking(e) \/ Answering(e) \/ Resuming(e)
      BY <2>1, <2>3, <3>2 DEF Deciding, Asking, Answering, Resuming, Moves, ExpenseBecomes,
                              Truthful, Refused, Granted, Open
    <3>3. CASE Opening(e) \/ Moving(e) \/ Attaching(e)
      BY <2>1, <2>3, <3>3 DEF Opening, Moving, Attaching, PayoutBecomes,
                              Truthful, Refused, Granted, HasPayout
    <3>4. CASE Settling(e)
      BY <2>1, <2>3, <3>4 DEF Settling, PayoutBecomes, ExpenseBecomes,
                              Truthful, Refused, Granted
    <3>5. QED
      BY <3>1, <3>2, <3>3, <3>4 DEF RowChange
  <2>4. QED
    BY <2>2, <2>3
<1>4. ASSUME NEW n, inbox' = inbox \cup {n}, Truthful(n)' PROVE InboxTellsTheTruth'
  BY <1>2, <1>3, <1>4
<1>5. CASE Filing(e) \/ Answering(e) \/ Resuming(e) \/ Opening(e) \/ Attaching(e)
  <2>1. inbox' = inbox
    BY <1>5 DEF Filing, Answering, Resuming, Opening, Attaching
  <2>2. QED
    BY <1>2, <1>3, <2>1
<1>6. CASE Deciding(e)
  <2>1. PICK to \in {"approved", "rejected"} :
          /\ expense'[e].status = to /\ expense'[e].owner = expense[e].owner
          /\ inbox' = inbox \cup {[to |-> expense[e].owner, about |-> e, type |-> to]}
    BY <1>6 DEF Deciding, ExpenseBecomes
  <2>2. PICK n : n = [to |-> expense[e].owner, about |-> e, type |-> to]
    OBVIOUS
  <2>3. Truthful(n)'
    BY <2>1, <2>2 DEF Truthful, Refused, Granted
  <2>4. QED
    BY <1>4, <2>1, <2>2, <2>3
<1>7. CASE Asking(e)
  <2>1. inbox' = inbox \cup {[to |-> expense[e].owner, about |-> e, type |-> "info_requested"]}
    BY <1>7 DEF Asking
  <2>2. PICK n : n = [to |-> expense[e].owner, about |-> e, type |-> "info_requested"]
    OBVIOUS
  <2>3. Truthful(n)'
    BY <2>2 DEF Truthful
  <2>4. QED
    BY <1>4, <2>1, <2>2, <2>3
<1>8. CASE Moving(e)
  <2>1. PICK to \in {"processing", "failed"} :
          inbox' = inbox \cup {[to |-> expense[e].owner, about |-> e, type |-> to]}
    BY <1>8 DEF Moving
  <2>2. PICK n : n = [to |-> expense[e].owner, about |-> e, type |-> to]
    OBVIOUS
  <2>3. Truthful(n)'
    BY <2>1, <2>2 DEF Truthful
  <2>4. QED
    BY <1>4, <2>1, <2>2, <2>3
<1>9. CASE Settling(e)
  <2>1. /\ inbox' = inbox \cup {[to |-> expense[e].owner, about |-> e, type |-> "paid"]}
        /\ payout'[e].status = "paid" /\ expense'[e].owner = expense[e].owner
    BY <1>9 DEF Settling, ExpenseBecomes, PayoutBecomes
  <2>2. PICK n : n = [to |-> expense[e].owner, about |-> e, type |-> "paid"]
    OBVIOUS
  <2>3. Truthful(n)'
    BY <2>1, <2>2 DEF Truthful
  <2>4. QED
    BY <1>4, <2>1, <2>2, <2>3
<1>10. QED
  BY <1>5, <1>6, <1>7, <1>8, <1>9 DEF RowChange

-----------------------------------------------------------------------------
(* The inductive invariant and what follows from it. *)

\* What the trigger saw still holds, unless a removal has outrun the commit.
SubmittersRemain ==
  \A r \in updated \ outrun : expense[job[r].on].owner \in members

\* Where a request that is past its UPDATE and was not outrun comes from.
StillTrue(q) ==
  LET owner == expense[job[q].on].owner IN
  /\ q \in Requests /\ job'[q].on = job[q].on
  /\ job[q].on \in Expenses /\ Filed(job[q].on)
  /\ \/ q \in updated \ outrun /\ (owner \in members => owner \in members')
     \/ owner \in members'

LEMMA UpdatedSource ==
  ASSUME TypeOK, [Next]_vars, NEW q \in updated' \ outrun'
  PROVE  StillTrue(q)
<1> DEFINE owner == expense[job[q].on].owner
<1>1. ASSUME q \in updated \ outrun, job'[q] = job[q], owner \in members => owner \in members'
      PROVE StillTrue(q)
  BY <1>1, UpdatedIsLocked, JobShape DEF StillTrue
<1>2. ASSUME NEW r \in Requests, Finish(r), members' = members PROVE StillTrue(q)
  <2>1. q # r /\ q \in updated \ outrun /\ job'[q] = job[q]
    BY <1>2 DEF Finish, TypeOK
  <2>2. QED
    BY <1>1, <1>2, <2>1
<1>3. ASSUME NEW u \in Users, RemoveMember(u) PROVE StillTrue(q)
  BY <1>1, <1>3 DEF RemoveMember
<1>4. ASSUME NEW u \in Users, \E isAdmin \in BOOLEAN : AddMember(u, isAdmin) PROVE StillTrue(q)
  BY <1>1, <1>4 DEF AddMember, reqVars
<1>5. ASSUME NEW u \in Users, NEW e \in Expenses, Submit(u, e) PROVE StillTrue(q)
  BY <1>1, <1>5 DEF Submit, reqVars, orgVars
<1>6. ASSUME NEW r \in Requests, NEW u \in Users, NEW op \in Ops, NEW e \in Expenses,
             Authorize(r, u, op, e)
      PROVE StillTrue(q)
  <2>1. q \in updated \ outrun /\ q # r
    BY <1>6, UpdatedIsLocked DEF Authorize
  <2>2. QED
    BY <1>1, <1>6, <2>1 DEF Authorize, orgVars, TypeOK
<1>7. ASSUME NEW r \in Requests, job[r].pc = "authorized", members' = members,
             \E pc, seen : Advance(r, pc, seen)
      PROVE StillTrue(q)
  <2>1. q \in updated \ outrun /\ q # r
    BY <1>7, UpdatedIsLocked DEF Advance
  <2>2. QED
    BY <1>1, <1>7, <2>1, UpdatedIsLocked DEF Advance, TypeOK
<1>8. ASSUME NEW r \in Requests, LockExpense(r) \/ LockPayout(r) \/ ReadApproved(r)
      PROVE StillTrue(q)
  BY <1>2, <1>7, <1>8 DEF LockExpense, LockPayout, ReadApproved, orgVars
<1>9. ASSUME NEW r \in Requests, Update(r) \/ MarkReimbursed(r) PROVE StillTrue(q)
  <2>1. CASE q = r
    BY <1>9, <2>1, JobShape
    DEF Update, MarkReimbursed, Updated, orgVars, TriggersAccept, SubmitterIsMember, StillTrue
  <2>2. CASE q # r
    BY <1>1, <1>9, <2>2 DEF Update, MarkReimbursed, Updated, orgVars
  <2>3. QED
    BY <2>1, <2>2
<1>10. ASSUME NEW r \in Requests, NEW reference \in BOOLEAN,
             \/ Decide(r) \/ RequestInfo(r) \/ Resubmit(r) \/ RejectedByTrigger(r)
             \/ Pay(r) \/ PayRefused(r) \/ AttachReceipt(r) \/ Crash(r)
             \/ CreatePayout(r, reference) \/ MovePayout(r, reference)
      PROVE StillTrue(q)
  BY <1>2, <1>10
  DEF Decide, RequestInfo, Resubmit, UpdateStatus, RejectedByTrigger, Pay, PayRefused,
      AttachReceipt, Crash, CreatePayout, MovePayout, orgVars
<1>11. CASE UNCHANGED vars
  BY <1>1, <1>11 DEF vars
<1>12. QED
  BY <1>3, <1>4, <1>5, <1>6, <1>8, <1>9, <1>10, <1>11 DEF Next, Handle

LEMMA OwnerStays ==
  ASSUME NEW e \in Expenses, RowChange(e), Elsewhere(e), NEW d \in Expenses, Filed(d)
  PROVE  expense'[d].owner = expense[d].owner
<1>1. CASE d # e
  BY <1>1 DEF Elsewhere, RowUnchanged
<1>2. CASE d = e
  BY <1>2 DEF RowChange, Filing, Deciding, Asking, Answering, Resuming, Opening, Moving,
              Settling, Attaching, ExpenseBecomes
<1>3. QED
  BY <1>1, <1>2

LEMMA RemainStep ==
  ASSUME TypeOK, LockedRowIsCurrent, CheckedIsGranted, SubmittersRemain, [Next]_vars
  PROVE  SubmittersRemain'
<1> SUFFICES ASSUME NEW q \in updated' \ outrun'
             PROVE  expense'[job'[q].on].owner \in members'
  BY DEF SubmittersRemain
<1>1. StillTrue(q)
  BY UpdatedSource
<1>2. expense[job[q].on].owner \in members'
  BY <1>1 DEF StillTrue, SubmittersRemain
<1>3. expense'[job[q].on].owner = expense[job[q].on].owner
  <2>1. job[q].on \in Expenses /\ Filed(job[q].on)
    BY <1>1 DEF StillTrue
  <2>2. CASE UNCHANGED rowVars
    BY <2>2 DEF rowVars
  <2>3. CASE \E e \in Expenses : RowChange(e) /\ Elsewhere(e)
    BY <2>1, <2>3, OwnerStays
  <2>4. QED
    BY <2>2, <2>3, RowSteps
<1>4. QED
  BY <1>1, <1>2, <1>3 DEF StillTrue

Inv ==
  /\ TypeOK
  /\ LockedRowIsCurrent
  /\ SubmittersRemain
  /\ CheckedIsGranted
  /\ NoEarlyHistory
  /\ DecidedOnceByAnother
  /\ QuestionAndAnswerMatch
  /\ AuditIsThePath
  /\ PayoutMatchesExpense
  /\ EvidenceIsThere
  /\ InboxTellsTheTruth

LEMMA InitInv == Init => Inv
<1> SUFFICES ASSUME Init PROVE Inv
  OBVIOUS
<1>1. TypeOK
  BY InitTyped
<1>2. \A e \in Expenses : /\ expense[e].status = "absent" /\ expense[e].question = 0
                          /\ expense[e].answer = 0 /\ ~expense[e].reason
                          /\ approvals[e] = <<>> /\ audit[e] = <<>>
                          /\ payout[e].status = "absent" /\ ~payout[e].receipt
  BY DEF Init, AbsentExpense, AbsentPayout
<1>3. \A r \in Requests : job[r].pc = "idle"
  BY DEF Init, Idle
<1>4. LockedRowIsCurrent /\ SubmittersRemain /\ CheckedIsGranted
  BY <1>3 DEF Init, LockedRowIsCurrent, RowsHeldOnce, SubmittersRemain, CheckedIsGranted
<1>5. NoEarlyHistory
  BY <1>2 DEF NoEarlyHistory
<1>6. DecidedOnceByAnother
  BY <1>2 DEF DecidedOnceByAnother, DecidedOnce, DecisionRows, Open, Refused, Granted
<1>7. QuestionAndAnswerMatch
  BY <1>2 DEF QuestionAndAnswerMatch, QuestionAndAnswer, Open
<1>8. AuditIsThePath
  BY <1>2 DEF AuditIsThePath, AuditPath, Filed
<1>9. PayoutMatchesExpense /\ EvidenceIsThere
  BY <1>2 DEF PayoutMatchesExpense, PaidInStep, EvidenceIsThere, Evidence, HasPayout,
              Granted, Refused
<1>10. InboxTellsTheTruth
  BY DEF Init, InboxTellsTheTruth
<1>11. QED
  BY <1>1, <1>4, <1>5, <1>6, <1>7, <1>8, <1>9, <1>10 DEF Inv

LEMMA NextInv == Inv /\ [Next]_vars => Inv'
<1> SUFFICES ASSUME Inv, [Next]_vars PROVE Inv'
  OBVIOUS
<1>1. TypeOK'
  BY TypeStep DEF Inv
<1>2. LockedRowIsCurrent' /\ SubmittersRemain'
  <2>1. LocksHold /\ ExpensesHeld /\ TypeOK /\ TypeOK'
    BY <1>1, LocksAre DEF Inv
  <2>2. LocksHold' /\ ExpensesHeld'
    BY <2>1, LocksStep, HeldStep
  <2>3. LockedRowIsCurrent'
    BY <2>2 DEF LockedRowIsCurrent, LocksHold, ExpensesHeld
  <2>4. QED
    BY <2>3, RemainStep DEF Inv
<1>3. CheckedIsGranted'
  BY CheckedStep DEF Inv
<1>4. CASE UNCHANGED rowVars
  <2>1. NoEarlyHistory' /\ DecidedOnceByAnother' /\ QuestionAndAnswerMatch' /\ AuditIsThePath'
    BY <1>4 DEF Inv, rowVars, NoEarlyHistory, DecidedOnceByAnother, DecidedOnce, DecisionRows,
                QuestionAndAnswerMatch, QuestionAndAnswer, QuestionRows, AuditIsThePath,
                AuditPath, Open, Refused, Granted, Filed
  <2>2. PayoutMatchesExpense' /\ EvidenceIsThere' /\ InboxTellsTheTruth'
    BY <1>4 DEF Inv, rowVars, PayoutMatchesExpense, PaidInStep, EvidenceIsThere, Evidence,
                InboxTellsTheTruth, HasPayout, Refused, Granted
  <2>3. QED
    BY <1>1, <1>2, <1>3, <2>1, <2>2 DEF Inv
<1>5. ASSUME NEW e \in Expenses, RowChange(e), Elsewhere(e) PROVE Inv'
  <2>1. ~Filed(e) => approvals[e] = <<>>
    BY DEF Inv, NoEarlyHistory
  <2>2. QED
    BY <1>1, <1>2, <1>3, <1>5, <2>1, HistoryStep, DecidedStep, QuestionStep, AuditStep,
       MoneyStep, EvidenceStep, InboxStep
    DEF Inv
<1>6. QED
  BY <1>4, <1>5, RowSteps DEF Inv

(* The inductive invariant holds in every state the requests of the        *)
(* expense and reimbursement services can reach; the theorems below are    *)
(* its consequences.                                                       *)
THEOREM InvHolds == Spec => []Inv
BY InitInv, NextInv, PTL DEF Spec

(* A row lock keeps what its holder checked true until the holder commits, *)
(* and no row is held twice, whatever is in flight.                        *)
THEOREM LocksWork == Spec => []LockedRowIsCurrent
<1>1. Inv => LockedRowIsCurrent
  BY DEF Inv
<1>2. QED
  BY <1>1, InvHolds, PTL

(* Every expense is decided at most once, and never by its submitter. *)
THEOREM DecidedSafely == Spec => []DecidedOnceByAnother
<1>1. Inv => DecidedOnceByAnother
  BY DEF Inv
<1>2. QED
  BY <1>1, InvHolds, PTL

(* The open question and its answer are those of the history. *)
THEOREM QuestionsAnswered == Spec => []QuestionAndAnswerMatch
<1>1. Inv => QuestionAndAnswerMatch
  BY DEF Inv
<1>2. QED
  BY <1>1, InvHolds, PTL

(* The audit trail is a path of the state machine that ends at the row. *)
THEOREM AuditComplete == Spec => []AuditIsThePath
<1>1. Inv => AuditIsThePath
  BY DEF Inv
<1>2. QED
  BY <1>1, InvHolds, PTL

(* No payout without a grant; paid and reimbursed are one fact. *)
THEOREM MoneySafe == Spec => []PayoutMatchesExpense
<1>1. Inv => PayoutMatchesExpense
  BY DEF Inv
<1>2. QED
  BY <1>1, InvHolds, PTL

(* Reasons, references and receipts are where they have to be. *)
THEOREM EvidenceKept == Spec => []EvidenceIsThere
<1>1. Inv => EvidenceIsThere
  BY DEF Inv
<1>2. QED
  BY <1>1, InvHolds, PTL

(* What submitters were told stays true. *)
THEOREM InboxTruthful == Spec => []InboxTellsTheTruth
<1>1. Inv => InboxTellsTheTruth
  BY DEF Inv
<1>2. QED
  BY <1>1, InvHolds, PTL

-----------------------------------------------------------------------------
(* Expenses of those who have left, and the claim that the workflow
   implements (ExpenseClaim). *)

(* Whoever updates an expense has passed the triggers of its table, and was *)
(* outrun if what they saw is not true any more.                            *)
LEMMA FrozenStep ==
  ASSUME TypeOK, LockedRowIsCurrent, [Next]_vars,
         SubmittersRemain,
         NEW e \in Expenses, Filed(e), expense[e].owner \notin members, ~OutrunOn(e)
  PROVE  expense'[e] = expense[e]
<1>1. ASSUME NEW u \in Users, NEW d \in Expenses, Submit(u, d) PROVE expense'[e] = expense[e]
  BY <1>1 DEF Submit, TypeOK
<1>2. ASSUME NEW r \in Requests, Decide(r) \/ RequestInfo(r) \/ Resubmit(r)
      PROVE expense'[e] = expense[e]
  <2>1. r \in updated /\ job[r].op \in ExpenseOps
    BY <1>2 DEF Decide, RequestInfo, Resubmit, ExpenseOps
  <2>2. PICK reason, question, answer : UpdateStatus(r, reason, question, answer)
    BY <1>2 DEF Decide, RequestInfo, Resubmit
  <2>3. job[r].on # e
    BY <2>1 DEF SubmittersRemain, OutrunOn
  <2>4. \A d \in Expenses : d # job[r].on => expense'[d] = expense[d]
    <3>1. LocksHold
      BY LocksAre
    <3>2. \E row : expense' = [expense EXCEPT ![job[r].on] = row]
      BY <2>1, <2>2, <3>1, UpdateFacts
    <3>3. QED
      BY <3>2 DEF TypeOK
  <2>5. QED
    BY <2>3, <2>4
<1>3. ASSUME NEW r \in Requests, Pay(r) PROVE expense'[e] = expense[e]
  <2>1. job[r].on # e
    BY <1>3 DEF Pay, SubmittersRemain, OutrunOn
  <2>2. QED
    BY <1>3, <2>1 DEF Pay, TypeOK
<1>4. ASSUME NEW u \in Users,
             RemoveMember(u) \/ \E isAdmin \in BOOLEAN : AddMember(u, isAdmin)
      PROVE expense'[e] = expense[e]
  BY <1>4 DEF RemoveMember, AddMember, rowVars
<1>5. ASSUME NEW r \in Requests, NEW u \in Users, NEW op \in Ops, NEW d \in Expenses,
             Authorize(r, u, op, d)
      PROVE expense'[e] = expense[e]
  BY <1>5 DEF Authorize, rowVars
<1>6. ASSUME NEW r \in Requests, NEW reference \in BOOLEAN,
             \/ LockExpense(r) \/ RejectedByTrigger(r) \/ ReadApproved(r)
             \/ LockPayout(r) \/ PayRefused(r) \/ Crash(r) \/ AttachReceipt(r)
             \/ CreatePayout(r, reference) \/ MovePayout(r, reference)
             \/ Update(r) \/ MarkReimbursed(r)
      PROVE expense'[e] = expense[e]
  BY <1>6 DEF LockExpense, RejectedByTrigger, ReadApproved, LockPayout, PayRefused, Crash,
              AttachReceipt, CreatePayout, MovePayout, Update, MarkReimbursed, Updated, rowVars
<1>7. CASE UNCHANGED vars
  BY <1>7 DEF vars
<1>8. QED
  BY <1>1, <1>2, <1>3, <1>4, <1>5, <1>6, <1>7 DEF Next, Handle

(* Nothing changes the expense of a person who is not a member any more,   *)
(* but the commit of an UPDATE that the trigger had let pass before.       *)
THEOREM LeaversAreFrozen == Spec => FrozenWithoutSubmitter
<1>1. Inv /\ [Next]_vars =>
        [\A e \in Expenses :
           Filed(e) /\ expense[e].owner \notin members /\ ~OutrunOn(e) =>
             expense'[e] = expense[e]]_vars
  BY FrozenStep DEF Inv
<1>2. QED
  BY <1>1, InvHolds, PTL DEF Spec, FrozenWithoutSubmitter

-----------------------------------------------------------------------------
(* The refinement of ExpenseClaim. *)

LEMMA StageIs ==
  ASSUME NEW e \in Expenses
  PROVE  /\ expense[e].status = "absent" => StageOf(e) = "none"
         /\ expense[e].status \in {"pending", "info_requested"} => StageOf(e) = "open"
         /\ expense[e].status = "rejected" => StageOf(e) = "refused"
         /\ expense[e].status = "approved" /\ ~HasPayout(e) => StageOf(e) = "granted"
         /\ expense[e].status = "approved" /\ HasPayout(e) => StageOf(e) = "owed"
         /\ expense[e].status = "reimbursed" => StageOf(e) = "settled"
BY DEF StageOf, Filed, Open, Refused

LEMMA ClaimInitMapped == Init => Claims!ClaimInit
<1> SUFFICES ASSUME Init PROVE Claims!ClaimInit
  OBVIOUS
<1>1. ASSUME NEW e \in Expenses PROVE ClaimOf(e) = Claims!Unfiled
  <2>1. expense[e].status = "absent" /\ expense[e].owner = NoUser
    BY DEF Init, AbsentExpense
  <2>2. QED
    BY <2>1, StageIs DEF ClaimOf, Claims!Unfiled, Refused, Granted
<1>2. QED
  BY <1>1 DEF Claims!ClaimInit, ClaimView

(* The claims of the other expenses do not move. *)
LEMMA OtherClaims ==
  ASSUME NEW e \in Expenses, Elsewhere(e), NEW d \in Expenses, d # e
  PROVE  ClaimOf(d)' = ClaimOf(d)
BY DEF Elsewhere, RowUnchanged, ClaimOf, StageOf, Filed, Open, Refused, Granted, HasPayout

LEMMA ClaimMoves ==
  ASSUME NEW e \in Expenses, Elsewhere(e), NEW c, ClaimOf(e)' = c
  PROVE  ClaimView' = [ClaimView EXCEPT ![e] = c]
<1>1. \A d \in Expenses : d # e => ClaimOf(d)' = ClaimOf(d)
  BY OtherClaims
<1>2. QED
  BY <1>1 DEF ClaimView

LEMMA ClaimStep ==
  ASSUME Inv, Inv', NEW e \in Expenses, RowChange(e), Elsewhere(e)
  PROVE  [Claims!ClaimNext]_ClaimView
<1> DEFINE row(stage, owner, decider) == [stage |-> stage, owner |-> owner, decider |-> decider]
           owner == expense[e].owner
           decider == ClaimOf(e).decider
<1>1. TypeOK /\ PaidInStep(e)
  BY DEF Inv, PayoutMatchesExpense
<1>2. ClaimView[e] = ClaimOf(e) /\ ClaimOf(e) = row(StageOf(e), owner, decider)
  BY DEF ClaimView, ClaimOf
<1>3. ASSUME ClaimOf(e)' = ClaimOf(e) PROVE ClaimView' = ClaimView
  BY <1>3, OtherClaims DEF ClaimView
<1>4. CASE Filing(e)
  <2>1. PICK u \in Users : /\ ~Filed(e) /\ expense'[e].status = "pending"
                           /\ expense'[e].owner = u
    BY <1>4 DEF Filing
  <2>2. ClaimOf(e)' = [stage |-> "open", owner |-> u, decider |-> NoUser]
    <3>1. StageOf(e)' = "open"
      BY <2>1 DEF StageOf, Filed, Open, Refused
    <3>2. expense'[e].status \notin {"rejected", "approved", "reimbursed"}
      BY <2>1
    <3>3. ~(Refused(e) \/ Granted(e))'
      BY <3>2 DEF Refused, Granted
    <3>4. ClaimOf(e)' = [stage |-> StageOf(e)', owner |-> expense'[e].owner,
                         decider |-> IF (Refused(e) \/ Granted(e))'
                                       THEN approvals'[e][Len(approvals'[e])].by ELSE NoUser]
      BY DEF ClaimOf, Refused, Granted
    <3>5. QED
      BY <2>1, <3>1, <3>3, <3>4
  <2>3. ClaimView[e].stage = "none"
    BY <1>2, <2>1, StageIs DEF Filed, ClaimOf
  <2>4. Claims!File(u, e)
    BY <1>4, <2>2, <2>3, ClaimMoves DEF Claims!File
  <2>5. QED
    BY <2>4 DEF Claims!ClaimNext
<1>5. CASE Deciding(e)
  <2>1. PICK u \in Users, to \in {"approved", "rejected"} :
          /\ u # owner /\ Open(e) /\ Adds(e, u, to) /\ payout'[e] = payout[e]
          /\ expense'[e].status = to /\ expense'[e].owner = owner
    BY <1>5 DEF Deciding, ExpenseBecomes, Moves
  <2>2. StageOf(e) = "open" /\ ~HasPayout(e)
    BY <1>1, <2>1, StageIs DEF Open, PaidInStep, Granted
  <2>3. approvals'[e][Len(approvals'[e])].by = u
    <3>1. to \in {"approved", "rejected", "info_requested", "info_answered"}
      OBVIOUS
    <3>2. /\ Len(approvals'[e]) = Len(approvals[e]) + 1
          /\ approvals'[e][Len(approvals[e]) + 1] = [by |-> u, action |-> to]
      BY <1>1, <2>1, <3>1, HistoryGrows
    <3>3. QED
      BY <3>2
  <2>4. StageOf(e)' = IF to = "approved" THEN "granted" ELSE "refused"
    BY <2>1, <2>2 DEF StageOf, Filed, Open, Refused, HasPayout
  <2>5. ClaimOf(e)' = [stage |-> IF to = "approved" THEN "granted" ELSE "refused",
                       owner |-> owner, decider |-> u]
    BY <2>1, <2>3, <2>4 DEF ClaimOf, Refused, Granted
  <2>6. ClaimView' = [ClaimView EXCEPT ![e] =
                        [stage |-> IF to = "approved" THEN "granted" ELSE "refused",
                         owner |-> owner, decider |-> u]]
    BY <1>5, <2>5, ClaimMoves
  <2>7. ClaimView[e].stage = "open" /\ ClaimView[e].owner = owner
    BY <1>2, <2>2
  <2>8. CASE to = "approved"
    BY <2>1, <2>6, <2>7, <2>8 DEF Claims!ClaimNext, Claims!Grant, Claims!Decided
  <2>9. CASE to = "rejected"
    BY <2>1, <2>6, <2>7, <2>9 DEF Claims!ClaimNext, Claims!Refuse, Claims!Decided
  <2>10. QED
    BY <2>8, <2>9
<1>6. CASE Asking(e) \/ Answering(e) \/ Resuming(e)
  <2>1. /\ expense[e].status \in {"pending", "info_requested"}
        /\ expense'[e].status \in {"pending", "info_requested"}
        /\ expense'[e].owner = expense[e].owner
    BY <1>6 DEF Asking, Answering, Resuming, Moves, ExpenseBecomes
  <2>2. ClaimOf(e)' = ClaimOf(e)
    BY <2>1 DEF ClaimOf, StageOf, Filed, Open, Refused, Granted
  <2>3. QED
    BY <1>3, <2>2
<1>7. CASE Moving(e) \/ Attaching(e)
  <2>1. expense' = expense /\ approvals' = approvals /\ (HasPayout(e)' <=> HasPayout(e))
    BY <1>7 DEF Moving, Attaching, PayoutBecomes, HasPayout
  <2>2. ClaimOf(e)' = ClaimOf(e)
    BY <2>1 DEF ClaimOf, StageOf, Filed, Open, Refused, Granted
  <2>3. QED
    BY <1>3, <2>2
<1>8. CASE Opening(e)
  <2>1. /\ expense[e].status = "approved" /\ ~HasPayout(e) /\ HasPayout(e)'
        /\ expense' = expense /\ approvals' = approvals
    BY <1>1, <1>8 DEF Opening, PaidInStep, Granted, HasPayout
  <2>2. StageOf(e) = "granted" /\ StageOf(e)' = "owed"
    BY <2>1, StageIs DEF StageOf, Filed, Open, Refused
  <2>3. ClaimOf(e)' = [stage |-> "owed", owner |-> owner, decider |-> decider]
    BY <2>1, <2>2 DEF ClaimOf, Refused, Granted
  <2>4. ClaimView' = [ClaimView EXCEPT ![e] =
                        [stage |-> "owed", owner |-> owner, decider |-> decider]]
    BY <1>8, <2>3, ClaimMoves
  <2>5. ClaimView[e].stage = "granted" /\ ClaimView[e].owner = owner
        /\ ClaimView[e].decider = decider
    BY <1>2, <2>2
  <2>6. QED
    BY <2>4, <2>5 DEF Claims!ClaimNext, Claims!Owe
<1>9. CASE Settling(e)
  <2>1. /\ expense[e].status = "approved" /\ HasPayout(e) /\ approvals' = approvals
        /\ expense'[e].status = "reimbursed" /\ expense'[e].owner = owner
    BY <1>9 DEF Settling, ExpenseBecomes, HasPayout
  <2>2. StageOf(e) = "owed" /\ StageOf(e)' = "settled"
    BY <2>1, StageIs DEF StageOf, Filed, Open, Refused
  <2>3. ClaimOf(e)' = [stage |-> "settled", owner |-> owner, decider |-> decider]
    BY <2>1, <2>2 DEF ClaimOf, Refused, Granted
  <2>4. ClaimView' = [ClaimView EXCEPT ![e] =
                        [stage |-> "settled", owner |-> owner, decider |-> decider]]
    BY <1>9, <2>3, ClaimMoves
  <2>5. ClaimView[e].stage = "owed" /\ ClaimView[e].owner = owner
        /\ ClaimView[e].decider = decider
    BY <1>2, <2>2
  <2>6. QED
    BY <2>4, <2>5 DEF Claims!ClaimNext, Claims!Settle
<1>10. QED
  BY <1>4, <1>5, <1>6, <1>7, <1>8, <1>9 DEF RowChange

LEMMA ClaimNextMapped == Inv /\ Inv' /\ [Next]_vars => [Claims!ClaimNext]_ClaimView
<1> SUFFICES ASSUME Inv, Inv', [Next]_vars PROVE [Claims!ClaimNext]_ClaimView
  OBVIOUS
<1>1. CASE UNCHANGED rowVars
  BY <1>1 DEF rowVars, ClaimView, ClaimOf, StageOf, Filed, Open, Refused, Granted, HasPayout
<1>2. QED
  BY <1>1, ClaimStep, RowSteps DEF Inv

(* The services keep the promise of ExpenseClaim: filed, decided once by   *)
(* another person, settled at most once and only after a payout was opened. *)
THEOREM ClaimKept == Spec => KeepsTheClaim
BY ClaimInitMapped, ClaimNextMapped, InvHolds, PTL DEF Spec, KeepsTheClaim, Claims!ClaimSpec

-----------------------------------------------------------------------------
(* What RequestsFinish rests on, fairness apart: a request waits only for   *)
(* one on the same expense that waits for nobody, and no step sends a       *)
(* request back.                                                            *)

\* The request's next step waits for nobody: the guards of Handle.
CanGo(r) ==
  LET e == job[r].on IN
  \/ /\ job[r].pc = "authorized" /\ job[r].op \in ExpenseOps
     /\ ~ExpenseLocked(e) /\ ~ExpenseBooked(e)
  \/ job[r].pc = "authorized" /\ job[r].op \in PayoutOps /\ ~PayoutLocked(e)
  \/ job[r].pc = "authorized" /\ job[r].op = "create_payout"
  \/ job[r].pc = "checked" /\ ~ExpenseLocked(e)
  \/ job[r].pc = "locked" /\ (job[r].op = "pay" /\ r \notin updated => ~ExpenseLocked(e))

NobodyWaitsInACircle ==
  \A r \in Requests : job[r].pc # "idle" =>
    \E q \in Requests : job[q].pc # "idle" /\ job[q].on = job[r].on /\ CanGo(q)

StepsLeft(r) ==
  IF job[r].pc = "idle" THEN 0
  ELSE IF job[r].pc = "authorized" THEN 3
  ELSE IF job[r].pc = "locked" /\ r \notin updated THEN 2
  ELSE 1

GoesForward(r) ==
  \/ job'[r] = job[r] /\ StepsLeft(r)' = StepsLeft(r)
  \/ StepsLeft(r)' < StepsLeft(r)

OnlyForward == [][\A r \in Requests : job[r].pc # "idle" => GoesForward(r)]_vars

LEMMA SomebodyCanGo ==
  ASSUME TypeOK, LockedRowIsCurrent, NEW r \in Requests, job[r].pc # "idle"
  PROVE  \E q \in Requests : job[q].pc # "idle" /\ job[q].on = job[r].on /\ CanGo(q)
<1>1. job[r] \in Jobs
  BY JobShape
<1>2. ASSUME NEW q \in Requests, job[q].pc = "locked", job[q].on = job[r].on, CanGo(q)
      PROVE  \E p \in Requests : job[p].pc # "idle" /\ job[p].on = job[r].on /\ CanGo(p)
  BY <1>2
<1>3. CASE ExpenseLocked(job[r].on)
  <2>1. PICK h \in Requests : job[h].pc = "locked" /\ job[h].on = job[r].on /\ job[h].op \in ExpenseOps
    BY <1>3 DEF ExpenseLocked
  <2>2. CanGo(h)
    BY <2>1 DEF CanGo, ExpenseOps, Decisions, Resubmissions
  <2>3. QED
    BY <1>2, <2>1, <2>2
<1>4. CASE ~ExpenseLocked(job[r].on) /\ (PayoutLocked(job[r].on) \/ ExpenseBooked(job[r].on))
  <2>1. PICK h \in Requests : job[h].pc = "locked" /\ job[h].on = job[r].on
    BY <1>4, UpdatedIsLocked DEF PayoutLocked, ExpenseBooked
  <2>2. CanGo(h)
    BY <1>4, <2>1 DEF CanGo
  <2>3. QED
    BY <1>2, <2>1, <2>2
<1>5. CASE /\ ~ExpenseLocked(job[r].on) /\ ~PayoutLocked(job[r].on)
           /\ ~ExpenseBooked(job[r].on)
  BY <1>1, <1>5 DEF CanGo, Jobs, Ops
<1>6. QED
  BY <1>3, <1>4, <1>5

LEMMA ForwardStep ==
  ASSUME TypeOK, Next, NEW r \in Requests, job[r].pc # "idle"
  PROVE  GoesForward(r)
<1>1. /\ job \in [Requests -> Jobs \cup {Idle}]
      /\ job[r].pc \in {"authorized", "checked", "locked"}
      /\ r \in updated => job[r].pc = "locked"
  BY JobShape DEF TypeOK, Jobs
<1>2. ASSUME job'[r] = job[r], r \in updated' <=> r \in updated PROVE GoesForward(r)
  BY <1>1, <1>2 DEF GoesForward, StepsLeft
<1>3. ASSUME NEW q \in Requests, Finish(q) PROVE GoesForward(r)
  <2>1. CASE q = r
    <3>1. job'[r].pc = "idle" /\ r \notin updated'
      BY <1>1, <1>3, <2>1 DEF Finish, Idle
    <3>2. StepsLeft(r)' = 0
      BY <3>1 DEF StepsLeft
    <3>3. QED
      BY <1>1, <3>2 DEF GoesForward, StepsLeft
  <2>2. CASE q # r
    BY <1>1, <1>2, <1>3, <2>2 DEF Finish
  <2>3. QED
    BY <2>1, <2>2
<1>4. ASSUME NEW q \in Requests, job[q].pc = "authorized",
             \E pc \in {"checked", "locked"} : \E seen : Advance(q, pc, seen)
      PROVE  GoesForward(r)
  <2>1. CASE q = r
    <3>1. job'[r].pc \in {"checked", "locked"} /\ r \notin updated'
      BY <1>1, <1>4, <2>1 DEF Advance
    <3>2. StepsLeft(r) = 3 /\ StepsLeft(r)' \in {1, 2}
      BY <1>4, <2>1, <3>1 DEF StepsLeft
    <3>3. QED
      BY <3>2 DEF GoesForward
  <2>2. CASE q # r
    BY <1>1, <1>2, <1>4, <2>2 DEF Advance
  <2>3. QED
    BY <2>1, <2>2
<1>5. ASSUME NEW q \in Requests, Update(q) \/ MarkReimbursed(q) PROVE GoesForward(r)
  <2>1. /\ job' = job /\ updated' = updated \cup {q}
        /\ job[q].pc = "locked" /\ q \notin updated
    BY <1>5 DEF Update, MarkReimbursed, Updated
  <2>2. CASE q = r
    <3>1. StepsLeft(r) = 2 /\ StepsLeft(r)' = 1
      BY <2>1, <2>2 DEF StepsLeft
    <3>2. QED
      BY <3>1 DEF GoesForward
  <2>3. CASE q # r
    BY <1>2, <2>1, <2>3
  <2>4. QED
    BY <2>2, <2>3
<1>6. ASSUME NEW q \in Requests, LockExpense(q) \/ LockPayout(q) \/ ReadApproved(q)
      PROVE  GoesForward(r)
  BY <1>3, <1>4, <1>6 DEF LockExpense, LockPayout, ReadApproved
<1>7. ASSUME NEW q \in Requests,
             \/ Decide(q) \/ RequestInfo(q) \/ Resubmit(q) \/ RejectedByTrigger(q)
             \/ Pay(q) \/ PayRefused(q) \/ AttachReceipt(q) \/ Crash(q)
             \/ \E reference \in BOOLEAN : CreatePayout(q, reference) \/ MovePayout(q, reference)
      PROVE  GoesForward(r)
  BY <1>3, <1>7
  DEF Decide, RequestInfo, Resubmit, UpdateStatus, RejectedByTrigger, Pay, PayRefused,
      AttachReceipt, Crash, CreatePayout, MovePayout
<1>8. ASSUME NEW q \in Requests, NEW u \in Users, NEW op \in Ops, NEW e \in Expenses,
             Authorize(q, u, op, e)
      PROVE  GoesForward(r)
  BY <1>1, <1>2, <1>8 DEF Authorize
<1>9. CASE UNCHANGED <<job, updated>>
  BY <1>2, <1>9
<1>10. QED
  BY <1>5, <1>6, <1>7, <1>8, <1>9 DEF Next, Handle, AddMember, RemoveMember, Submit, reqVars

(* A request that got past authorization never waits in a circle: one on   *)
(* the same expense, itself or the holder of a row, waits for nobody       *)
(* (get_for_update of the expense and of the payout, mark_paid).           *)
THEOREM NoCircle == Spec => []NobodyWaitsInACircle
<1>1. Inv => NobodyWaitsInACircle
  BY SomebodyCanGo DEF Inv, NobodyWaitsInACircle
<1>2. QED
  BY <1>1, InvHolds, PTL

(* No handler returns to an earlier point: a request ends after three steps *)
(* of its own at most, whatever the others do.                              *)
THEOREM HandlersGoForward == Spec => OnlyForward
<1>1. Inv /\ [Next]_vars =>
        [\A r \in Requests : job[r].pc # "idle" => GoesForward(r)]_vars
  BY ForwardStep DEF Inv
<1>2. QED
  BY <1>1, InvHolds, PTL DEF Spec, OnlyForward
=============================================================================
