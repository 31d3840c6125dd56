--------------------------- MODULE ExpenseWorkflow ---------------------------
(***************************************************************************)
(* Expenses and their reimbursements in one organization, as the backend   *)
(* runs them: every HTTP request is one READ COMMITTED transaction on one  *)
(* pooled connection.  A request authorizes its caller, takes the row lock *)
(* its service asks for (SELECT ... FOR UPDATE), decides on what it read   *)
(* under the lock, updates the row, which runs the triggers of its table,  *)
(* and commits.  Between those points other requests run; a request may    *)
(* die at any of them, and then nothing it wrote is seen.                  *)
(*                                                                         *)
(* The UPDATE of an expense and the commit are two steps, because a        *)
(* trigger looks at memberships that nothing locks.  The writes themselves *)
(* are published at the commit: until then nobody sees them, and the row   *)
(* they touch stays locked.                                                *)
(***************************************************************************)
EXTENDS Naturals, Sequences, FiniteSets

CONSTANTS
  Users,         \* employees that may belong to the organization
  Expenses,      \* the expense rows that may ever be inserted
  Requests,      \* handlers that may be in flight at the same time
  NoUser,        \* the owner of a row that does not exist yet
  MaxQuestions   \* bound: info requests made about one expense

ASSUME NoUserAssumption == NoUser \notin Users

VARIABLES
  members,    \* employees with a membership row
  admins,     \* ... whose row says is_admin
  expense,    \* the expenses table
  approvals,  \* expense_approvals, per expense, in insertion order
  audit,      \* audit_logs rows about the expenses table, per expense
  payout,     \* the reimbursements table, keyed by its UNIQUE expense_id
  inbox,      \* the notifications table: what the submitters are told
  job,        \* the requests in flight
  updated,    \* ... whose UPDATE of the expense has run, but not their commit
  \* A history that no guard reads:
  outrun      \* ... and whose submitter was removed between the two

orgVars == <<members, admins>>
rowVars == <<expense, approvals, audit, payout, inbox>>
reqVars == <<job, updated, outrun>>
vars == <<members, admins, expense, approvals, audit, payout, inbox,
          job, updated, outrun>>

-----------------------------------------------------------------------------
(* The state machines of core/constants.py. *)

ExpenseStatus ==
  {"pending", "info_requested", "approved", "rejected", "reimbursed"}

ExpenseMoves(from, to) ==
  \/ from = "pending" /\ to \in {"info_requested", "approved", "rejected"}
  \/ from = "info_requested" /\ to \in {"pending", "approved", "rejected"}
  \/ from = "approved" /\ to = "reimbursed"

PayoutStatus == {"pending", "processing", "paid", "failed"}

PayoutMoves(from, to) ==
  \/ from \in {"pending", "failed"} /\ to = "processing"
  \/ from = "processing" /\ to \in {"paid", "failed"}

\* The status an operation asks for; "answered" is a resubmission that
\* carries a response, "resubmit" one that does not.
Target(op) ==
  CASE op = "approve"               -> "approved"
    [] op = "reject"                -> "rejected"
    [] op = "request_info"          -> "info_requested"
    [] op \in {"resubmit", "answer"} -> "pending"
    [] op = "process"               -> "processing"
    [] op = "pay"                   -> "paid"
    [] OTHER                        -> "failed"

Decisions == {"approve", "reject"}
Resubmissions == {"resubmit", "answer"}
ExpenseOps == Decisions \cup {"request_info"} \cup Resubmissions
PayoutOps == {"process", "pay", "fail", "attach_receipt"}
Ops == ExpenseOps \cup PayoutOps \cup {"create_payout"}

-----------------------------------------------------------------------------
(* Rows. A nullable text column is the fact that it is filled: question   *)
(* and answer name the approval row that holds the same text, 0 for NULL. *)

AbsentExpense == [status |-> "absent", owner |-> NoUser, reason |-> FALSE,
                  question |-> 0, answer |-> 0]

AbsentPayout == [status |-> "absent", reference |-> FALSE, receipt |-> FALSE]

Filed(e) == expense[e].status # "absent"
HasPayout(e) == payout[e].status # "absent"

Idle == [pc |-> "idle"]

\* The caller is kept for the operations whose later steps read it.
Jobs == [pc    : {"authorized", "checked", "locked"},
         op    : Ops,
         actor : Users \cup {NoUser},
         on    : Expenses,
         seen  : ExpenseStatus \cup {"absent"}]

\* Mutants: the row is selected without FOR UPDATE.
ExpenseNotLocked(e) == FALSE
PayoutNotLocked(e) == FALSE

\* A request holds the row lock of the row it selected FOR UPDATE until its
\* transaction ends.
ExpenseLocked(e) ==
  \E r \in Requests : /\ job[r].pc = "locked"
                      /\ job[r].on = e
                      /\ job[r].op \in ExpenseOps

PayoutLocked(e) ==
  \E r \in Requests : /\ job[r].pc = "locked"
                      /\ job[r].on = e
                      /\ job[r].op \in PayoutOps

\* A payment that has updated the expense of its payout holds that row, too.
ExpenseBooked(e) == \E r \in updated : job[r].on = e /\ job[r].op = "pay"

\* Mutant: the database does not look at the submitter's membership.
SubmitterUnchecked(e) == TRUE

\* The triggers of the expenses table, run by every UPDATE: the submitter
\* must still be a member, and the status may only move along the machine,
\* judged against the row as it is when the UPDATE runs.
SubmitterIsMember(e) == expense[e].owner \in members

StatusMoveAccepted(e, to) ==
  expense[e].status # to => ExpenseMoves(expense[e].status, to)

TriggersAccept(e, to) == SubmitterIsMember(e) /\ StatusMoveAccepted(e, to)

Finish(r) ==
  /\ job' = [job EXCEPT ![r] = Idle]
  /\ updated' = updated \ {r}
  /\ outrun' = outrun \ {r}

Advance(r, pc, seen) ==
  /\ job' = [job EXCEPT ![r] = [pc |-> pc, op |-> @.op, actor |-> @.actor,
                                on |-> @.on, seen |-> seen]]
  /\ UNCHANGED <<updated, outrun>>

\* The triggers of the UPDATE let it pass: what is left is to insert the
\* other rows and to commit.
Updated(r) ==
  /\ updated' = updated \cup {r}
  /\ UNCHANGED <<orgVars, rowVars, job, outrun>>

Notify(u, e, type) ==
  inbox' = inbox \cup {[to |-> u, about |-> e, type |-> type]}

\* Mutant: the old status is taken for granted.
LoggedFromPending(e, u, from, to) ==
  audit' = [audit EXCEPT ![e] =
              Append(@, [actor |-> u, new |-> to,
                         old |-> IF from = "absent" THEN from ELSE "pending"])]

Logged(e, u, from, to) ==
  audit' = [audit EXCEPT ![e] = Append(@, [actor |-> u, old |-> from, new |-> to])]

Recorded(e, u, action) ==
  approvals' = [approvals EXCEPT ![e] = Append(@, [by |-> u, action |-> action])]

-----------------------------------------------------------------------------
Init ==
  /\ \E founder \in Users : members = {founder} /\ admins = {founder}
  /\ expense = [e \in Expenses |-> AbsentExpense]
  /\ approvals = [e \in Expenses |-> <<>>]
  /\ audit = [e \in Expenses |-> <<>>]
  /\ payout = [e \in Expenses |-> AbsentPayout]
  /\ inbox = {}
  /\ job = [r \in Requests |-> Idle]
  /\ updated = {}
  /\ outrun = {}

(***************************************************************************)
(* Membership rows come and go while requests are in flight. No guard of   *)
(* the organizations service on who may go is relied upon here; a removal  *)
(* is a DELETE that waits for no request and that none of them waits for.  *)
(***************************************************************************)
AddMember(u, isAdmin) ==
  /\ u \notin members
  /\ members' = members \cup {u}
  /\ admins' = IF isAdmin THEN admins \cup {u} ELSE admins
  /\ UNCHANGED <<rowVars, reqVars>>

RemoveMember(u) ==
  /\ u \in members
  /\ members' = members \ {u}
  /\ admins' = admins \ {u}
  /\ outrun' = outrun \cup {r \in updated : expense[job[r].on].owner = u}
  /\ UNCHANGED <<rowVars, job, updated>>

(***************************************************************************)
(* submit: a new row cannot be touched by anybody before its commit, and   *)
(* a removal of its owner that outruns the commit leaves the same rows as  *)
(* one that follows it.                                                    *)
(* (The "please review" notices to administrators are left out: nothing    *)
(* depends on them.)                                                       *)
(***************************************************************************)
Submit(u, e) ==
  /\ ~Filed(e)
  /\ u \in members
  /\ expense' = [expense EXCEPT ![e] =
                   [status |-> "pending", owner |-> u, reason |-> FALSE,
                    question |-> 0, answer |-> 0]]
  /\ Logged(e, u, "absent", "pending")
  /\ UNCHANGED <<orgVars, approvals, payout, inbox, reqVars>>

(***************************************************************************)
(* Every other operation starts with the caller's membership row, read     *)
(* without a lock: a resubmission needs a member, the rest an admin.       *)
(***************************************************************************)
QuestionRows(e) ==
  {i \in DOMAIN approvals[e] : approvals[e][i].action = "info_requested"}

QuestionsComing(e) ==
  Cardinality({r \in Requests : /\ job[r].pc # "idle"
                                /\ job[r].op = "request_info"
                                /\ job[r].on = e})

Authorize(r, u, op, e) ==
  /\ job[r].pc = "idle"
  /\ u \in (IF op \in Resubmissions THEN members ELSE admins)
  /\ Filed(e)
  /\ op \in PayoutOps => HasPayout(e)
  /\ op = "request_info" => Cardinality(QuestionRows(e)) + QuestionsComing(e) < MaxQuestions
  /\ job' = [job EXCEPT ![r] =
       [pc |-> "authorized", op |-> op, on |-> e, seen |-> "absent",
        actor |-> IF op \in ExpenseOps THEN u ELSE NoUser]]
  /\ UNCHANGED <<orgVars, rowVars, updated, outrun>>

\* Mutant: no segregation of duties.
MayProceedOnOwn(op, u, e) ==
  /\ ExpenseMoves(expense[e].status, Target(op))
  /\ op \in Resubmissions => u = expense[e].owner

\* What the service requires of the row it has locked.
MayProceed(op, u, e) ==
  /\ ExpenseMoves(expense[e].status, Target(op))
  /\ op \in Decisions => u # expense[e].owner
  /\ op \in Resubmissions => u = expense[e].owner

LockExpense(r) ==
  LET e == job[r].on IN
  /\ job[r].pc = "authorized"
  /\ job[r].op \in ExpenseOps
  /\ ~ExpenseLocked(e) /\ ~ExpenseBooked(e)
  /\ IF MayProceed(job[r].op, job[r].actor, e)
       THEN Advance(r, "locked", expense[e].status)
       ELSE Finish(r)
  /\ UNCHANGED <<orgVars, rowVars>>

\* update_status of a request that holds the row ...
Update(r) ==
  /\ job[r].pc = "locked" /\ r \notin updated
  /\ job[r].op \in ExpenseOps
  /\ TriggersAccept(job[r].on, Target(job[r].op))
  /\ Updated(r)

\* Mutant: an unnamed info_response keeps its old value.
UpdateStatusKeepingAnswer(r, reason, question, answer) ==
  LET e == job[r].on IN
  /\ expense' = [expense EXCEPT ![e] =
                   [status |-> Target(job[r].op), owner |-> @.owner,
                    reason |-> reason, question |-> question,
                    answer |-> IF answer = 0 THEN @.answer ELSE answer]]
  /\ Logged(e, job[r].actor, job[r].seen, Target(job[r].op))
  /\ Finish(r)

\* ... and what the commit publishes: every column that update_status does
\* not name was written as NULL.
UpdateStatus(r, reason, question, answer) ==
  LET e == job[r].on IN
  /\ expense' = [expense EXCEPT ![e] =
                   [status |-> Target(job[r].op), owner |-> @.owner,
                    reason |-> reason, question |-> question, answer |-> answer]]
  /\ Logged(e, job[r].actor, job[r].seen, Target(job[r].op))
  /\ Finish(r)

Decide(r) ==
  LET e == job[r].on IN
  /\ r \in updated /\ job[r].op \in Decisions
  /\ UpdateStatus(r, job[r].op = "reject", 0, 0)
  /\ Recorded(e, job[r].actor, Target(job[r].op))
  /\ Notify(expense[e].owner, e, Target(job[r].op))
  /\ UNCHANGED <<orgVars, payout>>

RequestInfo(r) ==
  LET e == job[r].on IN
  /\ r \in updated /\ job[r].op = "request_info"
  /\ UpdateStatus(r, expense[e].reason, Len(approvals[e]) + 1, 0)
  /\ Recorded(e, job[r].actor, "info_requested")
  /\ Notify(expense[e].owner, e, "info_requested")
  /\ UNCHANGED <<orgVars, payout>>

Resubmit(r) ==
  LET e == job[r].on
      answered == job[r].op = "answer"
  IN
  /\ r \in updated /\ job[r].op \in Resubmissions
  /\ UpdateStatus(r, expense[e].reason, expense[e].question,
                  IF answered THEN Len(approvals[e]) + 1 ELSE 0)
  /\ IF answered THEN Recorded(e, job[r].actor, "info_answered")
                 ELSE UNCHANGED approvals
  /\ UNCHANGED <<orgVars, payout, inbox>>

\* A trigger raises: the transaction rolls back and the row lock is gone.
RejectedByTrigger(r) ==
  /\ job[r].pc = "locked" /\ r \notin updated
  /\ job[r].op \in ExpenseOps
  /\ ~TriggersAccept(job[r].on, Target(job[r].op))
  /\ Finish(r)
  /\ UNCHANGED <<orgVars, rowVars>>

-----------------------------------------------------------------------------
(* Reimbursements. *)

\* Mutant: any expense may be paid out.
ReadAny(r) ==
  /\ job[r].pc = "authorized"
  /\ job[r].op = "create_payout"
  /\ Advance(r, "checked", "absent")
  /\ UNCHANGED <<orgVars, rowVars>>

\* create_for_expense reads the expense without a lock.
ReadApproved(r) ==
  /\ job[r].pc = "authorized"
  /\ job[r].op = "create_payout"
  /\ IF expense[job[r].on].status = "approved"
       THEN Advance(r, "checked", "absent")
       ELSE Finish(r)
  /\ UNCHANGED <<orgVars, rowVars>>

\* Mutant: expense_id is not UNIQUE, the newer row is the one that is read.
CreateAnotherPayout(r, reference) ==
  LET e == job[r].on IN
  /\ job[r].pc = "checked"
  /\ ~ExpenseLocked(e)
  /\ payout' = [payout EXCEPT ![e] =
                   [status |-> "pending", reference |-> reference, receipt |-> FALSE]]
  /\ Finish(r)
  /\ UNCHANGED <<orgVars, expense, approvals, audit, inbox>>

\* The INSERT waits for a locked expense row (its foreign key) and fails on
\* the second payout of an expense (its UNIQUE expense_id).
CreatePayout(r, reference) ==
  LET e == job[r].on IN
  /\ job[r].pc = "checked"
  /\ ~ExpenseLocked(e)
  /\ payout' = IF HasPayout(e) THEN payout
               ELSE [payout EXCEPT ![e] =
                       [status |-> "pending", reference |-> reference, receipt |-> FALSE]]
  /\ Finish(r)
  /\ UNCHANGED <<orgVars, expense, approvals, audit, inbox>>

\* What the service requires of the payout it has locked.
PayoutReady(op, e) ==
  IF op = "attach_receipt" THEN payout[e].status = "paid"
  ELSE PayoutMoves(payout[e].status, Target(op))

LockPayout(r) ==
  LET e == job[r].on IN
  /\ job[r].pc = "authorized"
  /\ job[r].op \in PayoutOps
  /\ ~PayoutLocked(e)
  /\ IF PayoutReady(job[r].op, e)
       THEN Advance(r, "locked", "absent")
       ELSE Finish(r)
  /\ UNCHANGED <<orgVars, rowVars>>

\* processing or failed: a missing payment reference keeps the old one.
MovePayout(r, reference) ==
  LET e == job[r].on IN
  /\ job[r].pc = "locked" /\ job[r].op \in {"process", "fail"}
  /\ payout' = [payout EXCEPT ![e] =
                   [status |-> Target(job[r].op), receipt |-> @.receipt,
                    reference |-> @.reference \/ reference]]
  /\ Notify(expense[e].owner, e, Target(job[r].op))
  /\ Finish(r)
  /\ UNCHANGED <<orgVars, expense, approvals, audit>>

\* paid: mark_expense_reimbursed updates the linked expense in the same
\* transaction, waiting for whoever has it locked; if it is no longer
\* approved, or its submitter has left, the whole transaction rolls back.
MarkReimbursed(r) ==
  LET e == job[r].on IN
  /\ job[r].pc = "locked" /\ r \notin updated
  /\ job[r].op = "pay"
  /\ ~ExpenseLocked(e)
  /\ expense[e].status = "approved"
  /\ TriggersAccept(e, "reimbursed")
  /\ Updated(r)

Pay(r) ==
  LET e == job[r].on IN
  /\ r \in updated /\ job[r].op = "pay"
  /\ payout' = [payout EXCEPT ![e] =
                   [status |-> "paid", reference |-> TRUE, receipt |-> @.receipt]]
  /\ expense' = [expense EXCEPT ![e].status = "reimbursed"]
  /\ Notify(expense[e].owner, e, "paid")
  /\ Finish(r)
  /\ UNCHANGED <<orgVars, approvals, audit>>

\* Mutant: a payment that cannot be booked leaves its transaction open.
PayStuck(r) == FALSE

PayRefused(r) ==
  LET e == job[r].on IN
  /\ job[r].pc = "locked" /\ r \notin updated
  /\ job[r].op = "pay"
  /\ ~ExpenseLocked(e)
  /\ expense[e].status # "approved" \/ ~TriggersAccept(e, "reimbursed")
  /\ Finish(r)
  /\ UNCHANGED <<orgVars, rowVars>>

AttachReceipt(r) ==
  /\ job[r].pc = "locked" /\ job[r].op = "attach_receipt"
  /\ payout' = [payout EXCEPT ![job[r].on] =
                   [status |-> @.status, reference |-> @.reference, receipt |-> TRUE]]
  /\ Finish(r)
  /\ UNCHANGED <<orgVars, expense, approvals, audit, inbox>>

\* The process or its connection dies, or an unmodelled error is raised:
\* get_connection rolls the transaction back.
Crash(r) ==
  /\ job[r].pc # "idle"
  /\ Finish(r)
  /\ UNCHANGED <<orgVars, rowVars>>

-----------------------------------------------------------------------------
Handle(r) ==
  \/ LockExpense(r) \/ Update(r) \/ RejectedByTrigger(r)
  \/ Decide(r) \/ RequestInfo(r) \/ Resubmit(r)
  \/ ReadApproved(r) \/ LockPayout(r)
  \/ MarkReimbursed(r) \/ Pay(r) \/ PayRefused(r)
  \/ AttachReceipt(r)
  \/ \E reference \in BOOLEAN : CreatePayout(r, reference) \/ MovePayout(r, reference)

Next ==
  \/ \E u \in Users : RemoveMember(u) \/ \E isAdmin \in BOOLEAN : AddMember(u, isAdmin)
  \/ \E u \in Users, e \in Expenses : Submit(u, e)
  \/ \E r \in Requests, u \in Users, op \in Ops, e \in Expenses : Authorize(r, u, op, e)
  \/ \E r \in Requests : Handle(r) \/ Crash(r)

Spec == Init /\ [][Next]_vars

\* A handler that can take its next step does; a row lock is granted to its
\* waiters in turn, so one that keeps becoming available is got.
FairSpec == Spec /\ \A r \in Requests : SF_vars(Handle(r))

-----------------------------------------------------------------------------
(* Properties. *)

ExpenseRows ==
  [status   : ExpenseStatus \cup {"absent"},
   owner    : Users \cup {NoUser},
   reason   : BOOLEAN,
   question : Nat,
   answer   : Nat]

PayoutRows ==
  [status : PayoutStatus \cup {"absent"}, reference : BOOLEAN, receipt : BOOLEAN]

ApprovalRows ==
  [by : Users, action : {"approved", "rejected", "info_requested", "info_answered"}]

AuditRows ==
  [actor : Users, old : ExpenseStatus \cup {"absent"}, new : ExpenseStatus]

Notices ==
  [to    : Users,
   about : Expenses,
   type  : ExpenseStatus \cup PayoutStatus]

\* Every variable has its type.
TypeOK ==
  /\ members \subseteq Users
  /\ admins \subseteq members
  /\ expense \in [Expenses -> ExpenseRows]
  /\ \A e \in Expenses : Filed(e) <=> expense[e].owner \in Users
  /\ approvals \in [Expenses -> Seq(ApprovalRows)]
  /\ audit \in [Expenses -> Seq(AuditRows)]
  /\ payout \in [Expenses -> PayoutRows]
  /\ inbox \subseteq Notices
  /\ job \in [Requests -> Jobs \cup {Idle}]
  /\ \A r \in Requests : job[r].pc # "idle" =>
       /\ Filed(job[r].on)
       /\ job[r].op \in ExpenseOps <=> job[r].actor \in Users
  /\ updated \subseteq {r \in Requests : job[r].pc = "locked"}
  /\ outrun \subseteq updated

Open(e) == expense[e].status \in {"pending", "info_requested"}
Refused(e) == expense[e].status = "rejected"
Granted(e) == expense[e].status \in {"approved", "reimbursed"}

DecisionRows(e) ==
  {i \in DOMAIN approvals[e] : approvals[e][i].action \in {"approved", "rejected"}}

CheckStillHolds(r) ==
  LET e == job[r].on IN
  \/ /\ job[r].op \in ExpenseOps
     /\ job[r].seen = expense[e].status
     /\ MayProceed(job[r].op, job[r].actor, e)
  \/ job[r].op \in PayoutOps /\ PayoutReady(job[r].op, e)

SameRow(r, s) ==
  job[r].on = job[s].on /\ (job[r].op \in ExpenseOps <=> job[s].op \in ExpenseOps)

RowsHeldOnce ==
  \A r, s \in Requests :
    job[r].pc = "locked" /\ job[s].pc = "locked" /\ SameRow(r, s) => r = s

ExpenseIsHeld(r) ==
  \/ job[r].op \in ExpenseOps
  \/ /\ job[r].op = "pay"
     /\ expense[job[r].on].status = "approved"
     /\ ~ExpenseLocked(job[r].on)

\* What a service checked under its row lock still holds when it commits,
\* and no two requests hold the same row, the expense that a payment has
\* updated included: SELECT ... FOR UPDATE is what stands between a check
\* and the write that relies on it.
LockedRowIsCurrent ==
  /\ \A r \in Requests : job[r].pc = "locked" => CheckStillHolds(r)
  /\ RowsHeldOnce
  /\ \A r \in updated : ExpenseIsHeld(r)

DecidedOnce(e) ==
  LET last == Len(approvals[e]) IN
  /\ Open(e) \/ ~Filed(e) => DecisionRows(e) = {}
  /\ Refused(e) \/ Granted(e) =>
       /\ DecisionRows(e) = {last}
       /\ approvals[e][last].by # expense[e].owner
       /\ approvals[e][last].action = IF Refused(e) THEN "rejected" ELSE "approved"

\* However many reviewers act at once, an expense is decided once: its
\* history has one decision, the last row, by somebody other than the
\* submitter, and it is the decision the status shows.
DecidedOnceByAnother == \A e \in Expenses : DecidedOnce(e)

QuestionAndAnswer(e) ==
  LET q == expense[e].question
      a == expense[e].answer
  IN
  /\ expense[e].status = "info_requested" =>
       q # 0 /\ q = Len(approvals[e]) /\ a = 0
  /\ Open(e) => IF q = 0 THEN QuestionRows(e) = {}
                ELSE q \in QuestionRows(e) /\ \A i \in QuestionRows(e) : i <= q
  /\ a # 0 => /\ q # 0 /\ a = q + 1
              /\ a \in DOMAIN approvals[e]
              /\ approvals[e][a] = [by |-> expense[e].owner, action |-> "info_answered"]
  /\ ~Open(e) => q = 0 /\ a = 0

\* The question and the answer on the expense are the latest of the history:
\* an answer is the submitter's, and never stands beside a question asked
\* after it; a decided expense shows neither.
QuestionAndAnswerMatch == \A e \in Expenses : QuestionAndAnswer(e)

AuditPath(e) ==
  LET trail == audit[e] IN
  IF Filed(e)
    THEN /\ Len(trail) > 0
         /\ trail[1].old = "absent" /\ trail[1].new = "pending"
         /\ \A i \in 2 .. Len(trail) :
              /\ trail[i].old = trail[i - 1].new
              /\ ExpenseMoves(trail[i].old, trail[i].new)
         /\ trail[Len(trail)].new =
              IF expense[e].status = "reimbursed" THEN "approved" ELSE expense[e].status
    ELSE trail = <<>>

\* The audit trail of an expense is a path through the state machine that
\* starts at its submission and ends where the row is (paying it is audited
\* on the reimbursement).
AuditIsThePath == \A e \in Expenses : AuditPath(e)

PaidInStep(e) ==
  /\ HasPayout(e) => Granted(e)
  /\ payout[e].status = "paid" <=> expense[e].status = "reimbursed"

\* Money: a reimbursement exists only for an expense that was granted, and
\* the expense is reimbursed exactly when the payout is paid, although the
\* two rows are locked one after the other and the payout is opened on an
\* unlocked read.
PayoutMatchesExpense == \A e \in Expenses : PaidInStep(e)

Evidence(e) ==
  /\ expense[e].reason <=> Refused(e)
  /\ payout[e].status = "paid" => payout[e].reference
  /\ payout[e].receipt => payout[e].status = "paid"

\* A rejection has a reason and nothing else has one; a paid reimbursement
\* has a reference; only a paid one has a receipt.
EvidenceIsThere == \A e \in Expenses : Evidence(e)

\* Notifications never contradict the rows: whoever was told an outcome is
\* the submitter, and the outcome stands.
InboxTellsTheTruth ==
  \A n \in inbox :
    /\ n.type = "rejected" => Refused(n.about)
    /\ n.type = "approved" => Granted(n.about)
    /\ n.type = "paid" => payout[n.about].status = "paid"
    /\ n.type \in {"rejected", "approved", "paid"} => n.to = expense[n.about].owner

OutrunOn(e) == \E r \in outrun : job[r].on = e

\* Once the submitter has lost the membership, nothing changes the expense,
\* not even a payment, because a trigger refuses every update of the row -
\* except the one request whose UPDATE had passed the trigger before the
\* removal and that commits after it.
FrozenWithoutSubmitter ==
  [][\A e \in Expenses :
       Filed(e) /\ expense[e].owner \notin members /\ ~OutrunOn(e) =>
         expense'[e] = expense[e]]_vars

\* Every request that got past authorization ends, even when several of them
\* want the same rows: the two kinds of row locks are never waited for in a
\* circle and are given back on every path.
RequestsFinish ==
  \A r \in Requests : job[r].pc # "idle" ~> job[r].pc = "idle"

-----------------------------------------------------------------------------
(* Refinement: the tables, seen as claims. *)

StageOf(e) ==
  CASE ~Filed(e)                                          -> "none"
    [] Open(e)                                            -> "open"
    [] Refused(e)                                         -> "refused"
    [] expense[e].status = "approved" /\ ~HasPayout(e)    -> "granted"
    [] expense[e].status = "approved" /\ HasPayout(e)     -> "owed"
    [] OTHER                                              -> "settled"

ClaimOf(e) ==
  [stage   |-> StageOf(e),
   owner   |-> expense[e].owner,
   decider |-> IF Refused(e) \/ Granted(e)
                 THEN approvals[e][Len(approvals[e])].by ELSE NoUser]

ClaimView == [e \in Expenses |-> ClaimOf(e)]

Claims == INSTANCE ExpenseClaim WITH claim <- ClaimView

\* The services keep the promise of ExpenseClaim: whatever the interleaving,
\* an expense is filed, decided once by another person, and settled at most
\* once after a payout was opened.
KeepsTheClaim == Claims!ClaimSpec
=============================================================================
