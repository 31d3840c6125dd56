# ATS OneWork: a verification of its core

This directory holds TLA+ models of the ATS OneWork backend (FastAPI and
PostgreSQL, `src/backend/app`) and of the parts of its Flutter app that talk to
it (`src/lib`: the session, the list of expenses, the payment dialog), the TLC
runs that check them on small instances, and proofs, checked by TLAPS, of
theorems that hold for instances of any size. `PROJECT.json` has the same
information in machine-readable form: which lines a definition models, which run
checks which property, which mutation of the model each property catches.

## 1. The system

Every HTTP request is one PostgreSQL transaction (READ COMMITTED) on one pooled
connection: `db/connection.py` opens it, the dependencies authenticate and
authorize the caller inside it, the service reads and writes, and the exit of
the dependency commits, or rolls back when the handler raised. There is no
state in the processes that matters to correctness; components meet in tables.
The hard part of the system is therefore what several transactions do to each
other between a read and the write that relies on it, and what is left when one
of them dies. Files on the disk and deliveries by push or mail are outside of
every transaction. The app adds lost answers, timeouts and retries.

| component | state | operations | meets | hard behaviour | what makes it correct |
|---|---|---|---|---|---|
| expenses | `expenses`, `expense_approvals`, `expense_media` | submit, approve, reject, request_info, resubmit, listings | reimbursements (pays it), memberships (trigger), notifications, audit | concurrent reviewers; partial writes of a row whose unnamed columns become NULL; a submitter who leaves | decided once, by somebody else; question and answer belong together; history, audit and status agree |
| reimbursements | `reimbursements` | create, process, pay, fail, attach receipt | expenses | unlocked read before the INSERT; two tables updated in one payment; lock order | money is owed only for granted expenses; paid exactly when the expense is reimbursed |
| refresh tokens | `authentication_tokens` (families, `replaced_by_token_id`) | register, login, refresh, logout, change_password, switch_organization | users (status), app session | read without lock, rotate later; retry versus replay; revocation that races with rotation | chains well formed; only a replay ends a family; ended means ended |
| app session | secure store, one refresh in flight | refresh, retry, sign out | refresh tokens | lost answers, timeouts, sign-out during a refresh | the session survives the network, and ends when the user says so |
| expense store | a cached list, its cursor, optimistic statuses, calls under way | fetch, next page, approve, reject, ask, resubmit, reset | expenses, app session | answers in any order or after a sign-out; rollback into a list that was replaced | what is shown was decided, is complete, and belongs to the user |
| payment dialog | how far a payment has come | create, process, pay, upload receipt, retry | reimbursements | four requests, each of which may run although its answer is lost | success means paid |
| organizations, memberships | `organizations`, `memberships`, `roles` | create, add, remove, create role | everybody's authorization; access model | guard on the last administrator; rows removed under a reader | an organization always has an administrator |
| access model | `permissions`, `role_permissions`, `membership_roles`, `user_permissions`, `access_catalog`, `users.is_superuser` | replace grants and roles, catalogue, install, superusers | every request | replacement is DELETE then INSERT; installation looks, then inserts | no leftovers: a replacement ends with what it wrote, unless it was overtaken |
| users, employee status | `users`, `employee_status` | update, open and close a status | auth, analytics | two switches at once; transaction-start timestamps | one open record, no gap, no overlap |
| projects, project access | `projects`, `project_members`, `project_access_requests` | request, approve, reject, add, remove, pages | expenses (submission needs membership) | request, decision and manual assignment race; pages of a list that moves | one seat, one pending request, one answer; a reader misses nothing |
| budgets | `budgets`, `projects` | create, update, the budgets of a month | projects, analytics | two edits of one row; December | periods in order; the log tells what changed |
| analytics | none | organization_overview, my_overview | expenses, reimbursements, budgets | ten statements, each with its own snapshot; charts cut at a LIMIT | the figures of one report agree |
| rate limits | `rate_limit_buckets` | hit, clear | auth routers | check and increment are two statements; times of transactions that waited | the limit is a limit, and ends |
| receipt files | the upload directory | upload, delete | expenses, reimbursements | files outside of the transaction | no row without its file; no file without a reason |
| request lifecycle | pool, transaction, background tasks | acquire, answer, deliver, commit, roll back | all | commit after answer and delivery; waiting for a row lock with a connection in hand | what was answered comes true; nobody waits for ever |
| notifications, audit | `notifications`, `audit_logs` | insert, mark read, list | all services | same transaction as what they report | they never contradict the tables |
| expense types, migrations, configuration, app screens, scripts | plain rows or none | lists, start-up, presentation | | none beyond single statements | |

`PROJECT.json` lists every component with its sources and what is left out of
it, and under "hazards" what is hard to test, at its line, with the properties
that watch it.

## 2. Plan

Built, in the order of what matters most: the review and payment of expenses
with an abstract specification and proofs; refresh tokens with proofs, and the
app's session on top of them; the app's list of expenses and its payment dialog;
memberships and the access model; access to projects; files, pool and commit;
status log and sign-in limits; budgets and the reports that read them.

What is left, in this order:

1. The directory, project, budget and notification lists of the app's store,
   which repeat the pattern of `ExpenseList` with smaller state.
2. Opening and closing the pool when the process starts and stops.

| module | models | composed of |
|---|---|---|
| `ExpenseWorkflow` | expenses, reimbursements and what hangs on them | implements `ExpenseClaim` |
| `ExpenseClaim` | what the workflow promises about one claim | |
| `AuthTokens` | refresh tokens on the server | |
| `MobileSession` | the app's session | extends `AuthTokens` |
| `ExpenseList` | the app's list of expenses | |
| `MarkPaid` | the app's payment dialog | |
| `OrganizationAccess` | memberships, roles, grants, catalogue, superusers | |
| `ProjectAccess` | project members and access requests, paged lists | |
| `Budgets` | budgets and projects as rows with a period | |
| `Analytics` | the two reports | extends `Budgets` |
| `ReceiptFiles` | requests with files: pool, disk, transaction, delivery | |
| `TransactionClock` | `CURRENT_TIMESTAMP` | |
| `SignInLimits` | rate limits of a sign-in | extends `TransactionClock` |
| `EmployeeStatus` | the status log of an employee | extends `TransactionClock` |

An `MC` module gives a module's constants small values and its symmetry;
`MCAccounts` puts `SignInLimits` and `EmployeeStatus` side by side over their one
clock, `MCAppScreens` the list and the dialogs, which share nothing. `*_proofs` modules hold the theorems: about the workflow, the
tokens and the app's session (`Sessions_proofs`), the app's list and payment dialogs
(`AppScreens_proofs`), memberships and the access model, access to projects, budgets
and reports (`Analytics_proofs`), the status log and the rate limits
(`AccountTimes_proofs`), and the files of requests.

## 3. Modules

The convention of all backend modules: an action is one statement, or the
statements from one that others can see or delay up to the next such; the last
write of a request and its commit are one action, because nobody sees the write
before and nothing happens in between. A guard that mentions other requests is a
wait: for a row lock, for the fate of an equal row of a unique index. Where the last
write looks at something that others may change before the commit, or takes a
number that others see the order of, it is an action of its own: the UPDATE of an
expense, whose trigger reads the memberships without a lock; the notices about a
project; the list that `set_superuser` checks against. `Crash`,
`GiveUp` or `Refuse` is the rollback, at every point where a statement may time
out or the client may go away. Names of actions are those of the functions they
model wherever one action is one function. "history" variables are read by
properties only and guard nothing.

### ExpenseWorkflow, ExpenseClaim

`expense`, `approvals`, `audit`, `payout`, `inbox` are the tables `expenses`,
`expense_approvals`, `audit_logs` (rows about expenses), `reimbursements` and
`notifications` (rows to submitters); `members` and `admins` are `memberships`.
`job[r]` is a request in flight: where it is (`pc`), its operation, its caller
and the status it read under the lock.

An operation is cut where another transaction can make a difference:
`Authorize` reads the caller's membership; `LockExpense` / `LockPayout` are the
`SELECT ... FOR UPDATE` with all the checks that follow it; `Update` and
`MarkReimbursed` are the UPDATE of the expense, with what its triggers see at that
moment (`updated` has the requests that are past it); `Decide`, `RequestInfo`,
`Resubmit`, `Pay` are the rows that follow it and the commit, which publishes all;
`MovePayout` and `AttachReceipt` touch the payout only and are one step. A removal
of the submitter may commit between the two: `outrun`, a history, has the requests
to which that happened. `create_for_expense` reads without a lock (`ReadApproved`) and
inserts later (`CreatePayout`, which waits for the expense row because of its
foreign key, and respects the UNIQUE `expense_id`). The two triggers of the
table are `TriggersAccept`; an UPDATE they refuse ends the request
(`RejectedByTrigger`, `PayRefused`). Texts are reduced to what the properties
tell apart: `reason` and `reference` to whether they are filled, question and
answer to the approval row holding the same text, 0 for NULL.

`ExpenseClaim` is the promise: a claim is filed, decided once by another person,
and settled at most once after a payout was opened. `ClaimView` maps the tables
to it.

### AuthTokens

`tokens` is `authentication_tokens` in the order of its ids, with the family,
`replaced_by_token_id` and `revoked_at`; `active` are the accounts whose status
is `active`. No read of this module locks anything, so a refresh is four steps:
`ReadToken`, then `CheckAccount` or `CheckReplacement`, then `Rotate` (INSERT,
UPDATE of the old row, commit). A revocation is an UPDATE whose snapshot is taken
when the statement starts (`StartRevoking`) and that shows with the commit
(`Revoke`, or `Switch` with its new pair): rows inserted in between escape. A
replay commits its revocation although it answers 401, as the code does on
purpose. `Crash` also stands for every refusal that changes nothing.

### MobileSession

Extends `AuthTokens` with the app: `held` is the stored refresh token, `flight`
the refresh a device waits for (at most one, `_refreshInFlight`), `leaving` the
devices inside `signOut`. The server goes on with a request whose device no
longer listens (`TimeOut`); an answer may be lost (`Miss`) or heard (`Hear`),
and everything but a 200 clears the store. An access token lives for half an
hour, a request for well under that, so an abandoned refresh may overlap only
with retries that carry the same token (the guard of `SendRefresh`). Histories:
`signedOut`, the families whose user left, and `outrun`, those for which a
refresh was still in flight when `signOut` cleared the store.

### ExpenseList

`shown`, `cursor`, `failed`, `loadingMore` are `expenses`, `expensesCursor`,
`expensesError` and `expensesLoadingMore` of the singleton `ExpenseStore`;
`server` is the table, one status per expense in the order of the ids, and
`Page` its listing (newest first, below the cursor). `failed` hides the list on the
screens that page through it, but the manager's reports, the reimbursement report,
the details of an expense and the finance dashboard use the rows all the same, so
decisions and questions do not ask for it. `call[c]` is a call under
way: `Serve` is the server's part, at the moment its transaction runs, and
`HearPage`, `HearPostGranted`, `HearRefusal` and `HearNothing` are the code after the
`await`. `approve` and `reject` keep a reference to the record they changed:
that is `at`, the place in the list, which `Detached` clears when a fetch
replaces the list, so that the rollback has nothing to write to. A post that was
given up may run later (`forgotten`). `SignOut` is `resetForSignOut`, which
leaves the cursor alone; a 401 that survives the refresh ends the session
without any reset (`HearRefusal`). Each row remembers for whom it was read
(`by`); the app has no such field. Histories: `outlived` (people who left with a
call under way), `left` (whose session ended without a reset while the list is as it
was), `crossed` (calls whose list was replaced meanwhile) and `torn` (a further page
was refused, or crossed, since the last refetch). Paying is in
`MarkPaid`.

### MarkPaid

`phase[d]` is how far `markPaid` has come in dialog `d`, `request[d]` the request
it waits for, `payout` the row on the server, `late` the requests nobody waits
for any more. `Grant` and `Refuse` are the server, `Hear` the code after each
`await` (a refused receipt is only logged), `Miss` the `catch`. The transaction
id is named by its dialog. The server's rules are those of `ExpenseWorkflow`
with the expense approved until it is paid; nothing else in the app moves a
reimbursement, so the `failed` status has no action here.

### OrganizationAccess

`member` is `memberships` with `is_admin`, `grants` the rows of
`role_permissions`, `membership_roles` and `user_permissions` (the owner says
which), `permissions` and `roles` the names the organization has, `catalog` and
`listed` the platform's `access_catalog`, `superusers` and `active` two columns of
`users`. Each request is authorized once (`Authorize`) and then runs the
statements of one operation. `remove_member` is `ReadTarget`, `LockAdmins`,
`Remove`; the three replacements of a list of grants are a DELETE that waits for
rows others have deleted (`SetRoleGrants` and its two siblings, `FinishDelete`),
an INSERT of the names that exist (`Insert`), which waits for equal rows, and the
commit (`Replace`); `set_superuser` is the look at the list of superusers
(`ListSuperusers`) and the UPDATE with its commit (`SetSuperuser`), which share no lock;
`install_catalog` runs statement by statement, the roles in alphabetical order. Rows not
yet committed are in `job[r].out` and `job[r].new`. A DELETE does not see rows
that were committed after its snapshot: this is where a union of two lists comes
from. Histories: `comeback` and `departed` (removed and added again), `overtaken` (the
requests, and the lists of grants others committed after they had begun to write
them) and `lapsed` (requests of `set_superuser` whose caller was revoked after the
check of his rights).

### ProjectAccess

One project. `members` and `requests` are its tables with the numbers of their
rows; `call[c]` is a call under way. Every call begins with the reads before its
transaction block; `AskMember` and `AskPending` are the looks for existing rows,
`StartGrant` and `StartRequest` the moment an INSERT takes its number from the
sequence, `LandMember`, `LandApproval` and `LandRequest` the moment it comes through or
is refused by the unique index, with all up to the commit: the new row is locked until
then. The INSERT of an approval that meets a row goes on without one, and without a lock
on the one there is (`KeepRow`); its notice (`Announce`) and its commit (`Settle`) are
steps of their own, as are those of a removal (`Delete`, `Remove`). `told` is what the
inbox says first: it is ordered by `notification_id`, which is taken at the INSERT, not
by commits (`Tell`). A decision holds its request's row from `Lock` to
the end. `Open` and `Page` are a client that reads a list to its end, with the
cursor it gets from each page. Histories: `verdicts`, `overtaken`, `excused`.

### Budgets, Analytics

`rows` are budgets and projects, both edited in the same way: `Read` (the row, the
checks on the pair of dates it would have) and `Update` (only the columns sent,
into the row as it is by then, with the CHECK of the table). A date is a number
of days in a calendar whose months have `DaysInMonth` days, so that December,
windows of months and previous periods are the code's own arithmetic.

In `Analytics` a report is the list of statements the code runs, in its order
(`todo`: ten for an organization, four for a person); each stores the set of claims or
budgets behind its figure. `Move` and `MovePayout` are everything `ExpenseWorkflow` may
do to a status and to a payout meanwhile. An amount is what `Total` says of a set of
claims; by it the charts of categories, projects and spenders are sorted and cut at
their LIMIT (`Top`, `ChartLimit`: 8, 8 and 5 in the code). A project nobody has spent on
sorts last, amounts being positive, and is not listed. A personal report counts the
budgets of its person's projects only (`_budget_scope`, `Owner`). The parts of
`expense_store.dart` that draw the charts are not modelled.

### ReceiptFiles

`req[r]` is a request from the form to its end, `queue` the waiters of the pool,
`disk` the upload directory, `media` and `receipt` the committed references,
`locked` the payout's row. The files come one by one (`upload`); `verify_upload`
is the refusal of a file, raised outside the `try` that compensates; `Write` the
rows; `Refuse`, `delete`, `Reraise` the compensation; `Respond`, `Deliver`,
`Commit` the order in which the framework sends the answer, runs the background
tasks and leaves the `get_connection` dependency. Faults: a disk that fails in a
file or does not delete, a sender or a COMMIT that fails, a request cut off. A file
once written stays: a power loss that takes back unsynced writes is not in the model.
Histories: `filed` (keys that were ever referred to) and `order` (which of two
attachments was answered first).

### TransactionClock, SignInLimits, EmployeeStatus

`now` is the clock; a transaction keeps the value it started with. In
`SignInLimits` a sign-in is counted on three counters, each by `Look` (the SELECT)
and `Count` (the upsert), each committed at once, and ends with a password that is
wrong (`Fail`) or right (`Succeed`, `clear`). In `EmployeeStatus` a call reads the
open record (`get_active_status`), closes it (`StartClosing`, `close_status`) and
opens its own (`create_status`); the UPDATE and the INSERT wait for a call that
has closed the same record, and the CHECK on the dates and the unique index on
open records refuse.

## 4. Runs

| run | instance | question |
|---|---|---|
| expense_review | 3 people, 1 expense, 2 requests, 1 question | all safety properties of the workflow; does it implement ExpenseClaim? |
| requests_finish | 2 people, 1 expense, 2 requests | does every request end (liveness)? |
| token_families | 2 accounts, 2 requests, 4 tokens | chains, replay, ended families, other people's sessions, with every interleaving |
| app_session | 2 devices, 2 requests, 4 tokens, 1 missed answer in a row | does the stored token always work, and does a sign-out end the session? |
| app_screens | 2 people on one device, 2 calls, 2 expenses, pages of 1; or 3 dialogs | are decisions on the screen made, lists whole, rows the user's own? is success reported only for the recorded transaction id? |
| retry_payment | 1 dialog, expects a violation | does trying again pay? |
| access_changes | 3 users, 2 requests of any kind or 4 of `set_superuser`, 3 roles, 5 capabilities | what survives overlapping changes of members, roles, grants, catalogue, superusers? |
| project_access | 1 employee, 2 calls, 1 reader, 3 numbers per table, 4 notices, pages of 1 and 2 | seats, requests, answers, pages |
| budget_reports | 2 edits, or a report over 2 claims, 1 payout, with charts of 1, 1 and 2 slices; months of 2 days around the end of a year | periods, the log of edits, figures that agree, the calendar |
| receipt_files | 1 submission with up to 3 files, 2 attachments, 2 connections, 3 faults | rows and files, answers and commits; does every request end? |
| delivery_order | as receipt_files, expects a violation | is external delivery after the commit? |
| account_times | 2 sign-ins on 1 account; or 3 status calls, 4 records; clock to 4 | what comparing the start times of transactions still guarantees |

Why the bounds suffice. Locks are per row and no rule relates two expenses, so
one expense shows every conflict; two requests are a conflict, and a third would
wait for the same lock; three people are a submitter, an administrator and
somebody who is neither or both. One question, answered or not, is followed by
a decision or a plain resubmission; what happens after several questions is
covered by the proofs, which bound nothing. Four tokens are a family that was
rotated, retried and rotated again, with one row more for a second family; the
replay rule looks back two rotations. (In `app_session` a second family makes do
with three rows in all: `Bound`.) `MaxUnheard = 1` is not a bound but a
hypothesis: when the answer to a retry is lost as well, the next retry is taken
for a replay and the session ends. Two calls are every overlap of two answers,
and two expenses in pages of one row are a first and a further page, with a row
that arrives in between; in `app_screens` one person leaves with a call under way
and does not come back (`Bound`): for the list the late answers are the same; the
older expense is approved or rejected, the newer one asked about and resubmitted. A
payment (the other half of `app_screens`) has four requests, so three dialogs already put every pair of steps next
to each other, with a third to interfere.

In `access_changes` a request runs at most once, so two requests are every pair
of operations in every overlap, started from an organization as
`create_organization` leaves it. A stale check of the platform's rights shows only
with more (revoke, reinstate, revoke again, and the first UPDATE), so up to four may
start when all are of that kind (`MayStart`). Three users are two administrators and somebody
else; the fifth capability is one the platform does not ship, to be created here
or in the catalogue. The three lists that callers send are empty, of capabilities, and of roles.
In `project_access` one employee is enough: rows of two never meet except in the
pages, where any other row of the list does. Three numbers per table are a row
returned, the cursor's and one below; one of the two tables keeps a number to
spare, and nobody reads lists while the last two notices are written (`Bound`): a
notice is in no list. Four notices are two that are overtaken and two that overtake
them. In `budget_reports` day 23 is the last of December and days 24 and 25 are the two
of January; `MCSpec` has edits or reports, not both,
because a report reads budgets only as they appear; its claims and its budget
are held to what tells two figures apart: one of the two claims is at most approved,
and a person asks for the default period, an overview for the two days of January
(`Bound`). Charts of one slice cut off the second claim's category, while
both claims share a project and both spenders fit. In `receipt_files` two
connections let an attachment hold the payout's row while the other, waiting for it, holds
the last connection; `delivery_order` needs one submission. In `account_times` windows of one and two ticks are both over
and still open when a request of an older tick comes through; three calls are a
pair that overtakes a third. Records stop at four, so the second overtaking has
a past.

Deadlock is checked where the system always has something to do. It is off in
`app_session` (token rows used up and devices signed out), `receipt_files`,
`delivery_order` and `account_times` (every request done, the clock at its end) and
`retry_payment`.

Fairness. `FairSpec` of `ExpenseWorkflow` assumes strong fairness of each request's
own steps. The event loop runs every ready coroutine, which justifies weak
fairness; row locks come and go, but PostgreSQL grants them to waiters in turn,
so a request whose lock keeps becoming free gets it, which is strong fairness of
the step that takes the lock. Crashes, new requests and membership changes are
not fair. `ReceiptFiles` assumes weak fairness of each request's own progress
(`Step`); the pool's queue is in order, as psycopg's is, so no more is needed.
Nothing that ends a request from outside is fair: not the pool's timeout, the
statement's timeout, a refusal, a cut, so `EveryRequestEnds` does not rest on
them. `FairSpec` of `MarkPaid` is as kind to the app as can be, since the
property fails even so: the user goes on trying, the server answers, does not
refuse for ever what it could accept, and an answer that is sent again and again
arrives. All other runs state safety only and use no fairness.

## 5. Proofs

Every safety property of every run is the subject of a theorem: what TLC shows on a
small instance, the theorem says of all. The eight modules, what they quantify over
and what they assume of the constants:

| module | theorems about | for any | assumptions |
|---|---|---|---|
| `ExpenseWorkflow_proofs` | types, seven invariants, frozen expenses, the refinement of `ExpenseClaim`; `NoCircle`, `HandlersGoForward` | users, expenses, requests, questions | `NoUserAssumption` |
| `Sessions_proofs` | the four properties of refresh tokens; `SessionSurvives` | accounts, requests, rows; devices | none for the tokens; `NoRequestAssumption` and `OneAnswerAtMost` for the session |
| `AppScreens_proofs` | the three properties of the dialogs; the three of the list | dialogs; people, calls, page sizes, expenses | `ReferenceAssumption`; `PeopleAssumption`, `PageAssumption` |
| `OrganizationAccess_proofs` | the invariant and the three action properties | finite set of accounts; roles, capabilities, requests | `UsersFinite`, `NamesAreGiven`, `OpsAreKnown` |
| `ProjectAccess_proofs` | all five properties | employees, calls, readers, rows | `BoundsArePositive`, `ListsAreKnown` |
| `Analytics_proofs` | the two properties of edits; the two of reports and calendar | dates, values, payloads, calls, claims, windows, length of a month | `CalendarIsSane`, `ValuesAreSet`, `PayloadsAreForms`, `RowsFit`, `MonthsAreMonths`, `TodayIsADay`, `ClaimsAreDated`, `TotalsGrow`, `LimitsAreNumbers`, `WindowsAreDates` |
| `ReceiptFiles_proofs` | the three safety properties; `NoCircle`, `StepsLeadToTheEnd` | requests, files, connections, faults | `PoolIsOpen`, `OneKind` |
| `AccountTimes_proofs` | two properties of the status log, two of the rate limits | calls, statuses, records; finite set of sign-ins; accounts, limits, clocks | `MaxTimeAssumption`, `MaxRecordsAssumption`, `LimitsArePositive`, `RequestsAreFinite`, `AccountsAreNoAddresses` |

All but `OneAnswerAtMost` say what kind of thing a constant is: a number that is positive, a
name that is not one of a set, keys that carry different prefixes, totals that only
grow with the set of claims (`TotalsGrow`). `OneAnswerAtMost`
(`MaxUnheard` is 0 or 1) is a hypothesis about the network, and a tight one: with 2, TLC
finds `SessionSurvives` violated, because the server forgives exactly one lost answer. It
is stated in `SessionsSurvive`, not assumed of the module.

The invariants are not inductive one by one. `Inv` of the workflow adds three
facts: `SubmittersRemain` (the submitter of an expense whose UPDATE has run is a member,
or the request is `outrun`), `CheckedIsGranted` (a request that has read an approved expense and is
about to insert a payout still finds it granted, because an approved expense only
moves to reimbursed) and `NoEarlyHistory` (a row that does not exist has no
history and no payout). With them each named part is preserved by every step:
the part about locks (`LockedRowIsCurrent`) is what the others need to know that
a commit starts from the status its request has checked, the decision history
needs the segregation of duties that the lock preserves, money needs that a
payout exists only for granted expenses, and so on. The refinement uses `Inv` of
the state before the step: each commit is the corresponding step of the claim or
a stutter.

What is proved of termination is what fairness adds nothing to. In `ExpenseWorkflow` a
request can wait for an expense's row or for a payout's, and only a payment wants the first
while it holds the second; once it has written the expense it waits for nothing
(`ExpenseBooked`). The holder of an expense's row commits or is refused without
waiting, so either it, or the holder of the payout's row, or the request itself can go
(`NoCircle`; a request that is `locked` holds one of the two kinds of rows by
`LockedRowIsCurrent`); and no handler goes back (`HandlersGoForward`). In `ReceiptFiles`
a request waits in the pool's queue with nothing in hand, or for the payout's row with a
connection in hand. `Lively` says that whoever waits is queued, and that the holder of the
row is past the wait for it; so if no connection is held the head of the queue goes, and
else a holder does. `Rank` counts the steps a request has left, and every step of the
module lowers one rank and touches no other (`StepsLeadToTheEnd`). That `CanGo` is when a
request's own step is enabled was compared with ENABLED by TLC.

In `MarkPaid` the invariant says which dialog the reimbursement belongs to: at
most one is `Beyond` the creation, because the row never becomes absent again,
and a dialog whose payment was granted (`PaidBy`) is the one whose id is in the
paid row, because no request is accepted that would touch a paid row's status or
reference. Every action but `Grant` takes no dialog further in that sense
(`RowStep`); `Grant` is the one case with something to show.

In `ExpenseList` one invariant, `ListInv`, carries three arguments. A decision that is
shown is the server's, or that of one pending call, which owns its row until the answer
is in or a fetch replaces the list: a row that shows a decision offers no second one, so
a rollback gives back what its own call had changed. Whoever a call was sent for is
signed in, or left while it was under way (`WaitersOutlive`), and a page carries rows of
that person only. And one further page at most is asked for at a time: unless it was
crossed by a refetch or refused, it begins at the cursor, so the list has every row
from its first down to the cursor (`NoHole`). The row that an id is found at is the first
one with it, which takes the least-element theorem for the natural numbers.

In `AuthTokens` nothing is locked, and the argument is monotonicity instead. Every
write only extends the table (`Extends`): rows are appended, and keep owner,
family and revocation; a row's successor changes at most to the row appended in
the same step, which is of its family. So what a request has read stays true
however many others commit before it writes: the row it is about to rotate is in
the family of the token it was given (`OnItsOwnChain`), the token it is about to
end is the caller's, and a token that it takes for replayed was replaced, and a younger
row of its family was replaced or revoked in turn (`HasMovedOn`).
`Sound` puts these facts together per request, `Inv` adds the chains; a step is
split into what it does to the table (one lemma per writing action) and to its
own request (`AskKeeps`, `GotoStep`, `EndStep`), and all other requests keep their
facts by one lemma (`OthersSound`). The two action properties follow from `Inv` of
the state before the step.

`MobileSession` adds who may refresh a family at all: the requests that one device sent,
since families are not shared (`Apart`). Beside the refresh a device waits for there is at
most one that it has given up, sent with the token it holds or with the one before
(`Late`; the other is `OnTime`). Whichever of the two rotates first, the chain goes at most
one step beyond the token in the store, and the other finds the replacement live and is
answered as a retry: nobody ever sees a token that was replaced twice, which is what ends
a family (`Going`). So the token in the store works until the user signs out, and a store
that was cleared fills again only through a refresh that was under way (`SessionsSurvive`).

In `ProjectAccess` calls do lock, but read before they lock. The invariant says what a
call under way may rely on (`Fits`): the number that it took is nobody else's, the
request that it holds is pending and held by nobody else, and the employee whom it
found on the project is still there unless a removal has overtaken it, or its notice
has a lower number than what the inbox says (`KnowsEmployee`). No inbox has a number
that was never given (`NoticesKnown`), so a notice written by the committing call is
the newest unless one with a later number is on its way, which is what makes a removal
note the employee as overtaken. A call that commits leaves the others with what they know (`OthersKeep`). That at most one
request per employee and project is pending, and that each is decided once, follow
from what the committing call itself knows. The lists need only that a reader's
next page begins under its last one (`PagesGoDown`) while new rows come on top.

In `EmployeeStatus` the open record is the last one (`OpenIsLast`), so the record
that a call has closed without a commit is the last one too, and nobody else has closed it
(`ClosesTheLast`). Whoever commits first therefore leaves no other such call
behind, and the calls that wait find the record closed. What a call read
(`HasRead`) gives the clean history: if nothing was appended since, the last record has
another status.

In `SignInLimits` nothing is locked between the SELECT and the upsert, so the counter
alone says too little. The invariant counts beside the hits those who have passed the
SELECT and will raise the present window (`Charging`): together they stay within the
limit and one less than the requests there are, because whoever passes found the
counter below its limit or is about to open a new window. Beside the guesses it
counts those who are counted and have not checked their password (`Pending`); a
new window or a deleted row starts both anew. That windows only move forward rests on
`NoFuture`: a transaction writes a time that has been.

In `OrganizationAccess`, too, a request knows something (`Fits`): the administrators
that it has locked are administrators until it ends, because a removal waits for them
(`HoldsAdmins`); the member that it has read is one still or has left since
(`KnowsTarget`), and whoever left and came back as an administrator is noted
(`ReturnsAreNoted`), so a removal that counted two administrators leaves one, and one
that saw a plain member takes no administrator. The rows that it is about to insert
hang on a membership that its foreign keys lock, on roles and capabilities that
nobody deletes (`KnowsRows`); the rows that it has deleted are the whole list unless
another commit overtook it, and what it has inserted is what it was sent and existed
(`KnowsList`); a role that an installation is giving grants had none when it looked,
and has none unless somebody has written it since (`KnowsRoles`); and whoever is to
change the platform's administrators is one, unless the request has lapsed. Every commit is `Gentle`, that is it leaves the others with
what they know; a lemma per action shows it, and the action properties follow
from what the one request knows that takes the step.

In `Budgets` rows are never deleted and their numbers run from one, so a table and a
number name one row (`RowsRight`); the CHECK is part of what a row is (`RightRow`). A
call that nobody has overtaken still has the value of its row (`CallsRight`), because
whoever edits a row notes all its readers.

In `Analytics` a report has read the first statements of its plan, in their order
(`ReadSoFar`), so the headline comes first and once. What it counts as spent is still spent
when a later chart is read (`SpentStays`), because no transition leaves the spent statuses,
so every chart covers the headline, except for what its LIMIT cuts off: a slice that is
left out is worth no more than any that is shown, because totals only grow with their
claims. What the headline counts as reimbursed was paid (`ClaimsRight`), and no paid payout
changes, so it is among the payouts paid. While nothing changes, each figure is what its
statement would return now (`StillTrue`), so the figures of an undisturbed report can be
compared in one state. The calendar is division: a month begins at a multiple of
`DaysInMonth`, and `DivBounds` and `DivUnique` are all the prover needs to know of
quotients to find the month of a day, December's successor and the six months of a window.

In `ReceiptFiles` keys are never shared, so what lies on the disk under a request's
keys is that request's doing alone, and `Fits` says what it has done: while it is under
way these are the files it has stored, unless something went wrong; when it ends
they are filed, deleted, or explained by what went wrong. A committed row belongs to a
request that is over (`HasRow`), which deletes nothing any more: that is why the
compensation never takes a file that a row needs. An attachment holds the payout's row
from its statement to its commit, hence alone is answered in that time, so the last one
answered is the last one committed (`Settled`). `QueueIsRight` (who waits is in
the pool's queue once) lets a request leave the queue from the middle.

Only model-checked: the liveness properties, `RequestsFinish` and `EveryRequestEnds`, as
fairness and ENABLED are out of the prover's reach. Their well-founded part is proved, as
said above; that a scheduler which is fair in the stated sense carries it through is what
TLC shows.

## 6. Findings

Two runs expect a violation; `PROJECT.json` quotes the lines. In `retry_payment`, after
one lost answer, "Please try again" is refused for ever, because every attempt starts by
creating the reimbursement that exists. In `delivery_order`, a notification is delivered
outside before the expense it tells of is committed, although `expenses/router.py:126` and
`notifications/dispatch.py:62` say that delivery comes after: with the pinned framework the
background tasks run before the exit of the dependency that commits. If a later sender or
the COMMIT fails, the expense that was announced, and answered with a 201, does not exist.
What nevertheless holds of answers is `AnswersAreTrue`.

Other things the models show, where a property names the exception that the code
makes and so holds:

- A refresh under way survives a password change or a logout, because nothing locks the
  family (`auth/service.py:87-89`, `:207`): the exception `HasReader` of
  `QuietFamiliesStayEnded`.
- A refresh in flight brings back a session that was signed out of
  (`api_client.dart:271-273`, `:289`): `outrun` in `SessionSurvives`.
- A refused or crossed further page leaves a hole in the list, without an error
  (`expense_store.dart:1537`, `:1549`): `torn`.
- An answer that arrives after sign-out shows the previous user's rows to the
  next one (`expense_store.dart:538-543`): `outlived`.
- A session that ends on a 401 opens the login screen without `resetForSignOut`
  (`main.dart:89`), although that function is said to drop one user's data before the next
  signs in. If the next user's own fetch fails, the previous user's rows stay in the store,
  where screens that do not look at `expensesError` show them (`manager_reports.dart:40`,
  `reimbursement_report_screen.dart:70`, `expense_details.dart:284`,
  `finance_dashboard.dart:281`): `left` in `ForeignRowsOutlivedASession`.
- A request whose UPDATE of an expense has passed the trigger commits although the submitter
  is removed before that commit: `outrun` in `FrozenWithoutSubmitter`.
- Two replacements of one list of grants that overlap leave a union, although the
  docstrings say "exactly": `overtaken` in `ExactUnlessOvertaken`. Names that do not exist
  are dropped without a word, which "exactly" does not say either.
- The guard on the last administrator reads the target before it locks: `comeback`.
- Two superusers can revoke each other, and one who was revoked and reinstated while a
  request of his was under way can remove the last one with it: `lapsed` in
  `LastSuperuserFallsToAStaleCheck`.
- An approval that finds its employee on the project holds no lock on that row, so it says
  "granted" to somebody who was removed under it, also where it commits before the removal,
  as the inbox is ordered by the numbers of the notices (`notifications/repository.py:62`);
  and an approval puts people on a project who have left the organization: `overtaken`,
  `excused` in `ProjectAccess`.
- A chart with more categories or projects than 8, or spenders than 5, does not add up to
  the headline (`analytics/repository.py:194-292`): `LeftOut` in `FiguresAgree`.
- The status log may hold the same status twice in a row when calls overlap
  (`users/service.py:171`): `stale`. A later transaction is not always "strictly after"
  the record it closes, as lines 172-174 say: one that started earlier is refused
  by the CHECK.
- An edit that races with another logs an old value that was not the one replaced: `raced`.
- A replaced payment receipt stays on the disk (`reimbursements/router.py:111`).

Seen while reading, without a property: two refreshes with one token both rotate
it, so "single use" (`auth/service.py`) holds only without races; a switch of organization lasts until the next
refresh (`auth/service.py:300`); the retry branch of `refresh` does not look at
the account's status (`:165`); a 429 or 503 to a refresh signs the user out
(`api_client.dart:210`); direct grants outlive
the membership (`access/repository.py:216`); the last administrator of an
organization can be suspended (`users/service.py` update_user); the docstring
at `core/rate_limit.py:60-61` says that the counter's row is only touched when the
limit is reached, while every attempt that is not refused writes it.

## 7. Not modelled

- Expense types: a listing of a seeded table. The rules a type imposes on a
  submission are checks of the payload against constants.
- Migrations runner: sequential, run by one developer; the triggers, CHECKs,
  unique indexes and `ats_install_roles` the files define are in the modules that
  meet them.
- Configuration, logging, password hashing, JWT contents, file sniffing and the
  mapping of exceptions: pure functions or process start.
- Averages and percentages of the reports and the amounts of the payouts: a figure is
  the set it adds up, and an amount only what sorts the charts.
- The directory, projects, budgets and notifications of the app's store; its screens, and
  the scripts: presentation, or the pattern of `ExpenseList` again.
- Listings that are filters over append-only tables; marking a notification read,
  an update by primary key.
