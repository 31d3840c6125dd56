----------------------------- MODULE ExpenseList -----------------------------
(***************************************************************************)
(* The list of expenses the app holds (ExpenseStore in                     *)
(* lib/management/expense_store.dart): fetched page by page, changed       *)
(* optimistically when a manager decides, replaced by every refetch,       *)
(* dropped at sign-out.  Every call is asynchronous: the answers of two    *)
(* calls arrive in any order, or never, and a request the app gave up on   *)
(* may still run on the server.                                            *)
(*                                                                         *)
(* The server is the table of expenses, numbered in the order of their     *)
(* ids, and may refuse any request (permissions, an error of its own).     *)
(* Everybody here reads all the expenses of the organization.  A call      *)
(* keeps the identity it was sent with.                                    *)
(***************************************************************************)
EXTENDS Naturals, Sequences, FiniteSets, SequencesExt

CONSTANTS
  People,       \* who may sign in on the device
  Nobody,       \* nobody is signed in
  Calls,        \* the calls of the app that may be under way at once
  PageSize,     \* rows of a page
  MaxExpenses   \* bound: expenses ever submitted

ASSUME PeopleAssumption == Nobody \notin People
ASSUME PageAssumption == PageSize \in Nat \ {0}

VARIABLES
  server,       \* the status of every expense, by id
  user,         \* who is signed in
  shown,        \* ExpenseStore.expenses, with the person each was read for
  cursor,       \* expensesCursor, 0 for null
  failed,       \* expensesError is set: the screens that page through the list
                \* show it instead; reports and details show the list all the same
  loadingMore,  \* expensesLoadingMore
  call,         \* the calls under way
  outlived,     \* history: who left the app with a call under way
  left,         \* history: whose session ended on a 401, which drops nothing,
                \* since the list was last replaced or dropped
  crossed,      \* history: further pages asked for before the list was replaced
  torn          \* history: since the list was last replaced, a further page was
                \* refused or crossed

history == <<outlived, left, crossed, torn>>
listVars == <<server, user, shown, cursor, failed, loadingMore, call, history>>

Decisions == {"approve", "reject"}
Posts == Decisions \cup {"request_info", "resubmit"}
Fetches == {"prime", "fetch"}
Statuses == {"pending", "info_requested", "approved", "rejected"}

Target(op) ==
  CASE op = "approve" -> "approved"
    [] op = "reject" -> "rejected"
    [] op = "request_info" -> "info_requested"
    [] op = "resubmit" -> "pending"

\* A decided expense cannot be decided, questioned or resubmitted again.
Moves(from, to) ==
  from \in {"pending", "info_requested"} /\ from # to

\* isLocked: the app offers no decision on a row that shows one.
Locked(status) == status \in {"approved", "rejected"}

Idle == [op |-> "none"]

\* "at" is the place in the list of the record a decision changed, 0 once a
\* refetch has replaced it; "before" is the status the app falls back to.
Start(c, op, by, about, at, before) ==
  [call EXCEPT ![c] = [op |-> op, pc |-> "sent", by |-> by, about |-> about,
                       at |-> at, before |-> before]]

Waiting(c) == call[c].op # "none" /\ call[c].pc \in {"sent", "granted", "refused"}
Entering == \E c \in Calls : Waiting(c) /\ call[c].op = "prime"

\* Replacing the list takes the records of pending decisions out of it.
Detached(calls) ==
  [c \in Calls |-> IF calls[c].op \in Posts THEN [calls[c] EXCEPT !.at = 0]
                                            ELSE calls[c]]

ListInit ==
  /\ server = << >>
  /\ user = Nobody
  /\ shown = << >>
  /\ cursor = 0
  /\ failed = FALSE
  /\ loadingMore = FALSE
  /\ call = [c \in Calls |-> Idle]
  /\ outlived = {} /\ left = {} /\ crossed = {} /\ torn = FALSE

-----------------------------------------------------------------------------
(* The server. *)

\* Somebody submits an expense, or reviews one from another device.
Submit ==
  /\ Len(server) < MaxExpenses
  /\ server' = Append(server, "pending")
  /\ UNCHANGED <<user, shown, cursor, failed, loadingMore, call, history>>

ReviewElsewhere(id, op) ==
  /\ Moves(server[id], Target(op))
  /\ server' = [server EXCEPT ![id] = Target(op)]
  /\ UNCHANGED <<user, shown, cursor, failed, loadingMore, call, history>>

\* Newest first, below the cursor, at most PageSize rows.
Page(below, by) ==
  LET top  == IF below = 0 THEN Len(server) ELSE below - 1
      size == IF top < PageSize THEN top ELSE PageSize
  IN  [i \in 1 .. size |->
         [id |-> top + 1 - i, status |-> server[top + 1 - i], by |-> by]]

\* Mutant: the cursor is one below the last row.
CursorBelow(page) == IF page = << >> THEN 0 ELSE Last(page).id - 1

NextCursor(page) == IF page = << >> THEN 0 ELSE Last(page).id

GrantRead(c) ==
  /\ call[c].op \notin Posts /\ call[c].pc = "sent" /\ call[c].by # Nobody
  /\ call' = [call EXCEPT ![c] =
                [op |-> @.op, pc |-> "granted", by |-> @.by,
                 page |-> Page(@.about, @.by)]]
  /\ UNCHANGED server

\* A request the app gave up on runs all the same; nobody hears of it.
GrantPost(c) ==
  LET post == call[c] IN
  /\ post.op \in Posts /\ post.pc \in {"sent", "forgotten"}
  /\ Moves(server[post.about], Target(post.op))
  /\ server' = [server EXCEPT ![post.about] = Target(post.op)]
  /\ call' = [call EXCEPT ![c] =
                IF post.pc = "sent" THEN [@ EXCEPT !.pc = "granted"] ELSE Idle]

RefuseCall(c) ==
  /\ call[c].pc \in {"sent", "forgotten"}
  /\ call' = [call EXCEPT ![c] =
                IF @.pc = "sent" THEN [@ EXCEPT !.pc = "refused"] ELSE Idle]
  /\ UNCHANGED server

Serve(c) ==
  /\ call[c] # Idle
  /\ GrantRead(c) \/ GrantPost(c) \/ RefuseCall(c)
  /\ UNCHANGED <<user, shown, cursor, failed, loadingMore, history>>

-----------------------------------------------------------------------------
(* What the user does. *)

\* The login screen reads the working set before it opens the portal.
SignIn(c, p) ==
  /\ user = Nobody
  /\ call[c] = Idle
  /\ user' = p
  /\ call' = Start(c, "prime", p, 0, 0, "")
  /\ UNCHANGED <<server, shown, cursor, failed, loadingMore, history>>

InPortal(c) == user # Nobody /\ ~Entering /\ call[c] = Idle

\* fetchExpensesFromBackend: pull to refresh, or the retry of a failed load.
Refresh(c) ==
  /\ InPortal(c)
  /\ call' = Start(c, "fetch", user, 0, 0, "")
  /\ UNCHANGED <<server, user, shown, cursor, failed, loadingMore, history>>

\* Every screen with the button for it shows the error first.
LoadMore(c) ==
  /\ InPortal(c) /\ ~failed
  /\ cursor # 0 /\ ~loadingMore
  /\ loadingMore' = TRUE
  /\ call' = Start(c, "more", user, cursor, 0, "")
  /\ UNCHANGED <<server, user, shown, cursor, failed, history>>

\* byIdOrNull finds the first record with the id.
PlaceOf(id) == SelectInSeq(shown, LAMBDA row : row.id = id)

\* approve, reject: the status changes at once, the request follows.
Decide(c, id, op) ==
  LET at == PlaceOf(id) IN
  /\ InPortal(c)
  /\ op \in Decisions
  /\ at # 0 /\ ~Locked(shown[at].status)
  /\ shown' = [shown EXCEPT ![at].status = Target(op)]
  /\ call' = Start(c, op, user, id, at, shown[at].status)
  /\ UNCHANGED <<server, user, cursor, failed, loadingMore, history>>

\* requestMoreInfo, resubmitExpense: nothing changes before the answer.
Ask(c, id, op) ==
  /\ InPortal(c)
  /\ op \in Posts \ Decisions
  /\ PlaceOf(id) # 0
  /\ call' = Start(c, op, user, id, 0, "")
  /\ UNCHANGED <<server, user, shown, cursor, failed, loadingMore, history>>

Leave(calls) ==
  outlived' = outlived \cup ({call[c].by : c \in {d \in calls : Waiting(d)}} \ {Nobody})
FurtherPages == {c \in Calls : Waiting(c) /\ call[c].op = "more"}

\* resetForSignOut leaves the cursor and the flag of the next page alone.
SignOut ==
  /\ user # Nobody /\ ~Entering
  /\ user' = Nobody
  /\ shown' = << >>
  /\ failed' = FALSE
  /\ call' = Detached(call)
  /\ Leave(Calls) /\ left' = {} /\ crossed' = crossed \cup FurtherPages
  /\ UNCHANGED <<server, cursor, loadingMore, torn>>

-----------------------------------------------------------------------------
(* Answers. *)

\* A fetch replaces the list and its cursor, a further page is appended.
HearPage(c) ==
  /\ call[c].op # "none" /\ call[c].op \notin Posts /\ call[c].pc = "granted"
  /\ cursor' = NextCursor(call[c].page)
  /\ \/ /\ call[c].op \in Fetches
        /\ shown' = call[c].page
        /\ failed' = FALSE
        /\ call' = [Detached(call) EXCEPT ![c] = Idle]
        /\ left' = {} /\ crossed' = FurtherPages /\ torn' = FALSE
        /\ UNCHANGED loadingMore
     \/ /\ call[c].op = "more"
        /\ shown' = shown \o call[c].page
        /\ loadingMore' = FALSE
        /\ call' = [call EXCEPT ![c] = Idle]
        /\ crossed' = crossed \ {c} /\ torn' = (torn \/ c \in crossed)
        /\ UNCHANGED <<failed, left>>
  /\ UNCHANGED <<server, user, outlived>>

\* A post that succeeded is followed by a refetch, for whoever is signed in
\* by then.
HearPostGranted(c) ==
  /\ call[c].op \in Posts /\ call[c].pc = "granted"
  /\ call' = Start(c, "fetch", user, 0, 0, "")
  /\ UNCHANGED <<server, user, shown, cursor, failed, loadingMore, history>>

\* Mutant: a failed decision is not taken back.
NotRolledBack(c) == UNCHANGED shown

\* The rollback writes to the record the decision changed, which a refetch
\* may have taken out of the list.
RolledBack(c) ==
  IF call[c].op \in Decisions /\ call[c].at # 0
    THEN shown' = [shown EXCEPT ![call[c].at].status = call[c].before]
    ELSE UNCHANGED shown

\* Mutant: a fetch that fails leaves expensesError alone.
FailsQuietly(c) ==
  /\ RolledBack(c)
  /\ loadingMore' = (loadingMore /\ call[c].op # "more")
  /\ UNCHANGED failed

\* What the app makes of a failure; a fetch sets expensesError.
Fails(c) ==
  /\ RolledBack(c)
  /\ failed' = (failed \/ call[c].op \in Fetches)
  /\ loadingMore' = (loadingMore /\ call[c].op # "more")

\* An answer that is not 200. For a further page it is the page without rows
\* and without a cursor. A 401 that survives the refresh also ends the
\* session, and the login screen opens over the store as it is.
HearRefusal(c) ==
  /\ call[c].op # "none" /\ call[c].pc = "refused"
  /\ Fails(c)
  /\ cursor' = IF call[c].op = "more" THEN 0 ELSE cursor
  /\ user' \in {user, Nobody}
  /\ user' # user => call[c].by = user
  /\ call' = [call EXCEPT ![c] = Idle]
  /\ IF user' # user THEN Leave(Calls \ {c}) /\ left' = left \cup {user}
                     ELSE UNCHANGED <<outlived, left>>
  /\ crossed' = crossed \ {c} /\ torn' = (torn \/ call[c].op = "more")
  /\ UNCHANGED server

\* An exception: no connection, or no answer within requestTimeout.
HearNothing(c) ==
  /\ Waiting(c)
  /\ Fails(c)
  /\ call' = [call EXCEPT ![c] =
                IF @.op \in Posts /\ @.pc = "sent"
                  THEN [@ EXCEPT !.pc = "forgotten", !.at = 0, !.before = ""]
                  ELSE Idle]
  /\ crossed' = crossed \ {c}
  /\ UNCHANGED <<server, user, cursor, outlived, left, torn>>

ListNext ==
  \/ Submit
  \/ \E id \in DOMAIN server : \E op \in Posts : ReviewElsewhere(id, op)
  \/ SignOut
  \/ \E c \in Calls :
       \/ Serve(c)
       \/ \E p \in People : SignIn(c, p)
       \/ Refresh(c) \/ LoadMore(c)
       \/ \E id \in DOMAIN server : \E op \in Posts : Decide(c, id, op) \/ Ask(c, id, op)
       \/ HearPage(c) \/ HearPostGranted(c) \/ HearRefusal(c) \/ HearNothing(c)

ListSpec == ListInit /\ [][ListNext]_listVars

-----------------------------------------------------------------------------
(* Properties. *)

Row == [id : DOMAIN server, status : Statuses, by : People]

\* The place a pending decision falls back to holds the row it decided, as it
\* decided it.
ListTypeOK ==
  /\ server \in Seq(Statuses)
  /\ user \in People \cup {Nobody}
  /\ shown \in Seq(Row)
  /\ cursor \in {0} \cup DOMAIN server
  /\ failed \in BOOLEAN /\ loadingMore \in BOOLEAN
  /\ outlived \cup left \subseteq People /\ crossed \subseteq Calls /\ torn \in BOOLEAN
  /\ \A c \in Calls : call[c].op \in Decisions /\ call[c].at # 0 =>
       /\ call[c].at \in DOMAIN shown
       /\ shown[call[c].at].id = call[c].about
       /\ shown[call[c].at].status = Target(call[c].op)

MadeOrUnderWay(i) ==
  \/ ~Locked(shown[i].status)
  \/ shown[i].status = server[shown[i].id]
  \/ \E c \in Calls : /\ Waiting(c) /\ call[c].op \in Decisions
                      /\ call[c].at = i

\* A decision stays on the screen only if it was made: a row that shows one
\* while no call for it is under way agrees with the server, however
\* answers, refetches, timeouts and sessions overlapped; every rollback finds
\* the row its decision changed (lib/management/expense_store.dart approve,
\* reject).
DecisionsShownWereMade == ListTypeOK /\ \A i \in DOMAIN shown : MadeOrUnderWay(i)

\* The list that is shown runs without a hole from its newest row to its
\* cursor, and to the oldest expense when there is no cursor left, until a
\* further page is refused or comes after the list it continued was replaced;
\* the next refetch mends it (lib/management/expense_store.dart
\* fetchExpensesFromBackend, loadMoreExpenses).
HolesOnlyAfterTornPages ==
  user # Nobody /\ ~Entering /\ shown # << >> /\ ~torn =>
    \A id \in DOMAIN server :
      (IF cursor = 0 THEN 1 ELSE cursor) <= id /\ id <= shown[1].id =>
        PlaceOf(id) # 0

\* Whoever is signed in has rows that were read for them, or for somebody who
\* left with a call under way (lib/management/expense_store.dart
\* resetForSignOut). A session that ends on a 401 opens the login screen over
\* the old list (lib/main.dart onSessionExpired): the next person has it until a
\* fetch of their own succeeds, and while they do, the store holds the error.
ForeignRowsOutlivedASession ==
  user # Nobody /\ ~Entering =>
    \A i \in DOMAIN shown :
      \/ shown[i].by \in {user} \cup outlived
      \/ shown[i].by \in left /\ failed
=============================================================================
