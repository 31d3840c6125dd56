--------------------------- MODULE ProjectAccess ---------------------------
(***************************************************************************)
(* Who works on a project: an employee asks for access and an              *)
(* administrator approves or rejects, or an administrator adds and removes *)
(* people directly; meanwhile clients page through the lists.              *)
(*                                                                         *)
(* Each call is a transaction (READ COMMITTED) and each of its statements  *)
(* a step.  An INSERT takes the number of its row when it starts; it waits *)
(* for the fate of an equal row, which here is the order in which inserts  *)
(* land.  A row that lands keeps its seat from then to the commit: nobody  *)
(* else can add, find or remove it, so that the notice and the commit      *)
(* belong to the same step.  An approval that adds nobody holds nothing of *)
(* the seat, and its look, its notice and its commit are steps; so are a   *)
(* removal's DELETE, with the notice that follows it, and its commit.      *)
(*                                                                         *)
(* One project stands for all: the tables relate no two of them.  The      *)
(* administrators' own permission is OrganizationAccess's subject; the     *)
(* role a project member gets decides nothing and is left out.             *)
(***************************************************************************)
EXTENDS Naturals, FiniteSets

CONSTANTS
  Employees,    \* employees of the organization, past, present and future
  Calls,        \* calls under way at a time
  Readers,      \* clients paging through a list
  MaxId,        \* bound: numbers each table's rows ever get
  MaxNotices,   \* bound: numbers notifications.notification_id ever gives
  MaxLimit,     \* bound: rows a page may hold
  Lists         \* the lists clients read

ASSUME BoundsArePositive == MaxId \in Nat \ {0} /\ MaxLimit \in Nat \ {0} /\ MaxNotices \in Nat

VARIABLES
  belongs,      \* employees with a membership of the organization
  members,      \* project_members: rows [id, who]
  requests,     \* project_access_requests: rows [id, who, status]
  lastMember,   \* the sequences the rows' numbers come from
  lastRequest,
  lastNotice,
  call,         \* [pc, op, who, row]; row: the request decided, the row inserted
  reader,       \* [list, before, owed]; before = 0: no cursor yet; owed: rows
                \* that have matched ever since the first page and are not seen
  told,         \* notifications: what the employee's inbox says about the project,
                \* the newest first: [no, word] with the greatest number
  verdicts,     \* history: decisions announced for each request
  overtaken,    \* history: employees removed although an approval that had found
                \* them on the project has the later word, or may have it yet
  excused       \* history: employees who left the organization while asking
                \* for the project or being added to it

tables == <<belongs, members, requests, lastMember, lastRequest, lastNotice, told>>
vars == <<tables, call, reader, verdicts, overtaken, excused>>

Statuses == {"pending", "approved", "rejected"}
PROJECT_ACCESS_TRANSITIONS ==
  [pending |-> {"approved", "rejected"}, approved |-> {}, rejected |-> {}]
Decisions == {"approved", "rejected"}
Ids == 1 .. MaxId

-----------------------------------------------------------------------------
is_project_member(e) == \E m \in members : m.who = e
find_pending(e) == \E q \in requests : q.who = e /\ q.status = "pending"
Request(i) == CHOOSE q \in requests : q.id = i

Idle == [pc |-> "idle"]
InCall(c, op, pc) == call[c].pc = pc /\ call[c].op = op
Goto(c, pc) == call' = [call EXCEPT ![c].pc = pc]
End(c) == call' = [call EXCEPT ![c] = Idle]
Begin(c, op, e, row, pc) ==
  /\ call[c].pc = "idle"
  /\ call' = [call EXCEPT ![c] = [pc |-> pc, op |-> op, who |-> e, row |-> row]]
  /\ UNCHANGED <<tables, reader, verdicts, overtaken, excused>>

Refuse(c) == End(c) /\ UNCHANGED <<tables, reader, verdicts, overtaken, excused>>
Proceed(c, pc) == Goto(c, pc) /\ UNCHANGED <<tables, reader, verdicts, overtaken, excused>>

Nobody == [pc |-> "closed"]
Closed(r) == reader[r] = Nobody

Init ==
  /\ belongs \in SUBSET Employees
  /\ members = {} /\ requests = {}
  /\ lastMember = 0 /\ lastRequest = 0
  /\ call = [c \in Calls |-> Idle]
  /\ reader = [r \in Readers |-> Nobody]
  /\ lastNotice = 0
  /\ told = [e \in Employees |-> [no |-> 0, word |-> "nothing"]]
  /\ verdicts = [i \in Ids |-> 0]
  /\ overtaken = {} /\ excused = {}

-----------------------------------------------------------------------------
\* What each call reads before its transaction block.
RequestAccess(c, e) ==
  /\ e \in belongs
  /\ Begin(c, "request", e, 0, "ask_member")

\* Mutant: the membership is not looked at.
AddAnybody(c, e) == Begin(c, "add", e, 0, "ask_member")

AddMember(c, e) ==
  /\ e \in belongs
  /\ Begin(c, "add", e, 0, "ask_member")
RemoveMember(c, e) == Begin(c, "remove", e, 0, "delete")
Decide(c, i, status) ==
  /\ \E q \in requests : q.id = i
  /\ Begin(c, status, Request(i).who, i, "lock")

\* get_by_id_for_update: waits for the decision that holds the row.
Holds(c) == call[c].pc \in {"ask_member", "insert", "inserted", "decide", "announced"} /\ call[c].op \in Decisions

\* Mutant: the request is read without its row lock.
RowNeverHeld(c) == TRUE

RowFree(c) == \A d \in Calls \ {c} : ~(Holds(d) /\ call[d].row = call[c].row)
Lock(c) ==
  /\ call[c].pc = "lock" /\ RowFree(c)
  /\ IF call[c].op \notin PROJECT_ACCESS_TRANSITIONS[Request(call[c].row).status] THEN Refuse(c)
     ELSE Proceed(c, IF call[c].op = "approved" THEN "ask_member" ELSE "decide")

\* Is the employee on the project already?
AskMember(c) ==
  /\ call[c].pc = "ask_member"
  /\ IF ~is_project_member(call[c].who)
       THEN Proceed(c, IF call[c].op = "request" THEN "ask_pending" ELSE "insert")
     ELSE IF call[c].op = "approved" THEN Proceed(c, "decide")
     ELSE Refuse(c)

AskPending(c) ==
  /\ InCall(c, "request", "ask_pending")
  /\ IF find_pending(call[c].who) THEN Refuse(c) ELSE Proceed(c, "insert")

\* An INSERT into project_members starts, and takes its number.
StartGrant(c) ==
  /\ call[c].pc = "insert" /\ call[c].op \in {"add", "approved"} /\ lastMember < MaxId
  /\ lastMember' = lastMember + 1
  /\ call' = [call EXCEPT ![c] = [pc |-> "inserted", op |-> @.op, who |-> @.who, row |-> @.row,
                                  id |-> lastMember + 1]]
  /\ UNCHANGED <<belongs, members, requests, lastRequest, lastNotice, told, reader, verdicts, overtaken,
                 excused>>

StartRequest(c) ==
  /\ InCall(c, "request", "insert") /\ lastRequest < MaxId
  /\ lastRequest' = lastRequest + 1
  /\ call' = [call EXCEPT ![c].pc = "inserted", ![c].row = lastRequest + 1]
  /\ UNCHANGED <<belongs, members, requests, lastMember, lastNotice, told, reader, verdicts, overtaken,
                 excused>>

\* Mutant: a second pending request is let in.
PendingUnchecked(e) == FALSE

\* uq_par_pending admits one pending request; create_request announces nothing.
PendingTaken(e) == find_pending(e)
LandRequest(c) ==
  /\ InCall(c, "request", "inserted")
  /\ IF PendingTaken(call[c].who) THEN Refuse(c)
     ELSE /\ requests' = requests \cup {[id |-> call[c].row, who |-> call[c].who, status |-> "pending"]}
          /\ End(c)
          /\ UNCHANGED <<belongs, members, lastMember, lastRequest, lastNotice, told, reader, verdicts,
                       overtaken, excused>>

\* UNIQUE (project_id, employee_id): an INSERT of a seat that is taken waits
\* for a removal of it that is under way.
SeatTaken(e) == is_project_member(e)
BeingRemoved(e) == \E d \in Calls : InCall(d, "remove", "deleted") /\ call[d].who = e
Row(c) == [id |-> call[c].id, who |-> call[c].who]

\* The inbox is ordered by the numbers of the notices, not by their commits.
Tell(e, number, what) ==
  IF told[e].no > number THEN told ELSE [told EXCEPT ![e] = [no |-> number, word |-> what]]

\* Mutant: an approval adds nobody.
GrantNothing(c) == members
Grant(c) == members \cup {Row(c)}

\* The row is in: nothing else can be said about the seat before the commit.
LandRow(c) ==
  /\ lastNotice < MaxNotices /\ lastNotice' = lastNotice + 1
  /\ members' = Grant(c)
  /\ told' = Tell(call[c].who, lastNotice + 1, "granted")
  /\ overtaken' = overtaken \ {call[c].who}
  /\ End(c)

\* add_member fails on a second row.
LandMember(c) ==
  /\ InCall(c, "add", "inserted")
  /\ IF SeatTaken(call[c].who) THEN ~BeingRemoved(call[c].who) /\ Refuse(c)
     ELSE LandRow(c) /\ UNCHANGED <<belongs, requests, lastMember, lastRequest, reader, verdicts, excused>>

\* In _decide, ON CONFLICT DO NOTHING goes on without a row, and without a lock
\* on the one there is.
KeepRow(c) ==
  /\ InCall(c, "approved", "inserted") /\ SeatTaken(call[c].who) /\ ~BeingRemoved(call[c].who)
  /\ call' = [call EXCEPT ![c] = [pc |-> "decide", op |-> @.op, who |-> @.who, row |-> @.row]]
  /\ UNCHANGED <<tables, reader, verdicts, overtaken, excused>>

Decided(c) == {IF q.id = call[c].row THEN [q EXCEPT !.status = call[c].op] ELSE q : q \in requests}
Settled(c) ==
  /\ requests' = Decided(c)
  /\ verdicts' = [verdicts EXCEPT ![call[c].row] = @ + 1]

LandApproval(c) ==
  /\ InCall(c, "approved", "inserted") /\ ~SeatTaken(call[c].who)
  /\ LandRow(c) /\ Settled(c)
  /\ UNCHANGED <<belongs, lastMember, lastRequest, reader, excused>>

\* The notice of an approval that has added nobody gets its number.
Announce(c) ==
  /\ InCall(c, "approved", "decide") /\ lastNotice < MaxNotices
  /\ lastNotice' = lastNotice + 1
  /\ call' = [call EXCEPT ![c] = [pc |-> "announced", op |-> @.op, who |-> @.who, row |-> @.row,
                                  no |-> lastNotice + 1]]
  /\ UNCHANGED <<belongs, members, requests, lastMember, lastRequest, told, reader, verdicts, overtaken,
                 excused>>

\* The commit of a decision that adds nobody.
Settle(c) ==
  /\ \/ InCall(c, "rejected", "decide") /\ told' = told
     \/ InCall(c, "approved", "announced") /\ told' = Tell(call[c].who, call[c].no, "granted")
  /\ Settled(c) /\ End(c)
  /\ UNCHANGED <<belongs, members, lastMember, lastRequest, lastNotice, reader, overtaken, excused>>

\* delete_member finds the row, or the call is refused; it waits for another
\* removal of it. The notice follows.
Delete(c) ==
  /\ call[c].pc = "delete" /\ ~BeingRemoved(call[c].who)
  /\ IF ~is_project_member(call[c].who) THEN Refuse(c)
     ELSE /\ lastNotice < MaxNotices /\ lastNotice' = lastNotice + 1
          /\ call' = [call EXCEPT ![c] = [pc |-> "deleted", op |-> @.op, who |-> @.who, row |-> @.row,
                                          no |-> lastNotice + 1]]
          /\ UNCHANGED <<belongs, members, requests, lastMember, lastRequest, told, reader, verdicts,
                         overtaken, excused>>

\* No approval that adds nobody has, or will have, a later number.
HasLastWord(c) ==
  /\ told[call[c].who].no < call[c].no
  /\ \A d \in Calls :
       /\ InCall(d, "approved", "decide") => call[d].who # call[c].who
       /\ InCall(d, "approved", "announced") /\ call[d].who = call[c].who => call[d].no < call[c].no

delete_member(e) == {m \in members : m.who # e}
Remove(c) ==
  /\ InCall(c, "remove", "deleted")
  /\ members' = delete_member(call[c].who)
  /\ told' = Tell(call[c].who, call[c].no, "removed")
  /\ overtaken' = IF HasLastWord(c) THEN overtaken \ {call[c].who} ELSE overtaken \cup {call[c].who}
  /\ End(c)
  /\ UNCHANGED <<belongs, requests, lastMember, lastRequest, lastNotice, reader, verdicts, excused>>

\* A statement times out, the client goes away or the server stops: rolled back.
GiveUp(c) == call[c].pc # "idle" /\ Refuse(c)

-----------------------------------------------------------------------------
\* The organization's own add_member and remove_member.
Join(e) ==
  /\ e \notin belongs
  /\ belongs' = belongs \cup {e}
  /\ UNCHANGED <<members, requests, lastMember, lastRequest, lastNotice, told, call, reader, verdicts,
                 overtaken, excused>>

Asking(e) ==
  \/ find_pending(e)
  \/ \E c \in Calls : call[c].pc # "idle" /\ call[c].op \in {"request", "add", "approved"} /\ call[c].who = e
Leave(e) ==
  /\ e \in belongs
  /\ belongs' = belongs \ {e}
  /\ excused' = IF Asking(e) THEN excused \cup {e} ELSE excused \ {e}
  /\ UNCHANGED <<members, requests, lastMember, lastRequest, lastNotice, told, call, reader, verdicts, overtaken>>

-----------------------------------------------------------------------------
AllLists ==
  {[of |-> "members", filter |-> "any"]}
    \cup {[of |-> "queue", filter |-> f] : f \in {"any", "pending"}}
    \cup {[of |-> "mine", filter |-> e] : e \in Employees}
ASSUME ListsAreKnown == Lists \subseteq AllLists

list_members == {m.id : m \in members}
list_by_project(f) == {q.id : q \in {p \in requests : f \in {"any", p.status}}}
list_by_employee(e) == {q.id : q \in {p \in requests : p.who = e}}
Matching(l) ==
  CASE l.of = "members" -> list_members
    [] l.of = "queue"   -> list_by_project(l.filter)
    [] l.of = "mine"    -> list_by_employee(l.filter)

\* ORDER BY id DESC LIMIT n, below the cursor.
Below(ids, before) == {i \in ids : before = 0 \/ i < before}

\* Mutant: pages start at the wrong end.
Oldest(ids, n) == {i \in ids : Cardinality({j \in ids : j < i}) < n}

Newest(ids, n) == {i \in ids : Cardinality({j \in ids : j > i}) < n}
PageOf(l, before, n) == Newest(Below(Matching(l), before), n)

\* next_cursor: the last item's number, or none after an empty page.
NextCursor(i, items) == i \in items /\ \A j \in items : i <= j

Open(r, l) ==
  /\ Closed(r)
  /\ reader' = [reader EXCEPT ![r] = [pc |-> "reading", list |-> l, before |-> 0, owed |-> Matching(l)]]
  /\ UNCHANGED <<tables, call, verdicts, overtaken, excused>>

Page(r, n) ==
  /\ ~Closed(r)
  /\ LET items == PageOf(reader[r].list, reader[r].before, n)
     IN \/ items = {} /\ reader' = [reader EXCEPT ![r] = Nobody]
        \/ \E i \in Ids :
             /\ NextCursor(i, items)
             /\ reader' = [reader EXCEPT ![r].before = i,
                                        ![r].owed = (@ \cap Matching(reader[r].list)) \ items]
  /\ UNCHANGED <<tables, call, verdicts, overtaken, excused>>

-----------------------------------------------------------------------------
Continue(c) ==
  \/ Lock(c) \/ AskMember(c) \/ AskPending(c)
  \/ StartGrant(c) \/ StartRequest(c) \/ LandRequest(c) \/ LandMember(c)
  \/ LandApproval(c) \/ KeepRow(c) \/ Announce(c) \/ Settle(c)
  \/ Delete(c) \/ Remove(c)

Next ==
  \/ \E c \in Calls, e \in Employees : RequestAccess(c, e) \/ AddMember(c, e) \/ RemoveMember(c, e)
  \/ \E c \in Calls, i \in Ids, s \in Decisions : Decide(c, i, s)
  \/ \E c \in Calls : Continue(c) \/ GiveUp(c)
  \/ \E e \in Employees : Join(e) \/ Leave(e)
  \/ \E r \in Readers : (\E l \in Lists : Open(r, l)) \/ (\E n \in 1 .. MaxLimit : Page(r, n))

Spec == Init /\ [][Next]_vars

-----------------------------------------------------------------------------
CallOf(op, pcs, rows) == [pc : pcs, op : {op}, who : Employees, row : rows]
CallStates ==
  {Idle}
    \cup CallOf("request", {"ask_member", "ask_pending", "insert"}, {0})
    \cup CallOf("request", {"inserted"}, Ids)
    \cup CallOf("add", {"ask_member", "insert"}, {0})
    \cup CallOf("remove", {"delete"}, {0})
    \cup CallOf("approved", {"lock", "ask_member", "insert", "decide"}, Ids)
    \cup CallOf("rejected", {"lock", "decide"}, Ids)
    \cup [pc : {"inserted"}, op : {"add", "approved"}, who : Employees, row : 0 .. MaxId, id : Ids]
    \cup [pc : {"announced"}, op : {"approved"}, who : Employees, row : Ids, no : 0 .. MaxNotices]
    \cup [pc : {"deleted"}, op : {"remove"}, who : Employees, row : {0}, no : 0 .. MaxNotices]

\* Shapes, and rows numbered below their sequences.
TypeOK ==
  /\ belongs \subseteq Employees /\ overtaken \subseteq Employees /\ excused \subseteq Employees
  /\ lastMember \in 0 .. MaxId /\ lastRequest \in 0 .. MaxId
  /\ lastNotice \in 0 .. MaxNotices
  /\ members \subseteq [id : 1 .. lastMember, who : Employees]
  /\ requests \subseteq [id : 1 .. lastRequest, who : Employees, status : Statuses]
  /\ told \in [Employees -> [no : 0 .. MaxNotices, word : {"nothing", "granted", "removed"}]]
  /\ verdicts \in [Ids -> Nat]
  /\ call \in [Calls -> CallStates]
  /\ reader \in [Readers -> {Nobody} \cup
       [pc : {"reading"}, list : Lists, before : 0 .. MaxId, owed : SUBSET Ids]]

\* An employee has at most one row on the project and at most one pending
\* request, although every check for an existing one runs before the insert
\* and outside any lock: the two unique indexes decide.
OneSeatOnePending ==
  /\ TypeOK
  /\ \A m, n \in members : m.who = n.who => m = n
  /\ \A p, q \in requests : p.who = q.who /\ p.status = "pending" /\ q.status = "pending" => p = q

\* However many administrators decide a request at a time, it is decided once
\* and its author hears one answer, the one the row keeps.
DecidedOnce ==
  \A q \in requests : verdicts[q.id] = IF q.status = "pending" THEN 0 ELSE 1

\* What the inbox of an employee says first about the project is true, whoever
\* added, approved and removed at once - unless he was removed while an approval
\* that had found him on the project had the later number, or none yet: that
\* approval says "granted" to somebody who is no longer on the project, even
\* where it commits before the removal.
LastWordHolds ==
  \A e \in Employees \ overtaken : is_project_member(e) <=> told[e].word = "granted"

\* Nobody gets on the project, or asks for it, from outside the organization,
\* except those who left it while their request was pending or a call for them
\* was under way: an approval does not look at the membership again.
NewcomersBelong ==
  [][\A x \in (members' \ members) \cup {q \in requests' : \A p \in requests : p.id # q.id} :
       x.who \in belongs \cup excused]_vars

\* Pages of a list that changes underneath: a row that matches from the first
\* page on is still to come as long as it has not been returned, so a client
\* that reads to the empty page has every such row.
PagesMissNothing ==
  \A r \in Readers : ~Closed(r) =>
    \A i \in reader[r].owed \cap Matching(reader[r].list) : reader[r].before = 0 \/ i < reader[r].before
=============================================================================
