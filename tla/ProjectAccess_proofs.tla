------------------------ MODULE ProjectAccess_proofs ------------------------
(***************************************************************************)
(* Proofs about ProjectAccess, for any number of employees, calls, readers *)
(* and rows.                                                               *)
(*                                                                         *)
(* The argument: a call under way knows something about the tables (Fits): *)
(* the number it took is nobody else's, the request it holds is pending    *)
(* and held by nobody else, the employee it found on the project is there  *)
(* unless a removal overtook it, or a later notice answers for both.  A    *)
(* call that commits leaves the others with what they know.                *)
(***************************************************************************)
EXTENDS ProjectAccess, FiniteSetTheorems, TLAPS

\* What call c may rely on in state s of its own.
TookNumber(c, s) ==
  /\ s.pc = "inserted" /\ s.op \in {"add", "approved"} => s.id <= lastMember
  /\ s.pc = "inserted" /\ s.op = "request" =>
       /\ s.row <= lastRequest
       /\ \A q \in requests : q.id # s.row
       /\ \A b \in Calls \ {c} : ~(InCall(b, "request", "inserted") /\ call[b].row = s.row)

KnowsRequest(c, s) ==
  s.pc # "idle" /\ s.op \in Decisions =>
    /\ \E q \in requests : /\ q.id = s.row /\ q.who = s.who
                           /\ s.pc # "lock" => q.status = "pending"
    /\ s.pc # "lock" => \A b \in Calls \ {c} : ~(Holds(b) /\ call[b].row = s.row)

KnowsEmployee(s) ==
  /\ s.pc = "decide" /\ s.op = "approved" => is_project_member(s.who) \/ s.who \in overtaken
  /\ s.pc = "announced" => \/ is_project_member(s.who) \/ s.who \in overtaken
                            \/ s.no < told[s.who].no
  /\ s.pc # "idle" /\ s.op \in {"request", "add"} => s.who \in belongs \cup excused

Noted(s) == s.pc \in {"announced", "deleted"} => s.no <= lastNotice

Fits(c, s) == TookNumber(c, s) /\ Noted(s) /\ KnowsRequest(c, s) /\ KnowsEmployee(s)

\* No notice in an inbox has a number that was never given.
NoticesKnown == \A e \in Employees : told[e].no <= lastNotice

\* Requests are told apart by their numbers, and only requests are decided.
Numbered ==
  /\ \A p, q \in requests : p.id = q.id => p = q
  /\ \A i \in Ids : (\A q \in requests : q.id # i) => verdicts[i] = 0

AskersBelong == \A q \in requests : q.status = "pending" => q.who \in belongs \cup excused

\* What a reader still waits for is below his cursor.
PagesGoDown ==
  \A r \in Readers : ~Closed(r) =>
    \A i \in reader[r].owed : reader[r].before = 0 \/ i < reader[r].before

\* The inductive invariant.
IInv ==
  /\ OneSeatOnePending /\ DecidedOnce /\ LastWordHolds
  /\ Numbered /\ NoticesKnown /\ AskersBelong /\ PagesGoDown
  /\ \A c \in Calls : Fits(c, call[c])

-----------------------------------------------------------------------------
(* A step that moves one call, and may take the number of a notice. *)

LEMMA CallMoves ==
  ASSUME IInv, lastNotice' \in 0 .. MaxNotices, lastNotice <= lastNotice',
         UNCHANGED <<belongs, members, requests, lastMember, lastRequest, told, reader, verdicts,
                     overtaken, excused>>,
         NEW c \in Calls, NEW s \in CallStates, call' = [call EXCEPT ![c] = s],
         TookNumber(c, s), KnowsRequest(c, s), KnowsEmployee(s),
         s.pc \in {"announced", "deleted"} => s.no <= lastNotice'
  PROVE  IInv'
  <1>1. TypeOK /\ call \in [Calls -> CallStates]
    BY DEF IInv, OneSeatOnePending, TypeOK
  <1>2. /\ call' \in [Calls -> CallStates]
        /\ call'[c] = s
        /\ \A d \in Calls : d # c => call'[d] = call[d]
    BY <1>1
  <1>3. TypeOK'
    BY <1>1, <1>2 DEF TypeOK
  <1>4. OneSeatOnePending' /\ DecidedOnce' /\ LastWordHolds' /\ Numbered' /\ AskersBelong' /\ PagesGoDown'
    BY <1>3 DEF IInv, OneSeatOnePending, DecidedOnce, LastWordHolds,
                is_project_member, Numbered, AskersBelong, PagesGoDown, Closed
  <1>5. NoticesKnown'
    BY <1>1 DEF IInv, NoticesKnown, TypeOK
  <1>6. Fits(c, call[c])'
    BY <1>2 DEF Fits, TookNumber, Noted, KnowsRequest, KnowsEmployee, InCall, Holds, is_project_member
  <1>7. ASSUME NEW d \in Calls, d # c
        PROVE  Fits(d, call[d])'
    <2>1. Fits(d, call[d]) /\ call'[d] = call[d]
      BY <1>2, <1>7 DEF IInv
    <2>2. TookNumber(d, call[d])'
      BY <1>2, <1>7, <2>1 DEF Fits, TookNumber, InCall
    <2>3. KnowsRequest(d, call[d])'
      <3>1. KnowsRequest(d, call[d]) /\ KnowsRequest(c, s)
        BY <2>1 DEF Fits
      <3>2. ASSUME Holds(d), Holds(c)', s.row = call[d].row
            PROVE  FALSE
        <4>1. s.pc # "idle" /\ s.pc # "lock" /\ s.op \in Decisions
          BY <1>2, <3>2 DEF Holds
        <4> QED
          BY <1>7, <3>1, <3>2, <4>1 DEF KnowsRequest
      <3>3. Holds(d)' = Holds(d)
        BY <2>1 DEF Holds
      <3>4. ASSUME call[d].pc # "idle", call[d].pc # "lock", call[d].op \in Decisions
            PROVE  Holds(d)
        <4>1. call[d] \in CallStates
          BY <1>1
        <4> QED
          BY <3>4, <4>1 DEF Holds, CallStates, CallOf, Idle, Decisions
      <3>5. ASSUME NEW e \in Calls \ {d}, call[d].pc # "idle", call[d].pc # "lock",
                   call[d].op \in Decisions, Holds(e)', call'[e].row = call[d].row
            PROVE  FALSE
        <4>1. CASE e = c
          BY <1>2, <3>2, <3>4, <3>5, <4>1
        <4>2. CASE e # c
          <5>1. call'[e] = call[e]
            BY <1>2, <4>2
          <5> QED
            BY <3>1, <3>5, <5>1 DEF KnowsRequest, Holds
        <4> QED
          BY <4>1, <4>2
      <3>6. call'[d] = call[d] /\ requests' = requests
        BY <2>1
      <3> QED
        BY <3>1, <3>5, <3>6 DEF KnowsRequest
    <2>4. KnowsEmployee(call[d])'
      BY <2>1 DEF Fits, KnowsEmployee, is_project_member
    <2>5. Noted(call[d])'
      <3>1. ASSUME call[d].pc \in {"announced", "deleted"}
            PROVE  call[d].no <= lastNotice'
        <4>1. call[d].no <= lastNotice
          BY <2>1, <3>1 DEF Fits, Noted
        <4>2. call[d].no \in 0 .. MaxNotices
          BY <1>1, <3>1 DEF CallStates, CallOf, Idle
        <4> QED
          BY <1>1, <4>1, <4>2 DEF TypeOK
      <3> QED
        BY <2>1, <3>1 DEF Noted
    <2> QED
      BY <2>2, <2>3, <2>4, <2>5 DEF Fits
  <1> QED
    BY <1>4, <1>5, <1>6, <1>7 DEF IInv

\* A step that moves one call and nothing else.
LEMMA CallOnly ==
  ASSUME IInv, UNCHANGED <<tables, reader, verdicts, overtaken, excused>>,
         NEW c \in Calls, NEW s \in CallStates, call' = [call EXCEPT ![c] = s], Fits(c, s)
  PROVE  IInv'
  <1>1. /\ UNCHANGED <<belongs, members, requests, lastMember, lastRequest, lastNotice, told, reader,
                       verdicts, overtaken, excused>>
        /\ lastNotice \in 0 .. MaxNotices
    BY DEF tables, IInv, OneSeatOnePending, TypeOK
  <1>2. /\ TookNumber(c, s) /\ KnowsRequest(c, s) /\ KnowsEmployee(s)
        /\ s.pc \in {"announced", "deleted"} => s.no <= lastNotice'
    BY <1>1 DEF Fits, Noted
  <1>3. lastNotice' \in 0 .. MaxNotices /\ lastNotice <= lastNotice'
    BY <1>1, BoundsArePositive
  <1> QED
    BY <1>1, <1>2, <1>3, CallMoves


LEMMA RefuseKeeps ==
  ASSUME IInv, NEW c \in Calls, Refuse(c)
  PROVE  IInv'
  <1>1. Idle \in CallStates
    BY DEF CallStates
  <1>2. Fits(c, Idle)
    BY DEF Idle, Fits, TookNumber, Noted, KnowsRequest, KnowsEmployee
  <1> QED
    BY <1>1, <1>2, CallOnly DEF Refuse, End

LEMMA ProceedKeeps ==
  ASSUME IInv, NEW c \in Calls, NEW pc, Proceed(c, pc),
         [call[c] EXCEPT !.pc = pc] \in CallStates, Fits(c, [call[c] EXCEPT !.pc = pc])
  PROVE  IInv'
  <1>1. call' = [call EXCEPT ![c] = [call[c] EXCEPT !.pc = pc]]
    BY DEF Proceed, Goto
  <1> QED
    BY <1>1, CallOnly DEF Proceed

LEMMA BeginKeeps ==
  ASSUME IInv, NEW c \in Calls, NEW op, NEW e \in Employees, NEW row, NEW pc, Begin(c, op, e, row, pc),
         \/ pc = "ask_member" /\ op \in {"request", "add"} /\ row = 0 /\ e \in belongs
         \/ pc = "delete" /\ op = "remove" /\ row = 0
         \/ /\ pc = "lock" /\ op \in Decisions /\ row \in Ids
            /\ \E q \in requests : q.id = row /\ q.who = e
  PROVE  IInv'
  <1> DEFINE s == [pc |-> pc, op |-> op, who |-> e, row |-> row]
  <1>1. s \in CallStates
    BY DEF CallStates, CallOf, Decisions
  <1>2. Fits(c, s)
    BY DEF Fits, TookNumber, Noted, KnowsRequest, KnowsEmployee, Decisions
  <1>3. call' = [call EXCEPT ![c] = s] /\ UNCHANGED <<tables, reader, verdicts, overtaken, excused>>
    BY DEF Begin
  <1> HIDE DEF s
  <1> QED
    BY <1>1, <1>2, <1>3, CallOnly

\* The request with a number is the one with that number.
LEMMA RequestFound ==
  ASSUME IInv, NEW q \in requests
  PROVE  Request(q.id) = q
  BY DEF Request, IInv, Numbered

LEMMA DecideKeeps ==
  ASSUME IInv, NEW c \in Calls, NEW i \in Ids, NEW status \in Decisions, Decide(c, i, status)
  PROVE  IInv'
  <1>1. PICK q \in requests : q.id = i
    BY DEF Decide
  <1>2. Request(i) = q /\ q.who \in Employees
    BY <1>1, RequestFound DEF IInv, OneSeatOnePending, TypeOK
  <1>3. Begin(c, status, q.who, i, "lock")
    BY <1>2 DEF Decide
  <1> QED
    BY <1>1, <1>2, <1>3, BeginKeeps

\* Who gets the row's lock finds the request as it stays until he is done.
LEMMA LockKeeps ==
  ASSUME IInv, NEW c \in Calls, Lock(c)
  PROVE  IInv'
  <1>1. call[c] \in CallStates /\ call[c].pc = "lock" /\ Fits(c, call[c])
    BY DEF IInv, OneSeatOnePending, TypeOK, Lock
  <1>2. call[c].op \in Decisions /\ call[c].row \in Ids /\ call[c].who \in Employees
    BY <1>1 DEF CallStates, CallOf, Idle, Decisions
  <1>3. PICK q \in requests : q.id = call[c].row /\ q.who = call[c].who
    BY <1>1, <1>2 DEF Fits, KnowsRequest
  <1>4. Request(call[c].row) = q /\ q.status \in Statuses
    BY <1>3, RequestFound DEF IInv, OneSeatOnePending, TypeOK
  <1>5. CASE Refuse(c)
    BY <1>5, RefuseKeeps
  <1>6. CASE call[c].op \in PROJECT_ACCESS_TRANSITIONS[q.status]
    <2> DEFINE pc == IF call[c].op = "approved" THEN "ask_member" ELSE "decide"
               s == [call[c] EXCEPT !.pc = pc]
    <2>1. q.status = "pending"
      BY <1>4, <1>6 DEF PROJECT_ACCESS_TRANSITIONS, Statuses
    <2>2. Proceed(c, pc) /\ RowFree(c)
      BY <1>4, <1>6 DEF Lock
    <2>3. s \in CallStates /\ s.op = call[c].op /\ s.who = call[c].who /\ s.row = call[c].row /\ s.pc = pc
      BY <1>1, <1>2 DEF CallStates, CallOf, Idle, Decisions
    <2>4. Fits(c, s)
      BY <1>2, <1>3, <2>1, <2>2, <2>3
         DEF Fits, TookNumber, Noted, KnowsRequest, KnowsEmployee, RowFree, Decisions
    <2> HIDE DEF pc
    <2> QED
      BY <2>2, <2>3, <2>4, ProceedKeeps
  <1> QED
    BY <1>4, <1>5, <1>6 DEF Lock

LEMMA AskKeeps ==
  ASSUME IInv, NEW c \in Calls, AskMember(c) \/ AskPending(c)
  PROVE  IInv'
  <1>1. call[c] \in CallStates /\ Fits(c, call[c])
    BY DEF IInv, OneSeatOnePending, TypeOK
  <1>2. CASE Refuse(c)
    BY <1>2, RefuseKeeps
  <1>3. ASSUME NEW pc, Proceed(c, pc),
               \/ call[c].op \in {"request", "add", "approved"} /\ pc = "insert"
               \/ call[c].op = "request" /\ pc = "ask_pending"
               \/ call[c].op = "approved" /\ pc = "decide" /\ is_project_member(call[c].who),
               call[c].pc \in {"ask_member", "ask_pending"}
        PROVE  IInv'
    <2> DEFINE s == [call[c] EXCEPT !.pc = pc]
    <2>1. s \in CallStates /\ s.op = call[c].op /\ s.who = call[c].who /\ s.row = call[c].row /\ s.pc = pc
      BY <1>1, <1>3 DEF CallStates, CallOf, Idle
    <2>2. Fits(c, s)
      BY <1>1, <1>3, <2>1 DEF Fits, TookNumber, Noted, KnowsRequest, KnowsEmployee
    <2> QED
      BY <1>3, <2>1, <2>2, ProceedKeeps
  <1>4. CASE AskMember(c)
    <2>1. call[c].pc = "ask_member" /\ call[c].op \in {"request", "add", "approved"}
      BY <1>1, <1>4 DEF AskMember, CallStates, CallOf, Idle
    <2>2. CASE ~is_project_member(call[c].who)
      <3>1. Proceed(c, IF call[c].op = "request" THEN "ask_pending" ELSE "insert")
        BY <1>4, <2>2 DEF AskMember
      <3> QED
        BY <1>3, <2>1, <3>1
    <2>3. CASE is_project_member(call[c].who) /\ call[c].op = "approved"
      BY <1>3, <1>4, <2>1, <2>3 DEF AskMember
    <2>4. CASE is_project_member(call[c].who) /\ call[c].op # "approved"
      BY <1>2, <1>4, <2>4 DEF AskMember
    <2> QED
      BY <2>2, <2>3, <2>4
  <1>5. CASE AskPending(c)
    BY <1>2, <1>3, <1>5 DEF AskPending, InCall
  <1> QED
    BY <1>4, <1>5

-----------------------------------------------------------------------------
(* An INSERT takes its number. *)

LEMMA StartGrantKeeps ==
  ASSUME IInv, NEW c \in Calls, StartGrant(c)
  PROVE  IInv'
  <1>1. TypeOK /\ call[c] \in CallStates /\ Fits(c, call[c])
    BY DEF IInv, OneSeatOnePending, TypeOK
  <1>2. call[c].pc = "insert" /\ call[c].op \in {"add", "approved"} /\ lastMember < MaxId
    BY DEF StartGrant
  <1> DEFINE s == [pc |-> "inserted", op |-> call[c].op, who |-> call[c].who,
                   row |-> call[c].row, id |-> lastMember + 1]
  <1>3. lastMember + 1 \in Ids /\ lastMember + 1 <= MaxId
    BY <1>1, <1>2, BoundsArePositive DEF TypeOK, Ids
  <1>4. call[c].who \in Employees /\ call[c].row \in 0 .. MaxId
    BY <1>1, <1>2, BoundsArePositive DEF CallStates, CallOf, Idle, Ids
  <1>5. s \in CallStates
    BY <1>2, <1>3, <1>4 DEF CallStates
  <1>6. /\ call' = [call EXCEPT ![c] = s]
        /\ lastMember' = lastMember + 1
        /\ UNCHANGED <<belongs, members, requests, lastRequest, lastNotice, told, reader, verdicts, overtaken, excused>>
    BY DEF StartGrant
  <1> HIDE DEF s
  <1>7. /\ call' \in [Calls -> CallStates] /\ call'[c] = s
        /\ \A d \in Calls : d # c => call'[d] = call[d]
    BY <1>1, <1>5, <1>6 DEF TypeOK
  <1>8. OneSeatOnePending'
    <2>1. TypeOK'
      <3>1. members \subseteq [id : 1 .. lastMember', who : Employees]
        BY <1>1, <1>6 DEF TypeOK
      <3>2. lastMember' \in 0 .. MaxId
        BY <1>1, <1>3, <1>6 DEF TypeOK
      <3> QED
        BY <1>1, <1>6, <1>7, <3>1, <3>2 DEF TypeOK
    <2> QED
      BY <1>6, <2>1 DEF IInv, OneSeatOnePending
  <1>9. DecidedOnce' /\ LastWordHolds' /\ Numbered' /\ NoticesKnown' /\ AskersBelong' /\ PagesGoDown'
    BY <1>6 DEF IInv, DecidedOnce, LastWordHolds, is_project_member, Numbered, NoticesKnown, AskersBelong,
                PagesGoDown, Closed
  <1>10. /\ s.pc = "inserted" /\ s.op = call[c].op /\ s.who = call[c].who /\ s.row = call[c].row
         /\ s.id = lastMember + 1
    BY DEF s
  <1>11. ASSUME NEW d \in Calls
         PROVE  Fits(d, call[d])'
    <2>1. Fits(d, call[d])
      BY DEF IInv
    <2>2. \A b \in Calls : Holds(b)' = Holds(b) /\ call'[b].row = call[b].row
      BY <1>2, <1>7, <1>10 DEF Holds, Decisions
    <2>3. KnowsRequest(d, call[d])'
      <3>1. \A b \in Calls : call'[b].op = call[b].op /\ call'[b].who = call[b].who
        BY <1>7, <1>10
      <3>2. /\ call'[d].pc # "idle" => call[d].pc # "idle"
            /\ call'[d].pc # "lock" => call[d].pc # "lock"
        BY <1>2, <1>7
      <3> QED
        BY <1>6, <2>1, <2>2, <3>1, <3>2 DEF Fits, KnowsRequest
    <2>4. CASE d = c
      <3>1. TookNumber(c, call[c])'
        BY <1>1, <1>2, <1>3, <1>6, <1>7, <1>10 DEF TookNumber, TypeOK
      <3>2. KnowsEmployee(call[c])'
        BY <1>1, <1>2, <1>6, <1>7, <1>10 DEF Fits, KnowsEmployee
      <3> QED
        BY <1>7, <1>10, <2>3, <2>4, <3>1, <3>2 DEF Fits, Noted
    <2>5. CASE d # c
      <3>1. call'[d] = call[d]
        BY <1>7, <2>5
      <3>2. TookNumber(d, call[d])'
        <4>1. ASSUME call[d].pc = "inserted", call[d].op \in {"add", "approved"}
              PROVE  call[d].id <= lastMember'
          <5>1. call[d].id <= lastMember /\ call[d] \in CallStates
            BY <1>1, <2>1, <4>1 DEF Fits, TookNumber, TypeOK
          <5>2. call[d].id \in Ids
            BY <4>1, <5>1 DEF CallStates, CallOf, Idle
          <5> QED
            BY <1>1, <1>6, <5>1, <5>2 DEF Ids, TypeOK
        <4>2. \A b \in Calls : InCall(b, "request", "inserted")' = InCall(b, "request", "inserted")
          BY <1>2, <1>7, <1>10 DEF InCall
        <4> QED
          BY <1>6, <2>1, <2>2, <3>1, <4>1, <4>2 DEF Fits, TookNumber
      <3>3. KnowsEmployee(call[d])' /\ Noted(call[d])'
        BY <1>6, <2>1, <3>1 DEF Fits, KnowsEmployee, Noted, is_project_member
      <3> QED
        BY <2>3, <3>2, <3>3 DEF Fits
    <2> QED
      BY <2>4, <2>5
  <1> QED
    BY <1>8, <1>9, <1>11 DEF IInv

LEMMA StartRequestKeeps ==
  ASSUME IInv, NEW c \in Calls, StartRequest(c)
  PROVE  IInv'
  <1>1. TypeOK /\ call[c] \in CallStates /\ Fits(c, call[c])
    BY DEF IInv, OneSeatOnePending, TypeOK
  <1>2. call[c].pc = "insert" /\ call[c].op = "request" /\ lastRequest < MaxId
    BY DEF StartRequest, InCall
  <1> DEFINE s == [call[c] EXCEPT !.pc = "inserted", !.row = lastRequest + 1]
  <1>3. lastRequest + 1 \in Ids /\ lastRequest + 1 <= MaxId
    BY <1>1, <1>2, BoundsArePositive DEF TypeOK, Ids
  <1>4. /\ s \in CallStates /\ s.pc = "inserted" /\ s.op = "request" /\ s.who = call[c].who
        /\ s.row = lastRequest + 1
    <2>1. call[c] \in CallOf("request", {"ask_member", "ask_pending", "insert"}, {0})
      BY <1>1, <1>2 DEF CallStates, CallOf, Idle
    <2>2. s \in CallOf("request", {"inserted"}, Ids) /\ s.who = call[c].who
      BY <1>3, <2>1 DEF CallOf
    <2> QED
      BY <2>2 DEF CallStates, CallOf
  <1>5. /\ call' = [call EXCEPT ![c] = s]
        /\ lastRequest' = lastRequest + 1
        /\ UNCHANGED <<belongs, members, requests, lastMember, lastNotice, told, reader, verdicts, overtaken, excused>>
    BY <1>1 DEF StartRequest, TypeOK
  <1> HIDE DEF s
  <1>6. /\ call' \in [Calls -> CallStates] /\ call'[c] = s
        /\ \A d \in Calls : d # c => call'[d] = call[d]
    BY <1>1, <1>4, <1>5 DEF TypeOK
  <1>7. \A q \in requests : q.id \in Nat /\ q.id <= lastRequest
    BY <1>1 DEF TypeOK
  <1>8. OneSeatOnePending'
    <2>1. TypeOK'
      <3>1. requests \subseteq [id : 1 .. lastRequest', who : Employees, status : Statuses]
        BY <1>1, <1>5 DEF TypeOK
      <3>2. lastRequest' \in 0 .. MaxId
        BY <1>1, <1>3, <1>5 DEF TypeOK
      <3> QED
        BY <1>1, <1>5, <1>6, <3>1, <3>2 DEF TypeOK
    <2> QED
      BY <1>5, <2>1 DEF IInv, OneSeatOnePending
  <1>9. DecidedOnce' /\ LastWordHolds' /\ Numbered' /\ NoticesKnown' /\ AskersBelong' /\ PagesGoDown'
    BY <1>5 DEF IInv, DecidedOnce, LastWordHolds, is_project_member, Numbered, NoticesKnown, AskersBelong,
                PagesGoDown, Closed
  <1>10. ASSUME NEW d \in Calls, InCall(d, "request", "inserted")
         PROVE  call[d].row \in Ids /\ call[d].row <= lastRequest
    <2>1. call[d] \in CallStates /\ Fits(d, call[d])
      BY <1>1 DEF IInv, TypeOK
    <2> QED
      BY <1>10, <2>1 DEF Fits, TookNumber, InCall, CallStates, CallOf, Idle
  <1>11. lastRequest \in Nat
    BY <1>1 DEF TypeOK
  <1>12. ASSUME NEW d \in Calls
         PROVE  Fits(d, call[d])'
    <2>1. Fits(d, call[d])
      BY DEF IInv
    <2>2. CASE d = c
      <3>1. TookNumber(c, call[c])'
        <4>1. \A b \in Calls \ {c} : ~(InCall(b, "request", "inserted")' /\ call'[b].row = s.row)
          BY <1>4, <1>6, <1>10, <1>11 DEF InCall, Ids
        <4> QED
          BY <1>4, <1>5, <1>6, <1>7, <1>11, <4>1 DEF TookNumber
      <3>2. KnowsRequest(c, call[c])' /\ KnowsEmployee(call[c])'
        BY <1>1, <1>2, <1>4, <1>5, <1>6 DEF Fits, KnowsRequest, KnowsEmployee, Decisions
      <3> QED
        BY <1>4, <1>6, <2>2, <3>1, <3>2 DEF Fits, Noted
    <2>3. CASE d # c
      <3>1. call'[d] = call[d]
        BY <1>6, <2>3
      <3>2. ASSUME InCall(d, "request", "inserted")
            PROVE  /\ call[d].row <= lastRequest'
                   /\ \A b \in Calls \ {d} : ~(InCall(b, "request", "inserted")' /\ call'[b].row = call[d].row)
        <4>1. call[d].row \in Ids /\ call[d].row <= lastRequest
          BY <1>10, <3>2
        <4>2. call[d].row <= lastRequest' /\ call[d].row # s.row
          BY <1>4, <1>5, <1>11, <4>1 DEF Ids
        <4> QED
          BY <1>6, <2>1, <3>2, <4>2 DEF Fits, TookNumber, InCall
      <3>3. TookNumber(d, call[d])'
        BY <1>5, <2>1, <3>1, <3>2 DEF Fits, TookNumber, InCall
      <3>4. \A b \in Calls : Holds(b)' => Holds(b) /\ call'[b].row = call[b].row
        BY <1>4, <1>6 DEF Holds, Decisions
      <3>5. KnowsRequest(d, call[d])'
        BY <1>5, <2>1, <3>1, <3>4 DEF Fits, KnowsRequest
      <3>6. KnowsEmployee(call[d])' /\ Noted(call[d])'
        BY <1>5, <2>1, <3>1 DEF Fits, KnowsEmployee, Noted, is_project_member
      <3> QED
        BY <3>3, <3>5, <3>6 DEF Fits
    <2> QED
      BY <2>2, <2>3
  <1> QED
    BY <1>8, <1>9, <1>12 DEF IInv

-----------------------------------------------------------------------------
(* A call that ends with its write. *)

LEMMA Ended ==
  ASSUME TypeOK, NEW c \in Calls, End(c)
  PROVE  /\ call' \in [Calls -> CallStates]
         /\ call'[c] = Idle
         /\ \A d \in Calls : d # c => call'[d] = call[d]
         /\ Fits(c, call[c])'
  <1>1. /\ call' \in [Calls -> CallStates]
        /\ call'[c] = Idle
        /\ \A d \in Calls : d # c => call'[d] = call[d]
    BY DEF TypeOK, End, CallStates
  <1>2. Fits(c, call[c])'
    BY <1>1 DEF Idle, Fits, TookNumber, Noted, KnowsRequest, KnowsEmployee
  <1> QED
    BY <1>1, <1>2

\* What the others know is still so, if the write did this at most: changed
\* the request that c holds, added one with the number that c took, removed
\* nobody an approval has seen without noting it, or with the later word.
LEMMA OthersKeep ==
  ASSUME IInv, NEW c \in Calls, NEW d \in Calls, d # c, End(c),
         lastMember' = lastMember, lastRequest' = lastRequest, lastNotice' \in {lastNotice, lastNotice + 1},
         \A q \in requests : \E p \in requests' :
           /\ p.id = q.id /\ p.who = q.who
           /\ p.status = q.status \/ (Holds(c) /\ q.id = call[c].row),
         \A p \in requests' :
           \/ \E q \in requests : q.id = p.id
           \/ InCall(c, "request", "inserted") /\ p.id = call[c].row,
         InCall(d, "approved", "decide") =>
           (\E m \in members' : m.who = call[d].who) \/ call[d].who \in overtaken',
         InCall(d, "approved", "announced") =>
           \/ \E m \in members' : m.who = call[d].who
           \/ call[d].who \in overtaken'
           \/ call[d].no < told'[call[d].who].no,
         belongs \cup excused \subseteq belongs' \cup excused'
  PROVE  Fits(d, call[d])'
  <1>1. TypeOK /\ Fits(d, call[d]) /\ call[d] \in CallStates
    BY DEF IInv, OneSeatOnePending, TypeOK
  <1>2. call'[d] = call[d] /\ call'[c] = Idle /\ \A b \in Calls : b # c => call'[b] = call[b]
    BY <1>1, Ended
  <1>3. \A b \in Calls : InCall(b, "request", "inserted")' =>
          InCall(b, "request", "inserted") /\ call'[b] = call[b]
    BY <1>2 DEF InCall, Idle
  <1>4. TookNumber(d, call[d])'
    BY <1>1, <1>2, <1>3 DEF Fits, TookNumber, InCall
  <1>5. \A b \in Calls : Holds(b)' => Holds(b) /\ call'[b] = call[b]
    BY <1>2 DEF Holds, Idle
  <1>6. ASSUME call[d].pc # "idle", call[d].op \in Decisions
        PROVE  \E p \in requests' : /\ p.id = call[d].row /\ p.who = call[d].who
                                    /\ call[d].pc # "lock" => p.status = "pending"
    <2>1. PICK q \in requests : /\ q.id = call[d].row /\ q.who = call[d].who
                                /\ call[d].pc # "lock" => q.status = "pending"
      BY <1>1, <1>6 DEF Fits, KnowsRequest
    <2>2. PICK p \in requests' : /\ p.id = q.id /\ p.who = q.who
                                 /\ p.status = q.status \/ (Holds(c) /\ q.id = call[c].row)
      OBVIOUS
    <2>3. call[d].pc # "lock" => ~(Holds(c) /\ q.id = call[c].row)
      BY <1>1, <1>6, <2>1 DEF Fits, KnowsRequest
    <2> QED
      BY <2>1, <2>2, <2>3
  <1>7. KnowsRequest(d, call[d])'
    BY <1>1, <1>2, <1>5, <1>6 DEF Fits, KnowsRequest
  <1>8. KnowsEmployee(call[d])'
    <2>1. call[d].pc = "announced" => call[d].op = "approved"
      BY <1>1 DEF CallStates, CallOf, Idle
    <2> QED
      BY <1>1, <1>2, <2>1 DEF Fits, KnowsEmployee, InCall, is_project_member
  <1>9. Noted(call[d])'
    <2>1. ASSUME call[d].pc \in {"announced", "deleted"}
          PROVE  call[d].no <= lastNotice'
      <3>1. call[d].no <= lastNotice
        BY <1>1, <2>1 DEF Fits, Noted
      <3>2. call[d].no \in Nat /\ lastNotice \in Nat
        BY <1>1, <2>1, BoundsArePositive DEF CallStates, CallOf, Idle, TypeOK
      <3> QED
        BY <3>1, <3>2
    <2> QED
      BY <1>2, <2>1 DEF Noted
  <1> QED
    BY <1>4, <1>7, <1>8, <1>9 DEF Fits

LEMMA LandRequestKeeps ==
  ASSUME IInv, NEW c \in Calls, LandRequest(c)
  PROVE  IInv'
  <1>1. TypeOK /\ call[c] \in CallStates /\ Fits(c, call[c]) /\ InCall(c, "request", "inserted")
    BY DEF IInv, OneSeatOnePending, TypeOK, LandRequest
  <1>2. CASE Refuse(c)
    BY <1>2, RefuseKeeps
  <1>3. CASE ~Refuse(c)
    <2> DEFINE row == call[c].row
               new == [id |-> row, who |-> call[c].who, status |-> "pending"]
    <2>1. /\ requests' = requests \cup {new} /\ End(c) /\ ~find_pending(call[c].who)
          /\ UNCHANGED <<belongs, members, lastMember, lastRequest, lastNotice, told, reader, verdicts, overtaken, excused>>
      BY <1>3 DEF LandRequest, PendingTaken
    <2>2. /\ call[c].who \in Employees /\ row \in Ids
          /\ row <= lastRequest /\ (\A q \in requests : q.id # row)
          /\ call[c].who \in belongs \cup excused
      BY <1>1 DEF Fits, TookNumber, KnowsEmployee, InCall, CallStates, CallOf, Idle
    <2>3. new \in [id : 1 .. lastRequest, who : Employees, status : Statuses] /\ new.id = row
          /\ new.who = call[c].who /\ new.status = "pending"
      BY <1>1, <2>2 DEF Statuses, TypeOK, Ids
    <2> HIDE DEF new
    <2>4. TypeOK'
      BY <1>1, <2>1, <2>3, Ended DEF TypeOK
    <2>5. OneSeatOnePending'
      BY <2>1, <2>3, <2>4 DEF IInv, OneSeatOnePending, find_pending
    <2>6. Numbered' /\ DecidedOnce'
      <3>1. verdicts[row] = 0
        BY <2>2 DEF IInv, Numbered
      <3> QED
        BY <2>1, <2>2, <2>3, <3>1 DEF IInv, Numbered, DecidedOnce
    <2>7. AskersBelong' /\ NoticesKnown' /\ LastWordHolds' /\ PagesGoDown'
      BY <2>1, <2>2, <2>3 DEF IInv, AskersBelong, NoticesKnown, LastWordHolds, is_project_member, PagesGoDown, Closed
    <2>8. ASSUME NEW d \in Calls, d # c
          PROVE  Fits(d, call[d])'
      <3>1. InCall(d, "approved", "decide") =>
              (\E m \in members' : m.who = call[d].who) \/ call[d].who \in overtaken'
        BY <2>1 DEF IInv, Fits, KnowsEmployee, InCall, is_project_member
      <3>4. InCall(d, "approved", "announced") =>
              \/ \E m \in members' : m.who = call[d].who
              \/ call[d].who \in overtaken'
              \/ call[d].no < told'[call[d].who].no
        BY <2>1 DEF IInv, Fits, KnowsEmployee, InCall, is_project_member
      <3>2. \A q \in requests : \E p \in requests' :
              /\ p.id = q.id /\ p.who = q.who
              /\ p.status = q.status \/ (Holds(c) /\ q.id = call[c].row)
        BY <2>1
      <3>3. \A p \in requests' :
              \/ \E q \in requests : q.id = p.id
              \/ InCall(c, "request", "inserted") /\ p.id = call[c].row
        BY <1>1, <2>1, <2>3
      <3> QED
        BY <2>1, <2>8, <3>1, <3>2, <3>3, <3>4, OthersKeep
    <2> QED
      BY <1>1, <2>1, <2>5, <2>6, <2>7, <2>8, Ended DEF IInv
  <1> QED
    BY <1>2, <1>3

\* What a notice does to an inbox.
LEMMA Told ==
  ASSUME TypeOK, NEW e \in Employees, NEW n \in 0 .. MaxNotices, NEW what \in {"granted", "removed"}
  PROVE  /\ Tell(e, n, what) \in [Employees -> [no : 0 .. MaxNotices, word : {"nothing", "granted", "removed"}]]
         /\ Tell(e, n, what)[e] = IF told[e].no > n THEN told[e] ELSE [no |-> n, word |-> what]
         /\ \A f \in Employees : f # e => Tell(e, n, what)[f] = told[f]
  BY DEF TypeOK, Tell

\* A row that lands: its notice has the greatest number there is.
LEMMA RowLanded ==
  ASSUME IInv, NEW c \in Calls, call[c].pc = "inserted", call[c].op \in {"add", "approved"},
         ~is_project_member(call[c].who), LandRow(c)
  PROVE  /\ members' = members \cup {Row(c)} /\ Row(c).who = call[c].who
         /\ members' \subseteq [id : 1 .. lastMember, who : Employees]
         /\ \A m, n \in members' : m.who = n.who => m = n
         /\ told' \in [Employees -> [no : 0 .. MaxNotices, word : {"nothing", "granted", "removed"}]]
         /\ lastNotice' \in 0 .. MaxNotices /\ lastNotice' = lastNotice + 1
         /\ overtaken' \subseteq overtaken
         /\ NoticesKnown' /\ LastWordHolds'
         /\ \A d \in Calls :
              /\ InCall(d, "approved", "decide") =>
                   (\E m \in members' : m.who = call[d].who) \/ call[d].who \in overtaken'
              /\ InCall(d, "approved", "announced") =>
                   \/ \E m \in members' : m.who = call[d].who
                   \/ call[d].who \in overtaken'
                   \/ call[d].no < told'[call[d].who].no
  <1> DEFINE who == call[c].who
  <1>1. TypeOK /\ call[c] \in CallStates /\ Fits(c, call[c])
    BY DEF IInv, OneSeatOnePending, TypeOK
  <1>2. who \in Employees /\ call[c].id \in Ids /\ call[c].id <= lastMember
    BY <1>1 DEF Fits, TookNumber, CallStates, CallOf, Idle
  <1>3. /\ members' = members \cup {Row(c)}
        /\ lastNotice < MaxNotices /\ lastNotice' = lastNotice + 1
        /\ told' = Tell(who, lastNotice + 1, "granted")
        /\ overtaken' = overtaken \ {who}
    BY DEF LandRow, Grant
  <1>4. Row(c) \in [id : 1 .. lastMember, who : Employees] /\ Row(c).who = who
    BY <1>1, <1>2 DEF Row, TypeOK, Ids
  <1>5. lastNotice + 1 \in 0 .. MaxNotices /\ lastNotice \in Nat
    BY <1>1, <1>3, BoundsArePositive DEF TypeOK
  <1>6. /\ told' \in [Employees -> [no : 0 .. MaxNotices, word : {"nothing", "granted", "removed"}]]
        /\ told'[who] = IF told[who].no > lastNotice + 1 THEN told[who]
                        ELSE [no |-> lastNotice + 1, word |-> "granted"]
        /\ \A f \in Employees : f # who => told'[f] = told[f]
    BY <1>1, <1>2, <1>3, <1>5, Told
  <1>7. \A f \in Employees : told[f].no \in Nat /\ told[f].no <= lastNotice
    BY <1>1, BoundsArePositive DEF IInv, NoticesKnown, TypeOK
  <1>8. told'[who] = [no |-> lastNotice + 1, word |-> "granted"]
    BY <1>2, <1>5, <1>6, <1>7
  <1>9. members' \subseteq [id : 1 .. lastMember, who : Employees]
    BY <1>1, <1>3, <1>4 DEF TypeOK
  <1>10. \A m, n \in members' : m.who = n.who => m = n
    BY <1>3, <1>4 DEF IInv, OneSeatOnePending, is_project_member
  <1>11. NoticesKnown'
    BY <1>2, <1>3, <1>5, <1>6, <1>7, <1>8 DEF NoticesKnown
  <1>12. LastWordHolds'
    <2>1. ASSUME NEW e \in Employees \ overtaken'
          PROVE  (\E m \in members' : m.who = e) <=> told'[e].word = "granted"
      <3>1. CASE e = who
        BY <1>3, <1>4, <1>8, <3>1
      <3>2. CASE e # who
        <4>1. e \notin overtaken /\ told'[e] = told[e]
          BY <1>3, <1>6, <2>1, <3>2
        <4>2. (\E m \in members' : m.who = e) <=> is_project_member(e)
          BY <1>3, <1>4, <3>2 DEF is_project_member
        <4> QED
          BY <2>1, <4>1, <4>2 DEF IInv, LastWordHolds
      <3> QED
        BY <3>1, <3>2
    <2> QED
      BY <2>1 DEF LastWordHolds, is_project_member
  <1>13. ASSUME NEW d \in Calls
         PROVE  /\ InCall(d, "approved", "decide") =>
                     (\E m \in members' : m.who = call[d].who) \/ call[d].who \in overtaken'
                /\ InCall(d, "approved", "announced") =>
                     \/ \E m \in members' : m.who = call[d].who
                     \/ call[d].who \in overtaken'
                     \/ call[d].no < told'[call[d].who].no
    <2>1. CASE call[d].who = who
      BY <1>3, <1>4, <2>1
    <2>2. CASE call[d].who # who
      <3>1. KnowsEmployee(call[d]) /\ call[d] \in CallStates
        BY <1>1 DEF IInv, Fits, TypeOK
      <3>2. call[d].pc # "idle" => call[d].who \in Employees
        BY <3>1 DEF CallStates, CallOf, Idle
      <3>3. call[d].pc # "idle" => told'[call[d].who] = told[call[d].who]
        BY <1>6, <2>2, <3>2
      <3> QED
        BY <1>3, <2>2, <3>1, <3>3 DEF KnowsEmployee, InCall, is_project_member
    <2> QED
      BY <2>1, <2>2
  <1> QED
    BY <1>3, <1>4, <1>5, <1>6, <1>9, <1>10, <1>11, <1>12, <1>13

LEMMA LandMemberKeeps ==
  ASSUME IInv, NEW c \in Calls, LandMember(c)
  PROVE  IInv'
  <1>1. TypeOK /\ InCall(c, "add", "inserted")
    BY DEF IInv, OneSeatOnePending, TypeOK, LandMember
  <1>2. CASE Refuse(c)
    BY <1>2, RefuseKeeps
  <1>3. CASE ~Refuse(c)
    <2>1. /\ LandRow(c) /\ End(c) /\ ~is_project_member(call[c].who)
          /\ UNCHANGED <<belongs, requests, lastMember, lastRequest, reader, verdicts, excused>>
      BY <1>3 DEF LandMember, SeatTaken, LandRow
    <2>2. call[c].pc = "inserted" /\ call[c].op \in {"add", "approved"}
      BY <1>1 DEF InCall
    <2>3. /\ members' \subseteq [id : 1 .. lastMember, who : Employees]
          /\ \A m, n \in members' : m.who = n.who => m = n
          /\ told' \in [Employees -> [no : 0 .. MaxNotices, word : {"nothing", "granted", "removed"}]]
          /\ lastNotice' \in 0 .. MaxNotices /\ lastNotice' = lastNotice + 1
          /\ overtaken' \subseteq overtaken
          /\ NoticesKnown' /\ LastWordHolds'
      BY <2>1, <2>2, RowLanded
    <2>4. TypeOK'
      BY <1>1, <2>1, <2>3, Ended DEF TypeOK
    <2>5. OneSeatOnePending'
      BY <2>1, <2>3, <2>4 DEF IInv, OneSeatOnePending
    <2>6. Numbered' /\ DecidedOnce' /\ AskersBelong' /\ PagesGoDown'
      BY <2>1 DEF IInv, Numbered, DecidedOnce, AskersBelong, PagesGoDown, Closed
    <2>7. ASSUME NEW d \in Calls, d # c
          PROVE  Fits(d, call[d])'
      <3>1. /\ InCall(d, "approved", "decide") =>
                 (\E m \in members' : m.who = call[d].who) \/ call[d].who \in overtaken'
            /\ InCall(d, "approved", "announced") =>
                 \/ \E m \in members' : m.who = call[d].who
                 \/ call[d].who \in overtaken'
                 \/ call[d].no < told'[call[d].who].no
        BY <2>1, <2>2, RowLanded
      <3> QED
        BY <2>1, <2>3, <2>7, <3>1, OthersKeep
    <2> QED
      BY <1>1, <2>1, <2>3, <2>5, <2>6, <2>7, Ended DEF IInv
  <1> QED
    BY <1>2, <1>3

\* A decision ends: its request, pending until now, has its answer.
LEMMA RequestSettled ==
  ASSUME IInv, NEW c \in Calls, Holds(c), Settled(c), belongs' = belongs, excused' = excused
  PROVE  /\ requests' \subseteq [id : 1 .. lastRequest, who : Employees, status : Statuses]
         /\ verdicts' \in [Ids -> Nat]
         /\ \A p, q \in requests' : p.who = q.who /\ p.status = "pending" /\ q.status = "pending" => p = q
         /\ Numbered' /\ DecidedOnce' /\ AskersBelong'
         /\ \A p \in requests : \E p2 \in requests' :
              /\ p2.id = p.id /\ p2.who = p.who
              /\ p2.status = p.status \/ (Holds(c) /\ p.id = call[c].row)
         /\ \A p2 \in requests' : \E p \in requests : p.id = p2.id
  <1> DEFINE who == call[c].who
             row == call[c].row
  <1>1. TypeOK /\ Fits(c, call[c]) /\ call[c].op \in Decisions
    BY DEF IInv, OneSeatOnePending, Holds
  <1>2. requests' = Decided(c) /\ verdicts' = [verdicts EXCEPT ![row] = @ + 1]
    BY DEF Settled
  <1>3. PICK q \in requests : q.id = row /\ q.who = who /\ q.status = "pending"
    BY <1>1 DEF Fits, KnowsRequest, Holds
  <1>4. row \in Ids
    BY <1>1, <1>3, BoundsArePositive DEF TypeOK, Ids
  <1> DEFINE new == [q EXCEPT !.status = call[c].op]
  <1>6. /\ new \in [id : 1 .. lastRequest, who : Employees, status : Statuses]
        /\ new.id = row /\ new.who = who /\ new.status = call[c].op /\ new.status # "pending"
    BY <1>1, <1>3 DEF TypeOK, Decisions, Statuses
  <1>7. requests' = (requests \ {q}) \cup {new}
    <2>1. \A p \in requests : p.id = row <=> p = q
      BY <1>3 DEF IInv, Numbered
    <2> QED
      BY <1>2, <2>1 DEF Decided
  <1> HIDE DEF new
  <1>8. requests' \subseteq [id : 1 .. lastRequest, who : Employees, status : Statuses]
    BY <1>1, <1>6, <1>7 DEF TypeOK
  <1>9. verdicts' \in [Ids -> Nat]
    BY <1>1, <1>2, <1>4 DEF TypeOK
  <1>10. \A p, p2 \in requests' : p.who = p2.who /\ p.status = "pending" /\ p2.status = "pending" => p = p2
    BY <1>6, <1>7 DEF IInv, OneSeatOnePending
  <1>11. Numbered'
    <2>1. \A p, p2 \in requests' : p.id = p2.id => p = p2
      BY <1>3, <1>6, <1>7 DEF IInv, Numbered
    <2>2. ASSUME NEW i \in Ids, \A p \in requests' : p.id # i
          PROVE  verdicts'[i] = 0
      <3>1. i # row /\ \A p \in requests : p.id # i
        BY <1>3, <1>6, <1>7, <2>2
      <3> QED
        BY <1>1, <1>2, <3>1 DEF TypeOK, IInv, Numbered
    <2> QED
      BY <2>1, <2>2 DEF Numbered
  <1>12. DecidedOnce'
    <2>1. verdicts[row] = 0
      BY <1>3 DEF IInv, DecidedOnce
    <2>2. verdicts'[row] = 1 /\ \A i \in Ids \ {row} : verdicts'[i] = verdicts[i]
      BY <1>1, <1>2, <1>4, <2>1 DEF TypeOK
    <2>3. ASSUME NEW p \in requests', p # new
          PROVE  p \in requests /\ p.id \in Ids \ {row}
      BY <1>1, <1>3, <1>7, <2>3, BoundsArePositive DEF TypeOK, Ids, IInv, Numbered
    <2> QED
      BY <1>6, <2>2, <2>3 DEF IInv, DecidedOnce
  <1>13. AskersBelong'
    BY <1>6, <1>7 DEF IInv, AskersBelong
  <1>14. \A p \in requests : \E p2 \in requests' :
           /\ p2.id = p.id /\ p2.who = p.who
           /\ p2.status = p.status \/ (Holds(c) /\ p.id = call[c].row)
    BY <1>3, <1>6, <1>7
  <1>15. \A p2 \in requests' : \E p \in requests : p.id = p2.id
    BY <1>3, <1>6, <1>7
  <1> QED
    BY <1>8, <1>9, <1>10, <1>11, <1>12, <1>13, <1>14, <1>15

LEMMA LandApprovalKeeps ==
  ASSUME IInv, NEW c \in Calls, LandApproval(c)
  PROVE  IInv'
  <1>1. TypeOK /\ call[c].pc = "inserted" /\ call[c].op = "approved" /\ Holds(c)
    BY DEF IInv, OneSeatOnePending, LandApproval, InCall, Holds, Decisions
  <1>2. /\ LandRow(c) /\ End(c) /\ Settled(c) /\ ~is_project_member(call[c].who)
        /\ UNCHANGED <<belongs, lastMember, lastRequest, reader, excused>>
    BY DEF LandApproval, SeatTaken, LandRow
  <1>3. /\ members' \subseteq [id : 1 .. lastMember, who : Employees]
        /\ \A m, n \in members' : m.who = n.who => m = n
        /\ told' \in [Employees -> [no : 0 .. MaxNotices, word : {"nothing", "granted", "removed"}]]
        /\ lastNotice' \in 0 .. MaxNotices /\ lastNotice' = lastNotice + 1
        /\ overtaken' \subseteq overtaken
        /\ NoticesKnown' /\ LastWordHolds'
    BY <1>1, <1>2, RowLanded
  <1>4. /\ requests' \subseteq [id : 1 .. lastRequest, who : Employees, status : Statuses]
        /\ verdicts' \in [Ids -> Nat]
        /\ \A p, q \in requests' : p.who = q.who /\ p.status = "pending" /\ q.status = "pending" => p = q
        /\ Numbered' /\ DecidedOnce' /\ AskersBelong'
    BY <1>1, <1>2, RequestSettled
  <1>5. TypeOK'
    BY <1>1, <1>2, <1>3, <1>4, Ended DEF TypeOK
  <1>6. OneSeatOnePending' /\ PagesGoDown'
    BY <1>2, <1>3, <1>4, <1>5 DEF IInv, OneSeatOnePending, PagesGoDown, Closed
  <1>7. ASSUME NEW d \in Calls, d # c
        PROVE  Fits(d, call[d])'
    <2>1. /\ InCall(d, "approved", "decide") =>
               (\E m \in members' : m.who = call[d].who) \/ call[d].who \in overtaken'
          /\ InCall(d, "approved", "announced") =>
               \/ \E m \in members' : m.who = call[d].who
               \/ call[d].who \in overtaken'
               \/ call[d].no < told'[call[d].who].no
      BY <1>1, <1>2, RowLanded
    <2>2. /\ \A p \in requests : \E p2 \in requests' :
               /\ p2.id = p.id /\ p2.who = p.who
               /\ p2.status = p.status \/ (Holds(c) /\ p.id = call[c].row)
          /\ \A p2 \in requests' : \E p \in requests : p.id = p2.id
      BY <1>1, <1>2, RequestSettled
    <2> QED
      BY <1>2, <1>3, <1>7, <2>1, <2>2, OthersKeep
  <1> QED
    BY <1>1, <1>2, <1>3, <1>4, <1>6, <1>7, Ended DEF IInv

\* An approval that finds the seat taken, and its notice.
LEMMA KeepRowKeeps ==
  ASSUME IInv, NEW c \in Calls, KeepRow(c)
  PROVE  IInv'
  <1> DEFINE s == [pc |-> "decide", op |-> call[c].op, who |-> call[c].who, row |-> call[c].row]
  <1>1. /\ call[c] \in CallStates /\ Fits(c, call[c]) /\ call[c].pc = "inserted"
        /\ call[c].op = "approved" /\ is_project_member(call[c].who)
    BY DEF IInv, OneSeatOnePending, TypeOK, KeepRow, InCall, SeatTaken
  <1>2. call[c].row \in Ids /\ call[c].who \in Employees
    <2>1. PICK q \in requests : q.id = call[c].row
      BY <1>1 DEF Fits, KnowsRequest, Decisions
    <2> QED
      BY <1>1, <2>1, BoundsArePositive DEF IInv, OneSeatOnePending, TypeOK, Ids, CallStates, CallOf, Idle
  <1>3. s \in CallStates
    BY <1>1, <1>2 DEF CallStates, CallOf
  <1>4. Fits(c, s)
    BY <1>1 DEF Fits, TookNumber, Noted, KnowsRequest, KnowsEmployee, Decisions
  <1>5. call' = [call EXCEPT ![c] = s] /\ UNCHANGED <<tables, reader, verdicts, overtaken, excused>>
    BY <1>1 DEF KeepRow, IInv, OneSeatOnePending, TypeOK
  <1> HIDE DEF s
  <1> QED
    BY <1>3, <1>4, <1>5, CallOnly

LEMMA AnnounceKeeps ==
  ASSUME IInv, NEW c \in Calls, Announce(c)
  PROVE  IInv'
  <1> DEFINE s == [pc |-> "announced", op |-> call[c].op, who |-> call[c].who, row |-> call[c].row,
                   no |-> lastNotice + 1]
  <1>1. /\ TypeOK /\ call[c] \in CallStates /\ Fits(c, call[c])
        /\ call[c].pc = "decide" /\ call[c].op = "approved" /\ lastNotice < MaxNotices
    BY DEF IInv, OneSeatOnePending, TypeOK, Announce, InCall
  <1>2. call[c].row \in Ids /\ call[c].who \in Employees
    BY <1>1 DEF CallStates, CallOf, Idle
  <1>3. lastNotice' \in 0 .. MaxNotices /\ lastNotice' = lastNotice + 1 /\ lastNotice <= lastNotice'
    BY <1>1, BoundsArePositive DEF TypeOK, Announce
  <1>4. s \in CallStates
    BY <1>1, <1>2, <1>3 DEF CallStates
  <1>5. TookNumber(c, s) /\ KnowsRequest(c, s) /\ KnowsEmployee(s)
    BY <1>1 DEF Fits, TookNumber, KnowsRequest, KnowsEmployee, Decisions
  <1>6. s.no <= lastNotice'
    BY <1>1, <1>3 DEF TypeOK
  <1>7. /\ call' = [call EXCEPT ![c] = s]
        /\ UNCHANGED <<belongs, members, requests, lastMember, lastRequest, told, reader, verdicts,
                       overtaken, excused>>
    BY <1>1 DEF Announce, TypeOK
  <1> HIDE DEF s
  <1> QED
    BY <1>3, <1>4, <1>5, <1>6, <1>7, CallMoves

\* The commit of a decision that adds nobody.
LEMMA SettleKeeps ==
  ASSUME IInv, NEW c \in Calls, Settle(c)
  PROVE  IInv'
  <1> DEFINE who == call[c].who
  <1>1. TypeOK /\ call[c] \in CallStates /\ Fits(c, call[c]) /\ Holds(c)
    BY DEF IInv, OneSeatOnePending, TypeOK, Settle, InCall, Holds, Decisions
  <1>2. /\ Settled(c) /\ End(c)
        /\ UNCHANGED <<belongs, members, lastMember, lastRequest, lastNotice, reader, overtaken, excused>>
    BY DEF Settle
  <1>3. who \in Employees /\ (call[c].pc = "announced" => call[c].no \in 0 .. MaxNotices /\ call[c].no <= lastNotice)
    BY <1>1 DEF Holds, CallStates, CallOf, Idle, Fits, Noted
  <1>4. \/ told' = told
        \/ /\ call[c].pc = "announced"
           /\ told' = Tell(who, call[c].no, "granted")
    BY DEF Settle, InCall
  <1>5. /\ told' \in [Employees -> [no : 0 .. MaxNotices, word : {"nothing", "granted", "removed"}]]
        /\ \A f \in Employees :
             \/ told'[f] = told[f]
             \/ /\ f = who /\ call[c].pc = "announced" /\ told'[f] = [no |-> call[c].no, word |-> "granted"]
                /\ ~(told[f].no > call[c].no)
    <2>1. CASE told' = told
      BY <1>1, <2>1 DEF TypeOK
    <2>2. CASE call[c].pc = "announced" /\ told' = Tell(who, call[c].no, "granted")
      <3>1. call[c].no \in 0 .. MaxNotices /\ "granted" \in {"granted", "removed"}
        BY <1>3, <2>2
      <3>2. /\ told' \in [Employees -> [no : 0 .. MaxNotices, word : {"nothing", "granted", "removed"}]]
            /\ told'[who] = IF told[who].no > call[c].no THEN told[who]
                            ELSE [no |-> call[c].no, word |-> "granted"]
            /\ \A f \in Employees : f # who => told'[f] = told[f]
        BY <1>1, <1>3, <2>2, <3>1, Told
      <3> QED
        BY <2>2, <3>2
    <2> QED
      BY <1>4, <2>1, <2>2
  <1>6. \A f \in Employees : told'[f].no >= told[f].no /\ told'[f].no <= lastNotice
    <2>1. \A f \in Employees : told[f].no \in Nat /\ told[f].no <= lastNotice
      BY <1>1, BoundsArePositive DEF IInv, NoticesKnown, TypeOK
    <2> QED
      BY <1>3, <1>5, <2>1
  <1>7. NoticesKnown'
    BY <1>2, <1>6 DEF NoticesKnown
  <1>8. LastWordHolds'
    <2>1. ASSUME NEW e \in Employees \ overtaken
          PROVE  is_project_member(e) <=> told'[e].word = "granted"
      <3>1. is_project_member(e) <=> told[e].word = "granted"
        BY DEF IInv, LastWordHolds
      <3>2. ASSUME told'[e] # told[e]
            PROVE  is_project_member(e) /\ told'[e].word = "granted"
        <4>1. /\ e = who /\ call[c].pc = "announced" /\ told'[e] = [no |-> call[c].no, word |-> "granted"]
              /\ ~(told[e].no > call[c].no)
          BY <1>5, <3>2
        <4>2. ~(call[c].no < told[who].no)
          BY <4>1
        <4> QED
          BY <1>1, <2>1, <4>1, <4>2 DEF Fits, KnowsEmployee
      <3> QED
        BY <3>1, <3>2
    <2> QED
      BY <1>2, <2>1 DEF LastWordHolds, is_project_member
  <1>9. /\ requests' \subseteq [id : 1 .. lastRequest, who : Employees, status : Statuses]
        /\ verdicts' \in [Ids -> Nat]
        /\ \A p, q \in requests' : p.who = q.who /\ p.status = "pending" /\ q.status = "pending" => p = q
        /\ Numbered' /\ DecidedOnce' /\ AskersBelong'
    BY <1>1, <1>2, RequestSettled
  <1>10. TypeOK'
    BY <1>1, <1>2, <1>5, <1>9, Ended DEF TypeOK
  <1>11. OneSeatOnePending' /\ PagesGoDown'
    BY <1>2, <1>9, <1>10 DEF IInv, OneSeatOnePending, PagesGoDown, Closed
  <1>12. ASSUME NEW d \in Calls, d # c
         PROVE  Fits(d, call[d])'
    <2>1. KnowsEmployee(call[d]) /\ call[d] \in CallStates
      BY <1>1 DEF IInv, Fits, TypeOK
    <2>2. InCall(d, "approved", "decide") =>
            (\E m \in members' : m.who = call[d].who) \/ call[d].who \in overtaken'
      BY <1>2, <2>1 DEF KnowsEmployee, InCall, is_project_member
    <2>3. ASSUME InCall(d, "approved", "announced"), call[d].no < told[call[d].who].no
          PROVE  call[d].no < told'[call[d].who].no
      <3>1. call[d].who \in Employees /\ call[d].no \in Nat
        BY <2>1, <2>3, BoundsArePositive DEF InCall, CallStates, CallOf, Idle
      <3>2. told[call[d].who].no \in Nat /\ told'[call[d].who].no \in Nat
        BY <1>1, <1>5, <3>1, BoundsArePositive DEF TypeOK
      <3> QED
        BY <1>6, <2>3, <3>1, <3>2
    <2>4. InCall(d, "approved", "announced") =>
            \/ \E m \in members' : m.who = call[d].who
            \/ call[d].who \in overtaken'
            \/ call[d].no < told'[call[d].who].no
      BY <1>2, <2>1, <2>3 DEF KnowsEmployee, InCall, is_project_member
    <2>5. /\ \A p \in requests : \E p2 \in requests' :
               /\ p2.id = p.id /\ p2.who = p.who
               /\ p2.status = p.status \/ (Holds(c) /\ p.id = call[c].row)
          /\ \A p2 \in requests' : \E p \in requests : p.id = p2.id
      BY <1>1, <1>2, RequestSettled
    <2> QED
      BY <1>2, <1>12, <2>2, <2>4, <2>5, OthersKeep
  <1>13. Fits(c, call[c])'
    BY <1>1, <1>2, Ended
  <1>14. Numbered' /\ DecidedOnce' /\ AskersBelong'
    BY <1>9
  <1>15. \A d \in Calls : Fits(d, call[d])'
    BY <1>12, <1>13
  <1> QED
    BY <1>7, <1>8, <1>11, <1>14, <1>15 DEF IInv

\* A removal: its DELETE with the number of its notice, and its commit.
LEMMA DeleteKeeps ==
  ASSUME IInv, NEW c \in Calls, Delete(c)
  PROVE  IInv'
  <1> DEFINE s == [pc |-> "deleted", op |-> call[c].op, who |-> call[c].who, row |-> call[c].row,
                   no |-> lastNotice + 1]
  <1>1. /\ TypeOK /\ call[c] \in CallStates /\ call[c].pc = "delete"
    BY DEF IInv, OneSeatOnePending, TypeOK, Delete
  <1>2. CASE Refuse(c)
    BY <1>2, RefuseKeeps
  <1>3. CASE ~Refuse(c)
    <2>1. lastNotice < MaxNotices /\ lastNotice' = lastNotice + 1
      BY <1>3 DEF Delete
    <2>2. call[c].row = 0 /\ call[c].op = "remove" /\ call[c].who \in Employees
      BY <1>1 DEF CallStates, CallOf, Idle
    <2>3. lastNotice' \in 0 .. MaxNotices /\ lastNotice <= lastNotice'
      BY <1>1, <2>1, BoundsArePositive DEF TypeOK
    <2>4. s \in CallStates
      BY <2>1, <2>2, <2>3 DEF CallStates
    <2>5. TookNumber(c, s) /\ KnowsRequest(c, s) /\ KnowsEmployee(s)
      BY <2>2 DEF TookNumber, KnowsRequest, KnowsEmployee, Decisions
    <2>6. s.no <= lastNotice'
      BY <1>1, <2>1 DEF TypeOK
    <2>7. /\ call' = [call EXCEPT ![c] = s]
          /\ UNCHANGED <<belongs, members, requests, lastMember, lastRequest, told, reader, verdicts,
                         overtaken, excused>>
      BY <1>1, <1>3 DEF Delete, TypeOK
    <2> HIDE DEF s
    <2> QED
      BY <2>3, <2>4, <2>5, <2>6, <2>7, CallMoves
  <1> QED
    BY <1>2, <1>3

LEMMA RemoveKeeps ==
  ASSUME IInv, NEW c \in Calls, Remove(c)
  PROVE  IInv'
  <1> DEFINE who == call[c].who
             no == call[c].no
  <1>1. TypeOK /\ call[c] \in CallStates /\ Fits(c, call[c]) /\ call[c].pc = "deleted"
    BY DEF IInv, OneSeatOnePending, TypeOK, Remove, InCall
  <1>2. who \in Employees /\ no \in 0 .. MaxNotices /\ no <= lastNotice
    BY <1>1 DEF CallStates, CallOf, Idle, Fits, Noted
  <1>3. /\ members' = {m \in members : m.who # who}
        /\ told' = Tell(who, no, "removed")
        /\ overtaken' = IF HasLastWord(c) THEN overtaken \ {who} ELSE overtaken \cup {who}
        /\ End(c)
        /\ UNCHANGED <<belongs, requests, lastMember, lastRequest, lastNotice, reader, verdicts, excused>>
    BY DEF Remove, delete_member
  <1>4. /\ told' \in [Employees -> [no : 0 .. MaxNotices, word : {"nothing", "granted", "removed"}]]
        /\ told'[who] = IF told[who].no > no THEN told[who] ELSE [no |-> no, word |-> "removed"]
        /\ \A f \in Employees : f # who => told'[f] = told[f]
    BY <1>1, <1>2, <1>3, Told
  <1>5. TypeOK'
    BY <1>1, <1>2, <1>3, <1>4, Ended DEF TypeOK
  <1>6. OneSeatOnePending'
    BY <1>3, <1>5 DEF IInv, OneSeatOnePending
  <1>7. NoticesKnown'
    BY <1>1, <1>2, <1>3, <1>4 DEF IInv, NoticesKnown
  <1>8. who \notin overtaken' => HasLastWord(c) /\ told'[who] = [no |-> no, word |-> "removed"]
    <2>1. ASSUME HasLastWord(c)
          PROVE  ~(told[who].no > no)
      <3>1. told[who].no < no /\ told[who].no \in Nat /\ no \in Nat
        BY <1>1, <1>2, <2>1, BoundsArePositive DEF HasLastWord, TypeOK
      <3> QED
        BY <3>1
    <2> QED
      BY <1>3, <1>4, <2>1
  <1>9. LastWordHolds'
    <2>1. ASSUME NEW e \in Employees \ overtaken'
          PROVE  (\E m \in members' : m.who = e) <=> told'[e].word = "granted"
      <3>1. CASE e = who
        BY <1>3, <1>8, <2>1, <3>1
      <3>2. CASE e # who
        <4>1. e \notin overtaken /\ told'[e] = told[e]
          BY <1>3, <1>4, <2>1, <3>2
        <4>2. (\E m \in members' : m.who = e) <=> is_project_member(e)
          BY <1>3, <3>2 DEF is_project_member
        <4> QED
          BY <2>1, <4>1, <4>2 DEF IInv, LastWordHolds
      <3> QED
        BY <3>1, <3>2
    <2> QED
      BY <2>1 DEF LastWordHolds, is_project_member
  <1>10. Numbered' /\ DecidedOnce' /\ AskersBelong' /\ PagesGoDown'
    BY <1>3 DEF IInv, Numbered, DecidedOnce, AskersBelong, PagesGoDown, Closed
  <1>11. ASSUME NEW d \in Calls, d # c
         PROVE  Fits(d, call[d])'
    <2>1. KnowsEmployee(call[d]) /\ call[d] \in CallStates
      BY <1>1 DEF IInv, Fits, TypeOK
    <2>2. /\ InCall(d, "approved", "decide") =>
               (\E m \in members' : m.who = call[d].who) \/ call[d].who \in overtaken'
          /\ InCall(d, "approved", "announced") =>
               \/ \E m \in members' : m.who = call[d].who
               \/ call[d].who \in overtaken'
               \/ call[d].no < told'[call[d].who].no
      <3>1. CASE call[d].who = who
        BY <1>8, <3>1 DEF HasLastWord
      <3>2. CASE call[d].who # who
        <4>1. call[d].pc # "idle" => told'[call[d].who] = told[call[d].who]
          BY <1>4, <2>1, <3>2 DEF CallStates, CallOf, Idle
        <4> QED
          BY <1>3, <2>1, <3>2, <4>1 DEF KnowsEmployee, InCall, is_project_member
      <3> QED
        BY <3>1, <3>2
    <2> QED
      BY <1>3, <1>11, <2>2, OthersKeep
  <1> QED
    BY <1>1, <1>3, <1>6, <1>7, <1>9, <1>10, <1>11, Ended DEF IInv

-----------------------------------------------------------------------------
(* People come and go, readers turn pages. *)

LEMMA OrganizationKeeps ==
  ASSUME IInv, NEW e \in Employees, Join(e) \/ Leave(e)
  PROVE  IInv'
  <1>1. TypeOK
    BY DEF IInv, OneSeatOnePending
  <1>2. /\ UNCHANGED <<members, requests, lastMember, lastRequest, lastNotice, told, call, reader, verdicts, overtaken>>
        /\ belongs' \subseteq Employees /\ excused' \subseteq Employees
    BY <1>1 DEF Join, Leave, TypeOK
  <1>3. \A f \in belongs \cup excused : f \in belongs' \cup excused' \/ (f = e /\ ~Asking(e))
    BY DEF Join, Leave
  <1>4. TypeOK'
    BY <1>1, <1>2 DEF TypeOK
  <1>5. /\ OneSeatOnePending' /\ DecidedOnce' /\ LastWordHolds' /\ Numbered' /\ NoticesKnown' /\ PagesGoDown'
    BY <1>2, <1>4 DEF IInv, OneSeatOnePending, DecidedOnce, LastWordHolds, is_project_member, Numbered,
                      NoticesKnown, PagesGoDown, Closed
  <1>6. AskersBelong'
    BY <1>2, <1>3 DEF IInv, AskersBelong, Asking, find_pending
  <1>7. ASSUME NEW c \in Calls
        PROVE  Fits(c, call[c])'
    <2>1. Fits(c, call[c])
      BY DEF IInv
    <2>2. TookNumber(c, call[c])' /\ Noted(call[c])' /\ KnowsRequest(c, call[c])'
      BY <1>2, <2>1 DEF Fits, TookNumber, Noted, KnowsRequest, InCall, Holds
    <2>3. KnowsEmployee(call[c])'
      BY <1>2, <1>3, <2>1 DEF Fits, KnowsEmployee, is_project_member, Asking
    <2> QED
      BY <2>2, <2>3 DEF Fits
  <1> QED
    BY <1>5, <1>6, <1>7 DEF IInv

LEMMA MatchingAreIds ==
  ASSUME TypeOK, NEW l \in Lists
  PROVE  Matching(l) \subseteq Ids
  <1>1. \A i \in 1 .. lastMember \cup 1 .. lastRequest : i \in Ids
    BY BoundsArePositive DEF TypeOK, Ids
  <1>2. l \in AllLists
    BY ListsAreKnown
  <1> QED
    BY <1>1, <1>2 DEF AllLists, Matching, list_members, list_by_project, list_by_employee, TypeOK

\* Only the readers move.
LEMMA ReadersOnly ==
  ASSUME IInv, UNCHANGED <<tables, call, verdicts, overtaken, excused>>,
         reader' \in [Readers -> {Nobody} \cup
           [pc : {"reading"}, list : Lists, before : 0 .. MaxId, owed : SUBSET Ids]],
         PagesGoDown'
  PROVE  IInv'
  <1>1. OneSeatOnePending' /\ DecidedOnce' /\ LastWordHolds' /\ Numbered' /\ NoticesKnown' /\ AskersBelong'
    BY DEF IInv, tables, OneSeatOnePending, TypeOK, DecidedOnce, LastWordHolds, is_project_member,
           Numbered, NoticesKnown, AskersBelong
  <1>2. ASSUME NEW c \in Calls
        PROVE  Fits(c, call[c])'
    <2>1. Fits(c, call[c])
      BY DEF IInv
    <2> QED
      BY <2>1 DEF tables, Fits, TookNumber, Noted, KnowsRequest, KnowsEmployee, InCall, Holds,
                   is_project_member
  <1> QED
    BY <1>1, <1>2 DEF IInv

LEMMA OpenKeeps ==
  ASSUME IInv, NEW r \in Readers, NEW l \in Lists, Open(r, l)
  PROVE  IInv'
  <1>1. TypeOK /\ Matching(l) \subseteq Ids
    BY MatchingAreIds DEF IInv, OneSeatOnePending
  <1> DEFINE opened == [pc |-> "reading", list |-> l, before |-> 0, owed |-> Matching(l)]
  <1>2. reader' = [reader EXCEPT ![r] = opened]
    BY DEF Open
  <1>3. opened \in [pc : {"reading"}, list : Lists, before : 0 .. MaxId, owed : SUBSET Ids]
        /\ opened.before = 0
    BY <1>1, BoundsArePositive
  <1> HIDE DEF opened
  <1>4. reader' \in [Readers -> {Nobody} \cup
          [pc : {"reading"}, list : Lists, before : 0 .. MaxId, owed : SUBSET Ids]]
    BY <1>1, <1>2, <1>3 DEF TypeOK
  <1>5. PagesGoDown'
    BY <1>1, <1>2, <1>3 DEF IInv, PagesGoDown, Closed, TypeOK
  <1> QED
    BY <1>4, <1>5, ReadersOnly DEF Open

\* What a page leaves out is further down than everything on it.
LEMMA PageIsOnTop ==
  ASSUME NEW B \in SUBSET Ids, NEW n \in Nat, NEW i \in Newest(B, n), NEW j \in B, j \notin Newest(B, n)
  PROVE  j < i
  <1> DEFINE Above(k) == {m \in B : m > k}
  <1>1. i \in B /\ Cardinality(Above(i)) < n /\ ~(Cardinality(Above(j)) < n)
    BY DEF Newest
  <1>2. i \in Int /\ j \in Int /\ B \subseteq Int
    BY <1>1, BoundsArePositive DEF Ids
  <1>3. IsFiniteSet(Ids)
    BY FS_Interval, BoundsArePositive DEF Ids
  <1>4. IsFiniteSet(Above(i))
    BY <1>3, FS_Subset
  <1>5. ASSUME i < j
        PROVE  FALSE
    <2>1. Above(j) \subseteq Above(i)
      <3>1. \A m \in B : m > j => m > i
        BY <1>2, <1>5
      <3> QED
        BY <3>1
    <2>2. Cardinality(Above(j)) <= Cardinality(Above(i)) /\ Cardinality(Above(j)) \in Nat
          /\ Cardinality(Above(i)) \in Nat
      BY <1>4, <2>1, FS_Subset, FS_CardinalityType
    <2> HIDE DEF Above
    <2> QED
      BY <1>1, <2>2
  <1> QED
    BY <1>1, <1>2, <1>5

LEMMA PageKeeps ==
  ASSUME IInv, NEW r \in Readers, NEW n \in 1 .. MaxLimit, Page(r, n)
  PROVE  IInv'
  <1> DEFINE l == reader[r].list
             B == Below(Matching(l), reader[r].before)
             items == PageOf(l, reader[r].before, n)
  <1>1. /\ TypeOK /\ ~Closed(r)
        /\ reader[r] \in [pc : {"reading"}, list : Lists, before : 0 .. MaxId, owed : SUBSET Ids]
    BY DEF IInv, OneSeatOnePending, TypeOK, Page, Closed
  <1>2. Matching(l) \subseteq Ids /\ n \in Nat /\ items = Newest(B, n) /\ B \subseteq Ids
    BY <1>1, MatchingAreIds, BoundsArePositive DEF PageOf, Below
  <1>3. CASE reader' = [reader EXCEPT ![r] = Nobody]
    <2>1. reader' \in [Readers -> {Nobody} \cup
            [pc : {"reading"}, list : Lists, before : 0 .. MaxId, owed : SUBSET Ids]]
      BY <1>1, <1>3 DEF TypeOK
    <2>2. PagesGoDown'
      BY <1>1, <1>3 DEF IInv, PagesGoDown, Closed, TypeOK
    <2> QED
      BY <2>1, <2>2, ReadersOnly DEF Page
  <1>4. ASSUME NEW i \in Ids, NextCursor(i, items),
               reader' = [reader EXCEPT ![r].before = i, ![r].owed = (@ \cap Matching(l)) \ items]
        PROVE  IInv'
    <2> DEFINE turned == [reader[r] EXCEPT !.before = i, !.owed = (@ \cap Matching(l)) \ items]
    <2>1. reader' = [reader EXCEPT ![r] = turned]
      BY <1>1, <1>4 DEF TypeOK
    <2>2. /\ turned \in [pc : {"reading"}, list : Lists, before : 0 .. MaxId, owed : SUBSET Ids]
          /\ turned.before = i /\ turned.owed = (reader[r].owed \cap Matching(l)) \ items
      <3>1. i \in 0 .. MaxId
        BY BoundsArePositive DEF Ids
      <3>2. (reader[r].owed \cap Matching(l)) \ items \in SUBSET Ids
        BY <1>1
      <3> HIDE DEF items
      <3> QED
        BY <1>1, <3>1, <3>2
    <2>3. ASSUME NEW j \in turned.owed
          PROVE  j < i
      <3>1. j \in reader[r].owed /\ j \in Matching(l) /\ j \notin Newest(B, n)
        BY <1>2, <2>2, <2>3
      <3>2. j \in B
        BY <1>1, <3>1 DEF Below, IInv, PagesGoDown
      <3>3. i \in Newest(B, n)
        BY <1>2, <1>4 DEF NextCursor
      <3> QED
        BY <1>2, <3>1, <3>2, <3>3, PageIsOnTop
    <2> HIDE DEF turned
    <2>4. reader' \in [Readers -> {Nobody} \cup
            [pc : {"reading"}, list : Lists, before : 0 .. MaxId, owed : SUBSET Ids]]
      BY <1>1, <2>1, <2>2 DEF TypeOK
    <2>5. PagesGoDown'
      BY <1>1, <2>1, <2>2, <2>3 DEF IInv, PagesGoDown, Closed, TypeOK
    <2> QED
      BY <2>4, <2>5, ReadersOnly DEF Page
  <1> QED
    BY <1>3, <1>4 DEF Page

-----------------------------------------------------------------------------
LEMMA InitIInv ==
  Init => IInv
  <1> SUFFICES ASSUME Init
               PROVE  IInv
    OBVIOUS
  <1>1. TypeOK
    BY BoundsArePositive DEF Init, TypeOK, CallStates
  <1>2. \A c \in Calls : call[c] = Idle
    BY DEF Init
  <1>3. OneSeatOnePending /\ DecidedOnce /\ LastWordHolds /\ Numbered /\ NoticesKnown /\ AskersBelong
        /\ PagesGoDown
    BY <1>1 DEF Init, OneSeatOnePending, DecidedOnce, LastWordHolds, is_project_member, Numbered,
                NoticesKnown, AskersBelong, PagesGoDown, Closed
  <1>4. \A c \in Calls : Fits(c, call[c])
    BY <1>2 DEF Idle, Fits, TookNumber, Noted, KnowsRequest, KnowsEmployee
  <1> QED
    BY <1>3, <1>4 DEF IInv

LEMMA NextIInv ==
  IInv /\ [Next]_vars => IInv'
  <1> SUFFICES ASSUME IInv, [Next]_vars
               PROVE  IInv'
    OBVIOUS
  <1>1. CASE UNCHANGED vars
    <2>1. UNCHANGED <<tables, call, verdicts, overtaken, excused, reader>>
      BY <1>1 DEF vars, tables
    <2>2. PagesGoDown' /\ TypeOK
      BY <2>1 DEF IInv, OneSeatOnePending, PagesGoDown, Closed
    <2> QED
      BY <2>1, <2>2, ReadersOnly DEF TypeOK
  <1>2. ASSUME NEW c \in Calls, NEW e \in Employees,
               RequestAccess(c, e) \/ AddMember(c, e) \/ RemoveMember(c, e)
        PROVE  IInv'
    <2>1. CASE RequestAccess(c, e)
      BY <2>1, BeginKeeps DEF RequestAccess
    <2>2. CASE AddMember(c, e)
      BY <2>2, BeginKeeps DEF AddMember
    <2>3. CASE RemoveMember(c, e)
      BY <2>3, BeginKeeps DEF RemoveMember
    <2> QED
      BY <1>2, <2>1, <2>2, <2>3
  <1>3. ASSUME NEW c \in Calls, NEW i \in Ids, NEW s \in Decisions, Decide(c, i, s)
        PROVE  IInv'
    BY <1>3, DecideKeeps
  <1>4. ASSUME NEW c \in Calls, Continue(c)
        PROVE  IInv'
    BY <1>4, LockKeeps, AskKeeps, StartGrantKeeps, StartRequestKeeps, LandRequestKeeps, LandMemberKeeps,
       LandApprovalKeeps, KeepRowKeeps, AnnounceKeeps, SettleKeeps, DeleteKeeps, RemoveKeeps DEF Continue
  <1>5. ASSUME NEW c \in Calls, GiveUp(c)
        PROVE  IInv'
    BY <1>5, RefuseKeeps DEF GiveUp
  <1>6. ASSUME NEW e \in Employees, Join(e) \/ Leave(e)
        PROVE  IInv'
    BY <1>6, OrganizationKeeps
  <1>7. ASSUME NEW r \in Readers, (\E l \in Lists : Open(r, l)) \/ (\E n \in 1 .. MaxLimit : Page(r, n))
        PROVE  IInv'
    BY <1>7, OpenKeeps, PageKeeps
  <1> QED
    BY <1>1, <1>2, <1>3, <1>4, <1>5, <1>6, <1>7 DEF Next

\* Whatever calls and readers run at once: the tables, what the calls know of
\* them and where the readers are (projects, project_requests).
THEOREM Invariant == Spec => []IInv
  BY InitIInv, NextIInv, PTL DEF Spec

-----------------------------------------------------------------------------
(* The properties. *)

\* One seat and one pending request per employee (the unique indexes).
THEOREM SeatsAndQuestions == Spec => []OneSeatOnePending
  <1>1. IInv => OneSeatOnePending
    BY DEF IInv
  <1> QED
    BY <1>1, Invariant, PTL

\* A request is decided once, however many decide it at a time (_decide).
THEOREM OneAnswer == Spec => []DecidedOnce
  <1>1. IInv => DecidedOnce
    BY DEF IInv
  <1> QED
    BY <1>1, Invariant, PTL

\* What an employee's inbox says first about the project is true, unless he
\* was removed under an approval with the later number (add_member,
\* remove_member, _decide).
THEOREM LastWordIsTrue == Spec => []LastWordHolds
  <1>1. IInv => LastWordHolds
    BY DEF IInv
  <1> QED
    BY <1>1, Invariant, PTL

\* No page of a changing list leaves out a row that was there all along
\* (list_members, list_by_project, list_by_employee).
THEOREM PagesComplete == Spec => []PagesMissNothing
  <1>1. IInv => PagesMissNothing
    BY DEF IInv, PagesGoDown, PagesMissNothing
  <1> QED
    BY <1>1, Invariant, PTL

LEMMA NothingNew ==
  ASSUME members' = members, requests' = requests
  PROVE  (members' \ members) \cup {q \in requests' : \A p \in requests : p.id # q.id} = {}
  OBVIOUS

LEMMA Newcomers ==
  ASSUME IInv, Next
  PROVE  \A x \in (members' \ members) \cup {q \in requests' : \A p \in requests : p.id # q.id} :
           x.who \in belongs \cup excused
  <1>1. CASE members' = members /\ requests' = requests
    BY <1>1, NothingNew
  <1>2. ASSUME NEW c \in Calls, LandRequest(c), ~Refuse(c)
        PROVE  \A x \in (members' \ members) \cup {q \in requests' : \A p \in requests : p.id # q.id} :
                 x.who \in belongs \cup excused
    <2>1. members' = members
          /\ requests' = requests \cup {[id |-> call[c].row, who |-> call[c].who, status |-> "pending"]}
      BY <1>2 DEF LandRequest
    <2>2. call[c].who \in belongs \cup excused
      BY <1>2 DEF IInv, Fits, KnowsEmployee, LandRequest, InCall
    <2> QED
      BY <2>1, <2>2
  <1>3. ASSUME NEW c \in Calls, LandMember(c), ~Refuse(c)
        PROVE  \A x \in (members' \ members) \cup {q \in requests' : \A p \in requests : p.id # q.id} :
                 x.who \in belongs \cup excused
    <2>1. requests' = requests /\ members' = members \cup {Row(c)} /\ Row(c).who = call[c].who
      BY <1>3 DEF LandMember, LandRow, Grant, Row
    <2>2. call[c].who \in belongs \cup excused
      BY <1>3 DEF IInv, Fits, KnowsEmployee, LandMember, InCall
    <2> QED
      BY <2>1, <2>2
  <1>4. ASSUME NEW c \in Calls, LandApproval(c) \/ Settle(c)
        PROVE  \A x \in (members' \ members) \cup {q \in requests' : \A p \in requests : p.id # q.id} :
                 x.who \in belongs \cup excused
    <2>1. members' \subseteq members \cup {Row(c)} /\ Row(c).who = call[c].who
      BY <1>4 DEF LandApproval, Settle, LandRow, Grant, Row
    <2>2. \A x \in requests' : \E p \in requests : p.id = x.id
      <3>1. requests' = Decided(c) /\ TypeOK
        BY <1>4 DEF LandApproval, Settle, Settled, IInv, OneSeatOnePending
      <3>2. \A q \in requests : [q EXCEPT !.status = call[c].op].id = q.id
        BY <3>1 DEF TypeOK
      <3> QED
        BY <3>1, <3>2 DEF Decided
    <2>3. PICK q \in requests : q.who = call[c].who /\ q.status = "pending"
      BY <1>4 DEF LandApproval, Settle, InCall, Decisions, IInv, Fits, KnowsRequest
    <2>4. call[c].who \in belongs \cup excused
      BY <2>3 DEF IInv, AskersBelong
    <2> QED
      BY <2>1, <2>2, <2>4
  <1>5. ASSUME NEW c \in Calls, Continue(c) \/ GiveUp(c)
        PROVE  \/ members' = members /\ requests' = requests
               \/ (LandRequest(c) \/ LandMember(c)) /\ ~Refuse(c)
               \/ LandApproval(c) \/ Settle(c)
               \/ Remove(c)
    BY <1>5 DEF Continue, GiveUp, Refuse, tables, Lock, AskMember, AskPending, Proceed, StartGrant,
                StartRequest, KeepRow, Announce, Delete
  <1>6. ASSUME NEW c \in Calls, Remove(c)
        PROVE  members' \subseteq members /\ requests' = requests
    BY <1>6 DEF Remove, delete_member
  <1>7. CASE \E c \in Calls : Continue(c) \/ GiveUp(c)
    BY <1>1, <1>2, <1>3, <1>4, <1>5, <1>6, <1>7
  <1>8. CASE ~\E c \in Calls : Continue(c) \/ GiveUp(c)
    <2>1. members' = members /\ requests' = requests
      BY <1>8 DEF Next, RequestAccess, AddMember, RemoveMember, Decide, Begin, Join, Leave, Open, Page,
                  tables
    <2> QED
      BY <1>1, <2>1
  <1> QED
    BY <1>7, <1>8

\* Who gets on the project or asks for it belongs to the organization, or
\* left it while something of his was pending (request_access, add_member).
THEOREM NoStrangers == Spec => NewcomersBelong
  <1>1. ASSUME IInv, [Next]_vars
        PROVE  [\A x \in (members' \ members) \cup {q \in requests' : \A p \in requests : p.id # q.id} :
                  x.who \in belongs \cup excused]_vars
    BY <1>1, Newcomers
  <1> QED
    BY <1>1, Invariant, PTL DEF Spec, NewcomersBelong
=============================================================================
