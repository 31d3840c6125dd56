-------------------------- MODULE AppScreens_proofs --------------------------
(***************************************************************************)
(* Proofs about two screens of the app: the dialog that marks an expense   *)
(* paid (MarkPaid, for any set of dialogs) and the list of expenses        *)
(* (ExpenseList, for any people, any number of calls under way, any page   *)
(* size and any number of expenses).                                       *)
(*                                                                         *)
(* The dialog: the reimbursement is created once, so one dialog at most    *)
(* gets past the creation (Inv, second part), and once it is paid no       *)
(* request is accepted that would touch its status or its reference        *)
(* (third part, which ties a dialog's progress to the row).                *)
(*                                                                         *)
(* The list: three arguments over one invariant, ListInv.  A decision that *)
(* is shown is the server's, or that of one pending call, which owns its   *)
(* row until the answer is in.  Whoever a call was sent for is signed in,  *)
(* or left while it was under way.  A further page that was not crossed    *)
(* starts where the list ends, as only one is asked for at a time.         *)
(***************************************************************************)
EXTENDS MarkPaid, ExpenseList, WellFoundedInduction, TLAPS

-----------------------------------------------------------------------------
(* The payment dialogs. *)

\* The reimbursement this dialog works on is its own.
Beyond(d) ==
  \/ phase[d] \in {"process", "pay", "receipt", "done"}
  \/ phase[d] = "create" /\ request[d] = "granted"

\* The dialog's payment has been recorded.
PaidBy(d) ==
  \/ phase[d] \in {"receipt", "done"}
  \/ phase[d] = "pay" /\ request[d] = "granted"

OneBeyond == \A d, e \in Dialogs : Beyond(d) /\ Beyond(e) => d = e
BeyondIsCreated == \A d \in Dialogs : Beyond(d) => payout.status # "absent"
PaidByIsPaid ==
  \A d \in Dialogs : PaidBy(d) => payout.status = "paid" /\ payout.reference = d

\* The inductive invariant.
Inv == TypeOK /\ OneBeyond /\ BeyondIsCreated /\ PaidByIsPaid

Phases == Steps \cup {"open", "failed", "done"}

\* What one step of the row may do: it leaves "absent" for good, and a paid
\* row keeps its status and its reference.
Grows ==
  /\ payout.status # "absent" => payout'.status # "absent"
  /\ payout.status = "paid" =>
       payout'.status = "paid" /\ payout'.reference = payout.reference

-----------------------------------------------------------------------------
LEMMA InitInv == Init => Inv
  BY ReferenceAssumption
  DEF Init, Inv, TypeOK, OneBeyond, BeyondIsCreated, PaidByIsPaid, Beyond,
      PaidBy, Steps

\* An accepted request moves the row along create, process, pay, receipt.
LEMMA EffectGrows ==
  ASSUME TypeOK, NEW d \in Dialogs, NEW step \in Steps, Accepts(step),
         payout' = Effect(d, step)
  PROVE  /\ Grows
         /\ payout' \in [status : {"absent", "pending", "processing", "paid"},
                         reference : Dialogs \cup {NoReference}, receipt : BOOLEAN]
         /\ payout'.status = "paid" <=> payout'.reference # NoReference
         /\ payout'.status # "absent"
         /\ step = "create" => payout.status = "absent"
         /\ step = "pay" => payout'.status = "paid" /\ payout'.reference = d
  <1>1. CASE step = "create"
    BY <1>1, ReferenceAssumption DEF TypeOK, Accepts, Effect, Grows
  <1>2. CASE step = "process"
    BY <1>2, ReferenceAssumption DEF TypeOK, Accepts, Effect, Grows
  <1>3. CASE step = "pay"
    BY <1>3, ReferenceAssumption DEF TypeOK, Accepts, Effect, Grows
  <1>4. CASE step = "receipt"
    BY <1>4, ReferenceAssumption DEF TypeOK, Accepts, Effect, Grows
  <1> QED
    BY <1>1, <1>2, <1>3, <1>4 DEF Steps

\* A step of the row by which no dialog gets further keeps the invariant.
LEMMA RowStep ==
  ASSUME Inv, Grows, TypeOK',
         \A d \in Dialogs : Beyond(d)' => Beyond(d),
         \A d \in Dialogs : PaidBy(d)' => PaidBy(d)
  PROVE  Inv'
  <1>1. OneBeyond'
    BY DEF Inv, OneBeyond
  <1>2. BeyondIsCreated'
    BY DEF Inv, BeyondIsCreated, Grows
  <1>3. PaidByIsPaid'
    BY DEF Inv, PaidByIsPaid, Grows
  <1> QED
    BY <1>1, <1>2, <1>3 DEF Inv

LEMMA ConfirmKeeps ==
  ASSUME Inv, NEW d \in Dialogs, Confirm(d)
  PROVE  Inv'
  <1>1. TypeOK' /\ Grows
    BY DEF Inv, TypeOK, Confirm, Steps, Grows
  <1>2. ASSUME NEW e \in Dialogs
        PROVE  (Beyond(e)' => Beyond(e)) /\ (PaidBy(e)' => PaidBy(e))
    BY DEF Inv, TypeOK, Confirm, Beyond, PaidBy
  <1> QED
    BY <1>1, <1>2, RowStep

LEMMA GrantKeeps ==
  ASSUME Inv, NEW d \in Dialogs, Grant(d)
  PROVE  Inv'
  <1>1. phase[d] \in Steps /\ request[d] = "sent"
    BY DEF Inv, TypeOK, Grant
  <1>2. /\ Grows
        /\ payout' \in [status : {"absent", "pending", "processing", "paid"},
                        reference : Dialogs \cup {NoReference}, receipt : BOOLEAN]
        /\ payout'.status = "paid" <=> payout'.reference # NoReference
        /\ payout'.status # "absent"
        /\ phase[d] = "create" => payout.status = "absent"
        /\ phase[d] = "pay" => payout'.status = "paid" /\ payout'.reference = d
    BY <1>1, EffectGrows DEF Inv, Grant
  <1>3. TypeOK'
    BY <1>1, <1>2 DEF Inv, TypeOK, Grant, Steps
  <1>4. \A e \in Dialogs : e # d => Beyond(e)' = Beyond(e) /\ PaidBy(e)' = PaidBy(e)
    BY DEF Inv, TypeOK, Grant, Beyond, PaidBy
  <1>5. OneBeyond'
    <2>1. CASE phase[d] = "create"
      BY <1>2, <1>4, <2>1 DEF Inv, OneBeyond, BeyondIsCreated
    <2>2. CASE phase[d] # "create"
      <3>1. Beyond(d)' = Beyond(d)
        BY <2>2 DEF Inv, TypeOK, Grant, Beyond
      <3> QED
        BY <1>4, <3>1 DEF Inv, OneBeyond
    <2> QED
      BY <2>1, <2>2
  <1>6. BeyondIsCreated'
    BY <1>2 DEF BeyondIsCreated
  <1>7. PaidByIsPaid'
    <2>1. ASSUME NEW e \in Dialogs, PaidBy(e)', e # d
          PROVE  payout'.status = "paid" /\ payout'.reference = e
      BY <1>2, <1>4, <2>1 DEF Inv, PaidByIsPaid, Grows
    <2>2. ASSUME PaidBy(d)'
          PROVE  payout'.status = "paid" /\ payout'.reference = d
      <3>1. CASE phase[d] = "pay"
        BY <1>2, <3>1
      <3>2. CASE phase[d] # "pay"
        <4>1. PaidBy(d)
          BY <2>2, <3>2 DEF Inv, TypeOK, Grant, PaidBy
        <4> QED
          BY <1>2, <4>1 DEF Inv, PaidByIsPaid, Grows
      <3> QED
        BY <3>1, <3>2
    <2> QED
      BY <2>1, <2>2 DEF PaidByIsPaid
  <1> QED
    BY <1>3, <1>5, <1>6, <1>7 DEF Inv

LEMMA RefuseKeeps ==
  ASSUME Inv, NEW d \in Dialogs, Refuse(d)
  PROVE  Inv'
  <1>1. TypeOK' /\ Grows
    BY DEF Inv, TypeOK, Refuse, Steps, Grows
  <1>2. ASSUME NEW e \in Dialogs
        PROVE  (Beyond(e)' => Beyond(e)) /\ (PaidBy(e)' => PaidBy(e))
    BY DEF Inv, TypeOK, Refuse, Beyond, PaidBy
  <1> QED
    BY <1>1, <1>2, RowStep

LEMMA RunLateKeeps ==
  ASSUME Inv, NEW d \in Dialogs, NEW step \in Steps, RunLate(d, step)
  PROVE  Inv'
  <1>1. CASE payout' = payout
    <2>1. TypeOK' /\ Grows
      BY <1>1 DEF Inv, TypeOK, RunLate, Grows
    <2>2. ASSUME NEW e \in Dialogs
          PROVE  (Beyond(e)' => Beyond(e)) /\ (PaidBy(e)' => PaidBy(e))
      BY DEF RunLate, Beyond, PaidBy
    <2> QED
      BY <2>1, <2>2, RowStep
  <1>2. CASE Accepts(step) /\ payout' = Effect(d, step)
    <2>1. /\ Grows
          /\ payout' \in [status : {"absent", "pending", "processing", "paid"},
                          reference : Dialogs \cup {NoReference}, receipt : BOOLEAN]
          /\ payout'.status = "paid" <=> payout'.reference # NoReference
      BY <1>2, EffectGrows DEF Inv
    <2>2. TypeOK'
      BY <2>1 DEF Inv, TypeOK, RunLate
    <2>3. ASSUME NEW e \in Dialogs
          PROVE  (Beyond(e)' => Beyond(e)) /\ (PaidBy(e)' => PaidBy(e))
      BY DEF RunLate, Beyond, PaidBy
    <2> QED
      BY <2>1, <2>2, <2>3, RowStep
  <1> QED
    BY <1>1, <1>2 DEF RunLate

LEMMA HearKeeps ==
  ASSUME Inv, NEW d \in Dialogs, Hear(d)
  PROVE  Inv'
  <1>1. phase[d] \in Steps /\ request[d] \in {"granted", "refused"}
    BY DEF Inv, TypeOK, Hear
  <1>2. PICK next \in Phases \ {"open", "create"} :
          /\ GoTo(d, next)
          /\ next # "failed" => request[d] = "granted" \/ phase[d] = "receipt"
          /\ next \in {"receipt", "done"} => phase[d] \in {"pay", "receipt"}
    BY <1>1 DEF Hear, NextPhase, Steps, Phases
  <1>3. TypeOK' /\ Grows
    BY <1>2 DEF Inv, TypeOK, Hear, GoTo, Phases, Steps, Grows
  <1>4. ASSUME NEW e \in Dialogs
        PROVE  (Beyond(e)' => Beyond(e)) /\ (PaidBy(e)' => PaidBy(e))
    <2>1. CASE e = d
      BY <1>1, <1>2, <2>1 DEF Inv, TypeOK, GoTo, Beyond, PaidBy, Phases, Steps
    <2>2. CASE e # d
      BY <1>2, <2>2 DEF Inv, TypeOK, GoTo, Beyond, PaidBy
    <2> QED
      BY <2>1, <2>2
  <1> QED
    BY <1>3, <1>4, RowStep

LEMMA MissKeeps ==
  ASSUME Inv, NEW d \in Dialogs, Miss(d)
  PROVE  Inv'
  <1>1. phase[d] \in Steps
    BY DEF Inv, TypeOK, Miss
  <1>2. TypeOK' /\ Grows
    BY <1>1 DEF Inv, TypeOK, Miss, GoTo, Steps, Grows
  <1>3. ASSUME NEW e \in Dialogs
        PROVE  (Beyond(e)' => Beyond(e)) /\ (PaidBy(e)' => PaidBy(e))
    BY DEF Inv, TypeOK, Miss, GoTo, Beyond, PaidBy, Steps
  <1> QED
    BY <1>2, <1>3, RowStep

LEMMA NextKeeps == Inv /\ [Next]_vars => Inv'
  <1> SUFFICES ASSUME Inv, [Next]_vars
               PROVE  Inv'
    OBVIOUS
  <1>1. CASE UNCHANGED vars
    BY <1>1
    DEF vars, Inv, TypeOK, OneBeyond, BeyondIsCreated, PaidByIsPaid, Beyond, PaidBy
  <1>2. ASSUME NEW d \in Dialogs, Confirm(d)
        PROVE  Inv'
    BY <1>2, ConfirmKeeps
  <1>3. ASSUME NEW d \in Dialogs, Grant(d) \/ Refuse(d)
        PROVE  Inv'
    BY <1>3, GrantKeeps, RefuseKeeps
  <1>4. ASSUME NEW d \in Dialogs, NEW step \in Steps, RunLate(d, step)
        PROVE  Inv'
    BY <1>4, RunLateKeeps
  <1>5. ASSUME NEW d \in Dialogs, Hear(d) \/ Miss(d)
        PROVE  Inv'
    BY <1>5, HearKeeps, MissKeeps
  <1> QED
    BY <1>1, <1>2, <1>3, <1>4, <1>5 DEF Next

LEMMA InvHolds == Spec => []Inv
  BY InitInv, NextKeeps, PTL DEF Spec

-----------------------------------------------------------------------------
\* Every variable of the payment dialogs keeps its type, and a reference is
\* recorded exactly when the reimbursement is paid.
THEOREM DialogTypes == Spec => []TypeOK
  <1>1. Inv => TypeOK
    BY DEF Inv
  <1> QED
    BY <1>1, InvHolds, PTL

\* However many people confirm the payment of one expense, on however many
\* devices, and however requests are lost or late: a dialog that reports
\* success is the one whose transaction id is recorded.
THEOREM SuccessHolds == Spec => []SuccessIsTrue
  <1>1. Inv => SuccessIsTrue
    BY DEF Inv, PaidByIsPaid, PaidBy, SuccessIsTrue
  <1> QED
    BY <1>1, InvHolds, PTL

\* Of any number of dialogs one at most gets past the creation of the
\* reimbursement.
THEOREM OnePayerHolds == Spec => []OnePayerAtATime
  <1>1. Inv => OnePayerAtATime
    BY DEF Inv, OneBeyond, Beyond, OnePayerAtATime
  <1> QED
    BY <1>1, InvHolds, PTL

-----------------------------------------------------------------------------
(* The list of expenses: the invariant. *)

Reads == Fetches \cup {"more"}

\* The records a call goes through: a request of the user that writes, a page
\* asked for, a page on its way back.
PostCalls ==
  [op : Posts, pc : {"sent", "granted", "refused", "forgotten"}, by : People,
   about : DOMAIN server, at : Nat, before : Statuses \cup {""}]
AskedPages ==
  [op : Reads, pc : {"sent", "refused"}, by : People \cup {Nobody},
   about : {0} \cup DOMAIN server, at : {0}, before : {""}]
HeldPages == [op : Reads, pc : {"granted"}, by : People, page : Seq(Row)]

CallRecords == {Idle} \cup PostCalls \cup AskedPages \cup HeldPages

Typed ==
  /\ server \in Seq(Statuses)
  /\ user \in People \cup {Nobody}
  /\ shown \in Seq(Row)
  /\ cursor \in {0} \cup DOMAIN server
  /\ failed \in BOOLEAN /\ loadingMore \in BOOLEAN
  /\ outlived \cup left \subseteq People /\ crossed \subseteq Calls /\ torn \in BOOLEAN
  /\ DOMAIN call = Calls
  /\ \A c \in Calls : call[c] \in CallRecords

\* A decision whose row is still in the list.
Pending(c) == call[c].op \in Decisions /\ call[c].at # 0
\* A page on its way back.
Holds(c) == call[c].op \in Reads /\ call[c].pc = "granted"

\* A pending decision has a row of its own, which shows it, and which it can
\* give back.
PendingOwnsRow ==
  \A c \in Calls : Pending(c) =>
    /\ Waiting(c)
    /\ call[c].at \in DOMAIN shown
    /\ shown[call[c].at].id = call[c].about
    /\ shown[call[c].at].status = Target(call[c].op)
    /\ call[c].before \in Statuses /\ ~Locked(call[c].before)
OneDecisionPerRow ==
  \A c, d \in Calls : Pending(c) /\ Pending(d) /\ call[c].at = call[d].at => c = d
\* A decision the server granted stands.
GrantedIsMade ==
  \A c \in Calls : call[c].op \in Decisions /\ call[c].pc = "granted" =>
    server[call[c].about] = Target(call[c].op)
\* A row that shows a decision shows the one that was made; a decided expense
\* never changes, so a page stays true however late it arrives.
True(row) == Locked(row.status) => row.status = server[row.id]
PagesAreTrue ==
  \A c \in Calls : Holds(c) => \A i \in DOMAIN call[c].page : True(call[c].page[i])
ShownIsTrue == \A i \in DOMAIN shown : MadeOrUnderWay(i)

\* A call that waits belongs to the session, or to somebody who left before.
WaitersOutlive ==
  \A c \in Calls : Waiting(c) => call[c].by \in {user, Nobody} \cup outlived
PagesAreTheirs ==
  \A c \in Calls : Holds(c) => \A i \in DOMAIN call[c].page : call[c].page[i].by = call[c].by

\* The rows of a page run down from its first without a gap.
Descends(page) == \A i \in DOMAIN page : page[i].id + i = page[1].id + 1
Further(c) == Waiting(c) /\ call[c].op = "more"
\* loadingMore admits one further page at a time.
OneFurtherPage ==
  /\ \A c \in Calls : Further(c) => loadingMore
  /\ \A c, d \in Calls : Further(c) /\ Further(d) => c = d
PagesDescend == \A c \in Calls : Holds(c) => Descends(call[c].page)
\* A further page that was not crossed continues the list it was asked for.
FurtherPageFits ==
  \A c \in Calls : Further(c) /\ c \notin crossed =>
    /\ cursor # 0 /\ shown # << >>
    /\ call[c].pc = "sent" => call[c].about = cursor
    /\ call[c].pc = "granted" =>
         IF call[c].page = << >> THEN cursor = 1 ELSE call[c].page[1].id = cursor - 1
InView == user # Nobody /\ ~Entering /\ ~failed
\* Every row was read for the person signed in, or for one who left behind a
\* call or the list itself; while the list is in view, the list was replaced.
RowsHaveReaders ==
  \A i \in DOMAIN shown :
    /\ shown[i].by \in {user} \cup outlived \cup left
    /\ InView => shown[i].by \in {user} \cup outlived
\* An empty list that is in view has no further page to ask for.
EmptyListHasNoCursor == InView /\ shown = << >> => cursor = 0
\* HolesOnlyAfterTornPages, of the rows and in every state of the session.
NoHole ==
  ~torn /\ shown # << >> =>
    \A id \in DOMAIN server :
      (IF cursor = 0 THEN 1 ELSE cursor) <= id /\ id <= shown[1].id =>
        \E i \in DOMAIN shown : shown[i].id = id

\* The inductive invariant.
ListInv ==
  /\ Typed
  /\ PendingOwnsRow /\ OneDecisionPerRow /\ GrantedIsMade /\ PagesAreTrue /\ ShownIsTrue
  /\ WaitersOutlive /\ PagesAreTheirs /\ RowsHaveReaders
  /\ OneFurtherPage /\ PagesDescend /\ FurtherPageFits /\ EmptyListHasNoCursor /\ NoHole

-----------------------------------------------------------------------------
(* What a place, a page and a record are. *)

\* A set of numbers has a least one.
LEMMA HasLeast ==
  ASSUME NEW T \in SUBSET Nat, T # {}
  PROVE  \E x \in T : \A y \in T : x <= y
  <1> DEFINE R == OpToRel(<, Nat)
  <1>1. IsWellFoundedOn(R, Nat)
    BY NatLessThanWellFounded
  <1>2. PICK x \in T : \A y \in T : ~(<<y, x>> \in R)
    <2> HIDE DEF R
    <2> QED BY <1>1, WFMin
  <1>3. ASSUME NEW y \in T PROVE x <= y
    <2>1. <<y, x>> \notin R
      BY <1>2
    <2>2. ~(y < x)
      BY <2>1 DEF OpToRel
    <2> QED BY <2>2
  <1> QED BY <1>3

\* PlaceOf finds a row with the id, if there is one.
LEMMA PlaceFacts ==
  ASSUME shown \in Seq(Row), NEW id
  PROVE  /\ PlaceOf(id) # 0 <=> \E i \in DOMAIN shown : shown[i].id = id
         /\ PlaceOf(id) # 0 =>
              PlaceOf(id) \in DOMAIN shown /\ shown[PlaceOf(id)].id = id
  <1> DEFINE I == {i \in 1 .. Len(shown) : shown[i].id = id}
  <1>1. PlaceOf(id) = IF I # {} THEN Min(I) ELSE 0
    BY DEF PlaceOf, SelectInSeq
  <1>2. I # {} => Min(I) \in I
    <2>1. I \in SUBSET Nat
      OBVIOUS
    <2> HIDE DEF I
    <2>2. I # {} => \E x \in I : \A y \in I : x <= y
      BY <2>1, HasLeast
    <2> QED BY <2>2 DEF Min
  <1>3. DOMAIN shown = 1 .. Len(shown)
    OBVIOUS
  <1> QED BY <1>1, <1>2, <1>3

\* A page of the server is true, is its reader's, runs down from the cursor.
LEMMA PageFacts ==
  ASSUME server \in Seq(Statuses), NEW below \in {0} \cup DOMAIN server,
         NEW by \in People
  PROVE  /\ Page(below, by) \in Seq(Row)
         /\ \A i \in DOMAIN Page(below, by) :
              /\ True(Page(below, by)[i])
              /\ Page(below, by)[i].by = by
         /\ Descends(Page(below, by))
         /\ below # 0 => IF Page(below, by) = << >> THEN below = 1
                         ELSE Page(below, by)[1].id = below - 1
  <1> DEFINE top == IF below = 0 THEN Len(server) ELSE below - 1
             size == IF top < PageSize THEN top ELSE PageSize
             page == [i \in 1 .. size |->
                        [id |-> top + 1 - i, status |-> server[top + 1 - i], by |-> by]]
  <1>1. Page(below, by) = page
    BY DEF Page
  <1>2. /\ top \in 0 .. Len(server) /\ size \in 0 .. top
        /\ top # 0 => size # 0
        /\ below # 0 => below \in Nat /\ top = below - 1
        /\ DOMAIN server = 1 .. Len(server)
        /\ \A n \in 1 .. Len(server) : server[n] \in Statuses
    BY PageAssumption
  <1> HIDE DEF top, size
  <1>3. \A i \in 1 .. size : top + 1 - i \in 1 .. Len(server)
    BY <1>2
  <1>4. /\ DOMAIN page = 1 .. size
        /\ \A i \in 1 .. size : /\ page[i].id = top + 1 - i
                                /\ page[i].status = server[top + 1 - i]
                                /\ page[i].by = by
                                /\ page[i] \in Row
    BY <1>2, <1>3 DEF Row
  <1>5. page \in Seq(Row) /\ Len(page) = size
    <2>1. page \in [1 .. size -> Row]
      BY <1>4
    <2>2. size \in Nat
      BY <1>2
    <2> HIDE DEF page
    <2> QED BY <2>1, <2>2
  <1> HIDE DEF page
  <1>6. \A i \in 1 .. size : True(page[i])
    BY <1>4 DEF True
  <1>7. Descends(page)
    <2> SUFFICES ASSUME NEW i \in 1 .. size PROVE page[i].id + i = page[1].id + 1
      BY <1>4 DEF Descends
    <2>1. 1 \in 1 .. size
      BY <1>2
    <2>2. page[i].id = top + 1 - i /\ page[1].id = top + 1 - 1
      BY <1>4, <2>1
    <2> QED BY <1>2, <2>2
  <1>8. ASSUME below # 0
        PROVE  IF page = << >> THEN below = 1 ELSE page[1].id = below - 1
    <2>1. CASE page = << >>
      BY <1>2, <1>5, <1>8, <2>1
    <2>2. CASE page # << >>
      <3>1. size # 0 /\ 1 \in 1 .. size
        BY <1>2, <1>5, <2>2
      <3> QED BY <1>2, <1>4, <1>8, <2>2, <3>1
    <2> QED BY <2>1, <2>2
  <1> QED BY <1>1, <1>4, <1>5, <1>6, <1>7, <1>8

\* The operation and the progress of a call tell its record.
LEMMA RecordFacts ==
  ASSUME Typed, NEW c \in Calls
  PROVE  /\ call[c].op \in {"none"} \cup Posts \cup Reads
         /\ call[c].op = "none" <=> call[c] = Idle
         /\ call[c].op \in Posts => call[c] \in PostCalls
         /\ call[c].op \in Reads /\ call[c].pc # "granted" => call[c] \in AskedPages
         /\ call[c].op \in Reads /\ call[c].pc = "granted" => call[c] \in HeldPages
         /\ call[c].op \in Reads => call[c].pc \in {"sent", "granted", "refused"}
         /\ call[c].op # "none" => call[c].by \in People \cup {Nobody}
  <1>1. call[c] \in CallRecords
    BY DEF Typed
  <1>2. /\ "none" \notin Posts /\ "none" \notin Reads
        /\ \A op \in Posts : op \notin Reads
    BY DEF Posts, Reads, Decisions, Fetches
  <1>3. Idle.op = "none"
    BY DEF Idle
  <1>4. CASE call[c] = Idle
    BY <1>4 DEF Idle, Posts, Reads, Decisions, Fetches
  <1>5. CASE call[c] \in PostCalls
    <2>1. call[c].op \in Posts /\ call[c].by \in People
      BY <1>5 DEF PostCalls
    <2> QED BY <1>5, <1>2, <1>3, <2>1
  <1>6. CASE call[c] \in AskedPages
    <2>1. /\ call[c].op \in Reads /\ call[c].by \in People \cup {Nobody}
          /\ call[c].pc \in {"sent", "refused"}
      BY <1>6 DEF AskedPages
    <2> QED BY <1>6, <1>2, <1>3, <2>1
  <1>7. CASE call[c] \in HeldPages
    <2>1. call[c].op \in Reads /\ call[c].by \in People /\ call[c].pc = "granted"
      BY <1>7 DEF HeldPages
    <2> QED BY <1>7, <1>2, <1>3, <2>1
  <1> QED BY <1>1, <1>4, <1>5, <1>6, <1>7 DEF CallRecords

\* Records stay records when expenses are added.
LEMMA RecordsGrow ==
  ASSUME DOMAIN server \subseteq DOMAIN server'
  PROVE  CallRecords \subseteq CallRecords' /\ Row \subseteq Row' /\ Seq(Row) \subseteq Seq(Row')
  <1>1. Row \subseteq Row'
    BY DEF Row
  <1>2. Seq(Row) \subseteq Seq(Row')
    BY <1>1
  <1>3. PostCalls \subseteq PostCalls'
    BY DEF PostCalls
  <1>4. AskedPages \subseteq AskedPages'
    BY DEF AskedPages
  <1>5. HeldPages \subseteq HeldPages'
    BY <1>2 DEF HeldPages
  <1> QED BY <1>1, <1>2, <1>3, <1>4, <1>5 DEF CallRecords

\* A change of one row's status leaves the ids, the readers, the other rows.
LEMMA StatusFacts ==
  ASSUME shown \in Seq(Row), NEW at \in DOMAIN shown, NEW status \in Statuses,
         shown' = [shown EXCEPT ![at].status = status]
  PROVE  /\ shown' \in Seq(Row)
         /\ DOMAIN shown' = DOMAIN shown
         /\ \A i \in DOMAIN shown : /\ shown'[i].id = shown[i].id
                                    /\ shown'[i].by = shown[i].by
                                    /\ i # at => shown'[i] = shown[i]
         /\ shown'[at].status = status
         /\ shown' # << >>
  <1>1. DOMAIN shown = 1 .. Len(shown) /\ \A i \in DOMAIN shown : shown[i] \in Row
    OBVIOUS
  <1>2. \A i \in DOMAIN shown : [shown[i] EXCEPT !.status = status] \in Row
    BY <1>1 DEF Row
  <1>3. shown' = [i \in 1 .. Len(shown) |->
                    IF i = at THEN [shown[i] EXCEPT !.status = status] ELSE shown[i]]
    BY <1>1
  <1>4. \A i \in DOMAIN shown : shown'[i] \in Row
    BY <1>1, <1>2, <1>3
  <1>5. Len(shown) \in Nat /\ DOMAIN shown' = 1 .. Len(shown)
    BY <1>3
  <1>6. shown' \in Seq(Row)
    BY <1>1, <1>3, <1>4, <1>5
  <1>7. [shown[at] EXCEPT !.status = status].status = status
    BY <1>1 DEF Row
  <1> QED BY <1>1, <1>3, <1>5, <1>6, <1>7 DEF Row

-----------------------------------------------------------------------------
(* Steps that leave the list alone. *)

\* What the server never takes back.
ServerGrows ==
  /\ server' \in Seq(Statuses)
  /\ DOMAIN server \subseteq DOMAIN server'
  /\ \A id \in DOMAIN server : Locked(server[id]) => server'[id] = server[id]
  /\ \A id \in DOMAIN server' \ DOMAIN server : id > Len(server)

LEMMA ServerSame ==
  ASSUME Typed, server' = server
  PROVE  ServerGrows
  BY DEF ServerGrows, Typed

\* A review moves an open expense.
LEMMA MoveGrows ==
  ASSUME Typed, NEW id \in DOMAIN server, NEW op \in Posts,
         Moves(server[id], Target(op)), server' = [server EXCEPT ![id] = Target(op)]
  PROVE  ServerGrows /\ server'[id] = Target(op)
  <1>1. Target(op) \in Statuses
    BY DEF Target, Posts, Decisions, Statuses
  <1>2. DOMAIN server = 1 .. Len(server) /\ server \in Seq(Statuses)
    BY DEF Typed
  <1>3. server' \in Seq(Statuses) /\ DOMAIN server' = DOMAIN server /\ server'[id] = Target(op)
    BY <1>1, <1>2
  <1>4. ~Locked(server[id])
    BY DEF Moves, Locked
  <1>5. \A n \in DOMAIN server : n # id => server'[n] = server[n]
    BY <1>2
  <1> QED BY <1>3, <1>4, <1>5 DEF ServerGrows

LEMMA SubmitGrows ==
  ASSUME Typed, Submit
  PROVE  ServerGrows
  <1>1. server \in Seq(Statuses) /\ "pending" \in Statuses
    BY DEF Typed, Statuses
  <1>2. server' = Append(server, "pending")
    BY DEF Submit
  <1>3. /\ server' \in Seq(Statuses) /\ DOMAIN server' = 1 .. Len(server) + 1
        /\ DOMAIN server = 1 .. Len(server) /\ Len(server) \in Nat
        /\ \A id \in 1 .. Len(server) : server'[id] = server[id]
    BY <1>1, <1>2
  <1> QED BY <1>3 DEF ServerGrows

LEMMA TypedGrows ==
  ASSUME Typed, ServerGrows
  PROVE  /\ CallRecords \subseteq CallRecords' /\ Row \subseteq Row'
         /\ Seq(Row) \subseteq Seq(Row') /\ DOMAIN server \subseteq DOMAIN server'
  BY RecordsGrow DEF ServerGrows

LEMMA TrueStays ==
  ASSUME ServerGrows, NEW row \in Row, True(row)
  PROVE  True(row)'
  BY DEF ServerGrows, True, Row

LEMMA DecisionsLock ==
  ASSUME NEW op \in Decisions
  PROVE  op \in Posts /\ op \notin Reads /\ Target(op) \in Statuses /\ Locked(Target(op))
  BY DEF Decisions, Posts, Reads, Fetches, Target, Locked, Statuses

\* What a step that leaves the list alone may do to a call: a decision stays
\* pending, or is made; a page that comes back is one the server granted.
Quiet(c) ==
  /\ call'[c] \in CallRecords'
  /\ Pending(c)' => /\ Pending(c) /\ Waiting(c)'
                    /\ call'[c].op = call[c].op /\ call'[c].about = call[c].about
                    /\ call'[c].at = call[c].at /\ call'[c].before = call[c].before
  /\ Pending(c) => Pending(c)' \/ server'[call[c].about] = Target(call[c].op)
  /\ call'[c].op \in Decisions /\ call'[c].pc = "granted" =>
       server'[call'[c].about] = Target(call'[c].op)
  /\ Holds(c)' => /\ \A i \in DOMAIN call'[c].page :
                        True(call[c].page[i])' /\ call'[c].page[i].by = call'[c].by
                  /\ Descends(call[c].page)'
  /\ Waiting(c)' => call'[c].by \in {user, Nobody} \cup outlived
  /\ (Waiting(c) /\ call[c].op = "prime")' <=> (Waiting(c) /\ call[c].op = "prime")
  /\ Further(c)' =>
       /\ Further(c)
       /\ call'[c].pc = "sent" => call[c].pc = "sent" /\ call'[c].about = call[c].about
       /\ c \notin crossed /\ call'[c].pc = "granted" /\ call[c].pc = "sent" =>
            IF call'[c].page = << >> THEN call[c].about = 1
            ELSE call'[c].page[1].id = call[c].about - 1
       /\ call'[c].pc = "granted" /\ call[c].pc # "sent" => call'[c] = call[c]

\* Such a step keeps the invariant.
LEMMA QuietKeeps ==
  ASSUME ListInv, ServerGrows, NEW moved \in SUBSET Calls,
         DOMAIN call' = Calls, \A c \in Calls \ moved : call'[c] = call[c],
         \A c \in moved : Quiet(c),
         UNCHANGED <<user, shown, cursor, failed, loadingMore, history>>
  PROVE  ListInv'
  <1>1. Typed'
    BY TypedGrows DEF ListInv, Typed, history, ServerGrows, Quiet
  <1>2. PendingOwnsRow'
    BY DEF ListInv, PendingOwnsRow, Pending, Waiting, Quiet
  <1>3. OneDecisionPerRow'
    BY DEF ListInv, OneDecisionPerRow, Pending, Quiet
  <1>4. GrantedIsMade'
    <2> SUFFICES ASSUME NEW d \in Calls, d \notin moved,
                        call[d].op \in Decisions, call[d].pc = "granted"
                 PROVE  server'[call[d].about] = Target(call[d].op)
      BY DEF GrantedIsMade, Quiet
    <2>1. call[d].about \in DOMAIN server
      BY RecordFacts DEF ListInv, PostCalls, Posts
    <2>2. server[call[d].about] = Target(call[d].op)
      BY DEF ListInv, GrantedIsMade
    <2>3. Locked(Target(call[d].op))
      BY DecisionsLock
    <2> QED BY <2>1, <2>2, <2>3 DEF ServerGrows
  <1>5. PagesAreTrue'
    <2> SUFFICES ASSUME NEW d \in Calls, d \notin moved, Holds(d), NEW i \in DOMAIN call[d].page
                 PROVE  True(call[d].page[i])'
      BY DEF PagesAreTrue, Holds, Quiet
    <2>1. call[d].page \in Seq(Row)
      BY RecordFacts DEF ListInv, HeldPages, Holds
    <2>2. call[d].page[i] \in Row /\ True(call[d].page[i])
      BY <2>1 DEF ListInv, PagesAreTrue
    <2>3. PICK row \in Row : row = call[d].page[i] /\ True(row)
      BY <2>2
    <2>4. True(row)'
      BY <2>3, TrueStays
    <2> QED BY <2>3, <2>4 DEF True
  <1>6. ShownIsTrue'
    <2> SUFFICES ASSUME NEW i \in DOMAIN shown PROVE MadeOrUnderWay(i)'
      BY DEF ShownIsTrue
    <2>1. shown' = shown /\ shown[i] \in Row
      BY DEF ListInv, Typed
    <2>2. shown[i].id \in DOMAIN server
      BY <2>1 DEF Row
    <2>3. CASE ~Locked(shown[i].status)
      BY <2>1, <2>3 DEF MadeOrUnderWay
    <2>4. CASE Locked(shown[i].status) /\ shown[i].status = server[shown[i].id]
      BY <2>1, <2>2, <2>4 DEF MadeOrUnderWay, ServerGrows
    <2>5. ASSUME NEW d \in Calls, Pending(d), call[d].at = i
          PROVE  MadeOrUnderWay(i)'
      <3>1. shown[i].status = Target(call[d].op) /\ shown[i].id = call[d].about
        BY <2>5 DEF ListInv, PendingOwnsRow
      <3>2. CASE server'[call[d].about] = Target(call[d].op)
        BY <2>1, <3>1, <3>2 DEF MadeOrUnderWay
      <3>3. CASE Pending(d)' /\ Waiting(d)' /\ call'[d].at = i
        BY <3>3 DEF MadeOrUnderWay, Pending
      <3>4. CASE d \notin moved
        BY <2>5, <3>3, <3>4 DEF ListInv, PendingOwnsRow, Pending, Waiting
      <3>5. CASE d \in moved
        BY <2>5, <3>2, <3>3, <3>5 DEF Quiet
      <3> QED BY <3>4, <3>5
    <2>6. i # 0
      BY DEF ListInv, Typed
    <2>7. MadeOrUnderWay(i)
      BY DEF ListInv, ShownIsTrue
    <2> QED BY <2>3, <2>4, <2>5, <2>6, <2>7 DEF MadeOrUnderWay, Pending
  <1>7. WaitersOutlive'
    BY DEF ListInv, WaitersOutlive, Waiting, history, Quiet
  <1>8. PagesAreTheirs'
    BY DEF ListInv, PagesAreTheirs, Holds, Quiet
  <1>9. Entering' <=> Entering
    BY DEF Entering, Waiting, Quiet
  <1>10. RowsHaveReaders'
    BY <1>9 DEF ListInv, RowsHaveReaders, InView, history
  <1>11. OneFurtherPage'
    BY DEF ListInv, OneFurtherPage, Further, Waiting, Quiet
  <1>12. PagesDescend'
    BY DEF ListInv, PagesDescend, Holds, Descends, Quiet
  <1>13. FurtherPageFits'
    BY DEF ListInv, FurtherPageFits, Further, Waiting, history, Quiet
  <1>14. EmptyListHasNoCursor'
    BY <1>9 DEF ListInv, EmptyListHasNoCursor, InView
  <1>15. NoHole'
    <2>0. \A i \in DOMAIN shown : shown[i] \in Row
      BY DEF ListInv, Typed
    <2>1. \A i \in DOMAIN shown : shown[i].id \in DOMAIN server
      BY <2>0 DEF Row
    <2>2. shown # << >> => 1 \in DOMAIN shown
      BY DEF ListInv, Typed
    <2>3. DOMAIN server = 1 .. Len(server)
      BY DEF ListInv, Typed
    <2>4. server' \in Seq(Statuses) /\ DOMAIN server' = 1 .. Len(server')
      BY DEF ServerGrows
    <2>5. ASSUME NEW id \in DOMAIN server', id \notin DOMAIN server, shown # << >>
          PROVE  ~(id <= shown[1].id)
      BY <2>1, <2>2, <2>3, <2>4, <2>5 DEF ServerGrows
    <2> QED BY <2>5 DEF ListInv, NoHole, history
  <1> QED BY <1>1, <1>2, <1>3, <1>4, <1>5, <1>6, <1>7, <1>8, <1>10, <1>11, <1>12,
            <1>13, <1>14, <1>15 DEF ListInv

LEMMA SubmitKeeps == ASSUME ListInv, Submit PROVE ListInv'
  <1>1. ServerGrows
    BY SubmitGrows DEF ListInv
  <1>2. UNCHANGED <<call, user, shown, cursor, failed, loadingMore, history>>
    BY DEF Submit
  <1>3. DOMAIN call' = Calls
    BY <1>2 DEF ListInv, Typed
  <1>4. \A c \in {} : Quiet(c)
    OBVIOUS
  <1>5. {} \in SUBSET Calls /\ \A c \in Calls \ {} : call'[c] = call[c]
    BY <1>2
  <1> QED BY <1>1, <1>2, <1>3, <1>4, <1>5, QuietKeeps

LEMMA ReviewElsewhereKeeps ==
  ASSUME ListInv, NEW id \in DOMAIN server, NEW op \in Posts, ReviewElsewhere(id, op)
  PROVE  ListInv'
  <1>1. ServerGrows
    BY MoveGrows DEF ListInv, ReviewElsewhere
  <1>2. UNCHANGED <<call, user, shown, cursor, failed, loadingMore, history>>
    BY DEF ReviewElsewhere
  <1>3. DOMAIN call' = Calls
    BY <1>2 DEF ListInv, Typed
  <1>4. \A c \in {} : Quiet(c)
    OBVIOUS
  <1>5. {} \in SUBSET Calls /\ \A c \in Calls \ {} : call'[c] = call[c]
    BY <1>2
  <1> QED BY <1>1, <1>2, <1>3, <1>4, <1>5, QuietKeeps

\* A step that moves the call c alone.
LEMMA OneQuietCall ==
  ASSUME ListInv, ServerGrows, NEW c \in Calls, NEW record,
         call' = [call EXCEPT ![c] = record],
         call'[c] = record => Quiet(c),
         UNCHANGED <<user, shown, cursor, failed, loadingMore, history>>
  PROVE  ListInv'
  <1>1. DOMAIN call' = Calls /\ call'[c] = record /\ \A d \in Calls \ {c} : call'[d] = call[d]
    BY DEF ListInv, Typed
  <1>2. \A d \in {c} : Quiet(d)
    BY <1>1
  <1>3. {c} \in SUBSET Calls
    OBVIOUS
  <1> QED BY <1>1, <1>2, <1>3, QuietKeeps

LEMMA KindFacts ==
  /\ Reads \cap Posts = {} /\ Decisions \subseteq Posts /\ Fetches \subseteq Reads
  /\ "more" \in Reads /\ "more" \notin Fetches /\ "prime" \in Fetches
  /\ "fetch" \in Fetches
  /\ "none" \notin Reads /\ "none" \notin Posts /\ Idle.op = "none"
  BY DEF Reads, Posts, Decisions, Fetches, Idle

LEMMA ForgottenEnds ==
  ASSUME ListInv, NEW c \in Calls, call[c].pc = "forgotten", call'[c] = Idle
  PROVE  Quiet(c)
  <1>1. ~Waiting(c)
    BY DEF Waiting
  <1>2. ~Pending(c) /\ ~Further(c)
    BY <1>1 DEF ListInv, PendingOwnsRow, Further
  <1>3. call'[c] \in CallRecords'
    BY DEF CallRecords
  <1>4. ~Pending(c)' /\ ~Waiting(c)' /\ ~Holds(c)' /\ ~Further(c)' /\ call'[c].op \notin Decisions
    BY KindFacts DEF Pending, Waiting, Holds, Further
  <1> QED BY <1>1, <1>2, <1>3, <1>4 DEF Quiet

LEMMA RefuseCallKeeps ==
  ASSUME ListInv, NEW c \in Calls, call[c] # Idle, RefuseCall(c),
         UNCHANGED <<user, shown, cursor, failed, loadingMore, history>>
  PROVE  ListInv'
  <1>1. ServerGrows
    BY ServerSame DEF ListInv, RefuseCall
  <1>2. call[c].op # "none" /\ call[c].pc \in {"sent", "forgotten"}
    BY RecordFacts DEF ListInv, RefuseCall
  <1>3. CASE call[c].pc = "sent"
    <2> DEFINE record == [call[c] EXCEPT !.pc = "refused"]
    <2>1. call' = [call EXCEPT ![c] = record]
      BY <1>3 DEF RefuseCall
    <2>2. ASSUME call'[c] = record PROVE Quiet(c)
      <3>1. CASE call[c].op \in Posts
        <4>1. call[c] \in PostCalls
          BY <3>1, RecordFacts DEF ListInv
        <4>2. record \in PostCalls /\ record.pc = "refused" /\ record.op = call[c].op /\ record.by = call[c].by
              /\ record.about = call[c].about /\ record.at = call[c].at
              /\ record.before = call[c].before
          BY <4>1 DEF PostCalls
        <4> HIDE DEF record
        <4>3. call'[c] \in CallRecords'
          BY <2>2, <4>2, <1>1, TypedGrows DEF ListInv, CallRecords
        <4> QED BY <2>2, <3>1, <4>2, <4>3, <1>2, <1>3, KindFacts
                   DEF Quiet, Pending, Waiting, Holds, Further, ListInv, WaitersOutlive
      <3>2. CASE call[c].op \in Reads
        <4>1. call[c] \in AskedPages
          BY <3>2, <1>3, RecordFacts DEF ListInv
        <4>2. record \in AskedPages /\ record.pc = "refused" /\ record.op = call[c].op /\ record.by = call[c].by
          BY <4>1 DEF AskedPages
        <4> HIDE DEF record
        <4>3. call'[c] \in CallRecords'
          BY <2>2, <4>2, <1>1, TypedGrows DEF ListInv, CallRecords
        <4> QED BY <2>2, <3>2, <4>2, <4>3, <1>2, <1>3, KindFacts
                   DEF Quiet, Pending, Waiting, Holds, Further, ListInv, WaitersOutlive
      <3> QED BY <3>1, <3>2, <1>2, RecordFacts DEF ListInv
    <2> HIDE DEF record
    <2> QED BY <1>1, <2>1, <2>2, OneQuietCall
  <1>4. CASE call[c].pc = "forgotten"
    <2>1. call' = [call EXCEPT ![c] = Idle]
      BY <1>4 DEF RefuseCall
    <2>2. ASSUME call'[c] = Idle PROVE Quiet(c)
      BY <1>4, <2>2, ForgottenEnds
    <2> QED BY <1>1, <2>1, <2>2, OneQuietCall
  <1> QED BY <1>2, <1>3, <1>4

\* The call that refetches the list.
FetchBy(person) ==
  [op |-> "fetch", pc |-> "sent", by |-> person, about |-> 0, at |-> 0, before |-> ""]

LEMMA FetchFacts ==
  ASSUME Typed
  PROVE  /\ FetchBy(user) \in AskedPages /\ FetchBy(user).op = "fetch"
         /\ FetchBy(user).pc = "sent" /\ FetchBy(user).by = user
  BY DEF FetchBy, AskedPages, Reads, Fetches, Typed

\* A refetch starts in the place of a call that is over.
LEMMA FetchIsQuiet ==
  ASSUME ListInv, ServerGrows, NEW c \in Calls, call'[c] = FetchBy(user),
         ~(Waiting(c) /\ call[c].op = "prime"),
         Pending(c) => server'[call[c].about] = Target(call[c].op)
  PROVE  Quiet(c)
  <1>1. /\ call'[c] \in AskedPages /\ call'[c].op = "fetch"
        /\ call'[c].pc = "sent" /\ call'[c].by = user
    BY FetchFacts DEF ListInv
  <1>2. call'[c] \in CallRecords'
    BY <1>1, TypedGrows DEF ListInv, CallRecords
  <1>3. ~Pending(c)' /\ ~Holds(c)' /\ ~Further(c)' /\ call'[c].op \notin Decisions
    BY <1>1, KindFacts DEF Pending, Holds, Further
  <1> QED BY <1>1, <1>2, <1>3 DEF Quiet

LEMMA GrantReadKeeps ==
  ASSUME ListInv, NEW c \in Calls, call[c] # Idle, GrantRead(c),
         UNCHANGED <<user, shown, cursor, failed, loadingMore, history>>
  PROVE  ListInv'
  <1>1. ServerGrows /\ server' = server
    BY ServerSame DEF ListInv, GrantRead
  <1>2. call[c].op \in Reads /\ call[c].pc = "sent" /\ call[c].by # Nobody
    BY RecordFacts DEF ListInv, GrantRead
  <1>3. call[c] \in AskedPages
    BY <1>2, RecordFacts DEF ListInv
  <1>4. call[c].by \in People /\ call[c].about \in {0} \cup DOMAIN server
    BY <1>2, <1>3 DEF AskedPages
  <1>5. PICK page : page = Page(call[c].about, call[c].by)
    OBVIOUS
  <1>6. /\ page \in Seq(Row) /\ Descends(page)
        /\ \A i \in DOMAIN page : True(page[i]) /\ page[i].by = call[c].by
        /\ call[c].about # 0 => IF page = << >> THEN call[c].about = 1
                                ELSE page[1].id = call[c].about - 1
    BY <1>4, <1>5, PageFacts DEF ListInv, Typed
  <1> DEFINE record == [op |-> call[c].op, pc |-> "granted", by |-> call[c].by, page |-> page]
  <1>7. call' = [call EXCEPT ![c] = record]
    BY <1>5 DEF GrantRead
  <1>8. /\ record \in HeldPages /\ record.op = call[c].op /\ record.pc = "granted"
        /\ record.by = call[c].by /\ record.page = page
    BY <1>2, <1>4, <1>6 DEF HeldPages
  <1>9. \A i \in DOMAIN page : page[i] \in Row
    BY <1>6
  <1> HIDE DEF record
  <1>10. ASSUME call'[c] = record PROVE Quiet(c)
    <2>1. call'[c] \in CallRecords'
      BY <1>1, <1>8, <1>10, TypedGrows DEF ListInv, CallRecords
    <2>2. ASSUME NEW i \in DOMAIN call'[c].page
          PROVE  True(call[c].page[i])' /\ call'[c].page[i].by = call'[c].by
      BY <2>2, <1>1, <1>6, <1>8, <1>10 DEF True
    <2>3. Descends(call[c].page)'
      BY <1>6, <1>8, <1>10 DEF Descends
    <2>4. Further(c) /\ c \notin crossed => call[c].about # 0
      BY <1>2 DEF ListInv, FurtherPageFits
    <2>5. call'[c].by \in {user, Nobody} \cup outlived
      BY <1>2, <1>8, <1>10, KindFacts DEF ListInv, WaitersOutlive, Waiting
    <2>6. ~Pending(c) /\ ~Pending(c)' /\ call'[c].op \notin Decisions
      BY <1>2, <1>8, <1>10, KindFacts DEF Pending
    <2>7. /\ Waiting(c) /\ Waiting(c)' /\ call'[c].op = call[c].op
          /\ call'[c].pc = "granted"
          /\ call'[c].page = page
      BY <1>2, <1>8, <1>10, KindFacts DEF Waiting
    <2> QED BY <1>2, <1>6, <2>1, <2>2, <2>3, <2>4, <2>5, <2>6, <2>7 DEF Quiet, Further
  <1> QED BY <1>1, <1>7, <1>10, OneQuietCall

LEMMA GrantPostKeeps ==
  ASSUME ListInv, NEW c \in Calls, call[c] # Idle, GrantPost(c),
         UNCHANGED <<user, shown, cursor, failed, loadingMore, history>>
  PROVE  ListInv'
  <1>1. call[c].op \in Posts /\ call[c].pc \in {"sent", "forgotten"}
    BY DEF GrantPost
  <1>2. call[c] \in PostCalls
    BY <1>1, RecordFacts DEF ListInv
  <1>3. call[c].about \in DOMAIN server
    BY <1>2 DEF PostCalls
  <1>4. ServerGrows /\ server'[call[c].about] = Target(call[c].op)
    BY <1>1, <1>3, MoveGrows DEF ListInv, GrantPost
  <1>5. CASE call[c].pc = "sent"
    <2> DEFINE record == [call[c] EXCEPT !.pc = "granted"]
    <2>1. call' = [call EXCEPT ![c] = record]
      BY <1>5 DEF GrantPost
    <2>2. /\ record \in PostCalls /\ record.pc = "granted" /\ record.op = call[c].op
          /\ record.by = call[c].by /\ record.about = call[c].about
          /\ record.at = call[c].at /\ record.before = call[c].before
      BY <1>2 DEF PostCalls
    <2> HIDE DEF record
    <2>3. ASSUME call'[c] = record PROVE Quiet(c)
      <3>1. call'[c] \in CallRecords'
        BY <2>2, <2>3, <1>4, TypedGrows DEF ListInv, CallRecords
      <3> QED BY <1>1, <1>4, <1>5, <2>2, <2>3, <3>1, KindFacts
             DEF Quiet, Pending, Waiting, Holds, Further, ListInv, WaitersOutlive
    <2> QED BY <1>4, <2>1, <2>3, OneQuietCall
  <1>6. CASE call[c].pc = "forgotten"
    <2>1. call' = [call EXCEPT ![c] = Idle]
      BY <1>6 DEF GrantPost
    <2>2. ASSUME call'[c] = Idle PROVE Quiet(c)
      BY <1>6, <2>2, ForgottenEnds
    <2> QED BY <1>4, <2>1, <2>2, OneQuietCall
  <1> QED BY <1>1, <1>5, <1>6

LEMMA RefreshKeeps == ASSUME ListInv, NEW c \in Calls, Refresh(c) PROVE ListInv'
  <1>1. ServerGrows
    BY ServerSame DEF ListInv, Refresh
  <1>2. user \in People /\ call[c] = Idle
    BY DEF ListInv, Typed, Refresh, InPortal
  <1>3. call' = [call EXCEPT ![c] = FetchBy(user)]
    BY DEF Refresh, Start, FetchBy
  <1>4. ASSUME call'[c] = FetchBy(user) PROVE Quiet(c)
    <2>1. ~Waiting(c) /\ ~Pending(c)
      BY <1>2, KindFacts DEF Waiting, Pending
    <2> QED BY <1>1, <1>2, <1>4, <2>1, FetchIsQuiet
  <1>5. UNCHANGED <<user, shown, cursor, failed, loadingMore, history>>
    BY DEF Refresh
  <1> QED BY <1>1, <1>3, <1>4, <1>5, OneQuietCall

LEMMA AskKeeps ==
  ASSUME ListInv, NEW c \in Calls, NEW id \in DOMAIN server, NEW op \in Posts, Ask(c, id, op)
  PROVE  ListInv'
  <1>1. ServerGrows
    BY ServerSame DEF ListInv, Ask
  <1>2. user \in People /\ call[c] = Idle /\ op \notin Decisions
    BY DEF ListInv, Typed, Ask, InPortal
  <1> DEFINE record == [op |-> op, pc |-> "sent", by |-> user, about |-> id, at |-> 0, before |-> ""]
  <1>3. call' = [call EXCEPT ![c] = record]
    BY DEF Ask, Start
  <1>4. /\ record \in PostCalls /\ record.op = op /\ record.pc = "sent"
        /\ record.by = user
    BY <1>2 DEF PostCalls
  <1> HIDE DEF record
  <1>5. ASSUME call'[c] = record PROVE Quiet(c)
    <2>1. ~Waiting(c) /\ ~Pending(c)
      BY <1>2, KindFacts DEF Waiting, Pending
    <2>2. call'[c] \in CallRecords'
      BY <1>1, <1>4, <1>5, TypedGrows DEF ListInv, CallRecords
    <2>3. ~Pending(c)' /\ ~Holds(c)' /\ ~Further(c)' /\ call'[c].op # "prime"
          /\ call'[c].op \notin Decisions
      BY <1>2, <1>4, <1>5, KindFacts DEF Pending, Holds, Further
    <2> QED BY <1>4, <1>5, <2>1, <2>2, <2>3 DEF Quiet
  <1>6. UNCHANGED <<user, shown, cursor, failed, loadingMore, history>>
    BY DEF Ask
  <1> QED BY <1>1, <1>3, <1>5, <1>6, OneQuietCall

LEMMA HearPostGrantedKeeps ==
  ASSUME ListInv, NEW c \in Calls, HearPostGranted(c) PROVE ListInv'
  <1>1. ServerGrows /\ server' = server
    BY ServerSame DEF ListInv, HearPostGranted
  <1>2. call[c].op \in Posts /\ call[c].pc = "granted"
    BY DEF HearPostGranted
  <1>3. call' = [call EXCEPT ![c] = FetchBy(user)]
    BY DEF HearPostGranted, Start, FetchBy
  <1>4. ASSUME call'[c] = FetchBy(user) PROVE Quiet(c)
    <2>1. ~(Waiting(c) /\ call[c].op = "prime")
      BY <1>2, KindFacts
    <2>2. Pending(c) => server'[call[c].about] = Target(call[c].op)
      BY <1>1, <1>2 DEF ListInv, GrantedIsMade, Pending
    <2> QED BY <1>1, <1>4, <2>1, <2>2, FetchIsQuiet
  <1>5. UNCHANGED <<user, shown, cursor, failed, loadingMore, history>>
    BY DEF HearPostGranted
  <1> QED BY <1>1, <1>3, <1>4, <1>5, OneQuietCall

-----------------------------------------------------------------------------
(* A session begins, a further page is asked for. *)

\* A step that neither adds a page to a call nor a decision to those granted.
Carries(c) ==
  /\ Holds(c)' => Holds(c) /\ call'[c].page = call[c].page /\ call'[c].by = call[c].by
  /\ call'[c].op \in Decisions /\ call'[c].pc = "granted" =>
       /\ call[c].op \in Decisions /\ call[c].pc = "granted"
       /\ call'[c].op = call[c].op /\ call'[c].about = call[c].about

LEMMA CarriesKeeps ==
  ASSUME ListInv, server' = server, \A c \in Calls : Carries(c)
  PROVE  PagesAreTrue' /\ PagesAreTheirs' /\ PagesDescend' /\ GrantedIsMade'
  <1>1. PagesAreTrue'
    BY DEF ListInv, PagesAreTrue, Carries, True
  <1>2. PagesAreTheirs'
    BY DEF ListInv, PagesAreTheirs, Carries
  <1>3. PagesDescend'
    BY DEF ListInv, PagesDescend, Carries, Descends
  <1>4. GrantedIsMade'
    BY DEF ListInv, GrantedIsMade, Carries
  <1> QED BY <1>1, <1>2, <1>3, <1>4

LEMMA SignInKeeps ==
  ASSUME ListInv, NEW c \in Calls, NEW p \in People, SignIn(c, p)
  PROVE  ListInv'
  <1> DEFINE record == [op |-> "prime", pc |-> "sent", by |-> p, about |-> 0, at |-> 0, before |-> ""]
  <1>1. /\ record \in AskedPages /\ record.op = "prime" /\ record.pc = "sent"
        /\ record.by = p
    BY DEF AskedPages, Reads, Fetches
  <1>2. call' = [call EXCEPT ![c] = record]
    BY DEF SignIn, Start
  <1> HIDE DEF record
  <1>3. DOMAIN call' = Calls /\ call'[c] = record /\ \A d \in Calls \ {c} : call'[d] = call[d]
    BY <1>2 DEF ListInv, Typed
  <1>4. /\ user = Nobody /\ user' = p /\ call[c].op = "none" /\ server' = server
        /\ UNCHANGED <<shown, cursor, failed, loadingMore, history>>
    BY KindFacts DEF SignIn
  <1>5. ServerGrows
    BY <1>4, ServerSame DEF ListInv
  <1>6. Entering'
    BY <1>1, <1>3 DEF Entering, Waiting
  <1>7. /\ ~Pending(c)' /\ ~Holds(c)' /\ ~Further(c)' /\ call'[c].op \notin Decisions
        /\ ~Pending(c)
    BY <1>1, <1>3, <1>4, KindFacts DEF Pending, Holds, Further
  <1>8. PagesAreTrue' /\ PagesAreTheirs' /\ PagesDescend' /\ GrantedIsMade'
    BY <1>3, <1>4, <1>7, CarriesKeeps DEF Carries, Holds
  <1>9. Typed'
    BY <1>1, <1>3, <1>4, <1>5, TypedGrows
       DEF ListInv, Typed, ServerGrows, CallRecords, history
  <1>10. PendingOwnsRow' /\ OneDecisionPerRow'
    BY <1>3, <1>4, <1>7 DEF ListInv, PendingOwnsRow, OneDecisionPerRow, Pending, Waiting
  <1>11. ShownIsTrue'
    BY <1>3, <1>4, <1>7 DEF ListInv, ShownIsTrue, MadeOrUnderWay, Waiting, Pending
  <1>12. WaitersOutlive'
    BY <1>1, <1>3, <1>4 DEF ListInv, WaitersOutlive, Waiting, history
  <1>13. RowsHaveReaders' /\ EmptyListHasNoCursor'
    <2>1. \A i \in DOMAIN shown : shown[i] \in Row
      BY DEF ListInv, Typed
    <2>2. \A i \in DOMAIN shown : shown[i].by # Nobody
      BY <2>1, PeopleAssumption DEF Row
    <2>3. ~InView'
      BY <1>6 DEF InView
    <2> QED BY <1>4, <2>2, <2>3 DEF ListInv, RowsHaveReaders, EmptyListHasNoCursor, history
  <1>14. OneFurtherPage'
    BY <1>3, <1>4, <1>7 DEF ListInv, OneFurtherPage, Further, Waiting
  <1>15. FurtherPageFits'
    BY <1>3, <1>4, <1>7 DEF ListInv, FurtherPageFits, Further, Waiting, history
  <1>16. NoHole'
    BY <1>4 DEF ListInv, NoHole, history
  <1> QED BY <1>8, <1>9, <1>10, <1>11, <1>12, <1>13, <1>14, <1>15, <1>16 DEF ListInv

LEMMA LoadMoreKeeps == ASSUME ListInv, NEW c \in Calls, LoadMore(c) PROVE ListInv'
  <1> DEFINE record == [op |-> "more", pc |-> "sent", by |-> user, about |-> cursor, at |-> 0, before |-> ""]
  <1>0. /\ user \in People /\ user' = user /\ call[c].op = "none" /\ server' = server
        /\ cursor \in {0} \cup DOMAIN server /\ cursor # 0 /\ ~loadingMore /\ loadingMore'
        /\ loadingMore' \in BOOLEAN /\ InView
        /\ UNCHANGED <<shown, cursor, failed, history>>
    BY KindFacts DEF LoadMore, InPortal, ListInv, Typed, InView
  <1>1. /\ record \in AskedPages /\ record.op = "more" /\ record.pc = "sent"
        /\ record.by = user
        /\ record.about = cursor
    BY <1>0 DEF AskedPages, Reads
  <1>2. call' = [call EXCEPT ![c] = record]
    BY DEF LoadMore, Start
  <1> HIDE DEF record
  <1>3. DOMAIN call' = Calls /\ call'[c] = record /\ \A d \in Calls \ {c} : call'[d] = call[d]
    BY <1>2 DEF ListInv, Typed
  <1>5. ServerGrows
    BY <1>0, ServerSame DEF ListInv
  <1>6. Entering' <=> Entering
    BY <1>0, <1>1, <1>3 DEF Entering, Waiting
  <1>7. /\ ~Pending(c)' /\ ~Holds(c)' /\ call'[c].op \notin Decisions
        /\ ~Pending(c)
    BY <1>0, <1>1, <1>3, KindFacts DEF Pending, Holds
  <1>8. PagesAreTrue' /\ PagesAreTheirs' /\ PagesDescend' /\ GrantedIsMade'
    BY <1>0, <1>3, <1>7, CarriesKeeps DEF Carries, Holds
  <1>9. Typed'
    BY <1>0, <1>1, <1>3, <1>5, TypedGrows
       DEF ListInv, Typed, ServerGrows, CallRecords, history
  <1>10. PendingOwnsRow' /\ OneDecisionPerRow'
    BY <1>0, <1>3, <1>7 DEF ListInv, PendingOwnsRow, OneDecisionPerRow, Pending, Waiting
  <1>11. ShownIsTrue'
    BY <1>0, <1>3, <1>7 DEF ListInv, ShownIsTrue, MadeOrUnderWay, Waiting, Pending
  <1>12. WaitersOutlive'
    BY <1>0, <1>1, <1>3 DEF ListInv, WaitersOutlive, Waiting, history
  <1>13. RowsHaveReaders' /\ EmptyListHasNoCursor'
    BY <1>0, <1>6
       DEF ListInv, RowsHaveReaders, EmptyListHasNoCursor, InView, history
  <1>14. \A d \in Calls : ~Further(d)
    BY <1>0 DEF ListInv, OneFurtherPage
  <1>15. \A d \in Calls : Further(d)' => d = c
    BY <1>3, <1>14 DEF Further, Waiting
  <1>16. OneFurtherPage'
    BY <1>0, <1>15 DEF OneFurtherPage
  <1>17. FurtherPageFits'
    BY <1>0, <1>1, <1>3, <1>15 DEF ListInv, FurtherPageFits, EmptyListHasNoCursor
  <1>18. NoHole'
    BY <1>0 DEF ListInv, NoHole, history
  <1> QED BY <1>8, <1>9, <1>10, <1>11, <1>12, <1>13, <1>16, <1>17, <1>18 DEF ListInv

-----------------------------------------------------------------------------
(* A decision is made. *)

\* The list keeps its ids, and with them its holes.
LEMMA IdsStay ==
  ASSUME ListInv, DOMAIN shown' = DOMAIN shown, \A i \in DOMAIN shown : shown'[i].id = shown[i].id,
         shown \in Seq(Row), shown' \in Seq(Row),
         server' = server, cursor' = cursor, ~torn' => ~torn
  PROVE  NoHole'
  <1>1. shown' # << >> => shown # << >> /\ 1 \in DOMAIN shown
    OBVIOUS
  <1> QED BY <1>1 DEF ListInv, NoHole

LEMMA DecideKeeps ==
  ASSUME ListInv, NEW c \in Calls, NEW id \in DOMAIN server, NEW op \in Posts,
         Decide(c, id, op)
  PROVE  ListInv'
  <1>1. PICK at : at = PlaceOf(id)
    OBVIOUS
  <1>2. /\ at \in DOMAIN shown /\ at # 0 /\ shown[at].id = id /\ ~Locked(shown[at].status)
    BY <1>1, PlaceFacts DEF ListInv, Typed, Decide
  <1>3. /\ op \in Decisions /\ user \in People /\ user' = user /\ call[c].op = "none"
        /\ UNCHANGED <<server, cursor, failed, loadingMore, history>>
    BY KindFacts DEF Decide, InPortal, ListInv, Typed
  <1>4. shown' = [shown EXCEPT ![at].status = Target(op)]
    BY <1>1 DEF Decide
  <1>5. /\ shown' \in Seq(Row) /\ DOMAIN shown' = DOMAIN shown /\ shown' # << >>
        /\ \A i \in DOMAIN shown : /\ shown'[i].id = shown[i].id
                                   /\ shown'[i].by = shown[i].by
                                   /\ i # at => shown'[i] = shown[i]
        /\ shown'[at].status = Target(op)
    BY <1>2, <1>3, <1>4, DecisionsLock, StatusFacts DEF ListInv, Typed
  <1>6. shown[at].status \in Statuses /\ at \in Nat
    <2>1. shown \in Seq(Row)
      BY DEF ListInv, Typed
    <2>2. shown[at] \in Row /\ at \in Nat
      BY <1>2, <2>1
    <2> QED BY <2>2 DEF Row
  <1> DEFINE record == [op |-> op, pc |-> "sent", by |-> user, about |-> id, at |-> at,
                        before |-> shown[at].status]
  <1>7. /\ record \in PostCalls /\ record.op = op /\ record.pc = "sent"
        /\ record.by = user
        /\ record.about = id /\ record.at = at /\ record.before = shown[at].status
    BY <1>3, <1>6 DEF PostCalls
  <1>8. call' = [call EXCEPT ![c] = record]
    BY <1>1 DEF Decide, Start
  <1> HIDE DEF record
  <1>9. DOMAIN call' = Calls /\ call'[c] = record /\ \A d \in Calls \ {c} : call'[d] = call[d]
    BY <1>8 DEF ListInv, Typed
  <1>10. ServerGrows
    BY <1>3, ServerSame DEF ListInv
  <1>11. op \notin Reads /\ op # "more" /\ op # "prime" /\ op # "none" /\ Locked(Target(op))
    BY <1>3, KindFacts, DecisionsLock
  <1>12. ~Holds(c)' /\ ~Further(c)' /\ ~Pending(c) /\ Pending(c)' /\ Waiting(c)'
    BY <1>2, <1>3, <1>7, <1>9, <1>11, KindFacts DEF Holds, Further, Pending, Waiting
  <1>13. Entering' <=> Entering
    BY <1>3, <1>7, <1>9, <1>11 DEF Entering, Waiting
  <1>14. PagesAreTrue' /\ PagesAreTheirs' /\ PagesDescend' /\ GrantedIsMade'
    BY <1>3, <1>7, <1>9, <1>12, CarriesKeeps DEF Carries, Holds
  <1>15. Typed'
    BY <1>3, <1>5, <1>7, <1>9, <1>10, TypedGrows
       DEF ListInv, Typed, ServerGrows, CallRecords, history
  <1>16. \A d \in Calls \ {c} : Pending(d)' <=> Pending(d)
    BY <1>9 DEF Pending
  \* The rows of other pending decisions show a decision, this one did not.
  <1>17. \A d \in Calls \ {c} : Pending(d) => call[d].at # at
    BY <1>2, DecisionsLock DEF ListInv, PendingOwnsRow, Pending
  <1>18. PendingOwnsRow'
    <2> SUFFICES ASSUME NEW d \in Calls, Pending(d)'
                 PROVE  /\ Waiting(d)'
                        /\ call'[d].at \in DOMAIN shown'
                        /\ shown'[call'[d].at].id = call'[d].about
                        /\ shown'[call'[d].at].status = Target(call'[d].op)
                        /\ call'[d].before \in Statuses /\ ~Locked(call'[d].before)
      BY DEF PendingOwnsRow
    <2>1. CASE d = c
      BY <1>2, <1>5, <1>6, <1>7, <1>9, <1>12, <2>1
    <2>2. CASE d # c
      BY <1>5, <1>9, <1>16, <1>17, <2>2 DEF ListInv, PendingOwnsRow, Waiting
    <2> QED BY <2>1, <2>2
  <1>19. OneDecisionPerRow'
    BY <1>7, <1>9, <1>16, <1>17 DEF ListInv, OneDecisionPerRow
  <1>20. ShownIsTrue'
    <2> SUFFICES ASSUME NEW i \in DOMAIN shown PROVE MadeOrUnderWay(i)'
      BY <1>5 DEF ShownIsTrue
    <2>1. CASE i = at
      BY <1>3, <1>7, <1>9, <1>12, <2>1 DEF MadeOrUnderWay
    <2>2. CASE i # at
      BY <1>3, <1>5, <1>9, <2>2 DEF ListInv, ShownIsTrue, MadeOrUnderWay, Waiting
    <2> QED BY <2>1, <2>2
  <1>21. WaitersOutlive'
    BY <1>3, <1>7, <1>9 DEF ListInv, WaitersOutlive, Waiting, history
  <1>22. RowsHaveReaders'
    BY <1>3, <1>5, <1>13 DEF ListInv, RowsHaveReaders, InView, history
  <1>23. EmptyListHasNoCursor'
    BY <1>5 DEF EmptyListHasNoCursor
  <1>24. OneFurtherPage'
    BY <1>3, <1>9, <1>12 DEF ListInv, OneFurtherPage, Further, Waiting
  <1>25. FurtherPageFits'
    BY <1>3, <1>5, <1>9, <1>12 DEF ListInv, FurtherPageFits, Further, Waiting, history
  <1>26. NoHole'
    BY <1>2, <1>3, <1>5, IdsStay DEF ListInv, Typed, history
  <1> QED BY <1>14, <1>15, <1>18, <1>19, <1>20, <1>21, <1>22, <1>23, <1>24, <1>25, <1>26
             DEF ListInv

-----------------------------------------------------------------------------
(* The list is replaced. *)

\* A call whose row the list no longer holds.
Loosened(c) ==
  /\ call'[c] \in CallRecords /\ call'[c].op = call[c].op
  /\ call[c].op \notin Posts => call'[c] = call[c]
  /\ call[c].op \in Posts =>
       /\ call'[c].pc = call[c].pc /\ call'[c].by = call[c].by
       /\ call'[c].about = call[c].about /\ call'[c].at = 0

LEMMA DetachedFacts ==
  ASSUME Typed, NEW c \in Calls, call'[c] = Detached(call)[c]
  PROVE  Loosened(c)
  <1>1. CASE call[c].op \in Posts
    <2>1. call[c] \in PostCalls
      BY <1>1, RecordFacts
    <2> DEFINE record == [call[c] EXCEPT !.at = 0]
    <2>2. call'[c] = record
      BY <1>1 DEF Detached
    <2>3. /\ record \in PostCalls /\ record.op = call[c].op
          /\ record.pc = call[c].pc /\ record.by = call[c].by
          /\ record.about = call[c].about /\ record.at = 0
      BY <2>1 DEF PostCalls
    <2> HIDE DEF record
    <2> QED BY <1>1, <2>2, <2>3 DEF Loosened, CallRecords
  <1>2. CASE call[c].op \notin Posts
    BY <1>2 DEF Detached, Loosened, Typed
  <1> QED BY <1>1, <1>2

\* The list is replaced: no decision is pending any more.
LEMMA ReplacedDecisions ==
  ASSUME ListInv, server' = server,
         \A d \in Calls : Loosened(d) \/ call'[d] = Idle,
         shown' \in Seq(Row), \A i \in DOMAIN shown' : True(shown'[i])
  PROVE  /\ PendingOwnsRow' /\ OneDecisionPerRow' /\ ShownIsTrue'
         /\ PagesAreTrue' /\ PagesAreTheirs' /\ PagesDescend' /\ GrantedIsMade'
         /\ \A d \in Calls : Further(d)' => Further(d) /\ call'[d] = call[d]
         /\ \A d \in Calls : Waiting(d)' => Waiting(d) /\ call'[d].by = call[d].by /\ call'[d].op = call[d].op
         /\ \A d \in Calls : call'[d] \in CallRecords
  <1>1. \A d \in Calls : ~Pending(d)'
    BY KindFacts DEF Loosened, Pending
  <1>2. PendingOwnsRow' /\ OneDecisionPerRow'
    BY <1>1 DEF PendingOwnsRow, OneDecisionPerRow
  <1>3. ShownIsTrue'
    BY DEF ShownIsTrue, MadeOrUnderWay, True
  <1>4. \A d \in Calls : Carries(d)
    BY KindFacts DEF Carries, Loosened, Holds
  <1>5. PagesAreTrue' /\ PagesAreTheirs' /\ PagesDescend' /\ GrantedIsMade'
    BY <1>4, CarriesKeeps
  <1>6. \A d \in Calls : Waiting(d)' => Waiting(d) /\ call'[d].by = call[d].by /\ call'[d].op = call[d].op
    BY KindFacts DEF Loosened, Waiting
  <1>7. \A d \in Calls : Further(d)' => Further(d) /\ call'[d] = call[d]
    BY <1>6, KindFacts DEF Loosened, Further
  <1>8. \A d \in Calls : call'[d] \in CallRecords
    BY DEF Loosened, CallRecords
  <1> QED BY <1>2, <1>3, <1>5, <1>6, <1>7, <1>8

\* Who leaves is remembered, and so is everybody who waits.
LEMMA LeaveFacts ==
  ASSUME ListInv, NEW who \in SUBSET Calls, Leave(who)
  PROVE  /\ outlived \subseteq outlived' /\ outlived' \subseteq People
         /\ \A d \in who : Waiting(d) => call[d].by \in {Nobody} \cup outlived'
  <1>1. \A d \in who : Waiting(d) => call[d].by \in People \cup {Nobody}
    BY RecordFacts DEF ListInv, Waiting
  <1> QED BY <1>1 DEF ListInv, Typed, Leave

LEMMA SignOutKeeps == ASSUME ListInv, SignOut PROVE ListInv'
  <1>1. /\ user' = Nobody /\ shown' = << >> /\ failed' = FALSE /\ call' = Detached(call)
        /\ Leave(Calls) /\ crossed' = crossed \cup FurtherPages
        /\ server' = server /\ cursor' = cursor /\ loadingMore' = loadingMore
        /\ torn' = torn /\ left' = {}
    BY DEF SignOut
  <1>2. \A d \in Calls : Loosened(d)
    BY <1>1, DetachedFacts DEF ListInv
  <1>3. DOMAIN call' = Calls
    BY <1>1 DEF Detached
  <1>4. shown' \in Seq(Row) /\ \A i \in DOMAIN shown' : True(shown'[i])
    BY <1>1
  <1>5. /\ PendingOwnsRow' /\ OneDecisionPerRow' /\ ShownIsTrue'
        /\ PagesAreTrue' /\ PagesAreTheirs' /\ PagesDescend' /\ GrantedIsMade'
        /\ \A d \in Calls : Further(d)' => Further(d) /\ call'[d] = call[d]
        /\ \A d \in Calls : Waiting(d)' => Waiting(d) /\ call'[d].by = call[d].by /\ call'[d].op = call[d].op
        /\ \A d \in Calls : call'[d] \in CallRecords
    BY <1>1, <1>2, <1>4, ReplacedDecisions
  <1>6. /\ outlived \subseteq outlived' /\ outlived' \subseteq People
        /\ \A d \in Calls : Waiting(d) => call[d].by \in {Nobody} \cup outlived'
    BY <1>1, LeaveFacts
  <1>7. ServerGrows
    BY <1>1, ServerSame DEF ListInv
  <1>8. Typed'
    BY <1>1, <1>3, <1>4, <1>5, <1>6, <1>7, TypedGrows DEF ListInv, Typed, FurtherPages
  <1>9. WaitersOutlive'
    BY <1>5, <1>6 DEF WaitersOutlive
  <1>10. RowsHaveReaders' /\ EmptyListHasNoCursor'
    BY <1>1 DEF RowsHaveReaders, EmptyListHasNoCursor, InView
  <1>11. OneFurtherPage'
    BY <1>1, <1>5 DEF ListInv, OneFurtherPage
  <1>12. FurtherPageFits'
    BY <1>1, <1>5 DEF FurtherPageFits, FurtherPages, Further
  <1>13. NoHole'
    BY <1>1 DEF NoHole
  <1> QED BY <1>5, <1>8, <1>9, <1>10, <1>11, <1>12, <1>13 DEF ListInv

LEMMA CursorFacts ==
  ASSUME NEW page \in Seq(Row)
  PROVE  /\ NextCursor(page) \in {0} \cup DOMAIN server
         /\ page = << >> => NextCursor(page) = 0
         /\ page # << >> => /\ NextCursor(page) = page[Len(page)].id
                            /\ Len(page) \in DOMAIN page /\ 1 \in DOMAIN page
                            /\ NextCursor(page) \in DOMAIN server
  <1>1. page # << >> => Len(page) \in DOMAIN page /\ 1 \in DOMAIN page
    OBVIOUS
  <1>2. page # << >> => page[Len(page)] \in Row
    BY <1>1
  <1> QED BY <1>1, <1>2 DEF NextCursor, Last, Row

\* A page shows every id from its first row to its last.
LEMMA CoversItsIds ==
  ASSUME server \in Seq(Statuses), NEW page \in Seq(Row), Descends(page), page # << >>,
         NEW id \in DOMAIN server, NextCursor(page) <= id, id <= page[1].id
  PROVE  \E i \in DOMAIN page : page[i].id = id
  <1>1. /\ NextCursor(page) = page[Len(page)].id
        /\ Len(page) \in DOMAIN page /\ 1 \in DOMAIN page
    BY CursorFacts
  <1>2. DOMAIN server = 1 .. Len(server) /\ Len(server) \in Nat
        /\ DOMAIN page = 1 .. Len(page) /\ Len(page) \in Nat
    OBVIOUS
  <1>3. \A i \in DOMAIN page : page[i] \in Row
    OBVIOUS
  <1>4. \A i \in DOMAIN page : page[i].id \in DOMAIN server
    BY <1>3 DEF Row
  <1>5. PICK first \in Nat : first = page[1].id
    BY <1>1, <1>2, <1>4
  <1>6. \A i \in DOMAIN page : page[i].id + i = first + 1
    BY <1>5 DEF Descends
  <1>7. PICK last \in Nat : last = page[Len(page)].id /\ last + Len(page) = first + 1
    <2>1. page[Len(page)].id + Len(page) = first + 1
      BY <1>1, <1>6
    <2>2. page[Len(page)].id \in Nat
      BY <1>1, <1>2, <1>4
    <2> QED BY <2>1, <2>2
  <1>8. id \in Nat /\ last <= id /\ id <= first
    BY <1>1, <1>2, <1>5, <1>7
  <1>9. first + 1 - id \in DOMAIN page
    BY <1>2, <1>7, <1>8
  <1>10. page[first + 1 - id].id \in Nat /\ page[first + 1 - id].id + (first + 1 - id) = first + 1
    BY <1>2, <1>4, <1>6, <1>9
  <1>11. page[first + 1 - id].id = id
    BY <1>8, <1>10
  <1> QED BY <1>9, <1>11

LEMMA HearFetchKeeps ==
  ASSUME ListInv, NEW c \in Calls, HearPage(c), call[c].op \in Fetches
  PROVE  ListInv'
  <1>1. PICK page : page = call[c].page
    OBVIOUS
  <1>2. /\ call[c].op \in Reads /\ call[c].pc = "granted" /\ Holds(c) /\ Waiting(c)
    BY KindFacts DEF HearPage, Holds, Waiting
  <1>3. /\ cursor' = NextCursor(page) /\ shown' = page /\ failed' = FALSE
        /\ call' = [Detached(call) EXCEPT ![c] = Idle]
        /\ left' = {} /\ crossed' = FurtherPages /\ torn' = FALSE
        /\ UNCHANGED <<loadingMore, server, user, outlived>>
    BY <1>1, KindFacts DEF HearPage
  <1>4. call[c].by \in People /\ page \in Seq(Row)
    BY <1>1, <1>2, RecordFacts DEF ListInv, HeldPages
  <1>5. /\ DOMAIN call' = Calls /\ call'[c] = Idle
        /\ \A d \in Calls \ {c} : call'[d] = Detached(call)[d]
    BY <1>3 DEF Detached
  <1>6. \A d \in Calls : Loosened(d) \/ call'[d] = Idle
    BY <1>5, DetachedFacts DEF ListInv
  <1>7. /\ \A i \in DOMAIN page : True(page[i]) /\ page[i].by = call[c].by
        /\ Descends(page)
    BY <1>1, <1>2 DEF ListInv, PagesAreTrue, PagesAreTheirs, PagesDescend
  <1>8. /\ PendingOwnsRow' /\ OneDecisionPerRow' /\ ShownIsTrue'
        /\ PagesAreTrue' /\ PagesAreTheirs' /\ PagesDescend' /\ GrantedIsMade'
        /\ \A d \in Calls : Further(d)' => Further(d) /\ call'[d] = call[d]
        /\ \A d \in Calls : Waiting(d)' => Waiting(d) /\ call'[d].by = call[d].by /\ call'[d].op = call[d].op
        /\ \A d \in Calls : call'[d] \in CallRecords
    BY <1>3, <1>4, <1>6, <1>7, ReplacedDecisions
  <1>9. cursor' \in {0} \cup DOMAIN server /\ (page = << >> => cursor' = 0)
    BY <1>3, <1>4, CursorFacts
  <1>10. ServerGrows
    BY <1>3, ServerSame DEF ListInv
  <1>11. Typed'
    BY <1>3, <1>4, <1>5, <1>8, <1>9, <1>10, TypedGrows DEF ListInv, Typed, FurtherPages
  <1>12. WaitersOutlive'
    BY <1>3, <1>8 DEF ListInv, WaitersOutlive
  <1>13. RowsHaveReaders'
    BY <1>2, <1>3, <1>4, <1>7, PeopleAssumption
       DEF ListInv, WaitersOutlive, RowsHaveReaders, InView
  <1>14. EmptyListHasNoCursor'
    BY <1>3, <1>9 DEF EmptyListHasNoCursor
  <1>15. OneFurtherPage'
    BY <1>3, <1>8 DEF ListInv, OneFurtherPage
  <1>16. FurtherPageFits'
    BY <1>3, <1>8 DEF FurtherPageFits, FurtherPages, Further
  <1>17. NoHole'
    <2> SUFFICES ASSUME page # << >>, NEW id \in DOMAIN server,
                        (IF cursor' = 0 THEN 1 ELSE cursor') <= id, id <= page[1].id
                 PROVE  \E i \in DOMAIN page : page[i].id = id
      BY <1>3 DEF NoHole
    <2>1. cursor' \in DOMAIN server
      BY <1>3, <1>4, CursorFacts
    <2>2. server \in Seq(Statuses) /\ 0 \notin DOMAIN server
      BY DEF ListInv, Typed
    <2>3. NextCursor(page) <= id
      BY <1>3, <2>1, <2>2
    <2> QED BY <1>4, <1>7, <2>2, <2>3, CoversItsIds
  <1> QED BY <1>8, <1>11, <1>12, <1>13, <1>14, <1>15, <1>16, <1>17 DEF ListInv

-----------------------------------------------------------------------------
(* A further page arrives. *)

LEMMA PastTheFirst ==
  ASSUME NEW m \in Nat, NEW n \in Nat, NEW i \in 1 .. m + n, i \notin 1 .. m
  PROVE  \E j \in 1 .. n : m + j = i
  <1>1. i - m \in 1 .. n /\ m + (i - m) = i
    OBVIOUS
  <1> QED BY <1>1

\* A further page keeps the rows it is appended to.
LEMMA AppendFacts ==
  ASSUME shown \in Seq(Row), NEW page \in Seq(Row), shown' = shown \o page
  PROVE  /\ shown' \in Seq(Row)
         /\ \A i \in DOMAIN shown : i \in DOMAIN shown' /\ shown'[i] = shown[i]
         /\ \A j \in DOMAIN page : \E i \in DOMAIN shown' : shown'[i] = page[j]
         /\ \A i \in DOMAIN shown' \ DOMAIN shown : \E j \in DOMAIN page : shown'[i] = page[j]
         /\ shown' = << >> => shown = << >> /\ page = << >>
         /\ shown # << >> => shown' # << >> /\ 1 \in DOMAIN shown
  <1>1. /\ shown' \in Seq(Row) /\ Len(shown') = Len(shown) + Len(page)
        /\ Len(shown) \in Nat /\ Len(page) \in Nat
        /\ DOMAIN shown = 1 .. Len(shown) /\ DOMAIN page = 1 .. Len(page)
        /\ DOMAIN shown' = 1 .. Len(shown')
    OBVIOUS
  <1>2. \A i \in DOMAIN shown : i \in DOMAIN shown' /\ shown'[i] = shown[i]
    BY <1>1
  <1>3. \A j \in DOMAIN page : shown'[Len(shown) + j] = page[j]
    BY <1>1
  <1>4. \A j \in DOMAIN page : Len(shown) + j \in DOMAIN shown'
    BY <1>1
  <1>5. \A j \in DOMAIN page : \E i \in DOMAIN shown' : shown'[i] = page[j]
    BY <1>3, <1>4
  <1>6. ASSUME NEW i \in DOMAIN shown' \ DOMAIN shown
        PROVE  \E j \in DOMAIN page : shown'[i] = page[j]
    <2>1. i \in 1 .. Len(shown) + Len(page) /\ i \notin 1 .. Len(shown)
      <3>1. i \in DOMAIN shown' /\ i \notin DOMAIN shown
        OBVIOUS
      <3> QED BY <1>1, <3>1
    <2>2. \E j \in 1 .. Len(page) : Len(shown) + j = i
      BY <1>1, <2>1, PastTheFirst
    <2>3. PICK j \in DOMAIN page : Len(shown) + j = i
      BY <1>1, <2>2
    <2> QED BY <1>3, <2>3
  <1>7. shown # << >> => shown' # << >> /\ 1 \in DOMAIN shown
    BY <1>1
  <1>8. shown' = << >> => shown = << >> /\ page = << >>
    BY <1>1
  <1> QED BY <1>1, <1>2, <1>5, <1>6, <1>7, <1>8

LEMMA HearMoreKeeps ==
  ASSUME ListInv, NEW c \in Calls, HearPage(c), call[c].op = "more"
  PROVE  ListInv'
  <1>1. PICK page : page = call[c].page
    OBVIOUS
  <1>2. /\ call[c].op \in Reads /\ call[c].pc = "granted" /\ Holds(c) /\ Waiting(c)
        /\ Further(c)
        /\ ~Pending(c)
    BY KindFacts DEF HearPage, Holds, Waiting, Further, Pending
  <1>3. /\ cursor' = NextCursor(page) /\ shown' = shown \o page /\ loadingMore' = FALSE
        /\ call' = [call EXCEPT ![c] = Idle]
        /\ crossed' = crossed \ {c} /\ torn' = (torn \/ c \in crossed)
        /\ UNCHANGED <<failed, server, user, outlived, left>>
    BY <1>1, KindFacts DEF HearPage
  <1>4. call[c].by \in People /\ page \in Seq(Row) /\ shown \in Seq(Row)
    BY <1>1, <1>2, RecordFacts DEF ListInv, Typed, HeldPages
  <1>5. /\ DOMAIN call' = Calls /\ call'[c] = Idle
        /\ \A d \in Calls \ {c} : call'[d] = call[d]
    BY <1>3 DEF ListInv, Typed
  <1>6. ~Pending(c)' /\ ~Holds(c)' /\ ~Further(c)' /\ call'[c].op \notin Decisions /\ ~Waiting(c)'
    BY <1>5, KindFacts DEF Pending, Holds, Further, Waiting
  <1>7. /\ \A i \in DOMAIN page : True(page[i]) /\ page[i].by = call[c].by
        /\ Descends(page)
    BY <1>1, <1>2 DEF ListInv, PagesAreTrue, PagesAreTheirs, PagesDescend
  <1>8. /\ shown' \in Seq(Row)
        /\ \A i \in DOMAIN shown : i \in DOMAIN shown' /\ shown'[i] = shown[i]
        /\ \A j \in DOMAIN page : \E i \in DOMAIN shown' : shown'[i] = page[j]
        /\ \A i \in DOMAIN shown' \ DOMAIN shown : \E j \in DOMAIN page : shown'[i] = page[j]
        /\ shown' = << >> => shown = << >> /\ page = << >>
        /\ shown # << >> => shown' # << >> /\ 1 \in DOMAIN shown
    BY <1>3, <1>4, AppendFacts
  <1>9. PagesAreTrue' /\ PagesAreTheirs' /\ PagesDescend' /\ GrantedIsMade'
    BY <1>3, <1>5, <1>6, CarriesKeeps DEF Carries, Holds
  <1>10. cursor' \in {0} \cup DOMAIN server /\ (page = << >> => cursor' = 0)
    BY <1>3, <1>4, CursorFacts
  <1>11. ServerGrows
    BY <1>3, ServerSame DEF ListInv
  <1>12. Typed'
    BY <1>3, <1>5, <1>8, <1>10, <1>11, TypedGrows DEF ListInv, Typed, CallRecords
  <1>13. PendingOwnsRow' /\ OneDecisionPerRow'
    BY <1>5, <1>6, <1>8 DEF ListInv, PendingOwnsRow, OneDecisionPerRow, Pending, Waiting
  <1>14. ShownIsTrue'
    <2> SUFFICES ASSUME NEW i \in DOMAIN shown' PROVE MadeOrUnderWay(i)'
      BY DEF ShownIsTrue
    <2>1. CASE i \in DOMAIN shown
      BY <1>2, <1>3, <1>5, <1>8, <2>1
         DEF ListInv, ShownIsTrue, MadeOrUnderWay, Waiting, Pending
    <2>2. CASE i \notin DOMAIN shown
      BY <1>3, <1>7, <1>8, <2>2 DEF MadeOrUnderWay, True
    <2> QED BY <2>1, <2>2
  <1>15. WaitersOutlive'
    BY <1>3, <1>5, <1>6 DEF ListInv, WaitersOutlive, Waiting
  <1>16. Entering' <=> Entering
    BY <1>2, <1>5, <1>6 DEF Entering, Waiting
  <1>17. RowsHaveReaders'
    <2> SUFFICES ASSUME NEW i \in DOMAIN shown'
                 PROVE  /\ shown'[i].by \in {user} \cup outlived \cup left
                        /\ InView => shown'[i].by \in {user} \cup outlived
      BY <1>3, <1>16 DEF RowsHaveReaders, InView
    <2>1. CASE i \in DOMAIN shown
      BY <1>8, <2>1 DEF ListInv, RowsHaveReaders
    <2>2. CASE i \notin DOMAIN shown
      <3>1. shown'[i].by = call[c].by
        BY <1>7, <1>8, <2>2
      <3>2. call[c].by \in {user, Nobody} \cup outlived /\ call[c].by # Nobody
        BY <1>2, <1>4, PeopleAssumption DEF ListInv, WaitersOutlive
      <3> QED BY <3>1, <3>2
    <2> QED BY <2>1, <2>2
  <1>18. EmptyListHasNoCursor'
    BY <1>8, <1>10 DEF EmptyListHasNoCursor
  <1>19. \A d \in Calls : ~Further(d)'
    BY <1>2, <1>5, <1>6 DEF ListInv, OneFurtherPage, Further, Waiting
  <1>20. OneFurtherPage' /\ FurtherPageFits'
    BY <1>19 DEF OneFurtherPage, FurtherPageFits
  <1>21. NoHole'
    <2> SUFFICES ASSUME ~torn', shown' # << >>, NEW id \in DOMAIN server,
                        (IF cursor' = 0 THEN 1 ELSE cursor') <= id, id <= shown'[1].id
                 PROVE  \E i \in DOMAIN shown' : shown'[i].id = id
      BY <1>3 DEF NoHole
    <2>1. ~torn /\ c \notin crossed
      BY <1>3
    <2>2. /\ cursor # 0 /\ shown # << >>
          /\ IF page = << >> THEN cursor = 1 ELSE page[1].id = cursor - 1
      BY <1>1, <1>2, <2>1 DEF ListInv, FurtherPageFits
    <2>3. shown'[1] = shown[1]
      BY <1>8, <2>2
    <2>4. server \in Seq(Statuses) /\ id \in Nat /\ id # 0 /\ cursor \in Nat /\ 0 \notin DOMAIN server
      BY DEF ListInv, Typed
    <2>5. CASE cursor <= id
      <3>1. \E i \in DOMAIN shown : shown[i].id = id
        BY <2>1, <2>2, <2>3, <2>5 DEF ListInv, NoHole
      <3> QED BY <1>8, <3>1
    <2>6. CASE id < cursor
      <3>1. page # << >> /\ page[1].id = cursor - 1
        BY <2>2, <2>4, <2>6
      <3>2. cursor' \in DOMAIN server
        BY <1>3, <1>4, <3>1, CursorFacts
      <3>3. NextCursor(page) <= id /\ id <= page[1].id
        BY <1>3, <2>4, <2>6, <3>1, <3>2
      <3>4. \E j \in DOMAIN page : page[j].id = id
        BY <1>4, <1>7, <2>4, <3>1, <3>3, CoversItsIds
      <3> QED BY <1>8, <3>4
    <2> QED BY <2>4, <2>5, <2>6
  <1> QED BY <1>9, <1>12, <1>13, <1>14, <1>15, <1>17, <1>18, <1>20, <1>21 DEF ListInv

-----------------------------------------------------------------------------
(* A call fails. *)

\* A call that failed is out of the list's way, and its row open again.
LEMMA FailedCall ==
  ASSUME ListInv, NEW c \in Calls, RolledBack(c), server' = server,
         DOMAIN call' = Calls, \A d \in Calls \ {c} : call'[d] = call[d],
         call'[c] \in CallRecords, ~Waiting(c)', ~Pending(c)', ~Holds(c)',
         call'[c].op \in Decisions => call'[c].pc # "granted"
  PROVE  /\ shown' \in Seq(Row) /\ DOMAIN shown' = DOMAIN shown
         /\ \A i \in DOMAIN shown : shown'[i].id = shown[i].id /\ shown'[i].by = shown[i].by
         /\ shown' = << >> <=> shown = << >>
         /\ PendingOwnsRow' /\ OneDecisionPerRow' /\ ShownIsTrue'
         /\ PagesAreTrue' /\ PagesAreTheirs' /\ PagesDescend' /\ GrantedIsMade'
         /\ \A d \in Calls : Further(d)' => Further(d) /\ d # c /\ call'[d] = call[d]
         /\ \A d \in Calls : Waiting(d)' => Waiting(d) /\ d # c /\ call'[d] = call[d]
         /\ call[c].op # "prime" => (Entering' <=> Entering)
         /\ \A d \in Calls : call'[d] \in CallRecords
  <1>1. shown \in Seq(Row)
    BY DEF ListInv, Typed
  <1>2. /\ shown' \in Seq(Row) /\ DOMAIN shown' = DOMAIN shown
        /\ \A i \in DOMAIN shown :
             /\ shown'[i].id = shown[i].id /\ shown'[i].by = shown[i].by
             /\ IF Pending(c) /\ i = call[c].at THEN ~Locked(shown'[i].status)
                                              ELSE shown'[i] = shown[i]
    <2>1. CASE Pending(c)
      <3>1. PICK at : at = call[c].at
        OBVIOUS
      <3>2. /\ at \in DOMAIN shown /\ call[c].before \in Statuses
            /\ ~Locked(call[c].before)
        BY <2>1, <3>1 DEF ListInv, PendingOwnsRow
      <3>3. shown' = [shown EXCEPT ![at].status = call[c].before]
        BY <2>1, <3>1 DEF RolledBack, Pending
      <3>4. /\ shown' \in Seq(Row) /\ DOMAIN shown' = DOMAIN shown
            /\ \A i \in DOMAIN shown : /\ shown'[i].id = shown[i].id
                                       /\ shown'[i].by = shown[i].by
                                       /\ i # at => shown'[i] = shown[i]
            /\ shown'[at].status = call[c].before
        BY <1>1, <3>2, <3>3, StatusFacts
      <3> QED BY <2>1, <3>1, <3>2, <3>4
    <2>2. CASE ~Pending(c)
      <3>1. shown' = shown
        BY <2>2 DEF RolledBack, Pending
      <3> QED BY <1>1, <2>2, <3>1
    <2> QED BY <2>1, <2>2
  <1>3. shown' = << >> <=> shown = << >>
    BY <1>1, <1>2
  <1>4. \A d \in Calls : Pending(d)' => Pending(d) /\ d # c /\ call'[d] = call[d]
    BY DEF Pending
  <1>5. PendingOwnsRow'
    <2> SUFFICES ASSUME NEW d \in Calls, Pending(d), d # c, call'[d] = call[d]
                 PROVE  /\ Waiting(d)
                        /\ call[d].at \in DOMAIN shown'
                        /\ shown'[call[d].at].id = call[d].about
                        /\ shown'[call[d].at].status = Target(call[d].op)
                        /\ call[d].before \in Statuses /\ ~Locked(call[d].before)
      BY <1>4 DEF PendingOwnsRow, Waiting
    <2>1. /\ Waiting(d) /\ call[d].at \in DOMAIN shown
          /\ shown[call[d].at].id = call[d].about
          /\ shown[call[d].at].status = Target(call[d].op)
          /\ call[d].before \in Statuses /\ ~Locked(call[d].before)
      BY DEF ListInv, PendingOwnsRow
    <2>2. Pending(c) => call[d].at # call[c].at
      BY DEF ListInv, OneDecisionPerRow
    <2> QED BY <1>2, <2>1, <2>2
  <1>6. OneDecisionPerRow'
    BY <1>4 DEF ListInv, OneDecisionPerRow
  <1>7. ShownIsTrue'
    <2> SUFFICES ASSUME NEW i \in DOMAIN shown PROVE MadeOrUnderWay(i)'
      BY <1>2 DEF ShownIsTrue
    <2>1. CASE Pending(c) /\ i = call[c].at
      BY <1>2, <2>1 DEF MadeOrUnderWay
    <2>2. CASE ~(Pending(c) /\ i = call[c].at)
      <3>1. shown'[i] = shown[i] /\ i # 0
        BY <1>1, <1>2, <2>2
      <3>2. MadeOrUnderWay(i)
        BY DEF ListInv, ShownIsTrue
      <3> QED BY <2>2, <3>1, <3>2 DEF MadeOrUnderWay, Pending, Waiting
    <2> QED BY <2>1, <2>2
  <1>8. \A d \in Calls : Carries(d)
    BY DEF Carries, Holds
  <1>9. PagesAreTrue' /\ PagesAreTheirs' /\ PagesDescend' /\ GrantedIsMade'
    BY <1>8, CarriesKeeps
  <1>10. \A d \in Calls : Waiting(d)' => Waiting(d) /\ d # c /\ call'[d] = call[d]
    BY DEF Waiting
  <1>11. \A d \in Calls : Further(d)' => Further(d) /\ d # c /\ call'[d] = call[d]
    BY <1>10 DEF Further
  <1>12. call[c].op # "prime" => (Entering' <=> Entering)
    BY <1>10 DEF Entering, Waiting
  <1>13. \A d \in Calls : call'[d] \in CallRecords
    BY DEF ListInv, Typed
  <1> QED BY <1>2, <1>3, <1>5, <1>6, <1>7, <1>9, <1>10, <1>11, <1>12, <1>13

LEMMA HearRefusalKeeps ==
  ASSUME ListInv, NEW c \in Calls, HearRefusal(c)
  PROVE  ListInv'
  <1>1. /\ call[c].op # "none" /\ call[c].pc = "refused" /\ Waiting(c) /\ RolledBack(c)
        /\ failed' = (failed \/ call[c].op \in Fetches)
        /\ loadingMore' = (loadingMore /\ call[c].op # "more")
        /\ cursor' = IF call[c].op = "more" THEN 0 ELSE cursor
        /\ user' \in {user, Nobody} /\ call' = [call EXCEPT ![c] = Idle]
        /\ IF user' # user THEN Leave(Calls \ {c}) /\ left' = left \cup {user}
                           ELSE outlived' = outlived /\ left' = left
        /\ crossed' = crossed \ {c} /\ torn' = (torn \/ call[c].op = "more")
        /\ server' = server
    BY DEF HearRefusal, Fails, Waiting
  <1>2. /\ DOMAIN call' = Calls /\ call'[c] = Idle
        /\ \A d \in Calls \ {c} : call'[d] = call[d]
    BY <1>1 DEF ListInv, Typed
  <1>3. /\ ~Waiting(c)' /\ ~Pending(c)' /\ ~Holds(c)' /\ call'[c].op \notin Decisions
        /\ call'[c] \in CallRecords
    BY <1>2, KindFacts DEF Waiting, Pending, Holds, CallRecords
  <1>4. /\ shown' \in Seq(Row) /\ DOMAIN shown' = DOMAIN shown
        /\ \A i \in DOMAIN shown : shown'[i].id = shown[i].id /\ shown'[i].by = shown[i].by
        /\ shown' = << >> <=> shown = << >>
        /\ PendingOwnsRow' /\ OneDecisionPerRow' /\ ShownIsTrue'
        /\ PagesAreTrue' /\ PagesAreTheirs' /\ PagesDescend' /\ GrantedIsMade'
        /\ \A d \in Calls : Further(d)' => Further(d) /\ d # c /\ call'[d] = call[d]
        /\ \A d \in Calls : Waiting(d)' => Waiting(d) /\ d # c /\ call'[d] = call[d]
        /\ call[c].op # "prime" => (Entering' <=> Entering)
        /\ \A d \in Calls : call'[d] \in CallRecords
    BY <1>1, <1>2, <1>3, FailedCall
  <1>5. ServerGrows
    BY <1>1, ServerSame DEF ListInv
  <1>6. user' # user => /\ user' = Nobody /\ outlived' \subseteq People
                        /\ outlived \subseteq outlived'
                        /\ left' = left \cup {user} /\ user \in People
                        /\ \A d \in Calls \ {c} : Waiting(d) => call[d].by \in {Nobody} \cup outlived'
    BY <1>1, LeaveFacts DEF ListInv, Typed
  <1>7. Typed'
    BY <1>1, <1>2, <1>4, <1>5, <1>6, TypedGrows DEF ListInv, Typed
  <1>8. WaitersOutlive'
    BY <1>1, <1>4, <1>6 DEF ListInv, WaitersOutlive
  \* What still holds of the view held before: a fetch that failed hides it.
  <1>9. user' # Nobody /\ ~Entering' /\ ~failed' =>
          user' = user /\ outlived' = outlived /\ user # Nobody /\ ~Entering /\ ~failed
    BY <1>1, <1>4, KindFacts
  <1>10. RowsHaveReaders'
    BY <1>1, <1>4, <1>6, <1>9 DEF ListInv, RowsHaveReaders, InView
  <1>11. EmptyListHasNoCursor'
    BY <1>1, <1>4, <1>9 DEF ListInv, EmptyListHasNoCursor, InView
  <1>12. call[c].op = "more" => \A d \in Calls : ~Further(d)'
    BY <1>1, <1>4 DEF ListInv, OneFurtherPage, Further
  <1>13. OneFurtherPage'
    BY <1>1, <1>4, <1>12 DEF ListInv, OneFurtherPage
  <1>14. FurtherPageFits'
    BY <1>1, <1>4, <1>12 DEF ListInv, FurtherPageFits
  <1>15. NoHole'
    <2>1. CASE torn'
      BY <2>1 DEF NoHole
    <2>2. CASE ~torn'
      BY <1>1, <1>4, <2>2, IdsStay DEF ListInv, Typed
    <2> QED BY <2>1, <2>2
  <1> QED BY <1>4, <1>7, <1>8, <1>10, <1>11, <1>13, <1>14, <1>15 DEF ListInv

LEMMA HearNothingKeeps ==
  ASSUME ListInv, NEW c \in Calls, HearNothing(c)
  PROVE  ListInv'
  <1>1. PICK record :
        /\ Waiting(c) /\ RolledBack(c)
        /\ failed' = (failed \/ call[c].op \in Fetches)
        /\ loadingMore' = (loadingMore /\ call[c].op # "more")
        /\ record = (IF call[c].op \in Posts /\ call[c].pc = "sent"
                       THEN [call[c] EXCEPT !.pc = "forgotten", !.at = 0, !.before = ""] ELSE Idle)
        /\ call' = [call EXCEPT ![c] = record]
        /\ crossed' = crossed \ {c}
        /\ UNCHANGED <<server, user, cursor, outlived, left, torn>>
    BY DEF HearNothing, Fails
  <1>2. /\ DOMAIN call' = Calls /\ call'[c] = record
        /\ \A d \in Calls \ {c} : call'[d] = call[d]
    BY <1>1 DEF ListInv, Typed
  <1>3. /\ ~Waiting(c)' /\ ~Pending(c)' /\ ~Holds(c)' /\ record \in CallRecords
        /\ call'[c].op \in Decisions => call'[c].pc # "granted"
    <2>1. CASE call[c].op \in Posts /\ call[c].pc = "sent"
      <3>1. call[c] \in PostCalls
        BY <2>1, RecordFacts DEF ListInv
      <3> DEFINE new == [call[c] EXCEPT !.pc = "forgotten", !.at = 0, !.before = ""]
      <3>2. new \in PostCalls /\ new.pc = "forgotten" /\ new.at = 0
        BY <3>1 DEF PostCalls
      <3>3. record = new
        BY <1>1, <2>1
      <3> HIDE DEF new
      <3> QED BY <1>2, <3>2, <3>3 DEF Waiting, Pending, Holds, CallRecords
    <2>2. CASE ~(call[c].op \in Posts /\ call[c].pc = "sent")
      <3>1. record = Idle
        BY <1>1, <2>2
      <3> QED BY <1>2, <3>1, KindFacts DEF Waiting, Pending, Holds, CallRecords
    <2> QED BY <2>1, <2>2
  <1>4. /\ shown' \in Seq(Row) /\ DOMAIN shown' = DOMAIN shown
        /\ \A i \in DOMAIN shown : shown'[i].id = shown[i].id /\ shown'[i].by = shown[i].by
        /\ shown' = << >> <=> shown = << >>
        /\ PendingOwnsRow' /\ OneDecisionPerRow' /\ ShownIsTrue'
        /\ PagesAreTrue' /\ PagesAreTheirs' /\ PagesDescend' /\ GrantedIsMade'
        /\ \A d \in Calls : Further(d)' => Further(d) /\ d # c /\ call'[d] = call[d]
        /\ \A d \in Calls : Waiting(d)' => Waiting(d) /\ d # c /\ call'[d] = call[d]
        /\ call[c].op # "prime" => (Entering' <=> Entering)
        /\ \A d \in Calls : call'[d] \in CallRecords
    BY <1>1, <1>2, <1>3, FailedCall
  <1>5. ServerGrows
    BY <1>1, ServerSame DEF ListInv
  <1>7. Typed'
    BY <1>1, <1>2, <1>4, <1>5, TypedGrows DEF ListInv, Typed
  <1>8. WaitersOutlive'
    BY <1>1, <1>4 DEF ListInv, WaitersOutlive
  <1>9. user' # Nobody /\ ~Entering' /\ ~failed' => ~Entering /\ ~failed
    BY <1>1, <1>4, KindFacts
  <1>10. RowsHaveReaders'
    BY <1>1, <1>4, <1>9 DEF ListInv, RowsHaveReaders, InView
  <1>11. EmptyListHasNoCursor'
    BY <1>1, <1>4, <1>9 DEF ListInv, EmptyListHasNoCursor, InView
  <1>12. call[c].op = "more" => \A d \in Calls : ~Further(d)'
    BY <1>1, <1>4 DEF ListInv, OneFurtherPage, Further
  <1>13. OneFurtherPage'
    BY <1>1, <1>4, <1>12 DEF ListInv, OneFurtherPage
  <1>14. FurtherPageFits'
    BY <1>1, <1>4, <1>12 DEF ListInv, FurtherPageFits
  <1>15. NoHole'
    BY <1>1, <1>4, IdsStay DEF ListInv, Typed
  <1> QED BY <1>4, <1>7, <1>8, <1>10, <1>11, <1>13, <1>14, <1>15 DEF ListInv

-----------------------------------------------------------------------------
(* The theorems. *)

LEMMA InitListInv == ListInit => ListInv
  <1> SUFFICES ASSUME ListInit PROVE ListInv
    OBVIOUS
  <1>1. \A c \in Calls : call[c] = Idle
    BY DEF ListInit
  <1>2. \A c \in Calls : ~Waiting(c) /\ ~Pending(c) /\ ~Holds(c) /\ ~Further(c) /\ call[c].op \notin Decisions
    BY <1>1, KindFacts DEF Waiting, Pending, Holds, Further
  <1>3. Typed
    <2>1. << >> \in Seq(Statuses) /\ << >> \in Seq(Row)
      OBVIOUS
    <2>2. DOMAIN call = Calls /\ \A c \in Calls : call[c] \in CallRecords
      BY <1>1 DEF ListInit, CallRecords
    <2> QED BY <2>1, <2>2 DEF ListInit, Typed
  <1>4. PendingOwnsRow /\ OneDecisionPerRow /\ GrantedIsMade /\ PagesAreTrue
    BY <1>2 DEF PendingOwnsRow, OneDecisionPerRow, GrantedIsMade, PagesAreTrue
  <1>5. WaitersOutlive /\ PagesAreTheirs /\ OneFurtherPage /\ PagesDescend /\ FurtherPageFits
    BY <1>2
       DEF WaitersOutlive, PagesAreTheirs, OneFurtherPage, PagesDescend, FurtherPageFits
  <1>6. ShownIsTrue /\ RowsHaveReaders /\ EmptyListHasNoCursor /\ NoHole
    BY
       DEF ListInit, ShownIsTrue, RowsHaveReaders, EmptyListHasNoCursor,
           NoHole
  <1> QED BY <1>3, <1>4, <1>5, <1>6 DEF ListInv

LEMMA NextListInv == ListInv /\ [ListNext]_listVars => ListInv'
  <1> SUFFICES ASSUME ListInv, [ListNext]_listVars PROVE ListInv'
    OBVIOUS
  <1>1. CASE Submit
    BY <1>1, SubmitKeeps
  <1>2. ASSUME NEW id \in DOMAIN server, NEW op \in Posts, ReviewElsewhere(id, op) PROVE ListInv'
    BY <1>2, ReviewElsewhereKeeps
  <1>3. CASE SignOut
    BY <1>3, SignOutKeeps
  <1>4. ASSUME NEW c \in Calls, Serve(c) PROVE ListInv'
    <2>1. call[c] # Idle /\ UNCHANGED <<user, shown, cursor, failed, loadingMore, history>>
      BY <1>4 DEF Serve
    <2>2. CASE GrantRead(c)
      BY <2>1, <2>2, GrantReadKeeps
    <2>3. CASE GrantPost(c)
      BY <2>1, <2>3, GrantPostKeeps
    <2>4. CASE RefuseCall(c)
      BY <2>1, <2>4, RefuseCallKeeps
    <2> QED BY <1>4, <2>2, <2>3, <2>4 DEF Serve
  <1>5. ASSUME NEW c \in Calls, NEW p \in People, SignIn(c, p) PROVE ListInv'
    BY <1>5, SignInKeeps
  <1>6. ASSUME NEW c \in Calls, Refresh(c) \/ LoadMore(c) PROVE ListInv'
    BY <1>6, RefreshKeeps, LoadMoreKeeps
  <1>7. ASSUME NEW c \in Calls, NEW id \in DOMAIN server, NEW op \in Posts,
               Decide(c, id, op) \/ Ask(c, id, op)
        PROVE  ListInv'
    BY <1>7, DecideKeeps, AskKeeps
  <1>8. ASSUME NEW c \in Calls, HearPage(c) PROVE ListInv'
    <2>1. call[c].op \in Fetches \/ call[c].op = "more"
      BY <1>8 DEF HearPage
    <2> QED BY <1>8, <2>1, HearFetchKeeps, HearMoreKeeps
  <1>9. ASSUME NEW c \in Calls, HearPostGranted(c) \/ HearRefusal(c) \/ HearNothing(c) PROVE ListInv'
    BY <1>9, HearPostGrantedKeeps, HearRefusalKeeps, HearNothingKeeps
  <1>10. CASE UNCHANGED listVars
    <2>1. UNCHANGED <<server, user, shown, cursor, failed, loadingMore, call, history>>
      BY <1>10 DEF listVars
    <2>2. ServerGrows /\ DOMAIN call' = Calls
      BY <2>1, ServerSame DEF ListInv, Typed
    <2>3. {} \in SUBSET Calls /\ \A c \in {} : Quiet(c)
      OBVIOUS
    <2> QED BY <2>1, <2>2, <2>3, QuietKeeps
  <1> QED BY <1>1, <1>2, <1>3, <1>4, <1>5, <1>6, <1>7, <1>8, <1>9, <1>10 DEF ListNext

\* The invariant of the list, whatever the order of answers, decisions,
\* refetches, timeouts and sessions (lib/management/expense_store.dart).
THEOREM ListInvariant == ListSpec => []ListInv
  BY InitListInv, NextListInv, PTL DEF ListSpec

\* A decision stays on the screen only if it was made, and a rollback finds its
\* row (approve, reject).
THEOREM DecisionsWereMade == ListSpec => []DecisionsShownWereMade
  <1>1. ListInv => DecisionsShownWereMade
    <2> SUFFICES ASSUME ListInv PROVE DecisionsShownWereMade
      OBVIOUS
    <2>1. ListTypeOK
      BY DEF ListInv, Typed, PendingOwnsRow, Pending, ListTypeOK
    <2> QED BY <2>1 DEF ListInv, ShownIsTrue, DecisionsShownWereMade
  <1> QED BY <1>1, ListInvariant, PTL

\* The list has no hole unless a further page was refused or crossed a refetch
\* (fetchExpensesFromBackend, loadMoreExpenses).
THEOREM HolesComeFromTornPages == ListSpec => []HolesOnlyAfterTornPages
  <1>1. ListInv => HolesOnlyAfterTornPages
    BY PlaceFacts DEF ListInv, Typed, NoHole, HolesOnlyAfterTornPages
  <1> QED BY <1>1, ListInvariant, PTL

\* Rows read for somebody else came with a call that outlived their session,
\* or stayed behind when a session ended on a 401 and no fetch has succeeded
\* since (resetForSignOut; lib/main.dart onSessionExpired).
THEOREM ForeignRowsComeFromLateCalls == ListSpec => []ForeignRowsOutlivedASession
  <1>1. ListInv => ForeignRowsOutlivedASession
    BY DEF ListInv, Typed, RowsHaveReaders, InView, ForeignRowsOutlivedASession
  <1> QED BY <1>1, ListInvariant, PTL
=============================================================================
