-------------------------- MODULE AccountTimes_proofs --------------------------
(***************************************************************************)
(* Proofs about the two parts of the system that compare times of          *)
(* transactions.                                                           *)
(*                                                                         *)
(* EmployeeStatus, for any number of calls, statuses and records: the open *)
(* record is the last one, so the record a call has closed but not         *)
(* committed (Fits) is the last one too, nobody else has closed it, and    *)
(* whoever commits first leaves no such call behind.                       *)
(*                                                                         *)
(* SignInLimits, for any finite number of sign-ins, any accounts and       *)
(* limits: a request that has passed the SELECT and will raise the present *)
(* window counts as a hit already (Charging), so the first one past the    *)
(* limit is refused, and only the others under way come on top of it; a    *)
(* request that was counted and has not checked its password yet (Pending) *)
(* counts as a guess already.                                              *)
(***************************************************************************)
EXTENDS EmployeeStatus, SignInLimits, FiniteSetTheorems, TLAPS

-----------------------------------------------------------------------------
(* The status log. *)

Record == [status : Statuses, from : Times, to : 0 .. Never]
UnderWay ==
  [pc : {"read", "close", "closing", "insert"}, to : Statuses,
   at : Times, seen : 0 .. MaxRecords, row : 0 .. MaxRecords]
Changes == {Quiet} \cup UnderWay

Typed ==
  /\ now \in Times
  /\ log \in Seq(Record) /\ Len(log) <= MaxRecords
  /\ change \in [Calls -> Changes]
  /\ stale \subseteq 1 .. MaxRecords

OneLine ==
  /\ \A i \in DOMAIN log : log[i].from < log[i].to
  /\ \A i \in 1 .. Len(log) - 1 : log[i].to = log[i + 1].from
  /\ Len(log) > 0 => log[Len(log)].to = Never

\* What call c knows in state s of its own: the record it has closed is the
\* last one and its alone; the last record it has read has another status.
ClosesTheLast(c, s) ==
  s.pc = "insert" /\ s.row # 0 =>
    /\ s.row = Len(log)
    /\ s.at > log[Len(log)].from
    /\ \A d \in Calls \ {c} : ~Holds(d, s.row)

HasRead(s) ==
  /\ s.pc \in {"read", "close"} => s.row = 0
  /\ s.pc \in {"close", "closing", "insert"} =>
       /\ s.seen <= Len(log)
       /\ s.seen = Len(log) /\ s.seen > 0 => log[s.seen].status # s.to

Fits(c, s) == ClosesTheLast(c, s) /\ HasRead(s)

\* The inductive invariant.
IInv == Typed /\ OneLine /\ CleanUnlessOvertaken /\ \A c \in Calls : Fits(c, change[c])

-----------------------------------------------------------------------------
LEMMA TimesAreNumbers ==
  /\ Never \in Nat
  /\ \A t \in Times : t \in Nat /\ t < Never
  BY MaxTimeAssumption DEF Never, Times

LEMMA RecordsAreTyped ==
  ASSUME Typed
  PROVE  /\ Len(log) \in Nat /\ DOMAIN log = 1 .. Len(log)
         /\ \A i \in 1 .. Len(log) : log[i] \in Record
  BY DEF Typed

\* The open record is the last one.
LEMMA OpenIsLast ==
  ASSUME Typed, OneLine
  PROVE  \A i : i \in Open <=> i = Len(log) /\ Len(log) > 0
  <1>1. ASSUME NEW i \in Open, i # Len(log)
        PROVE  FALSE
    <2>1. i \in 1 .. Len(log) - 1 /\ log[i].to = Never
      BY <1>1, RecordsAreTyped DEF Open
    <2>2. log[i + 1] \in Record
      BY <2>1, RecordsAreTyped
    <2>3. log[i].to \in Times
      BY <2>1, <2>2 DEF OneLine, Record
    <2> QED
      BY <2>1, <2>3, TimesAreNumbers
  <1>2. ASSUME Len(log) > 0
        PROVE  Len(log) \in Open
    BY <1>2, RecordsAreTyped DEF Open, OneLine
  <1>3. Open \subseteq 1 .. Len(log)
    BY RecordsAreTyped DEF Open
  <1>4. Len(log) \in Nat
    BY RecordsAreTyped
  <1>5. ASSUME NEW i, i \in Open
        PROVE  i = Len(log) /\ Len(log) > 0
    <2>1. i = Len(log)
      BY <1>1, <1>5
    <2>2. i \in 1 .. Len(log)
      BY <1>3, <1>5
    <2> QED
      BY <2>1, <2>2, <1>4
  <1> QED
    BY <1>2, <1>5

\* Arithmetic of places.
LEMMA Before ==
  ASSUME NEW n \in Nat, NEW i \in 1 .. n, i # n
  PROVE  i \in 1 .. n - 1 /\ i + 1 \in 1 .. n
  OBVIOUS

LEMMA Active ==
  ASSUME NEW s \in Changes, s.pc # "idle"
  PROVE  s \in UnderWay
  BY DEF Changes, Quiet

\* A step of one call that writes nothing.
LEMMA CallOnly ==
  ASSUME IInv, UNCHANGED <<now, log, stale>>, NEW c \in Calls, NEW s \in Changes,
         change' = [change EXCEPT ![c] = s], Fits(c, s)
  PROVE  IInv'
  <1>1. /\ change' \in [Calls -> Changes]
        /\ change'[c] = s
        /\ \A d \in Calls : d # c => change'[d] = change[d]
    BY DEF IInv, Typed
  <1>2. Typed' /\ OneLine' /\ CleanUnlessOvertaken'
    BY <1>1 DEF IInv, Typed, OneLine, CleanUnlessOvertaken, Same
  <1>3. Fits(c, change[c])'
    BY <1>1 DEF Fits, ClosesTheLast, HasRead, Holds
  <1>4. ASSUME NEW d \in Calls, d # c
        PROVE  Fits(d, change[d])'
    <2>1. Fits(d, change[d]) /\ change'[d] = change[d]
      BY <1>1, <1>4 DEF IInv
    <2>2. HasRead(change[d])'
      BY <2>1 DEF Fits, HasRead
    <2>3. ASSUME change[d].pc = "insert", change[d].row # 0, NEW e \in Calls \ {d},
                 Holds(e, change[d].row)'
          PROVE  FALSE
      <3>1. CASE e = c
        <4>1. s.pc = "insert" /\ s.row # 0 /\ s.row = change[d].row
          BY <1>1, <2>1, <2>3, <3>1 DEF Holds
        <4>2. ~Holds(d, s.row)
          BY <1>4, <4>1 DEF Fits, ClosesTheLast
        <4> QED
          BY <2>3, <4>1, <4>2 DEF Holds
      <3>2. CASE e # c
        BY <1>1, <2>1, <2>3, <3>2 DEF Fits, ClosesTheLast, Holds
      <3> QED
        BY <3>1, <3>2
    <2>4. ClosesTheLast(d, change[d])'
      BY <2>1, <2>3 DEF Fits, ClosesTheLast
    <2> QED
      BY <2>2, <2>4 DEF Fits
  <1> QED
    BY <1>2, <1>3, <1>4 DEF IInv

LEMMA CloseKeeps ==
  ASSUME IInv, NEW c \in Calls, Close(c), UNCHANGED <<now, log, stale>>
  PROVE  IInv'
  <1>1. Quiet \in Changes /\ Fits(c, Quiet)
    BY DEF Changes, Quiet, Fits, ClosesTheLast, HasRead
  <1> QED
    BY <1>1, CallOnly DEF Close

LEMMA BeginKeeps ==
  ASSUME IInv, NEW c \in Calls, NEW to \in Statuses, Begin(c, to)
  PROVE  IInv'
  <1> DEFINE s == [pc |-> "read", to |-> to, at |-> now, seen |-> 0, row |-> 0]
  <1>1. s \in Changes
    BY MaxRecordsAssumption DEF IInv, Typed, Changes, UnderWay
  <1>2. Fits(c, s)
    BY DEF Fits, ClosesTheLast, HasRead
  <1>3. change' = [change EXCEPT ![c] = s] /\ UNCHANGED <<now, log, stale>>
    BY DEF Begin
  <1> HIDE DEF s
  <1> QED
    BY <1>1, <1>2, <1>3, CallOnly

LEMMA ReadKeeps ==
  ASSUME IInv, NEW c \in Calls, get_active_status(c)
  PROVE  IInv'
  <1>1. /\ Typed /\ OneLine /\ Fits(c, change[c]) /\ change[c].pc = "read" /\ change[c] \in Changes
        /\ UNCHANGED <<now, log, stale>>
    BY DEF IInv, Typed, get_active_status
  <1>2. CASE \E i \in Open : log[i].status = change[c].to
    BY <1>1, <1>2, CloseKeeps DEF get_active_status
  <1>3. CASE ~\E i \in Open : log[i].status = change[c].to
    <2> DEFINE s == [change[c] EXCEPT !.pc = IF Open = {} THEN "insert" ELSE "close", !.seen = Len(log)]
    <2>1. Len(log) \in 0 .. MaxRecords
      BY <1>1, RecordsAreTyped, MaxRecordsAssumption DEF Typed
    <2>2. change' = [change EXCEPT ![c] = s]
      BY <1>1, <1>3 DEF get_active_status, Typed
    <2>3. /\ s \in Changes /\ s.to = change[c].to /\ s.row = 0 /\ s.seen = Len(log)
          /\ s.pc = (IF Open = {} THEN "insert" ELSE "close")
      <3>1. change[c] \in UnderWay /\ change[c].row = 0
        BY <1>1, Active DEF Fits, HasRead
      <3>2. s \in UnderWay
        BY <2>1, <3>1 DEF UnderWay
      <3> QED
        BY <3>1, <3>2 DEF Changes, UnderWay
    <2>4. Len(log) > 0 => log[Len(log)].status # change[c].to
      BY <1>1, <1>3, OpenIsLast
    <2> HIDE DEF s
    <2>5. Fits(c, s)
      BY <1>1, <2>1, <2>3, <2>4 DEF Fits, ClosesTheLast, HasRead
    <2> QED
      BY <1>1, <2>2, <2>3, <2>5, CallOnly
  <1> QED
    BY <1>2, <1>3

LEMMA StartClosingKeeps ==
  ASSUME IInv, NEW c \in Calls, StartClosing(c)
  PROVE  IInv'
  <1> DEFINE row == IF Open = {} THEN 0 ELSE CHOOSE i \in Open : TRUE
             s == [change[c] EXCEPT !.pc = "closing", !.row = row]
  <1>1. /\ Typed /\ OneLine /\ Fits(c, change[c]) /\ change[c].pc = "close" /\ change[c] \in Changes
        /\ UNCHANGED <<now, log, stale>>
    BY DEF IInv, Typed, StartClosing
  <1>2. row \in 0 .. MaxRecords
    <2>1. \A i \in Open : i \in 0 .. MaxRecords
      BY <1>1, OpenIsLast, RecordsAreTyped, MaxRecordsAssumption DEF Typed
    <2> QED
      BY <2>1, MaxRecordsAssumption
  <1>3. change' = [change EXCEPT ![c] = s]
    BY <1>1 DEF StartClosing, Typed
  <1> HIDE DEF row
  <1>4. s \in Changes /\ s.pc = "closing" /\ s.to = change[c].to /\ s.seen = change[c].seen
    <2>1. change[c] \in UnderWay
      BY <1>1, Active
    <2>2. s \in UnderWay
      BY <1>2, <2>1 DEF UnderWay
    <2> QED
      BY <2>1, <2>2 DEF Changes, UnderWay
  <1> HIDE DEF s
  <1>5. Fits(c, s)
    BY <1>1, <1>4 DEF Fits, ClosesTheLast, HasRead
  <1> QED
    BY <1>1, <1>3, <1>4, <1>5, CallOnly

\* The record it closes is open, so it is the last; whoever has closed it
\* already is waited for.
LEMMA CloseStatusKeeps ==
  ASSUME IInv, NEW c \in Calls, close_status(c)
  PROVE  IInv'
  <1>1. /\ Typed /\ OneLine /\ Fits(c, change[c]) /\ change[c].pc = "closing" /\ change[c] \in Changes
        /\ Free(c, change[c].row)
        /\ UNCHANGED <<now, log, stale>>
    BY DEF IInv, Typed, close_status
  <1>2. ASSUME NEW s \in Changes, change' = [change EXCEPT ![c] = s], s.pc = "insert",
               s.to = change[c].to, s.seen = change[c].seen, s.at = change[c].at,
               s.row = 0 \/ (s.row = change[c].row /\ s.row \in Open /\ s.at > log[s.row].from)
        PROVE  IInv'
    <2>1. ClosesTheLast(c, s)
      BY <1>1, <1>2, OpenIsLast DEF ClosesTheLast, Free
    <2>2. HasRead(s)
      BY <1>1, <1>2 DEF Fits, HasRead
    <2> QED
      BY <1>1, <1>2, <2>1, <2>2, CallOnly DEF Fits
  <1>3. CASE change[c].row \notin Open
    <2> DEFINE s == [change[c] EXCEPT !.pc = "insert", !.row = 0]
    <2>1. change' = [change EXCEPT ![c] = s]
      BY <1>1, <1>3 DEF close_status, Typed
    <2>2. s \in Changes /\ s.pc = "insert" /\ s.row = 0
          /\ s.to = change[c].to /\ s.seen = change[c].seen /\ s.at = change[c].at
      <3>1. change[c] \in UnderWay
        BY <1>1, Active
      <3>2. 0 \in 0 .. MaxRecords /\ "insert" \in {"read", "close", "closing", "insert"}
        BY MaxRecordsAssumption
      <3>3. s \in UnderWay
        BY <3>1, <3>2 DEF UnderWay
      <3> QED
        BY <3>1, <3>3 DEF Changes, UnderWay
    <2> HIDE DEF s
    <2> QED
      BY <1>2, <2>1, <2>2
  <1>4. CASE change[c].row \in Open /\ change[c].at > log[change[c].row].from
    <2> DEFINE s == [change[c] EXCEPT !.pc = "insert"]
    <2>1. change' = [change EXCEPT ![c] = s]
      BY <1>1, <1>4 DEF close_status, chk_status_dates, Goto, Typed
    <2>2. s \in Changes /\ s.pc = "insert" /\ s.row = change[c].row
          /\ s.to = change[c].to /\ s.seen = change[c].seen /\ s.at = change[c].at
      <3>1. change[c] \in UnderWay
        BY <1>1, Active
      <3>2. s \in UnderWay
        BY <3>1 DEF UnderWay
      <3> QED
        BY <3>1, <3>2 DEF Changes, UnderWay
    <2> HIDE DEF s
    <2> QED
      BY <1>2, <1>4, <2>1, <2>2
  <1>5. CASE change[c].row \in Open /\ ~(change[c].at > log[change[c].row].from)
    BY <1>1, <1>5, CloseKeeps DEF close_status, chk_status_dates
  <1> QED
    BY <1>3, <1>4, <1>5

-----------------------------------------------------------------------------
\* A new record goes behind the last one, which it closes.
LEMMA RecordKeeps ==
  ASSUME IInv, NEW c \in Calls, create_status(c), ~single_active(c)
  PROVE  IInv'
  <1> DEFINE n == Len(log)
             at == change[c].at
             to == change[c].to
             new == [status |-> to, from |-> at, to |-> Never]
  <1>1. /\ Typed /\ OneLine /\ Fits(c, change[c]) /\ change[c].pc = "insert" /\ change[c] \in Changes
        /\ n < MaxRecords /\ Close(c) /\ now' = now
        /\ stale' = IF change[c].seen < n THEN stale \cup {n + 1} ELSE stale
    BY DEF IInv, Typed, create_status
  <1>2. at \in Times /\ to \in Statuses /\ change[c].row \in 0 .. MaxRecords /\ change[c].seen \in 0 .. MaxRecords
    BY <1>1, Active DEF UnderWay
  <1>3. n \in Nat /\ DOMAIN log = 1 .. n /\ \A i \in 1 .. n : log[i] \in Record
    BY <1>1, RecordsAreTyped
  <1>n. n \in Nat
    BY <1>3
  <1>4. new \in Record
    BY <1>2, TimesAreNumbers DEF Record
  <1>5. change[c].row = n
    <2>1. CASE change[c].row = 0
      BY <1>1, <1>3, <2>1, OpenIsLast DEF single_active
    <2>2. CASE change[c].row # 0
      BY <1>1, <2>2 DEF Fits, ClosesTheLast
    <2> QED
      BY <2>1, <2>2
  <1>6. n > 0 => at > log[n].from
    BY <1>1, <1>5 DEF Fits, ClosesTheLast
  <1> DEFINE closed == IF n = 0 THEN log ELSE [log EXCEPT ![n].to = at]
  <1>7. log' = Append(closed, new)
    BY <1>5 DEF create_status
  <1>8. /\ closed \in Seq(Record) /\ Len(closed) = n
        /\ \A i \in 1 .. n : i # n => closed[i] = log[i]
        /\ n > 0 => closed[n] = [log[n] EXCEPT !.to = at]
    <2>1. CASE n = 0
      BY <1>1, <1>3, <2>1 DEF Typed
    <2>2. CASE n > 0
      <3>1. [log[n] EXCEPT !.to = at] \in Record
        BY <1>2, <1>3, <2>2, TimesAreNumbers DEF Record
      <3> DEFINE r == [log[n] EXCEPT !.to = at]
      <3>2. closed = [log EXCEPT ![n] = r]
        BY <1>3, <2>2
      <3> HIDE DEF r, closed
      <3>3. closed \in Seq(Record) /\ Len(closed) = n
        BY <1>1, <1>3, <2>2, <3>1, <3>2 DEF Typed, r
      <3> QED
        BY <1>3, <2>2, <3>2, <3>3 DEF r
    <2> QED
      BY <1>3, <2>1, <2>2
  <1> HIDE DEF new, closed
  <1>9. /\ log' \in Seq(Record) /\ Len(log') = n + 1
        /\ \A i \in 1 .. n : log'[i] = closed[i]
        /\ log'[n + 1] = new
    BY <1>3, <1>4, <1>7, <1>8
  <1>10. /\ \A i \in 1 .. n : log'[i].from = log[i].from /\ log'[i].status = log[i].status
         /\ \A i \in 1 .. n : i # n => log'[i].to = log[i].to
         /\ n > 0 => log'[n].to = at
    <2>1. ASSUME NEW i \in 1 .. n, i # n
          PROVE  log'[i] = log[i]
      BY <1>8, <1>9, <2>1
    <2>2. ASSUME n > 0
          PROVE  /\ log'[n].from = log[n].from /\ log'[n].status = log[n].status
                 /\ log'[n].to = at
      <3>1. n \in 1 .. n /\ log[n] \in Record
        BY <1>3, <1>n, <2>2
      <3>2. log'[n] = [log[n] EXCEPT !.to = at]
        BY <1>8, <1>9, <2>2, <3>1
      <3> QED
        BY <3>1, <3>2 DEF Record
    <2> QED
      BY <1>n, <2>1, <2>2
  <1>11. new.from = at /\ new.to = Never /\ new.status = to
    BY DEF new
  <1>12. /\ change' \in [Calls -> Changes] /\ change'[c] = Quiet
         /\ \A d \in Calls : d # c => change'[d] = change[d]
    BY <1>1 DEF Close, Typed, Changes
  <1>13. Typed'
    <2>1. n + 1 \in 1 .. MaxRecords /\ n + 1 <= MaxRecords
      BY <1>1, <1>n, MaxRecordsAssumption
    <2>2. stale' \subseteq 1 .. MaxRecords
      BY <1>1, <2>1 DEF Typed
    <2> QED
      BY <1>1, <1>9, <1>12, <2>1, <2>2 DEF Typed
  <1>14. OneLine'
    <2>1. ASSUME NEW i \in DOMAIN log'
          PROVE  log'[i].from < log'[i].to
      <3>1. i \in 1 .. n + 1
        BY <1>9, <2>1
      <3>2. CASE i = n + 1
        BY <1>2, <1>9, <1>11, <3>2, TimesAreNumbers
      <3>3. CASE i = n /\ n > 0
        <4>1. n \in 1 .. n /\ log[n] \in Record
          BY <1>3, <1>n, <3>3
        <4>2. log[n].from \in Nat /\ at \in Nat
          BY <1>2, <4>1, TimesAreNumbers DEF Record
        <4>3. log'[n].from = log[n].from /\ log'[n].to = at /\ at > log[n].from
          BY <1>6, <1>10, <3>3, <4>1
        <4> QED
          BY <3>3, <4>2, <4>3
      <3>4. CASE i \in 1 .. n /\ i # n
        BY <1>1, <1>3, <1>10, <3>4 DEF OneLine
      <3> QED
        BY <1>n, <3>1, <3>2, <3>3, <3>4
    <2>2. ASSUME NEW i \in 1 .. Len(log') - 1
          PROVE  log'[i].to = log'[i + 1].from
      <3>1. i \in 1 .. n
        BY <1>3, <1>9, <2>2
      <3>2. CASE i = n
        BY <1>9, <1>10, <1>11, <3>1, <3>2
      <3>3. CASE i # n
        <4>1. i \in 1 .. n - 1 /\ i + 1 \in 1 .. n
          BY <1>n, <3>1, <3>3, Before
        <4> QED
          BY <1>1, <1>10, <3>1, <3>3, <4>1 DEF OneLine
      <3> QED
        BY <3>2, <3>3
    <2>3. log'[Len(log')].to = Never
      BY <1>9, <1>11
    <2> QED
      BY <2>1, <2>2, <2>3 DEF OneLine
  <1>15. CleanUnlessOvertaken'
    <2>1. ASSUME NEW i \in 1 .. Len(log') - 1, log'[i].status = log'[i + 1].status
          PROVE  i + 1 \in stale'
      <3>1. i \in 1 .. n
        BY <1>3, <1>9, <2>1
      <3>2. CASE i = n
        <4>1. log[n].status = to
          BY <1>9, <1>10, <1>11, <2>1, <3>1, <3>2
        <4>2. change[c].seen <= n /\ change[c].seen # n
          BY <1>1, <1>3, <3>1, <3>2, <4>1 DEF Fits, HasRead
        <4> QED
          BY <1>1, <1>2, <1>3, <3>2, <4>2
      <3>3. CASE i # n
        <4>1. i \in 1 .. n - 1 /\ i + 1 \in 1 .. n
          BY <1>n, <3>1, <3>3, Before
        <4>2. i + 1 \in stale
          BY <1>10, <2>1, <3>1, <4>1 DEF IInv, CleanUnlessOvertaken, Same
        <4> QED
          BY <1>1, <4>2
      <3> QED
        BY <3>2, <3>3
    <2> QED
      BY <2>1 DEF CleanUnlessOvertaken, Same
  <1>16. ASSUME NEW d \in Calls
         PROVE  Fits(d, change[d])'
    <2>1. CASE d = c
      BY <1>12, <2>1 DEF Fits, ClosesTheLast, HasRead, Quiet
    <2>2. CASE d # c
      <3>1. Fits(d, change[d]) /\ change'[d] = change[d] /\ change[d] \in Changes
        BY <1>1, <1>12, <2>2 DEF IInv, Typed
      <3>2. ASSUME change[d].pc = "insert", change[d].row # 0
            PROVE  FALSE
        <4>1. change[d].row = n /\ ~Holds(c, n)
          BY <2>2, <3>1, <3>2 DEF Fits, ClosesTheLast
        <4> QED
          BY <1>1, <1>5, <3>2, <4>1 DEF Holds
      <3>3. ASSUME change[d].pc \in {"close", "closing", "insert"}
            PROVE  change[d].seen <= Len(log') /\ change[d].seen # Len(log')
        <4>1. change[d].seen <= n /\ change[d].seen \in Nat
          BY <3>1, <3>3, MaxRecordsAssumption DEF Fits, HasRead, UnderWay, Changes, Quiet
        <4> QED
          BY <1>3, <1>9, <4>1
      <3>4. ClosesTheLast(d, change[d])'
        BY <3>1, <3>2 DEF ClosesTheLast
      <3>5. HasRead(change[d])'
        BY <3>1, <3>3 DEF Fits, HasRead
      <3> QED
        BY <3>4, <3>5 DEF Fits
    <2> QED
      BY <2>1, <2>2
  <1> QED
    BY <1>13, <1>14, <1>15, <1>16 DEF IInv

LEMMA CreateKeeps ==
  ASSUME IInv, NEW c \in Calls, create_status(c)
  PROVE  IInv'
  <1>1. CASE single_active(c)
    BY <1>1, CloseKeeps DEF create_status
  <1>2. CASE ~single_active(c)
    BY <1>2, RecordKeeps
  <1> QED
    BY <1>1, <1>2

LEMMA ClockKeeps ==
  ASSUME IInv, now' \in Times, UNCHANGED <<log, change, stale>>
  PROVE  IInv'
  <1>1. Typed' /\ OneLine' /\ CleanUnlessOvertaken'
    BY DEF IInv, Typed, OneLine, CleanUnlessOvertaken, Same
  <1>2. \A c \in Calls : Fits(c, change[c])'
    BY DEF IInv, Fits, ClosesTheLast, HasRead, Holds
  <1> QED
    BY <1>1, <1>2 DEF IInv

-----------------------------------------------------------------------------
LEMMA InitIInv ==
  StatusInit => IInv
  <1> SUFFICES ASSUME StatusInit
               PROVE  IInv
    OBVIOUS
  <1>1. log = <<>> /\ Len(log) = 0 /\ DOMAIN log = {}
    BY DEF StatusInit
  <1>2. Typed
    BY <1>1, MaxTimeAssumption, MaxRecordsAssumption DEF StatusInit, Typed, Times, Changes
  <1>3. OneLine /\ CleanUnlessOvertaken
    BY <1>1 DEF OneLine, CleanUnlessOvertaken
  <1>4. \A c \in Calls : Fits(c, change[c])
    BY DEF StatusInit, Quiet, Fits, ClosesTheLast, HasRead
  <1> QED
    BY <1>2, <1>3, <1>4 DEF IInv

LEMMA NextIInv ==
  IInv /\ [StatusNext]_statusVars => IInv'
  <1> SUFFICES ASSUME IInv, [StatusNext]_statusVars
               PROVE  IInv'
    OBVIOUS
  <1>1. CASE UNCHANGED statusVars
    BY <1>1, ClockKeeps DEF statusVars, IInv, Typed
  <1>2. CASE Tick /\ UNCHANGED <<log, change, stale>>
    BY <1>2, ClockKeeps, MaxTimeAssumption DEF Tick, Times, IInv, Typed
  <1>3. ASSUME NEW c \in Calls,
               \/ \E s \in Statuses : Begin(c, s)
               \/ get_active_status(c) \/ StartClosing(c) \/ close_status(c)
               \/ create_status(c) \/ GiveUp(c)
        PROVE  IInv'
    BY <1>3, BeginKeeps, ReadKeeps, StartClosingKeeps, CloseStatusKeeps, CreateKeeps, CloseKeeps DEF GiveUp
  <1> QED
    BY <1>1, <1>2, <1>3 DEF StatusNext

\* However calls overlap and whichever time they carry: the log, and what the
\* calls know of it (users/service.py create_status).
THEOREM Invariant == StatusSpec => []IInv
  BY InitIInv, NextIInv, PTL DEF StatusSpec

-----------------------------------------------------------------------------
(* The properties. *)

\* The log is one line without gap or overlap (uq_employee_status_active,
\* chk_status_dates).
THEOREM OneHistory == StatusSpec => []HistoryIsOneLine
  <1>1. ASSUME IInv
        PROVE  HistoryIsOneLine
    <2>1. StatusTypeOK
      BY <1>1, RecordsAreTyped DEF IInv, Typed, StatusTypeOK, Record, Changes, UnderWay
    <2> QED
      BY <1>1, <2>1 DEF IInv, OneLine, HistoryIsOneLine
  <1> QED
    BY <1>1, Invariant, PTL

\* No status twice in a row, except behind a record that the call had not
\* seen (users/service.py create_status).
THEOREM CleanHistory == StatusSpec => []CleanUnlessOvertaken
  <1>1. IInv => CleanUnlessOvertaken
    BY DEF IInv
  <1> QED
    BY <1>1, Invariant, PTL

-----------------------------------------------------------------------------
(* The limits on signing in. *)

Attempts ==
  [pc : {"look", "count", "verify", "clear"}, who : Accounts, step : 1 .. 3,
   at : Times, counted : BOOLEAN]

\* A key's counter is absent or one row.
OneRow(b) == b = {} \/ \E row \in Rows : b = {row}

LimitsTyped ==
  /\ now \in Times
  /\ bucket \in [Keys -> SUBSET Rows] /\ \A k \in Keys : OneRow(bucket[k])
  /\ call \in [Requests -> {Idle} \cup Attempts]
  /\ guessed \in [Accounts -> Nat]

\* Nobody writes with a time to come.
NoFuture ==
  \A r \in Requests : call[r].pc # "idle" => call[r].at <= now

\* Requests that have passed the SELECT and will raise the present window.
Charging(k) ==
  {r \in Requests : call[r].pc = "count" /\ KeyOf(r) = k /\ ~NewWindow(k, call[r].at)}
Bounded(k) ==
  Hits(k) + Cardinality(Charging(k)) <= LimitOn(k).count + Cardinality(Requests) - 1

\* Requests counted in the present window whose password is not checked yet.
Pending(a) ==
  {r \in Requests : call[r].pc = "verify" /\ call[r].who = a /\ call[r].counted}
Covered(a) == guessed[a] + Cardinality(Pending(a)) <= Hits(a)

LimitsInv ==
  /\ LimitsTyped /\ NoFuture
  /\ \A k \in Keys : Bounded(k)
  /\ \A a \in Accounts : Covered(a)

-----------------------------------------------------------------------------
LEMMA LimitFacts ==
  ASSUME NEW k \in Keys
  PROVE  LimitOn(k).count \in Nat \ {0} /\ LimitOn(k).window \in Nat \ {0}
  <1>1. Kinds[1] = "address" /\ Kinds[2] = "address-accounts" /\ Kinds[3] = "account"
    BY DEF Kinds
  <1>2. \A i \in 1 .. 3 : Limits[Kinds[i]].count \in Nat \ {0} /\ Limits[Kinds[i]].window \in Nat \ {0}
    BY LimitsArePositive
  <1>3. \A n \in {"address", "address-accounts", "account"} :
          Limits[n].count \in Nat \ {0} /\ Limits[n].window \in Nat \ {0}
    BY <1>1, <1>2
  <1> QED
    BY <1>3 DEF LimitOn, AddressKeys

LEMMA CallFacts ==
  ASSUME LimitsTyped, NEW r \in Requests, call[r].pc # "idle"
  PROVE  /\ call[r] \in Attempts /\ call[r].pc \in {"look", "count", "verify", "clear"}
         /\ call[r].who \in Accounts /\ call[r].step \in 1 .. 3 /\ call[r].at \in Times
         /\ call[r].counted \in BOOLEAN /\ call[r].at \in Nat /\ now \in Nat
         /\ KeyOf(r) \in Keys
         /\ call[r].step = 3 => KeyOf(r) = call[r].who
         /\ call[r].step # 3 => KeyOf(r) \in AddressKeys /\ KeyOf(r) \notin Accounts
  <1>1. call[r] \in Attempts
    BY DEF LimitsTyped, Idle
  <1>2. /\ call[r].pc \in {"look", "count", "verify", "clear"}
        /\ call[r].who \in Accounts /\ call[r].step \in 1 .. 3 /\ call[r].at \in Times
        /\ call[r].counted \in BOOLEAN
    BY <1>1 DEF Attempts
  <1>3. call[r].at \in Nat /\ now \in Nat
    BY <1>2 DEF LimitsTyped, Times
  <1>4. Kinds[1] = "address" /\ Kinds[2] = "address-accounts"
    BY DEF Kinds
  <1>5. CASE call[r].step = 3
    BY <1>1, <1>2, <1>3, <1>5 DEF KeyOf, Keys
  <1>6. CASE call[r].step # 3
    <2>1. call[r].step = 1 \/ call[r].step = 2
      BY <1>2, <1>6
    <2>2. KeyOf(r) \in AddressKeys
      BY <1>4, <1>6, <2>1 DEF KeyOf, AddressKeys
    <2> QED
      BY <1>1, <1>2, <1>3, <1>6, <2>2, AccountsAreNoAddresses DEF Keys, AddressKeys
  <1> QED
    BY <1>5, <1>6

\* What the row of a key, if there is one, says.
LEMMA RowFacts ==
  ASSUME NEW k \in Keys, OneRow(bucket[k])
  PROVE  \/ bucket[k] = {} /\ Hits(k) = 0 /\ \A at : NewWindow(k, at)
         \/ \E row \in Rows :
              /\ bucket[k] = {row} /\ Hits(k) = row.hits /\ row.hits \in Nat /\ row.start \in Nat
              /\ \A at : NewWindow(k, at) <=> Over(row, LimitOn(k), at)
  <1>1. CASE bucket[k] = {}
    BY <1>1 DEF Hits, NewWindow
  <1>2. ASSUME NEW row \in Rows, bucket[k] = {row}
        PROVE  /\ bucket[k] = {row} /\ Hits(k) = row.hits /\ row.hits \in Nat /\ row.start \in Nat
               /\ \A at : NewWindow(k, at) <=> Over(row, LimitOn(k), at)
    <2>1. row.hits \in Nat /\ row.start \in Nat
      BY DEF Rows, Times
    <2>2. (CHOOSE x \in bucket[k] : TRUE) = row
      BY <1>2
    <2>3. Hits(k) = row.hits
      BY <1>2, <2>2 DEF Hits
    <2>4. \A at : NewWindow(k, at) <=> Over(row, LimitOn(k), at)
      BY <1>2 DEF NewWindow
    <2> QED
      BY <1>2, <2>1, <2>3, <2>4
  <1> QED
    BY <1>1, <1>2 DEF OneRow

LEMMA SetFacts ==
  ASSUME NEW S \in SUBSET Requests
  PROVE  IsFiniteSet(S) /\ Cardinality(S) \in Nat /\ Cardinality(S) <= Cardinality(Requests)
         /\ Cardinality(Requests) \in Nat
  BY RequestsAreFinite, FS_Subset, FS_CardinalityType

LEMMA HitsAreNumbers ==
  ASSUME NEW k \in Keys, OneRow(bucket[k])
  PROVE  Hits(k) \in Nat
  BY RowFacts

-----------------------------------------------------------------------------
(* A step that leaves the counters alone. *)

\* What is known of the others does not change with one request.
LEMMA BoundedStays ==
  ASSUME LimitsTyped, LimitsTyped', NEW k \in Keys, Bounded(k), bucket'[k] = bucket[k],
         Charging(k)' \subseteq Charging(k)
  PROVE  Bounded(k)'
  <1>1. Hits(k)' = Hits(k) /\ Hits(k) \in Nat
    BY HitsAreNumbers DEF Hits, LimitsTyped
  <1>2. IsFiniteSet(Charging(k)) /\ Cardinality(Charging(k)) \in Nat
    BY SetFacts DEF Charging
  <1>3. Cardinality(Charging(k)') \in Nat /\ Cardinality(Charging(k)') <= Cardinality(Charging(k))
    BY <1>2, FS_Subset, FS_CardinalityType
  <1>4. LimitOn(k).count \in Nat /\ Cardinality(Requests) \in Nat
    BY LimitFacts, RequestsAreFinite, FS_CardinalityType
  <1>5. Hits(k) + Cardinality(Charging(k)') <= LimitOn(k).count + Cardinality(Requests) - 1
    BY <1>1, <1>2, <1>3, <1>4 DEF Bounded
  <1> QED
    BY <1>1, <1>5 DEF Bounded, LimitOn

LEMMA CoveredStays ==
  ASSUME LimitsTyped, LimitsTyped', NEW a \in Accounts, Covered(a), bucket'[a] = bucket[a],
         guessed'[a] = guessed[a], Pending(a)' \subseteq Pending(a)
  PROVE  Covered(a)'
  <1>1. Hits(a)' = Hits(a) /\ Hits(a) \in Nat /\ guessed[a] \in Nat
    BY HitsAreNumbers DEF Hits, LimitsTyped, Keys
  <1>2. IsFiniteSet(Pending(a)) /\ Cardinality(Pending(a)) \in Nat
    BY SetFacts DEF Pending
  <1>3. Cardinality(Pending(a)') \in Nat /\ Cardinality(Pending(a)') <= Cardinality(Pending(a))
    BY <1>2, FS_Subset, FS_CardinalityType
  <1>4. guessed[a] + Cardinality(Pending(a)') <= Hits(a)
    BY <1>1, <1>2, <1>3 DEF Covered
  <1> QED
    BY <1>1, <1>4 DEF Covered

\* The step does to request q at most that it forgets q's count.
Alike(q) ==
  /\ call'[q].pc = call[q].pc /\ call'[q].who = call[q].who
  /\ call'[q].step = call[q].step /\ call'[q].at = call[q].at
  /\ call[q].pc = "verify" /\ call'[q].counted => call[q].counted

LEMMA OthersStayInPlace ==
  ASSUME LimitsTyped, LimitsTyped', NEW r \in Requests, \A q \in Requests \ {r} : Alike(q)
  PROVE  /\ \A k \in Keys : bucket'[k] = bucket[k] => Charging(k)' \ {r} \subseteq Charging(k)
         /\ \A a \in Accounts : Pending(a)' \ {r} \subseteq Pending(a)
  <1>1. \A q \in Requests \ {r} : KeyOf(q)' = KeyOf(q)
    BY DEF Alike, KeyOf
  <1>2. ASSUME NEW k \in Keys, bucket'[k] = bucket[k], NEW q \in Charging(k)' \ {r}
        PROVE  q \in Charging(k)
    <2>1. q \in Requests \ {r} /\ call'[q].pc = "count" /\ KeyOf(q)' = k /\ ~NewWindow(k, call[q].at)'
      BY <1>2 DEF Charging
    <2>2. ~NewWindow(k, call[q].at)
      BY <1>2, <2>1 DEF NewWindow, Over, LimitOn, Alike
    <2> QED
      BY <1>1, <2>1, <2>2 DEF Charging, Alike
  <1>3. ASSUME NEW a \in Accounts, NEW q \in Pending(a)' \ {r}
        PROVE  q \in Pending(a)
    BY <1>3 DEF Pending, Alike
  <1> QED
    BY <1>2, <1>3

LEMMA QuietBounded ==
  ASSUME LimitsTyped, LimitsTyped', NEW r \in Requests, \A q \in Requests \ {r} : Alike(q),
         call'[r].pc # "count", NEW k \in Keys, Bounded(k), bucket'[k] = bucket[k]
  PROVE  Bounded(k)'
  <1>1. r \notin Charging(k)'
    BY DEF Charging
  <1> QED
    BY <1>1, OthersStayInPlace, BoundedStays

LEMMA QuietCovered ==
  ASSUME LimitsTyped, LimitsTyped', NEW r \in Requests, \A q \in Requests \ {r} : Alike(q),
         NEW a \in Accounts, r \notin Pending(a)', Covered(a),
         bucket'[a] = bucket[a], guessed'[a] = guessed[a]
  PROVE  Covered(a)'
  BY OthersStayInPlace, CoveredStays

\* A request that sets out or gives up.
LEMMA QuietStep ==
  ASSUME LimitsInv, NEW r \in Requests, NEW s \in {Idle} \cup Attempts,
         s.pc \notin {"count", "verify"}, s.pc # "idle" => s.at <= now,
         call' = [call EXCEPT ![r] = s], UNCHANGED <<now, bucket, guessed>>
  PROVE  LimitsInv'
  <1>1. LimitsTyped /\ LimitsTyped'
    BY DEF LimitsInv, LimitsTyped
  <1>2. call'[r] = s /\ \A q \in Requests \ {r} : call'[q] = call[q]
    BY <1>1 DEF LimitsTyped
  <1>3. \A q \in Requests \ {r} : Alike(q)
    BY <1>2 DEF Alike
  <1>4. NoFuture'
    BY <1>2 DEF LimitsInv, NoFuture
  <1>5. \A k \in Keys : Bounded(k)'
    BY <1>1, <1>2, <1>3, QuietBounded DEF LimitsInv
  <1>6. \A a \in Accounts : Covered(a)'
    <2> TAKE a \in Accounts
    <2>1. r \notin Pending(a)'
      BY <1>2 DEF Pending
    <2> QED
      BY <1>1, <1>3, <2>1, QuietCovered DEF LimitsInv
  <1> QED
    BY <1>1, <1>4, <1>5, <1>6 DEF LimitsInv

LEMMA LoginKeeps ==
  ASSUME LimitsInv, NEW r \in Requests, NEW a \in Accounts, Login(r, a)
  PROVE  LimitsInv'
  <1> DEFINE s == [pc |-> "look", who |-> a, step |-> 1, at |-> now, counted |-> FALSE]
  <1>1. s \in Attempts /\ s.pc = "look" /\ s.at <= now
    BY DEF LimitsInv, LimitsTyped, Attempts, Times
  <1>2. call' = [call EXCEPT ![r] = s] /\ UNCHANGED <<now, bucket, guessed>>
    BY DEF Login
  <1> HIDE DEF s
  <1> QED
    BY <1>1, <1>2, QuietStep

LEMMA EndKeeps ==
  ASSUME LimitsInv, NEW r \in Requests, End(r), UNCHANGED <<now, bucket, guessed>>
  PROVE  LimitsInv'
  <1>1. Idle.pc = "idle"
    BY DEF Idle
  <1> QED
    BY <1>1, QuietStep DEF End

-----------------------------------------------------------------------------
(* The SELECT. *)

\* Whoever passes it found room in the present window, or will open a new one.
LEMMA LookKeeps ==
  ASSUME LimitsInv, NEW r \in Requests, Look(r)
  PROVE  LimitsInv'
  <1> DEFINE k == KeyOf(r)
             s == [call[r] EXCEPT !.pc = "count", !.at = now]
             Full == \E row \in bucket[k] : ~Over(row, LimitOn(k), now) /\ row.hits >= LimitOn(k).count
  <1>1. CASE Full
    BY <1>1, EndKeeps DEF Look
  <1>2. CASE ~Full
    <2>1. LimitsTyped /\ call[r] \in Attempts /\ k \in Keys /\ now \in Nat /\ call[r].pc = "look"
      BY CallFacts DEF LimitsInv, Look
    <2>2. call' = [call EXCEPT ![r] = s] /\ UNCHANGED <<now, bucket, guessed>>
      BY <1>2, <2>1 DEF Look, Attempts, LimitsTyped
    <2>3. s \in Attempts /\ s.pc = "count" /\ s.at = now /\ s.who = call[r].who /\ s.step = call[r].step
      BY <2>1 DEF Attempts, LimitsTyped
    <2> HIDE DEF s
    <2>4. LimitsTyped'
      BY <2>1, <2>2, <2>3 DEF LimitsTyped
    <2>5. call'[r] = s /\ \A q \in Requests \ {r} : call'[q] = call[q]
      BY <2>1, <2>2 DEF LimitsTyped
    <2>6. \A q \in Requests \ {r} : Alike(q)
      BY <2>5 DEF Alike
    <2>7. NoFuture'
      BY <2>1, <2>2, <2>3, <2>5 DEF LimitsInv, NoFuture
    <2>8. KeyOf(r)' = k
      BY <2>3, <2>5 DEF KeyOf
    <2>9. ASSUME NEW l \in Keys PROVE Bounded(l)'
      <3>1. Charging(l)' \ {r} \subseteq Charging(l) /\ r \notin Charging(l)
        BY <2>1, <2>2, <2>4, <2>6, OthersStayInPlace DEF Charging
      <3>2. CASE r \notin Charging(l)'
        BY <2>1, <2>2, <2>4, <3>1, <3>2, BoundedStays DEF LimitsInv
      <3>3. CASE r \in Charging(l)'
        <4>1. l = k /\ ~NewWindow(k, now)
          BY <2>2, <2>3, <2>5, <2>8, <3>3 DEF Charging, NewWindow, LimitOn
        <4>2. PICK row \in Rows : bucket[k] = {row} /\ Hits(k) = row.hits /\ row.hits \in Nat
                                  /\ ~Over(row, LimitOn(k), now)
          BY <2>1, <4>1, RowFacts DEF LimitsTyped
        <4>3. Hits(k) < LimitOn(k).count
          BY <1>2, <2>1, <4>2, LimitFacts
        <4>4. Cardinality(Charging(l)') <= Cardinality(Requests) /\ Cardinality(Charging(l)') \in Nat
              /\ Cardinality(Requests) \in Nat
          BY SetFacts DEF Charging
        <4>5. Hits(l)' = Hits(l)
          BY <2>2 DEF Hits
        <4> QED
          BY <2>1, <4>1, <4>2, <4>3, <4>4, <4>5, LimitFacts DEF Bounded, LimitOn
      <3> QED
        BY <3>2, <3>3
    <2>10. ASSUME NEW a \in Accounts PROVE Covered(a)'
      <3>1. r \notin Pending(a)'
        BY <2>3, <2>5 DEF Pending
      <3> QED
        BY <2>1, <2>2, <2>4, <2>6, <3>1, QuietCovered DEF LimitsInv
    <2> QED
      BY <2>4, <2>7, <2>9, <2>10 DEF LimitsInv
  <1> QED
    BY <1>1, <1>2

-----------------------------------------------------------------------------
(* The upsert. *)

LEMMA UpsertFacts ==
  ASSUME LimitsTyped, NEW k \in Keys, NEW at \in Times
  PROVE  /\ Upsert(k, at) \in SUBSET Rows /\ OneRow(Upsert(k, at))
         /\ NewWindow(k, at) => Upsert(k, at) = {[start |-> at, hits |-> 1]}
         /\ ~NewWindow(k, at) =>
              \E row \in Rows : /\ bucket[k] = {row} /\ row.hits \in Nat /\ Hits(k) = row.hits
                                /\ Upsert(k, at) = {[start |-> row.start, hits |-> row.hits + 1]}
  <1>1. CASE NewWindow(k, at)
    <2>1. [start |-> at, hits |-> 1] \in Rows
      BY DEF Rows
    <2> QED
      BY <1>1, <2>1 DEF Upsert, OneRow
  <1>2. CASE ~NewWindow(k, at)
    <2>1. PICK row \in Rows : bucket[k] = {row} /\ Hits(k) = row.hits /\ row.hits \in Nat
      BY <1>2, RowFacts DEF LimitsTyped
    <2> DEFINE more == [row EXCEPT !.hits = @ + 1]
    <2>2. Upsert(k, at) = {more}
      BY <1>2, <2>1 DEF Upsert
    <2>3. more = [start |-> row.start, hits |-> row.hits + 1] /\ more \in Rows
      BY <2>1 DEF Rows
    <2> HIDE DEF more
    <2> QED
      BY <1>2, <2>1, <2>2, <2>3 DEF OneRow
  <1> QED
    BY <1>1, <1>2

LEMMA HitsOfOne ==
  ASSUME NEW k, NEW start, NEW hits, bucket'[k] = {[start |-> start, hits |-> hits]}
  PROVE  Hits(k)' = hits
  <1>1. (CHOOSE row \in bucket'[k] : TRUE) = [start |-> start, hits |-> hits]
    OBVIOUS
  <1> QED
    BY <1>1 DEF Hits

LEMMA ForgetFacts ==
  ASSUME LimitsTyped, NEW a \in Accounts
  PROVE  /\ Forget(a, call) \in [Requests -> {Idle} \cup Attempts]
         /\ \A q \in Requests :
              /\ Forget(a, call)[q].pc = call[q].pc /\ Forget(a, call)[q].who = call[q].who
              /\ Forget(a, call)[q].step = call[q].step /\ Forget(a, call)[q].at = call[q].at
              /\ call[q].pc # "idle" => Forget(a, call)[q] \in Attempts
              /\ call[q].pc # "idle" /\ Forget(a, call)[q].counted => call[q].counted /\ call[q].who # a
  <1> SUFFICES ASSUME NEW q \in Requests
               PROVE  /\ Forget(a, call)[q] \in {Idle} \cup Attempts
                      /\ Forget(a, call)[q].pc = call[q].pc /\ Forget(a, call)[q].who = call[q].who
                      /\ Forget(a, call)[q].step = call[q].step /\ Forget(a, call)[q].at = call[q].at
                      /\ call[q].pc # "idle" => Forget(a, call)[q] \in Attempts
                      /\ call[q].pc # "idle" /\ Forget(a, call)[q].counted =>
                           call[q].counted /\ call[q].who # a
    BY DEF Forget
  <1>1. call[q] \in {Idle} \cup Attempts
    BY DEF LimitsTyped
  <1>2. CASE call[q].pc # "idle" /\ call[q].who = a /\ call[q].counted
    <2> DEFINE f == [call[q] EXCEPT !.counted = FALSE]
    <2>1. Forget(a, call)[q] = f
      BY <1>2 DEF Forget
    <2>2. call[q] \in Attempts
      BY <1>2, CallFacts
    <2>3. f \in Attempts /\ f.pc = call[q].pc /\ f.who = call[q].who /\ f.step = call[q].step
          /\ f.at = call[q].at /\ ~f.counted
      BY <2>2 DEF Attempts
    <2> HIDE DEF f
    <2> QED
      BY <2>1, <2>3
  <1>3. CASE ~(call[q].pc # "idle" /\ call[q].who = a /\ call[q].counted)
    <2>1. Forget(a, call)[q] = call[q]
      BY <1>3 DEF Forget
    <2> QED
      BY <1>1, <1>3, <2>1, CallFacts
  <1> QED
    BY <1>2, <1>3

\* What the upsert does to the calls.
LEMMA CountCalls ==
  ASSUME LimitsTyped, NEW r \in Requests, Count(r)
  PROVE  /\ call' \in [Requests -> {Idle} \cup Attempts]
         /\ call'[r].at = call[r].at /\ call'[r].who = call[r].who
         /\ \A q \in Requests \ {r} : Alike(q)
         /\ call[r].step # 3 => call'[r].pc = "look"
         /\ call[r].step = 3 => call'[r].pc = "verify"
         /\ call[r].step = 3 /\ NewWindow(KeyOf(r), call[r].at) =>
              \A q \in Requests \ {r} : ~(call'[q].pc = "verify" /\ call'[q].counted /\ call'[q].who = KeyOf(r))
  <1> DEFINE k == KeyOf(r)
             last == call[r].step = 3
             fresh == last /\ NewWindow(k, call[r].at)
             older == IF fresh THEN Forget(k, call) ELSE call
  <1>1. call[r] \in Attempts /\ call[r].step \in 1 .. 3 /\ (call[r].step = 3 => k \in Accounts)
    BY CallFacts DEF Count
  <1>2. /\ older \in [Requests -> {Idle} \cup Attempts] /\ older[r] \in Attempts
        /\ older[r].step = call[r].step /\ older[r].at = call[r].at /\ older[r].who = call[r].who
        /\ \A q \in Requests :
             /\ older[q].pc = call[q].pc /\ older[q].who = call[q].who
             /\ older[q].step = call[q].step /\ older[q].at = call[q].at
             /\ call[q].pc # "idle" /\ older[q].counted => call[q].counted
             /\ fresh /\ call[q].pc # "idle" /\ older[q].counted => call[q].who # k
    <2>1. CASE fresh
      BY <1>1, <2>1, ForgetFacts DEF Count
    <2>2. CASE ~fresh
      BY <1>1, <2>2 DEF LimitsTyped
    <2> QED
      BY <2>1, <2>2
  <1> HIDE DEF older
  <1>3. ASSUME NEW s \in Attempts, s.at = call[r].at, s.who = call[r].who,
               call' = [older EXCEPT ![r] = s]
        PROVE  /\ call' \in [Requests -> {Idle} \cup Attempts]
               /\ call'[r] = s /\ call'[r].at = call[r].at /\ call'[r].who = call[r].who
               /\ \A q \in Requests \ {r} : Alike(q)
               /\ fresh => \A q \in Requests \ {r} :
                    ~(call'[q].pc = "verify" /\ call'[q].counted /\ call'[q].who = k)
    <2>1. call'[r] = s /\ \A q \in Requests \ {r} : call'[q] = older[q]
      BY <1>2, <1>3
    <2>2. call' \in [Requests -> {Idle} \cup Attempts]
      BY <1>2, <1>3
    <2>3. \A q \in Requests \ {r} : Alike(q)
      BY <1>2, <2>1 DEF Alike
    <2> QED
      BY <1>2, <1>3, <2>1, <2>2, <2>3
  <1> DEFINE p == IF last THEN "verify" ELSE "look"
             i == IF last THEN 3 ELSE older[r].step + 1
             b == last
             s == [older[r] EXCEPT !.pc = p, !.step = i, !.counted = b]
  <1>4. p \in {"look", "verify"} /\ i \in 1 .. 3 /\ b \in BOOLEAN
    BY <1>1, <1>2
  <1>5. call' = [older EXCEPT ![r].pc = p, ![r].step = i, ![r].counted = b]
    BY <1>2 DEF Count, older
  <1>6. (call[r].step = 3 => p = "verify") /\ (call[r].step # 3 => p = "look")
    OBVIOUS
  <1> HIDE DEF p, i, b
  <1>7. call' = [older EXCEPT ![r] = s]
    BY <1>2, <1>5
  <1>8. s \in Attempts /\ s.pc = p /\ s.at = call[r].at /\ s.who = call[r].who
    <2>1. older[r] \in Attempts
      BY <1>2
    <2>2. s \in Attempts /\ s.pc = p /\ s.at = older[r].at /\ s.who = older[r].who
      BY <1>4, <2>1 DEF Attempts
    <2> QED
      BY <1>2, <2>2
  <1> HIDE DEF s
  <1> QED
    BY <1>3, <1>6, <1>7, <1>8

\* A hit more in the window that the request was charging, or the first of a new one.
LEMMA CountBounds ==
  ASSUME LimitsInv, LimitsTyped', NEW r \in Requests, Count(r), NEW k \in Keys, k = KeyOf(r),
         NEW at \in Times, at = call[r].at
  PROVE  Bounded(k)'
  <1> DEFINE N == Cardinality(Requests)
  <1>1. LimitsTyped /\ Bounded(k) /\ call[r].pc = "count"
    BY CallFacts DEF LimitsInv, Count
  <1>2. bucket'[k] = Upsert(k, at)
    BY <1>1 DEF Count, LimitsTyped
  <1>3. (\A q \in Requests \ {r} : Alike(q)) /\ call'[r].pc # "count"
    BY <1>1, CountCalls
  <1>4. r \notin Charging(k)' /\ Charging(k)' \subseteq Requests \ {r}
    BY <1>3 DEF Charging
  <1>5. \A q \in Charging(k)' : KeyOf(q) = k /\ call[q].pc = "count"
    BY <1>3, <1>4 DEF Charging, KeyOf, Alike
  <1>6. N \in Nat /\ Cardinality(Requests \ {r}) = N - 1 /\ LimitOn(k).count \in Nat \ {0}
        /\ LimitOn(k)' = LimitOn(k)
    BY <1>1, LimitFacts, RequestsAreFinite, FS_RemoveElement, FS_CardinalityType DEF LimitOn
  <1> HIDE DEF N
  <1>7. CASE NewWindow(k, at)
    <2>1. Hits(k)' = 1
      <3>1. bucket'[k] = {[start |-> at, hits |-> 1]}
        BY <1>1, <1>2, <1>7, UpsertFacts
      <3> QED
        BY <3>1, HitsOfOne
    <2>2. Cardinality(Charging(k)') \in Nat /\ Cardinality(Charging(k)') <= N - 1
      BY <1>4, <1>6, SetFacts, FS_Subset
    <2>3. Hits(k)' + Cardinality(Charging(k)') <= LimitOn(k).count + N - 1
      BY <1>6, <2>1, <2>2
    <2> QED
      BY <1>6, <2>3 DEF Bounded, N
  <1>8. CASE ~NewWindow(k, at)
    <2>1. PICK row \in Rows : /\ bucket[k] = {row} /\ row.hits \in Nat /\ Hits(k) = row.hits
                              /\ Upsert(k, at) = {[start |-> row.start, hits |-> row.hits + 1]}
      BY <1>1, <1>8, UpsertFacts
    <2>2. Hits(k)' = Hits(k) + 1 /\ Hits(k) \in Nat
      BY <1>2, <2>1, HitsOfOne
    <2>3. r \in Charging(k)
      BY <1>1, <1>8 DEF Charging
    <2>4. ASSUME NEW q \in Charging(k)' PROVE q \in Charging(k)
      <3>1. ~NewWindow(k, call[q].at)' /\ call'[q].at = call[q].at /\ q \in Requests
        BY <1>3, <1>4 DEF Charging, Alike
      <3>2. ~Over([start |-> row.start, hits |-> row.hits + 1], LimitOn(k), call[q].at)
        BY <1>2, <1>6, <2>1, <3>1 DEF NewWindow, Over
      <3>3. ~Over(row, LimitOn(k), call[q].at)
        BY <3>2 DEF Over
      <3>4. ~NewWindow(k, call[q].at)
        BY <2>1, <3>3 DEF NewWindow
      <3> QED
        BY <1>5, <3>1, <3>4 DEF Charging
    <2>5. Charging(k)' \subseteq Charging(k) \ {r} /\ IsFiniteSet(Charging(k))
          /\ Cardinality(Charging(k)) \in Nat
      BY <1>4, <2>4, SetFacts DEF Charging
    <2>6. IsFiniteSet(Charging(k) \ {r}) /\ Cardinality(Charging(k) \ {r}) = Cardinality(Charging(k)) - 1
      BY <2>3, <2>5, FS_RemoveElement
    <2>7. Cardinality(Charging(k)') \in Nat /\ Cardinality(Charging(k)') <= Cardinality(Charging(k)) - 1
      BY <2>5, <2>6, FS_Subset, FS_CardinalityType
    <2>8. Hits(k) + Cardinality(Charging(k)) <= LimitOn(k).count + N - 1
      BY <1>1 DEF Bounded, N
    <2>9. Hits(k)' + Cardinality(Charging(k)') <= LimitOn(k).count + N - 1
      BY <1>6, <2>2, <2>5, <2>7, <2>8
    <2> QED
      BY <1>6, <2>9 DEF Bounded, N
  <1> QED
    BY <1>7, <1>8

\* The third count, of the account: a guess more to come, or all forgotten.
LEMMA CountCovers ==
  ASSUME LimitsInv, LimitsTyped', NEW r \in Requests, Count(r), call[r].step = 3,
         NEW a \in Accounts, a = call[r].who, NEW at \in Times, at = call[r].at
  PROVE  Covered(a)'
  <1>1. LimitsTyped /\ a \in Keys /\ KeyOf(r) = a /\ Covered(a)
        /\ call[r].pc = "count"
    BY CallFacts DEF LimitsInv, Count, Keys
  <1>2. bucket'[a] = Upsert(a, at) /\ guessed \in [Accounts -> Nat]
        /\ guessed' = IF NewWindow(a, at) THEN [guessed EXCEPT ![a] = 0] ELSE guessed
    BY <1>1 DEF Count, LimitsTyped
  <1>3. /\ \A q \in Requests \ {r} : Alike(q)
        /\ NewWindow(a, at) => \A q \in Requests \ {r} :
             ~(call'[q].pc = "verify" /\ call'[q].counted /\ call'[q].who = a)
    BY <1>1, CountCalls
  <1>4. Pending(a)' \ {r} \subseteq Pending(a) /\ r \notin Pending(a)
    BY <1>1, <1>3, OthersStayInPlace DEF Pending
  <1>5. IsFiniteSet(Pending(a)) /\ Cardinality(Pending(a)) \in Nat
        /\ IsFiniteSet(Pending(a)') /\ Cardinality(Pending(a)') \in Nat
    BY SetFacts DEF Pending
  <1>6. CASE NewWindow(a, at)
    <2>1. Hits(a)' = 1 /\ guessed'[a] = 0
      <3>1. bucket'[a] = {[start |-> at, hits |-> 1]}
        BY <1>1, <1>2, <1>6, UpsertFacts
      <3>2. guessed'[a] = 0
        BY <1>2, <1>6
      <3>3. Hits(a)' = 1
        BY <3>1, HitsOfOne, Zenon
      <3> QED
        BY <3>2, <3>3
    <2>2. Pending(a)' \subseteq {r}
      BY <1>3, <1>6 DEF Pending
    <2>3. Cardinality(Pending(a)') <= 1
      <3>1. IsFiniteSet({r}) /\ Cardinality({r}) = 1
        BY FS_Singleton
      <3> QED
        BY <2>2, <3>1, FS_Subset
    <2>4. guessed'[a] + Cardinality(Pending(a)') <= Hits(a)'
      BY <1>5, <2>1, <2>3
    <2> QED
      BY <2>4 DEF Covered
  <1>7. CASE ~NewWindow(a, at)
    <2>1. Hits(a)' = Hits(a) + 1 /\ Hits(a) \in Nat
      <3>1. PICK row \in Rows : /\ row.hits \in Nat /\ Hits(a) = row.hits
                                /\ Upsert(a, at) = {[start |-> row.start, hits |-> row.hits + 1]}
        BY <1>1, <1>7, UpsertFacts
      <3>2. bucket'[a] = {[start |-> row.start, hits |-> row.hits + 1]}
        BY <1>2, <3>1
      <3>3. Hits(a)' = row.hits + 1
        BY <3>2, HitsOfOne, Zenon
      <3> QED
        BY <3>1, <3>3
    <2>2. Pending(a)' \subseteq Pending(a) \cup {r}
      BY <1>4
    <2>3. IsFiniteSet(Pending(a) \cup {r})
          /\ Cardinality(Pending(a) \cup {r}) = Cardinality(Pending(a)) + 1
      BY <1>4, <1>5, FS_AddElement
    <2>4. Cardinality(Pending(a)') <= Cardinality(Pending(a)) + 1
      BY <2>2, <2>3, FS_Subset
    <2>5. guessed'[a] = guessed[a] /\ guessed[a] \in Nat
      BY <1>1, <1>2, <1>7
    <2>6. guessed[a] + Cardinality(Pending(a)) <= Hits(a)
      BY <1>1 DEF Covered
    <2>7. guessed'[a] + Cardinality(Pending(a)') <= Hits(a)'
      BY <1>5, <2>1, <2>4, <2>5, <2>6
    <2> QED
      BY <2>7 DEF Covered
  <1> QED
    BY <1>6, <1>7

LEMMA CountKeeps ==
  ASSUME LimitsInv, NEW r \in Requests, Count(r)
  PROVE  LimitsInv'
  <1>0. PICK k \in Keys, at \in Times : k = KeyOf(r) /\ at = call[r].at
    BY CallFacts DEF LimitsInv, Count
  <1> DEFINE b == Upsert(k, at)
             g == IF call[r].step = 3 /\ NewWindow(k, at) THEN [guessed EXCEPT ![k] = 0] ELSE guessed
  <1>1. LimitsTyped /\ call[r].pc = "count" /\ at <= now
        /\ call[r].who \in Accounts
        /\ (call[r].step = 3 => k = call[r].who) /\ (call[r].step # 3 => k \notin Accounts)
    BY <1>0, CallFacts DEF LimitsInv, NoFuture, Count
  <1>2. bucket' = [bucket EXCEPT ![k] = b] /\ guessed' = g /\ now' = now
    BY <1>0 DEF Count
  <1>3. b \in SUBSET Rows /\ OneRow(b)
    BY <1>1, UpsertFacts
  <1>4. g \in [Accounts -> Nat] /\ \A a \in Accounts : (call[r].step = 3 => a # k) => g[a] = guessed[a]
    BY <1>1 DEF LimitsTyped
  <1>5. /\ call' \in [Requests -> {Idle} \cup Attempts] /\ call'[r].at = at
        /\ call'[r].who = call[r].who
        /\ (\A q \in Requests \ {r} : Alike(q)) /\ call'[r].pc # "count"
        /\ call[r].step # 3 => call'[r].pc = "look"
    BY <1>0, <1>1, CountCalls
  <1> HIDE DEF b, g
  <1>6. LimitsTyped' /\ \A l \in Keys \ {k} : bucket'[l] = bucket[l]
    BY <1>1, <1>2, <1>3, <1>4, <1>5 DEF LimitsTyped
  <1>7. NoFuture'
    BY <1>1, <1>2, <1>5 DEF LimitsInv, NoFuture, Alike
  <1>8. ASSUME NEW l \in Keys PROVE Bounded(l)'
    <2>1. CASE l = k
      BY <1>0, <1>6, <2>1, CountBounds
    <2>2. CASE l # k
      BY <1>1, <1>5, <1>6, <2>2, QuietBounded DEF LimitsInv
    <2> QED
      BY <2>1, <2>2
  <1>9. ASSUME NEW a \in Accounts PROVE Covered(a)'
    <2>1. CASE call[r].step = 3 /\ a = call[r].who
      BY <1>0, <1>6, <2>1, CountCovers
    <2>2. CASE ~(call[r].step = 3 /\ a = call[r].who)
      <3>1. a # k /\ a \in Keys
        BY <1>1, <2>2 DEF Keys
      <3>2. r \notin Pending(a)'
        BY <1>5, <2>2 DEF Pending
      <3> QED
        BY <1>1, <1>2, <1>4, <1>5, <1>6, <3>1, <3>2, QuietCovered DEF LimitsInv
    <2> QED
      BY <2>1, <2>2
  <1> QED
    BY <1>6, <1>7, <1>8, <1>9 DEF LimitsInv

-----------------------------------------------------------------------------
(* The password, and the end of a sign-in. *)

LEMMA GuessStep ==
  ASSUME LimitsInv, NEW r \in Requests, call[r].pc = "verify", NEW s \in {Idle} \cup Attempts,
         s.pc \in {"idle", "clear"}, s.pc # "idle" => s.at = call[r].at,
         call' = [call EXCEPT ![r] = s], guessed' = Guess(r), UNCHANGED <<now, bucket>>
  PROVE  LimitsInv'
  <1>1. LimitsTyped /\ call[r].who \in Accounts /\ call[r].counted \in BOOLEAN /\ call[r].at <= now
    BY CallFacts DEF LimitsInv, NoFuture
  <1>2. call'[r] = s /\ \A q \in Requests \ {r} : call'[q] = call[q]
    BY <1>1 DEF LimitsTyped
  <1>3. /\ guessed' \in [Accounts -> Nat]
        /\ \A a \in Accounts : guessed'[a] =
             IF a = call[r].who /\ call[r].counted THEN guessed[a] + 1 ELSE guessed[a]
    BY <1>1 DEF Guess, LimitsTyped
  <1>4. LimitsTyped'
    BY <1>1, <1>3 DEF LimitsTyped
  <1>5. \A q \in Requests \ {r} : Alike(q)
    BY <1>2 DEF Alike
  <1>6. NoFuture'
    BY <1>1, <1>2 DEF LimitsInv, NoFuture
  <1>7. \A k \in Keys : Bounded(k)'
    BY <1>1, <1>2, <1>4, <1>5, QuietBounded DEF LimitsInv
  <1>8. ASSUME NEW a \in Accounts PROVE Covered(a)'
    <2>1. r \notin Pending(a)'
      BY <1>2 DEF Pending
    <2>2. CASE guessed'[a] = guessed[a]
      BY <1>1, <1>4, <1>5, <2>1, <2>2, QuietCovered DEF LimitsInv
    <2>3. CASE a = call[r].who /\ call[r].counted /\ guessed'[a] = guessed[a] + 1
      <3>1. r \in Pending(a)
        BY <2>3 DEF Pending
      <3>2. Pending(a)' \subseteq Pending(a) \ {r}
        BY <1>1, <1>4, <1>5, <2>1, OthersStayInPlace
      <3>3. IsFiniteSet(Pending(a)) /\ Cardinality(Pending(a)) \in Nat
        BY SetFacts DEF Pending
      <3>4. IsFiniteSet(Pending(a) \ {r}) /\ Cardinality(Pending(a) \ {r}) = Cardinality(Pending(a)) - 1
        BY <3>1, <3>3, FS_RemoveElement
      <3>5. Cardinality(Pending(a)') \in Nat /\ Cardinality(Pending(a)') <= Cardinality(Pending(a)) - 1
        BY <3>2, <3>4, FS_Subset, FS_CardinalityType
      <3>6. Hits(a)' = Hits(a) /\ Hits(a) \in Nat /\ guessed[a] \in Nat
        BY <1>1, HitsAreNumbers DEF Hits, LimitsTyped, Keys
      <3>7. guessed[a] + Cardinality(Pending(a)) <= Hits(a)
        BY DEF LimitsInv, Covered
      <3>8. guessed'[a] + Cardinality(Pending(a)') <= Hits(a)'
        BY <2>3, <3>3, <3>5, <3>6, <3>7
      <3> QED
        BY <3>8 DEF Covered
    <2> QED
      BY <1>3, <2>2, <2>3
  <1> QED
    BY <1>4, <1>6, <1>7, <1>8 DEF LimitsInv

LEMMA FailKeeps ==
  ASSUME LimitsInv, NEW r \in Requests, Fail(r)
  PROVE  LimitsInv'
  <1>1. Idle.pc = "idle"
    BY DEF Idle
  <1> QED
    BY <1>1, GuessStep DEF Fail, End

LEMMA SucceedKeeps ==
  ASSUME LimitsInv, NEW r \in Requests, Succeed(r)
  PROVE  LimitsInv'
  <1> DEFINE s == [call[r] EXCEPT !.pc = "clear"]
  <1>1. LimitsTyped /\ call[r] \in Attempts
    BY CallFacts DEF LimitsInv, Succeed
  <1>2. s \in Attempts /\ s.pc = "clear" /\ s.at = call[r].at
    BY <1>1 DEF Attempts
  <1>3. call' = [call EXCEPT ![r] = s] /\ guessed' = Guess(r) /\ UNCHANGED <<now, bucket>>
    BY <1>1 DEF Succeed, LimitsTyped
  <1> HIDE DEF s
  <1> QED
    BY <1>2, <1>3, GuessStep DEF Succeed

\* The account's row goes, and with it the claim of all who were counted in it.
LEMMA clearKeeps ==
  ASSUME LimitsInv, NEW r \in Requests, clear(r)
  PROVE  LimitsInv'
  <1>1. PICK a \in Accounts : a = call[r].who
    BY CallFacts DEF LimitsInv, clear
  <1>2. LimitsTyped /\ a \in Keys
    BY DEF LimitsInv, Keys
  <1>3. /\ bucket' = [bucket EXCEPT ![a] = {}] /\ guessed' = [guessed EXCEPT ![a] = 0]
        /\ call' = [Forget(a, call) EXCEPT ![r] = Idle] /\ now' = now
    BY <1>1 DEF clear
  <1>4. Idle.pc = "idle"
    BY DEF Idle
  <1>5. call'[r] = Idle /\ \A q \in Requests \ {r} : call'[q] = Forget(a, call)[q]
    BY <1>2, <1>3, ForgetFacts
  <1>6. call' \in [Requests -> {Idle} \cup Attempts]
    BY <1>2, <1>3, ForgetFacts
  <1>7. \A q \in Requests \ {r} : Alike(q)
    BY <1>2, <1>5, ForgetFacts DEF Alike
  <1>8. /\ bucket'[a] = {} /\ \A k \in Keys \ {a} : bucket'[k] = bucket[k]
        /\ guessed'[a] = 0 /\ \A b \in Accounts \ {a} : guessed'[b] = guessed[b]
    BY <1>2, <1>3 DEF LimitsTyped
  <1>9. LimitsTyped'
    BY <1>2, <1>3, <1>6, <1>8 DEF LimitsTyped, OneRow
  <1>10. NoFuture'
    BY <1>3, <1>4, <1>5, <1>7 DEF LimitsInv, NoFuture, Alike
  <1>11. ASSUME NEW k \in Keys PROVE Bounded(k)'
    <2>1. CASE k = a
      <3>1. Hits(k)' = 0 /\ Charging(k)' = {}
        BY <1>8, <2>1 DEF Hits, Charging, NewWindow
      <3>2. Cardinality(Charging(k)') = 0
        BY <3>1, FS_EmptySet
      <3>3. LimitOn(k).count \in Nat \ {0} /\ Cardinality(Requests) \in Nat /\ LimitOn(k)' = LimitOn(k)
        BY LimitFacts, RequestsAreFinite, FS_CardinalityType DEF LimitOn
      <3>4. Hits(k)' + Cardinality(Charging(k)') <= LimitOn(k).count + Cardinality(Requests) - 1
        BY <3>1, <3>2, <3>3
      <3> QED
        BY <3>3, <3>4 DEF Bounded
    <2>2. CASE k # a
      BY <1>2, <1>4, <1>5, <1>7, <1>8, <1>9, <2>2, QuietBounded DEF LimitsInv
    <2> QED
      BY <2>1, <2>2
  <1>12. ASSUME NEW b \in Accounts PROVE Covered(b)'
    <2>1. r \notin Pending(b)'
      BY <1>4, <1>5 DEF Pending
    <2>2. CASE b = a
      <3>1. ASSUME NEW q \in Pending(b)' PROVE FALSE
        <4>1. q \in Requests \ {r} /\ call'[q].pc = "verify" /\ call'[q].who = a /\ call'[q].counted
          BY <2>1, <2>2, <3>1 DEF Pending
        <4> QED
          BY <1>2, <1>5, <4>1, ForgetFacts
      <3>2. Cardinality(Pending(b)') = 0
        BY <3>1, FS_EmptySet
      <3>3. Hits(b)' = 0 /\ guessed'[b] = 0
        BY <1>8, <2>2 DEF Hits
      <3> QED
        BY <3>2, <3>3 DEF Covered
    <2>3. CASE b # a
      BY <1>2, <1>7, <1>8, <1>9, <2>1, <2>3, QuietCovered DEF LimitsInv, Keys
    <2> QED
      BY <2>2, <2>3
  <1> QED
    BY <1>9, <1>10, <1>11, <1>12 DEF LimitsInv

LEMMA TickKeeps ==
  ASSUME LimitsInv, Tick, UNCHANGED <<bucket, call, guessed>>
  PROVE  LimitsInv'
  <1>1. LimitsTyped /\ LimitsTyped' /\ now' \in Nat /\ now \in Nat /\ now <= now'
    BY MaxTimeAssumption DEF LimitsInv, LimitsTyped, Tick, Times
  <1>2. NoFuture'
    BY <1>1, CallFacts DEF LimitsInv, NoFuture
  <1>3. \A k \in Keys : Bounded(k)'
    BY DEF LimitsInv, Bounded, Hits, Charging, NewWindow, KeyOf
  <1>4. \A a \in Accounts : Covered(a)'
    BY DEF LimitsInv, Covered, Hits, Pending
  <1> QED
    BY <1>1, <1>2, <1>3, <1>4 DEF LimitsInv

-----------------------------------------------------------------------------
LEMMA InitLimitsInv == LimitsInit => LimitsInv
  <1> SUFFICES ASSUME LimitsInit PROVE LimitsInv
    OBVIOUS
  <1>1. LimitsTyped /\ \A r \in Requests : call[r].pc = "idle"
    BY MaxTimeAssumption DEF LimitsInit, LimitsTyped, OneRow, Times, Idle
  <1>2. \A k \in Keys : Hits(k) = 0 /\ Charging(k) = {}
    BY <1>1 DEF LimitsInit, Hits, Charging
  <1>3. \A a \in Accounts : Pending(a) = {} /\ Hits(a) = 0 /\ guessed[a] = 0
    BY <1>1, <1>2 DEF LimitsInit, Pending, Keys
  <1>4. \A k \in Keys : Bounded(k)
    BY <1>2, LimitFacts, RequestsAreFinite, FS_EmptySet, FS_CardinalityType DEF Bounded
  <1>5. \A a \in Accounts : Covered(a)
    BY <1>3, FS_EmptySet DEF Covered
  <1> QED
    BY <1>1, <1>4, <1>5 DEF LimitsInv, NoFuture

LEMMA NextLimitsInv == LimitsInv /\ [LimitsNext]_limitVars => LimitsInv'
  <1> SUFFICES ASSUME LimitsInv, [LimitsNext]_limitVars PROVE LimitsInv'
    OBVIOUS
  <1>1. CASE UNCHANGED limitVars
    BY <1>1 DEF limitVars, LimitsInv, LimitsTyped, NoFuture, Bounded, Covered, Hits, Charging, Pending,
                NewWindow, KeyOf
  <1>2. ASSUME NEW r \in Requests, NEW a \in Accounts, Login(r, a) PROVE LimitsInv'
    BY <1>2, LoginKeeps
  <1>3. ASSUME NEW r \in Requests, Look(r) PROVE LimitsInv'
    BY <1>3, LookKeeps
  <1>4. ASSUME NEW r \in Requests, Count(r) PROVE LimitsInv'
    BY <1>4, CountKeeps
  <1>5. ASSUME NEW r \in Requests, Fail(r) \/ Succeed(r) PROVE LimitsInv'
    BY <1>5, FailKeeps, SucceedKeeps
  <1>6. ASSUME NEW r \in Requests, clear(r) PROVE LimitsInv'
    BY <1>6, clearKeeps
  <1>7. ASSUME NEW r \in Requests, Crash(r) PROVE LimitsInv'
    BY <1>7, EndKeeps DEF Crash
  <1>8. CASE Tick /\ UNCHANGED <<bucket, call, guessed>>
    BY <1>8, TickKeeps
  <1> QED
    BY <1>1, <1>2, <1>3, <1>4, <1>5, <1>6, <1>7, <1>8 DEF LimitsNext

THEOREM LimitsInvariant == LimitsSpec => []LimitsInv
  BY InitLimitsInv, NextLimitsInv, PTL DEF LimitsSpec

(* No window holds more hits than its limit and the other requests under way,
   and every password checked was counted (core/rate_limit.py hit). *)
THEOREM GuessesCounted == LimitsSpec => []GuessesAreCounted
  <1>1. ASSUME LimitsInv PROVE GuessesAreCounted
    <2>1. ASSUME NEW k \in Keys
          PROVE  /\ Hits(k) <= LimitOn(k).count + Cardinality(Requests) - 1
                 /\ Cardinality(bucket[k]) <= 1 /\ \A row \in bucket[k] : row \in Rows
      <3>1. Bounded(k) /\ OneRow(bucket[k]) /\ bucket[k] \subseteq Rows
        BY <1>1 DEF LimitsInv, LimitsTyped
      <3>2. Hits(k) \in Nat /\ Cardinality(Charging(k)) \in Nat /\ Cardinality(Requests) \in Nat
            /\ LimitOn(k).count \in Nat
        BY <3>1, HitsAreNumbers, SetFacts, LimitFacts DEF Charging
      <3>3. Cardinality(bucket[k]) <= 1
        <4>1. CASE bucket[k] = {}
          BY <4>1, FS_EmptySet
        <4>2. ASSUME NEW row, bucket[k] = {row} PROVE Cardinality(bucket[k]) = 1
          BY <4>2, FS_Singleton
        <4> QED
          BY <3>1, <4>1, <4>2 DEF OneRow
      <3> QED
        BY <3>1, <3>2, <3>3 DEF Bounded
    <2>2. ASSUME NEW a \in Accounts PROVE guessed[a] <= Hits(a)
      <3>1. a \in Keys /\ Covered(a) /\ guessed[a] \in Nat
        BY <1>1 DEF LimitsInv, LimitsTyped, Keys
      <3>2. Hits(a) \in Nat /\ Cardinality(Pending(a)) \in Nat
        BY <1>1, <3>1, HitsAreNumbers, SetFacts DEF LimitsInv, LimitsTyped, Pending
      <3> QED
        BY <3>1, <3>2 DEF Covered
    <2>3. \A r \in Requests : call[r] = Idle \/ call[r] \in Attempts
      BY <1>1 DEF LimitsInv, LimitsTyped
    <2> QED
      BY <1>1, <2>1, <2>2, <2>3 DEF GuessesAreCounted, LimitsTypeOK, LimitsInv, LimitsTyped, Attempts
  <1> QED
    BY <1>1, LimitsInvariant, PTL

(* A window moves only when it is over, and forward (core/rate_limit.py hit). *)
THEOREM WindowsEnd == LimitsSpec => WindowsRunOut
  <1> DEFINE Moved == \A k \in Keys : \A old \in bucket[k], new \in bucket'[k] :
               old.start # new.start => Over(old, LimitOn(k), now) /\ new.start > old.start
  <1>1. ASSUME LimitsInv, [LimitsNext]_limitVars PROVE Moved
    <2> SUFFICES ASSUME NEW k \in Keys, NEW old \in bucket[k], NEW new \in bucket'[k],
                        old.start # new.start
                 PROVE  Over(old, LimitOn(k), now) /\ new.start > old.start
      OBVIOUS
    <2>1. LimitsTyped /\ bucket[k] = {old} /\ old \in Rows
      BY <1>1 DEF LimitsInv, LimitsTyped, OneRow
    <2>2. bucket'[k] # bucket[k]
      BY <2>1
    <2>3. ASSUME NEW r \in Requests, clear(r) PROVE FALSE
      BY <2>1, <2>2, <2>3 DEF clear, LimitsTyped
    <2>4. ASSUME NEW r \in Requests, Count(r) PROVE Over(old, LimitOn(k), now) /\ new.start > old.start
      <3>1. PICK at \in Times : at = call[r].at /\ at <= now /\ now \in Nat /\ at \in Nat
        BY <1>1, <2>4, CallFacts DEF LimitsInv, NoFuture, Count
      <3>2. k = KeyOf(r) /\ bucket'[k] = Upsert(k, at)
        BY <2>1, <2>2, <2>4, <3>1 DEF Count, LimitsTyped
      <3>3. NewWindow(k, at)
        <4>1. SUFFICES ASSUME ~NewWindow(k, at) PROVE FALSE
          OBVIOUS
        <4>2. PICK row \in Rows : bucket[k] = {row}
                /\ Upsert(k, at) = {[start |-> row.start, hits |-> row.hits + 1]}
          BY <2>1, <4>1, UpsertFacts
        <4>3. row = old /\ new.start = row.start
          BY <2>1, <3>2, <4>2
        <4> QED
          BY <4>3
      <3>4. new = [start |-> at, hits |-> 1] /\ Over(old, LimitOn(k), at)
        BY <2>1, <3>2, <3>3, UpsertFacts DEF NewWindow
      <3>5. LimitOn(k).window \in Nat \ {0} /\ old.start \in Nat
        BY <2>1, LimitFacts DEF Rows, Times
      <3> QED
        BY <3>1, <3>4, <3>5 DEF Over
    <2>5. \/ \E r \in Requests : clear(r) \/ Count(r)
          \/ UNCHANGED bucket
      BY <1>1 DEF LimitsNext, limitVars, Login, Look, Fail, Succeed, Crash
    <2> QED
      BY <2>2, <2>3, <2>4, <2>5
  <1>2. LimitsInv /\ [LimitsNext]_limitVars => [Moved]_limitVars
    BY <1>1
  <1> QED
    BY <1>2, LimitsInvariant, PTL DEF LimitsSpec, WindowsRunOut
=============================================================================
