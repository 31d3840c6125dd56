--------------------------- MODULE EmployeeStatus ---------------------------
(***************************************************************************)
(* The status log of one employee (users/service.py create_status): a call *)
(* reads the open record, refuses a status that is the same, closes the    *)
(* open record and opens a new one.  Both timestamps are the start of the  *)
(* call's transaction, the read is not locked, and the UPDATE that closes  *)
(* and the unique index on open records wait for other calls.              *)
(*                                                                         *)
(* The last write of a call and its commit are one step.                   *)
(***************************************************************************)
EXTENDS TransactionClock, FiniteSets, Sequences

CONSTANTS
  Calls,      \* calls under way at a time
  Statuses,   \* statuses managers set
  MaxRecords  \* bound: records ever written

ASSUME MaxRecordsAssumption == MaxRecords \in Nat

VARIABLES
  log,      \* employee_status in the order of status_id: [status, from, to],
            \* to = Never while open
  change,   \* [pc, to, at, seen, row]: the calls; seen: length of the log when
            \* the open record was read; row: the record it closes
  stale     \* history: records written by a call that had read before the
            \* record in front of them was there

statusVars == <<now, log, change, stale>>

Never == MaxTime + 1
Open == {i \in DOMAIN log : log[i].to = Never}

Quiet == [pc |-> "idle"]
Goto(c, pc) == change' = [change EXCEPT ![c].pc = pc]
Close(c) == change' = [change EXCEPT ![c] = Quiet]

StatusInit ==
  /\ now = 0 /\ log = <<>> /\ stale = {}
  /\ change = [c \in Calls |-> Quiet]

-----------------------------------------------------------------------------
\* The transaction starts with the look at the caller's account.
Begin(c, s) ==
  /\ change[c].pc = "idle"
  /\ change' = [change EXCEPT ![c] = [pc |-> "read", to |-> s, at |-> now, seen |-> 0, row |-> 0]]
  /\ UNCHANGED <<now, log, stale>>

\* Mutant: the status is not compared.
ReadUnchecked(c) ==
  /\ change[c].pc = "read"
  /\ change' = [change EXCEPT ![c].pc = IF Open = {} THEN "insert" ELSE "close",
                              ![c].seen = Len(log)]
  /\ UNCHANGED <<now, log, stale>>

get_active_status(c) ==
  /\ change[c].pc = "read"
  /\ IF \E i \in Open : log[i].status = change[c].to THEN Close(c)
     ELSE change' = [change EXCEPT ![c].pc = IF Open = {} THEN "insert" ELSE "close",
                                   ![c].seen = Len(log)]
  /\ UNCHANGED <<now, log, stale>>

\* The UPDATE: its snapshot is of the moment it starts; the record may be
\* one the call did not read.
StartClosing(c) ==
  /\ change[c].pc = "close"
  /\ change' = [change EXCEPT ![c].pc = "closing",
                              ![c].row = IF Open = {} THEN 0 ELSE CHOOSE i \in Open : TRUE]
  /\ UNCHANGED <<now, log, stale>>

\* The call that has closed record i and not committed yet.
Holds(c, i) == change[c].pc = "insert" /\ change[c].row = i /\ i # 0
Free(c, i) == \A d \in Calls \ {c} : ~Holds(d, i)

\* Mutant: the table has no CHECK on the dates.
NoDateCheck(i, at) == TRUE

\* It waits for whoever holds the record, looks at it again, and leaves a
\* record alone that is closed by then; the CHECK on the dates may refuse.
chk_status_dates(i, at) == at > log[i].from
close_status(c) ==
  LET i == change[c].row IN
  /\ change[c].pc = "closing" /\ Free(c, i)
  /\ IF i \in Open
     THEN IF chk_status_dates(i, change[c].at) THEN Goto(c, "insert") ELSE Close(c)
     ELSE change' = [change EXCEPT ![c].pc = "insert", ![c].row = 0]
  /\ UNCHANGED <<now, log, stale>>

\* The INSERT waits for a call that holds the open record; the unique index
\* refuses a second open record.
single_active(c) == Open \ {change[c].row} # {}
create_status(c) ==
  LET i == change[c].row
      closed == IF i = 0 THEN log ELSE [log EXCEPT ![i].to = change[c].at]
      new == [status |-> change[c].to, from |-> change[c].at, to |-> Never]
  IN /\ change[c].pc = "insert"
     /\ \A j \in Open : Free(c, j)
     /\ IF single_active(c) THEN UNCHANGED <<log, stale>>
        ELSE /\ Len(log) < MaxRecords
             /\ log' = Append(closed, new)
             /\ stale' = IF change[c].seen < Len(log) THEN stale \cup {Len(log) + 1} ELSE stale
     /\ Close(c) /\ UNCHANGED now

\* A timeout, a lost connection: rolled back.
GiveUp(c) == change[c].pc # "idle" /\ Close(c) /\ UNCHANGED <<now, log, stale>>

StatusNext ==
  \/ \E c \in Calls :
       \/ \E s \in Statuses : Begin(c, s)
       \/ get_active_status(c) \/ StartClosing(c) \/ close_status(c)
       \/ create_status(c) \/ GiveUp(c)
  \/ Tick /\ UNCHANGED <<log, change, stale>>

StatusSpec == StatusInit /\ [][StatusNext]_statusVars

-----------------------------------------------------------------------------
StatusTypeOK ==
  /\ now \in Times
  /\ \A i \in DOMAIN log :
       log[i] \in [status : Statuses, from : Times, to : 0 .. Never]
  /\ Len(log) <= MaxRecords
  /\ \A c \in Calls : change[c] = Quiet \/
       change[c] \in [pc : {"read", "close", "closing", "insert"}, to : Statuses,
                      at : Times, seen : 0 .. MaxRecords, row : 0 .. MaxRecords]
  /\ stale \subseteq 1 .. MaxRecords

(* The log is one line: every record but the last is closed, starts before it
   ends, and ends at the moment the next one starts; the last is open.  No
   overlap, no gap and no second open record, although the times are those of
   transactions that may finish in the other order (migrations/0001:118, 122,
   users/service.py create_status). *)
HistoryIsOneLine ==
  /\ StatusTypeOK
  /\ \A i \in DOMAIN log : log[i].from < log[i].to
  /\ \A i \in 1 .. Len(log) - 1 : log[i].to = log[i + 1].from
  /\ Len(log) > 0 => log[Len(log)].to = Never

Same(i) == log[i].status = log[i + 1].status

(* "Same-status requests stay a no-op conflict to keep the log clean"
   (users/service.py:171): two records in a row have different statuses -
   unless the call that wrote the second had read the log before the first was
   there, which is when the log does not stay clean. *)
CleanUnlessOvertaken ==
  \A i \in 1 .. Len(log) - 1 : Same(i) => i + 1 \in stale
=============================================================================
