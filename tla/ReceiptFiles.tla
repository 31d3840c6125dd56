---------------------------- MODULE ReceiptFiles ----------------------------
(***************************************************************************)
(* The life of a request that brings files: POST /expenses with its        *)
(* receipts and POST /reimbursements/{id}/receipt.  The files go to the    *)
(* disk, which no transaction covers; the rows that refer to them go to    *)
(* the database.  A request waits for one of the pool's connections, keeps *)
(* it to the end, uploads file by file, writes its rows, answers, runs its *)
(* background deliveries and only then commits: the exit of the            *)
(* get_connection dependency comes after the answer.                       *)
(*                                                                         *)
(* What can interfere: other requests, a file the server refuses, a        *)
(* refusal of the service, a disk that is full or does not delete, a       *)
(* sender that raises, a commit that fails, a request cut off at any step  *)
(* (cancelled, or its process gone; a crash is every request cut off).     *)
(*                                                                         *)
(* One payout stands for all; receipts of different payouts never meet.    *)
(***************************************************************************)
EXTENDS Naturals, FiniteSets, SequencesExt

CONSTANTS
  Submissions,  \* requests that submit an expense
  Attachments,  \* requests that attach a receipt to the payout
  PoolSize,     \* db_pool_max_size
  MaxFiles,     \* bound: files a submission brings
  MaxFaults     \* bound: things that go wrong in one behaviour

ASSUME OneKind == Submissions \cap Attachments = {}
ASSUME PoolIsOpen == PoolSize \in Nat \ {0} /\ MaxFiles \in Nat \ {0} /\ MaxFaults \in Nat

Requests == Submissions \cup Attachments

VARIABLES
  req,      \* [pc, left, stored, answer]: files still to upload, keys uploaded
  queue,    \* requests waiting for a connection, in order
  disk,     \* keys of the files in the upload directory
  kept,     \* requests whose transaction has committed
  media,    \* keys the committed expense_media rows refer to
  receipt,  \* {} or {key}: the committed payment_receipt_url of the payout
  locked,   \* {} or {request}: who holds the payout's row
  sent,     \* submissions whose administrators were notified outside
  wrong,    \* history: what went wrong in each request
  filed,    \* history: every key a committed row ever referred to
  order     \* history: pairs of attachments, the one answered with success first

database == <<kept, media, receipt>>
history == <<filed, order>>
vars == <<req, queue, disk, database, locked, sent, wrong, history>>

Key(r, n) == <<r, n>>   \* uuid4: no two files share one
Keys == Requests \X (1 .. MaxFiles)
Referred == media \cup receipt

Connected == {"uploading", "written", "answered", "cleaning"}
Holding == {r \in Requests : req[r].pc \in Connected}
PoolHasRoom == Cardinality(Holding) < PoolSize

Goto(r, pc) == req' = [req EXCEPT ![r].pc = pc]
Answer(r, pc, answer) == req' = [req EXCEPT ![r].pc = pc, ![r].answer = answer]
GoesWrong(r, what) == wrong' = [wrong EXCEPT ![r] = @ \cup {what}]
Faults == {r \in Requests : wrong[r] \ {"later file"} # {}}
MayGoWrong == Cardinality(Faults) < MaxFaults

\* Mutant: a rollback keeps the row lock.
KeepLock(r) == UNCHANGED locked

Rollback(r) == locked' = locked \ {r}

Init ==
  /\ req = [r \in Requests |-> [pc |-> "outside", left |-> 0, stored |-> {}, answer |-> "none"]]
  /\ queue = <<>>
  /\ disk = {} /\ kept = {} /\ media = {} /\ receipt = {} /\ filed = {} /\ order = {}
  /\ locked = {} /\ sent = {}
  /\ wrong = [r \in Requests |-> {}]

-----------------------------------------------------------------------------
\* The form is read before the dependencies run, so the files are all there.
Arrive(r) ==
  /\ req[r].pc = "outside"
  /\ \E n \in IF r \in Submissions THEN 0 .. MaxFiles ELSE {1} :
       req' = [req EXCEPT ![r].pc = "waiting", ![r].left = n]
  /\ queue' = Append(queue, r)
  /\ UNCHANGED <<disk, database, locked, sent, wrong, history>>

\* The pool serves its queue in order; the one connection serves every
\* dependency of the request.
Checkout(r) ==
  /\ PoolHasRoom /\ queue # <<>> /\ r = Head(queue)
  /\ Goto(r, "uploading") /\ queue' = Tail(queue)
  /\ UNCHANGED <<disk, database, locked, sent, wrong, history>>
LeaveQueue(r) ==
  \/ \E i \in DOMAIN queue : queue[i] = r /\ queue' = RemoveAt(queue, i)
  \/ (\A i \in DOMAIN queue : queue[i] # r) /\ UNCHANGED queue
TimeOut(r) ==
  /\ req[r].pc = "waiting"
  /\ Answer(r, "over", "busy") /\ LeaveQueue(r)
  /\ UNCHANGED <<disk, database, locked, sent, wrong, history>>

\* Missing token, suspended account, missing permission, invalid payload.
RefuseEarly(r) ==
  /\ req[r].pc = "uploading" /\ req[r].stored = {}
  /\ Answer(r, "over", "refused") /\ Rollback(r)
  /\ UNCHANGED <<queue, disk, database, sent, wrong, history>>

-----------------------------------------------------------------------------
NextKey(r) == Key(r, Cardinality(req[r].stored) + 1)
upload(r) ==
  /\ req[r].pc = "uploading" /\ req[r].left > 0
  /\ disk' = disk \cup {NextKey(r)}
  /\ req' = [req EXCEPT ![r].left = @ - 1, ![r].stored = @ \cup {NextKey(r)}]
  /\ UNCHANGED <<queue, database, locked, sent, wrong, history>>

\* A file over 5 MB, or of an unknown kind: raised outside the try block, so
\* the files before it stay.
verify_upload(r) ==
  /\ req[r].pc = "uploading" /\ req[r].left > 0
  /\ Answer(r, "over", "refused") /\ Rollback(r)
  /\ IF req[r].stored = {} THEN UNCHANGED wrong ELSE GoesWrong(r, "later file")
  /\ UNCHANGED <<queue, disk, database, sent, history>>

\* The disk fails in the middle of a file: outside the try block as well.
BrokenUpload(r) ==
  /\ req[r].pc = "uploading" /\ req[r].left > 0 /\ MayGoWrong
  /\ disk' \in {disk, disk \cup {NextKey(r)}}
  /\ Answer(r, "over", "refused") /\ Rollback(r) /\ GoesWrong(r, "disk")
  /\ UNCHANGED <<queue, database, sent, history>>

-----------------------------------------------------------------------------
\* The rows, the audit entry, the notifications and the answer's own reads:
\* visible to nobody yet.  An attachment first waits for the payout's row.
WriteExpense(r) == r \in Submissions /\ UNCHANGED locked
WriteReceipt(r) == r \in Attachments /\ locked = {} /\ locked' = {r}

\* Mutant: the row commits before the request ends.
WriteAndPublish(r) ==
  /\ req[r].pc = "uploading" /\ req[r].left = 0
  /\ WriteExpense(r) \/ WriteReceipt(r)
  /\ Goto(r, "written")
  /\ media' = IF r \in Submissions THEN media \cup req[r].stored ELSE media
  /\ UNCHANGED <<queue, disk, kept, receipt, sent, wrong, history>>

Write(r) ==
  /\ req[r].pc = "uploading" /\ req[r].left = 0
  /\ WriteExpense(r) \/ WriteReceipt(r)
  /\ Goto(r, "written")
  /\ UNCHANGED <<queue, disk, database, sent, wrong, history>>

\* Mutant: a refusal skips the compensation.
RefuseAtOnce(r) ==
  /\ \/ req[r].pc = "uploading" /\ req[r].left = 0
     \/ req[r].pc = "written"
  /\ Answer(r, "over", "refused") /\ Rollback(r)
  /\ UNCHANGED <<queue, disk, database, sent, wrong, history>>

\* Anything the service raises: no such project, a rule of the expense type,
\* a payout that is not paid, a statement that fails or times out on a lock.
Refuse(r) ==
  /\ \/ req[r].pc = "uploading" /\ req[r].left = 0
     \/ req[r].pc = "written"
  /\ Goto(r, "cleaning")
  /\ UNCHANGED <<queue, disk, database, locked, sent, wrong, history>>

\* delete suppresses an OSError: the file may stay.
delete(r) ==
  /\ req[r].pc = "cleaning"
  /\ \E k \in req[r].stored :
       /\ req' = [req EXCEPT ![r].stored = @ \ {k}]
       /\ \/ disk' = disk \ {k} /\ UNCHANGED wrong
          \/ MayGoWrong /\ UNCHANGED disk /\ GoesWrong(r, "undeleted")
  /\ UNCHANGED <<queue, database, locked, sent, history>>
Reraise(r) ==
  /\ req[r].pc = "cleaning" /\ req[r].stored = {}
  /\ Answer(r, "over", "refused") /\ Rollback(r)
  /\ UNCHANGED <<queue, disk, database, sent, wrong, history>>

-----------------------------------------------------------------------------
Accepted == {q \in Requests : req[q].answer = "ok"}
Respond(r) ==
  /\ req[r].pc = "written"
  /\ Answer(r, "answered", "ok")
  /\ order' = order \cup {<<q, r>> : q \in Accepted \cap Attachments}
  /\ UNCHANGED <<queue, disk, database, locked, sent, wrong, filed>>

\* Background tasks run after the answer, before the dependency's exit.
Deliver(r) ==
  /\ r \in Submissions /\ r \notin sent
  /\ req[r].pc = "answered"
  /\ sent' = sent \cup {r}
  /\ UNCHANGED <<req, queue, disk, database, locked, wrong, history>>

insert_media(r) == r \in Submissions /\ media' = media \cup req[r].stored /\ UNCHANGED receipt

\* Mutant: a receipt that is there already is left alone.
FillReceipt(r) ==
  r \in Attachments /\ receipt' = (IF receipt = {} THEN req[r].stored ELSE receipt) /\ UNCHANGED media

set_payment_receipt(r) == r \in Attachments /\ receipt' = req[r].stored /\ UNCHANGED media

Commit(r) ==
  /\ req[r].pc = "answered" /\ (r \in Submissions => r \in sent)
  /\ kept' = kept \cup {r}
  /\ insert_media(r) \/ set_payment_receipt(r)
  /\ filed' = filed \cup req[r].stored
  /\ Goto(r, "over") /\ Rollback(r)
  /\ UNCHANGED <<queue, disk, sent, wrong, order>>

\* A sender that raises, or a COMMIT that fails: the answer is already out.
CommitFails(r) ==
  /\ req[r].pc = "answered" /\ MayGoWrong
  /\ Goto(r, "over") /\ Rollback(r) /\ GoesWrong(r, "commit")
  /\ UNCHANGED <<queue, disk, database, sent, history>>

\* CancelledError is no Exception, a dead process runs no handler: rollback
\* without cleaning.
Cut(r) ==
  /\ req[r].pc \in Connected \cup {"waiting"} /\ MayGoWrong
  /\ Goto(r, "over") /\ Rollback(r) /\ GoesWrong(r, "cut")
  /\ LeaveQueue(r)
  /\ UNCHANGED <<disk, database, sent, history>>

-----------------------------------------------------------------------------
Step(r) ==
  \/ Checkout(r) \/ upload(r) \/ Write(r) \/ Respond(r)
  \/ Deliver(r) \/ Commit(r) \/ delete(r) \/ Reraise(r)
Next == \E r \in Requests :
  \/ Arrive(r) \/ Step(r)
  \/ TimeOut(r) \/ RefuseEarly(r) \/ verify_upload(r) \/ BrokenUpload(r)
  \/ Refuse(r) \/ CommitFails(r) \/ Cut(r)

\* The event loop runs every task that can run, and the database answers
\* every statement that waits for nobody.
Fairness == \A r \in Requests : WF_vars(Step(r))
Spec == Init /\ [][Next]_vars /\ Fairness

-----------------------------------------------------------------------------
TypeOK ==
  /\ req \in [Requests -> [pc : {"outside", "waiting", "over"} \cup Connected,
       left : 0 .. MaxFiles, stored : SUBSET Keys, answer : {"none", "ok", "refused", "busy"}]]
  /\ queue \in Seq(Requests)
  /\ disk \subseteq Keys /\ media \subseteq Keys /\ receipt \subseteq Keys /\ filed \subseteq Keys
  /\ kept \subseteq Requests /\ locked \subseteq Attachments /\ sent \subseteq Submissions
  /\ order \subseteq Requests \X Requests
  /\ wrong \in [Requests -> SUBSET {"later file", "disk", "undeleted", "commit", "cut"}]

(* No committed row refers to a file that is not there: whichever step fails
   or is the last one, the compensation never deletes a file a row needs.  (A
   file that was written stays written: a power loss that takes back what was
   never synced to the disk is not in the model.)  (expenses/router.py submit_expense, reimbursements/router.py
   attach_payment_receipt). *)
EveryRowHasItsFile == TypeOK /\ Referred \subseteq disk

(* A file no row refers to belongs to a request still under way, was replaced
   by a newer receipt of the same payout (nothing deletes the old one), or is
   what a request left in which a later file was refused, the disk or the
   commit failed, or which was cut off.  A plain refusal of the service never
   leaves a file ("would be orphans", expenses/router.py:121-122). *)
OrphansAreExplained ==
  \A k \in disk \ Referred :
    \/ k \in filed
    \/ k[1] \in Holding
    \/ wrong[k[1]] # {}

RefusedLeavesNothing ==
  \A r \in Requests : req[r].answer \in {"refused", "busy"} =>
    r \notin kept \cup sent \cup locked /\ \A k \in filed \cup Referred : k[1] # r
AcceptedIsKept ==
  \A r \in Requests : req[r].pc = "over" /\ req[r].answer = "ok" =>
    \/ r \in kept /\ req[r].stored \subseteq filed
    \/ wrong[r] \cap {"commit", "cut"} # {}
LastReceiptStands ==
  \A r \in kept \cap Attachments : \E q \in Requests :
    receipt = req[q].stored /\ (q = r \/ <<r, q>> \in order)

(* The answer is sent before the commit (db/connection.py get_connection), and
   is true all the same.  What was refused is not in the database, was not
   announced, and keeps no lock.  What was accepted is there once the request
   is over, rows and files, unless its commit failed or it was cut off.  And of
   the receipts accepted for one payout the last one answered stands, whatever
   overlaps (reimbursements/service.py attach_payment_receipt). *)
AnswersAreTrue == RefusedLeavesNothing /\ AcceptedIsKept /\ LastReceiptStands

(* "External delivery happens after the transaction has committed."
   (expenses/router.py:126) *)
DeliveredIsKept == sent \subseteq kept

(* Every request that arrived comes to its end, with no help from the pool's
   or the statement's timeouts: requests never wait for each other in a circle
   over connections and the payout's row. *)
EveryRequestEnds == \A r \in Requests : req[r].pc = "waiting" ~> req[r].pc = "over"
=============================================================================
