------------------------- MODULE ReceiptFiles_proofs -------------------------
(***************************************************************************)
(* Proofs about ReceiptFiles, for any number of requests, files,           *)
(* connections and faults.                                                 *)
(*                                                                         *)
(* The argument: keys are never shared, so what is on the disk under a     *)
(* request's keys is that request's doing alone (Fits).  While it is under *)
(* way these are the files it has stored, unless something went wrong;     *)
(* when it ends they are filed, deleted or explained.  A committed row is  *)
(* of a request that is over, which deletes nothing any more (HasRow).  An  *)
(* attachment holds the payout's row from its statement to its commit, so  *)
(* no other is answered or committed in between (Settled).                 *)
(***************************************************************************)
EXTENDS ReceiptFiles, FiniteSetTheorems, SequenceTheorems, TLAPS

States ==
  [pc : {"outside", "waiting", "over"} \cup Connected,
   left : 0 .. MaxFiles, stored : SUBSET Keys, answer : {"none", "ok", "refused", "busy"}]
Troubles == SUBSET {"later file", "disk", "undeleted", "commit", "cut"}

\* Who waits is in the queue once, and nobody else is.
QueueIsRight ==
  /\ \A i \in DOMAIN queue : req[queue[i]].pc = "waiting"
  /\ \A i, j \in DOMAIN queue : queue[i] = queue[j] => i = j

Begun(r) == req[r].pc \in {"uploading", "written", "answered"}

Fits(r) ==
  /\ IsFiniteSet(req[r].stored) /\ \A k \in req[r].stored : k[1] = r
  /\ req[r].pc \in {"outside", "waiting"} => req[r].stored = {} /\ req[r].answer = "none"
  /\ req[r].pc = "uploading" => req[r].left + Cardinality(req[r].stored) <= MaxFiles
  /\ Begun(r) => req[r].stored \subseteq disk
  /\ req[r].pc # "over" /\ wrong[r] = {} => \A k \in disk : k[1] = r => k \in req[r].stored
  /\ r \in kept => req[r].pc = "over"
  /\ req[r].pc = "answered" => req[r].answer = "ok"
  /\ r \in sent => req[r].pc \in {"answered", "over"} /\ req[r].answer = "ok"
  /\ req[r].pc \in {"uploading", "written", "cleaning"} => req[r].answer = "none"
  /\ req[r].pc = "over" /\ req[r].answer = "ok" /\ wrong[r] \cap {"commit", "cut"} = {} =>
       r \in kept /\ req[r].stored \subseteq filed

Explained(k) == k \in filed \/ k[1] \in Holding \/ wrong[k[1]] # {}
HasRow(k) == k \in disk /\ k \in filed /\ k[1] \in kept

\* The inductive invariant.
IInv ==
  /\ TypeOK /\ QueueIsRight
  /\ \A r \in Requests : Fits(r)
  /\ \A k \in disk : Explained(k)
  /\ \A k \in Referred : HasRow(k)

-----------------------------------------------------------------------------
LEMMA Types ==
  ASSUME TypeOK
  PROVE  /\ req \in [Requests -> States] /\ wrong \in [Requests -> Troubles]
         /\ queue \in Seq(Requests)
         /\ disk \subseteq Keys /\ media \subseteq Keys /\ receipt \subseteq Keys /\ filed \subseteq Keys
         /\ kept \subseteq Requests /\ locked \subseteq Attachments /\ sent \subseteq Submissions
         /\ order \subseteq Requests \X Requests
         /\ \A k \in Keys : k[1] \in Requests
  BY DEF TypeOK, States, Troubles, Keys

LEMMA OrderStays ==
  ASSUME TypeOK, UNCHANGED history
  PROVE  UNCHANGED filed /\ order' \subseteq Requests \X Requests
  BY Types DEF history

\* A step of request r touches its own files only.
LEMMA OneRequest ==
  ASSUME IInv, NEW r \in Requests, NEW s \in States, NEW w \in Troubles,
         req' = [req EXCEPT ![r] = s], wrong' = [wrong EXCEPT ![r] = w],
         queue' \in Seq(Requests), QueueIsRight',
         disk' \subseteq Keys, \A k \in Keys : k[1] # r => (k \in disk' <=> k \in disk),
         media' \subseteq Keys, receipt' \subseteq Keys, filed \subseteq filed', filed' \subseteq Keys,
         kept \subseteq kept', kept' \subseteq kept \cup {r},
         sent \subseteq sent', sent' \subseteq sent \cup {r}, sent' \subseteq Submissions,
         locked' \subseteq Attachments, order' \subseteq Requests \X Requests,
         Fits(r)', \A k \in disk' : k[1] = r => Explained(k)', \A k \in Referred' : HasRow(k)'
  PROVE  IInv'
  <1>0. TypeOK
    BY DEF IInv
  <1>1. /\ req' \in [Requests -> States] /\ wrong' \in [Requests -> Troubles]
        /\ \A q \in Requests \ {r} : req'[q] = req[q] /\ wrong'[q] = wrong[q]
    BY <1>0, Types
  <1>2. TypeOK'
    BY <1>0, <1>1, Types DEF TypeOK, States, Troubles
  <1>3. ASSUME NEW q \in Requests
        PROVE  Fits(q)'
    <2>1. CASE q = r
      BY <2>1
    <2>2. CASE q # r
      <3>1. Fits(q) /\ req'[q] = req[q] /\ wrong'[q] = wrong[q]
        BY <1>1, <2>2 DEF IInv
      <3>2. \A k \in Keys : k[1] = q => (k \in disk' <=> k \in disk)
        BY <2>2
      <3>3. req[q].stored \subseteq Keys /\ disk \subseteq Keys
        BY <1>0, Types DEF States
      <3>4. Begun(q)' => req'[q].stored \subseteq disk'
        BY <3>1, <3>2, <3>3 DEF Fits, Begun
      <3>5. req'[q].pc # "over" /\ wrong'[q] = {} => \A k \in disk' : k[1] = q => k \in req'[q].stored
        BY <3>1, <3>2, <3>3 DEF Fits
      <3> QED
        BY <2>2, <3>1, <3>4, <3>5 DEF Fits
    <2> QED
      BY <2>1, <2>2
  <1>4. ASSUME NEW k \in disk'
        PROVE  Explained(k)'
    <2>1. CASE k[1] = r
      BY <2>1
    <2>2. CASE k[1] # r
      <3>1. k \in disk /\ Explained(k) /\ k[1] \in Requests \ {r}
        BY <1>0, <2>2, Types DEF IInv
      <3> QED
        BY <1>1, <3>1 DEF Explained, Holding
    <2> QED
      BY <2>1, <2>2
  <1> QED
    BY <1>2, <1>3, <1>4 DEF IInv

\* Most steps leave the database as it is.
LEMMA NoRow ==
  ASSUME IInv, NEW r \in Requests, req[r].pc # "over", NEW s \in States, NEW w \in Troubles,
         req' = [req EXCEPT ![r] = s], wrong' = [wrong EXCEPT ![r] = w],
         queue' \in Seq(Requests), QueueIsRight',
         disk' \subseteq Keys, \A k \in Keys : k[1] # r => (k \in disk' <=> k \in disk),
         UNCHANGED <<database, filed>>,
         sent \subseteq sent', sent' \subseteq sent \cup {r}, sent' \subseteq Submissions,
         locked' \subseteq Attachments, order' \subseteq Requests \X Requests,
         Fits(r)', \A k \in disk' : k[1] = r => Explained(k)'
  PROVE  IInv'
  <1>1. UNCHANGED <<kept, media, receipt>>
    BY DEF database
  <1>2. TypeOK /\ r \notin kept
    BY DEF IInv, Fits
  <1>3. ASSUME NEW k \in Referred'
        PROVE  HasRow(k)'
    <2>1. k \in Referred /\ HasRow(k) /\ k \in Keys
      BY <1>1, <1>2, <1>3, Types DEF Referred, IInv
    <2> QED
      BY <1>1, <1>2, <2>1 DEF HasRow
  <1> QED
    BY <1>1, <1>2, <1>3, OneRequest, Types

-----------------------------------------------------------------------------
(* The queue. *)

LEMMA QueueStays ==
  ASSUME IInv, NEW r \in Requests, NEW s \in States, req' = [req EXCEPT ![r] = s],
         req[r].pc # "waiting", UNCHANGED queue
  PROVE  queue' \in Seq(Requests) /\ QueueIsRight'
  <1>1. /\ queue \in Seq(Requests) /\ req \in [Requests -> States] /\ QueueIsRight
    BY Types DEF IInv
  <1>2. \A i \in DOMAIN queue : queue[i] \in Requests /\ queue[i] # r
    BY <1>1, ElementOfSeq DEF QueueIsRight
  <1> QED
    BY <1>1, <1>2 DEF QueueIsRight

LEMMA QueueGrows ==
  ASSUME IInv, NEW r \in Requests, NEW s \in States, req' = [req EXCEPT ![r] = s],
         req[r].pc = "outside", s.pc = "waiting", queue' = Append(queue, r)
  PROVE  queue' \in Seq(Requests) /\ QueueIsRight'
  <1>1. /\ queue \in Seq(Requests) /\ req \in [Requests -> States] /\ QueueIsRight
    BY Types DEF IInv
  <1> DEFINE n == Len(queue)
  <1>2. n \in Nat /\ DOMAIN queue = 1 .. n /\ \A i \in 1 .. n : queue[i] \in Requests
    BY <1>1
  <1>3. /\ queue' \in Seq(Requests) /\ DOMAIN queue' = 1 .. n + 1
        /\ \A i \in 1 .. n : queue'[i] = queue[i]
        /\ queue'[n + 1] = r
    BY <1>1, <1>2
  <1>4. \A i \in 1 .. n : queue[i] # r /\ req'[queue[i]].pc = "waiting"
    BY <1>1, <1>2 DEF QueueIsRight
  <1>5. req'[r].pc = "waiting"
    BY <1>1
  <1> HIDE DEF n
  <1>6. \A i \in 1 .. n + 1 : i \in 1 .. n \/ i = n + 1
    BY <1>2
  <1>7. \A i \in 1 .. n + 1 : req'[queue'[i]].pc = "waiting"
    BY <1>3, <1>4, <1>5, <1>6
  <1>8. \A i, j \in 1 .. n + 1 : queue'[i] = queue'[j] => i = j
    BY <1>1, <1>2, <1>3, <1>4, <1>6 DEF QueueIsRight
  <1> QED
    BY <1>3, <1>7, <1>8 DEF QueueIsRight

LEMMA QueueServes ==
  ASSUME IInv, NEW r \in Requests, NEW s \in States, req' = [req EXCEPT ![r] = s],
         queue # <<>>, r = Head(queue), queue' = Tail(queue)
  PROVE  queue' \in Seq(Requests) /\ QueueIsRight' /\ req[r].pc = "waiting"
  <1>1. /\ queue \in Seq(Requests) /\ req \in [Requests -> States] /\ QueueIsRight
    BY Types DEF IInv
  <1> DEFINE n == Len(queue)
  <1>2. /\ n \in Nat \ {0} /\ DOMAIN queue = 1 .. n /\ \A i \in 1 .. n : queue[i] \in Requests
        /\ queue[1] = r
    BY <1>1
  <1>3. /\ queue' \in Seq(Requests) /\ DOMAIN queue' = 1 .. n - 1
        /\ \A i \in 1 .. n - 1 : queue'[i] = queue[i + 1]
    BY <1>1, <1>2
  <1>4. \A i \in 1 .. n - 1 : i + 1 \in 1 .. n /\ i + 1 # 1
    BY <1>2
  <1> HIDE DEF n
  <1>5. \A i \in 1 .. n - 1 : queue[i + 1] # r /\ req[queue[i + 1]].pc = "waiting" /\ queue[i + 1] \in Requests
    BY <1>1, <1>2, <1>4 DEF QueueIsRight
  <1>6. \A i \in 1 .. n - 1 : req'[queue'[i]].pc = "waiting"
    BY <1>1, <1>3, <1>5
  <1>7. \A i, j \in 1 .. n - 1 : queue'[i] = queue'[j] => i = j
    <2> TAKE i, j \in 1 .. n - 1
    <2> HAVE queue'[i] = queue'[j]
    <2>1. i + 1 = j + 1
      BY <1>1, <1>2, <1>3, <1>4 DEF QueueIsRight
    <2> QED
      BY <1>2, <2>1
  <1>8. req[r].pc = "waiting"
    BY <1>1, <1>2 DEF QueueIsRight
  <1> QED
    BY <1>3, <1>6, <1>7, <1>8 DEF QueueIsRight

LEMMA Without ==
  ASSUME NEW q \in Seq(Requests), NEW i \in 1 .. Len(q)
  PROVE  /\ Len(q) \in Nat /\ RemoveAt(q, i) \in Seq(Requests) /\ Len(RemoveAt(q, i)) = Len(q) - 1
         /\ \A j \in 1 .. Len(q) - 1 : RemoveAt(q, i)[j] = IF j < i THEN q[j] ELSE q[j + 1]
  <1> DEFINE n == Len(q)
             a == SubSeq(q, 1, i - 1)
             b == SubSeq(q, i + 1, n)
  <1>1. n \in Nat /\ i \in Int /\ 1 <= i /\ i <= n
    OBVIOUS
  <1>2. \A k \in 1 .. n : q[k] \in Requests
    OBVIOUS
  <1>3. a \in Seq(Requests) /\ Len(a) = i - 1 /\ \A j \in 1 .. i - 1 : a[j] = q[j]
    BY <1>1, <1>2, SubSeqProperties
  <1>4. b \in Seq(Requests) /\ Len(b) = n - i /\ \A j \in 1 .. n - i : b[j] = q[i + j]
    <2>1. i + 1 \in Int /\ n \in Int /\ \A k \in i + 1 .. n : q[k] \in Requests
      BY <1>1, <1>2
    <2>2. /\ b \in Seq(Requests) /\ Len(b) = (IF i + 1 <= n THEN n - (i + 1) + 1 ELSE 0)
          /\ \A j \in 1 .. n - (i + 1) + 1 : b[j] = q[(i + 1) + j - 1]
      BY <2>1, SubSeqProperties
    <2> HIDE DEF b, n
    <2>3. n - (i + 1) + 1 = n - i /\ \A j \in 1 .. n - i : (i + 1) + j - 1 = i + j
      BY <1>1
    <2>4. Len(b) = n - i
      BY <1>1, <2>2
    <2> QED
      BY <2>2, <2>3, <2>4
  <1>5. RemoveAt(q, i) = a \o b
    BY DEF RemoveAt
  <1> HIDE DEF a, b
  <1>6. a \o b \in Seq(Requests) /\ Len(a \o b) = n - 1
    <2>1. a \o b \in Seq(Requests) /\ Len(a \o b) = Len(a) + Len(b)
      BY <1>3, <1>4, ConcatProperties
    <2>2. (i - 1) + (n - i) = n - 1
      BY <1>1
    <2> QED
      BY <1>3, <1>4, <2>1, <2>2
  <1>7. ASSUME NEW j \in 1 .. n - 1
        PROVE  (a \o b)[j] = IF j < i THEN q[j] ELSE q[j + 1]
    <2>1. (a \o b)[j] = IF j <= Len(a) THEN a[j] ELSE b[j - Len(a)]
      BY <1>1, <1>3, <1>4, ConcatProperties
    <2>2. CASE j < i
      BY <1>1, <1>3, <2>1, <2>2
    <2>3. CASE ~(j < i)
      <3>1. j - (i - 1) \in 1 .. n - i /\ i + (j - (i - 1)) = j + 1
        BY <1>1, <2>3
      <3> QED
        BY <1>1, <1>3, <1>4, <2>1, <2>3, <3>1
    <2> QED
      BY <2>2, <2>3
  <1> QED
    BY <1>1, <1>5, <1>6, <1>7

LEMMA QueueShrinks ==
  ASSUME IInv, NEW r \in Requests, NEW s \in States, req' = [req EXCEPT ![r] = s], LeaveQueue(r)
  PROVE  queue' \in Seq(Requests) /\ QueueIsRight'
  <1>1. /\ queue \in Seq(Requests) /\ req \in [Requests -> States] /\ QueueIsRight
    BY Types DEF IInv
  <1> DEFINE n == Len(queue)
  <1>2. n \in Nat /\ DOMAIN queue = 1 .. n /\ \A i \in 1 .. n : queue[i] \in Requests
    BY <1>1
  <1>3. CASE (\A i \in DOMAIN queue : queue[i] # r) /\ UNCHANGED queue
    BY <1>1, <1>2, <1>3 DEF QueueIsRight
  <1>4. ASSUME NEW i \in DOMAIN queue, queue[i] = r, queue' = RemoveAt(queue, i)
        PROVE  queue' \in Seq(Requests) /\ QueueIsRight'
    <2> DEFINE from(j) == IF j < i THEN j ELSE j + 1
    <2>1. /\ queue' \in Seq(Requests) /\ DOMAIN queue' = 1 .. n - 1
          /\ \A j \in 1 .. n - 1 : queue'[j] = queue[from(j)]
      <3>1. i \in 1 .. Len(queue)
        BY <1>2, <1>4
      <3>2. /\ RemoveAt(queue, i) \in Seq(Requests) /\ Len(RemoveAt(queue, i)) = n - 1
            /\ \A j \in 1 .. n - 1 : RemoveAt(queue, i)[j] = queue[from(j)]
        BY <1>1, <3>1, Without
      <3>3. DOMAIN RemoveAt(queue, i) = 1 .. Len(RemoveAt(queue, i))
        BY <3>2
      <3> QED
        BY <1>4, <3>2, <3>3
    <2>2. \A j \in 1 .. n - 1 : from(j) \in 1 .. n /\ from(j) # i
      BY <1>2, <1>4
    <2>3. \A j, k \in 1 .. n - 1 : from(j) = from(k) => j = k
      BY <1>2, <1>4
    <2> HIDE DEF from, n
    <2>4. \A j \in 1 .. n - 1 : queue'[j] # r /\ queue'[j] \in Requests /\ req[queue'[j]].pc = "waiting"
      BY <1>1, <1>2, <1>4, <2>1, <2>2 DEF QueueIsRight
    <2>5. \A j \in 1 .. n - 1 : req'[queue'[j]].pc = "waiting"
      BY <1>1, <2>4
    <2>6. \A j, k \in 1 .. n - 1 : queue'[j] = queue'[k] => j = k
      BY <1>1, <1>2, <2>1, <2>2, <2>3 DEF QueueIsRight
    <2> QED
      BY <2>1, <2>5, <2>6 DEF QueueIsRight
  <1> QED
    BY <1>3, <1>4 DEF LeaveQueue

-----------------------------------------------------------------------------
(* The steps. *)

LEMMA Facts ==
  ASSUME IInv, NEW r \in Requests
  PROVE  /\ TypeOK /\ Fits(r) /\ req[r] \in States /\ wrong[r] \in Troubles
         /\ req \in [Requests -> States] /\ wrong \in [Requests -> Troubles]
         /\ \A k \in disk : k \in Keys
  BY Types DEF IInv

\* What is under a request's keys while it is under way needs no explanation.
LEMMA HoldersExplain ==
  ASSUME NEW r \in Requests, req'[r].pc \in Connected
  PROVE  \A k \in disk' : k[1] = r => Explained(k)'
  BY DEF Explained, Holding

LEMMA ArriveKeeps ==
  ASSUME IInv, NEW r \in Requests, Arrive(r)
  PROVE  IInv'
  <1>1. PICK n \in IF r \in Submissions THEN 0 .. MaxFiles ELSE {1} :
            req' = [req EXCEPT ![r].pc = "waiting", ![r].left = n]
    BY DEF Arrive
  <1> DEFINE s == [req[r] EXCEPT !.pc = "waiting", !.left = n]
  <1>2. /\ TypeOK /\ Fits(r) /\ req[r] \in States /\ wrong[r] \in Troubles /\ req[r].pc = "outside"
        /\ wrong' = [wrong EXCEPT ![r] = wrong[r]] /\ req' = [req EXCEPT ![r] = s]
    BY <1>1, Facts DEF Arrive
  <1>3. n \in 0 .. MaxFiles
    BY PoolIsOpen
  <1>4. s \in States
    BY <1>2, <1>3 DEF States
  <1>5. s.pc = "waiting" /\ s.stored = req[r].stored /\ s.answer = req[r].answer
    BY <1>2 DEF States
  <1> HIDE DEF s
  <1>6. queue' \in Seq(Requests) /\ QueueIsRight'
    BY <1>2, <1>4, <1>5, QueueGrows DEF Arrive
  <1>7. req'[r] = s /\ wrong'[r] = wrong[r]
    BY <1>2, Facts
  <1>8. Fits(r)'
    BY <1>2, <1>5, <1>7 DEF Arrive, Fits, Begun, database
  <1>9. \A k \in disk' : k[1] = r => Explained(k)'
    BY <1>2, <1>7 DEF Arrive, IInv, Explained, Holding, Connected, Fits
  <1> QED
    BY <1>2, <1>4, <1>6, <1>8, <1>9, NoRow, OrderStays, Types DEF Arrive

LEMMA CheckoutKeeps ==
  ASSUME IInv, NEW r \in Requests, Checkout(r)
  PROVE  IInv'
  <1> DEFINE s == [req[r] EXCEPT !.pc = "uploading"]
  <1>1. /\ TypeOK /\ Fits(r) /\ req[r] \in States /\ wrong[r] \in Troubles
        /\ wrong' = [wrong EXCEPT ![r] = wrong[r]] /\ req' = [req EXCEPT ![r] = s]
    BY Facts DEF Checkout, Goto
  <1>2. s \in States
    BY <1>1 DEF States, Connected
  <1>3. s.pc = "uploading" /\ s.stored = req[r].stored /\ s.answer = req[r].answer /\ s.left \in 0 .. MaxFiles
    BY <1>1 DEF States
  <1> HIDE DEF s
  <1>4. queue' \in Seq(Requests) /\ QueueIsRight' /\ req[r].pc = "waiting"
    BY <1>1, <1>2, QueueServes DEF Checkout
  <1>5. req'[r] = s /\ wrong'[r] = wrong[r]
    BY <1>1, Facts
  <1>6. s.left + Cardinality(s.stored) <= MaxFiles
    <2>1. s.stored = {}
      BY <1>1, <1>3, <1>4 DEF Fits
    <2> QED
      BY <1>3, <2>1, FS_EmptySet, PoolIsOpen
  <1>7. Fits(r)'
    BY <1>1, <1>3, <1>4, <1>5, <1>6 DEF Checkout, Fits, Begun, database
  <1>8. \A k \in disk' : k[1] = r => Explained(k)'
    BY <1>3, <1>5, HoldersExplain DEF Connected
  <1> QED
    BY <1>1, <1>2, <1>4, <1>7, <1>8, NoRow, OrderStays, Types DEF Checkout

\* A request that has left nothing behind, or for which something went wrong.
LEMMA EndKeeps ==
  ASSUME IInv, NEW r \in Requests, NEW answer \in {"refused", "busy"}, NEW w \in Troubles,
         req[r].pc # "over", req' = [req EXCEPT ![r].pc = "over", ![r].answer = answer],
         wrong' = [wrong EXCEPT ![r] = w], wrong[r] \subseteq w, w # {} \/ req[r].stored = {},
         queue' \in Seq(Requests), QueueIsRight',
         disk \subseteq disk', disk' \subseteq Keys,
         \A k \in disk' \ disk : k[1] = r /\ w # {},
         locked' \subseteq Attachments, r \notin sent, UNCHANGED <<database, history, sent>>
  PROVE  IInv'
  <1> DEFINE s == [req[r] EXCEPT !.pc = "over", !.answer = answer]
  <1>1. /\ TypeOK /\ Fits(r) /\ req[r] \in States /\ wrong[r] \in Troubles
        /\ req' = [req EXCEPT ![r] = s]
    BY Facts
  <1>2. s \in States
    BY <1>1 DEF States
  <1>3. s.pc = "over" /\ s.stored = req[r].stored /\ s.answer = answer
    BY <1>1 DEF States
  <1> HIDE DEF s
  <1>4. req'[r] = s /\ wrong'[r] = w
    BY <1>1, Facts
  <1>5. Fits(r)'
    BY <1>1, <1>3, <1>4 DEF Fits, Begun, database
  <1>6. \A k \in disk' : k[1] = r => Explained(k)'
    BY <1>1, <1>3, <1>4 DEF Explained, Fits
  <1>7. \A k \in Keys : k[1] # r => (k \in disk' <=> k \in disk)
    OBVIOUS
  <1> QED
    BY <1>1, <1>2, <1>5, <1>6, <1>7, NoRow, OrderStays, Types

LEMMA NotSent ==
  ASSUME IInv, NEW r \in Requests, req[r].pc \notin {"answered", "over"}
  PROVE  r \notin sent
  BY Facts DEF Fits

LEMMA TimeOutKeeps ==
  ASSUME IInv, NEW r \in Requests, TimeOut(r)
  PROVE  IInv'
  <1> DEFINE s == [req[r] EXCEPT !.pc = "over", !.answer = "busy"]
  <1>1. /\ TypeOK /\ Fits(r) /\ req[r] \in States /\ wrong[r] \in Troubles /\ req[r].pc = "waiting"
        /\ req' = [req EXCEPT ![r] = s] /\ wrong' = [wrong EXCEPT ![r] = wrong[r]]
    BY Facts DEF TimeOut, Answer
  <1>2. s \in States
    BY <1>1 DEF States
  <1>3. queue' \in Seq(Requests) /\ QueueIsRight'
    BY <1>1, <1>2, QueueShrinks DEF TimeOut
  <1>4. req[r].stored = {}
    BY <1>1 DEF Fits
  <1> QED
    BY <1>1, <1>3, <1>4, NotSent, EndKeeps, Types DEF TimeOut, Answer

\* Who holds a connection waits no more.
LEMMA Leaving ==
  ASSUME IInv, NEW r \in Requests, req[r].pc \in Connected, NEW pc \in {"over"} \cup Connected,
         NEW answer \in {"none", "ok", "refused", "busy"},
         req' = [req EXCEPT ![r].pc = pc, ![r].answer = answer], UNCHANGED queue
  PROVE  queue' \in Seq(Requests) /\ QueueIsRight'
  <1> DEFINE s == [req[r] EXCEPT !.pc = pc, !.answer = answer]
  <1>1. s \in States /\ req' = [req EXCEPT ![r] = s]
    BY Facts DEF States
  <1> HIDE DEF s
  <1> QED
    BY <1>1, QueueStays DEF Connected

LEMMA LockFreed ==
  ASSUME TypeOK, NEW r, Rollback(r)
  PROVE  locked' \subseteq Attachments
  BY DEF TypeOK, Rollback

LEMMA RefusalsKeep ==
  ASSUME IInv, NEW r \in Requests, RefuseEarly(r) \/ verify_upload(r) \/ BrokenUpload(r) \/ Reraise(r)
  PROVE  IInv'
  <1>1. /\ TypeOK /\ Fits(r) /\ req[r] \in States /\ wrong[r] \in Troubles
        /\ req[r].pc \in {"uploading", "cleaning"} /\ req[r].pc \in Connected
        /\ req' = [req EXCEPT ![r].pc = "over", ![r].answer = "refused"]
        /\ UNCHANGED <<queue, database, sent, history>> /\ Rollback(r)
    BY Facts DEF RefuseEarly, verify_upload, BrokenUpload, Reraise, Answer, Connected
  <1>2. queue' \in Seq(Requests) /\ QueueIsRight'
    BY <1>1, Leaving
  <1>3. locked' \subseteq Attachments /\ r \notin sent /\ disk \subseteq Keys
    BY <1>1, LockFreed, NotSent, Types
  <1>4. CASE RefuseEarly(r) \/ Reraise(r)
    <2>1. wrong' = [wrong EXCEPT ![r] = wrong[r]] /\ disk' = disk /\ req[r].stored = {}
      BY <1>4, Facts DEF RefuseEarly, Reraise
    <2> QED
      BY <1>1, <1>2, <1>3, <2>1, EndKeeps
  <1>5. CASE verify_upload(r)
    <2>1. CASE req[r].stored = {}
      <3>1. wrong' = [wrong EXCEPT ![r] = wrong[r]] /\ disk' = disk
        BY <1>5, <2>1, Facts DEF verify_upload
      <3> QED
        BY <1>1, <1>2, <1>3, <2>1, <3>1, EndKeeps
    <2>2. CASE req[r].stored # {}
      <3> DEFINE w == wrong[r] \cup {"later file"}
      <3>1. w \in Troubles /\ wrong[r] \subseteq w /\ w # {}
        BY <1>1 DEF Troubles
      <3>2. wrong' = [wrong EXCEPT ![r] = w] /\ UNCHANGED disk
        BY <1>5, <2>2 DEF verify_upload, GoesWrong
      <3> QED
        BY <1>1, <1>2, <1>3, <3>1, <3>2, EndKeeps
    <2> QED
      BY <2>1, <2>2
  <1>6. CASE BrokenUpload(r)
    <2> DEFINE w == wrong[r] \cup {"disk"}
    <2>1. w \in Troubles /\ wrong[r] \subseteq w /\ w # {}
      BY <1>1 DEF Troubles
    <2>2. wrong' = [wrong EXCEPT ![r] = w]
      BY <1>6 DEF BrokenUpload, GoesWrong
    <2>3. NextKey(r)[1] = r
      BY DEF NextKey, Key
    <2>4. NextKey(r) \in Keys
      <3>1. IsFiniteSet(req[r].stored) /\ req[r].left + Cardinality(req[r].stored) <= MaxFiles
            /\ req[r].left > 0 /\ req[r].left \in 0 .. MaxFiles
        BY <1>1, <1>6 DEF Fits, BrokenUpload, States
      <3>2. Cardinality(req[r].stored) \in Nat
        BY <3>1, FS_CardinalityType
      <3>3. Cardinality(req[r].stored) + 1 \in 1 .. MaxFiles
        BY <3>1, <3>2, PoolIsOpen
      <3> QED
        BY <3>3 DEF NextKey, Key, Keys
    <2>5. disk \subseteq disk' /\ disk' \subseteq Keys /\ \A k \in disk' \ disk : k[1] = r
      BY <1>3, <1>6, <2>3, <2>4 DEF BrokenUpload
    <2> QED
      BY <1>1, <1>2, <1>3, <2>1, <2>2, <2>5, EndKeeps
  <1> QED
    BY <1>4, <1>5, <1>6

LEMMA NewKey ==
  ASSUME IInv, NEW r \in Requests, req[r].pc = "uploading", req[r].left > 0
  PROVE  /\ NextKey(r) \in Keys /\ NextKey(r)[1] = r
         /\ req[r].left - 1 \in 0 .. MaxFiles
         /\ IsFiniteSet(req[r].stored \cup {NextKey(r)})
         /\ req[r].left - 1 + Cardinality(req[r].stored \cup {NextKey(r)}) <= MaxFiles
  <1>1. IsFiniteSet(req[r].stored) /\ req[r].left + Cardinality(req[r].stored) <= MaxFiles
        /\ req[r].left \in 0 .. MaxFiles
    BY Facts DEF Fits, States
  <1>2. Cardinality(req[r].stored) \in Nat
    BY <1>1, FS_CardinalityType
  <1>3. Cardinality(req[r].stored) + 1 \in 1 .. MaxFiles /\ req[r].left - 1 \in 0 .. MaxFiles
    BY <1>1, <1>2, PoolIsOpen
  <1>4. NextKey(r) \in Keys /\ NextKey(r)[1] = r
    BY <1>3 DEF NextKey, Key, Keys
  <1>5. /\ IsFiniteSet(req[r].stored \cup {NextKey(r)})
        /\ Cardinality(req[r].stored \cup {NextKey(r)}) \in
             {Cardinality(req[r].stored), Cardinality(req[r].stored) + 1}
    BY <1>1, FS_AddElement
  <1> QED
    BY <1>1, <1>2, <1>3, <1>4, <1>5, PoolIsOpen

LEMMA uploadKeeps ==
  ASSUME IInv, NEW r \in Requests, upload(r)
  PROVE  IInv'
  <1> DEFINE k == NextKey(r)
             s == [req[r] EXCEPT !.left = @ - 1, !.stored = @ \cup {k}]
  <1>1. /\ TypeOK /\ Fits(r) /\ req[r] \in States /\ wrong[r] \in Troubles /\ req[r].pc = "uploading"
        /\ req' = [req EXCEPT ![r] = s] /\ wrong' = [wrong EXCEPT ![r] = wrong[r]]
    BY Facts DEF upload
  <1>2. /\ k \in Keys /\ k[1] = r /\ req[r].left - 1 \in 0 .. MaxFiles
        /\ IsFiniteSet(req[r].stored \cup {k})
        /\ req[r].left - 1 + Cardinality(req[r].stored \cup {k}) <= MaxFiles
    BY <1>1, NewKey DEF upload
  <1> HIDE DEF k
  <1>3. s \in States
    BY <1>1, <1>2 DEF States
  <1>4. /\ s.pc = "uploading" /\ s.stored = req[r].stored \cup {k} /\ s.answer = req[r].answer
        /\ s.left = req[r].left - 1
    BY <1>1 DEF States
  <1> HIDE DEF s
  <1>5. queue' \in Seq(Requests) /\ QueueIsRight'
    BY <1>1, <1>3, QueueStays DEF upload
  <1>6. req'[r] = s /\ wrong'[r] = wrong[r] /\ disk' = disk \cup {k}
    BY <1>1, Facts DEF upload, k
  <1>7. Fits(r)'
    BY <1>1, <1>2, <1>4, <1>6 DEF upload, Fits, Begun, database
  <1>8. \A l \in disk' : l[1] = r => Explained(l)'
    BY <1>4, <1>6, HoldersExplain DEF Connected
  <1>9. disk' \subseteq Keys /\ \A l \in Keys : l[1] # r => (l \in disk' <=> l \in disk)
    BY <1>1, <1>2, <1>6, Types
  <1> QED
    BY <1>1, <1>3, <1>5, <1>7, <1>8, <1>9, NoRow, OrderStays, Types DEF upload

\* Steps from one stage to the next, with the files as they are.
LEMMA StageKeeps ==
  ASSUME IInv, NEW r \in Requests, req[r].pc \in {"uploading", "written", "answered"},
         NEW pc \in {"written", "answered", "cleaning"}, NEW answer \in {"none", "ok"},
         req' = [req EXCEPT ![r].pc = pc, ![r].answer = answer],
         answer = "ok" <=> pc = "answered",
         UNCHANGED <<queue, disk, database, wrong, filed>>, order' \subseteq Requests \X Requests,
         sent \subseteq sent', sent' \subseteq sent \cup {r}, sent' \subseteq Submissions,
         r \in sent' => pc = "answered",
         locked' \subseteq Attachments
  PROVE  IInv'
  <1> DEFINE s == [req[r] EXCEPT !.pc = pc, !.answer = answer]
  <1>1. /\ TypeOK /\ Fits(r) /\ req[r] \in States /\ wrong[r] \in Troubles
        /\ req' = [req EXCEPT ![r] = s] /\ wrong' = [wrong EXCEPT ![r] = wrong[r]]
    BY Facts
  <1>2. s \in States
    BY <1>1 DEF States, Connected
  <1>3. s.pc = pc /\ s.stored = req[r].stored /\ s.answer = answer
    BY <1>1 DEF States
  <1>4. queue' \in Seq(Requests) /\ QueueIsRight'
    BY Leaving DEF Connected
  <1> HIDE DEF s
  <1>5. req'[r] = s /\ wrong'[r] = wrong[r]
    BY <1>1, Facts
  <1>6. Fits(r)'
    BY <1>1, <1>3, <1>5 DEF Fits, Begun, database
  <1>7. \A k \in disk' : k[1] = r => Explained(k)'
    BY <1>3, <1>5, HoldersExplain DEF Connected
  <1> QED
    BY <1>1, <1>2, <1>4, <1>6, <1>7, NoRow, Types

LEMMA StagesKeep ==
  ASSUME IInv, NEW r \in Requests, Write(r) \/ Refuse(r) \/ Respond(r) \/ Deliver(r)
  PROVE  IInv'
  <1>1. TypeOK /\ Fits(r) /\ req[r] \in States
    BY Facts
  <1>2. CASE Write(r)
    <2>1. req[r].pc = "uploading" /\ req[r].answer = "none" /\ r \notin sent
      BY <1>1, <1>2 DEF Write, Fits
    <2>2. locked' \subseteq Attachments
      BY <1>1, <1>2, Types DEF Write, WriteExpense, WriteReceipt
    <2>3. req' = [req EXCEPT ![r].pc = "written", ![r].answer = "none"]
      BY <1>1, <1>2, <2>1 DEF Write, Goto, States
    <2> QED
      BY <1>1, <1>2, <2>1, <2>2, <2>3, StageKeeps, OrderStays, Types DEF Write
  <1>3. CASE Refuse(r)
    <2>1. req[r].pc \in {"uploading", "written"} /\ req[r].answer = "none" /\ r \notin sent
      BY <1>1, <1>3 DEF Refuse, Fits
    <2>2. req' = [req EXCEPT ![r].pc = "cleaning", ![r].answer = "none"]
      BY <1>1, <1>3, <2>1 DEF Refuse, Goto, States
    <2> QED
      BY <1>1, <1>3, <2>1, <2>2, StageKeeps, OrderStays, Types DEF Refuse
  <1>4. CASE Respond(r)
    <2>1. req[r].pc = "written" /\ r \notin sent
      BY <1>1, <1>4 DEF Respond, Fits
    <2>2. order' \subseteq Requests \X Requests
      BY <1>1, <1>4, Types DEF Respond, Requests
    <2> QED
      BY <1>1, <1>4, <2>1, <2>2, StageKeeps, Types DEF Respond, Answer
  <1>5. CASE Deliver(r)
    <2>1. req[r].pc = "answered" /\ req[r].answer = "ok"
      BY <1>1, <1>5 DEF Deliver, Fits
    <2>2. req' = [req EXCEPT ![r].pc = "answered", ![r].answer = "ok"]
      BY <1>1, <1>5, <2>1, Facts DEF Deliver, States
    <2> QED
      BY <1>1, <1>5, <2>1, <2>2, StageKeeps, OrderStays, Types DEF Deliver
  <1> QED
    BY <1>2, <1>3, <1>4, <1>5

LEMMA deleteKeeps ==
  ASSUME IInv, NEW r \in Requests, delete(r)
  PROVE  IInv'
  <1>1. PICK k \in req[r].stored :
          /\ req' = [req EXCEPT ![r].stored = @ \ {k}]
          /\ \/ disk' = disk \ {k} /\ UNCHANGED wrong
             \/ MayGoWrong /\ UNCHANGED disk /\ GoesWrong(r, "undeleted")
    BY DEF delete
  <1> DEFINE s == [req[r] EXCEPT !.stored = @ \ {k}]
             w == IF disk' = disk \ {k} /\ UNCHANGED wrong THEN wrong[r] ELSE wrong[r] \cup {"undeleted"}
  <1>2. /\ TypeOK /\ Fits(r) /\ req[r] \in States /\ wrong[r] \in Troubles /\ req[r].pc = "cleaning"
        /\ req' = [req EXCEPT ![r] = s] /\ wrong' = [wrong EXCEPT ![r] = w] /\ w \in Troubles
    BY <1>1, Facts DEF delete, GoesWrong, Troubles
  <1>3. s \in States
    BY <1>2 DEF States
  <1>4. s.pc = "cleaning" /\ s.stored = req[r].stored \ {k} /\ s.answer = req[r].answer
    BY <1>2 DEF States
  <1> HIDE DEF s
  <1>5. queue' \in Seq(Requests) /\ QueueIsRight'
    BY <1>2, <1>3, QueueStays DEF delete
  <1>6. \/ disk' = disk \ {k} /\ w = wrong[r]
        \/ disk' = disk /\ w # {} /\ wrong[r] \subseteq w
    BY <1>1
  <1> HIDE DEF w
  <1>7. req'[r] = s /\ wrong'[r] = w /\ k[1] = r
    <2>1. req \in [Requests -> States] /\ wrong \in [Requests -> Troubles]
      BY <1>2, Types
    <2>2. k[1] = r
      BY <1>1, <1>2 DEF Fits
    <2> QED
      BY <1>2, <2>1, <2>2
  <1>8. IsFiniteSet(s.stored)
    BY <1>2, <1>4, FS_RemoveElement DEF Fits
  <1>9. Fits(r)'
    BY <1>2, <1>4, <1>6, <1>7, <1>8 DEF delete, Fits, Begun, database
  <1>10. \A l \in disk' : l[1] = r => Explained(l)'
    BY <1>4, <1>7, HoldersExplain DEF Connected
  <1>11. disk' \subseteq Keys /\ \A l \in Keys : l[1] # r => (l \in disk' <=> l \in disk)
    BY <1>2, <1>6, <1>7, Types
  <1> QED
    BY <1>2, <1>3, <1>5, <1>9, <1>10, <1>11, NoRow, OrderStays, Types DEF delete

\* A request that ends by an accident.
LEMMA AccidentsKeep ==
  ASSUME IInv, NEW r \in Requests, CommitFails(r) \/ Cut(r)
  PROVE  IInv'
  <1> DEFINE s == [req[r] EXCEPT !.pc = "over"]
             w == wrong[r] \cup (IF CommitFails(r) THEN {"commit"} ELSE {"cut"})
  <1>1. /\ TypeOK /\ Fits(r) /\ req[r] \in States /\ wrong[r] \in Troubles
        /\ req[r].pc \notin {"outside", "over"} /\ req' = [req EXCEPT ![r] = s]
        /\ UNCHANGED <<disk, database, sent, history>> /\ Rollback(r)
    BY Facts DEF CommitFails, Cut, Goto, Connected
  <1>2. wrong' = [wrong EXCEPT ![r] = w]
    <2>1. CASE CommitFails(r)
      BY <2>1 DEF CommitFails, GoesWrong
    <2>2. CASE Cut(r) /\ ~CommitFails(r)
      BY <2>2 DEF Cut, GoesWrong
    <2> QED
      BY <2>1, <2>2
  <1>3. s \in States
    BY <1>1 DEF States
  <1>4. s.pc = "over" /\ s.stored = req[r].stored /\ s.answer = req[r].answer
    BY <1>1 DEF States
  <1>5. w \in Troubles /\ w \cap {"commit", "cut"} # {}
    BY <1>1 DEF Troubles
  <1> HIDE DEF s, w
  <1>6. queue' \in Seq(Requests) /\ QueueIsRight'
    <2>1. CASE CommitFails(r)
      BY <1>1, <1>3, <2>1, QueueStays DEF CommitFails
    <2>2. CASE Cut(r)
      BY <1>1, <1>3, <2>2, QueueShrinks DEF Cut
    <2> QED
      BY <2>1, <2>2
  <1>7. req'[r] = s /\ wrong'[r] = w
    BY <1>1, <1>2, Facts
  <1>8. Fits(r)'
    BY <1>1, <1>4, <1>5, <1>7, OrderStays DEF Fits, Begun, database
  <1>9. \A k \in disk' : k[1] = r => Explained(k)'
    BY <1>5, <1>7 DEF Explained
  <1>10. locked' \subseteq Attachments /\ disk' \subseteq Keys
    BY <1>1, LockFreed, Types
  <1> QED
    BY <1>1, <1>2, <1>3, <1>5, <1>6, <1>8, <1>9, <1>10, NoRow, OrderStays, Types

LEMMA CommitKeeps ==
  ASSUME IInv, NEW r \in Requests, Commit(r)
  PROVE  IInv'
  <1> DEFINE s == [req[r] EXCEPT !.pc = "over"]
  <1>1. /\ TypeOK /\ Fits(r) /\ req[r] \in States /\ wrong[r] \in Troubles /\ req[r].pc = "answered"
        /\ req' = [req EXCEPT ![r] = s] /\ wrong' = [wrong EXCEPT ![r] = wrong[r]]
        /\ UNCHANGED <<queue, disk, sent>> /\ Rollback(r)
    BY Facts DEF Commit, Goto
  <1>2. s \in States
    BY <1>1 DEF States
  <1>3. s.pc = "over" /\ s.stored = req[r].stored /\ s.answer = req[r].answer
    BY <1>1 DEF States
  <1> HIDE DEF s
  <1>4. req'[r] = s /\ wrong'[r] = wrong[r]
    BY <1>1, Facts
  <1>5. /\ kept' = kept \cup {r} /\ filed' = filed \cup req[r].stored
        /\ media' \subseteq media \cup req[r].stored /\ receipt' \subseteq receipt \cup req[r].stored
    BY DEF Commit, insert_media, set_payment_receipt
  <1>6. /\ req[r].stored \subseteq disk /\ req[r].stored \subseteq Keys
        /\ \A k \in req[r].stored : k[1] = r
    BY <1>1 DEF Fits, Begun, States
  <1>7. Fits(r)'
    BY <1>1, <1>3, <1>4, <1>5 DEF Fits, Begun
  <1>8. \A k \in disk' : k[1] = r => Explained(k)'
    BY <1>1, <1>4, <1>5 DEF Fits, Explained
  <1>9. ASSUME NEW k \in Referred'
        PROVE  HasRow(k)'
    <2>1. k \in Referred \/ k \in req[r].stored
      BY <1>5, <1>9 DEF Referred
    <2> QED
      BY <1>1, <1>5, <1>6, <2>1 DEF IInv, HasRow
  <1>10. queue' \in Seq(Requests) /\ QueueIsRight'
    BY <1>1, <1>2, QueueStays
  <1>11. /\ disk' \subseteq Keys /\ media' \subseteq Keys /\ receipt' \subseteq Keys /\ filed' \subseteq Keys
         /\ locked' \subseteq Attachments /\ order' \subseteq Requests \X Requests
    BY <1>1, <1>5, <1>6, LockFreed, Types DEF Commit
  <1> QED
    BY <1>1, <1>2, <1>5, <1>7, <1>8, <1>9, <1>10, <1>11, OneRequest, Types

-----------------------------------------------------------------------------
LEMMA InitIInv ==
  Init => IInv
  <1> SUFFICES ASSUME Init
               PROVE  IInv
    OBVIOUS
  <1>1. TypeOK
    BY PoolIsOpen DEF Init, TypeOK
  <1>2. QueueIsRight
    BY DEF Init, QueueIsRight
  <1>3. \A r \in Requests : Fits(r)
    BY FS_EmptySet DEF Init, Fits, Begun
  <1>4. (\A k \in disk : Explained(k)) /\ (\A k \in Referred : HasRow(k))
    BY DEF Init, Referred
  <1> QED
    BY <1>1, <1>2, <1>3, <1>4 DEF IInv

LEMMA NextIInv ==
  IInv /\ [Next]_vars => IInv'
  <1> SUFFICES ASSUME IInv, [Next]_vars
               PROVE  IInv'
    OBVIOUS
  <1>1. CASE UNCHANGED vars
    BY <1>1 DEF vars, database, history, IInv, TypeOK, QueueIsRight, Fits, Begun, Explained, Holding, HasRow, Referred
  <1>2. ASSUME NEW r \in Requests, Arrive(r) \/ Checkout(r) \/ TimeOut(r)
        PROVE  IInv'
    BY <1>2, ArriveKeeps, CheckoutKeeps, TimeOutKeeps
  <1>3. ASSUME NEW r \in Requests,
               RefuseEarly(r) \/ verify_upload(r) \/ BrokenUpload(r) \/ Reraise(r) \/ upload(r) \/ delete(r)
        PROVE  IInv'
    BY <1>3, RefusalsKeep, uploadKeeps, deleteKeeps
  <1>4. ASSUME NEW r \in Requests,
               Write(r) \/ Refuse(r) \/ Respond(r) \/ Deliver(r) \/ Commit(r) \/ CommitFails(r) \/ Cut(r)
        PROVE  IInv'
    BY <1>4, StagesKeep, CommitKeeps, AccidentsKeep
  <1> QED
    BY <1>1, <1>2, <1>3, <1>4 DEF Next, Step

\* Whichever step fails or is the last one: the files, the rows, and what each request
\* has to do with them.
THEOREM Invariant == Spec => []IInv
  BY InitIInv, NextIInv, PTL DEF Spec

-----------------------------------------------------------------------------
(* The properties. *)

\* No committed row refers to a file that is not there (submit_expense,
\* attach_payment_receipt).
THEOREM RowsHaveFiles == Spec => []EveryRowHasItsFile
  <1>1. IInv => EveryRowHasItsFile
    BY DEF IInv, HasRow, EveryRowHasItsFile
  <1> QED
    BY <1>1, Invariant, PTL

\* A file without a row is under way, replaced, or left by an accident
\* ("would be orphans", submit_expense).
THEOREM OrphansHaveReasons == Spec => []OrphansAreExplained
  <1>1. IInv => OrphansAreExplained
    BY DEF IInv, Explained, OrphansAreExplained
  <1> QED
    BY <1>1, Invariant, PTL

-----------------------------------------------------------------------------
(* What EveryRequestEnds rests on, fairness apart: as long as a request is   *)
(* under way some request can take its next step, and every step brings one  *)
(* request nearer to its end and no other further from it.                   *)

UnderWay == {r \in Requests : req[r].pc \in Connected \cup {"waiting"}}

\* The request's next step waits for nobody: the guards of Step.
CanGo(r) ==
  \/ PoolHasRoom /\ queue # <<>> /\ r = Head(queue)
  \/ req[r].pc = "uploading" /\ (req[r].left > 0 \/ r \in Submissions \/ locked = {})
  \/ req[r].pc \in {"written", "answered", "cleaning"}

NobodyWaitsInACircle == UnderWay # {} => \E r \in Requests : CanGo(r)

\* How far a request is from its end.
Rank(r) ==
  CASE req[r].pc = "outside"   -> 2 * MaxFiles + 7
    [] req[r].pc = "waiting"   -> 2 * MaxFiles + 6
    [] req[r].pc = "uploading" -> req[r].left + MaxFiles + 5
    [] req[r].pc = "written"   -> MaxFiles + 4
    [] req[r].pc = "answered"  -> IF r \in sent THEN MaxFiles + 2 ELSE MaxFiles + 3
    [] req[r].pc = "cleaning"  -> Cardinality(req[r].stored) + 1
    [] req[r].pc = "over"      -> 0

Nearer(r) == Rank(r)' < Rank(r) /\ \A q \in Requests \ {r} : Rank(q)' = Rank(q)
EveryStepEndsSooner == [][\E r \in Requests : Nearer(r)]_vars

\* Who waits is in the queue; who holds the payout's row waits for nobody; a
\* request has as many files as it may.
Queued(r) == \E i \in DOMAIN queue : queue[i] = r
Lively ==
  /\ \A r \in Requests : req[r].pc = "waiting" => Queued(r)
  /\ \A r \in locked : req[r].pc \in {"written", "answered", "cleaning"}
  /\ \A r \in Requests : Cardinality(req[r].stored) <= MaxFiles

-----------------------------------------------------------------------------
\* What a step of request r does to r, and that it does nothing to the others.
Alone(r) ==
  /\ req'[r] \in States
  /\ \A q \in Requests \ {r} : req'[q] = req[q] /\ (q \in sent' <=> q \in sent)
  /\ sent \subseteq sent'

Arrives(r) == req[r].pc = "outside" /\ req'[r].pc = "waiting" /\ queue' = Append(queue, r)
Starts(r) ==
  /\ req[r].pc = "waiting" /\ req'[r].pc = "uploading"
  /\ queue # <<>> /\ r = Head(queue) /\ queue' = Tail(queue)
Ends(r) ==
  /\ req[r].pc \in Connected \cup {"waiting"} /\ req'[r].pc = "over"
  /\ req[r].pc = "waiting" => LeaveQueue(r)
  /\ req[r].pc # "waiting" => queue' = queue \/ LeaveQueue(r)
  /\ r \in locked' => req[r].pc = "waiting"
Uploads(r) ==
  /\ req[r].pc = "uploading" /\ req[r].left > 0 /\ req'[r].pc = "uploading"
  /\ req'[r].left = req[r].left - 1 /\ req'[r].stored = req[r].stored \cup {NextKey(r)}
Advances(r) ==
  /\ \/ req[r].pc = "uploading" /\ req'[r].pc = "written" /\ locked' \in {locked, {r}}
     \/ req[r].pc = "uploading" /\ req'[r].pc = "cleaning" /\ locked' = locked
     \/ req[r].pc = "written" /\ req'[r].pc \in {"cleaning", "answered"} /\ locked' = locked
     \/ /\ req[r].pc = "answered" /\ req'[r].pc = "answered" /\ r \notin sent /\ r \in sent'
        /\ locked' = locked
  /\ req'[r].stored = req[r].stored
Deletes(r) ==
  /\ req[r].pc = "cleaning" /\ req'[r].pc = "cleaning"
  /\ \E k \in req[r].stored : req'[r].stored = req[r].stored \ {k}

Turn(r) ==
  \/ Arrives(r) /\ req'[r].stored = req[r].stored /\ locked' = locked
  \/ Starts(r) /\ req'[r].stored = req[r].stored /\ req'[r].left = req[r].left /\ locked' = locked
  \/ Ends(r) /\ req'[r].stored = req[r].stored /\ locked' \subseteq locked
  \/ Uploads(r) /\ queue' = queue /\ locked' = locked
  \/ Advances(r) /\ queue' = queue
  \/ Deletes(r) /\ queue' = queue /\ locked' = locked

LEMMA Turns ==
  ASSUME IInv, TypeOK', NEW r \in Requests,
         \/ Arrive(r) \/ Step(r) \/ TimeOut(r) \/ RefuseEarly(r) \/ verify_upload(r)
         \/ BrokenUpload(r) \/ Refuse(r) \/ CommitFails(r) \/ Cut(r)
  PROVE  Alone(r) /\ Turn(r)
  <1>0. /\ req \in [Requests -> States] /\ req' \in [Requests -> States] /\ req[r] \in States
    BY Types DEF IInv, TypeOK, States
  <1>1. CASE Arrive(r)
    <2>1. PICK n : req' = [req EXCEPT ![r].pc = "waiting", ![r].left = n]
      BY <1>1 DEF Arrive
    <2>2. req'[r].pc = "waiting" /\ req'[r].stored = req[r].stored /\ \A q \in Requests \ {r} : req'[q] = req[q]
      BY <1>0, <2>1 DEF States
    <2> QED BY <1>0, <1>1, <2>2 DEF Arrive, Alone, Turn, Arrives
  <1>2. CASE Checkout(r)
    <2>1. req[r].pc = "waiting"
      <3>1. queue \in Seq(Requests) /\ queue # <<>> /\ queue[1] = r /\ 1 \in DOMAIN queue
        BY <1>2, Types DEF Checkout, IInv
      <3> QED BY <3>1 DEF IInv, QueueIsRight
    <2> QED BY <1>0, <1>2, <2>1 DEF Checkout, Goto, Alone, Turn, Starts, States
  <1>3. CASE upload(r)
    BY <1>0, <1>3 DEF upload, Alone, Turn, Uploads, States
  <1>4. CASE Write(r)
    BY <1>0, <1>4 DEF Write, WriteExpense, WriteReceipt, Goto, Alone, Turn, Advances, States
  <1>5. CASE Respond(r) \/ Refuse(r)
    BY <1>0, <1>5 DEF Respond, Refuse, Goto, Answer, Alone, Turn, Advances, States
  <1>6. CASE Deliver(r)
    BY <1>0, <1>6 DEF Deliver, Alone, Turn, Advances, States
  <1>7. CASE delete(r)
    BY <1>0, <1>7 DEF delete, Alone, Turn, Deletes, States
  <1>8. CASE Reraise(r) \/ RefuseEarly(r) \/ verify_upload(r) \/ BrokenUpload(r)
    <2>1. Answer(r, "over", "refused") /\ req[r].pc \in {"cleaning", "uploading"}
      BY <1>8 DEF Reraise, RefuseEarly, verify_upload, BrokenUpload
    <2>2. queue' = queue /\ locked' = locked \ {r} /\ sent' = sent
      BY <1>8 DEF Reraise, RefuseEarly, verify_upload, BrokenUpload, Rollback
    <2>3. req'[r].pc = "over" /\ req'[r].stored = req[r].stored /\ \A q \in Requests \ {r} : req'[q] = req[q]
      BY <1>0, <2>1 DEF Answer, States
    <2> QED BY <1>0, <2>1, <2>2, <2>3 DEF Alone, Turn, Ends, Connected
  <1>9. CASE Commit(r) \/ CommitFails(r)
    BY <1>0, <1>9 DEF Commit, CommitFails, Goto, Rollback, Alone, Turn, Ends, States, Connected
  <1>10. CASE Cut(r)
    BY <1>0, <1>10 DEF Cut, Goto, Rollback, Alone, Turn, Ends, States, Connected
  <1>11. CASE TimeOut(r)
    BY <1>0, <1>11 DEF TimeOut, Answer, Alone, Turn, Ends, States
  <1> QED
    BY <1>1, <1>2, <1>3, <1>4, <1>5, <1>6, <1>7, <1>8, <1>9, <1>10, <1>11 DEF Step

-----------------------------------------------------------------------------
\* The queue keeps those who wait.
LEMMA QueuedStay ==
  ASSUME IInv, NEW r \in Requests, NEW q \in Requests, Queued(q), q # r, Turn(r)
  PROVE  Queued(q)'
  <1>1. queue \in Seq(Requests)
    BY Types DEF IInv
  <1>2. PICK n \in Nat : n = Len(queue) /\ DOMAIN queue = 1 .. n
    BY <1>1
  <1>3. PICK i \in 1 .. n : queue[i] = q
    BY <1>2 DEF Queued
  <1>4. CASE queue' = queue
    BY <1>4 DEF Queued
  <1>5. CASE queue' = Append(queue, r)
    <2>1. i \in DOMAIN queue' /\ queue'[i] = q
      BY <1>1, <1>2, <1>3, <1>5
    <2> QED BY <2>1 DEF Queued
  <1>6. CASE queue # <<>> /\ r = Head(queue) /\ queue' = Tail(queue)
    <2>1. i # 1
      BY <1>1, <1>2, <1>3, <1>6
    <2>2. i - 1 \in DOMAIN queue' /\ queue'[i - 1] = q
      BY <1>1, <1>2, <1>3, <1>6, <2>1
    <2> QED BY <2>2 DEF Queued
  <1>7. ASSUME NEW k \in DOMAIN queue, queue[k] = r, queue' = RemoveAt(queue, k)
        PROVE  Queued(q)'
    <2>1. k \in 1 .. Len(queue) /\ k \in 1 .. n /\ i # k
      BY <1>2, <1>3, <1>7
    <2>2. /\ queue' \in Seq(Requests) /\ Len(queue') = n - 1
          /\ \A j \in 1 .. n - 1 : queue'[j] = IF j < k THEN queue[j] ELSE queue[j + 1]
      BY <1>1, <1>2, <1>7, <2>1, Without
    <2>3. DOMAIN queue' = 1 .. n - 1
      BY <1>2, <2>2
    <2>4. CASE i < k
      <3>1. i \in 1 .. n - 1
        BY <2>1, <2>4
      <3> QED BY <1>3, <2>2, <2>3, <2>4, <3>1 DEF Queued
    <2>5. CASE i > k
      <3>1. i - 1 \in 1 .. n - 1 /\ ~(i - 1 < k) /\ (i - 1) + 1 = i
        BY <2>1, <2>5
      <3>2. queue'[i - 1] = q
        BY <1>3, <2>2, <3>1
      <3> QED BY <2>3, <3>1, <3>2 DEF Queued
    <2> QED BY <1>2, <2>1, <2>4, <2>5
  <1> QED
    BY <1>4, <1>5, <1>6, <1>7 DEF Turn, Arrives, Starts, Ends, LeaveQueue

LEMMA ArrivedIsQueued ==
  ASSUME IInv, NEW r \in Requests, Arrives(r)
  PROVE  Queued(r)'
  <1>1. queue \in Seq(Requests)
    BY Types DEF IInv
  <1>2. Len(queue) + 1 \in DOMAIN queue' /\ queue'[Len(queue) + 1] = r
    BY <1>1 DEF Arrives
  <1> QED BY <1>2 DEF Queued

\* How many files a step leaves the request with.
LEMMA FilesOf ==
  ASSUME IInv, NEW r \in Requests, Cardinality(req[r].stored) <= MaxFiles, Turn(r)
  PROVE  /\ Cardinality(req'[r].stored) <= MaxFiles
         /\ Deletes(r) => Cardinality(req'[r].stored) < Cardinality(req[r].stored)
  <1>1. IsFiniteSet(req[r].stored) /\ Cardinality(req[r].stored) \in Nat
    BY FS_CardinalityType DEF IInv, Fits
  <1>2. CASE Uploads(r)
    <2>1. /\ IsFiniteSet(req[r].stored \cup {NextKey(r)})
          /\ req[r].left - 1 \in 0 .. MaxFiles
          /\ req[r].left - 1 + Cardinality(req[r].stored \cup {NextKey(r)}) <= MaxFiles
      BY <1>2, NewKey DEF Uploads
    <2>2. PICK c \in Nat, a \in Nat : c = Cardinality(req'[r].stored) /\ a = req[r].left - 1 /\ a + c <= MaxFiles
      BY <1>2, <2>1, FS_CardinalityType DEF Uploads
    <2>3. c <= MaxFiles
      BY <2>2, PoolIsOpen
    <2> QED BY <1>2, <2>2, <2>3 DEF Uploads, Deletes
  <1>3. CASE Deletes(r)
    <2>1. PICK k \in req[r].stored : req'[r].stored = req[r].stored \ {k}
      BY <1>3 DEF Deletes
    <2>2. Cardinality(req'[r].stored) = Cardinality(req[r].stored) - 1
      BY <1>1, <2>1, FS_RemoveElement
    <2> QED BY <1>1, <2>2, PoolIsOpen
  <1>4. CASE req'[r].stored = req[r].stored /\ ~Deletes(r)
    BY <1>4
  <1> QED BY <1>2, <1>3, <1>4 DEF Turn, Advances

LEMMA LivelyStep ==
  ASSUME IInv, Lively, NEW r \in Requests, Alone(r), Turn(r)
  PROVE  Lively'
  <1>1. ASSUME NEW q \in Requests, req'[q].pc = "waiting" PROVE Queued(q)'
    <2>1. CASE q = r
      BY <1>1, <2>1, ArrivedIsQueued DEF Turn, Starts, Ends, Uploads, Advances, Deletes
    <2>2. CASE q # r
      BY <1>1, <2>2, QueuedStay DEF Alone, Lively
    <2> QED BY <2>1, <2>2
  <1>2. locked \subseteq Requests
    BY Types DEF IInv, Requests
  <1>3. ASSUME NEW q \in locked' PROVE req'[q].pc \in {"written", "answered", "cleaning"}
    <2>1. q \in locked \/ q = r
      BY <1>3 DEF Turn, Advances
    <2>2. CASE q # r
      BY <1>2, <2>1, <2>2 DEF Alone, Lively
    <2>3. CASE q = r
      BY <1>2, <1>3, <2>3 DEF Lively, Turn, Arrives, Starts, Ends, Uploads, Advances, Deletes
    <2> QED BY <2>2, <2>3
  <1>4. ASSUME NEW q \in Requests PROVE Cardinality(req'[q].stored) <= MaxFiles
    BY FilesOf DEF Alone, Lively
  <1> QED BY <1>1, <1>3, <1>4 DEF Lively

\* Each step takes its request nearer to its end, and no other further.
LEMMA RankStep ==
  ASSUME IInv, Lively, NEW r \in Requests, Alone(r), Turn(r)
  PROVE  Nearer(r)
  <1>1. \A q \in Requests \ {r} : Rank(q)' = Rank(q)
    BY DEF Alone, Rank
  <1>2. PICK m \in Nat : m = MaxFiles
    BY PoolIsOpen
  <1>3. req[r].left \in 0 .. m /\ req'[r].left \in 0 .. m
    BY <1>2, Types DEF IInv, TypeOK, Alone, States
  <1>4. PICK c \in Nat : c = Cardinality(req[r].stored) /\ c <= m
    BY <1>2, FS_CardinalityType DEF IInv, Fits, Lively
  <1>5. /\ req[r].pc = "outside" => Rank(r) = 2 * m + 7
        /\ req[r].pc = "waiting" => Rank(r) = 2 * m + 6
        /\ req[r].pc = "uploading" => Rank(r) = req[r].left + m + 5
        /\ req[r].pc = "written" => Rank(r) = m + 4
        /\ req[r].pc = "answered" => Rank(r) \in {m + 2, m + 3} /\ (r \notin sent => Rank(r) = m + 3)
        /\ req[r].pc = "cleaning" => Rank(r) = c + 1
    BY <1>2, <1>4 DEF Rank
  <1>6. /\ req'[r].pc = "waiting" => Rank(r)' = 2 * m + 6
        /\ req'[r].pc = "uploading" => Rank(r)' = req'[r].left + m + 5
        /\ req'[r].pc = "written" => Rank(r)' = m + 4
        /\ req'[r].pc = "answered" => Rank(r)' \in {m + 2, m + 3} /\ (r \in sent' => Rank(r)' = m + 2)
        /\ req'[r].pc = "cleaning" => Rank(r)' = Cardinality(req'[r].stored) + 1
        /\ req'[r].pc = "over" => Rank(r)' = 0
    BY <1>2 DEF Rank
  <1>7. ASSUME Arrives(r) PROVE Rank(r)' < Rank(r)
    BY <1>5, <1>6, <1>7 DEF Arrives
  <1>8. ASSUME Starts(r), req'[r].left = req[r].left PROVE Rank(r)' < Rank(r)
    BY <1>3, <1>5, <1>6, <1>8 DEF Starts
  <1>9. ASSUME Ends(r) PROVE Rank(r)' < Rank(r)
    BY <1>3, <1>5, <1>6, <1>9 DEF Ends, Connected
  <1>10. ASSUME Uploads(r) PROVE Rank(r)' < Rank(r)
    BY <1>3, <1>5, <1>6, <1>10 DEF Uploads
  <1>11. ASSUME Advances(r) PROVE Rank(r)' < Rank(r)
    <2>1. req[r].pc # "answered" => req'[r].stored = req[r].stored /\ req[r].pc \in {"uploading", "written"}
      BY <1>11 DEF Advances
    <2>2. req'[r].pc = "cleaning" => Rank(r)' = c + 1
      BY <1>4, <1>6, <1>11 DEF Advances
    <2> QED BY <1>3, <1>4, <1>5, <1>6, <1>11, <2>2 DEF Advances
  <1>12. ASSUME Deletes(r) PROVE Rank(r)' < Rank(r)
    <2>1. IsFiniteSet(req[r].stored)
      BY DEF IInv, Fits
    <2>2. PICK k \in req[r].stored : req'[r].stored = req[r].stored \ {k}
      BY <1>12 DEF Deletes
    <2>3. Cardinality(req'[r].stored) = c - 1
      BY <1>4, <2>1, <2>2, FS_RemoveElement
    <2> QED BY <1>4, <1>5, <1>6, <1>12, <2>3 DEF Deletes
  <1> QED BY <1>1, <1>7, <1>8, <1>9, <1>10, <1>11, <1>12 DEF Turn, Nearer

\* The holder of the payout's row can go on, so those who wait for it do not
\* wait for ever, and a connection is free or held by one of them.
LEMMA SomebodyCanGo ==
  ASSUME IInv, Lively
  PROVE  NobodyWaitsInACircle
  <1> SUFFICES ASSUME NEW r \in UnderWay PROVE \E q \in Requests : CanGo(q)
    BY DEF NobodyWaitsInACircle
  <1>1. CASE Holding = {}
    <2>1. PoolHasRoom
      BY <1>1, PoolIsOpen, FS_EmptySet DEF PoolHasRoom
    <2>2. r \in Requests /\ Queued(r) /\ queue \in Seq(Requests)
      BY <1>1, Types DEF UnderWay, Holding, Lively, IInv
    <2>3. queue # <<>> /\ Head(queue) \in Requests
      BY <2>2 DEF Queued
    <2> QED BY <2>1, <2>3 DEF CanGo
  <1>2. ASSUME NEW h \in Holding PROVE \E q \in Requests : CanGo(q)
    <2>1. h \in Requests /\ req[h].pc \in Connected
      BY DEF Holding
    <2>2. CASE req[h].pc # "uploading" \/ locked = {}
      BY <2>1, <2>2 DEF CanGo, Connected
    <2>3. CASE locked # {}
      <3>1. PICK a \in locked : TRUE
        BY <2>3
      <3>2. a \in Requests
        BY <3>1, Types DEF IInv, Requests
      <3> QED BY <3>1, <3>2 DEF CanGo, Lively
    <2> QED BY <2>2, <2>3
  <1> QED BY <1>1, <1>2

LEMMA NextLively ==
  IInv /\ IInv' /\ Lively /\ [Next]_vars => Lively' /\ [\E r \in Requests : Nearer(r)]_vars
  <1> SUFFICES ASSUME IInv, IInv', Lively, [Next]_vars
               PROVE  Lively' /\ [\E r \in Requests : Nearer(r)]_vars
    OBVIOUS
  <1>1. CASE UNCHANGED vars
    BY <1>1 DEF vars, Lively, Queued
  <1>2. CASE Next
    <2>1. PICK r \in Requests :
            \/ Arrive(r) \/ Step(r) \/ TimeOut(r) \/ RefuseEarly(r) \/ verify_upload(r)
            \/ BrokenUpload(r) \/ Refuse(r) \/ CommitFails(r) \/ Cut(r)
      BY <1>2 DEF Next
    <2>2. Alone(r) /\ Turn(r)
      BY <2>1, Turns DEF IInv
    <2> QED BY <2>2, LivelyStep, RankStep
  <1> QED BY <1>1, <1>2

LEMMA InitLively == Init => Lively
  <1> SUFFICES ASSUME Init PROVE Lively
    OBVIOUS
  <1>1. \A r \in Requests : req[r].pc = "outside" /\ req[r].stored = {}
    BY DEF Init
  <1>2. locked = {} /\ Cardinality({}) = 0 /\ 0 <= MaxFiles
    BY FS_EmptySet, PoolIsOpen DEF Init
  <1> QED BY <1>1, <1>2 DEF Lively

\* The pool's queue and the payout's row are never waited for in a circle:
\* while a request is under way, one of them waits for nobody (get_connection,
\* get_for_update).
THEOREM NoCircle == Spec => []NobodyWaitsInACircle
  <1>1. Spec => [](IInv /\ Lively)
    BY InitIInv, NextIInv, InitLively, NextLively, PTL DEF Spec
  <1>2. IInv /\ Lively => NobodyWaitsInACircle
    BY SomebodyCanGo
  <1> QED
    BY <1>1, <1>2, PTL

\* No handler goes back: whatever happens to a request, refusals, faults and
\* deliveries included, leaves it fewer steps (submit_expense,
\* attach_payment_receipt).
THEOREM StepsLeadToTheEnd == Spec => EveryStepEndsSooner
  <1>1. Spec => [](IInv /\ Lively)
    BY InitIInv, NextIInv, InitLively, NextLively, PTL DEF Spec
  <1> QED
    BY <1>1, NextLively, PTL DEF Spec, EveryStepEndsSooner

-----------------------------------------------------------------------------
(* The answers.  Of the attachments only the one that holds the payout's row *)
(* is written or answered; so nothing is answered, and nothing committed,    *)
(* between an attachment's answer and its commit.                            *)

Stands(q) == receipt = req[q].stored /\ \A r \in kept \cap Attachments : r = q \/ <<r, q>> \in order

Settled ==
  /\ \A r \in kept : req[r].answer = "ok"
  /\ \A k \in filed : k[1] \in kept
  /\ \A r \in Requests : req[r].answer \in {"refused", "busy"} => req[r].pc = "over"
  /\ \A a \in Attachments : req[a].pc \in {"written", "answered"} => locked = {a}
  /\ \A a \in Attachments, q \in kept \cap Attachments : req[a].pc = "answered" => <<q, a>> \in order
  /\ kept \cap Attachments # {} => \E q \in kept \cap Attachments : Stands(q)

LEMMA InitSettled == Init => Settled
  <1> SUFFICES ASSUME Init PROVE Settled
    OBVIOUS
  <1>1. \A r \in Requests : req[r].pc = "outside" /\ req[r].answer = "none"
    BY DEF Init
  <1>2. Attachments \subseteq Requests /\ kept = {} /\ filed = {}
    BY DEF Init, Requests
  <1> QED BY <1>1, <1>2 DEF Settled

\* What a step does to the row's lock.
LockPassesOn(r) ==
  /\ \A a \in Attachments \ {r} : locked = {a} => locked' = {a}
  /\ r \in Attachments /\ req'[r].pc \in {"written", "answered"} => locked' = {r}

\* Steps that neither answer with success nor commit.
LEMMA QuietStep ==
  ASSUME IInv, Settled, NEW r \in Requests, r \notin kept,
         \A q \in Requests \ {r} : req'[q] = req[q],
         UNCHANGED <<database, history>>, LockPassesOn(r),
         req'[r].pc = "answered" => req[r].pc = "answered",
         req'[r].answer \in {"refused", "busy"} => req'[r].pc = "over"
  PROVE  Settled'
  <1>1. UNCHANGED <<kept, media, receipt, filed, order>>
    BY DEF database, history
  <1>2. Attachments \subseteq Requests /\ kept \subseteq Requests
    BY Types DEF IInv, Requests
  <1>3. \A q \in kept : req'[q] = req[q]
    BY <1>2
  <1>4. \A a \in Attachments : req'[a].pc \in {"written", "answered"} => locked' = {a}
    <2> SUFFICES ASSUME NEW a \in Attachments, req'[a].pc \in {"written", "answered"}
                 PROVE  locked' = {a}
      OBVIOUS
    <2>1. CASE a = r
      BY <2>1 DEF LockPassesOn
    <2>2. CASE a # r
      BY <1>2, <2>2 DEF LockPassesOn, Settled
    <2> QED BY <2>1, <2>2
  <1>5. \A a \in Attachments, q \in kept \cap Attachments : req'[a].pc = "answered" => <<q, a>> \in order
    <2> SUFFICES ASSUME NEW a \in Attachments, NEW q \in kept \cap Attachments, req'[a].pc = "answered"
                 PROVE  <<q, a>> \in order
      OBVIOUS
    <2>1. req[a].pc = "answered"
      BY <1>2
    <2> QED BY <2>1 DEF Settled
  <1>6. kept \cap Attachments # {} => \E q \in kept \cap Attachments : Stands(q)'
    BY <1>1, <1>3 DEF Settled, Stands
  <1>7. \A q \in Requests : req'[q].answer \in {"refused", "busy"} => req'[q].pc = "over"
    BY DEF Settled
  <1> QED
    BY <1>1, <1>3, <1>4, <1>5, <1>6, <1>7 DEF Settled

LEMMA RespondSettles ==
  ASSUME IInv, Settled, NEW r \in Requests, Respond(r)
  PROVE  Settled'
  <1>1. /\ req[r].pc = "written" /\ UNCHANGED <<kept, media, receipt, filed, locked>>
        /\ order' = order \cup {<<q, r>> : q \in Accepted \cap Attachments}
    BY DEF Respond, database
  <1>2. /\ Attachments \subseteq Requests /\ kept \subseteq Requests
        /\ req'[r].pc = "answered" /\ req'[r].answer = "ok"
        /\ \A q \in Requests \ {r} : req'[q] = req[q]
    BY Facts, Types DEF IInv, Requests, Respond, Answer, States
  <1>3. r \notin kept
    BY <1>1 DEF IInv, Fits
  <1>4. \A q \in kept \cap Attachments : q \in Accepted \cap Attachments
    BY <1>2 DEF Settled, Accepted
  <1>5. \A a \in Attachments : req'[a].pc \in {"written", "answered"} => locked = {a}
    BY <1>1, <1>2 DEF Settled
  <1>6. \A a \in Attachments, q \in kept \cap Attachments : req'[a].pc = "answered" => <<q, a>> \in order'
    <2> SUFFICES ASSUME NEW a \in Attachments, NEW q \in kept \cap Attachments, req'[a].pc = "answered"
                 PROVE  <<q, a>> \in order'
      OBVIOUS
    <2>1. CASE a = r
      BY <1>1, <1>4, <2>1
    <2>2. CASE a # r
      BY <1>1, <1>2, <2>2 DEF Settled
    <2> QED BY <2>1, <2>2
  <1>7. kept \cap Attachments # {} => \E q \in kept \cap Attachments : Stands(q)'
    <2> SUFFICES ASSUME kept \cap Attachments # {} PROVE \E q \in kept \cap Attachments : Stands(q)'
      OBVIOUS
    <2>1. PICK q \in kept \cap Attachments : Stands(q)
      BY DEF Settled
    <2>2. req'[q] = req[q]
      BY <1>2, <1>3
    <2> QED BY <1>1, <2>1, <2>2 DEF Stands
  <1>8. \A q \in kept : req'[q].answer = "ok"
    BY <1>2, <1>3 DEF Settled
  <1>9. \A q \in Requests : req'[q].answer \in {"refused", "busy"} => req'[q].pc = "over"
    BY <1>2 DEF Settled
  <1> QED BY <1>1, <1>5, <1>6, <1>7, <1>8, <1>9 DEF Settled

LEMMA CommitSettles ==
  ASSUME IInv, Settled, NEW r \in Requests, Commit(r)
  PROVE  Settled'
  <1>1. /\ req[r].pc = "answered" /\ kept' = kept \cup {r} /\ filed' = filed \cup req[r].stored
        /\ order' = order /\ locked' = locked \ {r}
    BY DEF Commit, Rollback
  <1>2. /\ Attachments \subseteq Requests /\ kept \subseteq Requests
        /\ req'[r].pc = "over" /\ req'[r].answer = "ok" /\ req'[r].stored = req[r].stored
        /\ \A q \in Requests \ {r} : req'[q] = req[q]
    BY <1>1, Facts, Types DEF IInv, Requests, Commit, Goto, States, Fits
  <1>3. r \notin kept /\ \A k \in req[r].stored : k[1] = r
    BY <1>1 DEF IInv, Fits
  <1>4. \A a \in Attachments : req'[a].pc \in {"written", "answered"} => a # r /\ locked' = {a}
    <2> SUFFICES ASSUME NEW a \in Attachments, req'[a].pc \in {"written", "answered"}
                 PROVE  a # r /\ locked' = {a}
      OBVIOUS
    <2>1. a # r
      BY <1>2
    <2>2. locked = {a}
      BY <1>2, <2>1 DEF Settled
    <2> QED BY <1>1, <2>1, <2>2
  <1>5. ASSUME r \in Submissions PROVE receipt' = receipt /\ kept' \cap Attachments = kept \cap Attachments
    BY <1>1, <1>5, OneKind DEF Commit, insert_media, set_payment_receipt
  <1>6. ASSUME r \in Attachments PROVE receipt' = req[r].stored
    BY <1>6, OneKind DEF Commit, insert_media, set_payment_receipt
  <1>7. ASSUME NEW a \in Attachments, NEW q \in kept' \cap Attachments, req'[a].pc = "answered"
        PROVE  <<q, a>> \in order'
    <2>1. a # r /\ req[a].pc = "answered" /\ locked = {a}
      BY <1>2, <1>7 DEF Settled
    <2>2. q # r
      BY <1>1, <1>7, <2>1 DEF Settled
    <2> QED BY <1>1, <1>7, <2>1, <2>2 DEF Settled
  <1>8. ASSUME kept' \cap Attachments # {} PROVE \E q \in kept' \cap Attachments : Stands(q)'
    <2>1. CASE r \in Attachments
      <3>1. \A q \in kept' \cap Attachments : q = r \/ <<q, r>> \in order'
        BY <1>1, <2>1 DEF Settled
      <3>2. Stands(r)'
        BY <1>2, <1>6, <2>1, <3>1 DEF Stands
      <3> QED BY <1>1, <2>1, <3>2
    <2>2. CASE r \in Submissions
      <3>1. PICK q \in kept \cap Attachments : Stands(q)
        BY <1>5, <1>8, <2>2 DEF Settled
      <3>2. req'[q] = req[q]
        BY <1>2, <1>3
      <3>3. Stands(q)'
        BY <1>1, <1>5, <2>2, <3>1, <3>2 DEF Stands
      <3> QED BY <1>1, <3>1, <3>3
    <2> QED BY <2>1, <2>2 DEF Requests
  <1>9. /\ \A q \in kept' : req'[q].answer = "ok"
        /\ \A k \in filed' : k[1] \in kept'
        /\ \A q \in Requests : req'[q].answer \in {"refused", "busy"} => req'[q].pc = "over"
    BY <1>1, <1>2, <1>3 DEF Settled
  <1> QED BY <1>4, <1>7, <1>8, <1>9 DEF Settled

LEMMA OthersSettle ==
  ASSUME IInv, Settled, NEW r \in Requests,
         \/ Arrive(r) \/ Checkout(r) \/ upload(r) \/ Write(r) \/ Deliver(r) \/ delete(r) \/ Reraise(r)
         \/ TimeOut(r) \/ RefuseEarly(r) \/ verify_upload(r) \/ BrokenUpload(r)
         \/ Refuse(r) \/ CommitFails(r) \/ Cut(r)
  PROVE  Settled'
  <1>1. /\ TypeOK /\ Fits(r) /\ req[r] \in States /\ req \in [Requests -> States]
    BY Facts
  <1>2. UNCHANGED <<database, history>> /\ req[r].pc # "over"
    <2>1. CASE Checkout(r)
      <3>1. queue \in Seq(Requests) /\ queue # <<>> /\ queue[1] = r /\ 1 \in DOMAIN queue
        BY <2>1, Types DEF Checkout, IInv
      <3>2. req[r].pc = "waiting"
        BY <3>1 DEF IInv, QueueIsRight
      <3> QED BY <2>1, <3>2 DEF Checkout, database, history
    <2>2. CASE ~Checkout(r)
      BY <2>2 DEF Arrive, upload, Write, Deliver, delete, Reraise, TimeOut, RefuseEarly,
                  verify_upload, BrokenUpload, Refuse, CommitFails, Cut, Connected, database, history
    <2> QED BY <2>1, <2>2
  <1>3. r \notin kept
    BY <1>1, <1>2 DEF Fits
  <1>4. CASE Arrive(r) \/ Checkout(r) \/ upload(r) \/ delete(r) \/ Deliver(r)
    <2>1. /\ \A q \in Requests \ {r} : req'[q] = req[q]
          /\ req'[r].answer = req[r].answer /\ locked' = locked
      BY <1>1, <1>4 DEF Arrive, Checkout, upload, delete, Deliver, Goto, States
    <2>2. req'[r].pc \in {"waiting", "uploading", "cleaning"} \/ (req'[r].pc = req[r].pc)
      BY <1>1, <1>4 DEF Arrive, Checkout, upload, delete, Deliver, Goto, States
    <2>3. LockPassesOn(r)
      BY <2>1, <2>2 DEF LockPassesOn, Settled
    <2>4. req[r].answer \notin {"refused", "busy"}
      BY <1>2 DEF Settled
    <2> QED BY <1>2, <1>3, <2>1, <2>2, <2>3, <2>4, QuietStep
  <1>5. CASE Write(r) \/ Refuse(r)
    <2>1. /\ \A q \in Requests \ {r} : req'[q] = req[q]
          /\ req'[r].answer = req[r].answer /\ req'[r].pc \in {"written", "cleaning"}
      BY <1>1, <1>5 DEF Write, Refuse, Goto, States
    <2>2. LockPassesOn(r)
      <3>1. CASE Write(r) /\ r \in Attachments
        <4>1. locked = {} /\ locked' = {r}
          BY <3>1, OneKind DEF Write, WriteExpense, WriteReceipt
        <4> QED BY <4>1 DEF LockPassesOn
      <3>2. CASE Write(r) /\ r \notin Attachments
        <4>1. locked' = locked
          BY <3>2 DEF Write, WriteExpense, WriteReceipt
        <4> QED BY <3>2, <4>1 DEF LockPassesOn
      <3>3. CASE Refuse(r)
        <4>1. locked' = locked /\ req'[r].pc = "cleaning"
          BY <1>1, <3>3 DEF Refuse, Goto, States
        <4> QED BY <4>1 DEF LockPassesOn
      <3> QED BY <1>5, <3>1, <3>2, <3>3
    <2>3. req[r].answer \notin {"refused", "busy"}
      BY <1>2 DEF Settled
    <2> QED BY <1>2, <1>3, <2>1, <2>2, <2>3, QuietStep
  <1>6. CASE Reraise(r) \/ TimeOut(r) \/ RefuseEarly(r) \/ verify_upload(r) \/ BrokenUpload(r) \/ CommitFails(r) \/ Cut(r)
    <2>0. (\E answer : Answer(r, "over", answer)) \/ Goto(r, "over")
      BY <1>6 DEF Reraise, TimeOut, RefuseEarly, verify_upload, BrokenUpload, CommitFails, Cut
    <2>1. \A q \in Requests \ {r} : req'[q] = req[q]
      BY <1>1, <2>0 DEF Answer, Goto
    <2>2. req'[r].pc = "over"
      BY <1>1, <2>0 DEF Answer, Goto, States
    <2>3. locked' \in {locked, locked \ {r}}
      BY <1>6 DEF Reraise, TimeOut, RefuseEarly, verify_upload, BrokenUpload, CommitFails, Cut, Rollback
    <2>4. LockPassesOn(r)
      BY <2>2, <2>3 DEF LockPassesOn
    <2> QED BY <1>2, <1>3, <2>1, <2>2, <2>4, QuietStep
  <1> QED BY <1>4, <1>5, <1>6

LEMMA NextSettled ==
  IInv /\ Settled /\ [Next]_vars => Settled'
  <1> SUFFICES ASSUME IInv, Settled, [Next]_vars PROVE Settled'
    OBVIOUS
  <1>1. CASE UNCHANGED vars
    BY <1>1 DEF vars, database, history, Settled, Stands
  <1>2. CASE Next
    BY <1>2, RespondSettles, CommitSettles, OthersSettle DEF Next, Step
  <1> QED BY <1>1, <1>2

\* A refused request left nothing but perhaps a file, an accepted one is kept
\* unless an accident came after its answer, and of a payout's accepted
\* receipts the one answered last stands (get_connection,
\* attach_payment_receipt).
THEOREM AnswersHold == Spec => []AnswersAreTrue
  <1>1. Spec => [](IInv /\ Lively /\ Settled)
    BY InitIInv, NextIInv, InitLively, NextLively, InitSettled, NextSettled, PTL DEF Spec
  <1>2. ASSUME IInv, Lively, Settled PROVE AnswersAreTrue
    <2>1. ASSUME NEW r \in Requests, req[r].answer \in {"refused", "busy"}
          PROVE  r \notin kept \cup sent \cup locked /\ \A k \in filed \cup Referred : k[1] # r
      <3>1. r \notin kept /\ req[r].pc = "over" /\ r \notin sent
        BY <1>2, <2>1 DEF Settled, IInv, Fits
      <3>2. r \notin locked
        BY <1>2, <3>1 DEF Lively
      <3>3. \A k \in filed \cup Referred : k[1] \in kept
        BY <1>2 DEF Settled, IInv, HasRow
      <3> QED BY <3>1, <3>2, <3>3
    <2>2. AcceptedIsKept
      BY <1>2 DEF IInv, Fits, AcceptedIsKept
    <2>3. LastReceiptStands
      <3> SUFFICES ASSUME NEW r \in kept \cap Attachments
                   PROVE  \E q \in Requests : receipt = req[q].stored /\ (q = r \/ <<r, q>> \in order)
        BY DEF LastReceiptStands
      <3>1. PICK q \in kept \cap Attachments : Stands(q)
        BY <1>2 DEF Settled
      <3> QED BY <3>1 DEF Stands, Requests
    <2> QED BY <2>1, <2>2, <2>3 DEF AnswersAreTrue, RefusedLeavesNothing
  <1> QED
    BY <1>1, <1>2, PTL

=============================================================================
