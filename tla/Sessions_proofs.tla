--------------------------- MODULE Sessions_proofs ---------------------------
(***************************************************************************)
(* Proofs about AuthTokens, and about MobileSession above it, for any      *)
(* number of accounts, devices, requests and token rows.                   *)
(*                                                                         *)
(* The server's argument: rows are only ever appended, and a row never     *)
(* loses its owner, its family, its successor or its revocation (Extends). *)
(* So what a request has read about them - which row replaced which, that  *)
(* a family has moved on twice or has lost a token - is still so when it   *)
(* acts on it, however many other requests have committed in between.      *)
(*                                                                         *)
(* The app's argument: a device misses one answer at most before one comes *)
(* through, so beside the refresh it waits for there is at most one other, *)
(* sent with the token it holds or with the one before (Late).  Whichever  *)
(* of the two rotates first, the chain goes no more than one step beyond   *)
(* the token in the store, and no refresh of the family ever sees a token  *)
(* replaced twice, which is what would end the family (Going).             *)
(***************************************************************************)
EXTENDS MobileSession, FiniteSetTheorems, TLAPS

\* What a write does to the table: at most one row more, at the end, that
\* opens a family or joins the one of a row whose owner it shares.
Extends ==
  /\ tokens' \in Seq(TokenRows)
  /\ Len(tokens') \in {Len(tokens), NewId}
  /\ \A t \in DOMAIN tokens :
       /\ tokens'[t].owner = tokens[t].owner
       /\ tokens'[t].family = tokens[t].family
       /\ tokens[t].revoked => tokens'[t].revoked
       /\ \/ tokens'[t].next = tokens[t].next
          \/ /\ tokens'[t].next = NewId
             /\ NewId \in DOMAIN tokens'
             /\ tokens'[NewId].family = tokens[t].family
  /\ NewId \in DOMAIN tokens' =>
       /\ tokens'[NewId].next = 0
       /\ \/ tokens'[NewId].family = NewId
          \/ \E t \in DOMAIN tokens : /\ tokens'[NewId].family = tokens[t].family
                                      /\ tokens'[NewId].owner = tokens[t].owner

\* A refresh has found its way along the chain of its token; whoever presents
\* a token that he is about to end owns it; a revocation is within its scope.
Reading(r) == job[r].pc \in {"fresh", "retry", "rotating"}
OnItsOwnChain(r) ==
  /\ Reading(r) =>
       /\ job[r].op = "refresh"
       /\ FamilyOf(job[r].target) = FamilyOf(job[r].token)
  /\ job[r].pc = "retry" => /\ job[r].token < job[r].target
                             /\ tokens[job[r].token].next # 0
  /\ job[r].op = "refresh" => tokens[job[r].token].owner = job[r].account
  /\ job[r].op = "logout" /\ job[r].pc # "asked" => tokens[job[r].token].owner = job[r].account
  /\ job[r].pc = "revoking" => \A t \in job[r].ended : InScope(r, t)

\* The token was replaced, and a younger row of its family is not live either.
HasMovedOn(t) ==
  /\ tokens[t].next # 0
  /\ \E s \in Family(FamilyOf(t)) : s > t /\ ~Live(s)

Replaying(r) == job[r].pc \in {"ending", "revoking"} /\ job[r].op = "refresh"

Sound(r) ==
  /\ Busy(r) => OnItsOwnChain(r)
  /\ Replaying(r) => HasMovedOn(job[r].token)

\* The inductive invariant.
Inv == ChainsStayInTheFamily /\ \A r \in Requests : Sound(r)

-----------------------------------------------------------------------------
(* How the actions write. *)

LEMMA NothingWritten ==
  ASSUME TypeOK, tokens' = tokens
  PROVE  Extends
  BY DEF Extends, TypeOK, NewId

LEMMA RowTyped ==
  ASSUME TypeOK, NEW t \in DOMAIN tokens
  PROVE  /\ tokens[t] \in TokenRows
         /\ tokens[t].owner \in Accounts /\ FamilyOf(t) \in Nat
         /\ tokens[t].next \in Nat /\ tokens[t].revoked \in BOOLEAN
  <1>1. tokens \in Seq(TokenRows)
    BY DEF TypeOK
  <1>2. tokens[t] \in TokenRows
    BY <1>1
  <1> QED
    BY <1>2 DEF TokenRows, FamilyOf

\* One row more, after changes that keep the number of rows.
LEMMA Appended ==
  ASSUME NEW base \in Seq(TokenRows), Len(base) = Len(tokens), tokens \in Seq(TokenRows),
         NEW row \in TokenRows, tokens' = Append(base, row)
  PROVE  /\ tokens' \in Seq(TokenRows)
         /\ Len(tokens') = NewId
         /\ NewId \in DOMAIN tokens' /\ tokens'[NewId] = row
         /\ \A t \in DOMAIN tokens : tokens'[t] = base[t]
  BY DEF NewId

LEMMA NewRow ==
  ASSUME TypeOK, NEW u \in Accounts, NEW f \in Nat
  PROVE  Row(u, f) \in TokenRows /\ NewId \in Nat
  BY DEF Row, TokenRows, TypeOK, NewId

LEMMA JobFields ==
  ASSUME TypeOK, NEW r \in Requests, Busy(r)
  PROVE  job[r] \in Jobs /\ job[r].account \in Accounts /\ job[r].ended \subseteq DOMAIN tokens
  BY DEF TypeOK, Busy, Idle, Jobs

LEMMA RevokedRows ==
  ASSUME TypeOK, NEW ended
  PROVE  /\ WithRevoked(ended) \in Seq(TokenRows)
         /\ Len(WithRevoked(ended)) = Len(tokens)
         /\ \A t \in DOMAIN tokens :
              /\ WithRevoked(ended)[t].owner = tokens[t].owner
              /\ WithRevoked(ended)[t].family = tokens[t].family
              /\ WithRevoked(ended)[t].next = tokens[t].next
              /\ WithRevoked(ended)[t].revoked <=> tokens[t].revoked \/ t \in ended
  <1> DEFINE new(t) == [tokens[t] EXCEPT !.revoked = @ \/ t \in ended]
  <1>1. ASSUME NEW t \in DOMAIN tokens
        PROVE  /\ new(t) \in TokenRows
               /\ new(t).owner = tokens[t].owner
               /\ new(t).family = tokens[t].family
               /\ new(t).next = tokens[t].next
               /\ new(t).revoked <=> tokens[t].revoked \/ t \in ended
    <2>1. (tokens[t].revoked \/ t \in ended) \in BOOLEAN
      OBVIOUS
    <2>2. tokens[t] \in TokenRows
      BY RowTyped
    <2> QED
      BY <2>1, <2>2 DEF TokenRows
  <1>2. tokens \in Seq(TokenRows) /\ DOMAIN tokens = 1 .. Len(tokens) /\ Len(tokens) \in Nat
    BY DEF TypeOK
  <1>3. WithRevoked(ended) = [t \in 1 .. Len(tokens) |-> new(t)]
    BY <1>2 DEF WithRevoked
  <1> HIDE DEF new
  <1>4. WithRevoked(ended) \in [1 .. Len(tokens) -> TokenRows]
    BY <1>1, <1>2, <1>3
  <1>5. WithRevoked(ended) \in Seq(TokenRows) /\ Len(WithRevoked(ended)) = Len(tokens)
    BY <1>2, <1>4
  <1>6. \A t \in DOMAIN tokens : WithRevoked(ended)[t] = new(t)
    BY <1>2, <1>3
  <1> QED
    BY <1>1, <1>5, <1>6

LEMMA RotateExtends ==
  ASSUME TypeOK, NEW r \in Requests, Rotate(r)
  PROVE  /\ Extends
         /\ Len(tokens') = NewId
         /\ tokens'[NewId].family = FamilyOf(job[r].target) /\ ~tokens'[NewId].revoked
         /\ \A t \in DOMAIN tokens :
              /\ tokens'[t].revoked = tokens[t].revoked
              /\ tokens'[t].next = IF t = job[r].target THEN NewId ELSE tokens[t].next
  <1> DEFINE t == job[r].target
             base == [tokens EXCEPT ![t].next = NewId]
             row == Row(tokens[t].owner, FamilyOf(t))
  <1>1. t \in DOMAIN tokens
    BY DEF TypeOK, Rotate, At, Busy
  <1>2. tokens[t] \in TokenRows /\ tokens[t].owner \in Accounts /\ FamilyOf(t) \in Nat
    BY <1>1, RowTyped
  <1>3. row \in TokenRows /\ NewId \in Nat
    BY <1>2, NewRow
  <1>4. base \in Seq(TokenRows) /\ Len(base) = Len(tokens)
    <2>1. [tokens[t] EXCEPT !.next = NewId] \in TokenRows
      BY <1>2, <1>3 DEF TokenRows
    <2>2. tokens \in Seq(TokenRows)
      BY DEF TypeOK
    <2> QED
      BY <1>1, <2>1, <2>2
  <1>5. tokens' = Append(base, row) /\ tokens \in Seq(TokenRows)
    BY DEF Rotate, TypeOK
  <1>6. /\ tokens' \in Seq(TokenRows)
        /\ Len(tokens') = NewId
        /\ NewId \in DOMAIN tokens' /\ tokens'[NewId] = row
        /\ \A s \in DOMAIN tokens : tokens'[s] = base[s]
    <2> HIDE DEF base, row
    <2> QED
      BY <1>3, <1>4, <1>5, Appended
  <1>7. \A s \in DOMAIN tokens :
          /\ tokens'[s].owner = tokens[s].owner
          /\ tokens'[s].family = tokens[s].family
          /\ tokens'[s].revoked = tokens[s].revoked
          /\ tokens'[s].next = IF s = t THEN NewId ELSE tokens[s].next
    <2>1. \A s \in DOMAIN tokens : tokens'[s] = IF s = t THEN [tokens[t] EXCEPT !.next = NewId] ELSE tokens[s]
      BY <1>1, <1>6 DEF TypeOK
    <2> QED
      BY <1>2, <2>1, RowTyped DEF TokenRows
  <1>8. /\ row.next = 0 /\ row.family = tokens[t].family /\ row.owner = tokens[t].owner
        /\ ~row.revoked
    BY DEF Row, FamilyOf
  <1> HIDE DEF base, row
  <1> QED
    BY <1>1, <1>6, <1>7, <1>8 DEF Extends, FamilyOf

LEMMA IssueExtends ==
  ASSUME TypeOK, NEW r \in Requests, Issue(r)
  PROVE  /\ Extends
         /\ Len(tokens') = NewId /\ tokens'[NewId].family = NewId
         /\ \A t \in DOMAIN tokens : tokens'[t] = tokens[t]
  <1>1. job[r].account \in Accounts
    BY JobFields DEF Issue, At, Busy
  <1>2. Row(job[r].account, NewId) \in TokenRows
    BY <1>1, NewRow DEF NewId, TypeOK
  <1>3. /\ tokens' \in Seq(TokenRows)
        /\ Len(tokens') = NewId
        /\ NewId \in DOMAIN tokens' /\ tokens'[NewId] = Row(job[r].account, NewId)
        /\ \A t \in DOMAIN tokens : tokens'[t] = tokens[t]
    BY <1>2, Appended DEF Issue, TypeOK
  <1> QED
    BY <1>3 DEF Extends, Row

LEMMA RevokeExtends ==
  ASSUME TypeOK, NEW r \in Requests, Revoke(r)
  PROVE  /\ Extends
         /\ Len(tokens') = Len(tokens)
         /\ \A t \in DOMAIN tokens : tokens'[t].revoked <=> tokens[t].revoked \/ t \in job[r].ended
  <1>1. tokens' = WithRevoked(job[r].ended)
    BY DEF Revoke
  <1>2. NewId \notin DOMAIN tokens'
    BY <1>1, RevokedRows DEF NewId, TypeOK
  <1> QED
    BY <1>1, <1>2, RevokedRows DEF Extends

LEMMA SwitchExtends ==
  ASSUME TypeOK, NEW r \in Requests, Switch(r)
  PROVE  /\ Extends
         /\ Len(tokens') = NewId /\ tokens'[NewId].family = NewId
         /\ \A t \in DOMAIN tokens : tokens'[t].revoked <=> tokens[t].revoked \/ t \in job[r].ended
  <1> DEFINE base == WithRevoked(job[r].ended)
             row == Row(job[r].account, NewId)
  <1>1. job[r].account \in Accounts
    BY JobFields DEF Switch, At, Busy
  <1>2. row \in TokenRows
    BY <1>1, NewRow DEF NewId, TypeOK
  <1>3. base \in Seq(TokenRows) /\ Len(base) = Len(tokens)
    BY RevokedRows
  <1>4. tokens' = Append(base, row) /\ tokens \in Seq(TokenRows)
    BY DEF Switch, TypeOK
  <1>5. /\ tokens' \in Seq(TokenRows)
        /\ Len(tokens') = NewId
        /\ NewId \in DOMAIN tokens' /\ tokens'[NewId] = row
        /\ \A t \in DOMAIN tokens : tokens'[t] = base[t]
    <2> HIDE DEF base, row
    <2> QED
      BY <1>2, <1>3, <1>4, Appended
  <1>6. row.next = 0 /\ row.family = NewId
    BY DEF Row
  <1> QED
    BY <1>5, <1>6, RevokedRows DEF Extends

-----------------------------------------------------------------------------
(* What a write leaves as it was. *)

\* Rows stay where they are and families only grow.
LEMMA RowsStay ==
  ASSUME TypeOK, Extends
  PROVE  /\ DOMAIN tokens \subseteq DOMAIN tokens'
         /\ \A t \in DOMAIN tokens : FamilyOf(t)' = FamilyOf(t)
         /\ \A f : Family(f) \subseteq Family(f)'
  BY DEF TypeOK, Extends, FamilyOf, Family, NewId

LEMMA ChainsKept ==
  ASSUME ChainsStayInTheFamily, Extends, TypeOK'
  PROVE  ChainsStayInTheFamily'
  <1>1. TypeOK /\ \A t \in DOMAIN tokens : ChainOf(t)
    BY DEF ChainsStayInTheFamily
  <1>2. PICK n : n = NewId
    OBVIOUS
  <1>3. /\ DOMAIN tokens \subseteq DOMAIN tokens'
        /\ \A t \in DOMAIN tokens' : t \in DOMAIN tokens \/ t = n
        /\ \A t \in DOMAIN tokens : t \in Nat /\ t < n /\ n # 0
    BY <1>1, <1>2 DEF TypeOK, Extends, NewId
  <1>4. /\ n \in DOMAIN tokens' =>
             /\ tokens'[n].next = 0
             /\ \/ tokens'[n].family = n
                \/ \E t \in DOMAIN tokens : /\ tokens'[n].family = tokens[t].family
                                            /\ tokens'[n].owner = tokens[t].owner
        /\ \A t \in DOMAIN tokens :
             /\ tokens'[t].owner = tokens[t].owner
             /\ tokens'[t].family = tokens[t].family
             /\ \/ tokens'[t].next = tokens[t].next
                \/ /\ tokens'[t].next = n
                   /\ n \in DOMAIN tokens'
                   /\ tokens'[n].family = tokens[t].family
    BY <1>2 DEF Extends
  <1>5. ASSUME NEW t \in DOMAIN tokens
        PROVE  ChainOf(t)'
    BY <1>1, <1>3, <1>4, <1>5 DEF ChainOf, FamilyOf
  <1>6. ASSUME n \in DOMAIN tokens'
        PROVE  ChainOf(n)'
    <2>1. CASE tokens'[n].family = n
      BY <1>4, <1>6, <2>1 DEF ChainOf, FamilyOf
    <2>2. ASSUME NEW t \in DOMAIN tokens,
                 tokens'[n].family = tokens[t].family, tokens'[n].owner = tokens[t].owner
          PROVE  ChainOf(n)'
      BY <1>1, <1>3, <1>4, <1>6, <2>2 DEF ChainOf, FamilyOf
    <2> QED
      BY <1>4, <1>6, <2>1, <2>2
  <1> QED
    BY <1>3, <1>5, <1>6 DEF ChainsStayInTheFamily

LEMMA MovedOnKept ==
  ASSUME TypeOK, Extends, NEW t \in DOMAIN tokens, HasMovedOn(t)
  PROVE  HasMovedOn(t)'
  <1>1. NewId # 0 /\ DOMAIN tokens \subseteq DOMAIN tokens'
    BY RowsStay DEF TypeOK, NewId
  <1>2. tokens'[t].next # 0 /\ FamilyOf(t)' = FamilyOf(t)
    BY <1>1 DEF HasMovedOn, Extends, FamilyOf
  <1>3. PICK s \in Family(FamilyOf(t)) : s > t /\ ~Live(s)
    BY DEF HasMovedOn
  <1>4. s \in DOMAIN tokens /\ s \in Family(FamilyOf(t))'
    BY <1>1, <1>2, <1>3 DEF Family, FamilyOf, Extends
  <1>5. ~Live(s)'
    BY <1>1, <1>3, <1>4 DEF Live, Extends
  <1> QED
    BY <1>2, <1>3, <1>4, <1>5 DEF HasMovedOn

\* A request that takes no step knows what it knew.
LEMMA OthersSound ==
  ASSUME Inv, Extends, NEW q \in Requests, job'[q] = job[q] \/ job'[q] = Idle
  PROVE  Sound(q)'
  <1>1. CASE job'[q] = Idle
    BY <1>1 DEF Sound, Busy, Replaying, Idle
  <1>2. CASE job'[q] = job[q] /\ ~Busy(q)
    BY <1>2 DEF Sound, Busy, Replaying
  <1>3. CASE job'[q] = job[q] /\ Busy(q)
    <2>1. /\ TypeOK
          /\ job[q].op \in {"refresh", "logout"} => job[q].token \in DOMAIN tokens
          /\ Reading(q) => job[q].target \in DOMAIN tokens
          /\ job[q].ended \subseteq DOMAIN tokens
      BY <1>3 DEF Inv, ChainsStayInTheFamily, TypeOK, Reading
    <2>2. OnItsOwnChain(q)
      BY <1>3 DEF Inv, Sound
    <2>3. OnItsOwnChain(q)'
      BY <1>3, <2>1, <2>2, RowsStay DEF OnItsOwnChain, Reading, InScope, Extends
    <2>4. PICK f : f = job[q].token
      OBVIOUS
    <2>5. Replaying(q)' => Replaying(q) /\ HasMovedOn(f) /\ job[q].token \in DOMAIN tokens
      BY <1>3, <2>1, <2>4 DEF Inv, Sound, Replaying
    <2>6. Replaying(q)' => HasMovedOn(f)' /\ job'[q].token = f
      BY <1>3, <2>1, <2>4, <2>5, MovedOnKept
    <2>7. Replaying(q)' => HasMovedOn(job[q].token)'
      BY <1>3, <2>6 DEF HasMovedOn, Family, FamilyOf, Live
    <2> QED
      BY <1>3, <2>3, <2>7 DEF Sound, Busy, Replaying
  <1> QED
    BY <1>1, <1>2, <1>3

-----------------------------------------------------------------------------
(* Every step is a step of one request, or changes an account's status. *)

PointsAtRows(j) ==
  j.pc # "idle" =>
    /\ j.op \in {"refresh", "logout"} => j.token \in DOMAIN tokens
    /\ j.pc \in {"fresh", "retry", "rotating"} => j.target \in DOMAIN tokens
    /\ j.ended \subseteq DOMAIN tokens

LEMMA JobStep ==
  ASSUME Inv, Extends, active' \subseteq Accounts,
         NEW r \in Requests, NEW new \in Jobs \cup {Idle}, job' = [job EXCEPT ![r] = new],
         PointsAtRows(new), Sound(r)'
  PROVE  Inv'
  <1>1. TypeOK
    BY DEF Inv, ChainsStayInTheFamily
  <1>2. /\ job' \in [Requests -> Jobs \cup {Idle}]
        /\ \A q \in Requests : q # r => job'[q] = job[q]
        /\ job'[r] = new
    BY <1>1 DEF TypeOK
  <1>3. \A q \in Requests : job'[q].pc # "idle" => PointsAtRows(job'[q])
    BY <1>1, <1>2 DEF TypeOK, PointsAtRows, Busy
  <1>4. DOMAIN tokens \subseteq DOMAIN tokens'
    BY <1>1, RowsStay
  <1>5. TypeOK'
    BY <1>2, <1>3, <1>4 DEF TypeOK, Extends, PointsAtRows, Busy
  <1>6. ChainsStayInTheFamily'
    BY <1>5, ChainsKept DEF Inv
  <1>7. \A q \in Requests : q # r => Sound(q)'
    BY <1>2, OthersSound
  <1> QED
    BY <1>6, <1>7 DEF Inv

\* A request that ends has nothing left to be sound about.
LEMMA EndStep ==
  ASSUME Inv, Extends, active' \subseteq Accounts, NEW r \in Requests, Finish(r)
  PROVE  Inv'
  <1>1. job'[r] = Idle
    BY DEF Inv, ChainsStayInTheFamily, TypeOK, Finish
  <1>2. Sound(r)'
    BY <1>1 DEF Sound, Busy, Replaying, Idle
  <1>3. PointsAtRows(Idle)
    BY DEF PointsAtRows, Idle
  <1> QED
    BY <1>2, <1>3, JobStep DEF Finish

-----------------------------------------------------------------------------
(* The steps, one lemma for what callers ask and one for what is served. *)

\* A request that starts, whatever it asks.
Asked(r, pc, op, account, token) ==
  /\ Start(r, pc, op, account, token)
  /\ UNCHANGED <<active, tokens>>
  /\ account \in Accounts
  /\ token \in DOMAIN tokens \cup {0}
  /\ op \in {"refresh", "logout"} => token \in DOMAIN tokens
  /\ \/ pc = "issuing" /\ op = "login"
     \/ pc = "asked" /\ op = "refresh" /\ account = tokens[token].owner
     \/ pc = "asked" /\ op = "logout"
     \/ pc = "ending" /\ op \in {"change_password", "switch"}

LEMMA AskKeeps ==
  ASSUME Inv, NEW r \in Requests, Ask(r)
  PROVE  Inv'
  <1>1. TypeOK
    BY DEF Inv, ChainsStayInTheFamily
  <1>2. \E pc, op, account, token : Asked(r, pc, op, account, token)
    <2>1. ASSUME NEW t \in DOMAIN tokens, AskRefresh(r, t)
          PROVE  Asked(r, "asked", "refresh", tokens[t].owner, t)
      BY <1>1, <2>1, RowTyped DEF AskRefresh, Asked
    <2>2. ASSUME NEW u \in Accounts, AskLogin(r, u)
          PROVE  Asked(r, "issuing", "login", u, 0)
      BY <2>2 DEF AskLogin, Asked
    <2>3. ASSUME NEW u \in Accounts, AskChangePassword(r, u)
          PROVE  Asked(r, "ending", "change_password", u, 0)
      BY <2>3 DEF AskChangePassword, Asked
    <2>4. ASSUME NEW u \in Accounts, AskSwitch(r, u)
          PROVE  Asked(r, "ending", "switch", u, 0)
      BY <2>4 DEF AskSwitch, Asked
    <2>5. ASSUME NEW u \in Accounts, NEW t \in DOMAIN tokens, AskLogout(r, u, t)
          PROVE  Asked(r, "asked", "logout", u, t)
      BY <2>5 DEF AskLogout, Asked
    <2> QED
      BY <2>1, <2>2, <2>3, <2>4, <2>5 DEF Ask
  <1>3. PICK pc, op, account, token : Asked(r, pc, op, account, token)
    BY <1>2
  <1> DEFINE new == [pc |-> pc, op |-> op, account |-> account, token |-> token,
                     target |-> 0, ended |-> {}]
  <1>4. job' = [job EXCEPT ![r] = new] /\ tokens' = tokens /\ active' = active
    BY <1>3 DEF Asked, Start
  <1>5. token \in Nat
    BY <1>1, <1>3 DEF Asked, TypeOK
  <1>6. new \in Jobs
    BY <1>3, <1>5 DEF Asked, Jobs
  <1>7. PointsAtRows(new)
    BY <1>3 DEF PointsAtRows, Asked
  <1>8. job'[r] = new
    BY <1>1, <1>4 DEF TypeOK
  <1>9. Sound(r)'
    BY <1>3, <1>4, <1>8 DEF Asked, Sound, OnItsOwnChain, Reading, Replaying
  <1>10. active' \subseteq Accounts
    BY <1>1, <1>4 DEF TypeOK
  <1> HIDE DEF new
  <1> QED
    BY <1>1, <1>4, <1>6, <1>7, <1>9, <1>10, NothingWritten, JobStep

\* A request goes on and writes nothing.
LEMMA GotoStep ==
  ASSUME Inv, NEW r \in Requests, Busy(r), UNCHANGED <<active, tokens>>,
         NEW pc \in {"fresh", "retry", "rotating", "ending", "revoking"},
         NEW target \in Nat, NEW ended \in SUBSET DOMAIN tokens,
         Goto(r, pc, target, ended),
         job[r].op = "logout" => tokens[job[r].token].owner = job[r].account,
         pc \in {"fresh", "retry", "rotating"} =>
           /\ target \in DOMAIN tokens
           /\ job[r].op = "refresh"
           /\ FamilyOf(target) = FamilyOf(job[r].token),
         pc = "retry" => job[r].token < target /\ tokens[job[r].token].next # 0,
         pc = "revoking" => \A t \in ended : InScope(r, t),
         pc \in {"ending", "revoking"} /\ job[r].op = "refresh" =>
           HasMovedOn(job[r].token)
  PROVE  Inv'
  <1>1. TypeOK
    BY DEF Inv, ChainsStayInTheFamily
  <1> DEFINE new == [pc |-> pc, op |-> job[r].op, account |-> job[r].account,
                     token |-> job[r].token, target |-> target, ended |-> ended]
  <1>2. job[r] \in Jobs
    BY <1>1, JobFields
  <1>3. job' = [job EXCEPT ![r] = new] /\ tokens' = tokens /\ active' = active
    BY <1>1 DEF Goto, TypeOK
  <1>4. ended \subseteq Nat
    BY <1>1 DEF TypeOK
  <1>5. new \in Jobs
    BY <1>2, <1>4 DEF Jobs
  <1>6. job[r].op \in {"refresh", "logout"} => job[r].token \in DOMAIN tokens
    BY <1>1 DEF TypeOK
  <1>7. PointsAtRows(new)
    BY <1>6 DEF PointsAtRows
  <1>8. job'[r] = new
    BY <1>1, <1>3 DEF TypeOK
  <1>9. OnItsOwnChain(r)
    BY DEF Inv, Sound
  <1>10. OnItsOwnChain(r)'
    BY <1>3, <1>8, <1>9 DEF OnItsOwnChain, Reading, InScope, FamilyOf
  <1>11. Replaying(r)' => HasMovedOn(job[r].token)'
    BY <1>3, <1>8 DEF Replaying, HasMovedOn, Family, FamilyOf, Live
  <1>12. Sound(r)'
    BY <1>10, <1>11 DEF Sound
  <1>13. active' \subseteq Accounts
    BY <1>1, <1>3 DEF TypeOK
  <1> HIDE DEF new
  <1> QED
    BY <1>1, <1>3, <1>5, <1>7, <1>12, <1>13, NothingWritten, JobStep

LEMMA ServeKeeps ==
  ASSUME Inv, NEW r \in Requests, Serve(r)
  PROVE  Inv'
  <1>1. TypeOK /\ \A t \in DOMAIN tokens : ChainOf(t)
    BY DEF Inv, ChainsStayInTheFamily
  <1>2. Busy(r)
    BY DEF Serve, Busy, At, ReadToken, CheckAccount, CheckReplacement, Rotate, Issue,
           FindOwnToken, StartRevoking, Revoke, Switch
  <1>3. /\ job[r] \in Jobs
        /\ job[r].op \in {"refresh", "logout"} => job[r].token \in DOMAIN tokens
        /\ Reading(r) => job[r].target \in DOMAIN tokens
    BY <1>1, <1>2, JobFields DEF TypeOK, Reading
  <1>4. OnItsOwnChain(r) /\ (Replaying(r) => HasMovedOn(job[r].token))
    BY <1>2 DEF Inv, Sound
  <1>5. active \subseteq Accounts /\ DOMAIN tokens \subseteq Nat /\ {} \subseteq DOMAIN tokens
    BY <1>1 DEF TypeOK
  <1>6. CASE ReadToken(r)
    <2>1. CASE tokens[job[r].token].revoked
      BY <1>1, <1>5, <1>6, <2>1, NothingWritten, EndStep DEF ReadToken
    <2>2. CASE ~tokens[job[r].token].revoked /\ tokens[job[r].token].next # 0
      <3>1. Goto(r, "retry", tokens[job[r].token].next, {}) /\ job[r].op = "refresh"
        BY <1>6, <2>2 DEF ReadToken, At
      <3>2. /\ tokens[job[r].token].next \in DOMAIN tokens
            /\ tokens[job[r].token].next > job[r].token
            /\ FamilyOf(tokens[job[r].token].next) = FamilyOf(job[r].token)
        BY <1>1, <1>3, <2>2, <3>1 DEF ChainOf
      <3>3. tokens[job[r].token].next \in Nat
        BY <1>5, <3>2
      <3>4. job[r].token < tokens[job[r].token].next
        BY <1>3, <1>5, <3>1, <3>2, <3>3
      <3>5. UNCHANGED <<active, tokens>>
        BY <1>6 DEF ReadToken
      <3> QED
        BY <1>2, <1>5, <2>2, <3>1, <3>2, <3>3, <3>4, <3>5, GotoStep
    <2>3. CASE ~tokens[job[r].token].revoked /\ tokens[job[r].token].next = 0
      <3>1. Goto(r, "fresh", job[r].token, {}) /\ job[r].op = "refresh"
        BY <1>6, <2>3 DEF ReadToken, At
      <3> QED
        BY <1>2, <1>3, <1>5, <1>6, <3>1, GotoStep DEF ReadToken
    <2> QED
      BY <2>1, <2>2, <2>3
  <1>7. CASE CheckAccount(r)
    <2>1. CASE job[r].account \in active
      <3>1. Goto(r, "rotating", job[r].target, {})
        BY <1>7, <2>1 DEF CheckAccount
      <3>2. /\ job[r].op = "refresh" /\ job[r].target \in DOMAIN tokens
            /\ FamilyOf(job[r].target) = FamilyOf(job[r].token)
        BY <1>3, <1>4, <1>7 DEF CheckAccount, At, OnItsOwnChain, Reading
      <3> QED
        BY <1>2, <1>5, <1>7, <3>1, <3>2, GotoStep DEF CheckAccount
    <2>2. CASE job[r].account \notin active
      BY <1>1, <1>5, <1>7, <2>2, NothingWritten, EndStep DEF CheckAccount
    <2> QED
      BY <2>1, <2>2
  <1>8. CASE CheckReplacement(r)
    <2>1. /\ job[r].op = "refresh" /\ job[r].target \in DOMAIN tokens
          /\ job[r].token \in DOMAIN tokens
          /\ job[r].token < job[r].target
          /\ FamilyOf(job[r].target) = FamilyOf(job[r].token)
      BY <1>3, <1>4, <1>8 DEF CheckReplacement, At, OnItsOwnChain, Reading
    <2>2. CASE Live(job[r].target)
      <3>1. Goto(r, "rotating", job[r].target, {})
        BY <1>8, <2>2 DEF CheckReplacement
      <3> QED
        BY <1>2, <1>5, <1>8, <2>1, <3>1, GotoStep DEF CheckReplacement
    <2>3. CASE ~Live(job[r].target)
      <3>1. Goto(r, "ending", 0, {})
        BY <1>8, <2>3 DEF CheckReplacement
      <3>2. HasMovedOn(job[r].token)
        <4> DEFINE s == job[r].token
                   t == job[r].target
        <4>1. t \in Family(FamilyOf(s)) /\ s < t /\ s \in Nat /\ t \in Nat
          BY <1>5, <2>1 DEF Family
        <4>2. tokens[s].next # 0
          BY <1>4, <1>8 DEF CheckReplacement, At, OnItsOwnChain
        <4> QED
          BY <2>3, <4>1, <4>2 DEF HasMovedOn
      <3> QED
        BY <1>2, <1>5, <1>8, <2>1, <3>1, <3>2, GotoStep DEF CheckReplacement
    <2> QED
      BY <2>2, <2>3
  <1>9. CASE Rotate(r)
    BY <1>1, <1>5, <1>9, RotateExtends, EndStep DEF Rotate
  <1>10. CASE Issue(r)
    BY <1>1, <1>5, <1>10, IssueExtends, EndStep DEF Issue
  <1>11. CASE FindOwnToken(r)
    <2>1. CASE tokens[job[r].token].owner = job[r].account
      <3>1. Goto(r, "ending", 0, {}) /\ job[r].op = "logout"
        BY <1>11, <2>1 DEF FindOwnToken, At
      <3> QED
        BY <1>2, <1>5, <1>11, <2>1, <3>1, GotoStep DEF FindOwnToken
    <2>2. CASE tokens[job[r].token].owner # job[r].account
      BY <1>1, <1>5, <1>11, <2>2, NothingWritten, EndStep DEF FindOwnToken
    <2> QED
      BY <2>1, <2>2
  <1>12. CASE StartRevoking(r)
    <2> DEFINE ended == {t \in DOMAIN tokens : InScope(r, t) /\ ~tokens[t].revoked}
    <2>1. Goto(r, "revoking", 0, ended) /\ UNCHANGED <<active, tokens>>
      BY <1>12 DEF StartRevoking
    <2>2. ended \in SUBSET DOMAIN tokens /\ \A t \in ended : InScope(r, t)
      OBVIOUS
    <2>3. /\ job[r].op = "logout" => tokens[job[r].token].owner = job[r].account
          /\ job[r].op = "refresh" => HasMovedOn(job[r].token)
      BY <1>4, <1>12 DEF StartRevoking, At, OnItsOwnChain, Replaying
    <2> HIDE DEF ended
    <2> QED
      BY <1>2, <2>1, <2>2, <2>3, GotoStep
  <1>13. CASE Revoke(r)
    BY <1>1, <1>5, <1>13, RevokeExtends, EndStep DEF Revoke
  <1>14. CASE Switch(r)
    BY <1>1, <1>5, <1>14, SwitchExtends, EndStep DEF Switch
  <1> QED
    BY <1>6, <1>7, <1>8, <1>9, <1>10, <1>11, <1>12, <1>13, <1>14 DEF Serve

LEMMA InitInv ==
  ASSUME Init
  PROVE  Inv
  <1>1. TypeOK
    BY DEF Init, TypeOK, Busy, Idle
  <1>2. \A r \in Requests : Sound(r)
    BY DEF Init, Sound, Busy, Replaying, Idle
  <1> QED
    BY <1>1, <1>2 DEF Init, Inv, ChainsStayInTheFamily

\* The table grows, or an administrator changes a status: no request moves.
LEMMA NoJobKeeps ==
  ASSUME Inv, Extends, active' \subseteq Accounts, job' = job
  PROVE  Inv'
  <1>1. TypeOK
    BY DEF Inv, ChainsStayInTheFamily
  <1>2. DOMAIN tokens \subseteq DOMAIN tokens'
    BY <1>1, RowsStay
  <1>3. TypeOK'
    BY <1>1, <1>2 DEF TypeOK, Extends, Busy
  <1>4. ChainsStayInTheFamily'
    BY <1>3, ChainsKept DEF Inv
  <1>5. \A r \in Requests : Sound(r)'
    BY OthersSound
  <1> QED
    BY <1>4, <1>5 DEF Inv

LEMMA NextInv ==
  ASSUME Inv, [Next]_vars
  PROVE  Inv'
  <1>1. TypeOK /\ active \subseteq Accounts
    BY DEF Inv, ChainsStayInTheFamily, TypeOK
  <1>2. ASSUME NEW r \in Requests, Ask(r)
        PROVE  Inv'
    BY <1>2, AskKeeps
  <1>3. ASSUME NEW r \in Requests, Serve(r)
        PROVE  Inv'
    BY <1>3, ServeKeeps
  <1>4. ASSUME NEW r \in Requests, Crash(r)
        PROVE  Inv'
    BY <1>1, <1>4, NothingWritten, EndStep DEF Crash
  <1>5. ASSUME NEW u \in Accounts, SetStatus(u)
        PROVE  Inv'
    BY <1>1, <1>5, NothingWritten, NoJobKeeps DEF SetStatus
  <1>6. CASE UNCHANGED vars
    BY <1>1, <1>6, NothingWritten, NoJobKeeps DEF vars
  <1> QED
    BY <1>2, <1>3, <1>4, <1>5, <1>6 DEF Next

\* Whatever requests run at once and whichever of them die: the chains, the
\* requests' knowledge of them, and their types (auth/service.py).
THEOREM Invariant == Spec => []Inv
  BY InitInv, NextInv, PTL DEF Spec

-----------------------------------------------------------------------------
(* The properties. *)

\* Rows and requests are typed, and a chain of rotations never leaves its
\* family or its account and only moves on to younger rows (_rotate).
THEOREM ChainsCorrect == Spec => []ChainsStayInTheFamily
  <1>1. Inv => ChainsStayInTheFamily
    BY DEF Inv
  <1> QED
    BY <1>1, Invariant, PTL

\* A refresh ends a session only when its token was replaced and a younger
\* token of the family was replaced or revoked too (_rotate_or_detect_reuse).
THEOREM ReplayCorrect == Spec => []ReplayIsReal
  <1>1. Inv => ReplayIsReal
    BY DEF Inv, Sound, Replaying, HasMovedOn, ReplayIsReal
  <1> QED
    BY <1>1, Invariant, PTL

-----------------------------------------------------------------------------
(* What a step may do to the tokens of an account. *)

\* A token is revoked by a request at its last step, within its scope.
LEMMA RevokedByScope ==
  ASSUME Inv, [Next]_vars, NEW t \in DOMAIN tokens, tokens'[t].revoked, ~tokens[t].revoked
  PROVE  \E r \in Requests : job[r].pc = "revoking" /\ t \in job[r].ended
  <1>1. TypeOK
    BY DEF Inv, ChainsStayInTheFamily
  <1>2. tokens' # tokens
    OBVIOUS
  <1>3. PICK r \in Requests : Rotate(r) \/ Issue(r) \/ Revoke(r) \/ Switch(r)
    BY <1>2 DEF Next, vars, Ask, AskLogin, AskRefresh, AskLogout, AskChangePassword, AskSwitch,
                Serve, ReadToken, CheckAccount, CheckReplacement, FindOwnToken, StartRevoking,
                SetStatus, Crash
  <1>4. ~Rotate(r) /\ ~Issue(r)
    BY <1>1, RotateExtends, IssueExtends
  <1>5. CASE Revoke(r)
    BY <1>1, <1>5, RevokeExtends DEF Revoke, At
  <1>6. CASE Switch(r)
    BY <1>1, <1>6, SwitchExtends DEF Switch, At
  <1> QED
    BY <1>3, <1>4, <1>5, <1>6

\* Nobody ends a token of another account, and who has only a token never
\* more than its family (revoke_token_family, revoke_all_user_tokens).
THEOREM SessionsApart == Spec => NobodyEndsAnothersSession
  <1>1. ASSUME Inv, [Next]_vars
        PROVE  [\A t \in DOMAIN tokens : tokens'[t].revoked /\ ~tokens[t].revoked =>
                  \E r \in Requests :
                    /\ job[r].pc = "revoking"
                    /\ job[r].account = tokens[t].owner
                    /\ job[r].op = "refresh" => FamilyOf(job[r].token) = FamilyOf(t)]_vars
    <2>1. TypeOK /\ \A t \in DOMAIN tokens : ChainOf(t)
      BY <1>1 DEF Inv, ChainsStayInTheFamily
    <2>2. ASSUME NEW t \in DOMAIN tokens, tokens'[t].revoked, ~tokens[t].revoked
          PROVE  \E r \in Requests :
                    /\ job[r].pc = "revoking"
                    /\ job[r].account = tokens[t].owner
                    /\ job[r].op = "refresh" => FamilyOf(job[r].token) = FamilyOf(t)
      <3>1. PICK r \in Requests : job[r].pc = "revoking" /\ t \in job[r].ended
        BY <1>1, <2>2, RevokedByScope
      <3>2. OnItsOwnChain(r) /\ InScope(r, t)
        BY <1>1, <3>1 DEF Inv, Sound, Busy, OnItsOwnChain
      <3>3. job[r].op \in {"refresh", "logout"} => job[r].token \in DOMAIN tokens
        BY <2>1, <3>1 DEF TypeOK, Busy
      <3>4. CASE job[r].op \in {"refresh", "logout"}
        <4>1. tokens[job[r].token].owner = job[r].account /\ FamilyOf(t) = FamilyOf(job[r].token)
          BY <3>1, <3>2, <3>4 DEF OnItsOwnChain, InScope
        <4>2. tokens[t].owner = tokens[job[r].token].owner
          BY <2>1, <3>3, <3>4, <4>1 DEF ChainOf
        <4> QED
          BY <3>1, <4>1, <4>2
      <3>5. CASE job[r].op \notin {"refresh", "logout"}
        BY <3>1, <3>2, <3>5 DEF InScope
      <3> QED
        BY <3>4, <3>5
    <2> QED
      BY <2>2
  <1> QED
    BY <1>1, Invariant, PTL DEF Spec, NobodyEndsAnothersSession

\* A refresh sets out to rotate a row it just saw unrevoked, or goes on
\* with the one it had.
LEMMA ReaderSawItLive ==
  ASSUME Inv, [Next]_vars, NEW q \in Requests, job'[q].pc \in {"fresh", "rotating"}
  PROVE  /\ job'[q].target \in DOMAIN tokens
         /\ \/ job[q].pc \in {"fresh", "rotating"} /\ job'[q].target = job[q].target
            \/ ~tokens[job'[q].target].revoked
  <1>1. TypeOK
    BY DEF Inv, ChainsStayInTheFamily
  <1>2. Busy(q) =>
          /\ job[q].op \in {"refresh", "logout"} => job[q].token \in DOMAIN tokens
          /\ job[q].pc \in {"fresh", "retry", "rotating"} => job[q].target \in DOMAIN tokens
    BY <1>1 DEF TypeOK
  <1>3. CASE job'[q] = job[q]
    BY <1>2, <1>3 DEF Busy
  <1>4. CASE job'[q] # job[q]
    <2>1. job \in [Requests -> Jobs \cup {Idle}]
      BY <1>1 DEF TypeOK
    <2>2. Ask(q) \/ Serve(q) \/ Crash(q)
      <3>1. ASSUME NEW r \in Requests, r # q
            PROVE  ~(Ask(r) \/ Serve(r) \/ Crash(r))
        BY <1>4, <2>1, <3>1 DEF Ask, AskLogin, AskRefresh, AskLogout, AskChangePassword,
             AskSwitch, Start, Serve, ReadToken, CheckAccount, CheckReplacement, Rotate, Issue,
             FindOwnToken, StartRevoking, Revoke, Switch, Crash, Goto, Finish
      <3> QED
        BY <1>4, <3>1 DEF Next, vars, SetStatus
    <2>3. ~Ask(q) /\ ~Crash(q)
      BY <2>1 DEF Ask, AskLogin, AskRefresh, AskLogout, AskChangePassword, AskSwitch, Start,
           Crash, Finish, Idle
    <2>4. ReadToken(q) \/ CheckAccount(q) \/ CheckReplacement(q)
      BY <2>1, <2>2, <2>3 DEF Serve, Rotate, Issue, FindOwnToken, StartRevoking, Revoke, Switch,
           Goto, Finish, Idle
    <2>5. CASE ReadToken(q)
      <3>1. At(q, "asked", {"refresh"}) /\ job[q].token \in DOMAIN tokens
        BY <1>2, <2>5 DEF ReadToken, At, Busy
      <3>2. ~Finish(q) /\ ~Goto(q, "retry", tokens[job[q].token].next, {})
        BY <2>1 DEF Finish, Goto, Idle
      <3>3. /\ ~tokens[job[q].token].revoked
            /\ Goto(q, "fresh", job[q].token, {})
        BY <2>5, <3>2 DEF ReadToken
      <3>4. job'[q].target = job[q].token
        BY <2>1, <3>3 DEF Goto
      <3> QED
        BY <3>1, <3>3, <3>4
    <2>6. CASE CheckAccount(q)
      <3>1. job[q].pc = "fresh" /\ job[q].target \in DOMAIN tokens
        BY <1>2, <2>6 DEF CheckAccount, At, Busy
      <3>2. Goto(q, "rotating", job[q].target, {})
        BY <2>1, <2>6 DEF CheckAccount, Finish, Idle
      <3>3. job'[q].target = job[q].target
        BY <2>1, <3>2 DEF Goto
      <3> QED
        BY <3>1, <3>3
    <2>7. CASE CheckReplacement(q)
      <3>1. job[q].target \in DOMAIN tokens
        BY <1>2, <2>7 DEF CheckReplacement, At, Busy
      <3>2. ~Goto(q, "ending", 0, {})
        BY <2>1 DEF Goto
      <3>3. Live(job[q].target) /\ Goto(q, "rotating", job[q].target, {})
        BY <2>7, <3>2 DEF CheckReplacement
      <3>4. job'[q].target = job[q].target
        BY <2>1, <3>3 DEF Goto
      <3> QED
        BY <3>1, <3>3, <3>4 DEF Live
    <2> QED
      BY <2>4, <2>5, <2>6, <2>7
  <1> QED
    BY <1>3, <1>4

\* The table after any step.
LEMMA StepExtends ==
  ASSUME Inv, [Next]_vars, NEW f \in DOMAIN tokens, ~HasReader(f)
  PROVE  Extends /\ Family(f)' = Family(f)
  <1>1. TypeOK
    BY DEF Inv, ChainsStayInTheFamily
  <1>2. CASE tokens' = tokens
    BY <1>1, <1>2, NothingWritten DEF Family, FamilyOf
  <1>3. CASE tokens' # tokens
    <2>1. PICK r \in Requests : Rotate(r) \/ Issue(r) \/ Revoke(r) \/ Switch(r)
      BY <1>3 DEF Next, vars, Ask, AskLogin, AskRefresh, AskLogout, AskChangePassword, AskSwitch,
                  Serve, ReadToken, CheckAccount, CheckReplacement, FindOwnToken, StartRevoking,
                  SetStatus, Crash
    <2>2. /\ Extends
          /\ \/ Len(tokens') = Len(tokens)
             \/ Len(tokens') = NewId /\ tokens'[NewId].family # f
      <3>1. f # NewId
        BY <1>1 DEF TypeOK, NewId
      <3>2. CASE Rotate(r)
        <4>1. FamilyOf(job[r].target) # f
          BY <3>2 DEF HasReader, Rotate, At
        <4> QED
          BY <1>1, <3>2, <4>1, RotateExtends
      <3>3. CASE Issue(r)
        BY <1>1, <3>1, <3>3, IssueExtends
      <3>4. CASE Revoke(r)
        BY <1>1, <3>4, RevokeExtends
      <3>5. CASE Switch(r)
        BY <1>1, <3>1, <3>5, SwitchExtends
      <3> QED
        BY <2>1, <3>2, <3>3, <3>4, <3>5
    <2>3. /\ DOMAIN tokens \subseteq DOMAIN tokens'
          /\ \A t \in DOMAIN tokens : tokens'[t].family = tokens[t].family
          /\ \A t \in DOMAIN tokens' : t \in DOMAIN tokens \/ tokens'[t].family # f
      BY <1>1, <2>2 DEF TypeOK, Extends, NewId
    <2> QED
      BY <2>2, <2>3 DEF Family, FamilyOf
  <1> QED
    BY <1>2, <1>3

\* An ended family that no refresh in flight had read before stays ended,
\* so none of its tokens works again, whoever presents them.
THEOREM EndedForGood == Spec => QuietFamiliesStayEnded
  <1>1. ASSUME Inv, [Next]_vars
        PROVE  [\A f \in DOMAIN tokens :
                  Ended(f) /\ ~HasReader(f) => Ended(f)' /\ ~HasReader(f)']_vars
    <2>1. TypeOK
      BY <1>1 DEF Inv, ChainsStayInTheFamily
    <2>2. ASSUME NEW f \in DOMAIN tokens, Ended(f), ~HasReader(f)
          PROVE  Ended(f)' /\ ~HasReader(f)'
      <3>1. Extends /\ Family(f)' = Family(f) /\ Family(f) \subseteq DOMAIN tokens
        BY <1>1, <2>2, StepExtends DEF Family
      <3>2. Ended(f)'
        BY <2>2, <3>1 DEF Ended, Extends
      <3>3. ASSUME NEW q \in Requests, job'[q].pc \in {"fresh", "rotating"},
                   FamilyOf(job[q].target)' = f
            PROVE  FALSE
        <4>1. /\ job'[q].target \in DOMAIN tokens
              /\ \/ job[q].pc \in {"fresh", "rotating"} /\ job'[q].target = job[q].target
                 \/ ~tokens[job'[q].target].revoked
          BY <1>1, <3>3, ReaderSawItLive
        <4>2. FamilyOf(job'[q].target) = f
          BY <3>1, <3>3, <4>1 DEF Extends, FamilyOf
        <4>3. tokens[job'[q].target].revoked
          BY <2>2, <4>1, <4>2 DEF Ended, Family
        <4> QED
          BY <2>2, <4>1, <4>2, <4>3 DEF HasReader
      <3> QED
        BY <3>2, <3>3 DEF HasReader
    <2> QED
      BY <2>2
  <1> QED
    BY <1>1, Invariant, PTL DEF Spec, QuietFamiliesStayEnded

-----------------------------------------------------------------------------
(* The app's session against that server. *)

Presenting(r) == Busy(r) /\ job[r].op = "refresh"
Refreshing(f) == {r \in Requests : Presenting(r) /\ FamilyOf(job[r].token) = f}
Waited(d) == flight[d] # NoRequest

\* A refresh nobody waits for, beside the token h in the store.
Late(r, h) ==
  /\ tokens[h].next = 0
  /\ job[r].pc \in {"asked", "fresh", "retry", "rotating"}
  /\ job[r].pc = "asked" => job[r].token = h \/ tokens[job[r].token].next = h
  /\ job[r].pc = "retry" => job[r].token # h /\ job[r].target = h
  /\ job[r].pc \in {"fresh", "rotating"} => job[r].target \in {job[r].token, h}

\* The refresh the device waits for.
OnTime(r, h) ==
  /\ job[r].token = h
  /\ job[r].pc \in {"asked", "fresh", "retry", "rotating"}
  /\ job[r].pc = "fresh" => job[r].target = h
  /\ job[r].pc = "retry" => tokens[h].next # 0 /\ job[r].target = tokens[h].next
  /\ job[r].pc = "rotating" =>
       job[r].target = h \/ (tokens[h].next # 0 /\ job[r].target = tokens[h].next)

\* A session nobody has signed out of: the token h in the store, the number
\* of answers missed and the refresh the device waits for.
Going(h, missed, waited) ==
  /\ Usable(h)
  /\ tokens[h].next # 0 => missed # 0
  /\ \A r \in Refreshing(FamilyOf(h)) \ {waited} : missed # 0 /\ Late(r, h)
  /\ \A r, s \in Refreshing(FamilyOf(h)) \ {waited} : r = s
  /\ waited \in Refreshing(FamilyOf(h)) => OnTime(waited, h)

-----------------------------------------------------------------------------
(* What a step of the server changes. *)

\* The same token in the same place.
SameRow(t) ==
  /\ tokens'[t].next = tokens[t].next
  /\ tokens'[t].family = tokens[t].family
  /\ tokens'[t].revoked <=> tokens[t].revoked

FromTheApp(r) == Busy(r) /\ job[r].op \in {"refresh", "logout"}

\* A request of the app writes to the family of its token only.
LEMMA ServerWrites ==
  ASSUME Inv, NEW r \in Requests, FromTheApp(r), Serve(r) \/ Crash(r)
  PROVE  /\ Extends /\ active' = active
         /\ \A t \in DOMAIN tokens : FamilyOf(t) # FamilyOf(job[r].token) => SameRow(t)
         /\ ~Rotate(r) => Len(tokens') = Len(tokens)
         /\ ~Rotate(r) /\ job[r].pc # "revoking" => tokens' = tokens
  <1>1. TypeOK /\ OnItsOwnChain(r)
    BY DEF Inv, ChainsStayInTheFamily, Sound, FromTheApp
  <1>2. CASE UNCHANGED <<active, tokens>>
    BY <1>1, <1>2, NothingWritten DEF SameRow
  <1>3. CASE Rotate(r)
    <2>1. job[r].target \in DOMAIN tokens /\ FamilyOf(job[r].target) = FamilyOf(job[r].token)
      BY <1>1, <1>3 DEF Rotate, At, TypeOK, Busy, OnItsOwnChain, Reading
    <2>2. active' = active
      BY <1>3 DEF Rotate
    <2> QED
      BY <1>1, <1>3, <2>1, <2>2, RotateExtends DEF SameRow, Extends
  <1>4. CASE Revoke(r)
    <2>1. \A t \in job[r].ended : FamilyOf(t) = FamilyOf(job[r].token)
      BY <1>1, <1>4 DEF Revoke, At, OnItsOwnChain, InScope, FromTheApp
    <2>2. active' = active /\ job[r].pc = "revoking"
      BY <1>4 DEF Revoke, At
    <2>3. /\ Extends /\ Len(tokens') = Len(tokens)
          /\ \A t \in DOMAIN tokens : tokens'[t].revoked <=> tokens[t].revoked \/ t \in job[r].ended
      BY <1>1, <1>4, RevokeExtends
    <2>4. NewId \notin DOMAIN tokens'
      BY <1>1, <2>3 DEF Extends, NewId, TypeOK
    <2> QED
      BY <1>1, <2>1, <2>2, <2>3, <2>4 DEF SameRow, Extends
  <1> QED
    BY <1>2, <1>3, <1>4 DEF Serve, Crash, ReadToken, CheckAccount, CheckReplacement, Issue,
       FindOwnToken, StartRevoking, Switch, At, FromTheApp

\* It ends or goes on, for the same caller with the same token.
LEMMA ServerJob ==
  ASSUME Inv, NEW r \in Requests, FromTheApp(r), Serve(r) \/ Crash(r)
  PROVE  /\ \A q \in Requests : q # r => job'[q] = job[q]
         /\ \/ job'[r] = Idle
            \/ FromTheApp(r)' /\ job'[r].op = job[r].op /\ job'[r].token = job[r].token
         /\ Rotate(r) => job'[r] = Idle
  <1>1. job \in [Requests -> Jobs \cup {Idle}]
    BY DEF Inv, ChainsStayInTheFamily, TypeOK
  <1>2. ASSUME NEW pc \in {"fresh", "retry", "rotating", "ending", "revoking"},
               NEW target, NEW ended, Goto(r, pc, target, ended)
        PROVE  /\ \A q \in Requests : q # r => job'[q] = job[q]
               /\ FromTheApp(r)' /\ job'[r].op = job[r].op /\ job'[r].token = job[r].token
    BY <1>1, <1>2 DEF Goto, FromTheApp, Busy
  <1>3. ASSUME Finish(r)
        PROVE  (\A q \in Requests : q # r => job'[q] = job[q]) /\ job'[r] = Idle
    BY <1>1, <1>3 DEF Finish
  <1>4. CASE Finish(r)
    BY <1>3, <1>4
  <1>5. CASE ~Finish(r)
    <2>1. \E pc \in {"fresh", "retry", "rotating", "ending", "revoking"} : \E target, ended :
             Goto(r, pc, target, ended)
      BY <1>5 DEF Serve, Crash, ReadToken, CheckAccount, CheckReplacement, Issue, FindOwnToken,
         StartRevoking, Switch, At, FromTheApp, Rotate, Revoke
    <2>2. ~Rotate(r)
      BY <1>5 DEF Rotate
    <2> QED
      BY <1>2, <2>1, <2>2
  <1> QED
    BY <1>4, <1>5

LEMMA ServerRefreshing ==
  ASSUME Inv, NEW r \in Requests, FromTheApp(r), Serve(r) \/ Crash(r), NEW f
  PROVE  Refreshing(f)' = IF job'[r] = Idle THEN Refreshing(f) \ {r} ELSE Refreshing(f)
  <1>1. TypeOK /\ Extends
    BY ServerWrites DEF Inv, ChainsStayInTheFamily
  <1>2. ASSUME NEW q \in Requests, Presenting(q)
        PROVE  /\ job[q].token \in DOMAIN tokens
               /\ tokens'[job[q].token].family = tokens[job[q].token].family
    BY <1>1, <1>2 DEF TypeOK, Presenting, Extends
  <1>3. ASSUME NEW q \in Requests, q # r
        PROVE  q \in Refreshing(f)' <=> q \in Refreshing(f)
    <2>1. job'[q] = job[q]
      BY <1>3, ServerJob
    <2> QED
      BY <1>2, <2>1 DEF Refreshing, Presenting, Busy, FamilyOf
  <1>4. CASE job'[r] = Idle
    <2>1. r \notin Refreshing(f)'
      BY <1>4 DEF Refreshing, Presenting, Busy, Idle
    <2> QED
      BY <1>3, <1>4, <2>1 DEF Refreshing
  <1>5. CASE job'[r] # Idle
    <2>1. FromTheApp(r)' /\ job'[r].op = job[r].op /\ job'[r].token = job[r].token
      BY <1>5, ServerJob
    <2>2. r \in Refreshing(f)' <=> r \in Refreshing(f)
      BY <1>2, <2>1 DEF Refreshing, Presenting, FromTheApp, FamilyOf
    <2> QED
      BY <1>3, <1>5, <2>2 DEF Refreshing
  <1> QED
    BY <1>4, <1>5

-----------------------------------------------------------------------------
(* How a session goes on, step by step of the server. *)

LEMMA RowFacts ==
  ASSUME Inv, NEW t \in DOMAIN tokens
  PROVE  /\ t \in Nat \ {0} /\ FamilyOf(t) \in DOMAIN tokens
         /\ tokens[t].next # 0 =>
              /\ tokens[t].next \in DOMAIN tokens
              /\ tokens[t].next > t
              /\ FamilyOf(tokens[t].next) = FamilyOf(t)
  BY DEF Inv, ChainsStayInTheFamily, ChainOf, TypeOK

\* Steps that concern other families.
LEMMA Untouched ==
  ASSUME Inv, Extends, NEW h \in DOMAIN tokens, NEW missed, NEW waited, Going(h, missed, waited),
         NEW f, f = FamilyOf(h), Refreshing(f)' = Refreshing(f),
         \A q \in Refreshing(f) : job'[q] = job[q],
         \A t \in DOMAIN tokens : FamilyOf(t) = f => SameRow(t)
  PROVE  Going(h, missed, waited)'
  <1>1. FamilyOf(h)' = f /\ SameRow(h)
    BY DEF SameRow, FamilyOf
  <1>2. Usable(h)'
    <2>1. tokens[h].next # 0 => SameRow(tokens[h].next)
      BY RowFacts
    <2> QED
      BY <1>1, <2>1 DEF Going, Usable, Live, SameRow
  <1>3. ASSUME NEW q \in Refreshing(f)
        PROVE  /\ Late(q, h) => Late(q, h)'
               /\ OnTime(q, h) => OnTime(q, h)'
    <2>1. job'[q] = job[q]
      OBVIOUS
    <2>2. job[q].token \in DOMAIN tokens /\ FamilyOf(job[q].token) = f
      BY DEF Refreshing, Presenting, Inv, ChainsStayInTheFamily, TypeOK
    <2>3. tokens'[job[q].token].next = tokens[job[q].token].next /\ tokens'[h].next = tokens[h].next
      BY <1>1, <2>2 DEF SameRow
    <2> QED
      BY <2>1, <2>3 DEF Late, OnTime
  <1>4. tokens'[h].next = tokens[h].next
    BY <1>1 DEF SameRow
  <1> QED
    BY <1>1, <1>2, <1>3, <1>4 DEF Going

LEMMA WentOn ==
  ASSUME Inv, NEW r \in Requests, NEW pc, NEW target, NEW ended, Goto(r, pc, target, ended)
  PROVE  /\ job'[r].pc = pc /\ job'[r].target = target
         /\ job'[r].op = job[r].op /\ job'[r].token = job[r].token
  BY DEF Goto, Inv, ChainsStayInTheFamily, TypeOK

LEMMA LateGoesOn ==
  ASSUME Inv, NEW r \in Requests, Presenting(r), NEW h \in DOMAIN tokens, Usable(h), Late(r, h),
         Serve(r), job'[r] # Idle
  PROVE  tokens' = tokens /\ Late(r, h)'
  <1>1. ~Finish(r)
    BY DEF Finish, Inv, ChainsStayInTheFamily, TypeOK
  <1>2. CASE ReadToken(r)
    <2>1. tokens' = tokens /\ job[r].pc = "asked"
      BY <1>2 DEF ReadToken, At
    <2>2. CASE job[r].token = h
      <3>1. Goto(r, "fresh", h, {})
        BY <1>1, <1>2, <2>2 DEF ReadToken, Late, Usable
      <3>2. job'[r].pc = "fresh" /\ job'[r].target = h /\ job'[r].token = h
        BY <2>2, <3>1, WentOn
      <3> QED
        BY <2>1, <3>2 DEF Late
    <2>3. CASE job[r].token # h
      <3>1. tokens[job[r].token].next = h /\ h # 0
        BY <2>1, <2>3, RowFacts DEF Late
      <3>2. Goto(r, "retry", h, {})
        BY <1>1, <1>2, <3>1 DEF ReadToken
      <3>3. job'[r].pc = "retry" /\ job'[r].target = h /\ job'[r].token = job[r].token
        BY <3>2, WentOn
      <3> QED
        BY <2>1, <2>3, <3>3 DEF Late
    <2> QED
      BY <2>2, <2>3
  <1>3. CASE CheckAccount(r)
    <2>1. tokens' = tokens /\ job[r].pc = "fresh" /\ Goto(r, "rotating", job[r].target, {})
      BY <1>1, <1>3 DEF CheckAccount, At
    <2>2. /\ job'[r].pc = "rotating" /\ job'[r].target = job[r].target
          /\ job'[r].token = job[r].token
      BY <2>1, WentOn
    <2> QED
      BY <2>1, <2>2 DEF Late
  <1>4. CASE CheckReplacement(r)
    <2>1. tokens' = tokens /\ job[r].target = h /\ Live(h)
      BY <1>4 DEF CheckReplacement, At, Late, Usable, Live
    <2>2. Goto(r, "rotating", h, {})
      BY <1>4, <2>1 DEF CheckReplacement
    <2>3. job'[r].pc = "rotating" /\ job'[r].target = h /\ job'[r].token = job[r].token
      BY <2>2, WentOn
    <2> QED
      BY <2>1, <2>3 DEF Late
  <1> QED
    BY <1>1, <1>2, <1>3, <1>4 DEF Serve, Rotate, Issue, FindOwnToken, StartRevoking, Revoke, Switch,
       At, Presenting, Late

LEMMA OnTimeGoesOn ==
  ASSUME Inv, NEW r \in Requests, Presenting(r), NEW h \in DOMAIN tokens, Usable(h), OnTime(r, h),
         Serve(r), job'[r] # Idle
  PROVE  tokens' = tokens /\ OnTime(r, h)'
  <1>1. ~Finish(r) /\ job[r].token = h
    BY DEF Finish, Inv, ChainsStayInTheFamily, TypeOK, OnTime
  <1>2. CASE ReadToken(r)
    <2>1. tokens' = tokens
      BY <1>2 DEF ReadToken
    <2>2. CASE tokens[h].next = 0
      <3>1. Goto(r, "fresh", h, {})
        BY <1>1, <1>2, <2>2 DEF ReadToken, Usable
      <3>2. job'[r].pc = "fresh" /\ job'[r].target = h /\ job'[r].token = h
        BY <1>1, <3>1, WentOn
      <3> QED
        BY <2>1, <3>2 DEF OnTime
    <2>3. CASE tokens[h].next # 0
      <3>1. Goto(r, "retry", tokens[h].next, {})
        BY <1>1, <1>2, <2>3 DEF ReadToken, Usable
      <3>2. job'[r].pc = "retry" /\ job'[r].target = tokens[h].next /\ job'[r].token = h
        BY <1>1, <3>1, WentOn
      <3> QED
        BY <2>1, <2>3, <3>2 DEF OnTime
    <2> QED
      BY <2>2, <2>3
  <1>3. CASE CheckAccount(r)
    <2>1. /\ tokens' = tokens /\ job[r].pc = "fresh"
          /\ Goto(r, "rotating", job[r].target, {})
      BY <1>1, <1>3 DEF CheckAccount, At
    <2>2. job'[r].pc = "rotating" /\ job'[r].target = h /\ job'[r].token = h
      BY <1>1, <2>1, WentOn DEF OnTime
    <2> QED
      BY <2>1, <2>2 DEF OnTime
  <1>4. CASE CheckReplacement(r)
    <2>1. /\ tokens' = tokens /\ tokens[h].next # 0
          /\ job[r].target = tokens[h].next /\ Live(tokens[h].next)
      BY <1>4 DEF CheckReplacement, At, OnTime, Usable
    <2>2. Goto(r, "rotating", tokens[h].next, {})
      BY <1>4, <2>1 DEF CheckReplacement
    <2>3. job'[r].pc = "rotating" /\ job'[r].target = tokens[h].next /\ job'[r].token = h
      BY <1>1, <2>2, WentOn
    <2> QED
      BY <2>1, <2>3 DEF OnTime
  <1> QED
    BY <1>1, <1>2, <1>3, <1>4 DEF Serve, Rotate, Issue, FindOwnToken, StartRevoking, Revoke, Switch,
       At, Presenting, OnTime

\* A refresh of the family takes a step and is not over.
LEMMA GoesOn ==
  ASSUME Inv, NEW h \in DOMAIN tokens, NEW missed, NEW waited, Going(h, missed, waited),
         NEW f, f = FamilyOf(h), NEW r \in Refreshing(f), Serve(r), job'[r] # Idle
  PROVE  Going(h, missed, waited)'
  <1>1. Presenting(r) /\ r \in Requests /\ FromTheApp(r)
    BY DEF Refreshing, Presenting, FromTheApp
  <1>2. /\ Refreshing(f)' = Refreshing(f)
        /\ \A q \in Requests : q # r => job'[q] = job[q]
    BY <1>1, ServerRefreshing, ServerJob
  <1>3. /\ tokens' = tokens
        /\ r # waited => Late(r, h)'
        /\ r = waited => OnTime(r, h)'
    <2>1. Usable(h)
      BY DEF Going
    <2>2. CASE r # waited
      BY <1>1, <2>1, <2>2, LateGoesOn DEF Going
    <2>3. CASE r = waited
      BY <1>1, <2>1, <2>3, OnTimeGoesOn DEF Going
    <2> QED
      BY <2>2, <2>3
  <1>4. ASSUME NEW q \in Refreshing(f)
        PROVE  /\ q # waited => Late(q, h)'
               /\ q = waited => OnTime(q, h)'
    <2>1. CASE q = r
      BY <1>3, <2>1
    <2>2. CASE q # r
      <3>1. job'[q] = job[q]
        BY <1>2, <2>2 DEF Refreshing
      <3> QED
        BY <1>3, <3>1 DEF Going, Late, OnTime
    <2> QED
      BY <2>1, <2>2
  <1>5. FamilyOf(h)' = f /\ Usable(h)' /\ tokens'[h].next = tokens[h].next
    BY <1>3 DEF FamilyOf, Usable, Live, Going
  <1> QED
    BY <1>2, <1>4, <1>5 DEF Going

\* The refresh that rotates the token h, seen from its family.
LEMMA RotatedRow ==
  ASSUME Inv, NEW r \in Requests, Presenting(r), Rotate(r), NEW n, n = NewId,
         NEW f, f = FamilyOf(job[r].token)
  PROVE  /\ n \notin DOMAIN tokens /\ n \in DOMAIN tokens' /\ n # 0
         /\ Len(tokens') = n
         /\ tokens'[n].next = 0 /\ tokens'[n].family = f /\ ~tokens'[n].revoked
         /\ \A t \in DOMAIN tokens :
              /\ tokens'[t].family = tokens[t].family
              /\ tokens'[t].revoked <=> tokens[t].revoked
              /\ tokens'[t].next = IF t = job[r].target THEN n ELSE tokens[t].next
  <1>1. TypeOK /\ OnItsOwnChain(r)
    BY DEF Inv, ChainsStayInTheFamily, Sound, Presenting
  <1>2. FamilyOf(job[r].target) = f
    BY <1>1 DEF Rotate, At, OnItsOwnChain, Reading
  <1>3. /\ Extends
        /\ Len(tokens') = n
        /\ tokens'[n].family = FamilyOf(job[r].target) /\ ~tokens'[n].revoked
        /\ \A t \in DOMAIN tokens :
             /\ tokens'[t].revoked = tokens[t].revoked
             /\ tokens'[t].next = IF t = job[r].target THEN n ELSE tokens[t].next
    BY <1>1, RotateExtends
  <1>4. n \notin DOMAIN tokens /\ n \in DOMAIN tokens' /\ n # 0
    BY <1>1, <1>3 DEF TypeOK, Extends, NewId
  <1> QED
    BY <1>2, <1>3, <1>4 DEF Extends

\* A refresh of the family that is no longer waited for ends.
LEMMA LateEnds ==
  ASSUME Inv, NEW h \in DOMAIN tokens, NEW missed, NEW waited, Going(h, missed, waited),
         NEW f, f = FamilyOf(h), NEW r \in Refreshing(f), r # waited,
         Serve(r) \/ Crash(r), job'[r] = Idle
  PROVE  Going(h, missed, waited)'
  <1>1. Presenting(r) /\ r \in Requests /\ FromTheApp(r) /\ FamilyOf(job[r].token) = f
    BY DEF Refreshing, Presenting, FromTheApp
  <1>2. /\ Refreshing(f)' = Refreshing(f) \ {r}
        /\ \A q \in Requests : q # r => job'[q] = job[q]
    BY <1>1, ServerRefreshing, ServerJob
  <1>3. /\ missed # 0 /\ Late(r, h) /\ tokens[h].next = 0 /\ ~tokens[h].revoked
        /\ Refreshing(f) \ {waited} = {r}
    BY DEF Going, Late, Usable
  <1>4. /\ FamilyOf(h)' = f /\ Usable(h)'
        /\ waited \in Refreshing(f)' => OnTime(waited, h)'
    <2>1. CASE Rotate(r)
      <3>1. PICK n : n = NewId
        OBVIOUS
      <3>2. /\ n \in DOMAIN tokens' /\ n # 0
            /\ tokens'[n].next = 0 /\ ~tokens'[n].revoked
            /\ tokens'[h].family = tokens[h].family
            /\ tokens'[h].revoked <=> tokens[h].revoked
            /\ tokens'[h].next \in {0, n}
        BY <1>1, <1>3, <2>1, <3>1, RotatedRow
      <3>3. FamilyOf(h)' = f /\ Usable(h)'
        BY <1>3, <3>2 DEF FamilyOf, Usable, Live
      <3>4. ASSUME waited \in Refreshing(f)
            PROVE  OnTime(waited, h)'
        <4>1. OnTime(waited, h) /\ job'[waited] = job[waited]
          BY <1>2, <3>4 DEF Going, Refreshing
        <4> QED
          BY <1>3, <4>1 DEF OnTime
      <3> QED
        BY <1>2, <3>3, <3>4
    <2>2. CASE ~Rotate(r)
      <3>1. tokens' = tokens
        BY <1>1, <1>3, <2>2, ServerWrites DEF Late
      <3>2. waited \in Refreshing(f) => OnTime(waited, h) /\ job'[waited] = job[waited]
        BY <1>2 DEF Going, Refreshing
      <3> QED
        BY <1>2, <3>1, <3>2 DEF OnTime, Going, Usable, Live, FamilyOf
    <2> QED
      BY <2>1, <2>2
  <1>5. Refreshing(f)' \ {waited} = {}
    BY <1>2, <1>3
  <1> QED
    BY <1>3, <1>4, <1>5 DEF Going

\* The refresh waited for rotates the token, and its answer is stored.
LEMMA HeardNew ==
  ASSUME Inv, NEW h \in DOMAIN tokens, NEW missed, NEW waited \in Requests, Going(h, missed, waited),
         NEW f, f = FamilyOf(h), waited \in Refreshing(f), Rotate(waited),
         \A s \in Refreshing(f) \ {waited} : job[s].token = h,
         NEW now, Refreshing(f) \ {waited} # {} => now # 0,
         NEW n, n = NewId
  PROVE  Going(n, now, NoRequest)'
  <1>1. Presenting(waited) /\ FromTheApp(waited) /\ FamilyOf(job[waited].token) = f
    BY DEF Refreshing, Presenting, FromTheApp
  <1>2. /\ Refreshing(f)' = Refreshing(f) \ {waited}
        /\ \A q \in Requests : q # waited => job'[q] = job[q]
    BY <1>1, ServerRefreshing, ServerJob DEF Serve
  <1>3. /\ n \notin DOMAIN tokens /\ n # 0
        /\ tokens'[n].next = 0 /\ tokens'[n].family = f /\ ~tokens'[n].revoked
        /\ tokens'[h].next = IF h = job[waited].target THEN n ELSE tokens[h].next
    BY <1>1, RotatedRow
  <1>4. FamilyOf(n)' = f /\ Usable(n)'
    BY <1>3 DEF FamilyOf, Usable
  <1>5. ASSUME NEW s \in Refreshing(f) \ {waited}
        PROVE  Late(s, n)'
    <2>1. Late(s, h) /\ job[s].token = h /\ job'[s] = job[s] /\ h # n
      BY <1>2, <1>3 DEF Going, Refreshing
    <2>2. job[waited].target = h
      BY <2>1 DEF Going, OnTime, Late, Rotate, At
    <2> QED
      BY <1>3, <2>1, <2>2 DEF Late
  <1>6. NoRequest \notin Refreshing(f)
    BY NoRequestAssumption DEF Refreshing
  <1> QED
    BY <1>2, <1>3, <1>4, <1>5, <1>6 DEF Going

\* It ends, and the device misses the answer: the first it misses.
LEMMA Missed ==
  ASSUME Inv, NEW h \in DOMAIN tokens, NEW waited, Going(h, 0, waited),
         NEW f, f = FamilyOf(h), NEW r \in Refreshing(f), r = waited,
         Serve(r) \/ Crash(r), job'[r] = Idle
  PROVE  Going(h, 1, NoRequest)'
  <1>1. Presenting(r) /\ r \in Requests /\ FromTheApp(r) /\ FamilyOf(job[r].token) = f
    BY DEF Refreshing, Presenting, FromTheApp
  <1>2. Refreshing(f)' = {}
    BY <1>1, ServerRefreshing DEF Going
  <1>3. tokens[h].next = 0 /\ OnTime(r, h) /\ ~tokens[h].revoked
    BY DEF Going, Usable
  <1>4. FamilyOf(h)' = f /\ Usable(h)'
    <2>1. CASE Rotate(r)
      <3>1. PICK n : n = NewId
        OBVIOUS
      <3>2. /\ n # 0 /\ tokens'[n].next = 0 /\ ~tokens'[n].revoked
            /\ tokens'[h].family = tokens[h].family
            /\ tokens'[h].revoked <=> tokens[h].revoked
            /\ tokens'[h].next \in {0, n}
        BY <1>1, <1>3, <2>1, <3>1, RotatedRow
      <3> QED
        BY <1>3, <3>2 DEF FamilyOf, Usable, Live
    <2>2. CASE ~Rotate(r)
      <3>1. tokens' = tokens
        BY <1>1, <1>3, <2>2, ServerWrites DEF OnTime
      <3> QED
        BY <1>3, <3>1 DEF FamilyOf, Usable
    <2> QED
      BY <2>1, <2>2
  <1> QED
    BY <1>2, <1>4 DEF Going

\* The device stops waiting: what it waited for goes on as a late refresh.
LEMMA GivenUp ==
  ASSUME NEW h, NEW waited, Going(h, 0, waited)
  PROVE  Going(h, 1, NoRequest)
  <1>1. \A r \in Refreshing(FamilyOf(h)) : r = waited
    BY DEF Going
  <1>2. waited \in Refreshing(FamilyOf(h)) => Late(waited, h)
    BY DEF Going, OnTime, Late
  <1>3. NoRequest \notin Refreshing(FamilyOf(h))
    BY NoRequestAssumption DEF Refreshing
  <1> QED
    BY <1>1, <1>2, <1>3 DEF Going

-----------------------------------------------------------------------------
(* The inductive invariant of the app and the server. *)

Typed ==
  /\ held \in [Devices -> {0} \cup DOMAIN tokens]
  /\ flight \in [Devices -> Requests \cup {NoRequest}]
  /\ \A d \in Devices : Waited(d) => Presenting(flight[d])
  /\ leaving \subseteq Devices
  /\ unheard \in [Devices -> 0 .. MaxUnheard]
  /\ outrun \subseteq signedOut /\ signedOut \subseteq DOMAIN tokens

\* Nobody but the devices talks to the server, and a logout is on its way
\* only for a family that was signed out of.
OnlyTheApp ==
  \A r \in Requests : Busy(r) =>
    /\ FromTheApp(r)
    /\ job[r].op = "logout" => FamilyOf(job[r].token) \in signedOut

\* Two devices have no family in common.
Uses(d, f) ==
  \/ held[d] # 0 /\ FamilyOf(held[d]) = f
  \/ Waited(d) /\ FamilyOf(job[flight[d]].token) = f
Apart == \A d, e \in Devices : d # e => \A f : ~(Uses(d, f) /\ Uses(e, f))

\* Signing out: what a device holds, and what it still waits for.
Leaves(d) ==
  /\ held[d] # 0 => (FamilyOf(held[d]) \in signedOut <=> d \in leaving \/ FamilyOf(held[d]) \in outrun)
  /\ Waited(d) =>
       \/ held[d] # 0 /\ FamilyOf(job[flight[d]].token) = FamilyOf(held[d])
       \/ FamilyOf(job[flight[d]].token) \in outrun

\* One refresh more than the one waited for was sent with the token h in the
\* store, and only if an answer was missed since it is there.
Retries(h, missed, waited) ==
  LET others == Refreshing(FamilyOf(h)) \ {waited} IN
  /\ \A r \in others : job[r].token = h => missed # 0
  /\ \A r, s \in others : job[r].token = h /\ job[s].token = h => r = s
  /\ waited # NoRequest => \A r \in others : job[r].token = h

DeviceInv(d) ==
  /\ Leaves(d)
  /\ held[d] # 0 => Retries(held[d], unheard[d], flight[d])
  /\ held[d] # 0 /\ FamilyOf(held[d]) \notin signedOut => Going(held[d], unheard[d], flight[d])

SessionInv == Inv /\ Typed /\ OnlyTheApp /\ Apart /\ \A d \in Devices : DeviceInv(d)

-----------------------------------------------------------------------------
LEMMA TypedFacts ==
  ASSUME SessionInv, NEW d \in Devices
  PROVE  /\ held[d] # 0 => held[d] \in DOMAIN tokens
         /\ flight[d] \in Requests \cup {NoRequest}
         /\ Waited(d) => /\ flight[d] \in Requests /\ Presenting(flight[d])
                         /\ FromTheApp(flight[d])
                         /\ job[flight[d]].token \in DOMAIN tokens
         /\ unheard[d] \in 0 .. MaxUnheard
  <1>1. Inv /\ Typed /\ TypeOK
    BY DEF SessionInv, Inv, ChainsStayInTheFamily
  <1>2. held[d] # 0 => held[d] \in DOMAIN tokens
    BY <1>1 DEF Typed
  <1>3. flight[d] \in Requests \cup {NoRequest} /\ unheard[d] \in 0 .. MaxUnheard
    BY <1>1 DEF Typed
  <1>4. Waited(d) => flight[d] \in Requests /\ Presenting(flight[d])
    BY <1>1, <1>3 DEF Typed, Waited
  <1>5. Waited(d) => FromTheApp(flight[d]) /\ job[flight[d]].token \in DOMAIN tokens
    BY <1>1, <1>4 DEF TypeOK, Presenting, FromTheApp
  <1> QED
    BY <1>2, <1>3, <1>4, <1>5

LEMMA AbandonedRefreshes ==
  ASSUME SessionInv, NEW d \in Devices
  PROVE  Abandoned(d) = IF held[d] = 0 THEN {} ELSE Refreshing(FamilyOf(held[d])) \ {flight[d]}
  BY DEF Abandoned, Refreshing, Presenting

OneAnswerAtMost == MaxUnheard \in {0, 1}

\* While a device waits there is one abandoned refresh at most, and none if
\* it missed no answer.
LEMMA AbandonedCount ==
  ASSUME OneAnswerAtMost, SessionInv, NEW d \in Devices, Waited(d)
  PROVE  /\ Cardinality(Abandoned(d)) \in 0 .. MaxUnheard
         /\ Abandoned(d) # {} => Cardinality(Abandoned(d)) # 0
         /\ \A s \in Abandoned(d) : job[s].token = held[d]
  <1>1. CASE Abandoned(d) = {}
    BY <1>1, FS_EmptySet DEF OneAnswerAtMost
  <1>2. CASE Abandoned(d) # {}
    <2>1. held[d] # 0 /\ Abandoned(d) = Refreshing(FamilyOf(held[d])) \ {flight[d]}
      BY <1>2, AbandonedRefreshes
    <2>2. Retries(held[d], unheard[d], flight[d])
      BY <2>1 DEF SessionInv, DeviceInv
    <2>3. /\ \A s \in Abandoned(d) : job[s].token = held[d] /\ unheard[d] # 0
          /\ \A r, s \in Abandoned(d) : r = s
      BY <2>1, <2>2 DEF Retries, Waited
    <2>4. PICK s \in Abandoned(d) : Abandoned(d) = {s}
      BY <1>2, <2>3
    <2>5. Cardinality(Abandoned(d)) = 1
      BY <2>4, FS_Singleton
    <2>6. unheard[d] # 0 /\ unheard[d] \in 0 .. MaxUnheard
      BY <2>3, <2>4, TypedFacts
    <2> QED
      BY <2>3, <2>5, <2>6 DEF OneAnswerAtMost
  <1> QED
    BY <1>1, <1>2

\* What a request of the app leaves as it was, whatever it does.
LEMMA FamiliesStay ==
  ASSUME SessionInv, Extends
  PROVE  /\ DOMAIN tokens \subseteq DOMAIN tokens'
         /\ \A t \in DOMAIN tokens : FamilyOf(t)' = FamilyOf(t)
         /\ \A d \in Devices : held[d] # 0 => FamilyOf(held[d]) = tokens'[held[d]].family
         /\ \A r \in Requests : FromTheApp(r) =>
              FamilyOf(job[r].token) = tokens'[job[r].token].family
  <1>1. TypeOK
    BY DEF SessionInv, Inv, ChainsStayInTheFamily
  <1>2. \A r \in Requests : FromTheApp(r) => job[r].token \in DOMAIN tokens
    BY <1>1 DEF TypeOK, FromTheApp
  <1> QED
    BY <1>1, <1>2, RowsStay, TypedFacts DEF FamilyOf

-----------------------------------------------------------------------------
(* The server takes a step. *)

\* A request of the app takes its step, and these three are as they were.
ServerMoves(r) == (Serve(r) \/ Crash(r)) /\ UNCHANGED <<leaving, signedOut, outrun>>

LEMMA ServedIsTheApps ==
  ASSUME SessionInv, NEW r \in Requests, Serve(r) \/ Crash(r)
  PROVE  FromTheApp(r) /\ Inv /\ Inv' /\ Extends
  <1>1. Busy(r)
    BY DEF Serve, Crash, Busy, At, ReadToken, CheckAccount, CheckReplacement, Rotate, Issue,
           FindOwnToken, StartRevoking, Revoke, Switch
  <1>2. FromTheApp(r) /\ Inv
    BY <1>1 DEF SessionInv, OnlyTheApp
  <1>3. Inv'
    BY <1>2, NextInv DEF Next
  <1> QED
    BY <1>2, <1>3, ServerWrites

\* A token of the store is looked after as before.
LEMMA RetriesStay ==
  ASSUME SessionInv, NEW r \in Requests, Serve(r) \/ Crash(r), NEW h \in DOMAIN tokens,
         NEW missed, NEW waited, Retries(h, missed, waited)
  PROVE  Retries(h, missed, waited)'
  <1>1. PICK f : f = FamilyOf(h)
    OBVIOUS
  <1>2. FromTheApp(r) /\ Inv /\ Extends
    BY ServedIsTheApps
  <1>3. Refreshing(f)' \subseteq Refreshing(f)
    BY <1>2, ServerRefreshing
  <1>4. \A q \in Refreshing(f)' : job'[q].token = job[q].token
    BY <1>2, ServerJob DEF Refreshing, Presenting, Busy, Idle
  <1>5. FamilyOf(h)' = f
    BY <1>1, <1>2, FamiliesStay
  <1> QED
    BY <1>1, <1>3, <1>4, <1>5 DEF Retries

\* A session goes on through a step that is not the answer its device waits for.
LEMMA GoingStays ==
  ASSUME SessionInv, NEW r \in Requests, Serve(r) \/ Crash(r), NEW h \in DOMAIN tokens,
         FamilyOf(h) \notin signedOut,
         NEW missed, NEW waited, Going(h, missed, waited), r = waited => job'[r] # Idle
  PROVE  Going(h, missed, waited)'
  <1>1. PICK f : f = FamilyOf(h)
    OBVIOUS
  <1>2. FromTheApp(r) /\ Inv /\ Extends /\ Busy(r)
    BY ServedIsTheApps DEF FromTheApp
  <1>3. CASE r \in Refreshing(f) /\ job'[r] # Idle
    <2>1. job \in [Requests -> Jobs \cup {Idle}]
      BY <1>2 DEF Inv, ChainsStayInTheFamily, TypeOK
    <2>2. ~Crash(r)
      BY <1>3, <2>1 DEF Crash, Finish
    <2> QED
      BY <1>1, <1>2, <1>3, <2>2, GoesOn
  <1>4. CASE r \in Refreshing(f) /\ job'[r] = Idle
    BY <1>1, <1>2, <1>4, LateEnds
  <1>5. CASE r \notin Refreshing(f)
    <2>1. FamilyOf(job[r].token) # f
      BY <1>1, <1>2, <1>5 DEF SessionInv, OnlyTheApp, FromTheApp, Refreshing, Presenting
    <2>2. \A t \in DOMAIN tokens : FamilyOf(t) = f => SameRow(t)
      BY <1>2, <2>1, ServerWrites
    <2>3. Refreshing(f)' = Refreshing(f)
      BY <1>2, <1>5, ServerRefreshing
    <2>4. \A q \in Refreshing(f) : job'[q] = job[q]
      BY <1>2, <1>5, ServerJob DEF Refreshing
    <2> QED
      BY <1>1, <1>2, <2>2, <2>3, <2>4, Untouched
  <1> QED
    BY <1>3, <1>4, <1>5

\* A device that hears nothing in this step.
LEMMA DeviceStays ==
  ASSUME SessionInv, NEW r \in Requests, ServerMoves(r), NEW d \in Devices,
         held'[d] = held[d], flight'[d] = flight[d], unheard'[d] = unheard[d],
         flight[d] = r => job'[r] # Idle
  PROVE  /\ DeviceInv(d)'
         /\ Waited(d) => Presenting(flight[d])'
         /\ \A g : Uses(d, g)' => Uses(d, g)
  <1>1. PICK h, q, m : h = held[d] /\ q = flight[d] /\ m = unheard[d]
    OBVIOUS
  <1>2. /\ held'[d] = h /\ flight'[d] = q /\ unheard'[d] = m
        /\ leaving' = leaving /\ signedOut' = signedOut /\ outrun' = outrun
    BY <1>1 DEF ServerMoves
  <1>3. FromTheApp(r) /\ Inv /\ Extends
    BY ServedIsTheApps DEF ServerMoves
  <1>4. /\ h # 0 => h \in DOMAIN tokens
        /\ q # NoRequest => q \in Requests /\ Presenting(q) /\ job[q].token \in DOMAIN tokens
    BY <1>1, TypedFacts DEF Waited
  <1>5. h # 0 => FamilyOf(h)' = FamilyOf(h)
    BY <1>3, <1>4, FamiliesStay
  <1>6. q # NoRequest => /\ Presenting(q)' /\ job'[q].token = job[q].token
                         /\ FamilyOf(job[q].token)' = FamilyOf(job[q].token)
    <2>1. ASSUME q # NoRequest
          PROVE  /\ job'[q].pc # "idle" /\ job'[q].op = job[q].op /\ job'[q].token = job[q].token
      <3>1. CASE q = r
        BY <1>1, <1>3, <1>4, <2>1, <3>1, ServerJob DEF ServerMoves, FromTheApp, Busy
      <3>2. CASE q # r
        BY <1>3, <1>4, <2>1, <3>2, ServerJob DEF ServerMoves, Presenting, Busy
      <3> QED
        BY <3>1, <3>2
    <2> QED
      BY <1>3, <1>4, <2>1, FamiliesStay DEF Presenting, Busy, FamilyOf
  <1>7. DeviceInv(d)
    BY DEF SessionInv
  <1>8. Leaves(d)'
    <2>1. /\ h # 0 => (FamilyOf(h) \in signedOut <=> d \in leaving \/ FamilyOf(h) \in outrun)
          /\ q # NoRequest => \/ h # 0 /\ FamilyOf(job[q].token) = FamilyOf(h)
                              \/ FamilyOf(job[q].token) \in outrun
      BY <1>1, <1>7 DEF DeviceInv, Leaves, Waited
    <2> QED
      BY <1>2, <1>5, <1>6, <2>1 DEF Leaves, Waited
  <1>9. h # 0 => Retries(h, m, q)'
    BY <1>1, <1>4, <1>7, RetriesStay DEF DeviceInv, ServerMoves
  <1>10. ASSUME h # 0, FamilyOf(h) \notin signedOut
         PROVE  Going(h, m, q)'
    <2>1. Going(h, m, q)
      BY <1>1, <1>7, <1>10 DEF DeviceInv
    <2> QED
      BY <1>1, <1>4, <1>10, <2>1, GoingStays DEF ServerMoves
  <1>11. \A g : Uses(d, g)' => Uses(d, g)
    BY <1>1, <1>2, <1>5, <1>6 DEF Uses, Waited, FamilyOf
  <1> QED
    BY <1>1, <1>2, <1>5, <1>6, <1>8, <1>9, <1>10, <1>11 DEF DeviceInv, Waited

LEMMA OnlyTheAppStays ==
  ASSUME SessionInv, NEW r \in Requests, ServerMoves(r)
  PROVE  OnlyTheApp'
  <1>1. FromTheApp(r) /\ Inv /\ Extends /\ signedOut' = signedOut
    BY ServedIsTheApps DEF ServerMoves
  <1>2. ASSUME NEW q \in Requests, Busy(q)'
        PROVE  FromTheApp(q) /\ FromTheApp(q)' /\ job'[q].op = job[q].op /\ job'[q].token = job[q].token
    <2>1. CASE q = r
      BY <1>1, <1>2, <2>1, ServerJob DEF ServerMoves, Busy, Idle
    <2>2. CASE q # r
      <3>1. job'[q] = job[q]
        BY <1>1, <2>2, ServerJob DEF ServerMoves
      <3>2. FromTheApp(q)
        BY <1>2, <3>1 DEF SessionInv, OnlyTheApp, Busy
      <3> QED
        BY <3>1, <3>2 DEF FromTheApp, Busy
    <2> QED
      BY <2>1, <2>2
  <1>3. ASSUME NEW q \in Requests, Busy(q)', job'[q].op = "logout"
        PROVE  FamilyOf(job[q].token)' \in signedOut
    <2>1. FromTheApp(q) /\ job[q].op = "logout" /\ job'[q].token = job[q].token
      BY <1>2, <1>3
    <2>2. FamilyOf(job[q].token) \in signedOut
      BY <2>1 DEF SessionInv, OnlyTheApp, FromTheApp
    <2> QED
      BY <1>1, <2>1, <2>2, FamiliesStay DEF FamilyOf
  <1> QED
    BY <1>1, <1>2, <1>3 DEF OnlyTheApp

\* Nobody hears an answer.
LEMMA ServerQuiet ==
  ASSUME SessionInv, NEW r \in Requests, ServerMoves(r), UNCHANGED <<held, flight, unheard>>,
         \A d \in Devices : flight[d] = r => job'[r] # Idle
  PROVE  SessionInv'
  <1>1. Inv' /\ OnlyTheApp' /\ Extends
    BY ServedIsTheApps, OnlyTheAppStays DEF ServerMoves
  <1>2. ASSUME NEW d \in Devices
        PROVE  /\ DeviceInv(d)'
               /\ Waited(d) => Presenting(flight[d])'
               /\ \A g : Uses(d, g)' => Uses(d, g)
    BY DeviceStays
  <1>3. Typed'
    BY <1>1, <1>2, FamiliesStay DEF SessionInv, Typed, ServerMoves, Waited
  <1>4. Apart'
    BY <1>2 DEF SessionInv, Apart
  <1> QED
    BY <1>1, <1>2, <1>3, <1>4 DEF SessionInv

\* The refresh e waits for is over: e hears the answer, or misses it.
Answers(r, e) ==
  /\ ServerMoves(r)
  /\ flight[e] = r /\ job'[r] = Idle
  /\ flight' = [flight EXCEPT ![e] = NoRequest]
  /\ Hear(e, Len(tokens') > Len(tokens)) \/ Miss(e)

\* What e holds afterwards, and how it counts.
LEMMA AfterTheAnswer ==
  ASSUME OneAnswerAtMost, SessionInv, NEW r \in Requests, NEW e \in Devices, Answers(r, e)
  PROVE  /\ flight'[e] = NoRequest
         /\ \A d \in Devices : d # e =>
              held'[d] = held[d] /\ flight'[d] = flight[d] /\ unheard'[d] = unheard[d]
         /\ unheard' \in [Devices -> 0 .. MaxUnheard]
         /\ held' \in [Devices -> {0} \cup DOMAIN tokens']
         /\ Waited(e) /\ Presenting(r) /\ Extends
         /\ \/ held'[e] = 0
            \/ /\ Rotate(r) /\ held'[e] = NewId
               /\ Abandoned(e) # {} => unheard'[e] # 0
            \/ held'[e] = held[e] /\ unheard[e] = 0 /\ unheard'[e] = 1
  <1>1. r # NoRequest /\ Waited(e) /\ Presenting(r) /\ FromTheApp(r)
    BY NoRequestAssumption, TypedFacts DEF Answers, Waited
  <1>2. Inv /\ TypeOK /\ Extends /\ Typed
    BY ServedIsTheApps DEF Answers, ServerMoves, Inv, ChainsStayInTheFamily, SessionInv
  <1>3. /\ DOMAIN tokens \subseteq DOMAIN tokens'
        /\ held \in [Devices -> {0} \cup DOMAIN tokens']
        /\ unheard \in [Devices -> 0 .. MaxUnheard]
        /\ flight \in [Devices -> Requests \cup {NoRequest}]
    BY <1>2, FamiliesStay DEF Typed
  <1>4. /\ flight'[e] = NoRequest
        /\ \A d \in Devices : d # e => flight'[d] = flight[d]
    BY <1>3 DEF Answers
  <1>5. CASE Hear(e, Len(tokens') > Len(tokens))
    <2> DEFINE x == IF Len(tokens') > Len(tokens) THEN NewId ELSE 0
    <2>1. Len(tokens') > Len(tokens) => Rotate(r)
      BY <1>1, <1>2, ServerWrites DEF Answers, ServerMoves, TypeOK
    <2>2. Rotate(r) => NewId \in DOMAIN tokens' /\ Len(tokens') > Len(tokens)
      <3>1. ASSUME Rotate(r), NEW n, n = NewId
            PROVE  n \in DOMAIN tokens' /\ Len(tokens') = n
        BY <1>1, <1>2, <3>1, RotatedRow
      <3> QED
        BY <1>2, <3>1 DEF NewId, TypeOK
    <2>3. x \in {0} \cup DOMAIN tokens' /\ (x # 0 => Rotate(r) /\ x = NewId)
      BY <2>1, <2>2
    <2>4. held' = [held EXCEPT ![e] = x] /\ unheard' = [unheard EXCEPT ![e] = Cardinality(Abandoned(e))]
      BY <1>5 DEF Hear
    <2>5. /\ Cardinality(Abandoned(e)) \in 0 .. MaxUnheard
          /\ Abandoned(e) # {} => Cardinality(Abandoned(e)) # 0
      BY <1>1, AbandonedCount
    <2> HIDE DEF x
    <2> QED
      BY <1>1, <1>2, <1>3, <1>4, <2>3, <2>4, <2>5
  <1>6. CASE Miss(e)
    <2>1. held' = held /\ unheard[e] < MaxUnheard /\ unheard' = [unheard EXCEPT ![e] = @ + 1]
      BY <1>6 DEF Miss
    <2>2. unheard[e] = 0 /\ 1 \in 0 .. MaxUnheard
      BY <1>3, <2>1 DEF OneAnswerAtMost
    <2>3. unheard' = [unheard EXCEPT ![e] = 1]
      BY <1>3, <2>1, <2>2
    <2> QED
      BY <1>1, <1>2, <1>3, <1>4, <2>1, <2>2, <2>3
  <1> QED
    BY <1>5, <1>6 DEF Answers

\* The device that was answered with a new token, and stores it.
LEMMA StoredNew ==
  ASSUME OneAnswerAtMost, SessionInv, NEW r \in Requests, NEW e \in Devices, Answers(r, e),
         Rotate(r), NEW n, n = NewId, held'[e] = n, flight'[e] = NoRequest,
         Abandoned(e) # {} => unheard'[e] # 0
  PROVE  DeviceInv(e)' /\ FamilyOf(n)' = FamilyOf(job[r].token)
  <1>1. PICK f, m : f = FamilyOf(job[r].token) /\ m = unheard'[e]
    OBVIOUS
  <1>2. /\ FromTheApp(r) /\ Presenting(r) /\ Inv /\ Extends
        /\ Waited(e) /\ flight[e] = r /\ r # NoRequest
        /\ leaving' = leaving /\ signedOut' = signedOut /\ outrun' = outrun
    BY AfterTheAnswer, ServedIsTheApps, NoRequestAssumption DEF Answers, ServerMoves
  <1>3. /\ n \notin DOMAIN tokens /\ n # 0 /\ tokens'[n].family = f
    BY <1>1, <1>2, RotatedRow
  <1>4. FamilyOf(n)' = f
    BY <1>3 DEF FamilyOf
  <1>5. DeviceInv(e) /\ outrun \subseteq signedOut
    BY DEF SessionInv, Typed
  <1>6. /\ f \in signedOut <=> e \in leaving \/ f \in outrun
        /\ f \notin outrun => held[e] # 0 /\ FamilyOf(held[e]) = f
    BY <1>1, <1>2, <1>5 DEF DeviceInv, Leaves
  <1>7. Leaves(e)'
    BY <1>2, <1>4, <1>6 DEF Leaves, Waited
  <1>8. Retries(n, m, NoRequest)'
    <2>1. \A q \in Refreshing(f)' : q \in Requests /\ job'[q].token # n
      <3>1. ASSUME NEW q \in Refreshing(f)'
            PROVE  q \in Refreshing(f) /\ job'[q] = job[q]
        <4>1. job'[r] = Idle /\ (Serve(r) \/ Crash(r))
          BY DEF Answers, ServerMoves
        <4>2. Refreshing(f)' = Refreshing(f) \ {r}
          BY <1>2, <4>1, ServerRefreshing
        <4>3. q \in Refreshing(f) /\ q \in Requests /\ q # r
          BY <4>2 DEF Refreshing
        <4> QED
          BY <1>2, <4>1, <4>3, ServerJob
      <3>2. \A q \in Refreshing(f) : job[q].token \in DOMAIN tokens /\ q \in Requests
        BY <1>2 DEF Inv, ChainsStayInTheFamily, TypeOK, Refreshing, Presenting
      <3> QED
        BY <1>3, <3>1, <3>2
    <2> QED
      BY <1>4, <2>1 DEF Retries
  <1>9. ASSUME f \notin signedOut
        PROVE  Going(n, m, NoRequest)'
    <2>1. PICK h, missed : h = held[e] /\ missed = unheard[e]
      OBVIOUS
    <2>2. h # 0 /\ FamilyOf(h) = f /\ h \in DOMAIN tokens
      BY <1>5, <1>6, <1>9, <2>1, TypedFacts
    <2>3. Going(h, missed, r)
      BY <1>2, <1>5, <1>9, <2>1, <2>2 DEF DeviceInv
    <2>4. Abandoned(e) = Refreshing(f) \ {r}
      BY <1>2, <2>1, <2>2, AbandonedRefreshes
    <2>5. /\ \A s \in Refreshing(f) \ {r} : job[s].token = h
          /\ Refreshing(f) \ {r} # {} => m # 0
      BY <1>1, <1>2, <2>1, <2>4, AbandonedCount
    <2>6. r \in Refreshing(f)
      BY <1>1, <1>2 DEF Refreshing
    <2> QED
      BY <1>2, <2>2, <2>3, <2>5, <2>6, HeardNew
  <1> QED
    BY <1>1, <1>2, <1>4, <1>7, <1>8, <1>9 DEF DeviceInv

\* The device that missed the answer.
LEMMA MissedIt ==
  ASSUME OneAnswerAtMost, SessionInv, NEW r \in Requests, NEW e \in Devices, Answers(r, e),
         held'[e] = held[e], flight'[e] = NoRequest, unheard[e] = 0, unheard'[e] = 1
  PROVE  DeviceInv(e)'
  <1>1. PICK h, f : h = held[e] /\ f = FamilyOf(h)
    OBVIOUS
  <1>2. /\ FromTheApp(r) /\ Presenting(r) /\ Inv /\ Extends
        /\ flight[e] = r /\ job'[r] = Idle /\ (Serve(r) \/ Crash(r))
        /\ leaving' = leaving /\ signedOut' = signedOut /\ outrun' = outrun
    BY AfterTheAnswer, ServedIsTheApps DEF Answers, ServerMoves
  <1>3. CASE h = 0
    BY <1>1, <1>2, <1>3 DEF DeviceInv, Leaves, Waited
  <1>4. CASE h # 0
    <2>1. h \in DOMAIN tokens /\ FamilyOf(h)' = f
      BY <1>1, <1>2, <1>4, TypedFacts, FamiliesStay
    <2>2. DeviceInv(e)
      BY DEF SessionInv
    <2>3. Leaves(e)'
      <3>1. f \in signedOut <=> e \in leaving \/ f \in outrun
        BY <1>1, <1>4, <2>2 DEF DeviceInv, Leaves
      <3> QED
        BY <1>1, <1>2, <2>1, <3>1 DEF Leaves, Waited
    <2>4. Retries(h, 1, NoRequest)'
      <3>1. Retries(h, 0, r)
        BY <1>1, <1>2, <1>4, <2>2 DEF DeviceInv
      <3>2. /\ Refreshing(f)' \subseteq Refreshing(f) \ {r}
            /\ \A q \in Refreshing(f)' : job'[q].token = job[q].token
        BY <1>2, ServerRefreshing, ServerJob DEF Refreshing
      <3>3. Refreshing(FamilyOf(h)) = Refreshing(f) /\ Refreshing(FamilyOf(h))' = Refreshing(f)'
        BY <1>1, <2>1
      <3> QED
        BY <3>1, <3>2, <3>3 DEF Retries
    <2>5. ASSUME f \notin signedOut
          PROVE  Going(h, 1, NoRequest)'
      <3>1. Going(h, 0, r)
        BY <1>1, <1>2, <1>4, <2>2, <2>5 DEF DeviceInv
      <3>2. CASE r \in Refreshing(f)
        BY <1>1, <1>2, <2>1, <3>1, <3>2, Missed
      <3>3. CASE r \notin Refreshing(f)
        <4>1. Going(h, 1, NoRequest)
          BY <3>1, GivenUp
        <4>2. r # NoRequest
          BY NoRequestAssumption
        <4> QED
          BY <1>1, <1>2, <2>1, <2>5, <4>1, <4>2, GoingStays
      <3> QED
        BY <3>2, <3>3
    <2> QED
      BY <1>1, <1>2, <2>1, <2>3, <2>4, <2>5 DEF DeviceInv
  <1> QED
    BY <1>3, <1>4

LEMMA ServerAnswers ==
  ASSUME OneAnswerAtMost, SessionInv, NEW r \in Requests, NEW e \in Devices, Answers(r, e)
  PROVE  SessionInv'
  <1>1. PICK f, n : f = FamilyOf(job[r].token) /\ n = NewId
    OBVIOUS
  <1>2. /\ ServerMoves(r) /\ Inv' /\ OnlyTheApp' /\ Extends /\ FromTheApp(r)
        /\ Typed /\ Apart /\ r # NoRequest /\ flight[e] = r /\ Waited(e)
        /\ leaving' = leaving /\ signedOut' = signedOut /\ outrun' = outrun
    BY ServedIsTheApps, OnlyTheAppStays, AfterTheAnswer, NoRequestAssumption
       DEF Answers, ServerMoves, SessionInv
  <1>3. /\ flight'[e] = NoRequest
        /\ unheard' \in [Devices -> 0 .. MaxUnheard]
        /\ held' \in [Devices -> {0} \cup DOMAIN tokens']
        /\ \/ held'[e] = 0
           \/ /\ Rotate(r) /\ held'[e] = n
              /\ Abandoned(e) # {} => unheard'[e] # 0
           \/ held'[e] = held[e] /\ unheard[e] = 0 /\ unheard'[e] = 1
    BY <1>1, AfterTheAnswer
  <1>4. ASSUME NEW d \in Devices, d # e
        PROVE  /\ flight'[d] = flight[d] /\ DeviceInv(d)'
               /\ Waited(d) => Presenting(flight[d])'
               /\ \A g : Uses(d, g)' => Uses(d, g)
    <2>1. held'[d] = held[d] /\ flight'[d] = flight[d] /\ unheard'[d] = unheard[d]
      BY <1>4, AfterTheAnswer
    <2>2. flight[d] # r
      <3>1. Uses(e, f)
        BY <1>1, <1>2 DEF Uses
      <3>2. flight[d] = r => Uses(d, f)
        BY <1>1, <1>2 DEF Uses, Waited
      <3> QED
        BY <1>2, <1>4, <3>1, <3>2 DEF Apart
    <2> QED
      BY <1>2, <2>1, <2>2, DeviceStays
  <1>5. DeviceInv(e)' /\ \A g : Uses(e, g)' => Uses(e, g)
    <2>1. CASE held'[e] = 0
      BY <1>3, <2>1 DEF DeviceInv, Leaves, Waited, Uses
    <2>2. CASE Rotate(r) /\ held'[e] = n /\ (Abandoned(e) # {} => unheard'[e] # 0)
      <3>1. DeviceInv(e)' /\ FamilyOf(n)' = f
        BY <1>1, <1>3, <2>2, StoredNew
      <3> QED
        BY <1>1, <1>2, <1>3, <2>2, <3>1 DEF FamilyOf, Uses, Waited
    <2>3. CASE held'[e] = held[e] /\ unheard[e] = 0 /\ unheard'[e] = 1
      <3>1. DeviceInv(e)'
        BY <1>3, <2>3, MissedIt
      <3>2. held[e] # 0 => FamilyOf(held[e])' = FamilyOf(held[e])
        BY <1>2, <2>3, FamiliesStay DEF FamilyOf
      <3> QED
        BY <1>3, <2>3, <3>1, <3>2 DEF Uses, Waited
    <2> QED
      BY <1>3, <2>1, <2>2, <2>3
  <1>6. Typed'
    <2>1. flight' \in [Devices -> Requests \cup {NoRequest}]
      BY <1>2 DEF Answers, Typed
    <2>2. \A d \in Devices : Waited(d)' => Presenting(flight[d])'
      BY <1>3, <1>4 DEF Waited
    <2>3. DOMAIN tokens \subseteq DOMAIN tokens'
      BY <1>2, FamiliesStay
    <2> QED
      BY <1>2, <1>3, <2>1, <2>2, <2>3 DEF Typed
  <1>7. Apart'
    BY <1>2, <1>4, <1>5 DEF Apart
  <1>8. \A d \in Devices : DeviceInv(d)'
    BY <1>4, <1>5
  <1> QED
    BY <1>2, <1>6, <1>7, <1>8 DEF SessionInv

-----------------------------------------------------------------------------
(* A device takes a step. *)

\* What the devices that take no step rely on, for the family f of one's token.
LEMMA DeviceUntouched ==
  ASSUME SessionInv, Extends, NEW d \in Devices, \A t \in DOMAIN tokens : SameRow(t),
         held'[d] = held[d], flight'[d] = flight[d], unheard'[d] = unheard[d],
         d \in leaving' <=> d \in leaving, outrun \subseteq outrun',
         NEW f,
         held[d] # 0 => /\ f = FamilyOf(held[d])
                        /\ f \in signedOut' <=> f \in signedOut
                        /\ f \in outrun' <=> f \in outrun
                        /\ Refreshing(f)' = Refreshing(f)
                        /\ \A q \in Refreshing(f) : job'[q] = job[q],
         Waited(d) => job'[flight[d]] = job[flight[d]]
  PROVE  /\ DeviceInv(d)'
         /\ Waited(d) => Presenting(flight[d])'
         /\ \A g : Uses(d, g)' => Uses(d, g)
  <1>1. PICK h, q, m : h = held[d] /\ q = flight[d] /\ m = unheard[d]
    OBVIOUS
  <1>2. held'[d] = h /\ flight'[d] = q /\ unheard'[d] = m /\ Inv /\ DeviceInv(d)
    BY <1>1 DEF SessionInv
  <1>3. /\ h # 0 => h \in DOMAIN tokens /\ f = FamilyOf(h)
        /\ q # NoRequest => q \in Requests /\ Presenting(q) /\ job[q].token \in DOMAIN tokens
    BY <1>1, TypedFacts DEF Waited
  <1>4. h # 0 => FamilyOf(h)' = f
    BY <1>3 DEF SameRow, FamilyOf
  <1>5. q # NoRequest => /\ Presenting(q)' /\ job'[q].token = job[q].token
                         /\ FamilyOf(job[q].token)' = FamilyOf(job[q].token)
    BY <1>1, <1>3 DEF SameRow, FamilyOf, Presenting, Busy, Waited
  <1>6. Leaves(d)'
    <2>1. /\ h # 0 => (f \in signedOut <=> d \in leaving \/ f \in outrun)
          /\ q # NoRequest => \/ h # 0 /\ FamilyOf(job[q].token) = f
                              \/ FamilyOf(job[q].token) \in outrun
      BY <1>1, <1>2, <1>3 DEF DeviceInv, Leaves, Waited
    <2> QED
      BY <1>2, <1>4, <1>5, <2>1 DEF Leaves, Waited
  <1>7. ASSUME h # 0
        PROVE  Retries(h, m, q)'
    <2>1. Retries(h, m, q)
      BY <1>1, <1>2, <1>7 DEF DeviceInv
    <2>2. FamilyOf(h)' = f /\ FamilyOf(h) = f
      BY <1>3, <1>4, <1>7
    <2>3. Refreshing(f)' = Refreshing(f) /\ \A p \in Refreshing(f) : job'[p] = job[p]
      BY <1>1, <1>7
    <2> QED
      BY <2>1, <2>2, <2>3 DEF Retries
  <1>8. ASSUME h # 0, f \notin signedOut
        PROVE  Going(h, m, q)'
    <2>1. Going(h, m, q)
      BY <1>1, <1>2, <1>3, <1>8 DEF DeviceInv
    <2>2. Refreshing(f)' = Refreshing(f) /\ \A p \in Refreshing(f) : job'[p] = job[p]
      BY <1>1, <1>8
    <2> QED
      BY <1>2, <1>3, <1>8, <2>1, <2>2, Untouched
  <1>9. \A g : Uses(d, g)' => Uses(d, g)
    BY <1>1, <1>2, <1>3, <1>4, <1>5 DEF Uses, Waited, FamilyOf
  <1> QED
    BY <1>1, <1>2, <1>3, <1>4, <1>5, <1>6, <1>7, <1>8, <1>9 DEF DeviceInv, Waited

\* What asking does to the requests.
LEMMA Asking ==
  ASSUME Inv, NEW r \in Requests, NEW op \in {"refresh", "logout"}, NEW u, NEW t \in DOMAIN tokens,
         ~Busy(r), Start(r, "asked", op, u, t), tokens' = tokens
  PROVE  /\ \A q \in Requests : q # r => job'[q] = job[q]
         /\ job'[r].pc = "asked" /\ job'[r].op = op /\ job'[r].token = t /\ FromTheApp(r)'
         /\ \A f : /\ r \notin Refreshing(f)
                   /\ Refreshing(f)' = IF op = "refresh" /\ f = FamilyOf(t) THEN Refreshing(f) \cup {r}
                                                                          ELSE Refreshing(f)
  <1>1. job \in [Requests -> Jobs \cup {Idle}]
    BY DEF Inv, ChainsStayInTheFamily, TypeOK
  <1>2. /\ \A q \in Requests : q # r => job'[q] = job[q]
        /\ job'[r].pc = "asked" /\ job'[r].op = op /\ job'[r].token = t
    BY <1>1 DEF Start
  <1>3. ASSUME NEW q \in Requests, q # r, NEW f
        PROVE  q \in Refreshing(f)' <=> q \in Refreshing(f)
    BY <1>2, <1>3 DEF Refreshing, Presenting, Busy, FamilyOf
  <1>4. \A f : r \notin Refreshing(f) /\ (r \in Refreshing(f)' <=> op = "refresh" /\ f = FamilyOf(t))
    BY <1>2 DEF Refreshing, Presenting, Busy, FamilyOf
  <1>5. FromTheApp(r)'
    BY <1>2 DEF FromTheApp, Busy
  <1>6. \A f : Refreshing(f) \subseteq Requests /\ Refreshing(f)' \subseteq Requests
    BY DEF Refreshing
  <1> QED
    BY <1>2, <1>3, <1>4, <1>5, <1>6

\* The table as it was.
LEMMA SameTable ==
  ASSUME Inv, tokens' = tokens
  PROVE  Extends /\ \A t \in DOMAIN tokens : SameRow(t)
  BY NothingWritten DEF Inv, ChainsStayInTheFamily, SameRow

LEMMA SendKeeps ==
  ASSUME SessionInv, NEW d \in Devices, NEW r \in Requests, SendRefresh(d, r)
  PROVE  SessionInv'
  <1>1. PICK h, f, m : h = held[d] /\ f = FamilyOf(h) /\ m = unheard[d]
    OBVIOUS
  <1>2. /\ h \in DOMAIN tokens /\ h # 0 /\ flight[d] = NoRequest /\ r # NoRequest
        /\ Inv /\ Typed /\ Apart /\ OnlyTheApp /\ DeviceInv(d)
    BY <1>1, TypedFacts, NoRequestAssumption DEF SendRefresh, SessionInv
  <1>3. /\ ~Busy(r) /\ AskRefresh(r, h)
        /\ tokens' = tokens /\ active' = active
        /\ Start(r, "asked", "refresh", tokens[h].owner, h)
        /\ held' = held /\ unheard' = unheard /\ leaving' = leaving
        /\ signedOut' = signedOut /\ outrun' = outrun
        /\ flight' = [flight EXCEPT ![d] = r]
    BY <1>1 DEF SendRefresh, AskRefresh
  <1>4. Inv' /\ Extends /\ \A t \in DOMAIN tokens : SameRow(t)
    BY <1>2, <1>3, NextInv, SameTable DEF Next, Ask
  <1>5. /\ \A q \in Requests : q # r => job'[q] = job[q]
        /\ job'[r].pc = "asked" /\ job'[r].op = "refresh" /\ job'[r].token = h /\ FromTheApp(r)'
        /\ \A g : /\ r \notin Refreshing(g)
                  /\ Refreshing(g)' = IF g = f THEN Refreshing(g) \cup {r} ELSE Refreshing(g)
    BY <1>1, <1>2, <1>3, Asking
  <1>6. FamilyOf(h)' = f
    BY <1>1, <1>3 DEF FamilyOf
  <1>7. flight'[d] = r /\ \A e \in Devices : e # d => flight'[e] = flight[e]
    BY <1>2, <1>3 DEF Typed
  <1>8. \A e \in Devices : Waited(e) => flight[e] # r /\ flight[e] \in Requests
    BY <1>3, TypedFacts DEF FromTheApp
  <1>9. ASSUME NEW e \in Devices, e # d
        PROVE  /\ DeviceInv(e)'
               /\ Waited(e) => Presenting(flight[e])'
               /\ \A g : Uses(e, g)' => Uses(e, g)
    <2>1. PICK g : g = FamilyOf(held[e])
      OBVIOUS
    <2>2. held[e] # 0 => Refreshing(g)' = Refreshing(g) /\ \A q \in Refreshing(g) : job'[q] = job[q]
      <3>1. held[e] # 0 => g # f
        BY <1>1, <1>2, <1>9, <2>1 DEF Apart, Uses
      <3> QED
        BY <1>5, <3>1 DEF Refreshing
    <2>3. Waited(e) => job'[flight[e]] = job[flight[e]]
      BY <1>5, <1>8
    <2> QED
      BY <1>3, <1>4, <1>7, <1>9, <2>1, <2>2, <2>3, DeviceUntouched
  <1>10. DeviceInv(d)'
    <2>1. held'[d] = h /\ unheard'[d] = m
      BY <1>1, <1>3
    <2>2. Abandoned(d) = Refreshing(f)
      BY <1>1, <1>2, AbandonedRefreshes, NoRequestAssumption DEF Refreshing
    <2>3. \A s \in Refreshing(f) : job[s].token = h
      BY <1>1, <2>2 DEF SendRefresh
    <2>4. /\ Refreshing(f)' \ {r} = Refreshing(f)
          /\ Refreshing(f) = Refreshing(f) \ {NoRequest}
          /\ \A q \in Refreshing(f) : job'[q] = job[q]
      BY <1>5, NoRequestAssumption DEF Refreshing
    <2>5. Retries(h, m, r)'
      <3>1. Retries(h, m, NoRequest)
        BY <1>1, <1>2 DEF DeviceInv
      <3> QED
        BY <1>1, <1>6, <2>3, <2>4, <3>1 DEF Retries
    <2>6. ASSUME f \notin signedOut
          PROVE  Going(h, m, r)'
      <3>1. Going(h, m, NoRequest)
        BY <1>1, <1>2, <2>6 DEF DeviceInv
      <3>2. OnTime(r, h)'
        BY <1>5 DEF OnTime
      <3>3. Usable(h)'
        BY <1>3, <3>1 DEF Going, Usable, Live
      <3>4. \A q \in Refreshing(f) : Late(q, h) => Late(q, h)'
        BY <1>3, <2>4 DEF Late
      <3> QED
        BY <1>1, <1>3, <1>6, <2>4, <3>1, <3>2, <3>3, <3>4 DEF Going
    <2>7. Leaves(d)'
      <3>1. f \in signedOut <=> d \in leaving \/ f \in outrun
        BY <1>1, <1>2 DEF DeviceInv, Leaves
      <3> QED
        BY <1>2, <1>3, <1>5, <1>6, <1>7, <2>1, <3>1 DEF Leaves, FamilyOf
    <2> QED
      BY <1>3, <1>6, <1>7, <2>1, <2>5, <2>6, <2>7 DEF DeviceInv
  <1>11. Typed'
    <2>1. \A e \in Devices : Waited(e)' => Presenting(flight[e])'
      BY <1>5, <1>7, <1>9 DEF Waited, Presenting, FromTheApp
    <2> QED
      BY <1>2, <1>3, <2>1 DEF Typed
  <1>12. OnlyTheApp'
    <2>1. ASSUME NEW q \in Requests, q # r, Busy(q)'
          PROVE  /\ FromTheApp(q)'
                 /\ job'[q].op = "logout" => FamilyOf(job[q].token)' \in signedOut'
      <3>1. job'[q] = job[q]
        BY <1>5, <2>1
      <3> QED
        BY <1>2, <1>3, <2>1, <3>1 DEF OnlyTheApp, FromTheApp, Busy, FamilyOf
    <2> QED
      BY <1>5, <2>1 DEF OnlyTheApp
  <1>13. Apart'
    <2>1. Uses(d, f) /\ \A g : Uses(d, g)' => g = f
      BY <1>1, <1>2, <1>3, <1>5, <1>6, <1>7 DEF FamilyOf, Uses, Waited
    <2> QED
      BY <1>2, <1>9, <2>1 DEF Apart
  <1> QED
    BY <1>4, <1>9, <1>10, <1>11, <1>12, <1>13 DEF SessionInv

LEMMA SignInKeeps ==
  ASSUME OneAnswerAtMost, SessionInv, NEW d \in Devices, NEW u \in Accounts, SignIn(d, u)
  PROVE  SessionInv'
  <1>1. PICK n : n = NewId
    OBVIOUS
  <1>2. /\ Inv /\ Typed /\ Apart /\ OnlyTheApp /\ DeviceInv(d) /\ TypeOK
        /\ held[d] = 0 /\ d \notin leaving
    BY DEF SignIn, SessionInv, Inv, ChainsStayInTheFamily
  <1>3. /\ job' = job /\ active' = active /\ flight' = flight /\ leaving' = leaving
        /\ signedOut' = signedOut /\ outrun' = outrun
        /\ held' = [held EXCEPT ![d] = n] /\ unheard' = [unheard EXCEPT ![d] = 0]
    BY <1>1 DEF SignIn
  <1>4. /\ tokens' \in Seq(TokenRows)
        /\ Len(tokens') = n /\ n \in DOMAIN tokens' /\ tokens'[n] = Row(u, n)
        /\ \A t \in DOMAIN tokens : tokens'[t] = tokens[t]
        /\ n \notin DOMAIN tokens /\ n # 0
    <2>1. n \in Nat /\ Row(u, n) \in TokenRows
      BY <1>1, <1>2, NewRow DEF NewId, TypeOK
    <2>2. tokens' = Append(tokens, Row(u, n)) /\ tokens \in Seq(TokenRows)
      BY <1>1, <1>2 DEF SignIn, TypeOK
    <2>3. n \notin DOMAIN tokens /\ n # 0
      BY <1>1, <1>2 DEF NewId, TypeOK
    <2> QED
      BY <1>1, <2>1, <2>2, <2>3, Appended
  <1>5. tokens'[n].next = 0 /\ tokens'[n].family = n /\ ~tokens'[n].revoked
    BY <1>4 DEF Row
  <1>6. /\ Extends /\ \A t \in DOMAIN tokens : SameRow(t)
        /\ DOMAIN tokens \subseteq DOMAIN tokens'
    <2>1. Extends
      BY <1>1, <1>4, <1>5 DEF Extends
    <2> QED
      BY <1>2, <1>4, <2>1, RowsStay DEF SameRow
  <1>7. Inv'
    BY <1>2, <1>3, <1>6, NoJobKeeps DEF TypeOK
  <1>8. \A q \in Requests : FromTheApp(q) =>
          /\ job[q].token \in DOMAIN tokens
          /\ FamilyOf(job[q].token) = tokens'[job[q].token].family
          /\ FamilyOf(job[q].token) \in DOMAIN tokens
    BY <1>2, <1>6, FamiliesStay, RowFacts DEF TypeOK, FromTheApp
  <1>9. \A g : Refreshing(g)' = Refreshing(g)
    BY <1>3, <1>8 DEF Refreshing, Presenting, FromTheApp, Busy, FamilyOf
  <1>10. Refreshing(n) = {}
    BY <1>4, <1>8 DEF Refreshing, Presenting, FromTheApp
  <1>11. /\ held'[d] = n /\ unheard'[d] = 0
         /\ \A e \in Devices : e # d => held'[e] = held[e] /\ unheard'[e] = unheard[e]
    BY <1>2, <1>3 DEF Typed
  <1>12. ASSUME NEW e \in Devices, e # d
         PROVE  /\ DeviceInv(e)'
                /\ Waited(e) => Presenting(flight[e])'
                /\ \A g : Uses(e, g)' => Uses(e, g)
    <2>1. PICK g : g = FamilyOf(held[e])
      OBVIOUS
    <2> QED
      BY <1>3, <1>6, <1>9, <1>11, <1>12, <2>1, DeviceUntouched
  <1>13. Waited(d) => /\ Presenting(flight[d])' /\ FromTheApp(flight[d])
                      /\ FamilyOf(job[flight[d]].token)' = FamilyOf(job[flight[d]].token)
    BY <1>3, <1>8, TypedFacts DEF Presenting, Busy, FamilyOf
  <1>14. DeviceInv(d)'
    <2>1. PICK q : q = flight[d]
      OBVIOUS
    <2>2. FamilyOf(n)' = n /\ Refreshing(n)' = {} /\ Usable(n)' /\ n \notin signedOut
      BY <1>2, <1>4, <1>5, <1>9, <1>10 DEF FamilyOf, Usable, Typed
    <2>3. Going(n, 0, q)' /\ Retries(n, 0, q)'
      BY <1>5, <2>2 DEF Going, Retries
    <2>4. Waited(d) => FamilyOf(job[flight[d]].token) \in outrun
      BY <1>2 DEF DeviceInv, Leaves
    <2>5. Leaves(d)'
      BY <1>2, <1>3, <1>11, <1>13, <2>2, <2>4 DEF Leaves, Waited, FamilyOf, Typed
    <2> QED
      BY <1>3, <1>11, <2>1, <2>3, <2>5 DEF DeviceInv
  <1>15. Typed'
    <2>1. /\ held' \in [Devices -> {0} \cup DOMAIN tokens']
          /\ unheard' \in [Devices -> 0 .. MaxUnheard]
      BY <1>2, <1>3, <1>4, <1>6 DEF Typed, OneAnswerAtMost
    <2>2. \A e \in Devices : Waited(e)' => Presenting(flight[e])'
      BY <1>3, <1>12, <1>13 DEF Waited
    <2> QED
      BY <1>2, <1>3, <1>6, <2>1, <2>2 DEF Typed
  <1>16. OnlyTheApp'
    BY <1>2, <1>3, <1>8 DEF OnlyTheApp, FromTheApp, Busy, FamilyOf
  <1>17. Apart'
    <2>1. \A g : Uses(d, g)' => g = n \/ Uses(d, g)
      BY <1>3, <1>5, <1>11, <1>13 DEF Uses, Waited, FamilyOf
    <2>2. ASSUME NEW e \in Devices
          PROVE  ~Uses(e, n)
      <3>1. held[e] # 0 => FamilyOf(held[e]) \in DOMAIN tokens
        BY <1>2, TypedFacts, RowFacts
      <3>2. Waited(e) => FamilyOf(job[flight[e]].token) \in DOMAIN tokens
        BY <1>8, TypedFacts
      <3> QED
        BY <1>4, <3>1, <3>2 DEF Uses
    <2> QED
      BY <1>2, <1>12, <2>1, <2>2 DEF Apart
  <1> QED
    BY <1>7, <1>12, <1>14, <1>15, <1>16, <1>17 DEF SessionInv

LEMMA TimeOutKeeps ==
  ASSUME OneAnswerAtMost, SessionInv, NEW d \in Devices, TimeOut(d)
  PROVE  SessionInv'
  <1>1. PICK h, q, f : h = held[d] /\ q = flight[d] /\ f = FamilyOf(h)
    OBVIOUS
  <1>2. Inv /\ Typed /\ Apart /\ OnlyTheApp /\ DeviceInv(d) /\ TypeOK /\ active \subseteq Accounts
    BY DEF SessionInv, Inv, ChainsStayInTheFamily, TypeOK
  <1>3. /\ tokens' = tokens /\ job' = job /\ active' = active
        /\ held' = held /\ leaving' = leaving /\ signedOut' = signedOut /\ outrun' = outrun
        /\ flight' = [flight EXCEPT ![d] = NoRequest]
        /\ unheard[d] < MaxUnheard /\ unheard' = [unheard EXCEPT ![d] = @ + 1]
    BY DEF TimeOut, Miss
  <1>4. Extends /\ (\A t \in DOMAIN tokens : SameRow(t)) /\ Inv'
    BY <1>2, <1>3, SameTable, NoJobKeeps
  <1>5. /\ unheard[d] = 0 /\ unheard'[d] = 1 /\ flight'[d] = NoRequest
        /\ \A e \in Devices : e # d => flight'[e] = flight[e] /\ unheard'[e] = unheard[e]
        /\ unheard' \in [Devices -> 0 .. MaxUnheard]
        /\ flight' \in [Devices -> Requests \cup {NoRequest}]
    <2>1. /\ unheard \in [Devices -> 0 .. MaxUnheard]
          /\ flight \in [Devices -> Requests \cup {NoRequest}]
      BY <1>2 DEF Typed
    <2>2. unheard[d] = 0 /\ 1 \in 0 .. MaxUnheard
      BY <1>3, <2>1 DEF OneAnswerAtMost
    <2>3. unheard' = [unheard EXCEPT ![d] = 1]
      BY <1>3, <2>2
    <2> QED
      BY <1>3, <2>1, <2>2, <2>3
  <1>6. \A g : Refreshing(g)' = Refreshing(g)
    BY <1>3 DEF Refreshing, Presenting, Busy, FamilyOf
  <1>7. ASSUME NEW e \in Devices, e # d
        PROVE  /\ DeviceInv(e)'
               /\ Waited(e) => Presenting(flight[e])'
               /\ \A g : Uses(e, g)' => Uses(e, g)
    <2>1. PICK g : g = FamilyOf(held[e])
      OBVIOUS
    <2> QED
      BY <1>3, <1>4, <1>5, <1>6, <1>7, <2>1, DeviceUntouched
  <1>8. FamilyOf(h)' = f
    BY <1>1, <1>3 DEF FamilyOf
  <1>9. DeviceInv(d)'
    <2>1. held'[d] = h /\ flight'[d] = NoRequest /\ unheard'[d] = 1
      BY <1>1, <1>3, <1>5
    <2>2. Leaves(d)'
      <3>1. h # 0 => (f \in signedOut <=> d \in leaving \/ f \in outrun)
        BY <1>1, <1>2 DEF DeviceInv, Leaves
      <3> QED
        BY <1>3, <1>8, <2>1, <3>1 DEF Leaves, Waited
    <2>3. ASSUME h # 0
          PROVE  Retries(h, 1, NoRequest)'
      <3>1. Retries(h, 0, q)
        BY <1>1, <1>2, <1>5, <2>3 DEF DeviceInv
      <3>2. Refreshing(f)' = Refreshing(f) /\ \A r \in Refreshing(f) : job'[r].token = job[r].token
        BY <1>3, <1>6
      <3>3. \A r \in Refreshing(f) : job[r].token = h => r = q
        BY <1>1, <3>1 DEF Retries
      <3> QED
        BY <1>1, <1>8, <3>2, <3>3 DEF Retries
    <2>4. ASSUME h # 0, f \notin signedOut
          PROVE  Going(h, 1, NoRequest)'
      <3>1. Going(h, 1, NoRequest)
        BY <1>1, <1>2, <1>5, <2>4, GivenUp DEF DeviceInv
      <3>2. h \in DOMAIN tokens /\ Refreshing(f)' = Refreshing(f)
            /\ \A r \in Refreshing(f) : job'[r] = job[r]
        BY <1>1, <1>3, <1>6, <2>4, TypedFacts
      <3> QED
        BY <1>1, <1>2, <1>4, <3>1, <3>2, Untouched
    <2> QED
      BY <1>3, <1>8, <2>1, <2>2, <2>3, <2>4 DEF DeviceInv
  <1>10. Typed'
    <2>1. \A e \in Devices : Waited(e)' => Presenting(flight[e])'
      BY <1>5, <1>7 DEF Waited
    <2> QED
      BY <1>2, <1>3, <1>5, <2>1 DEF Typed
  <1>11. OnlyTheApp'
    BY <1>2, <1>3 DEF OnlyTheApp, FromTheApp, Busy, FamilyOf
  <1>12. Apart'
    <2>1. \A g : Uses(d, g)' => Uses(d, g)
      BY <1>3, <1>5 DEF Uses, Waited, FamilyOf
    <2> QED
      BY <1>2, <1>7, <2>1 DEF Apart
  <1> QED
    BY <1>4, <1>7, <1>9, <1>10, <1>11, <1>12 DEF SessionInv

\* The token goes from the store, whatever is under way.
LEMMA EndSignOutKeeps ==
  ASSUME SessionInv, NEW d \in Devices, EndSignOut(d)
  PROVE  SessionInv'
  <1>1. PICK f : f = FamilyOf(held[d])
    OBVIOUS
  <1>2. Inv /\ Typed /\ Apart /\ OnlyTheApp /\ DeviceInv(d) /\ TypeOK /\ active \subseteq Accounts
    BY DEF SessionInv, Inv, ChainsStayInTheFamily, TypeOK
  <1>3. /\ tokens' = tokens /\ job' = job /\ active' = active
        /\ flight' = flight /\ unheard' = unheard /\ signedOut' = signedOut
        /\ d \in leaving /\ leaving' = leaving \ {d}
        /\ held' = [held EXCEPT ![d] = 0]
        /\ outrun' = outrun \cup (IF held[d] # 0 /\ Waited(d) THEN {f} ELSE {})
    BY <1>1 DEF EndSignOut, Waited
  <1>4. Extends /\ (\A t \in DOMAIN tokens : SameRow(t)) /\ Inv'
    BY <1>2, <1>3, SameTable, NoJobKeeps
  <1>5. held'[d] = 0 /\ \A e \in Devices : e # d => held'[e] = held[e]
    BY <1>2, <1>3 DEF Typed
  <1>6. \A g : Refreshing(g)' = Refreshing(g)
    BY <1>3 DEF Refreshing, Presenting, Busy, FamilyOf
  <1>7. held[d] # 0 => f \in signedOut
    BY <1>1, <1>2, <1>3 DEF DeviceInv, Leaves
  <1>8. ASSUME NEW e \in Devices, e # d
        PROVE  /\ DeviceInv(e)'
               /\ Waited(e) => Presenting(flight[e])'
               /\ \A g : Uses(e, g)' => Uses(e, g)
    <2>1. PICK g : g = FamilyOf(held[e])
      OBVIOUS
    <2>2. held[e] # 0 => (g \in outrun' <=> g \in outrun)
      BY <1>1, <1>2, <1>3, <1>8, <2>1 DEF Apart, Uses
    <2> QED
      BY <1>3, <1>4, <1>5, <1>6, <1>8, <2>1, <2>2, DeviceUntouched
  <1>9. Waited(d) => FamilyOf(job[flight[d]].token)' \in outrun'
    BY <1>1, <1>2, <1>3 DEF DeviceInv, Leaves, FamilyOf
  <1>10. DeviceInv(d)'
    BY <1>3, <1>5, <1>9 DEF DeviceInv, Leaves, Waited
  <1>11. Typed'
    <2>1. held' \in [Devices -> {0} \cup DOMAIN tokens']
      BY <1>2, <1>3 DEF Typed
    <2>2. outrun' \subseteq signedOut' /\ leaving' \subseteq Devices
      BY <1>2, <1>3, <1>7 DEF Typed
    <2>3. \A e \in Devices : Waited(e)' => Presenting(flight[e])'
      BY <1>2, <1>3 DEF Typed, Waited, Presenting, Busy
    <2> QED
      BY <1>2, <1>3, <2>1, <2>2, <2>3 DEF Typed
  <1>12. OnlyTheApp'
    BY <1>2, <1>3 DEF OnlyTheApp, FromTheApp, Busy, FamilyOf
  <1>13. Apart'
    <2>1. \A g : Uses(d, g)' => Uses(d, g)
      BY <1>3, <1>5 DEF Uses, Waited, FamilyOf
    <2> QED
      BY <1>2, <1>8, <2>1 DEF Apart
  <1> QED
    BY <1>4, <1>8, <1>10, <1>11, <1>12, <1>13 DEF SessionInv

\* The logout that signing out asks for, if it gets through.
LEMMA LogoutAsked ==
  ASSUME SessionInv, NEW h \in DOMAIN tokens, NEW f, f = FamilyOf(h),
         (\E r \in Requests : AskLogout(r, tokens[h].owner, h)) \/ UNCHANGED <<active, tokens, job>>
  PROVE  /\ tokens' = tokens /\ Inv'
         /\ \A q \in Requests : FromTheApp(q) => job'[q] = job[q]
         /\ \A q \in Requests : Busy(q)' =>
              \/ job'[q] = job[q]
              \/ FromTheApp(q)' /\ FamilyOf(job[q].token)' = f
         /\ \A g : Refreshing(g)' = Refreshing(g)
  <1>1. Inv /\ TypeOK /\ active \subseteq Accounts
    BY DEF SessionInv, Inv, ChainsStayInTheFamily, TypeOK
  <1>2. CASE UNCHANGED <<active, tokens, job>>
    <2>1. Inv'
      BY <1>1, <1>2, SameTable, NoJobKeeps
    <2> QED
      BY <1>2, <2>1 DEF Refreshing, Presenting, Busy, FamilyOf
  <1>3. ASSUME NEW r \in Requests, AskLogout(r, tokens[h].owner, h)
        PROVE  /\ tokens' = tokens /\ Inv'
               /\ \A q \in Requests : FromTheApp(q) => job'[q] = job[q]
               /\ \A q \in Requests : Busy(q)' =>
                    \/ job'[q] = job[q]
                    \/ FromTheApp(q)' /\ FamilyOf(job[q].token)' = f
               /\ \A g : Refreshing(g)' = Refreshing(g)
    <2>1. /\ ~Busy(r) /\ tokens' = tokens
          /\ Start(r, "asked", "logout", tokens[h].owner, h)
      BY <1>3 DEF AskLogout
    <2>2. tokens[h].owner \in Accounts
      BY <1>1, RowTyped
    <2>3. Inv'
      BY <1>1, <1>3, <2>2, NextInv DEF Next, Ask
    <2>4. /\ \A q \in Requests : q # r => job'[q] = job[q]
          /\ job'[r].token = h /\ FromTheApp(r)'
          /\ \A g : Refreshing(g)' = Refreshing(g)
      BY <1>1, <2>1, Asking
    <2>5. FamilyOf(job[r].token)' = f
      BY <2>1, <2>4 DEF FamilyOf
    <2> QED
      BY <2>1, <2>3, <2>4, <2>5 DEF FromTheApp
  <1> QED
    BY <1>2, <1>3

LEMMA BeginSignOutKeeps ==
  ASSUME SessionInv, NEW d \in Devices, BeginSignOut(d)
  PROVE  SessionInv'
  <1>1. PICK h, f : h = held[d] /\ f = FamilyOf(h)
    OBVIOUS
  <1>2. /\ Inv /\ Typed /\ Apart /\ OnlyTheApp /\ DeviceInv(d)
        /\ h # 0 /\ h \in DOMAIN tokens /\ f \in DOMAIN tokens /\ d \notin leaving
    BY <1>1, TypedFacts, RowFacts DEF SessionInv, BeginSignOut
  <1>3. /\ held' = held /\ flight' = flight /\ unheard' = unheard /\ outrun' = outrun
        /\ leaving' = leaving \cup {d} /\ signedOut' = signedOut \cup {f}
        /\ (\E r \in Requests : AskLogout(r, tokens[h].owner, h)) \/ UNCHANGED <<active, tokens, job>>
    BY <1>1 DEF BeginSignOut
  <1>4. /\ tokens' = tokens /\ Inv'
        /\ \A q \in Requests : FromTheApp(q) => job'[q] = job[q]
        /\ \A q \in Requests : Busy(q)' =>
             \/ job'[q] = job[q]
             \/ FromTheApp(q)' /\ FamilyOf(job[q].token)' = f
        /\ \A g : Refreshing(g)' = Refreshing(g)
    BY <1>1, <1>2, <1>3, LogoutAsked
  <1>5. Extends /\ \A t \in DOMAIN tokens : SameRow(t)
    BY <1>2, <1>4, SameTable
  <1>6. /\ \A e \in Devices : Waited(e) => job'[flight[e]] = job[flight[e]]
        /\ \A g : \A q \in Refreshing(g) : job'[q] = job[q]
    BY <1>4, TypedFacts DEF Refreshing, Presenting, FromTheApp
  <1>7. ASSUME NEW e \in Devices, e # d
        PROVE  /\ DeviceInv(e)'
               /\ Waited(e) => Presenting(flight[e])'
               /\ \A g : Uses(e, g)' => Uses(e, g)
    <2>1. PICK g : g = FamilyOf(held[e])
      OBVIOUS
    <2>2. held[e] # 0 => (g \in signedOut' <=> g \in signedOut)
      BY <1>1, <1>2, <1>3, <1>7, <2>1 DEF Apart, Uses
    <2> QED
      BY <1>3, <1>4, <1>5, <1>6, <1>7, <2>1, <2>2, DeviceUntouched
  <1>8. FamilyOf(h)' = f
    BY <1>1, <1>4 DEF FamilyOf
  <1>9. Waited(d) => /\ Presenting(flight[d])'
                     /\ FamilyOf(job[flight[d]].token)' = FamilyOf(job[flight[d]].token)
    BY <1>3, <1>4, <1>6, TypedFacts DEF Presenting, Busy, FamilyOf
  <1>10. DeviceInv(d)'
    <2>1. Leaves(d)'
      BY <1>1, <1>2, <1>3, <1>8, <1>9 DEF DeviceInv, Leaves, Waited
    <2>2. PICK m, q : m = unheard[d] /\ q = flight[d]
      OBVIOUS
    <2>3. Retries(h, m, q)'
      <3>1. Retries(h, m, q)
        BY <1>1, <1>2, <2>2 DEF DeviceInv
      <3>2. Refreshing(f)' = Refreshing(f) /\ \A r \in Refreshing(f) : job'[r] = job[r]
        BY <1>4, <1>6
      <3> QED
        BY <1>1, <1>8, <3>1, <3>2 DEF Retries
    <2> QED
      BY <1>1, <1>3, <1>8, <2>1, <2>2, <2>3 DEF DeviceInv
  <1>11. Typed'
    <2>1. \A e \in Devices : Waited(e)' => Presenting(flight[e])'
      BY <1>3, <1>7, <1>9 DEF Waited
    <2> QED
      BY <1>2, <1>3, <1>4, <2>1 DEF Typed
  <1>12. OnlyTheApp'
    <2>1. ASSUME NEW q \in Requests, Busy(q)'
          PROVE  /\ FromTheApp(q)'
                 /\ job'[q].op = "logout" => FamilyOf(job[q].token)' \in signedOut'
      <3>1. CASE job'[q] = job[q]
        BY <1>2, <1>3, <1>4, <2>1, <3>1 DEF OnlyTheApp, FromTheApp, Busy, FamilyOf
      <3>2. CASE FromTheApp(q)' /\ FamilyOf(job[q].token)' = f
        BY <1>3, <3>2
      <3> QED
        BY <1>4, <2>1, <3>1, <3>2
    <2> QED
      BY <2>1 DEF OnlyTheApp
  <1>13. Apart'
    <2>1. \A g : Uses(d, g)' => Uses(d, g)
      BY <1>1, <1>3, <1>8, <1>9 DEF Uses, Waited
    <2> QED
      BY <1>2, <1>7, <2>1 DEF Apart
  <1> QED
    BY <1>4, <1>7, <1>10, <1>11, <1>12, <1>13 DEF SessionInv

-----------------------------------------------------------------------------
LEMMA ServerStepKeeps ==
  ASSUME OneAnswerAtMost, SessionInv, NEW r \in Requests, ServerStep(r)
  PROVE  SessionInv'
  <1>1. ServerMoves(r)
    BY DEF ServerStep, ServerMoves
  <1>2. CASE job'[r] = Idle /\ WaitsFor(r) # {}
    <2>1. PICK e \in WaitsFor(r) :
            /\ flight' = [flight EXCEPT ![e] = NoRequest]
            /\ Hear(e, Len(tokens') > Len(tokens)) \/ Miss(e)
      BY <1>2 DEF ServerStep
    <2>2. e \in Devices /\ Answers(r, e)
      BY <1>1, <1>2, <2>1 DEF WaitsFor, Answers
    <2> QED
      BY <2>2, ServerAnswers
  <1>3. CASE ~(job'[r] = Idle /\ WaitsFor(r) # {})
    <2>1. UNCHANGED <<held, flight, unheard>>
      BY <1>3 DEF ServerStep
    <2>2. \A d \in Devices : flight[d] = r => job'[r] # Idle
      BY <1>3 DEF WaitsFor
    <2> QED
      BY <1>1, <2>1, <2>2, ServerQuiet
  <1> QED
    BY <1>2, <1>3

LEMMA SessionInitInv ==
  ASSUME OneAnswerAtMost, SessionInit
  PROVE  SessionInv
  <1>1. Inv /\ tokens = <<>>
    BY InitInv DEF SessionInit, Init
  <1>2. /\ \A d \in Devices : held[d] = 0 /\ ~Waited(d)
        /\ \A r \in Requests : ~Busy(r)
    BY DEF SessionInit, Init, Waited, Busy, Idle
  <1>3. Typed
    BY <1>2 DEF SessionInit, Typed, OneAnswerAtMost
  <1> QED
    BY <1>1, <1>2, <1>3 DEF SessionInv, OnlyTheApp, Apart, Uses, DeviceInv, Leaves

LEMMA SessionNextInv ==
  ASSUME OneAnswerAtMost, SessionInv, [SessionNext]_allVars
  PROVE  SessionInv'
  <1>1. ASSUME NEW r \in Requests, ServerStep(r)
        PROVE  SessionInv'
    BY <1>1, ServerStepKeeps
  <1>2. ASSUME NEW d \in Devices, NEW u \in Accounts, SignIn(d, u)
        PROVE  SessionInv'
    BY <1>2, SignInKeeps
  <1>3. ASSUME NEW d \in Devices, NEW r \in Requests, SendRefresh(d, r)
        PROVE  SessionInv'
    BY <1>3, SendKeeps
  <1>4. ASSUME NEW d \in Devices, TimeOut(d) \/ BeginSignOut(d) \/ EndSignOut(d)
        PROVE  SessionInv'
    BY <1>4, TimeOutKeeps, BeginSignOutKeeps, EndSignOutKeeps
  <1>5. CASE UNCHANGED allVars
    <2>1. /\ tokens' = tokens /\ job' = job /\ active' = active /\ held' = held /\ flight' = flight
          /\ leaving' = leaving /\ unheard' = unheard /\ signedOut' = signedOut /\ outrun' = outrun
      BY <1>5 DEF allVars
    <2>2. Inv' /\ Extends /\ \A t \in DOMAIN tokens : SameRow(t)
      BY <2>1, SameTable, NoJobKeeps DEF SessionInv, Inv, ChainsStayInTheFamily, TypeOK
    <2>3. \A g : Refreshing(g)' = Refreshing(g)
      BY <2>1 DEF Refreshing, Presenting, Busy, FamilyOf
    <2>4. ASSUME NEW d \in Devices
          PROVE  DeviceInv(d)' /\ (Waited(d) => Presenting(flight[d])') /\ \A g : Uses(d, g)' => Uses(d, g)
      <3>1. PICK g : g = FamilyOf(held[d])
        OBVIOUS
      <3> QED
        BY <2>1, <2>2, <2>3, <3>1, DeviceUntouched
    <2>5. Typed' /\ Apart'
      BY <2>1, <2>4 DEF SessionInv, Typed, Apart, Waited
    <2>6. OnlyTheApp'
      BY <2>1 DEF SessionInv, OnlyTheApp, FromTheApp, Busy, FamilyOf
    <2> QED
      BY <2>2, <2>4, <2>5, <2>6 DEF SessionInv
  <1> QED
    BY <1>1, <1>2, <1>3, <1>4, <1>5 DEF SessionNext

\* A device that misses no two answers in a row: its session, the other
\* devices' and the server's tokens, whatever is lost, late or times out.
THEOREM SessionInvariant ==
  ASSUME OneAnswerAtMost
  PROVE  SessionSpec => []SessionInv
  BY SessionInitInv, SessionNextInv, PTL DEF SessionSpec

\* The token in the store works until the user signs out, and comes back only
\* to a store that was cleared while a refresh was under way (_doRefreshInner,
\* signOut): on any number of devices, of accounts and of requests under way.
THEOREM SessionsSurvive ==
  ASSUME OneAnswerAtMost
  PROVE  SessionSpec => []SessionSurvives
  <1>1. ASSUME SessionInv
        PROVE  SessionSurvives
    <2>1. Typed /\ Apart
      BY <1>1 DEF SessionInv
    <2>2. ASSUME NEW d \in Devices, Waited(d)
          PROVE  /\ Busy(flight[d]) /\ job[flight[d]].op = "refresh"
                 /\ WaitsFor(flight[d]) = {d}
      <3>1. Presenting(flight[d])
        BY <2>1, <2>2 DEF Typed
      <3>2. ASSUME NEW e \in Devices, flight[e] = flight[d]
            PROVE  e = d
        <4>1. PICK f : f = FamilyOf(job[flight[d]].token)
          OBVIOUS
        <4>2. Uses(d, f) /\ Uses(e, f)
          BY <2>2, <3>2, <4>1 DEF Uses, Waited
        <4> QED
          BY <2>1, <4>2 DEF Apart
      <3> QED
        BY <3>1, <3>2 DEF Presenting, WaitsFor
    <2>3. SessionTypeOK
      BY <2>1, <2>2 DEF Typed, SessionTypeOK, Waited
    <2>4. ASSUME NEW d \in Devices, held[d] # 0
          PROVE  IF FamilyOf(held[d]) \in signedOut
                   THEN d \in leaving \/ FamilyOf(held[d]) \in outrun
                   ELSE Usable(held[d])
      BY <1>1, <2>4 DEF SessionInv, DeviceInv, Leaves, Going
    <2> QED
      BY <2>3, <2>4 DEF SessionSurvives
  <1> QED
    BY <1>1, SessionInvariant, PTL
=============================================================================
