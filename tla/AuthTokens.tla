----------------------------- MODULE AuthTokens -----------------------------
(***************************************************************************)
(* The refresh tokens of the backend: sign-in opens a family, every        *)
(* refresh rotates (a new row of the family, the old row points to it),    *)
(* a replayed token ends its family, and logout, a password change or a    *)
(* switch of organization end families on purpose.                         *)
(*                                                                         *)
(* No row is locked when it is read.  A request therefore decides on what  *)
(* it read, other requests commit, and then it writes: a rotation is one   *)
(* INSERT and one UPDATE by primary key, a revocation one UPDATE of the    *)
(* rows its statement saw unrevoked when it started.  A write becomes      *)
(* visible with its commit.                                                *)
(*                                                                         *)
(* What an access token says (the organization it is for) is not this      *)
(* module's subject, and everybody may switch.                             *)
(***************************************************************************)
EXTENDS Naturals, Sequences, FiniteSets

CONSTANTS
  Accounts,    \* registered accounts
  Requests,    \* requests that may be in flight at the same time
  MaxTokens    \* bound: token rows ever inserted

VARIABLES
  active,  \* accounts whose account_status is 'active'
  tokens,  \* authentication_tokens in the order of token_id; a family_id is
           \* the id of the row that opened it, 0 is NULL
  job      \* the requests in flight

vars == <<active, tokens, job>>

-----------------------------------------------------------------------------
Row(owner, family) ==
  [owner |-> owner, family |-> family, next |-> 0, revoked |-> FALSE]

NewId == Len(tokens) + 1

FamilyOf(t) == tokens[t].family
Family(f) == {t \in DOMAIN tokens : FamilyOf(t) = f}
Live(t) == tokens[t].next = 0 /\ ~tokens[t].revoked

Idle == [pc |-> "idle"]

Busy(r) == job[r].pc # "idle"
At(r, pc, ops) == job[r].pc = pc /\ job[r].op \in ops

\* What the caller asked for: an account of his own (a refresh has only the
\* token) and the token presented.
Start(r, pc, op, account, token) ==
  job' = [job EXCEPT ![r] =
            [pc |-> pc, op |-> op, account |-> account, token |-> token,
             target |-> 0, ended |-> {}]]

Goto(r, pc, target, ended) ==
  job' = [job EXCEPT ![r] =
            [pc |-> pc, op |-> @.op, account |-> @.account, token |-> @.token,
             target |-> target, ended |-> ended]]

Finish(r) == job' = [job EXCEPT ![r] = Idle]

Init ==
  /\ active = Accounts
  /\ tokens = <<>>
  /\ job = [r \in Requests |-> Idle]

-----------------------------------------------------------------------------
(* What callers ask. The endpoints with a bearer token look at the account *)
(* first (get_current_user), login after it has checked the password. An   *)
(* access token may still be good when its refresh token is revoked.       *)

Authenticated(u) == u \in active /\ \E t \in DOMAIN tokens : tokens[t].owner = u

AskLogin(r, u) ==
  /\ ~Busy(r)
  /\ u \in active
  /\ Start(r, "issuing", "login", u, 0)
  /\ UNCHANGED <<active, tokens>>

AskRefresh(r, t) ==
  /\ ~Busy(r)
  /\ t \in DOMAIN tokens
  /\ Start(r, "asked", "refresh", tokens[t].owner, t)
  /\ UNCHANGED <<active, tokens>>

AskLogout(r, u, t) ==
  /\ ~Busy(r)
  /\ Authenticated(u)
  /\ t \in DOMAIN tokens
  /\ Start(r, "asked", "logout", u, t)
  /\ UNCHANGED <<active, tokens>>

AskChangePassword(r, u) ==
  /\ ~Busy(r)
  /\ Authenticated(u)
  /\ Start(r, "ending", "change_password", u, 0)
  /\ UNCHANGED <<active, tokens>>

AskSwitch(r, u) ==
  /\ ~Busy(r)
  /\ Authenticated(u)
  /\ Start(r, "ending", "switch", u, 0)
  /\ UNCHANGED <<active, tokens>>

-----------------------------------------------------------------------------
(* refresh *)

\* Mutant: a revoked token is not recognised.
ReadTokenUnrevoked(r) ==
  LET row == tokens[job[r].token] IN
  /\ At(r, "asked", {"refresh"})
  /\ IF row.next # 0 THEN Goto(r, "retry", row.next, {})
                     ELSE Goto(r, "fresh", job[r].token, {})
  /\ UNCHANGED <<active, tokens>>

\* The presented row: revoked is refused; replaced before means a retry or
\* a replay; otherwise it is the token to rotate.
ReadToken(r) ==
  LET row == tokens[job[r].token] IN
  /\ At(r, "asked", {"refresh"})
  /\ CASE row.revoked                    -> Finish(r)
       [] ~row.revoked /\ row.next # 0   -> Goto(r, "retry", row.next, {})
       [] ~row.revoked /\ row.next = 0   -> Goto(r, "fresh", job[r].token, {})
  /\ UNCHANGED <<active, tokens>>

CheckAccount(r) ==
  /\ At(r, "fresh", {"refresh"})
  /\ IF job[r].account \in active THEN Goto(r, "rotating", job[r].target, {})
                                  ELSE Finish(r)
  /\ UNCHANGED <<active, tokens>>

\* Mutant: every second use of a token is taken for a replay.
CheckReplacementStrictly(r) ==
  /\ At(r, "retry", {"refresh"})
  /\ Goto(r, "ending", 0, {})
  /\ UNCHANGED <<active, tokens>>

\* The row that replaced the presented one: still live, and the chain goes
\* on from it; else the presented token is a replay and its family ends.
CheckReplacement(r) ==
  /\ At(r, "retry", {"refresh"})
  /\ IF Live(job[r].target) THEN Goto(r, "rotating", job[r].target, {})
                            ELSE Goto(r, "ending", 0, {})
  /\ UNCHANGED <<active, tokens>>

\* Mutant: the replacement opens a family of its own.
RotateIntoNewFamily(r) ==
  LET t == job[r].target IN
  /\ At(r, "rotating", {"refresh"})
  /\ Len(tokens) < MaxTokens
  /\ tokens' = Append([tokens EXCEPT ![t].next = NewId],
                      Row(tokens[t].owner, NewId))
  /\ Finish(r)
  /\ UNCHANGED active

\* The replacement joins the family of the row it replaces.
Rotate(r) ==
  LET t == job[r].target IN
  /\ At(r, "rotating", {"refresh"})
  /\ Len(tokens) < MaxTokens
  /\ tokens' = Append([tokens EXCEPT ![t].next = NewId],
                      Row(tokens[t].owner, FamilyOf(t)))
  /\ Finish(r)
  /\ UNCHANGED active

-----------------------------------------------------------------------------
(* login, logout, change_password, switch_organization *)

Issue(r) ==
  /\ At(r, "issuing", {"login"})
  /\ Len(tokens) < MaxTokens
  /\ tokens' = Append(tokens, Row(job[r].account, NewId))
  /\ Finish(r)
  /\ UNCHANGED active

\* Mutant: anybody's token may be logged out.
FindAnyToken(r) ==
  /\ At(r, "asked", {"logout"})
  /\ Goto(r, "ending", 0, {})
  /\ UNCHANGED <<active, tokens>>

FindOwnToken(r) ==
  /\ At(r, "asked", {"logout"})
  /\ IF tokens[job[r].token].owner = job[r].account THEN Goto(r, "ending", 0, {})
                                                    ELSE Finish(r)
  /\ UNCHANGED <<active, tokens>>

\* Whose tokens end: the presented token's family, or all of the account.
InScope(r, t) ==
  IF job[r].op \in {"refresh", "logout"} THEN FamilyOf(t) = FamilyOf(job[r].token)
                                         ELSE tokens[t].owner = job[r].account

StartRevoking(r) ==
  /\ At(r, "ending", {"refresh", "logout", "change_password", "switch"})
  /\ Goto(r, "revoking", 0,
          {t \in DOMAIN tokens : InScope(r, t) /\ ~tokens[t].revoked})
  /\ UNCHANGED <<active, tokens>>

WithRevoked(ended) ==
  [t \in DOMAIN tokens |->
     [tokens[t] EXCEPT !.revoked = @ \/ t \in ended]]

\* The refresh of a replayed token commits here although it answers 401.
Revoke(r) ==
  /\ At(r, "revoking", {"refresh", "logout", "change_password"})
  /\ tokens' = WithRevoked(job[r].ended)
  /\ Finish(r)
  /\ UNCHANGED active

Switch(r) ==
  /\ At(r, "revoking", {"switch"})
  /\ Len(tokens) < MaxTokens
  /\ tokens' = Append(WithRevoked(job[r].ended),
                      Row(job[r].account, NewId))
  /\ Finish(r)
  /\ UNCHANGED active

-----------------------------------------------------------------------------
\* users.update_user: an administrator suspends, locks or reactivates.
SetStatus(u) ==
  /\ active' = IF u \in active THEN active \ {u} ELSE active \cup {u}
  /\ UNCHANGED <<tokens, job>>

\* The request dies, or is refused for a reason that changes nothing: a rate
\* limit, a database timeout, a wrong password. The refusal of an expired
\* token looks the same, its DELETE is rolled back by the 401.
Crash(r) ==
  /\ Busy(r)
  /\ Finish(r)
  /\ UNCHANGED <<active, tokens>>

Serve(r) ==
  \/ ReadToken(r) \/ CheckAccount(r) \/ CheckReplacement(r) \/ Rotate(r)
  \/ Issue(r) \/ FindOwnToken(r)
  \/ StartRevoking(r) \/ Revoke(r) \/ Switch(r)

Ask(r) ==
  \/ \E t \in DOMAIN tokens : AskRefresh(r, t)
  \/ \E u \in Accounts :
       \/ AskLogin(r, u) \/ AskChangePassword(r, u) \/ AskSwitch(r, u)
       \/ \E t \in DOMAIN tokens : AskLogout(r, u, t)

Next ==
  \/ \E r \in Requests : Ask(r) \/ Serve(r) \/ Crash(r)
  \/ \E u \in Accounts : SetStatus(u)

Spec == Init /\ [][Next]_vars

-----------------------------------------------------------------------------
(* Properties. *)

TokenRows ==
  [owner   : Accounts,
   family  : Nat,
   next    : Nat,
   revoked : BOOLEAN]

Jobs ==
  [pc      : {"asked", "fresh", "retry", "rotating", "issuing", "ending", "revoking"},
   op      : {"login", "refresh", "logout", "change_password", "switch"},
   account : Accounts,
   token   : Nat,
   target  : Nat,
   ended   : SUBSET Nat]

TypeOK ==
  /\ active \subseteq Accounts
  /\ tokens \in Seq(TokenRows)
  /\ job \in [Requests -> Jobs \cup {Idle}]
  /\ \A r \in Requests : Busy(r) =>
       /\ job[r].op \in {"refresh", "logout"} => job[r].token \in DOMAIN tokens
       /\ job[r].pc \in {"fresh", "retry", "rotating"} => job[r].target \in DOMAIN tokens
       /\ job[r].ended \subseteq DOMAIN tokens

ChainOf(t) ==
  /\ FamilyOf(t) \in DOMAIN tokens
  /\ FamilyOf(FamilyOf(t)) = FamilyOf(t)
  /\ tokens[FamilyOf(t)].owner = tokens[t].owner
  /\ tokens[t].next # 0 =>
       /\ tokens[t].next \in DOMAIN tokens
       /\ tokens[t].next > t
       /\ FamilyOf(tokens[t].next) = FamilyOf(t)

\* Rows and requests are of their types, and a chain of rotations stays in
\* one family and with one account, and moves on to younger rows only, so
\* following replaced_by_token_id always ends: what replay detection and
\* revocation by family rely on, with two rotations of one row committing
\* in any order (auth/service.py _rotate).
ChainsStayInTheFamily == TypeOK /\ \A t \in DOMAIN tokens : ChainOf(t)

\* A refresh ends a session only with cause: the presented token was replaced,
\* and a younger row of its family has been replaced in its turn, or revoked.
\* One lost answer alone, and the retry after it, ends nothing.
ReplayIsReal ==
  \A r \in Requests : job[r].pc \in {"ending", "revoking"} /\ job[r].op = "refresh" =>
    LET t == job[r].token IN
    /\ tokens[t].next # 0
    /\ \E s \in Family(FamilyOf(t)) : s > t /\ ~Live(s)

\* Who may end a token: the account it belongs to, and a request that has
\* only a token never ends more than the family of that token.
NobodyEndsAnothersSession ==
  [][\A t \in DOMAIN tokens : tokens'[t].revoked /\ ~tokens[t].revoked =>
       \E r \in Requests :
         /\ job[r].pc = "revoking"
         /\ job[r].account = tokens[t].owner
         /\ job[r].op = "refresh" => FamilyOf(job[r].token) = FamilyOf(t)]_vars

Ended(f) == Family(f) # {} /\ \A t \in Family(f) : tokens[t].revoked

\* A refresh that has already decided to rotate a token of the family.
HasReader(f) ==
  \E r \in Requests : job[r].pc \in {"fresh", "rotating"} /\ FamilyOf(job[r].target) = f

\* An ended family without a refresh in flight that read it before stays
\* ended: no token of it works again, whoever presents which.
QuietFamiliesStayEnded ==
  [][\A f \in DOMAIN tokens :
       Ended(f) /\ ~HasReader(f) => Ended(f)' /\ ~HasReader(f)']_vars
=============================================================================
