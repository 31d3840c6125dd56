---------------------------- MODULE MobileSession ----------------------------
(***************************************************************************)
(* The app's session (lib/shared/api_client.dart) against the server of    *)
(* AuthTokens: each device keeps one refresh token, presents it when its   *)
(* access token no longer works, stores the answer, and forgets it when    *)
(* the session is dead or the user signs out.  Answers get lost, requests  *)
(* time out on the device and go on running on the server.                 *)
(*                                                                         *)
(* The concurrent 401s of one app share a refresh (_refreshInFlight), so a *)
(* device waits for at most one.  Nobody changes the password, switches    *)
(* the organization or is suspended here (AuthTokens has what those do),   *)
(* and no token reaches its age of thirty days.  An answer is heard when   *)
(* its transaction commits: a commit that fails after the answer was sent  *)
(* is not modelled.                                                        *)
(***************************************************************************)
EXTENDS AuthTokens

CONSTANTS
  Devices,     \* installations of the app
  NoRequest,   \* the device waits for nothing
  MaxUnheard   \* bound: answers a device misses in a row

ASSUME NoRequestAssumption == NoRequest \notin Requests

VARIABLES
  held,        \* the refresh token in the secure store, 0 for none
  flight,      \* the refresh a device waits for
  leaving,     \* devices inside signOut
  unheard,     \* answers missed since the last one that came through
  signedOut,   \* history: families whose device signed out
  outrun       \* history: those whose device waited for a refresh when its
               \* store was cleared

allVars == <<active, tokens, job, held, flight, leaving, unheard, signedOut, outrun>>

SessionInit ==
  /\ Init
  /\ held = [d \in Devices |-> 0]
  /\ flight = [d \in Devices |-> NoRequest]
  /\ leaving = {}
  /\ unheard = [d \in Devices |-> 0]
  /\ signedOut = {} /\ outrun = {}

\* Refreshes of the device's session it no longer waits for.
Abandoned(d) ==
  {r \in Requests : /\ Busy(r) /\ job[r].op = "refresh"
                    /\ r # flight[d]
                    /\ held[d] # 0
                    /\ FamilyOf(job[r].token) = FamilyOf(held[d])}

\* Signing in replaces whatever the store holds. (Nothing of the server's
\* login can interfere with it, so it is one step here.)
SignIn(d, u) ==
  /\ held[d] = 0 /\ d \notin leaving
  /\ u \in active
  /\ Len(tokens) < MaxTokens
  /\ tokens' = Append(tokens, Row(u, NewId))
  /\ held' = [held EXCEPT ![d] = NewId]
  /\ unheard' = [unheard EXCEPT ![d] = 0]
  /\ UNCHANGED <<active, job, flight, leaving, signedOut, outrun>>

\* Mutant: every 401 starts a refresh of its own.
SendAnotherRefresh(d, r) ==
  /\ held[d] # 0
  /\ \A s \in Abandoned(d) : job[s].token = held[d]
  /\ AskRefresh(r, held[d])
  /\ flight' = [flight EXCEPT ![d] = r]
  /\ UNCHANGED <<held, leaving, unheard, signedOut, outrun>>

\* A 401 makes the app refresh. An access token lives for half an hour, so
\* a request the device gave up on is over before the token that replaced
\* the one it carries is presented; it may overlap with its own retry.
SendRefresh(d, r) ==
  /\ held[d] # 0 /\ flight[d] = NoRequest
  /\ \A s \in Abandoned(d) : job[s].token = held[d]
  /\ AskRefresh(r, held[d])
  /\ flight' = [flight EXCEPT ![d] = r]
  /\ UNCHANGED <<held, leaving, unheard, signedOut, outrun>>

WaitsFor(r) == {d \in Devices : flight[d] = r}

\* The answer is stored whatever happened to the session meanwhile; any
\* answer but 200 makes the session dead and clears the store.
Hear(d, new) ==
  /\ held' = [held EXCEPT ![d] = IF new THEN NewId ELSE 0]
  /\ unheard' = [unheard EXCEPT ![d] = Cardinality(Abandoned(d))]

Miss(d) ==
  /\ unheard[d] < MaxUnheard
  /\ unheard' = [unheard EXCEPT ![d] = @ + 1]
  /\ UNCHANGED held

\* The server takes a step; when that ends a refresh, the device that waits
\* for it hears the answer or misses it.
ServerStep(r) ==
  /\ Serve(r) \/ Crash(r)
  /\ IF job'[r] = Idle /\ WaitsFor(r) # {}
       THEN \E d \in WaitsFor(r) :
              /\ flight' = [flight EXCEPT ![d] = NoRequest]
              /\ Hear(d, Len(tokens') > Len(tokens)) \/ Miss(d)
       ELSE UNCHANGED <<held, flight, unheard>>
  /\ UNCHANGED <<leaving, signedOut, outrun>>

\* requestTimeout: the app stops waiting, the request does not stop.
TimeOut(d) ==
  /\ flight[d] # NoRequest
  /\ Miss(d)
  /\ flight' = [flight EXCEPT ![d] = NoRequest]
  /\ UNCHANGED <<active, tokens, job, leaving, signedOut, outrun>>

\* signOut reads the token, asks for a logout, which may not get through...
BeginSignOut(d) ==
  /\ held[d] # 0 /\ d \notin leaving
  /\ leaving' = leaving \cup {d}
  /\ signedOut' = signedOut \cup {FamilyOf(held[d])}
  /\ \/ \E r \in Requests : AskLogout(r, tokens[held[d]].owner, held[d])
     \/ UNCHANGED <<active, tokens, job>>
  /\ UNCHANGED <<held, flight, unheard, outrun>>

\* ... and clears the store in any case.
EndSignOut(d) ==
  /\ d \in leaving
  /\ leaving' = leaving \ {d}
  /\ held' = [held EXCEPT ![d] = 0]
  /\ outrun' = outrun \cup (IF held[d] # 0 /\ flight[d] # NoRequest THEN {FamilyOf(held[d])} ELSE {})
  /\ UNCHANGED <<active, tokens, job, flight, unheard, signedOut>>

SessionNext ==
  \/ \E r \in Requests : ServerStep(r)
  \/ \E d \in Devices :
       \/ \E u \in Accounts : SignIn(d, u)
       \/ \E r \in Requests : SendRefresh(d, r)
       \/ TimeOut(d) \/ BeginSignOut(d) \/ EndSignOut(d)

SessionSpec == SessionInit /\ [][SessionNext]_allVars

-----------------------------------------------------------------------------
(* Properties. *)

SessionTypeOK ==
  /\ held \in [Devices -> {0} \cup DOMAIN tokens]
  /\ flight \in [Devices -> Requests \cup {NoRequest}]
  /\ \A d \in Devices : flight[d] # NoRequest =>
       Busy(flight[d]) /\ job[flight[d]].op = "refresh" /\ WaitsFor(flight[d]) = {d}
  /\ leaving \subseteq Devices
  /\ unheard \in [Devices -> 0 .. MaxUnheard]
  /\ outrun \subseteq signedOut /\ signedOut \subseteq DOMAIN tokens

\* A refresh with the token would succeed: it is live or one step behind.
Usable(t) ==
  /\ ~tokens[t].revoked
  /\ tokens[t].next # 0 => Live(tokens[t].next)

\* A device waits for a request of its own. A session survives lost answers
\* and timeouts: unless its user signed out, the token in the store still
\* works, whatever other devices do. And one that was signed out of is in the
\* store again only if a refresh was under way when signOut cleared the store:
\* _doRefreshInner stores its answer all the same (lib/shared/api_client.dart).
SessionSurvives ==
  /\ SessionTypeOK
  /\ \A d \in Devices : held[d] # 0 =>
       IF FamilyOf(held[d]) \in signedOut
         THEN d \in leaving \/ FamilyOf(held[d]) \in outrun
         ELSE Usable(held[d])
=============================================================================
