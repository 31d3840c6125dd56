---------------------------- MODULE SignInLimits ----------------------------
(***************************************************************************)
(* The limits on signing in (core/rate_limit.py, POST /auth/login): a      *)
(* sign-in is counted against its address twice and against its account    *)
(* once, each time by a SELECT and an upsert that commit before the next   *)
(* thing happens, then the password is checked, and a success deletes the  *)
(* account's counter.                                                      *)
(*                                                                         *)
(* CURRENT_TIMESTAMP is the start of the transaction, here of the SELECT.  *)
(* Nothing is locked between SELECT and upsert, so requests overtake each  *)
(* other there, and the upsert writes with an old time.                    *)
(*                                                                         *)
(* Everybody comes from one address, the worst case for its counters.      *)
(* POST /auth/register and /auth/refresh count once, on keys of their own, *)
(* by the same function.  Nothing calls purge_stale.                       *)
(***************************************************************************)
EXTENDS TransactionClock, Integers, FiniteSets

CONSTANTS
  Requests,   \* sign-ins under way at a time
  Accounts,   \* the accounts people try
  Limits      \* kind of counter -> [count, window]

Kinds == <<"address", "address-accounts", "account">>

ASSUME LimitsArePositive ==
  \A k \in {Kinds[i] : i \in 1 .. 3} : Limits[k].count \in Nat \ {0} /\ Limits[k].window \in Nat \ {0}

ASSUME RequestsAreFinite == IsFiniteSet(Requests)
ASSUME AccountsAreNoAddresses == Accounts \cap {"address", "address-accounts"} = {}

VARIABLES
  bucket,   \* rate_limit_buckets: key -> {} or {[start, hits]}
  call,     \* [pc, who, step, at, counted]; at: start of its transaction;
            \* counted: its attempt is in the account's present window
  guessed   \* history: passwords checked in the account's present window by
            \* sign-ins counted in it

limitVars == <<now, bucket, call, guessed>>

AddressKeys == {"address", "address-accounts"}
Keys == AddressKeys \cup Accounts
KeyOf(r) == IF call[r].step = 3 THEN call[r].who ELSE Kinds[call[r].step]
LimitOn(k) == IF k \in AddressKeys THEN Limits[k] ELSE Limits["account"]

Idle == [pc |-> "idle"]
End(r) == call' = [call EXCEPT ![r] = Idle]

LimitsInit ==
  /\ now = 0
  /\ bucket = [k \in Keys |-> {}]
  /\ call = [r \in Requests |-> Idle]
  /\ guessed = [a \in Accounts |-> 0]

-----------------------------------------------------------------------------
Login(r, a) ==
  /\ call[r].pc = "idle"
  /\ call' = [call EXCEPT ![r] =
       [pc |-> "look", who |-> a, step |-> 1, at |-> now, counted |-> FALSE]]
  /\ UNCHANGED <<now, bucket, guessed>>

\* The SELECT: full and still in its window is refused.
Over(row, limit, at) == row.start <= at - limit.window
Look(r) ==
  LET k == KeyOf(r) IN
  /\ call[r].pc = "look"
  /\ IF \E row \in bucket[k] : ~Over(row, LimitOn(k), now) /\ row.hits >= LimitOn(k).count
     THEN End(r)
     ELSE call' = [call EXCEPT ![r].pc = "count", ![r].at = now]
  /\ UNCHANGED <<now, bucket, guessed>>

\* The upsert: a new row, a new window, or one more hit in the old one.
NewWindow(k, at) == bucket[k] = {} \/ \E row \in bucket[k] : Over(row, LimitOn(k), at)

\* Mutant: every hit moves the window.
Touch(k, at) ==
  IF bucket[k] = {} THEN {[start |-> at, hits |-> 1]}
  ELSE {[start |-> at, hits |-> row.hits + 1] : row \in bucket[k]}

Upsert(k, at) ==
  IF NewWindow(k, at)
  THEN {[start |-> at, hits |-> 1]}
  ELSE {[row EXCEPT !.hits = @ + 1] : row \in bucket[k]}

\* A new window, or no row, forgets who was counted on the account before.
Forget(a, calls) ==
  [r \in Requests |-> IF calls[r].pc # "idle" /\ calls[r].who = a /\ calls[r].counted
                      THEN [calls[r] EXCEPT !.counted = FALSE] ELSE calls[r]]

Count(r) ==
  LET k == KeyOf(r)
      last == call[r].step = 3
      older == IF last /\ NewWindow(k, call[r].at) THEN Forget(k, call) ELSE call
  IN /\ call[r].pc = "count"
     /\ bucket' = [bucket EXCEPT ![k] = Upsert(k, call[r].at)]
     /\ call' = [older EXCEPT ![r].pc = IF last THEN "verify" ELSE "look",
                              ![r].step = IF last THEN 3 ELSE @ + 1,
                              ![r].counted = last]
     /\ guessed' = IF last /\ NewWindow(k, call[r].at) THEN [guessed EXCEPT ![k] = 0] ELSE guessed
     /\ UNCHANGED now

Guess(r) == [guessed EXCEPT ![call[r].who] = @ + (IF call[r].counted THEN 1 ELSE 0)]

\* Mutant: the rollback of a failed sign-in takes its count with it.
FailAndUncount(r) ==
  /\ call[r].pc = "verify"
  /\ bucket' = [bucket EXCEPT ![call[r].who] =
       {[row EXCEPT !.hits = IF @ = 0 THEN 0 ELSE @ - 1] : row \in @}]
  /\ End(r) /\ guessed' = Guess(r)
  /\ UNCHANGED now

\* Wrong password, unknown or inactive account: the counts stay.
Fail(r) ==
  /\ call[r].pc = "verify"
  /\ End(r) /\ guessed' = Guess(r)
  /\ UNCHANGED <<now, bucket>>
Succeed(r) ==
  /\ call[r].pc = "verify"
  /\ call' = [call EXCEPT ![r].pc = "clear"] /\ guessed' = Guess(r)
  /\ UNCHANGED <<now, bucket>>

\* The DELETE commits the sign-in's tokens with it.
clear(r) ==
  /\ call[r].pc = "clear"
  /\ bucket' = [bucket EXCEPT ![call[r].who] = {}]
  /\ call' = [Forget(call[r].who, call) EXCEPT ![r] = Idle]
  /\ guessed' = [guessed EXCEPT ![call[r].who] = 0]
  /\ UNCHANGED now

Crash(r) ==
  /\ call[r].pc # "idle"
  /\ End(r) /\ UNCHANGED <<now, bucket, guessed>>

LimitsNext ==
  \/ \E r \in Requests :
       \/ \E a \in Accounts : Login(r, a)
       \/ Look(r) \/ Count(r) \/ Fail(r) \/ Succeed(r) \/ clear(r) \/ Crash(r)
  \/ Tick /\ UNCHANGED <<bucket, call, guessed>>

LimitsSpec == LimitsInit /\ [][LimitsNext]_limitVars

-----------------------------------------------------------------------------
Rows == [start : Times, hits : Nat]
LimitsTypeOK ==
  /\ now \in Times
  /\ \A k \in Keys : Cardinality(bucket[k]) <= 1 /\ \A row \in bucket[k] : row \in Rows
  /\ \A r \in Requests : call[r] = Idle \/
       call[r] \in [pc : {"look", "count", "verify", "clear"}, who : Accounts, step : 1 .. 3,
                    at : Times, counted : BOOLEAN]
  /\ guessed \in [Accounts -> Nat]

Hits(k) == IF bucket[k] = {} THEN 0 ELSE (CHOOSE row \in bucket[k] : TRUE).hits

(* Checking a counter and raising it are two statements with nothing locked
   between them, and still no window holds more hits than its limit and the
   other requests under way; and every password checked was counted before,
   in a row that the failure of the sign-in does not take back
   (core/rate_limit.py hit, "The counter has to outlive the request"). *)
GuessesAreCounted ==
  /\ LimitsTypeOK
  /\ \A k \in Keys : Hits(k) <= LimitOn(k).count + Cardinality(Requests) - 1
  /\ \A a \in Accounts : guessed[a] <= Hits(a)

(* A window moves only when it is over, and forward: an upsert that waited,
   with the time of an older transaction, neither reopens a window nor
   prolongs one that already refuses people (core/rate_limit.py hit). *)
WindowsRunOut ==
  [][\A k \in Keys : \A old \in bucket[k], new \in bucket'[k] :
       old.start # new.start => Over(old, LimitOn(k), now) /\ new.start > old.start]_limitVars
=============================================================================
