------------------------------ MODULE MarkPaid ------------------------------
(***************************************************************************)
(* Paying out one approved expense from the app: markPaid of the store     *)
(* (lib/management/expense_store.dart) creates the reimbursement, moves it *)
(* to processing, then to paid with the transaction id that was typed, and *)
(* uploads the receipt, as separate requests; the dialog                   *)
(* (lib/ui/mark_paid_dialog.dart) stays open after a failure so that the   *)
(* user can confirm again.  Requests and answers get lost, and a request   *)
(* that timed out in the app may run later.                                *)
(*                                                                         *)
(* The server's side is backend/app/reimbursements, one step per request:  *)
(* ExpenseWorkflow has its transactions in detail.  Nothing else in the    *)
(* app changes a reimbursement.                                            *)
(***************************************************************************)
EXTENDS Naturals, FiniteSets

CONSTANTS
  Dialogs,      \* payment dialogs, on one device or on several
  NoReference   \* payment_reference is NULL

ASSUME ReferenceAssumption == NoReference \notin Dialogs

VARIABLES
  payout,     \* the row of the expense in the reimbursements table
  phase,      \* how far markPaid has come, in each dialog
  request,    \* the request it waits for
  attached,   \* dialogs with a receipt picked
  late        \* requests nobody waits for any more that have not run

vars == <<payout, phase, request, attached, late>>

Steps == {"create", "process", "pay", "receipt"}

Init ==
  /\ payout = [status |-> "absent", reference |-> NoReference, receipt |-> FALSE]
  /\ phase = [d \in Dialogs |-> "open"]
  /\ request = [d \in Dialogs |-> "none"]
  /\ attached = {}
  /\ late = {}

\* The transaction id is named by the dialog it was typed in; a receipt may be
\* picked or removed before. "submitting" keeps a dialog from confirming twice.
Confirm(d) ==
  /\ phase[d] \in {"open", "failed"}
  /\ phase' = [phase EXCEPT ![d] = "create"]
  /\ request' = [request EXCEPT ![d] = "sent"]
  /\ attached' \in {attached \ {d}, attached \cup {d}}
  /\ UNCHANGED <<payout, late>>

-----------------------------------------------------------------------------
(* The server. A reimbursement is created once per expense; the expense     *)
(* stays approved until it is paid.                                         *)

\* Mutant: a second creation starts the reimbursement over.
AcceptsAgain(step) ==
  CASE step = "create"  -> TRUE
    [] step = "process" -> payout.status = "pending"
    [] step = "pay"     -> payout.status = "processing"
    [] step = "receipt" -> payout.status = "paid"

Accepts(step) ==
  CASE step = "create"  -> payout.status = "absent"
    [] step = "process" -> payout.status = "pending"
    [] step = "pay"     -> payout.status = "processing"
    [] step = "receipt" -> payout.status = "paid"

Effect(d, step) ==
  CASE step = "create"  -> [payout EXCEPT !.status = "pending"]
    [] step = "process" -> [payout EXCEPT !.status = "processing"]
    [] step = "pay"     -> [payout EXCEPT !.status = "paid", !.reference = d]
    [] step = "receipt" -> [payout EXCEPT !.receipt = TRUE]

Grant(d) ==
  /\ request[d] = "sent"
  /\ Accepts(phase[d])
  /\ payout' = Effect(d, phase[d])
  /\ request' = [request EXCEPT ![d] = "granted"]
  /\ UNCHANGED <<phase, attached, late>>

\* Also for other reasons: a session that ended, an error of the server.
Refuse(d) ==
  /\ request[d] = "sent"
  /\ request' = [request EXCEPT ![d] = "refused"]
  /\ UNCHANGED <<payout, phase, attached, late>>

RunLate(d, step) ==
  /\ <<d, step>> \in late
  /\ late' = late \ {<<d, step>>}
  /\ payout' \in IF Accepts(step) THEN {payout, Effect(d, step)} ELSE {payout}
  /\ UNCHANGED <<phase, request, attached>>

-----------------------------------------------------------------------------
(* markPaid. *)

NextPhase(d) ==
  CASE phase[d] = "create"  -> "process"
    [] phase[d] = "process" -> "pay"
    [] phase[d] = "pay"     -> IF d \in attached THEN "receipt" ELSE "done"
    [] phase[d] = "receipt" -> "done"

GoTo(d, next) ==
  /\ phase' = [phase EXCEPT ![d] = next]
  /\ request' = [request EXCEPT ![d] = IF next \in Steps THEN "sent" ELSE "none"]

\* Mutant: the status of the answer is not looked at.
HearAny(d) ==
  /\ request[d] \in {"granted", "refused"}
  /\ GoTo(d, NextPhase(d))
  /\ UNCHANGED <<payout, attached, late>>

\* An answer arrives. A refused receipt is only logged.
Hear(d) ==
  /\ request[d] \in {"granted", "refused"}
  /\ GoTo(d, IF request[d] = "granted" \/ phase[d] = "receipt"
               THEN NextPhase(d) ELSE "failed")
  /\ UNCHANGED <<payout, attached, late>>

\* The call throws: the request or its answer is lost, or it is not answered
\* in time.
Miss(d) ==
  /\ request[d] # "none"
  /\ GoTo(d, "failed")
  /\ late' \in {late, late \cup IF request[d] = "sent" THEN {<<d, phase[d]>>}
                                                      ELSE {}}
  /\ UNCHANGED <<payout, attached>>

Next ==
  \E d \in Dialogs :
    \/ Confirm(d)
    \/ Grant(d) \/ Refuse(d)
    \/ \E step \in Steps : RunLate(d, step)
    \/ Hear(d)
    \/ Miss(d)

Spec == Init /\ [][Next]_vars

\* The best of worlds for a retry: the user follows the message, the server
\* answers, does not refuse for ever what it can accept, and does not answer
\* into the void for ever.
FairSpec ==
  Spec /\ \A d \in Dialogs :
            /\ WF_vars(Confirm(d))
            /\ WF_vars(Grant(d) \/ Refuse(d))
            /\ SF_vars(Grant(d))
            /\ SF_vars(Hear(d))

-----------------------------------------------------------------------------
(* Properties. *)

\* Every variable has its type, a dialog waits exactly while it is in a
\* step, and paid and reference go together.
TypeOK ==
  /\ payout \in [status : {"absent", "pending", "processing", "paid"},
                 reference : Dialogs \cup {NoReference}, receipt : BOOLEAN]
  /\ payout.status = "paid" <=> payout.reference # NoReference
  /\ phase \in [Dialogs -> Steps \cup {"open", "failed", "done"}]
  /\ request \in [Dialogs -> {"none", "sent", "granted", "refused"}]
  /\ \A d \in Dialogs : request[d] = "none" <=> phase[d] \notin Steps
  /\ attached \subseteq Dialogs
  /\ late \subseteq Dialogs \X Steps

\* "Expense marked as paid" is said only when the expense is paid, and with
\* the transaction id of the dialog that says it.
SuccessIsTrue ==
  \A d \in Dialogs : phase[d] = "done" =>
    payout.status = "paid" /\ payout.reference = d

\* Of the people who confirm the same payment, one at most gets past the
\* creation of the reimbursement.
OnePayerAtATime ==
  \A d, e \in Dialogs :
    /\ phase[d] \in {"process", "pay", "receipt", "done"}
    /\ phase[e] \in {"process", "pay", "receipt", "done"}
    => d = e

\* The message after a failure holds: "Payment failed. Please try again."
\* (Trying again gets the expense paid.)
TryingAgainPays ==
  \A d \in Dialogs : phase[d] = "failed" ~> payout.status = "paid"
=============================================================================
