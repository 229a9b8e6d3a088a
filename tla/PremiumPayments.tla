-------------------------- MODULE PremiumPayments --------------------------
(***************************************************************************)
(* How an M-Pesa payment becomes a week of access, for one customer.       *)
(*                                                                         *)
(* A request handler creates a payment attempt and asks the provider to    *)
(* prompt the phone; the provider reports the outcome in webhooks, which   *)
(* may come before the handler has stored the transaction id, more than    *)
(* once, or never; a sweep and the worker's gate end the access.  Handlers *)
(* of requests run in threads, webhooks one after the other on the event   *)
(* loop, the sweep in a thread of its own; one step is one transaction.    *)
(***************************************************************************)
EXTENDS Naturals

CONSTANTS Attempts,       \* payment attempts (PremiumPaymentAttempt)
          NoAttempt,
          Events,         \* webhook bodies, told apart by their digest
          NoEvent,
          TransactionOf,  \* the attempt whose transaction a body names
          PeriodLength,   \* a week, in ticks of the clock
          MaxClock        \* the clock stops here

ASSUME PaymentAssumption ==
  /\ NoAttempt \notin Attempts
  /\ NoEvent \notin Events
  /\ TransactionOf \in [Events -> Attempts]
  /\ PeriodLength \in Nat \ {0}
  /\ MaxClock \in Nat

VARIABLES clock,
          customer,   \* the PremiumCustomer row; ends = 0 stands for NULL
          period,     \* PremiumAccessPeriod: when the week of an attempt ends, 0: no row
          attempt,    \* the PremiumPaymentAttempt rows
          lapsed,     \* the live attempts whose expires_at has passed
          request,    \* where the request handler of an attempt is
          provider,   \* external: what became of the prompt
          paidAt,     \* external: when it was paid
          event,      \* PremiumWebhookEvent: open (no row, or none that is final), or final
          hook,       \* the webhook in progress, and the place it is at
          sweep,      \* the sweep holds the customer it read as due
          enabled,    \* the linked ManagedAccount row
          gate,       \* a start has passed the premium gate and not yet written
          guard,      \* the worker has seen the access inactive and not yet paused
          overtaken   \* history: a sweep ended a week that had just been paid

books    == <<customer, period>>
payments == <<attempt, lapsed, request>>
outside  == <<provider, paidAt>>
hooks    == <<event, hook>>
account  == <<enabled, gate, guard>>
vars == <<clock, books, payments, outside, hooks, sweep, account, overtaken>>

LiveStatuses == {"initiating", "pending", "provider_uncertain"}
AttemptStatuses == LiveStatuses \cup {"none", "failed", "verification_failed", "success"}
FinalEvents == {"processed", "ignored", "rejected"}
HookSteps == {"looking", "failing", "renewing", "verifying", "rejecting",
              "activating", "marking", "processing"}

(* Access by the exact time: stored status and end of the period.          *)
ActiveAt(c, t) == c.status = "active" /\ t < c.ends
Active == ActiveAt(customer, clock)
Due == customer.status = "active" /\ customer.ends <= clock

(* An attempt that bars the creation of another.                           *)
Live(a) == attempt[a].status \in LiveStatuses /\ a \notin lapsed

Init ==
  /\ clock = 0
  /\ customer = [status |-> "unpaid", ends |-> 0, last |-> NoAttempt]
  /\ period = [a \in Attempts |-> 0]
  /\ attempt = [a \in Attempts |-> [status |-> "none", known |-> FALSE, activated |-> FALSE]]
  /\ lapsed = {}
  /\ request = [a \in Attempts |-> "idle"]
  /\ provider = [a \in Attempts |-> "none"]
  /\ paidAt = [a \in Attempts |-> 0]
  /\ event = [e \in Events |-> "open"]
  /\ hook = [at |-> "idle", event |-> NoEvent]
  /\ sweep = FALSE
  /\ enabled = FALSE /\ gate = FALSE /\ guard = FALSE
  /\ overtaken = FALSE

-----------------------------------------------------------------------------
(* POST /me/premium-access/mpesa/stk-push: the handler reads the access,   *)
(* creates or reuses an attempt under the customer's lock, calls the       *)
(* provider, and stores the answer.                                        *)

StkRequest(a) ==
  /\ request[a] = "idle" /\ ~Active
  /\ request' = [request EXCEPT ![a] = "admitted"]
  /\ UNCHANGED <<clock, books, attempt, lapsed, outside, hooks, sweep, account, overtaken>>

(* A mutant: only a pending attempt bars another.                          *)
MutPendingBars(a) ==
  /\ request[a] = "admitted" /\ ~\E b \in Attempts : Live(b) /\ attempt[b].status = "pending"
  /\ attempt' = [attempt EXCEPT ![a].status = "initiating"]
  /\ request' = [request EXCEPT ![a] = "created"]
  /\ UNCHANGED <<clock, books, lapsed, outside, hooks, sweep, account, overtaken>>

CreateAttempt(a) ==
  /\ request[a] = "admitted" /\ ~\E b \in Attempts : Live(b)
  /\ attempt' = [attempt EXCEPT ![a].status = "initiating"]
  /\ request' = [request EXCEPT ![a] = "created"]
  /\ UNCHANGED <<clock, books, lapsed, outside, hooks, sweep, account, overtaken>>

(* A live attempt is reused, and any attempt with the same idempotency key.*)
ReuseAttempt(a) ==
  /\ request[a] = "admitted" /\ \E b \in Attempts : attempt[b].status # "none"
  /\ request' = [request EXCEPT ![a] = "idle"]
  /\ UNCHANGED <<clock, books, attempt, lapsed, outside, hooks, sweep, account, overtaken>>

(* The provider prompts the phone and answers with an id, or it refuses;   *)
(* an answer without an id, or an error that says nothing, leaves it open. *)
InitiateStkPush(a) ==
  /\ request[a] = "created"
  /\ \E answer \in {"accepted", "refused", "uncertain"}, prompts \in BOOLEAN :
       /\ answer = "accepted" => prompts
       /\ answer = "refused" => ~prompts
       /\ request' = [request EXCEPT ![a] = answer]
       /\ provider' = [provider EXCEPT ![a] = IF prompts THEN "prompted" ELSE "none"]
  /\ UNCHANGED <<clock, books, attempt, lapsed, paidAt, hooks, sweep, account, overtaken>>

SetAttemptProviderResult(a) ==
  /\ \/ /\ request[a] = "accepted"
        /\ attempt' = [attempt EXCEPT ![a].status = "pending", ![a].known = TRUE]
     \/ /\ request[a] = "refused"
        /\ attempt' = [attempt EXCEPT ![a].status = "failed"]
     \/ /\ request[a] = "uncertain"
        /\ attempt' = [attempt EXCEPT ![a].status = "provider_uncertain"]
  /\ request' = [request EXCEPT ![a] = "done"]
  /\ UNCHANGED <<clock, books, lapsed, outside, hooks, sweep, account, overtaken>>

-----------------------------------------------------------------------------
(* The phone and the provider.                                             *)

Resolve(a, outcome) ==
  /\ provider[a] = "prompted"
  /\ provider' = [provider EXCEPT ![a] = outcome]
  /\ UNCHANGED <<clock, books, payments, hooks, sweep, account, overtaken>>

Pays(a)     == Resolve(a, "paid") /\ paidAt' = [paidAt EXCEPT ![a] = clock]
Declines(a) == Resolve(a, "declined") /\ UNCHANGED paidAt

-----------------------------------------------------------------------------
(* POST /webhooks/lipana: one delivery, in the order of its transactions.  *)

HookAt(step) == hook.at = step
HookTo(step) == hook' = [hook EXCEPT !.at = step]
HookEnds     == hook' = [at |-> "idle", event |-> NoEvent]
transaction  == TransactionOf[hook.event]

(* A delivery is recorded by its digest; one whose event is final is left. *)
RecordWebhookEvent(e) ==
  /\ HookAt("idle") /\ provider[TransactionOf[e]] \in {"paid", "declined"}
  /\ event[e] = "open"
  /\ hook' = [at |-> "looking", event |-> e]
  /\ UNCHANGED <<clock, books, payments, outside, event, sweep, account, overtaken>>

ResolveEvent(status) == event' = [event EXCEPT ![hook.event] = status] /\ HookEnds

(* The attempt is found by the transaction id the handler has stored.      *)
AttemptByTransactionId ==
  /\ HookAt("looking")
  /\ \/ /\ ~attempt[transaction].known
        /\ ResolveEvent("ignored")
     \/ /\ attempt[transaction].known
        /\ HookTo(IF provider[transaction] = "declined" THEN "failing"
                  ELSE IF attempt[transaction].activated THEN "processing" ELSE "verifying")
        /\ UNCHANGED event
  /\ UNCHANGED <<clock, books, payments, outside, sweep, account, overtaken>>

MarkFailedFromWebhook ==
  /\ HookAt("failing")
  /\ IF attempt[transaction].activated THEN UNCHANGED attempt
     ELSE attempt' = [attempt EXCEPT ![transaction].status = "failed"]
  /\ HookTo("renewing")
  /\ UNCHANGED <<clock, books, lapsed, request, outside, event, sweep, account, overtaken>>

(* A mutant: the status does not depend on whether there was a period.     *)
MutFailureExpires ==
  /\ HookAt("renewing")
  /\ \/ UNCHANGED customer
     \/ ~Active /\ customer' = [customer EXCEPT !.status = "expired"]
  /\ HookTo("processing")
  /\ UNCHANGED <<clock, period, payments, outside, event, sweep, account, overtaken>>

(* A mutant: a failed payment ends the week that runs.                     *)
MutFailureEndsWeek ==
  /\ HookAt("renewing")
  /\ customer' = [customer EXCEPT !.status = IF customer.ends = 0 THEN "unpaid" ELSE "expired"]
  /\ HookTo("processing")
  /\ UNCHANGED <<clock, period, payments, outside, event, sweep, account, overtaken>>

(* An error of this step is logged and the webhook goes on.                *)
RecordRenewalFailure ==
  /\ HookAt("renewing")
  /\ \/ UNCHANGED customer
     \/ /\ ~Active
        /\ customer' = [customer EXCEPT !.status = IF customer.ends = 0 THEN "unpaid" ELSE "expired"]
  /\ HookTo("processing")
  /\ UNCHANGED <<clock, period, payments, outside, event, sweep, account, overtaken>>

(* A mutant: the event is acknowledged when the payment is verified.       *)
MutAcknowledgesFirst ==
  /\ HookAt("verifying")
  /\ event' = [event EXCEPT ![hook.event] = "processed"]
  /\ HookTo("activating")
  /\ UNCHANGED <<clock, books, payments, outside, sweep, account, overtaken>>

(* The transaction is retrieved from the provider: verified, not final yet *)
(* (the delivery is answered with 503 and stays open), or any other error. *)
(* A transaction that comes without a status counts as final.              *)
VerifiedProviderTransaction ==
  /\ HookAt("verifying")
  /\ \/ HookTo("activating") /\ UNCHANGED attempt
     \/ HookEnds /\ UNCHANGED attempt
     \/ /\ attempt' = [attempt EXCEPT ![transaction].status = "verification_failed"]
        /\ HookTo("rejecting")
  /\ UNCHANGED <<clock, books, lapsed, request, outside, event, sweep, account, overtaken>>

RejectEvent ==
  /\ HookAt("rejecting")
  /\ ResolveEvent("rejected")
  /\ UNCHANGED <<clock, books, payments, outside, sweep, account, overtaken>>

(* The week begins when the provider or the webhook says it was paid, or,  *)
(* if neither does, when this delivery was received.                       *)
PaymentTime(a) == paidAt[a] .. clock

EnsureAccessPeriod(a, end) ==
  period' = IF period[a] # 0 THEN period ELSE [period EXCEPT ![a] = end]

(* A mutant: a replay of the last payment is booked again.                 *)
MutNotIdempotent ==
  /\ HookAt("activating")
  /\ \E t \in PaymentTime(transaction) :
       /\ customer' = [status |-> "active", ends |-> t + PeriodLength, last |-> transaction]
       /\ EnsureAccessPeriod(transaction, t + PeriodLength)
       /\ overtaken' = FALSE
  /\ HookTo("marking")
  /\ UNCHANGED <<clock, payments, outside, event, sweep, account>>

ActivateWeeklyAccess ==
  /\ HookAt("activating")
  /\ IF customer.last = transaction
     THEN EnsureAccessPeriod(transaction, customer.ends) /\ UNCHANGED <<customer, overtaken>>
     ELSE \E t \in PaymentTime(transaction) :
            /\ customer' = [status |-> "active", ends |-> t + PeriodLength, last |-> transaction]
            /\ EnsureAccessPeriod(transaction, t + PeriodLength)
            /\ overtaken' = FALSE
  /\ HookTo("marking")
  /\ UNCHANGED <<clock, payments, outside, event, sweep, account>>

MarkActivated ==
  /\ HookAt("marking")
  /\ IF attempt[transaction].activated THEN UNCHANGED attempt
     ELSE attempt' = [attempt EXCEPT ![transaction].status = "success", ![transaction].activated = TRUE]
  /\ HookTo("processing")
  /\ UNCHANGED <<clock, books, lapsed, request, outside, event, sweep, account, overtaken>>

EventProcessed ==
  /\ HookAt("processing")
  /\ ResolveEvent("processed")
  /\ UNCHANGED <<clock, books, payments, outside, sweep, account, overtaken>>

(* An error of the database ends the delivery where it is.                 *)
WebhookFails ==
  /\ hook.at \in HookSteps
  /\ HookEnds
  /\ UNCHANGED <<clock, books, payments, outside, event, sweep, account, overtaken>>

Webhook ==
  \/ \E e \in Events : RecordWebhookEvent(e)
  \/ AttemptByTransactionId \/ MarkFailedFromWebhook \/ RecordRenewalFailure
  \/ VerifiedProviderTransaction \/ RejectEvent
  \/ ActivateWeeklyAccess \/ MarkActivated \/ EventProcessed \/ WebhookFails

-----------------------------------------------------------------------------
(* The end of a week.  The sweep reads its candidates without a lock; the  *)
(* locked read of a row its session holds already does not refresh it.     *)

SweepReads ==
  /\ ~sweep /\ Due
  /\ sweep' = TRUE
  /\ UNCHANGED <<clock, books, payments, outside, hooks, account, overtaken>>

SweepExpires ==
  /\ sweep
  /\ sweep' = FALSE
  /\ customer' = [customer EXCEPT !.status = "expired"]
  /\ enabled' = FALSE
  /\ overtaken' = (overtaken \/ clock < customer.ends)
  /\ UNCHANGED <<clock, period, payments, outside, hooks, gate, guard>>

(* GET /me/premium-access persists an expiry it meets.                     *)
PremiumPayloadForRequest ==
  /\ Due
  /\ customer' = [customer EXCEPT !.status = "expired"]
  /\ UNCHANGED <<clock, period, payments, outside, hooks, sweep, account, overtaken>>

(* The gate of a user's request and of a schedule, and the start behind it.*)
PremiumGate ==
  /\ Active /\ ~gate
  /\ gate' = TRUE
  /\ UNCHANGED <<clock, books, payments, outside, hooks, sweep, enabled, guard, overtaken>>

StartWrites ==
  /\ gate
  /\ gate' = FALSE /\ enabled' = TRUE
  /\ UNCHANGED <<clock, books, payments, outside, hooks, sweep, guard, overtaken>>

(* A stop of any other kind, and a schedule met by an inactive access.     *)
Stops ==
  /\ enabled
  /\ enabled' = FALSE
  /\ UNCHANGED <<clock, books, payments, outside, hooks, sweep, gate, guard, overtaken>>

(* The worker asks before it admits, proposes or buys, and pauses later.   *)
PremiumAllowsNewExecution ==
  /\ enabled /\ ~Active /\ ~guard
  /\ guard' = TRUE
  /\ UNCHANGED <<clock, books, payments, outside, hooks, sweep, enabled, gate, overtaken>>

(* A mutant: the worker refuses the purchase and leaves the row.           *)
MutRefusesOnly ==
  /\ guard
  /\ guard' = FALSE
  /\ UNCHANGED <<clock, books, payments, outside, hooks, sweep, enabled, gate, overtaken>>

PauseManagedAccountForPremium ==
  /\ guard
  /\ guard' = FALSE /\ enabled' = FALSE
  /\ UNCHANGED <<clock, books, payments, outside, hooks, sweep, gate, overtaken>>

-----------------------------------------------------------------------------
TimePasses ==
  /\ clock < MaxClock
  /\ clock' = clock + 1
  /\ UNCHANGED <<books, payments, outside, hooks, sweep, account, overtaken>>

Lapses(a) ==
  /\ Live(a)
  /\ lapsed' = lapsed \cup {a}
  /\ UNCHANGED <<clock, books, attempt, request, outside, hooks, sweep, account, overtaken>>

(* The API process restarts: whatever it was doing is lost.                *)
Restart ==
  /\ request' = [a \in Attempts |-> IF request[a] \in {"idle", "admitted"} THEN "idle" ELSE "done"]
  /\ HookEnds
  /\ sweep' = FALSE /\ gate' = FALSE
  /\ UNCHANGED <<clock, books, attempt, lapsed, outside, event, enabled, guard, overtaken>>

(* The worker restarts before it has paused the account.                   *)
WorkerRestarts ==
  /\ guard
  /\ guard' = FALSE
  /\ UNCHANGED <<clock, books, payments, outside, hooks, sweep, enabled, gate, overtaken>>

Next ==
  \/ \E a \in Attempts :
       \/ StkRequest(a) \/ CreateAttempt(a) \/ ReuseAttempt(a)
       \/ InitiateStkPush(a) \/ SetAttemptProviderResult(a)
       \/ Pays(a) \/ Declines(a) \/ Lapses(a)
  \/ Webhook
  \/ SweepReads \/ SweepExpires \/ PremiumPayloadForRequest
  \/ PremiumGate \/ StartWrites \/ Stops
  \/ PremiumAllowsNewExecution \/ PauseManagedAccountForPremium
  \/ TimePasses \/ Restart \/ WorkerRestarts

Spec == Init /\ [][Next]_vars

(* The worker asks on every refresh of its accounts, and goes on after a   *)
(* restart, which may interrupt a pause but does not interrupt every one.  *)
Fairness ==
  /\ WF_vars(PremiumAllowsNewExecution)
  /\ SF_vars(PauseManagedAccountForPremium)

FairSpec == Spec /\ Fairness

-----------------------------------------------------------------------------
(* Types.  The customer's row is unpaid exactly while no payment has been  *)
(* booked on it, the sweep holds none such, and the event loop is idle     *)
(* exactly without a webhook.                                              *)
TypeOK ==
  /\ clock \in 0 .. MaxClock
  /\ customer \in [status : {"unpaid", "active", "expired"}, ends : Nat,
                   last : Attempts \cup {NoAttempt}]
  /\ customer.status = "unpaid" <=> customer.ends = 0
  /\ customer.last = NoAttempt <=> customer.ends = 0
  /\ period \in [Attempts -> Nat]
  /\ attempt \in [Attempts -> [status : AttemptStatuses, known : BOOLEAN, activated : BOOLEAN]]
  /\ lapsed \subseteq Attempts
  /\ request \in [Attempts -> {"idle", "admitted", "created", "accepted", "refused", "uncertain", "done"}]
  /\ provider \in [Attempts -> {"none", "prompted", "paid", "declined"}]
  /\ paidAt \in [Attempts -> 0 .. MaxClock]
  /\ event \in [Events -> {"open"} \cup FinalEvents]
  /\ hook \in [at : HookSteps \cup {"idle"}, event : Events \cup {NoEvent}]
  /\ hook.at = "idle" <=> hook.event = NoEvent
  /\ sweep => customer.ends # 0
  /\ sweep \in BOOLEAN /\ enabled \in BOOLEAN /\ gate \in BOOLEAN /\ guard \in BOOLEAN
  /\ overtaken \in BOOLEAN

(* Access is paid for: a week is booked only for an attempt that was paid, *)
(* it ends a week after a moment since the payment, and the customer's own *)
(* period is such a week of the last attempt that was activated.           *)
WeekOf(a) == paidAt[a] + PeriodLength .. clock + PeriodLength
AccessIsPaid ==
  /\ \A a \in Attempts : period[a] # 0 => provider[a] = "paid" /\ period[a] \in WeekOf(a)
  /\ customer.last # NoAttempt =>
       period[customer.last] # 0 /\ customer.ends \in WeekOf(customer.last)

(* A payment is never acknowledged and lost: when the event of a payment   *)
(* is processed, and so every later delivery of it is dropped, the week is *)
(* booked and the attempt is activated, whatever crashed in between.       *)
ProcessedIsGranted ==
  \A e \in Events :
    LET a == TransactionOf[e]
    IN event[e] = "processed" /\ provider[a] = "paid" => attempt[a].activated /\ period[a] # 0

(* The customer never has two attempts whose prompts are taken for open.   *)
OneLiveAttempt == \A a, b \in Attempts : Live(a) /\ Live(b) => a = b

(* Nothing but a sweep that a payment has overtaken ends a paid week       *)
(* early: not a failed renewal, a lazy expiry, a replay or a restart.      *)
PaidWeekIsActive == clock < customer.ends /\ ~overtaken => customer.status = "active"

(* An attempt that has been activated stays as it is, whatever is          *)
(* delivered, verified or answered afterwards.                             *)
ActivationIsFinal ==
  [][\A a \in Attempts : attempt[a].activated => attempt'[a] = attempt[a]]_vars

(* A replay of the payment that granted the current week, at whatever      *)
(* point an earlier delivery of it has failed, never moves the end of it.  *)
ReplayKeepsExpiry ==
  [][customer'.ends # customer.ends => customer'.last # customer.last]_vars

(* The books keep what PaidSubscription promises: through early, repeated, *)
(* late and interrupted webhooks, sweeps and restarts, only a payment that *)
(* was made grants a week, its week is booked once, it grants nothing once *)
(* it has been activated, and is acknowledged only then.                   *)
Paid      == {a \in Attempts : provider[a] = "paid"}
Activated == {a \in Attempts :
                attempt[a] = [status |-> "success", known |-> TRUE, activated |-> TRUE]}
Acknowledged == {a \in Attempts : \E e \in Events :
                   TransactionOf[e] = a /\ event[e] = "processed" /\ a \in Paid}

Subscription ==
  INSTANCE PaidSubscription WITH
    Payments <- Attempts, NoPayment <- NoAttempt, Length <- PeriodLength,
    now <- clock, paid <- Paid, week <- period,
    access <- customer, settled <- Activated, acknowledged <- Acknowledged, decided <- sweep

KeepsSubscription == Subscription!Spec

(* "A webhook replay can never grant a second week or move the expiry      *)
(* timestamp" (premium_access_service.py, activate_weekly_access).         *)
ReplayMovesNothing ==
  [][customer'.ends # customer.ends => period[customer'.last] = 0]_vars

(* An account does not run on an inactive access for ever, whoever has     *)
(* persisted the expiry and however late a start has passed its gate.      *)
UnpaidAccountStops == (enabled /\ ~Active) ~> (~enabled \/ Active)

-----------------------------------------------------------------------------
(* Why these are preserved: a transaction id is stored by the last step of *)
(* the request handler only, so that no webhook finds an attempt a handler *)
(* still writes; a webhook works on an event that is still open and, past  *)
(* its lookup, on such an attempt, and on one that is not activated until  *)
(* it has booked the week and marked it, as webhooks come one after the    *)
(* other; and the mark is written with the status.                         *)
RequestsInStep ==
  \A a \in Attempts :
    /\ request[a] \in {"idle", "admitted"} => attempt[a].status = "none"
    /\ request[a] \in {"idle", "admitted", "created"} => provider[a] = "none"
    /\ request[a] \in {"created", "accepted", "refused", "uncertain"} => attempt[a].status = "initiating"
    /\ request[a] # "done" => ~attempt[a].known
    /\ attempt[a].activated =>
         attempt[a].known /\ attempt[a].status = "success" /\ period[a] # 0

Reported(a) == provider[a] \in {"paid", "declined"}
WebhookInStep ==
  /\ \A e \in Events : event[e] # "open" => Reported(TransactionOf[e])
  /\ hook.at # "idle" =>
       LET a == transaction
       IN /\ Reported(a) /\ event[hook.event] = "open"
          /\ hook.at # "looking" => attempt[a].known
          /\ hook.at \in {"failing", "renewing"} => provider[a] = "declined"
          /\ hook.at \in {"verifying", "rejecting", "activating", "marking"} =>
               provider[a] = "paid" /\ ~attempt[a].activated
          /\ hook.at = "marking" => period[a] # 0
          /\ hook.at = "processing" /\ provider[a] = "paid" => attempt[a].activated

PremiumInvariant ==
  /\ TypeOK
  /\ AccessIsPaid
  /\ ProcessedIsGranted
  /\ OneLiveAttempt
  /\ PaidWeekIsActive
  /\ RequestsInStep
  /\ WebhookInStep

=============================================================================
