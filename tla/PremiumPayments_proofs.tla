----------------------- MODULE PremiumPayments_proofs -----------------------
(***************************************************************************)
(* Proofs, for any attempts, events, length of a period and end of the     *)
(* clock, of the safety properties of PremiumPayments.                     *)
(***************************************************************************)
EXTENDS PremiumPayments, TLAPS

AttemptType == [status : AttemptStatuses, known : BOOLEAN, activated : BOOLEAN]
HookType    == [at : HookSteps \cup {"idle"}, event : Events \cup {NoEvent}]

Safe ==
  /\ AccessIsPaid
  /\ ProcessedIsGranted
  /\ OneLiveAttempt
  /\ PaidWeekIsActive
  /\ RequestsInStep
  /\ WebhookInStep

-----------------------------------------------------------------------------
(* The initial state.                                                      *)
LEMMA PremiumInit == Init => PremiumInvariant
<1> SUFFICES ASSUME Init PROVE PremiumInvariant
  OBVIOUS
<1>1. TypeOK
  <2>1. attempt \in [Attempts -> AttemptType]
    BY DEF Init, AttemptType, AttemptStatuses
  <2>2. hook \in HookType /\ hook.at = "idle" /\ hook.event = NoEvent
    BY DEF Init, HookType
  <2>3. customer \in [status : {"unpaid", "active", "expired"}, ends : Nat,
                      last : Attempts \cup {NoAttempt}]
        /\ customer.status = "unpaid" /\ customer.ends = 0 /\ customer.last = NoAttempt
    BY DEF Init
  <2>4. clock \in 0 .. MaxClock /\ paidAt \in [Attempts -> 0 .. MaxClock] /\ period \in [Attempts -> Nat]
    BY PaymentAssumption DEF Init
  <2>5. event \in [Events -> {"open"} \cup FinalEvents] /\ lapsed \subseteq Attempts
    BY DEF Init, FinalEvents
  <2> QED
    BY <2>1, <2>2, <2>3, <2>4, <2>5 DEF Init, TypeOK, AttemptType, HookType
<1>2. OneLiveAttempt
  BY DEF Init, OneLiveAttempt, Live, LiveStatuses
<1>3. AccessIsPaid /\ ProcessedIsGranted /\ PaidWeekIsActive /\ RequestsInStep /\ WebhookInStep
  BY PaymentAssumption DEF Init, AccessIsPaid, ProcessedIsGranted, PaidWeekIsActive, RequestsInStep,
     WebhookInStep, Reported
<1> QED
  BY <1>1, <1>2, <1>3 DEF PremiumInvariant

(* Writing the status of an attempt, and moving the webhook on.            *)
LEMMA StatusWritten ==
  ASSUME attempt \in [Attempts -> AttemptType], NEW a \in Attempts, NEW st \in AttemptStatuses,
         attempt' = [attempt EXCEPT ![a].status = st]
  PROVE  /\ attempt' \in [Attempts -> AttemptType]
         /\ attempt'[a] = [status |-> st, known |-> attempt[a].known,
                           activated |-> attempt[a].activated]
         /\ \A b \in Attempts \ {a} : attempt'[b] = attempt[b]
  BY DEF AttemptType

LEMMA IdWritten ==
  ASSUME attempt \in [Attempts -> AttemptType], NEW a \in Attempts, "pending" \in AttemptStatuses,
         attempt' = [attempt EXCEPT ![a].status = "pending", ![a].known = TRUE]
  PROVE  attempt' \in [Attempts -> AttemptType]
  BY DEF AttemptType

LEMMA HookMoves ==
  ASSUME hook \in HookType, hook.event # NoEvent, NEW step \in HookSteps, HookTo(step)
  PROVE  /\ hook' \in HookType /\ (hook'.at = "idle" <=> hook'.event = NoEvent)
         /\ hook'.at = step /\ hook'.event = hook.event
  BY DEF HookTo, HookType, HookSteps

LEMMA HookStops ==
  HookEnds => /\ hook' \in HookType /\ (hook'.at = "idle" <=> hook'.event = NoEvent)
              /\ hook'.at = "idle"
  BY DEF HookEnds, HookType

(* What the webhook in progress is about.                                  *)
LEMMA TransactionType ==
  ASSUME TypeOK, hook.at # "idle"
  PROVE  hook.event \in Events /\ transaction \in Attempts
  BY PaymentAssumption DEF TypeOK, transaction

(* A step that leaves the webhook, what is reported and every attempt with *)
(* a known transaction alone keeps what the webhook knows.                 *)
LEMMA HookKept ==
  ASSUME TypeOK, WebhookInStep, UNCHANGED <<hook, event>>,
         \A b \in Attempts : Reported(b) => provider'[b] = provider[b],
         \A b \in Attempts : attempt[b].known => attempt'[b] = attempt[b],
         \A b \in Attempts : period[b] # 0 => period'[b] # 0
  PROVE  WebhookInStep'
<1>1. \A e \in Events : event'[e] # "open" => Reported(TransactionOf[e])'
  BY PaymentAssumption DEF WebhookInStep, Reported
<1>2. CASE hook.at = "idle"
  BY <1>1, <1>2 DEF WebhookInStep
<1>3. CASE hook.at # "idle"
  <2>1. transaction \in Attempts /\ transaction' = transaction /\ Reported(transaction)
    BY <1>3, TransactionType DEF transaction, WebhookInStep
  <2>2. provider'[transaction] = provider[transaction] /\ Reported(transaction)'
    BY <2>1 DEF Reported
  <2>3. hook.at # "looking" => attempt[transaction].known /\ attempt'[transaction] = attempt[transaction]
    BY <1>3, <2>1 DEF WebhookInStep
  <2> QED
    BY <1>1, <1>3, <2>1, <2>2, <2>3 DEF WebhookInStep
<1> QED
  BY <1>2, <1>3

-----------------------------------------------------------------------------
(* Every step keeps the types: the request handler's, ...                  *)
LEMMA TypeRequest ==
  ASSUME TypeOK, NEW a \in Attempts,
         \/ StkRequest(a) \/ CreateAttempt(a) \/ ReuseAttempt(a)
         \/ InitiateStkPush(a) \/ SetAttemptProviderResult(a)
         \/ Pays(a) \/ Declines(a) \/ Lapses(a)
  PROVE  TypeOK'
<1> USE DEF TypeOK, books, outside, hooks, account
<1>1. CASE StkRequest(a) \/ ReuseAttempt(a)
  BY <1>1 DEF StkRequest, ReuseAttempt
<1>2. CASE CreateAttempt(a)
  BY <1>2 DEF CreateAttempt, AttemptStatuses, LiveStatuses
<1>3. CASE InitiateStkPush(a)
  BY <1>3 DEF InitiateStkPush
<1>4. CASE SetAttemptProviderResult(a)
  <2>1. /\ {"pending", "failed", "provider_uncertain"} \subseteq AttemptStatuses
        /\ attempt \in [Attempts -> AttemptType]
    BY DEF AttemptStatuses, LiveStatuses, AttemptType
  <2>2. CASE attempt' = [attempt EXCEPT ![a].status = "pending", ![a].known = TRUE]
    <3>2. attempt' \in [Attempts -> AttemptType]
      BY <2>1, <2>2, IdWritten
    <3> QED
      BY <1>4, <3>2 DEF SetAttemptProviderResult, AttemptType
  <2>3. CASE \E st \in {"failed", "provider_uncertain"} : attempt' = [attempt EXCEPT ![a].status = st]
    <3>1. attempt' \in [Attempts -> AttemptType]
      BY <2>1, <2>3, StatusWritten
    <3> QED
      BY <1>4, <3>1 DEF SetAttemptProviderResult, AttemptType
  <2> QED
    BY <1>4, <2>2, <2>3 DEF SetAttemptProviderResult
<1>5. CASE Pays(a) \/ Declines(a)
  <2>1. provider' \in [Attempts -> {"none", "prompted", "paid", "declined"}]
        /\ paidAt' \in [Attempts -> 0 .. MaxClock]
    BY <1>5 DEF Pays, Declines, Resolve
  <2> QED
    BY <1>5, <2>1 DEF Pays, Declines, Resolve, payments
<1>6. CASE Lapses(a)
  BY <1>6 DEF Lapses
<1> QED
  BY <1>1, <1>2, <1>3, <1>4, <1>5, <1>6

(* ... the webhook's, ...                                                  *)
LEMMA TypeWebhook ==
  ASSUME TypeOK, Webhook
  PROVE  TypeOK'
<1>0. hook.at # "idle" => hook.event \in Events /\ transaction \in Attempts
  BY TransactionType
<1>1. ASSUME NEW e \in Events, RecordWebhookEvent(e) PROVE TypeOK'
  BY <1>1, PaymentAssumption DEF RecordWebhookEvent, TypeOK, HookSteps, books, payments, outside, account
<1>2. CASE AttemptByTransactionId
  <2>0. hook \in HookType /\ hook.event \in Events /\ hook.event # NoEvent
    BY <1>0, <1>2, PaymentAssumption DEF AttemptByTransactionId, HookAt, TypeOK, HookType
  <2>1. CASE ResolveEvent("ignored")
    BY <1>2, <2>0, <2>1, HookStops DEF AttemptByTransactionId, ResolveEvent, TypeOK, HookType,
       FinalEvents, books, payments, outside, account
  <2>2. CASE UNCHANGED event /\ \E step \in HookSteps : HookTo(step)
    BY <1>2, <2>0, <2>2, HookMoves DEF AttemptByTransactionId, TypeOK, HookType,
       books, payments, outside, account
  <2> QED
    BY <1>2, <2>1, <2>2 DEF AttemptByTransactionId, HookSteps
<1>3. CASE MarkFailedFromWebhook
  <2>0. hook \in HookType /\ hook.event # NoEvent /\ "renewing" \in HookSteps
        /\ "failed" \in AttemptStatuses /\ attempt \in [Attempts -> AttemptType]
    BY <1>0, <1>3, PaymentAssumption DEF MarkFailedFromWebhook, HookAt, TypeOK, HookType, HookSteps,
       AttemptStatuses, AttemptType
  <2>1. attempt' \in [Attempts -> AttemptType]
    BY <1>0, <1>3, <2>0, StatusWritten DEF MarkFailedFromWebhook, HookAt
  <2> QED
    BY <1>3, <2>0, <2>1, HookMoves DEF MarkFailedFromWebhook, TypeOK, HookType, AttemptType,
       books, outside, account
<1>4. CASE RecordRenewalFailure
  BY <1>0, <1>4 DEF RecordRenewalFailure, HookAt, HookTo, TypeOK, HookSteps, payments, outside, account
<1>5. CASE VerifiedProviderTransaction
  <2>0. hook \in HookType /\ hook.event # NoEvent /\ {"activating", "rejecting"} \subseteq HookSteps
        /\ "verification_failed" \in AttemptStatuses /\ attempt \in [Attempts -> AttemptType]
    BY <1>0, <1>5, PaymentAssumption DEF VerifiedProviderTransaction, HookAt, TypeOK, HookType, HookSteps,
       AttemptStatuses, AttemptType
  <2>1. attempt' \in [Attempts -> AttemptType]
    BY <1>0, <1>5, <2>0, StatusWritten DEF VerifiedProviderTransaction, HookAt
  <2> QED
    BY <1>5, <2>0, <2>1, HookMoves, HookStops DEF VerifiedProviderTransaction, TypeOK, HookType,
       AttemptType, books, outside, account
<1>6. CASE RejectEvent \/ EventProcessed
  BY <1>0, <1>6 DEF RejectEvent, EventProcessed, ResolveEvent, HookAt, HookEnds, TypeOK,
     FinalEvents, books, payments, outside, account
<1>7. CASE ActivateWeeklyAccess
  <2>1. hook' \in [at : HookSteps \cup {"idle"}, event : Events \cup {NoEvent}]
        /\ (hook'.at = "idle" <=> hook'.event = NoEvent)
    BY <1>0, <1>7 DEF ActivateWeeklyAccess, HookAt, HookTo, TypeOK, HookSteps
  <2>2. CASE customer.last = transaction
    <3>1. period' \in [Attempts -> Nat]
      BY <1>0, <1>7, <2>2 DEF ActivateWeeklyAccess, HookAt, EnsureAccessPeriod, TypeOK
    <3> QED
      BY <1>7, <2>1, <2>2, <3>1 DEF ActivateWeeklyAccess, TypeOK, payments, outside, account
  <2>3. CASE customer.last # transaction
    <3>1. PICK t \in PaymentTime(transaction) :
            /\ customer' = [status |-> "active", ends |-> t + PeriodLength, last |-> transaction]
            /\ EnsureAccessPeriod(transaction, t + PeriodLength)
            /\ overtaken' = FALSE
      BY <1>7, <2>3 DEF ActivateWeeklyAccess
    <3>2. t + PeriodLength \in Nat \ {0} /\ transaction \in Attempts
      BY <1>0, <1>7, PaymentAssumption DEF ActivateWeeklyAccess, HookAt, PaymentTime, TypeOK
    <3>3. period' \in [Attempts -> Nat]
      BY <3>1, <3>2 DEF EnsureAccessPeriod, TypeOK
    <3> QED
      BY <1>7, <2>1, <3>1, <3>2, <3>3, PaymentAssumption DEF ActivateWeeklyAccess, TypeOK, payments, outside, account
  <2> QED
    BY <2>2, <2>3
<1>8. CASE MarkActivated
  BY <1>0, <1>8 DEF MarkActivated, HookAt, HookTo, TypeOK, HookSteps, AttemptStatuses,
     books, outside, account
<1>9. CASE WebhookFails
  BY <1>9 DEF WebhookFails, HookEnds, TypeOK, books, payments, outside, account
<1> QED
  BY <1>1, <1>2, <1>3, <1>4, <1>5, <1>6, <1>7, <1>8, <1>9 DEF Webhook

(* ... and all others.                                                     *)
LEMMA TypeOther ==
  ASSUME TypeOK,
         \/ SweepReads \/ SweepExpires \/ PremiumPayloadForRequest
         \/ PremiumGate \/ StartWrites \/ Stops
         \/ PremiumAllowsNewExecution \/ PauseManagedAccountForPremium
         \/ TimePasses \/ Restart \/ WorkerRestarts
  PROVE  TypeOK'
<1>0. CASE SweepReads
  <2>1. customer.ends # 0
    BY <1>0 DEF SweepReads, Due, TypeOK
  <2> QED
    BY <1>0, <2>1 DEF SweepReads, TypeOK, books, payments, outside, hooks, account
<1>1. CASE PremiumGate \/ StartWrites \/ Stops
           \/ PremiumAllowsNewExecution \/ PauseManagedAccountForPremium \/ WorkerRestarts
  <2>1. /\ enabled' \in BOOLEAN /\ gate' \in BOOLEAN /\ guard' \in BOOLEAN
        /\ UNCHANGED <<clock, books, payments, outside, hooks, sweep, overtaken>>
    BY <1>1 DEF PremiumGate, StartWrites, Stops, PremiumAllowsNewExecution,
       PauseManagedAccountForPremium, WorkerRestarts, TypeOK
  <2> QED
    BY <2>1 DEF TypeOK, books, payments, outside, hooks
<1>2. CASE PremiumPayloadForRequest
  BY <1>2, PaymentAssumption DEF PremiumPayloadForRequest, Due, TypeOK, payments, outside, hooks, account
<1>4. CASE TimePasses
  BY <1>4, PaymentAssumption DEF TimePasses, TypeOK, books, payments, outside, hooks, account
<1>5. CASE Restart
  <2>1. request' \in [Attempts -> {"idle", "admitted", "created", "accepted", "refused", "uncertain", "done"}]
    BY <1>5 DEF Restart
  <2> QED
    BY <1>5, <2>1, HookStops DEF Restart, TypeOK, HookType, books, outside
<1>6. CASE SweepExpires
  BY <1>6 DEF SweepExpires, TypeOK, payments, outside, hooks
<1> QED
  BY <1>0, <1>1, <1>2, <1>4, <1>5, <1>6

-----------------------------------------------------------------------------
(* Every step of a request handler keeps the rest: what a webhook works on *)
(* is not what a handler still writes.                                     *)
LEMMA SafeRequest ==
  ASSUME TypeOK, Safe, NEW a \in Attempts,
         \/ StkRequest(a) \/ CreateAttempt(a) \/ ReuseAttempt(a)
         \/ InitiateStkPush(a) \/ SetAttemptProviderResult(a)
  PROVE  Safe'
<1>0. /\ request[a] # "done" /\ UNCHANGED <<clock, books, lapsed, paidAt, event, hook, overtaken>>
      /\ ~attempt[a].known /\ ~attempt[a].activated
  BY DEF Safe, RequestsInStep, StkRequest, CreateAttempt, ReuseAttempt, InitiateStkPush,
     SetAttemptProviderResult, outside, hooks
<1>1. /\ \A b \in Attempts \ {a} : attempt'[b] = attempt[b] /\ provider'[b] = provider[b]
                                   /\ request'[b] = request[b]
      /\ ~attempt'[a].activated
      /\ provider'[a] \in {provider[a], "none", "prompted"}
      /\ provider[a] \in {"paid", "declined"} => provider'[a] = provider[a]
  <2>1. CASE StkRequest(a) \/ CreateAttempt(a) \/ ReuseAttempt(a)
    BY <1>0, <2>1 DEF StkRequest, CreateAttempt, ReuseAttempt, outside, TypeOK
  <2>2. CASE InitiateStkPush(a)
    <3>1. provider[a] = "none"
      BY <2>2 DEF InitiateStkPush, Safe, RequestsInStep
    <3> QED
      BY <1>0, <2>2, <3>1 DEF InitiateStkPush, TypeOK
  <2>3. CASE SetAttemptProviderResult(a)
    BY <1>0, <2>3 DEF SetAttemptProviderResult, outside, TypeOK
  <2> QED
    BY <2>1, <2>2, <2>3
<1>2. AccessIsPaid' /\ PaidWeekIsActive'
  BY <1>0, <1>1 DEF Safe, AccessIsPaid, PaidWeekIsActive, WeekOf, books, TypeOK
<1>3. ProcessedIsGranted'
  BY <1>0, <1>1, PaymentAssumption DEF Safe, ProcessedIsGranted, books, TypeOK
<1>4. OneLiveAttempt'
  BY <1>0, <1>1 DEF Safe, OneLiveAttempt, RequestsInStep, Live, LiveStatuses, StkRequest, CreateAttempt, ReuseAttempt, InitiateStkPush,
     SetAttemptProviderResult, TypeOK
<1>5. RequestsInStep'
  <2>1. CASE StkRequest(a) \/ ReuseAttempt(a)
    BY <1>0, <2>1 DEF Safe, RequestsInStep, StkRequest, ReuseAttempt, books, outside, TypeOK
  <2>2. CASE CreateAttempt(a)
    BY <1>0, <1>1, <2>2 DEF Safe, RequestsInStep, CreateAttempt, books, outside, TypeOK
  <2>3. CASE InitiateStkPush(a)
    BY <1>0, <1>1, <2>3 DEF Safe, RequestsInStep, InitiateStkPush, books, TypeOK
  <2>4. CASE SetAttemptProviderResult(a)
    <3>1. request'[a] = "done"
      BY <2>4 DEF SetAttemptProviderResult, TypeOK
    <3> QED
      BY <1>0, <1>1, <3>1 DEF Safe, RequestsInStep, books
  <2> QED
    BY <2>1, <2>2, <2>3, <2>4
<1>6. WebhookInStep'
  <2>1. \A b \in Attempts : attempt[b].known => attempt'[b] = attempt[b]
    BY <1>0, <1>1
  <2>2. \A b \in Attempts : Reported(b) => provider'[b] = provider[b]
    BY <1>1 DEF Reported
  <2> QED
    BY <1>0, <2>1, <2>2, HookKept DEF Safe, books
<1> QED
  BY <1>2, <1>3, <1>4, <1>5, <1>6 DEF Safe

(* The phone, the provider and the clock of an attempt.                    *)
LEMMA SafeProvider ==
  ASSUME TypeOK, Safe, NEW a \in Attempts, Pays(a) \/ Declines(a) \/ Lapses(a)
  PROVE  Safe'
<1>1. CASE Lapses(a)
  BY <1>1 DEF Lapses, Safe, AccessIsPaid, WeekOf, ProcessedIsGranted, OneLiveAttempt, Live,
     PaidWeekIsActive, RequestsInStep, WebhookInStep, Reported, transaction, books, outside, hooks, TypeOK
<1>2. CASE Pays(a) \/ Declines(a)
  <2>0. /\ provider[a] = "prompted"
        /\ \A b \in Attempts \ {a} : provider'[b] = provider[b] /\ paidAt'[b] = paidAt[b]
        /\ provider'[a] \in {"paid", "declined"}
        /\ UNCHANGED <<clock, customer, period, attempt, lapsed, request, event, hook, overtaken>>
    BY <1>2 DEF Pays, Declines, Resolve, TypeOK, books, payments, hooks
  <2>1. period[a] = 0 /\ ~attempt[a].activated /\ request[a] \notin {"idle", "admitted", "created"}
    BY <2>0 DEF Safe, AccessIsPaid, RequestsInStep
  <2>2. AccessIsPaid'
    BY <2>0, <2>1 DEF Safe, AccessIsPaid, WeekOf, TypeOK
  <2>3. OneLiveAttempt' /\ PaidWeekIsActive' /\ RequestsInStep'
    BY <2>0, <2>1 DEF Safe, OneLiveAttempt, Live, PaidWeekIsActive, RequestsInStep, TypeOK
  <2>4. ProcessedIsGranted'
    <3>1. ASSUME NEW e \in Events, event[e] = "processed", provider'[TransactionOf[e]] = "paid"
          PROVE  provider[TransactionOf[e]] = "paid"
      BY <2>0, <3>1, PaymentAssumption DEF Safe, WebhookInStep, Reported
    <3> QED
      BY <2>0, <3>1 DEF Safe, ProcessedIsGranted
  <2>5. WebhookInStep'
    BY <2>0, HookKept DEF Safe, Reported
  <2> QED
    BY <2>2, <2>3, <2>4, <2>5 DEF Safe
<1> QED
  BY <1>1, <1>2

(* What a webhook writes to an attempt, whose transaction is known: it is  *)
(* not live afterwards, and its handler is done.                           *)
Marked(a, st, act) ==
  attempt' = [attempt EXCEPT ![a].status = st, ![a].activated = act]

LEMMA MarkedSafe ==
  ASSUME TypeOK, Safe, NEW a \in Attempts, attempt[a].known,
         NEW st \in {"failed", "verification_failed", "success"}, NEW act \in BOOLEAN,
         act => st = "success" /\ period[a] # 0,
         \/ Marked(a, st, act) /\ (attempt[a].activated => act)
         \/ UNCHANGED attempt,
         UNCHANGED <<period, lapsed, request, provider, event>>
  PROVE  OneLiveAttempt' /\ RequestsInStep' /\ ProcessedIsGranted'
<1>1. /\ \A b \in Attempts \ {a} : attempt'[b] = attempt[b]
      /\ \/ attempt'[a] = attempt[a]
         \/ /\ attempt'[a] = [status |-> st, known |-> TRUE, activated |-> act]
            /\ attempt[a].activated => act
  <2>1. CASE UNCHANGED attempt
    BY <2>1
  <2>2. CASE Marked(a, st, act) /\ (attempt[a].activated => act)
    <3>1. attempt[a] \in AttemptType /\ attempt[a].known = TRUE
      BY DEF TypeOK, AttemptType
    <3>2. attempt'[a] = [attempt[a] EXCEPT !.status = st, !.activated = act]
      BY <2>2 DEF Marked, TypeOK
    <3>3. attempt'[a] = [status |-> st, known |-> TRUE, activated |-> act]
      BY <3>1, <3>2 DEF AttemptType
    <3> QED
      BY <2>2, <3>3 DEF Marked, TypeOK
  <2> QED
    BY <2>1, <2>2
<1>2. request[a] = "done"
  BY DEF Safe, RequestsInStep
<1>3. OneLiveAttempt'
  BY <1>1 DEF Safe, OneLiveAttempt, Live, LiveStatuses
<1>4. RequestsInStep'
  BY <1>1, <1>2 DEF Safe, RequestsInStep
<1>5. ProcessedIsGranted'
  BY <1>1, PaymentAssumption DEF Safe, ProcessedIsGranted
<1> QED
  BY <1>3, <1>4, <1>5

(* Every step of a webhook.  It moves no request, and writes one attempt,  *)
(* whose transaction id is known.                                          *)
LEMMA SafeWebhook ==
  ASSUME TypeOK, Safe, Webhook
  PROVE  Safe'
<1>0. /\ hook.at # "idle" => hook.event \in Events /\ transaction \in Attempts
      /\ hook.event \in Events => hook.event # NoEvent
  BY TransactionType, PaymentAssumption
<1> USE DEF Safe
<1>1. ASSUME NEW e \in Events, RecordWebhookEvent(e) PROVE Safe'
  <2>1. /\ UNCHANGED <<clock, customer, period, attempt, lapsed, request, provider, paidAt, event, overtaken>>
        /\ hook' = [at |-> "looking", event |-> e]
        /\ Reported(TransactionOf[e]) /\ event[e] = "open"
    BY <1>1 DEF RecordWebhookEvent, Reported, books, payments, outside
  <2>2. AccessIsPaid' /\ ProcessedIsGranted' /\ OneLiveAttempt' /\ PaidWeekIsActive' /\ RequestsInStep'
    BY <2>1 DEF AccessIsPaid, WeekOf, ProcessedIsGranted, OneLiveAttempt, Live, PaidWeekIsActive, RequestsInStep
  <2>3. WebhookInStep'
    BY <2>1 DEF WebhookInStep, Reported, transaction
  <2> QED
    BY <2>2, <2>3
<1>2. CASE AttemptByTransactionId \/ RejectEvent \/ EventProcessed \/ WebhookFails
  <2>0. hook.event \in Events /\ transaction = TransactionOf[hook.event]
    BY <1>0, <1>2 DEF AttemptByTransactionId, RejectEvent, EventProcessed, WebhookFails, HookAt, HookSteps, transaction
  <2>1. UNCHANGED <<clock, customer, period, attempt, lapsed, request, provider, paidAt, overtaken>>
    BY <1>2 DEF AttemptByTransactionId, RejectEvent, EventProcessed, WebhookFails, books, payments, outside
  <2>2. AccessIsPaid' /\ OneLiveAttempt' /\ PaidWeekIsActive' /\ RequestsInStep'
    BY <2>1 DEF AccessIsPaid, WeekOf, OneLiveAttempt, Live, PaidWeekIsActive, RequestsInStep
  <2>3. CASE HookEnds /\ \/ UNCHANGED event
                         \/ \E st \in {"ignored", "rejected"} : event' = [event EXCEPT ![hook.event] = st]
    <3>1. ProcessedIsGranted'
      BY <2>1, <2>3 DEF ProcessedIsGranted, TypeOK
    <3>2. WebhookInStep'
      BY <1>2, <2>0, <2>1, <2>3 DEF WebhookInStep, Reported, HookEnds, TypeOK, AttemptByTransactionId, RejectEvent, EventProcessed, WebhookFails, HookAt, HookSteps
    <3> QED
      BY <2>2, <3>1, <3>2
  <2>4. CASE EventProcessed
    <3>1. hook.at = "processing" /\ HookEnds /\ event' = [event EXCEPT ![hook.event] = "processed"]
      BY <2>4 DEF EventProcessed, ResolveEvent, HookAt
    <3>2. ProcessedIsGranted'
      <4>1. provider[transaction] = "paid" => attempt[transaction].activated /\ period[transaction] # 0
        BY <1>0, <2>0, <3>1 DEF WebhookInStep, RequestsInStep
      <4> QED
        BY <2>0, <2>1, <3>1, <4>1 DEF ProcessedIsGranted, TypeOK
    <3>3. WebhookInStep'
      BY <2>0, <2>1, <3>1 DEF WebhookInStep, Reported, HookEnds, TypeOK
    <3> QED
      BY <2>2, <3>2, <3>3
  <2>5. CASE AttemptByTransactionId /\ attempt[transaction].known /\ UNCHANGED event
    <3>1. /\ hook'.event = hook.event
          /\ hook'.at \in {"failing", "processing", "verifying"}
          /\ hook'.at = "failing" <=> provider[transaction] = "declined"
          /\ hook'.at = "verifying" => ~attempt[transaction].activated
          /\ hook'.at = "processing" => attempt[transaction].activated
      BY <2>5 DEF AttemptByTransactionId, HookTo, ResolveEvent, HookEnds, TypeOK
    <3>2. WebhookInStep'
      BY <2>0, <2>1, <2>5, <3>1 DEF WebhookInStep, Reported, transaction, HookAt, AttemptByTransactionId
    <3>3. ProcessedIsGranted'
      BY <2>1, <2>5 DEF ProcessedIsGranted
    <3> QED
      BY <2>2, <3>2, <3>3
  <2> QED
    BY <1>2, <2>3, <2>4, <2>5 DEF AttemptByTransactionId, RejectEvent, EventProcessed, WebhookFails, ResolveEvent
<1>3. CASE MarkFailedFromWebhook
  <2>1. /\ hook.at = "failing" /\ hook' = [hook EXCEPT !.at = "renewing"]
        /\ transaction \in Attempts /\ transaction' = transaction
        /\ attempt[transaction].known /\ provider[transaction] = "declined"
        /\ UNCHANGED <<clock, customer, period, lapsed, request, provider, paidAt, event, overtaken>>
    BY <1>0, <1>3 DEF MarkFailedFromWebhook, HookAt, HookTo, WebhookInStep, books, outside,
       transaction, TypeOK
  <2>2. \/ Marked(transaction, "failed", FALSE) /\ ~attempt[transaction].activated
        \/ UNCHANGED attempt
    BY <1>3, <2>1 DEF MarkFailedFromWebhook, Marked, TypeOK
  <2>3. OneLiveAttempt' /\ RequestsInStep' /\ ProcessedIsGranted'
    BY <2>1, <2>2, MarkedSafe
  <2>4. AccessIsPaid' /\ PaidWeekIsActive'
    BY <2>1 DEF AccessIsPaid, WeekOf, PaidWeekIsActive
  <2>5. attempt'[transaction].known
    BY <2>1, <2>2 DEF Marked, TypeOK
  <2>6. WebhookInStep'
    BY <1>0, <2>1, <2>5 DEF WebhookInStep, Reported, TypeOK
  <2> QED
    BY <2>3, <2>4, <2>6
<1>4. CASE RecordRenewalFailure
  <2>1. /\ hook.at = "renewing" /\ hook' = [hook EXCEPT !.at = "processing"]
        /\ transaction \in Attempts /\ transaction' = transaction
        /\ UNCHANGED <<clock, period, attempt, lapsed, request, provider, paidAt, event, overtaken>>
    BY <1>0, <1>4 DEF RecordRenewalFailure, HookAt, HookTo, payments, outside, transaction, TypeOK
  <2>2. /\ customer'.ends = customer.ends /\ customer'.last = customer.last
        /\ customer'.status = customer.status \/ ~Active
    BY <1>4 DEF RecordRenewalFailure, TypeOK
  <2>3. AccessIsPaid' /\ PaidWeekIsActive'
    BY <2>1, <2>2 DEF AccessIsPaid, WeekOf, PaidWeekIsActive, Active, ActiveAt
  <2>4. OneLiveAttempt' /\ RequestsInStep' /\ ProcessedIsGranted'
    BY <2>1 DEF OneLiveAttempt, Live, RequestsInStep, ProcessedIsGranted
  <2>5. WebhookInStep'
    BY <1>0, <2>1 DEF WebhookInStep, Reported, TypeOK
  <2> QED
    BY <2>3, <2>4, <2>5
<1>5. CASE VerifiedProviderTransaction
  <2>1. /\ hook.at = "verifying"
        /\ transaction \in Attempts
        /\ attempt[transaction].known /\ ~attempt[transaction].activated /\ provider[transaction] = "paid"
        /\ UNCHANGED <<clock, customer, period, lapsed, request, provider, paidAt, event, overtaken>>
    BY <1>0, <1>5 DEF VerifiedProviderTransaction, HookAt, WebhookInStep, books, outside
  <2>2. Marked(transaction, "verification_failed", FALSE) \/ UNCHANGED attempt
    BY <1>5, <2>1 DEF VerifiedProviderTransaction, Marked, TypeOK
  <2>3. OneLiveAttempt' /\ RequestsInStep' /\ ProcessedIsGranted'
    BY <2>1, <2>2, MarkedSafe
  <2>4. AccessIsPaid' /\ PaidWeekIsActive'
    BY <2>1 DEF AccessIsPaid, WeekOf, PaidWeekIsActive
  <2>5. attempt'[transaction].known /\ ~attempt'[transaction].activated
    BY <2>1, <2>2 DEF Marked, TypeOK
  <2>6. CASE HookEnds
    <3>1. WebhookInStep'
      BY <2>1, <2>6 DEF WebhookInStep, Reported, HookEnds
    <3> QED
      BY <2>3, <2>4, <3>1
  <2>7. CASE HookTo("activating") \/ HookTo("rejecting")
    <3>1. /\ transaction' = transaction /\ hook'.event = hook.event
          /\ hook'.at \in {"activating", "rejecting"}
      BY <2>7 DEF HookTo, transaction, TypeOK
    <3>2. WebhookInStep'
      BY <2>1, <2>5, <3>1 DEF WebhookInStep, Reported
    <3> QED
      BY <2>3, <2>4, <3>2
  <2> QED
    BY <1>5, <2>3, <2>4, <2>6, <2>7 DEF VerifiedProviderTransaction
<1>6. CASE ActivateWeeklyAccess
  <2>1. /\ hook.at = "activating" /\ hook' = [hook EXCEPT !.at = "marking"]
        /\ transaction \in Attempts /\ transaction' = transaction
        /\ attempt[transaction].known /\ ~attempt[transaction].activated /\ provider[transaction] = "paid"
        /\ UNCHANGED <<clock, attempt, lapsed, request, provider, paidAt, event>>
    BY <1>0, <1>6 DEF ActivateWeeklyAccess, HookAt, HookTo, WebhookInStep, payments, outside,
       transaction, TypeOK
  <2>2. PICK end \in WeekOf(transaction) :
          /\ EnsureAccessPeriod(transaction, end)
          /\ \/ customer.last = transaction /\ UNCHANGED <<customer, overtaken>>
             \/ customer' = [status |-> "active", ends |-> end, last |-> transaction]
    <3>1. CASE customer.last = transaction
      <4>1. customer.ends \in WeekOf(transaction)
        BY <2>1, <3>1, PaymentAssumption DEF AccessIsPaid
      <4> QED
        BY <1>6, <3>1, <4>1 DEF ActivateWeeklyAccess
    <3>2. CASE customer.last # transaction
      <4>1. PICK t \in PaymentTime(transaction) :
              /\ customer' = [status |-> "active", ends |-> t + PeriodLength, last |-> transaction]
              /\ EnsureAccessPeriod(transaction, t + PeriodLength)
        BY <1>6, <3>2 DEF ActivateWeeklyAccess
      <4>2. t + PeriodLength \in WeekOf(transaction)
        BY <2>1, PaymentAssumption DEF WeekOf, PaymentTime, TypeOK
      <4> QED
        BY <4>1, <4>2
    <3> QED
      BY <3>1, <3>2
  <2>3. end \in Nat /\ end # 0
    <3>1. paidAt[transaction] \in Nat /\ clock \in Nat
      BY <2>1, PaymentAssumption DEF TypeOK
    <3>2. end \in paidAt[transaction] + PeriodLength .. clock + PeriodLength
      BY DEF WeekOf
    <3> QED
      BY <3>1, <3>2, PaymentAssumption
  <2>4. /\ \A b \in Attempts : period'[b] = IF b = transaction /\ period[b] = 0 THEN end ELSE period[b]
        /\ period'[transaction] # 0
        /\ \A b \in Attempts : WeekOf(b)' = WeekOf(b)
    BY <2>1, <2>2, <2>3 DEF EnsureAccessPeriod, TypeOK, WeekOf
  <2>5. AccessIsPaid'
    <3>1. ASSUME NEW b \in Attempts, period'[b] # 0
          PROVE  provider'[b] = "paid" /\ period'[b] \in WeekOf(b)'
      BY <2>1, <2>2, <2>4, <3>1 DEF AccessIsPaid
    <3>2. customer'.last = transaction /\ customer'.ends \in WeekOf(transaction)
      BY <2>1, <2>2, PaymentAssumption DEF AccessIsPaid
    <3> QED
      BY <2>1, <2>4, <3>1, <3>2 DEF AccessIsPaid
  <2>6. PaidWeekIsActive'
    BY <2>1, <2>2 DEF PaidWeekIsActive
  <2>7. ProcessedIsGranted' /\ OneLiveAttempt' /\ RequestsInStep'
    BY <2>1, <2>3, <2>4, PaymentAssumption DEF ProcessedIsGranted, OneLiveAttempt, Live, RequestsInStep
  <2>8. WebhookInStep'
    BY <1>0, <2>1, <2>4 DEF WebhookInStep, Reported, TypeOK
  <2> QED
    BY <2>5, <2>6, <2>7, <2>8
<1>7. CASE MarkActivated
  <2>1. /\ hook.at = "marking" /\ hook' = [hook EXCEPT !.at = "processing"]
        /\ transaction \in Attempts /\ transaction' = transaction
        /\ attempt[transaction].known /\ ~attempt[transaction].activated /\ provider[transaction] = "paid"
        /\ period[transaction] # 0
        /\ UNCHANGED <<clock, customer, period, lapsed, request, provider, paidAt, event, overtaken>>
    BY <1>0, <1>7 DEF MarkActivated, HookAt, HookTo, WebhookInStep, books, outside, transaction, TypeOK
  <2>2. Marked(transaction, "success", TRUE)
    BY <1>7, <2>1 DEF MarkActivated, Marked, TypeOK
  <2>3. OneLiveAttempt' /\ RequestsInStep' /\ ProcessedIsGranted'
    BY <2>1, <2>2, MarkedSafe
  <2>4. AccessIsPaid' /\ PaidWeekIsActive'
    BY <2>1 DEF AccessIsPaid, WeekOf, PaidWeekIsActive
  <2>5. attempt'[transaction].known /\ attempt'[transaction].activated
    BY <2>1, <2>2 DEF Marked, TypeOK
  <2>6. WebhookInStep'
    BY <1>0, <2>1, <2>5 DEF WebhookInStep, Reported, TypeOK
  <2> QED
    BY <2>3, <2>4, <2>6
<1> QED
  BY <1>1, <1>2, <1>3, <1>4, <1>5, <1>6, <1>7 DEF Webhook

(* Every other step.  None of them writes an attempt or a period, and only *)
(* the end of a week writes the customer.                                  *)
LEMMA SafeOther ==
  ASSUME TypeOK, Safe,
         \/ SweepReads \/ SweepExpires \/ PremiumPayloadForRequest
         \/ PremiumGate \/ StartWrites \/ Stops
         \/ PremiumAllowsNewExecution \/ PauseManagedAccountForPremium
         \/ TimePasses \/ Restart \/ WorkerRestarts
  PROVE  Safe'
<1> USE DEF Safe
<1>0. UNCHANGED <<period, attempt, lapsed, provider, paidAt, event>>
  BY DEF SweepReads, SweepExpires, PremiumPayloadForRequest, PremiumGate, StartWrites, Stops,
     PremiumAllowsNewExecution, PauseManagedAccountForPremium, TimePasses, Restart, WorkerRestarts,
     books, payments, outside, hooks
<1>1. /\ customer'.ends = customer.ends /\ customer'.last = customer.last
      /\ clock' \in {clock, clock + 1}
      /\ UNCHANGED hook \/ HookEnds
  BY DEF SweepReads, SweepExpires, PremiumPayloadForRequest, PremiumGate, StartWrites, Stops,
     PremiumAllowsNewExecution, PauseManagedAccountForPremium, TimePasses, Restart, WorkerRestarts,
     books, payments, outside, hooks, TypeOK
<1>2. AccessIsPaid'
  BY <1>0, <1>1, PaymentAssumption DEF AccessIsPaid, WeekOf, TypeOK
<1>3. PaidWeekIsActive'
  <2>1. CASE SweepExpires
    BY <2>1 DEF SweepExpires, PaidWeekIsActive, TypeOK
  <2>2. CASE PremiumPayloadForRequest
    BY <2>2 DEF PremiumPayloadForRequest, Due, PaidWeekIsActive, TypeOK
  <2>3. CASE TimePasses
    BY <2>3 DEF TimePasses, PaidWeekIsActive, TypeOK, books
  <2>4. CASE UNCHANGED <<clock, customer, overtaken>>
    BY <2>4 DEF PaidWeekIsActive
  <2> QED
    BY <2>1, <2>2, <2>3, <2>4 DEF SweepReads, PremiumGate, StartWrites, Stops,
       PremiumAllowsNewExecution, PauseManagedAccountForPremium, Restart, WorkerRestarts, books
<1>4. ProcessedIsGranted' /\ OneLiveAttempt'
  BY <1>0 DEF ProcessedIsGranted, OneLiveAttempt, Live
<1>5. RequestsInStep'
  <2>1. CASE UNCHANGED request
    BY <1>0, <2>1 DEF RequestsInStep
  <2>2. CASE Restart
    <3>1. \A a \in Attempts : /\ request'[a] \in {"idle", "done"}
                              /\ request'[a] = "idle" <=> request[a] \in {"idle", "admitted"}
      BY <2>2 DEF Restart, TypeOK
    <3> QED
      BY <1>0, <3>1 DEF RequestsInStep
  <2> QED
    BY <2>1, <2>2 DEF SweepReads, SweepExpires, PremiumPayloadForRequest, PremiumGate, StartWrites,
       Stops, PremiumAllowsNewExecution, PauseManagedAccountForPremium, TimePasses, WorkerRestarts, payments
<1>6. WebhookInStep'
  <2>1. CASE UNCHANGED hook
    BY <1>0, <2>1, HookKept
  <2>2. CASE HookEnds
    BY <1>0, <2>2 DEF HookEnds, WebhookInStep, Reported
  <2> QED
    BY <1>1, <2>1, <2>2
<1> QED
  BY <1>2, <1>3, <1>4, <1>5, <1>6

-----------------------------------------------------------------------------
LEMMA PremiumStep == PremiumInvariant /\ [Next]_vars => PremiumInvariant'
<1> SUFFICES ASSUME TypeOK, Safe, [Next]_vars PROVE TypeOK' /\ Safe'
  BY DEF PremiumInvariant, Safe
<1>1. ASSUME NEW a \in Attempts,
             \/ StkRequest(a) \/ CreateAttempt(a) \/ ReuseAttempt(a)
             \/ InitiateStkPush(a) \/ SetAttemptProviderResult(a)
      PROVE  TypeOK' /\ Safe'
  BY <1>1, TypeRequest, SafeRequest
<1>2. ASSUME NEW a \in Attempts, Pays(a) \/ Declines(a) \/ Lapses(a)
      PROVE  TypeOK' /\ Safe'
  BY <1>2, TypeRequest, SafeProvider
<1>3. CASE Webhook
  BY <1>3, TypeWebhook, SafeWebhook
<1>4. CASE \/ SweepReads \/ SweepExpires \/ PremiumPayloadForRequest
           \/ PremiumGate \/ StartWrites \/ Stops
           \/ PremiumAllowsNewExecution \/ PauseManagedAccountForPremium
           \/ TimePasses \/ Restart \/ WorkerRestarts
  BY <1>4, TypeOther, SafeOther
<1>5. CASE UNCHANGED vars
  BY <1>5 DEF vars, books, payments, outside, hooks, account, TypeOK, Safe, AccessIsPaid, WeekOf,
     ProcessedIsGranted, OneLiveAttempt, Live, PaidWeekIsActive, RequestsInStep, WebhookInStep,
     Reported, transaction
<1> QED
  BY <1>1, <1>2, <1>3, <1>4, <1>5 DEF Next

(* The inductive invariant of the payments holds in every reachable state, *)
(* with the books, the attempts, the handlers and the webhook in step.     *)
THEOREM PremiumCorrect == Spec => []PremiumInvariant
BY PremiumInit, PremiumStep, PTL DEF Spec

(* Type correctness, with a customer that is unpaid exactly while nothing  *)
(* has been booked.                                                        *)
THEOREM PremiumTypes == Spec => []TypeOK
<1>1. PremiumInvariant => TypeOK
  BY DEF PremiumInvariant
<1> QED
  BY <1>1, PremiumCorrect, PTL

(* activate_weekly_access books weeks of paid attempts only.               *)
THEOREM PaidAccessOnly == Spec => []AccessIsPaid
<1>1. PremiumInvariant => AccessIsPaid
  BY DEF PremiumInvariant
<1> QED
  BY <1>1, PremiumCorrect, PTL

(* lipana_webhook acknowledges no payment it has not granted.              *)
THEOREM NoPaymentLost == Spec => []ProcessedIsGranted
<1>1. PremiumInvariant => ProcessedIsGranted
  BY DEF PremiumInvariant
<1> QED
  BY <1>1, PremiumCorrect, PTL

(* _create_or_reuse_attempt leaves at most one attempt open.               *)
THEOREM OneAttemptOpen == Spec => []OneLiveAttempt
<1>1. PremiumInvariant => OneLiveAttempt
  BY DEF PremiumInvariant
<1> QED
  BY <1>1, PremiumCorrect, PTL

(* Only a sweep that a payment has overtaken ends a paid week early.       *)
THEOREM PaidWeeksLast == Spec => []PaidWeekIsActive
<1>1. PremiumInvariant => PaidWeekIsActive
  BY DEF PremiumInvariant
<1> QED
  BY <1>1, PremiumCorrect, PTL

-----------------------------------------------------------------------------
(* No step writes an attempt that has been activated: the handlers are done*)
(* with it, and _mark_failed_from_webhook and the verification pass by.    *)
LEMMA ActivatedStays ==
  ASSUME PremiumInvariant, [Next]_vars, NEW a \in Attempts, attempt[a].activated
  PROVE  attempt'[a] = attempt[a]
<1> USE DEF PremiumInvariant
<1>0. request[a] = "done" /\ attempt[a].known
  BY DEF RequestsInStep
<1>1. CASE \E b \in Attempts : CreateAttempt(b) \/ SetAttemptProviderResult(b)
  <2>1. PICK b \in Attempts : CreateAttempt(b) \/ SetAttemptProviderResult(b)
    BY <1>1
  <2>2. a # b
    BY <1>0, <2>1 DEF CreateAttempt, SetAttemptProviderResult
  <2> QED
    BY <2>1, <2>2 DEF CreateAttempt, SetAttemptProviderResult, TypeOK
<1>2. CASE MarkFailedFromWebhook \/ VerifiedProviderTransaction \/ MarkActivated
  <2>1. hook.at \in {"failing", "verifying", "marking"} /\ transaction \in Attempts
    BY <1>2, TransactionType DEF MarkFailedFromWebhook, VerifiedProviderTransaction, MarkActivated, HookAt
  <2>2. hook.at = "verifying" => transaction # a
    BY <2>1 DEF WebhookInStep
  <2> QED
    BY <1>2, <2>1, <2>2 DEF MarkFailedFromWebhook, VerifiedProviderTransaction, MarkActivated, HookAt, TypeOK
<1>3. CASE UNCHANGED attempt
  BY <1>3
<1> QED
  BY <1>1, <1>2, <1>3 DEF Next, vars, Webhook, StkRequest, ReuseAttempt, InitiateStkPush, Pays,
     Declines, Resolve, Lapses, RecordWebhookEvent, AttemptByTransactionId, RecordRenewalFailure,
     RejectEvent, ActivateWeeklyAccess, EventProcessed, WebhookFails, SweepReads, SweepExpires,
     PremiumPayloadForRequest, PremiumGate, StartWrites, Stops, PremiumAllowsNewExecution,
     PauseManagedAccountForPremium, TimePasses, Restart, WorkerRestarts, payments

(* An activated attempt is never written again.                            *)
THEOREM ActivationsFinal == Spec => ActivationIsFinal
<1>1. PremiumInvariant /\ [Next]_vars =>
        [\A a \in Attempts : attempt[a].activated => attempt'[a] = attempt[a]]_vars
  BY ActivatedStays
<1> QED
  BY <1>1, PremiumCorrect, PTL DEF Spec, ActivationIsFinal

(* The end of the period moves only with the booking of another payment.   *)
LEMMA ExpiryKept ==
  ASSUME PremiumInvariant, [Next]_vars, customer'.ends # customer.ends
  PROVE  customer'.last # customer.last
<1> USE DEF PremiumInvariant
<1>1. ActivateWeeklyAccess
  BY DEF Next, vars, Webhook, StkRequest, CreateAttempt, ReuseAttempt, InitiateStkPush,
     SetAttemptProviderResult, Pays, Declines, Resolve, Lapses, RecordWebhookEvent,
     AttemptByTransactionId, MarkFailedFromWebhook, RecordRenewalFailure,
     VerifiedProviderTransaction, MarkActivated, RejectEvent, EventProcessed, WebhookFails,
     SweepReads, SweepExpires, PremiumPayloadForRequest, PremiumGate, StartWrites, Stops,
     PremiumAllowsNewExecution, PauseManagedAccountForPremium, TimePasses, Restart, WorkerRestarts,
     books, TypeOK
<1>2. customer.last # transaction
  BY <1>1 DEF ActivateWeeklyAccess
<1> QED
  BY <1>1, <1>2 DEF ActivateWeeklyAccess

(* A replay never extends the week it has granted.                         *)
THEOREM ReplaysKeepExpiry == Spec => ReplayKeepsExpiry
<1>1. PremiumInvariant /\ [Next]_vars =>
        [customer'.ends # customer.ends => customer'.last # customer.last]_vars
  BY ExpiryKept
<1> QED
  BY <1>1, PremiumCorrect, PTL DEF Spec, ReplayKeepsExpiry

-----------------------------------------------------------------------------
(* The books implement PaidSubscription. What is activated there is what   *)
(* carries the mark here, as the mark is written with the status.          *)
LEMMA ActivatedAreMarked ==
  ASSUME PremiumInvariant
  PROVE  Activated = {a \in Attempts : attempt[a].activated}
<1>1. ASSUME NEW a \in Attempts, attempt[a].activated
      PROVE  attempt[a] = [status |-> "success", known |-> TRUE, activated |-> TRUE]
  <2>1. attempt[a] \in AttemptType
    BY DEF PremiumInvariant, TypeOK, AttemptType
  <2>2. attempt[a].known /\ attempt[a].status = "success"
    BY <1>1 DEF PremiumInvariant, RequestsInStep
  <2> QED
    BY <1>1, <2>1, <2>2 DEF AttemptType
<1> QED
  BY <1>1 DEF Activated

LEMMA NextActivatedAreMarked ==
  ASSUME PremiumInvariant'
  PROVE  Activated' = {a \in Attempts : attempt'[a].activated}
<1>1. ASSUME NEW a \in Attempts, attempt'[a].activated
      PROVE  attempt'[a] = [status |-> "success", known |-> TRUE, activated |-> TRUE]
  <2>1. attempt'[a] \in AttemptType
    BY DEF PremiumInvariant, TypeOK, AttemptType
  <2>2. attempt'[a].known /\ attempt'[a].status = "success"
    BY <1>1 DEF PremiumInvariant, RequestsInStep
  <2> QED
    BY <1>1, <2>1, <2>2 DEF AttemptType
<1> QED
  BY <1>1 DEF Activated

(* Only _activate_verified_attempt writes the mark.                        *)
LEMMA OnlyMarkActivatedMarks ==
  ASSUME PremiumInvariant, PremiumInvariant', Next, ~MarkActivated
  PROVE  Activated' = Activated
<1>0. TypeOK /\ attempt \in [Attempts -> AttemptType]
  BY DEF PremiumInvariant, TypeOK, AttemptType
<1>1. ASSUME NEW b \in Attempts, NEW st \in AttemptStatuses,
             attempt' = [attempt EXCEPT ![b].status = st]
      PROVE  \A a \in Attempts : attempt'[a].activated = attempt[a].activated
  BY <1>0, <1>1, StatusWritten
<1>2. ASSUME NEW b \in Attempts, CreateAttempt(b) \/ SetAttemptProviderResult(b)
      PROVE  \A a \in Attempts : attempt'[a].activated = attempt[a].activated
  <2>1. CASE attempt' = [attempt EXCEPT ![b].status = "pending", ![b].known = TRUE]
    BY <1>0, <2>1 DEF AttemptType
  <2>2. CASE \E st \in AttemptStatuses : attempt' = [attempt EXCEPT ![b].status = st]
    BY <1>1, <2>2
  <2> QED
    BY <1>2, <2>1, <2>2 DEF CreateAttempt, SetAttemptProviderResult, AttemptStatuses, LiveStatuses
<1>3. ASSUME MarkFailedFromWebhook \/ VerifiedProviderTransaction
      PROVE  \A a \in Attempts : attempt'[a].activated = attempt[a].activated
  <2>1. transaction \in Attempts
    BY <1>0, <1>3, TransactionType DEF MarkFailedFromWebhook, VerifiedProviderTransaction, HookAt
  <2>2. CASE attempt' = attempt
    BY <2>2
  <2>3. CASE \E st \in AttemptStatuses : attempt' = [attempt EXCEPT ![transaction].status = st]
    BY <1>1, <2>1, <2>3
  <2> QED
    BY <1>3, <2>2, <2>3 DEF MarkFailedFromWebhook, VerifiedProviderTransaction, AttemptStatuses
<1>4. UNCHANGED attempt => \A a \in Attempts : attempt'[a].activated = attempt[a].activated
  OBVIOUS
<1>5. \A a \in Attempts : attempt'[a].activated = attempt[a].activated
  BY <1>2, <1>3, <1>4 DEF Next, Webhook, StkRequest, ReuseAttempt, InitiateStkPush, Pays,
     Declines, Resolve, Lapses, RecordWebhookEvent, AttemptByTransactionId, RecordRenewalFailure,
     RejectEvent, ActivateWeeklyAccess, EventProcessed, WebhookFails, SweepReads, SweepExpires,
     PremiumPayloadForRequest, PremiumGate, StartWrites, Stops, PremiumAllowsNewExecution,
     PauseManagedAccountForPremium, TimePasses, Restart, WorkerRestarts, payments
<1> QED
  BY <1>5, ActivatedAreMarked, NextActivatedAreMarked

(* The phone pays: nothing of the payment has been acknowledged before.    *)
LEMMA SubscriptionPays ==
  ASSUME PremiumInvariant, NEW a \in Attempts, Pays(a), Activated' = Activated
  PROVE  Subscription!Pay(a)
<1>0. TypeOK /\ WebhookInStep
  BY DEF PremiumInvariant
<1>1. /\ provider[a] = "prompted" /\ provider' = [provider EXCEPT ![a] = "paid"]
      /\ paidAt' = [paidAt EXCEPT ![a] = clock]
      /\ UNCHANGED <<clock, customer, period, event, sweep>>
  BY DEF Pays, Resolve, books, hooks
<1>2. a \notin Paid /\ Paid' = Paid \cup {a}
  BY <1>0, <1>1 DEF Paid, TypeOK
<1>3. \A e \in Events : event[e] = "processed" => TransactionOf[e] # a
  BY <1>0, <1>1 DEF WebhookInStep, Reported
<1>4. Acknowledged' = Acknowledged
  BY <1>1, <1>2, <1>3 DEF Acknowledged
<1> QED
  BY <1>1, <1>2, <1>4 DEF Subscription!Pay

(* A step that leaves the provider alone changes what was paid by nothing, *)
(* and one that leaves the events alone acknowledges nothing.              *)
LEMMA PaidKept ==
  ASSUME provider' = provider
  PROVE  Paid' = Paid /\ (event' = event => Acknowledged' = Acknowledged)
BY DEF Paid, Acknowledged

LEMMA NothingPaid ==
  ASSUME TypeOK, NEW a \in Attempts, Declines(a) \/ InitiateStkPush(a),
         provider[a] # "paid"
  PROVE  Paid' = Paid /\ Acknowledged' = Acknowledged
<1>1. event' = event
  BY DEF Declines, Resolve, InitiateStkPush, hooks
<1>2. Paid' = Paid
  BY DEF Declines, Resolve, InitiateStkPush, TypeOK, Paid
<1> QED
  BY <1>1, <1>2 DEF Acknowledged

(* An event is resolved: it is acknowledged if it is a payment's, which is *)
(* then activated.                                                         *)
LEMMA SubscriptionAcknowledges ==
  ASSUME PremiumInvariant, Activated' = Activated,
         EventProcessed \/ RejectEvent \/ AttemptByTransactionId
  PROVE  Subscription!Acknowledge(transaction) \/ UNCHANGED Subscription!vars
<1>a. TypeOK /\ WebhookInStep
  BY DEF PremiumInvariant
<1>0. /\ hook.at # "idle" /\ hook.event \in Events /\ transaction \in Attempts
      /\ transaction = TransactionOf[hook.event] /\ event[hook.event] = "open"
  <2>1. hook.at # "idle"
    BY DEF EventProcessed, RejectEvent, AttemptByTransactionId, HookAt
  <2> QED
    BY <1>a, <2>1, TransactionType DEF transaction, WebhookInStep
<1>1. UNCHANGED <<clock, provider, paidAt, period, customer, sweep>> /\ Paid' = Paid
  BY PaidKept DEF EventProcessed, RejectEvent, AttemptByTransactionId, outside, books
<1>4. CASE EventProcessed /\ provider[transaction] = "paid"
  <2>1. attempt[transaction].activated /\ transaction \in Paid
    BY <1>a, <1>0, <1>4 DEF WebhookInStep, EventProcessed, HookAt, Paid
  <2>2. transaction \in Activated
    BY <1>0, <2>1, ActivatedAreMarked
  <2>3. event' = [event EXCEPT ![hook.event] = "processed"]
    BY <1>4 DEF EventProcessed, ResolveEvent
  <2>4. Acknowledged' = Acknowledged \cup {transaction}
    BY <1>a, <1>0, <1>1, <2>1, <2>3 DEF Acknowledged, TypeOK
  <2> QED
    BY <1>1, <2>2, <2>4 DEF Subscription!Acknowledge
<1>5. CASE ~(EventProcessed /\ provider[transaction] = "paid")
  <2>1. Acknowledged' = Acknowledged
    <3>1. CASE EventProcessed
      <4>1. event' = [event EXCEPT ![hook.event] = "processed"] /\ transaction \notin Paid
        BY <1>5, <3>1 DEF EventProcessed, ResolveEvent, Paid
      <4> QED
        BY <1>a, <1>0, <1>1, <4>1 DEF Acknowledged, TypeOK
    <3>2. CASE event' = event
      BY <1>1, <3>2 DEF Acknowledged
    <3>3. CASE \E r \in {"rejected", "ignored"} : event' = [event EXCEPT ![hook.event] = r]
      BY <1>a, <1>0, <1>1, <3>3 DEF Acknowledged, TypeOK
    <3> QED
      BY <3>1, <3>2, <3>3 DEF RejectEvent, AttemptByTransactionId, ResolveEvent
  <2> QED
    BY <1>1, <2>1 DEF Subscription!vars
<1> QED
  BY <1>4, <1>5

(* A week is booked for a payment that has been made and not activated, or *)
(* it is the current one and its booking is repeated without effect.       *)
LEMMA SubscriptionGrants ==
  ASSUME PremiumInvariant, Activated' = Activated, ActivateWeeklyAccess
  PROVE  Subscription!Grant(transaction) \/ UNCHANGED Subscription!vars
<1>0. TypeOK /\ AccessIsPaid /\ hook.at = "activating" /\ transaction \in Attempts
  BY TransactionType DEF PremiumInvariant, ActivateWeeklyAccess, HookAt
<1>1. transaction \in Paid \ Activated
  <2>1. provider[transaction] = "paid" /\ ~attempt[transaction].activated
    BY <1>0 DEF PremiumInvariant, WebhookInStep
  <2> QED
    BY <1>0, <2>1 DEF Paid, Activated
<1>2. /\ UNCHANGED <<clock, provider, paidAt, event, sweep>>
      /\ Paid' = Paid /\ Acknowledged' = Acknowledged
  BY PaidKept DEF ActivateWeeklyAccess, outside
<1>3. CASE customer.last = transaction
  <2>1. period[transaction] # 0
    BY <1>0, <1>3, PaymentAssumption DEF AccessIsPaid
  <2>2. UNCHANGED <<customer, period>>
    BY <1>3, <2>1 DEF ActivateWeeklyAccess, EnsureAccessPeriod
  <2> QED
    BY <1>2, <2>2 DEF Subscription!vars
<1>4. CASE customer.last # transaction
  <2>1. PICK t \in paidAt[transaction] .. clock :
          /\ customer' = [status |-> "active", ends |-> t + PeriodLength, last |-> transaction]
          /\ EnsureAccessPeriod(transaction, t + PeriodLength)
    BY <1>4 DEF ActivateWeeklyAccess, PaymentTime
  <2>2. period' = IF period[transaction] = 0
                    THEN [period EXCEPT ![transaction] = t + PeriodLength] ELSE period
    BY <2>1 DEF EnsureAccessPeriod
  <2> QED
    BY <1>1, <1>2, <1>4, <2>1, <2>2 DEF Subscription!Grant
<1> QED
  BY <1>3, <1>4

(* The mark of an attempt is set after its week is booked.                 *)
LEMMA SubscriptionSettles ==
  ASSUME PremiumInvariant, PremiumInvariant', MarkActivated
  PROVE  Subscription!Settle(transaction)
<1>0. TypeOK /\ hook.at = "marking" /\ transaction \in Attempts
  BY TransactionType DEF PremiumInvariant, MarkActivated, HookAt
<1>1. provider[transaction] = "paid" /\ ~attempt[transaction].activated /\ period[transaction] # 0
  BY <1>0 DEF PremiumInvariant, WebhookInStep
<1>2. /\ UNCHANGED <<clock, customer, period, provider, paidAt, event, sweep>>
      /\ Paid' = Paid /\ Acknowledged' = Acknowledged
  BY PaidKept DEF MarkActivated, outside, books
<1>3. /\ attempt'[transaction].activated
      /\ \A a \in Attempts \ {transaction} : attempt'[a] = attempt[a]
  BY <1>0, <1>1 DEF MarkActivated, TypeOK
<1>4. Activated' = Activated \cup {transaction}
  BY <1>0, <1>3, ActivatedAreMarked, NextActivatedAreMarked
<1> QED
  BY <1>0, <1>1, <1>2, <1>4 DEF Subscription!Settle, Paid

(* Access ends when it is due, or when the sweep has found it so.          *)
LEMMA SubscriptionEnds ==
  ASSUME PremiumInvariant, Activated' = Activated,
         \/ RecordRenewalFailure \/ SweepReads \/ SweepExpires
         \/ PremiumPayloadForRequest \/ Restart
  PROVE  Subscription!Next \/ UNCHANGED Subscription!vars
<1>0. /\ UNCHANGED <<clock, period, provider, paidAt, event>>
      /\ Paid' = Paid /\ Acknowledged' = Acknowledged
  BY PaidKept DEF RecordRenewalFailure, SweepReads, SweepExpires, PremiumPayloadForRequest, Restart,
     books, outside, hooks
<1>t. TypeOK
  BY DEF PremiumInvariant
<1>1. CASE SweepReads
  <2>1. Subscription!Decide
    BY <1>0, <1>1 DEF SweepReads, Due, Subscription!Decide, Subscription!Due, books
  <2> QED
    BY <2>1 DEF Subscription!Next
<1>2. CASE SweepExpires
  <2>1. Subscription!Expire
    BY <1>0, <1>2 DEF SweepExpires, Subscription!Expire
  <2> QED
    BY <2>1 DEF Subscription!Next
<1>3. CASE PremiumPayloadForRequest
  <2>1. Subscription!Expire
    BY <1>0, <1>3 DEF PremiumPayloadForRequest, Due, Subscription!Expire, Subscription!Due
  <2> QED
    BY <2>1 DEF Subscription!Next
<1>4. CASE Restart
  <2>1. Subscription!Forget
    BY <1>0, <1>4 DEF Restart, Subscription!Forget, books
  <2> QED
    BY <2>1 DEF Subscription!Next
<1>5. CASE RecordRenewalFailure
  <2>1. sweep' = sweep
    BY <1>5 DEF RecordRenewalFailure
  <2>2. CASE customer' = customer
    BY <1>0, <2>1, <2>2 DEF Subscription!vars
  <2>3. CASE customer' # customer
    <3>1. /\ ~Active
          /\ customer' = [customer EXCEPT !.status = IF customer.ends = 0 THEN "unpaid" ELSE "expired"]
      BY <1>5, <2>3 DEF RecordRenewalFailure
    <3>2. customer.ends # 0 /\ customer.status = "active"
      BY <1>t, <2>3, <3>1 DEF TypeOK
    <3>3. customer.ends <= clock
      <4>1. customer.ends \in Nat /\ clock \in Nat
        BY <1>t, PaymentAssumption DEF TypeOK
      <4> QED
        BY <3>1, <3>2, <4>1 DEF Active, ActiveAt
    <3>4. Subscription!Expire
      BY <1>0, <2>1, <3>1, <3>2, <3>3 DEF Subscription!Expire, Subscription!Due
    <3> QED
      BY <3>4 DEF Subscription!Next
  <2> QED
    BY <2>2, <2>3
<1> QED
  BY <1>1, <1>2, <1>3, <1>4, <1>5

(* Every step of the payments is a step of the subscription or none.       *)
LEMMA SubscriptionStep ==
  ASSUME PremiumInvariant, [Next]_vars
  PROVE  [Subscription!Next]_(Subscription!vars)
<1>0. PremiumInvariant' /\ TypeOK
  BY PremiumStep DEF PremiumInvariant
<1>1. CASE UNCHANGED vars
  BY <1>1 DEF vars, books, payments, outside, hooks, account, Subscription!vars, Paid, Activated,
     Acknowledged
<1>2. CASE MarkActivated
  <2>1. transaction \in Attempts
    BY <1>0, <1>2, TransactionType DEF MarkActivated, HookAt
  <2> QED
    BY <1>0, <1>2, <2>1, SubscriptionSettles DEF Subscription!Next
<1>3. CASE Next /\ ~MarkActivated
  <2>0. Activated' = Activated
    BY <1>0, <1>3, OnlyMarkActivatedMarks
  <2>1. ASSUME NEW a \in Attempts, Pays(a) PROVE Subscription!Next
    BY <2>0, <2>1, SubscriptionPays DEF Subscription!Next
  <2>2. ASSUME NEW a \in Attempts, Declines(a) \/ InitiateStkPush(a)
        PROVE  UNCHANGED Subscription!vars
    <3>1. provider[a] # "paid"
      BY <2>2 DEF Declines, Resolve, InitiateStkPush, PremiumInvariant, RequestsInStep
    <3>2. Paid' = Paid /\ Acknowledged' = Acknowledged
      BY <1>0, <2>2, <3>1, NothingPaid
    <3>3. UNCHANGED <<clock, customer, period, paidAt, sweep>>
      BY <2>2 DEF Declines, Resolve, InitiateStkPush, books
    <3> QED
      BY <2>0, <3>2, <3>3 DEF Subscription!vars
  <2>3. CASE EventProcessed \/ RejectEvent \/ AttemptByTransactionId
    <3>1. transaction \in Attempts
      BY <1>0, <2>3, TransactionType DEF EventProcessed, RejectEvent, AttemptByTransactionId, HookAt
    <3> QED
      BY <2>0, <2>3, <3>1, SubscriptionAcknowledges DEF Subscription!Next
  <2>4. CASE ActivateWeeklyAccess
    <3>1. transaction \in Attempts
      BY <1>0, <2>4, TransactionType DEF ActivateWeeklyAccess, HookAt
    <3> QED
      BY <2>0, <2>4, <3>1, SubscriptionGrants DEF Subscription!Next
  <2>5. CASE \/ RecordRenewalFailure \/ SweepReads \/ SweepExpires
             \/ PremiumPayloadForRequest \/ Restart
    BY <2>0, <2>5, SubscriptionEnds
  <2>6. CASE TimePasses
    <3>1. Paid' = Paid /\ Acknowledged' = Acknowledged
      BY <2>6, PaidKept DEF TimePasses, outside, hooks
    <3>2. Subscription!Tick
      BY <2>0, <2>6, <3>1 DEF TimePasses, Subscription!Tick, books, outside
    <3> QED
      BY <3>2 DEF Subscription!Next
  <2>7. CASE UNCHANGED <<clock, books, outside, event, sweep>>
    BY <2>0, <2>7, PaidKept DEF Subscription!vars, books, outside
  <2>8. CASE \/ \E a \in Attempts : \/ StkRequest(a) \/ CreateAttempt(a) \/ ReuseAttempt(a)
                                   \/ SetAttemptProviderResult(a) \/ Lapses(a)
             \/ \E e \in Events : RecordWebhookEvent(e)
             \/ MarkFailedFromWebhook \/ VerifiedProviderTransaction \/ WebhookFails
             \/ PremiumGate \/ StartWrites \/ Stops
             \/ PremiumAllowsNewExecution \/ PauseManagedAccountForPremium \/ WorkerRestarts
    BY <2>7, <2>8 DEF StkRequest, CreateAttempt, ReuseAttempt, SetAttemptProviderResult, Lapses,
       RecordWebhookEvent, MarkFailedFromWebhook, VerifiedProviderTransaction, WebhookFails,
       PremiumGate, StartWrites, Stops, PremiumAllowsNewExecution, PauseManagedAccountForPremium,
       WorkerRestarts, hooks
  <2> QED
    BY <1>3, <2>1, <2>2, <2>3, <2>4, <2>5, <2>6, <2>8 DEF Next, Webhook
<1> QED
  BY <1>1, <1>2, <1>3

(* The payments implement PaidSubscription, for any attempts, events,      *)
(* length of a period and end of the clock: only a payment that was made   *)
(* grants a week, a week is booked once, an activated attempt grants       *)
(* nothing, and only such a payment is acknowledged.                       *)
THEOREM PaymentsKeepSubscription == Spec => KeepsSubscription
<1>1. Init => Subscription!Init
  <2> SUFFICES ASSUME Init PROVE Subscription!Init
    OBVIOUS
  <2>1. Paid = {} /\ Activated = {} /\ Acknowledged = {}
    BY DEF Init, Paid, Activated, Acknowledged
  <2> QED
    BY <2>1 DEF Init, Subscription!Init
<1>2. PremiumInvariant /\ [Next]_vars => [Subscription!Next]_(Subscription!vars)
  BY SubscriptionStep
<1> QED
  BY <1>1, <1>2, PremiumCorrect, PTL DEF Spec, KeepsSubscription, Subscription!Spec

=============================================================================
