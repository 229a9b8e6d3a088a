-------------------------- MODULE PaidSubscription --------------------------
(***************************************************************************)
(* What a prepaid subscription promises, without attempts, prompts,        *)
(* webhooks or threads: a payment that was made grants one period, which   *)
(* ends a fixed time after some moment since the payment; access is the    *)
(* period of one payment and only ever ends because it was due when that   *)
(* was decided; a payment is settled once its period is booked, grants     *)
(* nothing from then on, and only then is its notice acknowledged.         *)
(***************************************************************************)
EXTENDS Naturals

CONSTANTS Payments, NoPayment, Length

VARIABLES now,
          paid,          \* the payments that were made
          paidAt,        \* when
          week,          \* the end of the period booked for each, 0: none
          access,        \* its status, its end, and the payment it is for
          settled,       \* payments that have had their effect
          acknowledged,  \* payments whose notice is never acted on again
          decided        \* somebody has found the access due, and may end it late

vars == <<now, paid, paidAt, week, access, settled, acknowledged, decided>>

Init ==
  /\ now = 0
  /\ paid = {} /\ paidAt = [p \in Payments |-> 0]
  /\ week = [p \in Payments |-> 0]
  /\ access = [status |-> "unpaid", ends |-> 0, last |-> NoPayment]
  /\ settled = {} /\ acknowledged = {}
  /\ decided = FALSE

Due == access.status = "active" /\ access.ends <= now

Tick ==
  /\ now' = now + 1
  /\ UNCHANGED <<paid, paidAt, week, access, settled, acknowledged, decided>>

Pay(p) ==
  /\ p \notin paid /\ paid' = paid \cup {p}
  /\ paidAt' = [paidAt EXCEPT ![p] = now]
  /\ UNCHANGED <<now, week, access, settled, acknowledged, decided>>

(* The period of a payment is booked at most once. Access moves to it, and *)
(* again if another payment has come in between and it is not settled yet. *)
Grant(p) ==
  /\ p \in paid \ settled /\ access.last # p
  /\ \E t \in paidAt[p] .. now :
       /\ access' = [status |-> "active", ends |-> t + Length, last |-> p]
       /\ week' = IF week[p] = 0 THEN [week EXCEPT ![p] = t + Length] ELSE week
  /\ UNCHANGED <<now, paid, paidAt, settled, acknowledged, decided>>

Settle(p) ==
  /\ p \in paid /\ week[p] # 0
  /\ settled' = settled \cup {p}
  /\ UNCHANGED <<now, paid, paidAt, week, access, acknowledged, decided>>

Acknowledge(p) ==
  /\ p \in settled
  /\ acknowledged' = acknowledged \cup {p}
  /\ UNCHANGED <<now, paid, paidAt, week, access, settled, decided>>

Decide ==
  /\ Due /\ decided' = TRUE
  /\ UNCHANGED <<now, paid, paidAt, week, access, settled, acknowledged>>

Forget ==
  /\ decided' = FALSE
  /\ UNCHANGED <<now, paid, paidAt, week, access, settled, acknowledged>>

Expire ==
  /\ Due \/ decided
  /\ access' = [access EXCEPT !.status = "expired"]
  /\ decided' \in {decided, FALSE}
  /\ UNCHANGED <<now, paid, paidAt, week, settled, acknowledged>>

Next ==
  \/ Tick \/ Decide \/ Forget \/ Expire
  \/ \E p \in Payments : Pay(p) \/ Grant(p) \/ Settle(p) \/ Acknowledge(p)

Spec == Init /\ [][Next]_vars
=============================================================================
