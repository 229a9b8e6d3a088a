-------------------------- MODULE PurchaseJournal --------------------------
(***************************************************************************)
(* What a purchase pipeline promises, without tasks, sessions or locks:    *)
(* qualifying signals are attempted one at a time, each at most once; a    *)
(* contract is bought only under its own attempt, and at most one; what is *)
(* booked has happened at the provider, is booked once, and its result is  *)
(* booked once; and every attempt ends.                                    *)
(***************************************************************************)
CONSTANT Signals

VARIABLES attempt,   \* "unused", "active" or "over"
          contract,  \* the provider's: "none", "open" or "settled"
          booked     \* the ledger's: "none", "open" or "settled"

vars == <<attempt, contract, booked>>

Init ==
  /\ attempt = [a \in Signals |-> "unused"]
  /\ contract = [a \in Signals |-> "none"]
  /\ booked = [a \in Signals |-> "none"]

Begin(a) ==
  /\ attempt[a] = "unused" /\ \A b \in Signals : attempt[b] # "active"
  /\ attempt' = [attempt EXCEPT ![a] = "active"]
  /\ UNCHANGED <<contract, booked>>

Buy(a) ==
  /\ attempt[a] = "active" /\ contract[a] = "none"
  /\ contract' = [contract EXCEPT ![a] = "open"]
  /\ UNCHANGED <<attempt, booked>>

Booking(a) ==
  /\ contract[a] # "none" /\ booked[a] = "none"
  /\ booked' = [booked EXCEPT ![a] = "open"]

(* The attempt ends, with its contract booked in the same step or not.     *)
End(a) ==
  /\ attempt[a] = "active"
  /\ attempt' = [attempt EXCEPT ![a] = "over"]
  /\ Booking(a) \/ UNCHANGED booked
  /\ UNCHANGED contract

(* A contract is booked after its attempt.                                 *)
Book(a) == Booking(a) /\ attempt[a] = "over" /\ UNCHANGED <<attempt, contract>>

Settle(a) ==
  /\ contract[a] = "open"
  /\ contract' = [contract EXCEPT ![a] = "settled"]
  /\ UNCHANGED <<attempt, booked>>

BookResult(a) ==
  /\ booked[a] = "open" /\ contract[a] = "settled"
  /\ booked' = [booked EXCEPT ![a] = "settled"]
  /\ UNCHANGED <<attempt, contract>>

Next == \E a \in Signals : Begin(a) \/ Buy(a) \/ End(a) \/ Book(a)
                           \/ Settle(a) \/ BookResult(a)

Spec == Init /\ [][Next]_vars

FairSpec == Spec /\ \A a \in Signals : WF_vars(End(a))
=============================================================================
