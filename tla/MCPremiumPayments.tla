------------------------- MODULE MCPremiumPayments -------------------------
(* Two payment attempts, each reported in a body of its own.               *)
EXTENDS PremiumPayments, TLC

CONSTANTS a1, a2, e1, e2
MCTransactionOf == e1 :> a1 @@ e2 :> a2
=============================================================================
