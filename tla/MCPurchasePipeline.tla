------------------------- MODULE MCPurchasePipeline -------------------------
(* Three signals: an uncertain or open purchase, a same-stake one next to  *)
(* it in the provider's history, and the attempt that must not overlap.    *)
EXTENDS PurchasePipeline, TLC

Symmetry == Permutations(Signals)
=============================================================================
