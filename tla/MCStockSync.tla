----------------------------- MODULE MCStockSync -----------------------------
(* Instances of StockSync for TLC. *)
EXTENDS StockSync, TLC

CONSTANTS s1, s2, o1, o2

\* Both orders are for the first SKU.
BothFirst == (o1 :> s1) @@ (o2 :> s1)

\* The stock of the second SKU is there to be missed, not to be changed.
FirstVaries == (s1 :> 1..3) @@ (s2 :> {2})
=============================================================================
