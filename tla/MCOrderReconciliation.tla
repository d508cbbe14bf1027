------------------------- MODULE MCOrderReconciliation -------------------------
(* One sale of a position that holds more, with a hot timer beside the     *)
(* reconciler's own.                                                       *)
EXTENDS OrderReconciliation

SaleOfHalf == {[side |-> "sell", chain |-> "sol", odd |-> FALSE, hot |-> TRUE, hash |-> 1, lots |-> 2]}
=============================================================================
