----------------------------- MODULE MCBuyLifecycle -----------------------------
EXTENDS BuyLifecycle, TLC

CONSTANTS s1, s2, t1, t2

(* two signals for two contracts, and two signals for one contract *)
TwoTokens == s1 :> t1 @@ s2 :> t2
OneToken == [s \in Signals |-> t1]
=============================================================================
