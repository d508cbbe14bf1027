----------------------------- MODULE MCLiveServices -----------------------------
(* A small instance of the live services.                                  *)
EXTENDS LiveServices

(* Two tokens that share a symbol; one dominates the other's market.       *)
Dog == [chain |-> "bsc", address |-> "d1", symbol |-> "DOG", name |-> "dog", launchpad |-> "flap",
        cap |-> 4, liquidity |-> 4, known |-> 3, counted |-> TRUE]
Pup == [Dog EXCEPT !.address = "d2", !.name = "pup", !.launchpad = "pump", !.cap = 1, !.liquidity = 1]
Pair == {Dog, Pup}

Term(type, value) == [type |-> type, value |-> value, own |-> TRUE]
CallPost == [id |-> 1, event |-> "tweet", language |-> {"buy"},
             terms |-> {Term("cashtag", "DOG")}, platforms |-> {}]
FullPost == [id |-> 2, event |-> "tweet", language |-> {},
             terms |-> {Term("ca", "d1")}, platforms |-> {}]
TwoPosts == {CallPost, FullPost}
Resolved == CallPost :> Dog @@ FullPost :> Dog

AnyTerm == [mode |-> "live", enabled |-> TRUE, chains |-> {"bsc"}, types |-> {"ca", "cashtag"},
            aliases |-> {}, perTrade |-> 1, daily |-> 2, newTokens |-> 2, buys |-> 2]
AddressOnly == [AnyTerm EXCEPT !.mode = "paper", !.types = {"ca"}]
TwoConfigurations == {AnyTerm, AddressOnly}
TokenAnswers == Dog :> {"tradable", "failed"} @@ Pup :> {"tradable"}

(* A sale that is replaced on the chain, a buy with its hot timer, and a   *)
(* sale whose proceeds do not add up.                                      *)
Order(side, on, odd, hot, hash) ==
    [side |-> side, chain |-> on, odd |-> odd, hot |-> hot, hash |-> hash, lots |-> 2]
ThreeOrders == {Order("sell", "evm", FALSE, FALSE, 1), Order("buy", "sol", FALSE, TRUE, 1),
                Order("sell", "sol", TRUE, FALSE, NoHash)}
=============================================================================
