---------------------------- MODULE MCPositionClose ----------------------------
(* Instances of PositionClose for TLC. *)
EXTENDS PositionClose

Guarded == [foreign |-> 1, percents |-> {100}, protected |-> TRUE, sells |-> 2]
ByHalves == [foreign |-> 0, percents |-> {50}, protected |-> FALSE, sells |-> 3]
TwoHalves == [ByHalves EXCEPT !.sells = 2]
Bare == [foreign |-> 0, percents |-> {100}, protected |-> FALSE, sells |-> 2]

RaceSettings == {Guarded, ByHalves}
EndSettings == {TwoHalves}
RetrySettings == {Bare}
=============================================================================
