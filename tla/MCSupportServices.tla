---------------------------- MODULE MCSupportServices ----------------------------
(* A small instance of the support services.                               *)
EXTENDS SupportServices

CONSTANTS e1, e2, b1, b2, b3, i1, i2, k1, k2, ja, jb, a1, a2, trade, evidence, warmup

(* A row asks for both events, the launch rule for one or both; the         *)
(* provider may watch one before.                                          *)
AllAsks == [Handles -> {{e1, e2}}]
SomeAsks == [Handles -> {{e1}, {e1, e2}}]
Foreign == {{}, {e2}}

(* A post about two tokens, and one event that reports two follows.        *)
EventItems == i1 :> <<b1>> @@ i2 :> <<b2, b3>>
Kinds == b1 :> "tweet" @@ b2 :> "follow" @@ b3 :> "follow"
Matches == b1 :> {k1, k2} @@ b2 :> {k1} @@ b3 :> {k1}

RateWeight == trade :> 4 @@ evidence :> 2 @@ warmup :> 3
RatePriority == trade :> 1 @@ evidence :> 2 @@ warmup :> 5
RateDeadline == trade :> 3 @@ evidence :> 2 @@ warmup :> Never
RateRequests == trade :> {1, 3} @@ evidence :> {2} @@ warmup :> {3}

JobItems == ja :> {a1} @@ jb :> {a2}
SameToken == a1 :> "dog" @@ a2 :> "dog"
=============================================================================
