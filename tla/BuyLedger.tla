-------------------------------- MODULE BuyLedger --------------------------------
(***************************************************************************)
(* What the accounting of live buys promises, whatever the intents, the    *)
(* attempts, the wallet lane and the provider do in between.               *)
(*                                                                         *)
(* A signal's principal is reserved once and handed back at most once.     *)
(* Money can leave the wallet only after its reservation.  Every fill is   *)
(* booked once, as a position lot: the first fill of a signal takes up the *)
(* reservation, and a fill the reservation no longer stands for is booked  *)
(* as a deficit, so it is never taken for a funded buy.                    *)
(***************************************************************************)
EXTENDS FiniteSets

CONSTANTS Signals, Attempts     \* an attempt is <<its signal, its number>>

VARIABLES
    budget,     \* of each signal: "none", "reserved", "released", "committed"
    filled,     \* attempts that bought tokens on the chain
    lots,       \* attempts whose fill is booked
    deficits    \* booked fills no reservation stood for

ledgerVars == <<budget, filled, lots, deficits>>

Booked(s) == {a \in lots : a[1] = s}

LedgerInit ==
    /\ budget = [s \in Signals |-> "none"]
    /\ filled = {} /\ lots = {} /\ deficits = {}

Reserve(s) ==
    /\ budget[s] = "none"
    /\ budget' = [budget EXCEPT ![s] = "reserved"]
    /\ UNCHANGED <<filled, lots, deficits>>

HandBack(s) ==
    /\ budget[s] = "reserved"
    /\ budget' = [budget EXCEPT ![s] = "released"]
    /\ UNCHANGED <<filled, lots, deficits>>

Fill(a) ==
    /\ a \notin filled /\ budget[a[1]] # "none"
    /\ filled' = filled \cup {a}
    /\ UNCHANGED <<budget, lots, deficits>>

BookFirst(a) ==
    /\ a \in filled /\ Booked(a[1]) = {}
    /\ lots' = lots \cup {a}
    /\ budget' = [budget EXCEPT ![a[1]] = "committed"]
    /\ deficits' = IF budget[a[1]] = "reserved" THEN deficits ELSE deficits \cup {a}
    /\ UNCHANGED filled

BookFurther(a) ==
    /\ a \in filled \ lots /\ Booked(a[1]) # {}
    /\ lots' = lots \cup {a}
    /\ deficits' = deficits \cup {a}
    /\ UNCHANGED <<budget, filled>>

LedgerNext ==
    \/ \E s \in Signals : Reserve(s) \/ HandBack(s)
    \/ \E a \in Attempts : Fill(a) \/ BookFirst(a) \/ BookFurther(a)

LedgerSpec == LedgerInit /\ [][LedgerNext]_ledgerVars
=============================================================================
