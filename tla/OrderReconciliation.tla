-------------------------- MODULE OrderReconciliation --------------------------
(***************************************************************************)
(* Who settles an order, and from what.  An order of the provider is looked*)
(* at by the reconciler's timer, which lists the due orders and goes       *)
(* through the list, and by the hot timers a submission starts             *)
(* (reconciliation-service.js).  A claim with a lease of 15 s keeps them   *)
(* apart (trade-repository.js), but what they work from is the row they    *)
(* read before they had it.                                                *)
(*                                                                         *)
(* This module has one order in full: the provider's answers, the receipts *)
(* of the chain (chain-receipt-service.js), replaced transactions, and the *)
(* order in which rows are read and written.  What a settlement or a       *)
(* failure does to intents, budgets and lanes is in BuyLifecycle and       *)
(* PositionClose.                                                          *)
(***************************************************************************)
EXTENDS Naturals

CONSTANTS
    Sorts,                  \* the orders of the instance: [side, chain, odd]
    HotTimers,              \* wakeOrder starts three
    MaxMishaps              \* crashes, and calls that fail or lag when the order is final

NoHash == 0

ASSUME ReconciliationAssumption ==
    /\ Sorts \subseteq [side : {"buy", "sell"}, chain : {"sol", "evm"},
                     odd : BOOLEAN, hot : BOOLEAN, hash : {NoHash, 1}, lots : Nat]
    /\ MaxMishaps \in Nat

VARIABLES
    sort,       \* of the order, fixed
    order,      \* trade_orders: [status, hash, claim, lapsed]
    attempt,    \* trade_attempts.status
    booked,     \* settlements of the order
    remaining,  \* lots of the position, in amounts of the order
    tx,         \* the chain: [hash, state] of the order's transaction
    at,         \* what each worker is at
    read,       \* the row it read: [status, hash]
    heard,      \* the provider's answer, then the receipt's verdict: [what, hash]
    mishaps

reconcilerVars == <<sort, order, attempt, booked, remaining, tx, at, read, heard, mishaps>>

Reconcilers == {"batch"} \cup HotTimers

DueStatuses == {"submitted", "chain_verifying", "failure_verifying", "definitive_failed_no_fill"}
NoRow == [status |-> "unread", hash |-> NoHash]
Nothing == [what |-> "nothing", hash |-> NoHash]

ReconcilerInit ==
    /\ sort \in Sorts
    /\ order = [status |-> "submitted", hash |-> sort.hash, claim |-> "nobody", lapsed |-> FALSE]
    /\ attempt = "submitted" /\ booked = 0
    /\ remaining = IF sort.side = "sell" THEN sort.lots ELSE 0
    /\ tx = [hash |-> 1, state |-> "pool"]
    /\ at = [w \in Reconcilers |-> IF w = "batch" THEN "rest" ELSE IF sort.hot THEN "set" ELSE "over"]
    /\ read = [w \in Reconcilers |-> NoRow]
    /\ heard = [w \in Reconcilers |-> Nothing]
    /\ mishaps = 0

Goes(w, where) == at' = [at EXCEPT ![w] = where]
RowUsed(w) == read' = [read EXCEPT ![w] = NoRow]
Forgets(w) == RowUsed(w) /\ heard' = [heard EXCEPT ![w] = Nothing]
GoesToRest(w) == Goes(w, IF w = "batch" THEN "rest" ELSE "over") /\ Forgets(w)
Ends(w) == Goes(w, "done") /\ Forgets(w)

(* Misfortune has no bound until the transaction is final.                 *)
Mishap == tx.state = "final" => mishaps < MaxMishaps
MishapCounted == mishaps' = IF tx.state = "final" THEN mishaps + 1 ELSE mishaps

-----------------------------------------------------------------------------
(* What the outside says.                                                  *)

(* The provider calls an order confirmed once it has sent it, and may lag, *)
(* or give an order up that is still on its way.                           *)
ProviderSays ==
    {[what |-> "pending", hash |-> NoHash]}
    \cup [what : IF tx.state \in {"pool", "final"} THEN {"confirmed"} ELSE {}, hash : {tx.hash}]
    \cup [what : IF tx.state # "final" THEN {"failed"} ELSE {}, hash : {NoHash, tx.hash}]

(* verifyEvm and verifySolana, for a hash the worker has.                  *)
ReceiptOf(hash) ==
    IF hash = NoHash THEN "unavailable"
    ELSE IF hash # tx.hash \/ tx.state = "gone" THEN IF sort.chain = "evm" THEN "dropped" ELSE "pending"
    ELSE [pool |-> "pending", final |-> "confirmed", reverted |-> "failed"][tx.state]

(* A transfer of another amount, or proceeds nobody can verify.            *)
Matches == ~sort.odd

-----------------------------------------------------------------------------
(* reconcileOrder.                                                         *)

(* listDueOrders, or getOrderForReconciliation: the row that is used.      *)
ReadRow(w) ==
    /\ IF w = "batch" THEN at[w] = "rest" /\ order.status \in DueStatuses
       ELSE at[w] = "set" /\ order.status # "confirmed"
    /\ read' = [read EXCEPT ![w] = [status |-> order.status, hash |-> order.hash]]
    /\ heard' = [heard EXCEPT ![w] = Nothing]
    /\ Goes(w, "listed")
    /\ UNCHANGED <<sort, order, attempt, booked, remaining, tx, mishaps>>

HotTimerLate(w) ==
    /\ at[w] = "set" /\ order.status = "confirmed" /\ Goes(w, "over")
    /\ UNCHANGED <<sort, order, attempt, booked, remaining, tx, read, heard, mishaps>>

(* Slip: a claim is never taken over.                                      *)
MayClaimUnheld == order.claim = "nobody"

MayClaim == order.claim = "nobody" \/ order.lapsed

(* claimOrderReconciliation asks for the claim alone; an order that was    *)
(* being verified is not asked about again.                                *)
ClaimOrder(w) ==
    /\ at[w] = "listed"
    /\ IF MayClaim
       THEN /\ order' = [order EXCEPT !.claim = w, !.lapsed = FALSE]
            /\ IF read[w].status = "chain_verifying"
               THEN /\ Goes(w, "receipt") /\ RowUsed(w)
                    /\ heard' = [heard EXCEPT ![w].hash = read[w].hash]
               ELSE Goes(w, "claimed") /\ UNCHANGED <<read, heard>>
       ELSE GoesToRest(w) /\ UNCHANGED order
    /\ UNCHANGED <<sort, attempt, booked, remaining, tx, mishaps>>

AskProvider(w) ==
    /\ at[w] = "claimed" /\ Goes(w, "answered")
    /\ \E answer \in ProviderSays :
          /\ heard' = [heard EXCEPT ![w] = answer]
          /\ IF answer.what = "confirmed" THEN UNCHANGED mishaps ELSE Mishap /\ MishapCounted
    /\ UNCHANGED <<sort, order, attempt, booked, remaining, tx, read>>

(* updateOrderAfterQuery writes whatever the order has become meanwhile.   *)
(* A proven failure under audit is told apart by the row that was read.    *)
PersistedStatus(w) ==
    IF heard[w].what = "confirmed" THEN "chain_verifying"
    ELSE IF read[w].status = "definitive_failed_no_fill" THEN "definitive_failed_no_fill"
    ELSE IF heard[w].what = "failed" THEN "failure_verifying" ELSE "submitted"

KnownHash(hash) == IF hash = NoHash THEN order.hash ELSE hash

UpdateOrderAfterQuery(w) ==
    /\ at[w] = "answered"
    /\ order' = [order EXCEPT !.status = PersistedStatus(w), !.hash = KnownHash(heard[w].hash)]
    /\ \/ heard[w].what = "confirmed" /\ Goes(w, "receipt") /\ RowUsed(w) /\ UNCHANGED heard
       \/ PersistedStatus(w) = "failure_verifying" /\ Goes(w, "failing") /\ RowUsed(w) /\ UNCHANGED heard
       \/ PersistedStatus(w) \in {"submitted", "definitive_failed_no_fill"} /\ Ends(w)
    /\ UNCHANGED <<sort, attempt, booked, remaining, tx, mishaps>>

-----------------------------------------------------------------------------
(* verifyFailedOrder.                                                      *)

BeginVerification(w) ==
    /\ at[w] = "failing" /\ Goes(w, "proving")
    /\ attempt' = IF attempt \in {"submitted", "reconciliation_required"} THEN "failure_verifying" ELSE attempt
    /\ order' = [order EXCEPT !.status = "failure_verifying"]
    /\ UNCHANGED <<sort, booked, remaining, tx, read, heard, mishaps>>

(* With a hash the receipt says so; without one the wallet's balances have *)
(* stood still for a while.                                                *)
Proven(hash) ==
    IF hash # NoHash THEN ReceiptOf(hash) = "failed" ELSE tx.state \in {"pool", "gone"}

(* scheduleAfterDefinitiveFailure: the attempt and its order.              *)
ProveFailed(w) ==
    /\ at[w] = "proving" /\ Proven(heard[w].hash) /\ Ends(w)
    /\ attempt' = "definitive_failed_no_fill"
    /\ order' = [order EXCEPT !.status = IF attempt = "definitive_failed_no_fill" THEN @
                                         ELSE "definitive_failed_no_fill"]
    /\ UNCHANGED <<sort, booked, remaining, tx, mishaps>>

(* markUncertain; without a hash also because a check could not be made.   *)
MarkAttemptUncertain(w) ==
    /\ at[w] = "proving" /\ Ends(w)
    /\ heard[w].hash # NoHash => ~Proven(heard[w].hash)
    /\ attempt' = "reconciliation_required"
    /\ UNCHANGED <<sort, order, booked, remaining, tx, mishaps>>

(* The observation window is still open.                                   *)
KeepObserving(w) ==
    /\ at[w] = "proving" /\ heard[w].hash = NoHash /\ Ends(w)
    /\ UNCHANGED <<sort, order, attempt, booked, remaining, tx, mishaps>>

-----------------------------------------------------------------------------
(* The receipt, and what follows from it.                                  *)

(* Slip: what the provider calls confirmed needs no receipt.               *)
VerifyAsTold(w) ==
    /\ at[w] = "receipt" /\ Goes(w, "verified")
    /\ heard' = [heard EXCEPT ![w].what = IF @ = "confirmed" THEN @ ELSE ReceiptOf(heard[w].hash)]
    /\ UNCHANGED <<sort, order, attempt, booked, remaining, tx, read, mishaps>>

VerifyReceipt(w) ==
    /\ at[w] = "receipt" /\ Goes(w, "verified")
    /\ heard' = [heard EXCEPT ![w].what = ReceiptOf(heard[w].hash)]
    /\ UNCHANGED <<sort, order, attempt, booked, remaining, tx, read, mishaps>>

(* recoverEvmReplacement: the provider names another hash.                 *)
RecoverEvmReplacement(w) ==
    /\ at[w] = "verified" /\ heard[w].what = "dropped" /\ Ends(w)
    /\ \E answer \in ProviderSays :
          /\ answer.what = "confirmed" /\ answer.hash # heard[w].hash
          /\ order' = [order EXCEPT !.status = "chain_verifying", !.hash = answer.hash]
    /\ UNCHANGED <<sort, attempt, booked, remaining, tx, mishaps>>

(* transitionAttempt for review; it throws if the attempt has moved on.    *)
MayReview == attempt \in {"submitted", "reconciliation_required"}

ReviewMismatch(w) ==
    /\ at[w] = "verified" /\ heard[w].what = "confirmed" /\ ~Matches /\ Ends(w)
    /\ attempt' = IF MayReview THEN "reconciliation_required" ELSE attempt
    /\ UNCHANGED <<sort, order, booked, remaining, tx, mishaps>>

(* The last UPDATE asks for nothing but the order's id.                    *)
KeepVerifying(w) ==
    LET bad == heard[w].what \in {"failed", "dropped"} IN
    /\ at[w] = "verified" /\ heard[w].what # "confirmed" /\ Ends(w)
    /\ attempt' = IF bad /\ MayReview THEN "reconciliation_required" ELSE attempt
    /\ order' = IF bad /\ ~MayReview THEN order ELSE [order EXCEPT !.status = "chain_verifying"]
    /\ IF heard[w].what = "dropped" THEN Mishap /\ MishapCounted ELSE UNCHANGED mishaps
    /\ UNCHANGED <<sort, booked, remaining, tx>>

SettledInFull == order.status = "confirmed" /\ attempt = "confirmed"

(* finalizeConfirmedOrder, finalizeAdditionalBuyFill and                   *)
(* finalizeConfirmedSellOrder: a buy's order has one lot (a unique index), *)
(* a sale takes its amount from the lots.                                  *)
MayBook == IF sort.side = "buy" THEN booked = 0 ELSE remaining > 0

FinalizeOrder(w) ==
    /\ at[w] = "verified" /\ heard[w].what = "confirmed" /\ Matches /\ Ends(w)
    /\ IF ~SettledInFull /\ MayBook
       THEN /\ order' = [order EXCEPT !.status = "confirmed"] /\ attempt' = "confirmed"
            /\ booked' = booked + 1
            /\ remaining' = IF sort.side = "buy" THEN remaining + 1 ELSE remaining - 1
       ELSE UNCHANGED <<order, attempt, booked, remaining>>
    /\ UNCHANGED <<sort, tx, mishaps>>

(* A call of the provider or the chain throws.                             *)
RoundFails(w) ==
    /\ at[w] \in {"claimed", "failing", "receipt"} /\ Ends(w)
    /\ Mishap /\ MishapCounted
    /\ UNCHANGED <<sort, order, attempt, booked, remaining, tx>>

(* releaseOrderReconciliation, with the worker's own token.                *)
ReleaseClaim(w) ==
    /\ at[w] = "done" /\ GoesToRest(w)
    /\ order' = IF order.claim = w THEN [order EXCEPT !.claim = "nobody", !.lapsed = FALSE] ELSE order
    /\ UNCHANGED <<sort, attempt, booked, remaining, tx, mishaps>>

ClaimLapses ==
    /\ order.claim # "nobody" /\ ~order.lapsed
    /\ order' = [order EXCEPT !.lapsed = TRUE]
    /\ UNCHANGED <<sort, attempt, booked, remaining, tx, at, read, heard, mishaps>>

(* Hot timers are not started again.                                       *)
ReconcilerCrashes ==
    /\ mishaps < MaxMishaps /\ mishaps' = mishaps + 1
    /\ at' = [w \in Reconcilers |-> IF w = "batch" THEN "rest" ELSE "over"]
    /\ read' = [w \in Reconcilers |-> NoRow] /\ heard' = [w \in Reconcilers |-> Nothing]
    /\ UNCHANGED <<sort, order, attempt, booked, remaining, tx>>

-----------------------------------------------------------------------------
(* The chain: "pool" until the transaction is final, has failed or is gone.*)


ChainMoves ==
    /\ tx.state = "pool"
    /\ \/ \E s \in {"final", "reverted", "gone"} : tx' = [tx EXCEPT !.state = s]
       \/ sort.chain = "evm" /\ tx.hash = 1 /\ tx' = [tx EXCEPT !.hash = 2]
    /\ UNCHANGED <<sort, order, attempt, booked, remaining, at, read, heard, mishaps>>

-----------------------------------------------------------------------------
ReconcilerStep(w) ==
    \/ ReadRow(w) \/ HotTimerLate(w) \/ ClaimOrder(w) \/ AskProvider(w) \/ UpdateOrderAfterQuery(w)
    \/ BeginVerification(w) \/ ProveFailed(w) \/ MarkAttemptUncertain(w) \/ KeepObserving(w)
    \/ VerifyReceipt(w) \/ RecoverEvmReplacement(w) \/ ReviewMismatch(w) \/ KeepVerifying(w)
    \/ FinalizeOrder(w) \/ RoundFails(w) \/ ReleaseClaim(w)

ReconcilerNext ==
    \/ \E w \in Reconcilers : ReconcilerStep(w)
    \/ ClaimLapses \/ ReconcilerCrashes \/ ChainMoves

ReconcilerSpec == ReconcilerInit /\ [][ReconcilerNext]_reconcilerVars

-----------------------------------------------------------------------------
ReconcilerTypeOK ==
    /\ order.status \in DueStatuses \cup {"confirmed"}
    /\ order.claim \in Reconcilers \cup {"nobody"}
    /\ attempt \in {"submitted", "failure_verifying", "reconciliation_required",
                    "definitive_failed_no_fill", "confirmed"}
    /\ booked \in Nat /\ remaining \in Nat

(* The fill of an order is booked in the end, whatever was read before the *)
(* claim, answered wrongly, given up as failed, replaced on the chain, or  *)
(* left claimed by a process that died.                                    *)
OrderSettles == []<>(tx.state = "final" /\ Matches => booked > 0)

(* An order is settled from the chain alone: only when its transaction is  *)
(* final with the amounts that were asked for, whatever the provider says, *)
(* however often the transaction is replaced, and whoever reads which row  *)
(* when (reconcileClaimedOrder: the receipt is verified before finalize).  *)
SettledFromChain == booked > 0 => tx.state = "final" /\ Matches

(* A sale is settled once (P12, section 1.3).                              *)
SaleBookedOnce == sort.side = "sell" => booked <= 1
=============================================================================
