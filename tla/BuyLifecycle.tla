------------------------------ MODULE BuyLifecycle ------------------------------
(***************************************************************************)
(* The life of live buys on one wallet: from a recorded signal through     *)
(* the trade intent, its attempts, the wallet write lane and the provider  *)
(* order, to a settled position or a proven failure and a retry.           *)
(*                                                                         *)
(* The actors are the signal workers (the live execution queue and the     *)
(* operator's manual execution), one writer per attempt, the retry         *)
(* orchestrator with its maintenance sweeps, and the order reconciler with *)
(* the failure evidence service.  They share only the database, and every  *)
(* action below is one transaction or one statement of theirs; what they   *)
(* do between two statements is left open to every other actor.  The       *)
(* chain and the provider are the environment.                             *)
(***************************************************************************)
EXTENDS Integers, FiniteSets, WalletWriteLane

CONSTANTS
    Signals,            \* recorded live signals
    Tokens,             \* contracts (with their whitelist rows) they buy
    Token,              \* the contract of each signal
    MaxRetries,         \* trade_intents.max_retries: 0, 1 or 2
    Threshold,          \* consecutive_failure_lock of the chain circuit
    MaxBuys,            \* max_repeat_buys of a whitelist row
    TotalBudget,        \* total_budget of a whitelist row, in principals
    MaxCrashes,         \* bound: crashes of the execution process
    MaxInterventions,   \* bound: operator actions
    WorkersMayStall,    \* may a live writer outlast the timers that watch it?
    CooldownHolds       \* is ca_cooldown_min longer than the behaviour?

ASSUME SignalsAssumption == IsFiniteSet(Signals) /\ Nobody \notin Signals
ASSUME TokenAssumption == Token \in [Signals -> Tokens]
ASSUME RetriesAssumption == MaxRetries \in 0..2
ASSUME BoundsAssumption ==
    /\ Threshold \in Nat \ {0} /\ MaxBuys \in Nat \ {0} /\ TotalBudget \in Nat
    /\ MaxCrashes \in Nat /\ MaxInterventions \in Nat
ASSUME FlagsAssumption == WorkersMayStall \in BOOLEAN /\ CooldownHolds \in BOOLEAN

(* An attempt is an intent (one per signal) and an attempt_no. *)
Attempts == Signals \X (1 .. MaxRetries + 1)

ASSUME NobodyAssumption == Nobody \notin Attempts

VARIABLES
    signal,         \* trade_signals.status
    intent,         \* trade_intents.status, "none" before the row exists
    windowOver,     \* has trade_intents.expires_at passed?
    attempt,        \* trade_attempts.status, "none" before the row exists
    sealed,         \* pre_submit_snapshot_json: wallet transactions landed by then
    order,          \* trade_orders.normalized_status, "none" before the row exists
    budget,         \* budget_reservations.status of the intent
    deficits,       \* attempts whose fill the ledger booked as a deficit
    lots,           \* attempts whose fill has a position_lots row
    incident,       \* trade_intents.incident_status
    failures,       \* chain_trade_circuits.consecutive_failures
    lane,           \* the wallet_write_lanes row
    chain,          \* what became of an attempt's transaction
    exec,           \* signal workers: building and preparing a buy
    work,           \* writers: the step each attempt's writer is at
    handler,        \* retry orchestrator: the intent in hand and the step
    claimed,        \* retry orchestrator: intents claimed and not yet handled
    rec,            \* reconciler: the step each order's verification is at
    crashes, interventions

ledger == <<budget, deficits, lots, incident>>
database == <<signal, intent, windowOver, attempt, sealed, order, ledger,
              failures, lane>>
environment == <<chain, crashes, interventions>>
orchestrator == <<handler, claimed>>
workers == <<exec, work, orchestrator, rec>>
vars == <<database, environment, workers>>

-----------------------------------------------------------------------------
(* The vocabularies of the status columns. *)

SignalStatuses == {"recorded", "expired", "pending", "execution_reserved",
                   "rejected", "executed"}
ActiveIntent == {"created", "submitting", "awaiting_result", "retry_verifying",
                 "retry_scheduled", "uncertain"}
IntentStatuses == ActiveIntent \cup
                  {"none", "confirmed", "exhausted", "rejected", "cancelled"}
AttemptStatuses == {"none", "reserved", "submitting", "submitted",
                    "failure_verifying", "definitive_failed_no_fill",
                    "reconciliation_required", "submission_uncertain",
                    "rejected", "superseded", "confirmed"}
OrderStatuses == {"none", "submitted", "chain_verifying", "failure_verifying",
                  "definitive_failed_no_fill", "confirmed"}
BudgetStatuses == {"none", "reserved", "released", "committed"}
ChainOutcomes == {"unsent", "sent", "filled", "reverted"}

Routes == {"automatic", "manual"}
WriterSteps == {"none", "capture", "begin", "swap", "record", "settle",
                "settle_failed", "doubt", "quarantine", "drop", "reject"}
HandlerSteps == {"idle", "building", "ready", "writing", "failed"}
VerifierSteps == {"idle", "hash", "no_hash", "window", "freeze"}

(* attempts counted as pending against the whitelist's buy limit *)
PendingBuy == {"reserved", "submitting", "submitted", "submission_uncertain",
               "reconciliation_required"}

-----------------------------------------------------------------------------
(* What the statements of several handlers read. *)

AttemptsOf(s) == {a \in Attempts : a[1] = s}

(* insertAttempt numbers attempts 1, 2, ... without gaps, and              *)
(* createRetryAttempt sets retry_count to one less than the last number.   *)
NextNo(s) == {n \in 1 .. MaxRetries + 1 :
                /\ attempt[<<s, n>>] = "none"
                /\ \A m \in 1 .. n - 1 : attempt[<<s, m>>] # "none"}
RetriesLeft(s) == attempt[<<s, MaxRetries + 1>>] = "none"

SameScope(s) == {t \in Signals \ {s} : Token[t] = Token[s]}

(* The partial unique index on the scope key of active intents: a second   *)
(* active intent of one contract aborts the statement that makes it.       *)
ScopeFree(s) == \A t \in SameScope(s) : intent[t] \notin ActiveIntent

MayActivate(s) == intent[s] \in ActiveIntent \/ ScopeFree(s)

Tripped == failures >= Threshold

(* transactions of the wallet that reached a block: what balances, nonces  *)
(* and the address history show                                            *)
Landed == Cardinality({a \in Attempts : chain[a] \in {"filled", "reverted"}})

BoughtOf(t) == {a \in lots : Token[a[1]] = t}
BuyCount(t) == Cardinality({s \in Signals : Token[s] = t /\ \E a \in lots : a[1] = s})
PendingBuys(t) ==
    Cardinality({a \in Attempts : Token[a[1]] = t /\ attempt[a] \in PendingBuy})
ReservedOf(t) == {s \in Signals : Token[s] = t /\ budget[s] = "reserved"}

(* CA_BUY_COOLDOWN: no position of the contract was opened recently. *)
RiskPasses(s) == CooldownHolds => BoughtOf(Token[s]) = {}

(* Slip: the release is forgotten. *)
BudgetKeptReserved(s) == budget

(* releaseIntentBudget: a reservation is released once, and never after it *)
(* was committed.                                                          *)
BudgetReleased(s) ==
    [budget EXCEPT ![s] = IF budget[s] = "reserved" THEN "released" ELSE @]

(* Slip: a reservation that was released is not committed any more. *)
BudgetCommittedIfReserved(s) ==
    [budget EXCEPT ![s] = IF @ = "reserved" THEN "committed" ELSE @]

(* finalizeConfirmedOrder commits what was released as well. *)
BudgetCommitted(s) ==
    [budget EXCEPT ![s] = IF @ \in {"reserved", "released"} THEN "committed" ELSE @]

(* Slip: a fill after the release is booked like any other. *)
NoDeficitBooked(a) == deficits

(* LATE_CONFIRMATION_AFTER_BUDGET_RELEASE *)
DeficitBooked(a) ==
    IF budget[a[1]] = "released" THEN deficits \cup {a} ELSE deficits

(* A confirmation of an intent that was given up is an incident. *)
LateIncident(s) ==
    [incident EXCEPT ![s] =
        IF intent[s] \in {"cancelled", "exhausted", "rejected"}
        THEN "late_confirmation" ELSE @]

(* setIntentStatusForAttempt: move the intent if it is in an expected      *)
(* status, and go on silently if it is not.                                *)
IntentMoved(s, expected, status) ==
    [intent EXCEPT ![s] = IF intent[s] \in expected THEN status ELSE @]

HandlerIdle == [intent |-> Nobody, step |-> "idle"]

(* The writer of a retry runs inside the orchestrator's handler: the       *)
(* handler goes on when the writer returns or throws.                      *)
HandlerReturns(a) ==
    IF handler = [intent |-> a[1], step |-> "writing"] /\ a[2] > 1
    THEN HandlerIdle ELSE handler
HandlerThrows(a) ==
    IF handler = [intent |-> a[1], step |-> "writing"] /\ a[2] > 1
    THEN [handler EXCEPT !.step = "failed"] ELSE handler

(* ... and the writer of a first attempt inside its signal worker. *)
ExecDone(a) ==
    [e \in Signals \X Routes |->
        IF e[1] = a[1] /\ a[2] = 1 /\ exec[e] = "writing" THEN "idle" ELSE exec[e]]

Step(a, next) == work' = [work EXCEPT ![a] = next]
Return(a) == Step(a, "none") /\ exec' = ExecDone(a) /\ handler' = HandlerReturns(a)
Throw(a) == Step(a, "none") /\ exec' = ExecDone(a) /\ handler' = HandlerThrows(a)

Writing(a) == work[a] \in {"swap", "record", "settle", "settle_failed",
                           "doubt", "quarantine", "drop"}

-----------------------------------------------------------------------------
(* Signal workers: LiveExecutionQueue.claimSignal, executeItem and         *)
(* executeAutomatic, or the operator's execute.                            *)

(* Too old, or not to be traded live (signal_only, the engine's gate is    *)
(* closed): the signal is out of the queue's sight either way.             *)
ExpireSignal(s) ==
    /\ signal[s] = "recorded"
    /\ signal' = [signal EXCEPT ![s] = "expired"]
    /\ UNCHANGED <<intent, windowOver, attempt, sealed, order, ledger,
                   failures, lane, environment, workers>>

(* The queue's pump is single-flight: it claims the next signal when the   *)
(* execution of the last has returned.                                     *)
ClaimSignal(s) ==
    /\ signal[s] = "recorded"
    /\ \A t \in Signals : exec[<<t, "automatic">>] = "idle"
    /\ signal' = [signal EXCEPT ![s] = "pending"]
    /\ exec' = [exec EXCEPT ![<<s, "automatic">>] = "building"]
    /\ UNCHANGED <<intent, windowOver, attempt, sealed, order, ledger,
                   failures, lane, environment, work, orchestrator, rec>>

(* execute asks nothing of the signal's status *)
ExecuteManually(s) ==
    /\ interventions < MaxInterventions /\ exec[<<s, "manual">>] = "idle"
    /\ exec' = [exec EXCEPT ![<<s, "manual">>] = "building"]
    /\ interventions' = interventions + 1
    /\ UNCHANGED <<database, chain, crashes, work, orchestrator, rec>>

(* buildPrepared: the risk check passes; executeAutomatic also takes the   *)
(* pre-submit snapshot here, execute takes it after the reservation.       *)
Prepare(s, route) ==
    /\ exec[<<s, route>>] = "building" /\ RiskPasses(s)
    /\ exec' = [exec EXCEPT ![<<s, route>>] = "prepared"]
    /\ sealed' = IF route = "automatic" /\ attempt[<<s, 1>>] = "none"
                 THEN [sealed EXCEPT ![<<s, 1>>] = Landed] ELSE sealed
    /\ UNCHANGED <<signal, intent, windowOver, attempt, order, ledger,
                   failures, lane, environment, work, orchestrator, rec>>

(* Any check up to the end of createBuyAttempt may throw; the queue then   *)
(* rejects the signal if it is still pending, the operator just sees it.   *)
RefuseBuy(s, route) ==
    /\ exec[<<s, route>>] \in {"building", "prepared"}
    /\ exec' = [exec EXCEPT ![<<s, route>>] = "idle"]
    /\ signal' = IF route = "automatic" /\ signal[s] = "pending"
                 THEN [signal EXCEPT ![s] = "rejected"] ELSE signal
    /\ UNCHANGED <<intent, windowOver, attempt, sealed, order, ledger,
                   failures, lane, environment, work, orchestrator, rec>>

(* createBuyIntent finds the signal's own intent: a duplicate, no write. *)
DuplicateBuy(s, route) ==
    /\ exec[<<s, route>>] = "prepared" /\ ~Tripped /\ intent[s] # "none"
    /\ exec' = [exec EXCEPT ![<<s, route>>] = "idle"]
    /\ UNCHANGED <<database, environment, work, orchestrator, rec>>

(* createBuyIntent finds another active intent of the contract. *)
MergeBuy(s, route) ==
    /\ exec[<<s, route>>] = "prepared" /\ ~Tripped
    /\ intent[s] = "none" /\ ~ScopeFree(s)
    /\ exec' = [exec EXCEPT ![<<s, route>>] = "idle"]
    /\ signal' = [signal EXCEPT ![s] = "rejected"]
    /\ UNCHANGED <<intent, windowOver, attempt, sealed, order, ledger,
                   failures, lane, environment, work, orchestrator, rec>>

(* the whitelist row's limits, read under its lock *)
WithinLimits(t) ==
    /\ BuyCount(t) + PendingBuys(t) < MaxBuys
    /\ Cardinality(BoughtOf(t)) + Cardinality(ReservedOf(t)) + 1 <= TotalBudget

CreateBuyAttempt(s, route) ==
    /\ exec[<<s, route>>] = "prepared" /\ ~Tripped
    /\ intent[s] = "none" /\ ScopeFree(s) /\ WithinLimits(Token[s])
    /\ exec' = [exec EXCEPT ![<<s, route>>] = "writing"]
    /\ intent' = [intent EXCEPT ![s] = "created"]
    /\ attempt' = [attempt EXCEPT ![<<s, 1>>] = "reserved"]
    /\ budget' = [budget EXCEPT ![s] = "reserved"]
    /\ signal' = [signal EXCEPT ![s] = "execution_reserved"]
    /\ Step(<<s, 1>>, IF route = "automatic" THEN "begin" ELSE "capture")
    /\ UNCHANGED <<windowOver, sealed, order, deficits, lots, incident,
                   failures, lane, environment, orchestrator, rec>>

-----------------------------------------------------------------------------
(* The writer of one attempt: the second half of execute, executeAutomatic *)
(* and retryIntent, the same in all three.                                 *)

CapturePreSubmitSnapshot(a) ==
    /\ work[a] = "capture"
    /\ sealed' = [sealed EXCEPT ![a] = Landed]
    /\ Step(a, "begin")
    /\ UNCHANGED <<signal, intent, windowOver, attempt, order, ledger,
                   failures, lane, environment, exec, orchestrator, rec>>

(* One transaction: gates, circuit, lane, snapshot, attempt, intent.  The  *)
(* intent's status is not among the checks.                                *)
BeginBuySubmission(a) ==
    /\ work[a] = "begin" /\ attempt[a] = "reserved"
    /\ ~Tripped /\ MayAcquire(lane, a)
    /\ lane' = HeldLane(a)
    /\ attempt' = [attempt EXCEPT ![a] = "submitting"]
    /\ intent' = IntentMoved(a[1], {"created", "submitting", "awaiting_result"},
                             "submitting")
    /\ Step(a, "swap")
    /\ UNCHANGED <<signal, windowOver, sealed, order, ledger, failures,
                   environment, exec, orchestrator, rec>>

(* A gate, the circuit, the lane or the snapshot refuses: nothing sent. *)
RefuseSubmission(a) ==
    /\ work[a] \in {"capture", "begin"}
    /\ Step(a, "drop")
    /\ UNCHANGED <<database, environment, exec, orchestrator, rec>>

(* The swap request reaches the provider, who puts it on the chain. *)
ProviderAccepts(a) ==
    /\ work[a] = "swap" /\ chain[a] = "unsent"
    /\ chain' = [chain EXCEPT ![a] = "sent"]
    /\ UNCHANGED <<database, crashes, interventions, workers>>

(* Slip: a timeout is taken for a refusal. *)
SwapTimeoutIsRefusal(a) ==
    /\ work[a] = "swap"
    /\ \/ chain[a] # "unsent" /\ Step(a, "record")
       \/ Step(a, "drop")
    /\ UNCHANGED <<database, environment, exec, orchestrator, rec>>

(* What gmgnHttp.swap gives the writer: an order id, a definitive refusal  *)
(* or a rate limit, or a timeout, a server error or a reply with no order  *)
(* id, which say nothing.                                                  *)
SwapAnswered(a) ==
    /\ work[a] = "swap"
    /\ \/ chain[a] # "unsent" /\ Step(a, "record")
       \/ chain[a] = "unsent" /\ Step(a, "drop")
       \/ Step(a, "doubt")
    /\ UNCHANGED <<database, environment, exec, orchestrator, rec>>

(* recordSubmittedOrder; its compare-and-swap fails if a sweep has taken   *)
(* the attempt away, and the writer's catch then calls the write uncertain. *)
RecordSubmittedOrder(a) ==
    /\ work[a] = "record" /\ attempt[a] = "submitting"
    /\ attempt' = [attempt EXCEPT ![a] = "submitted"]
    /\ intent' = IntentMoved(a[1], {"submitting", "awaiting_result"}, "awaiting_result")
    /\ \E reported \in {"submitted", "chain_verifying", "failure_verifying"},
          hash \in BOOLEAN :
         /\ order' = [order EXCEPT ![a] = reported]
         /\ Step(a, IF reported = "failure_verifying" /\ ~hash
                    THEN "settle_failed" ELSE "settle")
    /\ UNCHANGED <<signal, windowOver, sealed, ledger, failures, lane,
                   environment, exec, orchestrator, rec>>

RecordRefused(a) ==
    /\ work[a] = "record" /\ attempt[a] # "submitting"
    /\ Step(a, "doubt")
    /\ UNCHANGED <<database, environment, exec, orchestrator, rec>>

SettleSubmittedOrder(a) ==
    /\ work[a] \in {"settle", "settle_failed"}
    /\ lane' = Settle(lane, a, work[a] = "settle_failed")
    /\ Return(a)
    /\ UNCHANGED <<signal, intent, windowOver, attempt, sealed, order,
                   ledger, failures, environment, claimed, rec>>

(* catch, uncertain: markSubmissionUncertain, then quarantine.  If the     *)
(* compare-and-swap of the first fails it throws, and there is no second.  *)
MarkSubmissionUncertain(a) ==
    /\ work[a] = "doubt"
    /\ IF attempt[a] = "submitting"
       THEN /\ attempt' = [attempt EXCEPT ![a] = "submission_uncertain"]
            /\ intent' = IntentMoved(a[1], ActiveIntent \ {"retry_scheduled"},
                                     "uncertain")
            /\ Step(a, "quarantine")
            /\ UNCHANGED <<exec, handler>>
       ELSE Throw(a) /\ UNCHANGED <<intent, attempt>>
    /\ UNCHANGED <<signal, windowOver, sealed, order, ledger, failures, lane,
                   environment, claimed, rec>>

QuarantineWriter(a) ==
    /\ work[a] = "quarantine"
    /\ lane' = Quarantine(lane, a, "unproven")
    /\ Throw(a)
    /\ UNCHANGED <<signal, intent, windowOver, attempt, sealed, order,
                   ledger, failures, environment, claimed, rec>>

(* catch, refused or not started: release the lane, then the attempt, the  *)
(* reservation, the intent and the signal. *)
ReleaseWriter(a) ==
    /\ work[a] = "drop"
    /\ lane' = Release(lane, a)
    /\ Step(a, "reject")
    /\ UNCHANGED <<signal, intent, windowOver, attempt, sealed, order,
                   ledger, failures, environment, exec, orchestrator, rec>>

ReleaseRejectedAttempt(a) ==
    /\ work[a] = "reject"
    /\ IF attempt[a] \in {"reserved", "submitting"}
       THEN /\ attempt' = [attempt EXCEPT ![a] = "rejected"]
            /\ budget' = BudgetReleased(a[1])
            /\ intent' = [intent EXCEPT ![a[1]] = "rejected"]
            /\ signal' = [signal EXCEPT ![a[1]] = "rejected"]
       ELSE UNCHANGED <<signal, intent, attempt, budget>>
    /\ Throw(a)
    /\ UNCHANGED <<windowOver, sealed, order, deficits, lots, incident,
                   failures, lane, environment, claimed, rec>>

-----------------------------------------------------------------------------
(* The retry orchestrator: runOnce is single-flight, so the sweeps and the *)
(* next claim run only when every claimed intent has been handled.         *)

BetweenBatches == handler = HandlerIdle /\ claimed = {}

(* Slip: an intent of unknown outcome is claimed as well. *)
RetryDueOrUncertain(s) ==
    /\ intent[s] \in {"retry_scheduled", "uncertain"} /\ ~windowOver[s]
    /\ lane.state = "idle" /\ ~Tripped

(* claimDueRetries: not while the wallet is busy or frozen, nor while the  *)
(* chain's circuit is tripped.                                             *)
RetryDue(s) ==
    /\ intent[s] = "retry_scheduled" /\ ~windowOver[s]
    /\ lane.state = "idle" /\ ~Tripped

ClaimDueRetries ==
    /\ BetweenBatches
    /\ \E due \in (SUBSET {s \in Signals : RetryDue(s)}) \ {{}} :
         /\ claimed' = due
         /\ intent' = [s \in Signals |->
                         IF s \in due THEN "retry_verifying" ELSE intent[s]]
    /\ UNCHANGED <<signal, windowOver, attempt, sealed, order, ledger,
                   failures, lane, environment, exec, work, handler, rec>>

StartRetry(s) ==
    /\ handler = HandlerIdle /\ s \in claimed
    /\ handler' = [intent |-> s, step |-> "building"]
    /\ claimed' = claimed \ {s}
    /\ UNCHANGED <<database, environment, exec, work, rec>>

PrepareRetry(s) ==
    /\ handler = [intent |-> s, step |-> "building"] /\ RiskPasses(s)
    /\ handler' = [intent |-> s, step |-> "ready"]
    /\ UNCHANGED <<database, environment, exec, work, claimed, rec>>

(* any check of retryIntent up to createRetryAttempt may throw *)
RefuseRetry(s) ==
    /\ handler \in {[intent |-> s, step |-> "building"], [intent |-> s, step |-> "ready"]}
    /\ handler' = [intent |-> s, step |-> "failed"]
    /\ UNCHANGED <<database, environment, exec, work, claimed, rec>>

CreateRetryAttempt(s) ==
    /\ handler = [intent |-> s, step |-> "ready"]
    /\ intent[s] = "retry_verifying" /\ RetriesLeft(s)
    /\ \E n \in NextNo(s) :
         /\ attempt' = [attempt EXCEPT ![<<s, n>>] = "reserved"]
         /\ Step(<<s, n>>, "capture")
    /\ handler' = [intent |-> s, step |-> "writing"]
    /\ UNCHANGED <<signal, intent, windowOver, sealed, order, ledger, failures,
                   lane, environment, exec, claimed, rec>>

(* resolveHandlerFailure, finishRetryClaim: cancelled or rejected after    *)
(* the code of the error *)
ResolveHandlerFailure(s) ==
    /\ handler = [intent |-> s, step |-> "failed"]
    /\ handler' = HandlerIdle
    /\ IF intent[s] = "retry_verifying"
       THEN /\ \E status \in {"cancelled", "rejected"} :
                 intent' = [intent EXCEPT ![s] = status]
            /\ budget' = BudgetReleased(s)
       ELSE UNCHANGED <<intent, budget>>
    /\ UNCHANGED <<signal, windowOver, attempt, sealed, order, deficits,
                   lots, incident, failures, lane, environment, exec, work, claimed, rec>>

-----------------------------------------------------------------------------
(* The maintenance sweeps of runOnce. *)

(* A timer that watches a writer has run out: the 30 s lease, the 90 s of  *)
(* recoverStalePreSubmitAttempts.  A swap is given 15 s, so a live writer  *)
(* is watched past its time only if its process stalls.                    *)
Overdue(a) == WorkersMayStall \/ work[a] = "none"

WriteSettled(a) ==
    \/ attempt[a] \in {"confirmed", "definitive_failed_no_fill", "rejected", "superseded"}
    \/ order[a] # "none"

(* recoverStaleSubmissions; the intent is marked in a second statement,    *)
(* which the active-scope index may refuse *)
RecoverStaleSubmission ==
    /\ BetweenBatches /\ lane.state = "submitting" /\ Overdue(lane.owner)
    /\ LET a == lane.owner
           taken == ~WriteSettled(a) /\ attempt[a] \in
                      {"reserved", "submitting", "submission_uncertain"}
       IN  /\ lane' = Recover(lane, WriteSettled(a))
           /\ attempt' = [attempt EXCEPT ![a] =
                            IF taken THEN "submission_uncertain" ELSE @]
           /\ intent' = [intent EXCEPT ![a[1]] =
                            IF taken /\ MayActivate(a[1]) THEN "uncertain" ELSE @]
    /\ UNCHANGED <<signal, windowOver, sealed, order, ledger, failures,
                   environment, workers>>

(* A writer died, or stalls, before it began its write. *)
RecoverStalePreSubmit(a) ==
    /\ BetweenBatches /\ attempt[a] = "reserved" /\ Overdue(a)
    /\ intent[a[1]] \in {"created", "submitting", "retry_verifying"}
    /\ attempt' = [attempt EXCEPT ![a] = "superseded"]
    /\ intent' = [intent EXCEPT ![a[1]] = "cancelled"]
    /\ budget' = BudgetReleased(a[1])
    /\ signal' = [signal EXCEPT ![a[1]] = "rejected"]
    /\ UNCHANGED <<windowOver, sealed, order, deficits, lots, incident,
                   failures, lane, environment, workers>>

(* a claim whose handler is gone goes back to the schedule; the claim is   *)
(* taken for abandoned if no attempt of the intent is before its order     *)
RestoreAbandonedClaim(s) ==
    /\ BetweenBatches /\ intent[s] = "retry_verifying"
    /\ \A a \in AttemptsOf(s) : attempt[a] \notin {"reserved", "submitting"}
    /\ intent' = [intent EXCEPT ![s] = "retry_scheduled"]
    /\ UNCHANGED <<signal, windowOver, attempt, sealed, order, ledger,
                   failures, lane, environment, workers>>

(* A schedule ends with its retry window, whatever keeps it from a claim. *)
ExpireScheduledRetry(s) ==
    /\ BetweenBatches /\ intent[s] = "retry_scheduled" /\ windowOver[s]
    /\ intent' = [intent EXCEPT ![s] = "exhausted"]
    /\ budget' = BudgetReleased(s)
    /\ UNCHANGED <<signal, windowOver, attempt, sealed, order, deficits,
                   lots, incident, failures, lane, environment, workers>>

(* the retry window of the intent runs out *)
RetryWindowPasses(s) ==
    /\ intent[s] # "none" /\ ~windowOver[s]
    /\ windowOver' = [windowOver EXCEPT ![s] = TRUE]
    /\ UNCHANGED <<signal, intent, attempt, sealed, order, ledger, failures,
                   lane, environment, workers>>

-----------------------------------------------------------------------------
(* The order reconciler, TradeReconciliationService.reconcileOrder: one    *)
(* verification of an order at a time, under its claim token.              *)

(* Slip: a proven failure is final, nobody asks for a late fill. *)
DueWithoutAudit(a) ==
    /\ rec[a] = "idle"
    /\ order[a] \in {"submitted", "chain_verifying", "failure_verifying"}

(* listDueOrders; a proven failure stays due for its terminal audit. *)
Due(a) ==
    /\ rec[a] = "idle"
    /\ order[a] \in {"submitted", "chain_verifying", "failure_verifying",
                     "definitive_failed_no_fill"}

Verify(a, next) == rec' = [rec EXCEPT ![a] = next]

(* The provider says the order is confirmed; the receipt is read in the    *)
(* same round, which a round of its own models as well.                    *)
ObserveConfirmed(a) ==
    /\ Due(a) /\ order[a] # "chain_verifying"
    /\ order' = [order EXCEPT ![a] = "chain_verifying"]
    /\ UNCHANGED <<signal, intent, windowOver, attempt, sealed, ledger, failures,
                   lane, environment, workers>>

(* The provider says pending, or nothing the code knows. *)
ObservePending(a) ==
    /\ Due(a) /\ order[a] \notin {"chain_verifying", "definitive_failed_no_fill"}
    /\ order' = [order EXCEPT ![a] = "submitted"]
    /\ UNCHANGED <<signal, intent, windowOver, attempt, sealed, ledger, failures,
                   lane, environment, workers>>

(* The provider says failed or expired: beginVerification.  An order under *)
(* terminal audit stays as it is.                                          *)
ObserveFailure(a) ==
    /\ Due(a) /\ order[a] \notin {"chain_verifying", "definitive_failed_no_fill"}
    /\ order' = [order EXCEPT ![a] = "failure_verifying"]
    /\ attempt' = [attempt EXCEPT ![a] =
                     IF @ \in {"submitted", "reconciliation_required", "failure_verifying"}
                     THEN "failure_verifying" ELSE @]
    /\ \E evidence \in {"hash", "no_hash"} : Verify(a, evidence)
    /\ UNCHANGED <<signal, intent, windowOver, sealed, ledger, failures,
                   lane, environment, exec, work, orchestrator>>

(* scheduleAfterDefinitiveFailure, one transaction: the attempt and its    *)
(* order are proven failed, the circuit counts, the intent is scheduled    *)
(* again or exhausted, and the evidence quarantine ends.  A second proof   *)
(* of the same attempt changes nothing, and the active-scope index aborts  *)
(* a schedule that would make a second active intent of the contract.      *)
ScheduleAfterDefinitiveFailure(a) ==
    LET s == a[1] IN
    IF attempt[a] = "definitive_failed_no_fill"
    THEN UNCHANGED <<intent, attempt, order, budget, failures, lane>>
    ELSE \E feeLeft \in BOOLEAN :
         LET canRetry == /\ RetriesLeft(s) /\ ~windowOver[s]
                         /\ feeLeft /\ failures + 1 < Threshold
         IN IF canRetry /\ ~MayActivate(s)
            THEN UNCHANGED <<intent, attempt, order, budget, failures, lane>>
            ELSE /\ attempt' = [attempt EXCEPT ![a] = "definitive_failed_no_fill"]
                 /\ order' = [order EXCEPT ![a] = "definitive_failed_no_fill"]
                 /\ failures' = failures + 1
                 /\ intent' = [intent EXCEPT ![s] =
                                 IF canRetry THEN "retry_scheduled" ELSE "exhausted"]
                 /\ budget' = IF canRetry THEN budget ELSE BudgetReleased(s)
                 /\ lane' = ResolveEvidence(lane, a)

(* markUncertain: two statements; if the active-scope index refuses the    *)
(* second, uncertain() stops before it quarantines the wallet. *)
MarkUncertain(a) ==
    /\ attempt' = [attempt EXCEPT ![a] =
                     IF @ = "submission_uncertain" THEN @ ELSE "reconciliation_required"]
    /\ IF MayActivate(a[1])
       THEN /\ intent' = [intent EXCEPT ![a[1]] = "uncertain"]
            /\ Verify(a, "freeze")
       ELSE Verify(a, "idle") /\ UNCHANGED intent
    /\ UNCHANGED <<order, budget, failures, lane>>

(* verifyWithHash: a failed receipt with no transfer proves the failure. *)
VerifyWithHash(a) ==
    /\ rec[a] = "hash"
    /\ IF chain[a] = "reverted"
       THEN ScheduleAfterDefinitiveFailure(a) /\ Verify(a, "idle")
       ELSE MarkUncertain(a)
    /\ UNCHANGED <<signal, windowOver, sealed, deficits, lots, incident,
                   environment, exec, work, orchestrator>>

(* verifyWithoutHash: quarantine the wallet first, unless another attempt  *)
(* has it in quarantine already.                                           *)
FreezeForEvidence(a) ==
    /\ rec[a] = "no_hash"
    /\ LET frozen == Quarantine(lane, a, "no_hash_evidence") IN
       IF frozen.owner = a
       THEN lane' = frozen /\ Verify(a, "window")
            /\ UNCHANGED <<intent, attempt, order, budget, failures>>
       ELSE MarkUncertain(a)
    /\ UNCHANGED <<signal, windowOver, sealed, deficits, lots, incident,
                   environment, exec, work, orchestrator>>

(* The observation window has passed, and a swap is given less time than   *)
(* the default window: a write of this wallet that began before the freeze *)
(* is over, if writers do not stall.                                       *)
WindowElapsed == WorkersMayStall \/ \A b \in Attempts : ~Writing(b)

VerifyWithoutHash(a) ==
    /\ rec[a] = "window"
    /\ \/ (* the window has not elapsed: look again later *)
          /\ Verify(a, "idle")
          /\ UNCHANGED <<intent, attempt, order, budget, failures, lane>>
       \/ (* evidence missing, unavailable or not conclusive *)
          WindowElapsed /\ MarkUncertain(a)
       \/ (* nonces, balances and history are as the snapshot has them *)
          /\ WindowElapsed /\ Landed = sealed[a]
          /\ ScheduleAfterDefinitiveFailure(a) /\ Verify(a, "idle")
    /\ UNCHANGED <<signal, windowOver, sealed, deficits, lots, incident,
                   environment, exec, work, orchestrator>>

QuarantineUncertain(a) ==
    /\ rec[a] = "freeze"
    /\ lane' = Quarantine(lane, a, "unproven")
    /\ Verify(a, "idle")
    /\ UNCHANGED <<signal, intent, windowOver, attempt, sealed, order,
                   ledger, failures, environment, exec, work, orchestrator>>

(* A receipt that failed, was dropped, or does not show the expected       *)
(* transfer puts the attempt up for review; the compare-and-swap refuses   *)
(* an attempt already proven failed, and the lane is not touched.          *)
ReceiptContradicts(a) ==
    /\ Due(a) /\ order[a] = "chain_verifying"
    /\ attempt[a] \in {"submitted", "reconciliation_required"}
    /\ attempt' = [attempt EXCEPT ![a] = "reconciliation_required"]
    /\ intent' = IntentMoved(a[1], ActiveIntent \ {"retry_scheduled"}, "uncertain")
    /\ UNCHANGED <<signal, windowOver, sealed, order, ledger, failures, lane,
                   environment, workers>>

(* finalizeConfirmedOrder, first fill of the signal: position, lot,        *)
(* budget, intent, circuit, lane, whitelist counts and signal in one       *)
(* transaction.                                                            *)
FinalizeConfirmedOrder(a) ==
    LET s == a[1] IN
    /\ Due(a) /\ order[a] = "chain_verifying" /\ chain[a] = "filled"
    /\ \A b \in lots : b[1] # s
    /\ lots' = lots \cup {a}
    /\ order' = [order EXCEPT ![a] = "confirmed"]
    /\ attempt' = [attempt EXCEPT ![a] = "confirmed"]
    /\ budget' = BudgetCommitted(s)
    /\ deficits' = DeficitBooked(a)
    /\ intent' = [intent EXCEPT ![s] = "confirmed"]
    /\ incident' = LateIncident(s)
    /\ failures' = 0
    /\ lane' = ResolveEvidence(lane, a)
    /\ signal' = [signal EXCEPT ![s] = "executed"]
    /\ UNCHANGED <<windowOver, sealed, environment, workers>>

(* Slip: the second fill is settled like the first. *)
FinalizeAdditionalFillUnfrozen(a) ==
    LET s == a[1] IN
    /\ Due(a) /\ order[a] = "chain_verifying" /\ chain[a] = "filled"
    /\ \E b \in lots : b[1] = s
    /\ lots' = lots \cup {a}
    /\ order' = [order EXCEPT ![a] = "confirmed"]
    /\ attempt' = [attempt EXCEPT ![a] = "confirmed"]
    /\ deficits' = deficits \cup {a}
    /\ intent' = [intent EXCEPT ![s] = "confirmed"]
    /\ incident' = [incident EXCEPT ![s] = "multiple_fill"]
    /\ lane' = ResolveEvidence(lane, a)
    /\ UNCHANGED <<signal, windowOver, sealed, budget, failures, environment,
                   workers>>

(* finalizeAdditionalBuyFill: another attempt of the signal has filled     *)
(* already.  The fill is booked as a deficit and the wallet is frozen,     *)
(* whoever has the lane.                                                   *)
FinalizeAdditionalBuyFill(a) ==
    LET s == a[1] IN
    /\ Due(a) /\ order[a] = "chain_verifying" /\ chain[a] = "filled"
    /\ \E b \in lots : b[1] = s
    /\ lots' = lots \cup {a}
    /\ order' = [order EXCEPT ![a] = "confirmed"]
    /\ attempt' = [attempt EXCEPT ![a] = "confirmed"]
    /\ deficits' = deficits \cup {a}
    /\ intent' = [intent EXCEPT ![s] = "confirmed"]
    /\ incident' = [incident EXCEPT ![s] = "multiple_fill"]
    /\ lane' = FrozenLane(a, "multiple_fill")
    /\ UNCHANGED <<signal, windowOver, sealed, budget, failures, environment,
                   workers>>

(* runOnce, uncertain attempts that never got an order: after 120 s the    *)
(* attempt needs reconciliation by hand.                                   *)
EscalateUncertain(a) ==
    /\ attempt[a] = "submission_uncertain" /\ order[a] = "none"
    /\ attempt' = [attempt EXCEPT ![a] = "reconciliation_required"]
    /\ intent' = IntentMoved(a[1], ActiveIntent \ {"retry_scheduled"}, "uncertain")
    /\ UNCHANGED <<signal, windowOver, sealed, order, ledger, failures, lane,
                   environment, workers>>

-----------------------------------------------------------------------------
(* The operator: releaseQuarantine and the circuit's reset. *)

ReleaseQuarantine ==
    /\ interventions < MaxInterventions /\ lane.state = "quarantined"
    /\ lane' = IdleLane
    /\ interventions' = interventions + 1
    /\ UNCHANGED <<signal, intent, windowOver, attempt, sealed, order,
                   ledger, failures, chain, crashes, workers>>

ResetCircuit ==
    /\ interventions < MaxInterventions /\ Tripped
    /\ failures' = 0
    /\ interventions' = interventions + 1
    /\ UNCHANGED <<signal, intent, windowOver, attempt, sealed, order,
                   ledger, lane, chain, crashes, workers>>

-----------------------------------------------------------------------------
(* The environment. *)

TransactionLands(a) ==
    /\ chain[a] = "sent"
    /\ \E outcome \in {"filled", "reverted"} :
         chain' = [chain EXCEPT ![a] = outcome]
    /\ UNCHANGED <<database, crashes, interventions, workers>>

(* The execution process dies: every worker is gone, the database stays. *)
NoExec == [e \in Signals \X Routes |-> "idle"]
NoWork == [a \in Attempts |-> "none"]
NoVerification == [a \in Attempts |-> "idle"]

Crash ==
    /\ crashes < MaxCrashes
    /\ crashes' = crashes + 1
    /\ exec' = NoExec /\ work' = NoWork /\ rec' = NoVerification
    /\ handler' = HandlerIdle /\ claimed' = {}
    /\ UNCHANGED <<database, chain, interventions>>

-----------------------------------------------------------------------------

Init ==
    /\ signal = [s \in Signals |-> "recorded"]
    /\ intent = [s \in Signals |-> "none"]
    /\ windowOver = [s \in Signals |-> FALSE]
    /\ attempt = [a \in Attempts |-> "none"]
    /\ sealed = [a \in Attempts |-> 0]
    /\ order = [a \in Attempts |-> "none"]
    /\ budget = [s \in Signals |-> "none"]
    /\ deficits = {} /\ lots = {}
    /\ incident = [s \in Signals |-> "none"]
    /\ failures = 0
    /\ lane = IdleLane
    /\ chain = [a \in Attempts |-> "unsent"]
    /\ exec = NoExec /\ work = NoWork /\ rec = NoVerification
    /\ handler = HandlerIdle /\ claimed = {}
    /\ crashes = 0 /\ interventions = 0

SignalStep(s) ==
    \/ ExpireSignal(s) \/ ClaimSignal(s) \/ ExecuteManually(s)
    \/ \E route \in Routes :
         \/ Prepare(s, route) \/ RefuseBuy(s, route) \/ DuplicateBuy(s, route)
         \/ MergeBuy(s, route) \/ CreateBuyAttempt(s, route)

WriterStep(a) ==
    \/ CapturePreSubmitSnapshot(a) \/ BeginBuySubmission(a) \/ RefuseSubmission(a)
    \/ SwapAnswered(a) \/ RecordSubmittedOrder(a) \/ RecordRefused(a)
    \/ SettleSubmittedOrder(a) \/ MarkSubmissionUncertain(a) \/ QuarantineWriter(a)
    \/ ReleaseWriter(a) \/ ReleaseRejectedAttempt(a)

RetryStep(s) ==
    \/ StartRetry(s) \/ PrepareRetry(s) \/ RefuseRetry(s) \/ CreateRetryAttempt(s)
    \/ ResolveHandlerFailure(s)

Sweep ==
    \/ RecoverStaleSubmission
    \/ \E a \in Attempts : RecoverStalePreSubmit(a)
    \/ \E s \in Signals : RestoreAbandonedClaim(s) \/ ExpireScheduledRetry(s)

ReconcileStep(a) ==
    \/ ObserveConfirmed(a) \/ ObservePending(a) \/ ObserveFailure(a)
    \/ VerifyWithHash(a) \/ FreezeForEvidence(a) \/ VerifyWithoutHash(a)
    \/ QuarantineUncertain(a) \/ ReceiptContradicts(a)
    \/ FinalizeConfirmedOrder(a) \/ FinalizeAdditionalBuyFill(a) \/ EscalateUncertain(a)

EnvironmentStep ==
    \/ \E a \in Attempts : ProviderAccepts(a) \/ TransactionLands(a)
    \/ \E s \in Signals : RetryWindowPasses(s)
    \/ ReleaseQuarantine \/ ResetCircuit \/ Crash

Next ==
    \/ \E s \in Signals : SignalStep(s) \/ RetryStep(s)
    \/ ClaimDueRetries
    \/ Sweep
    \/ \E a \in Attempts : WriterStep(a) \/ ReconcileStep(a)
    \/ EnvironmentStep

Spec == Init /\ [][Next]_vars

(* What the code's scheduling gives: a live writer, the retry timer, the   *)
(* sweeps and the reconciler's timer keep running, and time passes.  Of    *)
(* the provider only this: an order whose swap filled is reported          *)
(* confirmed again and again, and one of those rounds has a good receipt.  *)
Fairness ==
    /\ \A a \in Attempts :
         /\ WF_vars(WriterStep(a))
         /\ WF_vars(VerifyWithHash(a) \/ FreezeForEvidence(a)
                      \/ VerifyWithoutHash(a) \/ QuarantineUncertain(a))
         /\ WF_vars(RecoverStalePreSubmit(a))
         /\ SF_vars(chain[a] = "filled" /\ ObserveConfirmed(a))
         /\ SF_vars(FinalizeConfirmedOrder(a) \/ FinalizeAdditionalBuyFill(a))
    /\ \A s \in Signals :
         /\ WF_vars(RetryStep(s)) /\ WF_vars(RetryWindowPasses(s))
         /\ WF_vars(RestoreAbandonedClaim(s)) /\ WF_vars(ExpireScheduledRetry(s))
    /\ WF_vars(RecoverStaleSubmission)

FairSpec == Spec /\ Fairness
-----------------------------------------------------------------------------
(* Properties. *)

(* Every row holds a status of its column's vocabulary, a held lane has an *)
(* owner and an idle one none, and the orchestrator's handler is at a step *)
(* its code has.                                                           *)
TypeOK ==
    /\ signal \in [Signals -> SignalStatuses]
    /\ intent \in [Signals -> IntentStatuses]
    /\ windowOver \in [Signals -> BOOLEAN]
    /\ attempt \in [Attempts -> AttemptStatuses]
    /\ sealed \in [Attempts -> Nat]
    /\ order \in [Attempts -> OrderStatuses]
    /\ budget \in [Signals -> BudgetStatuses]
    /\ deficits \subseteq Attempts /\ lots \subseteq Attempts
    /\ incident \in [Signals -> {"none", "late_confirmation", "multiple_fill"}]
    /\ failures \in Nat
    /\ lane \in Lanes(Attempts)
    /\ chain \in [Attempts -> ChainOutcomes]
    /\ exec \in [Signals \X Routes -> {"idle", "building", "prepared", "writing"}]
    /\ work \in [Attempts -> WriterSteps]
    /\ handler \in [intent : Signals \cup {Nobody}, step : HandlerSteps]
    /\ claimed \subseteq Signals
    /\ rec \in [Attempts -> VerifierSteps]
    /\ crashes \in 0..MaxCrashes /\ interventions \in 0..MaxInterventions

FillsOf(s) == {a \in lots : a[1] = s}

(* Settlement is all or nothing: a booked lot, a confirmed attempt and a   *)
(* confirmed order always come together and only for a transaction that    *)
(* filled, however the attempt was judged before (uncertain, proven        *)
(* failed, released), and a signal's budget is committed exactly when it   *)
(* has a fill (finalizeConfirmedOrder, finalizeAdditionalBuyFill).         *)
SettledTogether ==
    /\ \A a \in Attempts :
         /\ a \in lots <=> attempt[a] = "confirmed"
         /\ a \in lots <=> order[a] = "confirmed"
         /\ a \in lots => chain[a] = "filled"
    /\ \A s \in Signals : budget[s] = "committed" <=> FillsOf(s) # {}

(* No path that ends an intent forgets its reservation: the writer's       *)
(* catch, the sweeps, a refused retry, a proven failure and a settlement   *)
(* all hand the budget back or commit it, so a reservation always belongs  *)
(* to an intent something still works on.                                  *)
NoLeakedReservation ==
    \A s \in Signals : budget[s] = "reserved" => intent[s] \in ActiveIntent

(* A swap that reached the provider is never written off as refused or not *)
(* started (rejected, superseded), whatever answer the writer got, when it *)
(* stalled, and which sweep or operator moved the attempt meanwhile.       *)
SentSwapNotWrittenOff ==
    \A a \in Attempts : chain[a] # "unsent" =>
        attempt[a] \notin {"none", "reserved", "rejected", "superseded"}

(* total_budget bounds what is spent and reserved on a whitelist row, the  *)
(* fills the ledger booked as deficits aside, with signals executing at    *)
(* once and reservations released and committed late.                      *)
BudgetKept ==
    \A t \in Tokens :
        Cardinality(BoughtOf(t) \ deficits) + Cardinality(ReservedOf(t)) <= TotalBudget

(* max_repeat_buys bounds the signals bought on a whitelist row, those     *)
(* aside whose fills came after their reservation was handed back.         *)
BuyLimitKept ==
    \A t \in Tokens :
        Cardinality({s \in Signals : Token[s] = t /\ FillsOf(s) \ deficits # {}}) <= MaxBuys

(* Both limits of a whitelist row hold at once.                            *)
RowLimitsKept == BudgetKept /\ BuyLimitKept

(* If two attempts of one intent fill (a late fill after a retry), the     *)
(* wallet stays frozen until an operator releases it: no automatic step,   *)
(* a later verdict or recovery included, thaws it.                         *)
DoubleFillFreezesWallet ==
    (interventions = 0 /\ \E s \in Signals : Cardinality(FillsOf(s)) > 1)
        => lane.state = "quarantined"

(* P12's rule for a single retry: a further swap of an intent is sent only *)
(* when every earlier attempt was proven failed without a fill (or has     *)
(* filled meanwhile, and is then known to have).                           *)
ResendOnlyAfterProof ==
    [][\A a \in Attempts : (chain[a] = "unsent" /\ chain'[a] = "sent") =>
        \A b \in AttemptsOf(a[1]) : b[2] < a[2] =>
            attempt[b] \in {"definitive_failed_no_fill", "confirmed"}]_vars

(* Without an operator, a quarantine ends only with a verdict on the very  *)
(* attempt it stands for: proven failed, or settled.  Neither another      *)
(* attempt's verdict, nor a writer's release, nor a sweep ends it.         *)
ThawOnlyOnVerdict ==
    [][(lane.state = "quarantined" /\ lane'.state # "quarantined"
            /\ interventions' = interventions)
        => attempt'[lane.owner] \in {"definitive_failed_no_fill", "confirmed"}]_vars

(* The lane serialises the funds writes of the wallet: two writers are     *)
(* never in their swap calls at once.                                      *)
LaneSerializesWrites ==
    \A a, b \in Attempts : work[a] = "swap" /\ work[b] = "swap" => a = b

(* No submission begins for an intent that is confirmed already. *)
NothingBegunAfterConfirmation ==
    [][\A a \in Attempts : (attempt[a] = "reserved" /\ attempt'[a] = "submitting")
        => intent[a[1]] # "confirmed"]_vars

(* A swap that filled and whose order is known is settled in the end,      *)
(* though its attempt was put up for review, its intent given up, or a     *)
(* wrong proof of failure was accepted.                                    *)
FilledOrderSettles ==
    \A a \in Attempts : (order[a] # "none" /\ chain[a] = "filled") ~> a \in lots

(* What waits does not wait for ever: a held lane is released or frozen     *)
(* though its writer died, a reserved first attempt is submitted or taken  *)
(* back, and a scheduled retry is claimed or expires with its window, the  *)
(* wallet frozen or not.  So no buy blocks its contract for good.          *)
HeldLaneFreed == lane.state = "submitting" ~> lane.state # "submitting"
FirstAttemptDecided ==
    \A s \in Signals : attempt[<<s, 1>>] = "reserved" ~> attempt[<<s, 1>>] # "reserved"
ScheduledRetryDecided ==
    \A s \in Signals : intent[s] = "retry_scheduled" ~> intent[s] # "retry_scheduled"
NothingHeldForEver == HeldLaneFreed /\ FirstAttemptDecided /\ ScheduledRetryDecided

(* A submission under way comes to an outcome or to quarantine, though its *)
(* writer may be gone.                                                     *)
SubmissionDecided ==
    \A a \in Attempts : attempt[a] = "submitting" ~> attempt[a] # "submitting"

(* The accounting above keeps the promises of BuyLedger. *)
Ledger == INSTANCE BuyLedger
            WITH filled <- {a \in Attempts : chain[a] = "filled"}
KeepsLedger == Ledger!LedgerSpec
=============================================================================
