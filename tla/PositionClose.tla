----------------------------- MODULE PositionClose -----------------------------
(***************************************************************************)
(* How one live position is sold off: by the operator's close and its      *)
(* retries (close-service.js), by its protection strategy at the provider, *)
(* and by its owner outside the program; and how the reconciler turns what *)
(* the provider and the wallet show into sell attempts, settled lots and a *)
(* position status.                                                        *)
(*                                                                         *)
(* The close runs over the wallet write lane.  Each action is one          *)
(* transaction, or one call and the statements that follow it, of one      *)
(* actor: a closer (an operator's request, or the retry worker), the       *)
(* reconciler (one at a time, under an advisory lock), the sweeps of the   *)
(* retry orchestrator, and the environment.  The statement-level steps of  *)
(* a failure verification are those of BuyLifecycle; here a verification   *)
(* and its verdict are one action each.                                    *)
(*                                                                         *)
(* The position's lots are abstracted to the sum of what they hold, and    *)
(* its strategy group to one group; amounts are small integers.            *)
(***************************************************************************)
EXTENDS Integers, FiniteSets, FiniteSetsExt, Totals, WalletWriteLane

CONSTANTS
    Operators,      \* requests that may close the position at the same time
    Worker,         \* the retry orchestrator's handler
    Opened,         \* what the lots held when the position was opened
    Settings,       \* [foreign: tokens of the contract in the wallet beyond the lots,
                    \*  percents: shares of the position an operator asks to sell,
                    \*  protected: was the position opened with a protection strategy,
                    \*  sells: bound on the sells of this setting]
    MaxRetries,     \* trade_intents.max_retries of a close
    MaxSells,       \* bound: sell attempts and sales, of every origin
    MaxDisturbances \* bound: exits of the process and moves of the owner

ASSUME AmountsAssumption == Opened \in Nat \ {0}
ASSUME CloseBoundsAssumption ==
    /\ MaxRetries \in 0..2 /\ MaxSells \in Nat \ {0}
    /\ MaxDisturbances \in Nat
ASSUME ClosersAssumption ==
    /\ Worker \notin Operators
    /\ \A s \in Settings : /\ s.foreign \in Nat /\ s.percents \subseteq 1 .. 100
                           /\ s.protected \in BOOLEAN /\ s.sells \in 1 .. MaxSells

Closers == Operators \cup {Worker}
SellIds == 1 .. MaxSells
Gens == SellIds         \* close_generation of a sell intent

ASSUME CloseNobodyAssumption == Nobody \notin SellIds

VARIABLES
    position,   \* positions.status
    remaining,  \* sum of position_lots.remaining_amount_raw
    group,      \* strategy_groups.status, "none" without a strategy
    sells,      \* sell attempts with their orders; a sale not seen yet too
    intents,    \* sell intents by close_generation
    lane,       \* the wallet_write_lanes row
    closer,     \* closers: the step each is at and what it has read
    rec,        \* the reconciler: what it read and has not acted upon
    strategy,   \* the strategy at the provider
    chain,      \* what became of each sale's transaction
    wallet,     \* the wallet's token balance
    ownerMoves, crashes,
    setting     \* which of Settings this is

rows == <<position, remaining, group, sells, intents, lane>>
world == <<strategy, chain, wallet, ownerMoves, crashes>>
vars == <<rows, closer, rec, world>>

-----------------------------------------------------------------------------
(* Vocabularies. *)

Closable == {"open_protected", "open_unprotected", "partially_closed"}
PositionStatuses == Closable \cup {"closing", "close_uncertain", "closed"}

ActiveGroup == {"running", "partially_filled"}
UnsafeGroup == {"triggered", "cancelling", "unknown"}
GroupStatuses == ActiveGroup \cup UnsafeGroup \cup
                 {"none", "cancelled", "failed", "completed"}

ActiveIntent == {"created", "submitting", "awaiting_result", "retry_verifying",
                 "retry_scheduled", "uncertain"}
IntentStatuses == ActiveIntent \cup
                  {"none", "confirmed", "exhausted", "rejected", "cancelled"}

(* the sell attempts claimStrategyClose and claimExternalClose give way to *)
ActiveSell == {"reserved", "preparing", "submitting", "submitted",
               "confirming", "submission_uncertain"}
SellStatuses == ActiveSell \cup
    {"none", "unseen", "failure_verifying", "definitive_failed_no_fill",
     "reconciliation_required", "rejected", "superseded", "confirmed"}
OrderStatuses == {"none", "submitted", "chain_verifying", "failure_verifying",
                  "definitive_failed_no_fill", "confirmed"}

Origins == {"close", "strategy", "external"}
ErrorCodes == {"none", "cancel", "triggered", "swap", "stale", "multiple_fill"}
CloserSteps == {"idle", "prepared", "built", "reserved", "cancel", "mark", "ask",
                "verify", "capture", "acquire", "begin", "swap", "record",
                "settle", "doubt", "freeze", "drop", "reject", "failed"}

NoSell == [origin |-> "close", status |-> "none", gen |-> 1, amount |-> 0,
           order |-> "none", code |-> "none", sealed |-> 0, proven |-> FALSE, tx |-> 1]
NothingSeen == [position |-> "none", remaining |-> 0, wallet |-> 0, amount |-> 0,
                percent |-> 0, strategy |-> "none"]
IdleCloser == [step |-> "idle", sell |-> 0, gen |-> 0, saw |-> NothingSeen, guarded |-> FALSE,
               cancelled |-> FALSE, code |-> "none"]
IdleReconciler == [step |-> "idle", view |-> "none", sale |-> 0, amount |-> 0,
                   guarded |-> FALSE]

-----------------------------------------------------------------------------
(* What several handlers read. *)

FreeSells == {i \in 1 .. setting.sells : sells[i].status = "none"}
FreeGens == {g \in Gens : intents[g] = "none"}
ActiveSells == {i \in SellIds : sells[i].status \in ActiveSell}
SellsOf(g) == {i \in SellIds : sells[i].gen = g /\ sells[i].status \notin {"none", "unseen"}}
RetriesLeft(g) == Cardinality(SellsOf(g)) <= MaxRetries

(* uq_trade_intents_active_scope: one active sell intent per position.     *)
ScopeTaken == \E g \in Gens : intents[g] \in ActiveIntent
MayActivate(g) == \A h \in Gens \ {g} : intents[h] \notin ActiveIntent

IntentMoved(g, from, to) ==
    IF intents[g] \in from THEN [intents EXCEPT ![g] = to] ELSE intents

(* transactions of the wallet that reached a block, which balances, nonces *)
(* and the address history of a failure proof show                         *)
Landed == Cardinality({i \in SellIds : chain[i] \in {"sold", "reverted"}}) + ownerMoves

(* normalizeStrategyStatus: a close hash, or a close amount, outranks the  *)
(* statuses the provider reports beside it.                                *)
ProviderView ==
    CASE strategy \in {"selling", "sold"} -> "triggered"
      [] strategy = "live" -> "running"
      [] OTHER -> strategy

(* loadStrategyState: only groups that are active or unsafe are looked up. *)
StrategySeen ==
    IF group \in ActiveGroup \cup UnsafeGroup THEN ProviderView ELSE "none"

(* Slip: a share of everything the wallet holds. *)
SellAmountOfWallet(percent) == Min({(wallet * percent) \div 100, wallet})

(* selectSellAmountRaw *)
SellAmount(percent) == Min({(remaining * percent) \div 100, remaining, wallet})

(* buildClosePrepared, and closeSnapshotIdentity of what it read.          *)
Snapshot(percent) ==
    [position |-> position, remaining |-> remaining, wallet |-> wallet,
     amount |-> SellAmount(percent), percent |-> percent, strategy |-> StrategySeen]
Buildable(percent) ==
    /\ position \in Closable
    /\ SellAmount(percent) > 0
    /\ StrategySeen \notin UnsafeGroup

-----------------------------------------------------------------------------
(* The operator's close: prepare, then execute with the one-time token.    *)

At(c, step) == closer[c].step = step
Goto(c, step) == closer' = [closer EXCEPT ![c].step = step]
Abandon(c) == closer' = [closer EXCEPT ![c] = IdleCloser]
MySell(c) == closer[c].sell

(* A handler that fails after it has an attempt goes through the catch     *)
(* block: "drop" if nothing can have been written, "doubt" otherwise.      *)
Doubt(c, why) == closer' = [closer EXCEPT ![c].step = "doubt", ![c].code = why]

Prepare(c) ==
    /\ c \in Operators /\ At(c, "idle")
    /\ \E percent \in setting.percents :
         /\ Buildable(percent)
         /\ closer' = [closer EXCEPT ![c].step = "prepared", ![c].saw = Snapshot(percent)]
    /\ UNCHANGED <<rows, rec, world>>

(* execute: the token is consumed and everything is read again; a request  *)
(* whose snapshot has changed is refused (PREPARE_SNAPSHOT_CHANGED).       *)
Execute(c) ==
    /\ c \in Operators /\ At(c, "prepared")
    /\ LET percent == closer[c].saw.percent IN
       IF Buildable(percent) /\ Snapshot(percent) = closer[c].saw
       THEN closer' = [closer EXCEPT ![c].step = "built",
                                     ![c].guarded = StrategySeen \in ActiveGroup]
       ELSE Abandon(c)
    /\ UNCHANGED <<rows, rec, world>>

(* createSellAttempt: the position is locked and must still be closable;   *)
(* an active sell intent of the position takes the request in.             *)
CreateSellAttempt(c) ==
    /\ c \in Operators /\ At(c, "built")
    /\ IF position \notin Closable \/ ScopeTaken
       THEN Abandon(c) /\ UNCHANGED <<position, sells, intents>>
       ELSE /\ FreeSells # {} /\ FreeGens # {}
            /\ LET i == Min(FreeSells)
                   g == Min(FreeGens)
               IN  /\ sells' = [sells EXCEPT ![i] =
                         [NoSell EXCEPT !.status = "reserved", !.gen = g, !.tx = i,
                                        !.amount = closer[c].saw.amount]]
                   /\ intents' = [intents EXCEPT ![g] = "created"]
                   /\ closer' = [closer EXCEPT ![c].step = "reserved", ![c].sell = i,
                                               ![c].gen = g, ![c].saw = NothingSeen]
            /\ position' = "closing"
    /\ UNCHANGED <<remaining, group, lane, rec, world>>

(* transitionAttempt reserved -> preparing *)
BeginPreparing(c) ==
    /\ At(c, "reserved")
    /\ LET i == MySell(c) IN
       IF sells[i].status = "reserved"
       THEN sells' = [sells EXCEPT ![i].status = "preparing"] /\ Goto(c, "cancel")
       ELSE Goto(c, "drop") /\ UNCHANGED sells
    /\ UNCHANGED <<position, remaining, group, intents, lane, rec, world>>

-----------------------------------------------------------------------------
(* cancelStrategies. *)

AcquireForCancel(c) ==
    /\ At(c, "cancel")
    /\ IF ~closer[c].guarded
       THEN /\ closer' = [closer EXCEPT ![c].step = "capture", ![c].cancelled = TRUE]
            /\ UNCHANGED lane
       ELSE IF MayAcquire(lane, MySell(c))
            THEN lane' = HeldLane(MySell(c)) /\ Goto(c, "mark")
            ELSE Goto(c, "drop") /\ UNCHANGED lane
    /\ UNCHANGED <<position, remaining, group, sells, intents, rec, world>>

MarkCancelling(c) ==
    /\ At(c, "mark")
    /\ IF group \in ActiveGroup
       THEN group' = "cancelling" /\ Goto(c, "ask")
       ELSE Goto(c, "drop") /\ UNCHANGED group
    /\ UNCHANGED <<position, remaining, sells, intents, lane, rec, world>>

CancelledAtProvider == strategy' = IF strategy = "live" THEN "cancelled" ELSE strategy

(* The provider's answer to the cancellation: accepted, refused for good,  *)
(* or lost, in which case it may have been carried out.                    *)
AskCancel(c) ==
    /\ At(c, "ask")
    /\ \/ /\ CancelledAtProvider
          /\ Goto(c, "verify")
          /\ UNCHANGED <<group, lane>>
       \/ /\ lane' = Release(lane, MySell(c))
          /\ group' = IF group = "cancelling" THEN "running" ELSE group
          /\ Goto(c, "drop")
          /\ UNCHANGED strategy
       \/ /\ CancelledAtProvider \/ UNCHANGED strategy
          /\ lane' = Quarantine(lane, MySell(c), "unproven")
          /\ Doubt(c, "cancel")
          /\ UNCHANGED group
    /\ UNCHANGED <<position, remaining, sells, intents, rec, chain, wallet, ownerMoves, crashes>>

(* Slip: an accepted cancellation is taken for a verified one. *)
VerifyAnyCancel(c) ==
    /\ At(c, "verify")
    /\ group' = "cancelled"
    /\ lane' = Release(lane, MySell(c))
    /\ closer' = [closer EXCEPT ![c].step = "capture", ![c].cancelled = TRUE]
    /\ UNCHANGED <<position, remaining, sells, intents, rec, world>>

(* waitForStrategyCancellation, then the group's compare-and-swap: only a  *)
(* strategy the provider's history shows cancelled, without a close hash,  *)
(* is out of the way.  The wait may end unverified.                        *)
VerifyCancel(c) ==
    /\ At(c, "verify")
    /\ \/ /\ ProviderView = "cancelled"
          /\ IF group = "cancelling"
             THEN /\ group' = "cancelled"
                  /\ lane' = Release(lane, MySell(c))
                  /\ closer' = [closer EXCEPT ![c].step = "capture", ![c].cancelled = TRUE]
             ELSE Goto(c, "drop") /\ UNCHANGED <<group, lane>>
       \/ /\ Doubt(c, IF ProviderView = "triggered" THEN "triggered" ELSE "cancel")
          /\ UNCHANGED <<group, lane>>
    /\ UNCHANGED <<position, remaining, sells, intents, rec, world>>

-----------------------------------------------------------------------------
(* The swap. *)

CaptureSnapshot(c) ==
    /\ At(c, "capture")
    /\ \/ /\ sells' = [sells EXCEPT ![MySell(c)].sealed = Landed]
          /\ Goto(c, "acquire")
       \/ Goto(c, "drop") /\ UNCHANGED sells
    /\ UNCHANGED <<position, remaining, group, intents, lane, rec, world>>

AcquireForSwap(c) ==
    /\ At(c, "acquire")
    /\ IF MayAcquire(lane, MySell(c))
       THEN lane' = HeldLane(MySell(c)) /\ Goto(c, "begin")
       ELSE Goto(c, "drop") /\ UNCHANGED lane
    /\ UNCHANGED <<position, remaining, group, sells, intents, rec, world>>

(* transitionAttempt preparing -> submitting: the compare-and-swap that    *)
(* stops a close whose attempt another actor has put up for review         *)
BeginSwap(c) ==
    /\ At(c, "begin")
    /\ IF sells[MySell(c)].status = "preparing"
       THEN /\ sells' = [sells EXCEPT ![MySell(c)].status = "submitting"]
            /\ intents' = IntentMoved(closer[c].gen, ActiveIntent \ {"retry_scheduled"},
                                      "submitting")
            /\ Goto(c, "swap")
       ELSE Goto(c, "drop") /\ UNCHANGED <<sells, intents>>
    /\ UNCHANGED <<position, remaining, group, lane, rec, world>>

Sent(i) == chain' = [chain EXCEPT ![i] = "sent"]

(* Slip: a swap without an answer counts as refused. *)
SwapTimeoutIsRefusal(c) ==
    /\ At(c, "swap")
    /\ \/ Sent(MySell(c)) /\ Goto(c, "record")
       \/ (Sent(MySell(c)) \/ UNCHANGED chain) /\ Goto(c, "drop")
    /\ UNCHANGED <<rows, rec, strategy, wallet, ownerMoves, crashes>>

(* accepted, refused for good, or without a usable answer *)
SwapAnswered(c) ==
    /\ At(c, "swap")
    /\ \/ Sent(MySell(c)) /\ Goto(c, "record")
       \/ UNCHANGED chain /\ Goto(c, "drop")
       \/ /\ Sent(MySell(c)) \/ UNCHANGED chain
          /\ Doubt(c, "swap")
    /\ UNCHANGED <<rows, rec, strategy, wallet, ownerMoves, crashes>>

(* recordSubmittedOrder *)
RecordSubmittedOrder(c) ==
    /\ At(c, "record")
    /\ LET i == MySell(c) IN
       IF sells[i].status = "submitting"
       THEN /\ sells' = [sells EXCEPT ![i].status = "submitted", ![i].order = "submitted"]
            /\ intents' = IntentMoved(closer[c].gen, {"submitting", "awaiting_result"},
                                      "awaiting_result")
            /\ Goto(c, "settle")
       ELSE Doubt(c, "swap") /\ UNCHANGED <<sells, intents>>
    /\ UNCHANGED <<position, remaining, group, lane, rec, world>>

SettleSubmittedOrder(c) ==
    /\ At(c, "settle")
    /\ \E terminalWithoutHash \in BOOLEAN :
         lane' = Settle(lane, MySell(c), terminalWithoutHash)
    /\ Abandon(c)
    /\ UNCHANGED <<position, remaining, group, sells, intents, rec, world>>

-----------------------------------------------------------------------------
(* The catch block. *)

(* a failed handler of the retry worker ends in resolveHandlerFailure *)
HandlerOver(c) == IF c = Worker THEN Goto(c, "failed") ELSE Abandon(c)

(* markSellUncertain; a compare-and-swap that fails, or an intent that can *)
(* no longer be active, aborts it before the quarantine.                   *)
MarkSellUncertain(c) ==
    /\ At(c, "doubt")
    /\ LET i == MySell(c) IN
       IF sells[i].status \in {"preparing", "submitting"} /\ MayActivate(sells[i].gen)
       THEN /\ sells' = [sells EXCEPT ![i].status = "submission_uncertain",
                                      ![i].code = closer[c].code]
            /\ intents' = [intents EXCEPT ![sells[i].gen] = "uncertain"]
            /\ position' = "close_uncertain"
            /\ Goto(c, "freeze")
       ELSE HandlerOver(c) /\ UNCHANGED <<sells, intents, position>>
    /\ UNCHANGED <<remaining, group, lane, rec, world>>

QuarantineWallet(c) ==
    /\ At(c, "freeze")
    /\ lane' = Quarantine(lane, MySell(c), "unproven")
    /\ HandlerOver(c)
    /\ UNCHANGED <<position, remaining, group, sells, intents, rec, world>>

DropLane(c) ==
    /\ At(c, "drop")
    /\ lane' = Release(lane, MySell(c))
    /\ Goto(c, "reject")
    /\ UNCHANGED <<position, remaining, group, sells, intents, rec, world>>

Fallback(c) ==
    IF ~closer[c].cancelled /\ (closer[c].guarded \/ c = Worker)
    THEN "open_protected" ELSE "open_unprotected"

(* rejectSellAttempt *)
RejectSellAttempt(c) ==
    /\ At(c, "reject")
    /\ LET i == MySell(c) IN
       IF sells[i].status \in {"reserved", "preparing", "submitting"}
       THEN /\ sells' = [sells EXCEPT ![i].status = "rejected"]
            /\ intents' = [intents EXCEPT ![sells[i].gen] = "rejected"]
            /\ position' = IF position = "closing" THEN Fallback(c) ELSE position
       ELSE UNCHANGED <<sells, intents, position>>
    /\ HandlerOver(c)
    /\ UNCHANGED <<remaining, group, lane, rec, world>>

-----------------------------------------------------------------------------
(* The retry worker: claim, build, attempt; and the orchestrator's sweeps. *)

ClaimRetry(g) ==
    /\ At(Worker, "idle")
    /\ intents[g] = "retry_scheduled" /\ lane.state = "idle"
    /\ intents' = [intents EXCEPT ![g] = "retry_verifying"]
    /\ closer' = [closer EXCEPT ![Worker].step = "prepared", ![Worker].gen = g]
    /\ UNCHANGED <<position, remaining, group, sells, lane, rec, world>>

(* retryIntent builds the close anew, for the whole of what is left; it    *)
(* may also be refused: disabled, out of time, provider unavailable.       *)
BuildRetry ==
    /\ At(Worker, "prepared")
    /\ \/ /\ Buildable(100)
          /\ closer' = [closer EXCEPT ![Worker].step = "built",
                                      ![Worker].saw = Snapshot(100),
                                      ![Worker].guarded = StrategySeen \in ActiveGroup]
       \/ Goto(Worker, "failed")
    /\ UNCHANGED <<rows, rec, world>>

CreateRetryAttempt ==
    /\ At(Worker, "built")
    /\ LET g == closer[Worker].gen IN
       IF intents[g] = "retry_verifying" /\ RetriesLeft(g)
       THEN /\ FreeSells # {}
            /\ LET i == Min(FreeSells) IN
               /\ sells' = [sells EXCEPT ![i] =
                     [NoSell EXCEPT !.status = "reserved", !.gen = g, !.tx = i,
                                    !.amount = closer[Worker].saw.amount]]
               /\ closer' = [closer EXCEPT ![Worker].step = "reserved",
                                           ![Worker].sell = i, ![Worker].saw = NothingSeen]
       ELSE Goto(Worker, "failed") /\ UNCHANGED sells
    /\ UNCHANGED <<position, remaining, group, intents, lane, rec, world>>

(* resolveHandlerFailure: a claim nothing came of is rejected; for a sell  *)
(* nothing else changes, the position neither.                             *)
ResolveHandlerFailure ==
    /\ At(Worker, "failed")
    /\ intents' = IntentMoved(closer[Worker].gen, {"retry_verifying"}, "rejected")
    /\ Abandon(Worker)
    /\ UNCHANGED <<position, remaining, group, sells, lane, rec, world>>

RestoreAbandonedClaim(g) ==
    /\ At(Worker, "idle") /\ intents[g] = "retry_verifying"
    /\ \A i \in SellsOf(g) : sells[i].status \notin {"reserved", "preparing", "submitting"}
    /\ intents' = [intents EXCEPT ![g] = "retry_scheduled"]
    /\ UNCHANGED <<position, remaining, group, sells, lane, closer, rec, world>>

(* expireScheduledRetries *)
ExpireScheduledRetry(g) ==
    /\ At(Worker, "idle") /\ intents[g] = "retry_scheduled"
    /\ intents' = [intents EXCEPT ![g] = "exhausted"]
    /\ position' = IF position \in {"closing", "close_uncertain"}
                   THEN "open_unprotected" ELSE position
    /\ UNCHANGED <<remaining, group, sells, lane, closer, rec, world>>

(* The lease of a lane is 30 s.  A closer that waits for a cancellation to *)
(* show can take longer; any other has died if its lease runs out.         *)
Writer(i) == {c \in Closers : closer[c].sell = i}
LeaseOver(i) == \A c \in Writer(i) : At(c, "verify")

RecoverStaleSubmission ==
    /\ At(Worker, "idle") /\ lane.state = "submitting" /\ LeaseOver(lane.owner)
    /\ LET i == lane.owner
           settled == \/ sells[i].status \in {"confirmed", "definitive_failed_no_fill",
                                              "rejected", "superseded"}
                      \/ sells[i].order # "none"
           taken == ~settled /\ sells[i].status \in
                      {"reserved", "preparing", "submitting", "submission_uncertain"}
       IN  /\ lane' = Recover(lane, settled)
           /\ sells' = IF taken
                       THEN [sells EXCEPT ![i].status = "submission_uncertain",
                                          ![i].code = "stale"]
                       ELSE sells
           /\ intents' = IF taken /\ MayActivate(sells[i].gen)
                         THEN [intents EXCEPT ![sells[i].gen] = "uncertain"] ELSE intents
    /\ UNCHANGED <<position, remaining, group, closer, rec, world>>

(* Slip: an attempt that may have sent its swap is superseded as well. *)
RecoverStaleAnyAttempt(i) ==
    /\ At(Worker, "idle") /\ Writer(i) = {}
    /\ sells[i].status \in {"reserved", "preparing", "submitting"}
    /\ intents[sells[i].gen] \in {"created", "submitting", "retry_verifying"}
    /\ sells' = [sells EXCEPT ![i].status = "superseded"]
    /\ intents' = [intents EXCEPT ![sells[i].gen] = "cancelled"]
    /\ position' = IF position \in {"closing", "close_uncertain"}
                   THEN "open_unprotected" ELSE position
    /\ UNCHANGED <<remaining, group, lane, closer, rec, world>>

(* recoverStalePreSubmitAttempts, 90 s after the closer died *)
RecoverStalePreSubmit(i) ==
    /\ At(Worker, "idle") /\ Writer(i) = {}
    /\ sells[i].status \in {"reserved", "preparing"}
    /\ intents[sells[i].gen] \in {"created", "submitting", "retry_verifying"}
    /\ sells' = [sells EXCEPT ![i].status = "superseded"]
    /\ intents' = [intents EXCEPT ![sells[i].gen] = "cancelled"]
    /\ position' = IF position \in {"closing", "close_uncertain"}
                   THEN IF group \in ActiveGroup \cup {"triggered"}
                        THEN "open_protected" ELSE "open_unprotected"
                   ELSE position
    /\ UNCHANGED <<remaining, group, lane, closer, rec, world>>

-----------------------------------------------------------------------------
(* The reconciler, orders: one after the other, each in one round.         *)

RecIdle == rec.step = "idle"
Due(i) == RecIdle /\ sells[i].order \in
            {"submitted", "chain_verifying", "failure_verifying", "definitive_failed_no_fill"}
OutcomeOf(i) == chain[sells[i].tx]

ObserveConfirmed(i) ==
    /\ Due(i) /\ sells[i].order # "chain_verifying"
    /\ sells' = [sells EXCEPT ![i].order = "chain_verifying"]
    /\ UNCHANGED <<position, remaining, group, intents, lane, closer, rec, world>>

ObservePending(i) ==
    /\ Due(i) /\ sells[i].order \notin {"chain_verifying", "definitive_failed_no_fill"}
    /\ sells' = [sells EXCEPT ![i].order = "submitted"]
    /\ UNCHANGED <<position, remaining, group, intents, lane, closer, rec, world>>

(* A failure the provider reports is verified; without a hash the wallet   *)
(* is frozen while the evidence is collected.                              *)
ObserveFailure(i, withHash) ==
    /\ Due(i) /\ sells[i].order \in {"submitted", "failure_verifying"}
    /\ sells' = [sells EXCEPT ![i].order = "failure_verifying",
                   ![i].status = IF @ \in {"submitted", "reconciliation_required"}
                                 THEN "failure_verifying" ELSE @]
    /\ lane' = IF withHash THEN lane ELSE Quarantine(lane, i, "no_hash_evidence")
    /\ UNCHANGED <<position, remaining, group, intents, closer, rec, world>>

(* scheduleAfterDefinitiveFailure for a sell: no circuit stands in the way *)
(* of a retry, and without one the position is open again.                 *)
ProveFailed(i, retry) ==
    /\ sells' = [sells EXCEPT ![i].order = "definitive_failed_no_fill",
                              ![i].status = "definitive_failed_no_fill",
                              ![i].proven = TRUE]
    /\ intents' = [intents EXCEPT ![sells[i].gen] =
                     IF retry THEN "retry_scheduled" ELSE "exhausted"]
    /\ position' = IF ~retry /\ position \in {"closing", "close_uncertain"}
                   THEN "open_unprotected" ELSE position
    /\ lane' = ResolveEvidence(lane, i)

(* The proof of a failure: the receipt failed, or nothing has moved since  *)
(* the snapshot was sealed and no write of this wallet is under way.  The  *)
(* retry window and the fee envelope may be used up.                       *)
VerdictFailed(i) ==
    /\ RecIdle /\ sells[i].order = "failure_verifying"
    /\ sells[i].status # "definitive_failed_no_fill"
    /\ \/ OutcomeOf(i) = "reverted"
       \/ /\ lane = FrozenLane(i, "no_hash_evidence") /\ Landed = sells[i].sealed
          /\ \A c \in Closers : ~At(c, "swap")
    /\ \E retry \in {RetriesLeft(sells[i].gen), FALSE} :
         /\ retry => MayActivate(sells[i].gen)
         /\ ProveFailed(i, retry)
    /\ UNCHANGED <<remaining, group, closer, rec, world>>

(* markUncertain and the quarantine, when the evidence is missing or       *)
(* against a failure                                                       *)
VerdictUncertain(i) ==
    /\ RecIdle /\ sells[i].order = "failure_verifying"
    /\ OutcomeOf(i) # "reverted"
    /\ sells' = [sells EXCEPT ![i].status =
                   IF @ = "submission_uncertain" THEN @ ELSE "reconciliation_required"]
    /\ IF MayActivate(sells[i].gen)
       THEN /\ intents' = [intents EXCEPT ![sells[i].gen] = "uncertain"]
            /\ lane' = Quarantine(lane, i, "unproven")
       ELSE UNCHANGED <<intents, lane>>
    /\ UNCHANGED <<position, remaining, group, closer, rec, world>>

(* The receipt of a confirmed order failed, was dropped or shows another   *)
(* transfer: the attempt is put up for review, the lane is not touched.    *)
ReceiptContradicts(i) ==
    /\ Due(i) /\ sells[i].order = "chain_verifying"
    /\ sells[i].status \in {"submitted", "confirming", "reconciliation_required"}
    /\ sells' = [sells EXCEPT ![i].status = "reconciliation_required"]
    /\ intents' = IntentMoved(sells[i].gen, ActiveIntent \ {"retry_scheduled"}, "uncertain")
    /\ UNCHANGED <<position, remaining, group, lane, closer, rec, world>>

ConfirmedEarlier(i) ==
    \E j \in SellsOf(sells[i].gen) \ {i} : sells[j].status = "confirmed"

BookLots(i) ==
    /\ remaining' = remaining - sells[i].amount
    /\ position' = IF remaining = sells[i].amount THEN "closed" ELSE "partially_closed"
    /\ lane' = ResolveEvidence(lane, i)
    /\ sells' = [sells EXCEPT ![i].order = "confirmed", ![i].status = "confirmed"]
    /\ intents' = [intents EXCEPT ![sells[i].gen] = "confirmed"]

(* Slip: only a position that is closing is settled. *)
FinalizeClosingOnly(i) ==
    /\ Due(i) /\ sells[i].order = "chain_verifying" /\ OutcomeOf(i) = "sold"
    /\ ~ConfirmedEarlier(i) /\ position = "closing" /\ sells[i].amount <= remaining
    /\ BookLots(i)
    /\ group' = IF sells[i].origin # "strategy" THEN group
                ELSE IF strategy = "sold" THEN "completed" ELSE "partially_filled"
    /\ UNCHANGED <<closer, rec, world>>

(* Slip: the lots are not asked whether they hold the sale. *)
FinalizeBeyondLots(i) ==
    /\ Due(i) /\ sells[i].order = "chain_verifying" /\ OutcomeOf(i) = "sold"
    /\ BookLots(i)
    /\ UNCHANGED <<group, closer, rec, world>>

(* finalizeConfirmedSellOrder: the lots pay for the sale and the position  *)
(* and the intent follow, whatever they were.  A second sale of a close is *)
(* an incident that freezes the wallet.  More than the lots hold aborts.   *)
FinalizeConfirmedSell(i) ==
    /\ Due(i) /\ sells[i].order = "chain_verifying" /\ OutcomeOf(i) = "sold"
    /\ IF ConfirmedEarlier(i)
       THEN /\ sells' = [sells EXCEPT ![i].order = "confirmed", ![i].status = "confirmed",
                                      ![i].code = "multiple_fill"]
            /\ intents' = [intents EXCEPT ![sells[i].gen] = "confirmed"]
            /\ position' = "close_uncertain"
            /\ lane' = FrozenLane(i, "multiple_fill")
            /\ UNCHANGED <<remaining, group>>
       ELSE /\ sells[i].amount <= remaining
            /\ BookLots(i)
            /\ group' = IF sells[i].origin # "strategy" THEN group
                        ELSE IF strategy = "sold" THEN "completed" ELSE "partially_filled"
    /\ UNCHANGED <<closer, rec, world>>

(* an uncertain submission without an order, 120 s later *)
EscalateUncertain(i) ==
    /\ RecIdle /\ sells[i].status = "submission_uncertain" /\ sells[i].order = "none"
    /\ sells' = [sells EXCEPT ![i].status = "reconciliation_required"]
    /\ intents' = IntentMoved(sells[i].gen, ActiveIntent \ {"retry_scheduled"}, "uncertain")
    /\ UNCHANGED <<position, remaining, group, lane, closer, rec, world>>

(* reconcileCancelledCloseAttempt: nothing was ordered for the attempt, the *)
(* provider's history shows its strategy cancelled before any swap, and the *)
(* wallet still has what the lots hold.                                     *)
CloseWasCancelled(i) ==
    /\ sells[i].order = "none" /\ sells[i].code = "cancel"
    /\ ProviderView = "cancelled" /\ 0 < remaining /\ remaining <= wallet

(* resolveCancelledCloseAttempt *)
ReconcileCancelledClose(i) ==
    /\ RecIdle /\ CloseWasCancelled(i)
    /\ sells[i].status \in {"submission_uncertain", "reconciliation_required"}
    /\ position = "close_uncertain"
    /\ sells' = [sells EXCEPT ![i].status = "rejected"]
    /\ group' = "cancelled"
    /\ position' = "open_unprotected"
    /\ UNCHANGED <<remaining, intents, lane, closer, rec, world>>

-----------------------------------------------------------------------------
(* The reconciler, strategies: what the provider answered is persisted     *)
(* whatever the group has become meanwhile, and a close it shows is        *)
(* claimed in a transaction of its own.                                    *)

FetchStrategy ==
    /\ RecIdle /\ group \in ActiveGroup \cup UnsafeGroup
    /\ \E view \in {ProviderView, "unknown"} :
         rec' = [IdleReconciler EXCEPT !.step = "strategy", !.view = view]
    /\ UNCHANGED <<rows, closer, world>>

PersistStrategy ==
    /\ rec.step = "strategy"
    /\ group' = rec.view
    /\ position' = IF rec.view \in {"cancelled", "failed"} /\ position = "open_protected"
                   THEN "open_unprotected" ELSE position
    /\ rec' = IF rec.view = "triggered" THEN [rec EXCEPT !.step = "claim"] ELSE IdleReconciler
    /\ UNCHANGED <<remaining, sells, intents, lane, closer, world>>

SalesOf(origin) == {i \in SellIds : sells[i].origin = origin /\ sells[i].status # "none"}

(* createObservedSellAttempt: an intent of its own, unless the position    *)
(* has an active one, which aborts the transaction.                        *)
Observe(i, row) ==
    /\ ~ScopeTaken /\ FreeGens # {}
    /\ LET g == Min(FreeGens) IN
       /\ sells' = [sells EXCEPT ![i] = [row EXCEPT !.status = "confirming", !.gen = g,
                                                    !.order = "chain_verifying"]]
       /\ intents' = [intents EXCEPT ![g] = "awaiting_result"]
    /\ position' = "closing"

(* claimStrategyClose: the strategy's sale becomes a sell attempt; a close *)
(* under way is in conflict with it, and is stopped if nothing was sent.   *)
ClaimStrategyClose ==
    /\ rec.step = "claim"
    /\ \E i \in SalesOf("strategy") :
         IF sells[i].status # "unseen" \/ (ActiveSells = {} /\ (ScopeTaken \/ FreeGens = {}))
         THEN UNCHANGED <<position, sells, intents, group>>
         ELSE IF ActiveSells = {}
         THEN Observe(i, sells[i]) /\ group' = "triggered"
         ELSE /\ position' = "close_uncertain"
              /\ LET latest == Max(ActiveSells) IN
                 sells' = IF sells[latest].status \in {"reserved", "preparing"}
                          THEN [sells EXCEPT ![latest].status = "reconciliation_required",
                                             ![latest].code = "triggered"]
                          ELSE sells
              /\ UNCHANGED <<intents, group>>
    /\ rec' = IdleReconciler
    /\ UNCHANGED <<remaining, lane, closer, world>>

-----------------------------------------------------------------------------
(* The reconciler, balances. *)

ReadBalance ==
    /\ RecIdle /\ position \in Closable /\ remaining > 0
    /\ rec' = [IdleReconciler EXCEPT !.step = "balance", !.amount = wallet,
                                     !.guarded = group \in ActiveGroup \cup UnsafeGroup]
    /\ UNCHANGED <<rows, closer, world>>

MarkPositionBalanceMismatch ==
    /\ position' = IF position \in Closable THEN "close_uncertain" ELSE position
    /\ rec' = IdleReconciler

(* observePositionBalance: the balance read against the lots as they are now *)
Deficit == remaining - rec.amount

(* the sales of the token the wallet's activity shows with this amount *)
Candidates(deficit) == {i \in SellIds : chain[i] = "sold" /\ sells[i].amount = deficit}

(* Slip: a deficit the activity does not explain is left for later. *)
JudgeBalanceLater ==
    /\ rec.step = "balance"
    /\ LET deficit == Deficit IN
       IF deficit <= 0 \/ rec.guarded \/ Cardinality(Candidates(deficit)) # 1
       THEN rec' = IdleReconciler
       ELSE rec' = [rec EXCEPT !.step = "external", !.amount = deficit,
                               !.sale = Max(Candidates(deficit))]
    /\ UNCHANGED <<rows, closer, world>>

(* observePositionBalance, and what the activity explains of a deficit     *)
JudgeBalance ==
    /\ rec.step = "balance"
    /\ LET deficit == Deficit IN
       IF deficit <= 0
       THEN rec' = IdleReconciler /\ UNCHANGED position
       ELSE IF rec.guarded \/ Cardinality(Candidates(deficit)) # 1
       THEN MarkPositionBalanceMismatch
       ELSE /\ rec' = [rec EXCEPT !.step = "external", !.amount = deficit,
                                  !.sale = Max(Candidates(deficit))]
            /\ UNCHANGED position
    /\ UNCHANGED <<remaining, group, sells, intents, lane, closer, world>>

(* claimExternalClose: the sale is claimed once as an external close, and  *)
(* not while a sell attempt or intent of the position is active.  It is    *)
(* not asked whether the program has booked the same transaction before.   *)
ClaimExternalClose ==
    /\ rec.step = "external"
    /\ LET t == rec.sale
           claimed == \E i \in SalesOf("external") : sells[i].tx = t /\ sells[i].status # "unseen"
           slots == IF sells[t].status = "unseen" THEN {t} ELSE FreeSells
       IN  IF \/ rec.amount > remaining \/ claimed \/ ActiveSells # {}
              \/ ScopeTaken \/ FreeGens = {} \/ slots = {}
           THEN UNCHANGED <<position, sells, intents>>
           ELSE Observe(Min(slots), [NoSell EXCEPT !.origin = "external", !.tx = t,
                                                   !.amount = rec.amount])
    /\ rec' = IdleReconciler
    /\ UNCHANGED <<remaining, group, lane, closer, world>>

-----------------------------------------------------------------------------
(* The environment: the chain, the strategy at the provider, the owner of  *)
(* the wallet, and the operating system.                                   *)

(* A sale cannot take more than the wallet has: it reverts instead. *)
SwapLands(i) ==
    /\ chain[i] = "sent"
    /\ \/ /\ sells[i].amount <= wallet
          /\ chain' = [chain EXCEPT ![i] = "sold"]
          /\ wallet' = wallet - sells[i].amount
       \/ chain' = [chain EXCEPT ![i] = "reverted"] /\ UNCHANGED wallet
    /\ UNCHANGED <<rows, closer, rec, strategy, ownerMoves, crashes>>

(* a sale of the tokens that the program has no part in *)
SaleAppears(origin, amount) ==
    /\ FreeSells # {} /\ amount <= wallet
    /\ LET i == Max(FreeSells) IN
       /\ sells' = [sells EXCEPT ![i] = [NoSell EXCEPT !.origin = origin, !.status = "unseen",
                                                       !.amount = amount, !.tx = i]]
       /\ chain' = [chain EXCEPT ![i] = "sold"]
    /\ wallet' = wallet - amount

(* the strategy's whole amount, or a first part of it *)
StrategyTriggers ==
    /\ strategy = "live"
    /\ \E part \in 1 .. Opened :
         /\ SaleAppears("strategy", part)
         /\ strategy' \in IF part = Opened THEN {"sold"} ELSE {"sold", "selling"}
    /\ UNCHANGED <<position, remaining, group, intents, lane, closer, rec, ownerMoves, crashes>>

StrategyFails ==
    /\ strategy = "live"
    /\ strategy' = "failed"
    /\ UNCHANGED <<rows, closer, rec, chain, wallet, ownerMoves, crashes>>

Disturbable == ownerMoves + crashes < MaxDisturbances

OwnerSells(amount) ==
    /\ Disturbable
    /\ SaleAppears("external", amount)
    /\ ownerMoves' = ownerMoves + 1
    /\ UNCHANGED <<position, remaining, group, intents, lane, closer, rec, strategy, crashes>>

OwnerTransfers(amount) ==
    /\ Disturbable /\ amount <= wallet
    /\ wallet' = wallet - amount
    /\ ownerMoves' = ownerMoves + 1
    /\ UNCHANGED <<rows, closer, rec, strategy, chain, crashes>>

Crash ==
    /\ Disturbable
    /\ crashes' = crashes + 1
    /\ closer' = [c \in Closers |-> IdleCloser]
    /\ rec' = IdleReconciler
    /\ UNCHANGED <<rows, strategy, chain, wallet, ownerMoves>>

-----------------------------------------------------------------------------
Init ==
    /\ setting \in Settings
    /\ position = IF setting.protected THEN "open_protected" ELSE "open_unprotected"
    /\ remaining = Opened
    /\ group = IF setting.protected THEN "running" ELSE "none"
    /\ sells = [i \in SellIds |-> NoSell]
    /\ intents = [g \in Gens |-> "none"]
    /\ lane = IdleLane
    /\ closer = [c \in Closers |-> IdleCloser]
    /\ rec = IdleReconciler
    /\ strategy = IF setting.protected THEN "live" ELSE "none"
    /\ chain = [i \in SellIds |-> "none"]
    /\ wallet = Opened + setting.foreign
    /\ ownerMoves = 0 /\ crashes = 0

CloserStep(c) ==
    \/ Prepare(c) \/ Execute(c) \/ CreateSellAttempt(c) \/ BeginPreparing(c)
    \/ AcquireForCancel(c) \/ MarkCancelling(c) \/ AskCancel(c) \/ VerifyCancel(c)
    \/ CaptureSnapshot(c) \/ AcquireForSwap(c) \/ BeginSwap(c) \/ SwapAnswered(c)
    \/ RecordSubmittedOrder(c) \/ SettleSubmittedOrder(c) \/ MarkSellUncertain(c)
    \/ QuarantineWallet(c) \/ DropLane(c) \/ RejectSellAttempt(c)

RetryStep ==
    \/ \E g \in Gens : ClaimRetry(g) \/ RestoreAbandonedClaim(g) \/ ExpireScheduledRetry(g)
    \/ BuildRetry \/ CreateRetryAttempt \/ ResolveHandlerFailure
    \/ RecoverStaleSubmission
    \/ \E i \in SellIds : RecoverStalePreSubmit(i)

OrderStep(i) ==
    \/ ObserveConfirmed(i) \/ ObservePending(i)
    \/ \E withHash \in BOOLEAN : ObserveFailure(i, withHash)
    \/ VerdictFailed(i) \/ VerdictUncertain(i)
    \/ ReceiptContradicts(i) \/ FinalizeConfirmedSell(i)
    \/ EscalateUncertain(i) \/ ReconcileCancelledClose(i)

ReconcileStep ==
    \/ \E i \in SellIds : OrderStep(i)
    \/ FetchStrategy \/ PersistStrategy \/ ClaimStrategyClose
    \/ ReadBalance \/ JudgeBalance \/ ClaimExternalClose

EnvironmentStep ==
    \/ \E i \in SellIds : SwapLands(i)
    \/ StrategyTriggers \/ StrategyFails
    \/ \E amount \in 1 .. Opened : OwnerSells(amount) \/ OwnerTransfers(amount)
    \/ Crash

RetryWork == CloserStep(Worker) \/ BuildRetry \/ CreateRetryAttempt \/ ResolveHandlerFailure
ReconcilerMovesOn == PersistStrategy \/ ClaimStrategyClose \/ JudgeBalance \/ ClaimExternalClose

Next ==
    /\ \/ \E c \in Closers : CloserStep(c)
       \/ RetryStep
       \/ ReconcileStep
       \/ EnvironmentStep
    /\ setting' = setting

Spec == Init /\ [][Next]_<<vars, setting>>

(* The retry worker, the sweeps and an operator's request run on timers or *)
(* are awaited by their caller; the reconciler goes through every due      *)
(* order, strategy and position in each round, so what stays due, even     *)
(* with other rows in between, is worked on.                               *)
Fairness ==
    /\ WF_vars(RetryWork) /\ WF_vars(ReconcilerMovesOn)
    /\ \A g \in Gens : SF_vars(ExpireScheduledRetry(g))
    /\ \A i \in SellIds : SF_vars(FinalizeConfirmedSell(i))
    /\ SF_vars(ReadBalance)

FairSpec == Spec /\ Fairness

-----------------------------------------------------------------------------
(* Every variable keeps to the values the code gives it. *)
TypeOK ==
    /\ position \in PositionStatuses
    /\ remaining \in 0 .. Opened
    /\ group \in GroupStatuses
    /\ sells \in [SellIds ->
          [origin : Origins, status : SellStatuses, gen : Gens, amount : Nat,
           order : OrderStatuses, code : ErrorCodes, sealed : Nat, proven : BOOLEAN,
           tx : SellIds]]
    /\ intents \in [Gens -> IntentStatuses]
    /\ lane \in Lanes(SellIds)
    /\ \A c \in Closers : closer[c].step \in CloserSteps
    /\ rec.step \in {"idle", "strategy", "claim", "balance", "external"}
    /\ strategy \in {"none", "live", "selling", "sold", "cancelled", "failed"}
    /\ chain \in [SellIds -> {"none", "sent", "sold", "reverted"}]
    /\ wallet \in 0 .. Opened + setting.foreign
    /\ ownerMoves + crashes \in 0 .. MaxDisturbances /\ {ownerMoves, crashes} \subseteq Nat

Amounts == [i \in SellIds |-> sells[i].amount]
SoldBy(origins) ==
    Total(Amounts, {i \in SellIds : sells[i].origin \in origins /\ chain[i] = "sold"})

(* A sale whose failure had been proved without a hash reached a block     *)
(* after all.  The terminal audit of its order books it, and then a close  *)
(* of the same position may be in flight that was meant to replace it: the *)
(* rules below are those of a position whose proofs of failure are right.  *)
MistakenProof == \E i \in SellIds : sells[i].proven /\ chain[i] = "sold"

(* The closes and the protection strategy together never sell more than    *)
(* the position's lots, although the wallet may hold more of the token     *)
(* (selectSellAmountRaw, cancelStrategies).  This is so for one request of *)
(* an operator at a time: createSellAttempt does not read the lots again,  *)
(* so that of two requests the slower one sells what it saw.               *)
NoOversell == ~MistakenProof => SoldBy({"close", "strategy"}) <= Opened

(* A position that shows as open has lots left, and no close swap of it is *)
(* in flight: however late sales, verdicts, sweeps and refusals are        *)
(* ordered, none gives back a position that is empty, or of which a swap   *)
(* may still land.                                                         *)
OpenMeansDecided ==
    ~MistakenProof /\ position \in Closable =>
        /\ remaining > 0
        /\ \A i \in SellIds : chain[i] = "sent" => sells[i].proven

(* A close swap is sent only when the protection strategy can no longer    *)
(* sell (cancelStrategies): the two never race for the same tokens.        *)
SwapOnlyUnprotected ==
    [][\A i \in SellIds : chain[i] = "none" /\ chain'[i] = "sent"
         => strategy \notin {"live", "selling"}]_vars

(* A close swap is sent only when every earlier one has landed or has been *)
(* proven failed, across operators, retries, crashes and lost answers.     *)
SwapAfterSwapDecided ==
    [][\A i, j \in SellIds :
         /\ ~MistakenProof /\ chain[i] = "none" /\ chain'[i] = "sent"
         /\ j # i /\ chain[j] = "sent"
         => sells[j].proven]_vars

(* A sale the provider has confirmed and the chain shows is taken off the  *)
(* lots in the end, unless they do not hold it (finalizeConfirmedSellOrder *)
(* refuses it then).                                                       *)
ConfirmedSaleBooked ==
    \A i \in SellIds :
        sells[i].order = "chain_verifying" /\ OutcomeOf(i) = "sold"
            ~> sells[i].order = "confirmed" \/ sells[i].amount > remaining

(* A wallet that holds less than an open position's lots is noticed        *)
(* (reconcilePositionBalance), as long as the model has rows left.         *)
DeficitNoticed ==
    position \in Closable /\ wallet < remaining
        ~> position \notin Closable \/ wallet >= remaining \/ FreeSells = {}

(* What P9's rule "a failed sale leaves the position open, an unknown one  *)
(* leaves it uncertain" asks of a position that is closing: somebody is    *)
(* still working on a sale of it.  The code does not keep it.              *)
ClosingIsWorkedOn == position = "closing" => ScopeTaken
=============================================================================
