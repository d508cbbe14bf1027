--------------------------- MODULE BuyLifecycleProofs ---------------------------
(***************************************************************************)
(* What holds of live buys for any signals, contracts, limits, retries,    *)
(* crashes and interventions.                                              *)
(***************************************************************************)
EXTENDS BuyLifecycle, TLAPS, FiniteSetTheorems

-----------------------------------------------------------------------------
(* A lane that is held or frozen is so on account of an attempt. *)
LEMMA LaneOwner ==
    ASSUME NEW l \in Lanes(Attempts)
    PROVE  l.state # "idle" => l.owner \in Attempts
BY DEF Lanes, IdleLane, HeldLane, FrozenLane

(* Every statement on the lane row leaves a row of its vocabulary. *)
LEMMA LaneTypes ==
    ASSUME NEW l \in Lanes(Attempts), NEW a \in Attempts
    PROVE  /\ IdleLane \in Lanes(Attempts)
           /\ HeldLane(a) \in Lanes(Attempts)
           /\ Release(l, a) \in Lanes(Attempts)
           /\ ResolveEvidence(l, a) \in Lanes(Attempts)
           /\ \A why \in QuarantineReasons :
                /\ FrozenLane(a, why) \in Lanes(Attempts)
                /\ Quarantine(l, a, why) \in Lanes(Attempts)
           /\ \A over \in BOOLEAN :
                /\ Settle(l, a, over) \in Lanes(Attempts)
                /\ Recover(l, over) \in Lanes(Attempts)
<1>1. /\ IdleLane \in Lanes(Attempts)
      /\ HeldLane(a) \in Lanes(Attempts)
      /\ \A why \in QuarantineReasons : FrozenLane(a, why) \in Lanes(Attempts)
  BY DEF Lanes
<1>2. Release(l, a) \in Lanes(Attempts)
  BY <1>1 DEF Release
<1>3. \A why \in QuarantineReasons : Quarantine(l, a, why) \in Lanes(Attempts)
  BY <1>1 DEF Quarantine
<1>4. ResolveEvidence(l, a) \in Lanes(Attempts)
  BY <1>1 DEF ResolveEvidence
<1>5. ASSUME NEW over \in BOOLEAN
      PROVE  Settle(l, a, over) \in Lanes(Attempts)
  BY <1>2, <1>3 DEF Settle, QuarantineReasons
<1>6. ASSUME NEW over \in BOOLEAN
      PROVE  Recover(l, over) \in Lanes(Attempts)
  <2>1. CASE l.state # "submitting"
    BY <2>1 DEF Recover
  <2>2. CASE l.state = "submitting" /\ over
    BY <2>2, <1>1 DEF Recover
  <2>3. CASE l.state = "submitting" /\ ~over
    <3>1. l.owner \in Attempts
      BY <2>3, LaneOwner
    <3>2. FrozenLane(l.owner, "stale_lease") \in Lanes(Attempts)
      BY <3>1 DEF Lanes, QuarantineReasons
    <3> QED  BY <2>3, <3>2 DEF Recover
  <2> QED  BY <2>1, <2>2, <2>3
<1> QED  BY <1>1, <1>2, <1>3, <1>4, <1>5, <1>6

(* An intent's attempts are numbered up to its retries, so they are few. *)
LEMMA AttemptsFinite == IsFiniteSet(Attempts)
<1>1. IsFiniteSet(1 .. MaxRetries + 1)
  BY FS_Interval, RetriesAssumption
<1> QED  BY <1>1, FS_Product, SignalsAssumption DEF Attempts

(* The wallet's landed transactions can be counted. *)
LEMMA LandedType == Landed \in Nat
<1>1. IsFiniteSet({a \in Attempts : chain[a] \in {"filled", "reverted"}})
  BY AttemptsFinite, FS_Subset
<1> QED  BY <1>1, FS_CardinalityType DEF Landed

(* An attempt has its signal and its number, and insertAttempt makes one. *)
LEMMA AttemptParts ==
    /\ \A a \in Attempts : a[1] \in Signals /\ a[2] \in Nat
    /\ \A s \in Signals : <<s, 1>> \in Attempts
    /\ \A s \in Signals : \A n \in NextNo(s) : <<s, n>> \in Attempts
BY RetriesAssumption DEF Attempts, NextNo


-----------------------------------------------------------------------------

(* A writer's end leaves its worker and its handler at a step they have. *)
LEMMA ReturnTypes ==
    ASSUME TypeOK, NEW a \in Attempts
    PROVE  /\ ExecDone(a) \in
                [Signals \X Routes -> {"idle", "building", "prepared", "writing"}]
           /\ HandlerReturns(a) \in [intent : Signals \cup {Nobody}, step : HandlerSteps]
           /\ HandlerThrows(a) \in [intent : Signals \cup {Nobody}, step : HandlerSteps]
BY DEF TypeOK, ExecDone, HandlerReturns, HandlerThrows, HandlerIdle, HandlerSteps

(* What a verdict of the failure evidence service writes. *)
LEMMA VerdictTypes ==
    ASSUME TypeOK, NEW a \in Attempts,
           ScheduleAfterDefinitiveFailure(a) \/ MarkUncertain(a)
    PROVE  /\ attempt' \in [Attempts -> AttemptStatuses]
           /\ intent' \in [Signals -> IntentStatuses]
           /\ order' \in [Attempts -> OrderStatuses]
           /\ budget' \in [Signals -> BudgetStatuses]
           /\ failures' \in Nat
           /\ lane' \in Lanes(Attempts)
<1> USE AttemptParts
        DEF TypeOK, AttemptStatuses, IntentStatuses, ActiveIntent, OrderStatuses,
            BudgetStatuses
<1>1. CASE ScheduleAfterDefinitiveFailure(a)
  <2>1. lane' \in Lanes(Attempts)
    BY <1>1, LaneTypes DEF ScheduleAfterDefinitiveFailure
  <2>2. budget' \in [Signals -> BudgetStatuses]
    BY SMTT(30), <1>1 DEF ScheduleAfterDefinitiveFailure, BudgetReleased
  <2>3. failures' \in Nat
    BY <1>1 DEF ScheduleAfterDefinitiveFailure
  <2>4. attempt' \in [Attempts -> AttemptStatuses] /\ order' \in [Attempts -> OrderStatuses]
    BY SMTT(30), <1>1 DEF ScheduleAfterDefinitiveFailure
  <2>5. intent' \in [Signals -> IntentStatuses]
    BY <1>1 DEF ScheduleAfterDefinitiveFailure
  <2> QED  BY <2>1, <2>2, <2>3, <2>4, <2>5
<1>2. CASE MarkUncertain(a)
  BY <1>2 DEF MarkUncertain
<1> QED  BY <1>1, <1>2

(* Every step keeps the rows within their columns' vocabularies. *)
LEMMA TypeStep == TypeOK /\ [Next]_vars => TypeOK'
<1> SUFFICES ASSUME TypeOK, [Next]_vars PROVE TypeOK'
  OBVIOUS
<1> USE AttemptParts
        DEF TypeOK, vars, database, ledger, environment, workers, orchestrator,
             SignalStatuses, ActiveIntent, IntentStatuses, AttemptStatuses, OrderStatuses,
             BudgetStatuses, ChainOutcomes, Routes, WriterSteps, HandlerSteps, VerifierSteps,
             Step, Return, Throw, HandlerIdle, Verify, IntentMoved, BudgetReleased, BudgetCommitted
<1>1. ASSUME NEW s \in Signals, ExpireSignal(s) PROVE TypeOK'
  BY <1>1 DEF ExpireSignal
<1>2. ASSUME NEW s \in Signals, ClaimSignal(s) PROVE TypeOK'
  BY <1>2 DEF ClaimSignal
<1>3. ASSUME NEW s \in Signals, ExecuteManually(s) PROVE TypeOK'
  BY <1>3, BoundsAssumption DEF ExecuteManually
<1>4. ASSUME NEW s \in Signals, NEW route \in Routes, Prepare(s, route) PROVE TypeOK'
  BY <1>4, LandedType DEF Prepare
<1>5. ASSUME NEW s \in Signals, NEW route \in Routes, RefuseBuy(s, route) PROVE TypeOK'
  BY <1>5 DEF RefuseBuy
<1>6. ASSUME NEW s \in Signals, NEW route \in Routes, DuplicateBuy(s, route) PROVE TypeOK'
  BY <1>6 DEF DuplicateBuy
<1>7. ASSUME NEW s \in Signals, NEW route \in Routes, MergeBuy(s, route) PROVE TypeOK'
  BY <1>7 DEF MergeBuy
<1>8. ASSUME NEW s \in Signals, NEW route \in Routes, CreateBuyAttempt(s, route) PROVE TypeOK'
  BY <1>8 DEF CreateBuyAttempt
<1>9. ASSUME NEW a \in Attempts, CapturePreSubmitSnapshot(a) PROVE TypeOK'
  BY <1>9, LandedType DEF CapturePreSubmitSnapshot
<1>10. ASSUME NEW a \in Attempts, BeginBuySubmission(a) PROVE TypeOK'
  <2>1. lane' \in Lanes(Attempts)
    BY <1>10, LaneTypes DEF BeginBuySubmission
  <2> QED  BY <1>10, <2>1 DEF BeginBuySubmission
<1>11. ASSUME NEW a \in Attempts, RefuseSubmission(a) PROVE TypeOK'
  BY <1>11 DEF RefuseSubmission
<1>12. ASSUME NEW a \in Attempts, SwapAnswered(a) PROVE TypeOK'
  <2>1. \E next \in WriterSteps : work' = [work EXCEPT ![a] = next]
    BY <1>12 DEF SwapAnswered
  <2> QED  BY <1>12, <2>1 DEF SwapAnswered
<1>13. ASSUME NEW a \in Attempts, RecordSubmittedOrder(a) PROVE TypeOK'
  BY <1>13 DEF RecordSubmittedOrder
<1>14. ASSUME NEW a \in Attempts, RecordRefused(a) PROVE TypeOK'
  BY <1>14 DEF RecordRefused
<1>15. ASSUME NEW a \in Attempts, SettleSubmittedOrder(a) PROVE TypeOK'
  <2>1. lane' \in Lanes(Attempts)
    BY <1>15, LaneTypes DEF SettleSubmittedOrder, QuarantineReasons
  <2>2. /\ work' \in [Attempts -> WriterSteps]
        /\ exec' \in [Signals \X Routes -> {"idle", "building", "prepared", "writing"}]
        /\ handler' \in [intent : Signals \cup {Nobody}, step : HandlerSteps]
    BY <1>15, ReturnTypes DEF SettleSubmittedOrder
  <2> QED  BY <1>15, <2>1, <2>2 DEF SettleSubmittedOrder
<1>16. ASSUME NEW a \in Attempts, MarkSubmissionUncertain(a) PROVE TypeOK'
  <2>1. work' \in [Attempts -> WriterSteps]
    BY <1>16 DEF MarkSubmissionUncertain
  <2>2. /\ exec' \in [Signals \X Routes -> {"idle", "building", "prepared", "writing"}]
        /\ handler' \in [intent : Signals \cup {Nobody}, step : HandlerSteps]
    BY <1>16, ReturnTypes DEF MarkSubmissionUncertain
  <2>3. /\ attempt' \in [Attempts -> AttemptStatuses]
        /\ intent' \in [Signals -> IntentStatuses]
    <3>1. CASE attempt[a] = "submitting"
      <4>1. attempt' = [attempt EXCEPT ![a] = "submission_uncertain"]
        BY <1>16, <3>1 DEF MarkSubmissionUncertain
      <4>2. intent' = IntentMoved(a[1], ActiveIntent \ {"retry_scheduled"}, "uncertain")
        BY <1>16, <3>1 DEF MarkSubmissionUncertain
      <4> QED  BY <4>1, <4>2
    <3>2. CASE attempt[a] # "submitting"
      BY <1>16, <3>2 DEF MarkSubmissionUncertain
    <3> QED  BY <3>1, <3>2
  <2> QED  BY <1>16, <2>1, <2>2, <2>3 DEF MarkSubmissionUncertain
<1>17. ASSUME NEW a \in Attempts, QuarantineWriter(a) PROVE TypeOK'
  <2>1. lane' \in Lanes(Attempts)
    BY <1>17, LaneTypes DEF QuarantineWriter, QuarantineReasons
  <2>2. /\ work' \in [Attempts -> WriterSteps]
        /\ exec' \in [Signals \X Routes -> {"idle", "building", "prepared", "writing"}]
        /\ handler' \in [intent : Signals \cup {Nobody}, step : HandlerSteps]
    BY <1>17, ReturnTypes DEF QuarantineWriter
  <2> QED  BY <1>17, <2>1, <2>2 DEF QuarantineWriter
<1>18. ASSUME NEW a \in Attempts, ReleaseWriter(a) PROVE TypeOK'
  <2>1. lane' \in Lanes(Attempts)
    BY <1>18, LaneTypes DEF ReleaseWriter
  <2> QED  BY <1>18, <2>1 DEF ReleaseWriter
<1>19. ASSUME NEW a \in Attempts, ReleaseRejectedAttempt(a) PROVE TypeOK'
  <2>1. /\ work' \in [Attempts -> WriterSteps]
        /\ exec' \in [Signals \X Routes -> {"idle", "building", "prepared", "writing"}]
        /\ handler' \in [intent : Signals \cup {Nobody}, step : HandlerSteps]
    BY <1>19, ReturnTypes DEF ReleaseRejectedAttempt
  <2>2. /\ attempt' \in [Attempts -> AttemptStatuses]
        /\ intent' \in [Signals -> IntentStatuses]
        /\ signal' \in [Signals -> SignalStatuses]
    <3>1. CASE attempt[a] \in {"reserved", "submitting"}
      <4>1. /\ attempt' = [attempt EXCEPT ![a] = "rejected"]
            /\ intent' = [intent EXCEPT ![a[1]] = "rejected"]
            /\ signal' = [signal EXCEPT ![a[1]] = "rejected"]
        BY <1>19, <3>1 DEF ReleaseRejectedAttempt
      <4> QED  BY <4>1
    <3>2. CASE attempt[a] \notin {"reserved", "submitting"}
      BY <1>19, <3>2 DEF ReleaseRejectedAttempt
    <3> QED  BY <3>1, <3>2
  <2>3. budget' \in [Signals -> BudgetStatuses]
    <3>1. BudgetReleased(a[1]) \in [Signals -> BudgetStatuses]
      OBVIOUS
    <3> HIDE DEF BudgetReleased
    <3> QED  BY <1>19, <3>1 DEF ReleaseRejectedAttempt
  <2> QED  BY <1>19, <2>1, <2>2, <2>3 DEF ReleaseRejectedAttempt
<1>20. ASSUME NEW s \in Signals, StartRetry(s) PROVE TypeOK'
  BY <1>20 DEF StartRetry
<1>21. ASSUME NEW s \in Signals, PrepareRetry(s) PROVE TypeOK'
  BY <1>21 DEF PrepareRetry
<1>22. ASSUME NEW s \in Signals, RefuseRetry(s) PROVE TypeOK'
  BY <1>22 DEF RefuseRetry
<1>23. ASSUME NEW s \in Signals, CreateRetryAttempt(s) PROVE TypeOK'
  BY <1>23 DEF CreateRetryAttempt
<1>24. ASSUME NEW s \in Signals, ResolveHandlerFailure(s) PROVE TypeOK'
  <2>1. intent' \in [Signals -> IntentStatuses]
    <3>1. CASE intent[s] = "retry_verifying"
      <4>1. PICK status \in {"cancelled", "rejected"} :
                intent' = [intent EXCEPT ![s] = status]
        BY <1>24, <3>1 DEF ResolveHandlerFailure
      <4> QED  BY <4>1
    <3>2. CASE intent[s] # "retry_verifying"
      BY <1>24, <3>2 DEF ResolveHandlerFailure
    <3> QED  BY <3>1, <3>2
  <2>2. budget' \in [Signals -> BudgetStatuses]
    <3>1. BudgetReleased(s) \in [Signals -> BudgetStatuses]
      OBVIOUS
    <3> HIDE DEF BudgetReleased
    <3> QED  BY <1>24, <3>1 DEF ResolveHandlerFailure
  <2> QED  BY <1>24, <2>1, <2>2 DEF ResolveHandlerFailure
<1>25. ASSUME ClaimDueRetries PROVE TypeOK'
  BY <1>25 DEF ClaimDueRetries
<1>26. ASSUME RecoverStaleSubmission PROVE TypeOK'
  <2>1. lane.owner \in Attempts
    BY <1>26, LaneOwner DEF RecoverStaleSubmission
  <2>2. WriteSettled(lane.owner) \in BOOLEAN
    BY DEF WriteSettled
  <2>3. lane' = Recover(lane, WriteSettled(lane.owner))
    BY <1>26 DEF RecoverStaleSubmission
  <2>4. lane' \in Lanes(Attempts)
    BY <2>1, <2>2, <2>3, LaneTypes
  <2> QED  BY <1>26, <2>1, <2>4 DEF RecoverStaleSubmission
<1>27. ASSUME NEW a \in Attempts, RecoverStalePreSubmit(a) PROVE TypeOK'
  BY <1>27 DEF RecoverStalePreSubmit
<1>28. ASSUME NEW s \in Signals, RestoreAbandonedClaim(s) PROVE TypeOK'
  BY <1>28 DEF RestoreAbandonedClaim
<1>29. ASSUME NEW s \in Signals, ExpireScheduledRetry(s) PROVE TypeOK'
  BY <1>29 DEF ExpireScheduledRetry
<1>30. ASSUME NEW s \in Signals, RetryWindowPasses(s) PROVE TypeOK'
  BY <1>30 DEF RetryWindowPasses
<1>31. ASSUME NEW a \in Attempts, ObserveConfirmed(a) PROVE TypeOK'
  BY <1>31 DEF ObserveConfirmed
<1>32. ASSUME NEW a \in Attempts, ObservePending(a) PROVE TypeOK'
  BY <1>32 DEF ObservePending
<1>33. ASSUME NEW a \in Attempts, ObserveFailure(a) PROVE TypeOK'
  BY <1>33 DEF ObserveFailure
<1>34. ASSUME NEW a \in Attempts, VerifyWithHash(a) PROVE TypeOK'
  <2>1. rec' \in [Attempts -> VerifierSteps]
    <3>1. \E next \in VerifierSteps : rec' = [rec EXCEPT ![a] = next]
      BY <1>34 DEF VerifyWithHash, MarkUncertain
    <3> QED  BY <3>1
  <2>2. /\ attempt' \in [Attempts -> AttemptStatuses]
        /\ intent' \in [Signals -> IntentStatuses]
        /\ order' \in [Attempts -> OrderStatuses]
        /\ budget' \in [Signals -> BudgetStatuses]
        /\ failures' \in Nat
        /\ lane' \in Lanes(Attempts)
    BY <1>34, VerdictTypes DEF VerifyWithHash
  <2> QED  BY <1>34, <2>1, <2>2 DEF VerifyWithHash
<1>35. ASSUME NEW a \in Attempts, FreezeForEvidence(a) PROVE TypeOK'
  <2>1. CASE MarkUncertain(a)
    <3>1. rec' \in [Attempts -> VerifierSteps]
      BY <2>1 DEF MarkUncertain
    <3> QED  BY <1>35, <2>1, <3>1, VerdictTypes DEF FreezeForEvidence
  <2>2. CASE ~MarkUncertain(a)
    <3>1. Quarantine(lane, a, "no_hash_evidence") \in Lanes(Attempts)
      BY LaneTypes DEF QuarantineReasons
    <3>2. lane' \in Lanes(Attempts)
      BY <1>35, <2>2, <3>1 DEF FreezeForEvidence
    <3>3. rec' = [rec EXCEPT ![a] = "window"]
      BY <1>35, <2>2 DEF FreezeForEvidence
    <3>4. UNCHANGED <<intent, attempt, order, budget, failures>>
      BY <1>35, <2>2 DEF FreezeForEvidence
    <3> QED  BY <1>35, <3>2, <3>3, <3>4 DEF FreezeForEvidence
  <2> QED  BY <2>1, <2>2
<1>36. ASSUME NEW a \in Attempts, VerifyWithoutHash(a) PROVE TypeOK'
  <2>1. rec' \in [Attempts -> VerifierSteps]
    <3>1. \E next \in VerifierSteps : rec' = [rec EXCEPT ![a] = next]
      BY <1>36 DEF VerifyWithoutHash, MarkUncertain
    <3> QED  BY <3>1
  <2>2. /\ attempt' \in [Attempts -> AttemptStatuses]
        /\ intent' \in [Signals -> IntentStatuses]
        /\ order' \in [Attempts -> OrderStatuses]
        /\ budget' \in [Signals -> BudgetStatuses]
        /\ failures' \in Nat
        /\ lane' \in Lanes(Attempts)
    BY <1>36, VerdictTypes DEF VerifyWithoutHash
  <2> QED  BY <1>36, <2>1, <2>2 DEF VerifyWithoutHash
<1>37. ASSUME NEW a \in Attempts, QuarantineUncertain(a) PROVE TypeOK'
  <2>1. lane' \in Lanes(Attempts)
    BY <1>37, LaneTypes DEF QuarantineUncertain, QuarantineReasons
  <2> QED  BY <1>37, <2>1 DEF QuarantineUncertain
<1>38. ASSUME NEW a \in Attempts, ReceiptContradicts(a) PROVE TypeOK'
  BY <1>38 DEF ReceiptContradicts
<1>39. ASSUME NEW a \in Attempts, FinalizeConfirmedOrder(a) PROVE TypeOK'
  <2>1. lane' \in Lanes(Attempts)
    BY <1>39, LaneTypes DEF FinalizeConfirmedOrder
  <2>2. budget' \in [Signals -> BudgetStatuses] /\ deficits' \subseteq Attempts
    BY <1>39 DEF FinalizeConfirmedOrder, DeficitBooked
  <2>3. incident' \in [Signals -> {"none", "late_confirmation", "multiple_fill"}]
    BY <1>39 DEF FinalizeConfirmedOrder, LateIncident
  <2> QED  BY <1>39, <2>1, <2>2, <2>3 DEF FinalizeConfirmedOrder
<1>40. ASSUME NEW a \in Attempts, FinalizeAdditionalBuyFill(a) PROVE TypeOK'
  <2>1. lane' \in Lanes(Attempts)
    BY <1>40, LaneTypes DEF FinalizeAdditionalBuyFill, QuarantineReasons
  <2> QED  BY <1>40, <2>1 DEF FinalizeAdditionalBuyFill
<1>41. ASSUME NEW a \in Attempts, EscalateUncertain(a) PROVE TypeOK'
  BY <1>41 DEF EscalateUncertain
<1>42. ASSUME NEW a \in Attempts, ProviderAccepts(a) PROVE TypeOK'
  BY <1>42 DEF ProviderAccepts
<1>43. ASSUME NEW a \in Attempts, TransactionLands(a) PROVE TypeOK'
  BY <1>43 DEF TransactionLands
<1>44. ASSUME ReleaseQuarantine PROVE TypeOK'
  <2>1. IdleLane \in Lanes(Attempts)
    BY DEF Lanes
  <2> QED  BY <1>44, <2>1, BoundsAssumption DEF ReleaseQuarantine
<1>45. ASSUME ResetCircuit PROVE TypeOK'
  BY <1>45, BoundsAssumption DEF ResetCircuit
<1>46. ASSUME Crash PROVE TypeOK'
  BY <1>46, BoundsAssumption DEF Crash, NoExec, NoWork, NoVerification
<1>47. CASE UNCHANGED vars
  BY <1>47
<1> HIDE DEF TypeOK, vars
<1> QED
  BY <1>1, <1>2, <1>3, <1>4, <1>5, <1>6, <1>7, <1>8, <1>9, <1>10, <1>11, <1>12,
     <1>13, <1>14, <1>15, <1>16, <1>17, <1>18, <1>19, <1>20, <1>21, <1>22, <1>23,
     <1>24, <1>25, <1>26, <1>27, <1>28, <1>29, <1>30, <1>31, <1>32, <1>33, <1>34,
     <1>35, <1>36, <1>37, <1>38, <1>39, <1>40, <1>41, <1>42, <1>43, <1>44, <1>45,
     <1>46, <1>47
  DEF Next, SignalStep, WriterStep, RetryStep, Sweep, ReconcileStep, EnvironmentStep

(* The empty database is well-formed. *)
LEMMA TypeInit == Init => TypeOK
  BY BoundsAssumption, AttemptParts
  DEF Init, TypeOK, NoExec, NoWork, NoVerification, HandlerIdle, Lanes,
      SignalStatuses, IntentStatuses, AttemptStatuses, OrderStatuses, BudgetStatuses,
      ChainOutcomes, WriterSteps, HandlerSteps, VerifierSteps

(* In every reachable state the rows hold statuses of their vocabularies,  *)
(* whatever the signals, the limits, the retries and the crashes.          *)
THEOREM TypeCorrect == Spec => []TypeOK
BY TypeInit, TypeStep, PTL DEF Spec

-----------------------------------------------------------------------------
(* The inductive invariant.  The properties of the runs are not inductive  *)
(* by themselves: that a settlement is whole rests on where an order can   *)
(* come from, and that a sent swap is not written off on where its writer  *)
(* may be.                                                                 *)

NotBegun == {"none", "reserved", "rejected", "superseded"}

(* An attempt belongs to a recorded intent, an order to an attempt that    *)
(* was submitted, a verification to an order whose failure is claimed, and *)
(* a writer that may still back out has sent nothing.                      *)
LineageOf(a) ==
    /\ attempt[a] # "none" => intent[a[1]] # "none"
    /\ order[a] # "none" => attempt[a] \notin NotBegun \cup {"submitting"}
    /\ rec[a] # "idle" => order[a] = "failure_verifying"
    /\ chain[a] # "unsent" => attempt[a] \notin NotBegun
    /\ work[a] \in {"capture", "begin", "drop", "reject"} => chain[a] = "unsent"
    /\ work[a] = "swap" => attempt[a] \notin NotBegun

(* Money is reserved with the intent, and a settlement is whole. *)
SettlementOf(s) ==
    /\ intent[s] = "none" <=> budget[s] = "none"
    /\ budget[s] = "reserved" => intent[s] \in ActiveIntent
    /\ budget[s] = "committed" <=> \E a \in lots : a[1] = s
    /\ \A a \in AttemptsOf(s) : /\ a \in lots <=> attempt[a] = "confirmed"
                                /\ a \in lots <=> order[a] = "confirmed"
                                /\ a \in lots => chain[a] = "filled"

(* Two fills of one signal leave the wallet frozen by a settled attempt,   *)
(* about which no further verdict comes.                                   *)
FrozenByFill ==
    interventions = 0 =>
      \A a, b \in lots : a # b /\ a[1] = b[1] =>
        lane.state = "quarantined" /\ lane.owner \in lots

(* The three together are inductive, given the types. *)
IInv ==
    /\ \A a \in Attempts : LineageOf(a)
    /\ \A s \in Signals : SettlementOf(s)
    /\ FrozenByFill

(* Every step keeps orders, verifications and writers in their lineage. *)
LEMMA LineageStep ==
    ASSUME TypeOK, [Next]_vars, \A a \in Attempts : LineageOf(a), NEW b \in Attempts
    PROVE  LineageOf(b)'
<1> USE AttemptParts
        DEF LineageOf, TypeOK, NotBegun, vars, database, ledger, environment, workers,
            orchestrator, Step, Return, Throw, Verify, ActiveIntent
<1>1. ASSUME NEW s \in Signals, ExpireSignal(s) PROVE LineageOf(b)'
  BY <1>1 DEF ExpireSignal
<1>2. ASSUME NEW s \in Signals, ClaimSignal(s) PROVE LineageOf(b)'
  BY <1>2 DEF ClaimSignal
<1>3. ASSUME NEW s \in Signals, ExecuteManually(s) PROVE LineageOf(b)'
  BY <1>3 DEF ExecuteManually
<1>4. ASSUME NEW s \in Signals, NEW route \in Routes, Prepare(s, route) PROVE LineageOf(b)'
  BY <1>4 DEF Prepare
<1>5. ASSUME NEW s \in Signals, NEW route \in Routes, RefuseBuy(s, route) PROVE LineageOf(b)'
  BY <1>5 DEF RefuseBuy
<1>6. ASSUME NEW s \in Signals, NEW route \in Routes, DuplicateBuy(s, route) PROVE LineageOf(b)'
  BY <1>6 DEF DuplicateBuy
<1>7. ASSUME NEW s \in Signals, NEW route \in Routes, MergeBuy(s, route) PROVE LineageOf(b)'
  BY <1>7 DEF MergeBuy
<1>8. ASSUME NEW s \in Signals, NEW route \in Routes, CreateBuyAttempt(s, route) PROVE LineageOf(b)'
  BY <1>8 DEF CreateBuyAttempt
<1>9. ASSUME NEW a \in Attempts, CapturePreSubmitSnapshot(a) PROVE LineageOf(b)'
  BY <1>9 DEF CapturePreSubmitSnapshot
<1>10. ASSUME NEW a \in Attempts, BeginBuySubmission(a) PROVE LineageOf(b)'
  BY <1>10 DEF BeginBuySubmission, IntentMoved
<1>11. ASSUME NEW a \in Attempts, RefuseSubmission(a) PROVE LineageOf(b)'
  BY <1>11 DEF RefuseSubmission
<1>12. ASSUME NEW a \in Attempts, SwapAnswered(a) PROVE LineageOf(b)'
  BY <1>12 DEF SwapAnswered
<1>13. ASSUME NEW a \in Attempts, RecordSubmittedOrder(a) PROVE LineageOf(b)'
  BY <1>13 DEF RecordSubmittedOrder, IntentMoved
<1>14. ASSUME NEW a \in Attempts, RecordRefused(a) PROVE LineageOf(b)'
  BY <1>14 DEF RecordRefused
<1>15. ASSUME NEW a \in Attempts, SettleSubmittedOrder(a) PROVE LineageOf(b)'
  BY <1>15 DEF SettleSubmittedOrder
<1>16. ASSUME NEW a \in Attempts, MarkSubmissionUncertain(a) PROVE LineageOf(b)'
  BY <1>16 DEF MarkSubmissionUncertain, IntentMoved
<1>17. ASSUME NEW a \in Attempts, QuarantineWriter(a) PROVE LineageOf(b)'
  BY <1>17 DEF QuarantineWriter
<1>18. ASSUME NEW a \in Attempts, ReleaseWriter(a) PROVE LineageOf(b)'
  BY <1>18 DEF ReleaseWriter
<1>19. ASSUME NEW a \in Attempts, ReleaseRejectedAttempt(a) PROVE LineageOf(b)'
  BY <1>19 DEF ReleaseRejectedAttempt
<1>20. ASSUME NEW s \in Signals, StartRetry(s) PROVE LineageOf(b)'
  BY <1>20 DEF StartRetry
<1>21. ASSUME NEW s \in Signals, PrepareRetry(s) PROVE LineageOf(b)'
  BY <1>21 DEF PrepareRetry
<1>22. ASSUME NEW s \in Signals, RefuseRetry(s) PROVE LineageOf(b)'
  BY <1>22 DEF RefuseRetry
<1>23. ASSUME NEW s \in Signals, CreateRetryAttempt(s) PROVE LineageOf(b)'
  <2>1. PICK n \in NextNo(s) :
           /\ attempt' = [attempt EXCEPT ![<<s, n>>] = "reserved"]
           /\ work' = [work EXCEPT ![<<s, n>>] = "capture"]
    BY <1>23 DEF CreateRetryAttempt
  <2>2. <<s, n>> \in Attempts /\ attempt[<<s, n>>] = "none" /\ intent[s] # "none"
    BY <1>23 DEF CreateRetryAttempt, NextNo
  <2>3. CASE b = <<s, n>>
    BY <1>23, <2>1, <2>2, <2>3 DEF CreateRetryAttempt
  <2>4. CASE b # <<s, n>>
    BY <1>23, <2>1, <2>2, <2>4 DEF CreateRetryAttempt
  <2> QED  BY <2>3, <2>4
<1>24. ASSUME NEW s \in Signals, ResolveHandlerFailure(s) PROVE LineageOf(b)'
  BY <1>24 DEF ResolveHandlerFailure
<1>25. ASSUME ClaimDueRetries PROVE LineageOf(b)'
  BY <1>25 DEF ClaimDueRetries
<1>26. ASSUME RecoverStaleSubmission PROVE LineageOf(b)'
  BY <1>26, LaneOwner DEF RecoverStaleSubmission, WriteSettled
<1>27. ASSUME NEW a \in Attempts, RecoverStalePreSubmit(a) PROVE LineageOf(b)'
  BY <1>27 DEF RecoverStalePreSubmit
<1>28. ASSUME NEW s \in Signals, RestoreAbandonedClaim(s) PROVE LineageOf(b)'
  BY <1>28 DEF RestoreAbandonedClaim, AttemptsOf
<1>29. ASSUME NEW s \in Signals, ExpireScheduledRetry(s) PROVE LineageOf(b)'
  BY <1>29 DEF ExpireScheduledRetry
<1>30. ASSUME NEW s \in Signals, RetryWindowPasses(s) PROVE LineageOf(b)'
  BY <1>30 DEF RetryWindowPasses
<1>31. ASSUME NEW a \in Attempts, ObserveConfirmed(a) PROVE LineageOf(b)'
  BY <1>31 DEF ObserveConfirmed, Due
<1>32. ASSUME NEW a \in Attempts, ObservePending(a) PROVE LineageOf(b)'
  BY <1>32 DEF ObservePending, Due
<1>33. ASSUME NEW a \in Attempts, ObserveFailure(a) PROVE LineageOf(b)'
  BY <1>33 DEF ObserveFailure, Due
<1>34. ASSUME NEW a \in Attempts, VerifyWithHash(a) PROVE LineageOf(b)'
  BY <1>34
  DEF VerifyWithHash, MarkUncertain, ScheduleAfterDefinitiveFailure, IntentMoved
<1>35. ASSUME NEW a \in Attempts, FreezeForEvidence(a) PROVE LineageOf(b)'
  BY <1>35
  DEF FreezeForEvidence, MarkUncertain, ScheduleAfterDefinitiveFailure, IntentMoved
<1>36. ASSUME NEW a \in Attempts, VerifyWithoutHash(a) PROVE LineageOf(b)'
  BY <1>36
  DEF VerifyWithoutHash, MarkUncertain, ScheduleAfterDefinitiveFailure, IntentMoved
<1>37. ASSUME NEW a \in Attempts, QuarantineUncertain(a) PROVE LineageOf(b)'
  BY <1>37 DEF QuarantineUncertain
<1>38. ASSUME NEW a \in Attempts, ReceiptContradicts(a) PROVE LineageOf(b)'
  BY <1>38 DEF ReceiptContradicts, IntentMoved
<1>39. ASSUME NEW a \in Attempts, FinalizeConfirmedOrder(a) PROVE LineageOf(b)'
  BY <1>39 DEF FinalizeConfirmedOrder, Due
<1>40. ASSUME NEW a \in Attempts, FinalizeAdditionalBuyFill(a) PROVE LineageOf(b)'
  BY <1>40 DEF FinalizeAdditionalBuyFill, Due
<1>41. ASSUME NEW a \in Attempts, EscalateUncertain(a) PROVE LineageOf(b)'
  BY <1>41 DEF EscalateUncertain, IntentMoved
<1>42. ASSUME NEW a \in Attempts, ProviderAccepts(a) PROVE LineageOf(b)'
  BY <1>42 DEF ProviderAccepts
<1>43. ASSUME NEW a \in Attempts, TransactionLands(a) PROVE LineageOf(b)'
  BY <1>43 DEF TransactionLands
<1>44. ASSUME ReleaseQuarantine PROVE LineageOf(b)'
  BY <1>44 DEF ReleaseQuarantine
<1>45. ASSUME ResetCircuit PROVE LineageOf(b)'
  BY <1>45 DEF ResetCircuit
<1>46. ASSUME Crash PROVE LineageOf(b)'
  BY <1>46 DEF Crash, NoWork, NoVerification
<1>47. CASE UNCHANGED vars
  BY <1>47 DEF vars
<1> HIDE DEF LineageOf, TypeOK, vars
<1> QED
  BY <1>1, <1>2, <1>3, <1>4, <1>5, <1>6, <1>7, <1>8, <1>9, <1>10, <1>11, <1>12,
     <1>13, <1>14, <1>15, <1>16, <1>17, <1>18, <1>19, <1>20, <1>21, <1>22,
     <1>23, <1>24, <1>25, <1>26, <1>27, <1>28, <1>29, <1>30, <1>31, <1>32,
     <1>33, <1>34, <1>35, <1>36, <1>37, <1>38, <1>39, <1>40, <1>41, <1>42,
     <1>43, <1>44, <1>45, <1>46, <1>47
  DEF Next, SignalStep, WriterStep, RetryStep, Sweep, ReconcileStep, EnvironmentStep

(* Every step keeps settlements whole: lot, attempt and order change      *)
(* together, and the budget goes where the intent goes.                    *)
LEMMA SettlementStep ==
    ASSUME TypeOK, [Next]_vars, \A a \in Attempts : LineageOf(a),
           \A s \in Signals : SettlementOf(s), NEW t \in Signals
    PROVE  SettlementOf(t)'
<1> USE AttemptParts
       
       DEF LineageOf, SettlementOf, AttemptsOf, TypeOK, NotBegun, vars, database,
           ledger,
            environment, workers, orchestrator, Step, Return, Throw, Verify, ActiveIntent
<1>1. ASSUME NEW s \in Signals, ExpireSignal(s) PROVE SettlementOf(t)'
  BY <1>1 DEF ExpireSignal
<1>2. ASSUME NEW s \in Signals, ClaimSignal(s) PROVE SettlementOf(t)'
  BY <1>2 DEF ClaimSignal
<1>3. ASSUME NEW s \in Signals, ExecuteManually(s) PROVE SettlementOf(t)'
  BY <1>3 DEF ExecuteManually
<1>4. ASSUME NEW s \in Signals, NEW route \in Routes, Prepare(s, route) PROVE SettlementOf(t)'
  BY <1>4 DEF Prepare
<1>5. ASSUME NEW s \in Signals, NEW route \in Routes, RefuseBuy(s, route) PROVE SettlementOf(t)'
  BY <1>5 DEF RefuseBuy
<1>6. ASSUME NEW s \in Signals, NEW route \in Routes, DuplicateBuy(s, route) PROVE SettlementOf(t)'
  BY <1>6 DEF DuplicateBuy
<1>7. ASSUME NEW s \in Signals, NEW route \in Routes, MergeBuy(s, route) PROVE SettlementOf(t)'
  BY <1>7 DEF MergeBuy
<1>8. ASSUME NEW s \in Signals, NEW route \in Routes, CreateBuyAttempt(s, route) PROVE SettlementOf(t)'
  BY <1>8 DEF CreateBuyAttempt
<1>9. ASSUME NEW a \in Attempts, CapturePreSubmitSnapshot(a) PROVE SettlementOf(t)'
  BY <1>9 DEF CapturePreSubmitSnapshot
<1>10. ASSUME NEW a \in Attempts, BeginBuySubmission(a) PROVE SettlementOf(t)'
  BY <1>10 DEF BeginBuySubmission, IntentMoved
<1>11. ASSUME NEW a \in Attempts, RefuseSubmission(a) PROVE SettlementOf(t)'
  BY <1>11 DEF RefuseSubmission
<1>12. ASSUME NEW a \in Attempts, SwapAnswered(a) PROVE SettlementOf(t)'
  BY <1>12 DEF SwapAnswered
<1>13. ASSUME NEW a \in Attempts, RecordSubmittedOrder(a) PROVE SettlementOf(t)'
  BY <1>13 DEF RecordSubmittedOrder, IntentMoved
<1>14. ASSUME NEW a \in Attempts, RecordRefused(a) PROVE SettlementOf(t)'
  BY <1>14 DEF RecordRefused
<1>15. ASSUME NEW a \in Attempts, SettleSubmittedOrder(a) PROVE SettlementOf(t)'
  BY <1>15 DEF SettleSubmittedOrder
<1>16. ASSUME NEW a \in Attempts, MarkSubmissionUncertain(a) PROVE SettlementOf(t)'
  BY <1>16 DEF MarkSubmissionUncertain, IntentMoved
<1>17. ASSUME NEW a \in Attempts, QuarantineWriter(a) PROVE SettlementOf(t)'
  BY <1>17 DEF QuarantineWriter
<1>18. ASSUME NEW a \in Attempts, ReleaseWriter(a) PROVE SettlementOf(t)'
  BY <1>18 DEF ReleaseWriter
<1>19. ASSUME NEW a \in Attempts, ReleaseRejectedAttempt(a) PROVE SettlementOf(t)'
  BY <1>19 DEF ReleaseRejectedAttempt, BudgetReleased
<1>20. ASSUME NEW s \in Signals, StartRetry(s) PROVE SettlementOf(t)'
  BY <1>20 DEF StartRetry
<1>21. ASSUME NEW s \in Signals, PrepareRetry(s) PROVE SettlementOf(t)'
  BY <1>21 DEF PrepareRetry
<1>22. ASSUME NEW s \in Signals, RefuseRetry(s) PROVE SettlementOf(t)'
  BY <1>22 DEF RefuseRetry
<1>23. ASSUME NEW s \in Signals, CreateRetryAttempt(s) PROVE SettlementOf(t)'
  <2>1. PICK n \in NextNo(s) : attempt' = [attempt EXCEPT ![<<s, n>>] = "reserved"]
    BY <1>23 DEF CreateRetryAttempt
  <2>2. <<s, n>> \in Attempts /\ attempt[<<s, n>>] = "none"
    BY DEF NextNo
  <2>3. \A b \in Attempts : attempt'[b] = "confirmed" <=> attempt[b] = "confirmed"
    <3> TAKE b \in Attempts
    <3>1. CASE b = <<s, n>>
      BY <2>1, <2>2, <3>1
    <3>2. CASE b # <<s, n>>
      BY <2>1, <3>2
    <3> QED  BY <3>1, <3>2
  <2>4. UNCHANGED <<intent, budget, lots, order, chain>>
    BY <1>23 DEF CreateRetryAttempt
  <2> QED  BY <2>3, <2>4
<1>24. ASSUME NEW s \in Signals, ResolveHandlerFailure(s) PROVE SettlementOf(t)'
  BY <1>24 DEF ResolveHandlerFailure, BudgetReleased
<1>25. ASSUME ClaimDueRetries PROVE SettlementOf(t)'
  BY <1>25 DEF ClaimDueRetries, RetryDue
<1>26. ASSUME RecoverStaleSubmission PROVE SettlementOf(t)'
  BY <1>26, LaneOwner DEF RecoverStaleSubmission, WriteSettled
<1>27. ASSUME NEW a \in Attempts, RecoverStalePreSubmit(a) PROVE SettlementOf(t)'
  BY <1>27 DEF RecoverStalePreSubmit, BudgetReleased
<1>28. ASSUME NEW s \in Signals, RestoreAbandonedClaim(s) PROVE SettlementOf(t)'
  BY <1>28 DEF RestoreAbandonedClaim
<1>29. ASSUME NEW s \in Signals, ExpireScheduledRetry(s) PROVE SettlementOf(t)'
  BY <1>29 DEF ExpireScheduledRetry, BudgetReleased
<1>30. ASSUME NEW s \in Signals, RetryWindowPasses(s) PROVE SettlementOf(t)'
  BY <1>30 DEF RetryWindowPasses
<1>31. ASSUME NEW a \in Attempts, ObserveConfirmed(a) PROVE SettlementOf(t)'
  BY <1>31 DEF ObserveConfirmed, Due
<1>32. ASSUME NEW a \in Attempts, ObservePending(a) PROVE SettlementOf(t)'
  BY <1>32 DEF ObservePending, Due
<1>33. ASSUME NEW a \in Attempts, ObserveFailure(a) PROVE SettlementOf(t)'
  BY <1>33 DEF ObserveFailure, Due
<1>34. ASSUME NEW a \in Attempts, VerifyWithHash(a) PROVE SettlementOf(t)'
  BY <1>34
  DEF VerifyWithHash, MarkUncertain, ScheduleAfterDefinitiveFailure, IntentMoved,
      BudgetReleased
<1>35. ASSUME NEW a \in Attempts, FreezeForEvidence(a) PROVE SettlementOf(t)'
  BY <1>35
  DEF FreezeForEvidence, MarkUncertain, ScheduleAfterDefinitiveFailure, IntentMoved,
      BudgetReleased
<1>36. ASSUME NEW a \in Attempts, VerifyWithoutHash(a) PROVE SettlementOf(t)'
  BY <1>36
  DEF VerifyWithoutHash, MarkUncertain, ScheduleAfterDefinitiveFailure, IntentMoved,
      BudgetReleased
<1>37. ASSUME NEW a \in Attempts, QuarantineUncertain(a) PROVE SettlementOf(t)'
  BY <1>37 DEF QuarantineUncertain
<1>38. ASSUME NEW a \in Attempts, ReceiptContradicts(a) PROVE SettlementOf(t)'
  BY <1>38 DEF ReceiptContradicts, IntentMoved
<1>39. ASSUME NEW a \in Attempts, FinalizeConfirmedOrder(a) PROVE SettlementOf(t)'
  <2>1. CASE a[1] = t
    <3>1. attempt[a] # "none" /\ intent[t] # "none" /\ budget[t] # "none"
      BY <1>39, <2>1 DEF FinalizeConfirmedOrder
    <3>2. budget'[t] = "committed"
      BY <1>39, <2>1, <3>1 DEF FinalizeConfirmedOrder, BudgetCommitted, BudgetStatuses
    <3>3. ASSUME NEW b \in AttemptsOf(t)
          PROVE  /\ b \in lots' <=> attempt'[b] = "confirmed"
                 /\ b \in lots' <=> order'[b] = "confirmed"
                 /\ b \in lots' => chain'[b] = "filled"
      BY <1>39, <2>1 DEF FinalizeConfirmedOrder
    <3>4. intent'[t] = "confirmed" /\ \E b \in lots' : b[1] = t
      BY <1>39, <2>1 DEF FinalizeConfirmedOrder
    <3> QED  BY <3>2, <3>3, <3>4
  <2>2. CASE a[1] # t
    BY <1>39, <2>2 DEF FinalizeConfirmedOrder, BudgetCommitted
  <2> QED  BY <2>1, <2>2
<1>40. ASSUME NEW a \in Attempts, FinalizeAdditionalBuyFill(a) PROVE SettlementOf(t)'
  BY <1>40 DEF FinalizeAdditionalBuyFill, Due
<1>41. ASSUME NEW a \in Attempts, EscalateUncertain(a) PROVE SettlementOf(t)'
  BY <1>41 DEF EscalateUncertain, IntentMoved
<1>42. ASSUME NEW a \in Attempts, ProviderAccepts(a) PROVE SettlementOf(t)'
  BY <1>42 DEF ProviderAccepts
<1>43. ASSUME NEW a \in Attempts, TransactionLands(a) PROVE SettlementOf(t)'
  BY <1>43 DEF TransactionLands
<1>44. ASSUME ReleaseQuarantine PROVE SettlementOf(t)'
  BY <1>44 DEF ReleaseQuarantine
<1>45. ASSUME ResetCircuit PROVE SettlementOf(t)'
  BY <1>45 DEF ResetCircuit
<1>46. ASSUME Crash PROVE SettlementOf(t)'
  BY <1>46 DEF Crash
<1>47. CASE UNCHANGED vars
  BY <1>47 DEF vars
<1> HIDE DEF LineageOf, SettlementOf, TypeOK, vars
<1> QED
  BY <1>1, <1>2, <1>3, <1>4, <1>5, <1>6, <1>7, <1>8, <1>9, <1>10, <1>11, <1>12,
     <1>13, <1>14, <1>15, <1>16, <1>17, <1>18, <1>19, <1>20, <1>21, <1>22,
     <1>23, <1>24, <1>25, <1>26, <1>27, <1>28, <1>29, <1>30, <1>31, <1>32,
     <1>33, <1>34, <1>35, <1>36, <1>37, <1>38, <1>39, <1>40, <1>41, <1>42,
     <1>43, <1>44, <1>45, <1>46, <1>47
  DEF Next, SignalStep, WriterStep, RetryStep, Sweep, ReconcileStep, EnvironmentStep

(* Every step keeps the wallet of a double fill frozen: no statement of    *)
(* the lane ends a quarantine whose owner is settled.                      *)
LEMMA FrozenStep ==
    ASSUME TypeOK, [Next]_vars, FrozenByFill,
           \A a \in Attempts : LineageOf(a), \A s \in Signals : SettlementOf(s)
    PROVE  FrozenByFill'
<1> USE AttemptParts
       
       DEF FrozenByFill, LineageOf, SettlementOf, AttemptsOf, TypeOK, vars, database,
           ledger,
            environment, workers, orchestrator, Return, Throw
<1>1. ASSUME NEW s \in Signals, ExpireSignal(s) PROVE FrozenByFill'
  BY <1>1 DEF ExpireSignal
<1>2. ASSUME NEW s \in Signals, ClaimSignal(s) PROVE FrozenByFill'
  BY <1>2 DEF ClaimSignal
<1>3. ASSUME NEW s \in Signals, ExecuteManually(s) PROVE FrozenByFill'
  BY <1>3 DEF ExecuteManually
<1>4. ASSUME NEW s \in Signals, NEW route \in Routes, Prepare(s, route) PROVE FrozenByFill'
  BY <1>4 DEF Prepare
<1>5. ASSUME NEW s \in Signals, NEW route \in Routes, RefuseBuy(s, route) PROVE FrozenByFill'
  BY <1>5 DEF RefuseBuy
<1>6. ASSUME NEW s \in Signals, NEW route \in Routes, DuplicateBuy(s, route) PROVE FrozenByFill'
  BY <1>6 DEF DuplicateBuy
<1>7. ASSUME NEW s \in Signals, NEW route \in Routes, MergeBuy(s, route) PROVE FrozenByFill'
  BY <1>7 DEF MergeBuy
<1>8. ASSUME NEW s \in Signals, NEW route \in Routes, CreateBuyAttempt(s, route) PROVE FrozenByFill'
  BY <1>8 DEF CreateBuyAttempt
<1>9. ASSUME NEW a \in Attempts, CapturePreSubmitSnapshot(a) PROVE FrozenByFill'
  BY <1>9 DEF CapturePreSubmitSnapshot
<1>10. ASSUME NEW a \in Attempts, BeginBuySubmission(a) PROVE FrozenByFill'
  BY <1>10, LaneOwner DEF BeginBuySubmission, MayAcquire
<1>11. ASSUME NEW a \in Attempts, RefuseSubmission(a) PROVE FrozenByFill'
  BY <1>11 DEF RefuseSubmission
<1>12. ASSUME NEW a \in Attempts, SwapAnswered(a) PROVE FrozenByFill'
  BY <1>12 DEF SwapAnswered
<1>13. ASSUME NEW a \in Attempts, RecordSubmittedOrder(a) PROVE FrozenByFill'
  BY <1>13 DEF RecordSubmittedOrder
<1>14. ASSUME NEW a \in Attempts, RecordRefused(a) PROVE FrozenByFill'
  BY <1>14 DEF RecordRefused
<1>15. ASSUME NEW a \in Attempts, SettleSubmittedOrder(a) PROVE FrozenByFill'
  BY <1>15, LaneOwner
  DEF SettleSubmittedOrder, IdleLane, FrozenLane, Release, Quarantine, Settle
<1>16. ASSUME NEW a \in Attempts, MarkSubmissionUncertain(a) PROVE FrozenByFill'
  BY <1>16 DEF MarkSubmissionUncertain
<1>17. ASSUME NEW a \in Attempts, QuarantineWriter(a) PROVE FrozenByFill'
  BY <1>17, LaneOwner DEF QuarantineWriter, FrozenLane, Quarantine
<1>18. ASSUME NEW a \in Attempts, ReleaseWriter(a) PROVE FrozenByFill'
  BY <1>18, LaneOwner DEF ReleaseWriter, Release
<1>19. ASSUME NEW a \in Attempts, ReleaseRejectedAttempt(a) PROVE FrozenByFill'
  BY <1>19 DEF ReleaseRejectedAttempt
<1>20. ASSUME NEW s \in Signals, StartRetry(s) PROVE FrozenByFill'
  BY <1>20 DEF StartRetry
<1>21. ASSUME NEW s \in Signals, PrepareRetry(s) PROVE FrozenByFill'
  BY <1>21 DEF PrepareRetry
<1>22. ASSUME NEW s \in Signals, RefuseRetry(s) PROVE FrozenByFill'
  BY <1>22 DEF RefuseRetry
<1>23. ASSUME NEW s \in Signals, CreateRetryAttempt(s) PROVE FrozenByFill'
  BY <1>23 DEF CreateRetryAttempt
<1>24. ASSUME NEW s \in Signals, ResolveHandlerFailure(s) PROVE FrozenByFill'
  BY <1>24 DEF ResolveHandlerFailure
<1>25. ASSUME ClaimDueRetries PROVE FrozenByFill'
  BY <1>25 DEF ClaimDueRetries
<1>26. ASSUME RecoverStaleSubmission PROVE FrozenByFill'
  BY <1>26, LaneOwner DEF RecoverStaleSubmission, Recover
<1>27. ASSUME NEW a \in Attempts, RecoverStalePreSubmit(a) PROVE FrozenByFill'
  BY <1>27 DEF RecoverStalePreSubmit
<1>28. ASSUME NEW s \in Signals, RestoreAbandonedClaim(s) PROVE FrozenByFill'
  BY <1>28 DEF RestoreAbandonedClaim
<1>29. ASSUME NEW s \in Signals, ExpireScheduledRetry(s) PROVE FrozenByFill'
  BY <1>29 DEF ExpireScheduledRetry
<1>30. ASSUME NEW s \in Signals, RetryWindowPasses(s) PROVE FrozenByFill'
  BY <1>30 DEF RetryWindowPasses
<1>31. ASSUME NEW a \in Attempts, ObserveConfirmed(a) PROVE FrozenByFill'
  BY <1>31 DEF ObserveConfirmed
<1>32. ASSUME NEW a \in Attempts, ObservePending(a) PROVE FrozenByFill'
  BY <1>32 DEF ObservePending
<1>33. ASSUME NEW a \in Attempts, ObserveFailure(a) PROVE FrozenByFill'
  BY <1>33 DEF ObserveFailure
<1>34. ASSUME NEW a \in Attempts, VerifyWithHash(a) PROVE FrozenByFill'
  BY <1>34, LaneOwner DEF VerifyWithHash, FrozenLane, Quarantine, ResolveEvidence,
                                  MarkUncertain, ScheduleAfterDefinitiveFailure
<1>35. ASSUME NEW a \in Attempts, FreezeForEvidence(a) PROVE FrozenByFill'
  BY <1>35, LaneOwner DEF FreezeForEvidence, FrozenLane, Quarantine, ResolveEvidence,
                                  MarkUncertain, ScheduleAfterDefinitiveFailure
<1>36. ASSUME NEW a \in Attempts, VerifyWithoutHash(a) PROVE FrozenByFill'
  <2>1. a \notin lots
    BY <1>36 DEF VerifyWithoutHash
  <2>2. lane' \in {lane, ResolveEvidence(lane, a)}
    BY <1>36 DEF VerifyWithoutHash, MarkUncertain, ScheduleAfterDefinitiveFailure
  <2>3. UNCHANGED <<lots, interventions>>
    BY <1>36 DEF VerifyWithoutHash
  <2> QED  BY <2>1, <2>2, <2>3 DEF ResolveEvidence, FrozenLane
<1>37. ASSUME NEW a \in Attempts, QuarantineUncertain(a) PROVE FrozenByFill'
  BY <1>37, LaneOwner DEF QuarantineUncertain, FrozenLane, Quarantine
<1>38. ASSUME NEW a \in Attempts, ReceiptContradicts(a) PROVE FrozenByFill'
  BY <1>38 DEF ReceiptContradicts
<1>39. ASSUME NEW a \in Attempts, FinalizeConfirmedOrder(a) PROVE FrozenByFill'
  BY <1>39, LaneOwner DEF FinalizeConfirmedOrder, ResolveEvidence, FrozenLane
<1>40. ASSUME NEW a \in Attempts, FinalizeAdditionalBuyFill(a) PROVE FrozenByFill'
  BY <1>40, LaneOwner DEF FinalizeAdditionalBuyFill, FrozenLane
<1>41. ASSUME NEW a \in Attempts, EscalateUncertain(a) PROVE FrozenByFill'
  BY <1>41 DEF EscalateUncertain
<1>42. ASSUME NEW a \in Attempts, ProviderAccepts(a) PROVE FrozenByFill'
  BY <1>42 DEF ProviderAccepts
<1>43. ASSUME NEW a \in Attempts, TransactionLands(a) PROVE FrozenByFill'
  BY <1>43 DEF TransactionLands
<1>44. ASSUME ReleaseQuarantine PROVE FrozenByFill'
  BY <1>44, BoundsAssumption DEF ReleaseQuarantine
<1>45. ASSUME ResetCircuit PROVE FrozenByFill'
  BY <1>45, BoundsAssumption DEF ResetCircuit
<1>46. ASSUME Crash PROVE FrozenByFill'
  BY <1>46 DEF Crash
<1>47. CASE UNCHANGED vars
  BY <1>47 DEF vars
<1> HIDE DEF LineageOf, SettlementOf, TypeOK, vars, FrozenByFill
<1> QED
  BY <1>1, <1>2, <1>3, <1>4, <1>5, <1>6, <1>7, <1>8, <1>9, <1>10, <1>11, <1>12,
     <1>13, <1>14, <1>15, <1>16, <1>17, <1>18, <1>19, <1>20, <1>21, <1>22,
     <1>23, <1>24, <1>25, <1>26, <1>27, <1>28, <1>29, <1>30, <1>31, <1>32,
     <1>33, <1>34, <1>35, <1>36, <1>37, <1>38, <1>39, <1>40, <1>41, <1>42,
     <1>43, <1>44, <1>45, <1>46, <1>47
  DEF Next, SignalStep, WriterStep, RetryStep, Sweep, ReconcileStep, EnvironmentStep

(* The invariant holds of every reachable state. *)
THEOREM Invariance == Spec => [](TypeOK /\ IInv)
<1>1. Init => TypeOK /\ IInv
  <2> SUFFICES ASSUME Init PROVE TypeOK /\ IInv
    OBVIOUS
  <2>1. TypeOK
    BY TypeInit
  <2>2. IInv
    BY AttemptParts
    DEF Init, IInv, LineageOf, SettlementOf, FrozenByFill, AttemptsOf, NoWork,
        NoVerification, NotBegun
  <2> QED  BY <2>1, <2>2
<1>2. TypeOK /\ IInv /\ [Next]_vars => (TypeOK /\ IInv)'
  BY TypeStep, LineageStep, SettlementStep, FrozenStep DEF IInv
<1> QED  BY <1>1, <1>2, PTL DEF Spec

-----------------------------------------------------------------------------
(* What follows for the accounting and for the wallet. *)

(* Settlement is all or nothing: lot, attempt, order and budget agree in   *)
(* every state, however many attempts of a signal fill.                    *)
THEOREM SettlementWhole == Spec => []SettledTogether
<1>1. TypeOK /\ IInv => SettledTogether
  <2> SUFFICES ASSUME TypeOK, IInv PROVE SettledTogether
    OBVIOUS
  <2>1. ASSUME NEW a \in Attempts
        PROVE  /\ a \in lots <=> attempt[a] = "confirmed"
               /\ a \in lots <=> order[a] = "confirmed"
               /\ a \in lots => chain[a] = "filled"
    <3>1. SettlementOf(a[1]) /\ a \in AttemptsOf(a[1])
      BY AttemptParts DEF IInv, AttemptsOf
    <3> QED  BY <3>1 DEF SettlementOf
  <2>2. ASSUME NEW s \in Signals
        PROVE  budget[s] = "committed" <=> FillsOf(s) # {}
    BY DEF IInv, SettlementOf, FillsOf
  <2> QED  BY <2>1, <2>2 DEF SettledTogether
<1> QED  BY <1>1, Invariance, PTL

(* No path that ends an intent leaves its reservation behind. *)
THEOREM ReservationsReturned == Spec => []NoLeakedReservation
<1>1. IInv => NoLeakedReservation
  BY DEF IInv, SettlementOf, NoLeakedReservation
<1> QED  BY <1>1, Invariance, PTL

(* A swap that reached the provider is never written off as not sent, even *)
(* if its writer outlasts every timer.                                     *)
THEOREM SentSwapsRemembered == Spec => []SentSwapNotWrittenOff
<1>1. IInv => SentSwapNotWrittenOff
  BY DEF IInv, LineageOf, SentSwapNotWrittenOff, NotBegun
<1> QED  BY <1>1, Invariance, PTL

(* After a double fill the wallet stays frozen until an operator acts. *)
THEOREM DoubleFillFreezes == Spec => []DoubleFillFreezesWallet
<1>1. TypeOK /\ IInv => DoubleFillFreezesWallet
  <2> SUFFICES ASSUME TypeOK, IInv, interventions = 0,
                      NEW s \in Signals, Cardinality(FillsOf(s)) > 1
               PROVE  lane.state = "quarantined"
    BY DEF DoubleFillFreezesWallet
  <2>1. IsFiniteSet(FillsOf(s))
    BY AttemptsFinite, FS_Subset DEF FillsOf, TypeOK
  <2>2. PICK a \in FillsOf(s) : TRUE
    BY FS_EmptySet DEF FillsOf
  <2>3. FillsOf(s) # {a}
    <3>1. Cardinality({a}) = 1
      BY FS_Singleton
    <3> QED  BY <3>1
  <2>4. PICK b \in FillsOf(s) : b # a
    BY <2>2, <2>3
  <2> QED  BY <2>2, <2>4 DEF IInv, FrozenByFill, FillsOf
<1> QED  BY <1>1, Invariance, PTL

(* A step that ends a quarantine is an operator's or brings the verdict.   *)
LEMMA ThawStep ==
    ASSUME TypeOK, [Next]_vars
    PROVE  (lane.state = "quarantined" /\ lane'.state # "quarantined"
             /\ interventions' = interventions)
                => attempt'[lane.owner] \in {"definitive_failed_no_fill", "confirmed"}
<1> DEFINE Thaw == (lane.state = "quarantined" /\ lane'.state # "quarantined"
                      /\ interventions' = interventions)
                   => attempt'[lane.owner] \in {"definitive_failed_no_fill", "confirmed"}
<1> SUFFICES Thaw  OBVIOUS
<1> USE AttemptParts
       
       DEF TypeOK, vars, database, ledger, environment, workers, orchestrator,
           Return, Throw
<1>1. ASSUME NEW s \in Signals, ExpireSignal(s) PROVE Thaw
  BY <1>1 DEF ExpireSignal
<1>2. ASSUME NEW s \in Signals, ClaimSignal(s) PROVE Thaw
  BY <1>2 DEF ClaimSignal
<1>3. ASSUME NEW s \in Signals, ExecuteManually(s) PROVE Thaw
  BY <1>3, BoundsAssumption DEF ExecuteManually
<1>4. ASSUME NEW s \in Signals, NEW route \in Routes, Prepare(s, route) PROVE Thaw
  BY <1>4 DEF Prepare
<1>5. ASSUME NEW s \in Signals, NEW route \in Routes, RefuseBuy(s, route) PROVE Thaw
  BY <1>5 DEF RefuseBuy
<1>6. ASSUME NEW s \in Signals, NEW route \in Routes, DuplicateBuy(s, route) PROVE Thaw
  BY <1>6 DEF DuplicateBuy
<1>7. ASSUME NEW s \in Signals, NEW route \in Routes, MergeBuy(s, route) PROVE Thaw
  BY <1>7 DEF MergeBuy
<1>8. ASSUME NEW s \in Signals, NEW route \in Routes, CreateBuyAttempt(s, route) PROVE Thaw
  BY <1>8 DEF CreateBuyAttempt
<1>9. ASSUME NEW a \in Attempts, CapturePreSubmitSnapshot(a) PROVE Thaw
  BY <1>9 DEF CapturePreSubmitSnapshot
<1>10. ASSUME NEW a \in Attempts, BeginBuySubmission(a) PROVE Thaw
  BY <1>10 DEF BeginBuySubmission, MayAcquire
<1>11. ASSUME NEW a \in Attempts, RefuseSubmission(a) PROVE Thaw
  BY <1>11 DEF RefuseSubmission
<1>12. ASSUME NEW a \in Attempts, SwapAnswered(a) PROVE Thaw
  BY <1>12 DEF SwapAnswered
<1>13. ASSUME NEW a \in Attempts, RecordSubmittedOrder(a) PROVE Thaw
  BY <1>13 DEF RecordSubmittedOrder
<1>14. ASSUME NEW a \in Attempts, RecordRefused(a) PROVE Thaw
  BY <1>14 DEF RecordRefused
<1>15. ASSUME NEW a \in Attempts, SettleSubmittedOrder(a) PROVE Thaw
  BY <1>15 DEF SettleSubmittedOrder, Settle, Release, Quarantine, FrozenLane
<1>16. ASSUME NEW a \in Attempts, MarkSubmissionUncertain(a) PROVE Thaw
  BY <1>16 DEF MarkSubmissionUncertain
<1>17. ASSUME NEW a \in Attempts, QuarantineWriter(a) PROVE Thaw
  BY <1>17 DEF QuarantineWriter, Quarantine, FrozenLane
<1>18. ASSUME NEW a \in Attempts, ReleaseWriter(a) PROVE Thaw
  BY <1>18 DEF ReleaseWriter, Release
<1>19. ASSUME NEW a \in Attempts, ReleaseRejectedAttempt(a) PROVE Thaw
  BY <1>19 DEF ReleaseRejectedAttempt
<1>20. ASSUME NEW s \in Signals, StartRetry(s) PROVE Thaw
  BY <1>20 DEF StartRetry
<1>21. ASSUME NEW s \in Signals, PrepareRetry(s) PROVE Thaw
  BY <1>21 DEF PrepareRetry
<1>22. ASSUME NEW s \in Signals, RefuseRetry(s) PROVE Thaw
  BY <1>22 DEF RefuseRetry
<1>23. ASSUME NEW s \in Signals, CreateRetryAttempt(s) PROVE Thaw
  BY <1>23 DEF CreateRetryAttempt
<1>24. ASSUME NEW s \in Signals, ResolveHandlerFailure(s) PROVE Thaw
  BY <1>24 DEF ResolveHandlerFailure
<1>25. ASSUME ClaimDueRetries PROVE Thaw
  BY <1>25 DEF ClaimDueRetries
<1>26. ASSUME RecoverStaleSubmission PROVE Thaw
  BY <1>26 DEF RecoverStaleSubmission, Recover
<1>27. ASSUME NEW a \in Attempts, RecoverStalePreSubmit(a) PROVE Thaw
  BY <1>27 DEF RecoverStalePreSubmit
<1>28. ASSUME NEW s \in Signals, RestoreAbandonedClaim(s) PROVE Thaw
  BY <1>28 DEF RestoreAbandonedClaim
<1>29. ASSUME NEW s \in Signals, ExpireScheduledRetry(s) PROVE Thaw
  BY <1>29 DEF ExpireScheduledRetry
<1>30. ASSUME NEW s \in Signals, RetryWindowPasses(s) PROVE Thaw
  BY <1>30 DEF RetryWindowPasses
<1>31. ASSUME NEW a \in Attempts, ObserveConfirmed(a) PROVE Thaw
  BY <1>31 DEF ObserveConfirmed
<1>32. ASSUME NEW a \in Attempts, ObservePending(a) PROVE Thaw
  BY <1>32 DEF ObservePending
<1>33. ASSUME NEW a \in Attempts, ObserveFailure(a) PROVE Thaw
  BY <1>33 DEF ObserveFailure
<1>34. ASSUME NEW a \in Attempts, VerifyWithHash(a) PROVE Thaw
  BY <1>34
  DEF VerifyWithHash, MarkUncertain, ScheduleAfterDefinitiveFailure, ResolveEvidence,
      FrozenLane
<1>35. ASSUME NEW a \in Attempts, FreezeForEvidence(a) PROVE Thaw
  BY <1>35 DEF FreezeForEvidence, MarkUncertain, Quarantine, FrozenLane
<1>36. ASSUME NEW a \in Attempts, VerifyWithoutHash(a) PROVE Thaw
  BY <1>36
  DEF VerifyWithoutHash, MarkUncertain, ScheduleAfterDefinitiveFailure,
      ResolveEvidence, FrozenLane
<1>37. ASSUME NEW a \in Attempts, QuarantineUncertain(a) PROVE Thaw
  BY <1>37 DEF QuarantineUncertain, FrozenLane, Quarantine
<1>38. ASSUME NEW a \in Attempts, ReceiptContradicts(a) PROVE Thaw
  BY <1>38 DEF ReceiptContradicts
<1>39. ASSUME NEW a \in Attempts, FinalizeConfirmedOrder(a) PROVE Thaw
  BY <1>39 DEF FinalizeConfirmedOrder, ResolveEvidence, FrozenLane
<1>40. ASSUME NEW a \in Attempts, FinalizeAdditionalBuyFill(a) PROVE Thaw
  BY <1>40 DEF FinalizeAdditionalBuyFill, FrozenLane
<1>41. ASSUME NEW a \in Attempts, EscalateUncertain(a) PROVE Thaw
  BY <1>41 DEF EscalateUncertain
<1>42. ASSUME NEW a \in Attempts, ProviderAccepts(a) PROVE Thaw
  BY <1>42 DEF ProviderAccepts
<1>43. ASSUME NEW a \in Attempts, TransactionLands(a) PROVE Thaw
  BY <1>43 DEF TransactionLands
<1>44. ASSUME ReleaseQuarantine PROVE Thaw
  BY <1>44, BoundsAssumption DEF ReleaseQuarantine
<1>45. ASSUME ResetCircuit PROVE Thaw
  BY <1>45, BoundsAssumption DEF ResetCircuit
<1>46. ASSUME Crash PROVE Thaw
  BY <1>46 DEF Crash
<1>47. CASE UNCHANGED vars
  BY <1>47 DEF vars
<1> HIDE DEF TypeOK, vars, Thaw
<1> QED
  BY <1>1, <1>2, <1>3, <1>4, <1>5, <1>6, <1>7, <1>8, <1>9, <1>10, <1>11, <1>12,
     <1>13, <1>14, <1>15, <1>16, <1>17, <1>18, <1>19, <1>20, <1>21, <1>22,
     <1>23, <1>24, <1>25, <1>26, <1>27, <1>28, <1>29, <1>30, <1>31, <1>32,
     <1>33, <1>34, <1>35, <1>36, <1>37, <1>38, <1>39, <1>40, <1>41, <1>42,
     <1>43, <1>44, <1>45, <1>46, <1>47
  DEF Next, SignalStep, WriterStep, RetryStep, Sweep, ReconcileStep, EnvironmentStep

(* Without an operator, a quarantine ends only with a verdict on the very  *)
(* attempt it stands for.                                                  *)
THEOREM ThawNeedsVerdict == Spec => ThawOnlyOnVerdict
<1> DEFINE Thaw == (lane.state = "quarantined" /\ lane'.state # "quarantined"
                      /\ interventions' = interventions)
                   => attempt'[lane.owner] \in {"definitive_failed_no_fill", "confirmed"}
<1>1. TypeOK /\ [Next]_vars => [Thaw]_vars
  BY ThawStep
<1> QED  BY <1>1, TypeCorrect, PTL DEF Spec, ThawOnlyOnVerdict

-----------------------------------------------------------------------------
(* The refinement: every step of the buys is a step of the ledger or none  *)
(* at all.  What the ledger's guards ask (no fill without a reservation,   *)
(* no lot without a fill, one lot of an attempt) is in the invariant.      *)

(* What a step does to the accounts: only the creation of a buy reserves.  *)
Moves ==
    \/ \E s \in Signals, route \in Routes : CreateBuyAttempt(s, route)
    \/ \E s \in Signals : Ledger!HandBack(s)
    \/ \E a \in Attempts : Ledger!Fill(a) \/ Ledger!BookFirst(a) \/ Ledger!BookFurther(a)
    \/ UNCHANGED Ledger!ledgerVars

(* releaseIntentBudget hands a reservation back, or changes nothing. *)
LEMMA HandedBack ==
    ASSUME TypeOK, NEW s \in Signals, budget' = BudgetReleased(s),
           UNCHANGED <<deficits, lots, chain>>
    PROVE  Moves
<1>1. CASE budget[s] = "reserved"
  <2>1. budget' = [budget EXCEPT ![s] = "released"]
    BY <1>1 DEF BudgetReleased
  <2>2. Ledger!HandBack(s)
    BY <1>1, <2>1 DEF Ledger!HandBack
  <2> QED  BY <2>2 DEF Moves
<1>2. CASE budget[s] # "reserved"
  <2>1. budget' = budget
    BY <1>2 DEF BudgetReleased, TypeOK
  <2> QED  BY <2>1 DEF Ledger!ledgerVars, Moves
<1> QED  BY <1>1, <1>2

(* Every step of the buys moves the accounts so, or leaves them alone. *)
LEMMA AccountsMove ==
    ASSUME TypeOK, IInv, [Next]_vars
    PROVE  Moves
<1> USE AttemptParts
   
   DEF TypeOK, IInv, LineageOf, SettlementOf, AttemptsOf, NotBegun, vars, database,
       ledger,
        environment, workers, orchestrator, Return, Throw, Ledger!ledgerVars, Moves
<1>1. ASSUME NEW s \in Signals, ExpireSignal(s) PROVE Moves
  BY <1>1 DEF ExpireSignal
<1>2. ASSUME NEW s \in Signals, ClaimSignal(s) PROVE Moves
  BY <1>2 DEF ClaimSignal
<1>3. ASSUME NEW s \in Signals, ExecuteManually(s) PROVE Moves
  BY <1>3 DEF ExecuteManually
<1>4. ASSUME NEW s \in Signals, NEW route \in Routes, Prepare(s, route) PROVE Moves
  BY <1>4 DEF Prepare
<1>5. ASSUME NEW s \in Signals, NEW route \in Routes, RefuseBuy(s, route) PROVE Moves
  BY <1>5 DEF RefuseBuy
<1>6. ASSUME NEW s \in Signals, NEW route \in Routes, DuplicateBuy(s, route) PROVE Moves
  BY <1>6 DEF DuplicateBuy
<1>7. ASSUME NEW s \in Signals, NEW route \in Routes, MergeBuy(s, route) PROVE Moves
  BY <1>7 DEF MergeBuy
<1>8. ASSUME NEW s \in Signals, NEW route \in Routes, CreateBuyAttempt(s, route) PROVE Moves
  BY <1>8
<1>9. ASSUME NEW a \in Attempts, CapturePreSubmitSnapshot(a) PROVE Moves
  BY <1>9 DEF CapturePreSubmitSnapshot
<1>10. ASSUME NEW a \in Attempts, BeginBuySubmission(a) PROVE Moves
  BY <1>10 DEF BeginBuySubmission
<1>11. ASSUME NEW a \in Attempts, RefuseSubmission(a) PROVE Moves
  BY <1>11 DEF RefuseSubmission
<1>12. ASSUME NEW a \in Attempts, SwapAnswered(a) PROVE Moves
  BY <1>12 DEF SwapAnswered
<1>13. ASSUME NEW a \in Attempts, RecordSubmittedOrder(a) PROVE Moves
  BY <1>13 DEF RecordSubmittedOrder
<1>14. ASSUME NEW a \in Attempts, RecordRefused(a) PROVE Moves
  BY <1>14 DEF RecordRefused
<1>15. ASSUME NEW a \in Attempts, SettleSubmittedOrder(a) PROVE Moves
  BY <1>15 DEF SettleSubmittedOrder
<1>16. ASSUME NEW a \in Attempts, MarkSubmissionUncertain(a) PROVE Moves
  BY <1>16 DEF MarkSubmissionUncertain
<1>17. ASSUME NEW a \in Attempts, QuarantineWriter(a) PROVE Moves
  BY <1>17 DEF QuarantineWriter
<1>18. ASSUME NEW a \in Attempts, ReleaseWriter(a) PROVE Moves
  BY <1>18 DEF ReleaseWriter
<1>19. ASSUME NEW a \in Attempts, ReleaseRejectedAttempt(a) PROVE Moves
  BY SMTT(30), <1>19, HandedBack DEF ReleaseRejectedAttempt
<1>20. ASSUME NEW s \in Signals, StartRetry(s) PROVE Moves
  BY <1>20 DEF StartRetry
<1>21. ASSUME NEW s \in Signals, PrepareRetry(s) PROVE Moves
  BY <1>21 DEF PrepareRetry
<1>22. ASSUME NEW s \in Signals, RefuseRetry(s) PROVE Moves
  BY <1>22 DEF RefuseRetry
<1>23. ASSUME NEW s \in Signals, CreateRetryAttempt(s) PROVE Moves
  BY <1>23 DEF CreateRetryAttempt
<1>24. ASSUME NEW s \in Signals, ResolveHandlerFailure(s) PROVE Moves
  BY <1>24, HandedBack DEF ResolveHandlerFailure
<1>25. ASSUME ClaimDueRetries PROVE Moves
  BY <1>25 DEF ClaimDueRetries
<1>26. ASSUME RecoverStaleSubmission PROVE Moves
  BY <1>26 DEF RecoverStaleSubmission
<1>27. ASSUME NEW a \in Attempts, RecoverStalePreSubmit(a) PROVE Moves
  BY <1>27, HandedBack DEF RecoverStalePreSubmit
<1>28. ASSUME NEW s \in Signals, RestoreAbandonedClaim(s) PROVE Moves
  BY <1>28 DEF RestoreAbandonedClaim
<1>29. ASSUME NEW s \in Signals, ExpireScheduledRetry(s) PROVE Moves
  BY <1>29, HandedBack DEF ExpireScheduledRetry
<1>30. ASSUME NEW s \in Signals, RetryWindowPasses(s) PROVE Moves
  BY <1>30 DEF RetryWindowPasses
<1>31. ASSUME NEW a \in Attempts, ObserveConfirmed(a) PROVE Moves
  BY <1>31 DEF ObserveConfirmed
<1>32. ASSUME NEW a \in Attempts, ObservePending(a) PROVE Moves
  BY <1>32 DEF ObservePending
<1>33. ASSUME NEW a \in Attempts, ObserveFailure(a) PROVE Moves
  BY <1>33 DEF ObserveFailure
<1>34. ASSUME NEW a \in Attempts, VerifyWithHash(a) PROVE Moves
  BY SMTT(30), <1>34, HandedBack
  DEF VerifyWithHash, MarkUncertain, ScheduleAfterDefinitiveFailure
<1>35. ASSUME NEW a \in Attempts, FreezeForEvidence(a) PROVE Moves
  BY <1>35, HandedBack
  DEF FreezeForEvidence, MarkUncertain, ScheduleAfterDefinitiveFailure
<1>36. ASSUME NEW a \in Attempts, VerifyWithoutHash(a) PROVE Moves
  BY <1>36, HandedBack
  DEF VerifyWithoutHash, MarkUncertain, ScheduleAfterDefinitiveFailure
<1>37. ASSUME NEW a \in Attempts, QuarantineUncertain(a) PROVE Moves
  BY <1>37 DEF QuarantineUncertain
<1>38. ASSUME NEW a \in Attempts, ReceiptContradicts(a) PROVE Moves
  BY <1>38 DEF ReceiptContradicts
<1>39. ASSUME NEW a \in Attempts, FinalizeConfirmedOrder(a) PROVE Moves
  <2>1. budget[a[1]] \in {"reserved", "released"}
    <3>1. attempt[a] # "none" /\ SettlementOf(a[1])
      BY <1>39 DEF FinalizeConfirmedOrder
    <3>2. budget[a[1]] \notin {"none", "committed"}
      BY <1>39, <3>1 DEF FinalizeConfirmedOrder
    <3> QED  BY <3>2 DEF BudgetStatuses
  <2>2. /\ budget' = [budget EXCEPT ![a[1]] = "committed"]
        /\ deficits' = IF budget[a[1]] = "reserved" THEN deficits ELSE deficits \cup {a}
    BY <1>39, <2>1 DEF FinalizeConfirmedOrder, BudgetCommitted, DeficitBooked
  <2>3. Ledger!BookFirst(a)
    BY <1>39, <2>2 DEF FinalizeConfirmedOrder, Ledger!BookFirst, Ledger!Booked
  <2> QED  BY <2>3
<1>40. ASSUME NEW a \in Attempts, FinalizeAdditionalBuyFill(a) PROVE Moves
  BY <1>40
  DEF FinalizeAdditionalBuyFill, Ledger!BookFurther, Ledger!Booked
<1>41. ASSUME NEW a \in Attempts, EscalateUncertain(a) PROVE Moves
  BY <1>41 DEF EscalateUncertain
<1>42. ASSUME NEW a \in Attempts, ProviderAccepts(a) PROVE Moves
  BY <1>42 DEF ProviderAccepts
<1>43. ASSUME NEW a \in Attempts, TransactionLands(a) PROVE Moves
  BY <1>43 DEF TransactionLands, Ledger!Fill
<1>44. ASSUME ReleaseQuarantine PROVE Moves
  BY <1>44 DEF ReleaseQuarantine
<1>45. ASSUME ResetCircuit PROVE Moves
  BY <1>45 DEF ResetCircuit
<1>46. ASSUME Crash PROVE Moves
  BY <1>46 DEF Crash
<1>47. CASE UNCHANGED vars
  BY <1>47 DEF vars
<1> HIDE DEF TypeOK, IInv, vars, Moves
<1> QED
  BY <1>1, <1>2, <1>3, <1>4, <1>5, <1>6, <1>7, <1>8, <1>9, <1>10, <1>11, <1>12,
     <1>13, <1>14, <1>15, <1>16, <1>17, <1>18, <1>19, <1>20, <1>21, <1>22,
     <1>23, <1>24, <1>25, <1>26, <1>27, <1>28, <1>29, <1>30, <1>31, <1>32,
     <1>33, <1>34, <1>35, <1>36, <1>37, <1>38, <1>39, <1>40, <1>41, <1>42,
     <1>43, <1>44, <1>45, <1>46, <1>47
  DEF Next, SignalStep, WriterStep, RetryStep, Sweep, ReconcileStep, EnvironmentStep

(* The creation of a buy is the ledger's reservation; the rest is as named. *)
LEMMA LedgerStepped ==
    ASSUME TypeOK, IInv, [Next]_vars
    PROVE  [Ledger!LedgerNext]_(Ledger!ledgerVars)
<1>1. ASSUME NEW s \in Signals, NEW route \in Routes, CreateBuyAttempt(s, route)
      PROVE  Ledger!Reserve(s)
  <2>1. budget[s] = "none"
    BY <1>1 DEF CreateBuyAttempt, IInv, SettlementOf
  <2> QED  BY <1>1, <2>1 DEF CreateBuyAttempt, Ledger!Reserve, environment
<1>2. CASE UNCHANGED Ledger!ledgerVars
  BY <1>2
<1>3. CASE Ledger!LedgerNext
  BY <1>3
<1>4. Ledger!LedgerNext \/ UNCHANGED Ledger!ledgerVars
  BY <1>1, AccountsMove DEF Moves, Ledger!LedgerNext
<1> QED  BY <1>2, <1>3, <1>4

(* The accounting keeps the promises of BuyLedger, for any signals,        *)
(* limits, retries and crashes.                                            *)
THEOREM ImplementsLedger == Spec => KeepsLedger
<1>1. Init => Ledger!LedgerInit
  BY DEF Init, Ledger!LedgerInit
<1>2. TypeOK /\ IInv /\ [Next]_vars => [Ledger!LedgerNext]_(Ledger!ledgerVars)
  BY LedgerStepped
<1> QED  BY <1>1, <1>2, Invariance, PTL DEF Spec, KeepsLedger, Ledger!LedgerSpec

-----------------------------------------------------------------------------
(* The limits of a whitelist row.  What a row may still buy is bounded by  *)
(* counting reservations with the fills they become: only the creation of  *)
(* a buy adds to the sum, and it looks at both limits first.               *)

(* The signals of a contract whose fill a reservation stood for.           *)
PaidSignals(t) == {s \in Signals : Token[s] = t /\ FillsOf(s) \ deficits # {}}

RoomKept(t) ==
    /\ Cardinality(BoughtOf(t) \ deficits) + Cardinality(ReservedOf(t)) <= TotalBudget
    /\ Cardinality(PaidSignals(t)) + Cardinality(ReservedOf(t)) <= MaxBuys

(* What is bought and reserved of a contract can be counted.               *)
LEMMA Countable ==
    ASSUME lots \subseteq Attempts, NEW t
    PROVE  /\ IsFiniteSet(BoughtOf(t)) /\ IsFiniteSet(BoughtOf(t) \ deficits)
           /\ IsFiniteSet(ReservedOf(t)) /\ IsFiniteSet(PaidSignals(t))
<1>1. IsFiniteSet(BoughtOf(t)) /\ IsFiniteSet(BoughtOf(t) \ deficits)
  <2>1. BoughtOf(t) \subseteq Attempts /\ BoughtOf(t) \ deficits \subseteq Attempts
    BY DEF BoughtOf
  <2> QED  BY <2>1, AttemptsFinite, FS_Subset
<1>2. IsFiniteSet(ReservedOf(t)) /\ IsFiniteSet(PaidSignals(t))
  <2>1. ReservedOf(t) \subseteq Signals /\ PaidSignals(t) \subseteq Signals
    BY DEF ReservedOf, PaidSignals
  <2> QED  BY <2>1, SignalsAssumption, FS_Subset
<1> QED  BY <1>1, <1>2

(* A smaller set has fewer elements, and one new element counts one.       *)
LEMMA FewerCount ==
    ASSUME NEW S, IsFiniteSet(S), NEW T, NEW x, T \subseteq S \cup {x}
    PROVE  /\ Cardinality(S) \in Nat /\ Cardinality(T) \in Nat
           /\ T \subseteq S => Cardinality(T) <= Cardinality(S)
           /\ Cardinality(T) <= Cardinality(S) + 1
<1>1. IsFiniteSet(S \cup {x}) /\ Cardinality(S \cup {x}) <= Cardinality(S) + 1
  <2>1. /\ IsFiniteSet(S \cup {x})
        /\ Cardinality(S \cup {x}) = IF x \in S THEN Cardinality(S) ELSE Cardinality(S) + 1
    BY FS_AddElement
  <2>2. Cardinality(S) \in Nat
    BY FS_CardinalityType
  <2> QED  BY <2>1, <2>2
<1>2. IsFiniteSet(T) /\ Cardinality(T) <= Cardinality(S \cup {x})
  BY <1>1, FS_Subset
<1>3. T \subseteq S => Cardinality(T) <= Cardinality(S)
  BY FS_Subset
<1>4. /\ Cardinality(S) \in Nat /\ Cardinality(T) \in Nat
      /\ Cardinality(S \cup {x}) \in Nat
  BY <1>1, <1>2, FS_CardinalityType
<1> QED  BY <1>1, <1>2, <1>3, <1>4

(* Nothing is added: the sums do not grow.                                 *)
LEMMA NothingAdded ==
    ASSUME TypeOK, NEW t, RoomKept(t),
           (BoughtOf(t) \ deficits)' \subseteq BoughtOf(t) \ deficits,
           ReservedOf(t)' \subseteq ReservedOf(t),
           PaidSignals(t)' \subseteq PaidSignals(t)
    PROVE  RoomKept(t)'
<1>1. /\ IsFiniteSet(BoughtOf(t) \ deficits) /\ IsFiniteSet(ReservedOf(t))
      /\ IsFiniteSet(PaidSignals(t))
  BY Countable DEF TypeOK
<1>2. /\ Cardinality((BoughtOf(t) \ deficits)') <= Cardinality(BoughtOf(t) \ deficits)
      /\ Cardinality((BoughtOf(t) \ deficits)') \in Nat
      /\ Cardinality(BoughtOf(t) \ deficits) \in Nat
  BY <1>1, FewerCount
<1>3. /\ Cardinality(ReservedOf(t)') <= Cardinality(ReservedOf(t))
      /\ Cardinality(ReservedOf(t)') \in Nat /\ Cardinality(ReservedOf(t)) \in Nat
  BY <1>1, FewerCount
<1>4. /\ Cardinality(PaidSignals(t)') <= Cardinality(PaidSignals(t))
      /\ Cardinality(PaidSignals(t)') \in Nat /\ Cardinality(PaidSignals(t)) \in Nat
  BY <1>1, FewerCount
<1> HIDE DEF BoughtOf, ReservedOf, PaidSignals
<1> QED  BY <1>2, <1>3, <1>4, BoundsAssumption DEF RoomKept

(* A reservation becomes a fill.                                           *)
LEMMA ReservationSpent ==
    ASSUME TypeOK, NEW t, RoomKept(t), NEW a, NEW s \in ReservedOf(t),
           (BoughtOf(t) \ deficits)' \subseteq (BoughtOf(t) \ deficits) \cup {a},
           ReservedOf(t)' \subseteq ReservedOf(t) \ {s},
           PaidSignals(t)' \subseteq PaidSignals(t) \cup {s}
    PROVE  RoomKept(t)'
<1>1. /\ IsFiniteSet(BoughtOf(t) \ deficits) /\ IsFiniteSet(ReservedOf(t))
      /\ IsFiniteSet(PaidSignals(t))
  BY Countable DEF TypeOK
<1>2. /\ Cardinality((BoughtOf(t) \ deficits)') <= Cardinality(BoughtOf(t) \ deficits) + 1
      /\ Cardinality((BoughtOf(t) \ deficits)') \in Nat
      /\ Cardinality(BoughtOf(t) \ deficits) \in Nat
  BY <1>1, FewerCount
<1>3. /\ Cardinality(ReservedOf(t)') <= Cardinality(ReservedOf(t)) - 1
      /\ Cardinality(ReservedOf(t)') \in Nat /\ Cardinality(ReservedOf(t)) \in Nat
  <2>1. /\ IsFiniteSet(ReservedOf(t) \ {s})
        /\ Cardinality(ReservedOf(t) \ {s}) = Cardinality(ReservedOf(t)) - 1
    BY <1>1, FS_RemoveElement
  <2> QED  BY <1>1, <2>1, FewerCount
<1>4. /\ Cardinality(PaidSignals(t)') <= Cardinality(PaidSignals(t)) + 1
      /\ Cardinality(PaidSignals(t)') \in Nat /\ Cardinality(PaidSignals(t)) \in Nat
  BY <1>1, FewerCount
<1> QED  BY <1>2, <1>3, <1>4, BoundsAssumption DEF RoomKept

(* A buy is created: the row's limits were read in the same transaction,   *)
(* and no other reservation of the contract exists, as its intent would be *)
(* active.                                                                 *)
LEMMA ReservationMade ==
    ASSUME TypeOK, IInv, NEW s \in Signals, NEW route \in Routes, CreateBuyAttempt(s, route)
    PROVE  RoomKept(Token[s])'
<1> DEFINE t == Token[s]
<1>1. /\ IsFiniteSet(BoughtOf(t)) /\ IsFiniteSet(BoughtOf(t) \ deficits)
      /\ IsFiniteSet(ReservedOf(t)) /\ IsFiniteSet(PaidSignals(t))
  BY Countable DEF TypeOK
<1>2. ReservedOf(t) = {}
  BY DEF ReservedOf, CreateBuyAttempt, ScopeFree, SameScope, IInv, SettlementOf
<1>3. ReservedOf(t)' = {s}
  BY <1>2 DEF ReservedOf, CreateBuyAttempt, TypeOK
<1>4. /\ (BoughtOf(t) \ deficits)' = BoughtOf(t) \ deficits
      /\ PaidSignals(t)' = PaidSignals(t)
  BY DEF CreateBuyAttempt, BoughtOf, PaidSignals, FillsOf
<1>5. Cardinality(PaidSignals(t)) < MaxBuys /\ Cardinality(PaidSignals(t)) \in Nat
  <2> DEFINE Bought == {u \in Signals : Token[u] = t /\ \E a \in lots : a[1] = u}
             Pending == {a \in Attempts : Token[a[1]] = t /\ attempt[a] \in PendingBuy}
  <2>1. IsFiniteSet(Bought) /\ IsFiniteSet(Pending)
    BY SignalsAssumption, AttemptsFinite, FS_Subset
  <2>2. Cardinality(Bought) + Cardinality(Pending) < MaxBuys
    BY DEF CreateBuyAttempt, WithinLimits, BuyCount, PendingBuys
  <2>3. PaidSignals(t) \subseteq Bought
    BY DEF PaidSignals, FillsOf
  <2>4. /\ Cardinality(PaidSignals(t)) <= Cardinality(Bought)
        /\ Cardinality(PaidSignals(t)) \in Nat /\ Cardinality(Bought) \in Nat
    BY <2>1, <2>3, FewerCount
  <2>5. Cardinality(Pending) \in Nat
    BY <2>1, FS_CardinalityType
  <2> HIDE DEF Bought, Pending
  <2> QED  BY <2>2, <2>4, <2>5, BoundsAssumption
<1>6. /\ Cardinality(BoughtOf(t) \ deficits) + 1 <= TotalBudget
      /\ Cardinality(BoughtOf(t) \ deficits) \in Nat
  <2>1. Cardinality(BoughtOf(t)) + Cardinality(ReservedOf(t)) + 1 <= TotalBudget
    BY DEF CreateBuyAttempt, WithinLimits
  <2>2. Cardinality(ReservedOf(t)) = 0
    BY <1>2, FS_EmptySet
  <2>3. /\ Cardinality(BoughtOf(t) \ deficits) <= Cardinality(BoughtOf(t))
        /\ Cardinality(BoughtOf(t) \ deficits) \in Nat /\ Cardinality(BoughtOf(t)) \in Nat
    BY <1>1, FewerCount
  <2> QED  BY <2>1, <2>2, <2>3, BoundsAssumption
<1>7. Cardinality(ReservedOf(t)') = 1
  BY <1>3, FS_Singleton
<1> QED  BY <1>4, <1>5, <1>6, <1>7, BoundsAssumption DEF RoomKept

(* Every step keeps the limits.                                            *)
LEMMA RoomStep ==
    ASSUME TypeOK, IInv, [Next]_vars, NEW t \in Tokens, RoomKept(t)
    PROVE  RoomKept(t)'
<1> USE AttemptParts DEF BoughtOf, ReservedOf, PaidSignals, FillsOf, TypeOK
<1>1. ASSUME NEW s \in Signals, NEW route \in Routes, CreateBuyAttempt(s, route)
      PROVE  RoomKept(t)'
  <2>1. CASE Token[s] = t
    BY <1>1, <2>1, ReservationMade
  <2>2. CASE Token[s] # t
    BY <1>1, <2>2, NothingAdded DEF CreateBuyAttempt
  <2> QED  BY <2>1, <2>2
<1>2. ASSUME NEW s \in Signals, Ledger!HandBack(s)
      PROVE  RoomKept(t)'
  BY <1>2, NothingAdded DEF Ledger!HandBack
<1>3. ASSUME NEW a \in Attempts, Ledger!Fill(a)
      PROVE  RoomKept(t)'
  BY <1>3, NothingAdded DEF Ledger!Fill
<1>4. ASSUME NEW a \in Attempts, Ledger!BookFirst(a)
      PROVE  RoomKept(t)'
  <2>1. CASE Token[a[1]] = t /\ budget[a[1]] = "reserved"
    <3>1. a[1] \in ReservedOf(t)
      BY <2>1
    <3>2. (BoughtOf(t) \ deficits)' \subseteq (BoughtOf(t) \ deficits) \cup {a}
      BY <1>4 DEF Ledger!BookFirst
    <3>3. ReservedOf(t)' \subseteq ReservedOf(t) \ {a[1]}
      BY <1>4 DEF Ledger!BookFirst
    <3>4. PaidSignals(t)' \subseteq PaidSignals(t) \cup {a[1]}
      BY <1>4 DEF Ledger!BookFirst
    <3> HIDE DEF BoughtOf, ReservedOf, PaidSignals, FillsOf
    <3> QED  BY <3>1, <3>2, <3>3, <3>4, ReservationSpent
  <2>2. CASE Token[a[1]] # t \/ budget[a[1]] # "reserved"
    BY <1>4, <2>2, NothingAdded DEF Ledger!BookFirst
  <2> QED  BY <2>1, <2>2
<1>5. ASSUME NEW a \in Attempts, Ledger!BookFurther(a)
      PROVE  RoomKept(t)'
  BY <1>5, NothingAdded DEF Ledger!BookFurther
<1>6. CASE UNCHANGED Ledger!ledgerVars
  BY <1>6, NothingAdded DEF Ledger!ledgerVars
<1> HIDE DEF BoughtOf, ReservedOf, PaidSignals, FillsOf, TypeOK
<1> QED  BY <1>1, <1>2, <1>3, <1>4, <1>5, <1>6, AccountsMove DEF Moves

(* The limits of a whitelist row hold in every state, for any number of    *)
(* signals, contracts, retries and crashes: fills that come after their    *)
(* reservation was handed back aside.                                      *)
THEOREM LimitsHold == Spec => []RowLimitsKept
<1>1. Init => \A t \in Tokens : RoomKept(t)
  <2> SUFFICES ASSUME Init, NEW t \in Tokens PROVE RoomKept(t)
    OBVIOUS
  <2>1. BoughtOf(t) \ deficits = {} /\ ReservedOf(t) = {} /\ PaidSignals(t) = {}
    BY DEF Init, BoughtOf, ReservedOf, PaidSignals, FillsOf
  <2> QED  BY <2>1, FS_EmptySet, BoundsAssumption DEF RoomKept
<1>2. TypeOK /\ IInv /\ [Next]_vars /\ (\A t \in Tokens : RoomKept(t))
        => (\A t \in Tokens : RoomKept(t))'
  BY RoomStep
<1>3. TypeOK /\ (\A t \in Tokens : RoomKept(t)) => RowLimitsKept
  <2> SUFFICES ASSUME TypeOK, NEW t \in Tokens, RoomKept(t)
               PROVE  /\ Cardinality(BoughtOf(t) \ deficits) + Cardinality(ReservedOf(t))
                            <= TotalBudget
                      /\ Cardinality(PaidSignals(t)) <= MaxBuys
    BY DEF RowLimitsKept, BudgetKept, BuyLimitKept, PaidSignals
  <2>1. Cardinality(ReservedOf(t)) \in Nat /\ Cardinality(PaidSignals(t)) \in Nat
    BY Countable, FS_CardinalityType DEF TypeOK
  <2> QED  BY <2>1, BoundsAssumption DEF RoomKept
<1> QED  BY <1>1, <1>2, <1>3, Invariance, PTL DEF Spec
-----------------------------------------------------------------------------
(* A retry and the proof it waits for.  With one retry an intent's second  *)
(* attempt is the only one that may follow another, so what it needs to    *)
(* know is the verdict on the first: that verdict is there when the intent *)
(* is scheduled, and no later statement takes it back.                     *)

Verdicts == {"definitive_failed_no_fill", "confirmed"}

VerdictOf(s) ==
    /\ intent[s] \in {"retry_scheduled", "retry_verifying"} => attempt[<<s, 1>>] \in Verdicts
    /\ \A a \in AttemptsOf(s) :
         /\ a[2] # 1 /\ attempt[a] # "none" => attempt[<<s, 1>>] \in Verdicts
         /\ attempt[a] = "definitive_failed_no_fill"
              => order[a] \in {"definitive_failed_no_fill", "chain_verifying"}

(* With one retry at most, an attempt that is not the first is the last.   *)
LEMMA OneRetry ==
    ASSUME MaxRetries \in 0 .. 1, NEW a \in Attempts
    PROVE  /\ a[1] \in Signals /\ <<a[1], 1>> \in Attempts
           /\ a[2] = 1 => a = <<a[1], 1>>
           /\ a[2] # 1 => a = <<a[1], MaxRetries + 1>>
BY DEF Attempts

(* A proof of failure schedules an intent only on its first attempt.       *)
LEMMA VerdictGiven ==
    ASSUME MaxRetries \in 0 .. 1, TypeOK, IInv, \A s \in Signals : VerdictOf(s),
           NEW a \in Attempts, order[a] = "failure_verifying",
           ScheduleAfterDefinitiveFailure(a), NEW t \in Signals
    PROVE  VerdictOf(t)'
<1>1. CASE UNCHANGED <<intent, attempt, order>>
  BY <1>1 DEF VerdictOf, AttemptsOf
<1>2. CASE /\ attempt' = [attempt EXCEPT ![a] = "definitive_failed_no_fill"]
           /\ order' = [order EXCEPT ![a] = "definitive_failed_no_fill"]
           /\ \/ RetriesLeft(a[1]) /\ intent' = [intent EXCEPT ![a[1]] = "retry_scheduled"]
              \/ intent' = [intent EXCEPT ![a[1]] = "exhausted"]
  <2>1. attempt[a] # "none"
    BY DEF IInv, LineageOf, NotBegun
  <2>2. RetriesLeft(a[1]) => a = <<a[1], 1>>
    BY <2>1, OneRetry DEF RetriesLeft
  <2>3. \A b \in Attempts : attempt[b] \in Verdicts => attempt'[b] \in Verdicts
    BY <1>2 DEF Verdicts, TypeOK
  <2>4. \A b \in AttemptsOf(t) :
          attempt'[b] = "definitive_failed_no_fill"
            => order'[b] \in {"definitive_failed_no_fill", "chain_verifying"}
    BY <1>2 DEF VerdictOf, AttemptsOf, TypeOK
  <2>5. \A b \in Attempts : attempt'[b] # "none" => attempt[b] # "none"
    BY <1>2, <2>1 DEF TypeOK
  <2>6. intent'[t] \in {"retry_scheduled", "retry_verifying"}
          => attempt'[<<t, 1>>] \in Verdicts
    <3>1. CASE t = a[1] /\ RetriesLeft(a[1])
      <4>1. <<t, 1>> = a
        BY <2>2, <3>1
      <4>2. attempt'[a] \in Verdicts
        BY <1>2 DEF Verdicts, TypeOK
      <4> QED  BY <4>1, <4>2
    <3>2. CASE t = a[1] /\ ~RetriesLeft(a[1])
      <4>1. intent' = [intent EXCEPT ![t] = "exhausted"]
        BY <1>2, <3>2
      <4> QED  BY <4>1 DEF TypeOK
    <3>3. CASE t # a[1]
      BY <1>2, <2>3, <3>3, AttemptParts DEF VerdictOf, TypeOK
    <3> QED  BY <3>1, <3>2, <3>3
  <2> QED  BY <2>3, <2>4, <2>5, <2>6, AttemptParts DEF VerdictOf, AttemptsOf
<1> QED  BY <1>1, <1>2 DEF ScheduleAfterDefinitiveFailure

(* Every step keeps the verdict on the first attempt.                      *)
LEMMA VerdictStep ==
    ASSUME MaxRetries \in 0 .. 1, TypeOK, IInv, [Next]_vars,
           \A s \in Signals : VerdictOf(s), NEW t \in Signals
    PROVE  VerdictOf(t)'
<1> USE AttemptParts, OneRetry
        DEF IInv, VerdictOf, Verdicts, LineageOf, SettlementOf, AttemptsOf, TypeOK, NotBegun, vars,
            database, ledger, environment, workers, orchestrator, Step, Return, Throw, Verify,
            ActiveIntent
<1>1. ASSUME NEW s \in Signals, ExpireSignal(s) PROVE VerdictOf(t)'
  BY <1>1 DEF ExpireSignal
<1>2. ASSUME NEW s \in Signals, ClaimSignal(s) PROVE VerdictOf(t)'
  BY <1>2 DEF ClaimSignal
<1>3. ASSUME NEW s \in Signals, ExecuteManually(s) PROVE VerdictOf(t)'
  BY <1>3 DEF ExecuteManually
<1>4. ASSUME NEW s \in Signals, NEW route \in Routes, Prepare(s, route) PROVE VerdictOf(t)'
  BY <1>4 DEF Prepare
<1>5. ASSUME NEW s \in Signals, NEW route \in Routes, RefuseBuy(s, route) PROVE VerdictOf(t)'
  BY <1>5 DEF RefuseBuy
<1>6. ASSUME NEW s \in Signals, NEW route \in Routes, DuplicateBuy(s, route) PROVE VerdictOf(t)'
  BY <1>6 DEF DuplicateBuy
<1>7. ASSUME NEW s \in Signals, NEW route \in Routes, MergeBuy(s, route) PROVE VerdictOf(t)'
  BY <1>7 DEF MergeBuy
<1>8. ASSUME NEW s \in Signals, NEW route \in Routes, CreateBuyAttempt(s, route) PROVE VerdictOf(t)'
  BY <1>8 DEF CreateBuyAttempt
<1>9. ASSUME NEW a \in Attempts, CapturePreSubmitSnapshot(a) PROVE VerdictOf(t)'
  BY <1>9 DEF CapturePreSubmitSnapshot
<1>10. ASSUME NEW a \in Attempts, BeginBuySubmission(a) PROVE VerdictOf(t)'
  BY <1>10 DEF BeginBuySubmission, IntentMoved
<1>11. ASSUME NEW a \in Attempts, RefuseSubmission(a) PROVE VerdictOf(t)'
  BY <1>11 DEF RefuseSubmission
<1>12. ASSUME NEW a \in Attempts, SwapAnswered(a) PROVE VerdictOf(t)'
  BY <1>12 DEF SwapAnswered
<1>13. ASSUME NEW a \in Attempts, RecordSubmittedOrder(a) PROVE VerdictOf(t)'
  BY <1>13 DEF RecordSubmittedOrder, IntentMoved
<1>14. ASSUME NEW a \in Attempts, RecordRefused(a) PROVE VerdictOf(t)'
  BY <1>14 DEF RecordRefused
<1>15. ASSUME NEW a \in Attempts, SettleSubmittedOrder(a) PROVE VerdictOf(t)'
  BY <1>15 DEF SettleSubmittedOrder
<1>16. ASSUME NEW a \in Attempts, MarkSubmissionUncertain(a) PROVE VerdictOf(t)'
  BY <1>16 DEF MarkSubmissionUncertain, IntentMoved
<1>17. ASSUME NEW a \in Attempts, QuarantineWriter(a) PROVE VerdictOf(t)'
  BY <1>17 DEF QuarantineWriter
<1>18. ASSUME NEW a \in Attempts, ReleaseWriter(a) PROVE VerdictOf(t)'
  BY <1>18 DEF ReleaseWriter
<1>19. ASSUME NEW a \in Attempts, ReleaseRejectedAttempt(a) PROVE VerdictOf(t)'
  BY <1>19 DEF ReleaseRejectedAttempt
<1>20. ASSUME NEW s \in Signals, StartRetry(s) PROVE VerdictOf(t)'
  BY <1>20 DEF StartRetry
<1>21. ASSUME NEW s \in Signals, PrepareRetry(s) PROVE VerdictOf(t)'
  BY <1>21 DEF PrepareRetry
<1>22. ASSUME NEW s \in Signals, RefuseRetry(s) PROVE VerdictOf(t)'
  BY <1>22 DEF RefuseRetry
<1>23. ASSUME NEW s \in Signals, CreateRetryAttempt(s) PROVE VerdictOf(t)'
  <2>1. PICK n \in NextNo(s) : attempt' = [attempt EXCEPT ![<<s, n>>] = "reserved"]
    BY <1>23 DEF CreateRetryAttempt
  <2>2. /\ <<s, n>> \in Attempts /\ attempt[<<s, n>>] = "none"
        /\ attempt[<<s, 1>>] \in Verdicts
    BY <1>23 DEF NextNo, CreateRetryAttempt
  <2>3. \A b \in Attempts : b # <<s, n>> => attempt'[b] = attempt[b]
    BY <2>1
  <2>4. attempt'[<<s, n>>] = "reserved" /\ UNCHANGED <<intent, order>>
    BY <1>23, <2>1, <2>2 DEF CreateRetryAttempt
  <2> HIDE DEF IInv, LineageOf, SettlementOf, TypeOK, NotBegun, vars
  <2>5. attempt'[<<t, 1>>] = attempt[<<t, 1>>]
    BY <2>2, <2>3 DEF Verdicts
  <2>6. \A b \in AttemptsOf(t) :
          attempt'[b] = "definitive_failed_no_fill"
            => order'[b] \in {"definitive_failed_no_fill", "chain_verifying"}
    BY <2>3, <2>4
  <2>7. \A b \in AttemptsOf(t) :
          b[2] # 1 /\ attempt'[b] # "none" => attempt'[<<t, 1>>] \in Verdicts
    BY <2>2, <2>3, <2>5
  <2> QED  BY <2>4, <2>5, <2>6, <2>7
<1>24. ASSUME NEW s \in Signals, ResolveHandlerFailure(s) PROVE VerdictOf(t)'
  BY <1>24 DEF ResolveHandlerFailure
<1>25. ASSUME ClaimDueRetries PROVE VerdictOf(t)'
  BY <1>25 DEF ClaimDueRetries, RetryDue
<1>26. ASSUME RecoverStaleSubmission PROVE VerdictOf(t)'
  BY <1>26, LaneOwner DEF RecoverStaleSubmission, WriteSettled
<1>27. ASSUME NEW a \in Attempts, RecoverStalePreSubmit(a) PROVE VerdictOf(t)'
  BY <1>27 DEF RecoverStalePreSubmit
<1>28. ASSUME NEW s \in Signals, RestoreAbandonedClaim(s) PROVE VerdictOf(t)'
  BY <1>28 DEF RestoreAbandonedClaim
<1>29. ASSUME NEW s \in Signals, ExpireScheduledRetry(s) PROVE VerdictOf(t)'
  BY <1>29 DEF ExpireScheduledRetry
<1>30. ASSUME NEW s \in Signals, RetryWindowPasses(s) PROVE VerdictOf(t)'
  BY <1>30 DEF RetryWindowPasses
<1>31. ASSUME NEW a \in Attempts, ObserveConfirmed(a) PROVE VerdictOf(t)'
  BY <1>31 DEF ObserveConfirmed, Due
<1>32. ASSUME NEW a \in Attempts, ObservePending(a) PROVE VerdictOf(t)'
  BY <1>32 DEF ObservePending, Due
<1>33. ASSUME NEW a \in Attempts, ObserveFailure(a) PROVE VerdictOf(t)'
  BY <1>33 DEF ObserveFailure, Due
<1>34. ASSUME NEW a \in Attempts, VerifyWithHash(a) PROVE VerdictOf(t)'
  <2>1. order[a] = "failure_verifying"
    BY <1>34 DEF VerifyWithHash
  <2>2. CASE ScheduleAfterDefinitiveFailure(a)
    BY <2>1, <2>2, VerdictGiven
  <2>3. CASE MarkUncertain(a)
    BY <2>1, <2>3 DEF MarkUncertain
  <2>4. CASE UNCHANGED <<intent, attempt, order>>
    BY <2>4
  <2> QED  BY <1>34, <2>2, <2>3, <2>4 DEF VerifyWithHash
<1>35. ASSUME NEW a \in Attempts, FreezeForEvidence(a) PROVE VerdictOf(t)'
  BY SMTT(30), <1>35 DEF FreezeForEvidence, MarkUncertain
<1>36. ASSUME NEW a \in Attempts, VerifyWithoutHash(a) PROVE VerdictOf(t)'
  <2>1. order[a] = "failure_verifying"
    BY <1>36 DEF VerifyWithoutHash
  <2>2. CASE ScheduleAfterDefinitiveFailure(a)
    BY <2>1, <2>2, VerdictGiven
  <2>3. CASE MarkUncertain(a)
    BY <2>1, <2>3 DEF MarkUncertain
  <2>4. CASE UNCHANGED <<intent, attempt, order>>
    BY <2>4
  <2> QED  BY <1>36, <2>2, <2>3, <2>4 DEF VerifyWithoutHash
<1>37. ASSUME NEW a \in Attempts, QuarantineUncertain(a) PROVE VerdictOf(t)'
  BY <1>37 DEF QuarantineUncertain
<1>38. ASSUME NEW a \in Attempts, ReceiptContradicts(a) PROVE VerdictOf(t)'
  BY <1>38 DEF ReceiptContradicts, IntentMoved
<1>39. ASSUME NEW a \in Attempts, FinalizeConfirmedOrder(a) PROVE VerdictOf(t)'
  BY <1>39 DEF FinalizeConfirmedOrder, Due
<1>40. ASSUME NEW a \in Attempts, FinalizeAdditionalBuyFill(a) PROVE VerdictOf(t)'
  BY <1>40 DEF FinalizeAdditionalBuyFill, Due
<1>41. ASSUME NEW a \in Attempts, EscalateUncertain(a) PROVE VerdictOf(t)'
  BY <1>41 DEF EscalateUncertain, IntentMoved
<1>42. ASSUME NEW a \in Attempts, ProviderAccepts(a) PROVE VerdictOf(t)'
  BY <1>42 DEF ProviderAccepts
<1>43. ASSUME NEW a \in Attempts, TransactionLands(a) PROVE VerdictOf(t)'
  BY <1>43 DEF TransactionLands
<1>44. ASSUME ReleaseQuarantine PROVE VerdictOf(t)'
  BY <1>44 DEF ReleaseQuarantine
<1>45. ASSUME ResetCircuit PROVE VerdictOf(t)'
  BY <1>45 DEF ResetCircuit
<1>46. ASSUME Crash PROVE VerdictOf(t)'
  BY <1>46 DEF Crash
<1>47. CASE UNCHANGED vars
  BY <1>47 DEF vars
<1> HIDE DEF IInv, VerdictOf, TypeOK, vars
<1> QED
  BY <1>1, <1>2, <1>3, <1>4, <1>5, <1>6, <1>7, <1>8, <1>9, <1>10, <1>11, <1>12,
     <1>13, <1>14, <1>15, <1>16, <1>17, <1>18, <1>19, <1>20, <1>21, <1>22,
     <1>23, <1>24, <1>25, <1>26, <1>27, <1>28, <1>29, <1>30, <1>31, <1>32,
     <1>33, <1>34, <1>35, <1>36, <1>37, <1>38, <1>39, <1>40, <1>41, <1>42,
     <1>43, <1>44, <1>45, <1>46, <1>47
  DEF Next, SignalStep, WriterStep, RetryStep, Sweep, ReconcileStep, EnvironmentStep

(* A swap is sent by the provider alone, and for an attempt that has begun. *)
LEMMA SendStep ==
    ASSUME TypeOK, [Next]_vars, NEW b \in Attempts, chain[b] = "unsent", chain'[b] = "sent"
    PROVE  work[b] = "swap"
<1> DEFINE Swapped == chain' = chain \/ work[b] = "swap"
<1> SUFFICES Swapped  OBVIOUS
<1> USE DEF TypeOK, vars, environment
<1>1. ASSUME NEW s \in Signals, ExpireSignal(s) PROVE Swapped
  BY <1>1 DEF ExpireSignal
<1>2. ASSUME NEW s \in Signals, ClaimSignal(s) PROVE Swapped
  BY <1>2 DEF ClaimSignal
<1>3. ASSUME NEW s \in Signals, ExecuteManually(s) PROVE Swapped
  BY <1>3 DEF ExecuteManually
<1>4. ASSUME NEW s \in Signals, NEW route \in Routes, Prepare(s, route) PROVE Swapped
  BY <1>4 DEF Prepare
<1>5. ASSUME NEW s \in Signals, NEW route \in Routes, RefuseBuy(s, route) PROVE Swapped
  BY <1>5 DEF RefuseBuy
<1>6. ASSUME NEW s \in Signals, NEW route \in Routes, DuplicateBuy(s, route) PROVE Swapped
  BY <1>6 DEF DuplicateBuy
<1>7. ASSUME NEW s \in Signals, NEW route \in Routes, MergeBuy(s, route) PROVE Swapped
  BY <1>7 DEF MergeBuy
<1>8. ASSUME NEW s \in Signals, NEW route \in Routes, CreateBuyAttempt(s, route) PROVE Swapped
  BY <1>8 DEF CreateBuyAttempt
<1>9. ASSUME NEW a \in Attempts, CapturePreSubmitSnapshot(a) PROVE Swapped
  BY <1>9 DEF CapturePreSubmitSnapshot
<1>10. ASSUME NEW a \in Attempts, BeginBuySubmission(a) PROVE Swapped
  BY <1>10 DEF BeginBuySubmission
<1>11. ASSUME NEW a \in Attempts, RefuseSubmission(a) PROVE Swapped
  BY <1>11 DEF RefuseSubmission
<1>12. ASSUME NEW a \in Attempts, SwapAnswered(a) PROVE Swapped
  BY <1>12 DEF SwapAnswered
<1>13. ASSUME NEW a \in Attempts, RecordSubmittedOrder(a) PROVE Swapped
  BY <1>13 DEF RecordSubmittedOrder
<1>14. ASSUME NEW a \in Attempts, RecordRefused(a) PROVE Swapped
  BY <1>14 DEF RecordRefused
<1>15. ASSUME NEW a \in Attempts, SettleSubmittedOrder(a) PROVE Swapped
  BY <1>15 DEF SettleSubmittedOrder
<1>16. ASSUME NEW a \in Attempts, MarkSubmissionUncertain(a) PROVE Swapped
  BY <1>16 DEF MarkSubmissionUncertain
<1>17. ASSUME NEW a \in Attempts, QuarantineWriter(a) PROVE Swapped
  BY <1>17 DEF QuarantineWriter
<1>18. ASSUME NEW a \in Attempts, ReleaseWriter(a) PROVE Swapped
  BY <1>18 DEF ReleaseWriter
<1>19. ASSUME NEW a \in Attempts, ReleaseRejectedAttempt(a) PROVE Swapped
  BY <1>19 DEF ReleaseRejectedAttempt
<1>20. ASSUME NEW s \in Signals, StartRetry(s) PROVE Swapped
  BY <1>20 DEF StartRetry
<1>21. ASSUME NEW s \in Signals, PrepareRetry(s) PROVE Swapped
  BY <1>21 DEF PrepareRetry
<1>22. ASSUME NEW s \in Signals, RefuseRetry(s) PROVE Swapped
  BY <1>22 DEF RefuseRetry
<1>23. ASSUME NEW s \in Signals, CreateRetryAttempt(s) PROVE Swapped
  BY <1>23 DEF CreateRetryAttempt
<1>24. ASSUME NEW s \in Signals, ResolveHandlerFailure(s) PROVE Swapped
  BY <1>24 DEF ResolveHandlerFailure
<1>25. ASSUME ClaimDueRetries PROVE Swapped
  BY <1>25 DEF ClaimDueRetries
<1>26. ASSUME RecoverStaleSubmission PROVE Swapped
  BY <1>26 DEF RecoverStaleSubmission
<1>27. ASSUME NEW a \in Attempts, RecoverStalePreSubmit(a) PROVE Swapped
  BY <1>27 DEF RecoverStalePreSubmit
<1>28. ASSUME NEW s \in Signals, RestoreAbandonedClaim(s) PROVE Swapped
  BY <1>28 DEF RestoreAbandonedClaim
<1>29. ASSUME NEW s \in Signals, ExpireScheduledRetry(s) PROVE Swapped
  BY <1>29 DEF ExpireScheduledRetry
<1>30. ASSUME NEW s \in Signals, RetryWindowPasses(s) PROVE Swapped
  BY <1>30 DEF RetryWindowPasses
<1>31. ASSUME NEW a \in Attempts, ObserveConfirmed(a) PROVE Swapped
  BY <1>31 DEF ObserveConfirmed
<1>32. ASSUME NEW a \in Attempts, ObservePending(a) PROVE Swapped
  BY <1>32 DEF ObservePending
<1>33. ASSUME NEW a \in Attempts, ObserveFailure(a) PROVE Swapped
  BY <1>33 DEF ObserveFailure
<1>34. ASSUME NEW a \in Attempts, VerifyWithHash(a) PROVE Swapped
  BY <1>34 DEF VerifyWithHash
<1>35. ASSUME NEW a \in Attempts, FreezeForEvidence(a) PROVE Swapped
  BY <1>35 DEF FreezeForEvidence
<1>36. ASSUME NEW a \in Attempts, VerifyWithoutHash(a) PROVE Swapped
  BY <1>36 DEF VerifyWithoutHash
<1>37. ASSUME NEW a \in Attempts, QuarantineUncertain(a) PROVE Swapped
  BY <1>37 DEF QuarantineUncertain
<1>38. ASSUME NEW a \in Attempts, ReceiptContradicts(a) PROVE Swapped
  BY <1>38 DEF ReceiptContradicts
<1>39. ASSUME NEW a \in Attempts, FinalizeConfirmedOrder(a) PROVE Swapped
  BY <1>39 DEF FinalizeConfirmedOrder
<1>40. ASSUME NEW a \in Attempts, FinalizeAdditionalBuyFill(a) PROVE Swapped
  BY <1>40 DEF FinalizeAdditionalBuyFill
<1>41. ASSUME NEW a \in Attempts, EscalateUncertain(a) PROVE Swapped
  BY <1>41 DEF EscalateUncertain
<1>42. ASSUME NEW a \in Attempts, ProviderAccepts(a) PROVE Swapped
  BY <1>42 DEF ProviderAccepts
<1>43. ASSUME NEW a \in Attempts, TransactionLands(a) PROVE Swapped
  BY <1>43 DEF TransactionLands
<1>44. ASSUME ReleaseQuarantine PROVE Swapped
  BY <1>44 DEF ReleaseQuarantine
<1>45. ASSUME ResetCircuit PROVE Swapped
  BY <1>45 DEF ResetCircuit
<1>46. ASSUME Crash PROVE Swapped
  BY <1>46 DEF Crash
<1>47. CASE UNCHANGED vars
  BY <1>47 DEF vars
<1> HIDE DEF TypeOK, vars, Swapped
<1> QED
  BY <1>1, <1>2, <1>3, <1>4, <1>5, <1>6, <1>7, <1>8, <1>9, <1>10, <1>11, <1>12,
     <1>13, <1>14, <1>15, <1>16, <1>17, <1>18, <1>19, <1>20, <1>21, <1>22,
     <1>23, <1>24, <1>25, <1>26, <1>27, <1>28, <1>29, <1>30, <1>31, <1>32,
     <1>33, <1>34, <1>35, <1>36, <1>37, <1>38, <1>39, <1>40, <1>41, <1>42,
     <1>43, <1>44, <1>45, <1>46, <1>47
  DEF Next, SignalStep, WriterStep, RetryStep, Sweep, ReconcileStep, EnvironmentStep

(* An intent with at most one retry sends its second swap only when the    *)
(* first attempt is proven failed, or known to have filled.  The schema    *)
(* admits a second retry as well, and there the rule fails (ThirdAttempt). *)
THEOREM RetryNeedsVerdict ==
    ASSUME MaxRetries \in 0 .. 1
    PROVE  Spec => ResendOnlyAfterProof
<1> DEFINE Known == \A s \in Signals : VerdictOf(s)
           Resend == \A a \in Attempts : (chain[a] = "unsent" /\ chain'[a] = "sent") =>
                       \A b \in AttemptsOf(a[1]) : b[2] < a[2] =>
                         attempt[b] \in {"definitive_failed_no_fill", "confirmed"}
<1>1. Init => Known
  BY AttemptParts DEF Init, VerdictOf, AttemptsOf
<1>2. TypeOK /\ IInv /\ Known /\ [Next]_vars => Known'
  BY VerdictStep
<1>3. TypeOK /\ IInv /\ Known /\ [Next]_vars => [Resend]_vars
  <2> SUFFICES ASSUME TypeOK, IInv, Known, Next,
                      NEW a \in Attempts, chain[a] = "unsent", chain'[a] = "sent",
                      NEW b \in AttemptsOf(a[1]), b[2] < a[2]
               PROVE  attempt[b] \in Verdicts
    BY DEF Verdicts
  <2>1. work[a] = "swap"
    BY SendStep
  <2>2. attempt[a] # "none"
    BY <2>1 DEF IInv, LineageOf, NotBegun
  <2>3. a[1] \in Signals /\ a[2] # 1 /\ b = <<a[1], 1>>
    BY OneRetry, AttemptParts DEF AttemptsOf, Attempts
  <2> QED  BY <2>2, <2>3 DEF VerdictOf, AttemptsOf
<1> QED  BY <1>1, <1>2, <1>3, Invariance, PTL DEF Spec, ResendOnlyAfterProof
=============================================================================
