------------------------------- MODULE LiveQueue -------------------------------
(***************************************************************************)
(* The way of a live signal to a buy (live-execution-queue.js and the      *)
(* automatic path of execution-service.js): a push or a scan queues it, one*)
(* worker takes it, claims it in the database, asks the gate of            *)
(* LiveEngine, and submits a buy in a transaction that judges the saved    *)
(* engine row and the whitelist row again (the buy itself: BuyLifecycle).  *)
(* One whitelist row; a process that dies loses its queue and its claim.   *)
(***************************************************************************)
EXTENDS LiveEngine, Sequences, SequencesExt

CONSTANTS
    Signals,        \* trade_signals of mode live
    MaxVersion      \* bound: versions of the row's terms

VARIABLES
    signal,         \* trade_signals: status, time of the source event, awaited version
    row,            \* ca_whitelist: live_ready or not, activation_version
    queue, queuedIds,
    scanner,        \* scanOnce, with what it has found
    worker,         \* pump
    bought          \* history: buys submitted for each signal

queueVars == <<signal, row, queue, queuedIds, scanner, worker, bought>>

-----------------------------------------------------------------------------
NoSignal == "none"
AnyVersion == 0

ASSUME QueueAssumption == IsFiniteSet(Signals) /\ NoSignal \notin Signals

IdleWorker == [at |-> "idle", signal |-> NoSignal, config |-> NoConfig, version |-> 0]
IdleScanner == [at |-> "idle", found |-> {}]

QueueInit ==
    /\ signal = [s \in Signals |-> [status |-> "none", born |-> 0, waits |-> AnyVersion]]
    /\ row = [ready |-> TRUE, version |-> 1]
    /\ queue = <<>> /\ queuedIds = {}
    /\ scanner = IdleScanner /\ worker = IdleWorker
    /\ bought = [s \in Signals |-> 0]

SetStatus(these, status) ==
    [s \in Signals |-> IF s \in these THEN [signal[s] EXCEPT !.status = status] ELSE signal[s]]

Recorded == {s \in Signals : signal[s].status = "recorded"}
RowTakes(s) == row.ready /\ signal[s].waits \in {AnyVersion, row.version}
QueueTakes(s, since) == s \in Recorded /\ RowTakes(s) /\ signal[s].born >= since

(* enqueue: what is queued already is not queued again.                    *)
EnqueueSignals(found) ==
    /\ queue' = queue \o SetToSeq(found \ queuedIds)
    /\ queuedIds' = queuedIds \cup found

-----------------------------------------------------------------------------
(* Signals, and the row they are about.                                    *)

(* matcher and launch-matcher write the signal; the push is sent once it is*)
(* committed, may be lost, and is heard only by an armed engine.           *)
SignalRecorded(s, pushed) ==
    /\ signal[s].status = "none"
    /\ \E born \in 0 .. now, waits \in {AnyVersion, row.version} :
          /\ row.ready \/ waits = row.version
          /\ signal' = [signal EXCEPT ![s] = [status |-> "recorded", born |-> born, waits |-> waits]]
    /\ IF pushed /\ armed THEN EnqueueSignals({s}) ELSE UNCHANGED <<queue, queuedIds>>
    /\ UNCHANGED <<row, scanner, worker, bought>>

RowChanges ==
    /\ \/ row.ready /\ row.version < MaxVersion /\ row' = [ready |-> FALSE, version |-> row.version + 1]
       \/ ~row.ready /\ row' = [row EXCEPT !.ready = TRUE]
    /\ UNCHANGED <<signal, queue, queuedIds, scanner, worker, bought>>

-----------------------------------------------------------------------------
(* The scan (scanOnce): what it finds is queued when the answer arrives.   *)
(* Signals older than SIGNAL_MAX_AGE_SECONDS expire first.                 *)

ScanReads(aged) ==
    /\ scanner.at = "idle" /\ armed
    /\ signal' = SetStatus(aged, "expired")
    /\ scanner' = [at |-> "found", found |-> {s \in Signals \ aged : QueueTakes(s, armedAt)}]
    /\ UNCHANGED <<row, queue, queuedIds, worker, bought>>

ScanEnqueues ==
    /\ scanner.at = "found"
    /\ EnqueueSignals(scanner.found)
    /\ scanner' = IdleScanner
    /\ UNCHANGED <<signal, row, worker, bought>>

-----------------------------------------------------------------------------
(* The worker (pump, executeItem).                                         *)

(* Slip: only an item that was executed leaves queuedIds.                  *)
ItemDoneIfBought(s) ==
    /\ worker' = IdleWorker
    /\ queuedIds' = IF signal'[s].status = "submitted" THEN queuedIds \ {s} ELSE queuedIds

ItemDone(s) ==
    /\ worker' = IdleWorker
    /\ queuedIds' = queuedIds \ {s}

(* A signal met while the engine is paused stays recorded; one met while it*)
(* is stopped is put aside.                                                *)
TakeItem ==
    /\ worker.at = "idle" /\ queue # <<>>
    /\ queue' = Tail(queue)
    /\ \/ /\ armed
          /\ worker' = [IdleWorker EXCEPT !.at = "claim", !.signal = Head(queue)]
          /\ UNCHANGED <<signal, queuedIds>>
       \/ /\ ~armed
          /\ signal' = IF control.status = "paused_transient" THEN signal
                       ELSE SetStatus({Head(queue)} \cap Recorded, "signal_only")
          /\ ItemDone(Head(queue))
    /\ UNCHANGED <<row, scanner, bought>>

ClaimSignal ==
    LET s == worker.signal IN
    /\ worker.at = "claim"
    /\ \/ signal' = SetStatus({s} \cap Recorded, "expired") /\ ItemDone(s)
       \/ ~(armed /\ QueueTakes(s, armedAt)) /\ UNCHANGED signal /\ ItemDone(s)
       \/ /\ armed /\ QueueTakes(s, armedAt)
          /\ signal' = SetStatus({s}, "pending")
          /\ worker' = [worker EXCEPT !.at = "claimed"]
          /\ UNCHANGED queuedIds
    /\ UNCHANGED <<row, queue, scanner, bought>>

Rejects(s) == signal' = SetStatus({s} \cap {t \in Signals : signal[t].status = "pending"}, "rejected")

(* assertReady on the snapshot of the gate, or on a new one when that is   *)
(* missing or older than 1.5 s.                                            *)
GatePasses(g) ==
    armed /\ control.status = "running" /\ ReadyToArm(g) /\ g.config = control.fingerprint

CheckGate(g) ==
    LET s == worker.signal IN
    /\ worker.at = "claimed" /\ g # NoSnapshot
    /\ gate' = g
    /\ IF GatePasses(g) /\ RowTakes(s)
       THEN /\ worker' = [worker EXCEPT !.at = "gated", !.config = g.config, !.version = row.version]
            /\ UNCHANGED <<signal, queuedIds>>
       ELSE Rejects(s) /\ ItemDone(s)
    /\ UNCHANGED <<row, queue, scanner, bought>>

(* Slip: the final gate trusts the one before.                             *)
FinalGateOnRowOnly(s, judged, version) == RowTakes(s) /\ row.version = version /\ SubmissionAllowed

(* beginBuySubmission: what the gate has judged is judged once more against*)
(* the rows, which are locked until the wallet's lane is taken.            *)
FinalGate(s, judged, version) ==
    /\ saved.desired /\ saved.status = "running" /\ saved.fingerprint = judged
    /\ RowTakes(s) /\ row.version = version
    /\ SubmissionAllowed

Submit ==
    LET s == worker.signal IN
    /\ worker.at = "gated" /\ FinalGate(s, worker.config, worker.version)
    /\ bought' = [bought EXCEPT ![s] = @ + 1]
    /\ signal' = SetStatus({s}, "submitted") /\ ItemDone(s)
    /\ UNCHANGED <<row, queue, scanner>>

(* The final gate, a risk or policy check, a circuit or the provider refuses.*)
SubmissionRefused ==
    /\ worker.at = "gated"
    /\ Rejects(worker.signal) /\ ItemDone(worker.signal)
    /\ UNCHANGED <<row, queue, scanner, bought>>

-----------------------------------------------------------------------------
(* What arming and a restart do to the queue.                              *)

SweepOlder(c) ==
    /\ Sweep(c)
    /\ signal' = SetStatus({s \in Recorded : signal[s].born < caller[c].begun}, "signal_only")
    /\ UNCHANGED <<row, queue, queuedIds, scanner, worker, bought>>

LiveRestarts ==
    /\ EngineRestarts
    /\ queue' = <<>> /\ queuedIds' = {} /\ scanner' = IdleScanner /\ worker' = IdleWorker
    /\ UNCHANGED <<signal, row, bought>>

ExceptGate == <<config, disk, conditions, control, armed, armedAt, saved, healthy, preparation,
                caller, now, revoked, confirmed, changes>>

QueueStep ==
    \/ TakeItem \/ ClaimSignal \/ Submit \/ SubmissionRefused
ScanStep == (\E aged \in SUBSET Recorded : ScanReads(aged)) \/ ScanEnqueues

(* The monitor and the conditions it watches are left to the runs of       *)
(* LiveEngine: here a change of settings pauses the engine.                *)
LiveQueueNext ==
    \/ (QueueStep \/ ScanStep \/ RowChanges) /\ UNCHANGED engineVars
    \/ \E s \in Signals, pushed \in BOOLEAN : SignalRecorded(s, pushed) /\ UNCHANGED engineVars
    \/ \E g \in {gate, GetSnapshot} : CheckGate(g) /\ UNCHANGED ExceptGate
    \/ \E c \in Callers : SweepOlder(c)
    \/ LiveRestarts
    \/ (EngineStep \/ SettingsStep) /\ UNCHANGED queueVars

LiveQueueSpec ==
    EngineRunning /\ QueueInit /\ [][LiveQueueNext]_<<engineVars, queueVars>>

-----------------------------------------------------------------------------
QueueTypeOK ==
    /\ \A s \in Signals : signal[s].status \in {"none", "recorded", "pending", "submitted",
                              "signal_only", "expired", "rejected"}
    /\ queuedIds = ToSet(queue) \cup ({worker.signal} \ {NoSignal})
    /\ worker.at \in {"idle", "claim", "claimed", "gated"}

(* A signal is bought once, whatever queued it and however often, and never*)
(* for an engine that the operator has stopped or a change of settings has *)
(* disarmed, although it was claimed while the engine was armed.           *)
BuyJustified ==
    [][\A s \in Signals : bought'[s] # bought[s] => bought[s] = 0 /\ ~revoked]_bought

(* A signal that came while the engine was armed is decided even if its    *)
(* push was lost or came too early: it is not left recorded.               *)
RecordedSignalDecided ==
    \A s \in Signals :
        <>[](armed /\ row.ready) => []<>~QueueTakes(s, armedAt)
=============================================================================
