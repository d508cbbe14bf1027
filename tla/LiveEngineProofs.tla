---------------------------- MODULE LiveEngineProofs ----------------------------
(***************************************************************************)
(* What is bought for real rests on what the operator did: a chain is      *)
(* approved for a scope that was traded in, the engine is on as confirmed, *)
(* a stop holds, and a signal is bought once and not after a stop.  For    *)
(* any configurations, monitors, calls that overlap and signals.           *)
(***************************************************************************)
EXTENDS LiveQueue, FiniteSetTheorems, SequenceTheorems, TLAPS

-----------------------------------------------------------------------------
(* The approval.                                                           *)

Scope == [id : 0 .. MaxScopes, status : {"none", "active", "completed", "cancelled"},
          context : Contexts, expired : BOOLEAN, valid : BOOLEAN]

ApprovalRows ==
    /\ context \in Contexts /\ chain \in [tested : BOOLEAN, approved : BOOLEAN]
    /\ probe \in [context : Contexts, valid : BOOLEAN]
    /\ scope \in Scope /\ completed \in Scope
    /\ trades \subseteq 0 .. MaxScopes /\ held \in BOOLEAN /\ approvedBy \in 0 .. MaxScopes
    /\ desk \in [step : {"free", "probe", "open", "approve"}, context : Contexts, scope : Scope]
    /\ desk.step = "open" => scope.id < MaxScopes

(* The request at the desk is about the scope that was completed when it   *)
(* was read, and ids only grow.                                            *)
ApprovalInv ==
    /\ ApprovalRows
    /\ completed.id <= scope.id
    /\ desk.step = "approve" => desk.scope.id <= completed.id
    /\ approvedBy # 0 => approvedBy \in trades /\ approvedBy <= completed.id

LEMMA AtTheDesk ==
    /\ NoScope \in Scope /\ NoScope.id = 0
    /\ FreeDesk \in [step : {"free", "probe", "open", "approve"}, context : Contexts, scope : Scope]
    /\ FreeDesk.step = "free" /\ NoProbe \in [context : Contexts, valid : BOOLEAN]
<1>1. NoProbe \in [context : Contexts, valid : BOOLEAN]
  BY ApprovalAssumption DEF NoProbe
<1>2. NoScope \in Scope /\ NoScope.id = 0
  BY <1>1, ApprovalAssumption DEF NoScope, Scope
<1> QED  BY <1>1, <1>2 DEF FreeDesk

LEMMA ApprovalInitSound == (\E approved \in BOOLEAN : ApprovalInit(approved)) => ApprovalInv
<1> SUFFICES ASSUME NEW approved \in BOOLEAN, ApprovalInit(approved) PROVE ApprovalInv
  OBVIOUS
<1>1. context \in Contexts
  BY AtTheDesk DEF ApprovalInit
<1>2. probe \in [context : Contexts, valid : BOOLEAN]
  BY AtTheDesk DEF ApprovalInit
<1>3. /\ scope = NoScope /\ completed = NoScope /\ trades = {} /\ held = FALSE
      /\ desk = FreeDesk /\ approvedBy = 0 /\ chain = [tested |-> approved, approved |-> approved]
  BY DEF ApprovalInit
<1>4. 0 \in 0 .. MaxScopes /\ completed.id <= scope.id
  BY <1>3, AtTheDesk, ApprovalAssumption
<1>5. ApprovalRows
  BY <1>1, <1>2, <1>3, <1>4, AtTheDesk DEF ApprovalRows
<1> QED  BY <1>3, <1>4, <1>5, AtTheDesk DEF ApprovalInv

LEMMA ApprovalStepSound ==
    ASSUME ApprovalInv, NEW stopped, NEW running, ApprovalStep(stopped, running)
    PROVE  ApprovalInv'
<1> USE AtTheDesk, ApprovalAssumption DEF ApprovalInv, ApprovalRows
<1>1. CASE RunDiagnostic
  <2>1. desk' = [FreeDesk EXCEPT !.step = "probe", !.context = context]
    BY <1>1 DEF RunDiagnostic
  <2>2. /\ desk' \in [step : {"free", "probe", "open", "approve"}, context : Contexts, scope : Scope]
        /\ desk'.step = "probe"
    BY <2>1
  <2> QED  BY <1>1, <2>2 DEF RunDiagnostic
<1>2. ASSUME NEW passed \in BOOLEAN, PersistContractProbeEvidence(passed)
      PROVE  ApprovalInv'
  BY <1>2 DEF PersistContractProbeEvidence
<1>3. CASE EvidenceExpires
  <2>1. /\ scope' = [scope EXCEPT !.valid = FALSE] /\ probe' = [probe EXCEPT !.valid = FALSE]
        /\ completed' = [completed EXCEPT !.valid = FALSE]
        /\ UNCHANGED <<context, chain, trades, held, desk, approvedBy>>
    BY <1>3 DEF EvidenceExpires
  <2>2. scope' \in Scope /\ scope'.id = scope.id
    BY <2>1 DEF Scope
  <2>3. completed' \in Scope /\ completed'.id = completed.id
    BY <2>1 DEF Scope
  <2>4. probe' \in [context : Contexts, valid : BOOLEAN]
    BY <2>1
  <2> QED  BY <2>1, <2>2, <2>3, <2>4
<1>4. CASE ScopeExpires
  <2>1. /\ scope' = [scope EXCEPT !.expired = TRUE]
        /\ UNCHANGED <<context, chain, probe, completed, trades, held, desk, approvedBy>>
    BY <1>4 DEF ScopeExpires
  <2>2. scope' \in Scope /\ scope'.id = scope.id
    BY <2>1 DEF Scope
  <2> QED  BY <2>1, <2>2
<1>5. ASSUME NEW c \in Contexts, ChangeContext(c) PROVE ApprovalInv'
  BY <1>5 DEF ChangeContext
<1>6. CASE StartAcceptanceScope(stopped)
  <2>1. desk' = [FreeDesk EXCEPT !.step = "open", !.context = context]
    BY <1>6 DEF StartAcceptanceScope
  <2>2. /\ desk' \in [step : {"free", "probe", "open", "approve"}, context : Contexts, scope : Scope]
        /\ desk'.step = "open"
    BY <2>1
  <2> QED  BY <1>6, <2>2 DEF StartAcceptanceScope
<1>7. CASE OpenAcceptanceScope
  BY <1>7 DEF OpenAcceptanceScope, Scope
<1>8. ASSUME NEW status \in {"completed", "cancelled"}, FinishAcceptanceScope(stopped, status)
      PROVE  ApprovalInv'
  BY <1>8 DEF FinishAcceptanceScope, Scope
<1>9. CASE BuyOfRow(running)
  BY <1>9 DEF BuyOfRow
<1>10. CASE PositionClosed
  <2>1. /\ trades' = trades \cup {IF ScopeOpen THEN scope.id ELSE 0} /\ held' = FALSE
        /\ UNCHANGED <<context, chain, probe, scope, completed, desk, approvedBy>>
    BY <1>10 DEF PositionClosed
  <2>2. scope.id \in 0 .. MaxScopes /\ 0 \in 0 .. MaxScopes
    BY DEF Scope
  <2>3. trades \subseteq trades' /\ trades' \subseteq 0 .. MaxScopes
    BY <2>1, <2>2
  <2> QED  BY <2>1, <2>3
<1>11. CASE ApproveProduction(stopped)
  <2>1. desk' = [FreeDesk EXCEPT !.step = "approve", !.scope = completed]
    BY <1>11 DEF ApproveProduction
  <2>2. /\ desk' \in [step : {"free", "probe", "open", "approve"}, context : Contexts, scope : Scope]
        /\ desk'.step = "approve" /\ desk'.scope = completed
    BY <2>1
  <2> QED  BY <1>11, <2>2 DEF ApproveProduction, Scope
<1>12. CASE WriteApproval
  BY <1>12 DEF WriteApproval, Scope
<1> QED
  BY <1>1, <1>2, <1>3, <1>4, <1>5, <1>6, <1>7, <1>8, <1>9, <1>10, <1>11, <1>12 DEF ApprovalStep

(* A chain is approved on the strength of a completed scope, or an earlier *)
(* one, in which a position of the row was really closed, whatever probes, *)
(* scopes, changes of the context and expiries came in between.            *)
THEOREM ApprovalRestsOnTrades == ApprovalSpec => []ApprovalEarned
<1>1. ApprovalInv /\ UNCHANGED approvalVars => ApprovalInv'
  BY DEF ApprovalInv, ApprovalRows, approvalVars
<1>2. ApprovalInv /\ [\E stopped, running \in BOOLEAN : ApprovalStep(stopped, running)]_approvalVars
        => ApprovalInv'
  BY <1>1, ApprovalStepSound
<1>3. ApprovalInv => ApprovalEarned
  BY DEF ApprovalInv, ApprovalEarned
<1> QED  BY <1>2, <1>3, ApprovalInitSound, PTL DEF ApprovalSpec

LEMMA ApprovalTypes == ApprovalInv => ApprovalTypeOK
BY DEF ApprovalInv, ApprovalRows, Scope, ApprovalTypeOK

(* The rows of the approval, and the request at the desk, have their types.*)
THEOREM ApprovalTyped == ApprovalSpec => []ApprovalTypeOK
<1>1. ApprovalInv /\ UNCHANGED approvalVars => ApprovalInv'
  BY DEF ApprovalInv, ApprovalRows, approvalVars
<1>2. ApprovalInv /\ [\E stopped, running \in BOOLEAN : ApprovalStep(stopped, running)]_approvalVars
        => ApprovalInv'
  BY <1>1, ApprovalStepSound
<1> QED  BY <1>2, ApprovalTypes, ApprovalInitSound, PTL DEF ApprovalSpec

-----------------------------------------------------------------------------
(* The engine.                                                             *)

EngineState == [desired : BOOLEAN, status : Statuses, fingerprint : Configs \cup {NoConfig}]
Causes == Conditions \cup {"NONE", "LIVE_ACCEPTANCE_SCOPE_EXPIRED", "LIVE_POLICY_EMPTY",
                           "NO_LIVE_CHAIN_READY", "LIVE_CONFIGURATION_CHANGED"}
Snapshot == [config : Configs \cup {NoConfig}, blockers : SUBSET Causes, armed : BOOLEAN]
EngineCall == [at : {"idle", "start", "again", "read", "sweep", "save", "saved", "consume", "configure"},
               snapshot : Snapshot, next : EngineState, arms : BOOLEAN, begun : Nat,
               then : {"none", "fault", "consume", "configure"},
               for : Configs \cup Preparations \cup {"none", "paused", "running"}]

EngineRows ==
    /\ config \in Configs /\ disk \in Configs /\ conditions \subseteq Conditions
    /\ control \in EngineState /\ saved \in EngineState
    /\ armed \in BOOLEAN /\ armedAt \in 0 .. now /\ now \in Nat /\ healthy \in Nat
    /\ caller \in [Callers -> EngineCall]
    /\ revoked \in BOOLEAN /\ confirmed \subseteq Configs

(* What a caller waits for: a call that leaves a confirmed configuration   *)
(* or the one the engine had, that turns the engine on for a confirmed one *)
(* only, and, after a stop that holds, does not turn it on.                *)
CallFits(c, call, marks, gone, time) ==
    /\ call.begun <= time
    /\ call.at = "read" => call.snapshot.config \in Configs
    /\ call.at = "configure" \/ call.then = "configure" => call.for \in Configs
    /\ call.next.fingerprint \in marks \cup {NoConfig}
    /\ call.arms => call.next.desired /\ call.next.fingerprint \in marks
    /\ call.at \notin {"sweep", "save", "saved"} => ~call.arms /\ ~call.next.desired
    /\ gone => /\ ~call.arms /\ ~call.next.desired
               /\ c = "restore" => call.at \notin {"start", "again", "read"}

EngineStands ==
    /\ control.fingerprint \in confirmed \cup {NoConfig}
    /\ saved.fingerprint \in confirmed \cup {NoConfig}
    /\ armed => control.fingerprint \in confirmed
    /\ revoked => ~armed /\ ~control.desired /\ ~saved.desired

EngineInv ==
    /\ EngineRows /\ EngineStands
    /\ \A c \in Callers : CallFits(c, caller[c], confirmed, revoked, now)

LEMMA NobodyCalls ==
    /\ Stopped \in EngineState /\ ~Stopped.desired /\ Stopped.fingerprint = NoConfig
    /\ Waiting \in EngineCall /\ FirstConfig \in Configs
    /\ \A c, marks, gone : \A time \in Nat : CallFits(c, Waiting, marks, gone, time)
<1>1. Stopped \in EngineState /\ ~Stopped.desired /\ Stopped.fingerprint = NoConfig
  BY DEF Stopped, EngineState, Statuses
<1>2. NoSnapshot \in Snapshot
  BY DEF NoSnapshot, Snapshot, Causes
<1>3. Waiting \in EngineCall
  BY <1>1, <1>2 DEF Waiting, EngineCall
<1>4. FirstConfig \in Configs
  BY EngineAssumption DEF FirstConfig
<1>5. \A c, marks, gone : \A time \in Nat : CallFits(c, Waiting, marks, gone, time)
  BY <1>1 DEF Waiting, CallFits
<1> QED  BY <1>1, <1>3, <1>4, <1>5

LEMMA EngineInitSound == ASSUME NEW tocome, EngineInit(tocome) PROVE EngineInv
<1>1. EngineRows
  <2>1. Stopped \in EngineState /\ Waiting \in EngineCall /\ FirstConfig \in Configs
    BY NobodyCalls
  <2>2. /\ config = FirstConfig /\ disk = config /\ conditions = {} /\ control = Stopped
        /\ saved = Stopped /\ armed = FALSE /\ armedAt = 0 /\ healthy = 0 /\ now = 0
        /\ caller = [c \in Callers |-> Waiting] /\ revoked = FALSE /\ confirmed = {}
    BY DEF EngineInit
  <2>3. caller \in [Callers -> EngineCall]
    BY <2>1, <2>2
  <2>4. armedAt \in 0 .. now /\ now \in Nat /\ healthy \in Nat
    BY <2>2
  <2> QED  BY <2>1, <2>2, <2>3, <2>4 DEF EngineRows
<1>2. EngineStands
  BY NobodyCalls DEF EngineInit, EngineStands
<1> QED  BY <1>1, <1>2, NobodyCalls DEF EngineInit, EngineInv

LEMMA RunningSound == EngineRunning => EngineInv
<1> SUFFICES ASSUME EngineRunning PROVE EngineInv
  OBVIOUS
<1>1. EngineRows
  <2>1. Waiting \in EngineCall /\ FirstConfig \in Configs
    BY NobodyCalls
  <2>2. /\ config = FirstConfig /\ disk = config /\ conditions = {} /\ saved = control
        /\ control = [desired |-> TRUE, status |-> "running", fingerprint |-> config]
        /\ armed = TRUE /\ armedAt = 1 /\ healthy = 0 /\ now = 1
        /\ caller = [c \in Callers |-> Waiting] /\ revoked = FALSE /\ confirmed = {config}
    BY DEF EngineRunning
  <2>3. control \in EngineState
    BY <2>1, <2>2 DEF EngineState, Statuses
  <2>4. caller \in [Callers -> EngineCall]
    BY <2>1, <2>2
  <2>5. armedAt \in 0 .. now /\ now \in Nat /\ healthy \in Nat
    BY <2>2
  <2> QED  BY <2>1, <2>2, <2>3, <2>4, <2>5 DEF EngineRows
<1>2. EngineStands
  BY NobodyCalls DEF EngineRunning, EngineStands
<1> QED  BY <1>1, <1>2, NobodyCalls DEF EngineRunning, EngineInv, EngineRows

-----------------------------------------------------------------------------
(* What a step does that only changes the call of one caller.              *)
StandsStill ==
    /\ UNCHANGED <<control, armed, armedAt, saved, revoked, confirmed>>
    /\ config' \in Configs /\ disk' \in Configs /\ healthy' \in Nat
    /\ conditions' \subseteq Conditions

LEMMA CallMade ==
    ASSUME EngineInv, NEW c \in Callers, NEW call \in EngineCall,
           caller' = [caller EXCEPT ![c] = call], StandsStill, now' \in {now, now + 1},
           CallFits(c, call, confirmed, revoked, now')
    PROVE  EngineInv'
<1>1. now \in Nat /\ now' \in Nat /\ now <= now'
  BY DEF EngineInv, EngineRows
<1>2. EngineRows'
  BY <1>1 DEF EngineInv, EngineRows, StandsStill
<1>3. EngineStands'
  BY DEF EngineInv, EngineStands, StandsStill
<1>4. ASSUME NEW d \in Callers PROVE CallFits(d, caller[d], confirmed, revoked, now)'
  <2>1. CASE d = c
    BY <2>1 DEF EngineInv, EngineRows, StandsStill
  <2>2. CASE d # c
    <3>1. CallFits(d, caller[d], confirmed, revoked, now) /\ caller'[d] = caller[d]
          /\ caller[d] \in EngineCall
      BY <2>2 DEF EngineInv, EngineRows
    <3>2. caller[d].begun <= now'
      BY <1>1, <3>1 DEF CallFits, EngineCall
    <3> QED  BY <3>1, <3>2 DEF CallFits, StandsStill
  <2> QED  BY <2>1, <2>2
<1> QED  BY <1>2, <1>3, <1>4 DEF EngineInv

LEMMA NoCall ==
    ASSUME EngineInv, NEW c \in Callers, Idle(c), StandsStill, now' = now
    PROVE  EngineInv'
BY NobodyCalls, CallMade DEF Idle, EngineInv, EngineRows

LEMMA SaveCalled ==
    ASSUME EngineInv, NEW c \in Callers, NEW next \in EngineState, NEW then \in {"none", "fault"},
           Call(c, next, then), next.fingerprint = control.fingerprint,
           next.desired => control.desired, StandsStill, now' = now
    PROVE  EngineInv'
<1>1. PICK call : call = [Waiting EXCEPT !.at = "save", !.next = next, !.then = then]
  OBVIOUS
<1>2. /\ call \in EngineCall /\ call.at = "save" /\ call.next = next /\ call.arms = FALSE
      /\ call.begun = 0 /\ call.then = then
  BY <1>1, NobodyCalls DEF EngineCall, Waiting
<1>3. CallFits(c, call, confirmed, revoked, now')
  BY <1>2 DEF CallFits, EngineInv, EngineStands, EngineRows
<1>4. caller' = [caller EXCEPT ![c] = call]
  BY <1>1 DEF Call
<1> QED  BY <1>2, <1>3, <1>4, CallMade

(* Arming: for a configuration that was confirmed.                         *)
LEMMA ArmCalled ==
    ASSUME EngineInv, NEW c \in Callers, NEW fingerprint \in confirmed,
           CallArm(c, fingerprint, "none", "none"), ~revoked, StandsStill
    PROVE  EngineInv'
<1>1. PICK call : call = [Waiting EXCEPT !.at = "sweep", !.arms = TRUE, !.next = Armed(fingerprint),
                            !.begun = now + 1, !.then = "none", !.for = "none"]
  OBVIOUS
<1>2. now \in Nat /\ Armed(fingerprint) \in EngineState
      /\ Armed(fingerprint).desired /\ Armed(fingerprint).fingerprint = fingerprint
  BY DEF EngineInv, EngineRows, Armed, EngineState, Statuses
<1>3. /\ call \in EngineCall /\ call.at = "sweep" /\ call.next = Armed(fingerprint)
      /\ call.begun = now + 1 /\ call.then = "none"
  <2>1. now + 1 \in Nat
    BY <1>2
  <2> QED  BY <1>1, <1>2, <2>1, NobodyCalls DEF EngineCall, Waiting
<1>4. now' = now + 1 /\ caller' = [caller EXCEPT ![c] = call]
  BY <1>1 DEF CallArm
<1>5. CallFits(c, call, confirmed, revoked, now')
  BY <1>2, <1>3, <1>4 DEF CallFits
<1> QED  BY <1>3, <1>4, <1>5, CallMade

(* A snapshot is read of a configuration that exists.                      *)
LEMMA SnapshotTyped == EngineInv => GetSnapshot \in Snapshot /\ GetSnapshot.config \in Configs
BY DEF EngineInv, EngineRows, GetSnapshot, Snapshot, Blockers, Causes

LEMMA SnapshotRead ==
    ASSUME EngineInv, NEW c \in Callers,
           NEW for \in Configs \cup Preparations \cup {"none", "paused", "running"},
           caller' = [caller EXCEPT ![c] = [Waiting EXCEPT !.at = "read", !.snapshot = GetSnapshot,
                                                           !.for = for]],
           c = "restore" => ~revoked, StandsStill, now' = now
    PROVE  EngineInv'
<1>1. PICK call : call = [Waiting EXCEPT !.at = "read", !.snapshot = GetSnapshot, !.for = for]
  OBVIOUS
<1>2. /\ call \in EngineCall /\ call.at = "read" /\ call.snapshot.config \in Configs
      /\ call.next = Stopped /\ call.begun = 0 /\ call.then = "none" /\ call.arms = FALSE
  BY <1>1, NobodyCalls, SnapshotTyped DEF EngineCall, Waiting
<1>3. CallFits(c, call, confirmed, revoked, now')
  BY <1>2, NobodyCalls DEF CallFits, EngineInv, EngineRows
<1> QED  BY <1>1, <1>2, <1>3, CallMade

LEMMA NothingCalled ==
    ASSUME EngineInv, caller' = caller, now' = now, StandsStill
    PROVE  EngineInv'
<1>1. EngineRows'
  BY DEF EngineInv, EngineRows, StandsStill
<1>2. EngineStands'
  BY DEF EngineInv, EngineStands, StandsStill
<1>3. \A c \in Callers : CallFits(c, caller[c], confirmed, revoked, now)'
  BY DEF EngineInv, StandsStill
<1> QED  BY <1>1, <1>2, <1>3 DEF EngineInv

-----------------------------------------------------------------------------
(* The calls of the engine.                                                *)

LEMMA CallsOfTheEngine ==
    ASSUME EngineInv
    PROVE  /\ control \in EngineState /\ control.fingerprint \in confirmed \cup {NoConfig}
           /\ \A keep \in BOOLEAN : /\ Faulted(keep) \in EngineState
                                    /\ Faulted(keep).fingerprint = control.fingerprint
                                    /\ Faulted(keep).desired => control.desired
           /\ Halted \in EngineState /\ Halted.fingerprint = control.fingerprint /\ ~Halted.desired
           /\ Paused \in EngineState /\ Paused.fingerprint = control.fingerprint
           /\ Paused.desired = control.desired
BY DEF EngineInv, EngineRows, EngineStands, EngineState, Statuses, Faulted, Halted, Paused

LEMMA SweepKeeps == ASSUME EngineInv, NEW c \in Callers, Sweep(c) PROVE EngineInv'
<1>1. caller[c] \in EngineCall /\ CallFits(c, caller[c], confirmed, revoked, now)
  BY DEF EngineInv, EngineRows
<1>2. PICK call : call = [caller[c] EXCEPT !.at = "save"]
  OBVIOUS
<1>3. call \in EngineCall /\ CallFits(c, call, confirmed, revoked, now)
  BY <1>1, <1>2 DEF Sweep, EngineCall, CallFits
<1>4. caller' = [caller EXCEPT ![c] = call] /\ StandsStill /\ now' = now
  BY <1>1, <1>2 DEF Sweep, StandsStill, world, EngineInv, EngineRows
<1> QED  BY <1>3, <1>4, CallMade

LEMMA SaveKeeps == ASSUME EngineInv, NEW c \in Callers, Save(c) PROVE EngineInv'
<1>1. caller[c] \in EngineCall /\ CallFits(c, caller[c], confirmed, revoked, now)
      /\ caller \in [Callers -> EngineCall]
  BY DEF EngineInv, EngineRows
<1>2. /\ caller[c].at = "save" /\ saved' = caller[c].next
      /\ caller' = [caller EXCEPT ![c].at = "saved"]
      /\ UNCHANGED <<config, disk, conditions, control, armed, armedAt, healthy, now, revoked, confirmed>>
  BY DEF Save, world
<1>3. caller'[c] = [caller[c] EXCEPT !.at = "saved"] /\ caller'[c] \in EngineCall
  BY <1>1, <1>2 DEF EngineCall
<1>4. caller' \in [Callers -> EngineCall] /\ \A d \in Callers \ {c} : caller'[d] = caller[d]
  BY <1>1, <1>2, <1>3
<1>5. EngineRows'
  BY <1>1, <1>2, <1>4 DEF EngineInv, EngineRows, EngineCall
<1>6. EngineStands'
  BY <1>1, <1>2 DEF EngineInv, EngineStands, CallFits
<1>7. CallFits(c, caller'[c], confirmed, revoked, now)
  BY <1>1, <1>2, <1>3 DEF CallFits, EngineCall
<1>8. \A d \in Callers : CallFits(d, caller[d], confirmed, revoked, now)'
  BY <1>2, <1>4, <1>7 DEF EngineInv
<1> QED  BY <1>5, <1>6, <1>8 DEF EngineInv

(* A call returns: a stop holds when nobody else has one under way.        *)
LEMMA ReturnKeeps == ASSUME EngineInv, NEW c \in Callers, CallReturns(c) PROVE EngineInv'
<1>1. PICK call \in EngineCall : call = caller[c]
  BY DEF EngineInv, EngineRows
<1>2. /\ CallFits(c, call, confirmed, revoked, now) /\ caller \in [Callers -> EngineCall]
      /\ \A d \in Callers : CallFits(d, caller[d], confirmed, revoked, now)
      /\ now \in Nat /\ EngineRows /\ EngineStands
  BY <1>1 DEF EngineInv, EngineRows
<1>3. PICK answer :
      /\ caller' = [caller EXCEPT ![c] = answer]
      /\ \/ answer = [Waiting EXCEPT !.at = "save", !.next = [call.next EXCEPT !.status = "fault_protected"]]
         \/ answer = [Waiting EXCEPT !.at = "consume", !.for = call.for]
         \/ answer = [Waiting EXCEPT !.at = "configure", !.for = call.for] /\ call.then = "configure"
         \/ answer = Waiting
  BY <1>1 DEF CallReturns
<1>4. /\ call.at = "saved" /\ control' = call.next /\ armed' = call.arms
      /\ armedAt' = IF call.arms THEN call.begun ELSE 0
      /\ revoked' = (revoked \/ (~call.next.desired /\ saved = call.next /\ Alone(c)))
      /\ healthy' \in {0, healthy}
      /\ UNCHANGED <<config, disk, conditions, saved, now, confirmed>>
  BY <1>1 DEF CallReturns, world
<1>5. /\ call.next \in EngineState /\ call.begun \in 0 .. now
      /\ call.arms \in BOOLEAN /\ (call.arms => call.next.desired)
      /\ revoked' => ~call.next.desired
  <2>1. call.next \in EngineState /\ call.begun \in Nat /\ call.arms \in BOOLEAN
    BY DEF EngineCall
  <2>2. /\ call.begun <= now /\ (call.arms => call.next.desired)
        /\ revoked => ~call.next.desired
    BY <1>2 DEF CallFits
  <2>3. call.begun \in 0 .. now
    BY <1>2, <2>1, <2>2
  <2> QED  BY <1>4, <2>1, <2>2, <2>3
<1>6. answer \in EngineCall /\ CallFits(c, answer, confirmed, revoked', now)
  <2>1. CASE answer = [Waiting EXCEPT !.at = "save", !.next = [call.next EXCEPT !.status = "fault_protected"]]
    <3>1. PICK next : next = [call.next EXCEPT !.status = "fault_protected"]
      OBVIOUS
    <3>2. /\ next \in EngineState /\ next.desired = call.next.desired
          /\ next.fingerprint = call.next.fingerprint
      BY <1>5, <3>1 DEF EngineState, Statuses
    <3>3. answer \in EngineCall /\ answer.at = "save" /\ answer.next = next /\ answer.arms = FALSE
          /\ answer.begun = 0 /\ answer.then = "none"
      BY <2>1, <3>1, <3>2, NobodyCalls DEF EngineCall, Waiting
    <3> QED  BY <1>2, <1>5, <3>2, <3>3 DEF CallFits
  <2>2. CASE answer = [Waiting EXCEPT !.at = "consume", !.for = call.for]
    <3>1. answer \in EngineCall /\ answer.at = "consume" /\ answer.next = Stopped
          /\ answer.arms = FALSE /\ answer.begun = 0 /\ answer.then = "none"
      BY <2>2, NobodyCalls DEF EngineCall, Waiting
    <3> QED  BY <1>2, <3>1, NobodyCalls DEF CallFits
  <2>3. CASE answer = [Waiting EXCEPT !.at = "configure", !.for = call.for] /\ call.then = "configure"
    <3>1. answer \in EngineCall /\ answer.at = "configure" /\ answer.next = Stopped
          /\ answer.arms = FALSE /\ answer.begun = 0 /\ answer.then = "none"
          /\ answer.for = call.for
      BY <2>3, NobodyCalls DEF EngineCall, Waiting
    <3>2. call.for \in Configs
      BY <1>2, <2>3 DEF CallFits
    <3> QED  BY <1>2, <3>1, <3>2, NobodyCalls DEF CallFits
  <2>4. CASE answer = Waiting
    BY <1>2, <2>4, NobodyCalls
  <2> QED  BY <1>3, <2>1, <2>2, <2>3, <2>4
<1>7. ASSUME NEW d \in Callers \ {c} PROVE CallFits(d, caller'[d], confirmed, revoked', now)
  <2>1. caller'[d] = caller[d] /\ CallFits(d, caller[d], confirmed, revoked, now)
    BY <1>2, <1>3
  <2>2. Alone(c) => caller[d].at = "idle" \/ (d # "restore" /\ caller[d].at = "read")
    BY EngineAssumption DEF Alone, Operators
  <2> QED  BY <1>4, <2>1, <2>2 DEF CallFits
<1>8. EngineStands'
  BY <1>2, <1>4, <1>5 DEF EngineStands, CallFits
<1>9. caller' \in [Callers -> EngineCall] /\ armedAt' \in 0 .. now
  BY <1>2, <1>3, <1>4, <1>5, <1>6
<1>10. revoked' \in BOOLEAN /\ healthy' \in Nat
  BY <1>2, <1>4 DEF EngineRows
<1>11. EngineRows'
  BY <1>2, <1>4, <1>5, <1>9, <1>10 DEF EngineRows
<1>12. \A d \in Callers : CallFits(d, caller[d], confirmed, revoked, now)'
  BY <1>2, <1>3, <1>4, <1>6, <1>7
<1> QED  BY <1>8, <1>11, <1>12 DEF EngineInv

-----------------------------------------------------------------------------
(* The operator, the settings, the monitor and a restart.                  *)

LEMMA OperatorKeeps == ASSUME EngineInv, OperatorStep PROVE EngineInv'
<1> USE DEF Callers, Operators
<1>0. config \in Configs /\ disk \in Configs /\ healthy \in Nat /\ conditions \subseteq Conditions
  BY DEF EngineInv, EngineRows
<1>1. CASE Stop
  BY <1>0, <1>1, CallsOfTheEngine, SaveCalled DEF Stop, StandsStill
<1>2. ASSUME NEW p \in Preparations, Prepare(p) \/ PreparationExpires(p) PROVE EngineInv'
  BY <1>0, <1>2, NothingCalled DEF Prepare, PreparationExpires, StandsStill, world
<1>3. ASSUME NEW p \in Preparations, Confirm(p) PROVE EngineInv'
  <2>1. /\ caller' = [caller EXCEPT !["confirm"] =
                         [Waiting EXCEPT !.at = "read", !.snapshot = GetSnapshot, !.for = p]]
        /\ StandsStill /\ now' = now
    BY <1>0, <1>3 DEF Confirm, StandsStill, world
  <2>2. "confirm" \in Callers /\ "confirm" # "restore"
    OBVIOUS
  <2> HIDE DEF Callers
  <2> QED  BY <2>1, <2>2, SnapshotRead
<1>4. CASE ConsumePreparation
  BY <1>0, <1>4, NoCall DEF ConsumePreparation, StandsStill, world
<1>5. CASE LockPreparation
  <2>1. PICK s : s = caller["confirm"].snapshot
    OBVIOUS
  <2>2. PICK p : p = caller["confirm"].for
    OBVIOUS
  <2>3. s.config \in Configs
    BY <1>5, <2>1 DEF LockPreparation, Reading, EngineInv, CallFits
  <2>. p \in Configs \cup Preparations \cup {"none", "paused", "running"}
    BY <2>2 DEF EngineInv, EngineRows, EngineCall
  <2>4. CASE Idle("confirm") /\ UNCHANGED <<now, confirmed, revoked>>
    BY <1>0, <1>5, <2>4, NoCall DEF LockPreparation, StandsStill, world
  <2>5. CASE /\ CallArm("confirm", s.config, "consume", p)
             /\ confirmed' = confirmed \cup {s.config} /\ revoked' = FALSE
    <3>1. PICK call : call = [Waiting EXCEPT !.at = "sweep", !.arms = TRUE, !.next = Armed(s.config),
                                !.begun = now + 1, !.then = "consume", !.for = p]
      OBVIOUS
    <3>2. now \in Nat /\ now + 1 \in Nat /\ Armed(s.config) \in EngineState
          /\ Armed(s.config).desired /\ Armed(s.config).fingerprint = s.config
      BY <2>3 DEF EngineInv, EngineRows, Armed, EngineState, Statuses
    <3>3. /\ call \in EngineCall /\ call.at = "sweep" /\ call.next = Armed(s.config)
          /\ call.begun = now + 1 /\ call.then = "consume"
      BY <2>5, <3>1, <3>2, NobodyCalls DEF EngineCall, Waiting
    <3>4. now' = now + 1 /\ caller' = [caller EXCEPT !["confirm"] = call]
      BY <2>5, <3>1 DEF CallArm
    <3>5. UNCHANGED <<config, disk, conditions, control, armed, armedAt, saved, healthy>>
      BY <1>5 DEF LockPreparation, world
    <3>6. EngineRows'
      <4>1. armedAt \in 0 .. now' /\ now' \in Nat
        BY <3>2, <3>4 DEF EngineInv, EngineRows
      <4>2. caller' \in [Callers -> EngineCall]
        BY <3>3, <3>4 DEF EngineInv, EngineRows
      <4> QED  BY <2>3, <2>5, <3>5, <4>1, <4>2 DEF EngineInv, EngineRows
    <3>7. EngineStands'
      BY <2>5, <3>5 DEF EngineInv, EngineStands
    <3>8. CallFits("confirm", call, confirmed', FALSE, now')
      BY <2>5, <3>2, <3>3, <3>4 DEF CallFits
    <3>9. ASSUME NEW d \in Callers \ {"confirm"} PROVE CallFits(d, caller[d], confirmed', FALSE, now')
      <4>1. CallFits(d, caller[d], confirmed, revoked, now) /\ caller[d].begun \in Nat
        BY DEF EngineInv, EngineRows, EngineCall
      <4>2. caller[d].begun <= now'
        BY <3>2, <3>4, <4>1 DEF CallFits
      <4> QED  BY <2>5, <4>1, <4>2 DEF CallFits
    <3>10. \A d \in Callers : CallFits(d, caller'[d], confirmed', FALSE, now')
      BY <3>4, <3>8, <3>9 DEF EngineInv, EngineRows
    <3> QED  BY <2>5, <3>6, <3>7, <3>10 DEF EngineInv
  <2> QED  BY <1>5, <2>1, <2>2, <2>4, <2>5 DEF LockPreparation
<1> QED  BY <1>1, <1>2, <1>3, <1>4, <1>5 DEF OperatorStep

LEMMA PauseKeeps ==
    ASSUME EngineInv, NEW c \in Callers, PauseTransient(c), StandsStill, now' = now
    PROVE  EngineInv'
BY CallsOfTheEngine, SaveCalled, NoCall DEF PauseTransient

LEMMA FaultKeeps ==
    ASSUME EngineInv, NEW c \in Callers, NEW keep \in BOOLEAN, NEW then \in {"none", "fault"},
           Call(c, Faulted(keep), then), StandsStill, now' = now
    PROVE  EngineInv'
BY CallsOfTheEngine, SaveCalled

LEMMA SettingsKeep == ASSUME EngineInv, SettingsStep PROVE EngineInv'
<1>0. /\ config \in Configs /\ disk \in Configs /\ healthy \in Nat /\ conditions \subseteq Conditions
      /\ "settings" \in Callers
  BY DEF EngineInv, EngineRows, Callers, Operators
<1>1. CASE RetryConfigured
  <2>1. caller["settings"].for \in Configs
    BY <1>0, <1>1 DEF RetryConfigured, EngineInv, CallFits
  <2> QED  BY <1>0, <1>1, <2>1, NoCall DEF RetryConfigured, StandsStill
<1>2. ASSUME NEW c \in Configs, SettingsChange(c) PROVE EngineInv'
  <2>1. UNCHANGED <<conditions, control, armed, armedAt, saved, healthy, now, revoked, confirmed>>
    BY <1>2 DEF SettingsChange
  <2>2. CASE config' \in Configs /\ disk' \in Configs /\ Call("settings", Faulted(FALSE), "none")
    BY <1>0, <2>1, <2>2, FaultKeeps DEF StandsStill
  <2>3. CASE config' \in Configs /\ disk' \in Configs /\ caller' = caller
    BY <1>0, <2>1, <2>3, NothingCalled DEF StandsStill
  <2>4. CASE /\ caller' = [caller EXCEPT !["settings"] = [Waiting EXCEPT !.at = "save",
                              !.next = Faulted(FALSE), !.then = "configure", !.for = c]]
             /\ UNCHANGED <<config, disk>>
    <3>1. PICK call : call = [Waiting EXCEPT !.at = "save", !.next = Faulted(FALSE),
                                             !.then = "configure", !.for = c]
      OBVIOUS
    <3>2. Faulted(FALSE) \in EngineState /\ Faulted(FALSE).fingerprint = control.fingerprint
          /\ (Faulted(FALSE).desired => control.desired)
      BY CallsOfTheEngine
    <3>3. /\ call \in EngineCall /\ call.at = "save" /\ call.next = Faulted(FALSE)
          /\ call.arms = FALSE /\ call.begun = 0 /\ call.for = c
      BY <3>1, <3>2, NobodyCalls DEF EngineCall, Waiting
    <3>4. CallFits("settings", call, confirmed, revoked, now')
      <4>1. /\ control.fingerprint \in confirmed \cup {NoConfig} /\ now \in Nat
            /\ revoked => ~control.desired
        BY DEF EngineInv, EngineStands, EngineRows
      <4>2. call.begun <= now' /\ (call.for \in Configs) /\ call.at # "read"
        BY <2>1, <3>3, <4>1
      <4>3. call.next.fingerprint \in confirmed \cup {NoConfig} /\ (revoked => ~call.next.desired)
        BY <3>2, <3>3, <4>1
      <4> QED  BY <3>3, <4>2, <4>3 DEF CallFits
    <3>5. StandsStill
      BY <1>0, <2>1, <2>4 DEF StandsStill
    <3> QED  BY <1>0, <2>1, <2>4, <3>1, <3>3, <3>4, <3>5, CallMade
  <2>5. CASE PauseTransient("settings") /\ UNCHANGED <<config, disk>>
    BY <1>0, <2>1, <2>5, PauseKeeps DEF StandsStill
  <2> QED  BY <1>0, <1>2, <2>2, <2>3, <2>4, <2>5 DEF SettingsChange
<1> QED  BY <1>1, <1>2 DEF SettingsStep

(* The monitor arms an engine that is paused and whose configuration was   *)
(* confirmed.                                                              *)
LEMMA ConfirmedBefore ==
    ASSUME EngineInv, NEW c \in Callers, caller[c].at = "read",
           control.fingerprint = caller[c].snapshot.config
    PROVE  control.fingerprint \in confirmed
BY EngineAssumption DEF EngineInv, EngineStands, CallFits

LEMMA MonitorKeeps == ASSUME EngineInv, NEW t \in Ticks, MonitorStep(t) PROVE EngineInv'
<1>0. /\ config \in Configs /\ disk \in Configs /\ healthy \in Nat /\ conditions \subseteq Conditions
      /\ t \in Callers /\ t # "restore" /\ healthy + 1 \in Nat
  BY EngineAssumption DEF EngineInv, EngineRows, Callers, Operators
<1>1. CASE TickReads(t)
  <2>1. PICK for \in {"paused", "running"} :
          caller' = [caller EXCEPT ![t] = [Waiting EXCEPT !.at = "read", !.snapshot = GetSnapshot,
                                                          !.for = for]]
    BY <1>1 DEF TickReads
  <2>2. StandsStill /\ now' = now
    BY <1>0, <1>1 DEF TickReads, StandsStill, world
  <2> QED  BY <1>0, <2>1, <2>2, SnapshotRead
<1>2. CASE TickSkips(t)
  BY <1>0, <1>2, NothingCalled DEF TickSkips, StandsStill, world
<1>3. CASE TickFails(t)
  BY <1>0, <1>3, FaultKeeps DEF TickFails, StandsStill, world
<1>4. CASE TickActs(t)
  <2>1. PICK s : s = caller[t].snapshot
    OBVIOUS
  <2>2. StandsStill /\ caller[t].at = "read"
    <3>1. healthy' \in {0, healthy, healthy + 1}
      BY <1>4 DEF TickActs
    <3>2. healthy' \in Nat
      BY <1>0, <3>1
    <3> QED  BY <1>0, <1>4, <3>2 DEF TickActs, Reading, StandsStill, world
  <2>3. CASE Idle(t) /\ now' = now
    BY <1>0, <2>2, <2>3, NoCall
  <2>4. CASE PauseTransient(t) /\ now' = now
    BY <1>0, <2>2, <2>4, PauseKeeps
  <2>5. CASE (\E keep \in BOOLEAN, then \in {"none", "fault"} : Call(t, Faulted(keep), then)) /\ now' = now
    BY <1>0, <2>2, <2>5, FaultKeeps
  <2>6. CASE control.desired /\ control.fingerprint = s.config /\ CallArm(t, s.config, "none", "none")
    <3>1. control.fingerprint \in confirmed /\ ~revoked
      BY <1>0, <2>1, <2>2, <2>6, ConfirmedBefore DEF EngineInv, EngineStands
    <3> QED  BY <1>0, <2>2, <2>6, <3>1, ArmCalled
  <2>7. RecoverTransient(t, s) =>
          \/ (\E keep \in BOOLEAN, then \in {"none", "fault"} : Call(t, Faulted(keep), then)) /\ now' = now
          \/ control.desired /\ control.fingerprint = s.config /\ CallArm(t, s.config, "none", "none")
    BY DEF RecoverTransient
  <2> QED  BY <1>4, <2>1, <2>3, <2>4, <2>5, <2>6, <2>7 DEF TickActs
<1> QED  BY <1>1, <1>2, <1>3, <1>4 DEF MonitorStep

LEMMA RestoreKeeps == ASSUME EngineInv, RestoreStep PROVE EngineInv'
<1>0. /\ config \in Configs /\ disk \in Configs /\ healthy \in Nat /\ conditions \subseteq Conditions
      /\ "restore" \in Callers
      /\ caller["restore"].at \in {"start", "again", "read"} => ~revoked
  BY DEF EngineInv, EngineRows, Callers, Operators, CallFits
<1>1. CASE RestoreReads
  <2>1. /\ caller["restore"].at \in {"start", "again"} /\ StandsStill /\ now' = now
    BY <1>0, <1>1 DEF RestoreReads, StandsStill, world
  <2>2. CASE Idle("restore")
    BY <1>0, <2>1, <2>2, NoCall
  <2>3. CASE caller' = [caller EXCEPT !["restore"] =
                           [Waiting EXCEPT !.at = "read", !.snapshot = GetSnapshot]]
    <3>1. PICK call : call = [Waiting EXCEPT !.at = "read", !.snapshot = GetSnapshot]
      OBVIOUS
    <3>2. /\ call \in EngineCall /\ call.at = "read" /\ call.snapshot.config \in Configs
          /\ call.next = Stopped /\ call.begun = 0 /\ call.then = "none" /\ call.arms = FALSE
      BY <3>1, NobodyCalls, SnapshotTyped DEF EngineCall, Waiting
    <3>3. CallFits("restore", call, confirmed, revoked, now')
      BY <1>0, <2>1, <3>2, NobodyCalls DEF CallFits, EngineInv, EngineRows
    <3> QED  BY <1>0, <2>1, <2>3, <3>1, <3>2, <3>3, CallMade
  <2> QED  BY <1>1, <2>2, <2>3 DEF RestoreReads
<1>2. CASE RestoreActs
  <2>1. PICK s : s = caller["restore"].snapshot
    OBVIOUS
  <2>2. StandsStill /\ caller["restore"].at = "read" /\ ~revoked
    BY <1>0, <1>2 DEF RestoreActs, Reading, StandsStill, world
  <2>3. CASE caller' = [caller EXCEPT !["restore"] = [Waiting EXCEPT !.at = "again"]] /\ now' = now
    <3>1. PICK call : call = [Waiting EXCEPT !.at = "again"]
      OBVIOUS
    <3>2. /\ call \in EngineCall /\ call.at = "again" /\ call.next = Stopped
          /\ call.arms = FALSE /\ call.begun = 0 /\ call.then = "none"
      BY <3>1, NobodyCalls DEF EngineCall, Waiting
    <3>3. CallFits("restore", call, confirmed, revoked, now')
      BY <2>2, <2>3, <3>2, NobodyCalls DEF CallFits, EngineInv, EngineRows
    <3> QED  BY <1>0, <2>2, <2>3, <3>1, <3>2, <3>3, CallMade
  <2>4. CASE PauseTransient("restore") /\ now' = now
    BY <1>0, <2>2, <2>4, PauseKeeps
  <2>5. CASE (\E keep \in BOOLEAN : Call("restore", Faulted(keep), "none")) /\ now' = now
    BY <1>0, <2>2, <2>5, FaultKeeps
  <2>6. CASE control.fingerprint = s.config /\ CallArm("restore", s.config, "none", "none")
    BY <1>0, <2>1, <2>2, <2>6, ConfirmedBefore, ArmCalled
  <2> QED  BY <1>2, <2>1, <2>3, <2>4, <2>5, <2>6 DEF RestoreActs
<1> QED  BY <1>1, <1>2 DEF RestoreStep

(* What was saved is what the engine wakes up with.                        *)
LEMMA RestartKeeps == ASSUME EngineInv, EngineRestarts PROVE EngineInv'
<1>1. PICK kept : kept = [saved EXCEPT !.status = IF saved.desired THEN "recovering" ELSE "stopped"]
  OBVIOUS
<1>2. /\ kept \in EngineState /\ kept.desired = saved.desired
      /\ kept.fingerprint = saved.fingerprint
  BY <1>1 DEF EngineInv, EngineRows, EngineState, Statuses
<1>3. /\ control' = kept /\ saved' = kept /\ armed' = FALSE /\ armedAt' = 0 /\ healthy' = 0
      /\ config' = disk /\ UNCHANGED <<disk, conditions, now, revoked, confirmed>>
      /\ caller' = [c \in Callers |-> IF c = "restore" /\ kept.desired
                                    THEN [Waiting EXCEPT !.at = "start"] ELSE Waiting]
  BY <1>1 DEF EngineRestarts
<1>4. PICK call : call = [Waiting EXCEPT !.at = "start"]
  OBVIOUS
<1>5. /\ call \in EngineCall /\ call.at = "start" /\ call.next = Stopped
      /\ call.arms = FALSE /\ call.begun = 0 /\ call.then = "none"
  BY <1>4, NobodyCalls DEF EngineCall, Waiting
<1>6. now \in Nat /\ EngineRows /\ EngineStands
  BY DEF EngineInv, EngineRows
<1>7. kept.desired => ~revoked
  BY <1>2, <1>6 DEF EngineStands
<1>8. kept.desired => CallFits("restore", call, confirmed, revoked, now)
  BY <1>5, <1>6, <1>7, NobodyCalls DEF CallFits
<1>9. \A c \in Callers : caller'[c] \in EngineCall /\ CallFits(c, caller'[c], confirmed, revoked, now)
  BY <1>3, <1>4, <1>5, <1>6, <1>8, NobodyCalls
<1>10. caller' \in [Callers -> EngineCall]
  BY <1>3, <1>9
<1>11. EngineRows'
  <2>1. armedAt' \in 0 .. now' /\ healthy' \in Nat
    BY <1>3, <1>6
  <2> QED  BY <1>2, <1>3, <1>6, <1>10, <2>1 DEF EngineRows
<1>12. EngineStands'
  BY <1>2, <1>3, <1>6 DEF EngineStands
<1> QED  BY <1>3, <1>9, <1>11, <1>12 DEF EngineInv

LEMMA EngineKeeps == ASSUME EngineInv, [LiveEngineNext]_engineVars PROVE EngineInv'
<1>1. CASE UNCHANGED engineVars
  BY <1>1, NothingCalled DEF engineVars, StandsStill, EngineInv, EngineRows
<1>2. CASE ConditionsStep
  BY <1>2, NothingCalled DEF ConditionsStep, ConditionsChange, StandsStill, EngineInv, EngineRows
<1>3. CASE EngineStep
  BY <1>3, SaveKeeps, ReturnKeeps, RestoreKeeps, OperatorKeeps DEF EngineStep, CallStep
<1> QED
  BY <1>1, <1>2, <1>3, SettingsKeep, RestartKeeps, SweepKeeps, MonitorKeeps DEF LiveEngineNext

-----------------------------------------------------------------------------
(* The engine is on only under a configuration that the operator has       *)
(* confirmed, whoever turned it on, with any number of overlapping calls,  *)
(* monitors, changes of settings and restarts.                             *)
THEOREM OnAsConfirmed == LiveEngineSpec => []ArmedAsConfirmed
<1>1. EngineInv => ArmedAsConfirmed
  BY DEF EngineInv, EngineStands, ArmedAsConfirmed
<1>2. EngineInit(MaxChanges) => EngineInv
  BY EngineInitSound
<1>3. EngineInv /\ [LiveEngineNext]_engineVars => EngineInv'
  BY EngineKeeps
<1> QED  BY <1>1, <1>2, <1>3, PTL DEF LiveEngineSpec

(* A stop, or a fault for good, with no call of anybody else under way is  *)
(* final until the next confirmation: neither the monitor nor a restart    *)
(* turns the engine on, nor does the saved row ask for it.                 *)
THEOREM StopIsFinal == LiveEngineSpec => []StopHolds
<1>1. EngineInv => StopHolds
  BY DEF EngineInv, EngineStands, StopHolds
<1>2. EngineInit(MaxChanges) => EngineInv
  BY EngineInitSound
<1>3. EngineInv /\ [LiveEngineNext]_engineVars => EngineInv'
  BY EngineKeeps
<1> QED  BY <1>1, <1>2, <1>3, PTL DEF LiveEngineSpec

LEMMA EngineTypes == EngineInv => EngineTypeOK
BY DEF EngineInv, EngineRows, EngineState, EngineCall, EngineTypeOK

(* The engine, its calls and its row have their types.                     *)
THEOREM EngineTyped == LiveEngineSpec => []EngineTypeOK
<1>1. EngineInit(MaxChanges) => EngineInv
  BY EngineInitSound
<1>2. EngineInv /\ [LiveEngineNext]_engineVars => EngineInv'
  BY EngineKeeps
<1> QED  BY <1>1, <1>2, EngineTypes, PTL DEF LiveEngineSpec

-----------------------------------------------------------------------------
(* The queue.                                                              *)

SignalStatuses == {"none", "recorded", "pending", "submitted", "signal_only", "expired", "rejected"}
SignalRow == [status : SignalStatuses, born : Nat, waits : Nat]

(* A signal that is claimed is pending until its worker is done with it,   *)
(* and what was bought is submitted for good.                              *)
QueueInv ==
    /\ signal \in [Signals -> SignalRow] /\ row \in [ready : BOOLEAN, version : Nat]
    /\ bought \in [Signals -> Nat]
    /\ worker = [at |-> worker.at, signal |-> worker.signal, config |-> worker.config,
                 version |-> worker.version]
    /\ \A s \in Signals : bought[s] # 0 => signal[s].status = "submitted"
    /\ worker.at \in {"claimed", "gated"}
         => worker.signal \in Signals /\ signal[worker.signal].status = "pending"

(* Statuses may be set as long as none is taken back from what is bought or*)
(* in hand.                                                                *)
LEMMA StatusSet ==
    ASSUME QueueInv, NEW these, NEW status \in SignalStatuses
    PROVE  /\ SetStatus(these, status) \in [Signals -> SignalRow]
           /\ \A s \in Signals : SetStatus(these, status)[s].status =
                 IF s \in these THEN status ELSE signal[s].status
<1>1. \A s \in Signals : signal[s] \in SignalRow
  BY DEF QueueInv
<1>2. \A s \in Signals : /\ [signal[s] EXCEPT !.status = status] \in SignalRow
                         /\ [signal[s] EXCEPT !.status = status].status = status
  BY <1>1 DEF SignalRow
<1> QED  BY <1>1, <1>2 DEF SetStatus

LEMMA RestsInQueue ==
    /\ IdleWorker = [at |-> IdleWorker.at, signal |-> IdleWorker.signal,
                     config |-> IdleWorker.config, version |-> IdleWorker.version]
    /\ IdleWorker.at = "idle"
BY DEF IdleWorker

LEMMA QueueInitSound == QueueInit => QueueInv
BY RestsInQueue DEF QueueInit, QueueInv, SignalRow, SignalStatuses, AnyVersion

(* Steps after which the worker has nothing claimed in hand.               *)
LEMMA HandsFree ==
    ASSUME QueueInv, row' = row, bought' = bought, worker' = IdleWorker,
           signal' \in [Signals -> SignalRow],
           \A s \in Signals : signal[s].status = "submitted" => signal'[s].status = "submitted"
    PROVE  QueueInv'
BY RestsInQueue DEF QueueInv

LEMMA QueueStepKeeps ==
    ASSUME QueueInv, QueueStep \/ ScanStep \/ RowChanges
    PROVE  QueueInv'
<1>0. {"expired", "signal_only", "pending", "rejected", "submitted"} \subseteq SignalStatuses
  BY DEF SignalStatuses
<1>1. CASE TakeItem
  <2>1. CASE ~armed
    <3>1. /\ row' = row /\ bought' = bought /\ worker' = IdleWorker
          /\ \/ signal' = signal
             \/ signal' = SetStatus({Head(queue)} \cap Recorded, "signal_only")
      BY <1>1, <2>1 DEF TakeItem, ItemDone
    <3>2. CASE signal' = signal
      BY <3>1, <3>2, HandsFree DEF QueueInv
    <3>3. CASE signal' = SetStatus({Head(queue)} \cap Recorded, "signal_only")
      BY <1>0, <3>1, <3>3, StatusSet, HandsFree DEF Recorded
    <3> QED  BY <3>1, <3>2, <3>3
  <2>2. CASE armed
    BY ZenonT(60), <1>1, <2>2, RestsInQueue DEF TakeItem, IdleWorker, QueueInv
  <2> QED  BY <2>1, <2>2
<1>2. CASE ClaimSignal
  <2>1. PICK s : s = worker.signal
    OBVIOUS
  <2>2. row' = row /\ bought' = bought
    BY <1>2 DEF ClaimSignal
  <2>3. CASE signal' = SetStatus({s} \cap Recorded, "expired") /\ ItemDone(s)
    BY <1>0, <2>2, <2>3, StatusSet, HandsFree DEF Recorded, ItemDone
  <2>4. CASE signal' = signal /\ ItemDone(s)
    BY <2>2, <2>4, HandsFree DEF ItemDone, QueueInv
  <2>5. CASE /\ QueueTakes(s, armedAt) /\ signal' = SetStatus({s}, "pending")
             /\ worker' = [worker EXCEPT !.at = "claimed"]
    <3>1. s \in Signals /\ signal[s].status = "recorded"
      BY <2>5 DEF QueueTakes, Recorded
    <3>2. /\ signal' \in [Signals -> SignalRow] /\ signal'[s].status = "pending"
          /\ \A q \in Signals \ {s} : signal'[q].status = signal[q].status
      BY <1>0, <2>5, <3>1, StatusSet
    <3>3. worker' = [at |-> "claimed", signal |-> s, config |-> worker.config, version |-> worker.version]
      BY <2>1, <2>5 DEF QueueInv
    <3> QED  BY <2>2, <3>1, <3>2, <3>3 DEF QueueInv
  <2> QED  BY <1>2, <2>1, <2>3, <2>4, <2>5 DEF ClaimSignal
<1>3. CASE Submit
  <2>1. PICK s : s = worker.signal
    OBVIOUS
  <2>2. /\ s \in Signals /\ signal[s].status = "pending"
        /\ bought' = [bought EXCEPT ![s] = @ + 1] /\ signal' = SetStatus({s}, "submitted")
        /\ worker' = IdleWorker /\ row' = row
    BY <1>3, <2>1 DEF Submit, ItemDone, QueueInv
  <2>3. /\ signal' \in [Signals -> SignalRow] /\ signal'[s].status = "submitted"
        /\ \A q \in Signals \ {s} : signal'[q].status = signal[q].status
    BY <1>0, <2>2, StatusSet
  <2>4. bought' \in [Signals -> Nat] /\ \A q \in Signals \ {s} : bought'[q] = bought[q]
    BY <2>2 DEF QueueInv
  <2> QED  BY <2>2, <2>3, <2>4, RestsInQueue DEF QueueInv
<1>4. CASE SubmissionRefused
  BY <1>0, <1>4, StatusSet, HandsFree DEF SubmissionRefused, Rejects, ItemDone
<1>5. ASSUME NEW aged \in SUBSET Recorded, ScanReads(aged) PROVE QueueInv'
  <2>1. /\ signal' = SetStatus(aged, "expired") /\ row' = row /\ bought' = bought /\ worker' = worker
    BY <1>5 DEF ScanReads
  <2>2. /\ signal' \in [Signals -> SignalRow]
        /\ \A s \in Signals : signal[s].status # "recorded" => signal'[s].status = signal[s].status
    BY <1>0, <2>1, StatusSet DEF Recorded
  <2> QED  BY <2>1, <2>2 DEF QueueInv
<1>6. CASE ScanEnqueues
  BY <1>6 DEF ScanEnqueues, QueueInv
<1>7. CASE RowChanges
  <2>1. row.version \in Nat /\ row.version + 1 \in Nat
    BY DEF QueueInv
  <2>2. row' \in [ready : BOOLEAN, version : Nat]
    <3>1. CASE row' = [ready |-> FALSE, version |-> row.version + 1]
      BY <2>1, <3>1
    <3>2. CASE row' = [row EXCEPT !.ready = TRUE]
      <4>1. row \in [ready : BOOLEAN, version : Nat]
        BY DEF QueueInv
      <4> QED  BY <3>2, <4>1
    <3> QED  BY <1>7, <3>1, <3>2 DEF RowChanges
  <2> QED  BY <1>7, <2>2 DEF RowChanges, QueueInv
<1> QED  BY <1>1, <1>2, <1>3, <1>4, <1>5, <1>6, <1>7 DEF QueueStep, ScanStep

LEMMA GateKeeps ==
    ASSUME QueueInv, NEW g, CheckGate(g)
    PROVE  QueueInv'
<1>1. PICK s : s = worker.signal
  OBVIOUS
<1>2. worker.at = "claimed" /\ row' = row /\ bought' = bought
  BY DEF CheckGate
<1>3. CASE /\ worker' = [worker EXCEPT !.at = "gated", !.config = g.config, !.version = row.version]
           /\ signal' = signal
  <2>1. worker' = [at |-> "gated", signal |-> worker.signal, config |-> g.config, version |-> row.version]
    BY <1>3 DEF QueueInv
  <2> QED  BY <1>2, <1>3, <2>1 DEF QueueInv
<1>4. CASE Rejects(s) /\ ItemDone(s)
  BY <1>2, <1>4, StatusSet, HandsFree DEF Rejects, ItemDone, SignalStatuses
<1> QED  BY <1>1, <1>3, <1>4 DEF CheckGate

LEMMA RecordedKeeps ==
    ASSUME EngineInv, QueueInv, NEW s \in Signals, NEW pushed, SignalRecorded(s, pushed)
    PROVE  QueueInv'
<1>1. PICK born \in 0 .. now, waits \in {AnyVersion, row.version} :
        signal' = [signal EXCEPT ![s] = [status |-> "recorded", born |-> born, waits |-> waits]]
  BY DEF SignalRecorded
<1>2. born \in Nat /\ waits \in Nat
  BY DEF EngineInv, EngineRows, QueueInv, AnyVersion
<1>3. signal[s].status = "none" /\ UNCHANGED <<row, worker, bought>>
  BY DEF SignalRecorded
<1>4. /\ signal' \in [Signals -> SignalRow]
      /\ \A q \in Signals \ {s} : signal'[q] = signal[q]
  BY <1>1, <1>2 DEF QueueInv, SignalRow, SignalStatuses
<1> QED  BY <1>3, <1>4 DEF QueueInv

LEMMA LiveQueueKeeps ==
    ASSUME EngineInv, QueueInv, [LiveQueueNext]_<<engineVars, queueVars>>
    PROVE  EngineInv' /\ QueueInv'
<1>1. CASE UNCHANGED <<engineVars, queueVars>>
  <2>1. EngineInv'
    BY <1>1, EngineKeeps
  <2> QED  BY <1>1, <2>1 DEF queueVars, QueueInv
<1>2. CASE (QueueStep \/ ScanStep \/ RowChanges) /\ UNCHANGED engineVars
  BY <1>2, EngineKeeps, QueueStepKeeps
<1>3. ASSUME NEW s \in Signals, NEW pushed \in BOOLEAN, SignalRecorded(s, pushed), UNCHANGED engineVars
      PROVE  EngineInv' /\ QueueInv'
  BY <1>3, EngineKeeps, RecordedKeeps
<1>4. ASSUME NEW g, CheckGate(g), UNCHANGED ExceptGate
      PROVE  EngineInv' /\ QueueInv'
  BY <1>4, GateKeeps, NothingCalled DEF ExceptGate, StandsStill, EngineInv, EngineRows
<1>5. ASSUME NEW c \in Callers, SweepOlder(c) PROVE EngineInv' /\ QueueInv'
  <2>1. EngineInv'
    BY <1>5, SweepKeeps DEF SweepOlder
  <2>2. PICK these : /\ signal' = SetStatus(these, "signal_only") /\ these \subseteq Recorded
                     /\ row' = row /\ worker' = worker /\ bought' = bought
    BY <1>5 DEF SweepOlder
  <2>3. /\ signal' \in [Signals -> SignalRow]
        /\ \A s \in Signals : signal[s].status # "recorded" => signal'[s].status = signal[s].status
    BY <2>2, StatusSet DEF Recorded, SignalStatuses
  <2> QED  BY <2>1, <2>2, <2>3 DEF QueueInv
<1>6. CASE LiveRestarts
  <2>1. EngineInv'
    BY <1>6, RestartKeeps DEF LiveRestarts
  <2>2. signal' = signal /\ row' = row /\ bought' = bought /\ worker' = IdleWorker
    BY <1>6 DEF LiveRestarts
  <2> QED  BY <2>1, <2>2, HandsFree DEF QueueInv
<1>7. CASE (EngineStep \/ SettingsStep) /\ UNCHANGED queueVars
  <2>1. EngineInv'
    BY <1>7, EngineKeeps DEF LiveEngineNext
  <2> QED  BY <1>7, <2>1 DEF queueVars, QueueInv
<1> QED  BY <1>1, <1>2, <1>3, <1>4, <1>5, <1>6, <1>7 DEF LiveQueueNext

LEMMA BuysJustified ==
    ASSUME EngineInv, QueueInv, [LiveQueueNext]_<<engineVars, queueVars>>
    PROVE  [\A s \in Signals : bought'[s] # bought[s] => bought[s] = 0 /\ ~revoked]_bought
<1>1. CASE Submit
  <2>1. /\ worker.signal \in Signals /\ signal[worker.signal].status = "pending"
        /\ bought' = [bought EXCEPT ![worker.signal] = @ + 1]
    BY <1>1 DEF Submit, QueueInv
  <2>2. bought[worker.signal] = 0
    BY <2>1 DEF QueueInv
  <2>3. ~revoked
    BY <1>1 DEF Submit, FinalGate, EngineInv, EngineStands
  <2>4. \A s \in Signals : bought'[s] # bought[s] => s = worker.signal
    BY <2>1 DEF QueueInv
  <2> QED  BY <2>2, <2>3, <2>4
<1>2. CASE ~Submit
  <2>1. bought' = bought
    BY <1>2 DEF LiveQueueNext, QueueStep, TakeItem, ClaimSignal, SubmissionRefused, ScanStep,
         ScanReads, ScanEnqueues, RowChanges, SignalRecorded, CheckGate, SweepOlder, LiveRestarts,
         queueVars
  <2> QED  BY <2>1
<1> QED  BY <1>1, <1>2

(* A signal is bought once, whatever queued it and however often, and not  *)
(* after a stop or a fault for good: the step that submits it finds the    *)
(* saved row still asking for the engine.                                  *)
THEOREM BoughtOnceWhileOn == LiveQueueSpec => BuyJustified
<1>1. EngineRunning /\ QueueInit => EngineInv /\ QueueInv
  BY RunningSound, QueueInitSound
<1>2. EngineInv /\ QueueInv /\ [LiveQueueNext]_<<engineVars, queueVars>> => EngineInv' /\ QueueInv'
  BY LiveQueueKeeps
<1>3. EngineInv /\ QueueInv /\ [LiveQueueNext]_<<engineVars, queueVars>>
        => [\A s \in Signals : bought'[s] # bought[s] => bought[s] = 0 /\ ~revoked]_bought
  BY BuysJustified
<1> QED  BY <1>1, <1>2, <1>3, PTL DEF LiveQueueSpec, BuyJustified

-----------------------------------------------------------------------------
(* The queue keeps its books: a signal is queued or in hand once.          *)

(* What is queued or in hand is noted, and nothing twice.                  *)
Noted(q, ids, hand) ==
    /\ q \in Seq(Signals) /\ hand \in Signals \cup {NoSignal}
    /\ \A i, j \in 1 .. Len(q) : q[i] = q[j] => i = j
    /\ \A i \in 1 .. Len(q) : q[i] # hand
    /\ ids = ToSet(q) \cup ({hand} \ {NoSignal})

LEMMA AsSequence ==
    ASSUME NEW S, IsFiniteSet(S)
    PROVE  /\ SetToSeq(S) \in Seq(S) /\ ToSet(SetToSeq(S)) = S
           /\ \A i, j \in 1 .. Len(SetToSeq(S)) : SetToSeq(S)[i] = SetToSeq(S)[j] => i = j
<1>1. PICK n \in Nat : n = Cardinality(S)
  BY FS_CardinalityType
<1>2. PICK f \in Bijection(1 .. n, S) : TRUE
  BY <1>1, FS_CardinalityType DEF ExistsBijection
<1>3. f \in [1 .. n -> S] /\ IsInjective(f)
  BY <1>2 DEF Bijection, Injection
<1>4. PICK g : g = SetToSeq(S)
  OBVIOUS
<1>5. g \in [1 .. n -> S] /\ IsInjective(g)
  BY <1>1, <1>3, <1>4 DEF SetToSeq
<1>6. g \in Seq(S) /\ Len(g) = n /\ DOMAIN g = 1 .. n
  BY <1>5
<1>7. IsFiniteSet(1 .. n) /\ Cardinality(1 .. n) = n
  BY FS_Interval
<1>8. g \in Injection(1 .. n, S)
  BY <1>5 DEF Injection
<1>9. g \in Surjection(1 .. n, S)
  BY <1>1, <1>7, <1>8, FS_Injection
<1>10. ToSet(g) = S
  BY <1>5, <1>6, <1>9 DEF ToSet, Surjection
<1> QED  BY <1>4, <1>5, <1>6, <1>10 DEF IsInjective

LEMMA NotedMore ==
    ASSUME NEW q, NEW ids, NEW hand, Noted(q, ids, hand), NEW found \in SUBSET Signals
    PROVE  Noted(q \o SetToSeq(found \ ids), ids \cup found, hand)
<1>1. PICK new : new = SetToSeq(found \ ids)
  OBVIOUS
<1>2. IsFiniteSet(found \ ids)
  BY QueueAssumption, FS_Subset
<1>3. /\ new \in Seq(found \ ids) /\ ToSet(new) = found \ ids
      /\ \A i, j \in 1 .. Len(new) : new[i] = new[j] => i = j
  BY <1>1, <1>2, AsSequence
<1>4. new \in Seq(Signals) /\ q \in Seq(Signals)
  BY <1>3 DEF Noted
<1>5. PICK both \in Seq(Signals) : both = q \o new
  BY <1>4, ConcatProperties
<1>6. /\ Len(both) = Len(q) + Len(new) /\ Len(q) \in Nat /\ Len(new) \in Nat
      /\ \A i \in 1 .. Len(q) : both[i] = q[i]
      /\ \A i \in Len(q) + 1 .. Len(both) : both[i] = new[i - Len(q)]
  BY <1>4, <1>5, ConcatProperties
<1>7. /\ \A i \in 1 .. Len(q) : q[i] \in ids /\ q[i] \in ToSet(q)
      /\ \A i \in 1 .. Len(new) : new[i] \in found /\ new[i] \notin ids
  BY <1>3, <1>4 DEF Noted, ToSet
<1>8. \A i \in 1 .. Len(both) :
         \/ i \in 1 .. Len(q) /\ both[i] = q[i] /\ both[i] \in ids
         \/ i \notin 1 .. Len(q) /\ i - Len(q) \in 1 .. Len(new) /\ both[i] = new[i - Len(q)] /\ both[i] \notin ids
  <2> SUFFICES ASSUME NEW i \in 1 .. Len(both)
               PROVE  \/ i \in 1 .. Len(q) /\ both[i] = q[i] /\ both[i] \in ids
                      \/ i \notin 1 .. Len(q) /\ i - Len(q) \in 1 .. Len(new)
                         /\ both[i] = new[i - Len(q)] /\ both[i] \notin ids
    OBVIOUS
  <2>1. CASE i \in 1 .. Len(q)
    BY <2>1, <1>6, <1>7
  <2>2. CASE i \notin 1 .. Len(q)
    <3>1. i - Len(q) \in 1 .. Len(new) /\ i \in Len(q) + 1 .. Len(both)
      BY <2>2, <1>6
    <3> QED  BY <2>2, <3>1, <1>6, <1>7
  <2> QED  BY <2>1, <2>2
<1>9. \A i, j \in 1 .. Len(both) : both[i] = both[j] => i = j
  <2> SUFFICES ASSUME NEW i \in 1 .. Len(both), NEW j \in 1 .. Len(both), both[i] = both[j]
               PROVE  i = j
    OBVIOUS
  <2>1. CASE i \in 1 .. Len(q) /\ j \in 1 .. Len(q)
    BY <2>1, <1>6 DEF Noted
  <2>2. CASE i \notin 1 .. Len(q) /\ j \notin 1 .. Len(q)
    <3>1. i - Len(q) = j - Len(q)
      BY <2>2, <1>3, <1>8
    <3> QED  BY <3>1, <1>6
  <2> QED  BY <2>1, <2>2, <1>8
<1>10. hand # NoSignal => hand \in ids
  BY DEF Noted
<1>11. \A i \in 1 .. Len(both) : both[i] # hand
  <2> SUFFICES ASSUME NEW i \in 1 .. Len(both) PROVE both[i] # hand
    OBVIOUS
  <2>1. CASE i \in 1 .. Len(q)
    BY <2>1, <1>6 DEF Noted
  <2>2. CASE i \notin 1 .. Len(q)
    <3>1. both[i] \notin ids /\ both[i] \in Signals
      BY <2>2, <1>8, <1>5
    <3> QED  BY <3>1, <1>10, QueueAssumption
  <2> QED  BY <2>1, <2>2
<1>12. ToSet(both) = ToSet(q) \cup ToSet(new)
  <2>1. ASSUME NEW x \in ToSet(both) PROVE x \in ToSet(q) \cup ToSet(new)
    <3>1. PICK i \in 1 .. Len(both) : both[i] = x
      BY <1>5 DEF ToSet
    <3> QED  BY <3>1, <1>4, <1>8 DEF ToSet
  <2>2. ASSUME NEW x \in ToSet(q) PROVE x \in ToSet(both)
    <3>1. PICK i \in 1 .. Len(q) : q[i] = x
      BY <1>4 DEF ToSet
    <3>2. i \in 1 .. Len(both) /\ both[i] = x
      BY <3>1, <1>6
    <3> QED  BY <3>2, <1>5 DEF ToSet
  <2>3. ASSUME NEW x \in ToSet(new) PROVE x \in ToSet(both)
    <3>1. PICK i \in 1 .. Len(new) : new[i] = x
      BY <1>4 DEF ToSet
    <3>2. i + Len(q) \in 1 .. Len(both) /\ i + Len(q) \in Len(q) + 1 .. Len(both) /\ (i + Len(q)) - Len(q) = i
      BY <3>1, <1>6
    <3>3. both[i + Len(q)] = x
      BY <3>1, <3>2, <1>6
    <3> QED  BY <3>2, <3>3, <1>5 DEF ToSet
  <2> QED  BY <2>1, <2>2, <2>3
<1>13. ids \cup found = ToSet(both) \cup ({hand} \ {NoSignal})
  BY <1>3, <1>12 DEF Noted
<1> QED  BY <1>1, <1>5, <1>9, <1>11, <1>13 DEF Noted

LEMMA NotedTaken ==
    ASSUME NEW q, NEW ids, Noted(q, ids, NoSignal), q # <<>>
    PROVE  /\ Head(q) \in Signals /\ Noted(Tail(q), ids, Head(q))
           /\ Noted(Tail(q), ids \ {Head(q)}, NoSignal)
<1>1. q \in Seq(Signals) /\ Len(q) \in Nat \ {0}
  BY DEF Noted
<1>2. PICK rest \in Seq(Signals) : rest = Tail(q)
  BY <1>1, HeadTailProperties
<1>3. PICK first \in Signals : first = Head(q) /\ first = q[1]
  <2>1. 1 \in 1 .. Len(q) /\ q \in Seq(Signals) /\ q # <<>>
    BY <1>1
  <2> QED  BY <1>1, <2>1
<1>4. /\ Len(rest) = Len(q) - 1 /\ \A i \in 1 .. Len(rest) : rest[i] = q[i + 1] /\ i + 1 \in 1 .. Len(q)
      /\ 1 \in 1 .. Len(q)
  BY <1>1, <1>2
<1>5. \A i, j \in 1 .. Len(rest) : rest[i] = rest[j] => i = j
  <2> SUFFICES ASSUME NEW i \in 1 .. Len(rest), NEW j \in 1 .. Len(rest), rest[i] = rest[j] PROVE i = j
    OBVIOUS
  <2>1. i + 1 = j + 1
    BY <1>4 DEF Noted
  <2> QED  BY <2>1, <1>4
<1>6. \A i \in 1 .. Len(rest) : rest[i] # first
  <2> SUFFICES ASSUME NEW i \in 1 .. Len(rest), rest[i] = first PROVE FALSE
    OBVIOUS
  <2>1. i + 1 = 1
    BY <1>3, <1>4 DEF Noted
  <2> QED  BY <2>1, <1>4
<1>7. ToSet(q) = {first} \cup ToSet(rest)
  <2>1. ASSUME NEW x \in ToSet(q) PROVE x \in {first} \cup ToSet(rest)
    <3>1. PICK i \in 1 .. Len(q) : q[i] = x
      BY <1>1 DEF ToSet
    <3>2. CASE i # 1
      <4>1. i - 1 \in 1 .. Len(rest) /\ (i - 1) + 1 = i
        BY <3>2, <1>1, <1>4
      <4>2. rest[i - 1] = x
        BY <3>1, <4>1, <1>4
      <4>3. DOMAIN rest = 1 .. Len(rest)
        BY <1>2
      <4> QED  BY <4>1, <4>2, <4>3 DEF ToSet
    <3> QED  BY <3>1, <3>2, <1>3
  <2>2. first \in ToSet(q)
    BY <1>1, <1>3, <1>4 DEF ToSet
  <2>3. ASSUME NEW x \in ToSet(rest) PROVE x \in ToSet(q)
    <3>1. PICK i \in 1 .. Len(rest) : rest[i] = x
      BY <1>2 DEF ToSet
    <3> QED  BY <3>1, <1>1, <1>4 DEF ToSet
  <2> QED  BY <2>1, <2>2, <2>3
<1>8. first \notin ToSet(rest) /\ first # NoSignal
  BY <1>2, <1>6, QueueAssumption DEF ToSet
<1>9. ids = ToSet(q) /\ ids = {first} \cup ToSet(rest)
  BY <1>7 DEF Noted
<1>10. \A i \in 1 .. Len(rest) : rest[i] # NoSignal
  BY <1>2, QueueAssumption
<1> QED  BY <1>2, <1>3, <1>5, <1>6, <1>8, <1>9, <1>10 DEF Noted

LEMMA NotedDone ==
    ASSUME NEW q, NEW ids, NEW hand, Noted(q, ids, hand), hand # NoSignal
    PROVE  Noted(q, ids \ {hand}, NoSignal)
<1>1. q \in Seq(Signals)
  BY DEF Noted
<1>2. hand \notin ToSet(q)
  BY <1>1 DEF Noted, ToSet
<1>3. \A i \in 1 .. Len(q) : q[i] # NoSignal
  BY <1>1, QueueAssumption
<1> QED  BY <1>2, <1>3 DEF Noted

(* The worker has a signal in hand unless it is idle.                      *)
QueueNoted ==
    /\ Noted(queue, queuedIds, worker.signal) /\ scanner.found \subseteq Signals
    /\ worker.at \in {"idle", "claim", "claimed", "gated"}
    /\ worker.at = "idle" <=> worker.signal = NoSignal

LEMMA NotedAtFirst == QueueInit => QueueNoted
<1> SUFFICES ASSUME QueueInit PROVE QueueNoted
  OBVIOUS
<1>1. queue = <<>> /\ queuedIds = {} /\ worker.signal = NoSignal /\ worker.at = "idle" /\ scanner.found = {}
  BY DEF QueueInit, IdleWorker, IdleScanner
<1>2. queue \in Seq(Signals) /\ Len(queue) = 0 /\ DOMAIN queue = {}
  BY <1>1, EmptySeq
<1>3. queuedIds = ToSet(queue) \cup ({worker.signal} \ {NoSignal})
  BY <1>1, <1>2 DEF ToSet
<1> QED  BY <1>1, <1>2, <1>3 DEF QueueNoted, Noted

(* The worker is done with what it had, and nothing else changes.          *)
LEMMA DoneNoted ==
    ASSUME QueueNoted, worker.at # "idle", ItemDone(worker.signal), queue' = queue, scanner' = scanner
    PROVE  QueueNoted'
<1>1. worker.signal # NoSignal /\ Noted(queue, queuedIds, worker.signal)
  BY DEF QueueNoted
<1>2. Noted(queue, queuedIds \ {worker.signal}, NoSignal)
  BY <1>1, NotedDone
<1>3. worker' = IdleWorker /\ queuedIds' = queuedIds \ {worker.signal}
  BY DEF ItemDone
<1>4. worker'.signal = NoSignal /\ worker'.at = "idle"
  BY <1>3 DEF IdleWorker
<1>5. Noted(queue', queuedIds', worker'.signal)
  BY <1>2, <1>3, <1>4
<1> QED  BY <1>4, <1>5 DEF QueueNoted

(* More is queued, and the worker goes on.                                 *)
LEMMA MoreNoted ==
    ASSUME QueueNoted, NEW found \in SUBSET Signals, EnqueueSignals(found), worker' = worker,
           scanner'.found \subseteq Signals
    PROVE  QueueNoted'
<1>1. Noted(queue \o SetToSeq(found \ queuedIds), queuedIds \cup found, worker.signal)
  BY NotedMore DEF QueueNoted
<1>2. Noted(queue', queuedIds', worker'.signal)
  BY <1>1 DEF EnqueueSignals
<1> QED  BY <1>2 DEF QueueNoted

(* The worker goes on with what it has.                                    *)
LEMMA SameNoted ==
    ASSUME QueueNoted, UNCHANGED <<queue, queuedIds>>, worker'.signal = worker.signal,
           (worker'.at \in {"claim", "claimed", "gated"} /\ worker.at # "idle") \/ worker' = worker,
           scanner'.found \subseteq Signals
    PROVE  QueueNoted'
BY DEF QueueNoted

LEMMA QueueStepNoted ==
    ASSUME QueueInv, QueueNoted, QueueStep \/ ScanStep \/ RowChanges
    PROVE  QueueNoted'
<1>0. scanner.found \subseteq Signals
  BY DEF QueueNoted
<1>1. CASE TakeItem
  <2>1. /\ worker.at = "idle" /\ queue # <<>> /\ queue' = Tail(queue) /\ scanner' = scanner
    BY <1>1 DEF TakeItem
  <2>2. Noted(queue, queuedIds, NoSignal)
    BY <2>1 DEF QueueNoted
  <2>3. /\ Head(queue) \in Signals /\ Noted(Tail(queue), queuedIds, Head(queue))
        /\ Noted(Tail(queue), queuedIds \ {Head(queue)}, NoSignal)
    BY <2>1, <2>2, NotedTaken
  <2>4. CASE worker' = [IdleWorker EXCEPT !.at = "claim", !.signal = Head(queue)] /\ queuedIds' = queuedIds
    <3>1. worker'.at = "claim" /\ worker'.signal = Head(queue)
      BY <2>4 DEF IdleWorker
    <3>2. worker'.signal # NoSignal
      BY <2>3, <3>1, QueueAssumption
    <3> QED  BY <1>0, <2>1, <2>3, <2>4, <3>1, <3>2 DEF QueueNoted
  <2>5. CASE ItemDone(Head(queue))
    <3>1. worker' = IdleWorker /\ queuedIds' = queuedIds \ {Head(queue)}
      BY <2>5 DEF ItemDone
    <3>2. worker'.at = "idle" /\ worker'.signal = NoSignal
      BY <3>1 DEF IdleWorker
    <3> QED  BY <1>0, <2>1, <2>3, <3>1, <3>2 DEF QueueNoted
  <2> QED  BY <1>1, <2>4, <2>5 DEF TakeItem
<1>2. CASE ClaimSignal
  <2>1. worker.at = "claim" /\ queue' = queue /\ scanner' = scanner
    BY <1>2 DEF ClaimSignal
  <2>2. CASE ItemDone(worker.signal)
    BY <2>1, <2>2, DoneNoted
  <2>3. CASE worker' = [worker EXCEPT !.at = "claimed"] /\ queuedIds' = queuedIds
    <3>1. worker'.at = "claimed" /\ worker'.signal = worker.signal
      BY <2>3 DEF QueueInv
    <3> QED  BY <1>0, <2>1, <2>3, <3>1, SameNoted
  <2> QED  BY <1>2, <2>2, <2>3 DEF ClaimSignal
<1>3. CASE Submit
  <2>1. worker.at = "gated" /\ ItemDone(worker.signal) /\ queue' = queue /\ scanner' = scanner
    BY <1>3 DEF Submit
  <2> QED  BY <2>1, DoneNoted
<1>4. CASE SubmissionRefused
  <2>1. worker.at = "gated" /\ ItemDone(worker.signal) /\ queue' = queue /\ scanner' = scanner
    BY <1>4 DEF SubmissionRefused
  <2> QED  BY <2>1, DoneNoted
<1>5. ASSUME NEW aged \in SUBSET Recorded, ScanReads(aged) PROVE QueueNoted'
  <2>1. scanner'.found \subseteq Signals /\ UNCHANGED <<queue, queuedIds, worker>>
    BY <1>5 DEF ScanReads
  <2> QED  BY <2>1, SameNoted
<1>6. CASE ScanEnqueues
  <2>1. EnqueueSignals(scanner.found) /\ worker' = worker /\ scanner'.found = {}
    BY <1>6 DEF ScanEnqueues, IdleScanner
  <2> QED  BY <1>0, <2>1, MoreNoted
<1>7. CASE RowChanges
  <2>1. UNCHANGED <<queue, queuedIds, worker, scanner>>
    BY <1>7 DEF RowChanges
  <2> QED  BY <1>0, <2>1, SameNoted
<1> QED  BY <1>1, <1>2, <1>3, <1>4, <1>5, <1>6, <1>7 DEF QueueStep, ScanStep

LEMMA QueueStaysNoted ==
    ASSUME QueueInv, QueueNoted, [LiveQueueNext]_<<engineVars, queueVars>>
    PROVE  QueueNoted'
<1>0. scanner.found \subseteq Signals
  BY DEF QueueNoted
<1>1. CASE QueueStep \/ ScanStep \/ RowChanges
  BY <1>1, QueueStepNoted
<1>2. ASSUME NEW s \in Signals, NEW pushed \in BOOLEAN, SignalRecorded(s, pushed) PROVE QueueNoted'
  <2>1. worker' = worker /\ scanner' = scanner
        /\ (EnqueueSignals({s}) \/ UNCHANGED <<queue, queuedIds>>)
    BY <1>2 DEF SignalRecorded
  <2>2. {s} \in SUBSET Signals
    OBVIOUS
  <2> QED  BY <1>0, <2>1, <2>2, MoreNoted, SameNoted
<1>3. ASSUME NEW g, CheckGate(g) PROVE QueueNoted'
  <2>1. worker.at = "claimed" /\ queue' = queue /\ scanner' = scanner
    BY <1>3 DEF CheckGate
  <2>2. CASE ItemDone(worker.signal)
    BY <2>1, <2>2, DoneNoted
  <2>3. CASE /\ worker' = [worker EXCEPT !.at = "gated", !.config = g.config, !.version = row.version]
             /\ queuedIds' = queuedIds
    <3>1. worker'.at = "gated" /\ worker'.signal = worker.signal
      BY <2>3 DEF QueueInv
    <3> QED  BY <1>0, <2>1, <2>3, <3>1, SameNoted
  <2> QED  BY <1>3, <2>2, <2>3 DEF CheckGate
<1>4. ASSUME NEW c \in Callers, SweepOlder(c) PROVE QueueNoted'
  <2>1. UNCHANGED <<queue, queuedIds, worker, scanner>>
    BY <1>4 DEF SweepOlder
  <2> QED  BY <1>0, <2>1, SameNoted
<1>5. CASE LiveRestarts
  <2>1. queue' = <<>> /\ queuedIds' = {} /\ scanner' = IdleScanner /\ worker' = IdleWorker
    BY <1>5 DEF LiveRestarts
  <2>2. worker'.signal = NoSignal /\ worker'.at = "idle" /\ scanner'.found = {}
    BY <2>1 DEF IdleWorker, IdleScanner
  <2>3. <<>> \in Seq(Signals) /\ Len(<<>>) = 0 /\ ToSet(<<>>) = {}
    BY EmptySeq DEF ToSet
  <2>4. Noted(<<>>, {}, NoSignal)
    BY <2>3 DEF Noted
  <2> QED  BY <2>1, <2>2, <2>4 DEF QueueNoted
<1>6. CASE UNCHANGED queueVars
  <2>1. UNCHANGED <<queue, queuedIds, worker, scanner>>
    BY <1>6 DEF queueVars
  <2> QED  BY <1>0, <2>1, SameNoted
<1> QED  BY <1>1, <1>2, <1>3, <1>4, <1>5, <1>6 DEF LiveQueueNext

LEMMA QueueTypes == QueueInv /\ QueueNoted => QueueTypeOK
BY DEF QueueInv, QueueNoted, Noted, SignalRow, SignalStatuses, QueueTypeOK

(* What is queued or in hand is noted, and queued once: for any signals,   *)
(* pushes and scans that overlap, and restarts.                            *)
THEOREM QueueTyped == LiveQueueSpec => []QueueTypeOK
<1>1. EngineRunning /\ QueueInit => EngineInv /\ QueueInv /\ QueueNoted
  BY RunningSound, QueueInitSound, NotedAtFirst
<1>2. EngineInv /\ QueueInv /\ QueueNoted /\ [LiveQueueNext]_<<engineVars, queueVars>>
        => EngineInv' /\ QueueInv' /\ QueueNoted'
  BY LiveQueueKeeps, QueueStaysNoted
<1> QED  BY <1>1, <1>2, QueueTypes, PTL DEF LiveQueueSpec
=============================================================================
