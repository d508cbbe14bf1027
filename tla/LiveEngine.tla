------------------------------ MODULE LiveEngine ------------------------------
(***************************************************************************)
(* Whether the program may buy for real: the engine's state, in memory and *)
(* in its row (engine-state.js), the readiness snapshot and the gate that  *)
(* keeps the last one (readiness-service.js, execution-gate-service.js),   *)
(* and what turns the engine on and off: the operator's prepare and        *)
(* confirm (arm-preparation-service.js) and stop, changes of the settings  *)
(* (system and config routes), the readiness monitor, and the recovery     *)
(* after a restart (server.js).                                            *)
(*                                                                         *)
(* A call of the engine computes the state it will leave when it begins,   *)
(* saves it, and has effect in memory when the save has returned; calls of *)
(* different callers overlap.  `caller` holds the call, or the snapshot,   *)
(* each of them is waiting for.  A fingerprint is the configuration it is  *)
(* taken of, and time is the number of calls of arm so far.                *)
(***************************************************************************)
EXTENDS LiveApproval

CONSTANTS
    Configs,        \* configurations, as the fingerprint tells them apart
    Conditions,     \* blockers that come from outside of this module
    Preparations,   \* arm_preparations
    Ticks,          \* overlapping runs of the readiness monitor
    HealthyChecks,  \* ready snapshots before a paused engine resumes (code: 3)
    MaxChanges      \* bound: changes of settings and conditions, restarts, orders to stop

Operators == {"stop", "settings", "confirm", "restore"}
Callers == Operators \cup Ticks
NoConfig == "none"

ASSUME EngineAssumption ==
    /\ NoConfig \notin Configs /\ Configs # {} /\ Ticks \cap Operators = {}
    /\ HealthyChecks \in Nat /\ MaxChanges \in Nat

VARIABLES
    config, disk,   \* the configuration in effect, and the one of the next start
    conditions,     \* the blockers that hold now
    control,        \* engine-state.js, state
    armed, armedAt, \* ... isArmed and armedAt
    saved,          \* trade_runtime_state, live_engine_control
    gate,           \* ExecutionGateService.current
    healthy,        \* ReadinessMonitor.healthyCount
    preparation,
    caller,
    now,
    revoked,        \* history: stopped or faulted for good, and nobody else about
    confirmed,      \* history: configurations the operator confirmed
    changes

engineVars == <<config, disk, conditions, control, armed, armedAt, saved, gate, healthy,
                preparation, caller, now, revoked, confirmed, changes>>
world == <<config, disk, conditions, changes>>

-----------------------------------------------------------------------------
(* State.                                                                  *)

TransientBlockers == {"X_6551_INGESTION_UNHEALTHY", "GMGN_SCHEDULER_NOT_HEALTHY",
                      "GMGN_RECENT_429", "FAST_PATH_WARMER_SYSTEM_FAILURE"}
Statuses == {"stopped", "recovering", "running", "paused_transient", "fault_protected"}

FirstConfig == CHOOSE c \in Configs : TRUE     \* which one does not matter
NoSnapshot == [config |-> NoConfig, blockers |-> {"NONE"}, armed |-> FALSE]
Stopped == [desired |-> FALSE, status |-> "stopped", fingerprint |-> NoConfig]
Waiting == [at |-> "idle", snapshot |-> NoSnapshot, next |-> Stopped, arms |-> FALSE,
            begun |-> 0, then |-> "none", for |-> "none"]

(* The engine at its first start, with so many changes to come.            *)
EngineInit(tocome) ==
    /\ config = FirstConfig /\ disk = config
    /\ conditions = {}
    /\ control = Stopped /\ saved = Stopped
    /\ armed = FALSE /\ armedAt = 0
    /\ gate = NoSnapshot
    /\ healthy = 0
    /\ preparation = [p \in Preparations |-> [status |-> "none", config |-> NoConfig]]
    /\ caller = [c \in Callers |-> Waiting]
    /\ now = 0 /\ revoked = FALSE /\ confirmed = {} /\ changes = MaxChanges - tocome

(* The engine as a first confirmation has left it, with one change to come.*)
EngineRunning ==
    /\ config = FirstConfig /\ disk = config
    /\ conditions = {}
    /\ control = [desired |-> TRUE, status |-> "running", fingerprint |-> config] /\ saved = control
    /\ armed = TRUE /\ armedAt = 1
    /\ gate = [config |-> config, blockers |-> {}, armed |-> FALSE]
    /\ healthy = 0
    /\ preparation = [p \in Preparations |-> [status |-> "prepared", config |-> config]]
    /\ caller = [c \in Callers |-> Waiting]
    /\ now = 1 /\ revoked = FALSE /\ confirmed = {config} /\ changes = MaxChanges - 1

Change == changes < MaxChanges /\ changes' = changes + 1

-----------------------------------------------------------------------------
(* The readiness snapshot.                                                 *)

(* contract_tested and the approval of the chain, and the rows of the live *)
(* policy.                                                                 *)
ContractTested == (probe.valid /\ probe.context = context) \/ (chain.approved /\ chain.tested)
ChainReady == ContractTested /\ (chain.approved \/ ScopeOpen)

Blockers ==
    conditions
        \cup {b \in {"LIVE_ACCEPTANCE_SCOPE_EXPIRED"} : scope.status = "active" /\ scope.expired}
        \cup {b \in {"LIVE_POLICY_EMPTY"} : ~PolicyTradesRow}
        \cup {b \in {"NO_LIVE_CHAIN_READY"} : ~(ChainReady /\ PolicyTradesRow)}
        \cup {b \in {"LIVE_CONFIGURATION_CHANGED"} : armed /\ control.fingerprint # config}

GetSnapshot == [config |-> config, blockers |-> Blockers, armed |-> armed]
ReadyToArm(s) == s.blockers = {}
TransientOnly(s) == s.blockers # {} /\ s.blockers \subseteq TransientBlockers

(* The snapshot is published to the gate when it is complete, which is     *)
(* some time after it was read.                                            *)
Reading(c, at) == caller[c].at = at /\ gate' = caller[c].snapshot

-----------------------------------------------------------------------------
(* Calls of the engine.                                                    *)

Armed(fingerprint) == [desired |-> TRUE, status |-> "running", fingerprint |-> fingerprint]
Faulted(preserveIntent) ==
    [control EXCEPT !.desired = preserveIntent /\ @, !.status = "fault_protected"]
Halted == [control EXCEPT !.desired = FALSE, !.status = "stopped"]
Paused == [control EXCEPT !.status = "paused_transient"]

Call(c, next, then) ==
    caller' = [caller EXCEPT ![c] = [Waiting EXCEPT !.at = "save", !.next = next, !.then = then]]
Idle(c) == caller' = [caller EXCEPT ![c] = Waiting]

(* arm: the signals of before are put aside first (LiveQueue)              *)
CallArm(c, fingerprint, then, for) ==
    /\ caller' = [caller EXCEPT ![c] = [Waiting EXCEPT !.at = "sweep", !.arms = TRUE,
                     !.next = Armed(fingerprint), !.begun = now + 1, !.then = then, !.for = for]]
    /\ now' = now + 1

(* Slip: an engine that is stopped can be paused.                          *)
PauseWhatever(c) ==
    Call(c, [control EXCEPT !.desired = TRUE, !.status = "paused_transient"], "none")

PauseTransient(c) ==
    IF control.desired /\ control.status # "stopped" THEN Call(c, Paused, "none") ELSE Idle(c)

(* Slip: the configuration in effect is taken for the confirmed one. *)
RecoverWhateverConfig(c, s) ==
    IF ~control.desired \/ control.status # "paused_transient"
    THEN Call(c, Faulted(TRUE), "none") /\ UNCHANGED now
    ELSE CallArm(c, s.config, "none", "none")

(* A configuration that changed while the engine was paused is a fault for *)
(* good, and the error makes the monitor report another fault.             *)
RecoverTransient(c, s) ==
    IF ~control.desired \/ control.status # "paused_transient"
    THEN Call(c, Faulted(TRUE), "none") /\ UNCHANGED now
    ELSE IF control.fingerprint # s.config
    THEN Call(c, Faulted(FALSE), "fault") /\ UNCHANGED now
    ELSE CallArm(c, s.config, "none", "none")

Sweep(c) ==
    /\ caller[c].at = "sweep"
    /\ caller' = [caller EXCEPT ![c].at = "save"]
    /\ UNCHANGED <<world, control, armed, armedAt, saved, gate, healthy, preparation,
                   now, revoked, confirmed>>

Save(c) ==
    /\ caller[c].at = "save"
    /\ saved' = caller[c].next
    /\ caller' = [caller EXCEPT ![c].at = "saved"]
    /\ UNCHANGED <<world, control, armed, armedAt, gate, healthy, preparation,
                   now, revoked, confirmed>>

(* Nobody but c, and monitors that are still reading, is about to act.     *)
Alone(c) ==
    \A d \in Callers \ {c} :
        caller[d].at = "idle" \/ (d \in Ticks /\ caller[d].at = "read")

CallReturns(c) ==
    LET call == caller[c] IN
    /\ call.at = "saved"
    /\ control' = call.next
    /\ armed' = call.arms
    /\ armedAt' = IF call.arms THEN call.begun ELSE 0
    /\ revoked' = (revoked \/ (~call.next.desired /\ saved = call.next /\ Alone(c)))
    /\ caller' = [caller EXCEPT ![c] =
          CASE call.then = "fault" -> [Waiting EXCEPT !.at = "save",
                                          !.next = [call.next EXCEPT !.status = "fault_protected"]]
            [] call.then = "consume" -> [Waiting EXCEPT !.at = "consume", !.for = call.for]
            [] call.then = "configure" -> [Waiting EXCEPT !.at = "configure", !.for = call.for]
            [] OTHER -> Waiting]
    /\ healthy' = IF c \in Ticks /\ call.arms THEN 0 ELSE healthy
    /\ UNCHANGED <<world, saved, gate, preparation, now, confirmed>>

-----------------------------------------------------------------------------
(* The operator.                                                           *)

Stop ==
    /\ caller["stop"].at = "idle" /\ Change
    /\ Call("stop", Halted, "none")
    /\ UNCHANGED <<config, disk, conditions, control, armed, armedAt, saved, gate, healthy,
                   preparation, now, revoked, confirmed>>

Prepare(p) ==
    /\ preparation[p].status = "none" /\ ReadyToArm(GetSnapshot)
    /\ preparation' = [preparation EXCEPT ![p] = [status |-> "prepared", config |-> config]]
    /\ gate' = GetSnapshot
    /\ UNCHANGED <<world, control, armed, armedAt, saved, healthy, caller, now, revoked, confirmed>>

PreparationExpires(p) ==
    /\ preparation[p].status = "prepared"
    /\ preparation' = [preparation EXCEPT ![p].status = "expired"]
    /\ UNCHANGED <<world, control, armed, armedAt, saved, gate, healthy, caller, now,
                   revoked, confirmed>>

Confirm(p) ==
    /\ caller["confirm"].at = "idle" /\ preparation[p].status = "prepared"
    /\ caller' = [caller EXCEPT !["confirm"] =
                    [Waiting EXCEPT !.at = "read", !.snapshot = GetSnapshot, !.for = p]]
    /\ UNCHANGED <<world, control, armed, armedAt, saved, gate, healthy, preparation, now,
                   revoked, confirmed>>

(* The row is locked, judged against the snapshot taken before, and marked *)
(* before the engine is armed.                                             *)
LockPreparation ==
    LET p == caller["confirm"].for
        s == caller["confirm"].snapshot
    IN
    /\ Reading("confirm", "read")
    /\ \/ /\ preparation[p].status # "prepared"
          /\ Idle("confirm")
          /\ UNCHANGED <<preparation, now, confirmed, revoked>>
       \/ /\ preparation[p].status = "prepared"
          /\ ~ReadyToArm(s) \/ s.config # preparation[p].config
          /\ preparation' = [preparation EXCEPT ![p].status = "stale"]
          /\ Idle("confirm")
          /\ UNCHANGED <<now, confirmed, revoked>>
       \/ /\ preparation[p].status = "prepared"
          /\ ReadyToArm(s) /\ s.config = preparation[p].config
          /\ preparation' = [preparation EXCEPT ![p].status = "arming"]
          /\ CallArm("confirm", s.config, "consume", p)
          /\ confirmed' = confirmed \cup {s.config}
          /\ revoked' = FALSE
    /\ UNCHANGED <<world, control, armed, armedAt, saved, healthy>>

ConsumePreparation ==
    /\ caller["confirm"].at = "consume"
    /\ preparation' = [preparation EXCEPT ![caller["confirm"].for].status = "consumed"]
    /\ Idle("confirm")
    /\ UNCHANGED <<world, control, armed, armedAt, saved, gate, healthy, now, revoked, confirmed>>

-----------------------------------------------------------------------------
(* Settings: impactForKeys and the routes that change the configuration.   *)

SettingsChange(c) ==
    /\ caller["settings"].at = "idle" /\ c # config /\ Change
    /\ \/ /\ config' = c /\ disk' = c                                \* a chain's configuration
          /\ Call("settings", Faulted(FALSE), "none")
       \/ /\ disk' = c /\ UNCHANGED config                           \* keys that ask for a restart
          /\ Call("settings", Faulted(FALSE), "none")
       \/ config' = c /\ disk' = c /\ UNCHANGED caller               \* an RPC or a fee reserve
       \/ /\ caller' = [caller EXCEPT !["settings"] = [Waiting EXCEPT !.at = "save",
                           !.next = Faulted(FALSE), !.then = "configure", !.for = c]]
          /\ UNCHANGED <<config, disk>>                              \* the retry switch
       \/ PauseTransient("settings") /\ UNCHANGED <<config, disk>>   \* the monitoring token
    /\ UNCHANGED <<conditions, control, armed, armedAt, saved, gate, healthy, preparation, now,
                   revoked, confirmed>>

RetryConfigured ==
    /\ caller["settings"].at = "configure"
    /\ config' = caller["settings"].for /\ disk' = config'
    /\ Idle("settings")
    /\ UNCHANGED <<conditions, changes, control, armed, armedAt, saved, gate, healthy,
                   preparation, now, revoked, confirmed>>

ConditionsChange(blockers) ==
    /\ blockers # conditions /\ Change
    /\ conditions' = blockers
    /\ UNCHANGED <<config, disk, control, armed, armedAt, saved, gate, healthy, preparation,
                   caller, now, revoked, confirmed>>

-----------------------------------------------------------------------------
(* The readiness monitor (checkOnce).                                      *)

PausedFor == control.status = "paused_transient" /\ control.desired

(* Slip: only an armed engine is watched. *)
TickReadsArmed(t) ==
    /\ caller[t].at = "idle" /\ armed
    /\ caller' = [caller EXCEPT ![t] = [Waiting EXCEPT !.at = "read", !.snapshot = GetSnapshot,
                     !.for = "running"]]
    /\ UNCHANGED <<world, control, armed, armedAt, saved, gate, healthy, preparation, now,
                   revoked, confirmed>>

TickReads(t) ==
    /\ caller[t].at = "idle" /\ (armed \/ PausedFor)
    /\ caller' = [caller EXCEPT ![t] = [Waiting EXCEPT !.at = "read", !.snapshot = GetSnapshot,
                     !.for = IF PausedFor THEN "paused" ELSE "running"]]
    /\ UNCHANGED <<world, control, armed, armedAt, saved, gate, healthy, preparation, now,
                   revoked, confirmed>>

TickSkips(t) ==
    /\ caller[t].at = "idle" /\ ~(armed \/ PausedFor) /\ healthy # 0
    /\ healthy' = 0
    /\ UNCHANGED <<world, control, armed, armedAt, saved, gate, preparation, caller, now,
                   revoked, confirmed>>

(* The snapshot cannot be made. *)
TickFails(t) ==
    /\ caller[t].at = "read"
    /\ Call(t, Faulted(TRUE), "none")
    /\ UNCHANGED <<world, control, armed, armedAt, saved, gate, healthy, preparation, now,
                   revoked, confirmed>>

TickActs(t) ==
    LET s == caller[t].snapshot
        paused == caller[t].for = "paused"
    IN
    /\ Reading(t, "read")
    /\ \/ ReadyToArm(s) /\ ~paused /\ Idle(t) /\ UNCHANGED <<healthy, now>>
       \/ /\ ReadyToArm(s) /\ paused /\ healthy + 1 < HealthyChecks
          /\ healthy' = healthy + 1 /\ Idle(t) /\ UNCHANGED now
       \/ /\ ReadyToArm(s) /\ paused /\ healthy + 1 >= HealthyChecks
          /\ healthy' = healthy + 1 /\ RecoverTransient(t, s)
       \/ /\ TransientOnly(s) /\ healthy' = 0 /\ UNCHANGED now
          /\ IF paused THEN Idle(t) ELSE PauseTransient(t)
       \/ /\ s.blockers # {} /\ ~TransientOnly(s)
          /\ healthy' = 0 /\ UNCHANGED now
          /\ Call(t, Faulted(TRUE), "none")
    /\ UNCHANGED <<world, control, armed, armedAt, saved, preparation, revoked, confirmed>>

-----------------------------------------------------------------------------
(* A restart: init, and once the other services run restoreDesiredState.   *)

EngineRestarts ==
    LET kept == [saved EXCEPT !.status = IF saved.desired THEN "recovering" ELSE "stopped"] IN
    /\ Change
    /\ control' = kept /\ saved' = kept
    /\ armed' = FALSE /\ armedAt' = 0 /\ gate' = NoSnapshot /\ healthy' = 0
    /\ config' = disk
    /\ caller' = [c \in Callers |-> IF c = "restore" /\ kept.desired
                                    THEN [Waiting EXCEPT !.at = "start"] ELSE Waiting]
    /\ UNCHANGED <<disk, conditions, preparation, now, revoked, confirmed>>

RestoreReads ==
    /\ caller["restore"].at \in {"start", "again"}
    /\ IF caller["restore"].at = "start" /\ ~control.desired
       THEN Idle("restore")
       ELSE caller' = [caller EXCEPT !["restore"] =
                         [Waiting EXCEPT !.at = "read", !.snapshot = GetSnapshot]]
    /\ UNCHANGED <<world, control, armed, armedAt, saved, gate, healthy, preparation, now,
                   revoked, confirmed>>

(* After sixteen snapshots that blame temporary conditions only the engine *)
(* is paused; what the operator did meanwhile is not looked at.            *)
RestoreActs ==
    LET s == caller["restore"].snapshot IN
    /\ Reading("restore", "read")
    /\ \/ /\ TransientOnly(s) /\ UNCHANGED now
          /\ caller' = [caller EXCEPT !["restore"] = [Waiting EXCEPT !.at = "again"]]
       \/ TransientOnly(s) /\ PauseTransient("restore") /\ UNCHANGED now
       \/ /\ s.blockers # {} /\ ~TransientOnly(s)
          /\ Call("restore", Faulted(TRUE), "none") /\ UNCHANGED now
       \/ /\ ReadyToArm(s) /\ control.fingerprint # s.config
          /\ Call("restore", Faulted(FALSE), "none") /\ UNCHANGED now
       \/ /\ ReadyToArm(s) /\ control.fingerprint = s.config
          /\ CallArm("restore", s.config, "none", "none")
    /\ UNCHANGED <<world, control, armed, armedAt, saved, healthy, preparation, revoked, confirmed>>

-----------------------------------------------------------------------------
MonitorStep(t) == TickReads(t) \/ TickSkips(t) \/ TickFails(t) \/ TickActs(t)
CallStep == \E c \in Callers : Save(c) \/ CallReturns(c)
RestoreStep == RestoreReads \/ RestoreActs
OperatorStep ==
    \/ Stop \/ LockPreparation \/ ConsumePreparation
    \/ \E p \in Preparations : Prepare(p) \/ PreparationExpires(p) \/ Confirm(p)
SettingsStep == RetryConfigured \/ \E c \in Configs : SettingsChange(c)
ConditionsStep == \E blockers \in SUBSET Conditions : ConditionsChange(blockers)

(* Everything but the settings, the sweep of arm and the restart, which    *)
(* reach the queue.                                                        *)
EngineStep == CallStep \/ RestoreStep \/ OperatorStep

LiveEngineNext ==
    \/ EngineStep \/ SettingsStep \/ ConditionsStep \/ EngineRestarts
    \/ \E c \in Callers : Sweep(c)
    \/ \E t \in Ticks : MonitorStep(t)

(* The engine beside an approval that goes its own way.                    *)
LiveEngineSpec == EngineInit(MaxChanges) /\ [][LiveEngineNext]_engineVars

-----------------------------------------------------------------------------
EngineTypeOK ==
    /\ {config, disk} \subseteq Configs
    /\ \A s \in {control, saved} :
          s.desired \in BOOLEAN /\ s.status \in Statuses /\ s.fingerprint \in Configs \cup {NoConfig}
    /\ armed \in BOOLEAN /\ armedAt \in 0 .. now
    /\ healthy \in Nat
    /\ \A c \in Callers : caller[c].at \in {"idle", "start", "again", "read", "sweep", "save",
                                            "saved", "consume", "configure"}

(* The engine buys only under a configuration the operator has confirmed,  *)
(* whoever turned it on: the operator, the monitor or a restart.           *)
ArmedAsConfirmed == armed => control.fingerprint \in confirmed

(* P17, section 5.1: an engine that was stopped, or whose configuration    *)
(* was changed under it, with no call of anybody else under way, stays     *)
(* stopped, across restarts, until the operator confirms again.            *)
StopHolds == revoked => ~armed /\ ~saved.desired
=============================================================================
