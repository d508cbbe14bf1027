------------------------------ MODULE LiveServices ------------------------------
(***************************************************************************)
(* The services around a buy: the approval of the chain, the engine and    *)
(* its queue, the dynamic signals with their budget, and the reconciler    *)
(* that settles the order.                                                 *)
(*                                                                         *)
(* What reads each other's state is composed: the engine with the approval,*)
(* the queue with both.  Where only the order of one group's steps matters,*)
(* the others stand still: a behaviour has one scene.                      *)
(***************************************************************************)
EXTENDS LiveQueue, DynamicSignals, OrderReconciliation

CONSTANT Meant      \* what the posts of the spending scene have been resolved to

(* ... under any of the live settings, by some state of the index.         *)
ASSUME MeantAssumption ==
    \A p \in Posts, g \in {c \in Configurations : c.mode = "live" /\ c.enabled} :
        \E index \in [Tokens -> {"absent", "listed", "tradable"}],
           answers \in [Tokens -> {"failed", "tradable", "untradable", "unknown"}] :
              Resolve(p, g, index, answers) = [status |-> "resolved", token |-> Meant[p]]

VARIABLE scene

liveVars == <<approvalVars, engineVars, queueVars>>
liveServicesVars == <<scene, liveVars, dynamicVars, reconcilerVars>>

Scenes == {"approval", "engine", "queue", "resolution", "spending", "orders"}

ServicesInit ==
    /\ scene \in Scenes
    /\ ApprovalInit(scene # "approval")
    /\ IF scene = "queue" THEN EngineRunning
       ELSE EngineInit(IF scene = "approval" THEN 1 ELSE MaxChanges)
    /\ QueueInit
    /\ IF scene = "spending" THEN SpendingInit(Meant) ELSE DynamicInit
    /\ scene \notin {"resolution", "spending"} =>
          policy.config = CHOOSE c \in Configurations : TRUE
    /\ ReconcilerInit
    /\ scene # "orders" => sort = CHOOSE s \in Sorts : TRUE

-----------------------------------------------------------------------------
(* The engine that the approval asks to be stopped, and whose buys it counts.*)
ApprovalScene ==
    /\ scene = "approval"
    /\ \/ ApprovalStep(control.status = "stopped", armed) /\ UNCHANGED engineVars
       \/ (EngineStep \/ Sweep("confirm")) /\ UNCHANGED approvalVars
    /\ UNCHANGED queueVars

(* An approved chain, and no signals.                                      *)
EngineScene == scene = "engine" /\ LiveEngineNext /\ UNCHANGED <<approvalVars, queueVars>>

(* A running engine, with one change to come.                              *)
QueueScene == scene = "queue" /\ LiveQueueNext /\ UNCHANGED approvalVars

DynamicScene ==
    \/ scene = "resolution" /\ (PolicyStep \/ ResolutionStep)
    \/ scene = "spending" /\ (PolicyStep \/ SpendingStep)

ServicesNext ==
    /\ scene' = scene
    /\ \/ (ApprovalScene \/ EngineScene \/ QueueScene) /\ UNCHANGED <<dynamicVars, reconcilerVars>>
       \/ DynamicScene /\ UNCHANGED <<liveVars, reconcilerVars>>
       \/ scene = "orders" /\ ReconcilerNext /\ UNCHANGED <<liveVars, dynamicVars>>

(* Timers fire, and the workers of queue and jobs go on.  Calls of the     *)
(* engine return; the queue's scene does without that.                     *)
Fairness ==
    /\ \A c \in Callers :
          WF_engineVars(scene = "engine" /\ (Sweep(c) \/ Save(c) \/ CallReturns(c)))
    /\ WF_engineVars(scene = "engine" /\ RestoreStep)
    /\ \A t \in Ticks : WF_engineVars(scene = "engine" /\ MonitorStep(t))
    /\ WF_queueVars(scene = "queue" /\ (QueueStep \/ \E g \in {gate, GetSnapshot} : CheckGate(g)))
    /\ WF_queueVars(scene = "queue" /\ ScanStep)
    /\ \A w \in Resolvers : WF_dynamicVars(scene = "resolution" /\ ResolverStep(w))
    /\ \A p \in Posts : WF_dynamicVars(scene = "resolution" /\ ~Working(p) /\ LeaseLapses(p))
    /\ WF_dynamicVars(scene = "resolution" /\ ListerStep)
    /\ WF_reconcilerVars(scene = "orders" /\ ReconcilerStep("batch"))
    /\ WF_reconcilerVars(scene = "orders" /\ ClaimLapses)

LiveServicesSpec == ServicesInit /\ [][ServicesNext]_liveServicesVars /\ Fairness

-----------------------------------------------------------------------------
LiveServicesTypeOK ==
    scene \in Scenes /\ ApprovalTypeOK /\ EngineTypeOK /\ QueueTypeOK /\ DynamicTypeOK
    /\ ReconcilerTypeOK

(* A pause of the engine ends once its cause is gone, with no operator: the*)
(* monitor resumes the engine or faults it (ReadinessMonitor; the queue's  *)
(* scene runs without it).                                                 *)
PauseEnds ==
    <>[](scene = "engine" /\ conditions = {}) => []<>(control.status # "paused_transient")
=============================================================================
