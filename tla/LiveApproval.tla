----------------------------- MODULE LiveApproval -----------------------------
(***************************************************************************)
(* How a chain comes to be traded for real: a probe of its contracts and   *)
(* wallet leaves evidence (readiness-service.js, runDiagnostic), an        *)
(* acceptance scope lets one whitelist row trade for a while, the buy and  *)
(* the sale made meanwhile leave evidence of their own                     *)
(* (manual-e2e-evidence.js), and on both the chain is approved             *)
(* (live-approval-service.js).  One chain, and one row that trades on it.  *)
(*                                                                         *)
(* The hash of a contract context is the context itself.  Every service    *)
(* here asks first that the engine is stopped, and reads several tables    *)
(* before it writes: `desk` is the request being served, between its       *)
(* reads and its write.                                                    *)
(***************************************************************************)
EXTENDS Integers

CONSTANTS
    Contexts,       \* contract contexts: the row's terms and the chain's settings
    MaxScopes,      \* bound: acceptance scopes ever opened
    MaxProbes       \* bound: probes and changes of the context

ASSUME ApprovalAssumption == Contexts # {} /\ MaxScopes \in Nat /\ MaxProbes \in Nat

VARIABLES
    context,        \* contractContext of the row as it is now
    chain,          \* chain_live_readiness: contract_tested, live_enabled
    probe,          \* the last passed contract probe (chain_readiness_evidence)
    scope,          \* the last acceptance scope
    completed,      \* the last completed one
    trades,         \* the scopes a full buy and sale were recorded in; 0 for none
    held,           \* whether the row has an open position
    desk,
    approvedBy,     \* history: the scope the approval rests on
    probes

approvalVars == <<context, chain, probe, scope, completed, trades, held, desk,
                  approvedBy, probes>>

-----------------------------------------------------------------------------
NoProbe == [context |-> CHOOSE c \in Contexts : TRUE, valid |-> FALSE]
NoScope == [id |-> 0, status |-> "none", context |-> NoProbe.context,
            expired |-> FALSE, valid |-> FALSE]
FreeDesk == [step |-> "free", context |-> NoProbe.context, scope |-> NoScope]

(* A chain migration 016 has approved for its trading history, or one that *)
(* is still to be approved.                                                *)
ApprovalInit(approved) ==
    /\ context = NoProbe.context
    /\ chain = [tested |-> approved, approved |-> approved]
    /\ probe = [NoProbe EXCEPT !.valid = approved]
    /\ scope = NoScope /\ completed = NoScope /\ trades = {} /\ held = FALSE
    /\ desk = FreeDesk /\ approvedBy = 0 /\ probes = 0

ScopeOpen == scope.status = "active" /\ ~scope.expired

(* resolveActiveWhitelistIds: the rows the live policy trades              *)
PolicyTradesRow == IF scope.status = "active" THEN ScopeOpen ELSE chain.approved

(* finalProductionAuthorization, in the transaction of the submission      *)
SubmissionAllowed ==
    IF scope.status = "active" THEN ScopeOpen /\ scope.context = context ELSE chain.approved

-----------------------------------------------------------------------------
(* Probes: what is read before the provider is asked is what is recorded.  *)

MayProbe == desk.step = "free" /\ probes < MaxProbes

RunDiagnostic ==
    /\ MayProbe
    /\ desk' = [FreeDesk EXCEPT !.step = "probe", !.context = context]
    /\ probes' = probes + 1
    /\ UNCHANGED <<context, chain, probe, scope, completed, trades, held, approvedBy>>

PersistContractProbeEvidence(passed) ==
    /\ desk.step = "probe"
    /\ chain' = [chain EXCEPT !.tested = passed]
    /\ probe' = IF passed THEN [context |-> desk.context, valid |-> TRUE] ELSE probe
    /\ desk' = FreeDesk
    /\ UNCHANGED <<context, scope, completed, trades, held, approvedBy, probes>>

(* 24 hours, or a new version of the code                                  *)
EvidenceExpires ==
    /\ probe.valid
    /\ probe' = [probe EXCEPT !.valid = FALSE]
    /\ scope' = [scope EXCEPT !.valid = FALSE]
    /\ completed' = [completed EXCEPT !.valid = FALSE]
    /\ UNCHANGED <<context, chain, trades, held, desk, approvedBy, probes>>

ChangeContext(c) ==
    /\ probes < MaxProbes /\ c # context
    /\ context' = c /\ probes' = probes + 1
    /\ UNCHANGED <<chain, probe, scope, completed, trades, held, desk, approvedBy>>

-----------------------------------------------------------------------------
(* The acceptance scope.                                                   *)

StartAcceptanceScope(stopped) ==
    /\ desk.step = "free" /\ scope.id < MaxScopes /\ stopped
    /\ chain.tested /\ probe.valid /\ probe.context = context
    /\ ~ScopeOpen
    /\ desk' = [FreeDesk EXCEPT !.step = "open", !.context = context]
    /\ UNCHANGED <<context, chain, probe, scope, completed, trades, held, approvedBy, probes>>

(* expireAcceptanceScopes and the INSERT, which one active scope refuses   *)
OpenAcceptanceScope ==
    /\ desk.step = "open"
    /\ scope' = IF ScopeOpen THEN scope
                ELSE [id |-> scope.id + 1, status |-> "active", context |-> desk.context,
                      expired |-> FALSE, valid |-> probe.valid]
    /\ desk' = FreeDesk
    /\ UNCHANGED <<context, chain, probe, completed, trades, held, approvedBy, probes>>

ScopeExpires ==
    /\ ScopeOpen
    /\ scope' = [scope EXCEPT !.expired = TRUE]
    /\ UNCHANGED <<context, chain, probe, completed, trades, held, desk, approvedBy, probes>>

FinishAcceptanceScope(stopped, status) ==
    /\ desk.step = "free" /\ stopped /\ scope.status = "active"
    /\ scope' = [scope EXCEPT !.status = status]
    /\ completed' = IF status = "completed" THEN [scope EXCEPT !.status = status] ELSE completed
    /\ UNCHANGED <<context, chain, probe, trades, held, desk, approvedBy, probes>>

(* A buy of the row submitted by the running engine, and the settlement of *)
(* the sale that closes the position (persistManualE2eEvidence).           *)
BuyOfRow(running) ==
    /\ running /\ ~held /\ SubmissionAllowed
    /\ held' = TRUE
    /\ UNCHANGED <<context, chain, probe, scope, completed, trades, desk, approvedBy, probes>>

PositionClosed ==
    /\ held
    /\ trades' = trades \cup {IF ScopeOpen THEN scope.id ELSE 0}
    /\ held' = FALSE
    /\ UNCHANGED <<context, chain, probe, scope, completed, desk, approvedBy, probes>>

-----------------------------------------------------------------------------
(* The approval.                                                           *)

ApproveProduction(stopped) ==
    /\ desk.step = "free" /\ stopped /\ scope.status # "active"
    /\ completed.id # 0 /\ completed.valid /\ completed.context = context
    /\ desk' = [FreeDesk EXCEPT !.step = "approve", !.scope = completed]
    /\ UNCHANGED <<context, chain, probe, scope, completed, trades, held, approvedBy, probes>>

(* Slip: any recorded trade of the row counts, whenever it was made.       *)
WriteApprovalOnAnyTrade ==
    /\ desk.step = "approve"
    /\ LET earned == chain.tested /\ trades # {} /\ probe.valid IN
       /\ chain' = [chain EXCEPT !.approved = @ \/ earned]
       /\ approvedBy' = IF earned THEN desk.scope.id ELSE approvedBy
    /\ desk' = FreeDesk
    /\ UNCHANGED <<context, probe, scope, completed, trades, held, probes>>

(* The UPDATE asks again for the evidence of the trades and of the probe,  *)
(* not for the context nor for the engine.                                 *)
WriteApproval ==
    /\ desk.step = "approve"
    /\ LET earned == chain.tested /\ desk.scope.id \in trades /\ completed.valid IN
       /\ chain' = [chain EXCEPT !.approved = @ \/ earned]
       /\ approvedBy' = IF earned THEN desk.scope.id ELSE approvedBy
    /\ desk' = FreeDesk
    /\ UNCHANGED <<context, probe, scope, completed, trades, held, probes>>

ApprovalStep(stopped, running) ==
    \/ RunDiagnostic \/ EvidenceExpires \/ OpenAcceptanceScope \/ ScopeExpires
    \/ BuyOfRow(running) \/ PositionClosed \/ WriteApproval
    \/ StartAcceptanceScope(stopped) \/ ApproveProduction(stopped)
    \/ \E passed \in BOOLEAN : PersistContractProbeEvidence(passed)
    \/ \E c \in Contexts : ChangeContext(c)
    \/ \E status \in {"completed", "cancelled"} : FinishAcceptanceScope(stopped, status)

(* The approval beside an engine that stops and runs as it likes.          *)
ApprovalSpec ==
    /\ \E approved \in BOOLEAN : ApprovalInit(approved)
    /\ [][\E stopped, running \in BOOLEAN : ApprovalStep(stopped, running)]_approvalVars

-----------------------------------------------------------------------------
ApprovalTypeOK ==
    /\ context \in Contexts
    /\ chain \in [tested : BOOLEAN, approved : BOOLEAN]
    /\ probe \in [context : Contexts, valid : BOOLEAN]
    /\ scope.id \in 0 .. MaxScopes
    /\ scope.status \in {"none", "active", "completed", "cancelled"}
    /\ trades \subseteq 0 .. MaxScopes
    /\ held \in BOOLEAN
    /\ desk.step \in {"free", "probe", "open", "approve"}

(* approveProduction: a chain is approved on the strength of a scope in    *)
(* which a position of the row was really closed, not of a trade made      *)
(* outside of it or in a scope that was cancelled.                         *)
ApprovalEarned ==
    approvedBy # 0 => approvedBy \in trades /\ approvedBy <= completed.id
=============================================================================
