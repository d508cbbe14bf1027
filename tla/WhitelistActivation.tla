-------------------------- MODULE WhitelistActivation --------------------------
(***************************************************************************)
(* A whitelist row between its edits and its release for trading.  Every   *)
(* edit that matters gives the row a new activation version and puts it    *)
(* into an outbox; a worker validates the row's terms, waits for its       *)
(* accounts to be watched, probes chain and provider, and marks the row    *)
(* live_ready (domains/whitelist, jobs/whitelist-activation.js).  The      *)
(* rows, the launch rules and the enabled accounts make the demand the     *)
(* watch synchronisation works on.                                         *)
(*                                                                         *)
(* Terms stand for budget, slippage and exit strategy together; a row's    *)
(* asks give the events it wants of each account (relations, sources).     *)
(***************************************************************************)
EXTENDS WatchSync

CONSTANTS
    Rows,             \* whitelist rows
    SystemRows,       \* those the dynamic signals write
    Asks, RuleAsks,   \* what rows and the launch rule may ask: functions from Handles to events
    TradeTerms,       \* what a row may be traded under
    ActivationTries,  \* deferred attempts before an activation fails (code: 4)
    MaxEdits          \* bound: operations of the owner and of dynamic signals

ASSUME ActivationAssumption ==
    /\ SystemRows \subseteq Rows
    /\ Asks \cup RuleAsks \subseteq [Handles -> SUBSET Events]
    /\ ActivationTries \in Nat /\ MaxEdits \in Nat

VARIABLES
    rows,        \* ca_whitelist with its relations and sources
    launch,      \* project_launch_rules, one rule
    enabled,     \* x_kol_accounts: the accounts that are enabled
    aout,        \* whitelist_activation_outbox by row
    activator,   \* the activation of each row of the batch in hand
    overlooked,  \* history: accounts switched on since the row's last request, by being named
    edits        \* bound

activationVars == <<rows, launch, enabled, aout, activator, overlooked, edits>>

-----------------------------------------------------------------------------
NoContext == [terms |-> "none", handles |-> {}]
NoAsks == [h \in Handles |-> {}]
Asked(asks) == {h \in Handles : asks[h] # {}}
AtRest == [step |-> "idle", version |-> 0, tries |-> 0, context |-> NoContext]

ActivationInit ==
    /\ rows = [r \in Rows |-> [status |-> "none", asks |-> NoAsks, terms |-> "none",
                               version |-> 1, live |-> "syncing", context |-> NoContext]]
    /\ launch = [status |-> "none", asks |-> NoAsks]
    /\ enabled = Handles
    /\ aout = [r \in Rows |-> [status |-> "none", version |-> 0, tries |-> 0]]
    /\ activator = [r \in Rows |-> AtRest]
    /\ overlooked = [r \in Rows |-> {}]
    /\ edits = 0

(* loadDesiredWatches: what enabled rules ask of enabled accounts          *)
Demand(rs, rule, on) ==
    [h \in Handles |->
        IF h \notin on THEN {}
        ELSE (IF rule.status = "active" THEN rule.asks[h] ELSE {})
             \cup UNION {rs[r].asks[h] : r \in {q \in Rows : rs[q].status = "active"}}]

CurrentDemand == Demand(rows, launch, enabled)

(* enqueueWhitelistActivation: active rows only                            *)
EnqueueActivation(rs, which, increment) ==
    LET due == {r \in which : rs[r].status = "active"}
        version(r) == rs[r].version + IF increment THEN 1 ELSE 0
    IN  /\ rows' = [r \in Rows |-> IF r \notin due THEN rs[r] ELSE
                      [rs[r] EXCEPT !.version = version(r), !.live = "syncing",
                                    !.context = NoContext]]
        /\ aout' = [r \in Rows |-> IF r \notin due THEN aout[r] ELSE
                      [status |-> "pending", version |-> version(r), tries |-> 0]]

(* findOrCreateActor: an account that is named is switched on, with no     *)
(* activation of the other rows that ask it.  A request for an activation  *)
(* starts the row's history afresh.                                        *)
Overlooked(named) ==
    overlooked' = [r \in Rows |-> IF aout'[r] # aout[r] THEN {}
                                  ELSE overlooked[r] \cup (named \ enabled)]
FindOrCreateActors(named) == enabled' = enabled \cup named /\ Overlooked(named)

Edit == edits < MaxEdits /\ edits' = edits + 1
Elsewhere == UNCHANGED <<activator, watches, syncer, provider, faults>>

-----------------------------------------------------------------------------
(* The owner's operations, one transaction each.                           *)

(* addWhitelist inserts a row, or adds to the active row of the contract;  *)
(* naming an account enables it (findOrCreateActor).  The merge keeps the  *)
(* row's terms, and asks again for a release if it asked more accounts.    *)
AddWhitelist(r) ==
    /\ Edit /\ r \notin SystemRows
    /\ \E asks \in Asks, terms \in TradeTerms :
         LET merge == rows[r].status = "active"
             joined == [h \in Handles |-> IF asks[h] # {} THEN asks[h] ELSE rows[r].asks[h]]
             saved == [rows EXCEPT ![r] =
                         IF merge THEN [@ EXCEPT !.asks = joined]
                         ELSE [@ EXCEPT !.status = "active", !.asks = asks, !.terms = terms]]
         IN  /\ rows[r].status \in {"none", "active"}
             /\ IF merge /\ Asked(joined) = Asked(rows[r].asks)
                THEN rows' = saved /\ aout' = aout
                ELSE EnqueueActivation(saved, {r}, merge)
             /\ FindOrCreateActors(Asked(saved[r].asks))
             /\ EnqueueWatchSync(Asked(saved[r].asks), Demand(rows', launch, enabled'))
    /\ UNCHANGED launch /\ Elsewhere

(* updateWhitelist, with a change of what an activation looks at           *)
UpdateWhitelist(r) ==
    /\ Edit /\ rows[r].status # "none" /\ r \notin SystemRows
    /\ \E asks \in Asks, terms \in TradeTerms :
         LET saved == [rows EXCEPT ![r].asks = asks, ![r].terms = terms] IN
         /\ EnqueueActivation(saved, {r}, TRUE)
         /\ FindOrCreateActors(Asked(asks))
         /\ EnqueueWatchSync(Asked(rows[r].asks) \cup Asked(asks),
                             Demand(rows', launch, enabled'))
    /\ UNCHANGED launch /\ Elsewhere

(* changeStatus; its states other than active are one here                 *)
ChangeStatus(r) ==
    /\ Edit /\ rows[r].status # "none"
    /\ \E status \in {"active", "paused"} :
         EnqueueActivation([rows EXCEPT ![r].status = status], {r}, TRUE)
    /\ Overlooked({})
    /\ EnqueueWatchSync(Asked(rows[r].asks), Demand(rows', launch, enabled))
    /\ UNCHANGED <<launch, enabled>> /\ Elsewhere

RetryActivation(r) ==
    /\ Edit /\ rows[r].status = "active"
    /\ EnqueueActivation(rows, {r}, TRUE)
    /\ Overlooked({})
    /\ UNCHANGED <<launch, enabled, outbox>> /\ Elsewhere

(* reactivateChains: a setting of the chain was changed                    *)
ReactivateChains ==
    /\ Edit
    /\ EnqueueActivation(rows, Rows, TRUE)
    /\ Overlooked({})
    /\ UNCHANGED <<launch, enabled, outbox>> /\ Elsewhere

DeleteWhitelist(r) ==
    /\ Edit /\ rows[r].status \in {"active", "paused"}
    /\ rows' = [rows EXCEPT ![r].status = "archived"]
    /\ EnqueueWatchSync(Asked(rows[r].asks), Demand(rows', launch, enabled))
    /\ UNCHANGED <<launch, enabled, aout, overlooked>> /\ Elsewhere

(* toggleKol; deleteKol of an account with history switches it off as well *)
ToggleKol(h) ==
    /\ Edit
    /\ enabled' = IF h \in enabled THEN enabled \ {h} ELSE enabled \cup {h}
    /\ EnqueueActivation(rows, IF h \in enabled THEN {}
                               ELSE {r \in Rows : rows[r].asks[h] # {}}, TRUE)
    /\ Overlooked({})
    /\ EnqueueWatchSync({h}, Demand(rows', launch, enabled'))
    /\ UNCHANGED launch /\ Elsewhere

(* launch-monitor: create, update, changeStatus, remove; a rule that was   *)
(* triggered is not touched again                                          *)
EditLaunchRule ==
    /\ Edit /\ launch.status # "triggered"
    /\ \E asks \in RuleAsks, status \in {"active", "paused", "none"} :
         /\ launch' = [status |-> status, asks |-> IF status = "none" THEN NoAsks ELSE asks]
         /\ UNCHANGED <<rows, aout>>
         /\ FindOrCreateActors(Asked(launch'.asks))
         /\ EnqueueWatchSync(Asked(launch.asks) \cup Asked(launch'.asks),
                             Demand(rows, launch', enabled'))
    /\ Elsewhere

(* consumeRule: the rule is used up by its first token, whose row it adds  *)
(* to or makes; a token another rule has discovered only uses it up.  The  *)
(* watches follow when the activation asks for them.                       *)
ConsumeRule(r) ==
    /\ Edit /\ launch.status = "active" /\ r \notin SystemRows
    /\ launch' = [launch EXCEPT !.status = "triggered"]
    /\ \/ UNCHANGED <<rows, aout, enabled, overlooked>>
       \/ \E h \in Asked(launch.asks) \cap enabled, terms \in TradeTerms : \E e \in launch.asks[h] :
            /\ rows[r].status \in {"none", "active"}
            /\ EnqueueActivation([rows EXCEPT ![r].status = "active", ![r].asks[h] = {e},
                                   ![r].terms = IF rows[r].status = "none" THEN terms ELSE @],
                                 {r}, rows[r].status = "active")
            /\ FindOrCreateActors(Asked(rows[r].asks))
    /\ UNCHANGED outbox /\ Elsewhere

(* materialize, for a live job: the dynamic row is written anew, or over   *)
(* the active one, whose version stays what it is                          *)
Materialize(r) ==
    /\ Edit /\ r \in SystemRows /\ rows[r].status \in {"none", "active"}
    /\ \E asks \in Asks, terms \in TradeTerms :
         EnqueueActivation([rows EXCEPT ![r].status = "active", ![r].terms = terms,
                                        ![r].asks = IF @ = NoAsks THEN asks ELSE @], {r}, FALSE)
    /\ Overlooked({})
    /\ UNCHANGED <<launch, enabled, outbox>> /\ Elsewhere

-----------------------------------------------------------------------------
(* The activation worker.                                                  *)

WorkerRests == \A r \in Rows : activator[r].step = "idle"
WorkerGoto(r, step) == activator' = [activator EXCEPT ![r].step = step]
OfTheActivation == UNCHANGED <<launch, enabled, overlooked, edits, watches, syncer, provider>>

(* claimActivationBatch, by a worker that has finished the last batch; a   *)
(* row in processing is one an earlier worker died with.                   *)
ClaimActivations ==
    /\ WorkerRests
    /\ \E batch \in SUBSET {r \in Rows : aout[r].status \in {"pending", "processing"}} :
         /\ Cardinality(batch) \in 1 .. 2
         /\ aout' = [r \in Rows |-> IF r \in batch THEN [aout[r] EXCEPT !.status = "processing"]
                                    ELSE aout[r]]
         /\ activator' = [r \in Rows |-> IF r \notin batch THEN AtRest ELSE
                         [AtRest EXCEPT !.step = "load", !.version = aout[r].version,
                                        !.tries = aout[r].tries]]
    /\ UNCHANGED <<rows, outbox, faults>> /\ OfTheActivation

Superseded(r) == rows[r].status # "active" \/ rows[r].version # activator[r].version
AskedEnabled(r) == Asked(rows[r].asks) \cap enabled

(* loadActivationContext and validateWhitelist; discardActivation of a     *)
(* version that is no longer wanted                                        *)
LoadContext(r) ==
    /\ activator[r].step = "load"
    /\ IF Superseded(r)
       THEN /\ activator' = [activator EXCEPT ![r] = AtRest]
            /\ aout' = [aout EXCEPT ![r].status =
                          IF aout[r].version = activator[r].version THEN "succeeded" ELSE "pending"]
       ELSE /\ activator' = [activator EXCEPT
                 ![r].context = [terms |-> rows[r].terms, handles |-> AskedEnabled(r)],
                 ![r].step = IF AskedEnabled(r) = {} THEN "fail" ELSE "watch"]
            /\ aout' = aout
    /\ UNCHANGED <<rows, outbox, faults>> /\ OfTheActivation

Watched(h) ==
    /\ watches[h] = [managed |-> TRUE, status |-> "in_sync", remote |-> CurrentDemand[h]]
    /\ outbox'[h].status = "succeeded" /\ CurrentDemand[h] # {}

GiveUp(r) == IF activator[r].tries >= ActivationTries THEN "fail" ELSE "defer"

AssertWatchesInSync(r) ==
    /\ activator[r].step = "watch"
    /\ EnqueueWatchSync(activator[r].context.handles, CurrentDemand)
    /\ WorkerGoto(r, IF \A h \in activator[r].context.handles : Watched(h)
                     THEN "probe" ELSE GiveUp(r))
    /\ UNCHANGED <<rows, aout, faults>> /\ OfTheActivation

ProbeWhitelist(r) ==
    /\ activator[r].step = "probe"
    /\ \/ WorkerGoto(r, "complete") /\ UNCHANGED faults
       \/ /\ MayFail /\ faults' = [faults EXCEPT !.probes = @ + 1]
          /\ WorkerGoto(r, GiveUp(r))
    /\ UNCHANGED <<rows, aout, outbox>> /\ OfTheActivation

(* Slip: the row is marked without asking for its version.                 *)
MarkedWhateverVersion(r) ==
    /\ activator[r].step = "complete"
    /\ LET marked == rows[r].status = "active"
       IN  /\ rows' = IF marked THEN [rows EXCEPT ![r].live = "live_ready",
                                                  ![r].context = activator[r].context]
                      ELSE rows
           /\ WorkerGoto(r, IF marked THEN "marked" ELSE "unmarked")
    /\ UNCHANGED <<aout, outbox, faults>> /\ OfTheActivation

(* completeActivation, its first statement ...                             *)
MarkLiveReady(r) ==
    /\ activator[r].step = "complete"
    /\ rows' = IF Superseded(r) THEN rows
               ELSE [rows EXCEPT ![r].live = "live_ready", ![r].context = activator[r].context]
    /\ WorkerGoto(r, IF Superseded(r) THEN "unmarked" ELSE "marked")
    /\ UNCHANGED <<aout, outbox, faults>> /\ OfTheActivation

(* Slip: what was activated settles the outbox, whatever is wanted by now. *)
CompletedWhateverVersion(r) ==
    /\ activator[r].step \in {"marked", "unmarked"}
    /\ aout' = [aout EXCEPT ![r] = [@ EXCEPT !.status = "succeeded", !.tries = 0]]
    /\ activator' = [activator EXCEPT ![r] = AtRest]
    /\ UNCHANGED <<rows, outbox, faults>> /\ OfTheActivation

(* ... and its second                                                      *)
CompleteOutbox(r) ==
    /\ activator[r].step \in {"marked", "unmarked"}
    /\ aout' = [aout EXCEPT ![r] =
                  IF @.version = activator[r].version /\ activator[r].step = "marked"
                  THEN [@ EXCEPT !.status = "succeeded", !.tries = 0]
                  ELSE [@ EXCEPT !.status = "pending"]]
    /\ activator' = [activator EXCEPT ![r] = AtRest]
    /\ UNCHANGED <<rows, outbox, faults>> /\ OfTheActivation

(* deferActivation and failActivation: the outbox first ...                *)
GiveBack(r) ==
    /\ activator[r].step \in {"defer", "fail"}
    /\ aout' = [aout EXCEPT ![r] =
                  IF @.version # activator[r].version THEN [@ EXCEPT !.status = "pending", !.tries = 0]
                  ELSE IF activator[r].step = "fail" THEN [@ EXCEPT !.status = "failed", !.tries = aout[r].tries + 1]
                  ELSE [@ EXCEPT !.status = "pending", !.tries = activator[r].tries + 1]]
    /\ WorkerGoto(r, IF activator[r].step = "fail" THEN "failed" ELSE "deferred")
    /\ UNCHANGED <<rows, outbox, faults>> /\ OfTheActivation

(* ... then the row                                                        *)
MarkGivenBack(r) ==
    /\ activator[r].step \in {"deferred", "failed"}
    /\ rows' = IF Superseded(r) THEN rows
               ELSE [rows EXCEPT ![r].live = IF activator[r].step = "failed" THEN "sync_failed"
                                             ELSE "syncing"]
    /\ activator' = [activator EXCEPT ![r] = AtRest]
    /\ UNCHANGED <<aout, outbox, faults>> /\ OfTheActivation

ActivationWorkerExits ==
    /\ ~WorkerRests /\ MayFail
    /\ activator' = [r \in Rows |-> AtRest]
    /\ faults' = [faults EXCEPT !.probes = @ + 1]
    /\ UNCHANGED <<rows, aout, outbox>> /\ OfTheActivation

-----------------------------------------------------------------------------
OwnerEdits ==
    \/ EditLaunchRule \/ ReactivateChains
    \/ \E h \in Handles : ToggleKol(h)
    \/ \E r \in Rows : \/ AddWhitelist(r) \/ UpdateWhitelist(r) \/ ChangeStatus(r)
                       \/ RetryActivation(r) \/ DeleteWhitelist(r)
                       \/ ConsumeRule(r) \/ Materialize(r)

ActivationWork ==
    \/ ClaimActivations
    \/ \E r \in Rows : \/ LoadContext(r) \/ AssertWatchesInSync(r) \/ ProbeWhitelist(r)
                       \/ MarkLiveReady(r) \/ CompleteOutbox(r) \/ GiveBack(r) \/ MarkGivenBack(r)

WatchWork == SyncerStep(CurrentDemand) /\ UNCHANGED activationVars

ActivationNext ==
    \/ OwnerEdits \/ ActivationWork \/ ActivationWorkerExits
    \/ WatchStep(CurrentDemand) /\ UNCHANGED activationVars

ActivationSpec ==
    WatchInit /\ ActivationInit /\ [][ActivationNext]_<<watchVars, activationVars>>

-----------------------------------------------------------------------------
ActivationTypeOK ==
    /\ rows \in [Rows -> [status : {"none", "active", "paused", "archived"}, asks : [Handles -> SUBSET Events],
                          terms : TradeTerms \cup {"none"}, version : Nat,
                          live : {"syncing", "live_ready", "sync_failed"},
                          context : [terms : TradeTerms \cup {"none"}, handles : SUBSET Handles]]]
    /\ launch.status \in {"none", "active", "paused", "triggered"}
    /\ enabled \subseteq Handles /\ overlooked \in [Rows -> SUBSET Handles]
    /\ aout \in [Rows -> [status : OutboxStatuses, version : Nat, tries : 0 .. ActivationTries + 1]]
    /\ edits \in 0 .. MaxEdits

(* A row of the owner's that is released for trading was validated and     *)
(* probed under the terms it has now, and every enabled account it asks    *)
(* was in sync then, those aside that were off and have been switched on   *)
(* by being named for something else (completeActivation's version,        *)
(* updateWhitelist, addWhitelist's merge, toggleKol).                      *)
ContextCurrent ==
    \A r \in Rows \ SystemRows :
        rows[r].status = "active" /\ rows[r].live = "live_ready"
            => /\ rows[r].context.terms = rows[r].terms
               /\ AskedEnabled(r) \subseteq rows[r].context.handles \cup overlooked[r]

(* An activation of the owner's row is decided: the row is released, fails *)
(* visibly, or stops being active (deferActivation's count, the versions   *)
(* of the outbox).                                                         *)
ActivationDecided ==
    \A r \in Rows \ SystemRows :
        []<>(\/ rows[r].status # "active" \/ rows[r].live # "syncing"
             \/ aout[r].status = "failed")

(* What is asked of an account in the end is what the provider reports, if *)
(* the worker of the watches does not die: edits, failed calls and a watch *)
(* the provider had before included (the versions of the outbox,           *)
(* getWatchPlan).                                                          *)
DemandReachesProvider ==
    <>[](faults.exits = 0) => \A h \in Handles : <>[](CurrentDemand[h] \subseteq provider[h])
=============================================================================
