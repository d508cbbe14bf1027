------------------------------- MODULE WatchSync -------------------------------
(***************************************************************************)
(* How what the rules of the program ask of an X account becomes a watch   *)
(* at the provider: the demand (loadDesiredWatches), the outbox of handles *)
(* to synchronise (watch-sync-outbox.js), and the one worker that plans    *)
(* and applies the changes (6551-watch-sync.js, watch-reconciler.js).      *)
(*                                                                         *)
(* A watch's flags are the set of events it reports, {} for no watch.  The *)
(* plan is made of three reads the worker does not make at one instant:    *)
(* the demand and its own rows, then, after a call, the provider's list.   *)
(* What changes the demand is left to the module that extends this one.    *)
(***************************************************************************)
EXTENDS Integers, FiniteSets

CONSTANTS
    Handles,        \* X accounts
    Events,         \* the events a watch can report
    ForeignWatches, \* what the provider may watch of an account beforehand
    MaxFaults       \* bound: failed calls and exits of workers, together

ASSUME WatchAssumption == ForeignWatches \subseteq SUBSET Events /\ MaxFaults \in Nat

VARIABLES
    watches,        \* x_provider_watches by handle
    outbox,         \* x_watch_sync_outbox by handle
    syncer,         \* the worker: its step, what it claimed, read and plans
    provider,       \* the watches the provider has
    faults

watchVars == <<watches, outbox, syncer, provider, faults>>

-----------------------------------------------------------------------------
(* The rows.                                                               *)

WatchStatuses == {"in_sync", "observed", "pending_add", "pending_update",
                  "pending_delete", "error"}
OutboxStatuses == {"none", "pending", "processing", "succeeded", "failed"}

NoWatch == [managed |-> FALSE, status |-> "observed", remote |-> {}]
NoOutbox == [status |-> "none", version |-> 0, wanted |-> {}]
MayFail == faults.calls + faults.exits + faults.probes < MaxFaults
IdleSyncer == [step |-> "idle", claimed |-> [h \in Handles |-> 0],
               wanted |-> [h \in Handles |-> {}], managed |-> {},
               plan |-> [h \in Handles |-> "none"], at |-> {}]

WatchInit ==
    /\ watches = [h \in Handles |-> NoWatch]
    /\ outbox = [h \in Handles |-> NoOutbox]
    /\ syncer = IdleSyncer
    /\ provider \in [Handles -> ForeignWatches]
    /\ faults = [calls |-> 0, exits |-> 0, probes |-> 0]

-----------------------------------------------------------------------------
(* The outbox.                                                             *)

(* alreadyInSync, judged by the row and not by who is working on it        *)
AlreadyInSync(h, wanted) ==
    IF wanted # {}
    THEN watches[h] = [managed |-> TRUE, status |-> "in_sync", remote |-> wanted]
    ELSE ~watches[h].managed

(* Slip: a change of the demand keeps the version of the row.              *)
EnqueuedSameVersion(h, wanted) ==
    [version |-> 1, wanted |-> wanted,
     status |-> IF AlreadyInSync(h, wanted) THEN "succeeded"
                ELSE IF outbox[h].status \in {"none", "succeeded"} \/ outbox[h].wanted # wanted
                     THEN "pending" ELSE outbox[h].status]

(* enqueueWatchSyncForHandles, for one handle and the demand of the        *)
(* transaction it is called in                                             *)
Enqueued(h, wanted) ==
    LET changed == outbox[h].status = "none" \/ outbox[h].wanted # wanted
    IN  [version |-> outbox[h].version + IF changed THEN 1 ELSE 0,
         wanted |-> wanted,
         status |-> IF AlreadyInSync(h, wanted) THEN "succeeded"
                    ELSE IF changed \/ outbox[h].status = "succeeded" THEN "pending"
                    ELSE outbox[h].status]

EnqueueWatchSync(handles, demand) ==
    outbox' = [h \in Handles |-> IF h \in handles THEN Enqueued(h, demand[h]) ELSE outbox[h]]

-----------------------------------------------------------------------------
(* The plan.                                                               *)

WatchAction(wanted, present, managed) ==
    CASE wanted # {} /\ present = {} -> "add"
      [] wanted # {} /\ present = wanted /\ ~managed -> "adopt"
      [] wanted # {} /\ present \notin {{}, wanted} /\ managed -> "update"
      [] wanted # {} /\ present \notin {{}, wanted} /\ ~managed -> "takeover"
      [] wanted = {} /\ present # {} /\ managed -> "delete"
      [] wanted = {} /\ present = {} /\ managed -> "mark_removed"
      [] OTHER -> "none"

SyncStatusFor(action, managed) ==
    CASE action = "takeover" -> "error"
      [] action = "add" -> "pending_add"
      [] action = "update" -> "pending_update"
      [] action = "delete" -> "pending_delete"
      [] action = "none" /\ managed -> "in_sync"
      [] OTHER -> "observed"

Claimed == {h \in Handles : syncer.claimed[h] # 0}
SyncGoto(step) == syncer' = [syncer EXCEPT !.step = step]

(* claimWatchSyncBatch; a row in processing with an idle worker was left   *)
(* behind by one that died, and is due again after two minutes.            *)
ClaimWatchSync ==
    /\ syncer.step = "idle"
    /\ LET due == {h \in Handles : outbox[h].status \in {"pending", "failed", "processing"}} IN
       /\ due # {}
       /\ outbox' = [h \in Handles |->
                       IF h \in due THEN [outbox[h] EXCEPT !.status = "processing"] ELSE outbox[h]]
       /\ syncer' = [IdleSyncer EXCEPT !.step = "load", !.claimed =
                       [h \in Handles |-> IF h \in due THEN outbox[h].version ELSE 0]]
    /\ UNCHANGED <<watches, provider, faults>>

LoadDesiredWatches(demand) ==
    /\ syncer.step = "load"
    /\ syncer' = [syncer EXCEPT !.step = "list", !.wanted = demand,
                                !.managed = {h \in Handles : watches[h].managed}]
    /\ UNCHANGED <<watches, outbox, provider, faults>>

(* getWatchPlan once the provider has listed its watches: the plan covers  *)
(* every handle, claimed or not, and is persisted.  Of the watches that    *)
(* are not managed, only claimed ones are adopted or taken over.           *)
PersistPlan ==
    /\ syncer.step = "list"
    /\ LET action == [h \in Handles |->
                        WatchAction(syncer.wanted[h], provider[h], h \in syncer.managed)]
       IN  /\ watches' = [h \in Handles |->
                 [watches[h] EXCEPT !.remote = provider[h],
                                    !.status = SyncStatusFor(action[h], h \in syncer.managed)]]
           /\ syncer' = [syncer EXCEPT !.step = "apply", !.plan = [h \in Handles |->
                 IF action[h] \in {"adopt", "takeover"} /\ h \notin Claimed
                 THEN "none" ELSE action[h]]]
    /\ UNCHANGED <<outbox, provider, faults>>

(* Adoptions come first, then take-overs, then the other actions.          *)
Rank(h) == CASE syncer.plan[h] = "adopt" -> 1 [] syncer.plan[h] = "takeover" -> 2 [] OTHER -> 3
Planned == {h \in Handles : syncer.plan[h] # "none"}
InTurn(h) == h \in Planned /\ \A g \in Planned : Rank(h) <= Rank(g)

SetWatchResult(h, managed, status, remote) ==
    watches' = [watches EXCEPT ![h] = [managed |-> managed, status |-> status, remote |-> remote]]

EntryDone(h) == syncer' = [syncer EXCEPT !.step = "apply", !.plan[h] = "none", !.at = {}]

(* adoption and mark_removed change the row only                           *)
RecordOnly(h) ==
    /\ syncer.step = "apply" /\ InTurn(h) /\ syncer.plan[h] \in {"adopt", "mark_removed"}
    /\ IF syncer.plan[h] = "adopt"
       THEN SetWatchResult(h, TRUE, "in_sync", watches[h].remote)
       ELSE SetWatchResult(h, FALSE, "observed", {})
    /\ EntryDone(h)
    /\ UNCHANGED <<outbox, provider, faults>>

(* deleteWatch or addWatch: one request, never repeated                    *)
CallProvider(h) ==
    /\ syncer.step = "apply" /\ InTurn(h)
    /\ \/ /\ syncer.plan[h] \in {"delete", "update", "takeover"} /\ syncer.at = {}
          /\ provider' = [provider EXCEPT ![h] = {}]
          /\ syncer' = [syncer EXCEPT !.at = {"deleted"}]
       \/ /\ <<syncer.plan[h], syncer.at>> \in
                {<<"add", {}>>, <<"update", {"deleted"}>>, <<"takeover", {"deleted"}>>}
          /\ provider' = [provider EXCEPT ![h] = syncer.wanted[h]]
          /\ syncer' = [syncer EXCEPT !.at = {"added"}]
    /\ UNCHANGED <<watches, outbox, faults>>

RecordApplied(h) ==
    /\ syncer.step = "apply" /\ InTurn(h)
    /\ \/ syncer.at = {"added"} /\ SetWatchResult(h, TRUE, "in_sync", syncer.wanted[h])
       \/ /\ syncer.plan[h] = "delete" /\ syncer.at = {"deleted"}
          /\ SetWatchResult(h, FALSE, "observed", {})
    /\ EntryDone(h)
    /\ UNCHANGED <<outbox, provider, faults>>

(* A request fails, before or after the provider has carried it out; the   *)
(* row keeps what the plan knew of the watch and the batch is given up.    *)
ProviderFails(h) ==
    /\ MayFail
    /\ syncer.step = "apply" /\ InTurn(h)
    /\ syncer.plan[h] \in {"add", "update", "takeover", "delete"}
    /\ SetWatchResult(h, syncer.plan[h] # "takeover" /\ h \in syncer.managed,
                      "error", watches[h].remote)
    /\ SyncGoto("fail")
    /\ faults' = [faults EXCEPT !.calls = @ + 1]
    /\ UNCHANGED <<outbox, provider>>

ListFails ==
    /\ MayFail /\ syncer.step = "list"
    /\ SyncGoto("fail")
    /\ faults' = [faults EXCEPT !.calls = @ + 1]
    /\ UNCHANGED <<watches, outbox, provider>>

AllApplied ==
    /\ syncer.step = "apply" /\ Planned = {}
    /\ SyncGoto("complete")
    /\ UNCHANGED <<watches, outbox, provider, faults>>

(* completeWatchSync or failWatchSync, row by row: a row whose demand has  *)
(* changed since it was claimed is due again.                              *)
SettleOutbox(h) ==
    /\ syncer.step \in {"complete", "fail"} /\ h \in Claimed
    /\ outbox' = [outbox EXCEPT ![h].status =
                    IF outbox[h].version # syncer.claimed[h] THEN "pending"
                    ELSE IF syncer.step = "complete" THEN "succeeded" ELSE "failed"]
    /\ syncer' = IF Claimed = {h} THEN IdleSyncer ELSE [syncer EXCEPT !.claimed[h] = 0]
    /\ UNCHANGED <<watches, provider, faults>>

SyncerCrashes ==
    /\ MayFail /\ syncer.step # "idle"
    /\ syncer' = IdleSyncer
    /\ faults' = [faults EXCEPT !.exits = @ + 1]
    /\ UNCHANGED <<watches, outbox, provider>>

SyncerStep(demand) ==
    \/ ClaimWatchSync \/ LoadDesiredWatches(demand) \/ PersistPlan \/ AllApplied
    \/ \E h \in Handles : RecordOnly(h) \/ CallProvider(h) \/ RecordApplied(h) \/ SettleOutbox(h)

WatchStep(demand) ==
    \/ SyncerStep(demand) \/ ListFails \/ SyncerCrashes
    \/ \E h \in Handles : ProviderFails(h)

-----------------------------------------------------------------------------
WatchTypeOK ==
    /\ watches \in [Handles -> [managed : BOOLEAN, status : WatchStatuses, remote : SUBSET Events]]
    /\ outbox \in [Handles -> [status : OutboxStatuses, version : Nat, wanted : SUBSET Events]]
    /\ syncer.step \in {"idle", "load", "list", "apply", "complete", "fail"}
    /\ provider \in [Handles -> SUBSET Events]
    /\ faults \in [calls : 0 .. MaxFaults, exits : 0 .. MaxFaults, probes : 0 .. MaxFaults]

=============================================================================
