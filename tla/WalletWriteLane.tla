---------------------------- MODULE WalletWriteLane ----------------------------
(***************************************************************************)
(* The wallet write lane: one row of wallet_write_lanes per chain and      *)
(* wallet, the mutex every funds write of that wallet goes through.        *)
(*                                                                         *)
(* A lane is idle, held by an attempt that is submitting a write, or       *)
(* quarantined on account of an attempt whose outcome is not known.  Each  *)
(* operator below is one SQL statement of wallet-write-lane.js: it takes   *)
(* the row and returns the row the statement leaves, so the modules that   *)
(* write through the lane say in which order the statements run.           *)
(***************************************************************************)

CONSTANT Nobody      \* owner_attempt_id IS NULL

(* Why a lane is quarantined.  Only "no_hash_evidence" (the code's         *)
(* NO_HASH_FAILURE_EVIDENCE_PENDING) is ever lifted by the program; the    *)
(* error codes of uncertain submissions and of failed proofs are one       *)
(* value here, "unproven".                                                 *)
QuarantineReasons == {"no_hash_evidence", "unproven", "stale_lease", "multiple_fill"}

IdleLane == [state |-> "idle", owner |-> Nobody, reason |-> "none"]

HeldLane(a) == [state |-> "submitting", owner |-> a, reason |-> "none"]

FrozenLane(a, why) == [state |-> "quarantined", owner |-> a, reason |-> why]

Lanes(Owners) ==
    {IdleLane} \cup {HeldLane(a) : a \in Owners}
               \cup {FrozenLane(a, why) : a \in Owners, why \in QuarantineReasons}

(* acquireInTransaction refuses a quarantined lane (WALLET_QUARANTINED)    *)
(* and a lane another attempt holds (WALLET_WRITE_LANE_BUSY).              *)
MayAcquire(l, a) ==
    /\ l.state # "quarantined"
    /\ l.state = "idle" \/ l.owner = a

(* Slip: the owner column is not cleared. *)
ReleaseKeepsOwner(l, a) ==
    IF l.state = "submitting" /\ l.owner = a THEN [l EXCEPT !.state = "idle"] ELSE l

(* release: only the holder of a submitting lane frees it.                 *)
Release(l, a) ==
    IF l.state = "submitting" /\ l.owner = a THEN IdleLane ELSE l

(* quarantine: an upsert that leaves another owner's quarantine alone but  *)
(* takes a lane another attempt is only submitting on.                     *)
Quarantine(l, a, why) ==
    IF l.state # "quarantined" \/ l.owner = a THEN FrozenLane(a, why) ELSE l

(* Slip: one attempt's evidence ends another attempt's quarantine. *)
ResolveAnyEvidence(l, a) ==
    IF l.state = "quarantined" /\ l.reason = "no_hash_evidence" THEN IdleLane ELSE l

(* resolveEvidenceQuarantine: the one automatic end of a quarantine.       *)
ResolveEvidence(l, a) ==
    IF l = FrozenLane(a, "no_hash_evidence") THEN IdleLane ELSE l

(* settleSubmittedOrder: the order is persisted, so the write is over,     *)
(* unless the provider already reports a terminal failure without a hash.  *)
Settle(l, a, terminalWithoutHash) ==
    IF terminalWithoutHash THEN Quarantine(l, a, "no_hash_evidence")
                           ELSE Release(l, a)

(* Slip: an unresolved lane is left as it is. *)
RecoverSettledOnly(l, ownerSettled) ==
    IF l.state = "submitting" /\ ownerSettled THEN IdleLane ELSE l

(* recoverStaleSubmissions on a lane whose lease ran out: free it if the   *)
(* owner's write is known to be over, freeze it otherwise.                 *)
Recover(l, ownerSettled) ==
    IF l.state # "submitting" THEN l
    ELSE IF ownerSettled THEN IdleLane
    ELSE FrozenLane(l.owner, "stale_lease")
=============================================================================
