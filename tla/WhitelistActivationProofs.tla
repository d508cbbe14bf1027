----------------------- MODULE WhitelistActivationProofs -----------------------
(***************************************************************************)
(* What a row is released under is what it asks and how it is traded now,  *)
(* for any rows, accounts, launch rules, edits and failures.  The argument *)
(* is about versions: what a worker has loaded is the row's as long as the *)
(* row has the version it was loaded at.                                   *)
(***************************************************************************)
EXTENDS WhitelistActivation, TLAPS

Context == [terms : TradeTerms \cup {"none"}, handles : SUBSET Handles]
Row == [status : {"none", "active", "paused", "archived"}, asks : [Handles -> SUBSET Events],
        terms : TradeTerms \cup {"none"}, version : Nat,
        live : {"syncing", "live_ready", "sync_failed"}, context : Context]
Request == [status : OutboxStatuses, version : Nat, tries : 0 .. ActivationTries + 1]
Steps == {"idle", "load", "watch", "probe", "complete", "marked", "unmarked",
          "defer", "fail", "deferred", "failed"}
Activation == [step : Steps, version : Nat, tries : 0 .. ActivationTries, context : Context]

ActivationRows ==
    /\ rows \in [Rows -> Row] /\ aout \in [Rows -> Request]
    /\ activator \in [Rows -> Activation]
    /\ launch \in [status : {"none", "active", "paused", "triggered"}, asks : [Handles -> SUBSET Events]]
    /\ enabled \subseteq Handles /\ overlooked \in [Rows -> SUBSET Handles]
    /\ edits \in 0 .. MaxEdits

(* A request that is worked on is open, and an open one has tries left.    *)
OpenRequests ==
    \A r \in Rows :
        /\ activator[r].step \notin {"idle", "deferred", "failed"}
             => aout[r].status \in {"pending", "processing"}
        /\ aout[r].status \in {"pending", "processing"} => aout[r].tries <= ActivationTries
        /\ activator[r].step = "defer" => activator[r].tries < ActivationTries

(* Neither the request nor the worker is ahead of the row; a row that does *)
(* not exist has neither.                                                  *)
NotAhead(r) ==
    /\ aout[r].version <= rows[r].version /\ activator[r].version <= rows[r].version
    /\ rows[r].status = "none" => activator[r].step = "idle" /\ aout[r].status = "none"

(* A context is the row's: its terms, and every enabled account it asks.   *)
Describes(context, r) ==
    /\ context.terms = rows[r].terms
    /\ AskedEnabled(r) \subseteq context.handles \cup overlooked[r]

Loaded(r) ==
    /\ rows[r].status = "active" /\ activator[r].version = rows[r].version
    /\ activator[r].step \notin {"idle", "load"}

OwnersRow(r) ==
    /\ NotAhead(r)
    /\ Loaded(r) => Describes(activator[r].context, r)
    /\ rows[r].status = "active" /\ rows[r].live = "live_ready" => Describes(rows[r].context, r)

ActivationInv ==
    /\ ActivationRows /\ OpenRequests
    /\ \A r \in Rows \ SystemRows : OwnersRow(r)

-----------------------------------------------------------------------------
LEMMA ActivationInitSound == ActivationInit => ActivationInv
<1> SUFFICES ASSUME ActivationInit PROVE ActivationInv
  OBVIOUS
<1> USE DEF ActivationInit
<1>1. NoContext \in Context /\ NoAsks \in [Handles -> SUBSET Events]
  BY DEF NoContext, NoAsks, Context
<1>2. AtRest \in Activation
  BY <1>1, ActivationAssumption DEF AtRest, Activation, Steps
<1>3. ActivationRows
  BY <1>1, <1>2, ActivationAssumption DEF ActivationRows, Row, Request, OutboxStatuses
<1>4. \A r \in Rows : activator[r].step = "idle" /\ activator[r].version = 0
  BY DEF AtRest
<1>5. OpenRequests /\ \A r \in Rows : OwnersRow(r)
  BY <1>4 DEF OpenRequests, OwnersRow, NotAhead, Loaded
<1> QED  BY <1>3, <1>5 DEF ActivationInv

-----------------------------------------------------------------------------
(* The edits.                                                              *)

(* What an edit may do to a row of the owner's: leave it inactive, request *)
(* a release of a new version, request the first, or leave everything a    *)
(* release looks at, accounts that it switches on aside.                   *)
EditOf(r) ==
    \/ rows'[r].status # "active" /\ (rows'[r].status = "none" => rows[r].status = "none")
    \/ rows'[r].status = "active" /\ rows'[r].version > rows[r].version /\ rows'[r].live = "syncing"
    \/ rows'[r].status = "active" /\ rows[r].status = "none" /\ rows'[r].live = "syncing"
    \/ /\ rows'[r].status = rows[r].status /\ rows'[r].terms = rows[r].terms
       /\ rows'[r].version = rows[r].version /\ rows'[r].live = rows[r].live
       /\ rows'[r].context = rows[r].context
       /\ overlooked[r] \subseteq overlooked'[r]
       /\ AskedEnabled(r)' \subseteq AskedEnabled(r) \cup overlooked'[r]

(* What it does to the request.                                            *)
RequestOf(r) ==
    /\ rows'[r].version >= rows[r].version
    /\ \/ aout'[r] = aout[r]
       \/ /\ aout'[r].status = "pending" /\ aout'[r].version = rows'[r].version
          /\ aout'[r].tries = 0 /\ rows'[r].status = "active"

LEMMA EditKeeps ==
    ASSUME ActivationInv, ActivationRows', activator' = activator,
           \A r \in Rows : RequestOf(r),
           \A r \in Rows \ SystemRows : EditOf(r)
    PROVE  ActivationInv'
<1> USE DEF ActivationInv
<1>1. OpenRequests'
  <2> SUFFICES ASSUME NEW r \in Rows
               PROVE  /\ activator[r].step \notin {"idle", "deferred", "failed"}
                           => aout'[r].status \in {"pending", "processing"}
                      /\ aout'[r].status \in {"pending", "processing"} => aout'[r].tries <= ActivationTries
                      /\ activator[r].step = "defer" => activator[r].tries < ActivationTries
    BY DEF OpenRequests
  <2>1. RequestOf(r)
    OBVIOUS
  <2> QED  BY <2>1, ActivationAssumption DEF OpenRequests, RequestOf
<1>2. ASSUME NEW r \in Rows \ SystemRows PROVE OwnersRow(r)'
  <2>1. /\ rows[r] \in Row /\ rows'[r] \in Row /\ aout[r] \in Request /\ aout'[r] \in Request
        /\ activator[r] \in Activation
    BY DEF ActivationRows
  <2>2. OwnersRow(r) /\ EditOf(r) /\ RequestOf(r)
    OBVIOUS
  <2>3. NotAhead(r)'
    BY <2>1, <2>2 DEF OwnersRow, NotAhead, EditOf, RequestOf, Row, Request, Activation
  <2>4. CASE rows'[r].status # "active"
    BY <2>3, <2>4 DEF OwnersRow, Loaded
  <2>5. CASE rows'[r].version > rows[r].version /\ rows'[r].live = "syncing"
    BY <2>1, <2>2, <2>3, <2>5 DEF OwnersRow, Loaded, NotAhead, Row, Activation
  <2>6. CASE rows[r].status = "none" /\ rows'[r].live = "syncing"
    BY <2>2, <2>3, <2>6 DEF OwnersRow, Loaded, NotAhead
  <2>7. CASE /\ rows'[r].status = rows[r].status /\ rows'[r].terms = rows[r].terms
             /\ rows'[r].version = rows[r].version /\ rows'[r].live = rows[r].live
             /\ rows'[r].context = rows[r].context
             /\ overlooked[r] \subseteq overlooked'[r]
             /\ AskedEnabled(r)' \subseteq AskedEnabled(r) \cup overlooked'[r]
    <3>1. \A c : Describes(c, r) => Describes(c, r)'
      BY <2>7 DEF Describes
    <3> QED  BY <2>2, <2>3, <2>7, <3>1 DEF OwnersRow, Loaded
  <2> QED  BY <2>2, <2>4, <2>5, <2>6, <2>7 DEF EditOf
<1> QED  BY <1>1, <1>2

(* enqueueWhitelistActivation over the rows as an edit has saved them: a   *)
(* row that is due gets the next version, or keeps the one it has.         *)
Due(rs, which, r) == r \in which /\ rs[r].status = "active"

Raised(row, by) == [row EXCEPT !.version = row.version + by, !.live = "syncing", !.context = NoContext]

LEMMA RaisedRow ==
    ASSUME NEW row \in Row, NEW by \in Nat
    PROVE  /\ Raised(row, by) \in Row /\ Raised(row, by).version = row.version + by
           /\ Raised(row, by).status = row.status /\ Raised(row, by).live = "syncing"
<1>1. NoContext \in Context
  BY DEF NoContext, Context
<1>2. row.version + by \in Nat
  BY DEF Row
<1> HIDE DEF Context
<1>3. Raised(row, by) \in Row
  BY <1>1, <1>2 DEF Raised, Row
<1> QED  BY <1>3 DEF Raised, Row

LEMMA Requested ==
    ASSUME ActivationRows, NEW rs \in [Rows -> Row], NEW which, NEW increment \in BOOLEAN,
           NEW by, by = (IF increment THEN 1 ELSE 0),
           EnqueueActivation(rs, which, increment)
    PROVE  /\ rows' \in [Rows -> Row] /\ aout' \in [Rows -> Request]
           /\ \A r \in Rows : Due(rs, which, r) =>
                /\ rows'[r] = Raised(rs[r], by)
                /\ aout'[r] = [status |-> "pending", version |-> rs[r].version + by, tries |-> 0]
           /\ \A r \in Rows : ~Due(rs, which, r) => rows'[r] = rs[r] /\ aout'[r] = aout[r]
<1>1. NoContext \in Context /\ by \in Nat
  BY DEF NoContext, Context
<1>2. ASSUME NEW r \in Rows
      PROVE  /\ Raised(rs[r], by) \in Row
             /\ [status |-> "pending", version |-> rs[r].version + by, tries |-> 0] \in Request
  <2>1. rs[r] \in Row /\ rs[r].version + by \in Nat
    BY <1>1 DEF Row
  <2>2. Raised(rs[r], by) \in Row
    BY <1>1, <2>1, RaisedRow
  <2> QED  BY <2>1, <2>2, ActivationAssumption DEF Request, OutboxStatuses
<1>3. /\ rows' = [r \in Rows |-> IF Due(rs, which, r) THEN Raised(rs[r], by) ELSE rs[r]]
      /\ aout' = [r \in Rows |-> IF Due(rs, which, r)
                    THEN [status |-> "pending", version |-> rs[r].version + by, tries |-> 0]
                    ELSE aout[r]]
  BY DEF EnqueueActivation, Due, Raised
<1>4. \A r \in Rows : rs[r] \in Row /\ aout[r] \in Request
  BY DEF ActivationRows
<1> QED  BY <1>2, <1>3, <1>4

(* An edit that saves rows and requests activations: what is left to show  *)
(* is about the rows no activation is requested of.                        *)
LEMMA EnqueueKeeps ==
    ASSUME ActivationInv, NEW rs \in [Rows -> Row], NEW which, NEW increment \in BOOLEAN,
           EnqueueActivation(rs, which, increment), activator' = activator,
           \A r \in Rows : rs[r].version = rows[r].version,
           launch' \in [status : {"none", "active", "paused", "triggered"}, asks : [Handles -> SUBSET Events]],
           enabled' \subseteq Handles, overlooked' \in [Rows -> SUBSET Handles],
           edits' \in 0 .. MaxEdits,
           \A r \in which \ SystemRows : increment \/ rs[r].status # "active" \/ rows[r].status = "none",
           \A r \in which : rs[r].status = "none" => rows[r].status = "none",
           \A r \in Rows \ (SystemRows \cup which) : EditOf(r)
    PROVE  ActivationInv'
<1>1. ActivationRows
  BY DEF ActivationInv
<1> DEFINE by == IF increment THEN 1 ELSE 0
<1>2. by \in Nat /\ (increment => by = 1)
  OBVIOUS
<1> HIDE DEF by
<1>3. /\ rows' \in [Rows -> Row] /\ aout' \in [Rows -> Request]
      /\ \A r \in Rows : Due(rs, which, r) =>
           /\ rows'[r] = Raised(rs[r], by)
           /\ aout'[r] = [status |-> "pending", version |-> rs[r].version + by, tries |-> 0]
      /\ \A r \in Rows : ~Due(rs, which, r) => rows'[r] = rs[r] /\ aout'[r] = aout[r]
  BY <1>1, Requested DEF by
<1>4. ActivationRows'
  BY <1>1, <1>3 DEF ActivationRows
<1>5. ASSUME NEW r \in Rows
      PROVE  /\ rs[r] \in Row /\ rows[r] \in Row /\ rs[r].version = rows[r].version
             /\ rows[r].version \in Nat
             /\ Due(rs, which, r) => /\ rows'[r].version = rows[r].version + by
                                     /\ rows'[r].live = "syncing" /\ rows'[r].status = "active"
  <2>1. rs[r] \in Row /\ rows[r] \in Row
    BY <1>1 DEF ActivationRows
  <2>2. ASSUME Due(rs, which, r)
        PROVE  /\ rows'[r].version = rows[r].version + by
               /\ rows'[r].live = "syncing" /\ rows'[r].status = "active"
    <3>1. rows'[r] = Raised(rs[r], by) /\ rs[r].status = "active"
      BY <1>3, <2>2 DEF Due
    <3> HIDE <1>3
    <3> QED  BY <1>2, <2>1, <3>1, RaisedRow
  <2> QED  BY <2>1, <2>2 DEF Row
<1>6. ASSUME NEW r \in Rows PROVE RequestOf(r)
  <2>1. CASE Due(rs, which, r)
    BY <1>2, <1>3, <1>5, <2>1 DEF RequestOf
  <2>2. CASE ~Due(rs, which, r)
    BY <1>3, <1>5, <2>2 DEF RequestOf, Row
  <2> QED  BY <2>1, <2>2
<1>7. ASSUME NEW r \in Rows \ SystemRows PROVE EditOf(r)
  <2>1. CASE r \notin which
    BY <2>1
  <2>2. CASE Due(rs, which, r)
    BY <2>2, <1>2, <1>3, <1>5 DEF EditOf, Due
  <2>3. CASE r \in which /\ ~Due(rs, which, r)
    BY <2>3, <1>3 DEF EditOf, Due
  <2> QED  BY <2>1, <2>2, <2>3
<1> QED  BY <1>1, <1>4, <1>6, <1>7, EditKeeps

(* The rows that an edit does not save: accounts may have been switched    *)
(* off, or on by being named.                                              *)
LEMMA LeftAlone ==
    ASSUME ActivationInv, NEW r \in Rows, NEW named,
           rows'[r] = rows[r], aout'[r] = aout[r],
           enabled' \subseteq enabled \cup named, Overlooked(named)
    PROVE  EditOf(r)
<1>1. overlooked'[r] = overlooked[r] \cup (named \ enabled)
  BY DEF Overlooked
<1>2. AskedEnabled(r)' \subseteq AskedEnabled(r) \cup overlooked'[r]
  BY <1>1 DEF AskedEnabled
<1> QED  BY <1>1, <1>2 DEF EditOf, ActivationInv, ActivationRows

LEMMA OverlookedTyped ==
    ASSUME ActivationRows, NEW named \in SUBSET Handles, Overlooked(named)
    PROVE  overlooked' \in [Rows -> SUBSET Handles]
BY DEF ActivationRows, Overlooked

LEMMA AskedHandles == ASSUME NEW asks PROVE Asked(asks) \in SUBSET Handles
BY DEF Asked

(* An edit of one row.                                                     *)
LEMMA OneRequested ==
    ASSUME ActivationInv, NEW r \in Rows, NEW rs \in [Rows -> Row], NEW increment \in BOOLEAN,
           EnqueueActivation(rs, {r}, increment), activator' = activator,
           \A q \in Rows \ {r} : rs[q] = rows[q], rs[r].version = rows[r].version,
           launch' \in [status : {"none", "active", "paused", "triggered"}, asks : [Handles -> SUBSET Events]],
           NEW named \in SUBSET Handles, enabled' \subseteq enabled \cup named, Overlooked(named),
           edits' \in 0 .. MaxEdits,
           r \in SystemRows \/ increment \/ rs[r].status # "active" \/ rows[r].status = "none",
           rs[r].status = "none" => rows[r].status = "none"
    PROVE  ActivationInv'
<1>1. \A q \in Rows \ {r} : rows'[q] = rows[q] /\ aout'[q] = aout[q]
  BY DEF EnqueueActivation
<1>2. \A q \in Rows \ {r} : EditOf(q)
  BY <1>1, LeftAlone
<1>3. \A q \in Rows : rs[q].version = rows[q].version
  OBVIOUS
<1>4. overlooked' \in [Rows -> SUBSET Handles] /\ enabled' \subseteq Handles
  BY OverlookedTyped DEF ActivationInv, ActivationRows
<1>5. \A q \in {r} \ SystemRows : increment \/ rs[q].status # "active" \/ rows[q].status = "none"
  OBVIOUS
<1>6. \A q \in {r} : rs[q].status = "none" => rows[q].status = "none"
  OBVIOUS
<1>7. \A q \in Rows \ (SystemRows \cup {r}) : EditOf(q)
  BY <1>2
<1> QED  BY <1>3, <1>4, <1>5, <1>6, <1>7, EnqueueKeeps

LEMMA OwnerStep == ActivationInv /\ OwnerEdits => ActivationInv'
<1> SUFFICES ASSUME ActivationInv, OwnerEdits PROVE ActivationInv'
  OBVIOUS
<1> USE DEF Edit, Elsewhere
<1>0. /\ ActivationRows /\ MaxEdits \in Nat
      /\ edits < MaxEdits /\ edits' = edits + 1 => edits' \in 0 .. MaxEdits
  BY ActivationAssumption DEF ActivationInv, ActivationRows
<1>1. ASSUME NEW r \in Rows, AddWhitelist(r) PROVE ActivationInv'
  <2>1. PICK asks \in Asks, terms \in TradeTerms :
         LET merge == rows[r].status = "active"
             joined == [h \in Handles |-> IF asks[h] # {} THEN asks[h] ELSE rows[r].asks[h]]
             saved == [rows EXCEPT ![r] =
                         IF merge THEN [@ EXCEPT !.asks = joined]
                         ELSE [@ EXCEPT !.status = "active", !.asks = asks, !.terms = terms]]
         IN  /\ rows[r].status \in {"none", "active"}
             /\ IF merge /\ Asked(joined) = Asked(rows[r].asks)
                THEN rows' = saved /\ aout' = aout
                ELSE EnqueueActivation(saved, {r}, merge)
             /\ FindOrCreateActors(Asked(saved[r].asks))
    BY <1>1 DEF AddWhitelist
  <2>2. asks \in [Handles -> SUBSET Events]
    BY ActivationAssumption
  <2> DEFINE joined == [h \in Handles |-> IF asks[h] # {} THEN asks[h] ELSE rows[r].asks[h]]
             merge == rows[r].status = "active"
  <2>3. rows[r] \in Row /\ joined \in [Handles -> SUBSET Events]
    BY <1>0, <2>2 DEF ActivationRows, Row
  <2>4. PICK saved :
          /\ saved = [rows EXCEPT ![r] =
                         IF merge THEN [rows[r] EXCEPT !.asks = joined]
                         ELSE [rows[r] EXCEPT !.status = "active", !.asks = asks, !.terms = terms]]
          /\ IF merge /\ Asked(joined) = Asked(rows[r].asks)
             THEN rows' = saved /\ aout' = aout
             ELSE EnqueueActivation(saved, {r}, merge)
          /\ FindOrCreateActors(Asked(saved[r].asks))
    BY <2>1
  <2>5. /\ saved \in [Rows -> Row] /\ saved[r].version = rows[r].version
        /\ \A q \in Rows \ {r} : saved[q] = rows[q]
        /\ saved[r].status = "active" /\ (merge => saved[r] = [rows[r] EXCEPT !.asks = joined])
    <3>1. IF merge THEN saved[r] = [rows[r] EXCEPT !.asks = joined]
          ELSE saved[r] = [rows[r] EXCEPT !.status = "active", !.asks = asks, !.terms = terms]
      BY <1>0, <2>4 DEF ActivationRows
    <3>2. saved[r] \in Row /\ saved[r].version = rows[r].version /\ saved[r].status = "active"
      BY <2>2, <2>3, <3>1 DEF Row
    <3> QED  BY <1>0, <2>4, <3>1, <3>2 DEF ActivationRows
  <2>6. PICK named \in SUBSET Handles : named = Asked(saved[r].asks) /\ FindOrCreateActors(named)
    BY <2>4, AskedHandles
  <2>7. /\ enabled' = enabled \cup named /\ Overlooked(named)
        /\ overlooked' \in [Rows -> SUBSET Handles] /\ enabled' \subseteq Handles
        /\ launch' = launch /\ activator' = activator /\ edits' \in 0 .. MaxEdits
    BY <1>0, <1>1, <2>6, OverlookedTyped DEF AddWhitelist, FindOrCreateActors, ActivationRows
  <2>8. rows[r].status \in {"none", "active"} /\ merge \in BOOLEAN
    BY <2>1
  <2>9. CASE merge /\ Asked(joined) = Asked(rows[r].asks)
    <3>1. rows' = saved /\ aout' = aout
      BY <2>4, <2>9
    <3>2. EditOf(r)
      <4>1. rows'[r] = [rows[r] EXCEPT !.asks = joined]
        BY <2>5, <2>9, <3>1
      <4>2. overlooked'[r] = overlooked[r] \cup (named \ enabled)
        BY <2>7, <3>1 DEF Overlooked
      <4>3. Asked(rows'[r].asks) = Asked(rows[r].asks)
        BY <2>3, <2>9, <4>1 DEF Row
      <4>4. AskedEnabled(r)' = Asked(rows'[r].asks) \cap enabled'
        BY DEF AskedEnabled, Asked
      <4>5. AskedEnabled(r)' \subseteq AskedEnabled(r) \cup overlooked'[r]
        BY <2>7, <4>2, <4>3, <4>4 DEF AskedEnabled
      <4> QED  BY <2>3, <4>1, <4>2, <4>5 DEF EditOf, Row
    <3>3. \A q \in Rows \ {r} : EditOf(q)
      BY <2>5, <2>7, <3>1, LeftAlone
    <3>4. ActivationRows'
      BY <1>0, <2>5, <2>7, <3>1 DEF ActivationRows
    <3>5. \A q \in Rows : RequestOf(q)
      BY SMTT(30), <1>0, <2>5, <3>1 DEF RequestOf, ActivationRows, Row
    <3> QED  BY <2>7, <3>2, <3>3, <3>4, <3>5, EditKeeps
  <2>10. CASE ~(merge /\ Asked(joined) = Asked(rows[r].asks))
    <3>1. EnqueueActivation(saved, {r}, merge)
      BY <2>4, <2>10
    <3>2. launch' \in [status : {"none", "active", "paused", "triggered"}, asks : [Handles -> SUBSET Events]]
      BY <1>0, <2>7 DEF ActivationRows
    <3>3. merge \/ rows[r].status = "none"
      BY <2>8
    <3> HIDE DEF joined, merge
    <3> QED  BY <2>5, <2>7, <2>8, <3>1, <3>2, <3>3, OneRequested
  <2> QED  BY <2>9, <2>10
<1>2. ASSUME NEW r \in Rows, UpdateWhitelist(r) PROVE ActivationInv'
  <2>1. PICK asks \in Asks, terms \in TradeTerms :
          /\ EnqueueActivation([rows EXCEPT ![r].asks = asks, ![r].terms = terms], {r}, TRUE)
          /\ FindOrCreateActors(Asked(asks))
    BY <1>2 DEF UpdateWhitelist
  <2>2. asks \in [Handles -> SUBSET Events]
    BY ActivationAssumption
  <2>3. PICK rs : rs = [rows EXCEPT ![r].asks = asks, ![r].terms = terms]
    OBVIOUS
  <2>4. /\ rs \in [Rows -> Row] /\ rs[r].version = rows[r].version
        /\ rs[r].status = rows[r].status /\ \A q \in Rows \ {r} : rs[q] = rows[q]
    <3>1. rows \in [Rows -> Row] /\ rows[r] \in Row
      BY <1>0 DEF ActivationRows
    <3>2. /\ rs[r] = [rows[r] EXCEPT !.asks = asks, !.terms = terms] /\ rs = [q \in Rows |-> rs[q]]
          /\ \A q \in Rows \ {r} : rs[q] = rows[q]
      BY <2>3, <3>1
    <3>3. rs[r] \in Row /\ rs[r].version = rows[r].version /\ rs[r].status = rows[r].status
      BY <2>2, <3>1, <3>2 DEF Row
    <3> QED  BY <3>1, <3>2, <3>3
  <2>5. EnqueueActivation(rs, {r}, TRUE)
    BY <2>1, <2>3
  <2>6. PICK named \in SUBSET Handles : FindOrCreateActors(named)
    BY <2>1, AskedHandles
  <2>7. /\ launch' \in [status : {"none", "active", "paused", "triggered"}, asks : [Handles -> SUBSET Events]]
        /\ activator' = activator /\ edits' \in 0 .. MaxEdits
        /\ enabled' \subseteq enabled \cup named /\ Overlooked(named)
    BY <1>0, <1>2, <2>6 DEF UpdateWhitelist, FindOrCreateActors, ActivationRows
  <2> QED  BY <2>4, <2>5, <2>7, OneRequested
<1>3. ASSUME NEW r \in Rows, ChangeStatus(r) PROVE ActivationInv'
  <2>1. PICK status \in {"active", "paused"} :
          EnqueueActivation([rows EXCEPT ![r].status = status], {r}, TRUE)
    BY <1>3 DEF ChangeStatus
  <2>2. PICK rs : rs = [rows EXCEPT ![r].status = status]
    OBVIOUS
  <2>3. /\ rs \in [Rows -> Row] /\ rs[r].version = rows[r].version
        /\ rs[r].status # "none" /\ \A q \in Rows \ {r} : rs[q] = rows[q]
    <3>1. rows \in [Rows -> Row] /\ rows[r] \in Row
      BY <1>0 DEF ActivationRows
    <3>2. /\ rs[r] = [rows[r] EXCEPT !.status = status] /\ rs = [q \in Rows |-> rs[q]]
          /\ \A q \in Rows \ {r} : rs[q] = rows[q]
      BY <2>2, <3>1
    <3>3. rs[r] \in Row /\ rs[r].version = rows[r].version /\ rs[r].status # "none"
      BY <3>1, <3>2 DEF Row
    <3> QED  BY <3>1, <3>2, <3>3
  <2>4. EnqueueActivation(rs, {r}, TRUE)
    BY <2>1, <2>2
  <2>5. /\ launch' \in [status : {"none", "active", "paused", "triggered"}, asks : [Handles -> SUBSET Events]]
        /\ activator' = activator /\ edits' \in 0 .. MaxEdits
        /\ enabled' \subseteq enabled \cup {} /\ Overlooked({})
    BY <1>0, <1>3 DEF ChangeStatus, ActivationRows
  <2>6. {} \in SUBSET Handles
    OBVIOUS
  <2> QED  BY <2>3, <2>4, <2>5, <2>6, OneRequested
<1>4. ASSUME NEW r \in Rows, RetryActivation(r) PROVE ActivationInv'
  <2>1. /\ launch' \in [status : {"none", "active", "paused", "triggered"}, asks : [Handles -> SUBSET Events]]
        /\ activator' = activator /\ edits' \in 0 .. MaxEdits
        /\ enabled' \subseteq enabled \cup {} /\ Overlooked({})
        /\ EnqueueActivation(rows, {r}, TRUE) /\ rows \in [Rows -> Row]
    BY <1>0, <1>4 DEF RetryActivation, ActivationRows
  <2>2. {} \in SUBSET Handles
    OBVIOUS
  <2> QED  BY <2>1, <2>2, OneRequested
<1>5. CASE ReactivateChains
  <2>1. /\ launch' \in [status : {"none", "active", "paused", "triggered"}, asks : [Handles -> SUBSET Events]]
        /\ activator' = activator /\ edits' \in 0 .. MaxEdits
        /\ overlooked' \in [Rows -> SUBSET Handles] /\ enabled' \subseteq Handles
        /\ EnqueueActivation(rows, Rows, TRUE) /\ rows \in [Rows -> Row]
    BY <1>0, <1>5, OverlookedTyped DEF ReactivateChains, ActivationRows
  <2>2. Rows \ (SystemRows \cup Rows) = {}
    OBVIOUS
  <2> QED  BY <2>1, <2>2, EnqueueKeeps
<1>6. ASSUME NEW r \in Rows, DeleteWhitelist(r) PROVE ActivationInv'
  <2>1. /\ rows' = [rows EXCEPT ![r].status = "archived"] /\ rows[r] \in Row
        /\ rows \in [Rows -> Row] /\ aout' = aout /\ overlooked' = overlooked /\ enabled' = enabled
        /\ activator' = activator
    BY <1>0, <1>6 DEF DeleteWhitelist, ActivationRows
  <2>2. /\ rows' \in [Rows -> Row] /\ rows'[r].version = rows[r].version
        /\ rows'[r].status = "archived" /\ \A q \in Rows \ {r} : rows'[q] = rows[q]
    BY <2>1 DEF Row
  <2>3. ActivationRows'
    BY <1>0, <1>6, <2>1, <2>2 DEF DeleteWhitelist, ActivationRows
  <2>4. \A q \in Rows : RequestOf(q)
    BY <2>1, <2>2 DEF RequestOf, Row
  <2>5. \A q \in Rows \ {r} : EditOf(q)
    <3>1. ASSUME NEW q PROVE AskedEnabled(q)' = Asked(rows'[q].asks) \cap enabled'
      BY DEF AskedEnabled, Asked
    <3> QED  BY <2>1, <2>2, <3>1 DEF EditOf, AskedEnabled
  <2>6. EditOf(r)
    BY <2>2 DEF EditOf
  <2> QED  BY <2>1, <2>3, <2>4, <2>5, <2>6, EditKeeps
<1>7. ASSUME NEW h \in Handles, ToggleKol(h) PROVE ActivationInv'
  <2>1. PICK which : /\ EnqueueActivation(rows, which, TRUE)
                     /\ which = IF h \in enabled THEN {} ELSE {r \in Rows : rows[r].asks[h] # {}}
    BY <1>7 DEF ToggleKol
  <2>2. /\ launch' \in [status : {"none", "active", "paused", "triggered"}, asks : [Handles -> SUBSET Events]]
        /\ activator' = activator /\ edits' \in 0 .. MaxEdits
        /\ overlooked' \in [Rows -> SUBSET Handles] /\ enabled' \subseteq Handles
        /\ rows \in [Rows -> Row]
        /\ enabled' \subseteq enabled \cup {h} /\ (h \in enabled => enabled' \subseteq enabled)
        /\ Overlooked({})
    BY <1>0, <1>7, OverlookedTyped DEF ToggleKol, ActivationRows
  <2>3. ASSUME NEW r \in Rows \ (SystemRows \cup which) PROVE EditOf(r)
    <3>1. rows'[r] = rows[r] /\ aout'[r] = aout[r]
      BY <2>1 DEF EnqueueActivation
    <3>2. overlooked'[r] = overlooked[r]
      BY <2>2, <3>1 DEF Overlooked
    <3>3. h \notin enabled => h \notin Asked(rows[r].asks)
      BY <2>1 DEF Asked
    <3>4. AskedEnabled(r)' = Asked(rows[r].asks) \cap enabled'
      BY <3>1 DEF AskedEnabled, Asked
    <3>5. AskedEnabled(r)' \subseteq AskedEnabled(r)
      BY <2>2, <3>3, <3>4 DEF AskedEnabled
    <3> QED  BY <3>1, <3>2, <3>5 DEF EditOf
  <2> QED  BY <2>1, <2>2, <2>3, EnqueueKeeps
<1>8. CASE EditLaunchRule
  <2>1. PICK asks \in RuleAsks, status \in {"active", "paused", "none"} :
          launch' = [status |-> status, asks |-> IF status = "none" THEN NoAsks ELSE asks]
    BY <1>8 DEF EditLaunchRule
  <2>2. launch' \in [status : {"none", "active", "paused", "triggered"}, asks : [Handles -> SUBSET Events]]
    BY <2>1, ActivationAssumption DEF NoAsks
  <2>3. PICK named \in SUBSET Handles : FindOrCreateActors(named)
    BY <1>8, AskedHandles DEF EditLaunchRule
  <2>4. /\ rows' = rows /\ aout' = aout /\ activator' = activator /\ edits' \in 0 .. MaxEdits
        /\ enabled' = enabled \cup named /\ Overlooked(named)
        /\ overlooked' \in [Rows -> SUBSET Handles]
    BY <1>0, <1>8, <2>3, OverlookedTyped DEF EditLaunchRule, FindOrCreateActors
  <2>5. ActivationRows'
    BY <1>0, <2>2, <2>4 DEF ActivationRows
  <2>6. \A r \in Rows : EditOf(r)
    BY <2>4, LeftAlone
  <2>7. \A r \in Rows : RequestOf(r)
    BY <1>0, <2>4 DEF RequestOf, ActivationRows, Row
  <2> QED  BY <2>4, <2>5, <2>6, <2>7, EditKeeps
<1>9. ASSUME NEW r \in Rows, ConsumeRule(r) PROVE ActivationInv'
  <2>1. /\ launch' \in [status : {"none", "active", "paused", "triggered"}, asks : [Handles -> SUBSET Events]]
        /\ activator' = activator /\ edits' \in 0 .. MaxEdits
    BY <1>0, <1>9 DEF ConsumeRule, ActivationRows
  <2>2. CASE UNCHANGED <<rows, aout, enabled, overlooked>>
    <3>1. ActivationRows'
      BY <1>0, <2>1, <2>2 DEF ActivationRows
    <3>2. ASSUME NEW q \in Rows PROVE EditOf(q)
      BY <2>2 DEF EditOf, AskedEnabled, Asked
    <3>3. \A q \in Rows : RequestOf(q)
      BY <1>0, <2>2 DEF RequestOf, ActivationRows, Row
    <3> QED  BY <2>1, <3>1, <3>2, <3>3, EditKeeps
  <2>3. CASE \E h \in Asked(launch.asks) \cap enabled, terms \in TradeTerms : \E e \in launch.asks[h] :
            /\ rows[r].status \in {"none", "active"}
            /\ EnqueueActivation([rows EXCEPT ![r].status = "active", ![r].asks[h] = {e},
                                   ![r].terms = IF rows[r].status = "none" THEN terms ELSE @],
                                 {r}, rows[r].status = "active")
            /\ FindOrCreateActors(Asked(rows[r].asks))
    <3>1. PICK h \in Asked(launch.asks) \cap enabled, terms \in TradeTerms : \E e \in launch.asks[h] :
            /\ rows[r].status \in {"none", "active"}
            /\ EnqueueActivation([rows EXCEPT ![r].status = "active", ![r].asks[h] = {e},
                                   ![r].terms = IF rows[r].status = "none" THEN terms ELSE @],
                                 {r}, rows[r].status = "active")
            /\ FindOrCreateActors(Asked(rows[r].asks))
      BY <2>3
    <3>2. PICK e \in launch.asks[h] :
            /\ rows[r].status \in {"none", "active"}
            /\ EnqueueActivation([rows EXCEPT ![r].status = "active", ![r].asks[h] = {e},
                                   ![r].terms = IF rows[r].status = "none" THEN terms ELSE @],
                                 {r}, rows[r].status = "active")
            /\ FindOrCreateActors(Asked(rows[r].asks))
      BY <3>1
    <3>3. PICK rs : rs = [rows EXCEPT ![r].status = "active", ![r].asks[h] = {e},
                                   ![r].terms = IF rows[r].status = "none" THEN terms ELSE @]
      OBVIOUS
    <3>4. /\ rows \in [Rows -> Row] /\ rows[r] \in Row /\ h \in Handles
          /\ {e} \in SUBSET Events
      BY <1>0 DEF ActivationRows
    <3>5. /\ \A q \in Rows \ {r} : rs[q] = rows[q]
          /\ rs[r] = [rows[r] EXCEPT !.status = "active", !.asks = [rows[r].asks EXCEPT ![h] = {e}],
                                     !.terms = IF rows[r].status = "none" THEN terms ELSE rows[r].terms]
          /\ rs = [q \in Rows |-> rs[q]]
      BY <3>3, <3>4 DEF Row
    <3>6. [rows[r].asks EXCEPT ![h] = {e}] \in [Handles -> SUBSET Events]
      BY <3>4 DEF Row
    <3>7. rs[r] \in Row /\ rs[r].version = rows[r].version /\ rs[r].status = "active"
      BY <3>4, <3>5, <3>6 DEF Row
    <3>8. rs \in [Rows -> Row]
      BY <3>4, <3>5, <3>7
    <3>9. PICK named \in SUBSET Handles : FindOrCreateActors(named)
      BY <3>2, AskedHandles
    <3>10. enabled' \subseteq enabled \cup named /\ Overlooked(named)
      BY <3>9 DEF FindOrCreateActors
    <3>11. PICK merge \in BOOLEAN : merge = (rows[r].status = "active")
      OBVIOUS
    <3>12. EnqueueActivation(rs, {r}, merge) /\ (merge \/ rows[r].status = "none")
      BY <3>2, <3>3, <3>11
    <3>13. rs[r].status # "none"
      BY <3>7
    <3> QED
      BY ONLY ActivationInv, <2>1, <3>5, <3>7, <3>8, <3>9, <3>10, <3>11, <3>12, <3>13, OneRequested
  <2> QED  BY <1>9, <2>2, <2>3 DEF ConsumeRule
<1>10. ASSUME NEW r \in Rows, Materialize(r) PROVE ActivationInv'
  <2>1. PICK asks \in Asks, terms \in TradeTerms :
         EnqueueActivation([rows EXCEPT ![r].status = "active", ![r].terms = terms,
                                        ![r].asks = IF @ = NoAsks THEN asks ELSE @], {r}, FALSE)
    BY <1>10 DEF Materialize
  <2>2. asks \in [Handles -> SUBSET Events] /\ rows \in [Rows -> Row] /\ rows[r] \in Row
    BY <1>0, ActivationAssumption DEF ActivationRows
  <2>3. PICK rs : rs = [rows EXCEPT ![r].status = "active", ![r].terms = terms,
                                    ![r].asks = IF @ = NoAsks THEN asks ELSE @]
    OBVIOUS
  <2>4. /\ rs \in [Rows -> Row] /\ rs[r].version = rows[r].version
        /\ rs[r].status = "active" /\ \A q \in Rows \ {r} : rs[q] = rows[q]
    BY <2>2, <2>3 DEF Row
  <2>5. EnqueueActivation(rs, {r}, FALSE)
    BY <2>1, <2>3
  <2>6. /\ launch' \in [status : {"none", "active", "paused", "triggered"}, asks : [Handles -> SUBSET Events]]
        /\ activator' = activator /\ edits' \in 0 .. MaxEdits /\ r \in SystemRows
        /\ enabled' \subseteq enabled \cup {} /\ Overlooked({})
    BY <1>0, <1>10 DEF Materialize, ActivationRows
  <2>7. {} \in SUBSET Handles
    OBVIOUS
  <2> QED  BY <2>4, <2>5, <2>6, <2>7, OneRequested
<1> QED
  BY <1>1, <1>2, <1>3, <1>4, <1>5, <1>6, <1>7, <1>8, <1>9, <1>10 DEF OwnerEdits

-----------------------------------------------------------------------------
(* The worker.                                                             *)

(* A step of the worker on the activation it has in hand: the row keeps    *)
(* what a release looks at.                                                *)
WorkOf(r) ==
    /\ activator[r].step # "idle" /\ UNCHANGED <<enabled, overlooked>>
    /\ \A q \in Rows \ {r} : rows'[q] = rows[q] /\ aout'[q] = aout[q] /\ activator'[q] = activator[q]
    /\ rows'[r].status = rows[r].status /\ rows'[r].asks = rows[r].asks
    /\ rows'[r].terms = rows[r].terms /\ rows'[r].version = rows[r].version
    /\ aout'[r].version = aout[r].version
    /\ activator'[r].version = activator[r].version \/ activator'[r] = AtRest
    /\ activator'[r].step \notin {"idle", "deferred", "failed"}
         => aout'[r].status \in {"pending", "processing"}
    /\ aout'[r].status \in {"pending", "processing"} => aout'[r].tries <= ActivationTries
    /\ activator'[r].step = "defer" => activator'[r].tries < ActivationTries

(* Whatever the worker has in hand or marks the row with is the row's.     *)
MarkedRight(r) ==
    rows[r].status = "active" =>
        /\ activator'[r].version = rows[r].version /\ activator'[r].step \notin {"idle", "load"}
             => Describes(activator'[r].context, r)
        /\ rows'[r].live = "live_ready" => Describes(rows'[r].context, r)

LEMMA WorkedOn ==
    ASSUME ActivationInv, NEW r \in Rows, ActivationRows', WorkOf(r),
           r \notin SystemRows => MarkedRight(r)
    PROVE  ActivationInv'
<1> USE DEF WorkOf
<1>1. OpenRequests'
  BY DEF ActivationInv, OpenRequests
<1>2. \A q \in Rows : AskedEnabled(q)' = AskedEnabled(q)
  BY DEF AskedEnabled, Asked
<1>3. \A q \in Rows : \A c : Describes(c, q) => Describes(c, q)'
  BY <1>2 DEF Describes
<1>4. ASSUME NEW q \in Rows \ (SystemRows \cup {r}) PROVE OwnersRow(q)'
  BY <1>3 DEF OwnersRow, NotAhead, Loaded, ActivationInv
<1>5. ASSUME r \notin SystemRows PROVE OwnersRow(r)'
  <2>1. OwnersRow(r)
    BY <1>5 DEF ActivationInv
  <2>2. rows[r].status # "none" /\ NotAhead(r)'
    BY <2>1 DEF OwnersRow, NotAhead, AtRest, ActivationInv, ActivationRows, Row
  <2> QED  BY <1>3, <1>5, <2>2 DEF OwnersRow, Loaded, MarkedRight
<1> QED  BY <1>1, <1>4, <1>5 DEF ActivationInv

(* A step that leaves the release and what was loaded as they are, or gives*)
(* the activation up.                                                      *)
LEMMA NothingMarked ==
    ASSUME ActivationInv, NEW r \in Rows \ SystemRows,
           /\ rows'[r].live = "live_ready" => rows[r].live = "live_ready"
           /\ rows'[r].context = rows[r].context,
           \/ activator'[r].step \in {"idle", "load"}
           \/ /\ activator'[r].version = activator[r].version
              /\ activator'[r].context = activator[r].context
              /\ activator[r].step \notin {"idle", "load"}
    PROVE  MarkedRight(r)
BY DEF ActivationInv, OwnersRow, Loaded, MarkedRight

LEMMA WorkerStep == ActivationInv /\ (ActivationWork \/ ActivationWorkerExits) => ActivationInv'
<1> SUFFICES ASSUME ActivationInv, ActivationWork \/ ActivationWorkerExits PROVE ActivationInv'
  OBVIOUS
<1> USE DEF OfTheActivation
<1>0. /\ ActivationRows /\ ActivationTries \in Nat /\ AtRest \in Activation
      /\ \A r \in Rows : /\ rows[r] \in Row /\ aout[r] \in Request /\ activator[r] \in Activation
                         /\ (activator[r].step \notin {"idle", "deferred", "failed"}
                               => aout[r].status \in {"pending", "processing"})
                         /\ (aout[r].status \in {"pending", "processing"}
                               => aout[r].tries <= ActivationTries)
      /\ \A r \in Rows \ SystemRows : OwnersRow(r)
  <2>1. NoContext \in Context /\ AtRest \in Activation
    BY ActivationAssumption DEF NoContext, Context, AtRest, Activation, Steps
  <2> QED  BY <2>1, ActivationAssumption DEF ActivationInv, ActivationRows, OpenRequests
<1>1. CASE ClaimActivations
  <2>1. PICK batch \in SUBSET {r \in Rows : aout[r].status \in {"pending", "processing"}} :
         /\ aout' = [r \in Rows |-> IF r \in batch THEN [aout[r] EXCEPT !.status = "processing"]
                                    ELSE aout[r]]
         /\ activator' = [r \in Rows |-> IF r \notin batch THEN AtRest ELSE
                         [AtRest EXCEPT !.step = "load", !.version = aout[r].version,
                                        !.tries = aout[r].tries]]
    BY <1>1 DEF ClaimActivations
  <2>2. ASSUME NEW r \in Rows
        PROVE  /\ aout'[r] \in Request /\ activator'[r] \in Activation
               /\ activator'[r].step \in {"idle", "load"}
               /\ aout'[r].version = aout[r].version /\ aout'[r].tries = aout[r].tries
               /\ activator'[r].version \in {0, aout[r].version}
               /\ IF r \in batch THEN aout'[r].status = "processing"
                  ELSE aout'[r] = aout[r] /\ activator'[r].step = "idle"
    <3>1. CASE r \in batch
      <4>1. /\ aout'[r] = [aout[r] EXCEPT !.status = "processing"]
            /\ activator'[r] = [AtRest EXCEPT !.step = "load", !.version = aout[r].version,
                                              !.tries = aout[r].tries]
        BY <2>1, <3>1
      <4>2. aout[r] \in Request /\ aout[r].tries \in 0 .. ActivationTries
        <5>1. aout[r].status \in {"pending", "processing"}
          BY <2>1, <3>1
        <5>2. aout[r] \in Request /\ aout[r].tries <= ActivationTries
          BY <1>0, <5>1
        <5> QED  BY <1>0, <5>2 DEF Request
      <4> QED  BY <1>0, <3>1, <4>1, <4>2 DEF Request, Activation, Steps, OutboxStatuses
    <3>2. CASE r \notin batch
      BY <1>0, <2>1, <3>2 DEF AtRest
    <3> QED  BY <3>1, <3>2
  <2>3. ActivationRows'
    BY <1>0, <1>1, <2>1, <2>2 DEF ClaimActivations, ActivationRows
  <2>4. OpenRequests'
    BY <1>0, <2>1, <2>2 DEF OpenRequests
  <2>5. ASSUME NEW r \in Rows \ SystemRows PROVE OwnersRow(r)'
    <3>1. rows' = rows /\ enabled' = enabled /\ overlooked' = overlooked
      BY <1>1 DEF ClaimActivations
    <3>2. OwnersRow(r) /\ rows[r].version \in Nat
      BY <1>0 DEF Row
    <3>3. NotAhead(r)'
      <4>1. /\ aout'[r].version = aout[r].version
            /\ activator'[r].version = 0 \/ activator'[r].version = aout[r].version
            /\ r \notin batch => aout'[r] = aout[r] /\ activator'[r].step = "idle"
        BY <2>2
      <4>2. aout[r].status = "none" => r \notin batch
        BY <2>1
      <4>3. /\ aout[r].version <= rows[r].version
            /\ rows[r].status = "none" => activator[r].step = "idle" /\ aout[r].status = "none"
        BY <3>2 DEF OwnersRow, NotAhead
      <4> QED  BY <3>1, <3>2, <4>1, <4>2, <4>3 DEF NotAhead
    <3>4. \A c : Describes(c, r)' <=> Describes(c, r)
      BY <3>1 DEF Describes, AskedEnabled
    <3> QED  BY <2>2, <3>1, <3>2, <3>3, <3>4 DEF OwnersRow, Loaded
  <2> QED  BY <2>3, <2>4, <2>5 DEF ActivationInv
<1>2. CASE ActivationWorkerExits
  <2>1. activator' = [r \in Rows |-> AtRest] /\ UNCHANGED <<rows, aout, launch, enabled, overlooked, edits>>
    BY <1>2 DEF ActivationWorkerExits
  <2>2. ActivationRows'
    BY <1>0, <2>1 DEF ActivationRows
  <2>3. \A r \in Rows : activator'[r].step = "idle" /\ activator'[r].version = 0
    BY <2>1 DEF AtRest
  <2>4. OpenRequests'
    BY <1>0, <2>1, <2>3 DEF OpenRequests
  <2>5. ASSUME NEW r \in Rows \ SystemRows PROVE OwnersRow(r)'
    <3>1. OwnersRow(r) /\ rows[r].version \in Nat
      BY <1>0 DEF Row
    <3>2. \A c : Describes(c, r)' <=> Describes(c, r)
      BY <2>1 DEF Describes, AskedEnabled
    <3> QED  BY <2>1, <2>3, <3>1, <3>2 DEF OwnersRow, NotAhead, Loaded
  <2> QED  BY <2>2, <2>4, <2>5 DEF ActivationInv
<1>3. ASSUME NEW r \in Rows, LoadContext(r) PROVE ActivationInv'
  <2>1. /\ activator[r].step = "load" /\ UNCHANGED <<rows, launch, enabled, overlooked, edits>>
        /\ rows[r] \in Row /\ aout[r] \in Request /\ activator[r] \in Activation
        /\ aout[r].status \in {"pending", "processing"} /\ aout[r].tries <= ActivationTries
        /\ rows \in [Rows -> Row] /\ aout \in [Rows -> Request] /\ activator \in [Rows -> Activation]
    BY <1>0, <1>3 DEF LoadContext, ActivationRows
  <2>2. CASE Superseded(r)
    <3>1. /\ activator' = [activator EXCEPT ![r] = AtRest]
          /\ aout' = [aout EXCEPT ![r].status =
                        IF aout[r].version = activator[r].version THEN "succeeded" ELSE "pending"]
      BY <1>3, <2>2 DEF LoadContext
    <3>2. /\ activator'[r] = AtRest /\ aout'[r].version = aout[r].version
          /\ aout'[r].tries = aout[r].tries /\ aout'[r] \in Request
          /\ aout' \in [Rows -> Request] /\ activator' \in [Rows -> Activation]
      BY <1>0, <2>1, <3>1 DEF Request, OutboxStatuses
    <3>3. ActivationRows'
      BY <1>0, <2>1, <3>2 DEF ActivationRows
    <3>4. activator'[r].step = "idle"
      BY <3>2 DEF AtRest
    <3>5. WorkOf(r)
      BY <2>1, <3>1, <3>2, <3>4 DEF WorkOf
    <3>6. r \notin SystemRows => MarkedRight(r)
      BY <2>1, <3>4, NothingMarked
    <3> QED  BY <3>3, <3>5, <3>6, WorkedOn
  <2>3. CASE ~Superseded(r)
    <3>1. /\ aout' = aout
          /\ activator' = [activator EXCEPT
                 ![r].context = [terms |-> rows[r].terms, handles |-> AskedEnabled(r)],
                 ![r].step = IF AskedEnabled(r) = {} THEN "fail" ELSE "watch"]
      BY <1>3, <2>3 DEF LoadContext
    <3>2. /\ activator'[r].version = rows[r].version /\ activator'[r].step \in {"fail", "watch"}
          /\ activator'[r].context = [terms |-> rows[r].terms, handles |-> AskedEnabled(r)]
          /\ activator'[r] \in Activation
      <4>1. [terms |-> rows[r].terms, handles |-> AskedEnabled(r)] \in Context
        BY <2>1 DEF AskedEnabled, Asked, Context, Row
      <4>2. activator'[r] = [activator[r] EXCEPT
                 !.context = [terms |-> rows[r].terms, handles |-> AskedEnabled(r)],
                 !.step = IF AskedEnabled(r) = {} THEN "fail" ELSE "watch"]
        BY <2>1, <3>1
      <4> QED  BY <2>1, <2>3, <4>1, <4>2 DEF Activation, Steps, Superseded
    <3>3. ActivationRows'
      BY <1>0, <2>1, <3>1, <3>2 DEF ActivationRows
    <3>4. Describes(activator'[r].context, r)
      BY <3>2 DEF Describes
    <3>5. WorkOf(r)
      BY <2>1, <2>3, <3>1, <3>2 DEF WorkOf, Superseded
    <3>6. r \notin SystemRows => MarkedRight(r)
      BY <1>0, <2>1, <3>4 DEF MarkedRight, OwnersRow
    <3> QED  BY <3>3, <3>5, <3>6, WorkedOn
  <2> QED  BY <2>2, <2>3
<1>4. ASSUME NEW r \in Rows, AssertWatchesInSync(r) \/ ProbeWhitelist(r) PROVE ActivationInv'
  <2>1. /\ activator[r].step \in {"watch", "probe"}
        /\ UNCHANGED <<rows, aout, launch, enabled, overlooked, edits>>
        /\ rows[r] \in Row /\ aout[r] \in Request /\ activator[r] \in Activation
        /\ aout[r].status \in {"pending", "processing"} /\ aout[r].tries <= ActivationTries
        /\ activator \in [Rows -> Activation]
    BY <1>0, <1>4 DEF AssertWatchesInSync, ProbeWhitelist, ActivationRows
  <2>2. PICK step : /\ activator' = [activator EXCEPT ![r].step = step]
                    /\ step \in {"probe", "complete", GiveUp(r)}
    BY <1>4 DEF AssertWatchesInSync, ProbeWhitelist, WorkerGoto
  <2>3. /\ step \in {"probe", "complete", "fail", "defer"}
        /\ step = "defer" => activator[r].tries < ActivationTries
    BY <2>1, <2>2, <1>0 DEF GiveUp, Activation
  <2>4. /\ activator'[r] \in Activation /\ activator'[r].step = step
        /\ activator'[r].version = activator[r].version /\ activator'[r].tries = activator[r].tries
        /\ activator'[r].context = activator[r].context
        /\ activator' \in [Rows -> Activation] /\ \A q \in Rows \ {r} : activator'[q] = activator[q]
    BY <2>1, <2>2, <2>3 DEF Activation, Steps
  <2>5. ActivationRows'
    BY <1>0, <2>1, <2>4 DEF ActivationRows
  <2>6. WorkOf(r)
    BY <2>1, <2>3, <2>4 DEF WorkOf
  <2>7. r \notin SystemRows => MarkedRight(r)
    BY <2>1, <2>4, NothingMarked
  <2> QED  BY <2>5, <2>6, <2>7, WorkedOn
<1>5. ASSUME NEW r \in Rows, MarkLiveReady(r) PROVE ActivationInv'
  <2>1. /\ activator[r].step = "complete" /\ UNCHANGED <<aout, launch, enabled, overlooked, edits>>
        /\ rows[r] \in Row /\ aout[r] \in Request /\ activator[r] \in Activation
        /\ aout[r].status \in {"pending", "processing"} /\ aout[r].tries <= ActivationTries
        /\ rows \in [Rows -> Row] /\ activator \in [Rows -> Activation]
        /\ rows' = IF Superseded(r) THEN rows
                   ELSE [rows EXCEPT ![r].live = "live_ready", ![r].context = activator[r].context]
        /\ activator' = [activator EXCEPT ![r].step = IF Superseded(r) THEN "unmarked" ELSE "marked"]
    BY <1>0, <1>5 DEF MarkLiveReady, WorkerGoto, ActivationRows
  <2>2. /\ activator'[r] \in Activation /\ activator'[r].step \in {"unmarked", "marked"}
        /\ activator'[r].version = activator[r].version
        /\ activator'[r].context = activator[r].context
        /\ activator' \in [Rows -> Activation] /\ \A q \in Rows \ {r} : activator'[q] = activator[q]
    BY <2>1 DEF Activation, Steps
  <2>3. /\ rows' \in [Rows -> Row] /\ \A q \in Rows \ {r} : rows'[q] = rows[q]
        /\ rows'[r].status = rows[r].status /\ rows'[r].asks = rows[r].asks
        /\ rows'[r].terms = rows[r].terms /\ rows'[r].version = rows[r].version
        /\ Superseded(r) => rows'[r] = rows[r]
        /\ ~Superseded(r) => rows'[r].context = activator[r].context
    <3>1. CASE Superseded(r)
      BY <2>1, <3>1
    <3>2. CASE ~Superseded(r)
      <4>1. rows'[r] = [rows[r] EXCEPT !.live = "live_ready", !.context = activator[r].context]
        BY <2>1, <3>2
      <4>2. rows'[r] \in Row /\ rows'[r].context = activator[r].context
        BY <2>1, <4>1 DEF Row, Activation
      <4>3. rows' = [q \in Rows |-> rows'[q]] /\ \A q \in Rows \ {r} : rows'[q] = rows[q]
        BY <2>1, <3>2
      <4> QED  BY <2>1, <3>2, <4>1, <4>2, <4>3 DEF Row
    <3> QED  BY <3>1, <3>2
  <2>4. ActivationRows'
    BY <1>0, <2>1, <2>2, <2>3 DEF ActivationRows
  <2>5. WorkOf(r)
    BY <2>1, <2>2, <2>3 DEF WorkOf
  <2>6. r \notin SystemRows => MarkedRight(r)
    <3>1. CASE Superseded(r)
      BY <2>1, <2>2, <2>3, <3>1, NothingMarked
    <3>2. CASE ~Superseded(r)
      <4>1. r \notin SystemRows => Describes(activator[r].context, r)
        BY <1>0, <2>1, <3>2 DEF OwnersRow, Loaded, Superseded
      <4> QED  BY <2>2, <2>3, <3>2, <4>1 DEF MarkedRight
    <3> QED  BY <3>1, <3>2
  <2> QED  BY <2>4, <2>5, <2>6, WorkedOn
<1>6. ASSUME NEW r \in Rows, CompleteOutbox(r) PROVE ActivationInv'
  <2>1. /\ activator[r].step \in {"marked", "unmarked"}
        /\ UNCHANGED <<rows, launch, enabled, overlooked, edits>>
        /\ rows[r] \in Row /\ aout[r] \in Request /\ activator[r] \in Activation
        /\ aout[r].status \in {"pending", "processing"} /\ aout[r].tries <= ActivationTries
        /\ aout \in [Rows -> Request] /\ activator \in [Rows -> Activation]
        /\ aout' = [aout EXCEPT ![r] =
                  IF aout[r].version = activator[r].version /\ activator[r].step = "marked"
                  THEN [aout[r] EXCEPT !.status = "succeeded", !.tries = 0]
                  ELSE [aout[r] EXCEPT !.status = "pending"]]
        /\ activator' = [activator EXCEPT ![r] = AtRest]
    BY <1>0, <1>6 DEF CompleteOutbox, ActivationRows
  <2>2. /\ activator'[r] = AtRest /\ aout'[r].version = aout[r].version
        /\ aout'[r].status = "pending" => aout'[r].tries = aout[r].tries
        /\ aout'[r].status \in {"pending", "succeeded"} /\ aout'[r] \in Request
    <3>1. \/ aout'[r] = [aout[r] EXCEPT !.status = "succeeded", !.tries = 0]
          \/ aout'[r] = [aout[r] EXCEPT !.status = "pending"]
      BY <2>1
    <3>2. activator'[r] = AtRest
      BY <2>1
    <3>3. 0 \in 0 .. ActivationTries + 1
      BY <1>0
    <3>4. CASE aout'[r] = [aout[r] EXCEPT !.status = "succeeded", !.tries = 0]
      BY <2>1, <3>2, <3>3, <3>4 DEF Request, OutboxStatuses
    <3>5. CASE aout'[r] = [aout[r] EXCEPT !.status = "pending"]
      BY <2>1, <3>2, <3>5 DEF Request, OutboxStatuses
    <3> QED  BY <3>1, <3>4, <3>5
  <2>3. /\ activator' \in [Rows -> Activation] /\ aout' \in [Rows -> Request]
        /\ \A q \in Rows \ {r} : activator'[q] = activator[q] /\ aout'[q] = aout[q]
    BY <1>0, <2>1, <2>2
  <2>4. ActivationRows'
    BY <1>0, <2>1, <2>3 DEF ActivationRows
  <2>5. activator'[r].step = "idle"
    BY <2>2 DEF AtRest
  <2>6. WorkOf(r)
    BY <2>1, <2>2, <2>3, <2>5 DEF WorkOf
  <2>7. r \notin SystemRows => MarkedRight(r)
    BY <2>1, <2>5, NothingMarked
  <2> QED  BY <2>4, <2>6, <2>7, WorkedOn
<1>7. ASSUME NEW r \in Rows, GiveBack(r) PROVE ActivationInv'
  <2>1. /\ activator[r].step \in {"defer", "fail"}
        /\ UNCHANGED <<rows, launch, enabled, overlooked, edits>>
        /\ rows[r] \in Row /\ aout[r] \in Request /\ activator[r] \in Activation
        /\ aout[r].status \in {"pending", "processing"} /\ aout[r].tries <= ActivationTries
        /\ activator[r].step = "defer" => activator[r].tries < ActivationTries
        /\ aout \in [Rows -> Request] /\ activator \in [Rows -> Activation]
        /\ aout' = [aout EXCEPT ![r] =
             IF aout[r].version # activator[r].version
             THEN [aout[r] EXCEPT !.status = "pending", !.tries = 0]
             ELSE IF activator[r].step = "fail"
             THEN [aout[r] EXCEPT !.status = "failed", !.tries = aout[r].tries + 1]
             ELSE [aout[r] EXCEPT !.status = "pending", !.tries = activator[r].tries + 1]]
        /\ activator' = [activator EXCEPT ![r].step =
                           IF activator[r].step = "fail" THEN "failed" ELSE "deferred"]
    BY <1>0, <1>7 DEF GiveBack, WorkerGoto, ActivationRows, ActivationInv, OpenRequests
  <2>2. /\ activator'[r] \in Activation /\ activator'[r].step \in {"failed", "deferred"}
        /\ activator'[r].version = activator[r].version
        /\ activator'[r].context = activator[r].context
        /\ activator' \in [Rows -> Activation] /\ \A q \in Rows \ {r} : activator'[q] = activator[q]
    BY <2>1 DEF Activation, Steps
  <2>3. aout[r].tries \in Nat /\ activator[r].tries \in Nat /\ aout[r].version \in Nat
    BY <2>1, <1>0 DEF Request, Activation
  <2>4. /\ aout'[r] \in Request /\ aout'[r].version = aout[r].version
        /\ aout'[r].status \in {"pending", "processing"} => aout'[r].tries <= ActivationTries
    <3>1. \/ aout'[r] = [aout[r] EXCEPT !.status = "pending", !.tries = 0]
          \/ aout'[r] = [aout[r] EXCEPT !.status = "failed", !.tries = aout[r].tries + 1]
          \/ /\ aout'[r] = [aout[r] EXCEPT !.status = "pending", !.tries = activator[r].tries + 1]
             /\ activator[r].tries < ActivationTries
      BY <2>1
    <3> DEFINE t == aout[r].tries u == activator[r].tries
    <3>2. t + 1 \in 0 .. ActivationTries + 1 /\ 0 \in 0 .. ActivationTries + 1
         /\ 0 <= ActivationTries
      BY <2>1, <2>3, <1>0
    <3>3. u < ActivationTries => u + 1 \in 0 .. ActivationTries + 1 /\ u + 1 <= ActivationTries
      BY <2>3, <1>0
    <3> HIDE DEF t, u
    <3>4. CASE aout'[r] = [aout[r] EXCEPT !.status = "pending", !.tries = 0]
      BY <2>1, <3>2, <3>4 DEF Request, OutboxStatuses
    <3>5. CASE aout'[r] = [aout[r] EXCEPT !.status = "failed", !.tries = t + 1]
      BY <2>1, <3>2, <3>5 DEF Request, OutboxStatuses
    <3>6. CASE /\ aout'[r] = [aout[r] EXCEPT !.status = "pending", !.tries = u + 1]
               /\ u < ActivationTries
      BY <2>1, <3>3, <3>6 DEF Request, OutboxStatuses
    <3> QED  BY <3>1, <3>4, <3>5, <3>6 DEF t, u
  <2>5. aout' \in [Rows -> Request] /\ \A q \in Rows \ {r} : aout'[q] = aout[q]
    BY <2>1, <2>4
  <2>6. ActivationRows'
    BY <1>0, <2>1, <2>2, <2>5 DEF ActivationRows
  <2>7. WorkOf(r)
    BY <2>1, <2>2, <2>4, <2>5 DEF WorkOf
  <2>8. r \notin SystemRows => MarkedRight(r)
    BY <2>1, <2>2, NothingMarked
  <2> QED  BY <2>6, <2>7, <2>8, WorkedOn
<1>8. ASSUME NEW r \in Rows, MarkGivenBack(r) PROVE ActivationInv'
  <2>1. PICK live \in {"sync_failed", "syncing"} :
        /\ activator[r].step \in {"deferred", "failed"}
        /\ UNCHANGED <<aout, launch, enabled, overlooked, edits>>
        /\ rows[r] \in Row /\ aout[r] \in Request /\ activator[r] \in Activation
        /\ rows \in [Rows -> Row] /\ activator \in [Rows -> Activation]
        /\ aout[r].status \in {"pending", "processing"} => aout[r].tries <= ActivationTries
        /\ rows' = rows \/ rows' = [rows EXCEPT ![r].live = live]
        /\ activator' = [activator EXCEPT ![r] = AtRest]
    BY <1>0, <1>8 DEF MarkGivenBack, ActivationRows
  <2>2. /\ rows' \in [Rows -> Row] /\ \A q \in Rows \ {r} : rows'[q] = rows[q]
        /\ rows'[r].status = rows[r].status /\ rows'[r].asks = rows[r].asks
        /\ rows'[r].terms = rows[r].terms /\ rows'[r].version = rows[r].version
        /\ rows'[r].live = "live_ready" => rows[r].live = "live_ready"
        /\ rows'[r].context = rows[r].context
    <3>1. CASE rows' = rows
      BY <2>1, <3>1
    <3>2. CASE rows' = [rows EXCEPT ![r].live = live]
      <4>1. rows'[r] = [rows[r] EXCEPT !.live = live]
        BY <2>1, <3>2
      <4>2. rows'[r] \in Row
        BY <2>1, <4>1 DEF Row
      <4>3. rows' = [q \in Rows |-> rows'[q]] /\ \A q \in Rows \ {r} : rows'[q] = rows[q]
        BY <2>1, <3>2
      <4>4. rows'[r].live # "live_ready"
        BY <2>1, <4>1 DEF Row
      <4> QED  BY <2>1, <4>1, <4>2, <4>3, <4>4 DEF Row
    <3> QED  BY <2>1, <3>1, <3>2
  <2>3. /\ activator'[r] = AtRest /\ activator' \in [Rows -> Activation]
        /\ \A q \in Rows \ {r} : activator'[q] = activator[q]
    BY <1>0, <2>1
  <2>4. activator'[r].step = "idle"
    BY <2>3 DEF AtRest
  <2>5. ActivationRows'
    BY <1>0, <2>1, <2>2, <2>3 DEF ActivationRows
  <2>6. WorkOf(r)
    BY <2>1, <2>2, <2>3, <2>4 DEF WorkOf
  <2>7. r \notin SystemRows => MarkedRight(r)
    BY <2>2, <2>4, NothingMarked
  <2> QED  BY <2>5, <2>6, <2>7, WorkedOn
<1> QED
  BY <1>1, <1>2, <1>3, <1>4, <1>5, <1>6, <1>7, <1>8 DEF ActivationWork

LEMMA ActivationStep ==
    ActivationInv /\ [ActivationNext]_<<watchVars, activationVars>> => ActivationInv'
<1> SUFFICES ASSUME ActivationInv, [ActivationNext]_<<watchVars, activationVars>>
             PROVE  ActivationInv'
  OBVIOUS
<1>1. CASE UNCHANGED activationVars
  BY <1>1 DEF activationVars, ActivationInv, ActivationRows, OpenRequests, OwnersRow, NotAhead,
              Loaded, Describes, AskedEnabled, Asked
<1> QED
  BY <1>1, OwnerStep, WorkerStep DEF ActivationNext

-----------------------------------------------------------------------------
(* Every row, request and account of the release is of its type, and the   *)
(* tries of a request stay within the bound.                               *)
THEOREM ActivationTyped == ActivationSpec => []ActivationTypeOK
<1>1. ActivationInv => ActivationTypeOK
  BY DEF ActivationInv, ActivationRows, ActivationTypeOK, Row, Request, Context
<1> QED  BY <1>1, ActivationInitSound, ActivationStep, PTL DEF ActivationSpec

(* A row of the owner's that is released is released under its terms of    *)
(* now and for all the accounts it asks now, whatever edits, other rows,   *)
(* launch rules, failures and deaths of the worker came in between.        *)
THEOREM ReleasedAsAsked == ActivationSpec => []ContextCurrent
<1>1. ActivationInv => ContextCurrent
  BY DEF ActivationInv, OwnersRow, Describes, ContextCurrent
<1> QED  BY <1>1, ActivationInitSound, ActivationStep, PTL DEF ActivationSpec
=============================================================================
