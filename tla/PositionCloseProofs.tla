--------------------------- MODULE PositionCloseProofs ---------------------------
(***************************************************************************)
(* A close swap never races the protection strategy nor another swap whose *)
(* outcome is open, a position that shows as open has lots left, and the   *)
(* program never sells more than the lots: for any amounts, shares, sells, *)
(* retries, crashes and moves of the owner, and any number of requests     *)
(* (for the last, one of an operator at a time).                           *)
(*                                                                         *)
(* The argument goes in layers.  Rows: every variable keeps to its values. *)
(* Strategies: wherever a closer, the group or the reconciler counts on    *)
(* the strategy being over, it is.  Attempts: what the status, order and   *)
(* failure proof of an attempt say of its transaction.  Decisions, as long *)
(* as no failure proof was mistaken: one attempt is open at a time, it is  *)
(* the one of the active intent, and while it is open or to be retried the *)
(* position is not.  Amounts: what is sold, in flight or about to be sold  *)
(* fits into the lots.                                                     *)
(***************************************************************************)
EXTENDS PositionClose, TotalsProofs

-----------------------------------------------------------------------------
(* Rows. *)

Seen == [position : PositionStatuses \cup {"none"}, remaining : Nat, wallet : Nat, amount : Nat,
         percent : Nat, strategy : GroupStatuses]
CloserRow == [step : CloserSteps, sell : 0 .. MaxSells, gen : 0 .. MaxSells, saw : Seen,
              guarded : BOOLEAN, cancelled : BOOLEAN, code : ErrorCodes]
RecRow == [step : {"idle", "strategy", "claim", "balance", "external"}, view : GroupStatuses,
           sale : 0 .. MaxSells, amount : Int, guarded : BOOLEAN]
SellRow == [origin : Origins, status : SellStatuses, gen : Gens, amount : Nat,
            order : OrderStatuses, code : ErrorCodes, sealed : Nat, proven : BOOLEAN, tx : SellIds]

WithoutSell == {"idle", "prepared", "built"}
CloserSound(c) ==
    /\ closer[c].step \in WithoutSell => closer[c].sell = 0
    /\ closer[c].step \notin WithoutSell \cup {"failed"} => closer[c].sell \in SellIds
    /\ c = Worker /\ closer[c].step # "idle" => closer[c].gen \in Gens
    /\ closer[c].step \notin WithoutSell \cup {"failed"} => closer[c].gen \in Gens
    /\ closer[c].step = "failed" => c = Worker

Data ==
    /\ position \in PositionStatuses /\ remaining \in 0 .. Opened
    /\ group \in GroupStatuses /\ sells \in [SellIds -> SellRow]
    /\ intents \in [Gens -> IntentStatuses] /\ lane \in Lanes(SellIds)
    /\ strategy \in {"none", "live", "selling", "sold", "cancelled", "failed"}
    /\ chain \in [SellIds -> {"none", "sent", "sold", "reverted"}]
    /\ wallet \in 0 .. Opened + setting.foreign
    /\ ownerMoves \in Nat /\ crashes \in Nat /\ ownerMoves + crashes \in 0 .. MaxDisturbances

RecTyped ==
    /\ rec \in RecRow
    /\ rec.step = "external" => rec.sale \in SellIds /\ rec.amount \in Nat \ {0}
    /\ rec.step = "balance" => rec.amount \in Nat

Rows ==
    /\ setting \in Settings /\ Data /\ RecTyped
    /\ closer \in [Closers -> CloserRow] /\ \A c \in Closers : CloserSound(c)

-----------------------------------------------------------------------------
(* Strategies. *)

StrategySale(i) == sells[i].origin = "strategy"
Observed(i) == sells[i].status \notin {"none", "unseen"}
NoSaleToCome == strategy # "live" /\ \A i \in SellIds : StrategySale(i) => sells[i].status # "unseen"
Quiet == strategy # "selling" /\ NoSaleToCome
QuietGroup == {"none", "cancelled", "failed", "completed"}

BeforeCancel == {"built", "reserved", "cancel", "mark", "ask", "verify"}
AfterCancel == {"capture", "acquire", "begin", "swap"}
CloserQuiet(c) ==
    /\ closer[c].step \in BeforeCancel /\ ~closer[c].guarded => Quiet
    /\ closer[c].step \in AfterCancel => Quiet
    /\ closer[c].step \in AfterCancel /\ closer[c].guarded => strategy = "cancelled"

OneSale ==
    /\ \A i, j \in SellIds : StrategySale(i) /\ StrategySale(j) => i = j
    /\ strategy \notin {"selling", "sold"} => \A i \in SellIds : ~StrategySale(i)

(* what the rows of the sells say of the strategy *)
SalesInv ==
    /\ OneSale
    /\ \A i \in SellIds : sells[i].origin = "close" /\ chain[i] # "none" => Quiet
    /\ \A i \in SellIds : sells[i].origin = "external" /\ Observed(i) => Quiet
    /\ \A i \in SellIds : ~Observed(i) => sells[i].order = "none"
    /\ \A i \in SellIds : sells[i].status = "none" => sells[i].origin = "close"
    /\ \A i \in SellIds : sells[i].status # "none" /\ sells[i].origin = "close" => sells[i].tx = i

RecQuiet ==
    /\ rec.step = "strategy" /\ rec.view \in QuietGroup => Quiet
    /\ rec.step = "balance" /\ ~rec.guarded => Quiet
    /\ rec.step = "external" => Quiet

StrategyInv ==
    /\ SalesInv /\ RecQuiet
    /\ group \in QuietGroup => Quiet
    /\ \A c \in Closers : CloserQuiet(c)
    /\ remaining < Opened => NoSaleToCome

-----------------------------------------------------------------------------
(* Attempts. *)

Unsent == {"none", "reserved", "preparing", "rejected", "superseded"}
OpenSell == {"reserved", "preparing", "submitting", "submission_uncertain", "submitted",
             "confirming", "failure_verifying", "reconciliation_required"}
Ordered == {"submitted", "confirming", "failure_verifying", "reconciliation_required",
            "definitive_failed_no_fill", "confirmed"}
BeforeSwap == {"reserved", "cancel", "mark", "ask", "verify", "capture", "acquire", "begin",
               "drop", "reject"}

SellSound(i) ==
    LET s == sells[i] IN
    /\ s.status \in Unsent => chain[i] = "none"
    /\ s.status = "unseen" => chain[i] = "sold" /\ s.tx = i /\ s.origin # "close"
    /\ s.code = "cancel" => chain[i] = "none" /\ s.status \notin {"reserved", "preparing", "submitting"}
    /\ s.order # "none" => s.status \in Ordered
    /\ s.proven => s.order \in {"definitive_failed_no_fill", "chain_verifying", "confirmed"}
                   /\ s.status \in {"definitive_failed_no_fill", "confirmed"} /\ s.origin = "close"
    /\ s.status = "definitive_failed_no_fill" => s.proven
    /\ (s.status = "confirmed") <=> (s.order = "confirmed")
    /\ s.status = "confirmed" => chain[s.tx] = "sold"
    /\ s.tx # i /\ s.status # "none" => s.origin = "external" /\ chain[i] = "none"
    /\ s.origin # "close" /\ s.order # "none" => s.order \in {"chain_verifying", "confirmed"}
    /\ s.status # "none" /\ chain[i] = "sent" => s.origin = "close"
    /\ Observed(i) => intents[s.gen] # "none"

WriterSound(c) ==
    LET i == closer[c].sell IN
    /\ i # 0 => /\ sells[i].origin = "close" /\ sells[i].tx = i /\ Observed(i)
                /\ sells[i].gen = closer[c].gen
                /\ \A d \in Closers \ {c} : closer[d].sell # i
    /\ closer[c].step = "swap" => sells[i].status = "submitting" /\ chain[i] = "none"
    /\ closer[c].step \in BeforeSwap => chain[i] = "none"
    /\ closer[c].step = "doubt" /\ closer[c].code = "cancel" => chain[i] = "none"

OneActive == \A g, h \in Gens : {intents[g], intents[h]} \subseteq ActiveIntent => g = h

AttemptInv ==
    /\ OneActive
    /\ \A i \in SellIds : SellSound(i)
    /\ \A c \in Closers : WriterSound(c)

-----------------------------------------------------------------------------
(* Decisions. *)

Retrying == {"retry_verifying", "retry_scheduled"}
Held == ActiveIntent \ Retrying
Open(i) == sells[i].status \in OpenSell

DecisionInv ==
    /\ \A i \in SellIds : Open(i) => intents[sells[i].gen] \in Held
    /\ \A i, j \in SellIds : Observed(i) /\ Observed(j) /\ sells[i].gen = sells[j].gen => i = j
    /\ closer[Worker].step \in {"idle", "prepared", "failed"}
    /\ closer[Worker].step # "idle" => intents[closer[Worker].gen] = "retry_verifying"
    /\ position \in Closable \cup {"closed"} =>
          /\ \A i \in SellIds : ~Open(i)
          /\ \A g \in Gens : intents[g] \notin Retrying
    /\ remaining = 0 => position = "closed"

-----------------------------------------------------------------------------
(* Amounts. *)

Booked == {i \in SellIds : sells[i].status = "confirmed"}
Sold(origins) == {i \in SellIds : sells[i].origin \in origins /\ chain[i] = "sold"}
Program == {"close", "strategy"}
Selling == BeforeCancel \cup AfterCancel
ToSell(c) == IF closer[c].step = "built" THEN closer[c].saw.amount ELSE sells[closer[c].sell].amount

LotsPaid == remaining + Total(Amounts, Booked) = Opened

SalesFit ==
    /\ SoldBy(Program) <= Opened
    /\ \A i \in SellIds :
          chain[i] = "sent" /\ ~sells[i].proven => SoldBy(Program) + sells[i].amount <= Opened
    /\ \A c \in Operators : closer[c].step \in Selling =>
          /\ ToSell(c) + SoldBy({"close"}) <= Opened
          /\ ~closer[c].guarded => ToSell(c) + SoldBy(Program) <= Opened
          /\ \A i \in SellIds : chain[i] = "sent" => sells[i].proven

-----------------------------------------------------------------------------
(* Sets of sells and of generations. *)

LEMMA SellsFinite == IsFiniteSet(SellIds) /\ \A S \in SUBSET SellIds : IsFiniteSet(S)
<1>1. IsFiniteSet(SellIds)
  BY FS_Interval, CloseBoundsAssumption DEF SellIds
<1> QED  BY <1>1, FS_Subset

LEMMA LeastOf ==
    ASSUME NEW S \in SUBSET SellIds, S # {}
    PROVE  Min(S) \in S
BY Minimum DEF SellIds

(* The greatest of a set mirrors the least. *)
LEMMA GreatestOf ==
    ASSUME NEW S \in SUBSET SellIds, S # {}
    PROVE  Max(S) \in S
<1>1. PICK T : T = {MaxSells - x : x \in S}
  OBVIOUS
<1>2. T \in SUBSET Nat /\ T # {}
  <2>1. \A x \in S : x \in Nat /\ MaxSells - x \in Nat
    BY CloseBoundsAssumption DEF SellIds
  <2> QED  BY <1>1, <2>1
<1>3. Min(T) \in T /\ \A x \in T : Min(T) <= x
  BY <1>2, Minimum
<1>4. PICK m \in S : Min(T) = MaxSells - m
  BY <1>1, <1>3
<1>5. \A x \in S : m >= x
  <2> SUFFICES ASSUME NEW x \in S PROVE m >= x
    OBVIOUS
  <2>1. MaxSells - m <= MaxSells - x
    BY <1>1, <1>3, <1>4
  <2> QED  BY <2>1, CloseBoundsAssumption DEF SellIds
<1> QED  BY <1>5 DEF Max

LEMMA FreshOnes ==
    ASSUME Rows
    PROVE  /\ FreeSells # {} => Min(FreeSells) \in FreeSells /\ Max(FreeSells) \in FreeSells
           /\ FreeGens # {} => Min(FreeGens) \in FreeGens
           /\ FreeSells \subseteq SellIds /\ FreeGens \subseteq SellIds
<1>1. FreeGens \in SUBSET SellIds
  BY DEF FreeGens, Gens
<1>2. FreeSells \in SUBSET SellIds
  BY ClosersAssumption, CloseBoundsAssumption DEF Rows, Data, FreeSells, SellIds
<1> QED  BY <1>1, <1>2, LeastOf, GreatestOf

(* Every statement on the lane row leaves a row of its vocabulary. *)
LEMMA LaneMoves ==
    ASSUME NEW l \in Lanes(SellIds), NEW i \in SellIds
    PROVE  /\ HeldLane(i) \in Lanes(SellIds) /\ Release(l, i) \in Lanes(SellIds)
           /\ ResolveEvidence(l, i) \in Lanes(SellIds)
           /\ \A why \in QuarantineReasons :
                 FrozenLane(i, why) \in Lanes(SellIds) /\ Quarantine(l, i, why) \in Lanes(SellIds)
           /\ \A over \in BOOLEAN : Settle(l, i, over) \in Lanes(SellIds) /\ Recover(l, over) \in Lanes(SellIds)
           /\ l.state # "idle" => l.owner \in SellIds
<1>1. /\ IdleLane \in Lanes(SellIds) /\ HeldLane(i) \in Lanes(SellIds)
      /\ \A why \in QuarantineReasons : FrozenLane(i, why) \in Lanes(SellIds)
  BY DEF Lanes
<1>2. l.state # "idle" => l.owner \in SellIds
  BY DEF Lanes, IdleLane, HeldLane, FrozenLane
<1>3. Release(l, i) \in Lanes(SellIds) /\ ResolveEvidence(l, i) \in Lanes(SellIds)
  BY <1>1 DEF Release, ResolveEvidence
<1>4. \A why \in QuarantineReasons : Quarantine(l, i, why) \in Lanes(SellIds)
  BY <1>1 DEF Quarantine
<1>5. \A over \in BOOLEAN : Settle(l, i, over) \in Lanes(SellIds)
  BY <1>3, <1>4 DEF Settle, QuarantineReasons
<1>6. ASSUME NEW over \in BOOLEAN PROVE Recover(l, over) \in Lanes(SellIds)
  <2>1. l.state = "submitting" => FrozenLane(l.owner, "stale_lease") \in Lanes(SellIds)
    BY <1>2 DEF Lanes, QuarantineReasons
  <2> QED  BY <1>1, <2>1 DEF Recover
<1> QED  BY <1>1, <1>2, <1>3, <1>4, <1>5, <1>6

LEMMA LandedType == ASSUME Rows PROVE Landed \in Nat
<1>1. IsFiniteSet({i \in SellIds : chain[i] \in {"sold", "reverted"}})
  BY SellsFinite
<1> QED  BY <1>1, FS_CardinalityType DEF Landed, Rows, Data

(* selectSellAmountRaw never gives more than the lots. *)
LEMMA SellAmountType ==
    ASSUME Rows, NEW percent \in Nat
    PROVE  SellAmount(percent) \in Nat /\ SellAmount(percent) <= remaining
<1>1. PICK r, w : r = remaining /\ w = wallet /\ r \in Nat /\ w \in Nat
  BY ClosersAssumption, AmountsAssumption DEF Rows, Data
<1>2. r * percent \in Nat
  BY <1>1
<1>3. (r * percent) \div 100 \in Nat
  BY <1>2
<1>4. PICK S : S = {(r * percent) \div 100, r, w}
  OBVIOUS
<1>5. S \in SUBSET Nat /\ S # {}
  BY <1>1, <1>3, <1>4
<1>6. Min(S) \in S /\ \A x \in S : Min(S) <= x
  BY <1>5, Minimum
<1> QED  BY <1>1, <1>4, <1>5, <1>6 DEF SellAmount

LEMMA IdleTypes == IdleCloser \in CloserRow /\ NothingSeen \in Seen /\ IdleReconciler \in RecRow
<1>1. NothingSeen \in Seen
  BY DEF NothingSeen, Seen, GroupStatuses
<1>2. 0 \in 0 .. MaxSells
  BY CloseBoundsAssumption
<1> QED  BY <1>1, <1>2 DEF IdleCloser, CloserRow, CloserSteps, ErrorCodes, IdleReconciler, RecRow, GroupStatuses

LEMMA ViewTypes == ASSUME Rows PROVE ProviderView \in GroupStatuses /\ StrategySeen \in GroupStatuses
BY DEF Rows, Data, ProviderView, StrategySeen, GroupStatuses, ActiveGroup, UnsafeGroup

LEMMA SnapshotType == ASSUME Rows, NEW percent \in Nat PROVE Snapshot(percent) \in Seen
BY SellAmountType, ViewTypes, ClosersAssumption, AmountsAssumption DEF Rows, Data, Snapshot, Seen

-----------------------------------------------------------------------------
(* What a closer's step leaves alone, and that it moves only itself.       *)
OthersStay(c) ==
    /\ closer' \in [Closers -> CloserRow]
    /\ \A d \in Closers \ {c} : closer'[d] = closer[d]
    /\ CloserSound(c)'
    /\ setting' = setting /\ rec' = rec

LEMMA ClosersSound ==
    ASSUME Rows, NEW c \in Closers, OthersStay(c), Data'
    PROVE  Rows'
BY DEF OthersStay, Rows, CloserSound, RecTyped

LEMMA AbandonMoves ==
    ASSUME Rows, NEW c \in Closers, Abandon(c), rec' = rec, setting' = setting
    PROVE  OthersStay(c)
<1>1. PICK idle : idle = IdleCloser /\ idle \in CloserRow /\ idle.step = "idle" /\ idle.sell = 0
  BY IdleTypes DEF IdleCloser
<1>2. closer \in [Closers -> CloserRow] /\ closer' = [closer EXCEPT ![c] = idle]
  BY <1>1 DEF Rows, Data, Abandon
<1> QED  BY <1>1, <1>2 DEF OthersStay, CloserSound, WithoutSell

LEMMA HandlerOverMoves ==
    ASSUME Rows, NEW c \in Closers, closer[c].step \notin WithoutSell \cup {"failed"},
           HandlerOver(c), rec' = rec, setting' = setting
    PROVE  OthersStay(c)
<1>1. closer[c].gen \in Gens /\ closer[c] \in CloserRow /\ closer \in [Closers -> CloserRow]
  BY DEF Rows, Data, CloserSound
<1>2. CASE c = Worker
  BY <1>1, <1>2 DEF HandlerOver, Goto, OthersStay, CloserSound, CloserRow, CloserSteps, WithoutSell
<1>3. CASE c # Worker
  BY <1>1, <1>3, AbandonMoves DEF HandlerOver
<1> QED  BY <1>2, <1>3

LEMMA CloserRows ==
    ASSUME NEW row \in CloserRow, NEW saw \in Seen, NEW i \in 0 .. MaxSells,
           NEW g \in 0 .. MaxSells, NEW guarded \in BOOLEAN
    PROVE  /\ [row EXCEPT !.step = "prepared", !.saw = saw] \in CloserRow
           /\ [row EXCEPT !.step = "prepared", !.gen = g] \in CloserRow
           /\ [row EXCEPT !.step = "built", !.guarded = guarded] \in CloserRow
           /\ [row EXCEPT !.step = "built", !.saw = saw, !.guarded = guarded] \in CloserRow
           /\ [row EXCEPT !.step = "reserved", !.sell = i, !.saw = saw] \in CloserRow
           /\ [row EXCEPT !.step = "reserved", !.sell = i, !.gen = g, !.saw = saw] \in CloserRow
<1>1. [row EXCEPT !.step = "prepared", !.saw = saw] \in CloserRow
  BY DEF CloserRow, CloserSteps
<1>2. [row EXCEPT !.step = "prepared", !.gen = g] \in CloserRow
  BY DEF CloserRow, CloserSteps
<1>3. [row EXCEPT !.step = "built", !.guarded = guarded] \in CloserRow
  BY DEF CloserRow, CloserSteps
<1>4. [row EXCEPT !.step = "built", !.saw = saw, !.guarded = guarded] \in CloserRow
  BY DEF CloserRow, CloserSteps
<1>5. [row EXCEPT !.step = "reserved", !.sell = i, !.saw = saw] \in CloserRow
  BY DEF CloserRow, CloserSteps
<1>6. [row EXCEPT !.step = "reserved", !.sell = i, !.gen = g, !.saw = saw] \in CloserRow
  BY DEF CloserRow, CloserSteps
<1> QED  BY <1>1, <1>2, <1>3, <1>4, <1>5, <1>6

(* A closer that goes to a row of the vocabulary moves nobody else.        *)
LEMMA RowMoves ==
    ASSUME Rows, NEW c \in Closers, NEW row \in CloserRow, closer' = [closer EXCEPT ![c] = row],
           setting' = setting, rec' = rec,
           row.step \in WithoutSell => row.sell = 0,
           row.step \notin WithoutSell \cup {"failed"} => row.sell \in SellIds /\ row.gen \in Gens,
           c = Worker /\ row.step # "idle" => row.gen \in Gens,
           row.step = "failed" => c = Worker
    PROVE  OthersStay(c)
<1>1. closer \in [Closers -> CloserRow]
  BY DEF Rows, Data
<1>2. closer'[c] = row /\ closer' \in [Closers -> CloserRow]
  BY <1>1
<1>3. \A d \in Closers \ {c} : closer'[d] = closer[d]
  BY <1>1
<1> QED  BY <1>2, <1>3 DEF OthersStay, CloserSound

LEMMA CloserMoves ==
    ASSUME Rows, NEW c \in Closers, CloserStep(c), setting' = setting
    PROVE  OthersStay(c)
<1>a. /\ closer \in [Closers -> CloserRow] /\ closer[c] \in CloserRow /\ CloserSound(c)
      /\ c \in Operators => c # Worker
      /\ 0 \in 0 .. MaxSells
  BY ClosersAssumption, CloseBoundsAssumption DEF Rows, Data
<1>1. CASE Prepare(c)
  <2>1. PICK percent \in setting.percents :
          closer' = [closer EXCEPT ![c].step = "prepared", ![c].saw = Snapshot(percent)]
    BY <1>1 DEF Prepare
  <2>2. PICK saw \in Seen : saw = Snapshot(percent)
    BY ClosersAssumption, SnapshotType DEF Rows, Data
  <2>3. PICK row \in CloserRow : row = [closer[c] EXCEPT !.step = "prepared", !.saw = saw]
    <3>1. [closer[c] EXCEPT !.step = "prepared", !.saw = saw] \in CloserRow
      BY <1>a, <2>2, CloserRows
    <3> QED  BY <3>1
  <2>4. closer' = [closer EXCEPT ![c] = row]
    BY <2>1, <2>2, <2>3
  <2>5. row.step = "prepared" /\ row.sell = 0 /\ c # Worker /\ rec' = rec
    BY <1>1, <1>a, <2>3 DEF Prepare, At, CloserSound, WithoutSell, CloserRow
  <2> QED  BY <2>4, <2>5, RowMoves DEF WithoutSell
<1>2. CASE Execute(c)
  <2>1. ASSUME closer' = [closer EXCEPT ![c].step = "built", ![c].guarded = StrategySeen \in ActiveGroup]
        PROVE  OthersStay(c)
    <3>1. PICK b \in BOOLEAN : b = (StrategySeen \in ActiveGroup)
      <4>1. CASE StrategySeen \in ActiveGroup
        <5>1. (StrategySeen \in ActiveGroup) = TRUE
          BY <4>1
        <5> QED  BY <5>1
      <4>2. CASE StrategySeen \notin ActiveGroup
        <5>1. (StrategySeen \in ActiveGroup) = FALSE
          BY <4>2
        <5> QED  BY <5>1
      <4> QED  BY <4>1, <4>2
    <3>2. PICK row \in CloserRow : row = [closer[c] EXCEPT !.step = "built", !.guarded = b]
      <4>1. [closer[c] EXCEPT !.step = "built", !.guarded = b] \in CloserRow
        BY <1>a, <3>1, CloserRows, IdleTypes
      <4> QED  BY <4>1
    <3>3. closer' = [closer EXCEPT ![c] = row]
      BY <2>1, <3>1, <3>2
    <3>4. row.step = "built" /\ row.sell = 0 /\ c # Worker /\ rec' = rec
      BY <1>2, <1>a, <3>2 DEF Execute, At, CloserSound, WithoutSell, CloserRow
    <3> QED  BY <3>3, <3>4, RowMoves DEF WithoutSell
  <2>2. CASE Abandon(c)
    BY <1>2, <2>2, AbandonMoves DEF Execute
  <2> QED  BY <1>2, <2>1, <2>2 DEF Execute
<1>3. CASE CreateSellAttempt(c)
  <2>1. CASE position \notin Closable \/ ScopeTaken
    BY <1>3, <2>1, AbandonMoves DEF CreateSellAttempt
  <2>2. CASE ~(position \notin Closable \/ ScopeTaken)
    <3>1. PICK i, g : /\ i = Min(FreeSells) /\ g = Min(FreeGens)
                      /\ closer' = [closer EXCEPT ![c].step = "reserved", ![c].sell = i,
                                                  ![c].gen = g, ![c].saw = NothingSeen]
      BY <1>3, <2>2 DEF CreateSellAttempt
    <3>2. FreeSells # {} /\ FreeGens # {} /\ c # Worker /\ rec' = rec
      BY <1>3, <1>a, <2>2 DEF CreateSellAttempt
    <3>3. i \in SellIds /\ g \in Gens
      BY <3>1, <3>2, FreshOnes DEF Gens
    <3>4. PICK nothing \in Seen : nothing = NothingSeen
      BY IdleTypes
    <3>5. PICK row \in CloserRow : row = [closer[c] EXCEPT !.step = "reserved", !.sell = i,
                                                       !.gen = g, !.saw = nothing]
      <4>1. i \in 0 .. MaxSells /\ g \in 0 .. MaxSells
        BY <3>3 DEF SellIds, Gens
      <4> QED  BY <1>a, <3>4, <4>1, CloserRows
    <3>6. closer' = [closer EXCEPT ![c] = row]
      BY <3>1, <3>4, <3>5
    <3>7. row.step = "reserved" /\ row.sell = i /\ row.gen = g
      BY <1>a, <3>5 DEF CloserRow
    <3> QED  BY <3>2, <3>3, <3>6, <3>7, RowMoves DEF WithoutSell
  <2> QED  BY <2>1, <2>2
<1> USE DEF Rows, Data, rows, world, OthersStay, CloserSound, CloserRow, CloserSteps, WithoutSell,
            At, Goto, MySell, Doubt, ErrorCodes
<1>4. CASE BeginPreparing(c)
  BY <1>4 DEF BeginPreparing
<1>5. CASE AcquireForCancel(c)
  BY <1>5 DEF AcquireForCancel
<1>6. CASE MarkCancelling(c)
  BY <1>6 DEF MarkCancelling
<1>7. CASE AskCancel(c)
  BY <1>7 DEF AskCancel
<1>8. CASE VerifyCancel(c)
  BY <1>8 DEF VerifyCancel
<1>9. CASE CaptureSnapshot(c)
  BY <1>9 DEF CaptureSnapshot
<1>10. CASE AcquireForSwap(c)
  BY <1>10 DEF AcquireForSwap
<1>11. CASE BeginSwap(c)
  BY <1>11 DEF BeginSwap
<1>12. CASE SwapAnswered(c)
  BY <1>12 DEF SwapAnswered
<1>13. CASE RecordSubmittedOrder(c)
  BY <1>13 DEF RecordSubmittedOrder
<1>14. CASE SettleSubmittedOrder(c)
  BY <1>14, AbandonMoves DEF SettleSubmittedOrder
<1>15. CASE MarkSellUncertain(c)
  <2>1. CASE HandlerOver(c)
    BY <1>15, <2>1, HandlerOverMoves DEF MarkSellUncertain
  <2>2. CASE ~HandlerOver(c)
    BY <1>15, <2>2 DEF MarkSellUncertain
  <2> QED  BY <2>1, <2>2
<1>16. CASE QuarantineWallet(c)
  BY <1>16, HandlerOverMoves DEF QuarantineWallet
<1>17. CASE DropLane(c)
  BY <1>17 DEF DropLane
<1>18. CASE RejectSellAttempt(c)
  BY <1>18, HandlerOverMoves DEF RejectSellAttempt
<1> QED  BY <1>1, <1>2, <1>3, <1>4, <1>5, <1>6, <1>7, <1>8, <1>9, <1>10, <1>11, <1>12, <1>13,
            <1>14, <1>15, <1>16, <1>17, <1>18 DEF CloserStep

(* What a closer writes keeps to its values as well. *)
LEMMA CloserWrites ==
    ASSUME Rows, NEW c \in Closers, CloserStep(c), setting' = setting
    PROVE  Data'
<1>a. /\ Data /\ CloserSound(c)
      /\ closer[c].step \notin WithoutSell \cup {"failed"} => MySell(c) \in SellIds /\ closer[c].gen \in Gens
  BY DEF Rows, CloserSound, MySell
<1>b. ASSUME NEW i \in SellIds
      PROVE  /\ HeldLane(i) \in Lanes(SellIds) /\ Release(lane, i) \in Lanes(SellIds)
             /\ Quarantine(lane, i, "unproven") \in Lanes(SellIds)
             /\ \A over \in BOOLEAN : Settle(lane, i, over) \in Lanes(SellIds)
  BY <1>a, LaneMoves DEF Data, QuarantineReasons
<1> USE DEF Data, rows, world, At, WithoutSell
<1>1. CASE Prepare(c)
  BY <1>1, <1>a DEF Prepare
<1>2. CASE Execute(c)
  BY <1>2, <1>a DEF Execute
<1>3. CASE CreateSellAttempt(c)
  <2>1. CASE position \notin Closable \/ ScopeTaken
    BY <1>3, <2>1, <1>a DEF CreateSellAttempt
  <2>2. CASE ~(position \notin Closable \/ ScopeTaken)
    <3>1. PICK i, g : /\ i = Min(FreeSells) /\ g = Min(FreeGens)
                      /\ sells' = [sells EXCEPT ![i] = [NoSell EXCEPT !.status = "reserved", !.gen = g,
                                                        !.tx = i, !.amount = closer[c].saw.amount]]
                      /\ intents' = [intents EXCEPT ![g] = "created"]
      BY <1>3, <2>2 DEF CreateSellAttempt
    <3>2. FreeSells # {} /\ FreeGens # {} /\ position' = "closing"
      BY <1>3, <2>2 DEF CreateSellAttempt
    <3>3. i \in SellIds /\ g \in Gens
      BY <3>1, <3>2, FreshOnes DEF Gens
    <3>4. closer[c].saw.amount \in Nat
      BY DEF Rows, CloserRow, Seen
    <3>5. [NoSell EXCEPT !.status = "reserved", !.gen = g, !.tx = i,
                         !.amount = closer[c].saw.amount] \in SellRow
      BY <3>3, <3>4 DEF NoSell, SellRow, Origins, SellStatuses, ActiveSell, OrderStatuses, ErrorCodes
    <3>6. sells' \in [SellIds -> SellRow]
      BY <1>a, <3>1, <3>5
    <3>7. intents' \in [Gens -> IntentStatuses]
      BY <1>a, <3>1 DEF IntentStatuses, ActiveIntent
    <3> QED  BY <1>3, <1>a, <3>2, <3>6, <3>7 DEF CreateSellAttempt, PositionStatuses
  <2> QED  BY <2>1, <2>2
<1>4. CASE BeginPreparing(c)
  BY <1>4, <1>a DEF BeginPreparing, SellRow, SellStatuses, ActiveSell
<1>5. CASE AcquireForCancel(c)
  BY <1>5, <1>a, <1>b DEF AcquireForCancel
<1>6. CASE MarkCancelling(c)
  BY <1>6, <1>a DEF MarkCancelling, GroupStatuses, UnsafeGroup
<1>7. CASE AskCancel(c)
  BY <1>7, <1>a, <1>b DEF AskCancel, CancelledAtProvider, GroupStatuses, ActiveGroup
<1>8. CASE VerifyCancel(c)
  BY <1>8, <1>a, <1>b DEF VerifyCancel, GroupStatuses
<1>9. CASE CaptureSnapshot(c)
  <2>1. CASE sells' = sells
    BY <1>9, <1>a, <2>1 DEF CaptureSnapshot
  <2>2. CASE sells' = [sells EXCEPT ![MySell(c)].sealed = Landed]
    <3>1. PICK n \in Nat : n = Landed
      BY LandedType
    <3>2. sells' \in [SellIds -> SellRow]
      BY ZenonT(60), <1>a, <2>2, <3>1 DEF SellRow
    <3> QED  BY <1>9, <1>a, <3>2 DEF CaptureSnapshot
  <2> QED  BY <1>9, <2>1, <2>2 DEF CaptureSnapshot
<1>10. CASE AcquireForSwap(c)
  BY <1>10, <1>a, <1>b DEF AcquireForSwap
<1>11. CASE BeginSwap(c)
  BY <1>11, <1>a DEF BeginSwap, SellRow, SellStatuses, ActiveSell, IntentMoved, IntentStatuses, ActiveIntent
<1>12. CASE SwapAnswered(c)
  BY <1>12, <1>a DEF SwapAnswered, Sent
<1>13. CASE RecordSubmittedOrder(c)
  BY <1>13, <1>a DEF RecordSubmittedOrder, SellRow, SellStatuses, ActiveSell, OrderStatuses,
     IntentMoved, IntentStatuses, ActiveIntent
<1>14. CASE SettleSubmittedOrder(c)
  BY <1>14, <1>a, <1>b DEF SettleSubmittedOrder
<1>15. CASE MarkSellUncertain(c)
  <2>1. closer[c].code \in ErrorCodes
    BY DEF Rows, CloserRow
  <2> QED  BY <1>15, <1>a, <2>1 DEF MarkSellUncertain, SellRow, SellStatuses, ActiveSell,
     IntentStatuses, ActiveIntent, PositionStatuses
<1>16. CASE QuarantineWallet(c)
  BY <1>16, <1>a, <1>b DEF QuarantineWallet
<1>17. CASE DropLane(c)
  BY <1>17, <1>a, <1>b DEF DropLane
<1>18. CASE RejectSellAttempt(c)
  BY <1>18, <1>a DEF RejectSellAttempt, SellRow, SellStatuses, IntentStatuses, Fallback,
     PositionStatuses, Closable
<1> QED  BY <1>1, <1>2, <1>3, <1>4, <1>5, <1>6, <1>7, <1>8, <1>9, <1>10, <1>11, <1>12, <1>13,
            <1>14, <1>15, <1>16, <1>17, <1>18 DEF CloserStep

LEMMA RetryTyped == ASSUME Rows, RetryStep, setting' = setting PROVE Rows'
<1>a. /\ Data /\ CloserSound(Worker) /\ Worker \in Closers /\ 0 \in 0 .. MaxSells /\ RecTyped
      /\ closer \in [Closers -> CloserRow] /\ closer[Worker] \in CloserRow
      /\ \A g \in Gens : g \in 0 .. MaxSells
      /\ \A c \in Closers : CloserSound(c)
  BY CloseBoundsAssumption DEF Rows, Closers, Gens, SellIds
<1>b. ASSUME closer' = closer, rec' = rec, Data' PROVE Rows'
  BY <1>a, <1>b DEF Rows, CloserSound, RecTyped
<1>c. ASSUME NEW row \in CloserRow, closer' = [closer EXCEPT ![Worker] = row], rec' = rec, Data',
             row.step \in WithoutSell => row.sell = 0,
             row.step \notin WithoutSell \cup {"failed"} => row.sell \in SellIds /\ row.gen \in Gens,
             row.step # "idle" => row.gen \in Gens
      PROVE  Rows'
  BY <1>a, <1>c, RowMoves, ClosersSound
<1>1. ASSUME NEW g \in Gens, ClaimRetry(g) PROVE Rows'
  <2>1. PICK row \in CloserRow : row = [closer[Worker] EXCEPT !.step = "prepared", !.gen = g]
    <3>1. [closer[Worker] EXCEPT !.step = "prepared", !.gen = g] \in CloserRow
      BY <1>a, CloserRows, IdleTypes
    <3> QED  BY <3>1
  <2>2. closer' = [closer EXCEPT ![Worker] = row] /\ rec' = rec
    BY <1>1, <2>1 DEF ClaimRetry
  <2>3. row.step = "prepared" /\ row.sell = 0 /\ row.gen = g
    BY <1>1, <1>a, <2>1 DEF ClaimRetry, At, CloserSound, WithoutSell, CloserRow
  <2>4. Data'
    BY <1>1, <1>a DEF ClaimRetry, Data, world, IntentStatuses, ActiveIntent
  <2> QED  BY <1>c, <2>2, <2>3, <2>4 DEF WithoutSell
<1>2. ASSUME NEW g \in Gens, RestoreAbandonedClaim(g) PROVE Rows'
  BY <1>2, <1>a, <1>b DEF RestoreAbandonedClaim, Data, world, IntentStatuses, ActiveIntent
<1>3. ASSUME NEW g \in Gens, ExpireScheduledRetry(g) PROVE Rows'
  BY <1>3, <1>a, <1>b DEF ExpireScheduledRetry, Data, world, IntentStatuses, PositionStatuses, Closable
<1>4. ASSUME BuildRetry PROVE Rows'
  <2>a. Data' /\ rec' = rec /\ closer[Worker].step = "prepared"
    BY <1>4, <1>a DEF BuildRetry, Data, world, rows, At
  <2>1. ASSUME Goto(Worker, "failed") PROVE Rows'
    <3>1. PICK row \in CloserRow : row = [closer[Worker] EXCEPT !.step = "failed"]
      BY <1>a DEF CloserRow, CloserSteps
    <3>2. closer' = [closer EXCEPT ![Worker] = row] /\ row.step = "failed" /\ row.gen \in Gens
      BY <1>a, <2>a, <2>1, <3>1 DEF Goto, CloserSound, CloserRow
    <3> QED  BY <1>c, <2>a, <3>2 DEF WithoutSell
  <2>2. ASSUME closer' = [closer EXCEPT ![Worker].step = "built", ![Worker].saw = Snapshot(100),
                                        ![Worker].guarded = StrategySeen \in ActiveGroup]
        PROVE  Rows'
    <3>1. PICK b \in BOOLEAN : b = (StrategySeen \in ActiveGroup)
      <4>1. CASE StrategySeen \in ActiveGroup
        <5>1. (StrategySeen \in ActiveGroup) = TRUE
          BY <4>1
        <5> QED  BY <5>1
      <4>2. CASE StrategySeen \notin ActiveGroup
        <5>1. (StrategySeen \in ActiveGroup) = FALSE
          BY <4>2
        <5> QED  BY <5>1
      <4> QED  BY <4>1, <4>2
    <3>2. PICK saw \in Seen : saw = Snapshot(100)
      BY SnapshotType
    <3>3. PICK row \in CloserRow : row = [closer[Worker] EXCEPT !.step = "built", !.saw = saw,
                                                              !.guarded = b]
      <4>1. [closer[Worker] EXCEPT !.step = "built", !.saw = saw, !.guarded = b] \in CloserRow
        BY ZenonT(60), <1>a, <3>1, <3>2 DEF CloserRow, CloserSteps
      <4> QED  BY <4>1
    <3>4. closer' = [closer EXCEPT ![Worker] = row]
      BY <2>2, <3>1, <3>2, <3>3
    <3>5. row.step = "built" /\ row.sell = 0 /\ row.gen \in Gens
      BY <1>a, <2>a, <3>3 DEF CloserSound, WithoutSell, CloserRow
    <3> QED  BY <1>c, <2>a, <3>4, <3>5 DEF WithoutSell
  <2> QED  BY <1>4, <2>1, <2>2 DEF BuildRetry
<1>5. ASSUME CreateRetryAttempt PROVE Rows'
  <2>a. rec' = rec /\ closer[Worker].step = "built" /\ closer[Worker].gen \in Gens
    BY <1>5, <1>a DEF CreateRetryAttempt, At, CloserSound
  <2>1. ASSUME Goto(Worker, "failed"), sells' = sells PROVE Rows'
    <3>1. PICK row \in CloserRow : row = [closer[Worker] EXCEPT !.step = "failed"]
      BY <1>a DEF CloserRow, CloserSteps
    <3>2. closer' = [closer EXCEPT ![Worker] = row] /\ row.step = "failed" /\ row.gen \in Gens
      BY <1>a, <2>a, <2>1, <3>1 DEF Goto, CloserSound, CloserRow
    <3>3. Data'
      BY <1>5, <1>a, <2>1 DEF CreateRetryAttempt, Data, world
    <3> QED  BY <1>c, <2>a, <3>2, <3>3 DEF WithoutSell
  <2>2. ASSUME ~(Goto(Worker, "failed") /\ sells' = sells) PROVE Rows'
    <3>1. PICK g, i : g = closer[Worker].gen /\ i = Min(FreeSells)
      OBVIOUS
    <3>2. /\ FreeSells # {}
          /\ sells' = [sells EXCEPT ![i] = [NoSell EXCEPT !.status = "reserved", !.gen = g, !.tx = i,
                                                          !.amount = closer[Worker].saw.amount]]
          /\ closer' = [closer EXCEPT ![Worker].step = "reserved", ![Worker].sell = i,
                                      ![Worker].saw = NothingSeen]
      BY <1>5, <2>2, <3>1 DEF CreateRetryAttempt
    <3>3. i \in SellIds /\ i \in 0 .. MaxSells
      BY <3>1, <3>2, FreshOnes DEF SellIds
    <3>4. closer[Worker].saw.amount \in Nat
      BY <1>a DEF CloserRow, Seen
    <3>5. [NoSell EXCEPT !.status = "reserved", !.gen = g, !.tx = i,
                         !.amount = closer[Worker].saw.amount] \in SellRow
      BY <2>a, <3>1, <3>3, <3>4 DEF NoSell, SellRow, Origins, SellStatuses, ActiveSell, OrderStatuses,
         ErrorCodes
    <3>6. sells' \in [SellIds -> SellRow]
      BY <1>a, <3>2, <3>5 DEF Data
    <3>7. Data'
      BY <1>5, <1>a, <3>6 DEF CreateRetryAttempt, Data, world
    <3>8. PICK nothing \in Seen : nothing = NothingSeen
      BY IdleTypes
    <3>9. PICK row \in CloserRow : row = [closer[Worker] EXCEPT !.step = "reserved", !.sell = i,
                                                              !.saw = nothing]
      <4>1. [closer[Worker] EXCEPT !.step = "reserved", !.sell = i, !.saw = nothing] \in CloserRow
        BY <1>a, <3>3, <3>8, CloserRows
      <4> QED  BY <4>1
    <3>10. closer' = [closer EXCEPT ![Worker] = row]
      BY <3>2, <3>8, <3>9
    <3>11. row.step = "reserved" /\ row.sell = i /\ row.gen \in Gens
      BY <1>a, <2>a, <3>9 DEF CloserRow
    <3> QED  BY <1>c, <2>a, <3>3, <3>7, <3>10, <3>11 DEF WithoutSell
  <2> QED  BY <2>1, <2>2
<1>6. ASSUME ResolveHandlerFailure PROVE Rows'
  <2>1. Data' /\ rec' = rec /\ Abandon(Worker)
    BY <1>6, <1>a DEF ResolveHandlerFailure, Data, world, IntentMoved, IntentStatuses
  <2> QED  BY <1>a, <2>1, AbandonMoves, ClosersSound
<1>7. ASSUME RecoverStaleSubmission PROVE Rows'
  <2>1. lane.owner \in SellIds
    BY <1>7, <1>a, LaneMoves, CloseBoundsAssumption DEF RecoverStaleSubmission, Data, SellIds
  <2>2. PICK i \in SellIds : i = lane.owner
    BY <2>1
  <2>3. lane' \in Lanes(SellIds)
    <3>1. \A over \in BOOLEAN : Recover(lane, over) \in Lanes(SellIds)
      BY <1>a, <2>2, LaneMoves DEF Data
    <3>2. lane' = Recover(lane, TRUE) \/ lane' = Recover(lane, FALSE)
      BY <1>7 DEF RecoverStaleSubmission, Recover
    <3> QED  BY <3>1, <3>2
  <2>4. sells' \in [SellIds -> SellRow] /\ intents' \in [Gens -> IntentStatuses]
    BY SMTT(30), <1>7, <1>a, <2>2 DEF RecoverStaleSubmission, Data, SellRow, SellStatuses, ActiveSell, ErrorCodes,
       IntentStatuses, ActiveIntent
  <2> QED  BY <1>7, <1>a, <1>b, <2>3, <2>4 DEF RecoverStaleSubmission, Data, world
<1>8. ASSUME NEW i \in SellIds, RecoverStalePreSubmit(i) PROVE Rows'
  BY <1>8, <1>a, <1>b DEF RecoverStalePreSubmit, Data, world, SellRow, SellStatuses,
     IntentStatuses, PositionStatuses, Closable
<1> QED  BY <1>1, <1>2, <1>3, <1>4, <1>5, <1>6, <1>7, <1>8 DEF RetryStep

LEMMA ReconcilerTyped == ASSUME Rows, ReconcileStep, setting' = setting PROVE Rows'
<1>a. Data /\ RecTyped
  BY DEF Rows
<1>b. ASSUME NEW i \in SellIds
      PROVE  /\ ResolveEvidence(lane, i) \in Lanes(SellIds) /\ FrozenLane(i, "multiple_fill") \in Lanes(SellIds)
             /\ Quarantine(lane, i, "unproven") \in Lanes(SellIds)
             /\ Quarantine(lane, i, "no_hash_evidence") \in Lanes(SellIds)
  BY <1>a, LaneMoves DEF Data, QuarantineReasons
<1>c. ASSUME closer' = closer, rec' = rec, Data' PROVE Rows'
  BY <1>c DEF Rows, CloserSound, RecTyped
<1>d. ASSUME closer' = closer, RecTyped', Data' PROVE Rows'
  BY <1>d DEF Rows, CloserSound
<1>e. ASSUME rec' = IdleReconciler PROVE RecTyped'
  BY <1>e, IdleTypes DEF RecTyped, IdleReconciler
<1>1. ASSUME NEW i \in SellIds, OrderStep(i) PROVE Rows'
  <2> USE DEF Data, world, SellRow, IntentMoved
  <2>1. CASE ObserveConfirmed(i)
    BY <2>1, <1>a, <1>c DEF ObserveConfirmed, OrderStatuses
  <2>2. CASE ObservePending(i)
    BY <2>2, <1>a, <1>c DEF ObservePending, OrderStatuses
  <2>3. ASSUME NEW withHash \in BOOLEAN, ObserveFailure(i, withHash) PROVE Rows'
    <3>1. PICK st \in SellStatuses :
            sells' = [sells EXCEPT ![i].order = "failure_verifying", ![i].status = st]
      BY <2>3, <1>a DEF ObserveFailure, SellStatuses
    <3>2. sells' \in [SellIds -> SellRow]
      <4>1. [sells[i] EXCEPT !.order = "failure_verifying", !.status = st] \in SellRow
        <5>1. PICK row \in SellRow : row = sells[i]
          BY <1>a
        <5>2. [row EXCEPT !.order = "failure_verifying", !.status = st] \in SellRow
          BY <5>1 DEF OrderStatuses
        <5> QED  BY <5>1, <5>2
      <4> QED  BY <1>a, <3>1, <4>1
    <3>3. lane' \in Lanes(SellIds)
      BY <2>3, <1>a, <1>b DEF ObserveFailure
    <3>4. UNCHANGED <<position, remaining, group, intents, closer, rec, world>>
      BY <2>3 DEF ObserveFailure
    <3> QED  BY <1>a, <1>c, <3>2, <3>3, <3>4
  <2>4. CASE VerdictFailed(i)
    <3>1. PICK retry \in BOOLEAN : ProveFailed(i, retry)
      <4>1. CASE ProveFailed(i, FALSE)
        BY <4>1
      <4>2. CASE ProveFailed(i, RetriesLeft(sells[i].gen)) /\ RetriesLeft(sells[i].gen)
        <5>1. RetriesLeft(sells[i].gen) = TRUE
          BY <4>2 DEF RetriesLeft
        <5> QED  BY <4>2, <5>1
      <4>3. CASE ProveFailed(i, RetriesLeft(sells[i].gen)) /\ ~RetriesLeft(sells[i].gen)
        <5>1. RetriesLeft(sells[i].gen) = FALSE
          BY <4>3 DEF RetriesLeft
        <5> QED  BY <4>3, <5>1
      <4> QED  BY <2>4, <4>1, <4>2, <4>3 DEF VerdictFailed
    <3> QED  BY <2>4, <1>a, <1>b, <1>c, <3>1 DEF VerdictFailed, ProveFailed, OrderStatuses, SellStatuses,
             IntentStatuses, ActiveIntent, PositionStatuses, Closable
  <2>5. CASE VerdictUncertain(i)
    <3>1. PICK st \in SellStatuses : sells' = [sells EXCEPT ![i].status = st]
      BY <2>5, <1>a DEF VerdictUncertain, SellStatuses
    <3> QED  BY <2>5, <1>a, <1>b, <1>c, <3>1 DEF VerdictUncertain, IntentStatuses, ActiveIntent
  <2>6. CASE ReceiptContradicts(i)
    BY <2>6, <1>a, <1>c DEF ReceiptContradicts, SellStatuses, IntentStatuses, ActiveIntent
  <2>7. CASE FinalizeConfirmedSell(i)
    <3>1. sells' \in [SellIds -> SellRow] /\ intents' \in [Gens -> IntentStatuses] /\ lane' \in Lanes(SellIds)
      BY <2>7, <1>a, <1>b DEF FinalizeConfirmedSell, BookLots, OrderStatuses, SellStatuses, ErrorCodes,
         IntentStatuses
    <3>2. /\ remaining' \in 0 .. Opened /\ position' \in PositionStatuses /\ group' \in GroupStatuses
          /\ closer' = closer /\ rec' = rec /\ UNCHANGED world
      BY <2>7, <1>a, AmountsAssumption DEF FinalizeConfirmedSell, BookLots, PositionStatuses, Closable,
         GroupStatuses, ActiveGroup
    <3> QED  BY <1>a, <1>c, <3>1, <3>2
  <2>8. CASE EscalateUncertain(i)
    BY <2>8, <1>a, <1>c DEF EscalateUncertain, SellStatuses, IntentStatuses, ActiveIntent
  <2>9. CASE ReconcileCancelledClose(i)
    BY <2>9, <1>a, <1>c DEF ReconcileCancelledClose, SellStatuses, GroupStatuses, PositionStatuses, Closable
  <2> QED  BY <1>1, <2>1, <2>2, <2>3, <2>4, <2>5, <2>6, <2>7, <2>8, <2>9 DEF OrderStep
<1>f. ASSUME NEW i \in SellIds, NEW row \in SellRow, Observe(i, row)
      PROVE  /\ sells' \in [SellIds -> SellRow] /\ intents' \in [Gens -> IntentStatuses]
             /\ position' \in PositionStatuses
  <2>1. PICK g \in Gens : /\ sells' = [sells EXCEPT ![i] = [row EXCEPT !.status = "confirming", !.gen = g,
                                                          !.order = "chain_verifying"]]
                          /\ intents' = [intents EXCEPT ![g] = "awaiting_result"]
    BY <1>f, FreshOnes DEF Observe, Gens
  <2>2. [row EXCEPT !.status = "confirming", !.gen = g, !.order = "chain_verifying"] \in SellRow
    BY DEF SellRow, SellStatuses, ActiveSell, OrderStatuses
  <2>3. sells' \in [SellIds -> SellRow]
    BY <1>a, <2>1, <2>2 DEF Data
  <2>4. intents' \in [Gens -> IntentStatuses]
    BY <1>a, <2>1 DEF Data, IntentStatuses, ActiveIntent
  <2> QED  BY <1>f, <2>3, <2>4 DEF Observe, PositionStatuses
<1>2. ASSUME FetchStrategy PROVE Rows'
  <2>1. PICK view \in GroupStatuses : rec' = [IdleReconciler EXCEPT !.step = "strategy", !.view = view]
    BY <1>2, ViewTypes DEF FetchStrategy, GroupStatuses, UnsafeGroup
  <2>2. RecTyped'
    <3>1. PICK idle \in RecRow : idle = IdleReconciler
      BY IdleTypes
    <3> QED  BY <2>1, <3>1 DEF RecTyped, RecRow
  <2>3. Data' /\ closer' = closer
    BY <1>2, <1>a DEF FetchStrategy, Data, rows, world
  <2> QED  BY <1>d, <2>2, <2>3
<1>3. ASSUME PersistStrategy PROVE Rows'
  <2>1. RecTyped'
    <3>1. CASE rec' = [rec EXCEPT !.step = "claim"]
      BY <1>a, <3>1 DEF RecTyped, RecRow
    <3> QED  BY <1>3, <1>e, <3>1 DEF PersistStrategy
  <2>2. Data' /\ closer' = closer
    BY <1>3, <1>a DEF PersistStrategy, Data, world, RecTyped, RecRow, PositionStatuses, Closable
  <2> QED  BY <1>d, <2>1, <2>2
<1>4. ASSUME ClaimStrategyClose PROVE Rows'
  <2>1. /\ sells' \in [SellIds -> SellRow] /\ intents' \in [Gens -> IntentStatuses]
        /\ position' \in PositionStatuses /\ group' \in GroupStatuses
    <3>1. PICK i \in SalesOf("strategy") :
             IF sells[i].status # "unseen" \/ (ActiveSells = {} /\ (ScopeTaken \/ FreeGens = {}))
             THEN UNCHANGED <<position, sells, intents, group>>
             ELSE IF ActiveSells = {}
             THEN Observe(i, sells[i]) /\ group' = "triggered"
             ELSE /\ position' = "close_uncertain"
                  /\ LET latest == Max(ActiveSells) IN
                     sells' = IF sells[latest].status \in {"reserved", "preparing"}
                              THEN [sells EXCEPT ![latest].status = "reconciliation_required",
                                                 ![latest].code = "triggered"]
                              ELSE sells
                  /\ UNCHANGED <<intents, group>>
      BY <1>4 DEF ClaimStrategyClose
    <3>2. i \in SellIds /\ sells[i] \in SellRow
      BY <1>a DEF SalesOf, Data
    <3>3. CASE UNCHANGED <<position, sells, intents, group>>
      BY <1>a, <3>3 DEF Data
    <3>4. CASE Observe(i, sells[i]) /\ group' = "triggered"
      BY <1>f, <3>2, <3>4 DEF GroupStatuses, UnsafeGroup
    <3>5. CASE /\ position' = "close_uncertain" /\ UNCHANGED <<intents, group>> /\ ActiveSells # {}
               /\ sells' = IF sells[Max(ActiveSells)].status \in {"reserved", "preparing"}
                           THEN [sells EXCEPT ![Max(ActiveSells)].status = "reconciliation_required",
                                              ![Max(ActiveSells)].code = "triggered"]
                           ELSE sells
      <4>1. PICK k \in SellIds : k = Max(ActiveSells)
        <5>1. ActiveSells \in SUBSET SellIds
          BY DEF ActiveSells
        <5> QED  BY <3>5, <5>1, GreatestOf
      <4>2. sells' \in [SellIds -> SellRow]
        <5>1. sells' = sells \/ sells' = [sells EXCEPT ![k].status = "reconciliation_required",
                                                      ![k].code = "triggered"]
          BY <3>5, <4>1
        <5> QED  BY <1>a, <4>1, <5>1 DEF Data, SellRow, SellStatuses, ErrorCodes
      <4> QED  BY <1>a, <3>5, <4>2 DEF Data, PositionStatuses
    <3> QED  BY <3>1, <3>3, <3>4, <3>5
  <2>2. Data' /\ closer' = closer
    BY <1>4, <1>a, <2>1 DEF ClaimStrategyClose, Data, world
  <2> QED  BY <1>4, <1>d, <1>e, <2>2 DEF ClaimStrategyClose
<1>5. ASSUME ReadBalance PROVE Rows'
  <2>1. PICK b \in BOOLEAN : b = (group \in ActiveGroup \cup UnsafeGroup)
    <3>1. CASE group \in ActiveGroup \cup UnsafeGroup
      <4>1. (group \in ActiveGroup \cup UnsafeGroup) = TRUE
        BY <3>1
      <4> QED  BY <4>1
    <3>2. CASE group \notin ActiveGroup \cup UnsafeGroup
      <4>1. (group \in ActiveGroup \cup UnsafeGroup) = FALSE
        BY <3>2
      <4> QED  BY <4>1
    <3> QED  BY <3>1, <3>2
  <2>2. rec' = [IdleReconciler EXCEPT !.step = "balance", !.amount = wallet, !.guarded = b]
    BY <1>5, <2>1 DEF ReadBalance
  <2>3. wallet \in Nat
    BY <1>a, AmountsAssumption, ClosersAssumption DEF Data
  <2>4. RecTyped'
    <3>1. PICK idle \in RecRow : idle = IdleReconciler
      BY IdleTypes
    <3>2. rec' = [idle EXCEPT !.step = "balance", !.amount = wallet, !.guarded = b]
      BY <2>2, <3>1
    <3>3. rec' \in RecRow /\ rec'.step = "balance" /\ rec'.amount = wallet
      <4>1. wallet \in Int /\ b \in BOOLEAN
        BY <2>3
      <4> QED  BY <3>1, <3>2, <4>1 DEF RecRow
    <3> QED  BY <2>3, <3>3 DEF RecTyped
  <2>5. Data' /\ closer' = closer
    BY <1>5, <1>a DEF ReadBalance, Data, rows, world
  <2> QED  BY <1>d, <2>4, <2>5
<1>6. ASSUME JudgeBalance PROVE Rows'
  <2>1. Deficit \in Int
    BY <1>a, <1>6 DEF Deficit, Data, RecTyped, JudgeBalance
  <2>2. RecTyped'
    <3>1. CASE rec' = IdleReconciler
      BY <1>e, <3>1
    <3>2. CASE rec' # IdleReconciler
      <4>1. PICK d : d = Deficit /\ d \in Nat \ {0}
        BY <1>6, <2>1, <3>2 DEF JudgeBalance
      <4>2. /\ Cardinality(Candidates(d)) = 1
            /\ rec' = [rec EXCEPT !.step = "external", !.amount = d, !.sale = Max(Candidates(d))]
        BY <1>6, <3>2, <4>1 DEF JudgeBalance, MarkPositionBalanceMismatch
      <4>3. Candidates(d) \in SUBSET SellIds /\ Candidates(d) # {}
        BY <4>2, FS_EmptySet DEF Candidates
      <4>4. PICK i \in SellIds : i = Max(Candidates(d))
        BY <4>3, GreatestOf
      <4>5. i \in 0 .. MaxSells /\ d \in Int
        BY <4>1, <4>4 DEF SellIds
      <4>6. rec \in RecRow /\ rec' = [rec EXCEPT !.step = "external", !.amount = d, !.sale = i]
        BY <1>a, <4>2, <4>4 DEF RecTyped
      <4>7. rec' \in RecRow /\ rec'.step = "external" /\ rec'.sale = i /\ rec'.amount = d
        BY <4>5, <4>6 DEF RecRow
      <4> QED  BY <4>1, <4>4, <4>7 DEF RecTyped
    <3> QED  BY <3>1, <3>2
  <2>3. Data' /\ closer' = closer
    BY <1>6, <1>a DEF JudgeBalance, MarkPositionBalanceMismatch, Data, world, PositionStatuses
  <2> QED  BY <1>d, <2>2, <2>3
<1>7. ASSUME ClaimExternalClose PROVE Rows'
  <2>1. /\ sells' \in [SellIds -> SellRow] /\ intents' \in [Gens -> IntentStatuses]
        /\ position' \in PositionStatuses
    <3>1. CASE UNCHANGED <<position, sells, intents>>
      BY <1>a, <3>1 DEF Data
    <3>2. CASE ~UNCHANGED <<position, sells, intents>>
      <4>1. PICK t, slots :
               /\ t = rec.sale /\ slots = (IF sells[t].status = "unseen" THEN {t} ELSE FreeSells)
               /\ slots # {}
               /\ Observe(Min(slots), [NoSell EXCEPT !.origin = "external", !.tx = t, !.amount = rec.amount])
        BY <1>7, <3>2 DEF ClaimExternalClose
      <4>2. t \in SellIds /\ rec.amount \in Nat
        BY <1>7, <1>a, <4>1 DEF ClaimExternalClose, RecTyped
      <4>3. slots \in SUBSET SellIds
        BY <4>1, <4>2, FreshOnes
      <4>4. PICK i \in SellIds : i = Min(slots)
        BY <4>1, <4>3, LeastOf
      <4>5. PICK row \in SellRow : row = [NoSell EXCEPT !.origin = "external", !.tx = t, !.amount = rec.amount]
        <5>1. PICK none \in SellRow : none = NoSell
          <6>1. 1 \in Gens /\ 1 \in SellIds
            BY CloseBoundsAssumption DEF Gens, SellIds
          <6>2. NoSell \in SellRow
            BY <6>1 DEF NoSell, SellRow, Origins, SellStatuses, OrderStatuses, ErrorCodes
          <6> QED  BY <6>2
        <5>2. [none EXCEPT !.origin = "external", !.tx = t, !.amount = rec.amount] \in SellRow
          BY <4>2, <5>1 DEF SellRow, Origins
        <5> QED  BY <5>1, <5>2
      <4> QED  BY <1>f, <4>1, <4>4, <4>5
    <3> QED  BY <3>1, <3>2
  <2>2. Data' /\ closer' = closer
    BY <1>7, <1>a, <2>1 DEF ClaimExternalClose, Data, world
  <2> QED  BY <1>7, <1>d, <1>e, <2>2 DEF ClaimExternalClose
<1> QED  BY <1>1, <1>2, <1>3, <1>4, <1>5, <1>6, <1>7 DEF ReconcileStep

LEMMA EnvironmentTyped == ASSUME Rows, EnvironmentStep, setting' = setting PROVE Rows'
<1>a. Data /\ RecTyped /\ setting \in Settings
  BY DEF Rows
<1>b. ASSUME closer' = closer, rec' = rec, Data' PROVE Rows'
  BY <1>b DEF Rows, CloserSound, RecTyped
<1>c. /\ wallet \in Nat /\ \A amount \in Nat : amount <= wallet => wallet - amount \in 0 .. Opened + setting.foreign
      /\ Opened \in Nat
  BY <1>a, AmountsAssumption, ClosersAssumption DEF Data
<1>1. ASSUME NEW i \in SellIds, SwapLands(i) PROVE Rows'
  <2>1. sells[i].amount \in Nat
    BY <1>a DEF Data, SellRow
  <2>2. wallet' \in 0 .. Opened + setting'.foreign
    BY <1>1, <1>a, <1>c, <2>1 DEF SwapLands, Data
  <2> QED  BY <1>1, <1>a, <1>b, <2>2 DEF SwapLands, Data, rows
<1>2. ASSUME NEW origin \in {"strategy", "external"}, NEW amount \in 1 .. Opened, SaleAppears(origin, amount)
      PROVE  /\ sells' \in [SellIds -> SellRow] /\ chain' \in [SellIds -> {"none", "sent", "sold", "reverted"}]
             /\ wallet' \in 0 .. Opened + setting'.foreign
  <2>1. PICK i \in SellIds : i = Max(FreeSells)
    BY <1>2, FreshOnes DEF SaleAppears
  <2>2. PICK none \in SellRow : none = NoSell
    <3>1. 1 \in Gens /\ 1 \in SellIds
      BY CloseBoundsAssumption DEF Gens, SellIds
    <3>2. NoSell \in SellRow
      BY <3>1 DEF NoSell, SellRow, Origins, SellStatuses, OrderStatuses, ErrorCodes
    <3> QED  BY <3>2
  <2>3. [none EXCEPT !.origin = origin, !.status = "unseen", !.amount = amount, !.tx = i] \in SellRow
    <3>1. amount \in Nat /\ origin \in Origins /\ "unseen" \in SellStatuses
      BY DEF Origins, SellStatuses
    <3> QED  BY <2>1, <2>2, <3>1 DEF SellRow
  <2>4. sells' \in [SellIds -> SellRow]
    BY <1>2, <1>a, <2>1, <2>2, <2>3 DEF SaleAppears, Data
  <2>5. chain' \in [SellIds -> {"none", "sent", "sold", "reverted"}]
    BY <1>2, <1>a, <2>1 DEF SaleAppears, Data
  <2>6. amount \in Nat /\ amount <= wallet /\ wallet' = wallet - amount
    BY <1>2, <1>c DEF SaleAppears
  <2> QED  BY <1>c, <2>4, <2>5, <2>6
<1>3. ASSUME StrategyTriggers PROVE Rows'
  <2>1. PICK part \in 1 .. Opened : SaleAppears("strategy", part) /\ strategy' \in {"sold", "selling"}
    BY <1>3 DEF StrategyTriggers
  <2> QED  BY <1>3, <1>a, <1>b, <1>2, <2>1 DEF StrategyTriggers, Data
<1>4. ASSUME StrategyFails PROVE Rows'
  BY <1>4, <1>a, <1>b DEF StrategyFails, Data, rows
<1>5. ASSUME NEW amount \in 1 .. Opened, OwnerSells(amount) PROVE Rows'
  <2>1. SaleAppears("external", amount)
    BY <1>5 DEF OwnerSells
  <2> QED  BY <1>5, <1>a, <1>b, <1>2, <2>1, CloseBoundsAssumption DEF OwnerSells, Disturbable, Data
<1>6. ASSUME NEW amount \in 1 .. Opened, OwnerTransfers(amount) PROVE Rows'
  <2>1. amount \in Nat /\ amount <= wallet /\ wallet' = wallet - amount
    BY <1>6, <1>c DEF OwnerTransfers
  <2>2. wallet' \in 0 .. Opened + setting'.foreign
    BY <1>c, <2>1
  <2> QED  BY <1>6, <1>a, <1>b, <2>2, CloseBoundsAssumption DEF OwnerTransfers, Disturbable, Data, rows
<1>7. ASSUME Crash PROVE Rows'
  <2>1. PICK idle \in CloserRow : idle = IdleCloser /\ idle.step = "idle" /\ idle.sell = 0
    BY IdleTypes DEF IdleCloser
  <2>2. closer' = [c \in Closers |-> idle]
    BY <1>7, <2>1 DEF Crash
  <2>3. closer' \in [Closers -> CloserRow] /\ \A c \in Closers : CloserSound(c)'
    BY <2>1, <2>2 DEF CloserSound, WithoutSell
  <2>4. RecTyped'
    BY <1>7, IdleTypes DEF Crash, RecTyped, IdleReconciler
  <2>5. Data'
    BY <1>7, <1>a, CloseBoundsAssumption DEF Crash, Disturbable, Data, rows
  <2> QED  BY <1>a, <2>3, <2>4, <2>5 DEF Rows
<1> QED  BY <1>1, <1>3, <1>4, <1>5, <1>6, <1>7 DEF EnvironmentStep

LEMMA RowsInit == ASSUME Init PROVE Rows
<1>1. /\ setting \in Settings /\ Opened \in Nat \ {0} /\ setting.foreign \in Nat
      /\ 1 \in Gens /\ 1 \in SellIds
  BY AmountsAssumption, ClosersAssumption, CloseBoundsAssumption DEF Init, Gens, SellIds
<1>2. PICK none \in SellRow : none = NoSell
  <2>1. NoSell \in SellRow
    BY <1>1 DEF NoSell, SellRow, Origins, SellStatuses, OrderStatuses, ErrorCodes
  <2> QED  BY <2>1
<1>3. sells \in [SellIds -> SellRow] /\ intents \in [Gens -> IntentStatuses] /\ lane \in Lanes(SellIds)
  BY <1>2 DEF Init, IntentStatuses, Lanes
<1>4. Data
  BY <1>1, <1>3, CloseBoundsAssumption DEF Init, Data, PositionStatuses, Closable, GroupStatuses, ActiveGroup
<1>5. RecTyped
  BY IdleTypes DEF Init, RecTyped, IdleReconciler
<1>6. PICK idle \in CloserRow : idle = IdleCloser /\ idle.step = "idle" /\ idle.sell = 0
  BY IdleTypes DEF IdleCloser
<1>7. closer \in [Closers -> CloserRow] /\ \A c \in Closers : CloserSound(c)
  BY <1>6 DEF Init, CloserSound, WithoutSell
<1> QED  BY <1>1, <1>4, <1>5, <1>7 DEF Rows

LEMMA RowsKept == ASSUME Rows, [Next]_<<vars, setting>> PROVE Rows'
<1>1. CASE UNCHANGED <<vars, setting>>
  BY <1>1 DEF vars, rows, world, Rows, Data, RecTyped, CloserSound
<1>2. CASE Next
  <2>1. ASSUME NEW c \in Closers, CloserStep(c), setting' = setting PROVE Rows'
    BY <2>1, CloserMoves, CloserWrites, ClosersSound
  <2> QED  BY <1>2, <2>1, RetryTyped, ReconcilerTyped, EnvironmentTyped DEF Next
<1> QED  BY <1>1, <1>2

(* Every variable keeps to the values the code gives it: the position, its *)
(* lots, the sell attempts with their orders, the intents and the wallet's *)
(* lane, whatever closers, sweeps, reconciler and owner do.                *)
THEOREM CloseTyped == Spec => []TypeOK
<1>1. Rows => TypeOK
  BY DEF Rows, Data, RecTyped, RecRow, CloserRow, TypeOK, SellRow
<1>2. Init => Rows
  BY RowsInit
<1>3. Rows /\ [Next]_<<vars, setting>> => Rows'
  BY RowsKept
<1> QED  BY <1>1, <1>2, <1>3, PTL DEF Spec

-----------------------------------------------------------------------------
(* A step that is calm gives nobody a reason to count on a strategy that   *)
(* may still sell.  Every step is, but for the one in which it does sell.  *)
RowStep(i) ==
    \/ /\ sells'[i].status = sells[i].status /\ sells'[i].origin = sells[i].origin
       /\ sells'[i].tx = sells[i].tx /\ sells'[i].order = sells[i].order
    \/ /\ Observed(i) \/ (StrategySale(i) /\ sells[i].status = "unseen")
       /\ Observed(i)'
       /\ sells'[i].origin = sells[i].origin /\ sells'[i].tx = sells[i].tx
    \/ sells[i].status = "none" /\ Observed(i)' /\ sells'[i].origin = "close" /\ sells'[i].tx = i
    \/ ~Observed(i) /\ Observed(i)' /\ sells'[i].origin = "external" /\ Quiet
    \/ /\ sells[i].status = "none" /\ sells'[i].status = "unseen"
       /\ sells'[i].origin = "external" /\ sells'[i].order = "none"

StrategyMoves ==
    strategy' = strategy \/ (strategy = "live" /\ strategy' \in {"cancelled", "failed"})

Calm ==
    /\ StrategyMoves
    /\ \A i \in SellIds : RowStep(i)
    /\ \A i \in SellIds : sells'[i].origin = "close" /\ chain[i] = "none" /\ chain'[i] # "none" => Quiet
    /\ group' \in QuietGroup => group' = group \/ Quiet'
    /\ remaining' = remaining \/ NoSaleToCome'
    /\ \A c \in Closers : closer'[c] = closer[c] \/ CloserQuiet(c)'
    /\ rec' = rec \/ RecQuiet'

(* A closer that only goes on keeps what it has. *)
LEMMA GotoIs ==
    ASSUME Rows, NEW c \in Closers, NEW step, Goto(c, step)
    PROVE  /\ closer'[c] = [closer[c] EXCEPT !.step = step] /\ closer'[c].step = step
           /\ closer'[c].guarded = closer[c].guarded /\ closer'[c].cancelled = closer[c].cancelled
           /\ closer'[c].sell = closer[c].sell /\ closer'[c].gen = closer[c].gen
           /\ closer'[c].saw = closer[c].saw /\ closer'[c].code = closer[c].code
BY DEF Rows, Goto, CloserRow

LEMMA DoubtIs ==
    ASSUME Rows, NEW c \in Closers, NEW why, Doubt(c, why)
    PROVE  /\ closer'[c].step = "doubt" /\ closer'[c].code = why
           /\ closer'[c].guarded = closer[c].guarded
           /\ closer'[c].sell = closer[c].sell /\ closer'[c].gen = closer[c].gen
BY DEF Rows, Doubt, CloserRow

LEMMA CaptureIs ==
    ASSUME Rows, NEW c \in Closers,
           closer' = [closer EXCEPT ![c].step = "capture", ![c].cancelled = TRUE]
    PROVE  /\ closer'[c].step = "capture" /\ closer'[c].guarded = closer[c].guarded
           /\ closer'[c].sell = closer[c].sell /\ closer'[c].gen = closer[c].gen
           /\ closer'[c].code = closer[c].code
BY DEF Rows, CloserRow

LEMMA HandlerOverIs ==
    ASSUME Rows, NEW c \in Closers, HandlerOver(c)
    PROVE  \/ c = Worker /\ closer'[c] = [closer[c] EXCEPT !.step = "failed"]
              /\ closer'[c].step = "failed"
              /\ closer'[c].sell = closer[c].sell /\ closer'[c].gen = closer[c].gen
           \/ c # Worker /\ closer'[c] = IdleCloser /\ closer'[c].step = "idle" /\ closer'[c].sell = 0
<1>1. CASE c = Worker
  BY <1>1, GotoIs DEF HandlerOver
<1>2. CASE c # Worker
  BY <1>2 DEF HandlerOver, Abandon, Rows, IdleCloser
<1> QED  BY <1>1, <1>2

LEMMA QuietStays ==
    ASSUME StrategyMoves, \A i \in SellIds : RowStep(i)
    PROVE  /\ Quiet => Quiet'
           /\ NoSaleToCome => NoSaleToCome'
           /\ strategy = "cancelled" => strategy' = "cancelled"
BY DEF StrategyMoves, RowStep, Quiet, NoSaleToCome, StrategySale, Observed

LEMMA CalmKeeps == ASSUME StrategyInv, Calm PROVE StrategyInv'
<1>1. /\ Quiet => Quiet'
      /\ NoSaleToCome => NoSaleToCome'
      /\ strategy = "cancelled" => strategy' = "cancelled"
  BY QuietStays DEF Calm
<1>2. OneSale'
  BY DEF StrategyInv, SalesInv, OneSale, Calm, StrategyMoves, RowStep, StrategySale
<1>3. ASSUME NEW i \in SellIds PROVE sells'[i].origin = "close" /\ chain'[i] # "none" => Quiet'
  BY <1>1 DEF StrategyInv, SalesInv, Calm, RowStep
<1>4. ASSUME NEW i \in SellIds PROVE sells'[i].origin = "external" /\ Observed(i)' => Quiet'
  <2>1. RowStep(i) /\ (sells[i].origin = "external" /\ Observed(i) => Quiet)
    BY DEF StrategyInv, SalesInv, Calm
  <2> QED  BY <1>1, <2>1 DEF RowStep, Observed, StrategySale
<1>5. ASSUME NEW i \in SellIds
      PROVE  /\ ~Observed(i)' => sells'[i].order = "none"
             /\ sells'[i].status = "none" => sells'[i].origin = "close"
             /\ sells'[i].status # "none" /\ sells'[i].origin = "close" => sells'[i].tx = i
  BY DEF StrategyInv, SalesInv, Calm, RowStep, Observed
<1>6. SalesInv'
  BY <1>2, <1>3, <1>4, <1>5 DEF SalesInv
<1>7. RecQuiet'
  BY <1>1 DEF StrategyInv, RecQuiet, Calm
<1>8. ASSUME NEW c \in Closers PROVE CloserQuiet(c)'
  BY <1>1, <1>8 DEF StrategyInv, CloserQuiet, Calm
<1>9. group' \in QuietGroup => Quiet'
  BY <1>1 DEF StrategyInv, Calm
<1>10. remaining' < Opened => NoSaleToCome'
  BY <1>1 DEF StrategyInv, Calm
<1> QED  BY <1>6, <1>7, <1>8, <1>9, <1>10 DEF StrategyInv

(* A strategy the provider does not show as running, nor as unsafe, is over. *)
LEMMA SeenOver ==
    ASSUME Rows, StrategyInv
    PROVE  /\ StrategySeen \notin ActiveGroup \cup UnsafeGroup => Quiet
           /\ ProviderView \in QuietGroup => Quiet
           /\ ProviderView = "cancelled" => strategy = "cancelled"
<1>1. ProviderView \notin ActiveGroup \cup UnsafeGroup => Quiet /\ strategy \in {"cancelled", "failed", "none"}
  BY DEF ProviderView, Rows, Data, StrategyInv, SalesInv, OneSale, Quiet, NoSaleToCome, ActiveGroup, UnsafeGroup
<1>2. group \notin ActiveGroup \cup UnsafeGroup => Quiet
  BY DEF Rows, Data, StrategyInv, GroupStatuses, QuietGroup
<1>3. ProviderView \in QuietGroup => ProviderView \notin ActiveGroup \cup UnsafeGroup
  BY DEF QuietGroup, ActiveGroup, UnsafeGroup
<1> QED  BY <1>1, <1>2, <1>3 DEF StrategySeen, ProviderView, ActiveGroup, UnsafeGroup

LEMMA RowKept ==
    ASSUME NEW i \in SellIds, Observed(i), Observed(i)',
           sells'[i].origin = sells[i].origin, sells'[i].tx = sells[i].tx,
           \A j \in SellIds \ {i} : sells'[j] = sells[j]
    PROVE  \A j \in SellIds : RowStep(j)
<1>1. RowStep(i)
  BY DEF RowStep, Observed
<1>2. ASSUME NEW j \in SellIds \ {i} PROVE RowStep(j)
  <2>1. sells'[j] = sells[j]
    OBVIOUS
  <2> QED  BY <2>1 DEF RowStep
<1> QED  BY <1>1, <1>2

LEMMA CloserCalm == ASSUME Rows, StrategyInv, NEW c \in Closers, CloserStep(c), setting' = setting PROVE Calm
<1>a. /\ OthersStay(c) /\ CloserSound(c) /\ CloserQuiet(c) /\ Data /\ sells \in [SellIds -> SellRow]
      /\ closer \in [Closers -> CloserRow]
      /\ closer[c].step \notin WithoutSell \cup {"failed"} => MySell(c) \in SellIds
  BY CloserMoves DEF Rows, StrategyInv, Data, CloserSound, MySell
<1>b. ASSUME /\ \A i \in SellIds : RowStep(i)
             /\ group' = group /\ chain' = chain /\ strategy' = strategy /\ remaining' = remaining
             /\ (Quiet => Quiet') => CloserQuiet(c)'
      PROVE  Calm
  BY <1>a, <1>b, QuietStays DEF Calm, StrategyMoves, OthersStay
<1>c. ASSUME sells' = sells PROVE \A i \in SellIds : RowStep(i)
  BY <1>c DEF RowStep
<1>d. CloserQuiet(c)' <=>
        /\ closer'[c].step \in BeforeCancel /\ ~closer'[c].guarded => Quiet'
        /\ closer'[c].step \in AfterCancel => Quiet'
        /\ closer'[c].step \in AfterCancel /\ closer'[c].guarded => strategy' = "cancelled"
  BY DEF CloserQuiet
<1>e. ASSUME closer'[c].step \notin BeforeCancel \cup AfterCancel PROVE CloserQuiet(c)'
  BY <1>d, <1>e
<1>f. ASSUME HandlerOver(c) PROVE closer'[c].step \notin BeforeCancel \cup AfterCancel
  BY <1>f, HandlerOverIs DEF BeforeCancel, AfterCancel
<1>g. ASSUME Abandon(c) PROVE closer'[c].step \notin BeforeCancel \cup AfterCancel
  BY <1>a, <1>g DEF Abandon, IdleCloser, BeforeCancel, AfterCancel
<1> USE DEF rows, world
<1>1. CASE Prepare(c)
  <2>1. closer'[c].step = "prepared"
    BY <1>1, <1>a DEF Prepare
  <2> QED  BY <1>1, <1>b, <1>c, <1>e, <2>1 DEF Prepare, BeforeCancel, AfterCancel
<1>2. CASE Execute(c)
  <2>1. CASE Abandon(c)
    BY <1>2, <1>b, <1>c, <1>e, <1>g, <2>1 DEF Execute
  <2>2. CASE ~Abandon(c)
    <3>1. /\ StrategySeen \notin UnsafeGroup
          /\ closer' = [closer EXCEPT ![c].step = "built", ![c].guarded = StrategySeen \in ActiveGroup]
      BY <1>2, <2>2 DEF Execute, Buildable
    <3>2. closer'[c].step = "built" /\ closer'[c].guarded = (StrategySeen \in ActiveGroup)
      BY <1>a, <3>1
    <3>3. ~closer'[c].guarded => Quiet
      BY <3>1, <3>2, SeenOver
    <3>4. (Quiet => Quiet') => CloserQuiet(c)'
      BY <1>d, <3>2, <3>3 DEF AfterCancel
    <3> QED  BY <1>2, <1>b, <1>c, <3>4 DEF Execute
  <2> QED  BY <2>1, <2>2
<1>3. CASE CreateSellAttempt(c)
  <2>1. CASE Abandon(c) /\ sells' = sells
    BY <1>3, <1>b, <1>c, <1>e, <1>g, <2>1 DEF CreateSellAttempt
  <2>2. CASE ~(Abandon(c) /\ sells' = sells)
    <3>1. PICK i, g : /\ i = Min(FreeSells)
                      /\ sells' = [sells EXCEPT ![i] = [NoSell EXCEPT !.status = "reserved", !.gen = g,
                                                        !.tx = i, !.amount = closer[c].saw.amount]]
                      /\ closer' = [closer EXCEPT ![c].step = "reserved", ![c].sell = i,
                                                  ![c].gen = g, ![c].saw = NothingSeen]
      BY <1>3, <2>2 DEF CreateSellAttempt
    <3>2. FreeSells # {}
      BY <1>3, <2>2 DEF CreateSellAttempt
    <3>3. i \in SellIds /\ sells[i].status = "none"
      BY <3>1, <3>2, FreshOnes DEF FreeSells
    <3>4. \A j \in SellIds : RowStep(j)
      BY <1>a, <3>1, <3>3 DEF RowStep, NoSell, Observed
    <3>5. closer'[c].step = "reserved" /\ closer'[c].guarded = closer[c].guarded /\ closer[c].step = "built"
      BY <1>3, <1>a, <3>1 DEF CreateSellAttempt, At
    <3>6. (Quiet => Quiet') => CloserQuiet(c)'
      BY <1>a, <1>d, <3>5 DEF CloserQuiet, BeforeCancel, AfterCancel
    <3> QED  BY <1>3, <1>b, <3>4, <3>6 DEF CreateSellAttempt
  <2> QED  BY <2>1, <2>2
<1>4. CASE BeginPreparing(c)
  <2>1. \A j \in SellIds : RowStep(j)
    <3>1. PICK i \in SellIds : i = MySell(c)
      BY <1>4, <1>a DEF BeginPreparing, At, WithoutSell
    <3>2. \/ sells' = sells
          \/ /\ sells[i].status = "reserved"
             /\ sells' = [sells EXCEPT ![i].status = "preparing"]
      BY <1>4, <3>1 DEF BeginPreparing
    <3>3. CASE sells' # sells
      BY <1>a, <3>1, <3>2, <3>3, RowKept DEF SellRow, Observed
    <3> QED  BY <1>c, <3>3
  <2>2. (Quiet => Quiet') => CloserQuiet(c)'
    <3>1. closer'[c].step \in {"cancel", "drop"} /\ closer'[c].guarded = closer[c].guarded
      <4>1. Goto(c, "cancel") \/ Goto(c, "drop")
        BY <1>4 DEF BeginPreparing
      <4> QED  BY <4>1, GotoIs
    <3>2. At(c, "reserved")
      BY <1>4 DEF BeginPreparing
    <3> QED  BY <1>a, <1>d, <3>1, <3>2 DEF CloserQuiet, BeforeCancel, AfterCancel, At
  <2> QED  BY <1>4, <1>b, <2>1, <2>2 DEF BeginPreparing
<1>5. CASE AcquireForCancel(c)
  <2>1. (Quiet => Quiet') => CloserQuiet(c)'
    <3>1. \/ closer'[c].step \in {"mark", "drop"} /\ closer'[c].guarded = closer[c].guarded
          \/ ~closer[c].guarded /\ closer'[c].step = "capture" /\ closer'[c].guarded = closer[c].guarded
      <4>1. \/ Goto(c, "mark") \/ Goto(c, "drop")
            \/ ~closer[c].guarded /\ closer' = [closer EXCEPT ![c].step = "capture", ![c].cancelled = TRUE]
        BY <1>5 DEF AcquireForCancel
      <4> QED  BY <4>1, GotoIs, CaptureIs
    <3>2. At(c, "cancel")
      BY <1>5 DEF AcquireForCancel
    <3> QED  BY <1>a, <1>d, <3>1, <3>2 DEF CloserQuiet, BeforeCancel, AfterCancel, At
  <2> QED  BY <1>5, <1>b, <1>c, <2>1 DEF AcquireForCancel
<1>6. CASE MarkCancelling(c)
  <2>1. (Quiet => Quiet') => CloserQuiet(c)'
    <3>1. closer'[c].step \in {"ask", "drop"} /\ closer'[c].guarded = closer[c].guarded
      <4>1. Goto(c, "ask") \/ Goto(c, "drop")
        BY <1>6 DEF MarkCancelling
      <4> QED  BY <4>1, GotoIs
    <3>2. At(c, "mark")
      BY <1>6 DEF MarkCancelling
    <3> QED  BY <1>a, <1>d, <3>1, <3>2 DEF CloserQuiet, BeforeCancel, AfterCancel, At
  <2>2. Quiet' <=> Quiet
    BY <1>6 DEF MarkCancelling, Quiet, NoSaleToCome, StrategySale
  <2>3. group' = group \/ group' = "cancelling"
    BY <1>6 DEF MarkCancelling
  <2> QED  BY <1>6, <1>a, <1>c, <2>1, <2>2, <2>3 DEF MarkCancelling, Calm, StrategyMoves, OthersStay, QuietGroup
<1>7. CASE AskCancel(c)
  <2>1. StrategyMoves /\ \A i \in SellIds : RowStep(i)
    BY <1>7, <1>c DEF AskCancel, StrategyMoves, CancelledAtProvider
  <2>2. Quiet => Quiet'
    BY <2>1, QuietStays
  <2>3. CloserQuiet(c)'
    <3>1. closer'[c].step \in {"verify", "drop", "doubt"} /\ closer'[c].guarded = closer[c].guarded
      <4>1. Goto(c, "verify") \/ Goto(c, "drop") \/ Doubt(c, "cancel")
        BY <1>7 DEF AskCancel
      <4> QED  BY <4>1, GotoIs, DoubtIs
    <3>2. At(c, "ask")
      BY <1>7 DEF AskCancel
    <3> QED  BY <1>a, <1>d, <2>2, <3>1, <3>2 DEF CloserQuiet, BeforeCancel, AfterCancel, At
  <2>4. group' = group \/ group' = "running"
    BY <1>7 DEF AskCancel
  <2> QED  BY <1>7, <1>a, <2>1, <2>3, <2>4 DEF AskCancel, Calm, OthersStay, QuietGroup
<1>8. CASE VerifyCancel(c)
  <2>1. Quiet' <=> Quiet
    BY <1>8 DEF VerifyCancel, Quiet, NoSaleToCome, StrategySale
  <2>2. CASE closer'[c].step = "capture"
    <3>1. ProviderView = "cancelled"
      BY <1>8, <2>2, DoubtIs, GotoIs DEF VerifyCancel
    <3>2. Quiet /\ strategy = "cancelled" /\ strategy' = strategy
      BY <1>8, <3>1, SeenOver DEF QuietGroup, VerifyCancel
    <3>3. CloserQuiet(c)'
      BY <1>d, <2>1, <3>2
    <3> QED  BY <1>8, <1>a, <1>c, <2>1, <3>2, <3>3 DEF VerifyCancel, Calm, StrategyMoves, OthersStay
  <2>3. CASE closer'[c].step # "capture"
    <3>1. closer'[c].step \in {"drop", "doubt"} /\ group' = group
      BY ZenonT(60), <1>8, <2>3, DoubtIs, GotoIs, CaptureIs DEF VerifyCancel
    <3> QED  BY <1>8, <1>b, <1>c, <1>e, <3>1 DEF VerifyCancel, BeforeCancel, AfterCancel
  <2> QED  BY <2>2, <2>3
<1>9. CASE CaptureSnapshot(c)
  <2>1. \A j \in SellIds : RowStep(j)
    <3>1. sells' = sells \/ sells' = [sells EXCEPT ![MySell(c)].sealed = Landed]
      BY <1>9 DEF CaptureSnapshot
    <3>2. PICK n : sells' = sells \/ sells' = [sells EXCEPT ![MySell(c)].sealed = n]
      BY <3>1
    <3> QED  BY <1>a, <3>2 DEF RowStep, SellRow
  <2>2. (Quiet => Quiet') => CloserQuiet(c)'
    <3>1. closer'[c].step \in {"acquire", "drop"} /\ closer'[c].guarded = closer[c].guarded
      <4>1. Goto(c, "acquire") \/ Goto(c, "drop")
        BY <1>9 DEF CaptureSnapshot
      <4> QED  BY <4>1, GotoIs
    <3>2. At(c, "capture") /\ strategy' = strategy
      BY <1>9 DEF CaptureSnapshot
    <3> QED  BY <1>a, <1>d, <3>1, <3>2 DEF CloserQuiet, BeforeCancel, AfterCancel, At
  <2> QED  BY <1>9, <1>b, <2>1, <2>2 DEF CaptureSnapshot
<1>10. CASE AcquireForSwap(c)
  <2>1. (Quiet => Quiet') => CloserQuiet(c)'
    <3>1. closer'[c].step \in {"begin", "drop"} /\ closer'[c].guarded = closer[c].guarded
      <4>1. Goto(c, "begin") \/ Goto(c, "drop")
        BY <1>10 DEF AcquireForSwap
      <4> QED  BY <4>1, GotoIs
    <3>2. At(c, "acquire") /\ strategy' = strategy
      BY <1>10 DEF AcquireForSwap
    <3> QED  BY <1>a, <1>d, <3>1, <3>2 DEF CloserQuiet, BeforeCancel, AfterCancel, At
  <2> QED  BY <1>10, <1>b, <1>c, <2>1 DEF AcquireForSwap
<1>11. CASE BeginSwap(c)
  <2>1. \A j \in SellIds : RowStep(j)
    <3>1. PICK i \in SellIds : i = MySell(c)
      BY <1>11, <1>a DEF BeginSwap, At, WithoutSell
    <3>2. \/ sells' = sells
          \/ /\ sells[i].status = "preparing"
             /\ sells' = [sells EXCEPT ![i].status = "submitting"]
      BY <1>11, <3>1 DEF BeginSwap
    <3>3. CASE sells' # sells
      BY <1>a, <3>1, <3>2, <3>3, RowKept DEF SellRow, Observed
    <3> QED  BY <1>c, <3>3
  <2>2. (Quiet => Quiet') => CloserQuiet(c)'
    <3>1. closer'[c].step \in {"swap", "drop"} /\ closer'[c].guarded = closer[c].guarded
      <4>1. Goto(c, "swap") \/ Goto(c, "drop")
        BY <1>11 DEF BeginSwap
      <4> QED  BY <4>1, GotoIs
    <3>2. At(c, "begin") /\ strategy' = strategy
      BY <1>11 DEF BeginSwap
    <3> QED  BY <1>a, <1>d, <3>1, <3>2 DEF CloserQuiet, BeforeCancel, AfterCancel, At
  <2> QED  BY <1>11, <1>b, <2>1, <2>2 DEF BeginSwap
<1>12. CASE SwapAnswered(c)
  <2>1. Quiet /\ closer'[c].step \notin BeforeCancel \cup AfterCancel
    <3>1. Goto(c, "record") \/ Goto(c, "drop") \/ Doubt(c, "swap")
      BY <1>12 DEF SwapAnswered
    <3>2. closer'[c].step \in {"record", "drop", "doubt"}
      BY <3>1, GotoIs, DoubtIs
    <3>3. Quiet
      BY <1>12, <1>a DEF SwapAnswered, At, CloserQuiet, AfterCancel
    <3> QED  BY <3>2, <3>3 DEF BeforeCancel, AfterCancel
  <2> QED  BY <1>12, <1>a, <1>c, <1>e, <2>1 DEF SwapAnswered, Calm, StrategyMoves, OthersStay
<1>13. CASE RecordSubmittedOrder(c)
  <2>1. \A j \in SellIds : RowStep(j)
    <3>1. PICK i \in SellIds : i = MySell(c)
      BY <1>13, <1>a DEF RecordSubmittedOrder, At, WithoutSell
    <3>2. \/ sells' = sells
          \/ /\ sells[i].status = "submitting"
             /\ sells' = [sells EXCEPT ![i].status = "submitted", ![i].order = "submitted"]
      BY <1>13, <3>1 DEF RecordSubmittedOrder
    <3>3. CASE sells' # sells
      BY <1>a, <3>1, <3>2, <3>3, RowKept DEF SellRow, Observed
    <3> QED  BY <1>c, <3>3
  <2>2. closer'[c].step \notin BeforeCancel \cup AfterCancel
    <3>1. Goto(c, "settle") \/ Doubt(c, "swap")
      BY <1>13 DEF RecordSubmittedOrder
    <3>2. closer'[c].step \in {"settle", "doubt"}
      BY <3>1, GotoIs, DoubtIs
    <3> QED  BY <3>2 DEF BeforeCancel, AfterCancel
  <2> QED  BY <1>13, <1>b, <1>e, <2>1, <2>2 DEF RecordSubmittedOrder
<1>14. CASE SettleSubmittedOrder(c)
  BY <1>14, <1>b, <1>c, <1>e, <1>g DEF SettleSubmittedOrder
<1>15. CASE MarkSellUncertain(c)
  <2>1. \A j \in SellIds : RowStep(j)
    <3>1. PICK i \in SellIds : i = MySell(c)
      BY <1>15, <1>a DEF MarkSellUncertain, At, WithoutSell
    <3>2. \/ sells' = sells
          \/ /\ sells[i].status \in {"preparing", "submitting"}
             /\ sells' = [sells EXCEPT ![i].status = "submission_uncertain", ![i].code = closer[c].code]
      BY <1>15, <3>1 DEF MarkSellUncertain
    <3>3. CASE sells' # sells
      BY <1>a, <3>1, <3>2, <3>3, RowKept DEF SellRow, Observed
    <3> QED  BY <1>c, <3>3
  <2>2. closer'[c].step \notin BeforeCancel \cup AfterCancel
    <3>1. Goto(c, "freeze") \/ HandlerOver(c)
      BY <1>15 DEF MarkSellUncertain
    <3>2. Goto(c, "freeze") => closer'[c].step = "freeze"
      BY GotoIs
    <3> QED  BY <1>f, <3>1, <3>2 DEF BeforeCancel, AfterCancel
  <2> QED  BY <1>15, <1>b, <1>e, <2>1, <2>2 DEF MarkSellUncertain
<1>16. CASE QuarantineWallet(c)
  BY <1>16, <1>b, <1>c, <1>e, <1>f DEF QuarantineWallet
<1>17. CASE DropLane(c)
  <2>1. closer'[c].step \notin BeforeCancel \cup AfterCancel
    <3>1. Goto(c, "reject")
      BY <1>17 DEF DropLane
    <3>2. closer'[c].step = "reject"
      BY <3>1, GotoIs
    <3> QED  BY <3>2 DEF BeforeCancel, AfterCancel
  <2> QED  BY <1>17, <1>b, <1>c, <1>e, <2>1 DEF DropLane
<1>18. CASE RejectSellAttempt(c)
  <2>1. \A j \in SellIds : RowStep(j)
    <3>1. PICK i \in SellIds : i = MySell(c)
      BY <1>18, <1>a DEF RejectSellAttempt, At, WithoutSell
    <3>2. \/ sells' = sells
          \/ /\ sells[i].status \in {"reserved", "preparing", "submitting"}
             /\ sells' = [sells EXCEPT ![i].status = "rejected"]
      BY <1>18, <3>1 DEF RejectSellAttempt
    <3>3. CASE sells' # sells
      BY <1>a, <3>1, <3>2, <3>3, RowKept DEF SellRow, Observed
    <3> QED  BY <1>c, <3>3
  <2> QED  BY <1>18, <1>b, <1>e, <1>f, <2>1 DEF RejectSellAttempt
<1> QED  BY <1>1, <1>2, <1>3, <1>4, <1>5, <1>6, <1>7, <1>8, <1>9, <1>10, <1>11, <1>12, <1>13,
            <1>14, <1>15, <1>16, <1>17, <1>18 DEF CloserStep

LEMMA RetryCalm == ASSUME Rows, StrategyInv, RetryStep, setting' = setting PROVE Calm
<1>a. /\ Data /\ sells \in [SellIds -> SellRow] /\ closer \in [Closers -> CloserRow]
      /\ Worker \in Closers
  BY DEF Rows, Data, Closers
<1>b. ASSUME /\ \A i \in SellIds : RowStep(i)
             /\ group' = group /\ chain' = chain /\ strategy' = strategy /\ remaining' = remaining
             /\ rec' = rec /\ \A c \in Closers \ {Worker} : closer'[c] = closer[c]
             /\ (Quiet => Quiet') => closer'[Worker] = closer[Worker] \/ CloserQuiet(Worker)'
      PROVE  Calm
  BY <1>b, QuietStays DEF Calm, StrategyMoves
<1>c. ASSUME sells' = sells PROVE \A i \in SellIds : RowStep(i)
  BY <1>c DEF RowStep
<1>d. CloserQuiet(Worker)' <=>
        /\ closer'[Worker].step \in BeforeCancel /\ ~closer'[Worker].guarded => Quiet'
        /\ closer'[Worker].step \in AfterCancel => Quiet'
        /\ closer'[Worker].step \in AfterCancel /\ closer'[Worker].guarded => strategy' = "cancelled"
  BY DEF CloserQuiet
<1>e. ASSUME closer'[Worker].step \notin BeforeCancel \cup AfterCancel PROVE CloserQuiet(Worker)'
  BY <1>d, <1>e
<1> USE DEF world
<1>1. ASSUME NEW g \in Gens, ClaimRetry(g) PROVE Calm
  <2>1. closer' = [closer EXCEPT ![Worker].step = "prepared", ![Worker].gen = g]
    BY <1>1 DEF ClaimRetry
  <2>2. closer'[Worker].step = "prepared" /\ \A c \in Closers \ {Worker} : closer'[c] = closer[c]
    BY <1>a, <2>1 DEF CloserRow
  <2> QED  BY <1>1, <1>b, <1>c, <1>e, <2>2 DEF ClaimRetry, BeforeCancel, AfterCancel
<1>2. ASSUME NEW g \in Gens, RestoreAbandonedClaim(g) PROVE Calm
  BY <1>2, <1>b, <1>c DEF RestoreAbandonedClaim
<1>3. ASSUME NEW g \in Gens, ExpireScheduledRetry(g) PROVE Calm
  BY <1>3, <1>b, <1>c DEF ExpireScheduledRetry
<1>4. ASSUME BuildRetry PROVE Calm
  <2>1. UNCHANGED <<rows, rec, world>>
    BY <1>4 DEF BuildRetry
  <2>2. \A c \in Closers \ {Worker} : closer'[c] = closer[c]
    BY <1>4, <1>a DEF BuildRetry, Goto
  <2>3. CASE Goto(Worker, "failed")
    <3>1. closer'[Worker].step = "failed"
      BY <1>a, <2>3, GotoIs
    <3> QED  BY <1>b, <1>c, <1>e, <2>1, <2>2, <3>1 DEF rows, BeforeCancel, AfterCancel
  <2>4. CASE ~Goto(Worker, "failed")
    <3>1. /\ StrategySeen \notin UnsafeGroup
          /\ closer' = [closer EXCEPT ![Worker].step = "built", ![Worker].saw = Snapshot(100),
                                      ![Worker].guarded = StrategySeen \in ActiveGroup]
      BY <1>4, <2>4 DEF BuildRetry, Buildable
    <3>2. closer'[Worker].step = "built" /\ closer'[Worker].guarded = (StrategySeen \in ActiveGroup)
      BY <1>a, <3>1 DEF CloserRow
    <3>3. ~closer'[Worker].guarded => Quiet
      BY <3>1, <3>2, SeenOver
    <3>4. (Quiet => Quiet') => CloserQuiet(Worker)'
      BY <1>d, <3>2, <3>3 DEF AfterCancel
    <3> QED  BY <1>b, <1>c, <2>1, <2>2, <3>4 DEF rows
  <2> QED  BY <2>3, <2>4
<1>5. ASSUME CreateRetryAttempt PROVE Calm
  <2>1. UNCHANGED <<position, remaining, group, intents, lane, rec, world>> /\ closer[Worker].step = "built"
    BY <1>5 DEF CreateRetryAttempt, At
  <2>2. \A c \in Closers \ {Worker} : closer'[c] = closer[c]
    BY <1>5, <1>a DEF CreateRetryAttempt, Goto
  <2>3. CASE Goto(Worker, "failed") /\ sells' = sells
    <3>1. closer'[Worker].step = "failed"
      BY <1>a, <2>3, GotoIs
    <3> QED  BY <1>b, <1>c, <1>e, <2>1, <2>2, <2>3, <3>1 DEF BeforeCancel, AfterCancel
  <2>4. CASE ~(Goto(Worker, "failed") /\ sells' = sells)
    <3>1. PICK g, i : /\ i = Min(FreeSells)
                      /\ sells' = [sells EXCEPT ![i] = [NoSell EXCEPT !.status = "reserved", !.gen = g,
                                                        !.tx = i, !.amount = closer[Worker].saw.amount]]
                      /\ closer' = [closer EXCEPT ![Worker].step = "reserved", ![Worker].sell = i,
                                                  ![Worker].saw = NothingSeen]
      BY <1>5, <2>4 DEF CreateRetryAttempt
    <3>2. FreeSells # {}
      BY <1>5, <2>4 DEF CreateRetryAttempt
    <3>3. i \in SellIds /\ sells[i].status = "none"
      BY <3>1, <3>2, FreshOnes DEF FreeSells
    <3>4. \A j \in SellIds : RowStep(j)
      BY <1>a, <3>1, <3>3 DEF RowStep, NoSell, Observed
    <3>5. closer'[Worker].step = "reserved" /\ closer'[Worker].guarded = closer[Worker].guarded
      BY <1>a, <3>1 DEF CloserRow
    <3>6. (Quiet => Quiet') => CloserQuiet(Worker)'
      BY <1>a, <1>d, <2>1, <3>5 DEF StrategyInv, CloserQuiet, BeforeCancel, AfterCancel
    <3> QED  BY <1>b, <2>1, <2>2, <3>4, <3>6
  <2> QED  BY <2>3, <2>4
<1>6. ASSUME ResolveHandlerFailure PROVE Calm
  <2>1. closer' = [closer EXCEPT ![Worker] = IdleCloser]
    BY <1>6 DEF ResolveHandlerFailure, Abandon
  <2>2. closer'[Worker].step = "idle" /\ \A c \in Closers \ {Worker} : closer'[c] = closer[c]
    BY <1>a, <2>1 DEF IdleCloser
  <2> QED  BY <1>6, <1>b, <1>c, <1>e, <2>2 DEF ResolveHandlerFailure, BeforeCancel, AfterCancel
<1>7. ASSUME RecoverStaleSubmission PROVE Calm
  <2>1. PICK i : i = lane.owner /\ i \in SellIds
    BY SMTT(30), <1>7, <1>a, LaneMoves, CloseBoundsAssumption DEF RecoverStaleSubmission, Data, SellIds
  <2>2. \/ sells' = sells
        \/ /\ sells[i].status \in {"reserved", "preparing", "submitting", "submission_uncertain"}
           /\ sells' = [sells EXCEPT ![i].status = "submission_uncertain", ![i].code = "stale"]
    BY <1>7, <2>1 DEF RecoverStaleSubmission
  <2>3. ASSUME sells' # sells PROVE \A j \in SellIds : RowStep(j)
    BY <1>a, <2>1, <2>2, <2>3, RowKept DEF SellRow, Observed
  <2>4. \A j \in SellIds : RowStep(j)
    BY <1>c, <2>3
  <2> QED  BY <1>7, <1>b, <2>4 DEF RecoverStaleSubmission
<1>8. ASSUME NEW i \in SellIds, RecoverStalePreSubmit(i) PROVE Calm
  <2>1. \A j \in SellIds : RowStep(j)
    BY <1>8, <1>a, RowKept DEF RecoverStalePreSubmit, SellRow, Observed
  <2> QED  BY <1>8, <1>b, <2>1 DEF RecoverStalePreSubmit
<1> QED  BY <1>1, <1>2, <1>3, <1>4, <1>5, <1>6, <1>7, <1>8 DEF RetryStep

LEMMA OrderCalm ==
    ASSUME Rows, StrategyInv, NEW i \in SellIds, OrderStep(i), setting' = setting
    PROVE  Calm
<1>a. /\ Data /\ sells \in [SellIds -> SellRow] /\ SalesInv /\ sells[i] \in SellRow
  BY DEF Rows, Data, StrategyInv
<1>b. Observed(i)
  <2>1. sells[i].order # "none" => Observed(i)
    BY <1>a DEF SalesInv
  <2> QED  BY <2>1 DEF OrderStep, ObserveConfirmed, ObservePending, ObserveFailure, VerdictFailed, VerdictUncertain,
              ReceiptContradicts, FinalizeConfirmedSell, EscalateUncertain, ReconcileCancelledClose, Due, Observed
<1>c. UNCHANGED <<closer, rec, chain, strategy>>
  BY DEF OrderStep, ObserveConfirmed, ObservePending, ObserveFailure, VerdictFailed, VerdictUncertain,
         ReceiptContradicts, FinalizeConfirmedSell, EscalateUncertain, ReconcileCancelledClose, world
<1>d. ASSUME Observed(i)', sells'[i].origin = sells[i].origin, sells'[i].tx = sells[i].tx,
             \A j \in SellIds \ {i} : sells'[j] = sells[j],
             group' \in QuietGroup => group' = group \/ Quiet',
             remaining' = remaining \/ NoSaleToCome'
      PROVE  Calm
  BY <1>b, <1>c, <1>d, RowKept DEF Calm, StrategyMoves
<1>1. CASE ObserveConfirmed(i)
  BY <1>1, <1>a, <1>b, <1>d DEF ObserveConfirmed, SellRow, Observed
<1>2. CASE ObservePending(i)
  BY <1>2, <1>a, <1>b, <1>d DEF ObservePending, SellRow, Observed
<1>3. ASSUME NEW withHash \in BOOLEAN, ObserveFailure(i, withHash) PROVE Calm
  <2>1. PICK st : /\ sells' = [sells EXCEPT ![i].order = "failure_verifying", ![i].status = st]
                  /\ st = sells[i].status \/ st = "failure_verifying"
    BY <1>3, <1>a DEF ObserveFailure, SellRow
  <2> QED  BY <1>3, <1>a, <1>b, <1>d, <2>1 DEF ObserveFailure, SellRow, Observed
<1>4. CASE VerdictFailed(i)
  <2>1. /\ sells' = [sells EXCEPT ![i].order = "definitive_failed_no_fill",
                              ![i].status = "definitive_failed_no_fill", ![i].proven = TRUE]
        /\ remaining' = remaining /\ group' = group
    BY <1>4 DEF VerdictFailed, ProveFailed
  <2> QED  BY <1>a, <1>b, <1>d, <2>1 DEF SellRow, Observed
<1>5. CASE VerdictUncertain(i)
  <2>1. PICK st : /\ sells' = [sells EXCEPT ![i].status = st]
                  /\ st = sells[i].status \/ st = "reconciliation_required"
    BY <1>5, <1>a DEF VerdictUncertain, SellRow
  <2> QED  BY <1>5, <1>a, <1>b, <1>d, <2>1 DEF VerdictUncertain, SellRow, Observed
<1>6. CASE ReceiptContradicts(i)
  BY <1>6, <1>a, <1>b, <1>d DEF ReceiptContradicts, SellRow, Observed
<1>7. CASE FinalizeConfirmedSell(i)
  <2>1. /\ sells'[i].status = "confirmed" /\ sells'[i].origin = sells[i].origin /\ sells'[i].tx = sells[i].tx
        /\ \A j \in SellIds \ {i} : sells'[j] = sells[j]
    <3>1. \/ sells' = [sells EXCEPT ![i].order = "confirmed", ![i].status = "confirmed"]
          \/ sells' = [sells EXCEPT ![i].order = "confirmed", ![i].status = "confirmed",
                                    ![i].code = "multiple_fill"]
      BY <1>7 DEF FinalizeConfirmedSell, BookLots
    <3> QED  BY <1>a, <3>1 DEF SellRow
  <2>2. Observed(i)'
    BY <2>1 DEF Observed
  <2>3. (Quiet => Quiet') /\ (NoSaleToCome => NoSaleToCome')
    BY <1>b, <1>c, <2>1, <2>2, RowKept, QuietStays DEF StrategyMoves
  <2>4. StrategySale(i) => NoSaleToCome /\ (strategy = "sold" => Quiet)
    BY <1>a, <1>b DEF SalesInv, OneSale, StrategySale, NoSaleToCome, Quiet, Observed
  <2>5. sells[i].origin # "strategy" => Quiet
    <3>1. sells[i].origin \in {"close", "external", "strategy"}
      BY <1>a DEF SellRow, Origins
    <3>2. sells[i].origin = "close" => sells[i].tx = i
      BY <1>a, <1>b DEF SalesInv, Observed
    <3>3. chain[sells[i].tx] = "sold"
      BY <1>7 DEF FinalizeConfirmedSell, OutcomeOf
    <3> QED  BY <1>a, <1>b, <3>1, <3>2, <3>3 DEF SalesInv
  <2>6. group' \in QuietGroup => group' = group \/ Quiet'
    <3>1. group' = group \/ (StrategySale(i) /\ strategy = "sold") \/ group' = "partially_filled"
      BY <1>7 DEF FinalizeConfirmedSell, StrategySale
    <3> QED  BY <2>3, <2>4, <3>1 DEF QuietGroup
  <2>7. NoSaleToCome'
    BY <2>3, <2>4, <2>5 DEF StrategySale, Quiet
  <2> QED  BY <1>d, <2>1, <2>2, <2>6, <2>7
<1>8. CASE EscalateUncertain(i)
  BY <1>8, <1>a, <1>b, <1>d DEF EscalateUncertain, SellRow, Observed
<1>9. CASE ReconcileCancelledClose(i)
  <2>1. sells' = [sells EXCEPT ![i].status = "rejected"] /\ remaining' = remaining
    BY <1>9 DEF ReconcileCancelledClose
  <2>2. /\ sells'[i].status = "rejected" /\ sells'[i].origin = sells[i].origin /\ sells'[i].tx = sells[i].tx
        /\ \A j \in SellIds \ {i} : sells'[j] = sells[j]
    BY <1>a, <2>1 DEF SellRow
  <2>3. Observed(i)'
    BY <2>2 DEF Observed
  <2>4. Quiet => Quiet'
    BY <1>b, <1>c, <2>2, <2>3, RowKept, QuietStays DEF StrategyMoves
  <2>5. Quiet
    BY <1>9, SeenOver DEF ReconcileCancelledClose, CloseWasCancelled, QuietGroup
  <2> QED  BY <1>d, <2>1, <2>2, <2>3, <2>4, <2>5
<1> QED  BY <1>1, <1>2, <1>3, <1>4, <1>5, <1>6, <1>7, <1>8, <1>9 DEF OrderStep

LEMMA ReconcilerCalm == ASSUME Rows, StrategyInv, ReconcileStep, setting' = setting PROVE Calm
<1>a. /\ Data /\ RecTyped /\ sells \in [SellIds -> SellRow] /\ SalesInv /\ RecQuiet
      /\ group \in QuietGroup => Quiet
  BY DEF Rows, Data, StrategyInv
<1>b. ASSUME closer' = closer, chain' = chain, strategy' = strategy, remaining' = remaining,
             \A i \in SellIds : RowStep(i),
             (Quiet => Quiet') => (group' \in QuietGroup => group' = group \/ Quiet') /\ RecQuiet'
      PROVE  Calm
  BY <1>b, QuietStays DEF Calm, StrategyMoves
<1>c. ASSUME sells' = sells PROVE \A i \in SellIds : RowStep(i)
  BY <1>c DEF RowStep
<1>d. ASSUME rec' = IdleReconciler PROVE RecQuiet'
  BY <1>d DEF RecQuiet, IdleReconciler
<1>1. ASSUME NEW i \in SellIds, OrderStep(i) PROVE Calm
  BY <1>1, OrderCalm
<1>2. CASE FetchStrategy
  <2>1. PICK view \in {ProviderView, "unknown"} :
          rec' = [IdleReconciler EXCEPT !.step = "strategy", !.view = view]
    BY <1>2 DEF FetchStrategy
  <2>2. rec'.step = "strategy" /\ rec'.view = view
    BY <2>1 DEF IdleReconciler
  <2>3. view \in QuietGroup => Quiet
    BY SeenOver DEF QuietGroup
  <2>4. (Quiet => Quiet') => RecQuiet'
    BY <2>2, <2>3 DEF RecQuiet
  <2> QED  BY <1>2, <1>b, <1>c, <2>4 DEF FetchStrategy, rows, world
<1>3. CASE PersistStrategy
  <2>1. RecQuiet'
    <3>1. CASE rec' = [rec EXCEPT !.step = "claim"]
      BY <1>a, <3>1 DEF RecQuiet, RecTyped, RecRow
    <3> QED  BY <1>3, <1>d, <3>1 DEF PersistStrategy
  <2>2. group' \in QuietGroup => Quiet
    BY <1>3, <1>a DEF PersistStrategy, RecQuiet
  <2> QED  BY <1>3, <1>b, <1>c, <2>1, <2>2 DEF PersistStrategy, world
<1>4. CASE ClaimStrategyClose
  <2>1. PICK i \in SalesOf("strategy") :
             IF sells[i].status # "unseen" \/ (ActiveSells = {} /\ (ScopeTaken \/ FreeGens = {}))
             THEN UNCHANGED <<position, sells, intents, group>>
             ELSE IF ActiveSells = {}
             THEN Observe(i, sells[i]) /\ group' = "triggered"
             ELSE /\ position' = "close_uncertain"
                  /\ LET latest == Max(ActiveSells) IN
                     sells' = IF sells[latest].status \in {"reserved", "preparing"}
                              THEN [sells EXCEPT ![latest].status = "reconciliation_required",
                                                 ![latest].code = "triggered"]
                              ELSE sells
                  /\ UNCHANGED <<intents, group>>
    BY <1>4 DEF ClaimStrategyClose
  <2>2. i \in SellIds /\ StrategySale(i)
    BY DEF SalesOf, StrategySale
  <2>3. \A j \in SellIds : RowStep(j)
    <3>1. ASSUME sells' = sells PROVE \A j \in SellIds : RowStep(j)
      BY <1>c, <3>1
    <3>2. ASSUME Observe(i, sells[i]), sells[i].status = "unseen" PROVE \A j \in SellIds : RowStep(j)
      <4>1. PICK g : sells' = [sells EXCEPT ![i] = [sells[i] EXCEPT !.status = "confirming", !.gen = g,
                                                                    !.order = "chain_verifying"]]
        BY <3>2 DEF Observe
      <4>2. /\ sells'[i].status = "confirming" /\ sells'[i].origin = sells[i].origin /\ sells'[i].tx = sells[i].tx
            /\ \A j \in SellIds \ {i} : sells'[j] = sells[j]
        BY <1>a, <2>2, <4>1 DEF SellRow
      <4> QED  BY <2>2, <3>2, <4>2 DEF RowStep, Observed
    <3>3. ASSUME ActiveSells # {}, sells' # sells,
                 sells' = IF sells[Max(ActiveSells)].status \in {"reserved", "preparing"}
                          THEN [sells EXCEPT ![Max(ActiveSells)].status = "reconciliation_required",
                                             ![Max(ActiveSells)].code = "triggered"]
                          ELSE sells
          PROVE \A j \in SellIds : RowStep(j)
      <4>1. PICK k : k = Max(ActiveSells) /\ k \in ActiveSells
        <5>1. ActiveSells \in SUBSET SellIds
          BY DEF ActiveSells
        <5> QED  BY <3>3, <5>1, GreatestOf
      <4>2. k \in SellIds /\ Observed(k)
        BY <4>1 DEF ActiveSells, ActiveSell, Observed
      <4>3. sells' = [sells EXCEPT ![k].status = "reconciliation_required", ![k].code = "triggered"]
        BY <3>3, <4>1
      <4>4. /\ sells'[k].status = "reconciliation_required" /\ sells'[k].origin = sells[k].origin
            /\ sells'[k].tx = sells[k].tx /\ \A j \in SellIds \ {k} : sells'[j] = sells[j]
        BY <1>a, <4>2, <4>3 DEF SellRow
      <4>5. Observed(k)'
        BY <4>4 DEF Observed
      <4> QED  BY <4>2, <4>4, <4>5, RowKept
    <3> QED  BY <2>1, <3>1, <3>2, <3>3
  <2>4. group' = group \/ group' = "triggered"
    BY <2>1
  <2> QED  BY <1>4, <1>b, <1>d, <2>3, <2>4 DEF ClaimStrategyClose, QuietGroup, world
<1>5. CASE ReadBalance
  <2>1. /\ rec' = [IdleReconciler EXCEPT !.step = "balance", !.amount = wallet,
                                         !.guarded = group \in ActiveGroup \cup UnsafeGroup]
    BY <1>5 DEF ReadBalance
  <2>2. rec'.step = "balance" /\ rec'.guarded = (group \in ActiveGroup \cup UnsafeGroup)
    BY <2>1 DEF IdleReconciler
  <2>3. group \notin ActiveGroup \cup UnsafeGroup => Quiet
    BY <1>a DEF Data, GroupStatuses, QuietGroup
  <2>4. (Quiet => Quiet') => RecQuiet'
    BY <2>2, <2>3 DEF RecQuiet
  <2> QED  BY <1>5, <1>b, <1>c, <2>4 DEF ReadBalance, rows, world
<1>6. CASE JudgeBalance
  <2>1. CASE rec' = IdleReconciler
    BY <1>6, <1>b, <1>c, <1>d, <2>1 DEF JudgeBalance, world
  <2>2. CASE rec' # IdleReconciler
    <3>1. Quiet
      BY <1>6, <1>a, <2>2 DEF JudgeBalance, MarkPositionBalanceMismatch, RecQuiet
    <3>2. (Quiet => Quiet') => RecQuiet'
      BY <3>1 DEF RecQuiet
    <3> QED  BY <1>6, <1>b, <1>c, <3>2 DEF JudgeBalance, world
  <2> QED  BY <2>1, <2>2
<1>7. CASE ClaimExternalClose
  <2>1. Quiet
    BY <1>7, <1>a DEF ClaimExternalClose, RecQuiet
  <2>2. \A j \in SellIds : RowStep(j)
    <3>1. ASSUME sells' # sells PROVE \A j \in SellIds : RowStep(j)
      <4>1. PICK t, slots :
               /\ t = rec.sale /\ slots = (IF sells[t].status = "unseen" THEN {t} ELSE FreeSells)
               /\ slots # {}
               /\ Observe(Min(slots), [NoSell EXCEPT !.origin = "external", !.tx = t, !.amount = rec.amount])
        BY <1>7, <3>1 DEF ClaimExternalClose
      <4>2. t \in SellIds
        BY <1>7, <1>a, <4>1 DEF ClaimExternalClose, RecTyped
      <4>3. slots \in SUBSET SellIds
        BY <4>1, <4>2, FreshOnes
      <4>4. PICK i \in SellIds : i = Min(slots) /\ i \in slots
        BY <4>1, <4>3, LeastOf
      <4>5. ~Observed(i)
        BY <4>1, <4>4 DEF FreeSells, Observed
      <4>6. PICK row : /\ row = [NoSell EXCEPT !.origin = "external", !.tx = t, !.amount = rec.amount]
                       /\ Observe(i, row)
        BY <4>1, <4>4
      <4>7. PICK g : sells' = [sells EXCEPT ![i] = [row EXCEPT !.status = "confirming", !.gen = g,
                                                               !.order = "chain_verifying"]]
        BY <4>6 DEF Observe
      <4>8. /\ sells'[i].status = "confirming" /\ sells'[i].origin = "external"
            /\ \A j \in SellIds \ {i} : sells'[j] = sells[j]
        BY <1>a, <4>6, <4>7 DEF NoSell
      <4> QED  BY <2>1, <4>5, <4>8 DEF RowStep, Observed
    <3> QED  BY <1>c, <3>1
  <2> QED  BY <1>7, <1>b, <1>d, <2>2 DEF ClaimExternalClose, world
<1> QED  BY <1>1, <1>2, <1>3, <1>4, <1>5, <1>6, <1>7 DEF ReconcileStep

(* The step in which the strategy sells: nobody counted on it being over. *)
LEMMA StrategySells == ASSUME Rows, StrategyInv, StrategyTriggers, setting' = setting PROVE StrategyInv'
<1>a. /\ sells \in [SellIds -> SellRow] /\ chain \in [SellIds -> {"none", "sent", "sold", "reverted"}]
      /\ SalesInv /\ RecQuiet /\ strategy = "live" /\ ~Quiet /\ ~NoSaleToCome
      /\ remaining \in 0 .. Opened
  BY DEF Rows, Data, StrategyInv, StrategyTriggers, Quiet, NoSaleToCome
<1>1. PICK i, amount : /\ i = Max(FreeSells) /\ FreeSells # {}
                       /\ sells' = [sells EXCEPT ![i] = [NoSell EXCEPT !.origin = "strategy", !.status = "unseen",
                                                                      !.amount = amount, !.tx = i]]
                       /\ chain' = [chain EXCEPT ![i] = "sold"]
  BY DEF StrategyTriggers, SaleAppears
<1>2. i \in SellIds
  BY <1>1, FreshOnes
<1>3. /\ sells'[i].origin = "strategy" /\ sells'[i].status = "unseen" /\ sells'[i].order = "none"
      /\ \A j \in SellIds \ {i} : sells'[j] = sells[j] /\ chain'[j] = chain[j]
  BY <1>a, <1>1, <1>2 DEF NoSell
<1>4. /\ strategy' \in {"sold", "selling"} /\ UNCHANGED <<remaining, group, closer, rec>>
  BY DEF StrategyTriggers
<1>5. SalesInv'
  BY <1>a, <1>3, <1>4 DEF SalesInv, OneSale, StrategySale, Observed
<1>6. RecQuiet' /\ (group' \in QuietGroup => Quiet') /\ (remaining' < Opened => NoSaleToCome')
  BY <1>a, <1>4 DEF StrategyInv, RecQuiet
<1>7. ASSUME NEW c \in Closers PROVE CloserQuiet(c)'
  BY <1>a, <1>4 DEF StrategyInv, CloserQuiet
<1> QED  BY <1>5, <1>6, <1>7 DEF StrategyInv

LEMMA EnvironmentCalm ==
    ASSUME Rows, StrategyInv, EnvironmentStep, ~StrategyTriggers, setting' = setting
    PROVE  Calm
<1>a. /\ sells \in [SellIds -> SellRow] /\ chain \in [SellIds -> {"none", "sent", "sold", "reverted"}]
      /\ closer \in [Closers -> CloserRow]
  BY DEF Rows, Data
<1>c. ASSUME sells' = sells PROVE \A i \in SellIds : RowStep(i)
  BY <1>c DEF RowStep
<1> USE DEF rows
<1>1. ASSUME NEW i \in SellIds, SwapLands(i) PROVE Calm
  <2>1. \A j \in SellIds : chain[j] = "none" => chain'[j] = "none"
    BY <1>1, <1>a DEF SwapLands
  <2> QED  BY <1>1, <1>c, <2>1 DEF SwapLands, Calm, StrategyMoves
<1>2. CASE StrategyFails
  BY <1>2, <1>c DEF StrategyFails, Calm, StrategyMoves
<1>3. ASSUME NEW amount \in 1 .. Opened, OwnerSells(amount) PROVE Calm
  <2>1. PICK i : /\ i = Max(FreeSells) /\ FreeSells # {}
                 /\ sells' = [sells EXCEPT ![i] = [NoSell EXCEPT !.origin = "external", !.status = "unseen",
                                                                !.amount = amount, !.tx = i]]
                 /\ chain' = [chain EXCEPT ![i] = "sold"]
    BY <1>3 DEF OwnerSells, SaleAppears
  <2>2. i \in SellIds /\ sells[i].status = "none"
    BY <2>1, FreshOnes DEF FreeSells
  <2>3. /\ sells'[i].origin = "external" /\ sells'[i].status = "unseen" /\ sells'[i].order = "none"
        /\ \A j \in SellIds \ {i} : sells'[j] = sells[j] /\ chain'[j] = chain[j]
    BY <1>a, <2>1, <2>2 DEF NoSell
  <2>4. \A j \in SellIds : RowStep(j)
    BY <2>2, <2>3 DEF RowStep
  <2> QED  BY <1>3, <2>3, <2>4 DEF OwnerSells, Calm, StrategyMoves
<1>4. ASSUME NEW amount \in 1 .. Opened, OwnerTransfers(amount) PROVE Calm
  BY <1>4, <1>c DEF OwnerTransfers, Calm, StrategyMoves
<1>5. CASE Crash
  <2>1. RecQuiet'
    BY <1>5 DEF Crash, RecQuiet, IdleReconciler
  <2>2. ASSUME NEW c \in Closers PROVE CloserQuiet(c)'
    BY <1>5 DEF Crash, CloserQuiet, IdleCloser, BeforeCancel, AfterCancel
  <2> QED  BY <1>5, <1>c, <2>1, <2>2 DEF Crash, Calm, StrategyMoves
<1> QED  BY <1>1, <1>2, <1>3, <1>4, <1>5 DEF EnvironmentStep

LEMMA StrategyInit == ASSUME Init PROVE StrategyInv
<1>1. /\ sells = [i \in SellIds |-> NoSell] /\ chain = [i \in SellIds |-> "none"]
      /\ closer = [c \in Closers |-> IdleCloser] /\ rec = IdleReconciler
      /\ remaining = Opened /\ Opened \in Nat
  BY AmountsAssumption DEF Init
<1>2. /\ \A i \in SellIds : sells[i].origin = "close" /\ sells[i].status = "none" /\ sells[i].order = "none"
      /\ \A c \in Closers : closer[c].step = "idle"
      /\ rec.step = "idle"
  BY <1>1 DEF NoSell, IdleCloser, IdleReconciler
<1>3. group \in QuietGroup => Quiet
  BY <1>2 DEF Init, QuietGroup, Quiet, NoSaleToCome, StrategySale
<1>4. SalesInv
  BY <1>1, <1>2 DEF SalesInv, OneSale, StrategySale, Observed
<1> QED  BY <1>1, <1>2, <1>3, <1>4 DEF StrategyInv, RecQuiet, CloserQuiet, BeforeCancel, AfterCancel

LEMMA StrategyKept == ASSUME Rows, StrategyInv, [Next]_<<vars, setting>> PROVE StrategyInv'
<1>1. CASE UNCHANGED <<vars, setting>>
  BY <1>1 DEF vars, rows, world, StrategyInv, SalesInv, OneSale, RecQuiet, CloserQuiet, Quiet, NoSaleToCome,
     StrategySale, Observed
<1>2. CASE StrategyTriggers /\ setting' = setting
  BY <1>2, StrategySells
<1>3. CASE Next /\ ~StrategyTriggers
  <2>1. Calm
    BY <1>3, CloserCalm, RetryCalm, ReconcilerCalm, EnvironmentCalm DEF Next
  <2> QED  BY <2>1, CalmKeeps
<1> QED  BY <1>1, <1>2, <1>3 DEF Next

(* Only the answer to a swap sends a transaction of the program. *)
LEMMA SentByCloser ==
    ASSUME Rows, Next, NEW i \in SellIds, chain[i] = "none", chain'[i] = "sent"
    PROVE  \E c \in Closers : SwapAnswered(c) /\ At(c, "swap") /\ MySell(c) = i
<1>a. chain \in [SellIds -> {"none", "sent", "sold", "reverted"}] /\ chain' # chain
  BY DEF Rows, Data
<1>1. ASSUME NEW c \in Closers, CloserStep(c) PROVE SwapAnswered(c) /\ At(c, "swap") /\ MySell(c) = i
  <2>1. SwapAnswered(c)
    BY <1>1, <1>a DEF CloserStep, Prepare, Execute, CreateSellAttempt, BeginPreparing, AcquireForCancel,
       MarkCancelling, AskCancel, VerifyCancel, CaptureSnapshot, AcquireForSwap, BeginSwap,
       RecordSubmittedOrder, SettleSubmittedOrder, MarkSellUncertain, QuarantineWallet, DropLane,
       RejectSellAttempt, world
  <2>2. At(c, "swap") /\ chain' = [chain EXCEPT ![MySell(c)] = "sent"]
    BY <1>a, <2>1 DEF SwapAnswered, Sent
  <2>3. MySell(c) = i
    BY <1>a, <2>2
  <2> QED  BY <2>1, <2>2, <2>3
<1>2. ASSUME RetryStep PROVE FALSE
  BY <1>2, <1>a DEF RetryStep, ClaimRetry, RestoreAbandonedClaim, ExpireScheduledRetry, BuildRetry,
     CreateRetryAttempt, ResolveHandlerFailure, RecoverStaleSubmission, RecoverStalePreSubmit, world
<1>3. ASSUME ReconcileStep PROVE FALSE
  <2>1. ASSUME NEW j \in SellIds, OrderStep(j) PROVE FALSE
    BY <1>a, <2>1 DEF OrderStep, ObserveConfirmed, ObservePending, ObserveFailure, VerdictFailed,
       VerdictUncertain, ReceiptContradicts, FinalizeConfirmedSell, EscalateUncertain,
       ReconcileCancelledClose, world
  <2> QED  BY <1>3, <1>a, <2>1 DEF ReconcileStep, FetchStrategy, PersistStrategy, ClaimStrategyClose,
           ReadBalance, JudgeBalance, ClaimExternalClose, world
<1>4. ASSUME EnvironmentStep PROVE FALSE
  <2>1. \A j : chain' # [chain EXCEPT ![j] = "sold"] /\ chain' # [chain EXCEPT ![j] = "reverted"]
    BY <1>a
  <2> QED  BY <1>4, <1>a, <2>1 DEF EnvironmentStep, SwapLands, StrategyTriggers, StrategyFails, OwnerSells,
           OwnerTransfers, SaleAppears, Crash
<1> QED  BY <1>1, <1>2, <1>3, <1>4 DEF Next

(* A close swap is sent only when the protection strategy can no longer    *)
(* sell: it was never there, or the provider's history showed it over or   *)
(* cancelled (cancelStrategies, waitForStrategyCancellation), and none of  *)
(* that is undone by a crash, a late answer or a stale status.             *)
THEOREM SwapUnprotected == Spec => SwapOnlyUnprotected
<1>1. Init => Rows /\ StrategyInv
  BY RowsInit, StrategyInit
<1>2. Rows /\ StrategyInv /\ [Next]_<<vars, setting>> => (Rows /\ StrategyInv)'
  BY RowsKept, StrategyKept
<1>3. Rows /\ StrategyInv /\ [Next]_<<vars, setting>>
      => [\A i \in SellIds : chain[i] = "none" /\ chain'[i] = "sent"
            => strategy \notin {"live", "selling"}]_vars
  <2> SUFFICES ASSUME Rows, StrategyInv, [Next]_<<vars, setting>>, NEW i \in SellIds, vars' # vars,
                      chain[i] = "none", chain'[i] = "sent"
               PROVE  strategy \notin {"live", "selling"}
    OBVIOUS
  <2>1. Next
    BY DEF vars
  <2>2. PICK c \in Closers : At(c, "swap")
    BY <2>1, SentByCloser
  <2> QED  BY <2>2 DEF At, StrategyInv, CloserQuiet, AfterCancel, Quiet, NoSaleToCome
<1> QED  BY <1>1, <1>2, <1>3, PTL DEF Spec, SwapOnlyUnprotected

-----------------------------------------------------------------------------
(* Attempts: a step that changes the rows of S and the closers of D. *)

LEMMA SoundStays ==
    ASSUME Rows, NEW j \in SellIds, SellSound(j), sells'[j] = sells[j], chain'[j] = chain[j],
           \A t \in SellIds : chain[t] = "sold" => chain'[t] = "sold",
           \A g \in Gens : intents[g] # "none" => intents'[g] # "none"
    PROVE  SellSound(j)'
<1>1. sells[j].tx \in SellIds /\ sells[j].gen \in Gens
  BY DEF Rows, Data, SellRow
<1> QED  BY <1>1 DEF SellSound, Observed

Undisturbed(S, D) ==
    /\ \A j \in SellIds \ S : sells'[j] = sells[j] /\ chain'[j] = chain[j]
    /\ \A d \in Closers \ D : closer'[d] = closer[d]
    /\ \A t \in SellIds : chain[t] \in {"sold", "reverted"} => chain'[t] = chain[t]
    /\ \A g \in Gens : intents[g] # "none" => intents'[g] # "none"

Keeps(i) ==
    /\ Observed(i) => /\ Observed(i)' /\ sells'[i].origin = sells[i].origin
                      /\ sells'[i].tx = sells[i].tx /\ sells'[i].gen = sells[i].gen
                      /\ sells'[i].amount = sells[i].amount
                      /\ sells[i].proven => sells'[i].proven
                      /\ sells[i].status = "confirmed" => sells'[i].status = "confirmed"
                      /\ chain'[i] = "sold" => chain[i] \in {"sent", "sold"}
    /\ ~Observed(i) => \/ /\ sells'[i].origin = sells[i].origin /\ sells'[i].amount = sells[i].amount
                          /\ chain'[i] = chain[i]
                       \/ sells'[i].origin = "external" \/ chain'[i] = "none"
                       \/ strategy = "live" /\ chain[i] = "none" /\ chain'[i] = "sold"

(* what was recorded of an attempt or of a transaction is not taken back *)
Recorded == \A i \in SellIds : Keeps(i) /\ (chain[i] \in {"sold", "reverted"} => chain'[i] = chain[i])
AttemptsGoOn == AttemptInv' /\ Recorded

(* what a closer that was not moved needs of a row that was                *)
KeepsFor(i, c) ==
    /\ closer[c].step = "swap" => sells'[i].status = "submitting"
    /\ chain[i] = "none" => chain'[i] = "none"

LEMMA AttemptFrame ==
    ASSUME Rows, AttemptInv, NEW S \in SUBSET SellIds, NEW D \in SUBSET Closers, Undisturbed(S, D),
           \A i \in S : SellSound(i)' /\ Keeps(i),
           \A i \in S : \A c \in Closers \ D : closer[c].sell = i => KeepsFor(i, c),
           \A c \in D : WriterSound(c)',
           \A c \in D : closer'[c].sell \in {0, closer[c].sell} \/ ~Observed(closer'[c].sell),
           OneActive'
    PROVE  AttemptsGoOn
<1>1. ASSUME NEW i \in SellIds PROVE SellSound(i)'
  <2>1. CASE i \in S
    BY <2>1
  <2>2. CASE i \notin S
    BY <2>2, SoundStays DEF Undisturbed, AttemptInv
  <2> QED  BY <2>1, <2>2
<1>2. ASSUME NEW c \in Closers PROVE WriterSound(c)'
  <2>1. CASE c \in D
    BY <2>1
  <2>2. CASE c \notin D
    <3>1. closer'[c] = closer[c] /\ WriterSound(c) /\ CloserSound(c) /\ closer[c] \in CloserRow
      BY <2>2 DEF Undisturbed, AttemptInv, Rows
    <3>2. CASE closer[c].sell = 0
      <4>1. closer[c].step \in WithoutSell \cup {"failed"}
        BY <3>1, <3>2, CloseBoundsAssumption DEF CloserSound, SellIds
      <4> QED  BY <3>1, <3>2, <4>1 DEF WriterSound, WithoutSell, BeforeSwap
    <3>3. CASE closer[c].sell # 0
      <4>1. PICK i \in SellIds : i = closer[c].sell
        BY <3>1, <3>3, CloseBoundsAssumption DEF CloserRow, SellIds
      <4>2. /\ Observed(i)' /\ sells'[i].origin = sells[i].origin
            /\ sells'[i].tx = sells[i].tx /\ sells'[i].gen = sells[i].gen
            /\ KeepsFor(i, c)
        <5>1. CASE i \in S
          BY <2>2, <3>1, <3>3, <4>1, <5>1 DEF Keeps, WriterSound
        <5>2. CASE i \notin S
          BY <3>1, <3>3, <4>1, <5>2 DEF Undisturbed, Observed, KeepsFor, WriterSound
        <5> QED  BY <5>1, <5>2
      <4>3. ASSUME NEW d \in Closers \ {c} PROVE closer'[d].sell # i
        <5>1. closer[d].sell # i /\ Observed(i)
          BY <3>1, <3>3, <4>1 DEF WriterSound
        <5>2. i # 0
          BY <3>3, <4>1
        <5> QED  BY <5>1, <5>2 DEF Undisturbed
      <4> QED  BY <3>1, <3>3, <4>1, <4>2, <4>3 DEF WriterSound, KeepsFor
    <3> QED  BY <3>2, <3>3
  <2> QED  BY <2>1, <2>2
<1>3. Recorded
  BY DEF Undisturbed, Recorded, Keeps, Observed
<1> QED  BY <1>1, <1>2, <1>3 DEF AttemptInv, AttemptsGoOn

(* An intent becomes active only where no other one is. *)
LEMMA ActiveStays ==
    ASSUME Rows, OneActive, NEW g \in Gens, NEW to, intents' = [intents EXCEPT ![g] = to],
           to \notin ActiveIntent \/ intents[g] \in ActiveIntent \/ MayActivate(g), to # "none"
    PROVE  OneActive' /\ \A h \in Gens : intents[h] # "none" => intents'[h] # "none"
<1>1. intents \in [Gens -> IntentStatuses]
  BY DEF Rows, Data
<1>2. \A h \in Gens : intents'[h] = IF h = g THEN to ELSE intents[h]
  BY <1>1
<1> QED  BY <1>2 DEF OneActive, MayActivate

(* A closer works on its own attempt only. *)
LEMMA WriterMoves ==
    ASSUME Rows, AttemptInv, NEW c \in Closers, NEW i \in SellIds, closer[c].sell = i,
           Undisturbed({i}, {c}), SellSound(i)', Keeps(i), OneActive',
           closer'[c].sell \in {0, i},
           closer'[c].sell = 0 => closer'[c].step = "idle",
           closer'[c].sell = i => closer'[c].gen = closer[c].gen,
           closer'[c].step = "swap" => sells'[i].status = "submitting" /\ chain'[i] = "none",
           closer'[c].step \in BeforeSwap => chain'[i] = "none",
           closer'[c].step = "doubt" /\ closer'[c].code = "cancel" => chain'[i] = "none"
    PROVE  AttemptsGoOn
<1>1. i # 0
  BY CloseBoundsAssumption DEF SellIds
<1>2. /\ sells[i].origin = "close" /\ sells[i].tx = i /\ Observed(i) /\ sells[i].gen = closer[c].gen
      /\ \A d \in Closers \ {c} : closer[d].sell # i
  BY <1>1 DEF AttemptInv, WriterSound
<1>3. /\ sells'[i].origin = "close" /\ sells'[i].tx = i /\ Observed(i)' /\ sells'[i].gen = closer[c].gen
      /\ \A d \in Closers \ {c} : closer'[d].sell # i
  BY <1>2 DEF Keeps, Undisturbed
<1>4. WriterSound(c)'
  <2>1. CASE closer'[c].sell = i
    BY <1>1, <1>3, <2>1 DEF WriterSound
  <2>2. CASE closer'[c].sell = 0
    BY <2>2 DEF WriterSound, BeforeSwap
  <2> QED  BY <2>1, <2>2
<1> QED  BY <1>2, <1>4, AttemptFrame

LEMMA CloserAttempts ==
    ASSUME Rows, AttemptInv, NEW c \in Closers, CloserStep(c), setting' = setting
    PROVE  AttemptsGoOn
<1>a. /\ OthersStay(c) /\ CloserSound(c) /\ sells \in [SellIds -> SellRow] /\ OneActive
      /\ chain \in [SellIds -> {"none", "sent", "sold", "reverted"}]
      /\ intents \in [Gens -> IntentStatuses] /\ closer \in [Closers -> CloserRow]
      /\ \A d \in Closers \ {c} : closer'[d] = closer[d]
  BY CloserMoves DEF Rows, Data, AttemptInv, OthersStay
(* before there is an attempt, and when there is none *)
<1>b. ASSUME UNCHANGED <<sells, chain, intents>>, closer'[c].sell = 0,
             closer'[c].step \in {"prepared", "built", "idle"}
      PROVE  AttemptsGoOn
  <2>1. Undisturbed({}, {c})
    BY <1>a, <1>b DEF Undisturbed
  <2>2. WriterSound(c)' /\ OneActive'
    BY <1>a, <1>b DEF WriterSound, BeforeSwap, OneActive
  <2> QED  BY <1>b, <2>1, <2>2, AttemptFrame
<1>1. CASE Prepare(c) \/ Execute(c)
  <2>1. UNCHANGED <<sells, chain, intents>> /\ closer[c].sell = 0
    BY <1>1, <1>a DEF Prepare, Execute, rows, world, At, CloserSound, WithoutSell
  <2>2. closer'[c].sell = 0 /\ closer'[c].step \in {"prepared", "built", "idle"}
    <3>1. CASE Abandon(c)
      BY <1>a, <3>1 DEF Abandon, IdleCloser
    <3>2. CASE ~Abandon(c)
      BY <1>1, <1>a, <2>1, <3>2 DEF Prepare, Execute, CloserRow
    <3> QED  BY <3>1, <3>2
  <2> QED  BY <1>b, <2>1, <2>2
<1>2. CASE CreateSellAttempt(c)
  <2>a. closer[c].sell = 0 /\ chain' = chain
    BY <1>2, <1>a DEF CreateSellAttempt, At, CloserSound, WithoutSell, world
  <2>1. CASE Abandon(c) /\ UNCHANGED <<sells, intents>>
    BY <1>a, <1>b, <2>a, <2>1 DEF Abandon, IdleCloser
  <2>2. CASE ~(Abandon(c) /\ UNCHANGED <<sells, intents>>)
    <3>1. PICK i, g : /\ i = Min(FreeSells) /\ g = Min(FreeGens)
                      /\ sells' = [sells EXCEPT ![i] = [NoSell EXCEPT !.status = "reserved", !.gen = g,
                                                        !.tx = i, !.amount = closer[c].saw.amount]]
                      /\ closer' = [closer EXCEPT ![c].step = "reserved", ![c].sell = i,
                                                  ![c].gen = g, ![c].saw = NothingSeen]
                      /\ intents' = [intents EXCEPT ![g] = "created"]
      BY <1>2, <2>2 DEF CreateSellAttempt
    <3>2. FreeSells # {} /\ FreeGens # {} /\ ~ScopeTaken
      BY <1>2, <2>2 DEF CreateSellAttempt
    <3>3. i \in SellIds /\ g \in Gens /\ sells[i].status = "none" /\ intents[g] = "none"
      BY <3>1, <3>2, FreshOnes DEF FreeSells, FreeGens, Gens
    <3>4. /\ closer'[c].step = "reserved" /\ closer'[c].sell = i /\ closer'[c].gen = g
          /\ closer'[c].code = closer[c].code
      BY <1>a, <3>1 DEF CloserRow
    <3>5. /\ sells'[i].status = "reserved" /\ sells'[i].origin = "close" /\ sells'[i].tx = i
          /\ sells'[i].gen = g /\ sells'[i].order = "none" /\ sells'[i].code = "none"
          /\ sells'[i].proven = FALSE /\ \A j \in SellIds \ {i} : sells'[j] = sells[j]
      BY <1>a, <3>1, <3>3 DEF NoSell
    <3>6. MayActivate(g)
      BY <3>2 DEF ScopeTaken, MayActivate
    <3>7. OneActive' /\ \A h \in Gens : intents[h] # "none" => intents'[h] # "none"
      BY <1>a, <3>1, <3>3, <3>6, ActiveStays
    <3>8. Undisturbed({i}, {c})
      BY <1>a, <2>a, <3>5, <3>7 DEF Undisturbed
    <3>9. intents'[g] = "created" /\ chain[i] = "none"
      BY <1>a, <3>1, <3>3 DEF AttemptInv, SellSound, Unsent
    <3>10. SellSound(i)'
      BY <2>a, <3>5, <3>9 DEF SellSound, Observed
    <3>11. Keeps(i) /\ \A d \in Closers \ {c} : closer[d].sell # i
      BY <1>a, <2>a, <3>3, <3>9, CloseBoundsAssumption DEF Keeps, AttemptInv, WriterSound, Observed, SellIds
    <3>12. WriterSound(c)'
      BY <1>a, <2>a, <3>4, <3>5, <3>9, <3>11 DEF WriterSound, Observed
    <3> QED  BY <3>3, <3>4, <3>7, <3>8, <3>10, <3>11, <3>12, AttemptFrame DEF Observed
  <2> QED  BY <2>1, <2>2
<1>3. ASSUME ~(Prepare(c) \/ Execute(c) \/ CreateSellAttempt(c)) PROVE AttemptsGoOn
  <2>a. PICK i \in SellIds : i = closer[c].sell
    BY <1>3, <1>a DEF CloserStep, BeginPreparing, AcquireForCancel, MarkCancelling, AskCancel, VerifyCancel,
       CaptureSnapshot, AcquireForSwap, BeginSwap, SwapAnswered, RecordSubmittedOrder,
       SettleSubmittedOrder, MarkSellUncertain, QuarantineWallet, DropLane, RejectSellAttempt,
       At, CloserSound, WithoutSell
  <2>b. /\ MySell(c) = i /\ i # 0 /\ SellSound(i)
        /\ sells[i].origin = "close" /\ sells[i].tx = i /\ Observed(i) /\ sells[i].gen = closer[c].gen
        /\ \A d \in Closers \ {c} : closer[d].sell # i
        /\ closer[c].step = "swap" => sells[i].status = "submitting" /\ chain[i] = "none"
        /\ closer[c].step \in BeforeSwap => chain[i] = "none"
        /\ closer[c].step = "doubt" /\ closer[c].code = "cancel" => chain[i] = "none"
    <3>1. i # 0 /\ WriterSound(c) /\ SellSound(i)
      BY <2>a, CloseBoundsAssumption DEF AttemptInv, SellIds
    <3> QED  BY <2>a, <3>1 DEF WriterSound, MySell
  <2>h. sells[i] \in SellRow /\ closer[c].gen \in Gens
    <3>1. sells[i] \in SellRow
      BY <1>a
    <3> QED  BY <2>b, <3>1 DEF SellRow
  (* the closer goes on *)
  <2>c. ASSUME NEW step,
               \/ Goto(c, step)
               \/ step = "doubt" /\ \E why : Doubt(c, why)
               \/ /\ step = "capture"
                  /\ closer' = [closer EXCEPT ![c].step = "capture", ![c].cancelled = TRUE]
        PROVE  closer'[c].step = step /\ closer'[c].sell = i /\ closer'[c].gen = closer[c].gen
    <3>1. CASE Goto(c, step)
      BY <2>a, <3>1, GotoIs
    <3>2. CASE step = "doubt" /\ \E why : Doubt(c, why)
      BY <2>a, <3>2, DoubtIs
    <3>3. CASE /\ step = "capture"
               /\ closer' = [closer EXCEPT ![c].step = "capture", ![c].cancelled = TRUE]
      BY <2>a, <3>3, CaptureIs
    <3> QED  BY <2>c, <3>1, <3>2, <3>3
  <2>d. ASSUME HandlerOver(c)
        PROVE  /\ closer'[c].step \in {"idle", "failed"} /\ closer'[c].sell \in {0, i}
               /\ closer'[c].sell = 0 => closer'[c].step = "idle"
               /\ closer'[c].sell = i => closer'[c].gen = closer[c].gen
    BY <2>a, <2>b, <2>d, HandlerOverIs
  (* the row stays *)
  <2>e. ASSUME UNCHANGED <<sells, chain, intents>>
        PROVE  Undisturbed({i}, {c}) /\ SellSound(i)' /\ Keeps(i) /\ OneActive'
    <3>1. Undisturbed({i}, {c})
      BY <1>a, <2>e DEF Undisturbed
    <3>2. SellSound(i)'
      BY <2>b, <2>e, SoundStays
    <3> QED  BY <1>a, <2>e, <3>1, <3>2 DEF Keeps, Observed, OneActive
  <2>f. ASSUME UNCHANGED <<sells, chain, intents>>, closer[c].step \in BeforeSwap,
               closer'[c].sell \in {0, i}, closer'[c].sell = 0 => closer'[c].step = "idle",
               closer'[c].sell = i => closer'[c].gen = closer[c].gen, closer'[c].step # "swap"
        PROVE  AttemptsGoOn
    BY <2>a, <2>b, <2>e, <2>f, WriterMoves
  <2>g. ASSUME UNCHANGED <<sells, chain, intents>>, closer'[c].step \notin BeforeSwap \cup {"swap", "doubt"},
               closer'[c].sell \in {0, i}, closer'[c].sell = 0 => closer'[c].step = "idle",
               closer'[c].sell = i => closer'[c].gen = closer[c].gen
        PROVE  AttemptsGoOn
    BY <2>a, <2>b, <2>e, <2>g, WriterMoves
  <2>i. \A g \in Gens : intents[g] \in ActiveIntent => intents[g] # "none"
    BY DEF ActiveIntent
  (* the row changes, its transaction does not *)
  <2>j. ASSUME chain' = chain, SellSound(i)', Keeps(i), \A j \in SellIds \ {i} : sells'[j] = sells[j], OneActive',
               \A g \in Gens : intents[g] # "none" => intents'[g] # "none",
               closer'[c].sell \in {0, i}, closer'[c].sell = 0 => closer'[c].step = "idle",
               closer'[c].sell = i => closer'[c].gen = closer[c].gen,
               closer'[c].step = "swap" => sells'[i].status = "submitting" /\ chain[i] = "none",
               closer'[c].step \in BeforeSwap => chain[i] = "none",
               closer'[c].step = "doubt" /\ closer'[c].code = "cancel" => chain[i] = "none"
        PROVE  AttemptsGoOn
    <3>1. Undisturbed({i}, {c})
      BY <1>a, <2>j DEF Undisturbed
    <3> QED  BY <2>a, <2>j, <3>1, WriterMoves
  <2> USE DEF world
  <2>1. CASE BeginPreparing(c)
    <3>1. Goto(c, "cancel") \/ Goto(c, "drop")
      BY <2>1 DEF BeginPreparing
    <3>2. closer'[c].step \in {"cancel", "drop"} /\ closer'[c].sell = i /\ closer'[c].gen = closer[c].gen
      BY <2>c, <3>1
    <3>3. UNCHANGED <<chain, intents>> /\ closer[c].step \in BeforeSwap
      BY <2>1 DEF BeginPreparing, At, BeforeSwap
    <3>4. CASE sells' = sells
      BY <2>b, <2>f, <3>2, <3>3, <3>4
    <3>5. CASE sells[i].status = "reserved" /\ sells' = [sells EXCEPT ![i].status = "preparing"]
      <4>1. /\ sells'[i] = [sells[i] EXCEPT !.status = "preparing"]
            /\ \A j \in SellIds \ {i} : sells'[j] = sells[j]
        BY <1>a, <3>5
      <4>2. SellSound(i)' /\ Keeps(i)
        BY <2>b, <2>h, <3>3, <3>5, <4>1 DEF SellSound, Keeps, Observed, SellRow, Unsent, Ordered
      <4> QED  BY <1>a, <2>b, <2>j, <3>2, <3>3, <4>1, <4>2 DEF OneActive
    <3> QED  BY <2>1, <2>b, <3>4, <3>5 DEF BeginPreparing
  <2>2. CASE AcquireForCancel(c)
    <3>1. UNCHANGED <<sells, chain, intents>> /\ closer[c].step \in BeforeSwap
      BY <2>2 DEF AcquireForCancel, At, BeforeSwap
    <3>2. \/ Goto(c, "mark") \/ Goto(c, "drop")
          \/ closer' = [closer EXCEPT ![c].step = "capture", ![c].cancelled = TRUE]
      BY <2>2 DEF AcquireForCancel
    <3>3. closer'[c].step # "swap" /\ closer'[c].sell = i /\ closer'[c].gen = closer[c].gen
      BY <2>c, <3>2
    <3> QED  BY <2>b, <2>f, <3>1, <3>3
  <2>3. CASE MarkCancelling(c)
    <3>1. UNCHANGED <<sells, chain, intents>> /\ closer[c].step \in BeforeSwap
      BY <2>3 DEF MarkCancelling, At, BeforeSwap
    <3>2. Goto(c, "ask") \/ Goto(c, "drop")
      BY <2>3 DEF MarkCancelling
    <3>3. closer'[c].step # "swap" /\ closer'[c].sell = i /\ closer'[c].gen = closer[c].gen
      BY <2>c, <3>2
    <3> QED  BY <2>b, <2>f, <3>1, <3>3
  <2>4. CASE AskCancel(c)
    <3>1. UNCHANGED <<sells, chain, intents>> /\ closer[c].step \in BeforeSwap
      BY <2>4 DEF AskCancel, At, BeforeSwap
    <3>2. Goto(c, "verify") \/ Goto(c, "drop") \/ Doubt(c, "cancel")
      BY <2>4 DEF AskCancel
    <3>3. closer'[c].step # "swap" /\ closer'[c].sell = i /\ closer'[c].gen = closer[c].gen
      BY <2>c, <3>2
    <3> QED  BY <2>b, <2>f, <3>1, <3>3
  <2>5. CASE VerifyCancel(c)
    <3>1. UNCHANGED <<sells, chain, intents>> /\ closer[c].step \in BeforeSwap
      BY <2>5 DEF VerifyCancel, At, BeforeSwap
    <3>2. \/ Goto(c, "drop") \/ Doubt(c, "cancel") \/ Doubt(c, "triggered")
          \/ closer' = [closer EXCEPT ![c].step = "capture", ![c].cancelled = TRUE]
      BY <2>5 DEF VerifyCancel
    <3>3. closer'[c].step # "swap" /\ closer'[c].sell = i /\ closer'[c].gen = closer[c].gen
      BY <2>c, <3>2
    <3> QED  BY <2>b, <2>f, <3>1, <3>3
  <2>6. CASE CaptureSnapshot(c)
    <3>1. UNCHANGED <<chain, intents>> /\ closer[c].step \in BeforeSwap
      BY <2>6 DEF CaptureSnapshot, At, BeforeSwap
    <3>2. Goto(c, "acquire") \/ Goto(c, "drop")
      BY <2>6 DEF CaptureSnapshot
    <3>3. closer'[c].step \in {"acquire", "drop"} /\ closer'[c].sell = i /\ closer'[c].gen = closer[c].gen
      BY <2>c, <3>2
    <3>4. CASE sells' = sells
      BY <2>b, <2>f, <3>1, <3>3, <3>4
    <3>5. CASE sells' # sells
      <4>1. PICK n : sells' = [sells EXCEPT ![i].sealed = n]
        BY <2>6, <2>b, <3>5 DEF CaptureSnapshot
      <4>2. /\ sells'[i] = [sells[i] EXCEPT !.sealed = n]
            /\ \A j \in SellIds \ {i} : sells'[j] = sells[j]
        BY <1>a, <4>1
      <4>3. SellSound(i)' /\ Keeps(i)
        BY <2>b, <2>h, <3>1, <4>2 DEF SellSound, Keeps, Observed, SellRow
      <4> QED  BY <1>a, <2>b, <2>j, <3>1, <3>3, <4>2, <4>3 DEF OneActive
    <3> QED  BY <3>4, <3>5
  <2>7. CASE AcquireForSwap(c)
    <3>1. UNCHANGED <<sells, chain, intents>> /\ closer[c].step \in BeforeSwap
      BY <2>7 DEF AcquireForSwap, At, BeforeSwap
    <3>2. Goto(c, "begin") \/ Goto(c, "drop")
      BY <2>7 DEF AcquireForSwap
    <3>3. closer'[c].step # "swap" /\ closer'[c].sell = i /\ closer'[c].gen = closer[c].gen
      BY <2>c, <3>2
    <3> QED  BY <2>b, <2>f, <3>1, <3>3
  <2>8. CASE BeginSwap(c)
    <3>1. chain' = chain /\ closer[c].step \in BeforeSwap
      BY <2>8 DEF BeginSwap, At, BeforeSwap
    <3>2. CASE Goto(c, "drop") /\ UNCHANGED <<sells, intents>>
      <4>1. closer'[c].step # "swap" /\ closer'[c].sell = i /\ closer'[c].gen = closer[c].gen
        BY <2>c, <3>2
      <4> QED  BY <2>b, <2>f, <3>1, <3>2, <4>1
    <3>3. CASE ~(Goto(c, "drop") /\ UNCHANGED <<sells, intents>>)
      <4>1. /\ sells[i].status = "preparing" /\ sells' = [sells EXCEPT ![i].status = "submitting"]
            /\ intents' = IntentMoved(closer[c].gen, ActiveIntent \ {"retry_scheduled"}, "submitting")
            /\ Goto(c, "swap")
        BY <2>8, <2>b, <3>3 DEF BeginSwap
      <4>2. closer'[c].step = "swap" /\ closer'[c].sell = i /\ closer'[c].gen = closer[c].gen
        BY <2>c, <4>1
      <4>3. /\ sells'[i] = [sells[i] EXCEPT !.status = "submitting"]
            /\ \A j \in SellIds \ {i} : sells'[j] = sells[j]
        BY <1>a, <4>1
      <4>4. OneActive' /\ \A g \in Gens : intents[g] # "none" => intents'[g] # "none"
        BY <1>a, <2>h, <4>1, ActiveStays DEF IntentMoved, OneActive
      <4>5. SellSound(i)' /\ Keeps(i) /\ sells'[i].status = "submitting"
        <5>1. sells[i].order = "none" /\ sells[i].proven = FALSE
          BY <2>b, <2>h, <4>1 DEF SellSound, SellRow, Ordered
        <5>2. /\ sells'[i].status = "submitting" /\ sells'[i].order = "none"
              /\ sells'[i].code = sells[i].code /\ sells'[i].proven = FALSE
              /\ sells'[i].origin = "close" /\ sells'[i].tx = i /\ sells'[i].gen = closer[c].gen
              /\ sells'[i].amount = sells[i].amount
          BY <2>b, <2>h, <4>3, <5>1 DEF SellRow
        <5>3. intents'[closer[c].gen] # "none"
          BY <2>b, <2>h, <4>4 DEF SellSound
        <5>4. sells[i].code # "cancel"
          BY <2>b, <4>1 DEF SellSound
        <5> QED  BY <2>b, <3>1, <5>1, <5>2, <5>3, <5>4 DEF SellSound, Keeps, Observed, Unsent, Ordered
      <4> QED  BY <2>b, <2>j, <3>1, <4>2, <4>3, <4>4, <4>5 DEF BeforeSwap
    <3> QED  BY <3>2, <3>3
  <2>9. CASE SwapAnswered(c)
    <3>1. UNCHANGED <<sells, intents>> /\ closer[c].step = "swap"
      BY <2>9 DEF SwapAnswered, At, rows
    <3>2. \/ Goto(c, "drop") /\ chain' = chain
          \/ /\ chain' = chain \/ chain' = [chain EXCEPT ![i] = "sent"]
             /\ Goto(c, "record") \/ Doubt(c, "swap")
      BY <2>9, <2>b DEF SwapAnswered, Sent
    <3>a. /\ Goto(c, "drop") => closer'[c].step = "drop" /\ closer'[c].sell = i /\ closer'[c].gen = closer[c].gen
          /\ Goto(c, "record") => closer'[c].step = "record" /\ closer'[c].sell = i /\ closer'[c].gen = closer[c].gen
          /\ Doubt(c, "swap") => /\ closer'[c].step = "doubt" /\ closer'[c].code = "swap"
                                 /\ closer'[c].sell = i /\ closer'[c].gen = closer[c].gen
      BY <2>a, GotoIs, DoubtIs
    <3>3. /\ closer'[c].sell = i /\ closer'[c].gen = closer[c].gen
          /\ closer'[c].step \in {"drop", "record", "doubt"}
          /\ closer'[c].step = "doubt" => closer'[c].code = "swap"
      BY <3>2, <3>a
    <3>4. closer'[c].step = "drop" => chain' = chain
      BY <3>2, <3>a
    <3>5. chain'[i] \in {"none", "sent"} /\ \A j \in SellIds \ {i} : chain'[j] = chain[j]
      BY <1>a, <2>b, <3>1, <3>2
    <3>6. Undisturbed({i}, {c})
      BY <1>a, <2>b, <3>1, <3>5 DEF Undisturbed
    <3>7. SellSound(i)' /\ Keeps(i) /\ OneActive'
      BY <1>a, <2>b, <2>h, <3>1, <3>5 DEF SellSound, Keeps, Observed, OneActive, SellRow, Unsent
    <3> QED  BY <2>a, <2>b, <3>1, <3>3, <3>4, <3>6, <3>7, WriterMoves DEF BeforeSwap
  <2>10. CASE RecordSubmittedOrder(c)
    <3>1. chain' = chain
      BY <2>10 DEF RecordSubmittedOrder
    <3>2. CASE Doubt(c, "swap") /\ UNCHANGED <<sells, intents>>
      <4>1. closer'[c].step = "doubt" /\ closer'[c].code = "swap" /\ closer'[c].sell = i /\ closer'[c].gen = closer[c].gen
        BY <2>a, <3>2, DoubtIs
      <4> QED  BY <2>a, <2>b, <2>e, <3>1, <3>2, <4>1, WriterMoves DEF BeforeSwap
    <3>3. CASE ~(Doubt(c, "swap") /\ UNCHANGED <<sells, intents>>)
      <4>1. /\ sells[i].status = "submitting"
            /\ sells' = [sells EXCEPT ![i].status = "submitted", ![i].order = "submitted"]
            /\ intents' = IntentMoved(closer[c].gen, {"submitting", "awaiting_result"}, "awaiting_result")
            /\ Goto(c, "settle")
        BY <2>10, <2>b, <3>3 DEF RecordSubmittedOrder
      <4>2. closer'[c].step = "settle" /\ closer'[c].sell = i /\ closer'[c].gen = closer[c].gen
        BY <2>c, <4>1
      <4>3. /\ sells'[i] = [sells[i] EXCEPT !.status = "submitted", !.order = "submitted"]
            /\ \A j \in SellIds \ {i} : sells'[j] = sells[j]
        BY <1>a, <2>h, <4>1
      <4>4. OneActive' /\ \A g \in Gens : intents[g] # "none" => intents'[g] # "none"
        <5>1. CASE intents' = intents
          BY <1>a, <5>1 DEF OneActive
        <5>2. CASE intents' # intents
          <6>1. /\ intents' = [intents EXCEPT ![closer[c].gen] = "awaiting_result"]
                /\ intents[closer[c].gen] \in ActiveIntent
            BY <4>1, <5>2 DEF IntentMoved, ActiveIntent
          <6> QED  BY <1>a, <2>h, <6>1, ActiveStays
        <5> QED  BY <5>1, <5>2
      <4>5. SellSound(i)' /\ Keeps(i)
        <5>1. sells[i].order = "none" /\ sells[i].proven = FALSE
          BY <2>b, <2>h, <4>1 DEF SellSound, SellRow, Ordered
        <5>2. /\ sells'[i].status = "submitted" /\ sells'[i].order = "submitted"
              /\ sells'[i].code = sells[i].code /\ sells'[i].proven = FALSE
              /\ sells'[i].origin = "close" /\ sells'[i].tx = i /\ sells'[i].gen = closer[c].gen
              /\ sells'[i].amount = sells[i].amount
          BY <2>b, <2>h, <4>3, <5>1 DEF SellRow
        <5>3. intents'[closer[c].gen] # "none"
          BY <2>b, <2>h, <4>4 DEF SellSound
        <5>4. sells[i].code # "cancel"
          BY <2>b, <4>1 DEF SellSound
        <5> QED  BY <2>b, <3>1, <5>1, <5>2, <5>3, <5>4 DEF SellSound, Keeps, Observed, Unsent, Ordered
      <4> QED  BY <2>b, <2>j, <3>1, <4>2, <4>3, <4>4, <4>5 DEF BeforeSwap
    <3> QED  BY <3>2, <3>3
  <2>11. CASE SettleSubmittedOrder(c)
    <3>1. UNCHANGED <<sells, chain, intents>> /\ closer'[c].sell = 0 /\ closer'[c].step = "idle"
      BY <1>a, <2>11 DEF SettleSubmittedOrder, Abandon, IdleCloser
    <3> QED  BY <2>b, <2>g, <3>1 DEF BeforeSwap
  <2>12. CASE MarkSellUncertain(c)
    <3>1. chain' = chain /\ closer[c].step = "doubt"
      BY <2>12 DEF MarkSellUncertain, At
    <3>2. CASE HandlerOver(c) /\ UNCHANGED <<sells, intents>>
      BY <2>d, <2>g, <3>1, <3>2 DEF BeforeSwap
    <3>3. CASE ~(HandlerOver(c) /\ UNCHANGED <<sells, intents>>)
      <4>1. PICK code : code = closer[c].code
        OBVIOUS
      <4>2. /\ sells[i].status \in {"preparing", "submitting"} /\ MayActivate(closer[c].gen)
            /\ sells' = [sells EXCEPT ![i].status = "submission_uncertain", ![i].code = code]
            /\ intents' = [intents EXCEPT ![closer[c].gen] = "uncertain"]
            /\ Goto(c, "freeze")
        BY <2>12, <2>b, <3>3, <4>1 DEF MarkSellUncertain
      <4>3. closer'[c].step = "freeze" /\ closer'[c].sell = i /\ closer'[c].gen = closer[c].gen
        BY <2>c, <4>2
      <4>4. /\ sells'[i] = [sells[i] EXCEPT !.status = "submission_uncertain", !.code = code]
            /\ \A j \in SellIds \ {i} : sells'[j] = sells[j]
        BY <1>a, <2>h, <4>2
      <4>5. OneActive' /\ \A g \in Gens : intents[g] # "none" => intents'[g] # "none"
        BY <1>a, <2>h, <4>2, ActiveStays
      <4>6. code = "cancel" => chain[i] = "none"
        BY <2>b, <3>1, <4>1
      <4>7. SellSound(i)' /\ Keeps(i)
        <5>1. sells[i].order = "none" /\ sells[i].proven = FALSE
          BY <2>b, <2>h, <4>2 DEF SellSound, SellRow, Ordered
        <5>2. /\ sells'[i].status = "submission_uncertain" /\ sells'[i].order = "none"
              /\ sells'[i].code = code /\ sells'[i].proven = FALSE
              /\ sells'[i].origin = "close" /\ sells'[i].tx = i /\ sells'[i].gen = closer[c].gen
              /\ sells'[i].amount = sells[i].amount
          BY <2>b, <2>h, <4>4, <5>1 DEF SellRow
        <5>3. intents'[closer[c].gen] # "none"
          BY <2>b, <2>h, <4>5 DEF SellSound
        <5>4. code = "cancel" => chain[i] = "none"
          BY <2>b, <4>6 DEF SellSound
        <5> QED  BY <2>b, <3>1, <5>1, <5>2, <5>3, <5>4 DEF SellSound, Keeps, Observed, Unsent, Ordered
      <4> QED  BY <2>b, <2>j, <3>1, <4>3, <4>4, <4>5, <4>7 DEF BeforeSwap
    <3> QED  BY <3>2, <3>3
  <2>13. CASE QuarantineWallet(c)
    <3>1. UNCHANGED <<sells, chain, intents>> /\ HandlerOver(c)
      BY <2>13 DEF QuarantineWallet
    <3> QED  BY <2>d, <2>g, <3>1 DEF BeforeSwap
  <2>14. CASE DropLane(c)
    <3>1. UNCHANGED <<sells, chain, intents>> /\ closer[c].step \in BeforeSwap /\ Goto(c, "reject")
      BY <2>14 DEF DropLane, At, BeforeSwap
    <3>2. closer'[c].step # "swap" /\ closer'[c].sell = i /\ closer'[c].gen = closer[c].gen
      BY <2>c, <3>1
    <3> QED  BY <2>b, <2>f, <3>1, <3>2
  <2>15. CASE RejectSellAttempt(c)
    <3>1. chain' = chain /\ closer[c].step \in BeforeSwap /\ HandlerOver(c)
      BY <2>15 DEF RejectSellAttempt, At, BeforeSwap
    <3>2. CASE UNCHANGED <<sells, intents>>
      BY <2>d, <2>g, <3>1, <3>2 DEF BeforeSwap
    <3>3. CASE ~UNCHANGED <<sells, intents>>
      <4>1. /\ sells[i].status \in {"reserved", "preparing", "submitting"}
            /\ sells' = [sells EXCEPT ![i].status = "rejected"]
            /\ intents' = [intents EXCEPT ![closer[c].gen] = "rejected"]
        BY <2>15, <2>b, <3>3 DEF RejectSellAttempt
      <4>2. /\ sells'[i] = [sells[i] EXCEPT !.status = "rejected"]
            /\ \A j \in SellIds \ {i} : sells'[j] = sells[j]
        BY <1>a, <4>1
      <4>3. OneActive' /\ \A g \in Gens : intents[g] # "none" => intents'[g] # "none"
        BY <1>a, <2>h, <4>1, ActiveStays DEF ActiveIntent
      <4>4. SellSound(i)' /\ Keeps(i)
        BY <2>b, <2>h, <3>1, <4>1, <4>2, <4>3 DEF SellSound, Keeps, Observed, SellRow, Unsent, Ordered
      <4> QED  BY <2>b, <2>d, <2>j, <3>1, <4>2, <4>3, <4>4 DEF BeforeSwap
    <3> QED  BY <3>2, <3>3
  <2> QED  BY <1>3, <2>1, <2>2, <2>3, <2>4, <2>5, <2>6, <2>7, <2>8, <2>9, <2>10, <2>11, <2>12,
              <2>13, <2>14, <2>15 DEF CloserStep
<1> QED  BY <1>1, <1>2, <1>3

LEMMA RetryAttempts == ASSUME Rows, AttemptInv, RetryStep, setting' = setting PROVE AttemptsGoOn
<1>a. /\ sells \in [SellIds -> SellRow] /\ closer \in [Closers -> CloserRow] /\ Worker \in Closers
      /\ chain \in [SellIds -> {"none", "sent", "sold", "reverted"}]
      /\ intents \in [Gens -> IntentStatuses] /\ OneActive /\ CloserSound(Worker) /\ WriterSound(Worker)
  BY DEF Rows, Data, Closers, AttemptInv
(* only the intents and a worker without an attempt move *)
<1>b. ASSUME UNCHANGED <<sells, chain>>, \A d \in Closers \ {Worker} : closer'[d] = closer[d],
             closer'[Worker].sell = 0, closer'[Worker].step \in WithoutSell \cup {"failed"},
             OneActive', \A h \in Gens : intents[h] # "none" => intents'[h] # "none"
      PROVE  AttemptsGoOn
  <2>1. Undisturbed({}, {Worker})
    BY <1>b DEF Undisturbed
  <2>2. WriterSound(Worker)'
    BY <1>b DEF WriterSound, BeforeSwap, WithoutSell
  <2> QED  BY <1>a, <1>b, <2>1, <2>2, AttemptFrame
<1>c. ASSUME UNCHANGED <<sells, chain, closer>>,
             OneActive', \A h \in Gens : intents[h] # "none" => intents'[h] # "none"
      PROVE  AttemptsGoOn
  <2>1. Undisturbed({}, {})
    BY <1>c DEF Undisturbed
  <2> QED  BY <1>c, <2>1, AttemptFrame
<1>d. ASSUME intents' = intents PROVE OneActive' /\ \A h \in Gens : intents[h] # "none" => intents'[h] # "none"
  BY <1>a, <1>d DEF OneActive
(* only row i moves, and no closer that sends a swap works on it *)
<1>e. ASSUME NEW i \in SellIds, closer' = closer, chain' = chain,
             \A j \in SellIds \ {i} : sells'[j] = sells[j], SellSound(i)', Keeps(i),
             \A c \in Closers : closer[c].sell = i => closer[c].step # "swap",
             OneActive', \A h \in Gens : intents[h] # "none" => intents'[h] # "none"
      PROVE  AttemptsGoOn
  <2>1. Undisturbed({i}, {})
    BY <1>e DEF Undisturbed
  <2>2. \A c \in Closers : closer[c].sell = i => KeepsFor(i, c)
    BY <1>e DEF KeepsFor
  <2> QED  BY <1>e, <2>1, <2>2, AttemptFrame
<1> USE DEF world
<1>1. ASSUME NEW g \in Gens, ClaimRetry(g) PROVE AttemptsGoOn
  <2>1. /\ closer' = [closer EXCEPT ![Worker].step = "prepared", ![Worker].gen = g]
        /\ intents' = [intents EXCEPT ![g] = "retry_verifying"] /\ intents[g] = "retry_scheduled"
        /\ closer[Worker].step = "idle" /\ UNCHANGED <<sells, chain>>
    BY <1>1 DEF ClaimRetry, At
  <2>2. /\ closer'[Worker].step = "prepared" /\ closer'[Worker].sell = 0
        /\ \A d \in Closers \ {Worker} : closer'[d] = closer[d]
    BY <1>a, <2>1 DEF CloserRow, CloserSound, WithoutSell
  <2>3. OneActive' /\ \A h \in Gens : intents[h] # "none" => intents'[h] # "none"
    BY <1>a, <2>1, ActiveStays DEF ActiveIntent
  <2> QED  BY <1>b, <2>1, <2>2, <2>3 DEF WithoutSell
<1>2. ASSUME NEW g \in Gens, RestoreAbandonedClaim(g) PROVE AttemptsGoOn
  <2>1. /\ intents' = [intents EXCEPT ![g] = "retry_scheduled"] /\ intents[g] = "retry_verifying"
        /\ UNCHANGED <<sells, chain, closer>>
    BY <1>2 DEF RestoreAbandonedClaim
  <2>2. OneActive' /\ \A h \in Gens : intents[h] # "none" => intents'[h] # "none"
    BY <1>a, <2>1, ActiveStays DEF ActiveIntent
  <2> QED  BY <1>c, <2>1, <2>2
<1>3. ASSUME NEW g \in Gens, ExpireScheduledRetry(g) PROVE AttemptsGoOn
  <2>1. intents' = [intents EXCEPT ![g] = "exhausted"] /\ UNCHANGED <<sells, chain, closer>>
    BY <1>3 DEF ExpireScheduledRetry
  <2>2. OneActive' /\ \A h \in Gens : intents[h] # "none" => intents'[h] # "none"
    BY <1>a, <2>1, ActiveStays DEF ActiveIntent
  <2> QED  BY <1>c, <2>1, <2>2
<1>4. ASSUME BuildRetry PROVE AttemptsGoOn
  <2>1. /\ UNCHANGED <<sells, chain, intents>> /\ closer[Worker].sell = 0
        /\ \/ Goto(Worker, "failed")
           \/ \E b : closer' = [closer EXCEPT ![Worker].step = "built", ![Worker].saw = Snapshot(100),
                                             ![Worker].guarded = b]
    BY <1>4, <1>a DEF BuildRetry, rows, At, CloserSound, WithoutSell
  <2>2. /\ closer'[Worker].step \in {"built", "failed"} /\ closer'[Worker].sell = 0
        /\ \A d \in Closers \ {Worker} : closer'[d] = closer[d]
    BY <1>a, <2>1 DEF CloserRow, Goto
  <2> QED  BY <1>b, <1>d, <2>1, <2>2 DEF WithoutSell
<1>5. ASSUME CreateRetryAttempt PROVE AttemptsGoOn
  <2>1. UNCHANGED <<chain, intents>> /\ closer[Worker].step = "built" /\ closer[Worker].sell = 0
    BY <1>5, <1>a DEF CreateRetryAttempt, At, CloserSound, WithoutSell
  <2>2. CASE Goto(Worker, "failed") /\ sells' = sells
    <3>1. /\ closer'[Worker].step = "failed" /\ closer'[Worker].sell = 0
          /\ \A d \in Closers \ {Worker} : closer'[d] = closer[d]
      BY <1>a, <2>1, <2>2 DEF CloserRow, Goto
    <3> QED  BY <1>b, <1>d, <2>1, <2>2, <3>1
  <2>3. CASE ~(Goto(Worker, "failed") /\ sells' = sells)
    <3>1. PICK g, i : /\ g = closer[Worker].gen /\ i = Min(FreeSells)
                      /\ sells' = [sells EXCEPT ![i] = [NoSell EXCEPT !.status = "reserved", !.gen = g,
                                                        !.tx = i, !.amount = closer[Worker].saw.amount]]
                      /\ closer' = [closer EXCEPT ![Worker].step = "reserved", ![Worker].sell = i,
                                                  ![Worker].saw = NothingSeen]
      BY <1>5, <2>3 DEF CreateRetryAttempt
    <3>2. FreeSells # {} /\ intents[g] = "retry_verifying"
      BY <1>5, <2>3, <3>1 DEF CreateRetryAttempt
    <3>3. i \in SellIds /\ sells[i].status = "none" /\ g \in Gens
      BY <1>a, <2>1, <3>1, <3>2, FreshOnes DEF FreeSells, CloserSound
    <3>4. /\ closer'[Worker].step = "reserved" /\ closer'[Worker].sell = i /\ closer'[Worker].gen = g
          /\ \A d \in Closers \ {Worker} : closer'[d] = closer[d]
      BY <1>a, <3>1 DEF CloserRow
    <3>5. /\ sells'[i].status = "reserved" /\ sells'[i].origin = "close" /\ sells'[i].tx = i
          /\ sells'[i].gen = g /\ sells'[i].order = "none" /\ sells'[i].code = "none"
          /\ sells'[i].proven = FALSE /\ \A j \in SellIds \ {i} : sells'[j] = sells[j]
      BY <1>a, <3>1, <3>3 DEF NoSell
    <3>6. OneActive' /\ \A h \in Gens : intents[h] # "none" => intents'[h] # "none"
      BY <1>d, <2>1
    <3>7. Undisturbed({i}, {Worker})
      BY <2>1, <3>4, <3>5, <3>6 DEF Undisturbed
    <3>8. chain[i] = "none"
      BY <3>3 DEF AttemptInv, SellSound, Unsent
    <3>9. SellSound(i)'
      BY <2>1, <3>2, <3>5, <3>8 DEF SellSound, Observed
    <3>10. i # 0 /\ ~Observed(i)
      BY <3>3, CloseBoundsAssumption DEF Observed, SellIds
    <3>11. Keeps(i) /\ \A d \in Closers \ {Worker} : closer[d].sell # i
      BY <2>1, <3>8, <3>10 DEF Keeps, AttemptInv, WriterSound
    <3>12. WriterSound(Worker)'
      BY <2>1, <3>4, <3>5, <3>8, <3>11 DEF WriterSound, Observed
    <3> QED  BY <1>a, <3>3, <3>4, <3>6, <3>7, <3>9, <3>10, <3>11, <3>12, AttemptFrame
  <2> QED  BY <2>2, <2>3
<1>6. ASSUME ResolveHandlerFailure PROVE AttemptsGoOn
  <2>1. /\ UNCHANGED <<sells, chain>> /\ closer' = [closer EXCEPT ![Worker] = IdleCloser]
        /\ intents' = IntentMoved(closer[Worker].gen, {"retry_verifying"}, "rejected")
        /\ closer[Worker].step = "failed"
    BY <1>6 DEF ResolveHandlerFailure, Abandon, At
  <2>2. /\ closer'[Worker].step = "idle" /\ closer'[Worker].sell = 0
        /\ \A d \in Closers \ {Worker} : closer'[d] = closer[d]
    BY <1>a, <2>1 DEF IdleCloser
  <2>3. OneActive' /\ \A h \in Gens : intents[h] # "none" => intents'[h] # "none"
    <3>1. closer[Worker].gen \in Gens
      BY <1>a, <2>1 DEF CloserSound
    <3> QED  BY <1>a, <1>d, <2>1, <3>1, ActiveStays DEF IntentMoved, ActiveIntent
  <2> QED  BY <1>b, <2>1, <2>2, <2>3 DEF WithoutSell
<1>7. ASSUME RecoverStaleSubmission PROVE AttemptsGoOn
  <2>1. PICK i \in SellIds : i = lane.owner
    BY <1>7, LaneMoves, CloseBoundsAssumption DEF RecoverStaleSubmission, Rows, Data, SellIds
  <2>2. UNCHANGED <<chain, closer>> /\ \A c \in Closers : closer[c].sell = i => closer[c].step = "verify"
    BY <1>7, <2>1 DEF RecoverStaleSubmission, LeaseOver, Writer, At
  <2>3. SellSound(i) /\ sells[i] \in SellRow
    BY <1>a DEF AttemptInv
  <2>4. OneActive' /\ \A h \in Gens : intents[h] # "none" => intents'[h] # "none"
    <3>1. sells[i].gen \in Gens
      BY <2>3 DEF SellRow
    <3> QED  BY <1>7, <1>a, <1>d, <2>1, <3>1, ActiveStays DEF RecoverStaleSubmission
  <2>5. CASE sells' = sells
    <3>1. Undisturbed({}, {})
      BY <2>2, <2>4, <2>5 DEF Undisturbed
    <3> QED  BY <1>c, <2>2, <2>4, <2>5
  <2>6. CASE sells' # sells
    <3>1. /\ sells[i].status \in {"reserved", "preparing", "submitting", "submission_uncertain"}
          /\ sells[i].order = "none"
          /\ sells' = [sells EXCEPT ![i].status = "submission_uncertain", ![i].code = "stale"]
      BY <1>7, <2>1, <2>6 DEF RecoverStaleSubmission
    <3>2. /\ sells'[i].status = "submission_uncertain" /\ sells'[i].code = "stale" /\ sells'[i].order = "none"
          /\ sells'[i].proven = sells[i].proven /\ sells'[i].origin = sells[i].origin
          /\ sells'[i].tx = sells[i].tx /\ sells'[i].gen = sells[i].gen
          /\ sells'[i].amount = sells[i].amount
          /\ \A j \in SellIds \ {i} : sells'[j] = sells[j]
      BY <1>a, <2>3, <3>1 DEF SellRow
    <3>3. /\ sells[i].proven = FALSE /\ intents[sells[i].gen] # "none" /\ sells[i].gen \in Gens
          /\ sells[i].tx # i => sells[i].origin = "external" /\ chain[i] = "none"
          /\ chain[i] = "sent" => sells[i].origin = "close"
      BY <2>3, <3>1 DEF SellSound, Observed, SellRow
    <3>4. SellSound(i)' /\ Keeps(i)
      BY <2>2, <2>4, <3>1, <3>2, <3>3 DEF SellSound, Keeps, Observed, Unsent
    <3> QED  BY <1>e, <2>2, <2>4, <3>2, <3>4
  <2> QED  BY <2>5, <2>6
<1>8. ASSUME NEW i \in SellIds, RecoverStalePreSubmit(i) PROVE AttemptsGoOn
  <2>1. /\ sells[i].status \in {"reserved", "preparing"}
        /\ sells' = [sells EXCEPT ![i].status = "superseded"]
        /\ intents' = [intents EXCEPT ![sells[i].gen] = "cancelled"]
        /\ UNCHANGED <<chain, closer>> /\ \A c \in Closers : closer[c].sell # i
    BY <1>8 DEF RecoverStalePreSubmit, Writer
  <2>2. SellSound(i) /\ sells[i] \in SellRow /\ sells[i].gen \in Gens
    BY <1>a DEF AttemptInv, SellRow
  <2>3. OneActive' /\ \A h \in Gens : intents[h] # "none" => intents'[h] # "none"
    BY <1>a, <2>1, <2>2, ActiveStays DEF ActiveIntent
  <2>4. /\ sells'[i].status = "superseded" /\ sells'[i].code = sells[i].code /\ sells'[i].order = sells[i].order
        /\ sells'[i].proven = sells[i].proven /\ sells'[i].origin = sells[i].origin
        /\ sells'[i].tx = sells[i].tx /\ sells'[i].gen = sells[i].gen
        /\ sells'[i].amount = sells[i].amount
        /\ \A j \in SellIds \ {i} : sells'[j] = sells[j]
    BY <1>a, <2>1, <2>2 DEF SellRow
  <2>5. SellSound(i)' /\ Keeps(i)
    BY <2>1, <2>2, <2>3, <2>4 DEF SellSound, Keeps, Observed, Unsent, Ordered
  <2> QED  BY <1>e, <2>1, <2>3, <2>4, <2>5
<1> QED  BY <1>1, <1>2, <1>3, <1>4, <1>5, <1>6, <1>7, <1>8 DEF RetryStep

LEMMA OrderAttempts ==
    ASSUME Rows, AttemptInv, NEW i \in SellIds, OrderStep(i), setting' = setting
    PROVE  AttemptsGoOn
<1>a. /\ sells \in [SellIds -> SellRow] /\ sells[i] \in SellRow /\ SellSound(i) /\ OneActive
      /\ intents \in [Gens -> IntentStatuses] /\ sells[i].gen \in Gens
  BY DEF Rows, Data, AttemptInv, SellRow
<1>b. UNCHANGED <<closer, rec, chain>>
  BY DEF OrderStep, ObserveConfirmed, ObservePending, ObserveFailure, VerdictFailed, VerdictUncertain,
         ReceiptContradicts, FinalizeConfirmedSell, EscalateUncertain, ReconcileCancelledClose, world
<1>c. sells[i].status # "submitting" /\ Observed(i)
  <2>1. sells[i].order # "none" => sells[i].status \in Ordered
    BY <1>a DEF SellSound
  <2> QED  BY <2>1 DEF OrderStep, ObserveConfirmed, ObservePending, ObserveFailure, VerdictFailed,
              VerdictUncertain, ReceiptContradicts, FinalizeConfirmedSell, EscalateUncertain,
              ReconcileCancelledClose, Due, Observed, Ordered
<1>d. ASSUME \A j \in SellIds \ {i} : sells'[j] = sells[j], SellSound(i)', Keeps(i),
             OneActive', \A h \in Gens : intents[h] # "none" => intents'[h] # "none"
      PROVE  AttemptsGoOn
  <2>1. Undisturbed({i}, {})
    BY <1>b, <1>d DEF Undisturbed
  <2>2. \A c \in Closers : closer[c].sell = i => KeepsFor(i, c)
    BY <1>b, <1>c DEF KeepsFor, AttemptInv, WriterSound
  <2> QED  BY <1>d, <2>1, <2>2, AttemptFrame
<1>e. ASSUME intents' = intents PROVE OneActive' /\ \A h \in Gens : intents[h] # "none" => intents'[h] # "none"
  BY <1>a, <1>e DEF OneActive
<1>f. ASSUME NEW to \in {"uncertain", "exhausted", "confirmed", "retry_scheduled"},
             intents' = [intents EXCEPT ![sells[i].gen] = to],
             to \in {"uncertain", "retry_scheduled"} => \/ MayActivate(sells[i].gen)
                                                        \/ intents[sells[i].gen] \in ActiveIntent
      PROVE  OneActive' /\ \A h \in Gens : intents[h] # "none" => intents'[h] # "none"
  BY <1>a, <1>f, ActiveStays DEF ActiveIntent
<1>g. ASSUME intents' = IntentMoved(sells[i].gen, ActiveIntent \ {"retry_scheduled"}, "uncertain")
      PROVE  OneActive' /\ \A h \in Gens : intents[h] # "none" => intents'[h] # "none"
  BY <1>a, <1>e, <1>f, <1>g DEF IntentMoved
(* what every one of these steps keeps of the row *)
<1>h. ASSUME NEW status, NEW order, NEW proven, NEW code,
             sells'[i].status = status, sells'[i].order = order, sells'[i].proven = proven,
             sells'[i].code = code, sells'[i].origin = sells[i].origin, sells'[i].tx = sells[i].tx,
             sells'[i].gen = sells[i].gen, sells'[i].amount = sells[i].amount, status \notin {"none", "unseen"},
             sells[i].status = "confirmed" => status = "confirmed",
             status \in Unsent => chain[i] = "none",
             code = "cancel" => chain[i] = "none" /\ status \notin {"reserved", "preparing", "submitting"},
             order # "none" => status \in Ordered,
             proven => /\ order \in {"definitive_failed_no_fill", "chain_verifying", "confirmed"}
                       /\ status \in {"definitive_failed_no_fill", "confirmed"} /\ sells[i].origin = "close",
             status = "definitive_failed_no_fill" => proven,
             (status = "confirmed") <=> (order = "confirmed"),
             status = "confirmed" => chain[sells[i].tx] = "sold",
             sells[i].origin # "close" /\ order # "none" => order \in {"chain_verifying", "confirmed"},
             sells[i].proven => proven,
             \A h \in Gens : intents[h] # "none" => intents'[h] # "none"
      PROVE  SellSound(i)' /\ Keeps(i)
  <2>1. Keeps(i) /\ Observed(i)'
    BY <1>b, <1>c, <1>h DEF Keeps, Observed
  <2>2. /\ sells[i].tx # i => sells[i].origin = "external" /\ chain[i] = "none"
        /\ chain[i] = "sent" => sells[i].origin = "close"
        /\ intents[sells[i].gen] # "none"
    BY <1>a, <1>c DEF SellSound, Observed
  <2> QED  BY <1>a, <1>b, <1>h, <2>1, <2>2 DEF SellSound
<1>1. CASE ObserveConfirmed(i)
  <2>1. /\ sells' = [sells EXCEPT ![i].order = "chain_verifying"] /\ intents' = intents
        /\ sells[i].order \in {"submitted", "failure_verifying", "definitive_failed_no_fill"}
    BY <1>1 DEF ObserveConfirmed, Due
  <2>2. /\ sells'[i] = [sells[i] EXCEPT !.order = "chain_verifying"]
        /\ \A j \in SellIds \ {i} : sells'[j] = sells[j]
    BY <1>a, <2>1
  <2>3. SellSound(i)' /\ Keeps(i)
    BY <1>a, <1>c, <1>e, <1>h, <2>1, <2>2 DEF SellSound, SellRow, Observed
  <2> QED  BY <1>d, <1>e, <2>1, <2>2, <2>3
<1>2. CASE ObservePending(i)
  <2>1. /\ sells' = [sells EXCEPT ![i].order = "submitted"] /\ intents' = intents
        /\ sells[i].order \in {"submitted", "failure_verifying"}
    BY <1>2 DEF ObservePending, Due
  <2>2. /\ sells'[i] = [sells[i] EXCEPT !.order = "submitted"]
        /\ \A j \in SellIds \ {i} : sells'[j] = sells[j]
    BY <1>a, <2>1
  <2>3. SellSound(i)' /\ Keeps(i)
    BY <1>a, <1>c, <1>e, <1>h, <2>1, <2>2 DEF SellSound, SellRow, Observed
  <2> QED  BY <1>d, <1>e, <2>1, <2>2, <2>3
<1>3. ASSUME NEW withHash \in BOOLEAN, ObserveFailure(i, withHash) PROVE AttemptsGoOn
  <2>1. PICK st : /\ sells' = [sells EXCEPT ![i].order = "failure_verifying", ![i].status = st]
                  /\ \/ st = sells[i].status /\ st \notin {"submitted", "reconciliation_required"}
                     \/ st = "failure_verifying" /\ sells[i].status \in {"submitted", "reconciliation_required"}
                  /\ intents' = intents /\ sells[i].order \in {"submitted", "failure_verifying"}
    BY <1>3, <1>a DEF ObserveFailure, SellRow
  <2>2. /\ sells'[i] = [sells[i] EXCEPT !.order = "failure_verifying", !.status = st]
        /\ \A j \in SellIds \ {i} : sells'[j] = sells[j]
    BY <1>a, <2>1
  <2>3. SellSound(i)' /\ Keeps(i)
    BY <1>a, <1>c, <1>e, <1>h, <2>1, <2>2 DEF SellSound, SellRow, Observed, Unsent, Ordered
  <2> QED  BY <1>d, <1>e, <2>1, <2>2, <2>3
<1>4. CASE VerdictFailed(i)
  <2>1. PICK to \in {"exhausted", "retry_scheduled"} :
           /\ sells' = [sells EXCEPT ![i].order = "definitive_failed_no_fill",
                                     ![i].status = "definitive_failed_no_fill", ![i].proven = TRUE]
           /\ intents' = [intents EXCEPT ![sells[i].gen] = to]
           /\ to = "retry_scheduled" => MayActivate(sells[i].gen)
           /\ sells[i].order = "failure_verifying"
    BY <1>4 DEF VerdictFailed, ProveFailed
  <2>2. /\ sells'[i] = [sells[i] EXCEPT !.order = "definitive_failed_no_fill",
                                        !.status = "definitive_failed_no_fill", !.proven = TRUE]
        /\ \A j \in SellIds \ {i} : sells'[j] = sells[j]
    BY <1>a, <2>1
  <2>3. OneActive' /\ \A h \in Gens : intents[h] # "none" => intents'[h] # "none"
    BY <1>f, <2>1
  <2>5. sells[i].origin = "close"
    BY <1>a, <2>1 DEF SellSound
  <2>6. SellSound(i)' /\ Keeps(i)
    BY <1>a, <1>c, <1>h, <2>1, <2>2, <2>3, <2>5 DEF SellSound, SellRow, Observed, Unsent, Ordered
  <2> QED  BY <1>d, <2>2, <2>3, <2>6
<1>5. CASE VerdictUncertain(i)
  <2>1. PICK st : /\ sells' = [sells EXCEPT ![i].status = st]
                  /\ \/ st = sells[i].status /\ st = "submission_uncertain"
                     \/ st = "reconciliation_required"
                  /\ sells[i].order = "failure_verifying"
    BY <1>5, <1>a DEF VerdictUncertain, SellRow
  <2>2. /\ sells'[i] = [sells[i] EXCEPT !.status = st]
        /\ \A j \in SellIds \ {i} : sells'[j] = sells[j]
    BY <1>a, <2>1
  <2>3. OneActive' /\ \A h \in Gens : intents[h] # "none" => intents'[h] # "none"
    BY <1>5, <1>e, <1>f DEF VerdictUncertain
  <2>4. SellSound(i)' /\ Keeps(i)
    BY <1>a, <1>c, <1>h, <2>1, <2>2, <2>3 DEF SellSound, SellRow, Observed, Unsent, Ordered
  <2> QED  BY <1>d, <2>2, <2>3, <2>4
<1>6. CASE ReceiptContradicts(i)
  <2>1. /\ sells' = [sells EXCEPT ![i].status = "reconciliation_required"]
        /\ intents' = IntentMoved(sells[i].gen, ActiveIntent \ {"retry_scheduled"}, "uncertain")
        /\ sells[i].order = "chain_verifying"
        /\ sells[i].status \in {"submitted", "confirming", "reconciliation_required"}
    BY <1>6 DEF ReceiptContradicts
  <2>2. /\ sells'[i] = [sells[i] EXCEPT !.status = "reconciliation_required"]
        /\ \A j \in SellIds \ {i} : sells'[j] = sells[j]
    BY <1>a, <2>1
  <2>3. OneActive' /\ \A h \in Gens : intents[h] # "none" => intents'[h] # "none"
    BY <1>g, <2>1
  <2>4. SellSound(i)' /\ Keeps(i)
    <3>1. /\ sells'[i].status = "reconciliation_required" /\ sells'[i].order = sells[i].order
          /\ sells'[i].proven = sells[i].proven /\ sells'[i].code = sells[i].code
          /\ sells'[i].origin = sells[i].origin /\ sells'[i].tx = sells[i].tx
          /\ sells'[i].gen = sells[i].gen /\ sells'[i].amount = sells[i].amount
      BY <1>a, <2>2 DEF SellRow
    <3>2. /\ sells[i].proven = FALSE /\ sells[i].status # "confirmed"
          /\ sells[i].code = "cancel" => chain[i] = "none"
          /\ sells[i].order \in {"none", "chain_verifying"}
      BY <1>a, <2>1 DEF SellSound, SellRow
    <3> QED  BY <1>h, <2>3, <3>1, <3>2 DEF Unsent, Ordered
  <2> QED  BY <1>d, <2>2, <2>3, <2>4
<1>7. CASE FinalizeConfirmedSell(i)
  <2>1. PICK code \in {sells[i].code, "multiple_fill"} :
           sells'[i] = [sells[i] EXCEPT !.order = "confirmed", !.status = "confirmed", !.code = code]
    <3>1. CASE sells' = [sells EXCEPT ![i].order = "confirmed", ![i].status = "confirmed"]
      <4>1. sells'[i] = [sells[i] EXCEPT !.order = "confirmed", !.status = "confirmed"]
        BY <1>a, <3>1
      <4>2. sells'[i] = [sells[i] EXCEPT !.order = "confirmed", !.status = "confirmed", !.code = sells[i].code]
        BY <1>a, <4>1 DEF SellRow
      <4> QED  BY <4>2
    <3>2. CASE sells' = [sells EXCEPT ![i].order = "confirmed", ![i].status = "confirmed",
                                      ![i].code = "multiple_fill"]
      <4>1. sells'[i] = [sells[i] EXCEPT !.order = "confirmed", !.status = "confirmed", !.code = "multiple_fill"]
        BY <1>a, <3>2
      <4> QED  BY <4>1
    <3> QED  BY <1>7, <3>1, <3>2 DEF FinalizeConfirmedSell, BookLots
  <2>2. \A j \in SellIds \ {i} : sells'[j] = sells[j]
    BY <1>7, <1>a DEF FinalizeConfirmedSell, BookLots
  <2>3. /\ intents' = [intents EXCEPT ![sells[i].gen] = "confirmed"]
        /\ sells[i].order = "chain_verifying" /\ chain[sells[i].tx] = "sold"
    BY <1>7 DEF FinalizeConfirmedSell, BookLots, OutcomeOf
  <2>4. OneActive' /\ \A h \in Gens : intents[h] # "none" => intents'[h] # "none"
    BY <1>f, <2>3
  <2>5. SellSound(i)' /\ Keeps(i)
    BY <1>a, <1>c, <1>h, <2>1, <2>3, <2>4 DEF SellSound, SellRow, Observed, Unsent, Ordered
  <2> QED  BY <1>d, <2>2, <2>4, <2>5
<1>8. CASE EscalateUncertain(i)
  <2>1. /\ sells' = [sells EXCEPT ![i].status = "reconciliation_required"]
        /\ intents' = IntentMoved(sells[i].gen, ActiveIntent \ {"retry_scheduled"}, "uncertain")
        /\ sells[i].order = "none" /\ sells[i].status = "submission_uncertain"
    BY <1>8 DEF EscalateUncertain
  <2>2. /\ sells'[i] = [sells[i] EXCEPT !.status = "reconciliation_required"]
        /\ \A j \in SellIds \ {i} : sells'[j] = sells[j]
    BY <1>a, <2>1
  <2>3. OneActive' /\ \A h \in Gens : intents[h] # "none" => intents'[h] # "none"
    BY <1>g, <2>1
  <2>4. SellSound(i)' /\ Keeps(i)
    <3>1. /\ sells'[i].status = "reconciliation_required" /\ sells'[i].order = sells[i].order
          /\ sells'[i].proven = sells[i].proven /\ sells'[i].code = sells[i].code
          /\ sells'[i].origin = sells[i].origin /\ sells'[i].tx = sells[i].tx
          /\ sells'[i].gen = sells[i].gen /\ sells'[i].amount = sells[i].amount
      BY <1>a, <2>2 DEF SellRow
    <3>2. /\ sells[i].proven = FALSE /\ sells[i].status # "confirmed"
          /\ sells[i].code = "cancel" => chain[i] = "none"
          /\ sells[i].order \in {"none", "chain_verifying"}
      BY <1>a, <2>1 DEF SellSound, SellRow
    <3> QED  BY <1>h, <2>3, <3>1, <3>2 DEF Unsent, Ordered
  <2> QED  BY <1>d, <2>2, <2>3, <2>4
<1>9. CASE ReconcileCancelledClose(i)
  <2>1. /\ sells' = [sells EXCEPT ![i].status = "rejected"] /\ intents' = intents
        /\ sells[i].order = "none" /\ sells[i].code = "cancel"
        /\ sells[i].status \in {"submission_uncertain", "reconciliation_required"}
    BY <1>9 DEF ReconcileCancelledClose, CloseWasCancelled
  <2>2. /\ sells'[i] = [sells[i] EXCEPT !.status = "rejected"]
        /\ \A j \in SellIds \ {i} : sells'[j] = sells[j]
    BY <1>a, <2>1
  <2>3. SellSound(i)' /\ Keeps(i)
    BY <1>a, <1>c, <1>e, <1>h, <2>1, <2>2 DEF SellSound, SellRow, Observed, Unsent, Ordered
  <2> QED  BY <1>d, <1>e, <2>1, <2>2, <2>3
<1> QED  BY <1>1, <1>2, <1>3, <1>4, <1>5, <1>6, <1>7, <1>8, <1>9 DEF OrderStep

LEMMA ObserveAttempts ==
    ASSUME Rows, AttemptInv, NEW i \in SellIds, NEW row, Observe(i, row), UNCHANGED <<closer, chain>>,
           row \in SellRow, row.origin # "close", row.code # "cancel", row.proven = FALSE,
           chain[i] # "sent", row.tx # i => row.origin = "external" /\ chain[i] = "none",
           row.origin = "external" \/ (row.origin = sells[i].origin /\ row.amount = sells[i].amount),
           sells[i].status \in {"none", "unseen"}
    PROVE  AttemptsGoOn
<1>a. /\ sells \in [SellIds -> SellRow] /\ OneActive /\ intents \in [Gens -> IntentStatuses]
  BY DEF Rows, Data, AttemptInv
<1>1. PICK g \in Gens : /\ intents[g] = "none" /\ intents' = [intents EXCEPT ![g] = "awaiting_result"]
                        /\ sells' = [sells EXCEPT ![i] = [row EXCEPT !.status = "confirming", !.gen = g,
                                                                     !.order = "chain_verifying"]]
  <2>1. Min(FreeGens) \in Gens /\ intents[Min(FreeGens)] = "none"
    BY FreshOnes DEF Observe, FreeGens, Gens
  <2> QED  BY <2>1 DEF Observe
<1>2. /\ sells'[i].status = "confirming" /\ sells'[i].gen = g /\ sells'[i].order = "chain_verifying"
      /\ sells'[i].code # "cancel" /\ sells'[i].proven = FALSE /\ sells'[i].origin = row.origin
      /\ sells'[i].tx = row.tx /\ sells'[i].amount = row.amount
      /\ \A j \in SellIds \ {i} : sells'[j] = sells[j]
  BY <1>a, <1>1 DEF SellRow
<1>3. MayActivate(g)
  BY DEF Observe, ScopeTaken, MayActivate
<1>4. OneActive' /\ \A h \in Gens : intents[h] # "none" => intents'[h] # "none"
  BY <1>a, <1>1, <1>3, ActiveStays
<1>5. intents'[g] = "awaiting_result"
  BY <1>a, <1>1
<1>6. SellSound(i)'
  BY <1>2, <1>5 DEF SellSound, Observed, Unsent, Ordered
<1>7. Undisturbed({i}, {}) /\ Keeps(i) /\ i # 0
  BY <1>2, <1>4, CloseBoundsAssumption DEF Undisturbed, Keeps, Observed, SellIds
<1>8. \A c \in Closers : closer[c].sell # i
  BY <1>7 DEF AttemptInv, WriterSound, Observed
<1> QED  BY <1>4, <1>6, <1>7, <1>8, AttemptFrame

LEMMA ReconcilerAttempts ==
    ASSUME Rows, AttemptInv, setting' = setting,
           \/ FetchStrategy \/ PersistStrategy \/ ClaimStrategyClose
           \/ ReadBalance \/ JudgeBalance \/ ClaimExternalClose
    PROVE  AttemptsGoOn
<1>a. /\ sells \in [SellIds -> SellRow] /\ OneActive
  BY DEF Rows, Data, AttemptInv
<1>b. UNCHANGED <<closer, chain>>
  BY DEF FetchStrategy, PersistStrategy, ClaimStrategyClose, ReadBalance, JudgeBalance,
         MarkPositionBalanceMismatch, ClaimExternalClose, world
<1>c. ASSUME UNCHANGED <<sells, intents>> PROVE AttemptsGoOn
  <2>1. Undisturbed({}, {}) /\ OneActive'
    BY <1>a, <1>b, <1>c DEF Undisturbed, OneActive
  <2> QED  BY <2>1, AttemptFrame
<1>1. CASE FetchStrategy \/ PersistStrategy \/ ReadBalance \/ JudgeBalance
  BY <1>1, <1>c DEF FetchStrategy, PersistStrategy, ReadBalance, JudgeBalance, rows
<1>2. CASE ClaimStrategyClose
  <2>1. PICK i \in SellIds : sells[i].origin = "strategy" /\
           \/ UNCHANGED <<sells, intents>>
           \/ sells[i].status = "unseen" /\ Observe(i, sells[i])
           \/ /\ intents' = intents /\ ActiveSells # {}
              /\ sells[Max(ActiveSells)].status \in {"reserved", "preparing"}
              /\ sells' = [sells EXCEPT ![Max(ActiveSells)].status = "reconciliation_required",
                                        ![Max(ActiveSells)].code = "triggered"]
    BY <1>2 DEF ClaimStrategyClose, SalesOf
  <2>2. CASE sells[i].status = "unseen" /\ Observe(i, sells[i])
    <3>1. sells[i] \in SellRow /\ SellSound(i)
      BY <1>a DEF AttemptInv
    <3>2. sells[i].proven = FALSE /\ chain[i] = "sold" /\ sells[i].tx = i /\ sells[i].code # "cancel"
      BY <2>2, <3>1 DEF SellSound, SellRow
    <3> QED  BY <1>b, <2>1, <2>2, <3>1, <3>2, ObserveAttempts
  <2>3. CASE /\ intents' = intents /\ ActiveSells # {}
             /\ sells[Max(ActiveSells)].status \in {"reserved", "preparing"}
             /\ sells' = [sells EXCEPT ![Max(ActiveSells)].status = "reconciliation_required",
                                       ![Max(ActiveSells)].code = "triggered"]
    <3>1. PICK k \in SellIds : k = Max(ActiveSells)
      BY <2>3, GreatestOf DEF ActiveSells
    <3>2. /\ sells[k].status \in {"reserved", "preparing"}
          /\ sells' = [sells EXCEPT ![k].status = "reconciliation_required", ![k].code = "triggered"]
      BY <2>3, <3>1
    <3>3. sells[k] \in SellRow /\ SellSound(k)
      BY <1>a DEF AttemptInv
    <3>4. /\ sells'[k].status = "reconciliation_required" /\ sells'[k].code = "triggered"
          /\ sells'[k].order = sells[k].order /\ sells'[k].proven = sells[k].proven
          /\ sells'[k].origin = sells[k].origin /\ sells'[k].tx = sells[k].tx
          /\ sells'[k].gen = sells[k].gen /\ sells'[k].amount = sells[k].amount
          /\ \A j \in SellIds \ {k} : sells'[j] = sells[j]
      BY <1>a, <3>2, <3>3 DEF SellRow
    <3>5. /\ sells[k].order = "none" /\ sells[k].proven = FALSE /\ Observed(k) /\ chain[k] = "none"
          /\ sells[k].tx # k => sells[k].origin = "external"
      BY <3>2, <3>3 DEF SellSound, SellRow, Ordered, Observed, Unsent
    <3>6. SellSound(k)' /\ Keeps(k)
      BY <1>b, <2>3, <3>3, <3>4, <3>5 DEF SellSound, Keeps, Observed, Unsent, Ordered
    <3>7. \A c \in Closers : closer[c].sell = k => closer[c].step # "swap"
      BY <3>2 DEF AttemptInv, WriterSound
    <3>8. Undisturbed({k}, {}) /\ OneActive' /\ \A c \in Closers : closer[c].sell = k => KeepsFor(k, c)
      BY <1>a, <1>b, <2>3, <3>4, <3>7 DEF Undisturbed, OneActive, KeepsFor
    <3> QED  BY <3>6, <3>8, AttemptFrame
  <2> QED  BY <1>c, <2>1, <2>2, <2>3
<1>3. CASE ClaimExternalClose
  <2>1. CASE UNCHANGED <<sells, intents>>
    BY <1>c, <2>1
  <2>2. CASE ~UNCHANGED <<sells, intents>>
    <3>1. PICK t \in SellIds : t = rec.sale
      BY <1>3 DEF ClaimExternalClose, Rows, RecTyped
    <3>2. PICK slots \in SUBSET SellIds : /\ slots = IF sells[t].status = "unseen" THEN {t} ELSE FreeSells
                                          /\ slots # {}
                                          /\ Observe(Min(slots), [NoSell EXCEPT !.origin = "external",
                                                                   !.tx = t, !.amount = rec.amount])
      <4>1. FreeSells \subseteq SellIds
        BY FreshOnes
      <4> QED  BY <1>3, <2>2, <3>1, <4>1 DEF ClaimExternalClose
    <3>3. PICK i \in slots : i = Min(slots)
      BY <3>2, LeastOf
    <3>4. PICK row : row = [NoSell EXCEPT !.origin = "external", !.tx = t, !.amount = rec.amount]
      OBVIOUS
    <3>5. /\ row \in SellRow /\ row.origin = "external" /\ row.code = "none" /\ row.proven = FALSE
          /\ row.tx = t
      <4>1. rec.amount \in Nat /\ 1 \in Gens
        BY <1>3, CloseBoundsAssumption DEF ClaimExternalClose, Rows, RecTyped, Gens, SellIds
      <4> QED  BY <3>4, <4>1 DEF NoSell, SellRow, Origins, SellStatuses, OrderStatuses, ErrorCodes
    <3>6. i \in SellIds /\ SellSound(i)
      BY <3>2, <3>3 DEF AttemptInv
    <3>7. \/ sells[i].status = "unseen" /\ i = t
          \/ sells[i].status = "none"
      BY <3>2, <3>3 DEF FreeSells
    <3>8. chain[i] # "sent" /\ (row.tx # i => chain[i] = "none")
      BY <3>5, <3>6, <3>7 DEF SellSound, Unsent
    <3> QED  BY <1>b, <3>2, <3>3, <3>4, <3>5, <3>6, <3>7, <3>8, ObserveAttempts
  <2> QED  BY <2>1, <2>2
<1> QED  BY <1>1, <1>2, <1>3

LEMMA EnvironmentAttempts ==
    ASSUME Rows, AttemptInv, EnvironmentStep, setting' = setting
    PROVE  AttemptsGoOn
<1>a. /\ sells \in [SellIds -> SellRow] /\ OneActive /\ closer \in [Closers -> CloserRow]
      /\ chain \in [SellIds -> {"none", "sent", "sold", "reverted"}]
  BY DEF Rows, Data, AttemptInv
<1>b. intents' = intents /\ OneActive'
  BY <1>a DEF EnvironmentStep, SwapLands, StrategyTriggers, StrategyFails, OwnerSells, OwnerTransfers,
              Crash, rows, OneActive
<1>1. ASSUME NEW i \in SellIds, SwapLands(i) PROVE AttemptsGoOn
  <2>1. /\ chain[i] = "sent" /\ chain'[i] \in {"sold", "reverted"}
        /\ \A j \in SellIds \ {i} : chain'[j] = chain[j]
        /\ UNCHANGED <<sells, closer>>
    BY <1>1, <1>a DEF SwapLands, rows
  <2>2. SellSound(i) /\ sells[i].tx \in SellIds
    BY <1>a DEF AttemptInv, SellRow
  <2>3. /\ sells[i].status \notin Unsent \cup {"unseen"} /\ sells[i].code # "cancel"
        /\ sells[i].tx = i
    BY <2>1, <2>2 DEF SellSound, Unsent
  <2>4. sells[i].status # "confirmed"
    BY <2>1, <2>2, <2>3 DEF SellSound
  <2>5. SellSound(i)'
    BY <1>b, <2>1, <2>2, <2>3, <2>4 DEF SellSound, Observed, Unsent
  <2>6. Undisturbed({i}, {}) /\ Keeps(i) /\ \A c \in Closers : KeepsFor(i, c) \/ closer[c].sell # i
    BY <1>b, <2>1, <2>3 DEF Undisturbed, Keeps, Observed, KeepsFor, AttemptInv, WriterSound, Unsent
  <2> QED  BY <1>b, <2>5, <2>6, AttemptFrame
<1>2. ASSUME NEW origin \in {"strategy", "external"}, NEW amount, SaleAppears(origin, amount), closer' = closer,
             origin = "external" \/ strategy = "live"
      PROVE  AttemptsGoOn
  <2>1. PICK i \in FreeSells : i = Max(FreeSells)
    BY <1>2, FreshOnes DEF SaleAppears
  <2>2. i \in SellIds /\ sells[i].status = "none" /\ SellSound(i) /\ i # 0
    BY <2>1, FreshOnes, CloseBoundsAssumption DEF FreeSells, AttemptInv, SellIds
  <2>3. /\ sells' = [sells EXCEPT ![i] = [NoSell EXCEPT !.origin = origin, !.status = "unseen",
                                                        !.amount = amount, !.tx = i]]
        /\ chain' = [chain EXCEPT ![i] = "sold"]
    BY <1>2, <2>1 DEF SaleAppears
  <2>4. /\ sells'[i].status = "unseen" /\ sells'[i].origin = origin /\ sells'[i].tx = i
        /\ sells'[i].code = "none" /\ sells'[i].order = "none" /\ sells'[i].proven = FALSE
        /\ chain'[i] = "sold"
        /\ \A j \in SellIds \ {i} : sells'[j] = sells[j] /\ chain'[j] = chain[j]
    BY <1>a, <2>2, <2>3 DEF NoSell
  <2>5. SellSound(i)'
    BY <1>2, <2>4 DEF SellSound, Observed, Unsent
  <2>6. Undisturbed({i}, {}) /\ Keeps(i)
    BY <1>2, <1>b, <2>2, <2>4 DEF Undisturbed, Keeps, Observed, SellSound, Unsent
  <2>7. \A c \in Closers : closer[c].sell # i
    BY <2>2 DEF AttemptInv, WriterSound, Observed
  <2> QED  BY <1>b, <2>2, <2>5, <2>6, <2>7, AttemptFrame
<1>3. CASE UNCHANGED <<sells, chain, closer>>
  <2>1. Undisturbed({}, {})
    BY <1>b, <1>3 DEF Undisturbed
  <2> QED  BY <1>b, <2>1, AttemptFrame
<1>4. CASE Crash
  <2>1. UNCHANGED <<sells, chain>> /\ \A c \in Closers : closer'[c].sell = 0 /\ closer'[c].step = "idle"
    BY <1>4 DEF Crash, rows, IdleCloser
  <2>2. Undisturbed({}, Closers) /\ \A c \in Closers : WriterSound(c)'
    BY <1>b, <2>1 DEF Undisturbed, WriterSound, BeforeSwap
  <2> QED  BY <1>b, <2>1, <2>2, AttemptFrame
<1>5. CASE StrategyTriggers
  BY <1>2, <1>5 DEF StrategyTriggers
<1>6. ASSUME NEW amount \in 1 .. Opened, OwnerSells(amount) PROVE AttemptsGoOn
  BY <1>2, <1>6 DEF OwnerSells
<1>7. CASE StrategyFails \/ \E amount \in 1 .. Opened : OwnerTransfers(amount)
  BY <1>3, <1>7 DEF StrategyFails, OwnerTransfers, rows
<1> QED  BY <1>1, <1>4, <1>5, <1>6, <1>7 DEF EnvironmentStep

LEMMA AttemptInit == ASSUME Init PROVE AttemptInv
<1>1. \A i \in SellIds : sells[i] = NoSell /\ chain[i] = "none"
  BY DEF Init
<1>2. \A c \in Closers : closer[c].step = "idle" /\ closer[c].sell = 0
  BY DEF Init, IdleCloser
<1>3. \A i \in SellIds : SellSound(i)
  BY <1>1 DEF SellSound, NoSell, Observed, Unsent
<1>4. OneActive
  BY DEF Init, OneActive, ActiveIntent
<1> QED  BY <1>2, <1>3, <1>4 DEF AttemptInv, WriterSound, BeforeSwap

LEMMA AttemptKept == ASSUME Rows, AttemptInv, [Next]_<<vars, setting>> PROVE AttemptsGoOn
<1>1. CASE Next
  BY <1>1, CloserAttempts, RetryAttempts, OrderAttempts, ReconcilerAttempts, EnvironmentAttempts
     DEF Next, ReconcileStep
<1>2. CASE UNCHANGED <<vars, setting>>
  <2>1. UNCHANGED <<sells, intents, chain, closer>>
    BY <1>2 DEF vars, rows, world
  <2>2. Undisturbed({}, {}) /\ OneActive'
    BY <2>1 DEF Undisturbed, AttemptInv, OneActive
  <2> QED  BY <2>2, AttemptFrame
<1> QED  BY <1>1, <1>2

-----------------------------------------------------------------------------
(* Decisions: what is known of the one attempt that is open, and the steps *)
(* that begin an attempt, leave it open, or decide it.                     *)

LEMMA MistakenStays ==
    ASSUME Rows, AttemptInv, Recorded, MistakenProof
    PROVE  MistakenProof'
<1>1. PICK i \in SellIds : sells[i].proven /\ chain[i] = "sold"
  BY DEF MistakenProof
<1>2. Observed(i)
  BY <1>1 DEF AttemptInv, SellSound, Observed
<1> QED  BY <1>1, <1>2 DEF Recorded, Keeps, MistakenProof

LEMMA OneOpen ==
    ASSUME Rows, AttemptInv, DecisionInv, NEW i \in SellIds, Open(i)
    PROVE  /\ position \in {"closing", "close_uncertain"} /\ remaining # 0
           /\ sells[i].gen \in Gens /\ intents[sells[i].gen] \in Held
           /\ \A j \in SellIds : Open(j) => j = i
           /\ \A j \in SellIds : Observed(j) /\ sells[j].gen = sells[i].gen => j = i
           /\ \A g \in Gens : intents[g] \in ActiveIntent => g = sells[i].gen
           /\ closer[Worker].step = "idle"
<1>1. /\ position \in PositionStatuses /\ \A j \in SellIds : sells[j].gen \in Gens
      /\ closer[Worker].step # "idle" => closer[Worker].gen \in Gens
  BY DEF Rows, Data, SellRow, CloserSound, Closers
<1>2. \A j \in SellIds : Open(j) => Observed(j)
  BY DEF Open, Observed, OpenSell
<1>3. position \in {"closing", "close_uncertain"} /\ remaining # 0
  BY <1>1 DEF DecisionInv, PositionStatuses, Closable
<1>4. /\ intents[sells[i].gen] \in Held
      /\ \A g \in Gens : intents[g] \in ActiveIntent => g = sells[i].gen
  BY <1>1 DEF DecisionInv, AttemptInv, OneActive, Held
<1>5. \A j \in SellIds : Observed(j) /\ sells[j].gen = sells[i].gen => j = i
  BY <1>2 DEF DecisionInv
<1>6. ASSUME NEW j \in SellIds, Open(j) PROVE j = i
  <2>1. intents[sells[j].gen] \in ActiveIntent
    BY <1>6 DEF DecisionInv, Held
  <2> QED  BY <1>1, <1>2, <1>4, <1>5, <1>6, <2>1
<1>7. closer[Worker].step = "idle"
  <2>1. closer[Worker].step # "idle" => intents[closer[Worker].gen] = "retry_verifying"
    BY DEF DecisionInv
  <2> QED  BY <1>1, <1>4, <2>1 DEF Held, Retrying, ActiveIntent
<1> QED  BY <1>1, <1>3, <1>4, <1>5, <1>6, <1>7

LEMMA NothingDecided ==
    ASSUME Rows, DecisionInv, remaining' = remaining,
           closer'[Worker].step = "idle" \/ closer'[Worker] = closer[Worker],
           \A j \in SellIds : /\ Open(j)' => Open(j)
                              /\ Observed(j)' => Observed(j) /\ sells'[j].gen = sells[j].gen,
           \A g \in Gens : intents'[g] = intents[g] \/ {intents[g], intents'[g]} \subseteq Held,
           \/ position' = position \/ {position, position'} \subseteq Closable
           \/ position' \in {"closing", "close_uncertain"} /\ remaining # 0
    PROVE  DecisionInv'
<1>1. /\ \A j \in SellIds : sells[j].gen \in Gens
      /\ closer[Worker].step # "idle" => closer[Worker].gen \in Gens
  BY DEF Rows, Data, SellRow, CloserSound, Closers
<1>2. \A j \in SellIds : Open(j) => Observed(j)
  BY DEF Open, Observed, OpenSell
<1>a. \A j \in SellIds : Open(j)' => Observed(j)'
  BY DEF Open, Observed, OpenSell
<1>3. \A j \in SellIds : Open(j)' => intents'[sells'[j].gen] \in Held
  BY <1>1, <1>a DEF DecisionInv
<1>4. \A j, k \in SellIds : Observed(j)' /\ Observed(k)' /\ sells'[j].gen = sells'[k].gen => j = k
  BY DEF DecisionInv
<1>5. closer'[Worker].step \in {"idle", "prepared", "failed"}
  BY DEF DecisionInv
<1>6. closer'[Worker].step # "idle" => intents'[closer'[Worker].gen] = "retry_verifying"
  BY <1>1 DEF DecisionInv, Held, Retrying
<1>7. \A g \in Gens : intents'[g] \in Retrying => intents[g] \in Retrying
  BY DEF Held
<1>8. position' \in Closable \cup {"closed"} => position \in Closable \cup {"closed"}
  BY DEF Closable
<1>9. remaining' = 0 => position' = "closed"
  BY DEF DecisionInv, Closable
<1> QED  BY <1>3, <1>4, <1>5, <1>6, <1>7, <1>8, <1>9 DEF DecisionInv

LEMMA AttemptDecided ==
    ASSUME Rows, AttemptInv, DecisionInv, NEW i \in SellIds, Open(i), ~Open(i)',
           closer'[Worker] = closer[Worker], \A j \in SellIds \ {i} : sells'[j] = sells[j],
           sells'[i].gen = sells[i].gen, NEW to, intents' = [intents EXCEPT ![sells[i].gen] = to],
           to \in Retrying => position' \in {"closing", "close_uncertain"},
           remaining' = 0 => position' = "closed"
    PROVE  DecisionInv'
<1>a. intents \in [Gens -> IntentStatuses]
  BY DEF Rows, Data
<1>b. PICK g \in Gens : g = sells[i].gen
  BY OneOpen
<1>1. /\ \A j \in SellIds : Open(j) => j = i
      /\ \A j \in SellIds : Observed(j) /\ sells[j].gen = g => j = i
      /\ \A h \in Gens : intents[h] \in ActiveIntent => h = g
      /\ closer[Worker].step = "idle" /\ Observed(i)
  BY <1>b, OneOpen DEF Open, Observed, OpenSell
<1>2. \A j \in SellIds \ {i} : ~Open(j)' /\ (Observed(j)' => Observed(j))
  BY <1>1 DEF Open, Observed
<1>3. \A j, k \in SellIds : Observed(j)' /\ Observed(k)' /\ sells'[j].gen = sells'[k].gen => j = k
  BY <1>b, <1>1, <1>2 DEF DecisionInv
<1>4. \A h \in Gens : intents'[h] = IF h = g THEN to ELSE intents[h]
  BY <1>a, <1>b
<1>5. \A h \in Gens : intents'[h] \in Retrying => h = g /\ to \in Retrying
  BY <1>1, <1>4 DEF Retrying, ActiveIntent
<1>6. position' \in Closable \cup {"closed"} => to \notin Retrying
  BY DEF Closable
<1> QED  BY <1>1, <1>2, <1>3, <1>5, <1>6 DEF DecisionInv

LEMMA AttemptBegun ==
    ASSUME Rows, AttemptInv, DecisionInv, ~ScopeTaken, NEW i \in SellIds, ~Observed(i), NEW g \in Gens,
           intents[g] = "none", closer'[Worker] = closer[Worker],
           \A j \in SellIds \ {i} : sells'[j] = sells[j], sells'[i].gen = g,
           NEW to \in Held, intents' = [intents EXCEPT ![g] = to],
           position' = "closing", remaining' = remaining, remaining # 0
    PROVE  DecisionInv'
<1>a. /\ intents \in [Gens -> IntentStatuses] /\ \A j \in SellIds : sells[j].gen \in Gens
      /\ closer[Worker].step # "idle" => closer[Worker].gen \in Gens
  BY DEF Rows, Data, SellRow, CloserSound, Closers
<1>1. \A h \in Gens : intents[h] \notin ActiveIntent
  BY DEF ScopeTaken
<1>2. \A j \in SellIds : ~Open(j)
  BY <1>1, <1>a DEF DecisionInv, Held
<1>3. closer[Worker].step = "idle"
  BY <1>1, <1>a DEF DecisionInv, ActiveIntent
<1>4. \A j \in SellIds : Observed(j) => sells[j].gen # g
  BY DEF AttemptInv, SellSound
<1>5. \A j \in SellIds \ {i} : ~Open(j)' /\ (Observed(j)' => Observed(j))
  BY <1>2 DEF Open, Observed
<1>6. \A j, k \in SellIds : Observed(j)' /\ Observed(k)' /\ sells'[j].gen = sells'[k].gen => j = k
  BY <1>4, <1>5 DEF DecisionInv
<1>7. intents'[g] = to
  BY <1>a
<1> QED  BY <1>3, <1>5, <1>6, <1>7 DEF DecisionInv, Closable

(* An attempt that stays open may change its intent among those that hold  *)
(* an attempt.                                                             *)
LEMMA StillHeld ==
    ASSUME Rows, AttemptInv, DecisionInv, NEW i \in SellIds, Open(i), NEW from, NEW to \in Held,
           \/ intents' = intents
           \/ intents' = [intents EXCEPT ![sells[i].gen] = to]
           \/ intents' = IntentMoved(sells[i].gen, from, to)
    PROVE  \A g \in Gens : intents'[g] = intents[g] \/ {intents[g], intents'[g]} \subseteq Held
<1>1. intents \in [Gens -> IntentStatuses] /\ sells[i].gen \in Gens /\ intents[sells[i].gen] \in Held
  BY OneOpen DEF Rows, Data
<1>2. intents' = intents \/ intents' = [intents EXCEPT ![sells[i].gen] = to]
  BY DEF IntentMoved
<1> QED  BY <1>1, <1>2

LEMMA CloserDecisions ==
    ASSUME Rows, AttemptInv, DecisionInv, NEW c \in Closers, CloserStep(c), setting' = setting
    PROVE  DecisionInv'
<1>a. /\ CloserSound(c) /\ WriterSound(c) /\ sells \in [SellIds -> SellRow]
      /\ intents \in [Gens -> IntentStatuses] /\ \A d \in Closers \ {c} : closer'[d] = closer[d]
  BY CloserMoves DEF Rows, Data, AttemptInv, OthersStay
<1>b. c \in Operators
  <2>1. CASE c = Worker
    <3>1. closer[Worker].step \in {"idle", "prepared", "failed"} /\ Worker \notin Operators
      BY ClosersAssumption DEF DecisionInv
    <3> QED  BY <2>1, <3>1 DEF CloserStep, Prepare, Execute, CreateSellAttempt, BeginPreparing,
             AcquireForCancel, MarkCancelling, AskCancel, VerifyCancel, CaptureSnapshot, AcquireForSwap,
             BeginSwap, SwapAnswered, RecordSubmittedOrder, SettleSubmittedOrder, MarkSellUncertain,
             QuarantineWallet, DropLane, RejectSellAttempt, At
  <2> QED  BY <2>1 DEF Closers
<1>c. closer'[Worker] = closer[Worker]
  BY <1>a, <1>b, ClosersAssumption DEF Closers
<1>d. ASSUME UNCHANGED <<position, remaining, sells, intents>> PROVE DecisionInv'
  BY <1>c, <1>d, NothingDecided DEF Open, Observed
(* the attempt stays open *)
<1>e. ASSUME NEW i \in SellIds, Open(i), remaining' = remaining,
             \A j \in SellIds \ {i} : sells'[j] = sells[j], sells'[i].gen = sells[i].gen,
             \A g \in Gens : intents'[g] = intents[g] \/ {intents[g], intents'[g]} \subseteq Held,
             position' \in {position, "close_uncertain"}
      PROVE  DecisionInv'
  <2>1. Observed(i) /\ remaining # 0
    BY <1>e, OneOpen DEF Open, Observed, OpenSell
  <2> QED  BY <1>c, <1>e, <2>1, NothingDecided DEF Open, Observed
<1>f. closer[c].step \notin WithoutSell \cup {"failed"} =>
        /\ MySell(c) \in SellIds /\ sells[MySell(c)].gen = closer[c].gen
        /\ sells[MySell(c)] \in SellRow
  BY <1>a, CloseBoundsAssumption DEF CloserSound, WriterSound, MySell, SellIds
<1> USE DEF rows, world
<1>1. CASE \/ Prepare(c) \/ Execute(c) \/ AcquireForCancel(c) \/ MarkCancelling(c) \/ AskCancel(c)
           \/ VerifyCancel(c) \/ AcquireForSwap(c) \/ SwapAnswered(c) \/ SettleSubmittedOrder(c)
           \/ QuarantineWallet(c) \/ DropLane(c)
  BY <1>1, <1>d DEF Prepare, Execute, AcquireForCancel, MarkCancelling, AskCancel, VerifyCancel,
     AcquireForSwap, SwapAnswered, SettleSubmittedOrder, QuarantineWallet, DropLane
<1>2. CASE CreateSellAttempt(c)
  <2>1. CASE UNCHANGED <<position, sells, intents>>
    BY <1>2, <1>d, <2>1 DEF CreateSellAttempt
  <2>2. CASE ~UNCHANGED <<position, sells, intents>>
    <3>1. /\ position \in Closable /\ ~ScopeTaken /\ FreeSells # {} /\ FreeGens # {}
          /\ position' = "closing" /\ remaining' = remaining
      BY <1>2, <2>2 DEF CreateSellAttempt
    <3>2. PICK i, g : /\ i = Min(FreeSells) /\ g = Min(FreeGens)
                      /\ sells' = [sells EXCEPT ![i] = [NoSell EXCEPT !.status = "reserved", !.gen = g,
                                                        !.tx = i, !.amount = closer[c].saw.amount]]
                      /\ intents' = [intents EXCEPT ![g] = "created"]
      BY <1>2, <2>2 DEF CreateSellAttempt
    <3>3. i \in SellIds /\ g \in Gens /\ ~Observed(i) /\ intents[g] = "none"
      BY <3>1, <3>2, FreshOnes DEF FreeSells, FreeGens, Gens, Observed
    <3>4. sells'[i].gen = g /\ \A j \in SellIds \ {i} : sells'[j] = sells[j]
      BY <1>a, <3>2, <3>3 DEF NoSell
    <3>5. remaining # 0
      BY <3>1 DEF DecisionInv, Closable
    <3> QED  BY <1>c, <3>1, <3>2, <3>3, <3>4, <3>5, AttemptBegun DEF Held, ActiveIntent, Retrying
  <2> QED  BY <2>1, <2>2
<1>3. CASE BeginPreparing(c)
  <2>1. CASE sells' = sells
    BY <1>3, <1>d, <2>1 DEF BeginPreparing
  <2>2. CASE sells' # sells
    <3>1. PICK i \in SellIds : /\ sells[i].status = "reserved" /\ sells[i] \in SellRow
                               /\ sells' = [sells EXCEPT ![i].status = "preparing"]
      BY <1>3, <1>f, <2>2 DEF BeginPreparing, At, WithoutSell
    <3>2. sells'[i].gen = sells[i].gen /\ \A j \in SellIds \ {i} : sells'[j] = sells[j]
      BY <1>a, <3>1 DEF SellRow
    <3> QED  BY <1>3, <1>e, <3>1, <3>2 DEF BeginPreparing, Open, OpenSell
  <2> QED  BY <2>1, <2>2
<1>4. CASE CaptureSnapshot(c)
  <2>1. CASE sells' = sells
    BY <1>4, <1>d, <2>1 DEF CaptureSnapshot
  <2>2. CASE sells' # sells
    <3>1. PICK i \in SellIds, n \in {Landed} : sells' = [sells EXCEPT ![i].sealed = n]
      BY <1>4, <1>f, <2>2 DEF CaptureSnapshot, At, WithoutSell
    <3>2. \A j \in SellIds : sells'[j].gen = sells[j].gen /\ sells'[j].status = sells[j].status
      BY <1>a, <3>1 DEF SellRow
    <3> QED  BY <1>4, <1>c, <3>2, NothingDecided DEF CaptureSnapshot, Open, Observed
  <2> QED  BY <2>1, <2>2
<1>5. CASE BeginSwap(c)
  <2>1. CASE UNCHANGED <<sells, intents>>
    BY <1>5, <1>d, <2>1 DEF BeginSwap
  <2>2. CASE ~UNCHANGED <<sells, intents>>
    <3>1. PICK i \in SellIds : i = MySell(c)
      BY <1>5, <1>f DEF BeginSwap, At, WithoutSell
    <3>2. /\ sells[i].status = "preparing" /\ sells' = [sells EXCEPT ![i].status = "submitting"]
          /\ intents' = IntentMoved(sells[i].gen, ActiveIntent \ {"retry_scheduled"}, "submitting")
          /\ UNCHANGED <<position, remaining>>
      BY <1>5, <1>f, <2>2, <3>1 DEF BeginSwap, At, WithoutSell
    <3>3. sells'[i].gen = sells[i].gen /\ \A j \in SellIds \ {i} : sells'[j] = sells[j]
      BY <1>a, <3>2 DEF SellRow
    <3>4. Open(i) /\ "submitting" \in Held
      BY <3>2 DEF Open, OpenSell, Held, ActiveIntent, Retrying
    <3>5. \A g \in Gens : intents'[g] = intents[g] \/ {intents[g], intents'[g]} \subseteq Held
      BY <3>2, <3>4, StillHeld
    <3> QED  BY <1>e, <3>2, <3>3, <3>4, <3>5
  <2> QED  BY <2>1, <2>2
<1>6. CASE RecordSubmittedOrder(c)
  <2>1. CASE UNCHANGED <<sells, intents>>
    BY <1>6, <1>d, <2>1 DEF RecordSubmittedOrder
  <2>2. CASE ~UNCHANGED <<sells, intents>>
    <3>1. PICK i \in SellIds : i = MySell(c)
      BY <1>6, <1>f DEF RecordSubmittedOrder, At, WithoutSell
    <3>2. /\ sells[i].status = "submitting"
          /\ sells' = [sells EXCEPT ![i].status = "submitted", ![i].order = "submitted"]
          /\ intents' = IntentMoved(sells[i].gen, {"submitting", "awaiting_result"}, "awaiting_result")
          /\ UNCHANGED <<position, remaining>>
      BY <1>6, <1>f, <2>2, <3>1 DEF RecordSubmittedOrder, At, WithoutSell
    <3>3. sells'[i].gen = sells[i].gen /\ \A j \in SellIds \ {i} : sells'[j] = sells[j]
      BY <1>a, <3>2 DEF SellRow
    <3>4. Open(i) /\ "awaiting_result" \in Held
      BY <3>2 DEF Open, OpenSell, Held, ActiveIntent, Retrying
    <3>5. \A g \in Gens : intents'[g] = intents[g] \/ {intents[g], intents'[g]} \subseteq Held
      BY <3>2, <3>4, StillHeld
    <3> QED  BY <1>e, <3>2, <3>3, <3>4, <3>5
  <2> QED  BY <2>1, <2>2
<1>7. CASE MarkSellUncertain(c)
  <2>1. CASE UNCHANGED <<sells, intents, position>>
    BY <1>7, <1>d, <2>1 DEF MarkSellUncertain
  <2>2. CASE ~UNCHANGED <<sells, intents, position>>
    <3>1. PICK i \in SellIds : i = MySell(c)
      BY <1>7, <1>f DEF MarkSellUncertain, At, WithoutSell
    <3>2. /\ sells[i].status \in {"preparing", "submitting"}
          /\ sells' = [sells EXCEPT ![i].status = "submission_uncertain", ![i].code = closer[c].code]
          /\ intents' = [intents EXCEPT ![sells[i].gen] = "uncertain"]
          /\ position' = "close_uncertain" /\ remaining' = remaining
      BY <1>7, <2>2, <3>1 DEF MarkSellUncertain
    <3>3. sells'[i].gen = sells[i].gen /\ \A j \in SellIds \ {i} : sells'[j] = sells[j]
      BY <1>a, <3>2 DEF SellRow
    <3>4. Open(i) /\ "uncertain" \in Held
      BY <3>2 DEF Open, OpenSell, Held, ActiveIntent, Retrying
    <3>5. \A g \in Gens : intents'[g] = intents[g] \/ {intents[g], intents'[g]} \subseteq Held
      BY <3>2, <3>4, StillHeld
    <3> QED  BY <1>e, <3>2, <3>3, <3>4, <3>5
  <2> QED  BY <2>1, <2>2
<1>8. CASE RejectSellAttempt(c)
  <2>1. CASE UNCHANGED <<sells, intents, position>>
    BY <1>8, <1>d, <2>1 DEF RejectSellAttempt
  <2>2. CASE ~UNCHANGED <<sells, intents, position>>
    <3>1. PICK i \in SellIds : i = MySell(c)
      BY <1>8, <1>f DEF RejectSellAttempt, At, WithoutSell
    <3>2. /\ sells[i].status \in {"reserved", "preparing", "submitting"}
          /\ sells' = [sells EXCEPT ![i].status = "rejected"]
          /\ intents' = [intents EXCEPT ![sells[i].gen] = "rejected"] /\ remaining' = remaining
      BY <1>8, <2>2, <3>1 DEF RejectSellAttempt
    <3>3. /\ sells'[i].gen = sells[i].gen /\ sells'[i].status = "rejected"
          /\ \A j \in SellIds \ {i} : sells'[j] = sells[j]
      BY <1>a, <3>2 DEF SellRow
    <3>4. Open(i) /\ ~Open(i)'
      BY <3>2, <3>3 DEF Open, OpenSell
    <3>5. remaining # 0
      BY <3>4, OneOpen
    <3> QED  BY <1>c, <3>2, <3>3, <3>4, <3>5, AttemptDecided DEF Retrying
  <2> QED  BY <2>1, <2>2
<1> QED  BY <1>1, <1>2, <1>3, <1>4, <1>5, <1>6, <1>7, <1>8 DEF CloserStep

LEMMA RetryDecisions ==
    ASSUME Rows, AttemptInv, DecisionInv, RetryStep, setting' = setting
    PROVE  DecisionInv'
<1>a. /\ closer \in [Closers -> CloserRow] /\ CloserSound(Worker) /\ Worker \in Closers
      /\ sells \in [SellIds -> SellRow] /\ intents \in [Gens -> IntentStatuses]
      /\ closer[Worker].step \in {"idle", "prepared", "failed"}
      /\ closer[Worker].step # "idle" =>
            closer[Worker].gen \in Gens /\ intents[closer[Worker].gen] = "retry_verifying"
  BY DEF Rows, Data, Closers, DecisionInv, CloserSound
(* an intent that waits for its retry is the only active one, no attempt   *)
(* is open, and the position is not                                        *)
<1>b. ASSUME NEW g \in Gens, intents[g] \in Retrying
      PROVE  /\ \A h \in Gens : intents[h] \in ActiveIntent => h = g
             /\ \A j \in SellIds : ~Open(j)
             /\ position \in {"closing", "close_uncertain"} /\ remaining # 0
  <2>1. \A h \in Gens : intents[h] \in ActiveIntent => h = g
    BY <1>b DEF AttemptInv, OneActive, Retrying, ActiveIntent
  <2>2. position \in {"closing", "close_uncertain"} /\ remaining # 0
    BY <1>b DEF DecisionInv, Rows, Data, PositionStatuses, Closable
  <2>3. \A j \in SellIds : ~Open(j)
    <3> SUFFICES ASSUME NEW j \in SellIds, Open(j) PROVE FALSE
      OBVIOUS
    <3>1. intents[sells[j].gen] \in Held /\ sells[j].gen \in Gens
      BY OneOpen
    <3> QED  BY <1>b, <2>1, <3>1 DEF Held
  <2> QED  BY <2>1, <2>2, <2>3
(* no attempt moves, only that one intent, the worker and the position     *)
<1>c. ASSUME NEW g \in Gens, intents[g] \in Retrying, NEW to, intents' = [intents EXCEPT ![g] = to],
             UNCHANGED <<sells, remaining>>,
             \/ to \in Retrying /\ position' = position
             \/ to \notin Retrying,
             closer'[Worker].step \in {"idle", "prepared", "failed"},
             closer'[Worker].step # "idle" => closer'[Worker].gen = g /\ to = "retry_verifying"
      PROVE  DecisionInv'
  <2>1. \A h \in Gens : intents'[h] = IF h = g THEN to ELSE intents[h]
    BY <1>a, <1>c
  <2>2. /\ \A j \in SellIds : ~Open(j)' /\ (Observed(j)' <=> Observed(j)) /\ sells'[j].gen = sells[j].gen
        /\ position \in {"closing", "close_uncertain"} /\ remaining # 0
    BY <1>b, <1>c DEF Open, Observed
  <2>3. \A h \in Gens : intents'[h] \in Retrying => to \in Retrying
    BY <1>b, <1>c, <2>1 DEF Retrying, ActiveIntent
  <2>4. position' \in Closable \cup {"closed"} => to \notin Retrying
    BY <1>c, <2>2 DEF Closable
  <2>5. \A j, k \in SellIds : Observed(j)' /\ Observed(k)' /\ sells'[j].gen = sells'[k].gen => j = k
    BY <2>2 DEF DecisionInv
  <2>6. closer'[Worker].step # "idle" => intents'[closer'[Worker].gen] = "retry_verifying"
    BY <1>c, <2>1
  <2> QED  BY <1>c, <2>2, <2>3, <2>4, <2>5, <2>6 DEF DecisionInv
<1>1. ASSUME NEW g \in Gens, ClaimRetry(g) PROVE DecisionInv'
  <2>1. /\ closer' = [closer EXCEPT ![Worker].step = "prepared", ![Worker].gen = g]
        /\ intents' = [intents EXCEPT ![g] = "retry_verifying"] /\ intents[g] = "retry_scheduled"
        /\ UNCHANGED <<sells, remaining, position>>
    BY <1>1 DEF ClaimRetry
  <2>2. closer'[Worker].step = "prepared" /\ closer'[Worker].gen = g
    BY <1>a, <2>1 DEF CloserRow
  <2> QED  BY <1>c, <2>1, <2>2 DEF Retrying
<1>2. ASSUME NEW g \in Gens, RestoreAbandonedClaim(g) PROVE DecisionInv'
  BY <1>2, <1>c DEF RestoreAbandonedClaim, Retrying, At
<1>3. ASSUME NEW g \in Gens, ExpireScheduledRetry(g) PROVE DecisionInv'
  BY <1>3, <1>c DEF ExpireScheduledRetry, Retrying, At
<1>4. CASE BuildRetry
  <2>1. PICK g \in Gens : g = closer[Worker].gen /\ intents[g] = "retry_verifying"
    BY <1>4, <1>a DEF BuildRetry, At
  <2>2. position \notin Closable
    BY <1>b, <2>1 DEF Retrying, Closable
  <2>3. Goto(Worker, "failed") /\ UNCHANGED <<position, remaining, sells, intents>>
    BY <1>4, <2>2 DEF BuildRetry, Buildable, rows
  <2>4. closer'[Worker].step = "failed" /\ closer'[Worker].gen = g
    BY <1>a, <2>1, <2>3 DEF Goto, CloserRow
  <2>5. intents' = [intents EXCEPT ![g] = "retry_verifying"]
    BY <1>a, <2>1, <2>3
  <2> QED  BY <1>c, <2>1, <2>3, <2>4, <2>5 DEF Retrying
<1>5. CASE CreateRetryAttempt
  BY <1>5, <1>a DEF CreateRetryAttempt, At
<1>6. CASE ResolveHandlerFailure
  <2>1. PICK g \in Gens : g = closer[Worker].gen /\ intents[g] = "retry_verifying"
    BY <1>6, <1>a DEF ResolveHandlerFailure, At
  <2>2. intents' = [intents EXCEPT ![g] = "rejected"] /\ UNCHANGED <<position, remaining, sells>>
    BY <1>6, <2>1 DEF ResolveHandlerFailure, IntentMoved
  <2>3. closer'[Worker].step = "idle"
    BY <1>6, <1>a DEF ResolveHandlerFailure, Abandon, IdleCloser
  <2> QED  BY <1>c, <2>1, <2>2, <2>3 DEF Retrying
<1>7. CASE RecoverStaleSubmission
  <2>1. PICK i \in SellIds : i = lane.owner
    BY <1>7, LaneMoves, CloseBoundsAssumption DEF RecoverStaleSubmission, Rows, Data, SellIds
  <2>2. UNCHANGED <<position, remaining, closer>>
    BY <1>7 DEF RecoverStaleSubmission
  <2>3. CASE UNCHANGED <<sells, intents>>
    BY <2>2, <2>3, NothingDecided DEF Open, Observed
  <2>4. CASE ~UNCHANGED <<sells, intents>>
    <3>1. /\ sells[i].status \in {"reserved", "preparing", "submitting", "submission_uncertain"}
          /\ sells' = [sells EXCEPT ![i].status = "submission_uncertain", ![i].code = "stale"]
          /\ intents' = intents \/ intents' = [intents EXCEPT ![sells[i].gen] = "uncertain"]
      BY <1>7, <2>1, <2>4 DEF RecoverStaleSubmission
    <3>2. Open(i) /\ Observed(i) /\ "uncertain" \in Held
      BY <3>1 DEF Open, Observed, OpenSell, Held, ActiveIntent, Retrying
    <3>3. sells'[i].gen = sells[i].gen /\ \A j \in SellIds \ {i} : sells'[j] = sells[j]
      BY <1>a, <3>1 DEF SellRow
    <3>4. \A g \in Gens : intents'[g] = intents[g] \/ {intents[g], intents'[g]} \subseteq Held
      BY <3>1, <3>2, StillHeld
    <3> QED  BY <2>2, <3>2, <3>3, <3>4, NothingDecided DEF Open, Observed
  <2> QED  BY <2>3, <2>4
<1>8. ASSUME NEW i \in SellIds, RecoverStalePreSubmit(i) PROVE DecisionInv'
  <2>1. /\ sells[i].status \in {"reserved", "preparing"}
        /\ sells' = [sells EXCEPT ![i].status = "superseded"]
        /\ intents' = [intents EXCEPT ![sells[i].gen] = "cancelled"]
        /\ UNCHANGED <<remaining, closer>>
    BY <1>8 DEF RecoverStalePreSubmit
  <2>2. /\ sells'[i].gen = sells[i].gen /\ sells'[i].status = "superseded"
        /\ \A j \in SellIds \ {i} : sells'[j] = sells[j]
    BY <1>a, <2>1 DEF SellRow
  <2>3. Open(i) /\ ~Open(i)'
    BY <2>1, <2>2 DEF Open, OpenSell
  <2>4. remaining # 0
    BY <2>3, OneOpen
  <2> QED  BY <2>1, <2>2, <2>3, <2>4, AttemptDecided DEF Retrying
<1> QED  BY <1>1, <1>2, <1>3, <1>4, <1>5, <1>6, <1>7, <1>8 DEF RetryStep

(* The sale that is booked is the open attempt's, and the first of its     *)
(* close.                                                                  *)
LEMMA BookedOnce ==
    ASSUME Rows, AttemptInv, DecisionInv, ~MistakenProof, NEW i \in SellIds, FinalizeConfirmedSell(i)
    PROVE  Open(i) /\ BookLots(i)
<1>1. SellSound(i) /\ sells[i].order = "chain_verifying" /\ chain[sells[i].tx] = "sold"
  BY DEF FinalizeConfirmedSell, OutcomeOf, AttemptInv
<1>2. ~sells[i].proven
  <2> SUFFICES ASSUME sells[i].proven PROVE FALSE
    OBVIOUS
  <2>1. sells[i].origin = "close" /\ sells[i].status # "none"
    BY <1>1 DEF SellSound
  <2>2. sells[i].tx = i
    BY <1>1, <2>1 DEF SellSound
  <2> QED  BY <1>1, <2>2 DEF MistakenProof
<1>3. Open(i)
  BY <1>1, <1>2 DEF SellSound, Open, OpenSell, Ordered
<1>4. ~ConfirmedEarlier(i)
  <2> SUFFICES ASSUME NEW j \in SellsOf(sells[i].gen) \ {i} PROVE FALSE
    BY DEF ConfirmedEarlier
  <2>1. j \in SellIds /\ Observed(j) /\ sells[j].gen = sells[i].gen
    BY DEF SellsOf, Observed
  <2> QED  BY <1>3, <2>1, OneOpen
<1> QED  BY <1>3, <1>4 DEF FinalizeConfirmedSell

LEMMA OrderDecisions ==
    ASSUME Rows, AttemptInv, DecisionInv, ~MistakenProof,
           NEW i \in SellIds, OrderStep(i), setting' = setting
    PROVE  DecisionInv'
<1>a. /\ sells \in [SellIds -> SellRow] /\ sells[i] \in SellRow /\ SellSound(i)
      /\ intents \in [Gens -> IntentStatuses] /\ sells[i].gen \in Gens
  BY DEF Rows, Data, AttemptInv, SellRow
<1>b. UNCHANGED <<closer, rec, chain>>
  BY DEF OrderStep, ObserveConfirmed, ObservePending, ObserveFailure, VerdictFailed, VerdictUncertain,
         ReceiptContradicts, FinalizeConfirmedSell, EscalateUncertain, ReconcileCancelledClose, world
(* only the order of the attempt moves *)
<1>c. ASSUME NEW order, sells' = [sells EXCEPT ![i].order = order],
             UNCHANGED <<position, remaining, intents>>
      PROVE  DecisionInv'
  <2>1. \A j \in SellIds : sells'[j].gen = sells[j].gen /\ sells'[j].status = sells[j].status
    BY <1>a, <1>c DEF SellRow
  <2> QED  BY <1>b, <1>c, <2>1, NothingDecided DEF Open, Observed
(* the attempt stays open *)
<1>d. ASSUME Open(i), UNCHANGED <<position, remaining>>,
             \A j \in SellIds \ {i} : sells'[j] = sells[j], sells'[i].gen = sells[i].gen, NEW from,
             \/ intents' = intents
             \/ intents' = [intents EXCEPT ![sells[i].gen] = "uncertain"]
             \/ intents' = IntentMoved(sells[i].gen, from, "uncertain")
      PROVE  DecisionInv'
  <2>1. Observed(i) /\ "uncertain" \in Held
    BY <1>d DEF Open, Observed, OpenSell, Held, ActiveIntent, Retrying
  <2>2. \A g \in Gens : intents'[g] = intents[g] \/ {intents[g], intents'[g]} \subseteq Held
    BY <1>d, <2>1, StillHeld
  <2> QED  BY <1>b, <1>d, <2>1, <2>2, NothingDecided DEF Open, Observed
(* an attempt whose order is verified is open *)
<1>e. sells[i].order = "failure_verifying" => Open(i)
  BY <1>a DEF SellSound, Open, OpenSell, Ordered
<1>1. CASE ObserveConfirmed(i)
  BY <1>1, <1>c DEF ObserveConfirmed
<1>2. CASE ObservePending(i)
  BY <1>2, <1>c DEF ObservePending
<1>3. ASSUME NEW withHash \in BOOLEAN, ObserveFailure(i, withHash) PROVE DecisionInv'
  <2>1. PICK st : /\ sells' = [sells EXCEPT ![i].order = "failure_verifying", ![i].status = st]
                  /\ \/ st = sells[i].status
                     \/ st = "failure_verifying" /\ sells[i].status \in {"submitted", "reconciliation_required"}
                  /\ UNCHANGED <<position, remaining, intents>>
    BY <1>3, <1>a DEF ObserveFailure, SellRow
  <2>2. /\ sells'[i].gen = sells[i].gen /\ sells'[i].status = st
        /\ \A j \in SellIds \ {i} : sells'[j] = sells[j]
    BY <1>a, <2>1 DEF SellRow
  <2>3. CASE st = sells[i].status
    BY <1>b, <2>1, <2>2, <2>3, NothingDecided DEF Open, Observed
  <2>4. CASE st # sells[i].status
    <3>1. Open(i)
      BY <2>1, <2>4 DEF Open, OpenSell
    <3> QED  BY <1>d, <2>1, <2>2, <3>1
  <2> QED  BY <2>3, <2>4
<1>4. CASE VerdictFailed(i)
  <2>1. PICK retry \in {RetriesLeft(sells[i].gen), FALSE} : ProveFailed(i, retry)
    BY <1>4 DEF VerdictFailed
  <2>2. Open(i) /\ remaining' = remaining
    BY <1>4, <1>e DEF VerdictFailed
  <2>3. PICK to : /\ to = IF retry THEN "retry_scheduled" ELSE "exhausted"
                  /\ intents' = [intents EXCEPT ![sells[i].gen] = to]
    BY <2>1 DEF ProveFailed
  <2>4. /\ sells'[i].gen = sells[i].gen /\ sells'[i].status = "definitive_failed_no_fill"
        /\ \A j \in SellIds \ {i} : sells'[j] = sells[j]
    BY <1>a, <2>1 DEF ProveFailed, SellRow
  <2>5. ~Open(i)'
    BY <2>4 DEF Open, OpenSell
  <2>6. position \in {"closing", "close_uncertain"} /\ remaining # 0
    BY <2>2, OneOpen
  <2>7. to \in Retrying => position' \in {"closing", "close_uncertain"}
    BY <2>1, <2>3, <2>6 DEF ProveFailed, Retrying
  <2>8. closer'[Worker] = closer[Worker]
    BY <1>b
  <2> QED  BY <2>2, <2>3, <2>4, <2>5, <2>6, <2>7, <2>8, AttemptDecided
<1>5. CASE VerdictUncertain(i)
  <2>1. PICK st : sells' = [sells EXCEPT ![i].status = st]
    BY <1>5 DEF VerdictUncertain
  <2>2. sells'[i].gen = sells[i].gen /\ \A j \in SellIds \ {i} : sells'[j] = sells[j]
    BY <1>a, <2>1 DEF SellRow
  <2>3. /\ Open(i) /\ UNCHANGED <<position, remaining>>
        /\ intents' = intents \/ intents' = [intents EXCEPT ![sells[i].gen] = "uncertain"]
    BY <1>5, <1>e DEF VerdictUncertain
  <2> QED  BY <1>d, <2>2, <2>3
<1>6. CASE ReceiptContradicts(i)
  <2>1. /\ sells' = [sells EXCEPT ![i].status = "reconciliation_required"]
        /\ intents' = IntentMoved(sells[i].gen, ActiveIntent \ {"retry_scheduled"}, "uncertain")
        /\ Open(i) /\ UNCHANGED <<position, remaining>>
    BY <1>6 DEF ReceiptContradicts, Open, OpenSell
  <2>2. sells'[i].gen = sells[i].gen /\ \A j \in SellIds \ {i} : sells'[j] = sells[j]
    BY <1>a, <2>1 DEF SellRow
  <2> QED  BY <1>d, <2>1, <2>2
<1>7. CASE FinalizeConfirmedSell(i)
  <2>3. Open(i) /\ BookLots(i)
    BY <1>7, BookedOnce
  <2>5. sells[i].amount \in Nat /\ remaining \in Nat
    BY <1>a, AmountsAssumption DEF SellRow, Rows, Data
  <2>6. /\ sells'[i].gen = sells[i].gen /\ sells'[i].status = "confirmed"
        /\ \A j \in SellIds \ {i} : sells'[j] = sells[j]
    BY <1>a, <2>3 DEF BookLots, SellRow
  <2>7. ~Open(i)'
    BY <2>6 DEF Open, OpenSell
  <2>8. remaining' = 0 => position' = "closed"
    BY <2>3, <2>5 DEF BookLots
  <2>9. intents' = [intents EXCEPT ![sells[i].gen] = "confirmed"] /\ closer'[Worker] = closer[Worker]
    BY <1>b, <2>3 DEF BookLots
  <2> QED  BY <2>3, <2>6, <2>7, <2>8, <2>9, AttemptDecided DEF Retrying
<1>8. CASE EscalateUncertain(i)
  <2>1. /\ sells' = [sells EXCEPT ![i].status = "reconciliation_required"]
        /\ intents' = IntentMoved(sells[i].gen, ActiveIntent \ {"retry_scheduled"}, "uncertain")
        /\ Open(i) /\ UNCHANGED <<position, remaining>>
    BY <1>8 DEF EscalateUncertain, Open, OpenSell
  <2>2. sells'[i].gen = sells[i].gen /\ \A j \in SellIds \ {i} : sells'[j] = sells[j]
    BY <1>a, <2>1 DEF SellRow
  <2> QED  BY <1>d, <2>1, <2>2
<1>9. CASE ReconcileCancelledClose(i)
  <2>1. /\ sells' = [sells EXCEPT ![i].status = "rejected"] /\ intents' = intents
        /\ Open(i) /\ remaining' = remaining /\ remaining # 0
    BY <1>9 DEF ReconcileCancelledClose, CloseWasCancelled, Open, OpenSell
  <2>2. /\ sells'[i].gen = sells[i].gen /\ sells'[i].status = "rejected"
        /\ \A j \in SellIds \ {i} : sells'[j] = sells[j]
    BY <1>a, <2>1 DEF SellRow
  <2>3. PICK to : /\ to = intents[sells[i].gen] /\ to \in Held
                  /\ intents' = [intents EXCEPT ![sells[i].gen] = to]
    BY <1>a, <2>1, OneOpen
  <2>4. ~Open(i)' /\ to \notin Retrying /\ closer'[Worker] = closer[Worker]
    BY <1>b, <2>2, <2>3 DEF Open, OpenSell, Held
  <2> QED  BY <2>1, <2>2, <2>3, <2>4, AttemptDecided
<1> QED  BY <1>1, <1>2, <1>3, <1>4, <1>5, <1>6, <1>7, <1>8, <1>9 DEF OrderStep

LEMMA ReconcilerDecisions ==
    ASSUME Rows, StrategyInv, AttemptInv, DecisionInv, setting' = setting,
           \/ FetchStrategy \/ PersistStrategy \/ ClaimStrategyClose
           \/ ReadBalance \/ JudgeBalance \/ ClaimExternalClose
    PROVE  DecisionInv'
<1>a. sells \in [SellIds -> SellRow] /\ remaining \in Nat /\ remaining <= Opened /\ Opened # 0
  BY AmountsAssumption DEF Rows, Data
<1>b. UNCHANGED <<closer, remaining>>
  BY DEF FetchStrategy, PersistStrategy, ClaimStrategyClose, ReadBalance, JudgeBalance, rows,
         MarkPositionBalanceMismatch, ClaimExternalClose
<1>c. ASSUME UNCHANGED <<sells, intents>>,
             \/ position' = position \/ {position, position'} \subseteq Closable
             \/ position' \in {"closing", "close_uncertain"} /\ remaining # 0
      PROVE  DecisionInv'
  BY <1>b, <1>c, NothingDecided DEF Open, Observed
<1>d. position \in Closable => remaining # 0
  BY DEF DecisionInv, Closable
<1>e. ASSUME NEW i \in SellIds, NEW row, Observe(i, row), row \in SellRow, ~Observed(i), remaining # 0
      PROVE  DecisionInv'
  <2>1. PICK g \in Gens : /\ intents[g] = "none" /\ intents' = [intents EXCEPT ![g] = "awaiting_result"]
                          /\ sells' = [sells EXCEPT ![i] = [row EXCEPT !.status = "confirming", !.gen = g,
                                                                       !.order = "chain_verifying"]]
    <3>1. Min(FreeGens) \in Gens /\ intents[Min(FreeGens)] = "none"
      BY <1>e, FreshOnes DEF Observe, FreeGens, Gens
    <3> QED  BY <1>e, <3>1 DEF Observe
  <2>2. sells'[i].gen = g /\ \A j \in SellIds \ {i} : sells'[j] = sells[j]
    BY <1>a, <1>e, <2>1 DEF SellRow
  <2>3. ~ScopeTaken /\ position' = "closing" /\ "awaiting_result" \in Held
    BY <1>e DEF Observe, Held, ActiveIntent, Retrying
  <2> QED  BY <1>b, <1>e, <2>1, <2>2, <2>3, AttemptBegun
<1>1. CASE FetchStrategy \/ ReadBalance
  BY <1>1, <1>c DEF FetchStrategy, ReadBalance, rows
<1>2. CASE PersistStrategy
  BY <1>2, <1>c DEF PersistStrategy, Closable
<1>3. CASE JudgeBalance
  BY <1>3, <1>c, <1>d DEF JudgeBalance, MarkPositionBalanceMismatch
<1>4. CASE ClaimStrategyClose
  <2>1. PICK i \in SellIds : sells[i].origin = "strategy" /\
           \/ UNCHANGED <<position, sells, intents>>
           \/ sells[i].status = "unseen" /\ Observe(i, sells[i])
           \/ /\ intents' = intents /\ ActiveSells # {} /\ position' = "close_uncertain"
              /\ sells' = IF sells[Max(ActiveSells)].status \in {"reserved", "preparing"}
                          THEN [sells EXCEPT ![Max(ActiveSells)].status = "reconciliation_required",
                                             ![Max(ActiveSells)].code = "triggered"]
                          ELSE sells
    BY <1>4 DEF ClaimStrategyClose, SalesOf
  <2>2. CASE sells[i].status = "unseen" /\ Observe(i, sells[i])
    <3>1. remaining # 0 /\ ~Observed(i)
      BY <1>a, <2>1, <2>2, AmountsAssumption DEF StrategyInv, NoSaleToCome, StrategySale, Observed
    <3> QED  BY <1>a, <1>e, <2>2, <3>1
  <2>3. CASE /\ intents' = intents /\ ActiveSells # {} /\ position' = "close_uncertain"
             /\ sells' = IF sells[Max(ActiveSells)].status \in {"reserved", "preparing"}
                         THEN [sells EXCEPT ![Max(ActiveSells)].status = "reconciliation_required",
                                            ![Max(ActiveSells)].code = "triggered"]
                         ELSE sells
    <3>1. PICK k \in ActiveSells : k = Max(ActiveSells)
      BY <2>3, GreatestOf DEF ActiveSells
    <3>2. k \in SellIds /\ Open(k) /\ Observed(k)
      BY <3>1 DEF ActiveSells, ActiveSell, Open, OpenSell, Observed
    <3>3. remaining # 0
      BY <3>2, OneOpen
    <3>4. CASE sells' = sells
      BY <1>c, <2>3, <3>3, <3>4
    <3>5. CASE sells' = [sells EXCEPT ![k].status = "reconciliation_required", ![k].code = "triggered"]
      <4>1. sells'[k].gen = sells[k].gen /\ \A j \in SellIds \ {k} : sells'[j] = sells[j]
        BY <1>a, <3>2, <3>5 DEF SellRow
      <4> QED  BY <1>b, <2>3, <3>2, <3>3, <4>1, NothingDecided DEF Open, Observed
    <3> QED  BY <2>3, <3>1, <3>4, <3>5
  <2> QED  BY <1>c, <2>1, <2>2, <2>3
<1>5. CASE ClaimExternalClose
  <2>1. CASE UNCHANGED <<position, sells, intents>>
    BY <1>c, <2>1
  <2>2. CASE ~UNCHANGED <<position, sells, intents>>
    <3>1. PICK t \in SellIds : t = rec.sale
      BY <1>5 DEF ClaimExternalClose, Rows, RecTyped
    <3>2. PICK slots \in SUBSET SellIds : /\ slots = IF sells[t].status = "unseen" THEN {t} ELSE FreeSells
                                          /\ slots # {} /\ rec.amount <= remaining
                                          /\ Observe(Min(slots), [NoSell EXCEPT !.origin = "external",
                                                                   !.tx = t, !.amount = rec.amount])
      <4>1. FreeSells \subseteq SellIds /\ rec.amount \in Nat
        BY <1>5, FreshOnes DEF ClaimExternalClose, Rows, RecTyped
      <4> QED  BY <1>5, <1>a, <2>2, <3>1, <4>1 DEF ClaimExternalClose
    <3>3. PICK i \in slots : i = Min(slots)
      BY <3>2, LeastOf
    <3>4. rec.amount \in Nat \ {0} /\ 1 \in Gens
      BY <1>5, CloseBoundsAssumption DEF ClaimExternalClose, Rows, RecTyped, Gens, SellIds
    <3>5. [NoSell EXCEPT !.origin = "external", !.tx = t, !.amount = rec.amount] \in SellRow
      BY <3>1, <3>4 DEF NoSell, SellRow, Origins, SellStatuses, OrderStatuses, ErrorCodes
    <3>6. i \in SellIds /\ ~Observed(i) /\ remaining # 0
      BY <1>a, <3>2, <3>3, <3>4 DEF FreeSells, Observed
    <3> QED  BY <1>e, <3>2, <3>3, <3>5, <3>6
  <2> QED  BY <2>1, <2>2
<1> QED  BY <1>1, <1>2, <1>3, <1>4, <1>5

LEMMA EnvironmentDecisions ==
    ASSUME Rows, DecisionInv, EnvironmentStep, setting' = setting
    PROVE  DecisionInv'
<1>a. /\ sells \in [SellIds -> SellRow]
      /\ UNCHANGED <<position, remaining, intents>>
      /\ closer'[Worker].step = "idle" \/ closer'[Worker] = closer[Worker]
  BY DEF EnvironmentStep, SwapLands, StrategyTriggers, StrategyFails, OwnerSells, OwnerTransfers,
         Crash, rows, IdleCloser, Closers, Rows, Data
<1>1. ASSUME NEW origin, NEW amount, SaleAppears(origin, amount) PROVE DecisionInv'
  <2>1. PICK i \in FreeSells : i = Max(FreeSells)
    BY <1>1, FreshOnes DEF SaleAppears
  <2>2. i \in SellIds /\ sells' = [sells EXCEPT ![i] = [NoSell EXCEPT !.origin = origin, !.status = "unseen",
                                                                      !.amount = amount, !.tx = i]]
    BY <1>1, <2>1, FreshOnes DEF SaleAppears
  <2>3. sells'[i].status = "unseen" /\ \A j \in SellIds \ {i} : sells'[j] = sells[j]
    BY <1>a, <2>2 DEF NoSell
  <2> QED  BY <1>a, <2>3, NothingDecided DEF Open, Observed, OpenSell
<1>2. CASE sells' = sells
  BY <1>a, <1>2, NothingDecided DEF Open, Observed
<1> QED  BY <1>1, <1>2 DEF EnvironmentStep, SwapLands, StrategyTriggers, StrategyFails, OwnerSells,
         OwnerTransfers, Crash, rows

LEMMA DecisionInit == ASSUME Init PROVE DecisionInv
BY AmountsAssumption DEF Init, DecisionInv, NoSell, Observed, Open, OpenSell, IdleCloser, Closers, Retrying

LEMMA DecisionKept ==
    ASSUME Rows, StrategyInv, AttemptInv, DecisionInv, ~MistakenProof, [Next]_<<vars, setting>>
    PROVE  DecisionInv'
<1>1. CASE Next
  BY <1>1, CloserDecisions, RetryDecisions, OrderDecisions, ReconcilerDecisions, EnvironmentDecisions
     DEF Next, ReconcileStep
<1>2. CASE UNCHANGED <<vars, setting>>
  BY <1>2, NothingDecided DEF vars, rows, world, Open, Observed
<1> QED  BY <1>1, <1>2

CloseInv ==
    /\ Rows /\ StrategyInv /\ AttemptInv
    /\ MistakenProof \/ DecisionInv

LEMMA CloseInit == ASSUME Init PROVE CloseInv
BY RowsInit, StrategyInit, AttemptInit, DecisionInit DEF CloseInv

LEMMA CloseKept == ASSUME CloseInv, [Next]_<<vars, setting>> PROVE CloseInv'
<1>1. Rows' /\ StrategyInv' /\ AttemptInv' /\ Recorded
  BY RowsKept, StrategyKept, AttemptKept DEF CloseInv, AttemptsGoOn
<1>2. MistakenProof => MistakenProof'
  BY <1>1, MistakenStays DEF CloseInv
<1>3. ~MistakenProof => DecisionInv'
  BY DecisionKept DEF CloseInv
<1> QED  BY <1>1, <1>2, <1>3 DEF CloseInv

(* A sale in flight whose failure is not proved is an open attempt's. *)
LEMMA InFlightOpen ==
    ASSUME Rows, AttemptInv, NEW i \in SellIds, chain[i] = "sent", ~sells[i].proven
    PROVE  Open(i)
<1>1. SellSound(i) /\ sells[i] \in SellRow
  BY DEF AttemptInv, Rows, Data
<1>2. sells[i].status \notin Unsent \cup {"unseen", "definitive_failed_no_fill"}
  BY <1>1 DEF SellSound
<1>3. sells[i].status # "confirmed"
  BY <1>1, <1>2 DEF SellSound, Unsent
<1> QED  BY <1>1, <1>2, <1>3 DEF SellRow, SellStatuses, ActiveSell, Unsent, Open, OpenSell

(* A position that shows as open has lots left, and no close swap of it is *)
(* in flight (rejectSellAttempt, recoverStalePreSubmitAttempts,            *)
(* resolveCancelledCloseAttempt, scheduleAfterDefinitiveFailure and        *)
(* finalizeConfirmedSellOrder are what opens it), as long as no proof of a *)
(* failure was mistaken.                                                   *)
THEOREM OpenDecided == Spec => []OpenMeansDecided
<1>1. CloseInv => OpenMeansDecided
  <2> SUFFICES ASSUME CloseInv, ~MistakenProof, position \in Closable
               PROVE  remaining > 0 /\ \A i \in SellIds : chain[i] = "sent" => sells[i].proven
    BY DEF OpenMeansDecided
  <2>1. remaining \in Nat /\ remaining # 0
    BY AmountsAssumption DEF CloseInv, DecisionInv, Rows, Data, Closable
  <2>2. ASSUME NEW i \in SellIds, chain[i] = "sent", ~sells[i].proven PROVE FALSE
    <3>1. Open(i)
      BY <2>2, InFlightOpen DEF CloseInv
    <3> QED  BY <3>1, OneOpen DEF CloseInv, Closable
  <2> QED  BY <2>1, <2>2
<1>2. Init => CloseInv
  BY CloseInit
<1>3. CloseInv /\ [Next]_<<vars, setting>> => CloseInv'
  BY CloseKept
<1> QED  BY <1>1, <1>2, <1>3, PTL DEF Spec

(* A close swap is sent only when every earlier one has landed or its      *)
(* failure was proved: the attempt that sends it is the one open attempt   *)
(* of the position (createSellAttempt under uq_trade_intents_active_scope, *)
(* beginSubmission's compare-and-swap), across requests, the retry worker, *)
(* crashes and lost answers.                                               *)
THEOREM SwapDecided == Spec => SwapAfterSwapDecided
<1>1. Init => CloseInv
  BY CloseInit
<1>2. CloseInv /\ [Next]_<<vars, setting>> => CloseInv'
  BY CloseKept
<1>3. CloseInv /\ [Next]_<<vars, setting>>
      => [\A i, j \in SellIds :
             /\ ~MistakenProof /\ chain[i] = "none" /\ chain'[i] = "sent"
             /\ j # i /\ chain[j] = "sent"
             => sells[j].proven]_vars
  <2> SUFFICES ASSUME CloseInv, [Next]_<<vars, setting>>, NEW i \in SellIds, NEW j \in SellIds, vars' # vars,
                      ~MistakenProof, chain[i] = "none", chain'[i] = "sent", j # i,
                      chain[j] = "sent", ~sells[j].proven
               PROVE  FALSE
    OBVIOUS
  <2>1. Next
    BY DEF vars
  <2>2. PICK c \in Closers : At(c, "swap") /\ MySell(c) = i
    BY <2>1, SentByCloser DEF CloseInv
  <2>3. sells[i].status = "submitting"
    BY <2>2 DEF CloseInv, AttemptInv, WriterSound, At, MySell
  <2>4. Open(i) /\ Open(j)
    BY <2>3, InFlightOpen DEF CloseInv, Open, OpenSell
  <2> QED  BY <2>4, OneOpen DEF CloseInv
<1> QED  BY <1>1, <1>2, <1>3, PTL DEF Spec, SwapAfterSwapDecided

-----------------------------------------------------------------------------
(* Amounts. *)

LEMMA SoldType ==
    ASSUME Rows, NEW CONSTANT origins
    PROVE  /\ IsFiniteSet(Sold(origins)) /\ Sold(origins) \subseteq SellIds
           /\ \A i \in SellIds : Amounts[i] = sells[i].amount /\ Amounts[i] \in Nat
           /\ SoldBy(origins) = Total(Amounts, Sold(origins)) /\ SoldBy(origins) \in Nat
<1>1. IsFiniteSet(Sold(origins)) /\ Sold(origins) \subseteq SellIds
  BY SellsFinite DEF Sold
<1>2. \A i \in SellIds : Amounts[i] = sells[i].amount /\ Amounts[i] \in Nat
  BY DEF Amounts, Rows, Data, SellRow
<1>3. SoldBy(origins) = Total(Amounts, Sold(origins))
  BY DEF SoldBy, Sold
<1>4. Total(Amounts, Sold(origins)) \in Nat
  BY <1>1, <1>2, TotalWithout
<1> QED  BY <1>1, <1>2, <1>3, <1>4

(* At most sale k is new: what is sold grows by its amount at most, and    *)
(* not at all if there is none.                                            *)
LEMMA SoldOneMore ==
    ASSUME Rows, Rows', NEW CONSTANT origins, NEW k,
           \A i \in SellIds \ {k} : chain'[i] = "sold" /\ sells'[i].origin \in origins
              => chain[i] = "sold" /\ sells[i].origin \in origins /\ sells'[i].amount = sells[i].amount
    PROVE  /\ k \in SellIds => SoldBy(origins)' <= SoldBy(origins) + sells'[k].amount
           /\ k \notin SellIds => SoldBy(origins)' <= SoldBy(origins)
           /\ SoldBy(origins)' \in Nat
<1>1. PICK f, g, S, T :
        /\ f = Amounts /\ g = Amounts' /\ T = Sold(origins) /\ S = Sold(origins)'
        /\ SoldBy(origins) = Total(f, T) /\ SoldBy(origins)' = Total(g, S)
        /\ IsFiniteSet(S) /\ IsFiniteSet(T) /\ S \subseteq SellIds /\ T \subseteq SellIds
        /\ \A i \in SellIds : f[i] = sells[i].amount /\ g[i] = sells'[i].amount /\ f[i] \in Nat /\ g[i] \in Nat
  <2>1. /\ IsFiniteSet(Sold(origins)) /\ Sold(origins) \subseteq SellIds
        /\ \A i \in SellIds : Amounts[i] = sells[i].amount /\ Amounts[i] \in Nat
        /\ SoldBy(origins) = Total(Amounts, Sold(origins))
    BY SoldType
  <2>2. /\ IsFiniteSet(Sold(origins)') /\ Sold(origins)' \subseteq SellIds
        /\ \A i \in SellIds : (Amounts')[i] = sells'[i].amount /\ (Amounts')[i] \in Nat
        /\ SoldBy(origins)' = Total(Amounts', Sold(origins)')
    <3>1. /\ IsFiniteSet(Sold(origins)') /\ Sold(origins)' \subseteq SellIds
      BY SellsFinite DEF Sold
    <3>2. \A i \in SellIds : (Amounts')[i] = sells'[i].amount /\ (Amounts')[i] \in Nat
      BY DEF Amounts, Rows, Data, SellRow
    <3>3. SoldBy(origins)' = Total(Amounts', Sold(origins)')
      BY DEF SoldBy, Sold
    <3> QED  BY <3>1, <3>2, <3>3
  <2> QED  BY <2>1, <2>2
<1>2. ASSUME NEW U \in SUBSET S, k \notin U PROVE Total(g, U) <= Total(f, T)
  <2>1. U \subseteq T /\ \A i \in U : f[i] \in Nat /\ g[i] = f[i]
    BY <1>1, <1>2 DEF Sold
  <2>2. IsFiniteSet(U)
    BY <1>1, FS_Subset
  <2>3. Total(g, U) = Total(f, U)
    BY <2>1, <2>2, TotalOfSame
  <2>4. Total(f, U) <= Total(f, T)
    BY <1>1, <2>1, TotalOfFewer
  <2> QED  BY <2>3, <2>4
<1>3. /\ Total(f, T) \in Nat /\ Total(g, S) \in Nat
      /\ k \in SellIds => g[k] = sells'[k].amount /\ g[k] \in Nat
  <2>1. \A i \in S : g[i] \in Nat
    BY <1>1
  <2>2. \A i \in T : f[i] \in Nat
    BY <1>1
  <2>3. Total(f, T) \in Nat
    BY <1>1, <2>2, TotalWithout
  <2>4. Total(g, S) \in Nat
    BY <1>1, <2>1, TotalWithout
  <2> QED  BY <1>1, <2>3, <2>4
<1>4. CASE k \notin S
  <2>1. Total(g, S) <= Total(f, T)
    BY <1>2, <1>4
  <2> QED  BY <1>1, <1>3, <2>1
<1>5. CASE k \in S
  <2>1. Total(g, S) = g[k] + Total(g, S \ {k})
    <3>1. IsFiniteSet(S) /\ \A i \in S : g[i] \in Nat
      BY <1>1
    <3>2. \A i \in S : Total(g, S) = g[i] + Total(g, S \ {i})
      BY <3>1, TotalWithout
    <3> QED  BY <1>5, <3>2
  <2>2. Total(g, S \ {k}) <= Total(f, T)
    BY <1>2
  <2>3. Total(g, S \ {k}) \in Nat
    <3>1. IsFiniteSet(S \ {k}) /\ \A i \in S \ {k} : g[i] \in Nat
      BY <1>1, FS_Subset
    <3> QED  BY <3>1, TotalWithout
  <2>4. k \in SellIds
    BY <1>1, <1>5
  <2> QED  BY <1>1, <1>3, <2>1, <2>2, <2>3, <2>4
<1> QED  BY <1>4, <1>5

LEMMA SoldNoMore ==
    ASSUME Rows, Rows', NEW CONSTANT origins,
           \A i \in SellIds : chain'[i] = "sold" /\ sells'[i].origin \in origins
              => chain[i] = "sold" /\ sells[i].origin \in origins /\ sells'[i].amount = sells[i].amount
    PROVE  SoldBy(origins)' <= SoldBy(origins) /\ SoldBy(origins)' \in Nat
<1>1. 0 \notin SellIds
  BY CloseBoundsAssumption DEF SellIds
<1> QED  BY <1>1, SoldOneMore

(* What is counted as booked changes only where a sale is booked, and so   *)
(* do the lots.                                                            *)
LEMMA NewlyBooked ==
    ASSUME Rows, AttemptInv, Next, \A i \in SellIds : ~FinalizeConfirmedSell(i)
    PROVE  /\ remaining' = remaining
           /\ \A i \in SellIds : sells'[i].status = "confirmed" => sells[i].status = "confirmed"
<1>a. sells \in [SellIds -> SellRow]
  BY DEF Rows, Data
<1>b. ASSUME NEW i \in SellIds, sells'[i] = sells[i]
      PROVE  sells'[i].status = "confirmed" => sells[i].status = "confirmed"
  BY <1>b
<1>d. ASSUME NEW i \in SellIds, NEW k, NEW g, NEW amount,
             sells' = [sells EXCEPT ![k] = [NoSell EXCEPT !.status = "reserved", !.gen = g, !.tx = k,
                                                          !.amount = amount]]
      PROVE  sells'[i].status = "confirmed" => sells[i].status = "confirmed"
  BY <1>a, <1>d DEF NoSell
(* an observed sale is confirming *)
<1>e. ASSUME NEW i \in SellIds, NEW k, NEW row, Observe(k, row), row \in SellRow
      PROVE  sells'[i].status = "confirmed" => sells[i].status = "confirmed"
  BY <1>a, <1>e DEF Observe, SellRow
<1>1. ASSUME NEW c \in Closers, CloserStep(c)
      PROVE  /\ remaining' = remaining
             /\ \A i \in SellIds : sells'[i].status = "confirmed" => sells[i].status = "confirmed"
  <2>1. remaining' = remaining
    BY <1>1 DEF CloserStep, Prepare, Execute, CreateSellAttempt, BeginPreparing, AcquireForCancel,
       MarkCancelling, AskCancel, VerifyCancel, CaptureSnapshot, AcquireForSwap, BeginSwap,
       SwapAnswered, RecordSubmittedOrder, SettleSubmittedOrder, MarkSellUncertain, QuarantineWallet,
       DropLane, RejectSellAttempt, rows
  <2>2. ASSUME NEW i \in SellIds PROVE sells'[i].status = "confirmed" => sells[i].status = "confirmed"
    <3>1. CASE CreateSellAttempt(c)
      <4>1. CASE sells' = sells
        BY <1>b, <4>1
      <4>2. CASE sells' # sells
        <5>1. PICK k, g : sells' = [sells EXCEPT ![k] =
                  [NoSell EXCEPT !.status = "reserved", !.gen = g, !.tx = k, !.amount = closer[c].saw.amount]]
          BY <3>1, <4>2 DEF CreateSellAttempt
        <5>2. PICK amount : amount = closer[c].saw.amount
          OBVIOUS
        <5> QED  BY <1>d, <5>1, <5>2
      <4> QED  BY <4>1, <4>2
    <3>2. CASE BeginPreparing(c) \/ BeginSwap(c)
      BY <3>2, <1>a DEF BeginPreparing, BeginSwap, SellRow
    <3>3. CASE CaptureSnapshot(c)
      BY <3>3, <1>a DEF CaptureSnapshot, SellRow
    <3>4. CASE RecordSubmittedOrder(c)
      BY <3>4, <1>a DEF RecordSubmittedOrder, SellRow
    <3>5. CASE MarkSellUncertain(c)
      BY <3>5, <1>a DEF MarkSellUncertain, SellRow
    <3>6. CASE RejectSellAttempt(c)
      BY <3>6, <1>a DEF RejectSellAttempt, SellRow
    <3>7. CASE sells' = sells
      BY <1>b, <3>7
    <3> QED  BY <1>1, <3>1, <3>2, <3>3, <3>4, <3>5, <3>6, <3>7
             DEF CloserStep, Prepare, Execute, AcquireForCancel, MarkCancelling, AskCancel, VerifyCancel,
                 AcquireForSwap, SwapAnswered, SettleSubmittedOrder, QuarantineWallet, DropLane, rows
  <2> QED  BY <2>1, <2>2
<1>2. ASSUME RetryStep
      PROVE  /\ remaining' = remaining
             /\ \A i \in SellIds : sells'[i].status = "confirmed" => sells[i].status = "confirmed"
  <2>1. remaining' = remaining
    BY <1>2 DEF RetryStep, ClaimRetry, RestoreAbandonedClaim, ExpireScheduledRetry, BuildRetry,
       CreateRetryAttempt, ResolveHandlerFailure, RecoverStaleSubmission, RecoverStalePreSubmit, rows
  <2>2. ASSUME NEW i \in SellIds PROVE sells'[i].status = "confirmed" => sells[i].status = "confirmed"
    <3>1. CASE CreateRetryAttempt
      <4>1. CASE sells' = sells
        BY <1>b, <4>1
      <4>2. CASE sells' # sells
        <5>1. PICK k, g : sells' = [sells EXCEPT ![k] =
                  [NoSell EXCEPT !.status = "reserved", !.gen = g, !.tx = k, !.amount = closer[Worker].saw.amount]]
          BY <3>1, <4>2 DEF CreateRetryAttempt
        <5>2. PICK amount : amount = closer[Worker].saw.amount
          OBVIOUS
        <5> QED  BY <1>d, <5>1, <5>2
      <4> QED  BY <4>1, <4>2
    <3>2. CASE RecoverStaleSubmission
      BY <3>2, <1>a DEF RecoverStaleSubmission, SellRow
    <3>3. ASSUME NEW k \in SellIds, RecoverStalePreSubmit(k)
          PROVE  sells'[i].status = "confirmed" => sells[i].status = "confirmed"
      BY <3>3, <1>a DEF RecoverStalePreSubmit, SellRow
    <3>4. CASE sells' = sells
      BY <1>b, <3>4
    <3> QED  BY <1>2, <3>1, <3>2, <3>3, <3>4
             DEF RetryStep, ClaimRetry, RestoreAbandonedClaim, ExpireScheduledRetry, BuildRetry,
                 ResolveHandlerFailure, rows
  <2> QED  BY <2>1, <2>2
<1>3. ASSUME NEW k \in SellIds, OrderStep(k)
      PROVE  /\ remaining' = remaining
             /\ \A i \in SellIds : sells'[i].status = "confirmed" => sells[i].status = "confirmed"
  <2>1. remaining' = remaining
    BY <1>3 DEF OrderStep, ObserveConfirmed, ObservePending, ObserveFailure, VerdictFailed,
       VerdictUncertain, ReceiptContradicts, EscalateUncertain, ReconcileCancelledClose
  <2>2. ASSUME NEW i \in SellIds PROVE sells'[i].status = "confirmed" => sells[i].status = "confirmed"
    BY <1>3, <1>a DEF OrderStep, ObserveConfirmed, ObservePending, ObserveFailure, VerdictFailed,
       ProveFailed, VerdictUncertain, ReceiptContradicts, EscalateUncertain, ReconcileCancelledClose, SellRow
  <2> QED  BY <2>1, <2>2
<1>4. ASSUME FetchStrategy \/ PersistStrategy \/ ClaimStrategyClose \/ ReadBalance \/ JudgeBalance \/ ClaimExternalClose
      PROVE  /\ remaining' = remaining
             /\ \A i \in SellIds : sells'[i].status = "confirmed" => sells[i].status = "confirmed"
  <2>1. remaining' = remaining
    BY <1>4 DEF FetchStrategy, PersistStrategy, ClaimStrategyClose, ReadBalance, JudgeBalance, ClaimExternalClose,
       rows
  <2>2. ASSUME NEW i \in SellIds PROVE sells'[i].status = "confirmed" => sells[i].status = "confirmed"
    <3>1. CASE ClaimStrategyClose
      <4>1. CASE \E k \in SellIds : Observe(k, sells[k])
        BY <1>a, <1>e, <4>1
      <4>2. CASE \E k : sells' = [sells EXCEPT ![k].status = "reconciliation_required", ![k].code = "triggered"]
        BY <1>a, <4>2 DEF SellRow
      <4> QED  BY <1>b, <3>1, <4>1, <4>2 DEF ClaimStrategyClose, SalesOf
    <3>2. CASE ClaimExternalClose
      <4>1. CASE sells' = sells
        BY <1>b, <4>1
      <4>2. CASE sells' # sells
        <5>1. PICK t, k : Observe(k, [NoSell EXCEPT !.origin = "external", !.tx = t, !.amount = rec.amount])
          BY <3>2, <4>2 DEF ClaimExternalClose
        <5>2. PICK g : sells' = [sells EXCEPT ![k] = [[NoSell EXCEPT !.origin = "external", !.tx = t,
                                                                    !.amount = rec.amount]
                                                     EXCEPT !.status = "confirming", !.gen = g,
                                                            !.order = "chain_verifying"]]
          BY <5>1 DEF Observe
        <5> QED  BY <1>a, <5>2 DEF NoSell
      <4> QED  BY <4>1, <4>2
    <3>3. CASE sells' = sells
      BY <1>b, <3>3
    <3> QED  BY <1>4, <3>1, <3>2, <3>3 DEF FetchStrategy, PersistStrategy, ReadBalance, JudgeBalance, rows
  <2> QED  BY <2>1, <2>2
<1>5. ASSUME EnvironmentStep
      PROVE  /\ remaining' = remaining
             /\ \A i \in SellIds : sells'[i].status = "confirmed" => sells[i].status = "confirmed"
  BY ZenonT(60), <1>5, <1>a DEF EnvironmentStep, SwapLands, StrategyTriggers, StrategyFails, OwnerSells, OwnerTransfers,
     SaleAppears, Crash, rows, NoSell
<1> QED  BY <1>1, <1>2, <1>3, <1>4, <1>5 DEF Next, ReconcileStep

LEMMA LotsKept ==
    ASSUME Rows, Rows', AttemptInv, DecisionInv, ~MistakenProof, LotsPaid, Recorded, Next
    PROVE  LotsPaid'
<1>1. PICK f, g, S, T :
        /\ f = Amounts /\ g = Amounts' /\ S = Booked /\ T = Booked'
        /\ IsFiniteSet(S) /\ S \subseteq SellIds
        /\ \A i \in SellIds : f[i] = sells[i].amount /\ g[i] = sells'[i].amount /\ f[i] \in Nat /\ g[i] \in Nat
  <2>1. IsFiniteSet(Booked) /\ Booked \subseteq SellIds
    BY SellsFinite DEF Booked
  <2>2. \A i \in SellIds : /\ Amounts[i] = sells[i].amount /\ sells[i].amount \in Nat
                           /\ (Amounts')[i] = sells'[i].amount /\ sells'[i].amount \in Nat
    BY DEF Amounts, Rows, Data, SellRow
  <2> QED  BY <2>1, <2>2
<1>2. S \subseteq T /\ \A i \in S : g[i] = f[i]
  BY <1>1 DEF Booked, Recorded, Keeps, Observed
<1>3. Total(g, S) = Total(f, S) /\ Total(f, S) \in Nat
  <2>1. \A i \in S : f[i] \in Nat /\ g[i] = f[i]
    BY <1>1, <1>2
  <2> QED  BY <1>1, <2>1, TotalOfSame, TotalWithout
<1>4. remaining + Total(f, S) = Opened
  BY <1>1 DEF LotsPaid
<1>5. CASE \A i \in SellIds : ~FinalizeConfirmedSell(i)
  <2>1. remaining' = remaining /\ T = S
    BY <1>1, <1>2, <1>5, NewlyBooked DEF Booked
  <2> QED  BY <1>1, <1>3, <1>4, <2>1 DEF LotsPaid
<1>6. ASSUME NEW i \in SellIds, FinalizeConfirmedSell(i) PROVE LotsPaid'
  <2>1. Open(i) /\ BookLots(i)
    BY <1>6, BookedOnce
  <2>2. i \notin S /\ T = S \cup {i}
    <3>1. sells \in [SellIds -> SellRow]
      BY DEF Rows, Data
    <3>2. sells'[i].status = "confirmed" /\ \A j \in SellIds \ {i} : sells'[j] = sells[j]
      BY <2>1, <3>1 DEF BookLots, SellRow
    <3> QED  BY <1>1, <2>1, <3>2 DEF Booked, Open, OpenSell
  <2>3. Total(g, T) = g[i] + Total(g, S)
    <3>1. \A j \in S \cup {i} : g[j] \in Nat
      BY <1>1
    <3> QED  BY <1>1, <2>2, <3>1, TotalWith
  <2>4. remaining' = remaining - g[i]
    <3>1. sells'[i].amount = sells[i].amount
      BY <2>1 DEF Recorded, Keeps, Open, Observed, OpenSell
    <3> QED  BY <1>1, <2>1, <3>1 DEF BookLots
  <2>5. remaining' + Total(g, T) = Opened
    <3>1. remaining \in Nat /\ g[i] \in Nat
      BY <1>1, AmountsAssumption DEF Rows, Data
    <3> QED  BY <1>3, <1>4, <2>3, <2>4, <3>1
  <2> QED  BY <1>1, <2>5 DEF LotsPaid
<1> QED  BY <1>5, <1>6

(* Of a position that is open every sale of the program is booked. *)
LEMMA AllBooked ==
    ASSUME Rows, AttemptInv, DecisionInv, ~MistakenProof, LotsPaid, position \in Closable
    PROVE  /\ SoldBy({"close"}) + remaining <= Opened
           /\ Quiet => SoldBy(Program) + remaining <= Opened
           /\ \A i \in SellIds : chain[i] = "sent" => sells[i].proven
<1>a. /\ IsFiniteSet(Booked) /\ Booked \subseteq SellIds
      /\ \A i \in Booked : Amounts[i] \in Nat
  BY SellsFinite, SoldType DEF Booked
<1>b. Total(Amounts, Booked) \in Nat /\ remaining \in Nat
  BY <1>a, TotalWithout, AmountsAssumption DEF Rows, Data
<1>1. ASSUME NEW i \in SellIds, sells[i].origin \in Program, chain[i] = "sold", sells[i].origin = "close" \/ Quiet
      PROVE  i \in Booked
  <2>1. SellSound(i) /\ sells[i] \in SellRow /\ ~Open(i)
    BY OneOpen DEF AttemptInv, Rows, Data, Closable
  <2>2. sells[i].status \notin Unsent
    BY <1>1, <2>1 DEF SellSound
  <2>3. sells[i].status # "unseen"
    BY <1>1, <2>1 DEF SellSound, Quiet, NoSaleToCome, StrategySale, Program
  <2>4. sells[i].status # "definitive_failed_no_fill"
    BY <1>1, <2>1 DEF SellSound, MistakenProof
  <2> QED  BY <2>1, <2>2, <2>3, <2>4 DEF SellRow, SellStatuses, ActiveSell, Unsent, Open, OpenSell, Booked
<1>2. ASSUME NEW CONSTANT origins, Sold(origins) \subseteq Booked
      PROVE  SoldBy(origins) + remaining <= Opened
  <2>1. SoldBy(origins) = Total(Amounts, Sold(origins)) /\ SoldBy(origins) \in Nat
    BY SoldType
  <2>2. Total(Amounts, Sold(origins)) <= Total(Amounts, Booked)
    BY <1>a, <1>2, TotalOfFewer
  <2> QED  BY <1>b, <2>1, <2>2, AmountsAssumption DEF LotsPaid
<1>3. Sold({"close"}) \subseteq Booked /\ (Quiet => Sold(Program) \subseteq Booked)
  BY <1>1 DEF Sold, Program
<1>4. SoldBy({"close"}) + remaining <= Opened /\ (Quiet => SoldBy(Program) + remaining <= Opened)
  BY <1>2, <1>3
<1>5. ASSUME NEW i \in SellIds, chain[i] = "sent", ~sells[i].proven PROVE FALSE
  <2>1. Open(i)
    BY <1>5, InFlightOpen
  <2> QED  BY <2>1, OneOpen DEF Closable
<1> QED  BY <1>4, <1>5

StillSells(c) ==
    /\ closer[c].step \in Selling /\ closer'[c].guarded = closer[c].guarded
    /\ ToSell(c)' = ToSell(c)

LEMMA ToSellType ==
    ASSUME Rows, NEW c \in Closers, closer[c].step \in Selling
    PROVE  ToSell(c) \in Nat
<1>1. closer[c] \in CloserRow /\ CloserSound(c) /\ sells \in [SellIds -> SellRow]
  BY DEF Rows, Data
<1>2. closer[c].saw.amount \in Nat
  BY <1>1 DEF CloserRow, Seen
<1>3. closer[c].step # "built" => closer[c].sell \in SellIds
  BY <1>1 DEF CloserSound, Selling, BeforeCancel, AfterCancel, WithoutSell
<1>4. closer[c].step # "built" => sells[closer[c].sell].amount \in Nat
  BY <1>1, <1>3 DEF SellRow
<1> QED  BY <1>2, <1>4 DEF ToSell

(* A closer that goes on, or rests, sells what it meant to sell. *)
LEMMA GoesOn ==
    ASSUME Rows, AttemptInv, Recorded, NEW c \in Closers, closer[c].step \in Selling,
           \/ closer'[c] = closer[c]
           \/ /\ closer[c].step # "built" /\ closer'[c].step # "built"
              /\ closer'[c].sell = closer[c].sell /\ closer'[c].guarded = closer[c].guarded
    PROVE  StillSells(c)
<1>1. CASE closer[c].step = "built"
  BY <1>1 DEF StillSells, ToSell
<1>2. CASE closer[c].step # "built"
  <2>1. PICK i \in SellIds : i = closer[c].sell
    BY <1>2 DEF Rows, CloserSound, Selling, BeforeCancel, AfterCancel, WithoutSell
  <2>2. i # 0 /\ Observed(i)
    BY <2>1, CloseBoundsAssumption DEF SellIds, AttemptInv, WriterSound
  <2>3. sells'[i].amount = sells[i].amount
    BY <2>2 DEF Recorded, Keeps
  <2> QED  BY <1>2, <2>1, <2>3 DEF StillSells, ToSell
<1> QED  BY <1>1, <1>2

LEMMA SalesFrame ==
    ASSUME Rows, Rows', AttemptInv, Recorded, SalesFit,
           \A i \in SellIds : chain'[i] = "sent" => chain[i] = "sent",
           \A i \in SellIds : chain'[i] = "sold" /\ sells'[i].origin \in Program
              => /\ chain[i] = "sold" /\ sells[i].origin = sells'[i].origin
                 /\ sells'[i].amount = sells[i].amount,
           \A c \in Operators : closer'[c].step \in Selling => StillSells(c)
    PROVE  SalesFit'
<1>1. /\ SoldBy(Program)' <= SoldBy(Program) /\ SoldBy(Program)' \in Nat /\ SoldBy(Program) \in Nat
      /\ SoldBy({"close"})' <= SoldBy({"close"}) /\ SoldBy({"close"})' \in Nat /\ SoldBy({"close"}) \in Nat
  <2>1. /\ SoldBy(Program)' <= SoldBy(Program) /\ SoldBy(Program)' \in Nat
    BY SoldNoMore DEF Program
  <2>2. SoldBy({"close"})' <= SoldBy({"close"}) /\ SoldBy({"close"})' \in Nat
    BY SoldNoMore DEF Program
  <2> QED  BY <2>1, <2>2, SoldType
<1>2. SoldBy(Program)' <= Opened
  BY <1>1, AmountsAssumption DEF SalesFit
<1>3. ASSUME NEW i \in SellIds, chain'[i] = "sent", ~sells'[i].proven
      PROVE  /\ chain[i] = "sent" /\ ~sells[i].proven /\ sells'[i].amount = sells[i].amount
  <2>1. chain[i] = "sent"
    BY <1>3
  <2>2. Observed(i)
    BY <2>1 DEF AttemptInv, SellSound, Observed, Unsent
  <2> QED  BY <1>3, <2>1, <2>2 DEF Recorded, Keeps
<1>4. ASSUME NEW i \in SellIds, chain'[i] = "sent", ~sells'[i].proven
      PROVE  SoldBy(Program)' + sells'[i].amount <= Opened
  <2>1. SoldBy(Program) + sells[i].amount <= Opened /\ sells[i].amount \in Nat
    BY <1>3, <1>4 DEF SalesFit, Rows, Data, SellRow
  <2> QED  BY <1>1, <1>3, <1>4, <2>1, AmountsAssumption
<1>5. ASSUME NEW c \in Operators, closer'[c].step \in Selling
      PROVE  /\ ToSell(c)' + SoldBy({"close"})' <= Opened
             /\ ~closer'[c].guarded => ToSell(c)' + SoldBy(Program)' <= Opened
             /\ \A i \in SellIds : chain'[i] = "sent" => sells'[i].proven
  <2>1. StillSells(c) /\ c \in Closers
    BY <1>5 DEF Closers
  <2>2. ToSell(c) \in Nat /\ ToSell(c)' = ToSell(c)
    BY <2>1, ToSellType DEF StillSells
  <2>3. /\ ToSell(c) + SoldBy({"close"}) <= Opened
        /\ ~closer[c].guarded => ToSell(c) + SoldBy(Program) <= Opened
        /\ \A i \in SellIds : chain[i] = "sent" => sells[i].proven
    BY <2>1 DEF SalesFit, StillSells
  <2>4. ToSell(c)' + SoldBy({"close"})' <= Opened
    BY <1>1, <2>2, <2>3, AmountsAssumption
  <2>5. ~closer'[c].guarded => ToSell(c)' + SoldBy(Program)' <= Opened
    BY <1>1, <2>1, <2>2, <2>3, AmountsAssumption DEF StillSells
  <2>6. \A i \in SellIds : chain'[i] = "sent" => sells'[i].proven
    BY <1>3, <2>3
  <2> QED  BY <2>4, <2>5, <2>6
<1> QED  BY <1>2, <1>4, <1>5 DEF SalesFit

LEMMA ChainRests ==
    ASSUME Recorded, chain' = chain
    PROVE  /\ \A i \in SellIds : chain'[i] = "sent" => chain[i] = "sent"
           /\ \A i \in SellIds : chain'[i] = "sold" /\ sells'[i].origin \in Program
                 => /\ chain[i] = "sold" /\ sells[i].origin = sells'[i].origin
                    /\ sells'[i].amount = sells[i].amount
BY DEF Recorded, Keeps, Program

(* A swap is sent by the one closer there is, and fits. *)
LEMMA SendsWhatFits ==
    ASSUME NEW o, Operators = {o}, Rows, Rows', StrategyInv, AttemptInv, Recorded, SalesFit,
           SwapAnswered(o), chain' # chain
    PROVE  SalesFit'
<1>a. o \in Closers /\ chain \in [SellIds -> {"none", "sent", "sold", "reverted"}] /\ WriterSound(o)
  BY DEF Closers, Rows, Data, AttemptInv
<1>1. PICK i \in SellIds : i = closer[o].sell
  BY <1>a DEF SwapAnswered, At, Rows, CloserSound, WithoutSell
<1>2. /\ chain' = [chain EXCEPT ![i] = "sent"] /\ sells' = sells /\ closer[o].step = "swap"
      /\ closer'[o].step \notin Selling
  <2>1. Goto(o, "record") \/ Goto(o, "drop") \/ Doubt(o, "swap")
    BY DEF SwapAnswered
  <2>2. /\ Goto(o, "record") => closer'[o].step = "record"
        /\ Goto(o, "drop") => closer'[o].step = "drop"
        /\ Doubt(o, "swap") => closer'[o].step = "doubt"
    BY ZenonT(60), <1>a, GotoIs, DoubtIs
  <2>3. closer'[o].step \in {"record", "drop", "doubt"}
    BY <2>1, <2>2
  <2> QED  BY <1>1, <2>3 DEF SwapAnswered, Sent, MySell, rows, At, Selling, BeforeCancel, AfterCancel
<1>3. SoldBy(Program)' <= SoldBy(Program) /\ SoldBy(Program)' \in Nat /\ SoldBy(Program) \in Nat
  <2>1. \A k \in SellIds : chain'[k] = "sold" => chain[k] = "sold"
    BY <1>a, <1>2
  <2>2. SoldBy(Program)' <= SoldBy(Program) /\ SoldBy(Program)' \in Nat
    BY <1>2, <2>1, SoldNoMore DEF Program
  <2> QED  BY <2>2, SoldType
<1>4. /\ ToSell(o) + SoldBy({"close"}) <= Opened
      /\ ~closer[o].guarded => ToSell(o) + SoldBy(Program) <= Opened
      /\ \A k \in SellIds : chain[k] = "sent" => sells[k].proven
  BY <1>2 DEF SalesFit, Selling, AfterCancel
<1>5. ToSell(o) = sells[i].amount /\ sells[i].amount \in Nat
  BY <1>1, <1>2 DEF ToSell, Rows, Data, SellRow
<1>6. sells[i].amount + SoldBy(Program) <= Opened
  <2>1. CASE ~closer[o].guarded
    BY <1>4, <1>5, <2>1
  <2>2. CASE closer[o].guarded
    <3>1. strategy = "cancelled"
      BY <1>a, <1>2, <2>2 DEF StrategyInv, CloserQuiet, AfterCancel
    <3>2. \A k \in SellIds : sells[k].origin # "strategy"
      BY <3>1 DEF StrategyInv, SalesInv, OneSale, StrategySale
    <3>3. Sold(Program) = Sold({"close"})
      BY <3>2 DEF Sold, Program
    <3>4. SoldBy(Program) = SoldBy({"close"})
      BY <3>3, SoldType
    <3> QED  BY <1>4, <1>5, <3>4
  <2> QED  BY <2>1, <2>2
<1>7. ASSUME NEW k \in SellIds, chain'[k] = "sent", ~sells'[k].proven
      PROVE  SoldBy(Program)' + sells'[k].amount <= Opened
  <2>1. k = i
    BY <1>a, <1>2, <1>4, <1>7
  <2> QED  BY <1>2, <1>3, <1>5, <1>6, <2>1, AmountsAssumption
<1>8. SoldBy(Program)' <= Opened
  BY <1>3, AmountsAssumption DEF SalesFit
<1> QED  BY <1>2, <1>7, <1>8 DEF SalesFit

(* Every other step of the closer: it goes on, or it sells nothing more.   *)
LEMMA CloserSales ==
    ASSUME NEW o, Operators = {o}, Rows, Rows', StrategyInv, AttemptInv, DecisionInv, ~MistakenProof,
           LotsPaid, SalesFit, Recorded, CloserStep(o), setting' = setting
    PROVE  SalesFit'
<1>a. /\ o \in Closers /\ o \in Operators /\ o # Worker /\ \A c \in Operators : c = o
      /\ CloserSound(o) /\ closer[o] \in CloserRow /\ closer \in [Closers -> CloserRow]
      /\ sells \in [SellIds -> SellRow]
  BY ClosersAssumption DEF Closers, Rows, Data
<1>b. ASSUME chain' = chain, closer'[o].step \in Selling => StillSells(o) PROVE SalesFit'
  <2>1. /\ \A i \in SellIds : chain'[i] = "sent" => chain[i] = "sent"
        /\ \A i \in SellIds : chain'[i] = "sold" /\ sells'[i].origin \in Program
              => /\ chain[i] = "sold" /\ sells[i].origin = sells'[i].origin
                 /\ sells'[i].amount = sells[i].amount
    BY <1>b, ChainRests
  <2>2. \A c \in Operators : closer'[c].step \in Selling => StillSells(c)
    BY <1>a, <1>b
  <2> QED  BY <2>1, <2>2, SalesFrame
<1>c. ASSUME closer[o].step \in Selling \ {"built"}, closer'[o].step # "built",
             closer'[o].sell = closer[o].sell, closer'[o].guarded = closer[o].guarded
      PROVE  StillSells(o)
  BY <1>a, <1>c, GoesOn
<1>g. ASSUME NEW step, Goto(o, step), closer[o].step \in Selling \ {"built"}, step # "built"
      PROVE  StillSells(o)
  <2>1. closer'[o].step = step /\ closer'[o].guarded = closer[o].guarded /\ closer'[o].sell = closer[o].sell
    BY <1>a, <1>g, GotoIs
  <2> QED  BY <1>c, <1>g, <2>1
<1>h. ASSUME closer' = [closer EXCEPT ![o].step = "capture", ![o].cancelled = TRUE],
             closer[o].step \in Selling \ {"built"}
      PROVE  StillSells(o)
  <2>1. closer'[o].step = "capture" /\ closer'[o].guarded = closer[o].guarded /\ closer'[o].sell = closer[o].sell
    BY <1>a, <1>h, CaptureIs
  <2> QED  BY <1>c, <1>h, <2>1
<1>i. ASSUME \/ Abandon(o) \/ HandlerOver(o)
             \/ \E step \in {"prepared", "record", "settle", "freeze", "drop", "reject", "failed"} : Goto(o, step)
             \/ \E why : Doubt(o, why)
      PROVE  closer'[o].step \notin Selling
  <2>1. Abandon(o) => closer'[o].step = "idle"
    BY <1>a DEF Abandon, IdleCloser
  <2>2. HandlerOver(o) => closer'[o].step = "idle"
    BY <1>a, HandlerOverIs
  <2>3. \A step : Goto(o, step) => closer'[o].step = step
    BY <1>a, GotoIs
  <2>4. \A why : Doubt(o, why) => closer'[o].step = "doubt"
    BY <1>a, DoubtIs
  <2> QED  BY <1>i, <2>1, <2>2, <2>3, <2>4 DEF Selling, BeforeCancel, AfterCancel
<1> USE DEF rows, world
<1>1. CASE Prepare(o)
  <2>1. closer'[o].step = "prepared"
    BY <1>1, <1>a DEF Prepare, CloserRow
  <2>2. chain' = chain
    BY <1>1 DEF Prepare
  <2> QED  BY <1>b, <2>1, <2>2 DEF Selling, BeforeCancel, AfterCancel
<1>2. CASE Execute(o)
  <2>1. UNCHANGED <<chain, sells, position, remaining>>
    BY <1>2 DEF Execute
  <2>2. CASE Abandon(o)
    BY <1>b, <1>i, <2>1, <2>2
  <2>3. CASE ~Abandon(o)
    <3>1. PICK percent \in Nat : /\ percent = closer[o].saw.percent /\ Buildable(percent)
                                 /\ Snapshot(percent) = closer[o].saw
                                 /\ closer' = [closer EXCEPT ![o].step = "built",
                                                             ![o].guarded = StrategySeen \in ActiveGroup]
      BY <1>2, <1>a, <2>3 DEF Execute, CloserRow, Seen
    <3>2. closer[o].saw.amount = SellAmount(percent) /\ SellAmount(percent) \in Nat /\ SellAmount(percent) <= remaining
      BY <3>1, SellAmountType DEF Snapshot
    <3>3. /\ closer'[o].step = "built" /\ closer'[o].saw.amount = closer[o].saw.amount
          /\ closer'[o].guarded = (StrategySeen \in ActiveGroup)
      BY <3>1, <1>a DEF CloserRow
    <3>4. position \in Closable /\ StrategySeen \notin UnsafeGroup
      BY <3>1 DEF Buildable
    <3>5. /\ SoldBy({"close"}) + remaining <= Opened
          /\ Quiet => SoldBy(Program) + remaining <= Opened
          /\ \A i \in SellIds : chain[i] = "sent" => sells[i].proven
      BY <3>4, AllBooked
    <3>6. ~closer'[o].guarded => Quiet
      BY <3>3, <3>4, SeenOver
    <3>7. PICK k, s, p, r : /\ k = SellAmount(percent) /\ s = SoldBy({"close"}) /\ p = SoldBy(Program)
                            /\ r = remaining
                            /\ k \in Nat /\ s \in Nat /\ p \in Nat /\ r \in Nat
      BY <3>2, SoldType DEF Rows, Data
    <3>8. SoldBy({"close"})' = s /\ SoldBy(Program)' = p /\ ToSell(o)' = k
      BY <2>1, <3>2, <3>3, <3>7 DEF SoldBy, Amounts, ToSell
    <3>9. ToSell(o)' + SoldBy({"close"})' <= Opened /\ (~closer'[o].guarded => ToSell(o)' + SoldBy(Program)' <= Opened)
      <4>1. k <= r /\ s + r <= Opened /\ (~closer'[o].guarded => p + r <= Opened)
        BY <3>2, <3>5, <3>6, <3>7
      <4> QED  BY <3>7, <3>8, <4>1, AmountsAssumption
    <3>10. /\ SoldBy(Program)' <= Opened
           /\ \A i \in SellIds : chain'[i] = "sent" => sells'[i].proven
      BY <2>1, <3>5, <3>7, <3>8 DEF SalesFit
    <3> QED  BY <1>a, <3>9, <3>10 DEF SalesFit
  <2> QED  BY <2>2, <2>3
<1>3. CASE CreateSellAttempt(o)
  <2>1. chain' = chain /\ closer[o].step = "built"
    BY <1>3 DEF CreateSellAttempt, At
  <2>2. CASE Abandon(o)
    BY <1>b, <1>i, <2>1, <2>2
  <2>3. CASE ~Abandon(o)
    <3>0. PICK i, g :
             /\ i = Min(FreeSells) /\ FreeSells # {}
             /\ sells' = [sells EXCEPT ![i] = [NoSell EXCEPT !.status = "reserved", !.gen = g, !.tx = i,
                                                             !.amount = closer[o].saw.amount]]
             /\ closer' = [closer EXCEPT ![o].step = "reserved", ![o].sell = i,
                                         ![o].gen = g, ![o].saw = NothingSeen]
      BY <1>3, <2>3 DEF CreateSellAttempt
    <3>1. PICK amount :
             /\ amount = closer[o].saw.amount
             /\ sells' = [sells EXCEPT ![i] = [NoSell EXCEPT !.status = "reserved", !.gen = g, !.tx = i,
                                                             !.amount = amount]]
      BY <3>0
    <3>2. i \in SellIds
      BY <3>0, FreshOnes
    <3>3. /\ closer'[o].step = "reserved" /\ closer'[o].sell = i /\ closer'[o].guarded = closer[o].guarded
          /\ sells'[i].amount = amount
      BY <1>a, <3>0, <3>1, <3>2 DEF CloserRow, NoSell
    <3>4. StillSells(o)
      BY <2>1, <3>1, <3>3 DEF StillSells, ToSell, Selling, BeforeCancel
    <3> QED  BY <1>b, <2>1, <3>4
  <2> QED  BY <2>2, <2>3
<1>4. CASE BeginPreparing(o)
  BY <1>4, <1>b, <1>g, <1>i DEF BeginPreparing, At, Selling, BeforeCancel
<1>5. CASE AcquireForCancel(o)
  BY <1>5, <1>b, <1>g, <1>h, <1>i DEF AcquireForCancel, At, Selling, BeforeCancel
<1>6. CASE MarkCancelling(o)
  BY <1>6, <1>b, <1>g, <1>i DEF MarkCancelling, At, Selling, BeforeCancel
<1>7. CASE AskCancel(o)
  BY <1>7, <1>b, <1>g, <1>i DEF AskCancel, At, Selling, BeforeCancel
<1>8. CASE VerifyCancel(o)
  BY <1>8, <1>b, <1>h, <1>i DEF VerifyCancel, At, Selling, BeforeCancel
<1>9. CASE CaptureSnapshot(o)
  BY <1>9, <1>b, <1>g, <1>i DEF CaptureSnapshot, At, Selling, AfterCancel
<1>10. CASE AcquireForSwap(o)
  BY <1>10, <1>b, <1>g, <1>i DEF AcquireForSwap, At, Selling, AfterCancel
<1>11. CASE BeginSwap(o)
  BY <1>11, <1>b, <1>g, <1>i DEF BeginSwap, At, Selling, AfterCancel
<1>12. CASE SwapAnswered(o)
  <2>1. CASE chain' = chain
    BY <1>12, <1>b, <1>i, <2>1 DEF SwapAnswered
  <2>2. CASE chain' # chain
    BY <1>12, <2>2, SendsWhatFits
  <2> QED  BY <2>1, <2>2
<1>13. CASE RecordSubmittedOrder(o)
  BY <1>13, <1>b, <1>i DEF RecordSubmittedOrder
<1>14. CASE SettleSubmittedOrder(o) \/ QuarantineWallet(o)
  BY <1>14, <1>b, <1>i DEF SettleSubmittedOrder, QuarantineWallet
<1>15. CASE MarkSellUncertain(o)
  BY <1>15, <1>b, <1>i DEF MarkSellUncertain
<1>16. CASE DropLane(o)
  BY <1>16, <1>b, <1>i DEF DropLane
<1>17. CASE RejectSellAttempt(o)
  BY <1>17, <1>b, <1>i DEF RejectSellAttempt
<1> QED  BY <1>1, <1>2, <1>3, <1>4, <1>5, <1>6, <1>7, <1>8, <1>9, <1>10, <1>11, <1>12, <1>13, <1>14,
            <1>15, <1>16, <1>17 DEF CloserStep

(* A sale in flight becomes a sale that was made. *)
LEMMA LandsWithin ==
    ASSUME NEW o, Operators = {o}, Rows, Rows', AttemptInv, DecisionInv, ~MistakenProof, ~MistakenProof',
           SalesFit, Recorded, NEW i \in SellIds, SwapLands(i), chain' = [chain EXCEPT ![i] = "sold"]
    PROVE  SalesFit'
<1>a. /\ chain \in [SellIds -> {"none", "sent", "sold", "reverted"}] /\ chain[i] = "sent"
      /\ UNCHANGED <<sells, closer>> /\ sells[i].amount \in Nat
  BY DEF Rows, Data, SwapLands, rows, SellRow
<1>b. chain'[i] = "sold" /\ \A j \in SellIds \ {i} : chain'[j] = chain[j]
  BY <1>a
<1>1. ~sells[i].proven
  BY <1>a, <1>b DEF MistakenProof
<1>2. ASSUME NEW k \in SellIds, chain[k] = "sent", ~sells[k].proven PROVE k = i
  <2>1. Open(k) /\ Open(i)
    BY <1>1, <1>2, <1>a, InFlightOpen
  <2> QED  BY <2>1, OneOpen
<1>3. SoldBy(Program)' <= SoldBy(Program) + sells[i].amount /\ SoldBy(Program)' \in Nat
  <2>1. \A j \in SellIds \ {i} : chain'[j] = "sold" /\ sells'[j].origin \in Program
           => chain[j] = "sold" /\ sells[j].origin \in Program /\ sells'[j].amount = sells[j].amount
    BY <1>a, <1>b
  <2>2. SoldBy(Program)' <= SoldBy(Program) + sells'[i].amount /\ SoldBy(Program)' \in Nat
    BY <2>1, SoldOneMore DEF Program
  <2> QED  BY <1>a, <2>2
<1>4. SoldBy(Program)' <= Opened
  <2>1. SoldBy(Program) + sells[i].amount <= Opened /\ SoldBy(Program) \in Nat
    BY <1>a, <1>1, SoldType DEF SalesFit
  <2> QED  BY <1>a, <1>3, <2>1, AmountsAssumption
<1>5. \A k \in SellIds : chain'[k] = "sent" => sells'[k].proven
  BY <1>a, <1>b, <1>2
<1>6. \A c \in Operators : closer'[c].step \notin Selling
  BY <1>a, <1>1 DEF SalesFit
<1> QED  BY <1>4, <1>5, <1>6 DEF SalesFit

(* The strategy has sold nothing before it is triggered, and nothing else  *)
(* of the program is sold or in flight while it may be.                    *)
LEMMA TriggersWithin ==
    ASSUME NEW o, Operators = {o}, Rows, Rows', StrategyInv, AttemptInv, SalesFit, Recorded, StrategyTriggers
    PROVE  SalesFit'
<1>a. /\ chain \in [SellIds -> {"none", "sent", "sold", "reverted"}] /\ sells \in [SellIds -> SellRow]
      /\ strategy = "live" /\ ~Quiet /\ closer' = closer /\ o \in Closers
  BY DEF Rows, Data, StrategyTriggers, Quiet, NoSaleToCome, Closers
<1>1. PICK i, amount : /\ i = Max(FreeSells) /\ FreeSells # {} /\ amount \in 1 .. Opened
                       /\ sells' = [sells EXCEPT ![i] = [NoSell EXCEPT !.origin = "strategy", !.status = "unseen",
                                                                      !.amount = amount, !.tx = i]]
                       /\ chain' = [chain EXCEPT ![i] = "sold"]
  BY DEF StrategyTriggers, SaleAppears
<1>2. i \in SellIds /\ ~Observed(i)
  BY <1>1, FreshOnes DEF FreeSells, Observed
<1>3. /\ sells'[i].origin = "strategy" /\ sells'[i].amount = amount /\ chain'[i] = "sold"
      /\ \A j \in SellIds \ {i} : sells'[j] = sells[j] /\ chain'[j] = chain[j]
  BY <1>a, <1>1, <1>2 DEF NoSell
<1>4. \A j \in SellIds : sells[j].origin \in Program => chain[j] = "none"
  BY <1>a DEF StrategyInv, SalesInv, OneSale, StrategySale, Program
<1>5. SoldBy(Program) = 0
  <2>1. Sold(Program) = {}
    BY <1>4 DEF Sold
  <2> QED  BY <2>1, SoldType, TotalOfNone
<1>6. SoldBy(Program)' <= Opened
  <2>1. \A j \in SellIds \ {i} : chain'[j] = "sold" /\ sells'[j].origin \in Program
           => chain[j] = "sold" /\ sells[j].origin \in Program /\ sells'[j].amount = sells[j].amount
    BY <1>3
  <2>2. SoldBy(Program)' <= SoldBy(Program) + sells'[i].amount /\ SoldBy(Program)' \in Nat
    BY <1>2, <2>1, SoldOneMore DEF Program
  <2> QED  BY <1>1, <1>3, <1>5, <2>2, AmountsAssumption
<1>7. ASSUME NEW j \in SellIds, chain'[j] = "sent" PROVE FALSE
  <2>1. j # i /\ chain[j] = "sent" /\ SellSound(j)
    BY <1>3, <1>7 DEF AttemptInv
  <2>2. sells[j].origin = "close"
    BY <2>1 DEF SellSound, Unsent
  <2> QED  BY <1>4, <2>1, <2>2 DEF Program
<1>8. /\ SoldBy({"close"})' <= SoldBy({"close"}) /\ SoldBy({"close"})' \in Nat
      /\ SoldBy({"close"}) \in Nat
  <2>1. \A j \in SellIds : chain'[j] = "sold" /\ sells'[j].origin \in {"close"}
           => chain[j] = "sold" /\ sells[j].origin \in {"close"} /\ sells'[j].amount = sells[j].amount
    BY <1>3
  <2> QED  BY <2>1, SoldNoMore, SoldType
<1>9. ASSUME closer'[o].step \in Selling
      PROVE  ToSell(o)' + SoldBy({"close"})' <= Opened /\ closer'[o].guarded
  <2>1. closer[o].step \in Selling /\ StillSells(o)
    BY <1>9, <1>a, GoesOn
  <2>2. closer[o].guarded /\ closer'[o].guarded = closer[o].guarded
    BY <1>a, <2>1 DEF StrategyInv, CloserQuiet, Selling, StillSells, CloserRow, Rows
  <2>3. ToSell(o) + SoldBy({"close"}) <= Opened /\ ToSell(o) \in Nat
    BY <1>a, <2>1, ToSellType DEF SalesFit
  <2> QED  BY <1>8, <2>1, <2>2, <2>3, AmountsAssumption DEF StillSells
<1> QED  BY <1>6, <1>7, <1>9 DEF SalesFit

LEMMA EnvironmentSales ==
    ASSUME NEW o, Operators = {o}, Rows, Rows', StrategyInv, AttemptInv, DecisionInv, ~MistakenProof,
           ~MistakenProof', SalesFit, Recorded, EnvironmentStep
    PROVE  SalesFit'
<1>a. /\ chain \in [SellIds -> {"none", "sent", "sold", "reverted"}] /\ sells \in [SellIds -> SellRow]
      /\ o \in Closers /\ \A c \in Operators : c = o
  BY DEF Rows, Data, Closers
<1>b. closer' = closer => \A c \in Operators : closer'[c].step \in Selling => StillSells(c)
  BY <1>a, GoesOn
<1>c. ASSUME UNCHANGED <<sells, chain>>, \A c \in Operators : closer'[c].step \in Selling => StillSells(c)
      PROVE  SalesFit'
  BY <1>c, ChainRests, SalesFrame
<1>1. ASSUME NEW i \in SellIds, SwapLands(i) PROVE SalesFit'
  <2>1. CASE chain' = [chain EXCEPT ![i] = "sold"]
    BY <1>1, <2>1, LandsWithin
  <2>2. CASE chain' = [chain EXCEPT ![i] = "reverted"]
    <3>1. closer' = closer /\ sells' = sells
      BY <1>1 DEF SwapLands, rows
    <3>2. \A j \in SellIds : chain'[j] \in {"sent", "sold"} => chain[j] = chain'[j]
      BY <1>a, <2>2
    <3> QED  BY <1>b, <3>1, <3>2, SalesFrame
  <2> QED  BY <1>1, <2>1, <2>2 DEF SwapLands
<1>2. CASE StrategyTriggers
  BY <1>2, TriggersWithin
<1>3. CASE StrategyFails
  BY <1>3, <1>b, <1>c DEF StrategyFails, rows
<1>4. ASSUME NEW amount \in 1 .. Opened, OwnerSells(amount) PROVE SalesFit'
  <2>1. PICK i : /\ i = Max(FreeSells) /\ FreeSells # {}
                 /\ sells' = [sells EXCEPT ![i] = [NoSell EXCEPT !.origin = "external", !.status = "unseen",
                                                                !.amount = amount, !.tx = i]]
                 /\ chain' = [chain EXCEPT ![i] = "sold"]
    BY <1>4 DEF OwnerSells, SaleAppears
  <2>2. i \in SellIds
    BY <2>1, FreshOnes
  <2>3. /\ sells'[i].origin = "external" /\ chain'[i] = "sold"
        /\ \A j \in SellIds \ {i} : sells'[j] = sells[j] /\ chain'[j] = chain[j]
    BY <1>a, <2>1, <2>2 DEF NoSell
  <2>4. closer' = closer
    BY <1>4 DEF OwnerSells
  <2>5. \A j \in SellIds : chain'[j] = "sent" => chain[j] = "sent"
    BY <2>3
  <2>6. \A j \in SellIds : chain'[j] = "sold" /\ sells'[j].origin \in Program
              => /\ chain[j] = "sold" /\ sells[j].origin = sells'[j].origin
                 /\ sells'[j].amount = sells[j].amount
    BY <2>3 DEF Program
  <2> QED  BY <1>b, <2>4, <2>5, <2>6, SalesFrame
<1>5. ASSUME NEW amount \in 1 .. Opened, OwnerTransfers(amount) PROVE SalesFit'
  BY <1>5, <1>b, <1>c DEF OwnerTransfers, rows
<1>6. CASE Crash
  <2>1. \A c \in Operators : closer'[c].step \notin Selling
    BY <1>6, <1>a DEF Crash, IdleCloser, Selling, BeforeCancel, AfterCancel
  <2> QED  BY <1>6, <1>c, <2>1 DEF Crash, rows
<1> QED  BY <1>1, <1>2, <1>3, <1>4, <1>5, <1>6 DEF EnvironmentStep

LEMMA SalesKept ==
    ASSUME NEW o, Operators = {o}, Rows, Rows', StrategyInv, AttemptInv, DecisionInv, ~MistakenProof,
           ~MistakenProof', LotsPaid, SalesFit, Recorded, Next
    PROVE  SalesFit'
<1>a. o \in Closers /\ o # Worker /\ (\A c \in Operators : c = o) /\ closer \in [Closers -> CloserRow]
  BY ClosersAssumption DEF Closers, Rows
<1>b. ASSUME chain' = chain, closer'[o] = closer[o] PROVE SalesFit'
  <2>1. \A c \in Operators : closer'[c].step \in Selling => StillSells(c)
    BY <1>a, <1>b, GoesOn
  <2> QED  BY <1>b, <2>1, ChainRests, SalesFrame
<1>1. ASSUME NEW c \in Closers, CloserStep(c) PROVE SalesFit'
  <2>1. CASE c = o
    BY <1>1, <2>1, CloserSales DEF Next
  <2>2. CASE c = Worker
    <3>1. closer[Worker].step \in {"idle", "prepared", "failed"} /\ Worker \notin Operators
      BY ClosersAssumption DEF DecisionInv
    <3> QED  BY <1>1, <2>2, <3>1 DEF CloserStep, Prepare, Execute, CreateSellAttempt, BeginPreparing,
             AcquireForCancel, MarkCancelling, AskCancel, VerifyCancel, CaptureSnapshot, AcquireForSwap,
             BeginSwap, SwapAnswered, RecordSubmittedOrder, SettleSubmittedOrder, MarkSellUncertain,
             QuarantineWallet, DropLane, RejectSellAttempt, At
  <2> QED  BY <2>1, <2>2 DEF Closers
<1>2. CASE RetryStep
  BY <1>2, <1>a, <1>b DEF RetryStep, ClaimRetry, RestoreAbandonedClaim, ExpireScheduledRetry, BuildRetry,
     CreateRetryAttempt, ResolveHandlerFailure, RecoverStaleSubmission, RecoverStalePreSubmit, Goto, Abandon, world
<1>3. CASE ReconcileStep
  BY <1>3, <1>b DEF ReconcileStep, OrderStep, ObserveConfirmed, ObservePending, ObserveFailure, VerdictFailed,
     VerdictUncertain, ReceiptContradicts, FinalizeConfirmedSell, EscalateUncertain, ReconcileCancelledClose,
     FetchStrategy, PersistStrategy, ClaimStrategyClose, ReadBalance, JudgeBalance, ClaimExternalClose, world
<1>4. CASE EnvironmentStep
  BY <1>4, EnvironmentSales
<1> QED  BY <1>1, <1>2, <1>3, <1>4 DEF Next

LEMMA AmountsInit == ASSUME Init PROVE LotsPaid /\ SalesFit
<1>1. Rows
  BY RowsInit
<1>2. remaining = Opened /\ Booked = {}
  BY DEF Init, Booked, NoSell
<1>3. LotsPaid
  BY <1>2, TotalOfNone, AmountsAssumption DEF LotsPaid
<1>4. Sold(Program) = {}
  BY DEF Init, Sold
<1>5. SoldBy(Program) = 0
  BY <1>1, <1>4, SoldType, TotalOfNone
<1>6. (\A i \in SellIds : chain[i] # "sent") /\ \A c \in Operators : closer[c].step \notin Selling
  BY DEF Init, IdleCloser, Closers, Selling, BeforeCancel, AfterCancel
<1> QED  BY <1>3, <1>5, <1>6, AmountsAssumption DEF SalesFit

AmountsInv == CloseInv /\ (MistakenProof \/ (LotsPaid /\ SalesFit))

LEMMA AmountsKept ==
    ASSUME NEW o, Operators = {o}, AmountsInv, [Next]_<<vars, setting>>
    PROVE  AmountsInv'
<1>1. CloseInv'
  BY CloseKept DEF AmountsInv
<1>2. Recorded
  BY AttemptKept DEF AmountsInv, CloseInv, AttemptsGoOn
<1>3. MistakenProof => MistakenProof'
  BY <1>2, MistakenStays DEF AmountsInv, CloseInv
<1>4. ASSUME ~MistakenProof, ~MistakenProof' PROVE LotsPaid' /\ SalesFit'
  <2>1. Rows /\ Rows' /\ StrategyInv /\ AttemptInv /\ DecisionInv /\ LotsPaid /\ SalesFit
    BY <1>1, <1>4 DEF AmountsInv, CloseInv
  <2>2. CASE Next
    BY <1>2, <1>4, <2>1, <2>2, LotsKept, SalesKept
  <2>3. CASE UNCHANGED <<vars, setting>>
    <3>1. UNCHANGED <<remaining, sells, chain, closer>>
      BY <2>3 DEF vars, rows, world
    <3>2. LotsPaid'
      BY <2>1, <3>1 DEF LotsPaid, Booked, Amounts
    <3>3. \A c \in Operators : closer'[c].step \in Selling => StillSells(c)
      BY <2>1, <1>2, <3>1, GoesOn DEF Closers
    <3> QED  BY <1>2, <2>1, <3>1, <3>2, <3>3, ChainRests, SalesFrame
  <2> QED  BY <2>2, <2>3
<1> QED  BY <1>1, <1>3, <1>4 DEF AmountsInv

(* As long as one request of an operator closes the position at a time and *)
(* no proof of a failure was mistaken, the closes of that operator, their  *)
(* retries and the protection strategy together never sell more than the   *)
(* position's lots, whatever else of the token the wallet holds.           *)
THEOREM NeverOversold == ASSUME NEW o, Operators = {o} PROVE Spec => []NoOversell
<1>1. Init => AmountsInv
  BY CloseInit, AmountsInit DEF AmountsInv
<1>2. AmountsInv /\ [Next]_<<vars, setting>> => AmountsInv'
  BY AmountsKept
<1>3. AmountsInv => NoOversell
  BY DEF AmountsInv, SalesFit, NoOversell, Program
<1> QED  BY <1>1, <1>2, <1>3, PTL DEF Spec
=============================================================================
