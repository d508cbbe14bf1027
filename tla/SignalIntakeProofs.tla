--------------------------- MODULE SignalIntakeProofs ---------------------------
(***************************************************************************)
(* What comes in from outside is not passed over.                          *)
(*                                                                         *)
(* Events: no second delivery, second processing, rollback or crash makes  *)
(* an event done without its activity, or an activity matched without its  *)
(* signals, for any events, behaviours and contracts.                      *)
(*                                                                         *)
(* Follows: no page size, page limit, move of the account or failed check  *)
(* lets a new follow pass unreported, for any accounts.                    *)
(***************************************************************************)
EXTENDS SignalIntake, FollowPoll, TotalsProofs

InboxStatuses == {"none", "pending", "processing", "processed", "ignored", "dead_letter"}
ActivityRows == [event : Inbound \cup {OtherProvider}, behaviour : Behaviours]
Contracts == UNION {MatchedTokens[b] : b \in Behaviours}
SignalRows == [behaviour : Behaviours, token : Contracts]
Writes == [activities : SUBSET ActivityRows, signals : SUBSET SignalRows, once : SUBSET Contracts]
Worker == [at : {"idle", "taken", "worked"}, event : Inbound \cup {"none"},
           list : SUBSET Inbound, writes : Writes]

(* The rows of an event and the worker's transaction.                      *)
IntakeRows ==
    /\ inbox \in [Inbound -> [status : InboxStatuses, tries : Nat]]
    /\ activities \subseteq ActivityRows /\ unmatched \subseteq activities
    /\ signals \subseteq SignalRows /\ once \subseteq Contracts
    /\ stream \in Seq(Inbound)
    /\ intake \in [Workers -> Worker]
    /\ \A w \in Workers : intake[w].at # "idle" => intake[w].event \in Inbound

(* The signals of a behaviour are among these, or the follow has had its   *)
(* signal for the contract.                                                *)
Covered(b, sigs, marks) ==
    Kind[b] # "unfollow" =>
        \A t \in MatchedTokens[b] :
            [behaviour |-> b, token |-> t] \in sigs \/ (Kind[b] = "follow" /\ t \in marks)

Known(e) == e \in Unknown \/ KnownActivity(e, Items[e][1])

(* What an open transaction has written is for its own event, and with what*)
(* is committed it is all the event asks for.                              *)
OpenWrites(w) ==
    LET writes == intake[w].writes
        e == intake[w].event
    IN
    /\ writes.activities \subseteq {[event |-> e, behaviour |-> Items[e][1]]}
    /\ writes.activities = {} => Known(e)
    /\ \A a \in writes.activities :
          Covered(a.behaviour, signals \cup writes.signals, once \cup writes.once)

IntakeInv ==
    /\ IntakeRows
    /\ \A w \in Workers : intake[w].at = "worked" => OpenWrites(w)
    /\ \A e \in Inbound : inbox[e].status \in {"processed", "ignored"} => Known(e)
    /\ \A a \in activities \ unmatched : Covered(a.behaviour, signals, once)

-----------------------------------------------------------------------------
(* What NewSignals leaves to write is what is not covered yet.             *)
LEMMA NothingNew ==
    ASSUME NEW b
    PROVE  NewSignals(b) = {} <=> Covered(b, signals, once)
BY DEF NewSignals, Covered

(* A behaviour stays covered when rows are added.                          *)
LEMMA CoveredGrows ==
    ASSUME NEW b, NEW sigs, NEW marks, NEW more, NEW moreMarks,
           sigs \subseteq more, marks \subseteq moreMarks, Covered(b, sigs, marks)
    PROVE  Covered(b, more, moreMarks)
BY DEF Covered

(* Rows are only ever added.                                               *)
LEMMA StillKnown ==
    ASSUME NEW e, Known(e), activities \subseteq activities'
    PROVE  Known(e)'
BY DEF Known, KnownActivity

(* What processing an event writes.                                        *)
LEMMA EventRows ==
    ASSUME NEW e \in Inbound
    PROVE  /\ Items[e][1] \in Behaviours
           /\ NewActivities(e) \subseteq ActivityRows
           /\ \A b \in Behaviours : NewSignals(b) \subseteq SignalRows
           /\ \A b \in Behaviours : FollowMarks(b) \subseteq Contracts
<1>1. Items[e][1] \in Behaviours
  BY EventsAssumption
<1>2. NewActivities(e) \subseteq ActivityRows
  BY <1>1 DEF NewActivities, ActivityRows
<1>3. \A b \in Behaviours : MatchedTokens[b] \subseteq Contracts
  BY DEF Contracts
<1>4. \A b \in Behaviours : NewSignals(b) \subseteq SignalRows
  BY <1>3 DEF NewSignals, SignalRows
<1>5. \A b \in Behaviours : FollowMarks(b) \subseteq Contracts
  BY <1>3 DEF FollowMarks
<1> QED  BY <1>1, <1>2, <1>4, <1>5

LEMMA IntakeInitSound == IntakeInit => IntakeInv
BY DEF IntakeInit, IntakeInv, IntakeRows, InboxStatuses, Worker, Writes, IntakeAtRest, NoWrites

(* Steps that leave activities, signals and marks in place.                *)
LEMMA RowsKept ==
    ASSUME IntakeInv, IntakeRows', UNCHANGED <<activities, unmatched, signals, once>>,
           \A w \in Workers : intake'[w].at = "worked" => intake'[w] = intake[w],
           \A e \in Inbound : inbox'[e].status \in {"processed", "ignored"}
                                => inbox'[e].status = inbox[e].status
    PROVE  IntakeInv'
<1>1. ASSUME NEW w \in Workers, intake'[w].at = "worked"
      PROVE  OpenWrites(w)'
  <2>1. intake'[w] = intake[w] /\ OpenWrites(w)
    BY <1>1 DEF IntakeInv
  <2>2. \A e : Known(e) => Known(e)'
    BY StillKnown
  <2> QED  BY <2>1, <2>2 DEF OpenWrites
<1>2. \A e \in Inbound : inbox'[e].status \in {"processed", "ignored"} => Known(e)'
  BY DEF IntakeInv, Known, KnownActivity
<1> QED  BY <1>1, <1>2 DEF IntakeInv

(* Every step keeps the events accounted for.                              *)
LEMMA IntakeStep == IntakeInv /\ [IntakeNext]_intakeVars => IntakeInv'
<1> SUFFICES ASSUME IntakeInv, [IntakeNext]_intakeVars PROVE IntakeInv'
  OBVIOUS
<1> USE DEF Workers
<1>1. ASSUME NEW e \in Inbound, Receive(e) PROVE IntakeInv'
  <2>1. IntakeRows'
    BY <1>1 DEF Receive, SetEvent, IntakeInv, IntakeRows, InboxStatuses
  <2> QED  BY <1>1, <2>1, RowsKept DEF Receive, SetEvent, IntakeInv, IntakeRows
<1>2. CASE ResumeReads
  <2>1. IntakeRows'
    BY <1>2 DEF ResumeReads, IntakeInv, IntakeRows, Worker, IntakeAtRest
  <2>2. \A w \in Workers : intake'[w].at = "worked" => intake'[w] = intake[w]
    BY <1>2 DEF ResumeReads, IntakeInv, IntakeRows, Worker, IntakeAtRest
  <2> QED  BY <1>2, <2>1, <2>2, RowsKept DEF ResumeReads
<1>3. CASE ConsumerCrashes
  <2>1. IntakeRows'
    BY <1>3 DEF ConsumerCrashes, IntakeInv, IntakeRows, Worker, Writes, IntakeAtRest, NoWrites
  <2> QED  BY <1>3, <2>1, RowsKept DEF ConsumerCrashes, IntakeAtRest
<1>4. ASSUME NEW w \in Workers, NEW e \in Inbound, Take(w, e) PROVE IntakeInv'
  <2>1. IntakeRows'
    <3>1. stream' \in Seq(Inbound)
      <4>1. stream \in Seq(Inbound) /\ (stream # <<>> => Tail(stream) \in Seq(Inbound))
        BY DEF IntakeInv, IntakeRows
      <4>2. stream' = stream \/ (stream # <<>> /\ stream' = Tail(stream))
        BY <1>4 DEF Take
      <4> QED  BY <4>1, <4>2
    <3>2. intake' \in [Workers -> Worker]
      BY ZenonT(60), <1>4 DEF Take, IntakeInv, IntakeRows, Worker
    <3>3. inbox' \in [Inbound -> [status : InboxStatuses, tries : Nat]]
      BY <1>4 DEF Take, IntakeInv, IntakeRows, InboxStatuses
    <3>4. \A v \in Workers : intake'[v].at # "idle" => intake'[v].event \in Inbound
      BY <1>4 DEF Take, IntakeInv, IntakeRows, Worker
    <3> QED  BY <1>4, <3>1, <3>2, <3>3, <3>4 DEF Take, IntakeInv, IntakeRows
  <2> QED  BY SMTT(30), <1>4, <2>1, RowsKept DEF Take, IntakeInv, IntakeRows
<1>5. ASSUME NEW w \in Workers, Work(w) PROVE IntakeInv'
  <2>1. PICK e \in Inbound : e = intake[w].event
    BY <1>5 DEF Work, IntakeInv, IntakeRows
  <2> DEFINE new == NewActivities(e)
             written == [activities |-> new,
                         signals |-> UNION {NewSignals(a.behaviour) : a \in new},
                         once |-> UNION {FollowMarks(a.behaviour) : a \in new}]
  <2>2. written \in Writes
    <3>1. \A a \in new : a.behaviour \in Behaviours
      BY <2>1, EventRows DEF ActivityRows
    <3> QED  BY <2>1, <3>1, EventRows DEF Writes
  <2>3. intake' = [intake EXCEPT ![w].at = "worked", ![w].writes = written]
    BY <1>5, <2>1 DEF Work
  <2>4. UNCHANGED <<inbox, activities, unmatched, signals, once, stream>>
    BY <1>5 DEF Work
  <2>5. /\ intake'[w].writes = written /\ intake'[w].event = e
        /\ \A v \in Workers : v # w => intake'[v] = intake[v]
    BY <2>1, <2>3 DEF IntakeInv, IntakeRows, Worker
  <2>6. IntakeRows'
    <3> HIDE DEF written
    <3> QED  BY SMTT(30), <2>1, <2>2, <2>3, <2>4 DEF IntakeInv, IntakeRows, Worker
  <2>7. OpenWrites(w)'
    <3>1. new \subseteq {[event |-> e, behaviour |-> Items[e][1]]}
      BY DEF NewActivities
    <3>2. new = {} => Known(e)
      BY DEF NewActivities, Known
    <3>3. ASSUME NEW a \in new
          PROVE  Covered(a.behaviour, signals \cup written.signals, once \cup written.once)
      BY DEF Covered, NewSignals
    <3> QED  BY SMTT(30), <2>4, <2>5, <3>1, <3>2, <3>3 DEF OpenWrites, Known, KnownActivity
  <2>8. \A v \in Workers : intake'[v].at = "worked" => OpenWrites(v)'
    <3> SUFFICES ASSUME NEW v \in Workers, v # w, intake'[v].at = "worked"
                 PROVE  OpenWrites(v)'
      BY <2>7
    <3>1. intake'[v] = intake[v] /\ OpenWrites(v)
      BY <2>5 DEF IntakeInv
    <3>2. \A f : Known(f) => Known(f)'
      BY <2>4, StillKnown
    <3> QED  BY <2>4, <3>1, <3>2 DEF OpenWrites
  <2> QED  BY <2>4, <2>6, <2>8 DEF IntakeInv, Known, KnownActivity
<1>6. ASSUME NEW w \in Workers, Commit(w) PROVE IntakeInv'
  <2>0. intake[w].event \in Inbound /\ intake[w].writes \in Writes /\ OpenWrites(w)
    BY <1>6 DEF Commit, IntakeInv, IntakeRows, Worker
  <2> PICK e \in Inbound, writes \in Writes : e = intake[w].event /\ writes = intake[w].writes
    BY <2>0
  <2>1. /\ writes.activities \subseteq {[event |-> e, behaviour |-> Items[e][1]]}
        /\ writes.activities = {} => Known(e)
        /\ \A a \in writes.activities :
              Covered(a.behaviour, signals \cup writes.signals, once \cup writes.once)
    BY <2>0 DEF OpenWrites
  <2>2. /\ activities' = activities \cup writes.activities
        /\ signals' = signals \cup writes.signals /\ once' = once \cup writes.once
        /\ inbox' = [inbox EXCEPT ![e].status =
                       IF writes.activities # {} THEN "processed" ELSE "ignored"]
        /\ intake' = [intake EXCEPT ![w] = [IntakeAtRest EXCEPT !.list = intake[w].list]]
        /\ UNCHANGED <<unmatched, stream>>
    BY <1>6 DEF Commit, SetEvent, Rest
  <2>3. IntakeRows'
    <3>1. intake' \in [Workers -> Worker]
      BY <2>2 DEF IntakeInv, IntakeRows, Worker, Writes, IntakeAtRest, NoWrites
    <3>2. /\ activities' \subseteq ActivityRows /\ unmatched' \subseteq activities'
          /\ signals' \subseteq SignalRows /\ once' \subseteq Contracts
      BY <2>1, <2>2 DEF IntakeInv, IntakeRows, Writes
    <3>3. inbox' \in [Inbound -> [status : InboxStatuses, tries : Nat]]
      BY ZenonT(60), <2>1, <2>2 DEF IntakeInv, IntakeRows, InboxStatuses
    <3>4. \A v \in Workers : intake'[v].at # "idle" => intake'[v].event \in Inbound
      BY <2>2 DEF IntakeInv, IntakeRows, IntakeAtRest
    <3> QED  BY <2>2, <3>1, <3>2, <3>3, <3>4 DEF IntakeInv, IntakeRows
  <2>4. Known(e)'
    <3>1. CASE writes.activities = {}
      BY <2>1, <2>2, <3>1, StillKnown
    <3>2. CASE writes.activities # {}
      <4>1. [event |-> e, behaviour |-> Items[e][1]] \in activities'
        BY <2>1, <2>2, <3>2
      <4> QED  BY <2>1, <4>1, EventsAssumption DEF Known, KnownActivity
    <3> QED  BY <3>1, <3>2
  <2>5. \A f \in Inbound : inbox'[f].status \in {"processed", "ignored"} => Known(f)'
    BY <2>1, <2>2, <2>4, StillKnown DEF IntakeInv, IntakeRows
  <2>6. \A v \in Workers : intake'[v].at = "worked" => OpenWrites(v)'
    <3> SUFFICES ASSUME NEW v \in Workers, intake'[v].at = "worked" PROVE OpenWrites(v)'
      OBVIOUS
    <3>1. intake'[v] = intake[v] /\ OpenWrites(v)
      BY <2>2 DEF IntakeInv, IntakeRows, IntakeAtRest
    <3>2. \A f : Known(f) => Known(f)'
      BY <2>2, StillKnown
    <3>3. \A a \in intake'[v].writes.activities :
            Covered(a.behaviour, signals' \cup intake'[v].writes.signals,
                                 once' \cup intake'[v].writes.once)
      BY <2>2, <3>1 DEF OpenWrites, Covered
    <3> QED  BY <3>1, <3>2, <3>3 DEF OpenWrites
  <2>7. \A a \in activities' \ unmatched' : Covered(a.behaviour, signals', once')
    BY <2>1, <2>2, CoveredGrows DEF IntakeInv
  <2> QED  BY <2>3, <2>5, <2>6, <2>7 DEF IntakeInv
<1>7. ASSUME NEW w \in Workers, Fail(w) PROVE IntakeInv'
  <2>1. IntakeRows'
    <3>1. intake' \in [Workers -> Worker]
      BY <1>7 DEF Fail, Rest, IntakeInv, IntakeRows, Worker, Writes, IntakeAtRest, NoWrites
    <3>2. inbox' \in [Inbound -> [status : InboxStatuses, tries : Nat]]
      BY <1>7 DEF Fail, SetEvent, StatusAfterFailure, IntakeInv, IntakeRows, InboxStatuses
    <3>3. \A v \in Workers : intake'[v].at # "idle" => intake'[v].event \in Inbound
      BY <1>7 DEF Fail, Rest, IntakeInv, IntakeRows, IntakeAtRest
    <3> QED  BY <1>7, <3>1, <3>2, <3>3 DEF Fail, IntakeInv, IntakeRows
  <2> QED  BY <1>7, <2>1, RowsKept
           DEF Fail, SetEvent, StatusAfterFailure, Rest, IntakeInv, IntakeRows, IntakeAtRest
<1>8. ASSUME NEW b \in Behaviours, OtherActivity(b) PROVE IntakeInv'
  <2>1. IntakeRows'
    BY <1>8 DEF OtherActivity, IntakeInv, IntakeRows, ActivityRows
  <2>2. activities \subseteq activities' /\ UNCHANGED <<inbox, signals, once, intake>>
    BY <1>8 DEF OtherActivity
  <2>3. \A v \in Workers : intake'[v].at = "worked" => OpenWrites(v)'
    BY <2>2, StillKnown DEF IntakeInv, OpenWrites
  <2>4. \A e \in Inbound : inbox'[e].status \in {"processed", "ignored"} => Known(e)'
    BY <2>2, StillKnown DEF IntakeInv
  <2>5. activities' \ unmatched' \subseteq activities \ unmatched
    BY <1>8 DEF OtherActivity
  <2> QED  BY <2>1, <2>2, <2>3, <2>4, <2>5 DEF IntakeInv
<1>9. ASSUME NEW a \in unmatched, MatchSome(a) PROVE IntakeInv'
  <2>1. PICK s \in NewSignals(a.behaviour) : signals' = signals \cup {s}
    BY <1>9 DEF MatchSome
  <2>2. a.behaviour \in Behaviours
    BY DEF IntakeInv, IntakeRows, ActivityRows
  <2>3. UNCHANGED <<inbox, activities, unmatched, once, stream, intake>>
    BY <1>9 DEF MatchSome
  <2>4. s \in SignalRows
    BY <2>1, <2>2 DEF NewSignals, SignalRows, Contracts
  <2>5. IntakeRows'
    BY <2>1, <2>3, <2>4 DEF IntakeInv, IntakeRows
  <2>6. \A v \in Workers : intake'[v].at = "worked" => OpenWrites(v)'
    BY <2>1, <2>3 DEF IntakeInv, OpenWrites, Known, KnownActivity, Covered
  <2>7. \A c \in activities' \ unmatched' : Covered(c.behaviour, signals', once')
    BY <2>1, <2>3, CoveredGrows DEF IntakeInv
  <2> QED  BY <2>3, <2>5, <2>6, <2>7 DEF IntakeInv, Known, KnownActivity
<1>10. ASSUME NEW a \in unmatched, MarkMatched(a) PROVE IntakeInv'
  <2>1. UNCHANGED <<inbox, activities, signals, once, stream, intake>>
    BY <1>10 DEF MarkMatched
  <2>2. unmatched' = unmatched \ {a} /\ Covered(a.behaviour, signals, once)
    BY <1>10, NothingNew DEF MarkMatched
  <2>3. IntakeRows'
    BY <2>1, <2>2 DEF IntakeInv, IntakeRows
  <2>4. \A v \in Workers : intake'[v].at = "worked" => OpenWrites(v)'
    BY <2>1 DEF IntakeInv, OpenWrites, Known, KnownActivity
  <2> QED  BY <2>1, <2>2, <2>3, <2>4 DEF IntakeInv, Known, KnownActivity
<1>11. CASE UNCHANGED intakeVars
  BY <1>11 DEF intakeVars, IntakeInv, IntakeRows, OpenWrites, Known, KnownActivity
<1> QED
  BY <1>1, <1>2, <1>3, <1>4, <1>5, <1>6, <1>7, <1>8, <1>9, <1>10, <1>11
  DEF IntakeNext, IntakeWork

LEMMA IntakeInvariance == IntakeSpec => []IntakeInv
BY IntakeInitSound, IntakeStep, PTL DEF IntakeSpec

(* The rows hold statuses of their columns, and what waits for the matcher *)
(* is an activity.                                                         *)
THEOREM IntakeTyped == IntakeSpec => []IntakeTypeOK
<1>1. IntakeInv => IntakeTypeOK
  BY DEF IntakeInv, IntakeRows, IntakeTypeOK, InboxStatuses, Worker
<1> QED  BY <1>1, IntakeInvariance, PTL

(* An event counts as done only with an activity in the database, and an   *)
(* activity counts as matched only with the signals of all its rows        *)
(* (processInboxEvent, insertActivity, matchActivity).                     *)
THEOREM EventsAccounted == IntakeSpec => []IntakeAccounted
<1>1. IntakeInv => IntakeAccounted
  BY NothingNew DEF IntakeInv, IntakeAccounted, Known
<1> QED  BY <1>1, IntakeInvariance, PTL

-----------------------------------------------------------------------------
(* Follows.                                                                *)

PollRow == [at : {"idle", "fetching", "fetched", "gap"}, baseline : BOOLEAN, fetched : SUBSET Followees,
            pages : Nat, cursor : Nat]

FollowRows ==
    /\ since \in [Followees -> Nat] /\ follows \in Nat /\ follows <= MaxFollows
    /\ \A u \in Followees : since[u] <= follows
    /\ unfollowed \subseteq Followees /\ refollowed \in BOOLEAN
    /\ based \in BOOLEAN /\ known \subseteq Followees
    /\ poll \in PollRow

(* Whoever of the first is followed was followed after all of the others.  *)
Newer(us, vs) ==
    \A u \in us, v \in vs : since[u] # 0 /\ since[v] # 0 => since[u] > since[v]

(* What a check has fetched is what was followed from the cursor on; who is*)
(* not fetched is further down the list, or came after the check began.    *)
FetchedFromCursor ==
    /\ \A v \in poll.fetched : since[v] # 0 => since[v] >= poll.cursor
    /\ \A u \in Followees \ poll.fetched :
          since[u] # 0 => since[u] < poll.cursor \/ Newer({u}, poll.fetched)

(* Somebody met before and not followed now was unfollowed; without a      *)
(* second follow he stays so.                                              *)
GoneForGood ==
    /\ \A u \in known \cup poll.fetched : since[u] = 0 => u \in unfollowed
    /\ ~refollowed => \A u \in unfollowed : since[u] = 0

(* A check that may be completed has all the news above what it knows.     *)
FollowInv ==
    /\ FollowRows /\ GoneForGood
    /\ reported \subseteq known /\ (~based => known = {})
    /\ poll.at # "idle" => poll.baseline = ~based
    /\ ~refollowed =>
          /\ Newer(Followees \ known, known)
          /\ poll.at # "idle" => FetchedFromCursor
          /\ poll.at = "fetched" => Newer(Followees \ (known \cup poll.fetched), poll.fetched)

LEMMA FollowInitSound == FollowInit => FollowInv
<1> SUFFICES ASSUME FollowInit PROVE FollowInv
  OBVIOUS
<1>1. /\ since \in [Followees -> {0, 1, 2}] /\ follows = 2 /\ unfollowed = {} /\ refollowed = FALSE
      /\ based = FALSE /\ known = {} /\ reported = {} /\ poll = NoPoll
  BY DEF FollowInit
<1>2. 2 <= MaxFollows
  BY FollowAssumption
<1>3. \A u \in Followees : since[u] <= follows /\ since[u] \in Nat
  BY <1>1
<1>4. since \in [Followees -> Nat]
  BY <1>1, <1>3
<1>5. FollowRows
  BY <1>1, <1>2, <1>3, <1>4 DEF FollowRows, PollRow, NoPoll
<1> QED  BY <1>1, <1>5 DEF FollowInv, GoneForGood, Newer, NoPoll

(* A page has the newest of those before the cursor.                       *)
LEMMA PageNewest ==
    ASSUME FollowRows, NEW cursor \in Nat, NEW size \in Nat,
           NEW u \in Older(cursor) \ Page(cursor, size), NEW v \in Page(cursor, size)
    PROVE  since[u] < since[v]
<1> DEFINE Above(w) == {x \in Older(cursor) : since[x] > since[w]}
<1>1. /\ u \in Older(cursor) /\ v \in Older(cursor)
      /\ ~(Cardinality(Above(u)) < size) /\ Cardinality(Above(v)) < size
  BY DEF Page
<1>2. since[u] \in Nat /\ since[v] \in Nat /\ \A x \in Older(cursor) : since[x] \in Nat
  BY <1>1 DEF Older, FollowRows
<1>3. ASSUME since[v] <= since[u] PROVE FALSE
  <2>1. IsFiniteSet(Older(cursor))
    BY FollowAssumption, FS_Subset DEF Older
  <2>2. Above(v) \subseteq Older(cursor) /\ Above(u) \subseteq Above(v)
    BY <1>2, <1>3
  <2>3. IsFiniteSet(Above(v)) /\ IsFiniteSet(Above(u))
    BY <2>1, <2>2, FS_Subset
  <2>4. /\ Cardinality(Above(u)) \in Nat /\ Cardinality(Above(v)) \in Nat
        /\ Cardinality(Above(u)) <= Cardinality(Above(v))
    BY <2>2, <2>3, FS_Subset, FS_CardinalityType
  <2> HIDE DEF Above
  <2> QED  BY <1>1, <2>4
<1> QED  BY <1>2, <1>3

-----------------------------------------------------------------------------
(* The account's own moves: whom it follows now comes after all the others.*)
LEMMA AccountKeeps ==
    ASSUME FollowInv, NEW u \in Followees, Follow(u) \/ Unfollow(u)
    PROVE  FollowInv'
<1>1. /\ UNCHANGED <<based, known, reported, poll>>
      /\ since \in [Followees -> Nat] /\ follows \in Nat
      /\ known \subseteq Followees /\ poll.fetched \subseteq Followees /\ poll.cursor \in Nat
  BY DEF Follow, Unfollow, FollowInv, FollowRows, PollRow
<1>2. CASE Follow(u)
  <2>1. /\ since[u] = 0 /\ since' \in [Followees -> Nat] /\ since'[u] = follows + 1
        /\ \A v \in Followees \ {u} : since'[v] = since[v]
        /\ follows' = follows + 1 /\ follows' <= MaxFollows /\ unfollowed' = unfollowed
    BY <1>1, <1>2, FollowAssumption DEF Follow, FollowInv, FollowRows
  <2>2. refollowed' \in BOOLEAN /\ (~refollowed' => ~refollowed /\ u \notin unfollowed)
    BY <1>2 DEF Follow, FollowInv, FollowRows
  <2>3. \A v \in Followees : since'[v] <= follows'
    BY <2>1 DEF FollowInv, FollowRows
  <2>4. FollowRows'
    BY <1>1, <2>1, <2>2, <2>3 DEF FollowInv, FollowRows
  <2>5. ~refollowed' => u \notin known \cup poll.fetched
    BY <2>1, <2>2 DEF FollowInv, GoneForGood
  <2>6. GoneForGood'
    BY <1>1, <2>1, <2>2 DEF FollowInv, GoneForGood, FollowRows
  <2>7. \A v \in Followees \ {u} : since'[u] > since'[v]
    BY <1>1, <2>1 DEF FollowInv, FollowRows
  <2>8. ASSUME NEW us \in SUBSET Followees, NEW vs \in SUBSET Followees, Newer(us, vs), u \notin vs
        PROVE  Newer(us, vs)'
    BY <1>1, <2>1, <2>7, <2>8 DEF Newer
  <2>9. ASSUME ~refollowed', poll.at # "idle" PROVE FetchedFromCursor'
    <3>1. FetchedFromCursor /\ u \notin poll.fetched
      BY <2>2, <2>5, <2>9 DEF FollowInv
    <3>2. \A v \in poll.fetched : since'[v] = since[v]
      BY <1>1, <2>1, <3>1
    <3>3. Newer({u}, poll.fetched)'
      BY <1>1, <2>7, <3>1 DEF Newer
    <3>4. ASSUME NEW w \in Followees \ poll.fetched, since'[w] # 0, w # u
          PROVE  since'[w] < poll.cursor \/ Newer({w}, poll.fetched)'
      BY <1>1, <2>1, <3>1, <3>2, <3>4 DEF FetchedFromCursor, Newer
    <3> QED  BY <1>1, <3>1, <3>2, <3>3, <3>4 DEF FetchedFromCursor
  <2> QED  BY <1>1, <2>2, <2>4, <2>5, <2>6, <2>8, <2>9 DEF FollowInv
<1>3. CASE Unfollow(u)
  <2>1. /\ since' \in [Followees -> Nat] /\ since'[u] = 0
        /\ \A v \in Followees \ {u} : since'[v] = since[v]
        /\ follows' = follows /\ refollowed' = refollowed /\ unfollowed' = unfollowed \cup {u}
    BY <1>1, <1>3 DEF Unfollow
  <2>2. FollowRows'
    BY <1>1, <2>1 DEF FollowInv, FollowRows
  <2>3. GoneForGood'
    BY <1>1, <2>1 DEF FollowInv, GoneForGood, FollowRows
  <2>4. ASSUME NEW us \in SUBSET Followees, NEW vs \in SUBSET Followees, Newer(us, vs)
        PROVE  Newer(us, vs)'
    BY <1>1, <2>1, <2>4 DEF Newer
  <2>5. FetchedFromCursor => FetchedFromCursor'
    BY <1>1, <2>1 DEF FetchedFromCursor, Newer
  <2> QED  BY <1>1, <2>1, <2>2, <2>3, <2>4, <2>5 DEF FollowInv
<1> QED  BY <1>2, <1>3

-----------------------------------------------------------------------------
(* One page more: who is not on it is older than everybody on it, or came  *)
(* after the check began.                                                  *)
LEMMA FetchKeeps ==
    ASSUME FollowInv, FetchPage
    PROVE  FollowInv'
<1>1. PICK page, at, cursor :
        /\ page = Page(poll.cursor, PageSize)
        /\ cursor = IF page = {} THEN poll.cursor ELSE Min({since[u] : u \in page})
        /\ poll' = [poll EXCEPT !.at = at, !.fetched = @ \cup page, !.pages = @ + 1, !.cursor = cursor]
        /\ at \in {"fetching", "fetched", "gap"}
        /\ at = "fetched" => Older(poll.cursor) \subseteq page \/ (~poll.baseline /\ page \cap known # {})
  <2> DEFINE news == Page(poll.cursor, PageSize)
             next == Older(poll.cursor) \ news
             reached == next = {} \/ (~poll.baseline /\ news \cap known # {})
             where == IF reached THEN "fetched"
                      ELSE IF poll.pages + 1 = PageLimit THEN "gap" ELSE "fetching"
             last == IF news = {} THEN poll.cursor ELSE Min({since[u] : u \in news})
  <2>1. poll' = [poll EXCEPT !.at = where, !.fetched = @ \cup news, !.pages = @ + 1, !.cursor = last]
    BY DEF FetchPage, AfterPageLimit
  <2>2. where \in {"fetching", "fetched", "gap"}
    OBVIOUS
  <2>3. where = "fetched" => Older(poll.cursor) \subseteq news \/ (~poll.baseline /\ news \cap known # {})
    OBVIOUS
  <2> HIDE DEF where
  <2> QED  BY <2>1, <2>2, <2>3
<1>2. /\ poll.at = "fetching" /\ UNCHANGED <<since, follows, unfollowed, refollowed, based, known, reported>>
  BY DEF FetchPage
<1>3. /\ since \in [Followees -> Nat] /\ known \subseteq Followees
      /\ poll \in PollRow /\ poll.cursor \in Nat /\ PageSize \in Nat
  BY FollowAssumption DEF FollowInv, FollowRows, PollRow, PageSize
<1>4. page \subseteq Older(poll.cursor) /\ page \subseteq Followees
      /\ \A v \in page : since[v] \in Nat /\ since[v] # 0 /\ since[v] < poll.cursor
  BY <1>1, <1>3 DEF Page, Older
<1>5. cursor \in Nat /\ cursor <= poll.cursor
      /\ (\A v \in page : cursor <= since[v]) /\ (page # {} => \E v \in page : cursor = since[v])
  <2>1. CASE page = {}
    BY <1>1, <1>3, <2>1
  <2>2. CASE page # {}
    <3>1. PICK times : times = {since[u] : u \in page}
      OBVIOUS
    <3>2. times \in SUBSET Nat /\ times # {}
      BY <1>4, <2>2, <3>1
    <3>3. cursor \in times /\ \A x \in times : cursor <= x
      BY <1>1, <2>2, <3>1, <3>2, Minimum
    <3>4. PICK v \in page : cursor = since[v]
      BY <3>1, <3>3
    <3>5. cursor <= poll.cursor
      BY <1>3, <1>4, <3>4
    <3> QED  BY <1>4, <3>1, <3>3, <3>4, <3>5
  <2> QED  BY <2>1, <2>2
<1>6. poll' = [at |-> at, baseline |-> poll.baseline, fetched |-> poll.fetched \cup page,
               pages |-> poll.pages + 1, cursor |-> cursor]
  BY <1>1, <1>3 DEF PollRow
<1>7. FollowRows'
  <2>1. poll' \in PollRow
    <3>1. poll.pages + 1 \in Nat /\ poll.baseline \in BOOLEAN /\ poll.fetched \cup page \subseteq Followees
      BY <1>3, <1>4 DEF PollRow
    <3> QED  BY <1>1, <1>5, <1>6, <3>1 DEF PollRow
  <2> QED  BY <1>2, <2>1 DEF FollowInv, FollowRows
<1>8. GoneForGood'
  BY <1>2, <1>4, <1>6 DEF FollowInv, GoneForGood
<1>9. ASSUME NEW u \in Older(poll.cursor) \ page, NEW v \in page PROVE since[u] < since[v]
  BY <1>1, <1>3, PageNewest DEF FollowInv
<1>10. ASSUME ~refollowed,
              NEW u \in Followees \ (poll.fetched \cup page), since[u] # 0, ~(since[u] < poll.cursor)
       PROVE  Newer({u}, poll.fetched \cup page)
  <2>1. Newer({u}, poll.fetched)
    BY <1>2, <1>10 DEF FollowInv, FetchedFromCursor
  <2>2. \A v \in page : since[u] > since[v]
    BY <1>3, <1>4, <1>10
  <2> QED  BY <2>1, <2>2 DEF Newer
<1>11. ASSUME ~refollowed PROVE FetchedFromCursor'
  <2>0. FetchedFromCursor
    BY <1>2, <1>11 DEF FollowInv
  <2>1. ASSUME NEW v \in poll.fetched \cup page, since[v] # 0 PROVE since[v] >= cursor
    <3>1. CASE v \in page
      BY <1>5, <3>1, <1>4
    <3>2. CASE v \in poll.fetched
      <4>1. since[v] >= poll.cursor /\ since[v] \in Nat
        BY <1>3, <2>0, <2>1, <3>2 DEF FetchedFromCursor, PollRow
      <4> QED  BY <1>3, <1>5, <4>1
    <3> QED  BY <2>1, <3>1, <3>2
  <2>2. ASSUME NEW u \in Followees \ (poll.fetched \cup page), since[u] # 0
        PROVE  since[u] < cursor \/ Newer({u}, poll.fetched \cup page)
    <3>1. CASE since[u] < poll.cursor
      <4>1. u \in Older(poll.cursor) \ page
        BY <2>2, <3>1 DEF Older
      <4>2. CASE page = {}
        BY <1>1, <3>1, <4>2
      <4>3. CASE page # {}
        BY <1>5, <1>9, <4>1, <4>3
      <4> QED  BY <4>2, <4>3
    <3> QED  BY <1>10, <1>11, <2>2, <3>1
  <2> QED  BY <1>2, <1>6, <2>1, <2>2 DEF FetchedFromCursor, Newer
<1>12. ASSUME ~refollowed, at = "fetched"
       PROVE  Newer(Followees \ (known \cup poll.fetched \cup page), poll.fetched \cup page)
  <2> SUFFICES ASSUME NEW u \in Followees \ (known \cup poll.fetched \cup page), since[u] # 0
               PROVE  Newer({u}, poll.fetched \cup page)
    BY DEF Newer
  <2>1. CASE ~(since[u] < poll.cursor)
    BY <1>10, <1>12, <2>1
  <2>2. CASE since[u] < poll.cursor
    <3>1. u \in Older(poll.cursor) \ page
      BY <2>2 DEF Older
    <3>2. PICK w \in page : w \in known
      BY <1>1, <1>12, <3>1
    <3>3. since[u] < since[w]
      BY <1>9, <3>1, <3>2
    <3>4. since[u] > since[w]
      BY <1>4, <1>12, <3>2 DEF FollowInv, Newer
    <3>5. since[u] \in Nat /\ since[w] \in Nat
      BY <1>3, <1>4, <3>2
    <3> QED  BY <3>3, <3>4, <3>5
  <2> QED  BY <2>1, <2>2
<1>13. Newer(Followees \ known, known) => Newer(Followees \ known, known)'
  BY <1>2 DEF Newer
<1>14. at = "fetched" /\ ~refollowed
         => Newer(Followees \ (known \cup poll.fetched), poll.fetched)'
  BY <1>2, <1>6, <1>12 DEF Newer
<1>15. poll'.at = at /\ poll'.baseline = poll.baseline /\ poll.baseline = ~based
  BY <1>2, <1>6 DEF FollowInv
<1> HIDE DEF Newer
<1> QED  BY <1>1, <1>2, <1>7, <1>8, <1>11, <1>13, <1>14, <1>15 DEF FollowInv

-----------------------------------------------------------------------------
LEMMA FollowStep == FollowInv /\ [FollowNext]_followVars => FollowInv'
<1> SUFFICES ASSUME FollowInv, [FollowNext]_followVars PROVE FollowInv'
  OBVIOUS
<1>1. ASSUME poll' = NoPoll, UNCHANGED <<since, follows, unfollowed, refollowed, reported, known, based>>
      PROVE  FollowInv'
  BY <1>1 DEF FollowInv, FollowRows, GoneForGood, PollRow, NoPoll, Newer
<1>2. CASE BeginPoll
  <2>1. poll' = [at |-> "fetching", baseline |-> ~based, fetched |-> {}, pages |-> 0, cursor |-> follows + 1]
    BY <1>2 DEF BeginPoll, NoPoll
  <2>2. UNCHANGED <<since, follows, unfollowed, refollowed, based, known, reported>>
    BY <1>2 DEF BeginPoll
  <2>3. FollowRows'
    BY <2>1, <2>2 DEF FollowInv, FollowRows, PollRow
  <2>4. FetchedFromCursor'
    BY <2>1, <2>2 DEF FetchedFromCursor, Newer
  <2> QED  BY <2>1, <2>2, <2>3, <2>4 DEF FollowInv, GoneForGood, Newer
<1>3. CASE CompleteBaseline \/ CompleteIncremental
  <2>1. /\ poll.at = "fetched" /\ poll' = NoPoll /\ known' = known \cup poll.fetched
        /\ UNCHANGED <<since, follows, unfollowed, refollowed>>
        /\ based' = TRUE
        /\ reported' \subseteq known'
    BY <1>3 DEF CompleteBaseline, CompleteIncremental, FollowInv, FollowRows
  <2>2. poll.fetched \subseteq Followees
    BY DEF FollowInv, FollowRows, PollRow
  <2>3. FollowRows' /\ GoneForGood'
    BY <2>1, <2>2 DEF FollowInv, FollowRows, GoneForGood, PollRow, NoPoll
  <2>4. ~refollowed => Newer(Followees \ known, known)'
    BY <2>1 DEF FollowInv, Newer
  <2> QED  BY <2>1, <2>3, <2>4 DEF FollowInv, NoPoll
<1>4. CASE UNCHANGED followVars
  BY <1>4 DEF followVars, FollowInv, FollowRows, GoneForGood, FetchedFromCursor, Newer
<1> QED  BY <1>1, <1>2, <1>3, <1>4, AccountKeeps, FetchKeeps DEF FollowNext, PollFails

LEMMA FollowInvariance == FollowSpec => []FollowInv
BY FollowInitSound, FollowStep, PTL DEF FollowSpec

(* No new follow is passed over, and nobody is reported who is not known:  *)
(* whoever is not known yet was followed after everybody who is, unless    *)
(* the account has followed somebody again (fetchBaseline,                 *)
(* fetchIncremental, run).                                                 *)
THEOREM NoFollowMissed == FollowSpec => []FollowsReported
<1>1. FollowInv => FollowsReported
  BY DEF FollowInv, FollowsReported, Newer
<1> QED  BY <1>1, FollowInvariance, PTL

(* A check keeps to its steps and to the accounts there are.               *)
THEOREM FollowTyped == FollowSpec => []FollowTypeOK
<1>1. FollowInv => FollowTypeOK
  <2> SUFFICES ASSUME FollowInv PROVE FollowTypeOK
    OBVIOUS
  <2>1. \A u \in Followees : since[u] \in 0 .. MaxFollows
    BY FollowAssumption DEF FollowInv, FollowRows
  <2> QED  BY <2>1 DEF FollowInv, FollowRows, FollowTypeOK, PollRow
<1> QED  BY <1>1, FollowInvariance, PTL
=============================================================================
