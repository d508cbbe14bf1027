----------------------------- MODULE SignalIntake -----------------------------
(***************************************************************************)
(* From an event of the provider to signals.  The stream consumer          *)
(* (wss-consumer.js) writes what it receives to an inbox and processes it  *)
(* in the order of arrival; a timer resumes events that are still pending  *)
(* (event-inbox.js).  Processing is one transaction: the activities of the *)
(* event (normalizer.js, x-monitor/queries.js), their matches with the     *)
(* active rows (matcher.js) and the signals (signal/queries.js).  The other*)
(* providers (webhook, timeline) write activities that are matched outside *)
(* of a transaction, by themselves or by the signal-matcher job.           *)
(*                                                                         *)
(* A behaviour is what an account did: one tweet, one follow.  Unique keys *)
(* make an insert wait for the other transaction, and then find the row.   *)
(***************************************************************************)
EXTENDS Naturals, Sequences, FiniteSets

CONSTANTS
    Inbound,        \* provider events
    Behaviours,
    Items,          \* Inbound -> Seq(Behaviours): normalize6551Event
    Kind,           \* Behaviours -> {"tweet", "follow", "unfollow"}
    Malformed,      \* events without a needed field, or whose target stays unknown
    Unstable,       \* events without an id
    Unknown,        \* events of accounts that are not enabled
    MatchedTokens,  \* Behaviours -> contracts of active rows: groupActivityMatches, by contract
    MaxTries,       \* attempts before an event is given up (code: 3)
    MaxCrashes

ASSUME IntakeAssumption == MaxTries \in Nat \ {0} /\ MaxCrashes \in Nat

VARIABLES
    inbox,          \* x_provider_events
    activities,     \* x_activities: [event, behaviour]
    unmatched,      \* ... those with processed = false
    signals,        \* trade_signals: [behaviour, token], the canonical key
    once,           \* x_follow_signal_once: tokens a follow has given a signal for
    stream,         \* processingQueue: events on their way
    intake,         \* what the stream and the resumption are at
    stranded,       \* history: events a crash caught in processing
    crashes

intakeVars == <<inbox, activities, unmatched, signals, once, stream, intake, stranded, crashes>>

-----------------------------------------------------------------------------
Workers == {"stream", "resume"}
NoWrites == [activities |-> {}, signals |-> {}, once |-> {}]
IntakeAtRest == [at |-> "idle", event |-> "none", list |-> {}, writes |-> NoWrites]
OtherProvider == "other"

ASSUME EventsAssumption ==
    /\ OtherProvider \notin Inbound
    /\ \A e \in Inbound : Items[e] \in Seq(Behaviours) /\ Items[e] # <<>>

IntakeInit ==
    /\ inbox = [e \in Inbound |-> [status |-> "none", tries |-> 0]]
    /\ activities = {} /\ unmatched = {} /\ signals = {} /\ once = {}
    /\ stream = <<>>
    /\ intake = [w \in Workers |-> IntakeAtRest]
    /\ stranded = {} /\ crashes = 0

(* insertActivity: ON CONFLICT DO NOTHING, on the event of the account and *)
(* on the tweet.                                                           *)
KnownActivity(e, b) ==
    \E a \in activities : (e # OtherProvider /\ a.event = e) \/ (Kind[b] # "follow" /\ a.behaviour = b)

(* All items of one event carry one provider_event_id: the first is kept.  *)
NewActivities(e) ==
    IF e \in Unknown \/ KnownActivity(e, Items[e][1]) THEN {}
    ELSE {[event |-> e, behaviour |-> Items[e][1]]}

(* matchActivity and insertSignal.  A follow gives a row one signal ever.  *)
NewSignals(b) ==
    {[behaviour |-> b, token |-> t] :
        t \in {u \in MatchedTokens[b] :
                 /\ Kind[b] # "unfollow"
                 /\ Kind[b] = "follow" => u \notin once}} \ signals
FollowMarks(b) == IF Kind[b] = "follow" THEN MatchedTokens[b] ELSE {}

-----------------------------------------------------------------------------
(* The inbox.                                                              *)

SetEvent(e, status) == inbox' = [inbox EXCEPT ![e].status = status]

(* insertInboxEvent, and a place in the stream for a new event; a second   *)
(* delivery changes nothing.                                               *)
Receive(e) ==
    /\ inbox[e].status = "none"
    /\ SetEvent(e, IF e \in Unstable THEN "dead_letter" ELSE "pending")
    /\ stream' = IF e \in Unstable THEN stream ELSE Append(stream, e)
    /\ UNCHANGED <<activities, unmatched, signals, once, intake, stranded, crashes>>

(* resumePending: the list is read once.                                   *)
ResumeReads ==
    LET pending == {e \in Inbound : inbox[e].status = "pending"} IN
    /\ intake["resume"] = IntakeAtRest /\ pending # {}
    /\ intake' = [intake EXCEPT !["resume"].list = pending]
    /\ UNCHANGED <<inbox, activities, unmatched, signals, once, stream, stranded, crashes>>

(* processInboxEvent marks the event whatever its status is by now.        *)
Take(w, e) ==
    /\ intake[w].at = "idle"
    /\ \/ w = "stream" /\ stream # <<>> /\ e = Head(stream) /\ stream' = Tail(stream)
       \/ w = "resume" /\ e \in intake[w].list /\ UNCHANGED stream
    /\ inbox' = [inbox EXCEPT ![e] = [status |-> "processing", tries |-> @.tries + 1]]
    /\ intake' = [intake EXCEPT ![w].at = "taken", ![w].event = e, ![w].list = @ \ {e}]
    /\ UNCHANGED <<activities, unmatched, signals, once, stranded, crashes>>

(* Keys an open transaction has written make the other one wait.           *)
Blocked(w, e) ==
    \E v \in Workers \ {w} :
        LET writes == intake[v].writes IN
        \/ \E a \in writes.activities : a.event = e \/ a.behaviour = Items[e][1]
        \/ \E s \in writes.signals : s.behaviour = Items[e][1]
        \/ writes.once \cap FollowMarks(Items[e][1]) # {}

(* Slip: the activities are not part of the transaction.                   *)
WorkOutsideTransaction(w) ==
    LET e == intake[w].event
        new == NewActivities(e)
    IN
    /\ intake[w].at = "taken" /\ e \notin Malformed /\ ~Blocked(w, e)
    /\ activities' = activities \cup new
    /\ intake' = [intake EXCEPT ![w].at = "worked", ![w].writes =
                    [activities |-> new, signals |-> UNION {NewSignals(a.behaviour) : a \in new},
                     once |-> UNION {FollowMarks(a.behaviour) : a \in new}]]
    /\ UNCHANGED <<inbox, unmatched, signals, once, stream, stranded, crashes>>

Work(w) ==
    LET e == intake[w].event
        new == NewActivities(e)
    IN
    /\ intake[w].at = "taken" /\ e \notin Malformed /\ ~Blocked(w, e)
    /\ intake' = [intake EXCEPT ![w].at = "worked", ![w].writes =
                    [activities |-> new, signals |-> UNION {NewSignals(a.behaviour) : a \in new},
                     once |-> UNION {FollowMarks(a.behaviour) : a \in new}]]
    /\ UNCHANGED <<inbox, activities, unmatched, signals, once, stream, stranded, crashes>>

Rest(w) == intake' = [intake EXCEPT ![w] = [IntakeAtRest EXCEPT !.list = intake[w].list]]

Commit(w) ==
    LET writes == intake[w].writes IN
    /\ intake[w].at = "worked"
    /\ activities' = activities \cup writes.activities
    /\ signals' = signals \cup writes.signals
    /\ once' = once \cup writes.once
    /\ SetEvent(intake[w].event, IF writes.activities # {} THEN "processed" ELSE "ignored")
    /\ Rest(w)
    /\ UNCHANGED <<unmatched, stream, stranded, crashes>>

(* Slip: an event that fails is left as it is.                             *)
StatusLeftAlone(e) == IF inbox[e].tries >= MaxTries THEN "dead_letter" ELSE inbox[e].status

StatusAfterFailure(e) == IF inbox[e].tries >= MaxTries THEN "dead_letter" ELSE "pending"

(* Malformed, an enrichment that fails, or the database.                   *)
Fail(w) ==
    /\ intake[w].at \in {"taken", "worked"}
    /\ SetEvent(intake[w].event, StatusAfterFailure(intake[w].event))
    /\ Rest(w)
    /\ UNCHANGED <<activities, unmatched, signals, once, stream, stranded, crashes>>

(* The consumer's process dies.                                            *)
ConsumerCrashes ==
    /\ crashes < MaxCrashes
    /\ crashes' = crashes + 1
    /\ stranded' = stranded \cup {intake[w].event : w \in {v \in Workers : intake[v].at # "idle"}}
    /\ intake' = [w \in Workers |-> IntakeAtRest] /\ stream' = <<>>
    /\ UNCHANGED <<inbox, activities, unmatched, signals, once>>

-----------------------------------------------------------------------------
(* Webhook and timeline, and the job that matches what they left.          *)

OtherActivity(b) ==
    LET a == [event |-> OtherProvider, behaviour |-> b] IN
    /\ Kind[b] = "tweet" /\ ~KnownActivity(OtherProvider, b)
    /\ \A w \in Workers : \A c \in intake[w].writes.activities : c.behaviour # b
    /\ activities' = activities \cup {a} /\ unmatched' = unmatched \cup {a}
    /\ UNCHANGED <<inbox, signals, once, stream, intake, stranded, crashes>>

(* One signal at a time; the activity is marked when all are written.      *)
MatchSome(a) ==
    /\ a \in unmatched
    /\ \E s \in NewSignals(a.behaviour) : signals' = signals \cup {s}
    /\ UNCHANGED <<inbox, activities, unmatched, once, stream, intake, stranded, crashes>>

MarkMatched(a) ==
    /\ a \in unmatched /\ NewSignals(a.behaviour) = {}
    /\ unmatched' = unmatched \ {a}
    /\ UNCHANGED <<inbox, activities, signals, once, stream, intake, stranded, crashes>>

-----------------------------------------------------------------------------
IntakeWork(w) == Work(w) \/ Commit(w) \/ Fail(w) \/ \E e \in Inbound : Take(w, e)

IntakeNext ==
    \/ \E e \in Inbound : Receive(e)
    \/ ResumeReads \/ ConsumerCrashes
    \/ \E w \in Workers : IntakeWork(w)
    \/ \E b \in Behaviours : OtherActivity(b)
    \/ \E a \in unmatched : MatchSome(a) \/ MarkMatched(a)

IntakeSpec == IntakeInit /\ [][IntakeNext]_intakeVars

-----------------------------------------------------------------------------
IntakeTypeOK ==
    /\ \A e \in Inbound : inbox[e].status \in {"none", "pending", "processing", "processed",
                                               "ignored", "dead_letter"}
    /\ unmatched \subseteq activities
    /\ \A w \in Workers : intake[w].at \in {"idle", "taken", "worked"}

(* An event counts as done only with an activity in the database, and an   *)
(* activity that counts as matched has the signals of all rows it matches, *)
(* whatever was delivered twice, processed twice, rolled back or cut short.*)
IntakeAccounted ==
    /\ \A e \in Inbound :
          inbox[e].status \in {"processed", "ignored"} => e \in Unknown \/ KnownActivity(e, Items[e][1])
    /\ \A a \in activities \ unmatched : NewSignals(a.behaviour) = {}

(* An event that has reached the inbox is done or given up in the end,     *)
(* unless the process died with it in hand: nothing takes up an event that *)
(* is left in processing.                                                  *)
EventSettled ==
    \A e \in Inbound :
        []<>(inbox[e].status \in {"none", "processed", "ignored", "dead_letter"} \/ e \in stranded)
=============================================================================
