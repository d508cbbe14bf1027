---------------------------- MODULE StreamConnection ----------------------------
(***************************************************************************)
(* Who listens to the provider's stream (6551/wss-consumer.js).  Several   *)
(* processes may run a consumer; an advisory lock of the database chooses  *)
(* the one that connects, the others ask again every second.  A consumer   *)
(* has one current socket and one heartbeat, but nothing stops two of its  *)
(* own calls from connecting twice: the socket that loses its place lives  *)
(* on as a stray, whose handlers still work on the current one.            *)
(*                                                                         *)
(* A process that ends is started again (scripts/supervisor.js).  Its      *)
(* session, or one whose connection broke, may keep the lock for a while.  *)
(***************************************************************************)
EXTENDS Naturals

CONSTANTS
    Consumers,
    MaxUpsets       \* bound: lost locks and sockets, failing calls, dying processes

ASSUME StreamAssumption == MaxUpsets \in Nat

VARIABLES
    lock,           \* the advisory lock: free, held by a consumer, or by a "ghost"
    consumer,       \* what each consumer has in memory
    upsets

streamVars == <<lock, consumer, upsets>>

(* lockClient is set; start() calls that wait for the lock, and for the    *)
(* recovery of pending events; scheduleReconnect's timer; the current      *)
(* socket, its heartbeat, and the strays, of which some are closing; the   *)
(* process's first start is under way; the consumer is stopped because it  *)
(* is not enabled, or its first start failed.                              *)
SocketStates == {"none", "connecting", "open", "subscribed", "dead", "closing"}
Started == [holds |-> FALSE, locking |-> 1, recovering |-> 0, timer |-> FALSE,
            ws |-> "none", beat |-> FALSE, strays |-> 0, closing |-> 0,
            first |-> TRUE, stopped |-> FALSE]
Disabled == [Started EXCEPT !.locking = 0, !.stopped = TRUE]

StreamInit ==
    /\ lock = "free"
    /\ consumer \in {[c \in Consumers |-> Started], [c \in Consumers |-> Disabled]}
    /\ upsets = 0

-----------------------------------------------------------------------------
(* The current socket loses its place, by a new one or by a stray's end.   *)
Displaced(s) ==
    IF s.ws = "none" THEN s
    ELSE IF s.ws = "closing" THEN [s EXCEPT !.ws = "none", !.closing = @ + 1]
    ELSE [s EXCEPT !.ws = "none", !.strays = @ + 1]

(* scheduleReconnect                                                       *)
ReconnectScheduled(s) == [s EXCEPT !.timer = TRUE]

(* connect: without the lock it does nothing                               *)
Connected(s) ==
    IF ~s.holds THEN s
    ELSE [Displaced(s) EXCEPT !.timer = FALSE, !.beat = FALSE, !.ws = "connecting"]

(* A socket's close event, whichever socket it is                          *)
SocketGone(s) == ReconnectScheduled([Displaced(s) EXCEPT !.beat = FALSE])

Become(c, s) == consumer' = [consumer EXCEPT ![c] = s]
Quietly == UNCHANGED upsets
Upset == upsets < MaxUpsets /\ upsets' = upsets + 1

-----------------------------------------------------------------------------
(* start and the timer of scheduleReconnect                                *)
ReconnectFires(c) ==
    LET s == [consumer[c] EXCEPT !.timer = FALSE] IN
    /\ consumer[c].timer
    /\ Become(c, IF s.holds THEN Connected(s) ELSE [s EXCEPT !.locking = @ + 1])
    /\ Quietly /\ UNCHANGED lock

(* Slip: a consumer that stands by does not ask again.                     *)
StandBy(s) == s

(* Another session has the lock: standby, and ask again later.             *)
LockRefused(s) == ReconnectScheduled(s)

LockAnswers(c) ==
    LET s == [consumer[c] EXCEPT !.locking = @ - 1, !.first = FALSE] IN
    /\ consumer[c].locking > 0
    /\ \/ /\ lock = "free" /\ lock' = "held"
          /\ Become(c, [s EXCEPT !.holds = TRUE, !.recovering = @ + 1])
       \/ /\ lock # "free" /\ UNCHANGED lock
          /\ Become(c, LockRefused(s))
    /\ Quietly

(* The database fails.  The timer's start is tried again; nobody tries a   *)
(* process's first one again.                                              *)
LockFails(c) ==
    LET s == [consumer[c] EXCEPT !.locking = @ - 1, !.first = FALSE] IN
    /\ consumer[c].locking > 0
    /\ Become(c, IF consumer[c].first THEN [s EXCEPT !.stopped = TRUE] ELSE ReconnectScheduled(s))
    /\ Upset /\ UNCHANGED lock

(* The rest of start, after recoverPending                                 *)
Recovered(c) ==
    /\ consumer[c].recovering > 0
    /\ Become(c, Connected([consumer[c] EXCEPT !.recovering = @ - 1]))
    /\ Quietly /\ UNCHANGED lock

-----------------------------------------------------------------------------
(* The current socket and its heartbeat.  A stray's own heartbeat looks at *)
(* the current socket too; the model does without.                         *)
SocketOpens(c) ==
    /\ consumer[c].ws = "connecting"
    /\ Become(c, [consumer[c] EXCEPT !.ws = "open", !.beat = TRUE])
    /\ Quietly /\ UNCHANGED lock

SubscriptionAnswered(c) ==
    /\ consumer[c].ws = "open"
    /\ \/ Become(c, [consumer[c] EXCEPT !.ws = "subscribed"]) /\ Quietly
       \/ Become(c, [consumer[c] EXCEPT !.ws = "closing"]) /\ Upset
    /\ UNCHANGED lock

(* The provider goes quiet without closing.                                *)
SocketDies(c) ==
    /\ consumer[c].ws \in {"open", "subscribed"}
    /\ Become(c, [consumer[c] EXCEPT !.ws = "dead"])
    /\ Upset /\ UNCHANGED lock

HeartbeatCloses(c) ==
    /\ consumer[c].ws = "dead" /\ consumer[c].beat
    /\ Become(c, [consumer[c] EXCEPT !.ws = "closing"])
    /\ Quietly /\ UNCHANGED lock

CurrentCloses(c) ==
    LET s == consumer[c] IN
    /\ s.ws # "none"
    /\ IF s.ws = "closing" THEN Quietly ELSE Upset
    /\ Become(c, SocketGone([s EXCEPT !.ws = "none"]))
    /\ UNCHANGED lock

StrayCloses(c) ==
    LET s == consumer[c] IN
    /\ \/ s.closing > 0 /\ Quietly /\ Become(c, SocketGone([s EXCEPT !.closing = @ - 1]))
       \/ s.strays > 0 /\ Upset /\ Become(c, SocketGone([s EXCEPT !.strays = @ - 1]))
    /\ UNCHANGED lock

-----------------------------------------------------------------------------
(* Slip: the end of the socket is always waited for.                       *)
WithoutLockWaiting(s) ==
    [s EXCEPT !.holds = FALSE, !.ws = IF @ = "none" THEN @ ELSE "closing"]

(* The lock's connection breaks; the server may notice at once or later.   *)
WithoutLock(s) ==
    IF s.ws # "none" THEN [s EXCEPT !.holds = FALSE, !.ws = "closing"]
    ELSE ReconnectScheduled([s EXCEPT !.holds = FALSE])

LockLost(c) ==
    /\ consumer[c].holds
    /\ lock' \in {"free", "ghost"}
    /\ Become(c, WithoutLock(consumer[c]))
    /\ Upset

GhostExpires ==
    /\ lock = "ghost" /\ lock' = "free"
    /\ UNCHANGED <<consumer, upsets>>

(* The process ends and the supervisor starts it again, for new settings   *)
(* or because it failed.                                                   *)
ProcessRestarts(c) ==
    /\ lock' \in IF consumer[c].holds THEN {"free", "ghost"} ELSE {lock}
    /\ Become(c, Started)
    /\ Upset

-----------------------------------------------------------------------------
StreamWork(c) ==
    \/ ReconnectFires(c) \/ LockAnswers(c) \/ Recovered(c) \/ SocketOpens(c)
    \/ SubscriptionAnswered(c) \/ HeartbeatCloses(c) \/ CurrentCloses(c) \/ StrayCloses(c)

StreamNext ==
    \/ \E c \in Consumers :
           StreamWork(c) \/ LockFails(c) \/ SocketDies(c) \/ LockLost(c) \/ ProcessRestarts(c)
    \/ GhostExpires

StreamSpec == StreamInit /\ [][StreamNext]_streamVars

-----------------------------------------------------------------------------
ConsumerType ==
    [holds : BOOLEAN, locking : Nat, recovering : Nat, timer : BOOLEAN,
     ws : SocketStates, beat : BOOLEAN, strays : Nat, closing : Nat,
     first : BOOLEAN, stopped : BOOLEAN]

StreamTypeOK ==
    /\ lock \in {"free", "held", "ghost"}
    /\ consumer \in [Consumers -> ConsumerType]
    /\ upsets \in 0..MaxUpsets

(* A consumer is never left with nothing to wait for: unless it is stopped *)
(* it has a socket, a timer or a start under way, and a socket that is     *)
(* open has a heartbeat to notice when it dies, though strays and lost     *)
(* locks reset both timers and the current socket in any order.            *)
UnderWay(s) ==
    /\ s.stopped \/ s.ws # "none" \/ s.timer \/ s.locking > 0 \/ (s.recovering > 0 /\ s.holds)
    /\ s.ws \in {"open", "subscribed", "dead"} => s.beat
NeverIdle == \A c \in Consumers : UnderWay(consumer[c])

(* Locks and sockets lost, by whatever order of their events, leave one    *)
(* consumer subscribed in the end, if there is one that is not stopped.    *)
Listening(c) == consumer[c].holds /\ consumer[c].ws = "subscribed"
ConnectionKept == <>[](\/ \E c \in Consumers : Listening(c)
                       \/ \A c \in Consumers : consumer[c].stopped)
=============================================================================
