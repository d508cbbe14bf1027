----------------------------- MODULE RateScheduler -----------------------------
(***************************************************************************)
(* The weighted token bucket in front of the provider                      *)
(* (gmgn-rate-scheduler.js) and the requests that go through it            *)
(* (gmgn-http.js).  A request waits in one queue, ordered by priority,     *)
(* deadline and arrival; a trade reserves its whole weight beforehand and  *)
(* spends it in several requests.  One tick is the time in which one unit  *)
(* of weight is refilled; times are kept as what is left of them.          *)
(***************************************************************************)
EXTENDS Naturals, Sequences, FiniteSets, SequencesExt, FiniteSetsExt, Totals

CONSTANTS
    Requesters,
    Weight,             \* Requesters -> weight: endpointWeight, or a reservation
    Requests,           \* Requesters -> weights of the requests a caller sends
    Priority,           \* Requesters -> 0..5
    Deadline,           \* Requesters -> ticks, or Never
    Capacity,           \* code: 7
    Cooldown,           \* ticks the provider closes the door for
    MaxRefusals         \* bound: 429 answers

(* No deadline, or no timer: later than any number of ticks counted here.  *)
Never == 99

ASSUME RateAssumption ==
    /\ \A c \in Requesters : Weight[c] \in 1..Capacity /\ Priority[c] \in 0..5
    /\ Deadline \in [Requesters -> 1..Never]
    /\ \A c \in Requesters : Requests[c] \subseteq 1..Weight[c]
    /\ Capacity \in 1..(Never - 1) /\ Cooldown \in 1..(Never - 2) /\ MaxRefusals \in Nat

VARIABLES
    tokens,
    waiting,            \* the queue: callers in the order of their requests
    left,               \* time to the deadline of each caller
    lease,              \* weight a caller holds
    answer,             \* "none", "waits", "granted", "expired", "done"
    cooldown,
    timer,              \* ticks until _drain runs by itself, or Never
    refusals

rateVars == <<tokens, waiting, left, lease, answer, cooldown, timer, refusals>>

RateInit ==
    /\ tokens = Capacity /\ waiting = <<>>
    /\ left = Deadline
    /\ lease = [c \in Requesters |-> 0]
    /\ answer = [c \in Requesters |-> "none"]
    /\ cooldown = 0 /\ timer = Never /\ refusals = 0

-----------------------------------------------------------------------------
(* The comparison of _drain; the sort is stable, so arrival decides last.  *)
Before(c, d) ==
    \/ Priority[c] < Priority[d]
    \/ Priority[c] = Priority[d] /\ left[c] < left[d]

(* Slip: a request joins the end of the queue.                             *)
InOrderOfArrival(queue, c) == Append(queue, c)

(* The queue is in this order already, all deadlines come nearer together. *)
InOrder(queue, c) ==
    InsertAt(queue, 1 + Cardinality({i \in 1..Len(queue) : ~Before(c, queue[i])}), c)

TotalWeight(queue) == Total([i \in DOMAIN queue |-> Weight[queue[i]]], DOMAIN queue)

(* The requests whose deadline has not come, in their order.               *)
Unexpired(queue) ==
    LET kept[n \in 0..Len(queue)] ==
          IF n = 0 THEN <<>>
          ELSE IF left[queue[n]] > 0 THEN Append(kept[n - 1], queue[n]) ELSE kept[n - 1]
    IN  kept[Len(queue)]

(* How many requests at the head of the queue the bucket pays for: the     *)
(* first that does not fit stops the ones behind it.                       *)
Served(queue, budget) ==
    Max({n \in 0..Len(queue) : TotalWeight(SubSeq(queue, 1, n)) <= budget})

Missing(queue, budget) ==
    LET n == Served(queue, budget) IN Weight[queue[n + 1]] - (budget - TotalWeight(SubSeq(queue, 1, n)))

(* Slip: behind a closed door nothing is scheduled.                        *)
NoTimerInCooldown(queue, budget, closed, current) ==
    IF closed > 0 \/ Served(queue, budget) = Len(queue) THEN current ELSE Missing(queue, budget)

(* One timer, set anew for the head of what is left; the 1 is the jitter.  *)
TimerAfter(queue, budget, closed, current) ==
    IF queue # <<>> /\ closed > 0 THEN closed + 1
    ELSE IF Served(queue, budget) = Len(queue) THEN current ELSE Missing(queue, budget)

(* _drain: expired requests are refused, the others served in their order. *)
Drain(queue, budget, closed, held, old, current) ==
    LET alive == Unexpired(queue)
        n == IF closed > 0 THEN 0 ELSE Served(alive, budget)
        granted == ToSet(SubSeq(alive, 1, n))
    IN
    /\ waiting' = SubSeq(alive, n + 1, Len(alive))
    /\ tokens' = budget - TotalWeight(SubSeq(alive, 1, n))
    /\ lease' = [c \in Requesters |-> IF c \in granted THEN Weight[c] ELSE held[c]]
    /\ answer' = [c \in Requesters |->
                    IF c \in granted THEN "granted"
                    ELSE IF c \in ToSet(queue) THEN (IF left[c] > 0 THEN "waits" ELSE "expired")
                    ELSE old[c]]
    /\ timer' = TimerAfter(alive, budget, closed, current)

-----------------------------------------------------------------------------
Acquire(c) ==
    /\ answer[c] = "none"
    /\ Drain(InOrder(waiting, c), tokens, cooldown, lease, answer, timer)
    /\ UNCHANGED <<left, cooldown, refusals>>

AtLeast0(n) == IF n = 0 THEN 0 ELSE n - 1

Tick ==
    /\ tokens' = Min({Capacity, tokens + 1})
    /\ left' = [c \in Requesters |-> IF answer[c] = "waits" /\ left[c] # Never THEN AtLeast0(left[c]) ELSE left[c]]
    /\ cooldown' = AtLeast0(cooldown)
    /\ timer' = IF timer = Never THEN Never ELSE AtLeast0(timer)
    /\ UNCHANGED <<waiting, lease, answer, refusals>>

TimerFires ==
    /\ timer = 0
    /\ Drain(waiting, tokens, cooldown, lease, answer, Never)
    /\ UNCHANGED <<left, cooldown, refusals>>

(* A request of a caller that holds a lease: consume, then fetch.  Parts of*)
(* a reservation go to one request each.                                   *)
Consume(c, part) ==
    /\ part <= lease[c]
    /\ lease' = [lease EXCEPT ![c] = @ - part]
    /\ answer' = [answer EXCEPT ![c] = IF lease[c] = part THEN "done" ELSE @]
    /\ UNCHANGED <<tokens, waiting, left, cooldown, timer, refusals>>

(* What is not used goes back.                                             *)
Release(c) ==
    /\ lease[c] > 0
    /\ Drain(waiting, Min({Capacity, tokens + lease[c]}), cooldown,
             [lease EXCEPT ![c] = 0], [answer EXCEPT ![c] = "done"], timer)
    /\ UNCHANGED <<left, cooldown, refusals>>

(* The answer to a request is 429.                                         *)
Observe429 ==
    /\ refusals < MaxRefusals /\ \E c \in Requesters : answer[c] \in {"granted", "done"}
    /\ refusals' = refusals + 1
    /\ cooldown' = Max({cooldown, Cooldown})
    /\ Drain(waiting, tokens, Max({cooldown, Cooldown}), lease, answer, timer)
    /\ UNCHANGED left

-----------------------------------------------------------------------------
CallerUses(c) == Release(c) \/ \E part \in Requests[c] : Consume(c, part)

RateNext ==
    \/ Tick \/ TimerFires \/ Observe429
    \/ \E c \in Requesters : Acquire(c) \/ CallerUses(c)

RateSpec == RateInit /\ [][RateNext]_rateVars

-----------------------------------------------------------------------------
RateTypeOK ==
    /\ tokens \in 0..Capacity
    /\ \A c \in Requesters : lease[c] \in 0..Weight[c]
    /\ \A c \in Requesters : answer[c] \in {"none", "waits", "granted", "expired", "done"}
    /\ \A c \in Requesters : (answer[c] = "waits") <=> (c \in ToSet(waiting))

(* A request is granted only if none that goes on waiting comes before it, *)
(* by priority and deadline: no weight that happens to fit, cooldown,      *)
(* returned lease or passing of time lets one overtake another (_drain's   *)
(* sort and the loop that stops at the first that does not fit).           *)
ServedInOrder ==
    [][\A c, d \in Requesters :
          answer[c] # "granted" /\ answer'[c] = "granted" /\ answer'[d] = "waits"
             => ~Before(d, c)]_rateVars

(* Whoever waits has a timer set for him: nothing but the timer looks at   *)
(* the queue again if nobody else asks, returns a lease or is refused      *)
(* (every return of _drain either schedules or leaves an empty queue).     *)
WaitersTimed == waiting # <<>> => timer # Never

(* A request that waits is granted or refused in the end: whatever is asked*)
(* beside it, however long others sit on their reservations, and although  *)
(* the provider closes the door, some timer is always set for it.          *)
RequestAnswered == \A c \in Requesters : []<>(answer[c] # "waits")
=============================================================================
