------------------------- MODULE SupportServicesProofs -------------------------
(***************************************************************************)
(* The services a signal depends on, each for any instance:                *)
(*                                                                         *)
(* The stream: no order of lost locks, lost sockets, failing calls and     *)
(* dying processes leaves a consumer with nothing to wait for.             *)
(*                                                                         *)
(* The scheduler: requests are granted in the order of their arrival, and  *)
(* whoever waits has a timer.                                              *)
(*                                                                         *)
(* Research: no order of failures, cancellations, retries and deaths leaves*)
(* a job with a status its items do not have, the lost writes aside.       *)
(*                                                                         *)
(* The watches keep their types, and the services together do what each of *)
(* them does by itself.                                                    *)
(***************************************************************************)
EXTENDS SupportServices, WhitelistActivationProofs, SignalIntakeProofs, TotalsProofs, SequenceTheorems

(***************************************************************************)
(* The stream.                                                             *)
(***************************************************************************)

(* The invariant is inductive as it stands: every handler leaves its own   *)
(* consumer sound and the others alone.                                    *)
Sound(s) == s \in ConsumerType /\ UnderWay(s)
StreamInv ==
    /\ lock \in {"free", "held", "ghost"}
    /\ upsets \in 0..MaxUpsets
    /\ consumer \in [Consumers -> ConsumerType]
    /\ \A c \in Consumers : UnderWay(consumer[c])

(* What the handlers make of a consumer is sound whatever it was doing.    *)
LEMMA ScheduledSound ==
    ASSUME NEW s \in ConsumerType, s.ws \in {"open", "subscribed", "dead"} => s.beat
    PROVE  Sound(ReconnectScheduled(s))
BY DEF Sound, ReconnectScheduled, ConsumerType, UnderWay, SocketStates

LEMMA DisplacedTyped ==
    ASSUME NEW s \in ConsumerType
    PROVE  Displaced(s) \in ConsumerType /\ Displaced(s).ws = "none"
<1>1. "none" \in SocketStates
  BY DEF SocketStates
<1>2. ASSUME NEW n \in Nat
      PROVE  /\ [s EXCEPT !.ws = "none", !.closing = n] \in ConsumerType
             /\ [s EXCEPT !.ws = "none", !.closing = n].ws = "none"
  BY <1>1 DEF ConsumerType
<1>3. ASSUME NEW n \in Nat
      PROVE  /\ [s EXCEPT !.ws = "none", !.strays = n] \in ConsumerType
             /\ [s EXCEPT !.ws = "none", !.strays = n].ws = "none"
  BY <1>1 DEF ConsumerType
<1>4. s.closing + 1 \in Nat /\ s.strays + 1 \in Nat
  BY DEF ConsumerType
<1> QED
  BY <1>2, <1>3, <1>4 DEF Displaced

LEMMA GoneSound ==
    ASSUME NEW s \in ConsumerType
    PROVE  Sound(SocketGone(s))
<1> DEFINE d == [Displaced(s) EXCEPT !.beat = FALSE]
<1>1. d \in ConsumerType /\ d.ws = "none"
  BY DisplacedTyped DEF ConsumerType
<1> QED
  BY <1>1, ScheduledSound DEF SocketGone

LEMMA ConnectedSound ==
    ASSUME NEW s \in ConsumerType, s.holds
    PROVE  Sound(Connected(s))
<1>1. Displaced(s) \in ConsumerType
  BY DisplacedTyped
<1> QED
  BY <1>1 DEF Connected, Sound, ConsumerType, UnderWay, SocketStates

LEMMA WithoutLockSound ==
    ASSUME NEW s \in ConsumerType, UnderWay(s)
    PROVE  Sound(WithoutLock(s))
BY DEF WithoutLock, ReconnectScheduled, Sound, ConsumerType, UnderWay, SocketStates

LEMMA CallSound ==
    ASSUME NEW s \in ConsumerType, s.ws \in {"open", "subscribed", "dead"} => s.beat
    PROVE  Sound([s EXCEPT !.locking = @ + 1])
<1> DEFINE calls == [s EXCEPT !.locking = @ + 1]
<1>1. calls \in ConsumerType
  BY DEF ConsumerType
<1>2. calls.locking > 0 /\ calls.ws = s.ws /\ calls.beat = s.beat
  BY DEF ConsumerType
<1> QED
  BY <1>1, <1>2 DEF Sound, UnderWay

LEMMA LockGotSound ==
    ASSUME NEW s \in ConsumerType, s.ws \in {"open", "subscribed", "dead"} => s.beat
    PROVE  Sound([s EXCEPT !.holds = TRUE, !.recovering = @ + 1])
<1> DEFINE got == [s EXCEPT !.holds = TRUE, !.recovering = @ + 1]
<1>1. s.recovering + 1 \in Nat /\ s.recovering + 1 > 0
  BY DEF ConsumerType
<1>2. got \in ConsumerType
  BY <1>1 DEF ConsumerType
<1>3. got.holds /\ got.recovering > 0 /\ got.ws = s.ws /\ got.beat = s.beat
  BY <1>1 DEF ConsumerType
<1> QED
  BY <1>2, <1>3 DEF Sound, UnderWay

LEMMA StartedSound == Sound(Started) /\ Sound(Disabled)
<1>1. "none" \in SocketStates
  BY DEF SocketStates
<1>2. Started \in ConsumerType
  BY <1>1 DEF Started, ConsumerType
<1>3. /\ Disabled \in ConsumerType
      /\ Disabled.stopped /\ Disabled.ws = Started.ws
  BY <1>2 DEF Disabled, ConsumerType
<1>4. Started.locking > 0 /\ Started.ws = "none"
  BY DEF Started
<1> QED
  BY <1>2, <1>3, <1>4 DEF Sound, UnderWay

(* A handler of one consumer leaves the others alone.                      *)
LEMMA OneBecomesSound ==
    ASSUME NEW c \in Consumers, NEW s, Sound(s), Become(c, s),
           consumer \in [Consumers -> ConsumerType],
           \A k \in Consumers : UnderWay(consumer[k])
    PROVE  /\ consumer' \in [Consumers -> ConsumerType]
           /\ \A k \in Consumers : UnderWay(consumer'[k])
BY DEF Become, Sound

LEMMA StreamInitSound == StreamInit => StreamInv
BY StartedSound, StreamAssumption DEF StreamInit, StreamInv, Sound

LEMMA StepSound == StreamInv /\ [StreamNext]_streamVars => StreamInv'
<1> SUFFICES ASSUME StreamInv, [StreamNext]_streamVars
             PROVE  StreamInv'
  OBVIOUS
<1> USE StreamAssumption
<1>1. ASSUME NEW c \in Consumers, NEW s, Become(c, s), Sound(s),
             Quietly \/ Upset, lock' \in {"free", "held", "ghost"}
      PROVE  StreamInv'
  <2>1. upsets' \in 0..MaxUpsets
    BY <1>1 DEF Quietly, Upset, StreamInv
  <2> QED
    BY <1>1, <2>1, OneBecomesSound DEF StreamInv
<1>2. ASSUME NEW c \in Consumers
      PROVE  consumer[c] \in ConsumerType /\ UnderWay(consumer[c])
  BY DEF StreamInv
<1>3. ASSUME NEW c \in Consumers, ReconnectFires(c)
      PROVE  StreamInv'
  <2> DEFINE s == [consumer[c] EXCEPT !.timer = FALSE]
             calls == [s EXCEPT !.locking = @ + 1]
  <2>1. s \in ConsumerType /\ s.holds = consumer[c].holds
    BY <1>2 DEF ConsumerType
  <2>2. Sound(calls)
    <3>1. s.ws = consumer[c].ws /\ s.beat = consumer[c].beat
      BY <1>2 DEF ConsumerType
    <3> QED
      BY <1>2, <2>1, <3>1, CallSound DEF UnderWay
  <2>3. CASE s.holds
    <3>1. Become(c, Connected(s))
      BY <1>3, <2>3 DEF ReconnectFires
    <3> QED
      BY <1>1, <1>3, <2>1, <2>3, <3>1, ConnectedSound DEF ReconnectFires, StreamInv
  <2>4. CASE ~s.holds
    <3>1. Become(c, calls)
      BY <1>3, <2>4 DEF ReconnectFires
    <3> QED
      BY <1>1, <1>3, <2>2, <3>1 DEF ReconnectFires, StreamInv
  <2> QED
    BY <2>3, <2>4
<1>4. ASSUME NEW c \in Consumers, LockAnswers(c)
      PROVE  StreamInv'
  <2> DEFINE s == [consumer[c] EXCEPT !.locking = @ - 1, !.first = FALSE]
             got == [s EXCEPT !.holds = TRUE, !.recovering = @ + 1]
  <2>1. s \in ConsumerType /\ (s.ws \in {"open", "subscribed", "dead"} => s.beat)
    <3>1. consumer[c].locking - 1 \in Nat
      BY <1>2, <1>4 DEF LockAnswers, ConsumerType
    <3>2. s \in ConsumerType /\ s.ws = consumer[c].ws /\ s.beat = consumer[c].beat
      BY <1>2, <3>1 DEF ConsumerType
    <3> QED
      BY <1>2, <3>2 DEF UnderWay
  <2>2. Sound(got)
    BY <2>1, LockGotSound
  <2>3. Sound(LockRefused(s))
    BY <2>1, ScheduledSound DEF LockRefused
  <2>4. /\ Become(c, got) \/ Become(c, LockRefused(s))
        /\ lock' \in {"free", "held", "ghost"}
        /\ Quietly
    BY <1>4 DEF LockAnswers, StreamInv
  <2> QED
    BY <1>1, <2>2, <2>3, <2>4
<1>5. ASSUME NEW c \in Consumers, LockFails(c)
      PROVE  StreamInv'
  <2> DEFINE s == [consumer[c] EXCEPT !.locking = @ - 1, !.first = FALSE]
             deaf == [s EXCEPT !.stopped = TRUE]
  <2>1. s \in ConsumerType /\ (s.ws \in {"open", "subscribed", "dead"} => s.beat)
    <3>1. consumer[c].locking - 1 \in Nat
      BY <1>2, <1>5 DEF LockFails, ConsumerType
    <3>2. s \in ConsumerType /\ s.ws = consumer[c].ws /\ s.beat = consumer[c].beat
      BY <1>2, <3>1 DEF ConsumerType
    <3> QED
      BY <1>2, <3>2 DEF UnderWay
  <2>2. Sound(deaf)
    BY <2>1 DEF Sound, ConsumerType, UnderWay, SocketStates
  <2>3. Sound(ReconnectScheduled(s))
    BY <2>1, ScheduledSound
  <2>4. /\ Become(c, deaf) \/ Become(c, ReconnectScheduled(s))
        /\ lock' \in {"free", "held", "ghost"}
        /\ Upset
    BY <1>5 DEF LockFails, StreamInv
  <2> QED
    BY <1>1, <2>2, <2>3, <2>4
<1>6. ASSUME NEW c \in Consumers, Recovered(c)
      PROVE  StreamInv'
  <2> DEFINE s == [consumer[c] EXCEPT !.recovering = @ - 1]
  <2>1. s \in ConsumerType
    BY <1>2, <1>6 DEF Recovered, ConsumerType
  <2>2. Sound(Connected(s))
    <3>1. CASE s.holds
      BY <2>1, <3>1, ConnectedSound
    <3>2. CASE ~s.holds
      BY <1>2, <2>1, <3>2 DEF Connected, Sound, ConsumerType, UnderWay, SocketStates
    <3> QED
      BY <3>1, <3>2
  <2> QED
    BY <1>1, <1>6, <2>2 DEF Recovered, StreamInv
<1>7. ASSUME NEW c \in Consumers,
             SocketOpens(c) \/ SubscriptionAnswered(c) \/ SocketDies(c) \/ HeartbeatCloses(c)
      PROVE  StreamInv'
  <2>1. ASSUME NEW w \in SocketStates \ {"none"}, consumer[c].ws # "none",
               NEW b \in BOOLEAN, w \in {"open", "subscribed", "dead"} => b
        PROVE  Sound([consumer[c] EXCEPT !.ws = w, !.beat = b])
    BY <1>2, <2>1 DEF Sound, ConsumerType, UnderWay
  <2>2. ASSUME NEW w
        PROVE  [consumer[c] EXCEPT !.ws = w]
                 = [consumer[c] EXCEPT !.ws = w, !.beat = consumer[c].beat]
    BY <1>2 DEF ConsumerType
  <2>3. \E w \in SocketStates \ {"none"}, b \in BOOLEAN :
          /\ Become(c, [consumer[c] EXCEPT !.ws = w, !.beat = b])
          /\ w \in {"open", "subscribed", "dead"} => b
          /\ consumer[c].ws # "none"
    <3>1. CASE SocketOpens(c)
      BY <3>1 DEF SocketOpens, SocketStates
    <3>2. CASE SubscriptionAnswered(c)
      BY <1>2, <2>2, <3>2 DEF SubscriptionAnswered, SocketStates, UnderWay, ConsumerType
    <3>3. CASE SocketDies(c)
      BY <1>2, <2>2, <3>3 DEF SocketDies, SocketStates, UnderWay, ConsumerType
    <3>4. CASE HeartbeatCloses(c)
      BY <1>2, <2>2, <3>4 DEF HeartbeatCloses, SocketStates, UnderWay, ConsumerType
    <3> QED
      BY <1>7, <3>1, <3>2, <3>3, <3>4
  <2>4. (Quietly \/ Upset) /\ lock' \in {"free", "held", "ghost"}
    BY <1>7 DEF SocketOpens, SubscriptionAnswered, SocketDies, HeartbeatCloses, StreamInv
  <2> QED
    BY <1>1, <2>1, <2>3, <2>4
<1>8. ASSUME NEW c \in Consumers, CurrentCloses(c) \/ StrayCloses(c)
      PROVE  StreamInv'
  <2>1. \E s \in ConsumerType : Become(c, SocketGone(s))
    <3>1. CASE CurrentCloses(c)
      <4> DEFINE s == [consumer[c] EXCEPT !.ws = "none"]
      <4>1. s \in ConsumerType
        BY <1>2 DEF ConsumerType, SocketStates
      <4> QED
        BY <3>1, <4>1 DEF CurrentCloses
    <3>2. CASE StrayCloses(c)
      <4> DEFINE s == [consumer[c] EXCEPT !.closing = @ - 1]
                 t == [consumer[c] EXCEPT !.strays = @ - 1]
      <4>1. consumer[c].closing > 0 => s \in ConsumerType
        BY <1>2 DEF ConsumerType
      <4>2. consumer[c].strays > 0 => t \in ConsumerType
        BY <1>2 DEF ConsumerType
      <4> QED
        BY <3>2, <4>1, <4>2 DEF StrayCloses
    <3> QED
      BY <1>8, <3>1, <3>2
  <2>2. (Quietly \/ Upset) /\ lock' \in {"free", "held", "ghost"}
    BY <1>8 DEF CurrentCloses, StrayCloses, StreamInv
  <2> QED
    BY <1>1, <2>1, <2>2, GoneSound
<1>9. ASSUME NEW c \in Consumers, LockLost(c) \/ ProcessRestarts(c)
      PROVE  StreamInv'
  <2>1. lock' \in {"free", "held", "ghost"} /\ Upset
    BY <1>9 DEF LockLost, ProcessRestarts, StreamInv
  <2>2. Become(c, WithoutLock(consumer[c])) \/ Become(c, Started)
    BY <1>9 DEF LockLost, ProcessRestarts
  <2> QED
    BY <1>1, <1>2, <2>1, <2>2, WithoutLockSound, StartedSound
<1>10. CASE GhostExpires
  BY <1>10 DEF GhostExpires, StreamInv
<1>11. CASE UNCHANGED streamVars
  BY <1>11 DEF streamVars, StreamInv
<1> QED
  BY <1>3, <1>4, <1>5, <1>6, <1>7, <1>8, <1>9, <1>10, <1>11 DEF StreamNext, StreamWork

(* The states of the consumers, the lock and the count are of their types. *)
THEOREM StreamTyped == StreamSpec => []StreamTypeOK
<1>1. StreamInv => StreamTypeOK
  BY DEF StreamInv, StreamTypeOK
<1> QED
  BY <1>1, StreamInitSound, StepSound, PTL DEF StreamSpec

(* A consumer always has something to wait for (scheduleReconnect, the     *)
(* close handlers and the lock's error handler between them).              *)
THEOREM SomethingToWaitFor == StreamSpec => []NeverIdle
<1>1. StreamInv => NeverIdle
  BY DEF StreamInv, NeverIdle
<1> QED
  BY <1>1, StreamInitSound, StepSound, PTL DEF StreamSpec

(***************************************************************************)
(* The scheduler.                                                          *)
(***************************************************************************)

(* A set of numbers up to n has a greatest element, which Max is.          *)
LEMMA Maximum ==
    ASSUME NEW n \in Nat, NEW S \in SUBSET (0..n), S # {}
    PROVE  Max(S) \in S /\ \A x \in S : x <= Max(S)
<1>1. PICK gaps : gaps = {n - x : x \in S}
  OBVIOUS
<1>2. gaps \in SUBSET Nat /\ gaps # {}
  <2>1. \A x \in S : x \in 0..n
    OBVIOUS
  <2>2. \A x \in 0..n : n - x \in Nat
    OBVIOUS
  <2> QED  BY <1>1, <2>1, <2>2
<1>3. PICK least : least \in gaps /\ \A g \in gaps : least <= g
  BY <1>2, Minimum
<1>4. PICK x \in S : least = n - x
  BY <1>1, <1>3
<1>5. \A y \in S : x >= y
  <2> SUFFICES ASSUME NEW y \in S PROVE x >= y
    OBVIOUS
  <2>1. n - x <= n - y
    BY <1>1, <1>3, <1>4
  <2>2. x \in 0..n /\ y \in 0..n
    OBVIOUS
  <2> QED  BY <2>1, <2>2
<1>6. \E m \in S : \A y \in S : m >= y
  BY <1>5
<1>7. Max(S) \in S /\ \A y \in S : Max(S) >= y
  BY <1>6 DEF Max
<1> QED  BY <1>7

(* A set of numbers from 1 that has every smaller number with each of its  *)
(* own is the numbers up to its size.                                      *)
LEMMA InitialSegment ==
    ASSUME NEW n \in Nat, NEW S \in SUBSET (1..n), \A i \in S : \A j \in 1..i : j \in S
    PROVE  Cardinality(S) \in 0..n /\ S = 1..Cardinality(S)
<1>1. CASE S = {}
  <2>1. Cardinality(S) = 0
    BY <1>1, FS_EmptySet
  <2> QED  BY <1>1, <2>1
<1>2. CASE S # {}
  <2>1. PICK m \in S : \A x \in S : x <= m
    <3>1. S \in SUBSET (0..n)
      OBVIOUS
    <3> QED  BY <1>2, <3>1, Maximum
  <2>2. S = 1..m
    <3>1. \A x \in S : x \in 1..n
      OBVIOUS
    <3>2. m \in 1..n /\ \A x \in 1..m : x \in S
      BY <3>1
    <3>3. \A x \in S : x \in 1..m
      BY <2>1, <3>1, <3>2
    <3> QED  BY <3>2, <3>3
  <2>3. Cardinality(1..m) = m
    <3>1. m \in Nat /\ 1 <= m
      BY <2>1
    <3>2. Cardinality(1..m) = IF 1 > m THEN 0 ELSE m - 1 + 1
      BY <3>1, FS_Interval
    <3> QED  BY <3>1, <3>2
  <2> QED  BY <2>1, <2>2, <2>3
<1> QED  BY <1>1, <1>2

-----------------------------------------------------------------------------
(* The function Unexpired is defined with, up to a place in the queue.     *)
Keeps(queue, m, kept) ==
    kept = [n \in 0..m |->
              IF n = 0 THEN <<>>
              ELSE IF left[queue[n]] > 0 THEN Append(kept[n - 1], queue[n]) ELSE kept[n - 1]]

LEMMA UnexpiredIs ==
    ASSUME NEW queue
    PROVE  Unexpired(queue) = (CHOOSE kept : Keeps(queue, Len(queue), kept))[Len(queue)]
BY DEF Unexpired, Keeps

LEMMA KeepsExists ==
    ASSUME NEW queue, NEW m \in Nat
    PROVE  \E kept : Keeps(queue, m, kept)
<1> DEFINE Bad == {n \in Nat : ~\E kept : Keeps(queue, n, kept)}
<1> SUFFICES ASSUME Bad # {} PROVE FALSE
  OBVIOUS
<1>1. PICK n \in Bad : \A k \in Bad : n <= k
  <2>1. Bad \in SUBSET Nat
    OBVIOUS
  <2> HIDE DEF Bad
  <2> QED  BY <2>1, Minimum
<1>2. CASE n = 0
  <2>1. Keeps(queue, n, [k \in 0..n |-> <<>>])
    BY <1>2 DEF Keeps
  <2> QED  BY <2>1
<1>3. CASE n # 0
  <2>1. n \in Nat /\ n - 1 \in Nat /\ n - 1 \notin Bad
    BY <1>1, <1>3
  <2>2. PICK g : Keeps(queue, n - 1, g)
    BY <2>1
  <2> DEFINE last == IF left[queue[n]] > 0 THEN Append(g[n - 1], queue[n]) ELSE g[n - 1]
             h == [k \in 0..n |-> IF k = n THEN last ELSE g[k]]
  <2>3. \A k \in 0..(n - 1) : h[k] = g[k]
    BY <2>1
  <2>4. ASSUME NEW k \in 0..n
        PROVE  h[k] = IF k = 0 THEN <<>>
                      ELSE IF left[queue[k]] > 0 THEN Append(h[k - 1], queue[k]) ELSE h[k - 1]
    <3>1. CASE k = n
      <4>1. h[n] = last /\ h[n - 1] = g[n - 1]
        BY <2>1, <2>3
      <4> HIDE DEF h
      <4> QED  BY <1>3, <3>1, <4>1
    <3>2. CASE k # n
      <4>1. k \in 0..(n - 1) /\ h[k] = g[k]
        BY <2>1, <2>3, <3>2
      <4>2. k # 0 => k - 1 \in 0..(n - 1) /\ h[k - 1] = g[k - 1]
        BY <2>1, <2>3, <4>1
      <4>3. g[k] = IF k = 0 THEN <<>>
                   ELSE IF left[queue[k]] > 0 THEN Append(g[k - 1], queue[k]) ELSE g[k - 1]
        BY <2>2, <4>1 DEF Keeps
      <4> HIDE DEF h
      <4> QED  BY <4>1, <4>2, <4>3
    <3> QED  BY <3>1, <3>2
  <2>5. h = [k \in 0..n |-> h[k]]
    OBVIOUS
  <2>6. Keeps(queue, n, h)
    <3> HIDE DEF h
    <3> QED  BY <2>4, <2>5 DEF Keeps
  <2> QED  BY <2>6
<1> QED  BY <1>2, <1>3

(* A queue with nobody twice, in which nobody comes before one ahead of him.*)
Orderly(queue) ==
    /\ queue \in Seq(Requesters)
    /\ \A m, n \in 1..Len(queue) : m < n => queue[m] # queue[n] /\ ~Before(queue[n], queue[m])

Members(queue) == {queue[i] : i \in 1..Len(queue)}

LEMMA MembersAre ==
    ASSUME NEW queue \in Seq(Requesters)
    PROVE  ToSet(queue) = Members(queue)
BY DEF ToSet, Members

(* The first n requests without the expired ones.                          *)
KeptOf(queue, n, part) ==
    /\ Orderly(part)
    /\ \A i \in 1..Len(part) : \E j \in 1..n : part[i] = queue[j] /\ left[queue[j]] > 0
    /\ \A j \in 1..n : left[queue[j]] > 0 => \E i \in 1..Len(part) : part[i] = queue[j]

LEMMA OneMoreKept ==
    ASSUME NEW queue, Orderly(queue), NEW n \in 1..Len(queue), NEW part, KeptOf(queue, n - 1, part)
    PROVE  KeptOf(queue, n, IF left[queue[n]] > 0 THEN Append(part, queue[n]) ELSE part)
<1>0. /\ queue \in Seq(Requesters) /\ queue[n] \in Requesters /\ part \in Seq(Requesters)
      /\ Len(queue) \in Nat /\ Len(part) \in Nat /\ n \in Nat /\ n <= Len(queue)
      /\ \A j \in 1..(n - 1) : j \in 1..n /\ j \in 1..Len(queue) /\ j < n
      /\ \A j \in 1..n : j = n \/ j \in 1..(n - 1)
  BY DEF Orderly, KeptOf
<1>1. CASE left[queue[n]] > 0
  <2> DEFINE more == Append(part, queue[n])
  <2>1. /\ more \in Seq(Requesters) /\ Len(more) = Len(part) + 1 /\ more[Len(part) + 1] = queue[n]
        /\ \A i \in 1..Len(part) : more[i] = part[i]
        /\ \A i \in 1..Len(more) : i = Len(part) + 1 \/ i \in 1..Len(part)
    BY <1>0
  <2> HIDE DEF more
  <2>2. ASSUME NEW k \in 1..Len(more), NEW m \in 1..Len(more), k < m
        PROVE  more[k] # more[m] /\ ~Before(more[m], more[k])
    <3>1. k \in 1..Len(part) /\ more[k] = part[k]
      BY <1>0, <2>1, <2>2
    <3>2. CASE m \in 1..Len(part)
      <4>1. part[k] # part[m] /\ ~Before(part[m], part[k])
        BY <2>2, <3>1, <3>2 DEF KeptOf, Orderly
      <4>2. more[m] = part[m]
        BY <2>1, <3>2
      <4> QED  BY <3>1, <4>1, <4>2
    <3>3. CASE m = Len(part) + 1
      <4>1. PICK j \in 1..(n - 1) : part[k] = queue[j]
        BY <3>1 DEF KeptOf
      <4>2. queue[j] # queue[n] /\ ~Before(queue[n], queue[j])
        BY <1>0, <4>1 DEF Orderly
      <4> QED  BY <2>1, <3>1, <3>3, <4>1, <4>2
    <3> QED  BY <2>1, <3>2, <3>3
  <2>3. ASSUME NEW i \in 1..Len(more) PROVE \E j \in 1..n : more[i] = queue[j] /\ left[queue[j]] > 0
    <3>1. CASE i = Len(part) + 1
      BY <1>0, <1>1, <2>1, <3>1
    <3>2. CASE i \in 1..Len(part)
      <4>1. PICK j \in 1..(n - 1) : part[i] = queue[j] /\ left[queue[j]] > 0
        BY <3>2 DEF KeptOf
      <4> QED  BY <1>0, <2>1, <3>2, <4>1
    <3> QED  BY <2>1, <3>1, <3>2
  <2>4. ASSUME NEW j \in 1..n, left[queue[j]] > 0 PROVE \E i \in 1..Len(more) : more[i] = queue[j]
    <3>1. CASE j = n
      BY <1>0, <2>1, <3>1
    <3>2. CASE j \in 1..(n - 1)
      <4>1. PICK i \in 1..Len(part) : part[i] = queue[j]
        BY <2>4, <3>2 DEF KeptOf
      <4> QED  BY <1>0, <2>1, <4>1
    <3> QED  BY <1>0, <3>1, <3>2
  <2>5. KeptOf(queue, n, more)
    BY <2>1, <2>2, <2>3, <2>4 DEF KeptOf, Orderly
  <2> QED  BY <1>1, <2>5 DEF more
<1>2. CASE ~(left[queue[n]] > 0)
  <2>1. \A j \in 1..n : left[queue[j]] > 0 => j \in 1..(n - 1)
    BY <1>0, <1>2
  <2>2. KeptOf(queue, n, part)
    BY <1>0, <2>1 DEF KeptOf
  <2> QED  BY <1>2, <2>2
<1> QED  BY <1>1, <1>2

LEMMA UnexpiredSound ==
    ASSUME NEW queue, Orderly(queue)
    PROVE  /\ Orderly(Unexpired(queue))
           /\ Members(Unexpired(queue)) = {c \in Members(queue) : left[c] > 0}
<1>0. Len(queue) \in Nat
  BY DEF Orderly
<1>1. PICK kept : kept = CHOOSE g : Keeps(queue, Len(queue), g)
  OBVIOUS
<1>2. Keeps(queue, Len(queue), kept)
  BY <1>0, <1>1, KeepsExists
<1> DEFINE Bad == {n \in 0..Len(queue) : ~KeptOf(queue, n, kept[n])}
<1>3. Bad = {}
  <2> SUFFICES ASSUME Bad # {} PROVE FALSE
    OBVIOUS
  <2>1. PICK n \in Bad : \A k \in Bad : n <= k
    <3>1. Bad \in SUBSET Nat
      OBVIOUS
    <3> HIDE DEF Bad
    <3> QED  BY <3>1, Minimum
  <2>2. CASE n = 0
    <3>1. kept[0] = <<>>
      BY <1>0, <1>2 DEF Keeps
    <3>2. KeptOf(queue, 0, <<>>)
      BY DEF KeptOf, Orderly
    <3> QED  BY <2>1, <2>2, <3>1, <3>2
  <2>3. CASE n # 0
    <3>1. n \in 1..Len(queue) /\ n - 1 \in 0..Len(queue) /\ n - 1 \notin Bad
      BY <1>0, <2>1, <2>3
    <3>2. KeptOf(queue, n - 1, kept[n - 1])
      BY <3>1
    <3>3. kept[n] = IF left[queue[n]] > 0 THEN Append(kept[n - 1], queue[n]) ELSE kept[n - 1]
      BY <1>0, <1>2, <2>3, <3>1 DEF Keeps
    <3>4. KeptOf(queue, n, kept[n])
      BY <3>1, <3>2, <3>3, OneMoreKept
    <3> QED  BY <2>1, <3>4
  <2> QED  BY <2>2, <2>3
<1>4. KeptOf(queue, Len(queue), Unexpired(queue))
  <2>1. Len(queue) \in 0..Len(queue)
    BY <1>0
  <2>2. KeptOf(queue, Len(queue), kept[Len(queue)])
    BY <1>3, <2>1
  <2> QED  BY <1>1, <2>2, UnexpiredIs
<1> DEFINE alive == Unexpired(queue)
<1> HIDE DEF alive
<1>5. Orderly(alive) /\ (\A i \in 1..Len(alive) : \E j \in 1..Len(queue) : alive[i] = queue[j] /\ left[queue[j]] > 0)
      /\ \A j \in 1..Len(queue) : left[queue[j]] > 0 => \E i \in 1..Len(alive) : alive[i] = queue[j]
  BY <1>4 DEF KeptOf, alive
<1>6. Members(alive) = {c \in Members(queue) : left[c] > 0}
  <2>1. ASSUME NEW c \in Members(alive) PROVE c \in Members(queue) /\ left[c] > 0
    <3>1. PICK i \in 1..Len(alive) : c = alive[i]
      BY DEF Members
    <3>2. PICK j \in 1..Len(queue) : alive[i] = queue[j] /\ left[queue[j]] > 0
      BY <1>5
    <3> QED  BY <3>1, <3>2 DEF Members
  <2>2. ASSUME NEW c \in Members(queue), left[c] > 0 PROVE c \in Members(alive)
    <3>1. PICK j \in 1..Len(queue) : c = queue[j]
      BY DEF Members
    <3>2. PICK i \in 1..Len(alive) : alive[i] = queue[j]
      BY <1>5, <2>2, <3>1
    <3> QED  BY <3>1, <3>2 DEF Members
  <2> QED  BY <2>1, <2>2
<1> QED  BY <1>5, <1>6 DEF alive

-----------------------------------------------------------------------------
LEMMA WeightTyped ==
    ASSUME NEW queue \in Seq(Requesters)
    PROVE  TotalWeight(queue) \in Nat
<1> DEFINE f == [i \in DOMAIN queue |-> Weight[queue[i]]]
<1>1. Len(queue) \in Nat /\ DOMAIN queue = 1..Len(queue)
  OBVIOUS
<1>2. IsFiniteSet(DOMAIN queue)
  BY <1>1, FS_Interval
<1>3. \A i \in DOMAIN queue : f[i] \in Nat
  BY <1>1, RateAssumption
<1> HIDE DEF f
<1>4. Total(f, DOMAIN queue) \in Nat
  BY <1>2, <1>3, TotalWithout
<1> QED  BY <1>4 DEF f, TotalWeight

LEMMA WeightOfMore ==
    ASSUME NEW queue \in Seq(Requesters), NEW n \in 0..(Len(queue) - 1)
    PROVE  TotalWeight(SubSeq(queue, 1, n + 1)) = Weight[queue[n + 1]] + TotalWeight(SubSeq(queue, 1, n))
<1> DEFINE f == [i \in 1..n |-> Weight[queue[i]]]
           g == [i \in 1..(n + 1) |-> Weight[queue[i]]]
<1>0. n \in Nat /\ n + 1 \in 1..Len(queue) /\ Len(queue) \in Nat
  OBVIOUS
<1>1. /\ DOMAIN SubSeq(queue, 1, n) = 1..n /\ DOMAIN SubSeq(queue, 1, n + 1) = 1..(n + 1)
      /\ \A i \in 1..n : SubSeq(queue, 1, n)[i] = queue[i]
      /\ \A i \in 1..(n + 1) : SubSeq(queue, 1, n + 1)[i] = queue[i]
  BY <1>0
<1>2. [i \in DOMAIN SubSeq(queue, 1, n) |-> Weight[SubSeq(queue, 1, n)[i]]] = f
  BY <1>1
<1>3. [i \in DOMAIN SubSeq(queue, 1, n + 1) |-> Weight[SubSeq(queue, 1, n + 1)[i]]] = g
  BY <1>1
<1>4. IsFiniteSet(1..n) /\ 1..(n + 1) = (1..n) \cup {n + 1} /\ n + 1 \notin 1..n
  <2>1. IsFiniteSet(1..n)
    BY <1>0, FS_Interval
  <2>2. 1..(n + 1) = (1..n) \cup {n + 1} /\ n + 1 \notin 1..n
    BY <1>0
  <2> QED  BY <2>1, <2>2
<1>5. \A i \in 1..(n + 1) : g[i] \in Nat
  BY <1>0, RateAssumption
<1>6. \A i \in 1..n : f[i] = g[i]
  BY <1>0
<1>7. g[n + 1] = Weight[queue[n + 1]]
  BY <1>0
<1> HIDE DEF f, g
<1>8. Total(g, (1..n) \cup {n + 1}) = g[n + 1] + Total(g, 1..n)
  BY <1>4, <1>5, TotalWith
<1>9. Total(f, 1..n) = Total(g, 1..n)
  BY <1>4, <1>5, <1>6, TotalOfSame
<1> QED  BY <1>1, <1>2, <1>3, <1>4, <1>7, <1>8, <1>9 DEF TotalWeight

LEMMA WeightOfNone ==
    ASSUME NEW queue \in Seq(Requesters)
    PROVE  TotalWeight(SubSeq(queue, 1, 0)) = 0
<1>1. DOMAIN SubSeq(queue, 1, 0) = {}
  OBVIOUS
<1> QED  BY <1>1, TotalOfNone DEF TotalWeight

(* What the bucket pays for, and that the next one does not fit.           *)
LEMMA ServedFits ==
    ASSUME NEW queue \in Seq(Requesters), NEW budget \in Nat
    PROVE  /\ Served(queue, budget) \in 0..Len(queue)
           /\ TotalWeight(SubSeq(queue, 1, Served(queue, budget))) <= budget
           /\ Served(queue, budget) < Len(queue) =>
                TotalWeight(SubSeq(queue, 1, Served(queue, budget) + 1)) > budget
<1> DEFINE fits == {n \in 0..Len(queue) : TotalWeight(SubSeq(queue, 1, n)) <= budget}
<1>1. Len(queue) \in Nat /\ fits \in SUBSET (0..Len(queue))
  OBVIOUS
<1>2. 0 \in fits
  BY <1>1, WeightOfNone
<1>3. Max(fits) \in fits /\ \A n \in fits : n <= Max(fits)
  <2> HIDE DEF fits
  <2> QED  BY <1>1, <1>2, Maximum
<1>4. Served(queue, budget) = Max(fits)
  BY DEF Served
<1>5. ASSUME Served(queue, budget) < Len(queue)
      PROVE  TotalWeight(SubSeq(queue, 1, Served(queue, budget) + 1)) > budget
  <2> DEFINE n == Served(queue, budget) + 1
  <2>1. n \in 0..Len(queue) /\ n \notin fits
    BY <1>1, <1>3, <1>4, <1>5
  <2>2. TotalWeight(SubSeq(queue, 1, n)) \in Nat
    <3>1. SubSeq(queue, 1, n) \in Seq(Requesters)
      BY <2>1
    <3> QED  BY <3>1, WeightTyped
  <2> QED  BY <2>1, <2>2
<1> QED  BY <1>3, <1>4, <1>5

(* What is left when the first n are served.                               *)
LEMMA RestOf ==
    ASSUME NEW queue, Orderly(queue), NEW n \in 0..Len(queue)
    PROVE  /\ Orderly(SubSeq(queue, n + 1, Len(queue)))
           /\ SubSeq(queue, 1, n) \in Seq(Requesters)
           /\ Members(SubSeq(queue, n + 1, Len(queue))) = Members(queue) \ Members(SubSeq(queue, 1, n))
           /\ Members(SubSeq(queue, 1, n)) \subseteq Members(queue)
           /\ \A c \in Members(SubSeq(queue, 1, n)), d \in Members(SubSeq(queue, n + 1, Len(queue))) :
                 ~Before(d, c)
           /\ SubSeq(queue, n + 1, Len(queue)) # <<>> => n < Len(queue)
<1> DEFINE head == SubSeq(queue, 1, n)
           rest == SubSeq(queue, n + 1, Len(queue))
<1>0. queue \in Seq(Requesters) /\ Len(queue) \in Nat /\ n \in Nat /\ n <= Len(queue)
  BY DEF Orderly
<1>1. /\ head \in Seq(Requesters) /\ Len(head) = n /\ \A i \in 1..n : head[i] = queue[i]
      /\ rest \in Seq(Requesters) /\ Len(rest) = Len(queue) - n
      /\ \A i \in 1..(Len(queue) - n) : rest[i] = queue[n + i]
  BY <1>0
<1>2. \A i \in 1..(Len(queue) - n) : n + i \in 1..Len(queue) /\ n < n + i
  BY <1>0
<1>3. \A i \in 1..n : i \in 1..Len(queue)
  BY <1>0
<1>4. rest # <<>> => n < Len(queue)
  BY <1>0
<1> HIDE DEF head, rest
<1>5. Orderly(rest)
  <2> SUFFICES ASSUME NEW i \in 1..Len(rest), NEW j \in 1..Len(rest), i < j
               PROVE  rest[i] # rest[j] /\ ~Before(rest[j], rest[i])
    BY <1>1 DEF Orderly
  <2>1. n + i \in 1..Len(queue) /\ n + j \in 1..Len(queue) /\ n + i < n + j
    BY <1>0, <1>1
  <2>2. queue[n + i] # queue[n + j] /\ ~Before(queue[n + j], queue[n + i])
    BY <2>1 DEF Orderly
  <2> QED  BY <1>1, <2>2
<1>6. Members(head) \subseteq Members(queue) /\ Members(rest) \subseteq Members(queue)
  BY <1>1, <1>2, <1>3 DEF Members
<1>7. ASSUME NEW c \in Members(head), NEW d \in Members(rest) PROVE c # d /\ ~Before(d, c)
  <2>1. PICK i \in 1..n : c = queue[i]
    BY <1>1 DEF Members
  <2>2. PICK j \in 1..(Len(queue) - n) : d = queue[n + j]
    BY <1>1 DEF Members
  <2>3. i \in 1..Len(queue) /\ n + j \in 1..Len(queue) /\ i < n + j
    BY <1>0
  <2> QED  BY <2>1, <2>2, <2>3 DEF Orderly
<1>8. ASSUME NEW c \in Members(queue), c \notin Members(head) PROVE c \in Members(rest)
  <2>1. PICK i \in 1..Len(queue) : c = queue[i]
    BY DEF Members
  <2>2. i \notin 1..n
    BY <1>1, <1>8, <2>1 DEF Members
  <2>3. i - n \in 1..(Len(queue) - n) /\ n + (i - n) = i
    BY <1>0, <2>2
  <2>4. rest[i - n] = c
    BY <1>1, <2>1, <2>3
  <2> QED  BY <1>1, <2>3, <2>4 DEF Members
<1>9. Members(rest) = Members(queue) \ Members(head)
  BY <1>6, <1>7, <1>8
<1> QED  BY <1>1, <1>4, <1>5, <1>6, <1>7, <1>9 DEF head, rest

Placed(joined, queue, k, c) ==
    /\ joined \in Seq(Requesters) /\ Len(joined) = Len(queue) + 1 /\ joined[k + 1] = c
    /\ \A i \in 1..k : joined[i] = queue[i]
    /\ \A i \in (k + 1)..Len(queue) : joined[i + 1] = queue[i]

LEMMA Inserted ==
    ASSUME NEW queue \in Seq(Requesters), NEW k \in 0..Len(queue), NEW c \in Requesters,
           NEW place, place = 1 + k, NEW joined, joined = InsertAt(queue, place, c)
    PROVE  Placed(joined, queue, k, c)
<1>1. k \in Nat /\ Len(queue) \in Nat /\ place - 1 = k
  OBVIOUS
<1>2. PICK head, rest : head = SubSeq(queue, 1, place - 1) /\ rest = SubSeq(queue, place, Len(queue))
  OBVIOUS
<1>3. /\ head \in Seq(Requesters) /\ Len(head) = k
      /\ \A i \in 1..k : head[i] = queue[i]
  BY <1>1, <1>2
<1>4. /\ rest \in Seq(Requesters) /\ Len(rest) = Len(queue) - k
      /\ \A i \in 1..(Len(queue) - k) : rest[i] = queue[k + i]
  BY <1>1, <1>2
<1>5. PICK front : front = head \o <<c>>
  OBVIOUS
<1>6. /\ front \in Seq(Requesters) /\ Len(front) = k + 1 /\ front[k + 1] = c
      /\ \A i \in 1..k : front[i] = queue[i]
  BY <1>1, <1>3, <1>5
<1>7. joined = front \o rest
  BY <1>2, <1>5 DEF InsertAt
<1>8. /\ joined \in Seq(Requesters) /\ Len(joined) = Len(front) + Len(rest)
      /\ \A i \in 1..(Len(front) + Len(rest)) :
            joined[i] = IF i <= Len(front) THEN front[i] ELSE rest[i - Len(front)]
  <2>1. front \in Seq(Requesters) /\ rest \in Seq(Requesters)
    BY <1>4, <1>6
  <2>2. /\ front \o rest \in Seq(Requesters) /\ Len(front \o rest) = Len(front) + Len(rest)
        /\ \A i \in 1..(Len(front) + Len(rest)) :
              (front \o rest)[i] = IF i <= Len(front) THEN front[i] ELSE rest[i - Len(front)]
    BY <2>1, ConcatProperties
  <2> QED  BY <1>7, <2>2
<1>9. ASSUME NEW i \in (k + 1)..Len(queue) PROVE joined[i + 1] = queue[i]
  <2>1. i + 1 \in 1..(Len(front) + Len(rest)) /\ ~(i + 1 <= Len(front)) /\ i + 1 - Len(front) = i - k
        /\ i - k \in 1..(Len(queue) - k) /\ k + (i - k) = i
    BY <1>1, <1>4, <1>6
  <2>0. PICK j : j = i + 1
    OBVIOUS
  <2>4. joined[j] = rest[j - Len(front)]
    <3>1. j \in 1..(Len(front) + Len(rest)) /\ ~(j <= Len(front))
      BY <2>0, <2>1
    <3> QED  BY <1>8, <3>1
  <2>2. joined[i + 1] = rest[i - k]
    BY <2>0, <2>1, <2>4
  <2>3. rest[i - k] = queue[k + (i - k)]
    BY <1>4, <2>1
  <2> QED  BY <2>1, <2>2, <2>3
<1>10. ASSUME NEW i \in 1..(k + 1) PROVE joined[i] = front[i]
  <2>1. i \in 1..Len(front) + Len(rest) /\ i <= Len(front)
    BY <1>1, <1>4, <1>6
  <2> QED  BY <1>8, <2>1
<1>11. Len(joined) = Len(queue) + 1
  BY <1>1, <1>4, <1>6, <1>8
<1>12. \A i \in 1..k : joined[i] = queue[i]
  BY <1>1, <1>6, <1>10
<1>13. joined[k + 1] = c
  BY <1>1, <1>6, <1>10
<1>14. joined \in Seq(Requesters)
  BY <1>8
<1> QED  BY <1>9, <1>11, <1>12, <1>13, <1>14 DEF Placed

(* A request joins the queue behind those that come before it or arrived   *)
(* earlier.                                                                *)
LEMMA JoinedInOrder ==
    ASSUME NEW queue, Orderly(queue), NEW c \in Requesters, c \notin Members(queue),
           left \in [Requesters -> 0..Never]
    PROVE  Orderly(InOrder(queue, c)) /\ Members(InOrder(queue, c)) = Members(queue) \cup {c}
<1> DEFINE ahead == {i \in 1..Len(queue) : ~Before(c, queue[i])}
<1>0. queue \in Seq(Requesters) /\ Len(queue) \in Nat /\ \A i \in 1..Len(queue) : queue[i] \in Requesters
  BY DEF Orderly
<1>1. \A d \in Requesters : left[d] \in Nat /\ Priority[d] \in Nat
  BY RateAssumption DEF Never
<1>2. PICK k \in 0..Len(queue) : k = Cardinality(ahead) /\ ahead = 1..k
  <2>1. ASSUME NEW i \in ahead, NEW j \in 1..i PROVE j \in ahead
    <3>1. i \in 1..Len(queue) /\ j \in 1..Len(queue) /\ ~Before(c, queue[i])
      BY <1>0
    <3>2. CASE j = i
      BY <2>1, <3>2
    <3>3. CASE j # i
      <4>1. j < i
        BY <3>1, <3>3
      <4>2. ~Before(queue[i], queue[j])
        BY <3>1, <4>1 DEF Orderly
      <4>3. ~Before(c, queue[j])
        <5>1. queue[i] \in Requesters /\ queue[j] \in Requesters
          BY <1>0, <3>1
        <5> QED  BY <1>1, <3>1, <4>2, <5>1 DEF Before
      <4> QED  BY <3>1, <4>3
    <3> QED  BY <3>2, <3>3
  <2>2. ahead \in SUBSET (1..Len(queue))
    OBVIOUS
  <2> HIDE DEF ahead
  <2> QED  BY <1>0, <2>1, <2>2, InitialSegment
<1>3. PICK joined : joined = InOrder(queue, c)
  OBVIOUS
<1>4. \A i \in 1..Len(queue) : i <= k <=> ~Before(c, queue[i])
  BY <1>0, <1>2
<1>5. Placed(joined, queue, k, c)
  <2>1. PICK place : place = 1 + Cardinality(ahead)
    OBVIOUS
  <2>2. joined = InsertAt(queue, place, c)
    BY <1>3, <2>1 DEF InOrder
  <2> HIDE DEF ahead
  <2>3. place = 1 + k
    BY <1>2, <2>1
  <2>4. queue \in Seq(Requesters) /\ k \in 0..Len(queue)
    BY <1>0
  <2> QED  BY Zenon, <2>2, <2>3, <2>4, Inserted
<1> HIDE DEF ahead
<1>50. /\ joined \in Seq(Requesters) /\ Len(joined) = Len(queue) + 1 /\ joined[k + 1] = c
       /\ \A i \in 1..k : joined[i] = queue[i]
       /\ \A i \in (k + 1)..Len(queue) : joined[i + 1] = queue[i]
  BY <1>5 DEF Placed
<1>6. \A i \in 1..Len(joined) : i \in 1..k \/ i = k + 1 \/ (i - 1 \in (k + 1)..Len(queue))
  BY <1>0, <1>2, <1>50
<1>7. ASSUME NEW i \in 1..Len(joined), NEW j \in 1..Len(joined), i < j
      PROVE  joined[i] # joined[j] /\ ~Before(joined[j], joined[i])
  <2>0. \A l \in 1..Len(queue) : queue[l] # c
    BY DEF Members
  <2>1. CASE i \in 1..k /\ j \in 1..k
    <3>1. i \in 1..Len(queue) /\ j \in 1..Len(queue)
      BY <1>0, <1>2, <2>1
    <3> QED  BY <1>50, <1>7, <2>1, <3>1 DEF Orderly
  <2>2. CASE i \in 1..k /\ j = k + 1
    <3>1. i \in 1..Len(queue) /\ i <= k
      BY <1>0, <1>2, <2>2
    <3> QED  BY <1>4, <1>50, <2>0, <2>2, <3>1
  <2>3. CASE i \in 1..k /\ j - 1 \in (k + 1)..Len(queue)
    <3>1. i \in 1..Len(queue) /\ j - 1 \in 1..Len(queue) /\ i < j - 1 /\ (j - 1) + 1 = j
      BY <1>0, <1>2, <2>3
    <3>2. joined[j] = queue[j - 1] /\ joined[i] = queue[i]
      BY <1>50, <2>3, <3>1
    <3> QED  BY <3>1, <3>2 DEF Orderly
  <2>4. CASE i = k + 1 /\ j - 1 \in (k + 1)..Len(queue)
    <3>1. j - 1 \in 1..Len(queue) /\ ~(j - 1 <= k) /\ (j - 1) + 1 = j
      BY <1>0, <1>2, <2>4
    <3>2. joined[j] = queue[j - 1] /\ Before(c, queue[j - 1]) /\ queue[j - 1] \in Requesters
      BY <1>0, <1>4, <1>50, <2>4, <3>1
    <3>3. ~Before(queue[j - 1], c)
      BY <1>1, <3>2 DEF Before
    <3> QED  BY <1>50, <2>0, <2>4, <3>1, <3>2, <3>3
  <2>5. CASE i - 1 \in (k + 1)..Len(queue) /\ j - 1 \in (k + 1)..Len(queue)
    <3>1. i - 1 \in 1..Len(queue) /\ j - 1 \in 1..Len(queue) /\ i - 1 < j - 1
          /\ (i - 1) + 1 = i /\ (j - 1) + 1 = j
      BY <1>0, <1>2, <1>7, <2>5
    <3>2. joined[j] = queue[j - 1] /\ joined[i] = queue[i - 1]
      BY <1>50, <2>5, <3>1
    <3> QED  BY <3>1, <3>2 DEF Orderly
  <2>6. CASE (i = k + 1 /\ j \in 1..(k + 1)) \/ (i - 1 \in (k + 1)..Len(queue) /\ j \in 1..(k + 1))
    BY <1>0, <1>2, <1>7, <2>6
  <2> QED  BY <1>2, <1>6, <2>1, <2>2, <2>3, <2>4, <2>5, <2>6
<1>8. Orderly(joined)
  BY <1>50, <1>7 DEF Orderly
<1>9. Members(joined) = Members(queue) \cup {c}
  <2>1. ASSUME NEW d \in Members(joined) PROVE d \in Members(queue) \cup {c}
    <3>1. PICK i \in 1..Len(joined) : d = joined[i]
      BY DEF Members
    <3>2. CASE i \in 1..k
      <4>1. i \in 1..Len(queue)
        BY <1>0, <1>2, <3>2
      <4> QED  BY <1>50, <3>1, <3>2, <4>1 DEF Members
    <3>3. CASE i - 1 \in (k + 1)..Len(queue)
      <4>1. (i - 1) + 1 = i /\ i - 1 \in 1..Len(queue)
        BY <1>0, <1>2, <3>3
      <4>2. joined[(i - 1) + 1] = queue[i - 1]
        BY <1>50, <3>3
      <4> QED  BY <3>1, <4>1, <4>2 DEF Members
    <3> QED  BY <1>50, <1>6, <3>1, <3>2, <3>3
  <2>2. ASSUME NEW i \in 1..Len(queue) PROVE queue[i] \in Members(joined)
    <3>1. CASE i <= k
      <4>1. i \in 1..k /\ i \in 1..Len(joined)
        BY <1>0, <1>2, <1>50, <3>1
      <4>2. joined[i] = queue[i]
        BY <1>50, <4>1
      <4> QED  BY <4>1, <4>2 DEF Members
    <3>2. CASE ~(i <= k)
      <4>1. i \in (k + 1)..Len(queue) /\ i + 1 \in 1..Len(joined)
        BY <1>0, <1>2, <1>50, <3>2
      <4> QED  BY <1>50, <4>1 DEF Members
    <3> QED  BY <3>1, <3>2
  <2>3. c \in Members(joined)
    <3>1. k + 1 \in 1..Len(joined)
      BY <1>0, <1>2, <1>50
    <3> QED  BY <1>50, <3>1 DEF Members
  <2> QED  BY <2>1, <2>2, <2>3 DEF Members
<1> QED  BY <1>3, <1>8, <1>9

-----------------------------------------------------------------------------
(* The timer _drain leaves is a number of ticks, or the one there was; it  *)
(* is a number of ticks when anybody is left to wait.                      *)
LEMMA TimerSet ==
    ASSUME NEW alive, Orderly(alive), NEW budget \in 0..Capacity, NEW closed \in 0..(Never - 2),
           NEW current \in 0..Never, NEW n, n = IF closed > 0 THEN 0 ELSE Served(alive, budget)
    PROVE  /\ TimerAfter(alive, budget, closed, current) \in 0..Never
           /\ n # Len(alive) => TimerAfter(alive, budget, closed, current) # Never
<1>0. alive \in Seq(Requesters) /\ Len(alive) \in Nat /\ (alive # <<>> <=> Len(alive) # 0) /\ budget \in Nat
      /\ Never = 99 /\ Capacity \in 1..98
  BY RateAssumption DEF Orderly, Never
<1>1. PICK m : m = Served(alive, budget)
  OBVIOUS
<1>2. /\ m \in 0..Len(alive) /\ TotalWeight(SubSeq(alive, 1, m)) <= budget
      /\ m < Len(alive) => TotalWeight(SubSeq(alive, 1, m + 1)) > budget
  BY <1>0, <1>1, ServedFits
<1>3. CASE alive # <<>> /\ closed > 0
  <2>1. TimerAfter(alive, budget, closed, current) = closed + 1
    BY <1>3 DEF TimerAfter
  <2> QED  BY <1>0, <2>1
<1>4. CASE ~(alive # <<>> /\ closed > 0) /\ m = Len(alive)
  <2>1. TimerAfter(alive, budget, closed, current) = current
    BY <1>1, <1>4 DEF TimerAfter
  <2>2. n = Len(alive)
    BY <1>0, <1>1, <1>4
  <2> QED  BY <2>1, <2>2
<1>5. CASE ~(alive # <<>> /\ closed > 0) /\ m # Len(alive)
  <2>1. TimerAfter(alive, budget, closed, current) = Missing(alive, budget)
    BY <1>1, <1>5 DEF TimerAfter
  <2>2. m \in 0..(Len(alive) - 1) /\ m < Len(alive) /\ m + 1 \in 1..Len(alive) /\ SubSeq(alive, 1, m) \in Seq(Requesters)
    BY <1>0, <1>2, <1>5
  <2>3. PICK total : total = TotalWeight(SubSeq(alive, 1, m)) /\ total \in Nat
    BY <2>2, WeightTyped
  <2>4. PICK next : next = Weight[alive[m + 1]] /\ next \in 1..Capacity
    <3>1. alive[m + 1] \in Requesters
      BY <1>0, <2>2
    <3> QED  BY <3>1, RateAssumption
  <2>5. next + total > budget /\ total <= budget
    <3>1. TotalWeight(SubSeq(alive, 1, m + 1)) = next + total
      BY <1>0, <2>2, <2>3, <2>4, WeightOfMore
    <3> QED  BY <1>2, <2>2, <2>3, <3>1
  <2>6. Missing(alive, budget) = next - (budget - total)
    BY <1>1, <2>3, <2>4 DEF Missing
  <2>7. next - (budget - total) \in 1..98
    <3>1. next \in Int /\ total \in Int /\ budget \in Int /\ next <= 98
      BY <1>0, <2>3, <2>4
    <3>2. budget - total \in Int /\ 0 <= budget - total /\ budget - total < next
      BY <2>5, <3>1
    <3> QED  BY <3>1, <3>2
  <2>8. PICK v \in 1..98 : v = next - (budget - total)
    BY <2>7
  <2>9. TimerAfter(alive, budget, closed, current) = v
    BY <2>1, <2>6, <2>8
  <2> QED  BY <1>0, <2>9
<1> QED  BY <1>3, <1>4, <1>5

(* The granted of a queue, what they and the others are left with.         *)
Leaves(queue, held, old, granted) ==
    /\ Members(waiting') = {c \in Members(queue) : left[c] > 0} \ granted
    /\ \A c \in granted : left[c] > 0
    /\ \A c \in granted, d \in Members(waiting') : ~Before(d, c)
    /\ lease' = [c \in Requesters |-> IF c \in granted THEN Weight[c] ELSE held[c]]
    /\ answer' = [c \in Requesters |->
                    IF c \in granted THEN "granted"
                    ELSE IF c \in Members(queue) THEN (IF left[c] > 0 THEN "waits" ELSE "expired")
                    ELSE old[c]]

(* What _drain does to an orderly queue: the granted leave it, the expired *)
(* too, and none of the granted comes after one that goes on waiting.      *)
LEMMA DrainSound ==
    ASSUME NEW queue, Orderly(queue), NEW budget \in 0..Capacity, NEW closed \in 0..(Never - 2),
           NEW current \in 0..Never, NEW held, NEW old, Drain(queue, budget, closed, held, old, current)
    PROVE  /\ \A c, d \in 1..Len(waiting') : c < d => waiting'[c] # waiting'[d] /\ ~Before(waiting'[d], waiting'[c])
           /\ waiting' \in Seq(Requesters) /\ tokens' \in 0..Capacity /\ timer' \in 0..Never
           /\ waiting' # <<>> => timer' # Never
           /\ \E granted \in SUBSET Members(queue) : Leaves(queue, held, old, granted)
<1>1. PICK alive : alive = Unexpired(queue)
  OBVIOUS
<1>2. Orderly(alive) /\ Members(alive) = {c \in Members(queue) : left[c] > 0}
  BY <1>1, UnexpiredSound
<1>3. PICK n : n = IF closed > 0 THEN 0 ELSE Served(alive, budget)
  OBVIOUS
<1>4. alive \in Seq(Requesters) /\ Len(alive) \in Nat /\ budget \in Nat
  BY <1>2, RateAssumption DEF Orderly
<1>5. n \in 0..Len(alive) /\ TotalWeight(SubSeq(alive, 1, n)) <= budget
  <2>1. CASE closed > 0
    <3>1. n = 0 /\ TotalWeight(SubSeq(alive, 1, 0)) = 0
      BY <1>3, <1>4, <2>1, WeightOfNone
    <3> QED  BY <1>4, <3>1
  <2>2. CASE ~(closed > 0)
    <3>1. n = Served(alive, budget)
      BY <1>3, <2>2
    <3> QED  BY <1>4, <3>1, ServedFits
  <2> QED  BY <2>1, <2>2
<1>6. PICK granted : granted = Members(SubSeq(alive, 1, n))
  OBVIOUS
<1>7. PICK rest : rest = SubSeq(alive, n + 1, Len(alive))
  OBVIOUS
<1>8. /\ Orderly(rest) /\ SubSeq(alive, 1, n) \in Seq(Requesters)
      /\ Members(rest) = Members(alive) \ granted /\ granted \subseteq Members(alive)
      /\ \A c \in granted, d \in Members(rest) : ~Before(d, c)
      /\ rest # <<>> => n < Len(alive)
  BY <1>2, <1>5, <1>6, <1>7, RestOf
<1>9. /\ waiting' = rest
      /\ tokens' = budget - TotalWeight(SubSeq(alive, 1, n))
      /\ timer' = TimerAfter(alive, budget, closed, current)
      /\ lease' = [c \in Requesters |-> IF c \in granted THEN Weight[c] ELSE held[c]]
      /\ answer' = [c \in Requesters |->
                      IF c \in granted THEN "granted"
                      ELSE IF c \in Members(queue) THEN (IF left[c] > 0 THEN "waits" ELSE "expired")
                      ELSE old[c]]
  <2>1. ToSet(queue) = Members(queue) /\ ToSet(SubSeq(alive, 1, n)) = granted
    <3>1. queue \in Seq(Requesters)
      BY DEF Orderly
    <3> QED  BY <1>6, <1>8, <3>1, MembersAre
  <2> QED  BY Zenon, <1>1, <1>3, <1>7, <2>1 DEF Drain
<1>10. tokens' \in 0..Capacity
  <2>1. TotalWeight(SubSeq(alive, 1, n)) \in Nat
    BY <1>8, WeightTyped
  <2> QED  BY <1>5, <1>9, <2>1, RateAssumption
<1>11. timer' \in 0..Never /\ (waiting' # <<>> => timer' # Never)
  BY <1>2, <1>3, <1>5, <1>8, <1>9, TimerSet
<1>12. \A i, j \in 1..Len(rest) : i < j => rest[i] # rest[j] /\ ~Before(rest[j], rest[i])
  BY <1>8 DEF Orderly
<1>13. rest \in Seq(Requesters)
  BY <1>8 DEF Orderly
<1>14. /\ granted \in SUBSET Members(queue)
       /\ Members(rest) = {c \in Members(queue) : left[c] > 0} \ granted
       /\ \A c \in granted : left[c] > 0
  BY <1>2, <1>8
<1>15. Leaves(queue, held, old, granted)
  BY <1>8, <1>9, <1>14 DEF Leaves
<1> QED  BY <1>9, <1>10, <1>11, <1>12, <1>13, <1>14, <1>15

-----------------------------------------------------------------------------
Answers == {"none", "waits", "granted", "expired", "done"}

(* What holds of the scheduler in every state.                             *)
RateInv ==
    /\ tokens \in 0..Capacity
    /\ Orderly(waiting)
    /\ left \in [Requesters -> 0..Never]
    /\ DOMAIN lease = Requesters /\ \A c \in Requesters : lease[c] \in 0..Weight[c]
    /\ answer \in [Requesters -> Answers]
    /\ \A c \in Requesters : answer[c] = "waits" <=> c \in Members(waiting)
    /\ \A c \in Requesters : lease[c] > 0 => answer[c] = "granted"
    /\ cooldown \in 0..(Never - 2) /\ timer \in 0..Never
    /\ WaitersTimed

(* The step of ServedInOrder.                                              *)
ServedAhead ==
    \A c, d \in Requesters :
        answer[c] # "granted" /\ answer'[c] = "granted" /\ answer'[d] = "waits" => ~Before(d, c)

LEMMA RateInitSound == ASSUME RateInit PROVE RateInv
<1>1. Capacity \in Nat /\ Never = 99 /\ \A c \in Requesters : Weight[c] \in Nat
  BY RateAssumption DEF Never
<1>2. left \in [Requesters -> 0..Never]
  BY <1>1, RateAssumption DEF RateInit
<1>3. Orderly(waiting) /\ Members(waiting) = {}
  BY DEF RateInit, Orderly, Members
<1>4. tokens \in 0..Capacity /\ cooldown \in 0..(Never - 2) /\ timer \in 0..Never /\ WaitersTimed
  BY <1>1 DEF RateInit, WaitersTimed
<1>5. \A c \in Requesters : lease[c] = 0 /\ lease[c] \in 0..Weight[c] /\ ~(lease[c] > 0) /\ answer[c] = "none"
  BY <1>1 DEF RateInit
<1> QED  BY <1>2, <1>3, <1>4, <1>5 DEF RateInit, RateInv, Answers

(* Every operation ends in _drain: it keeps the invariant, whatever the    *)
(* operation has done to the leases and the answers before.                *)
LEMMA DrainKeeps ==
    ASSUME NEW queue, Orderly(queue), NEW budget \in 0..Capacity, NEW closed \in 0..(Never - 2),
           NEW current \in 0..Never, NEW held, NEW old, Drain(queue, budget, closed, held, old, current),
           left \in [Requesters -> 0..Never], UNCHANGED left, cooldown' \in 0..(Never - 2),
           \A c \in Requesters : held[c] \in 0..Weight[c] /\ (held[c] > 0 => old[c] = "granted"),
           \A c \in Requesters : old[c] \in Answers /\ (old[c] = "granted" => answer[c] = "granted"),
           \A c \in Members(queue) : held[c] = 0,
           \A c \in Requesters : c \notin Members(queue) => old[c] # "waits"
    PROVE  RateInv' /\ ServedAhead
<1>0. PICK granted \in SUBSET Members(queue) : Leaves(queue, held, old, granted)
  BY Zenon, DrainSound
<1>1. /\ Members(waiting') = {c \in Members(queue) : left[c] > 0} \ granted
      /\ \A c \in granted : left[c] > 0
      /\ \A c \in granted, d \in Members(waiting') : ~Before(d, c)
      /\ lease' = [c \in Requesters |-> IF c \in granted THEN Weight[c] ELSE held[c]]
      /\ answer' = [c \in Requesters |->
                      IF c \in granted THEN "granted"
                      ELSE IF c \in Members(queue) THEN (IF left[c] > 0 THEN "waits" ELSE "expired")
                      ELSE old[c]]
  BY <1>0 DEF Leaves
<1>2. /\ waiting' \in Seq(Requesters) /\ tokens' \in 0..Capacity /\ timer' \in 0..Never
      /\ waiting' # <<>> => timer' # Never
      /\ \A c, d \in 1..Len(waiting') : c < d => waiting'[c] # waiting'[d] /\ ~Before(waiting'[d], waiting'[c])
  BY Zenon, DrainSound
<1>3. Orderly(waiting)'
  BY <1>2 DEF Orderly, Before
<1>4. Members(queue) \subseteq Requesters
  BY DEF Orderly, Members
<1>5. ASSUME NEW c \in Requesters
      PROVE  /\ lease'[c] \in 0..Weight[c] /\ answer'[c] \in Answers
             /\ answer'[c] = "waits" <=> c \in Members(waiting')
             /\ lease'[c] > 0 => answer'[c] = "granted"
             /\ answer'[c] = "granted" => c \in granted \/ answer[c] = "granted"
  <2>0. Weight[c] \in Nat /\ Weight[c] \in 0..Weight[c]
    BY RateAssumption
  <2>1. CASE c \in granted
    <3>1. lease'[c] = Weight[c] /\ answer'[c] = "granted" /\ c \notin Members(waiting')
      BY <1>1, <2>1
    <3> QED  BY <2>0, <2>1, <3>1 DEF Answers
  <2>2. CASE c \in Members(queue) /\ c \notin granted
    <3>1. lease'[c] = held[c] /\ held[c] = 0 /\ answer'[c] = IF left[c] > 0 THEN "waits" ELSE "expired"
      BY <1>1, <2>2
    <3>2. c \in Members(waiting') <=> left[c] > 0
      BY <1>1, <2>2
    <3> QED  BY <2>0, <3>1, <3>2 DEF Answers
  <2>3. CASE c \notin Members(queue)
    <3>1. lease'[c] = held[c] /\ answer'[c] = old[c] /\ c \notin Members(waiting')
      BY <1>1, <2>3
    <3>2. old[c] # "waits"
      BY <2>3
    <3> QED  BY <3>1, <3>2
  <2> QED  BY <1>1, <2>1, <2>2, <2>3
<1>6. ServedAhead
  BY <1>1, <1>5 DEF ServedAhead
<1>7. DOMAIN lease' = Requesters /\ answer' \in [Requesters -> Answers]
  BY <1>1, <1>5
<1>8. left' \in [Requesters -> 0..Never] /\ (Members(waiting))' = Members(waiting')
  BY DEF Members
<1>9. WaitersTimed'
  BY <1>2 DEF WaitersTimed
<1> QED  BY <1>2, <1>3, <1>5, <1>6, <1>7, <1>8, <1>9 DEF RateInv

LEMMA Least == ASSUME NEW m \in Nat, NEW n \in Nat PROVE Min({m, n}) \in 0..m
<1>1. {m, n} \in SUBSET Nat /\ {m, n} # {} /\ m \in {m, n}
  OBVIOUS
<1>2. Min({m, n}) \in {m, n} /\ Min({m, n}) <= m
  BY <1>1, Minimum
<1> QED  BY <1>2

LEMMA AcquireKeeps == ASSUME RateInv, NEW c \in Requesters, Acquire(c) PROVE RateInv' /\ ServedAhead
<1>1. c \notin Members(waiting) /\ answer[c] = "none"
  BY DEF RateInv, Acquire
<1>2. PICK queue : queue = InOrder(waiting, c)
  OBVIOUS
<1>3. Orderly(queue) /\ Members(queue) = Members(waiting) \cup {c}
  BY <1>1, <1>2, JoinedInOrder DEF RateInv
<1>4. Drain(queue, tokens, cooldown, lease, answer, timer) /\ UNCHANGED <<left, cooldown>>
  BY <1>2 DEF Acquire
<1>5. \A d \in Requesters : lease[d] \in Nat /\ (answer[d] # "granted" => lease[d] = 0)
  BY RateAssumption DEF RateInv
<1>6. \A d \in Members(queue) : lease[d] = 0
  <2>0. \A d \in Requesters : d \in Members(waiting) => answer[d] = "waits"
    BY DEF RateInv
  <2>2. Members(queue) \subseteq Requesters
    BY <1>3 DEF Orderly, Members
  <2>1. \A d \in Members(queue) : d \in Requesters /\ answer[d] # "granted"
    BY <1>1, <1>3, <2>0, <2>2
  <2> QED  BY <1>5, <2>1
<1>7. \A d \in Requesters : d \notin Members(queue) => answer[d] # "waits"
  BY <1>3 DEF RateInv
<1> QED  BY <1>3, <1>4, <1>6, <1>7, DrainKeeps DEF RateInv

LEMMA QueueKept ==
    ASSUME RateInv
    PROVE  /\ \A d \in Members(waiting) : d \in Requesters /\ lease[d] = 0
           /\ \A d \in Requesters : d \notin Members(waiting) => answer[d] # "waits"
<1>1. \A d \in Requesters : lease[d] \in Nat /\ (answer[d] # "granted" => lease[d] = 0)
  BY RateAssumption DEF RateInv
<1>2. \A d \in Members(waiting) : d \in Requesters /\ answer[d] = "waits"
  BY DEF RateInv, Orderly, Members
<1> QED  BY <1>1, <1>2 DEF RateInv

LEMMA TimerKeeps == ASSUME RateInv, TimerFires PROVE RateInv' /\ ServedAhead
<1>1. Drain(waiting, tokens, cooldown, lease, answer, Never) /\ UNCHANGED <<left, cooldown>> /\ Never \in 0..Never
  BY DEF TimerFires, Never
<1> QED  BY <1>1, QueueKept, DrainKeeps DEF RateInv

LEMMA RefusalKeeps == ASSUME RateInv, Observe429 PROVE RateInv' /\ ServedAhead
<1>1. PICK closed : closed = Max({cooldown, Cooldown})
  OBVIOUS
<1>2. closed \in 0..(Never - 2)
  <2>1. {cooldown, Cooldown} \in SUBSET (0..97) /\ {cooldown, Cooldown} # {}
    BY RateAssumption DEF RateInv, Never
  <2>2. closed \in {cooldown, Cooldown}
    BY <1>1, <2>1, Maximum
  <2> QED  BY <2>1, <2>2 DEF Never
<1>3. cooldown' = closed /\ Drain(waiting, tokens, closed, lease, answer, timer) /\ UNCHANGED left
  BY <1>1 DEF Observe429
<1> QED  BY <1>2, <1>3, QueueKept, DrainKeeps DEF RateInv

LEMMA ReleaseKeeps == ASSUME RateInv, NEW c \in Requesters, Release(c) PROVE RateInv' /\ ServedAhead
<1>1. PICK budget : budget = Min({Capacity, tokens + lease[c]})
  OBVIOUS
<1>2. PICK held : held = [lease EXCEPT ![c] = 0]
  OBVIOUS
<1>3. PICK old : old = [answer EXCEPT ![c] = "done"]
  OBVIOUS
<1>4. Drain(waiting, budget, cooldown, held, old, timer) /\ UNCHANGED <<left, cooldown>>
  BY <1>1, <1>2, <1>3 DEF Release
<1>5. budget \in 0..Capacity
  <2>1. Capacity \in Nat /\ tokens + lease[c] \in Nat
    BY RateAssumption DEF RateInv
  <2> QED  BY <1>1, <2>1, Least
<1>6. /\ \A d \in Requesters : held[d] = (IF d = c THEN 0 ELSE lease[d]) /\ old[d] = (IF d = c THEN "done" ELSE answer[d])
      /\ 0 \in 0..Weight[c]
  BY <1>2, <1>3, RateAssumption DEF RateInv
<1>7. \A d \in Requesters : held[d] \in 0..Weight[d] /\ (held[d] > 0 => old[d] = "granted")
  BY <1>6 DEF RateInv
<1>8. \A d \in Requesters : old[d] \in Answers /\ (old[d] = "granted" => answer[d] = "granted")
  BY <1>6 DEF RateInv, Answers
<1>9. /\ \A d \in Members(waiting) : held[d] = 0
      /\ \A d \in Requesters : d \notin Members(waiting) => old[d] # "waits"
  BY <1>6, QueueKept
<1> QED  BY <1>4, <1>5, <1>7, <1>8, <1>9, DrainKeeps DEF RateInv

LEMMA ConsumeKeeps ==
    ASSUME RateInv, NEW c \in Requesters, NEW part \in Requests[c], Consume(c, part)
    PROVE  RateInv' /\ ServedAhead
<1>1. part \in Nat /\ part > 0 /\ part <= lease[c] /\ lease[c] \in Nat /\ Weight[c] \in Nat /\ lease[c] <= Weight[c]
  BY RateAssumption DEF RateInv, Consume
<1>2. lease[c] - part \in 0..Weight[c] /\ answer[c] = "granted"
  BY <1>1 DEF RateInv
<1>3. /\ lease' = [lease EXCEPT ![c] = @ - part]
      /\ answer' = [answer EXCEPT ![c] = IF lease[c] = part THEN "done" ELSE @]
      /\ UNCHANGED <<tokens, waiting, left, cooldown, timer>>
  BY DEF Consume
<1>4. \A d \in Requesters : lease'[d] = (IF d = c THEN lease[c] - part ELSE lease[d])
  BY <1>3 DEF RateInv
<1>5. answer'[c] = (IF lease[c] = part THEN "done" ELSE "granted") /\ \A d \in Requesters : d # c => answer'[d] = answer[d]
  BY <1>2, <1>3 DEF RateInv
<1>6. lease'[c] > 0 => answer'[c] = "granted"
  BY <1>1, <1>4, <1>5
<1>7. \A d \in Requesters : lease'[d] \in 0..Weight[d] /\ (lease'[d] > 0 => answer'[d] = "granted")
  BY <1>2, <1>4, <1>5, <1>6 DEF RateInv
<1>8. c \notin Members(waiting)
  BY <1>2 DEF RateInv
<1>9. DOMAIN lease' = Requesters /\ answer' \in [Requesters -> Answers]
  BY <1>3, <1>5 DEF RateInv, Answers
<1>10. Orderly(waiting)' /\ WaitersTimed'
  BY <1>3 DEF RateInv, Orderly, Before, WaitersTimed
<1>11. \A d \in Requesters : answer'[d] = "waits" <=> d \in Members(waiting)'
  BY <1>3, <1>5, <1>8 DEF RateInv, Members
<1>12. ServedAhead
  BY <1>2, <1>5 DEF ServedAhead
<1> QED  BY <1>3, <1>7, <1>9, <1>10, <1>11, <1>12 DEF RateInv

(* Time passes for all who wait alike: nobody gets ahead of another by it. *)
LEMMA TickKeeps == ASSUME RateInv, Tick PROVE RateInv' /\ ServedAhead
<1>1. tokens' \in 0..Capacity
  <2>1. Capacity \in Nat /\ tokens + 1 \in Nat
    BY RateAssumption DEF RateInv
  <2>2. tokens' = Min({Capacity, tokens + 1})
    BY DEF Tick
  <2> QED  BY <2>1, <2>2, Least
<1>2. left' = [c \in Requesters |-> IF answer[c] = "waits" /\ left[c] # Never THEN AtLeast0(left[c]) ELSE left[c]]
  BY DEF Tick
<1>3. \A n \in 0..Never : AtLeast0(n) \in 0..Never /\ AtLeast0(n) <= n
                       /\ \A m \in 0..Never : n <= m => AtLeast0(n) <= AtLeast0(m)
  BY DEF AtLeast0, Never
<1>4. left' \in [Requesters -> 0..Never]
  BY <1>2, <1>3 DEF RateInv
<1>5. ASSUME NEW c \in Requesters, NEW d \in Requesters, answer[c] = "waits", answer[d] = "waits", ~Before(d, c)
      PROVE  ~Before(d, c)'
  <2>1. left[c] \in 0..Never /\ left[d] \in 0..Never /\ Priority[c] \in Nat /\ Priority[d] \in Nat
    BY RateAssumption DEF RateInv
  <2>2. left'[c] = (IF left[c] # Never THEN AtLeast0(left[c]) ELSE left[c])
        /\ left'[d] = (IF left[d] # Never THEN AtLeast0(left[d]) ELSE left[d])
    BY <1>2, <1>5
  <2>3. left[c] <= left[d] => left'[c] <= left'[d]
    <3>1. CASE left[d] = Never
      <4>1. left'[d] = Never /\ left'[c] \in 0..Never
        BY <1>4, <2>2, <3>1
      <4> QED  BY <4>1 DEF Never
    <3>2. CASE left[d] # Never /\ left[c] # Never
      BY <1>3, <2>1, <2>2, <3>2
    <3>3. CASE left[d] # Never /\ left[c] = Never
      BY <2>1, <3>3 DEF Never
    <3> QED  BY <3>1, <3>2, <3>3
  <2>4. ~(Priority[d] < Priority[c]) /\ (Priority[d] = Priority[c] => left[c] <= left[d])
    <3>1. ~(Priority[d] < Priority[c]) /\ (Priority[d] = Priority[c] => ~(left[d] < left[c]))
      BY <1>5 DEF Before
    <3>2. left[c] \in Nat /\ left[d] \in Nat
      BY <2>1 DEF Never
    <3> QED  BY <3>1, <3>2
  <2>5. left'[c] \in Nat /\ left'[d] \in Nat
    BY <1>4 DEF Never
  <2> QED  BY <2>3, <2>4, <2>5 DEF Before
<1>6. UNCHANGED <<waiting, lease, answer>>
  BY DEF Tick
<1>7. Orderly(waiting)'
  <2>1. waiting \in Seq(Requesters)
    BY DEF RateInv, Orderly
  <2>2. ASSUME NEW i \in 1..Len(waiting), NEW j \in 1..Len(waiting), i < j
        PROVE  waiting[i] # waiting[j] /\ ~Before(waiting[j], waiting[i])'
    <3>1. waiting[i] \in Requesters /\ waiting[j] \in Requesters
      BY <2>1
    <3>2. answer[waiting[i]] = "waits" /\ answer[waiting[j]] = "waits"
      BY <3>1 DEF RateInv, Members
    <3>3. waiting[i] # waiting[j] /\ ~Before(waiting[j], waiting[i])
      BY <2>2 DEF RateInv, Orderly
    <3>4. PICK c \in Requesters : c = waiting[i]
      BY <3>1
    <3>5. PICK d \in Requesters : d = waiting[j]
      BY <3>1
    <3>6. ~Before(d, c)'
      BY <1>5, <3>2, <3>3, <3>4, <3>5
    <3>7. c = waiting'[i] /\ d = waiting'[j]
      BY <1>6, <3>4, <3>5
    <3> QED  BY <1>6, <3>3, <3>4, <3>5, <3>6 DEF Before
  <2> QED  BY <1>6, <2>1, <2>2 DEF Orderly, Before
<1>8. cooldown' \in 0..(Never - 2)
  BY DEF RateInv, Tick, AtLeast0, Never
<1>9. timer' \in 0..Never /\ WaitersTimed'
  BY <1>6 DEF RateInv, Tick, AtLeast0, Never, WaitersTimed
<1>10. ServedAhead
  BY <1>6 DEF ServedAhead
<1>11. Members(waiting)' = Members(waiting)
  BY <1>6 DEF Members
<1> QED  BY <1>1, <1>4, <1>6, <1>7, <1>8, <1>9, <1>10, <1>11 DEF RateInv

LEMMA RateStep == ASSUME RateInv, [RateNext]_rateVars PROVE RateInv' /\ (ServedAhead \/ UNCHANGED rateVars)
<1>1. CASE RateNext
  <2>1. CASE Tick
    BY <2>1, TickKeeps
  <2>2. CASE TimerFires
    BY <2>2, TimerKeeps
  <2>3. CASE Observe429
    BY <2>3, RefusalKeeps
  <2>4. CASE \E c \in Requesters : Acquire(c)
    BY <2>4, AcquireKeeps
  <2>5. CASE \E c \in Requesters : Release(c)
    BY <2>5, ReleaseKeeps
  <2>6. CASE \E c \in Requesters : \E part \in Requests[c] : Consume(c, part)
    BY <2>6, ConsumeKeeps
  <2> QED  BY <1>1, <2>1, <2>2, <2>3, <2>4, <2>5, <2>6 DEF RateNext, CallerUses
<1>2. CASE UNCHANGED rateVars
  BY <1>2 DEF RateInv, rateVars, Orderly, Members, Before, WaitersTimed
<1> QED  BY <1>1, <1>2

LEMMA RateSound == RateSpec => []RateInv
BY RateInitSound, RateStep, PTL DEF RateSpec

LEMMA RateTyped == ASSUME RateInv PROVE RateTypeOK
<1>1. Members(waiting) = ToSet(waiting)
  BY MembersAre DEF RateInv, Orderly
<1> QED  BY <1>1 DEF RateInv, RateTypeOK, Answers

(* The bucket holds between nothing and its capacity, no lease is larger   *)
(* than its weight, and those who wait are those in the queue.             *)
THEOREM BucketTyped == RateSpec => []RateTypeOK
BY RateSound, RateTyped, PTL

(* Whoever waits has a timer set for him.                                  *)
THEOREM TimerForWaiters == RateSpec => []WaitersTimed
<1>1. RateInv => WaitersTimed
  BY DEF RateInv
<1> QED  BY <1>1, RateSound, PTL

(* Nobody is granted weight before one who comes before him and waits on.  *)
THEOREM GrantsInOrder == RateSpec => ServedInOrder
<1>1. RateInv /\ [RateNext]_rateVars => [ServedAhead]_rateVars
  BY RateStep
<1> QED  BY <1>1, RateSound, PTL DEF RateSpec, ServedInOrder, ServedAhead

(***************************************************************************)
(* Research.                                                               *)
(***************************************************************************)

JobRow == [status : {"absent", "pending", "running", "partial"} \cup Over, cancelled : BOOLEAN]
ItemRow == [status : {"absent", "queued"} \cup Stages \cup Over, report : {NoReport} \cup ResearchItems]
ItemWork == [at : {"idle", "look", "stage", "discover", "verify", "register", "complete", "fail", "refresh"},
         report : {NoReport} \cup ResearchItems]

ResearchRows ==
    /\ job \in [ResearchJobs -> JobRow] /\ items \in [ResearchItems -> ItemRow]
    /\ reports \in [ResearchItems -> {"absent", "opened", "analysed", "xai_error"}]
    /\ works \in [ResearchItems -> ItemWork]
    /\ torn \subseteq ResearchJobs /\ retrying \subseteq ResearchJobs

(* An item somebody works on is in a stage, or cancelled meanwhile.        *)
InHand(i) ==
    works[i].at \notin {"idle", "refresh"} => items[i].status \in Stages \cup {"cancelled"}

(* A cancelled item's job is cancelled, and nobody is about to queue it    *)
(* again, or else one of its writes was lost; a job not yet requested has  *)
(* no items.                                                               *)
JobWhole(j) ==
    \A i \in ItemsOf[j] :
        /\ items[i].status = "cancelled" =>
              j \in torn \/ (job[j].cancelled /\ job[j].status = "cancelled" /\ j \notin retrying)
        /\ job[j].status = "absent" => items[i].status = "absent"

Still(j) == ItemsOver(j) /\ j \notin retrying /\ \A i \in ItemsOf[j] : works[i].at = "idle"

ResearchInv ==
    /\ ResearchRows
    /\ \A i \in ResearchItems : InHand(i)
    /\ \A j \in ResearchJobs : JobWhole(j) /\ (Still(j) => StatusTold(j))

-----------------------------------------------------------------------------
LEMMA OwnJob ==
    ASSUME NEW i \in ResearchItems
    PROVE  /\ JobOf(i) \in ResearchJobs /\ i \in ItemsOf[JobOf(i)]
           /\ \A j \in ResearchJobs : i \in ItemsOf[j] => j = JobOf(i)
<1>1. \E j \in ResearchJobs : i \in ItemsOf[j]
  BY DEF ResearchItems
<1>2. JobOf(i) \in ResearchJobs /\ i \in ItemsOf[JobOf(i)]
  BY <1>1 DEF JobOf
<1> QED  BY <1>2, ResearchAssumption

LEMMA ItsItems ==
    ASSUME NEW j \in ResearchJobs
    PROVE  ItemsOf[j] \subseteq ResearchItems /\ ItemsOf[j] # {}
BY ResearchAssumption DEF ResearchItems

LEMMA RefreshedTyped ==
    ASSUME NEW row \in JobRow, NEW j, NEW its
    PROVE  /\ Refreshed(row, j, its) \in JobRow
           /\ Refreshed(row, j, its).cancelled = row.cancelled
           /\ Refreshed(row, j, its).status # "absent"
           /\ row.cancelled => Refreshed(row, j, its).status = "cancelled"
           /\ ~row.cancelled => Refreshed(row, j, its).status = StatusFromCounts(j, its)
<1>1. StatusFromCounts(j, its) \in {"running", "cancelled", "failed", "partial", "completed"}
  BY DEF StatusFromCounts
<1> QED  BY <1>1 DEF Refreshed, JobRow, Over

(* Counts look at the items' statuses.                                     *)
LEMMA CountsOf ==
    ASSUME NEW j \in ResearchJobs, NEW its, NEW others,
           \A i \in ItemsOf[j] : its[i].status = others[i].status
    PROVE  StatusFromCounts(j, its) = StatusFromCounts(j, others)
<1>1. \A S : {i \in ItemsOf[j] : its[i].status \in S} = {i \in ItemsOf[j] : others[i].status \in S}
  OBVIOUS
<1> QED  BY <1>1 DEF StatusFromCounts

LEMMA ResearchInitSound == ResearchInit => ResearchInv
<1> SUFFICES ASSUME ResearchInit PROVE ResearchInv
  OBVIOUS
<1>1. ResearchRows
  BY DEF ResearchInit, ResearchRows, JobRow, ItemRow, ItemWork, Over, Stages
<1>2. \A i \in ResearchItems : items[i].status = "absent" /\ works[i].at = "idle"
  BY DEF ResearchInit
<1>3. \A j \in ResearchJobs : JobWhole(j) /\ ~Still(j)
  BY <1>2, ItsItems DEF JobWhole, Still, ItemsOver, Over
<1> QED  BY <1>1, <1>2, <1>3 DEF ResearchInv, InHand

-----------------------------------------------------------------------------
(* A step of an item's worker before its refresh: the item's row is no     *)
(* other job's, and the worker is still at work on it.                     *)
LEMMA AtWork ==
    ASSUME ResearchInv, ResearchRows', NEW i \in ResearchItems,
           works[i].at \notin {"idle", "refresh"}, works'[i].at # "idle", InHand(i)',
           \A k \in ResearchItems \ {i} : works'[k].at = works[k].at /\ items'[k].status = items[k].status,
           items'[i].status = "cancelled" <=> items[i].status = "cancelled",
           UNCHANGED <<job, torn, retrying>>
    PROVE  ResearchInv'
<1>1. ASSUME NEW k \in ResearchItems PROVE InHand(k)'
  BY <1>1 DEF ResearchInv, InHand
<1>2. ASSUME NEW j \in ResearchJobs PROVE JobWhole(j)' /\ (Still(j)' => StatusTold(j)')
  <2>1. JobWhole(j) /\ (Still(j) => StatusTold(j)) /\ ItemsOf[j] \subseteq ResearchItems
    BY ItsItems DEF ResearchInv
  <2>2. JobWhole(j)'
    BY <2>1 DEF JobWhole, ResearchInv, InHand, Stages
  <2>3. CASE i \in ItemsOf[j]
    BY <2>2, <2>3 DEF Still
  <2>4. CASE i \notin ItemsOf[j]
    <3>1. \A k \in ItemsOf[j] : works'[k].at = works[k].at /\ items'[k].status = items[k].status
      BY <2>1, <2>4
    <3>2. StatusFromCounts(j, items') = StatusFromCounts(j, items)
      BY <3>1, CountsOf
    <3>3. Still(j)' => Still(j)
      BY <3>1 DEF Still, ItemsOver
    <3> QED  BY <2>1, <2>2, <3>2, <3>3 DEF StatusTold
  <2> QED  BY <2>3, <2>4
<1> QED  BY <1>1, <1>2 DEF ResearchInv

LEMMA StageSet ==
    ASSUME ResearchRows, NEW i \in ResearchItems, NEW stage \in {"grok", "verification", "completed", "failed"},
           NEW report \in {NoReport} \cup ResearchItems, SetItemStage(i, stage, report)
    PROVE  /\ items' \in [ResearchItems -> ItemRow]
           /\ \A k \in ResearchItems \ {i} : items'[k] = items[k]
           /\ items[i].status = "cancelled" => items'[i].status = "cancelled"
           /\ items[i].status # "cancelled" => items'[i].status = stage
BY DEF SetItemStage, ResearchRows, ItemRow, Stages, Over

LEMMA WentTo ==
    ASSUME ResearchRows, NEW i \in ResearchItems,
           NEW at \in {"discover", "verify", "register", "complete", "fail", "refresh"}, Goes(i, at)
    PROVE  /\ works' \in [ResearchItems -> ItemWork] /\ works'[i].at = at
           /\ \A k \in ResearchItems \ {i} : works'[k] = works[k]
BY DEF Goes, ResearchRows, ItemWork

(* The steps that take an item from its claim to its refresh.              *)
LEMMA ItemWorkKeeps ==
    ASSUME ResearchInv, NEW i \in ResearchItems,
           \/ FindReport(i) \/ ExpandReport(i) \/ DiscoverCandidates(i) \/ VerifyCandidates(i)
           \/ UpsertActors(i) \/ ExpandFails(i) \/ CompleteItem(i) \/ FailItem(i)
    PROVE  ResearchInv'
<1>0. ResearchRows /\ works[i].report \in {NoReport} \cup ResearchItems
      /\ items[i].report \in {NoReport} \cup ResearchItems /\ InHand(i)
  BY DEF ResearchInv, ResearchRows, ItemWork, ItemRow
<1> DEFINE Reports == {"absent", "opened", "analysed", "xai_error"}
<1>1. ASSUME NEW r, NEW what \in Reports
      PROVE  [reports EXCEPT ![r] = what] \in [ResearchItems -> Reports]
  BY <1>0 DEF ResearchRows
<1>2. CASE FindReport(i)
  <2>1. items' = items /\ UNCHANGED <<job, torn, retrying>> /\ works[i].at = "look"
    BY <1>2 DEF FindReport
  <2>2. reports' \in [ResearchItems -> Reports]
    BY <1>0, <1>1, <1>2 DEF FindReport, ResearchRows
  <2>3. PICK w \in ItemWork : works' = [works EXCEPT ![i] = w] /\ w.at \notin {"idle", "refresh"}
    <3>1. \A r \in {NoReport} \cup ResearchItems, at \in {"stage", "complete", "fail"} :
            [at |-> at, report |-> r] \in ItemWork
      BY DEF ItemWork
    <3>2. ASSUME Goes(i, "fail") PROVE \E w \in ItemWork : works' = [works EXCEPT ![i] = w] /\ w.at = "fail"
      <4>1. works[i] \in ItemWork
        BY <1>0 DEF ResearchRows
      <4>2. [works[i] EXCEPT !.at = "fail"] \in ItemWork /\ [works[i] EXCEPT !.at = "fail"].at = "fail"
        BY <4>1 DEF ItemWork
      <4> QED  BY <3>2, <4>2 DEF Goes
    <3> QED  BY <1>0, <1>2, <3>1, <3>2 DEF FindReport
  <2>4. works' \in [ResearchItems -> ItemWork] /\ works'[i].at \notin {"idle", "refresh"}
        /\ \A k \in ResearchItems \ {i} : works'[k] = works[k]
    BY <1>0, <2>3 DEF ResearchRows
  <2>5. ResearchRows' /\ InHand(i)'
    BY <1>0, <2>1, <2>2, <2>4 DEF ResearchRows, InHand
  <2> QED  BY <2>1, <2>4, <2>5, AtWork
<1>3. CASE ExpandReport(i)
  <2>1. works[i].at = "stage" /\ UNCHANGED <<job, torn, retrying>> /\ SetItemStage(i, "grok", works[i].report)
    BY <1>3 DEF ExpandReport
  <2>2. /\ items' \in [ResearchItems -> ItemRow]
        /\ \A k \in ResearchItems \ {i} : items'[k] = items[k]
        /\ items[i].status = "cancelled" => items'[i].status = "cancelled"
        /\ items[i].status # "cancelled" => items'[i].status = "grok"
    BY <1>0, <2>1, StageSet
  <2>3. reports' \in [ResearchItems -> Reports]
    BY <1>0, <1>1, <1>3 DEF ExpandReport, ResearchRows
  <2>4. PICK at \in {"refresh", "discover"} : Goes(i, at)
    BY <1>3 DEF ExpandReport
  <2>5. works' \in [ResearchItems -> ItemWork] /\ works'[i].at # "idle"
        /\ \A k \in ResearchItems \ {i} : works'[k] = works[k]
    BY <1>0, <2>4, WentTo
  <2>6. ResearchRows' /\ InHand(i)'
    BY <1>0, <2>1, <2>2, <2>3, <2>5 DEF ResearchRows, InHand, Stages
  <2> QED  BY <2>1, <2>2, <2>5, <2>6, AtWork
<1>4. CASE DiscoverCandidates(i) \/ CompleteItem(i) \/ FailItem(i)
  <2>1. PICK stage \in {"verification", "completed", "failed"}, report \in {NoReport} \cup ResearchItems,
             at \in {"verify", "refresh"} :
             /\ SetItemStage(i, stage, report) /\ Goes(i, at)
             /\ at = "verify" => stage = "verification"
             /\ works[i].at \notin {"idle", "refresh"} /\ UNCHANGED <<job, reports, torn, retrying>>
    BY <1>0, <1>4 DEF DiscoverCandidates, CompleteItem, FailItem
  <2>2. /\ items' \in [ResearchItems -> ItemRow]
        /\ \A k \in ResearchItems \ {i} : items'[k] = items[k]
        /\ items[i].status = "cancelled" => items'[i].status = "cancelled"
        /\ items[i].status # "cancelled" => items'[i].status = stage
    BY <1>0, <2>1, StageSet
  <2>3. works' \in [ResearchItems -> ItemWork] /\ works'[i].at = at
        /\ \A k \in ResearchItems \ {i} : works'[k] = works[k]
    BY <1>0, <2>1, WentTo
  <2>4. ResearchRows' /\ InHand(i)'
    BY <1>0, <2>1, <2>2, <2>3 DEF ResearchRows, InHand, Stages
  <2> QED  BY <2>1, <2>2, <2>3, <2>4, AtWork
<1>5. CASE VerifyCandidates(i) \/ UpsertActors(i) \/ ExpandFails(i)
  <2>1. PICK at \in {"register", "complete", "fail"} :
             Goes(i, at) /\ works[i].at \notin {"idle", "refresh"} /\ UNCHANGED <<job, items, torn, retrying>>
    BY <1>5 DEF VerifyCandidates, UpsertActors, ExpandFails
  <2>2. reports' \in [ResearchItems -> Reports]
    BY <1>0, <1>1, <1>5 DEF VerifyCandidates, UpsertActors, ExpandFails, ResearchRows
  <2>3. works' \in [ResearchItems -> ItemWork] /\ works'[i].at = at
        /\ \A k \in ResearchItems \ {i} : works'[k] = works[k]
    BY <1>0, <2>1, WentTo
  <2>4. ResearchRows' /\ InHand(i)'
    BY <1>0, <2>1, <2>2, <2>3 DEF ResearchRows, InHand
  <2> QED  BY <2>1, <2>3, <2>4, AtWork
<1> QED  BY <1>2, <1>3, <1>4, <1>5

(* The job is told what its items say.                                     *)
LEMMA RefreshKeeps ==
    ASSUME ResearchInv, NEW i \in ResearchItems, RefreshJob(i)
    PROVE  ResearchInv'
<1> DEFINE own == JobOf(i)
<1>0. ResearchRows /\ own \in ResearchJobs /\ i \in ItemsOf[own]
      /\ \A j \in ResearchJobs : i \in ItemsOf[j] => j = own
  BY OwnJob DEF ResearchInv
<1>1. UNCHANGED <<items, reports, torn, retrying>>
  BY DEF RefreshJob
<1>2. PICK row \in JobRow : row = job[own]
  BY <1>0 DEF ResearchRows
<1>3. job' = [job EXCEPT ![own] = Refreshed(row, own, items)]
  BY <1>2 DEF RefreshJob
<1>4. /\ Refreshed(row, own, items) \in JobRow
      /\ Refreshed(row, own, items).cancelled = row.cancelled
      /\ Refreshed(row, own, items).status # "absent"
      /\ row.cancelled => Refreshed(row, own, items).status = "cancelled"
      /\ ~row.cancelled => Refreshed(row, own, items).status = StatusFromCounts(own, items)
  BY RefreshedTyped
<1> HIDE DEF own
<1>5. job' \in [ResearchJobs -> JobRow] /\ job'[own] = Refreshed(row, own, items)
      /\ \A j \in ResearchJobs \ {own} : job'[j] = job[j]
  BY <1>0, <1>3, <1>4 DEF ResearchRows
<1>6. works' \in [ResearchItems -> ItemWork] /\ works'[i].at = "idle"
      /\ \A k \in ResearchItems \ {i} : works'[k] = works[k]
  BY <1>0 DEF RefreshJob, ResearchRows, ItemWork
<1>7. ResearchRows'
  BY <1>0, <1>1, <1>5, <1>6 DEF ResearchRows
<1>8. ASSUME NEW k \in ResearchItems PROVE InHand(k)'
  BY <1>1, <1>6 DEF ResearchInv, InHand
<1>9. ASSUME NEW j \in ResearchJobs PROVE JobWhole(j)' /\ (Still(j)' => StatusTold(j)')
  <2>1. JobWhole(j) /\ (Still(j) => StatusTold(j)) /\ ItemsOf[j] \subseteq ResearchItems
    BY ItsItems DEF ResearchInv
  <2>2. CASE j = own
    <3>1. JobWhole(j)'
      BY <1>1, <1>2, <1>4, <1>5, <2>1, <2>2 DEF JobWhole
    <3>2. StatusTold(j)'
      BY <1>1, <1>4, <1>5, <2>2 DEF StatusTold
    <3> QED  BY <3>1, <3>2
  <2>3. CASE j # own
    <3>1. job'[j] = job[j] /\ i \notin ItemsOf[j]
      BY <1>0, <1>5, <2>3
    <3>2. \A k \in ItemsOf[j] : works'[k] = works[k]
      BY <1>6, <2>1, <3>1
    <3> QED  BY <1>1, <2>1, <3>1, <3>2 DEF JobWhole, Still, StatusTold, ItemsOver
  <2> QED  BY <2>2, <2>3
<1> QED  BY <1>7, <1>8, <1>9 DEF ResearchInv

(* A claimed batch goes to work, and every job of it shows that.           *)
LEMMA ClaimKeeps == ASSUME ResearchInv, ClaimItems PROVE ResearchInv'
<1>0. ResearchRows /\ UNCHANGED <<reports, retrying, torn>>
      /\ \A i \in ResearchItems : works[i].at = "idle"
  BY DEF ResearchInv, ClaimItems
<1>1. PICK batch \in SUBSET {i \in ResearchItems : Claimable(i)} :
         /\ items' = [i \in ResearchItems |->
                        IF i \in batch THEN [items[i] EXCEPT !.status = "gmgn"] ELSE items[i]]
         /\ works' = [i \in ResearchItems |->
                        IF i \in batch THEN [at |-> "look", report |-> items[i].report] ELSE works[i]]
         /\ job' = [j \in ResearchJobs |->
                       IF ItemsOf[j] \cap batch # {} THEN Refreshed(job[j], j, items') ELSE job[j]]
  BY DEF ClaimItems
<1>2. ASSUME NEW i \in ResearchItems
      PROVE  /\ items'[i] \in ItemRow /\ works'[i] \in ItemWork
             /\ i \in batch => items'[i].status = "gmgn" /\ works'[i].at = "look"
                               /\ items[i].status # "cancelled" /\ job[JobOf(i)].status # "cancelled"
             /\ i \notin batch => items'[i] = items[i] /\ works'[i] = works[i]
  <2>1. items[i] \in ItemRow /\ works[i] \in ItemWork
    BY <1>0 DEF ResearchRows
  <2>2. i \in batch => Claimable(i)
    OBVIOUS
  <2> QED  BY <1>1, <2>1, <2>2 DEF ItemRow, ItemWork, Claimable, Stages
<1>3. ASSUME NEW j \in ResearchJobs
      PROVE  /\ job'[j] \in JobRow /\ job'[j].cancelled = job[j].cancelled
             /\ ItemsOf[j] \cap batch = {} => job'[j] = job[j]
             /\ ItemsOf[j] \cap batch # {} => job'[j].status # "absent"
             /\ job[j].cancelled /\ job[j].status = "cancelled" => job'[j].status = "cancelled"
  <2>1. job[j] \in JobRow
    BY <1>0 DEF ResearchRows
  <2> QED  BY <1>1, <2>1, RefreshedTyped
<1>4. ResearchRows'
  <2>1. job' \in [ResearchJobs -> JobRow] /\ items' \in [ResearchItems -> ItemRow]
        /\ works' \in [ResearchItems -> ItemWork]
    BY <1>1, <1>2, <1>3
  <2> QED  BY <1>0, <2>1 DEF ResearchRows
<1>5. ASSUME NEW i \in ResearchItems PROVE InHand(i)'
  BY <1>0, <1>2 DEF InHand, Stages
<1>6. ASSUME NEW j \in ResearchJobs PROVE JobWhole(j)' /\ (Still(j)' => StatusTold(j)')
  <2>1. JobWhole(j) /\ (Still(j) => StatusTold(j)) /\ ItemsOf[j] \subseteq ResearchItems
    BY ItsItems DEF ResearchInv
  <2>2. JobWhole(j)'
    BY <1>0, <1>2, <1>3, <2>1 DEF JobWhole
  <2>3. Still(j)' => ItemsOf[j] \cap batch = {}
    BY <1>2, <2>1 DEF Still
  <2>4. ItemsOf[j] \cap batch = {} => \A i \in ItemsOf[j] : items'[i] = items[i] /\ works'[i] = works[i]
    BY <1>2, <2>1
  <2>5. ItemsOf[j] \cap batch = {} => StatusFromCounts(j, items') = StatusFromCounts(j, items)
    BY <2>4, CountsOf
  <2> QED  BY <1>0, <1>3, <2>1, <2>2, <2>3, <2>4, <2>5 DEF Still, StatusTold, ItemsOver
<1> QED  BY <1>4, <1>5, <1>6 DEF ResearchInv

(* What the owner does to a job is done to its own items.                  *)
LEMMA OneJob ==
    ASSUME ResearchInv, ResearchRows', NEW own \in ResearchJobs,
           UNCHANGED works,
           \A i \in ResearchItems : InHand(i)',
           \A i \in ResearchItems \ ItemsOf[own] : items'[i] = items[i],
           \A j \in ResearchJobs \ {own} :
               job'[j] = job[j] /\ (j \in retrying' <=> j \in retrying) /\ (j \in torn' <=> j \in torn),
           JobWhole(own)', Still(own)' => StatusTold(own)'
    PROVE  ResearchInv'
<1>1. ASSUME NEW j \in ResearchJobs \ {own} PROVE JobWhole(j)' /\ (Still(j)' => StatusTold(j)')
  <2>1. JobWhole(j) /\ (Still(j) => StatusTold(j)) /\ ItemsOf[j] \subseteq ResearchItems
    BY ItsItems DEF ResearchInv
  <2>2. \A i \in ItemsOf[j] : items'[i] = items[i]
    BY <2>1, ResearchAssumption
  <2>3. StatusFromCounts(j, items') = StatusFromCounts(j, items)
    BY <2>2, CountsOf
  <2>4. job'[j] = job[j] /\ (j \in retrying' <=> j \in retrying) /\ (j \in torn' <=> j \in torn)
    OBVIOUS
  <2>5. JobWhole(j)'
    BY <2>1, <2>2, <2>4 DEF JobWhole
  <2>6. Still(j)' => Still(j)
    BY <2>2, <2>4 DEF Still, ItemsOver
  <2> QED  BY <2>1, <2>3, <2>4, <2>5, <2>6 DEF StatusTold
<1> QED  BY <1>1 DEF ResearchInv

LEMMA OwnerKeeps ==
    ASSUME ResearchInv, NEW j \in ResearchJobs,
           CreateResearchJob(j) \/ CancelResearchJob(j) \/ RetryFailedItems(j) \/ RetriedJobPending(j)
    PROVE  ResearchInv'
<1>0. ResearchRows /\ JobWhole(j) /\ (Still(j) => StatusTold(j))
      /\ ItemsOf[j] \subseteq ResearchItems /\ ItemsOf[j] # {} /\ job[j] \in JobRow
      /\ UNCHANGED <<works, reports>>
  BY ItsItems DEF ResearchInv, ResearchRows, CreateResearchJob, CancelResearchJob, RetryFailedItems,
                  RetriedJobPending
<1>1. ASSUME NEW from, NEW to \in {"queued", "cancelled"},
             items' = [i \in ResearchItems |-> IF i \in ItemsOf[j] /\ items[i].status \in from
                                              THEN [items[i] EXCEPT !.status = to] ELSE items[i]]
      PROVE  /\ items' \in [ResearchItems -> ItemRow]
             /\ \A i \in ResearchItems \ ItemsOf[j] : items'[i] = items[i]
             /\ \A i \in ItemsOf[j] : items'[i].status = IF items[i].status \in from THEN to ELSE items[i].status
  BY <1>0, <1>1 DEF ResearchRows, ItemRow, Over
<1>2. ASSUME NEW row \in JobRow, job' = [job EXCEPT ![j] = row]
      PROVE  /\ job' \in [ResearchJobs -> JobRow] /\ job'[j] = row
             /\ \A k \in ResearchJobs \ {j} : job'[k] = job[k]
  BY <1>0, <1>2 DEF ResearchRows
<1>3. CASE CreateResearchJob(j)
  <2> DEFINE all == {items[i].status : i \in ItemsOf[j]}
  <2>1. items' = [i \in ResearchItems |-> IF i \in ItemsOf[j] /\ items[i].status \in all
                                         THEN [items[i] EXCEPT !.status = "queued"] ELSE items[i]]
    BY <1>3 DEF CreateResearchJob
  <2>2. /\ items' \in [ResearchItems -> ItemRow]
        /\ \A i \in ResearchItems \ ItemsOf[j] : items'[i] = items[i]
        /\ \A i \in ItemsOf[j] : items'[i].status = "queued"
    <3>1. \A i \in ItemsOf[j] : items[i].status \in all
      OBVIOUS
    <3> HIDE DEF all
    <3>2. /\ items' \in [ResearchItems -> ItemRow]
          /\ \A i \in ResearchItems \ ItemsOf[j] : items'[i] = items[i]
          /\ \A i \in ItemsOf[j] : items'[i].status = IF items[i].status \in all THEN "queued" ELSE items[i].status
      BY <1>1, <2>1
    <3> QED  BY <3>1, <3>2
  <2>3. PICK row \in JobRow : job' = [job EXCEPT ![j] = row] /\ row.status = "pending"
    <3>1. [job[j] EXCEPT !.status = "pending"] \in JobRow
          /\ [job[j] EXCEPT !.status = "pending"].status = "pending"
      BY <1>0 DEF JobRow
    <3> QED  BY <1>3, <3>1 DEF CreateResearchJob
  <2>4. /\ job' \in [ResearchJobs -> JobRow] /\ job'[j].status = "pending"
        /\ \A k \in ResearchJobs \ {j} : job'[k] = job[k]
    BY <1>2, <2>3
  <2>5. UNCHANGED <<torn, retrying>> /\ job[j].status = "absent"
    BY <1>3 DEF CreateResearchJob
  <2>6. ResearchRows'
    BY <1>0, <2>2, <2>4, <2>5 DEF ResearchRows
  <2>7. ASSUME NEW i \in ResearchItems PROVE InHand(i)'
    BY <1>0, <2>2, <2>5 DEF ResearchInv, InHand, JobWhole, Stages
  <2>8. JobWhole(j)' /\ ~Still(j)'
    BY <1>0, <2>2, <2>4 DEF JobWhole, Still, ItemsOver, Over
  <2> QED  BY <1>0, <2>2, <2>4, <2>5, <2>6, <2>7, <2>8, OneJob
<1>4. CASE CancelResearchJob(j)
  <2> DEFINE open == {items[i].status : i \in ItemsOf[j]} \ Over
  <2>1. items' = [i \in ResearchItems |-> IF i \in ItemsOf[j] /\ items[i].status \in open
                                         THEN [items[i] EXCEPT !.status = "cancelled"] ELSE items[i]]
    BY <1>4 DEF CancelResearchJob
  <2>2. /\ items' \in [ResearchItems -> ItemRow]
        /\ \A i \in ResearchItems \ ItemsOf[j] : items'[i] = items[i]
        /\ \A i \in ItemsOf[j] : items'[i].status = IF items[i].status \in open THEN "cancelled" ELSE items[i].status
    BY <1>1, <2>1
  <2>3. [status |-> "cancelled", cancelled |-> TRUE] \in JobRow
    BY DEF JobRow, Over
  <2>4. /\ job' \in [ResearchJobs -> JobRow] /\ job'[j] = [status |-> "cancelled", cancelled |-> TRUE]
        /\ \A k \in ResearchJobs \ {j} : job'[k] = job[k]
    BY <1>2, <1>4, <2>3 DEF CancelResearchJob
  <2>5. retrying' = retrying /\ torn' = torn \cup (retrying \cap {j})
    BY <1>4 DEF CancelResearchJob
  <2>6. ResearchRows'
    BY <1>0, <2>2, <2>4, <2>5 DEF ResearchRows
  <2>7. ASSUME NEW i \in ResearchItems PROVE InHand(i)'
    BY <1>0, <2>2 DEF ResearchInv, InHand
  <2>8. JobWhole(j)' /\ StatusTold(j)'
    BY <2>4, <2>5 DEF JobWhole, StatusTold
  <2> QED  BY <1>0, <2>2, <2>4, <2>5, <2>6, <2>7, <2>8, OneJob
<1>5. CASE RetryFailedItems(j)
  <2>1. items' = [i \in ResearchItems |-> IF i \in ItemsOf[j] /\ items[i].status \in {"failed"}
                                         THEN [items[i] EXCEPT !.status = "queued"] ELSE items[i]]
    BY <1>5 DEF RetryFailedItems
  <2>2. /\ items' \in [ResearchItems -> ItemRow]
        /\ \A i \in ResearchItems \ ItemsOf[j] : items'[i] = items[i]
        /\ \A i \in ItemsOf[j] : items'[i].status = IF items[i].status \in {"failed"} THEN "queued" ELSE items[i].status
    BY <1>1, <2>1
  <2>3. UNCHANGED <<job, torn>> /\ retrying' = retrying \cup {j} /\ job[j].status # "cancelled"
        /\ \E i \in ItemsOf[j] : items[i].status = "failed"
    BY <1>5 DEF RetryFailedItems
  <2>4. ResearchRows'
    BY <1>0, <2>2, <2>3 DEF ResearchRows
  <2>5. ASSUME NEW i \in ResearchItems PROVE InHand(i)'
    BY <1>0, <2>2 DEF ResearchInv, InHand, Stages
  <2>6. JobWhole(j)' /\ ~Still(j)'
    BY <1>0, <2>2, <2>3 DEF JobWhole, Still
  <2> QED  BY <1>0, <2>2, <2>3, <2>4, <2>5, <2>6, OneJob
<1>6. CASE RetriedJobPending(j)
  <2>1. [status |-> "pending", cancelled |-> FALSE] \in JobRow
    BY DEF JobRow
  <2>2. /\ job' \in [ResearchJobs -> JobRow] /\ job'[j] = [status |-> "pending", cancelled |-> FALSE]
        /\ \A k \in ResearchJobs \ {j} : job'[k] = job[k]
    BY <1>2, <1>6, <2>1 DEF RetriedJobPending
  <2>3. /\ items' = items /\ j \in retrying /\ retrying' = retrying \ {j}
        /\ torn' = IF \A i \in ItemsOf[j] : items[i].status \in Over /\ works[i].at = "idle"
                   THEN torn \cup {j} ELSE torn
    BY <1>6 DEF RetriedJobPending
  <2>4. ResearchRows'
    BY <1>0, <2>2, <2>3 DEF ResearchRows
  <2>5. ASSUME NEW i \in ResearchItems PROVE InHand(i)'
    BY <1>0, <2>3 DEF ResearchInv, InHand
  <2>6. JobWhole(j)'
    BY <1>0, <2>2, <2>3 DEF JobWhole
  <2>7. Still(j)' => StatusTold(j)'
    BY <1>0, <2>3 DEF Still, StatusTold, ItemsOver
  <2> QED  BY <1>0, <2>2, <2>3, <2>4, <2>5, <2>6, <2>7, OneJob
<1> QED  BY <1>3, <1>4, <1>5, <1>6

(* A death leaves no write of a status behind that is not remembered.      *)
LEMMA DeathKeeps == ASSUME ResearchInv, ResearchDies PROVE ResearchInv'
<1>0. ResearchRows /\ UNCHANGED <<job, items, reports>> /\ retrying' = {}
      /\ works' = [i \in ResearchItems |-> [at |-> "idle", report |-> NoReport]]
      /\ torn' = torn \cup {JobOf(i) : i \in {k \in ResearchItems : works[k].at = "refresh"}} \cup retrying
  BY DEF ResearchInv, ResearchDies
<1>1. {JobOf(i) : i \in {k \in ResearchItems : works[k].at = "refresh"}} \subseteq ResearchJobs
  BY OwnJob
<1>2. works' \in [ResearchItems -> ItemWork] /\ \A i \in ResearchItems : works'[i].at = "idle"
  BY <1>0 DEF ItemWork
<1>3. ResearchRows'
  BY <1>0, <1>1, <1>2 DEF ResearchRows
<1>4. ASSUME NEW j \in ResearchJobs PROVE JobWhole(j)' /\ (Still(j)' => StatusTold(j)')
  <2>1. JobWhole(j) /\ (Still(j) => StatusTold(j)) /\ ItemsOf[j] \subseteq ResearchItems
        /\ job[j] \in JobRow
    BY <1>0, ItsItems DEF ResearchInv, ResearchRows
  <2>2. JobWhole(j)'
    BY <1>0, <2>1 DEF JobWhole
  <2>3. ASSUME ItemsOver(j), j \notin torn' PROVE StatusTold(j)
    <3>1. j \notin retrying /\ \A i \in ItemsOf[j] : works[i].at # "refresh"
      BY <1>0, <2>1, <2>3, OwnJob
    <3>2. ASSUME NEW i \in ItemsOf[j], works[i].at # "idle" PROVE StatusTold(j)
      <4>1. items[i].status = "cancelled"
        BY <2>1, <2>3, <3>1, <3>2 DEF ResearchInv, InHand, ItemsOver, Over, Stages
      <4> QED  BY <2>1, <4>1 DEF JobWhole, StatusTold
    <3> QED  BY <2>1, <2>3, <3>1, <3>2 DEF Still
  <2> QED  BY <1>0, <2>2, <2>3 DEF Still, StatusTold, ItemsOver
<1> QED  BY <1>2, <1>3, <1>4 DEF ResearchInv, InHand

LEMMA ResearchStep == ASSUME ResearchInv, [ResearchNext]_researchVars PROVE ResearchInv'
<1>1. CASE ResearchNext
  BY <1>1, OwnerKeeps, ClaimKeeps, ItemWorkKeeps, RefreshKeeps, DeathKeeps DEF ResearchNext, ProcessItem
<1>2. CASE UNCHANGED researchVars
  BY <1>2 DEF researchVars, ResearchInv, ResearchRows, InHand, JobWhole, Still, StatusTold, ItemsOver,
              StatusFromCounts
<1> QED  BY <1>1, <1>2

(* The rows of the queue and what the process holds keep to their          *)
(* vocabularies.                                                           *)
THEOREM ResearchTyped == ResearchSpec => []ResearchTypeOK
<1>1. ResearchInv => ResearchTypeOK
  BY DEF ResearchInv, ResearchRows, ResearchTypeOK, JobRow, ItemRow, ItemWork
<1>2. ResearchInv /\ [ResearchNext]_researchVars => ResearchInv'
  BY ResearchStep
<1> QED  BY <1>1, <1>2, ResearchInitSound, PTL DEF ResearchSpec

(* A job nobody works on any more has the status its items say             *)
(* (refreshJob, cancelJob, retryFailedItems).                              *)
THEOREM RestingJobsTold == ResearchSpec => []StatusFollowsItems
<1>1. ResearchInv => StatusFollowsItems
  BY DEF ResearchInv, Still, StatusFollowsItems
<1>2. ResearchInv /\ [ResearchNext]_researchVars => ResearchInv'
  BY ResearchStep
<1> QED  BY <1>1, <1>2, ResearchInitSound, PTL DEF ResearchSpec

(***************************************************************************)
(* The watches.                                                            *)
(***************************************************************************)

WatchRow == [managed : BOOLEAN, status : WatchStatuses, remote : SUBSET Events]
OutboxRow == [status : OutboxStatuses, version : Nat, wanted : SUBSET Events]
PlannedActions == {"add", "adopt", "update", "takeover", "delete", "mark_removed", "none"}
Syncer == [step : {"idle", "load", "list", "apply", "complete", "fail"},
           claimed : [Handles -> Nat], wanted : [Handles -> SUBSET Events],
           managed : SUBSET Handles, plan : [Handles -> PlannedActions],
           at : {{}, {"deleted"}, {"added"}}]

WatchInv ==
    /\ watches \in [Handles -> WatchRow] /\ outbox \in [Handles -> OutboxRow]
    /\ syncer \in Syncer /\ provider \in [Handles -> SUBSET Events]
    /\ faults \in [calls : Nat, exits : Nat, probes : Nat]
    /\ faults.calls + faults.exits + faults.probes <= MaxFaults

LEMMA IdleTyped == IdleSyncer \in Syncer
BY DEF IdleSyncer, Syncer, PlannedActions

LEMMA WatchInitSound == ASSUME WatchInit PROVE WatchInv
<1>1. NoWatch \in WatchRow /\ NoOutbox \in OutboxRow
  BY DEF NoWatch, NoOutbox, WatchRow, OutboxRow, WatchStatuses, OutboxStatuses
<1>2. provider \in [Handles -> SUBSET Events]
  BY WatchAssumption DEF WatchInit
<1>3. /\ faults \in [calls : Nat, exits : Nat, probes : Nat]
      /\ faults.calls + faults.exits + faults.probes <= MaxFaults
  BY WatchAssumption DEF WatchInit
<1> QED  BY <1>1, <1>2, <1>3, IdleTyped DEF WatchInit, WatchInv

LEMMA DemandTyped ==
    ASSUME NEW rs \in [Rows -> Row], NEW rule, rule.asks \in [Handles -> SUBSET Events], NEW on
    PROVE  Demand(rs, rule, on) \in [Handles -> SUBSET Events]
<1> SUFFICES ASSUME NEW h \in Handles
             PROVE  (IF rule.status = "active" THEN rule.asks[h] ELSE {})
                      \cup UNION {rs[r].asks[h] : r \in {q \in Rows : rs[q].status = "active"}} \in SUBSET Events
  BY DEF Demand
<1>1. \A r \in Rows : rs[r].asks[h] \subseteq Events
  BY DEF Row
<1> QED  BY <1>1

LEMMA EnqueueTyped ==
    ASSUME outbox \in [Handles -> OutboxRow], NEW handles, NEW demand \in [Handles -> SUBSET Events],
           EnqueueWatchSync(handles, demand)
    PROVE  outbox' \in [Handles -> OutboxRow]
<1>1. ASSUME NEW h \in Handles PROVE Enqueued(h, demand[h]) \in OutboxRow
  <2>1. PICK changed \in BOOLEAN : changed = (outbox[h].status = "none" \/ outbox[h].wanted # demand[h])
    OBVIOUS
  <2>2. PICK version \in Nat : version = outbox[h].version + IF changed THEN 1 ELSE 0
    BY DEF OutboxRow
  <2>3. PICK status \in OutboxStatuses :
           status = IF AlreadyInSync(h, demand[h]) THEN "succeeded"
                    ELSE IF changed \/ outbox[h].status = "succeeded" THEN "pending"
                    ELSE outbox[h].status
    BY DEF OutboxRow, OutboxStatuses
  <2>4. Enqueued(h, demand[h]) = [version |-> version, wanted |-> demand[h], status |-> status]
    BY <2>1, <2>2, <2>3 DEF Enqueued
  <2> QED  BY <2>4 DEF OutboxRow
<1> QED  BY <1>1 DEF EnqueueWatchSync

LEMMA EditKeepsWatches ==
    ASSUME ActivationRows, ActivationRows', WatchInv, OwnerEdits
    PROVE  WatchInv'
<1> DEFINE Asking(demand) == \E handles \in SUBSET Handles : EnqueueWatchSync(handles, demand)
<1>1. /\ UNCHANGED <<watches, syncer, provider, faults>>
      /\ \/ UNCHANGED outbox \/ Asking(Demand(rows', launch, enabled'))
         \/ Asking(Demand(rows', launch, enabled)) \/ Asking(Demand(rows, launch', enabled'))
  <2>0. \A asks : Asked(asks) \in SUBSET Handles
    BY DEF Asked
  <2>1. CASE EditLaunchRule
    BY <2>0, <2>1 DEF EditLaunchRule, Elsewhere
  <2>2. CASE ReactivateChains
    BY <2>2 DEF ReactivateChains, Elsewhere
  <2>3. ASSUME NEW h \in Handles, ToggleKol(h)
        PROVE  UNCHANGED <<watches, syncer, provider, faults>> /\ Asking(Demand(rows', launch, enabled'))
    BY <2>3 DEF ToggleKol, Elsewhere
  <2>4. ASSUME NEW r \in Rows, AddWhitelist(r)
        PROVE  UNCHANGED <<watches, syncer, provider, faults>> /\ Asking(Demand(rows', launch, enabled'))
    BY <2>0, <2>4 DEF AddWhitelist, Elsewhere
  <2>5. ASSUME NEW r \in Rows, UpdateWhitelist(r)
        PROVE  UNCHANGED <<watches, syncer, provider, faults>> /\ Asking(Demand(rows', launch, enabled'))
    <3>1. \A a, b : Asked(a) \cup Asked(b) \in SUBSET Handles
      BY <2>0
    <3> QED  BY <2>5, <3>1 DEF UpdateWhitelist, Elsewhere
  <2>6. ASSUME NEW r \in Rows, ChangeStatus(r)
        PROVE  UNCHANGED <<watches, syncer, provider, faults>> /\ Asking(Demand(rows', launch, enabled))
    BY <2>0, <2>6 DEF ChangeStatus, Elsewhere
  <2>7. ASSUME NEW r \in Rows, RetryActivation(r) \/ ConsumeRule(r) \/ Materialize(r)
        PROVE  UNCHANGED <<watches, syncer, provider, faults, outbox>>
    BY <2>7 DEF RetryActivation, ConsumeRule, Materialize, Elsewhere
  <2>8. ASSUME NEW r \in Rows, DeleteWhitelist(r)
        PROVE  UNCHANGED <<watches, syncer, provider, faults>> /\ Asking(Demand(rows', launch, enabled))
    BY <2>0, <2>8 DEF DeleteWhitelist, Elsewhere
  <2> HIDE DEF Asking
  <2> QED  BY <2>1, <2>2, <2>3, <2>4, <2>5, <2>6, <2>7, <2>8 DEF OwnerEdits
<1>2. /\ Demand(rows', launch, enabled') \in [Handles -> SUBSET Events]
      /\ Demand(rows', launch, enabled) \in [Handles -> SUBSET Events]
      /\ Demand(rows, launch', enabled') \in [Handles -> SUBSET Events]
  BY DemandTyped DEF ActivationRows
<1>3. outbox' \in [Handles -> OutboxRow]
  <2>1. \A demand \in [Handles -> SUBSET Events] : Asking(demand) => outbox' \in [Handles -> OutboxRow]
    BY EnqueueTyped DEF WatchInv
  <2>2. outbox \in [Handles -> OutboxRow]
    BY DEF WatchInv
  <2> HIDE DEF Asking
  <2> QED  BY <1>1, <1>2, <2>1, <2>2
<1> QED  BY <1>1, <1>3 DEF WatchInv

LEMMA FaultCounted ==
    ASSUME WatchInv, MayFail,
           \/ faults' = [faults EXCEPT !.calls = @ + 1]
           \/ faults' = [faults EXCEPT !.exits = @ + 1]
           \/ faults' = [faults EXCEPT !.probes = @ + 1]
    PROVE  /\ faults' \in [calls : Nat, exits : Nat, probes : Nat]
           /\ faults'.calls + faults'.exits + faults'.probes <= MaxFaults
BY WatchAssumption DEF WatchInv, MayFail

LEMMA WorkKeepsWatches ==
    ASSUME ActivationRows, WatchInv, ActivationWork \/ ActivationWorkerExits
    PROVE  WatchInv'
<1>1. UNCHANGED <<watches, syncer, provider>>
  BY DEF ActivationWork, ActivationWorkerExits, ClaimActivations, LoadContext, AssertWatchesInSync,
         ProbeWhitelist, MarkLiveReady, CompleteOutbox, GiveBack, MarkGivenBack, OfTheActivation
<1>2. outbox' \in [Handles -> OutboxRow]
  <2>1. UNCHANGED outbox \/ \E handles : EnqueueWatchSync(handles, CurrentDemand)
    BY DEF ActivationWork, ActivationWorkerExits, ClaimActivations, LoadContext, AssertWatchesInSync,
           ProbeWhitelist, MarkLiveReady, CompleteOutbox, GiveBack, MarkGivenBack
  <2>2. CurrentDemand \in [Handles -> SUBSET Events]
    BY DemandTyped DEF ActivationRows, CurrentDemand
  <2>3. outbox \in [Handles -> OutboxRow]
    BY DEF WatchInv
  <2> QED  BY <2>1, <2>2, <2>3, EnqueueTyped
<1>3. /\ faults' \in [calls : Nat, exits : Nat, probes : Nat]
      /\ faults'.calls + faults'.exits + faults'.probes <= MaxFaults
  <2>1. UNCHANGED faults \/ (MayFail /\ faults' = [faults EXCEPT !.probes = @ + 1])
    BY DEF ActivationWork, ActivationWorkerExits, ClaimActivations, LoadContext, AssertWatchesInSync,
           ProbeWhitelist, MarkLiveReady, CompleteOutbox, GiveBack, MarkGivenBack
  <2> QED  BY <2>1, FaultCounted DEF WatchInv
<1> QED  BY <1>1, <1>2, <1>3 DEF WatchInv

LEMMA ActionTyped ==
    ASSUME NEW wanted, NEW present, NEW managed
    PROVE  WatchAction(wanted, present, managed) \in PlannedActions
BY DEF WatchAction, PlannedActions

LEMMA StatusTyped ==
    ASSUME NEW action \in PlannedActions, NEW managed \in BOOLEAN
    PROVE  SyncStatusFor(action, managed) \in WatchStatuses
BY DEF SyncStatusFor, PlannedActions, WatchStatuses

(* What a step of the worker leaves in its hands.                          *)
LEMMA EntryTyped ==
    ASSUME WatchInv, NEW h \in Handles
    PROVE  /\ EntryDone(h) => syncer' \in Syncer
           /\ \A step \in {"idle", "load", "list", "apply", "complete", "fail"} :
                 SyncGoto(step) => syncer' \in Syncer
           /\ \A managed \in BOOLEAN, status \in WatchStatuses, remote \in SUBSET Events :
                 SetWatchResult(h, managed, status, remote) => watches' \in [Handles -> WatchRow]
<1>1. EntryDone(h) => syncer' \in Syncer
  <2>1. [syncer.plan EXCEPT ![h] = "none"] \in [Handles -> PlannedActions]
    BY DEF WatchInv, Syncer, PlannedActions
  <2>2. EntryDone(h) => syncer' = [syncer EXCEPT !.step = "apply", !.plan = [syncer.plan EXCEPT ![h] = "none"], !.at = {}]
    BY DEF EntryDone, WatchInv, Syncer
  <2> QED  BY <2>1, <2>2 DEF WatchInv, Syncer
<1>2. \A step \in {"idle", "load", "list", "apply", "complete", "fail"} : SyncGoto(step) => syncer' \in Syncer
  BY DEF SyncGoto, WatchInv, Syncer
<1>3. \A managed \in BOOLEAN, status \in WatchStatuses, remote \in SUBSET Events :
         SetWatchResult(h, managed, status, remote) => watches' \in [Handles -> WatchRow]
  BY DEF SetWatchResult, WatchInv, WatchRow
<1> QED  BY <1>1, <1>2, <1>3

LEMMA SyncKeepsWatches ==
    ASSUME ActivationRows, WatchInv, WatchStep(CurrentDemand)
    PROVE  WatchInv'
<1>0. CurrentDemand \in [Handles -> SUBSET Events]
  BY DemandTyped DEF ActivationRows, CurrentDemand
<1>00. {"in_sync", "observed", "error"} \subseteq WatchStatuses /\ {} \in SUBSET Events
  BY DEF WatchStatuses
<1>1. CASE ClaimWatchSync
  <2>1. outbox' \in [Handles -> OutboxRow]
    BY <1>1 DEF ClaimWatchSync, WatchInv, OutboxRow, OutboxStatuses
  <2>2. syncer' \in Syncer
    <3>1. PICK due \in SUBSET Handles :
             syncer' = [IdleSyncer EXCEPT !.step = "load", !.claimed =
                          [h \in Handles |-> IF h \in due THEN outbox[h].version ELSE 0]]
      BY <1>1 DEF ClaimWatchSync
    <3>2. [h \in Handles |-> IF h \in due THEN outbox[h].version ELSE 0] \in [Handles -> Nat]
      BY DEF WatchInv, OutboxRow
    <3> QED  BY <3>1, <3>2, IdleTyped DEF Syncer
  <2> QED  BY <1>1, <2>1, <2>2 DEF ClaimWatchSync, WatchInv
<1>2. CASE LoadDesiredWatches(CurrentDemand)
  <2>1. syncer' \in Syncer
    <3>1. {h \in Handles : watches[h].managed} \in SUBSET Handles
      OBVIOUS
    <3> QED  BY <1>0, <1>2, <3>1 DEF LoadDesiredWatches, WatchInv, Syncer
  <2> QED  BY <1>2, <2>1 DEF LoadDesiredWatches, WatchInv
<1>3. CASE PersistPlan
  <2>1. PICK action \in [Handles -> PlannedActions] :
          /\ watches' = [h \in Handles |->
                 [watches[h] EXCEPT !.remote = provider[h],
                                    !.status = SyncStatusFor(action[h], h \in syncer.managed)]]
          /\ syncer' = [syncer EXCEPT !.step = "apply", !.plan = [h \in Handles |->
                 IF action[h] \in {"adopt", "takeover"} /\ h \notin Claimed THEN "none" ELSE action[h]]]
    <3>1. [h \in Handles |-> WatchAction(syncer.wanted[h], provider[h], h \in syncer.managed)]
              \in [Handles -> PlannedActions]
      BY ActionTyped
    <3> QED  BY <1>3, <3>1 DEF PersistPlan
  <2>2. watches' \in [Handles -> WatchRow]
    <3>1. \A h \in Handles : SyncStatusFor(action[h], h \in syncer.managed) \in WatchStatuses
      <4>1. \A h \in Handles : (h \in syncer.managed) \in BOOLEAN /\ action[h] \in PlannedActions
        OBVIOUS
      <4> QED  BY Zenon, <4>1, StatusTyped
    <3> QED  BY <2>1, <3>1 DEF WatchInv, WatchRow
  <2>3. syncer' \in Syncer
    <3>1. [h \in Handles |-> IF action[h] \in {"adopt", "takeover"} /\ h \notin Claimed THEN "none" ELSE action[h]]
            \in [Handles -> PlannedActions]
      BY DEF PlannedActions
    <3> QED  BY <2>1, <3>1 DEF WatchInv, Syncer
  <2> QED  BY <1>3, <2>2, <2>3 DEF PersistPlan, WatchInv
<1>4. CASE AllApplied
  <2>1. UNCHANGED <<watches, outbox, provider, faults>> /\ SyncGoto("complete")
    BY <1>4 DEF AllApplied
  <2>2. syncer' \in Syncer
    BY <2>1 DEF SyncGoto, WatchInv, Syncer
  <2> QED  BY <2>1, <2>2 DEF WatchInv
<1>5. ASSUME NEW h \in Handles, RecordOnly(h) PROVE WatchInv'
  <2>1. EntryDone(h) /\ UNCHANGED <<outbox, provider, faults>>
    BY <1>5 DEF RecordOnly
  <2>2. watches[h].remote \in SUBSET Events
    BY DEF WatchInv, WatchRow
  <2>3. watches' \in [Handles -> WatchRow]
    BY <1>00, <1>5, <2>2, EntryTyped DEF RecordOnly
  <2> QED  BY <2>1, <2>3, EntryTyped DEF WatchInv
<1>6. ASSUME NEW h \in Handles, CallProvider(h) PROVE WatchInv'
  <2>1. syncer.wanted[h] \in SUBSET Events
    BY DEF WatchInv, Syncer
  <2>2. provider' \in [Handles -> SUBSET Events]
    BY <1>00, <1>6, <2>1 DEF CallProvider, WatchInv
  <2>3. syncer' \in Syncer
    BY <1>6 DEF CallProvider, WatchInv, Syncer
  <2> QED  BY <1>6, <2>2, <2>3 DEF CallProvider, WatchInv
<1>7. ASSUME NEW h \in Handles, RecordApplied(h) PROVE WatchInv'
  <2>1. EntryDone(h) /\ UNCHANGED <<outbox, provider, faults>>
    BY <1>7 DEF RecordApplied
  <2>2. syncer.wanted[h] \in SUBSET Events
    BY DEF WatchInv, Syncer
  <2>3. watches' \in [Handles -> WatchRow]
    BY <1>00, <1>7, <2>2, EntryTyped DEF RecordApplied
  <2> QED  BY <2>1, <2>3, EntryTyped DEF WatchInv
<1>8. ASSUME NEW h \in Handles, SettleOutbox(h) PROVE WatchInv'
  <2>1. outbox' \in [Handles -> OutboxRow]
    BY <1>8 DEF SettleOutbox, WatchInv, OutboxRow, OutboxStatuses
  <2>2. syncer' \in Syncer
    <3>1. [syncer EXCEPT !.claimed[h] = 0] \in Syncer
      BY DEF WatchInv, Syncer
    <3> QED  BY <1>8, <3>1, IdleTyped DEF SettleOutbox
  <2> QED  BY <1>8, <2>1, <2>2 DEF SettleOutbox, WatchInv
<1>9. CASE ListFails
  <2>1. /\ UNCHANGED <<watches, outbox, provider>> /\ SyncGoto("fail") /\ MayFail
        /\ faults' = [faults EXCEPT !.calls = @ + 1]
    BY <1>9 DEF ListFails
  <2>2. syncer' \in Syncer
    BY <2>1 DEF SyncGoto, WatchInv, Syncer
  <2> QED  BY <2>1, <2>2, FaultCounted DEF WatchInv
<1>10. CASE SyncerCrashes
  BY <1>10, IdleTyped, FaultCounted DEF SyncerCrashes, WatchInv
<1>11. ASSUME NEW h \in Handles, ProviderFails(h) PROVE WatchInv'
  <2>1. /\ UNCHANGED <<outbox, provider>> /\ SyncGoto("fail") /\ MayFail
        /\ faults' = [faults EXCEPT !.calls = @ + 1]
        /\ SetWatchResult(h, syncer.plan[h] # "takeover" /\ h \in syncer.managed, "error", watches[h].remote)
    BY <1>11 DEF ProviderFails
  <2>2. watches[h].remote \in SUBSET Events
    BY DEF WatchInv, WatchRow
  <2>3. watches' \in [Handles -> WatchRow]
    <3>1. PICK managed \in BOOLEAN : managed = (syncer.plan[h] # "takeover" /\ h \in syncer.managed)
      OBVIOUS
    <3> QED  BY <1>00, <2>1, <2>2, <3>1, EntryTyped
  <2>4. syncer' \in Syncer
    BY <2>1 DEF SyncGoto, WatchInv, Syncer
  <2> QED  BY <2>1, <2>3, <2>4, FaultCounted DEF WatchInv
<1> QED
  BY <1>1, <1>2, <1>3, <1>4, <1>5, <1>6, <1>7, <1>8, <1>9, <1>10, <1>11 DEF WatchStep, SyncerStep

LEMMA WatchesTyped == ASSUME WatchInv PROVE WatchTypeOK
<1>1. faults \in [calls : 0 .. MaxFaults, exits : 0 .. MaxFaults, probes : 0 .. MaxFaults]
  BY WatchAssumption DEF WatchInv
<1> QED  BY <1>1 DEF WatchInv, WatchTypeOK, WatchRow, OutboxRow, Syncer

LEMMA WatchKept ==
    ASSUME ActivationInv, ActivationInv', WatchInv, [ActivationNext]_releaseVars
    PROVE  WatchInv'
<1>1. ActivationRows /\ ActivationRows'
  BY DEF ActivationInv
<1>2. CASE UNCHANGED releaseVars
  BY <1>2 DEF WatchInv, releaseVars, watchVars
<1> QED  BY <1>1, <1>2, EditKeepsWatches, WorkKeepsWatches, SyncKeepsWatches DEF ActivationNext

(* The rows of the watches and of their outbox hold what their columns     *)
(* allow, and the worker what it may plan.                                 *)
THEOREM WatchTyped == ActivationSpec => []WatchTypeOK
<1>1. WatchInit /\ ActivationInit => ActivationInv /\ WatchInv
  BY ActivationInitSound, WatchInitSound
<1>2. ActivationInv /\ WatchInv /\ [ActivationNext]_<<watchVars, activationVars>> => (ActivationInv /\ WatchInv)'
  BY ActivationStep, WatchKept DEF releaseVars
<1> QED  BY <1>1, <1>2, WatchesTyped, PTL DEF ActivationSpec

-----------------------------------------------------------------------------
(***************************************************************************)
(* The services together.                                                  *)
(***************************************************************************)

LEMMA PartsBegin ==
    ASSUME SupportInit
    PROVE  /\ WatchInit /\ ActivationInit /\ IntakeInit /\ FollowInit /\ StreamInit /\ RateInit
           /\ ResearchInit /\ scene \in Scenes
BY DEF SupportInit

(* A step of the whole is a step of the part that has the scene, and of    *)
(* every other part it is none.                                            *)
LEMMA PartsStep ==
    ASSUME [SupportNext]_supportServicesVars
    PROVE  /\ [ActivationNext]_<<watchVars, activationVars>> /\ [IntakeNext]_intakeVars
           /\ [FollowNext]_followVars /\ [StreamNext]_streamVars /\ [RateNext]_rateVars
           /\ [ResearchNext]_researchVars /\ UNCHANGED scene
<1>1. CASE UNCHANGED supportServicesVars
  BY Zenon, <1>1 DEF supportServicesVars, releaseVars
<1>2. CASE SupportNext
  BY Zenon, <1>2 DEF SupportNext, releaseVars
<1> QED  BY <1>1, <1>2

(* Every behaviour of the services is one of each of them, so that what is *)
(* proved of a part holds in the whole: the parts share no state.          *)
THEOREM ServicesFollowParts ==
    SupportServicesSpec => /\ ActivationSpec /\ IntakeSpec /\ FollowSpec /\ StreamSpec /\ RateSpec
                           /\ ResearchSpec
<1>1. SupportInit => /\ WatchInit /\ ActivationInit /\ IntakeInit /\ FollowInit /\ StreamInit
                     /\ RateInit /\ ResearchInit
  BY PartsBegin
<1>2. [SupportNext]_supportServicesVars =>
           /\ [ActivationNext]_<<watchVars, activationVars>> /\ [IntakeNext]_intakeVars
           /\ [FollowNext]_followVars /\ [StreamNext]_streamVars /\ [RateNext]_rateVars
           /\ [ResearchNext]_researchVars
  BY PartsStep
<1> QED
  BY <1>1, <1>2, PTL
  DEF SupportServicesSpec, ActivationSpec, IntakeSpec, FollowSpec, StreamSpec, RateSpec, ResearchSpec

(* Every state of the services has the types of its parts.                 *)
THEOREM ServicesTyped == SupportServicesSpec => []SupportServicesTypeOK
<1>1. SupportServicesSpec => [](scene \in Scenes)
  <2>1. SupportInit => scene \in Scenes
    BY PartsBegin
  <2>2. scene \in Scenes /\ [SupportNext]_supportServicesVars => (scene \in Scenes)'
    BY PartsStep
  <2> QED  BY <2>1, <2>2, PTL DEF SupportServicesSpec
<1>2. scene \in Scenes /\ WatchTypeOK /\ ActivationTypeOK /\ IntakeTypeOK /\ RateTypeOK
        /\ ResearchTypeOK /\ FollowTypeOK /\ StreamTypeOK => SupportServicesTypeOK
  BY DEF SupportServicesTypeOK
<1> QED
  BY <1>1, <1>2, ServicesFollowParts, WatchTyped, ActivationTyped, IntakeTyped, BucketTyped,
     ResearchTyped, FollowTyped, StreamTyped, PTL

(* What each of the services promises holds where all of them are.         *)
THEOREM ServicesKeepPromises ==
    SupportServicesSpec =>
        /\ []ContextCurrent /\ []IntakeAccounted /\ []FollowsReported /\ []NeverIdle
        /\ []WaitersTimed /\ ServedInOrder /\ []StatusFollowsItems
BY ServicesFollowParts, ReleasedAsAsked, EventsAccounted, NoFollowMissed, SomethingToWaitFor,
   TimerForWaiters, GrantsInOrder, RestingJobsTold, PTL

================================================================================
