--------------------------- MODULE LiveServicesProofs ---------------------------
(***************************************************************************)
(* A dynamic signal that may still buy is what the policy of the moment    *)
(* allows, for any posts, tokens, settings, answers of the provider and    *)
(* failures of the workers.  The argument: the choice of a token is sound  *)
(* for the settings it was made with; what is committed was made with the  *)
(* settings of the moment; and other settings take back what is out.       *)
(*                                                                         *)
(* A day holds what its reservations and buys add up to, within a budget   *)
(* the policy had, for any amounts, budgets and settlements.  An order is  *)
(* settled from the chain, whoever looks at it when.                       *)
(*                                                                         *)
(* With LiveEngineProofs: the live services together keep their promises.  *)
(***************************************************************************)
EXTENDS LiveServices, LiveEngineProofs, TotalsProofs

-----------------------------------------------------------------------------
(* Dynamic signals.                                                        *)

Warnings == {"security", "negative", "sell"}

(* The author of the post names the token in a way the settings allow.     *)
AsMeant(post, settings, token) ==
    /\ token \in Tokens /\ token.chain \in settings.chains
    /\ \E t \in post.terms : t.own /\ t.type \in settings.types /\ Names(t, token)
    /\ post.language \cap Warnings = {}

Signal(s) == s = [status |-> s.status, revision |-> s.revision, token |-> s.token, mode |-> s.mode]

DynamicRows ==
    /\ policy.revision \in Nat
    /\ targets \in [Tokens -> [status : {"none", "active", "paused"}, revision : Nat]]
    /\ dsignals = [p \in Posts |-> dsignals[p]] /\ \A p \in Posts : Signal(dsignals[p])
    /\ resolver = [w \in Resolvers |-> resolver[w]]

(* What a worker has resolved is right by the settings it has loaded.      *)
ChoiceSound(w) ==
    resolver[w].at = "resolved" /\ resolver[w].result.status = "resolved" =>
        /\ resolver[w].post \in Posts
        /\ AsMeant(resolver[w].post, resolver[w].config, resolver[w].result.token)

(* What is out is right by the settings of the policy now.                 *)
SignalSound(p) ==
    dsignals[p].status \in InPlay =>
        /\ dsignals[p].revision = policy.revision /\ policy.config.enabled
        /\ targets[dsignals[p].token] = [status |-> "active", revision |-> policy.revision]
        /\ AsMeant(p, policy.config, dsignals[p].token)

TargetSound(k) == targets[k].status = "active" => targets[k].revision = policy.revision

(* A worker beyond the claim has the job of a post.                        *)
DynamicInv ==
    /\ DynamicRows
    /\ \A w \in Resolvers : resolver[w].at # "idle" => resolver[w].post \in Posts
    /\ \A w \in Resolvers : ChoiceSound(w)
    /\ \A p \in Posts : SignalSound(p)
    /\ \A k \in Tokens : TargetSound(k)

-----------------------------------------------------------------------------
(* What resolveDynamicSignal chooses is a token on a chain of the settings,*)
(* named by the author with a term they allow, in a post without a warning.*)
LEMMA ResolvedAsMeant ==
    ASSUME NEW post, NEW settings, NEW index, NEW answers,
           Resolve(post, settings, index, answers).status = "resolved"
    PROVE  AsMeant(post, settings, Resolve(post, settings, index, answers).token)
<1> DEFINE author == AuthorTerms(post, settings.aliases)
           terms == {t \in author : t.type \in settings.types}
           candidates == LookedUp(terms, index, settings.chains) \cup Transient(terms, settings.chains)
           survivors == {k \in candidates :
                           Survives(post, k, Verified(k, index, answers), settings.chains)}
           selected == Selected(post, terms, survivors, AskedAbout(index))
           token == Resolve(post, settings, index, answers).token
<1>1. MayResolve(post, author) /\ selected # {} /\ token = CHOOSE k \in selected : TRUE
  BY DEF Resolve
<1>2. selected \subseteq survivors
  BY DEF Selected, Dominant, Eligible
<1>3. token \in survivors
  BY <1>1, <1>2
<1>4. token \in Tokens /\ token.chain \in settings.chains
  BY <1>3 DEF LookedUp, Transient, Survives
<1>5. \E t \in terms : Names(t, token)
  BY <1>3 DEF LookedUp, Transient, Names
<1>6. \A t \in terms : t \in post.terms /\ t.own /\ t.type \in settings.types
  BY DEF AuthorTerms, Terms
<1>7. post.language \cap Warnings = {}
  BY <1>1 DEF MayResolve, Warnings
<1> QED  BY <1>4, <1>5, <1>6, <1>7 DEF AsMeant

LEMMA DynamicInitSound == DynamicInit => DynamicInv
BY DEF DynamicInit, DynamicInv, DynamicRows, Signal, ChoiceSound, SignalSound, TargetSound, InPlay, AtRestNow

-----------------------------------------------------------------------------
NewRevision ==
    /\ \E settings : policy' = [revision |-> policy.revision + 1, config |-> settings]
    /\ \E closes \in BOOLEAN : Supersede(policy.revision + 1, closes)
    /\ resolver' = resolver

(* A new revision takes back every signal in play and every open target.   *)
LEMMA PolicyKeeps ==
    ASSUME DynamicInv, PolicyStep
    PROVE  DynamicInv'
<1>0. NewRevision
  <2>1. CASE RemovePolicy
    BY <2>1 DEF RemovePolicy, NewRevision
  <2>2. ASSUME NEW c \in Configurations, UpsertPolicy(c) PROVE NewRevision
    BY <2>2 DEF UpsertPolicy, NewRevision
  <2> QED  BY <2>1, <2>2 DEF PolicyStep
<1>1. PICK closes \in BOOLEAN : Supersede(policy.revision + 1, closes) /\ resolver' = resolver
  BY <1>0 DEF NewRevision
<1>2. policy.revision \in Nat /\ policy'.revision \in Nat /\ policy'.revision = policy.revision + 1
  BY <1>0 DEF NewRevision, DynamicInv, DynamicRows
<1>3. ASSUME NEW p \in Posts PROVE Signal(dsignals'[p]) /\ dsignals'[p].status \notin InPlay
  <2>1. CASE dsignals[p].status \in InPlay
    <3>1. dsignals[p].revision # policy.revision + 1
      BY <1>2, <2>1 DEF DynamicInv, SignalSound
    <3>2. dsignals'[p] = [dsignals[p] EXCEPT !.status = "signal_only"]
      BY <1>1, <2>1, <3>1 DEF Supersede
    <3>3. dsignals'[p] = [status |-> "signal_only", revision |-> dsignals[p].revision,
                          token |-> dsignals[p].token, mode |-> dsignals[p].mode]
      BY <3>2 DEF DynamicInv, DynamicRows, Signal
    <3> QED  BY <3>3 DEF Signal, InPlay
  <2>2. CASE dsignals[p].status \notin InPlay
    BY <1>1, <2>2 DEF Supersede, DynamicInv, DynamicRows
  <2> QED  BY <2>1, <2>2
<1>4. ASSUME NEW k \in Tokens
      PROVE  targets'[k] \in [status : {"none", "active", "paused"}, revision : Nat] /\ targets'[k].status # "active"
  <2>1. targets[k] \in [status : {"none", "active", "paused"}, revision : Nat]
    BY DEF DynamicInv, DynamicRows
  <2>2. CASE targets[k].status = "active"
    <3>1. targets[k].revision # policy.revision + 1
      BY <1>2, <2>2 DEF DynamicInv, TargetSound
    <3>2. targets'[k] = [targets[k] EXCEPT !.status = "paused"]
      BY <1>1, <2>2, <3>1 DEF Supersede
    <3> QED  BY <2>1, <3>2
  <2>3. CASE targets[k].status # "active"
    BY <1>1, <2>1, <2>3 DEF Supersede
  <2> QED  BY <2>2, <2>3
<1>5. dsignals' = [p \in Posts |-> dsignals'[p]] /\ targets' = [k \in Tokens |-> targets'[k]]
  BY <1>1 DEF Supersede
<1>6. DynamicRows'
  BY <1>1, <1>2, <1>3, <1>4, <1>5 DEF DynamicRows, DynamicInv
<1> QED  BY <1>1, <1>3, <1>4, <1>6 DEF DynamicInv, ChoiceSound, SignalSound, TargetSound

-----------------------------------------------------------------------------
(* The workers.                                                            *)

LEMMA WorkerRests ==
    ASSUME DynamicInv, NEW w \in Resolvers, Rests(w), UNCHANGED <<policy, dsignals, targets>>
    PROVE  DynamicInv'
<1>1. resolver' = [v \in Resolvers |-> resolver'[v]] /\ resolver'[w] = AtRestNow
      /\ \A v \in Resolvers \ {w} : resolver'[v] = resolver[v]
  BY DEF Rests, DynamicInv, DynamicRows
<1>2. resolver'[w].at = "idle"
  BY <1>1 DEF AtRestNow
<1> QED  BY <1>1, <1>2 DEF DynamicInv, DynamicRows, ChoiceSound, SignalSound, TargetSound

(* The choice is made with the settings of the moment, and is sound.       *)
LEMMA WorkerResolves ==
    ASSUME DynamicInv, NEW w \in Resolvers, ResolveJob(w)
    PROVE  DynamicInv'
<1>1. PICK answers :
        resolver' = [resolver EXCEPT ![w] =
                       [at |-> "resolved", post |-> resolver[w].post, config |-> policy.config,
                        result |-> Resolve(resolver[w].post, policy.config, known, answers)]]
  BY DEF ResolveJob
<1>2. /\ resolver' = [v \in Resolvers |-> resolver'[v]]
      /\ resolver'[w] = [at |-> "resolved", post |-> resolver[w].post, config |-> policy.config,
                         result |-> Resolve(resolver[w].post, policy.config, known, answers)]
      /\ \A v \in Resolvers \ {w} : resolver'[v] = resolver[v]
  BY <1>1 DEF DynamicInv, DynamicRows
<1>3. resolver[w].post \in Posts
  BY DEF ResolveJob, DynamicInv
<1>4. ChoiceSound(w)'
  BY <1>2, <1>3, ResolvedAsMeant DEF ChoiceSound
<1>5. UNCHANGED <<policy, dsignals, targets>>
  BY DEF ResolveJob
<1> QED  BY <1>2, <1>3, <1>4, <1>5 DEF DynamicInv, DynamicRows, ChoiceSound, SignalSound, TargetSound

(* The transaction commits what was chosen with the settings of the moment.*)
LEMMA WorkerPersists ==
    ASSUME DynamicInv, NEW w \in Resolvers, PersistResolution(w)
    PROVE  DynamicInv'
<1> DEFINE p == resolver[w].post
           token == resolver[w].result.token
           made == [status |-> "recorded", revision |-> policy.revision, token |-> token, mode |-> jobs[p].mode]
<1>1. CASE UNCHANGED <<targets, dsignals>>
  BY <1>1, WorkerRests DEF PersistResolution
<1>2. CASE /\ resolver[w].result.status = "resolved" /\ jobs[p].mode \in {"paper", "live"}
           /\ MaterializeTarget(p, resolver[w].result)
  <2>1. policy.config.enabled /\ policy.config = resolver[w].config
    BY <1>2 DEF PersistResolution, MayPersist
  <2>2. p \in Posts /\ AsMeant(p, policy.config, token)
    BY <1>2, <2>1 DEF PersistResolution, DynamicInv, ChoiceSound
  <2>3. token \in Tokens
    BY <2>2 DEF AsMeant
  <2>4. policy.revision \in Nat /\ policy' = policy
    BY DEF DynamicInv, DynamicRows, PersistResolution
  <2>5. /\ targets' = [targets EXCEPT ![token] = [status |-> "active", revision |-> policy.revision]]
        /\ dsignals' = IF dsignals[p].status = "none" THEN [dsignals EXCEPT ![p] = made] ELSE dsignals
    BY <1>2 DEF MaterializeTarget
  <2>6. /\ targets' \in [Tokens -> [status : {"none", "active", "paused"}, revision : Nat]]
        /\ targets'[token] = [status |-> "active", revision |-> policy.revision]
        /\ \A k \in Tokens \ {token} : targets'[k] = targets[k]
    BY <2>3, <2>4, <2>5 DEF DynamicInv, DynamicRows
  <2>7. /\ dsignals' = [q \in Posts |-> dsignals'[q]]
        /\ \A q \in Posts : dsignals'[q] = dsignals[q] \/ (q = p /\ dsignals'[q] = made)
    <3>1. dsignals = [q \in Posts |-> dsignals[q]]
      BY DEF DynamicInv, DynamicRows
    <3>2. CASE dsignals' = dsignals
      BY <3>1, <3>2
    <3>3. CASE dsignals' = [dsignals EXCEPT ![p] = made]
      <4> HIDE DEF p, made
      <4> QED  BY <2>2, <3>1, <3>3
    <3> QED  BY <2>5, <3>2, <3>3
  <2>8. \A q \in Posts : Signal(dsignals'[q])
    BY <2>7 DEF Signal, DynamicInv, DynamicRows
  <2>9. ASSUME NEW q \in Posts PROVE SignalSound(q)'
    <3>1. CASE dsignals'[q] = dsignals[q]
      <4> SUFFICES ASSUME dsignals[q].status \in InPlay PROVE SignalSound(q)'
        BY <3>1 DEF SignalSound
      <4>1. dsignals[q].token \in Tokens /\ SignalSound(q)
        BY DEF DynamicInv, SignalSound, AsMeant
      <4> QED  BY <2>4, <2>6, <3>1, <4>1 DEF SignalSound
    <3>2. CASE q = p /\ dsignals'[q] = made
      BY <2>1, <2>2, <2>4, <2>6, <3>2 DEF SignalSound
    <3> QED  BY <2>7, <3>1, <3>2
  <2>10. \A k \in Tokens : TargetSound(k)'
    BY <2>3, <2>4, <2>6 DEF TargetSound, DynamicInv
  <2>11. /\ resolver' = [v \in Resolvers |-> resolver'[v]] /\ resolver'[w] = AtRestNow
         /\ \A v \in Resolvers \ {w} : resolver'[v] = resolver[v]
    BY DEF PersistResolution, Rests, DynamicInv, DynamicRows
  <2>12. DynamicRows'
    BY <2>4, <2>6, <2>7, <2>8, <2>11 DEF DynamicRows
  <2>13. \A v \in Resolvers : ChoiceSound(v)' /\ (resolver'[v].at # "idle" => resolver'[v].post \in Posts)
    BY <2>11 DEF AtRestNow, ChoiceSound, DynamicInv
  <2> QED  BY <2>9, <2>10, <2>12, <2>13 DEF DynamicInv
<1> QED  BY <1>1, <1>2 DEF PersistResolution

LEMMA ResolutionKeeps ==
    ASSUME DynamicInv, ResolutionStep
    PROVE  DynamicInv'
<1>1. CASE UNCHANGED <<policy, resolver, dsignals, targets>>
  BY <1>1 DEF DynamicInv, DynamicRows, Signal, ChoiceSound, SignalSound, TargetSound
<1>2. ASSUME NEW w \in Resolvers, NEW p \in Posts, TakesJob(w, p) PROVE DynamicInv'
  <2>1. /\ resolver' = [v \in Resolvers |-> resolver'[v]]
        /\ resolver'[w].at = "claimed" /\ resolver'[w].post = p
        /\ \A v \in Resolvers \ {w} : resolver'[v] = resolver[v]
    BY <1>2 DEF TakesJob, AtRestNow, DynamicInv, DynamicRows
  <2>2. UNCHANGED <<policy, dsignals, targets>>
    BY <1>2 DEF TakesJob
  <2> QED  BY <2>1, <2>2 DEF DynamicInv, DynamicRows, ChoiceSound, SignalSound, TargetSound
<1>3. ASSUME NEW w \in Resolvers, ResolverStep(w) \/ ResolverDies(w) PROVE DynamicInv'
  <2>1. CASE CancelJob(w) \/ ResolverFails(w) \/ ResolverDies(w)
    BY <2>1, WorkerRests DEF CancelJob, ResolverFails, ResolverDies
  <2> QED  BY <1>2, <1>3, <2>1, WorkerResolves, WorkerPersists DEF ResolverStep, ClaimNext
<1>4. CASE ListerStep \/ ListerDies
  BY <1>1, <1>4 DEF ListerStep, ListerDies, SearchWindow, RequeueJob, WindowFails, ClaimWindow
<1>5. ASSUME NEW p \in Posts, EnqueueForActivity(p) \/ LeaseLapses(p) \/ WindowExpires(p) PROVE DynamicInv'
  BY <1>1, <1>5 DEF EnqueueForActivity, LeaseLapses, WindowExpires
<1>6. ASSUME NEW k \in Tokens, IndexExpires(k) PROVE DynamicInv'
  BY <1>1, <1>6 DEF IndexExpires
<1> QED  BY <1>3, <1>4, <1>5, <1>6 DEF ResolutionStep

-----------------------------------------------------------------------------
OnlyAStatus ==
    /\ policy' = policy /\ resolver' = resolver /\ targets' = targets
    /\ \/ dsignals' = dsignals
       \/ \E p \in Posts : \E status :
            /\ dsignals' = [dsignals EXCEPT ![p].status = status]
            /\ status \in InPlay => dsignals[p].status \in InPlay

(* Spending changes the status of a signal only, and never back into play. *)
LEMMA SpendingKeeps ==
    ASSUME DynamicInv, SpendingStep
    PROVE  DynamicInv'
<1>1. OnlyAStatus
  <2>1. ASSUME NEW p \in Posts, ReserveUsage(p) \/ RefuseSignal(p) PROVE OnlyAStatus
    BY <2>1 DEF ReserveUsage, RefuseSignal, jobVars, InPlay, OnlyAStatus
  <2>2. ASSUME NEW p \in Posts, NEW status \in {"committed", "released"}, SettleUsage(p, status) PROVE OnlyAStatus
    <3>1. CASE dsignals[p].status \in InPlay
      BY <2>2, <3>1 DEF SettleUsage, jobVars, OnlyAStatus
    <3>2. CASE dsignals[p].status \notin InPlay
      <4> DEFINE ends == IF status = "committed" THEN "executed"
                         ELSE IF dsignals[p].status = "approved" THEN "failed" ELSE dsignals[p].status
      <4>1. policy' = policy /\ resolver' = resolver /\ targets' = targets
        BY <2>2 DEF SettleUsage, jobVars
      <4>2. dsignals' = [dsignals EXCEPT ![p].status = ends]
        BY <2>2 DEF SettleUsage
      <4>3. ends \notin InPlay
        BY <3>2 DEF InPlay
      <4> HIDE DEF ends
      <4> QED  BY <4>1, <4>2, <4>3 DEF OnlyAStatus
    <3> QED  BY <3>1, <3>2
  <2>3. CASE NextDay \/ \E k \in Tokens : HoldingSold(k)
    BY <2>3 DEF HoldingSold, NextDay, jobVars, OnlyAStatus
  <2> QED  BY <2>1, <2>2, <2>3 DEF SpendingStep
<1>2. CASE dsignals' = dsignals
  BY <1>1, <1>2 DEF OnlyAStatus, DynamicInv, DynamicRows, Signal, ChoiceSound, SignalSound, TargetSound
<1>3. ASSUME NEW p \in Posts, NEW status,
             dsignals' = [dsignals EXCEPT ![p].status = status],
             status \in InPlay => dsignals[p].status \in InPlay
      PROVE  DynamicInv'
  <2>1. /\ dsignals' = [q \in Posts |-> dsignals'[q]]
        /\ dsignals'[p] = [dsignals[p] EXCEPT !.status = status]
        /\ \A q \in Posts \ {p} : dsignals'[q] = dsignals[q]
    BY <1>3 DEF DynamicInv, DynamicRows
  <2>2. dsignals'[p] = [status |-> status, revision |-> dsignals[p].revision,
                        token |-> dsignals[p].token, mode |-> dsignals[p].mode]
    BY <2>1 DEF DynamicInv, DynamicRows, Signal
  <2>3. \A q \in Posts : Signal(dsignals'[q])
    BY <2>1, <2>2 DEF Signal, DynamicInv, DynamicRows
  <2>4. \A q \in Posts : SignalSound(q)'
    BY <1>1, <1>3, <2>1, <2>2 DEF OnlyAStatus, SignalSound, DynamicInv
  <2>5. DynamicRows'
    BY <1>1, <2>1, <2>3 DEF OnlyAStatus, DynamicRows, DynamicInv
  <2> QED  BY <1>1, <2>4, <2>5 DEF OnlyAStatus, DynamicInv, ChoiceSound, TargetSound
<1> QED  BY <1>1, <1>2, <1>3 DEF OnlyAStatus

-----------------------------------------------------------------------------
LEMMA DynamicInvariance == DynamicSpec => []DynamicInv
<1>1. DynamicInit => DynamicInv
  BY DynamicInitSound
<1>2. DynamicInv /\ [DynamicNext]_dynamicVars => DynamicInv'
  <2> SUFFICES ASSUME DynamicInv, [DynamicNext]_dynamicVars PROVE DynamicInv'
    OBVIOUS
  <2>1. CASE UNCHANGED dynamicVars
    BY <2>1 DEF dynamicVars, DynamicInv, DynamicRows, Signal, ChoiceSound, SignalSound, TargetSound
  <2> QED  BY <2>1, PolicyKeeps, ResolutionKeeps, SpendingKeeps DEF DynamicNext
<1> QED  BY <1>1, <1>2, PTL DEF DynamicSpec

LEMMA JustifiedNow == DynamicInv => TargetsJustified
<1> SUFFICES ASSUME DynamicInv PROVE TargetsJustified
  OBVIOUS
<1>1. \A p \in Posts : SignalSound(p)
  BY DEF DynamicInv
<1>2. \A k \in Tokens : TargetSound(k)
  BY DEF DynamicInv
<1> QED  BY <1>1, <1>2 DEF TargetsJustified, SignalSound, TargetSound, AsMeant, Warnings

(* A signal that may still buy, and a token that is open for buys, are of  *)
(* the policy as it is now (materialize, upsert, remove): however old the  *)
(* settings are that a worker has read, and whatever leases have lapsed.   *)
THEOREM SignalsJustified == DynamicSpec => []TargetsJustified
BY JustifiedNow, DynamicInvariance, PTL

-----------------------------------------------------------------------------
(* The day of a policy.                                                    *)

Use == [status : {"none", "reserved", "committed", "released"}, day : 0..MaxDay, amount : Nat, counts : BOOLEAN]
Day == [reserved : Nat, spent : Nat, tokens : Nat]

(* The money settings are those of a configuration.                        *)
Offered(settings) ==
    /\ \E g \in Configurations : settings.perTrade = g.perTrade /\ settings.daily = g.daily
    /\ \E g \in Configurations : DOMAIN settings = DOMAIN g

UsageRows ==
    /\ usage \in [Posts -> Use] /\ daily \in [1..MaxDay -> [Chains -> Day]]
    /\ today \in 1..MaxDay /\ Offered(policy.config)

InUse == {"reserved", "committed"}

(* A signal that has a use went out for a token, and will not go out again.*)
SignalUsed(p) ==
    usage[p].status # "none" =>
        /\ dsignals[p].status \notin {"none", "recorded"}
        /\ usage[p].day \in 1..MaxDay /\ dsignals[p].token \in Tokens

(* The uses that a day counts a new token for; no token is counted twice.  *)
Counting(d, c) == {p \in UsedOn(d, c, InUse) : usage[p].counts}
CountedOnce ==
    \A p, q \in Posts :
        /\ {usage[p].status, usage[q].status} \subseteq InUse /\ usage[p].counts /\ usage[q].counts
        /\ usage[p].day = usage[q].day /\ dsignals[p].token = dsignals[q].token
        => p = q

DayKept(d, c) ==
    /\ daily[d][c].reserved = Total(Amounts, UsedOn(d, c, {"reserved"}))
    /\ daily[d][c].spent = Total(Amounts, UsedOn(d, c, {"committed"}))
    /\ daily[d][c].tokens = Cardinality(Counting(d, c))
    /\ \E g \in Configurations : daily[d][c].spent + daily[d][c].reserved <= g.daily

UsageInv ==
    /\ UsageRows /\ CountedOnce
    /\ \A p \in Posts : SignalUsed(p)
    /\ \A d \in 1..MaxDay, c \in Chains : DayKept(d, c)

LEMMA NothingUsed ==
    ASSUME NothingSpent, \E c \in Configurations : policy = [revision |-> 1, config |-> c]
    PROVE  UsageInv
<1>1. PICK g \in Configurations : policy = [revision |-> 1, config |-> g]
  OBVIOUS
<1>2. /\ usage = [p \in Posts |-> [status |-> "none", day |-> 0, amount |-> 0, counts |-> FALSE]]
      /\ daily = [d \in 1..MaxDay |-> [c \in Chains |-> [reserved |-> 0, spent |-> 0, tokens |-> 0]]]
      /\ today = 1
  BY DEF NothingSpent
<1>3. g.daily \in Nat
  BY DynamicAssumption
<1>4. UsageRows
  BY <1>1, <1>2, DynamicAssumption DEF UsageRows, Use, Day, Offered
<1>5. \A d, c, statuses : statuses \subseteq InUse => UsedOn(d, c, statuses) = {}
  BY <1>2 DEF UsedOn, InUse
<1>6. \A d, c : Counting(d, c) = {} /\ UsedOn(d, c, {"reserved"}) = {} /\ UsedOn(d, c, {"committed"}) = {}
  BY <1>5 DEF Counting, InUse
<1>7. ASSUME NEW d \in 1..MaxDay, NEW c \in Chains PROVE DayKept(d, c)
  <2>1. daily[d][c] = [reserved |-> 0, spent |-> 0, tokens |-> 0]
    BY <1>2
  <2>2. daily[d][c].spent + daily[d][c].reserved <= g.daily
    BY <1>3, <2>1
  <2> QED  BY <1>6, <2>1, <2>2, TotalOfNone, FS_EmptySet DEF DayKept
<1> QED  BY <1>2, <1>4, <1>7 DEF UsageInv, CountedOnce, SignalUsed, InUse

LEMMA UsageInitSound == DynamicInit => UsageInv
<1>1. DynamicInit => NothingSpent /\ \E c \in Configurations : policy = [revision |-> 1, config |-> c]
  BY DEF DynamicInit
<1> QED  BY <1>1, NothingUsed

-----------------------------------------------------------------------------
(* Whatever happens to the signals that have no use yet, the days stay.    *)
LEMMA UsageUntouched ==
    ASSUME UsageInv, UNCHANGED <<usage, daily>>, today' \in 1..MaxDay, Offered(policy'.config),
           \A p \in Posts : dsignals[p].status \notin {"none", "recorded"} =>
               /\ dsignals'[p].status \notin {"none", "recorded"}
               /\ dsignals'[p].token = dsignals[p].token
    PROVE  UsageInv'
<1>1. \A p \in Posts : usage[p].status # "none" => dsignals'[p].token = dsignals[p].token
  BY DEF UsageInv, SignalUsed
<1>2. \A d, c, statuses : statuses \subseteq InUse => UsedOn(d, c, statuses)' = UsedOn(d, c, statuses)
  BY <1>1 DEF UsedOn, InUse
<1>3. \A d, c : /\ Counting(d, c)' = Counting(d, c)
                /\ UsedOn(d, c, {"reserved"})' = UsedOn(d, c, {"reserved"})
                /\ UsedOn(d, c, {"committed"})' = UsedOn(d, c, {"committed"})
  BY <1>2 DEF Counting, InUse
<1>4. Amounts' = Amounts
  BY DEF Amounts
<1>5. \A d \in 1..MaxDay, c \in Chains : DayKept(d, c)'
  BY <1>3, <1>4 DEF UsageInv, DayKept
<1>6. CountedOnce'
  BY <1>1 DEF UsageInv, CountedOnce, InUse
<1> QED  BY <1>5, <1>6 DEF UsageInv, UsageRows, SignalUsed

LEMMA PolicyKeepsUsage ==
    ASSUME UsageInv, DynamicInv, PolicyStep
    PROVE  UsageInv'
<1>1. usage' = usage /\ daily' = daily /\ today' = today
  <2>1. CASE RemovePolicy
    BY <2>1 DEF RemovePolicy, tradeVars
  <2>2. ASSUME NEW c \in Configurations, UpsertPolicy(c) PROVE usage' = usage /\ daily' = daily /\ today' = today
    BY <2>2 DEF UpsertPolicy, tradeVars
  <2> QED  BY <2>1, <2>2 DEF PolicyStep
<1>2. PICK revision, closes : Supersede(revision, closes)
  BY DEF PolicyStep, RemovePolicy, UpsertPolicy
<1>3. ASSUME NEW p \in Posts, dsignals[p].status \notin {"none", "recorded"}
      PROVE  dsignals'[p].status \notin {"none", "recorded"} /\ dsignals'[p].token = dsignals[p].token
  <2>1. dsignals'[p] = dsignals[p] \/ dsignals'[p] = [dsignals[p] EXCEPT !.status = "signal_only"]
    BY <1>2 DEF Supersede
  <2>2. CASE dsignals'[p] = [dsignals[p] EXCEPT !.status = "signal_only"]
    <3>1. dsignals'[p] = [status |-> "signal_only", revision |-> dsignals[p].revision,
                          token |-> dsignals[p].token, mode |-> dsignals[p].mode]
      BY <2>2 DEF DynamicInv, DynamicRows, Signal
    <3> QED  BY <3>1
  <2> QED  BY <1>3, <2>1, <2>2
<1>4. Offered(policy'.config)
  <2>1. CASE RemovePolicy
    <3>1. PICK old : old = policy.config
      OBVIOUS
    <3>2. policy'.config = [old EXCEPT !.mode = "paused", !.enabled = FALSE]
      BY <2>1, <3>1 DEF RemovePolicy
    <3>3. Offered(old) /\ {"perTrade", "daily"} \subseteq DOMAIN old
      BY <3>1, DynamicAssumption DEF UsageInv, UsageRows, Offered
    <3>4. /\ DOMAIN policy'.config = DOMAIN old
          /\ policy'.config.perTrade = old.perTrade /\ policy'.config.daily = old.daily
      BY <3>2, <3>3
    <3> QED  BY <3>3, <3>4 DEF Offered
  <2>2. ASSUME NEW c \in Configurations, UpsertPolicy(c) PROVE Offered(policy'.config)
    BY <2>2 DEF UpsertPolicy, Offered
  <2> QED  BY <2>1, <2>2 DEF PolicyStep
<1>5. today' \in 1..MaxDay
  BY <1>1 DEF UsageInv, UsageRows
<1> QED  BY <1>1, <1>3, <1>4, <1>5, UsageUntouched

(* A resolution writes the signal of a post once.                          *)
SignalsKept ==
    /\ policy' = policy /\ usage' = usage /\ daily' = daily /\ today' = today
    /\ \A p \in Posts : dsignals[p].status # "none" => dsignals'[p] = dsignals[p]

LEMMA ResolutionKeepsUsage ==
    ASSUME UsageInv, DynamicInv, ResolutionStep
    PROVE  UsageInv'
<1>1. ASSUME NEW w \in Resolvers, ResolverStep(w) \/ ResolverDies(w) PROVE SignalsKept
  <2>1. CASE PersistResolution(w)
    <3>1. dsignals' = dsignals \/ MaterializeTarget(resolver[w].post, resolver[w].result)
      BY <2>1 DEF PersistResolution
    <3>2. \A p \in Posts : dsignals[p].status # "none" => dsignals'[p] = dsignals[p]
      BY <3>1 DEF MaterializeTarget, DynamicInv, DynamicRows
    <3> QED  BY <2>1, <3>2 DEF PersistResolution, SignalsKept, tradeVars
  <2>2. ASSUME NEW p \in Posts, ClaimNext(w, p) PROVE SignalsKept
    BY <2>2 DEF ClaimNext, TakesJob, SignalsKept, tradeVars
  <2>3. CASE CancelJob(w) \/ ResolveJob(w) \/ ResolverFails(w) \/ ResolverDies(w)
    BY <2>3 DEF CancelJob, ResolveJob, ResolverFails, ResolverDies, SignalsKept, tradeVars
  <2> QED  BY <1>1, <2>1, <2>2, <2>3 DEF ResolverStep
<1>2. ASSUME ListerStep \/ ListerDies PROVE SignalsKept
  <2>1. CASE SearchWindow \/ RequeueJob \/ WindowFails \/ ListerDies
    BY <2>1 DEF SearchWindow, RequeueJob, WindowFails, ListerDies, SignalsKept, tradeVars
  <2>2. ASSUME NEW p \in Posts, ClaimWindow(p) PROVE SignalsKept
    BY <2>2 DEF ClaimWindow, SignalsKept, tradeVars
  <2> QED  BY <1>2, <2>1, <2>2 DEF ListerStep
<1>3. ASSUME NEW p \in Posts, EnqueueForActivity(p) \/ LeaseLapses(p) \/ WindowExpires(p) PROVE SignalsKept
  BY <1>3 DEF EnqueueForActivity, LeaseLapses, WindowExpires, SignalsKept, tradeVars
<1>4. ASSUME NEW k \in Tokens, IndexExpires(k) PROVE SignalsKept
  BY <1>4 DEF IndexExpires, SignalsKept, tradeVars
<1>5. SignalsKept
  BY <1>1, <1>2, <1>3, <1>4 DEF ResolutionStep
<1>6. today' \in 1..MaxDay /\ Offered(policy'.config)
  BY <1>5 DEF SignalsKept, UsageInv, UsageRows
<1> QED  BY <1>5, <1>6, UsageUntouched DEF SignalsKept

-----------------------------------------------------------------------------
(* A day that neither the row nor the uses change.                         *)
LEMMA DayUntouched ==
    ASSUME UsageInv, NEW d \in 1..MaxDay, NEW c \in Chains, daily'[d][c] = daily[d][c],
           UsedOn(d, c, {"reserved"})' = UsedOn(d, c, {"reserved"}),
           UsedOn(d, c, {"committed"})' = UsedOn(d, c, {"committed"}),
           Counting(d, c)' = Counting(d, c),
           \A p \in UsedOn(d, c, InUse) : usage'[p].amount = usage[p].amount
    PROVE  DayKept(d, c)'
<1>1. /\ UsedOn(d, c, {"reserved"}) \subseteq Posts /\ UsedOn(d, c, {"committed"}) \subseteq Posts
      /\ UsedOn(d, c, {"reserved"}) \subseteq UsedOn(d, c, InUse)
      /\ UsedOn(d, c, {"committed"}) \subseteq UsedOn(d, c, InUse)
  BY DEF UsedOn, InUse
<1>2. ASSUME NEW S, S \subseteq UsedOn(d, c, InUse), S \subseteq Posts PROVE Total(Amounts', S) = Total(Amounts, S)
  <2>1. IsFiniteSet(S)
    BY <1>2, DynamicAssumption, FS_Subset
  <2>2. \A x \in S : Amounts[x] \in Nat /\ Amounts'[x] = Amounts[x]
    BY <1>2 DEF Amounts, UsageInv, UsageRows, Use
  <2> QED  BY <2>1, <2>2, TotalOfSame
<1>3. DayKept(d, c)
  BY DEF UsageInv
<1> QED  BY <1>1, <1>2, <1>3 DEF DayKept

LEMMA ReserveKeepsUsage ==
    ASSUME UsageInv, DynamicInv, NEW p \in Posts, ReserveUsage(p)
    PROVE  UsageInv'
<1>0. PICK token, amount, n, book :
        /\ token = dsignals[p].token /\ amount = policy.config.perTrade
        /\ n = today /\ book = daily[n][token.chain]
  OBVIOUS
<1>1. dsignals[p].status = "recorded" /\ usage[p].status = "none" /\ Authorized(p)
  BY DEF ReserveUsage, UsageInv, SignalUsed
<1>2. token \in Tokens /\ token.chain \in Chains
  BY <1>0, <1>1 DEF DynamicInv, SignalSound, InPlay, AsMeant, Chains
<1>3. amount \in Nat /\ \E g \in Configurations : book.spent + book.reserved + amount <= g.daily
  BY <1>0, <1>1, DynamicAssumption DEF Authorized, UsageInv, UsageRows, Offered
<1>4. PICK counts \in BOOLEAN :
        /\ counts <=> Used(n, token) = {}
        /\ usage' = [usage EXCEPT ![p] = [status |-> "reserved", day |-> n, amount |-> amount, counts |-> counts]]
        /\ daily' = [daily EXCEPT ![n][token.chain] =
                        [reserved |-> @.reserved + amount, spent |-> @.spent,
                         tokens |-> IF counts THEN @.tokens + 1 ELSE @.tokens]]
  BY <1>0 DEF ReserveUsage
<1>5. n \in 1..MaxDay /\ n \in 0..MaxDay /\ book \in Day /\ today' = n /\ policy' = policy
  BY <1>0, <1>2, DynamicAssumption DEF UsageInv, UsageRows, ReserveUsage, jobVars
<1>6. /\ daily' \in [1..MaxDay -> [Chains -> Day]]
      /\ daily'[n][token.chain] = [reserved |-> book.reserved + amount, spent |-> book.spent,
                                       tokens |-> IF counts THEN book.tokens + 1 ELSE book.tokens]
      /\ \A d \in 1..MaxDay, c \in Chains :
            d # n \/ c # token.chain => daily'[d][c] = daily[d][c]
  <2>1. PICK c : c = token.chain /\ c \in Chains
    BY <1>2
  <2>2. daily \in [1..MaxDay -> [Chains -> Day]] /\ daily[n][c] = book
    BY <1>0, <2>1 DEF UsageInv, UsageRows
  <2>3. PICK new : new = [reserved |-> book.reserved + amount, spent |-> book.spent,
                          tokens |-> IF counts THEN book.tokens + 1 ELSE book.tokens]
    OBVIOUS
  <2>5. new \in Day
    <3>1. book.reserved + amount \in Nat /\ book.spent \in Nat
      BY <1>3, <1>5 DEF Day
    <3>2. (IF counts THEN book.tokens + 1 ELSE book.tokens) \in Nat
      BY <1>5 DEF Day
    <3> QED  BY <2>3, <3>1, <3>2 DEF Day
  <2>4. daily' = [daily EXCEPT ![n] = [daily[n] EXCEPT ![c] = new]]
    BY <1>4, <2>1, <2>2, <2>3
  <2> QED  BY <1>5, <2>1, <2>2, <2>3, <2>4, <2>5
<1>7. /\ usage' \in [Posts -> Use]
      /\ usage'[p] = [status |-> "reserved", day |-> n, amount |-> amount, counts |-> counts]
      /\ \A q \in Posts \ {p} : usage'[q] = usage[q]
  BY <1>3, <1>4, <1>5 DEF UsageInv, UsageRows, Use
<1>8. /\ dsignals'[p].status = "approved"
      /\ \A q \in Posts : dsignals'[q].token = dsignals[q].token
      /\ \A q \in Posts \ {p} : dsignals'[q] = dsignals[q]
  <2>1. dsignals = [q \in Posts |-> dsignals[q]] /\ dsignals' = [dsignals EXCEPT ![p].status = "approved"]
    BY DEF DynamicInv, DynamicRows, ReserveUsage
  <2>2. dsignals'[p] = [dsignals[p] EXCEPT !.status = "approved"]
        /\ \A q \in Posts \ {p} : dsignals'[q] = dsignals[q]
    BY <2>1
  <2>3. dsignals'[p] = [status |-> "approved", revision |-> dsignals[p].revision,
                        token |-> dsignals[p].token, mode |-> dsignals[p].mode]
    BY <2>2 DEF DynamicInv, DynamicRows, Signal
  <2> QED  BY <2>2, <2>3
<1>9. ASSUME NEW d \in 1..MaxDay, NEW c \in Chains, d # n \/ c # token.chain
      PROVE  DayKept(d, c)'
  <2>1. ASSUME NEW statuses \in {{"reserved"}, {"committed"}, InUse}
        PROVE  UsedOn(d, c, statuses)' = UsedOn(d, c, statuses) /\ p \notin UsedOn(d, c, statuses)
    BY <1>0, <1>1, <1>7, <1>8, <1>9 DEF UsedOn, InUse
  <2>2. Counting(d, c)' = Counting(d, c)
    BY <1>7, <2>1 DEF Counting, UsedOn
  <2>3. \A q \in UsedOn(d, c, InUse) : usage'[q].amount = usage[q].amount
    BY <1>7, <2>1 DEF UsedOn
  <2>4. /\ UsedOn(d, c, {"reserved"})' = UsedOn(d, c, {"reserved"})
        /\ UsedOn(d, c, {"committed"})' = UsedOn(d, c, {"committed"})
        /\ daily'[d][c] = daily[d][c]
    BY <1>6, <1>9, <2>1
  <2> QED  BY <2>2, <2>3, <2>4, DayUntouched
<1>10. DayKept(n, token.chain)'
  <2>1. PICK c : c = token.chain /\ c \in Chains
    BY <1>2
  <2>2. PICK open, spent, counted :
          /\ open = UsedOn(n, c, {"reserved"}) /\ spent = UsedOn(n, c, {"committed"})
          /\ counted = Counting(n, c)
    OBVIOUS
  <2>3. /\ p \notin open /\ p \notin spent /\ p \notin counted
        /\ open \subseteq Posts /\ spent \subseteq Posts /\ counted \subseteq Posts
    BY <1>1, <2>2 DEF UsedOn, Counting, InUse
  <2>4. /\ UsedOn(n, c, {"reserved"})' = open \cup {p}
        /\ UsedOn(n, c, {"committed"})' = spent
    BY <1>0, <1>1, <1>7, <1>8, <2>1, <2>2 DEF UsedOn
  <2>5. Counting(n, c)' = IF counts THEN counted \cup {p} ELSE counted
    BY <1>0, <1>1, <1>7, <1>8, <2>1, <2>2 DEF UsedOn, Counting, InUse
  <2>6. IsFiniteSet(open) /\ IsFiniteSet(spent) /\ IsFiniteSet(counted) /\ IsFiniteSet(open \cup {p})
    BY <2>3, DynamicAssumption, FS_Subset
  <2>7. /\ \A q \in Posts : Amounts[q] \in Nat /\ Amounts'[q] \in Nat
        /\ \A q \in Posts \ {p} : Amounts'[q] = Amounts[q]
        /\ Amounts'[p] = amount
    BY <1>7 DEF Amounts, UsageInv, UsageRows, Use
  <2>8. Total(Amounts', open) = Total(Amounts, open) /\ Total(Amounts', spent) = Total(Amounts, spent)
    <3>1. ASSUME NEW S, S \in {open, spent} PROVE Total(Amounts', S) = Total(Amounts, S)
      <4>1. IsFiniteSet(S) /\ \A q \in S : Amounts[q] \in Nat /\ Amounts'[q] = Amounts[q]
        BY <2>3, <2>6, <2>7, <3>1
      <4> QED  BY <4>1, TotalOfSame
    <3> QED  BY <3>1
  <2>9. Total(Amounts', open \cup {p}) = amount + Total(Amounts', open)
    BY <2>3, <2>6, <2>7, TotalWith
  <2>10. /\ book.reserved = Total(Amounts, open) /\ book.spent = Total(Amounts, spent)
         /\ book.tokens = Cardinality(counted)
    BY <1>0, <1>5, <2>1, <2>2 DEF UsageInv, DayKept
  <2>11. Cardinality(Counting(n, c)') = IF counts THEN book.tokens + 1 ELSE book.tokens
    BY <2>3, <2>5, <2>6, <2>10, FS_AddElement
  <2>12. book.reserved \in Nat /\ book.spent \in Nat
    BY <1>5 DEF Day
  <2>13. PICK new : new = daily'[n][c] /\ new = [reserved |-> book.reserved + amount, spent |-> book.spent,
                                                    tokens |-> IF counts THEN book.tokens + 1 ELSE book.tokens]
    BY <1>6, <2>1
  <2>14. /\ new.reserved = Total(Amounts', open \cup {p}) /\ new.spent = Total(Amounts', spent)
         /\ new.tokens = Cardinality(Counting(n, c)')
    BY <1>3, <2>8, <2>9, <2>10, <2>11, <2>12, <2>13
  <2>15. \E g \in Configurations : new.spent + new.reserved <= g.daily
    <3>1. new.spent + new.reserved = book.spent + book.reserved + amount
      BY <1>3, <2>12, <2>13
    <3> QED  BY <1>3, <3>1
  <2> QED  BY <1>5, <2>1, <2>4, <2>13, <2>14, <2>15 DEF DayKept
<1>11. CountedOnce'
  <2>1. ASSUME NEW q \in Posts, q # p, counts, usage[q].status \in InUse, usage[q].day = n
        PROVE  dsignals[q].token # token
    BY <1>4, <2>1 DEF Used, InUse
  <2>2. ASSUME NEW a \in Posts, NEW b \in Posts,
               {usage'[a].status, usage'[b].status} \subseteq InUse, usage'[a].counts, usage'[b].counts,
               usage'[a].day = usage'[b].day, dsignals'[a].token = dsignals'[b].token
        PROVE  a = b
    <3>1. CASE a # p /\ b # p
      BY <1>7, <1>8, <2>2, <3>1 DEF UsageInv, CountedOnce
    <3>2. CASE a = p /\ b # p
      BY <1>0, <1>7, <1>8, <2>1, <2>2, <3>2
    <3>3. CASE a # p /\ b = p
      BY <1>0, <1>7, <1>8, <2>1, <2>2, <3>3
    <3> QED  BY <3>1, <3>2, <3>3
  <2> QED  BY <2>2 DEF CountedOnce
<1>12. \A q \in Posts : SignalUsed(q)'
  BY <1>0, <1>2, <1>5, <1>7, <1>8 DEF SignalUsed, UsageInv
<1>13. UsageRows'
  BY <1>5, <1>6, <1>7 DEF UsageInv, UsageRows
<1>14. \A d \in 1..MaxDay, c \in Chains : DayKept(d, c)'
  BY <1>9, <1>10
<1> QED  BY <1>11, <1>12, <1>13, <1>14 DEF UsageInv

(* A settlement moves the amount of its use within the day of the use.     *)
LEMMA SettleKeepsUsage ==
    ASSUME UsageInv, DynamicInv, NEW p \in Posts, NEW status \in {"committed", "released"},
           SettleUsage(p, status)
    PROVE  UsageInv'
<1>0. PICK u, n, c, book :
        /\ u = usage[p] /\ n = u.day /\ c = dsignals[p].token.chain /\ book = daily[n][c]
  OBVIOUS
<1>1. /\ u.status = "reserved" /\ u \in Use /\ u.amount \in Nat /\ u.counts \in BOOLEAN /\ n \in 1..MaxDay
      /\ dsignals[p].token \in Tokens /\ c \in Chains
      /\ dsignals[p].status \notin {"none", "recorded"}
  BY <1>0 DEF SettleUsage, UsageInv, UsageRows, Use, SignalUsed, Chains
<1>2. book \in Day /\ today' = today /\ policy' = policy
  BY <1>0, <1>1 DEF UsageInv, UsageRows, SettleUsage, jobVars
<1>3. PICK new : new = SettledDay(book, u, status)
  OBVIOUS
<1>4. new \in Day
  <2>1. book.reserved \in Nat /\ book.spent \in Nat /\ book.tokens \in Nat
    BY <1>2 DEF Day
  <2>2. (IF book.reserved > u.amount THEN book.reserved - u.amount ELSE 0) \in Nat
    BY <1>1, <2>1
  <2>3. (IF status = "committed" THEN book.spent + u.amount ELSE book.spent) \in Nat
    BY <1>1, <2>1
  <2>4. (IF status = "released" /\ u.counts /\ book.tokens > 0 THEN book.tokens - 1 ELSE book.tokens) \in Nat
    BY <2>1
  <2> QED  BY <1>3, <2>2, <2>3, <2>4 DEF SettledDay, Day
<1>5. /\ daily' \in [1..MaxDay -> [Chains -> Day]] /\ daily'[n][c] = new
      /\ \A d \in 1..MaxDay, e \in Chains : d # n \/ e # c => daily'[d][e] = daily[d][e]
  <2>1. daily \in [1..MaxDay -> [Chains -> Day]]
    BY DEF UsageInv, UsageRows
  <2>2. daily' = [daily EXCEPT ![n] = [daily[n] EXCEPT ![c] = new]]
    BY <1>0, <1>3 DEF SettleUsage, Settled
  <2> QED  BY <1>1, <1>4, <2>1, <2>2
<1>6. /\ usage' \in [Posts -> Use]
      /\ usage'[p] = [status |-> status, day |-> n, amount |-> u.amount, counts |-> u.counts]
      /\ \A q \in Posts \ {p} : usage'[q] = usage[q]
  <2>1. usage \in [Posts -> Use] /\ usage' = [usage EXCEPT ![p] = [u EXCEPT !.status = status]]
    BY <1>0 DEF UsageInv, UsageRows, SettleUsage
  <2>2. [u EXCEPT !.status = status] = [status |-> status, day |-> n, amount |-> u.amount, counts |-> u.counts]
    BY <1>0, <1>1 DEF Use
  <2>3. [u EXCEPT !.status = status] \in Use
    BY <1>1 DEF Use
  <2> QED  BY <2>1, <2>2, <2>3
<1>7. \A q \in Posts : /\ dsignals'[q].token = dsignals[q].token
                       /\ dsignals[q].status \notin {"none", "recorded"}
                            => dsignals'[q].status \notin {"none", "recorded"}
  <2>1. PICK ends : /\ dsignals' = [dsignals EXCEPT ![p].status = ends]
                    /\ ends = IF status = "committed" THEN "executed"
                              ELSE IF dsignals[p].status = "approved" THEN "failed" ELSE dsignals[p].status
    BY DEF SettleUsage
  <2>2. ends \notin {"none", "recorded"}
    BY <1>1, <2>1
  <2>3. dsignals = [q \in Posts |-> dsignals[q]] /\ Signal(dsignals[p])
    BY DEF DynamicInv, DynamicRows
  <2>4. /\ dsignals'[p] = [dsignals[p] EXCEPT !.status = ends]
        /\ \A q \in Posts \ {p} : dsignals'[q] = dsignals[q]
    BY <2>1, <2>3
  <2>5. dsignals'[p] = [status |-> ends, revision |-> dsignals[p].revision,
                        token |-> dsignals[p].token, mode |-> dsignals[p].mode]
    BY <2>3, <2>4 DEF Signal
  <2> QED  BY <2>2, <2>4, <2>5
<1>8. ASSUME NEW d \in 1..MaxDay, NEW e \in Chains, d # n \/ e # c
      PROVE  DayKept(d, e)'
  <2>1. ASSUME NEW statuses \in {{"reserved"}, {"committed"}, InUse}
        PROVE  UsedOn(d, e, statuses)' = UsedOn(d, e, statuses) /\ p \notin UsedOn(d, e, statuses)
    BY <1>0, <1>1, <1>6, <1>7, <1>8 DEF UsedOn, InUse
  <2>2. Counting(d, e)' = Counting(d, e)
    BY <1>6, <2>1 DEF Counting, UsedOn
  <2>3. \A q \in UsedOn(d, e, InUse) : usage'[q].amount = usage[q].amount
    BY <1>6, <2>1 DEF UsedOn
  <2>4. /\ UsedOn(d, e, {"reserved"})' = UsedOn(d, e, {"reserved"})
        /\ UsedOn(d, e, {"committed"})' = UsedOn(d, e, {"committed"})
        /\ daily'[d][e] = daily[d][e]
    BY <1>5, <1>8, <2>1
  <2> QED  BY <2>2, <2>3, <2>4, DayUntouched
<1>9. DayKept(n, c)'
  <2>2. PICK open, spent, counted :
          /\ open = UsedOn(n, c, {"reserved"}) /\ spent = UsedOn(n, c, {"committed"})
          /\ counted = Counting(n, c)
    OBVIOUS
  <2>3. /\ p \in open /\ p \notin spent /\ (p \in counted <=> u.counts)
        /\ open \subseteq Posts /\ spent \subseteq Posts /\ counted \subseteq Posts
    BY <1>0, <1>1, <2>2 DEF UsedOn, Counting, InUse
  <2>4. /\ UsedOn(n, c, {"reserved"})' = open \ {p}
        /\ UsedOn(n, c, {"committed"})' = IF status = "committed" THEN spent \cup {p} ELSE spent
    BY <1>0, <1>1, <1>6, <1>7, <2>2 DEF UsedOn
  <2>5. Counting(n, c)' = IF status = "committed" THEN counted ELSE counted \ {p}
    <3>1. ASSUME NEW q \in Posts PROVE q \in Counting(n, c)' <=> q \in counted /\ (q # p \/ status = "committed")
      BY <1>0, <1>1, <1>6, <1>7, <2>2 DEF UsedOn, Counting, InUse
    <3>2. Counting(n, c)' \subseteq Posts
      BY DEF Counting, UsedOn
    <3> QED  BY <2>3, <3>1, <3>2
  <2>6. IsFiniteSet(open) /\ IsFiniteSet(spent) /\ IsFiniteSet(counted) /\ IsFiniteSet(open \ {p})
    BY <2>3, DynamicAssumption, FS_Subset
  <2>7. /\ \A q \in Posts : Amounts[q] \in Nat /\ Amounts'[q] = Amounts[q]
        /\ Amounts[p] = u.amount
    <3>1. ASSUME NEW q \in Posts PROVE usage[q].amount \in Nat /\ usage'[q].amount = usage[q].amount
      <4>1. usage[q] \in Use
        BY DEF UsageInv, UsageRows
      <4>2. usage'[p].amount = usage[p].amount
        BY <1>0, <1>6
      <4> QED  BY <1>6, <4>1, <4>2 DEF Use
    <3> QED  BY <1>0, <3>1 DEF Amounts
  <2>8. ASSUME NEW S, IsFiniteSet(S), S \subseteq Posts
        PROVE  Total(Amounts', S) = Total(Amounts, S) /\ Total(Amounts, S) \in Nat
    <3>1. \A q \in S : Amounts[q] \in Nat /\ Amounts'[q] = Amounts[q]
      BY <2>7, <2>8
    <3> QED  BY <2>8, <3>1, TotalOfSame, TotalWithout
  <2>9. Total(Amounts, open) = u.amount + Total(Amounts, open \ {p})
    BY <2>3, <2>6, <2>7, TotalWithout
  <2>10. Total(Amounts, spent \cup {p}) = u.amount + Total(Amounts, spent)
    BY <2>3, <2>6, <2>7, TotalWith
  <2>11. /\ book.reserved = Total(Amounts, open) /\ book.spent = Total(Amounts, spent)
         /\ book.tokens = Cardinality(counted)
         /\ \E g \in Configurations : book.spent + book.reserved <= g.daily
    BY <1>0, <1>1, <2>2 DEF UsageInv, DayKept
  <2>12. /\ Total(Amounts', open \ {p}) = Total(Amounts, open \ {p}) /\ Total(Amounts, open \ {p}) \in Nat
         /\ Total(Amounts', spent) = Total(Amounts, spent) /\ Total(Amounts, spent) \in Nat
         /\ Total(Amounts', spent \cup {p}) = Total(Amounts, spent \cup {p})
    <3>1. IsFiniteSet(spent \cup {p})
      BY <2>6, FS_AddElement
    <3> QED  BY <2>3, <2>6, <2>8, <3>1
  <2>13. new.reserved = Total(Amounts', open \ {p})
    BY <1>1, <1>3, <2>9, <2>11, <2>12 DEF SettledDay
  <2>14. new.spent = Total(Amounts', IF status = "committed" THEN spent \cup {p} ELSE spent)
    BY <1>1, <1>3, <2>10, <2>11, <2>12 DEF SettledDay
  <2>15. new.tokens = Cardinality(Counting(n, c)')
    <3>1. new.tokens = IF status = "released" /\ u.counts /\ book.tokens > 0 THEN book.tokens - 1 ELSE book.tokens
      BY <1>3 DEF SettledDay
    <3>2. Cardinality(counted) \in Nat
      BY <2>6, FS_CardinalityType
    <3>3. CASE status = "committed"
      BY <2>5, <2>11, <3>1, <3>3
    <3>4. CASE status = "released"
      <4>1. Cardinality(counted \ {p}) = IF p \in counted THEN Cardinality(counted) - 1 ELSE Cardinality(counted)
        BY <2>6, FS_RemoveElement
      <4>2. p \in counted => Cardinality(counted) # 0
        BY <2>6, FS_EmptySet
      <4> QED  BY <2>3, <2>5, <2>11, <3>1, <3>2, <3>4, <4>1, <4>2
    <3> QED  BY <3>3, <3>4
  <2>16. \E g \in Configurations : new.spent + new.reserved <= g.daily
    <3>1. PICK g \in Configurations : book.spent + book.reserved <= g.daily
      BY <2>11
    <3>2. /\ book.spent \in Nat /\ book.reserved \in Nat /\ new.spent \in Nat /\ new.reserved \in Nat /\ g.daily \in Nat
      BY <1>2, <1>4, DynamicAssumption DEF Day
    <3>3. new.spent = (IF status = "committed" THEN book.spent + u.amount ELSE book.spent)
      BY <1>3 DEF SettledDay
    <3>4. book.reserved = u.amount + new.reserved
      BY <2>9, <2>11, <2>12, <2>13
    <3>5. new.spent + new.reserved <= book.spent + book.reserved
      BY <1>1, <3>2, <3>3, <3>4
    <3>6. new.spent + new.reserved <= g.daily
      BY <3>1, <3>2, <3>5
    <3> QED  BY <3>6
  <2> QED  BY <1>5, <2>4, <2>13, <2>14, <2>15, <2>16 DEF DayKept
<1>10. CountedOnce'
  <2>1. ASSUME NEW a \in Posts, NEW b \in Posts,
               {usage'[a].status, usage'[b].status} \subseteq InUse, usage'[a].counts, usage'[b].counts,
               usage'[a].day = usage'[b].day, dsignals'[a].token = dsignals'[b].token
        PROVE  a = b
    <3>1. \A q \in {a, b} : /\ usage[q].status \in InUse /\ usage'[q].counts = usage[q].counts
                            /\ usage'[q].day = usage[q].day
      BY <1>0, <1>1, <1>6, <2>1 DEF InUse
    <3> QED  BY <1>7, <2>1, <3>1 DEF UsageInv, CountedOnce
  <2> QED  BY <2>1 DEF CountedOnce
<1>11. \A q \in Posts : SignalUsed(q)'
  BY <1>0, <1>1, <1>6, <1>7 DEF SignalUsed, UsageInv
<1>12. UsageRows'
  BY <1>2, <1>5, <1>6 DEF UsageInv, UsageRows
<1>13. \A d \in 1..MaxDay, e \in Chains : DayKept(d, e)'
  BY <1>8, <1>9
<1> QED  BY <1>10, <1>11, <1>12, <1>13 DEF UsageInv

LEMMA SpendingKeepsUsage ==
    ASSUME UsageInv, DynamicInv, SpendingStep
    PROVE  UsageInv'
<1>1. ASSUME NEW p \in Posts, RefuseSignal(p) PROVE UsageInv'
  <2>1. \A q \in Posts : dsignals[q].status \notin {"none", "recorded"} => dsignals'[q] = dsignals[q]
    BY <1>1 DEF RefuseSignal, DynamicInv, DynamicRows
  <2>2. UNCHANGED <<usage, daily>> /\ today' \in 1..MaxDay /\ Offered(policy'.config)
    BY <1>1 DEF RefuseSignal, tradeVars, jobVars, UsageInv, UsageRows
  <2> QED  BY <2>1, <2>2, UsageUntouched
<1>2. ASSUME NextDay \/ \E k \in Tokens : HoldingSold(k) PROVE UsageInv'
  <2>1. today' \in 1..MaxDay
    BY <1>2, DynamicAssumption DEF NextDay, HoldingSold, UsageInv, UsageRows
  <2>2. UNCHANGED <<usage, daily, dsignals>> /\ Offered(policy'.config)
    BY <1>2 DEF NextDay, HoldingSold, jobVars, UsageInv, UsageRows
  <2> QED  BY <2>1, <2>2, UsageUntouched
<1> QED  BY <1>1, <1>2, ReserveKeepsUsage, SettleKeepsUsage DEF SpendingStep

LEMMA UsageInvariance == DynamicSpec => []UsageInv
<1>1. DynamicInit => UsageInv
  BY UsageInitSound
<1>2. DynamicInv /\ UsageInv /\ [DynamicNext]_dynamicVars => UsageInv'
  <2> SUFFICES ASSUME DynamicInv, UsageInv, [DynamicNext]_dynamicVars PROVE UsageInv'
    OBVIOUS
  <2>1. CASE UNCHANGED dynamicVars
    <3>1. /\ UNCHANGED <<usage, daily, dsignals>> /\ today' \in 1..MaxDay
          /\ Offered(policy'.config)
      BY <2>1 DEF dynamicVars, UsageInv, UsageRows
    <3> QED  BY <3>1, UsageUntouched
  <2> QED  BY <2>1, PolicyKeepsUsage, ResolutionKeepsUsage, SpendingKeepsUsage DEF DynamicNext
<1> QED  BY <1>1, <1>2, DynamicInvariance, PTL DEF DynamicSpec

LEMMA AccountedNow == UsageInv => UsageAccounted
<1> SUFFICES ASSUME UsageInv, NEW d \in 1..MaxDay, NEW c \in Chains
             PROVE  daily[d][c].tokens <= Cardinality({dsignals[p].token : p \in UsedOn(d, c, InUse)})
  BY DEF UsageInv, DayKept, UsageAccounted, InUse
<1> DEFINE tokensHeld == {dsignals[p].token : p \in UsedOn(d, c, InUse)}
           tokenBought == [p \in UsedOn(d, c, InUse) |-> dsignals[p].token]
           counted == [p \in Counting(d, c) |-> dsignals[p].token]
<1>1. IsFiniteSet(UsedOn(d, c, InUse))
  BY DynamicAssumption, FS_Subset DEF UsedOn
<1>2. tokenBought \in Surjection(UsedOn(d, c, InUse), tokensHeld)
  BY DEF Surjection
<1>3. IsFiniteSet(tokensHeld)
  <2> HIDE DEF tokenBought, tokensHeld
  <2> QED  BY <1>1, <1>2, FS_Surjection
<1>4. counted \in Injection(Counting(d, c), tokensHeld)
  <2>1. Counting(d, c) \subseteq UsedOn(d, c, InUse)
    BY DEF Counting
  <2>2. counted \in [Counting(d, c) -> tokensHeld]
    BY <2>1
  <2>3. \A p, q \in Counting(d, c) : counted[p] = counted[q] => p = q
    BY DEF Counting, UsedOn, InUse, UsageInv, CountedOnce
  <2> HIDE DEF counted, tokensHeld
  <2> QED  BY <2>2, <2>3 DEF Injection, IsInjective
<1>5. Cardinality(Counting(d, c)) <= Cardinality(tokensHeld)
  <2> HIDE DEF counted, tokensHeld
  <2> QED  BY <1>3, <1>4, FS_Injection
<1> QED  BY <1>5 DEF UsageInv, DayKept

(* The day of a policy holds what its reservations and buys add up to, and *)
(* never more than a budget it was given (reserveUsage, settleUsage): for  *)
(* any number of posts and days, any amounts, and settlements on any later *)
(* day.  It counts no more new tokens than it holds.                       *)
THEOREM DayAddsUp == DynamicSpec => []UsageAccounted
BY AccountedNow, UsageInvariance, PTL

-----------------------------------------------------------------------------
(* The jobs, and what is held.                                             *)
JobStatuses == {"none", "pending", "processing", "resolved", "rejected", "cancelled", "failed"}
Job(j) ==
    /\ j = [status |-> j.status, revision |-> j.revision, mode |-> j.mode, tries |-> j.tries,
            holder |-> j.holder, leased |-> j.leased]
    /\ j.status \in JobStatuses

JobsWhole ==
    /\ policy.revision \in 1..MaxRevisions /\ holdings \subseteq Tokens
    /\ jobs = [p \in Posts |-> jobs[p]] /\ \A p \in Posts : Job(jobs[p])

LEMMA JobChanges ==
    ASSUME NEW j, Job(j), NEW status \in JobStatuses, NEW leased
    PROVE  /\ Job([j EXCEPT !.status = status]) /\ Job([j EXCEPT !.leased = leased])
           /\ Job([j EXCEPT !.status = status, !.leased = leased])
<1>1. PICK was, revision, mode, tries, holder, had :
        j = [status |-> was, revision |-> revision, mode |-> mode, tries |-> tries, holder |-> holder,
             leased |-> had]
  BY DEF Job
<1>2. was \in JobStatuses
  BY <1>1 DEF Job
<1>3. [j EXCEPT !.status = status] = [status |-> status, revision |-> revision, mode |-> mode,
          tries |-> tries, holder |-> holder, leased |-> had]
  BY <1>1
<1>4. [j EXCEPT !.leased = leased] = [status |-> was, revision |-> revision, mode |-> mode,
          tries |-> tries, holder |-> holder, leased |-> leased]
  BY <1>1
<1>5. [j EXCEPT !.status = status, !.leased = leased] = [status |-> status, revision |-> revision,
          mode |-> mode, tries |-> tries, holder |-> holder, leased |-> leased]
  <2>1. PICK k : k = [j EXCEPT !.status = status]
    OBVIOUS
  <2>2. [j EXCEPT !.status = status, !.leased = leased] = [k EXCEPT !.leased = leased]
    BY <2>1
  <2>3. k = [status |-> status, revision |-> revision, mode |-> mode, tries |-> tries,
             holder |-> holder, leased |-> had]
    BY <1>3, <2>1
  <2>4. [k EXCEPT !.leased = leased] = [status |-> status, revision |-> revision,
             mode |-> mode, tries |-> tries, holder |-> holder, leased |-> leased]
    BY <2>3
  <2> QED  BY <2>2, <2>4
<1> QED  BY <1>2, <1>3, <1>4, <1>5 DEF Job

LEMMA JobsAtFirst ==
    ASSUME DynamicInit \/ SpendingInit(Meant)
    PROVE  JobsWhole
<1>1. policy.revision = 1 /\ holdings = {}
  BY DEF DynamicInit, SpendingInit, NothingSpent
<1>2. PICK j : /\ j \in {NoJob, [NoJob EXCEPT !.status = "resolved", !.revision = 1, !.mode = "live", !.tries = 1]}
               /\ jobs = [p \in Posts |-> j]
  BY DEF DynamicInit, SpendingInit
<1>3. NoJob = [status |-> "none", revision |-> 0, mode |-> "none", tries |-> 0, holder |-> "none", leased |-> FALSE]
  BY DEF NoJob
<1>4. j = NoJob \/ j = [status |-> "resolved", revision |-> 1, mode |-> "live", tries |-> 1, holder |-> "none",
                        leased |-> FALSE]
  BY <1>2, <1>3
<1>5. Job(j)
  BY <1>3, <1>4 DEF Job, JobStatuses
<1> QED  BY <1>1, <1>2, <1>5, DynamicAssumption DEF JobsWhole

(* One job changes, or none.                                               *)
LEMMA OneJob ==
    ASSUME JobsWhole, UNCHANGED <<policy, holdings>>, NEW p, NEW j, p \in Posts => Job(j),
           jobs' = jobs \/ jobs' = [jobs EXCEPT ![p] = j]
    PROVE  JobsWhole'
BY DEF JobsWhole

LEMMA PolicyKeepsJobs ==
    ASSUME JobsWhole, PolicyStep
    PROVE  JobsWhole'
<1>1. /\ policy'.revision = policy.revision + 1 /\ policy.revision < MaxRevisions /\ holdings' = holdings
      /\ \E closes : Supersede(policy.revision + 1, closes)
  <2>1. CASE RemovePolicy
    BY <2>1 DEF RemovePolicy, tradeVars
  <2>2. ASSUME NEW c \in Configurations, UpsertPolicy(c)
        PROVE  /\ policy'.revision = policy.revision + 1 /\ policy.revision < MaxRevisions /\ holdings' = holdings
               /\ \E closes : Supersede(policy.revision + 1, closes)
    BY <2>2 DEF UpsertPolicy, tradeVars
  <2> QED  BY <2>1, <2>2 DEF PolicyStep
<1>2. policy'.revision \in 1..MaxRevisions
  BY <1>1, DynamicAssumption DEF JobsWhole
<1>3. jobs' = [p \in Posts |-> jobs'[p]]
  BY <1>1 DEF Supersede
<1>4. \A p \in Posts : jobs'[p] = jobs[p] \/ jobs'[p] = [jobs[p] EXCEPT !.status = "cancelled", !.leased = FALSE]
  BY <1>1 DEF Supersede
<1>5. ASSUME NEW p \in Posts PROVE Job(jobs'[p])
  <2>1. Job(jobs[p]) /\ "cancelled" \in JobStatuses
    BY DEF JobsWhole, JobStatuses
  <2>2. Job([jobs[p] EXCEPT !.status = "cancelled", !.leased = FALSE])
    BY <2>1, JobChanges
  <2> QED  BY <1>4, <2>1, <2>2
<1> QED  BY <1>1, <1>2, <1>3, <1>5 DEF JobsWhole

LEMMA ResolutionKeepsJobs ==
    ASSUME JobsWhole, DynamicInv, ResolutionStep
    PROVE  JobsWhole'
<1>0. {"pending", "processing", "cancelled", "resolved", "rejected", "failed"} \subseteq JobStatuses
  BY DEF JobStatuses
<1>a. \A p \in Posts : Job(jobs[p]) /\ jobs = [q \in Posts |-> jobs[q]]
  BY DEF JobsWhole
<1>1. ASSUME NEW p, NEW status \in JobStatuses, NEW leased, UNCHANGED <<policy, holdings>>,
             jobs' = [jobs EXCEPT ![p].status = status, ![p].leased = leased] \/ jobs' = jobs
      PROVE  JobsWhole'
  <2>1. PICK j : j = [jobs[p] EXCEPT !.status = status, !.leased = leased]
    OBVIOUS
  <2>2. p \in Posts => Job(j)
    BY <1>a, <2>1, JobChanges
  <2>3. jobs' = [jobs EXCEPT ![p] = j] \/ jobs' = jobs
    BY <1>1, <2>1
  <2> QED  BY <1>1, <2>2, <2>3, OneJob
<1>2. ASSUME NEW w \in Resolvers, CancelJob(w) \/ ResolverFails(w) PROVE JobsWhole'
  <2>1. UNCHANGED <<policy, holdings>>
    BY <1>2 DEF CancelJob, ResolverFails, tradeVars
  <2>2. \E status \in JobStatuses :
           jobs' = [jobs EXCEPT ![resolver[w].post].status = status, ![resolver[w].post].leased = FALSE]
           \/ jobs' = jobs
    BY <1>0, <1>2 DEF CancelJob, ResolverFails
  <2> QED  BY <1>1, <2>1, <2>2
<1>3. ASSUME NEW w \in Resolvers, PersistResolution(w) PROVE JobsWhole'
  <2>1. UNCHANGED <<policy, holdings>>
    BY <1>3 DEF PersistResolution, tradeVars
  <2>2. \E status \in JobStatuses :
           jobs' = [jobs EXCEPT ![resolver[w].post].status = status, ![resolver[w].post].leased = FALSE]
    BY <1>0, <1>3 DEF PersistResolution
  <2> QED  BY <1>1, <2>1, <2>2
<1>4. ASSUME NEW w \in Resolvers, NEW p \in Posts, ClaimNext(w, p) PROVE JobsWhole'
  <2>1. /\ UNCHANGED <<policy, holdings>>
        /\ jobs' = [jobs EXCEPT ![p] = [jobs[p] EXCEPT !.status = "processing",
                                              !.tries = jobs[p].tries + 1, !.holder = w, !.leased = TRUE]]
    BY <1>4 DEF ClaimNext, TakesJob, tradeVars
  <2>2. PICK j : j = [jobs[p] EXCEPT !.status = "processing", !.tries = jobs[p].tries + 1, !.holder = w, !.leased = TRUE]
    OBVIOUS
  <2>3. j = [status |-> "processing", revision |-> jobs[p].revision, mode |-> jobs[p].mode,
             tries |-> jobs[p].tries + 1, holder |-> w, leased |-> TRUE]
    <3>1. PICK was, revision, mode, tries, holder, had :
            jobs[p] = [status |-> was, revision |-> revision, mode |-> mode, tries |-> tries,
                       holder |-> holder, leased |-> had]
      <4>1. Job(jobs[p])
        BY <1>a
      <4> QED  BY <4>1 DEF Job
    <3> QED  BY <2>2, <3>1
  <2>4. Job(j)
    BY <1>0, <2>3 DEF Job
  <2> QED  BY <2>1, <2>2, <2>4, OneJob
<1>5. ASSUME NEW w \in Resolvers, ResolveJob(w) \/ ResolverDies(w) PROVE JobsWhole'
  BY <1>5 DEF ResolveJob, ResolverDies, tradeVars, JobsWhole
<1>6. ASSUME NEW p \in Posts, EnqueueForActivity(p) PROVE JobsWhole'
  <2>1. PICK j : j = [NoJob EXCEPT !.status = "pending", !.revision = policy.revision, !.mode = policy.config.mode]
    OBVIOUS
  <2>2. Job(j)
    BY <2>1 DEF NoJob, Job, JobStatuses
  <2>3. UNCHANGED <<policy, holdings>> /\ jobs' = [jobs EXCEPT ![p] = j]
    BY <1>6, <2>1 DEF EnqueueForActivity, tradeVars
  <2> QED  BY <2>2, <2>3, OneJob
<1>7. ASSUME NEW p \in Posts, LeaseLapses(p) PROVE JobsWhole'
  <2>1. PICK j : j = [jobs[p] EXCEPT !.leased = FALSE]
    OBVIOUS
  <2>2. Job(j)
    BY <1>0, <1>a, <2>1, JobChanges
  <2>3. UNCHANGED <<policy, holdings>> /\ jobs' = [jobs EXCEPT ![p] = j]
    BY <1>7, <2>1 DEF LeaseLapses, tradeVars
  <2> QED  BY <2>2, <2>3, OneJob
<1>8. CASE RequeueJob
  <2>1. PICK p, j : p = lister.post /\ j = [jobs[p] EXCEPT !.status = "pending"]
    OBVIOUS
  <2>2. p \in Posts => Job(j)
    BY <1>0, <1>a, <2>1, JobChanges
  <2>3. UNCHANGED <<policy, holdings>> /\ (jobs' = [jobs EXCEPT ![p] = j] \/ jobs' = jobs)
    BY <1>8, <2>1 DEF RequeueJob, tradeVars
  <2> QED  BY <2>2, <2>3, OneJob
<1>9. CASE UNCHANGED <<policy, holdings, jobs>>
  BY <1>9 DEF JobsWhole
<1>10. ASSUME SearchWindow \/ WindowFails \/ ListerDies \/ \E p \in Posts : ClaimWindow(p) \/ WindowExpires(p)
       PROVE  UNCHANGED <<policy, holdings, jobs>>
  BY <1>10 DEF SearchWindow, WindowFails, ListerDies, ClaimWindow, WindowExpires, tradeVars
<1>11. ASSUME NEW k \in Tokens, IndexExpires(k) PROVE UNCHANGED <<policy, holdings, jobs>>
  BY <1>11 DEF IndexExpires, tradeVars
<1> QED
  BY <1>2, <1>3, <1>4, <1>5, <1>6, <1>7, <1>8, <1>9, <1>10, <1>11
  DEF ResolutionStep, ResolverStep, ListerStep

(* What is bought is a token, because its use was.                         *)
LEMMA SpendingKeepsJobs ==
    ASSUME JobsWhole, UsageInv, SpendingStep
    PROVE  JobsWhole'
<1>1. ASSUME NEW p \in Posts, NEW status, SettleUsage(p, status) PROVE JobsWhole'
  <2>1. dsignals[p].token \in Tokens
    BY <1>1 DEF SettleUsage, UsageInv, SignalUsed
  <2> QED  BY <1>1, <2>1 DEF SettleUsage, jobVars, JobsWhole
<1>2. ASSUME NEW p \in Posts, ReserveUsage(p) \/ RefuseSignal(p) PROVE JobsWhole'
  BY <1>2 DEF ReserveUsage, RefuseSignal, jobVars, tradeVars, JobsWhole
<1>3. CASE NextDay \/ \E k \in Tokens : HoldingSold(k)
  BY <1>3 DEF NextDay, HoldingSold, jobVars, JobsWhole
<1> QED  BY <1>1, <1>2, <1>3 DEF SpendingStep

-----------------------------------------------------------------------------
(* The posts of the later scene have been resolved as they are meant.      *)
LEMMA SpendingInitSound ==
    ASSUME SpendingInit(Meant)
    PROVE  DynamicInv /\ UsageInv
<1>1. PICK g \in Configurations : policy = [revision |-> 1, config |-> g] /\ g.mode = "live" /\ g.enabled
  BY DEF SpendingInit
<1>2. \A p \in Posts : AsMeant(p, g, Meant[p])
  <2> SUFFICES ASSUME NEW p \in Posts PROVE AsMeant(p, g, Meant[p])
    OBVIOUS
  <2>1. PICK index, answers : Resolve(p, g, index, answers) = [status |-> "resolved", token |-> Meant[p]]
    BY <1>1, MeantAssumption
  <2>2. Resolve(p, g, index, answers).status = "resolved" /\ Resolve(p, g, index, answers).token = Meant[p]
    BY <2>1
  <2>3. AsMeant(p, g, Resolve(p, g, index, answers).token)
    BY <2>2, ResolvedAsMeant
  <2> QED  BY <2>2, <2>3
<1>3. /\ resolver = [w \in Resolvers |-> AtRestNow]
      /\ targets = [k \in Tokens |-> [status |-> IF \E p \in Posts : Meant[p] = k THEN "active" ELSE "none",
                                      revision |-> IF \E p \in Posts : Meant[p] = k THEN 1 ELSE 0]]
      /\ dsignals = [p \in Posts |-> [status |-> "recorded", revision |-> 1, token |-> Meant[p], mode |-> "live"]]
  BY DEF SpendingInit
<1>4. targets \in [Tokens -> [status : {"none", "active", "paused"}, revision : Nat]]
  BY <1>3
<1>5. DynamicRows
  BY <1>1, <1>3, <1>4 DEF DynamicRows, Signal
<1>6. \A p \in Posts : SignalSound(p)
  <2> SUFFICES ASSUME NEW p \in Posts PROVE SignalSound(p)
    OBVIOUS
  <2>1. Meant[p] \in Tokens
    BY <1>2 DEF AsMeant
  <2>2. targets[Meant[p]] = [status |-> "active", revision |-> 1]
    BY <1>3, <2>1
  <2> QED  BY <1>1, <1>2, <1>3, <2>2 DEF SignalSound
<1>7. \A k \in Tokens : TargetSound(k)
  BY <1>1, <1>3 DEF TargetSound
<1>8. DynamicInv
  BY <1>3, <1>5, <1>6, <1>7 DEF DynamicInv, ChoiceSound, AtRestNow
<1>9. UsageInv
  BY <1>1, NothingUsed DEF SpendingInit
<1> QED  BY <1>8, <1>9

LEMMA DynamicKeeps ==
    ASSUME DynamicInv, UsageInv, JobsWhole, [DynamicNext]_dynamicVars
    PROVE  DynamicInv' /\ UsageInv' /\ JobsWhole'
<1>1. CASE UNCHANGED dynamicVars
  <2>1. DynamicInv'
    BY <1>1 DEF dynamicVars, DynamicInv, DynamicRows, Signal, ChoiceSound, SignalSound, TargetSound
  <2>2. /\ UNCHANGED <<usage, daily, dsignals, policy, jobs, holdings>> /\ today' \in 1..MaxDay
        /\ Offered(policy'.config)
    BY <1>1 DEF dynamicVars, UsageInv, UsageRows
  <2>3. UsageInv'
    BY <2>2, UsageUntouched
  <2> QED  BY <2>1, <2>2, <2>3 DEF JobsWhole
<1>2. CASE PolicyStep
  BY <1>2, PolicyKeeps, PolicyKeepsUsage, PolicyKeepsJobs
<1>3. CASE ResolutionStep
  BY <1>3, ResolutionKeeps, ResolutionKeepsUsage, ResolutionKeepsJobs
<1>4. CASE SpendingStep
  BY <1>4, SpendingKeeps, SpendingKeepsUsage, SpendingKeepsJobs
<1> QED  BY <1>1, <1>2, <1>3, <1>4 DEF DynamicNext

LEMMA DynamicTypes == DynamicInv /\ JobsWhole => DynamicTypeOK
<1> SUFFICES ASSUME DynamicInv, JobsWhole PROVE DynamicTypeOK
  OBVIOUS
<1>1. \A k \in Tokens : targets[k].status \in {"none", "active", "paused"}
  BY DEF DynamicInv, DynamicRows
<1> QED  BY <1>1 DEF JobsWhole, Job, JobStatuses, DynamicTypeOK

(* The revision of the policy, its jobs and targets, and what is held have *)
(* their types.                                                            *)
THEOREM DynamicTyped == DynamicSpec => []DynamicTypeOK
<1>1. DynamicInit => DynamicInv /\ UsageInv /\ JobsWhole
  BY DynamicInitSound, UsageInitSound, JobsAtFirst
<1>2. DynamicInv /\ UsageInv /\ JobsWhole /\ [DynamicNext]_dynamicVars
        => DynamicInv' /\ UsageInv' /\ JobsWhole'
  BY DynamicKeeps
<1> QED  BY <1>1, <1>2, DynamicTypes, PTL DEF DynamicSpec

-----------------------------------------------------------------------------
(* The reconciler.                                                         *)

OrderRow == [status : DueStatuses \cup {"confirmed"}, hash : Nat,
             claim : Reconcilers \cup {"nobody"}, lapsed : BOOLEAN]
RowSeen == [status : DueStatuses \cup {"unread"}, hash : Nat]
Heard == [what : {"nothing", "pending", "confirmed", "failed", "dropped", "unavailable"}, hash : Nat]
Stages == {"rest", "set", "over", "listed", "claimed", "answered", "receipt", "failing", "proving",
           "verified", "done"}

RowsInOrder ==
    /\ sort \in Sorts /\ order \in OrderRow
    /\ attempt \in {"submitted", "failure_verifying", "reconciliation_required",
                    "definitive_failed_no_fill", "confirmed"}
    /\ tx \in [hash : Nat, state : {"pool", "final", "reverted", "gone"}]
    /\ at \in [Reconcilers -> Stages]
    /\ read \in [Reconcilers -> RowSeen] /\ heard \in [Reconcilers -> Heard]
    /\ booked \in Nat /\ remaining \in Nat

(* A verdict on the receipt is kept until it is used, and a transaction    *)
(* that is final stays so.                                                 *)
VerdictsStand ==
    \A w \in Reconcilers : at[w] = "verified" /\ heard[w].what = "confirmed" => tx.state = "final"

ReconcilerInv == RowsInOrder /\ VerdictsStand /\ SettledFromChain

LEMMA ReconcilerInitSound == ReconcilerInit => ReconcilerInv
<1> SUFFICES ASSUME ReconcilerInit PROVE ReconcilerInv
  OBVIOUS
<1>1. sort.hash \in Nat /\ sort.lots \in Nat
  BY ReconciliationAssumption DEF ReconcilerInit, NoHash
<1>2. order \in OrderRow
  BY <1>1 DEF ReconcilerInit, OrderRow, DueStatuses
<1>3. at \in [Reconcilers -> Stages]
  BY DEF ReconcilerInit, Stages
<1>4. read \in [Reconcilers -> RowSeen] /\ heard \in [Reconcilers -> Heard]
  BY DEF ReconcilerInit, NoRow, Nothing, NoHash, RowSeen, Heard
<1>5. RowsInOrder
  BY <1>1, <1>2, <1>3, <1>4 DEF ReconcilerInit, RowsInOrder
<1> QED  BY <1>5 DEF ReconcilerInit, ReconcilerInv, VerdictsStand, SettledFromChain, Nothing

(* What only moves a worker, away from the verdict or to rest.             *)
LEMMA WorkerMoves ==
    ASSUME ReconcilerInv, NEW w \in Reconcilers, NEW where \in Stages, Goes(w, where),
           read' \in [Reconcilers -> RowSeen], heard' \in [Reconcilers -> Heard],
           \A u \in Reconcilers \ {w} : heard'[u] = heard[u],
           where = "verified" => (heard'[w].what = "confirmed" => tx.state = "final"),
           UNCHANGED <<sort, tx, booked, remaining>>, order' \in OrderRow,
           attempt' \in {"submitted", "failure_verifying", "reconciliation_required",
                         "definitive_failed_no_fill", "confirmed"}
    PROVE  ReconcilerInv'
<1>1. at' \in [Reconcilers -> Stages]
  BY DEF Goes, ReconcilerInv, RowsInOrder
<1>2. RowsInOrder'
  BY <1>1 DEF ReconcilerInv, RowsInOrder
<1>3. VerdictsStand'
  <2> SUFFICES ASSUME NEW u \in Reconcilers, at'[u] = "verified", heard'[u].what = "confirmed"
               PROVE  tx'.state = "final"
    BY DEF VerdictsStand
  <2>1. CASE u = w
    <3>1. where = "verified"
      BY <2>1 DEF Goes, ReconcilerInv, RowsInOrder
    <3> QED  BY <2>1, <3>1
  <2>2. CASE u # w
    <3>1. at[u] = "verified"
      BY <2>2 DEF Goes, ReconcilerInv, RowsInOrder
    <3> QED  BY <2>2, <3>1 DEF ReconcilerInv, VerdictsStand
  <2> QED  BY <2>1, <2>2
<1>4. SettledFromChain'
  BY DEF ReconcilerInv, SettledFromChain, Matches
<1> QED  BY <1>2, <1>3, <1>4 DEF ReconcilerInv

LEMMA RestsAfter ==
    ASSUME ReconcilerInv, NEW w \in Reconcilers
    PROVE  /\ Forgets(w) => /\ read' \in [Reconcilers -> RowSeen] /\ heard' \in [Reconcilers -> Heard]
                            /\ \A u \in Reconcilers \ {w} : heard'[u] = heard[u]
           /\ RowUsed(w) => read' \in [Reconcilers -> RowSeen]
<1>1. NoRow \in RowSeen /\ [heard[w] EXCEPT !.what = "nothing"] \in Heard /\ Nothing \in Heard
  BY DEF ReconcilerInv, RowsInOrder, NoRow, Nothing, NoHash, RowSeen, Heard
<1>2. RowUsed(w) => read' \in [Reconcilers -> RowSeen]
  BY <1>1 DEF ReconcilerInv, RowsInOrder, RowUsed
<1>3. Forgets(w) => heard' \in [Reconcilers -> Heard] /\ \A u \in Reconcilers \ {w} : heard'[u] = heard[u]
  BY <1>1 DEF ReconcilerInv, RowsInOrder, Forgets
<1> QED  BY <1>2, <1>3 DEF Forgets

LEMMA VerdictOfReceipt ==
    ASSUME ReconcilerInv, NEW hash \in Nat
    PROVE  /\ ReceiptOf(hash) \in {"unavailable", "dropped", "pending", "confirmed", "failed"}
           /\ ReceiptOf(hash) = "confirmed" => tx.state = "final"
<1>1. tx.state \in {"pool", "final", "reverted", "gone"}
  BY DEF ReconcilerInv, RowsInOrder
<1> QED  BY <1>1 DEF ReceiptOf

LEMMA ProviderTyped == ReconcilerInv => ProviderSays \subseteq Heard
<1> SUFFICES ASSUME ReconcilerInv, NEW a \in ProviderSays PROVE a \in Heard
  OBVIOUS
<1>1. tx.hash \in Nat
  BY DEF ReconcilerInv, RowsInOrder
<1>2. CASE a \in {[what |-> "pending", hash |-> NoHash]}
  BY <1>2 DEF Heard, NoHash
<1>3. CASE a \in [what : IF tx.state \in {"pool", "final"} THEN {"confirmed"} ELSE {}, hash : {tx.hash}]
  BY <1>1, <1>3 DEF Heard
<1>4. CASE a \in [what : IF tx.state # "final" THEN {"failed"} ELSE {}, hash : {NoHash, tx.hash}]
  BY <1>1, <1>4 DEF Heard, NoHash
<1> QED  BY <1>2, <1>3, <1>4 DEF ProviderSays

LEMMA RestTyped ==
    ASSUME ReconcilerInv, NEW w \in Reconcilers, Forgets(w), NEW where \in Stages \ {"verified"},
           Goes(w, where), UNCHANGED <<sort, tx, booked, remaining>>, order' \in OrderRow,
           attempt' \in {"submitted", "failure_verifying", "reconciliation_required",
                         "definitive_failed_no_fill", "confirmed"}
    PROVE  ReconcilerInv'
  BY RestsAfter, WorkerMoves

LEMMA ReconcilerStepKeeps == ASSUME ReconcilerInv, NEW w \in Reconcilers, ReconcilerStep(w) PROVE ReconcilerInv'
<1>t. /\ sort \in Sorts /\ order \in OrderRow /\ order.status \in DueStatuses \cup {"confirmed"}
      /\ order.hash \in Nat
      /\ attempt \in {"submitted", "failure_verifying", "reconciliation_required",
                      "definitive_failed_no_fill", "confirmed"}
      /\ heard \in [Reconcilers -> Heard] /\ read \in [Reconcilers -> RowSeen] /\ at \in [Reconcilers -> Stages]
  BY DEF ReconcilerInv, RowsInOrder, OrderRow
<1>n. /\ "done" \in Stages \ {"verified"} /\ "rest" \in Stages \ {"verified"} /\ "over" \in Stages \ {"verified"}
      /\ "listed" \in Stages /\ "claimed" \in Stages /\ "answered" \in Stages /\ "receipt" \in Stages
      /\ "failing" \in Stages /\ "proving" \in Stages /\ "verified" \in Stages
  BY DEF Stages
<1>1. CASE ReadRow(w)
  <2>1. order.status \in DueStatuses
    BY <1>1, <1>t DEF ReadRow
  <2>2. read' \in [Reconcilers -> RowSeen]
    BY <1>1, <1>t, <2>1 DEF ReadRow, RowSeen
  <2>3. heard' \in [Reconcilers -> Heard] /\ \A u \in Reconcilers \ {w} : heard'[u] = heard[u]
    BY <1>1, <1>t DEF ReadRow, Heard, Nothing, NoHash
  <2> QED  BY <1>1, <1>t, <1>n, <2>2, <2>3, WorkerMoves DEF ReadRow
<1>2. CASE HotTimerLate(w)
  BY <1>2, <1>t, <1>n, WorkerMoves DEF HotTimerLate
<1>3. CASE ClaimOrder(w)
  <2>1. order' \in OrderRow
    BY <1>3, <1>t DEF ClaimOrder, OrderRow
  <2>2. CASE ~MayClaim
    <3>1. GoesToRest(w) /\ UNCHANGED <<sort, order, attempt, booked, remaining, tx, mishaps>>
      BY <1>3, <2>2 DEF ClaimOrder
    <3> QED  BY <3>1, <1>t, <1>n, RestTyped DEF GoesToRest
  <2>3. CASE MayClaim /\ read[w].status = "chain_verifying"
    <3>1. /\ Goes(w, "receipt") /\ RowUsed(w) /\ heard' = [heard EXCEPT ![w].hash = read[w].hash]
          /\ UNCHANGED <<sort, attempt, booked, remaining, tx, mishaps>>
      BY <1>3, <2>3 DEF ClaimOrder
    <3>2. [heard[w] EXCEPT !.hash = read[w].hash] \in Heard
      BY <1>t DEF Heard, RowSeen
    <3>3. heard' \in [Reconcilers -> Heard] /\ \A u \in Reconcilers \ {w} : heard'[u] = heard[u]
      BY <3>1, <3>2, <1>t
    <3> QED  BY <3>1, <3>3, <2>1, <1>t, <1>n, RestsAfter, WorkerMoves
  <2>4. CASE MayClaim /\ read[w].status # "chain_verifying"
    <3>1. Goes(w, "claimed") /\ UNCHANGED <<read, heard, sort, attempt, booked, remaining, tx, mishaps>>
      BY <1>3, <2>4 DEF ClaimOrder
    <3> QED  BY <3>1, <2>1, <1>t, <1>n, WorkerMoves
  <2> QED  BY <2>2, <2>3, <2>4
<1>4. CASE AskProvider(w)
  <2>1. PICK answer \in ProviderSays : heard' = [heard EXCEPT ![w] = answer]
    BY <1>4 DEF AskProvider
  <2>2. answer \in Heard
    BY ProviderTyped
  <2>3. heard' \in [Reconcilers -> Heard] /\ \A u \in Reconcilers \ {w} : heard'[u] = heard[u]
    BY <2>1, <2>2, <1>t
  <2>4. Goes(w, "answered") /\ UNCHANGED <<sort, order, attempt, booked, remaining, tx, read>>
    BY <1>4 DEF AskProvider
  <2> QED  BY <2>3, <2>4, <1>t, <1>n, WorkerMoves
<1>5. CASE UpdateOrderAfterQuery(w)
  <2>1. PersistedStatus(w) \in DueStatuses /\ KnownHash(heard[w].hash) \in Nat
    BY <1>t DEF PersistedStatus, KnownHash, DueStatuses, Heard
  <2>2. order' \in OrderRow /\ UNCHANGED <<sort, attempt, booked, remaining, tx, mishaps>>
    BY <1>5, <2>1, <1>t DEF UpdateOrderAfterQuery, OrderRow
  <2>3. \/ (Goes(w, "receipt") \/ Goes(w, "failing")) /\ RowUsed(w) /\ UNCHANGED heard
        \/ Goes(w, "done") /\ Forgets(w)
    BY <1>5 DEF UpdateOrderAfterQuery, Ends
  <2>4. CASE (Goes(w, "receipt") \/ Goes(w, "failing")) /\ RowUsed(w) /\ UNCHANGED heard
    BY <2>2, <2>4, <1>t, <1>n, RestsAfter, WorkerMoves
  <2> QED  BY <2>2, <2>3, <2>4, <1>t, <1>n, RestTyped
<1>6. CASE BeginVerification(w)
  <2>1. order' \in OrderRow
    BY <1>6, <1>t DEF BeginVerification, OrderRow, DueStatuses
  <2> QED  BY <1>6, <2>1, <1>t, <1>n, WorkerMoves DEF BeginVerification
<1>7. CASE ProveFailed(w)
  <2>1. order' \in OrderRow
    BY <1>7, <1>t DEF ProveFailed, OrderRow, DueStatuses
  <2> QED  BY <1>7, <2>1, <1>n, RestTyped DEF ProveFailed, Ends
<1>8. CASE MarkAttemptUncertain(w) \/ KeepObserving(w)
  BY <1>8, <1>t, <1>n, RestTyped DEF MarkAttemptUncertain, KeepObserving, Ends
<1>9. CASE VerifyReceipt(w)
  <2>1. ReceiptOf(heard[w].hash) \in {"unavailable", "dropped", "pending", "confirmed", "failed"}
        /\ (ReceiptOf(heard[w].hash) = "confirmed" => tx.state = "final")
    BY <1>t, VerdictOfReceipt DEF Heard
  <2>2. PICK verdict \in {"unavailable", "dropped", "pending", "confirmed", "failed"} :
           verdict = ReceiptOf(heard[w].hash)
    BY <2>1
  <2>3. heard' = [heard EXCEPT ![w].what = verdict]
    BY <1>9, <2>2 DEF VerifyReceipt
  <2>4. [heard[w] EXCEPT !.what = verdict] \in Heard
    BY <1>t DEF Heard
  <2>5. /\ heard' \in [Reconcilers -> Heard] /\ heard'[w].what = verdict
        /\ \A u \in Reconcilers \ {w} : heard'[u] = heard[u]
    BY <2>3, <2>4, <1>t DEF Heard
  <2> QED  BY <1>9, <2>1, <2>2, <2>5, <1>t, <1>n, WorkerMoves DEF VerifyReceipt
<1>10. CASE RecoverEvmReplacement(w)
  <2>1. PICK answer \in ProviderSays :
            order' = [order EXCEPT !.status = "chain_verifying", !.hash = answer.hash]
    BY <1>10 DEF RecoverEvmReplacement
  <2>2. answer.hash \in Nat
    BY ProviderTyped DEF Heard
  <2>3. order' \in OrderRow
    BY <2>1, <2>2, <1>t DEF OrderRow, DueStatuses
  <2> QED  BY <1>10, <2>3, <1>t, <1>n, RestTyped DEF RecoverEvmReplacement, Ends
<1>11. CASE ReviewMismatch(w)
  BY <1>11, <1>t, <1>n, RestTyped DEF ReviewMismatch, Ends
<1>12. CASE KeepVerifying(w)
  <2>1. order' \in OrderRow /\ UNCHANGED <<sort, booked, remaining, tx>> /\ Goes(w, "done") /\ Forgets(w)
    BY <1>12, <1>t DEF KeepVerifying, OrderRow, DueStatuses, Ends
  <2>2. attempt' \in {"submitted", "failure_verifying", "reconciliation_required",
                      "definitive_failed_no_fill", "confirmed"}
    BY <1>12, <1>t DEF KeepVerifying
  <2> QED  BY <2>1, <2>2, <1>n, RestTyped
<1>13. CASE FinalizeOrder(w)
  <2>1. tx.state = "final" /\ Matches
    BY <1>13 DEF FinalizeOrder, ReconcilerInv, VerdictsStand
  <2>2. order' \in OrderRow
    BY <1>13, <1>t DEF FinalizeOrder, OrderRow
  <2>3. booked' \in Nat /\ remaining' \in Nat
    BY <1>13 DEF FinalizeOrder, MayBook, ReconcilerInv, RowsInOrder
  <2>4. attempt' \in {"submitted", "failure_verifying", "reconciliation_required",
                      "definitive_failed_no_fill", "confirmed"}
    BY <1>13, <1>t DEF FinalizeOrder
  <2>5. Goes(w, "done") /\ Forgets(w) /\ UNCHANGED <<sort, tx, mishaps>>
    BY <1>13 DEF FinalizeOrder, Ends
  <2>6. at' \in [Reconcilers -> Stages] /\ read' \in [Reconcilers -> RowSeen] /\ heard' \in [Reconcilers -> Heard]
    BY <2>5, <1>t, <1>n, RestsAfter DEF Goes
  <2>7. RowsInOrder'
    BY <2>2, <2>3, <2>4, <2>5, <2>6 DEF ReconcilerInv, RowsInOrder
  <2> QED  BY <2>1, <2>5, <2>7 DEF ReconcilerInv, VerdictsStand, SettledFromChain, Matches
<1>14. CASE RoundFails(w)
  BY <1>14, <1>t, <1>n, RestTyped DEF RoundFails, Ends
<1>15. CASE ReleaseClaim(w)
  <2>1. order' \in OrderRow
    BY <1>15, <1>t DEF ReleaseClaim, OrderRow
  <2> QED  BY <1>15, <2>1, <1>t, <1>n, RestTyped DEF ReleaseClaim, GoesToRest
<1> QED
  BY <1>1, <1>2, <1>3, <1>4, <1>5, <1>6, <1>7, <1>8, <1>9, <1>10, <1>11, <1>12, <1>13, <1>14, <1>15
  DEF ReconcilerStep

LEMMA ReconcilerKeeps == ReconcilerInv /\ [ReconcilerNext]_reconcilerVars => ReconcilerInv'
<1> SUFFICES ASSUME ReconcilerInv, [ReconcilerNext]_reconcilerVars PROVE ReconcilerInv'
  OBVIOUS
<1> USE DEF ReconcilerInv
<1>1. CASE UNCHANGED reconcilerVars
  BY <1>1 DEF RowsInOrder, VerdictsStand, SettledFromChain, Matches, reconcilerVars
<1>2. CASE ClaimLapses
  <2>1. order' \in OrderRow
    BY <1>2 DEF ClaimLapses, OrderRow, RowsInOrder
  <2>2. UNCHANGED <<sort, attempt, booked, remaining, tx, at, read, heard, mishaps>>
    BY <1>2 DEF ClaimLapses
  <2> QED  BY <2>1, <2>2 DEF RowsInOrder, VerdictsStand, SettledFromChain, Matches
<1>3. CASE ReconcilerCrashes
  <2>1. at' \in [Reconcilers -> Stages]
    BY <1>3 DEF ReconcilerCrashes, Stages
  <2>2. read' \in [Reconcilers -> RowSeen] /\ heard' \in [Reconcilers -> Heard]
    BY <1>3 DEF ReconcilerCrashes, NoRow, Nothing, NoHash, RowSeen, Heard
  <2>3. UNCHANGED <<sort, order, attempt, booked, remaining, tx>>
    BY <1>3 DEF ReconcilerCrashes
  <2>4. VerdictsStand'
    BY <1>3 DEF ReconcilerCrashes, VerdictsStand
  <2> QED  BY <2>1, <2>2, <2>3, <2>4 DEF RowsInOrder, SettledFromChain, Matches
<1>4. CASE ChainMoves
  <2>1. UNCHANGED <<sort, order, attempt, booked, remaining, at, read, heard, mishaps>> /\ tx.state # "final"
    BY <1>4 DEF ChainMoves
  <2>2. tx' \in [hash : Nat, state : {"pool", "final", "reverted", "gone"}]
    BY <1>4 DEF ChainMoves, RowsInOrder
  <2> QED  BY <2>1, <2>2 DEF RowsInOrder, VerdictsStand, SettledFromChain, Matches
<1> QED  BY <1>1, <1>2, <1>3, <1>4, ReconcilerStepKeeps DEF ReconcilerNext

LEMMA ReconcilerTypes == ReconcilerInv => ReconcilerTypeOK
BY DEF ReconcilerInv, RowsInOrder, OrderRow, ReconcilerTypeOK

(* What the reconciler keeps of an order has its type.                     *)
THEOREM ReconcilerTyped == ReconcilerSpec => []ReconcilerTypeOK
BY ReconcilerTypes, ReconcilerInitSound, ReconcilerKeeps, PTL DEF ReconcilerSpec

(* An order is booked only when its transaction is final on the chain with *)
(* the amounts that were asked for, for any number of hot timers, any      *)
(* crashes, and whatever the provider says.                                *)
THEOREM SettledOnProof == ReconcilerSpec => []SettledFromChain
<1>1. ReconcilerInv => SettledFromChain
  BY DEF ReconcilerInv
<1> QED  BY <1>1, ReconcilerInitSound, ReconcilerKeeps, PTL DEF ReconcilerSpec

-----------------------------------------------------------------------------
(* The services together.                                                  *)

(* Each group keeps its invariant in every scene: the engine whatever the  *)
(* approval says, the approval whether the engine is stopped or runs.      *)
ServicesInv ==
    /\ scene \in Scenes
    /\ ApprovalInv /\ EngineInv /\ QueueInv /\ QueueNoted
    /\ DynamicInv /\ UsageInv /\ JobsWhole
    /\ ReconcilerInv

LEMMA ServicesInitSound == ServicesInit => ServicesInv
<1> SUFFICES ASSUME ServicesInit PROVE ServicesInv
  OBVIOUS
<1>1. scene \in Scenes /\ ApprovalInit(scene # "approval") /\ (scene # "approval") \in BOOLEAN
  BY DEF ServicesInit
<1>2. ApprovalInv
  BY <1>1, ApprovalInitSound
<1>3. EngineInv
  BY EngineInitSound, RunningSound DEF ServicesInit
<1>4. QueueInv /\ QueueNoted
  BY QueueInitSound, NotedAtFirst DEF ServicesInit
<1>5. DynamicInit \/ SpendingInit(Meant)
  BY DEF ServicesInit
<1>6. DynamicInv /\ UsageInv /\ JobsWhole
  BY <1>5, DynamicInitSound, UsageInitSound, SpendingInitSound, JobsAtFirst
<1>7. ReconcilerInv
  BY ReconcilerInitSound DEF ServicesInit
<1> QED  BY <1>1, <1>2, <1>3, <1>4, <1>6, <1>7 DEF ServicesInv

LEMMA ApprovalStays == ApprovalInv /\ UNCHANGED approvalVars => ApprovalInv'
BY DEF ApprovalInv, ApprovalRows, approvalVars

LEMMA QueueStays == QueueInv /\ QueueNoted /\ UNCHANGED queueVars => QueueInv' /\ QueueNoted'
<1> SUFFICES ASSUME QueueInv, QueueNoted, UNCHANGED queueVars PROVE QueueInv' /\ QueueNoted'
  OBVIOUS
<1>1. QueueInv'
  BY DEF queueVars, QueueInv
<1>2. QueueNoted'
  BY DEF queueVars, QueueNoted, Noted
<1> QED  BY <1>1, <1>2

LEMMA ServicesStepsSound ==
    ASSUME ServicesInv, [ServicesNext]_liveServicesVars
    PROVE  /\ ServicesInv'
           /\ [\E stopped, running \in BOOLEAN : ApprovalStep(stopped, running)]_approvalVars
           /\ [LiveQueueNext]_<<engineVars, queueVars>> \/ UNCHANGED queueVars
           /\ [ReconcilerNext]_reconcilerVars
<1> USE DEF ServicesInv
<1>1. scene' = scene
  BY DEF ServicesNext, liveServicesVars
<1>2. CASE UNCHANGED <<liveVars, dynamicVars>> /\ [ReconcilerNext]_reconcilerVars
  <2>1. UNCHANGED approvalVars /\ UNCHANGED engineVars /\ UNCHANGED queueVars /\ UNCHANGED dynamicVars
    BY <1>2 DEF liveVars
  <2>2. EngineInv'
    BY <2>1, EngineKeeps
  <2>3. DynamicInv' /\ UsageInv' /\ JobsWhole'
    BY <2>1, DynamicKeeps
  <2> QED  BY <1>1, <1>2, <2>1, <2>2, <2>3, ApprovalStays, QueueStays, ReconcilerKeeps
<1>3. CASE [DynamicNext]_dynamicVars /\ UNCHANGED <<liveVars, reconcilerVars>>
  <2>1. UNCHANGED approvalVars /\ UNCHANGED engineVars /\ UNCHANGED queueVars /\ UNCHANGED reconcilerVars
    BY <1>3 DEF liveVars
  <2>2. EngineInv'
    BY <2>1, EngineKeeps
  <2>3. DynamicInv' /\ UsageInv' /\ JobsWhole'
    BY <1>3, DynamicKeeps
  <2> QED  BY <1>1, <2>1, <2>2, <2>3, ApprovalStays, QueueStays, ReconcilerKeeps
<1>4. ASSUME UNCHANGED <<dynamicVars, reconcilerVars>>
      PROVE  DynamicInv' /\ UsageInv' /\ JobsWhole' /\ ReconcilerInv' /\ UNCHANGED reconcilerVars
  <2>1. UNCHANGED dynamicVars /\ UNCHANGED reconcilerVars
    BY <1>4
  <2> QED  BY <2>1, DynamicKeeps, ReconcilerKeeps
<1>5. CASE ApprovalScene /\ UNCHANGED <<dynamicVars, reconcilerVars>>
  <2>1. UNCHANGED queueVars
    BY <1>5 DEF ApprovalScene
  <2>2. CASE ApprovalStep(control.status = "stopped", armed) /\ UNCHANGED engineVars
    <3>1. PICK stopped \in BOOLEAN, running \in BOOLEAN : ApprovalStep(stopped, running)
      <4>1. (control.status = "stopped") \in BOOLEAN /\ armed \in BOOLEAN
        BY DEF EngineInv, EngineRows
      <4> QED  BY <2>2, <4>1
    <3>2. ApprovalInv'
      BY <3>1, ApprovalStepSound
    <3>3. EngineInv'
      BY <2>2, EngineKeeps
    <3> QED  BY <1>1, <1>4, <1>5, <2>1, <3>1, <3>2, <3>3, QueueStays
  <2>3. CASE (EngineStep \/ Sweep("confirm")) /\ UNCHANGED approvalVars
    <3>1. LiveEngineNext
      BY <2>3 DEF LiveEngineNext, Callers, Operators
    <3>2. EngineInv'
      BY <3>1, EngineKeeps
    <3> QED  BY <1>1, <1>4, <1>5, <2>1, <2>3, <3>2, ApprovalStays, QueueStays
  <2> QED  BY <1>5, <2>2, <2>3 DEF ApprovalScene
<1>6. CASE EngineScene /\ UNCHANGED <<dynamicVars, reconcilerVars>>
  <2>1. LiveEngineNext /\ UNCHANGED approvalVars /\ UNCHANGED queueVars
    BY <1>6 DEF EngineScene
  <2>2. EngineInv'
    BY <2>1, EngineKeeps
  <2> QED  BY <1>1, <1>4, <1>6, <2>1, <2>2, ApprovalStays, QueueStays
<1>7. CASE QueueScene /\ UNCHANGED <<dynamicVars, reconcilerVars>>
  <2>1. LiveQueueNext /\ UNCHANGED approvalVars
    BY <1>7 DEF QueueScene
  <2>2. EngineInv' /\ QueueInv' /\ QueueNoted'
    BY <2>1, LiveQueueKeeps, QueueStaysNoted
  <2> QED  BY <1>1, <1>4, <1>7, <2>1, <2>2, ApprovalStays
<1>8. CASE UNCHANGED liveServicesVars
  <2>1. UNCHANGED liveVars /\ UNCHANGED dynamicVars /\ UNCHANGED reconcilerVars
    BY <1>8 DEF liveServicesVars
  <2> QED  BY <1>2, <2>1
<1>9. CASE DynamicScene /\ UNCHANGED <<liveVars, reconcilerVars>>
  BY <1>3, <1>9 DEF DynamicScene, DynamicNext
<1>10. CASE ReconcilerNext /\ UNCHANGED <<liveVars, dynamicVars>>
  BY <1>2, <1>10
<1> QED  BY <1>5, <1>6, <1>7, <1>8, <1>9, <1>10 DEF ServicesNext

LEMMA ServicesSound == LiveServicesSpec => []ServicesInv
<1>1. ServicesInv /\ [ServicesNext]_liveServicesVars => ServicesInv'
  BY ServicesStepsSound
<1> QED  BY <1>1, ServicesInitSound, PTL DEF LiveServicesSpec

(* What each of the services keeps has its type, in every scene.           *)
THEOREM LiveServicesTyped == LiveServicesSpec => []LiveServicesTypeOK
<1>1. ServicesInv => LiveServicesTypeOK
  <2> SUFFICES ASSUME ServicesInv PROVE LiveServicesTypeOK
    OBVIOUS
  <2>1. ApprovalTypeOK /\ EngineTypeOK /\ QueueTypeOK
    BY ApprovalTypes, EngineTypes, QueueTypes DEF ServicesInv
  <2>2. DynamicTypeOK /\ ReconcilerTypeOK
    BY DynamicTypes, ReconcilerTypes DEF ServicesInv
  <2> QED  BY <2>1, <2>2 DEF ServicesInv, LiveServicesTypeOK
<1> QED  BY <1>1, ServicesSound, PTL

(* The approval and the reconciler, each seen by itself, do what their own *)
(* specifications allow.                                                   *)
THEOREM LiveServicesFollowParts == LiveServicesSpec => ApprovalSpec /\ ReconcilerSpec
<1>1. ServicesInit => (\E approved \in BOOLEAN : ApprovalInit(approved)) /\ ReconcilerInit
  BY DEF ServicesInit
<1>2. ServicesInv /\ [ServicesNext]_liveServicesVars
        => /\ [\E stopped, running \in BOOLEAN : ApprovalStep(stopped, running)]_approvalVars
           /\ [ReconcilerNext]_reconcilerVars
  BY ServicesStepsSound
<1> QED  BY <1>1, <1>2, ServicesSound, PTL DEF LiveServicesSpec, ApprovalSpec, ReconcilerSpec

(* The services together keep what each promises: an approval is earned,   *)
(* the engine is on as confirmed, a stop holds, a signal is bought once and*)
(* not after a stop, dynamic signals are of the policy as it is, the days  *)
(* add up, and an order is settled from the chain.                         *)
THEOREM LiveServicesKeepPromises ==
    LiveServicesSpec =>
        /\ []ApprovalEarned /\ []ArmedAsConfirmed /\ []StopHolds /\ BuyJustified
        /\ []TargetsJustified /\ []UsageAccounted /\ []SettledFromChain
<1>1. ServicesInv => ApprovalEarned /\ ArmedAsConfirmed /\ StopHolds
  BY DEF ServicesInv, ApprovalInv, ApprovalEarned, EngineInv, EngineStands, ArmedAsConfirmed, StopHolds
<1>2. ServicesInv => TargetsJustified /\ UsageAccounted /\ SettledFromChain
  BY JustifiedNow, AccountedNow DEF ServicesInv, ReconcilerInv
<1>3. ServicesInv /\ [ServicesNext]_liveServicesVars
        => [\A s \in Signals : bought'[s] # bought[s] => bought[s] = 0 /\ ~revoked]_bought
  <2> SUFFICES ASSUME ServicesInv, [ServicesNext]_liveServicesVars
               PROVE  [\A s \in Signals : bought'[s] # bought[s] => bought[s] = 0 /\ ~revoked]_bought
    OBVIOUS
  <2>1. [LiveQueueNext]_<<engineVars, queueVars>> \/ UNCHANGED queueVars
    BY ServicesStepsSound
  <2>2. CASE UNCHANGED queueVars
    BY <2>2 DEF queueVars
  <2> QED  BY <2>1, <2>2, BuysJustified DEF ServicesInv
<1> QED  BY <1>1, <1>2, <1>3, ServicesSound, PTL DEF LiveServicesSpec, BuyJustified
=============================================================================
