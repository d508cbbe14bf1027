---------------------------- MODULE DynamicSignals ----------------------------
(***************************************************************************)
(* Dynamic signals: a policy of an account (policy-service.js) turns its   *)
(* posts into jobs (event-queue.js).  Workers claim a job for a lease,     *)
(* find the token it means and commit resolution, target and signal        *)
(* together (event-worker.js, resolution-store.js,                         *)
(* dynamic-target-service.js).  A token that is not found yet gets a       *)
(* launch window, which puts the job back once the token is listed         *)
(* (dynamic-launch-window.js).  A live signal reserves a share of the      *)
(* policy's day before it buys (dynamic-authorization.js).                 *)
(*                                                                         *)
(* One policy.  A configuration is [mode, enabled, chains, types, aliases, *)
(* perTrade, daily, newTokens, buys].  Posts are of event types the policy *)
(* allows.                                                                 *)
(***************************************************************************)
EXTENDS CandidateResolution, Totals

CONSTANTS
    Posts,              \* [id, event, language, terms, platforms]
    Configurations,
    Resolvers,          \* processes that run DynamicSignalWorker
    Answers,            \* Tokens -> what the provider may say: see Verified
    JobTries,           \* code: 3
    MaxRevisions, MaxDay, MaxLapses

ASSUME DynamicAssumption ==
    /\ JobTries \in Nat \ {0} /\ MaxRevisions \in Nat \ {0}
    /\ MaxDay \in Nat \ {0} /\ MaxLapses \in Nat
    /\ IsFiniteSet(Posts)
    /\ \A g \in Configurations :
          /\ DOMAIN g = {"mode", "enabled", "chains", "types", "aliases",
                         "perTrade", "daily", "newTokens", "buys"}
          /\ {g.perTrade, g.daily} \subseteq Nat

VARIABLES
    policy,             \* x_actor_dynamic_policies: [revision, config]
    jobs,               \* dynamic_signal_jobs, one for each post
    windows,            \* dynamic_launch_windows, one for each job
    known,              \* dynamic_asset_variants and their index
    resolver,           \* what the workers are at
    lister,             \* what the window worker is at
    targets,            \* dynamic_targets, with the system row of each
    dsignals,           \* trade_signals of type dynamic_keyword
    evaluations,        \* dynamic_paper_evaluations: [revision, token]
    usage,              \* dynamic_policy_usage_events, one for each signal
    daily,              \* dynamic_policy_usage_daily_by_chain
    today,
    holdings,           \* tokens with a live position
    lapses

jobVars == <<policy, jobs, windows, known, resolver, lister, lapses>>
tradeVars == <<usage, daily, today, holdings>>
dynamicVars == <<policy, jobs, windows, known, resolver, lister, targets, dsignals, evaluations,
                 usage, daily, today, holdings, lapses>>

Chains == {k.chain : k \in Tokens}
NoJob == [status |-> "none", revision |-> 0, mode |-> "none", tries |-> 0, holder |-> "none", leased |-> FALSE]
NoPost == [id |-> 0]
AtRestNow == [at |-> "idle", post |-> NoPost, config |-> [mode |-> "none"], result |-> [status |-> "none"]]

NothingSpent ==
    /\ evaluations = {} /\ lapses = 0
    /\ usage = [p \in Posts |-> [status |-> "none", day |-> 0, amount |-> 0, counts |-> FALSE]]
    /\ daily = [d \in 1..MaxDay |-> [c \in Chains |-> [reserved |-> 0, spent |-> 0, tokens |-> 0]]]
    /\ today = 1 /\ holdings = {}

DynamicInit ==
    /\ policy \in {[revision |-> 1, config |-> c] : c \in Configurations}
    /\ jobs = [p \in Posts |-> NoJob]
    /\ windows = [p \in Posts |-> [status |-> "none", tries |-> 0, leased |-> FALSE]]
    /\ known = [k \in Tokens |-> "absent"]
    /\ resolver = [w \in Resolvers |-> AtRestNow]
    /\ lister = [at |-> "idle", post |-> NoPost]
    /\ targets = [k \in Tokens |-> [status |-> "none", revision |-> 0]]
    /\ dsignals = [p \in Posts |-> [status |-> "none", revision |-> 0, token |-> None, mode |-> "none"]]
    /\ NothingSpent

(* Later: the posts of Meant have been resolved, their signals are out.    *)
SpendingInit(Meant) ==
    /\ policy \in {[revision |-> 1, config |-> c] : c \in {g \in Configurations : g.mode = "live" /\ g.enabled}}
    /\ jobs = [p \in Posts |-> [NoJob EXCEPT !.status = "resolved", !.revision = 1, !.mode = "live", !.tries = 1]]
    /\ windows = [p \in Posts |-> [status |-> "none", tries |-> 0, leased |-> FALSE]]
    /\ known = [k \in Tokens |-> "absent"]
    /\ resolver = [w \in Resolvers |-> AtRestNow]
    /\ lister = [at |-> "idle", post |-> NoPost]
    /\ targets = [k \in Tokens |-> [status |-> IF \E p \in Posts : Meant[p] = k THEN "active" ELSE "none",
                                     revision |-> IF \E p \in Posts : Meant[p] = k THEN 1 ELSE 0]]
    /\ dsignals = [p \in Posts |-> [status |-> "recorded", revision |-> 1, token |-> Meant[p], mode |-> "live"]]
    /\ NothingSpent

InPlay == {"recorded", "approved"}

-----------------------------------------------------------------------------
(* The policy.  A new revision takes back what older ones have under way.  *)

(* Slip: only the jobs are taken back.                                     *)
SupersedeJobsOnly(revision, closeWindows) ==
    /\ jobs' = [p \in Posts |-> IF jobs[p].status \in {"pending", "processing"} /\ jobs[p].revision # revision
                                THEN [jobs[p] EXCEPT !.status = "cancelled", !.leased = FALSE] ELSE jobs[p]]
    /\ windows' = [p \in Posts |-> IF closeWindows /\ windows[p].status \in {"pending", "processing"}
                                   THEN [windows[p] EXCEPT !.status = "failed", !.leased = FALSE] ELSE windows[p]]
    /\ UNCHANGED <<dsignals, targets>>

Supersede(revision, closeWindows) ==
    /\ jobs' = [p \in Posts |-> IF jobs[p].status \in {"pending", "processing"} /\ jobs[p].revision # revision
                                THEN [jobs[p] EXCEPT !.status = "cancelled", !.leased = FALSE] ELSE jobs[p]]
    /\ windows' = [p \in Posts |-> IF closeWindows /\ windows[p].status \in {"pending", "processing"}
                                   THEN [windows[p] EXCEPT !.status = "failed", !.leased = FALSE] ELSE windows[p]]
    /\ dsignals' = [p \in Posts |-> IF dsignals[p].status \in InPlay /\ dsignals[p].revision # revision
                                    THEN [dsignals[p] EXCEPT !.status = "signal_only"] ELSE dsignals[p]]
    /\ targets' = [k \in Tokens |-> IF targets[k].status = "active" /\ targets[k].revision # revision
                                    THEN [targets[k] EXCEPT !.status = "paused"] ELSE targets[k]]

(* upsert: the same settings again are no new revision.                    *)
UpsertPolicy(c) ==
    /\ policy.revision < MaxRevisions /\ c # policy.config
    /\ policy' = [revision |-> policy.revision + 1, config |-> c]
    /\ Supersede(policy.revision + 1, TRUE)
    /\ UNCHANGED <<known, resolver, lister, evaluations, lapses, tradeVars>>

(* remove leaves the launch windows alone.                                 *)
RemovePolicy ==
    /\ policy.revision < MaxRevisions
    /\ policy' = [revision |-> policy.revision + 1,
                  config |-> [policy.config EXCEPT !.mode = "paused", !.enabled = FALSE]]
    /\ Supersede(policy.revision + 1, FALSE)
    /\ UNCHANGED <<known, resolver, lister, evaluations, lapses, tradeVars>>

-----------------------------------------------------------------------------
(* Jobs.                                                                   *)

EnqueueForActivity(p) ==
    /\ jobs[p].status = "none"
    /\ policy.config.enabled /\ policy.config.mode # "paused"
    /\ jobs' = [jobs EXCEPT ![p] = [NoJob EXCEPT !.status = "pending", !.revision = policy.revision,
                                                 !.mode = policy.config.mode]]
    /\ UNCHANGED <<policy, windows, known, resolver, lister, targets, dsignals, evaluations, lapses, tradeVars>>

TakesJob(w, p) ==
    /\ jobs' = [jobs EXCEPT ![p] = [jobs[p] EXCEPT !.status = "processing",
                                                    !.tries = jobs[p].tries + 1,
                                                    !.holder = w, !.leased = TRUE]]
    /\ resolver' = [resolver EXCEPT ![w] = [AtRestNow EXCEPT !.at = "claimed", !.post = p]]
    /\ UNCHANGED <<policy, windows, known, lister, targets, dsignals, evaluations, lapses, tradeVars>>

(* Slip: a job whose lease has lapsed stays with its worker.               *)
ClaimPendingOnly(w, p) ==
    /\ resolver[w].at = "idle" /\ jobs[p].status = "pending"
    /\ TakesJob(w, p)

ClaimNext(w, p) ==
    /\ resolver[w].at = "idle"
    /\ jobs[p].status = "pending" \/ (jobs[p].status = "processing" /\ ~jobs[p].leased)
    /\ TakesJob(w, p)

Owned(w, p) == jobs[p].status = "processing" /\ jobs[p].holder = w
Rests(w) == resolver' = [resolver EXCEPT ![w] = AtRestNow]

(* loadContext: the job of another revision or mode is cancelled.          *)
OutOfDate(p) ==
    ~policy.config.enabled \/ jobs[p].revision # policy.revision \/ jobs[p].mode # policy.config.mode

CancelJob(w) ==
    LET p == resolver[w].post IN
    /\ resolver[w].at = "claimed" /\ OutOfDate(p)
    /\ Rests(w)
    /\ jobs' = IF Owned(w, p) THEN [jobs EXCEPT ![p].status = "cancelled", ![p].leased = FALSE] ELSE jobs
    /\ UNCHANGED <<policy, windows, known, lister, targets, dsignals, evaluations, lapses, tradeVars>>

(* Otherwise the index is read, the provider asked, the choice written back*)
(* to the index; all with the settings the context was loaded with.        *)
ResolveJob(w) ==
    LET p == resolver[w].post IN
    /\ resolver[w].at = "claimed" /\ ~OutOfDate(p)
    /\ \E answers \in {f \in [Tokens -> UNION {Answers[k] : k \in Tokens}] :
                         \A k \in Tokens : f[k] \in Answers[k]} :
          LET result == Resolve(p, policy.config, known, answers) IN
          /\ resolver' = [resolver EXCEPT ![w] = [at |-> "resolved", post |-> p, config |-> policy.config,
                                                  result |-> result]]
          /\ known' = IF result.status = "resolved" THEN [known EXCEPT ![result.token] = "tradable"] ELSE known
    /\ UNCHANGED <<policy, jobs, windows, lister, targets, dsignals, evaluations, lapses, tradeVars>>

(* The transaction.  The job must still be under lease; materialize wants  *)
(* the policy as it was.                                                   *)
MayPersist(w) ==
    LET p == resolver[w].post IN
    /\ Owned(w, p) /\ jobs[p].leased
    /\ resolver[w].result.status = "resolved" /\ jobs[p].mode \in {"paper", "live"}
       => policy.config.enabled /\ policy.revision = jobs[p].revision /\ policy.config = resolver[w].config

AuthorNames(p, config) == \E t \in AuthorTerms(p, config.aliases) : t.type # "ca"

MaterializeTarget(p, result) ==
    LET token == result.token
        mode == jobs[p].mode
        new == dsignals[p].status = "none"
    IN
    /\ targets' = [targets EXCEPT ![token] = [status |-> "active", revision |-> policy.revision]]
    /\ dsignals' = IF new
                   THEN [dsignals EXCEPT ![p] = [status |-> "recorded", revision |-> policy.revision,
                                                 token |-> token, mode |-> mode]]
                   ELSE dsignals
    /\ evaluations' = IF new /\ mode = "paper"
                      THEN evaluations \cup {[revision |-> policy.revision, token |-> token]}
                      ELSE evaluations

PersistResolution(w) ==
    LET p == resolver[w].post
        result == resolver[w].result
    IN
    /\ resolver[w].at = "resolved" /\ MayPersist(w)
    /\ jobs' = [jobs EXCEPT ![p].status = IF result.status = "resolved" THEN "resolved" ELSE "rejected",
                            ![p].leased = FALSE]
    /\ windows' = IF result.status = "not_found" /\ windows[p].status = "none" /\ AuthorNames(p, resolver[w].config)
                  THEN [windows EXCEPT ![p].status = "pending"] ELSE windows
    /\ IF result.status = "resolved" /\ jobs[p].mode \in {"paper", "live"}
       THEN MaterializeTarget(p, result)
       ELSE UNCHANGED <<targets, dsignals, evaluations>>
    /\ Rests(w)
    /\ UNCHANGED <<policy, known, lister, lapses, tradeVars>>

(* fail: the job is tried again, two times.  A refused transaction, an     *)
(* error of the database or the provider.                                  *)
ResolverFails(w) ==
    LET p == resolver[w].post IN
    /\ resolver[w].at # "idle"
    /\ Rests(w)
    /\ jobs' = IF Owned(w, p)
               THEN [jobs EXCEPT ![p].status = IF jobs[p].tries < JobTries THEN "pending" ELSE "failed",
                                 ![p].leased = FALSE]
               ELSE jobs
    /\ UNCHANGED <<policy, windows, known, lister, targets, dsignals, evaluations, lapses, tradeVars>>

(* The lease is not renewed in time, or the process is gone.               *)
Working(p) == \E w \in Resolvers : resolver[w].at # "idle" /\ resolver[w].post = p /\ jobs[p].holder = w

LeaseLapses(p) ==
    /\ jobs[p].status = "processing" /\ jobs[p].leased
    /\ IF Working(p) THEN lapses < MaxLapses /\ lapses' = lapses + 1 ELSE UNCHANGED lapses
    /\ jobs' = [jobs EXCEPT ![p].leased = FALSE]
    /\ UNCHANGED <<policy, windows, known, resolver, lister, targets, dsignals, evaluations, tradeVars>>

ResolverDies(w) ==
    /\ resolver[w].at # "idle" /\ lapses < MaxLapses
    /\ lapses' = lapses + 1
    /\ Rests(w)
    /\ UNCHANGED <<policy, jobs, windows, known, lister, targets, dsignals, evaluations, tradeVars>>

-----------------------------------------------------------------------------
(* Launch windows.                                                         *)

WindowRests == lister' = [at |-> "idle", post |-> NoPost]

ClaimWindow(p) ==
    /\ lister.at = "idle" /\ jobs[p].status = "rejected"
    /\ windows[p].status = "pending" \/ (windows[p].status = "processing" /\ ~windows[p].leased)
    /\ windows' = [windows EXCEPT ![p] = [status |-> "processing", leased |-> TRUE,
                                          tries |-> IF @.tries < JobTries THEN @.tries + 1 ELSE @.tries]]
    /\ lister' = [at |-> "claimed", post |-> p]
    /\ UNCHANGED <<policy, jobs, known, resolver, targets, dsignals, evaluations, lapses, tradeVars>>

HoldsWindow(p) == windows[p].status = "processing" /\ windows[p].leased

(* fetchTrenches for each chain: the listings overwrite what was known of a*)
(* token.  Then all names of the author are looked up, whatever types the  *)
(* policy allows.                                                          *)
SearchWindow ==
    LET p == lister.post
        chains == policy.config.chains
        names == AuthorTerms(p, policy.config.aliases)
    IN
    /\ lister.at = "claimed" /\ HoldsWindow(p)
    /\ \E listed \in SUBSET {k \in Tokens : k.chain \in chains} :
          LET now == [k \in Tokens |-> IF k \in listed THEN "listed" ELSE known[k]]
              found == LookedUp(names, now, chains) # {}
          IN
          /\ known' = now
          /\ windows' = [windows EXCEPT ![p].status = IF found THEN "resolved" ELSE "pending", ![p].leased = FALSE]
          /\ IF found THEN lister' = [lister EXCEPT !.at = "found"] ELSE WindowRests
    /\ UNCHANGED <<policy, jobs, resolver, targets, dsignals, evaluations, lapses, tradeVars>>

RequeueJob ==
    LET p == lister.post IN
    /\ lister.at = "found"
    /\ jobs' = IF jobs[p].status = "rejected" /\ windows[p].status = "resolved"
               THEN [jobs EXCEPT ![p].status = "pending"] ELSE jobs
    /\ WindowRests
    /\ UNCHANGED <<policy, windows, known, resolver, targets, dsignals, evaluations, lapses, tradeVars>>

WindowFails ==
    LET p == lister.post IN
    /\ lister.at = "claimed"
    /\ windows' = IF HoldsWindow(p)
                  THEN [windows EXCEPT ![p].status = IF windows[p].tries >= JobTries THEN "failed" ELSE "pending",
                                       ![p].leased = FALSE]
                  ELSE windows
    /\ WindowRests
    /\ UNCHANGED <<policy, jobs, known, resolver, targets, dsignals, evaluations, lapses, tradeVars>>

WindowExpires(p) ==
    /\ lister.at = "idle" /\ windows[p].status \in {"pending", "processing"}
    /\ windows' = [windows EXCEPT ![p].status = "expired", ![p].leased = FALSE]
    /\ UNCHANGED <<policy, jobs, known, resolver, lister, targets, dsignals, evaluations, lapses, tradeVars>>

ListerDies ==
    /\ lister.at # "idle" /\ lapses < MaxLapses
    /\ lapses' = lapses + 1
    /\ WindowRests
    /\ windows' = [windows EXCEPT ![lister.post].leased = FALSE]
    /\ UNCHANGED <<policy, jobs, known, resolver, targets, dsignals, evaluations, tradeVars>>

IndexExpires(k) ==
    /\ known[k] # "absent"
    /\ known' = [known EXCEPT ![k] = "absent"]
    /\ UNCHANGED <<policy, jobs, windows, resolver, lister, targets, dsignals, evaluations, lapses, tradeVars>>

-----------------------------------------------------------------------------
(* The day of a policy.                                                    *)

Used(d, k) == {p \in Posts : usage[p].status \in {"reserved", "committed"} /\ usage[p].day = d
                             /\ dsignals[p].token = k}
Buys(k) == UNION {Used(d, k) : d \in 1..MaxDay}

(* evaluateSignal                                                          *)
Authorized(p) ==
    LET s == dsignals[p]
        c == policy.config
        day == daily[today][s.token.chain]
    IN
    /\ c.enabled /\ c.mode = "live" /\ s.revision = policy.revision
    /\ targets[s.token] = [status |-> "active", revision |-> policy.revision]
    /\ s.token \notin holdings
    /\ Cardinality(Buys(s.token)) < c.buys
    /\ Used(today, s.token) # {} \/ day.tokens < c.newTokens
    /\ day.spent + day.reserved + c.perTrade <= c.daily

(* reserveUsage, under the lock of the policy.                             *)
ReserveUsage(p) ==
    LET chain == dsignals[p].token.chain
        counts == Used(today, dsignals[p].token) = {}
    IN
    /\ dsignals[p].status = "recorded" /\ dsignals[p].mode = "live" /\ Authorized(p)
    /\ dsignals' = [dsignals EXCEPT ![p].status = "approved"]
    /\ usage' = [usage EXCEPT ![p] = [status |-> "reserved", day |-> today,
                                      amount |-> policy.config.perTrade, counts |-> counts]]
    /\ daily' = [daily EXCEPT ![today][chain] = [reserved |-> @.reserved + policy.config.perTrade,
                                                 spent |-> @.spent,
                                                 tokens |-> IF counts THEN @.tokens + 1 ELSE @.tokens]]
    /\ UNCHANGED <<jobVars, targets, evaluations, today, holdings>>

(* A signal that may not buy is given up.                                  *)
RefuseSignal(p) ==
    /\ dsignals[p].status = "recorded" /\ dsignals[p].mode = "live" /\ ~Authorized(p)
    /\ dsignals' = [dsignals EXCEPT ![p].status = "signal_only"]
    /\ UNCHANGED <<jobVars, tradeVars, targets, evaluations>>

SettledDay(row, u, status) ==
    [reserved |-> IF row.reserved > u.amount THEN row.reserved - u.amount ELSE 0,
     spent |-> IF status = "committed" THEN row.spent + u.amount ELSE row.spent,
     tokens |-> IF status = "released" /\ u.counts /\ row.tokens > 0 THEN row.tokens - 1 ELSE row.tokens]

(* Slip: the day of the settlement is charged, not that of the reservation.*)
SettledToday(p, status) ==
    [daily EXCEPT ![today][dsignals[p].token.chain] = SettledDay(@, usage[p], status)]

Settled(p, status) ==
    [daily EXCEPT ![usage[p].day][dsignals[p].token.chain] = SettledDay(@, usage[p], status)]

(* settleUsage: the buy is booked, or it has come to nothing.              *)
SettleUsage(p, status) ==
    /\ usage[p].status = "reserved"
    /\ usage' = [usage EXCEPT ![p].status = status]
    /\ daily' = Settled(p, status)
    /\ holdings' = IF status = "committed" THEN holdings \cup {dsignals[p].token} ELSE holdings
    /\ dsignals' = [dsignals EXCEPT ![p].status = IF status = "committed" THEN "executed"
                                                  ELSE IF @ = "approved" THEN "failed" ELSE @]
    /\ UNCHANGED <<jobVars, targets, evaluations, today>>

HoldingSold(k) ==
    /\ k \in holdings /\ holdings' = holdings \ {k}
    /\ UNCHANGED <<jobVars, targets, dsignals, evaluations, usage, daily, today>>

NextDay ==
    /\ today < MaxDay /\ today' = today + 1
    /\ UNCHANGED <<jobVars, targets, dsignals, evaluations, usage, daily, holdings>>

-----------------------------------------------------------------------------
ResolverStep(w) ==
    \/ CancelJob(w) \/ ResolveJob(w) \/ PersistResolution(w) \/ ResolverFails(w)
    \/ \E p \in Posts : ClaimNext(w, p)
ListerStep ==
    \/ SearchWindow \/ RequeueJob \/ WindowFails
    \/ \E p \in Posts : ClaimWindow(p)

PolicyStep == RemovePolicy \/ \E c \in Configurations : UpsertPolicy(c)

ResolutionStep ==
    \/ \E p \in Posts : EnqueueForActivity(p) \/ LeaseLapses(p) \/ WindowExpires(p)
    \/ \E w \in Resolvers : ResolverStep(w) \/ ResolverDies(w)
    \/ ListerStep \/ ListerDies
    \/ \E k \in Tokens : IndexExpires(k)

SpendingStep ==
    \/ \E p \in Posts : ReserveUsage(p) \/ RefuseSignal(p)
    \/ \E p \in Posts, status \in {"committed", "released"} : SettleUsage(p, status)
    \/ \E k \in Tokens : HoldingSold(k)
    \/ NextDay

DynamicNext == PolicyStep \/ ResolutionStep \/ SpendingStep
DynamicSpec == DynamicInit /\ [][DynamicNext]_dynamicVars

-----------------------------------------------------------------------------
DynamicTypeOK ==
    /\ policy.revision \in 1..MaxRevisions
    /\ \A p \in Posts : jobs[p].status \in {"none", "pending", "processing", "resolved", "rejected",
                                            "cancelled", "failed"}
    /\ \A k \in Tokens : targets[k].status \in {"none", "active", "paused"}
    /\ holdings \subseteq Tokens

(* A signal that may still buy, and a token that is open for buys, are of  *)
(* the policy as it is now: of its revision, on one of its chains, named by*)
(* the author in a way it allows, in a post without a word of warning.     *)
TargetsJustified ==
    /\ \A p \in {q \in Posts : dsignals[q].status \in InPlay} :
          LET s == dsignals[p] IN
          /\ s.revision = policy.revision /\ policy.config.enabled
          /\ targets[s.token] = [status |-> "active", revision |-> s.revision]
          /\ s.token.chain \in policy.config.chains
          /\ \E t \in p.terms : t.own /\ t.type \in policy.config.types /\ Names(t, s.token)
          /\ p.language \cap {"security", "negative", "sell"} = {}
    /\ \A k \in Tokens : targets[k].status = "active" => targets[k].revision = policy.revision

UsedOn(d, c, statuses) ==
    {p \in Posts : usage[p].status \in statuses /\ usage[p].day = d /\ dsignals[p].token.chain = c}
Amounts == [p \in Posts |-> usage[p].amount]

(* The day of a policy holds what its reservations and buys add up to, and *)
(* never more than a budget it was given, and no more new tokens than it   *)
(* holds: also when a buy is settled on a later day.                       *)
UsageAccounted ==
    \A d \in 1..MaxDay, c \in Chains :
        LET day == daily[d][c] IN
        /\ day.reserved = Total(Amounts, UsedOn(d, c, {"reserved"}))
        /\ day.spent = Total(Amounts, UsedOn(d, c, {"committed"}))
        /\ \E g \in Configurations : day.spent + day.reserved <= g.daily
        /\ day.tokens <= Cardinality({dsignals[p].token : p \in UsedOn(d, c, {"reserved", "committed"})})

(* A job is decided in the end, although workers die, leases lapse under a *)
(* worker that goes on, and the policy changes beneath it.                 *)
JobDecided == \A p \in Posts : []<>(jobs[p].status \notin {"pending", "processing"})
=============================================================================
