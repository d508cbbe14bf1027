------------------------------- MODULE FollowPoll -------------------------------
(***************************************************************************)
(* Who an account has started to follow, from a provider that only lists   *)
(* whom it follows, newest first and page by page (x-poll-follows.js).  The*)
(* first check of an account is its baseline: everybody on it is old news. *)
(* Later checks read pages until one holds somebody who is known, and      *)
(* report the rest.  A check that did not get that far reports nothing.    *)
(*                                                                         *)
(* One account.  The account follows and unfollows while a check is under  *)
(* way.  What a reported follow leads to is in SignalIntake.               *)
(***************************************************************************)
EXTENDS Naturals, Sequences, FiniteSets, FiniteSetsExt

CONSTANTS
    Followees,
    BaselineSize, BaselinePages,        \* a page, and the pages of a check (code: 200, 100)
    IncrementalSize, IncrementalPages,  \* (code: 20, 5)
    MaxFollows                          \* times somebody is followed

ASSUME FollowAssumption ==
    /\ IsFiniteSet(Followees)
    /\ {BaselineSize, BaselinePages, IncrementalSize, IncrementalPages} \subseteq Nat \ {0}
    /\ MaxFollows \in Nat \ {0, 1}

VARIABLES
    since,      \* Followees -> when the account followed them, 0 if it does not
    follows,    \* times somebody was followed: the clock
    unfollowed, \* history: whom the account has unfollowed
    refollowed, \* history: whether it followed one of them again
    based,      \* follow_baseline_completed_at is set
    known,      \* x_follow_seen
    reported,   \* the follow activities
    poll        \* run: [at, baseline, fetched, pages, cursor]

followVars == <<since, follows, unfollowed, refollowed, based, known, reported, poll>>

NoPoll == [at |-> "idle", baseline |-> FALSE, fetched |-> {}, pages |-> 0, cursor |-> 0]

FollowInit ==
    /\ since \in [Followees -> {0, 1, 2}]
    /\ \A u, v \in Followees : since[u] = since[v] /\ since[u] # 0 => u = v
    /\ follows = 2 /\ unfollowed = {} /\ refollowed = FALSE
    /\ based = FALSE /\ known = {} /\ reported = {}
    /\ poll = NoPoll

-----------------------------------------------------------------------------
(* The account.                                                            *)

Follow(u) ==
    /\ since[u] = 0 /\ follows < MaxFollows
    /\ follows' = follows + 1 /\ since' = [since EXCEPT ![u] = follows + 1]
    /\ refollowed' = (refollowed \/ u \in unfollowed)
    /\ UNCHANGED <<unfollowed, based, known, reported, poll>>

Unfollow(u) ==
    /\ since[u] # 0
    /\ since' = [since EXCEPT ![u] = 0] /\ unfollowed' = unfollowed \cup {u}
    /\ UNCHANGED <<follows, refollowed, based, known, reported, poll>>

-----------------------------------------------------------------------------
(* run: the account's row is read, then its lock taken.                    *)

BeginPoll ==
    /\ poll.at = "idle"
    /\ poll' = [NoPoll EXCEPT !.at = "fetching", !.baseline = ~based, !.cursor = follows + 1]
    /\ UNCHANGED <<since, follows, unfollowed, refollowed, based, known, reported>>

(* getUserFollowingPage: those followed before the last of the page before.*)
Older(cursor) == {u \in Followees : since[u] # 0 /\ since[u] < cursor}
Page(cursor, size) ==
    {u \in Older(cursor) : Cardinality({v \in Older(cursor) : since[v] > since[u]}) < size}
PageSize == IF poll.baseline THEN BaselineSize ELSE IncrementalSize
PageLimit == IF poll.baseline THEN BaselinePages ELSE IncrementalPages

(* Slip: the last page that may be read counts as the end.                 *)
AfterLastPage == "fetched"

(* Neither the end nor somebody known was reached: gapDetected.            *)
AfterPageLimit == "gap"

(* fetchBaseline and fetchIncremental, one page.                           *)
FetchPage ==
    LET page == Page(poll.cursor, PageSize)
        next == Older(poll.cursor) \ page
        reached == next = {} \/ (~poll.baseline /\ page \cap known # {})
        where == IF reached THEN "fetched"
                 ELSE IF poll.pages + 1 = PageLimit THEN AfterPageLimit ELSE "fetching"
    IN
    /\ poll.at = "fetching"
    /\ poll' = [poll EXCEPT !.at = where, !.fetched = @ \cup page, !.pages = @ + 1,
                            !.cursor = IF page = {} THEN @ ELSE Min({since[u] : u \in page})]
    /\ UNCHANGED <<since, follows, unfollowed, refollowed, based, known, reported>>

CompleteBaseline ==
    /\ poll.at = "fetched" /\ poll.baseline
    /\ known' = known \cup poll.fetched /\ based' = TRUE
    /\ poll' = NoPoll
    /\ UNCHANGED <<since, follows, unfollowed, refollowed, reported>>

(* One transaction: who is new is known, and reported.                     *)
CompleteIncremental ==
    /\ poll.at = "fetched" /\ ~poll.baseline
    /\ known' = known \cup poll.fetched /\ reported' = reported \cup (poll.fetched \ known)
    /\ poll' = NoPoll
    /\ UNCHANGED <<since, follows, unfollowed, refollowed, based>>

(* markPollFailure, for a gap, for a call that fails; or the process dies. *)
PollFails ==
    /\ poll.at # "idle" /\ poll' = NoPoll
    /\ UNCHANGED <<since, follows, unfollowed, refollowed, based, known, reported>>

FollowNext ==
    \/ \E u \in Followees : Follow(u) \/ Unfollow(u)
    \/ BeginPoll \/ FetchPage \/ CompleteBaseline \/ CompleteIncremental \/ PollFails

FollowSpec == FollowInit /\ [][FollowNext]_followVars

-----------------------------------------------------------------------------
FollowTypeOK ==
    /\ since \in [Followees -> 0 .. MaxFollows] /\ known \subseteq Followees
    /\ poll.at \in {"idle", "fetching", "fetched", "gap"}

(* No new follow is passed over: somebody who is not known yet has been    *)
(* followed after everybody who is, so that the next check still meets him *)
(* (x-poll-follows.js: pages are read until a known one).  That fails once *)
(* the account follows somebody again, whom the check takes for the        *)
(* boundary.  Nobody of the baseline is reported, everybody later is.      *)
FollowsReported ==
    /\ based /\ ~refollowed =>
          \A u \in Followees \ known, v \in known :
              since[u] # 0 /\ since[v] # 0 => since[u] > since[v]
    /\ reported \subseteq known /\ (~based => known = {})
=============================================================================
