--------------------------- MODULE ResearchQueue ---------------------------
(***************************************************************************)
(* The research queue: a batch of token addresses becomes a job with one   *)
(* item per address; one process works the items off, at most Concurrency  *)
(* at a time (research/queue.js), each through a report that GMGN opens    *)
(* and the language model and 6551 complete (research/service.js). A       *)
(* report is named after the item that had it created.                     *)
(***************************************************************************)
EXTENDS FiniteSets, Integers

CONSTANTS
  ResearchJobs,       \* the jobs that may be requested
  ItemsOf,            \* job -> its items
  TokenOf,            \* item -> the token it is about
  Concurrency,        \* DEFAULT_CONCURRENCY; 3 in the code
  MaxResearchRetries, \* bound: retries of failed items
  MaxDeaths           \* bound: deaths of the process

NoReport == "none"
ResearchItems == UNION {ItemsOf[j] : j \in ResearchJobs}
JobOf(i) == CHOOSE j \in ResearchJobs : i \in ItemsOf[j]

ASSUME ResearchAssumption ==
  /\ \A j \in ResearchJobs : ItemsOf[j] # {} /\ IsFiniteSet(ItemsOf[j])
  /\ \A j, k \in ResearchJobs : j # k => ItemsOf[j] \cap ItemsOf[k] = {}
  /\ Concurrency \in Nat \ {0}
  /\ MaxResearchRetries \in Nat /\ MaxDeaths \in Nat

VARIABLES
  job,       \* research_jobs: status and whether cancelled_at is set
  items,     \* research_job_items: status and report_id
  reports,   \* token_research_reports: how far each one's analysis is
  works,     \* the process: where it is with each item it claimed
  retrying,  \* jobs between the two statements of retryFailedItems
  torn,      \* history: jobs one of whose status writes was lost or overtaken
  retries, deaths

researchVars == <<job, items, reports, works, retrying, torn, retries, deaths>>

Over == {"completed", "failed", "cancelled"}
Stages == {"gmgn", "grok", "verification"}

ResearchInit ==
  /\ job = [j \in ResearchJobs |-> [status |-> "absent", cancelled |-> FALSE]]
  /\ items = [i \in ResearchItems |-> [status |-> "absent", report |-> NoReport]]
  /\ reports = [i \in ResearchItems |-> "absent"]
  /\ works = [i \in ResearchItems |-> [at |-> "idle", report |-> NoReport]]
  /\ retrying = {} /\ torn = {}
  /\ retries = 0 /\ deaths = 0

-----------------------------------------------------------------------------
(* The job and its items.                                                  *)

CreateResearchJob(j) ==
  /\ job[j].status = "absent"
  /\ job' = [job EXCEPT ![j].status = "pending"]
  /\ items' = [i \in ResearchItems |->
                 IF i \in ItemsOf[j] THEN [items[i] EXCEPT !.status = "queued"] ELSE items[i]]
  /\ UNCHANGED <<reports, works, retrying, torn, retries, deaths>>

StatusFromCounts(j, its) ==
  LET In(statuses) == {i \in ItemsOf[j] : its[i].status \in statuses}
  IN  IF In(Over) # ItemsOf[j] THEN "running"
      ELSE IF In({"cancelled"}) = ItemsOf[j] THEN "cancelled"
      ELSE IF In({"failed"}) = ItemsOf[j] THEN "failed"
      ELSE IF In({"failed", "cancelled"}) # {} THEN "partial"
      ELSE "completed"

Refreshed(row, j, its) ==
  [row EXCEPT !.status = IF row.cancelled THEN "cancelled" ELSE StatusFromCounts(j, its)]

(* Slip: an item whose worker died is not taken up again.                  *)
ClaimableWhileQueued(i) ==
  items[i].status = "queued" /\ job[JobOf(i)].status # "cancelled"

Claimable(i) ==
  /\ items[i].status \in {"queued"} \union Stages  \* a stage's lock has lapsed: nobody works on it
  /\ job[JobOf(i)].status # "cancelled"

(* runOnce: nothing is claimed before the whole earlier batch is finished  *)
ClaimItems ==
  /\ \A i \in ResearchItems : works[i].at = "idle"
  /\ \E batch \in SUBSET {i \in ResearchItems : Claimable(i)} :
       /\ batch # {} /\ Cardinality(batch) <= Concurrency
       /\ Cardinality(batch) < Concurrency => batch = {i \in ResearchItems : Claimable(i)}
       /\ items' = [i \in ResearchItems |->
                      IF i \in batch THEN [items[i] EXCEPT !.status = "gmgn"] ELSE items[i]]
       /\ works' = [i \in ResearchItems |->
                      IF i \in batch THEN [at |-> "look", report |-> items[i].report] ELSE works[i]]
       /\ job' = [j \in ResearchJobs |->
                     IF ItemsOf[j] \cap batch # {} THEN Refreshed(job[j], j, items') ELSE job[j]]
  /\ UNCHANGED <<reports, retrying, torn, retries, deaths>>

-----------------------------------------------------------------------------
(* ProcessItem.                                                            *)

Goes(i, at) == works' = [works EXCEPT ![i].at = at]
SetItemStage(i, stage, report) ==
  items' = IF items[i].status = "cancelled" THEN items
           ELSE [items EXCEPT ![i] = [status |-> stage, report |-> report]]

(* its own report, one already analysed and not expired, or a new one      *)
FindReport(i) ==
  /\ works[i].at = "look"
  /\ LET With(r, at) == works' = [works EXCEPT ![i] = [at |-> at, report |-> r]]
         Own == works[i].report
     IN \/ /\ Own # NoReport
           /\ With(Own, IF reports[Own] = "analysed" THEN "complete" ELSE "stage")
           /\ UNCHANGED reports
        \/ /\ Own = NoReport
           /\ \E r \in ResearchItems :
                TokenOf[r] = TokenOf[i] /\ reports[r] = "analysed" /\ With(r, "complete")
           /\ UNCHANGED reports
        \/ /\ Own = NoReport
           /\ reports[i] # "analysed"
           /\ reports' = [reports EXCEPT ![i] = "opened"]
           /\ With(i, "stage")
        \/ /\ Own = NoReport  \* GMGN has no metadata of the token
           /\ Goes(i, "fail") /\ UNCHANGED reports
  /\ UNCHANGED <<job, items, retrying, torn, retries, deaths>>

(* the item's stage, then the start of expandReport                        *)
ExpandReport(i) ==
  /\ works[i].at = "stage"
  /\ SetItemStage(i, "grok", works[i].report)
  /\ IF items[i].status = "cancelled"
     THEN Goes(i, "refresh") /\ UNCHANGED reports
     ELSE Goes(i, "discover") /\ reports' = [reports EXCEPT ![works[i].report] = "opened"]
  /\ UNCHANGED <<job, retrying, torn, retries, deaths>>

DiscoverCandidates(i) ==
  /\ works[i].at = "discover"
  /\ SetItemStage(i, "verification", works[i].report)
  /\ Goes(i, "verify")
  /\ UNCHANGED <<job, reports, retrying, torn, retries, deaths>>

VerifyCandidates(i) ==
  /\ works[i].at = "verify"
  /\ reports' = [reports EXCEPT ![works[i].report] = "analysed"]
  /\ Goes(i, "register")
  /\ UNCHANGED <<job, items, retrying, torn, retries, deaths>>

(* every candidate is now in the actor directory                           *)
UpsertActors(i) ==
  /\ works[i].at = "register"
  /\ Goes(i, "complete")
  /\ UNCHANGED <<job, items, reports, retrying, torn, retries, deaths>>

(* the model, a stage's write or the directory fails: expandReport notes it*)
ExpandFails(i) ==
  /\ works[i].at \in {"discover", "verify", "register"}
  /\ reports' = [reports EXCEPT ![works[i].report] = "xai_error"]
  /\ Goes(i, "fail")
  /\ UNCHANGED <<job, items, retrying, torn, retries, deaths>>

CompleteItem(i) ==
  /\ works[i].at = "complete"
  /\ SetItemStage(i, "completed", works[i].report)
  /\ Goes(i, "refresh")
  /\ UNCHANGED <<job, reports, retrying, torn, retries, deaths>>

FailItem(i) ==
  /\ works[i].at = "fail"
  /\ SetItemStage(i, "failed", items[i].report)
  /\ Goes(i, "refresh")
  /\ UNCHANGED <<job, reports, retrying, torn, retries, deaths>>

RefreshJob(i) ==
  /\ works[i].at = "refresh"
  /\ job' = [job EXCEPT ![JobOf(i)] = Refreshed(@, JobOf(i), items)]
  /\ works' = [works EXCEPT ![i] = [at |-> "idle", report |-> NoReport]]
  /\ UNCHANGED <<items, reports, retrying, torn, retries, deaths>>

-----------------------------------------------------------------------------
(* The owner and the process.                                              *)

CancelResearchJob(j) ==
  /\ job[j].status \in {"pending", "running"}
  /\ items' = [i \in ResearchItems |->
                 IF i \in ItemsOf[j] /\ items[i].status \notin Over
                 THEN [items[i] EXCEPT !.status = "cancelled"] ELSE items[i]]
  /\ job' = [job EXCEPT ![j] = [status |-> "cancelled", cancelled |-> TRUE]]
  /\ torn' = torn \union (retrying \cap {j})
  /\ UNCHANGED <<reports, works, retrying, retries, deaths>>

(* retryFailedItems queues the items in one statement and the job in another*)
RetryFailedItems(j) ==
  /\ retries < MaxResearchRetries /\ j \notin retrying
  /\ job[j].status # "cancelled"
  /\ \E i \in ItemsOf[j] : items[i].status = "failed"
  /\ items' = [i \in ResearchItems |->
                 IF i \in ItemsOf[j] /\ items[i].status = "failed"
                 THEN [items[i] EXCEPT !.status = "queued"] ELSE items[i]]
  /\ retrying' = retrying \union {j}
  /\ retries' = retries + 1
  /\ UNCHANGED <<job, reports, works, torn, deaths>>

RetriedJobPending(j) ==
  /\ j \in retrying
  /\ job' = [job EXCEPT ![j] = [status |-> "pending", cancelled |-> FALSE]]
  /\ retrying' = retrying \ {j}
  \* the items were claimed and finished meanwhile: nobody refreshes the job again
  /\ torn' = IF \A i \in ItemsOf[j] : items[i].status \in Over /\ works[i].at = "idle"
             THEN torn \union {j} ELSE torn
  /\ UNCHANGED <<items, reports, works, retries, deaths>>

(* the process dies; only what the database holds survives                 *)
ResearchDies ==
  /\ deaths < MaxDeaths
  /\ \E i \in ResearchItems : works[i].at # "idle"
  /\ torn' = torn \union {JobOf(i) : i \in {k \in ResearchItems : works[k].at = "refresh"}}
                  \union retrying
  /\ works' = [i \in ResearchItems |-> [at |-> "idle", report |-> NoReport]]
  /\ retrying' = {}
  /\ deaths' = deaths + 1
  /\ UNCHANGED <<job, items, reports, retries>>

ProcessItem(i) ==
  \/ FindReport(i) \/ ExpandReport(i)
  \/ DiscoverCandidates(i) \/ VerifyCandidates(i) \/ UpsertActors(i) \/ ExpandFails(i)
  \/ CompleteItem(i) \/ FailItem(i) \/ RefreshJob(i)

ResearchNext ==
  \/ \E j \in ResearchJobs : CreateResearchJob(j) \/ CancelResearchJob(j)
                             \/ RetryFailedItems(j) \/ RetriedJobPending(j)
  \/ ClaimItems
  \/ \E i \in ResearchItems : ProcessItem(i)
  \/ ResearchDies

ResearchSpec == ResearchInit /\ [][ResearchNext]_researchVars

-----------------------------------------------------------------------------

ResearchTypeOK ==
  /\ \A j \in ResearchJobs :
       /\ job[j].status \in {"absent", "pending", "running", "partial"} \union Over
       /\ job[j].cancelled \in BOOLEAN
  /\ \A i \in ResearchItems :
       /\ items[i].status \in {"absent", "queued"} \union Stages \union Over
       /\ items[i].report \in {NoReport} \union ResearchItems
       /\ reports[i] \in {"absent", "opened", "analysed", "xai_error"}
       /\ works[i].at \in {"idle", "look", "stage", "discover", "verify", "register",
                           "complete", "fail", "refresh"}
  /\ torn \subseteq ResearchJobs /\ retrying \subseteq ResearchJobs

(* The job's own status says what its items say, unless one of its status  *)
(* writes was lost to a death of the process or overtaken while failed     *)
(* items were being queued again (refreshJob, cancelJob, retryFailedItems).*)
ItemsOver(j) == \A i \in ItemsOf[j] : items[i].status \in Over
StatusTold(j) ==
  j \in torn \/ job[j].status = (IF job[j].cancelled THEN "cancelled" ELSE StatusFromCounts(j, items))

(* Once the items are over and nobody works on one of them or queues it    *)
(* again, nobody will write the job's status any more, so it is the right  *)
(* one: in whatever order items fail, are cancelled, retried and refreshed.*)
StatusFollowsItems ==
  \A j \in ResearchJobs :
    ItemsOver(j) /\ j \notin retrying /\ (\A i \in ItemsOf[j] : works[i].at = "idle")
      => StatusTold(j)

(* A requested job comes to rest: every item ends completed, failed or     *)
(* cancelled, whoever died meanwhile, and the job's status says so.        *)
JobAtRest(j) == ItemsOver(j) /\ StatusTold(j)
ResearchSettled ==
  \A j \in ResearchJobs : []<>(job[j].status = "absent" \/ JobAtRest(j))
=============================================================================
