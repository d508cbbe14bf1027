----------------------------- MODULE SupportServices -----------------------------
(***************************************************************************)
(* The services signals and rows depend on: the release of whitelist rows  *)
(* with the watches it waits for, the connection to the event stream and   *)
(* the intake of its events, the polls for new follows, the scheduler in   *)
(* front of the provider, and the research queue.  The six share no state, *)
(* so a behaviour has one scene, in which one of them works.               *)
(***************************************************************************)
EXTENDS WhitelistActivation, SignalIntake, RateScheduler, ResearchQueue, FollowPoll,
        StreamConnection

VARIABLE scene

releaseVars == <<watchVars, activationVars>>
supportServicesVars == <<scene, releaseVars, intakeVars, rateVars, researchVars,
                         followVars, streamVars>>

Scenes == {"release", "intake", "rate", "research", "polls", "stream"}

SupportInit ==
    /\ scene \in Scenes
    /\ WatchInit /\ ActivationInit
    /\ scene # "release" => \A h \in Handles : provider[h] = {}
    /\ IntakeInit /\ RateInit /\ ResearchInit /\ FollowInit /\ StreamInit
    /\ scene # "polls" => \A u \in Followees : since[u] = 0
    /\ scene # "stream" => \A c \in Consumers : consumer[c] = Disabled

SupportNext ==
    /\ scene' = scene
    /\ \/ scene = "release" /\ ActivationNext /\ UNCHANGED <<intakeVars, rateVars, researchVars, followVars, streamVars>>
       \/ scene = "intake" /\ IntakeNext /\ UNCHANGED <<releaseVars, rateVars, researchVars, followVars, streamVars>>
       \/ scene = "rate" /\ RateNext /\ UNCHANGED <<releaseVars, intakeVars, researchVars, followVars, streamVars>>
       \/ scene = "research" /\ ResearchNext /\ UNCHANGED <<releaseVars, intakeVars, rateVars, followVars, streamVars>>
       \/ scene = "polls" /\ FollowNext /\ UNCHANGED <<releaseVars, intakeVars, rateVars, researchVars, streamVars>>
       \/ scene = "stream" /\ StreamNext /\ UNCHANGED <<releaseVars, intakeVars, rateVars, researchVars, followVars>>

(* Timers fire, workers go on, and calls of the provider return.           *)
Fairness ==
    /\ WF_releaseVars(scene = "release" /\ ActivationWork)
    /\ WF_releaseVars(scene = "release" /\ WatchWork)
    /\ \A w \in Workers : WF_intakeVars(scene = "intake" /\ IntakeWork(w))
    /\ WF_intakeVars(scene = "intake" /\ ResumeReads)
    /\ WF_rateVars(scene = "rate" /\ Tick) /\ WF_rateVars(scene = "rate" /\ TimerFires)
    /\ WF_researchVars(scene = "research" /\ ClaimItems)
    /\ \A i \in ResearchItems : WF_researchVars(scene = "research" /\ ProcessItem(i))
    /\ \A j \in ResearchJobs : WF_researchVars(scene = "research" /\ RetriedJobPending(j))
    /\ \A c \in Consumers : WF_streamVars(scene = "stream" /\ StreamWork(c))
    /\ WF_streamVars(scene = "stream" /\ GhostExpires)

SupportServicesSpec == SupportInit /\ [][SupportNext]_supportServicesVars /\ Fairness

-----------------------------------------------------------------------------
SupportServicesTypeOK ==
    /\ scene \in Scenes
    /\ WatchTypeOK /\ ActivationTypeOK /\ IntakeTypeOK /\ RateTypeOK /\ ResearchTypeOK
    /\ FollowTypeOK /\ StreamTypeOK
=============================================================================
