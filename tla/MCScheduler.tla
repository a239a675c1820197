----------------------------- MODULE MCScheduler -----------------------------
(***************************************************************************)
(* Instances for TLC of the two halves of the scheduler: the worker pool   *)
(* of Scheduler, and RecurringJobs with a limited and an unlimited job.    *)
(* They have only _running in common, which each of them starts and stops  *)
(* freely: a behaviour is one of the one or of the other, as "part" says.  *)
(***************************************************************************)
EXTENDS Scheduler, RecurringJobs, TLC

CONSTANTS j1, j2, j3, w1, w2, limited, unlimited

VARIABLE part

MCJobs == {j1, j2, j3}
MCWorkers == {w1, w2}
MCMaxRetries == (j1 :> 2) @@ (j2 :> 1) @@ (j3 :> 0)

MCRJobs == {limited, unlimited}
MCMaxExecutions == (limited :> 2) @@ (unlimited :> 0)
MCInterval == (limited :> 2) @@ (unlimited :> 1)

MCInit == part \in {"pool", "recurring"} /\ Init /\ RecurringInit
InPool == part = "pool" /\ part' = part /\ UNCHANGED recurringVars
InTable == part = "recurring" /\ part' = part /\ UNCHANGED vars
MCNext == (Next /\ InPool) \/ (RecurringNext /\ InTable)
MCVars == <<part, vars, recurringVars>>
MCSpec == MCInit /\ [][MCNext]_MCVars

\* The fairness of FairSpec and of RecurringFairSpec, each in its part.
MCFairSpec ==
    /\ MCSpec
    /\ \A w \in Workers : WF_MCVars(OrderlyStep(w) /\ InPool)
    /\ \A j \in Jobs : WF_MCVars(DelayExpires(j) /\ InPool)
    /\ WF_MCVars(StopEnd /\ InPool)
    /\ WF_MCVars(Turn /\ InTable)
    /\ WF_MCVars(LoopEnds /\ InTable)
    /\ \A r \in RJobs : WF_MCVars(ExecStarts(r) /\ InTable)
    /\ \A r \in Reliable : WF_MCVars(ExecSucceeds(r) /\ InTable)
=============================================================================
