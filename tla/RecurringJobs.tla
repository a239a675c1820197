---------------------------- MODULE RecurringJobs ----------------------------
(***************************************************************************)
(* kernel/scheduler/scheduler.py: the recurring jobs.  start() creates a   *)
(* loop that looks at the table of recurring jobs every 0.1 s and creates  *)
(* a task for each execution.  stop() does not cancel the loop: it ends by *)
(* itself at its next turn, unless start() was called again before.        *)
(*                                                                         *)
(* One turn of a loop has no suspension but its sleep, so it is one step.  *)
(***************************************************************************)
EXTENDS Naturals, FiniteSets

CONSTANTS
    RJobs,         \* the recurring jobs that may be scheduled
    MaxExecutions, \* max_executions of each; 0 stands for None, as in the code
    Interval,      \* interval of each, in turns of the loop (0.1 s)
    Reliable,      \* the jobs whose handlers always return
    MaxLoops,      \* bound: loops alive at a time, hence quick restarts
    MaxCount       \* bound: counted executions of a job without a limit

ASSUME RecurringAssumption ==
    /\ MaxExecutions \in [RJobs -> Nat]
    /\ Interval \in [RJobs -> Nat]
    /\ Reliable \subseteq RJobs
    /\ MaxLoops \in Nat \ {0}
    /\ MaxCount \in Nat

VARIABLES
    ticking,    \* Scheduler._running
    loops,      \* how many _recurring_loop tasks are asleep
    phase,      \* of a job: "new", "scheduled" (in the table), "gone" from it
    cancelled,  \* history: the jobs for which cancel() answered True
    isRunning,  \* RecurringJob.is_running
    count,      \* RecurringJob.execution_count
    created,    \* tasks created for the job that have not started yet
    inHandler,  \* tasks of the job that are in the handler
    since       \* turns since the last launch, up to the interval

recurringVars == <<ticking, loops, phase, cancelled, isRunning, count, created,
          inHandler, since>>

RecurringInit ==
    /\ ticking = FALSE
    /\ loops = 0
    /\ phase = [r \in RJobs |-> "new"]
    /\ cancelled = {}
    /\ isRunning = [r \in RJobs |-> FALSE]
    /\ count = [r \in RJobs |-> 0]
    /\ created = [r \in RJobs |-> 0]
    /\ inHandler = [r \in RJobs |-> 0]
    /\ since = Interval

-----------------------------------------------------------------------------
StartLoop ==
    /\ ~ticking
    /\ loops < MaxLoops
    /\ ticking' = TRUE
    /\ loops' = loops + 1
    /\ UNCHANGED <<phase, cancelled, isRunning, count, created, inHandler, since>>

\* stop(), as far as the recurring jobs are concerned.
StopLoop ==
    /\ ticking
    /\ ticking' = FALSE
    /\ UNCHANGED <<loops, phase, cancelled, isRunning, count, created, inHandler, since>>

Schedule(r) ==
    /\ phase[r] = "new"
    /\ phase' = [phase EXCEPT ![r] = "scheduled"]
    /\ UNCHANGED <<ticking, loops, cancelled, isRunning, count, created, inHandler, since>>

\* Mutant: cancel() leaves the job in the table.
CancelRecurring_KeepsEntry(r) ==
    /\ phase[r] = "scheduled"
    /\ cancelled' = cancelled \union {r}
    /\ isRunning' = [isRunning EXCEPT ![r] = FALSE]
    /\ UNCHANGED <<ticking, loops, phase, count, created, inHandler, since>>

\* cancel() of a recurring job: an execution that was created goes on.
CancelRecurring(r) ==
    /\ phase[r] = "scheduled"
    /\ phase' = [phase EXCEPT ![r] = "gone"]
    /\ cancelled' = cancelled \union {r}
    /\ isRunning' = [isRunning EXCEPT ![r] = FALSE]
    /\ UNCHANGED <<ticking, loops, count, created, inHandler, since>>

-----------------------------------------------------------------------------
Scheduled == {r \in RJobs : phase[r] = "scheduled"}

\* Mutant: a job with one execution left is taken for an exhausted one.
Exhausted_Early(r) == MaxExecutions[r] # 0 /\ count[r] + 1 >= MaxExecutions[r]
\* Mutant: one execution too many.
Exhausted_OffByOne(r) == MaxExecutions[r] # 0 /\ count[r] > MaxExecutions[r]
\* The limit is reached; a limit of 0 is as good as none.
Exhausted(r) == MaxExecutions[r] # 0 /\ count[r] >= MaxExecutions[r]

\* What one turn does with the table: jobs that are running are passed over,
\* exhausted ones are removed, all others are launched.
Launched == {r \in Scheduled : ~isRunning[r] /\ ~Exhausted(r)}
Removed == {r \in Scheduled : ~isRunning[r] /\ Exhausted(r)}

Turn ==
    /\ ticking /\ loops > 0
    /\ phase' = [r \in RJobs |-> IF r \in Removed THEN "gone" ELSE phase[r]]
    /\ isRunning' = [r \in RJobs |-> isRunning[r] \/ r \in Launched]
    /\ created' = [r \in RJobs |-> created[r] + IF r \in Launched THEN 1 ELSE 0]
    /\ since' = [r \in RJobs |-> IF r \in Launched THEN 1
                                 ELSE IF since[r] < Interval[r] THEN since[r] + 1
                                 ELSE since[r]]
    /\ UNCHANGED <<ticking, loops, cancelled, count, inHandler>>

\* A loop that wakes up after stop().
LoopEnds ==
    /\ ~ticking /\ loops > 0
    /\ loops' = loops - 1
    /\ UNCHANGED <<ticking, phase, cancelled, isRunning, count, created, inHandler, since>>

-----------------------------------------------------------------------------
(* _execute_recurring.                                                     *)

ExecStarts(r) ==
    /\ created[r] > 0
    /\ created' = [created EXCEPT ![r] = @ - 1]
    /\ inHandler' = [inHandler EXCEPT ![r] = @ + 1]
    /\ UNCHANGED <<ticking, loops, phase, cancelled, isRunning, count, since>>

\* The finally clause.
ExecEnds(r) ==
    /\ inHandler[r] > 0
    /\ inHandler' = [inHandler EXCEPT ![r] = @ - 1]
    /\ isRunning' = [isRunning EXCEPT ![r] = FALSE]

ExecSucceeds(r) ==
    /\ ExecEnds(r)
    /\ MaxExecutions[r] = 0 => count[r] < MaxCount
    /\ count' = [count EXCEPT ![r] = @ + 1]
    /\ UNCHANGED <<ticking, loops, phase, cancelled, created, since>>

\* The handler raises: only executions that return are counted.
ExecFails(r) ==
    /\ r \notin Reliable
    /\ ExecEnds(r)
    /\ UNCHANGED <<ticking, loops, phase, cancelled, count, created, since>>

RecurringNext ==
    \/ StartLoop
    \/ StopLoop
    \/ Turn
    \/ LoopEnds
    \/ \E r \in RJobs :
         \/ Schedule(r)
         \/ CancelRecurring(r)
         \/ ExecStarts(r)
         \/ ExecSucceeds(r)
         \/ ExecFails(r)

RecurringSpec == RecurringInit /\ [][RecurringNext]_recurringVars

\* The event loop wakes the loops and starts the tasks; reliable handlers end.
RecurringFairness ==
    /\ WF_recurringVars(Turn)
    /\ WF_recurringVars(LoopEnds)
    /\ \A r \in RJobs : WF_recurringVars(ExecStarts(r))
    /\ \A r \in Reliable : WF_recurringVars(ExecSucceeds(r))

RecurringFairSpec == RecurringSpec /\ RecurringFairness

-----------------------------------------------------------------------------
RecurringTypeOK ==
    /\ ticking \in BOOLEAN
    /\ loops \in 0..MaxLoops
    /\ phase \in [RJobs -> {"new", "scheduled", "gone"}]
    /\ cancelled \subseteq RJobs
    /\ isRunning \in [RJobs -> BOOLEAN]
    /\ count \in [RJobs -> Nat]
    /\ created \in [RJobs -> Nat]
    /\ inHandler \in [RJobs -> Nat]
    /\ since \in [RJobs -> Nat]

\* Two executions of a recurring job never overlap, although two loops may be
\* alive after a quick restart and cancel() clears is_running under a handler.
NoOverlap == \A r \in RJobs : created[r] + inHandler[r] <= 1

\* A scheduled job is marked running exactly while an execution of it exists:
\* otherwise it would be launched twice, or never again.
FlagIsTrue ==
    \A r \in RJobs : phase[r] = "scheduled" =>
        (isRunning[r] <=> created[r] + inHandler[r] = 1)

\* max_executions is exact on both sides, whatever restarts and cancellations
\* happen while an execution is in its handler: no execution beyond it counts,
\* and what nobody cancelled leaves the table only when it was reached.
WithinLimit ==
    \A r \in RJobs :
        /\ MaxExecutions[r] # 0 => count[r] + created[r] + inHandler[r] <= MaxExecutions[r]
        /\ phase[r] = "gone" /\ r \notin cancelled =>
              MaxExecutions[r] # 0 /\ count[r] = MaxExecutions[r]

\* The inductive invariant.
RecurringInv ==
    /\ RecurringTypeOK
    /\ NoOverlap
    /\ FlagIsTrue
    /\ \A r \in RJobs :
         /\ r \in cancelled => phase[r] = "gone"
         /\ phase[r] = "new" => created[r] + inHandler[r] = 0 /\ ~isRunning[r]
         /\ MaxExecutions[r] # 0 => count[r] + created[r] + inHandler[r] <= MaxExecutions[r]
         /\ phase[r] = "gone" /\ r \notin cancelled =>
               MaxExecutions[r] # 0 /\ count[r] = MaxExecutions[r]

\* Once cancel() has answered True no further execution is launched: at most
\* the one that was created before still calls the handler.
CancelStopsLaunches ==
    [][\A r \in cancelled : created'[r] <= created[r]]_recurringVars

\* A reliable job with a limit is executed exactly that often and leaves the
\* table then, unless it is cancelled, once the scheduler is no longer stopped
\* and started again (restarts without end may come before each turn).
ReachesLimit ==
    \A r \in Reliable : MaxExecutions[r] # 0 =>
        (<>[]ticking =>
            (phase[r] = "scheduled" ~>
                (phase[r] = "gone" /\ (count[r] = MaxExecutions[r] \/ r \in cancelled))))

-----------------------------------------------------------------------------
(* What a message of the code says and the code does not do.               *)

\* "Recurring job ... scheduled every {interval}s": two launches of a job
\* are at least its interval apart.
SpacedByInterval ==
    [][\A r \in RJobs : created'[r] > created[r] => since[r] >= Interval[r]]_recurringVars
=============================================================================
