--------------------------- MODULE RecurringProofs ---------------------------
(***************************************************************************)
(* RecurringJobs, for any set of jobs, any limits and any number of loops: *)
(* executions of a job never overlap, its limit holds, and cancel() stops  *)
(* the launches.                                                           *)
(***************************************************************************)
EXTENDS RecurringJobs, TLAPS

LEMMA InitRecurringInv == RecurringInit => RecurringInv
<1> SUFFICES ASSUME RecurringInit
             PROVE  RecurringInv
  OBVIOUS
<1> USE RecurringAssumption DEF RecurringAssumption
<1>1. ticking \in BOOLEAN /\ cancelled \subseteq RJobs
  BY DEF RecurringInit
<1>2. loops \in 0..MaxLoops
  BY DEF RecurringInit
<1>3. /\ phase \in [RJobs -> {"new", "scheduled", "gone"}]
      /\ isRunning \in [RJobs -> BOOLEAN]
  BY DEF RecurringInit
<1>4. /\ count \in [RJobs -> Nat] /\ created \in [RJobs -> Nat]
      /\ inHandler \in [RJobs -> Nat] /\ since \in [RJobs -> Nat]
  BY DEF RecurringInit
<1>5. \A r \in RJobs : /\ phase[r] = "new" /\ ~isRunning[r]
                       /\ count[r] = 0 /\ created[r] = 0 /\ inHandler[r] = 0
                       /\ MaxExecutions[r] \in Nat /\ r \notin cancelled
  BY DEF RecurringInit
<1> QED
  BY <1>1, <1>2, <1>3, <1>4, <1>5 DEF RecurringInv, RecurringTypeOK, NoOverlap, FlagIsTrue

\* What the invariant says of one job, and the types of its variables.
JobInv(r) ==
    /\ created[r] + inHandler[r] <= 1
    /\ phase[r] = "scheduled" => (isRunning[r] <=> created[r] + inHandler[r] = 1)
    /\ r \in cancelled => phase[r] = "gone"
    /\ phase[r] = "new" => created[r] + inHandler[r] = 0 /\ ~isRunning[r]
    /\ MaxExecutions[r] # 0 => count[r] + created[r] + inHandler[r] <= MaxExecutions[r]
    /\ phase[r] = "gone" /\ r \notin cancelled =>
          MaxExecutions[r] # 0 /\ count[r] = MaxExecutions[r]

LEMMA InvByJob == RecurringInv <=> RecurringTypeOK /\ \A r \in RJobs : JobInv(r)
  BY DEF RecurringInv, NoOverlap, FlagIsTrue, JobInv

\* A turn of the loop launches a job only if no execution of it exists.
LEMMA TurnInv == RecurringInv /\ Turn => RecurringInv'
<1> SUFFICES ASSUME RecurringInv, Turn
             PROVE  RecurringInv'
  OBVIOUS
<1> USE RecurringAssumption DEF RecurringAssumption
<1>1. RecurringTypeOK'
  <2>1. \A r \in RJobs : /\ phase'[r] \in {"new", "scheduled", "gone"}
                         /\ isRunning'[r] \in BOOLEAN
                         /\ created'[r] \in Nat
                         /\ since'[r] \in Nat
    BY DEF RecurringInv, RecurringTypeOK, Turn
  <2> QED
    BY <2>1 DEF RecurringInv, RecurringTypeOK, Turn
<1>2. ASSUME NEW r \in RJobs
      PROVE  JobInv(r)'
  <2>1. /\ created[r] \in Nat /\ inHandler[r] \in Nat /\ count[r] \in Nat
        /\ MaxExecutions[r] \in Nat /\ isRunning[r] \in BOOLEAN
        /\ phase[r] \in {"new", "scheduled", "gone"}
        /\ JobInv(r)
    BY InvByJob DEF RecurringTypeOK
  <2>2. CASE r \in Launched
    <3>1. /\ phase[r] = "scheduled" /\ ~isRunning[r] /\ ~Exhausted(r)
          /\ phase'[r] = "scheduled" /\ isRunning'[r] /\ created'[r] = created[r] + 1
          /\ count'[r] = count[r] /\ inHandler'[r] = inHandler[r]
          /\ cancelled' = cancelled
      BY <2>2 DEF Launched, Scheduled, Removed, Turn
    <3> QED
      BY <2>1, <3>1 DEF JobInv, Exhausted
  <2>3. CASE r \notin Launched
    <3>1. /\ created'[r] = created[r] /\ isRunning'[r] = isRunning[r]
          /\ count'[r] = count[r] /\ inHandler'[r] = inHandler[r]
          /\ cancelled' = cancelled
          /\ phase'[r] = IF r \in Removed THEN "gone" ELSE phase[r]
      BY <2>1, <2>3 DEF Turn, RecurringInv, RecurringTypeOK
    <3>2. CASE r \in Removed
      <4>1. /\ phase[r] = "scheduled" /\ ~isRunning[r]
            /\ MaxExecutions[r] # 0 /\ count[r] >= MaxExecutions[r]
        BY <3>2 DEF Removed, Scheduled, Exhausted
      <4>2. created[r] + inHandler[r] = 0 /\ count[r] = MaxExecutions[r]
        BY <2>1, <4>1 DEF JobInv
      <4> QED
        BY <2>1, <3>1, <3>2, <4>1, <4>2 DEF JobInv
    <3>3. CASE r \notin Removed
      BY <2>1, <3>1, <3>3 DEF JobInv
    <3> QED
      BY <3>2, <3>3
  <2> QED
    BY <2>2, <2>3
<1> QED
  BY <1>1, <1>2 DEF RecurringInv, NoOverlap, FlagIsTrue, JobInv

\* The calls of the users, and the steps of one execution, change one job.
LEMMA OtherStepsInv ==
    ASSUME RecurringInv, NEW q \in RJobs,
           \/ Schedule(q) \/ CancelRecurring(q) \/ ExecStarts(q)
           \/ ExecSucceeds(q) \/ ExecFails(q)
    PROVE  RecurringInv'
<1> USE RecurringAssumption DEF RecurringAssumption
<1>1. RecurringTypeOK'
  <2>1. CASE Schedule(q) \/ CancelRecurring(q)
    BY <2>1 DEF RecurringInv, RecurringTypeOK, Schedule, CancelRecurring
  <2>2. /\ created[q] > 0 => created[q] - 1 \in Nat
        /\ inHandler[q] > 0 => inHandler[q] - 1 \in Nat
        /\ inHandler[q] + 1 \in Nat /\ count[q] + 1 \in Nat
    BY DEF RecurringInv, RecurringTypeOK
  <2>3. CASE ExecStarts(q)
    BY <2>2, <2>3 DEF RecurringInv, RecurringTypeOK, ExecStarts
  <2>4. CASE ExecSucceeds(q) \/ ExecFails(q)
    BY <2>2, <2>4 DEF RecurringInv, RecurringTypeOK, ExecSucceeds, ExecFails, ExecEnds
  <2> QED
    BY <2>1, <2>3, <2>4
<1>2. ASSUME NEW r \in RJobs
      PROVE  JobInv(r)'
  <2>1. /\ created[r] \in Nat /\ inHandler[r] \in Nat /\ count[r] \in Nat
        /\ MaxExecutions[r] \in Nat /\ isRunning[r] \in BOOLEAN
        /\ JobInv(r)
    BY InvByJob DEF RecurringTypeOK
  <2>2. CASE Schedule(q)
    BY <2>1, <2>2 DEF Schedule, JobInv, RecurringInv, RecurringTypeOK
  <2>3. CASE CancelRecurring(q)
    BY <2>1, <2>3 DEF CancelRecurring, JobInv, RecurringInv, RecurringTypeOK
  <2>4. CASE ExecStarts(q)
    BY <2>1, <2>4 DEF ExecStarts, JobInv, RecurringInv, RecurringTypeOK
  <2>5. CASE ExecSucceeds(q)
    BY <2>1, <2>5 DEF ExecSucceeds, ExecEnds, JobInv, RecurringInv, RecurringTypeOK
  <2>6. CASE ExecFails(q)
    BY <2>1, <2>6 DEF ExecFails, ExecEnds, JobInv, RecurringInv, RecurringTypeOK
  <2> QED
    BY <2>2, <2>3, <2>4, <2>5, <2>6
<1> QED
  BY <1>1, <1>2 DEF RecurringInv, NoOverlap, FlagIsTrue, JobInv

LEMMA NextRecurringInv == RecurringInv /\ [RecurringNext]_recurringVars => RecurringInv'
<1> SUFFICES ASSUME RecurringInv, [RecurringNext]_recurringVars
             PROVE  RecurringInv'
  OBVIOUS
<1>1. CASE StartLoop \/ StopLoop \/ LoopEnds
  <2>1. ticking' \in BOOLEAN /\ loops' \in 0..MaxLoops
    <3>1. loops \in 0..MaxLoops /\ MaxLoops \in Nat /\ ticking \in BOOLEAN
      BY RecurringAssumption DEF RecurringAssumption, RecurringInv, RecurringTypeOK
    <3>2. CASE StartLoop
      BY <3>1, <3>2 DEF StartLoop
    <3>3. CASE StopLoop
      BY <3>1, <3>3 DEF StopLoop
    <3>4. CASE LoopEnds
      BY <3>1, <3>4 DEF LoopEnds
    <3> QED
      BY <1>1, <3>2, <3>3, <3>4
  <2>2. UNCHANGED <<phase, cancelled, isRunning, count, created, inHandler, since>>
    BY <1>1 DEF StartLoop, StopLoop, LoopEnds
  <2> QED
    BY <2>1, <2>2 DEF RecurringInv, RecurringTypeOK, NoOverlap, FlagIsTrue
<1>2. CASE UNCHANGED recurringVars
  BY <1>2 DEF recurringVars, RecurringInv, RecurringTypeOK, NoOverlap, FlagIsTrue
<1> QED
  BY <1>1, <1>2, TurnInv, OtherStepsInv DEF RecurringNext

\* The invariant holds in every reachable state.
THEOREM RecurringInvariance == RecurringSpec => []RecurringInv
  BY InitRecurringInv, NextRecurringInv, PTL DEF RecurringSpec

\* Two executions of one recurring job never overlap.
THEOREM NeverOverlaps == RecurringSpec => []NoOverlap
<1>1. RecurringInv => NoOverlap
  BY DEF RecurringInv
<1> QED
  BY <1>1, RecurringInvariance, PTL

\* The limit of a job is exact: never exceeded, and reached unless cancelled.
THEOREM LimitHolds == RecurringSpec => []WithinLimit
<1>1. RecurringInv => WithinLimit
  BY DEF RecurringInv, WithinLimit
<1> QED
  BY <1>1, RecurringInvariance, PTL

\* Whatever loops and executions are alive when cancel() answers True, the
\* job is not launched again.
THEOREM CancelIsFinal == RecurringSpec => CancelStopsLaunches
<1>1. RecurringInv /\ [RecurringNext]_recurringVars =>
        [\A r \in cancelled : created'[r] <= created[r]]_recurringVars
  <2> SUFFICES ASSUME RecurringInv, RecurringNext, NEW r \in cancelled
               PROVE  created'[r] <= created[r]
    OBVIOUS
  <2>1. r \in RJobs /\ created[r] \in Nat /\ phase[r] = "gone"
    BY DEF RecurringInv, RecurringTypeOK
  <2>2. CASE StartLoop \/ StopLoop \/ LoopEnds
    BY <2>1, <2>2 DEF StartLoop, StopLoop, LoopEnds
  <2>3. CASE Turn
    BY <2>1, <2>3 DEF Turn, Launched, Scheduled
  <2>4. ASSUME NEW q \in RJobs,
               \/ Schedule(q) \/ CancelRecurring(q) \/ ExecStarts(q)
               \/ ExecSucceeds(q) \/ ExecFails(q)
        PROVE  created'[r] <= created[r]
    BY <2>1, <2>4 DEF Schedule, CancelRecurring, ExecStarts, ExecSucceeds, ExecFails,
       RecurringInv, RecurringTypeOK
  <2> QED
    BY <2>2, <2>3, <2>4 DEF RecurringNext
<1> QED
  BY <1>1, RecurringInvariance, PTL DEF RecurringSpec, CancelStopsLaunches

=============================================================================
