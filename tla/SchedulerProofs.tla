--------------------------- MODULE SchedulerProofs ---------------------------
(***************************************************************************)
(* Scheduler, for any set of jobs, any set of workers and any retry        *)
(* budget: type correctness, the inductive invariant, the safety           *)
(* properties, and the implementation of JobLifecycle.                     *)
(***************************************************************************)
EXTENDS Scheduler, TLAPS

(* Facts about sequences: what put() and get() do to the jobs queued.      *)

\* Appending a new element keeps a sequence free of duplicates.
LEMMA AppendElement ==
    ASSUME NEW S, NEW q \in Seq(S), NEW x \in S, x \notin Elements(q), Distinct(q)
    PROVE  /\ Append(q, x) \in Seq(S)
           /\ Elements(Append(q, x)) = Elements(q) \union {x}
           /\ Distinct(Append(q, x))
<1>1. /\ Append(q, x) \in Seq(S)
      /\ Len(Append(q, x)) = Len(q) + 1
      /\ \A i \in 1..Len(q) : Append(q, x)[i] = q[i]
      /\ Append(q, x)[Len(q) + 1] = x
  OBVIOUS
<1>2. Len(q) \in Nat
  OBVIOUS
<1>3. Elements(Append(q, x)) = Elements(q) \union {x}
  BY <1>1, <1>2 DEF Elements
<1>4. Distinct(Append(q, x))
  BY <1>1, <1>2 DEF Elements, Distinct
<1> QED
  BY <1>1, <1>3, <1>4

\* Taking the head of a sequence without duplicates removes that element.
LEMMA TakeElement ==
    ASSUME NEW S, NEW q \in Seq(S), q # <<>>, Distinct(q)
    PROVE  /\ Tail(q) \in Seq(S)
           /\ Head(q) \in S
           /\ Head(q) \in Elements(q)
           /\ Elements(Tail(q)) = Elements(q) \ {Head(q)}
           /\ Distinct(Tail(q))
<1>1. /\ Tail(q) \in Seq(S)
      /\ Head(q) = q[1]
      /\ Len(q) \in Nat /\ Len(q) >= 1
      /\ Len(Tail(q)) = Len(q) - 1
      /\ \A i \in 1..Len(q) - 1 : Tail(q)[i] = q[i + 1]
      /\ \A i \in 1..Len(q) : q[i] \in S
  OBVIOUS
<1>2. Head(q) \in S /\ Head(q) \in Elements(q)
  BY <1>1 DEF Elements
<1>3. Elements(Tail(q)) \subseteq Elements(q) \ {Head(q)}
  BY <1>1 DEF Elements, Distinct
<1>4. Elements(q) \ {Head(q)} \subseteq Elements(Tail(q))
  <2> SUFFICES ASSUME NEW i \in 1..Len(q), q[i] # Head(q)
               PROVE  q[i] \in Elements(Tail(q))
    BY DEF Elements
  <2>1. i - 1 \in 1..Len(q) - 1 /\ Tail(q)[i - 1] = q[i]
    BY <1>1
  <2> QED
    BY <2>1, <1>1 DEF Elements
<1>5. Distinct(Tail(q))
  BY <1>1 DEF Distinct
<1> QED
  BY <1>1, <1>2, <1>3, <1>4, <1>5

\* The elements of a sequence over a set are in the set.
LEMMA ElementsInSet ==
    ASSUME NEW S, NEW q \in Seq(S)
    PROVE  Elements(q) \subseteq S
  BY DEF Elements

-----------------------------------------------------------------------------
(* Type correctness.                                                       *)

LEMMA InitTypeOK == Init => TypeOK
<1> SUFFICES ASSUME Init
             PROVE  TypeOK
  OBVIOUS
<1>1. queue \in Seq(Jobs) /\ timers \subseteq Jobs /\ kill \subseteq Workers
  BY DEF Init
<1>2. status \in [Jobs -> JobStatus]
  BY DEF Init, JobStatus
<1>3. retries \in [Jobs -> Nat] /\ attempts \in [Jobs -> Nat]
  BY DEF Init
<1>4. /\ pc \in [Workers -> {"off", "idle", "handler", "backoff"}]
      /\ cur \in [Workers -> Jobs \union {NoJob}]
      /\ running \in BOOLEAN
      /\ stopping \in BOOLEAN
  BY DEF Init
<1> QED
  BY <1>1, <1>2, <1>3, <1>4 DEF TypeOK

LEMMA NextTypeOK == TypeOK /\ PlaceTellsStatus /\ [Next]_vars => TypeOK'
<1> SUFFICES ASSUME TypeOK, PlaceTellsStatus, [Next]_vars
             PROVE  TypeOK'
  OBVIOUS
<1> USE SchedulerAssumption DEF SchedulerAssumption, TypeOK, JobStatus
<1>1. CASE Start
  BY <1>1 DEF Start
<1>2. CASE StopBegin
  BY <1>2 DEF StopBegin, LiveWorkers
<1>3. CASE StopEnd
  BY <1>3 DEF StopEnd, AllEnded
<1>4. ASSUME NEW j \in Jobs, Enqueue(j)
      PROVE  TypeOK'
  <2>1. Append(queue, j) \in Seq(Jobs) /\ timers \union {j} \subseteq Jobs
    OBVIOUS
  <2>2. /\ [status EXCEPT ![j] = "DELAYED"] \in [Jobs -> JobStatus]
        /\ [status EXCEPT ![j] = "PENDING"] \in [Jobs -> JobStatus]
    OBVIOUS
  <2>3. /\ queue' \in {queue, Append(queue, j)}
        /\ timers' \in {timers, timers \union {j}}
    BY <1>4 DEF Enqueue
  <2>4. status' \in [Jobs -> JobStatus]
    BY <1>4, <2>2 DEF Enqueue
  <2>5. UNCHANGED <<retries, attempts, pc, cur, kill, running, stopping>>
    BY <1>4 DEF Enqueue
  <2>6. queue' \in Seq(Jobs) /\ timers' \subseteq Jobs
    BY <2>1, <2>3
  <2> QED
    BY <2>4, <2>5, <2>6
<1>5. ASSUME NEW j \in Jobs, DelayExpires(j)
      PROVE  TypeOK'
  BY <1>5 DEF DelayExpires
<1>6. ASSUME NEW j \in Jobs, Cancel(j)
      PROVE  TypeOK'
  BY <1>6 DEF Cancel, Cancellable
<1>7. ASSUME NEW w \in Workers, Take(w)
      PROVE  TypeOK'
  BY <1>7 DEF Take
<1>8. ASSUME NEW w \in Workers, HandlerReturns(w)
      PROVE  TypeOK'
  BY <1>8 DEF HandlerReturns, NextIteration, PlaceTellsStatus
<1>9. ASSUME NEW w \in Workers, HandlerFailsAndRetries(w)
      PROVE  TypeOK'
  BY <1>9 DEF HandlerFailsAndRetries, RetryLeft, CountRetry, PlaceTellsStatus
<1>10. ASSUME NEW w \in Workers, HandlerFailsForGood(w)
       PROVE  TypeOK'
  BY <1>10 DEF HandlerFailsForGood, RetryLeft, NextIteration, PlaceTellsStatus
<1>11. ASSUME NEW w \in Workers, BackoffEnds(w)
       PROVE  TypeOK'
  BY <1>11 DEF BackoffEnds, Requeue, NextIteration, PlaceTellsStatus
<1>12. ASSUME NEW w \in Workers, HandlerRaisesCancelled(w) \/ CancelDelivered(w)
       PROVE  TypeOK'
  BY <1>12 DEF HandlerRaisesCancelled, CancelDelivered, WorkerEnds
<1>13. ASSUME NEW w \in Workers, CancelSwallowed(w)
       PROVE  TypeOK'
  BY <1>13 DEF CancelSwallowed
<1>14. CASE UNCHANGED vars
  BY <1>14 DEF vars
<1> QED
  BY <1>1, <1>2, <1>3, <1>4, <1>5, <1>6, <1>7, <1>8, <1>9, <1>10, <1>11,
     <1>12, <1>13, <1>14 DEF Next, WorkerStep
-----------------------------------------------------------------------------
(* The inductive invariant, one lemma for each action.                     *)

SafeInv ==
    /\ JobPlacedOnce
    /\ PlaceTellsStatus
    /\ StatusTellsPlace
    /\ CallCount
    /\ PoolEmpty

\* A pool that may be started has no worker that holds a job.
LEMMA StartInv ==
    ASSUME IndInv, Start
    PROVE  SafeInv'
<1> USE SchedulerAssumption DEF SchedulerAssumption, IndInv, TypeOK
<1>1. JobPlacedOnce'
  BY DEF Start, PoolEmpty, AllEnded, JobPlacedOnce, PlaceTellsStatus,
     StatusTellsPlace, Queued, Held
<1>2. PlaceTellsStatus'
  BY DEF Start, PoolEmpty, AllEnded, JobPlacedOnce, PlaceTellsStatus,
     StatusTellsPlace, Queued, Held
<1>3. StatusTellsPlace'
  BY DEF Start, PoolEmpty, AllEnded, JobPlacedOnce, PlaceTellsStatus,
     StatusTellsPlace, Queued, Held
<1>4. CallCount'
  BY DEF Start, CallCount, PlaceTellsStatus
<1>5. PoolEmpty'
  BY DEF Start, PoolEmpty, AllEnded
<1> QED
  BY <1>1, <1>2, <1>3, <1>4, <1>5 DEF SafeInv

\* stop() only asks the workers to end.
LEMMA StopBeginInv ==
    ASSUME IndInv, StopBegin
    PROVE  SafeInv'
<1> USE SchedulerAssumption DEF SchedulerAssumption, IndInv, TypeOK
<1>1. JobPlacedOnce'
  BY DEF StopBegin, LiveWorkers, JobPlacedOnce, PlaceTellsStatus,
     StatusTellsPlace, Queued, Held
<1>2. PlaceTellsStatus'
  BY DEF StopBegin, LiveWorkers, JobPlacedOnce, PlaceTellsStatus,
     StatusTellsPlace, Queued, Held
<1>3. StatusTellsPlace'
  BY DEF StopBegin, LiveWorkers, JobPlacedOnce, PlaceTellsStatus,
     StatusTellsPlace, Queued, Held
<1>4. CallCount'
  BY DEF StopBegin, LiveWorkers, CallCount, PlaceTellsStatus
<1>5. PoolEmpty'
  BY DEF StopBegin, LiveWorkers, PoolEmpty, AllEnded
<1> QED
  BY <1>1, <1>2, <1>3, <1>4, <1>5 DEF SafeInv

\* stop() returns to an empty pool.
LEMMA StopEndInv ==
    ASSUME IndInv, StopEnd
    PROVE  SafeInv'
<1> USE SchedulerAssumption DEF SchedulerAssumption, IndInv, TypeOK
<1>1. JobPlacedOnce'
  BY DEF StopEnd, AllEnded, JobPlacedOnce, PlaceTellsStatus, StatusTellsPlace,
     Queued, Held
<1>2. PlaceTellsStatus'
  BY DEF StopEnd, AllEnded, JobPlacedOnce, PlaceTellsStatus, StatusTellsPlace,
     Queued, Held
<1>3. StatusTellsPlace'
  BY DEF StopEnd, AllEnded, JobPlacedOnce, PlaceTellsStatus, StatusTellsPlace,
     Queued, Held
<1>4. CallCount'
  BY DEF StopEnd, AllEnded, CallCount, PlaceTellsStatus
<1>5. PoolEmpty'
  BY DEF StopEnd, AllEnded, PoolEmpty
<1> QED
  BY <1>1, <1>2, <1>3, <1>4, <1>5 DEF SafeInv

\* A new job is in no place yet.
LEMMA EnqueueInv ==
    ASSUME IndInv, NEW j \in Jobs, Enqueue(j)
    PROVE  SafeInv'
<1> USE SchedulerAssumption DEF SchedulerAssumption, IndInv, TypeOK
<1>1. status[j] = "NEW" /\ j \notin Elements(queue) /\ j \notin timers /\ ~Held(j)
  <2>1. status[j] = "NEW"
    BY DEF Enqueue
  <2>2. j \notin Elements(queue) /\ j \notin timers
    BY <2>1 DEF PlaceTellsStatus
  <2>3. ASSUME NEW w \in Workers
        PROVE  cur[w] # j
    <3>1. pc[w] \in {"handler", "backoff"} => cur[w] # j
      BY <2>1 DEF PlaceTellsStatus
    <3>2. pc[w] \in {"idle", "off"} => cur[w] # j
      BY DEF PlaceTellsStatus
    <3>3. pc[w] \in {"off", "idle", "handler", "backoff"}
      OBVIOUS
    <3> QED
      BY <3>1, <3>2, <3>3
  <2> QED
    BY <2>1, <2>2, <2>3 DEF Held
<1>2. /\ Elements(Append(queue, j)) = Elements(queue) \union {j}
      /\ Distinct(Append(queue, j))
  BY <1>1, AppendElement DEF JobPlacedOnce
<1>3. CallCount'
  BY DEF Enqueue, CallCount
<1>4. PoolEmpty'
  BY DEF Enqueue, PoolEmpty, AllEnded
<1>5. CASE j \in Delayed
  <2>a. /\ status' = [status EXCEPT ![j] = "DELAYED"]
        /\ timers' = timers \union {j}
        /\ UNCHANGED <<queue, pc, cur>>
    BY <1>5 DEF Enqueue
  <2> USE <1>1, <2>a
  <2>1. JobPlacedOnce'
    BY DEF JobPlacedOnce, Queued, Held
  <2>2. PlaceTellsStatus'
    <3>1. \A k \in Elements(queue') : status'[k] \in {"PENDING", "CANCELLED", "RETRYING"}
      BY ElementsInSet DEF PlaceTellsStatus
    <3>2. \A k \in timers' : status'[k] \in {"DELAYED", "CANCELLED"}
      BY DEF PlaceTellsStatus
    <3>3. ASSUME NEW w \in Workers
          PROVE  cur'[w] = cur[w] /\ pc'[w] = pc[w]
                   /\ (cur[w] \in Jobs => status'[cur[w]] = status[cur[w]])
      BY DEF Held
    <3> QED
      BY <3>1, <3>2, <3>3 DEF PlaceTellsStatus
  <2>3. StatusTellsPlace'
    BY DEF StatusTellsPlace, Queued
  <2> QED
    BY <1>3, <1>4, <2>1, <2>2, <2>3 DEF SafeInv
<1>6. CASE j \notin Delayed
  <2>a. /\ status' = [status EXCEPT ![j] = "PENDING"]
        /\ queue' = Append(queue, j)
        /\ UNCHANGED <<timers, pc, cur>>
    BY <1>6 DEF Enqueue
  <2> USE <1>1, <1>2, <2>a
  <2>1. JobPlacedOnce'
    BY DEF JobPlacedOnce, Queued, Held
  <2>2. PlaceTellsStatus'
    <3>1. \A k \in Elements(queue') : status'[k] \in {"PENDING", "CANCELLED", "RETRYING"}
      BY ElementsInSet DEF PlaceTellsStatus
    <3>2. \A k \in timers' : status'[k] \in {"DELAYED", "CANCELLED"}
      BY DEF PlaceTellsStatus
    <3>3. ASSUME NEW w \in Workers
          PROVE  cur'[w] = cur[w] /\ pc'[w] = pc[w]
                   /\ (cur[w] \in Jobs => status'[cur[w]] = status[cur[w]])
      BY DEF Held
    <3> QED
      BY <3>1, <3>2, <3>3 DEF PlaceTellsStatus
  <2>3. StatusTellsPlace'
    BY DEF StatusTellsPlace, Queued
  <2> QED
    BY <1>3, <1>4, <2>1, <2>2, <2>3 DEF SafeInv
<1> QED
  BY <1>5, <1>6

\* A job with a timer is neither queued nor held.
LEMMA DelayExpiresInv ==
    ASSUME IndInv, NEW j \in Jobs, DelayExpires(j)
    PROVE  SafeInv'
<1> USE SchedulerAssumption DEF SchedulerAssumption, IndInv, TypeOK
<1>1. /\ Elements(Append(queue, j)) = Elements(queue) \union {j}
      /\ Distinct(Append(queue, j))
  BY AppendElement DEF DelayExpires, JobPlacedOnce, PlaceTellsStatus, Queued, Held
<1>2. JobPlacedOnce'
  BY <1>1 DEF DelayExpires, JobPlacedOnce, PlaceTellsStatus, StatusTellsPlace,
     Queued, Held
<1>3. PlaceTellsStatus'
  BY <1>1 DEF DelayExpires, JobPlacedOnce, PlaceTellsStatus, StatusTellsPlace,
     Queued, Held
<1>4. StatusTellsPlace'
  BY <1>1 DEF DelayExpires, JobPlacedOnce, PlaceTellsStatus, StatusTellsPlace,
     Queued, Held
<1>5. CallCount'
  <2>1. /\ status' = [status EXCEPT ![j] = "PENDING"]
        /\ status[j] \in {"DELAYED", "CANCELLED"}
        /\ UNCHANGED <<retries, attempts>>
    BY DEF DelayExpires, PlaceTellsStatus
  <2> QED
    BY <2>1 DEF CallCount
<1>6. PoolEmpty'
  BY <1>1 DEF DelayExpires, PoolEmpty, AllEnded
<1> QED
  BY <1>2, <1>3, <1>4, <1>5, <1>6 DEF SafeInv

\* A job that is cancelled waits in the queue or for its timer.
LEMMA CancelInv ==
    ASSUME IndInv, NEW j \in Jobs, Cancel(j)
    PROVE  SafeInv'
<1> USE SchedulerAssumption DEF SchedulerAssumption, IndInv, TypeOK
<1>1. JobPlacedOnce'
  BY DEF Cancel, Cancellable, JobPlacedOnce, PlaceTellsStatus, StatusTellsPlace,
     Queued, Held
<1>2. PlaceTellsStatus'
  BY DEF Cancel, Cancellable, JobPlacedOnce, PlaceTellsStatus, StatusTellsPlace,
     Queued, Held
<1>3. StatusTellsPlace'
  BY DEF Cancel, Cancellable, JobPlacedOnce, PlaceTellsStatus, StatusTellsPlace,
     Queued, Held
<1>4. CallCount'
  BY DEF Cancel, Cancellable, CallCount, PlaceTellsStatus
<1>5. PoolEmpty'
  BY DEF Cancel, Cancellable, PoolEmpty, AllEnded
<1> QED
  BY <1>1, <1>2, <1>3, <1>4, <1>5 DEF SafeInv

\* The head of the queue is held by nobody else.
LEMMA TakeInv ==
    ASSUME IndInv, NEW w \in Workers, Take(w)
    PROVE  SafeInv'
<1> USE SchedulerAssumption DEF SchedulerAssumption, IndInv, TypeOK
<1>1. /\ Head(queue) \in Jobs
      /\ Head(queue) \in Elements(queue)
      /\ Elements(Tail(queue)) = Elements(queue) \ {Head(queue)}
      /\ Distinct(Tail(queue))
  BY TakeElement DEF Take, JobPlacedOnce
<1>2. JobPlacedOnce'
  BY <1>1 DEF Take, JobPlacedOnce, PlaceTellsStatus, StatusTellsPlace, Queued, Held
<1>3. PlaceTellsStatus'
  BY <1>1 DEF Take, JobPlacedOnce, PlaceTellsStatus, StatusTellsPlace, Queued, Held
<1>4. StatusTellsPlace'
  BY <1>1 DEF Take, JobPlacedOnce, PlaceTellsStatus, StatusTellsPlace, Queued, Held
<1>5. CallCount'
  <2> SUFFICES ASSUME NEW j \in Jobs
               PROVE  /\ retries'[j] <= MaxRetries[j]
                      /\ attempts'[j] = retries'[j]
                            + IF status'[j] \in {"RUNNING", "COMPLETED", "FAILED"} THEN 1 ELSE 0
                      /\ status'[j] = "FAILED" => retries'[j] = MaxRetries[j]
    BY DEF CallCount
  <2>1. CASE j = Head(queue)
    <3>1. status[j] \in {"PENDING", "CANCELLED", "RETRYING"}
      BY <1>1, <2>1 DEF PlaceTellsStatus
    <3>2. attempts[j] = retries[j] /\ retries[j] <= MaxRetries[j]
      <4>1. status[j] \notin {"RUNNING", "COMPLETED", "FAILED"}
        BY <3>1
      <4>2. attempts[j] = retries[j] + 0 /\ retries[j] <= MaxRetries[j]
        BY <4>1 DEF CallCount
      <4> QED
        BY <4>2
    <3>3. status'[j] = "RUNNING" /\ attempts'[j] = attempts[j] + 1 /\ retries'[j] = retries[j]
      BY <1>1, <2>1 DEF Take
    <3> QED
      BY <3>2, <3>3
  <2>2. CASE j # Head(queue)
    BY <1>1, <2>2 DEF Take, CallCount, PlaceTellsStatus
  <2> QED
    BY <2>1, <2>2
<1>6. PoolEmpty'
  BY <1>1 DEF Take, PoolEmpty, AllEnded
<1> QED
  BY <1>2, <1>3, <1>4, <1>5, <1>6 DEF SafeInv

\* The job of a handler that returns is held by this worker alone.
LEMMA HandlerReturnsInv ==
    ASSUME IndInv, NEW w \in Workers, HandlerReturns(w)
    PROVE  SafeInv'
<1> USE SchedulerAssumption DEF SchedulerAssumption, IndInv, TypeOK
<1>1. JobPlacedOnce'
  BY DEF HandlerReturns, NextIteration, JobPlacedOnce, PlaceTellsStatus,
     StatusTellsPlace, Queued, Held
<1>2. PlaceTellsStatus'
  BY DEF HandlerReturns, NextIteration, JobPlacedOnce, PlaceTellsStatus,
     StatusTellsPlace, Queued, Held
<1>3. StatusTellsPlace'
  BY DEF HandlerReturns, NextIteration, JobPlacedOnce, PlaceTellsStatus,
     StatusTellsPlace, Queued, Held
<1>4. CallCount'
  BY DEF HandlerReturns, NextIteration, CallCount, PlaceTellsStatus
<1>5. PoolEmpty'
  BY DEF HandlerReturns, NextIteration, PoolEmpty, AllEnded
<1> QED
  BY <1>1, <1>2, <1>3, <1>4, <1>5 DEF SafeInv

\* A retry is counted before its back-off.
LEMMA HandlerFailsAndRetriesInv ==
    ASSUME IndInv, NEW w \in Workers, HandlerFailsAndRetries(w)
    PROVE  SafeInv'
<1> USE SchedulerAssumption DEF SchedulerAssumption, IndInv, TypeOK
<1>1. JobPlacedOnce'
  BY DEF HandlerFailsAndRetries, RetryLeft, CountRetry, JobPlacedOnce,
     PlaceTellsStatus, StatusTellsPlace, Queued, Held
<1>2. PlaceTellsStatus'
  BY DEF HandlerFailsAndRetries, RetryLeft, CountRetry, JobPlacedOnce,
     PlaceTellsStatus, StatusTellsPlace, Queued, Held
<1>3. StatusTellsPlace'
  BY DEF HandlerFailsAndRetries, RetryLeft, CountRetry, JobPlacedOnce,
     PlaceTellsStatus, StatusTellsPlace, Queued, Held
<1>4. CallCount'
  <2> SUFFICES ASSUME NEW j \in Jobs
               PROVE  /\ retries'[j] <= MaxRetries[j]
                      /\ attempts'[j] = retries'[j]
                            + IF status'[j] \in {"RUNNING", "COMPLETED", "FAILED"} THEN 1 ELSE 0
                      /\ status'[j] = "FAILED" => retries'[j] = MaxRetries[j]
    BY DEF CallCount
  <2>1. CASE j = cur[w]
    <3>1. status[j] = "RUNNING"
      BY <2>1 DEF HandlerFailsAndRetries, RetryLeft, CountRetry, PlaceTellsStatus
    <3>2. attempts[j] = retries[j] + 1
      BY <3>1 DEF CallCount
    <3>3. /\ status'[j] = "RETRYING" /\ attempts'[j] = attempts[j]
          /\ retries'[j] = retries[j] + 1 /\ retries[j] < MaxRetries[j]
      BY <2>1 DEF HandlerFailsAndRetries, RetryLeft, CountRetry
    <3> QED
      BY <3>2, <3>3
  <2>2. CASE j # cur[w]
    BY <2>2 DEF HandlerFailsAndRetries, RetryLeft, CountRetry, CallCount,
       PlaceTellsStatus
  <2> QED
    BY <2>1, <2>2
<1>5. PoolEmpty'
  BY DEF HandlerFailsAndRetries, RetryLeft, CountRetry, PoolEmpty, AllEnded
<1> QED
  BY <1>1, <1>2, <1>3, <1>4, <1>5 DEF SafeInv

\* A job fails for good when its retries are used up.
LEMMA HandlerFailsForGoodInv ==
    ASSUME IndInv, NEW w \in Workers, HandlerFailsForGood(w)
    PROVE  SafeInv'
<1> USE SchedulerAssumption DEF SchedulerAssumption, IndInv, TypeOK
<1>1. JobPlacedOnce'
  BY DEF HandlerFailsForGood, RetryLeft, NextIteration, JobPlacedOnce,
     PlaceTellsStatus, StatusTellsPlace, Queued, Held
<1>2. PlaceTellsStatus'
  BY DEF HandlerFailsForGood, RetryLeft, NextIteration, JobPlacedOnce,
     PlaceTellsStatus, StatusTellsPlace, Queued, Held
<1>3. StatusTellsPlace'
  BY DEF HandlerFailsForGood, RetryLeft, NextIteration, JobPlacedOnce,
     PlaceTellsStatus, StatusTellsPlace, Queued, Held
<1>4. CallCount'
  <2> SUFFICES ASSUME NEW j \in Jobs
               PROVE  /\ retries'[j] <= MaxRetries[j]
                      /\ attempts'[j] = retries'[j]
                            + IF status'[j] \in {"RUNNING", "COMPLETED", "FAILED"} THEN 1 ELSE 0
                      /\ status'[j] = "FAILED" => retries'[j] = MaxRetries[j]
    BY DEF CallCount
  <2>1. CASE j = cur[w]
    <3>1. status[j] = "RUNNING"
      BY <2>1 DEF HandlerFailsForGood, RetryLeft, PlaceTellsStatus
    <3>2. attempts[j] = retries[j] + 1 /\ retries[j] <= MaxRetries[j]
      BY <3>1 DEF CallCount
    <3>3. /\ status'[j] = "FAILED" /\ attempts'[j] = attempts[j]
          /\ retries'[j] = retries[j] /\ ~(retries[j] < MaxRetries[j])
      BY <2>1 DEF HandlerFailsForGood, RetryLeft
    <3> QED
      BY <3>2, <3>3
  <2>2. CASE j # cur[w]
    BY <2>2 DEF HandlerFailsForGood, RetryLeft, NextIteration, CallCount,
       PlaceTellsStatus
  <2> QED
    BY <2>1, <2>2
<1>5. PoolEmpty'
  BY DEF HandlerFailsForGood, RetryLeft, NextIteration, PoolEmpty, AllEnded
<1> QED
  BY <1>1, <1>2, <1>3, <1>4, <1>5 DEF SafeInv

\* A job in its back-off is in no other place when it is queued again.
LEMMA BackoffEndsInv ==
    ASSUME IndInv, NEW w \in Workers, BackoffEnds(w)
    PROVE  SafeInv'
<1> USE SchedulerAssumption DEF SchedulerAssumption, IndInv, TypeOK
<1>1. /\ Elements(Append(queue, cur[w])) = Elements(queue) \union {cur[w]}
      /\ Distinct(Append(queue, cur[w]))
  BY AppendElement DEF BackoffEnds, Requeue, JobPlacedOnce, PlaceTellsStatus,
     Queued, Held
<1>2. JobPlacedOnce'
  BY <1>1 DEF BackoffEnds, Requeue, NextIteration, JobPlacedOnce,
     PlaceTellsStatus, StatusTellsPlace, Queued, Held
<1>3. PlaceTellsStatus'
  BY <1>1 DEF BackoffEnds, Requeue, NextIteration, JobPlacedOnce,
     PlaceTellsStatus, StatusTellsPlace, Queued, Held
<1>4. StatusTellsPlace'
  BY <1>1 DEF BackoffEnds, Requeue, NextIteration, JobPlacedOnce,
     PlaceTellsStatus, StatusTellsPlace, Queued, Held
<1>5. CallCount'
  BY <1>1 DEF BackoffEnds, Requeue, NextIteration, CallCount, PlaceTellsStatus
<1>6. PoolEmpty'
  BY <1>1 DEF BackoffEnds, Requeue, NextIteration, PoolEmpty, AllEnded
<1> QED
  BY <1>2, <1>3, <1>4, <1>5, <1>6 DEF SafeInv

\* A worker that is cancelled drops its job, which no place claims then.
LEMMA WorkerEndsInv ==
    ASSUME IndInv, NEW w \in Workers, HandlerRaisesCancelled(w) \/ CancelDelivered(w)
    PROVE  SafeInv'
<1> USE SchedulerAssumption DEF SchedulerAssumption, IndInv, TypeOK
<1>1. JobPlacedOnce'
  BY DEF HandlerRaisesCancelled, CancelDelivered, WorkerEnds, JobPlacedOnce,
     Queued, Held
<1>2. PlaceTellsStatus'
  <2>1. /\ UNCHANGED <<status, queue, timers>>
        /\ pc' = [pc EXCEPT ![w] = "off"]
        /\ cur' = [cur EXCEPT ![w] = NoJob]
    BY DEF HandlerRaisesCancelled, CancelDelivered, WorkerEnds
  <2> QED
    BY <2>1 DEF PlaceTellsStatus
<1>3. StatusTellsPlace'
  BY DEF HandlerRaisesCancelled, CancelDelivered, WorkerEnds, JobPlacedOnce,
     PlaceTellsStatus, StatusTellsPlace, Queued, Held
<1>4. CallCount'
  BY DEF HandlerRaisesCancelled, CancelDelivered, WorkerEnds, CallCount,
     PlaceTellsStatus
<1>5. PoolEmpty'
  BY DEF HandlerRaisesCancelled, CancelDelivered, WorkerEnds, PoolEmpty, AllEnded
<1> QED
  BY <1>1, <1>2, <1>3, <1>4, <1>5 DEF SafeInv

\* A swallowed cancellation changes no place.
LEMMA CancelSwallowedInv ==
    ASSUME IndInv, NEW w \in Workers, CancelSwallowed(w)
    PROVE  SafeInv'
<1> USE SchedulerAssumption DEF SchedulerAssumption, IndInv, TypeOK
<1>1. JobPlacedOnce'
  BY DEF CancelSwallowed, JobPlacedOnce, PlaceTellsStatus, StatusTellsPlace,
     Queued, Held
<1>2. PlaceTellsStatus'
  BY DEF CancelSwallowed, JobPlacedOnce, PlaceTellsStatus, StatusTellsPlace,
     Queued, Held
<1>3. StatusTellsPlace'
  BY DEF CancelSwallowed, JobPlacedOnce, PlaceTellsStatus, StatusTellsPlace,
     Queued, Held
<1>4. CallCount'
  BY DEF CancelSwallowed, CallCount, PlaceTellsStatus
<1>5. PoolEmpty'
  BY DEF CancelSwallowed, PoolEmpty, AllEnded
<1> QED
  BY <1>1, <1>2, <1>3, <1>4, <1>5 DEF SafeInv

\* A step of a worker, and any other step, keep the inductive invariant.
LEMMA NextIndInv == IndInv /\ [Next]_vars => IndInv'
<1> SUFFICES ASSUME IndInv, [Next]_vars
             PROVE  IndInv'
  OBVIOUS
<1>1. TypeOK'
  BY NextTypeOK DEF IndInv
<1>2. SafeInv'
  <2>1. CASE Start \/ StopBegin \/ StopEnd
    BY <2>1, StartInv, StopBeginInv, StopEndInv
  <2>2. ASSUME NEW j \in Jobs, Enqueue(j) \/ DelayExpires(j) \/ Cancel(j)
        PROVE  SafeInv'
    BY <2>2, EnqueueInv, DelayExpiresInv, CancelInv
  <2>3. ASSUME NEW w \in Workers, WorkerStep(w)
        PROVE  SafeInv'
    BY <2>3, TakeInv, HandlerReturnsInv, HandlerFailsAndRetriesInv,
       HandlerFailsForGoodInv, BackoffEndsInv, WorkerEndsInv,
       CancelSwallowedInv DEF WorkerStep
  <2>4. CASE UNCHANGED vars
    BY <2>4 DEF vars, IndInv, SafeInv, JobPlacedOnce, PlaceTellsStatus,
       StatusTellsPlace, CallCount, PoolEmpty, AllEnded, Queued, Held
  <2> QED
    BY <2>1, <2>2, <2>3, <2>4 DEF Next
<1> QED
  BY <1>1, <1>2 DEF IndInv, SafeInv

LEMMA InitIndInv == Init => IndInv
<1> SUFFICES ASSUME Init
             PROVE  IndInv
  OBVIOUS
<1>1. TypeOK
  BY InitTypeOK
<1>2. Elements(queue) = {} /\ Distinct(queue)
  BY DEF Init, Elements, Distinct
<1>3. JobPlacedOnce /\ PlaceTellsStatus
  BY <1>2, SchedulerAssumption DEF Init, JobPlacedOnce, PlaceTellsStatus,
     Queued, Held
<1>4. StatusTellsPlace /\ PoolEmpty
  BY DEF Init, StatusTellsPlace, PoolEmpty, AllEnded
<1>5. CallCount
  BY SchedulerAssumption DEF SchedulerAssumption, Init, CallCount
<1> QED
  BY <1>1, <1>3, <1>4, <1>5 DEF IndInv

\* The inductive invariant holds in every reachable state.
THEOREM Invariance == Spec => []IndInv
<1> QED
  BY InitIndInv, NextIndInv, PTL DEF Spec

\* Type correctness, for every instance of the scheduler.
THEOREM TypeCorrect == Spec => []TypeOK
<1>1. IndInv => TypeOK
  BY DEF IndInv
<1> QED
  BY <1>1, Invariance, PTL

\* No job is ever in two places: two workers never run one job at a time.
THEOREM PlacedOnce == Spec => []JobPlacedOnce
<1>1. IndInv => JobPlacedOnce
  BY DEF IndInv
<1> QED
  BY <1>1, Invariance, PTL

\* What get_status says of a waiting or a settled job is true of its place.
THEOREM StatusCorrect == Spec => []StatusMatchesPlace
<1>1. IndInv => StatusMatchesPlace
  <2> SUFFICES ASSUME IndInv, NEW j \in Jobs, status[j] \in {"COMPLETED", "FAILED", "NEW"}
               PROVE  ~Queued(j) /\ ~Held(j) /\ j \notin timers
    BY DEF IndInv, StatusMatchesPlace, StatusTellsPlace, Final
  <2>1. ~Queued(j) /\ j \notin timers
    BY DEF IndInv, PlaceTellsStatus, Queued
  <2>2. ASSUME NEW w \in Workers
        PROVE  cur[w] # j
    <3>1. pc[w] \in {"off", "idle", "handler", "backoff"}
      BY DEF IndInv, TypeOK
    <3> QED
      BY <3>1, SchedulerAssumption DEF SchedulerAssumption, IndInv, PlaceTellsStatus
  <2> QED
    BY <2>1, <2>2 DEF Held
<1> QED
  BY <1>1, Invariance, PTL

\* Every job respects its retry budget, whatever stop() interrupts.
THEOREM WithinBudget == Spec => []RetryBudget
<1>1. IndInv => RetryBudget
  <2> SUFFICES ASSUME IndInv, NEW j \in Jobs
               PROVE  /\ attempts[j] <= MaxRetries[j] + 1
                      /\ status[j] = "FAILED" => attempts[j] = MaxRetries[j] + 1
                      /\ status[j] = "COMPLETED" => attempts[j] = retries[j] + 1
    BY DEF RetryBudget
  <2>1. /\ retries[j] \in Nat /\ attempts[j] \in Nat /\ MaxRetries[j] \in Nat
    BY SchedulerAssumption DEF SchedulerAssumption, IndInv, TypeOK
  <2> QED
    BY <2>1 DEF IndInv, CallCount
<1> QED
  BY <1>1, Invariance, PTL

\* A job in a final status is in no place, so that no step reaches it.
LEMMA FinalStep ==
    ASSUME IndInv, [Next]_vars, NEW j \in Jobs, status[j] \in Final
    PROVE  status'[j] = status[j] /\ attempts'[j] = attempts[j]
<1> USE SchedulerAssumption DEF SchedulerAssumption, IndInv, TypeOK, Final
<1>1. j \notin Elements(queue) /\ j \notin timers
  BY DEF PlaceTellsStatus
<1>2. ASSUME NEW w \in Workers, pc[w] \in {"handler", "backoff"}
      PROVE  cur[w] # j /\ cur[w] \in Jobs
  BY <1>2 DEF PlaceTellsStatus
<1>3. CASE Start \/ StopBegin \/ StopEnd \/ UNCHANGED vars
  BY <1>3 DEF Start, StopBegin, LiveWorkers, StopEnd, AllEnded, vars
<1>4. ASSUME NEW k \in Jobs, Enqueue(k) \/ DelayExpires(k) \/ Cancel(k)
      PROVE  status'[j] = status[j] /\ attempts'[j] = attempts[j]
  <2>1. k # j
    BY <1>1, <1>4 DEF Enqueue, DelayExpires, Cancel, Cancellable
  <2> QED
    BY <2>1, <1>4 DEF Enqueue, DelayExpires, Cancel, Cancellable
<1>5. ASSUME NEW w \in Workers, Take(w)
      PROVE  status'[j] = status[j] /\ attempts'[j] = attempts[j]
  <2>1. Head(queue) # j
    BY <1>1, <1>5, TakeElement DEF Take, JobPlacedOnce
  <2> QED
    BY <2>1, <1>5 DEF Take
<1>6. ASSUME NEW w \in Workers,
             HandlerReturns(w) \/ HandlerFailsAndRetries(w) \/ HandlerFailsForGood(w)
      PROVE  status'[j] = status[j] /\ attempts'[j] = attempts[j]
  <2>1. cur[w] # j
    BY <1>2, <1>6 DEF HandlerReturns, HandlerFailsAndRetries, RetryLeft,
       CountRetry, HandlerFailsForGood
  <2> QED
    BY <2>1, <1>6 DEF HandlerReturns, HandlerFailsAndRetries, RetryLeft,
       CountRetry, HandlerFailsForGood
<1>7. ASSUME NEW w \in Workers,
             BackoffEnds(w) \/ HandlerRaisesCancelled(w) \/ CancelDelivered(w)
               \/ CancelSwallowed(w)
      PROVE  status'[j] = status[j] /\ attempts'[j] = attempts[j]
  BY <1>7 DEF BackoffEnds, Requeue, HandlerRaisesCancelled, CancelDelivered,
     CancelSwallowed
<1> QED
  BY <1>3, <1>4, <1>5, <1>6, <1>7 DEF Next, WorkerStep

\* A final status is never overwritten, and the handler never called again.
THEOREM FinalStays == Spec => FinalIsFinal
<1>1. IndInv /\ [Next]_vars =>
        [\A j \in Jobs : status[j] \in Final =>
            status'[j] = status[j] /\ attempts'[j] = attempts[j]]_vars
  BY FinalStep
<1> QED
  BY <1>1, Invariance, PTL DEF Spec, FinalIsFinal

-----------------------------------------------------------------------------
(* The scheduler implements JobLifecycle: every step is one of the life of *)
(* one job, or changes nothing that a caller sees.                         *)

LEMMA LifecycleStep ==
    ASSUME IndInv, [Next]_vars
    PROVE  [Lifecycle!Next]_Lifecycle!vars
<1> USE SchedulerAssumption DEF SchedulerAssumption, IndInv, TypeOK, Lifecycle!vars
<1>1. CASE Start \/ StopBegin \/ StopEnd \/ UNCHANGED vars
  BY <1>1 DEF Start, StopBegin, LiveWorkers, StopEnd, AllEnded, vars
<1>2. ASSUME NEW j \in Jobs, Enqueue(j)
      PROVE  Lifecycle!Next
  <2>1. Lifecycle!Submit(j)
    BY <1>2 DEF Enqueue, Lifecycle!Submit, Lifecycle!Moves
  <2> QED
    BY <2>1 DEF Lifecycle!Next
<1>3. ASSUME NEW j \in Jobs, DelayExpires(j)
      PROVE  Lifecycle!Next
  <2>1. status[j] \in {"DELAYED", "CANCELLED"}
    BY <1>3 DEF DelayExpires, PlaceTellsStatus
  <2>2. Lifecycle!Due(j)
    BY <1>3, <2>1 DEF DelayExpires, Lifecycle!Due, Lifecycle!Moves
  <2> QED
    BY <2>2 DEF Lifecycle!Next
<1>4. ASSUME NEW j \in Jobs, Cancel(j)
      PROVE  Lifecycle!Next
  <2>1. Lifecycle!Cancel(j)
    BY <1>4 DEF Cancel, Cancellable, Lifecycle!Cancel, Lifecycle!Moves
  <2> QED
    BY <2>1 DEF Lifecycle!Next
<1>5. ASSUME NEW w \in Workers, Take(w)
      PROVE  Lifecycle!Next
  <2>1. Head(queue) \in Jobs /\ Head(queue) \in Elements(queue)
    BY <1>5, TakeElement DEF Take, JobPlacedOnce
  <2>2. status[Head(queue)] \in {"PENDING", "CANCELLED", "RETRYING"}
    BY <2>1 DEF PlaceTellsStatus
  <2>3. attempts[Head(queue)] = retries[Head(queue)] + 0
          /\ retries[Head(queue)] <= MaxRetries[Head(queue)]
    BY <2>1, <2>2 DEF CallCount
  <2>4. Lifecycle!Call(Head(queue))
    BY <1>5, <2>1, <2>2, <2>3 DEF Take, Lifecycle!Call
  <2> QED
    BY <2>1, <2>4 DEF Lifecycle!Next
<1>6. ASSUME NEW w \in Workers,
             HandlerReturns(w) \/ HandlerFailsAndRetries(w) \/ HandlerFailsForGood(w)
      PROVE  Lifecycle!Next
  <2>1. cur[w] \in Jobs /\ status[cur[w]] = "RUNNING"
    BY <1>6 DEF HandlerReturns, HandlerFailsAndRetries, RetryLeft, CountRetry,
       HandlerFailsForGood,
                PlaceTellsStatus
  <2>2. /\ attempts[cur[w]] = retries[cur[w]] + 1
        /\ retries[cur[w]] <= MaxRetries[cur[w]]
    BY <2>1 DEF CallCount
  <2>3. CASE HandlerReturns(w)
    <3>1. Lifecycle!Succeed(cur[w])
      BY <2>1, <2>3 DEF HandlerReturns, Lifecycle!Succeed, Lifecycle!Moves
    <3> QED
      BY <2>1, <3>1 DEF Lifecycle!Next
  <2>4. CASE HandlerFailsAndRetries(w)
    <3>1. Lifecycle!Retry(cur[w])
      BY <2>1, <2>2, <2>4 DEF HandlerFailsAndRetries, RetryLeft, CountRetry,
         Lifecycle!Retry, Lifecycle!Moves
    <3> QED
      BY <2>1, <3>1 DEF Lifecycle!Next
  <2>5. CASE HandlerFailsForGood(w)
    <3>1. Lifecycle!GiveUp(cur[w])
      BY <2>1, <2>2, <2>5 DEF HandlerFailsForGood, RetryLeft, Lifecycle!GiveUp,
         Lifecycle!Moves
    <3> QED
      BY <2>1, <3>1 DEF Lifecycle!Next
  <2> QED
    BY <1>6, <2>3, <2>4, <2>5
<1>7. ASSUME NEW w \in Workers,
             BackoffEnds(w) \/ HandlerRaisesCancelled(w) \/ CancelDelivered(w)
               \/ CancelSwallowed(w)
      PROVE  UNCHANGED Lifecycle!vars
  BY <1>7 DEF BackoffEnds, Requeue, HandlerRaisesCancelled, CancelDelivered,
     CancelSwallowed
<1> QED
  BY <1>1, <1>2, <1>3, <1>4, <1>5, <1>6, <1>7 DEF Next, WorkerStep

\* A caller of the scheduler sees jobs that follow JobLifecycle.
THEOREM Implementation == Spec => ImplementsLifecycle
<1>1. Init => Lifecycle!Init
  BY DEF Init, Lifecycle!Init
<1>2. IndInv /\ [Next]_vars => [Lifecycle!Next]_Lifecycle!vars
  BY LifecycleStep
<1> QED
  BY <1>1, <1>2, Invariance, PTL DEF Spec, ImplementsLifecycle, Lifecycle!Spec

=============================================================================
