------------------------------ MODULE Scheduler ------------------------------
(***************************************************************************)
(* kernel/scheduler/scheduler.py: the worker pool that runs one-shot jobs. *)
(*                                                                         *)
(* The code is asyncio: what happens between two suspensions is atomic.    *)
(* The scheduler's lock is never held over a suspension, and put() on the  *)
(* unbounded queue never suspends, so an action below is one stretch of    *)
(* code from a suspension point (queue.get, the handler, the back-off      *)
(* sleep, the delay sleep, the gather of stop) to the next one.            *)
(***************************************************************************)
EXTENDS Naturals, Sequences, FiniteSets

CONSTANTS
    Jobs,        \* the jobs that may be enqueued, each one once
    Workers,     \* the worker slots: range(max_workers)
    MaxRetries,  \* Job.max_retries of every job
    Delayed,     \* the jobs enqueued with delay > 0
    Unruly,      \* the jobs whose handler may hang, or raise CancelledError
    NoJob        \* what a worker without a job holds

ASSUME SchedulerAssumption ==
    /\ MaxRetries \in [Jobs -> Nat]
    /\ Delayed \subseteq Jobs
    /\ Unruly \subseteq Jobs
    /\ NoJob \notin Jobs

VARIABLES
    status,    \* JobStatus of every job; NEW before enqueue creates it
    retries,   \* Job.retry_count
    attempts,  \* history: how often the handler of the job was called
    queue,     \* the asyncio.Queue of jobs
    timers,    \* jobs whose _delay_enqueue task is sleeping
    pc,        \* where the task of a worker is suspended; "off" once it ended
    cur,       \* the job a worker is executing
    kill,      \* workers with a CancelledError that is not delivered yet
    running,   \* Scheduler._running
    stopping   \* stop() is waiting in gather for the workers to end

vars == <<status, retries, attempts, queue, timers, pc, cur, kill, running,
          stopping>>

JobStatus == {"NEW", "PENDING", "RUNNING", "COMPLETED", "FAILED", "CANCELLED",
              "RETRYING", "DELAYED"}

Final == {"COMPLETED", "FAILED"}

Init ==
    /\ status = [j \in Jobs |-> "NEW"]
    /\ retries = [j \in Jobs |-> 0]
    /\ attempts = [j \in Jobs |-> 0]
    /\ queue = <<>>
    /\ timers = {}
    /\ pc = [w \in Workers |-> "off"]
    /\ cur = [w \in Workers |-> NoJob]
    /\ kill = {}
    /\ running = FALSE
    /\ stopping = FALSE

-----------------------------------------------------------------------------
(* Conditions and values the actions share.  The operators named X_... are  *)
(* mutants of X: each is a plausible bug that a property must notice.       *)

\* _handle_failure: the job has a retry left.
RetryLeft_OneMore(j) == retries[j] <= MaxRetries[j]
RetryLeft_Never(j) == FALSE
RetryLeft(j) == retries[j] < MaxRetries[j]

CountRetry(j) == retries[j] + 1

\* cancel() finds the job in a status it may cancel.
Cancellable_Any(j) == status[j] # "NEW"
Cancellable(j) == status[j] \in {"PENDING", "DELAYED"}

\* The tasks stop() cancels: done ones ignore it.
LiveWorkers_Busy == {w \in Workers : cur[w] # NoJob}
LiveWorkers == {w \in Workers : pc[w] # "off"}

\* The gather of stop() returns.
AllEnded == \A w \in Workers : pc[w] = "off"

\* The put() after the back-off.
Requeue_Forgotten(w) == UNCHANGED queue
Requeue(w) == queue' = Append(queue, cur[w])

-----------------------------------------------------------------------------
(* The calls of the scheduler's users.                                     *)

\* start(): the kernel starts a scheduler that is not running (lifespan).
Start ==
    /\ ~running /\ ~stopping
    /\ running' = TRUE
    /\ pc' = [w \in Workers |-> "idle"]
    /\ UNCHANGED <<status, retries, attempts, queue, timers, cur, kill, stopping>>

\* stop(), up to its gather: every worker that still lives is cancelled.
StopBegin ==
    /\ running
    /\ running' = FALSE
    /\ stopping' = TRUE
    /\ kill' = LiveWorkers
    /\ UNCHANGED <<status, retries, attempts, queue, timers, pc, cur>>

\* stop(), when the gather returns because every worker has ended.
StopEnd ==
    /\ stopping /\ AllEnded
    /\ stopping' = FALSE
    /\ UNCHANGED <<status, retries, attempts, queue, timers, pc, cur, kill, running>>

\* Mutant: the "else" is lost, so that a delayed job is queued at once as well.
Enqueue_NoElse(j) ==
    /\ status[j] = "NEW"
    /\ status' = [status EXCEPT ![j] = IF j \in Delayed THEN "DELAYED" ELSE "PENDING"]
    /\ timers' = IF j \in Delayed THEN timers \union {j} ELSE timers
    /\ queue' = Append(queue, j)
    /\ UNCHANGED <<retries, attempts, pc, cur, kill, running, stopping>>

Enqueue(j) ==
    /\ status[j] = "NEW"
    /\ \/ /\ j \in Delayed
          /\ status' = [status EXCEPT ![j] = "DELAYED"]
          /\ timers' = timers \union {j}
          /\ UNCHANGED queue
       \/ /\ j \notin Delayed
          /\ status' = [status EXCEPT ![j] = "PENDING"]
          /\ queue' = Append(queue, j)
          /\ UNCHANGED timers
    /\ UNCHANGED <<retries, attempts, pc, cur, kill, running, stopping>>

\* The delay is over. The task is not one of the workers: stop() leaves it
\* alone, and cancel() too, so the job becomes PENDING whatever it was.
DelayExpires(j) ==
    /\ j \in timers
    /\ timers' = timers \ {j}
    /\ status' = [status EXCEPT ![j] = "PENDING"]
    /\ queue' = Append(queue, j)
    /\ UNCHANGED <<retries, attempts, pc, cur, kill, running, stopping>>

\* cancel(): only the status changes, the queue and the timer keep the job.
Cancel(j) ==
    /\ Cancellable(j)
    /\ status' = [status EXCEPT ![j] = "CANCELLED"]
    /\ UNCHANGED <<retries, attempts, queue, timers, pc, cur, kill, running,
                   stopping>>

-----------------------------------------------------------------------------
(* The steps of a worker: _worker_loop, _execute_job, _handle_failure.     *)

\* The worker w leaves the job it held and tests the loop condition again.
NextIteration(w) ==
    /\ pc' = [pc EXCEPT ![w] = IF running THEN "idle" ELSE "off"]
    /\ cur' = [cur EXCEPT ![w] = NoJob]

\* The task of w ends: a CancelledError breaks the loop.
WorkerEnds(w) ==
    /\ pc' = [pc EXCEPT ![w] = "off"]
    /\ cur' = [cur EXCEPT ![w] = NoJob]

\* queue.get() returns and the handler is called, whatever the status is.
Take(w) ==
    /\ pc[w] = "idle" /\ w \notin kill
    /\ queue # <<>>
    /\ queue' = Tail(queue)
    /\ cur' = [cur EXCEPT ![w] = Head(queue)]
    /\ pc' = [pc EXCEPT ![w] = "handler"]
    /\ status' = [status EXCEPT ![Head(queue)] = "RUNNING"]
    /\ attempts' = [attempts EXCEPT ![Head(queue)] = @ + 1]
    /\ UNCHANGED <<retries, timers, kill, running, stopping>>

HandlerReturns(w) ==
    /\ pc[w] = "handler" /\ w \notin kill
    /\ status' = [status EXCEPT ![cur[w]] = "COMPLETED"]
    /\ NextIteration(w)
    /\ UNCHANGED <<retries, attempts, queue, timers, kill, running, stopping>>

\* The handler raises or its timeout fires, and a retry is left: the worker
\* itself sleeps the back-off.
HandlerFailsAndRetries(w) ==
    /\ pc[w] = "handler" /\ w \notin kill
    /\ RetryLeft(cur[w])
    /\ retries' = [retries EXCEPT ![cur[w]] = CountRetry(cur[w])]
    /\ status' = [status EXCEPT ![cur[w]] = "RETRYING"]
    /\ pc' = [pc EXCEPT ![w] = "backoff"]
    /\ UNCHANGED <<attempts, queue, timers, cur, kill, running, stopping>>

HandlerFailsForGood(w) ==
    /\ pc[w] = "handler" /\ w \notin kill
    /\ ~RetryLeft(cur[w])
    /\ status' = [status EXCEPT ![cur[w]] = "FAILED"]
    /\ NextIteration(w)
    /\ UNCHANGED <<retries, attempts, queue, timers, kill, running, stopping>>

\* The back-off sleep is over: the job is queued again, still RETRYING.
BackoffEnds(w) ==
    /\ pc[w] = "backoff" /\ w \notin kill
    /\ Requeue(w)
    /\ NextIteration(w)
    /\ UNCHANGED <<status, retries, attempts, timers, kill, running, stopping>>

\* The handler itself raises CancelledError: "except Exception" does not
\* catch it, the loop of the worker does, and leaves the job RUNNING.
HandlerRaisesCancelled(w) ==
    /\ pc[w] = "handler" /\ w \notin kill
    /\ cur[w] \in Unruly
    /\ WorkerEnds(w)
    /\ UNCHANGED <<status, retries, attempts, queue, timers, kill, running,
                   stopping>>

\* The cancellation of stop() ends the worker where it is suspended: in
\* queue.get, in the handler or in the back-off sleep.
CancelDelivered(w) ==
    /\ w \in kill
    /\ kill' = kill \ {w}
    /\ WorkerEnds(w)
    /\ UNCHANGED <<status, retries, attempts, queue, timers, running, stopping>>

\* The handler swallows the cancellation of stop() and goes on.
CancelSwallowed(w) ==
    /\ w \in kill
    /\ pc[w] = "handler"
    /\ kill' = kill \ {w}
    /\ UNCHANGED <<status, retries, attempts, queue, timers, pc, cur, running,
                   stopping>>

WorkerStep(w) ==
    \/ Take(w)
    \/ HandlerReturns(w)
    \/ HandlerFailsAndRetries(w)
    \/ HandlerFailsForGood(w)
    \/ BackoffEnds(w)
    \/ HandlerRaisesCancelled(w)
    \/ CancelDelivered(w)
    \/ CancelSwallowed(w)

Next ==
    \/ Start
    \/ StopBegin
    \/ StopEnd
    \/ \E j \in Jobs : Enqueue(j) \/ DelayExpires(j) \/ Cancel(j)
    \/ \E w \in Workers : WorkerStep(w)

Spec == Init /\ [][Next]_vars

\* The event loop runs every task that is ready; a handler ends unless it is
\* one of the unruly ones. Nobody has to call start, stop, enqueue or cancel.
OrderlyStep(w) == WorkerStep(w) /\ (pc[w] = "handler" => cur[w] \notin Unruly \/ w \in kill)

Fairness ==
    /\ \A w \in Workers : WF_vars(OrderlyStep(w))
    /\ \A j \in Jobs : WF_vars(DelayExpires(j))
    /\ WF_vars(StopEnd)

FairSpec == Spec /\ Fairness

-----------------------------------------------------------------------------
(* Properties.                                                             *)

TypeOK ==
    /\ status \in [Jobs -> JobStatus]
    /\ retries \in [Jobs -> Nat]
    /\ attempts \in [Jobs -> Nat]
    /\ queue \in Seq(Jobs)
    /\ timers \subseteq Jobs
    /\ pc \in [Workers -> {"off", "idle", "handler", "backoff"}]
    /\ cur \in [Workers -> Jobs \union {NoJob}]
    /\ kill \subseteq Workers
    /\ running \in BOOLEAN
    /\ stopping \in BOOLEAN

Elements(q) == {q[i] : i \in 1..Len(q)}
Distinct(q) == \A i, k \in 1..Len(q) : q[i] = q[k] => i = k

Queued(j) == j \in Elements(queue)
Held(j) == \E w \in Workers : cur[w] = j

\* A job is in one place at a time: at most once in the queue, with at most
\* one worker, and never in two of queue, worker and timer. Otherwise two
\* workers could run one handler at once, and a late failure could overwrite
\* a COMPLETED status.
JobPlacedOnce ==
    /\ Distinct(queue)
    /\ \A v, w \in Workers : cur[v] = cur[w] /\ cur[v] # NoJob => v = w
    /\ \A j \in Jobs :
         /\ ~(Queued(j) /\ Held(j))
         /\ ~(Queued(j) /\ j \in timers)
         /\ ~(Held(j) /\ j \in timers)

\* What get_status answers agrees with where the job is. A job that still
\* waits is never forgotten, and a settled one is nowhere to be run again.
StatusMatchesPlace ==
    \A j \in Jobs :
        /\ status[j] = "PENDING" => Queued(j)
        /\ status[j] = "DELAYED" => j \in timers
        /\ status[j] = "CANCELLED" => Queued(j) \/ j \in timers
        /\ status[j] \in Final \union {"NEW"} => ~Queued(j) /\ ~Held(j) /\ j \notin timers

\* The handler of a job is called once for each retry and once more, never
\* beyond max_retries, and a job is FAILED only when its budget is used up.
RetryBudget ==
    \A j \in Jobs :
        /\ attempts[j] <= MaxRetries[j] + 1
        /\ status[j] = "FAILED" => attempts[j] = MaxRetries[j] + 1
        /\ status[j] = "COMPLETED" => attempts[j] = retries[j] + 1

\* The inductive invariant behind the four above: what each place says of
\* the status of the jobs in it, the count of the calls of every handler,
\* and that a pool that may be started has no worker left.
PlaceTellsStatus ==
    /\ \A j \in Elements(queue) : status[j] \in {"PENDING", "CANCELLED", "RETRYING"}
    /\ \A j \in timers : status[j] \in {"DELAYED", "CANCELLED"}
    /\ \A w \in Workers :
         /\ pc[w] = "handler" => cur[w] \in Jobs /\ status[cur[w]] = "RUNNING"
         /\ pc[w] = "backoff" => cur[w] \in Jobs /\ status[cur[w]] = "RETRYING"
         /\ pc[w] \in {"idle", "off"} => cur[w] = NoJob

StatusTellsPlace ==
    \A j \in Jobs :
        /\ status[j] = "PENDING" => Queued(j)
        /\ status[j] = "DELAYED" => j \in timers
        /\ status[j] = "CANCELLED" => Queued(j) \/ j \in timers

CallCount ==
    \A j \in Jobs :
        /\ retries[j] <= MaxRetries[j]
        /\ attempts[j] = retries[j]
              + IF status[j] \in {"RUNNING", "COMPLETED", "FAILED"} THEN 1 ELSE 0
        /\ status[j] = "FAILED" => retries[j] = MaxRetries[j]

PoolEmpty == running \/ stopping \/ AllEnded

IndInv ==
    /\ TypeOK
    /\ JobPlacedOnce
    /\ PlaceTellsStatus
    /\ StatusTellsPlace
    /\ CallCount
    /\ PoolEmpty

\* A COMPLETED or FAILED job never changes its status again, nor is its
\* handler called again.
FinalIsFinal ==
    [][\A j \in Jobs : status[j] \in Final =>
          status'[j] = status[j] /\ attempts'[j] = attempts[j]]_vars
\* The scheduler implements the life of a job that its callers rely on.
Lifecycle == INSTANCE JobLifecycle
             WITH status <- status, attempts <- attempts
ImplementsLifecycle == Lifecycle!Spec

\* While the pool runs, a queued or delayed job with a handler that ends is
\* settled, however many other jobs hold a worker in their back-off sleep, as
\* long as the unruly jobs are fewer than the workers.
QueuedJobsSettle ==
    \A j \in Jobs \ Unruly :
        (Queued(j) \/ j \in timers) ~> (status[j] \in Final \/ ~running)

\* stop() returns, unless it waits for an unruly handler that swallows its
\* cancellation: idle workers, sleeping workers and handlers all end.
StopReturns == stopping ~> (~stopping \/ \E w \in Workers : cur[w] \in Unruly)

-----------------------------------------------------------------------------
(* What the documents and tests say, and the code does not do.             *)

\* cancel() answers True for a job that waits: the job should not run.
CancelledNeverRuns ==
    [][\A j \in Jobs : status[j] = "CANCELLED" => status'[j] # "RUNNING"]_vars
=============================================================================
