----------------------------- MODULE JobLifecycle -----------------------------
(***************************************************************************)
(* What Scheduler.enqueue promises to its caller about one job, without    *)
(* queue, timers or workers: the statuses get_status may answer one after  *)
(* the other, and how often the handler is called.  Scheduler implements   *)
(* this specification.                                                     *)
(***************************************************************************)
EXTENDS Naturals

CONSTANTS
    Jobs,        \* the jobs that may be enqueued
    MaxRetries   \* Job.max_retries of every job

VARIABLES
    status,      \* JobStatus of every job
    attempts     \* how often the handler was called

vars == <<status, attempts>>

Init ==
    /\ status = [j \in Jobs |-> "NEW"]
    /\ attempts = [j \in Jobs |-> 0]

\* The job j goes from one of the statuses in From to the status to.
Moves(j, From, to) ==
    /\ status[j] \in From
    /\ status' = [status EXCEPT ![j] = to]
    /\ UNCHANGED attempts

Submit(j) == Moves(j, {"NEW"}, "PENDING") \/ Moves(j, {"NEW"}, "DELAYED")

\* The delay is over; a cancellation in the meantime is forgotten.
Due(j) == Moves(j, {"DELAYED", "CANCELLED"}, "PENDING")

Cancel(j) == Moves(j, {"PENDING", "DELAYED"}, "CANCELLED")

\* The handler is called, as long as the budget of calls allows it.
Call(j) ==
    /\ status[j] \in {"PENDING", "CANCELLED", "RETRYING"}
    /\ attempts[j] <= MaxRetries[j]
    /\ status' = [status EXCEPT ![j] = "RUNNING"]
    /\ attempts' = [attempts EXCEPT ![j] = @ + 1]

Succeed(j) == Moves(j, {"RUNNING"}, "COMPLETED")

Retry(j) == attempts[j] <= MaxRetries[j] /\ Moves(j, {"RUNNING"}, "RETRYING")

\* A job fails for good only when its calls are used up.
GiveUp(j) == attempts[j] = MaxRetries[j] + 1 /\ Moves(j, {"RUNNING"}, "FAILED")

Next ==
    \E j \in Jobs :
        \/ Submit(j)
        \/ Due(j)
        \/ Cancel(j)
        \/ Call(j)
        \/ Succeed(j)
        \/ Retry(j)
        \/ GiveUp(j)

Spec == Init /\ [][Next]_vars
=============================================================================
