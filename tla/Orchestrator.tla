----------------------------- MODULE Orchestrator -----------------------------
(***************************************************************************)
(* backend/app: the /ws endpoint of main.py, the WebSocketManager and the  *)
(* AIOrchestrator, which run in one asyncio loop.                          *)
(*                                                                         *)
(* Each connection is served by a coroutine of its own, which turns what   *)
(* the client sends into tasks on task_queue.  One worker, _process_loop,  *)
(* takes them off, asks the AI engine, publishes the event task.completed  *)
(* and broadcasts the result.  A step ends where a coroutine is suspended. *)
(***************************************************************************)
EXTENDS Integers, Sequences

CONSTANTS
    Clients,    \* WebSocket connections, each of which connects once
    Commands,   \* what the clients send, each once
    From,       \* the connection a command comes from
    User,       \* user_id of the message, or NoUser
    Text,       \* the commands that are text (or voice): the AI parses them
    Shapeless,  \* those that end up as no JSON object, or with no object for
                \* their parameters: _execute_task raises AttributeError
    Unruly,     \* those of whose events a subscriber may raise CancelledError
    Misaddressed, \* those whose user_id is no string, but a list or an object
    Anonymous,  \* the key connect() files a connection without a user under
    NoUser, NoTask

\* The keys of _connections.
Uids == ({User[c] : c \in Commands} \ {NoUser}) \union {Anonymous}

ASSUME OrchestratorAssumption ==
    /\ From \in [Commands -> Clients]
    /\ User \in [Commands -> Uids \union {NoUser}]
    /\ Text \subseteq Commands /\ Shapeless \subseteq Commands
    /\ Unruly \subseteq Commands /\ Misaddressed \subseteq Commands
    /\ NoTask \notin Commands
    /\ Anonymous # NoUser

VARIABLES
    open,         \* the socket of a client is open
    serve,        \* where the endpoint of a client is suspended
    request,      \* the command it works on
    connections,  \* WebSocketManager._connections
    queue,        \* task_queue
    running,      \* _running
    loop,         \* where _process_loop is suspended
    state,        \* OrchestratorState, which /health shows
    current,      \* the task in work
    targets,      \* the sockets broadcast() has still to send to
    reply,        \* history: what a command was answered
    delivered,    \* history: <<c, w>> when w was sent the result of c
    done, lost,   \* history: the tasks carried out, and those dropped by an error
    late,         \* history: the tasks taken after shutdown()
    events        \* history: the events published, in order

clientVars == <<open, serve, request, connections, reply>>
pastVars == <<delivered, done, lost, late>>
loopVars == <<loop, state, current, targets, pastVars>>
vars == <<clientVars, queue, running, loopVars, events>>

Init ==
    /\ open = [w \in Clients |-> FALSE]
    /\ serve = [w \in Clients |-> "new"]
    /\ request = [w \in Clients |-> NoTask]
    /\ connections = [u \in Uids |-> {}]
    /\ reply = [c \in Commands |-> "none"]
    /\ queue = <<>>
    /\ running = TRUE
    /\ loop = "get"
    /\ state = "idle"
    /\ current = NoTask
    /\ targets = {}
    /\ delivered = {} /\ done = {} /\ lost = {} /\ late = {}
    /\ events = <<>>

-----------------------------------------------------------------------------
\* The endpoint calls connect() without a user_id.
Connect(w) ==
    /\ serve[w] = "new"
    /\ open' = [open EXCEPT ![w] = TRUE]
    /\ serve' = [serve EXCEPT ![w] = "receive"]
    /\ connections' = [connections EXCEPT ![Anonymous] = @ \union {w}]
    /\ UNCHANGED <<request, reply, queue, running, events, loopVars>>

\* The client, or the network, closes the socket.
Close(w) ==
    /\ open[w]
    /\ open' = [open EXCEPT ![w] = FALSE]
    /\ UNCHANGED <<serve, request, connections, reply, queue, running, events, loopVars>>

\* disconnect(): the connection is taken out of the table.
Disconnect(w) == connections' = [u \in Uids |-> connections[u] \ {w}]

\* receive_text raises WebSocketDisconnect.
ReceiveDisconnect(w) ==
    /\ serve[w] = "receive"
    /\ ~open[w]
    /\ serve' = [serve EXCEPT ![w] = "ended"]
    /\ Disconnect(w)
    /\ UNCHANGED <<open, request, reply, queue, running, events, loopVars>>

\* What is no JSON object raises an exception nobody handles: the server closes
\* the socket, and the connection stays in the table for ever.
ReceiveGarbage(w) ==
    /\ serve[w] = "receive"
    /\ open[w]
    /\ serve' = [serve EXCEPT ![w] = "ended"]
    /\ open' = [open EXCEPT ![w] = FALSE]
    /\ UNCHANGED <<request, connections, reply, queue, running, events, loopVars>>

\* Mutant: the latest command is served first.
Put_Front(c) == queue' = <<c>> \o queue

Put(c) == queue' = Append(queue, c)

\* Mutant: task.created is not published.
Announce_Never(c) == UNCHANGED events

\* publish() records the event before it is suspended.
Announce(c) == events' = Append(events, <<"created", c>>)

\* process_command up to the gather of publish: put() on an unbounded queue
\* does not suspend, so no worker comes between the two.
Enqueue(w, c) ==
    /\ Put(c)
    /\ Announce(c)
    /\ serve' = [serve EXCEPT ![w] = "announce"]

\* A command that is text is sent to the AI first; others are taken as they are.
Receive(w, c) ==
    /\ serve[w] = "receive"
    /\ open[w]
    /\ From[c] = w /\ reply[c] = "none"
    /\ request' = [request EXCEPT ![w] = c]
    /\ reply' = [reply EXCEPT ![c] = "waiting"]
    /\ IF c \in Text
       THEN serve' = [serve EXCEPT ![w] = "parse"] /\ UNCHANGED <<queue, events>>
       ELSE Enqueue(w, c)
    /\ UNCHANGED <<open, connections, running, loopVars>>

\* generate_json turns every failure of the AI into an object: it is queued too.
Parsed(w) ==
    /\ serve[w] = "parse"
    /\ Enqueue(w, request[w])
    /\ UNCHANGED <<open, request, connections, reply, running, loopVars>>

\* The AI answers without a content: json.loads(None) raises TypeError.
ParseRaises(w) ==
    /\ serve[w] = "parse"
    /\ serve' = [serve EXCEPT ![w] = "respond"]
    /\ UNCHANGED <<open, request, connections, reply, queue, running, events, loopVars>>

\* A subscriber of task.created raises CancelledError, which the clauses of
\* process_command and of the endpoint let through: the server closes the
\* socket, the connection stays in the table and the task in the queue.
AnnounceCancelled(w) ==
    /\ serve[w] = "announce"
    /\ request[w] \in Unruly
    /\ request' = [request EXCEPT ![w] = NoTask]
    /\ serve' = [serve EXCEPT ![w] = "ended"]
    /\ open' = [open EXCEPT ![w] = FALSE]
    /\ UNCHANGED <<connections, reply, queue, running, events, loopVars>>

\* The response is sent: the endpoint receives again.
Respond(w) ==
    /\ serve[w] \in {"announce", "respond"}
    /\ open[w]
    /\ reply' = [reply EXCEPT ![request[w]] =
                     IF serve[w] = "announce" THEN "queued" ELSE "error"]
    /\ request' = [request EXCEPT ![w] = NoTask]
    /\ serve' = [serve EXCEPT ![w] = "receive"]
    /\ UNCHANGED <<open, connections, queue, running, events, loopVars>>

\* The client has gone: send_json raises WebSocketDisconnect or another error.
RespondFails(w) ==
    /\ serve[w] \in {"announce", "respond"}
    /\ ~open[w]
    /\ request' = [request EXCEPT ![w] = NoTask]
    /\ serve' = [serve EXCEPT ![w] = "ended"]
    /\ Disconnect(w) \/ UNCHANGED connections
    /\ UNCHANGED <<open, reply, queue, running, events, loopVars>>

-----------------------------------------------------------------------------
\* Mutant: _running is not looked at again.
Again_Always == "get"

\* `while self._running` at the end of a round.
Again == IF running THEN "get" ELSE "ended"

\* Mutant: an error ends the loop.
AfterError_Ends == "ended"

\* Every exception but CancelledError is logged, and the loop sleeps a second.
AfterError == "sleep"

Taken == Tail(queue)

\* queue.get() returns, and _execute_task runs up to the AI, or raises at once.
Take ==
    /\ loop = "get"
    /\ queue # <<>>
    /\ queue' = Taken
    /\ late' = IF running THEN late ELSE late \union {Head(queue)}
    /\ IF Head(queue) \in Shapeless
       THEN /\ lost' = lost \union {Head(queue)}
            /\ state' = "error"
            /\ loop' = AfterError
            /\ UNCHANGED current
       ELSE /\ current' = Head(queue)
            /\ state' = "processing"
            /\ loop' = "generate"
            /\ UNCHANGED lost
    /\ UNCHANGED <<clientVars, running, events, targets, delivered, done>>

\* generate() returns, with an answer or with a text that tells the error.
Generated ==
    /\ loop = "generate"
    /\ events' = Append(events, <<"completed", current>>)
    /\ loop' = "publish"
    /\ UNCHANGED <<clientVars, queue, running, state, current, targets, pastVars>>

\* A subscriber raises CancelledError, publish() hands it on: the loop breaks
\* off with its state as it is.
PublishCancelled ==
    /\ loop = "publish"
    /\ current \in Unruly
    /\ loop' = "ended"
    /\ UNCHANGED <<clientVars, queue, running, events, state, current, targets, pastVars>>

\* broadcast(): the connections of the user, or all of them without a user.
Addressees(c) ==
    IF User[c] = NoUser THEN UNION {connections[u] : u \in Uids} ELSE connections[User[c]]

Published ==
    /\ loop = "publish"
    /\ current \notin Misaddressed
    /\ targets' = Addressees(current)
    /\ loop' = "broadcast"
    /\ UNCHANGED <<clientVars, queue, running, events, state, current, pastVars>>

\* The table cannot be asked for such a user: broadcast() raises, and the task
\* that was reported as completed ends as an error.
BroadcastRaises ==
    /\ loop = "publish"
    /\ current \in Misaddressed
    /\ lost' = lost \union {current}
    /\ current' = NoTask
    /\ state' = "error"
    /\ loop' = AfterError
    /\ UNCHANGED <<clientVars, queue, running, events, targets, delivered, done, late>>

\* Mutant: an error of send() leaves broadcast().
Rest_Aborted(w) == IF open[w] THEN targets \ {w} ELSE {}

\* send() swallows its errors.
Rest(w) == targets \ {w}

Send(w) ==
    /\ loop = "broadcast"
    /\ w \in targets
    /\ targets' = Rest(w)
    /\ delivered' = IF open[w] THEN delivered \union {<<current, w>>} ELSE delivered
    /\ UNCHANGED <<clientVars, queue, running, events, loop, state, current, done, lost,
                   late>>

Finish ==
    /\ loop = "broadcast"
    /\ targets = {}
    /\ done' = done \union {current}
    /\ current' = NoTask
    /\ state' = "idle"
    /\ loop' = Again
    /\ UNCHANGED <<clientVars, queue, running, events, targets, delivered, lost, late>>

\* The second is over; the state stays "error" until there is a task.
WakeUp ==
    /\ loop = "sleep"
    /\ loop' = Again
    /\ UNCHANGED <<clientVars, queue, running, events, state, current, targets, pastVars>>

\* shutdown(): the worker is not woken.
Shutdown ==
    /\ running
    /\ running' = FALSE
    /\ UNCHANGED <<clientVars, queue, events, loopVars>>

\* The end of the process cancels the worker wherever it is suspended.
LoopCancelled ==
    /\ ~running
    /\ loop # "ended"
    /\ loop' = "ended"
    /\ UNCHANGED <<clientVars, queue, running, events, state, current, targets, pastVars>>

Next ==
    \/ \E w \in Clients :
         \/ Connect(w) \/ Close(w) \/ ReceiveDisconnect(w) \/ ReceiveGarbage(w)
         \/ \E c \in Commands : Receive(w, c)
         \/ Parsed(w) \/ ParseRaises(w) \/ AnnounceCancelled(w) \/ Respond(w) \/ RespondFails(w)
         \/ Send(w)
    \/ Take \/ Generated \/ PublishCancelled \/ Published \/ BroadcastRaises
    \/ Finish \/ WakeUp \/ Shutdown \/ LoopCancelled

Spec == Init /\ [][Next]_vars

\* The worker is scheduled, the AI answers or fails, and no send blocks for ever.
Fairness ==
    /\ WF_vars(Take) /\ WF_vars(Generated) /\ WF_vars(Published)
    /\ WF_vars(BroadcastRaises) /\ WF_vars(Finish) /\ WF_vars(WakeUp)
    /\ \A w \in Clients : WF_vars(Send(w))

FairSpec == Spec /\ Fairness

-----------------------------------------------------------------------------
TypeOK ==
    /\ open \in [Clients -> BOOLEAN]
    /\ serve \in [Clients -> {"new", "receive", "parse", "announce", "respond", "ended"}]
    /\ request \in [Clients -> Commands \union {NoTask}]
    /\ connections \in [Uids -> SUBSET Clients]
    /\ reply \in [Commands -> {"none", "waiting", "queued", "error"}]
    /\ queue \in Seq(Commands)
    /\ running \in BOOLEAN
    /\ loop \in {"get", "generate", "publish", "broadcast", "sleep", "ended"}
    /\ state \in {"idle", "processing", "error"}
    /\ current \in Commands \union {NoTask}
    /\ targets \subseteq Clients
    /\ delivered \subseteq Commands \X Clients
    /\ done \subseteq Commands /\ lost \subseteq Commands /\ late \subseteq Commands
    /\ events \in Seq({"created", "completed"} \X Commands)

Created == {c \in Commands : \E i \in DOMAIN events : events[i] = <<"created", c>>}
Waiting == {c \in Commands : \E i \in DOMAIN queue : queue[i] = c}

\* A task for which task.created was published is in the queue once, in work,
\* done or lost, in one of these places; and /health says "processing" exactly
\* when a task is in work, or the loop broke off in the middle of one.
TaskInOnePlace ==
    /\ \A i, j \in DOMAIN queue : queue[i] = queue[j] => i = j
    /\ Created = Waiting \union done \union lost \union ({current} \ {NoTask})
    /\ done \intersect lost = {} /\ Waiting \intersect (done \union lost) = {}
    /\ current \notin Waiting \union done \union lost
    /\ (state = "processing") = (current # NoTask)
    /\ loop \in {"get", "sleep"} => current = NoTask
    /\ loop \in {"generate", "publish", "broadcast"} => current # NoTask

\* The audit trail makes sense: task.completed is published once for a task,
\* and after its task.created, although the task is queued before that event.
EventOrder ==
    \A i, j \in DOMAIN events :
        /\ events[i] = events[j] => i = j
        /\ events[i][1] = "completed" =>
             \E k \in 1..(i - 1) : events[k] = <<"created", events[i][2]>>

\* After shutdown() at most one more task is taken, the one that wakes a worker
\* waiting in get(): a worker that has a task, or sleeps, takes no other one.
OneTaskAfterStop == \A c, d \in late : c = d

\* What an endpoint works on is its own and, until it is parsed, no task yet.
EndpointInv ==
    /\ \A w \in Clients : serve[w] \in {"parse", "announce", "respond"} =>
         /\ request[w] \in Commands
         /\ From[request[w]] = w
         /\ serve[w] = "parse" => request[w] \notin Created /\ reply[request[w]] # "none"
    /\ \A c \in Created : reply[c] # "none"

\* A task is completed only by the worker that has it, in the publication.
CompletionInv ==
    \A i \in DOMAIN events : events[i][1] = "completed" =>
        \/ events[i][2] \in done \union lost
        \/ events[i][2] = current /\ loop \in {"publish", "broadcast", "ended"}

LateInv == late # {} => ~running /\ loop # "get"

\* Tasks of all connections are completed in the order they were accepted.
ServedInOrder ==
    \A c, d \in Commands, i, j, k, l \in DOMAIN events :
        /\ events[i] = <<"created", c>> /\ events[j] = <<"created", d>>
        /\ events[k] = <<"completed", c>> /\ events[l] = <<"completed", d>>
        /\ i < j
        => k < l

\* A client that named no user and is still there has been sent the result of
\* its command when the task is over, whichever other sockets have failed.
AnonymousIsTold ==
    \A c \in done : User[c] = NoUser /\ open[From[c]] => <<c, From[c]>> \in delivered

\* An open socket is in the table, and those of the clients that named no user
\* have the result, or are still among the targets of its broadcast.
TellInv ==
    /\ \A w \in Clients : open[w] => w \in connections[Anonymous]
    /\ \A c \in Commands : reply[c] # "none" => serve[From[c]] # "new"
    /\ \A c \in Commands : User[c] = NoUser /\ open[From[c]] =>
         /\ c \in done => <<c, From[c]>> \in delivered
         /\ c = current /\ loop = "broadcast" =>
              From[c] \in targets \/ <<c, From[c]>> \in delivered

\* The inductive invariant: the properties need to know what the endpoints
\* hold, which tasks have been completed, and who is still to be told.
OrchInv ==
    /\ TypeOK /\ TaskInOnePlace /\ EventOrder /\ OneTaskAfterStop /\ AnonymousIsTold
    /\ EndpointInv /\ CompletionInv /\ LateInv /\ TellInv

\* The same for every client, "7. Result returned to user" (ARCHITECTURE.md).
SubmitterIsTold ==
    \A c \in done : open[From[c]] => <<c, From[c]>> \in delivered

\* Every task in the queue is carried out or dropped: one that fails does not
\* stop the worker.  It ends only by shutdown(), or by a subscriber that
\* raises CancelledError.
QueuedTasksSettle ==
    \A c \in Commands :
        c \in Waiting ~> \/ c \in done \union lost
                         \/ ~running
                         \/ loop = "ended" /\ current \in Unruly
=============================================================================
