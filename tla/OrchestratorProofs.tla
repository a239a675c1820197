-------------------------- MODULE OrchestratorProofs --------------------------
(***************************************************************************)
(* Orchestrator, for any set of connections and commands: the inductive    *)
(* invariant, and with it the order of the audit trail, the single task    *)
(* after shutdown and the delivery of results to clients without a user.   *)
(***************************************************************************)
EXTENDS Orchestrator, TLAPS

(* Facts about sequences.                                                  *)

\* What a sequence holds after an Append.
LEMMA AppendFacts ==
    ASSUME NEW S, NEW q \in Seq(S), NEW x \in S
    PROVE  /\ Append(q, x) \in Seq(S)
           /\ Len(q) \in Nat
           /\ DOMAIN q = 1..Len(q)
           /\ DOMAIN Append(q, x) = 1..(Len(q) + 1)
           /\ \A i \in 1..Len(q) : Append(q, x)[i] = q[i]
           /\ Append(q, x)[Len(q) + 1] = x
           /\ \A i \in 1..Len(q) : q[i] \in S
  OBVIOUS

\* What a sequence holds after its head has been taken.
LEMMA TailFacts ==
    ASSUME NEW S, NEW q \in Seq(S), q # <<>>
    PROVE  /\ Tail(q) \in Seq(S)
           /\ Len(q) \in Nat /\ Len(q) >= 1
           /\ DOMAIN q = 1..Len(q)
           /\ DOMAIN Tail(q) = 1..(Len(q) - 1)
           /\ \A i \in 1..(Len(q) - 1) : Tail(q)[i] = q[i + 1]
           /\ Head(q) = q[1] /\ Head(q) \in S
           /\ \A i \in 1..Len(q) : q[i] \in S
  OBVIOUS

\* put() adds one task to those waiting.
LEMMA PutWaiting ==
    ASSUME TypeOK, NEW c \in Commands, Put(c)
    PROVE  /\ queue' \in Seq(Commands)
           /\ Waiting' = Waiting \union {c}
           /\ /\ \A i, j \in DOMAIN queue : queue[i] = queue[j] => i = j
              /\ c \notin Waiting
              => \A i, j \in DOMAIN queue' : queue'[i] = queue'[j] => i = j
<1>1. queue \in Seq(Commands) /\ queue' = Append(queue, c)
  BY DEF TypeOK, Put
<1>2. /\ queue' \in Seq(Commands)
      /\ Len(queue) \in Nat
      /\ DOMAIN queue = 1..Len(queue)
      /\ DOMAIN queue' = 1..(Len(queue) + 1)
      /\ \A i \in 1..Len(queue) : queue'[i] = queue[i] /\ queue[i] \in Commands
      /\ queue'[Len(queue) + 1] = c
  BY <1>1, AppendFacts
<1>3. Waiting' = Waiting \union {c}
  BY <1>2 DEF Waiting
<1> QED
  BY <1>2, <1>3 DEF Waiting

\* get() removes the head, which is not waiting any more.
LEMMA TakenWaiting ==
    ASSUME TypeOK, queue # <<>>, queue' = Taken,
           \A i, j \in DOMAIN queue : queue[i] = queue[j] => i = j
    PROVE  /\ queue' \in Seq(Commands)
           /\ Head(queue) \in Waiting /\ Head(queue) \in Commands
           /\ Waiting' = Waiting \ {Head(queue)}
           /\ \A i, j \in DOMAIN queue' : queue'[i] = queue'[j] => i = j
<1>1. queue \in Seq(Commands) /\ queue' = Tail(queue)
  BY DEF TypeOK, Taken
<1>2. /\ queue' \in Seq(Commands)
      /\ Len(queue) \in Nat /\ Len(queue) >= 1
      /\ DOMAIN queue = 1..Len(queue)
      /\ DOMAIN queue' = 1..(Len(queue) - 1)
      /\ \A i \in 1..(Len(queue) - 1) : queue'[i] = queue[i + 1]
      /\ Head(queue) = queue[1] /\ Head(queue) \in Commands
      /\ \A i \in 1..Len(queue) : queue[i] \in Commands
  BY <1>1, TailFacts
<1>3. Waiting' \subseteq Waiting \ {Head(queue)}
  BY <1>2 DEF Waiting
<1>4. Waiting \ {Head(queue)} \subseteq Waiting'
  <2> SUFFICES ASSUME NEW i \in 1..Len(queue), queue[i] # Head(queue)
               PROVE  queue[i] \in Waiting'
    BY <1>2 DEF Waiting
  <2>1. i - 1 \in 1..(Len(queue) - 1) /\ queue'[i - 1] = queue[i]
    BY <1>2
  <2> QED
    BY <2>1, <1>2 DEF Waiting
<1>5. Head(queue) \in Waiting
  BY <1>2 DEF Waiting
<1>6. \A i, j \in DOMAIN queue' : queue'[i] = queue'[j] => i = j
  <2> SUFFICES ASSUME NEW i \in 1..(Len(queue) - 1), NEW j \in 1..(Len(queue) - 1),
                      queue'[i] = queue'[j]
               PROVE  i = j
    BY <1>2
  <2>1. queue[i + 1] = queue[j + 1] /\ i + 1 \in DOMAIN queue /\ j + 1 \in DOMAIN queue
    BY <1>2
  <2> QED
    BY <2>1
<1> QED
  BY <1>2, <1>3, <1>4, <1>5, <1>6

\* The kinds of event.
Recorded == {"created", "completed"} \X Commands

\* What publishing an event does to the record of events.
LEMMA AppendEvent ==
    ASSUME TypeOK, NEW e \in Recorded, events' = Append(events, e)
    PROVE  /\ events' \in Seq(Recorded)
           /\ Len(events) \in Nat
           /\ DOMAIN events = 1..Len(events)
           /\ DOMAIN events' = 1..(Len(events) + 1)
           /\ \A i \in 1..Len(events) : events'[i] = events[i]
           /\ events'[Len(events) + 1] = e
           /\ \A i \in 1..Len(events) : events[i] \in Recorded
<1>1. events \in Seq(Recorded)
  BY DEF TypeOK, Recorded
<1> QED
  BY <1>1, AppendFacts

\* task.created makes its command a task.
LEMMA AnnounceCreated ==
    ASSUME TypeOK, NEW c \in Commands, Announce(c)
    PROVE  /\ Created' = Created \union {c}
           /\ <<"created", c>> \in Recorded
           /\ events' = Append(events, <<"created", c>>)
<1>1. <<"created", c>> \in Recorded /\ events' = Append(events, <<"created", c>>)
  BY DEF Announce, Recorded
<1>2. /\ Len(events) \in Nat
      /\ DOMAIN events = 1..Len(events) /\ DOMAIN events' = 1..(Len(events) + 1)
      /\ \A i \in 1..Len(events) : events'[i] = events[i]
      /\ events'[Len(events) + 1] = <<"created", c>>
  BY <1>1, AppendEvent
<1>3. \A b \in Commands : b \in Created' <=> b \in Created \/ b = c
  <2>1. ASSUME NEW b \in Commands, b \in Created' PROVE b \in Created \/ b = c
    BY <1>2, <2>1 DEF Created
  <2>2. Created \subseteq Created'
    BY <1>2 DEF Created
  <2>3. c \in Created'
    BY <1>2 DEF Created
  <2> QED
    BY <2>1, <2>2, <2>3
<1>4. Created \subseteq Commands /\ Created' \subseteq Commands
  BY DEF Created
<1> QED
  BY <1>1, <1>3, <1>4

\* task.completed does not.
LEMMA CompleteCreated ==
    ASSUME TypeOK, NEW c \in Commands, events' = Append(events, <<"completed", c>>)
    PROVE  Created' = Created /\ <<"completed", c>> \in Recorded
<1>1. <<"completed", c>> \in Recorded
  BY DEF Recorded
<1> QED
  BY <1>1, AppendEvent DEF Created

-----------------------------------------------------------------------------
(* What a step does, in the terms of the invariant.                        *)

\* A command becomes a task.
NewTask(c) ==
    /\ c \notin Created
    /\ Put(c) /\ Announce(c)
    /\ reply'[c] # "none"
    /\ UNCHANGED <<running, loopVars>>

\* The steps of a client that make no task.
Quiet == UNCHANGED <<queue, running, events, loopVars>>

\* The steps of the worker, and of what stops it.
Worker ==
    \/ Take \/ Generated \/ PublishCancelled \/ Published \/ BroadcastRaises
    \/ Finish \/ WakeUp \/ Shutdown \/ LoopCancelled
    \/ \E w \in Clients : Send(w)

\* The steps of a client.
ClientStep(w) ==
    \/ Connect(w) \/ Close(w) \/ ReceiveDisconnect(w) \/ ReceiveGarbage(w)
    \/ AnnounceCancelled(w) \/ \E c \in Commands : Receive(w, c)
    \/ Parsed(w) \/ ParseRaises(w) \/ Respond(w) \/ RespondFails(w)

LEMMA NextSplits ==
    ASSUME [Next]_vars
    PROVE  Worker \/ (\E w \in Clients : ClientStep(w)) \/ UNCHANGED vars
  BY DEF Next, Worker, ClientStep

\* A client changes no answer back to "none".
LEMMA RepliesStay ==
    ASSUME TypeOK, EndpointInv, NEW w \in Clients, ClientStep(w)
    PROVE  \A c \in Commands : reply[c] # "none" => reply'[c] # "none"
<1> USE DEF TypeOK
<1>1. CASE Connect(w) \/ Close(w) \/ ReceiveDisconnect(w) \/ ReceiveGarbage(w)
          \/ AnnounceCancelled(w)
  BY <1>1 DEF Connect, Close, ReceiveDisconnect, ReceiveGarbage, AnnounceCancelled
<1>2. ASSUME NEW c \in Commands, Receive(w, c)
      PROVE  \A d \in Commands : reply[d] # "none" => reply'[d] # "none"
  BY <1>2 DEF Receive
<1>3. CASE Parsed(w) \/ ParseRaises(w) \/ RespondFails(w)
  BY <1>3 DEF Parsed, ParseRaises, RespondFails
<1>4. CASE Respond(w)
  BY <1>4 DEF Respond
<1> QED
  BY <1>1, <1>2, <1>3, <1>4 DEF ClientStep

\* A client either makes a task, of a command that was none, or is quiet.
LEMMA ClientEffect ==
    ASSUME OrchInv, NEW w \in Clients, ClientStep(w)
    PROVE  Quiet \/ \E c \in Commands : NewTask(c)
<1>1. CASE Connect(w) \/ Close(w) \/ ReceiveDisconnect(w) \/ ReceiveGarbage(w)
          \/ AnnounceCancelled(w)
  BY <1>1 DEF Connect, Close, ReceiveDisconnect, ReceiveGarbage, AnnounceCancelled, Quiet
<1>2. ASSUME NEW c \in Commands, Receive(w, c)
      PROVE  Quiet \/ NewTask(c)
  <2>1. CASE c \in Text
    BY <1>2, <2>1 DEF Receive, Quiet
  <2>2. CASE c \notin Text
    <3>1. c \notin Created
      BY <1>2 DEF Receive, OrchInv, EndpointInv
    <3>2. reply' = [reply EXCEPT ![c] = "waiting"] /\ reply \in [Commands -> {"none", "waiting", "queued", "error"}]
      BY <1>2 DEF Receive, OrchInv, TypeOK
    <3>3. reply'[c] # "none"
      BY <3>2
    <3> QED
      BY <1>2, <2>2, <3>1, <3>3 DEF Receive, Enqueue, NewTask
  <2> QED
    BY <2>1, <2>2
<1>3. CASE Parsed(w)
  <2>1. /\ request[w] \in Commands
        /\ request[w] \notin Created
        /\ reply[request[w]] # "none"
    BY <1>3 DEF Parsed, OrchInv, EndpointInv
  <2>2. NewTask(request[w])
    BY <1>3, <2>1 DEF Parsed, Enqueue, NewTask
  <2> QED
    BY <2>1, <2>2
<1>4. CASE ParseRaises(w) \/ RespondFails(w) \/ Respond(w)
  BY <1>4 DEF ParseRaises, RespondFails, Respond, Quiet
<1> QED
  BY <1>1, <1>2, <1>3, <1>4 DEF ClientStep

-----------------------------------------------------------------------------
(* Type correctness.                                                       *)

LEMMA InitTypeOK == Init => TypeOK
<1> SUFFICES ASSUME Init
             PROVE  TypeOK
  OBVIOUS
<1>1. /\ open \in [Clients -> BOOLEAN]
      /\ serve \in [Clients -> {"new", "receive", "parse", "announce", "respond", "ended"}]
      /\ request \in [Clients -> Commands \union {NoTask}]
      /\ connections \in [Uids -> SUBSET Clients]
      /\ reply \in [Commands -> {"none", "waiting", "queued", "error"}]
  BY DEF Init
<1>2. /\ queue \in Seq(Commands)
      /\ events \in Seq({"created", "completed"} \X Commands)
      /\ running \in BOOLEAN
  BY DEF Init
<1>3. /\ loop = "get" /\ state = "idle"
      /\ current \in Commands \union {NoTask}
      /\ targets \subseteq Clients
      /\ delivered \subseteq Commands \X Clients
      /\ done \subseteq Commands /\ lost \subseteq Commands /\ late \subseteq Commands
  BY DEF Init
<1> QED
  BY <1>1, <1>2, <1>3 DEF TypeOK

\* The part of the type invariant that belongs to the endpoints.
ClientTypeOK ==
    /\ open \in [Clients -> BOOLEAN]
    /\ serve \in [Clients -> {"new", "receive", "parse", "announce", "respond", "ended"}]
    /\ request \in [Clients -> Commands \union {NoTask}]
    /\ connections \in [Uids -> SUBSET Clients]
    /\ reply \in [Commands -> {"none", "waiting", "queued", "error"}]

LEMMA ClientTypes ==
    ASSUME OrchInv, NEW w \in Clients, ClientStep(w)
    PROVE  ClientTypeOK'
<1>1. TypeOK
  BY DEF OrchInv
<1>2. CASE Connect(w)
  <2>1. connections' = [connections EXCEPT ![Anonymous] = @ \union {w}] /\ UNCHANGED <<request, reply>>
    BY <1>2 DEF Connect
  <2>2. connections' \in [Uids -> SUBSET Clients]
    BY <1>1, <2>1 DEF TypeOK, Uids
  <2>3. open' = [open EXCEPT ![w] = TRUE] /\ serve' = [serve EXCEPT ![w] = "receive"]
    BY <1>2 DEF Connect
  <2> QED
    BY <1>1, <2>1, <2>2, <2>3 DEF TypeOK, ClientTypeOK
<1>3. CASE Close(w)
  BY <1>1, <1>3 DEF Close, TypeOK, ClientTypeOK
<1>4. CASE ReceiveDisconnect(w)
  <2>1. connections' \in [Uids -> SUBSET Clients]
    BY <1>1, <1>4 DEF ReceiveDisconnect, Disconnect, TypeOK
  <2> QED
    BY <1>1, <1>4, <2>1 DEF ReceiveDisconnect, TypeOK, ClientTypeOK
<1>5. CASE ReceiveGarbage(w) \/ AnnounceCancelled(w)
  BY <1>1, <1>5 DEF ReceiveGarbage, AnnounceCancelled, TypeOK, ClientTypeOK
<1>6. ASSUME NEW c \in Commands, Receive(w, c)
      PROVE  ClientTypeOK'
  BY <1>1, <1>6 DEF Receive, Enqueue, TypeOK, ClientTypeOK
<1>7. CASE Parsed(w) \/ ParseRaises(w)
  BY <1>1, <1>7 DEF Parsed, Enqueue, ParseRaises, TypeOK, ClientTypeOK
<1>8. CASE Respond(w)
  BY <1>1, <1>8 DEF Respond, TypeOK, ClientTypeOK
<1>9. CASE RespondFails(w)
  <2>1. connections' \in [Uids -> SUBSET Clients]
    BY <1>1, <1>9 DEF RespondFails, Disconnect, TypeOK
  <2> QED
    BY <1>1, <1>9, <2>1 DEF RespondFails, TypeOK, ClientTypeOK
<1> QED
  BY <1>2, <1>3, <1>4, <1>5, <1>6, <1>7, <1>8, <1>9 DEF ClientStep

LEMMA WorkerTypes ==
    ASSUME OrchInv, Worker
    PROVE  TypeOK'
<1> USE OrchestratorAssumption DEF OrchestratorAssumption, clientVars, pastVars
<1>1. TypeOK /\ TaskInOnePlace
  BY DEF OrchInv
<1>2. CASE Take
  <2>1. queue' \in Seq(Commands) /\ Head(queue) \in Commands
    BY <1>1, <1>2, TakenWaiting DEF Take, TaskInOnePlace
  <2> QED
    BY <1>1, <1>2, <2>1 DEF Take, TypeOK, AfterError
<1>3. CASE Generated
  <2>1. current \in Commands
    BY <1>1, <1>3 DEF Generated, TaskInOnePlace, TypeOK
  <2>2. events' \in Seq({"created", "completed"} \X Commands)
    BY <1>1, <1>3, <2>1 DEF Generated, TypeOK
  <2> QED
    BY <1>1, <1>3, <2>2 DEF Generated, TypeOK
<1>4. CASE PublishCancelled
  BY <1>1, <1>4 DEF PublishCancelled, TypeOK
<1>5. CASE Published
  <2>1. current \in Commands
    BY <1>1, <1>5 DEF Published, TaskInOnePlace, TypeOK
  <2>2. targets' \subseteq Clients
    BY <1>1, <1>5, <2>1 DEF Published, Addressees, TypeOK
  <2> QED
    BY <1>1, <1>5, <2>2 DEF Published, TypeOK
<1>6. CASE Finish
  <2>1. current \in Commands
    BY <1>1, <1>6 DEF Finish, TaskInOnePlace, TypeOK
  <2> QED
    BY <1>1, <1>6, <2>1 DEF Finish, Again, TypeOK
<1>7. CASE WakeUp
  BY <1>1, <1>7 DEF WakeUp, Again, TypeOK
<1>8. CASE Shutdown
  BY <1>1, <1>8 DEF Shutdown, loopVars, TypeOK
<1>9. CASE LoopCancelled
  BY <1>1, <1>9 DEF LoopCancelled, TypeOK
<1>10. ASSUME NEW w \in Clients, Send(w)
       PROVE  TypeOK'
  <2>1. current \in Commands
    BY <1>1, <1>10 DEF Send, TaskInOnePlace, TypeOK
  <2>2. targets' \subseteq Clients /\ delivered' \subseteq Commands \X Clients
    BY <1>1, <1>10, <2>1 DEF Send, Rest, TypeOK
  <2> QED
    BY <1>1, <1>10, <2>2 DEF Send, TypeOK
<1>11. CASE BroadcastRaises
  <2>1. current \in Commands
    BY <1>1, <1>11 DEF BroadcastRaises, TaskInOnePlace, TypeOK
  <2> QED
    BY <1>1, <1>11, <2>1 DEF BroadcastRaises, AfterError, TypeOK
<1> QED
  BY <1>2, <1>3, <1>4, <1>5, <1>6, <1>7, <1>8, <1>9, <1>10, <1>11 DEF Worker

LEMMA NextTypeOK ==
    ASSUME OrchInv, [Next]_vars
    PROVE  TypeOK'
<1>1. TypeOK
  BY DEF OrchInv
<1>2. ASSUME NEW w \in Clients, ClientStep(w)
      PROVE  TypeOK'
  <2>1. ClientTypeOK'
    BY <1>2, ClientTypes
  <2>2. CASE Quiet
    BY <1>1, <2>1, <2>2 DEF Quiet, loopVars, pastVars, ClientTypeOK, TypeOK
  <2>3. ASSUME NEW c \in Commands, NewTask(c)
        PROVE  TypeOK'
    <3>1. queue' \in Seq(Commands)
      BY <1>1, <2>3, PutWaiting DEF NewTask
    <3>2. events' \in Seq({"created", "completed"} \X Commands)
      BY <1>1, <2>3, AnnounceCreated, AppendEvent DEF NewTask, Recorded
    <3> QED
      BY <1>1, <2>1, <2>3, <3>1, <3>2 DEF NewTask, loopVars, pastVars, ClientTypeOK, TypeOK
  <2> QED
    BY <1>2, <2>2, <2>3, ClientEffect
<1>3. CASE UNCHANGED vars
  BY <1>1, <1>3 DEF vars, clientVars, loopVars, pastVars, TypeOK
<1> QED
  BY <1>2, <1>3, NextSplits, WorkerTypes

-----------------------------------------------------------------------------
(* Every task is in one place.                                             *)

LEMMA NextInOnePlace ==
    ASSUME OrchInv, [Next]_vars
    PROVE  TaskInOnePlace'
<1> USE OrchestratorAssumption DEF OrchestratorAssumption, clientVars, loopVars, pastVars
<1>1. TypeOK /\ TaskInOnePlace
  BY DEF OrchInv
<1>2. CASE Quiet \/ UNCHANGED vars
  BY <1>1, <1>2 DEF Quiet, vars, TaskInOnePlace, Created, Waiting
<1>3. ASSUME NEW c \in Commands, NewTask(c)
      PROVE  TaskInOnePlace'
  <2>1. Created' = Created \union {c}
    BY <1>1, <1>3, AnnounceCreated DEF NewTask
  <2>2. c \notin Waiting
    BY <1>1, <1>3 DEF NewTask, TaskInOnePlace
  <2>3. /\ Waiting' = Waiting \union {c}
        /\ \A i, j \in DOMAIN queue' : queue'[i] = queue'[j] => i = j
    BY <1>1, <1>3, <2>2, PutWaiting DEF NewTask, TaskInOnePlace
  <2> QED
    BY <1>1, <1>3, <2>1, <2>3 DEF NewTask, TaskInOnePlace
<1>4. CASE Take
  <2>1. /\ Head(queue) \in Waiting /\ Head(queue) \in Commands
        /\ Waiting' = Waiting \ {Head(queue)}
        /\ \A i, j \in DOMAIN queue' : queue'[i] = queue'[j] => i = j
    BY <1>1, <1>4, TakenWaiting DEF Take, TaskInOnePlace
  <2>2. Created' = Created /\ current = NoTask
    BY <1>1, <1>4 DEF Take, Created, TaskInOnePlace
  <2>3. CASE Head(queue) \in Shapeless
    BY <1>1, <1>4, <2>1, <2>2, <2>3 DEF Take, AfterError, TaskInOnePlace
  <2>4. CASE Head(queue) \notin Shapeless
    BY <1>1, <1>4, <2>1, <2>2, <2>4 DEF Take, TaskInOnePlace
  <2> QED
    BY <2>3, <2>4
<1>5. CASE Generated
  <2>1. current \in Commands
    BY <1>1, <1>5 DEF Generated, TypeOK, TaskInOnePlace
  <2>2. Created' = Created
    BY <1>1, <1>5, <2>1, CompleteCreated DEF Generated
  <2> QED
    BY <1>1, <1>5, <2>2 DEF Generated, TaskInOnePlace, Waiting
<1>6. CASE PublishCancelled \/ Published \/ LoopCancelled
  BY <1>1, <1>6 DEF PublishCancelled, Published, LoopCancelled, TaskInOnePlace, Created, Waiting
<1>7. CASE Finish
  <2>1. Created' = Created /\ Waiting' = Waiting /\ queue' = queue
    BY <1>7 DEF Finish, Created, Waiting
  <2>2. loop' \in {"get", "ended"}
    BY <1>7 DEF Finish, Again
  <2>3. /\ current # NoTask /\ current' = NoTask /\ state' = "idle"
        /\ done' = done \union {current} /\ lost' = lost
    BY <1>1, <1>7 DEF Finish, TaskInOnePlace
  <2>4. /\ NoTask \notin Waiting \union done \union lost \union {current}
    BY <1>1, <2>3 DEF TypeOK, Waiting
  <2> QED
    BY <1>1, <2>1, <2>2, <2>3, <2>4 DEF TaskInOnePlace
<1>8. CASE WakeUp
  <2>1. loop' \in {"get", "ended"} /\ current = NoTask
    BY <1>1, <1>8 DEF WakeUp, Again, TaskInOnePlace
  <2> QED
    BY <1>1, <1>8, <2>1 DEF WakeUp, TaskInOnePlace, Created, Waiting
<1>9. CASE Shutdown
  BY <1>1, <1>9 DEF Shutdown, TaskInOnePlace, Created, Waiting
<1>10. ASSUME NEW w \in Clients, Send(w)
       PROVE  TaskInOnePlace'
  BY <1>1, <1>10 DEF Send, TaskInOnePlace, Created, Waiting
<1>11. CASE BroadcastRaises
  <2>1. Created' = Created /\ Waiting' = Waiting /\ queue' = queue
    BY <1>11 DEF BroadcastRaises, Created, Waiting
  <2>2. /\ current # NoTask /\ current' = NoTask /\ state' = "error" /\ loop' = "sleep"
        /\ lost' = lost \union {current} /\ done' = done
    BY <1>1, <1>11 DEF BroadcastRaises, AfterError, TaskInOnePlace
  <2>3. NoTask \notin Waiting \union done \union lost \union {current}
    BY <1>1, <2>2 DEF TypeOK, Waiting
  <2> QED
    BY <1>1, <2>1, <2>2, <2>3 DEF TaskInOnePlace
<1> QED
  BY <1>2, <1>3, <1>4, <1>5, <1>6, <1>7, <1>8, <1>9, <1>10, <1>11, NextSplits, ClientEffect
     DEF Worker

-----------------------------------------------------------------------------
(* The order of the events, and the task after shutdown().                 *)

LEMMA NextEventOrder ==
    ASSUME OrchInv, [Next]_vars
    PROVE  EventOrder' /\ CompletionInv'
<1> USE DEF clientVars, loopVars, pastVars
<1>1. TypeOK /\ TaskInOnePlace /\ EventOrder /\ CompletionInv
  BY DEF OrchInv
<1>2. CASE Quiet \/ UNCHANGED vars
  BY <1>1, <1>2 DEF Quiet, vars, EventOrder, CompletionInv
<1>3. ASSUME NEW c \in Commands, NewTask(c)
      PROVE  EventOrder' /\ CompletionInv'
  <2>1. /\ Len(events) \in Nat
        /\ DOMAIN events = 1..Len(events)
        /\ DOMAIN events' = 1..(Len(events) + 1)
        /\ \A i \in 1..Len(events) : events'[i] = events[i]
        /\ events'[Len(events) + 1] = <<"created", c>>
    BY <1>1, <1>3, AnnounceCreated, AppendEvent DEF NewTask
  <2>2. \A i \in 1..Len(events) : events[i] # <<"created", c>>
    BY <1>3, <2>1 DEF NewTask, Created
  <2>3. EventOrder'
    <3>1. ASSUME NEW i \in 1..(Len(events) + 1), NEW j \in 1..(Len(events) + 1),
                 events'[i] = events'[j]
          PROVE  i = j
      BY <1>1, <2>1, <2>2, <3>1 DEF EventOrder
    <3>2. ASSUME NEW i \in 1..(Len(events) + 1), events'[i][1] = "completed"
          PROVE  \E m \in 1..(i - 1) : events'[m] = <<"created", events'[i][2]>>
      <4>1. i \in 1..Len(events)
        BY <2>1, <3>2
      <4>2. PICK m \in 1..(i - 1) : events[m] = <<"created", events[i][2]>>
        BY <1>1, <2>1, <3>2, <4>1 DEF EventOrder
      <4> QED
        BY <2>1, <4>1, <4>2
    <3> QED
      BY <2>1, <3>1, <3>2 DEF EventOrder
  <2>4. CompletionInv'
    BY <1>1, <1>3, <2>1 DEF CompletionInv, NewTask
  <2> QED
    BY <2>3, <2>4
<1>4. CASE Generated
  <2>1. current \in Commands /\ current \in Created /\ current \notin done \union lost /\ current # NoTask
    BY <1>1, <1>4 DEF Generated, TypeOK, TaskInOnePlace
  <2>2. /\ Len(events) \in Nat
        /\ DOMAIN events = 1..Len(events)
        /\ DOMAIN events' = 1..(Len(events) + 1)
        /\ \A i \in 1..Len(events) : events'[i] = events[i] /\ events[i] \in Recorded
        /\ events'[Len(events) + 1] = <<"completed", current>>
    BY <1>1, <1>4, <2>1, CompleteCreated, AppendEvent DEF Generated
  <2>3. \A i \in 1..Len(events) : events[i] # <<"completed", current>>
    BY <1>1, <1>4, <2>1, <2>2 DEF CompletionInv, Generated
  <2>4. PICK k \in 1..Len(events) : events[k] = <<"created", current>>
    BY <2>1, <2>2 DEF Created
  <2>5. EventOrder'
    <3>1. ASSUME NEW i \in 1..(Len(events) + 1), NEW j \in 1..(Len(events) + 1),
                 events'[i] = events'[j]
          PROVE  i = j
      BY <1>1, <2>2, <2>3, <3>1 DEF EventOrder
    <3>2. ASSUME NEW i \in 1..(Len(events) + 1), events'[i][1] = "completed"
          PROVE  \E m \in 1..(i - 1) : events'[m] = <<"created", events'[i][2]>>
      <4>1. CASE i \in 1..Len(events)
        <5>1. PICK m \in 1..(i - 1) : events[m] = <<"created", events[i][2]>>
          BY <1>1, <2>2, <3>2, <4>1 DEF EventOrder
        <5> QED
          BY <2>2, <4>1, <5>1
      <4>2. CASE i = Len(events) + 1
        BY <2>2, <2>4, <4>2
      <4> QED
        BY <2>2, <4>1, <4>2
    <3> QED
      BY <2>2, <3>1, <3>2 DEF EventOrder
  <2>6. CompletionInv'
    <3> SUFFICES ASSUME NEW i \in 1..(Len(events) + 1), events'[i][1] = "completed"
                 PROVE  events'[i][2] \in done \union lost \/ events'[i][2] = current
      BY <1>4, <2>2 DEF CompletionInv, Generated
    <3>1. CASE i \in 1..Len(events)
      BY <1>1, <2>2, <3>1 DEF CompletionInv
    <3>2. CASE i = Len(events) + 1
      BY <2>2, <3>2
    <3> QED
      BY <2>2, <3>1, <3>2
  <2> QED
    BY <2>5, <2>6
<1>5. CASE Take
  <2>1. loop = "get" /\ events' = events /\ done' = done /\ lost \subseteq lost'
    BY <1>5 DEF Take
  <2> QED
    BY <1>1, <2>1 DEF EventOrder, CompletionInv
<1>6. CASE PublishCancelled \/ Published \/ LoopCancelled
  BY <1>1, <1>6 DEF PublishCancelled, Published, LoopCancelled, EventOrder, CompletionInv
<1>7. CASE Finish \/ BroadcastRaises
  BY <1>1, <1>7 DEF Finish, BroadcastRaises, EventOrder, CompletionInv
<1>8. CASE WakeUp
  BY <1>1, <1>8 DEF WakeUp, EventOrder, CompletionInv
<1>9. CASE Shutdown
  BY <1>1, <1>9 DEF Shutdown, EventOrder, CompletionInv
<1>10. ASSUME NEW w \in Clients, Send(w)
       PROVE  EventOrder' /\ CompletionInv'
  BY <1>1, <1>10 DEF Send, EventOrder, CompletionInv
<1> QED
  BY <1>2, <1>3, <1>4, <1>5, <1>6, <1>7, <1>8, <1>9, <1>10, NextSplits, ClientEffect DEF Worker

LEMMA NextOneTaskAfterStop ==
    ASSUME OrchInv, [Next]_vars
    PROVE  OneTaskAfterStop' /\ LateInv'
<1> USE DEF clientVars, loopVars, pastVars
<1>1. OneTaskAfterStop /\ LateInv
  BY DEF OrchInv
<1>2. CASE Quiet \/ UNCHANGED vars
  BY <1>1, <1>2 DEF Quiet, vars, OneTaskAfterStop, LateInv
<1>3. ASSUME NEW c \in Commands, NewTask(c)
      PROVE  OneTaskAfterStop' /\ LateInv'
  BY <1>1, <1>3 DEF NewTask, OneTaskAfterStop, LateInv
<1>4. CASE Take
  <2>1. late = {} /\ loop' # "get"
    BY <1>1, <1>4 DEF Take, LateInv, AfterError
  <2>2. late' = (IF running THEN {} ELSE {Head(queue)}) /\ running' = running
    BY <1>4, <2>1 DEF Take
  <2> QED
    BY <2>1, <2>2 DEF OneTaskAfterStop, LateInv
<1>5. CASE Generated \/ PublishCancelled \/ Published \/ LoopCancelled
  BY <1>1, <1>5 DEF Generated, PublishCancelled, Published, LoopCancelled, OneTaskAfterStop, LateInv
<1>6. CASE Finish \/ WakeUp
  BY <1>1, <1>6 DEF Finish, WakeUp, Again, OneTaskAfterStop, LateInv
<1>7. CASE Shutdown \/ BroadcastRaises
  BY <1>1, <1>7 DEF Shutdown, BroadcastRaises, AfterError, OneTaskAfterStop, LateInv
<1>8. ASSUME NEW w \in Clients, Send(w)
      PROVE  OneTaskAfterStop' /\ LateInv'
  BY <1>1, <1>8 DEF Send, OneTaskAfterStop, LateInv
<1> QED
  BY <1>2, <1>3, <1>4, <1>5, <1>6, <1>7, <1>8, NextSplits, ClientEffect DEF Worker

-----------------------------------------------------------------------------
(* What the endpoints hold, and who is told.                               *)

LEMMA WorkerKeepsClients ==
    ASSUME OrchInv, Worker
    PROVE  UNCHANGED clientVars /\ Created' = Created
<1>1. TypeOK /\ TaskInOnePlace
  BY DEF OrchInv
<1>2. CASE Take \/ PublishCancelled \/ Published \/ BroadcastRaises \/ Finish \/ WakeUp
           \/ LoopCancelled
  BY <1>2 DEF Take, PublishCancelled, Published, BroadcastRaises, Finish, WakeUp, LoopCancelled, Created
<1>3. CASE Generated
  <2>1. current \in Commands
    BY <1>1, <1>3 DEF Generated, TypeOK, TaskInOnePlace
  <2> QED
    BY <1>1, <1>3, <2>1, CompleteCreated DEF Generated
<1>4. CASE Shutdown
  BY <1>4 DEF Shutdown, Created
<1>5. ASSUME NEW w \in Clients, Send(w)
      PROVE  UNCHANGED clientVars /\ Created' = Created
  BY <1>5 DEF Send, Created
<1> QED
  BY <1>2, <1>3, <1>4, <1>5 DEF Worker

\* The claim of EndpointInv about one client.
Holds(w) ==
    serve[w] \in {"parse", "announce", "respond"} =>
        /\ request[w] \in Commands
        /\ From[request[w]] = w
        /\ serve[w] = "parse" => request[w] \notin Created /\ reply[request[w]] # "none"

LEMMA NextEndpointInv ==
    ASSUME OrchInv, [Next]_vars
    PROVE  EndpointInv'
<1>1. TypeOK /\ EndpointInv /\ (\A w \in Clients : Holds(w))
  BY DEF OrchInv, EndpointInv, Holds
<1>2. CASE Worker
  BY <1>1, <1>2, WorkerKeepsClients DEF EndpointInv, clientVars
<1>3. CASE UNCHANGED vars
  BY <1>1, <1>3 DEF EndpointInv, vars, clientVars, Created
<1>4. ASSUME NEW w \in Clients, ClientStep(w)
      PROVE  EndpointInv'
  <2>1. \A c \in Commands : reply[c] # "none" => reply'[c] # "none"
    BY <1>1, <1>4, RepliesStay
  <2>2. Created' = Created \/ \E c \in Commands : NewTask(c) /\ Created' = Created \union {c}
    <3>1. CASE Quiet
      BY <3>1 DEF Quiet, Created
    <3>2. ASSUME NEW c \in Commands, NewTask(c)
          PROVE  Created' = Created \union {c}
      BY <1>1, <3>2, AnnounceCreated DEF NewTask
    <3> QED
      BY <1>4, <3>1, <3>2, ClientEffect
  <2>3. \A c \in Created' : reply'[c] # "none"
    BY <1>1, <2>1, <2>2 DEF NewTask, EndpointInv, Created
  <2>4. CASE Connect(w) \/ Close(w) \/ ReceiveDisconnect(w) \/ ReceiveGarbage(w)
          \/ AnnounceCancelled(w)
    <3>1. /\ \A x \in Clients : \/ serve'[x] = serve[x] /\ request'[x] = request[x]
                                \/ serve'[x] \in {"receive", "ended"}
          /\ UNCHANGED <<reply, events>>
      BY <1>1, <2>4 DEF TypeOK, Connect, Close, ReceiveDisconnect, ReceiveGarbage, AnnounceCancelled
    <3>2. Created' = Created
      BY <3>1 DEF Created
    <3> QED
      BY <1>1, <2>3, <3>1, <3>2 DEF EndpointInv
  <2>5. ASSUME NEW c \in Commands, Receive(w, c)
        PROVE  EndpointInv'
    <3>1. /\ From[c] = w /\ reply[c] = "none" /\ c \notin Created
          /\ request' = [request EXCEPT ![w] = c]
          /\ reply' = [reply EXCEPT ![c] = "waiting"]
          /\ \A x \in Clients \ {w} : serve'[x] = serve[x]
          /\ c \in Text => serve'[w] = "parse" /\ Created' = Created
          /\ c \notin Text => serve'[w] = "announce" /\ Created' = Created \union {c}
      <4>1. /\ From[c] = w /\ reply[c] = "none"
            /\ request' = [request EXCEPT ![w] = c]
            /\ reply' = [reply EXCEPT ![c] = "waiting"]
        BY <2>5 DEF Receive
      <4>2. c \notin Created
        BY <1>1, <4>1 DEF EndpointInv
      <4>3. CASE c \in Text
        BY <1>1, <2>5, <4>1, <4>2, <4>3 DEF Receive, TypeOK, Created
      <4>4. CASE c \notin Text
        <5>1. Announce(c) /\ serve' = [serve EXCEPT ![w] = "announce"]
          BY <2>5, <4>4 DEF Receive, Enqueue
        <5>2. Created' = Created \union {c}
          BY <1>1, <5>1, AnnounceCreated
        <5> QED
          BY <1>1, <4>1, <4>2, <4>4, <5>1, <5>2 DEF TypeOK
      <4> QED
        BY <4>1, <4>2, <4>3, <4>4
    <3>2. \A x \in Clients \ {w} : Holds(x)'
      BY <1>1, <2>1, <3>1 DEF Holds, TypeOK
    <3>3. Holds(w)'
      BY <1>1, <3>1 DEF Holds, TypeOK
    <3> QED
      BY <2>3, <3>2, <3>3 DEF EndpointInv, Holds
  <2>6. CASE Parsed(w)
    <3>1. /\ request[w] \in Commands /\ From[request[w]] = w
          /\ Created' = Created \union {request[w]}
          /\ UNCHANGED <<request, reply>>
          /\ serve'[w] = "announce"
          /\ \A x \in Clients \ {w} : serve'[x] = serve[x]
      BY <1>1, <2>6, AnnounceCreated DEF Parsed, Enqueue, Holds, TypeOK
    <3>2. \A x \in Clients \ {w} : Holds(x)'
      BY <1>1, <3>1 DEF Holds
    <3>3. Holds(w)'
      BY <1>1, <3>1 DEF Holds
    <3> QED
      BY <2>3, <3>2, <3>3 DEF EndpointInv, Holds
  <2>7. CASE ParseRaises(w)
    <3>1. /\ UNCHANGED <<request, reply>> /\ Created' = Created
          /\ serve[w] = "parse" /\ serve'[w] = "respond"
          /\ \A x \in Clients \ {w} : serve'[x] = serve[x]
      BY <1>1, <2>7 DEF ParseRaises, TypeOK, Created
    <3> QED
      BY <1>1, <2>3, <3>1 DEF EndpointInv, Holds
  <2>8. CASE Respond(w) \/ RespondFails(w)
    <3>1. /\ \A x \in Clients \ {w} : serve'[x] = serve[x] /\ request'[x] = request[x]
          /\ serve'[w] \in {"receive", "ended"}
          /\ Created' = Created
      BY <1>1, <2>8 DEF Respond, RespondFails, TypeOK, Created
    <3> QED
      BY <1>1, <2>1, <2>3, <3>1 DEF EndpointInv, Holds
  <2> QED
    BY <1>4, <2>4, <2>5, <2>6, <2>7, <2>8 DEF ClientStep
<1> QED
  BY <1>2, <1>3, <1>4, NextSplits

\* What a client's step does to sockets: only a new connection is opened, an
\* open one is not taken out of the table, and no endpoint starts anew.
LEMMA ClientSockets ==
    ASSUME OrchInv, NEW w \in Clients, ClientStep(w)
    PROVE  /\ \A x \in Clients : open'[x] =>
                /\ x \in connections'[Anonymous]
                /\ open[x] \/ serve[x] = "new"
           /\ \A x \in Clients : serve'[x] = "new" => serve[x] = "new"
           /\ \A c \in Commands : reply'[c] # "none" => serve'[From[c]] # "new"
<1> USE OrchestratorAssumption DEF OrchestratorAssumption
<1>1. TypeOK /\ TellInv /\ EndpointInv
  BY DEF OrchInv
<1>2. Anonymous \in Uids
  BY DEF Uids
<1>3. CASE Connect(w)
  BY <1>1, <1>2, <1>3 DEF Connect, TypeOK, TellInv
<1>4. CASE Close(w) \/ ReceiveGarbage(w) \/ AnnounceCancelled(w)
  BY <1>1, <1>4 DEF Close, ReceiveGarbage, AnnounceCancelled, TypeOK, TellInv
<1>5. CASE ReceiveDisconnect(w)
  BY <1>1, <1>2, <1>5 DEF ReceiveDisconnect, Disconnect, TypeOK, TellInv
<1>6. ASSUME NEW c \in Commands, Receive(w, c)
      PROVE  /\ open' = open /\ connections' = connections
             /\ \A x \in Clients : serve'[x] = "new" => serve[x] = "new"
             /\ \A d \in Commands : reply'[d] # "none" => serve'[From[d]] # "new"
  <2>1. /\ open' = open /\ connections' = connections
        /\ reply' = [reply EXCEPT ![c] = "waiting"]
        /\ From[c] = w
        /\ serve' \in {[serve EXCEPT ![w] = "parse"], [serve EXCEPT ![w] = "announce"]}
    BY <1>6 DEF Receive, Enqueue
  <2>2. serve'[w] # "new" /\ \A x \in Clients \ {w} : serve'[x] = serve[x]
    BY <1>1, <2>1 DEF TypeOK
  <2>3. \A d \in Commands \ {c} : reply'[d] = reply[d]
    BY <1>1, <2>1 DEF TypeOK
  <2> QED
    BY <1>1, <2>1, <2>2, <2>3 DEF TellInv
<1>7. CASE Parsed(w) \/ ParseRaises(w)
  BY <1>1, <1>7 DEF Parsed, Enqueue, ParseRaises, TypeOK, TellInv
<1>8. CASE Respond(w)
  <2>1. /\ open' = open /\ connections' = connections
        /\ serve' = [serve EXCEPT ![w] = "receive"]
        /\ From[request[w]] = w
        /\ \A d \in Commands : reply'[d] = reply[d] \/ d = request[w]
    BY <1>1, <1>8 DEF Respond, EndpointInv, TypeOK
  <2>2. serve'[w] # "new" /\ \A x \in Clients \ {w} : serve'[x] = serve[x]
    BY <1>1, <2>1 DEF TypeOK
  <2> QED
    BY <1>1, <2>1, <2>2 DEF TellInv
<1>9. CASE RespondFails(w)
  <2>1. ~open[w] /\ open' = open /\ reply' = reply /\ serve' = [serve EXCEPT ![w] = "ended"]
    BY <1>9 DEF RespondFails
  <2>2. connections'[Anonymous] \in {connections[Anonymous], connections[Anonymous] \ {w}}
    BY <1>1, <1>2, <1>9 DEF RespondFails, Disconnect
  <2> QED
    BY <1>1, <2>1, <2>2 DEF TellInv, TypeOK
<1> QED
  BY <1>1, <1>3, <1>4, <1>5, <1>6, <1>7, <1>8, <1>9 DEF ClientStep, TellInv

LEMMA NextTellInv ==
    ASSUME OrchInv, [Next]_vars
    PROVE  TellInv' /\ AnonymousIsTold'
<1> USE OrchestratorAssumption DEF OrchestratorAssumption, clientVars, loopVars, pastVars
<1>1. TypeOK /\ TaskInOnePlace /\ TellInv /\ EndpointInv
  BY DEF OrchInv
<1>2. done \subseteq Commands
  BY <1>1 DEF TypeOK
<1>3. CASE UNCHANGED vars
  BY <1>1, <1>2, <1>3 DEF vars, TellInv, AnonymousIsTold
<1>4. ASSUME NEW w \in Clients, ClientStep(w)
      PROVE  TellInv' /\ AnonymousIsTold'
  <2>1. UNCHANGED loopVars
    BY <1>4, ClientEffect DEF Quiet, NewTask
  <2>2. \A c \in Commands : c \in done \union ({current} \ {NoTask}) => serve[From[c]] # "new"
    BY <1>1 DEF TaskInOnePlace, EndpointInv, TellInv
  <2>3. \A c \in Commands : c \in done \/ c = current => (open'[From[c]] => open[From[c]])
    BY <1>4, <2>2, ClientSockets
  <2>4. TellInv'
    BY <1>1, <1>4, <2>1, <2>3, ClientSockets DEF TellInv
  <2> QED
    BY <1>2, <2>1, <2>4 DEF TellInv, AnonymousIsTold
<1>5. CASE Worker
  <2>1. UNCHANGED <<open, serve, connections, reply>>
    BY <1>5, WorkerKeepsClients
  <2>2. SUFFICES ASSUME NEW c \in Commands, User[c] = NoUser, open[From[c]]
                 PROVE  /\ c \in done' => <<c, From[c]>> \in delivered'
                        /\ c = current' /\ loop' = "broadcast" =>
                             From[c] \in targets' \/ <<c, From[c]>> \in delivered'
    <3>1. done' \subseteq Commands
      BY <1>5, WorkerTypes DEF TypeOK
    <3> QED
      BY <1>1, <2>1, <2>2, <3>1 DEF TellInv, AnonymousIsTold
  <2>3. /\ c \in done => <<c, From[c]>> \in delivered
        /\ c = current /\ loop = "broadcast" =>
             From[c] \in targets \/ <<c, From[c]>> \in delivered
        /\ From[c] \in connections[Anonymous]
    BY <1>1, <2>2 DEF TellInv
  <2>4. CASE Take
    BY <2>3, <2>4 DEF Take, AfterError
  <2>5. CASE Generated \/ PublishCancelled \/ LoopCancelled \/ Shutdown
    BY <2>3, <2>5 DEF Generated, PublishCancelled, LoopCancelled, Shutdown
  <2>6. CASE Published
    <3>1. c = current => From[c] \in targets'
      BY <2>2, <2>3, <2>6 DEF Published, Addressees, Uids
    <3> QED
      BY <2>3, <2>6, <3>1 DEF Published
  <2>7. CASE Finish
    BY <2>3, <2>7 DEF Finish, Again
  <2>8. CASE WakeUp \/ BroadcastRaises
    BY <2>3, <2>8 DEF WakeUp, BroadcastRaises, Again, AfterError
  <2>9. ASSUME NEW w \in Clients, Send(w)
        PROVE  /\ c \in done' => <<c, From[c]>> \in delivered'
               /\ c = current' /\ loop' = "broadcast" =>
                    From[c] \in targets' \/ <<c, From[c]>> \in delivered'
    BY <2>2, <2>3, <2>9 DEF Send, Rest
  <2> QED
    BY <1>5, <2>4, <2>5, <2>6, <2>7, <2>8, <2>9 DEF Worker
<1> QED
  BY <1>3, <1>4, <1>5, NextSplits

-----------------------------------------------------------------------------
(* The order of service.                                                   *)

\* A task that was accepted after another one is in the queue while that one
\* is in work, and behind it while both wait.
QueueOrder ==
    \A c, d \in Commands, i, j \in DOMAIN events :
        /\ events[i] = <<"created", c>> /\ events[j] = <<"created", d>>
        /\ i < j
        => /\ current = c => d \in Waiting
           /\ \A m \in DOMAIN queue : queue[m] = c =>
                 \E n \in DOMAIN queue : m < n /\ queue[n] = d

\* The steps of the worker that neither take nor complete a task.
LEMMA WorkerKeepsOrder ==
    ASSUME QueueOrder, ServedInOrder, UNCHANGED <<queue, events>>,
           current' \in {current, NoTask}
    PROVE  QueueOrder' /\ ServedInOrder'
<1>1. Waiting' = Waiting
  BY DEF Waiting
<1>2. QueueOrder'
  <2> SUFFICES ASSUME NEW c \in Commands, NEW d \in Commands,
                      NEW i \in DOMAIN events, NEW j \in DOMAIN events,
                      events[i] = <<"created", c>>, events[j] = <<"created", d>>, i < j
               PROVE  /\ current' = c => d \in Waiting
                      /\ \A m \in DOMAIN queue : queue[m] = c =>
                            \E n \in DOMAIN queue : m < n /\ queue[n] = d
    BY <1>1 DEF QueueOrder
  <2> QED
    BY OrchestratorAssumption DEF OrchestratorAssumption, QueueOrder
<1>3. ServedInOrder'
  BY DEF ServedInOrder
<1> QED
  BY <1>2, <1>3

\* The task that is taken is older than all that wait.
LEMMA TakeOrder ==
    ASSUME OrchInv, QueueOrder, ServedInOrder, Take
    PROVE  QueueOrder' /\ ServedInOrder'
<1>1. TypeOK /\ TaskInOnePlace
  BY DEF OrchInv
<1>2. queue \in Seq(Commands) /\ queue # <<>> /\ queue' = Tail(queue) /\ events' = events
      /\ current = NoTask /\ (current' = current \/ current' = Head(queue))
  BY <1>1 DEF Take, Taken, TypeOK, TaskInOnePlace
<1>3. /\ Len(queue) \in Nat /\ Len(queue) >= 1
      /\ DOMAIN queue = 1..Len(queue)
      /\ DOMAIN queue' = 1..(Len(queue) - 1)
      /\ \A m \in 1..(Len(queue) - 1) : queue'[m] = queue[m + 1]
      /\ Head(queue) = queue[1]
  BY <1>2, TailFacts
<1>4. Waiting' = {c \in Commands : \E n \in 1..(Len(queue) - 1) : queue'[n] = c}
  BY <1>3 DEF Waiting
<1>5. ServedInOrder'
  BY <1>2 DEF ServedInOrder
<1>6. ASSUME NEW c \in Commands, NEW d \in Commands,
             NEW i \in DOMAIN events, NEW j \in DOMAIN events,
             events[i] = <<"created", c>>, events[j] = <<"created", d>>, i < j
      PROVE  /\ current' = c => d \in Waiting'
             /\ \A m \in 1..(Len(queue) - 1) : queue'[m] = c =>
                   \E n \in 1..(Len(queue) - 1) : m < n /\ queue'[n] = d
  <2>1. \A m \in 1..Len(queue) : queue[m] = c =>
           \E n \in 1..Len(queue) : m < n /\ queue[n] = d
    BY <1>3, <1>6 DEF QueueOrder
  <2>2. ASSUME current' = c
        PROVE  d \in Waiting'
    <3>1. queue[1] = c /\ 1 \in 1..Len(queue)
      BY <1>2, <1>3, <2>2, OrchestratorAssumption DEF OrchestratorAssumption
    <3>2. PICK n \in 1..Len(queue) : 1 < n /\ queue[n] = d
      BY <2>1, <3>1
    <3>3. n - 1 \in 1..(Len(queue) - 1) /\ queue'[n - 1] = d
      BY <1>3, <3>2
    <3> QED
      BY <1>4, <3>3
  <2>3. ASSUME NEW m \in 1..(Len(queue) - 1), queue'[m] = c
        PROVE  \E n \in 1..(Len(queue) - 1) : m < n /\ queue'[n] = d
    <3>1. m + 1 \in 1..Len(queue) /\ queue[m + 1] = c
      BY <1>3, <2>3
    <3>2. PICK n \in 1..Len(queue) : m + 1 < n /\ queue[n] = d
      BY <2>1, <3>1
    <3>3. n - 1 \in 1..(Len(queue) - 1) /\ m < n - 1 /\ queue'[n - 1] = d
      BY <1>3, <3>2
    <3> QED
      BY <3>3
  <2> QED
    BY <2>2, <2>3
<1>7. QueueOrder'
  <2> SUFFICES ASSUME NEW c \in Commands, NEW d \in Commands,
                      NEW i \in DOMAIN events, NEW j \in DOMAIN events,
                      events[i] = <<"created", c>>, events[j] = <<"created", d>>, i < j
               PROVE  /\ current' = c => d \in Waiting'
                      /\ \A m \in DOMAIN queue' : queue'[m] = c =>
                            \E n \in DOMAIN queue' : m < n /\ queue'[n] = d
    BY <1>2 DEF QueueOrder
  <2> QED
    BY <1>3, <1>6
<1> QED
  BY <1>5, <1>7

\* A new task is accepted last, and is the last in the queue.
LEMMA NewTaskOrder ==
    ASSUME OrchInv, QueueOrder, ServedInOrder, NEW c \in Commands, NewTask(c)
    PROVE  QueueOrder' /\ ServedInOrder'
<1>1. TypeOK /\ TaskInOnePlace
  BY DEF OrchInv
<1>2. /\ Len(events) \in Nat
      /\ DOMAIN events = 1..Len(events)
      /\ DOMAIN events' = 1..(Len(events) + 1)
      /\ \A i \in 1..Len(events) : events'[i] = events[i]
      /\ events'[Len(events) + 1] = <<"created", c>>
  BY <1>1, AnnounceCreated, AppendEvent DEF NewTask
<1>3. /\ Len(queue) \in Nat
      /\ DOMAIN queue = 1..Len(queue)
      /\ DOMAIN queue' = 1..(Len(queue) + 1)
      /\ \A n \in 1..Len(queue) : queue'[n] = queue[n]
      /\ queue'[Len(queue) + 1] = c
  BY <1>1, AppendFacts DEF NewTask, Put, TypeOK
<1>4. current' = current /\ c \notin Created /\ Waiting' = Waiting \union {c}
  BY <1>1, PutWaiting DEF NewTask, loopVars
<1>5. ASSUME NEW b \in Commands, NEW d \in Commands,
             NEW i \in 1..(Len(events) + 1), NEW j \in 1..(Len(events) + 1),
             events'[i] = <<"created", b>>, events'[j] = <<"created", d>>, i < j
      PROVE  /\ current' = b => d \in Waiting'
             /\ \A m \in 1..(Len(queue) + 1) : queue'[m] = b =>
                   \E n \in 1..(Len(queue) + 1) : m < n /\ queue'[n] = d
  <2>1. i \in 1..Len(events) /\ events[i] = <<"created", b>> /\ b \in Created
    BY <1>2, <1>5 DEF Created
  <2>2. ASSUME NEW m \in 1..(Len(queue) + 1), queue'[m] = b
        PROVE  m \in 1..Len(queue) /\ queue[m] = b
    BY <1>3, <1>4, <2>1, <2>2
  <2>3. CASE j = Len(events) + 1
    <3>1. d = c
      BY <1>2, <1>5, <2>3
    <3>2. \A m \in 1..(Len(queue) + 1) : queue'[m] = b => m < Len(queue) + 1
      BY <1>3, <2>2
    <3> QED
      BY <1>3, <1>4, <3>1, <3>2
  <2>4. CASE j \in 1..Len(events)
    <3>1. events[j] = <<"created", d>>
      BY <1>2, <1>5, <2>4
    <3>2. /\ current = b => d \in Waiting
          /\ \A m \in 1..Len(queue) : queue[m] = b =>
                \E n \in 1..Len(queue) : m < n /\ queue[n] = d
      BY <1>2, <1>3, <1>5, <2>1, <2>4, <3>1 DEF QueueOrder
    <3>3. ASSUME NEW m \in 1..(Len(queue) + 1), queue'[m] = b
          PROVE  \E n \in 1..(Len(queue) + 1) : m < n /\ queue'[n] = d
      <4>1. PICK n \in 1..Len(queue) : m < n /\ queue[n] = d
        BY <2>2, <3>2, <3>3
      <4> QED
        BY <1>3, <4>1
    <3> QED
      BY <1>4, <3>2, <3>3
  <2> QED
    BY <1>2, <2>3, <2>4
<1>6. QueueOrder'
  <2> SUFFICES ASSUME NEW b \in Commands, NEW d \in Commands,
                      NEW i \in DOMAIN events', NEW j \in DOMAIN events',
                      events'[i] = <<"created", b>>, events'[j] = <<"created", d>>, i < j
               PROVE  /\ current' = b => d \in Waiting'
                      /\ \A m \in DOMAIN queue' : queue'[m] = b =>
                            \E n \in DOMAIN queue' : m < n /\ queue'[n] = d
    BY DEF QueueOrder
  <2>1. i \in 1..(Len(events) + 1) /\ j \in 1..(Len(events) + 1)
    BY <1>2
  <2>2. /\ current' = b => d \in Waiting'
        /\ \A m \in 1..(Len(queue) + 1) : queue'[m] = b =>
              \E n \in 1..(Len(queue) + 1) : m < n /\ queue'[n] = d
    BY <1>5, <2>1
  <2>3. DOMAIN queue' = 1..(Len(queue) + 1)
    BY <1>3
  <2> QED
    BY <2>2, <2>3
<1>7. ASSUME NEW b \in Commands, NEW d \in Commands,
             NEW i \in 1..(Len(events) + 1), NEW j \in 1..(Len(events) + 1),
             NEW k \in 1..(Len(events) + 1), NEW l \in 1..(Len(events) + 1),
             events'[i] = <<"created", b>>, events'[j] = <<"created", d>>,
             events'[k] = <<"completed", b>>, events'[l] = <<"completed", d>>, i < j
      PROVE  k < l
  <2>1. /\ k \in 1..Len(events) /\ events[k] = <<"completed", b>>
        /\ l \in 1..Len(events) /\ events[l] = <<"completed", d>>
    BY <1>2, <1>7
  <2>2. EventOrder
    BY DEF OrchInv
  <2>3. PICK n \in 1..(l - 1) : events[n] = <<"created", events[l][2]>>
    <3>1. l \in DOMAIN events /\ events[l][1] = "completed"
      BY <1>2, <2>1
    <3> QED
      BY <2>2, <3>1 DEF EventOrder
  <2>4. n \in 1..Len(events) /\ events[n] = <<"created", d>>
    BY <1>2, <1>7, <2>1, <2>3
  <2>5. d \in Created
    BY <1>2, <2>4 DEF Created
  <2>6. /\ j \in 1..Len(events) /\ events[j] = <<"created", d>>
        /\ i \in 1..Len(events) /\ events[i] = <<"created", b>>
    BY <1>2, <1>4, <1>7, <2>5
  <2> QED
    BY <1>2, <1>7, <2>1, <2>6 DEF ServedInOrder
<1>8. ServedInOrder'
  BY <1>2, <1>7 DEF ServedInOrder
<1> QED
  BY <1>6, <1>8

\* The task that is completed is older than all that are not.
LEMMA GeneratedOrder ==
    ASSUME OrchInv, QueueOrder, ServedInOrder, Generated
    PROVE  QueueOrder' /\ ServedInOrder'
<1> USE DEF clientVars, loopVars, pastVars
<1>1. TypeOK /\ TaskInOnePlace /\ CompletionInv
  BY DEF OrchInv
<1>2. current \in Commands /\ current \notin Waiting
  BY <1>1 DEF Generated, TypeOK, TaskInOnePlace
<1>3. /\ Len(events) \in Nat
      /\ DOMAIN events = 1..Len(events)
      /\ DOMAIN events' = 1..(Len(events) + 1)
      /\ \A i \in 1..Len(events) : events'[i] = events[i]
      /\ events'[Len(events) + 1] = <<"completed", current>>
  BY <1>1, <1>2, CompleteCreated, AppendEvent DEF Generated
<1>4. queue' = queue /\ current' = current /\ Waiting' = Waiting
  BY DEF Generated, Waiting
<1>5. \A c \in Commands, i \in 1..(Len(events) + 1) :
         events'[i] = <<"created", c>> => i \in 1..Len(events) /\ events[i] = <<"created", c>>
  BY <1>3
<1>6. QueueOrder'
  BY <1>3, <1>4, <1>5 DEF QueueOrder
<1>7. ASSUME NEW c \in Commands, NEW d \in Commands,
             NEW i \in 1..(Len(events) + 1), NEW j \in 1..(Len(events) + 1),
             NEW k \in 1..(Len(events) + 1), NEW l \in 1..(Len(events) + 1),
             events'[i] = <<"created", c>>, events'[j] = <<"created", d>>,
             events'[k] = <<"completed", c>>, events'[l] = <<"completed", d>>, i < j
      PROVE  k < l
  <2>1. /\ i \in 1..Len(events) /\ events[i] = <<"created", c>>
        /\ j \in 1..Len(events) /\ events[j] = <<"created", d>>
    BY <1>5, <1>7
  <2>2. CASE k = Len(events) + 1
    <3>1. c = current
      BY <1>3, <1>7, <2>2
    <3>2. d \in Waiting
      BY <1>3, <1>7, <2>1, <3>1 DEF QueueOrder
    <3>3. l \in 1..Len(events) /\ events[l] = <<"completed", d>>
      BY <1>2, <1>3, <1>7, <3>2
    <3>4. d \in done \union lost \/ d = current
      BY <1>1, <1>3, <3>3 DEF CompletionInv
    <3> QED
      BY <1>1, <1>2, <3>2, <3>4 DEF TaskInOnePlace
  <2>3. CASE k \in 1..Len(events) /\ l = Len(events) + 1
    BY <1>3, <2>3
  <2>4. CASE k \in 1..Len(events) /\ l \in 1..Len(events)
    BY <1>3, <1>7, <2>1, <2>4 DEF ServedInOrder
  <2> QED
    BY <1>3, <2>2, <2>3, <2>4
<1>8. ServedInOrder'
  BY <1>3, <1>7 DEF ServedInOrder
<1> QED
  BY <1>6, <1>8

LEMMA NextOrder ==
    ASSUME OrchInv, QueueOrder, ServedInOrder, [Next]_vars
    PROVE  QueueOrder' /\ ServedInOrder'
<1> USE DEF clientVars, loopVars, pastVars
<1>1. CASE Quiet \/ UNCHANGED vars
  BY <1>1, WorkerKeepsOrder DEF Quiet, vars
<1>2. CASE PublishCancelled \/ Published \/ BroadcastRaises
  BY <1>2, WorkerKeepsOrder DEF PublishCancelled, Published, BroadcastRaises
<1>3. CASE Finish \/ WakeUp \/ Shutdown \/ LoopCancelled
  BY <1>3, WorkerKeepsOrder DEF Finish, WakeUp, Shutdown, LoopCancelled
<1>4. ASSUME NEW w \in Clients, Send(w)
      PROVE  QueueOrder' /\ ServedInOrder'
  BY <1>4, WorkerKeepsOrder DEF Send
<1> QED
  BY <1>1, <1>2, <1>3, <1>4, NextSplits, ClientEffect, TakeOrder, NewTaskOrder,
     GeneratedOrder DEF Worker

-----------------------------------------------------------------------------
(* The theorems.                                                           *)

LEMMA InitOrchInv == Init => OrchInv
<1> SUFFICES ASSUME Init
             PROVE  OrchInv
  OBVIOUS
<1> USE OrchestratorAssumption DEF OrchestratorAssumption
<1>1. events = <<>> /\ queue = <<>> /\ done = {} /\ lost = {} /\ late = {}
  BY DEF Init
<1>2. Created = {} /\ Waiting = {}
  BY <1>1 DEF Created, Waiting
<1>3. current = NoTask /\ loop = "get" /\ state = "idle"
  BY DEF Init
<1>4. TaskInOnePlace
  BY <1>1, <1>2, <1>3 DEF TaskInOnePlace
<1>5. EventOrder /\ OneTaskAfterStop /\ AnonymousIsTold /\ CompletionInv /\ LateInv
  BY <1>1 DEF EventOrder, OneTaskAfterStop, AnonymousIsTold, CompletionInv, LateInv
<1>6. EndpointInv
  BY <1>2 DEF Init, EndpointInv
<1>7. TellInv
  BY <1>1, <1>3 DEF Init, TellInv
<1> QED
  BY <1>4, <1>5, <1>6, <1>7, InitTypeOK DEF OrchInv

LEMMA NextOrchInv == OrchInv /\ [Next]_vars => OrchInv'
  BY NextTypeOK, NextInOnePlace, NextEventOrder, NextOneTaskAfterStop, NextEndpointInv,
     NextTellInv DEF OrchInv

\* Tasks, events, endpoints and broadcasts agree in every reachable state.
THEOREM OrchInvariance == Spec => []OrchInv
  BY InitOrchInv, NextOrchInv, PTL DEF Spec

\* task.completed is published once for a task, and after its task.created.
THEOREM AuditTrail == Spec => []EventOrder
<1>1. OrchInv => EventOrder
  BY DEF OrchInv
<1> QED
  BY <1>1, OrchInvariance, PTL

\* After shutdown() the worker takes at most one more task.
THEOREM StopHolds == Spec => []OneTaskAfterStop
<1>1. OrchInv => OneTaskAfterStop
  BY DEF OrchInv
<1> QED
  BY <1>1, OrchInvariance, PTL

\* A client without a user has its result when the task is over, or has gone.
THEOREM ResultsReachAnonymous == Spec => []AnonymousIsTold
<1>1. OrchInv => AnonymousIsTold
  BY DEF OrchInv
<1> QED
  BY <1>1, OrchInvariance, PTL

\* Tasks of all connections are completed in the order they were accepted,
\* although each is announced by its own endpoint and some never complete.
THEOREM ServedFirstComeFirst == Spec => []ServedInOrder
<1>1. Init => QueueOrder /\ ServedInOrder
  BY DEF Init, QueueOrder, ServedInOrder
<1>2. OrchInv /\ QueueOrder /\ ServedInOrder /\ [Next]_vars => (QueueOrder /\ ServedInOrder)'
  BY NextOrder
<1> QED
  BY <1>1, <1>2, OrchInvariance, PTL DEF Spec
=============================================================================
