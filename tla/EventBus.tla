------------------------------- MODULE EventBus -------------------------------
(***************************************************************************)
(* kernel/events: publications, subscribers and the dispatch between them. *)
(*                                                                         *)
(* publish() takes a snapshot of the subscribers, takes the once-only ones *)
(* out of the table, and gathers one task for each: all of this without a  *)
(* suspension.  The tasks start in the order of priority; subscriptions,   *)
(* publications and other handlers may come between two starts.            *)
(***************************************************************************)
EXTENDS Integers

CONSTANTS
    Subs,       \* the subscribers, each of which subscribes once
    Pubs,       \* the calls of publish()
    Topic,      \* event name of every subscriber and publication
    Priority,   \* Subscriber.priority
    Once,       \* the subscribers with once=True
    Accepts,    \* the publications the filter of a subscriber lets through
    Emits,      \* the publication the handler of a subscriber makes, or NoPub
    Unruly,     \* the subscribers whose handler may raise CancelledError
    MaxHistory, \* _max_history
    NoPub

ASSUME EventBusAssumption ==
    /\ Topic \in [Subs \union Pubs -> STRING]
    /\ Priority \in [Subs -> Int]
    /\ Once \subseteq Subs /\ Unruly \subseteq Subs
    /\ Accepts \in [Subs -> SUBSET Pubs]
    /\ Emits \in [Subs -> Pubs \union {NoPub}]
    /\ NoPub \notin Pubs
    /\ MaxHistory \in Nat

VARIABLES
    sub,      \* of a subscriber: "new", "on" (in the table), "off" (taken out)
    pub,      \* of a call of publish(): "new", "gather", "returned", "raised"
    maker,    \* the handlers' calls <<p, s>> that await a publication
    target,   \* the snapshot of a publication
    todo,     \* of the snapshot: the tasks that have not started
    active,   \* <<p, s>>: the handler of s is at work on p
    called,   \* history: <<p, s>> such that the handler of s was called for p
    escaped,  \* history: the calls whose exception left _safe_dispatch
    history   \* len(_history)

busVars == <<sub, pub, maker, target, todo, active, called, escaped, history>>

BusInit ==
    /\ sub = [s \in Subs |-> "new"]
    /\ pub = [p \in Pubs |-> "new"]
    /\ maker = [p \in Pubs |-> {}]
    /\ target = [p \in Pubs |-> {}]
    /\ todo = [p \in Pubs |-> {}]
    /\ active = {}
    /\ called = {}
    /\ escaped = {}
    /\ history = 0

-----------------------------------------------------------------------------
Subscribe(s) ==
    /\ sub[s] = "new"
    /\ sub' = [sub EXCEPT ![s] = "on"]
    /\ UNCHANGED <<pub, maker, target, todo, active, called, escaped, history>>

\* unsubscribe(): a dispatch that has its snapshot is not stopped.
Unsubscribe(s) ==
    /\ sub[s] = "on"
    /\ sub' = [sub EXCEPT ![s] = "off"]
    /\ UNCHANGED <<pub, maker, target, todo, active, called, escaped, history>>

Matching(p) == {s \in Subs : sub[s] = "on" /\ Topic[s] = Topic[p]}

\* Mutant: the lock is held until the gather has returned.
LockFree_HeldInGather == \A p \in Pubs : pub[p] # "gather"

\* The lock is released before the gather: no task ever finds it taken.
LockFree == TRUE

\* Mutant: the once-only subscribers are not taken out with the snapshot.
Consumed_Never(p) == {}

\* The once-only subscribers leave the table with the snapshot, before their
\* handlers run, and even if their filter turns the event down.
Consumed(p) == Matching(p) \intersect Once

\* The event is noted, and the oldest one dropped above the limit.
Record == history' = IF history = MaxHistory THEN history ELSE history + 1

\* publish() up to its gather.
Gather(p) ==
    /\ pub[p] = "new"
    /\ LockFree
    /\ target' = [target EXCEPT ![p] = Matching(p)]
    /\ todo' = [todo EXCEPT ![p] = Matching(p)]
    /\ sub' = [s \in Subs |-> IF s \in Consumed(p) THEN "off" ELSE sub[s]]
    /\ pub' = [pub EXCEPT ![p] = IF Matching(p) = {} THEN "returned" ELSE "gather"]
    /\ Record
    /\ UNCHANGED <<active, called, escaped>>

\* Anybody publishes what no handler does.
Publish(p) ==
    /\ \A s \in Subs : Emits[s] # p
    /\ Gather(p)
    /\ UNCHANGED maker

\* A handler at work publishes, and awaits it.
PublishWithin(p, s) ==
    /\ <<p, s>> \in active
    /\ Emits[s] # NoPub
    /\ Gather(Emits[s])
    /\ maker' = [maker EXCEPT ![Emits[s]] = {<<p, s>>}]

\* The next task: sorted by falling priority, equal ones in any order.
First(p) == {s \in todo[p] : \A x \in todo[p] : Priority[x] <= Priority[s]}

\* _safe_dispatch starts: the filter, then the handler.
TaskStarts(p, s) ==
    /\ s \in First(p)
    /\ todo' = [todo EXCEPT ![p] = @ \ {s}]
    /\ IF p \in Accepts[s]
       THEN active' = active \union {<<p, s>>} /\ called' = called \union {<<p, s>>}
       ELSE UNCHANGED <<active, called>>
    /\ UNCHANGED <<sub, pub, maker, target, escaped, history>>

-----------------------------------------------------------------------------
(* The ways a handler ends.                                                *)

\* The call <<p, s>> made a publication that is in state st.
Made(p, s, st) == \E q \in Pubs : <<p, s>> \in maker[q] /\ pub[q] = st

\* The handler runs on: it awaits neither the lock for a publication of its
\* own nor the publication, and none has raised.
RunsOn(p, s) ==
    /\ <<p, s>> \in active
    /\ LockFree \/ Emits[s] \notin {q \in Pubs : pub[q] = "new"}
    /\ ~Made(p, s, "gather")
    /\ ~Made(p, s, "raised")

\* The handler returns.
HandlerReturns(p, s) ==
    /\ RunsOn(p, s)
    /\ active' = active \ {<<p, s>>}
    /\ UNCHANGED <<sub, pub, maker, target, todo, called, escaped, history>>


\* An exception leaves _safe_dispatch: the gather, and so publish(), raises it
\* at once, and the other tasks go on without it.
Escapes(p, s) ==
    /\ active' = active \ {<<p, s>>}
    /\ escaped' = escaped \union {<<p, s>>}
    /\ pub' = [pub EXCEPT ![p] = "raised"]
    /\ UNCHANGED <<sub, maker, target, todo, called, history>>

\* Mutant: _safe_dispatch does not catch the exception.
HandlerFails_Escapes(p, s) == RunsOn(p, s) /\ Escapes(p, s)

\* The handler raises an Exception: logged, and swallowed.
HandlerFails(p, s) ==
    /\ RunsOn(p, s)
    /\ active' = active \ {<<p, s>>}
    /\ UNCHANGED <<sub, pub, maker, target, todo, called, escaped, history>>

\* CancelledError is no Exception: a handler raises it of its own accord ...
HandlerRaisesCancelled(p, s) == s \in Unruly /\ RunsOn(p, s) /\ Escapes(p, s)

\* ... or gets it from the publication that it awaits.
HandlerIsStruck(p, s) == <<p, s>> \in active /\ Made(p, s, "raised") /\ Escapes(p, s)

HandlerEnds(p, s) ==
    \/ HandlerReturns(p, s)
    \/ HandlerFails(p, s)
    \/ HandlerRaisesCancelled(p, s)
    \/ HandlerIsStruck(p, s)

PublishReturns(p) ==
    /\ pub[p] = "gather"
    /\ todo[p] = {}
    /\ \A s \in Subs : <<p, s>> \notin active
    /\ pub' = [pub EXCEPT ![p] = "returned"]
    /\ UNCHANGED <<sub, maker, target, todo, active, called, escaped, history>>

ClearHistory ==
    /\ history > 0
    /\ history' = 0
    /\ UNCHANGED <<sub, pub, maker, target, todo, active, called, escaped>>

\* What a publication needs to come back.
DispatchStep ==
    \/ \E p \in Pubs : PublishReturns(p)
    \/ \E p \in Pubs, s \in Subs : TaskStarts(p, s) \/ HandlerEnds(p, s)

BusNext ==
    \/ \E s \in Subs : Subscribe(s) \/ Unsubscribe(s)
    \/ \E p \in Pubs : Publish(p)
    \/ \E p \in Pubs, s \in Subs : PublishWithin(p, s)
    \/ DispatchStep
    \/ ClearHistory

BusSpec == BusInit /\ [][BusNext]_busVars

\* The event loop goes on while a task can start or a handler end: every task
\* starts once and every handler ends once, so none of them waits for ever.
BusFairness == WF_busVars(DispatchStep)

BusFairSpec == BusSpec /\ BusFairness

-----------------------------------------------------------------------------
\* Types, and the cap of the history that /health counts.
BusTypeOK ==
    /\ sub \in [Subs -> {"new", "on", "off"}]
    /\ pub \in [Pubs -> {"new", "gather", "returned", "raised"}]
    /\ maker \in [Pubs -> SUBSET (Pubs \X Subs)]
    /\ target \in [Pubs -> SUBSET Subs]
    /\ todo \in [Pubs -> SUBSET Subs]
    /\ active \subseteq Pubs \X Subs
    /\ called \subseteq Pubs \X Subs
    /\ escaped \subseteq Pubs \X Subs
    /\ history \in 0..MaxHistory

\* The handler of a once-only subscriber is called at most once, although
\* publications overlap and handlers publish before the first one is over.
OnceAtMostOnce ==
    \A s \in Once, p, q \in Pubs : <<p, s>> \in called /\ <<q, s>> \in called => p = q

\* publish() raises when, and only when, one of its own calls let an exception
\* out, and that is a CancelledError that some handler raised of its own accord,
\* through however many nested publications it came: an ordinary failure of a
\* handler reaches no publisher, neither its own nor one further out.
OnlyCancelledEscapes ==
    /\ \A p \in Pubs : pub[p] = "raised" <=> \E s \in Subs : <<p, s>> \in escaped
    /\ \A p \in Pubs, s \in Subs : <<p, s>> \in escaped => s \in Unruly \/ Made(p, s, "raised")
    /\ escaped # {} => \E p \in Pubs, s \in Unruly : <<p, s>> \in escaped

\* The inductive invariant: snapshots, tasks and calls agree, and a once-only
\* subscriber is in at most one snapshot, and no longer in the table then.
DispatchInv ==
    /\ BusTypeOK
    /\ \A p, q \in Pubs : target[p] \intersect target[q] \intersect Once # {} => p = q
    /\ \A p \in Pubs : \A s \in target[p] \intersect Once : sub[s] = "off"
    /\ \A p \in Pubs, s \in Subs :
         /\ <<p, s>> \in active => <<p, s>> \in called /\ pub[p] \in {"gather", "raised"}
         /\ <<p, s>> \in called => s \in target[p]
         /\ s \in todo[p] => s \in target[p]
         /\ pub[p] = "new" => s \notin target[p]
         /\ pub[p] = "returned" => s \notin todo[p]
    /\ OnlyCancelledEscapes


\* Every publication comes back to its publisher, those made by handlers in
\* the middle of a dispatch included: the bus never waits for itself.
PublicationsReturn ==
    \A p \in Pubs : pub[p] = "gather" ~> pub[p] \in {"returned", "raised"}
=============================================================================
