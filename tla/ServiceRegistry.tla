---------------------------- MODULE ServiceRegistry ----------------------------
(***************************************************************************)
(* kernel/services/service_registry.py: the services that are registered   *)
(* with the names they depend on, and resolve_dependency_order, the depth- *)
(* first search that brings them into an order.                            *)
(*                                                                         *)
(* The recursive visit() is a stack of frames.  Its lowest frame is the    *)
(* loop over all services, which makes the same calls.  The dependencies   *)
(* of a service are a Python set, met in any order; so are the services    *)
(* here, which covers every order of registration.                         *)
(***************************************************************************)
EXTENDS Naturals, Sequences

CONSTANTS
    Names,    \* names of services, and of what they depend on
    Root      \* the loop of resolve_dependency_order, a frame without a name

ASSUME RegistryAssumption == Root \notin Names

VARIABLES
    services, \* the names that are registered
    deps,     \* ServiceDefinition.dependencies; {} of a name that is not registered
    stack,    \* the calls of visit() under way, innermost last
    visited,  \* the local variables of resolve_dependency_order: after its end
    resolved, \* they tell what it returned
    outcome   \* "none", "resolving", "returned", or "raised" a ValueError

vars == <<services, deps, stack, visited, resolved, outcome>>

Init ==
    /\ services = {}
    /\ deps = [n \in Names |-> {}]
    /\ stack = <<>>
    /\ visited = {}
    /\ resolved = <<>>
    /\ outcome = "none"

\* Nobody registers in the middle of the search, which is ordinary code.
Idle == outcome # "resolving"

\* What an earlier search has found is out of date.
Forget ==
    /\ visited' = {}
    /\ resolved' = <<>>
    /\ outcome' = "none"
    /\ UNCHANGED stack

\* register() of a new name; of a name it has, it raises and changes nothing.
Register(n, D) ==
    /\ Idle
    /\ n \notin services
    /\ services' = services \union {n}
    /\ deps' = [deps EXCEPT ![n] = D]
    /\ Forget

\* unregister(): services that depend on n keep its name.
Unregister(n) ==
    /\ Idle
    /\ n \in services
    /\ services' = services \ {n}
    /\ deps' = [deps EXCEPT ![n] = {}]
    /\ Forget

-----------------------------------------------------------------------------
(* resolve_dependency_order.                                               *)

Elements(s) == {s[i] : i \in DOMAIN s}
Top == stack[Len(stack)]

\* The names a frame goes through.
Needs(n) == IF n = Root THEN services ELSE deps[n]
Frame(n) == [name |-> n, rest |-> Needs(n)]

Resolve ==
    /\ Idle
    /\ outcome' = "resolving"
    /\ stack' = <<Frame(Root)>>
    /\ visited' = {}
    /\ resolved' = <<>>
    /\ UNCHANGED <<services, deps>>

\* Mutant: names are never taken out of the path.
Path_Kept == {stack[i].name : i \in DOMAIN stack} \union visited
\* The argument path: the names between the loop and the innermost call.
Path == {stack[i].name : i \in DOMAIN stack}

\* Mutant: the loop over the dependencies meets the same one again.
Rest_Same(d) == Top.rest
Rest(d) == Top.rest \ {d}

Advanced(d) == [stack EXCEPT ![Len(stack)].rest = Rest(d)]

\* The innermost call comes to the name d, and calls visit(d).
Meets(d) == outcome = "resolving" /\ d \in Top.rest

\* `if name in path`: the search is given up.
Refuse(d) ==
    /\ Meets(d)
    /\ d \in Path
    /\ outcome' = "raised"
    /\ stack' = <<>>
    /\ UNCHANGED <<services, deps, visited, resolved>>

\* `if name in visited`.
Skip(d) ==
    /\ Meets(d)
    /\ d \notin Path
    /\ d \in visited
    /\ stack' = Advanced(d)
    /\ UNCHANGED <<services, deps, visited, resolved, outcome>>

Descend(d) ==
    /\ Meets(d)
    /\ d \notin Path \union visited
    /\ stack' = Append(Advanced(d), Frame(d))
    /\ UNCHANGED <<services, deps, visited, resolved, outcome>>

\* Mutant: a name is resolved when its first dependency is.
AllMet_Early == visited \intersect Needs(Top.name) # {} \/ Top.rest = {}
AllMet == Top.rest = {}

\* Mutant: the order starts with the services nothing else is needed for.
Placed_First == <<Top.name>> \o resolved
Placed == Append(resolved, Top.name)

\* visit() comes to its end: the name is resolved.
Leave ==
    /\ outcome = "resolving"
    /\ Len(stack) > 1
    /\ AllMet
    /\ visited' = visited \union {Top.name}
    /\ resolved' = Placed
    /\ stack' = SubSeq(stack, 1, Len(stack) - 1)
    /\ UNCHANGED <<services, deps, outcome>>

Return ==
    /\ outcome = "resolving"
    /\ Len(stack) = 1
    /\ AllMet
    /\ outcome' = "returned"
    /\ stack' = <<>>
    /\ UNCHANGED <<services, deps, visited, resolved>>

SearchStep ==
    \/ \E d \in Names : Refuse(d) \/ Skip(d) \/ Descend(d)
    \/ Leave
    \/ Return

Next ==
    \/ \E n \in Names : Unregister(n) \/ \E D \in SUBSET Names : Register(n, D)
    \/ Resolve
    \/ SearchStep

Spec == Init /\ [][Next]_vars

\* The search is ordinary code: it goes on until it returns or raises.
FairSpec == Spec /\ WF_vars(SearchStep)

-----------------------------------------------------------------------------
Frames == [name : Names \union {Root}, rest : SUBSET Names]

TypeOK ==
    /\ services \subseteq Names
    /\ deps \in [Names -> SUBSET Names]
    /\ stack \in Seq(Frames)
    /\ visited \subseteq Names
    /\ resolved \in Seq(Names)
    /\ outcome \in {"none", "resolving", "returned", "raised"}

\* Some services depend on each other in a circle: each one of S needs
\* another one of S.
Circle(S) == S # {} /\ \A n \in S : deps[n] \intersect S # {}
Cyclic == \E S \in SUBSET Names : Circle(S)

\* Every name is resolved once, and after all names it depends on: however
\* the sets are ordered, and also for names nobody has registered.
NeedsComeFirst ==
    \A i \in DOMAIN resolved :
        /\ \A j \in DOMAIN resolved : resolved[i] = resolved[j] => i = j
        /\ \A d \in deps[resolved[i]] : \E j \in 1..(i - 1) : resolved[j] = d

\* What is returned is complete, with nothing in it but the services and
\* what they depend on.
OrderIsComplete ==
    /\ outcome = "returned" => services \subseteq Elements(resolved)
    /\ \A x \in Elements(resolved) : x \in services \/ \E n \in services : x \in deps[n]

\* The search refuses the services exactly when some of them form a circle.
RefusesExactlyCircles ==
    /\ outcome = "raised" => Cyclic
    /\ outcome = "returned" => ~Cyclic

\* Each frame was called by the one below it, none is there twice, and what a
\* frame no longer has before it is visited, or about to be.
StackInv ==
    /\ outcome = "resolving" <=> stack # <<>>
    /\ \A i \in DOMAIN stack :
         /\ stack[i].name = Root <=> i = 1
         /\ stack[i].name \notin visited
         /\ stack[i].rest \subseteq Needs(stack[i].name)
         /\ \A j \in DOMAIN stack : stack[i].name = stack[j].name => i = j
         /\ i < Len(stack) => stack[i + 1].name \in Needs(stack[i].name)
         /\ \A d \in Needs(stack[i].name) :
              \/ d \in stack[i].rest \union visited
              \/ i < Len(stack) /\ stack[i + 1].name = d

\* What is visited contains all it depends on, and therefore no circle.
VisitedInv ==
    /\ visited = Elements(resolved)
    /\ \A n \in visited : deps[n] \subseteq visited
    /\ \A n \in Names \ services : deps[n] = {}
    /\ \A S \in SUBSET visited : ~Circle(S)

\* The inductive invariant: the search needs to know that its frames call one
\* another, and that what it has visited is closed.
RegistryInv ==
    /\ TypeOK
    /\ StackInv
    /\ VisitedInv
    /\ NeedsComeFirst
    /\ OrderIsComplete
    /\ RefusesExactlyCircles

\* The search comes to an end, for circles too.
SearchEnds == outcome = "resolving" ~> Idle
=============================================================================
