----------------------------- MODULE Container -----------------------------
(***************************************************************************)
(* DIContainer (container.py), the Resolver (resolver.py) and what         *)
(* LuminaKernel (lumina_kernel.py) registers: named registrations with a   *)
(* lifetime, in a container and in scopes created from it.                 *)
(*                                                                         *)
(* Resolving is ordinary code that calls itself: the factory of a name     *)
(* resolves what it needs before it returns.  The calls under way are a    *)
(* stack of frames.  A scope that has no registration of a name asks its   *)
(* parent and passes its own store along, and keeps what a factory of the  *)
(* parent made.  Needs that form a circle recurse until Python gives up;   *)
(* they are excluded here: the names can be ranked.                        *)
(***************************************************************************)
EXTENDS Naturals, Sequences, SequencesExt

CONSTANTS
    Keys,        \* names that may be registered
    NeedsOf,     \* the names the factory of a name resolves
    Containers,  \* the container of the kernel and its scopes
    Chain,       \* a container, its parent, the parent of that, ...
    KernelKeys,  \* names LuminaKernel.initialize() registers
    Kernel,      \* the container of the kernel
    MaxGen       \* bound: registrations ever made

ASSUME ContainerAssumption ==
    /\ Kernel \in Containers /\ KernelKeys \subseteq Keys
    /\ \A c \in Containers : Chain[c] \in Seq(Containers) /\ Head(Chain[c]) = c
    /\ IsFiniteSet(Keys)
    /\ \E rank \in [Keys -> 0..Cardinality(Keys)] :
         \A k \in Keys : \A n \in NeedsOf[k] : n \in Keys /\ rank[n] < rank[k]

VARIABLES
    regs,      \* regs[c]: the registrations of a container, each by its number
    life,      \* life[g]: "singleton", "scoped" or "transient"; partial
    made,      \* registrations with Registration.resolved
    births,    \* history: how often the factory of a singleton returned
    store,     \* store[c]: _scoped_instances, a registration per name
    filled,    \* history: how often a name was put into store[c] since it was
               \* cleared
    calls      \* calls of factories under way: [gen, key, from, todo]

containerVars == <<regs, life, made, births, store, filled, calls>>

Gens == DOMAIN life
Lifetimes == {"singleton", "scoped", "transient"}

ContainerInit ==
    /\ regs = [c \in Containers |-> << >>]
    /\ store = [c \in Containers |-> << >>]
    /\ filled = [c \in Containers |-> [k \in Keys |-> 0]]
    /\ life = << >> /\ births = << >> /\ made = {} /\ calls = << >>

With(f, k, v) == [x \in DOMAIN f \cup {k} |-> IF x = k THEN v ELSE f[x]]
AtRest == calls = << >>

-----------------------------------------------------------------------------
(* Registration                                                            *)

\* register(): a new registration takes the place of the old one; what a
\* scope holds of the old one stays in its store.
RegisterKey(c, k, l) ==
    /\ AtRest /\ Len(life) < MaxGen
    /\ life' = Append(life, l)
    /\ births' = Append(births, 0)
    /\ regs' = [regs EXCEPT ![c] = With(@, k, Len(life'))]
    /\ UNCHANGED <<made, store, filled, calls>>

\* register_instance() of the names ks: each is resolved at once.
RegisterInstances(c, ks) ==
    LET new == SetToSeq(ks)
        n == Len(life)
    IN  /\ AtRest /\ n + Len(new) <= MaxGen
        /\ life' = life \o [i \in DOMAIN new |-> "singleton"]
        /\ births' = births \o [i \in DOMAIN new |-> 1]
        /\ made' = made \cup {n + i : i \in DOMAIN new}
        /\ regs' = [regs EXCEPT ![c] =
              [k \in DOMAIN @ \cup ks |->
                 IF k \in ks THEN n + CHOOSE i \in DOMAIN new : new[i] = k
                 ELSE @[k]]]
        /\ UNCHANGED <<store, filled, calls>>

\* LuminaKernel.initialize(): every part of the kernel.  A second call
\* registers them anew.
InitializeKernel == RegisterInstances(Kernel, KernelKeys)

\* remove()
RemoveKey(c, k) ==
    /\ AtRest
    /\ k \in DOMAIN regs[c]
    /\ regs' = [regs EXCEPT ![c] = [x \in DOMAIN @ \ {k} |-> @[x]]]
    /\ UNCHANGED <<life, made, births, store, filled, calls>>

ForgetStore(c) ==
    /\ store' = [store EXCEPT ![c] = << >>]
    /\ filled' = [filled EXCEPT ![c] = [k \in Keys |-> 0]]

\* clear_scope()
ClearScope(c) ==
    /\ AtRest
    /\ ForgetStore(c)
    /\ UNCHANGED <<regs, life, made, births, calls>>

\* clear()
Clear(c) ==
    /\ AtRest
    /\ regs' = [regs EXCEPT ![c] = << >>]
    /\ ForgetStore(c)
    /\ UNCHANGED <<life, made, births, calls>>

-----------------------------------------------------------------------------
(* Resolution                                                              *)

\* The containers from c upwards that have a registration of k; the nearest
\* of them is the one that counts.
Having(c, k) == {i \in DOMAIN Chain[c] : k \in DOMAIN regs[Chain[c][i]]}
Found(c, k) ==
    LET i == CHOOSE i \in Having(c, k) : \A j \in Having(c, k) : i <= j
    IN  regs[Chain[c][i]][k]

\* Mutant: an object that was made for one scope is not looked up in it.
AtHand_Mutation(c, k) ==
    life[Found(c, k)] = "singleton" /\ Found(c, k) \in made

\* resolve(k) on c needs no factory: the singleton exists, the scope has it.
AtHand(c, k) ==
    \/ life[Found(c, k)] = "singleton" /\ Found(c, k) \in made
    \/ life[Found(c, k)] = "scoped" /\ k \in DOMAIN store[c]

CallsFactory(c, k) == Having(c, k) # {} /\ ~AtHand(c, k)
CallOf(c, k) == [gen |-> Found(c, k), key |-> k, from |-> c, todo |-> NeedsOf[k]]

\* resolve() from outside, directly or by Resolver.resolve_callable().
ResolveKey(c, k) ==
    /\ AtRest
    /\ CallsFactory(c, k)
    /\ calls' = <<CallOf(c, k)>>
    /\ UNCHANGED <<regs, life, made, births, store, filled>>

\* The innermost factory resolves the next name it needs, on any container:
\* one without a registration raises a KeyError, which ends the factory too
\* unless a Resolver swallows it; what is at hand is returned; otherwise
\* another factory is called.
NeedNext(c, k) ==
    LET top == Last(calls)
        met == [top EXCEPT !.todo = @ \ {k}]
    IN  /\ ~AtRest
        /\ k \in top.todo
        /\ calls' = Append(Front(calls), met)
                    \o IF CallsFactory(c, k) THEN <<CallOf(c, k)>> ELSE << >>
        /\ UNCHANGED <<regs, life, made, births, store, filled>>

\* Mutant: a singleton that another factory asked for is handed on, not kept.
FactoryReturns_Mutation ==
    LET top == Last(calls) IN
    /\ ~AtRest
    /\ top.todo = {}
    /\ life[top.gen] = "singleton"
    /\ calls' = Front(calls)
    /\ births' = [births EXCEPT ![top.gen] = @ + 1]
    /\ made' = IF Len(calls) = 1 THEN made \cup {top.gen} ELSE made
    /\ UNCHANGED <<store, filled, regs, life>>

\* The innermost factory returns: a singleton is kept in its registration, a
\* scoped object in the store of the container that was asked.
FactoryReturns ==
    LET top == Last(calls) IN
    /\ ~AtRest
    /\ top.todo = {}
    /\ calls' = Front(calls)
    /\ \/ /\ life[top.gen] = "singleton"
          /\ made' = made \cup {top.gen}
          /\ births' = [births EXCEPT ![top.gen] = @ + 1]
          /\ UNCHANGED <<store, filled>>
       \/ /\ life[top.gen] = "scoped"
          /\ store' = [store EXCEPT ![top.from] = With(@, top.key, top.gen)]
          /\ filled' = [filled EXCEPT ![top.from][top.key] = @ + 1]
          /\ UNCHANGED <<made, births>>
       \/ life[top.gen] = "transient" /\ UNCHANGED <<made, births, store, filled>>
    /\ UNCHANGED <<regs, life>>

\* It raises: the exception ends every call, or is caught by the n-th of the
\* factories that are under way.
FactoryRaises ==
    /\ ~AtRest
    /\ \E n \in 0..(Len(calls) - 1) : calls' = SubSeq(calls, 1, n)
    /\ UNCHANGED <<regs, life, made, births, store, filled>>

ContainerNext ==
    \/ \E c \in Containers :
          \/ \E k \in Keys :
                \/ \E l \in Lifetimes : RegisterKey(c, k, l)
                \/ RemoveKey(c, k)
                \/ ResolveKey(c, k)
                \/ NeedNext(c, k)
          \/ ClearScope(c) \/ Clear(c)
    \/ InitializeKernel
    \/ FactoryReturns \/ FactoryRaises

ContainerSpec == ContainerInit /\ [][ContainerNext]_containerVars

-----------------------------------------------------------------------------
(* Properties                                                              *)

\* A registration of a singleton makes one object in its life, through which
\* scope and however deep in the factories of others it is resolved, and also
\* after its factory has raised: it counts as resolved when, and only when,
\* its factory has returned once.
SingletonOnce ==
    \A g \in Gens : life[g] = "singleton" =>
       births[g] = IF g \in made THEN 1 ELSE 0

\* Between two clearings of its store a scope gets one object of a name and
\* keeps it, though the registration may be replaced, removed, or found in
\* another container of the chain meanwhile.
ScopedOnce ==
    \A c \in Containers, k \in Keys :
       filled[c][k] = IF k \in DOMAIN store[c] THEN 1 ELSE 0

=============================================================================
