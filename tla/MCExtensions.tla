----------------------------- MODULE MCExtensions -----------------------------
(***************************************************************************)
(* The parts of the kernel that call code they do not know, on instances   *)
(* for TLC.  EventBus: "first" has the priority and publishes again from   *)
(* its handler, "once" takes one event only, the filter of "picky" lets    *)
(* the inner publication through, and its handler may raise                *)
(* CancelledError.  PluginLoader: app and tool share a dependency and the  *)
(* entry point "main"; tool depends on a plugin that is not installed;     *)
(* left and right depend on each other.                                    *)
(* They share no state: "part" says of which one a behaviour is.           *)
(***************************************************************************)
EXTENDS EventBus, PluginLoader, TLC

CONSTANTS first, once, picky, p1, p2, inner, core, app, tool, ghost, left, right

VARIABLE part

MCSubs == {first, once, picky}
MCPubs == {p1, p2, inner}
MCTopic == [x \in MCSubs \union MCPubs |-> "a"]
MCPriority == (first :> 1) @@ (once :> 0) @@ (picky :> 0)
MCAccepts == (picky :> {inner}) @@ [s \in MCSubs |-> MCPubs]
MCEmits == (first :> inner) @@ [s \in MCSubs |-> NoPub]

MCPlugins == {core, app, tool, ghost, left, right}
MCDeps == (app :> <<core, tool>>) @@ (tool :> <<ghost, core>>) @@ (left :> <<right>>)
            @@ (right :> <<left>>) @@ (core :> <<>>) @@ (ghost :> <<>>)
MCEntry == (core :> "core") @@ (left :> "left") @@ (right :> "right")
            @@ [p \in MCPlugins |-> "main"]

MCInit == part \in {"bus", "loader"} /\ BusInit /\ Init
InBus == part = "bus" /\ part' = part /\ UNCHANGED vars
InLoader == part = "loader" /\ part' = part /\ UNCHANGED busVars
MCNext == (BusNext /\ InBus) \/ (Next /\ InLoader)
MCVars == <<part, vars, busVars>>
MCSpec == MCInit /\ [][MCNext]_MCVars

\* The fairness of BusFairSpec and of FairSpec, each in its part.
MCFairSpec ==
    /\ MCSpec
    /\ WF_MCVars(DispatchStep /\ InBus)
    /\ WF_MCVars(LoadStep /\ InLoader)
=============================================================================
