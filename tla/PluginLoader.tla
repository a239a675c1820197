----------------------------- MODULE PluginLoader -----------------------------
(***************************************************************************)
(* kernel/plugins/plugin_loader.py.  load() is recursive: it imports the   *)
(* entry point, loads the dependencies, marks the plugin loaded and calls  *)
(* on_load.  Its frames are a stack here, because plugin code runs in the  *)
(* middle of them and may raise, and because cyclic dependencies end in a  *)
(* RecursionError that some frame catches.                                 *)
(*                                                                         *)
(* sys.path is left out: load() puts the plugin's own directory first, so  *)
(* what else it holds never decides an import.  Every entry module has a   *)
(* plugin class; plugin code does not call the loader.                     *)
(***************************************************************************)
EXTENDS Naturals, Sequences, FiniteSets

CONSTANTS
    Plugins,     \* names of plugins
    Installed,   \* those with a directory and a valid manifest
    Deps,        \* manifest.dependencies, a sequence of names
    Entry,       \* manifest.entry_point, the name of a module
    Acyclic,     \* plugins whose dependencies are not cyclic
    MaxDepth,    \* frames of load() before Python raises RecursionError
    NoPlugin

ASSUME PluginAssumption ==
    /\ Installed \subseteq Plugins
    /\ Deps \in [Plugins -> Seq(Plugins)]
    /\ NoPlugin \notin Plugins
    /\ MaxDepth \in Nat \ {0}
    /\ Acyclic \subseteq Plugins
    /\ \E rank \in [Acyclic -> 0..Cardinality(Acyclic)] :
         \A p \in Acyclic : \A i \in 1..Len(Deps[p]) :
            Deps[p][i] \in Acyclic /\ rank[Deps[p][i]] < rank[p]

VARIABLES
    known,     \* names in _plugins
    loaded,    \* PluginInfo.is_loaded
    inst,      \* whose class PluginInfo.instance is an object of, or NoPlugin
    module,    \* PluginInfo.module is set
    error,     \* PluginInfo.error is set
    sysmods,   \* sys.modules: whose code is cached under a module name
    stack,     \* the frames of load(), innermost last
    hooks      \* history: calls of on_load since discovery or unload

vars == <<known, loaded, inst, module, error, sysmods, stack, hooks>>

Entries == {Entry[p] : p \in Plugins}

Init ==
    /\ known = {}
    /\ loaded = [p \in Plugins |-> FALSE]
    /\ inst = [p \in Plugins |-> NoPlugin]
    /\ module = [p \in Plugins |-> FALSE]
    /\ error = [p \in Plugins |-> FALSE]
    /\ sysmods = [e \in Entries |-> NoPlugin]
    /\ stack = <<>>
    /\ hooks = [p \in Plugins |-> 0]

Idle == stack = <<>>
Top == stack[Len(stack)]
Below == SubSeq(stack, 1, Len(stack) - 1)
At(step) == ~Idle /\ Top.step = step

Frame(p) == [plugin |-> p, step |-> "import", deps |-> Deps[p]]

StillLoaded(p) == p \notin Installed /\ loaded[p]

\* discover(): a new PluginInfo for every manifest, also for loaded plugins.
Discover ==
    /\ Idle
    /\ known' = known \union Installed
    /\ loaded' = [p \in Plugins |-> StillLoaded(p)]
    /\ inst' = [p \in Plugins |-> IF p \in Installed THEN NoPlugin ELSE inst[p]]
    /\ module' = [p \in Plugins |-> p \notin Installed /\ module[p]]
    /\ error' = [p \in Plugins |-> p \notin Installed /\ error[p]]
    /\ hooks' = [p \in Plugins |-> IF p \in Installed THEN 0 ELSE hooks[p]]
    /\ UNCHANGED <<sysmods, stack>>

\* Mutant: load() forgets to look at is_loaded.
NeedsLoad_Always(p) == p \in known

\* load() has something to do: it returns at once otherwise.
NeedsLoad(p) == p \in known /\ ~loaded[p]

Load(p) ==
    /\ Idle
    /\ NeedsLoad(p)
    /\ stack' = <<Frame(p)>>
    /\ UNCHANGED <<known, loaded, inst, module, error, sysmods, hooks>>

-----------------------------------------------------------------------------
(* The steps of the innermost load().                                      *)

\* import_module: a module cached under the name is taken as it is.
Imported(p) == IF sysmods[Entry[p]] # NoPlugin THEN sysmods[Entry[p]] ELSE p

ImportModule ==
    /\ At("import")
    /\ LET p == Top.plugin IN
         /\ sysmods' = [sysmods EXCEPT ![Entry[p]] = Imported(p)]
         /\ module' = [module EXCEPT ![p] = TRUE]
         /\ inst' = [inst EXCEPT ![p] = Imported(p)]
    /\ stack' = [stack EXCEPT ![Len(stack)].step = "deps"]
    /\ UNCHANGED <<known, loaded, error, hooks>>

\* The frame raises: load() notes the error and returns None to its caller,
\* which does not look at the result.
Fails ==
    /\ error' = [error EXCEPT ![Top.plugin] = TRUE]
    /\ stack' = Below

\* The code of the module raises while it is imported.
ImportRaises ==
    /\ At("import")
    /\ sysmods[Entry[Top.plugin]] = NoPlugin
    /\ Fails
    /\ UNCHANGED <<known, loaded, inst, module, sysmods, hooks>>

\* The plugin class cannot be instantiated: the module stays cached.
ConstructorRaises ==
    /\ At("import")
    /\ LET p == Top.plugin IN
         /\ sysmods' = [sysmods EXCEPT ![Entry[p]] = Imported(p)]
         /\ module' = [module EXCEPT ![p] = TRUE]
    /\ Fails
    /\ UNCHANGED <<known, loaded, inst, hooks>>

\* Mutant: the loop over the dependencies does not advance.
NextDeps_Same == Top.deps
NextDeps == Tail(Top.deps)

\* The next dependency is loaded, or load() has nothing to do for it.
SkipDependency ==
    /\ At("deps")
    /\ Top.deps # <<>>
    /\ ~NeedsLoad(Head(Top.deps))
    /\ stack' = [stack EXCEPT ![Len(stack)].deps = NextDeps]
    /\ UNCHANGED <<known, loaded, inst, module, error, sysmods, hooks>>

LoadDependency ==
    /\ At("deps")
    /\ Top.deps # <<>>
    /\ NeedsLoad(Head(Top.deps))
    /\ Len(stack) < MaxDepth
    /\ stack' = Append([stack EXCEPT ![Len(stack)].deps = NextDeps],
                       Frame(Head(Top.deps)))
    /\ UNCHANGED <<known, loaded, inst, module, error, sysmods, hooks>>

\* RecursionError: the frame that makes the call catches it.
RecursionEnds ==
    /\ At("deps")
    /\ Top.deps # <<>>
    /\ NeedsLoad(Head(Top.deps))
    /\ Len(stack) = MaxDepth
    /\ Fails
    /\ UNCHANGED <<known, loaded, inst, module, sysmods, hooks>>

\* Mutant: on_load is called before the dependencies are loaded.
DepsDone_Early == At("deps")
DepsDone == At("deps") /\ Top.deps = <<>>

\* is_loaded is set first, then on_load is called.
Finish ==
    /\ DepsDone
    /\ loaded' = [loaded EXCEPT ![Top.plugin] = TRUE]
    /\ hooks' = [hooks EXCEPT ![Top.plugin] = @ + 1]
    /\ \/ stack' = Below /\ UNCHANGED error
       \/ Fails   \* on_load raises: load() answers None for a loaded plugin
    /\ UNCHANGED <<known, inst, module, sysmods>>

-----------------------------------------------------------------------------
\* What unload() does when on_unload does not raise: the cached module goes
\* away, also if other plugins use it.
Release(p) ==
    /\ loaded' = [loaded EXCEPT ![p] = FALSE]
    /\ inst' = [inst EXCEPT ![p] = NoPlugin]
    /\ module' = [module EXCEPT ![p] = FALSE]
    /\ sysmods' = [sysmods EXCEPT ![Entry[p]] = NoPlugin]
    /\ hooks' = [hooks EXCEPT ![p] = 0]

Unload(p) ==
    /\ Idle
    /\ p \in known /\ loaded[p]
    /\ Release(p)
    /\ UNCHANGED <<known, error, stack>>

\* reload() of a loaded plugin; of any other it is load().
Reload(p) ==
    /\ Idle
    /\ p \in known /\ loaded[p]
    /\ Release(p)
    /\ stack' = <<Frame(p)>>
    /\ UNCHANGED <<known, error>>

LoadStep ==
    \/ ImportModule
    \/ ImportRaises
    \/ ConstructorRaises
    \/ SkipDependency
    \/ LoadDependency
    \/ RecursionEnds
    \/ Finish

Next ==
    \/ Discover
    \/ LoadStep
    \/ \E p \in Plugins : Load(p) \/ Unload(p) \/ Reload(p)

Spec == Init /\ [][Next]_vars

\* load() is ordinary code: it goes on until it returns.
FairSpec == Spec /\ WF_vars(LoadStep)

-----------------------------------------------------------------------------
Frames == [plugin : Plugins, step : {"import", "deps"}, deps : Seq(Plugins)]

TypeOK ==
    /\ known \subseteq Plugins
    /\ loaded \in [Plugins -> BOOLEAN]
    /\ inst \in [Plugins -> Plugins \union {NoPlugin}]
    /\ module \in [Plugins -> BOOLEAN]
    /\ error \in [Plugins -> BOOLEAN]
    /\ sysmods \in [Entries -> Plugins \union {NoPlugin}]
    /\ stack \in Seq(Frames)
    /\ hooks \in [Plugins -> Nat]

\* A plugin without cyclic dependencies gets on_load once per load, however
\* many plugins depend on it, and whichever hooks and imports fail.
HookCalledOnce ==
    \A p \in Acyclic : hooks[p] <= 1 /\ (hooks[p] = 1 <=> loaded[p])

\* on_load of a plugin runs after load() has been through with each dependency:
\* it is loaded, or failed to load, or was never discovered.  That it is loaded
\* is what the documents promise and DependenciesLoaded states.
DependenciesFirst ==
    [][\A p \in Acyclic : hooks'[p] > hooks[p] =>
         \A i \in 1..Len(Deps[p]) :
            loaded[Deps[p][i]] \/ error[Deps[p][i]] \/ Deps[p][i] \notin known]_vars

\* load() returns, cyclic dependencies included.
LoadReturns == ~Idle ~> Idle

-----------------------------------------------------------------------------
(* What the documents say, and the code does not do.                       *)

\* "Validation: dependencies checked", before on_load() is called: a plugin is
\* initialised only when all it depends on is loaded.
DependenciesLoaded ==
    [][\A p \in Acyclic : hooks'[p] > hooks[p] =>
         \A i \in 1..Len(Deps[p]) : loaded[Deps[p][i]]]_vars

\* "Load: module imported, plugin class instantiated": a loaded plugin is an
\* object of its own class, also when every manifest keeps the documented, and
\* default, entry point "main".
OwnClass == \A p \in Plugins : loaded[p] => inst[p] = p
=============================================================================
