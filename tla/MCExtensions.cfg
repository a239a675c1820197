SPECIFICATION MCFairSpec
CONSTANTS
    first = first
    once = once
    picky = picky
    p1 = p1
    p2 = p2
    inner = inner
    NoPub = NoPub
    Subs <- MCSubs
    Pubs <- MCPubs
    Topic <- MCTopic
    Priority <- MCPriority
    Once = {once}
    Accepts <- MCAccepts
    Emits <- MCEmits
    Unruly = {picky}
    MaxHistory = 1
    core = core
    app = app
    tool = tool
    ghost = ghost
    left = left
    right = right
    NoPlugin = NoPlugin
    Plugins <- MCPlugins
    Installed = {core, app, tool, left, right}
    Deps <- MCDeps
    Entry <- MCEntry
    Acyclic = {core, app, tool, ghost}
    MaxDepth = 3
INVARIANTS OnceAtMostOnce OnlyCancelledEscapes HookCalledOnce
PROPERTIES  PublicationsReturn DependenciesFirst LoadReturns
CHECK_DEADLOCK FALSE
