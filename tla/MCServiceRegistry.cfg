SPECIFICATION MCSpec
CONSTANTS
    db = db
    log = log
    web = web
    Names = {db, log, web}
    Root = Root
    Keys = {"app", "api", "data"}
    NeedsOf <- MCNeeds
    Containers = {"kernel", "scope"}
    Chain <- MCChain
    KernelKeys = {"data"}
    Kernel = "kernel"
    MaxGen = 3
INVARIANTS NeedsComeFirst OrderIsComplete RefusesExactlyCircles SingletonOnce ScopedOnce
PROPERTIES SearchEnds
