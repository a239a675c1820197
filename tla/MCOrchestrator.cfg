SPECIFICATION FairSpec
CONSTANTS
    a = a
    b = b
    text = text
    shapeless = shapeless
    plain = plain
    ann = ann
    Clients = {a, b}
    Commands = {text, shapeless, plain}
    From <- MCFrom
    User <- NoUsers
    Text = {text}
    Shapeless = {shapeless}
    Unruly = {plain}
    Misaddressed = {text}
    Anonymous = Anonymous
    NoUser = NoUser
    NoTask = NoTask
INVARIANTS EventOrder ServedInOrder AnonymousIsTold OneTaskAfterStop
PROPERTIES QueuedTasksSettle
CHECK_DEADLOCK FALSE
