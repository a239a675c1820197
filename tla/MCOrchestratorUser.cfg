SPECIFICATION Spec
CONSTANTS
    a = a
    b = b
    text = text
    shapeless = shapeless
    plain = plain
    ann = ann
    Clients = {a, b}
    Commands = {text, shapeless, plain}
    From <- MCFrom
    User <- Named
    Text = {text}
    Shapeless = {shapeless}
    Unruly = {plain}
    Misaddressed = {text}
    Anonymous = Anonymous
    NoUser = NoUser
    NoTask = NoTask
INVARIANTS SubmitterIsTold
CHECK_DEADLOCK FALSE
