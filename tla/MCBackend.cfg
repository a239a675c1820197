SPECIFICATION Spec
CONSTANTS
    r1 = r1  r2 = r2  r3 = r3  r4 = r4  r5 = r5  r6 = r6
    ann = ann  bob = bob  cyd = cyd
    k1 = k1  k2 = k2  k3 = k3
    m1 = m1  m2 = m2  w1 = w1  w2 = w2
    Requests = {r1, r2, r3, r4, r5, r6}
    Form <- MCForm
    MaxRequests = 2
    Window = 2
    PoolSize = 1
    MaxTime = 2
    Visits = {r1, r2, r3}
    Fills = {r1, r2, r3}
    MaxFields = 1
    NSteps = 2
    MaxRetries = 3
    Users = {ann, bob, cyd}
    Commands = {k1, k2, k3}
    RunBy <- MCRunBy
    Mails = {m1, m2}
    Chats = {w1, w2}
    Products = {"p"}
INVARIANTS RateIsExact RegisterIsSound OwnForm OneBrowser HealingBudget OwnSession LoggedOnce
PROPERTIES EveryRequestAnswered HealingEnds
CHECK_DEADLOCK FALSE
