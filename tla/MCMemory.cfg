SPECIFICATION Spec
CONSTANTS
    c1 = c1  c2 = c2
    p1 = p1  p2 = p2
    l1 = l1  l2 = l2
    Projects = {p1, p2}
    Contexts = {c1, c2}
    NameOf <- MCNameOf
    Facts = {"fact"}
    Fields = {"stack"}
    MaxLog = 2
    Leads = {l1, l2}
    Stages <- MCStages
    Info <- MCInfo
    Weight <- MCWeight
    Threshold = 30
    Companies = {"Acme"}
    FollowUps = {"f1"}
    LeadOf <- MCLeadOf
    Events = {"e1"}
    MaxNotes = 1
INVARIANTS DiskFollowsMemory
PROPERTIES ImplementsBoard
