CONSTANTS
    n1 = n1
    n2 = n2
    c1 = c1
    c2 = c2
    w1 = w1
    w2 = w2
    h1 = h1
    r1 = r1
    Nobody = Nobody
    Nudges = {n1, n2}
    Conversations = {c1}
    Sweepers = {w1, w2}
    Hooks = {h1}
    Requests = {r1}
    Means <- TextOrTemplate
    ClaimLimit = 2
    MaxAttempts = 2
    MaxDelay = 1
    MaxReplies = 1
    MaxRequests = 2
    MaxLost = 1
SPECIFICATION FairSpec
INVARIANTS
    TypeOK
    NudgesHold
PROPERTIES
    FinishedIsFinal
    EveryNudgeSettles
CHECK_DEADLOCK FALSE
