CONSTANTS
    n1 = n1
    n2 = n2
    c1 = c1
    c2 = c2
    w1 = w1
    w2 = w2
    h1 = h1
    r1 = r1
    Nobody = Nobody
    Nudges = {n1, n2}
    Conversations = {c1, c2}
    Sweepers = {w1, w2}
    Hooks = {h1}
    Requests = {r1}
    Means <- OneOfThem
    ClaimLimit = 2
    MaxAttempts = 1
    MaxDelay = 1
    MaxReplies = 1
    MaxRequests = 2
    MaxLost = 1
SPECIFICATION Spec
SYMMETRY Alike
INVARIANTS
    NudgesHold
PROPERTIES
    SilencedStaysSilent
CHECK_DEADLOCK FALSE
