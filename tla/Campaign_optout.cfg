CONSTANTS
    c1 = c1
    c2 = c2
    p1 = p1
    p2 = p2
    p3 = p3
    w1 = w1
    w2 = w2
    r1 = r1
    r2 = r2
    None = None
    Campaigns = {c1, c2}
    Contacts = {p1}
    Workers = {w1}
    Requests = {r1}
    BatchLimit = 1
    ClaimLimit = 2
    MaxAttempts = 2
    MaxDelay = 0
    Faults = {"exception"}
SPECIFICATION Spec
SYMMETRY Symmetry
INVARIANTS StopIsHeard
