CONSTANTS
    t1 = t1
    t2 = t2
    f1 = f1
    f2 = f2
    a1 = a1
    a2 = a2
    m1 = m1
    m2 = m2
    None = None
    Texts = {t1}
    Files = {f1}
    Agents = {a1}
    Readers = {m1}
    MaxRank = 0
    MaxDeliveries = 2
    MaxMishaps = 1
    Faults = {"crash", "rollback", "failure", "redis", "requeue"}
SPECIFICATION FairSpec
INVARIANTS
    NobodyForgotten
    SpeaksOverAtMostOnce
PROPERTIES
    EveryoneIsHeard
CHECK_DEADLOCK FALSE
