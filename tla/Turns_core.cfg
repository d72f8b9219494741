CONSTANTS
    t1 = t1
    t2 = t2
    f1 = f1
    f2 = f2
    a1 = a1
    a2 = a2
    m1 = m1
    m2 = m2
    None = None
    Texts = {t1}
    Files = {f1, f2}
    Agents = {a1, a2}
    Readers = {m1, m2}
    MaxRank = 1
    MaxDeliveries = 1
    MaxMishaps = 0
    Faults = {"allowance"}
SPECIFICATION Spec
SYMMETRY Symmetry
INVARIANTS
    TypeOK
    OneAnswerPerDelivery
PROPERTIES
    JudgedOnce
CHECK_DEADLOCK FALSE
