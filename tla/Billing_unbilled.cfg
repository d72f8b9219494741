SPECIFICATION Spec
CONSTANTS
    Tenants = {acme}
    basic = basic
    yearly = yearly
    Plans = {basic, yearly}
    Price <- PriceDef
    TrialDays <- TrialDef
    Yearly = {yearly}
    MonthLengths <- Months
    Replicas = {w1, w2}
    Owners = {o1}
    Clerks = {}
    Nothing = nothing
    Amounts = {1}
    LastMonth = 1
    MaxRequests = 0
    MaxClerical = 0
    MaxFailures = 1
    Failures = {"invoice"}
INVARIANT
    RetriedOnNextSweep
CHECK_DEADLOCK FALSE
