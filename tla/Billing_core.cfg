SPECIFICATION FairSpec
CONSTANTS
    Tenants = {acme}
    basic = basic
    yearly = yearly
    Plans = {basic, yearly}
    Price <- PriceDef
    TrialDays <- TrialDef
    Yearly = {yearly}
    MonthLengths <- Months
    Replicas = {w1, w2}
    Owners = {o1}
    Clerks = {k1, k2}
    Nothing = nothing
    Amounts = {1}
    LastMonth = 1
    MaxRequests = 2
    MaxClerical = 2
    MaxFailures = 1
    Failures = {"invoice", "crash"}
INVARIANTS
    TypeOK
    EveryDayBilledOnce
    BooksBalance
    EndsOnlyIfMeant
PROPERTIES
    DueIsHandled
CHECK_DEADLOCK FALSE
