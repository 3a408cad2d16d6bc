SPECIFICATION Spec
CONSTANTS
    Jobs = {me, rival}
    Me = me
    Origins = {"o1"}
    Classes = {"Normal", "ProtectedHosterBulk"}
    TotalBudget = 7
    OriginBudget = 6
    FairWorkers = 2
    HosterInitial = 2
    HosterMax = 3
    InitialSegs = 3
    SoftMax = 3
    MaxSegs = 6
    RampStep = 1
    Cooldown = 6
    MaxCooldown = 7
    HealthyWindows = 2
    MaxSpeed = 3
    MaxWorkers = 7
INVARIANTS BudgetRespected CoveredByLease
PROPERTIES RejectedCountRests
