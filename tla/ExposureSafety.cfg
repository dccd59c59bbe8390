SPECIFICATION Spec

CONSTANTS
    Requests <- MCRequests
    TestData <- MCTestData
    None = None
    Blank <- NoCurrency
    Supported = {"BRL", "MXN", "USD", "EUR"}
    MaxTransactions = 3
    DefaultThreshold = 30
    Bps = 1000
    SLA = 1
    Lifetime = 7
    HighWindow = 1
    MediumWindow = 3
    Rates = {10, 20}
    Scale = 660
    Unit = 7
    Oldest = 2
    MaxTime = 3

INVARIANTS
    AllOrNothing
    AggregatesReconcile
    RankingIsWorstFirst
    TrendMeansHighRisk
    OneInstant
    NoUrgencyWithoutLoss
    UrgencyOrdersLosses
