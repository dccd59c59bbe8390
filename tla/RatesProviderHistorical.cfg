CONSTANTS
    c1 = c1
    c2 = c2
    usd = usd
    eur = eur
    gbp = gbp
    Blank = Blank
    None = None
    Callers <- MCCallers1
    Currencies <- MCCurrencies
    Supported <- MCSupported
    HistoricalDays <- MCWeekend
    MaxAttempts = 3
    CacheTTL = 1
    SLA = 1
    MaxLag = 1
    MaxTime = 2
SPECIFICATION FairSpec
INVARIANTS
    HistoricalBusinessDay
PROPERTIES
    EveryCallReturns
\* Every caller makes one call: when all have returned the system stops.
CHECK_DEADLOCK FALSE
