CONSTANTS
    c1 = c1
    c2 = c2
    usd = usd
    eur = eur
    gbp = gbp
    Blank = Blank
    None = None
    Callers <- MCCallers2
    Currencies <- MCCurrencies
    Supported <- MCSupported
    HistoricalDays = {}
    MaxAttempts = 2
    CacheTTL = 1
    SLA = 1
    MaxLag = 1
    MaxTime = 1
SYMMETRY Symmetry
SPECIFICATION Spec
INVARIANTS
    MissingPairIsUnsupported
\* Every caller makes one call: when all have returned the system stops.
CHECK_DEADLOCK FALSE
