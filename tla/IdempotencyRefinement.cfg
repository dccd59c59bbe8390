CONSTANTS
    r1 = r1
    r2 = r2
    r3 = r3
    id1 = id1
    id2 = id2
    h1 = h1
    h2 = h2
    None = None
    Empty = Empty
    Requests <- MCRequests2
    RecordIds <- MCRecordIds2
    Hashes <- MCHashes
    TTL = 2
    MaxLag = 2
    MaxTime = 4
    MaxRestarts = 1
SPECIFICATION FairSpec
PROPERTIES
    ImplementsContract
    KeyReleased
    EveryoneAnswered
\* Every request is issued once: when all are answered the system stops.
CHECK_DEADLOCK FALSE
