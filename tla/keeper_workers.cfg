\* Two clients, two workers, batches of two: a queued, a sync and an unreadable exchange.
SPECIFICATION FairSpec
CONSTANTS
    said = said
    told = told
    gone = gone
    Key = {said, told, gone}
    Sync <- OneSync
    Silent <- OneSilent
    Client = {c1, c2}
    Worker = {w1, w2}
    Limit = 2
    MaxCalls = 3
    MaxCrashes = 1
INVARIANT TypeOK
INVARIANT JobsTellTheTruth
PROPERTY QueueDrains
CHECK_DEADLOCK FALSE
