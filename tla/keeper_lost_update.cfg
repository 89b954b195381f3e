SPECIFICATION Spec
CONSTANTS
    said = said
    told = told
    gone = gone
    Key = {said, told}
    Sync <- None
    Silent <- None
    Client = {c1, c2}
    Worker = {w1}
    Limit = 2
    MaxCalls = 3
    MaxCrashes = 0
INVARIANT RememberedOnce
CHECK_DEADLOCK FALSE
