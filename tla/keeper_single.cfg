\* One worker that takes one job at a time and dies twice.
SPECIFICATION Spec
CONSTANTS
    said = said
    told = told
    gone = gone
    Key = {said, told, gone}
    Sync <- OneSync
    Silent <- OneSilent
    Client = {c1, c2}
    Worker = {w1}
    Limit = 1
    MaxCalls = 3
    MaxCrashes = 2
INVARIANT DuplicatesAreCrashes
PROPERTY FinishedStaysFinished
CHECK_DEADLOCK FALSE
