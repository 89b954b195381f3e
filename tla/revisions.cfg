\* Two overlapping connections, three texts, three revisions in two seconds.
SPECIFICATION Spec
CONSTANTS
    Text = {t0, t1, t2}
    Original = t0
    Conn = {c1, c2}
    MaxRevisions = 3
    MaxClock = 1
INVARIANT TypeOK
INVARIANT HistoryHolds
PROPERTY LogSpec
SYMMETRY Symmetry
CHECK_DEADLOCK FALSE
