\* Every part.  Three notifications, of which listings and reports take in two, and two
\* deliveries; one schedule; two of each kind of connection; a log of up to three rows of which
\* two are tampered with; two invoices; two candidates with commands about two labels; two
\* tables, one of them with an index; two exchanges, two turns and two writing operations.
SPECIFICATION Spec
CONSTANTS
    Parts = {"inbox", "reports", "outbox", "drills", "restore", "tamper", "bills", "dashboards", "commands", "schema", "turns"}
    Target = {t1, t2, s1}
    Notice = {n1, n2, n3}
    Delivery = {d1, d2}
    Operator = {c1, c2}
    Nobody = Nobody
    Window = 2
    Cut = 2
    MaxAttempts = 1
    Sched = {s1}
    Scheduler = {c1, c2}
    LastSecond = 1
    Writer = {c1, c2}
    MaxRow = 3
    MaxTamper = 2
    Importer = {c1, c2}
    Invoice = {i1, i2}
    Bill <- Bills
    Page = 3
    MaxUsage = 2
    MaxLine = 3
    Draft = {c1, c2}
    Label = {l1, l2}
    NoLabel = NoLabel
    Home = Home
    Abroad = Abroad
    Proposed <- Lists
    Nothing = Nothing
    Missing = Missing
    MaxCommands = 2
    Opener = {c1, c2}
    Tables <- SchemaTables
    Column = {"key", "by", "due", "base"}
    TableOf <- SchemaColumns
    Additions <- AddedColumns
    Indexed = {"key"}
    Required = {"key", "base"}
    OldSchema <- OldFiles
    Host = {c1, c2}
    NoHost = Nobody
    Exchange = {i1, i2}
    Queued = {i2}
    MaxTurn = 2
    MaxWork = 2
INVARIANT TypeOK
INVARIANT OneLiveDelivery
INVARIANT ReportsAreKept
INVARIANT OneNoticePerTarget
INVARIANT EscalationsAreComplete
INVARIANT InboxShowsLastDrill
INVARIANT DrillsRunWhenDue
INVARIANT ReportIsRight
INVARIANT RestoreHolds
INVARIANT ReportsAddUp
INVARIANT CommandsFollowTheirMemory
INVARIANT MigrationIsWhole
INVARIANT TurnsAreWhole
CHECK_DEADLOCK FALSE
SYMMETRY Symmetry
