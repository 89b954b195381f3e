---------------------------- MODULE MCOperations ----------------------------
(***************************************************************************)
(* Instances of NotificationOutbox, RestoreDrills, AuditChain,             *)
(* OperationsReports, GraphCommands, SchemaMigration and AgentTurns for    *)
(* TLC.  A behaviour is one part's: the parts share no state, but the      *)
(* drills use the inbox, so checking them together would multiply their    *)
(* states without adding a case.                                           *)
(***************************************************************************)
EXTENDS RestoreDrills, AuditChain, OperationsReports, GraphCommands, SchemaMigration, AgentTurns,
        TLC

CONSTANT Parts      \* the parts a run is about

VARIABLE part

Init ==
    /\ DrillInit
    /\ ChainInit
    /\ ReportsInit
    /\ GraphInit
    /\ SchemaInit
    /\ TurnInit
    /\ part \in Parts
    /\ part # "schema" => tables = {} /\ columns = {}
    /\ part \notin {"restore", "tamper"} => log = <<>> /\ target = NoFile

\* One target that is no schedule.
Other == {t \in Target : t = CHOOSE u \in Target \ Sched : TRUE}

Raised == {n \in Notice : notice[n] # NoNotice}
Unqueued == {d \in Delivery : delivery[d] = NoDelivery}

\* New rows take the ids in one order: which of them a row has makes no difference.
FirstFree(free, left) == left # free => (CHOOSE x \in free : TRUE) \notin left
InOrder ==
    /\ notice' # notice => FirstFree(Notice \ Raised, (Notice \ Raised)')
    /\ delivery' # delivery => FirstFree(Unqueued, Unqueued')

\* The inbox of one target, with up to two notifications, and the escalation reports.
InboxPart ==
    /\ \/ \E t \in Other : Need(t) \/ Settle(t)
       \/ \E n \in Notice : Elapse(n)
       \/ \E o \in Operator : OperatorStep(o)
    /\ Cardinality(Raised') <= 2
    /\ UNCHANGED <<drillVars, chainVars>>

\* A report on one notification of each target.  They are raised one after the other and given
\* a due date before it; during it a date may pass and notifications are acknowledged.
ReportPart ==
    LET reporting == \E o \in Operator : call[o].pc \notin {"idle", "acking", "assigning"}
        raised == Cardinality(Raised) = Cardinality(Target)
        next == CHOOSE t \in Target : OpenFor(t) = {}
    IN
    /\ \A o \in Operator : call[o].pc # "reported"
    /\ \/ ~raised /\ \E t \in Target : t = next /\ Need(t)
       \/ raised /\ ~reporting /\ \E o \in Operator :
            \/ \E n \in Notice : TakeNotice(o, n, "assigning")
            \/ AssignCommit(o, "soon")
            \/ ReportFirst(o)
       \/ raised /\ \E n \in Notice : Elapse(n) \/ \E o \in Operator : TakeNotice(o, n, "acking")
       \/ \E o \in Operator : AckCommit(o) \/ ReportNext(o)
    /\ Cardinality({o \in Operator : call'[o].pc \in {"acking", "assigning"}}) <= 1
    /\ UNCHANGED <<drillVars, chainVars>>

\* The deliveries of up to two notifications that stay open and are raised between two calls;
\* one delivery is reported on.
OutboxPart ==
    /\ \/ \E t \in Sched \cup Other : Need(t)
       \/ \E o \in Operator : SenderStep(o) \/ Leave(o)
    /\ Cardinality({d \in Delivery : tries'[d] # 0}) <= 1
    /\ notice' # notice => \A o \in Operator : call[o] = Quiet
    /\ UNCHANGED <<drillVars, chainVars>>

\* The drills, with one notification and one operator at a time at it, while at most one
\* scheduler is at work.  Whether a schedule that is set to be paused is due and retains
\* artifacts is said again when it is set to be active.
DrillPart ==
    /\ DrillNext
    /\ \A s \in Sched :
         schedule'[s].status = "paused" => ~schedule'[s].due /\ ~schedule'[s].retain
    /\ LET dealing == {o \in Operator : call'[o] # Quiet} IN
       /\ Cardinality(dealing) <= 1
       /\ dealing # {} => \E c \in Scheduler : drill'[c] = Resting
    /\ Cardinality(Raised') <= 1
    /\ UNCHANGED chainVars

\* Backups and restores of a log nobody tampers with.
RestorePart ==
    /\ \/ Commit
       \/ \E w \in Writer : LookUp(w, "backing") \/ Insert(w) \/ Copy(w) \/ Stop(w)
       \/ \E overwrite \in BOOLEAN : Check(overwrite)
       \/ Unlink \/ CheckAndCopy \/ Finish \/ RestoreDies \/ Damage
    /\ UNCHANGED allVars

\* A log that is tampered with.
TamperPart ==
    /\ \/ Commit
       \/ \E w \in Writer : LookUp(w, "refusing") \/ Insert(w)
       \/ \E i \in DOMAIN log : Alter(i) \/ Remove(i)
    /\ UNCHANGED allVars

\* What an invoice says: one line of a scope or of all, or a line of each scope.
Bills ==
    LET line(s, n) == [scope |-> s, amount |-> n] IN
    {<<line("personal", 1)>>, <<line("all", 1)>>, <<line("personal", 2), line("professional", 1)>>}

\* Usage is recorded before the invoices come, or between the two reads of a
\* report: any other order ends in the same states.  A report ends the behaviour, and no
\* import is in progress when it begins.
BillingPart ==
    /\ report.pc # "done" /\ ~report.torn
    /\ BillingNext
    /\ \A i \in DOMAIN usage' : usage'[i].scope = "personal" => usage'[i].kind = "plain"
    /\ usage' # usage /\ report.pc = "none" => lines = <<>>
    /\ usage' # usage \/ report'.pc # "none" =>
         \A p \in Importer : importing[p] = NoImport
    /\ report'.manual # {} => report'.of = "every"

\* Up to two conditions during a dashboard, or one and a component that raises.
DashPart ==
    /\ DashNext
    /\ dash.raised # {} => dash'.raised \in {dash.raised, {}}
    /\ Cardinality(dash'.ever \cup trouble') <= IF dash'.raised = {} THEN 2 ELSE 1

\* What an agent proposes: one update, two, or two edges after a node.
Lists ==
    LET Upd(op, scope, label, to, mem, other) ==
          [op |-> op, scope |-> scope, label |-> label, to |-> to, mem |-> mem, other |-> other]
        first == CHOOSE l \in Label : TRUE
        known == Draft \cup {Missing}
        ids == known \cup {Nothing}
        nodes == {Upd("node", s, l, NoLabel, Nothing, Nothing) : s \in Space, l \in Label}
        edges == {Upd("other", Home, first, l, Nothing, Nothing) : l \in Label \cup {NoLabel}}
                   \cup {Upd("edge", s, l, first, Nothing, Nothing) : s \in Space, l \in Label}
        conflicts == {Upd("conflict", Home, NoLabel, NoLabel, Nothing, d) : d \in known}
        named == {Upd("conflict", Home, NoLabel, NoLabel, m, d) : m \in ids, d \in ids}
        one == nodes \cup edges \cup named
    IN  {<<>>} \cup {<<u>> : u \in one} \cup {<<u, v>> : u \in nodes, v \in conflicts}
          \cup {<<u, v, w>> : u \in nodes, v \in edges,
                             w \in {Upd("edge", Home, first, NoLabel, Nothing, Nothing)}}

\* The tables of the Keeper's jobs and of notifications, and files that lack some of either.
SchemaTables == <<"jobs", "notes">>
SchemaColumns == [key |-> "jobs", due |-> "notes", by |-> "notes", base |-> "notes"]
AddedColumns == <<"key", "by", "due">>
OldFiles ==
    {old \in [tables : SUBSET {"jobs", "notes"}, columns : SUBSET DOMAIN SchemaColumns] :
       \A c \in old.columns : SchemaColumns[c] \in old.tables}

coreVars == <<allVars, chainVars, reportVars>>
dataVars == <<graphVars, schemaVars, turnVars>>

Next ==
    /\ \/ /\ \/ part = "inbox" /\ InboxPart
             \/ part = "reports" /\ ReportPart
             \/ part = "outbox" /\ OutboxPart
             \/ part = "drills" /\ DrillPart
             \/ part = "restore" /\ RestorePart
             \/ part = "tamper" /\ TamperPart
          /\ InOrder
          /\ UNCHANGED <<reportVars, dataVars>>
       \/ /\ \/ part = "bills" /\ BillingPart
             \/ part = "dashboards" /\ DashPart
          /\ UNCHANGED <<allVars, chainVars, dataVars>>
       \/ part = "commands" /\ GraphNext /\ UNCHANGED <<coreVars, schemaVars, turnVars>>
       \/ part = "schema" /\ SchemaNext /\ UNCHANGED <<coreVars, graphVars, turnVars>>
       \/ part = "turns" /\ TurnNext /\ UNCHANGED <<coreVars, graphVars, schemaVars>>
    /\ UNCHANGED part

Spec == Init /\ [][Next]_<<coreVars, dataVars, part>>

TypeOK == DrillTypeOK /\ ChainTypeOK /\ ReportsTypeOK /\ GraphTypeOK /\ SchemaTypeOK
          /\ TurnTypeOK

Symmetry == Permutations(Operator)
=============================================================================
