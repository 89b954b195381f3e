-------------------------- MODULE OperationsReports --------------------------
(***************************************************************************)
(* Recorded model usage, imported invoices, their reconciliation, and the  *)
(* operations dashboard (record_llm_usage, import_billing_invoice,         *)
(* list_billing_invoice_items, billing_reconciliation_report and           *)
(* operations_dashboard in store.py).                                      *)
(*                                                                         *)
(* Every report is put together from SELECTs that no transaction holds     *)
(* together, so that what it says of two tables may never have been true   *)
(* at once.  Amounts are of one currency and one provider; a tolerance of  *)
(* nothing is used.                                                        *)
(***************************************************************************)
EXTENDS Integers, Sequences, FiniteSets

CONSTANTS
    Importer,   \* connections that import invoices
    Invoice,    \* invoices of a provider
    Bill,       \* what an invoice may say: sequences of lines, each of a scope and an amount
    Page,       \* invoice lines a list returns at most (500 in the code)
    MaxUsage,   \* bound of an instance: usage rows
    MaxLine     \* bound of an instance: invoice lines

ASSUME PageAssumption == Page \in Nat \ {0} /\ MaxUsage \in Nat /\ MaxLine \in Nat

VARIABLES
    usage,      \* llm_usage_stats
    lines,      \* provider_invoice_items
    importing,  \* the import each connection has found no lines of its invoice for
    report,     \* the reconciliation report that is being made, or was made last
    billed,     \* history: the lines of each invoice's last import
    overtaken,  \* history: an import found no lines, and others came before it wrote its own
    trouble,    \* what is wrong in the database
    dash        \* the dashboard that is being made, or was made last

billingVars == <<usage, lines, importing, report, billed, overtaken>>
dashVars == <<trouble, dash>>
reportVars == <<billingVars, dashVars>>

Scope == {"personal", "professional"}

\* The usage rows of one call: of ordinary cost, with tokens that do not add up, or of
\* negative cost.  A line of scope "all" is in no report of one scope.
UsageRows == [scope : Scope, kind : {"plain", "odd", "negative"}]
Items == [scope : Scope \cup {"all"}, amount : Nat]
ASSUME BillAssumption == Bill \subseteq Seq(Items) \ {<<>>}

Lines == [invoice : Invoice, item : Items, status : {"active", "replaced"}]

NoImport == [invoice |-> "none", items |-> <<>>]
NoReport == [pc |-> "none", of |-> "every", manual |-> {}, calls |-> {}, torn |-> FALSE,
             expected |-> {}, status |-> "none", whole |-> TRUE]

\* The sum of the values of a function.
Total(f) ==
    LET sum[D \in SUBSET DOMAIN f] ==
          IF D = {} THEN 0
          ELSE LET x == CHOOSE y \in D : TRUE IN f[x] + sum[D \ {x}]
    IN  sum[DOMAIN f]

\* Calls and lines are given by the numbers of their rows.
Cost(call) == IF call.kind = "negative" THEN -1 ELSE 1
Spent(calls) == Total([i \in calls |-> Cost(usage[i])])
Owed(rows) == Total([i \in rows |-> lines[i].item.amount])

\* WHERE scope = ?, when a scope is given.
Of(rows, scope) == {i \in DOMAIN rows : scope \in {"every", rows[i].scope}}

----------------------------------------------------------------------------
(* What the dashboard looks at, in the order of its SELECTs. *)

\* What operational_status, the reconciliation, worker_status_report, the schedules, the
\* inbox and the outbox can find wrong, in the order in which each looks for it.
OperationalHealth == <<"damaged", "large">>
BillingHealth == <<"negative", "mismatch">>
WorkerHealth == <<"stale", "failed">>
RecoveryHealth == <<"overdue">>
NotificationsHealth == <<"urgent", "escalated">>
DeliveryHealth == <<"undelivered">>

\* A slow run is an alert of the observability report, which has no status of its own.
ObservabilityHealth == <<"slow">>

Components ==
    <<OperationalHealth, ObservabilityHealth, BillingHealth, WorkerHealth, RecoveryHealth,
      NotificationsHealth, DeliveryHealth>>
Looks ==
    OperationalHealth \o ObservabilityHealth \o BillingHealth \o WorkerHealth
      \o RecoveryHealth \o NotificationsHealth \o DeliveryHealth
Entries(list) == {list[i] : i \in DOMAIN list}

\* A failed delivery behind a page of newer ones is not looked for.
Unseen == {"buried"}
Trouble == Entries(Looks) \cup Unseen
Silent == Entries(ObservabilityHealth) \cup Unseen
Severe == {"damaged", "negative", "failed", "undelivered"}

PartOf == [t \in Trouble |-> {u \in Trouble : \E c \in Entries(Components) : {t, u} \subseteq Entries(c)}]

NoDash == [at |-> 0, found |-> {}, raised |-> {}, ever |-> {}, always |-> {}, status |-> "none"]

ReportsTypeOK ==
    /\ usage \in Seq(UsageRows) /\ lines \in Seq(Lines)
    /\ \A p \in Importer : importing[p].invoice \in Invoice \cup {"none"}
    /\ report.pc \in {"none", "calls", "done"} /\ report.of \in Scope \cup {"every"}
    /\ report.status \in {"none", "pass", "warn", "fail"} /\ report.calls \subseteq DOMAIN usage
    /\ billed \in [Invoice -> Seq(Items)]
    /\ overtaken \in BOOLEAN
    /\ trouble \subseteq Trouble
    /\ dash.at \in 0 .. Len(Looks) + 1 /\ dash.found \subseteq trouble \cup dash.ever
    /\ dash.always \subseteq trouble \cap dash.ever

ReportsInit ==
    /\ usage = <<>> /\ lines = <<>>
    /\ importing = [p \in Importer |-> NoImport]
    /\ report = NoReport
    /\ billed = [i \in Invoice |-> <<>>]
    /\ overtaken = FALSE
    /\ trouble = {}
    /\ dash = NoDash

----------------------------------------------------------------------------
(* Usage and invoices. *)

\* A change comes between the reads of a report, or makes the last report one of the past.
Disturb ==
    report' = IF report.pc = "calls" THEN [report EXCEPT !.torn = TRUE] ELSE NoReport

\* record_llm_usage: with every model call, and with every row of a profile that is imported,
\* whether or not the database has it.
RecordUsage(call) ==
    /\ Len(usage) < MaxUsage
    /\ usage' = Append(usage, call)
    /\ Disturb
    /\ UNCHANGED <<lines, importing, billed, overtaken, dashVars>>

Active(invoice) == {i \in DOMAIN lines : lines[i].invoice = invoice /\ lines[i].status = "active"}

\* The lines of an import, after the ones there are.
Added(invoice, items, old) ==
    old \o [i \in DOMAIN items |-> [invoice |-> invoice, item |-> items[i], status |-> "active"]]

\* Mutant: what the invoice said before stays active.
Replaced_Kept(invoice) == lines

\* The UPDATE of an import that overwrites.
Replaced(invoice) ==
    [i \in DOMAIN lines |-> IF lines[i].invoice = invoice
                            THEN [lines[i] EXCEPT !.status = "replaced"] ELSE lines[i]]

\* import_billing_invoice up to its first write: without "overwrite", active lines of the
\* invoice refuse it.
CheckInvoice(p, invoice, items) ==
    /\ importing[p] = NoImport
    /\ Active(invoice) = {}
    /\ importing' = [importing EXCEPT ![p] = [invoice |-> invoice, items |-> items]]
    /\ UNCHANGED <<usage, lines, report, billed, overtaken, dashVars>>

\* The INSERTs and the commit.
WriteInvoice(p) ==
    LET invoice == importing[p].invoice
        items == importing[p].items
    IN
    /\ importing[p] # NoImport
    /\ Len(lines) + Len(items) <= MaxLine
    /\ lines' = Added(invoice, items, lines)
    /\ billed' = [billed EXCEPT ![invoice] = items]
    /\ overtaken' = (overtaken \/ Active(invoice) # {})
    /\ importing' = [importing EXCEPT ![p] = NoImport]
    /\ Disturb
    /\ UNCHANGED <<usage, dashVars>>

\* A line that cannot be read stops the import; what it wrote is rolled back.
StopImport(p) ==
    /\ importing[p] # NoImport
    /\ importing' = [importing EXCEPT ![p] = NoImport]
    /\ UNCHANGED <<usage, lines, report, billed, overtaken, dashVars>>

\* With "overwrite" the first statement is the UPDATE, and holds the write lock.
OverwriteInvoice(invoice, items) ==
    /\ Len(lines) + Len(items) <= MaxLine
    /\ lines' = Added(invoice, items, Replaced(invoice))
    /\ billed' = [billed EXCEPT ![invoice] = items]
    /\ Disturb
    /\ UNCHANGED <<usage, importing, overtaken, dashVars>>

----------------------------------------------------------------------------
(* The reconciliation report. *)

\* Without a limit: every call of the scope.
ReadUsage(scope, manual) ==
    /\ report.pc # "calls"
    /\ report' = [NoReport EXCEPT !.pc = "calls", !.of = scope, !.manual = manual,
                                  !.calls = Of(usage, scope)]
    /\ UNCHANGED <<usage, lines, importing, billed, overtaken, dashVars>>

\* list_billing_invoice_items: the active lines of the scope, the newest Page of them; the
\* ones imported in one second come in any order.
PagesOf(scope) ==
    LET all == {i \in DOMAIN lines : lines[i].status = "active" /\ scope \in {"every", lines[i].item.scope}}
        size == IF Cardinality(all) <= Page THEN Cardinality(all) ELSE Page
    IN  {I \in SUBSET all : Cardinality(I) = size}

\* What the calls and the lines are compared for: negative costs, odd ones, and a difference
\* from the amount that was given, or else from the invoices, if there are any.
Judge(calls, expected) ==
    IF \E i \in calls : usage[i].kind = "negative" THEN "fail"
    ELSE IF \/ \E i \in calls : usage[i].kind = "odd"
            \/ \E amount \in expected : amount # Spent(calls)
         THEN "warn" ELSE "pass"

ReadLines ==
    /\ report.pc = "calls"
    /\ \E I \in PagesOf(report.of) :
         LET expected == IF report.manual # {} THEN report.manual
                         ELSE IF I = {} THEN {} ELSE {Owed(I)}
         IN  report' = [report EXCEPT !.pc = "done", !.expected = expected,
                                      !.status = Judge(report.calls, expected),
                                      !.whole = Cardinality(I) < Page]
    /\ UNCHANGED <<usage, lines, importing, billed, overtaken, dashVars>>

----------------------------------------------------------------------------
(* The dashboard. *)

\* A condition comes or goes; keeper_jobs keeps its failed jobs.
Change(t) ==
    LET now == IF t \in trouble THEN trouble \ {t} ELSE trouble \cup {t} IN
    /\ t = "failed" => t \notin trouble
    /\ trouble' = now
    /\ dash' = IF dash.at \in DOMAIN Looks
               THEN [dash EXCEPT !.ever = @ \cup now, !.always = @ \cap now] ELSE NoDash
    /\ UNCHANGED billingVars

Open ==
    /\ dash.at \in {0, Len(Looks) + 1}
    /\ dash' = [NoDash EXCEPT !.at = 1, !.ever = trouble, !.always = trouble]
    /\ UNCHANGED <<billingVars, trouble>>

\* The worst status of a component.
Overall(found, raised) ==
    IF found \cap Severe # {} \/ raised # {} THEN "fail"
    ELSE IF found \ Silent # {} THEN "warn" ELSE "pass"

\* The next condition is looked for.  A component that raises is taken for failed, and all
\* else of it is left out.
Look ==
    /\ dash.at \in DOMAIN Looks
    /\ \E raises \in BOOLEAN :
         LET t == Looks[dash.at]
             raised == IF raises THEN dash.raised \cup PartOf[t] ELSE dash.raised
             found == (dash.found \cup ({t} \cap trouble)) \ raised
         IN  dash' = [dash EXCEPT !.at = @ + 1, !.found = found, !.raised = raised,
                                  !.status = IF dash.at = Len(Looks) THEN Overall(found, raised)
                                             ELSE "none"]
    /\ UNCHANGED <<billingVars, trouble>>

BillingNext ==
    \/ \E call \in UsageRows : RecordUsage(call)
    \/ \E scope \in Scope \cup {"every"} :
         \E manual \in {{}, {1}} : ReadUsage(scope, manual)
    \/ \E invoice \in Invoice, items \in Bill :
         OverwriteInvoice(invoice, items) \/ \E p \in Importer : CheckInvoice(p, invoice, items)
    \/ \E p \in Importer : WriteInvoice(p) \/ StopImport(p)
    \/ ReadLines

DashNext == (\E t \in Trouble : Change(t)) \/ Open \/ Look

ReportsNext == BillingNext \/ DashNext

ReportsSpec == ReportsInit /\ [][ReportsNext]_reportVars

----------------------------------------------------------------------------
(* Properties. *)

\* A reconciliation that nothing came between expects what the last import of every invoice
\* says, and passes only if the calls of its scope cost that much and none was odd: unless
\* one import overtook another, or there is a page of lines or more.
ReconciliationAddsUp ==
    report.pc = "done" /\ ~report.torn =>
      /\ report.manual = {} /\ report.whole /\ ~overtaken =>
           LET all == {row \in Invoice \X (1 .. Len(lines)) : row[2] \in Of(billed[row[1]], report.of)} IN
           report.expected = IF all = {} THEN {}
                             ELSE {Total([row \in all |-> billed[row[1]][row[2]].amount])}
      /\ report.status = "pass" =>
           LET calls == Of(usage, report.of) IN
           /\ \A i \in calls : usage[i].kind = "plain"
           /\ report.expected \subseteq {Cardinality(calls)}

\* What was wrong all the time a dashboard was made shows in its status, unless it is of the
\* conditions no component's status knows of; and a dashboard that fails or warns does so for
\* something that was wrong in the meantime, or for a component that raised.
DashboardIsSound ==
    /\ dash.always \cap Severe # {} /\ dash.status # "none" => dash.status = "fail"
    /\ dash.status = "pass" => dash.always \subseteq Silent
    /\ dash.status = "warn" => dash.ever \ Silent # {}
    /\ dash.status = "fail" => dash.ever \cap Severe # {} \/ dash.raised # {}

\* The reports operators go by say what is recorded.
ReportsAddUp == ReconciliationAddsUp /\ DashboardIsSound
=============================================================================
