------------------------- MODULE NotificationOutbox -------------------------
(***************************************************************************)
(* The notification inbox of the operators and the outbox of deliveries an *)
(* external sender works off (memory_notifications and                     *)
(* memory_notification_deliveries in store.py).                            *)
(*                                                                         *)
(* Another component raises a notification about a target, or clears the   *)
(* target, inside a transaction of its own, so both are one step.  The     *)
(* operators' and the sender's calls read a row without a lock, decide,    *)
(* and UPDATE it without repeating the check: an operation is one step per *)
(* unlocked read that is used later and one step per transaction.          *)
(***************************************************************************)
EXTENDS Naturals, FiniteSets

CONSTANTS
    Target,       \* what a notification is about: (target_type, target_id)
    Notice,       \* ids of memory_notifications rows
    Delivery,     \* ids of memory_notification_deliveries rows
    Operator,     \* connections that may be in the middle of an operation
    Nobody,       \* no target, no notification
    Window,       \* rows of a status a listing by class looks at (500)
    Cut,          \* limit the callers ask for: 50 unless they say otherwise
    MaxAttempts   \* bound of an instance: attempts reported for a delivery

ASSUME NobodyAssumption == Nobody \notin Target \cup Notice
ASSUME AttemptsAssumption == MaxAttempts \in Nat
ASSUME ListingAssumption ==
    /\ IsFiniteSet(Notice)
    /\ Window \in Nat /\ Cut \in 1 .. Window
ASSUME RowsAssumption == Notice \cap Delivery = {}

VARIABLES
    notice,     \* memory_notifications: status, target, due_at
    delivery,   \* memory_notification_deliveries: status, notice, attempts, delivered
    call,       \* what each connection is in the middle of
    tries,      \* history: attempts that were reported for each delivery
    arrived,    \* history: deliveries that were reported delivered
    again,      \* history: deliveries queued with dedupe off or put back to sending
    raced       \* history: rows whose operations have overlapped

outboxRows == <<notice, delivery>>
outboxHistory == <<tries, arrived, again, raced>>
outboxVars == <<outboxRows, call, outboxHistory>>

Unresolved == {"open", "acknowledged"}
Live == {"queued", "sending"}
\* due_at against the clock: none or one that is not a date, on track, within
\* NOTIFICATION_DUE_SOON_SECONDS, and past.  Who it is assigned to is left out.
Due == {"", "later", "soon", "past"}

NoNotice == [status |-> "none", target |-> Nobody, due |-> ""]
NoDelivery == [status |-> "none", notice |-> Nobody, attempts |-> 0, delivered |-> FALSE]

\* held: the rows an operation has read and will act on.  todo: notifications still to be
\* queued, or those a report has listed so far; late: those it has listed as overdue; must:
\* history, what there was to report; whole: history, its listings were not in each other's
\* way; attempts and delivered: those of a delivery, as they were read.
Quiet == [pc |-> "idle", held |-> {}, todo |-> {}, dedupe |-> TRUE, late |-> {}, must |-> {},
          whole |-> TRUE, attempts |-> 0, delivered |-> FALSE]

NoticeRow == [status : {"none", "resolved"} \cup Unresolved, target : Target \cup {Nobody},
              due : Due]
DeliveryRow == [status : {"none", "queued", "sending", "delivered", "failed"},
                notice : Notice \cup {Nobody}, attempts : 0 .. MaxAttempts + 1,
                delivered : BOOLEAN]
Calls == {"idle", "acking", "assigning", "resolving", "listed", "inserting", "marking",
          "report2", "report3", "report4", "reported"}

OutboxTypeOK ==
    /\ notice \in [Notice -> NoticeRow]
    /\ delivery \in [Delivery -> DeliveryRow]
    /\ call \in [Operator -> [pc : Calls, held : SUBSET (Notice \cup Delivery),
                              todo : SUBSET Notice, dedupe : BOOLEAN, late : SUBSET Notice,
                              must : SUBSET Notice, whole : BOOLEAN,
                              attempts : 0 .. MaxAttempts + 1, delivered : BOOLEAN]]
    /\ tries \in [Delivery -> Nat]
    /\ arrived \subseteq Delivery
    /\ again \subseteq Delivery
    /\ raced \subseteq Notice \cup Delivery

OutboxInit ==
    /\ notice = [n \in Notice |-> NoNotice]
    /\ delivery = [d \in Delivery |-> NoDelivery]
    /\ call = [o \in Operator |-> Quiet]
    /\ tries = [d \in Delivery |-> 0]
    /\ arrived = {}
    /\ again = {}
    /\ raced = {}

----------------------------------------------------------------------------
Sets(o, r) == call' = [call EXCEPT ![o] = r]

\* History: a commit on the rows T by o; those another operation holds have overlapped.
Races(o, T) == raced' = raced \cup {t \in T : \E p \in Operator \ {o} : t \in call[p].held}

\* History: the reports under way may miss the notifications N from now on.
Excuse(N) == [o \in Operator |-> [call[o] EXCEPT !.must = @ \ N]]

OpenFor(t) == {n \in Notice : notice[n].target = t /\ notice[n].status \in Unresolved}

\* _notification_sla: the class of a notification's due date.
Sla(n) ==
    IF notice[n].status = "resolved" THEN "resolved"
    ELSE IF notice[n].due = "" THEN "no_due_date"
    ELSE IF notice[n].due = "past" THEN "overdue"
    ELSE IF notice[n].due = "soon" THEN "due_soon" ELSE "on_track"

InStatus(status) ==
    {n \in Notice : notice[n].status # "none" /\ status \in {"all", notice[n].status}}

\* What LIMIT k can leave of S: by severity and date, which nothing here tells apart.
Firsts(S, k) == IF Cardinality(S) <= k THEN {S} ELSE {T \in SUBSET S : Cardinality(T) = k}

\* list_notifications: the first rows of a status, "all" of them, or of the Window's rows
\* those of a class, "" for any.
Listings(status, class) ==
    IF class = "" THEN Firsts(InStatus(status), Cut)
    ELSE UNION {Firsts({n \in rows : Sla(n) = class}, Cut) :
                  rows \in Firsts(InStatus(status), Window)}

----------------------------------------------------------------------------
(* The other components' side: both run inside the caller's transaction. *)

\* Mutant: only an open notification counts as the existing one.
Raise_OpenOnly(t) ==
    IF \E n \in OpenFor(t) : notice[n].status = "open"
    THEN UNCHANGED notice
    ELSE \E n \in Notice :
           /\ notice[n].status = "none"
           /\ notice' = [notice EXCEPT ![n] = [NoNotice EXCEPT !.status = "open", !.target = t]]

\* _create_notification: an unresolved row of the same dedupe_key is refreshed (its text
\* and severity, which nothing here tells apart), otherwise a row is inserted.
Raise(t) ==
    IF OpenFor(t) # {}
    THEN UNCHANGED notice
    ELSE \E n \in Notice :
           /\ notice[n].status = "none"
           /\ notice' = [notice EXCEPT ![n] = [NoNotice EXCEPT !.status = "open", !.target = t]]

\* _resolve_notifications_for_target
Clear(t) ==
    notice' = [n \in Notice |-> IF n \in OpenFor(t)
                                THEN [notice[n] EXCEPT !.status = "resolved"] ELSE notice[n]]

Need(t) ==
    /\ Raise(t)
    /\ UNCHANGED <<delivery, call, outboxHistory>>

\* o is the connection whose transaction this is.
Settle(t) ==
    /\ OpenFor(t) # {}
    /\ Clear(t)
    /\ raced' = raced \cup {n \in OpenFor(t) : \E p \in Operator : n \in call[p].held}
    /\ call' = Excuse(OpenFor(t))
    /\ UNCHANGED <<delivery, tries, arrived, again>>

\* The clock: a due date comes near, and passes.
Elapse(n) ==
    /\ notice[n].due \in {"later", "soon"}
    /\ notice[n].status \in Unresolved
    /\ notice' = [notice EXCEPT ![n].due = IF @ = "later" THEN "soon" ELSE "past"]
    /\ call' = Excuse({n})
    /\ UNCHANGED <<delivery, outboxHistory>>

----------------------------------------------------------------------------
(* ack_notification, assign_notification and resolve_notification: each reads the row,  *)
(* returns it if it is resolved, and otherwise writes without looking at it again.      *)
TakeNotice(o, n, what) ==
    /\ call[o] = Quiet
    /\ notice[n].status \in Unresolved
    /\ Sets(o, [Quiet EXCEPT !.pc = what, !.held = {n}])
    /\ UNCHANGED <<outboxRows, outboxHistory>>

AckCommit(o) ==
    \E n \in call[o].held :
      /\ call[o].pc = "acking"
      /\ notice' = [notice EXCEPT ![n].status = "acknowledged"]
      /\ Races(o, {n})
      /\ Sets(o, Quiet)
      /\ UNCHANGED <<delivery, tries, arrived, again>>

\* The due date is replaced, also by none at all; its text is not checked.
AssignCommit(o, due) ==
    \E n \in call[o].held :
      /\ call[o].pc = "assigning"
      /\ notice' = [notice EXCEPT ![n].due = due]
      /\ Races(o, {n})
      /\ call' = [Excuse({n}) EXCEPT ![o] = Quiet]
      /\ UNCHANGED <<delivery, tries, arrived, again>>

ResolveCommit(o) ==
    \E n \in call[o].held :
      /\ call[o].pc = "resolving"
      /\ notice' = [notice EXCEPT ![n].status = "resolved"]
      /\ Races(o, {n})
      /\ call' = [Excuse({n}) EXCEPT ![o] = Quiet]
      /\ UNCHANGED <<delivery, tries, arrived, again>>

----------------------------------------------------------------------------
(* enqueue_notification_deliveries, for one transport and destination. *)
LiveFor(n) == {d \in Delivery : delivery[d].notice = n /\ delivery[d].status \in Live}

\* notification_transport_payloads: what is listed is read once.
EnqueueList(o, status, class, dedupe) ==
    /\ call[o] = Quiet
    /\ \E listed \in Listings(status, class) \ {{}} :
         Sets(o, [Quiet EXCEPT !.pc = "listed", !.todo = listed, !.dedupe = dedupe])
    /\ UNCHANGED <<outboxRows, outboxHistory>>

\* Mutant: only a queued delivery, not one being sent, keeps a second from being queued.
EnqueueCheck_QueuedOnly(o, n) ==
    /\ call[o].pc = "listed"
    /\ n \in call[o].todo
    /\ IF call[o].dedupe /\ \E d \in LiveFor(n) : delivery[d].status = "queued"
       THEN Sets(o, IF call[o].todo = {n} THEN Quiet ELSE [call[o] EXCEPT !.todo = @ \ {n}])
       ELSE Sets(o, [call[o] EXCEPT !.pc = "inserting", !.held = {n}, !.todo = @ \ {n}])
    /\ UNCHANGED <<outboxRows, outboxHistory>>

\* The first payload without a live delivery is looked up before the transaction begins;
\* those that have one are skipped, and a call that skips them all writes nothing.
EnqueueCheck(o, n) ==
    /\ call[o].pc = "listed"
    /\ n \in call[o].todo
    /\ IF call[o].dedupe /\ LiveFor(n) # {}
       THEN Sets(o, IF call[o].todo = {n} THEN Quiet ELSE [call[o] EXCEPT !.todo = @ \ {n}])
       ELSE Sets(o, [call[o] EXCEPT !.pc = "inserting", !.held = {n}, !.todo = @ \ {n}])
    /\ UNCHANGED <<outboxRows, outboxHistory>>

\* The transaction: the payload that was looked up, and of the rest those that have no
\* live delivery now.
EnqueueCommit(o) ==
    LET rest == IF call[o].dedupe THEN {n \in call[o].todo : LiveFor(n) = {}}
                ELSE call[o].todo
    IN
    /\ call[o].pc = "inserting"
    /\ \E id \in [call[o].held \cup rest -> {d \in Delivery : delivery[d].status = "none"}] :
         /\ \A m, n \in DOMAIN id : m # n => id[m] # id[n]
         /\ delivery' = [d \in Delivery |->
                           IF \E n \in DOMAIN id : id[n] = d
                           THEN [NoDelivery EXCEPT !.status = "queued",
                                    !.notice = CHOOSE n \in DOMAIN id : id[n] = d]
                           ELSE delivery[d]]
         /\ again' = IF call[o].dedupe THEN again ELSE again \cup {id[n] : n \in DOMAIN id}
         /\ raced' = raced \cup {id[n] : n \in {m \in DOMAIN id :
                         \E p \in Operator \ {o} : call[p].pc = "inserting" /\ m \in call[p].held}}
    /\ Sets(o, Quiet)
    /\ UNCHANGED <<notice, tries, arrived>>

----------------------------------------------------------------------------
(* mark_notification_delivery: the sender's report, of whatever happened to the row. *)
MarkRead(o, d) ==
    /\ call[o] = Quiet
    /\ delivery[d].status # "none"
    /\ tries[d] <= MaxAttempts
    /\ Sets(o, [Quiet EXCEPT !.pc = "marking", !.held = {d},
                    !.attempts = delivery[d].attempts, !.delivered = delivery[d].delivered])
    /\ UNCHANGED <<outboxRows, outboxHistory>>

\* An attempt is counted when it starts and again when it fails; one that arrives counts
\* only if its start was not reported.
Counts(status, attempts) == status \in {"sending", "failed"} \/ attempts = 0

\* Mutant: the delivery date is cleared unless this report sets it.
MarkCommit_ClearsDate(o, status) ==
    \E d \in call[o].held :
      LET total == call[o].attempts + (IF Counts(status, call[o].attempts) THEN 1 ELSE 0) IN
      /\ call[o].pc = "marking"
      /\ total <= MaxAttempts + 1
      /\ delivery' = [delivery EXCEPT ![d] =
                        [@ EXCEPT !.status = status, !.attempts = total,
                                  !.delivered = (status = "delivered")]]
      /\ tries' = [tries EXCEPT ![d] = @ + (total - call[o].attempts)]
      /\ arrived' = IF status = "delivered" THEN arrived \cup {d} ELSE arrived
      /\ again' = IF status = "sending" /\ delivery[d].status \notin Live
                  THEN again \cup {d} ELSE again
      /\ Races(o, {d})
      /\ Sets(o, Quiet)
      /\ UNCHANGED notice

MarkCommit(o, status) ==
    \E d \in call[o].held :
      LET total == call[o].attempts + (IF Counts(status, call[o].attempts) THEN 1 ELSE 0) IN
      /\ call[o].pc = "marking"
      /\ total <= MaxAttempts + 1
      /\ delivery' = [delivery EXCEPT ![d] =
                        [@ EXCEPT !.status = status, !.attempts = total,
                                  !.delivered = (status = "delivered" \/ call[o].delivered)]]
      /\ tries' = [tries EXCEPT ![d] = @ + (total - call[o].attempts)]
      /\ arrived' = IF status = "delivered" THEN arrived \cup {d} ELSE arrived
      /\ again' = IF status = "sending" /\ delivery[d].status \notin Live
                  THEN again \cup {d} ELSE again
      /\ Races(o, {d})
      /\ Sets(o, Quiet)
      /\ UNCHANGED notice

----------------------------------------------------------------------------
(* notification_escalations: four listings, one after the other and none of them locked:  *)
(* the open and overdue, the open and due soon, then both of what is acknowledged.  What  *)
(* was listed before is not listed again, and the report is cut, the overdue first.       *)
Urgent(n) == notice[n].status \in Unresolved /\ Sla(n) \in {"overdue", "due_soon"}

ReportFirst(o) ==
    /\ call[o] = Quiet
    /\ \E listed \in Listings("open", "overdue") :
         Sets(o, [Quiet EXCEPT !.pc = "report2", !.todo = listed, !.late = listed,
                               !.must = {n \in Notice : Urgent(n)},
                               !.whole = Cardinality(InStatus("open")) <= Window])
    /\ UNCHANGED <<outboxRows, outboxHistory>>

\* The report r with one more listing of a class.
Extended(r, class, listed) ==
    [r EXCEPT !.todo = @ \cup listed,
              !.late = IF class = "overdue" THEN @ \cup (listed \ r.todo) ELSE @]

\* A listing takes in all rows of its status, and lists nothing as overdue that the report
\* has as due soon.
InFull(r, status, class, listed) ==
    /\ Cardinality(InStatus(status)) <= Window
    /\ class = "overdue" => listed \cap r.todo \subseteq r.late

ReportMore(o, pc, status, class, next) ==
    /\ call[o].pc = pc
    /\ \E listed \in Listings(status, class) :
         Sets(o, [Extended(call[o], class, listed) EXCEPT
                    !.pc = next, !.whole = @ /\ InFull(call[o], status, class, listed)])
    /\ UNCHANGED <<outboxRows, outboxHistory>>

\* The last listing; of all that is listed the report keeps the first.
ReportLast(o, class) ==
    /\ call[o].pc = "report4"
    /\ \E listed \in Listings("acknowledged", class) :
         LET r == Extended(call[o], class, listed) IN
         \E kept \in Firsts(r.todo, Cut) :
           /\ kept \subseteq r.late \/ r.late \subseteq kept
           /\ Sets(o, [r EXCEPT !.pc = "reported", !.todo = kept,
                         !.whole = @ /\ InFull(call[o], "acknowledged", class, listed)])
    /\ UNCHANGED <<outboxRows, outboxHistory>>

\* Mutant: what is acknowledged is listed only when it is overdue.
ReportNext_Overdue(o) ==
    \/ ReportMore(o, "report2", "open", "due_soon", "report3")
    \/ ReportMore(o, "report3", "acknowledged", "overdue", "report4")
    \/ ReportLast(o, "overdue")

ReportNext(o) ==
    \/ ReportMore(o, "report2", "open", "due_soon", "report3")
    \/ ReportMore(o, "report3", "acknowledged", "overdue", "report4")
    \/ ReportLast(o, "due_soon")

\* A call ends, is answered with an error, or dies: what it has not committed is undone.
Leave(o) ==
    /\ call[o] # Quiet
    /\ Sets(o, Quiet)
    /\ UNCHANGED <<outboxRows, outboxHistory>>

OperatorStep(o) ==
    \/ \E n \in Notice, what \in {"acking", "assigning", "resolving"} : TakeNotice(o, n, what)
    \/ AckCommit(o)
    \/ \E due \in Due : AssignCommit(o, due)
    \/ ResolveCommit(o)
    \/ ReportFirst(o)
    \/ ReportNext(o)
    \/ Leave(o)

SenderStep(o) ==
    \/ \E status \in {"open", "acknowledged", "all"}, class \in {"", "overdue"},
          dedupe \in BOOLEAN : EnqueueList(o, status, class, dedupe)
    \/ \E n \in Notice : EnqueueCheck(o, n)
    \/ EnqueueCommit(o)
    \/ \E d \in Delivery : MarkRead(o, d)
    \/ \E status \in {"sending", "delivered", "failed"} : MarkCommit(o, status)

OutboxNext ==
    \/ \E t \in Target : Need(t) \/ Settle(t)
    \/ \E n \in Notice : Elapse(n)
    \/ \E o \in Operator : OperatorStep(o) \/ SenderStep(o)

OutboxSpec == OutboxInit /\ [][OutboxNext]_outboxVars

----------------------------------------------------------------------------
(* Properties. *)

\* dedupe ("Skip queued/sending duplicates for the same destination"): a notification has
\* two live deliveries only if one was queued with dedupe off, was put back to sending after
\* it had ended, or was queued while another call was past its look-up of the same one.
OneLiveDelivery ==
    \A n \in Notice : \A d, e \in LiveFor(n) \ (again \cup raced) : d = e

\* What the sender reported of a delivery is kept: its attempts, and that it arrived, also
\* when a later report says otherwise; unless two reports overlapped.
ReportsAreKept ==
    \A d \in Delivery \ raced :
        /\ delivery[d].attempts = tries[d]
        /\ d \in arrived => delivery[d].delivered /\ delivery[d].attempts > 0
        /\ delivery[d].status = "queued" => delivery[d].attempts = 0

\* dedupe_key: a target has one unresolved notification, unless a call that had read one as
\* unresolved wrote over its resolution.
OneNoticePerTarget ==
    \A t \in Target : \A m, n \in OpenFor(t) \ raced : m = n

\* An escalation report that is not full lists every notification that was overdue, or due
\* soon, when it began, and was neither resolved nor moved to another due date or class in the
\* meantime; a full one lists every such overdue notification before any that is due soon.
\* Nothing is promised of more than Window rows of a status, or of a report that finds
\* overdue what it has listed as due soon.
EscalationsAreComplete ==
    \A o \in Operator :
      LET r == call[o] IN
      r.pc = "reported" /\ r.whole =>
        /\ Cardinality(r.todo) < Cut => r.must \subseteq r.todo
        /\ ~(r.todo \subseteq r.late) => \A n \in r.must : Sla(n) = "overdue" => n \in r.todo
=============================================================================
