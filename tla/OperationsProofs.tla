-------------------------- MODULE OperationsProofs --------------------------
(***************************************************************************)
(* Proofs about what MCOperations puts side by side: the notification      *)
(* inbox and outbox, for any targets, rows and operators; the restore      *)
(* drills that use them, for any schedules and schedulers; the audit chain *)
(* with its backups, for any connections and any number of rows; and the   *)
(* reports on usage, invoices and operations, for any bills and numbers of *)
(* rows.  What is proved of the other three is in TransactionProofs.       *)
(***************************************************************************)
EXTENDS MCOperations, TransactionProofs, WellFoundedInduction

CallRow == [pc : Calls, held : SUBSET (Notice \cup Delivery), todo : SUBSET Notice,
            dedupe : BOOLEAN, late : SUBSET Notice, must : SUBSET Notice, whole : BOOLEAN,
            attempts : 0 .. MaxAttempts + 1, delivered : BOOLEAN]

\* What an operation has read of a notification: it is unresolved still, or another
\* operation has written since.
TakenOK(o) ==
    call[o].pc \in {"acking", "assigning", "resolving"} =>
      \A n \in call[o].held : notice[n].status \in Unresolved \/ n \in raced

\* What a look-up found: the notification has no live delivery but those excused.
LookedUpOK(o) ==
    call[o].pc = "inserting" /\ call[o].dedupe = TRUE =>
      \A n \in call[o].held : LiveFor(n) \subseteq again \cup raced

\* What a report of the sender has read of its delivery.
MarkingOK(o) ==
    call[o].pc = "marking" =>
      \A d \in call[o].held :
        /\ delivery[d].status # "none"
        /\ d \notin raced => /\ call[o].attempts = delivery[d].attempts
                             /\ call[o].delivered = delivery[d].delivered

\* What a report has listed so far is as much as it takes, or all it may not miss of a class,
\* but for rows whose status is in ahead, which it lists later.
LateOK(o, ahead) ==
    \/ Cardinality(call[o].late) >= Cut
    \/ \A m \in call[o].must :
         Sla(m) = "overdue" => m \in call[o].late \/ notice[m].status \in ahead
SoonOK(o, ahead) ==
    \/ Cardinality(call[o].todo) >= Cut
    \/ \A m \in call[o].must :
         Sla(m) = "due_soon" => m \in call[o].todo \/ notice[m].status \in ahead

\* What a whole report says when it is made.
CompleteOK(o) ==
    LET r == call[o] IN
    /\ Cardinality(r.todo) < Cut => r.must \subseteq r.todo
    /\ ~(r.todo \subseteq r.late) => \A n \in r.must : Sla(n) = "overdue" => n \in r.todo

\* What an escalation report may not miss is urgent still, and listed or listed later, or the
\* report is full.
ReportingOK(o) ==
    LET r == call[o] IN
    r.pc \in {"report2", "report3", "report4", "reported"} =>
      /\ \A m \in r.must : Urgent(m)
      /\ r.pc # "reported" => r.late \subseteq r.todo
      /\ r.whole = TRUE =>
           /\ r.pc \in {"report2", "report3"} => LateOK(o, {"acknowledged"})
           /\ r.pc \in {"report3", "report4"} => SoonOK(o, {"acknowledged"})
           /\ r.pc = "report4" => LateOK(o, {})
           /\ r.pc = "reported" => CompleteOK(o)

OperationOK(o) ==
    /\ call[o].held \subseteq IF call[o].pc = "marking" THEN Delivery ELSE Notice
    /\ TakenOK(o) /\ LookedUpOK(o) /\ MarkingOK(o) /\ ReportingOK(o)

\* A delivery that was not queued yet has no history.
UnusedOK(d) ==
    delivery[d].status = "none" => tries[d] = 0 /\ d \notin arrived /\ delivery[d].attempts = 0

OutboxInv ==
    /\ OutboxTypeOK
    /\ \A o \in Operator : OperationOK(o)
    /\ \A d \in Delivery : UnusedOK(d)
    /\ OneNoticePerTarget
    /\ OneLiveDelivery
    /\ ReportsAreKept

----------------------------------------------------------------------------
(* The inbox and the outbox: types. *)

\* The rows that are written are rows.
LEMMA RowTypes ==
    /\ Quiet \in CallRow /\ NoNotice \in NoticeRow /\ NoDelivery \in DeliveryRow
    /\ Quiet.pc = "idle" /\ Quiet.held = {}
  BY AttemptsAssumption DEF Quiet, CallRow, Calls, NoNotice, NoticeRow, Unresolved, Due,
     NoDelivery, DeliveryRow

LEMMA TypedRows ==
    ASSUME OutboxTypeOK
    PROVE  /\ \A o \in Operator : call[o] \in CallRow
           /\ \A n \in Notice : notice[n] \in NoticeRow
           /\ \A d \in Delivery : delivery[d] \in DeliveryRow
           /\ call \in [Operator -> CallRow]
  BY DEF OutboxTypeOK, CallRow

LEMMA SetsType ==
    ASSUME OutboxTypeOK, NEW o \in Operator, NEW r \in CallRow, Sets(o, r)
    PROVE  /\ call' \in [Operator -> CallRow] /\ call'[o] = r
           /\ \A p \in Operator : p # o => call'[p] = call[p]
  BY TypedRows DEF Sets

LEMMA ExcuseType ==
    ASSUME OutboxTypeOK, NEW N
    PROVE  /\ Excuse(N) \in [Operator -> CallRow]
           /\ \A p \in Operator : Excuse(N)[p].must = call[p].must \ N
  <1>1. \A p \in Operator : [call[p] EXCEPT !.must = @ \ N] \in CallRow
    BY TypedRows DEF CallRow
  <1>2. \A p \in Operator : call[p] \in CallRow
    BY TypedRows
  <1>3. \A p \in Operator : [call[p] EXCEPT !.must = @ \ N].must = call[p].must \ N
    BY <1>2 DEF CallRow
  <1> QED
    BY <1>1, <1>3 DEF Excuse

----------------------------------------------------------------------------
(* What a step leaves alone. *)

\* The operation of p goes on as it was, but for what it may be excused from.
Continues(p) ==
    /\ call'[p].pc = call[p].pc /\ call'[p].held = call[p].held /\ call'[p].todo = call[p].todo
    /\ call'[p].dedupe = call[p].dedupe /\ call'[p].attempts = call[p].attempts
    /\ call'[p].delivered = call[p].delivered /\ call'[p].must \subseteq call[p].must
    /\ call'[p].late = call[p].late /\ call'[p].whole = call[p].whole

LEMMA ExcuseContinues ==
    ASSUME OutboxTypeOK, NEW N, NEW p \in Operator, call'[p] = Excuse(N)[p]
    PROVE  Continues(p) /\ call'[p].must = call[p].must \ N
  <1>1. call[p] \in CallRow
    BY TypedRows
  <1>2. call'[p] = [call[p] EXCEPT !.must = @ \ N]
    BY DEF Excuse
  <1> QED
    BY <1>1, <1>2 DEF CallRow, Continues

SameOutbox == UNCHANGED <<delivery, tries, arrived, again>> /\ raced \subseteq raced'
SameInbox == UNCHANGED notice /\ raced \subseteq raced'

\* A report keeps what it has listed while nothing it may not miss changes its class.
LEMMA ReportingKept ==
    ASSUME NEW p \in Operator, Continues(p), ReportingOK(p),
           \A m \in call'[p].must :
             Urgent(m) => /\ Urgent(m)' /\ Sla(m)' = Sla(m)
                          /\ notice[m].status = "acknowledged" => notice'[m].status = "acknowledged"
    PROVE  ReportingOK(p)'
<1>1. LateOK(p, {}) /\ (\A m \in call[p].must : Urgent(m)) => LateOK(p, {})'
  BY DEF LateOK, Continues
<1>2. LateOK(p, {"acknowledged"}) /\ (\A m \in call[p].must : Urgent(m))
        => LateOK(p, {"acknowledged"})'
  BY DEF LateOK, Continues
<1>3. SoonOK(p, {"acknowledged"}) /\ (\A m \in call[p].must : Urgent(m))
        => SoonOK(p, {"acknowledged"})'
  BY DEF SoonOK, Continues
<1>4. CompleteOK(p) /\ (\A m \in call[p].must : Urgent(m)) => CompleteOK(p)'
  BY DEF CompleteOK, Continues
<1> QED
  BY <1>1, <1>2, <1>3, <1>4 DEF ReportingOK, Continues

\* A step on notifications leaves what is known of deliveries.
LEMMA OutboxKept ==
    ASSUME OutboxInv, SameOutbox
    PROVE  /\ \A d \in Delivery : UnusedOK(d)'
           /\ OneLiveDelivery' /\ ReportsAreKept'
           /\ \A p \in Operator : Continues(p) => LookedUpOK(p)' /\ MarkingOK(p)'
<1> USE DEF SameOutbox
<1>1. \A d \in Delivery : UnusedOK(d)'
  BY DEF OutboxInv, UnusedOK
<1>2. \A n : LiveFor(n)' = LiveFor(n)
  BY DEF LiveFor
<1>3. OneLiveDelivery'
  BY <1>2 DEF OutboxInv, OneLiveDelivery
<1>4. ReportsAreKept'
  BY DEF OutboxInv, ReportsAreKept
<1>5. ASSUME NEW p \in Operator, Continues(p) PROVE LookedUpOK(p)'
  BY <1>2, <1>5 DEF OutboxInv, OperationOK, LookedUpOK, Continues
<1>6. ASSUME NEW p \in Operator, Continues(p) PROVE MarkingOK(p)'
  BY <1>6 DEF OutboxInv, OperationOK, MarkingOK, Continues
<1> QED
  BY <1>1, <1>3, <1>4, <1>5, <1>6

\* A step on deliveries leaves what is known of notifications.
LEMMA InboxKept ==
    ASSUME OutboxInv, SameInbox
    PROVE  /\ OneNoticePerTarget'
           /\ \A p \in Operator : Continues(p) => TakenOK(p)' /\ ReportingOK(p)'
<1> USE DEF SameInbox
<1>1. OneNoticePerTarget'
  BY DEF OutboxInv, OneNoticePerTarget, OpenFor
<1>2. ASSUME NEW p \in Operator, Continues(p) PROVE TakenOK(p)'
  BY <1>2 DEF OutboxInv, OperationOK, TakenOK, Continues
<1>3. \A m : Sla(m)' = Sla(m) /\ (Urgent(m)' <=> Urgent(m))
  BY DEF Sla, Urgent
<1>4. ASSUME NEW p \in Operator, Continues(p) PROVE ReportingOK(p)'
  BY <1>3, <1>4, ReportingKept DEF OutboxInv, OperationOK
<1> QED
  BY <1>1, <1>2, <1>4

LEMMA HeldKept ==
    ASSUME OutboxInv, NEW p \in Operator, Continues(p)
    PROVE  (call[p].held \subseteq IF call[p].pc = "marking" THEN Delivery ELSE Notice)'
  BY DEF OutboxInv, OperationOK, Continues

LEMMA QuietOperation ==
    ASSUME NEW o \in Operator, call'[o] = Quiet
    PROVE  OperationOK(o)'
  BY RowTypes DEF OperationOK, TakenOK, LookedUpOK, MarkingOK, ReportingOK

\* A step of one operation that writes no row.
LEMMA CallOnly ==
    ASSUME OutboxInv, NEW o \in Operator, NEW r \in CallRow, Sets(o, r),
           UNCHANGED <<outboxRows, outboxHistory>>, OperationOK(o)'
    PROVE  OutboxInv'
<1>1. SameOutbox /\ SameInbox
  BY DEF SameOutbox, SameInbox, outboxRows, outboxHistory
<1>2. OutboxTypeOK'
  BY SetsType DEF OutboxInv, OutboxTypeOK, CallRow, outboxRows, outboxHistory
<1>3. ASSUME NEW p \in Operator PROVE OperationOK(p)'
  <2>1. CASE p = o
    BY <2>1
  <2>2. CASE p # o
    <3>1. Continues(p)
      BY <2>2, SetsType DEF OutboxInv, Continues
    <3> QED
      BY <3>1, <1>1, OutboxKept, InboxKept, HeldKept DEF OperationOK
  <2> QED
    BY <2>1, <2>2
<1> QED
  BY <1>1, <1>2, <1>3, OutboxKept, InboxKept DEF OutboxInv

----------------------------------------------------------------------------
(* Steps on notifications. *)

LEMMA NoticeStep ==
    ASSUME OutboxInv, SameOutbox, OutboxTypeOK', OneNoticePerTarget',
           \A p \in Operator : call'[p] = Quiet \/ (Continues(p) /\ TakenOK(p)' /\ ReportingOK(p)')
    PROVE  OutboxInv'
<1>1. ASSUME NEW p \in Operator PROVE OperationOK(p)'
  <2>1. CASE call'[p] = Quiet
    BY <2>1, QuietOperation
  <2>2. CASE Continues(p) /\ TakenOK(p)' /\ ReportingOK(p)'
    BY <2>2, OutboxKept, HeldKept DEF OperationOK
  <2> QED
    BY <2>1, <2>2
<1> QED
  BY <1>1, OutboxKept DEF OutboxInv

\* A notification that is raised leaves the ones there are alone.
LEMMA RaiseFacts ==
    ASSUME OutboxInv, NEW t \in Target, Raise(t), raced \subseteq raced'
    PROVE  /\ notice' \in [Notice -> NoticeRow]
           /\ \A n \in Notice : notice[n].status # "none" => notice'[n] = notice[n]
           /\ OneNoticePerTarget'
<1>1. CASE UNCHANGED notice
  <2>1. OneNoticePerTarget'
    BY <1>1, InboxKept DEF SameInbox
  <2> QED
    BY <1>1, <2>1 DEF OutboxInv, OutboxTypeOK
<1>2. ASSUME OpenFor(t) = {}, NEW n \in Notice, notice[n].status = "none",
             notice' = [notice EXCEPT ![n] = [NoNotice EXCEPT !.status = "open", !.target = t]]
      PROVE  /\ notice' \in [Notice -> NoticeRow]
             /\ \A m \in Notice : notice[m].status # "none" => notice'[m] = notice[m]
             /\ OneNoticePerTarget'
  <2> DEFINE new == [NoNotice EXCEPT !.status = "open", !.target = t]
  <2>1. new \in NoticeRow /\ new.status = "open" /\ new.target = t
    BY DEF NoNotice, NoticeRow, Unresolved, Due
  <2>2. notice \in [Notice -> NoticeRow]
    BY DEF OutboxInv, OutboxTypeOK
  <2>3. notice' \in [Notice -> NoticeRow] /\ notice'[n] = new
        /\ \A m \in Notice : m # n => notice'[m] = notice[m]
    BY <1>2, <2>1, <2>2
  <2> HIDE DEF new
  <2>4. \A u \in Target : u # t => OpenFor(u)' = OpenFor(u)
    BY <2>1, <2>3, <1>2 DEF OpenFor, Unresolved
  <2>5. OpenFor(t)' \subseteq {n}
    BY <2>1, <2>3, <1>2 DEF OpenFor
  <2>6. OneNoticePerTarget'
    BY <2>4, <2>5 DEF OneNoticePerTarget, OutboxInv
  <2> QED
    BY <2>3, <2>6, <1>2
<1> QED
  BY <1>1, <1>2 DEF Raise

LEMMA NeedInv ==
    ASSUME OutboxInv, NEW t \in Target, Need(t)
    PROVE  OutboxInv'
<1>1. SameOutbox /\ raced' = raced /\ call' = call
  BY DEF Need, SameOutbox, outboxHistory
<1>2. Raise(t)
  BY DEF Need
<1>3. /\ notice' \in [Notice -> NoticeRow]
      /\ \A n \in Notice : notice[n].status # "none" => notice'[n] = notice[n]
      /\ OneNoticePerTarget'
  BY <1>1, <1>2, RaiseFacts
<1>4. OutboxTypeOK'
  BY <1>1, <1>3 DEF OutboxInv, OutboxTypeOK, Need, outboxHistory
<1>5. ASSUME NEW p \in Operator PROVE Continues(p) /\ TakenOK(p)' /\ ReportingOK(p)'
  <2>1. Continues(p) /\ OperationOK(p) /\ call[p] \in CallRow
    BY <1>1, TypedRows DEF Continues, OutboxInv
  <2>2. TakenOK(p)'
    BY <2>1, <1>1, <1>3 DEF OperationOK, TakenOK, Unresolved
  <2>3. \A m \in call[p].must : Urgent(m) => Urgent(m)' /\ notice'[m] = notice[m] /\ Sla(m)' = Sla(m)
    BY <2>1, <1>3 DEF Urgent, Unresolved, Sla, CallRow
  <2>4. ReportingOK(p)'
    BY <2>1, <2>3, ReportingKept DEF OperationOK, Continues
  <2> QED
    BY <2>1, <2>2, <2>4
<1> QED
  BY <1>1, <1>3, <1>4, <1>5, NoticeStep

\* Clearing a target resolves its notifications, and no other.
LEMMA ClearFacts ==
    ASSUME OutboxTypeOK, NEW t \in Target, Clear(t)
    PROVE  /\ notice' \in [Notice -> NoticeRow]
           /\ \A n \in Notice \ OpenFor(t) : notice'[n] = notice[n]
           /\ \A n \in OpenFor(t) : notice'[n].status = "resolved" /\ notice'[n].target = t
           /\ OpenFor(t)' = {}
           /\ \A u \in Target : u # t => OpenFor(u)' = OpenFor(u)
<1>1. \A n \in Notice : notice[n] \in NoticeRow
  BY TypedRows
<1>2. \A n \in Notice : [notice[n] EXCEPT !.status = "resolved"] \in NoticeRow
  BY <1>1 DEF NoticeRow
<1>3. notice' \in [Notice -> NoticeRow]
  BY <1>1, <1>2 DEF Clear
<1>4. \A n \in Notice \ OpenFor(t) : notice'[n] = notice[n]
  BY DEF Clear
<1>5. \A n \in OpenFor(t) : notice'[n].status = "resolved" /\ notice'[n].target = t
  BY <1>1 DEF Clear, OpenFor, NoticeRow
<1>6. OpenFor(t)' = {}
  BY <1>4, <1>5 DEF OpenFor, Unresolved
<1>7. ASSUME NEW u \in Target, u # t PROVE OpenFor(u)' = OpenFor(u)
  BY <1>4, <1>5, <1>7 DEF OpenFor, Unresolved
<1> QED
  BY <1>3, <1>4, <1>5, <1>6, <1>7

LEMMA SettleInv ==
    ASSUME OutboxInv, NEW t \in Target, Settle(t)
    PROVE  OutboxInv'
<1>0. OutboxTypeOK /\ Clear(t)
  BY DEF OutboxInv, Settle
<1>1. SameOutbox
  BY DEF Settle, SameOutbox
<1>2. call' \in [Operator -> CallRow]
  BY <1>0, ExcuseType DEF Settle
<1>3. OutboxTypeOK'
  BY <1>0, <1>2, ClearFacts DEF OutboxTypeOK, Settle, CallRow, OpenFor
<1>4. OneNoticePerTarget'
  BY <1>0, <1>1, ClearFacts DEF OneNoticePerTarget, OutboxInv, SameOutbox
<1>5. ASSUME NEW p \in Operator PROVE Continues(p) /\ TakenOK(p)' /\ ReportingOK(p)'
  <2>1. Continues(p) /\ call'[p].must = call[p].must \ OpenFor(t) /\ OperationOK(p)
        /\ call[p] \in CallRow
    BY <1>0, ExcuseContinues, TypedRows DEF OutboxInv, Settle
  <2>2. TakenOK(p)'
    <3> SUFFICES ASSUME call[p].pc \in {"acking", "assigning", "resolving"}, NEW n \in call[p].held
                 PROVE  notice'[n].status \in Unresolved \/ n \in raced'
      BY <2>1 DEF TakenOK, Continues
    <3>1. n \in Notice /\ (notice[n].status \in Unresolved \/ n \in raced)
      BY <2>1 DEF OperationOK, TakenOK
    <3>2. CASE n \in OpenFor(t)
      BY <3>2 DEF Settle
    <3>3. CASE n \notin OpenFor(t)
      BY <1>0, <1>1, <3>1, <3>3, ClearFacts DEF SameOutbox
    <3> QED
      BY <3>2, <3>3
  <2>3. \A m \in call'[p].must : notice'[m] = notice[m] /\ Urgent(m)' = Urgent(m) /\ Sla(m)' = Sla(m)
    <3>1. call'[p].must \subseteq Notice \ OpenFor(t)
      BY <2>1 DEF CallRow
    <3>2. \A m \in call'[p].must : notice'[m] = notice[m]
      BY <1>0, <3>1, ClearFacts
    <3> QED
      BY <3>2 DEF Urgent, Sla
  <2>4. ReportingOK(p)'
    BY <2>1, <2>3, ReportingKept DEF OperationOK
  <2> QED
    BY <2>1, <2>2, <2>4
<1> QED
  BY <1>1, <1>3, <1>4, <1>5, NoticeStep

LEMMA ElapseInv ==
    ASSUME OutboxInv, NEW n \in Notice, Elapse(n)
    PROVE  OutboxInv'
<1>0. OutboxTypeOK /\ notice[n] \in NoticeRow /\ notice \in [Notice -> NoticeRow]
  BY TypedRows DEF OutboxInv, OutboxTypeOK
<1>1. SameOutbox /\ raced' = raced
  BY DEF Elapse, SameOutbox, outboxHistory
<1>2. PICK due \in Due : notice' = [notice EXCEPT ![n].due = due]
  BY DEF Elapse, Due
<1>3. \A m \in Notice : notice'[m].status = notice[m].status /\ notice'[m].target = notice[m].target
  BY <1>0, <1>2 DEF NoticeRow
<1>7. notice' \in [Notice -> NoticeRow] /\ \A m \in Notice : m # n => notice'[m] = notice[m]
  BY <1>0, <1>2 DEF NoticeRow
<1>4. OutboxTypeOK'
  BY <1>0, <1>7, ExcuseType DEF OutboxTypeOK, Elapse, outboxHistory, CallRow
<1>5. OneNoticePerTarget'
  BY <1>1, <1>3 DEF OneNoticePerTarget, OutboxInv, OpenFor
<1>6. ASSUME NEW p \in Operator PROVE Continues(p) /\ TakenOK(p)' /\ ReportingOK(p)'
  <2>1. Continues(p) /\ call'[p].must = call[p].must \ {n} /\ OperationOK(p) /\ call[p] \in CallRow
    BY <1>0, ExcuseContinues, TypedRows DEF OutboxInv, Elapse
  <2>2. TakenOK(p)'
    <3> SUFFICES ASSUME call[p].pc \in {"acking", "assigning", "resolving"}, NEW m \in call[p].held
                 PROVE  notice'[m].status \in Unresolved \/ m \in raced'
      BY <2>1 DEF TakenOK, Continues
    <3>1. m \in Notice /\ (notice[m].status \in Unresolved \/ m \in raced)
      BY <2>1 DEF OperationOK, TakenOK
    <3>2. notice'[m].status = notice[m].status
      BY <3>1, <1>3
    <3> QED
      BY <3>1, <3>2, <1>1
  <2>3. \A m \in call'[p].must : notice'[m] = notice[m] /\ Urgent(m)' = Urgent(m) /\ Sla(m)' = Sla(m)
    BY <1>7, <2>1 DEF Urgent, Sla, CallRow
  <2>4. ReportingOK(p)'
    BY <2>1, <2>3, ReportingKept DEF OperationOK
  <2> QED
    BY <2>1, <2>2, <2>4
<1> QED
  BY <1>1, <1>4, <1>5, <1>6, NoticeStep

\* A commit on a notification by o leaves what the others hold, and reports who overlapped.
LEMMA RacesFacts ==
    ASSUME NEW o \in Operator, NEW T, Races(o, T)
    PROVE  /\ raced \subseteq raced'
           /\ \A p \in Operator : p # o => call[p].held \cap T \subseteq raced'
           /\ T \subseteq Notice \cup Delivery /\ OutboxTypeOK => raced' \subseteq Notice \cup Delivery
  BY DEF Races, OutboxTypeOK

LEMMA AckCommitInv ==
    ASSUME OutboxInv, NEW o \in Operator, AckCommit(o)
    PROVE  OutboxInv'
<1>0. OutboxTypeOK /\ OperationOK(o)
  BY DEF OutboxInv
<1>1. PICK n \in call[o].held :
        /\ call[o].pc = "acking"
        /\ notice' = [notice EXCEPT ![n].status = "acknowledged"]
        /\ Races(o, {n}) /\ Sets(o, Quiet) /\ UNCHANGED <<delivery, tries, arrived, again>>
  BY DEF AckCommit
<1>2. n \in Notice /\ (notice[n].status \in Unresolved \/ n \in raced)
  BY <1>0, <1>1 DEF OperationOK, TakenOK
<1>3. notice \in [Notice -> NoticeRow]
  BY <1>0 DEF OutboxTypeOK
<1>4. notice' \in [Notice -> NoticeRow] /\ notice'[n].status = "acknowledged"
      /\ notice'[n].due = notice[n].due /\ notice'[n].target = notice[n].target
  BY <1>1, <1>2, <1>3 DEF NoticeRow, Unresolved
<1>5. \A m \in Notice : m # n => notice'[m] = notice[m]
  BY <1>1, <1>2, <1>3
<1>6. SameOutbox
  BY <1>1, RacesFacts DEF SameOutbox
<1>7. /\ call'[o] = Quiet /\ call' \in [Operator -> CallRow]
      /\ \A p \in Operator : p # o => call'[p] = call[p]
  BY <1>0, <1>1, RowTypes, SetsType
<1>8. OutboxTypeOK'
  <2>1. raced' \subseteq Notice \cup Delivery
    BY <1>0, <1>1, <1>2, RacesFacts
  <2> QED
    BY <1>0, <1>1, <1>4, <1>7, <2>1 DEF OutboxTypeOK, CallRow
<1>9. OneNoticePerTarget'
  <2>1. \A t \in Target : OpenFor(t)' \ raced' \subseteq OpenFor(t) \ raced
    <3>1. raced \subseteq raced'
      BY <1>6 DEF SameOutbox
    <3> QED
      BY <1>2, <1>4, <1>5, <3>1 DEF OpenFor
  <2> QED
    BY <2>1 DEF OneNoticePerTarget, OutboxInv
<1>10. ASSUME NEW p \in Operator, p # o
       PROVE  Continues(p) /\ TakenOK(p)' /\ ReportingOK(p)'
  <2>1. Continues(p) /\ OperationOK(p) /\ call[p] \in CallRow
    BY <1>0, <1>7, <1>10, TypedRows DEF Continues, OutboxInv
  <2>2. TakenOK(p)'
    <3> SUFFICES ASSUME call[p].pc \in {"acking", "assigning", "resolving"}, NEW m \in call[p].held
                 PROVE  notice'[m].status \in Unresolved \/ m \in raced'
      BY <2>1 DEF TakenOK, Continues
    <3>1. m \in Notice /\ (notice[m].status \in Unresolved \/ m \in raced)
      BY <2>1 DEF OperationOK, TakenOK
    <3>2. CASE m = n
      BY <3>2, <1>4 DEF Unresolved
    <3>3. CASE m # n
      BY <3>1, <3>3, <1>5, <1>6 DEF SameOutbox
    <3> QED
      BY <3>2, <3>3
  <2>3. \A m \in call[p].must : m \in Notice
    BY <2>1 DEF CallRow
  <2>4. ASSUME NEW m \in call[p].must, Urgent(m)
        PROVE  /\ Urgent(m)' /\ Sla(m)' = Sla(m)
               /\ notice[m].status = "acknowledged" => notice'[m].status = "acknowledged"
               /\ notice'[m].status \in {notice[m].status, "acknowledged"}
    <3>1. CASE m = n
      BY <2>3, <2>4, <3>1, <1>4 DEF Urgent, Unresolved, Sla
    <3>2. CASE m # n
      <4>1. notice'[m] = notice[m]
        BY <2>3, <3>2, <1>5
      <4> QED
        BY <4>1, <2>4 DEF Urgent, Sla
    <3> QED
      BY <3>1, <3>2
  <2>5. ReportingOK(p)'
    BY <2>1, <2>4, ReportingKept DEF OperationOK, Continues
  <2> QED
    BY <2>1, <2>2, <2>5
<1> QED
  BY <1>6, <1>7, <1>8, <1>9, <1>10, NoticeStep

\* A commit that replaces the due date, or the status by resolved: what every report may not
\* miss no longer has the row.
LEMMA ExcusedCommit ==
    ASSUME OutboxInv, NEW o \in Operator, NEW n \in Notice, NEW row \in NoticeRow,
           row.target = notice[n].target, row.status \in {notice[n].status, "resolved"},
           notice' = [notice EXCEPT ![n] = row],
           Races(o, {n}), call' = [Excuse({n}) EXCEPT ![o] = Quiet],
           UNCHANGED <<delivery, tries, arrived, again>>
    PROVE  OutboxInv'
<1>0. OutboxTypeOK /\ notice \in [Notice -> NoticeRow]
  BY DEF OutboxInv, OutboxTypeOK
<1>1. notice' \in [Notice -> NoticeRow] /\ notice'[n] = row
  BY <1>0
<1>2. \A m \in Notice : m # n => notice'[m] = notice[m]
  BY <1>0
<1>3. SameOutbox
  BY RacesFacts DEF SameOutbox
<1>4. Excuse({n}) \in [Operator -> CallRow]
  BY <1>0, ExcuseType
<1>5. call' \in [Operator -> CallRow] /\ call'[o] = Quiet
      /\ \A p \in Operator : p # o => call'[p] = Excuse({n})[p]
  BY <1>4, RowTypes
<1>6. OutboxTypeOK'
  <2>1. raced' \subseteq Notice \cup Delivery
    BY <1>0, RacesFacts
  <2> QED
    BY <1>0, <1>1, <1>5, <2>1 DEF OutboxTypeOK, CallRow
<1>7. OneNoticePerTarget'
  <2>1. \A t \in Target : OpenFor(t)' \ raced' \subseteq OpenFor(t) \ raced
    <3>1. raced \subseteq raced'
      BY <1>3 DEF SameOutbox
    <3> QED
      BY <1>1, <1>2, <3>1 DEF OpenFor, Unresolved
  <2> QED
    BY <2>1 DEF OneNoticePerTarget, OutboxInv
<1>8. ASSUME NEW p \in Operator, p # o
      PROVE  Continues(p) /\ TakenOK(p)' /\ ReportingOK(p)'
  <2>1. /\ Continues(p) /\ call'[p].must = call[p].must \ {n} /\ OperationOK(p)
        /\ call[p] \in CallRow
    BY <1>0, <1>5, <1>8, ExcuseContinues, TypedRows DEF OutboxInv
  <2>2. TakenOK(p)'
    <3> SUFFICES ASSUME call[p].pc \in {"acking", "assigning", "resolving"}, NEW m \in call[p].held
                 PROVE  notice'[m].status \in Unresolved \/ m \in raced'
      BY <2>1 DEF TakenOK, Continues
    <3>1. m \in Notice /\ (notice[m].status \in Unresolved \/ m \in raced)
      BY <2>1 DEF OperationOK, TakenOK
    <3>2. CASE m = n
      BY <3>2, <1>8, RacesFacts
    <3>3. CASE m # n
      BY <3>1, <3>3, <1>2, <1>3 DEF SameOutbox
    <3> QED
      BY <3>2, <3>3
  <2>3. \A m \in call'[p].must : notice'[m] = notice[m]
    BY <2>1, <1>2 DEF CallRow
  <2>4. ReportingOK(p)'
    <3>1. \A m \in call'[p].must : Sla(m)' = Sla(m) /\ Urgent(m)' = Urgent(m)
      BY <2>3 DEF Sla, Urgent
    <3> QED
      BY <2>1, <2>3, <3>1, ReportingKept DEF OperationOK
  <2> QED
    BY <2>1, <2>2, <2>4
<1> QED
  BY <1>3, <1>5, <1>6, <1>7, <1>8, NoticeStep

LEMMA AssignCommitInv ==
    ASSUME OutboxInv, NEW o \in Operator, NEW due \in Due, AssignCommit(o, due)
    PROVE  OutboxInv'
<1>1. PICK n \in call[o].held :
        /\ call[o].pc = "assigning"
        /\ notice' = [notice EXCEPT ![n].due = due]
        /\ Races(o, {n}) /\ call' = [Excuse({n}) EXCEPT ![o] = Quiet]
        /\ UNCHANGED <<delivery, tries, arrived, again>>
  BY DEF AssignCommit
<1>2. n \in Notice
  BY <1>1 DEF OperationOK, OutboxInv
<1>3. notice[n] \in NoticeRow
  BY <1>2, TypedRows DEF OutboxInv
<1> DEFINE row == [notice[n] EXCEPT !.due = due]
<1>4. row \in NoticeRow /\ row.target = notice[n].target /\ row.status = notice[n].status
  BY <1>3 DEF NoticeRow
<1>5. notice' = [notice EXCEPT ![n] = row]
  BY <1>1
<1> HIDE DEF row
<1>6. PICK r \in NoticeRow : r = row
  BY <1>4
<1> QED
  BY <1>1, <1>2, <1>4, <1>5, <1>6, ExcusedCommit

LEMMA ResolveCommitInv ==
    ASSUME OutboxInv, NEW o \in Operator, ResolveCommit(o)
    PROVE  OutboxInv'
<1>1. PICK n \in call[o].held :
        /\ call[o].pc = "resolving"
        /\ notice' = [notice EXCEPT ![n].status = "resolved"]
        /\ Races(o, {n}) /\ call' = [Excuse({n}) EXCEPT ![o] = Quiet]
        /\ UNCHANGED <<delivery, tries, arrived, again>>
  BY DEF ResolveCommit
<1>2. n \in Notice
  BY <1>1 DEF OperationOK, OutboxInv
<1>3. notice[n] \in NoticeRow
  BY <1>2, TypedRows DEF OutboxInv
<1> DEFINE row == [notice[n] EXCEPT !.status = "resolved"]
<1>4. row \in NoticeRow /\ row.target = notice[n].target /\ row.status = "resolved"
  BY <1>3 DEF NoticeRow
<1>5. notice' = [notice EXCEPT ![n] = row]
  BY <1>1
<1> HIDE DEF row
<1>6. PICK r \in NoticeRow : r = row
  BY <1>4
<1> QED
  BY <1>1, <1>2, <1>4, <1>5, <1>6, ExcusedCommit

----------------------------------------------------------------------------
(* Steps that only read. *)

LEMMA TakeNoticeInv ==
    ASSUME OutboxInv, NEW o \in Operator, NEW n \in Notice,
           NEW what \in {"acking", "assigning", "resolving"}, TakeNotice(o, n, what)
    PROVE  OutboxInv'
<1> DEFINE r == [Quiet EXCEPT !.pc = what, !.held = {n}]
<1>1. r \in CallRow /\ r.pc = what /\ r.held = {n}
  BY RowTypes DEF CallRow, Quiet, Calls
<1>2. Sets(o, r) /\ UNCHANGED <<outboxRows, outboxHistory>> /\ notice[n].status \in Unresolved
  BY DEF TakeNotice
<1> HIDE DEF r
<1>3. call'[o] = r
  BY <1>1, <1>2, SetsType DEF OutboxInv
<1>4. OperationOK(o)'
  BY <1>1, <1>2, <1>3 DEF OperationOK, TakenOK, LookedUpOK, MarkingOK, ReportingOK, outboxRows
<1>5. PICK s \in CallRow : s = r
  BY <1>1
<1> QED
  BY <1>2, <1>4, <1>5, CallOnly

\* A listing is of rows there are; one of a class that looked at all rows of its status is
\* full, or has all of the class.
LEMMA ListingFacts ==
    ASSUME NEW status, NEW class, NEW listed \in Listings(status, class)
    PROVE  /\ listed \subseteq Notice
           /\ class # "" /\ Cardinality(InStatus(status)) <= Window =>
                Cardinality(listed) >= Cut \/ {n \in InStatus(status) : Sla(n) = class} \subseteq listed
<1>1. \A S, k : \A T \in Firsts(S, k) : T \subseteq S /\ (T = S \/ Cardinality(T) = k)
  BY DEF Firsts
<1>2. InStatus(status) \subseteq Notice
  BY DEF InStatus
<1>3. CASE class = ""
  BY <1>1, <1>2, <1>3 DEF Listings
<1>4. CASE class # ""
  <2>1. PICK rows \in Firsts(InStatus(status), Window) :
          listed \in Firsts({n \in rows : Sla(n) = class}, Cut)
    BY <1>4 DEF Listings
  <2>2. /\ rows \subseteq InStatus(status) /\ listed \subseteq rows
        /\ listed = {n \in rows : Sla(n) = class} \/ Cardinality(listed) = Cut
    BY <1>1, <2>1
  <2>3. Cardinality(InStatus(status)) <= Window => rows = InStatus(status)
    BY <2>1 DEF Firsts
  <2>4. Cut >= Cut
    BY ListingAssumption
  <2> QED
    BY <1>2, <2>2, <2>3, <2>4
<1> QED
  BY <1>3, <1>4

LEMMA EnqueueListInv ==
    ASSUME OutboxInv, NEW o \in Operator, NEW status, NEW class, NEW dedupe \in BOOLEAN,
           EnqueueList(o, status, class, dedupe)
    PROVE  OutboxInv'
<1>0. PICK listed \in Listings(status, class) :
        Sets(o, [Quiet EXCEPT !.pc = "listed", !.todo = listed, !.dedupe = dedupe])
  BY DEF EnqueueList
<1> DEFINE r == [Quiet EXCEPT !.pc = "listed", !.todo = listed, !.dedupe = dedupe]
<1>1. r \in CallRow /\ r.pc = "listed" /\ r.held = {}
  BY RowTypes, ListingFacts DEF CallRow, Quiet, Calls
<1>2. Sets(o, r) /\ UNCHANGED <<outboxRows, outboxHistory>>
  BY <1>0 DEF EnqueueList
<1> HIDE DEF r
<1>3. call'[o] = r
  BY <1>1, <1>2, SetsType DEF OutboxInv
<1>4. OperationOK(o)'
  BY <1>1, <1>3 DEF OperationOK, TakenOK, LookedUpOK, MarkingOK, ReportingOK
<1>5. PICK s \in CallRow : s = r
  BY <1>1
<1> QED
  BY <1>2, <1>4, <1>5, CallOnly

LEMMA QuietInv ==
    ASSUME OutboxInv, NEW o \in Operator, Sets(o, Quiet), UNCHANGED <<outboxRows, outboxHistory>>
    PROVE  OutboxInv'
<1>1. Quiet \in CallRow
  BY RowTypes
<1>2. call'[o] = Quiet
  BY <1>1, SetsType DEF OutboxInv
<1>3. OperationOK(o)'
  BY <1>2, QuietOperation
<1>4. PICK s \in CallRow : s = Quiet
  BY <1>1
<1> QED
  BY <1>3, <1>4, CallOnly

LEMMA EnqueueCheckInv ==
    ASSUME OutboxInv, NEW o \in Operator, NEW n \in Notice, EnqueueCheck(o, n)
    PROVE  OutboxInv'
<1>0. call[o] \in CallRow /\ UNCHANGED <<outboxRows, outboxHistory>>
  BY TypedRows DEF OutboxInv, EnqueueCheck
<1>1. CASE Sets(o, Quiet)
  BY <1>0, <1>1, QuietInv
<1>2. CASE Sets(o, [call[o] EXCEPT !.todo = @ \ {n}])
  <2> DEFINE r == [call[o] EXCEPT !.todo = @ \ {n}]
  <2>1. r \in CallRow /\ r.pc = "listed" /\ r.held = call[o].held
    BY <1>0 DEF CallRow, EnqueueCheck
  <2> HIDE DEF r
  <2>2. Sets(o, r)
    BY <1>2 DEF r
  <2>3. call'[o] = r
    BY <2>1, <2>2, SetsType DEF OutboxInv
  <2>4. call[o].pc = "listed" /\ OperationOK(o)
    BY DEF EnqueueCheck, OutboxInv
  <2>5. OperationOK(o)'
    BY <2>1, <2>3, <2>4 DEF OperationOK, TakenOK, LookedUpOK, MarkingOK, ReportingOK
  <2>6. PICK s \in CallRow : s = r
    BY <2>1
  <2> QED
    BY <1>0, <2>2, <2>5, <2>6, CallOnly
<1>3. CASE /\ Sets(o, [call[o] EXCEPT !.pc = "inserting", !.held = {n}, !.todo = @ \ {n}])
           /\ ~(call[o].dedupe /\ LiveFor(n) # {})
  <2> DEFINE r == [call[o] EXCEPT !.pc = "inserting", !.held = {n}, !.todo = @ \ {n}]
  <2>1. r \in CallRow /\ r.pc = "inserting" /\ r.held = {n} /\ r.dedupe = call[o].dedupe
    BY <1>0 DEF CallRow, Calls
  <2> HIDE DEF r
  <2>2. Sets(o, r)
    BY <1>3 DEF r
  <2>3. call'[o] = r
    BY <2>1, <2>2, SetsType DEF OutboxInv
  <2>4. r.dedupe = TRUE => LiveFor(n)' = {}
    BY <1>0, <1>3, <2>1 DEF LiveFor, outboxRows
  <2>5. OperationOK(o)'
    BY <2>1, <2>3, <2>4 DEF OperationOK, TakenOK, LookedUpOK, MarkingOK, ReportingOK
  <2>6. PICK s \in CallRow : s = r
    BY <2>1
  <2> QED
    BY <1>0, <2>2, <2>5, <2>6, CallOnly
<1> QED
  BY <1>1, <1>2, <1>3 DEF EnqueueCheck

LEMMA MarkReadInv ==
    ASSUME OutboxInv, NEW o \in Operator, NEW d \in Delivery, MarkRead(o, d)
    PROVE  OutboxInv'
<1> DEFINE r == [Quiet EXCEPT !.pc = "marking", !.held = {d}, !.attempts = delivery[d].attempts,
                              !.delivered = delivery[d].delivered]
<1>0. delivery[d] \in DeliveryRow
  BY TypedRows DEF OutboxInv
<1>1. /\ r \in CallRow /\ r.pc = "marking" /\ r.held = {d}
      /\ r.attempts = delivery[d].attempts /\ r.delivered = delivery[d].delivered
  BY <1>0, RowTypes DEF CallRow, Quiet, Calls, DeliveryRow
<1>2. Sets(o, r) /\ UNCHANGED <<outboxRows, outboxHistory>> /\ delivery[d].status # "none"
  BY DEF MarkRead
<1> HIDE DEF r
<1>3. call'[o] = r
  BY <1>1, <1>2, SetsType DEF OutboxInv
<1>4. OperationOK(o)'
  BY <1>1, <1>2, <1>3 DEF OperationOK, TakenOK, LookedUpOK, MarkingOK, ReportingOK, outboxRows
<1>5. PICK s \in CallRow : s = r
  BY <1>1
<1> QED
  BY <1>2, <1>4, <1>5, CallOnly

\* What is urgent and what a listing has that took in all rows of its status.
LEMMA ListedFacts ==
    ASSUME NEW status \in Unresolved, NEW class \in {"overdue", "due_soon"},
           NEW listed \in Listings(status, class), Cardinality(InStatus(status)) <= Window,
           ~(Cardinality(listed) >= Cut)
    PROVE  \A n \in Notice : Urgent(n) /\ Sla(n) = class => n \in listed \/ notice[n].status # status
<1>1. \A n \in Notice : notice[n].status = status => n \in InStatus(status)
  BY DEF InStatus, Unresolved
<1> QED
  BY <1>1, ListingFacts DEF Urgent

\* A set of notifications that has a full one in it is full.
LEMMA FullGrows ==
    ASSUME NEW S \in SUBSET Notice, NEW T \in SUBSET S, Cardinality(T) >= Cut
    PROVE  Cardinality(S) >= Cut
<1>1. IsFiniteSet(S) /\ IsFiniteSet(T) /\ Cardinality(T) <= Cardinality(S)
  BY ListingAssumption, FS_Subset
<1>2. Cardinality(S) \in Nat /\ Cardinality(T) \in Nat /\ Cut \in Nat
  BY <1>1, FS_CardinalityType, ListingAssumption
<1> QED
  BY <1>1, <1>2

LEMMA ReportFirstInv ==
    ASSUME OutboxInv, NEW o \in Operator, ReportFirst(o)
    PROVE  OutboxInv'
<1>0. PICK listed \in Listings("open", "overdue") :
        Sets(o, [Quiet EXCEPT !.pc = "report2", !.todo = listed, !.late = listed,
                              !.must = {n \in Notice : Urgent(n)},
                              !.whole = Cardinality(InStatus("open")) <= Window])
  BY DEF ReportFirst
<1> DEFINE r == [Quiet EXCEPT !.pc = "report2", !.todo = listed, !.late = listed,
                              !.must = {n \in Notice : Urgent(n)},
                              !.whole = Cardinality(InStatus("open")) <= Window]
<1>1. /\ r \in CallRow /\ r.pc = "report2" /\ r.held = {} /\ r.todo = listed /\ r.late = listed
      /\ r.must = {n \in Notice : Urgent(n)}
      /\ r.whole = (Cardinality(InStatus("open")) <= Window)
  <2>1. listed \subseteq Notice /\ {n \in Notice : Urgent(n)} \subseteq Notice
    BY ListingFacts
  <2> DEFINE M == {n \in Notice : Urgent(n)}
             w == Cardinality(InStatus("open")) <= Window
             q == [Quiet EXCEPT !.pc = "report2", !.todo = listed, !.late = listed, !.must = M,
                                !.whole = w]
  <2>2. r = q
    OBVIOUS
  <2>3. M \in SUBSET Notice /\ w \in BOOLEAN
    OBVIOUS
  <2>4. M = {n \in Notice : Urgent(n)} /\ w = (Cardinality(InStatus("open")) <= Window)
    OBVIOUS
  <2> HIDE DEF M, w, r
  <2>5. /\ q \in CallRow /\ q.pc = "report2" /\ q.held = {} /\ q.todo = listed
        /\ q.late = listed /\ q.must = M /\ q.whole = w
    BY <2>1, <2>3, RowTypes DEF CallRow, Quiet, Calls
  <2> HIDE DEF q
  <2> QED
    BY <2>2, <2>4, <2>5, Zenon
<1>2. Sets(o, r) /\ UNCHANGED <<outboxRows, outboxHistory>>
  BY <1>0 DEF ReportFirst
<1> HIDE DEF r
<1>3. call'[o] = r /\ notice' = notice
  BY <1>1, <1>2, SetsType DEF OutboxInv, outboxRows
<1>4. \A m \in r.must : Urgent(m)' /\ Sla(m)' = Sla(m)
  BY <1>1, <1>3 DEF Urgent, Sla
<1>5. r.whole = TRUE => LateOK(o, {"acknowledged"})'
  <2> SUFFICES ASSUME r.whole = TRUE, ~(Cardinality(listed) >= Cut), NEW m \in r.must,
                      Sla(m) = "overdue", m \notin listed
               PROVE  notice[m].status = "acknowledged"
    BY <1>1, <1>3, <1>4 DEF LateOK
  <2>1. "open" \in Unresolved /\ m \in Notice /\ Urgent(m)
    BY <1>1 DEF Unresolved
  <2>2. notice[m].status # "open"
    BY <1>1, <2>1, ListedFacts
  <2> QED
    BY <2>1, <2>2 DEF Urgent, Unresolved
<1>6. ReportingOK(o)'
  BY <1>1, <1>3, <1>4, <1>5 DEF ReportingOK
<1>7. OperationOK(o)'
  BY <1>1, <1>3, <1>6 DEF OperationOK, TakenOK, LookedUpOK, MarkingOK
<1>8. PICK s \in CallRow : s = r
  BY <1>1
<1> QED
  BY <1>2, <1>7, <1>8, CallOnly

\* A report with one more listing.
LEMMA ExtendedFacts ==
    ASSUME NEW r \in CallRow, NEW status, NEW class \in {"overdue", "due_soon"},
           NEW listed \in Listings(status, class), r.late \subseteq r.todo
    PROVE  LET e == Extended(r, class, listed) IN
           /\ e \in CallRow /\ e.held = r.held /\ e.must = r.must /\ e.whole = r.whole
           /\ e.todo = r.todo \cup listed /\ e.late \subseteq e.todo /\ r.late \subseteq e.late
           /\ class = "due_soon" => e.late = r.late
           /\ class = "overdue" /\ listed \cap r.todo \subseteq r.late => listed \subseteq e.late
<1>1. listed \subseteq Notice
  BY ListingFacts
<1> QED
  BY <1>1 DEF CallRow, Extended

LEMMA ReportMoreInv ==
    ASSUME OutboxInv, NEW o \in Operator, NEW pc, NEW status, NEW class, NEW next,
           <<pc, status, class, next>> \in {<<"report2", "open", "due_soon", "report3">>,
              <<"report3", "acknowledged", "overdue", "report4">>},
           ReportMore(o, pc, status, class, next)
    PROVE  OutboxInv'
<1>0. /\ call[o] \in CallRow /\ OperationOK(o) /\ ReportingOK(o) /\ call[o].pc = pc
      /\ next \in Calls /\ class \in {"overdue", "due_soon"} /\ status \in Unresolved
  BY TypedRows DEF OutboxInv, OperationOK, ReportMore, Calls, Unresolved
<1> DEFINE now(listed) ==
      [Extended(call[o], class, listed) EXCEPT
         !.pc = next, !.whole = @ /\ InFull(call[o], status, class, listed)]
<1>1. PICK listed \in Listings(status, class) : Sets(o, now(listed))
  BY DEF ReportMore
<1> DEFINE e == Extended(call[o], class, listed)
           r == now(listed)
<1>2. call[o].late \subseteq call[o].todo /\ \A m \in call[o].must : m \in Notice /\ Urgent(m)
  BY <1>0 DEF ReportingOK, CallRow
<1>3. /\ e \in CallRow /\ e.held = call[o].held /\ e.must = call[o].must
      /\ e.whole = call[o].whole
      /\ e.todo = call[o].todo \cup listed /\ e.late \subseteq e.todo /\ call[o].late \subseteq e.late
      /\ class = "due_soon" => e.late = call[o].late
      /\ class = "overdue" /\ listed \cap call[o].todo \subseteq call[o].late
           => listed \subseteq e.late
  BY <1>0, <1>2, ExtendedFacts
<1>4. /\ r \in CallRow /\ r.pc = next /\ r.held = e.held /\ r.must = e.must
      /\ r.todo = e.todo /\ r.late = e.late
      /\ r.whole = (call[o].whole /\ InFull(call[o], status, class, listed))
  <2> HIDE DEF e
  <2>1. ASSUME NEW w \in BOOLEAN
        PROVE  LET q == [e EXCEPT !.pc = next, !.whole = w]
               IN  /\ q \in CallRow /\ q.pc = next /\ q.held = e.held /\ q.must = e.must
                   /\ q.todo = e.todo /\ q.late = e.late /\ q.whole = w
    BY <1>0, <1>3 DEF CallRow
  <2>2. (e.whole /\ InFull(call[o], status, class, listed)) \in BOOLEAN
    OBVIOUS
  <2>3. r = [e EXCEPT !.pc = next, !.whole = (e.whole /\ InFull(call[o], status, class, listed))]
    BY DEF e
  <2> HIDE DEF r
  <2> QED
    BY <1>3, <2>1, <2>2, <2>3, Zenon
<1>5. Sets(o, r) /\ UNCHANGED <<outboxRows, outboxHistory>>
  BY <1>1 DEF ReportMore
<1> HIDE DEF r, e
<1>6. call'[o] = r /\ notice' = notice
  BY <1>4, <1>5, SetsType DEF OutboxInv, outboxRows
<1>7. \A m \in r.must : Urgent(m)' /\ Urgent(m) /\ m \in Notice /\ Sla(m)' = Sla(m)
  BY <1>2, <1>3, <1>4, <1>6 DEF Urgent, Sla
<1>8. r.whole = TRUE => /\ Cardinality(InStatus(status)) <= Window
                        /\ class = "overdue" => listed \subseteq r.late
                        /\ call[o].whole = TRUE
  BY <1>0, <1>3, <1>4 DEF InFull, CallRow
<1>9. r.late \subseteq r.todo /\ r.todo \subseteq Notice
  BY <1>3, <1>4 DEF CallRow
<1>10. ASSUME r.whole = TRUE, ~(Cardinality(listed) >= Cut), NEW m \in r.must, Sla(m) = class
       PROVE  m \in listed \/ notice[m].status # status
  BY <1>0, <1>7, <1>8, <1>10, ListedFacts
<1>14. /\ call'[o].pc = next /\ call'[o].late \subseteq call'[o].todo
       /\ \A m \in call'[o].must : Urgent(m)'
       /\ call'[o].whole = r.whole
  BY <1>4, <1>6, <1>7, <1>9
<1>11. ASSUME next = "report3" PROVE ReportingOK(o)'
  <2>0. class = "due_soon" /\ status = "open" /\ pc = "report2"
    BY <1>11
  <2>1. r.whole = TRUE => LateOK(o, {"acknowledged"})'
    BY <1>0, <1>3, <1>4, <1>6, <1>7, <1>8, <2>0 DEF ReportingOK, LateOK
  <2>2. ASSUME r.whole = TRUE PROVE SoonOK(o, {"acknowledged"})'
    <3>1. CASE Cardinality(listed) >= Cut
      <4>1. Cardinality(r.todo) >= Cut
        BY <1>3, <1>4, <1>9, <3>1, FullGrows
      <4> QED
        BY <4>1, <1>6 DEF SoonOK
    <3>2. CASE ~(Cardinality(listed) >= Cut)
      <4>1. \A m \in r.must : Sla(m) = "due_soon" =>
              m \in r.todo \/ notice[m].status = "acknowledged"
        BY <1>3, <1>4, <1>7, <1>10, <2>0, <2>2, <3>2 DEF Urgent, Unresolved
      <4> QED
        BY <4>1, <1>6, <1>7 DEF SoonOK
    <3> QED
      BY <3>1, <3>2
  <2> QED
    BY <1>6, <1>11, <1>14, <2>1, <2>2 DEF ReportingOK
<1>12. ASSUME next = "report4" PROVE ReportingOK(o)'
  <2>0. class = "overdue" /\ status = "acknowledged" /\ pc = "report3"
    BY <1>12
  <2>1. ASSUME r.whole = TRUE PROVE SoonOK(o, {"acknowledged"})'
    <3>1. SoonOK(o, {"acknowledged"})
      BY <1>0, <1>8, <2>0, <2>1 DEF ReportingOK
    <3>2. Cardinality(call[o].todo) >= Cut => Cardinality(r.todo) >= Cut
      BY <1>3, <1>4, <1>9, FullGrows
    <3> QED
      BY <1>3, <1>4, <1>6, <1>7, <3>1, <3>2 DEF SoonOK
  <2>2. ASSUME r.whole = TRUE PROVE LateOK(o, {})'
    <3>1. LateOK(o, {"acknowledged"})
      BY <1>0, <1>8, <2>0, <2>2 DEF ReportingOK
    <3>2. r.late \in SUBSET Notice
      BY <1>9
    <3>3. CASE Cardinality(listed) >= Cut \/ Cardinality(call[o].late) >= Cut
      <4>1. listed \subseteq r.late /\ call[o].late \subseteq r.late
        BY <1>3, <1>4, <1>8, <2>0, <2>2
      <4>2. Cardinality(r.late) >= Cut
        BY <3>2, <3>3, <4>1, FullGrows
      <4> QED
        BY <4>2, <1>6 DEF LateOK
    <3>4. CASE ~(Cardinality(listed) >= Cut) /\ ~(Cardinality(call[o].late) >= Cut)
      <4>1. \A m \in r.must : Sla(m) = "overdue" => m \in r.late
        BY <1>3, <1>4, <1>8, <1>10, <2>0, <2>2, <3>1, <3>4 DEF LateOK
      <4> QED
        BY <4>1, <1>6, <1>7 DEF LateOK
    <3> QED
      BY <3>3, <3>4
  <2> QED
    BY <1>6, <1>12, <1>14, <2>1, <2>2 DEF ReportingOK
<1>13. ReportingOK(o)' /\ pc # "marking" /\ next \in {"report3", "report4"}
  BY <1>11, <1>12
<1>16. OperationOK(o)'
  BY <1>0, <1>3, <1>4, <1>6, <1>13 DEF OperationOK, TakenOK, LookedUpOK, MarkingOK
<1>15. PICK s \in CallRow : s = r
  BY <1>4
<1> QED
  BY <1>5, <1>15, <1>16, CallOnly

LEMMA ReportLastInv ==
    ASSUME OutboxInv, NEW o \in Operator, ReportLast(o, "due_soon")
    PROVE  OutboxInv'
<1>0. call[o] \in CallRow /\ OperationOK(o) /\ ReportingOK(o) /\ call[o].pc = "report4"
  BY TypedRows DEF OutboxInv, OperationOK, ReportLast
<1> DEFINE ext(listed) == Extended(call[o], "due_soon", listed)
           now(listed, heads) ==
             [ext(listed) EXCEPT
                !.pc = "reported", !.todo = heads,
                !.whole = @ /\ InFull(call[o], "acknowledged", "due_soon", listed)]
<1> DEFINE Made(listed, heads) ==
             /\ heads \subseteq ext(listed).late \/ ext(listed).late \subseteq heads
             /\ Sets(o, now(listed, heads))
<1>20. PICK listed \in Listings("acknowledged", "due_soon") :
         \E heads \in Firsts(ext(listed).todo, Cut) : Made(listed, heads)
  BY DEF ReportLast
<1>1. PICK heads \in Firsts(ext(listed).todo, Cut) : Made(listed, heads)
  BY <1>20
<1> DEFINE e == ext(listed)
           r == now(listed, heads)
<1>2. call[o].late \subseteq call[o].todo /\ \A m \in call[o].must : m \in Notice /\ Urgent(m)
  BY <1>0 DEF ReportingOK, CallRow
<1>3. /\ e \in CallRow /\ e.held = call[o].held /\ e.must = call[o].must
      /\ e.whole = call[o].whole
      /\ e.todo = call[o].todo \cup listed /\ e.late = call[o].late
  BY <1>0, <1>2, ExtendedFacts
<1>4. heads \subseteq e.todo /\ (heads = e.todo \/ Cardinality(heads) = Cut)
  BY <1>1 DEF Firsts
<1>5. /\ r \in CallRow /\ r.pc = "reported" /\ r.held = e.held /\ r.must = e.must
      /\ r.todo = heads /\ r.late = e.late
      /\ r.whole = (call[o].whole /\ InFull(call[o], "acknowledged", "due_soon", listed))
  <2>1. heads \in SUBSET Notice /\ "reported" \in Calls
    BY <1>3, <1>4 DEF CallRow, Calls
  <2> HIDE DEF ext
  <2> QED
    BY <1>0, <1>3, <2>1 DEF CallRow
<1>6. Sets(o, r) /\ UNCHANGED <<outboxRows, outboxHistory>>
  BY <1>1 DEF ReportLast
<1>7. heads \subseteq e.late \/ e.late \subseteq heads
  BY <1>1
<1> HIDE DEF r, e
<1>8. call'[o] = r /\ notice' = notice
  BY <1>5, <1>6, SetsType DEF OutboxInv, outboxRows
<1>9. \A m \in r.must : Urgent(m)' /\ Urgent(m) /\ m \in Notice /\ Sla(m)' = Sla(m)
  BY <1>2, <1>3, <1>5, <1>8 DEF Urgent, Sla
<1>10. r.whole = TRUE =>
         /\ Cardinality(InStatus("acknowledged")) <= Window
         /\ LateOK(o, {}) /\ SoonOK(o, {"acknowledged"})
  BY <1>0, <1>5 DEF InFull, CallRow, ReportingOK
<1>11. /\ IsFiniteSet(e.todo) /\ IsFiniteSet(heads) /\ IsFiniteSet(e.late)
       /\ e.todo \in SUBSET Notice /\ e.late \in SUBSET Notice /\ heads \in SUBSET Notice
       /\ Cardinality(heads) \in Nat /\ Cardinality(e.todo) \in Nat /\ Cut \in Nat
  <2>1. /\ e.todo \in SUBSET Notice /\ e.late \in SUBSET Notice /\ heads \in SUBSET Notice
        /\ IsFiniteSet(Notice) /\ Cut \in Nat
    BY <1>3, <1>4, ListingAssumption DEF CallRow
  <2>2. IsFiniteSet(e.todo) /\ IsFiniteSet(heads) /\ IsFiniteSet(e.late)
    BY <2>1, FS_Subset
  <2> QED
    BY <2>1, <2>2, FS_CardinalityType
<1>12. ASSUME r.whole = TRUE, Cardinality(heads) < Cut PROVE r.must \subseteq heads
  <2>1. heads = e.todo /\ ~(Cardinality(e.todo) >= Cut)
    BY <1>4, <1>11, <1>12
  <2>2. /\ ~(Cardinality(listed) >= Cut) /\ ~(Cardinality(call[o].todo) >= Cut)
        /\ ~(Cardinality(call[o].late) >= Cut)
    BY <1>2, <1>3, <1>11, <2>1, FullGrows
  <2> SUFFICES ASSUME NEW m \in r.must PROVE m \in e.todo
    BY <2>1
  <2>3. m \in call[o].must /\ m \in Notice /\ Urgent(m) /\ Sla(m) \in {"overdue", "due_soon"}
    BY <1>3, <1>5, <1>9 DEF Urgent
  <2>4. CASE Sla(m) = "overdue"
    BY <1>2, <1>3, <1>10, <1>12, <2>2, <2>3, <2>4 DEF LateOK
  <2>5. CASE Sla(m) = "due_soon"
    <3>1. m \in call[o].todo \/ notice[m].status = "acknowledged"
      BY <1>10, <1>12, <2>2, <2>3, <2>5 DEF SoonOK
    <3>2. m \in listed \/ notice[m].status # "acknowledged"
      BY <1>10, <1>12, <2>2, <2>3, <2>5, ListedFacts DEF Unresolved
    <3> QED
      BY <1>3, <3>1, <3>2
  <2> QED
    BY <2>3, <2>4, <2>5
<1>13. ASSUME r.whole = TRUE, ~(heads \subseteq e.late)
       PROVE  \A m \in r.must : Sla(m) = "overdue" => m \in heads
  <2>1. e.late \subseteq heads /\ e.late # heads
    BY <1>7, <1>13
  <2>2. Cardinality(e.late) < Cardinality(heads) /\ Cardinality(e.late) \in Nat
    BY <1>11, <2>1, FS_Subset, FS_CardinalityType
  <2>3. Cardinality(heads) <= Cut
    BY <1>1, <1>4, <1>11 DEF Firsts, e
  <2>4. ~(Cardinality(call[o].late) >= Cut)
    BY <1>3, <1>11, <2>2, <2>3
  <2> QED
    BY <1>3, <1>5, <1>10, <1>13, <2>1, <2>4 DEF LateOK
<1>14. r.whole = TRUE => CompleteOK(o)'
  BY <1>5, <1>8, <1>9, <1>12, <1>13 DEF CompleteOK
<1>15. ReportingOK(o)'
  BY <1>5, <1>8, <1>9, <1>14 DEF ReportingOK
<1>16. OperationOK(o)'
  BY <1>0, <1>3, <1>5, <1>8, <1>15 DEF OperationOK, TakenOK, LookedUpOK, MarkingOK
<1>17. PICK s \in CallRow : s = r
  BY <1>5
<1> QED
  BY <1>6, <1>16, <1>17, CallOnly

LEMMA ReportNextInv ==
    ASSUME OutboxInv, NEW o \in Operator, ReportNext(o)
    PROVE  OutboxInv'
  BY ReportMoreInv, ReportLastInv DEF ReportNext

LEMMA LeaveInv ==
    ASSUME OutboxInv, NEW o \in Operator, Leave(o)
    PROVE  OutboxInv'
  BY QuietInv DEF Leave

----------------------------------------------------------------------------
(* Steps on deliveries. *)

LEMMA DeliveryStep ==
    ASSUME OutboxInv, SameInbox, OutboxTypeOK', OneLiveDelivery', ReportsAreKept',
           \A d \in Delivery : UnusedOK(d)',
           \A p \in Operator : call'[p] = Quiet \/ (Continues(p) /\ LookedUpOK(p)' /\ MarkingOK(p)')
    PROVE  OutboxInv'
<1>1. ASSUME NEW p \in Operator PROVE OperationOK(p)'
  <2>1. CASE call'[p] = Quiet
    BY <2>1, QuietOperation
  <2>2. CASE Continues(p) /\ LookedUpOK(p)' /\ MarkingOK(p)'
    BY <2>2, InboxKept, HeldKept DEF OperationOK
  <2> QED
    BY <2>1, <2>2
<1> QED
  BY <1>1, InboxKept DEF OutboxInv

\* The rows a transaction of the outbox inserts: one per notification, into free rows.
Inserted(o, id) ==
    LET rest == IF call[o].dedupe THEN {n \in call[o].todo : LiveFor(n) = {}}
                ELSE call[o].todo
    IN
    /\ DOMAIN id = call[o].held \cup rest
    /\ \A n \in DOMAIN id : id[n] \in Delivery /\ delivery[id[n]].status = "none"
    /\ \A m, n \in DOMAIN id : m # n => id[m] # id[n]
    /\ delivery' = [d \in Delivery |->
                      IF \E n \in DOMAIN id : id[n] = d
                      THEN [NoDelivery EXCEPT !.status = "queued",
                               !.notice = CHOOSE n \in DOMAIN id : id[n] = d]
                      ELSE delivery[d]]
    /\ again' = IF call[o].dedupe THEN again ELSE again \cup {id[n] : n \in DOMAIN id}
    /\ raced' = raced \cup {id[n] : n \in {m \in DOMAIN id :
                    \E p \in Operator \ {o} : call[p].pc = "inserting" /\ m \in call[p].held}}

LEMMA InsertedFacts ==
    ASSUME OutboxInv, NEW o \in Operator, NEW id, call[o].pc = "inserting", Inserted(o, id)
    PROVE  /\ DOMAIN id \subseteq Notice
           /\ \A n \in DOMAIN id : /\ delivery'[id[n]].status = "queued"
                                   /\ delivery'[id[n]].notice = n
                                   /\ delivery'[id[n]].attempts = 0
                                   /\ delivery'[id[n]] \in DeliveryRow
           /\ \A d \in Delivery : (\A n \in DOMAIN id : id[n] # d) => delivery'[d] = delivery[d]
           /\ \A n \in Notice : LiveFor(n)' \subseteq
                LiveFor(n) \cup (IF n \in DOMAIN id THEN {id[n]} ELSE {})
<1>0. OutboxTypeOK /\ call[o] \in CallRow /\ OperationOK(o)
  BY TypedRows DEF OutboxInv
<1>1. DOMAIN id \subseteq Notice
  BY <1>0 DEF Inserted, OperationOK, CallRow
<1>2. ASSUME NEW n \in DOMAIN id
      PROVE  /\ delivery'[id[n]].status = "queued" /\ delivery'[id[n]].notice = n
             /\ delivery'[id[n]].attempts = 0 /\ delivery'[id[n]] \in DeliveryRow
  <2>1. n \in Notice /\ id[n] \in Delivery
    BY <1>1 DEF Inserted
  <2>2. (CHOOSE m \in DOMAIN id : id[m] = id[n]) = n
    <3>1. \A m \in DOMAIN id : id[m] = id[n] => m = n
      BY DEF Inserted
    <3> QED
      BY <3>1
  <2>3. delivery'[id[n]] = [NoDelivery EXCEPT !.status = "queued",
                              !.notice = CHOOSE m \in DOMAIN id : id[m] = id[n]]
    BY <2>1 DEF Inserted
  <2>4. delivery'[id[n]] = [NoDelivery EXCEPT !.status = "queued", !.notice = n]
    BY <2>2, <2>3
  <2>5. [NoDelivery EXCEPT !.status = "queued", !.notice = n] \in DeliveryRow
    BY <2>1, RowTypes DEF DeliveryRow
  <2>6. /\ [NoDelivery EXCEPT !.status = "queued", !.notice = n].status = "queued"
        /\ [NoDelivery EXCEPT !.status = "queued", !.notice = n].notice = n
        /\ [NoDelivery EXCEPT !.status = "queued", !.notice = n].attempts = 0
    BY DEF NoDelivery
  <2> QED
    BY <2>4, <2>5, <2>6
<1>3. ASSUME NEW d \in Delivery, \A n \in DOMAIN id : id[n] # d PROVE delivery'[d] = delivery[d]
  BY <1>3 DEF Inserted
<1>4. ASSUME NEW n \in Notice, NEW d \in LiveFor(n)'
      PROVE  d \in LiveFor(n) \cup (IF n \in DOMAIN id THEN {id[n]} ELSE {})
  <2>1. d \in Delivery /\ delivery'[d].notice = n /\ delivery'[d].status \in Live
    BY <1>4 DEF LiveFor
  <2>2. CASE \A m \in DOMAIN id : id[m] # d
    BY <2>1, <2>2, <1>3 DEF LiveFor
  <2>3. CASE \E m \in DOMAIN id : id[m] = d
    BY <2>1, <2>3, <1>2
  <2> QED
    BY <2>2, <2>3
<1> QED
  BY <1>1, <1>2, <1>3, <1>4

LEMMA EnqueueCommitInv ==
    ASSUME OutboxInv, NEW o \in Operator, EnqueueCommit(o)
    PROVE  OutboxInv'
<1>0. OutboxTypeOK /\ call[o] \in CallRow /\ OperationOK(o) /\ call[o].pc = "inserting"
  BY TypedRows DEF OutboxInv, EnqueueCommit
<1>1. PICK id : Inserted(o, id)
  <2> DEFINE rest == IF call[o].dedupe THEN {n \in call[o].todo : LiveFor(n) = {}}
                     ELSE call[o].todo
             free == {d \in Delivery : delivery[d].status = "none"}
  <2>1. PICK id \in [call[o].held \cup rest -> free] :
          /\ \A m, n \in DOMAIN id : m # n => id[m] # id[n]
          /\ delivery' = [d \in Delivery |->
                            IF \E n \in DOMAIN id : id[n] = d
                            THEN [NoDelivery EXCEPT !.status = "queued",
                                     !.notice = CHOOSE n \in DOMAIN id : id[n] = d]
                            ELSE delivery[d]]
          /\ again' = IF call[o].dedupe THEN again ELSE again \cup {id[n] : n \in DOMAIN id}
          /\ raced' = raced \cup {id[n] : n \in {m \in DOMAIN id :
                  \E p \in Operator \ {o} : call[p].pc = "inserting" /\ m \in call[p].held}}
    BY DEF EnqueueCommit
  <2>2. DOMAIN id = call[o].held \cup rest
    OBVIOUS
  <2>3. \A n \in DOMAIN id : id[n] \in Delivery /\ delivery[id[n]].status = "none"
    OBVIOUS
  <2>4. Inserted(o, id)
    BY <2>1, <2>2, <2>3, Zenon DEF Inserted
  <2> QED
    BY <2>4
<1>2. Sets(o, Quiet) /\ UNCHANGED <<notice, tries, arrived>>
  BY DEF EnqueueCommit
<1>3. /\ call' \in [Operator -> CallRow] /\ call'[o] = Quiet
      /\ \A p \in Operator : p # o => call'[p] = call[p]
  BY <1>0, <1>2, RowTypes, SetsType
<1>4. DOMAIN id \subseteq Notice /\ \A n \in DOMAIN id : id[n] \in Delivery
  BY <1>0, <1>1, InsertedFacts DEF Inserted
<1>5. \A n \in DOMAIN id : /\ delivery'[id[n]].status = "queued" /\ delivery'[id[n]].attempts = 0
                           /\ delivery'[id[n]] \in DeliveryRow /\ delivery[id[n]].status = "none"
  <2>1. \A n \in DOMAIN id : delivery[id[n]].status = "none"
    BY <1>1 DEF Inserted
  <2> QED
    BY <2>1, <1>0, <1>1, InsertedFacts
<1>6. \A d \in Delivery : (\A n \in DOMAIN id : id[n] # d) => delivery'[d] = delivery[d]
  BY <1>0, <1>1, InsertedFacts
<1>7. \A n \in Notice : LiveFor(n)' \subseteq
                          LiveFor(n) \cup (IF n \in DOMAIN id THEN {id[n]} ELSE {})
  BY <1>0, <1>1, InsertedFacts
<1>8. /\ SameInbox /\ again \subseteq again'
      /\ again' \cup raced' \subseteq again \cup raced \cup {id[n] : n \in DOMAIN id}
  BY <1>1, <1>2 DEF SameInbox, Inserted
<1>9. OutboxTypeOK'
  <2>1. \A d \in Delivery : delivery'[d] \in DeliveryRow
    BY <1>0, <1>5, <1>6, TypedRows
  <2>2. delivery' \in [Delivery -> DeliveryRow]
    BY <2>1, <1>1 DEF Inserted
  <2>3. again' \subseteq Delivery /\ raced' \subseteq Notice \cup Delivery
    <3>1. {id[n] : n \in DOMAIN id} \subseteq Delivery
      BY <1>4
    <3>2. again' \subseteq Delivery
      BY <1>0, <1>1, <3>1 DEF Inserted, OutboxTypeOK
    <3>3. raced' \subseteq raced \cup {id[n] : n \in DOMAIN id}
      BY <1>1 DEF Inserted
    <3> QED
      BY <1>0, <3>1, <3>2, <3>3 DEF OutboxTypeOK
  <2> QED
    BY <1>0, <1>2, <1>3, <2>2, <2>3 DEF OutboxTypeOK, CallRow
<1>10. ASSUME NEW d \in Delivery PROVE UnusedOK(d)'
  <2>1. UnusedOK(d)
    BY DEF OutboxInv
  <2>2. CASE \A n \in DOMAIN id : id[n] # d
    BY <2>1, <2>2, <1>2, <1>6 DEF UnusedOK
  <2>3. CASE \E n \in DOMAIN id : id[n] = d
    BY <2>3, <1>5 DEF UnusedOK
  <2> QED
    BY <2>2, <2>3
<1>11. ReportsAreKept'
  <2> SUFFICES ASSUME NEW d \in Delivery, d \notin raced'
               PROVE  /\ delivery'[d].attempts = tries[d]
                      /\ d \in arrived => delivery'[d].delivered /\ delivery'[d].attempts > 0
                      /\ delivery'[d].status = "queued" => delivery'[d].attempts = 0
    BY <1>2 DEF ReportsAreKept
  <2>1. CASE \A n \in DOMAIN id : id[n] # d
    BY <2>1, <1>6, <1>8 DEF ReportsAreKept, OutboxInv, SameInbox
  <2>2. CASE \E n \in DOMAIN id : id[n] = d
    <3>1. UnusedOK(d)
      BY DEF OutboxInv
    <3> QED
      BY <2>2, <3>1, <1>5 DEF UnusedOK
  <2> QED
    BY <2>1, <2>2
<1>12. OneLiveDelivery'
  <2> SUFFICES ASSUME NEW n \in Notice
               PROVE  \A d, e \in LiveFor(n)' \ (again' \cup raced') : d = e
    BY DEF OneLiveDelivery
  <2>0. \A d, e \in LiveFor(n) \ (again \cup raced) : d = e
    BY DEF OutboxInv, OneLiveDelivery
  <2>1. again \cup raced \subseteq again' \cup raced'
    BY <1>8 DEF SameInbox
  <2>2. CASE n \notin DOMAIN id
    BY <2>0, <2>1, <2>2, <1>7
  <2>3. CASE n \in DOMAIN id /\ call[o].dedupe = TRUE
    <3>1. LiveFor(n) \subseteq again \cup raced
      BY <2>3, <1>0, <1>1 DEF Inserted, OperationOK, LookedUpOK
    <3> QED
      BY <2>1, <2>3, <3>1, <1>7
  <2>4. CASE n \in DOMAIN id /\ call[o].dedupe = FALSE
    <3>1. id[n] \in again'
      BY <2>4, <1>1 DEF Inserted
    <3> QED
      BY <2>0, <2>1, <2>4, <3>1, <1>7
  <2> QED
    BY <2>2, <2>3, <2>4, <1>0 DEF CallRow
<1>13. ASSUME NEW p \in Operator, p # o
       PROVE  Continues(p) /\ LookedUpOK(p)' /\ MarkingOK(p)'
  <2>1. Continues(p) /\ OperationOK(p) /\ call'[p] = call[p]
    BY <1>3, <1>13 DEF Continues, OutboxInv
  <2>2. LookedUpOK(p)'
    <3> SUFFICES ASSUME call[p].pc = "inserting", call[p].dedupe = TRUE, NEW n \in call[p].held
                 PROVE  LiveFor(n)' \subseteq again' \cup raced'
      BY <2>1 DEF LookedUpOK
    <3>1. n \in Notice /\ LiveFor(n) \subseteq again \cup raced
      BY <2>1 DEF OperationOK, LookedUpOK
    <3>2. n \in DOMAIN id => id[n] \in raced'
      BY <1>1, <1>13 DEF Inserted
    <3> QED
      BY <3>1, <3>2, <1>7, <1>8 DEF SameInbox
  <2>3. MarkingOK(p)'
    <3> SUFFICES ASSUME call[p].pc = "marking", NEW d \in call[p].held
                 PROVE  /\ delivery'[d].status # "none"
                        /\ d \notin raced' => /\ call[p].attempts = delivery'[d].attempts
                                              /\ call[p].delivered = delivery'[d].delivered
      BY <2>1 DEF MarkingOK
    <3>1. /\ d \in Delivery /\ delivery[d].status # "none"
          /\ d \notin raced => /\ call[p].attempts = delivery[d].attempts
                               /\ call[p].delivered = delivery[d].delivered
      BY <2>1 DEF OperationOK, MarkingOK
    <3>2. delivery'[d] = delivery[d]
      BY <3>1, <1>5, <1>6
    <3> QED
      BY <3>1, <3>2, <1>8 DEF SameInbox
  <2> QED
    BY <2>1, <2>2, <2>3
<1> QED
  BY <1>3, <1>8, <1>9, <1>10, <1>11, <1>12, <1>13, DeliveryStep

LEMMA MarkCommitInv ==
    ASSUME OutboxInv, NEW o \in Operator, NEW status \in {"sending", "delivered", "failed"},
           MarkCommit(o, status)
    PROVE  OutboxInv'
<1>0. OutboxTypeOK /\ call[o] \in CallRow /\ OperationOK(o)
  BY TypedRows DEF OutboxInv
<1> DEFINE total == call[o].attempts + (IF Counts(status, call[o].attempts) THEN 1 ELSE 0)
           row(d) == [delivery[d] EXCEPT !.status = status, !.attempts = total,
                                         !.delivered = (status = "delivered" \/ call[o].delivered)]
<1>1. PICK d \in call[o].held :
        /\ call[o].pc = "marking"
        /\ total <= MaxAttempts + 1
        /\ delivery' = [delivery EXCEPT ![d] =
                          [@ EXCEPT !.status = status, !.attempts = total,
                                    !.delivered = (status = "delivered" \/ call[o].delivered)]]
        /\ tries' = [tries EXCEPT ![d] = @ + (total - call[o].attempts)]
        /\ arrived' = IF status = "delivered" THEN arrived \cup {d} ELSE arrived
        /\ again' = IF status = "sending" /\ delivery[d].status \notin Live
                    THEN again \cup {d} ELSE again
        /\ Races(o, {d})
        /\ Sets(o, Quiet)
        /\ UNCHANGED notice
  BY DEF MarkCommit
<1>2. /\ d \in Delivery /\ delivery[d].status # "none"
      /\ d \notin raced => /\ call[o].attempts = delivery[d].attempts
                           /\ call[o].delivered = delivery[d].delivered
  BY <1>0, <1>1 DEF OperationOK, MarkingOK
<1>3. /\ delivery \in [Delivery -> DeliveryRow] /\ delivery[d] \in DeliveryRow
      /\ call[o].attempts \in Nat /\ call[o].delivered \in BOOLEAN
      /\ tries \in [Delivery -> Nat] /\ tries[d] \in Nat
  BY <1>0, <1>2 DEF OutboxTypeOK, CallRow
<1>4. /\ total \in 0 .. MaxAttempts + 1 /\ total >= call[o].attempts /\ total > 0
      /\ total - call[o].attempts \in Nat
  BY <1>1, <1>3, AttemptsAssumption DEF Counts
<1>5. (status = "delivered" \/ call[o].delivered) \in BOOLEAN
  OBVIOUS
<1> HIDE DEF total
<1>6. /\ row(d) \in DeliveryRow /\ row(d).status = status /\ row(d).attempts = total
      /\ row(d).notice = delivery[d].notice
  BY <1>3, <1>4, <1>5 DEF DeliveryRow
<1>7. row(d).delivered = (status = "delivered" \/ call[o].delivered)
  BY <1>3 DEF DeliveryRow
<1>8. /\ delivery' \in [Delivery -> DeliveryRow] /\ delivery'[d] = row(d)
      /\ \A e \in Delivery : e # d => delivery'[e] = delivery[e]
  BY <1>1, <1>2, <1>3, <1>6
<1> HIDE DEF row
<1>9. /\ tries' \in [Delivery -> Nat] /\ tries'[d] = tries[d] + (total - call[o].attempts)
      /\ \A e \in Delivery : e # d => tries'[e] = tries[e]
  BY <1>1, <1>2, <1>3, <1>4
<1>10. /\ call' \in [Operator -> CallRow] /\ call'[o] = Quiet
       /\ \A p \in Operator : p # o => call'[p] = call[p]
  BY <1>0, <1>1, RowTypes, SetsType
<1>11. SameInbox /\ again \subseteq again' /\ arrived \subseteq arrived' /\ notice' = notice
  BY <1>1, RacesFacts DEF SameInbox
<1>12. OutboxTypeOK'
  <2>1. raced' \subseteq Notice \cup Delivery
    BY <1>0, <1>1, <1>2, RacesFacts
  <2>2. arrived' \subseteq Delivery /\ again' \subseteq Delivery
    BY <1>0, <1>1, <1>2 DEF OutboxTypeOK
  <2> QED
    BY <1>0, <1>8, <1>9, <1>10, <1>11, <2>1, <2>2 DEF OutboxTypeOK, CallRow
<1>13. ASSUME NEW e \in Delivery PROVE UnusedOK(e)'
  <2>1. CASE e = d
    BY <2>1, <1>6, <1>8 DEF UnusedOK
  <2>2. CASE e # d
    <3>1. (e \in arrived') <=> e \in arrived
      BY <2>2, <1>1
    <3> QED
      BY <2>2, <3>1, <1>8, <1>9 DEF UnusedOK, OutboxInv
  <2> QED
    BY <2>1, <2>2
<1>14. ReportsAreKept'
  <2> SUFFICES ASSUME NEW e \in Delivery, e \notin raced'
               PROVE  /\ delivery'[e].attempts = tries'[e]
                      /\ e \in arrived' => delivery'[e].delivered /\ delivery'[e].attempts > 0
                      /\ delivery'[e].status = "queued" => delivery'[e].attempts = 0
    BY DEF ReportsAreKept
  <2>1. /\ delivery[e].attempts = tries[e]
        /\ e \in arrived => delivery[e].delivered /\ delivery[e].attempts > 0
        /\ delivery[e].status = "queued" => delivery[e].attempts = 0
    BY <1>11 DEF OutboxInv, ReportsAreKept, SameInbox
  <2>2. CASE e # d
    <3>1. e \in arrived' <=> e \in arrived
      BY <2>2, <1>1
    <3> QED
      BY <2>1, <2>2, <3>1, <1>8, <1>9
  <2>3. CASE e = d
    <3>1. call[o].attempts = delivery[d].attempts /\ call[o].delivered = delivery[d].delivered
      BY <2>3, <1>2, <1>11 DEF SameInbox
    <3>2. delivery'[d].attempts = tries'[d]
      BY <2>1, <2>3, <3>1, <1>3, <1>4, <1>6, <1>8, <1>9
    <3>3. ASSUME d \in arrived' PROVE delivery'[d].delivered
      <4>1. status = "delivered" \/ d \in arrived
        BY <3>3, <1>1
      <4>2. status = "delivered" \/ call[o].delivered
        BY <4>1, <2>1, <2>3, <3>1
      <4> QED
        BY <4>2, <1>7, <1>8
    <3>4. delivery'[d].attempts > 0 /\ delivery'[d].status # "queued"
      BY <1>4, <1>6, <1>8
    <3> QED
      BY <2>3, <3>2, <3>3, <3>4
  <2> QED
    BY <2>2, <2>3
<1>15. \A n \in Notice : LiveFor(n)' \ again' \subseteq LiveFor(n) \ again
  <2> SUFFICES ASSUME NEW n \in Notice, NEW e \in LiveFor(n)', e \notin again'
               PROVE  e \in LiveFor(n)
    BY <1>11
  <2>1. e \in Delivery /\ delivery'[e].notice = n /\ delivery'[e].status \in Live
    BY DEF LiveFor
  <2>2. CASE e # d
    BY <2>1, <2>2, <1>8 DEF LiveFor
  <2>3. CASE e = d
    <3>1. status = "sending"
      BY <2>1, <2>3, <1>6, <1>8 DEF Live
    <3>2. delivery[d].status \in Live
      BY <2>3, <3>1, <1>1
    <3> QED
      BY <2>1, <2>3, <3>2, <1>6, <1>8 DEF LiveFor
  <2> QED
    BY <2>2, <2>3
<1>16. OneLiveDelivery'
  <2>1. raced \subseteq raced'
    BY <1>11 DEF SameInbox
  <2> QED
    BY <2>1, <1>15 DEF OutboxInv, OneLiveDelivery
<1>17. ASSUME NEW p \in Operator, p # o
       PROVE  Continues(p) /\ LookedUpOK(p)' /\ MarkingOK(p)'
  <2>1. Continues(p) /\ OperationOK(p) /\ call'[p] = call[p]
    BY <1>10, <1>17 DEF Continues, OutboxInv
  <2>2. LookedUpOK(p)'
    <3> SUFFICES ASSUME call[p].pc = "inserting", call[p].dedupe = TRUE, NEW n \in call[p].held
                 PROVE  LiveFor(n)' \subseteq again' \cup raced'
      BY <2>1 DEF LookedUpOK
    <3>1. n \in Notice /\ LiveFor(n) \subseteq again \cup raced
      BY <2>1 DEF OperationOK, LookedUpOK
    <3> QED
      BY <3>1, <1>11, <1>15 DEF SameInbox
  <2>3. MarkingOK(p)'
    <3> SUFFICES ASSUME call[p].pc = "marking", NEW e \in call[p].held
                 PROVE  /\ delivery'[e].status # "none"
                        /\ e \notin raced' => /\ call[p].attempts = delivery'[e].attempts
                                              /\ call[p].delivered = delivery'[e].delivered
      BY <2>1 DEF MarkingOK
    <3>1. /\ e \in Delivery /\ delivery[e].status # "none"
          /\ e \notin raced => /\ call[p].attempts = delivery[e].attempts
                               /\ call[p].delivered = delivery[e].delivered
      BY <2>1 DEF OperationOK, MarkingOK
    <3>2. CASE e = d
      BY <3>2, <1>1, <1>6, <1>8, <1>17, RacesFacts
    <3>3. CASE e # d
      BY <3>1, <3>3, <1>8, <1>11 DEF SameInbox
    <3> QED
      BY <3>2, <3>3
  <2> QED
    BY <2>1, <2>2, <2>3
<1> QED
  BY <1>10, <1>11, <1>12, <1>13, <1>14, <1>16, <1>17, DeliveryStep

----------------------------------------------------------------------------
(* The inbox and the outbox: theorems. *)

LEMMA OutboxInitInv == OutboxInit => OutboxInv
<1> SUFFICES ASSUME OutboxInit PROVE OutboxInv
  OBVIOUS
<1>1. \A o \in Operator : call[o] = Quiet
  BY DEF OutboxInit
<1>2. \A n \in Notice : notice[n] = NoNotice /\ NoNotice.status = "none"
  BY DEF OutboxInit, NoNotice
<1>3. \A d \in Delivery : delivery[d] = NoDelivery /\ tries[d] = 0
  BY DEF OutboxInit
<1>4. NoDelivery.status = "none" /\ NoDelivery.attempts = 0
  BY DEF NoDelivery
<1>5. OutboxTypeOK
  BY RowTypes DEF OutboxInit, OutboxTypeOK, CallRow
<1>6. \A o \in Operator : OperationOK(o)
  BY <1>1, RowTypes DEF OperationOK, TakenOK, LookedUpOK, MarkingOK, ReportingOK
<1>7. \A d \in Delivery : UnusedOK(d)
  BY <1>3, <1>4 DEF UnusedOK, OutboxInit
<1>8. OneNoticePerTarget
  BY <1>2 DEF OneNoticePerTarget, OpenFor, Unresolved
<1>9. OneLiveDelivery
  BY <1>3, <1>4 DEF OneLiveDelivery, LiveFor, Live
<1>10. ReportsAreKept
  BY <1>3, <1>4 DEF ReportsAreKept, OutboxInit
<1> QED
  BY <1>5, <1>6, <1>7, <1>8, <1>9, <1>10 DEF OutboxInv

LEMMA OutboxNextInv == OutboxInv /\ [OutboxNext]_outboxVars => OutboxInv'
<1> SUFFICES ASSUME OutboxInv, [OutboxNext]_outboxVars PROVE OutboxInv'
  OBVIOUS
<1>1. ASSUME NEW t \in Target, Need(t) \/ Settle(t) PROVE OutboxInv'
  BY <1>1, NeedInv, SettleInv
<1>2. ASSUME NEW n \in Notice, Elapse(n) PROVE OutboxInv'
  BY <1>2, ElapseInv
<1>3. ASSUME NEW o \in Operator, OperatorStep(o) PROVE OutboxInv'
  BY <1>3, TakeNoticeInv, AckCommitInv, AssignCommitInv, ResolveCommitInv, ReportFirstInv,
     ReportNextInv, LeaveInv DEF OperatorStep
<1>4. ASSUME NEW o \in Operator, SenderStep(o) PROVE OutboxInv'
  BY <1>4, EnqueueListInv, EnqueueCheckInv, EnqueueCommitInv, MarkReadInv, MarkCommitInv
     DEF SenderStep
<1>5. CASE UNCHANGED outboxVars
  <2>1. SameOutbox /\ SameInbox /\ call' = call /\ OutboxTypeOK'
    BY <1>5 DEF outboxVars, outboxRows, outboxHistory, SameOutbox, SameInbox, OutboxInv,
       OutboxTypeOK
  <2>2. \A p \in Operator : Continues(p)
    BY <2>1 DEF Continues
  <2> QED
    BY <2>1, <2>2, OutboxKept, InboxKept, HeldKept DEF OutboxInv, OperationOK
<1> QED
  BY <1>1, <1>2, <1>3, <1>4, <1>5 DEF OutboxNext

LEMMA OutboxInvHolds == OutboxSpec => []OutboxInv
<1> QED
  BY OutboxInitInv, OutboxNextInv, PTL DEF OutboxSpec

\* The rows of the inbox and the outbox are rows: in particular a delivery is always one of
\* a notification.
THEOREM OutboxTypeCorrect == OutboxSpec => []OutboxTypeOK
<1>1. OutboxInv => OutboxTypeOK
  BY DEF OutboxInv
<1> QED
  BY <1>1, OutboxInvHolds, PTL

\* A target has one unresolved notification, however many components raise it and operators
\* work on it, but for those whose operations overlapped (_create_notification).
THEOREM NoticesAreUnique == OutboxSpec => []OneNoticePerTarget
<1>1. OutboxInv => OneNoticePerTarget
  BY DEF OutboxInv
<1> QED
  BY <1>1, OutboxInvHolds, PTL

\* A notification has one live delivery, however many senders queue it and report on it, but
\* for those queued or revived on purpose and those whose operations overlapped
\* (enqueue_notification_deliveries).
THEOREM DeliveriesAreUnique == OutboxSpec => []OneLiveDelivery
<1>1. OutboxInv => OneLiveDelivery
  BY DEF OutboxInv
<1> QED
  BY <1>1, OutboxInvHolds, PTL

\* What the sender reported of a delivery is kept (mark_notification_delivery).
THEOREM ReportsStay == OutboxSpec => []ReportsAreKept
<1>1. OutboxInv => ReportsAreKept
  BY DEF OutboxInv
<1> QED
  BY <1>1, OutboxInvHolds, PTL

\* The four listings of an escalation report, none of them locked, miss nothing that was
\* urgent throughout while the report is not full, and nothing overdue before what is due
\* soon when it is; provided no status has more rows than a listing looks at, and nothing is
\* listed as overdue that was listed as due soon (notification_escalations).
THEOREM EscalationsComplete == OutboxSpec => []EscalationsAreComplete
<1>1. OutboxInv => EscalationsAreComplete
  BY DEF OutboxInv, OperationOK, ReportingOK, CompleteOK, EscalationsAreComplete
<1> QED
  BY <1>1, OutboxInvHolds, PTL

----------------------------------------------------------------------------
(* Restore drills: the invariant. *)

ScheduleRow == [status : {"none", "active", "paused"}, due : BOOLEAN,
                last : {"none", "pass", "fail"}, retain : BOOLEAN]
DrillRow == [pc : {"idle", "setting", "listed", "begun", "copying", "restoring", "pass", "fail"},
             todo : SUBSET Sched, sched : Sched \cup {Nobody},
             stamp : 0 .. LastSecond, retain : BOOLEAN, found : BOOLEAN]
Running == {"begun", "copying", "restoring", "pass", "fail"}

\* What a scheduler has in hand is due, and what it is running is not waited for, unless
\* operations overlapped.
SchedulerOK(c) ==
    LET r == drill[c] IN
    /\ r.pc \in {"idle", "listed"} => r.sched = Nobody
    /\ r.pc \in {"idle", "setting"} => r.todo = {}
    /\ r.pc = "setting" => r.sched \in Sched
    /\ r.pc \in Running => r.sched \in Sched \ r.todo
    /\ r.pc # "setting" => \A s \in Holds(c) \ crossed : schedule[s].due = TRUE
    /\ r.pc \in Running => r.sched \in crossed \/ r.sched \notin wanted

ScheduleOK(s) ==
    /\ s \in crossed => runs[s] = 0 /\ s \notin wanted
    /\ schedule[s].due = TRUE => runs[s] = 0
    /\ runs[s] <= 1
    /\ s \in wanted => schedule[s].status = "active" /\ schedule[s].due = TRUE

DrillInv ==
    /\ OutboxInv
    /\ DrillTypeOK
    /\ \A c \in Scheduler : SchedulerOK(c)
    /\ \A s \in Sched : ScheduleOK(s)
    /\ InboxShowsLastDrill

----------------------------------------------------------------------------
(* Restore drills use the inbox as any other component does. *)

LEMMA DrillRows ==
    ASSUME DrillTypeOK
    PROVE  /\ drill \in [Scheduler -> DrillRow] /\ schedule \in [Sched -> ScheduleRow]
           /\ \A c \in Scheduler : drill[c] \in DrillRow
           /\ \A s \in Sched : schedule[s] \in ScheduleRow
  BY DEF DrillTypeOK, DrillRow, ScheduleRow

LEMMA RestingRow ==
    /\ Resting \in DrillRow /\ Resting.pc = "idle" /\ Resting.sched = Nobody /\ Resting.todo = {}
    /\ Nobody \notin Sched
  BY SecondAssumption, SchedAssumption, NobodyAssumption DEF Resting, DrillRow

\* A drill that ends raises the notification of its schedule, or clears it.
LEMMA RecordIsOutboxStep ==
    ASSUME DrillInv, NEW c \in Scheduler, Record(c)
    PROVE  [OutboxNext]_outboxVars
<1> DEFINE s == drill[c].sched
<1>1. /\ s \in Target /\ drill[c].pc \in {"pass", "fail"} /\ Ends(s, drill[c].pc)
      /\ UNCHANGED <<delivery, tries, arrived, again>>
  BY SchedAssumption DEF DrillInv, SchedulerOK, Running, Record
<1> HIDE DEF s
<1>2. CASE drill[c].pc = "fail"
  <2>1. Raise(s) /\ raced' = raced /\ call' = call
    BY <1>1, <1>2 DEF Ends
  <2>2. Need(s)
    BY <1>1, <2>1 DEF Need, outboxHistory
  <2> QED
    BY <1>1, <2>2 DEF OutboxNext
<1>3. CASE drill[c].pc = "pass"
  <2>1. /\ Clear(s) /\ call' = Excuse(OpenFor(s))
        /\ raced' = raced \cup {n \in OpenFor(s) : \E p \in Operator : n \in call[p].held}
    BY <1>1, <1>3 DEF Ends
  <2>2. CASE OpenFor(s) # {}
    <3>1. Settle(s)
      BY <1>1, <2>1, <2>2 DEF Settle
    <3> QED
      BY <1>1, <3>1 DEF OutboxNext
  <2>3. CASE OpenFor(s) = {}
    <3>0. OutboxTypeOK
      BY DEF DrillInv, OutboxInv
    <3>1. raced' = raced
      BY <2>1, <2>3
    <3>2. notice' = notice
      BY <3>0, <2>1, <2>3 DEF Clear, OutboxTypeOK
    <3>3. \A p \in Operator : [call[p] EXCEPT !.must = @ \ {}] = call[p]
      BY <3>0, TypedRows DEF CallRow
    <3>4. call' = call
      <4>1. call' = [p \in Operator |-> [call[p] EXCEPT !.must = @ \ {}]]
        BY <2>1, <2>3 DEF Excuse
      <4>2. call' = [p \in Operator |-> call[p]]
        BY <4>1, <3>3
      <4> QED
        BY <3>0, <4>2 DEF OutboxTypeOK
    <3> QED
      BY <1>1, <3>1, <3>2, <3>4 DEF outboxVars, outboxRows, outboxHistory
  <2> QED
    BY <2>2, <2>3
<1> QED
  BY <1>1, <1>2, <1>3

LEMMA DrillStepIsOutboxStep ==
    DrillInv /\ [DrillNext]_allVars => [OutboxNext]_outboxVars
<1> SUFFICES ASSUME DrillInv, [DrillNext]_allVars PROVE [OutboxNext]_outboxVars
  OBVIOUS
<1>1. ASSUME ClockTicks \/ \E s \in Sched : FallDue(s) PROVE UNCHANGED outboxVars
  BY <1>1 DEF ClockTicks, FallDue
<1>2. ASSUME NEW o \in Operator, ByHand(o) PROVE OutboxNext
  BY <1>2 DEF ByHand, OperatorStep, OutboxNext
<1>3. ASSUME NEW c \in Scheduler, NEW s \in Sched, SetRead(c, s) \/ Begin(c, s)
      PROVE  UNCHANGED outboxVars
  BY <1>3 DEF SetRead, Begin
<1>4. ASSUME NEW c \in Scheduler, NEW status, NEW due, NEW retain, SetCommit(c, status, due, retain)
      PROVE  UNCHANGED outboxVars
  BY <1>4 DEF SetCommit
<1>5. ASSUME NEW c \in Scheduler, NEW any, ListDue(c, any) PROVE UNCHANGED outboxVars
  BY <1>5 DEF ListDue
<1>6. ASSUME NEW c \in Scheduler, CheckBackup(c) \/ WriteBackup(c) \/ Die(c)
      PROVE  UNCHANGED outboxVars
  BY <1>6 DEF CheckBackup, WriteBackup, Die
<1>7. ASSUME NEW c \in Scheduler, NEW outcome, Restore(c, outcome) PROVE UNCHANGED outboxVars
  BY <1>7 DEF Restore
<1>8. CASE UNCHANGED allVars
  BY <1>8 DEF allVars
<1> QED
  BY <1>1, <1>2, <1>3, <1>4, <1>5, <1>6, <1>7, <1>8, RecordIsOutboxStep DEF DrillNext

----------------------------------------------------------------------------
(* What a step on one schedule leaves of the others. *)

LEMMA KeepsFacts ==
    ASSUME NEW s, NEW D, NEW W, NEW n, Keeps(s, D, W, n)
    PROVE  /\ crossed \subseteq crossed' /\ crossed' \subseteq crossed \cup {s}
           /\ \A d \in D : s \in Holds(d) => s \in crossed'
           /\ wanted' = W \ crossed'
  BY DEF Keeps

LEMMA KeepsRuns ==
    ASSUME DrillTypeOK, NEW s \in Sched, NEW D, NEW W, NEW n \in 0 .. 2, Keeps(s, D, W, n)
    PROVE  /\ runs' \in [Sched -> 0 .. 2] /\ runs'[s] = IF s \in crossed' THEN 0 ELSE n
           /\ \A t \in Sched : t # s => runs'[t] = runs[t]
  BY DEF Keeps, DrillTypeOK

LEMMA OtherScheduler ==
    ASSUME DrillInv, NEW s \in Sched, NEW D, NEW W, NEW n, Keeps(s, D, W, n),
           W \subseteq wanted \cup {s},
           \A t \in Sched : t # s => schedule'[t] = schedule[t],
           NEW d \in Scheduler, d \in D, drill'[d] = drill[d]
    PROVE  SchedulerOK(d)'
<1>1. SchedulerOK(d) /\ drill[d] \in DrillRow
  BY DrillRows DEF DrillInv
<1>2. Holds(d)' = Holds(d) /\ Holds(d) \subseteq Sched
  BY <1>1 DEF Holds, DrillRow
<1>3. /\ crossed \subseteq crossed'
      /\ s \in Holds(d) => s \in crossed'
      /\ wanted' \subseteq (wanted \cup {s}) \ crossed'
  BY KeepsFacts
<1>4. \A t \in Holds(d) \ crossed' : t # s /\ schedule'[t] = schedule[t]
  BY <1>2, <1>3
<1>5. drill[d].pc \in Running => drill[d].sched \in Holds(d)
  BY <1>1 DEF SchedulerOK, Holds
<1>6. drill[d].pc # "setting" => \A t \in Holds(d)' \ crossed' : schedule'[t].due = TRUE
  BY <1>1, <1>2, <1>3, <1>4 DEF SchedulerOK
<1>7. drill[d].pc \in Running => drill[d].sched \in crossed' \/ drill[d].sched \notin wanted'
  BY <1>1, <1>3, <1>5 DEF SchedulerOK
<1> QED
  BY <1>1, <1>6, <1>7 DEF SchedulerOK

LEMMA OtherSchedule ==
    ASSUME DrillInv, NEW s \in Sched, NEW D, NEW W, NEW n \in 0 .. 2, Keeps(s, D, W, n),
           W \subseteq wanted \cup {s}, NEW t \in Sched, t # s, schedule'[t] = schedule[t]
    PROVE  ScheduleOK(t)'
<1>1. ScheduleOK(t)
  BY DEF DrillInv
<1>2. /\ t \in crossed' <=> t \in crossed
      /\ t \in wanted' => t \in wanted
      /\ runs'[t] = runs[t]
  BY KeepsFacts, KeepsRuns DEF DrillInv
<1> QED
  BY <1>1, <1>2 DEF ScheduleOK

\* The inbox is as it was, and so is how each drill ended.
LEMMA InboxAsBefore ==
    ASSUME DrillInv, UNCHANGED <<outboxVars, settled>>,
           \A t \in Sched : schedule'[t].last = schedule[t].last
    PROVE  InboxShowsLastDrill'
<1>1. \A t : OpenFor(t)' = OpenFor(t)
  BY DEF OpenFor, outboxVars, outboxRows
<1> QED
  BY <1>1 DEF DrillInv, InboxShowsLastDrill, outboxVars, outboxHistory

----------------------------------------------------------------------------
(* Steps of the schedulers. *)

LEMMA DoesFacts ==
    ASSUME DrillTypeOK, NEW c \in Scheduler, NEW r \in DrillRow, Does(c, r)
    PROVE  /\ drill' \in [Scheduler -> DrillRow] /\ drill'[c] = r
           /\ \A d \in Scheduler : d # c => drill'[d] = drill[d]
  BY DrillRows DEF Does

\* A step of a drill that changes neither schedules nor notifications.
LEMMA DrillOnly ==
    ASSUME DrillInv, OutboxInv', NEW c \in Scheduler, NEW r \in DrillRow, Does(c, r),
           UNCHANGED <<outboxVars, schedule, second, wanted, runs, settled, crossed>>,
           file' \subseteq Artifact, SchedulerOK(c)'
    PROVE  DrillInv'
<1>1. /\ drill' \in [Scheduler -> DrillRow] /\ drill'[c] = r
      /\ \A d \in Scheduler : d # c => drill'[d] = drill[d]
  BY DoesFacts DEF DrillInv
<1>2. DrillTypeOK'
  BY <1>1 DEF DrillInv, OutboxInv, DrillTypeOK, DrillRow
<1>3. ASSUME NEW d \in Scheduler PROVE SchedulerOK(d)'
  <2>1. CASE d = c
    BY <2>1
  <2>2. CASE d # c
    <3>1. drill'[d] = drill[d] /\ SchedulerOK(d)
      BY <2>2, <1>1 DEF DrillInv
    <3> QED
      BY <3>1 DEF SchedulerOK, Holds
  <2> QED
    BY <2>1, <2>2
<1>4. \A s \in Sched : ScheduleOK(s)'
  BY DEF DrillInv, ScheduleOK
<1>5. InboxShowsLastDrill'
  BY InboxAsBefore
<1> QED
  BY <1>2, <1>3, <1>4, <1>5 DEF DrillInv

LEMMA SetReadInv ==
    ASSUME DrillInv, OutboxInv', NEW c \in Scheduler, NEW s \in Sched, SetRead(c, s)
    PROVE  DrillInv'
<1> DEFINE r == [Resting EXCEPT !.pc = "setting", !.sched = s,
                                !.found = (schedule[s].status # "none")]
<1>1. r \in DrillRow /\ r.pc = "setting" /\ r.sched = s /\ r.todo = {}
  BY RestingRow DEF DrillRow, Resting
<1>2. /\ Does(c, r) /\ file' = file
      /\ UNCHANGED <<outboxVars, schedule, second, wanted, runs, settled, crossed>>
  BY DEF SetRead
<1> HIDE DEF r
<1>3. drill'[c] = r
  BY <1>1, <1>2, DoesFacts DEF DrillInv
<1>4. SchedulerOK(c)'
  BY <1>1, <1>3 DEF SchedulerOK, Running
<1>5. file' \subseteq Artifact
  BY <1>2 DEF DrillInv, DrillTypeOK
<1>6. PICK q \in DrillRow : q = r
  BY <1>1
<1> QED
  BY <1>2, <1>4, <1>5, <1>6, DrillOnly

\* A drill that is running goes on with the same schedule in hand.
LEMMA RunsOn ==
    ASSUME DrillInv, OutboxInv', NEW c \in Scheduler, drill[c].pc \in Running, NEW pc \in Running,
           Does(c, [drill[c] EXCEPT !.pc = pc]), file' \subseteq Artifact,
           UNCHANGED <<outboxVars, schedule, second, wanted, runs, settled, crossed>>
    PROVE  DrillInv'
<1> DEFINE r == [drill[c] EXCEPT !.pc = pc]
<1>0. drill[c] \in DrillRow /\ SchedulerOK(c)
  BY DrillRows DEF DrillInv
<1>1. r \in DrillRow /\ r.pc = pc /\ r.sched = drill[c].sched /\ r.todo = drill[c].todo
  BY <1>0 DEF DrillRow, Running
<1> HIDE DEF r
<1>2. Does(c, r)
  BY DEF r
<1>3. drill'[c] = r
  BY <1>1, <1>2, DoesFacts DEF DrillInv
<1>4. SchedulerOK(c)'
  BY <1>0, <1>1, <1>3 DEF SchedulerOK, Holds, Running
<1>5. PICK q \in DrillRow : q = r
  BY <1>1
<1> QED
  BY <1>2, <1>4, <1>5, DrillOnly

LEMMA PathArtifact ==
    ASSUME DrillInv, NEW c \in Scheduler, drill[c].pc \in Running, NEW kind \in {"backup", "restored"}
    PROVE  file \cup {Path(c, kind)} \subseteq Artifact
<1>1. drill[c].sched \in Sched /\ drill[c].stamp \in 0 .. LastSecond /\ file \subseteq Artifact
  BY DrillRows DEF DrillInv, SchedulerOK, DrillTypeOK, DrillRow
<1> QED
  BY <1>1 DEF Path, Artifact

LEMMA CheckBackupInv ==
    ASSUME DrillInv, OutboxInv', NEW c \in Scheduler, CheckBackup(c)
    PROVE  DrillInv'
<1>1. drill[c].pc \in Running /\ "fail" \in Running /\ "copying" \in Running
  BY DEF CheckBackup, Running
<1>2. file' \subseteq Artifact
  BY DEF CheckBackup, DrillInv, DrillTypeOK
<1>3. \E pc \in Running : Does(c, [drill[c] EXCEPT !.pc = pc])
  BY <1>1 DEF CheckBackup
<1> QED
  BY <1>1, <1>2, <1>3, RunsOn DEF CheckBackup

LEMMA WriteBackupInv ==
    ASSUME DrillInv, OutboxInv', NEW c \in Scheduler, WriteBackup(c)
    PROVE  DrillInv'
<1>1. drill[c].pc \in Running /\ "restoring" \in Running
  BY DEF WriteBackup, Running
<1>2. file' \subseteq Artifact
  BY <1>1, PathArtifact DEF WriteBackup
<1> QED
  BY <1>1, <1>2, RunsOn DEF WriteBackup

LEMMA RestoreInv ==
    ASSUME DrillInv, OutboxInv', NEW c \in Scheduler, NEW outcome \in {"pass", "fail"},
           Restore(c, outcome)
    PROVE  DrillInv'
<1>1. drill[c].pc \in Running /\ outcome \in Running
  BY DEF Restore, Running
<1>2. file' \subseteq Artifact
  BY <1>1, PathArtifact DEF Restore
<1> QED
  BY <1>1, <1>2, RunsOn DEF Restore

LEMMA RestingScheduler ==
    ASSUME NEW c, drill'[c] = Resting
    PROVE  SchedulerOK(c)'
  BY RestingRow DEF SchedulerOK, Holds, Running

LEMMA DieInv ==
    ASSUME DrillInv, OutboxInv', NEW c \in Scheduler, Die(c)
    PROVE  DrillInv'
<1>1. Resting \in DrillRow /\ Does(c, Resting)
  BY RestingRow DEF Die
<1>2. drill'[c] = Resting
  BY <1>1, DoesFacts DEF DrillInv
<1>3. SchedulerOK(c)'
  BY <1>2, RestingScheduler
<1>4. file' \subseteq Artifact
  BY DEF Die, DrillInv, DrillTypeOK
<1>5. PICK q \in DrillRow : q = Resting
  BY <1>1
<1> QED
  BY <1>1, <1>3, <1>4, <1>5, DrillOnly DEF Die

LEMMA ClockTicksInv ==
    ASSUME DrillInv, OutboxInv', ClockTicks
    PROVE  DrillInv'
<1>1. DrillTypeOK'
  BY SecondAssumption DEF DrillInv, OutboxInv, DrillTypeOK, ClockTicks
<1>2. \A d \in Scheduler : SchedulerOK(d)'
  BY DEF DrillInv, SchedulerOK, Holds, ClockTicks
<1>3. \A s \in Sched : ScheduleOK(s)'
  BY DEF DrillInv, ScheduleOK, ClockTicks
<1>4. InboxShowsLastDrill'
  BY InboxAsBefore DEF ClockTicks
<1> QED
  BY <1>1, <1>2, <1>3, <1>4 DEF DrillInv

----------------------------------------------------------------------------
(* Steps on a schedule. *)

LEMMA FallDueInv ==
    ASSUME DrillInv, OutboxInv', NEW s \in Sched, FallDue(s)
    PROVE  DrillInv'
<1>0. /\ schedule[s].status = "active" /\ schedule[s] \in ScheduleRow
      /\ schedule \in [Sched -> ScheduleRow]
      /\ UNCHANGED <<outboxVars, second, file, drill, settled>>
  BY DrillRows DEF DrillInv, FallDue
<1>1. Keeps(s, Scheduler, wanted \cup {s}, 0)
  BY DEF FallDue
<1>2. /\ schedule' \in [Sched -> ScheduleRow] /\ schedule'[s].due = TRUE
      /\ schedule'[s].status = "active" /\ schedule'[s].last = schedule[s].last
      /\ \A t \in Sched : t # s => schedule'[t] = schedule[t]
  BY <1>0 DEF FallDue, ScheduleRow
<1>3. runs' \in [Sched -> 0 .. 2] /\ runs'[s] = 0
  BY <1>1, KeepsRuns DEF DrillInv
<1>4. crossed' \subseteq Sched /\ wanted' \subseteq Sched
  BY <1>1, KeepsFacts DEF DrillInv, DrillTypeOK
<1>5. DrillTypeOK'
  BY <1>0, <1>2, <1>3, <1>4 DEF DrillInv, OutboxInv, DrillTypeOK, ScheduleRow
<1>6. \A d \in Scheduler : SchedulerOK(d)'
  BY <1>0, <1>1, <1>2, OtherScheduler
<1>7. ASSUME NEW t \in Sched PROVE ScheduleOK(t)'
  <2>1. CASE t # s
    BY <2>1, <1>1, <1>2, OtherSchedule
  <2>2. CASE t = s
    <3>1. s \in crossed' => s \notin wanted'
      BY <1>1, KeepsFacts
    <3> QED
      BY <2>2, <3>1, <1>2, <1>3 DEF ScheduleOK
  <2> QED
    BY <2>1, <2>2
<1>8. InboxShowsLastDrill'
  <2>1. \A t \in Sched : schedule'[t].last = schedule[t].last
    BY <1>2
  <2> QED
    BY <2>1, <1>0, InboxAsBefore
<1> QED
  BY <1>5, <1>6, <1>7, <1>8 DEF DrillInv

\* A step of c that commits on the schedule s.
LEMMA ScheduleStep ==
    ASSUME DrillInv, OutboxInv', NEW c \in Scheduler, NEW s \in Sched, NEW W, NEW n \in 0 .. 2,
           Keeps(s, Scheduler \ {c}, W, n), W \subseteq wanted \cup {s},
           NEW r \in DrillRow, Does(c, r), schedule' \in [Sched -> ScheduleRow],
           \A t \in Sched : t # s => schedule'[t] = schedule[t],
           UNCHANGED <<second, file>>, settled' \subseteq Sched,
           SchedulerOK(c)', ScheduleOK(s)', InboxShowsLastDrill'
    PROVE  DrillInv'
<1>1. /\ drill' \in [Scheduler -> DrillRow] /\ drill'[c] = r
      /\ \A d \in Scheduler : d # c => drill'[d] = drill[d]
  BY DoesFacts DEF DrillInv
<1>2. runs' \in [Sched -> 0 .. 2]
  BY KeepsRuns DEF DrillInv
<1>3. crossed' \subseteq Sched /\ wanted' \subseteq Sched
  BY KeepsFacts DEF DrillInv, DrillTypeOK
<1>4. DrillTypeOK'
  BY <1>1, <1>2, <1>3 DEF DrillInv, OutboxInv, DrillTypeOK, ScheduleRow, DrillRow
<1>5. ASSUME NEW d \in Scheduler PROVE SchedulerOK(d)'
  <2>1. CASE d # c
    <3>1. d \in Scheduler \ {c} /\ drill'[d] = drill[d]
      BY <2>1, <1>1
    <3> QED
      BY <3>1, OtherScheduler
  <2> QED
    BY <2>1
<1>6. ASSUME NEW t \in Sched PROVE ScheduleOK(t)'
  <2>1. CASE t # s
    BY <2>1, OtherSchedule
  <2> QED
    BY <2>1
<1> QED
  BY <1>4, <1>5, <1>6 DEF DrillInv

LEMMA SetCommitInv ==
    ASSUME DrillInv, OutboxInv', NEW c \in Scheduler, NEW status \in {"active", "paused"},
           NEW due \in BOOLEAN, NEW retain \in BOOLEAN, SetCommit(c, status, due, retain)
    PROVE  DrillInv'
<1>1. PICK s \in Sched : s = drill[c].sched
  BY DEF SetCommit, DrillInv, SchedulerOK
<1> DEFINE W == IF status = "active" /\ due THEN wanted \cup {s} ELSE wanted \ {s}
           row == [schedule[s] EXCEPT !.status = status, !.due = due, !.retain = retain]
<1>2. /\ Keeps(s, Scheduler \ {c}, W, 0) /\ Does(c, Resting)
      /\ schedule' = [schedule EXCEPT ![s] = row]
      /\ UNCHANGED <<outboxVars, second, file, settled>>
  BY <1>1 DEF SetCommit
<1>3. schedule \in [Sched -> ScheduleRow] /\ schedule[s] \in ScheduleRow
  BY DrillRows DEF DrillInv
<1>4. row \in ScheduleRow /\ row.status = status /\ row.due = due /\ row.last = schedule[s].last
  BY <1>3 DEF ScheduleRow
<1> HIDE DEF row
<1>5. /\ schedule' \in [Sched -> ScheduleRow] /\ schedule'[s] = row
      /\ \A t \in Sched : t # s => schedule'[t] = schedule[t]
  BY <1>2, <1>3, <1>4
<1>6. W \subseteq wanted \cup {s} /\ (s \in W => status = "active" /\ due = TRUE)
  OBVIOUS
<1> HIDE DEF W
<1>7. Resting \in DrillRow /\ drill'[c] = Resting
  BY <1>2, RestingRow, DoesFacts DEF DrillInv
<1>8. SchedulerOK(c)'
  BY <1>7, RestingScheduler
<1>9. runs'[s] = 0
  BY <1>2, KeepsRuns DEF DrillInv
<1>10. ScheduleOK(s)'
  <2>1. (s \in crossed' => s \notin wanted') /\ (s \in wanted' => s \in W)
    BY <1>2, KeepsFacts
  <2> QED
    BY <2>1, <1>4, <1>5, <1>6, <1>9 DEF ScheduleOK
<1>11. InboxShowsLastDrill'
  <2>1. \A t \in Sched : schedule'[t].last = schedule[t].last
    BY <1>4, <1>5
  <2> QED
    BY <2>1, <1>2, InboxAsBefore
<1>12. settled' \subseteq Sched
  BY <1>2 DEF DrillInv, DrillTypeOK
<1>13. PICK q \in DrillRow : q = Resting
  BY <1>7
<1>14. 0 \in 0 .. 2
  OBVIOUS
<1> QED
  BY <1>2, <1>5, <1>6, <1>8, <1>10, <1>11, <1>12, <1>13, <1>14, ScheduleStep

LEMMA BeginInv ==
    ASSUME DrillInv, OutboxInv', NEW c \in Scheduler, NEW s \in Sched, Begin(c, s)
    PROVE  DrillInv'
<1> DEFINE r == [drill[c] EXCEPT !.pc = "begun", !.todo = @ \ {s}, !.sched = s,
                                 !.stamp = IF schedule[s].retain THEN second ELSE 0,
                                 !.retain = schedule[s].retain]
<1>0. /\ drill[c] \in DrillRow /\ SchedulerOK(c) /\ schedule[s] \in ScheduleRow /\ ScheduleOK(s)
      /\ second \in 0 .. LastSecond /\ schedule \in [Sched -> ScheduleRow]
  BY DrillRows DEF DrillInv, DrillTypeOK
<1>1. /\ drill[c].pc = "listed" /\ s \in drill[c].todo
      /\ Does(c, r) /\ Keeps(s, Scheduler \ {c}, wanted \ {s}, runs[s])
      /\ UNCHANGED <<outboxVars, schedule, second, file, settled>>
  BY DEF Begin
<1>2. (IF schedule[s].retain THEN second ELSE 0) \in 0 .. LastSecond
  BY <1>0, SecondAssumption
<1>3. r \in DrillRow /\ r.pc = "begun" /\ r.sched = s /\ r.todo = drill[c].todo \ {s}
  BY <1>0, <1>2 DEF DrillRow, ScheduleRow
<1> HIDE DEF r
<1>4. drill'[c] = r
  BY <1>1, <1>3, DoesFacts DEF DrillInv
<1>5. crossed \subseteq crossed' /\ s \notin wanted'
  BY <1>1, KeepsFacts
<1>6. SchedulerOK(c)'
  <2>1. Holds(c)' \subseteq Holds(c)
    BY <1>1, <1>3, <1>4 DEF Holds
  <2>2. \A t \in Holds(c)' \ crossed' : schedule'[t].due = TRUE
    BY <2>1, <1>0, <1>1, <1>5 DEF SchedulerOK
  <2> QED
    BY <2>2, <1>3, <1>4, <1>5 DEF SchedulerOK, Running
<1>7. runs[s] \in 0 .. 2
  BY DEF DrillInv, DrillTypeOK
<1>8. ScheduleOK(s)'
  <2>1. runs'[s] = IF s \in crossed' THEN 0 ELSE runs[s]
    BY <1>1, <1>7, KeepsRuns DEF DrillInv
  <2> QED
    BY <2>1, <1>0, <1>1, <1>5 DEF ScheduleOK
<1>9. InboxShowsLastDrill'
  BY <1>1, InboxAsBefore
<1>10. settled' \subseteq Sched
  BY <1>1 DEF DrillInv, DrillTypeOK
<1>11. PICK q \in DrillRow : q = r
  BY <1>3
<1>12. PICK n \in 0 .. 2 : n = runs[s]
  BY <1>7
<1>13. PICK W : W = wanted \ {s}
  OBVIOUS
<1>14. Keeps(s, Scheduler \ {c}, W, n) /\ W \subseteq wanted \cup {s}
  BY <1>1, <1>12, <1>13
<1>15. schedule' \in [Sched -> ScheduleRow] /\ \A t \in Sched : t # s => schedule'[t] = schedule[t]
  BY <1>0, <1>1
<1> QED
  BY <1>1, <1>6, <1>8, <1>9, <1>10, <1>11, <1>14, <1>15, ScheduleStep

\* Listing what is not due counts as an overlap.
LEMMA ListDueInv ==
    ASSUME DrillInv, OutboxInv', NEW c \in Scheduler, NEW any \in BOOLEAN, ListDue(c, any)
    PROVE  DrillInv'
<1> DEFINE listed == {s \in Sched : schedule[s].status = "active" /\ (any \/ schedule[s].due)}
           r == [Resting EXCEPT !.pc = "listed", !.todo = listed]
<1>1. /\ Does(c, r) /\ wanted' = wanted \ crossed'
      /\ crossed' = IF any THEN crossed \cup {s \in listed : ~schedule[s].due} ELSE crossed
      /\ runs' = [s \in Sched |-> IF s \in crossed' THEN 0 ELSE runs[s]]
      /\ UNCHANGED <<outboxVars, schedule, second, file, settled>>
  BY DEF ListDue
<1>2. r \in DrillRow /\ r.pc = "listed" /\ r.sched = Nobody /\ r.todo = listed /\ listed \subseteq Sched
  BY RestingRow DEF DrillRow, Resting
<1> HIDE DEF r
<1>3. crossed \subseteq crossed' /\ crossed' \subseteq Sched
  BY <1>1 DEF DrillInv, DrillTypeOK
<1>4. \A s \in Sched : schedule[s].due \in BOOLEAN
  BY DrillRows DEF DrillInv, ScheduleRow
<1>5. \A s \in listed \ crossed' : schedule[s].due = TRUE
  BY <1>1, <1>4
<1> HIDE DEF listed
<1>6. /\ drill' \in [Scheduler -> DrillRow] /\ drill'[c] = r
      /\ \A d \in Scheduler : d # c => drill'[d] = drill[d]
  BY <1>1, <1>2, DoesFacts DEF DrillInv
<1>7. runs' \in [Sched -> 0 .. 2] /\ \A s \in Sched : runs'[s] = IF s \in crossed' THEN 0 ELSE runs[s]
  BY <1>1 DEF DrillInv, DrillTypeOK
<1>8. DrillTypeOK'
  BY <1>1, <1>3, <1>6, <1>7 DEF DrillInv, OutboxInv, DrillTypeOK, DrillRow
<1>9. ASSUME NEW d \in Scheduler PROVE SchedulerOK(d)'
  <2>1. CASE d = c
    <3>1. Holds(c)' = listed
      BY <1>2, <1>6, RestingRow DEF Holds
    <3>2. \A t \in Holds(c)' \ crossed' : schedule'[t].due = TRUE
      BY <3>1, <1>1, <1>5
    <3> QED
      BY <2>1, <3>2, <1>2, <1>6 DEF SchedulerOK, Running
  <2>2. CASE d # c
    <3>1. drill'[d] = drill[d] /\ SchedulerOK(d) /\ Holds(d)' = Holds(d)
      BY <2>2, <1>6 DEF DrillInv, Holds
    <3> QED
      BY <3>1, <1>1, <1>3 DEF SchedulerOK
  <2> QED
    BY <2>1, <2>2
<1>10. ASSUME NEW s \in Sched PROVE ScheduleOK(s)'
  <2>1. ScheduleOK(s)
    BY DEF DrillInv
  <2> QED
    BY <2>1, <1>1, <1>7 DEF ScheduleOK
<1>11. InboxShowsLastDrill'
  BY <1>1, InboxAsBefore
<1> QED
  BY <1>8, <1>9, <1>10, <1>11 DEF DrillInv

\* Raising the notification of t leaves one open, and those of other targets alone.
LEMMA RaiseOpens ==
    ASSUME OutboxTypeOK, NEW t \in Target, Raise(t)
    PROVE  OpenFor(t)' # {} /\ \A u \in Target : u # t => OpenFor(u)' = OpenFor(u)
<1>1. CASE OpenFor(t) # {} /\ UNCHANGED notice
  BY <1>1 DEF OpenFor
<1>2. ASSUME NEW n \in Notice, notice[n].status = "none",
             notice' = [notice EXCEPT ![n] = [NoNotice EXCEPT !.status = "open", !.target = t]]
      PROVE  OpenFor(t)' # {} /\ \A u \in Target : u # t => OpenFor(u)' = OpenFor(u)
  <2>1. /\ notice'[n].status = "open" /\ notice'[n].target = t
        /\ \A m \in Notice : m # n => notice'[m] = notice[m]
    BY <1>2 DEF OutboxTypeOK, NoNotice
  <2> QED
    BY <1>2, <2>1 DEF OpenFor, Unresolved
<1> QED
  BY <1>1, <1>2 DEF Raise

LEMMA RecordInv ==
    ASSUME DrillInv, OutboxInv', NEW c \in Scheduler, Record(c)
    PROVE  DrillInv'
<1>0. drill[c].pc \in {"pass", "fail"} /\ drill[c] \in DrillRow /\ SchedulerOK(c) /\ OutboxTypeOK
  BY DrillRows DEF DrillInv, Record, OutboxInv
<1>1. PICK s \in Sched : s = drill[c].sched
  BY <1>0 DEF SchedulerOK, Running
<1> DEFINE outcome == drill[c].pc
           rest == drill[c].todo
           r == IF rest = {} THEN Resting ELSE [Resting EXCEPT !.pc = "listed", !.todo = rest]
           m == IF runs[s] = 2 THEN 2 ELSE runs[s] + 1
           row == [schedule[s] EXCEPT !.last = outcome, !.due = FALSE]
<1>2. /\ Ends(s, outcome) /\ settled' = settled \ {s}
      /\ Keeps(s, Scheduler \ {c}, wanted, m) /\ Does(c, r)
      /\ UNCHANGED <<delivery, tries, arrived, again, second, file>>
  BY <1>1 DEF Record
<1>3. /\ schedule \in [Sched -> ScheduleRow] /\ schedule[s] \in ScheduleRow /\ ScheduleOK(s)
      /\ runs[s] \in 0 .. 2
  BY DrillRows DEF DrillInv, DrillTypeOK
<1>4. /\ row \in ScheduleRow /\ row.last = outcome /\ row.due = FALSE
  BY <1>0, <1>3 DEF ScheduleRow
<1>5. schedule' = [schedule EXCEPT ![s] = row]
  BY <1>2 DEF Ends
<1> HIDE DEF row
<1>6. /\ schedule' \in [Sched -> ScheduleRow] /\ schedule'[s] = row
      /\ \A t \in Sched : t # s => schedule'[t] = schedule[t]
  BY <1>3, <1>4, <1>5
<1>7. m \in 0 .. 2 /\ (runs[s] = 0 => m = 1)
  BY <1>3
<1> HIDE DEF m
<1>8. /\ r \in DrillRow /\ r.pc \in {"idle", "listed"} /\ r.sched = Nobody /\ r.todo = rest
      /\ r.pc = "idle" => rest = {}
  BY <1>0, RestingRow DEF DrillRow, Resting
<1> HIDE DEF r
<1>9. drill'[c] = r
  BY <1>2, <1>8, DoesFacts DEF DrillInv
<1>10. s \in Holds(c) /\ rest \subseteq Holds(c) \ {s} /\ (s \in crossed \/ s \notin wanted)
  BY <1>0, <1>1 DEF Holds, SchedulerOK, Running
<1>11. crossed \subseteq crossed' /\ wanted' = wanted \ crossed'
  BY <1>2, KeepsFacts
<1>12. SchedulerOK(c)'
  <2>1. Holds(c)' = rest
    BY <1>8, <1>9, RestingRow DEF Holds
  <2>2. \A t \in rest \ crossed' : t # s /\ t \in Sched /\ schedule[t].due = TRUE
    BY <1>0, <1>10, <1>11 DEF SchedulerOK, DrillRow
  <2>3. \A t \in Holds(c)' \ crossed' : schedule'[t].due = TRUE
    BY <2>1, <2>2, <1>6
  <2> QED
    BY <2>3, <1>8, <1>9 DEF SchedulerOK, Running
<1>13. ScheduleOK(s)'
  <2>1. runs'[s] = IF s \in crossed' THEN 0 ELSE m
    BY <1>2, <1>7, KeepsRuns DEF DrillInv
  <2>2. s \notin crossed' => runs[s] = 0
    BY <1>0, <1>3, <1>10, <1>11 DEF SchedulerOK, ScheduleOK
  <2>3. s \notin wanted'
    BY <1>10, <1>11
  <2> QED
    BY <2>1, <2>2, <2>3, <1>4, <1>6, <1>7 DEF ScheduleOK
<1>14. InboxShowsLastDrill'
  <2>0. s \in Target /\ \A t \in Sched : t \in Target
    BY SchedAssumption
  <2>1. CASE outcome = "fail"
    <3>1. Raise(s) /\ raced' = raced
      BY <1>2, <2>1 DEF Ends
    <3>2. OpenFor(s)' # {} /\ \A u \in Target : u # s => OpenFor(u)' = OpenFor(u)
      BY <1>0, <2>0, <3>1, RaiseOpens
    <3> QED
      BY <1>2, <1>4, <1>6, <2>0, <2>1, <3>1, <3>2 DEF InboxShowsLastDrill, DrillInv
  <2>2. CASE outcome = "pass"
    <3>1. Clear(s) /\ raced \subseteq raced'
      BY <1>2, <2>2 DEF Ends
    <3>2. OpenFor(s)' = {} /\ \A u \in Target : u # s => OpenFor(u)' = OpenFor(u)
      BY <1>0, <2>0, <3>1, ClearFacts
    <3> QED
      BY <1>2, <1>4, <1>6, <2>0, <2>2, <3>1, <3>2 DEF InboxShowsLastDrill, DrillInv
  <2> QED
    BY <1>0, <2>1, <2>2
<1>15. settled' \subseteq Sched
  BY <1>2 DEF DrillInv, DrillTypeOK
<1>16. PICK q \in DrillRow : q = r
  BY <1>8
<1>17. PICK k \in 0 .. 2 : k = m
  BY <1>7
<1>18. PICK W : W = wanted
  OBVIOUS
<1>19. Keeps(s, Scheduler \ {c}, W, k) /\ W \subseteq wanted \cup {s} /\ Does(c, q)
  BY <1>2, <1>16, <1>17, <1>18
<1> QED
  BY <1>2, <1>6, <1>12, <1>13, <1>14, <1>15, <1>19, ScheduleStep

----------------------------------------------------------------------------
(* What the operators do to the drills' notifications. *)

LEMMA AckOpens ==
    ASSUME OutboxInv, NEW o \in Operator, AckCommit(o), NEW t
    PROVE  OpenFor(t) \subseteq OpenFor(t)' /\ OpenFor(t)' \subseteq OpenFor(t) \cup raced'
<1>1. PICK n \in call[o].held :
        /\ call[o].pc = "acking"
        /\ notice' = [notice EXCEPT ![n].status = "acknowledged"]
        /\ Races(o, {n})
  BY DEF AckCommit
<1>2. n \in Notice /\ (notice[n].status \in Unresolved \/ n \in raced)
  BY <1>1 DEF OutboxInv, OperationOK, TakenOK
<1>3. /\ \A m \in Notice : m # n => notice'[m] = notice[m]
      /\ notice'[n].status = "acknowledged" /\ notice'[n].target = notice[n].target
      /\ notice[n] \in NoticeRow
  BY <1>1, <1>2 DEF OutboxInv, OutboxTypeOK, NoticeRow
<1>4. raced \subseteq raced'
  BY <1>1, RacesFacts
<1> QED
  BY <1>2, <1>3, <1>4 DEF OpenFor, Unresolved

LEMMA ResolveOpens ==
    ASSUME OutboxInv, NEW o \in Operator, ResolveCommit(o)
    PROVE  /\ call[o].pc = "resolving" /\ raced \subseteq raced'
           /\ \A t : OpenFor(t)' \subseteq OpenFor(t)
           /\ \A t \in Target : OpenFor(t) # {} => \/ OpenFor(t)' # {}
                                                   \/ t \in {notice[n].target : n \in call[o].held}
<1>1. PICK n \in call[o].held :
        /\ call[o].pc = "resolving"
        /\ notice' = [notice EXCEPT ![n].status = "resolved"]
        /\ Races(o, {n})
  BY DEF ResolveCommit
<1>2. n \in Notice
  BY <1>1 DEF OutboxInv, OperationOK
<1>3. /\ \A m \in Notice : m # n => notice'[m] = notice[m]
      /\ notice'[n].status = "resolved" /\ notice'[n].target = notice[n].target
      /\ notice[n] \in NoticeRow
  BY <1>1, <1>2 DEF OutboxInv, OutboxTypeOK, NoticeRow
<1>4. raced \subseteq raced'
  BY <1>1, RacesFacts
<1>5. \A t : OpenFor(t)' \subseteq OpenFor(t) /\ OpenFor(t) \ {n} \subseteq OpenFor(t)'
  BY <1>2, <1>3 DEF OpenFor, Unresolved
<1>6. \A t : n \in OpenFor(t) => t = notice[n].target
  BY DEF OpenFor
<1> QED
  BY <1>1, <1>4, <1>5, <1>6

LEMMA ByHandInv ==
    ASSUME DrillInv, OutboxInv', NEW o \in Operator, ByHand(o)
    PROVE  DrillInv'
<1>1. /\ UNCHANGED <<schedule, second, file, drill, wanted, runs, crossed>>
      /\ settled' = IF call[o].pc = "resolving"
                    THEN settled \cup ({notice[n].target : n \in call[o].held} \cap Sched)
                    ELSE settled
  BY DEF ByHand
<1>2. settled \subseteq settled' /\ settled' \subseteq Sched
  BY <1>1 DEF DrillInv, DrillTypeOK
<1>3. DrillTypeOK'
  BY <1>1, <1>2 DEF DrillInv, OutboxInv, DrillTypeOK
<1>4. \A d \in Scheduler : SchedulerOK(d)'
  BY <1>1 DEF DrillInv, SchedulerOK, Holds
<1>5. \A s \in Sched : ScheduleOK(s)'
  BY <1>1 DEF DrillInv, ScheduleOK
<1>6. InboxShowsLastDrill'
  <2>0. OutboxInv /\ InboxShowsLastDrill /\ Sched \subseteq Target
    BY SchedAssumption DEF DrillInv
  <2>1. CASE UNCHANGED <<outboxRows, outboxHistory>>
    <3>1. \A t : OpenFor(t)' = OpenFor(t)
      BY <2>1 DEF OpenFor, outboxRows
    <3> QED
      BY <1>1, <1>2, <2>0, <2>1, <3>1 DEF InboxShowsLastDrill, outboxHistory
  <2>2. CASE AckCommit(o)
    <3>1. \A t : OpenFor(t) \subseteq OpenFor(t)' /\ OpenFor(t)' \subseteq OpenFor(t) \cup raced'
      BY <2>0, <2>2, AckOpens
    <3>2. raced \subseteq raced'
      BY <2>2, RacesFacts DEF AckCommit
    <3> QED
      BY <1>1, <1>2, <2>0, <3>1, <3>2 DEF InboxShowsLastDrill
  <2>3. CASE ResolveCommit(o)
    <3>1. /\ call[o].pc = "resolving" /\ raced \subseteq raced'
          /\ \A t : OpenFor(t)' \subseteq OpenFor(t)
          /\ \A t \in Target : OpenFor(t) # {} => \/ OpenFor(t)' # {}
                                                  \/ t \in {notice[n].target : n \in call[o].held}
      BY <2>0, <2>3, ResolveOpens
    <3>2. \A s \in Sched : OpenFor(s) # {} => OpenFor(s)' # {} \/ s \in settled'
      BY <1>1, <2>0, <3>1
    <3> QED
      BY <1>1, <1>2, <2>0, <3>1, <3>2 DEF InboxShowsLastDrill
  <2> QED
    BY <2>1, <2>2, <2>3 DEF ByHand, TakeNotice, Leave
<1> QED
  BY <1>3, <1>4, <1>5, <1>6 DEF DrillInv

----------------------------------------------------------------------------
(* Restore drills: theorems. *)

LEMMA DrillInitInv == DrillInit => DrillInv
<1> SUFFICES ASSUME DrillInit PROVE DrillInv
  OBVIOUS
<1>1. OutboxInv
  BY OutboxInitInv DEF DrillInit
<1>2. NoSchedule \in ScheduleRow /\ NoSchedule.due = FALSE /\ NoSchedule.last = "none"
  BY DEF NoSchedule, ScheduleRow
<1>3. DrillTypeOK
  BY <1>1, <1>2, RestingRow, SecondAssumption
     DEF DrillInit, DrillTypeOK, OutboxInv, ScheduleRow, DrillRow
<1>4. \A c \in Scheduler : SchedulerOK(c)
  BY RestingRow DEF DrillInit, SchedulerOK, Holds, Running
<1>5. \A s \in Sched : ScheduleOK(s)
  BY <1>2 DEF DrillInit, ScheduleOK
<1>6. InboxShowsLastDrill
  BY <1>2 DEF DrillInit, InboxShowsLastDrill
<1> QED
  BY <1>1, <1>3, <1>4, <1>5, <1>6 DEF DrillInv

LEMMA DrillNextInv == DrillInv /\ [DrillNext]_allVars => DrillInv'
<1> SUFFICES ASSUME DrillInv, [DrillNext]_allVars PROVE DrillInv'
  OBVIOUS
<1>0. OutboxInv'
  BY DrillStepIsOutboxStep, OutboxNextInv DEF DrillInv
<1>1. ASSUME ClockTicks \/ \E s \in Sched : FallDue(s) PROVE DrillInv'
  BY <1>0, <1>1, ClockTicksInv, FallDueInv
<1>2. ASSUME NEW o \in Operator, ByHand(o) PROVE DrillInv'
  BY <1>0, <1>2, ByHandInv
<1>3. ASSUME NEW c \in Scheduler, NEW s \in Sched, SetRead(c, s) \/ Begin(c, s) PROVE DrillInv'
  BY <1>0, <1>3, SetReadInv, BeginInv
<1>4. ASSUME NEW c \in Scheduler,
             \E status \in {"active", "paused"}, due, retain \in BOOLEAN :
               SetCommit(c, status, due, retain)
      PROVE  DrillInv'
  BY <1>0, <1>4, SetCommitInv
<1>5. ASSUME NEW c \in Scheduler, NEW any \in BOOLEAN, ListDue(c, any) PROVE DrillInv'
  BY <1>0, <1>5, ListDueInv
<1>6. ASSUME NEW c \in Scheduler,
             \/ CheckBackup(c) \/ WriteBackup(c) \/ Record(c) \/ Die(c)
             \/ \E outcome \in {"pass", "fail"} : Restore(c, outcome)
      PROVE  DrillInv'
  BY <1>0, <1>6, CheckBackupInv, WriteBackupInv, RecordInv, DieInv, RestoreInv
<1>7. CASE UNCHANGED allVars
  <2>1. UNCHANGED <<outboxVars, settled>> /\ UNCHANGED drillVars
    BY <1>7 DEF allVars, drillVars
  <2>2. DrillTypeOK'
    BY <1>0, <2>1 DEF drillVars, DrillInv, DrillTypeOK, OutboxInv
  <2>3. (\A c \in Scheduler : SchedulerOK(c)') /\ \A s \in Sched : ScheduleOK(s)'
    BY <2>1 DEF drillVars, DrillInv, SchedulerOK, Holds, ScheduleOK
  <2>4. InboxShowsLastDrill'
    BY <2>1, InboxAsBefore DEF drillVars
  <2> QED
    BY <1>0, <2>2, <2>3, <2>4 DEF DrillInv
<1> QED
  BY <1>1, <1>2, <1>3, <1>4, <1>5, <1>6, <1>7 DEF DrillNext

LEMMA DrillInvHolds == DrillSpec => []DrillInv
<1> QED
  BY DrillInitInv, DrillNextInv, PTL DEF DrillSpec

\* The drills implement the inbox: whatever schedulers and operators do, each step is one
\* the inbox allows any component and operator, or leaves it alone; so what is proved of the
\* inbox alone holds beside the drills.
THEOREM DrillsUseTheInbox == DrillSpec => OutboxSpec
<1>1. DrillInit => OutboxInit
  BY DEF DrillInit
<1> QED
  BY <1>1, DrillInvHolds, DrillStepIsOutboxStep, PTL DEF DrillSpec, OutboxSpec

\* Schedules, artifacts and drills are what they should be; each running drill is of a
\* schedule that is there.
THEOREM DrillTypeCorrect == DrillSpec => []DrillTypeOK
<1>1. DrillInv => DrillTypeOK
  BY DEF DrillInv
<1> QED
  BY <1>1, DrillInvHolds, PTL

\* The inbox shows how the last drill of a schedule ended (run_due_restore_drill_schedules).
THEOREM InboxTellsOfDrills == DrillSpec => []InboxShowsLastDrill
<1>1. DrillInv => InboxShowsLastDrill
  BY DEF DrillInv
<1> QED
  BY <1>1, DrillInvHolds, PTL

\* A schedule that is due is run, and once, as long as operations on it do not overlap.
THEOREM DrillsAreDueOnce == DrillSpec => []DrillsRunWhenDue
<1>1. DrillInv => DrillsRunWhenDue
  <2>1. DrillInv => OneRunPerPeriod
    BY DEF DrillInv, ScheduleOK, OneRunPerPeriod
  <2>2. DrillInv => DueUntilRun
    BY DEF DrillInv, ScheduleOK, DueUntilRun, DrillTypeOK
  <2> QED
    BY <2>1, <2>2 DEF DrillsRunWhenDue
<1> QED
  BY <1>1, DrillInvHolds, PTL


----------------------------------------------------------------------------
(***************************************************************************)
(* The audit chain.                                                        *)
(***************************************************************************)

\* A non-empty set of numbers has a least one.
LEMMA LowestExists ==
    ASSUME NEW I, I \subseteq Nat, I # {}
    PROVE  \E i \in I : \A j \in I : i <= j
<1> DEFINE R == {ss \in Nat \X Nat : ss[1] < ss[2]}
<1>1. IsWellFoundedOn(R, Nat)
  BY NatLessThanWellFounded DEF OpToRel
<1>2. PICK i \in I : \A j \in I : <<j, i>> \notin R
  <2> HIDE DEF R
  <2> QED
    BY <1>1, WFMin
<1>3. ASSUME NEW j \in I
      PROVE  i <= j
  <2>1. <<j, i>> \notin R
    BY <1>2
  <2>2. ~(j < i)
    BY <2>1
  <2> QED
    BY <2>2
<1> QED
  BY <1>3

\* What Highest chooses from the places of a log is the greatest of them.
LEMMA HighestIsGreatest ==
    ASSUME NEW n \in Nat, NEW I, I \subseteq 1 .. n, I # {}
    PROVE  Highest(I) \in I /\ \A j \in I : j <= Highest(I)
<1> DEFINE T == {n - i : i \in I}
<1>1. \A i \in I : n - i \in Nat
  OBVIOUS
<1>2. T \subseteq Nat /\ T # {}
  BY <1>1
<1>3. \E t \in T : \A u \in T : t <= u
  <2> HIDE DEF T
  <2> QED
    BY <1>2, LowestExists
<1>4. PICK i \in I : \A u \in T : n - i <= u
  BY <1>3
<1>5. \A j \in I : n - i <= n - j
  BY <1>4
<1>6. \A j \in I : j <= i
  BY <1>5
<1> QED
  BY <1>6 DEF Highest

\* The fields of a row.
LEMMA RowFields ==
    ASSUME NEW r \in Rows
    PROVE  r.id \in 0 .. MaxRow /\ r.prev \in 0 .. MaxRow /\ r.signed \in BOOLEAN
           /\ r.intact \in BOOLEAN
BY DEF Rows

LEMMA NewRowType ==
    ASSUME NEW i \in 0 .. MaxRow, NEW p \in 0 .. MaxRow
    PROVE  Row(i, p) \in Rows
BY DEF Row, Rows

\* The places of the signed rows.
LEMMA SignedPlaces ==
    ASSUME NEW l \in Seq(Rows)
    PROVE  /\ Len(l) \in Nat
           /\ \A i : i \in Signed(l) <=> i \in 1 .. Len(l) /\ l[i].signed
           /\ \A i \in 1 .. Len(l) : l[i] \in Rows
BY DEF Signed

\* The id of the highest of some places, and 0 for none.
LEMMA LastOfPlaces ==
    ASSUME NEW l \in Seq(Rows), NEW I, I \subseteq Signed(l)
    PROVE  /\ LastOf(l, I) \in 0 .. MaxRow
           /\ I = {} => LastOf(l, I) = 0
           /\ I # {} => \E h \in I : LastOf(l, I) = l[h].id /\ \A j \in I : j <= h
<1>1. I \subseteq 1 .. Len(l) /\ Len(l) \in Nat
  BY SignedPlaces
<1>2. CASE I = {}
  BY <1>2, BoundAssumption DEF LastOf
<1>3. CASE I # {}
  <2>1. Highest(I) \in I /\ \A j \in I : j <= Highest(I)
    BY <1>1, <1>3, HighestIsGreatest
  <2>2. LastOf(l, I) = l[Highest(I)].id
    BY <1>3 DEF LastOf
  <2>3. l[Highest(I)] \in Rows
    BY <1>1, <2>1, SignedPlaces
  <2> QED
    BY <1>3, <2>1, <2>2, <2>3, RowFields
<1> QED
  BY <1>2, <1>3

LEMMA LastType ==
    ASSUME NEW l \in Seq(Rows)
    PROVE  Last(l) \in 0 .. MaxRow
BY LastOfPlaces DEF Last

\* What two logs that agree on some places say of them is the same.
LEMMA LastOfAgrees ==
    ASSUME NEW l, NEW k, NEW n \in Nat, NEW I, I \subseteq 1 .. n,
           \A i \in I : l[i].id = k[i].id
    PROVE  LastOf(l, I) = LastOf(k, I)
<1>1. I # {} => Highest(I) \in I
  BY HighestIsGreatest
<1> QED
  BY <1>1 DEF LastOf

----------------------------------------------------------------------------
(* A row is appended. *)

LEMMA AppendedRows ==
    ASSUME NEW l \in Seq(Rows), NEW r \in Rows, r.signed
    PROVE  /\ Append(l, r) \in Seq(Rows)
           /\ Len(Append(l, r)) = Len(l) + 1
           /\ Append(l, r)[Len(l) + 1] = r
           /\ \A i \in 1 .. Len(l) : Append(l, r)[i] = l[i]
           /\ Signed(Append(l, r)) = Signed(l) \cup {Len(l) + 1}
           /\ Before(Append(l, r), Len(l) + 1) = Signed(l)
           /\ \A i \in Signed(l) : Before(Append(l, r), i) = Before(l, i)
<1> DEFINE k == Append(l, r)
<1>1. /\ k \in Seq(Rows) /\ Len(k) = Len(l) + 1 /\ k[Len(l) + 1] = r
      /\ \A i \in 1 .. Len(l) : k[i] = l[i]
  BY AppendProperties
<1>2. Len(l) \in Nat
  OBVIOUS
<1> HIDE DEF k
<1>3. \A i : i \in Signed(k) <=> i \in Signed(l) \cup {Len(l) + 1}
  BY <1>1, <1>2, SignedPlaces
<1>4. Signed(k) = Signed(l) \cup {Len(l) + 1}
  BY <1>3
<1>5. \A i \in Signed(l) : i \in 1 .. Len(l)
  BY SignedPlaces
<1>6. Before(k, Len(l) + 1) = Signed(l)
  BY <1>2, <1>4, <1>5 DEF Before
<1>7. \A i \in Signed(l) : Before(k, i) = Before(l, i)
  BY <1>2, <1>4, <1>5 DEF Before
<1> QED
  BY <1>1, <1>4, <1>6, <1>7 DEF k

\* A row that names its predecessor leaves a sound log sound.
LEMMA AppendKeepsReport ==
    ASSUME NEW l \in Seq(Rows), NEW r \in Rows, r.signed, r.intact, r.prev = Last(l), ~Fails(l)
    PROVE  ~Fails(Append(l, r))
<1> DEFINE k == Append(l, r)
<1>1. /\ Len(k) = Len(l) + 1 /\ k[Len(l) + 1] = r
      /\ \A i \in 1 .. Len(l) : k[i] = l[i]
      /\ Signed(k) = Signed(l) \cup {Len(l) + 1}
      /\ Before(k, Len(l) + 1) = Signed(l)
      /\ \A i \in Signed(l) : Before(k, i) = Before(l, i)
  BY AppendedRows
<1>2. Len(l) \in Nat /\ Signed(l) \subseteq 1 .. Len(l)
  BY SignedPlaces
<1> HIDE DEF k
<1>3. \A I : I \subseteq Signed(l) => LastOf(k, I) = LastOf(l, I)
  <2> SUFFICES ASSUME NEW I, I \subseteq Signed(l)
               PROVE  LastOf(k, I) = LastOf(l, I)
    OBVIOUS
  <2>1. I \subseteq 1 .. Len(l) /\ \A i \in I : k[i].id = l[i].id
    BY <1>1, <1>2
  <2> QED
    BY <1>2, <2>1, LastOfAgrees
<1>4. ASSUME NEW i \in Signed(l)
      PROVE  k[i].intact /\ k[i].prev = LastOf(k, Before(k, i))
  <2>1. l[i].intact /\ l[i].prev = LastOf(l, Before(l, i))
    BY DEF Fails
  <2>2. k[i] = l[i] /\ Before(k, i) = Before(l, i)
    BY <1>1, <1>2
  <2>3. LastOf(k, Before(l, i)) = LastOf(l, Before(l, i))
    BY <1>3 DEF Before
  <2> QED
    BY <2>1, <2>2, <2>3
<1>5. r.prev = LastOf(k, Before(k, Len(l) + 1))
  BY <1>1, <1>3 DEF Last
<1>6. \A i \in Signed(k) : k[i].intact /\ k[i].prev = LastOf(k, Before(k, i))
  BY <1>1, <1>4, <1>5
<1>7. ~Fails(k)
  BY <1>6 DEF Fails
<1> QED
  BY <1>7 DEF k

\* The ids of a log with one more row, and the row that is its last.
LEMMA AppendedIds ==
    ASSUME NEW l \in Seq(Rows), NEW r \in Rows, r.signed
    PROVE  /\ Ids(Append(l, r)) = Ids(l) \cup {r.id}
           /\ Last(Append(l, r)) = Append(l, r)[Len(Append(l, r))].id
<1> DEFINE k == Append(l, r)
<1>1. /\ k \in Seq(Rows) /\ Len(k) = Len(l) + 1 /\ k[Len(l) + 1] = r
      /\ \A i \in 1 .. Len(l) : k[i] = l[i]
      /\ Signed(k) = Signed(l) \cup {Len(l) + 1}
  BY AppendedRows
<1>2. Len(l) \in Nat /\ Signed(l) \subseteq 1 .. Len(l)
  BY SignedPlaces
<1> HIDE DEF k
<1>3. \A i \in Signed(l) : k[i] = l[i]
  BY <1>1, <1>2
<1>4. Ids(k) = Ids(l) \cup {r.id}
  BY <1>1, <1>3 DEF Ids
<1>5. PICK h \in Signed(k) : LastOf(k, Signed(k)) = k[h].id /\ \A j \in Signed(k) : j <= h
  BY <1>1, LastOfPlaces
<1>6. h = Len(l) + 1
  BY <1>1, <1>2, <1>5
<1>7. Last(k) = k[Len(k)].id
  BY <1>1, <1>5, <1>6 DEF Last
<1> QED
  BY <1>4, <1>7 DEF k

----------------------------------------------------------------------------
(* A row is changed, or removed. *)

Changed(l, i) == [l EXCEPT ![i].intact = FALSE]
Removed(l, i) == [j \in 1 .. Len(l) - 1 |-> IF j < i THEN l[j] ELSE l[j + 1]]

LEMMA ChangedRows ==
    ASSUME NEW l \in Seq(Rows), NEW i \in Signed(l), NEW k,
           k = Changed(l, i)
    PROVE  /\ k \in Seq(Rows)
           /\ Len(k) = Len(l)
           /\ \A j \in 1 .. Len(l) : k[j].id = l[j].id /\ k[j].prev = l[j].prev
                                     /\ k[j].signed = l[j].signed
                                     /\ k[j].intact = (l[j].intact /\ j # i)
           /\ Signed(k) = Signed(l)
           /\ Ids(k) = Ids(l)
<1>1. Len(l) \in Nat /\ i \in 1 .. Len(l) /\ \A j \in 1 .. Len(l) : l[j] \in Rows
  BY SignedPlaces
<1>2. l = [j \in 1 .. Len(l) |-> l[j]]
  OBVIOUS
<1>3. [l[i] EXCEPT !.intact = FALSE] \in Rows
  BY <1>1 DEF Rows
<1>4. /\ [l[i] EXCEPT !.intact = FALSE].id = l[i].id
      /\ [l[i] EXCEPT !.intact = FALSE].prev = l[i].prev
      /\ [l[i] EXCEPT !.intact = FALSE].signed = l[i].signed
      /\ [l[i] EXCEPT !.intact = FALSE].intact = FALSE
  BY <1>1 DEF Rows
<1>5. k = [j \in 1 .. Len(l) |-> IF j = i THEN [l[i] EXCEPT !.intact = FALSE] ELSE l[j]]
  BY <1>1, <1>2 DEF Changed
<1>6. k \in [1 .. Len(l) -> Rows]
  BY <1>1, <1>3, <1>5
<1>7. k \in Seq(Rows) /\ Len(k) = Len(l)
  BY <1>1, <1>6, SeqDef
<1>8. \A j \in 1 .. Len(l) : k[j] = IF j = i THEN [l[i] EXCEPT !.intact = FALSE] ELSE l[j]
  BY <1>5
<1>9. \A j \in 1 .. Len(l) : k[j].id = l[j].id /\ k[j].prev = l[j].prev
                             /\ k[j].signed = l[j].signed
  BY <1>4, <1>8
<1>10. \A j \in 1 .. Len(l) : k[j].intact = (l[j].intact /\ j # i)
  <2> SUFFICES ASSUME NEW j \in 1 .. Len(l)
               PROVE  k[j].intact = (l[j].intact /\ j # i)
    OBVIOUS
  <2>1. l[j].intact \in BOOLEAN
    BY <1>1, RowFields
  <2>2. CASE j = i
    BY <2>2, <1>4, <1>8
  <2>3. CASE j # i
    BY <2>1, <2>3, <1>8
  <2> QED
    BY <2>2, <2>3
<1>11. Signed(k) = Signed(l)
  <2>1. \A j : j \in Signed(k) <=> j \in Signed(l)
    BY <1>7, <1>9, SignedPlaces
  <2> QED
    BY <2>1
<1>12. Signed(l) \subseteq 1 .. Len(l)
  BY SignedPlaces
<1>13. Ids(k) = Ids(l)
  BY <1>9, <1>11, <1>12 DEF Ids
<1> QED
  BY <1>7, <1>9, <1>10, <1>11, <1>13

\* The place a row had before the row at place i was removed.
Origin(i, j) == IF j < i THEN j ELSE j + 1

LEMMA RemainingRows ==
    ASSUME NEW l \in Seq(Rows), NEW i \in Signed(l), NEW k,
           k = Removed(l, i)
    PROVE  /\ k \in Seq(Rows)
           /\ \A j \in Signed(k) : Origin(i, j) \in Signed(l) /\ Origin(i, j) # i
                                   /\ k[j] = l[Origin(i, j)]
           /\ \A j, m \in Signed(k) : j < m <=> Origin(i, j) < Origin(i, m)
           /\ \A j, m \in Signed(k) : j = m <=> Origin(i, j) = Origin(i, m)
           /\ Ids(k) \subseteq Ids(l)
<1>1. Len(l) \in Nat /\ i \in 1 .. Len(l) /\ \A j \in 1 .. Len(l) : l[j] \in Rows
  BY SignedPlaces
<1>2. Len(l) - 1 \in Nat
  BY <1>1
<1>3. \A j \in 1 .. Len(l) - 1 : Origin(i, j) \in 1 .. Len(l) /\ Origin(i, j) # i
  BY <1>1 DEF Origin
<1>4. \A j \in 1 .. Len(l) - 1 : k[j] = l[Origin(i, j)]
  BY <1>1 DEF Origin, Removed
<1>5. k \in [1 .. Len(l) - 1 -> Rows]
  BY <1>1 DEF Removed
<1>6. k \in Seq(Rows) /\ Len(k) = Len(l) - 1
  BY <1>2, <1>5, SeqDef
<1>7. Signed(k) \subseteq 1 .. Len(l) - 1 /\ \A j \in Signed(k) : k[j].signed
  BY <1>6, SignedPlaces
<1>8. \A j \in Signed(k) : Origin(i, j) \in Signed(l) /\ Origin(i, j) # i
                           /\ k[j] = l[Origin(i, j)]
  BY <1>3, <1>4, <1>7, SignedPlaces
<1>9. \A j, m \in 1 .. Len(l) - 1 : /\ j < m <=> Origin(i, j) < Origin(i, m)
                                    /\ j = m <=> Origin(i, j) = Origin(i, m)
  BY <1>1 DEF Origin
<1>10. Ids(k) \subseteq Ids(l)
  BY <1>8 DEF Ids
<1> QED
  BY <1>6, <1>7, <1>8, <1>9, <1>10

----------------------------------------------------------------------------
(* Types. *)

BackupFile == [state : {"none", "sound", "damaged"}, log : Seq(Rows), row : 0 .. MaxRow]
TargetFile == [state : {"none", "old", "gone", "copied", "restored"}, log : Seq(Rows),
               row : 0 .. MaxRow]
Doing == [pc : {"idle", "refusing", "backing", "copying"}, prev : 0 .. MaxRow, row : 0 .. MaxRow]

\* ChainTypeOK, with the types of the records' other fields.
ChainTypes ==
    /\ log \in Seq(Rows) /\ written \in 0 .. MaxRow /\ writer \in [Writer -> Doing]
    /\ backup \in BackupFile /\ target \in TargetFile
    /\ restoring \in {"no", "checked", "removed", "copied"}
    /\ altered \subseteq 0 .. MaxRow /\ cut \subseteq (0 .. MaxRow) \X (0 .. MaxRow)
    /\ forked \in BOOLEAN /\ excused \in BOOLEAN

LEMMA ChainTypesImply == ChainTypes => ChainTypeOK
<1> SUFFICES ASSUME ChainTypes
             PROVE  ChainTypeOK
  OBVIOUS
<1>1. /\ backup.state \in {"none", "sound", "damaged"} /\ backup.log \in Seq(Rows)
      /\ target.state \in {"none", "old", "gone", "copied", "restored"} /\ target.log \in Seq(Rows)
  BY DEF ChainTypes, BackupFile, TargetFile
<1> QED
  BY <1>1 DEF ChainTypes, ChainTypeOK, Doing

LEMMA FreeType == Free \in Doing
BY BoundAssumption DEF Free, Doing

LEMMA LookedUpType ==
    ASSUME NEW pc \in {"refusing", "backing"}, NEW p \in 0 .. MaxRow
    PROVE  [Free EXCEPT !.pc = pc, !.prev = p] \in Doing
BY FreeType DEF Doing

LEMMA CopyingType ==
    ASSUME NEW r \in 0 .. MaxRow
    PROVE  [Free EXCEPT !.pc = "copying", !.row = r] \in Doing
BY FreeType DEF Doing

LEMMA NoFileType ==
    /\ NoFile \in BackupFile
    /\ \A s \in {"none", "old", "gone", "copied", "restored"} :
         /\ [NoFile EXCEPT !.state = s] = [state |-> s, log |-> <<>>, row |-> 0]
         /\ [NoFile EXCEPT !.state = s] \in TargetFile
<1>1. 0 \in 0 .. MaxRow /\ <<>> \in Seq(Rows)
  BY BoundAssumption
<1>2. \A s : [NoFile EXCEPT !.state = s] = [state |-> s, log |-> <<>>, row |-> 0]
  BY DEF NoFile
<1> QED
  BY <1>1, <1>2 DEF NoFile, BackupFile, TargetFile

LEMMA ChainTypesInit == ChainInit => ChainTypes
<1> SUFFICES ASSUME ChainInit
             PROVE  ChainTypes
  OBVIOUS
<1> USE DEF ChainInit
<1>1. Legacy \in Rows
  BY BoundAssumption DEF Legacy, Rows
<1>2. log \in Seq(Rows)
  <2>1. <<>> \in Seq(Rows) /\ <<Legacy>> \in Seq(Rows)
    BY <1>1
  <2> QED
    BY <2>1
<1>3. written \in 0 .. MaxRow
  BY BoundAssumption
<1>4. writer \in [Writer -> Doing]
  BY FreeType
<1>5. backup \in BackupFile
  BY NoFileType
<1>6. target \in TargetFile
  <2>1. NoFile = [NoFile EXCEPT !.state = "none"]
    BY DEF NoFile
  <2> QED
    BY <2>1, NoFileType
<1> QED
  BY <1>2, <1>3, <1>4, <1>5, <1>6 DEF ChainTypes

\* What a removal tells of the row that followed.
LEMMA RemoveTells ==
    ASSUME log \in Seq(Rows), NEW i, Remove(i)
    PROVE  /\ i \in Signed(log) /\ log' = Removed(log, i)
           /\ UNCHANGED <<written, writer, backup, target, restoring, forked, altered, excused>>
           /\ \E f : /\ cut' = cut \cup {<<log[i].id, f>>}
                     /\ \/ f = 0
                        \/ \E m \in Signed(log) : /\ f = log[m].id /\ i < m
                                                  /\ \A j \in Signed(log) : i < j => m <= j
<1> DEFINE after == {j \in Signed(log) : j > i}
           next == CHOOSE j \in after : \A k \in after : j <= k
           follower == IF after = {} THEN 0 ELSE log[next].id
<1>1. /\ i \in Signed(log) /\ log' = Removed(log, i)
      /\ UNCHANGED <<written, writer, backup, target, restoring, forked, altered, excused>>
      /\ cut' = cut \cup {<<log[i].id, follower>>}
  BY DEF Remove, Removed
<1>2. Signed(log) \subseteq Nat
  BY SignedPlaces
<1>3. after # {} => \E j \in after : \A k \in after : j <= k
  <2>1. after \subseteq Nat
    BY <1>2
  <2> HIDE DEF after
  <2> QED
    BY <2>1, LowestExists
<1>4. after # {} => next \in after /\ \A k \in after : next <= k
  <2> HIDE DEF after
  <2> QED
    BY <1>3
<1>5. \/ follower = 0
      \/ \E m \in Signed(log) : /\ follower = log[m].id /\ i < m
                                /\ \A j \in Signed(log) : i < j => m <= j
  <2>1. CASE after = {}
    BY <2>1
  <2>2. CASE after # {}
    <3>1. next \in Signed(log) /\ i < next /\ \A j \in Signed(log) : i < j => next <= j
      BY <1>1, <1>2, <1>4, <2>2
    <3>2. follower = log[next].id
      BY <2>2
    <3> HIDE DEF after, next, follower
    <3> QED
      BY <3>1, <3>2
  <2> QED
    BY <2>1, <2>2
<1> HIDE DEF follower
<1> QED
  BY <1>1, <1>5

LEMMA ChainTypesNext ==
    ASSUME ChainTypes, [ChainNext]_chainVars
    PROVE  ChainTypes'
<1> USE DEF ChainTypes
<1>1. ChainTypes
  OBVIOUS
<1>3. Last(log) \in 0 .. MaxRow
  BY <1>1, LastType
<1>4. ASSUME NEW p \in 0 .. MaxRow, written < MaxRow
      PROVE  Append(log, Row(written + 1, p)) \in Seq(Rows) /\ written + 1 \in 0 .. MaxRow
  <2>1. written + 1 \in 0 .. MaxRow
    BY <1>1, <1>4, BoundAssumption
  <2>2. Row(written + 1, p) \in Rows
    BY <2>1, NewRowType
  <2> QED
    BY <1>1, <2>1, <2>2, AppendProperties
<1>5. CASE Commit
  BY <1>1, <1>3, <1>4, <1>5 DEF Commit
<1>6. ASSUME NEW w \in Writer, NEW pc \in {"refusing", "backing"}, LookUp(w, pc)
      PROVE  ChainTypes'
  <2>1. [Free EXCEPT !.pc = pc, !.prev = Last(log)] \in Doing
    BY <1>3, LookedUpType
  <2> QED
    BY <1>1, <1>6, <2>1 DEF LookUp
<1>7. ASSUME NEW w \in Writer, Insert(w)
      PROVE  ChainTypes'
  <2>1. writer[w].prev \in 0 .. MaxRow
    BY <1>1 DEF Doing
  <2>2. /\ log' = Append(log, Row(written + 1, writer[w].prev)) /\ written' = written + 1
        /\ written < MaxRow
    BY <1>7 DEF Insert
  <2>3. log' \in Seq(Rows) /\ written' \in 0 .. MaxRow
    BY <1>4, <2>1, <2>2
  <2>4. [Free EXCEPT !.pc = "copying", !.row = written + 1] \in Doing
    BY <2>2, <2>3, CopyingType
  <2>5. writer' \in [Writer -> Doing]
    BY <1>1, <1>7, <2>4, FreeType DEF Insert
  <2>6. forked' \in BOOLEAN
    BY <1>7 DEF Insert
  <2> QED
    BY <1>1, <1>7, <2>3, <2>5, <2>6 DEF Insert
<1>8. ASSUME NEW w \in Writer, Copy(w)
      PROVE  ChainTypes'
  <2>1. writer[w].row \in 0 .. MaxRow
    BY <1>1 DEF Doing
  <2>2. backup' \in BackupFile
    BY <1>1, <1>8, <2>1 DEF Copy, BackupFile
  <2> QED
    BY <1>1, <1>8, <2>2, FreeType DEF Copy
<1>9. ASSUME NEW w \in Writer, Stop(w)
      PROVE  ChainTypes'
  BY <1>1, <1>9, FreeType DEF Stop
<1>10. ASSUME NEW overwrite \in BOOLEAN, Check(overwrite)
       PROVE  ChainTypes'
  BY <1>1, <1>10 DEF Check
<1>11. CASE Unlink
  BY <1>1, <1>11, NoFileType DEF Unlink
<1>12. CASE CheckAndCopy
  <2>1. backup.state = "sound" => [backup EXCEPT !.state = "copied"] \in TargetFile
    BY <1>1 DEF BackupFile, TargetFile
  <2> QED
    BY <1>1, <1>12, <2>1 DEF CheckAndCopy
<1>13. CASE Finish
  <2>1. target.log \in Seq(Rows) /\ written < MaxRow
    BY <1>1, <1>13 DEF TargetFile, Finish
  <2>2. Row(written + 1, Last(target.log)) \in Rows /\ written + 1 \in 0 .. MaxRow
    BY <1>4, <2>1, <1>3, LastType, NewRowType
  <2>3. Append(target.log, Row(written + 1, Last(target.log))) \in Seq(Rows)
    BY <2>1, <2>2, AppendProperties
  <2>4. target' \in TargetFile
    BY <1>1, <1>13, <2>3 DEF Finish, TargetFile
  <2> QED
    BY <1>1, <1>13, <2>2, <2>4 DEF Finish
<1>14. CASE RestoreDies
  BY <1>1, <1>14 DEF RestoreDies
<1>15. ASSUME NEW i \in DOMAIN log, Alter(i)
       PROVE  ChainTypes'
  <2>1. i \in Signed(log) /\ log' = Changed(log, i)
    BY <1>15 DEF Alter, Changed
  <2>2. log' \in Seq(Rows)
    BY <1>1, <2>1, ChangedRows
  <2>3. log[i].id \in 0 .. MaxRow
    BY <1>1, <2>1, SignedPlaces, RowFields
  <2> QED
    BY <1>1, <1>15, <2>2, <2>3 DEF Alter
<1>16. ASSUME NEW i \in DOMAIN log, Remove(i)
       PROVE  ChainTypes'
  <2>1. /\ i \in Signed(log) /\ log' = Removed(log, i)
        /\ UNCHANGED <<written, writer, backup, target, restoring, forked, altered, excused>>
    BY <1>1, <1>16, RemoveTells
  <2>2. PICK f : /\ cut' = cut \cup {<<log[i].id, f>>}
                 /\ f = 0 \/ \E m \in Signed(log) : f = log[m].id
    BY <1>1, <1>16, RemoveTells
  <2>3. log' \in Seq(Rows)
    BY <1>1, <2>1, RemainingRows
  <2>4. log[i].id \in 0 .. MaxRow /\ f \in 0 .. MaxRow
    BY <1>1, <2>1, <2>2, SignedPlaces, RowFields, BoundAssumption
  <2>5. cut' \subseteq (0 .. MaxRow) \X (0 .. MaxRow)
    BY <1>1, <2>2, <2>4
  <2> QED
    BY <1>1, <2>1, <2>3, <2>5
<1>17. CASE Damage
  <2>1. backup' \in BackupFile
    BY <1>1, <1>17 DEF Damage, BackupFile
  <2> QED
    BY <1>1, <1>17, <2>1 DEF Damage
<1>18. CASE UNCHANGED chainVars
  BY <1>1, <1>18 DEF chainVars
<1> QED
  BY <1>5, <1>6, <1>7, <1>8, <1>9, <1>10, <1>11, <1>12, <1>13, <1>14, <1>15, <1>16, <1>17, <1>18
     DEF ChainNext

----------------------------------------------------------------------------
(* What the database's log is like, whatever was done to it. *)

\* The signed rows are in the order they were written in.
RowsInOrder(l, n) ==
    /\ \A i \in Signed(l) : l[i].id \in 1 .. n
    /\ \A i, j \in Signed(l) : i < j => l[i].id < l[j].id

\* A row that was changed does not have its own hash.
ChangesShow(l, changed) == \A i \in Signed(l) : l[i].id \in changed => ~l[i].intact

\* A row names one that is not older than any signed row before it.
ChainedBack(l) == \A j \in Signed(l) : \A i \in Before(l, j) : l[i].id <= l[j].prev

\* A row whose predecessor was removed names one that is newer than all before it.
GapsShow(l, gaps) ==
    \A c \in gaps : \A j \in Signed(l) :
      l[j].id = c[2] => l[j].prev # 0 /\ \A i \in Before(l, j) : l[i].id < l[j].prev

LogInv ==
    /\ RowsInOrder(log, written)
    /\ altered \subseteq 1 .. written /\ cut \subseteq (1 .. written) \X (0 .. written)
    /\ ChangesShow(log, altered)
    /\ ~forked => ChainedBack(log) /\ GapsShow(log, cut)

LEMMA LogInvInit == ChainInit => LogInv
<1> SUFFICES ASSUME ChainInit
             PROVE  LogInv
  OBVIOUS
<1>1. Signed(<<>>) = {}
  BY DEF Signed
<1>2. Signed(<<Legacy>>) = {}
  <2>1. DOMAIN <<Legacy>> = {1} /\ <<Legacy>>[1] = Legacy /\ ~Legacy.signed
    BY DEF Legacy
  <2> QED
    BY <2>1 DEF Signed
<1>3. Signed(log) = {}
  BY <1>1, <1>2 DEF ChainInit
<1> QED
  BY <1>3 DEF ChainInit, LogInv, RowsInOrder, ChangesShow, ChainedBack, GapsShow

LEMMA LaterRowsInOrder ==
    ASSUME NEW l, NEW n \in Nat, NEW m \in Nat, n <= m, RowsInOrder(l, n)
    PROVE  RowsInOrder(l, m)
BY DEF RowsInOrder

\* The id of the last row is the greatest.
LEMMA LastIsGreatest ==
    ASSUME NEW l \in Seq(Rows), NEW n \in Nat, RowsInOrder(l, n)
    PROVE  /\ \A i \in Signed(l) : l[i].id <= Last(l)
           /\ Last(l) \in 0 .. n
<1>1. Signed(l) \subseteq 1 .. Len(l) /\ Len(l) \in Nat
  BY SignedPlaces
<1>2. CASE Signed(l) = {}
  BY <1>2, LastOfPlaces DEF Last
<1>3. CASE Signed(l) # {}
  <2>1. PICK h \in Signed(l) : Last(l) = l[h].id /\ \A j \in Signed(l) : j <= h
    BY <1>3, LastOfPlaces DEF Last
  <2>2. ASSUME NEW i \in Signed(l)
        PROVE  l[i].id <= Last(l)
    <3>1. i = h \/ i < h
      BY <1>1, <2>1
    <3>2. l[i].id \in Nat /\ l[h].id \in Nat
      BY DEF RowsInOrder
    <3> QED
      BY <2>1, <3>1, <3>2 DEF RowsInOrder
  <2> QED
    BY <2>1, <2>2 DEF RowsInOrder
<1> QED
  BY <1>2, <1>3

LEMMA AppendInOrder ==
    ASSUME NEW l \in Seq(Rows), NEW n \in Nat, NEW p, RowsInOrder(l, n), Row(n + 1, p) \in Rows
    PROVE  RowsInOrder(Append(l, Row(n + 1, p)), n + 1)
<1> DEFINE k == Append(l, Row(n + 1, p))
<1>1. Row(n + 1, p).id = n + 1 /\ Row(n + 1, p).signed
  BY DEF Row
<1>2. /\ k[Len(l) + 1] = Row(n + 1, p)
      /\ \A i \in 1 .. Len(l) : k[i] = l[i]
      /\ Signed(k) = Signed(l) \cup {Len(l) + 1}
  BY <1>1, AppendedRows
<1>3. Signed(l) \subseteq 1 .. Len(l) /\ Len(l) \in Nat
  BY SignedPlaces
<1> HIDE DEF k
<1>4. \A i \in Signed(l) : k[i] = l[i] /\ l[i].id \in 1 .. n
  BY <1>2, <1>3 DEF RowsInOrder
<1>5. \A i \in Signed(k) : k[i].id \in 1 .. (n + 1)
  BY <1>1, <1>2, <1>4
<1>6. ASSUME NEW i \in Signed(k), NEW j \in Signed(k), i < j
      PROVE  k[i].id < k[j].id
  <2>1. i \in Signed(l)
    BY <1>2, <1>3, <1>6
  <2>2. CASE j \in Signed(l)
    BY <1>4, <1>6, <2>1, <2>2 DEF RowsInOrder
  <2>3. CASE j = Len(l) + 1
    <3>1. k[j].id = n + 1
      BY <1>1, <1>2, <2>3
    <3>2. k[i].id \in 1 .. n
      BY <1>4, <2>1
    <3> QED
      BY <3>1, <3>2
  <2> QED
    BY <1>2, <2>2, <2>3
<1>7. RowsInOrder(k, n + 1)
  BY <1>5, <1>6 DEF RowsInOrder
<1> QED
  BY <1>7 DEF k

\* A new row, of which neither history tells.
LEMMA AppendShows ==
    ASSUME NEW l \in Seq(Rows), NEW n \in Nat, NEW p, RowsInOrder(l, n), Row(n + 1, p) \in Rows,
           NEW changed, changed \subseteq 1 .. n, NEW gaps, gaps \subseteq (1 .. n) \X (0 .. n)
    PROVE  LET k == Append(l, Row(n + 1, p)) IN
           /\ ChangesShow(l, changed) => ChangesShow(k, changed)
           /\ ChainedBack(l) /\ p = Last(l) => ChainedBack(k)
           /\ GapsShow(l, gaps) => GapsShow(k, gaps)
<1> DEFINE k == Append(l, Row(n + 1, p))
<1>1. Row(n + 1, p).id = n + 1 /\ Row(n + 1, p).signed /\ Row(n + 1, p).prev = p
  BY DEF Row
<1>2. /\ k[Len(l) + 1] = Row(n + 1, p)
      /\ \A i \in 1 .. Len(l) : k[i] = l[i]
      /\ Signed(k) = Signed(l) \cup {Len(l) + 1}
      /\ Before(k, Len(l) + 1) = Signed(l)
      /\ \A i \in Signed(l) : Before(k, i) = Before(l, i)
  BY <1>1, AppendedRows
<1>3. Signed(l) \subseteq 1 .. Len(l) /\ Len(l) \in Nat
  BY SignedPlaces
<1> HIDE DEF k
<1>4. \A i \in Signed(l) : k[i] = l[i]
  BY <1>2, <1>3
<1>5. ChangesShow(l, changed) => ChangesShow(k, changed)
  <2>1. n + 1 \notin changed
    OBVIOUS
  <2> QED
    BY <1>1, <1>2, <1>4, <2>1 DEF ChangesShow
<1>6. \A i \in Signed(l) : Before(l, i) \subseteq Signed(l)
  BY DEF Before
<1>7. ASSUME ChainedBack(l), p = Last(l)
      PROVE  ChainedBack(k)
  <2>1. ASSUME NEW j \in Signed(l), NEW i \in Before(k, j)
        PROVE  k[i].id <= k[j].prev
    <3>1. i \in Before(l, j) /\ i \in Signed(l)
      BY <1>2, <1>6
    <3> QED
      BY <1>4, <1>7, <3>1 DEF ChainedBack
  <2>2. ASSUME NEW i \in Before(k, Len(l) + 1)
        PROVE  k[i].id <= k[Len(l) + 1].prev
    <3>1. i \in Signed(l)
      BY <1>2
    <3> QED
      BY <1>1, <1>2, <1>4, <1>7, <3>1, LastIsGreatest
  <2> QED
    BY <1>2, <2>1, <2>2 DEF ChainedBack
<1>8. ASSUME GapsShow(l, gaps), NEW c \in gaps, NEW j \in Signed(k), k[j].id = c[2]
      PROVE  k[j].prev # 0 /\ \A i \in Before(k, j) : k[i].id < k[j].prev
  <2>1. c[2] \in 0 .. n
    OBVIOUS
  <2>2. j # Len(l) + 1
    BY <1>1, <1>2, <1>8, <2>1
  <2>3. j \in Signed(l) /\ k[j] = l[j] /\ Before(k, j) = Before(l, j)
    BY <1>2, <1>4, <2>2
  <2>4. l[j].prev # 0 /\ \A i \in Before(l, j) : l[i].id < l[j].prev
    BY <1>8, <2>3 DEF GapsShow
  <2> QED
    BY <1>4, <1>6, <2>3, <2>4
<1>9. GapsShow(l, gaps) => GapsShow(k, gaps)
  BY <1>8 DEF GapsShow
<1> QED
  BY <1>5, <1>7, <1>9 DEF k

\* A row that is changed stays in its place.
LEMMA ChangeShows ==
    ASSUME NEW l \in Seq(Rows), NEW i \in Signed(l), NEW k,
           k = Changed(l, i),
           NEW n \in Nat, RowsInOrder(l, n), NEW changed, NEW gaps
    PROVE  /\ RowsInOrder(k, n)
           /\ ChangesShow(l, changed) => ChangesShow(k, changed \cup {l[i].id})
           /\ ChainedBack(l) => ChainedBack(k)
           /\ GapsShow(l, gaps) => GapsShow(k, gaps)
<1>1. /\ k \in Seq(Rows)
      /\ Len(k) = Len(l)
      /\ \A j \in 1 .. Len(l) : k[j].id = l[j].id /\ k[j].prev = l[j].prev
                                /\ k[j].signed = l[j].signed
                                /\ k[j].intact = (l[j].intact /\ j # i)
      /\ Signed(k) = Signed(l)
      /\ Ids(k) = Ids(l)
  BY ChangedRows
<1>2. Signed(l) \subseteq 1 .. Len(l) /\ Len(l) \in Nat
  BY SignedPlaces
<1>3. \A j \in Signed(l) : k[j].id = l[j].id /\ k[j].prev = l[j].prev
                           /\ k[j].intact = (l[j].intact /\ j # i)
  BY <1>1, <1>2
<1>4. \A j : Before(k, j) = Before(l, j) /\ Before(l, j) \subseteq Signed(l)
  BY <1>1 DEF Before
<1>5. RowsInOrder(k, n)
  BY <1>1, <1>3 DEF RowsInOrder
<1>6. ASSUME ChangesShow(l, changed), NEW j \in Signed(k), k[j].id \in changed \cup {l[i].id}
      PROVE  ~k[j].intact
  <2>1. j \in Signed(l) /\ k[j].id = l[j].id
    BY <1>1, <1>3
  <2>2. CASE k[j].id \in changed
    BY <1>3, <1>6, <2>1, <2>2 DEF ChangesShow
  <2>3. CASE k[j].id = l[i].id
    <3>1. j \in Nat /\ i \in Nat /\ l[j].id = l[i].id /\ l[j].id \in Nat
      BY <1>2, <2>1, <2>3 DEF RowsInOrder
    <3>2. j = i
      BY <2>1, <3>1 DEF RowsInOrder
    <3> QED
      BY <1>3, <2>1, <3>2
  <2> QED
    BY <1>6, <2>2, <2>3
<1>7. ASSUME ChainedBack(l), NEW j \in Signed(k), NEW m \in Before(k, j)
      PROVE  k[m].id <= k[j].prev
  <2>1. j \in Signed(l) /\ m \in Before(l, j) /\ m \in Signed(l)
    BY <1>1, <1>4
  <2> QED
    BY <1>3, <1>7, <2>1 DEF ChainedBack
<1>8. ASSUME GapsShow(l, gaps), NEW c \in gaps, NEW j \in Signed(k), k[j].id = c[2]
      PROVE  k[j].prev # 0 /\ \A m \in Before(k, j) : k[m].id < k[j].prev
  <2>1. j \in Signed(l) /\ l[j].id = c[2]
    BY <1>1, <1>3, <1>8
  <2>2. l[j].prev # 0 /\ \A m \in Before(l, j) : l[m].id < l[j].prev
    BY <1>8, <2>1 DEF GapsShow
  <2>3. \A m \in Before(k, j) : m \in Before(l, j) /\ m \in Signed(l)
    BY <1>4
  <2> QED
    BY <1>3, <2>1, <2>2, <2>3
<1> QED
  BY <1>5, <1>6, <1>7, <1>8 DEF ChangesShow, ChainedBack, GapsShow

\* A row that is removed leaves a gap before the signed row that followed it, if there is one.
LEMMA RemovalShows ==
    ASSUME NEW l \in Seq(Rows), NEW i \in Signed(l), NEW k,
           k = Removed(l, i),
           NEW n \in Nat, RowsInOrder(l, n), NEW changed, NEW gaps, NEW f,
           \/ f = 0
           \/ \E m \in Signed(l) : /\ f = l[m].id /\ i < m
                                   /\ \A j \in Signed(l) : i < j => m <= j
    PROVE  /\ RowsInOrder(k, n)
           /\ ChangesShow(l, changed) => ChangesShow(k, changed)
           /\ ChainedBack(l) => ChainedBack(k)
           /\ ChainedBack(l) /\ GapsShow(l, gaps) => GapsShow(k, gaps \cup {<<l[i].id, f>>})
<1>1. /\ k \in Seq(Rows)
      /\ \A j \in Signed(k) : Origin(i, j) \in Signed(l) /\ Origin(i, j) # i
                              /\ k[j] = l[Origin(i, j)]
      /\ \A j, m \in Signed(k) : j < m <=> Origin(i, j) < Origin(i, m)
      /\ \A j, m \in Signed(k) : j = m <=> Origin(i, j) = Origin(i, m)
      /\ Ids(k) \subseteq Ids(l)
  BY RemainingRows
<1>2. Signed(l) \subseteq 1 .. Len(l) /\ Len(l) \in Nat
  BY SignedPlaces
<1>3. RowsInOrder(k, n)
  <2>1. \A j \in Signed(k) : k[j].id \in 1 .. n
    BY <1>1 DEF RowsInOrder
  <2>2. ASSUME NEW j \in Signed(k), NEW m \in Signed(k), j < m
        PROVE  k[j].id < k[m].id
    <3>1. /\ Origin(i, j) \in Signed(l) /\ Origin(i, m) \in Signed(l)
          /\ Origin(i, j) < Origin(i, m)
          /\ k[j] = l[Origin(i, j)] /\ k[m] = l[Origin(i, m)]
      BY <1>1, <2>2
    <3> QED
      BY <3>1 DEF RowsInOrder
  <2> QED
    BY <2>1, <2>2 DEF RowsInOrder
<1>4. ChangesShow(l, changed) => ChangesShow(k, changed)
  BY <1>1 DEF ChangesShow
<1>5. \A j \in Signed(k) : \A m \in Before(k, j) :
         m \in Signed(k) /\ Origin(i, m) \in Before(l, Origin(i, j))
  BY <1>1 DEF Before
<1>6. ChainedBack(l) => ChainedBack(k)
  BY <1>1, <1>5 DEF ChainedBack
<1>7. ASSUME GapsShow(l, gaps), NEW c \in gaps, NEW j \in Signed(k), k[j].id = c[2]
      PROVE  k[j].prev # 0 /\ \A m \in Before(k, j) : k[m].id < k[j].prev
  <2>1. Origin(i, j) \in Signed(l) /\ k[j] = l[Origin(i, j)]
    BY <1>1
  <2>2. l[Origin(i, j)].prev # 0
        /\ \A m \in Before(l, Origin(i, j)) : l[m].id < l[Origin(i, j)].prev
    BY <1>7, <2>1 DEF GapsShow
  <2>3. ASSUME NEW m \in Before(k, j)
        PROVE  k[m].id < k[j].prev
    <3>1. m \in Signed(k) /\ Origin(i, m) \in Before(l, Origin(i, j))
      BY <1>5
    <3>2. k[m] = l[Origin(i, m)]
      BY <1>1, <3>1
    <3>3. l[Origin(i, m)].id < l[Origin(i, j)].prev
      BY <2>2, <3>1
    <3> QED
      BY <2>1, <3>2, <3>3
  <2> QED
    BY <2>1, <2>2, <2>3
<1>8. ASSUME ChainedBack(l), NEW j \in Signed(k), k[j].id = f
      PROVE  k[j].prev # 0 /\ \A m \in Before(k, j) : k[m].id < k[j].prev
  <2> DEFINE o == Origin(i, j)
  <2>1. o \in Signed(l) /\ k[j] = l[o] /\ l[o].id \in 1 .. n
    BY <1>1 DEF RowsInOrder
  <2>2. PICK m \in Signed(l) : f = l[m].id /\ i < m /\ \A h \in Signed(l) : i < h => m <= h
    BY <1>8, <2>1
  <2>3. o = m
    <3>1. o \in Nat /\ m \in Nat /\ l[o].id = l[m].id
      BY <1>2, <1>8, <2>1, <2>2
    <3>2. l[m].id \in Nat
      BY DEF RowsInOrder
    <3> QED
      BY <2>1, <3>1, <3>2 DEF RowsInOrder
  <2>4. i \in Before(l, o)
    BY <2>2, <2>3 DEF Before
  <2>5. l[i].id <= l[o].prev /\ l[i].id \in 1 .. n
    BY <1>8, <2>1, <2>4 DEF ChainedBack, RowsInOrder
  <2>6. l[o].prev \in Nat
    BY <1>2, <2>1, SignedPlaces, RowFields
  <2>7. ASSUME NEW h \in Before(k, j)
        PROVE  k[h].id < k[j].prev
    <3>1. /\ h \in Signed(k) /\ Origin(i, h) \in Before(l, o)
          /\ k[h] = l[Origin(i, h)] /\ Origin(i, h) # i
      BY <1>1, <1>5
    <3>2. Origin(i, h) \in Signed(l) /\ Origin(i, h) < o
      BY <3>1 DEF Before
    <3>3. Origin(i, h) \in Nat /\ i \in Nat /\ o \in Nat
      BY <1>2, <2>1, <3>2
    <3>4. Origin(i, h) < i
      BY <2>2, <2>3, <3>1, <3>2, <3>3
    <3>5. l[Origin(i, h)].id < l[i].id /\ l[Origin(i, h)].id \in Nat
      BY <3>2, <3>4 DEF RowsInOrder
    <3>6. k[h].id < l[i].id /\ k[h].id \in Nat
      BY <3>1, <3>5
    <3>7. k[j].prev \in Nat /\ l[i].id <= k[j].prev /\ l[i].id \in Nat
      BY <2>1, <2>5, <2>6
    <3> QED
      BY <3>6, <3>7
  <2> QED
    BY <2>1, <2>5, <2>6, <2>7
<1>9. ASSUME ChainedBack(l), GapsShow(l, gaps)
      PROVE  GapsShow(k, gaps \cup {<<l[i].id, f>>})
  <2> SUFFICES ASSUME NEW c \in gaps \cup {<<l[i].id, f>>}, NEW j \in Signed(k), k[j].id = c[2]
               PROVE  k[j].prev # 0 /\ \A m \in Before(k, j) : k[m].id < k[j].prev
    BY DEF GapsShow
  <2>1. CASE c \in gaps
    BY <1>7, <1>9, <2>1
  <2>2. CASE c = <<l[i].id, f>>
    <3>1. k[j].id = f
      BY <2>2
    <3> QED
      BY <1>8, <1>9, <3>1
  <2> QED
    BY <2>1, <2>2
<1> QED
  BY <1>3, <1>4, <1>6, <1>9

LEMMA LogInvNext ==
    ASSUME ChainTypes, LogInv, [ChainNext]_chainVars
    PROVE  LogInv'
<1>1. /\ log \in Seq(Rows) /\ written \in 0 .. MaxRow /\ written \in Nat
      /\ writer \in [Writer -> Doing] /\ forked \in BOOLEAN
  BY BoundAssumption DEF ChainTypes
<1>2. /\ RowsInOrder(log, written)
      /\ altered \subseteq 1 .. written /\ cut \subseteq (1 .. written) \X (0 .. written)
      /\ ChangesShow(log, altered)
      /\ ~forked => ChainedBack(log) /\ GapsShow(log, cut)
  BY DEF LogInv
\* A step that leaves the log and its histories alone.
<1>3. ASSUME UNCHANGED <<log, altered, cut, forked>>, written' \in Nat, written <= written'
      PROVE  LogInv'
  <2>1. RowsInOrder(log', written')
    BY <1>1, <1>2, <1>3, LaterRowsInOrder
  <2>2. altered' \subseteq 1 .. written' /\ cut' \subseteq (1 .. written') \X (0 .. written')
    BY <1>1, <1>2, <1>3
  <2> QED
    BY <1>2, <1>3, <2>1, <2>2 DEF LogInv
\* A step that appends a row.
<1>4. ASSUME NEW p \in 0 .. MaxRow, written < MaxRow, log' = Append(log, Row(written + 1, p)),
             written' = written + 1, UNCHANGED <<altered, cut>>,
             forked' = (forked \/ p # Last(log))
      PROVE  LogInv'
  <2>1. Row(written + 1, p) \in Rows
    <3>1. written + 1 \in 0 .. MaxRow
      BY <1>1, <1>4, BoundAssumption
    <3> QED
      BY <3>1, NewRowType
  <2>2. RowsInOrder(log', written')
    BY <1>1, <1>2, <1>4, <2>1, AppendInOrder
  <2>3. /\ ChangesShow(log, altered) => ChangesShow(log', altered)
        /\ ChainedBack(log) /\ p = Last(log) => ChainedBack(log')
        /\ GapsShow(log, cut) => GapsShow(log', cut)
    BY <1>1, <1>2, <1>4, <2>1, AppendShows
  <2>4. altered' \subseteq 1 .. written' /\ cut' \subseteq (1 .. written') \X (0 .. written')
    BY <1>1, <1>2, <1>4
  <2>5. ~forked' => ~forked /\ p = Last(log)
    BY <1>4
  <2> QED
    BY <1>2, <1>4, <2>2, <2>3, <2>4, <2>5 DEF LogInv
<1>5. CASE Commit
  BY <1>1, <1>4, <1>5, LastType DEF Commit
<1>6. ASSUME NEW w \in Writer, Insert(w)
      PROVE  LogInv'
  <2>1. writer[w].prev \in 0 .. MaxRow
    BY <1>1 DEF Doing
  <2> QED
    BY <1>4, <1>6, <2>1 DEF Insert
<1>7. ASSUME NEW i \in DOMAIN log, Alter(i)
      PROVE  LogInv'
  <2>1. /\ i \in Signed(log) /\ log' = Changed(log, i) /\ altered' = altered \cup {log[i].id}
        /\ UNCHANGED <<written, cut, forked>>
    BY <1>7 DEF Alter, Changed
  <2>2. log[i].id \in 1 .. written
    BY <1>2, <2>1 DEF RowsInOrder
  <2>3. /\ RowsInOrder(log', written)
        /\ ChangesShow(log, altered) => ChangesShow(log', altered \cup {log[i].id})
        /\ ChainedBack(log) => ChainedBack(log')
        /\ GapsShow(log, cut) => GapsShow(log', cut)
    BY <1>1, <1>2, <2>1, ChangeShows
  <2> QED
    BY <1>2, <2>1, <2>2, <2>3 DEF LogInv
<1>8. ASSUME NEW i \in DOMAIN log, Remove(i)
      PROVE  LogInv'
  <2>1. i \in Signed(log) /\ log' = Removed(log, i) /\ UNCHANGED <<written, forked, altered>>
    BY <1>1, <1>8, RemoveTells
  <2>2. PICK f : /\ cut' = cut \cup {<<log[i].id, f>>}
                 /\ \/ f = 0
                    \/ \E m \in Signed(log) : /\ f = log[m].id /\ i < m
                                              /\ \A j \in Signed(log) : i < j => m <= j
    BY <1>1, <1>8, RemoveTells
  <2>3. log[i].id \in 1 .. written /\ f \in 0 .. written
    BY <1>1, <1>2, <2>1, <2>2 DEF RowsInOrder
  <2>4. /\ RowsInOrder(log', written)
        /\ ChangesShow(log, altered) => ChangesShow(log', altered)
        /\ ChainedBack(log) => ChainedBack(log')
        /\ ChainedBack(log) /\ GapsShow(log, cut) => GapsShow(log', cut \cup {<<log[i].id, f>>})
    BY <1>1, <1>2, <2>1, <2>2, RemovalShows
  <2>5. cut' \subseteq (1 .. written) \X (0 .. written)
    BY <1>2, <2>2, <2>3
  <2> QED
    BY <1>2, <2>1, <2>2, <2>4, <2>5 DEF LogInv
<1>9. CASE Finish
  <2>1. written' \in Nat /\ written <= written'
    BY <1>1, <1>9 DEF Finish
  <2> QED
    BY <1>3, <1>9, <2>1 DEF Finish
<1>10. ASSUME NEW w \in Writer, \/ \E pc \in {"refusing", "backing"} : LookUp(w, pc)
                                \/ Copy(w) \/ Stop(w)
       PROVE  LogInv'
  BY <1>1, <1>3, <1>10 DEF LookUp, Copy, Stop
<1>11. ASSUME \/ \E overwrite \in BOOLEAN : Check(overwrite)
              \/ Unlink \/ CheckAndCopy \/ RestoreDies \/ Damage \/ UNCHANGED chainVars
       PROVE  LogInv'
  BY <1>1, <1>3, <1>11 DEF Check, Unlink, CheckAndCopy, RestoreDies, Damage, chainVars
<1> QED
  BY <1>5, <1>6, <1>7, <1>8, <1>9, <1>10, <1>11 DEF ChainNext

----------------------------------------------------------------------------
(* What a log that nothing happened to is like, and what is copied with it. *)

Unharmed == ~forked /\ altered = {} /\ cut = {}

\* While nothing happened, no report fails; while nothing was removed, a copy holds the
\* audit row it was made with.
CopyInv ==
    /\ Unharmed => ~Fails(log) /\ ~Fails(backup.log) /\ ~Fails(target.log)
    /\ cut = {} => /\ \A w \in Writer : writer[w].pc = "copying" => writer[w].row \in Ids(log)
                   /\ backup.state # "none" => backup.row \in Ids(backup.log)
                   /\ target.state \in {"copied", "restored"} => target.row \in Ids(target.log)
    /\ restoring = "copied" => target.state = "copied"
    /\ target.state = "restored" => Last(target.log) = target.log[Len(target.log)].id
    /\ TargetIsReplaced

LEMMA NothingFails == ~Fails(<<>>) /\ ~Fails(<<Legacy>>)
<1>1. Signed(<<>>) = {}
  BY DEF Signed
<1>2. Signed(<<Legacy>>) = {}
  <2>1. DOMAIN <<Legacy>> = {1} /\ <<Legacy>>[1] = Legacy /\ ~Legacy.signed
    BY DEF Legacy
  <2> QED
    BY <2>1 DEF Signed
<1> QED
  BY <1>1, <1>2 DEF Fails

LEMMA CopyInvInit == ChainInit => CopyInv
<1> SUFFICES ASSUME ChainInit
             PROVE  CopyInv
  OBVIOUS
<1>1. ~Fails(log)
  BY NothingFails DEF ChainInit
<1>2. NoFile.state = "none" /\ NoFile.log = <<>>
  BY DEF NoFile
<1>3. backup.state = "none" /\ backup.log = <<>>
  BY <1>2 DEF ChainInit
<1>4. [NoFile EXCEPT !.state = "old"].state = "old" /\ [NoFile EXCEPT !.state = "old"].log = <<>>
  BY DEF NoFile
<1>5. target.state \in {"none", "old"} /\ target.log = <<>>
  BY <1>2, <1>4 DEF ChainInit
<1>6. \A w \in Writer : writer[w].pc = "idle"
  BY DEF ChainInit, Free
<1>7. restoring = "no"
  BY DEF ChainInit
<1> QED
  BY <1>1, <1>3, <1>5, <1>6, <1>7, NothingFails DEF CopyInv, TargetIsReplaced

LEMMA CopyInvNext ==
    ASSUME ChainTypes, CopyInv, [ChainNext]_chainVars
    PROVE  CopyInv'
<1>1. /\ log \in Seq(Rows) /\ written \in 0 .. MaxRow /\ written \in Nat
      /\ writer \in [Writer -> Doing] /\ forked \in BOOLEAN
      /\ backup \in BackupFile /\ target \in TargetFile
  BY BoundAssumption DEF ChainTypes
<1>2. /\ Unharmed => ~Fails(log) /\ ~Fails(backup.log) /\ ~Fails(target.log)
      /\ cut = {} => /\ \A w \in Writer : writer[w].pc = "copying" => writer[w].row \in Ids(log)
                     /\ backup.state # "none" => backup.row \in Ids(backup.log)
                     /\ target.state \in {"copied", "restored"} => target.row \in Ids(target.log)
      /\ restoring = "copied" => target.state = "copied"
      /\ target.state = "restored" => Last(target.log) = target.log[Len(target.log)].id
      /\ TargetIsReplaced
  BY DEF CopyInv
\* A row that is appended to the database: the copies stay as they are.
<1>3. ASSUME NEW p \in 0 .. MaxRow, written < MaxRow, log' = Append(log, Row(written + 1, p)),
             UNCHANGED <<altered, cut>>, forked' = (forked \/ p # Last(log))
      PROVE  /\ Unharmed' => Unharmed /\ ~Fails(log')
             /\ Ids(log') = Ids(log) \cup {written + 1}
  <2>1. Row(written + 1, p) \in Rows
    <3>1. written + 1 \in 0 .. MaxRow
      BY <1>1, <1>3, BoundAssumption
    <3> QED
      BY <3>1, NewRowType
  <2>2. /\ Row(written + 1, p).signed /\ Row(written + 1, p).intact
        /\ Row(written + 1, p).id = written + 1 /\ Row(written + 1, p).prev = p
    BY DEF Row
  <2>3. Unharmed' => Unharmed /\ p = Last(log)
    BY <1>3 DEF Unharmed
  <2>4. ~Fails(log) /\ p = Last(log) => ~Fails(log')
    BY <1>1, <1>3, <2>1, <2>2, AppendKeepsReport
  <2>5. Ids(log') = Ids(log) \cup {written + 1}
    BY <1>1, <1>3, <2>1, <2>2, AppendedIds
  <2> QED
    BY <1>2, <2>3, <2>4, <2>5
<1>4. CASE Commit
  <2>1. Last(log) \in 0 .. MaxRow
    BY <1>1, LastType
  <2>2. forked' = (forked \/ Last(log) # Last(log))
    BY <1>1, <1>4 DEF Commit
  <2>3. /\ Unharmed' => Unharmed /\ ~Fails(log')
        /\ Ids(log') = Ids(log) \cup {written + 1}
    BY <1>3, <1>4, <2>1, <2>2 DEF Commit
  <2>4. UNCHANGED <<writer, backup, target, restoring, cut, excused>>
    BY <1>4 DEF Commit
  <2> QED
    BY <1>2, <2>3, <2>4 DEF CopyInv, TargetIsReplaced
<1>5. ASSUME NEW w \in Writer, Insert(w)
      PROVE  CopyInv'
  <2>1. writer[w].prev \in 0 .. MaxRow
    BY <1>1 DEF Doing
  <2>2. /\ Unharmed' => Unharmed /\ ~Fails(log')
        /\ Ids(log') = Ids(log) \cup {written + 1}
    BY <1>3, <1>5, <2>1 DEF Insert
  <2>3. UNCHANGED <<backup, target, restoring, cut, excused>>
    BY <1>5 DEF Insert
  <2>4. Free.pc = "idle" /\ [Free EXCEPT !.pc = "copying", !.row = written + 1].row = written + 1
    BY DEF Free
  <2>5. ASSUME NEW v \in Writer, writer'[v].pc = "copying", cut = {}
        PROVE  writer'[v].row \in Ids(log')
    <3>1. CASE v = w
      <4>1. writer'[w] = [Free EXCEPT !.pc = "copying", !.row = written + 1]
            \/ writer'[w] = Free
        BY <1>1, <1>5 DEF Insert
      <4> QED
        BY <2>2, <2>4, <2>5, <3>1, <4>1
    <3>2. CASE v # w
      <4>1. writer'[v] = writer[v]
        BY <1>1, <1>5, <3>2 DEF Insert
      <4> QED
        BY <1>2, <2>2, <2>5, <4>1
    <3> QED
      BY <3>1, <3>2
  <2> QED
    BY <1>2, <2>2, <2>3, <2>5 DEF CopyInv, TargetIsReplaced
\* A step of one connection that leaves the log alone and does not begin to copy.
<1>6. ASSUME NEW w \in Writer, NEW d, d.pc # "copying", writer' = [writer EXCEPT ![w] = d]
      PROVE  \A v \in Writer : writer'[v].pc = "copying" => writer'[v] = writer[v]
  BY <1>1, <1>6
<1>7. ASSUME NEW w \in Writer, NEW pc \in {"refusing", "backing"}, LookUp(w, pc)
      PROVE  CopyInv'
  <2>1. [Free EXCEPT !.pc = pc, !.prev = Last(log)].pc # "copying"
    BY DEF Free
  <2>2. \A v \in Writer : writer'[v].pc = "copying" => writer'[v] = writer[v]
    BY <1>6, <1>7, <2>1 DEF LookUp
  <2>3. UNCHANGED <<log, backup, target, restoring, forked, altered, cut, excused>>
    BY <1>7 DEF LookUp
  <2> QED
    BY <1>2, <2>2, <2>3 DEF CopyInv, TargetIsReplaced, Unharmed
<1>8. ASSUME NEW w \in Writer, Copy(w) \/ Stop(w)
      PROVE  /\ \A v \in Writer : writer'[v].pc = "copying" => writer'[v] = writer[v]
             /\ UNCHANGED <<log, target, restoring, forked, altered, cut, excused>>
  <2>1. Free.pc # "copying"
    BY DEF Free
  <2>2. writer' = [writer EXCEPT ![w] = Free]
        /\ UNCHANGED <<log, target, restoring, forked, altered, cut, excused>>
    BY <1>8 DEF Copy, Stop
  <2> QED
    BY <1>6, <2>1, <2>2
<1>9. ASSUME NEW w \in Writer, Copy(w)
      PROVE  CopyInv'
  <2>1. backup'.log = log /\ backup'.row = writer[w].row /\ writer[w].pc = "copying"
    BY <1>9 DEF Copy
  <2> QED
    BY <1>2, <1>8, <1>9, <2>1 DEF CopyInv, TargetIsReplaced, Unharmed
<1>10. ASSUME NEW w \in Writer, Stop(w)
       PROVE  CopyInv'
  <2>1. UNCHANGED backup
    BY <1>10 DEF Stop
  <2> QED
    BY <1>2, <1>8, <1>10, <2>1 DEF CopyInv, TargetIsReplaced, Unharmed
<1>11. ASSUME NEW overwrite \in BOOLEAN, Check(overwrite)
       PROVE  CopyInv'
  BY <1>2, <1>11 DEF Check, CopyInv, TargetIsReplaced, Unharmed
<1>12. CASE Unlink
  <2>1. [NoFile EXCEPT !.state = "gone"].state = "gone"
        /\ [NoFile EXCEPT !.state = "gone"].log = <<>>
    BY DEF NoFile
  <2>2. target' = target \/ (target'.state = "gone" /\ target'.log = <<>>)
    <3>1. target' = target \/ target' = [NoFile EXCEPT !.state = "gone"]
      BY <1>12 DEF Unlink
    <3> QED
      BY <2>1, <3>1
  <2>3. restoring' = "removed" /\ UNCHANGED <<log, writer, backup, forked, altered, cut, excused>>
    BY <1>12 DEF Unlink
  <2> QED
    BY <1>2, <2>2, <2>3, NothingFails DEF CopyInv, TargetIsReplaced, Unharmed
<1>13. CASE CheckAndCopy
  <2>1. CASE backup.state = "sound"
    <3>1. target' = [backup EXCEPT !.state = "copied"] /\ restoring' = "copied"
          /\ UNCHANGED <<log, writer, backup, forked, altered, cut, excused>>
      BY <1>13, <2>1 DEF CheckAndCopy
    <3>2. target'.state = "copied" /\ target'.log = backup.log /\ target'.row = backup.row
      BY <1>1, <3>1 DEF BackupFile
    <3> QED
      BY <1>2, <2>1, <3>1, <3>2 DEF CopyInv, TargetIsReplaced, Unharmed
  <2>2. CASE backup.state # "sound"
    <3>1. restoring' = "no" /\ excused'
          /\ UNCHANGED <<log, writer, backup, target, forked, altered, cut>>
      BY <1>13, <2>2 DEF CheckAndCopy
    <3> QED
      BY <1>2, <3>1 DEF CopyInv, TargetIsReplaced, Unharmed
  <2> QED
    BY <2>1, <2>2
<1>14. CASE Finish
  <2> DEFINE r == Row(written + 1, Last(target.log))
  <2>1. /\ target.log \in Seq(Rows) /\ written < MaxRow /\ target.state = "copied"
        /\ UNCHANGED <<log, writer, backup, forked, altered, cut, excused>> /\ restoring' = "no"
    BY <1>1, <1>2, <1>14 DEF TargetFile, Finish
  <2>2. target'.state = "restored" /\ target'.log = Append(target.log, r)
        /\ target'.row = target.row
    BY <1>1, <1>14 DEF Finish, TargetFile
  <2>3. r \in Rows /\ r.signed /\ r.intact /\ r.prev = Last(target.log)
    <3>1. written + 1 \in 0 .. MaxRow /\ Last(target.log) \in 0 .. MaxRow
      BY <1>1, <2>1, LastType, BoundAssumption
    <3>2. r \in Rows
      BY <3>1, NewRowType
    <3> QED
      BY <3>2 DEF Row
  <2> HIDE DEF r
  <2>4. ~Fails(target.log) => ~Fails(target'.log)
    BY <2>1, <2>2, <2>3, AppendKeepsReport
  <2>5. /\ Ids(target.log) \subseteq Ids(target'.log)
        /\ Last(target'.log) = target'.log[Len(target'.log)].id
    BY <2>1, <2>2, <2>3, AppendedIds
  <2> QED
    BY <1>2, <2>1, <2>2, <2>4, <2>5 DEF CopyInv, TargetIsReplaced, Unharmed
<1>15. CASE RestoreDies
  BY <1>2, <1>15 DEF RestoreDies, CopyInv, TargetIsReplaced, Unharmed
<1>16. ASSUME NEW i \in DOMAIN log, Alter(i)
       PROVE  CopyInv'
  <2>1. /\ i \in Signed(log) /\ log' = Changed(log, i) /\ altered' # {}
        /\ UNCHANGED <<writer, backup, target, restoring, cut, excused>>
    BY <1>16 DEF Alter, Changed
  <2>2. Ids(log') = Ids(log)
    BY <1>1, <2>1, ChangedRows
  <2>3. ~Unharmed'
    BY <2>1 DEF Unharmed
  <2> QED
    BY <1>2, <2>1, <2>2, <2>3 DEF CopyInv, TargetIsReplaced
<1>17. ASSUME NEW i \in DOMAIN log, Remove(i)
       PROVE  CopyInv'
  <2>1. UNCHANGED <<writer, backup, target, restoring, excused>> /\ cut' # {}
    BY <1>1, <1>17, RemoveTells
  <2>2. ~Unharmed'
    BY <2>1 DEF Unharmed
  <2> QED
    BY <1>2, <2>1, <2>2 DEF CopyInv, TargetIsReplaced
<1>18. CASE Damage
  <2>1. backup.state = "sound" /\ UNCHANGED <<log, writer, target, restoring, forked, altered, cut,
                                              excused>>
    BY <1>18 DEF Damage
  <2>2. backup'.log = backup.log /\ backup'.row = backup.row
    BY <1>1, <1>18 DEF Damage, BackupFile
  <2> QED
    BY <1>2, <2>1, <2>2 DEF CopyInv, TargetIsReplaced, Unharmed
<1>19. CASE UNCHANGED chainVars
  BY <1>2, <1>19 DEF chainVars, CopyInv, TargetIsReplaced, Unharmed
<1> QED
  BY <1>4, <1>5, <1>7, <1>9, <1>10, <1>11, <1>12, <1>13, <1>14, <1>15, <1>16, <1>17, <1>18, <1>19
     DEF ChainNext

ChainInv == ChainTypes /\ LogInv /\ CopyInv

LEMMA ChainInvHolds == ChainSpec => []ChainInv
<1>1. ChainInit => ChainInv
  BY ChainTypesInit, LogInvInit, CopyInvInit DEF ChainInv
<1>2. ChainInv /\ [ChainNext]_chainVars => ChainInv'
  BY ChainTypesNext, LogInvNext, CopyInvNext DEF ChainInv
<1> QED
  BY <1>1, <1>2, PTL DEF ChainSpec

\* Every variable of the audit chain stays within its type.
THEOREM ChainTypeCorrect == ChainSpec => []ChainTypeOK
<1>1. ChainInv => ChainTypeOK
  BY ChainTypesImply DEF ChainInv
<1> QED
  BY <1>1, ChainInvHolds, PTL

LEMMA TamperingIsShown ==
    ASSUME ChainTypes, LogInv
    PROVE  TamperingShows
<1> SUFFICES ASSUME ~forked, NEW j \in Signed(log),
                    log[j].id \in altered \cup {c[2] : c \in cut}
             PROVE  Fails(log)
  BY DEF TamperingShows, Ids
<1>1. log \in Seq(Rows)
  BY DEF ChainTypes
<1>2. CASE log[j].id \in altered
  <2>1. ~log[j].intact
    BY <1>2 DEF LogInv, ChangesShow
  <2> QED
    BY <2>1 DEF Fails
<1>3. ASSUME NEW c \in cut, log[j].id = c[2]
      PROVE  Fails(log)
  <2>1. log[j].prev # 0 /\ \A i \in Before(log, j) : log[i].id < log[j].prev
    BY <1>3 DEF LogInv, GapsShow
  <2>2. Before(log, j) \subseteq Signed(log)
    BY DEF Before
  <2>3. log[j].prev # LastOf(log, Before(log, j))
    <3>1. CASE Before(log, j) = {}
      <4>1. LastOf(log, Before(log, j)) = 0
        BY <3>1 DEF LastOf
      <4> QED
        BY <2>1, <4>1
    <3>2. CASE Before(log, j) # {}
      <4>1. PICK h \in Before(log, j) : LastOf(log, Before(log, j)) = log[h].id
        BY <1>1, <2>2, <3>2, LastOfPlaces
      <4>2. log[h].id < log[j].prev
        BY <2>1
      <4>3. log[h].id \in Nat /\ log[j].prev \in Nat
        BY <1>1, <2>2, SignedPlaces, RowFields
      <4> QED
        BY <4>1, <4>2, <4>3
    <3> QED
      BY <3>1, <3>2
  <2> QED
    BY <2>3 DEF Fails
<1> QED
  BY <1>2, <1>3

\* audit_integrity_report is right: while it fails, a row was changed or removed or the chain
\* was forked; and as long as it was not forked, a row that was changed, or whose predecessor
\* was removed, makes it fail.
THEOREM AuditReportIsRight == ChainSpec => []ReportIsRight
<1>1. ASSUME ChainInv
      PROVE  ReportIsRight
  <2>1. ReportFailsForAReason
    BY <1>1 DEF ChainInv, CopyInv, Unharmed, ReportFailsForAReason
  <2>2. TamperingShows
    BY <1>1, TamperingIsShown DEF ChainInv
  <2> QED
    BY <2>1, <2>2 DEF ReportIsRight
<1> QED
  BY <1>1, ChainInvHolds, PTL

\* restore_database keeps what it restores: the audit rows of the backup and of the restore,
\* a chain that is as sound as the database's, and the old target unless the backup was
\* damaged or the restore died.
THEOREM RestoreIsWhole == ChainSpec => []RestoreHolds
<1>1. ASSUME ChainInv
      PROVE  RestoreHolds
  <2>1. /\ Unharmed => ~Fails(target.log)
        /\ cut = {} => /\ backup.state # "none" => backup.row \in Ids(backup.log)
                       /\ target.state \in {"copied", "restored"} => target.row \in Ids(target.log)
        /\ target.state = "restored" => Last(target.log) = target.log[Len(target.log)].id
        /\ TargetIsReplaced
    BY <1>1 DEF ChainInv, CopyInv
  <2>2. RestoredLogHolds
    BY <2>1 DEF RestoredLogHolds, Unharmed
  <2> QED
    BY <2>1, <2>2 DEF RestoreHolds
<1> QED
  BY <1>1, ChainInvHolds, PTL

----------------------------------------------------------------------------
(* Sums over finite sets. *)

\* Induction over the subsets of a finite set: of exceptions that always leave a smaller one
\* there are none.
LEMMA NoExceptions ==
    ASSUME NEW D, IsFiniteSet(D), NEW B, B \subseteq SUBSET D, {} \notin B,
           \A E \in B : E # {} => \E x \in E : E \ {x} \in B
    PROVE  B = {}
<1> DEFINE Sizes == {Cardinality(E) : E \in B}
<1>1. \A E \in B : IsFiniteSet(E) /\ Cardinality(E) \in Nat
  BY FS_Subset, FS_CardinalityType
<1>2. Sizes \subseteq Nat
  BY <1>1
<1>3. ASSUME B # {}
      PROVE  FALSE
  <2>1. Sizes # {}
    BY <1>3
  <2>2. PICK n \in Sizes : \A k \in Sizes : n <= k
    <3> HIDE DEF Sizes
    <3> QED
      BY <1>2, <2>1, LowestExists
  <2>3. PICK E \in B : Cardinality(E) = n
    BY <2>2
  <2>4. PICK x \in E : E \ {x} \in B
    BY <2>3
  <2>5. Cardinality(E \ {x}) = n - 1
    BY <1>1, <2>3, <2>4, FS_RemoveElement
  <2>6. n \in Nat /\ n - 1 \in Sizes
    BY <1>2, <2>2, <2>4, <2>5
  <2> QED
    BY <2>2, <2>6
<1> QED
  BY <1>3

Element(E) == CHOOSE y \in E : TRUE

\* The sum of f over each of the sets in S.
SumOf(f, s, E) == IF E = {} THEN 0 ELSE f[Element(E)] + s[E \ {Element(E)}]
Sums(f, S, s) == s = [E \in S |-> SumOf(f, s, E)]

LEMMA TotalIsSum ==
    ASSUME NEW f
    PROVE  Total(f) = (CHOOSE s : Sums(f, SUBSET DOMAIN f, s))[DOMAIN f]
BY DEF Total, Sums, SumOf, Element

LEMMA ElementOf ==
    ASSUME NEW E, E # {}
    PROVE  Element(E) \in E
BY DEF Element

\* The sums are there, over however many elements.
LEMMA SumsExist ==
    ASSUME NEW f, NEW D, IsFiniteSet(D)
    PROVE  \E s : Sums(f, SUBSET D, s)
<1> DEFINE Upto(n) == {E \in SUBSET D : Cardinality(E) <= n}
           None == {n \in Nat : ~ \E s : Sums(f, Upto(n), s)}
<1>1. \A E \in SUBSET D : IsFiniteSet(E) /\ Cardinality(E) \in Nat /\ Cardinality(E) <= Cardinality(D)
  BY FS_Subset, FS_CardinalityType
<1>2. \A E \in SUBSET D : Cardinality(E) = 0 => E = {}
  BY <1>1, FS_EmptySet
<1>3. ASSUME None # {}
      PROVE  FALSE
  <2>1. PICK n \in None : \A j \in None : n <= j
    <3>1. None \subseteq Nat
      OBVIOUS
    <3> HIDE DEF None
    <3> QED
      BY <1>3, <3>1, LowestExists
  <2>2. CASE n = 0
    <3> DEFINE zero == [E \in Upto(0) |-> 0]
    <3>1. \A E \in Upto(0) : SumOf(f, zero, E) = 0
      BY <1>1, <1>2 DEF SumOf
    <3>2. zero = [E \in Upto(0) |-> SumOf(f, zero, E)]
      <4>1. zero = [E \in Upto(0) |-> 0]
        OBVIOUS
      <4> HIDE DEF zero, Upto
      <4> QED
        BY <3>1, <4>1
    <3>3. Sums(f, Upto(0), zero)
      <4> HIDE DEF zero, Upto
      <4> QED
        BY <3>2 DEF Sums
    <3> QED
      BY <2>1, <2>2, <3>3
  <2>3. CASE n # 0
    <3>1. n \in Nat /\ n - 1 \in Nat /\ ~(n <= n - 1)
      BY <2>1, <2>3
    <3>2. n - 1 \notin None
      BY <2>1, <3>1
    <3>3. PICK s : Sums(f, Upto(n - 1), s)
      BY <3>1, <3>2
    <3> DEFINE t == [E \in Upto(n) |-> SumOf(f, s, E)]
    <3>4. Upto(n - 1) \subseteq Upto(n)
      BY <1>1, <3>1
    <3>5. \A E \in Upto(n - 1) : s[E] = t[E]
      <4> HIDE DEF Upto
      <4> QED
        BY <3>3, <3>4 DEF Sums
    <3>6. \A E \in Upto(n) : E # {} => E \ {Element(E)} \in Upto(n - 1)
      <4> SUFFICES ASSUME NEW E \in Upto(n), E # {}
                   PROVE  E \ {Element(E)} \in Upto(n - 1)
        OBVIOUS
      <4>1. Element(E) \in E /\ IsFiniteSet(E) /\ Cardinality(E) \in Nat /\ Cardinality(E) <= n
        BY <1>1, ElementOf
      <4>2. Cardinality(E \ {Element(E)}) = Cardinality(E) - 1
        BY <4>1, FS_RemoveElement
      <4> QED
        BY <3>1, <4>1, <4>2
    <3>7. \A E \in Upto(n) : SumOf(f, s, E) = SumOf(f, t, E)
      <4> HIDE DEF Upto, t
      <4> QED
        BY <3>5, <3>6 DEF SumOf
    <3>8. Sums(f, Upto(n), t)
      <4>1. t = [E \in Upto(n) |-> SumOf(f, s, E)]
        OBVIOUS
      <4> HIDE DEF Upto, t
      <4> QED
        BY <3>7, <4>1 DEF Sums
    <3> QED
      BY <2>1, <3>8
  <2> QED
    BY <2>2, <2>3
<1>4. Cardinality(D) \in Nat /\ Upto(Cardinality(D)) = SUBSET D
  BY <1>1
<1>5. Cardinality(D) \notin None
  BY <1>3
<1> QED
  BY <1>4, <1>5

\* A sum has any one of its elements and the sum of the others.
LEMMA SumsAddUp ==
    ASSUME NEW f, NEW D, IsFiniteSet(D), \A x \in D : f[x] \in Int, NEW s, Sums(f, SUBSET D, s)
    PROVE  /\ s[{}] = 0
           /\ \A E \in SUBSET D : s[E] \in Int
           /\ \A E \in SUBSET D : \A x \in E : s[E] = f[x] + s[E \ {x}]
<1>1. s[{}] = 0
  BY DEF Sums, SumOf
<1>2. \A E \in SUBSET D : E # {} =>
        Element(E) \in E /\ s[E] = f[Element(E)] + s[E \ {Element(E)}]
  BY ElementOf DEF Sums, SumOf
<1>3. \A E \in SUBSET D : s[E] \in Int
  <2> DEFINE B == {E \in SUBSET D : s[E] \notin Int}
  <2>1. {} \notin B
    BY <1>1
  <2>2. ASSUME NEW E \in B, E # {}
        PROVE  E \ {Element(E)} \in B /\ Element(E) \in E
    <3> DEFINE y == Element(E)
               rest == E \ {y}
    <3>1. y \in E /\ s[E] = f[y] + s[rest] /\ s[E] \notin Int
      BY <1>2, <2>2
    <3>2. f[y] \in Int /\ rest \in SUBSET D
      BY <3>1
    <3>3. s[rest] \notin Int
      <4> HIDE DEF rest, y
      <4> QED
        BY <3>1, <3>2
    <3> QED
      BY <3>1, <3>2, <3>3
  <2>3. B = {}
    <3>1. B \subseteq SUBSET D
      OBVIOUS
    <3> HIDE DEF B
    <3> QED
      BY <2>1, <2>2, <3>1, NoExceptions
  <2> QED
    BY <2>3
<1>4. \A E \in SUBSET D : \A x \in E : s[E] = f[x] + s[E \ {x}]
  <2> DEFINE B == {E \in SUBSET D : \E x \in E : s[E] # f[x] + s[E \ {x}]}
  <2>1. {} \notin B /\ B \subseteq SUBSET D
    OBVIOUS
  <2>2. ASSUME NEW E \in B
        PROVE  \E x \in E : E \ {x} \in B
    <3>1. PICK x \in E : s[E] # f[x] + s[E \ {x}]
      OBVIOUS
    <3> DEFINE y == Element(E)
               rest == (E \ {y}) \ {x}
    <3>2. y \in E /\ s[E] = f[y] + s[E \ {y}]
      BY <1>2
    <3>3. x # y /\ x \in E \ {y} /\ y \in E \ {x} /\ (E \ {x}) \ {y} = rest
      BY <3>1, <3>2
    <3>4. rest \in SUBSET D /\ E \ {x} \in SUBSET D /\ E \ {y} \in SUBSET D
      OBVIOUS
    <3>5. s[rest] \in Int /\ f[x] \in Int /\ f[y] \in Int
      BY <1>3, <3>2, <3>4
    <3>6. ~(s[E \ {y}] = f[x] + s[rest] /\ s[E \ {x}] = f[y] + s[rest])
      <4>1. s[E \ {y}] = f[x] + s[rest] /\ s[E \ {x}] = f[y] + s[rest]
              => f[y] + s[E \ {y}] = f[x] + s[E \ {x}]
        <5> HIDE DEF rest, y
        <5> QED
          BY <3>5
      <4> QED
        BY <3>1, <3>2, <4>1
    <3>7. s[E \ {y}] # f[x] + s[(E \ {y}) \ {x}] \/ s[E \ {x}] # f[y] + s[(E \ {x}) \ {y}]
      BY <3>3, <3>6
    <3>8. E \ {y} \in B \/ E \ {x} \in B
      <4> HIDE DEF y
      <4> QED
        BY <3>3, <3>4, <3>7
    <3> QED
      BY <3>2, <3>8
  <2>3. B = {}
    <3> HIDE DEF B
    <3> QED
      BY <2>1, <2>2, NoExceptions
  <2> QED
    BY <2>3
<1> QED
  BY <1>1, <1>3, <1>4

\* Sums of which the terms are the same in some order are the same.
Matched(f, g, h) ==
    /\ h \in Bijection(DOMAIN f, DOMAIN g)
    /\ \A x \in DOMAIN f : f[x] = g[h[x]]

LEMMA SameTotal ==
    ASSUME NEW f, NEW g, NEW h, IsFiniteSet(DOMAIN f), \A x \in DOMAIN f : f[x] \in Int,
           Matched(f, g, h)
    PROVE  Total(f) = Total(g)
<1> DEFINE D == DOMAIN f
           F == DOMAIN g
           Image(E) == {h[x] : x \in E}
<1>1. /\ h \in [D -> F]
      /\ \A x, y \in D : h[x] = h[y] => x = y
      /\ \A z \in F : \E x \in D : h[x] = z
      /\ \A x \in D : f[x] = g[h[x]]
  BY DEF Matched, Bijection, Injection, Surjection, IsInjective
<1>2. IsFiniteSet(F)
  <2>1. ExistsBijection(D, F)
    BY DEF Matched, ExistsBijection
  <2> QED
    BY <2>1, FS_Bijection
<1>3. \A z \in F : g[z] \in Int
  BY <1>1
<1> DEFINE s == CHOOSE r : Sums(f, SUBSET D, r)
           t == CHOOSE r : Sums(g, SUBSET F, r)
<1>4. Sums(f, SUBSET D, s) /\ Sums(g, SUBSET F, t)
  BY <1>2, SumsExist
<1>5. Total(f) = s[D] /\ Total(g) = t[F]
  BY TotalIsSum
<1> HIDE DEF s, t
<1>6. \A E \in SUBSET D : s[E] = t[Image(E)]
  <2> DEFINE B == {E \in SUBSET D : s[E] # t[Image(E)]}
  <2>1. {} \notin B
    <3>1. Image({}) = {}
      OBVIOUS
    <3>2. s[{}] = 0 /\ t[{}] = 0
      BY <1>2, <1>3, <1>4, SumsAddUp
    <3> QED
      BY <3>1, <3>2
  <2>2. ASSUME NEW E \in B, E # {}
        PROVE  \E x \in E : E \ {x} \in B
    <3>1. PICK x \in E : TRUE
      BY <2>2
    <3>2. s[E] = f[x] + s[E \ {x}]
      BY <1>4, SumsAddUp
    <3>3. Image(E) \in SUBSET F /\ h[x] \in Image(E)
      BY <1>1
    <3>4. t[Image(E)] = g[h[x]] + t[Image(E) \ {h[x]}]
      <4>1. \A z \in Image(E) : t[Image(E)] = g[z] + t[Image(E) \ {z}]
        <5> HIDE DEF Image
        <5> QED
          BY <1>2, <1>3, <1>4, <3>3, SumsAddUp
      <4> QED
        BY <3>3, <4>1
    <3>5. Image(E) \ {h[x]} = Image(E \ {x})
      BY <1>1
    <3>6. s[E \ {x}] # t[Image(E \ {x})]
      BY <1>1, <3>2, <3>4, <3>5
    <3> QED
      BY <3>6
  <2>3. B = {}
    <3>1. B \subseteq SUBSET D
      OBVIOUS
    <3> HIDE DEF B
    <3> QED
      BY <2>1, <2>2, <3>1, NoExceptions
  <2> QED
    BY <2>3
<1>7. Image(D) = F
  BY <1>1
<1> QED
  BY <1>5, <1>6, <1>7

Ones(f) == \A x \in DOMAIN f : f[x] = 1

\* A sum of ones counts its terms.
LEMMA TotalOfOnes ==
    ASSUME NEW f, IsFiniteSet(DOMAIN f), Ones(f)
    PROVE  Total(f) = Cardinality(DOMAIN f)
<1> DEFINE D == DOMAIN f
           s == CHOOSE r : Sums(f, SUBSET D, r)
<1>1. Sums(f, SUBSET D, s)
  BY SumsExist
<1>2. Total(f) = s[D]
  BY TotalIsSum
<1> HIDE DEF s
<1>3. \A x \in D : f[x] \in Int
  BY DEF Ones
<1>4. s[{}] = 0
  BY <1>1, <1>3, SumsAddUp
<1>5. \A E \in SUBSET D : \A x \in E : s[E] = 1 + s[E \ {x}]
  <2> SUFFICES ASSUME NEW E \in SUBSET D, NEW x \in E
               PROVE  s[E] = 1 + s[E \ {x}]
    OBVIOUS
  <2>1. s[E] = f[x] + s[E \ {x}]
    BY <1>1, <1>3, SumsAddUp
  <2> QED
    BY <2>1 DEF Ones
<1>6. \A E \in SUBSET D : IsFiniteSet(E) /\ Cardinality(E) \in Nat
  BY FS_Subset, FS_CardinalityType
<1>7. \A E \in SUBSET D : s[E] = Cardinality(E)
  <2> DEFINE B == {E \in SUBSET D : s[E] # Cardinality(E)}
  <2>1. {} \notin B /\ B \subseteq SUBSET D
    BY <1>4, FS_EmptySet
  <2>2. ASSUME NEW E \in B, E # {}
        PROVE  \E x \in E : E \ {x} \in B
    <3>1. PICK x \in E : TRUE
      BY <2>2
    <3>2. s[E] = 1 + s[E \ {x}]
      BY <1>5
    <3>3. Cardinality(E \ {x}) = Cardinality(E) - 1 /\ Cardinality(E) \in Nat
      BY <1>6, FS_RemoveElement
    <3>4. s[E \ {x}] # Cardinality(E \ {x})
      BY <3>2, <3>3
    <3> QED
      BY <3>4
  <2>3. B = {}
    <3> HIDE DEF B
    <3> QED
      BY <2>1, <2>2, NoExceptions
  <2> QED
    BY <2>3
<1> QED
  BY <1>2, <1>7

\* A sum of integers is one.
LEMMA TotalType ==
    ASSUME NEW f, IsFiniteSet(DOMAIN f), \A x \in DOMAIN f : f[x] \in Int
    PROVE  Total(f) \in Int
<1> DEFINE D == DOMAIN f
           s == CHOOSE r : Sums(f, SUBSET D, r)
<1>1. Sums(f, SUBSET D, s)
  BY SumsExist
<1>2. Total(f) = s[D]
  BY TotalIsSum
<1> HIDE DEF s
<1>3. \A E \in SUBSET D : s[E] \in Int
  BY <1>1, SumsAddUp
<1> QED
  BY <1>2, <1>3

----------------------------------------------------------------------------
(* Usage, invoices and reconciliation. *)

ReportRow ==
    [pc : {"none", "calls", "done"}, of : Scope \cup {"every"}, manual : SUBSET Int,
     calls : SUBSET Nat, torn : BOOLEAN, expected : SUBSET Int,
     status : {"none", "pass", "warn", "fail"}, whole : BOOLEAN]

ImportRow == {NoImport} \cup [invoice : Invoice, items : Bill]

BillingTypes ==
    /\ usage \in Seq(UsageRows) /\ lines \in Seq(Lines)
    /\ importing \in [Importer -> ImportRow]
    /\ billed \in [Invoice -> Bill \cup {<<>>}]
    /\ overtaken \in BOOLEAN
    /\ report \in ReportRow /\ report.calls \subseteq DOMAIN usage

\* The active lines of an invoice are those of its last import, in a row.
Placed(v, s) ==
    /\ Active(v) = {s + n : n \in DOMAIN billed[v]}
    /\ \A n \in DOMAIN billed[v] : lines[s + n].item = billed[v][n]
LinesOK == overtaken = FALSE => \A v \in Invoice : \E s \in Nat : Placed(v, s)

CallsOK == report.pc # "none" /\ report.torn = FALSE => report.calls = Of(usage, report.of)

BillingInv == BillingTypes /\ LinesOK /\ CallsOK /\ ReconciliationAddsUp

LEMMA BillType == \A b \in Bill \cup {<<>>} : b \in Seq(Items)
<1>1. <<>> \in Seq(Items)
  OBVIOUS
<1>2. Bill \subseteq Seq(Items)
  BY BillAssumption
<1> QED
  BY <1>1, <1>2

LEMMA BillingInvInit == ReportsInit => BillingInv
<1> SUFFICES ASSUME ReportsInit
             PROVE  BillingInv
  OBVIOUS
<1>1. NoReport \in ReportRow /\ NoReport.pc = "none" /\ NoReport.calls = {}
  BY DEF NoReport, ReportRow
<1>2. BillingTypes
  <2>1. usage \in Seq(UsageRows) /\ lines \in Seq(Lines)
    BY DEF ReportsInit
  <2> QED
    BY <1>1, <2>1 DEF ReportsInit, BillingTypes, ImportRow
<1>3. \A v \in Invoice : Placed(v, 0)
  <2> SUFFICES ASSUME NEW v \in Invoice
               PROVE  Placed(v, 0)
    OBVIOUS
  <2>1. DOMAIN lines = {} /\ DOMAIN billed[v] = {}
    BY DEF ReportsInit
  <2> QED
    BY <2>1 DEF Placed, Active
<1> QED
  BY <1>1, <1>2, <1>3 DEF ReportsInit, BillingInv, LinesOK, CallsOK, ReconciliationAddsUp

\* A report that is disturbed says nothing.
LEMMA Disturbed ==
    ASSUME BillingTypes, Disturb
    PROVE  /\ report' \in ReportRow /\ (report'.calls = {} \/ report'.calls = report.calls)
           /\ report'.pc = "none" \/ (report'.pc = "calls" /\ report'.torn = TRUE)
<1>1. CASE report.pc = "calls"
  <2>1. report' = [report EXCEPT !.torn = TRUE]
    BY <1>1 DEF Disturb
  <2> QED
    BY <1>1, <2>1 DEF BillingTypes, ReportRow
<1>2. CASE report.pc # "calls"
  <2>1. report' = NoReport
    BY <1>2 DEF Disturb
  <2> QED
    BY <2>1 DEF NoReport, ReportRow
<1> QED
  BY <1>1, <1>2

\* So nothing has to hold of it.
LEMMA DisturbedOK ==
    ASSUME BillingTypes, Disturb
    PROVE  CallsOK' /\ ReconciliationAddsUp'
<1>1. report'.pc = "none" \/ (report'.pc = "calls" /\ report'.torn = TRUE)
  BY Disturbed
<1> QED
  BY <1>1 DEF CallsOK, ReconciliationAddsUp

LEMMA UsageKeeps ==
    ASSUME BillingInv, NEW row \in UsageRows, RecordUsage(row)
    PROVE  BillingInv'
<1>1. BillingTypes'
  <2>1. usage' \in Seq(UsageRows) /\ DOMAIN usage \subseteq DOMAIN usage'
    BY DEF RecordUsage, BillingInv, BillingTypes
  <2>2. report' \in ReportRow /\ report'.calls \subseteq DOMAIN usage'
    BY <2>1, Disturbed DEF RecordUsage, BillingInv, BillingTypes
  <2> QED
    BY <2>1, <2>2 DEF RecordUsage, BillingInv, BillingTypes
<1>2. LinesOK'
  BY DEF RecordUsage, BillingInv, LinesOK, Placed, Active
<1>3. CallsOK' /\ ReconciliationAddsUp'
  BY DisturbedOK DEF RecordUsage, BillingInv
<1> QED
  BY <1>1, <1>2, <1>3 DEF BillingInv

\* What the lines were before an import has added its own: those of the others as they are,
\* those of the invoice not active.
Cleared(v, old) ==
    /\ old \in Seq(Lines) /\ Len(old) = Len(lines)
    /\ \A i \in DOMAIN lines :
         /\ old[i].invoice = lines[i].invoice /\ old[i].item = lines[i].item
         /\ old[i].invoice # v => old[i].status = lines[i].status
         /\ old[i].invoice = v => old[i].status # "active"

LEMMA AddedLines ==
    ASSUME BillingTypes, LinesOK, NEW v \in Invoice, NEW items \in Bill, NEW old, Cleared(v, old),
           lines' = Added(v, items, old), billed' = [billed EXCEPT ![v] = items],
           overtaken' = FALSE => overtaken = FALSE
    PROVE  lines' \in Seq(Lines) /\ LinesOK'
<1>0. PICK n \in Nat : n = Len(lines)
  BY DEF BillingTypes
<1> DEFINE more == [i \in DOMAIN items |-> [invoice |-> v, item |-> items[i], status |-> "active"]]
<1>1. items \in Seq(Items) /\ DOMAIN items = 1 .. Len(items) /\ Len(items) \in Nat
  BY BillType
<1>2. n \in Nat /\ DOMAIN lines = 1 .. n /\ Len(old) = n /\ DOMAIN old = 1 .. n /\ old \in Seq(Lines)
  BY <1>0 DEF BillingTypes, Cleared
<1>3. more \in Seq(Lines) /\ Len(more) = Len(items)
  BY <1>1 DEF Lines
<1>4. lines' = old \o more
  BY DEF Added
<1>5. lines' \in Seq(Lines) /\ DOMAIN lines' = 1 .. n + Len(items)
  <2> HIDE DEF more
  <2>1. lines' \in Seq(Lines) /\ Len(lines') = n + Len(items)
    BY <1>2, <1>3, <1>4, ConcatProperties
  <2> QED
    BY <2>1
<1>6. \A i \in 1 .. n : lines'[i] = old[i]
  <2> HIDE DEF more
  <2> QED
    BY <1>1, <1>2, <1>3, <1>4
<1>7. \A k \in DOMAIN items :
        /\ n + k \in DOMAIN lines' /\ lines'[n + k].invoice = v
        /\ lines'[n + k].item = items[k] /\ lines'[n + k].status = "active"
  <2> SUFFICES ASSUME NEW k \in DOMAIN items
               PROVE  /\ n + k \in DOMAIN lines' /\ lines'[n + k].invoice = v
                      /\ lines'[n + k].item = items[k] /\ lines'[n + k].status = "active"
    OBVIOUS
  <2>1. more[k].invoice = v /\ more[k].item = items[k] /\ more[k].status = "active"
    OBVIOUS
  <2>2. n + k \in DOMAIN lines' /\ lines'[n + k] = more[k]
    <3> HIDE DEF more
    <3> QED
      BY <1>1, <1>2, <1>3, <1>4
  <2> HIDE DEF more
  <2> QED
    BY <2>1, <2>2
<1>8. \A i \in DOMAIN lines' : i \in 1 .. n \/ \E k \in DOMAIN items : i = n + k
  <2> SUFFICES ASSUME NEW i \in DOMAIN lines', i \notin 1 .. n
               PROVE  \E k \in DOMAIN items : i = n + k
    OBVIOUS
  <2>1. i - n \in DOMAIN items /\ i = n + (i - n)
    BY <1>1, <1>2, <1>5
  <2> QED
    BY <2>1
<1> HIDE DEF more
<1>9. Placed(v, n)'
  <2>1. billed'[v] = items
    BY DEF BillingTypes
  <2>2. Active(v)' = {n + k : k \in DOMAIN items}
    <3>1. \A i \in 1 .. n : i \notin Active(v)'
      BY <1>2, <1>6 DEF Active, Cleared
    <3>2. \A k \in DOMAIN items : n + k \in Active(v)'
      BY <1>7 DEF Active
    <3>3. Active(v)' \subseteq DOMAIN lines'
      BY DEF Active
    <3> QED
      BY <1>8, <3>1, <3>2, <3>3
  <2>3. \A k \in DOMAIN items : lines'[n + k].item = items[k]
    BY <1>7
  <2> QED
    BY <2>1, <2>2, <2>3 DEF Placed
<1>10. ASSUME NEW w \in Invoice, w # v, NEW s \in Nat, Placed(w, s)
       PROVE  Placed(w, s)'
  <2>1. billed'[w] = billed[w]
    BY <1>10 DEF BillingTypes
  <2>2. Active(w)' = Active(w)
    <3>1. \A i \in 1 .. n : i \in Active(w)' <=> i \in Active(w)
      <4>1. \A i \in 1 .. n : i \in DOMAIN lines'
        BY <1>1, <1>2, <1>5
      <4> QED
        BY <1>2, <1>6, <1>10, <4>1 DEF Active, Cleared
    <3>2. \A k \in DOMAIN items : n + k \notin Active(w)'
      BY <1>7, <1>10 DEF Active
    <3>3. Active(w)' \subseteq DOMAIN lines' /\ Active(w) \subseteq 1 .. n
      BY <1>2 DEF Active
    <3> QED
      BY <1>8, <3>1, <3>2, <3>3
  <2>3. \A k \in DOMAIN billed[w] : s + k \in 1 .. n
    BY <1>2, <1>10 DEF Placed, Active
  <2>4. \A k \in DOMAIN billed[w] : lines'[s + k].item = billed[w][k]
    <3>1. \A k \in DOMAIN billed[w] : lines'[s + k].item = lines[s + k].item
      BY <1>2, <1>6, <2>3 DEF Cleared
    <3> QED
      BY <1>10, <3>1 DEF Placed
  <2> QED
    BY <1>10, <2>1, <2>2, <2>4 DEF Placed
<1>11. LinesOK'
  <2> QED
    BY <1>9, <1>10 DEF LinesOK
<1> QED
  BY <1>5, <1>11

LEMMA WriteKeeps ==
    ASSUME BillingInv, NEW p \in Importer, WriteInvoice(p)
    PROVE  BillingInv'
<1> DEFINE v == importing[p].invoice
           items == importing[p].items
<1>1. v \in Invoice /\ items \in Bill
  BY DEF WriteInvoice, BillingInv, BillingTypes, ImportRow
<1>2. overtaken' \in BOOLEAN /\ (overtaken' = FALSE => overtaken = FALSE /\ Active(v) = {})
  BY DEF WriteInvoice, BillingInv, BillingTypes
<1>3. lines' = Added(v, items, lines) /\ billed' = [billed EXCEPT ![v] = items]
  BY DEF WriteInvoice
<1> HIDE DEF v, items
<1>4. lines' \in Seq(Lines)
  <2> DEFINE more == [i \in DOMAIN items |-> [invoice |-> v, item |-> items[i], status |-> "active"]]
  <2>1. items \in Seq(Items) /\ DOMAIN items = 1 .. Len(items) /\ Len(items) \in Nat
    BY <1>1, BillType
  <2>2. more \in Seq(Lines)
    BY <1>1, <2>1 DEF Lines
  <2>3. lines \in Seq(Lines) /\ lines' = lines \o more
    BY <1>3 DEF BillingInv, BillingTypes, Added
  <2> HIDE DEF more
  <2> QED
    BY <2>2, <2>3
<1>5. LinesOK'
  <2>1. CASE overtaken' = FALSE
    <3>1. Cleared(v, lines)
      BY <1>2, <2>1 DEF Cleared, Active, BillingInv, BillingTypes
    <3> QED
      BY <1>1, <1>2, <1>3, <3>1, AddedLines DEF BillingInv
  <2>2. CASE overtaken' # FALSE
    BY <2>2 DEF LinesOK
  <2> QED
    BY <2>1, <2>2
<1>6. CallsOK' /\ ReconciliationAddsUp'
  BY DisturbedOK DEF WriteInvoice, BillingInv
<1>7. BillingTypes'
  <2>1. report' \in ReportRow /\ report'.calls \subseteq DOMAIN usage
    BY Disturbed DEF WriteInvoice, BillingInv, BillingTypes
  <2> QED
    BY <1>1, <1>2, <1>3, <1>4, <2>1 DEF WriteInvoice, BillingInv, BillingTypes, ImportRow
<1> QED
  BY <1>5, <1>6, <1>7 DEF BillingInv

LEMMA OverwriteKeeps ==
    ASSUME BillingInv, NEW v \in Invoice, NEW items \in Bill, OverwriteInvoice(v, items)
    PROVE  BillingInv'
<1>1. Cleared(v, Replaced(v))
  <2>1. /\ Replaced(v) \in Seq(Lines) /\ Len(Replaced(v)) = Len(lines)
        /\ \A i \in DOMAIN lines :
             Replaced(v)[i] = IF lines[i].invoice = v
                              THEN [lines[i] EXCEPT !.status = "replaced"] ELSE lines[i]
    <3>1. \A i \in DOMAIN lines : lines[i] \in Lines
      BY DEF BillingInv, BillingTypes
    <3>2. \A i \in DOMAIN lines : [lines[i] EXCEPT !.status = "replaced"] \in Lines
      BY <3>1 DEF Lines
    <3> QED
      BY <3>1, <3>2 DEF Replaced, BillingInv, BillingTypes
  <2>2. \A i \in DOMAIN lines : lines[i] \in Lines
    BY DEF BillingInv, BillingTypes
  <2> QED
    BY <2>1, <2>2 DEF Cleared, Lines
<1>2. lines' = Added(v, items, Replaced(v)) /\ billed' = [billed EXCEPT ![v] = items]
  BY DEF OverwriteInvoice
<1>3. lines' \in Seq(Lines) /\ LinesOK'
  BY <1>1, <1>2, AddedLines DEF OverwriteInvoice, BillingInv
<1>4. CallsOK' /\ ReconciliationAddsUp'
  BY DisturbedOK DEF OverwriteInvoice, BillingInv
<1>5. BillingTypes'
  <2>1. report' \in ReportRow /\ report'.calls \subseteq DOMAIN usage
    BY Disturbed DEF OverwriteInvoice, BillingInv, BillingTypes
  <2> QED
    BY <1>2, <1>3, <2>1 DEF OverwriteInvoice, BillingInv, BillingTypes
<1> QED
  BY <1>3, <1>4, <1>5 DEF BillingInv

LEMMA ImportStartsOrStops ==
    ASSUME BillingInv, NEW p \in Importer,
           StopImport(p) \/ \E v \in Invoice, items \in Bill : CheckInvoice(p, v, items)
    PROVE  BillingInv'
<1>1. PICK row \in ImportRow : importing' = [importing EXCEPT ![p] = row]
  BY DEF StopImport, CheckInvoice, ImportRow
<1>2. UNCHANGED <<usage, lines, report, billed, overtaken>>
  BY DEF StopImport, CheckInvoice
<1>3. BillingTypes'
  BY <1>1, <1>2 DEF BillingInv, BillingTypes
<1>4. LinesOK'
  BY <1>2 DEF BillingInv, LinesOK, Placed, Active
<1>5. CallsOK'
  BY <1>2 DEF BillingInv, CallsOK, Of
<1>6. ReconciliationAddsUp'
  BY <1>2 DEF BillingInv, ReconciliationAddsUp, Of
<1> QED
  BY <1>3, <1>4, <1>5, <1>6 DEF BillingInv

LEMMA ReportStarts ==
    ASSUME BillingInv, NEW scope \in Scope \cup {"every"}, NEW manual \in {{}, {1}},
           ReadUsage(scope, manual)
    PROVE  BillingInv'
<1>1. /\ report' = [NoReport EXCEPT !.pc = "calls", !.of = scope, !.manual = manual,
                                    !.calls = Of(usage, scope)]
      /\ UNCHANGED <<usage, lines, importing, billed, overtaken>>
  BY DEF ReadUsage
<1>2. Of(usage, scope) \subseteq DOMAIN usage /\ DOMAIN usage \subseteq Nat
  BY DEF Of, BillingInv, BillingTypes
<1>3. /\ report' \in ReportRow /\ report'.pc = "calls" /\ report'.of = scope
      /\ report'.calls = Of(usage, scope)
  <2>1. PICK calls \in SUBSET Nat : calls = Of(usage, scope)
    BY <1>2
  <2>2. report' = [NoReport EXCEPT !.pc = "calls", !.of = scope, !.manual = manual, !.calls = calls]
    BY <1>1, <2>1
  <2>3. manual \in SUBSET Int
    OBVIOUS
  <2> QED
    BY <2>1, <2>2, <2>3 DEF NoReport, ReportRow
<1>4. BillingTypes' /\ LinesOK'
  BY <1>1, <1>2, <1>3 DEF BillingInv, BillingTypes, LinesOK, Placed, Active
<1>5. CallsOK' /\ ReconciliationAddsUp'
  BY <1>1, <1>3 DEF CallsOK, ReconciliationAddsUp, Of
<1> QED
  BY <1>4, <1>5 DEF BillingInv

LEMMA OfIsFinite ==
    ASSUME NEW S, NEW rows \in Seq(S), NEW scope
    PROVE  IsFiniteSet(Of(rows, scope)) /\ Of(rows, scope) \subseteq 1 .. Len(rows)
<1>1. Of(rows, scope) \subseteq 1 .. Len(rows)
  BY DEF Of
<1>2. IsFiniteSet(1 .. Len(rows))
  BY FS_Interval
<1> QED
  BY <1>1, <1>2, FS_Subset

ActiveOf(scope) ==
    {i \in DOMAIN lines : lines[i].status = "active" /\ scope \in {"every", lines[i].item.scope}}

\* What the last imports of all invoices say of a scope.
BilledOf(scope) ==
    {row \in Invoice \X (1 .. Len(lines)) : row[2] \in Of(billed[row[1]], scope)}

LEMMA ActiveIsFinite ==
    ASSUME BillingTypes, NEW scope
    PROVE  /\ IsFiniteSet(ActiveOf(scope)) /\ ActiveOf(scope) \subseteq DOMAIN lines
           /\ \A i \in DOMAIN lines : lines[i].item.amount \in Nat
<1>1. ActiveOf(scope) \subseteq 1 .. Len(lines)
  <2>1. DOMAIN lines = 1 .. Len(lines)
    BY DEF BillingTypes
  <2> QED
    BY <2>1 DEF ActiveOf
<1>2. IsFiniteSet(1 .. Len(lines))
  <2>1. Len(lines) \in Int
    BY DEF BillingTypes
  <2> QED
    BY <2>1, FS_Interval
<1>3. \A i \in DOMAIN lines : lines[i].item.amount \in Nat
  <2>1. \A i \in DOMAIN lines : lines[i] \in Lines
    BY DEF BillingTypes
  <2> QED
    BY <2>1 DEF Lines, Items
<1> QED
  BY <1>1, <1>2, <1>3, FS_Subset DEF BillingTypes

Amounts(I) == [i \in I |-> lines[i].item.amount]
BilledAmounts(B) == [row \in B |-> billed[row[1]][row[2]].amount]

\* The active lines of a scope amount to what its last imports say.
LEMMA ActiveAsBilled ==
    ASSUME BillingTypes, LinesOK, overtaken = FALSE, NEW scope
    PROVE  /\ ActiveOf(scope) = {} <=> BilledOf(scope) = {}
           /\ Total(Amounts(ActiveOf(scope))) = Total(BilledAmounts(BilledOf(scope)))
<1> DEFINE I == ActiveOf(scope)
           B == BilledOf(scope)
           base == [v \in Invoice |-> CHOOSE s \in Nat : Placed(v, s)]
           h == [i \in I |-> <<lines[i].invoice, i - base[lines[i].invoice]>>]
<1>1. \A v \in Invoice : base[v] \in Nat /\ Placed(v, base[v])
  BY DEF LinesOK
<1>2. \A i \in DOMAIN lines : i \in 1 .. Len(lines) /\ lines[i].invoice \in Invoice
  <2>1. \A i \in DOMAIN lines : lines[i] \in Lines /\ i \in 1 .. Len(lines)
    BY DEF BillingTypes
  <2> QED
    BY <2>1 DEF Lines
<1>3. Len(lines) \in Nat /\ \A v \in Invoice : DOMAIN billed[v] \subseteq Nat \ {0}
  <2>1. \A v \in Invoice : billed[v] \in Seq(Items)
    BY BillType DEF BillingTypes
  <2> QED
    BY <2>1 DEF BillingTypes
<1> HIDE DEF base
<1>4. ASSUME NEW i \in I
      PROVE  /\ lines[i].invoice \in Invoice /\ i - base[lines[i].invoice] \in 1 .. Len(lines)
             /\ h[i] \in B /\ billed[lines[i].invoice][i - base[lines[i].invoice]] = lines[i].item
  <2>1. PICK v \in Invoice : v = lines[i].invoice
    BY <1>2 DEF ActiveOf
  <2>2. i \in Active(v)
    BY <2>1 DEF ActiveOf, Active
  <2>3. PICK n \in DOMAIN billed[v] : i = base[v] + n
    BY <1>1, <2>2 DEF Placed
  <2>4. n \in Nat \ {0} /\ base[v] \in Nat /\ i \in 1 .. Len(lines)
    BY <1>1, <1>2, <1>3 DEF ActiveOf
  <2>5. i - base[v] = n /\ n \in 1 .. Len(lines)
    BY <1>3, <2>3, <2>4
  <2>6. billed[v][n] = lines[i].item
    BY <1>1, <2>3 DEF Placed
  <2>7. n \in Of(billed[v], scope)
    BY <2>6 DEF Of, ActiveOf
  <2>8. h[i] = <<v, n>>
    BY <2>1, <2>5
  <2>9. <<v, n>> \in B
    BY <2>5, <2>7 DEF BilledOf
  <2> QED
    BY <2>1, <2>5, <2>6, <2>8, <2>9
<1>5. ASSUME NEW row \in B
      PROVE  \E i \in I : h[i] = row
  <2>1. PICK v \in Invoice, n \in 1 .. Len(lines) : row = <<v, n>> /\ n \in Of(billed[v], scope)
    BY DEF BilledOf
  <2>2. n \in DOMAIN billed[v] /\ scope \in {"every", billed[v][n].scope}
    BY <2>1 DEF Of
  <2> DEFINE i == base[v] + n
  <2>3. i \in Active(v) /\ lines[i].item = billed[v][n]
    BY <1>1, <2>2 DEF Placed
  <2>4. i \in I /\ lines[i].invoice = v
    BY <2>2, <2>3 DEF Active, ActiveOf
  <2>5. i - base[v] = n
    BY <1>1, <1>3, <2>2
  <2> QED
    BY <2>1, <2>4, <2>5
<1>6. \A i, j \in I : h[i] = h[j] => i = j
  <2> SUFFICES ASSUME NEW i \in I, NEW j \in I, h[i] = h[j]
               PROVE  i = j
    OBVIOUS
  <2>1. h[i] = <<lines[i].invoice, i - base[lines[i].invoice]>>
    OBVIOUS
  <2>2. h[j] = <<lines[j].invoice, j - base[lines[j].invoice]>>
    OBVIOUS
  <2>3. lines[i].invoice = lines[j].invoice /\ i - base[lines[i].invoice] = j - base[lines[i].invoice]
    BY <2>1, <2>2
  <2>4. i \in Nat /\ j \in Nat /\ base[lines[i].invoice] \in Nat
    BY <1>1, <1>2 DEF ActiveOf
  <2> QED
    BY <2>3, <2>4
<1>7. Matched(Amounts(I), BilledAmounts(B), h)
  <2>1. h \in [I -> B]
    BY <1>4
  <2>2. h \in Bijection(I, B)
    <3> HIDE DEF h, I, B
    <3> QED
      BY <1>5, <1>6, <2>1 DEF Bijection, Injection, Surjection, IsInjective
  <2>3. \A i \in I : Amounts(I)[i] = BilledAmounts(B)[h[i]]
    <3> SUFFICES ASSUME NEW i \in I
                 PROVE  lines[i].item.amount = billed[h[i][1]][h[i][2]].amount
      BY <2>1 DEF Amounts, BilledAmounts
    <3>1. h[i][1] = lines[i].invoice /\ h[i][2] = i - base[lines[i].invoice]
      OBVIOUS
    <3> QED
      BY <1>4, <3>1
  <2>4. DOMAIN Amounts(I) = I /\ DOMAIN BilledAmounts(B) = B
    BY DEF Amounts, BilledAmounts
  <2> HIDE DEF h, I, B
  <2> QED
    BY <2>2, <2>3, <2>4 DEF Matched
<1>8. IsFiniteSet(DOMAIN Amounts(I)) /\ \A i \in DOMAIN Amounts(I) : Amounts(I)[i] \in Int
  BY ActiveIsFinite DEF Amounts
<1>9. Total(Amounts(I)) = Total(BilledAmounts(B))
  <2> HIDE DEF h, I, B
  <2> QED
    BY <1>7, <1>8, SameTotal
<1>10. I = {} <=> B = {}
  <2> HIDE DEF h, I, B
  <2> QED
    BY <1>4, <1>5
<1> QED
  BY <1>9, <1>10

\* What a report has read of calls that are plain costs as much as there are of them.
LEMMA PlainCalls ==
    ASSUME NEW calls \in SUBSET DOMAIN usage, BillingTypes,
           \A i \in calls : usage[i].kind = "plain"
    PROVE  Spent(calls) = Cardinality(calls)
<1> DEFINE f == [i \in calls |-> Cost(usage[i])]
<1>1. DOMAIN f = calls /\ Ones(f)
  BY DEF Ones, Cost
<1>2. IsFiniteSet(calls)
  <2>1. IsFiniteSet(1 .. Len(usage)) /\ calls \subseteq 1 .. Len(usage)
    BY FS_Interval DEF BillingTypes
  <2> QED
    BY <2>1, FS_Subset
<1>3. Total(f) = Cardinality(calls)
  <2> HIDE DEF f
  <2> QED
    BY <1>1, <1>2, TotalOfOnes
<1> QED
  BY <1>3 DEF Spent

LEMMA ReportEnds ==
    ASSUME BillingInv, ReadLines
    PROVE  BillingInv'
<1>1. PICK I \in PagesOf(report.of) :
        LET expected == IF report.manual # {} THEN report.manual
                        ELSE IF I = {} THEN {} ELSE {Owed(I)}
        IN  report' = [report EXCEPT !.pc = "done", !.expected = expected,
                                     !.status = Judge(report.calls, expected),
                                     !.whole = Cardinality(I) < Page]
  BY DEF ReadLines
<1> DEFINE all == ActiveOf(report.of)
           amounts == IF report.manual # {} THEN report.manual ELSE IF I = {} THEN {} ELSE {Owed(I)}
<1>2. I \subseteq all /\ Cardinality(I) = IF Cardinality(all) <= Page THEN Cardinality(all) ELSE Page
  BY DEF PagesOf, ActiveOf
<1>3. IsFiniteSet(all) /\ Cardinality(all) \in Nat /\ all \subseteq DOMAIN lines /\ IsFiniteSet(I)
  <2>1. IsFiniteSet(all) /\ all \subseteq DOMAIN lines
    BY ActiveIsFinite DEF BillingInv
  <2> HIDE DEF all
  <2> QED
    BY <1>2, <2>1, FS_Subset, FS_CardinalityType
<1>4. Owed(I) \in Int
  <2>1. \A i \in I : Amounts(I)[i] \in Int
    <3>1. \A i \in DOMAIN lines : lines[i].item.amount \in Int
      BY ActiveIsFinite DEF BillingInv
    <3> QED
      BY <1>2, <1>3, <3>1 DEF Amounts
  <2>2. DOMAIN Amounts(I) = I
    BY DEF Amounts
  <2>3. Total(Amounts(I)) \in Int
    BY <1>3, <2>1, <2>2, TotalType
  <2> QED
    BY <2>3 DEF Owed, Amounts
<1>5. PICK expected \in SUBSET Int : expected = amounts
  <2>1. report.manual \in SUBSET Int
    BY DEF BillingInv, BillingTypes, ReportRow
  <2> QED
    BY <1>4, <2>1
<1>6. PICK status \in {"pass", "warn", "fail"} : status = Judge(report.calls, expected)
  <2>1. Judge(report.calls, expected) \in {"pass", "warn", "fail"}
    BY DEF Judge
  <2> QED
    BY <2>1
<1>7. PICK whole \in BOOLEAN : whole = (Cardinality(I) < Page)
  <2>1. CASE Cardinality(I) < Page
    <3>1. TRUE = (Cardinality(I) < Page)
      BY <2>1, Zenon
    <3> QED
      BY <3>1, Zenon
  <2>2. CASE ~(Cardinality(I) < Page)
    <3>1. FALSE = (Cardinality(I) < Page)
      BY <2>2
    <3> QED
      BY <3>1, Zenon
  <2> QED
    BY <2>1, <2>2, Zenon
<1>8. report' = [report EXCEPT !.pc = "done", !.expected = expected, !.status = status, !.whole = whole]
  BY <1>1, <1>5, <1>6, <1>7
<1>9. /\ report' \in ReportRow /\ report'.pc = "done" /\ report'.expected = expected
      /\ report'.status = status /\ report'.whole = whole /\ report'.of = report.of
      /\ report'.manual = report.manual /\ report'.calls = report.calls
      /\ report'.torn = report.torn
  BY <1>8 DEF BillingInv, BillingTypes, ReportRow
<1>10. UNCHANGED <<usage, lines, importing, billed, overtaken>>
  BY DEF ReadLines
<1>11. BillingTypes' /\ LinesOK'
  BY <1>9, <1>10 DEF BillingInv, BillingTypes, LinesOK, Placed, Active
<1>12. report.pc = "calls"
  BY DEF ReadLines
<1>13. CallsOK'
  BY <1>9, <1>10, <1>12 DEF BillingInv, CallsOK, Of
<1>14. ReconciliationAddsUp'
  <2> SUFFICES ASSUME report.torn = FALSE
               PROVE  ReconciliationAddsUp'
    BY <1>9 DEF ReconciliationAddsUp, BillingInv, BillingTypes, ReportRow
  <2>1. report.calls = Of(usage, report.of)
    BY <1>12 DEF BillingInv, CallsOK
  <2>2. ASSUME report.manual = {}, whole = TRUE, overtaken = FALSE
        PROVE  expected = IF BilledOf(report.of) = {} THEN {}
                          ELSE {Total(BilledAmounts(BilledOf(report.of)))}
    <3>1. Cardinality(I) < Page /\ Page \in Nat
      BY <1>7, <2>2, PageAssumption
    <3>2. Cardinality(I) = Cardinality(all)
      BY <1>2, <1>3, <3>1
    <3>3. I = all
      <4> HIDE DEF all
      <4> QED
        BY <1>2, <1>3, <3>2, FS_Subset
    <3>4. expected = IF all = {} THEN {} ELSE {Total(Amounts(all))}
      BY <1>5, <2>2, <3>3 DEF Owed, Amounts
    <3> QED
      BY <2>2, <3>4, ActiveAsBilled DEF BillingInv
  <2>3. ASSUME status = "pass"
        PROVE  /\ \A i \in Of(usage, report.of) : usage[i].kind = "plain"
               /\ expected \subseteq {Cardinality(Of(usage, report.of))}
    <3>1. /\ \A i \in report.calls : usage[i].kind # "negative" /\ usage[i].kind # "odd"
          /\ \A amount \in expected : amount = Spent(report.calls)
      BY <1>6, <2>3 DEF Judge
    <3>2. \A i \in DOMAIN usage : usage[i].kind \in {"plain", "odd", "negative"}
      <4>1. \A i \in DOMAIN usage : usage[i] \in UsageRows
        BY DEF BillingInv, BillingTypes
      <4> QED
        BY <4>1 DEF UsageRows
    <3>3. report.calls \subseteq DOMAIN usage
      BY DEF BillingInv, BillingTypes
    <3>4. \A i \in report.calls : usage[i].kind = "plain"
      BY <3>1, <3>2, <3>3
    <3>5. Spent(report.calls) = Cardinality(report.calls)
      BY <3>3, <3>4, PlainCalls DEF BillingInv
    <3> QED
      BY <2>1, <3>1, <3>4, <3>5
  <2> QED
    <3>1. BilledOf(report.of)' = BilledOf(report.of)
      BY <1>9, <1>10 DEF BilledOf, Of
    <3>2. BilledAmounts(BilledOf(report.of))' = BilledAmounts(BilledOf(report.of))
      BY <1>10, <3>1 DEF BilledAmounts
    <3>3. Of(usage, report.of)' = Of(usage, report.of)
      BY <1>9, <1>10 DEF Of
    <3>4. ASSUME report'.manual = {}, report'.whole, ~overtaken'
          PROVE  report'.expected = IF BilledOf(report.of)' = {} THEN {}
                                    ELSE {Total(BilledAmounts(BilledOf(report.of))')}
      BY <1>9, <1>10, <2>2, <3>1, <3>2, <3>4 DEF BillingInv, BillingTypes
    <3>5. ASSUME report'.status = "pass"
          PROVE  /\ \A i \in Of(usage, report.of)' : usage'[i].kind = "plain"
                 /\ report'.expected \subseteq {Cardinality(Of(usage, report.of)')}
      BY <1>9, <1>10, <2>3, <3>3, <3>5
    <3> QED
      BY <3>4, <3>5 DEF ReconciliationAddsUp, BilledOf, BilledAmounts
<1> QED
  BY <1>11, <1>13, <1>14 DEF BillingInv

LEMMA BillingStays ==
    ASSUME BillingInv, UNCHANGED billingVars
    PROVE  BillingInv'
<1>1. BillingTypes' /\ LinesOK'
  BY DEF billingVars, BillingInv, BillingTypes, LinesOK, Placed, Active
<1>2. CallsOK'
  BY DEF billingVars, BillingInv, CallsOK, Of
<1>3. ReconciliationAddsUp'
  BY DEF billingVars, BillingInv, ReconciliationAddsUp, Of
<1> QED
  BY <1>1, <1>2, <1>3 DEF BillingInv

LEMMA BillingInvStep ==
    ASSUME BillingInv, BillingNext
    PROVE  BillingInv'
<1>1. ASSUME NEW row \in UsageRows, RecordUsage(row)
      PROVE  BillingInv'
  BY <1>1, UsageKeeps
<1>2. ASSUME NEW scope \in Scope \cup {"every"}, NEW manual \in {{}, {1}}, ReadUsage(scope, manual)
      PROVE  BillingInv'
  BY <1>2, ReportStarts
<1>3. ASSUME NEW invoice \in Invoice, NEW items \in Bill, OverwriteInvoice(invoice, items)
      PROVE  BillingInv'
  BY <1>3, OverwriteKeeps
<1>4. ASSUME NEW p \in Importer, NEW invoice \in Invoice, NEW items \in Bill,
             CheckInvoice(p, invoice, items)
      PROVE  BillingInv'
  BY <1>4, ImportStartsOrStops
<1>5. ASSUME NEW p \in Importer, WriteInvoice(p)
      PROVE  BillingInv'
  BY <1>5, WriteKeeps
<1>6. ASSUME NEW p \in Importer, StopImport(p)
      PROVE  BillingInv'
  BY <1>6, ImportStartsOrStops
<1>7. ASSUME ReadLines
      PROVE  BillingInv'
  BY <1>7, ReportEnds
<1> QED
  BY <1>1, <1>2, <1>3, <1>4, <1>5, <1>6, <1>7 DEF BillingNext

----------------------------------------------------------------------------
(* The dashboard. *)

Dashes ==
    [at : 0 .. Len(Looks) + 1, found : SUBSET Trouble, raised : SUBSET Trouble,
     ever : SUBSET Trouble, always : SUBSET Trouble, status : {"none", "pass", "warn", "fail"}]

\* What was wrong all the time and has been looked for is found, or is of a component that
\* raised; what is found was wrong at some time.
DashInv ==
    /\ trouble \subseteq Trouble /\ dash \in Dashes
    /\ dash.found \subseteq dash.ever /\ dash.always \subseteq trouble \cap dash.ever
    /\ dash.at \in DOMAIN Looks => trouble \subseteq dash.ever
    /\ \A i \in DOMAIN Looks :
         i < dash.at /\ Looks[i] \in dash.always => Looks[i] \in dash.found \cup dash.raised
    /\ dash.status # "none" =>
         dash.at = Len(Looks) + 1 /\ dash.status = Overall(dash.found, dash.raised)

LEMMA LooksType == Len(Looks) \in Nat /\ DOMAIN Looks = 1 .. Len(Looks)
<1> DEFINE S == {"damaged", "large", "slow", "negative", "mismatch", "stale", "failed", "overdue",
                 "urgent", "escalated", "undelivered"}
<1>1. \A T, x, y : x \in T /\ y \in T => <<x>> \in Seq(T) /\ <<x, y>> \in Seq(T)
  OBVIOUS
<1>2. OperationalHealth \in Seq(S) /\ ObservabilityHealth \in Seq(S)
  BY <1>1 DEF OperationalHealth, ObservabilityHealth
<1>3. BillingHealth \in Seq(S) /\ WorkerHealth \in Seq(S)
  BY <1>1 DEF BillingHealth, WorkerHealth
<1>4. RecoveryHealth \in Seq(S) /\ NotificationsHealth \in Seq(S) /\ DeliveryHealth \in Seq(S)
  BY <1>1 DEF RecoveryHealth, NotificationsHealth, DeliveryHealth
<1>5. \A a, b \in Seq(S) : a \o b \in Seq(S)
  OBVIOUS
<1> HIDE DEF S
<1>6. Looks \in Seq(S)
  BY <1>2, <1>3, <1>4, <1>5 DEF Looks
<1> QED
  BY <1>6

LEMMA NoDashOK ==
    ASSUME trouble' \subseteq Trouble, dash' = NoDash
    PROVE  DashInv'
<1>1. NoDash \in Dashes /\ NoDash.at = 0 /\ 0 \notin DOMAIN Looks
  BY LooksType DEF NoDash, Dashes
<1>2. /\ NoDash.found = {} /\ NoDash.always = {} /\ NoDash.status = "none"
  BY DEF NoDash
<1> QED
  BY <1>1, <1>2 DEF DashInv

LEMMA DashInvInit == ReportsInit => DashInv
<1> SUFFICES ASSUME ReportsInit
             PROVE  DashInv
  OBVIOUS
<1>1. dash = NoDash /\ trouble = {}
  BY DEF ReportsInit
<1>2. NoDash \in Dashes /\ NoDash.at = 0 /\ 0 \notin DOMAIN Looks
  BY LooksType DEF NoDash, Dashes
<1>3. /\ NoDash.found = {} /\ NoDash.always = {} /\ NoDash.status = "none"
  BY DEF NoDash
<1> QED
  BY <1>1, <1>2, <1>3 DEF DashInv

LEMMA ChangeKeeps ==
    ASSUME DashInv, NEW t \in Trouble, Change(t)
    PROVE  DashInv'
<1> DEFINE now == IF t \in trouble THEN trouble \ {t} ELSE trouble \cup {t}
<1>1. trouble' = now /\ now \subseteq Trouble
  BY DEF Change, DashInv
<1>2. CASE dash.at \in DOMAIN Looks
  <2>1. dash' = [dash EXCEPT !.ever = dash.ever \cup now, !.always = dash.always \cap now]
    BY <1>2 DEF Change
  <2> HIDE DEF now
  <2>2. /\ dash' \in Dashes /\ dash'.ever = dash.ever \cup now
        /\ dash'.always = dash.always \cap now /\ dash'.at = dash.at /\ dash'.found = dash.found
        /\ dash'.raised = dash.raised /\ dash'.status = dash.status
    <3>1. dash.ever \cup now \in SUBSET Trouble /\ dash.always \cap now \in SUBSET Trouble
      BY <1>1 DEF DashInv, Dashes
    <3> QED
      BY <2>1, <3>1 DEF DashInv, Dashes
  <2> QED
    BY <1>1, <2>2 DEF DashInv
<1>3. CASE dash.at \notin DOMAIN Looks
  <2>1. dash' = NoDash
    BY <1>3 DEF Change
  <2> QED
    BY <1>1, <2>1, NoDashOK
<1> QED
  BY <1>2, <1>3

LEMMA OpenKeeps ==
    ASSUME DashInv, Open
    PROVE  DashInv'
<1>1. /\ dash' = [NoDash EXCEPT !.at = 1, !.ever = trouble, !.always = trouble]
      /\ trouble' = trouble
  BY DEF Open
<1>2. PICK first \in 0 .. Len(Looks) + 1 : first = 1
  BY LooksType
<1>3. dash' = [NoDash EXCEPT !.at = first, !.ever = trouble, !.always = trouble]
  BY <1>1, <1>2
<1>4. /\ dash' \in Dashes /\ dash'.at = first /\ dash'.ever = trouble /\ dash'.always = trouble
      /\ dash'.found = {} /\ dash'.status = "none"
  BY <1>3 DEF NoDash, Dashes, DashInv
<1>5. \A i \in DOMAIN Looks : ~(i < first)
  BY <1>2, LooksType
<1> QED
  BY <1>1, <1>4, <1>5 DEF DashInv

LEMMA LookKeeps ==
    ASSUME DashInv, Look
    PROVE  DashInv'
<1>1. dash.at \in DOMAIN Looks /\ trouble' = trouble
  BY DEF Look
<1> DEFINE t == Looks[dash.at]
<1>2. PICK raises \in BOOLEAN :
        LET raised == IF raises THEN dash.raised \cup PartOf[t] ELSE dash.raised
            found == (dash.found \cup ({t} \cap trouble)) \ raised
        IN  dash' = [dash EXCEPT !.at = @ + 1, !.found = found, !.raised = raised,
                                 !.status = IF dash.at = Len(Looks) THEN Overall(found, raised)
                                            ELSE "none"]
  BY DEF Look
<1>3. t \in Trouble /\ PartOf[t] \subseteq Trouble
  <2>1. t \in Trouble
    BY <1>1 DEF Trouble, Entries
  <2> HIDE DEF t
  <2> QED
    BY <2>1 DEF PartOf
<1> HIDE DEF t
<1>4. PICK raised \in SUBSET Trouble :
        raised = IF raises THEN dash.raised \cup PartOf[t] ELSE dash.raised
  BY <1>3 DEF DashInv, Dashes
<1>5. PICK found \in SUBSET Trouble : found = (dash.found \cup ({t} \cap trouble)) \ raised
  BY DEF DashInv, Dashes
<1>6. PICK status \in {"none", "pass", "warn", "fail"} :
        status = IF dash.at = Len(Looks) THEN Overall(found, raised) ELSE "none"
  BY DEF Overall
<1>7. PICK at \in 0 .. Len(Looks) + 1 : at = dash.at + 1
  BY <1>1, LooksType
<1>8. dash' = [dash EXCEPT !.at = at, !.found = found, !.raised = raised, !.status = status]
  BY <1>2, <1>4, <1>5, <1>6, <1>7
<1>9. /\ dash' \in Dashes /\ dash'.at = at /\ dash'.found = found /\ dash'.raised = raised
      /\ dash'.status = status /\ dash'.ever = dash.ever /\ dash'.always = dash.always
  BY <1>8 DEF DashInv, Dashes
<1>10. found \subseteq dash.ever
  BY <1>1, <1>5 DEF DashInv
<1>11. ASSUME NEW i \in DOMAIN Looks, i < at, Looks[i] \in dash.always
       PROVE  Looks[i] \in found \cup raised
  <2>1. CASE i = dash.at
    BY <1>5, <1>11, <2>1 DEF t, DashInv
  <2>2. CASE i # dash.at
    <3>1. i < dash.at
      BY <1>1, <1>7, <1>11, <2>2, LooksType
    <3>2. Looks[i] \in dash.found \cup dash.raised
      BY <1>11, <3>1 DEF DashInv
    <3>3. dash.raised \subseteq raised
      BY <1>4
    <3> QED
      BY <1>5, <3>2, <3>3
  <2> QED
    BY <2>1, <2>2
<1>12. status # "none" => at = Len(Looks) + 1 /\ status = Overall(found, raised)
  BY <1>6, <1>7
<1>13. dash'.at \in DOMAIN Looks => trouble' \subseteq dash'.ever
  BY <1>1, <1>9 DEF DashInv
<1> QED
  BY <1>1, <1>9, <1>10, <1>11, <1>12, <1>13 DEF DashInv

LEMMA DashInvStep ==
    ASSUME DashInv, DashNext
    PROVE  DashInv'
<1>1. ASSUME NEW t \in Trouble, Change(t)
      PROVE  DashInv'
  BY <1>1, ChangeKeeps
<1> QED
  BY <1>1, OpenKeeps, LookKeeps DEF DashNext

LEMMA DashboardHolds == DashInv => DashboardIsSound
<1> SUFFICES ASSUME DashInv, dash.status # "none"
             PROVE  /\ dash.always \cap Severe # {} => dash.status = "fail"
                    /\ dash.status = "pass" => dash.always \subseteq Silent
                    /\ dash.status = "warn" => dash.ever \ Silent # {}
                    /\ dash.status = "fail" => dash.ever \cap Severe # {} \/ dash.raised # {}
  BY DEF DashboardIsSound
<1>1. dash.at = Len(Looks) + 1 /\ dash.status = Overall(dash.found, dash.raised)
  BY DEF DashInv
<1>2. ASSUME NEW t \in dash.always, t \notin Unseen
      PROVE  t \in dash.found \cup dash.raised
  <2>1. t \in Trouble
    BY DEF DashInv, Dashes
  <2>2. PICK i \in DOMAIN Looks : t = Looks[i]
    BY <1>2, <2>1 DEF Trouble, Entries
  <2>3. i < dash.at
    BY <1>1, LooksType
  <2> QED
    BY <2>2, <2>3 DEF DashInv
<1>3. Unseen \cap Severe = {} /\ Unseen \subseteq Silent
  BY DEF Unseen, Severe, Silent
<1>4. dash.found \subseteq dash.ever
  BY DEF DashInv
<1>5. ASSUME dash.always \cap Severe # {}
      PROVE  dash.status = "fail"
  BY <1>1, <1>2, <1>3, <1>5 DEF Overall
<1>6. ASSUME dash.status = "pass"
      PROVE  dash.always \subseteq Silent
  <2>1. dash.raised = {} /\ dash.found \subseteq Silent
    BY <1>1, <1>6 DEF Overall
  <2> QED
    BY <1>2, <1>3, <2>1
<1>7. ASSUME dash.status = "warn"
      PROVE  dash.ever \ Silent # {}
  BY <1>1, <1>4, <1>7 DEF Overall
<1>8. ASSUME dash.status = "fail"
      PROVE  dash.ever \cap Severe # {} \/ dash.raised # {}
  BY <1>1, <1>4, <1>8 DEF Overall
<1> QED
  BY <1>5, <1>6, <1>7, <1>8

----------------------------------------------------------------------------

ReportsInv == BillingInv /\ DashInv

LEMMA ReportsInvStep == ReportsInv /\ [ReportsNext]_reportVars => ReportsInv'
<1> SUFFICES ASSUME ReportsInv, [ReportsNext]_reportVars
             PROVE  ReportsInv'
  OBVIOUS
<1>1. ASSUME UNCHANGED dashVars
      PROVE  DashInv'
  BY <1>1 DEF dashVars, ReportsInv, DashInv
<1>2. CASE BillingNext
  <2>1. UNCHANGED dashVars
    BY <1>2 DEF BillingNext, RecordUsage, ReadUsage, OverwriteInvoice, CheckInvoice,
                WriteInvoice, StopImport, ReadLines
  <2> QED
    BY <1>1, <1>2, <2>1, BillingInvStep DEF ReportsInv
<1>3. CASE DashNext
  <2>1. UNCHANGED billingVars
    BY <1>3 DEF DashNext, Change, Open, Look
  <2> QED
    BY <1>3, <2>1, BillingStays, DashInvStep DEF ReportsInv
<1>4. CASE UNCHANGED reportVars
  BY <1>1, <1>4, BillingStays DEF reportVars, ReportsInv
<1> QED
  BY <1>2, <1>3, <1>4 DEF ReportsNext

\* Usage, invoices, reports and dashboards hold what the tables and answers may hold.
THEOREM ReportsTypeCorrect == ReportsSpec => []ReportsTypeOK
<1>1. ReportsInit => ReportsInv
  BY BillingInvInit, DashInvInit DEF ReportsInv
<1>2. ReportsInv => ReportsTypeOK
  <2> SUFFICES ASSUME ReportsInv
               PROVE  ReportsTypeOK
    OBVIOUS
  <2>1. usage \in Seq(UsageRows) /\ lines \in Seq(Lines) /\ overtaken \in BOOLEAN
    BY DEF ReportsInv, BillingInv, BillingTypes
  <2>2. \A p \in Importer : importing[p].invoice \in Invoice \cup {"none"}
    <3>1. \A p \in Importer : importing[p] \in ImportRow
      BY DEF ReportsInv, BillingInv, BillingTypes
    <3> QED
      BY <3>1 DEF ImportRow, NoImport
  <2>3. /\ report.pc \in {"none", "calls", "done"} /\ report.of \in Scope \cup {"every"}
        /\ report.status \in {"none", "pass", "warn", "fail"} /\ report.calls \subseteq DOMAIN usage
    BY DEF ReportsInv, BillingInv, BillingTypes, ReportRow
  <2>4. billed \in [Invoice -> Seq(Items)]
    BY BillType DEF ReportsInv, BillingInv, BillingTypes
  <2>5. /\ trouble \subseteq Trouble
        /\ dash.at \in 0 .. Len(Looks) + 1 /\ dash.found \subseteq trouble \cup dash.ever
        /\ dash.always \subseteq trouble \cap dash.ever
    BY DEF ReportsInv, DashInv, Dashes
  <2> QED
    BY <2>1, <2>2, <2>3, <2>4, <2>5 DEF ReportsTypeOK
<1> QED
  BY <1>1, <1>2, ReportsInvStep, PTL DEF ReportsSpec

\* A reconciliation nothing came between expects what the last imports say and passes only
\* calls that cost that much; a dashboard's status is of what it looked for: for any
\* connections, invoices, bills, pages and numbers of rows.
THEOREM ReportsHold == ReportsSpec => []ReportsAddUp
<1>1. ReportsInit => ReportsInv
  BY BillingInvInit, DashInvInit DEF ReportsInv
<1>2. ReportsInv => ReportsAddUp
  BY DashboardHolds DEF ReportsInv, BillingInv, ReportsAddUp
<1> QED
  BY <1>1, <1>2, ReportsInvStep, PTL DEF ReportsSpec

----------------------------------------------------------------------------
(* All seven together. *)

\* A behaviour of MCOperations is one of each part but the inbox and the drills, which share
\* the inbox's tables.
LEMMA PartsOfOperations ==
    Spec => ChainSpec /\ ReportsSpec /\ GraphSpec /\ SchemaSpec /\ TurnSpec
<1>1. Init => ChainInit /\ ReportsInit /\ GraphInit /\ SchemaInit /\ TurnInit
  BY DEF Init
<1> DEFINE Step == [Next]_<<coreVars, dataVars, part>>
<1>2. Step => [ChainNext]_chainVars
  <2>1. RestorePart \/ TamperPart => ChainNext
    BY DEF RestorePart, TamperPart, ChainNext
  <2>2. InboxPart \/ ReportPart \/ OutboxPart \/ DrillPart => UNCHANGED chainVars
    BY DEF InboxPart, ReportPart, OutboxPart, DrillPart
  <2> QED
    BY <2>1, <2>2 DEF Next, coreVars
<1>3. Step => [ReportsNext]_reportVars
  BY DEF Next, BillingPart, DashPart, ReportsNext, coreVars
<1>4. Step => [GraphNext]_graphVars
  BY DEF Next, dataVars
<1>5. Step => [SchemaNext]_schemaVars
  BY DEF Next, dataVars
<1>6. Step => [TurnNext]_turnVars
  BY DEF Next, dataVars
<1> QED
  BY <1>1, <1>2, <1>3, <1>4, <1>5, <1>6, PTL
     DEF Spec, ChainSpec, ReportsSpec, GraphSpec, SchemaSpec, TurnSpec

\* The drills are as they should be; in a behaviour that is the inbox's, a report's or
\* the outbox's there are none.
NoDrills == wanted = {} /\ \A s \in Sched : schedule[s].last = "none" /\ runs[s] = 0
InboxAndDrills ==
    /\ OutboxInv /\ DrillTypeOK
    /\ part \notin {"inbox", "reports", "outbox"} => DrillInv
    /\ part \in {"inbox", "reports", "outbox"} => NoDrills

LEMMA InboxAndDrillsInit == Init => InboxAndDrills
<1>1. DrillInit => NoDrills
  BY DEF DrillInit, NoDrills, NoSchedule
<1> QED
  BY <1>1, DrillInitInv DEF Init, InboxAndDrills, DrillInv, DrillTypeOK

LEMMA InboxAndDrillsStep ==
    InboxAndDrills /\ [Next]_<<coreVars, dataVars, part>> => InboxAndDrills'
<1> SUFFICES ASSUME InboxAndDrills, [Next]_<<coreVars, dataVars, part>>
             PROVE  InboxAndDrills'
  OBVIOUS
<1>1. part' = part
  BY DEF Next
<1>2. CASE part \in {"inbox", "reports", "outbox"} /\ OutboxNext /\ UNCHANGED drillVars
  <2>1. OutboxInv'
    BY <1>2, OutboxNextInv DEF InboxAndDrills
  <2>2. OutboxTypeOK'
    BY <2>1 DEF OutboxInv
  <2> QED
    BY <1>1, <1>2, <2>1, <2>2 DEF InboxAndDrills, NoDrills, DrillTypeOK, drillVars
<1>3. CASE part \notin {"inbox", "reports", "outbox"} /\ [DrillNext]_allVars
  <2>1. DrillInv'
    BY <1>3, DrillNextInv DEF InboxAndDrills
  <2> QED
    BY <1>1, <1>3, <2>1 DEF InboxAndDrills, DrillInv
<1>4. CASE part \in {"inbox", "reports", "outbox"} /\ UNCHANGED allVars
  <2>1. OutboxInv'
    BY <1>4, OutboxNextInv DEF InboxAndDrills, allVars
  <2>2. OutboxTypeOK'
    BY <2>1 DEF OutboxInv
  <2> QED
    BY <1>1, <1>4, <2>1, <2>2 DEF InboxAndDrills, NoDrills, DrillTypeOK, allVars, drillVars
<1>5. InboxPart \/ ReportPart \/ OutboxPart => OutboxNext /\ UNCHANGED drillVars
  <2>1. Other \subseteq Target /\ Sched \subseteq Target
    BY SchedAssumption DEF Other
  <2>2. InboxPart => OutboxNext /\ UNCHANGED drillVars
    BY <2>1 DEF InboxPart, OutboxNext
  <2>3. OutboxPart => OutboxNext /\ UNCHANGED drillVars
    BY <2>1 DEF OutboxPart, OutboxNext, OperatorStep
  <2>4. ReportPart => OutboxNext /\ UNCHANGED drillVars
    BY DEF ReportPart, OutboxNext, OperatorStep, Due
  <2> QED
    BY <2>2, <2>3, <2>4
<1>6. DrillPart => DrillNext
  BY DEF DrillPart
<1>7. RestorePart \/ TamperPart => UNCHANGED allVars
  BY DEF RestorePart, TamperPart
<1> QED
  BY <1>1, <1>2, <1>3, <1>4, <1>5, <1>6, <1>7 DEF Next, coreVars

\* Every table, file, call and answer of the seven holds what its type says.
THEOREM OperationsTypeCorrect == Spec => []TypeOK
<1>1. InboxAndDrills /\ ChainTypeOK /\ ReportsTypeOK /\ GraphTypeOK /\ SchemaTypeOK /\ TurnTypeOK
        => TypeOK
  BY DEF InboxAndDrills, TypeOK
<1>2. Spec => []InboxAndDrills
  BY InboxAndDrillsInit, InboxAndDrillsStep, PTL DEF Spec
<1> QED
  BY <1>1, <1>2, PartsOfOperations, ChainTypeCorrect, ReportsTypeCorrect, GraphTypeCorrect,
     SchemaTypeCorrect, TurnTypeCorrect, PTL

\* What the run of all seven checks holds for every value of the constants: the promises of
\* the inbox, the outbox, the drills, the audit chain, the reports, the commands, the set-up
\* and the turns, in every behaviour of each part.
THEOREM OperationsSafe ==
    Spec => [](/\ OneNoticePerTarget /\ OneLiveDelivery /\ ReportsAreKept
               /\ EscalationsAreComplete /\ InboxShowsLastDrill /\ DrillsRunWhenDue
               /\ ReportIsRight /\ RestoreHolds /\ ReportsAddUp
               /\ CommandsFollowTheirMemory /\ MigrationIsWhole /\ TurnsAreWhole)
<1>1. InboxAndDrills => /\ OneNoticePerTarget /\ OneLiveDelivery /\ ReportsAreKept
                        /\ EscalationsAreComplete
  BY DEF InboxAndDrills, OutboxInv, OperationOK, ReportingOK, CompleteOK, EscalationsAreComplete
<1>2. InboxAndDrills => InboxShowsLastDrill /\ DrillsRunWhenDue
  <2>1. NoDrills => InboxShowsLastDrill /\ DrillsRunWhenDue
    BY DEF NoDrills, InboxShowsLastDrill, DrillsRunWhenDue, OneRunPerPeriod, DueUntilRun
  <2>2. DrillInv => InboxShowsLastDrill /\ DrillsRunWhenDue
    BY DEF DrillInv, DrillsRunWhenDue, ScheduleOK, OneRunPerPeriod, DueUntilRun, DrillTypeOK
  <2> QED
    BY <2>1, <2>2 DEF InboxAndDrills
<1>3. Spec => []InboxAndDrills
  BY InboxAndDrillsInit, InboxAndDrillsStep, PTL DEF Spec
<1> QED
  BY <1>1, <1>2, <1>3, PartsOfOperations, AuditReportIsRight, RestoreIsWhole, ReportsHold,
     CommandsSafe, MigrationSafe, TurnsSafe, PTL
=============================================================================
