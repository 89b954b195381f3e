--------------------------- MODULE RestoreDrills ---------------------------
(***************************************************************************)
(* Scheduled restore drills, composed with the notification inbox they     *)
(* report to (set_restore_drill_schedule, run_due_restore_drill_schedules  *)
(* and restore_drill in store.py).                                         *)
(*                                                                         *)
(* A scheduler lists the schedules that are due, and for each one reads    *)
(* the row again, runs the drill and records the outcome, whatever became  *)
(* of the row meanwhile.  Any number of schedulers may do so at once, and  *)
(* an operator may change a schedule under them.                           *)
(***************************************************************************)
EXTENDS NotificationOutbox

CONSTANTS
    Sched,       \* names in restore_drill_schedules, which are the notifications' targets
    Scheduler,   \* connections that set or run schedules
    LastSecond   \* bound of an instance: the clock stops there

ASSUME SchedAssumption == Sched \subseteq Target
ASSUME SecondAssumption == LastSecond \in Nat

VARIABLES
    schedule,    \* the rows: status, whether next_due_at has passed, last_status,
                 \* retain_artifacts
    second,      \* the clock, as the names of retained artifacts show it
    file,        \* the retained artifacts: schedule, second and kind
    drill,       \* what each scheduler is in the middle of
    wanted,      \* history: schedules that fell due, and no drill has begun since
    runs,        \* history: drills recorded since the schedule fell due; neither is kept up
                 \* for a schedule that is in crossed
    settled,     \* history: schedules whose notification was resolved by hand since
    crossed      \* history: schedules whose operations have overlapped, or that were run early

drillVars == <<schedule, second, file, drill, wanted, runs, settled, crossed>>
allVars == <<outboxVars, drillVars>>

NoSchedule == [status |-> "none", due |-> FALSE, last |-> "none", retain |-> FALSE]

\* todo: the schedules listed and not run yet; sched, stamp, retain: the one being run, its
\* run_started and the row's retain_artifacts; found: whether the name was there.
Resting == [pc |-> "idle", todo |-> {}, sched |-> Nobody, stamp |-> 0, retain |-> FALSE,
            found |-> FALSE]
Holds(c) == drill[c].todo \cup ({drill[c].sched} \cap Sched)

Artifact == Sched \X (0 .. LastSecond) \X {"backup", "restored"}

DrillTypeOK ==
    /\ OutboxTypeOK
    /\ schedule \in [Sched -> [status : {"none", "active", "paused"}, due : BOOLEAN,
                               last : {"none", "pass", "fail"}, retain : BOOLEAN]]
    /\ second \in 0 .. LastSecond
    /\ file \subseteq Artifact
    /\ drill \in [Scheduler -> [pc : {"idle", "setting", "listed", "begun", "copying",
                                      "restoring", "pass", "fail"},
                                todo : SUBSET Sched, sched : Sched \cup {Nobody},
                                stamp : 0 .. LastSecond, retain : BOOLEAN, found : BOOLEAN]]
    /\ wanted \subseteq Sched
    /\ runs \in [Sched -> 0 .. 2]
    /\ settled \subseteq Sched
    /\ crossed \subseteq Sched

DrillInit ==
    /\ OutboxInit
    /\ schedule = [s \in Sched |-> NoSchedule]
    /\ second = 0
    /\ file = {}
    /\ drill = [c \in Scheduler |-> Resting]
    /\ wanted = {}
    /\ runs = [s \in Sched |-> 0]
    /\ settled = {}
    /\ crossed = {}

----------------------------------------------------------------------------
Does(c, r) == drill' = [drill EXCEPT ![c] = r]

\* History: an operation on s that commits while an operation of D holds s; the schedules
\* W are wanted now, and s has been run n times.
Keeps(s, D, W, n) ==
    /\ crossed' = IF \E d \in D : s \in Holds(d) THEN crossed \cup {s} ELSE crossed
    /\ wanted' = W \ crossed'
    /\ runs' = [runs EXCEPT ![s] = IF s \in crossed' THEN 0 ELSE n]

\* The artifacts of a second that no drill works on any more are left out.
ClockTicks ==
    /\ second < LastSecond
    /\ second' = second + 1
    /\ file' = {a \in file : \E c \in Scheduler : drill[c].retain /\ drill[c].stamp = a[2]}
    /\ UNCHANGED <<outboxVars, schedule, drill, wanted, runs, settled, crossed>>

\* next_due_at of an active schedule passes; a drill that is still running has overlapped
\* with the next one.
FallDue(s) ==
    /\ schedule[s].status = "active"
    /\ ~schedule[s].due
    /\ schedule' = [schedule EXCEPT ![s].due = TRUE]
    /\ Keeps(s, Scheduler, wanted \cup {s}, 0)
    /\ UNCHANGED <<outboxVars, second, file, drill, settled>>

----------------------------------------------------------------------------
(* set_restore_drill_schedule: the look-up of the name, then the transaction. *)
SetRead(c, s) ==
    /\ drill[c] = Resting
    /\ Does(c, [Resting EXCEPT !.pc = "setting", !.sched = s,
                               !.found = (schedule[s].status # "none")])
    /\ UNCHANGED <<outboxVars, schedule, second, file, wanted, runs, settled, crossed>>

\* An INSERT that finds the name taken fails: it is UNIQUE.  An UPDATE keeps last_status.
SetCommit(c, status, due, retain) ==
    LET s == drill[c].sched IN
    /\ drill[c].pc = "setting"
    /\ drill[c].found \/ schedule[s].status = "none"
    /\ schedule' = [schedule EXCEPT ![s] = [@ EXCEPT !.status = status, !.due = due,
                                                     !.retain = retain]]
    /\ Keeps(s, Scheduler \ {c},
             IF status = "active" /\ due THEN wanted \cup {s} ELSE wanted \ {s}, 0)
    /\ Does(c, Resting)
    /\ UNCHANGED <<outboxVars, second, file, settled>>

----------------------------------------------------------------------------
(* run_due_restore_drill_schedules *)

\* Mutant: a schedule that is not due is listed too.
ListDue_All(c, any) ==
    LET listed == {s \in Sched : schedule[s].status = "active"} IN
    /\ drill[c] = Resting
    /\ listed # {}
    /\ Does(c, [Resting EXCEPT !.pc = "listed", !.todo = listed])
    /\ crossed' = IF any THEN crossed \cup {s \in listed : ~schedule[s].due} ELSE crossed
    /\ wanted' = wanted \ crossed'
    /\ runs' = [s \in Sched |-> IF s \in crossed' THEN 0 ELSE runs[s]]
    /\ UNCHANGED <<outboxVars, schedule, second, file, settled>>

\* list_restore_drill_schedules, with due_only unless the caller asked for include_not_due:
\* such a run overlaps with the period's.  (The limit, which cuts the list before due_only
\* filters it, is not reached.)
ListDue(c, any) ==
    LET listed == {s \in Sched : schedule[s].status = "active" /\ (any \/ schedule[s].due)} IN
    /\ drill[c] = Resting
    /\ listed # {}
    /\ Does(c, [Resting EXCEPT !.pc = "listed", !.todo = listed])
    /\ crossed' = IF any THEN crossed \cup {s \in listed : ~schedule[s].due} ELSE crossed
    /\ wanted' = wanted \ crossed'
    /\ runs' = [s \in Sched |-> IF s \in crossed' THEN 0 ELSE runs[s]]
    /\ UNCHANGED <<outboxVars, schedule, second, file, settled>>

\* The row is read again, for its settings only: neither its status nor its due date is
\* looked at.  Other schedulers that hold it have overlapped.
Begin(c, s) ==
    /\ drill[c].pc = "listed"
    /\ s \in drill[c].todo
    /\ Does(c, [drill[c] EXCEPT !.pc = "begun", !.todo = @ \ {s}, !.sched = s,
                                !.stamp = IF schedule[s].retain THEN second ELSE 0,
                                !.retain = schedule[s].retain])
    /\ Keeps(s, Scheduler \ {c}, wanted \ {s}, runs[s])
    /\ UNCHANGED <<outboxVars, schedule, second, file, settled>>

Path(c, kind) == <<drill[c].sched, drill[c].stamp, kind>>

\* backup_database refuses a destination that exists; without retained artifacts the drill
\* works in a directory of its own.
CheckBackup(c) ==
    /\ drill[c].pc = "begun"
    /\ Does(c, [drill[c] EXCEPT !.pc = IF drill[c].retain /\ Path(c, "backup") \in file
                                       THEN "fail" ELSE "copying"])
    /\ UNCHANGED <<outboxVars, schedule, second, file, wanted, runs, settled, crossed>>

\* The backup is written, to the file that another drill of the second may have made since.
WriteBackup(c) ==
    /\ drill[c].pc = "copying"
    /\ file' = IF drill[c].retain THEN file \cup {Path(c, "backup")} ELSE file
    /\ Does(c, [drill[c] EXCEPT !.pc = "restoring"])
    /\ UNCHANGED <<outboxVars, schedule, second, wanted, runs, settled, crossed>>

\* restore_database and the checks of restore_drill, which come out one way or the other.
Restore(c, outcome) ==
    LET taken == drill[c].retain /\ Path(c, "restored") \in file IN
    /\ drill[c].pc = "restoring"
    /\ taken => outcome = "fail"
    /\ file' = IF drill[c].retain THEN file \cup {Path(c, "restored")} ELSE file
    /\ Does(c, [drill[c] EXCEPT !.pc = outcome])
    /\ UNCHANGED <<outboxVars, schedule, second, wanted, runs, settled, crossed>>

\* Mutant: the exception is stored as the status.
Ends_StoresError(s, outcome) ==
    /\ schedule' = [schedule EXCEPT ![s] =
                      [@ EXCEPT !.last = IF outcome = "fail" THEN "FileExistsError" ELSE outcome,
                                !.due = FALSE]]
    /\ Raise(s)
    /\ UNCHANGED <<raced, call>>

\* Mutant: a drill that passes leaves the failure of the one before in the inbox.
Ends_KeepsFailure(s, outcome) ==
    /\ schedule' = [schedule EXCEPT ![s] = [@ EXCEPT !.last = outcome, !.due = FALSE]]
    /\ IF outcome = "pass" THEN UNCHANGED notice ELSE Raise(s)
    /\ UNCHANGED <<raced, call>>

\* The outcome and what follows from it, in the schedule and in the inbox.
Ends(s, outcome) ==
    /\ schedule' = [schedule EXCEPT ![s] = [@ EXCEPT !.last = outcome, !.due = FALSE]]
    /\ IF outcome = "pass" THEN Clear(s) ELSE Raise(s)
    /\ raced' = IF outcome = "pass"
                THEN raced \cup {n \in OpenFor(s) : \E p \in Operator : n \in call[p].held}
                ELSE raced
    /\ call' = IF outcome = "pass" THEN Excuse(OpenFor(s)) ELSE call

\* The outcome, the next due date (an interval after this run began) and the notification
\* are one transaction, keyed by the schedule alone.
Record(c) ==
    LET s == drill[c].sched
        outcome == drill[c].pc
        rest == drill[c].todo
    IN
    /\ outcome \in {"pass", "fail"}
    /\ Ends(s, outcome)
    /\ settled' = settled \ {s}
    /\ Keeps(s, Scheduler \ {c}, wanted, IF runs[s] = 2 THEN 2 ELSE runs[s] + 1)
    /\ Does(c, IF rest = {} THEN Resting ELSE [Resting EXCEPT !.pc = "listed", !.todo = rest])
    /\ UNCHANGED <<delivery, tries, arrived, again, second, file>>

\* A scheduler dies; its retained artifacts stay.
Die(c) ==
    /\ drill[c] # Resting
    /\ Does(c, Resting)
    /\ UNCHANGED <<outboxVars, schedule, second, file, wanted, runs, settled, crossed>>

----------------------------------------------------------------------------
\* What the operators do to the drills' notifications.
ByHand(o) ==
    /\ \/ \E n \in Notice, what \in {"acking", "resolving"} : TakeNotice(o, n, what)
       \/ AckCommit(o)
       \/ ResolveCommit(o)
       \/ Leave(o)
    /\ settled' = IF call[o].pc = "resolving"
                  THEN settled \cup ({notice[n].target : n \in call[o].held} \cap Sched)
                  ELSE settled
    /\ UNCHANGED <<schedule, second, file, drill, wanted, runs, crossed>>

DrillNext ==
    \/ ClockTicks
    \/ \E s \in Sched : FallDue(s)
    \/ \E o \in Operator : ByHand(o)
    \/ \E c \in Scheduler :
         \/ \E s \in Sched : SetRead(c, s) \/ Begin(c, s)
         \/ \E status \in {"active", "paused"}, due, retain \in BOOLEAN :
               SetCommit(c, status, due, retain)
         \/ \E any \in BOOLEAN : ListDue(c, any)
         \/ CheckBackup(c)
         \/ WriteBackup(c)
         \/ \E outcome \in {"pass", "fail"} : Restore(c, outcome)
         \/ Record(c)
         \/ Die(c)

DrillSpec == DrillInit /\ [][DrillNext]_allVars

----------------------------------------------------------------------------
(* Properties. *)

\* The inbox shows how the last drill of a schedule ended: a failure has an unresolved
\* notification until somebody resolves it, and a success leaves none but what an operator
\* who had read it as unresolved wrote back.
InboxShowsLastDrill ==
    \A s \in Sched :
        /\ schedule[s].last = "fail" => OpenFor(s) # {} \/ s \in settled
        /\ schedule[s].last = "pass" => OpenFor(s) \subseteq raced

\* A schedule is run once each time it falls due, unless two operations on it overlapped
\* or somebody ran it before it was due.
OneRunPerPeriod ==
    \A s \in Sched \ crossed : runs[s] <= 1

\* An active schedule that fell due, or was set to be, stays due until a drill begins, so
\* the next scheduler finds it, unless an operation on it overlapped with another.
DueUntilRun ==
    \A s \in wanted \ crossed : schedule[s].status = "active" /\ schedule[s].due

\* A schedule that is due is run, and once, as long as operations on it do not overlap.
DrillsRunWhenDue == OneRunPerPeriod /\ DueUntilRun
=============================================================================
