----------------------------- MODULE AuditChain -----------------------------
(***************************************************************************)
(* The hash chain of audit_log, and the backups that carry it along        *)
(* (_audit, audit_integrity_report, backup_database and restore_database   *)
(* in store.py).                                                           *)
(*                                                                         *)
(* An audit row names the entry_hash of the last signed row before it.  In *)
(* a transaction that has written already, the last row cannot change      *)
(* before the INSERT; where the audit row is the first write (a refusal, a *)
(* backup, and init_db at every opening of the file), the look-up is not   *)
(* locked.  A hash is modelled by the row it is the hash of.               *)
(***************************************************************************)
EXTENDS Naturals, Sequences, FiniteSets

CONSTANTS
    Writer,     \* connections to the database
    MaxRow,     \* bound of an instance: audit rows written to the database or its copies
    MaxTamper   \* bound of an instance: rows changed or removed

ASSUME BoundAssumption == MaxRow \in Nat /\ MaxTamper \in Nat

VARIABLES
    log,        \* the committed rows of audit_log, in the order of their rowid
    written,    \* rows written so far
    writer,     \* what each connection is in the middle of
    backup,     \* the backup file: whether it exists and is sound, and its log
    target,     \* the database a restore writes to
    restoring,  \* the step a restore is at
    forked,     \* history: a row chained to one that was no longer the last
    altered,    \* history: rows changed behind the kernel's back
    cut,        \* history: each row that was removed, with the one that followed, or 0
    excused     \* history: a restore found its backup damaged, or died

chainVars == <<log, written, writer, backup, target, restoring, forked, altered, cut, excused>>

\* A row of an older schema is not signed: it has neither hash.
Legacy == [id |-> 0, prev |-> 0, signed |-> FALSE, intact |-> TRUE]
Row(i, p) == [id |-> i, prev |-> p, signed |-> TRUE, intact |-> TRUE]

\* A target is "none" before there is one, and "gone" when a restore has removed it.
NoFile == [state |-> "none", log |-> <<>>, row |-> 0]
Free == [pc |-> "idle", prev |-> 0, row |-> 0]

Rows == [id : 0 .. MaxRow, prev : 0 .. MaxRow, signed : BOOLEAN, intact : BOOLEAN]

ChainTypeOK ==
    /\ log \in Seq(Rows)
    /\ written \in 0 .. MaxRow
    /\ writer \in [Writer -> [pc : {"idle", "refusing", "backing", "copying"},
                              prev : 0 .. MaxRow, row : 0 .. MaxRow]]
    /\ backup.state \in {"none", "sound", "damaged"} /\ backup.log \in Seq(Rows)
    /\ target.state \in {"none", "old", "gone", "copied", "restored"} /\ target.log \in Seq(Rows)
    /\ restoring \in {"no", "checked", "removed", "copied"}
    /\ altered \subseteq 0 .. MaxRow /\ cut \subseteq (0 .. MaxRow) \X (0 .. MaxRow)
    /\ forked \in BOOLEAN /\ excused \in BOOLEAN

ChainInit ==
    /\ log \in {<<>>, <<Legacy>>}
    /\ written = 0
    /\ writer = [w \in Writer |-> Free]
    /\ backup = NoFile
    /\ target \in {NoFile, [NoFile EXCEPT !.state = "old"]}
    /\ restoring = "no"
    /\ forked = FALSE
    /\ altered = {}
    /\ cut = {}
    /\ excused = FALSE

----------------------------------------------------------------------------
Signed(l) == {i \in DOMAIN l : l[i].signed}
Before(l, i) == {j \in Signed(l) : j < i}
Highest(I) == CHOOSE i \in I : \A j \in I : j <= i

\* The entry_hash of the last signed row, "" (0) if there is none.
LastOf(l, I) == IF I = {} THEN 0 ELSE l[Highest(I)].id
Last(l) == LastOf(l, Signed(l))

\* audit_integrity_report: each signed row must have its own hash, and name the signed row
\* before it; what is not signed is skipped.
Fails(l) == \E i \in Signed(l) : ~l[i].intact \/ l[i].prev # LastOf(l, Before(l, i))

Ids(l) == {l[i].id : i \in Signed(l)}

----------------------------------------------------------------------------
(* The kernel. *)

\* _audit inside a transaction that has written already: nobody else can commit.
Commit ==
    /\ written < MaxRow
    /\ log' = Append(log, Row(written + 1, Last(log)))
    /\ written' = written + 1
    /\ UNCHANGED <<writer, backup, target, restoring, forked, altered, cut, excused>>

\* _audit as the first write of a transaction: the look-up, for a backup or ("refusing") for a
\* refusal or an opening of the file, which write no more than this row.
\* A backup has found that its destination may be written.
LookUp(w, pc) ==
    /\ writer[w] = Free
    /\ writer' = [writer EXCEPT ![w] = [Free EXCEPT !.pc = pc, !.prev = Last(log)]]
    /\ UNCHANGED <<log, written, backup, target, restoring, forked, altered, cut, excused>>

\* Mutant: the row is written without its predecessor's hash.
Insert_Unchained(w) ==
    LET row == written + 1 IN
    /\ writer[w].pc \in {"refusing", "backing"}
    /\ written < MaxRow
    /\ log' = Append(log, Row(row, 0))
    /\ written' = row
    /\ forked' = (forked \/ writer[w].prev # Last(log))
    /\ writer' = [writer EXCEPT ![w] = IF writer[w].pc = "backing"
                                       THEN [Free EXCEPT !.pc = "copying", !.row = row] ELSE Free]
    /\ UNCHANGED <<backup, target, restoring, altered, cut, excused>>

\* The INSERT and the commit.
Insert(w) ==
    LET row == written + 1 IN
    /\ writer[w].pc \in {"refusing", "backing"}
    /\ written < MaxRow
    /\ log' = Append(log, Row(row, writer[w].prev))
    /\ written' = row
    /\ forked' = (forked \/ writer[w].prev # Last(log))
    /\ writer' = [writer EXCEPT ![w] = IF writer[w].pc = "backing"
                                       THEN [Free EXCEPT !.pc = "copying", !.row = row] ELSE Free]
    /\ UNCHANGED <<backup, target, restoring, altered, cut, excused>>

\* Mutant: the copy is taken as the database was before the audit row.
Copy_BeforeAudit(w) ==
    /\ writer[w].pc = "copying"
    /\ backup' = [state |-> "sound", row |-> writer[w].row,
                  log |-> SelectSeq(log, LAMBDA r : r.id < writer[w].row)]
    /\ writer' = [writer EXCEPT ![w] = Free]
    /\ UNCHANGED <<log, written, target, restoring, forked, altered, cut, excused>>

\* The SQLite backup is a snapshot of what is committed by now.
Copy(w) ==
    /\ writer[w].pc = "copying"
    /\ backup' = [state |-> "sound", log |-> log, row |-> writer[w].row]
    /\ writer' = [writer EXCEPT ![w] = Free]
    /\ UNCHANGED <<log, written, target, restoring, forked, altered, cut, excused>>

Stop(w) ==
    /\ writer[w] # Free
    /\ writer' = [writer EXCEPT ![w] = Free]
    /\ UNCHANGED <<log, written, backup, target, restoring, forked, altered, cut, excused>>

----------------------------------------------------------------------------
(* restore_database, a file operation at a time. *)

\* A backup that is not there, and a target that is and may not be overwritten, are refused.
Check(overwrite) ==
    /\ restoring = "no"
    /\ backup.state # "none"
    /\ target.state \in {"none", "gone"} \/ overwrite
    /\ restoring' = "checked"
    /\ UNCHANGED <<log, written, writer, backup, target, forked, altered, cut, excused>>

Unlink ==
    /\ restoring = "checked"
    /\ target' = IF target.state = "none" THEN target ELSE [NoFile EXCEPT !.state = "gone"]
    /\ restoring' = "removed"
    /\ UNCHANGED <<log, written, writer, backup, forked, altered, cut, excused>>

\* quick_check of the backup: only now, when the old target is gone.
CheckAndCopy ==
    /\ restoring = "removed"
    /\ IF backup.state = "sound"
       THEN /\ target' = [backup EXCEPT !.state = "copied"]
            /\ restoring' = "copied"
            /\ UNCHANGED excused
       ELSE /\ restoring' = "no"
            /\ excused' = TRUE
            /\ UNCHANGED target
    /\ UNCHANGED <<log, written, writer, backup, forked, altered, cut>>

\* init_db, the audit row of the restore, commit.
Finish ==
    /\ restoring = "copied"
    /\ written < MaxRow
    /\ target' = [target EXCEPT !.state = "restored",
                                !.log = Append(@, Row(written + 1, Last(target.log)))]
    /\ written' = written + 1
    /\ restoring' = "no"
    /\ UNCHANGED <<log, writer, backup, forked, altered, cut, excused>>

RestoreDies ==
    /\ restoring # "no"
    /\ restoring' = "no"
    /\ excused' = TRUE
    /\ UNCHANGED <<log, written, writer, backup, target, forked, altered, cut>>

----------------------------------------------------------------------------
Untouched == Cardinality(altered) + Cardinality(cut) < MaxTamper

(* Behind the kernel's back: a row of the database is changed, or removed, and the backup *)
(* file is damaged.                                                                       *)
Alter(i) ==
    /\ Untouched
    /\ i \in Signed(log)
    /\ log[i].intact
    /\ log' = [log EXCEPT ![i].intact = FALSE]
    /\ altered' = altered \cup {log[i].id}
    /\ UNCHANGED <<written, writer, backup, target, restoring, forked, cut, excused>>

Remove(i) ==
    LET after == {j \in Signed(log) : j > i} IN
    /\ Untouched
    /\ i \in Signed(log)
    /\ log' = [j \in 1 .. Len(log) - 1 |-> IF j < i THEN log[j] ELSE log[j + 1]]
    /\ cut' = cut \cup {<<log[i].id, IF after = {} THEN 0
                                     ELSE log[CHOOSE j \in after : \A k \in after : j <= k].id>>}
    /\ UNCHANGED <<written, writer, backup, target, restoring, forked, altered, excused>>

Damage ==
    /\ backup.state = "sound"
    /\ backup' = [backup EXCEPT !.state = "damaged"]
    /\ UNCHANGED <<log, written, writer, target, restoring, forked, altered, cut, excused>>

ChainNext ==
    \/ Commit
    \/ \E w \in Writer :
         \/ \E pc \in {"refusing", "backing"} : LookUp(w, pc)
         \/ Insert(w) \/ Copy(w) \/ Stop(w)
    \/ \E overwrite \in BOOLEAN : Check(overwrite)
    \/ Unlink \/ CheckAndCopy \/ Finish \/ RestoreDies
    \/ \E i \in DOMAIN log : Alter(i) \/ Remove(i)
    \/ Damage

ChainSpec == ChainInit /\ [][ChainNext]_chainVars

----------------------------------------------------------------------------
(* Properties. *)

\* The integrity report fails only for a reason: a row was changed or removed, or two
\* connections looked up the last row before either had written its own.
ReportFailsForAReason ==
    Fails(log) => forked \/ altered # {} \/ cut # {}

\* Tamper evidence: as long as the chain was never forked, the report fails while a changed
\* row, or a row whose predecessor was removed, is in the log.
TamperingShows ==
    ~forked /\ (altered \cup {c[2] : c \in cut}) \cap Ids(log) # {} => Fails(log)

\* The integrity report of the audit log is neither a false alarm nor blind.
ReportIsRight == ReportFailsForAReason /\ TamperingShows

\* A backup holds the audit row that says it was made; what is restored from it holds that
\* row too and ends with one that says so; and its report fails only if the database's did,
\* or had a reason to.
RestoredLogHolds ==
    /\ backup.state # "none" /\ cut = {} => backup.row \in Ids(backup.log)
    /\ target.state = "restored" =>
         /\ cut = {} => target.row \in Ids(target.log)
         /\ Last(target.log) = target.log[Len(target.log)].id
         /\ Fails(target.log) => forked \/ altered # {} \/ cut # {}

\* The database a restore replaces is gone only while the restore runs, or after one that
\* found the backup damaged or died.
TargetIsReplaced ==
    target.state \in {"gone", "copied"} /\ restoring = "no" => excused

\* A restore loses neither the chain of the backup nor, for nothing, the old target.
RestoreHolds == RestoredLogHolds /\ TargetIsReplaced
=============================================================================
