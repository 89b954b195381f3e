--------------------------- MODULE ExportApproval ---------------------------
(***************************************************************************)
(* Approval of sensitive exports, and the ledger that says how long an     *)
(* export may be kept (MemoryStore.request/approve/reject_export_approval, *)
(* export_profile, export_markdown, export_vault, enforce_export_retention *)
(* and purge_export_record in store.py).                                   *)
(*                                                                         *)
(* A full export of personal or secret active memory needs an approval.    *)
(* Whether it does is assessed first, from unlocked reads; the approval is *)
(* marked used in a transaction of its own; the content is read after it;  *)
(* and the ledger entry is a second transaction.  Decision, use, expiry    *)
(* and purge are UPDATEs that do not repeat the check made on the row read *)
(* before.  As in CandidateReview, an operation is one step per unlocked   *)
(* read that is used later and one step per transaction.                   *)
(***************************************************************************)
CONSTANTS
    Memory,     \* sensitive memories: of the personal scope, or secret
    Shape,      \* what an approval must match: actor, scope, project, kind, redaction
    Files,      \* the shapes of kind "markdown": the ledger entry precedes the content
    Covers,     \* the sensitive memories in a shape's scope; none if its content is redacted
    Approval,   \* ids of memory_export_approvals rows
    Export,     \* ids of memory_export_records rows
    Conn,       \* connections that may be in the middle of an operation
    None        \* no approval, shape or export

ASSUME SentinelAssumption == None \notin Approval \cup Shape \cup Export
ASSUME IdAssumption == Approval \cap Export = {}
ASSUME ShapeAssumption == Files \subseteq Shape /\ Covers \in [Shape -> SUBSET Memory]

VARIABLES
    memory,     \* memories.status: not there yet, active, or retired for good
    approval,   \* memory_export_approvals.status, "none" before the row exists
    wanted,     \* the shape the approval was requested for
    approved,   \* the approvals whose approved_by is filled in
    ledger,     \* memory_export_records.status, "none" before the row exists; "due" is
                \* "active" with an expires_at that has passed
    export,     \* the rest of the row, and what the artifact contains
    inbox,      \* approvals and exports with an unresolved notification
    burnt,      \* history: approvals used by an export that was then given up
    contended,  \* history: approvals and exports whose operations have overlapped
    op          \* what each connection is in the middle of

rows == <<approval, wanted, approved, ledger, export, inbox>>
vars == <<memory, rows, burnt, contended, op>>

Thing == Approval \cup Export
ApprovalStatus == {"none", "pending", "not_required", "approved", "rejected", "used"}
LedgerStatus == {"none", "active", "due", "expired", "purged"}
Steps == {"idle", "requesting", "deciding", "assessed", "checked", "cleared", "read",
          "recorded", "sweeping", "purging", "acking"}
Exporting == {"cleared", "read", "recorded"}

\* held: the rows an operation has read and will act on; content: the sensitive
\* memories it has read; gone: history, those that had been retired when a profile was
\* assessed; late: history, those that became active since an export was assessed to need
\* no approval.
Idle == [pc |-> "idle", held |-> {}, shape |-> None, approval |-> None,
         export |-> None, content |-> {}, gone |-> {}, late |-> {}]
Holding(p, T) == [Idle EXCEPT !.pc = p, !.held = T]

NoExport == [approval |-> None, content |-> {}, gone |-> {}, late |-> {}]

TypeOK ==
    /\ memory \in [Memory -> {"new", "active", "retired"}]
    /\ approval \in [Approval -> ApprovalStatus]
    /\ wanted \in [Approval -> Shape \cup {None}]
    /\ approved \subseteq Approval
    /\ ledger \in [Export -> LedgerStatus]
    /\ export \in [Export -> [approval : Approval \cup {None}, content : SUBSET Memory,
                              gone : SUBSET Memory, late : SUBSET Memory]]
    /\ inbox \subseteq Thing
    /\ burnt \subseteq Approval
    /\ contended \subseteq Thing
    /\ op \in [Conn -> [pc : Steps, held : SUBSET Thing, shape : Shape \cup {None},
                        approval : Approval \cup {None}, export : Export \cup {None},
                        content : SUBSET Memory, gone : SUBSET Memory,
                        late : SUBSET Memory]]

Init ==
    /\ memory = [m \in Memory |-> "new"]
    /\ approval = [a \in Approval |-> "none"]
    /\ wanted = [a \in Approval |-> None]
    /\ approved = {}
    /\ ledger = [x \in Export |-> "none"]
    /\ export = [x \in Export |-> NoExport]
    /\ inbox = {}
    /\ burnt = {}
    /\ contended = {}
    /\ op = [c \in Conn |-> Idle]

----------------------------------------------------------------------------
\* History: c commits on the rows T; those that another connection holds are contended.
CommitsOn(c, T) ==
    contended' = contended \cup {t \in T : \E d \in Conn \ {c} : t \in op[d].held}

Becomes(c, o) == op' = [op EXCEPT ![c] = o]

\* _sensitive_export_assessment: an approval is required unless this is empty.
Sensitive(s) == {m \in Covers[s] : memory[m] = "active"}

\* What an export reads of them; a profile has the retired ones, too
\* (_export_memory_lifecycle), which are not assessed.
Contents(s) == Sensitive(s) \cup {m \in Covers[s] : memory[m] = "retired" /\ s \notin Files}
Gone(s) == Contents(s) \ Sensitive(s)

\* Bounds of an instance: its ids are not used up yet.
SomeApprovalLeft == \E a \in Approval : approval[a] = "none"
SomeExportLeft == \E x \in Export : ledger[x] = "none"

(* The other components: a sensitive memory becomes active, and is retired. *)
Learn(m) ==
    /\ memory[m] = "new"
    /\ memory' = [memory EXCEPT ![m] = "active"]
    /\ op' = [c \in Conn |-> IF op[c].pc \in Exporting /\ op[c].approval = None
                             THEN [op[c] EXCEPT !.late = @ \cup {m}] ELSE op[c]]
    /\ UNCHANGED <<rows, burnt, contended>>

Retire(m) ==
    /\ memory[m] = "active"
    /\ memory' = [memory EXCEPT ![m] = "retired"]
    /\ UNCHANGED <<rows, burnt, contended, op>>

----------------------------------------------------------------------------
(* request_export_approval: the assessment, then the transaction. *)
RequestRead(c, s) ==
    /\ op[c] = Idle
    /\ SomeApprovalLeft
    /\ Becomes(c, [Idle EXCEPT !.pc = "requesting", !.shape = s, !.content = Sensitive(s)])
    /\ UNCHANGED <<memory, rows, burnt, contended>>

RequestCommit(c, a) ==
    LET required == op[c].content # {} IN
    /\ op[c].pc = "requesting"
    /\ approval[a] = "none"
    /\ approval' = [approval EXCEPT ![a] = IF required THEN "pending" ELSE "not_required"]
    /\ wanted' = [wanted EXCEPT ![a] = op[c].shape]
    /\ inbox' = IF required THEN inbox \cup {a} ELSE inbox
    /\ Becomes(c, Idle)
    /\ UNCHANGED <<memory, approved, ledger, export, burnt, contended>>

\* Mutant: an approval in any status can be decided.
DecideRead_AnyStatus(c, a) ==
    /\ op[c] = Idle
    /\ approval[a] # "none"
    /\ Becomes(c, Holding("deciding", {a}))
    /\ UNCHANGED <<memory, rows, burnt, contended>>

(* _decide_export_approval: refuses unless it reads "pending". *)
DecideRead(c, a) ==
    /\ op[c] = Idle
    /\ approval[a] = "pending"
    /\ Becomes(c, Holding("deciding", {a}))
    /\ UNCHANGED <<memory, rows, burnt, contended>>

\* Mutant: the action is stored instead of the status it leads to.
DecideCommit_StoresAction(c, verdict) ==
    \E a \in op[c].held :
      /\ op[c].pc = "deciding"
      /\ approval' = [approval EXCEPT ![a] =
                         IF verdict = "approved" THEN "approve" ELSE "reject"]
      /\ approved' = IF verdict = "approved" THEN approved \cup {a} ELSE approved
      /\ inbox' = inbox \ {a}
      /\ CommitsOn(c, {a})
      /\ Becomes(c, Idle)
      /\ UNCHANGED <<memory, wanted, ledger, export, burnt>>

DecideCommit(c, verdict) ==
    \E a \in op[c].held :
      /\ op[c].pc = "deciding"
      /\ approval' = [approval EXCEPT ![a] = verdict]
      /\ approved' = IF verdict = "approved" THEN approved \cup {a} ELSE approved
      /\ inbox' = inbox \ {a}
      /\ CommitsOn(c, {a})
      /\ Becomes(c, Idle)
      /\ UNCHANGED <<memory, wanted, ledger, export, burnt>>

----------------------------------------------------------------------------
(* export_profile, export_markdown and export_vault. *)

\* An export that needs an approval and names none is refused (an audit row aside, it
\* changes nothing); one that needs none is cleared, whatever approval it names.
Assess(c, s, a) ==
    /\ op[c] = Idle
    /\ SomeExportLeft
    /\ Sensitive(s) # {} => a # None
    /\ Becomes(c, IF Sensitive(s) = {}
                  THEN [Idle EXCEPT !.pc = "cleared", !.shape = s, !.gone = Gone(s)]
                  ELSE [Idle EXCEPT !.pc = "assessed", !.shape = s, !.gone = Gone(s),
                                    !.approval = a])
    /\ UNCHANGED <<memory, rows, burnt, contended>>

\* Mutant: the approval's shape is not compared with the export's.
CheckApproval_AnyShape(c) ==
    LET a == op[c].approval IN
    /\ op[c].pc = "assessed"
    /\ approval[a] = "approved"
    /\ Becomes(c, [op[c] EXCEPT !.pc = "checked", !.held = {a}])
    /\ UNCHANGED <<memory, rows, burnt, contended>>

\* The row must match the export and be approved.
CheckApproval(c) ==
    LET a == op[c].approval IN
    /\ op[c].pc = "assessed"
    /\ wanted[a] = op[c].shape
    /\ approval[a] = "approved"
    /\ Becomes(c, [op[c] EXCEPT !.pc = "checked", !.held = {a}])
    /\ UNCHANGED <<memory, rows, burnt, contended>>

\* Mutant: the approval stays approved.
UseApproval_Again(c) ==
    /\ op[c].pc = "checked"
    /\ CommitsOn(c, op[c].held)
    /\ Becomes(c, [op[c] EXCEPT !.pc = "cleared", !.held = {}])
    /\ UNCHANGED <<memory, rows, burnt>>

\* A transaction of its own, before any content is read.
UseApproval(c) ==
    /\ op[c].pc = "checked"
    /\ approval' = [approval EXCEPT ![op[c].approval] = "used"]
    /\ CommitsOn(c, op[c].held)
    /\ Becomes(c, [op[c] EXCEPT !.pc = "cleared", !.held = {}])
    /\ UNCHANGED <<memory, wanted, approved, ledger, export, inbox, burnt>>

\* _record_export_record: an export id is new_id("xprt"), never used before.
Record(c, x) ==
    /\ ledger[x] = "none"
    /\ ledger' = [ledger EXCEPT ![x] = "active"]
    /\ export' = [export EXCEPT ![x] = [approval |-> op[c].approval,
                                        content |-> op[c].content, gone |-> op[c].gone,
                                        late |-> op[c].late]]
    /\ UNCHANGED <<memory, approval, wanted, approved, inbox, burnt, contended>>

\* A profile is read, with what is retired, then recorded and returned.
ReadProfile(c) ==
    /\ op[c].pc = "cleared"
    /\ op[c].shape \notin Files
    /\ Becomes(c, [op[c] EXCEPT !.pc = "read", !.content = Contents(op[c].shape)])
    /\ UNCHANGED <<memory, rows, burnt, contended>>

ReturnProfile(c, x) ==
    /\ op[c].pc = "read"
    /\ Record(c, x)
    /\ Becomes(c, Idle)

\* Files are recorded, then read and written.
RecordFiles(c, x) ==
    /\ op[c].pc = "cleared"
    /\ op[c].shape \in Files
    /\ Record(c, x)
    /\ Becomes(c, [op[c] EXCEPT !.pc = "recorded", !.export = x])

WriteFiles(c) ==
    /\ op[c].pc = "recorded"
    /\ export' = [export EXCEPT ![op[c].export] =
                    [@ EXCEPT !.content = Contents(op[c].shape), !.gone = op[c].gone,
                              !.late = op[c].late]]
    /\ Becomes(c, Idle)
    /\ UNCHANGED <<memory, approval, wanted, approved, ledger, inbox, burnt, contended>>

----------------------------------------------------------------------------
(* Retention. *)

\* The clock passes an export's expires_at (retention_days may be 0).
Lapse(x) ==
    /\ ledger[x] = "active"
    /\ ledger' = [ledger EXCEPT ![x] = "due"]
    /\ UNCHANGED <<memory, approval, wanted, approved, export, inbox, burnt, contended, op>>

InStatus(S) == {x \in Export : ledger[x] \in S}

\* enforce_export_retention: the SELECT of what is due, then one transaction.
SweepRead(c) ==
    /\ op[c] = Idle
    /\ InStatus({"due"}) # {}
    /\ Becomes(c, Holding("sweeping", InStatus({"due"})))
    /\ UNCHANGED <<memory, rows, burnt, contended>>

SweepCommit(c) ==
    LET T == op[c].held IN
    /\ op[c].pc = "sweeping"
    /\ ledger' = [x \in Export |-> IF x \in T THEN "expired" ELSE ledger[x]]
    /\ inbox' = inbox \cup T
    /\ CommitsOn(c, T)
    /\ Becomes(c, Idle)
    /\ UNCHANGED <<memory, approval, wanted, approved, export, burnt>>

\* purge_export_record: returns what is purged already.
PurgeRead(c, x) ==
    /\ op[c] = Idle
    /\ ledger[x] \in {"active", "due", "expired"}
    /\ Becomes(c, Holding("purging", {x}))
    /\ UNCHANGED <<memory, rows, burnt, contended>>

PurgeCommit(c) ==
    LET T == op[c].held IN
    /\ op[c].pc = "purging"
    /\ ledger' = [x \in Export |-> IF x \in T THEN "purged" ELSE ledger[x]]
    /\ inbox' = inbox \ T
    /\ CommitsOn(c, T)
    /\ Becomes(c, Idle)
    /\ UNCHANGED <<memory, approval, wanted, approved, export, burnt>>

----------------------------------------------------------------------------
(* Notifications, and failure. *)

\* ack_notification reads "unresolved", then writes "acknowledged" whatever happened since.
AckRead(c, t) ==
    /\ op[c] = Idle
    /\ t \in inbox
    /\ Becomes(c, Holding("acking", {t}))
    /\ UNCHANGED <<memory, rows, burnt, contended>>

AckCommit(c) ==
    /\ op[c].pc = "acking"
    /\ inbox' = inbox \cup op[c].held
    /\ CommitsOn(c, op[c].held)
    /\ Becomes(c, Idle)
    /\ UNCHANGED <<memory, approval, wanted, approved, ledger, export, burnt>>

\* resolve_notification
ResolveNotification(c, t) ==
    /\ op[c] = Idle
    /\ t \in inbox
    /\ inbox' = inbox \ {t}
    /\ CommitsOn(c, {t})
    /\ UNCHANGED <<memory, approval, wanted, approved, ledger, export, burnt, op>>

\* A connection dies, times out, or raises: a mismatch, an approval in another status, a
\* policy that denies, a retention period that is out of range.  What it committed stays.
Abandon(c) ==
    /\ op[c] # Idle
    /\ burnt' = IF op[c].pc \in {"cleared", "read"} /\ op[c].approval # None
                THEN burnt \cup {op[c].approval} ELSE burnt
    /\ Becomes(c, Idle)
    /\ UNCHANGED <<memory, rows, contended>>

----------------------------------------------------------------------------
ExportStep(c) ==
    \/ \E s \in Shape, a \in Approval \cup {None} : Assess(c, s, a)
    \/ CheckApproval(c)
    \/ UseApproval(c)
    \/ ReadProfile(c)
    \/ \E x \in Export : ReturnProfile(c, x) \/ RecordFiles(c, x)
    \/ WriteFiles(c)

Next ==
    \/ \E m \in Memory : Learn(m) \/ Retire(m)
    \/ \E x \in Export : Lapse(x)
    \/ \E c \in Conn :
         \/ \E s \in Shape : RequestRead(c, s)
         \/ \E a \in Approval : RequestCommit(c, a) \/ DecideRead(c, a)
         \/ \E verdict \in {"approved", "rejected"} : DecideCommit(c, verdict)
         \/ ExportStep(c)
         \/ SweepRead(c) \/ SweepCommit(c)
         \/ \E x \in Export : PurgeRead(c, x)
         \/ PurgeCommit(c)
         \/ \E t \in Thing : AckRead(c, t) \/ ResolveNotification(c, t)
         \/ AckCommit(c)
         \/ Abandon(c)

Spec == Init /\ [][Next]_vars

----------------------------------------------------------------------------
(* Properties that hold however the connections interleave. *)

\* Every ledger entry, and every export that is past the check, that names an approval
\* has one that a reviewer approved; and the approval was asked for exactly this actor, scope,
\* project, kind and redaction ("export approval does not match requested export").
ExportsAreApproved ==
    /\ \A x \in Export : export[x].approval \in approved \cup {None}
    /\ \A c \in Conn :
         LET a == op[c].approval IN
         op[c].pc \in Exporting /\ a # None
           => a \in approved /\ wanted[a] = op[c].shape

\* "full exports containing personal or secret active memory require an approved one-time
\* export approval": what leaves without one became active after the assessment or, in a
\* profile, had been retired before it.
UnapprovedIsUnforeseen ==
    \A x \in Export :
        export[x].approval = None => export[x].content \subseteq export[x].gone \cup export[x].late

\* An approval that was used shows what it was used for: a ledger entry, or an export that
\* is still running; unless that export was given up after the use.
UsedIsAccountedFor ==
    \A a \in Approval : approval[a] = "used" =>
        \/ \E x \in Export : export[x].approval = a
        \/ \E c \in Conn : op[c].pc \in {"cleared", "read"} /\ op[c].approval = a
        \/ a \in burnt

\* What left the database can be accounted for.
ExportsAreAccounted == ExportsAreApproved /\ UnapprovedIsUnforeseen /\ UsedIsAccountedFor

----------------------------------------------------------------------------
(* Properties of an approval, or an export, whose own operations never *)
(* overlapped.                                                         *)

\* "Approvals are one-time": one ledger entry, and the status is used from then on.
OneExportPerApproval ==
    \A x, y \in Export :
        LET a == export[x].approval IN
        a # None /\ a \notin contended =>
            /\ approval[a] = "used"
            /\ export[y].approval = a => x = y

\* A notification stands for something to do: an approval to decide, or an export whose
\* artifact is to be cleaned up.
InboxIsWork ==
    \A t \in inbox \ contended :
        IF t \in Approval THEN approval[t] = "pending" ELSE ledger[t] = "expired"

\* Until operations on it overlap, an approval is spent once, and neither it nor an export
\* leaves a notification nobody can act on.
OneTimeAndDone == OneExportPerApproval /\ InboxIsWork

----------------------------------------------------------------------------
(* The contract the tables implement for each approval and export until its *)
(* own operations overlap.                                                  *)
Permit(a) ==
    IF a \in contended THEN "contended"
    ELSE IF approval[a] = "pending" THEN "asked"
    ELSE IF approval[a] = "not_required" THEN "moot"
    ELSE IF approval[a] = "approved" THEN "granted"
    ELSE IF approval[a] = "rejected" THEN "refused"
    ELSE IF approval[a] = "none" THEN "none"
    ELSE IF \E x \in Export : export[x].approval = a THEN "recorded" ELSE "spent"

Entry(x) ==
    IF x \in contended THEN "contended"
    ELSE IF ledger[x] = "due" THEN "active" ELSE ledger[x]

Contract == INSTANCE ExportContract WITH
    permit <- [a \in Approval |-> Permit(a)],
    entry <- [x \in Export |-> Entry(x)]
ContractSpec == Contract!Spec
=============================================================================
