------------------------ MODULE ExportApprovalProofs ------------------------
(***************************************************************************)
(* Proofs about ExportApproval for any sets of memories, shapes,           *)
(* approvals, exports and connections.  Inv is the inductive invariant     *)
(* behind the properties that hold however the connections interleave;     *)
(* Isolated adds what holds of an approval or export until operations on   *)
(* it overlap.                                                             *)
(***************************************************************************)
EXTENDS ExportApproval, TLAPS

OpType == [pc : Steps, held : SUBSET Thing, shape : Shape \cup {None},
           approval : Approval \cup {None}, export : Export \cup {None},
           content : SUBSET Memory, gone : SUBSET Memory, late : SUBSET Memory]

\* Nothing is known of a row that does not exist, and approved_by of one that is approved.
RowsExist ==
    /\ \A a \in approved : approval[a] # "none"
    /\ \A a \in Approval : approval[a] = "approved" => a \in approved
    /\ \A x \in Export : ledger[x] = "none" =>
         export[x].approval = None /\ export[x].content = {}

\* What the operation o relies on, and no other operation takes away.
Backed(o) ==
    /\ o.pc \in {"requesting", "assessed", "checked"} \cup Exporting => o.shape \in Shape
    /\ o.pc \in {"assessed", "checked"} => o.approval \in Approval
    /\ o.pc = "checked" => o.held = {o.approval}
    /\ o.pc \in {"checked"} \cup Exporting /\ o.approval # None =>
         o.approval \in approved /\ wanted[o.approval] = o.shape
    /\ o.pc \in Exporting /\ o.approval = None =>
         Contents(o.shape) \subseteq o.gone \cup o.late /\ o.content \subseteq o.gone \cup o.late
    /\ o.pc = "deciding" => \A t \in o.held : t \in Approval /\ approval[t] # "none"
    /\ o.pc \in {"sweeping", "purging"} => \A t \in o.held : t \in Export /\ ledger[t] # "none"
    /\ o.pc = "recorded" =>
         o.export \in Export /\ ledger[o.export] # "none" /\ export[o.export].approval = o.approval

OpsBacked == \A c \in Conn : Backed(op[c])

Inv ==
    /\ TypeOK
    /\ RowsExist
    /\ OpsBacked
    /\ ExportsAreApproved
    /\ UnapprovedIsUnforeseen
    /\ UsedIsAccountedFor

----------------------------------------------------------------------------
(* Steps in general. *)

\* No step takes back what operations rely on: rows stay, with their shape and
\* approval, and no memory becomes sensitive unnoticed.
Grows ==
    /\ \A s \in Shape : Contents(s)' \subseteq Contents(s)
    /\ approved \subseteq approved'
    /\ \A a \in Approval : approval[a] # "none" =>
         approval'[a] # "none" /\ wanted'[a] = wanted[a]
    /\ \A x \in Export : ledger[x] # "none" =>
         ledger'[x] # "none" /\ export'[x].approval = export[x].approval

LEMMA BackedKept ==
    ASSUME TypeOK, RowsExist, Grows, NEW o \in OpType, Backed(o)
    PROVE  Backed(o)'
<1>1. o.approval \in Approval \cup {None} /\ o.shape \in Shape \cup {None}
  BY DEF OpType
<1>2. o.pc \in Exporting => o.shape \in Shape
  BY DEF Backed
<1>3. o.approval # None /\ o.approval \in approved =>
        o.approval \in approved' /\ wanted'[o.approval] = wanted[o.approval]
  BY <1>1 DEF Grows, RowsExist
<1>4. o.shape \in Shape => Contents(o.shape)' \subseteq Contents(o.shape)
  BY DEF Grows
<1>5. o.pc = "deciding" => \A t \in o.held : t \in Approval /\ approval'[t] # "none"
  BY DEF Backed, Grows
<1>6. o.pc \in {"sweeping", "purging"} => \A t \in o.held : t \in Export /\ ledger'[t] # "none"
  BY DEF Backed, Grows
<1>7. o.pc = "recorded" =>
        o.export \in Export /\ ledger'[o.export] # "none" /\ export'[o.export].approval = o.approval
  BY DEF Backed, Grows
<1>8. o.pc \in {"checked"} \cup Exporting /\ o.approval # None =>
        o.approval \in approved' /\ wanted'[o.approval] = o.shape
  BY <1>3 DEF Backed
<1>9. o.pc \in Exporting /\ o.approval = None =>
        Contents(o.shape)' \subseteq o.gone \cup o.late /\ o.content \subseteq o.gone \cup o.late
  BY <1>2, <1>4 DEF Backed
<1> QED
  BY <1>5, <1>6, <1>7, <1>8, <1>9 DEF Backed

Running(c, a) == op[c].pc \in {"cleared", "read"} /\ op[c].approval = a

\* A step preserves Inv when the operations it changes are backed, the rows it writes are
\* sound, and a used approval passes from its export to a ledger entry.
LEMMA StepInv ==
    ASSUME Inv, TypeOK', Grows, RowsExist',
           \A d \in Conn : op'[d] = op[d] \/ Backed(op[d])',
           \A x \in Export : export'[x] = export[x]
             \/ /\ export'[x].approval \in approved' \cup {None}
                /\ export'[x].approval = None =>
                     export'[x].content \subseteq export'[x].gone \cup export'[x].late,
           burnt \subseteq burnt',
           \A a \in Approval : approval'[a] = "used" =>
             \/ approval[a] = "used" /\ \A d \in Conn : Running(d, a) => Running(d, a)'
             \/ \E d \in Conn : Running(d, a)'
             \/ \E x \in Export : export'[x].approval = a
             \/ a \in burnt'
    PROVE  Inv'
<1> USE DEF Inv
<1>1. op \in [Conn -> OpType] /\ op' \in [Conn -> OpType]
  BY DEF TypeOK, OpType
<1>2. OpsBacked'
  <2> SUFFICES ASSUME NEW d \in Conn, op'[d] = op[d]
               PROVE  Backed(op[d])'
    BY DEF OpsBacked
  <2>1. PICK o : o = op[d]
    OBVIOUS
  <2>2. o \in OpType /\ Backed(o)
    BY <1>1, <2>1 DEF OpsBacked
  <2>3. Backed(o)'
    BY <2>2, BackedKept
  <2>4. o = op'[d]
    BY <2>1
  <2> QED
    BY <2>3, <2>4
<1>3. ExportsAreApproved'
  <2>1. \A x \in Export : export'[x].approval \in approved' \cup {None}
    BY DEF ExportsAreApproved, Grows
  <2>2. ASSUME NEW d \in Conn, op'[d].pc \in Exporting, op'[d].approval # None
        PROVE  op'[d].approval \in approved' /\ wanted'[op'[d].approval] = op'[d].shape
    BY <1>2, <2>2 DEF OpsBacked, Backed
  <2> QED
    BY <2>1, <2>2 DEF ExportsAreApproved
<1>4. UnapprovedIsUnforeseen'
  BY DEF UnapprovedIsUnforeseen
<1>5. UsedIsAccountedFor'
  <2> SUFFICES ASSUME NEW a \in Approval, approval'[a] = "used", approval[a] = "used",
                      \A d \in Conn : Running(d, a) => Running(d, a)'
               PROVE  \/ \E x \in Export : export'[x].approval = a
                      \/ \E d \in Conn : Running(d, a)'
                      \/ a \in burnt'
    BY DEF UsedIsAccountedFor, Running
  <2>1. \A x \in Export : export[x].approval = a => export'[x].approval = a
    BY SentinelAssumption DEF Grows, RowsExist
  <2>2. \/ \E x \in Export : export[x].approval = a
        \/ \E d \in Conn : Running(d, a)
        \/ a \in burnt
    BY DEF UsedIsAccountedFor, Running
  <2> QED
    BY <2>1, <2>2
<1> QED
  BY <1>2, <1>3, <1>4, <1>5

LEMMA InitInv == Init => Inv
<1> SUFFICES ASSUME Init
             PROVE  Inv
  OBVIOUS
<1>1. TypeOK
  BY DEF Init, TypeOK, Idle, Steps, NoExport, ApprovalStatus, LedgerStatus
<1>2. OpsBacked
  BY DEF Init, OpsBacked, Backed, Idle, Exporting
<1> QED
  BY <1>1, <1>2
     DEF Init, Inv, RowsExist, NoExport, ExportsAreApproved, UnapprovedIsUnforeseen,
         UsedIsAccountedFor, Idle, Exporting

\* A step that writes no row, with a new operation that is backed, preserves Inv.
LEMMA ReadStep ==
    ASSUME Inv, UNCHANGED <<memory, rows, contended>>, NEW c \in Conn, NEW new \in OpType,
           op' = [op EXCEPT ![c] = new], Backed(new), burnt' \in SUBSET Approval,
           burnt \subseteq burnt',
           op[c].pc \in {"cleared", "read"} /\ op[c].approval # None =>
             \/ new.pc \in {"cleared", "read"} /\ new.approval = op[c].approval
             \/ op[c].approval \in burnt'
    PROVE  Inv'
<1> USE DEF Inv
<1>1. /\ UNCHANGED <<memory, approval, wanted, approved, ledger, export, inbox, contended>>
      /\ op \in [Conn -> OpType]
  BY DEF rows, TypeOK, OpType
<1>2. op' \in [Conn -> OpType] /\ op'[c] = new /\ \A d \in Conn \ {c} : op'[d] = op[d]
  BY <1>1
<1>3. TypeOK'
  BY <1>1, <1>2 DEF TypeOK, OpType
<1>4. Grows /\ RowsExist'
  BY <1>1 DEF Grows, RowsExist, Contents, Sensitive
<1>5. Backed(op[c])'
  BY <1>1, <1>2 DEF Backed, Contents, Sensitive
<1>6. \A a \in Approval : approval'[a] = "used" =>
        \/ approval[a] = "used" /\ \A d \in Conn : Running(d, a) => Running(d, a)'
        \/ a \in burnt'
  BY <1>1, <1>2, SentinelAssumption DEF Running
<1>7. \A d \in Conn : op'[d] = op[d] \/ Backed(op[d])'
  BY <1>2, <1>5
<1> QED
  BY <1>1, <1>3, <1>4, <1>6, <1>7, StepInv

LEMMA IdleOp == Idle \in OpType /\ Backed(Idle) /\ Idle.pc = "idle"
  BY DEF Idle, OpType, Steps, Backed, Exporting

LEMMA HoldingOp ==
    ASSUME NEW p \in Steps, NEW T \in SUBSET Thing
    PROVE  /\ Holding(p, T) \in OpType
           /\ Holding(p, T).pc = p
           /\ Holding(p, T).held = T
           /\ Holding(p, T).approval = None
  BY DEF Holding, Idle, OpType

\* An operation that begins by reading the rows it will act on.
LEMMA HeldRead ==
    ASSUME Inv, UNCHANGED <<memory, rows, burnt, contended>>, NEW c \in Conn, op[c] = Idle,
           NEW p \in Steps, NEW T \in SUBSET Thing, Becomes(c, Holding(p, T)),
           \/ p = "deciding" /\ \A t \in T : t \in Approval /\ approval[t] # "none"
           \/ p \in {"sweeping", "purging"} /\ \A t \in T : t \in Export /\ ledger[t] # "none"
           \/ p = "acking"
    PROVE  Inv'
<1> DEFINE new == Holding(p, T)
<1>1. new \in OpType /\ new.pc = p /\ new.held = T /\ new.approval = None
  BY HoldingOp
<1>2. op' = [op EXCEPT ![c] = new]
  BY DEF Becomes
<1> HIDE DEF new
<1>3. Backed(new)
  BY <1>1 DEF Backed, Exporting
<1>4. op[c].pc = "idle"
  BY IdleOp
<1>5. burnt' \in SUBSET Approval /\ burnt \subseteq burnt'
  BY DEF Inv, TypeOK
<1> QED
  BY <1>1, <1>2, <1>3, <1>4, <1>5, ReadStep

LEMMA HeldReadsInv ==
    ASSUME Inv, NEW c \in Conn,
           \/ \E a \in Approval : DecideRead(c, a)
           \/ SweepRead(c)
           \/ \E x \in Export : PurgeRead(c, x)
           \/ \E t \in Thing : AckRead(c, t)
    PROVE  Inv'
<1> USE DEF Steps
<1>1. ASSUME NEW a \in Approval, DecideRead(c, a)
      PROVE  Inv'
  <2>1. {a} \in SUBSET Thing /\ approval[a] # "none"
    BY <1>1 DEF DecideRead, Thing
  <2> QED
    BY <1>1, <2>1, HeldRead DEF DecideRead
<1>2. ASSUME SweepRead(c)
      PROVE  Inv'
  <2>1. /\ InStatus({"due"}) \in SUBSET Thing
        /\ \A t \in InStatus({"due"}) : t \in Export /\ ledger[t] # "none"
    BY DEF InStatus, Thing
  <2> QED
    BY <1>2, <2>1, HeldRead DEF SweepRead
<1>3. ASSUME NEW x \in Export, PurgeRead(c, x)
      PROVE  Inv'
  <2>1. {x} \in SUBSET Thing /\ ledger[x] # "none"
    BY <1>3 DEF PurgeRead, Thing
  <2> QED
    BY <1>3, <2>1, HeldRead DEF PurgeRead
<1>4. ASSUME NEW t \in Thing, AckRead(c, t)
      PROVE  Inv'
  <2>1. {t} \in SUBSET Thing
    OBVIOUS
  <2> QED
    BY <1>4, <2>1, HeldRead DEF AckRead
<1> QED
  BY <1>1, <1>2, <1>3, <1>4

LEMMA AbandonInv ==
    ASSUME Inv, NEW c \in Conn, Abandon(c)
    PROVE  Inv'
<1> USE DEF Becomes
<1>1. op[c].approval \in Approval \cup {None}
  BY DEF Inv, TypeOK
<1>2. /\ op' = [op EXCEPT ![c] = Idle] /\ UNCHANGED <<memory, rows, contended>>
      /\ burnt' \in SUBSET Approval /\ burnt \subseteq burnt'
      /\ op[c].pc \in {"cleared", "read"} /\ op[c].approval # None => op[c].approval \in burnt'
  BY <1>1 DEF Abandon, Inv, TypeOK
<1> QED
  BY <1>2, IdleOp, ReadStep

\* The reads of a request and of an export.
LEMMA ExportReadsInv ==
    ASSUME Inv, NEW c \in Conn,
           \/ \E s \in Shape : RequestRead(c, s)
           \/ \E s \in Shape, a \in Approval \cup {None} : Assess(c, s, a)
           \/ CheckApproval(c)
           \/ ReadProfile(c)
    PROVE  Inv'
<1> USE DEF Becomes
<1>0. /\ op[c] \in OpType /\ Backed(op[c]) /\ Covers \in [Shape -> SUBSET Memory]
      /\ UNCHANGED <<memory, rows, burnt, contended>>
      /\ burnt' \in SUBSET Approval /\ burnt \subseteq burnt'
  BY ShapeAssumption
     DEF Inv, TypeOK, OpType, OpsBacked, RequestRead, Assess, CheckApproval, ReadProfile
<1>1. ASSUME NEW s \in Shape, RequestRead(c, s)
      PROVE  Inv'
  <2>1. PICK new : new = [Idle EXCEPT !.pc = "requesting", !.shape = s, !.content = Sensitive(s)]
    OBVIOUS
  <2>2. Sensitive(s) \subseteq Memory
    BY <1>0 DEF Contents, Sensitive
  <2>3. new \in OpType /\ new.pc = "requesting" /\ new.shape = s
    BY <2>1, <2>2 DEF Idle, OpType, Steps
  <2>4. Backed(new)
    BY <2>3 DEF Backed, Exporting
  <2>5. op' = [op EXCEPT ![c] = new] /\ op[c].pc = "idle"
    BY <1>1, <2>1, IdleOp DEF RequestRead
  <2> QED
    BY <1>0, <2>3, <2>4, <2>5, ReadStep
<1>2. ASSUME NEW s \in Shape, NEW a \in Approval \cup {None}, Assess(c, s, a)
      PROVE  Inv'
  <2>0. Gone(s) \in SUBSET Memory /\ (Sensitive(s) = {} => Gone(s) = Contents(s))
    BY <1>0 DEF Gone, Contents, Sensitive
  <2>1. PICK new : new = IF Sensitive(s) = {}
                         THEN [Idle EXCEPT !.pc = "cleared", !.shape = s, !.gone = Gone(s)]
                         ELSE [Idle EXCEPT !.pc = "assessed", !.shape = s, !.gone = Gone(s),
                                           !.approval = a]
    OBVIOUS
  <2>2. CASE Sensitive(s) = {}
    <3>1. /\ new \in OpType /\ new.pc = "cleared" /\ new.shape = s
          /\ new.approval = None /\ new.content = {} /\ new.gone = Contents(s) /\ new.late = {}
      BY <2>0, <2>1, <2>2 DEF Idle, OpType, Steps
    <3>2. Backed(new)
      BY <2>2, <3>1 DEF Backed, Exporting
    <3>3. op' = [op EXCEPT ![c] = new] /\ op[c].pc = "idle"
      BY <1>2, <2>1, IdleOp DEF Assess
    <3> QED
      BY <1>0, <3>1, <3>2, <3>3, ReadStep
  <2>3. CASE Sensitive(s) # {}
    <3>1. a \in Approval
      BY <1>2, <2>3 DEF Assess
    <3>2. new \in OpType /\ new.pc = "assessed" /\ new.shape = s /\ new.approval = a
      BY <2>0, <2>1, <2>3 DEF Idle, OpType, Steps
    <3>3. Backed(new)
      BY <3>1, <3>2 DEF Backed, Exporting
    <3>4. op' = [op EXCEPT ![c] = new] /\ op[c].pc = "idle"
      BY <1>2, <2>1, IdleOp DEF Assess
    <3> QED
      BY <1>0, <3>2, <3>3, <3>4, ReadStep
  <2> QED
    BY <2>2, <2>3
<1>3. ASSUME CheckApproval(c)
      PROVE  Inv'
  <2>1. PICK new : new = [op[c] EXCEPT !.pc = "checked", !.held = {op[c].approval}]
    OBVIOUS
  <2>2. /\ op[c].pc = "assessed" /\ op[c].approval \in Approval /\ op[c].shape \in Shape
        /\ wanted[op[c].approval] = op[c].shape /\ approval[op[c].approval] = "approved"
    BY <1>0, <1>3 DEF CheckApproval, Backed
  <2>3. /\ new \in OpType /\ new.pc = "checked" /\ new.held = {op[c].approval}
        /\ new.approval = op[c].approval /\ new.shape = op[c].shape
    BY <1>0, <2>1, <2>2 DEF OpType, Steps, Thing
  <2>4. op[c].approval \in approved
    BY <2>2 DEF RowsExist, Inv
  <2>5. Backed(new)
    BY <2>2, <2>3, <2>4 DEF Backed, Exporting
  <2>6. op' = [op EXCEPT ![c] = new]
    BY <1>3, <2>1 DEF CheckApproval
  <2> QED
    BY <1>0, <2>2, <2>3, <2>5, <2>6, ReadStep
<1>4. ASSUME ReadProfile(c)
      PROVE  Inv'
  <2>1. PICK new : new = [op[c] EXCEPT !.pc = "read", !.content = Contents(op[c].shape)]
    OBVIOUS
  <2>2. op[c].pc = "cleared" /\ op[c].shape \in Shape
    BY <1>0, <1>4 DEF ReadProfile, Backed, Exporting
  <2>3. Contents(op[c].shape) \subseteq Memory
    BY <1>0, <2>2 DEF Contents, Sensitive
  <2>4. /\ new \in OpType /\ new.pc = "read" /\ new.content = Contents(op[c].shape)
        /\ new.approval = op[c].approval /\ new.shape = op[c].shape
        /\ new.gone = op[c].gone /\ new.late = op[c].late
    BY <1>0, <2>1, <2>3 DEF OpType, Steps
  <2>5. Backed(new)
    BY <1>0, <2>2, <2>4 DEF Backed, Exporting
  <2>6. op' = [op EXCEPT ![c] = new]
    BY <1>4, <2>1 DEF ReadProfile
  <2> QED
    BY <1>0, <2>2, <2>4, <2>5, <2>6, ReadStep
<1> QED
  BY <1>1, <1>2, <1>3, <1>4

----------------------------------------------------------------------------
(* The transactions. *)

\* A transaction that ends an operation which is not an export that was cleared, and
\* leaves the ledger's contents alone.
LEMMA CommitStep ==
    ASSUME Inv, TypeOK', Grows, RowsExist', UNCHANGED <<export, burnt>>,
           NEW c \in Conn, op[c].pc \notin {"cleared", "read"},
           op' = [op EXCEPT ![c] = Idle] \/ op' = op,
           \A a \in Approval : approval'[a] = "used" => approval[a] = "used"
    PROVE  Inv'
<1>1. op \in [Conn -> OpType]
  BY DEF Inv, TypeOK, OpType
<1>2. \A d \in Conn : op'[d] = op[d] \/ op'[d] = Idle
  BY <1>1
<1>3. ASSUME NEW d \in Conn, op'[d] = Idle
      PROVE  Backed(op[d])'
  BY <1>3 DEF Backed, Exporting, Idle
<1>4. \A d \in Conn : op'[d] = op[d] \/ Backed(op[d])'
  BY <1>2, <1>3
<1>5. \A a \in Approval : approval'[a] = "used" =>
        approval[a] = "used" /\ \A d \in Conn : Running(d, a) => Running(d, a)'
  BY <1>1 DEF Running
<1>6. \A a \in Approval : approval'[a] = "used" =>
        \/ approval[a] = "used" /\ \A d \in Conn : Running(d, a) => Running(d, a)'
        \/ \E d \in Conn : Running(d, a)'
        \/ \E x \in Export : export'[x].approval = a
        \/ a \in burnt'
  BY <1>5
<1>7. \A x \in Export : export'[x] = export[x]
  OBVIOUS
<1>8. burnt \subseteq burnt'
  OBVIOUS
<1> QED
  BY <1>4, <1>6, <1>7, <1>8, StepInv

LEMMA ContendType ==
    ASSUME TypeOK, NEW c \in Conn, NEW T \in SUBSET Thing, CommitsOn(c, T)
    PROVE  contended' \in SUBSET Thing
  BY DEF TypeOK, CommitsOn

LEMMA RequestCommitInv ==
    ASSUME Inv, NEW c \in Conn, NEW a \in Approval, RequestCommit(c, a)
    PROVE  Inv'
<1> USE DEF Inv, Becomes
<1>1. op[c] \in OpType /\ Backed(op[c]) /\ op[c].pc = "requesting" /\ op[c].shape \in Shape
  BY DEF TypeOK, OpType, OpsBacked, Backed, RequestCommit
<1>2. /\ approval[a] = "none" /\ approval'[a] \in {"pending", "not_required"}
      /\ \A b \in Approval \ {a} : approval'[b] = approval[b] /\ wanted'[b] = wanted[b]
      /\ approval' \in [Approval -> ApprovalStatus]
      /\ wanted' \in [Approval -> Shape \cup {None}]
      /\ inbox' \in SUBSET Thing
      /\ op' = [op EXCEPT ![c] = Idle]
      /\ approved \subseteq Approval
  BY <1>1 DEF RequestCommit, TypeOK, ApprovalStatus, Thing
<1>3. UNCHANGED <<memory, approved, ledger, export, burnt, contended>>
  BY DEF RequestCommit
<1>4. TypeOK'
  BY <1>2, <1>3, IdleOp DEF TypeOK, OpType
<1>5. \A s \in Shape : Contents(s)' = Contents(s)
  BY <1>3 DEF Contents, Sensitive
<1>6. Grows
  BY <1>2, <1>3, <1>5 DEF Grows
<1>7. RowsExist'
  BY <1>2, <1>3 DEF RowsExist
<1>8. \A b \in Approval : approval'[b] = "used" => approval[b] = "used"
  BY <1>2
<1> QED
  BY <1>1, <1>2, <1>3, <1>4, <1>6, <1>7, <1>8, CommitStep

LEMMA DecideCommitInv ==
    ASSUME Inv, NEW c \in Conn, NEW verdict \in {"approved", "rejected"}, DecideCommit(c, verdict)
    PROVE  Inv'
<1> USE DEF Inv, Becomes
<1>1. PICK a \in op[c].held :
        /\ op[c].pc = "deciding"
        /\ approval' = [approval EXCEPT ![a] = verdict]
        /\ approved' = IF verdict = "approved" THEN approved \cup {a} ELSE approved
        /\ inbox' = inbox \ {a}
        /\ CommitsOn(c, {a})
        /\ op' = [op EXCEPT ![c] = Idle]
        /\ UNCHANGED <<memory, wanted, ledger, export, burnt>>
  BY DEF DecideCommit
<1>2. a \in Approval /\ approval[a] # "none"
  BY <1>1 DEF OpsBacked, Backed
<1>3. contended' \in SUBSET Thing
  BY <1>1, <1>2, ContendType DEF Thing
<1>4. TypeOK'
  BY <1>1, <1>2, <1>3, IdleOp DEF TypeOK, OpType, ApprovalStatus
<1>5. Grows /\ RowsExist'
  BY <1>1, <1>2 DEF Grows, RowsExist, Contents, Sensitive, TypeOK
<1>6. \A b \in Approval : approval'[b] = "used" => approval[b] = "used"
  BY <1>1, <1>2 DEF TypeOK
<1> QED
  BY <1>1, <1>4, <1>5, <1>6, CommitStep

LEMMA UseApprovalInv ==
    ASSUME Inv, NEW c \in Conn, UseApproval(c)
    PROVE  Inv'
<1> USE DEF Inv, Becomes
<1> DEFINE a == op[c].approval
<1>1. PICK new : new = [op[c] EXCEPT !.pc = "cleared", !.held = {}]
  OBVIOUS
<1>2. /\ op[c] \in OpType /\ op[c].pc = "checked" /\ op[c].shape \in Shape
      /\ a \in Approval /\ op[c].held = {a} /\ a \in approved /\ wanted[a] = op[c].shape
  BY SentinelAssumption DEF TypeOK, OpType, OpsBacked, Backed, UseApproval
<1>3. /\ new \in OpType /\ new.pc = "cleared" /\ new.approval = a /\ new.shape = op[c].shape
  BY <1>1, <1>2 DEF OpType, Steps
<1>4. /\ op' = [op EXCEPT ![c] = new] /\ approval' = [approval EXCEPT ![a] = "used"]
      /\ CommitsOn(c, {a})
      /\ UNCHANGED <<memory, wanted, approved, ledger, export, inbox, burnt>>
  BY <1>1, <1>2 DEF UseApproval
<1>5. contended' \in SUBSET Thing
  BY <1>2, <1>4, ContendType DEF Thing
<1> HIDE DEF a
<1>6. TypeOK'
  BY <1>2, <1>3, <1>4, <1>5 DEF TypeOK, OpType, ApprovalStatus
<1>7. Grows /\ RowsExist'
  BY <1>2, <1>4 DEF Grows, RowsExist, Contents, Sensitive, TypeOK
<1>8. op'[c] = new /\ \A d \in Conn \ {c} : op'[d] = op[d]
  BY <1>4 DEF TypeOK
<1>9. Backed(op[c])'
  <2>1. /\ op'[c].pc = "cleared" /\ op'[c].approval = a /\ op'[c].shape = op[c].shape
        /\ a # None /\ a \in approved' /\ wanted'[a] = op[c].shape
    BY <1>2, <1>3, <1>4, <1>8, SentinelAssumption
  <2> QED
    BY <1>2, <2>1 DEF Backed, Exporting
<1>10. \A b \in Approval : approval'[b] = "used" =>
         \/ approval[b] = "used" /\ \A d \in Conn : Running(d, b) => Running(d, b)'
         \/ \E d \in Conn : Running(d, b)'
  <2>1. op'[c].pc \in {"cleared", "read"} /\ op'[c].approval = a
    BY <1>3, <1>8
  <2>2. \A b \in Approval \ {a} : approval'[b] = approval[b]
    BY <1>4 DEF TypeOK
  <2>3. \A d \in Conn, b \in Approval : Running(d, b) => Running(d, b)'
    BY <1>2, <1>8 DEF Running
  <2> QED
    BY <2>1, <2>2, <2>3 DEF Running
<1>11. \A d \in Conn : op'[d] = op[d] \/ Backed(op[d])'
  BY <1>8, <1>9
<1> QED
  BY <1>4, <1>6, <1>7, <1>10, <1>11, StepInv

\* _record_export_record for the operation of c: the fresh row names its approval.
LEMMA RecordEffect ==
    ASSUME Inv, NEW c \in Conn, NEW x \in Export, Record(c, x),
           op[c].pc \in Exporting,
           op[c].approval = None => op[c].content \subseteq op[c].gone \cup op[c].late
    PROVE  /\ Grows /\ RowsExist'
           /\ export'[x].approval = op[c].approval /\ ledger'[x] = "active"
           /\ export'[x].content = op[c].content
           /\ export'[x].gone = op[c].gone /\ export'[x].late = op[c].late
           /\ \A y \in Export \ {x} : export'[y] = export[y] /\ ledger'[y] = ledger[y]
           /\ ledger' \in [Export -> LedgerStatus]
           /\ export' \in [Export -> [approval : Approval \cup {None}, content : SUBSET Memory,
                                      gone : SUBSET Memory, late : SUBSET Memory]]
<1>1. /\ ledger[x] = "none"
      /\ ledger' = [ledger EXCEPT ![x] = "active"]
      /\ export' = [export EXCEPT ![x] = [approval |-> op[c].approval,
                                          content |-> op[c].content, gone |-> op[c].gone,
                                          late |-> op[c].late]]
      /\ UNCHANGED <<memory, approval, wanted, approved, inbox, burnt, contended>>
  BY DEF Record
<1>2. op[c] \in OpType
  BY DEF Inv, TypeOK, OpType
<1>3. /\ op[c].approval \in Approval \cup {None}
      /\ op[c].content \in SUBSET Memory
      /\ op[c].gone \in SUBSET Memory /\ op[c].late \in SUBSET Memory
  BY <1>2 DEF OpType
<1>4. /\ export'[x].approval = op[c].approval /\ ledger'[x] = "active"
      /\ export'[x].content = op[c].content
      /\ export'[x].gone = op[c].gone /\ export'[x].late = op[c].late
      /\ \A y \in Export \ {x} : export'[y] = export[y] /\ ledger'[y] = ledger[y]
      /\ ledger' \in [Export -> LedgerStatus]
  BY <1>1 DEF Inv, TypeOK, LedgerStatus
<1>5. export' \in [Export -> [approval : Approval \cup {None}, content : SUBSET Memory,
                              gone : SUBSET Memory, late : SUBSET Memory]]
  BY <1>1, <1>3 DEF Inv, TypeOK
<1>6. \A s \in Shape : Contents(s)' = Contents(s)
  BY <1>1 DEF Contents, Sensitive
<1>7. Grows
  BY <1>1, <1>4, <1>6 DEF Grows
<1>8. RowsExist'
  BY <1>1, <1>4 DEF RowsExist, Inv
<1> QED
  BY <1>4, <1>5, <1>7, <1>8

LEMMA RecordInv ==
    ASSUME Inv, NEW c \in Conn, NEW x \in Export, ReturnProfile(c, x) \/ RecordFiles(c, x)
    PROVE  Inv'
<1> USE DEF Inv, Becomes
<1>1. /\ op[c] \in OpType /\ Backed(op[c]) /\ op[c].pc \in {"cleared", "read"}
      /\ op[c].pc \in Exporting /\ op \in [Conn -> OpType] /\ Record(c, x)
  BY DEF TypeOK, OpType, OpsBacked, ReturnProfile, RecordFiles, Exporting
<1>2. op[c].approval = None => op[c].content \subseteq op[c].gone \cup op[c].late
  BY <1>1 DEF Backed
<1>3. /\ Grows /\ RowsExist'
      /\ export'[x].approval = op[c].approval /\ ledger'[x] = "active"
      /\ export'[x].content = op[c].content
      /\ export'[x].gone = op[c].gone /\ export'[x].late = op[c].late
      /\ \A y \in Export \ {x} : export'[y] = export[y] /\ ledger'[y] = ledger[y]
      /\ ledger' \in [Export -> LedgerStatus]
      /\ export' \in [Export -> [approval : Approval \cup {None}, content : SUBSET Memory,
                                 gone : SUBSET Memory, late : SUBSET Memory]]
  BY <1>1, <1>2, RecordEffect
<1>4. UNCHANGED <<memory, approval, wanted, approved, inbox, burnt, contended>>
  BY <1>1 DEF Record
<1>5. PICK new : new = IF op[c].pc = "read" THEN Idle
                       ELSE [op[c] EXCEPT !.pc = "recorded", !.export = x]
  OBVIOUS
<1>6. op' = [op EXCEPT ![c] = new]
  BY <1>5 DEF ReturnProfile, RecordFiles
<1>7. \/ new = Idle
      \/ /\ new.pc = "recorded" /\ new.export = x /\ new.approval = op[c].approval
         /\ new.shape = op[c].shape /\ new.content = op[c].content
         /\ new.gone = op[c].gone /\ new.late = op[c].late
  BY <1>1, <1>5 DEF OpType
<1>8. new \in OpType
  BY <1>1, <1>5, IdleOp DEF OpType, Steps
<1>9. op' \in [Conn -> OpType] /\ op'[c] = new /\ \A d \in Conn \ {c} : op'[d] = op[d]
  BY <1>1, <1>6, <1>8
<1>10. TypeOK'
  BY <1>3, <1>4, <1>9 DEF TypeOK, OpType
<1>11. Backed(op[c])'
  <2>1. CASE new = Idle
    BY <1>9, <2>1, IdleOp DEF Backed, Exporting, Idle
  <2>2. CASE new # Idle
    <3>1. /\ op'[c].pc = "recorded" /\ op'[c].export = x /\ op'[c].approval = op[c].approval
          /\ op'[c].shape = op[c].shape /\ op'[c].content = op[c].content
          /\ op'[c].gone = op[c].gone /\ op'[c].late = op[c].late
      BY <1>7, <1>9, <2>2
    <3> QED
      BY <1>1, <1>3, <1>4, <3>1 DEF Backed, Exporting, Contents, Sensitive
  <2> QED
    BY <2>1, <2>2
<1>12. \A d \in Conn : op'[d] = op[d] \/ Backed(op[d])'
  BY <1>9, <1>11
<1>13. \A y \in Export : export'[y] = export[y]
         \/ /\ export'[y].approval \in approved' \cup {None}
            /\ export'[y].approval = None =>
                     export'[y].content \subseteq export'[y].gone \cup export'[y].late
  <2>1. op[c].approval \in approved \cup {None}
    BY <1>1 DEF Backed
  <2> QED
    BY <1>2, <1>3, <1>4, <2>1
<1>14. \A a \in Approval : approval'[a] = "used" =>
         \/ approval[a] = "used" /\ \A d \in Conn : Running(d, a) => Running(d, a)'
         \/ \E d \in Conn : Running(d, a)'
         \/ \E y \in Export : export'[y].approval = a
         \/ a \in burnt'
  <2> SUFFICES ASSUME NEW a \in Approval, approval'[a] = "used"
               PROVE  \/ approval[a] = "used" /\ \A d \in Conn : Running(d, a) => Running(d, a)'
                      \/ \E y \in Export : export'[y].approval = a
    OBVIOUS
  <2>1. CASE op[c].approval = a
    BY <1>3, <2>1
  <2>2. CASE op[c].approval # a
    <3>1. \A d \in Conn : Running(d, a) => Running(d, a)'
      BY <1>9, <2>2 DEF Running
    <3> QED
      BY <1>4, <3>1
  <2> QED
    BY <2>1, <2>2
<1>15. burnt \subseteq burnt'
  BY <1>4
<1> QED
  BY <1>3, <1>10, <1>12, <1>13, <1>14, <1>15, StepInv

LEMMA WriteFilesInv ==
    ASSUME Inv, NEW c \in Conn, WriteFiles(c)
    PROVE  Inv'
<1> USE DEF Inv, Becomes
<1>1. PICK x : x = op[c].export
  OBVIOUS
<1>2. /\ op[c] \in OpType /\ op[c].pc = "recorded" /\ op \in [Conn -> OpType]
      /\ x \in Export /\ ledger[x] # "none" /\ export[x].approval = op[c].approval
      /\ op[c].shape \in Shape
      /\ op[c].approval = None => Contents(op[c].shape) \subseteq op[c].gone \cup op[c].late
      /\ op[c].approval \in approved \cup {None}
  BY <1>1 DEF TypeOK, OpType, OpsBacked, Backed, Exporting, WriteFiles
<1>3. /\ export' = [export EXCEPT ![x] = [@ EXCEPT !.content = Contents(op[c].shape),
                                                   !.gone = op[c].gone, !.late = op[c].late]]
      /\ op' = [op EXCEPT ![c] = Idle]
      /\ UNCHANGED <<memory, approval, wanted, approved, ledger, inbox, burnt, contended>>
  BY <1>1 DEF WriteFiles
<1>4. /\ Contents(op[c].shape) \in SUBSET Memory
      /\ op[c].gone \in SUBSET Memory /\ op[c].late \in SUBSET Memory
  BY <1>2, ShapeAssumption DEF Contents, Sensitive, OpType
<1>5. /\ \A y \in Export \ {x} : export'[y] = export[y]
      /\ export'[x].approval = export[x].approval
      /\ export'[x].content = Contents(op[c].shape)
      /\ export'[x].gone = op[c].gone /\ export'[x].late = op[c].late
      /\ export' \in [Export -> [approval : Approval \cup {None}, content : SUBSET Memory,
                                 gone : SUBSET Memory, late : SUBSET Memory]]
  <2>1. export \in [Export -> [approval : Approval \cup {None}, content : SUBSET Memory,
                               gone : SUBSET Memory, late : SUBSET Memory]]
    BY DEF TypeOK
  <2>2. PICK row : row = [export[x] EXCEPT !.content = Contents(op[c].shape),
                                           !.gone = op[c].gone, !.late = op[c].late]
    OBVIOUS
  <2>3. /\ row \in [approval : Approval \cup {None}, content : SUBSET Memory,
                    gone : SUBSET Memory, late : SUBSET Memory]
        /\ row.approval = export[x].approval
        /\ row.content = Contents(op[c].shape) /\ row.gone = op[c].gone /\ row.late = op[c].late
    BY <1>2, <1>4, <2>1, <2>2
  <2>4. export' = [export EXCEPT ![x] = row]
    BY <1>3, <2>2
  <2> QED
    BY <1>2, <2>1, <2>3, <2>4
<1>6. TypeOK'
  BY <1>2, <1>3, <1>5, IdleOp DEF TypeOK, OpType
<1>7. \A s \in Shape : Contents(s)' = Contents(s)
  BY <1>3 DEF Contents, Sensitive
<1>8. Grows
  BY <1>3, <1>5, <1>7 DEF Grows
<1>9. RowsExist'
  BY <1>2, <1>3, <1>5 DEF RowsExist
<1>10. \A d \in Conn : op'[d] = op[d] \/ Backed(op[d])'
  <2>1. \A d \in Conn : op'[d] = op[d] \/ op'[d] = Idle
    BY <1>2, <1>3
  <2>2. ASSUME NEW d \in Conn, op'[d] = Idle
        PROVE  Backed(op[d])'
    BY <2>2 DEF Backed, Exporting, Idle
  <2> QED
    BY <2>1, <2>2
<1>11. \A y \in Export : export'[y] = export[y]
         \/ /\ export'[y].approval \in approved' \cup {None}
            /\ export'[y].approval = None =>
                     export'[y].content \subseteq export'[y].gone \cup export'[y].late
  BY <1>2, <1>3, <1>5
<1>12. \A a \in Approval : approval'[a] = "used" =>
         \/ approval[a] = "used" /\ \A d \in Conn : Running(d, a) => Running(d, a)'
         \/ \E d \in Conn : Running(d, a)'
         \/ \E y \in Export : export'[y].approval = a
         \/ a \in burnt'
  BY <1>2, <1>3 DEF Running
<1>13. burnt \subseteq burnt'
  BY <1>3
<1> QED
  BY <1>6, <1>8, <1>9, <1>10, <1>11, <1>12, <1>13, StepInv

\* Retention and notifications write statuses only.
LEMMA StatusStep ==
    ASSUME Inv, UNCHANGED <<memory, approval, wanted, approved, export, burnt>>,
           NEW c \in Conn, op[c].pc \notin {"cleared", "read"},
           op' = [op EXCEPT ![c] = Idle] \/ op' = op,
           ledger' \in [Export -> LedgerStatus],
           \A x \in Export : ledger'[x] = "none" <=> ledger[x] = "none",
           inbox' \in SUBSET Thing, contended' \in SUBSET Thing
    PROVE  Inv'
<1> USE DEF Inv
<1>1. op' \in [Conn -> OpType]
  BY IdleOp DEF TypeOK, OpType
<1>2. TypeOK'
  BY <1>1 DEF TypeOK, OpType
<1>3. \A s \in Shape : Contents(s)' = Contents(s)
  BY DEF Contents, Sensitive
<1>4. Grows
  BY <1>3 DEF Grows
<1>5. RowsExist'
  BY DEF RowsExist
<1>6. \A a \in Approval : approval'[a] = "used" => approval[a] = "used"
  OBVIOUS
<1> QED
  BY <1>2, <1>4, <1>5, <1>6, CommitStep

LEMMA RetentionInv ==
    ASSUME Inv, NEW c \in Conn,
           \/ SweepCommit(c) \/ PurgeCommit(c) \/ AckCommit(c)
           \/ \E t \in Thing : ResolveNotification(c, t)
    PROVE  Inv'
<1> USE DEF Inv, Becomes
<1>1. /\ op[c].held \in SUBSET Thing
      /\ op[c].pc \in {"sweeping", "purging"} =>
           \A t \in op[c].held : t \in Export /\ ledger[t] # "none"
      /\ ledger \in [Export -> LedgerStatus] /\ inbox \in SUBSET Thing
  BY DEF TypeOK, OpsBacked, Backed
<1>2. ASSUME NEW s \in {"expired", "purged"}, op[c].pc \in {"sweeping", "purging"},
             ledger' = [x \in Export |-> IF x \in op[c].held THEN s ELSE ledger[x]]
      PROVE  /\ ledger' \in [Export -> LedgerStatus]
             /\ \A x \in Export : ledger'[x] = "none" <=> ledger[x] = "none"
  BY <1>1, <1>2 DEF LedgerStatus
<1>3. ASSUME SweepCommit(c)
      PROVE  Inv'
  <2>1. /\ op[c].pc = "sweeping" /\ CommitsOn(c, op[c].held)
        /\ ledger' = [x \in Export |-> IF x \in op[c].held THEN "expired" ELSE ledger[x]]
        /\ op' = [op EXCEPT ![c] = Idle] /\ inbox' \in SUBSET Thing
        /\ UNCHANGED <<memory, approval, wanted, approved, export, burnt>>
    BY <1>1, <1>3 DEF SweepCommit
  <2>2. contended' \in SUBSET Thing
    BY <1>1, <2>1, ContendType
  <2>3. /\ ledger' \in [Export -> LedgerStatus]
        /\ \A x \in Export : ledger'[x] = "none" <=> ledger[x] = "none"
    BY <1>2, <2>1
  <2> QED
    BY <2>1, <2>2, <2>3, StatusStep
<1>4. ASSUME PurgeCommit(c)
      PROVE  Inv'
  <2>1. /\ op[c].pc = "purging" /\ CommitsOn(c, op[c].held)
        /\ ledger' = [x \in Export |-> IF x \in op[c].held THEN "purged" ELSE ledger[x]]
        /\ op' = [op EXCEPT ![c] = Idle] /\ inbox' \in SUBSET Thing
        /\ UNCHANGED <<memory, approval, wanted, approved, export, burnt>>
    BY <1>1, <1>4 DEF PurgeCommit
  <2>2. contended' \in SUBSET Thing
    BY <1>1, <2>1, ContendType
  <2>3. /\ ledger' \in [Export -> LedgerStatus]
        /\ \A x \in Export : ledger'[x] = "none" <=> ledger[x] = "none"
    BY <1>2, <2>1
  <2> QED
    BY <2>1, <2>2, <2>3, StatusStep
<1>5. ASSUME AckCommit(c)
      PROVE  Inv'
  <2>1. /\ op[c].pc = "acking" /\ CommitsOn(c, op[c].held)
        /\ op' = [op EXCEPT ![c] = Idle] /\ inbox' \in SUBSET Thing
        /\ UNCHANGED <<memory, approval, wanted, approved, ledger, export, burnt>>
    BY <1>1, <1>5 DEF AckCommit
  <2>2. contended' \in SUBSET Thing
    BY <1>1, <2>1, ContendType
  <2> QED
    BY <1>1, <2>1, <2>2, StatusStep
<1>6. ASSUME NEW t \in Thing, ResolveNotification(c, t)
      PROVE  Inv'
  <2>1. /\ op[c].pc = "idle" /\ CommitsOn(c, {t}) /\ op' = op /\ inbox' \in SUBSET Thing
        /\ UNCHANGED <<memory, approval, wanted, approved, ledger, export, burnt>>
    BY <1>1, <1>6, IdleOp DEF ResolveNotification
  <2>2. contended' \in SUBSET Thing
    BY <2>1, ContendType
  <2> QED
    BY <1>1, <2>1, <2>2, StatusStep
<1> QED
  BY <1>3, <1>4, <1>5, <1>6

----------------------------------------------------------------------------
(* The other components, and the clock. *)

\* A memory that becomes active is late for every export that was assessed before.
LEMMA LearnInv ==
    ASSUME Inv, NEW m \in Memory, Learn(m)
    PROVE  Inv'
<1> USE DEF Inv
<1>1. /\ memory[m] = "new" /\ memory' = [memory EXCEPT ![m] = "active"]
      /\ memory \in [Memory -> {"new", "active", "retired"}]
      /\ UNCHANGED <<approval, wanted, approved, ledger, export, inbox, burnt, contended>>
      /\ op \in [Conn -> OpType]
  BY DEF Learn, TypeOK, OpType, rows
<1>2. \A c \in Conn :
        op'[c] = IF op[c].pc \in Exporting /\ op[c].approval = None
                 THEN [op[c] EXCEPT !.late = @ \cup {m}] ELSE op[c]
  BY DEF Learn
<1>3. ASSUME NEW c \in Conn
      PROVE  /\ op'[c] \in OpType
             /\ op'[c].pc = op[c].pc /\ op'[c].held = op[c].held
             /\ op'[c].shape = op[c].shape /\ op'[c].approval = op[c].approval
             /\ op'[c].export = op[c].export /\ op'[c].content = op[c].content
             /\ op'[c].gone = op[c].gone
             /\ op[c].pc \in Exporting /\ op[c].approval = None =>
                  op'[c].late = op[c].late \cup {m}
  <2>1. op[c] \in OpType
    BY <1>1
  <2>2. CASE op[c].pc \in Exporting /\ op[c].approval = None
    <3>1. op[c].late \cup {m} \in SUBSET Memory
      BY <2>1 DEF OpType
    <3>2. op'[c] = [op[c] EXCEPT !.late = op[c].late \cup {m}]
      BY <1>2, <2>2
    <3> HIDE DEF Inv
    <3> QED
      BY <2>1, <3>1, <3>2 DEF OpType
  <2>3. CASE ~(op[c].pc \in Exporting /\ op[c].approval = None)
    BY <1>2, <2>1, <2>3
  <2> QED
    BY <2>2, <2>3
<1>4. TypeOK'
  <2>1. op' = [c \in Conn |-> IF op[c].pc \in Exporting /\ op[c].approval = None
                              THEN [op[c] EXCEPT !.late = @ \cup {m}] ELSE op[c]]
    BY DEF Learn
  <2>2. op' \in [Conn -> OpType]
    BY <1>3, <2>1
  <2> QED
    BY <1>1, <2>2 DEF TypeOK, OpType
<1>5. \A s \in Shape : Contents(s)' \subseteq Contents(s) \cup {m}
  BY <1>1, ShapeAssumption DEF Contents, Sensitive
<1>6. RowsExist' /\ UnapprovedIsUnforeseen'
  BY <1>1 DEF RowsExist, UnapprovedIsUnforeseen
<1>7. OpsBacked'
  <2> SUFFICES ASSUME NEW c \in Conn
               PROVE  Backed(op[c])'
    BY DEF OpsBacked
  <2>1. PICK o : o = op[c]
    OBVIOUS
  <2>2. PICK n : n = op'[c]
    OBVIOUS
  <2>3. /\ Backed(o) /\ n.pc = o.pc /\ n.held = o.held /\ n.shape = o.shape
        /\ n.approval = o.approval /\ n.export = o.export /\ n.content = o.content
        /\ n.gone = o.gone
        /\ o.pc \in Exporting /\ o.approval = None => n.late = o.late \cup {m}
    BY <1>3, <2>1, <2>2 DEF OpsBacked
  <2>4. o.pc \in Exporting /\ o.approval = None =>
          Contents(n.shape)' \subseteq n.gone \cup n.late /\ n.content \subseteq n.gone \cup n.late
    BY <1>5, <2>3 DEF Backed
  <2>5. Backed(n)'
    BY <1>1, <2>3, <2>4 DEF Backed
  <2> QED
    BY <2>2, <2>5
<1>8. ExportsAreApproved'
  BY <1>1, <1>3 DEF ExportsAreApproved
<1>9. UsedIsAccountedFor'
  BY <1>1, <1>3 DEF UsedIsAccountedFor
<1> QED
  BY <1>4, <1>6, <1>7, <1>8, <1>9

LEMMA ClockInv ==
    ASSUME Inv,
           \/ \E m \in Memory : Retire(m)
           \/ \E x \in Export : Lapse(x)
    PROVE  Inv'
<1> USE DEF Inv
<1>1. /\ UNCHANGED <<approval, wanted, approved, export, inbox, burnt, contended, op>>
      /\ memory' \in [Memory -> {"new", "active", "retired"}]
      /\ ledger' \in [Export -> LedgerStatus]
      /\ \A x \in Export : ledger'[x] = "none" <=> ledger[x] = "none"
  BY DEF Retire, Lapse, TypeOK, LedgerStatus, rows
<1>2. \A m \in Memory : /\ memory'[m] = "active" => memory[m] = "active"
                        /\ memory'[m] = "retired" => memory[m] \in {"active", "retired"}
  BY DEF Retire, Lapse, TypeOK
<1>3. TypeOK'
  BY <1>1 DEF TypeOK
<1>4. \A s \in Shape : Contents(s)' \subseteq Contents(s)
  BY <1>1, <1>2, ShapeAssumption DEF Contents, Sensitive
<1>5. Grows /\ RowsExist'
  BY <1>1, <1>4 DEF Grows, RowsExist
<1>6. Grows
  BY <1>5
<1>7. RowsExist'
  BY <1>5
<1>8. \A d \in Conn : op'[d] = op[d] \/ Backed(op[d])'
  BY <1>1
<1>9. \A x \in Export : export'[x] = export[x]
         \/ /\ export'[x].approval \in approved' \cup {None}
            /\ export'[x].approval = None =>
                     export'[x].content \subseteq export'[x].gone \cup export'[x].late
  BY <1>1
<1>10. burnt \subseteq burnt'
  BY <1>1
<1>11. \A a \in Approval : approval'[a] = "used" =>
             \/ approval[a] = "used" /\ \A d \in Conn : Running(d, a) => Running(d, a)'
             \/ \E d \in Conn : Running(d, a)'
             \/ \E x \in Export : export'[x].approval = a
             \/ a \in burnt'
  BY <1>1 DEF Running
<1> QED
  BY <1>3, <1>6, <1>7, <1>8, <1>9, <1>10, <1>11, StepInv

LEMMA NextInv == Inv /\ [Next]_vars => Inv'
<1> SUFFICES ASSUME Inv, [Next]_vars
             PROVE  Inv'
  OBVIOUS
<1>1. CASE UNCHANGED vars
  BY <1>1
     DEF Inv, vars, rows, TypeOK, RowsExist, OpsBacked, Backed, Contents, Sensitive,
         ExportsAreApproved, UnapprovedIsUnforeseen, UsedIsAccountedFor
<1>2. ASSUME NEW m \in Memory, Learn(m)
      PROVE  Inv'
  BY <1>2, LearnInv
<1>3. ASSUME \/ \E m \in Memory : Retire(m)
             \/ \E x \in Export : Lapse(x)
      PROVE  Inv'
  BY <1>3, ClockInv
<1>4. ASSUME NEW c \in Conn,
             \/ \E s \in Shape : RequestRead(c, s)
             \/ \E s \in Shape, a \in Approval \cup {None} : Assess(c, s, a)
             \/ CheckApproval(c)
             \/ ReadProfile(c)
      PROVE  Inv'
  BY <1>4, ExportReadsInv
<1>5. ASSUME NEW c \in Conn, NEW a \in Approval, RequestCommit(c, a)
      PROVE  Inv'
  BY <1>5, RequestCommitInv
<1>6. ASSUME NEW c \in Conn,
             \/ \E a \in Approval : DecideRead(c, a)
             \/ SweepRead(c)
             \/ \E x \in Export : PurgeRead(c, x)
             \/ \E t \in Thing : AckRead(c, t)
      PROVE  Inv'
  BY <1>6, HeldReadsInv
<1>7. ASSUME NEW c \in Conn, NEW verdict \in {"approved", "rejected"}, DecideCommit(c, verdict)
      PROVE  Inv'
  BY <1>7, DecideCommitInv
<1>8. ASSUME NEW c \in Conn, UseApproval(c)
      PROVE  Inv'
  BY <1>8, UseApprovalInv
<1>9. ASSUME NEW c \in Conn, NEW x \in Export, ReturnProfile(c, x) \/ RecordFiles(c, x)
      PROVE  Inv'
  BY <1>9, RecordInv
<1>10. ASSUME NEW c \in Conn, WriteFiles(c)
       PROVE  Inv'
  BY <1>10, WriteFilesInv
<1>11. ASSUME NEW c \in Conn,
              \/ SweepCommit(c) \/ PurgeCommit(c) \/ AckCommit(c)
              \/ \E t \in Thing : ResolveNotification(c, t)
       PROVE  Inv'
  BY <1>11, RetentionInv
<1>12. ASSUME NEW c \in Conn, Abandon(c)
       PROVE  Inv'
  BY <1>12, AbandonInv
<1> QED
  BY <1>1, <1>2, <1>3, <1>4, <1>5, <1>6, <1>7, <1>8, <1>9, <1>10, <1>11, <1>12
     DEF Next, ExportStep

LEMMA Invariance == Spec => []Inv
  BY InitInv, NextInv, PTL DEF Spec

----------------------------------------------------------------------------

\* The tables and the operations in progress stay well formed whatever the connections do:
\* no status other than those of _decide_export_approval, _enforce_export_approval and
\* enforce_export_retention is ever stored.
THEOREM TypeCorrect == Spec => []TypeOK
<1>1. Inv => TypeOK
  BY DEF Inv
<1> QED
  BY <1>1, Invariance, PTL

\* Every export that names an approval rests on one that a reviewer approved for exactly
\* what is exported (_enforce_export_approval).
THEOREM ApprovedSafe == Spec => []ExportsAreApproved
<1>1. Inv => ExportsAreApproved
  BY DEF Inv
<1> QED
  BY <1>1, Invariance, PTL

\* Sensitive content leaves without an approval only when it became active after the
\* assessment or, in a profile, had been retired before it (_sensitive_export_assessment,
\* then the read of the content).
THEOREM UnforeseenSafe == Spec => []UnapprovedIsUnforeseen
<1>1. Inv => UnapprovedIsUnforeseen
  BY DEF Inv
<1> QED
  BY <1>1, Invariance, PTL

\* A used approval has a ledger entry, an export still running, or an export that was
\* given up after the use (_mark_export_approval_used, then _record_export_record).
THEOREM UsedSafe == Spec => []UsedIsAccountedFor
<1>1. Inv => UsedIsAccountedFor
  BY DEF Inv
<1> QED
  BY <1>1, Invariance, PTL

\* The three together: what left the database can be accounted for.
THEOREM AccountedSafe == Spec => []ExportsAreAccounted
<1>1. Inv => ExportsAreAccounted
  BY DEF Inv, ExportsAreAccounted
<1> QED
  BY <1>1, Invariance, PTL

----------------------------------------------------------------------------
(* Approvals and exports on which operations have not overlapped. *)

\* What the operation at step p read of t still holds.
Fresh(p, t) ==
    /\ t \in Approval /\ p = "deciding" => approval[t] = "pending"
    /\ t \in Approval /\ p = "checked" => approval[t] = "approved"
    /\ t \in Export /\ p = "sweeping" => ledger[t] = "due"
    /\ t \in Export /\ p = "purging" => ledger[t] \in {"active", "due", "expired"}
    /\ p = "acking" => t \in inbox

\* An approval is used by one export: the one that is running, or the one recorded.
Alone(a) ==
    /\ \A c \in Conn : Running(c, a) => approval[a] = "used"
    /\ \A x \in Export : export[x].approval = a => approval[a] = "used"
    /\ \A c, d \in Conn : Running(c, a) /\ Running(d, a) => c = d
    /\ \A x, y \in Export : export[x].approval = a /\ export[y].approval = a => x = y
    /\ \A c \in Conn, x \in Export : ~(Running(c, a) /\ export[x].approval = a)

\* Nobody has heard of an export without a row.
Known ==
    \A x \in Export : ledger[x] = "none" =>
        x \notin inbox /\ x \notin contended /\ \A c \in Conn : x \notin op[c].held

\* An acknowledgement is of one notification.
AckOne == \A c \in Conn : op[c].pc = "acking" => \A t, u \in op[c].held : t = u

HeldFresh == \A c \in Conn : \A t \in op[c].held : t \in contended \/ Fresh(op[c].pc, t)

UsedAlone == \A a \in Approval : a \in contended \/ Alone(a)

Isolated ==
    /\ Known
    /\ AckOne
    /\ HeldFresh
    /\ UsedAlone
    /\ InboxIsWork

LEMMA InitIsolated == Init => Isolated
  BY SentinelAssumption
     DEF Init, Isolated, Known, AckOne, HeldFresh, UsedAlone, Alone, Running, InboxIsWork, Idle,
         NoExport

\* A step that writes no status but by the clock, and starts no export that uses an
\* approval; what an operation has just read holds.
Quiet ==
    /\ approval' = approval /\ inbox' = inbox /\ contended' = contended
    /\ \A x \in Export : export'[x].approval = export[x].approval
    /\ \A x \in Export : ledger'[x] = ledger[x] \/ (ledger[x] = "active" /\ ledger'[x] = "due")
    /\ \A c \in Conn : \A a \in Approval : Running(c, a)' => Running(c, a)
    /\ \A c \in Conn :
         \/ op'[c].pc = op[c].pc /\ op'[c].held = op[c].held
         \/ /\ op'[c].pc = "acking" => \A t, u \in op'[c].held : t = u
            /\ \A t \in op'[c].held : Fresh(op'[c].pc, t) /\ (t \in Export => ledger[t] # "none")

LEMMA QuietStep ==
    ASSUME TypeOK, Isolated, Quiet
    PROVE  Isolated'
<1> USE DEF Quiet
<1>1. Known'
  BY DEF Isolated, Known
<1>2. AckOne'
  BY DEF Isolated, AckOne
<1>3. ASSUME NEW p, NEW t, Fresh(p, t)
      PROVE  Fresh(p, t)'
  BY <1>3 DEF Fresh
<1>4. HeldFresh'
  <2> SUFFICES ASSUME NEW c \in Conn, NEW t \in op'[c].held, t \notin contended'
               PROVE  Fresh(op[c].pc, t)'
    BY DEF HeldFresh
  <2>1. PICK p : p = op'[c].pc
    OBVIOUS
  <2>2. Fresh(p, t)
    BY <2>1 DEF Isolated, HeldFresh
  <2>3. Fresh(p, t)'
    BY <1>3, <2>2
  <2> QED
    BY <2>1, <2>3
<1>5. UsedAlone'
  <2> SUFFICES ASSUME NEW a \in Approval, a \notin contended
               PROVE  Alone(a)'
    BY DEF UsedAlone
  <2>1. Alone(a)
    BY DEF Isolated, UsedAlone
  <2>2. \A c \in Conn : Running(c, a)' => Running(c, a)
    OBVIOUS
  <2> QED
    BY <2>1, <2>2 DEF Alone
<1>6. InboxIsWork'
  <2> SUFFICES ASSUME NEW t \in inbox, t \notin contended
               PROVE  IF t \in Approval THEN approval'[t] = "pending" ELSE ledger'[t] = "expired"
    BY DEF InboxIsWork
  <2>1. IF t \in Approval THEN approval[t] = "pending" ELSE ledger[t] = "expired"
    BY DEF Isolated, InboxIsWork
  <2>2. t \in Approval \/ t \in Export
    BY DEF TypeOK, Thing
  <2> QED
    BY <2>1, <2>2
<1> QED
  BY <1>1, <1>2, <1>4, <1>5, <1>6 DEF Isolated

LEMMA QuietOp ==
    ASSUME TypeOK, UNCHANGED <<approval, inbox, contended, ledger, export>>,
           NEW c \in Conn, NEW new, op' = [op EXCEPT ![c] = new],
           new.pc = "acking" => \A t, u \in new.held : t = u,
           \A t \in new.held : Fresh(new.pc, t) /\ (t \in Export => ledger[t] # "none"),
           \A a \in Approval : new.pc \in {"cleared", "read"} /\ new.approval = a => Running(c, a)
    PROVE  Quiet
<1>1. op'[c] = new /\ \A d \in Conn \ {c} : op'[d] = op[d]
  BY DEF TypeOK
<1>2. \A d \in Conn : \A a \in Approval : Running(d, a)' => Running(d, a)
  BY <1>1 DEF Running
<1>3. \A d \in Conn :
        \/ op'[d].pc = op[d].pc /\ op'[d].held = op[d].held
        \/ /\ op'[d].pc = "acking" => \A t, u \in op'[d].held : t = u
           /\ \A t \in op'[d].held : Fresh(op'[d].pc, t) /\ (t \in Export => ledger[t] # "none")
  BY <1>1
<1> QED
  BY <1>2, <1>3 DEF Quiet

LEMMA QuietReads ==
    ASSUME Inv, Isolated, NEW c \in Conn,
           \/ \E a \in Approval : DecideRead(c, a)
           \/ SweepRead(c)
           \/ \E x \in Export : PurgeRead(c, x)
           \/ \E t \in Thing : AckRead(c, t)
    PROVE  Quiet
<1> USE DEF Becomes, rows, Steps, Inv
<1>1. ASSUME NEW a \in Approval, DecideRead(c, a)
      PROVE  Quiet
  <2>1. PICK new : new = Holding("deciding", {a})
    OBVIOUS
  <2>2. {a} \in SUBSET Thing
    BY DEF Thing
  <2>3. new.pc = "deciding" /\ new.held = {a}
    BY <2>1, <2>2, HoldingOp
  <2>4. Fresh("deciding", a) /\ a \notin Export
    BY <1>1, IdAssumption DEF Fresh, DecideRead
  <2>5. op' = [op EXCEPT ![c] = new] /\ UNCHANGED <<approval, inbox, contended, ledger, export>>
    BY <1>1, <2>1 DEF DecideRead
  <2> QED
    BY <2>3, <2>4, <2>5, QuietOp
<1>2. ASSUME SweepRead(c)
      PROVE  Quiet
  <2>1. PICK new : new = Holding("sweeping", InStatus({"due"}))
    OBVIOUS
  <2>2. InStatus({"due"}) \in SUBSET Thing
    BY DEF InStatus, Thing
  <2>3. new.pc = "sweeping" /\ new.held = InStatus({"due"})
    BY <2>1, <2>2, HoldingOp
  <2>4. \A t \in new.held : Fresh(new.pc, t) /\ (t \in Export => ledger[t] # "none")
    BY <2>3, IdAssumption DEF Fresh, InStatus
  <2>5. op' = [op EXCEPT ![c] = new] /\ UNCHANGED <<approval, inbox, contended, ledger, export>>
    BY <1>2, <2>1 DEF SweepRead
  <2> QED
    BY <2>3, <2>4, <2>5, QuietOp
<1>3. ASSUME NEW x \in Export, PurgeRead(c, x)
      PROVE  Quiet
  <2>1. PICK new : new = Holding("purging", {x})
    OBVIOUS
  <2>2. {x} \in SUBSET Thing
    BY DEF Thing
  <2>3. new.pc = "purging" /\ new.held = {x}
    BY <2>1, <2>2, HoldingOp
  <2>4. \A t \in new.held : Fresh(new.pc, t) /\ (t \in Export => ledger[t] # "none")
    BY <1>3, <2>3, IdAssumption DEF Fresh, PurgeRead
  <2>5. op' = [op EXCEPT ![c] = new] /\ UNCHANGED <<approval, inbox, contended, ledger, export>>
    BY <1>3, <2>1 DEF PurgeRead
  <2> QED
    BY <2>3, <2>4, <2>5, QuietOp
<1>4. ASSUME NEW t \in Thing, AckRead(c, t)
      PROVE  Quiet
  <2>1. PICK new : new = Holding("acking", {t})
    OBVIOUS
  <2>2. {t} \in SUBSET Thing
    OBVIOUS
  <2>3. new.pc = "acking" /\ new.held = {t}
    BY <2>1, <2>2, HoldingOp
  <2>4. t \in inbox /\ (t \in Export => ledger[t] # "none")
    BY <1>4 DEF AckRead, Isolated, Known
  <2>5. Fresh("acking", t)
    BY <2>4 DEF Fresh
  <2>6. op' = [op EXCEPT ![c] = new] /\ UNCHANGED <<approval, inbox, contended, ledger, export>>
    BY <1>4, <2>1 DEF AckRead
  <2> QED
    BY <2>3, <2>4, <2>5, <2>6, QuietOp
<1> QED
  BY <1>1, <1>2, <1>3, <1>4

LEMMA QuietExports ==
    ASSUME Inv, Isolated, NEW c \in Conn,
           \/ \E s \in Shape : RequestRead(c, s)
           \/ \E s \in Shape, a \in Approval \cup {None} : Assess(c, s, a)
           \/ CheckApproval(c)
           \/ ReadProfile(c)
           \/ Abandon(c)
    PROVE  Quiet
<1> USE DEF Becomes, rows, Inv
<1>0. /\ op[c] \in OpType /\ Backed(op[c]) /\ Covers \in [Shape -> SUBSET Memory]
      /\ UNCHANGED <<approval, inbox, contended, ledger, export>>
  BY ShapeAssumption
     DEF TypeOK, OpType, OpsBacked, RequestRead, Assess, CheckApproval, ReadProfile, Abandon
<1>1. ASSUME NEW new, op' = [op EXCEPT ![c] = new], new.held = {},
             new.pc \notin {"cleared", "read"} \/ new.approval = None
      PROVE  Quiet
  <2>1. \A a \in Approval : new.pc \in {"cleared", "read"} /\ new.approval = a => Running(c, a)
    BY <1>1, SentinelAssumption
  <2> QED
    BY <1>0, <1>1, <2>1, QuietOp
<1>2. ASSUME NEW s \in Shape, RequestRead(c, s)
      PROVE  Quiet
  <2>1. PICK new : new = [Idle EXCEPT !.pc = "requesting", !.shape = s, !.content = Sensitive(s)]
    OBVIOUS
  <2>2. new.pc = "requesting" /\ new.held = {}
    BY <2>1 DEF Idle
  <2>3. op' = [op EXCEPT ![c] = new]
    BY <1>2, <2>1 DEF RequestRead
  <2> QED
    BY <1>1, <2>2, <2>3
<1>3. ASSUME NEW s \in Shape, NEW a \in Approval \cup {None}, Assess(c, s, a)
      PROVE  Quiet
  <2>1. PICK new : new = IF Sensitive(s) = {}
                         THEN [Idle EXCEPT !.pc = "cleared", !.shape = s, !.gone = Gone(s)]
                         ELSE [Idle EXCEPT !.pc = "assessed", !.shape = s, !.gone = Gone(s),
                                           !.approval = a]
    OBVIOUS
  <2>2. new.held = {} /\ (new.pc = "assessed" \/ new.approval = None)
    BY <2>1 DEF Idle
  <2>3. op' = [op EXCEPT ![c] = new]
    BY <1>3, <2>1 DEF Assess
  <2> QED
    BY <1>1, <2>2, <2>3
<1>4. ASSUME CheckApproval(c)
      PROVE  Quiet
  <2>1. PICK new : new = [op[c] EXCEPT !.pc = "checked", !.held = {op[c].approval}]
    OBVIOUS
  <2>2. new.pc = "checked" /\ new.held = {op[c].approval}
    BY <1>0, <2>1 DEF OpType
  <2>3. op[c].approval \in Approval /\ approval[op[c].approval] = "approved"
    BY <1>0, <1>4 DEF CheckApproval, Backed
  <2>4. \A t \in new.held : Fresh(new.pc, t) /\ (t \in Export => ledger[t] # "none")
    BY <2>2, <2>3, IdAssumption DEF Fresh
  <2>5. op' = [op EXCEPT ![c] = new]
    BY <1>4, <2>1 DEF CheckApproval
  <2> QED
    BY <1>0, <2>2, <2>4, <2>5, QuietOp
<1>5. ASSUME ReadProfile(c)
      PROVE  Quiet
  <2>1. PICK new : new = [op[c] EXCEPT !.pc = "read", !.content = Contents(op[c].shape)]
    OBVIOUS
  <2>2. new.pc = "read" /\ new.held = op[c].held /\ new.approval = op[c].approval
    BY <1>0, <2>1 DEF OpType
  <2>3. op[c].pc = "cleared"
    BY <1>5 DEF ReadProfile
  <2>4. \A t \in new.held : Fresh(new.pc, t) /\ (t \in Export => ledger[t] # "none")
    BY <2>2 DEF Fresh, Isolated, Known
  <2>5. \A a \in Approval : new.pc \in {"cleared", "read"} /\ new.approval = a => Running(c, a)
    BY <2>2, <2>3 DEF Running
  <2>6. op' = [op EXCEPT ![c] = new]
    BY <1>5, <2>1 DEF ReadProfile
  <2> QED
    BY <1>0, <2>2, <2>4, <2>5, <2>6, QuietOp
<1>6. ASSUME Abandon(c)
      PROVE  Quiet
  <2>1. op' = [op EXCEPT ![c] = Idle] /\ Idle.held = {} /\ Idle.approval = None
    BY <1>6 DEF Abandon, Idle
  <2> QED
    BY <1>1, <2>1
<1> QED
  BY <1>2, <1>3, <1>4, <1>5, <1>6

\* Steps that move no operation, or end one that has written its files.
LEMMA QuietRest ==
    ASSUME Inv,
           \/ \E m \in Memory : Learn(m) \/ Retire(m)
           \/ \E x \in Export : Lapse(x)
           \/ \E c \in Conn : WriteFiles(c)
           \/ UNCHANGED vars
    PROVE  Quiet
<1> USE DEF Inv
<1>0. op \in [Conn -> OpType] /\ ledger \in [Export -> LedgerStatus]
  BY DEF TypeOK, OpType
<1>1. ASSUME NEW m \in Memory, Learn(m)
      PROVE  Quiet
  <2>1. UNCHANGED <<approval, ledger, export, inbox, contended>>
    BY <1>1 DEF Learn, rows
  <2>2. \A c \in Conn : /\ op'[c].pc = op[c].pc /\ op'[c].held = op[c].held
                        /\ op'[c].approval = op[c].approval
    <3> SUFFICES ASSUME NEW c \in Conn
                 PROVE  /\ op'[c].pc = op[c].pc /\ op'[c].held = op[c].held
                        /\ op'[c].approval = op[c].approval
      OBVIOUS
    <3>1. \/ op'[c] = op[c]
          \/ op'[c] = [op[c] EXCEPT !.late = op[c].late \cup {m}]
      BY <1>1 DEF Learn
    <3>2. op[c] \in OpType
      BY <1>0
    <3> HIDE DEF Inv
    <3> QED
      BY <3>1, <3>2 DEF OpType
  <2> QED
    BY <2>1, <2>2 DEF Quiet, Running
<1>2. ASSUME NEW m \in Memory, Retire(m)
      PROVE  Quiet
  BY <1>2 DEF Retire, rows, Quiet, Running
<1>3. ASSUME NEW x \in Export, Lapse(x)
      PROVE  Quiet
  BY <1>0, <1>3 DEF Lapse, Quiet, Running
<1>4. ASSUME NEW c \in Conn, WriteFiles(c)
      PROVE  Quiet
  <2>1. /\ UNCHANGED <<approval, ledger, inbox, contended>>
        /\ op' = [op EXCEPT ![c] = Idle]
    BY <1>4 DEF WriteFiles, Becomes
  <2>2. Idle.pc = "idle" /\ Idle.held = {}
    BY DEF Idle
  <2>3. \A y \in Export : export'[y].approval = export[y].approval
    <3>1. export' = [export EXCEPT ![op[c].export] =
                       [@ EXCEPT !.content = Contents(op[c].shape), !.gone = op[c].gone,
                                !.late = op[c].late]]
      BY <1>4 DEF WriteFiles
    <3>2. export \in [Export -> [approval : Approval \cup {None}, content : SUBSET Memory,
                                 gone : SUBSET Memory, late : SUBSET Memory]]
      BY DEF TypeOK
    <3>3. op[c].export \in Export
      BY <1>4 DEF WriteFiles, OpsBacked, Backed
    <3>4. PICK row : row = [export[op[c].export] EXCEPT !.content = Contents(op[c].shape),
                                                        !.gone = op[c].gone, !.late = op[c].late]
      OBVIOUS
    <3>5. row.approval = export[op[c].export].approval
      BY <3>2, <3>3, <3>4
    <3>6. export' = [export EXCEPT ![op[c].export] = row]
      BY <3>1, <3>4
    <3> QED
      BY <3>2, <3>3, <3>5, <3>6
  <2>4. \A d \in Conn : op'[d] = op[d] \/ op'[d] = Idle
    BY <1>0, <2>1
  <2>5. \A d \in Conn : \A a \in Approval : Running(d, a)' => Running(d, a)
    BY <2>2, <2>4 DEF Running
  <2> QED
    BY <2>1, <2>2, <2>3, <2>4, <2>5 DEF Quiet
<1>5. ASSUME UNCHANGED vars
      PROVE  Quiet
  BY <1>5 DEF vars, rows, Quiet, Running
<1> QED
  BY <1>1, <1>2, <1>3, <1>4, <1>5

\* A commit that overlaps no other operation on what it writes.
LEMMA CommitAlone ==
    ASSUME TypeOK, Isolated, NEW c \in Conn, NEW T \in SUBSET Thing, CommitsOn(c, T),
           \A d \in Conn \ {c} : op'[d] = op[d],
           op'[c].held = {},
           \A t \in T : t \in Export => ledger[t] # "none",
           \A a \in Approval \ T : approval'[a] = approval[a],
           \A x \in Export \ T : ledger'[x] = ledger[x],
           \A t \in Thing \ T : t \in inbox' <=> t \in inbox,
           \A x \in Export : ledger'[x] = "none" <=> ledger[x] = "none",
           inbox' \subseteq Thing,
           \A t \in T \ contended' : t \in inbox' =>
             IF t \in Approval THEN approval'[t] = "pending" ELSE ledger'[t] = "expired",
           UsedAlone'
    PROVE  Isolated'
<1>1. /\ contended' = contended \cup {t \in T : \E d \in Conn \ {c} : t \in op[d].held}
      /\ \A d \in Conn : op[d].held \subseteq Thing
  BY DEF CommitsOn, TypeOK
<1>2. Known'
  <2> SUFFICES ASSUME NEW x \in Export, ledger'[x] = "none"
               PROVE  x \notin inbox' /\ x \notin contended' /\ \A d \in Conn : x \notin op'[d].held
    BY DEF Known
  <2>1. ledger[x] = "none" /\ x \notin T /\ x \in Thing
    BY DEF Thing
  <2>2. x \notin inbox /\ x \notin contended /\ \A d \in Conn : x \notin op[d].held
    BY <2>1 DEF Isolated, Known
  <2> QED
    BY <1>1, <2>1, <2>2
<1>3. AckOne'
  BY DEF Isolated, AckOne
<1>4. HeldFresh'
  <2> SUFFICES ASSUME NEW d \in Conn \ {c}, NEW t \in op[d].held, t \notin contended'
               PROVE  Fresh(op[d].pc, t)'
    BY DEF HeldFresh
  <2>1. t \notin T /\ t \notin contended /\ t \in Thing
    BY <1>1
  <2>2. PICK p : p = op[d].pc
    OBVIOUS
  <2>3. Fresh(p, t)
    BY <2>1, <2>2 DEF Isolated, HeldFresh
  <2>4. Fresh(p, t)'
    BY <2>1, <2>3 DEF Fresh
  <2>5. p = op'[d].pc
    BY <2>2
  <2> QED
    BY <2>4, <2>5
<1>5. InboxIsWork'
  <2> SUFFICES ASSUME NEW t \in inbox', t \notin contended'
               PROVE  IF t \in Approval THEN approval'[t] = "pending" ELSE ledger'[t] = "expired"
    BY DEF InboxIsWork
  <2>1. CASE t \in T
    BY <2>1
  <2>2. CASE t \notin T
    <3>1. t \in Thing /\ t \in inbox /\ t \notin contended
      BY <1>1, <2>2
    <3>2. IF t \in Approval THEN approval[t] = "pending" ELSE ledger[t] = "expired"
      BY <3>1 DEF Isolated, InboxIsWork
    <3>3. t \in Approval \/ t \in Export
      BY <3>1 DEF Thing
    <3> QED
      BY <2>2, <3>2, <3>3
  <2> QED
    BY <2>1, <2>2
<1> QED
  BY <1>2, <1>3, <1>4, <1>5 DEF Isolated

\* An approval whose use and exports a step does not touch.
LEMMA AloneKept ==
    ASSUME NEW a \in Approval, Alone(a), approval[a] = "used" => approval'[a] = "used",
           \A x \in Export : export'[x].approval = export[x].approval,
           \A c \in Conn : Running(c, a)' => Running(c, a)
    PROVE  Alone(a)'
  BY DEF Alone

\* The transactions that use no approval and record no export.
LEMMA IdleAfter ==
    ASSUME TypeOK, NEW c \in Conn, op' = [op EXCEPT ![c] = Idle]
    PROVE  /\ \A d \in Conn \ {c} : op'[d] = op[d]
           /\ op'[c].held = {} /\ op'[c].pc = "idle"
           /\ \A d \in Conn : \A a \in Approval : Running(d, a)' => Running(d, a)
<1>1. \A d \in Conn \ {c} : op'[d] = op[d]
  BY DEF TypeOK
<1>2. op'[c].held = {} /\ op'[c].pc = "idle"
  BY DEF TypeOK, Idle
<1>3. \A d \in Conn : \A a \in Approval : Running(d, a)' => Running(d, a)
  BY <1>1, <1>2 DEF Running
<1> QED
  BY <1>1, <1>2, <1>3

LEMMA RetentionIsolated ==
    ASSUME Inv, Isolated, NEW c \in Conn,
           \/ SweepCommit(c) \/ PurgeCommit(c) \/ AckCommit(c)
           \/ \E t \in Thing : ResolveNotification(c, t)
    PROVE  Isolated'
<1> USE DEF Inv, Becomes
<1>1. /\ op[c].held \in SUBSET Thing /\ inbox \subseteq Thing
      /\ \A t \in op[c].held : t \in Export => ledger[t] # "none"
      /\ op[c].pc \in {"sweeping", "purging"} => op[c].held \subseteq Export
      /\ \A t \in Thing : t \notin Approval => t \in Export
  BY DEF TypeOK, OpsBacked, Backed, Isolated, Known, Thing
<1>2. /\ \A t \in op[c].held : t \in contended \/ Fresh(op[c].pc, t)
      /\ \A t \in inbox : t \in contended
           \/ IF t \in Approval THEN approval[t] = "pending" ELSE ledger[t] = "expired"
  BY DEF Isolated, HeldFresh, InboxIsWork
<1>3. ASSUME contended \subseteq contended', UNCHANGED <<approval, export>>,
             \A d \in Conn : \A a \in Approval : Running(d, a)' => Running(d, a)
      PROVE  UsedAlone'
  <2> SUFFICES ASSUME NEW a \in Approval, a \notin contended'
               PROVE  Alone(a)'
    BY DEF UsedAlone
  <2>1. Alone(a)
    BY <1>3 DEF Isolated, UsedAlone
  <2> QED
    BY <1>3, <2>1, AloneKept
<1>4. ASSUME SweepCommit(c)
      PROVE  Isolated'
  <2>1. /\ CommitsOn(c, op[c].held) /\ op[c].held \subseteq Export /\ op[c].pc = "sweeping"
        /\ ledger' = [x \in Export |-> IF x \in op[c].held THEN "expired" ELSE ledger[x]]
        /\ inbox' = inbox \cup op[c].held /\ op' = [op EXCEPT ![c] = Idle]
        /\ UNCHANGED <<approval, export>>
    BY <1>1, <1>4 DEF SweepCommit
  <2>2. /\ \A d \in Conn \ {c} : op'[d] = op[d]
        /\ op'[c].held = {}
        /\ \A d \in Conn : \A a \in Approval : Running(d, a)' => Running(d, a)
    BY <2>1, IdleAfter
  <2>3. UsedAlone'
    BY <1>3, <2>1, <2>2 DEF CommitsOn
  <2>4. \A t \in op[c].held \ contended' : t \in inbox' =>
          IF t \in Approval THEN approval'[t] = "pending" ELSE ledger'[t] = "expired"
    BY <2>1, IdAssumption
  <2>5. \A x \in Export : ledger'[x] = "none" <=> ledger[x] = "none"
    BY <1>1, <2>1
  <2>6. /\ \A a \in Approval \ op[c].held : approval'[a] = approval[a]
        /\ \A x \in Export \ op[c].held : ledger'[x] = ledger[x]
        /\ \A t \in Thing \ op[c].held : t \in inbox' <=> t \in inbox
        /\ inbox' \subseteq Thing
    BY <1>1, <2>1
  <2> QED
    BY <1>1, <2>1, <2>2, <2>3, <2>4, <2>5, <2>6, CommitAlone
<1>5. ASSUME PurgeCommit(c)
      PROVE  Isolated'
  <2>1. /\ CommitsOn(c, op[c].held)
        /\ ledger' = [x \in Export |-> IF x \in op[c].held THEN "purged" ELSE ledger[x]]
        /\ inbox' = inbox \ op[c].held /\ op' = [op EXCEPT ![c] = Idle]
        /\ UNCHANGED <<approval, export>>
    BY <1>5 DEF PurgeCommit
  <2>2. /\ \A d \in Conn \ {c} : op'[d] = op[d]
        /\ op'[c].held = {}
        /\ \A d \in Conn : \A a \in Approval : Running(d, a)' => Running(d, a)
    BY <2>1, IdleAfter
  <2>3. UsedAlone'
    BY <1>3, <2>1, <2>2 DEF CommitsOn
  <2>4. \A t \in op[c].held \ contended' : t \in inbox' =>
          IF t \in Approval THEN approval'[t] = "pending" ELSE ledger'[t] = "expired"
    BY <2>1
  <2>5. \A x \in Export : ledger'[x] = "none" <=> ledger[x] = "none"
    BY <1>1, <2>1
  <2>6. /\ \A a \in Approval \ op[c].held : approval'[a] = approval[a]
        /\ \A x \in Export \ op[c].held : ledger'[x] = ledger[x]
        /\ \A t \in Thing \ op[c].held : t \in inbox' <=> t \in inbox
        /\ inbox' \subseteq Thing
    BY <1>1, <2>1
  <2> QED
    BY <1>1, <2>1, <2>2, <2>3, <2>4, <2>5, <2>6, CommitAlone
<1>6. ASSUME AckCommit(c)
      PROVE  Isolated'
  <2>1. /\ CommitsOn(c, op[c].held) /\ op[c].pc = "acking"
        /\ inbox' = inbox \cup op[c].held /\ op' = [op EXCEPT ![c] = Idle]
        /\ UNCHANGED <<approval, ledger, export>>
    BY <1>6 DEF AckCommit
  <2>2. /\ \A d \in Conn \ {c} : op'[d] = op[d]
        /\ op'[c].held = {}
        /\ \A d \in Conn : \A a \in Approval : Running(d, a)' => Running(d, a)
    BY <2>1, IdleAfter
  <2>3. UsedAlone'
    BY <1>3, <2>1, <2>2 DEF CommitsOn
  <2>4. \A t \in op[c].held \ contended' : t \in inbox' =>
          IF t \in Approval THEN approval'[t] = "pending" ELSE ledger'[t] = "expired"
    <3> SUFFICES ASSUME NEW t \in op[c].held, t \notin contended'
                 PROVE  IF t \in Approval THEN approval[t] = "pending" ELSE ledger[t] = "expired"
      BY <2>1
    <3>1. t \notin contended
      BY <2>1 DEF CommitsOn
    <3>2. t \in inbox
      BY <1>2, <2>1, <3>1 DEF Fresh
    <3> QED
      BY <1>2, <3>1, <3>2
  <2>5. \A x \in Export : ledger'[x] = "none" <=> ledger[x] = "none"
    BY <2>1
  <2>6. /\ \A a \in Approval \ op[c].held : approval'[a] = approval[a]
        /\ \A x \in Export \ op[c].held : ledger'[x] = ledger[x]
        /\ \A t \in Thing \ op[c].held : t \in inbox' <=> t \in inbox
        /\ inbox' \subseteq Thing
    BY <1>1, <2>1
  <2> QED
    BY <1>1, <2>1, <2>2, <2>3, <2>4, <2>5, <2>6, CommitAlone
<1>7. ASSUME NEW u \in Thing, ResolveNotification(c, u)
      PROVE  Isolated'
  <2>1. /\ CommitsOn(c, {u}) /\ op[c] = Idle /\ op' = op /\ u \in inbox
        /\ inbox' = inbox \ {u} /\ UNCHANGED <<approval, ledger, export>>
    BY <1>7 DEF ResolveNotification
  <2>2. /\ \A d \in Conn \ {c} : op'[d] = op[d]
        /\ op'[c].held = {}
        /\ \A d \in Conn : \A a \in Approval : Running(d, a)' => Running(d, a)
    BY <2>1 DEF Idle, Running
  <2>3. UsedAlone'
    BY <1>3, <2>1, <2>2 DEF CommitsOn
  <2>4. \A t \in {u} \ contended' : t \in inbox' =>
          IF t \in Approval THEN approval'[t] = "pending" ELSE ledger'[t] = "expired"
    BY <2>1
  <2>5. \A x \in Export : ledger'[x] = "none" <=> ledger[x] = "none"
    BY <2>1
  <2>6. /\ \A a \in Approval \ {u} : approval'[a] = approval[a]
        /\ \A x \in Export \ {u} : ledger'[x] = ledger[x]
        /\ \A t \in Thing \ {u} : t \in inbox' <=> t \in inbox
        /\ inbox' \subseteq Thing
    BY <1>1, <2>1
  <2>7. {u} \in SUBSET Thing /\ \A t \in {u} : t \in Export => ledger[t] # "none"
    BY <2>1 DEF Isolated, Known
  <2> QED
    BY <2>1, <2>2, <2>3, <2>4, <2>5, <2>6, <2>7, CommitAlone
<1> QED
  BY <1>4, <1>5, <1>6, <1>7

LEMMA DecideIsolated ==
    ASSUME Inv, Isolated, NEW c \in Conn, NEW verdict \in {"approved", "rejected"},
           DecideCommit(c, verdict)
    PROVE  Isolated'
<1> USE DEF Inv, Becomes
<1>1. PICK a : /\ a \in op[c].held /\ op[c].pc = "deciding"
               /\ approval' = [approval EXCEPT ![a] = verdict]
               /\ inbox' = inbox \ {a} /\ CommitsOn(c, {a})
               /\ op' = [op EXCEPT ![c] = Idle] /\ UNCHANGED <<ledger, export>>
  BY DEF DecideCommit
<1>2. a \in Approval /\ a \notin Export /\ a \in Thing /\ inbox \subseteq Thing
  BY <1>1, IdAssumption DEF OpsBacked, Backed, Thing, TypeOK
<1>3. /\ \A d \in Conn \ {c} : op'[d] = op[d]
      /\ op'[c].held = {}
      /\ \A d \in Conn : \A b \in Approval : Running(d, b)' => Running(d, b)
  BY <1>1, IdleAfter
<1>4. a \in contended \/ approval[a] = "pending"
  BY <1>1, <1>2 DEF Isolated, HeldFresh, Fresh
<1>5. UsedAlone'
  <2> SUFFICES ASSUME NEW b \in Approval, b \notin contended'
               PROVE  Alone(b)'
    BY DEF UsedAlone
  <2>1. b \notin contended
    BY <1>1 DEF CommitsOn
  <2>2. Alone(b)
    BY <2>1 DEF Isolated, UsedAlone
  <2>3. approval[b] = "used" => approval'[b] = "used"
    BY <1>1, <1>4, <2>1 DEF TypeOK
  <2>4. \A x \in Export : export'[x].approval = export[x].approval
    BY <1>1
  <2>5. \A d \in Conn : Running(d, b)' => Running(d, b)
    BY <1>3
  <2> QED
    BY <2>2, <2>3, <2>4, <2>5, AloneKept
<1>6. /\ {a} \in SUBSET Thing
      /\ \A t \in {a} : t \in Export => ledger[t] # "none"
      /\ \A b \in Approval \ {a} : approval'[b] = approval[b]
      /\ \A x \in Export \ {a} : ledger'[x] = ledger[x]
      /\ \A t \in Thing \ {a} : t \in inbox' <=> t \in inbox
      /\ \A x \in Export : ledger'[x] = "none" <=> ledger[x] = "none"
      /\ inbox' \subseteq Thing
      /\ \A t \in {a} \ contended' : t \in inbox' =>
           IF t \in Approval THEN approval'[t] = "pending" ELSE ledger'[t] = "expired"
  BY <1>1, <1>2 DEF TypeOK
<1> QED
  BY <1>1, <1>3, <1>5, <1>6, CommitAlone

LEMMA UseIsolated ==
    ASSUME Inv, Isolated, NEW c \in Conn, UseApproval(c)
    PROVE  Isolated'
<1> USE DEF Inv, Becomes
<1>1. PICK a : a = op[c].approval
  OBVIOUS
<1>2. /\ op[c] \in OpType /\ op[c].pc = "checked" /\ a \in Approval /\ op[c].held = {a}
      /\ op \in [Conn -> OpType]
  BY <1>1 DEF TypeOK, OpType, OpsBacked, Backed, UseApproval
<1>3. /\ approval' = [approval EXCEPT ![a] = "used"] /\ CommitsOn(c, {a})
      /\ op' = [op EXCEPT ![c] = [op[c] EXCEPT !.pc = "cleared", !.held = {}]]
      /\ UNCHANGED <<ledger, export, inbox>>
  BY <1>1, <1>2 DEF UseApproval
<1>4. a \notin Export /\ a \in Thing /\ inbox \subseteq Thing
  BY <1>2, IdAssumption DEF Thing, TypeOK
<1>5. a \in contended \/ approval[a] = "approved"
  BY <1>2 DEF Isolated, HeldFresh, Fresh
<1>6. /\ \A d \in Conn \ {c} : op'[d] = op[d]
      /\ op'[c].held = {} /\ op'[c].pc = "cleared" /\ op'[c].approval = a
  <2>1. PICK new : new = [op[c] EXCEPT !.pc = "cleared", !.held = {}]
    OBVIOUS
  <2>2. new.held = {} /\ new.pc = "cleared" /\ new.approval = a
    BY <1>1, <1>2, <2>1 DEF OpType
  <2>3. op' = [op EXCEPT ![c] = new]
    BY <1>3, <2>1
  <2> QED
    BY <1>2, <2>2, <2>3
<1>7. contended \subseteq contended'
  BY <1>3 DEF CommitsOn
<1>8. \A b \in Approval \ {a} : approval'[b] = approval[b]
  BY <1>3 DEF TypeOK
<1>9. UsedAlone'
  <2> SUFFICES ASSUME NEW b \in Approval, b \notin contended'
               PROVE  Alone(b)'
    BY DEF UsedAlone
  <2>1. Alone(b)
    BY <1>7 DEF Isolated, UsedAlone
  <2>2. CASE b = a
    <3>1. approval'[a] = "used"
      BY <1>2, <1>3 DEF TypeOK
    <3>2. approval[a] = "approved"
      BY <1>5, <1>7, <2>2
    <3>3. /\ \A d \in Conn : ~Running(d, a)
          /\ \A x \in Export : export'[x].approval # a
      BY <1>3, <2>1, <2>2, <3>2 DEF Alone
    <3>4. \A d \in Conn : Running(d, a)' => d = c
      BY <1>6, <3>3 DEF Running
    <3> QED
      BY <2>2, <3>1, <3>3, <3>4 DEF Alone
  <2>3. CASE b # a
    <3>1. \A d \in Conn : Running(d, b)' => Running(d, b)
      BY <1>6, <2>3 DEF Running
    <3>2. approval[b] = "used" => approval'[b] = "used"
      BY <1>8, <2>3
    <3>3. \A x \in Export : export'[x].approval = export[x].approval
      BY <1>3
    <3> QED
      BY <2>1, <3>1, <3>2, <3>3, AloneKept
  <2> QED
    BY <2>2, <2>3
<1>10. \A t \in {a} \ contended' : t \in inbox' =>
         IF t \in Approval THEN approval'[t] = "pending" ELSE ledger'[t] = "expired"
  <2>1. a \in inbox /\ a \notin contended => approval[a] = "pending"
    BY <1>2 DEF Isolated, InboxIsWork
  <2> QED
    BY <1>3, <1>5, <1>7, <2>1
<1>11. /\ {a} \in SUBSET Thing
       /\ \A t \in {a} : t \in Export => ledger[t] # "none"
       /\ \A x \in Export \ {a} : ledger'[x] = ledger[x]
       /\ \A t \in Thing \ {a} : t \in inbox' <=> t \in inbox
       /\ \A x \in Export : ledger'[x] = "none" <=> ledger[x] = "none"
       /\ inbox' \subseteq Thing
  BY <1>3, <1>4
<1> QED
  BY <1>3, <1>6, <1>8, <1>9, <1>10, <1>11, CommitAlone

LEMMA RequestIsolated ==
    ASSUME Inv, Isolated, NEW c \in Conn, NEW a \in Approval, RequestCommit(c, a)
    PROVE  Isolated'
<1> USE DEF Inv, Becomes
<1>1. /\ approval[a] = "none" /\ approval'[a] \in {"pending", "not_required"}
      /\ \A b \in Approval \ {a} : approval'[b] = approval[b]
      /\ inbox' = inbox \/ (inbox' = inbox \cup {a} /\ approval'[a] = "pending")
      /\ op' = [op EXCEPT ![c] = Idle] /\ UNCHANGED <<ledger, export, contended>>
      /\ a \notin Export
  BY IdAssumption DEF RequestCommit, TypeOK
<1>2. /\ \A d \in Conn \ {c} : op'[d] = op[d]
      /\ op'[c].held = {} /\ op'[c].pc = "idle"
      /\ \A d \in Conn : \A b \in Approval : Running(d, b)' => Running(d, b)
  BY <1>1, IdleAfter
<1>3. Known'
  BY <1>1, <1>2 DEF Isolated, Known
<1>4. AckOne'
  BY <1>2 DEF Isolated, AckOne
<1>5. HeldFresh'
  <2> SUFFICES ASSUME NEW d \in Conn \ {c}, NEW t \in op[d].held, t \notin contended
               PROVE  Fresh(op[d].pc, t)'
    BY <1>1, <1>2 DEF HeldFresh
  <2>1. PICK p : p = op[d].pc
    OBVIOUS
  <2>2. Fresh(p, t)
    BY <2>1 DEF Isolated, HeldFresh
  <2>3. Fresh(p, t)'
    BY <1>1, <2>2 DEF Fresh
  <2>4. p = op'[d].pc
    BY <1>2, <2>1
  <2> QED
    BY <2>3, <2>4
<1>6. UsedAlone'
  <2> SUFFICES ASSUME NEW b \in Approval, b \notin contended
               PROVE  Alone(b)'
    BY <1>1 DEF UsedAlone
  <2>1. Alone(b)
    BY DEF Isolated, UsedAlone
  <2>2. approval[b] = "used" => approval'[b] = "used"
    BY <1>1
  <2>3. \A x \in Export : export'[x].approval = export[x].approval
    BY <1>1
  <2> QED
    BY <1>2, <2>1, <2>2, <2>3, AloneKept
<1>7. InboxIsWork'
  <2> SUFFICES ASSUME NEW t \in inbox', t \notin contended
               PROVE  IF t \in Approval THEN approval'[t] = "pending" ELSE ledger'[t] = "expired"
    BY <1>1 DEF InboxIsWork
  <2>1. t \in inbox => IF t \in Approval THEN approval[t] = "pending" ELSE ledger[t] = "expired"
    BY DEF Isolated, InboxIsWork
  <2>2. t = a => approval'[t] = "pending"
    BY <1>1, <2>1
  <2> QED
    BY <1>1, <2>1, <2>2
<1> QED
  BY <1>3, <1>4, <1>5, <1>6, <1>7 DEF Isolated

LEMMA RecordIsolated ==
    ASSUME Inv, Isolated, NEW c \in Conn, NEW x \in Export, ReturnProfile(c, x) \/ RecordFiles(c, x)
    PROVE  Isolated'
<1> USE DEF Inv, Becomes
<1>1. /\ op[c].pc \in {"cleared", "read"} /\ Record(c, x) /\ op \in [Conn -> OpType]
      /\ ledger[x] = "none" /\ export[x].approval = None
      /\ UNCHANGED <<approval, inbox, contended>>
  BY DEF TypeOK, OpType, RowsExist, ReturnProfile, RecordFiles, Record
<1>2. /\ export'[x].approval = op[c].approval /\ ledger'[x] = "active"
      /\ \A y \in Export \ {x} : export'[y] = export[y] /\ ledger'[y] = ledger[y]
  <2>1. /\ op[c].pc \in Exporting
        /\ op[c].approval = None => op[c].content \subseteq op[c].gone \cup op[c].late
    BY <1>1 DEF Exporting, OpsBacked, Backed
  <2> QED
    BY <1>1, <2>1, RecordEffect
<1>3. /\ \A d \in Conn \ {c} : op'[d] = op[d]
      /\ op'[c].pc \in {"idle", "recorded"} /\ op'[c].held \subseteq op[c].held
  <2>1. PICK new : new = IF op[c].pc = "read" THEN Idle
                         ELSE [op[c] EXCEPT !.pc = "recorded", !.export = x]
    OBVIOUS
  <2>2. op' = [op EXCEPT ![c] = new]
    BY <2>1 DEF ReturnProfile, RecordFiles
  <2>3. new.pc \in {"idle", "recorded"} /\ new.held \subseteq op[c].held
    BY <1>1, <2>1 DEF Idle, OpType
  <2> QED
    BY <1>1, <2>2, <2>3
<1>4. x \notin inbox /\ x \notin contended /\ \A d \in Conn : x \notin op[d].held
  BY <1>1 DEF Isolated, Known
<1>5. Known'
  <2> SUFFICES ASSUME NEW y \in Export, ledger'[y] = "none"
               PROVE  y \notin inbox /\ y \notin contended /\ \A d \in Conn : y \notin op'[d].held
    BY <1>1 DEF Known
  <2>1. ledger[y] = "none"
    BY <1>2
  <2>2. y \notin inbox /\ y \notin contended /\ \A d \in Conn : y \notin op[d].held
    BY <2>1 DEF Isolated, Known
  <2> QED
    BY <1>3, <2>2
<1>6. AckOne'
  BY <1>3 DEF Isolated, AckOne
<1>7. HeldFresh'
  <2> SUFFICES ASSUME NEW d \in Conn, NEW t \in op'[d].held, t \notin contended
               PROVE  Fresh(op[d].pc, t)'
    BY <1>1 DEF HeldFresh
  <2>1. CASE d = c
    BY <1>3, <2>1 DEF Fresh
  <2>2. CASE d # c
    <3>1. PICK p : p = op[d].pc
      OBVIOUS
    <3>2. Fresh(p, t) /\ t # x
      BY <1>3, <1>4, <2>2, <3>1 DEF Isolated, HeldFresh
    <3>3. Fresh(p, t)'
      BY <1>1, <1>2, <3>2 DEF Fresh
    <3>4. p = op'[d].pc
      BY <1>3, <2>2, <3>1
    <3> QED
      BY <3>3, <3>4
  <2> QED
    BY <2>1, <2>2
<1>8. UsedAlone'
  <2> SUFFICES ASSUME NEW a \in Approval, a \notin contended
               PROVE  Alone(a)'
    BY <1>1 DEF UsedAlone
  <2>1. Alone(a)
    BY DEF Isolated, UsedAlone
  <2>2. \A d \in Conn : Running(d, a)' => Running(d, a) /\ d # c
    BY <1>3 DEF Running
  <2>3. CASE op[c].approval = a
    <3>1. Running(c, a)
      BY <1>1, <2>3 DEF Running
    <3>2. approval'[a] = "used"
      BY <1>1, <2>1, <3>1 DEF Alone
    <3>3. \A d \in Conn : ~Running(d, a)'
      BY <2>1, <2>2, <3>1 DEF Alone
    <3>4. \A y \in Export : export'[y].approval = a => y = x
      BY <1>2, <2>1, <3>1 DEF Alone
    <3> QED
      BY <3>2, <3>3, <3>4 DEF Alone
  <2>4. CASE op[c].approval # a
    <3>1. \A y \in Export : export'[y].approval = a => export[y].approval = a
      BY <1>2, <2>4
    <3> QED
      BY <1>1, <2>1, <2>2, <3>1 DEF Alone
  <2> QED
    BY <2>3, <2>4
<1>9. InboxIsWork'
  <2> SUFFICES ASSUME NEW t \in inbox, t \notin contended
               PROVE  IF t \in Approval THEN approval[t] = "pending" ELSE ledger'[t] = "expired"
    BY <1>1 DEF InboxIsWork
  <2>1. IF t \in Approval THEN approval[t] = "pending" ELSE ledger[t] = "expired"
    BY DEF Isolated, InboxIsWork
  <2>2. t # x /\ (t \in Approval \/ t \in Export)
    BY <1>4 DEF TypeOK, Thing
  <2> QED
    BY <1>2, <2>1, <2>2
<1> QED
  BY <1>5, <1>6, <1>7, <1>8, <1>9 DEF Isolated

LEMMA NextIsolated == Inv /\ Isolated /\ [Next]_vars => Isolated'
<1> SUFFICES ASSUME Inv, Isolated, [Next]_vars
             PROVE  Isolated'
  OBVIOUS
<1>0. TypeOK
  BY DEF Inv
<1>1. ASSUME Quiet
      PROVE  Isolated'
  BY <1>0, <1>1, QuietStep
<1>2. ASSUME \/ \E m \in Memory : Learn(m) \/ Retire(m)
             \/ \E x \in Export : Lapse(x)
             \/ \E c \in Conn : WriteFiles(c)
             \/ UNCHANGED vars
      PROVE  Isolated'
  BY <1>1, <1>2, QuietRest
<1>3. ASSUME NEW c \in Conn,
             \/ \E s \in Shape : RequestRead(c, s)
             \/ \E s \in Shape, a \in Approval \cup {None} : Assess(c, s, a)
             \/ CheckApproval(c)
             \/ ReadProfile(c)
             \/ Abandon(c)
      PROVE  Isolated'
  BY <1>1, <1>3, QuietExports
<1>4. ASSUME NEW c \in Conn,
             \/ \E a \in Approval : DecideRead(c, a)
             \/ SweepRead(c)
             \/ \E x \in Export : PurgeRead(c, x)
             \/ \E t \in Thing : AckRead(c, t)
      PROVE  Isolated'
  BY <1>1, <1>4, QuietReads
<1>5. ASSUME NEW c \in Conn, NEW a \in Approval, RequestCommit(c, a)
      PROVE  Isolated'
  BY <1>5, RequestIsolated
<1>6. ASSUME NEW c \in Conn, NEW verdict \in {"approved", "rejected"}, DecideCommit(c, verdict)
      PROVE  Isolated'
  BY <1>6, DecideIsolated
<1>7. ASSUME NEW c \in Conn, UseApproval(c)
      PROVE  Isolated'
  BY <1>7, UseIsolated
<1>8. ASSUME NEW c \in Conn, NEW x \in Export, ReturnProfile(c, x) \/ RecordFiles(c, x)
      PROVE  Isolated'
  BY <1>8, RecordIsolated
<1>9. ASSUME NEW c \in Conn,
             \/ SweepCommit(c) \/ PurgeCommit(c) \/ AckCommit(c)
             \/ \E t \in Thing : ResolveNotification(c, t)
      PROVE  Isolated'
  BY <1>9, RetentionIsolated
<1> QED
  BY <1>2, <1>3, <1>4, <1>5, <1>6, <1>7, <1>8, <1>9 DEF Next, ExportStep

LEMMA Isolation == Spec => [](Inv /\ Isolated)
<1>1. Init => Inv /\ Isolated
  BY InitInv, InitIsolated
<1>2. Inv /\ Isolated /\ [Next]_vars => (Inv /\ Isolated)'
  BY NextInv, NextIsolated
<1> QED
  BY <1>1, <1>2, PTL DEF Spec

\* An approval on which no operations overlapped backs one ledger entry and is used from
\* then on ("one-time approval").
THEOREM OneTimeSafe == Spec => []OneExportPerApproval
<1>1. Inv /\ Isolated => OneExportPerApproval
  <2> SUFFICES ASSUME Inv, Isolated, NEW x \in Export, NEW y \in Export,
                      export[x].approval # None, export[x].approval \notin contended
               PROVE  /\ approval[export[x].approval] = "used"
                      /\ export[y].approval = export[x].approval => x = y
    BY DEF OneExportPerApproval
  <2>1. export[x].approval \in Approval
    BY DEF Inv, TypeOK
  <2>2. Alone(export[x].approval)
    BY <2>1 DEF Isolated, UsedAlone
  <2> QED
    BY <2>2 DEF Alone
<1> QED
  BY <1>1, Isolation, PTL

\* An unresolved notification is of an approval to decide or of an expired export, unless
\* operations on it overlapped.
THEOREM InboxSafe == Spec => []InboxIsWork
<1>1. Isolated => InboxIsWork
  BY DEF Isolated
<1> QED
  BY <1>1, Isolation, PTL

\* Both: until its operations overlap, an approval is spent once and notifies of work.
THEOREM OneTimeAndDoneSafe == Spec => []OneTimeAndDone
<1>1. OneExportPerApproval /\ InboxIsWork => OneTimeAndDone
  BY DEF OneTimeAndDone
<1> QED
  BY <1>1, OneTimeSafe, InboxSafe, PTL

----------------------------------------------------------------------------
(* The contract. *)

LEMMA PermitKept ==
    ASSUME NEW a \in Approval, approval'[a] = approval[a], a \in contended' <=> a \in contended,
           (\E x \in Export : export'[x].approval = a) <=> (\E x \in Export : export[x].approval = a)
    PROVE  Permit(a)' = Permit(a)
  BY DEF Permit

LEMMA EntryKept ==
    ASSUME NEW x \in Export, x \in contended' <=> x \in contended,
           ledger'[x] = ledger[x] \/ (ledger[x] = "active" /\ ledger'[x] = "due")
    PROVE  Entry(x)' = Entry(x)
  BY DEF Entry

LEMMA QuietMaps ==
    ASSUME Quiet
    PROVE  UNCHANGED <<[a \in Approval |-> Permit(a)], [x \in Export |-> Entry(x)]>>
<1>1. \A a \in Approval : Permit(a)' = Permit(a)
  BY PermitKept DEF Quiet
<1>2. \A x \in Export : Entry(x)' = Entry(x)
  BY EntryKept DEF Quiet
<1> QED
  BY <1>1, <1>2

LEMMA MoveMaps ==
    ASSUME NEW a \in Approval, NEW from, NEW to, Permit(a) \in from, Permit(a)' = to,
           \A b \in Approval \ {a} : Permit(b)' = Permit(b),
           \A x \in Export : Entry(x)' = Entry(x)
    PROVE  Contract!Move(a, from, to)
  BY DEF Contract!Move

LEMMA PermitType == ASSUME TypeOK, NEW a \in Approval PROVE Permit(a) \in Contract!PermitStages
  BY DEF Permit, TypeOK, ApprovalStatus, Contract!PermitStages

\* Two operations on the approval a overlap.
LEMMA ContendMaps ==
    ASSUME TypeOK, NEW a \in Approval, a \in contended', a \notin contended,
           \A b \in Approval \ {a} : Permit(b)' = Permit(b),
           \A x \in Export : Entry(x)' = Entry(x)
    PROVE  Contract!Next
<1>1. Permit(a) \in Contract!PermitStages
  BY PermitType
<1>2. Permit(a)' = "contended"
  BY DEF Permit
<1>3. Contract!Move(a, Contract!PermitStages, "contended")
  BY <1>1, <1>2, MoveMaps
<1> QED
  BY <1>3 DEF Contract!Next, Contract!Contend

\* A step that writes the status of the approval a, and overlaps at most on a.
LEMMA OthersKept ==
    ASSUME NEW a \in Approval, \A b \in Approval \ {a} : approval'[b] = approval[b],
           contended \subseteq contended', contended' \subseteq contended \cup {a},
           UNCHANGED <<ledger, export>>
    PROVE  /\ \A b \in Approval \ {a} : Permit(b)' = Permit(b)
           /\ \A x \in Export : Entry(x)' = Entry(x)
           /\ a \in contended => Permit(a)' = Permit(a)
<1>1. \A b \in Approval \ {a} : Permit(b)' = Permit(b)
  BY PermitKept
<1>2. \A x \in Export : Entry(x)' = Entry(x)
  <2>1. \A x \in Export : x # a
    BY IdAssumption
  <2> QED
    BY <2>1, EntryKept
<1>3. a \in contended => Permit(a)' = Permit(a)
  BY DEF Permit
<1> QED
  BY <1>1, <1>2, <1>3

LEMMA RequestMaps ==
    ASSUME Inv, Isolated, NEW c \in Conn, NEW a \in Approval, RequestCommit(c, a)
    PROVE  \/ Contract!Next
           \/ UNCHANGED <<[b \in Approval |-> Permit(b)], [x \in Export |-> Entry(x)]>>
<1>1. /\ approval[a] = "none" /\ approval'[a] \in {"pending", "not_required"}
      /\ \A b \in Approval \ {a} : approval'[b] = approval[b]
      /\ UNCHANGED <<ledger, export, contended>>
  BY DEF RequestCommit, Inv, TypeOK
<1>2. /\ contended \subseteq contended' /\ contended' \subseteq contended \cup {a}
      /\ UNCHANGED <<ledger, export>>
  BY <1>1
<1>3. /\ \A b \in Approval \ {a} : Permit(b)' = Permit(b)
      /\ \A x \in Export : Entry(x)' = Entry(x)
      /\ a \in contended => Permit(a)' = Permit(a)
  BY <1>1, <1>2, OthersKept
<1>4. CASE a \in contended
  BY <1>3, <1>4
<1>5. CASE a \notin contended
  <2>1. Permit(a) = "none"
    BY <1>1, <1>5 DEF Permit
  <2>2. Permit(a)' = "asked" \/ Permit(a)' = "moot"
    BY <1>1, <1>5 DEF Permit
  <2>3. Permit(a) \in {"none"}
    BY <2>1
  <2>4. Contract!Move(a, {"none"}, "asked") \/ Contract!Move(a, {"none"}, "moot")
    BY <1>3, <2>2, <2>3, MoveMaps
  <2> QED
    BY <2>4 DEF Contract!Next, Contract!Ask
<1> QED
  BY <1>4, <1>5

LEMMA DecideMaps ==
    ASSUME Inv, Isolated, NEW c \in Conn, NEW verdict \in {"approved", "rejected"},
           DecideCommit(c, verdict)
    PROVE  \/ Contract!Next
           \/ UNCHANGED <<[b \in Approval |-> Permit(b)], [x \in Export |-> Entry(x)]>>
<1>1. PICK a : /\ a \in op[c].held /\ op[c].pc = "deciding"
               /\ approval' = [approval EXCEPT ![a] = verdict]
               /\ CommitsOn(c, {a}) /\ UNCHANGED <<ledger, export>>
  BY DEF DecideCommit
<1>2. a \in Approval /\ (a \in contended \/ approval[a] = "pending")
  BY <1>1 DEF Inv, OpsBacked, Backed, Isolated, HeldFresh, Fresh
<1>3. /\ \A b \in Approval \ {a} : approval'[b] = approval[b]
      /\ approval'[a] = verdict
      /\ contended \subseteq contended' /\ contended' \subseteq contended \cup {a}
      /\ TypeOK
  BY <1>1, <1>2 DEF CommitsOn, Inv, TypeOK
<1>4. /\ \A b \in Approval \ {a} : Permit(b)' = Permit(b)
      /\ \A x \in Export : Entry(x)' = Entry(x)
      /\ a \in contended => Permit(a)' = Permit(a)
  BY <1>1, <1>2, <1>3, OthersKept
<1>5. CASE a \in contended
  BY <1>4, <1>5
<1>6. CASE a \notin contended /\ a \in contended'
  BY <1>2, <1>3, <1>4, <1>6, ContendMaps
<1>7. CASE a \notin contended'
  <2>1. Permit(a) \in {"asked"}
    BY <1>2, <1>3, <1>7 DEF Permit
  <2>2. Permit(a)' = "granted" \/ Permit(a)' = "refused"
    BY <1>3, <1>7 DEF Permit
  <2>3. Contract!Move(a, {"asked"}, "granted") \/ Contract!Move(a, {"asked"}, "refused")
    BY <1>2, <1>4, <2>1, <2>2, MoveMaps
  <2> QED
    BY <1>2, <2>3 DEF Contract!Next, Contract!Decide
<1> QED
  BY <1>5, <1>6, <1>7

LEMMA UseMaps ==
    ASSUME Inv, Isolated, NEW c \in Conn, UseApproval(c)
    PROVE  \/ Contract!Next
           \/ UNCHANGED <<[b \in Approval |-> Permit(b)], [x \in Export |-> Entry(x)]>>
<1>1. PICK a : a = op[c].approval
  OBVIOUS
<1>2. a \in Approval /\ op[c].held = {a} /\ op[c].pc = "checked"
  BY <1>1 DEF Inv, OpsBacked, Backed, UseApproval
<1>3. /\ approval' = [approval EXCEPT ![a] = "used"] /\ CommitsOn(c, {a})
      /\ UNCHANGED <<ledger, export>>
  BY <1>1, <1>2 DEF UseApproval
<1>4. a \in contended \/ approval[a] = "approved"
  BY <1>2 DEF Isolated, HeldFresh, Fresh
<1>5. /\ \A b \in Approval \ {a} : approval'[b] = approval[b]
      /\ approval'[a] = "used"
      /\ contended \subseteq contended' /\ contended' \subseteq contended \cup {a}
      /\ TypeOK
  BY <1>2, <1>3 DEF CommitsOn, Inv, TypeOK
<1>6. /\ \A b \in Approval \ {a} : Permit(b)' = Permit(b)
      /\ \A x \in Export : Entry(x)' = Entry(x)
      /\ a \in contended => Permit(a)' = Permit(a)
  BY <1>2, <1>3, <1>5, OthersKept
<1>7. CASE a \in contended
  BY <1>6, <1>7
<1>8. CASE a \notin contended /\ a \in contended'
  BY <1>2, <1>5, <1>6, <1>8, ContendMaps
<1>9. CASE a \notin contended'
  <2>1. approval[a] = "approved" /\ a \notin contended
    BY <1>4, <1>5, <1>9
  <2>2. Permit(a) \in {"granted"}
    BY <2>1 DEF Permit
  <2>3. Alone(a)
    BY <1>2, <2>1 DEF Isolated, UsedAlone
  <2>4. \A x \in Export : export'[x].approval # a
    BY <1>3, <2>1, <2>3 DEF Alone
  <2>5. Permit(a)' = "spent"
    BY <1>5, <1>9, <2>4 DEF Permit
  <2>6. Contract!Move(a, {"granted"}, "spent")
    BY <1>2, <1>6, <2>2, <2>5, MoveMaps
  <2> QED
    BY <1>2, <2>6 DEF Contract!Next, Contract!Spend
<1> QED
  BY <1>7, <1>8, <1>9

LEMMA RecordMaps ==
    ASSUME Inv, Isolated, NEW c \in Conn, NEW x \in Export, ReturnProfile(c, x) \/ RecordFiles(c, x)
    PROVE  Contract!Next
<1>1. /\ op[c].pc \in {"cleared", "read"} /\ Record(c, x)
      /\ ledger[x] = "none" /\ export[x].approval = None
      /\ UNCHANGED <<approval, contended>>
      /\ op[c].approval \in Approval \cup {None}
  BY DEF Inv, TypeOK, RowsExist, ReturnProfile, RecordFiles, Record
<1>2. /\ export'[x].approval = op[c].approval /\ ledger'[x] = "active"
      /\ \A y \in Export \ {x} : export'[y] = export[y] /\ ledger'[y] = ledger[y]
  <2>1. /\ op[c].pc \in Exporting
        /\ op[c].approval = None => op[c].content \subseteq op[c].gone \cup op[c].late
    BY <1>1 DEF Exporting, Inv, OpsBacked, Backed
  <2> QED
    BY <1>1, <2>1, RecordEffect
<1>3. x \notin contended
  BY <1>1 DEF Isolated, Known
<1>4. Entry(x) = "none" /\ Entry(x)' = "active"
  BY <1>1, <1>2, <1>3 DEF Entry
<1>5. \A y \in Export \ {x} : Entry(y)' = Entry(y)
  BY <1>1, <1>2, EntryKept
<1>6. PICK entry : entry = [y \in Export |-> Entry(y)]
  OBVIOUS
<1>7. PICK entry2 : entry2 = [y \in Export |-> Entry(y)']
  OBVIOUS
<1>8. entry[x] = "none" /\ entry2 = [entry EXCEPT ![x] = "active"]
  BY <1>4, <1>5, <1>6, <1>7
<1>9. ASSUME NEW b \in Approval, b \in contended \/ op[c].approval # b
      PROVE  Permit(b)' = Permit(b)
  <2>1. CASE b \in contended
    BY <1>1, <2>1 DEF Permit
  <2>2. CASE op[c].approval # b
    <3>1. (\E y \in Export : export'[y].approval = b) <=> (\E y \in Export : export[y].approval = b)
      BY <1>1, <1>2, <2>2, SentinelAssumption
    <3> QED
      BY <1>1, <3>1, PermitKept
  <2> QED
    BY <1>9, <2>1, <2>2
<1>10. CASE op[c].approval = None \/ op[c].approval \in contended
  <2>1. \A b \in Approval : Permit(b)' = Permit(b)
    BY <1>9, <1>10, SentinelAssumption
  <2>2. Contract!Enter(x)
    BY <1>6, <1>7, <1>8, <2>1 DEF Contract!Enter
  <2> QED
    BY <2>2 DEF Contract!Next
<1>11. CASE op[c].approval # None /\ op[c].approval \notin contended
  <2>1. PICK a \in Approval : a = op[c].approval
    BY <1>1, <1>11
  <2>2. Running(c, a) /\ Alone(a)
    BY <1>1, <1>11, <2>1 DEF Running, Isolated, UsedAlone
  <2>3. approval[a] = "used" /\ \A y \in Export : export[y].approval # a
    BY <2>2 DEF Alone
  <2>4. Permit(a) = "spent"
    BY <1>11, <2>1, <2>3 DEF Permit
  <2>5. Permit(a)' = "recorded"
    BY <1>1, <1>2, <1>11, <2>1, <2>3 DEF Permit
  <2>6. \A b \in Approval \ {a} : Permit(b)' = Permit(b)
    BY <1>9, <2>1
  <2>7. PICK permit : permit = [b \in Approval |-> Permit(b)]
    OBVIOUS
  <2>8. PICK permit2 : permit2 = [b \in Approval |-> Permit(b)']
    OBVIOUS
  <2>9. permit[a] = "spent" /\ permit2 = [permit EXCEPT ![a] = "recorded"]
    BY <2>4, <2>5, <2>6, <2>7, <2>8
  <2>10. Contract!Enter(x)
    BY <1>6, <1>7, <1>8, <2>7, <2>8, <2>9 DEF Contract!Enter
  <2> QED
    BY <2>10 DEF Contract!Next
<1> QED
  BY <1>10, <1>11

\* A commit that writes the statuses of exports only.
LEMMA RetainMaps ==
    ASSUME TypeOK, NEW T \in SUBSET Export, UNCHANGED <<approval, export>>,
           contended \subseteq contended', contended' \subseteq contended \cup T,
           \A t \in T : ledger[t] # "none",
           \A x \in Export \ T : ledger'[x] = ledger[x],
           \A t \in T \ contended' : Contract!Onwards(Entry(t), Entry(t)'),
           ledger' \in [Export -> LedgerStatus]
    PROVE  Contract!Next
<1>1. \A a \in Approval : Permit(a)' = Permit(a)
  <2>1. \A a \in Approval : a \notin T
    BY IdAssumption
  <2> QED
    BY <2>1, PermitKept
<1>2. \A x \in Export : Entry(x)' \in Contract!EntryStages
  BY DEF Entry, LedgerStatus, Contract!EntryStages
<1>3. ASSUME NEW x \in Export
      PROVE  Contract!Onwards(Entry(x), Entry(x)')
  <2>1. CASE x \notin T
    <3>1. Entry(x)' = Entry(x)
      BY <2>1, EntryKept
    <3> QED
      BY <3>1 DEF Contract!Onwards
  <2>2. CASE x \in T /\ x \in contended'
    <3>1. Entry(x) # "none" /\ Entry(x)' = "contended"
      BY <2>2 DEF Entry
    <3> QED
      BY <3>1 DEF Contract!Onwards
  <2>3. CASE x \in T /\ x \notin contended'
    BY <2>3
  <2> QED
    BY <2>1, <2>2, <2>3
<1>4. Contract!Retain
  BY <1>1, <1>2, <1>3 DEF Contract!Retain
<1> QED
  BY <1>4 DEF Contract!Next

LEMMA RetentionMaps ==
    ASSUME Inv, Isolated, NEW c \in Conn,
           \/ SweepCommit(c) \/ PurgeCommit(c) \/ AckCommit(c)
           \/ \E t \in Thing : ResolveNotification(c, t)
    PROVE  \/ Contract!Next
           \/ UNCHANGED <<[b \in Approval |-> Permit(b)], [x \in Export |-> Entry(x)]>>
<1> USE DEF Inv
<1>1. /\ TypeOK
      /\ \A t \in op[c].held : t \in contended \/ Fresh(op[c].pc, t)
      /\ \A t \in op[c].held : t \in Export => ledger[t] # "none"
      /\ op[c].pc \in {"sweeping", "purging"} => op[c].held \subseteq Export
  BY DEF OpsBacked, Backed, Isolated, Known, HeldFresh
<1>2. ASSUME SweepCommit(c)
      PROVE  Contract!Next
  <2>1. /\ CommitsOn(c, op[c].held) /\ op[c].held \in SUBSET Export /\ op[c].pc = "sweeping"
        /\ ledger' = [x \in Export |-> IF x \in op[c].held THEN "expired" ELSE ledger[x]]
        /\ UNCHANGED <<approval, export>>
    BY <1>1, <1>2 DEF SweepCommit
  <2>2. contended \subseteq contended' /\ contended' \subseteq contended \cup op[c].held
    BY <2>1 DEF CommitsOn
  <2>3. \A t \in op[c].held \ contended' : Contract!Onwards(Entry(t), Entry(t)')
    BY <1>1, <2>1, <2>2 DEF Fresh, Entry, Contract!Onwards
  <2>4. ledger' \in [Export -> LedgerStatus] /\ \A t \in op[c].held : ledger[t] # "none"
    BY <1>1, <2>1 DEF TypeOK, LedgerStatus
  <2> QED
    BY <1>1, <2>1, <2>2, <2>3, <2>4, RetainMaps
<1>3. ASSUME PurgeCommit(c)
      PROVE  Contract!Next
  <2>1. /\ CommitsOn(c, op[c].held) /\ op[c].held \in SUBSET Export /\ op[c].pc = "purging"
        /\ ledger' = [x \in Export |-> IF x \in op[c].held THEN "purged" ELSE ledger[x]]
        /\ UNCHANGED <<approval, export>>
    BY <1>1, <1>3 DEF PurgeCommit
  <2>2. contended \subseteq contended' /\ contended' \subseteq contended \cup op[c].held
    BY <2>1 DEF CommitsOn
  <2>3. \A t \in op[c].held \ contended' : Contract!Onwards(Entry(t), Entry(t)')
    BY <1>1, <2>1, <2>2 DEF Fresh, Entry, Contract!Onwards
  <2>4. ledger' \in [Export -> LedgerStatus] /\ \A t \in op[c].held : ledger[t] # "none"
    BY <1>1, <2>1 DEF TypeOK, LedgerStatus
  <2> QED
    BY <1>1, <2>1, <2>2, <2>3, <2>4, RetainMaps
<1>4. ASSUME NEW t \in Thing, CommitsOn(c, {t}), UNCHANGED <<approval, ledger, export>>,
             t \in Export => ledger[t] # "none"
      PROVE  \/ Contract!Next
             \/ UNCHANGED <<[b \in Approval |-> Permit(b)], [x \in Export |-> Entry(x)]>>
  <2>1. contended \subseteq contended' /\ contended' \subseteq contended \cup {t}
    BY <1>4 DEF CommitsOn
  <2>2. CASE t \in Approval
    <3>1. /\ \A b \in Approval \ {t} : Permit(b)' = Permit(b)
          /\ \A x \in Export : Entry(x)' = Entry(x)
      BY <1>4, <2>1, <2>2, OthersKept
    <3>2. CASE t \notin contended /\ t \in contended'
      BY <1>1, <2>2, <3>1, <3>2, ContendMaps
    <3>3. CASE t \in contended \/ t \notin contended'
      <4>1. Permit(t)' = Permit(t)
        BY <1>4, <2>1, <2>2, <3>3, PermitKept
      <4> QED
        BY <3>1, <4>1
    <3> QED
      BY <3>2, <3>3
  <2>3. CASE t \in Export
    <3>1. {t} \in SUBSET Export /\ \A u \in {t} : ledger[u] # "none"
      BY <1>4, <2>3
    <3>2. \A u \in {t} \ contended' : Contract!Onwards(Entry(u), Entry(u)')
      BY <1>4, <2>1, <2>3 DEF Entry, Contract!Onwards
    <3>3. ledger' \in [Export -> LedgerStatus] /\ \A x \in Export \ {t} : ledger'[x] = ledger[x]
      BY <1>1, <1>4 DEF TypeOK
    <3> QED
      BY <1>1, <1>4, <2>1, <3>1, <3>2, <3>3, RetainMaps
  <2> QED
    BY <1>4, <2>2, <2>3 DEF Thing
<1>5. ASSUME AckCommit(c)
      PROVE  \/ Contract!Next
             \/ UNCHANGED <<[b \in Approval |-> Permit(b)], [x \in Export |-> Entry(x)]>>
  <2>1. /\ CommitsOn(c, op[c].held) /\ UNCHANGED <<approval, ledger, export>>
        /\ op[c].held \in SUBSET Thing /\ \A t, u \in op[c].held : t = u
    BY <1>1, <1>5 DEF AckCommit, Isolated, AckOne, TypeOK
  <2>2. CASE op[c].held = {}
    <3>1. contended' = contended
      BY <2>1, <2>2 DEF CommitsOn
    <3>2. \A b \in Approval : Permit(b)' = Permit(b)
      BY <2>1, <3>1, PermitKept
    <3>3. \A x \in Export : Entry(x)' = Entry(x)
      BY <2>1, <3>1, EntryKept
    <3> QED
      BY <3>2, <3>3
  <2>3. CASE op[c].held # {}
    <3>1. PICK t : t \in op[c].held
      BY <2>3
    <3>2. op[c].held = {t} /\ t \in Thing
      BY <2>1, <3>1
    <3>3. CommitsOn(c, {t})
      BY <2>1, <3>2
    <3>4. t \in Export => ledger[t] # "none"
      BY <1>1, <3>1
    <3> QED
      BY <1>4, <2>1, <3>2, <3>3, <3>4
  <2> QED
    BY <2>2, <2>3
<1>6. ASSUME NEW t \in Thing, ResolveNotification(c, t)
      PROVE  \/ Contract!Next
             \/ UNCHANGED <<[b \in Approval |-> Permit(b)], [x \in Export |-> Entry(x)]>>
  <2>1. CommitsOn(c, {t}) /\ UNCHANGED <<approval, ledger, export>> /\ t \in inbox
    BY <1>6 DEF ResolveNotification
  <2>2. t \in Export => ledger[t] # "none"
    BY <2>1 DEF Isolated, Known
  <2> QED
    BY <1>4, <2>1, <2>2
<1> QED
  BY <1>2, <1>3, <1>5, <1>6

LEMMA InitMaps == Init => Contract!Init
<1> SUFFICES ASSUME Init
             PROVE  Contract!Init
  OBVIOUS
<1>1. \A a \in Approval : Permit(a) = "none"
  BY DEF Init, Permit
<1>2. \A x \in Export : Entry(x) = "none"
  BY DEF Init, Entry
<1> QED
  BY <1>1, <1>2 DEF Contract!Init

LEMMA NextMaps ==
    Inv /\ Isolated /\ [Next]_vars =>
      [Contract!Next]_<<[a \in Approval |-> Permit(a)], [x \in Export |-> Entry(x)]>>
<1> SUFFICES ASSUME Inv, Isolated, [Next]_vars
             PROVE  \/ Contract!Next
                    \/ UNCHANGED <<[a \in Approval |-> Permit(a)], [x \in Export |-> Entry(x)]>>
  OBVIOUS
<1>1. ASSUME \/ \E m \in Memory : Learn(m) \/ Retire(m)
             \/ \E x \in Export : Lapse(x)
             \/ \E c \in Conn : WriteFiles(c)
             \/ UNCHANGED vars
      PROVE  Quiet
  BY <1>1, QuietRest
<1>2. ASSUME NEW c \in Conn,
             \/ \E s \in Shape : RequestRead(c, s)
             \/ \E s \in Shape, a \in Approval \cup {None} : Assess(c, s, a)
             \/ CheckApproval(c)
             \/ ReadProfile(c)
             \/ Abandon(c)
      PROVE  Quiet
  BY <1>2, QuietExports
<1>3. ASSUME NEW c \in Conn,
             \/ \E a \in Approval : DecideRead(c, a)
             \/ SweepRead(c)
             \/ \E x \in Export : PurgeRead(c, x)
             \/ \E t \in Thing : AckRead(c, t)
      PROVE  Quiet
  BY <1>3, QuietReads
<1>4. CASE Quiet
  BY <1>4, QuietMaps
<1>5. CASE \E c \in Conn, a \in Approval : RequestCommit(c, a)
  BY <1>5, RequestMaps
<1>6. CASE \E c \in Conn, verdict \in {"approved", "rejected"} : DecideCommit(c, verdict)
  BY <1>6, DecideMaps
<1>7. CASE \E c \in Conn : UseApproval(c)
  BY <1>7, UseMaps
<1>8. CASE \E c \in Conn, x \in Export : ReturnProfile(c, x) \/ RecordFiles(c, x)
  BY <1>8, RecordMaps
<1>9. CASE \E c \in Conn :
             \/ SweepCommit(c) \/ PurgeCommit(c) \/ AckCommit(c)
             \/ \E t \in Thing : ResolveNotification(c, t)
  BY <1>9, RetentionMaps
<1> QED
  BY <1>1, <1>2, <1>3, <1>4, <1>5, <1>6, <1>7, <1>8, <1>9 DEF Next, ExportStep

\* Until its operations overlap, an approval is asked for, decided once and spent on one
\* ledger entry, and an entry is active, then expired, then purged (ExportContract).
THEOREM ImplementsContract == Spec => ContractSpec
<1>1. Init => Contract!Init
  BY InitMaps
<1>2. Inv /\ Isolated /\ [Next]_vars =>
        [Contract!Next]_<<[a \in Approval |-> Permit(a)], [x \in Export |-> Entry(x)]>>
  BY NextMaps
<1> QED
  BY <1>1, <1>2, Isolation, PTL DEF Spec, ContractSpec, Contract!Spec
=============================================================================
