--------------------------- MODULE RequestsProofs ---------------------------
(***************************************************************************)
(* Proofs about the four components MCRequests puts side by side: batches  *)
(* of reviews and conflicts, for any memories, candidates and connections; *)
(* the transfer of profiles, for any proposals; the intake of text, for    *)
(* any connections, chunks and bounds; and the answers of the Router, for  *)
(* any memories, rules, conflicts and limits.                              *)
(***************************************************************************)
EXTENDS MCRequests, SequenceTheorems, FiniteSetTheorems, WellFoundedInduction, TLAPS

\* A set of numbers has a least one: induction is by the least exception.
LEMMA LowestExists ==
    ASSUME NEW I, I \subseteq Nat, I # {}
    PROVE  \E i \in I : \A j \in I : i <= j
<1> DEFINE R == {ss \in Nat \X Nat : ss[1] < ss[2]}
<1>1. IsWellFoundedOn(R, Nat)
  BY NatLessThanWellFounded DEF OpToRel
<1>2. PICK i \in I : \A j \in I : <<j, i>> \notin R
  <2> HIDE DEF R
  <2> QED
    BY <1>1, WFMin
<1>3. ASSUME NEW j \in I
      PROVE  i <= j
  <2>1. <<j, i>> \notin R
    BY <1>2
  <2>2. ~(j < i)
    BY <2>1
  <2> QED
    BY <2>2
<1> QED
  BY <1>3

----------------------------------------------------------------------------
(***************************************************************************)
(* Batches and conflicts.                                                  *)
(***************************************************************************)

InProgress == [pc : {"idle", "next", "writing", "recording"}, ops : Seq(Operations),
               stop : BOOLEAN, broke : SUBSET Operations, todo : SUBSET Pairs]

\* A batch that goes on has an item to go on with.
Progress == {b \in InProgress : b.pc \in {"next", "writing"} => b.ops # <<>>}

\* BatchTypeOK, with the types of all fields.
BatchTypes ==
    /\ item \in [Memory \cup Candidate -> Items]
    /\ unsaved \in [Memory \cup Candidate -> Items]
    /\ holder \in Caller \cup {Nobody}
    /\ batch \in [Caller -> Progress]
    /\ conflict \in Seq(Conflicts)
    /\ told \subseteq Operations /\ leaked \subseteq Operations
    /\ crossed \subseteq Pairs

LEMMA BatchTypesImply == BatchTypes => BatchTypeOK
BY DEF BatchTypes, BatchTypeOK, Progress, InProgress

LEMMA NotBusyType ==
    NotBusy \in Progress /\ NotBusy.broke = {} /\ NotBusy.todo = {} /\ NotBusy.pc = "idle"
BY DEF NotBusy, Progress, InProgress

\* What the next steps of a batch keep of it.
Carries(c, b) ==
    /\ b \in Progress
    /\ \/ b = NotBusy
       \/ /\ b # NotBusy /\ b.broke = batch[c].broke /\ b.stop = batch[c].stop
          /\ b.todo = batch[c].todo

LEMMA BatchGoesOn ==
    ASSUME BatchTypes, NEW c \in Caller, batch[c].pc \in {"next", "writing"}
    PROVE  /\ Next1(c) \in Operations
           /\ Carries(c, Pops(c, Rest(c)))
           /\ Carries(c, AfterError(c))
           /\ AfterError(c) # NotBusy => ~batch[c].stop
           /\ Carries(c, [batch[c] EXCEPT !.pc = "writing"])
<1>1. /\ batch[c] \in InProgress /\ batch[c].ops # <<>> /\ batch[c].ops \in Seq(Operations)
  BY DEF BatchTypes, Progress, InProgress
<1>2. Head(batch[c].ops) \in Operations /\ Tail(batch[c].ops) \in Seq(Operations)
  BY <1>1, HeadTailProperties
<1>3. /\ Rest(c) \in InProgress /\ Rest(c).pc = "next" /\ Rest(c).broke = batch[c].broke
      /\ Rest(c).stop = batch[c].stop /\ Rest(c).todo = batch[c].todo
  BY <1>1, <1>2 DEF Rest, InProgress
<1>4. Carries(c, Pops(c, Rest(c)))
  <2>1. CASE Rest(c).ops = <<>>
    BY <2>1, NotBusyType DEF Pops, Carries
  <2>2. CASE Rest(c).ops # <<>>
    <3>1. Pops(c, Rest(c)) = Rest(c)
      BY <2>2 DEF Pops
    <3>2. Rest(c) \in Progress /\ Rest(c) # NotBusy
      BY <1>3, <2>2, NotBusyType DEF Progress
    <3> QED
      BY <1>3, <3>1, <3>2 DEF Carries
  <2> QED
    BY <2>1, <2>2
<1>5. AfterError(c) = NotBusy \/ (~batch[c].stop /\ AfterError(c) = Pops(c, Rest(c)))
  BY DEF AfterError
<1>6. Carries(c, NotBusy)
  BY NotBusyType DEF Carries
<1>7. Carries(c, [batch[c] EXCEPT !.pc = "writing"])
  <2> DEFINE b == [batch[c] EXCEPT !.pc = "writing"]
  <2>1. /\ b \in InProgress /\ b.pc = "writing" /\ b.ops = batch[c].ops /\ b.broke = batch[c].broke
        /\ b.stop = batch[c].stop /\ b.todo = batch[c].todo
    BY <1>1 DEF InProgress
  <2> HIDE DEF b
  <2>2. b \in Progress /\ b # NotBusy
    BY <1>1, <2>1, NotBusyType DEF Progress
  <2>3. Carries(c, b)
    BY <2>1, <2>2 DEF Carries
  <2> QED
    BY <2>3 DEF b
<1> QED
  BY <1>2, <1>4, <1>5, <1>6, <1>7 DEF Next1

\* After an item that was committed nothing broken is left.
LEMMA BatchWritten ==
    ASSUME BatchTypes, NEW c \in Caller, batch[c].pc \in {"next", "writing"}
    PROVE  LET b == Pops(c, [Rest(c) EXCEPT !.broke = {}]) IN
           /\ b \in Progress /\ b.broke = {} /\ b.todo \subseteq batch[c].todo
           /\ [AfterError(c) EXCEPT !.broke = {}] \in Progress
           /\ [AfterError(c) EXCEPT !.broke = {}].broke = {}
           /\ [AfterError(c) EXCEPT !.broke = {}].todo \subseteq batch[c].todo
<1>1. /\ batch[c] \in InProgress /\ batch[c].ops # <<>> /\ batch[c].ops \in Seq(Operations)
  BY DEF BatchTypes, Progress, InProgress
<1>2. Tail(batch[c].ops) \in Seq(Operations)
  BY <1>1, HeadTailProperties
<1> DEFINE r == [Rest(c) EXCEPT !.broke = {}]
<1>3. r \in InProgress /\ r.broke = {} /\ r.todo = batch[c].todo
  BY <1>1, <1>2 DEF Rest, InProgress
<1> HIDE DEF r
<1>4. Pops(c, r) = NotBusy \/ (Pops(c, r) = r /\ r.ops # <<>>)
  BY DEF Pops
<1>5. Pops(c, r) \in Progress /\ Pops(c, r).broke = {} /\ Pops(c, r).todo \subseteq batch[c].todo
  BY <1>3, <1>4, NotBusyType DEF Progress
<1>6. /\ AfterError(c) \in Progress
      /\ AfterError(c).todo \subseteq batch[c].todo
  BY BatchGoesOn, NotBusyType DEF Carries
<1>7. /\ [AfterError(c) EXCEPT !.broke = {}] \in Progress
      /\ [AfterError(c) EXCEPT !.broke = {}].broke = {}
      /\ [AfterError(c) EXCEPT !.broke = {}].todo \subseteq batch[c].todo
  BY <1>6 DEF Progress, InProgress
<1> QED
  BY <1>5, <1>7 DEF r

\* What an operation makes of a row.
LEMMA ChangedType ==
    ASSUME NEW op \in Operations, NEW old \in Items
    PROVE  /\ Changed(op, old) \in Items
           /\ Changed(op, old).status \in
                {old.status} \cup (IF op.do = "deactivate" THEN {"inactive"} ELSE {})
                  \cup (IF op.do = "approve" THEN {"approved"} ELSE {})
                  \cup (IF op.do = "reject" THEN {"rejected"} ELSE {})
           /\ Changed(op, old).text = 2 => old.text = 2 \/ op.do = "correct"
           /\ op.do = "deactivate" => Changed(op, old).status = "inactive"
<1>1. op.do \in {"correct", "deactivate", "approve", "reject"}
  BY DEF Operations
<1>2. CASE op.do = "correct"
  BY <1>2 DEF Changed, Items
<1>3. CASE op.do = "deactivate"
  BY <1>3 DEF Changed, Items
<1>4. CASE op.do = "approve"
  BY <1>4 DEF Changed, Items
<1>5. CASE op.do = "reject"
  BY <1>5 DEF Changed, Items
<1> QED
  BY <1>1, <1>2, <1>3, <1>4, <1>5

LEMMA SeenType ==
    ASSUME BatchTypes, NEW c \in Caller
    PROVE  Seen(c) \in [Memory \cup Candidate -> Items]
BY DEF BatchTypes, Seen

LEMMA WrittenRows ==
    ASSUME BatchTypes, NEW c \in Caller, NEW op \in Operations
    PROVE  LET rows == [Seen(c) EXCEPT ![op.item] = Changed(op, @)] IN
           /\ rows \in [Memory \cup Candidate -> Items]
           /\ op.item \in Memory \cup Candidate
           /\ rows[op.item] = Changed(op, Seen(c)[op.item])
           /\ \A i \in Memory \cup Candidate : i # op.item => rows[i] = Seen(c)[i]
<1>1. op.item \in Memory \cup Candidate
  BY DEF Operations
<1>2. Seen(c) \in [Memory \cup Candidate -> Items]
  BY SeenType
<1>3. Changed(op, Seen(c)[op.item]) \in Items
  BY <1>1, <1>2, ChangedType
<1> QED
  BY <1>1, <1>2, <1>3

\* Two different memories are a pair.
LEMMA PairType ==
    ASSUME NEW old \in Memory, NEW new \in Memory, old # new
    PROVE  {old, new} \in Pairs
<1>1. IsFiniteSet({old}) /\ Cardinality({old}) = 1
  BY FS_Singleton
<1>2. {old} \cup {new} = {old, new} /\ new \notin {old}
  OBVIOUS
<1>3. Cardinality({old, new}) = 2
  BY <1>1, <1>2, FS_AddElement
<1> QED
  BY <1>3 DEF Pairs

LEMMA RowType ==
    ASSUME NEW p \in Pairs, NEW by \in {"detection", "caller", "supersede"},
           NEW winner \in Memory \cup {Nobody}
    PROVE  Row(p, by, winner) \in Conflicts
BY DEF Row, Conflicts

\* Settling resolves the open conflicts of a pair and leaves the others as they are.
LEMMA SettledRows ==
    ASSUME conflict \in Seq(Conflicts), NEW p, NEW new \in Memory
    PROVE  /\ Settle(p, new) \in Seq(Conflicts)
           /\ Len(Settle(p, new)) = Len(conflict)
           /\ \A i \in 1 .. Len(conflict) :
                /\ Settle(p, new)[i].pair = conflict[i].pair
                /\ Settle(p, new)[i].by = conflict[i].by
                /\ conflict[i].status = "resolved" => Settle(p, new)[i] = conflict[i]
                /\ Settle(p, new)[i].status = "open" => conflict[i].status = "open"
                                                        /\ conflict[i].pair # p
<1> DEFINE k == Settle(p, new)
<1>1. Len(conflict) \in Nat /\ DOMAIN conflict = 1 .. Len(conflict)
      /\ \A i \in 1 .. Len(conflict) : conflict[i] \in Conflicts
  OBVIOUS
<1>2. \A i \in 1 .. Len(conflict) :
         k[i] = IF conflict[i].pair = p /\ conflict[i].status = "open"
                THEN [conflict[i] EXCEPT !.status = "resolved", !.winner = new]
                ELSE conflict[i]
  BY <1>1 DEF Settle
<1>3. k = [i \in 1 .. Len(conflict) |-> k[i]]
  BY <1>1 DEF Settle
<1> HIDE DEF k
<1>4. ASSUME NEW i \in 1 .. Len(conflict)
      PROVE  /\ k[i] \in Conflicts /\ k[i].pair = conflict[i].pair /\ k[i].by = conflict[i].by
             /\ conflict[i].status = "resolved" => k[i] = conflict[i]
             /\ k[i].status = "open" => conflict[i].status = "open" /\ conflict[i].pair # p
  <2>1. CASE conflict[i].pair = p /\ conflict[i].status = "open"
    <3>1. k[i] = [conflict[i] EXCEPT !.status = "resolved", !.winner = new]
      BY <1>2, <2>1
    <3> QED
      BY <1>1, <2>1, <3>1 DEF Conflicts
  <2>2. CASE ~(conflict[i].pair = p /\ conflict[i].status = "open")
    <3>1. k[i] = conflict[i]
      BY <1>2, <2>2
    <3> QED
      BY <1>1, <2>2, <3>1
  <2> QED
    BY <2>1, <2>2
<1>5. k \in [1 .. Len(conflict) -> Conflicts]
  BY <1>3, <1>4
<1>6. k \in Seq(Conflicts) /\ Len(k) = Len(conflict)
  BY <1>1, <1>5, SeqDef
<1> QED
  BY <1>4, <1>6 DEF k

LEMMA BatchTypesInit == BatchInit => BatchTypes
<1> SUFFICES ASSUME BatchInit
             PROVE  BatchTypes
  OBVIOUS
<1>1. item \in [Memory \cup Candidate -> Items]
  BY DEF BatchInit, Items
<1>2. batch \in [Caller -> Progress]
  BY NotBusyType DEF BatchInit
<1> QED
  BY <1>1, <1>2 DEF BatchInit, BatchTypes

\* A connection begins, goes on or ends, with the rows it sees.
LEMMA EndsType ==
    ASSUME BatchTypes, NEW c \in Caller, NEW b \in Progress, Ends(c, b)
    PROVE  /\ batch' = [batch EXCEPT ![c] = b] /\ batch' \in [Caller -> Progress]
           /\ unsaved' \in [Memory \cup Candidate -> Items] /\ holder' \in Caller \cup {Nobody}
BY DEF BatchTypes, Ends

LEMMA CommitsType ==
    ASSUME BatchTypes, NEW c \in Caller, NEW rows \in [Memory \cup Candidate -> Items],
           Commits(c, rows)
    PROVE  /\ item' \in [Memory \cup Candidate -> Items]
           /\ unsaved' \in [Memory \cup Candidate -> Items]
           /\ holder' \in Caller \cup {Nobody} /\ leaked' \subseteq Operations
<1>1. batch[c].broke \subseteq Operations
  BY DEF BatchTypes, Progress, InProgress
<1> QED
  BY <1>1 DEF BatchTypes, Commits

\* What a step of a batch leaves alone, and how it goes on.
LEMMA BatchTypesNext ==
    ASSUME BatchTypes, [BatchNext]_batchVars
    PROVE  BatchTypes'
<1> USE DEF BatchTypes
<1>1. BatchTypes
  OBVIOUS
<1>2. ASSUME NEW c \in Caller, NEW n \in 1 .. 2, NEW ops \in [1 .. n -> Operations],
             NEW stop \in BOOLEAN, Start(c, ops, stop)
      PROVE  BatchTypes'
  <2>1. ops \in Seq(Operations) /\ ops # <<>>
    <3>1. ops \in Seq(Operations) /\ Len(ops) = n
      BY SeqDef
    <3> QED
      BY <3>1
  <2>2. [NotBusy EXCEPT !.pc = "next", !.ops = ops, !.stop = stop] \in Progress
    BY <2>1, NotBusyType DEF Progress, InProgress
  <2> QED
    BY <1>1, <1>2, <2>2 DEF Start
<1>3. ASSUME NEW c \in Caller, NEW b \in Progress, Ends(c, b),
             UNCHANGED <<item, conflict, told, leaked, crossed>>
      PROVE  BatchTypes'
  BY <1>1, <1>3, EndsType
<1>4. ASSUME NEW c \in Caller, Preview(c) \/ Fail(c) \/ Look(c)
      PROVE  BatchTypes'
  <2>1. PICK b : Carries(c, b) /\ Ends(c, b) /\ UNCHANGED <<item, conflict, told, leaked, crossed>>
    <3>1. batch[c].pc \in {"next", "writing"}
      BY <1>4 DEF Preview, Fail, Look
    <3>2. /\ Carries(c, Pops(c, Rest(c))) /\ Carries(c, AfterError(c))
          /\ Carries(c, [batch[c] EXCEPT !.pc = "writing"])
      BY <1>1, <3>1, BatchGoesOn
    <3>3. \/ Ends(c, Pops(c, Rest(c))) \/ Ends(c, AfterError(c))
          \/ Ends(c, [batch[c] EXCEPT !.pc = "writing"])
      BY <1>4 DEF Preview, Fail, Look
    <3>4. UNCHANGED <<item, conflict, told, leaked, crossed>>
      BY <1>4 DEF Preview, Fail, Look
    <3> QED
      BY <3>2, <3>3, <3>4
  <2> QED
    BY <1>3, <2>1 DEF Carries
<1>5. ASSUME NEW c \in Caller, Deny(c)
      PROVE  BatchTypes'
  <2>1. Commits(c, Seen(c)) /\ UNCHANGED <<conflict, told, crossed>>
    BY <1>5 DEF Deny
  <2>2. AfterError(c) \in Progress
    BY <1>1, <1>5, BatchGoesOn DEF Deny, Carries
  <2>3. [AfterError(c) EXCEPT !.broke = {}] \in Progress
    BY <2>2 DEF Progress, InProgress
  <2>4. batch' \in [Caller -> Progress]
    BY <1>1, <1>5, <2>3, NotBusyType DEF Deny
  <2> QED
    BY <1>1, <2>1, <2>4, SeenType, CommitsType
<1>6. ASSUME NEW c \in Caller, Write(c)
      PROVE  BatchTypes'
  <2> DEFINE op == Next1(c)
             rows == [Seen(c) EXCEPT ![op.item] = Changed(op, @)]
  <2>1. op \in Operations /\ Pops(c, Rest(c)) \in Progress
    BY <1>1, <1>6, BatchGoesOn DEF Write, Carries
  <2>2. rows \in [Memory \cup Candidate -> Items]
    BY <1>1, <2>1, WrittenRows
  <2>3. /\ Commits(c, rows) /\ told' = told \cup {op} /\ UNCHANGED <<conflict, crossed>>
        /\ batch' = [batch EXCEPT ![c] = Pops(c, [Rest(c) EXCEPT !.broke = {}])]
    BY <1>6 DEF Write
  <2>4. Pops(c, [Rest(c) EXCEPT !.broke = {}]) \in Progress
    BY <1>1, <1>6, BatchWritten DEF Write
  <2>5. batch' \in [Caller -> Progress]
    BY <1>1, <2>3, <2>4
  <2> HIDE DEF rows, op
  <2> QED
    BY <1>1, <2>1, <2>2, <2>3, <2>5, CommitsType
<1>7. ASSUME NEW c \in Caller, Break(c)
      PROVE  BatchTypes'
  <2> DEFINE op == Next1(c)
             rows == [Seen(c) EXCEPT ![op.item] = Changed(op, @)]
  <2>1. op \in Operations /\ AfterError(c) \in Progress
    BY <1>1, <1>7, BatchGoesOn DEF Break, Carries
  <2>2. CASE AfterError(c) = NotBusy
    <3>1. Ends(c, NotBusy) /\ UNCHANGED <<item, conflict, told, leaked, crossed>>
      BY <1>7, <2>2 DEF Break
    <3> QED
      BY <1>3, <3>1, NotBusyType
  <2>3. CASE AfterError(c) # NotBusy
    <3>1. rows \in [Memory \cup Candidate -> Items]
      BY <1>1, <2>1, WrittenRows
    <3>2. [AfterError(c) EXCEPT !.broke = @ \cup {op}] \in Progress
      BY <2>1 DEF Progress, InProgress
    <3>3. /\ unsaved' = rows /\ holder' = c
          /\ batch' = [batch EXCEPT ![c] = [AfterError(c) EXCEPT !.broke = @ \cup {op}]]
          /\ UNCHANGED <<item, conflict, told, leaked, crossed>>
      BY <1>7, <2>3 DEF Break
    <3> HIDE DEF rows, op
    <3> QED
      BY <1>1, <3>1, <3>2, <3>3
  <2> QED
    BY <2>2, <2>3
<1>8. ASSUME NEW c \in Caller, Die(c)
      PROVE  BatchTypes'
  BY <1>3, <1>8, NotBusyType DEF Die
<1>9. ASSUME NEW d \in Caller, NEW p \in Pairs, Crosses(d, p)
      PROVE  crossed' \subseteq Pairs
  BY <1>1, <1>9 DEF Crosses
<1>10. ASSUME NEW c \in Caller, NEW p \in Pairs, NEW winner \in p \cup {Nobody},
              Record(c, p, winner)
       PROVE  BatchTypes'
  <2>1. winner \in Memory \cup {Nobody}
    BY DEF Pairs
  <2>2. conflict' \in Seq(Conflicts)
    BY <1>1, <1>10, <2>1, RowType, AppendProperties DEF Record
  <2> QED
    BY <1>1, <1>9, <1>10, <2>2 DEF Record
<1>11. ASSUME NEW c \in Caller, NEW found \in SUBSET Pairs, Detect(c, found)
       PROVE  BatchTypes'
  <2>1. [NotBusy EXCEPT !.pc = "recording", !.todo = found] \in Progress
    BY NotBusyType DEF Progress, InProgress
  <2> QED
    BY <1>1, <1>11, <2>1 DEF Detect
<1>12. ASSUME NEW c \in Caller, NEW p \in Pairs, RecordFound(c, p)
       PROVE  BatchTypes'
  <2>1. conflict' \in Seq(Conflicts)
    BY <1>1, <1>12, RowType, AppendProperties DEF RecordFound
  <2>2. [batch[c] EXCEPT !.todo = batch[c].todo \ {p}] \in Progress
    BY <1>1 DEF Progress, InProgress
  <2>3. batch' \in [Caller -> Progress]
    BY <1>1, <1>12, <2>2, NotBusyType DEF RecordFound
  <2> QED
    BY <1>1, <1>9, <1>12, <2>1, <2>3 DEF RecordFound
<1>13. ASSUME NEW c \in Caller, NEW old \in Memory, NEW new \in Memory, Supersede(c, old, new)
       PROVE  BatchTypes'
  <2>1. {old, new} \in Pairs
    BY <1>13, PairType DEF Supersede
  <2>2. Settle({old, new}, new) \in Seq(Conflicts)
    BY <1>1, SettledRows
  <2>3. Row({old, new}, "supersede", new) \in Conflicts
    BY <2>1, RowType
  <2>4. conflict' \in Seq(Conflicts)
    BY <1>13, <2>2, <2>3, AppendProperties DEF Supersede
  <2>5. [item[old] EXCEPT !.status = "superseded"] \in Items
    BY <1>1 DEF Items
  <2>6. item' \in [Memory \cup Candidate -> Items]
    BY <1>1, <1>13, <2>5 DEF Supersede
  <2>7. crossed' \subseteq Pairs
    BY <1>9, <1>13, <2>1 DEF Supersede
  <2>8. UNCHANGED <<holder, batch, told, leaked>> /\ unsaved' = item'
    BY <1>13 DEF Supersede
  <2> QED
    BY <1>1, <2>4, <2>6, <2>7, <2>8
<1>14. CASE UNCHANGED batchVars
  BY <1>1, <1>14 DEF batchVars
<1> QED
  BY <1>2, <1>4, <1>5, <1>6, <1>7, <1>8, <1>10, <1>11, <1>12, <1>13, <1>14
     DEF BatchNext, BatchStep, ConflictStep

----------------------------------------------------------------------------
(* What a batch has changed is told. *)

\* Whatever has changed in some rows is among some operations.
AllIn(rows, ops) ==
    /\ \A m \in Memory : rows[m].status = "inactive" => [item |-> m, do |-> "deactivate"] \in ops
    /\ \A m \in Memory : rows[m].text = 2 => [item |-> m, do |-> "correct"] \in ops
    /\ \A k \in Candidate : rows[k].status = "approved" => [item |-> k, do |-> "approve"] \in ops
    /\ \A k \in Candidate : rows[k].status = "rejected" => [item |-> k, do |-> "reject"] \in ops

\* What was reported deactivated is not active in some rows.
StaysOff(rows, ops) == \A op \in ops : op.do = "deactivate" => rows[op.item].status # "active"

Pending(c) == IF holder = c THEN batch[c].broke ELSE {}

TruthInv ==
    /\ AllIn(item, told \cup leaked) /\ StaysOff(item, told)
    /\ holder = Nobody => unsaved = item
    /\ \A c \in Caller : holder = c => AllIn(unsaved, told \cup leaked \cup batch[c].broke)
    /\ StaysOff(unsaved, told)
    /\ \A c \in Caller : batch[c].stop => batch[c].broke = {}

LEMMA TruthInvInit == BatchInit => TruthInv
<1> SUFFICES ASSUME BatchInit
             PROVE  TruthInv
  OBVIOUS
<1>1. \A i \in Memory \cup Candidate : item[i].text = 1
         /\ item[i].status = IF i \in Memory THEN "active" ELSE "pending"
  BY DEF BatchInit
<1>2. AllIn(item, {})
  BY <1>1, ItemAssumption DEF AllIn
<1>3. \A c \in Caller : batch[c] = NotBusy
  BY DEF BatchInit
<1> QED
  BY <1>2, <1>3, NotBusyType, CallerAssumption DEF BatchInit, TruthInv, StaysOff

LEMMA SeenIsTold ==
    ASSUME BatchTypes, TruthInv, NEW c \in Caller
    PROVE  AllIn(Seen(c), told \cup leaked \cup Pending(c)) /\ StaysOff(Seen(c), told)
<1>1. CASE holder = c
  BY <1>1 DEF Seen, Pending, TruthInv
<1>2. CASE holder # c
  BY <1>2 DEF Seen, Pending, TruthInv
<1> QED
  BY <1>1, <1>2

LEMMA WrittenIsTold ==
    ASSUME BatchTypes, NEW c \in Caller, NEW op \in Operations, NEW ops, AllIn(Seen(c), ops),
           NEW rows, rows = [Seen(c) EXCEPT ![op.item] = Changed(op, @)],
           NEW was, StaysOff(Seen(c), was), was \subseteq Operations
    PROVE  AllIn(rows, ops \cup {op}) /\ StaysOff(rows, was \cup {op})
<1>1. /\ rows[op.item] = Changed(op, Seen(c)[op.item]) /\ op.item \in Memory \cup Candidate
      /\ \A i \in Memory \cup Candidate : i # op.item => rows[i] = Seen(c)[i]
  BY WrittenRows
<1>2. Seen(c)[op.item] \in Items
  BY <1>1, SeenType
<1>3. /\ Changed(op, Seen(c)[op.item]).status \in
           {Seen(c)[op.item].status} \cup (IF op.do = "deactivate" THEN {"inactive"} ELSE {})
             \cup (IF op.do = "approve" THEN {"approved"} ELSE {})
             \cup (IF op.do = "reject" THEN {"rejected"} ELSE {})
      /\ Changed(op, Seen(c)[op.item]).text = 2 =>
           Seen(c)[op.item].text = 2 \/ op.do = "correct"
      /\ op.do = "deactivate" => Changed(op, Seen(c)[op.item]).status = "inactive"
  BY <1>2, ChangedType
<1>4. op = [item |-> op.item, do |-> op.do] /\ op.do \in {"correct", "deactivate", "approve", "reject"}
  BY DEF Operations
<1> HIDE DEF Operations
<1>5. ASSUME NEW m \in Memory, rows[m].status = "inactive"
      PROVE  [item |-> m, do |-> "deactivate"] \in ops \cup {op}
  <2>1. CASE m # op.item
    BY <1>1, <1>5, <2>1 DEF AllIn
  <2>2. CASE m = op.item
    <3>1. Seen(c)[m].status = "inactive" \/ op.do = "deactivate"
      BY <1>1, <1>3, <1>5, <2>2
    <3> QED
      BY <1>4, <2>2, <3>1 DEF AllIn
  <2> QED
    BY <2>1, <2>2
<1>6. ASSUME NEW m \in Memory, rows[m].text = 2
      PROVE  [item |-> m, do |-> "correct"] \in ops \cup {op}
  <2>1. CASE m # op.item
    BY <1>1, <1>6, <2>1 DEF AllIn
  <2>2. CASE m = op.item
    <3>1. Seen(c)[m].text = 2 \/ op.do = "correct"
      BY <1>1, <1>3, <1>6, <2>2
    <3> QED
      BY <1>4, <2>2, <3>1 DEF AllIn
  <2> QED
    BY <2>1, <2>2
<1>7. ASSUME NEW k \in Candidate, rows[k].status = "approved"
      PROVE  [item |-> k, do |-> "approve"] \in ops \cup {op}
  <2>1. CASE k # op.item
    BY <1>1, <1>7, <2>1 DEF AllIn
  <2>2. CASE k = op.item
    <3>1. Seen(c)[k].status = "approved" \/ op.do = "approve"
      BY <1>1, <1>3, <1>7, <2>2
    <3> QED
      BY <1>4, <2>2, <3>1 DEF AllIn
  <2> QED
    BY <2>1, <2>2
<1>8. ASSUME NEW k \in Candidate, rows[k].status = "rejected"
      PROVE  [item |-> k, do |-> "reject"] \in ops \cup {op}
  <2>1. CASE k # op.item
    BY <1>1, <1>8, <2>1 DEF AllIn
  <2>2. CASE k = op.item
    <3>1. Seen(c)[k].status = "rejected" \/ op.do = "reject"
      BY <1>1, <1>3, <1>8, <2>2
    <3> QED
      BY <1>4, <2>2, <3>1 DEF AllIn
  <2> QED
    BY <2>1, <2>2
<1>9. AllIn(rows, ops \cup {op})
  BY <1>5, <1>6, <1>7, <1>8 DEF AllIn
<1>10. ASSUME NEW o \in was \cup {op}, o.do = "deactivate"
       PROVE  rows[o.item].status # "active"
  <2>1. o.item \in Memory \cup Candidate
    BY DEF Operations
  <2>2. CASE o.item # op.item
    <3>1. o \in was
      BY <2>2
    <3> QED
      BY <1>1, <1>10, <2>1, <2>2, <3>1 DEF StaysOff
  <2>3. CASE o.item = op.item
    <3>1. CASE op.do = "deactivate"
      BY <1>1, <1>3, <2>3, <3>1
    <3>2. CASE op.do # "deactivate"
      <4>1. o \in was
        BY <1>10, <3>2
      <4>2. Seen(c)[op.item].status # "active"
        BY <1>10, <2>3, <4>1 DEF StaysOff
      <4> QED
        BY <1>1, <1>3, <2>3, <3>2, <4>2
    <3> QED
      BY <3>1, <3>2
  <2> QED
    BY <2>2, <2>3
<1> QED
  BY <1>9, <1>10 DEF StaysOff

LEMMA MoreIsTold ==
    ASSUME NEW rows, NEW ops, NEW all, AllIn(rows, ops), ops \subseteq all
    PROVE  AllIn(rows, all)
BY DEF AllIn

\* A connection goes on or ends without a commit.
LEMMA EndsIsTold ==
    ASSUME BatchTypes, TruthInv, NEW c \in Caller, NEW b, b = NotBusy \/ b.broke = batch[c].broke,
           b.stop => b.broke = {}, Ends(c, b), UNCHANGED <<item, told, leaked>>
    PROVE  TruthInv'
<1>1. /\ AllIn(item, told \cup leaked) /\ StaysOff(item, told)
      /\ holder = Nobody => unsaved = item
      /\ \A d \in Caller : holder = d => AllIn(unsaved, told \cup leaked \cup batch[d].broke)
      /\ StaysOff(unsaved, told)
      /\ \A d \in Caller : batch[d].stop => batch[d].broke = {}
  BY DEF TruthInv
<1>2. /\ batch' = [batch EXCEPT ![c] = b] /\ batch \in [Caller -> Progress]
      /\ item' = item /\ told' = told /\ leaked' = leaked
  BY DEF Ends, BatchTypes
<1>3. batch'[c] = b /\ \A d \in Caller : d # c => batch'[d] = batch[d]
  BY <1>2
<1>4. \A d \in Caller : batch'[d].stop => batch'[d].broke = {}
  BY <1>1, <1>3
<1>5. CASE b = NotBusy /\ holder = c
  <2>1. holder' = Nobody /\ unsaved' = item
    BY <1>5 DEF Ends
  <2> QED
    BY <1>1, <1>2, <1>4, <2>1, CallerAssumption DEF TruthInv
<1>6. CASE ~(b = NotBusy /\ holder = c)
  <2>1. holder' = holder /\ unsaved' = unsaved
    BY <1>6 DEF Ends
  <2>2. \A d \in Caller : holder = d => batch'[d].broke = batch[d].broke
    BY <1>3, <1>6
  <2> QED
    BY <1>1, <1>2, <1>4, <2>1, <2>2 DEF TruthInv
<1> QED
  BY <1>5, <1>6

\* A connection commits the rows it sees, with or without an item of its own.
LEMMA CommitIsTold ==
    ASSUME BatchTypes, TruthInv, NEW c \in Caller, NEW rows, NEW b, b.broke = {},
           Commits(c, rows), batch' = [batch EXCEPT ![c] = b],
           AllIn(rows, told' \cup leaked \cup Pending(c)), StaysOff(rows, told')
    PROVE  TruthInv'
<1>1. item' = rows /\ unsaved' = rows /\ holder' = Nobody /\ leaked' = leaked \cup Pending(c)
  BY DEF Commits, Pending
<1>2. AllIn(item', told' \cup leaked')
  BY <1>1, MoreIsTold
<1>3. batch \in [Caller -> Progress] /\ \A d \in Caller : batch[d].stop => batch[d].broke = {}
  BY DEF BatchTypes, TruthInv
<1>4. \A d \in Caller : batch'[d].stop => batch'[d].broke = {}
  BY <1>3
<1> QED
  BY <1>1, <1>2, <1>4, CallerAssumption DEF TruthInv

\* A step that leaves the rows alone, and what the connections have left open.
LEMMA OthersAreTold ==
    ASSUME TruthInv, UNCHANGED <<item, unsaved, holder, told, leaked>>,
           \A c \in Caller : batch'[c].broke = batch[c].broke
                             /\ (batch'[c].stop => batch[c].stop \/ batch[c].broke = {})
    PROVE  TruthInv'
BY DEF TruthInv

LEMMA TruthInvNext ==
    ASSUME BatchTypes, TruthInv, [BatchNext]_batchVars
    PROVE  TruthInv'
<1>1. batch \in [Caller -> Progress] /\ told \subseteq Operations
      /\ \A c \in Caller : batch[c].stop => batch[c].broke = {}
  BY DEF BatchTypes, TruthInv
<1>2. ASSUME NEW c \in Caller, NEW n \in 1 .. 2, NEW ops \in [1 .. n -> Operations],
             NEW stop \in BOOLEAN, Start(c, ops, stop)
      PROVE  TruthInv'
  <2>1. [NotBusy EXCEPT !.pc = "next", !.ops = ops, !.stop = stop].broke = NotBusy.broke
    BY DEF NotBusy
  <2>2. \A d \in Caller : batch'[d].broke = batch[d].broke
                          /\ (batch'[d].stop => batch[d].stop \/ batch[d].broke = {})
    BY <1>1, <1>2, <2>1, NotBusyType DEF Start
  <2> QED
    BY <1>2, <2>2, OthersAreTold DEF Start
<1>3. ASSUME NEW c \in Caller, NEW b, Carries(c, b), Ends(c, b), UNCHANGED <<item, told, leaked>>
      PROVE  TruthInv'
  <2>1. b = NotBusy \/ b.broke = batch[c].broke
    BY <1>3 DEF Carries
  <2>2. b.stop => b.broke = {}
    BY <1>1, <1>3, NotBusyType DEF Carries
  <2> QED
    BY <1>3, <2>1, <2>2, EndsIsTold
<1>4. ASSUME NEW c \in Caller, Preview(c) \/ Fail(c) \/ Look(c)
      PROVE  TruthInv'
  <2>1. PICK b : Carries(c, b) /\ Ends(c, b) /\ UNCHANGED <<item, told, leaked>>
    <3>1. batch[c].pc \in {"next", "writing"}
      BY <1>4 DEF Preview, Fail, Look
    <3>2. /\ Carries(c, Pops(c, Rest(c))) /\ Carries(c, AfterError(c))
          /\ Carries(c, [batch[c] EXCEPT !.pc = "writing"])
      BY <3>1, BatchGoesOn
    <3>3. \/ Ends(c, Pops(c, Rest(c))) \/ Ends(c, AfterError(c))
          \/ Ends(c, [batch[c] EXCEPT !.pc = "writing"])
      BY <1>4 DEF Preview, Fail, Look
    <3>4. UNCHANGED <<item, told, leaked>>
      BY <1>4 DEF Preview, Fail, Look
    <3> QED
      BY <3>2, <3>3, <3>4
  <2> QED
    BY <1>3, <2>1
<1>5. ASSUME NEW c \in Caller, Deny(c)
      PROVE  TruthInv'
  <2>1. /\ Commits(c, Seen(c)) /\ told' = told /\ batch[c].pc \in {"next", "writing"}
        /\ batch' = [batch EXCEPT ![c] = IF AfterError(c) = NotBusy THEN NotBusy
                                         ELSE [AfterError(c) EXCEPT !.broke = {}]]
    BY <1>5 DEF Deny
  <2>2. [AfterError(c) EXCEPT !.broke = {}].broke = {}
    BY <2>1, BatchWritten
  <2>3. AllIn(Seen(c), told' \cup leaked \cup Pending(c)) /\ StaysOff(Seen(c), told')
    BY <2>1, SeenIsTold
  <2>4. PICK b : b.broke = {} /\ batch' = [batch EXCEPT ![c] = b]
    BY <2>1, <2>2, NotBusyType
  <2> QED
    BY <2>1, <2>3, <2>4, CommitIsTold
<1>6. ASSUME NEW c \in Caller, Write(c)
      PROVE  TruthInv'
  <2>1. PICK op : op = Next1(c)
    OBVIOUS
  <2>2. PICK rows : rows = [Seen(c) EXCEPT ![op.item] = Changed(op, @)]
    OBVIOUS
  <2>3. /\ Commits(c, rows) /\ told' = told \cup {op} /\ batch[c].pc \in {"next", "writing"}
        /\ batch' = [batch EXCEPT ![c] = Pops(c, [Rest(c) EXCEPT !.broke = {}])]
    BY <1>6, <2>1, <2>2 DEF Write
  <2>4. op \in Operations
    BY <2>1, <2>3, BatchGoesOn
  <2>5. Pops(c, [Rest(c) EXCEPT !.broke = {}]).broke = {}
    BY <2>3, BatchWritten
  <2>6. AllIn(Seen(c), told \cup leaked \cup Pending(c)) /\ StaysOff(Seen(c), told)
    BY SeenIsTold
  <2>7. AllIn(rows, told \cup leaked \cup Pending(c) \cup {op}) /\ StaysOff(rows, told \cup {op})
    BY <1>1, <2>2, <2>4, <2>6, WrittenIsTold
  <2>8. told \cup leaked \cup Pending(c) \cup {op} = told' \cup leaked \cup Pending(c)
    BY <2>3
  <2> QED
    BY <2>3, <2>5, <2>7, <2>8, CommitIsTold
<1>7. ASSUME NEW c \in Caller, Break(c)
      PROVE  TruthInv'
  <2>1. UNCHANGED <<item, told, leaked>> /\ batch[c].pc \in {"next", "writing"}
    BY <1>7 DEF Break
  <2>2. CASE AfterError(c) = NotBusy
    <3>1. Ends(c, NotBusy)
      BY <1>7, <2>2 DEF Break
    <3> QED
      BY <1>3, <2>1, <3>1, NotBusyType DEF Carries
  <2>3. CASE AfterError(c) # NotBusy
    <3>1. PICK op : op = Next1(c)
      OBVIOUS
    <3>2. PICK rows : rows = [Seen(c) EXCEPT ![op.item] = Changed(op, @)]
      OBVIOUS
    <3>3. PICK b : b = [AfterError(c) EXCEPT !.broke = @ \cup {op}]
      OBVIOUS
    <3>4. /\ unsaved' = rows /\ holder' = c /\ batch' = [batch EXCEPT ![c] = b] /\ MayWrite(c)
      BY <1>7, <2>3, <3>1, <3>2, <3>3 DEF Break
    <3>5. /\ op \in Operations /\ AfterError(c).broke = batch[c].broke
          /\ AfterError(c) \in InProgress /\ ~batch[c].stop /\ AfterError(c).stop = batch[c].stop
      BY <2>1, <2>3, <3>1, BatchGoesOn DEF Carries, Progress
    <3>6. b.broke = batch[c].broke \cup {op} /\ ~b.stop
      BY <3>3, <3>5 DEF InProgress
    <3>7. AllIn(Seen(c), told \cup leaked \cup Pending(c)) /\ StaysOff(Seen(c), told)
      BY SeenIsTold
    <3>8. AllIn(rows, told \cup leaked \cup Pending(c) \cup {op}) /\ StaysOff(rows, told \cup {op})
      BY <1>1, <3>2, <3>5, <3>7, WrittenIsTold
    <3>9. told \cup leaked \cup Pending(c) \cup {op} \subseteq told \cup leaked \cup b.broke
      BY <3>6 DEF Pending
    <3>10. AllIn(rows, told \cup leaked \cup b.broke) /\ StaysOff(rows, told)
      BY <3>8, <3>9, MoreIsTold DEF StaysOff
    <3>11. batch'[c] = b /\ \A d \in Caller : d # c => batch'[d] = batch[d]
      BY <1>1, <3>4
    <3>12. \A d \in Caller : batch'[d].stop => batch'[d].broke = {}
      BY <1>1, <3>6, <3>11
    <3>13. AllIn(item, told \cup leaked) /\ StaysOff(item, told)
      BY DEF TruthInv
    <3> QED
      BY <2>1, <3>4, <3>10, <3>11, <3>12, <3>13, CallerAssumption DEF TruthInv
  <2> QED
    BY <2>2, <2>3
<1>8. ASSUME NEW c \in Caller, Die(c)
      PROVE  TruthInv'
  BY <1>3, <1>8, NotBusyType DEF Die, Carries
<1>9. ASSUME NEW c \in Caller, NEW p \in Pairs, NEW winner \in p \cup {Nobody},
             Record(c, p, winner)
      PROVE  TruthInv'
  BY <1>9, OthersAreTold DEF Record
<1>10. ASSUME NEW c \in Caller, NEW found \in SUBSET Pairs, Detect(c, found)
       PROVE  TruthInv'
  <2>1. /\ [NotBusy EXCEPT !.pc = "recording", !.todo = found].broke = NotBusy.broke
        /\ ~[NotBusy EXCEPT !.pc = "recording", !.todo = found].stop
    BY DEF NotBusy
  <2>2. \A d \in Caller : batch'[d].broke = batch[d].broke
                          /\ (batch'[d].stop => batch[d].stop \/ batch[d].broke = {})
    BY <1>1, <1>10, <2>1 DEF Detect
  <2> QED
    BY <1>10, <2>2, OthersAreTold DEF Detect
<1>11. ASSUME NEW c \in Caller, NEW p \in Pairs, RecordFound(c, p)
       PROVE  TruthInv'
  <2>1. holder = Nobody /\ UNCHANGED <<item, unsaved, holder, told, leaked>>
    BY <1>11 DEF RecordFound
  <2>2. batch'[c] = NotBusy \/ batch'[c] = [batch[c] EXCEPT !.todo = batch[c].todo \ {p}]
    BY <1>1, <1>11 DEF RecordFound
  <2>3. ~NotBusy.stop
    BY DEF NotBusy
  <2>4. batch'[c].stop => batch'[c].broke = {}
    BY <1>1, <2>2, <2>3 DEF Progress, InProgress
  <2>5. \A d \in Caller : d # c => batch'[d] = batch[d]
    BY <1>1, <1>11 DEF RecordFound
  <2> QED
    BY <1>1, <2>1, <2>4, <2>5, CallerAssumption DEF TruthInv
<1>12. ASSUME NEW c \in Caller, NEW old \in Memory, NEW new \in Memory, Supersede(c, old, new)
       PROVE  TruthInv'
  <2>1. /\ item' = [item EXCEPT ![old].status = "superseded"] /\ unsaved' = item'
        /\ holder = Nobody /\ UNCHANGED <<holder, batch, told, leaked>>
    BY <1>12 DEF Supersede
  <2>2. item \in [Memory \cup Candidate -> Items]
    BY DEF BatchTypes
  <2>3. /\ item'[old].status = "superseded" /\ item'[old].text = item[old].text
        /\ \A i \in Memory \cup Candidate : i # old => item'[i] = item[i]
    BY <2>1, <2>2 DEF Items
  <2>4. AllIn(item, told \cup leaked) /\ StaysOff(item, told)
    BY DEF TruthInv
  <2>5. AllIn(item', told \cup leaked)
    BY <2>3, <2>4 DEF AllIn
  <2>6. StaysOff(item', told)
    <3> SUFFICES ASSUME NEW op \in told, op.do = "deactivate"
                 PROVE  item'[op.item].status # "active"
      BY DEF StaysOff
    <3>1. op.item \in Memory \cup Candidate
      BY <1>1 DEF Operations
    <3> QED
      BY <2>3, <2>4, <3>1 DEF StaysOff
  <2> QED
    BY <1>1, <2>1, <2>5, <2>6, CallerAssumption DEF TruthInv
<1>13. CASE UNCHANGED batchVars
  BY <1>13, OthersAreTold DEF batchVars
<1> QED
  BY <1>2, <1>4, <1>5, <1>6, <1>7, <1>8, <1>9, <1>10, <1>11, <1>12, <1>13
     DEF BatchNext, BatchStep, ConflictStep

LEMMA TruthInvHolds == BatchSpec => [](BatchTypes /\ TruthInv)
<1>1. BatchInit => BatchTypes /\ TruthInv
  BY BatchTypesInit, TruthInvInit
<1>2. BatchTypes /\ TruthInv /\ [BatchNext]_batchVars => (BatchTypes /\ TruthInv)'
  BY BatchTypesNext, TruthInvNext
<1> QED
  BY <1>1, <1>2, PTL DEF BatchSpec

\* Every variable of the batches and conflicts stays within its type.
THEOREM BatchTypeCorrect == BatchSpec => []BatchTypeOK
BY TruthInvHolds, BatchTypesImply, PTL

\* Nothing changes without an answer that says so, but what broke after it had written and
\* was committed by a later item of its batch, which stop_on_error rules out; and what was
\* reported deactivated is not active again.
THEOREM BatchesAreTruthful == BatchSpec => []BatchesTellTheTruth
<1>1. ASSUME BatchTypes, TruthInv
      PROVE  BatchesTellTheTruth
  <2>1. Effects \subseteq told \cup leaked
    BY <1>1 DEF TruthInv, AllIn, Effects
  <2> QED
    BY <1>1, <2>1 DEF TruthInv, StaysOff, BatchesTellTheTruth
<1> QED
  BY <1>1, TruthInvHolds, PTL

----------------------------------------------------------------------------
(* Conflicts are settled. *)

\* Row i of the conflicts says what memory m was superseded by.
Supersedes(rows, i, m) ==
    rows[i].by = "supersede" /\ m \in rows[i].pair \ {rows[i].winner} /\ rows[i].status = "resolved"

\* Whatever is superseded in some rows has its conflict.
SupersededIn(rows) ==
    \A m \in Memory : rows[m].status = "superseded" =>
      \E i \in 1 .. Len(conflict) : Supersedes(conflict, i, m)

\* A pair is detected once unless detections overlapped on it.
DetectedOnce(rows, excuses) ==
    \A i, j \in 1 .. Len(rows) :
      rows[i].pair = rows[j].pair /\ i < j /\ rows[j].by = "detection" => rows[j].pair \in excuses

\* What is open was recorded after the last supersession of its pair.
OpenLast(rows) ==
    \A i, j \in 1 .. Len(rows) :
      rows[i].pair = rows[j].pair /\ rows[i].status = "open" /\ rows[j].by = "supersede" => j < i

SettledInv ==
    /\ DetectedOnce(conflict, crossed)
    /\ OpenLast(conflict)
    /\ \A c \in Caller : \A p \in batch[c].todo : p \in Recorded => p \in crossed
    /\ SupersededIn(item) /\ SupersededIn(unsaved)

LEMMA SettledInvInit == BatchInit => SettledInv
<1> SUFFICES ASSUME BatchInit
             PROVE  SettledInv
  OBVIOUS
<1>1. \A m \in Memory : item[m].status = "active"
  BY DEF BatchInit
<1>2. Len(conflict) = 0 /\ unsaved = item
  BY DEF BatchInit
<1>3. \A c \in Caller : batch[c].todo = {}
  BY NotBusyType DEF BatchInit
<1> QED
  BY <1>1, <1>2, <1>3 DEF SettledInv, DetectedOnce, OpenLast, SupersededIn

\* A row is appended to the conflicts, after others were settled.
LEMMA AppendedConflict ==
    ASSUME NEW rows \in Seq(Conflicts), NEW r \in Conflicts
    PROVE  /\ Append(rows, r) \in Seq(Conflicts)
           /\ Len(Append(rows, r)) = Len(rows) + 1 /\ Len(rows) \in Nat
           /\ Append(rows, r)[Len(rows) + 1] = r
           /\ \A i \in 1 .. Len(rows) : Append(rows, r)[i] = rows[i]
BY AppendProperties

LEMMA RecordedPairs ==
    ASSUME BatchTypes, NEW p
    PROVE  p \in Recorded <=> \E i \in 1 .. Len(conflict) : conflict[i].pair = p
BY DEF BatchTypes, Recorded

\* The conflicts after one more was recorded.
LEMMA RecordIsSettled ==
    ASSUME BatchTypes, SettledInv, NEW c \in Caller, NEW p \in Pairs,
           NEW by \in {"detection", "caller"}, NEW winner \in Memory \cup {Nobody},
           conflict' = Append(conflict, Row(p, by, winner)), Crosses(c, p),
           by = "detection" => p \in batch[c].todo,
           \A d \in Caller : batch'[d].todo \subseteq batch[d].todo,
           by # "detection" => batch[c].todo = {}, p \notin batch'[c].todo,
           UNCHANGED <<item, unsaved>>
    PROVE  SettledInv'
<1> DEFINE r == Row(p, by, winner)
           n == Len(conflict)
<1>1. /\ conflict \in Seq(Conflicts) /\ r \in Conflicts
      /\ r.pair = p /\ r.by = by
  BY RowType DEF BatchTypes, Row
<1>2. /\ Len(conflict') = n + 1 /\ n \in Nat /\ conflict'[n + 1] = r
      /\ \A i \in 1 .. n : conflict'[i] = conflict[i]
  BY <1>1, AppendedConflict
<1> HIDE DEF r, n
<1>3. crossed \subseteq crossed' /\ \A d \in Caller : d # c /\ p \in batch[d].todo => p \in crossed'
  BY DEF Crosses
<1>4. by = "detection" /\ p \in Recorded => p \in crossed'
  BY <1>3 DEF SettledInv
<1>5. \A i \in 1 .. n : conflict[i].pair = p => p \in Recorded
  BY RecordedPairs DEF n
<1>6. DetectedOnce(conflict', crossed')
  <2> SUFFICES ASSUME NEW i \in 1 .. n + 1, NEW j \in 1 .. n + 1, i < j,
                      conflict'[i].pair = conflict'[j].pair, conflict'[j].by = "detection"
               PROVE  conflict'[j].pair \in crossed'
    BY <1>2 DEF DetectedOnce
  <2>1. i \in 1 .. n /\ conflict'[i] = conflict[i]
    BY <1>2
  <2>2. CASE j = n + 1
    <3>1. by = "detection" /\ conflict[i].pair = p
      BY <1>1, <1>2, <2>1, <2>2
    <3> QED
      BY <1>1, <1>2, <1>4, <1>5, <2>1, <2>2, <3>1
  <2>3. CASE j # n + 1
    <3>1. j \in 1 .. n /\ conflict'[j] = conflict[j]
      BY <1>2, <2>3
    <3>2. DetectedOnce(conflict, crossed)
      BY DEF SettledInv
    <3>3. conflict[j].pair \in crossed
      BY <2>1, <3>1, <3>2 DEF DetectedOnce, n
    <3> QED
      BY <1>3, <3>1, <3>3
  <2> QED
    BY <2>2, <2>3
<1>7. OpenLast(conflict')
  <2> SUFFICES ASSUME NEW i \in 1 .. n + 1, NEW j \in 1 .. n + 1, conflict'[j].by = "supersede",
                      conflict'[i].pair = conflict'[j].pair, conflict'[i].status = "open"
               PROVE  j < i
    BY <1>2 DEF OpenLast
  <2>1. j \in 1 .. n /\ conflict'[j] = conflict[j]
    BY <1>1, <1>2
  <2>2. CASE i = n + 1
    BY <1>2, <2>1, <2>2
  <2>3. CASE i # n + 1
    <3>1. i \in 1 .. n /\ conflict'[i] = conflict[i]
      BY <1>2, <2>3
    <3>2. OpenLast(conflict)
      BY DEF SettledInv
    <3> QED
      BY <2>1, <3>1, <3>2 DEF OpenLast, n
  <2> QED
    BY <2>2, <2>3
<1>8. ASSUME NEW d \in Caller, NEW q \in batch'[d].todo, q \in Recorded'
      PROVE  q \in crossed'
  <2>1. q \in batch[d].todo
    BY <1>8
  <2>2. \E i \in DOMAIN conflict' : conflict'[i].pair = q
    BY <1>8 DEF Recorded
  <2>3. DOMAIN conflict' = 1 .. n + 1
    <3>1. conflict' \in Seq(Conflicts)
      BY <1>1, AppendedConflict DEF r
    <3> QED
      BY <1>2, <3>1
  <2>4. q = p \/ q \in Recorded
    BY <1>1, <1>2, <1>5, <2>2, <2>3, RecordedPairs DEF n
  <2>5. CASE q \in Recorded
    BY <1>3, <2>1, <2>5 DEF SettledInv
  <2>6. CASE q = p
    BY <1>3, <1>8, <2>1, <2>6
  <2> QED
    BY <2>4, <2>5, <2>6
<1>9. ASSUME NEW rows, SupersededIn(rows), NEW m \in Memory, rows[m].status = "superseded"
      PROVE  \E i \in 1 .. Len(conflict') : Supersedes(conflict', i, m)
  <2>1. PICK i \in 1 .. n : Supersedes(conflict, i, m)
    BY <1>9 DEF SupersededIn, n
  <2>2. i \in 1 .. n + 1 /\ Supersedes(conflict', i, m)
    BY <1>2, <2>1 DEF Supersedes
  <2> QED
    BY <1>2, <2>2
<1>10. SupersededIn(item)' /\ SupersededIn(unsaved)'
  BY <1>9 DEF SettledInv, SupersededIn
<1> QED
  BY <1>6, <1>7, <1>8, <1>10 DEF SettledInv

\* The conflicts after a supersession.
LEMMA SupersessionSettles ==
    ASSUME BatchTypes, SettledInv, NEW c \in Caller, NEW old \in Memory, NEW new \in Memory,
           Supersede(c, old, new)
    PROVE  SettledInv'
<1> DEFINE p == {old, new}
           k == Settle(p, new)
           r == Row(p, "supersede", new)
           n == Len(conflict)
<1>1. /\ old # new /\ conflict' = Append(k, r) /\ Crosses(c, p) /\ batch[c] = NotBusy
      /\ item' = [item EXCEPT ![old].status = "superseded"] /\ unsaved' = item'
      /\ holder = Nobody /\ UNCHANGED <<holder, batch, told, leaked>>
  BY DEF Supersede
<1>2. conflict \in Seq(Conflicts) /\ item \in [Memory \cup Candidate -> Items]
  BY DEF BatchTypes
<1>3. /\ r \in Conflicts /\ r.pair = p /\ r.by = "supersede" /\ r.status = "resolved"
      /\ r.winner = new
  <2>1. p \in Pairs
    BY <1>1, PairType
  <2>2. new # Nobody
    BY CallerAssumption
  <2> QED
    BY <2>1, <2>2, RowType DEF Row
<1>4. /\ k \in Seq(Conflicts) /\ Len(k) = n
      /\ \A i \in 1 .. n :
           /\ k[i].pair = conflict[i].pair
           /\ k[i].by = conflict[i].by
           /\ conflict[i].status = "resolved" => k[i] = conflict[i]
           /\ k[i].status = "open" => conflict[i].status = "open" /\ conflict[i].pair # p
  BY <1>2, SettledRows
<1> HIDE DEF k, r
<1>5. /\ Len(conflict') = n + 1 /\ n \in Nat /\ conflict'[n + 1] = r
      /\ \A i \in 1 .. n : conflict'[i] = k[i]
      /\ conflict' \in Seq(Conflicts)
  BY <1>1, <1>3, <1>4, AppendedConflict
<1> HIDE DEF n
<1>6. crossed \subseteq crossed' /\ \A d \in Caller : d # c /\ p \in batch[d].todo => p \in crossed'
  BY <1>1 DEF Crosses
<1>7. DetectedOnce(conflict', crossed')
  <2> SUFFICES ASSUME NEW i \in 1 .. n + 1, NEW j \in 1 .. n + 1, i < j,
                      conflict'[i].pair = conflict'[j].pair, conflict'[j].by = "detection"
               PROVE  conflict'[j].pair \in crossed'
    BY <1>5 DEF DetectedOnce
  <2>1. j # n + 1
    BY <1>3, <1>5
  <2>2. i \in 1 .. n /\ j \in 1 .. n
    BY <1>5, <2>1
  <2>3. conflict[i].pair = conflict[j].pair /\ conflict[j].by = "detection"
        /\ conflict'[j].pair = conflict[j].pair
    BY <1>4, <1>5, <2>2
  <2>4. DetectedOnce(conflict, crossed)
    BY DEF SettledInv
  <2>5. conflict[j].pair \in crossed
    BY <2>2, <2>3, <2>4 DEF DetectedOnce, n
  <2> QED
    BY <1>6, <2>3, <2>5
<1>8. OpenLast(conflict')
  <2> SUFFICES ASSUME NEW i \in 1 .. n + 1, NEW j \in 1 .. n + 1, conflict'[j].by = "supersede",
                      conflict'[i].pair = conflict'[j].pair, conflict'[i].status = "open"
               PROVE  j < i
    BY <1>5 DEF OpenLast
  <2>1. i # n + 1
    BY <1>3, <1>5
  <2>2. i \in 1 .. n
    BY <1>5, <2>1
  <2>3. conflict[i].status = "open" /\ conflict[i].pair # p /\ conflict'[i].pair = conflict[i].pair
    BY <1>4, <1>5, <2>2
  <2>4. j # n + 1
    BY <1>3, <1>5, <2>3
  <2>5. j \in 1 .. n
    BY <1>5, <2>4
  <2>6. conflict[j].by = "supersede" /\ conflict[i].pair = conflict[j].pair
    BY <1>4, <1>5, <2>3, <2>5
  <2>7. OpenLast(conflict)
    BY DEF SettledInv
  <2> QED
    BY <2>2, <2>3, <2>5, <2>6, <2>7 DEF OpenLast, n
<1>9. ASSUME NEW d \in Caller, NEW q \in batch'[d].todo, q \in Recorded'
      PROVE  q \in crossed'
  <2>1. q \in batch[d].todo
    BY <1>1, <1>9
  <2>2. \E i \in 1 .. n + 1 : conflict'[i].pair = q
    BY <1>5, <1>9 DEF Recorded
  <2>3. \A i \in 1 .. n : conflict'[i].pair = conflict[i].pair
    BY <1>4, <1>5
  <2>4. q = p \/ q \in Recorded
    BY <1>3, <1>5, <2>2, <2>3, RecordedPairs DEF n
  <2>5. CASE q \in Recorded
    BY <1>6, <2>1, <2>5 DEF SettledInv
  <2>6. CASE q = p
    <3>1. d # c
      BY <1>1, <2>1, NotBusyType
    <3> QED
      BY <1>6, <2>1, <2>6, <3>1
  <2> QED
    BY <2>4, <2>5, <2>6
<1>10. ASSUME NEW m \in Memory, item'[m].status = "superseded"
       PROVE  \E i \in 1 .. Len(conflict') : Supersedes(conflict', i, m)
  <2>1. CASE m = old
    <3>1. Supersedes(conflict', n + 1, m)
      BY <1>1, <1>3, <1>5, <2>1 DEF Supersedes
    <3> QED
      BY <1>5, <3>1
  <2>2. CASE m # old
    <3>1. item[m].status = "superseded"
      BY <1>1, <1>2, <1>10, <2>2
    <3>2. PICK i \in 1 .. n : Supersedes(conflict, i, m)
      BY <3>1 DEF SettledInv, SupersededIn, n
    <3>3. conflict'[i] = conflict[i]
      BY <1>4, <1>5, <3>2 DEF Supersedes
    <3>4. Supersedes(conflict', i, m) /\ i \in 1 .. n + 1
      BY <1>5, <3>2, <3>3 DEF Supersedes
    <3> QED
      BY <1>5, <3>4
  <2> QED
    BY <2>1, <2>2
<1>11. SupersededIn(item)' /\ SupersededIn(unsaved)'
  BY <1>1, <1>10 DEF SupersededIn
<1> QED
  BY <1>7, <1>8, <1>9, <1>11 DEF SettledInv

\* A step that records nothing.
LEMMA NothingRecorded ==
    ASSUME SettledInv, UNCHANGED <<conflict, crossed>>,
           \A d \in Caller : \A p \in batch'[d].todo : p \in batch[d].todo \/ p \notin Recorded,
           SupersededIn(item'), SupersededIn(unsaved')
    PROVE  SettledInv'
<1>1. Recorded' = Recorded
  BY DEF Recorded
<1>2. SupersededIn(item)' /\ SupersededIn(unsaved)'
  BY DEF SupersededIn
<1> QED
  BY <1>1, <1>2 DEF SettledInv

LEMMA SeenSuperseded ==
    ASSUME SettledInv, NEW c \in Caller
    PROVE  SupersededIn(Seen(c))
BY DEF SettledInv, Seen

LEMMA WrittenSuperseded ==
    ASSUME BatchTypes, SettledInv, NEW c \in Caller, NEW op \in Operations,
           NEW rows, rows = [Seen(c) EXCEPT ![op.item] = Changed(op, @)]
    PROVE  SupersededIn(rows)
<1>1. /\ rows[op.item] = Changed(op, Seen(c)[op.item]) /\ op.item \in Memory \cup Candidate
      /\ \A i \in Memory \cup Candidate : i # op.item => rows[i] = Seen(c)[i]
  BY WrittenRows
<1>2. Seen(c)[op.item] \in Items
  BY <1>1, SeenType
<1>3. Changed(op, Seen(c)[op.item]).status \in
        {Seen(c)[op.item].status} \cup (IF op.do = "deactivate" THEN {"inactive"} ELSE {})
          \cup (IF op.do = "approve" THEN {"approved"} ELSE {})
          \cup (IF op.do = "reject" THEN {"rejected"} ELSE {})
  BY <1>2, ChangedType
<1>4. rows[op.item].status = "superseded" => Seen(c)[op.item].status = "superseded"
  BY <1>1, <1>3
<1>5. \A m \in Memory : rows[m].status = "superseded" => Seen(c)[m].status = "superseded"
  BY <1>1, <1>4
<1> QED
  BY <1>5, SeenSuperseded DEF SupersededIn

LEMMA SettledInvNext ==
    ASSUME BatchTypes, SettledInv, [BatchNext]_batchVars
    PROVE  SettledInv'
<1>1. batch \in [Caller -> Progress] /\ SupersededIn(item) /\ SupersededIn(unsaved)
  BY DEF BatchTypes, SettledInv
<1>2. ASSUME NEW c \in Caller, NEW b, b.todo \subseteq batch[c].todo,
             batch' = [batch EXCEPT ![c] = b], UNCHANGED <<conflict, crossed>>,
             SupersededIn(item'), SupersededIn(unsaved')
      PROVE  SettledInv'
  <2>1. \A d \in Caller : batch'[d].todo \subseteq batch[d].todo
    BY <1>1, <1>2
  <2> QED
    BY <1>2, <2>1, NothingRecorded
<1>3. ASSUME NEW c \in Caller, NEW b, Carries(c, b), Ends(c, b), UNCHANGED <<item, conflict, crossed>>
      PROVE  SettledInv'
  <2>1. b.todo \subseteq batch[c].todo
    BY <1>3, NotBusyType DEF Carries
  <2>2. unsaved' = unsaved \/ unsaved' = item
    BY <1>3 DEF Ends
  <2>3. SupersededIn(item') /\ SupersededIn(unsaved')
    BY <1>1, <1>3, <2>2
  <2> QED
    BY <1>2, <1>3, <2>1, <2>3 DEF Ends
<1>4. ASSUME NEW c \in Caller, NEW n \in 1 .. 2, NEW ops \in [1 .. n -> Operations],
             NEW stop \in BOOLEAN, Start(c, ops, stop)
      PROVE  SettledInv'
  <2>1. [NotBusy EXCEPT !.pc = "next", !.ops = ops, !.stop = stop].todo = NotBusy.todo
    BY DEF NotBusy
  <2>2. UNCHANGED <<item, unsaved, conflict, crossed>>
        /\ batch' = [batch EXCEPT ![c] = [NotBusy EXCEPT !.pc = "next", !.ops = ops, !.stop = stop]]
    BY <1>4 DEF Start
  <2>3. SupersededIn(item') /\ SupersededIn(unsaved')
    BY <1>1, <2>2
  <2> QED
    BY <1>2, <2>1, <2>2, <2>3, NotBusyType
<1>5. ASSUME NEW c \in Caller, Preview(c) \/ Fail(c) \/ Look(c)
      PROVE  SettledInv'
  <2>1. PICK b : Carries(c, b) /\ Ends(c, b) /\ UNCHANGED <<item, conflict, crossed>>
    <3>1. batch[c].pc \in {"next", "writing"}
      BY <1>5 DEF Preview, Fail, Look
    <3>2. /\ Carries(c, Pops(c, Rest(c))) /\ Carries(c, AfterError(c))
          /\ Carries(c, [batch[c] EXCEPT !.pc = "writing"])
      BY <3>1, BatchGoesOn
    <3>3. \/ Ends(c, Pops(c, Rest(c))) \/ Ends(c, AfterError(c))
          \/ Ends(c, [batch[c] EXCEPT !.pc = "writing"])
      BY <1>5 DEF Preview, Fail, Look
    <3>4. UNCHANGED <<item, conflict, crossed>>
      BY <1>5 DEF Preview, Fail, Look
    <3> QED
      BY <3>2, <3>3, <3>4
  <2> QED
    BY <1>3, <2>1
<1>6. ASSUME NEW c \in Caller, Deny(c)
      PROVE  SettledInv'
  <2>1. /\ item' = Seen(c) /\ unsaved' = Seen(c) /\ UNCHANGED <<conflict, crossed>>
        /\ batch[c].pc \in {"next", "writing"}
        /\ batch' = [batch EXCEPT ![c] = IF AfterError(c) = NotBusy THEN NotBusy
                                         ELSE [AfterError(c) EXCEPT !.broke = {}]]
    BY <1>6 DEF Deny, Commits
  <2>2. [AfterError(c) EXCEPT !.broke = {}].todo \subseteq batch[c].todo
    BY <2>1, BatchWritten
  <2>3. PICK b : b.todo \subseteq batch[c].todo /\ batch' = [batch EXCEPT ![c] = b]
    BY <2>1, <2>2, NotBusyType
  <2>4. SupersededIn(item') /\ SupersededIn(unsaved')
    BY <2>1, SeenSuperseded
  <2> QED
    BY <1>2, <2>1, <2>3, <2>4
<1>7. ASSUME NEW c \in Caller, Write(c)
      PROVE  SettledInv'
  <2>1. PICK op : op = Next1(c)
    OBVIOUS
  <2>2. PICK rows : rows = [Seen(c) EXCEPT ![op.item] = Changed(op, @)]
    OBVIOUS
  <2>3. /\ item' = rows /\ unsaved' = rows /\ UNCHANGED <<conflict, crossed>>
        /\ batch[c].pc \in {"next", "writing"}
        /\ batch' = [batch EXCEPT ![c] = Pops(c, [Rest(c) EXCEPT !.broke = {}])]
    BY <1>7, <2>1, <2>2 DEF Write, Commits
  <2>4. op \in Operations
    BY <2>1, <2>3, BatchGoesOn
  <2>5. SupersededIn(item') /\ SupersededIn(unsaved')
    BY <2>2, <2>3, <2>4, WrittenSuperseded
  <2>6. Pops(c, [Rest(c) EXCEPT !.broke = {}]).todo \subseteq batch[c].todo
    BY <2>3, BatchWritten
  <2> QED
    BY <1>2, <2>3, <2>5, <2>6
<1>8. ASSUME NEW c \in Caller, Break(c)
      PROVE  SettledInv'
  <2>1. UNCHANGED <<item, conflict, crossed>> /\ batch[c].pc \in {"next", "writing"}
    BY <1>8 DEF Break
  <2>2. CASE AfterError(c) = NotBusy
    <3>1. Ends(c, NotBusy)
      BY <1>8, <2>2 DEF Break
    <3> QED
      BY <1>3, <2>1, <3>1, NotBusyType DEF Carries
  <2>3. CASE AfterError(c) # NotBusy
    <3>1. PICK op : op = Next1(c)
      OBVIOUS
    <3>2. PICK rows : rows = [Seen(c) EXCEPT ![op.item] = Changed(op, @)]
      OBVIOUS
    <3>3. PICK b : b = [AfterError(c) EXCEPT !.broke = @ \cup {op}]
      OBVIOUS
    <3>4. unsaved' = rows /\ batch' = [batch EXCEPT ![c] = b]
      BY <1>8, <2>3, <3>1, <3>2, <3>3 DEF Break
    <3>5. op \in Operations /\ AfterError(c) \in InProgress /\ AfterError(c).todo = batch[c].todo
      BY <2>1, <2>3, <3>1, BatchGoesOn DEF Carries, Progress
    <3>6. b.todo \subseteq batch[c].todo
      BY <3>3, <3>5 DEF InProgress
    <3>7. SupersededIn(item') /\ SupersededIn(unsaved')
      BY <1>1, <2>1, <3>2, <3>4, <3>5, WrittenSuperseded
    <3> QED
      BY <1>2, <2>1, <3>4, <3>6, <3>7
  <2> QED
    BY <2>2, <2>3
<1>9. ASSUME NEW c \in Caller, Die(c)
      PROVE  SettledInv'
  BY <1>3, <1>9, NotBusyType DEF Die, Carries
<1>10. ASSUME NEW c \in Caller, NEW p \in Pairs, NEW winner \in p \cup {Nobody},
              Record(c, p, winner)
       PROVE  SettledInv'
  <2>1. /\ conflict' = Append(conflict, Row(p, "caller", winner)) /\ Crosses(c, p)
        /\ batch[c].todo = {} /\ UNCHANGED <<item, unsaved, batch>>
    BY <1>10, NotBusyType DEF Record
  <2>2. winner \in Memory \cup {Nobody}
    BY DEF Pairs
  <2> QED
    BY <2>1, <2>2, RecordIsSettled
<1>11. ASSUME NEW c \in Caller, NEW found \in SUBSET Pairs, Detect(c, found)
       PROVE  SettledInv'
  <2>1. /\ UNCHANGED <<item, unsaved, conflict, crossed>> /\ \A p \in found : p \notin Recorded
        /\ batch' = [batch EXCEPT ![c] = [NotBusy EXCEPT !.pc = "recording", !.todo = found]]
    BY <1>11 DEF Detect
  <2>2. [NotBusy EXCEPT !.pc = "recording", !.todo = found].todo = found
    BY DEF NotBusy
  <2>3. \A d \in Caller : \A p \in batch'[d].todo : p \in batch[d].todo \/ p \notin Recorded
    BY <1>1, <2>1, <2>2
  <2>4. SupersededIn(item') /\ SupersededIn(unsaved')
    BY <1>1, <2>1
  <2> QED
    BY <2>1, <2>3, <2>4, NothingRecorded
<1>12. ASSUME NEW c \in Caller, NEW p \in Pairs, RecordFound(c, p)
       PROVE  SettledInv'
  <2>1. /\ conflict' = Append(conflict, Row(p, "detection", Nobody)) /\ Crosses(c, p)
        /\ p \in batch[c].todo /\ UNCHANGED <<item, unsaved>>
    BY <1>12 DEF RecordFound
  <2>2. batch'[c] = NotBusy \/ batch'[c] = [batch[c] EXCEPT !.todo = batch[c].todo \ {p}]
    BY <1>1, <1>12 DEF RecordFound
  <2>3. batch'[c].todo \subseteq batch[c].todo \ {p}
    BY <1>1, <2>2, NotBusyType DEF Progress, InProgress
  <2>4. \A d \in Caller : batch'[d].todo \subseteq batch[d].todo
    BY <1>1, <1>12, <2>3 DEF RecordFound
  <2> QED
    BY <2>1, <2>3, <2>4, RecordIsSettled
<1>13. ASSUME NEW c \in Caller, NEW old \in Memory, NEW new \in Memory, Supersede(c, old, new)
       PROVE  SettledInv'
  BY <1>13, SupersessionSettles
<1>14. CASE UNCHANGED batchVars
  <2>1. UNCHANGED <<item, unsaved, batch, conflict, crossed>>
    BY <1>14 DEF batchVars
  <2>2. SupersededIn(item') /\ SupersededIn(unsaved')
    BY <1>1, <2>1
  <2> QED
    BY <2>1, <2>2, NothingRecorded
<1> QED
  BY <1>4, <1>5, <1>6, <1>7, <1>8, <1>9, <1>10, <1>11, <1>12, <1>13, <1>14
     DEF BatchNext, BatchStep, ConflictStep

\* A pair is detected once unless two calls overlapped on it; a supersession resolves every
\* open conflict of its pair; and a superseded memory has the row that says by what.
THEOREM ConflictsSettle == BatchSpec => []ConflictsAreSettled
<1>1. BatchInit => BatchTypes /\ SettledInv
  BY BatchTypesInit, SettledInvInit
<1>2. BatchTypes /\ SettledInv /\ [BatchNext]_batchVars => (BatchTypes /\ SettledInv)'
  BY BatchTypesNext, SettledInvNext
<1>3. ASSUME BatchTypes, SettledInv
      PROVE  ConflictsAreSettled
  <2>1. DOMAIN conflict = 1 .. Len(conflict)
    BY <1>3 DEF BatchTypes
  <2>2. \A m \in Memory : item[m].status = "superseded" =>
          \E i \in DOMAIN conflict :
            /\ conflict[i].by = "supersede" /\ m \in conflict[i].pair \ {conflict[i].winner}
            /\ conflict[i].status = "resolved"
    BY <1>3, <2>1 DEF SettledInv, SupersededIn, Supersedes
  <2>3. \A i, j \in DOMAIN conflict :
          /\ conflict[i].pair = conflict[j].pair /\ i < j /\ conflict[j].by = "detection"
               => conflict[j].pair \in crossed
          /\ conflict[i].pair = conflict[j].pair /\ conflict[i].status = "open"
               /\ conflict[j].by = "supersede" => j < i
    BY <1>3, <2>1 DEF SettledInv, DetectedOnce, OpenLast
  <2> QED
    BY <2>2, <2>3 DEF ConflictsAreSettled
<1> QED
  BY <1>1, <1>2, <1>3, PTL DEF BatchSpec

----------------------------------------------------------------------------
(* Two stores that exchange profiles. *)

KeptStatus == RowStatus \ {"foul"}

FileRecord ==
    [at : {"none", "queue", "candidates", "items", "papers", "nodes", "evidence", "written"},
     from : Site, began : SUBSET MemoryRow, cand : [Proposal -> CandidateStatus],
     mem : [MemoryRow -> RowStatus], item : [MemoryRow -> RowStatus],
     papers : SUBSET Papers, reviews : SUBSET Reviews, node : Nodes,
     proof : SUBSET MemoryRow, listed : SUBSET Proposal, sound : BOOLEAN]

StoreTypes ==
    /\ cand \in [Site -> [Proposal -> CandidateStatus]]
    /\ mem \in [Site -> [MemoryRow -> KeptStatus]]
    /\ itemOf \in [Site -> [MemoryRow -> KeptStatus]]
    /\ foul \in [Site -> SUBSET MemoryRow]
    /\ branch \in [Site -> Nodes]
    /\ proof \in [Site -> SUBSET MemoryRow]
    /\ papers \in [Site -> SUBSET Papers]
    /\ reviews \in [Site -> SUBSET Reviews]
    /\ dead \in [Site -> SUBSET MemoryRow]
    /\ excused \in [Site -> SUBSET MemoryRow]

\* What is recorded of memories and candidates.
OnRecord(s) ==
    /\ \A r \in MemoryRow :
         /\ mem[s][r] # "none" <=> <<"source", r>> \in papers[s]
         /\ mem[s][r] = "inactive" => <<"invalidation", r>> \in papers[s]
         /\ r \in foul[s] => <<"revision", r>> \in papers[s]
         /\ <<"revision", r>> \in papers[s] => \E t \in Site : r \in foul[t]
         /\ <<"invalidation", r>> \in papers[s] => \E t \in Site : r \in dead[t]
    /\ \A k \in Proposal :
         /\ cand[s][k] = "approved" => <<"approve", k>> \in reviews[s]
         /\ cand[s][k] = "rejected" => <<"reject", k>> \in reviews[s]

\* What the branch node quotes is active, and evidence will have it refreshed when it is not.
NodeOK(s) ==
    /\ branch[s].status = "none" => branch[s].shows = {} /\ proof[s] = {}
    /\ branch[s].status = "active" =>
         \A r \in branch[s].shows \ excused[s] : mem[s][r] = "active" /\ r \in proof[s]

StatusOK(s) ==
    /\ \A r \in dead[s] : mem[s][r] = "inactive"
    /\ \A k \in Proposal : cand[s][k] # "approved" => mem[s][<<k, s>>] # "active"
    /\ \A r \in MemoryRow : mem[s][r] # "none" => mem[r[2]][r] # "none"

SiteOK(s) == OnRecord(s) /\ NodeOK(s) /\ StatusOK(s)

\* A file says of its store what has not been undone since.
FileOK(f) ==
    /\ \A r \in MemoryRow :
         /\ f.mem[r] # "none" => mem[f.from][r] # "none"
         /\ f.mem[r] = "inactive" => mem[f.from][r] = "inactive"
    /\ f.sound => \A r \in f.began : f.mem[r] # "active"
    /\ f.papers \subseteq papers[f.from]
    /\ \A k \in Proposal :
         /\ f.cand[k] = "approved" => <<"approve", k>> \in reviews[f.from]
         /\ f.cand[k] = "rejected" => <<"reject", k>> \in reviews[f.from]
    /\ f.at \in {"nodes", "evidence", "written"} =>
         /\ \A r \in MemoryRow :
              /\ f.mem[r] # "none" => <<"source", r>> \in f.papers
              /\ f.mem[r] = "inactive" => <<"invalidation", r>> \in f.papers
         /\ \A k \in Proposal :
              /\ f.cand[k] = "approved" => <<"approve", k>> \in f.reviews
              /\ f.cand[k] = "rejected" => <<"reject", k>> \in f.reviews

TransferInv ==
    /\ StoreTypes
    /\ revived = {}
    /\ \A s \in Site : SiteOK(s)
    /\ file \in FileRecord
    /\ FileOK(file)

stores == <<cand, mem, itemOf, foul, branch, proof, papers, reviews, dead, revived, excused>>

LEMMA NoFileOK ==
    /\ NoFile \in FileRecord /\ FileOK(NoFile) /\ NoFile.at = "none" /\ NoFile.papers = {}
    /\ NoFile.sound /\ \A k \in Proposal : NoFile.cand[k] = "none"
<1>1. NoNode \in Nodes
  BY DEF NoNode, Nodes
<1>2. /\ [k \in Proposal |-> "none"] \in [Proposal -> CandidateStatus]
      /\ [r \in MemoryRow |-> "none"] \in [MemoryRow -> RowStatus]
  BY DEF CandidateStatus, RowStatus
<1>3. NoFile \in FileRecord
  BY <1>1, <1>2 DEF NoFile, FileRecord, Site
<1> QED
  BY <1>3 DEF NoFile, FileOK

LEMMA TransferInvInit == TransferInit => TransferInv
<1> SUFFICES ASSUME TransferInit
             PROVE  TransferInv
  OBVIOUS
<1>1. NoNode \in Nodes /\ NoNode.status = "none" /\ NoNode.shows = {}
  BY DEF NoNode, Nodes
<1>2. StoreTypes
  BY <1>1 DEF TransferInit, StoreTypes, CandidateStatus, RowStatus, KeptStatus
<1>3. ASSUME NEW s \in Site
      PROVE  SiteOK(s)
  <2>1. OnRecord(s)
    <3>1. /\ \A r \in MemoryRow : mem[s][r] = "none"
          /\ papers[s] = {} /\ foul[s] = {} /\ \A k \in Proposal : cand[s][k] = "none"
      BY DEF TransferInit
    <3> QED
      BY <3>1 DEF OnRecord
  <2>2. NodeOK(s) /\ StatusOK(s)
    <3>1. branch[s] = NoNode /\ dead[s] = {} /\ proof[s] = {} /\ \A r \in MemoryRow : mem[s][r] = "none"
      BY DEF TransferInit
    <3>2. \A k \in Proposal : <<k, s>> \in MemoryRow
      BY DEF MemoryRow
    <3> QED
      BY <1>1, <3>1, <3>2 DEF NodeOK, StatusOK
  <2> QED
    BY <2>1, <2>2 DEF SiteOK
<1> QED
  BY <1>2, <1>3, NoFileOK DEF TransferInit, TransferInv

\* What a store has seen is not undone.
Grows(s) ==
    /\ \A r \in MemoryRow :
         /\ mem[s][r] # "none" => mem'[s][r] # "none"
         /\ mem[s][r] = "inactive" => mem'[s][r] = "inactive"
    /\ papers[s] \subseteq papers'[s] /\ reviews[s] \subseteq reviews'[s]
    /\ foul[s] \subseteq foul'[s] /\ dead[s] \subseteq dead'[s]

LEMMA FileStays ==
    ASSUME NEW f \in FileRecord, FileOK(f), \A s \in Site : Grows(s)
    PROVE  FileOK(f)'
<1>1. f.from \in Site
  BY DEF FileRecord
<1> QED
  BY <1>1 DEF FileOK, Grows

\* The store nothing happens to.
LEMMA OtherSiteStays ==
    ASSUME TransferInv, NEW t \in Site, \A s \in Site : Grows(s),
           mem'[t] = mem[t], cand'[t] = cand[t], branch'[t] = branch[t], proof'[t] = proof[t],
           papers'[t] = papers[t], reviews'[t] = reviews[t], foul'[t] = foul[t], dead'[t] = dead[t],
           excused'[t] = excused[t]
    PROVE  SiteOK(t)'
<1>1. SiteOK(t)
  BY DEF TransferInv
<1>2. OnRecord(t)'
  BY <1>1 DEF SiteOK, OnRecord, Grows
<1>3. NodeOK(t)'
  BY <1>1 DEF SiteOK, NodeOK
<1>4. StatusOK(t)'
  <2>1. \A r \in MemoryRow : r[2] \in Site
    BY DEF MemoryRow
  <2> QED
    BY <1>1, <2>1 DEF SiteOK, StatusOK, Grows
<1> QED
  BY <1>2, <1>3, <1>4 DEF SiteOK

\* A step that leaves the stores alone.
LEMMA OnlyTheFile ==
    ASSUME TransferInv, UNCHANGED stores, NEW f \in FileRecord, file' = f, FileOK(f)
    PROVE  TransferInv'
<1>1. StoreTypes' /\ revived' = {}
  BY DEF TransferInv, StoreTypes, stores
<1>2. \A s \in Site : SiteOK(s)'
  BY DEF TransferInv, SiteOK, OnRecord, NodeOK, StatusOK, stores
<1>3. FileOK(f)'
  BY DEF FileOK, stores
<1> QED
  BY <1>1, <1>2, <1>3 DEF TransferInv

----------------------------------------------------------------------------
(* Export. *)

LEMMA FileFacts ==
    ASSUME TransferInv
    PROVE  file \in FileRecord /\ FileOK(file) /\ file.from \in Site /\ SiteOK(file.from) /\ StoreTypes
<1>1. file.from \in Site
  BY DEF TransferInv, FileRecord
<1> QED
  BY <1>1 DEF TransferInv

LEMMA ExportMemoriesKeeps ==
    ASSUME TransferInv, NEW s \in Site, ExportMemories(s)
    PROVE  TransferInv'
<1>1. PICK began : began = {r \in MemoryRow : mem[s][r] = "inactive" \/ r \in foul[s]}
  OBVIOUS
<1>2. PICK rows : rows = [r \in MemoryRow |->
                            IF mem[s][r] # "none" /\ r \in foul[s] THEN "foul" ELSE mem[s][r]]
  OBVIOUS
<1>3. PICK f : f = [NoFile EXCEPT !.at = "queue", !.from = s, !.began = began, !.mem = rows]
  OBVIOUS
<1>4. file' = f /\ UNCHANGED stores
  BY <1>1, <1>2, <1>3 DEF ExportMemories, stores
<1>5. mem[s] \in [MemoryRow -> KeptStatus] /\ SiteOK(s)
  BY DEF TransferInv, StoreTypes
<1>6. began \in SUBSET MemoryRow /\ rows \in [MemoryRow -> RowStatus]
  BY <1>1, <1>2, <1>5 DEF KeptStatus, RowStatus
<1>7. f \in FileRecord /\ f.at = "queue" /\ f.from = s /\ f.began = began /\ f.mem = rows
      /\ f.papers = {} /\ \A k \in Proposal : f.cand[k] = "none"
  BY <1>3, <1>6, NoFileOK DEF FileRecord
<1>8. /\ \A r \in MemoryRow :
           /\ rows[r] # "none" => mem[s][r] # "none"
           /\ rows[r] = "inactive" => mem[s][r] = "inactive"
      /\ \A r \in began : rows[r] # "active"
  <2>1. \A r \in MemoryRow : rows[r] = IF mem[s][r] # "none" /\ r \in foul[s] THEN "foul" ELSE mem[s][r]
    BY <1>2
  <2>2. \A r \in MemoryRow : r \in foul[s] => mem[s][r] # "active" \/ mem[s][r] # "none"
    OBVIOUS
  <2> QED
    BY <1>1, <2>1, <2>2
<1>9. FileOK(f)
  BY <1>7, <1>8 DEF FileOK
<1> QED
  BY <1>4, <1>7, <1>9, OnlyTheFile

LEMMA ExportQueueKeeps ==
    ASSUME TransferInv, ExportQueue
    PROVE  TransferInv'
<1>1. PICK listed : listed = {r[1] : r \in {q \in MemoryRow : file.mem[q] # "none"}}
                      \cup {k \in Proposal : /\ cand[file.from][k] # "none"
                                             /\ \A r \in Of(k) : mem[file.from][r] = "none"}
  OBVIOUS
<1>2. PICK f : f = [file EXCEPT !.at = "candidates", !.listed = listed]
  OBVIOUS
<1>3. listed \in SUBSET Proposal
  BY <1>1 DEF MemoryRow
<1>4. file' = f /\ UNCHANGED stores
  BY <1>1, <1>2 DEF ExportQueue, stores
<1>5. /\ f \in FileRecord /\ f.at = "candidates" /\ f.from = file.from /\ f.began = file.began
      /\ f.mem = file.mem /\ f.cand = file.cand /\ f.papers = file.papers
      /\ f.reviews = file.reviews /\ f.sound = file.sound
  BY <1>2, <1>3, FileFacts DEF FileRecord
<1>6. FileOK(f)
  BY <1>5, FileFacts DEF FileOK
<1> QED
  BY <1>4, <1>5, <1>6, OnlyTheFile

LEMMA ExportCandidatesKeeps ==
    ASSUME TransferInv, ExportCandidates
    PROVE  TransferInv'
<1>1. PICK rows : rows = [k \in Proposal |-> IF k \in file.listed THEN cand[file.from][k] ELSE "none"]
  OBVIOUS
<1>2. PICK f : f = [file EXCEPT !.at = "items", !.cand = rows]
  OBVIOUS
<1>3. cand[file.from] \in [Proposal -> CandidateStatus] /\ OnRecord(file.from)
  BY FileFacts DEF StoreTypes, SiteOK
<1>4. rows \in [Proposal -> CandidateStatus]
  BY <1>1, <1>3 DEF CandidateStatus
<1>5. file' = f /\ UNCHANGED stores
  BY <1>1, <1>2 DEF ExportCandidates, stores
<1>6. /\ f \in FileRecord /\ f.at = "items" /\ f.from = file.from /\ f.began = file.began
      /\ f.mem = file.mem /\ f.cand = rows /\ f.papers = file.papers
      /\ f.reviews = file.reviews /\ f.sound = file.sound
  BY <1>2, <1>4, FileFacts DEF FileRecord
<1>7. \A k \in Proposal : /\ rows[k] = "approved" => <<"approve", k>> \in reviews[file.from]
                          /\ rows[k] = "rejected" => <<"reject", k>> \in reviews[file.from]
  BY <1>1, <1>3 DEF OnRecord
<1>8. FileOK(f)
  BY <1>6, <1>7, FileFacts DEF FileOK
<1> QED
  BY <1>5, <1>6, <1>8, OnlyTheFile

LEMMA ExportItemsKeeps ==
    ASSUME TransferInv, ExportItems
    PROVE  TransferInv'
<1>1. PICK rows : rows = [r \in MemoryRow |-> IF file.mem[r] = "none" THEN "none"
                                              ELSE Read(itemOf[file.from][r], r)]
  OBVIOUS
<1>2. PICK f : f = [file EXCEPT !.at = "papers", !.item = rows]
  OBVIOUS
<1>3. itemOf[file.from] \in [MemoryRow -> KeptStatus]
  BY FileFacts DEF StoreTypes
<1>4. rows \in [MemoryRow -> RowStatus]
  BY <1>1, <1>3 DEF RowStatus, KeptStatus, Read
<1>5. file' = f /\ UNCHANGED stores
  BY <1>1, <1>2 DEF ExportItems, stores
<1>6. /\ f \in FileRecord /\ f.at = "papers" /\ f.from = file.from /\ f.began = file.began
      /\ f.mem = file.mem /\ f.cand = file.cand /\ f.papers = file.papers
      /\ f.reviews = file.reviews /\ f.sound = file.sound
  BY <1>2, <1>4, FileFacts DEF FileRecord
<1>7. FileOK(f)
  BY <1>6, FileFacts DEF FileOK
<1> QED
  BY <1>5, <1>6, <1>7, OnlyTheFile

LEMMA ExportPapersKeeps ==
    ASSUME TransferInv, ExportPapers
    PROVE  TransferInv'
<1>1. PICK ps : ps = {p \in papers[file.from] : file.mem[p[2]] # "none"}
  OBVIOUS
<1>2. PICK vs : vs = {v \in reviews[file.from] : file.cand[v[2]] # "none"}
  OBVIOUS
<1>3. PICK f : f = [file EXCEPT !.at = "nodes", !.papers = ps, !.reviews = vs]
  OBVIOUS
<1>4. /\ papers[file.from] \subseteq Papers /\ reviews[file.from] \subseteq Reviews
      /\ OnRecord(file.from)
  BY FileFacts DEF StoreTypes, SiteOK
<1>5. ps \in SUBSET Papers /\ vs \in SUBSET Reviews
  BY <1>1, <1>2, <1>4
<1>6. file' = f /\ UNCHANGED stores
  BY <1>1, <1>2, <1>3 DEF ExportPapers, stores
<1>7. /\ f \in FileRecord /\ f.at = "nodes" /\ f.from = file.from /\ f.began = file.began
      /\ f.mem = file.mem /\ f.cand = file.cand /\ f.papers = ps
      /\ f.reviews = vs /\ f.sound = file.sound
  BY <1>3, <1>5, FileFacts DEF FileRecord
<1>8. \A r \in MemoryRow : /\ file.mem[r] # "none" => <<"source", r>> \in ps
                           /\ file.mem[r] = "inactive" => <<"invalidation", r>> \in ps
  <2>1. ASSUME NEW r \in MemoryRow, file.mem[r] # "none"
        PROVE  <<"source", r>> \in ps
    BY <1>1, <1>4, <2>1, FileFacts DEF FileOK, OnRecord
  <2>2. ASSUME NEW r \in MemoryRow, file.mem[r] = "inactive"
        PROVE  <<"invalidation", r>> \in ps
    BY <1>1, <1>4, <2>2, FileFacts DEF FileOK, OnRecord
  <2> QED
    BY <2>1, <2>2
<1>9. \A k \in Proposal : /\ file.cand[k] = "approved" => <<"approve", k>> \in vs
                          /\ file.cand[k] = "rejected" => <<"reject", k>> \in vs
  BY <1>2, FileFacts DEF FileOK
<1>10. ps \subseteq papers[file.from]
  BY <1>1
<1>11. FileOK(f)
  BY <1>7, <1>8, <1>9, <1>10, FileFacts DEF FileOK
<1> QED
  BY <1>6, <1>7, <1>11, OnlyTheFile

LEMMA ExportNodesKeeps ==
    ASSUME TransferInv, ExportNodes
    PROVE  TransferInv'
<1>1. PICK node : node = IF branch[file.from].status # "active" THEN NoNode
                         ELSE IF branch[file.from].shows \cap foul[file.from] # {}
                              THEN [branch[file.from] EXCEPT !.status = "foul"]
                         ELSE branch[file.from]
  OBVIOUS
<1>2. PICK f : f = [file EXCEPT !.at = "evidence", !.node = node]
  OBVIOUS
<1>3. branch[file.from] \in Nodes
  BY FileFacts DEF StoreTypes
<1>4. node \in Nodes
  BY <1>1, <1>3 DEF Nodes, NoNode
<1>5. file.at = "nodes" /\ file' = f /\ UNCHANGED stores
  BY <1>1, <1>2 DEF ExportNodes, stores
<1>6. /\ f \in FileRecord /\ f.at = "evidence" /\ f.from = file.from /\ f.began = file.began
      /\ f.mem = file.mem /\ f.cand = file.cand /\ f.papers = file.papers
      /\ f.reviews = file.reviews /\ f.sound = file.sound
  BY <1>2, <1>4, FileFacts DEF FileRecord
<1>7. FileOK(f)
  BY <1>5, <1>6, FileFacts DEF FileOK
<1> QED
  BY <1>5, <1>6, <1>7, OnlyTheFile

LEMMA ExportEvidenceKeeps ==
    ASSUME TransferInv, ExportEvidence
    PROVE  TransferInv'
<1>1. PICK rs : rs = {r \in MemoryRow \ foul[file.from] :
                        branch[file.from].status = "active" /\ Supports(file.from, r)}
  OBVIOUS
<1>2. PICK f : f = [file EXCEPT !.at = "written", !.proof = rs]
  OBVIOUS
<1>3. rs \in SUBSET MemoryRow
  BY <1>1
<1>4. file.at = "evidence" /\ file' = f /\ UNCHANGED stores
  BY <1>1, <1>2 DEF ExportEvidence, stores
<1>5. /\ f \in FileRecord /\ f.at = "written" /\ f.from = file.from /\ f.began = file.began
      /\ f.mem = file.mem /\ f.cand = file.cand /\ f.papers = file.papers
      /\ f.reviews = file.reviews /\ f.sound = file.sound
  BY <1>2, <1>3, FileFacts DEF FileRecord
<1>6. FileOK(f)
  BY <1>4, <1>5, FileFacts DEF FileOK
<1> QED
  BY <1>4, <1>5, <1>6, OnlyTheFile

LEMMA AlterFileKeeps ==
    ASSUME TransferInv, AlterFile
    PROVE  TransferInv'
<1>1. PICK rows : rows = [r \in MemoryRow |-> IF file.mem[r] = "inactive" THEN "active" ELSE file.mem[r]]
  OBVIOUS
<1>2. PICK f : f = [file EXCEPT !.sound = FALSE, !.mem = rows]
  OBVIOUS
<1>3. file.mem \in [MemoryRow -> RowStatus]
  BY FileFacts DEF FileRecord
<1>4. rows \in [MemoryRow -> RowStatus]
  BY <1>1, <1>3 DEF RowStatus
<1>5. file.at = "written" /\ file' = f /\ UNCHANGED stores
  BY <1>1, <1>2 DEF AlterFile, stores
<1>6. /\ f \in FileRecord /\ f.at = file.at /\ f.from = file.from /\ f.began = file.began
      /\ f.mem = rows /\ f.cand = file.cand /\ f.papers = file.papers
      /\ f.reviews = file.reviews /\ ~f.sound
  BY <1>2, <1>4, FileFacts DEF FileRecord
<1>7. \A r \in MemoryRow : (rows[r] # "none" <=> file.mem[r] # "none") /\ rows[r] # "inactive"
  BY <1>1
<1>8. FileOK(f)
  BY <1>5, <1>6, <1>7, FileFacts DEF FileOK
<1> QED
  BY <1>5, <1>6, <1>8, OnlyTheFile

LEMMA DiscardKeeps ==
    ASSUME TransferInv, Discard
    PROVE  TransferInv'
<1>1. file' = NoFile /\ UNCHANGED stores
  BY DEF Discard, stores
<1> QED
  BY <1>1, NoFileOK, OnlyTheFile

----------------------------------------------------------------------------
(* Review at one of the stores. *)

\* A step at one store: it stays sound, the other one and the file stay as they were.
LEMMA OneStoreMoves ==
    ASSUME TransferInv, NEW s \in Site, StoreTypes', revived' = {}, UNCHANGED file,
           \A t \in Site : Grows(t), SiteOK(s)',
           \A t \in Site \ {s} :
             /\ mem'[t] = mem[t] /\ cand'[t] = cand[t] /\ branch'[t] = branch[t]
             /\ proof'[t] = proof[t] /\ papers'[t] = papers[t] /\ reviews'[t] = reviews[t]
             /\ foul'[t] = foul[t] /\ dead'[t] = dead[t] /\ excused'[t] = excused[t]
    PROVE  TransferInv'
<1>1. PICK f : f = file
  OBVIOUS
<1>2. f \in FileRecord /\ FileOK(f)'
  BY <1>1, FileFacts, FileStays
<1>3. \A t \in Site : SiteOK(t)'
  BY OtherSiteStays
<1> QED
  BY <1>1, <1>2, <1>3 DEF TransferInv

LEMMA SiteFacts ==
    ASSUME TransferInv, NEW s \in Site
    PROVE  /\ SiteOK(s) /\ OnRecord(s) /\ NodeOK(s) /\ StatusOK(s) /\ StoreTypes /\ revived = {}
           /\ mem[s] \in [MemoryRow -> KeptStatus] /\ cand[s] \in [Proposal -> CandidateStatus]
           /\ itemOf[s] \in [MemoryRow -> KeptStatus] /\ branch[s] \in Nodes
           /\ proof[s] \subseteq MemoryRow /\ papers[s] \subseteq Papers
           /\ reviews[s] \subseteq Reviews /\ foul[s] \subseteq MemoryRow
           /\ dead[s] \subseteq MemoryRow /\ excused[s] \subseteq MemoryRow
BY DEF TransferInv, SiteOK, StoreTypes

LEMMA ProposeKeeps ==
    ASSUME TransferInv, NEW k \in Proposal, Propose(k)
    PROVE  TransferInv'
<1> DEFINE s == "here"
<1>1. s \in Site
  BY DEF Site
<1>2. PICK new \in {"quarantined", "pending"} : new = IF k \in Poison THEN "quarantined" ELSE "pending"
  OBVIOUS
<1>3. /\ cand[s][k] = "none" /\ cand' = [cand EXCEPT ![s][k] = new]
      /\ UNCHANGED <<mem, itemOf, foul, branch, proof, papers, reviews, file, dead, revived, excused>>
  BY <1>2 DEF Propose
<1>4. cand \in [Site -> [Proposal -> CandidateStatus]]
  BY <1>1, SiteFacts DEF StoreTypes
<1>5. /\ cand' \in [Site -> [Proposal -> CandidateStatus]]
      /\ cand'[s] = [cand[s] EXCEPT ![k] = new] /\ \A t \in Site \ {s} : cand'[t] = cand[t]
  BY <1>1, <1>3, <1>4 DEF CandidateStatus
<1>6. \A l \in Proposal : cand'[s][l] = IF l = k THEN new ELSE cand[s][l]
  BY <1>1, <1>4, <1>5
<1>7. StoreTypes' /\ revived' = {}
  BY <1>1, <1>3, <1>5, SiteFacts DEF StoreTypes
<1>8. SiteOK(s)'
  <2>1. OnRecord(s)'
    BY <1>1, <1>2, <1>3, <1>6, SiteFacts DEF OnRecord
  <2>2. NodeOK(s)' /\ StatusOK(s)'
    BY <1>1, <1>2, <1>3, <1>6, SiteFacts DEF NodeOK, StatusOK
  <2> QED
    BY <2>1, <2>2 DEF SiteOK
<1>9. \A t \in Site : Grows(t)
  BY <1>3 DEF Grows
<1> QED
  BY <1>1, <1>3, <1>5, <1>7, <1>8, <1>9, OneStoreMoves

LEMMA RejectKeeps ==
    ASSUME TransferInv, NEW s \in Site, NEW k \in Proposal, RejectAt(s, k)
    PROVE  TransferInv'
<1>1. PICK v : v = <<"reject", k>>
  OBVIOUS
<1>2. /\ \A q \in Of(k) : mem[s][q] # "active"
      /\ cand' = [cand EXCEPT ![s][k] = "rejected"]
      /\ reviews' = [reviews EXCEPT ![s] = reviews[s] \cup {v}]
      /\ UNCHANGED <<mem, itemOf, foul, branch, proof, papers, file, dead, revived, excused>>
  BY <1>1, SiteFacts DEF RejectAt, StoreTypes
<1>3. /\ cand \in [Site -> [Proposal -> CandidateStatus]] /\ reviews \in [Site -> SUBSET Reviews]
      /\ v \in Reviews
  BY <1>1, SiteFacts DEF StoreTypes, Reviews
<1>4. /\ cand' \in [Site -> [Proposal -> CandidateStatus]]
      /\ cand'[s] = [cand[s] EXCEPT ![k] = "rejected"] /\ \A t \in Site \ {s} : cand'[t] = cand[t]
  BY <1>2, <1>3 DEF CandidateStatus
<1>5. \A l \in Proposal : cand'[s][l] = IF l = k THEN "rejected" ELSE cand[s][l]
  BY <1>3, <1>4
<1>6. /\ reviews' \in [Site -> SUBSET Reviews] /\ reviews'[s] = reviews[s] \cup {v}
      /\ \A t \in Site \ {s} : reviews'[t] = reviews[t]
  BY <1>2, <1>3
<1>7. StoreTypes' /\ revived' = {}
  BY <1>2, <1>4, <1>6, SiteFacts DEF StoreTypes
<1>8. SiteOK(s)'
  <2>1. OnRecord(s)'
    BY <1>1, <1>2, <1>5, <1>6, SiteFacts DEF OnRecord
  <2>2. NodeOK(s)'
    BY <1>2, SiteFacts DEF NodeOK
  <2>3. StatusOK(s)'
    <3>1. <<k, s>> \in Of(k)
      BY DEF Of, MemoryRow
    <3> QED
      BY <1>2, <1>5, <3>1, SiteFacts DEF StatusOK
  <2> QED
    BY <2>1, <2>2, <2>3 DEF SiteOK
<1>9. \A t \in Site : Grows(t)
  BY <1>2, <1>6 DEF Grows
<1> QED
  BY <1>2, <1>4, <1>6, <1>7, <1>8, <1>9, OneStoreMoves

LEMMA CorrectKeeps ==
    ASSUME TransferInv, NEW s \in Site, NEW r \in MemoryRow, CorrectAt(s, r)
    PROVE  TransferInv'
<1>1. PICK p : p = <<"revision", r>>
  OBVIOUS
<1>2. /\ foul \in [Site -> SUBSET MemoryRow] /\ papers \in [Site -> SUBSET Papers] /\ p \in Papers
  BY <1>1, SiteFacts DEF StoreTypes, Papers
<1>3. /\ foul' = [foul EXCEPT ![s] = foul[s] \cup {r}]
      /\ papers' = [papers EXCEPT ![s] = papers[s] \cup {p}]
      /\ UNCHANGED <<cand, mem, itemOf, branch, proof, reviews, file, dead, revived, excused>>
  BY <1>1, <1>2 DEF CorrectAt
<1>4. /\ foul' \in [Site -> SUBSET MemoryRow] /\ foul'[s] = foul[s] \cup {r}
      /\ papers' \in [Site -> SUBSET Papers] /\ papers'[s] = papers[s] \cup {p}
      /\ \A t \in Site \ {s} : foul'[t] = foul[t] /\ papers'[t] = papers[t]
  BY <1>2, <1>3
<1>5. StoreTypes' /\ revived' = {}
  BY <1>3, <1>4, SiteFacts DEF StoreTypes
<1>6. \A t \in Site : Grows(t)
  BY <1>3, <1>4 DEF Grows
<1>7. SiteOK(s)'
  <2>1. OnRecord(s)'
    <3>1. \A q \in MemoryRow : /\ <<"source", q>> \in papers'[s] <=> <<"source", q>> \in papers[s]
                               /\ <<"invalidation", q>> \in papers'[s] <=> <<"invalidation", q>> \in papers[s]
                               /\ <<"revision", q>> \in papers'[s] <=> <<"revision", q>> \in papers[s] \/ q = r
      BY <1>1, <1>4
    <3> QED
      BY <1>3, <1>4, <1>6, <3>1, SiteFacts DEF OnRecord, Grows
  <2>2. NodeOK(s)' /\ StatusOK(s)'
    BY <1>3, SiteFacts DEF NodeOK, StatusOK
  <2> QED
    BY <2>1, <2>2 DEF SiteOK
<1> QED
  BY <1>3, <1>4, <1>5, <1>6, <1>7, OneStoreMoves

LEMMA ApproveKeeps ==
    ASSUME TransferInv, NEW s \in Site, NEW k \in Proposal, ApproveAt(s, k)
    PROVE  TransferInv'
<1>1. PICK r : r = <<k, s>>
  OBVIOUS
<1>2. PICK p : p = <<"source", r>>
  OBVIOUS
<1>3. PICK v : v = <<"approve", k>>
  OBVIOUS
<1>4. PICK node : node = [status |-> IF branch[s].status = "none" THEN "active" ELSE branch[s].status,
                          shows |-> branch[s].shows \cup {r}]
  OBVIOUS
<1>5. r \in MemoryRow /\ r[1] = k /\ r[2] = s /\ p \in Papers /\ v \in Reviews
  BY <1>1, <1>2, <1>3 DEF MemoryRow, Papers, Reviews
<1>6. StoreTypes /\ branch[s] \in Nodes
  BY SiteFacts
<1>7. /\ node \in Nodes /\ node.shows = branch[s].shows \cup {r}
      /\ node.status = IF branch[s].status = "none" THEN "active" ELSE branch[s].status
  BY <1>4, <1>5, <1>6 DEF Nodes
<1>8. /\ \A q \in Of(k) : mem[s][q] = "none"
      /\ cand' = [cand EXCEPT ![s][k] = "approved"]
      /\ mem' = [mem EXCEPT ![s][r] = "active"]
      /\ itemOf' = [itemOf EXCEPT ![s][r] = "active"]
      /\ branch' = [branch EXCEPT ![s] = node]
      /\ proof' = [proof EXCEPT ![s] = proof[s] \cup {r}]
      /\ papers' = [papers EXCEPT ![s] = papers[s] \cup {p}]
      /\ reviews' = [reviews EXCEPT ![s] = reviews[s] \cup {v}]
      /\ UNCHANGED <<foul, file, dead, revived, excused>>
  BY <1>1, <1>2, <1>3, <1>4, <1>6 DEF ApproveAt, StoreTypes
<1>9. /\ cand' \in [Site -> [Proposal -> CandidateStatus]]
      /\ cand'[s] = [cand[s] EXCEPT ![k] = "approved"] /\ \A t \in Site \ {s} : cand'[t] = cand[t]
  BY <1>6, <1>8 DEF StoreTypes, CandidateStatus
<1>10. /\ mem' \in [Site -> [MemoryRow -> KeptStatus]]
       /\ mem'[s] = [mem[s] EXCEPT ![r] = "active"] /\ \A t \in Site \ {s} : mem'[t] = mem[t]
  BY <1>6, <1>8 DEF StoreTypes, KeptStatus, RowStatus
<1>11. itemOf' \in [Site -> [MemoryRow -> KeptStatus]]
  BY <1>6, <1>8 DEF StoreTypes, KeptStatus, RowStatus
<1>12. /\ branch' \in [Site -> Nodes] /\ branch'[s] = node /\ \A t \in Site \ {s} : branch'[t] = branch[t]
       /\ proof' \in [Site -> SUBSET MemoryRow] /\ proof'[s] = proof[s] \cup {r}
       /\ \A t \in Site \ {s} : proof'[t] = proof[t]
  BY <1>5, <1>6, <1>7, <1>8 DEF StoreTypes
<1>13. /\ papers' \in [Site -> SUBSET Papers] /\ papers'[s] = papers[s] \cup {p}
       /\ \A t \in Site \ {s} : papers'[t] = papers[t]
       /\ reviews' \in [Site -> SUBSET Reviews] /\ reviews'[s] = reviews[s] \cup {v}
       /\ \A t \in Site \ {s} : reviews'[t] = reviews[t]
  BY <1>5, <1>6, <1>8 DEF StoreTypes
<1>14. StoreTypes' /\ revived' = {}
  BY <1>6, <1>8, <1>9, <1>10, <1>11, <1>12, <1>13, SiteFacts DEF StoreTypes
<1>15. /\ mem[s][r] = "none"
       /\ \A q \in MemoryRow : mem'[s][q] = IF q = r THEN "active" ELSE mem[s][q]
       /\ \A l \in Proposal : cand'[s][l] = IF l = k THEN "approved" ELSE cand[s][l]
  BY <1>5, <1>6, <1>8, <1>9, <1>10 DEF Of, StoreTypes
<1>16. \A t \in Site : Grows(t)
  BY <1>8, <1>10, <1>13, <1>15 DEF Grows
<1>17. OnRecord(s)'
  <2>1. \A q \in MemoryRow : /\ <<"source", q>> \in papers'[s] <=> <<"source", q>> \in papers[s] \/ q = r
                             /\ <<"invalidation", q>> \in papers'[s] <=> <<"invalidation", q>> \in papers[s]
                             /\ <<"revision", q>> \in papers'[s] <=> <<"revision", q>> \in papers[s]
    BY <1>2, <1>13
  <2>2. \A l \in Proposal : /\ <<"approve", l>> \in reviews'[s] <=> <<"approve", l>> \in reviews[s] \/ l = k
                            /\ <<"reject", l>> \in reviews'[s] <=> <<"reject", l>> \in reviews[s]
    BY <1>3, <1>13
  <2> QED
    <3>1. OnRecord(s)
      BY SiteFacts
    <3>2. ASSUME NEW q \in MemoryRow
          PROVE  /\ mem'[s][q] # "none" <=> <<"source", q>> \in papers'[s]
                 /\ mem'[s][q] = "inactive" => <<"invalidation", q>> \in papers'[s]
                 /\ q \in foul'[s] => <<"revision", q>> \in papers'[s]
                 /\ <<"revision", q>> \in papers'[s] => \E t \in Site : q \in foul'[t]
                 /\ <<"invalidation", q>> \in papers'[s] => \E t \in Site : q \in dead'[t]
      BY <1>8, <1>15, <2>1, <3>1 DEF OnRecord
    <3>3. ASSUME NEW l \in Proposal
          PROVE  /\ cand'[s][l] = "approved" => <<"approve", l>> \in reviews'[s]
                 /\ cand'[s][l] = "rejected" => <<"reject", l>> \in reviews'[s]
      BY <1>15, <2>2, <3>1 DEF OnRecord
    <3> QED
      BY <3>2, <3>3 DEF OnRecord
<1>18. NodeOK(s)'
  <2>1. node.status = "active" => \A q \in branch[s].shows \ excused[s] : mem[s][q] = "active" /\ q \in proof[s]
    BY <1>7, SiteFacts DEF NodeOK
  <2>2. \A q \in branch[s].shows : q \in MemoryRow
    BY <1>6 DEF Nodes
  <2>3. node.status # "none"
    BY <1>7
  <2> QED
    BY <1>7, <1>8, <1>12, <1>15, <2>1, <2>2, <2>3 DEF NodeOK
<1>19. StatusOK(s)'
  <2>1. \A q \in dead[s] : q \in MemoryRow /\ mem[s][q] = "inactive"
    BY SiteFacts DEF StatusOK
  <2>2. \A l \in Proposal : <<l, s>> \in MemoryRow /\ (l # k => <<l, s>> # r)
    BY <1>1 DEF MemoryRow
  <2>3. \A q \in MemoryRow : q[2] \in Site
    BY DEF MemoryRow
  <2>4. \A l \in Proposal : cand'[s][l] # "approved" => mem'[s][<<l, s>>] # "active"
    BY <1>15, <2>2, SiteFacts DEF StatusOK
  <2>5. \A q \in MemoryRow : mem'[s][q] # "none" => mem'[q[2]][q] # "none"
    BY <1>5, <1>15, <1>16, <2>3, SiteFacts DEF StatusOK, Grows
  <2> QED
    BY <1>8, <1>15, <2>1, <2>4, <2>5 DEF StatusOK
<1>20. SiteOK(s)'
  BY <1>17, <1>18, <1>19 DEF SiteOK
<1> QED
  BY <1>8, <1>9, <1>10, <1>12, <1>13, <1>14, <1>16, <1>20, OneStoreMoves

LEMMA DeactivateKeeps ==
    ASSUME TransferInv, NEW s \in Site, NEW r \in MemoryRow, DeactivateAt(s, r)
    PROVE  TransferInv'
<1>1. PICK left : left = {q \in MemoryRow \ {r} : Supports(s, q)}
  OBVIOUS
<1>2. PICK p : p = <<"invalidation", r>>
  OBVIOUS
<1>3. PICK now \in KeptStatus : now = IF itemOf[s][r] = "none" THEN "none" ELSE "inactive"
  BY DEF KeptStatus, RowStatus
<1>4. PICK node : node = IF r \notin proof[s] THEN branch[s]
                         ELSE IF left = {} THEN [branch[s] EXCEPT !.status = "inactive"]
                         ELSE [branch[s] EXCEPT !.shows = left]
  OBVIOUS
<1>5. StoreTypes /\ branch[s] \in Nodes /\ p \in Papers
  BY <1>2, SiteFacts DEF Papers
<1>6. left \in SUBSET MemoryRow /\ \A q \in left : q # r /\ mem[s][q] = "active" /\ q \in proof[s]
  BY <1>1 DEF Supports
<1>7. /\ node \in Nodes
      /\ r \notin proof[s] => node = branch[s]
      /\ r \in proof[s] /\ left = {} => node.status = "inactive"
      /\ r \in proof[s] /\ left # {} => node.status = branch[s].status /\ node.shows = left
  BY <1>4, <1>5, <1>6 DEF Nodes
<1>8. /\ mem[s][r] = "active"
      /\ mem' = [mem EXCEPT ![s][r] = "inactive"]
      /\ itemOf' = [itemOf EXCEPT ![s][r] = now]
      /\ papers' = [papers EXCEPT ![s] = papers[s] \cup {p}]
      /\ dead' = [dead EXCEPT ![s] = dead[s] \cup {r}]
      /\ UNCHANGED <<cand, foul, proof, reviews, file, revived, excused>>
  BY <1>2, <1>3, <1>5 DEF DeactivateAt, StoreTypes
<1>9. branch' \in [Site -> Nodes] /\ branch'[s] = node /\ \A t \in Site \ {s} : branch'[t] = branch[t]
  <2>1. branch' = IF r \notin proof[s] THEN branch
                  ELSE IF left = {} THEN [branch EXCEPT ![s].status = "inactive"]
                  ELSE [branch EXCEPT ![s].shows = left]
    BY <1>1 DEF DeactivateAt
  <2>2. branch \in [Site -> Nodes]
    BY <1>5 DEF StoreTypes
  <2>3. branch' = [branch EXCEPT ![s] = node]
    BY <1>4, <2>1, <2>2
  <2> QED
    BY <1>7, <2>2, <2>3
<1>10. /\ mem' \in [Site -> [MemoryRow -> KeptStatus]]
       /\ mem'[s] = [mem[s] EXCEPT ![r] = "inactive"] /\ \A t \in Site \ {s} : mem'[t] = mem[t]
  BY <1>5, <1>8 DEF StoreTypes, KeptStatus, RowStatus
<1>11. itemOf' \in [Site -> [MemoryRow -> KeptStatus]]
  BY <1>5, <1>8 DEF StoreTypes
<1>12. /\ papers' \in [Site -> SUBSET Papers] /\ papers'[s] = papers[s] \cup {p}
       /\ \A t \in Site \ {s} : papers'[t] = papers[t]
       /\ dead' \in [Site -> SUBSET MemoryRow] /\ dead'[s] = dead[s] \cup {r}
       /\ \A t \in Site \ {s} : dead'[t] = dead[t]
  BY <1>5, <1>8 DEF StoreTypes
<1>13. StoreTypes' /\ revived' = {}
  BY <1>5, <1>8, <1>9, <1>10, <1>11, <1>12, SiteFacts DEF StoreTypes
<1>14. \A q \in MemoryRow : mem'[s][q] = IF q = r THEN "inactive" ELSE mem[s][q]
  BY <1>5, <1>10 DEF StoreTypes
<1>15. \A t \in Site : Grows(t)
  BY <1>8, <1>10, <1>12, <1>14 DEF Grows
<1>16. OnRecord(s)'
  <2>1. \A q \in MemoryRow : /\ <<"source", q>> \in papers'[s] <=> <<"source", q>> \in papers[s]
                             /\ <<"invalidation", q>> \in papers'[s] <=> <<"invalidation", q>> \in papers[s] \/ q = r
                             /\ <<"revision", q>> \in papers'[s] <=> <<"revision", q>> \in papers[s]
    BY <1>2, <1>12
  <2>2. \A q \in MemoryRow : <<"invalidation", q>> \in papers'[s] => \E t \in Site : q \in dead'[t]
    <3>1. \A t \in Site : dead[t] \subseteq dead'[t]
      BY <1>15 DEF Grows
    <3> QED
      BY <1>12, <2>1, <3>1, SiteFacts DEF OnRecord
  <2> QED
    BY <1>8, <1>14, <2>1, <2>2, SiteFacts DEF OnRecord
<1>17. NodeOK(s)'
  <2>1. CASE r \notin proof[s]
    <3>1. branch[s].status = "active" => \A q \in branch[s].shows \ excused[s] : q \in MemoryRow /\ q # r
      BY <1>5, <2>1, SiteFacts DEF NodeOK, Nodes
    <3> QED
      BY <1>7, <1>8, <1>9, <1>14, <2>1, <3>1, SiteFacts DEF NodeOK
  <2>2. CASE r \in proof[s] /\ left = {}
    BY <1>7, <1>9, <2>2 DEF NodeOK
  <2>3. CASE r \in proof[s] /\ left # {}
    <3>1. node.status # "none"
      BY <1>7, <2>3, SiteFacts DEF NodeOK
    <3>2. node.status = "active" => \A q \in node.shows : mem'[s][q] = "active" /\ q \in proof[s]
      BY <1>6, <1>7, <1>14, <2>3
    <3> QED
      BY <1>8, <1>9, <3>1, <3>2 DEF NodeOK
  <2> QED
    BY <2>1, <2>2, <2>3
<1>18. StatusOK(s)'
  <2>1. \A q \in MemoryRow : q[2] \in Site
    BY DEF MemoryRow
  <2>2. \A l \in Proposal : <<l, s>> \in MemoryRow
    BY DEF MemoryRow
  <2>3. \A q \in dead'[s] : mem'[s][q] = "inactive"
    BY <1>12, <1>14, SiteFacts DEF StatusOK
  <2>4. \A l \in Proposal : cand'[s][l] # "approved" => mem'[s][<<l, s>>] # "active"
    BY <1>8, <1>14, <2>2, SiteFacts DEF StatusOK
  <2>5. \A q \in MemoryRow : mem'[s][q] # "none" => mem'[q[2]][q] # "none"
    BY <1>8, <1>14, <1>15, <2>1, SiteFacts DEF StatusOK, Grows
  <2> QED
    BY <2>3, <2>4, <2>5 DEF StatusOK
<1>19. SiteOK(s)'
  BY <1>16, <1>17, <1>18 DEF SiteOK
<1> QED
  BY <1>8, <1>9, <1>10, <1>12, <1>13, <1>15, <1>19, OneStoreMoves

----------------------------------------------------------------------------
(* Import. *)

\* What the rows are after an import.
LEMMA ImportedRows ==
    ASSUME TransferInv, Import, NEW s, s = Other(file.from)
    PROVE  /\ s \in Site /\ file.at = "written" /\ file.sound
           /\ \A k \in Proposal : cand'[s][k] = ImportedCandidate(s, k)
           /\ \A r \in MemoryRow : mem'[s][r] = ImportedMemory(s, r)
           /\ branch'[s] = ImportedNode(s) /\ proof'[s] = ImportedProof(s)
           /\ papers'[s] = ImportedPapers(s) /\ reviews'[s] = ImportedReviews(s)
           /\ dead'[s] = dead[s] \cup {r \in MemoryRow : mem'[s][r] = "inactive"}
           /\ excused'[s] = excused[s] \cup {r \in branch'[s].shows \ branch[s].shows :
                                               mem'[s][r] # "active" \/ r \notin proof'[s]}
           /\ UNCHANGED <<foul, file>>
           /\ StoreTypes'
           /\ \A t \in Site \ {s} :
                /\ mem'[t] = mem[t] /\ cand'[t] = cand[t] /\ branch'[t] = branch[t]
                /\ proof'[t] = proof[t] /\ papers'[t] = papers[t] /\ reviews'[t] = reviews[t]
                /\ dead'[t] = dead[t] /\ excused'[t] = excused[t]
<1>1. s \in Site /\ StoreTypes /\ file \in FileRecord
  BY DEF Site, Other, TransferInv
<1>2. PICK cs, ms, is : /\ cs = [k \in Proposal |-> ImportedCandidate(s, k)]
                        /\ ms = [r \in MemoryRow |-> ImportedMemory(s, r)]
                        /\ is = [r \in MemoryRow |-> ImportedItem(s, r)]
  OBVIOUS
<1>3. /\ file.at = "written" /\ file.sound /\ UNCHANGED <<foul, file>>
      /\ cand' = [cand EXCEPT ![s] = cs] /\ mem' = [mem EXCEPT ![s] = ms]
      /\ itemOf' = [itemOf EXCEPT ![s] = is]
      /\ branch' = [branch EXCEPT ![s] = ImportedNode(s)]
      /\ proof' = [proof EXCEPT ![s] = ImportedProof(s)]
      /\ papers' = [papers EXCEPT ![s] = ImportedPapers(s)]
      /\ reviews' = [reviews EXCEPT ![s] = ImportedReviews(s)]
      /\ dead' = [dead EXCEPT ![s] = dead[s] \cup {r \in MemoryRow : mem'[s][r] = "inactive"}]
      /\ excused' = [excused EXCEPT ![s] = excused[s] \cup
                       {r \in branch'[s].shows \ branch[s].shows :
                          mem'[s][r] # "active" \/ r \notin proof'[s]}]
  BY <1>1, <1>2 DEF Import, StoreTypes
<1>4. /\ cand[s] \in [Proposal -> CandidateStatus] /\ file.cand \in [Proposal -> CandidateStatus]
      /\ mem[s] \in [MemoryRow -> KeptStatus] /\ file.mem \in [MemoryRow -> RowStatus]
      /\ itemOf[s] \in [MemoryRow -> KeptStatus] /\ file.item \in [MemoryRow -> RowStatus]
      /\ branch[s] \in Nodes /\ file.node \in Nodes
  BY <1>1 DEF StoreTypes, FileRecord
<1>5. cs \in [Proposal -> CandidateStatus]
  BY <1>2, <1>4 DEF ImportedCandidate, CandidateStatus
<1>6. ms \in [MemoryRow -> KeptStatus]
  BY <1>2, <1>4 DEF ImportedMemory, KeptStatus
<1>7. is \in [MemoryRow -> KeptStatus]
  BY <1>2, <1>4 DEF ImportedItem, KeptStatus
<1>8. ImportedNode(s) \in Nodes
  BY <1>4 DEF ImportedNode
<1>9. /\ ImportedProof(s) \in SUBSET MemoryRow
      /\ ImportedPapers(s) \in SUBSET Papers /\ ImportedReviews(s) \in SUBSET Reviews
  <2>1. /\ proof[s] \subseteq MemoryRow /\ file.proof \subseteq MemoryRow
        /\ papers[s] \subseteq Papers /\ file.papers \subseteq Papers
        /\ reviews[s] \subseteq Reviews /\ file.reviews \subseteq Reviews
    BY <1>1 DEF StoreTypes, FileRecord
  <2> QED
    BY <2>1 DEF ImportedProof, ImportedPapers, ImportedReviews
<1>10. /\ cand' \in [Site -> [Proposal -> CandidateStatus]] /\ cand'[s] = cs
       /\ mem' \in [Site -> [MemoryRow -> KeptStatus]] /\ mem'[s] = ms
       /\ itemOf' \in [Site -> [MemoryRow -> KeptStatus]]
       /\ \A t \in Site \ {s} : mem'[t] = mem[t] /\ cand'[t] = cand[t]
  BY <1>1, <1>3, <1>5, <1>6, <1>7 DEF StoreTypes
<1>11. /\ branch' \in [Site -> Nodes] /\ branch'[s] = ImportedNode(s)
       /\ proof' \in [Site -> SUBSET MemoryRow] /\ proof'[s] = ImportedProof(s)
       /\ \A t \in Site \ {s} : branch'[t] = branch[t] /\ proof'[t] = proof[t]
  BY <1>1, <1>3, <1>8, <1>9 DEF StoreTypes
<1>12. /\ papers' \in [Site -> SUBSET Papers] /\ papers'[s] = ImportedPapers(s)
       /\ reviews' \in [Site -> SUBSET Reviews] /\ reviews'[s] = ImportedReviews(s)
       /\ \A t \in Site \ {s} : papers'[t] = papers[t] /\ reviews'[t] = reviews[t]
  BY <1>1, <1>3, <1>9 DEF StoreTypes
<1>13. PICK gone : gone = {r \in MemoryRow : mem'[s][r] = "inactive"}
  OBVIOUS
<1>14. PICK more : more = {r \in branch'[s].shows \ branch[s].shows :
                             mem'[s][r] # "active" \/ r \notin proof'[s]}
  OBVIOUS
<1>15. gone \in SUBSET MemoryRow /\ more \in SUBSET MemoryRow
  <2>1. branch'[s].shows \subseteq MemoryRow
    BY <1>8, <1>11 DEF Nodes
  <2> QED
    BY <1>13, <1>14, <2>1
<1>16. /\ dead' \in [Site -> SUBSET MemoryRow] /\ dead'[s] = dead[s] \cup gone
       /\ excused' \in [Site -> SUBSET MemoryRow] /\ excused'[s] = excused[s] \cup more
       /\ \A t \in Site \ {s} : dead'[t] = dead[t] /\ excused'[t] = excused[t]
  <2>1. dead' = [dead EXCEPT ![s] = dead[s] \cup gone] /\ excused' = [excused EXCEPT ![s] = excused[s] \cup more]
    BY <1>3, <1>13, <1>14
  <2> QED
    BY <1>1, <1>15, <2>1 DEF StoreTypes
<1>17. StoreTypes'
  BY <1>1, <1>3, <1>10, <1>11, <1>12, <1>16 DEF StoreTypes
<1>18. /\ \A k \in Proposal : cand'[s][k] = ImportedCandidate(s, k)
       /\ \A r \in MemoryRow : mem'[s][r] = ImportedMemory(s, r)
  BY <1>2, <1>10
<1> QED
  BY <1>1, <1>3, <1>10, <1>11, <1>12, <1>13, <1>14, <1>16, <1>17, <1>18

LEMMA ImportKeeps ==
    ASSUME TransferInv, Import
    PROVE  TransferInv'
<1>1. PICK s : s = Other(file.from)
  OBVIOUS
<1>2. /\ s \in Site /\ file.at = "written" /\ file.sound
      /\ \A k \in Proposal : cand'[s][k] = ImportedCandidate(s, k)
      /\ \A r \in MemoryRow : mem'[s][r] = ImportedMemory(s, r)
      /\ branch'[s] = ImportedNode(s) /\ proof'[s] = ImportedProof(s)
      /\ papers'[s] = ImportedPapers(s) /\ reviews'[s] = ImportedReviews(s)
      /\ dead'[s] = dead[s] \cup {r \in MemoryRow : mem'[s][r] = "inactive"}
      /\ excused'[s] = excused[s] \cup {r \in branch'[s].shows \ branch[s].shows :
                                          mem'[s][r] # "active" \/ r \notin proof'[s]}
      /\ UNCHANGED <<foul, file>>
      /\ StoreTypes'
      /\ \A t \in Site \ {s} :
           /\ mem'[t] = mem[t] /\ cand'[t] = cand[t] /\ branch'[t] = branch[t]
           /\ proof'[t] = proof[t] /\ papers'[t] = papers[t] /\ reviews'[t] = reviews[t]
           /\ dead'[t] = dead[t] /\ excused'[t] = excused[t]
  BY <1>1, ImportedRows
<1>3. FileOK(file) /\ SiteOK(file.from) /\ file.from \in Site /\ SiteOK(s)
  BY <1>2, FileFacts, SiteFacts
<1>4. ASSUME NEW r \in MemoryRow
      PROVE  /\ mem[s][r] # "none" => mem'[s][r] = mem[s][r]
             /\ mem[s][r] = "none" => /\ mem'[s][r] = "none" \/ mem'[s][r] = file.mem[r]
                                      /\ mem'[s][r] # "none" => mem[file.from][r] # "none"
  BY <1>2, <1>3 DEF ImportedMemory, FileOK
<1>5. \A t \in Site : Grows(t)
  <2>1. ASSUME NEW t \in Site \ {s}
        PROVE  Grows(t)
    BY <1>2 DEF Grows
  <2>2. Grows(s)
    <3>1. papers[s] \subseteq papers'[s] /\ reviews[s] \subseteq reviews'[s] /\ dead[s] \subseteq dead'[s]
      BY <1>2 DEF ImportedPapers, ImportedReviews
    <3> QED
      BY <1>2, <1>4, <3>1 DEF Grows
  <2> QED
    BY <2>1, <2>2
<1>6. \A r \in MemoryRow : mem'[s][r] # "none" => mem'[r[2]][r] # "none"
  <2>1. \A r \in MemoryRow : r[2] \in Site
    BY DEF MemoryRow
  <2>2. \A r \in MemoryRow : /\ mem[s][r] # "none" => mem[r[2]][r] # "none"
                             /\ mem[file.from][r] # "none" => mem[r[2]][r] # "none"
    BY <1>3 DEF SiteOK, StatusOK
  <2> QED
    BY <1>4, <1>5, <2>1, <2>2 DEF Grows
<1>7. \A k \in Proposal : cand'[s][k] # "approved" => mem'[s][<<k, s>>] # "active"
  <2> SUFFICES ASSUME NEW k \in Proposal, cand'[s][k] # "approved"
               PROVE  mem'[s][<<k, s>>] # "active"
    OBVIOUS
  <2>1. PICK r : r = <<k, s>>
    OBVIOUS
  <2>2. r \in MemoryRow /\ r[2] = s
    BY <1>2, <2>1 DEF MemoryRow
  <2>3. mem'[s][r] = mem[s][r]
    BY <1>3, <1>4, <2>2 DEF SiteOK, StatusOK
  <2>4. cand[s][k] # "approved"
    BY <1>2 DEF ImportedCandidate
  <2> QED
    BY <1>3, <2>1, <2>3, <2>4 DEF SiteOK, StatusOK
<1>8. StatusOK(s)'
  <2>1. \A r \in dead'[s] : mem'[s][r] = "inactive"
    <3>1. \A r \in dead[s] : r \in MemoryRow /\ mem[s][r] = "inactive"
      BY <1>2, <1>3, SiteFacts DEF SiteOK, StatusOK
    <3> QED
      BY <1>2, <1>4, <3>1
  <2> QED
    BY <1>6, <1>7, <2>1 DEF StatusOK
<1>9. NodeOK(s)'
  <2>1. proof[s] \subseteq proof'[s]
    BY <1>2 DEF ImportedProof
  <2>2. \A r \in MemoryRow : mem[s][r] = "active" => mem'[s][r] = "active"
    BY <1>4
  <2>3. CASE branch'[s] = branch[s]
    <3>1. branch[s].status = "none" => proof'[s] = {} /\ branch[s].shows = {}
      BY <1>2, <1>3, <2>3 DEF ImportedProof, SiteOK, NodeOK
    <3>2. branch[s].shows \subseteq MemoryRow
      BY <1>2, SiteFacts DEF Nodes
    <3>3. excused[s] \subseteq excused'[s]
      BY <1>2
    <3>4. branch[s].status = "active" =>
            \A r \in branch[s].shows \ excused[s] : mem[s][r] = "active" /\ r \in proof[s]
      BY <1>3 DEF SiteOK, NodeOK
    <3> QED
      BY <2>1, <2>2, <2>3, <3>1, <3>2, <3>3, <3>4 DEF NodeOK
  <2>4. CASE branch'[s] # branch[s]
    <3>1. branch[s].status = "none" /\ branch'[s] = file.node /\ file.node.status = "active"
      BY <1>2, <2>4 DEF ImportedNode
    <3>2. branch[s].shows = {}
      BY <1>3, <3>1 DEF SiteOK, NodeOK
    <3>3. \A r \in branch'[s].shows : mem'[s][r] # "active" \/ r \notin proof'[s] => r \in excused'[s]
      BY <1>2, <3>2
    <3> QED
      BY <3>1, <3>3 DEF NodeOK
  <2> QED
    BY <2>3, <2>4
<1>10. OnRecord(s)'
  <2>1. \A p \in papers'[s] : p \in papers[s] \/ (p \in file.papers /\ ImportedMemory(s, p[2]) # "none")
    BY <1>2 DEF ImportedPapers
  <2>2. \A p \in file.papers : ImportedMemory(s, p[2]) # "none" => p \in papers'[s]
    BY <1>2 DEF ImportedPapers
  <2>3. ASSUME NEW r \in MemoryRow
        PROVE  /\ mem'[s][r] # "none" <=> <<"source", r>> \in papers'[s]
               /\ mem'[s][r] = "inactive" => <<"invalidation", r>> \in papers'[s]
               /\ r \in foul'[s] => <<"revision", r>> \in papers'[s]
               /\ <<"revision", r>> \in papers'[s] => \E t \in Site : r \in foul'[t]
               /\ <<"invalidation", r>> \in papers'[s] => \E t \in Site : r \in dead'[t]
    <3>1. /\ <<"source", r>>[2] = r /\ <<"invalidation", r>>[2] = r /\ mem'[s][r] = ImportedMemory(s, r)
          /\ OnRecord(s) /\ OnRecord(file.from) /\ papers[s] \subseteq papers'[s]
      BY <1>2, <1>3, <1>5, <2>3 DEF SiteOK, Grows
    <3>2. mem'[s][r] # "none" => <<"source", r>> \in papers'[s]
      <4>1. mem[s][r] # "none" => <<"source", r>> \in papers[s]
        BY <3>1 DEF OnRecord
      <4>2. file.mem[r] # "none" => <<"source", r>> \in file.papers
        BY <1>2, <1>3 DEF FileOK
      <4> QED
        BY <1>4, <2>2, <3>1, <4>1, <4>2
    <3>3. <<"source", r>> \in papers'[s] => mem'[s][r] # "none"
      <4>1. <<"source", r>> \in papers[s] => mem[s][r] # "none"
        BY <3>1 DEF OnRecord
      <4> QED
        BY <1>4, <2>1, <3>1, <4>1
    <3>4. mem'[s][r] = "inactive" => <<"invalidation", r>> \in papers'[s]
      <4>1. mem[s][r] = "inactive" => <<"invalidation", r>> \in papers[s]
        BY <3>1 DEF OnRecord
      <4>2. file.mem[r] = "inactive" => <<"invalidation", r>> \in file.papers
        BY <1>2, <1>3 DEF FileOK
      <4> QED
        BY <1>4, <2>2, <3>1, <4>1, <4>2
    <3>5. r \in foul'[s] => <<"revision", r>> \in papers'[s]
      BY <1>2, <3>1 DEF OnRecord
    <3>6. \A p \in papers'[s] : p \in papers[s] \/ p \in papers[file.from]
      BY <1>3, <2>1 DEF FileOK
    <3>7. <<"revision", r>> \in papers'[s] => \E t \in Site : r \in foul'[t]
      BY <1>2, <3>1, <3>6 DEF OnRecord
    <3>8. <<"invalidation", r>> \in papers'[s] => \E t \in Site : r \in dead'[t]
      <4>1. <<"invalidation", r>> \in papers'[s] => \E t \in Site : r \in dead[t]
        BY <3>1, <3>6 DEF OnRecord
      <4>2. \A t \in Site : dead[t] \subseteq dead'[t]
        BY <1>5 DEF Grows
      <4> QED
        BY <4>1, <4>2
    <3> QED
      BY <3>2, <3>3, <3>4, <3>5, <3>7, <3>8
  <2>4. ASSUME NEW k \in Proposal
        PROVE  /\ cand'[s][k] = "approved" => <<"approve", k>> \in reviews'[s]
               /\ cand'[s][k] = "rejected" => <<"reject", k>> \in reviews'[s]
    <3>1. \A v \in file.reviews : ImportedCandidate(s, v[2]) # "none" => v \in reviews'[s]
      BY <1>2 DEF ImportedReviews
    <3>2. /\ <<"approve", k>>[2] = k /\ <<"reject", k>>[2] = k
          /\ cand'[s][k] = ImportedCandidate(s, k) /\ reviews[s] \subseteq reviews'[s]
      BY <1>2, <1>5 DEF Grows
    <3>3. CASE cand'[s][k] = cand[s][k]
      BY <1>3, <3>2, <3>3 DEF SiteOK, OnRecord
    <3>4. CASE cand'[s][k] # cand[s][k]
      <4>1. cand'[s][k] = "quarantined" \/ cand'[s][k] = file.cand[k]
        BY <3>2, <3>4 DEF ImportedCandidate
      <4>2. /\ file.cand[k] = "approved" => <<"approve", k>> \in file.reviews
            /\ file.cand[k] = "rejected" => <<"reject", k>> \in file.reviews
        BY <1>2, <1>3 DEF FileOK
      <4> QED
        BY <3>1, <3>2, <4>1, <4>2
    <3> QED
      BY <3>3, <3>4
  <2> QED
    BY <2>3, <2>4 DEF OnRecord
<1>11. SiteOK(s)'
  BY <1>8, <1>9, <1>10 DEF SiteOK
<1>12. revived' = {}
  <2>1. revived' = revived \cup {r \in file.began : mem'[s][r] = "active" /\ mem[s][r] # "active"}
    BY <1>1 DEF Import
  <2>2. ASSUME NEW r \in file.began, mem'[s][r] = "active"
        PROVE  mem[s][r] = "active"
    <3>1. r \in MemoryRow
      BY FileFacts DEF FileRecord
    <3>2. file.mem[r] # "active"
      BY <1>2, <1>3 DEF FileOK
    <3> QED
      BY <1>4, <2>2, <3>1, <3>2
  <2>3. revived = {}
    BY DEF TransferInv
  <2> QED
    BY <2>1, <2>2, <2>3
<1> QED
  BY <1>2, <1>5, <1>11, <1>12, OneStoreMoves

LEMMA TransferInvStep == TransferInv /\ [TransferNext]_transferVars => TransferInv'
<1> SUFFICES ASSUME TransferInv, [TransferNext]_transferVars
             PROVE  TransferInv'
  OBVIOUS
<1>1. ASSUME NEW s \in Site, ReviewStep(s)
      PROVE  TransferInv'
  <2>1. CASE \E k \in Proposal : Propose(k)
    BY <2>1, ProposeKeeps
  <2>2. CASE \E k \in Proposal : ApproveAt(s, k) \/ RejectAt(s, k)
    BY <2>2, ApproveKeeps, RejectKeeps
  <2>3. CASE \E r \in MemoryRow : DeactivateAt(s, r) \/ CorrectAt(s, r)
    BY <2>3, DeactivateKeeps, CorrectKeeps
  <2> QED
    BY <1>1, <2>1, <2>2, <2>3 DEF ReviewStep
<1>2. CASE \E s \in Site : ExportMemories(s)
  BY <1>2, ExportMemoriesKeeps
<1>3. CASE ExportStep
  BY <1>3, ExportQueueKeeps, ExportCandidatesKeeps, ExportItemsKeeps, ExportPapersKeeps,
     ExportNodesKeeps, ExportEvidenceKeeps DEF ExportStep
<1>4. CASE AlterFile \/ Discard
  BY <1>4, AlterFileKeeps, DiscardKeeps
<1>5. CASE Import
  BY <1>5, ImportKeeps
<1>6. CASE UNCHANGED transferVars
  <2>1. PICK f : f = file
    OBVIOUS
  <2>2. UNCHANGED stores /\ file' = f
    BY <1>6, <2>1 DEF stores, transferVars
  <2> QED
    BY <2>1, <2>2, FileFacts, OnlyTheFile
<1> QED
  BY <1>1, <1>2, <1>3, <1>4, <1>5, <1>6 DEF TransferNext

\* In every state of the stores and the file, every column has a value it may have.
THEOREM TransferTypeCorrect == TransferSpec => []TransferTypeOK
<1>1. TransferInv => TransferTypeOK
  <2> SUFFICES ASSUME TransferInv
               PROVE  TransferTypeOK
    OBVIOUS
  <2>1. /\ file.at \in {"none", "queue", "candidates", "items", "papers", "nodes", "evidence", "written"}
        /\ file.cand \in [Proposal -> CandidateStatus]
        /\ file.mem \in [MemoryRow -> RowStatus] /\ file.item \in [MemoryRow -> RowStatus]
        /\ file.papers \subseteq Papers /\ file.reviews \subseteq Reviews
        /\ file.node \in Nodes /\ file.began \cup file.proof \subseteq MemoryRow
        /\ file.listed \subseteq Proposal /\ file.sound \in BOOLEAN /\ file.from \in Site
    BY DEF TransferInv, FileRecord
  <2>2. \A s \in Site :
          /\ mem[s] \in [MemoryRow -> RowStatus \ {"foul"}]
          /\ itemOf[s] \in [MemoryRow -> RowStatus \ {"foul"}]
          /\ branch[s] \in Nodes /\ papers[s] \subseteq Papers /\ reviews[s] \subseteq Reviews
          /\ foul[s] \cup proof[s] \cup dead[s] \cup excused[s] \subseteq MemoryRow
    BY SiteFacts DEF KeptStatus
  <2>3. cand \in [Site -> [Proposal -> CandidateStatus]] /\ revived \subseteq MemoryRow
    BY DEF TransferInv, StoreTypes
  <2> QED
    BY <2>1, <2>2, <2>3 DEF TransferTypeOK
<1> QED
  BY <1>1, TransferInvInit, TransferInvStep, PTL DEF TransferSpec

\* "Import must preserve inactive states" (docs/amk-000-kernel-invariants.md:164): whatever is committed
\* during an export, and whatever the other store holds, an import revives nothing, an active
\* node quotes active memories but for those it came with, and memories and decisions come
\* with their records (export_profile, import_profile).
THEOREM TransfersKeepState == TransferSpec => []TransferKeepsState
<1>1. TransferInv => TransferKeepsState
  <2> SUFFICES ASSUME TransferInv
               PROVE  TransferKeepsState
    OBVIOUS
  <2>1. revived = {}
    BY DEF TransferInv
  <2>2. ASSUME NEW s \in Site
        PROVE  /\ \A r \in dead[s] : mem[s][r] = "inactive"
               /\ \A k \in Proposal : cand[s][k] # "approved" => mem[s][<<k, s>>] # "active"
               /\ branch[s].status = "active" =>
                    \A r \in branch[s].shows \ excused[s] : mem[s][r] = "active"
               /\ \A r \in MemoryRow :
                    /\ mem[s][r] # "none" <=> <<"source", r>> \in papers[s]
                    /\ mem[s][r] = "inactive" => <<"invalidation", r>> \in papers[s]
                    /\ r \in foul[s] => <<"revision", r>> \in papers[s]
                    /\ <<"revision", r>> \in papers[s] => r \in UNION {foul[t] : t \in Site}
                    /\ <<"invalidation", r>> \in papers[s] => r \in UNION {dead[t] : t \in Site}
               /\ \A k \in Proposal :
                    /\ cand[s][k] = "approved" => <<"approve", k>> \in reviews[s]
                    /\ cand[s][k] = "rejected" => <<"reject", k>> \in reviews[s]
    <3>1. /\ \A r \in dead[s] : mem[s][r] = "inactive"
          /\ \A k \in Proposal : cand[s][k] # "approved" => mem[s][<<k, s>>] # "active"
          /\ branch[s].status = "active" =>
               \A r \in branch[s].shows \ excused[s] : mem[s][r] = "active"
      BY SiteFacts DEF StatusOK, NodeOK
    <3>2. \A r : /\ (\E t \in Site : r \in foul[t]) => r \in UNION {foul[t] : t \in Site}
                 /\ (\E t \in Site : r \in dead[t]) => r \in UNION {dead[t] : t \in Site}
      OBVIOUS
    <3>3. OnRecord(s)
      BY SiteFacts
    <3> QED
      BY <3>1, <3>2, <3>3 DEF OnRecord
  <2> QED
    BY <2>1, <2>2 DEF TransferKeepsState
<1> QED
  BY <1>1, TransferInvInit, TransferInvStep, PTL DEF TransferSpec

----------------------------------------------------------------------------
(* Requests that take text in. *)

CandidateRow == [job : Job, at : 0 .. Chunks, mem : {"none", "active", "inactive"}]
OutcomeRow == [of : Index \cup {0}, status : {"active", "pending"}]
ChunkRows == [at : 1 .. Chunks, of : Index]

Requests == [job : Job, at : 0 .. Chunks,
             pc : {"idle", "begin", "extracting", "outcome", "scope", "insert", "item", "row", "end"},
             made : SUBSET Index, last : SUBSET Index, row : SUBSET ChunkRows,
             approved : BOOLEAN, inDraft : BOOLEAN]

TableTypes ==
    /\ proposed \in Seq(CandidateRow)
    /\ outcomes \in Seq(OutcomeRow)
    /\ turns \in Seq([made : SUBSET Index])
    /\ draft \in BOOLEAN
    /\ drafted \subseteq Index
    /\ chunkRows \subseteq ChunkRows
    /\ answered \subseteq [job : Job, made : SUBSET Index, inDraft : BOOLEAN]

\* The chunk a candidate was made of has a row.
Rowed(k, rows) == \E row \in rows : row.at = proposed[k].at

AnswerOK(a) ==
    /\ Accounted(a)
    /\ a.made \subseteq DOMAIN proposed
    /\ a.job = "watch" => \A k \in a.made : Rowed(k, chunkRows)

TurnsOK ==
    /\ \A k \in DOMAIN proposed : proposed[k].job = "turn" => \E i \in DOMAIN turns : k \in turns[i].made
    /\ \A i \in DOMAIN turns : turns[i].made \subseteq DOMAIN proposed
    /\ \A i, j \in DOMAIN turns : i # j => turns[i].made \cap turns[j].made = {}

\* A chunk's row names a candidate made of it.
RowOK(row) ==
    /\ row.of \in DOMAIN proposed
    /\ proposed[row.of].job = "watch" /\ proposed[row.of].at = row.at

RowsOK ==
    \A row \in chunkRows :
      /\ RowOK(row)
      /\ \A other \in chunkRows : other.at = row.at => other = row

Tables ==
    /\ TableTypes
    /\ \A a \in answered : AnswerOK(a)
    /\ TurnsOK
    /\ RowsOK

\* What a request has made so far, and what of it is in the chunk table or will be with the
\* next commit.
Fits(r) ==
    /\ r.last \subseteq r.made /\ r.made \subseteq DOMAIN proposed
    /\ \A k \in r.made : proposed[k].job = r.job
    /\ r.job \in Loops => r.at # 0
    /\ r.pc \in {"begin", "extracting"} /\ r.job \notin Loops => r.made = {}
    /\ r.pc = "outcome" => r.job = "outcome" /\ r.made = r.last
    /\ r.pc \in {"scope", "insert", "item"} => r.job = "proposal" /\ r.made = r.last
    /\ r.pc \in {"row", "end"} => r.job = "watch"
    /\ r.pc = "item" => draft
    /\ r.job = "watch" => \A k \in r.made :
         /\ proposed[k].at <= r.at
         /\ proposed[k].at < r.at - 1 => Rowed(k, chunkRows)
         /\ r.pc \in {"begin", "extracting"} => proposed[k].at < r.at
         /\ r.pc = "row" => IF k \in r.last THEN proposed[k].at = r.at
                            ELSE proposed[k].at < r.at /\ Rowed(k, chunkRows)
         /\ r.pc \in {"begin", "extracting", "end"} => Rowed(k, chunkRows \cup r.row)
    /\ \A row \in r.row :
         /\ RowOK(row)
         /\ \A old \in chunkRows : old.at # row.at
         /\ \A other \in r.row : other = row

\* What is not committed is under the write lock.
Locked(c, r) == r.pc = "extracting" \/ r.row # {} => writeLock = c

IntakeInv ==
    /\ Tables
    /\ request \in [Client -> Requests]
    /\ writeLock \in Client \cup {Noone}
    /\ \A c \in Client : Fits(request[c]) /\ Locked(c, request[c])

\* Candidates are added, and reviewed.
Kept ==
    \A k \in DOMAIN proposed :
      k \in DOMAIN proposed' /\ proposed'[k].job = proposed[k].job /\ proposed'[k].at = proposed[k].at

LEMMA DoneFits == Done \in Requests /\ Fits(Done) /\ ~(Done.pc = "extracting") /\ Done.row = {}
BY IntakeBounds DEF Done, Requests, Job, Fits, Loops

LEMMA IntakeInvInit == IntakeInit => IntakeInv
<1> SUFFICES ASSUME IntakeInit
             PROVE  IntakeInv
  OBVIOUS
<1>1. Tables
  <2>1. TableTypes
    <3>1. \A S : <<>> \in Seq(S)
      OBVIOUS
    <3>2. /\ proposed = <<>> /\ outcomes = <<>> /\ turns = <<>> /\ draft = FALSE
          /\ drafted = {} /\ chunkRows = {} /\ answered = {}
      BY DEF IntakeInit
    <3> QED
      BY <3>1, <3>2, Zenon DEF TableTypes
  <2>2. DOMAIN proposed = {} /\ DOMAIN turns = {} /\ chunkRows = {} /\ answered = {}
    BY DEF IntakeInit
  <2> QED
    BY <2>1, <2>2 DEF Tables, TurnsOK, RowsOK
<1>2. \A c \in Client : Fits(request[c]) /\ Locked(c, request[c])
  BY DoneFits DEF IntakeInit, Locked
<1> QED
  BY <1>1, <1>2, DoneFits DEF IntakeInit, IntakeInv

LEMMA FitsStays ==
    ASSUME NEW r \in Requests, Fits(r), Kept, chunkRows \subseteq chunkRows', draft => draft',
           r.row = {} \/ chunkRows' = chunkRows
    PROVE  Fits(r)'
<1>1. \A k \in r.made : \A rows, more : Rowed(k, rows) /\ rows \subseteq more => Rowed(k, more)'
  BY DEF Fits, Kept, Rowed
<1>2. \A row \in r.row : RowOK(row)'
  BY DEF Fits, Kept, RowOK
<1>3. ASSUME NEW k \in r.made, r.job = "watch"
      PROVE  /\ proposed'[k].at <= r.at
             /\ proposed'[k].at < r.at - 1 => Rowed(k, chunkRows)'
             /\ r.pc \in {"begin", "extracting"} => proposed'[k].at < r.at
             /\ r.pc = "row" => IF k \in r.last THEN proposed'[k].at = r.at
                                ELSE proposed'[k].at < r.at /\ Rowed(k, chunkRows)'
             /\ r.pc \in {"begin", "extracting", "end"} => Rowed(k, chunkRows \cup r.row)'
  <2>1. proposed'[k].at = proposed[k].at
    BY DEF Fits, Kept
  <2>2. Rowed(k, chunkRows) => Rowed(k, chunkRows)'
    BY <1>1
  <2>3. Rowed(k, chunkRows \cup r.row) => Rowed(k, chunkRows \cup r.row)'
    BY <1>1
  <2> QED
    BY <1>3, <2>1, <2>2, <2>3 DEF Fits
<1>4. r.made \subseteq DOMAIN proposed' /\ \A k \in r.made : proposed'[k].job = r.job
  BY DEF Fits, Kept
<1> QED
  BY <1>2, <1>3, <1>4 DEF Fits

LEMMA OneRequestMoves ==
    ASSUME IntakeInv, NEW c \in Client, NEW r \in Requests, Goes(c, r), Tables', Kept,
           chunkRows \subseteq chunkRows', draft => draft', Fits(r)', Locked(c, r)',
           writeLock' = writeLock \/ (CanWrite(c) /\ writeLock' \in {c, Noone}),
           chunkRows' = chunkRows \/ writeLock = c
    PROVE  IntakeInv'
<1>1. /\ request' = [request EXCEPT ![c] = r] /\ request \in [Client -> Requests]
      /\ request' \in [Client -> Requests] /\ writeLock' \in Client \cup {Noone}
  BY DEF Goes, IntakeInv
<1>2. ASSUME NEW d \in Client
      PROVE  Fits(request[d])' /\ Locked(d, request[d])'
  <2>1. CASE d = c
    BY <1>1, <2>1
  <2>2. CASE d # c
    <3>1. PICK q : q = request[d]
      OBVIOUS
    <3>2. q \in Requests /\ request'[d] = q /\ Fits(q) /\ Locked(d, q)
      BY <1>1, <2>2, <3>1 DEF IntakeInv
    <3>3. q.pc = "extracting" \/ q.row # {} => writeLock = d /\ writeLock' = d
      BY <2>2, <3>2, ClientAssumption DEF Locked, CanWrite
    <3>4. q.row = {} \/ chunkRows' = chunkRows
      BY <2>2, <3>3
    <3>5. Fits(q)'
      BY <3>2, <3>4, FitsStays
    <3>6. Locked(d, q)'
      BY <3>3 DEF Locked
    <3> QED
      BY <3>1, <3>2, <3>5, <3>6
  <2> QED
    BY <2>1, <2>2
<1> QED
  BY <1>1, <1>2 DEF IntakeInv

LEMMA TablesStay ==
    ASSUME Tables, UNCHANGED <<proposed, outcomes, turns, draft, drafted, chunkRows, answered>>
    PROVE  Tables' /\ Kept /\ \A r : Fits(r) => Fits(r)'
<1>1. Tables'
  BY DEF Tables, TableTypes, AnswerOK, Accounted, TurnsOK, RowsOK, RowOK, Rowed
<1>2. \A r : Fits(r) => Fits(r)'
  BY DEF Fits, RowOK, Rowed
<1> QED
  BY <1>1, <1>2 DEF Kept

LEMMA AnswersStay ==
    ASSUME Tables, Kept, chunkRows \subseteq chunkRows', drafted \subseteq drafted', draft => draft',
           \A i \in DOMAIN outcomes : i \in DOMAIN outcomes' /\ outcomes'[i].of = outcomes[i].of,
           \A i \in DOMAIN turns : i \in DOMAIN turns' /\ turns'[i].made = turns[i].made
    PROVE  \A a \in answered : AnswerOK(a)'
<1> SUFFICES ASSUME NEW a \in answered
             PROVE  AnswerOK(a)'
  OBVIOUS
<1>1. AnswerOK(a)
  BY DEF Tables
<1>2. a.job \in Job
  BY DEF Tables, TableTypes
<1>3. Accounted(a)'
  BY <1>1, <1>2 DEF AnswerOK, Accounted, Job
<1>4. a.job = "watch" => \A k \in a.made : Rowed(k, chunkRows)'
  BY <1>1 DEF AnswerOK, Rowed, Kept
<1> QED
  BY <1>1, <1>3, <1>4 DEF AnswerOK, Kept

\* The rows a request commits.
LEMMA RowsAreSaved ==
    ASSUME IntakeInv, NEW c \in Client, Kept, chunkRows' = chunkRows \cup request[c].row
    PROVE  RowsOK' /\ chunkRows' \subseteq ChunkRows
<1>1. request[c] \in Requests /\ Fits(request[c]) /\ RowsOK /\ chunkRows \subseteq ChunkRows
  BY DEF IntakeInv, Tables, TableTypes
<1>2. \A row \in chunkRows' : RowOK(row)'
  BY <1>1 DEF Fits, RowsOK, RowOK, Kept
<1>3. \A row, other \in chunkRows' : other.at = row.at => other = row
  BY <1>1 DEF Fits, RowsOK
<1>4. chunkRows' \subseteq ChunkRows
  BY <1>1 DEF Requests
<1> QED
  BY <1>2, <1>3, <1>4 DEF RowsOK

----------------------------------------------------------------------------
(* Steps. *)

LEMMA Facts ==
    ASSUME IntakeInv, NEW c \in Client
    PROVE  /\ request[c] \in Requests /\ Fits(request[c]) /\ Locked(c, request[c])
           /\ Tables /\ writeLock \in Client \cup {Noone}
BY DEF IntakeInv

\* A request that leaves the tables alone.
LEMMA OnlyTheRequest ==
    ASSUME IntakeInv, NEW c \in Client, NEW r \in Requests, Goes(c, r), Fits(r), Locked(c, r)',
           UNCHANGED <<proposed, outcomes, turns, draft, drafted, chunkRows, answered>>,
           writeLock' = writeLock \/ (CanWrite(c) /\ writeLock' \in {c, Noone})
    PROVE  IntakeInv'
<1>1. Tables' /\ Kept /\ Fits(r)'
  BY TablesStay DEF IntakeInv
<1> QED
  BY <1>1, OneRequestMoves

LEMMA AbortKeeps ==
    ASSUME IntakeInv, NEW c \in Client, Abort(c)
    PROVE  IntakeInv'
<1>1. /\ Goes(c, Done) /\ writeLock' = IF writeLock = c THEN Noone ELSE writeLock
      /\ UNCHANGED <<proposed, outcomes, turns, draft, drafted, chunkRows, answered>>
  BY DEF Abort, Closes
<1>2. Locked(c, Done)'
  BY DoneFits DEF Locked
<1> QED
  BY <1>1, <1>2, DoneFits, OnlyTheRequest DEF CanWrite

LEMMA AskKeeps ==
    ASSUME IntakeInv, NEW c \in Client, NEW job \in Job, NEW inDraft \in BOOLEAN, Ask(c, job, inDraft)
    PROVE  IntakeInv'
<1>1. PICK at \in 0 .. Chunks : at = (IF job \in Loops THEN 1 ELSE 0)
  BY IntakeBounds
<1>2. PICK r : r = [Done EXCEPT !.job = job, !.pc = "begin", !.inDraft = inDraft, !.at = at]
  OBVIOUS
<1>3. /\ r \in Requests /\ r.pc = "begin" /\ r.job = job /\ r.made = {} /\ r.last = {}
      /\ r.row = {} /\ r.at = at
  BY <1>2, DoneFits DEF Requests, Done
<1>4. /\ Goes(c, r) /\ writeLock' = (IF job = "turn" THEN c ELSE writeLock)
      /\ job = "turn" => CanWrite(c)
      /\ UNCHANGED <<proposed, outcomes, turns, draft, drafted, chunkRows, answered>>
  BY <1>1, <1>2 DEF Ask
<1>5. Fits(r) /\ Locked(c, r)'
  BY <1>1, <1>3 DEF Fits, Locked
<1> QED
  BY <1>3, <1>4, <1>5, OnlyTheRequest

LEMMA BeginKeeps ==
    ASSUME IntakeInv, NEW c \in Client, Begin(c)
    PROVE  IntakeInv'
<1>1. PICK q : q = request[c]
  OBVIOUS
<1>2. q \in Requests /\ Fits(q) /\ q.pc = "begin" /\ CanWrite(c)
  BY <1>1, Facts DEF Begin
<1>3. PICK r : r = [q EXCEPT !.pc = "extracting"]
  OBVIOUS
<1>4. /\ r \in Requests /\ r.pc = "extracting" /\ r.job = q.job /\ r.made = q.made
      /\ r.last = q.last /\ r.row = q.row /\ r.at = q.at
  BY <1>2, <1>3 DEF Requests
<1>5. /\ Goes(c, r) /\ writeLock' = c
      /\ UNCHANGED <<proposed, outcomes, turns, draft, drafted, chunkRows, answered>>
  BY <1>1, <1>3 DEF Begin
<1>6. Fits(r) /\ Locked(c, r)'
  BY <1>2, <1>4, <1>5 DEF Fits, Locked
<1> QED
  BY <1>2, <1>4, <1>5, <1>6, OnlyTheRequest

LEMMA FindScopeKeeps ==
    ASSUME IntakeInv, NEW c \in Client, FindScope(c)
    PROVE  IntakeInv'
<1>1. PICK q : q = request[c]
  OBVIOUS
<1>2. q \in Requests /\ Fits(q) /\ Locked(c, q) /\ q.pc = "scope"
  BY <1>1, Facts DEF FindScope
<1>3. PICK pc \in {"item", "insert"} : pc = IF draft THEN "item" ELSE "insert"
  OBVIOUS
<1>4. PICK r : r = [q EXCEPT !.pc = pc]
  OBVIOUS
<1>5. /\ r \in Requests /\ r.pc = pc /\ r.job = q.job /\ r.made = q.made
      /\ r.last = q.last /\ r.row = q.row /\ r.at = q.at
  BY <1>2, <1>4 DEF Requests
<1>6. /\ Goes(c, r) /\ writeLock' = writeLock
      /\ UNCHANGED <<proposed, outcomes, turns, draft, drafted, chunkRows, answered>>
  BY <1>1, <1>3, <1>4 DEF FindScope
<1>7. Fits(r) /\ Locked(c, r)'
  BY <1>2, <1>3, <1>5, <1>6 DEF Fits, Locked
<1> QED
  BY <1>5, <1>6, <1>7, OnlyTheRequest

LEMMA InsertScopeKeeps ==
    ASSUME IntakeInv, NEW c \in Client, InsertScope(c)
    PROVE  IntakeInv'
<1>1. PICK q : q = request[c]
  OBVIOUS
<1>2. q \in Requests /\ Fits(q) /\ Locked(c, q) /\ q.pc = "insert" /\ CanWrite(c) /\ Tables
  BY <1>1, Facts DEF InsertScope
<1>3. UNCHANGED <<proposed, outcomes, turns, drafted, chunkRows, answered>> /\ draft' = TRUE
  BY DEF InsertScope
<1>4. Kept /\ \A a \in answered : AnswerOK(a)'
  <2>1. Kept
    BY <1>3 DEF Kept
  <2> QED
    BY <1>2, <1>3, <2>1, AnswersStay
<1>5. Tables'
  BY <1>2, <1>3, <1>4 DEF Tables, TableTypes, TurnsOK, RowsOK, RowOK
<1>6. CASE draft
  <2>1. Goes(c, Done) /\ writeLock' = IF writeLock = c THEN Noone ELSE writeLock
    BY <1>6 DEF InsertScope, Closes
  <2>2. Locked(c, Done)' /\ Fits(Done)'
    BY <1>3, <1>4, DoneFits, FitsStays DEF Locked
  <2> QED
    BY <1>2, <1>3, <1>4, <1>5, <2>1, <2>2, DoneFits, OneRequestMoves DEF CanWrite
<1>7. CASE ~draft
  <2>1. PICK r : r = [q EXCEPT !.pc = "item"]
    OBVIOUS
  <2>2. /\ r \in Requests /\ r.pc = "item" /\ r.job = q.job /\ r.made = q.made
        /\ r.last = q.last /\ r.row = q.row /\ r.at = q.at
    BY <1>2, <2>1 DEF Requests
  <2>3. Goes(c, r) /\ writeLock' = writeLock
    BY <1>1, <1>7, <2>1 DEF InsertScope
  <2>4. Fits(q)'
    BY <1>2, <1>3, <1>4, FitsStays
  <2>5. Fits(r)' /\ Locked(c, r)'
    BY <1>2, <1>3, <2>2, <2>3, <2>4 DEF Fits, Locked
  <2> QED
    BY <1>2, <1>3, <1>4, <1>5, <2>2, <2>3, <2>5, OneRequestMoves
<1> QED
  BY <1>6, <1>7

\* What is remembered of an answered request.
Reply(r) == [job |-> r.job, made |-> r.made, inDraft |-> r.inDraft]

LEMMA ReplyFields ==
    ASSUME NEW r \in Requests, NEW a, a = Reply(r)
    PROVE  /\ a \in [job : Job, made : SUBSET Index, inDraft : BOOLEAN]
           /\ a.job = r.job /\ a.made = r.made /\ a.inDraft = r.inDraft
BY DEF Reply, Requests

\* A request is answered with what it has made.
LEMMA AnsweredKeeps ==
    ASSUME IntakeInv, NEW c \in Client, Answers(c), Kept, TableTypes', TurnsOK', RowsOK', draft => draft',
           drafted \subseteq drafted', chunkRows \subseteq chunkRows',
           \A i \in DOMAIN outcomes : i \in DOMAIN outcomes' /\ outcomes'[i].of = outcomes[i].of,
           \A i \in DOMAIN turns : i \in DOMAIN turns' /\ turns'[i].made = turns[i].made,
           chunkRows' = chunkRows \/ writeLock = c,
           NEW a, a = Reply(request[c]), AnswerOK(a)'
    PROVE  IntakeInv'
<1>1. /\ answered' = answered \cup {a} /\ Goes(c, Done)
      /\ writeLock' = IF writeLock = c THEN Noone ELSE writeLock
  BY DEF Answers, Closes, Reply
<1>2. \A b \in answered : AnswerOK(b)'
  BY AnswersStay DEF IntakeInv
<1>3. Tables'
  BY <1>1, <1>2 DEF Tables
<1>4. Fits(Done)' /\ Locked(c, Done)'
  BY DoneFits DEF Fits, Locked, Done, Loops
<1> QED
  BY <1>1, <1>3, <1>4, DoneFits, OneRequestMoves DEF CanWrite

LEMMA EndOfFileKeeps ==
    ASSUME IntakeInv, NEW c \in Client, EndOfFile(c)
    PROVE  IntakeInv'
<1>1. PICK q : q = request[c]
  OBVIOUS
<1>2. q \in Requests /\ Fits(q) /\ Locked(c, q) /\ q.pc = "end" /\ Tables
  BY <1>1, Facts DEF EndOfFile
<1>3. /\ UNCHANGED <<proposed, outcomes, turns, draft, drafted>> /\ Answers(c)
      /\ chunkRows' = chunkRows \cup q.row
  BY <1>1 DEF EndOfFile
<1>4. Kept
  BY <1>3 DEF Kept
<1>5. RowsOK' /\ chunkRows' \subseteq ChunkRows
  BY <1>1, <1>3, <1>4, RowsAreSaved
<1>6. PICK a : a = Reply(q)
  OBVIOUS
<1>7. a \in [job : Job, made : SUBSET Index, inDraft : BOOLEAN] /\ a.job = "watch" /\ a.made = q.made
  BY <1>2, <1>6, ReplyFields DEF Fits
<1>8. AnswerOK(a)'
  BY <1>2, <1>3, <1>7 DEF AnswerOK, Accounted, Fits, Rowed
<1>9. answered' = answered \cup {a}
  BY <1>1, <1>3, <1>6 DEF Answers, Reply
<1>10. TableTypes'
  BY <1>2, <1>3, <1>5, <1>7, <1>9 DEF Tables, TableTypes
<1>11. TurnsOK'
  BY <1>2, <1>3 DEF Tables, TurnsOK
<1>12. chunkRows' = chunkRows \/ writeLock = c
  BY <1>2, <1>3 DEF Locked
<1> QED
  BY <1>1, <1>3, <1>4, <1>5, <1>6, <1>8, <1>10, <1>11, <1>12, AnsweredKeeps

LEMMA AddToDraftKeeps ==
    ASSUME IntakeInv, NEW c \in Client, AddToDraft(c)
    PROVE  IntakeInv'
<1>1. PICK q : q = request[c]
  OBVIOUS
<1>2. q \in Requests /\ Fits(q) /\ q.pc = "item" /\ Tables
  BY <1>1, Facts DEF AddToDraft
<1>3. /\ UNCHANGED <<proposed, outcomes, turns, draft, chunkRows>> /\ Answers(c)
      /\ drafted' = drafted \cup q.last
  BY <1>1 DEF AddToDraft
<1>4. Kept
  BY <1>3 DEF Kept
<1>5. RowsOK'
  BY <1>2, <1>3 DEF Tables, RowsOK, RowOK
<1>6. PICK a : a = Reply(q)
  OBVIOUS
<1>7. /\ a \in [job : Job, made : SUBSET Index, inDraft : BOOLEAN]
      /\ a.job = "proposal" /\ a.made = q.made /\ q.made = q.last /\ draft
  BY <1>2, <1>6, ReplyFields DEF Fits
<1>8. AnswerOK(a)'
  BY <1>2, <1>3, <1>7 DEF AnswerOK, Accounted, Fits
<1>9. answered' = answered \cup {a}
  BY <1>1, <1>3, <1>6 DEF Answers, Reply
<1>10. TableTypes'
  BY <1>2, <1>3, <1>7, <1>9 DEF Tables, TableTypes
<1>11. TurnsOK'
  BY <1>2, <1>3 DEF Tables, TurnsOK
<1> QED
  BY <1>1, <1>3, <1>4, <1>5, <1>6, <1>8, <1>10, <1>11, AnsweredKeeps

\* A row more.
LEMMA Appended ==
    ASSUME NEW S, NEW s \in Seq(S), NEW e \in S, NEW t, t = Append(s, e)
    PROVE  /\ t \in Seq(S)
           /\ Len(s) + 1 \in DOMAIN t /\ t[Len(s) + 1] = e
           /\ \A i \in DOMAIN s : i \in DOMAIN t /\ t[i] = s[i]
           /\ \A i \in DOMAIN t : i \in DOMAIN s \/ i = Len(s) + 1
           /\ Len(s) + 1 \notin DOMAIN s
BY AppendProperties

LEMMA RecordOutcomeKeeps ==
    ASSUME IntakeInv, NEW c \in Client, RecordOutcome(c)
    PROVE  IntakeInv'
<1>1. PICK q : q = request[c]
  OBVIOUS
<1>2. q \in Requests /\ Fits(q) /\ q.pc = "outcome" /\ Tables
  BY <1>1, Facts DEF RecordOutcome
<1>3. UNCHANGED <<proposed, turns, draft, drafted, chunkRows>> /\ Answers(c)
  BY DEF RecordOutcome
<1>4. PICK of \in Index \cup {0} :
        /\ IF q.last = {} THEN of = 0 ELSE First(q.last, of)
        /\ outcomes' = Append(outcomes,
             [of |-> of, status |-> IF q.approved THEN "active" ELSE "pending"])
  BY <1>1 DEF RecordOutcome
<1>5. PICK status \in {"active", "pending"} : status = IF q.approved THEN "active" ELSE "pending"
  OBVIOUS
<1>6. PICK e : e = [of |-> of, status |-> status]
  OBVIOUS
<1>7. e \in OutcomeRow /\ e.of = of /\ outcomes' = Append(outcomes, e)
  BY <1>4, <1>5, <1>6 DEF OutcomeRow
<1>8. /\ outcomes' \in Seq(OutcomeRow)
      /\ \E i \in DOMAIN outcomes' : outcomes'[i] = e
      /\ \A i \in DOMAIN outcomes : i \in DOMAIN outcomes' /\ outcomes'[i] = outcomes[i]
  <2>1. outcomes \in Seq(OutcomeRow)
    BY <1>2 DEF Tables, TableTypes
  <2> QED
    BY <1>7, <2>1, Appended
<1>9. Kept
  BY <1>3 DEF Kept
<1>10. RowsOK'
  BY <1>2, <1>3 DEF Tables, RowsOK, RowOK
<1>11. PICK a : a = Reply(q)
  OBVIOUS
<1>12. /\ a \in [job : Job, made : SUBSET Index, inDraft : BOOLEAN]
       /\ a.job = "outcome" /\ a.made = q.made /\ q.made = q.last
  BY <1>2, <1>11, ReplyFields DEF Fits
<1>13. AnswerOK(a)'
  <2>1. Accounted(a)'
    BY <1>4, <1>7, <1>8, <1>12 DEF Accounted
  <2> QED
    BY <1>2, <1>3, <1>12, <2>1 DEF AnswerOK, Fits
<1>14. answered' = answered \cup {a}
  BY <1>1, <1>3, <1>11 DEF Answers, Reply
<1>15. TableTypes'
  BY <1>2, <1>3, <1>8, <1>12, <1>14 DEF Tables, TableTypes
<1>16. TurnsOK'
  BY <1>2, <1>3 DEF Tables, TurnsOK
<1> QED
  BY <1>1, <1>3, <1>8, <1>9, <1>10, <1>11, <1>13, <1>15, <1>16, AnsweredKeeps

LEMMA ChunkRowKeeps ==
    ASSUME IntakeInv, NEW c \in Client, ChunkRow(c)
    PROVE  IntakeInv'
<1>1. PICK q : q = request[c]
  OBVIOUS
<1>2. q \in Requests /\ Fits(q) /\ Locked(c, q) /\ q.pc = "row" /\ Tables
  BY <1>1, Facts DEF ChunkRow
<1>3. q.job = "watch" /\ q.at \in 1 .. Chunks
  BY <1>2, IntakeBounds DEF Fits, Loops, Requests
<1>4. PICK new : new = {[at |-> q.at, of |-> k] : k \in {l \in q.last : First(q.last, l)}}
  OBVIOUS
<1>5. PICK row : row = IF {o \in chunkRows : o.at = q.at} = {} THEN new ELSE {}
  OBVIOUS
<1>6. /\ q.last # {} => CanWrite(c)
      /\ Goes(c, IF q.at < Chunks THEN [q EXCEPT !.pc = "begin", !.at = q.at + 1, !.row = row]
                 ELSE [q EXCEPT !.pc = "end", !.row = row])
      /\ writeLock' = IF q.last = {} THEN writeLock ELSE c
      /\ UNCHANGED <<proposed, outcomes, turns, draft, drafted, chunkRows, answered>>
  BY <1>1, <1>4, <1>5 DEF ChunkRow
<1>7. \A e \in new : /\ e \in ChunkRows /\ e.at = q.at /\ RowOK(e)
                     /\ \A other \in new : other = e
  <2>1. ASSUME NEW e \in new
        PROVE  e \in ChunkRows /\ e.at = q.at /\ RowOK(e) /\ First(q.last, e.of) /\ e = [at |-> q.at, of |-> e.of]
    <3>1. PICK k \in q.last : First(q.last, k) /\ e = [at |-> q.at, of |-> k]
      BY <1>4, <2>1
    <3>2. /\ k \in q.made /\ k \in Index /\ k \in DOMAIN proposed
          /\ proposed[k].job = "watch" /\ proposed[k].at = q.at
      BY <1>2, <1>3, <3>1 DEF Fits, Requests
    <3>3. e \in ChunkRows
      BY <1>3, <3>1, <3>2 DEF ChunkRows
    <3> QED
      BY <3>1, <3>2, <3>3 DEF RowOK
  <2>2. \A k, l : First(q.last, k) /\ First(q.last, l) => k = l
    <3>1. q.last \subseteq Nat
      BY <1>2 DEF Requests, Index
    <3> QED
      BY <3>1 DEF First
  <2>3. ASSUME NEW e \in new, NEW other \in new
        PROVE  other = e
    <3>1. e.of = other.of
      BY <2>1, <2>2
    <3> QED
      BY <2>1, <3>1
  <2> QED
    BY <2>1, <2>3
<1>8. q.last # {} => new # {}
  <2>1. q.last \subseteq Nat
    BY <1>2 DEF Requests, Index
  <2>2. ASSUME q.last # {}
        PROVE  \E k \in q.last : First(q.last, k)
    BY <2>1, <2>2, LowestExists DEF First
  <2> QED
    BY <1>4, <2>2
<1>9. /\ row \in SUBSET ChunkRows /\ row \subseteq new
      /\ q.last # {} => \E e \in chunkRows \cup row : e.at = q.at
      /\ \A e \in row, old \in chunkRows : old.at # e.at
  BY <1>5, <1>7, <1>8
<1>10. new # {} => q.last # {}
  BY <1>4
<1>11. \A k \in DOMAIN proposed : proposed[k].at \in Nat
  <2>1. \A k \in DOMAIN proposed : proposed[k] \in CandidateRow
    BY <1>2 DEF Tables, TableTypes
  <2> QED
    BY <2>1, IntakeBounds DEF CandidateRow
<1>12. ASSUME NEW k \in q.made
       PROVE  /\ proposed[k].at <= q.at
              /\ proposed[k].at < q.at => Rowed(k, chunkRows)
              /\ Rowed(k, chunkRows \cup row)
  <2>1. k \in q.last => proposed[k].at = q.at
    BY <1>2, <1>3 DEF Fits
  <2>2. k \notin q.last => proposed[k].at < q.at /\ Rowed(k, chunkRows)
    BY <1>2, <1>3 DEF Fits
  <2>3. k \in q.last => Rowed(k, chunkRows \cup row)
    BY <1>9, <2>1 DEF Rowed
  <2>4. k \notin q.last => Rowed(k, chunkRows \cup row)
    BY <2>2 DEF Rowed
  <2>5. proposed[k].at \in Nat
    BY <1>2, <1>11 DEF Fits
  <2> QED
    BY <1>3, <2>1, <2>2, <2>3, <2>4, <2>5
<1>13. CASE q.at < Chunks
  <2>1. PICK at \in 0 .. Chunks : at = q.at + 1
    BY <1>3, <1>13, IntakeBounds
  <2>2. PICK r : r = [q EXCEPT !.pc = "begin", !.at = at, !.row = row]
    OBVIOUS
  <2>3. /\ r \in Requests /\ r.pc = "begin" /\ r.job = q.job /\ r.made = q.made
        /\ r.last = q.last /\ r.row = row /\ r.at = at
    BY <1>2, <1>9, <2>2 DEF Requests
  <2>4. Goes(c, r)
    BY <1>6, <1>13, <2>1, <2>2
  <2>5. ASSUME NEW k \in r.made
        PROVE  /\ proposed[k].at <= r.at /\ proposed[k].at < r.at
               /\ proposed[k].at < r.at - 1 => Rowed(k, chunkRows)
               /\ Rowed(k, chunkRows \cup r.row)
    <3>1. k \in DOMAIN proposed
      BY <1>2, <2>3, <2>5 DEF Fits
    <3>2. PICK n \in Nat : n = proposed[k].at
      BY <1>11, <3>1
    <3>3. n <= q.at /\ (n < q.at => Rowed(k, chunkRows)) /\ Rowed(k, chunkRows \cup row)
      BY <1>12, <2>3, <2>5, <3>2
    <3>4. r.row = row /\ q.at \in Nat /\ r.at = q.at + 1
      BY <1>3, <2>1, <2>3
    <3> QED
      BY <3>2, <3>3, <3>4
  <2>6. \A e \in r.row : /\ RowOK(e)
                         /\ \A old \in chunkRows : old.at # e.at
                         /\ \A other \in r.row : other = e
    <3> SUFFICES ASSUME NEW e \in r.row
                 PROVE  /\ RowOK(e)
                        /\ \A old \in chunkRows : old.at # e.at
                        /\ \A other \in r.row : other = e
      OBVIOUS
    <3>1. r.row = row /\ e \in row /\ e \in new /\ row \subseteq new
      BY <1>9, <2>3
    <3>2. RowOK(e) /\ \A other \in new : other = e
      BY <1>7, <3>1
    <3>3. \A old \in chunkRows : old.at # e.at
      BY <1>9, <3>1
    <3> QED
      BY <3>1, <3>2, <3>3, Zenon
  <2>7. Fits(r)
    <3>1. r.at # 0
      BY <1>3, <2>1, <2>3
    <3>2. /\ r.last \subseteq r.made /\ r.made \subseteq DOMAIN proposed
          /\ \A k \in r.made : proposed[k].job = r.job
      BY <1>2, <2>3 DEF Fits
    <3>3. r.pc = "begin" /\ r.job = "watch"
      BY <1>3, <2>3
    <3> QED
      BY <2>5, <2>6, <3>1, <3>2, <3>3 DEF Fits, Loops
  <2>8. Locked(c, r)'
    BY <1>2, <1>6, <1>9, <1>10, <2>3 DEF Locked
  <2> QED
    BY <1>6, <2>3, <2>4, <2>7, <2>8, OnlyTheRequest
<1>14. CASE ~(q.at < Chunks)
  <2>2. PICK r : r = [q EXCEPT !.pc = "end", !.row = row]
    OBVIOUS
  <2>3. /\ r \in Requests /\ r.pc = "end" /\ r.job = q.job /\ r.made = q.made
        /\ r.last = q.last /\ r.row = row /\ r.at = q.at
    BY <1>2, <1>9, <2>2 DEF Requests
  <2>4. Goes(c, r)
    BY <1>6, <1>14, <2>2
  <2>5. ASSUME NEW k \in r.made
        PROVE  /\ proposed[k].at <= r.at
               /\ proposed[k].at < r.at - 1 => Rowed(k, chunkRows)
               /\ Rowed(k, chunkRows \cup r.row)
    <3>1. k \in DOMAIN proposed
      BY <1>2, <2>3, <2>5 DEF Fits
    <3>2. PICK n \in Nat : n = proposed[k].at
      BY <1>11, <3>1
    <3>3. n <= q.at /\ (n < q.at => Rowed(k, chunkRows)) /\ Rowed(k, chunkRows \cup row)
      BY <1>12, <2>3, <2>5, <3>2
    <3>4. r.row = row /\ q.at \in Nat /\ r.at = q.at
      BY <1>3, <2>3
    <3> QED
      BY <3>2, <3>3, <3>4
  <2>6. \A e \in r.row : /\ RowOK(e)
                         /\ \A old \in chunkRows : old.at # e.at
                         /\ \A other \in r.row : other = e
    <3> SUFFICES ASSUME NEW e \in r.row
                 PROVE  /\ RowOK(e)
                        /\ \A old \in chunkRows : old.at # e.at
                        /\ \A other \in r.row : other = e
      OBVIOUS
    <3>1. r.row = row /\ e \in row /\ e \in new /\ row \subseteq new
      BY <1>9, <2>3
    <3>2. RowOK(e) /\ \A other \in new : other = e
      BY <1>7, <3>1
    <3>3. \A old \in chunkRows : old.at # e.at
      BY <1>9, <3>1
    <3> QED
      BY <3>1, <3>2, <3>3, Zenon
  <2>7. Fits(r)
    BY <1>2, <1>3, <2>3, <2>5, <2>6 DEF Fits, Loops
  <2>8. Locked(c, r)'
    BY <1>2, <1>6, <1>9, <1>10, <2>3 DEF Locked
  <2> QED
    BY <1>6, <2>3, <2>4, <2>7, <2>8, OnlyTheRequest
<1> QED
  BY <1>13, <1>14

\* A turn is saved with what was made of it.
LEMMA TurnIsSaved ==
    ASSUME Tables, Kept, NEW M \in SUBSET Index, M \cap DOMAIN proposed = {},
           DOMAIN proposed' = DOMAIN proposed \cup M,
           NEW job, \A k \in M : proposed'[k].job = job,
           NEW e, e = [made |-> M],
           turns' = IF job = "turn" THEN Append(turns, e) ELSE turns
    PROVE  /\ TurnsOK' /\ turns' \in Seq([made : SUBSET Index])
           /\ \A i \in DOMAIN turns : i \in DOMAIN turns' /\ turns'[i].made = turns[i].made
           /\ job = "turn" => \E i \in DOMAIN turns' : turns'[i].made = M
<1>1. TurnsOK /\ turns \in Seq([made : SUBSET Index])
  BY DEF Tables, TableTypes
<1>2. CASE job = "turn"
  <2>1. e \in [made : SUBSET Index] /\ e.made = M /\ turns' = Append(turns, e)
    BY <1>2
  <2>2. PICK n : n = Len(turns) + 1
    OBVIOUS
  <2>3. /\ turns' \in Seq([made : SUBSET Index])
        /\ n \in DOMAIN turns' /\ turns'[n] = e
        /\ \A i \in DOMAIN turns : i \in DOMAIN turns' /\ turns'[i] = turns[i]
        /\ \A i \in DOMAIN turns' : i \in DOMAIN turns \/ i = n
        /\ n \notin DOMAIN turns
    <3>1. PICK S : S = [made : SUBSET Index]
      OBVIOUS
    <3>2. turns \in Seq(S) /\ e \in S
      BY <1>1, <2>1, <3>1
    <3>3. /\ turns' \in Seq(S)
          /\ Len(turns) + 1 \in DOMAIN turns' /\ turns'[Len(turns) + 1] = e
          /\ \A i \in DOMAIN turns : i \in DOMAIN turns' /\ turns'[i] = turns[i]
          /\ \A i \in DOMAIN turns' : i \in DOMAIN turns \/ i = Len(turns) + 1
          /\ Len(turns) + 1 \notin DOMAIN turns
      BY <2>1, <3>2, Appended
    <3> QED
      BY <2>2, <3>1, <3>3
  <2>4. \A k \in DOMAIN proposed' : proposed'[k].job = "turn" => \E i \in DOMAIN turns' : k \in turns'[i].made
    BY <1>1, <2>1, <2>3 DEF TurnsOK, Kept
  <2>5. \A i \in DOMAIN turns' : turns'[i].made \subseteq DOMAIN proposed'
    BY <1>1, <2>1, <2>3 DEF TurnsOK
  <2>6. ASSUME NEW i \in DOMAIN turns', NEW j \in DOMAIN turns', i # j
        PROVE  turns'[i].made \cap turns'[j].made = {}
    <3>1. i \in DOMAIN turns => turns'[i].made = turns[i].made /\ turns[i].made \subseteq DOMAIN proposed
      BY <1>1, <2>3 DEF TurnsOK
    <3>2. j \in DOMAIN turns => turns'[j].made = turns[j].made /\ turns[j].made \subseteq DOMAIN proposed
      BY <1>1, <2>3 DEF TurnsOK
    <3>3. CASE i \in DOMAIN turns /\ j \in DOMAIN turns
      BY <1>1, <2>6, <3>1, <3>2, <3>3 DEF TurnsOK
    <3>4. CASE i = n /\ j \in DOMAIN turns
      BY <2>1, <2>3, <3>2, <3>4
    <3>5. CASE j = n /\ i \in DOMAIN turns
      BY <2>1, <2>3, <3>1, <3>5
    <3> QED
      BY <2>3, <2>6, <3>3, <3>4, <3>5
  <2> QED
    BY <2>1, <2>3, <2>4, <2>5, <2>6 DEF TurnsOK
<1>3. CASE job # "turn"
  <2>1. turns' = turns
    BY <1>3
  <2>2. \A k \in DOMAIN proposed' : proposed'[k].job = "turn" => k \in DOMAIN proposed /\ proposed[k].job = "turn"
    BY <1>3 DEF Kept
  <2>3. TurnsOK'
    BY <1>1, <2>1, <2>2 DEF TurnsOK
  <2> QED
    BY <1>1, <1>3, <2>1, <2>3
<1> QED
  BY <1>2, <1>3

LEMMA DeniedKeeps ==
    ASSUME IntakeInv, NEW c \in Client, Denied(c)
    PROVE  IntakeInv'
<1>1. PICK q : q = request[c]
  OBVIOUS
<1>2. q \in Requests /\ Fits(q) /\ Locked(c, q) /\ q.pc = "begin" /\ CanWrite(c) /\ Tables
  BY <1>1, Facts DEF Denied
<1>3. PICK e : e = [made |-> {}]
  OBVIOUS
<1>4. /\ UNCHANGED <<proposed, outcomes, draft, drafted, answered>> /\ Goes(c, Done)
      /\ writeLock' = IF writeLock = c THEN Noone ELSE writeLock
      /\ chunkRows' = chunkRows \cup q.row
      /\ turns' = IF q.job = "turn" THEN Append(turns, e) ELSE turns
  BY <1>1, <1>3 DEF Denied, SavesPending, Closes
<1>5. Kept
  BY <1>4 DEF Kept
<1>6. RowsOK' /\ chunkRows' \subseteq ChunkRows
  BY <1>1, <1>4, <1>5, RowsAreSaved
<1>7. /\ TurnsOK' /\ turns' \in Seq([made : SUBSET Index])
      /\ \A i \in DOMAIN turns : i \in DOMAIN turns' /\ turns'[i].made = turns[i].made
  <2>1. PICK M : M = {}
    OBVIOUS
  <2>2. /\ M \in SUBSET Index /\ M \cap DOMAIN proposed = {} /\ e = [made |-> M]
        /\ DOMAIN proposed' = DOMAIN proposed \cup M /\ \A k \in M : proposed'[k].job = q.job
    BY <1>3, <1>4, <2>1
  <2> QED
    BY <1>2, <1>4, <1>5, <2>2, TurnIsSaved
<1>8. \A a \in answered : AnswerOK(a)'
  BY <1>2, <1>4, <1>5, <1>7, AnswersStay
<1>9. Tables'
  BY <1>2, <1>4, <1>6, <1>7, <1>8 DEF Tables, TableTypes
<1>10. Fits(Done)' /\ Locked(c, Done)'
  BY DoneFits DEF Fits, Locked, Done, Loops
<1>11. chunkRows' = chunkRows \/ writeLock = c
  BY <1>2, <1>4 DEF Locked
<1> QED
  BY <1>2, <1>4, <1>5, <1>9, <1>10, <1>11, DoneFits, OneRequestMoves DEF CanWrite

\* The rows of the candidates an extractor made.
Made(new, job, at) == [i \in DOMAIN new |-> [job |-> job, at |-> at, mem |-> new[i]]]

Fresh(n) == (Len(proposed) + 1) .. (Len(proposed) + n)

MadeOf(rows, n, job, at) ==
    /\ rows \in Seq(CandidateRow) /\ Len(rows) = n
    /\ \A i \in 1 .. n : rows[i].job = job /\ rows[i].at = at

LEMMA MadeRows ==
    ASSUME NEW n \in Nat, NEW new \in [1 .. n -> {"none", "active"}], NEW job \in Job, NEW at \in 0 .. Chunks
    PROVE  Len(new) = n /\ MadeOf(Made(new, job, at), n, job, at)
<1> DEFINE m == Made(new, job, at)
<1>1. DOMAIN m = 1 .. n /\ \A i \in 1 .. n : m[i] \in CandidateRow /\ m[i].job = job /\ m[i].at = at
  BY DEF Made, CandidateRow
<1>2. m \in [1 .. n -> CandidateRow]
  BY <1>1 DEF Made
<1> HIDE DEF m
<1>3. m \in Seq(CandidateRow) /\ new \in Seq({"none", "active"})
  BY <1>2, SeqDef
<1>4. Len(m) = n /\ Len(new) = n
  BY <1>2, <1>3, LenProperties
<1>5. MadeOf(m, n, job, at)
  BY <1>1, <1>3, <1>4 DEF MadeOf
<1> QED
  BY <1>4, <1>5 DEF m

\* There is room for them, and they are appended.
Adds(rows, n) == Len(proposed) + n <= MaxCandidate /\ proposed' = proposed \o rows

Added(M, job, at) ==
    /\ proposed' \in Seq(CandidateRow) /\ Kept
    /\ DOMAIN proposed' = DOMAIN proposed \cup M /\ M \cap DOMAIN proposed = {}
    /\ M \in SUBSET Index
    /\ \A k \in M : proposed'[k].job = job /\ proposed'[k].at = at

\* What is appended does not disturb what was there.
LEMMA CandidatesAreAdded ==
    ASSUME TableTypes, NEW n, n \in Nat, NEW job, NEW at, NEW more, MadeOf(more, n, job, at),
           Adds(more, n), NEW M, M = Fresh(n)
    PROVE  Added(M, job, at)
<1>1. /\ proposed \in Seq(CandidateRow) /\ Len(proposed) \in Nat /\ MaxCandidate \in Nat
      /\ more \in Seq(CandidateRow) /\ Len(more) = n
      /\ \A i \in 1 .. n : more[i].job = job /\ more[i].at = at
      /\ Len(proposed) + n <= MaxCandidate /\ proposed' = proposed \o more
  BY IntakeBounds DEF TableTypes, MadeOf, Adds
<1>2. /\ proposed' \in Seq(CandidateRow) /\ Len(proposed') = Len(proposed) + n
      /\ \A i \in 1 .. Len(proposed) + n :
           proposed'[i] = IF i <= Len(proposed) THEN proposed[i] ELSE more[i - Len(proposed)]
  BY <1>1, ConcatProperties
<1>3. DOMAIN proposed = 1 .. Len(proposed) /\ DOMAIN proposed' = 1 .. Len(proposed) + n
  BY <1>1, <1>2
<1>4. Kept
  BY <1>1, <1>2, <1>3 DEF Kept
<1>5. /\ DOMAIN proposed' = DOMAIN proposed \cup M /\ M \cap DOMAIN proposed = {}
      /\ M \in SUBSET Index
  BY <1>1, <1>3 DEF Index, Fresh
<1>6. ASSUME NEW k \in M
      PROVE  proposed'[k].job = job /\ proposed'[k].at = at
  <2>1. k \in 1 .. Len(proposed) + n /\ ~(k <= Len(proposed)) /\ k - Len(proposed) \in 1 .. n
    BY <1>1, <1>6 DEF Fresh
  <2> QED
    BY <1>1, <1>2, <2>1
<1> QED
  BY <1>2, <1>4, <1>5, <1>6 DEF Added

\* The commit of remember.
LEMMA ExtractedKeeps ==
    ASSUME IntakeInv, NEW c \in Client, NEW n \in 0 .. 2, NEW new \in [1 .. n -> {"none", "active"}],
           Extracted(c, new)
    PROVE  IntakeInv'
<1>1. PICK q : q = request[c]
  OBVIOUS
<1>2. q \in Requests /\ Fits(q) /\ Locked(c, q) /\ q.pc = "extracting" /\ Tables /\ writeLock = c
  BY <1>1, Facts DEF Extracted, Locked
<1>3. PICK more : more = Made(new, q.job, q.at)
  OBVIOUS
<1>4. n \in Nat /\ Len(new) = n /\ MadeOf(more, n, q.job, q.at)
  <2>1. n \in Nat /\ q.job \in Job /\ q.at \in 0 .. Chunks
    BY <1>2 DEF Requests
  <2> QED
    BY <1>3, <2>1, MadeRows
<1>5. PICK M : M = Fresh(n)
  OBVIOUS
<1>6. PICK e : e = [made |-> M]
  OBVIOUS
<1>7. PICK approved \in BOOLEAN : approved = (q.job = "outcome" /\ new # <<>> /\ new[1] = "active")
  OBVIOUS
<1>8. PICK next : next = [q EXCEPT !.made = q.made \cup M, !.last = M, !.row = {}, !.approved = approved]
  OBVIOUS
<1>9. /\ Len(proposed) + n <= MaxCandidate /\ proposed' = proposed \o more
      /\ chunkRows' = chunkRows \cup q.row
      /\ turns' = IF q.job = "turn" THEN Append(turns, e) ELSE turns
      /\ UNCHANGED <<outcomes, draft, drafted>>
  BY <1>1, <1>3, <1>4, <1>5, <1>6 DEF Extracted, SavesPending, Made, Fresh
<1>10. /\ proposed' \in Seq(CandidateRow) /\ Kept
       /\ DOMAIN proposed' = DOMAIN proposed \cup M /\ M \cap DOMAIN proposed = {}
       /\ M \in SUBSET Index
       /\ \A k \in M : proposed'[k].job = q.job /\ proposed'[k].at = q.at
  <2>1. TableTypes /\ Adds(more, n)
    BY <1>2, <1>9 DEF Tables, Adds
  <2>2. Added(M, q.job, q.at)
    BY <1>4, <1>5, <2>1, CandidatesAreAdded
  <2> QED
    BY <2>2 DEF Added
<1>11. RowsOK' /\ chunkRows' \subseteq ChunkRows
  BY <1>1, <1>9, <1>10, RowsAreSaved
<1>12. /\ TurnsOK' /\ turns' \in Seq([made : SUBSET Index])
       /\ \A i \in DOMAIN turns : i \in DOMAIN turns' /\ turns'[i].made = turns[i].made
       /\ q.job = "turn" => \E i \in DOMAIN turns' : turns'[i].made = M
  <2>1. /\ Tables /\ Kept /\ M \in SUBSET Index /\ M \cap DOMAIN proposed = {}
        /\ DOMAIN proposed' = DOMAIN proposed \cup M /\ \A k \in M : proposed'[k].job = q.job
        /\ turns' = IF q.job = "turn" THEN Append(turns, e) ELSE turns
    BY <1>2, <1>9, <1>10
  <2> QED
    BY <1>6, <2>1, TurnIsSaved
<1>13. \A a \in answered : AnswerOK(a)'
  BY <1>2, <1>9, <1>10, <1>12, AnswersStay
<1>14. chunkRows' = chunkRows \/ writeLock = c
  BY <1>2
<1>15. /\ next \in Requests /\ next.pc = "extracting" /\ next.job = q.job /\ next.at = q.at
       /\ next.made = q.made \cup M /\ next.last = M /\ next.row = {} /\ next.inDraft = q.inDraft
  <2>1. q.made \cup M \in SUBSET Index
    BY <1>2, <1>10 DEF Requests
  <2> QED
    BY <1>2, <1>7, <1>8, <1>10, <2>1 DEF Requests
<1>16. CASE q.job = "turn" \/ (q.job = "proposal" /\ ~q.inDraft) \/ (q.job = "vault" /\ q.at = Chunks)
  <2>1. PICK a : a = Reply(next)
    OBVIOUS
  <2>2. answered' = answered \cup {a} /\ Closes(c)
    <3>1. a = [job |-> q.job, made |-> next.made, inDraft |-> q.inDraft]
      BY <1>15, <2>1 DEF Reply
    <3>2. next.made = q.made \cup M
      BY <1>15
    <3> QED
      BY <1>1, <1>4, <1>5, <1>15, <1>16, <3>1, <3>2 DEF Extracted, Fresh
  <2>3. /\ a \in [job : Job, made : SUBSET Index, inDraft : BOOLEAN]
        /\ a.job = q.job /\ a.made = q.made \cup M /\ a.inDraft = q.inDraft
    BY <1>15, <2>1, ReplyFields
  <2>4. AnswerOK(a)'
    <3>1. q.job = "turn" => a.made = M
      BY <1>2, <2>3 DEF Fits, Loops
    <3>2. a.made \subseteq DOMAIN proposed'
      BY <1>2, <1>10, <2>3 DEF Fits
    <3>3. Accounted(a)'
      BY <1>12, <1>16, <2>3, <3>1 DEF Accounted
    <3> QED
      BY <1>16, <2>3, <3>2, <3>3 DEF AnswerOK
  <2>5. Tables'
    BY <1>2, <1>9, <1>10, <1>11, <1>12, <1>13, <2>2, <2>3, <2>4 DEF Tables, TableTypes
  <2>6. Goes(c, Done) /\ writeLock' = Noone
    BY <1>2, <2>2 DEF Closes
  <2>7. Fits(Done)' /\ Locked(c, Done)'
    BY DoneFits DEF Fits, Locked, Done, Loops
  <2> QED
    BY <1>2, <1>9, <1>10, <1>14, <2>5, <2>6, <2>7, DoneFits, OneRequestMoves DEF CanWrite
<1>17. CASE ~(q.job = "turn" \/ (q.job = "proposal" /\ ~q.inDraft) \/ (q.job = "vault" /\ q.at = Chunks))
  <2>1. /\ writeLock' = Noone /\ answered' = answered
        /\ Goes(c, CASE q.job = "outcome" -> [next EXCEPT !.pc = "outcome"]
                     [] q.job = "proposal" -> [next EXCEPT !.pc = "scope"]
                     [] q.job = "watch" -> [next EXCEPT !.pc = "row"]
                     [] q.job = "vault" -> [next EXCEPT !.pc = "begin", !.at = next.at + 1])
    BY <1>1, <1>4, <1>5, <1>7, <1>8, <1>15, <1>17 DEF Extracted, Fresh
  <2>2. Tables'
    BY <1>2, <1>9, <1>10, <1>11, <1>12, <1>13, <2>1 DEF Tables, TableTypes
  <2>3. CASE q.job = "vault"
    <3>1. PICK at \in 0 .. Chunks : at = q.at + 1 /\ at # 0
      BY <1>2, <1>17, <2>3, IntakeBounds DEF Requests
    <3>2. PICK r : r = [next EXCEPT !.pc = "begin", !.at = at]
      OBVIOUS
    <3>3. /\ r \in Requests /\ r.pc = "begin" /\ r.job = q.job /\ r.at = at
          /\ r.made = q.made \cup M /\ r.last = M /\ r.row = {}
      BY <1>15, <3>2 DEF Requests
    <3>4. Goes(c, r)
      BY <1>15, <2>1, <2>3, <3>1, <3>2
    <3>5. Fits(r)' /\ Locked(c, r)'
      BY <1>2, <1>10, <2>3, <3>1, <3>3 DEF Fits, Locked, Loops, Kept
    <3> QED
      BY <1>2, <1>9, <1>10, <1>14, <2>1, <2>2, <3>3, <3>4, <3>5, OneRequestMoves DEF CanWrite
  <2>4. CASE q.job # "vault"
    <3>1. q.job \in {"outcome", "proposal", "watch"}
      BY <1>2, <1>17, <2>4 DEF Requests, Job
    <3>2. PICK pc \in {"outcome", "scope", "row"} :
            pc = IF q.job = "outcome" THEN "outcome" ELSE IF q.job = "proposal" THEN "scope" ELSE "row"
      OBVIOUS
    <3>3. PICK r : r = [next EXCEPT !.pc = pc]
      OBVIOUS
    <3>4. /\ r \in Requests /\ r.pc = pc /\ r.job = q.job /\ r.at = q.at
          /\ r.made = q.made \cup M /\ r.last = M /\ r.row = {}
      BY <1>15, <3>3 DEF Requests
    <3>5. Goes(c, r)
      BY <2>1, <3>1, <3>2, <3>3
    <3>6. CASE q.job # "watch"
      <4>1. q.made = {}
        BY <1>2, <3>1, <3>6 DEF Fits, Loops
      <4>2. Fits(r)' /\ Locked(c, r)'
        BY <1>2, <1>10, <3>1, <3>2, <3>4, <3>6, <4>1 DEF Fits, Locked, Loops
      <4> QED
        BY <1>2, <1>9, <1>10, <1>14, <2>1, <2>2, <3>4, <3>5, <4>2, OneRequestMoves DEF CanWrite
    <3>7. CASE q.job = "watch"
      <4>1. ASSUME NEW k \in q.made
            PROVE  /\ k \notin M /\ k \in DOMAIN proposed' /\ proposed'[k].job = "watch"
                   /\ proposed'[k].at < q.at /\ Rowed(k, chunkRows)'
        <5>1. k \in DOMAIN proposed /\ proposed[k].job = "watch"
          BY <1>2, <3>7, <4>1 DEF Fits
        <5>2. proposed[k].at < q.at /\ Rowed(k, chunkRows \cup q.row)
          BY <1>2, <3>7, <4>1 DEF Fits
        <5> QED
          BY <1>9, <1>10, <5>1, <5>2 DEF Kept, Rowed
      <4>2. \A k \in DOMAIN proposed' : proposed'[k].at \in Nat
        <5>1. \A k \in DOMAIN proposed' : proposed'[k] \in CandidateRow
          BY <1>10
        <5> QED
          BY <5>1, IntakeBounds DEF CandidateRow
      <4>3. q.at \in Nat /\ q.at # 0
        BY <1>2, <3>7, IntakeBounds DEF Fits, Loops, Requests
      <4>4. ASSUME NEW k \in r.made
            PROVE  /\ k \in DOMAIN proposed' /\ proposed'[k].job = "watch"
                   /\ proposed'[k].at <= r.at
                   /\ proposed'[k].at < r.at - 1 => Rowed(k, chunkRows)'
                   /\ IF k \in r.last THEN proposed'[k].at = r.at
                      ELSE proposed'[k].at < r.at /\ Rowed(k, chunkRows)'
        <5>1. CASE k \in M
          <6>1. k \in DOMAIN proposed' /\ proposed'[k].job = "watch" /\ proposed'[k].at = r.at
            BY <1>10, <3>4, <3>7, <5>1
          <6> QED
            BY <3>4, <4>3, <5>1, <6>1
        <5>2. CASE k \notin M
          <6>1. k \in q.made
            BY <3>4, <4>4, <5>2
          <6>2. /\ k \in DOMAIN proposed' /\ proposed'[k].job = "watch" /\ proposed'[k].at \in Nat
                /\ proposed'[k].at < r.at /\ Rowed(k, chunkRows)'
            BY <3>4, <4>1, <4>2, <6>1
          <6> QED
            BY <3>4, <4>3, <5>2, <6>2
        <5> QED
          BY <5>1, <5>2
      <4>5. r.pc = "row" /\ r.job = "watch" /\ r.last \subseteq r.made /\ r.row = {} /\ r.at # 0
        BY <3>2, <3>4, <3>7, <4>3
      <4>6. Fits(r)' /\ Locked(c, r)'
        BY <4>4, <4>5 DEF Fits, Locked
      <4> QED
        BY <1>2, <1>9, <1>10, <1>14, <2>1, <2>2, <3>4, <3>5, <4>6, OneRequestMoves DEF CanWrite
    <3> QED
      BY <3>6, <3>7
  <2> QED
    BY <2>3, <2>4
<1> QED
  BY <1>16, <1>17

LEMMA ReviewedKeeps ==
    ASSUME IntakeInv, NEW k \in DOMAIN proposed, NEW new \in {"active", "inactive"}, Reviewed(k, new)
    PROVE  IntakeInv'
<1>1. /\ proposed' = [proposed EXCEPT ![k].mem = new] /\ proposed \in Seq(CandidateRow)
      /\ UNCHANGED <<outcomes, turns, draft, drafted, chunkRows, request, writeLock, answered>>
      /\ Tables
  BY DEF Reviewed, IntakeInv, Tables, TableTypes
<1>2. PICK e : e = [proposed[k] EXCEPT !.mem = new]
  OBVIOUS
<1>3. e \in CandidateRow /\ e.job = proposed[k].job /\ e.at = proposed[k].at
  <2>1. proposed[k] \in CandidateRow
    BY <1>1
  <2> QED
    BY <1>2, <2>1 DEF CandidateRow
<1>4. proposed' \in Seq(CandidateRow) /\ DOMAIN proposed' = DOMAIN proposed /\ proposed' = [proposed EXCEPT ![k] = e]
  BY <1>1, <1>2, <1>3
<1>5. Kept
  BY <1>1, <1>3, <1>4 DEF Kept
<1>6. \A a \in answered : AnswerOK(a)'
  BY <1>1, <1>5, AnswersStay
<1>7. TurnsOK' /\ RowsOK'
  BY <1>1, <1>4, <1>5 DEF Tables, TurnsOK, RowsOK, RowOK, Kept
<1>8. Tables'
  BY <1>1, <1>4, <1>6, <1>7 DEF Tables, TableTypes
<1>9. ASSUME NEW c \in Client
      PROVE  Fits(request[c])' /\ Locked(c, request[c])'
  <2>1. PICK q : q = request[c]
    OBVIOUS
  <2>2. q \in Requests /\ Fits(q) /\ Locked(c, q)
    BY <2>1, Facts
  <2>3. Fits(q)'
    BY <1>1, <1>5, <2>2, FitsStays
  <2>4. Locked(c, q)'
    BY <1>1, <2>2 DEF Locked
  <2> QED
    BY <1>1, <2>1, <2>3, <2>4
<1> QED
  BY <1>1, <1>8, <1>9 DEF IntakeInv

LEMMA IntakeInvStep == IntakeInv /\ [IntakeNext]_intakeVars => IntakeInv'
<1> SUFFICES ASSUME IntakeInv, [IntakeNext]_intakeVars
             PROVE  IntakeInv'
  OBVIOUS
<1>1. ASSUME NEW c \in Client, IntakeStep(c)
      PROVE  IntakeInv'
  <2>1. CASE \E job \in Job, inDraft \in BOOLEAN : Ask(c, job, inDraft)
    BY <2>1, AskKeeps
  <2>2. CASE Denied(c)
    BY <2>2, DeniedKeeps
  <2>3. CASE Begin(c)
    BY <2>3, BeginKeeps
  <2>4. CASE Abort(c)
    BY <2>4, AbortKeeps
  <2>5. CASE \E n \in 0 .. 2 : \E new \in [1 .. n -> {"none", "active"}] : Extracted(c, new)
    BY <2>5, ExtractedKeeps
  <2>6. CASE RecordOutcome(c)
    BY <2>6, RecordOutcomeKeeps
  <2>7. CASE FindScope(c)
    BY <2>7, FindScopeKeeps
  <2>8. CASE InsertScope(c)
    BY <2>8, InsertScopeKeeps
  <2>9. CASE AddToDraft(c)
    BY <2>9, AddToDraftKeeps
  <2>10. CASE ChunkRow(c)
    BY <2>10, ChunkRowKeeps
  <2>11. CASE EndOfFile(c)
    BY <2>11, EndOfFileKeeps
  <2> QED
    BY <1>1, <2>1, <2>2, <2>3, <2>4, <2>5, <2>6, <2>7, <2>8, <2>9, <2>10, <2>11 DEF IntakeStep
<1>2. ASSUME NEW k \in DOMAIN proposed, NEW new \in {"active", "inactive"}, Reviewed(k, new)
      PROVE  IntakeInv'
  BY <1>2, ReviewedKeeps
<1>3. CASE UNCHANGED intakeVars
  <2>1. Tables' /\ \A r : Fits(r) => Fits(r)'
    BY <1>3, TablesStay DEF intakeVars, IntakeInv
  <2> QED
    BY <1>3, <2>1 DEF intakeVars, IntakeInv, Locked
<1> QED
  BY <1>1, <1>2, <1>3 DEF IntakeNext

\* In every state of the requests, every column has a value it may have.
THEOREM IntakeTypeCorrect == IntakeSpec => []IntakeTypeOK
<1>1. IntakeInv => IntakeTypeOK
  BY DEF IntakeInv, Tables, TableTypes, IntakeTypeOK, Fits, Requests, CandidateRow, OutcomeRow, ChunkRows
<1> QED
  BY <1>1, IntakeInvInit, IntakeInvStep, PTL DEF IntakeSpec

\* Whatever interleaves, is denied, raises or dies: an answered request has left its records,
\* a turn is saved with what was made of it, and the chunk table misses no chunk that a later
\* one of the same import follows (record_outcome, record_turn, propose_memory_change,
\* create_draft_scope, watch_import_path).
THEOREM IntakeHolds == IntakeSpec => []IntakeIsComplete
<1>1. IntakeInv => IntakeIsComplete
  <2> SUFFICES ASSUME IntakeInv
               PROVE  IntakeIsComplete
    OBVIOUS
  <2>1. Tables /\ \A c \in Client : Fits(request[c])
    BY DEF IntakeInv
  <2>2. /\ \A a \in answered : Accounted(a)
        /\ \A a \in answered : a.job = "watch" =>
             \A k \in a.made : \E row \in chunkRows : row.at = proposed[k].at
    BY <2>1 DEF Tables, AnswerOK, Rowed
  <2>3. TurnsOK /\ RowsOK
    BY <2>1 DEF Tables
  <2>4. \A c \in Client : request[c].job = "watch" =>
          \A k \in request[c].made : proposed[k].at < request[c].at - 1 =>
            \E row \in chunkRows : row.at = proposed[k].at
    BY <2>1 DEF Fits, Rowed
  <2> QED
    BY <2>2, <2>3, <2>4 DEF IntakeIsComplete, TurnsOK, RowsOK, RowOK
<1> QED
  BY <1>1, IntakeInvInit, IntakeInvStep, PTL DEF IntakeSpec

----------------------------------------------------------------------------
(* What the resolved conflicts make of the memories found. *)

\* What is left of t when one more row that names one of s has been taken.
Ruled(row, s, t) ==
    IF row.of \cap s # {} /\ Outranks(row, t) THEN (t \ row.of) \cup {row.winner} ELSE t

\* What is left of them after each of the first k rows.
Rulings(s, k, f) ==
    f = [i \in 0 .. k |-> IF i = 0 THEN s ELSE Ruled(decided[Len(decided) + 1 - i], s, f[i - 1])]

LEMMA ExplicitIsLast ==
    ASSUME NEW s
    PROVE  Explicit(s) = (CHOOSE f : Rulings(s, Len(decided), f))[Len(decided)]
BY DEF Explicit, Rulings, Ruled

\* The rulings are there, for however many rows.
LEMMA RulingsExist ==
    ASSUME NEW s, NEW n \in Nat
    PROVE  \E f : Rulings(s, n, f)
<1> DEFINE None == {k \in Nat : ~ \E f : Rulings(s, k, f)}
<1>1. ASSUME None # {}
      PROVE  FALSE
  <2>1. PICK k \in None : \A j \in None : k <= j
    <3>1. None \subseteq Nat
      OBVIOUS
    <3> HIDE DEF None
    <3> QED
      BY <1>1, <3>1, LowestExists
  <2>2. CASE k = 0
    <3>1. Rulings(s, 0, [i \in 0 .. 0 |-> s])
      BY DEF Rulings
    <3> QED
      BY <2>1, <2>2, <3>1
  <2>3. CASE k # 0
    <3>1. k \in Nat /\ k - 1 \in Nat /\ ~(k <= k - 1)
      BY <2>1, <2>3
    <3>2. k - 1 \notin None
      BY <2>1, <3>1
    <3>3. PICK f : Rulings(s, k - 1, f)
      BY <3>1, <3>2
    <3> DEFINE g == [i \in 0 .. k |-> IF i = 0 THEN s
                                      ELSE Ruled(decided[Len(decided) + 1 - i], s, f[i - 1])]
    <3>4. \A i \in 0 .. k - 1 : f[i] = g[i]
      BY <3>1, <3>3 DEF Rulings
    <3>5. \A i \in 0 .. k : i # 0 => f[i - 1] = g[i - 1]
      <4>1. \A i \in 0 .. k : i # 0 => i - 1 \in 0 .. k - 1
        BY <3>1
      <4> HIDE DEF g
      <4> QED
        BY <3>4, <4>1
    <3>6. \A i \in 0 .. k : (IF i = 0 THEN s ELSE Ruled(decided[Len(decided) + 1 - i], s, f[i - 1]))
                            = (IF i = 0 THEN s ELSE Ruled(decided[Len(decided) + 1 - i], s, g[i - 1]))
      <4> HIDE DEF g
      <4> QED
        BY <3>5
    <3>7. g = [i \in 0 .. k |-> IF i = 0 THEN s
                                ELSE Ruled(decided[Len(decided) + 1 - i], s, g[i - 1])]
      <4> DEFINE h == g
      <4>1. g = [i \in 0 .. k |-> IF i = 0 THEN s
                                  ELSE Ruled(decided[Len(decided) + 1 - i], s, f[i - 1])]
        OBVIOUS
      <4> HIDE DEF g
      <4> QED
        BY <3>6, <4>1
    <3>8. Rulings(s, k, g)
      <4> HIDE DEF g
      <4> QED
        BY <3>7 DEF Rulings
    <3> QED
      BY <2>1, <3>8
  <2> QED
    BY <2>2, <2>3
<1> QED
  BY <1>1

\* After every row what is left is alive, something is left of something, and whoever is left
\* out has lost.
RuledFairly(s, t) ==
    /\ t \subseteq alive
    /\ t = {} <=> s = {}
    /\ \A m \in s \ t : Loses(m)

LEMMA OneRuling ==
    ASSUME NEW s, NEW t, RuledFairly(s, t), NEW i \in DOMAIN decided
    PROVE  RuledFairly(s, Ruled(decided[i], s, t))
<1> DEFINE row == decided[i]
<1>1. CASE row.of \cap s # {} /\ Outranks(row, t)
  <2>1. /\ row.winner \in alive /\ t # {}
        /\ Ruled(row, s, t) = (t \ row.of) \cup {row.winner}
    BY <1>1 DEF Outranks, Ruled
  <2>2. \A m \in s \ Ruled(row, s, t) : Loses(m)
    <3> SUFFICES ASSUME NEW m \in s, m \notin Ruled(row, s, t)
                 PROVE  Loses(m)
      OBVIOUS
    <3>1. CASE m \notin t
      BY <3>1 DEF RuledFairly
    <3>2. CASE m \in t
      BY <2>1, <3>2 DEF Loses
    <3> QED
      BY <3>1, <3>2
  <2>3. Ruled(row, s, t) \subseteq alive /\ (Ruled(row, s, t) = {} <=> s = {})
    BY <2>1 DEF RuledFairly
  <2> QED
    BY <2>2, <2>3 DEF RuledFairly
<1>2. CASE ~(row.of \cap s # {} /\ Outranks(row, t))
  BY <1>2 DEF Ruled
<1> QED
  BY <1>1, <1>2

LEMMA RulingsAreFair ==
    ASSUME NEW s, s \subseteq alive, NEW S, decided \in Seq(S), NEW f, Rulings(s, Len(decided), f)
    PROVE  \A k \in 0 .. Len(decided) : RuledFairly(s, f[k])
<1> DEFINE n == Len(decided)
           Unfair == {k \in 0 .. n : ~RuledFairly(s, f[k])}
<1>1. n \in Nat /\ DOMAIN decided = 1 .. n
  OBVIOUS
<1>2. ASSUME Unfair # {}
      PROVE  FALSE
  <2>1. PICK k \in Unfair : \A j \in Unfair : k <= j
    <3>1. Unfair \subseteq Nat
      BY <1>1
    <3> HIDE DEF Unfair
    <3> QED
      BY <1>2, <3>1, LowestExists
  <2>2. CASE k = 0
    <3>1. f[0] = s
      BY <1>1 DEF Rulings
    <3>2. RuledFairly(s, s)
      BY DEF RuledFairly
    <3> QED
      BY <2>1, <2>2, <3>1, <3>2
  <2>3. CASE k # 0
    <3>1. k - 1 \in 0 .. n /\ ~(k <= k - 1) /\ n + 1 - k \in 1 .. n
      BY <1>1, <2>1, <2>3
    <3>2. RuledFairly(s, f[k - 1])
      BY <2>1, <3>1
    <3>3. f[k] = Ruled(decided[n + 1 - k], s, f[k - 1])
      BY <1>1, <2>1, <2>3 DEF Rulings
    <3>4. RuledFairly(s, Ruled(decided[n + 1 - k], s, f[k - 1]))
      BY <1>1, <3>1, <3>2, OneRuling
    <3> QED
      BY <2>1, <3>3, <3>4
  <2> QED
    BY <2>2, <2>3
<1> QED
  BY <1>2

\* What the resolved conflicts leave of active memories.
LEMMA ExplicitIsFair ==
    ASSUME NEW s, s \subseteq alive, NEW S, decided \in Seq(S)
    PROVE  RuledFairly(s, Explicit(s))
<1>1. Len(decided) \in Nat
  OBVIOUS
<1>2. PICK f : Rulings(s, Len(decided), f) /\ Explicit(s) = f[Len(decided)]
  <2> DEFINE g == CHOOSE f : Rulings(s, Len(decided), f)
  <2>1. Rulings(s, Len(decided), g)
    BY <1>1, RulingsExist
  <2>2. Explicit(s) = g[Len(decided)]
    BY ExplicitIsLast
  <2> HIDE DEF g
  <2> QED
    BY <2>1, <2>2
<1>3. \A k \in 0 .. Len(decided) : RuledFairly(s, f[k])
  BY <1>2, RulingsAreFair
<1> QED
  BY <1>1, <1>2, <1>3

----------------------------------------------------------------------------
(* What is selected of the memories found. *)

\* The memories selected are what RouterAnswers says of a tree.
Selected(found, chosen) ==
    /\ chosen \subseteq alive
    /\ chosen = {} <=> found = {}
    /\ Cardinality(chosen) <= Limit
    /\ Cardinality(chosen) < Limit =>
         /\ \A m \in found \ chosen : Loses(m) \/ \E p \in Alike : m \in p /\ p \subseteq alive
         /\ \A m \in found : InDispute(m) => m \in chosen \/ Loses(m)

\* A member of a group has a near-duplicate in it.
LEMMA GroupMembersAreAlike ==
    ASSUME NEW s, NEW g \in Groups(s), NEW m \in g
    PROVE  \E p \in Alike : m \in p /\ p \subseteq s
<1>1. /\ g \subseteq s /\ Cardinality(g) > 1
      /\ \A half \in (SUBSET g) \ {{}, g} : \E l \in half, n \in g \ half : Near(l, n)
  BY DEF Groups
<1>2. g # {m}
  <2>1. Cardinality({m}) = 1
    BY FS_Singleton
  <2> QED
    BY <1>1, <2>1
<1>3. {m} \in (SUBSET g) \ {{}, g}
  <2>1. {m} \subseteq g /\ {m} # {}
    OBVIOUS
  <2> QED
    BY <1>2, <2>1
<1>4. PICK n \in g \ {m} : Near(m, n)
  <2>1. \E l \in {m}, n \in g \ {m} : Near(l, n)
    BY <1>1, <1>3
  <2> QED
    BY <2>1
<1>5. {m, n} \in Alike /\ {m, n} \subseteq s
  BY <1>1, <1>4 DEF Near
<1> QED
  BY <1>5

LEMMA ResolutionSelects ==
    ASSUME NEW S, decided \in Seq(S), NEW found, found \subseteq alive,
           NEW b, Best(Explicit(found), b), NEW chosen, chosen \subseteq b,
           Cardinality(chosen) = Limit \/ (chosen = b /\ Cardinality(b) < Limit)
    PROVE  Selected(found, chosen)
<1> DEFINE s == Explicit(found)
<1>1. s \subseteq alive /\ (s = {} <=> found = {}) /\ \A m \in found \ s : Loses(m)
  BY ExplicitIsFair DEF RuledFairly
<1>2. s \cap alive = s
  BY <1>1
<1>3. /\ b \subseteq s
      /\ s \ UNION Groups(s) \subseteq b
      /\ \A g \in Groups(s) : g \subseteq b \/ (~Contested(g) /\ Cardinality(g \cap b) = 1)
  BY <1>2 DEF Best
<1> HIDE DEF s
<1>4. Limit \in Nat /\ Limit # 0
  BY RouterAssumption
<1>5. Cardinality({}) = 0
  BY FS_EmptySet
<1>6. chosen \subseteq alive
  BY <1>1, <1>3
<1>7. ASSUME b = {}
      PROVE  s = {}
  <2>1. ASSUME NEW g \in Groups(s)
        PROVE  FALSE
    <3>1. Cardinality(g) > 1
      BY DEF Groups
    <3>2. g # {}
      <4>1. g = {} => Cardinality(g) = 0
        BY <1>5, Zenon
      <4> QED
        BY <3>1, <4>1
    <3>3. g \cap b = {}
      BY <1>7
    <3>4. Cardinality(g \cap b) # 1
      <4>1. Cardinality(g \cap b) = 0
        BY <1>5, <3>3, Zenon
      <4> QED
        BY <4>1
    <3> QED
      BY <1>3, <1>7, <3>2, <3>4
  <2>2. UNION Groups(s) = {}
    BY <2>1
  <2> QED
    BY <1>3, <1>7, <2>2
<1>8. chosen = {} <=> found = {}
  <2>1. found = {} => chosen = {}
    BY <1>1, <1>3
  <2>2. ASSUME chosen = {}
        PROVE  found = {}
    <3>1. Cardinality(chosen) # Limit
      BY <1>4, <1>5, <2>2
    <3> QED
      BY <1>1, <1>7, <2>2, <3>1
  <2> QED
    BY <2>1, <2>2
<1>9. Cardinality(chosen) <= Limit
  <2>1. CASE Cardinality(chosen) = Limit
    BY <1>4, <2>1
  <2>2. CASE chosen = b /\ Cardinality(b) < Limit
    <3>1. IsFiniteSet(b)
      BY <1>1, <1>3, RouterAssumption, FS_Subset DEF alive
    <3> QED
      BY <1>4, <2>2, <3>1, FS_CardinalityType
  <2> QED
    BY <2>1, <2>2
<1>10. ASSUME Cardinality(chosen) < Limit
       PROVE  chosen = b
  BY <1>4, <1>10
<1>11. ASSUME NEW m \in found, m \notin b
       PROVE  \/ Loses(m)
              \/ \E g \in Groups(s) : m \in g /\ ~Contested(g)
  <2>1. CASE m \notin s
    BY <1>1, <2>1
  <2>2. CASE m \in s
    BY <1>3, <1>11, <2>2
  <2> QED
    BY <2>1, <2>2
<1>12. ASSUME NEW m \in found, m \notin b
       PROVE  Loses(m) \/ \E p \in Alike : m \in p /\ p \subseteq alive
  <2>1. ASSUME NEW g \in Groups(s), m \in g
        PROVE  \E p \in Alike : m \in p /\ p \subseteq alive
    <3>1. \E p \in Alike : m \in p /\ p \subseteq s
      BY <2>1, GroupMembersAreAlike
    <3> QED
      BY <1>1, <3>1
  <2> QED
    BY <1>11, <1>12, <2>1
<1>13. ASSUME NEW m \in found, InDispute(m), m \notin b
       PROVE  Loses(m)
  <2>1. \A g \in Groups(s) : m \in g => Contested(g)
    BY <1>13 DEF Contested
  <2> QED
    BY <1>11, <1>13, <2>1
<1>14. Cardinality(chosen) < Limit =>
         /\ \A m \in found \ chosen : Loses(m) \/ \E p \in Alike : m \in p /\ p \subseteq alive
         /\ \A m \in found : InDispute(m) => m \in chosen \/ Loses(m)
  BY <1>10, <1>12, <1>13
<1> QED
  BY <1>6, <1>8, <1>9, <1>14 DEF Selected

----------------------------------------------------------------------------
(* The call. *)

Asked == [pc : {"idle", "check", "seeds", "rows", "rules", "search", "summary",
                "sources", "answer", "answered", "failed"},
          pass : 1 .. 3, found : SUBSET Mem, best : SUBSET Mem, first : SUBSET Mem,
          tree : SUBSET Mem, compact : SUBSET Mem, rest : SUBSET Mem, answer : SUBSET Mem,
          seen : SUBSET Mem, quiet : BOOLEAN, refused : BOOLEAN]

\* RouterTypeOK, with the call as one record.
RouterTypes ==
    /\ state \in [Mem -> {"new", "active", "inactive"}]
    /\ decided \in Seq([of : Couple, winner : Mem \cup {NoMem}])
    /\ policy \in [PolicyKey -> {"unset", "allow", "deny"}]
    /\ newer \in {"read", "all"}
    /\ asked \in Asked

\* What is shown was active during the call, and is nothing if the policy denied it.
ShownOK(a) ==
    /\ a.pc # "answered" => a.answer = {}
    /\ a.answer \subseteq a.seen
    /\ a.pc \notin {"idle", "answered", "failed"} =>
         ~a.refused /\ alive \subseteq a.seen /\ a.tree \cup a.compact \cup a.rest \subseteq a.seen
    /\ a.pc = "answered" /\ a.refused => a.answer = {}

\* What the first retrieval of an undisturbed call found and selected.
TreeOK(a) ==
    a.quiet =>
      /\ a.pass = 1 /\ a.pc \in {"check", "seeds"} => a.found \subseteq alive
      /\ a.pass = 1 /\ a.pc = "rows" => Selected(a.first, a.best)
      /\ a.pc \notin {"idle", "answered", "failed"}
           /\ (a.pass # 1 \/ a.pc \notin {"check", "seeds", "rows"}) => Selected(a.first, a.tree)
      /\ a.pc = "answered" => Selected(a.found, a.tree)

RouterInv == RouterTypes /\ ShownOK(asked) /\ TreeOK(asked)

LEMMA SilenceType ==
    /\ Silence \in Asked /\ Silence.pc = "idle" /\ Silence.pass = 1 /\ Silence.answer = {}
    /\ Silence.found = {} /\ Silence.tree = {} /\ Silence.compact = {} /\ Silence.rest = {}
BY DEF Silence, Asked

LEMMA SilenceOK == ShownOK(Silence) /\ TreeOK(Silence)
BY SilenceType DEF ShownOK, TreeOK

LEMMA AliveType == alive \subseteq Mem
BY DEF alive

LEMMA NothingSelected == Selected({}, {})
<1>1. Cardinality({}) = 0
  BY FS_EmptySet
<1> QED
  BY <1>1, RouterAssumption DEF Selected

LEMMA RouterInvInit == RouterInit => RouterInv
BY SilenceType, SilenceOK DEF RouterInit, RouterInv, RouterTypes

\* Steps of the call: the rest stays as it is.
LEMMA CallKeeps ==
    ASSUME RouterInv, NEW a \in Asked, Moves(a), ShownOK(a), TreeOK(a)
    PROVE  RouterInv'
<1>1. asked' = a /\ UNCHANGED <<state, decided, policy, newer>>
  BY DEF Moves
<1>2. alive' = alive
  BY <1>1 DEF alive
<1>3. \A f, c : Selected(f, c)' <=> Selected(f, c)
  <2>1. \A m : InDispute(m)' <=> InDispute(m)
    BY <1>1 DEF InDispute, Newest, Naming
  <2>2. \A m : Loses(m)' <=> Loses(m)
    BY <1>1, <1>2 DEF Loses
  <2> QED
    BY <1>2, <2>1, <2>2 DEF Selected
<1>4. ShownOK(asked)'
  BY <1>1, <1>2 DEF ShownOK
<1>5. TreeOK(asked)'
  BY <1>1, <1>2, <1>3 DEF TreeOK
<1> QED
  BY <1>1, <1>4, <1>5 DEF RouterInv, RouterTypes

\* What is delivered.
Delivered(pc, text) ==
    [Silence EXCEPT !.pc = pc, !.answer = text, !.found = asked.first, !.tree = asked.tree,
                    !.compact = asked.compact, !.seen = asked.seen, !.quiet = asked.quiet,
                    !.refused = asked.refused]

LEMMA DeliveredFields ==
    ASSUME asked \in Asked, NEW pc \in {"answered", "failed"}, NEW text \in SUBSET Mem, NEW a,
           a = Delivered(pc, text)
    PROVE  /\ a \in Asked /\ a.pc = pc /\ a.answer = text /\ a.found = asked.first
           /\ a.tree = asked.tree /\ a.seen = asked.seen /\ a.quiet = asked.quiet
           /\ a.refused = asked.refused
BY SilenceType DEF Asked, Delivered

LEMMA DeliveryOK ==
    ASSUME RouterInv, NEW pc \in {"answered", "failed"}, NEW text \in SUBSET Mem,
           Delivers(pc, text), Underway,
           pc = "failed" => text = {},
           pc = "answered" => asked.pc = "answer" /\ text = asked.tree \cup asked.compact \cup asked.rest
    PROVE  RouterInv'
<1>1. asked \in Asked /\ ShownOK(asked) /\ TreeOK(asked)
  BY DEF RouterInv, RouterTypes
<1>2. PICK a : a = Delivered(pc, text) /\ Moves(a)
  BY DEF Delivers, Delivered
<1>3. /\ a \in Asked /\ a.pc = pc /\ a.answer = text /\ a.found = asked.first
      /\ a.tree = asked.tree /\ a.seen = asked.seen /\ a.quiet = asked.quiet
      /\ a.refused = asked.refused
  BY <1>1, <1>2, DeliveredFields
<1>4. ShownOK(a)
  BY <1>1, <1>3 DEF ShownOK, Underway
<1>5. TreeOK(a)
  BY <1>1, <1>3 DEF TreeOK
<1> QED
  BY <1>2, <1>3, <1>4, <1>5, CallKeeps

LEMMA CallStarts ==
    ASSUME RouterInv, Call
    PROVE  RouterInv'
<1>1. PICK s : s = [Silence EXCEPT !.seen = alive, !.refused = Denies("inject")]
  OBVIOUS
<1>2. Denies("inject") \in BOOLEAN
  BY DEF Denies
<1>3. /\ s \in Asked /\ s.pass = 1 /\ s.seen = alive /\ s.refused = Denies("inject")
      /\ s.answer = {} /\ s.found = {} /\ s.tree = {} /\ s.compact = {} /\ s.rest = {}
  BY <1>1, <1>2, SilenceType, AliveType DEF Asked
<1>4. CASE Denies("inject")
  <2>1. PICK a : a = [s EXCEPT !.pc = "answered"] /\ Moves(a)
    BY <1>1, <1>4 DEF Call
  <2>2. /\ a \in Asked /\ a.pc = "answered" /\ a.seen = alive /\ a.answer = {}
        /\ a.found = {} /\ a.tree = {}
    BY <1>3, <2>1 DEF Asked
  <2>3. ShownOK(a) /\ TreeOK(a)
    BY <2>2, NothingSelected DEF ShownOK, TreeOK
  <2> QED
    BY <2>1, <2>2, <2>3, CallKeeps
<1>5. CASE ~Denies("inject")
  <2>1. PICK a : a = [s EXCEPT !.pc = "check"] /\ Moves(a)
    BY <1>1, <1>5 DEF Call
  <2>2. /\ a \in Asked /\ a.pc = "check" /\ a.pass = 1 /\ a.seen = alive /\ ~a.refused
        /\ a.answer = {} /\ a.found = {} /\ a.tree = {} /\ a.compact = {} /\ a.rest = {}
    BY <1>3, <1>5, <2>1 DEF Asked
  <2>3. ShownOK(a) /\ TreeOK(a)
    BY <2>2 DEF ShownOK, TreeOK
  <2> QED
    BY <2>1, <2>2, <2>3, CallKeeps
<1> QED
  BY <1>4, <1>5

LEMMA CallEnds ==
    ASSUME RouterInv, CallFails \/ CallDies
    PROVE  RouterInv'
<1>1. CASE CallFails
  BY <1>1, DeliveryOK DEF CallFails
<1>2. CASE CallDies
  <2>1. Moves(Silence)
    BY <1>2 DEF CallDies
  <2> QED
    BY <2>1, SilenceType, SilenceOK, CallKeeps
<1> QED
  BY <1>1, <1>2

\* What most steps of the call leave alone.
SameBut(a) ==
    /\ a \in Asked /\ a.answer = asked.answer /\ a.seen = asked.seen
    /\ a.quiet = asked.quiet /\ a.refused = asked.refused

LEMMA PolicyIsChecked ==
    ASSUME RouterInv, CheckPolicy
    PROVE  RouterInv'
<1>1. asked \in Asked /\ ShownOK(asked) /\ TreeOK(asked) /\ asked.pc = "check"
  BY DEF RouterInv, RouterTypes, CheckPolicy
<1>2. CASE Denies("inject")
  <2>1. Delivers("failed", {}) /\ Underway
    BY <1>1, <1>2 DEF CheckPolicy, Underway
  <2> QED
    BY <2>1, DeliveryOK
<1>3. CASE ~Denies("inject")
  <2>1. PICK a : /\ a = [asked EXCEPT !.pc = IF asked.pass = 3 THEN "answer" ELSE "seeds"]
                 /\ Moves(a)
    BY <1>3 DEF CheckPolicy, Now
  <2>2. /\ SameBut(a) /\ a.pass = asked.pass /\ a.found = asked.found /\ a.first = asked.first
        /\ a.tree = asked.tree /\ a.compact = asked.compact /\ a.rest = asked.rest
        /\ a.pc = IF asked.pass = 3 THEN "answer" ELSE "seeds"
    BY <1>1, <2>1 DEF Asked, SameBut
  <2>3. ShownOK(a) /\ TreeOK(a)
    BY <1>1, <2>2 DEF ShownOK, TreeOK, SameBut
  <2> QED
    BY <2>1, <2>2, <2>3, CallKeeps DEF SameBut
<1> QED
  BY <1>2, <1>3

LEMMA HitIsAlive ==
    ASSUME RouterInv, NEW m \in Mem, Hit(m)
    PROVE  RouterInv'
<1>1. asked \in Asked /\ ShownOK(asked) /\ TreeOK(asked) /\ asked.pc = "seeds" /\ m \in alive
  BY DEF RouterInv, RouterTypes, Hit
<1>2. PICK a : a = [asked EXCEPT !.found = asked.found \cup {m}] /\ Moves(a)
  BY DEF Hit
<1>3. /\ SameBut(a) /\ a.pass = asked.pass /\ a.found = asked.found \cup {m}
      /\ a.first = asked.first /\ a.tree = asked.tree /\ a.compact = asked.compact
      /\ a.rest = asked.rest /\ a.pc = asked.pc
  BY <1>1, <1>2 DEF Asked, SameBut
<1>4. ShownOK(a) /\ TreeOK(a)
  BY <1>1, <1>3 DEF ShownOK, TreeOK, SameBut
<1> QED
  BY <1>2, <1>3, <1>4, CallKeeps DEF SameBut

LEMMA BestAreSelected ==
    ASSUME RouterInv, NEW best \in SUBSET Mem, NEW chosen \in SUBSET best, Resolve(best, chosen)
    PROVE  RouterInv'
<1>1. asked \in Asked /\ ShownOK(asked) /\ TreeOK(asked) /\ asked.pc = "seeds"
  BY DEF RouterInv, RouterTypes, Resolve
<1>2. PICK a : /\ a = [[asked EXCEPT !.pc = "rows"] EXCEPT
                          !.best = chosen,
                          !.first = IF asked.pass = 1 THEN asked.found ELSE asked.first]
               /\ Moves(a)
  BY DEF Resolve, Now
<1>3. /\ SameBut(a) /\ a.pass = asked.pass /\ a.tree = asked.tree /\ a.compact = asked.compact
      /\ a.first = (IF asked.pass = 1 THEN asked.found ELSE asked.first)
      /\ a.rest = asked.rest /\ a.pc = "rows" /\ a.best = chosen
  BY <1>1, <1>2 DEF Asked, SameBut
<1>4. ASSUME asked.quiet, asked.pass = 1
      PROVE  Selected(asked.found, chosen)
  <2>1. asked.found \subseteq alive
    BY <1>1, <1>4 DEF TreeOK
  <2>2. decided \in Seq([of : Couple, winner : Mem \cup {NoMem}])
    BY DEF RouterInv, RouterTypes
  <2>3. /\ Best(Explicit(asked.found), best) /\ chosen \subseteq best
        /\ Cardinality(chosen) = Limit \/ (chosen = best /\ Cardinality(best) < Limit)
    BY DEF Resolve
  <2> QED
    BY <2>1, <2>2, <2>3, ResolutionSelects
<1>5. ShownOK(a)
  BY <1>1, <1>3 DEF ShownOK, SameBut
<1>6. TreeOK(a)
  BY <1>1, <1>3, <1>4 DEF TreeOK, SameBut
<1> QED
  BY <1>2, <1>3, <1>5, <1>6, CallKeeps DEF SameBut

LEMMA RowsAreAlive ==
    ASSUME RouterInv, Rows
    PROVE  RouterInv'
<1>1. asked \in Asked /\ ShownOK(asked) /\ TreeOK(asked) /\ asked.pc = "rows"
  BY DEF RouterInv, RouterTypes, Rows
<1>2. PICK rows : rows = asked.best \cap alive
  OBVIOUS
<1>3. rows \in SUBSET Mem /\ rows \subseteq alive
  BY <1>2, AliveType
<1>4. CASE asked.pass = 1
  <2>1. PICK a : /\ a = [[asked EXCEPT !.pc = "rules"] EXCEPT !.tree = rows, !.found = {}, !.best = {}]
                 /\ Moves(a)
    BY <1>2, <1>4 DEF Rows, Now
  <2>2. /\ SameBut(a) /\ a.pass = 1 /\ a.tree = rows /\ a.compact = asked.compact
        /\ a.first = asked.first /\ a.rest = asked.rest /\ a.pc = "rules"
    BY <1>1, <1>3, <1>4, <2>1 DEF Asked, SameBut
  <2>3. asked.quiet => Selected(asked.first, rows)
    <3>1. asked.quiet => Selected(asked.first, asked.best)
      BY <1>1, <1>4 DEF TreeOK
    <3>2. asked.quiet => asked.best = rows
      BY <1>2, <3>1 DEF Selected
    <3> QED
      BY <3>1, <3>2
  <2>4. ShownOK(a)
    BY <1>1, <1>3, <2>2 DEF ShownOK, SameBut
  <2>5. TreeOK(a)
    BY <1>1, <2>2, <2>3 DEF TreeOK, SameBut
  <2> QED
    BY <2>1, <2>2, <2>4, <2>5, CallKeeps DEF SameBut
<1>5. CASE asked.pass # 1
  <2>1. PICK pc \in {"search", "summary"} : pc = IF rows = {} THEN "search" ELSE "summary"
    OBVIOUS
  <2>2. PICK a : /\ a = [[asked EXCEPT !.pc = pc] EXCEPT
                            !.compact = rows, !.found = {}, !.best = {}]
                 /\ Moves(a)
    BY <1>2, <1>5, <2>1 DEF Rows, Now
  <2>3. /\ SameBut(a) /\ a.pass = asked.pass /\ a.tree = asked.tree /\ a.compact = rows
        /\ a.first = asked.first /\ a.rest = asked.rest /\ a.pc = pc
    BY <1>1, <1>3, <2>2 DEF Asked, SameBut
  <2>4. ShownOK(a)
    BY <1>1, <1>3, <2>3 DEF ShownOK, SameBut
  <2>5. TreeOK(a)
    BY <1>1, <1>5, <2>3 DEF TreeOK, SameBut
  <2> QED
    BY <2>2, <2>3, <2>4, <2>5, CallKeeps DEF SameBut
<1> QED
  BY <1>4, <1>5

LEMMA RulesAreAlive ==
    ASSUME RouterInv, SavedRules
    PROVE  RouterInv'
<1>1. asked \in Asked /\ ShownOK(asked) /\ TreeOK(asked) /\ asked.pc = "rules"
  BY DEF RouterInv, RouterTypes, SavedRules
<1>2. PICK rest : rest = Rule \cap alive
  OBVIOUS
<1>3. rest \in SUBSET Mem /\ rest \subseteq alive
  BY <1>2, AliveType
<1>4. PICK a : /\ a = [[asked EXCEPT !.pc = "check"] EXCEPT !.rest = rest, !.pass = 2]
               /\ Moves(a)
  BY <1>2 DEF SavedRules, Now
<1>5. /\ SameBut(a) /\ a.pass = 2 /\ a.tree = asked.tree /\ a.compact = asked.compact
      /\ a.first = asked.first /\ a.rest = rest /\ a.pc = "check"
  <2>1. PICK n \in 1 .. 3 : n = 2
    OBVIOUS
  <2>2. a = [[asked EXCEPT !.pc = "check"] EXCEPT !.pass = n, !.rest = rest]
    BY <1>4, <2>1
  <2> QED
    BY <1>1, <1>3, <2>1, <2>2 DEF Asked, SameBut
<1>6. ShownOK(a)
  BY <1>1, <1>3, <1>5 DEF ShownOK, SameBut
<1>7. TreeOK(a)
  BY <1>1, <1>5 DEF TreeOK, SameBut
<1> QED
  BY <1>4, <1>5, <1>6, <1>7, CallKeeps DEF SameBut

LEMMA SupplementIsAlive ==
    ASSUME RouterInv, NEW found \in SUBSET Mem, SearchAgain(found)
    PROVE  RouterInv'
<1>1. /\ asked \in Asked /\ ShownOK(asked) /\ TreeOK(asked) /\ asked.pc = "search"
      /\ found \subseteq alive
  BY DEF RouterInv, RouterTypes, SearchAgain
<1>2. CASE Denies("read")
  <2>1. Delivers("failed", {}) /\ Underway
    BY <1>1, <1>2 DEF SearchAgain, Underway
  <2> QED
    BY <2>1, DeliveryOK
<1>3. CASE ~Denies("read")
  <2>1. PICK a : /\ a = [[asked EXCEPT !.pc = "summary"] EXCEPT !.compact = found]
                 /\ Moves(a)
    BY <1>3 DEF SearchAgain, Now
  <2>2. /\ SameBut(a) /\ a.pass = asked.pass /\ a.tree = asked.tree /\ a.compact = found
        /\ a.first = asked.first /\ a.rest = asked.rest /\ a.pc = "summary"
    BY <1>1, <2>1 DEF Asked, SameBut
  <2>3. ShownOK(a) /\ TreeOK(a)
    BY <1>1, <2>2 DEF ShownOK, TreeOK, SameBut
  <2> QED
    BY <2>1, <2>2, <2>3, CallKeeps DEF SameBut
<1> QED
  BY <1>2, <1>3

LEMMA SummaryIsRead ==
    ASSUME RouterInv, ReadSummary
    PROVE  RouterInv'
<1>1. asked \in Asked /\ ShownOK(asked) /\ TreeOK(asked) /\ asked.pc = "summary"
  BY DEF RouterInv, RouterTypes, ReadSummary
<1>2. PICK a : a = [asked EXCEPT !.pc = "sources"] /\ Moves(a)
  BY DEF ReadSummary, Now
<1>3. /\ SameBut(a) /\ a.pass = asked.pass /\ a.tree = asked.tree /\ a.compact = asked.compact
      /\ a.first = asked.first /\ a.rest = asked.rest /\ a.pc = "sources"
  BY <1>1, <1>2 DEF Asked, SameBut
<1>4. ShownOK(a) /\ TreeOK(a)
  BY <1>1, <1>3 DEF ShownOK, TreeOK, SameBut
<1> QED
  BY <1>2, <1>3, <1>4, CallKeeps DEF SameBut

LEMMA SourcesAreAlive ==
    ASSUME RouterInv, CheckSources
    PROVE  RouterInv'
<1>1. asked \in Asked /\ ShownOK(asked) /\ TreeOK(asked) /\ asked.pc = "sources"
  BY DEF RouterInv, RouterTypes, CheckSources
<1>2. PICK rest : rest = asked.rest \cup IF Summarised \subseteq alive THEN Summarised ELSE {}
  OBVIOUS
<1>3. rest \in SUBSET Mem /\ rest \subseteq asked.rest \cup alive
  BY <1>1, <1>2, AliveType DEF Asked
<1>4. PICK a : /\ a = [[asked EXCEPT !.pc = "check"] EXCEPT !.pass = 3, !.rest = rest]
               /\ Moves(a)
  BY <1>2 DEF CheckSources, Now
<1>5. /\ SameBut(a) /\ a.pass = 3 /\ a.tree = asked.tree /\ a.compact = asked.compact
      /\ a.first = asked.first /\ a.rest = rest /\ a.pc = "check"
  <2>1. PICK n \in 1 .. 3 : n = 3
    OBVIOUS
  <2>2. a = [[asked EXCEPT !.pc = "check"] EXCEPT !.pass = n, !.rest = rest]
    BY <1>4, <2>1
  <2> QED
    BY <1>1, <1>3, <2>1, <2>2 DEF Asked, SameBut
<1>6. ShownOK(a)
  BY <1>1, <1>3, <1>5 DEF ShownOK, SameBut
<1>7. TreeOK(a)
  BY <1>1, <1>5 DEF TreeOK, SameBut
<1> QED
  BY <1>4, <1>5, <1>6, <1>7, CallKeeps DEF SameBut

LEMMA AnswerIsShown ==
    ASSUME RouterInv, Answer
    PROVE  RouterInv'
<1>1. asked.tree \cup asked.compact \cup asked.rest \in SUBSET Mem
  BY DEF RouterInv, RouterTypes, Asked
<1>2. /\ Underway /\ asked.pc = "answer"
      /\ Delivers("answered", asked.tree \cup asked.compact \cup asked.rest)
  BY DEF Answer, Underway
<1> QED
  BY <1>1, <1>2, DeliveryOK

LEMMA CallStepKeeps ==
    ASSUME RouterInv, CallStep
    PROVE  RouterInv'
<1>1. CASE Call
  BY <1>1, CallStarts
<1>2. CASE CallFails \/ CallDies
  BY <1>2, CallEnds
<1>3. CASE CheckPolicy
  BY <1>3, PolicyIsChecked
<1>4. CASE \E m \in Mem : Hit(m) \/ Neighbour(m)
  BY <1>4, HitIsAlive DEF Neighbour
<1>5. CASE \E found \in SUBSET Mem : SearchAgain(found)
  BY <1>5, SupplementIsAlive
<1>6. CASE \E best \in SUBSET Mem : \E chosen \in SUBSET best : Resolve(best, chosen)
  BY <1>6, BestAreSelected
<1>7. CASE Rows
  BY <1>7, RowsAreAlive
<1>8. CASE SavedRules
  BY <1>8, RulesAreAlive
<1>9. CASE ReadSummary
  BY <1>9, SummaryIsRead
<1>10. CASE CheckSources
  BY <1>10, SourcesAreAlive
<1>11. CASE Answer
  BY <1>11, AnswerIsShown
<1> QED
  BY <1>1, <1>2, <1>3, <1>4, <1>5, <1>6, <1>7, <1>8, <1>9, <1>10, <1>11 DEF CallStep

----------------------------------------------------------------------------
(* What is committed in between. *)

\* A call that was under way is no longer undisturbed and has seen what is active now.
LEMMA DisturbedKeeps ==
    ASSUME RouterInv, RouterTypes', Underway, ~asked'.quiet, asked'.pc = asked.pc,
           asked'.answer = asked.answer, asked'.tree = asked.tree,
           asked'.compact = asked.compact, asked'.rest = asked.rest,
           asked.seen \subseteq asked'.seen, alive' \subseteq alive \cup asked'.seen,
           asked'.refused => asked.refused
    PROVE  RouterInv'
<1>1. asked \in Asked /\ ShownOK(asked)
  BY DEF RouterInv, RouterTypes
<1>2. ShownOK(asked)'
  BY <1>1 DEF ShownOK, Underway
<1>3. TreeOK(asked)'
  BY DEF TreeOK
<1> QED
  BY <1>2, <1>3 DEF RouterInv

\* A call that was not is forgotten.
LEMMA ForgottenKeeps ==
    ASSUME RouterTypes', asked' = Silence
    PROVE  RouterInv'
<1>1. ShownOK(asked)' /\ TreeOK(asked)'
  BY SilenceType DEF ShownOK, TreeOK
<1> QED
  BY <1>1 DEF RouterInv

LEMMA MemoryChanges ==
    ASSUME RouterInv, NEW m \in Mem, NEW new \in {"active", "inactive"}, Become(m, new)
    PROVE  RouterInv'
<1>1. /\ asked \in Asked /\ state \in [Mem -> {"new", "active", "inactive"}]
      /\ state' = [state EXCEPT ![m] = new]
      /\ asked' = [Disturbs EXCEPT !.seen = IF Underway /\ new = "active" THEN @ \cup {m} ELSE @]
      /\ UNCHANGED <<decided, policy, newer>>
  BY DEF RouterInv, RouterTypes, Become
<1>2. state' \in [Mem -> {"new", "active", "inactive"}]
  BY <1>1
<1>3. CASE Underway
  <2>1. PICK seen : seen = IF new = "active" THEN asked.seen \cup {m} ELSE asked.seen
    OBVIOUS
  <2>2. asked' = [[asked EXCEPT !.quiet = FALSE] EXCEPT !.seen = seen]
    <3>1. PICK a : a = [asked EXCEPT !.quiet = FALSE]
      OBVIOUS
    <3>2. a.seen = asked.seen /\ Disturbs = a
      BY <1>1, <1>3, <3>1 DEF Disturbs, Asked
    <3>3. asked' = [a EXCEPT !.seen = IF new = "active" THEN a.seen \cup {m} ELSE a.seen]
      BY <1>1, <1>3, <3>2
    <3> QED
      BY <2>1, <3>1, <3>2, <3>3
  <2>3. seen \in SUBSET Mem /\ asked.seen \subseteq seen /\ alive' \subseteq alive \cup seen
    BY <1>1, <2>1 DEF alive, Asked
  <2>4. /\ asked' \in Asked /\ ~asked'.quiet /\ asked'.pc = asked.pc
        /\ asked'.answer = asked.answer /\ asked'.tree = asked.tree
        /\ asked'.compact = asked.compact /\ asked'.rest = asked.rest
        /\ asked'.seen = seen /\ asked'.refused = asked.refused
    BY <1>1, <2>2, <2>3 DEF Asked
  <2>5. RouterTypes'
    BY <1>1, <1>2, <2>4 DEF RouterInv, RouterTypes
  <2> QED
    BY <1>3, <2>3, <2>4, <2>5, DisturbedKeeps
<1>4. CASE ~Underway
  <2>1. asked' = Silence
    BY <1>1, <1>4 DEF Disturbs, Silence
  <2>2. RouterTypes'
    BY <1>1, <1>2, <2>1, SilenceType DEF RouterInv, RouterTypes
  <2> QED
    BY <2>1, <2>2, ForgottenKeeps
<1> QED
  BY <1>3, <1>4

LEMMA ConflictChanges ==
    ASSUME RouterInv, NEW p \in Couple, NEW winner \in p \cup {NoMem}, Decide(p, winner)
    PROVE  RouterInv'
<1>1. /\ asked \in Asked /\ asked' = Disturbs /\ UNCHANGED <<state, policy, newer>>
      /\ decided \in Seq([of : Couple, winner : Mem \cup {NoMem}])
      /\ decided' = Append(decided, [of |-> p, winner |-> winner])
  BY DEF RouterInv, RouterTypes, Decide
<1>2. decided' \in Seq([of : Couple, winner : Mem \cup {NoMem}])
  <2>1. PICK row : row = [of |-> p, winner |-> winner]
    OBVIOUS
  <2>2. row \in [of : Couple, winner : Mem \cup {NoMem}]
    BY <2>1 DEF Couple
  <2> QED
    BY <1>1, <2>1, <2>2, AppendProperties
<1>3. alive' = alive
  BY <1>1 DEF alive
<1>4. CASE Underway
  <2>1. asked' = [asked EXCEPT !.quiet = FALSE]
    BY <1>1, <1>4 DEF Disturbs
  <2>2. /\ asked' \in Asked /\ ~asked'.quiet /\ asked'.pc = asked.pc
        /\ asked'.answer = asked.answer /\ asked'.tree = asked.tree
        /\ asked'.compact = asked.compact /\ asked'.rest = asked.rest
        /\ asked'.seen = asked.seen /\ asked'.refused = asked.refused
    BY <1>1, <2>1 DEF Asked
  <2>3. RouterTypes'
    BY <1>1, <1>2, <2>2 DEF RouterInv, RouterTypes
  <2> QED
    BY <1>3, <1>4, <2>2, <2>3, DisturbedKeeps
<1>5. CASE ~Underway
  <2>1. asked' = Silence
    BY <1>1, <1>5 DEF Disturbs
  <2>2. RouterTypes'
    BY <1>1, <1>2, <2>1, SilenceType DEF RouterInv, RouterTypes
  <2> QED
    BY <2>1, <2>2, ForgottenKeeps
<1> QED
  BY <1>4, <1>5

LEMMA PolicyChanges ==
    ASSUME RouterInv, PolicyStep
    PROVE  RouterInv'
<1>1. /\ asked \in Asked /\ asked' = Reconsiders /\ UNCHANGED <<state, decided>>
      /\ policy' \in [PolicyKey -> {"unset", "allow", "deny"}] /\ newer' \in {"read", "all"}
  <2>1. /\ asked \in Asked /\ policy \in [PolicyKey -> {"unset", "allow", "deny"}]
        /\ newer \in {"read", "all"}
    BY DEF RouterInv, RouterTypes
  <2>2. CASE \E k \in PolicyKey, decision \in {"allow", "deny"} : SetPolicy(k, decision)
    BY <2>1, <2>2 DEF SetPolicy
  <2>3. CASE \E rows \in [PolicyKey -> {"unset", "allow", "deny"}], last \in {"read", "all"} :
               ImportPolicies(rows, last)
    BY <2>1, <2>3 DEF ImportPolicies
  <2> QED
    BY <2>2, <2>3 DEF PolicyStep
<1>2. alive' = alive
  BY <1>1 DEF alive
<1>3. PICK refused \in BOOLEAN : refused = (asked.refused /\ Denies("inject")')
  BY <1>1 DEF Asked
<1>4. CASE Underway
  <2>1. PICK a : a = [asked EXCEPT !.quiet = FALSE]
    OBVIOUS
  <2>2. a \in Asked /\ a.refused = asked.refused /\ Disturbs = a
    BY <1>1, <1>4, <2>1 DEF Disturbs, Asked
  <2>3. asked' = [a EXCEPT !.refused = refused]
    BY <1>1, <1>3, <1>4, <2>2 DEF Reconsiders
  <2>4. /\ asked' \in Asked /\ ~asked'.quiet /\ asked'.pc = asked.pc
        /\ asked'.answer = asked.answer /\ asked'.tree = asked.tree
        /\ asked'.compact = asked.compact /\ asked'.rest = asked.rest
        /\ asked'.seen = asked.seen /\ asked'.refused = refused
    BY <1>1, <1>3, <2>1, <2>3 DEF Asked
  <2>5. RouterTypes'
    BY <1>1, <2>4 DEF RouterInv, RouterTypes
  <2> QED
    BY <1>2, <1>3, <1>4, <2>4, <2>5, DisturbedKeeps
<1>5. CASE ~Underway
  <2>1. asked' = Silence
    BY <1>1, <1>5 DEF Disturbs, Reconsiders, Silence
  <2>2. RouterTypes'
    BY <1>1, <2>1, SilenceType DEF RouterInv, RouterTypes
  <2> QED
    BY <2>1, <2>2, ForgottenKeeps
<1> QED
  BY <1>4, <1>5

LEMMA RouterInvStep == RouterInv /\ [RouterNext]_routerVars => RouterInv'
<1> SUFFICES ASSUME RouterInv, [RouterNext]_routerVars
             PROVE  RouterInv'
  OBVIOUS
<1>1. CASE CallStep
  BY <1>1, CallStepKeeps
<1>2. CASE \E m \in Mem, new \in {"active", "inactive"} : Become(m, new)
  BY <1>2, MemoryChanges
<1>3. CASE \E p \in Couple : \E winner \in p \cup {NoMem} : Decide(p, winner)
  BY <1>3, ConflictChanges
<1>4. CASE PolicyStep
  BY <1>4, PolicyChanges
<1>5. CASE UNCHANGED routerVars
  <2>1. Moves(asked)
    BY <1>5 DEF Moves, routerVars
  <2>2. asked \in Asked /\ ShownOK(asked) /\ TreeOK(asked)
    BY DEF RouterInv, RouterTypes
  <2> QED
    BY <2>1, <2>2, CallKeeps
<1> QED
  BY <1>1, <1>2, <1>3, <1>4, <1>5 DEF RouterNext, Others

\* In every state of the routers, every column has a value it may have.
THEOREM RouterTypeCorrect == RouterSpec => []RouterTypeOK
<1>1. RouterInv => RouterTypeOK
  BY DEF RouterInv, RouterTypes, RouterTypeOK, Asked
<1> QED
  BY <1>1, RouterInvInit, RouterInvStep, PTL DEF RouterSpec

\* Whatever is committed while a call is under way, its envelope shows memories that were
\* active during the call, and none if it failed or was denied; the tree of an undisturbed
\* call leaves out only what lost a conflict, near-duplicates and what is more than the
\* limit, and of what has an open conflict among its newest Marks ones only what lost one
\* or is more than the limit (before_model_call, retrieve_tree, current best).
THEOREM RouterAnswersHold == RouterSpec => []RouterAnswers
<1>1. RouterInv => RouterAnswers
  <2> SUFFICES ASSUME RouterInv
               PROVE  RouterAnswers
    OBVIOUS
  <2>1. asked \in Asked /\ ShownOK(asked) /\ TreeOK(asked)
    BY DEF RouterInv, RouterTypes
  <2>2. /\ asked.answer \subseteq asked.seen
        /\ asked.pc = "failed" \/ (asked.pc = "answered" /\ asked.refused) => asked.answer = {}
    BY <2>1 DEF ShownOK
  <2>3. asked.pc = "answered" /\ asked.quiet => Selected(asked.found, asked.tree)
    BY <2>1 DEF TreeOK
  <2> QED
    BY <2>2, <2>3 DEF RouterAnswers, Selected
<1> QED
  BY <1>1, RouterInvInit, RouterInvStep, PTL DEF RouterSpec

----------------------------------------------------------------------------
(* The four together. *)

\* A behaviour of MCRequests is one of each part.
LEMMA PartsOfRequests ==
    Spec => BatchSpec /\ TransferSpec /\ IntakeSpec /\ RouterSpec
<1>1. Init => BatchInit /\ TransferInit /\ IntakeInit /\ RouterInit
  BY DEF Init
<1>2. [Next]_<<allParts, part>> => [BatchNext]_batchVars
  <2>1. BatchPart => BatchNext
    BY DEF BatchPart, BatchNext
  <2>2. ConflictPart => BatchNext
    BY DEF ConflictPart, BatchNext
  <2> QED
    BY <2>1, <2>2 DEF Next, allParts
<1>3. TransferInv /\ [Next]_<<allParts, part>> => [TransferNext]_transferVars
  <2> SUFFICES ASSUME TransferInv
               PROVE  TransferStep => TransferNext
    BY DEF Next, WholePart, TornPart, allParts
  <2>1. file.from \in Site /\ Other(file.from) \in Site
    BY DEF TransferInv, FileRecord, Site, Other
  <2> QED
    BY <2>1 DEF TransferStep, TransferNext
<1>4. [Next]_<<allParts, part>> => [IntakeNext]_intakeVars
  BY DEF Next, IntakePart, allParts
<1>5. [Next]_<<allParts, part>> => [RouterNext]_routerVars
  <2>1. BestPart => RouterNext
    BY DEF BestPart, RouterNext, Others
  <2>2. PolicyPart => RouterNext
    <3>1. ASSUME NEW read \in {"allow", "deny"}, NEW all \in {"allow", "deny"}
          PROVE  [inject |-> "unset", read |-> read, all |-> all, wild |-> "unset"]
                   \in [PolicyKey -> {"unset", "allow", "deny"}]
      BY DEF PolicyKey
    <3> QED
      BY <3>1 DEF PolicyPart, PolicyStep, RouterNext, Others
  <2> QED
    BY <2>1, <2>2 DEF Next, allParts
<1> QED
  BY <1>1, <1>2, <1>3, <1>4, <1>5, TransferInvInit, TransferInvStep, PTL
     DEF Spec, BatchSpec, TransferSpec, IntakeSpec, RouterSpec

\* The tables, requests, files and calls of all four parts hold what their types say.
THEOREM RequestsTypeCorrect == Spec => []TypeOK
<1>1. BatchTypeOK /\ TransferTypeOK /\ IntakeTypeOK /\ RouterTypeOK => TypeOK
  BY DEF TypeOK
<1> QED
  BY <1>1, PartsOfRequests, BatchTypeCorrect, TransferTypeCorrect, IntakeTypeCorrect,
     RouterTypeCorrect, PTL

\* What the run of all four checks holds for every value of the constants, in every
\* behaviour of each part.
THEOREM RequestsSafe ==
    Spec => [](/\ BatchesTellTheTruth /\ ConflictsAreSettled /\ TransferKeepsState
               /\ IntakeIsComplete /\ RouterAnswers)
BY PartsOfRequests, BatchesAreTruthful, ConflictsSettle, TransfersKeepState, IntakeHolds,
   RouterAnswersHold, PTL
=============================================================================
