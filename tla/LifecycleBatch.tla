--------------------------- MODULE LifecycleBatch ---------------------------
(***************************************************************************)
(* Batches of reviews and of lifecycle actions, and the records of         *)
(* conflicts between memories (review_batch, batch_memory_lifecycle,       *)
(* detect_memory_conflicts, record_memory_conflict and supersede_memory in *)
(* store.py).                                                              *)
(*                                                                         *)
(* Each item of a batch is a transaction of its own.  An exception of one  *)
(* is put into the answer and not rolled back: where it was raised after   *)
(* the item's first write, as when the COMMIT finds the database busy, the *)
(* transaction stays open, keeps the write lock, and is committed by the   *)
(* next item that commits, or rolled back when the connection is closed.   *)
(***************************************************************************)
EXTENDS Naturals, Sequences, FiniteSets

CONSTANTS
    Memory,       \* memories
    Candidate,    \* candidates under review
    Caller,       \* connections that may be in the middle of a request
    Nobody,
    MaxConflict   \* bound of an instance: rows of memory_conflicts

ASSUME CallerAssumption == Nobody \notin Caller \cup Memory
ASSUME ItemAssumption == Memory \cap Candidate = {} /\ MaxConflict \in Nat

VARIABLES
    item,       \* memories (status, text) and candidate_memories (status) as committed
    unsaved,    \* the same rows as the connection with the write lock sees them
    holder,     \* the connection whose transaction was left open, if any
    batch,      \* what each connection is in the middle of
    conflict,   \* memory_conflicts, in the order of their rows
    told,       \* history: item and action of every answer that reported a change
    leaked,     \* history: those reported as an error that were committed all the same
    crossed     \* history: pairs that were recorded or superseded under a detection

batchVars == <<item, unsaved, holder, batch, conflict, told, leaked, crossed>>

\* delete, distrust and expire are one operation with three status values.
Operations == [item : Memory, do : {"correct", "deactivate"}]
                \cup [item : Candidate, do : {"approve", "reject"}]
Pairs == {p \in SUBSET Memory : Cardinality(p) = 2}

NotBusy == [pc |-> "idle", ops |-> <<>>, stop |-> FALSE, broke |-> {}, todo |-> {}]

Items == [status : {"active", "inactive", "superseded", "pending", "approved", "rejected"},
          text : {1, 2}]
Conflicts == [pair : Pairs, by : {"detection", "caller", "supersede"},
              status : {"open", "resolved"}, winner : Memory \cup {Nobody}]

BatchTypeOK ==
    /\ item \in [Memory \cup Candidate -> Items]
    /\ unsaved \in [Memory \cup Candidate -> Items]
    /\ holder \in Caller \cup {Nobody}
    /\ \A c \in Caller :
         /\ batch[c].pc \in {"idle", "next", "writing", "recording"}
         /\ batch[c].ops \in Seq(Operations) /\ batch[c].stop \in BOOLEAN
         /\ batch[c].broke \subseteq Operations /\ batch[c].todo \subseteq Pairs
    /\ conflict \in Seq(Conflicts)
    /\ told \cup leaked \subseteq Operations
    /\ crossed \subseteq Pairs

BatchInit ==
    /\ item = [i \in Memory \cup Candidate |->
                 [status |-> IF i \in Memory THEN "active" ELSE "pending", text |-> 1]]
    /\ unsaved = item
    /\ holder = Nobody
    /\ batch = [c \in Caller |-> NotBusy]
    /\ conflict = <<>>
    /\ told = {}
    /\ leaked = {}
    /\ crossed = {}

----------------------------------------------------------------------------
Next1(c) == Head(batch[c].ops)
Seen(c) == IF holder = c THEN unsaved ELSE item
MayWrite(c) == holder \in {Nobody, c}

\* Mutant: the name of the action is stored as the status.
Changed_StoresAction(op, old) == [old EXCEPT !.status = op.do]

\* What an action makes of its row.
Changed(op, old) ==
    IF op.do = "correct" THEN [old EXCEPT !.text = 2]
    ELSE [old EXCEPT !.status = CASE op.do = "deactivate" -> "inactive"
                                  [] op.do = "approve" -> "approved"
                                  [] OTHER -> "rejected"]

\* The request is over and its connection is closed: what it left open is rolled back.
Ends(c, b) ==
    /\ batch' = [batch EXCEPT ![c] = b]
    /\ IF b = NotBusy /\ holder = c
       THEN holder' = Nobody /\ unsaved' = item
       ELSE UNCHANGED <<holder, unsaved>>

Rest(c) == [batch[c] EXCEPT !.pc = "next", !.ops = Tail(@)]
Pops(c, b) == IF b.ops = <<>> THEN NotBusy ELSE b

\* Mutant: stop_on_error is forgotten.
AfterError_GoesOn(c) == Pops(c, Rest(c))

\* An error ends the batch only if the caller asked for that.
AfterError(c) == IF batch[c].stop THEN NotBusy ELSE Pops(c, Rest(c))

\* A commit saves the item of now, if any, and what broken items before it left open.
Commits(c, rows) ==
    /\ item' = rows
    /\ unsaved' = rows
    /\ holder' = Nobody
    /\ leaked' = IF holder = c THEN leaked \cup batch[c].broke ELSE leaked

\* A batch of different items: ids are taken once, as many as there are operations.
Start(c, ops, stop) ==
    /\ batch[c] = NotBusy
    /\ batch' = [batch EXCEPT ![c] = [NotBusy EXCEPT !.pc = "next", !.ops = ops, !.stop = stop]]
    /\ UNCHANGED <<item, unsaved, holder, conflict, told, leaked, crossed>>

\* dry_run: an item that would be changed is looked at and answered.
Preview(c) ==
    /\ batch[c].pc = "next"
    /\ ~batch[c].stop /\ batch[c].broke = {}
    /\ Ends(c, Pops(c, Rest(c)))
    /\ UNCHANGED <<item, conflict, told, leaked, crossed>>

\* The look at the row that decides: a correction to the text it has changes nothing, and
\* the candidate of an active memory is not rejected.
Look(c) ==
    LET op == Next1(c)
        row == Seen(c)[op.item]
    IN
    /\ batch[c].pc = "next"
    /\ IF op.do = "correct" /\ row.text = 2 THEN Ends(c, Pops(c, Rest(c)))
       ELSE IF op.do = "reject" /\ row.status = "approved" THEN Ends(c, AfterError(c))
       ELSE Ends(c, [batch[c] EXCEPT !.pc = "writing"])
    /\ UNCHANGED <<item, conflict, told, leaked, crossed>>

\* An exception before the item has written anything: it is not there, its input is
\* refused, or the database stays locked.
Fail(c) ==
    /\ batch[c].pc \in {"next", "writing"}
    /\ Ends(c, AfterError(c))
    /\ UNCHANGED <<item, conflict, told, leaked, crossed>>

\* _enforce_write_policy: the denial is audited, committed and raised.
Deny(c) ==
    /\ batch[c].pc \in {"next", "writing"}
    /\ MayWrite(c)
    /\ Commits(c, Seen(c))
    /\ batch' = [batch EXCEPT ![c] = IF AfterError(c) = NotBusy THEN NotBusy
                                     ELSE [AfterError(c) EXCEPT !.broke = {}]]
    /\ UNCHANGED <<conflict, told, crossed>>

Write(c) ==
    LET op == Next1(c) IN
    /\ batch[c].pc = "writing"
    /\ MayWrite(c)
    /\ Commits(c, [Seen(c) EXCEPT ![op.item] = Changed(op, @)])
    /\ told' = told \cup {op}
    /\ batch' = [batch EXCEPT ![c] = Pops(c, [Rest(c) EXCEPT !.broke = {}])]
    /\ UNCHANGED <<conflict, crossed>>

\* An exception after the item's writes and before its commit, or of the commit.
Break(c) ==
    LET op == Next1(c)
        after == AfterError(c)
    IN
    /\ batch[c].pc = "writing"
    /\ MayWrite(c)
    /\ IF after = NotBusy
       THEN Ends(c, NotBusy)
       ELSE /\ unsaved' = [Seen(c) EXCEPT ![op.item] = Changed(op, @)]
            /\ holder' = c
            /\ batch' = [batch EXCEPT ![c] = [after EXCEPT !.broke = @ \cup {op}]]
    /\ UNCHANGED <<item, conflict, told, leaked, crossed>>

\* The process dies.
Die(c) ==
    /\ batch[c] # NotBusy
    /\ Ends(c, NotBusy)
    /\ UNCHANGED <<item, conflict, told, leaked, crossed>>

----------------------------------------------------------------------------
(* Conflicts. *)
Recorded == {conflict[i].pair : i \in DOMAIN conflict}

\* Detections that have the pair on their list have been overtaken.
Crosses(c, p) ==
    crossed' = IF \E d \in Caller \ {c} : p \in batch[d].todo THEN crossed \cup {p} ELSE crossed

Row(p, by, winner) ==
    [pair |-> p, by |-> by, winner |-> winner,
     status |-> IF winner = Nobody THEN "open" ELSE "resolved"]

\* record_memory_conflict: the two rows are only looked at for being there.
Record(c, p, winner) ==
    /\ batch[c] = NotBusy
    /\ holder = Nobody
    /\ Len(conflict) < MaxConflict
    /\ conflict' = Append(conflict, Row(p, "caller", winner))
    /\ Crosses(c, p)
    /\ UNCHANGED <<item, unsaved, holder, batch, told, leaked>>

\* detect_memory_conflicts reads the active memories and the recorded pairs, then records
\* one pair after the other; which texts overlap is left open.
Detect(c, found) ==
    /\ batch[c] = NotBusy
    /\ found # {}
    /\ \A p \in found : p \notin Recorded /\ \A m \in p : item[m].status = "active"
    /\ batch' = [batch EXCEPT ![c] = [NotBusy EXCEPT !.pc = "recording", !.todo = found]]
    /\ UNCHANGED <<item, unsaved, holder, conflict, told, leaked, crossed>>

RecordFound(c, p) ==
    LET left == batch[c].todo \ {p} IN
    /\ p \in batch[c].todo
    /\ holder = Nobody
    /\ Len(conflict) < MaxConflict
    /\ conflict' = Append(conflict, Row(p, "detection", Nobody))
    /\ batch' = [batch EXCEPT ![c] = IF left = {} THEN NotBusy ELSE [@ EXCEPT !.todo = left]]
    /\ Crosses(c, p)
    /\ UNCHANGED <<item, unsaved, holder, told, leaked>>

\* Mutant: only conflicts recorded by a detection are resolved.
Settle_Detected(p, new) ==
    [i \in DOMAIN conflict |->
       IF conflict[i].pair = p /\ conflict[i].status = "open" /\ conflict[i].by = "detection"
       THEN [conflict[i] EXCEPT !.status = "resolved", !.winner = new] ELSE conflict[i]]

\* The open conflicts of a pair, whichever of the two is named first, are resolved.
Settle(p, new) ==
    [i \in DOMAIN conflict |-> IF conflict[i].pair = p /\ conflict[i].status = "open"
                               THEN [conflict[i] EXCEPT !.status = "resolved", !.winner = new]
                               ELSE conflict[i]]

\* supersede_memory: neither the status of the old memory nor that of the new one matters.
Supersede(c, old, new) ==
    LET p == {old, new} IN
    /\ batch[c] = NotBusy
    /\ old # new
    /\ holder = Nobody
    /\ Len(conflict) < MaxConflict
    /\ item' = [item EXCEPT ![old].status = "superseded"]
    /\ unsaved' = item'
    /\ conflict' = Append(Settle(p, new), Row(p, "supersede", new))
    /\ Crosses(c, p)
    /\ UNCHANGED <<holder, batch, told, leaked>>

----------------------------------------------------------------------------
BatchStep(c) ==
    \/ \E n \in 1 .. 2 : \E ops \in [1 .. n -> Operations], stop \in BOOLEAN : Start(c, ops, stop)
    \/ Preview(c) \/ Look(c) \/ Fail(c) \/ Deny(c) \/ Write(c) \/ Break(c)

ConflictStep(c) ==
    \/ \E p \in Pairs : \E winner \in p \cup {Nobody} : Record(c, p, winner)
    \/ \E found \in SUBSET Pairs : Detect(c, found)
    \/ \E p \in Pairs : RecordFound(c, p)
    \/ \E old, new \in Memory : Supersede(c, old, new)

BatchNext == \E c \in Caller : BatchStep(c) \/ ConflictStep(c) \/ Die(c)

BatchSpec == BatchInit /\ [][BatchNext]_batchVars

----------------------------------------------------------------------------
(* Properties. *)

\* What a batch has changed by now.
Effects ==
    {[item |-> m, do |-> "deactivate"] : m \in {n \in Memory : item[n].status = "inactive"}}
      \cup {[item |-> m, do |-> "correct"] : m \in {n \in Memory : item[n].text = 2}}
      \cup {[item |-> k, do |-> "approve"] : k \in {l \in Candidate : item[l].status = "approved"}}
      \cup {[item |-> k, do |-> "reject"] : k \in {l \in Candidate : item[l].status = "rejected"}}

\* "Keep batch errors machine-readable per item": nothing changes without an answer that
\* says so, except for an item that broke after it had written and that a later item of its
\* batch committed, which stop_on_error rules out; and a memory that was reported deleted,
\* distrusted or expired is not active again.
BatchesTellTheTruth ==
    /\ Effects \subseteq told \cup leaked
    /\ \A c \in Caller : batch[c].stop => batch[c].broke = {}
    /\ \A op \in told : op.do = "deactivate" => item[op.item].status # "active"

\* A pair is detected once unless two calls overlapped on it; a supersession resolves every
\* conflict of its pair that was open, so that one open now was recorded after it, by a
\* caller or a detection it overtook; and a superseded memory has the row that says by what.
ConflictsAreSettled ==
    /\ \A i, j \in DOMAIN conflict :
         /\ conflict[i].pair = conflict[j].pair /\ i < j /\ conflict[j].by = "detection"
              => conflict[j].pair \in crossed
         /\ conflict[i].pair = conflict[j].pair /\ conflict[i].status = "open"
              /\ conflict[j].by = "supersede" => j < i
    /\ \A m \in Memory : item[m].status = "superseded" =>
         \E i \in DOMAIN conflict :
           /\ conflict[i].by = "supersede" /\ m \in conflict[i].pair \ {conflict[i].winner}
           /\ conflict[i].status = "resolved"
=============================================================================
