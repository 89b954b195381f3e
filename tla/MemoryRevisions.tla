-------------------------- MODULE MemoryRevisions --------------------------
(***************************************************************************)
(* The text of one memory, its item and its memory_revisions rows, under   *)
(* correct_memory and rollback_memory (store.py) of overlapping            *)
(* connections.                                                            *)
(*                                                                         *)
(* Both operations read the text, then (rollback) a revision, then the     *)
(* latest revision's id and the time, all before their first write, the    *)
(* INSERT into memory_revisions, takes the write lock.  Whatever was read  *)
(* by then may have been replaced by another connection.                   *)
(***************************************************************************)
EXTENDS Naturals, Sequences

CONSTANTS
    Text,           \* texts a memory may have
    Original,       \* the text it was activated with
    Conn,           \* connections that may be in the middle of an operation
    MaxRevisions,   \* bound: rows of memory_revisions
    MaxClock        \* bound: seconds that pass (now_iso drops the fraction)

ASSUME OriginalAssumption == Original \in Text
ASSUME BoundsAssumption == MaxRevisions \in Nat /\ MaxClock \in Nat

VARIABLES
    text,       \* memories.text
    item,       \* memory_items.text
    revs,       \* memory_revisions of the memory, in rowid order
    clock,      \* the time now_iso tells
    op          \* what each connection is in the middle of

vars == <<text, item, revs, clock, op>>
rows == <<text, item, revs>>

Kinds == {"correct", "rollback"}

\* "of" is the revision a rollback restores, "parent" parent_revision_id; 0 is ''.
\* "base" is history, not a column: the number of rows when the operation read the text.
Revision == [prev : Text, new : Text, kind : Kinds, of : Nat, parent : Nat, at : Nat,
             base : Nat]

Idle == [pc |-> "idle"]

\* Before the parent is known an operation has parent = at = 0.
Ops == {Idle}
       \cup [pc : {"choose"}, seen : Text, base : Nat]
       \cup [pc : {"parent", "commit"}, rev : Revision]

TypeOK ==
    /\ text \in Text
    /\ item \in Text
    /\ revs \in Seq(Revision)
    /\ clock \in Nat
    /\ op \in [Conn -> Ops]

Init ==
    /\ text = Original
    /\ item = Original
    /\ revs = <<>>
    /\ clock = 0
    /\ op = [c \in Conn |-> Idle]

----------------------------------------------------------------------------
\* ORDER BY created_at DESC, rowid DESC LIMIT 1
IsLatest(i) ==
    /\ i \in DOMAIN revs
    /\ \A j \in DOMAIN revs :
         revs[j].at < revs[i].at \/ (revs[j].at = revs[i].at /\ j <= i)

\* _latest_revision_id
IsLatestId(p) == IF revs = <<>> THEN p = 0 ELSE IsLatest(p)

Draft(prev, new, kind, r, base) ==
    [prev |-> prev, new |-> new, kind |-> kind, of |-> r, parent |-> 0, at |-> 0,
     base |-> base]

\* correct_memory: equal text is "unchanged" and writes nothing.
CorrectRead(c, t) ==
    /\ op[c] = Idle
    /\ t # text
    /\ op' = [op EXCEPT ![c] =
                [pc |-> "parent", rev |-> Draft(text, t, "correct", 0, Len(revs))]]
    /\ UNCHANGED <<rows, clock>>

\* rollback_memory reads the text first ...
RollbackRead(c) ==
    /\ op[c] = Idle
    /\ op' = [op EXCEPT ![c] = [pc |-> "choose", seen |-> text, base |-> Len(revs)]]
    /\ UNCHANGED <<rows, clock>>

\* Mutant: a change_type that is none.
RollbackChoose_UnknownKind(c, r, latest) ==
    /\ op[c].pc = "choose"
    /\ r \in DOMAIN revs
    /\ latest => IsLatest(r)
    /\ revs[r].prev # op[c].seen
    /\ op' = [op EXCEPT ![c] =
                [pc |-> "parent",
                 rev |-> Draft(op[c].seen, revs[r].prev, "rolled_back", r, op[c].base)]]
    /\ UNCHANGED <<rows, clock>>

\* Mutant: a rollback restores the text the revision introduced.
RollbackChoose_New(c, r, latest) ==
    /\ op[c].pc = "choose"
    /\ r \in DOMAIN revs
    /\ latest => IsLatest(r)
    /\ revs[r].new # op[c].seen
    /\ op' = [op EXCEPT ![c] =
                [pc |-> "parent",
                 rev |-> Draft(op[c].seen, revs[r].new, "rollback", r, op[c].base)]]
    /\ UNCHANGED <<rows, clock>>

\* ... then the revision: the one asked for, or the latest.
RollbackChoose(c, r, latest) ==
    /\ op[c].pc = "choose"
    /\ r \in DOMAIN revs
    /\ latest => IsLatest(r)
    /\ revs[r].prev # op[c].seen
    /\ op' = [op EXCEPT ![c] =
                [pc |-> "parent",
                 rev |-> Draft(op[c].seen, revs[r].prev, "rollback", r, op[c].base)]]
    /\ UNCHANGED <<rows, clock>>

\* _record_memory_revision, up to the INSERT
ParentRead(c) ==
    /\ op[c].pc = "parent"
    /\ \E p \in 0 .. Len(revs) :
         /\ IsLatestId(p)
         /\ op' = [op EXCEPT ![c] =
                     [pc |-> "commit", rev |-> [@.rev EXCEPT !.parent = p, !.at = clock]]]
    /\ UNCHANGED <<rows, clock>>

\* Mutant: the memory's item keeps its text.
Commit_MemoryOnly(c) ==
    /\ op[c].pc = "commit"
    /\ Len(revs) < MaxRevisions
    /\ revs' = Append(revs, op[c].rev)
    /\ text' = op[c].rev.new
    /\ op' = [op EXCEPT ![c] = Idle]
    /\ UNCHANGED <<item, clock>>

\* The transaction: the revision, the memory and its item together.
Commit(c) ==
    /\ op[c].pc = "commit"
    /\ Len(revs) < MaxRevisions
    /\ revs' = Append(revs, op[c].rev)
    /\ text' = op[c].rev.new
    /\ item' = op[c].rev.new
    /\ op' = [op EXCEPT ![c] = Idle]
    /\ UNCHANGED clock

\* The rollback finds nothing to restore, the restored text is the current one, or
\* the connection dies before its transaction.
Abandon(c) ==
    /\ op[c] # Idle
    /\ op' = [op EXCEPT ![c] = Idle]
    /\ UNCHANGED <<rows, clock>>

Tick ==
    /\ clock < MaxClock
    /\ clock' = clock + 1
    /\ UNCHANGED <<rows, op>>

Next ==
    \/ \E c \in Conn :
         \/ \E t \in Text : CorrectRead(c, t)
         \/ RollbackRead(c)
         \/ \E r \in 1 .. Len(revs), latest \in BOOLEAN : RollbackChoose(c, r, latest)
         \/ ParentRead(c)
         \/ Commit(c)
         \/ Abandon(c)
    \/ Tick

Spec == Init /\ [][Next]_vars

----------------------------------------------------------------------------
TextAfter(i) == IF i = 0 THEN Original ELSE revs[i].new

\* No revision was committed between the reads and the commit of another one.
AllAlone == \A i \in DOMAIN revs : revs[i].base = i - 1

\* The current text, in the memory and in its item, is what the last committed
\* revision introduced: no correction changes one without the other two.
TextIsLastRevision == item = text /\ text = TextAfter(Len(revs))

\* previous_text is never invented: it is what the memory held when the operation
\* read it, and if no other operation committed since, it is what was replaced.
PreviousWasHeld ==
    \A i \in DOMAIN revs : revs[i].base < i /\ revs[i].prev = TextAfter(revs[i].base)

\* A rollback revision restores the previous_text of an earlier revision.
RollbackRestores ==
    \A i \in DOMAIN revs : revs[i].kind = "rollback" =>
        /\ revs[i].of \in 1 .. i - 1
        /\ revs[i].new = revs[revs[i].of].prev

\* Following parent_revision_id always ends: a parent is an older row.
ParentIsOlder == \A i \in DOMAIN revs : revs[i].parent < i

\* "parent_revision_id: previous revision": if no operations overlapped the parents
\* form one line, although rows are ordered by a clock that counts seconds.
ParentIsPrevious == AllAlone => \A i \in DOMAIN revs : revs[i].parent = i - 1

\* The history tells what happened to the text: nothing in it is invented, and as long as
\* no operations overlapped it is one line of revisions.
HistoryHolds ==
    /\ TextIsLastRevision /\ PreviousWasHeld /\ RollbackRestores
    /\ ParentIsOlder /\ ParentIsPrevious

\* Operations that do not overlap implement the revision log.
Entries ==
    IF AllAlone
    THEN [i \in DOMAIN revs |->
             [from |-> revs[i].prev, to |-> revs[i].new, of |-> revs[i].of]]
    ELSE <<>>
Log == INSTANCE RevisionLog WITH log <- Entries, apart <- AllAlone
LogSpec == Log!Spec
=============================================================================
