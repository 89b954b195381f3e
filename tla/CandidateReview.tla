-------------------------- MODULE CandidateReview --------------------------
(***************************************************************************)
(* Candidates, the memories they become and the reviews in between         *)
(* (MemoryStore.remember, approve_candidate, reject_candidate,             *)
(* delete/distrust/expire_memory, supersede_memory, ack_notification,      *)
(* resolve_notification in store.py).                                      *)
(*                                                                         *)
(* Every HTTP request, MCP call and CLI command opens a SQLite connection  *)
(* of its own.  A SELECT made before the first write of an operation runs  *)
(* in autocommit and holds no lock; from its first write to its commit the *)
(* connection holds the database's write lock.  So an operation is one     *)
(* step per unlocked read followed by one step for its whole transaction,  *)
(* and the steps of different connections interleave.  op[c] is what       *)
(* connection c has read so far.                                           *)
(***************************************************************************)
EXTENDS Naturals, Sequences

CONSTANTS
    Candidate,      \* ids of candidate_memories rows
    Memory,         \* ids of memories rows
    Conn,           \* connections that may be in the middle of an operation
    NoCandidate,    \* the owner of a memory id that is not in use yet
    MaxReviews      \* bound: rows of review_actions per candidate

ASSUME SentinelAssumption == NoCandidate \notin Candidate
ASSUME BoundAssumption == MaxReviews \in Nat

VARIABLES
    cand,       \* candidate_memories.status, "unseen" before the row exists
    admitted,   \* the status admission_policy gave the candidate
    owner,      \* memories.candidate_id
    status,     \* memories.status, "absent" before the row exists
    item,       \* memory_items.status of the memory's item
    reviews,    \* review_actions of the candidate, oldest first
    inbox,      \* status of the candidate's review notification
    contended,  \* history: candidates whose operations have overlapped
    op          \* what each connection is in the middle of

vars == <<cand, admitted, owner, status, item, reviews, inbox, contended, op>>
rows == <<cand, admitted, owner, status, item, reviews, inbox, contended>>

Admission == {"pending", "quarantined", "approved"}
CandidateStatus == Admission \cup {"rejected"}
Retired == {"deleted", "distrusted", "expired"}
Inactive == Retired \cup {"superseded"}
MemoryStatus == Inactive \cup {"active"}
Undecided == {"open", "acknowledged"}

Idle == [pc |-> "idle", target |-> NoCandidate]
InOp(p, k) == [pc |-> p, target |-> k]
Ops == {Idle} \cup
       [pc : {"approveRow", "approveInsert", "approveKnown", "rejecting", "acking"},
        target : Candidate]

TypeOK ==
    /\ cand \in [Candidate -> CandidateStatus \cup {"unseen"}]
    /\ admitted \in [Candidate -> Admission \cup {"unseen"}]
    /\ owner \in [Memory -> Candidate \cup {NoCandidate}]
    /\ status \in [Memory -> MemoryStatus \cup {"absent"}]
    /\ item \in [Memory -> MemoryStatus \cup {"absent"}]
    /\ reviews \in [Candidate -> Seq({"approve", "reject"})]
    /\ inbox \in [Candidate -> {"none", "open", "acknowledged", "resolved"}]
    /\ contended \subseteq Candidate
    /\ op \in [Conn -> Ops]

Init ==
    /\ cand = [k \in Candidate |-> "unseen"]
    /\ admitted = [k \in Candidate |-> "unseen"]
    /\ owner = [m \in Memory |-> NoCandidate]
    /\ status = [m \in Memory |-> "absent"]
    /\ item = [m \in Memory |-> "absent"]
    /\ reviews = [k \in Candidate |-> <<>>]
    /\ inbox = [k \in Candidate |-> "none"]
    /\ contended = {}
    /\ op = [c \in Conn |-> Idle]

----------------------------------------------------------------------------
\* History: c commits on candidate k; k is contended when another connection is in
\* the middle of an operation on k, whose reads are now of the past.
CommitsOn(c, k) ==
    contended' = IF \E d \in Conn \ {c} : op[d].target = k
                 THEN contended \cup {k} ELSE contended

MemoriesOf(k) == {m \in Memory : owner[m] = k}
Fresh(m) == status[m] = "absent"

\* _activate_candidate's writes: for each candidate of DOMAIN ids a new active
\* memory with its item.  A memory id is new_id("mem"), never used before.
Activate(ids) ==
    /\ \A k, l \in DOMAIN ids : ids[k] = ids[l] => k = l
    /\ \A k \in DOMAIN ids : Fresh(ids[k])
    /\ owner' = [m \in Memory |->
                   IF \E k \in DOMAIN ids : ids[k] = m
                   THEN CHOOSE k \in DOMAIN ids : ids[k] = m
                   ELSE owner[m]]
    /\ status' = [m \in Memory |->
                    IF \E k \in DOMAIN ids : ids[k] = m THEN "active" ELSE status[m]]
    /\ item' = [m \in Memory |->
                  IF \E k \in DOMAIN ids : ids[k] = m THEN "active" ELSE item[m]]

\* Mutant: resolving stores the outcome of the review.
Resolved_StoresOutcome(k) == IF inbox[k] \in Undecided THEN cand[k] ELSE inbox[k]

\* _resolve_notifications_for_target
Resolved(k) == IF inbox[k] \in Undecided THEN "resolved" ELSE inbox[k]

\* remember: one transaction inserts every candidate extracted from the event;
\* those admission approves become memories at once, the others get a notification.
Remember(c) ==
    /\ op[c] = Idle
    /\ \E K \in (SUBSET {k \in Candidate : cand[k] = "unseen"}) \ {{}} :
         \E adm \in [K -> Admission] :
           /\ cand' = [k \in Candidate |-> IF k \in K THEN adm[k] ELSE cand[k]]
           /\ admitted' = [k \in Candidate |-> IF k \in K THEN adm[k] ELSE admitted[k]]
           /\ inbox' = [k \in Candidate |->
                          IF k \in K /\ adm[k] # "approved" THEN "open" ELSE inbox[k]]
           /\ \E ids \in [{k \in K : adm[k] = "approved"} -> Memory] : Activate(ids)
    /\ UNCHANGED <<reviews, contended, op>>

----------------------------------------------------------------------------
(* approve_candidate: two unlocked reads, then the transaction. *)

\* Mutant: the existing-memory lookup is gone.
ApproveLookup_NoLookup(c, k) ==
    /\ op[c] = Idle
    /\ cand[k] # "unseen"
    /\ op' = [op EXCEPT ![c] = InOp("approveRow", k)]
    /\ UNCHANGED rows

\* Mutant: the existing-memory lookup sees active memories only.
ApproveLookup_ActiveOnly(c, k) ==
    /\ op[c] = Idle
    /\ cand[k] # "unseen"
    /\ op' = [op EXCEPT ![c] =
                InOp(IF \E m \in MemoriesOf(k) : status[m] = "active"
                     THEN "approveKnown" ELSE "approveRow", k)]
    /\ UNCHANGED rows

\* _activate_candidate first looks for a memory of the candidate, in any status.
ApproveLookup(c, k) ==
    /\ op[c] = Idle
    /\ cand[k] # "unseen"
    /\ op' = [op EXCEPT ![c] =
                InOp(IF MemoriesOf(k) = {} THEN "approveRow" ELSE "approveKnown", k)]
    /\ UNCHANGED rows

\* Finding none, it reads the candidate's row; quarantined and rejected raise.
ApproveRow(c) ==
    /\ op[c].pc = "approveRow"
    /\ op' = [op EXCEPT ![c] =
                IF cand[op[c].target] \in {"quarantined", "rejected"}
                THEN Idle
                ELSE InOp("approveInsert", op[c].target)]
    /\ UNCHANGED rows

RecordReview(k, action) ==
    /\ Len(reviews[k]) < MaxReviews
    /\ reviews' = [reviews EXCEPT ![k] = Append(@, action)]
    /\ inbox' = [inbox EXCEPT ![k] = Resolved(k)]

ApproveInsert(c) ==
    LET k == op[c].target IN
    /\ op[c].pc = "approveInsert"
    /\ \E m \in Memory : Activate([x \in {k} |-> m])
    /\ cand' = [cand EXCEPT ![k] = "approved"]
    /\ RecordReview(k, "approve")
    /\ CommitsOn(c, k)
    /\ op' = [op EXCEPT ![c] = Idle]
    /\ UNCHANGED admitted

\* Mutant: the memory that was found is made active again.
ApproveKnown_Reactivates(c) ==
    LET found == MemoriesOf(op[c].target) IN
    /\ op[c].pc = "approveKnown"
    /\ RecordReview(op[c].target, "approve")
    /\ CommitsOn(c, op[c].target)
    /\ status' = [m \in Memory |-> IF m \in found THEN "active" ELSE status[m]]
    /\ item' = [m \in Memory |-> IF m \in found THEN "active" ELSE item[m]]
    /\ op' = [op EXCEPT ![c] = Idle]
    /\ UNCHANGED <<cand, admitted, owner>>

\* A memory was found: it is returned as it is, and the approval recorded.
ApproveKnown(c) ==
    /\ op[c].pc = "approveKnown"
    /\ RecordReview(op[c].target, "approve")
    /\ CommitsOn(c, op[c].target)
    /\ op' = [op EXCEPT ![c] = Idle]
    /\ UNCHANGED <<cand, admitted, owner, status, item>>

(* reject_candidate: refuses while an active memory of the candidate exists. *)
RejectLookup(c, k) ==
    /\ op[c] = Idle
    /\ cand[k] # "unseen"
    /\ \A m \in MemoriesOf(k) : status[m] # "active"
    /\ op' = [op EXCEPT ![c] = InOp("rejecting", k)]
    /\ UNCHANGED rows

RejectCommit(c) ==
    LET k == op[c].target IN
    /\ op[c].pc = "rejecting"
    /\ cand' = [cand EXCEPT ![k] = "rejected"]
    /\ RecordReview(k, "reject")
    /\ CommitsOn(c, k)
    /\ op' = [op EXCEPT ![c] = Idle]
    /\ UNCHANGED <<admitted, owner, status, item>>

----------------------------------------------------------------------------
(* Lifecycle of a memory.  The row is read only to see that it exists, so *)
(* each of these is one transaction, open to a memory in any status.      *)

\* Mutant: the item keeps its status.
SetStatus_MemoryOnly(m, s) ==
    /\ status' = [status EXCEPT ![m] = s]
    /\ UNCHANGED item

SetStatus(m, s) ==
    /\ status' = [status EXCEPT ![m] = s]
    /\ item' = [item EXCEPT ![m] = s]

\* delete_memory, distrust_memory, expire_memory
Deactivate(c, m, s) ==
    /\ op[c] = Idle
    /\ ~Fresh(m)
    /\ SetStatus(m, s)
    /\ CommitsOn(c, owner[m])
    /\ UNCHANGED <<cand, admitted, owner, reviews, inbox, op>>

\* supersede_memory; the winner only has to exist
Supersede(c, old, new) ==
    /\ op[c] = Idle
    /\ ~Fresh(old) /\ ~Fresh(new) /\ old # new
    /\ SetStatus(old, "superseded")
    /\ CommitsOn(c, owner[old])
    /\ UNCHANGED <<cand, admitted, owner, reviews, inbox, op>>

----------------------------------------------------------------------------
(* The candidate's notification. *)

\* ack_notification reads the status, returns if resolved, then updates.
AckRead(c, k) ==
    /\ op[c] = Idle
    /\ inbox[k] \in Undecided
    /\ op' = [op EXCEPT ![c] = InOp("acking", k)]
    /\ UNCHANGED rows

AckCommit(c) ==
    /\ op[c].pc = "acking"
    /\ inbox' = [inbox EXCEPT ![op[c].target] = "acknowledged"]
    /\ CommitsOn(c, op[c].target)
    /\ op' = [op EXCEPT ![c] = Idle]
    /\ UNCHANGED <<cand, admitted, owner, status, item, reviews>>

\* resolve_notification writes "resolved" whatever it read before
ResolveNotification(c, k) ==
    /\ op[c] = Idle
    /\ inbox[k] \in Undecided
    /\ inbox' = [inbox EXCEPT ![k] = "resolved"]
    /\ CommitsOn(c, k)
    /\ UNCHANGED <<cand, admitted, owner, status, item, reviews, op>>

\* A connection that dies, or times out waiting for the write lock, before its
\* transaction leaves nothing behind.
Abandon(c) ==
    /\ op[c] # Idle
    /\ op' = [op EXCEPT ![c] = Idle]
    /\ UNCHANGED rows

----------------------------------------------------------------------------
Next ==
    \E c \in Conn :
      \/ Remember(c)
      \/ \E k \in Candidate : ApproveLookup(c, k)
      \/ ApproveRow(c)
      \/ ApproveInsert(c)
      \/ ApproveKnown(c)
      \/ \E k \in Candidate : RejectLookup(c, k)
      \/ RejectCommit(c)
      \/ \E m \in Memory, s \in Retired : Deactivate(c, m, s)
      \/ \E old, new \in Memory : Supersede(c, old, new)
      \/ \E k \in Candidate : AckRead(c, k)
      \/ AckCommit(c)
      \/ \E k \in Candidate : ResolveNotification(c, k)
      \/ Abandon(c)

Spec == Init /\ [][Next]_vars

----------------------------------------------------------------------------
(* Properties that hold however the connections interleave. *)

\* A memory's item always has the memory's status, so a retired memory cannot be
\* served through memory_items (search joins both).
ItemFollowsMemory == item = status

\* Content that admission quarantined never becomes a memory, in any order of
\* reviews (_activate_candidate raises for it).
QuarantineHolds ==
    \A m \in Memory : ~Fresh(m) => admitted[owner[m]] # "quarantined"

\* Every memory goes back to a decision: admission approved its candidate, or an
\* approve review of it is on record.
MemoryHasDecision ==
    \A m \in Memory : ~Fresh(m) =>
        \/ admitted[owner[m]] = "approved"
        \/ \E i \in DOMAIN reviews[owner[m]] : reviews[owner[m]][i] = "approve"

\* No review is lost: a candidate that still waits for review, or is held in
\* quarantine, has no review on record and no memory.
PendingIsUnreviewed ==
    \A k \in Candidate :
        cand[k] \in {"pending", "quarantined"} => reviews[k] = <<>> /\ MemoriesOf(k) = {}

\* However the connections interleave, what the tables say of a memory goes back to a
\* decision on its candidate, and no decision is lost.
DecisionsHold ==
    ItemFollowsMemory /\ QuarantineHolds /\ MemoryHasDecision /\ PendingIsUnreviewed

\* A memory that was deleted, distrusted, expired or superseded is never active again.
RetiredStaysRetired ==
    [][\A m \in Memory : status[m] \in Inactive => status'[m] \in Inactive]_vars

----------------------------------------------------------------------------
(* Properties of a candidate whose own operations never overlapped, whatever *)
(* overlaps on other candidates; the runs show how an overlap breaks them.   *)

\* A candidate becomes at most one memory.
OneMemoryPerCandidate ==
    \A m, n \in Memory :
        ~Fresh(m) /\ owner[m] = owner[n] /\ owner[m] \notin contended => m = n

\* A candidate with an active memory is approved: reject_candidate refuses
\* ("active memories must be deleted instead of rejecting their candidate").
ActiveIsApproved ==
    \A m \in Memory :
        status[m] = "active" /\ owner[m] \notin contended => cand[owner[m]] = "approved"

\* "Approving or rejecting a candidate resolves candidate notifications."
DecidedLeavesInbox ==
    \A k \in Candidate \ contended :
        cand[k] \in {"approved", "rejected"} => inbox[k] \notin Undecided

\* Until operations on a candidate overlap, it is decided once: one memory, which is
\* active only while the candidate is approved, and nothing of it left in the inbox.
OneDecisionPerCandidate == OneMemoryPerCandidate /\ ActiveIsApproved /\ DecidedLeavesInbox

----------------------------------------------------------------------------
(* The contract the tables implement for each candidate until its own *)
(* operations overlap.                                                *)

Reviewed(k) == cand[k] \in {"approved", "rejected"}
HasActive(k) == \E m \in MemoriesOf(k) : status[m] = "active"

Stage(k) ==
    IF k \in contended THEN "contended"
    ELSE IF Reviewed(k) THEN IF HasActive(k) THEN "live" ELSE "closed"
    ELSE IF cand[k] = "pending" THEN "open"
    ELSE IF cand[k] = "quarantined" THEN "blocked"
    ELSE "unseen"

Contract == INSTANCE ReviewContract WITH stage <- [k \in Candidate |-> Stage(k)]
ContractSpec == Contract!Spec
=============================================================================
