----------------------- MODULE CandidateReviewProofs -----------------------
(***************************************************************************)
(* Proofs about CandidateReview for any sets of candidates, memory ids and *)
(* connections.  Inv is the inductive invariant behind the properties that *)
(* hold however the operations of different connections interleave.        *)
(***************************************************************************)
EXTENDS CandidateReview, TLAPS

\* A memory row exists exactly when it has an owner, and the owner is a row too.
RowsOwned ==
    \A m \in Memory :
        /\ Fresh(m) <=> owner[m] = NoCandidate
        /\ ~Fresh(m) => cand[owner[m]] # "unseen"

\* The status column remembers quarantine until a reviewer rejects.
AdmissionKept ==
    \A k \in Candidate :
        /\ cand[k] = "unseen" => reviews[k] = <<>> /\ inbox[k] = "none"
        /\ admitted[k] = "quarantined" => cand[k] \in {"quarantined", "rejected"}

\* What a connection has read stays true enough until it writes.
ReadsKept ==
    \A c \in Conn :
        /\ op[c] # Idle => cand[op[c].target] # "unseen"
        /\ op[c].pc = "approveKnown" => \E m \in Memory : owner[m] = op[c].target
        /\ op[c].pc = "approveInsert" => admitted[op[c].target] # "quarantined"

Inv ==
    /\ TypeOK
    /\ RowsOwned
    /\ ItemFollowsMemory
    /\ AdmissionKept
    /\ ReadsKept
    /\ QuarantineHolds
    /\ MemoryHasDecision
    /\ PendingIsUnreviewed

----------------------------------------------------------------------------
\* The writes of an activation: the named ids become active memories of their
\* candidates (distinct and unused ids), and every other row is untouched.
LEMMA ActivateEffect ==
    ASSUME NEW ids, DOMAIN ids \subseteq Candidate,
           \A k \in DOMAIN ids : ids[k] \in Memory,
           TypeOK, Activate(ids)
    PROVE  /\ \A k \in DOMAIN ids :
                /\ Fresh(ids[k])
                /\ owner'[ids[k]] = k
                /\ status'[ids[k]] = "active"
                /\ item'[ids[k]] = "active"
           /\ \A m \in Memory : (\A k \in DOMAIN ids : ids[k] # m) =>
                /\ owner'[m] = owner[m]
                /\ status'[m] = status[m]
                /\ item'[m] = item[m]
           /\ owner' \in [Memory -> Candidate \cup {NoCandidate}]
           /\ status' \in [Memory -> MemoryStatus \cup {"absent"}]
           /\ item' \in [Memory -> MemoryStatus \cup {"absent"}]
<1>1. \A m \in Memory : (\E k \in DOMAIN ids : ids[k] = m) =>
        /\ owner'[m] \in DOMAIN ids
        /\ ids[owner'[m]] = m
  <2> SUFFICES ASSUME NEW m \in Memory, \E k \in DOMAIN ids : ids[k] = m
               PROVE  owner'[m] \in DOMAIN ids /\ ids[owner'[m]] = m
    OBVIOUS
  <2>1. owner'[m] = CHOOSE k \in DOMAIN ids : ids[k] = m
    BY DEF Activate
  <2> QED
    BY <2>1
<1>2. \A m \in Memory : (\A k \in DOMAIN ids : ids[k] # m) =>
        owner'[m] = owner[m] /\ status'[m] = status[m] /\ item'[m] = item[m]
  BY DEF Activate
<1>3. \A k \in DOMAIN ids : Fresh(ids[k]) /\ owner'[ids[k]] = k
  BY <1>1 DEF Activate
<1>4. \A k \in DOMAIN ids : status'[ids[k]] = "active" /\ item'[ids[k]] = "active"
  BY DEF Activate
<1>5. \A m \in Memory : owner'[m] \in Candidate \cup {NoCandidate}
  BY <1>1, <1>2 DEF TypeOK
<1>6. owner' \in [Memory -> Candidate \cup {NoCandidate}]
  <2>1. owner' = [m \in Memory |-> owner'[m]]
    BY DEF Activate
  <2> QED
    BY <2>1, <1>5
<1>7. /\ status' \in [Memory -> MemoryStatus \cup {"absent"}]
      /\ item' \in [Memory -> MemoryStatus \cup {"absent"}]
  BY DEF Activate, TypeOK, MemoryStatus
<1> QED
  BY <1>2, <1>3, <1>4, <1>6, <1>7

LEMMA InitInv == Init => Inv
  BY SentinelAssumption
     DEF Init, Inv, TypeOK, RowsOwned, ItemFollowsMemory, AdmissionKept, ReadsKept,
         QuarantineHolds, MemoryHasDecision, PendingIsUnreviewed, Fresh, MemoriesOf,
         Idle, Ops, CandidateStatus, Admission, MemoryStatus

\* Appending a review keeps the earlier ones.
LEMMA AppendReview ==
    ASSUME NEW k \in Candidate, NEW a \in {"approve", "reject"}, TypeOK, RecordReview(k, a)
    PROVE  /\ reviews' \in [Candidate -> Seq({"approve", "reject"})]
           /\ inbox' \in [Candidate -> {"none", "open", "acknowledged", "resolved"}]
           /\ \A l \in Candidate : l # k => reviews'[l] = reviews[l]
           /\ reviews'[k] # <<>>
           /\ \E i \in DOMAIN reviews'[k] : reviews'[k][i] = a
           /\ \A l \in Candidate : \A i \in DOMAIN reviews[l] :
                i \in DOMAIN reviews'[l] /\ reviews'[l][i] = reviews[l][i]
<1>1. reviews[k] \in Seq({"approve", "reject"})
  BY DEF TypeOK
<1>2. /\ reviews'[k] = Append(reviews[k], a)
      /\ \A l \in Candidate : l # k => reviews'[l] = reviews[l]
      /\ reviews' \in [Candidate -> Seq({"approve", "reject"})]
  BY <1>1 DEF RecordReview, TypeOK
<1>3. inbox' \in [Candidate -> {"none", "open", "acknowledged", "resolved"}]
  BY DEF RecordReview, TypeOK, Resolved
<1>4. /\ Len(reviews'[k]) = Len(reviews[k]) + 1
      /\ reviews'[k][Len(reviews[k]) + 1] = a
      /\ \A i \in DOMAIN reviews[k] :
           i \in DOMAIN reviews'[k] /\ reviews'[k][i] = reviews[k][i]
  BY <1>1, <1>2
<1>5. Len(reviews[k]) + 1 \in DOMAIN reviews'[k] /\ reviews'[k] # <<>>
  BY <1>1, <1>2, <1>4
<1> QED
  BY <1>2, <1>3, <1>4, <1>5

\* A commit on a candidate adds at most that candidate to the contended ones.
LEMMA CommitKeepsType ==
    ASSUME TypeOK, NEW c \in Conn, NEW k \in Candidate, CommitsOn(c, k)
    PROVE  contended' \subseteq Candidate
  BY DEF TypeOK, CommitsOn

LEMMA RememberInv ==
    ASSUME Inv, NEW c \in Conn, Remember(c)
    PROVE  Inv'
<1> USE DEF Inv
<1>0. PICK K \in (SUBSET {k \in Candidate : cand[k] = "unseen"}) \ {{}} :
        \E adm \in [K -> Admission] :
          /\ cand' = [k \in Candidate |-> IF k \in K THEN adm[k] ELSE cand[k]]
          /\ admitted' = [k \in Candidate |-> IF k \in K THEN adm[k] ELSE admitted[k]]
          /\ inbox' = [k \in Candidate |->
                         IF k \in K /\ adm[k] # "approved" THEN "open" ELSE inbox[k]]
          /\ \E ids \in [{k \in K : adm[k] = "approved"} -> Memory] : Activate(ids)
  BY DEF Remember
<1>1. PICK adm \in [K -> Admission] :
        /\ cand' = [k \in Candidate |-> IF k \in K THEN adm[k] ELSE cand[k]]
        /\ admitted' = [k \in Candidate |-> IF k \in K THEN adm[k] ELSE admitted[k]]
        /\ inbox' = [k \in Candidate |->
                       IF k \in K /\ adm[k] # "approved" THEN "open" ELSE inbox[k]]
        /\ \E ids \in [{k \in K : adm[k] = "approved"} -> Memory] : Activate(ids)
  BY <1>0
<1>2. PICK ids \in [{k \in K : adm[k] = "approved"} -> Memory] : Activate(ids)
  BY <1>1
<1>3. UNCHANGED <<reviews, contended, op>>
  BY DEF Remember
<1>4. DOMAIN ids = {k \in K : adm[k] = "approved"} /\ DOMAIN ids \subseteq Candidate
  OBVIOUS
<1>5. /\ \A k \in DOMAIN ids :
           /\ Fresh(ids[k]) /\ owner'[ids[k]] = k
           /\ status'[ids[k]] = "active" /\ item'[ids[k]] = "active"
      /\ \A m \in Memory : (\A k \in DOMAIN ids : ids[k] # m) =>
           owner'[m] = owner[m] /\ status'[m] = status[m] /\ item'[m] = item[m]
      /\ owner' \in [Memory -> Candidate \cup {NoCandidate}]
      /\ status' \in [Memory -> MemoryStatus \cup {"absent"}]
      /\ item' \in [Memory -> MemoryStatus \cup {"absent"}]
  BY <1>2, <1>4, ActivateEffect
<1>6. TypeOK'
  BY <1>1, <1>3, <1>5 DEF TypeOK, Admission, CandidateStatus
<1>7. \A k \in Candidate : cand[k] # "unseen" => k \notin K /\ cand'[k] = cand[k]
  BY <1>1
<1>8. \A k \in K : cand'[k] = adm[k] /\ admitted'[k] = adm[k] /\ cand'[k] # "unseen"
  BY <1>1 DEF Admission
<1>9. \A m \in Memory : ~Fresh(m) => owner[m] \in Candidate /\ owner[m] \notin K
  BY <1>7, SentinelAssumption DEF RowsOwned, TypeOK
<1>10. RowsOwned'
  <2>1. ASSUME NEW m \in Memory, \A k \in DOMAIN ids : ids[k] # m
        PROVE  /\ Fresh(m)' <=> owner'[m] = NoCandidate
               /\ ~Fresh(m)' => cand'[owner'[m]] # "unseen"
    <3>1. owner'[m] = owner[m] /\ status'[m] = status[m]
      BY <1>5, <2>1
    <3>2. ~Fresh(m) => owner[m] \in Candidate /\ cand[owner[m]] # "unseen"
      BY DEF RowsOwned, TypeOK
    <3> QED
      BY <1>7, <3>1, <3>2 DEF RowsOwned, Fresh
  <2>2. ASSUME NEW k \in DOMAIN ids
        PROVE  /\ ~Fresh(ids[k])'
               /\ owner'[ids[k]] # NoCandidate
               /\ cand'[owner'[ids[k]]] # "unseen"
    <3>1. k \in K /\ k \in Candidate
      BY <1>4, <2>2
    <3>2. owner'[ids[k]] = k /\ status'[ids[k]] = "active"
      BY <1>5, <2>2
    <3> QED
      BY <1>8, <3>1, <3>2, SentinelAssumption DEF Fresh
  <2>3. ASSUME NEW m \in Memory
        PROVE  /\ Fresh(m)' <=> owner'[m] = NoCandidate
               /\ ~Fresh(m)' => cand'[owner'[m]] # "unseen"
    <3>1. CASE \E k \in DOMAIN ids : ids[k] = m
      <4>1. PICK k \in DOMAIN ids : ids[k] = m
        BY <3>1
      <4> QED
        BY <2>2, <4>1
    <3>2. CASE \A k \in DOMAIN ids : ids[k] # m
      BY <2>1, <3>2
    <3> QED
      BY <3>1, <3>2
  <2> QED
    BY <2>3 DEF RowsOwned
<1>11. ItemFollowsMemory'
  <2>1. \A m \in Memory : item'[m] = status'[m]
    BY <1>5 DEF ItemFollowsMemory
  <2> QED
    BY <2>1, <1>5 DEF ItemFollowsMemory
<1>12. AdmissionKept'
  BY <1>1, <1>3, <1>6, <1>8 DEF AdmissionKept, TypeOK
<1>13. ReadsKept'
  <2> SUFFICES ASSUME NEW d \in Conn
               PROVE  /\ op[d] # Idle => cand'[op[d].target] # "unseen"
                      /\ op[d].pc = "approveKnown" =>
                           \E m \in Memory : owner'[m] = op[d].target
                      /\ op[d].pc = "approveInsert" => admitted'[op[d].target] # "quarantined"
    BY <1>3 DEF ReadsKept
  <2>1. CASE op[d] = Idle
    BY <2>1 DEF Idle
  <2>2. CASE op[d] # Idle
    <3>1. op[d].target \in Candidate /\ op[d].target \notin K
      BY <2>2, <1>7 DEF ReadsKept, TypeOK, Ops
    <3>2. /\ cand'[op[d].target] = cand[op[d].target]
          /\ admitted'[op[d].target] = admitted[op[d].target]
      BY <3>1, <1>1
    <3>3. \A m \in Memory : owner[m] = op[d].target => owner'[m] = owner[m]
      BY <3>1, <1>5, SentinelAssumption DEF RowsOwned
    <3> QED
      BY <2>2, <3>2, <3>3 DEF ReadsKept
  <2> QED
    BY <2>1, <2>2
<1>14. QuarantineHolds'
  <2> SUFFICES ASSUME NEW m \in Memory, ~Fresh(m)'
               PROVE  admitted'[owner'[m]] # "quarantined"
    BY DEF QuarantineHolds
  <2>1. CASE \E k \in DOMAIN ids : ids[k] = m
    BY <2>1, <1>4, <1>5, <1>8
  <2>2. CASE \A k \in DOMAIN ids : ids[k] # m
    BY <2>2, <1>1, <1>5, <1>9 DEF QuarantineHolds, Fresh
  <2> QED
    BY <2>1, <2>2
<1>15. MemoryHasDecision'
  <2> SUFFICES ASSUME NEW m \in Memory, ~Fresh(m)'
               PROVE  \/ admitted'[owner'[m]] = "approved"
                      \/ \E i \in DOMAIN reviews[owner'[m]] :
                           reviews[owner'[m]][i] = "approve"
    BY <1>3 DEF MemoryHasDecision
  <2>1. CASE \E k \in DOMAIN ids : ids[k] = m
    BY <2>1, <1>4, <1>5, <1>8
  <2>2. CASE \A k \in DOMAIN ids : ids[k] # m
    BY <2>2, <1>1, <1>5, <1>9 DEF MemoryHasDecision, Fresh
  <2> QED
    BY <2>1, <2>2
<1>16. PendingIsUnreviewed'
  <2> SUFFICES ASSUME NEW k \in Candidate, cand'[k] \in {"pending", "quarantined"}
               PROVE  reviews[k] = <<>> /\ \A m \in Memory : owner'[m] # k
    BY <1>3 DEF PendingIsUnreviewed, MemoriesOf
  <2>1. \A m \in Memory : (\E x \in DOMAIN ids : ids[x] = m) => owner'[m] # k
    BY <1>4, <1>5, <1>8
  <2>2. \A m \in Memory : (\A x \in DOMAIN ids : ids[x] # m) => owner'[m] # k
    <3>1. CASE k \in K
      BY <3>1, <1>5, <1>9, SentinelAssumption DEF RowsOwned
    <3>2. CASE k \notin K
      BY <3>2, <1>1, <1>5 DEF PendingIsUnreviewed, MemoriesOf
    <3> QED
      BY <3>1, <3>2
  <2>3. reviews[k] = <<>>
    BY <1>1 DEF AdmissionKept, PendingIsUnreviewed
  <2> QED
    BY <2>1, <2>2, <2>3
<1> QED
  BY <1>6, <1>10, <1>11, <1>12, <1>13, <1>14, <1>15, <1>16

\* A step that only moves one connection's program counter preserves Inv when
\* the new one is backed by the rows.
LEMMA ReadStep ==
    ASSUME Inv, UNCHANGED rows, NEW c \in Conn, NEW new \in Ops,
           op' = [op EXCEPT ![c] = new],
           new # Idle => cand[new.target] # "unseen",
           new.pc = "approveKnown" => \E m \in Memory : owner[m] = new.target,
           new.pc = "approveInsert" => admitted[new.target] # "quarantined"
    PROVE  Inv'
<1>1. UNCHANGED <<cand, admitted, owner, status, item, reviews, inbox, contended>>
  BY DEF rows
<1>2. TypeOK'
  BY <1>1 DEF Inv, TypeOK
<1>3. ReadsKept'
  BY <1>1 DEF Inv, TypeOK, ReadsKept
<1> QED
  BY <1>1, <1>2, <1>3
     DEF Inv, RowsOwned, ItemFollowsMemory, AdmissionKept, QuarantineHolds,
         MemoryHasDecision, PendingIsUnreviewed, Fresh, MemoriesOf

LEMMA ApproveReadsInv ==
    ASSUME Inv, NEW c \in Conn,
           (\E k \in Candidate : ApproveLookup(c, k)) \/ ApproveRow(c)
    PROVE  Inv'
<1>1. ASSUME NEW k \in Candidate, ApproveLookup(c, k)
      PROVE  Inv'
  <2> DEFINE new == InOp(IF MemoriesOf(k) = {} THEN "approveRow" ELSE "approveKnown", k)
  <2>1. new \in Ops /\ new.target = k /\ new.pc # "approveInsert"
    BY DEF Ops, InOp
  <2>2. new.pc = "approveKnown" => \E m \in Memory : owner[m] = k
    BY DEF InOp, MemoriesOf
  <2> HIDE DEF new
  <2>3. op' = [op EXCEPT ![c] = new] /\ cand[k] # "unseen" /\ UNCHANGED rows
    BY <1>1 DEF ApproveLookup, new
  <2> QED
    BY <2>1, <2>2, <2>3, ReadStep
<1>2. ASSUME ApproveRow(c)
      PROVE  Inv'
  <2> DEFINE k == op[c].target
             refused == cand[k] \in {"quarantined", "rejected"}
             new == IF refused THEN Idle ELSE InOp("approveInsert", k)
  <2>1. k \in Candidate /\ cand[k] # "unseen"
    BY <1>2 DEF ApproveRow, Inv, TypeOK, Ops, Idle, ReadsKept
  <2>2. new \in Ops /\ new.pc # "approveKnown"
    BY <2>1 DEF Ops, InOp, Idle
  <2>3. new # Idle => cand[new.target] # "unseen"
    BY <2>1 DEF InOp
  <2>4. new.pc = "approveInsert" => admitted[new.target] # "quarantined"
    BY <2>1 DEF InOp, Idle, Inv, AdmissionKept
  <2>5. op' = [op EXCEPT ![c] = new] /\ UNCHANGED rows
    BY <1>2 DEF ApproveRow
  <2> HIDE DEF new
  <2> QED
    BY <2>2, <2>3, <2>4, <2>5, ReadStep
<1> QED
  BY <1>1, <1>2

LEMMA OtherReadsInv ==
    ASSUME Inv, NEW c \in Conn,
           \/ \E k \in Candidate : RejectLookup(c, k) \/ AckRead(c, k)
           \/ Abandon(c)
    PROVE  Inv'
<1>1. ASSUME NEW k \in Candidate, RejectLookup(c, k)
      PROVE  Inv'
  <2> DEFINE new == InOp("rejecting", k)
  <2>1. new \in Ops /\ new.target = k /\ new.pc = "rejecting"
    BY DEF Ops, InOp
  <2>2. op' = [op EXCEPT ![c] = new] /\ cand[k] # "unseen" /\ UNCHANGED rows
    BY <1>1 DEF RejectLookup
  <2> HIDE DEF new
  <2> QED
    BY <2>1, <2>2, ReadStep
<1>2. ASSUME NEW k \in Candidate, AckRead(c, k)
      PROVE  Inv'
  <2> DEFINE new == InOp("acking", k)
  <2>1. new \in Ops /\ new.target = k /\ new.pc = "acking"
    BY DEF Ops, InOp
  <2>2. cand[k] # "unseen"
    BY <1>2 DEF AckRead, Undecided, Inv, AdmissionKept
  <2>3. op' = [op EXCEPT ![c] = new] /\ UNCHANGED rows
    BY <1>2 DEF AckRead
  <2> HIDE DEF new
  <2> QED
    BY <2>1, <2>2, <2>3, ReadStep
<1>3. ASSUME Abandon(c)
      PROVE  Inv'
  BY <1>3, ReadStep DEF Abandon, Ops, Idle
<1> QED
  BY <1>1, <1>2, <1>3

\* A transaction of connection c that leaves every other connection's facts alone:
\* candidates only move away from "unseen", and owners of existing rows stay.
LEMMA WriteKeepsReads ==
    ASSUME Inv, NEW c \in Conn, op' = [op EXCEPT ![c] = Idle], UNCHANGED admitted,
           \A k \in Candidate : cand[k] # "unseen" => cand'[k] # "unseen",
           \A m \in Memory : owner[m] # NoCandidate => owner'[m] = owner[m]
    PROVE  ReadsKept' /\ op' \in [Conn -> Ops]
<1>1. op' \in [Conn -> Ops]
  BY DEF Inv, TypeOK, Ops
<1>2. ASSUME NEW d \in Conn
      PROVE  /\ op'[d] # Idle => cand'[op'[d].target] # "unseen"
             /\ op'[d].pc = "approveKnown" => \E m \in Memory : owner'[m] = op'[d].target
             /\ op'[d].pc = "approveInsert" => admitted'[op'[d].target] # "quarantined"
  <2>1. CASE d = c
    BY <2>1 DEF Idle, Inv, TypeOK
  <2>2. CASE d # c
    <3>1. op'[d] = op[d]
      BY <2>2 DEF Inv, TypeOK
    <3>2. CASE op[d] = Idle
      BY <3>1, <3>2 DEF Idle
    <3>3. CASE op[d] # Idle
      <4>1. op[d].target \in Candidate
        BY <3>3 DEF Inv, TypeOK, Ops
      <4> QED
        BY <3>1, <3>3, <4>1, SentinelAssumption DEF Inv, ReadsKept
    <3> QED
      BY <3>2, <3>3
  <2> QED
    BY <2>1, <2>2
<1> QED
  BY <1>1, <1>2 DEF ReadsKept

LEMMA ApproveInsertInv ==
    ASSUME Inv, NEW c \in Conn, ApproveInsert(c)
    PROVE  Inv'
<1> USE DEF Inv
<1> DEFINE k == op[c].target
<1>1. k \in Candidate /\ cand[k] # "unseen" /\ admitted[k] # "quarantined"
  BY DEF ApproveInsert, TypeOK, Ops, Idle, ReadsKept
<1>2. PICK m \in Memory : Activate([x \in {k} |-> m])
  BY DEF ApproveInsert
<1>3. /\ cand' = [cand EXCEPT ![k] = "approved"]
      /\ RecordReview(k, "approve")
      /\ CommitsOn(c, k)
      /\ op' = [op EXCEPT ![c] = Idle]
      /\ UNCHANGED admitted
  BY DEF ApproveInsert
<1> DEFINE ids == [x \in {k} |-> m]
<1>4. DOMAIN ids = {k} /\ ids[k] = m
  OBVIOUS
<1> HIDE DEF ids, k
<1>5. /\ Fresh(m) /\ owner'[m] = k /\ status'[m] = "active" /\ item'[m] = "active"
      /\ \A n \in Memory : n # m =>
           owner'[n] = owner[n] /\ status'[n] = status[n] /\ item'[n] = item[n]
      /\ owner' \in [Memory -> Candidate \cup {NoCandidate}]
      /\ status' \in [Memory -> MemoryStatus \cup {"absent"}]
      /\ item' \in [Memory -> MemoryStatus \cup {"absent"}]
  <2>1. Activate(ids)
    BY <1>2 DEF ids
  <2> QED
    BY <1>1, <1>4, <2>1, ActivateEffect
<1>6. /\ reviews' \in [Candidate -> Seq({"approve", "reject"})]
      /\ inbox' \in [Candidate -> {"none", "open", "acknowledged", "resolved"}]
      /\ \A l \in Candidate : l # k => reviews'[l] = reviews[l]
      /\ \E i \in DOMAIN reviews'[k] : reviews'[k][i] = "approve"
      /\ \A l \in Candidate : \A i \in DOMAIN reviews[l] :
           i \in DOMAIN reviews'[l] /\ reviews'[l][i] = reviews[l][i]
  BY <1>1, <1>3, AppendReview
<1>7. /\ cand'[k] = "approved"
      /\ \A l \in Candidate : l # k => cand'[l] = cand[l]
      /\ cand' \in [Candidate -> CandidateStatus \cup {"unseen"}]
  BY <1>1, <1>3 DEF TypeOK, CandidateStatus, Admission
<1>8. ReadsKept' /\ op' \in [Conn -> Ops]
  BY <1>1, <1>3, <1>5, <1>7, WriteKeepsReads DEF RowsOwned
<1>9. TypeOK'
  <2>1. contended' \subseteq Candidate
    BY <1>1, <1>3, CommitKeepsType
  <2> QED
    BY <2>1, <1>3, <1>5, <1>6, <1>7, <1>8 DEF TypeOK
<1>10. RowsOwned'
  <2> SUFFICES ASSUME NEW n \in Memory
               PROVE  /\ Fresh(n)' <=> owner'[n] = NoCandidate
                      /\ ~Fresh(n)' => cand'[owner'[n]] # "unseen"
    BY DEF RowsOwned
  <2>1. CASE n = m
    BY <2>1, <1>1, <1>5, <1>7, SentinelAssumption DEF Fresh
  <2>2. CASE n # m
    <3>1. owner'[n] = owner[n] /\ status'[n] = status[n]
      BY <2>2, <1>5
    <3>2. ~Fresh(n) => owner[n] \in Candidate /\ cand[owner[n]] # "unseen"
      BY DEF RowsOwned, TypeOK
    <3> QED
      BY <3>1, <3>2, <1>7 DEF RowsOwned, Fresh
  <2> QED
    BY <2>1, <2>2
<1>11. ItemFollowsMemory'
  BY <1>5 DEF ItemFollowsMemory
<1>12. AdmissionKept'
  <2> SUFFICES ASSUME NEW l \in Candidate
               PROVE  /\ cand'[l] = "unseen" => reviews'[l] = <<>> /\ inbox'[l] = "none"
                      /\ admitted'[l] = "quarantined" => cand'[l] \in {"quarantined", "rejected"}
    BY DEF AdmissionKept
  <2>1. CASE l = k
    BY <2>1, <1>1, <1>3, <1>7
  <2>2. CASE l # k
    BY <2>2, <1>1, <1>3, <1>6, <1>7 DEF AdmissionKept, RecordReview
  <2> QED
    BY <2>1, <2>2
<1>13. QuarantineHolds'
  BY <1>1, <1>3, <1>5 DEF QuarantineHolds, Fresh
<1>14. MemoryHasDecision'
  <2> SUFFICES ASSUME NEW n \in Memory, ~Fresh(n)'
               PROVE  \/ admitted'[owner'[n]] = "approved"
                      \/ \E i \in DOMAIN reviews'[owner'[n]] :
                           reviews'[owner'[n]][i] = "approve"
    BY DEF MemoryHasDecision
  <2>1. CASE n = m
    BY <2>1, <1>5, <1>6
  <2>2. CASE n # m
    <3>1. owner[n] \in Candidate /\ ~Fresh(n)
      BY <2>2, <1>5 DEF RowsOwned, TypeOK, Fresh
    <3>2. owner'[n] = owner[n] /\ admitted'[owner[n]] = admitted[owner[n]]
      BY <2>2, <1>3, <1>5
    <3>3. \/ admitted[owner[n]] = "approved"
          \/ \E i \in DOMAIN reviews[owner[n]] : reviews[owner[n]][i] = "approve"
      BY <3>1 DEF MemoryHasDecision
    <3>4. (\E i \in DOMAIN reviews[owner[n]] : reviews[owner[n]][i] = "approve")
            => \E i \in DOMAIN reviews'[owner[n]] : reviews'[owner[n]][i] = "approve"
      <4> HIDE DEF MemoryHasDecision
      <4> QED
        BY <3>1, <1>6
    <3> QED
      BY <3>2, <3>3, <3>4
  <2> QED
    BY <2>1, <2>2
<1>15. PendingIsUnreviewed'
  <2> SUFFICES ASSUME NEW l \in Candidate, cand'[l] \in {"pending", "quarantined"}
               PROVE  reviews'[l] = <<>> /\ \A n \in Memory : owner'[n] # l
    BY DEF PendingIsUnreviewed, MemoriesOf
  <2>1. l # k /\ cand[l] \in {"pending", "quarantined"}
    BY <1>7
  <2>2. reviews[l] = <<>> /\ \A n \in Memory : owner[n] # l
    BY <2>1 DEF PendingIsUnreviewed, MemoriesOf
  <2>3. reviews'[l] = <<>>
    BY <2>1, <2>2, <1>6
  <2>4. \A n \in Memory : owner'[n] # l
    BY <2>1, <2>2, <1>5
  <2> QED
    BY <2>3, <2>4
<1> QED
  BY <1>8, <1>9, <1>10, <1>11, <1>12, <1>13, <1>14, <1>15

\* A recorded review that leaves memories alone and a candidate that exists either
\* untouched or rejected (ApproveKnown and RejectCommit).
LEMMA ReviewOnlyInv ==
    ASSUME Inv, NEW c \in Conn, NEW k \in Candidate, NEW a \in {"approve", "reject"},
           cand[k] # "unseen", RecordReview(k, a),
           cand' = [cand EXCEPT ![k] = IF a = "reject" THEN "rejected" ELSE cand[k]],
           a = "approve" => cand[k] \in {"approved", "rejected"},
           op' = [op EXCEPT ![c] = Idle], CommitsOn(c, k),
           UNCHANGED <<admitted, owner, status, item>>
    PROVE  Inv'
<1> USE DEF Inv
<1>1. /\ reviews' \in [Candidate -> Seq({"approve", "reject"})]
      /\ inbox' \in [Candidate -> {"none", "open", "acknowledged", "resolved"}]
      /\ \A l \in Candidate : l # k => reviews'[l] = reviews[l]
      /\ \A l \in Candidate : \A i \in DOMAIN reviews[l] :
           i \in DOMAIN reviews'[l] /\ reviews'[l][i] = reviews[l][i]
  BY AppendReview
<1>2. /\ cand'[k] \in {"approved", "rejected"}
      /\ a = "reject" => cand'[k] = "rejected"
      /\ a = "approve" => cand'[k] = cand[k]
      /\ \A l \in Candidate : l # k => cand'[l] = cand[l]
      /\ cand' \in [Candidate -> CandidateStatus \cup {"unseen"}]
  BY DEF TypeOK, CandidateStatus, Admission
<1>3. ReadsKept' /\ op' \in [Conn -> Ops]
  BY <1>2, WriteKeepsReads
<1>4. TypeOK'
  <2>1. contended' \subseteq Candidate
    BY CommitKeepsType
  <2> QED
    BY <2>1, <1>1, <1>2, <1>3 DEF TypeOK
<1>5. RowsOwned'
  <2> SUFFICES ASSUME NEW m \in Memory
               PROVE  /\ Fresh(m)' <=> owner'[m] = NoCandidate
                      /\ ~Fresh(m)' => cand'[owner'[m]] # "unseen"
    BY DEF RowsOwned
  <2>1. ~Fresh(m) => owner[m] \in Candidate
    BY DEF RowsOwned, TypeOK
  <2> QED
    BY <2>1, <1>2 DEF RowsOwned, Fresh
<1>6. AdmissionKept'
  <2> SUFFICES ASSUME NEW l \in Candidate
               PROVE  /\ cand'[l] = "unseen" => reviews'[l] = <<>> /\ inbox'[l] = "none"
                      /\ admitted'[l] = "quarantined" => cand'[l] \in {"quarantined", "rejected"}
    BY DEF AdmissionKept
  <2>1. CASE l = k
    BY <2>1, <1>2 DEF AdmissionKept
  <2>2. CASE l # k
    BY <2>2, <1>1, <1>2 DEF AdmissionKept, RecordReview
  <2> QED
    BY <2>1, <2>2
<1>7. MemoryHasDecision'
  <2> SUFFICES ASSUME NEW n \in Memory, ~Fresh(n), admitted[owner[n]] # "approved"
               PROVE  \E i \in DOMAIN reviews'[owner[n]] : reviews'[owner[n]][i] = "approve"
    BY DEF MemoryHasDecision, Fresh
  <2>1. owner[n] \in Candidate
    BY DEF RowsOwned, TypeOK
  <2>2. PICK i \in DOMAIN reviews[owner[n]] : reviews[owner[n]][i] = "approve"
    BY DEF MemoryHasDecision
  <2> QED
    BY <2>1, <2>2, <1>1
<1>8. PendingIsUnreviewed'
  <2> SUFFICES ASSUME NEW l \in Candidate, cand'[l] \in {"pending", "quarantined"}
               PROVE  reviews'[l] = <<>> /\ MemoriesOf(l) = {}
    BY DEF PendingIsUnreviewed, MemoriesOf
  <2>1. l # k /\ cand[l] \in {"pending", "quarantined"}
    BY <1>2
  <2> QED
    BY <2>1, <1>1 DEF PendingIsUnreviewed
<1> QED
  BY <1>3, <1>4, <1>5, <1>6, <1>7, <1>8
     DEF ItemFollowsMemory, QuarantineHolds, Fresh

LEMMA ReviewCommitsInv ==
    ASSUME Inv, NEW c \in Conn, ApproveKnown(c) \/ RejectCommit(c)
    PROVE  Inv'
<1> DEFINE k == op[c].target
<1>1. k \in Candidate /\ cand[k] # "unseen"
  BY DEF ApproveKnown, RejectCommit, Inv, TypeOK, Ops, Idle, ReadsKept
<1>2. CASE ApproveKnown(c)
  <2>1. MemoriesOf(k) # {}
    BY <1>2 DEF ApproveKnown, Inv, ReadsKept, MemoriesOf
  <2>2. cand[k] \in {"approved", "rejected"}
    BY <1>1, <2>1 DEF Inv, PendingIsUnreviewed, TypeOK, CandidateStatus, Admission
  <2>3. cand' = [cand EXCEPT ![k] = IF "approve" = "reject" THEN "rejected" ELSE cand[k]]
    BY <1>2, <1>1 DEF ApproveKnown, Inv, TypeOK
  <2>4. /\ RecordReview(k, "approve") /\ op' = [op EXCEPT ![c] = Idle] /\ CommitsOn(c, k)
        /\ UNCHANGED <<admitted, owner, status, item>>
    BY <1>2 DEF ApproveKnown
  <2> HIDE DEF k
  <2> QED
    BY <1>1, <2>2, <2>3, <2>4, ReviewOnlyInv
<1>3. CASE RejectCommit(c)
  <2>1. /\ RecordReview(k, "reject") /\ op' = [op EXCEPT ![c] = Idle] /\ CommitsOn(c, k)
        /\ cand' = [cand EXCEPT ![k] = IF "reject" = "reject" THEN "rejected" ELSE cand[k]]
        /\ UNCHANGED <<admitted, owner, status, item>>
    BY <1>3 DEF RejectCommit
  <2> HIDE DEF k
  <2> QED
    BY <1>1, <2>1, ReviewOnlyInv
<1> QED
  BY <1>2, <1>3

LEMMA LifecycleInv ==
    ASSUME Inv, NEW c \in Conn,
           \/ \E m \in Memory, s \in Retired : Deactivate(c, m, s)
           \/ \E old, new \in Memory : Supersede(c, old, new)
    PROVE  Inv'
<1>1. PICK m \in Memory, s \in Inactive :
        /\ ~Fresh(m) /\ SetStatus(m, s) /\ CommitsOn(c, owner[m])
        /\ UNCHANGED <<cand, admitted, owner, reviews, inbox, op>>
  BY DEF Deactivate, Supersede, Inactive
<1>2. /\ \A n \in Memory : (status'[n] = "absent") <=> (status[n] = "absent")
      /\ status' \in [Memory -> MemoryStatus \cup {"absent"}]
      /\ item' \in [Memory -> MemoryStatus \cup {"absent"}]
      /\ item' = status'
  BY <1>1 DEF SetStatus, Inv, TypeOK, ItemFollowsMemory, Fresh, MemoryStatus, Inactive, Retired
<1>0. contended' \subseteq Candidate
  <2>1. owner[m] \in Candidate
    BY <1>1 DEF Inv, TypeOK, RowsOwned
  <2> QED
    BY <1>1, <2>1, CommitKeepsType DEF Inv
<1>3. TypeOK' /\ RowsOwned' /\ ItemFollowsMemory' /\ AdmissionKept' /\ ReadsKept'
  BY <1>0, <1>1, <1>2 DEF Inv, TypeOK, RowsOwned, ItemFollowsMemory, AdmissionKept, ReadsKept,
     Fresh
<1>4. QuarantineHolds' /\ MemoryHasDecision' /\ PendingIsUnreviewed'
  BY <1>1, <1>2 DEF Inv, QuarantineHolds, MemoryHasDecision, PendingIsUnreviewed, Fresh, MemoriesOf
<1> QED
  BY <1>3, <1>4 DEF Inv

LEMMA InboxInv ==
    ASSUME Inv, NEW c \in Conn,
           AckCommit(c) \/ \E k \in Candidate : ResolveNotification(c, k)
    PROVE  Inv'
<1>1. PICK k \in Candidate, n \in {"acknowledged", "resolved"} :
        cand[k] # "unseen" /\ inbox' = [inbox EXCEPT ![k] = n] /\ CommitsOn(c, k)
  <2>1. CASE AckCommit(c)
    <3>1. op[c].target \in Candidate /\ cand[op[c].target] # "unseen"
      BY <2>1 DEF AckCommit, Inv, TypeOK, Ops, Idle, ReadsKept
    <3>2. inbox' = [inbox EXCEPT ![op[c].target] = "acknowledged"] /\ CommitsOn(c, op[c].target)
      BY <2>1 DEF AckCommit
    <3> QED
      BY <3>1, <3>2
  <2>2. CASE \E k \in Candidate : ResolveNotification(c, k)
    <3>1. PICK k \in Candidate : ResolveNotification(c, k)
      BY <2>2
    <3>2. cand[k] # "unseen" /\ inbox' = [inbox EXCEPT ![k] = "resolved"] /\ CommitsOn(c, k)
      BY <3>1 DEF ResolveNotification, Undecided, Inv, AdmissionKept
    <3> QED
      BY <3>2
  <2> QED
    BY <2>1, <2>2
<1>2. /\ UNCHANGED <<cand, admitted, owner, status, item, reviews>>
      /\ op' = op \/ op' = [op EXCEPT ![c] = Idle]
  BY DEF AckCommit, ResolveNotification
<1>3. ReadsKept' /\ op' \in [Conn -> Ops]
  <2>1. CASE op' = op
    BY <2>1, <1>2 DEF Inv, ReadsKept, TypeOK
  <2>2. CASE op' = [op EXCEPT ![c] = Idle]
    BY <2>2, <1>2, WriteKeepsReads
  <2> QED
    BY <1>2, <2>1, <2>2
<1>4. TypeOK' /\ AdmissionKept'
  <2>1. contended' \subseteq Candidate
    BY <1>1, CommitKeepsType DEF Inv
  <2> QED
    BY <2>1, <1>1, <1>2, <1>3 DEF Inv, TypeOK, AdmissionKept
<1> QED
  BY <1>2, <1>3, <1>4 DEF Inv, RowsOwned, ItemFollowsMemory, QuarantineHolds,
     MemoryHasDecision, PendingIsUnreviewed, Fresh, MemoriesOf

LEMMA NextInv == Inv /\ [Next]_vars => Inv'
<1> SUFFICES ASSUME Inv, [Next]_vars
             PROVE  Inv'
  OBVIOUS
<1>1. CASE UNCHANGED vars
  BY <1>1 DEF vars, Inv, TypeOK, RowsOwned, ItemFollowsMemory, AdmissionKept, ReadsKept,
     QuarantineHolds, MemoryHasDecision, PendingIsUnreviewed, Fresh, MemoriesOf
<1>2. CASE Next
  BY <1>2, RememberInv, ApproveReadsInv, ApproveInsertInv, ReviewCommitsInv,
     OtherReadsInv, LifecycleInv, InboxInv DEF Next
<1> QED
  BY <1>1, <1>2

\* Whatever the connections interleave, the tables stay well formed.
THEOREM TypeCorrect == Spec => []TypeOK
<1>1. Inv => TypeOK
  BY DEF Inv
<1> QED
  BY <1>1, InitInv, NextInv, PTL DEF Spec

\* Quarantined content never becomes a memory, for any number of connections.
THEOREM QuarantineSafe == Spec => []QuarantineHolds
<1>1. Inv => QuarantineHolds
  BY DEF Inv
<1> QED
  BY <1>1, InitInv, NextInv, PTL DEF Spec

\* Every memory has a decision behind it, and its item shares its status.
THEOREM DecisionSafe == Spec => [](MemoryHasDecision /\ ItemFollowsMemory)
<1>1. Inv => MemoryHasDecision /\ ItemFollowsMemory
  BY DEF Inv
<1> QED
  BY <1>1, InitInv, NextInv, PTL DEF Spec

\* A candidate that still waits for review has neither a review nor a memory.
THEOREM PendingSafe == Spec => []PendingIsUnreviewed
<1>1. Inv => PendingIsUnreviewed
  BY DEF Inv
<1> QED
  BY <1>1, InitInv, NextInv, PTL DEF Spec

\* The four together: every memory and item goes back to a decision, and none is lost.
THEOREM DecisionsSafe == Spec => []DecisionsHold
<1>1. Inv => DecisionsHold
  BY DEF Inv, DecisionsHold
<1> QED
  BY <1>1, InitInv, NextInv, PTL DEF Spec

\* No operation, in any interleaving, makes a retired memory active again.
THEOREM RetiredSafe == Spec => RetiredStaysRetired
<1> DEFINE Stays == \A m \in Memory : status[m] \in Inactive => status'[m] \in Inactive
<1>1. ASSUME Inv, Next
      PROVE  Stays
  <2> SUFFICES ASSUME NEW m \in Memory, status[m] \in Inactive
               PROVE  status'[m] \in Inactive
    OBVIOUS
  <2>1. ~Fresh(m) /\ "absent" \notin Inactive
    BY DEF Fresh, Inactive, Retired
  <2>2. ASSUME NEW ids, Activate(ids)
        PROVE  status'[m] = status[m]
    BY <2>1, <2>2 DEF Activate
  <2>3. ASSUME NEW n \in Memory, NEW s \in Inactive, SetStatus(n, s)
        PROVE  status'[m] \in Inactive
    BY <2>3 DEF SetStatus, Inv, TypeOK
  <2>4. PICK c \in Conn :
          \/ Remember(c)
          \/ ApproveInsert(c)
          \/ \E n \in Memory, s \in Retired : Deactivate(c, n, s)
          \/ \E old, new \in Memory : Supersede(c, old, new)
          \/ UNCHANGED status
    BY <1>1 DEF Next, rows, ApproveLookup, ApproveRow, ApproveKnown, RejectLookup,
       RejectCommit, AckRead, AckCommit, ResolveNotification, Abandon
  <2>5. CASE Remember(c)
    BY <2>2, <2>5 DEF Remember
  <2>6. CASE ApproveInsert(c)
    BY <2>2, <2>6 DEF ApproveInsert
  <2>7. CASE \E n \in Memory, s \in Retired : Deactivate(c, n, s)
    BY <2>3, <2>7 DEF Deactivate, Inactive
  <2>8. CASE \E old, new \in Memory : Supersede(c, old, new)
    BY <2>3, <2>8 DEF Supersede, Inactive
  <2>9. CASE UNCHANGED status
    BY <2>9
  <2> QED
    BY <2>4, <2>5, <2>6, <2>7, <2>8, <2>9
<1>2. Inv /\ [Next]_vars => [Stays]_vars
  BY <1>1
<1> QED
  BY <1>2, InitInv, NextInv, PTL DEF Spec, RetiredStaysRetired

----------------------------------------------------------------------------
(***************************************************************************)
(* One candidate whose own operations have not overlapped.  What a         *)
(* connection has read about it cannot change before the connection        *)
(* writes: a commit in between would have contended it.  That is what      *)
(* IsolatedInv adds to Inv, and the tables then implement ReviewContract.  *)
(***************************************************************************)
RowsSound(k) ==
    /\ \A m, n \in Memory : ~Fresh(m) /\ owner[m] = k /\ owner[n] = k => m = n
    /\ \A m \in Memory : status[m] = "active" /\ owner[m] = k => cand[k] = "approved"
    /\ cand[k] = "approved" => \E m \in Memory : owner[m] = k
    /\ cand[k] \in {"approved", "rejected"} => inbox[k] \notin Undecided

ReadsExact(k) ==
    \A c \in Conn : op[c].target = k =>
        /\ op[c].pc \in {"approveRow", "approveInsert"} => \A m \in Memory : owner[m] # k
        /\ op[c].pc = "approveInsert" => cand[k] = "pending"
        /\ op[c].pc = "rejecting" => \A m \in Memory : owner[m] = k => status[m] # "active"
        /\ op[c].pc = "acking" => inbox[k] \in Undecided

IsolatedInv ==
    /\ \A k \in contended : cand[k] # "unseen"
    /\ \A k \in Candidate \ contended : RowsSound(k) /\ ReadsExact(k)

StageMap == [k \in Candidate |-> Stage(k)]

LEMMA InitIsolatedInv == Init => IsolatedInv
  BY SentinelAssumption
     DEF Init, IsolatedInv, RowsSound, ReadsExact, Fresh, Idle, Undecided

LEMMA IsolatedProperties ==
    ASSUME Inv, IsolatedInv
    PROVE  OneMemoryPerCandidate /\ ActiveIsApproved /\ DecidedLeavesInbox
<1>1. \A m \in Memory : ~Fresh(m) => owner[m] \in Candidate
  BY DEF Inv, RowsOwned, TypeOK
<1>2. OneMemoryPerCandidate
  BY <1>1 DEF IsolatedInv, RowsSound, OneMemoryPerCandidate
<1>3. ActiveIsApproved
  <2>1. \A m \in Memory : status[m] = "active" => owner[m] \in Candidate
    BY <1>1 DEF Fresh
  <2> QED
    BY <2>1 DEF IsolatedInv, RowsSound, ActiveIsApproved
<1>4. DecidedLeavesInbox
  BY DEF IsolatedInv, RowsSound, DecidedLeavesInbox
<1> QED
  BY <1>2, <1>3, <1>4

\* The value of Stage, case by case, before and after a step.
LEMMA StageOf ==
    ASSUME NEW k \in Candidate, k \notin contended
    PROVE  /\ cand[k] = "unseen" => Stage(k) = "unseen"
           /\ cand[k] = "pending" => Stage(k) = "open"
           /\ cand[k] = "quarantined" => Stage(k) = "blocked"
           /\ Reviewed(k) /\ HasActive(k) => Stage(k) = "live"
           /\ Reviewed(k) /\ ~HasActive(k) => Stage(k) = "closed"
  BY DEF Stage, Reviewed

LEMMA StageOfNext ==
    ASSUME NEW k \in Candidate, k \notin contended'
    PROVE  /\ cand'[k] = "pending" => Stage(k)' = "open"
           /\ cand'[k] = "quarantined" => Stage(k)' = "blocked"
           /\ Reviewed(k)' /\ HasActive(k)' => Stage(k)' = "live"
           /\ Reviewed(k)' /\ ~HasActive(k)' => Stage(k)' = "closed"
  BY DEF Stage, Reviewed

LEMMA ContendedStage ==
    ASSUME TypeOK, NEW k \in Candidate
    PROVE  /\ k \in contended' => Stage(k)' = "contended"
           /\ k \in contended => Stage(k) = "contended"
           /\ k \notin contended => Stage(k) # "contended"
<1>1. k \in contended' => Stage(k)' = "contended"
  BY DEF Stage
<1>2. k \in contended => Stage(k) = "contended"
  BY DEF Stage
<1>3. ASSUME k \notin contended
      PROVE  Stage(k) # "contended"
  <2>1. \/ cand[k] \in {"unseen", "pending", "quarantined"}
        \/ Reviewed(k) /\ HasActive(k)
        \/ Reviewed(k) /\ ~HasActive(k)
    BY DEF TypeOK, CandidateStatus, Admission, Reviewed
  <2> QED
    BY <1>3, <2>1, StageOf
<1> QED
  BY <1>1, <1>2, <1>3

\* A step that leaves the rows and the reads of a candidate alone leaves its facts
\* and its stage alone.
LEMMA Untouched ==
    ASSUME NEW l \in Candidate,
           cand'[l] = cand[l], inbox'[l] = inbox[l], l \in contended' <=> l \in contended,
           \A m \in Memory : owner'[m] = l <=> owner[m] = l,
           \A m \in Memory : owner[m] = l => status'[m] = status[m],
           \A d \in Conn : op'[d].target = l => op'[d] = op[d]
    PROVE  /\ Stage(l)' = Stage(l)
           /\ RowsSound(l) => RowsSound(l)'
           /\ ReadsExact(l) => ReadsExact(l)'
<1>1. HasActive(l)' <=> HasActive(l)
  BY DEF HasActive, MemoriesOf
<1>2. Reviewed(l)' <=> Reviewed(l)
  BY DEF Reviewed
<1>3. Stage(l)' = Stage(l)
  <2>1. CASE l \in contended
    BY <2>1 DEF Stage
  <2>2. CASE l \notin contended
    BY <1>1, <1>2, <2>2 DEF Stage
  <2> QED
    BY <2>1, <2>2
<1>4. RowsSound(l) => RowsSound(l)'
  BY DEF RowsSound, Fresh
<1>5. ReadsExact(l) => ReadsExact(l)'
  BY DEF ReadsExact
<1> QED
  BY <1>3, <1>4, <1>5

----------------------------------------------------------------------------
\* The step lemmas: each step keeps IsolatedInv and is a step of the contract or
\* leaves every stage as it is.

\* An unlocked read, or giving up.
LEMMA IsolatedReads ==
    ASSUME Inv, IsolatedInv, NEW c \in Conn,
           \/ \E k \in Candidate : ApproveLookup(c, k) \/ RejectLookup(c, k) \/ AckRead(c, k)
           \/ ApproveRow(c)
           \/ Abandon(c)
    PROVE  IsolatedInv' /\ StageMap' = StageMap
<1>1. UNCHANGED <<cand, admitted, owner, status, item, reviews, inbox, contended>>
  BY DEF ApproveLookup, RejectLookup, AckRead, ApproveRow, Abandon, rows
<1>2. \A d \in Conn : d # c => op'[d] = op[d]
  BY DEF ApproveLookup, RejectLookup, AckRead, ApproveRow, Abandon, Inv, TypeOK
<1>3. ASSUME NEW k \in Candidate \ contended, op'[c].target = k
      PROVE  /\ op'[c].pc \in {"approveRow", "approveInsert"} => \A m \in Memory : owner[m] # k
             /\ op'[c].pc = "approveInsert" => cand[k] = "pending"
             /\ op'[c].pc = "rejecting" => \A m \in Memory : owner[m] = k => status[m] # "active"
             /\ op'[c].pc = "acking" => inbox[k] \in Undecided
  <2>1. CASE \E l \in Candidate : ApproveLookup(c, l)
    <3>1. PICK l \in Candidate : ApproveLookup(c, l)
      BY <2>1
    <3>2. op'[c] = InOp(IF MemoriesOf(l) = {} THEN "approveRow" ELSE "approveKnown", l)
      BY <3>1 DEF ApproveLookup, Inv, TypeOK
    <3>3. l = k
      BY <1>3, <3>2 DEF InOp
    <3>4. CASE MemoriesOf(k) = {}
      <4>1. op'[c].pc = "approveRow" /\ \A m \in Memory : owner[m] # k
        BY <3>2, <3>3, <3>4 DEF InOp, MemoriesOf
      <4> QED
        BY <4>1
    <3>5. CASE MemoriesOf(k) # {}
      <4>1. op'[c].pc = "approveKnown"
        BY <3>2, <3>3, <3>5 DEF InOp
      <4> QED
        BY <4>1
    <3> QED
      BY <3>4, <3>5
  <2>2. CASE \E l \in Candidate : RejectLookup(c, l)
    BY <1>3, <2>2 DEF RejectLookup, InOp, Inv, TypeOK, MemoriesOf
  <2>3. CASE \E l \in Candidate : AckRead(c, l)
    BY <1>3, <2>3 DEF AckRead, InOp, Inv, TypeOK
  <2>4. CASE Abandon(c)
    BY <1>3, <2>4, SentinelAssumption DEF Abandon, Idle, Inv, TypeOK
  <2>5. CASE ApproveRow(c)
    <3>1. op'[c] = Idle \/ (op'[c] = InOp("approveInsert", op[c].target)
                              /\ cand[op[c].target] \notin {"quarantined", "rejected"})
      BY <2>5 DEF ApproveRow, Inv, TypeOK
    <3>2. op'[c] # Idle
      BY <1>3, SentinelAssumption DEF Idle
    <3>3. op'[c].pc = "approveInsert" /\ op[c].target = k /\ cand[k] \notin {"quarantined", "rejected"}
      BY <1>3, <3>1, <3>2 DEF InOp
    <3>4. \A m \in Memory : owner[m] # k
      BY <2>5, <3>3 DEF ApproveRow, IsolatedInv, ReadsExact
    <3>5. cand[k] # "approved"
      BY <3>4 DEF IsolatedInv, RowsSound
    <3>6. cand[k] # "unseen"
      BY <2>5, <3>3 DEF ApproveRow, Idle, Inv, ReadsKept
    <3>7. cand[k] = "pending"
      BY <3>3, <3>5, <3>6 DEF Inv, TypeOK, CandidateStatus, Admission
    <3> QED
      BY <3>3, <3>4, <3>7
  <2> QED
    BY <2>1, <2>2, <2>3, <2>4, <2>5
<1>4. ASSUME NEW k \in Candidate \ contended
      PROVE  ReadsExact(k)'
  <2> SUFFICES ASSUME NEW d \in Conn, op'[d].target = k
               PROVE
          /\ op'[d].pc \in {"approveRow", "approveInsert"} => \A m \in Memory : owner[m] # k
          /\ op'[d].pc = "approveInsert" => cand[k] = "pending"
          /\ op'[d].pc = "rejecting" => \A m \in Memory : owner[m] = k => status[m] # "active"
          /\ op'[d].pc = "acking" => inbox[k] \in Undecided
    BY <1>1 DEF ReadsExact
  <2>1. CASE d = c
    BY <2>1, <1>3
  <2>2. CASE d # c
    BY <2>2, <1>2 DEF IsolatedInv, ReadsExact
  <2> QED
    BY <2>1, <2>2
<1>5. IsolatedInv'
  BY <1>1, <1>4 DEF IsolatedInv, RowsSound, Fresh
<1>6. StageMap' = StageMap
  BY <1>1 DEF StageMap, Stage, Reviewed, HasActive, MemoriesOf
<1> QED
  BY <1>5, <1>6

\* What a commit on candidate k by connection c leaves to be shown: that the rows
\* of k are sound when nobody else was in the middle of an operation on k.
LEMMA CommitFrame ==
    ASSUME Inv, IsolatedInv, NEW c \in Conn, NEW k \in Candidate, CommitsOn(c, k),
           op' = op \/ op' = [op EXCEPT ![c] = Idle], op'[c] = Idle,
           cand'[k] # "unseen",
           \A l \in Candidate : l # k => cand'[l] = cand[l] /\ inbox'[l] = inbox[l],
           \A l \in Candidate : l # k => \A m \in Memory :
             /\ owner'[m] = l <=> owner[m] = l
             /\ owner[m] = l => status'[m] = status[m],
           k \notin contended' => RowsSound(k)'
    PROVE  IsolatedInv' /\ \A l \in Candidate : l # k => Stage(l)' = Stage(l)
<1>1. \A l \in Candidate : l # k => (l \in contended' <=> l \in contended)
  BY DEF CommitsOn
<1>2. contended' \subseteq contended \cup {k}
  BY DEF CommitsOn
<1>3. \A d \in Conn : op'[d].target \in Candidate => d # c /\ op'[d] = op[d]
  BY SentinelAssumption DEF Idle, Inv, TypeOK
<1>4. ASSUME NEW l \in Candidate, l # k
      PROVE  /\ Stage(l)' = Stage(l)
             /\ l \notin contended' => RowsSound(l)' /\ ReadsExact(l)'
  BY <1>1, <1>3, <1>4, Untouched DEF IsolatedInv
<1>5. ASSUME k \notin contended'
      PROVE  ReadsExact(k)'
  <2>1. \A d \in Conn : d # c => op[d].target # k
    BY <1>5 DEF CommitsOn
  <2>2. \A d \in Conn : op'[d].target # k
    BY <1>3, <2>1
  <2> QED
    BY <2>2 DEF ReadsExact
<1>6. \A l \in contended' : cand'[l] # "unseen"
  BY <1>2 DEF IsolatedInv, Inv, TypeOK
<1> QED
  BY <1>4, <1>5, <1>6 DEF IsolatedInv

\* A commit beside another operation on the candidate contends it.
LEMMA ContendStep ==
    ASSUME TypeOK, NEW k \in Candidate, k \in contended',
           \A l \in Candidate : l # k => Stage(l)' = Stage(l)
    PROVE  [Contract!Next]_StageMap
<1>1. Stage(k)' = "contended"
  BY ContendedStage
<1>2. CASE Stage(k) = "contended"
  BY <1>1, <1>2 DEF StageMap
<1>3. CASE Stage(k) # "contended"
  <2>1. StageMap' = [StageMap EXCEPT ![k] = "contended"] /\ StageMap[k] # "contended"
    BY <1>1, <1>3 DEF StageMap
  <2>2. Contract!Contend(k)
    BY <2>1 DEF Contract!Contend, StageMap
  <2> QED
    BY <2>2 DEF Contract!Next
<1> QED
  BY <1>2, <1>3

\* A recorded event: every proposed candidate starts out sound, the others are
\* untouched.
LEMMA IsolatedRemember ==
    ASSUME Inv, Inv', IsolatedInv, NEW c \in Conn, Remember(c)
    PROVE  IsolatedInv' /\ [Contract!Next]_StageMap
<1>0. PICK K \in (SUBSET {k \in Candidate : cand[k] = "unseen"}) \ {{}} :
        \E adm \in [K -> Admission] :
          /\ cand' = [k \in Candidate |-> IF k \in K THEN adm[k] ELSE cand[k]]
          /\ admitted' = [k \in Candidate |-> IF k \in K THEN adm[k] ELSE admitted[k]]
          /\ inbox' = [k \in Candidate |->
                         IF k \in K /\ adm[k] # "approved" THEN "open" ELSE inbox[k]]
          /\ \E ids \in [{k \in K : adm[k] = "approved"} -> Memory] : Activate(ids)
  BY DEF Remember
<1>1. PICK adm \in [K -> Admission] :
        /\ cand' = [k \in Candidate |-> IF k \in K THEN adm[k] ELSE cand[k]]
        /\ inbox' = [k \in Candidate |->
                       IF k \in K /\ adm[k] # "approved" THEN "open" ELSE inbox[k]]
        /\ \E ids \in [{k \in K : adm[k] = "approved"} -> Memory] : Activate(ids)
  BY <1>0
<1>2. PICK ids \in [{k \in K : adm[k] = "approved"} -> Memory] : Activate(ids)
  BY <1>1
<1>3. DOMAIN ids = {k \in K : adm[k] = "approved"} /\ DOMAIN ids \subseteq Candidate
  OBVIOUS
<1>4. /\ \A k \in DOMAIN ids :
           /\ ids[k] \in Memory /\ Fresh(ids[k])
           /\ owner'[ids[k]] = k /\ status'[ids[k]] = "active"
      /\ \A m \in Memory : (\A k \in DOMAIN ids : ids[k] # m) =>
           owner'[m] = owner[m] /\ status'[m] = status[m]
  BY <1>2, <1>3, ActivateEffect DEF Inv
<1>5. /\ K \in (SUBSET Candidate) \ {{}}
      /\ \A k \in K : cand'[k] = adm[k] /\ cand[k] = "unseen"
      /\ \A k \in Candidate \ K : cand'[k] = cand[k] /\ inbox'[k] = inbox[k]
      /\ \A k \in K : adm[k] = "approved" => inbox'[k] = "none"
  BY <1>1 DEF Inv, AdmissionKept
<1>6. \A m \in Memory : ~Fresh(m) => owner[m] \in Candidate /\ owner[m] \notin K
  BY <1>5 DEF Inv, RowsOwned, TypeOK
<1>7. \A m \in Memory : ~Fresh(m) => owner'[m] = owner[m] /\ status'[m] = status[m]
  BY <1>4 DEF Fresh
<1>8. \A m \in Memory : Fresh(m) /\ owner'[m] # NoCandidate =>
        owner'[m] \in DOMAIN ids /\ ids[owner'[m]] = m
  BY <1>4 DEF Inv, RowsOwned
<1>9. UNCHANGED <<contended, op>>
  BY DEF Remember
<1>10. \A k \in K : k \notin contended
  BY <1>5 DEF IsolatedInv
<1>11. ASSUME NEW l \in Candidate \ K
       PROVE  /\ Stage(l)' = Stage(l)
              /\ RowsSound(l) => RowsSound(l)'
              /\ ReadsExact(l) => ReadsExact(l)'
  <2>1. \A m \in Memory : (owner'[m] = l <=> owner[m] = l)
                          /\ (owner[m] = l => status'[m] = status[m])
    <3> SUFFICES ASSUME NEW m \in Memory
                 PROVE  (owner'[m] = l <=> owner[m] = l)
                        /\ (owner[m] = l => status'[m] = status[m])
      OBVIOUS
    <3>1. CASE ~Fresh(m)
      BY <3>1, <1>7
    <3>2. CASE Fresh(m)
      <4>1. owner[m] = NoCandidate
        BY <3>2 DEF Inv, RowsOwned
      <4> QED
        BY <3>2, <4>1, <1>3, <1>8, SentinelAssumption
    <3> QED
      BY <3>1, <3>2
  <2> QED
    BY <2>1, <1>5, <1>9, Untouched
<1>12. ASSUME NEW k \in K
       PROVE  RowsSound(k)' /\ ReadsExact(k)'
  <2>1. \A m \in Memory : owner'[m] = k => k \in DOMAIN ids /\ ids[k] = m
    BY <1>5, <1>6, <1>7, <1>8, SentinelAssumption
  <2>2. k \in DOMAIN ids => adm[k] = "approved" /\ cand'[k] = "approved"
    BY <1>3, <1>5
  <2>3. cand'[k] = "approved" => \E m \in Memory : owner'[m] = k
    BY <1>3, <1>4, <1>5
  <2>4. cand'[k] \in {"approved", "rejected"} => inbox'[k] \notin Undecided
    BY <1>5 DEF Admission, Undecided
  <2>5. RowsSound(k)'
    BY <2>1, <2>2, <2>3, <2>4 DEF RowsSound
  <2>6. \A d \in Conn : op[d].target # k
    BY <1>5, SentinelAssumption DEF Inv, ReadsKept, Idle
  <2> QED
    BY <2>5, <2>6, <1>9 DEF ReadsExact
<1>13. IsolatedInv'
  <2>1. \A k \in contended' : cand'[k] # "unseen"
    BY <1>5, <1>9, <1>10 DEF IsolatedInv, Inv, TypeOK
  <2>2. \A k \in Candidate \ contended' : RowsSound(k)' /\ ReadsExact(k)'
    BY <1>9, <1>11, <1>12 DEF IsolatedInv
  <2> QED
    BY <2>1, <2>2 DEF IsolatedInv
<1>14. Contract!Propose
  <2> DEFINE first == [k \in K |-> CASE adm[k] = "pending" -> "open"
                                     [] adm[k] = "quarantined" -> "blocked"
                                     [] adm[k] = "approved" -> "live"]
  <2>1. first \in [K -> {"open", "blocked", "live"}]
    BY DEF Admission
  <2>2. \A k \in K : Stage(k) = "unseen" /\ Stage(k)' = first[k]
    <3> SUFFICES ASSUME NEW k \in K
                 PROVE  Stage(k) = "unseen" /\ Stage(k)' = first[k]
      OBVIOUS
    <3>1. k \in Candidate /\ k \notin contended /\ k \notin contended'
      BY <1>5, <1>9, <1>10
    <3>2. Stage(k) = "unseen"
      BY <1>5, <3>1, StageOf
    <3>3. cand'[k] = adm[k] /\ adm[k] \in Admission
      BY <1>5
    <3>4. CASE adm[k] = "pending"
      BY <3>1, <3>2, <3>3, <3>4, StageOfNext
    <3>5. CASE adm[k] = "quarantined"
      BY <3>1, <3>2, <3>3, <3>5, StageOfNext
    <3>6. CASE adm[k] = "approved"
      <4>1. HasActive(k)'
        BY <3>6, <1>3, <1>4 DEF HasActive, MemoriesOf
      <4>2. Reviewed(k)'
        BY <3>3, <3>6 DEF Reviewed
      <4> QED
        BY <3>1, <3>2, <3>6, <4>1, <4>2, StageOfNext
    <3> QED
      BY <3>3, <3>4, <3>5, <3>6 DEF Admission
  <2> HIDE DEF first
  <2>3. StageMap' = [k \in Candidate |-> IF k \in K THEN first[k] ELSE StageMap[k]]
    BY <1>11, <2>2 DEF StageMap
  <2>4. \A k \in K : StageMap[k] = "unseen"
    BY <2>2, <1>5 DEF StageMap
  <2>5. \E f \in [K -> {"open", "blocked", "live"}] :
          /\ \A k \in K : StageMap[k] = "unseen"
          /\ StageMap' = [k \in Candidate |-> IF k \in K THEN f[k] ELSE StageMap[k]]
    BY <2>1, <2>3, <2>4
  <2> QED
    BY <2>5, <1>5 DEF Contract!Propose, StageMap
<1> QED
  BY <1>13, <1>14 DEF Contract!Next

LEMMA IsolatedApproveInsert ==
    ASSUME Inv, Inv', IsolatedInv, NEW c \in Conn, ApproveInsert(c)
    PROVE  IsolatedInv' /\ [Contract!Next]_StageMap
<1>0. PICK k \in Candidate : k = op[c].target
  BY DEF ApproveInsert, Inv, TypeOK, Ops, Idle
<1>1. /\ cand' = [cand EXCEPT ![k] = "approved"]
      /\ inbox' = [inbox EXCEPT ![k] = Resolved(k)]
      /\ op' = [op EXCEPT ![c] = Idle]
      /\ CommitsOn(c, k)
  BY <1>0 DEF ApproveInsert, RecordReview
<1>2. PICK m \in Memory : Activate([x \in {k} |-> m])
  BY <1>0 DEF ApproveInsert
<1> DEFINE ids == [x \in {k} |-> m]
<1>3. DOMAIN ids = {k} /\ ids[k] = m
  OBVIOUS
<1>4. /\ Fresh(m) /\ owner'[m] = k /\ status'[m] = "active"
      /\ \A n \in Memory : n # m => owner'[n] = owner[n] /\ status'[n] = status[n]
  <2>1. DOMAIN ids \subseteq Candidate /\ (\A x \in DOMAIN ids : ids[x] \in Memory)
        /\ TypeOK /\ Activate(ids)
    BY <1>2, <1>3 DEF Inv
  <2> HIDE DEF ids
  <2> QED
    BY <1>3, <2>1, ActivateEffect
<1>5. owner[m] = NoCandidate
  BY <1>4 DEF Inv, RowsOwned
<1>6. /\ cand'[k] = "approved" /\ inbox'[k] \notin Undecided /\ op'[c] = Idle
      /\ \A l \in Candidate : l # k => cand'[l] = cand[l] /\ inbox'[l] = inbox[l]
  BY <1>1 DEF Inv, TypeOK, Resolved, Undecided
<1>7. ASSUME k \notin contended'
      PROVE  k \notin contended /\ cand[k] = "pending" /\ \A n \in Memory : owner[n] # k
  <2>1. k \notin contended
    BY <1>1, <1>7 DEF CommitsOn
  <2> QED
    BY <1>0, <2>1 DEF ApproveInsert, IsolatedInv, ReadsExact
<1>8. k \notin contended' => RowsSound(k)'
  BY <1>4, <1>6, <1>7 DEF RowsSound
<1>9. \A l \in Candidate : l # k => \A n \in Memory :
        /\ owner'[n] = l <=> owner[n] = l
        /\ owner[n] = l => status'[n] = status[n]
  BY <1>4, <1>5, SentinelAssumption
<1>10. IsolatedInv' /\ \A l \in Candidate : l # k => Stage(l)' = Stage(l)
  BY <1>1, <1>6, <1>8, <1>9, CommitFrame
<1>11. CASE k \in contended'
  BY <1>10, <1>11, ContendStep DEF Inv
<1>12. CASE k \notin contended'
  <2>1. Stage(k) = "open"
    BY <1>7, <1>12, StageOf
  <2>2. Stage(k)' = "live"
    <3>1. HasActive(k)' /\ Reviewed(k)'
      BY <1>4, <1>6 DEF HasActive, MemoriesOf, Reviewed
    <3> QED
      BY <1>12, <3>1, StageOfNext
  <2>3. StageMap' = [StageMap EXCEPT ![k] = "live"] /\ StageMap[k] = "open"
    BY <1>10, <2>1, <2>2 DEF StageMap
  <2>4. Contract!Accept(k)
    BY <2>3 DEF Contract!Accept, StageMap
  <2> QED
    BY <1>10, <2>4 DEF Contract!Next
<1> QED
  BY <1>11, <1>12

LEMMA IsolatedReviewCommits ==
    ASSUME Inv, Inv', IsolatedInv, NEW c \in Conn, ApproveKnown(c) \/ RejectCommit(c)
    PROVE  IsolatedInv' /\ [Contract!Next]_StageMap
<1>0. op[c].target \in Candidate /\ cand[op[c].target] # "unseen"
  BY DEF ApproveKnown, RejectCommit, Inv, TypeOK, Ops, Idle, ReadsKept
<1>1. PICK k \in Candidate : k = op[c].target /\ cand[k] # "unseen"
  BY <1>0
<1>2. /\ UNCHANGED <<owner, status>>
      /\ inbox' = [inbox EXCEPT ![k] = Resolved(k)]
      /\ op' = [op EXCEPT ![c] = Idle]
      /\ CommitsOn(c, k)
      /\ cand' = cand \/ (cand' = [cand EXCEPT ![k] = "rejected"] /\ RejectCommit(c))
  BY <1>1 DEF ApproveKnown, RejectCommit, RecordReview
<1>3. /\ inbox'[k] \notin Undecided /\ op'[c] = Idle
      /\ \A l \in Candidate : l # k => cand'[l] = cand[l] /\ inbox'[l] = inbox[l]
      /\ cand'[k] = cand[k] \/ (cand'[k] = "rejected" /\ RejectCommit(c))
      /\ cand'[k] # "unseen"
  BY <1>1, <1>2 DEF Inv, TypeOK, Resolved, Undecided
<1>4. ASSUME k \notin contended'
      PROVE  /\ k \notin contended /\ RowsSound(k)
             /\ RejectCommit(c) => \A m \in Memory : owner[m] = k => status[m] # "active"
  <2>1. k \notin contended
    BY <1>2, <1>4 DEF CommitsOn
  <2> QED
    BY <1>1, <2>1 DEF RejectCommit, IsolatedInv, ReadsExact
<1>5. ASSUME k \notin contended'
      PROVE  RowsSound(k)'
  BY <1>2, <1>3, <1>4, <1>5 DEF RowsSound, Fresh
<1>6. IsolatedInv' /\ \A l \in Candidate : l # k => Stage(l)' = Stage(l)
  BY <1>2, <1>3, <1>5, CommitFrame
<1>7. CASE k \in contended'
  BY <1>6, <1>7, ContendStep DEF Inv
<1>8. HasActive(k)' <=> HasActive(k)
  BY <1>2 DEF HasActive, MemoriesOf
<1>9. ASSUME k \notin contended', cand'[k] = cand[k]
      PROVE  StageMap' = StageMap
  <2>1. Stage(k)' = Stage(k)
    BY <1>4, <1>8, <1>9 DEF Stage, Reviewed
  <2> QED
    BY <2>1, <1>6 DEF StageMap
<1>10. ASSUME k \notin contended', cand'[k] # cand[k]
       PROVE  [Contract!Next]_StageMap
  <2>1. cand'[k] = "rejected" /\ ~HasActive(k)
    BY <1>3, <1>4, <1>10 DEF HasActive, MemoriesOf
  <2>2. Stage(k)' = "closed"
    BY <1>8, <1>10, <2>1, StageOfNext DEF Reviewed
  <2>3. Stage(k) \in {"open", "blocked", "closed"}
    BY <1>1, <1>4, <1>10, <2>1, StageOf
       DEF Inv, TypeOK, CandidateStatus, Admission, Reviewed
  <2>4. StageMap' = [StageMap EXCEPT ![k] = "closed"] /\ StageMap[k] = Stage(k)
    BY <1>6, <2>2 DEF StageMap
  <2>5. CASE Stage(k) = "closed"
    BY <2>4, <2>5 DEF StageMap
  <2>6. CASE Stage(k) # "closed"
    <3>1. Contract!Refuse(k)
      BY <2>3, <2>4, <2>6 DEF Contract!Refuse, StageMap
    <3> QED
      BY <3>1 DEF Contract!Next
  <2> QED
    BY <2>5, <2>6
<1> QED
  BY <1>6, <1>7, <1>9, <1>10

\* Retiring one memory closes the stage of its candidate if the memory was active.
LEMMA IsolatedLifecycle ==
    ASSUME Inv, Inv', IsolatedInv, NEW c \in Conn,
           \/ \E m \in Memory, s \in Retired : Deactivate(c, m, s)
           \/ \E old, new \in Memory : Supersede(c, old, new)
    PROVE  IsolatedInv' /\ [Contract!Next]_StageMap
<1>1. PICK m \in Memory, s \in Inactive :
        /\ ~Fresh(m) /\ SetStatus(m, s) /\ CommitsOn(c, owner[m])
        /\ UNCHANGED <<cand, admitted, owner, reviews, inbox, op>>
  BY DEF Deactivate, Supersede, Inactive
<1>2. op'[c] = Idle
  BY <1>1 DEF Deactivate, Supersede
<1>3. PICK k \in Candidate : k = owner[m] /\ cand[k] # "unseen" /\ CommitsOn(c, k)
  BY <1>1 DEF Inv, RowsOwned, TypeOK
<1>4. /\ status'[m] \notin {"active", "absent"} /\ status[m] # "absent"
      /\ \A n \in Memory : n # m => status'[n] = status[n]
  BY <1>1 DEF SetStatus, Inactive, Retired, Inv, TypeOK, Fresh
<1>5. ASSUME k \notin contended'
      PROVE  k \notin contended /\ RowsSound(k) /\ RowsSound(k)'
  <2>1. k \notin contended
    BY <1>3, <1>5 DEF CommitsOn
  <2>2. RowsSound(k)
    BY <2>1 DEF IsolatedInv
  <2> QED
    BY <1>1, <1>4, <2>1, <2>2 DEF RowsSound, Fresh
<1>6. \A l \in Candidate : l # k => \A n \in Memory :
        /\ owner'[n] = l <=> owner[n] = l
        /\ owner[n] = l => status'[n] = status[n]
  BY <1>1, <1>3, <1>4
<1>7. IsolatedInv' /\ \A l \in Candidate : l # k => Stage(l)' = Stage(l)
  BY <1>1, <1>2, <1>3, <1>5, <1>6, CommitFrame
<1>8. CASE k \in contended'
  BY <1>7, <1>8, ContendStep DEF Inv
<1>9. ASSUME k \notin contended', status[m] # "active"
      PROVE  StageMap' = StageMap
  <2>1. HasActive(k)' <=> HasActive(k)
    BY <1>1, <1>4, <1>9 DEF HasActive, MemoriesOf
  <2>2. Stage(k)' = Stage(k)
    BY <1>1, <1>5, <1>9, <2>1 DEF Stage, Reviewed
  <2> QED
    BY <1>7, <2>2 DEF StageMap
<1>10. ASSUME k \notin contended', status[m] = "active"
       PROVE  [Contract!Next]_StageMap
  <2>1. k \notin contended /\ cand[k] = "approved" /\ \A n \in Memory : owner[n] = k => n = m
    BY <1>3, <1>4, <1>5, <1>10 DEF RowsSound, Fresh
  <2>2. Stage(k) = "live"
    BY <1>3, <1>10, <2>1, StageOf DEF Reviewed, HasActive, MemoriesOf
  <2>3. Stage(k)' = "closed"
    <3>1. ~HasActive(k)' /\ Reviewed(k)'
      BY <1>1, <1>4, <2>1 DEF HasActive, MemoriesOf, Reviewed
    <3> QED
      BY <1>10, <3>1, StageOfNext
  <2>4. StageMap' = [StageMap EXCEPT ![k] = "closed"] /\ StageMap[k] = "live"
    BY <1>7, <2>2, <2>3 DEF StageMap
  <2>5. Contract!Retire(k)
    BY <2>4 DEF Contract!Retire, StageMap
  <2> QED
    BY <2>5 DEF Contract!Next
<1> QED
  BY <1>7, <1>8, <1>9, <1>10

LEMMA IsolatedInbox ==
    ASSUME Inv, Inv', IsolatedInv, NEW c \in Conn,
           AckCommit(c) \/ \E k \in Candidate : ResolveNotification(c, k)
    PROVE  IsolatedInv' /\ [Contract!Next]_StageMap
<1>1. PICK k \in Candidate :
        /\ CommitsOn(c, k)
        /\ inbox' = [inbox EXCEPT ![k] = "resolved"]
           \/ (inbox' = [inbox EXCEPT ![k] = "acknowledged"] /\ AckCommit(c) /\ k = op[c].target)
        /\ inbox[k] # "none" \/ op[c].target = k
  <2>1. CASE AckCommit(c)
    <3>1. op[c].target \in Candidate
      BY <2>1 DEF AckCommit, Inv, TypeOK, Ops, Idle
    <3> QED
      BY <2>1, <3>1 DEF AckCommit
  <2>2. CASE \E k \in Candidate : ResolveNotification(c, k)
    BY <2>2 DEF ResolveNotification, Undecided
  <2> QED
    BY <2>1, <2>2
<1>2. /\ UNCHANGED <<cand, owner, status>>
      /\ op' = op \/ op' = [op EXCEPT ![c] = Idle]
      /\ op'[c] = Idle
  BY DEF AckCommit, ResolveNotification, Inv, TypeOK
<1>3. cand[k] # "unseen"
  BY <1>1, SentinelAssumption DEF Inv, AdmissionKept, ReadsKept, Idle
<1>4. \A l \in Candidate : l # k => inbox'[l] = inbox[l]
  BY <1>1 DEF Inv, TypeOK
<1>5. ASSUME k \notin contended'
      PROVE  k \notin contended /\ RowsSound(k)'
  <2>1. k \notin contended
    BY <1>1, <1>5 DEF CommitsOn
  <2>2. RowsSound(k) /\ (AckCommit(c) /\ k = op[c].target => inbox[k] \in Undecided)
    BY <2>1 DEF IsolatedInv, ReadsExact, AckCommit
  <2>3. inbox'[k] \in Undecided => inbox[k] \in Undecided
    BY <1>1, <2>2 DEF Inv, TypeOK, Undecided
  <2> QED
    BY <1>2, <2>1, <2>2, <2>3 DEF RowsSound, Fresh
<1>6. IsolatedInv' /\ \A l \in Candidate : l # k => Stage(l)' = Stage(l)
  BY <1>1, <1>2, <1>3, <1>4, <1>5, CommitFrame
<1>7. CASE k \in contended'
  BY <1>6, <1>7, ContendStep DEF Inv
<1>8. CASE k \notin contended'
  <2>1. Stage(k)' = Stage(k)
    BY <1>2, <1>5, <1>8 DEF Stage, Reviewed, HasActive, MemoriesOf
  <2>2. StageMap' = StageMap
    BY <1>6, <2>1 DEF StageMap
  <2> QED
    BY <1>6, <2>2
<1> QED
  BY <1>7, <1>8

LEMMA IsolatedNext ==
    ASSUME Inv, Inv', IsolatedInv, [Next]_vars
    PROVE  IsolatedInv' /\ [Contract!Next]_StageMap
<1>1. CASE UNCHANGED vars
  <2>1. IsolatedInv'
    BY <1>1 DEF vars, IsolatedInv, RowsSound, ReadsExact, Fresh
  <2>2. StageMap' = StageMap
    BY <1>1 DEF StageMap, Stage, Reviewed, HasActive, MemoriesOf, vars
  <2> QED
    BY <2>1, <2>2
<1>2. CASE Next
  <2>1. PICK c \in Conn :
          \/ Remember(c)
          \/ ApproveInsert(c)
          \/ ApproveKnown(c) \/ RejectCommit(c)
          \/ \/ \E m \in Memory, s \in Retired : Deactivate(c, m, s)
             \/ \E old, new \in Memory : Supersede(c, old, new)
          \/ AckCommit(c) \/ \E k \in Candidate : ResolveNotification(c, k)
          \/ \/ \E k \in Candidate : ApproveLookup(c, k) \/ RejectLookup(c, k) \/ AckRead(c, k)
             \/ ApproveRow(c)
             \/ Abandon(c)
    BY <1>2 DEF Next
  <2> QED
    BY <2>1, IsolatedRemember, IsolatedApproveInsert, IsolatedReviewCommits,
       IsolatedLifecycle, IsolatedInbox, IsolatedReads
<1> QED
  BY <1>1, <1>2

\* A candidate whose operations never overlapped has at most one memory, is approved
\* if that memory is active, and leaves the inbox when it is decided, whatever the
\* connections do to other candidates.
THEOREM IsolatedSafe == Spec => []OneDecisionPerCandidate
<1>1. Inv /\ IsolatedInv /\ [Next]_vars => (Inv /\ IsolatedInv)'
  BY NextInv, IsolatedNext
<1>2. Inv /\ IsolatedInv => OneDecisionPerCandidate
  BY IsolatedProperties DEF OneDecisionPerCandidate
<1> QED
  BY <1>1, <1>2, InitInv, InitIsolatedInv, PTL DEF Spec

\* The tables implement the review contract: every step of any number of connections
\* is one step of the candidates' stages, or none.
THEOREM ImplementsContract == Spec => ContractSpec
<1>1. Init => Contract!Init
  <2> SUFFICES ASSUME Init
               PROVE  \A k \in Candidate : Stage(k) = "unseen"
    BY DEF Contract!Init
  <2> QED
    BY StageOf DEF Init
<1>2. Inv /\ IsolatedInv /\ [Next]_vars => (Inv /\ IsolatedInv)'
  BY NextInv, IsolatedNext
<1>3. Inv /\ Inv' /\ IsolatedInv /\ [Next]_vars => [Contract!Next]_StageMap
  BY IsolatedNext
<1>4. Inv /\ Inv' /\ IsolatedInv /\ [Next]_vars
        => [Contract!Next]_([k \in Candidate |-> Stage(k)])
  BY <1>3 DEF StageMap
<1> QED
  BY <1>1, <1>2, <1>4, InitInv, InitIsolatedInv, PTL DEF Spec, ContractSpec, Contract!Spec

=============================================================================
