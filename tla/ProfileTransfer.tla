-------------------------- MODULE ProfileTransfer ---------------------------
(***************************************************************************)
(* Two stores that exchange profiles and bundles (export_profile,          *)
(* export_bundle, verify_bundle, import_bundle, import_profile and their   *)
(* helpers in store.py) while their reviewers go on working.               *)
(*                                                                         *)
(* An export is one SELECT after another with no transaction around them,  *)
(* so what is committed in between is in the later sections only.  An      *)
(* import is one transaction that inserts the rows that are not there and  *)
(* leaves the others as they are.                                          *)
(*                                                                         *)
(* The memories here all name one entity and so share one branch node.     *)
(***************************************************************************)
EXTENDS Naturals, FiniteSets

CONSTANTS
    Proposal,     \* candidate_memories; an id is the same in both stores
    Poison        \* the candidates whose text admission_policy quarantines

ASSUME PoisonAssumption == Poison \subseteq Proposal

VARIABLES
    cand,       \* candidate_memories.status at a site
    mem,        \* memories.status at a site
    itemOf,     \* memory_items.status at a site
    foul,       \* memories corrected into text that admission_policy would quarantine
    branch,     \* the branch node at a site and the memories its blob quotes
    proof,      \* node_evidence at a site: the memories it cites
    papers,     \* sources, memory_revisions and derived_invalidations at a site
    reviews,    \* review_actions at a site
    file,       \* the last export: being read, or written and as yet unread by the other site
    dead,       \* history: memories that have been inactive at a site
    revived,    \* history: memories imported as active that were not so when the export began
    excused     \* history: memories a node was imported with that the site did not have active

transferVars == <<cand, mem, itemOf, foul, branch, proof, papers, reviews, file, dead, revived, excused>>

Site == {"here", "there"}
Other(s) == IF s = "here" THEN "there" ELSE "here"

\* A memory is named by its candidate and the site it was approved at: memory_id is new.
MemoryRow == Proposal \X Site

\* What is kept about a memory: where it comes from, that it was corrected, that it was
\* deleted, distrusted or expired.
Papers == {"source", "revision", "invalidation"} \X MemoryRow
Reviews == {"approve", "reject"} \X Proposal

NoNode == [status |-> "none", shows |-> {}]
NoFile == [at |-> "none", from |-> "here", began |-> {}, cand |-> [k \in Proposal |-> "none"],
           mem |-> [r \in MemoryRow |-> "none"], item |-> [r \in MemoryRow |-> "none"],
           papers |-> {}, reviews |-> {}, node |-> NoNode, proof |-> {}, listed |-> {}, sound |-> TRUE]

CandidateStatus == {"none", "pending", "quarantined", "approved", "rejected"}
RowStatus == {"none", "active", "inactive", "foul"}
Nodes == [status : {"none", "active", "inactive", "foul"}, shows : SUBSET MemoryRow]

TransferTypeOK ==
    /\ cand \in [Site -> [Proposal -> CandidateStatus]]
    /\ \A s \in Site :
         /\ mem[s] \in [MemoryRow -> RowStatus \ {"foul"}]
         /\ itemOf[s] \in [MemoryRow -> RowStatus \ {"foul"}]
         /\ branch[s] \in Nodes /\ papers[s] \subseteq Papers /\ reviews[s] \subseteq Reviews
         /\ foul[s] \cup proof[s] \cup dead[s] \cup excused[s] \subseteq MemoryRow
    /\ file.at \in {"none", "queue", "candidates", "items", "papers", "nodes", "evidence", "written"}
    /\ file.cand \in [Proposal -> CandidateStatus]
    /\ file.mem \in [MemoryRow -> RowStatus] /\ file.item \in [MemoryRow -> RowStatus]
    /\ file.papers \subseteq Papers /\ file.reviews \subseteq Reviews
    /\ file.node \in Nodes /\ file.began \cup file.proof \subseteq MemoryRow
    /\ file.listed \subseteq Proposal /\ file.sound \in BOOLEAN /\ file.from \in Site
    /\ revived \subseteq MemoryRow

TransferInit ==
    /\ cand = [s \in Site |-> [k \in Proposal |-> "none"]]
    /\ mem = [s \in Site |-> [r \in MemoryRow |-> "none"]]
    /\ itemOf = mem
    /\ foul = [s \in Site |-> {}]
    /\ branch = [s \in Site |-> NoNode]
    /\ proof = [s \in Site |-> {}]
    /\ papers = proof
    /\ reviews = proof
    /\ file = NoFile
    /\ dead = [s \in Site |-> {}]
    /\ revived = {}
    /\ excused = [s \in Site |-> {}]

----------------------------------------------------------------------------
(* What reviewers do at one of the stores. *)
Of(k) == {r \in MemoryRow : r[1] = k}
Supports(s, r) == r \in proof[s] /\ mem[s][r] = "active" /\ itemOf[s][r] = "active"

Propose(k) ==
    /\ cand["here"][k] = "none"
    /\ cand' = [cand EXCEPT !["here"][k] = IF k \in Poison THEN "quarantined" ELSE "pending"]
    /\ UNCHANGED <<mem, itemOf, foul, branch, proof, papers, reviews, file, dead, revived, excused>>

\* _activate_candidate: a candidate with a memory, imported ones included, gets no other
\* one; the branch node is created or extended, and is left inactive if it is.
ApproveAt(s, k) ==
    LET r == <<k, s>> IN
    /\ cand[s][k] \in {"pending", "approved"}
    /\ \A q \in Of(k) : mem[s][q] = "none"
    /\ cand' = [cand EXCEPT ![s][k] = "approved"]
    /\ mem' = [mem EXCEPT ![s][r] = "active"]
    /\ itemOf' = [itemOf EXCEPT ![s][r] = "active"]
    /\ branch' = [branch EXCEPT ![s] =
                    [status |-> IF @.status = "none" THEN "active" ELSE @.status,
                     shows |-> @.shows \cup {r}]]
    /\ proof' = [proof EXCEPT ![s] = @ \cup {r}]
    /\ papers' = [papers EXCEPT ![s] = @ \cup {<<"source", r>>}]
    /\ reviews' = [reviews EXCEPT ![s] = @ \cup {<<"approve", k>>}]
    /\ UNCHANGED <<foul, file, dead, revived, excused>>

RejectAt(s, k) ==
    /\ cand[s][k] \notin {"none", "rejected"}
    /\ \A q \in Of(k) : mem[s][q] # "active"
    /\ cand' = [cand EXCEPT ![s][k] = "rejected"]
    /\ reviews' = [reviews EXCEPT ![s] = @ \cup {<<"reject", k>>}]
    /\ UNCHANGED <<mem, itemOf, foul, branch, proof, papers, file, dead, revived, excused>>

\* _deactivate_memory: the node is refreshed only if there is evidence that ties it to the
\* memory.
DeactivateAt(s, r) ==
    LET left == {q \in MemoryRow \ {r} : Supports(s, q)} IN
    /\ mem[s][r] = "active"
    /\ mem' = [mem EXCEPT ![s][r] = "inactive"]
    /\ itemOf' = [itemOf EXCEPT ![s][r] = IF @ = "none" THEN "none" ELSE "inactive"]
    /\ branch' = IF r \notin proof[s] THEN branch
                 ELSE IF left = {} THEN [branch EXCEPT ![s].status = "inactive"]
                 ELSE [branch EXCEPT ![s].shows = left]
    /\ papers' = [papers EXCEPT ![s] = @ \cup {<<"invalidation", r>>}]
    /\ dead' = [dead EXCEPT ![s] = @ \cup {r}]
    /\ UNCHANGED <<cand, foul, proof, reviews, file, revived, excused>>

\* correct_memory does not ask admission_policy about the new text.
CorrectAt(s, r) ==
    /\ mem[s][r] = "active"
    /\ r \notin foul[s]
    /\ foul' = [foul EXCEPT ![s] = @ \cup {r}]
    /\ papers' = [papers EXCEPT ![s] = @ \cup {<<"revision", r>>}]
    /\ UNCHANGED <<cand, mem, itemOf, branch, proof, reviews, file, dead, revived, excused>>

----------------------------------------------------------------------------
(* Export. *)

\* A status with the text read with it: "foul" when the importer will refuse it.
Read(status, r) == IF status = "none" \/ r \notin foul[file.from] THEN status ELSE "foul"

\* The memories; began is what the export may not bring back.
ExportMemories(s) ==
    /\ file' = [NoFile EXCEPT !.at = "queue", !.from = s,
                  !.began = {r \in MemoryRow : mem[s][r] = "inactive" \/ r \in foul[s]},
                  !.mem = [r \in MemoryRow |->
                             IF mem[s][r] # "none" /\ r \in foul[s] THEN "foul" ELSE mem[s][r]]]
    /\ UNCHANGED <<cand, mem, itemOf, foul, branch, proof, papers, reviews, dead, revived, excused>>

\* The candidates of those memories and the ones without a memory by now.
ExportQueue ==
    /\ file.at = "queue"
    /\ file' = [file EXCEPT !.at = "candidates",
                  !.listed = {r[1] : r \in {q \in MemoryRow : file.mem[q] # "none"}}
                    \cup {k \in Proposal : /\ cand[file.from][k] # "none"
                                           /\ \A r \in Of(k) : mem[file.from][r] = "none"}]
    /\ UNCHANGED <<cand, mem, itemOf, foul, branch, proof, papers, reviews, dead, revived, excused>>

ExportCandidates ==
    /\ file.at = "candidates"
    /\ file' = [file EXCEPT !.at = "items",
                  !.cand = [k \in Proposal |->
                              IF k \in file.listed THEN cand[file.from][k] ELSE "none"]]
    /\ UNCHANGED <<cand, mem, itemOf, foul, branch, proof, papers, reviews, dead, revived, excused>>

ExportItems ==
    /\ file.at = "items"
    /\ file' = [file EXCEPT !.at = "papers",
                  !.item = [r \in MemoryRow |-> IF file.mem[r] = "none" THEN "none"
                                                ELSE Read(itemOf[file.from][r], r)]]
    /\ UNCHANGED <<cand, mem, itemOf, foul, branch, proof, papers, reviews, dead, revived, excused>>

\* What belongs to the memories and the candidates that have been read.
ExportPapers ==
    /\ file.at = "papers"
    /\ file' = [file EXCEPT !.at = "nodes",
                  !.papers = {p \in papers[file.from] : file.mem[p[2]] # "none"},
                  !.reviews = {v \in reviews[file.from] : file.cand[v[2]] # "none"}]
    /\ UNCHANGED <<cand, mem, itemOf, foul, branch, proof, papers, reviews, dead, revived, excused>>

\* Active nodes only, of all scopes.
ExportNodes ==
    LET node == branch[file.from] IN
    /\ file.at = "nodes"
    /\ file' = [file EXCEPT !.at = "evidence",
                  !.node = IF node.status # "active" THEN NoNode
                           ELSE IF node.shows \cap foul[file.from] # {}
                                THEN [node EXCEPT !.status = "foul"]
                           ELSE node]
    /\ UNCHANGED <<cand, mem, itemOf, foul, branch, proof, papers, reviews, dead, revived, excused>>

\* Evidence of active nodes, memories and items; then the manifest with the digest.
ExportEvidence ==
    LET s == file.from IN
    /\ file.at = "evidence"
    /\ file' = [file EXCEPT !.at = "written",
                  !.proof = {r \in MemoryRow \ foul[s] : branch[s].status = "active" /\ Supports(s, r)}]
    /\ UNCHANGED <<cand, mem, itemOf, foul, branch, proof, papers, reviews, dead, revived, excused>>

\* The payload is altered: what was inactive is made active.
AlterFile ==
    /\ file.at = "written"
    /\ file.sound
    /\ \E r \in MemoryRow : file.mem[r] = "inactive"
    /\ file' = [file EXCEPT !.sound = FALSE,
                  !.mem = [r \in MemoryRow |-> IF @[r] = "inactive" THEN "active" ELSE @[r]]]
    /\ UNCHANGED <<cand, mem, itemOf, foul, branch, proof, papers, reviews, dead, revived, excused>>

\* The file is thrown away.
Discard ==
    /\ file # NoFile
    /\ file' = NoFile
    /\ UNCHANGED <<cand, mem, itemOf, foul, branch, proof, papers, reviews, dead, revived, excused>>

----------------------------------------------------------------------------
(* Import. *)

\* INSERT OR IGNORE INTO candidate_memories.
ImportedCandidate(s, k) ==
    IF cand[s][k] # "none" \/ file.cand[k] = "none" THEN cand[s][k]
    ELSE IF k \in Poison THEN "quarantined" ELSE file.cand[k]

\* Mutant: INSERT OR REPLACE INTO memories.
ImportedMemory_Replaces(s, r) ==
    IF file.mem[r] \in {"none", "foul"} THEN mem[s][r] ELSE file.mem[r]

\* INSERT OR IGNORE INTO memories, unless the text is refused.
ImportedMemory(s, r) ==
    IF mem[s][r] # "none" \/ file.mem[r] = "foul" THEN mem[s][r] ELSE file.mem[r]

\* INSERT OR IGNORE INTO memory_items, for memories that are there by now.
ImportedItem(s, r) ==
    IF itemOf[s][r] # "none" \/ file.item[r] = "foul" \/ ImportedMemory(s, r) = "none"
    THEN itemOf[s][r] ELSE file.item[r]

\* The rest is inserted for whatever is there by now, though the row it belongs to may be
\* another one than was exported: a correction or a retirement is recorded that the store's
\* own memory has not been through.
ImportedPapers(s) == papers[s] \cup {p \in file.papers : ImportedMemory(s, p[2]) # "none"}
ImportedReviews(s) == reviews[s] \cup {v \in file.reviews : ImportedCandidate(s, v[2]) # "none"}

\* A node that is there already, under the same id or the same key, is neither revived nor
\* given another blob.
ImportedNode(s) ==
    IF branch[s].status # "none" \/ file.node.status # "active" THEN branch[s] ELSE file.node

ImportedProof(s) ==
    proof[s] \cup {r \in file.proof : /\ ImportedNode(s).status # "none"
                                      /\ ImportedMemory(s, r) # "none"
                                      /\ ImportedItem(s, r) # "none"}

\* verify_bundle compares the digest; then one transaction for everything.
Import ==
    LET s == Other(file.from) IN
    /\ file.at = "written"
    /\ file.sound
    /\ cand' = [cand EXCEPT ![s] = [k \in Proposal |-> ImportedCandidate(s, k)]]
    /\ mem' = [mem EXCEPT ![s] = [r \in MemoryRow |-> ImportedMemory(s, r)]]
    /\ itemOf' = [itemOf EXCEPT ![s] = [r \in MemoryRow |-> ImportedItem(s, r)]]
    /\ branch' = [branch EXCEPT ![s] = ImportedNode(s)]
    /\ proof' = [proof EXCEPT ![s] = ImportedProof(s)]
    /\ papers' = [papers EXCEPT ![s] = ImportedPapers(s)]
    /\ reviews' = [reviews EXCEPT ![s] = ImportedReviews(s)]
    /\ dead' = [dead EXCEPT ![s] = @ \cup {r \in MemoryRow : mem'[s][r] = "inactive"}]
    /\ revived' = revived \cup {r \in file.began : mem'[s][r] = "active" /\ mem[s][r] # "active"}
    /\ excused' = [excused EXCEPT ![s] = @ \cup
                     {r \in branch'[s].shows \ branch[s].shows :
                        mem'[s][r] # "active" \/ r \notin proof'[s]}]
    /\ UNCHANGED <<foul, file>>

ReviewStep(s) ==
    \/ s = "here" /\ \E k \in Proposal : Propose(k)
    \/ \E k \in Proposal : ApproveAt(s, k) \/ RejectAt(s, k)
    \/ \E r \in MemoryRow : DeactivateAt(s, r) \/ CorrectAt(s, r)

ExportStep ==
    \/ ExportQueue \/ ExportCandidates \/ ExportItems \/ ExportPapers \/ ExportNodes
    \/ ExportEvidence

TransferNext ==
    \/ \E s \in Site : ReviewStep(s) \/ ExportMemories(s)
    \/ ExportStep \/ AlterFile \/ Discard \/ Import

TransferSpec == TransferInit /\ [][TransferNext]_transferVars

----------------------------------------------------------------------------
(* Properties. *)

\* "Import must preserve inactive states": what has been inactive in a store stays so
\* there; an export brings nothing that was inactive or corrected into refused text when it
\* began; a candidate a store has not approved has no active memory approved in that
\* store; and an active node quotes active memories only, except for those it was imported
\* with when the store had no active memory or no evidence for them.  A memory comes with
\* its sources, an inactive one with the record of its retirement and a decided candidate
\* with its review; and no correction or retirement is on record that neither store has seen.
TransferKeepsState ==
    /\ revived = {}
    /\ \A s \in Site :
         /\ \A r \in dead[s] : mem[s][r] = "inactive"
         /\ \A k \in Proposal : cand[s][k] # "approved" => mem[s][<<k, s>>] # "active"
         /\ branch[s].status = "active" =>
              \A r \in branch[s].shows \ excused[s] : mem[s][r] = "active"
         /\ \A r \in MemoryRow :
              /\ mem[s][r] # "none" <=> <<"source", r>> \in papers[s]
              /\ mem[s][r] = "inactive" => <<"invalidation", r>> \in papers[s]
              /\ r \in foul[s] => <<"revision", r>> \in papers[s]
              /\ <<"revision", r>> \in papers[s] => r \in UNION {foul[t] : t \in Site}
              /\ <<"invalidation", r>> \in papers[s] => r \in UNION {dead[t] : t \in Site}
         /\ \A k \in Proposal :
              /\ cand[s][k] = "approved" => <<"approve", k>> \in reviews[s]
              /\ cand[s][k] = "rejected" => <<"reject", k>> \in reviews[s]
=============================================================================
