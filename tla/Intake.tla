------------------------------- MODULE Intake -------------------------------
(***************************************************************************)
(* The requests that take text in and keep a record of their own beside    *)
(* the candidates remember makes of it: recorded outcomes, saved turns,    *)
(* proposed changes with a draft scope, watched files and vaults           *)
(* (record_outcome, record_turn, propose_memory_change,                    *)
(* create_draft_scope, add_candidate_to_draft, watch_import_path and       *)
(* import_vault in store.py).                                              *)
(*                                                                         *)
(* Each request commits several times.  remember's transaction is open     *)
(* while the extractor, possibly a language model, is asked; a write by    *)
(* another connection in that time fails as "database is locked".  A       *)
(* request that raises or dies is not resumed, and its connection's open   *)
(* transaction is rolled back.                                             *)
(***************************************************************************)
EXTENDS Naturals, Sequences, FiniteSets

CONSTANTS
    Client,         \* connections
    Noone,
    MaxCandidate,   \* bound of an instance: candidates
    MaxRecord,      \* bound of an instance: turns, and outcomes
    Chunks          \* chunks of the watched file, documents of the vault

ASSUME ClientAssumption == Noone \notin Client
ASSUME IntakeBounds == {MaxCandidate, MaxRecord, Chunks} \subseteq Nat /\ Chunks # 0

VARIABLES
    proposed,   \* candidate_memories in order, with the memory made of each
    outcomes,   \* outcome_records, in order
    turns,      \* conversation_turns to be remembered, in order
    draft,      \* whether the draft scope of that name is there
    drafted,    \* memory_draft_items: candidates in it
    chunkRows,  \* memory_import_chunks of the watched file
    request,    \* what each connection is in the middle of
    writeLock,  \* the connection whose transaction has written
    answered    \* history: the requests that were answered without an error

intakeVars == <<proposed, outcomes, turns, draft, drafted, chunkRows, request, writeLock, answered>>

Job == {"outcome", "turn", "proposal", "watch", "vault"}
Loops == {"watch", "vault"}

Index == 1 .. MaxCandidate
Done == [job |-> "outcome", pc |-> "idle", at |-> 0, made |-> {}, last |-> {}, row |-> {},
         approved |-> FALSE, inDraft |-> FALSE]

IntakeTypeOK ==
    /\ proposed \in Seq([job : Job, at : 0 .. Chunks, mem : {"none", "active", "inactive"}])
    /\ outcomes \in Seq([of : Index \cup {0}, status : {"active", "pending"}])
    /\ turns \in Seq([made : SUBSET Index])
    /\ draft \in BOOLEAN
    /\ drafted \subseteq Index
    /\ chunkRows \subseteq [at : 1 .. Chunks, of : Index]
    /\ \A c \in Client :
         /\ request[c].job \in Job /\ request[c].at \in 0 .. Chunks
         /\ request[c].pc \in {"idle", "begin", "extracting", "outcome", "scope", "insert",
                               "item", "row", "end"}
         /\ request[c].last \subseteq request[c].made /\ request[c].made \subseteq Index
         /\ request[c].row \subseteq [at : 1 .. Chunks, of : Index]
         /\ request[c].approved \in BOOLEAN
    /\ writeLock \in Client \cup {Noone}
    /\ answered \subseteq [job : Job, made : SUBSET Index, inDraft : BOOLEAN]

IntakeInit ==
    /\ proposed = <<>>
    /\ outcomes = <<>>
    /\ turns = <<>>
    /\ draft = FALSE
    /\ drafted = {}
    /\ chunkRows = {}
    /\ request = [c \in Client |-> Done]
    /\ writeLock = Noone
    /\ answered = {}

----------------------------------------------------------------------------
Goes(c, r) == request' = [request EXCEPT ![c] = r]

\* The connection is closed; what it has not committed is lost.
Closes(c) ==
    /\ Goes(c, Done)
    /\ writeLock' = IF writeLock = c THEN Noone ELSE writeLock

Answers(c) ==
    /\ answered' = answered \cup {[job |-> request[c].job, made |-> request[c].made,
                                   inDraft |-> request[c].inDraft]}
    /\ Closes(c)

First(ks, k) == k \in ks /\ \A q \in ks : k <= q

CanWrite(c) == writeLock \in {Noone, c}

\* A write while another connection's transaction is open, past the timeout; the extractor
\* or another step raises; or the process dies.
Abort(c) ==
    /\ request[c].pc # "idle"
    /\ Closes(c)
    /\ UNCHANGED <<proposed, outcomes, turns, draft, drafted, chunkRows, answered>>

\* record_turn inserts the turn before it calls remember, in the same transaction.
Ask(c, job, inDraft) ==
    /\ request[c] = Done
    /\ job = "turn" => CanWrite(c)
    /\ Goes(c, [Done EXCEPT !.job = job, !.pc = "begin", !.inDraft = inDraft,
                            !.at = IF job \in Loops THEN 1 ELSE 0])
    /\ writeLock' = IF job = "turn" THEN c ELSE writeLock
    /\ UNCHANGED <<proposed, outcomes, turns, draft, drafted, chunkRows, answered>>

\* What a commit saves beside remember's own rows: the turn inserted before it, or the
\* chunk row of the chunk before it (INSERT OR IGNORE by chunk).
SavesPending(c, made) ==
    /\ turns' = IF request[c].job = "turn" THEN Append(turns, [made |-> made]) ELSE turns
    /\ chunkRows' = chunkRows \cup request[c].row

\* _enforce_write_policy: the denial is audited and committed, with all that is pending.
Denied(c) ==
    /\ request[c].pc = "begin"
    /\ CanWrite(c)
    /\ Len(turns) < MaxRecord
    /\ SavesPending(c, {})
    /\ Closes(c)
    /\ UNCHANGED <<proposed, outcomes, draft, drafted, answered>>

\* remember inserts the event, which takes the write lock, and calls the extractor.
Begin(c) ==
    /\ request[c].pc = "begin"
    /\ CanWrite(c)
    /\ Goes(c, [request[c] EXCEPT !.pc = "extracting"])
    /\ writeLock' = c
    /\ UNCHANGED <<proposed, outcomes, turns, draft, drafted, chunkRows, answered>>

\* remember's commit.  A proposal is one candidate that no extractor has seen, and a file
\* is not approved by itself.
Extracted(c, new) ==
    LET r == request[c]
        made == (Len(proposed) + 1) .. (Len(proposed) + Len(new))
        next == [r EXCEPT !.made = @ \cup made, !.last = made, !.row = {},
                          !.approved = r.job = "outcome" /\ new # <<>> /\ new[1] = "active"]
    IN
    /\ r.pc = "extracting"
    /\ Len(proposed) + Len(new) <= MaxCandidate
    /\ r.job = "turn" => Len(turns) < MaxRecord
    /\ r.job = "proposal" => Len(new) = 1
    /\ \A i \in DOMAIN new : new[i] = "active" => r.job \in {"outcome", "turn", "vault"}
    /\ proposed' = proposed \o [i \in DOMAIN new |-> [job |-> r.job, at |-> r.at, mem |-> new[i]]]
    /\ SavesPending(c, made)
    /\ IF r.job = "turn" \/ (r.job = "proposal" /\ ~r.inDraft) \/ (r.job = "vault" /\ r.at = Chunks)
       THEN /\ answered' = answered \cup {[job |-> r.job, made |-> next.made, inDraft |-> r.inDraft]}
            /\ Closes(c)
       ELSE /\ Goes(c, CASE r.job = "outcome" -> [next EXCEPT !.pc = "outcome"]
                         [] r.job = "proposal" -> [next EXCEPT !.pc = "scope"]
                         [] r.job = "watch" -> [next EXCEPT !.pc = "row"]
                         [] r.job = "vault" -> [next EXCEPT !.pc = "begin", !.at = @ + 1])
            /\ writeLock' = Noone
            /\ UNCHANGED answered
    /\ UNCHANGED <<outcomes, draft, drafted>>

\* The outcome goes with the first of the candidates, and with its memory if remember
\* approved it.
RecordOutcome(c) ==
    LET r == request[c] IN
    /\ r.pc = "outcome"
    /\ CanWrite(c)
    /\ Len(outcomes) < MaxRecord
    /\ \E of \in Index \cup {0} :
         /\ IF r.last = {} THEN of = 0 ELSE First(r.last, of)
         /\ outcomes' = Append(outcomes,
              [of |-> of, status |-> IF r.approved THEN "active" ELSE "pending"])
    /\ Answers(c)
    /\ UNCHANGED <<proposed, turns, draft, drafted, chunkRows>>

\* create_draft_scope looks for the name, and inserts it if it was not there; a name
\* inserted in the meantime raises (UNIQUE).
FindScope(c) ==
    /\ request[c].pc = "scope"
    /\ Goes(c, [request[c] EXCEPT !.pc = IF draft THEN "item" ELSE "insert"])
    /\ UNCHANGED <<proposed, outcomes, turns, draft, drafted, chunkRows, writeLock, answered>>

InsertScope(c) ==
    /\ request[c].pc = "insert"
    /\ CanWrite(c)
    /\ IF draft THEN Closes(c) ELSE Goes(c, [request[c] EXCEPT !.pc = "item"]) /\ UNCHANGED writeLock
    /\ draft' = TRUE
    /\ UNCHANGED <<proposed, outcomes, turns, drafted, chunkRows, answered>>

\* add_candidate_to_draft.
AddToDraft(c) ==
    /\ request[c].pc = "item"
    /\ CanWrite(c)
    /\ drafted' = drafted \cup request[c].last
    /\ Answers(c)
    /\ UNCHANGED <<proposed, outcomes, turns, draft, chunkRows>>

\* The first candidate of a chunk gets its row, unless an earlier import of the same file
\* has left one; there is no commit before the next remember.
ChunkRow(c) ==
    LET r == request[c]
        old == {row \in chunkRows : row.at = r.at}
        new == {[at |-> r.at, of |-> k] : k \in {l \in r.last : First(r.last, l)}}
        row == IF old = {} THEN new ELSE {}
    IN
    /\ r.pc = "row"
    /\ r.last # {} => CanWrite(c)
    /\ Goes(c, IF r.at < Chunks THEN [r EXCEPT !.pc = "begin", !.at = @ + 1, !.row = row]
               ELSE [r EXCEPT !.pc = "end", !.row = row])
    /\ writeLock' = IF r.last = {} THEN writeLock ELSE c
    /\ UNCHANGED <<proposed, outcomes, turns, draft, drafted, chunkRows, answered>>

\* Mutant: the commit after the loop is forgotten.
EndOfFile_Uncommitted(c) ==
    /\ request[c].pc = "end"
    /\ Answers(c)
    /\ UNCHANGED <<proposed, outcomes, turns, draft, drafted, chunkRows>>

\* The commit after the loop.
EndOfFile(c) ==
    /\ request[c].pc = "end"
    /\ chunkRows' = chunkRows \cup request[c].row
    /\ Answers(c)
    /\ UNCHANGED <<proposed, outcomes, turns, draft, drafted>>

\* Review, as CandidateReview has it: a pending candidate is approved, a memory deleted.
Reviewed(k, new) ==
    /\ writeLock = Noone
    /\ proposed[k].mem = IF new = "active" THEN "none" ELSE "active"
    /\ proposed' = [proposed EXCEPT ![k].mem = new]
    /\ UNCHANGED <<outcomes, turns, draft, drafted, chunkRows, request, writeLock, answered>>

IntakeStep(c) ==
    \/ \E job \in Job, inDraft \in BOOLEAN : (inDraft => job = "proposal") /\ Ask(c, job, inDraft)
    \/ Denied(c) \/ Begin(c) \/ Abort(c)
    \/ \E n \in 0 .. 2 : \E new \in [1 .. n -> {"none", "active"}] : Extracted(c, new)
    \/ RecordOutcome(c) \/ FindScope(c) \/ InsertScope(c) \/ AddToDraft(c)
    \/ ChunkRow(c) \/ EndOfFile(c)

IntakeNext ==
    \/ \E c \in Client : IntakeStep(c)
    \/ \E k \in DOMAIN proposed, new \in {"active", "inactive"} : Reviewed(k, new)

IntakeSpec == IntakeInit /\ [][IntakeNext]_intakeVars

----------------------------------------------------------------------------
(* Properties. *)

\* What was answered is in the tables.
Accounted(a) ==
    CASE a.job = "outcome" -> \E i \in DOMAIN outcomes :
                                IF a.made = {} THEN outcomes[i].of = 0 ELSE First(a.made, outcomes[i].of)
      [] a.job = "turn" -> \E i \in DOMAIN turns : turns[i].made = a.made
      [] a.job = "proposal" -> a.inDraft => draft /\ a.made \subseteq drafted
      [] OTHER -> TRUE

\* An answered request has left every record it promised; a turn and the candidates made
\* of it are saved together; and whatever interleaves or dies, the chunk table names one
\* candidate per chunk, made of that chunk, and misses a chunk that has a candidate only if
\* the import stopped there: each later chunk of the same import comes after its row.
IntakeIsComplete ==
    /\ \A a \in answered : Accounted(a)
    /\ \A a \in answered : a.job = "watch" =>
         \A k \in a.made : \E row \in chunkRows : row.at = proposed[k].at
    /\ \A k \in DOMAIN proposed : proposed[k].job = "turn" => \E i \in DOMAIN turns : k \in turns[i].made
    /\ \A i, j \in DOMAIN turns : i # j => turns[i].made \cap turns[j].made = {}
    /\ \A row \in chunkRows :
         /\ proposed[row.of].job = "watch" /\ proposed[row.of].at = row.at
         /\ \A other \in chunkRows : other.at = row.at => other = row
    /\ \A c \in Client : request[c].job = "watch" =>
         \A k \in request[c].made : proposed[k].at < request[c].at - 1 =>
           \E row \in chunkRows : row.at = proposed[k].at

\* The outcomes a pack or a comparison of outcomes is made of are those of active memories.
LessonsAreOfActiveMemories ==
    \A i \in DOMAIN outcomes : outcomes[i].status = "active" => proposed[outcomes[i].of].mem = "active"
=============================================================================
