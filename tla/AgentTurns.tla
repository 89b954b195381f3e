----------------------------- MODULE AgentTurns -----------------------------
(***************************************************************************)
(* Runtimes that keep one store open: a MemoryOrchestrator, and the Hermes *)
(* provider around it.  A host runs turns of an agent (run_agent_turn) and *)
(* shadow turns (shadow_turn), and in between calls operations that write  *)
(* (remember, ingest_graph, import_profile and others).                    *)
(*                                                                         *)
(* The store does not roll back when an operation raises.  A request's     *)
(* connection is closed then, but a host's goes on: its transaction stays  *)
(* open, holds the write lock, and is committed with whatever the host     *)
(* commits next.                                                           *)
(*                                                                         *)
(* Each action ends with a commit, a rollback, or a call that writes and   *)
(* waits.  What the Router and the extractor do inside is in Router and    *)
(* Intake; the worker that handles queued jobs is in KeeperQueue.          *)
(***************************************************************************)
EXTENDS Naturals, Sequences

CONSTANTS
    Host,       \* processes with a store of their own
    NoHost,
    Exchange,   \* what is asked and answered, with all that is in the idempotency key
    Queued,     \* exchanges whose Keeper is to run later
    MaxTurn,    \* bound of an instance: turns
    MaxWork     \* bound of an instance: writing operations

ASSUME HostAssumption == NoHost \notin Host /\ Queued \subseteq Exchange /\ "call" \notin Exchange
ASSUME TurnBounds == MaxTurn \in Nat /\ MaxWork \in Nat

VARIABLES
    session,    \* what each host is in the middle of
    locker,     \* the host whose transaction has written
    turnLog,    \* the turns, in order: router_runs and shadow_traces with how the call ended
    works,      \* the operations and extractions, in order, and what of them is in the tables
    kept,       \* conversation_turns: the texts of each exchange
    keeperJob   \* keeper_jobs: status, by idempotency key

turnVars == <<session, locker, turnLog, works, kept, keeperJob>>

AtRest == [pc |-> "idle", turn |-> 0, work |-> 0, status |-> "none", raised |-> FALSE]

SessionRow ==
    [pc : {"idle", "routed", "check", "user", "assistant", "extract", "extracting", "job",
           "trace", "writing"},
     turn : 0 .. MaxTurn, work : 0 .. MaxWork,
     status : {"none", "completed", "failed"}, raised : BOOLEAN]
TurnRow ==
    [of : Exchange, shadow : BOOLEAN, traced : BOOLEAN, status : {"running", "completed", "raised"}]
WorkRow ==
    [by : Host, of : Exchange \cup {"call"}, state : {"open", "part", "whole", "gone"},
     answer : {"none", "done", "raised"}]

TurnTypeOK ==
    /\ session \in [Host -> SessionRow]
    /\ locker \in Host \cup {NoHost}
    /\ turnLog \in Seq(TurnRow)
    /\ works \in Seq(WorkRow)
    /\ kept \in [Exchange -> SUBSET {"user", "assistant"}]
    /\ keeperJob \in [Exchange -> {"none", "queued", "completed", "failed"}]

TurnInit ==
    /\ session = [h \in Host |-> AtRest]
    /\ locker = NoHost
    /\ turnLog = <<>> /\ works = <<>>
    /\ kept = [e \in Exchange |-> {}]
    /\ keeperJob = [e \in Exchange |-> "none"]

At(h, pc) == session[h].pc = pc
Turn(h) == turnLog[session[h].turn]
MovesTo(h, pc) == session' = [session EXCEPT ![h].pc = pc]
CanWrite(h) == locker \in {NoHost, h}

\* COMMIT: with the whole of what is in W, and whatever else is in the transaction.
Commits(h, W) ==
    /\ locker' = NoHost
    /\ works' = [i \in DOMAIN works |->
         IF i \in W THEN [works[i] EXCEPT !.state = "whole", !.answer = "done"]
         ELSE IF works[i].by = h /\ works[i].state = "open" THEN [works[i] EXCEPT !.state = "part"]
         ELSE works[i]]

RollsBack(h) ==
    /\ locker' = IF locker = h THEN NoHost ELSE locker
    /\ works' = [i \in DOMAIN works |->
         IF works[i].by = h /\ works[i].state = "open" THEN [works[i] EXCEPT !.state = "gone"]
         ELSE works[i]]

\* The host gets an answer, or an exception.
EndsTurn(h, status) ==
    /\ session' = [session EXCEPT ![h] = [AtRest EXCEPT !.raised = (status = "raised")]]
    /\ turnLog' = [turnLog EXCEPT ![session[h].turn].status = status]

----------------------------------------------------------------------------
(* The turns. *)

\* before_model_call: whatever goes wrong in its reads, a router run is committed.
Route(h, e, shadow) ==
    /\ At(h, "idle") /\ CanWrite(h) /\ Len(turnLog) < MaxTurn
    /\ turnLog' = Append(turnLog,
         [of |-> e, shadow |-> shadow, traced |-> FALSE, status |-> "running"])
    /\ session' = [session EXCEPT ![h] =
         [AtRest EXCEPT !.pc = IF shadow THEN "check" ELSE "routed", !.turn = Len(turnLog) + 1]]
    /\ Commits(h, {})
    /\ UNCHANGED <<kept, keeperJob>>

\* main_agent answers; or it raises, or no text is found in what it returns.
Ask(h, answers) ==
    /\ At(h, "routed")
    /\ \/ answers /\ MovesTo(h, "check") /\ UNCHANGED turnLog
       \/ ~answers /\ EndsTurn(h, "raised")
    /\ UNCHANGED <<locker, works, kept, keeperJob>>

\* The last step of a turn, or the one before the trace of a shadow turn.
Concludes(h) ==
    IF Turn(h).shadow THEN MovesTo(h, "trace") /\ UNCHANGED turnLog ELSE EndsTurn(h, "completed")

\* after_saved_turn answers from a job of the same key, in any status.
CheckKey(h) ==
    /\ At(h, "check")
    /\ IF keeperJob[Turn(h).of] # "none" THEN Concludes(h)
       ELSE MovesTo(h, "user") /\ UNCHANGED turnLog
    /\ UNCHANGED <<locker, works, kept, keeperJob>>

\* record_turn, for what the user said and then for the answer.
SaveText(h, who) ==
    /\ At(h, who) /\ who \in {"user", "assistant"} /\ CanWrite(h)
    /\ kept' = [kept EXCEPT ![Turn(h).of] = @ \cup {who}]
    /\ MovesTo(h, IF who = "user" THEN "assistant"
               ELSE IF Turn(h).of \in Queued THEN "job" ELSE "extract")
    /\ Commits(h, {})
    /\ UNCHANGED <<turnLog, keeperJob>>

\* remember inserts the event, and asks the extractor.
Extract(h) ==
    /\ At(h, "extract") /\ CanWrite(h) /\ Len(works) < MaxWork
    /\ works' = Append(works, [by |-> h, of |-> Turn(h).of, state |-> "open", answer |-> "none"])
    /\ session' = [session EXCEPT ![h].pc = "extracting", ![h].work = Len(works) + 1]
    /\ locker' = h
    /\ UNCHANGED <<turnLog, kept, keeperJob>>

Extracted(h) ==
    /\ At(h, "extracting")
    /\ session' = [session EXCEPT ![h].pc = "job", ![h].status = "completed"]
    /\ Commits(h, {session[h].work})
    /\ UNCHANGED <<turnLog, kept, keeperJob>>

\* Mutant: the failure is noted, and the transaction goes on.
KeeperFails_GoesOn(h) ==
    /\ At(h, "extracting") \/ (At(h, "extract") /\ ~CanWrite(h))
    /\ session' = [session EXCEPT ![h].pc = "job", ![h].status = "failed"]
    /\ UNCHANGED <<locker, works, turnLog, kept, keeperJob>>

\* The extractor raises, or the database is locked: the transaction is rolled back.
KeeperFails(h) ==
    /\ At(h, "extracting") \/ (At(h, "extract") /\ ~CanWrite(h))
    /\ session' = [session EXCEPT ![h].pc = "job", ![h].status = "failed"]
    /\ RollsBack(h)
    /\ UNCHANGED <<turnLog, kept, keeperJob>>

\* The key is UNIQUE: the row of a session that was faster makes this one raise, and the
\* transaction that the INSERT began stays open.
RecordJob(h) ==
    LET e == Turn(h).of IN
    /\ At(h, "job") /\ CanWrite(h)
    /\ IF keeperJob[e] = "none"
       THEN /\ keeperJob' = [keeperJob EXCEPT ![e] = IF e \in Queued THEN "queued"
                                                     ELSE session[h].status]
            /\ Concludes(h)
            /\ Commits(h, {})
       ELSE /\ EndsTurn(h, "raised")
            /\ locker' = h
            /\ UNCHANGED <<works, keeperJob>>
    /\ UNCHANGED kept

Trace(h) ==
    /\ At(h, "trace") /\ CanWrite(h)
    /\ turnLog' = [turnLog EXCEPT ![session[h].turn].traced = TRUE,
                                  ![session[h].turn].status = "completed"]
    /\ session' = [session EXCEPT ![h] = AtRest]
    /\ Commits(h, {})
    /\ UNCHANGED <<kept, keeperJob>>

\* "database is locked", after the busy timeout: what was committed before stays.
Locked(h) ==
    /\ session[h].pc \in {"user", "assistant", "job", "trace"} /\ ~CanWrite(h)
    /\ EndsTurn(h, "raised")
    /\ UNCHANGED <<locker, works, kept, keeperJob>>

----------------------------------------------------------------------------
(* Other operations of a host, and its end. *)

\* The first write of an operation.
StartWork(h) ==
    /\ At(h, "idle") /\ CanWrite(h) /\ Len(works) < MaxWork
    /\ works' = Append(works, [by |-> h, of |-> "call", state |-> "open", answer |-> "none"])
    /\ session' = [session EXCEPT ![h] = [AtRest EXCEPT !.pc = "writing", !.work = Len(works) + 1]]
    /\ locker' = h
    /\ UNCHANGED <<turnLog, kept, keeperJob>>

FinishWork(h) ==
    /\ At(h, "writing")
    /\ session' = [session EXCEPT ![h] = AtRest]
    /\ Commits(h, {session[h].work})
    /\ UNCHANGED <<turnLog, kept, keeperJob>>

\* An extractor, a foreign key or an unreadable row raises: nothing is rolled back.
FailWork(h) ==
    /\ At(h, "writing")
    /\ session' = [session EXCEPT ![h] = [AtRest EXCEPT !.raised = TRUE]]
    /\ works' = [works EXCEPT ![session[h].work].answer = "raised"]
    /\ UNCHANGED <<locker, turnLog, kept, keeperJob>>

\* The process ends, or closes its store: SQLite rolls back.
CloseHost(h) ==
    /\ session[h] # AtRest \/ locker = h
    /\ session' = [session EXCEPT ![h] = AtRest]
    /\ turnLog' = [i \in DOMAIN turnLog |->
         IF i = session[h].turn THEN [turnLog[i] EXCEPT !.status = "raised"] ELSE turnLog[i]]
    /\ RollsBack(h)
    /\ UNCHANGED <<kept, keeperJob>>

TurnNext ==
    \E h \in Host :
      \/ \E e \in Exchange, shadow \in BOOLEAN : Route(h, e, shadow)
      \/ \E answers \in BOOLEAN : Ask(h, answers)
      \/ CheckKey(h)
      \/ \E who \in {"user", "assistant"} : SaveText(h, who)
      \/ Extract(h) \/ Extracted(h) \/ KeeperFails(h)
      \/ RecordJob(h) \/ Trace(h) \/ Locked(h)
      \/ StartWork(h) \/ FinishWork(h) \/ FailWork(h) \/ CloseHost(h)

TurnSpec == TurnInit /\ [][TurnNext]_turnVars

----------------------------------------------------------------------------
(* Properties. *)

\* A turn that was answered has both of its texts and its job in the tables, and its trace if
\* it is a shadow turn.  What is extracted of an exchange is there as a whole or not at all,
\* also when the extractor fails in a session that goes on, and only after both texts; a job
\* says "completed" only of an exchange that was extracted.  An operation that was answered
\* is there as a whole, and only one that raised can be there in part.  The write lock is
\* held by an idle host only after a call that raised.
TurnsAreWhole ==
    /\ \A i \in DOMAIN turnLog :
         LET t == turnLog[i] IN
         t.status = "completed" =>
           /\ kept[t.of] = {"user", "assistant"} /\ keeperJob[t.of] # "none"
           /\ t.traced = t.shadow
    /\ \A i \in DOMAIN works :
         LET w == works[i] IN
         /\ w.of \in Exchange => w.state # "part" /\ kept[w.of] = {"user", "assistant"}
         /\ w.answer = "done" <=> w.state = "whole"
         /\ w.state = "part" => w.answer = "raised"
    /\ \A e \in Exchange : keeperJob[e] = "completed" =>
         \E i \in DOMAIN works : works[i].of = e /\ works[i].state = "whole"
    /\ \A h \in Host : locker = h /\ At(h, "idle") => session[h].raised
=============================================================================
