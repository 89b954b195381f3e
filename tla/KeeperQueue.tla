---------------------------- MODULE KeeperQueue ----------------------------
(***************************************************************************)
(* The saved turn and its Keeper job (MemoryStore.after_saved_turn,        *)
(* MemoryStore.process_keeper_jobs in store.py, run_keeper_worker_daemon   *)
(* in worker.py).                                                          *)
(*                                                                         *)
(* Runtimes call after_saved_turn: it records the exchange and then either *)
(* runs the Keeper at once (sync) or leaves a queued job for the worker    *)
(* processes.  The idempotency key of a call is the digest of all it       *)
(* carries, so a key stands for one exchange in one keeper mode.  Clients  *)
(* and workers are SQLite connections: reads before a first write hold no  *)
(* lock, and from its first write to its commit one connection alone may   *)
(* write.  A process may die between any two steps.                        *)
(***************************************************************************)
EXTENDS Naturals, FiniteSets

CONSTANTS
    Key,            \* idempotency keys
    Sync,           \* the keys of sync calls; the others are queued
    Silent,         \* queued keys that only name a turn nobody recorded
    Client,         \* runtime connections inside after_saved_turn
    Worker,         \* processes inside process_keeper_jobs
    Limit,          \* the limit argument of process_keeper_jobs
    MaxCalls,       \* bound: calls of after_saved_turn
    MaxCrashes      \* bound: deaths of worker processes

ASSUME KeyAssumption ==
    /\ IsFiniteSet(Key)
    /\ Sync \subseteq Key /\ Silent \subseteq Key \ Sync
ASSUME LimitAssumption == Limit \in Nat \ {0}
ASSUME BoundAssumption == MaxCalls \in Nat /\ MaxCrashes \in Nat

VARIABLES
    job,        \* keeper_jobs.status of the key's row, "none" if there is no row
    turns,      \* how often the exchange was recorded in conversation_turns
    drafts,     \* how many committed remember calls extracted from it
    client,     \* where each client's after_saved_turn is
    todo,       \* the jobs a worker has fetched and not yet handled
    outcome,    \* the job a worker has handled and not yet updated
    pending,    \* a worker's uncommitted UPDATEs of keeper_jobs.status
    calls, crashes

vars == <<job, turns, drafts, client, todo, outcome, pending, calls, crashes>>
work == <<todo, outcome, pending, crashes>>

Remembered == {"completed", "quarantined"}
Final == Remembered \cup {"failed", "denied", "empty"}
Status == Final \cup {"queued"}

Nothing == [k \in Key |-> "none"]
Idle == [pc |-> "idle"]
InCall(p, k, s) == [pc |-> p, key |-> k, status |-> s]
Unhandled == [status |-> "none"]
Handled(k, s) == [key |-> k, status |-> s]

TypeOK ==
    /\ job \in [Key -> Status \cup {"none"}]
    /\ turns \in [Key -> Nat] /\ drafts \in [Key -> Nat]
    /\ client \in [Client -> {Idle} \cup
                     {InCall(p, k, s) : p \in {"record", "remember", "insert"},
                                        k \in Key, s \in Status}]
    /\ todo \in [Worker -> SUBSET Key]
    /\ outcome \in [Worker -> {Unhandled} \cup {Handled(k, s) : k \in Key, s \in Final}]
    /\ pending \in [Worker -> [Key -> Final \cup {"none"}]]
    /\ calls \in Nat /\ crashes \in Nat

Init ==
    /\ job = Nothing
    /\ turns = [k \in Key |-> 0] /\ drafts = [k \in Key |-> 0]
    /\ client = [c \in Client |-> Idle]
    /\ todo = [w \in Worker |-> {}]
    /\ outcome = [w \in Worker |-> Unhandled]
    /\ pending = [w \in Worker |-> Nothing]
    /\ calls = 0 /\ crashes = 0

\* The write lock is held by the worker with uncommitted updates, if there is one.
WritableBy(others) == \A w \in others : pending[w] = Nothing

----------------------------------------------------------------------------
(* after_saved_turn *)

\* The key has a job already: the call is answered from its row.
Replay(c, k) ==
    /\ client[c] = Idle /\ calls < MaxCalls
    /\ job[k] # "none"
    /\ calls' = calls + 1
    /\ UNCHANGED <<job, turns, drafts, client, work>>

\* No job was found, in a read that holds no lock.
Call(c, k) ==
    /\ client[c] = Idle /\ calls < MaxCalls
    /\ job[k] = "none"
    /\ calls' = calls + 1
    /\ client' = [client EXCEPT ![c] = InCall("record", k, "queued")]
    /\ UNCHANGED <<job, turns, drafts, work>>

\* record_turn commits the exchange by itself.  (Its two turns are recorded one
\* after the other; turns counts the first.)
Record(c) ==
    /\ client[c].pc = "record"
    /\ WritableBy(Worker)
    /\ LET k == client[c].key IN
         /\ turns' = [turns EXCEPT ![k] = IF k \in Silent THEN @ ELSE @ + 1]
         /\ client' = [client EXCEPT ![c] =
                         InCall(IF k \in Sync THEN "remember" ELSE "insert", k, "queued")]
    /\ UNCHANGED <<job, drafts, work, calls>>

\* A sync call's remember commits the event and its candidates ...
SyncRemember(c) ==
    /\ client[c].pc = "remember"
    /\ WritableBy(Worker)
    /\ drafts' = [drafts EXCEPT ![client[c].key] = @ + 1]
    /\ \E s \in Remembered :
         client' = [client EXCEPT ![c] = InCall("insert", client[c].key, s)]
    /\ UNCHANGED <<job, turns, work, calls>>

\* ... or raises (a denied write included) and is rolled back.
SyncFails(c) ==
    /\ client[c].pc = "remember"
    /\ client' = [client EXCEPT ![c] = InCall("insert", client[c].key, "failed")]
    /\ UNCHANGED <<job, turns, drafts, work, calls>>

\* Mutant: INSERT OR REPLACE.
Inserted_Replaces(k, s) == [job EXCEPT ![k] = s]

\* A second row of a key raises and changes nothing (idx_keeper_jobs_idempotency).
Inserted(k, s) == IF job[k] = "none" THEN [job EXCEPT ![k] = s] ELSE job

Insert(c) ==
    /\ client[c].pc = "insert"
    /\ WritableBy(Worker)
    /\ job' = Inserted(client[c].key, client[c].status)
    /\ client' = [client EXCEPT ![c] = Idle]
    /\ UNCHANGED <<turns, drafts, work, calls>>

\* The runtime dies, or waits for the lock too long.  Its retry is another call.
Abandon(c) ==
    /\ client[c] # Idle
    /\ client' = [client EXCEPT ![c] = Idle]
    /\ UNCHANGED <<job, turns, drafts, work, calls>>

----------------------------------------------------------------------------
(* process_keeper_jobs *)

Queued == {k \in Key : job[k] = "queued"}

\* Mutant: the WHERE clause is gone.
Fetch_AnyStatus(w) ==
    /\ todo[w] = {} /\ outcome[w] = Unhandled /\ pending[w] = Nothing
    /\ \E batch \in (SUBSET {k \in Key : job[k] # "none"}) \ {{}} :
         /\ Cardinality(batch) <= Limit
         /\ todo' = [todo EXCEPT ![w] = batch]
    /\ UNCHANGED <<job, turns, drafts, client, outcome, pending, calls, crashes>>

\* The oldest queued rows, read without a lock and without a claim.  created_at
\* counts seconds, so the rows of a burst come in any order: any rows may be the
\* oldest, and a worker handles its rows in any order.
Fetch(w) ==
    /\ todo[w] = {} /\ outcome[w] = Unhandled /\ pending[w] = Nothing
    /\ \E batch \in (SUBSET Queued) \ {{}} :
         /\ Cardinality(batch) <= Limit
         /\ batch # Queued => Cardinality(batch) = Limit
         /\ todo' = [todo EXCEPT ![w] = batch]
    /\ UNCHANGED <<job, turns, drafts, client, outcome, pending, calls, crashes>>

Committed(w) == [k \in Key |-> IF pending[w][k] # "none" THEN pending[w][k] ELSE job[k]]

\* Mutant: an exception does not change the status the loop started with.
FailureStatus_Completed == "completed"

\* Mutant: the code of the failure is stored as the status.
FailureStatus_Code == "keeper_failed"

FailureStatus == "failed"

\* The worker takes the next job k of its batch and ends up with status s.
Handle(w, k, s) ==
    /\ k \in todo[w] /\ outcome[w] = Unhandled
    /\ todo' = [todo EXCEPT ![w] = @ \ {k}]
    /\ outcome' = [outcome EXCEPT ![w] = Handled(k, s)]

\* remember commits, and with it the updates of the jobs handled before.
Remember(w, k) ==
    /\ k \notin Silent
    /\ WritableBy(Worker \ {w})
    /\ \E s \in Remembered : Handle(w, k, s)
    /\ drafts' = [drafts EXCEPT ![k] = @ + 1]
    /\ job' = Committed(w)
    /\ pending' = [pending EXCEPT ![w] = Nothing]
    /\ UNCHANGED <<turns, client, calls, crashes>>

\* A denied write is audited, and committed with the earlier updates.
Denied(w, k) ==
    /\ k \notin Silent
    /\ WritableBy(Worker \ {w})
    /\ Handle(w, k, "denied")
    /\ job' = Committed(w)
    /\ pending' = [pending EXCEPT ![w] = Nothing]
    /\ UNCHANGED <<turns, drafts, client, calls, crashes>>

\* Any other exception, a wait for the lock included, rolls back the transaction:
\* the updates of the jobs handled before are in it.
Fails(w, k) ==
    /\ k \notin Silent
    /\ Handle(w, k, FailureStatus)
    /\ pending' = [pending EXCEPT ![w] = Nothing]
    /\ UNCHANGED <<job, turns, drafts, client, calls, crashes>>

NothingToRead(w, k) ==
    /\ k \in Silent
    /\ Handle(w, k, "empty")
    /\ UNCHANGED <<job, turns, drafts, client, pending, calls, crashes>>

\* The UPDATE starts a transaction, or goes on with the worker's own.
Update(w) ==
    /\ outcome[w] # Unhandled
    /\ WritableBy(Worker \ {w})
    /\ pending' = [pending EXCEPT ![w][outcome[w].key] = outcome[w].status]
    /\ outcome' = [outcome EXCEPT ![w] = Unhandled]
    /\ UNCHANGED <<job, turns, drafts, client, todo, calls, crashes>>

\* Mutant: the commit after the loop is missing; closing the connection rolls back.
Finish_NoCommit(w) ==
    /\ todo[w] = {} /\ outcome[w] = Unhandled /\ pending[w] # Nothing
    /\ pending' = [pending EXCEPT ![w] = Nothing]
    /\ UNCHANGED <<job, turns, drafts, client, todo, outcome, calls, crashes>>

Finish(w) ==
    /\ todo[w] = {} /\ outcome[w] = Unhandled /\ pending[w] # Nothing
    /\ job' = Committed(w)
    /\ pending' = [pending EXCEPT ![w] = Nothing]
    /\ UNCHANGED <<turns, drafts, client, todo, outcome, calls, crashes>>

\* The process dies (a wait for the lock at an UPDATE kills it, too) and its
\* supervisor starts another one.
Crash(w) ==
    /\ crashes < MaxCrashes
    /\ \/ todo[w] # {}
       \/ outcome[w] # Unhandled
       \/ pending[w] # Nothing
    /\ crashes' = crashes + 1
    /\ todo' = [todo EXCEPT ![w] = {}]
    /\ outcome' = [outcome EXCEPT ![w] = Unhandled]
    /\ pending' = [pending EXCEPT ![w] = Nothing]
    /\ UNCHANGED <<job, turns, drafts, client, calls>>

----------------------------------------------------------------------------
ClientStep(c) ==
    \/ \E k \in Key : Replay(c, k)
    \/ \E k \in Key : Call(c, k)
    \/ Record(c)
    \/ SyncRemember(c)
    \/ SyncFails(c)
    \/ Insert(c)
    \/ Abandon(c)

WorkerStep(w) ==
    \/ Fetch(w)
    \/ \E k \in Key : Remember(w, k)
    \/ \E k \in Key : Denied(w, k)
    \/ \E k \in Key : Fails(w, k)
    \/ \E k \in Key : NothingToRead(w, k)
    \/ Update(w)
    \/ Finish(w)

Next ==
    \/ \E c \in Client : ClientStep(c)
    \/ \E w \in Worker : WorkerStep(w)
    \/ \E w \in Worker : Crash(w)

Spec == Init /\ [][Next]_vars

\* The daemon polls for ever and its unit has Restart=always: a worker that can
\* take a step takes one.  Nothing is assumed of clients.
FairSpec == Spec /\ \A w \in Worker : WF_vars(WorkerStep(w))

----------------------------------------------------------------------------
(* A job that says its exchange was remembered is not alone: the event of a       *)
(* committed remember call exists, whatever crashed, was rolled back or was      *)
(* processed twice.                                                               *)
CompletedIsRemembered == \A k \in Key : job[k] \in Remembered => drafts[k] > 0

(* The raw exchange is stored before extraction: no event of the Keeper and no   *)
(* job exists without the turns it came from.                                     *)
DraftsComeFromTurns ==
    \A k \in Key \ Silent : drafts[k] > 0 \/ job[k] # "none" => turns[k] > 0

(* Neither a job nor an event tells of something that is not there.               *)
JobsTellTheTruth == CompletedIsRemembered /\ DraftsComeFromTurns

(* With one worker that fetches one job at a time, an exchange is extracted a    *)
(* second time only when the worker died between remember's commit and the       *)
(* commit of the job's status; repeated and racing calls add nothing.             *)
DuplicatesAreCrashes == \A k \in Key \ Sync : drafts[k] <= 1 + crashes

(* With one worker, a finished job keeps its status: neither a repeated call,    *)
(* nor a crash, nor a rollback brings it back into the queue or changes how it   *)
(* ended.                                                                         *)
FinishedStaysFinished ==
    [][\A k \in Key : job[k] \in Final => job'[k] = job[k]]_vars

(* A queued job is finished in the end, with any number of workers, although a   *)
(* failing job rolls back the updates of the jobs before it and workers die, as  *)
(* long as they do not die for ever.                                              *)
QueueDrains == \A k \in Key : job[k] = "queued" ~> job[k] \in Final

----------------------------------------------------------------------------
(* docs/full-memory-gap-plan.md:795: "A saved turn creates a job, the worker     *)
(* processes it once".  Two workers process a job each, and one worker repeats a *)
(* job whose update is rolled back by the failure of the next job of its batch.   *)
RememberedOnce == \A k \in Key \ Sync : drafts[k] <= 1
============================================================================
