------------------------- MODULE KeeperQueueProofs -------------------------
(***************************************************************************)
(* Proofs about KeeperQueue for any keys, clients, workers, batch limits   *)
(* and bounds: what holds however calls, workers and crashes interleave    *)
(* (Inv), what a single worker adds (SingleInv) and what batches of one    *)
(* job add to that (OneJobInv).                                            *)
(***************************************************************************)
EXTENDS KeeperQueue, FiniteSetTheorems, TLAPS

\* The fields of a client that is inside after_saved_turn.
LEMMA ClientFields ==
    ASSUME TypeOK, NEW c \in Client, client[c] # Idle
    PROVE  /\ client[c].pc \in {"record", "remember", "insert"}
           /\ client[c].key \in Key
           /\ client[c].status \in Status
  BY DEF TypeOK, InCall

\* The fields of a worker's handled job.
LEMMA OutcomeFields ==
    ASSUME TypeOK, NEW w \in Worker, outcome[w] # Unhandled
    PROVE  outcome[w].key \in Key /\ outcome[w].status \in Final
  BY DEF TypeOK, Handled

\* A commit of a worker keeps the rows and statuses that its updates name.
LEMMA CommittedType ==
    ASSUME TypeOK, NEW w \in Worker
    PROVE  Committed(w) \in [Key -> Status \cup {"none"}]
  BY DEF TypeOK, Committed, Status

LEMMA InitType == Init => TypeOK
  BY BoundAssumption DEF Init, TypeOK, Nothing, Idle, Unhandled

LEMMA ClientType ==
    ASSUME TypeOK, NEW c \in Client, ClientStep(c)
    PROVE  TypeOK'
<1>1. ASSUME NEW k \in Key, Replay(c, k) PROVE TypeOK'
  BY <1>1 DEF Replay, TypeOK, work
<1>2. ASSUME NEW k \in Key, Call(c, k) PROVE TypeOK'
  BY <1>2 DEF Call, TypeOK, work, Status
<1>3. CASE Record(c)
  <2>1. client[c] # Idle
    BY <1>3 DEF Record, Idle
  <2>2. client[c].key \in Key
    BY <2>1, ClientFields
  <2> QED
    BY <1>3, <2>2 DEF Record, TypeOK, work, Status
<1>4. CASE SyncRemember(c)
  <2>1. client[c] # Idle
    BY <1>4 DEF SyncRemember, Idle
  <2>2. client[c].key \in Key
    BY <2>1, ClientFields
  <2>3. PICK s \in Remembered :
           client' = [client EXCEPT ![c] = InCall("insert", client[c].key, s)]
    BY <1>4 DEF SyncRemember
  <2>4. s \in Status
    BY DEF Status, Final
  <2> QED
    BY <1>4, <2>2, <2>3, <2>4 DEF SyncRemember, TypeOK, work
<1>5. CASE SyncFails(c)
  <2>1. client[c] # Idle
    BY <1>5 DEF SyncFails, Idle
  <2>2. client[c].key \in Key
    BY <2>1, ClientFields
  <2> QED
    BY <1>5, <2>2 DEF SyncFails, TypeOK, work, Status, Final
<1>6. CASE Insert(c)
  <2>1. client[c] # Idle
    BY <1>6 DEF Insert, Idle
  <2>2. client[c].key \in Key /\ client[c].status \in Status
    BY <2>1, ClientFields
  <2> QED
    BY <1>6, <2>2 DEF Insert, Inserted, TypeOK, work
<1>7. CASE Abandon(c)
  BY <1>7 DEF Abandon, TypeOK, work
<1> QED
  BY <1>1, <1>2, <1>3, <1>4, <1>5, <1>6, <1>7 DEF ClientStep

\* A worker that takes a job of its batch keeps the types of what it holds.
LEMMA HandleType ==
    ASSUME TypeOK, NEW w \in Worker, NEW k \in Key, NEW s \in Final, Handle(w, k, s)
    PROVE  /\ todo' \in [Worker -> SUBSET Key]
           /\ outcome' \in [Worker -> {Unhandled} \cup
                                      {Handled(l, t) : l \in Key, t \in Final}]
<1>1. todo' \in [Worker -> SUBSET Key]
  BY DEF Handle, TypeOK
<1>2. outcome' \in [Worker -> {Unhandled} \cup
                                {Handled(l, t) : l \in Key, t \in Final}]
  BY DEF Handle, TypeOK
<1> QED
  BY <1>1, <1>2

LEMMA WorkerType ==
    ASSUME TypeOK, NEW w \in Worker, WorkerStep(w) \/ Crash(w)
    PROVE  TypeOK'
<1>0. Nothing \in [Key -> Final \cup {"none"}]
  BY DEF Nothing
<1>1. CASE Fetch(w)
  BY <1>1 DEF Fetch, Queued, TypeOK
<1>2. ASSUME NEW k \in Key, Remember(w, k) PROVE TypeOK'
  <2>1. PICK s \in Remembered : Handle(w, k, s)
    BY <1>2 DEF Remember
  <2>2. /\ todo' \in [Worker -> SUBSET Key]
        /\ outcome' \in [Worker -> {Unhandled} \cup
                                   {Handled(l, t) : l \in Key, t \in Final}]
    BY <2>1, HandleType DEF Final, Remembered
  <2>3. drafts' \in [Key -> Nat]
    BY <1>2 DEF Remember, TypeOK
  <2>4. job' \in [Key -> Status \cup {"none"}]
    BY <1>2, CommittedType DEF Remember
  <2>5. pending' \in [Worker -> [Key -> Final \cup {"none"}]]
    BY <1>0, <1>2 DEF Remember, TypeOK
  <2> QED
    BY <1>2, <2>2, <2>3, <2>4, <2>5 DEF Remember, TypeOK
<1>3. ASSUME NEW k \in Key, Denied(w, k) PROVE TypeOK'
  <2>1. /\ todo' \in [Worker -> SUBSET Key]
        /\ outcome' \in [Worker -> {Unhandled} \cup
                                   {Handled(l, t) : l \in Key, t \in Final}]
    BY <1>3, HandleType DEF Denied, Final
  <2>2. job' \in [Key -> Status \cup {"none"}]
    BY <1>3, CommittedType DEF Denied
  <2>3. pending' \in [Worker -> [Key -> Final \cup {"none"}]]
    BY <1>0, <1>3 DEF Denied, TypeOK
  <2> QED
    BY <1>3, <2>1, <2>2, <2>3 DEF Denied, TypeOK
<1>4. ASSUME NEW k \in Key, Fails(w, k) PROVE TypeOK'
  <2>1. /\ todo' \in [Worker -> SUBSET Key]
        /\ outcome' \in [Worker -> {Unhandled} \cup
                                   {Handled(l, t) : l \in Key, t \in Final}]
    BY <1>4, HandleType DEF Fails, FailureStatus, Final
  <2>2. pending' \in [Worker -> [Key -> Final \cup {"none"}]]
    BY <1>0, <1>4 DEF Fails, TypeOK
  <2> QED
    BY <1>4, <2>1, <2>2 DEF Fails, TypeOK
<1>5. ASSUME NEW k \in Key, NothingToRead(w, k) PROVE TypeOK'
  <2>1. /\ todo' \in [Worker -> SUBSET Key]
        /\ outcome' \in [Worker -> {Unhandled} \cup
                                   {Handled(l, t) : l \in Key, t \in Final}]
    BY <1>5, HandleType DEF NothingToRead, Final
  <2> QED
    BY <1>5, <2>1 DEF NothingToRead, TypeOK
<1>6. CASE Update(w)
  <2>1. outcome[w].key \in Key /\ outcome[w].status \in Final
    BY <1>6, OutcomeFields DEF Update
  <2> QED
    BY <1>6, <2>1 DEF Update, TypeOK
<1>7. CASE Finish(w)
  <2>1. job' \in [Key -> Status \cup {"none"}]
    BY <1>7, CommittedType DEF Finish
  <2> QED
    BY <1>0, <1>7, <2>1 DEF Finish, TypeOK
<1>8. CASE Crash(w)
  BY <1>0, <1>8 DEF Crash, TypeOK
<1> QED
  BY <1>1, <1>2, <1>3, <1>4, <1>5, <1>6, <1>7, <1>8 DEF WorkerStep

LEMMA NextType == TypeOK /\ [Next]_vars => TypeOK'
<1> SUFFICES ASSUME TypeOK, [Next]_vars PROVE TypeOK'
  OBVIOUS
<1>1. CASE UNCHANGED vars
  BY <1>1 DEF vars, TypeOK
<1>2. CASE Next
  BY <1>2, ClientType, WorkerType DEF Next
<1> QED
  BY <1>1, <1>2

(* The rows, the calls in progress and the workers' transactions keep their      *)
(* types (KeeperQueue, all of after_saved_turn and process_keeper_jobs).          *)
THEOREM TypeCorrect == Spec => []TypeOK
  BY InitType, NextType, PTL DEF Spec

----------------------------------------------------------------------------
(* What was remembered: the event exists before any status says so. *)

RememberedInv ==
    /\ TypeOK
    /\ CompletedIsRemembered
    /\ \A c \in Client :
         client[c].pc = "insert" /\ client[c].status \in Remembered
           => drafts[client[c].key] > 0
    /\ \A w \in Worker : outcome[w].status \in Remembered => drafts[outcome[w].key] > 0
    /\ \A w \in Worker, k \in Key : pending[w][k] \in Remembered => drafts[k] > 0

LEMMA InitRemembered == Init => RememberedInv
  BY InitType DEF Init, RememberedInv, CompletedIsRemembered, Nothing, Idle, Unhandled,
                  Remembered

\* A client that goes on without having remembered anything claims nothing.
LEMMA GoesOnUnremembered ==
    ASSUME RememberedInv, UNCHANGED drafts, NEW c \in Client, NEW p, NEW k, NEW s,
           s \notin Remembered, client' = [client EXCEPT ![c] = InCall(p, k, s)]
    PROVE  \A d \in Client :
             client'[d].pc = "insert" /\ client'[d].status \in Remembered
               => drafts'[client'[d].key] > 0
<1>1. client'[c].status = s
  BY DEF RememberedInv, TypeOK, InCall
<1>2. \A d \in Client : d # c => client'[d] = client[d]
  BY DEF RememberedInv, TypeOK
<1> QED
  BY <1>1, <1>2 DEF RememberedInv

\* A client whose call is over claims nothing either.
LEMMA GivesUpUnremembered ==
    ASSUME RememberedInv, UNCHANGED drafts, NEW c \in Client,
           client' = [client EXCEPT ![c] = Idle]
    PROVE  \A d \in Client :
             client'[d].pc = "insert" /\ client'[d].status \in Remembered
               => drafts'[client'[d].key] > 0
<1>1. client'[c].pc # "insert"
  BY DEF RememberedInv, TypeOK, Idle
<1>2. \A d \in Client : d # c => client'[d] = client[d]
  BY DEF RememberedInv, TypeOK
<1> QED
  BY <1>1, <1>2 DEF RememberedInv

LEMMA ClientRemembered ==
    ASSUME RememberedInv, NEW c \in Client, ClientStep(c)
    PROVE  RememberedInv'
<1>0. TypeOK /\ TypeOK'
  BY ClientType DEF RememberedInv
<1>00. "queued" \notin Remembered /\ "failed" \notin Remembered
  BY DEF Remembered
<1>1. ASSUME NEW k \in Key, Replay(c, k) PROVE RememberedInv'
  BY <1>0, <1>1 DEF Replay, RememberedInv, CompletedIsRemembered, work
<1>2. ASSUME NEW k \in Key, Call(c, k) PROVE RememberedInv'
  BY <1>0, <1>00, <1>2, GoesOnUnremembered
     DEF Call, RememberedInv, CompletedIsRemembered, work
<1>3. CASE Record(c)
  BY <1>0, <1>00, <1>3, GoesOnUnremembered
     DEF Record, RememberedInv, CompletedIsRemembered, work
<1>4. CASE SyncRemember(c)
  <2>1. client[c] # Idle
    BY <1>4 DEF SyncRemember, Idle
  <2>2. client[c].key \in Key
    BY <1>0, <2>1, ClientFields
  <2>3. \A k \in Key : drafts[k] > 0 => drafts'[k] > 0
    BY <1>0, <1>4 DEF SyncRemember, TypeOK
  <2>4. drafts'[client[c].key] > 0
    BY <1>0, <1>4, <2>2 DEF SyncRemember, TypeOK
  <2>5. \A d \in Client :
          client'[d].pc = "insert" /\ client'[d].status \in Remembered
            => drafts'[client'[d].key] > 0
    <3>1. PICK s \in Remembered :
             client' = [client EXCEPT ![c] = InCall("insert", client[c].key, s)]
      BY <1>4 DEF SyncRemember
    <3>2. client'[c].key = client[c].key
      BY <1>0, <3>1 DEF InCall, TypeOK
    <3>3. ASSUME NEW d \in Client, d # c, client[d].pc = "insert",
                 client[d].status \in Remembered
          PROVE  drafts'[client[d].key] > 0
      <4>1. client[d].key \in Key
        BY <1>0, <3>3, ClientFields DEF Idle
      <4> QED
        BY <2>3, <3>3, <4>1 DEF RememberedInv
    <3>4. \A d \in Client : d # c => client'[d] = client[d]
      BY <1>0, <3>1 DEF TypeOK
    <3> QED
      BY <2>4, <3>2, <3>3, <3>4
  <2>6. \A w \in Worker : outcome[w].status \in Remembered => drafts'[outcome[w].key] > 0
    BY <1>0, <2>3, OutcomeFields DEF RememberedInv, Unhandled, Remembered
  <2> QED
    BY <1>0, <1>4, <2>3, <2>5, <2>6
       DEF SyncRemember, RememberedInv, CompletedIsRemembered, work
<1>5. CASE SyncFails(c)
  BY <1>0, <1>00, <1>5, GoesOnUnremembered
     DEF SyncFails, RememberedInv, CompletedIsRemembered, work
<1>6. CASE Insert(c)
  <2>1. client[c] # Idle
    BY <1>6 DEF Insert, Idle
  <2>2. client[c].key \in Key
    BY <1>0, <2>1, ClientFields
  <2>3. CompletedIsRemembered'
    BY <1>0, <1>6, <2>2 DEF Insert, Inserted, RememberedInv, CompletedIsRemembered, TypeOK
  <2> QED
    BY <1>0, <1>6, <2>3, GivesUpUnremembered DEF Insert, RememberedInv, work
<1>7. CASE Abandon(c)
  BY <1>0, <1>7, GivesUpUnremembered DEF Abandon, RememberedInv, CompletedIsRemembered, work
<1> QED
  BY <1>1, <1>2, <1>3, <1>4, <1>5, <1>6, <1>7 DEF ClientStep

\* A commit of updates that are backed by events.
LEMMA CommitRemembered ==
    ASSUME RememberedInv, NEW w \in Worker, NEW k \in Key,
           Committed(w)[k] \in Remembered
    PROVE  drafts[k] > 0
  BY DEF RememberedInv, CompletedIsRemembered, Committed

LEMMA WorkerRemembered ==
    ASSUME RememberedInv, NEW w \in Worker, WorkerStep(w) \/ Crash(w)
    PROVE  RememberedInv'
<1>0. TypeOK /\ TypeOK'
  BY WorkerType DEF RememberedInv
<1>00. "none" \notin Remembered /\ "failed" \notin Remembered
       /\ "denied" \notin Remembered /\ "empty" \notin Remembered
  BY DEF Remembered
<1>1. CASE Fetch(w)
  BY <1>0, <1>1 DEF Fetch, RememberedInv, CompletedIsRemembered
<1>2. ASSUME NEW k \in Key, Remember(w, k) PROVE RememberedInv'
  <2>1. PICK s \in Remembered : Handle(w, k, s)
    BY <1>2 DEF Remember
  <2>2. \A l \in Key : drafts[l] > 0 => drafts'[l] > 0
    BY <1>0, <1>2 DEF Remember, TypeOK
  <2>3. drafts'[k] > 0
    BY <1>0, <1>2 DEF Remember, TypeOK
  <2>4. CompletedIsRemembered'
    BY <1>2, <2>2, CommitRemembered DEF Remember, CompletedIsRemembered
  <2>5. \A c \in Client :
          client[c].pc = "insert" /\ client[c].status \in Remembered
            => drafts'[client[c].key] > 0
    <3> SUFFICES ASSUME NEW c \in Client, client[c].pc = "insert",
                        client[c].status \in Remembered
                 PROVE  drafts'[client[c].key] > 0
      OBVIOUS
    <3>1. client[c].key \in Key
      BY <1>0, ClientFields DEF Idle
    <3> QED
      BY <2>2, <3>1 DEF RememberedInv
  <2>6. \A v \in Worker : outcome'[v].status \in Remembered => drafts'[outcome'[v].key] > 0
    <3>1. outcome'[w].key = k
      BY <1>0, <2>1 DEF Handle, Handled, TypeOK
    <3>2. \A v \in Worker : v # w => outcome'[v] = outcome[v]
      BY <1>0, <2>1 DEF Handle, TypeOK
    <3>3. \A v \in Worker : outcome[v].status \in Remembered => drafts'[outcome[v].key] > 0
      BY <1>0, <1>00, <2>2, OutcomeFields DEF RememberedInv, Unhandled
    <3> QED
      BY <2>3, <3>1, <3>2, <3>3
  <2>7. \A v \in Worker, l \in Key : pending'[v][l] \in Remembered => drafts'[l] > 0
    BY <1>0, <1>00, <1>2, <2>2 DEF Remember, RememberedInv, Nothing, TypeOK
  <2> QED
    BY <1>0, <1>2, <2>4, <2>5, <2>6, <2>7 DEF Remember, RememberedInv
<1>3. ASSUME NEW k \in Key, Denied(w, k) PROVE RememberedInv'
  <2>1. CompletedIsRemembered'
    BY <1>3, CommitRemembered DEF Denied, CompletedIsRemembered
  <2>2. \A v \in Worker : outcome'[v].status \in Remembered => drafts[outcome'[v].key] > 0
    BY <1>0, <1>00, <1>3 DEF Denied, Handle, Handled, RememberedInv, TypeOK
  <2>3. \A v \in Worker, l \in Key : pending'[v][l] \in Remembered => drafts[l] > 0
    BY <1>0, <1>00, <1>3 DEF Denied, RememberedInv, Nothing, TypeOK
  <2> QED
    BY <1>0, <1>3, <2>1, <2>2, <2>3 DEF Denied, RememberedInv
<1>4. ASSUME NEW k \in Key, Fails(w, k) PROVE RememberedInv'
  <2>1. \A v \in Worker : outcome'[v].status \in Remembered => drafts[outcome'[v].key] > 0
    BY <1>0, <1>00, <1>4 DEF Fails, Handle, Handled, FailureStatus, RememberedInv, TypeOK
  <2>2. \A v \in Worker, l \in Key : pending'[v][l] \in Remembered => drafts[l] > 0
    BY <1>0, <1>00, <1>4 DEF Fails, RememberedInv, Nothing, TypeOK
  <2> QED
    BY <1>0, <1>4, <2>1, <2>2 DEF Fails, RememberedInv, CompletedIsRemembered
<1>5. ASSUME NEW k \in Key, NothingToRead(w, k) PROVE RememberedInv'
  <2>1. \A v \in Worker : outcome'[v].status \in Remembered => drafts[outcome'[v].key] > 0
    BY <1>0, <1>00, <1>5 DEF NothingToRead, Handle, Handled, RememberedInv, TypeOK
  <2> QED
    BY <1>0, <1>5, <2>1 DEF NothingToRead, RememberedInv, CompletedIsRemembered
<1>6. CASE Update(w)
  <2>1. outcome[w].key \in Key
    BY <1>0, <1>6, OutcomeFields DEF Update
  <2>2. \A v \in Worker, l \in Key : pending'[v][l] \in Remembered => drafts[l] > 0
    BY <1>0, <1>6, <2>1 DEF Update, RememberedInv, TypeOK
  <2>3. \A v \in Worker : outcome'[v].status \in Remembered => drafts[outcome'[v].key] > 0
    BY <1>0, <1>00, <1>6 DEF Update, Unhandled, RememberedInv, TypeOK
  <2> QED
    BY <1>0, <1>6, <2>2, <2>3 DEF Update, RememberedInv, CompletedIsRemembered
<1>7. CASE Finish(w)
  <2>1. CompletedIsRemembered'
    BY <1>7, CommitRemembered DEF Finish, CompletedIsRemembered
  <2>2. \A v \in Worker, l \in Key : pending'[v][l] \in Remembered => drafts[l] > 0
    BY <1>0, <1>00, <1>7 DEF Finish, RememberedInv, Nothing, TypeOK
  <2> QED
    BY <1>0, <1>7, <2>1, <2>2 DEF Finish, RememberedInv
<1>8. CASE Crash(w)
  <2>1. \A v \in Worker, l \in Key : pending'[v][l] \in Remembered => drafts[l] > 0
    BY <1>0, <1>00, <1>8 DEF Crash, RememberedInv, Nothing, TypeOK
  <2>2. \A v \in Worker : outcome'[v].status \in Remembered => drafts[outcome'[v].key] > 0
    BY <1>0, <1>00, <1>8 DEF Crash, Unhandled, RememberedInv, TypeOK
  <2> QED
    BY <1>0, <1>8, <2>1, <2>2 DEF Crash, RememberedInv, CompletedIsRemembered
<1> QED
  BY <1>1, <1>2, <1>3, <1>4, <1>5, <1>6, <1>7, <1>8 DEF WorkerStep

LEMMA NextRemembered == RememberedInv /\ [Next]_vars => RememberedInv'
<1> SUFFICES ASSUME RememberedInv, [Next]_vars PROVE RememberedInv'
  OBVIOUS
<1>1. CASE UNCHANGED vars
  BY <1>1 DEF vars, RememberedInv, CompletedIsRemembered, TypeOK
<1>2. CASE Next
  BY <1>2, ClientRemembered, WorkerRemembered DEF Next
<1> QED
  BY <1>1, <1>2

(* Whatever crashes, is rolled back or is processed twice, a job that says       *)
(* "completed" or "quarantined" has a committed event (process_keeper_jobs        *)
(* commits remember before the status, after_saved_turn before the row).          *)
THEOREM RememberedSafe == Spec => []CompletedIsRemembered
<1>1. RememberedInv => CompletedIsRemembered
  BY DEF RememberedInv
<1> QED
  BY <1>1, InitRemembered, NextRemembered, PTL DEF Spec

----------------------------------------------------------------------------
(* Where it came from: the exchange is recorded before anything else exists. *)

TurnsInv ==
    /\ TypeOK
    /\ DraftsComeFromTurns
    /\ \A c \in Client :
         client[c].pc \in {"remember", "insert"} /\ client[c].key \notin Silent
           => turns[client[c].key] > 0
    /\ \A w \in Worker : \A k \in todo[w] : job[k] # "none"
    /\ \A w \in Worker : outcome[w] # Unhandled => job[outcome[w].key] # "none"
    /\ \A w \in Worker, k \in Key : pending[w][k] # "none" => job[k] # "none"

LEMMA InitTurns == Init => TurnsInv
  BY InitType DEF Init, TurnsInv, DraftsComeFromTurns, Nothing, Idle, Unhandled

\* A row never disappears and no commit of a worker makes one.
LEMMA CommitKeepsRows ==
    ASSUME TurnsInv, NEW w \in Worker, NEW k \in Key
    PROVE  Committed(w)[k] = "none" <=> job[k] = "none"
  BY DEF TurnsInv, Committed

\* Clients do nothing to the workers' batches and take no row away.
LEMMA ClientTurns ==
    ASSUME TurnsInv, NEW c \in Client, ClientStep(c)
    PROVE  TurnsInv'
<1>0. TypeOK /\ TypeOK'
  BY ClientType DEF TurnsInv
<1>1. /\ \A k \in Key : job[k] # "none" => job'[k] # "none"
      /\ UNCHANGED <<todo, outcome, pending>>
  <2>1. CASE Insert(c)
    BY <1>0, <2>1, ClientFields
       DEF Insert, Inserted, Idle, Status, Final, Remembered, work, TypeOK
  <2>2. CASE UNCHANGED <<job, work>>
    BY <2>2 DEF work
  <2> QED
    BY <2>1, <2>2 DEF ClientStep, Replay, Call, Record, SyncRemember, SyncFails, Abandon
<1>2. /\ \A w \in Worker : \A k \in todo'[w] : job'[k] # "none"
      /\ \A w \in Worker : outcome'[w] # Unhandled => job'[outcome'[w].key] # "none"
      /\ \A w \in Worker, k \in Key : pending'[w][k] # "none" => job'[k] # "none"
  BY <1>0, <1>1, OutcomeFields DEF TurnsInv, TypeOK
<1>3. ASSUME NEW k \in Key, Replay(c, k) PROVE TurnsInv'
  BY <1>0, <1>2, <1>3 DEF Replay, TurnsInv, DraftsComeFromTurns, work
<1>4. ASSUME NEW k \in Key, Call(c, k) PROVE TurnsInv'
  <2>1. client'[c].pc = "record" /\ \A d \in Client : d # c => client'[d] = client[d]
    BY <1>0, <1>4 DEF Call, InCall, TypeOK
  <2> QED
    BY <1>0, <1>2, <1>4, <2>1 DEF Call, TurnsInv, DraftsComeFromTurns, work
<1>5. CASE Record(c)
  <2>1. client[c].key \in Key
    BY <1>0, <1>5, ClientFields DEF Record, Idle
  <2>2. /\ client'[c].key = client[c].key
        /\ \A d \in Client : d # c => client'[d] = client[d]
    BY <1>0, <1>5 DEF Record, InCall, TypeOK
  <2>3. \A k \in Key : turns[k] > 0 => turns'[k] > 0
    BY <1>0, <1>5, <2>1 DEF Record, TypeOK
  <2>4. client[c].key \notin Silent => turns'[client[c].key] > 0
    BY <1>0, <1>5, <2>1 DEF Record, TypeOK
  <2>5. \A d \in Client :
          client'[d].pc \in {"remember", "insert"} /\ client'[d].key \notin Silent
            => turns'[client'[d].key] > 0
    <3>1. ASSUME NEW d \in Client, d # c, client[d].pc \in {"remember", "insert"},
                 client[d].key \notin Silent
          PROVE  turns'[client[d].key] > 0
      <4>1. client[d].key \in Key
        BY <1>0, <3>1, ClientFields DEF Idle
      <4> QED
        BY <2>3, <3>1, <4>1 DEF TurnsInv
    <3> QED
      BY <2>2, <2>4, <3>1
  <2>6. DraftsComeFromTurns'
    BY <1>5, <2>3 DEF Record, TurnsInv, DraftsComeFromTurns
  <2> QED
    BY <1>0, <1>2, <2>5, <2>6 DEF TurnsInv
<1>6. CASE SyncRemember(c)
  <2>1. client[c].key \in Key
    BY <1>0, <1>6, ClientFields DEF SyncRemember, Idle
  <2>2. PICK s \in Remembered :
           client' = [client EXCEPT ![c] = InCall("insert", client[c].key, s)]
    BY <1>6 DEF SyncRemember
  <2>3. /\ client'[c].key = client[c].key
        /\ \A d \in Client : d # c => client'[d] = client[d]
    BY <1>0, <2>2 DEF InCall, TypeOK
  <2>4. DraftsComeFromTurns'
    BY <1>0, <1>6, <2>1 DEF SyncRemember, TurnsInv, DraftsComeFromTurns, TypeOK
  <2> QED
    BY <1>0, <1>2, <1>6, <2>3, <2>4 DEF SyncRemember, TurnsInv
<1>7. CASE SyncFails(c)
  <2>1. /\ client'[c].key = client[c].key
        /\ \A d \in Client : d # c => client'[d] = client[d]
    BY <1>0, <1>7 DEF SyncFails, InCall, TypeOK
  <2> QED
    BY <1>0, <1>2, <1>7, <2>1 DEF SyncFails, TurnsInv, DraftsComeFromTurns
<1>8. CASE Insert(c)
  <2>1. client[c].key \in Key
    BY <1>0, <1>8, ClientFields DEF Insert, Idle
  <2>2. DraftsComeFromTurns'
    BY <1>0, <1>8, <2>1 DEF Insert, Inserted, TurnsInv, DraftsComeFromTurns, TypeOK
  <2>3. client'[c].pc = "idle" /\ \A d \in Client : d # c => client'[d] = client[d]
    BY <1>0, <1>8 DEF Insert, Idle, TypeOK
  <2> QED
    BY <1>0, <1>2, <1>8, <2>2, <2>3 DEF Insert, TurnsInv
<1>9. CASE Abandon(c)
  <2>1. client'[c].pc = "idle" /\ \A d \in Client : d # c => client'[d] = client[d]
    BY <1>0, <1>9 DEF Abandon, Idle, TypeOK
  <2> QED
    BY <1>0, <1>2, <1>9, <2>1 DEF Abandon, TurnsInv, DraftsComeFromTurns
<1> QED
  BY <1>3, <1>4, <1>5, <1>6, <1>7, <1>8, <1>9 DEF ClientStep

\* Workers record no turns; they handle jobs that have a row.
LEMMA WorkerTurns ==
    ASSUME TurnsInv, NEW w \in Worker, WorkerStep(w) \/ Crash(w)
    PROVE  TurnsInv'
<1>0. TypeOK /\ TypeOK'
  BY WorkerType DEF TurnsInv
<1>1. \A k \in Key : job'[k] = "none" <=> job[k] = "none"
  BY CommitKeepsRows
     DEF WorkerStep, Crash, Fetch, Remember, Denied, Fails, NothingToRead, Update, Finish
<1>2. UNCHANGED <<turns, client>>
  BY DEF WorkerStep, Crash, Fetch, Remember, Denied, Fails, NothingToRead, Update, Finish
<1>3. \A v \in Worker : \A k \in todo'[v] : job[k] # "none"
  <2>1. \A v \in Worker : v # w => todo'[v] = todo[v]
    <3>1. CASE Fetch(w) \/ Crash(w)
      BY <1>0, <3>1 DEF Fetch, Crash, TypeOK
    <3>2. CASE \E k \in Key : \E s : Handle(w, k, s)
      BY <1>0, <3>2 DEF Handle, TypeOK
    <3>3. CASE UNCHANGED todo
      BY <3>3
    <3> QED
      BY <3>1, <3>2, <3>3
         DEF WorkerStep, Remember, Denied, Fails, NothingToRead, Update, Finish
  <2>2. \A k \in todo'[w] : job[k] # "none"
    <3>1. CASE Fetch(w)
      BY <1>0, <3>1 DEF Fetch, Queued, TypeOK
    <3>2. CASE Crash(w)
      BY <1>0, <3>2 DEF Crash, TypeOK
    <3>3. CASE todo'[w] \subseteq todo[w]
      BY <3>3 DEF TurnsInv
    <3>4. CASE \E k \in Key : \E s : Handle(w, k, s)
      BY <1>0, <3>4 DEF Handle, TurnsInv, TypeOK
    <3> QED
      BY <3>1, <3>2, <3>3, <3>4
         DEF WorkerStep, Remember, Denied, Fails, NothingToRead, Update, Finish
  <2> QED
    BY <2>1, <2>2 DEF TurnsInv
<1>4. \A v \in Worker : outcome'[v] # Unhandled => job[outcome'[v].key] # "none"
  <2>1. ASSUME NEW k \in Key, NEW s, Handle(w, k, s)
        PROVE  \A v \in Worker : outcome'[v] # Unhandled => job[outcome'[v].key] # "none"
    BY <1>0, <2>1 DEF Handle, Handled, TurnsInv, TypeOK
  <2>2. CASE \E k \in Key : Remember(w, k) \/ Denied(w, k) \/ Fails(w, k)
                            \/ NothingToRead(w, k)
    BY <2>1, <2>2 DEF Remember, Denied, Fails, NothingToRead
  <2>3. CASE UNCHANGED outcome
    BY <2>3 DEF TurnsInv
  <2>4. CASE outcome' = [outcome EXCEPT ![w] = Unhandled]
    BY <1>0, <2>4 DEF TurnsInv, TypeOK
  <2> QED
    BY <2>2, <2>3, <2>4 DEF WorkerStep, Fetch, Update, Finish, Crash
<1>5. \A v \in Worker, k \in Key : pending'[v][k] # "none" => job[k] # "none"
  <2>1. CASE UNCHANGED pending
    BY <2>1 DEF TurnsInv
  <2>2. CASE pending' = [pending EXCEPT ![w] = Nothing]
    BY <1>0, <2>2 DEF Nothing, TurnsInv, TypeOK
  <2>3. CASE Update(w)
    <3>1. outcome[w].key \in Key
      BY <1>0, <2>3, OutcomeFields DEF Update
    <3> QED
      BY <1>0, <2>3, <3>1 DEF Update, TurnsInv, TypeOK
  <2> QED
    BY <2>1, <2>2, <2>3
       DEF WorkerStep, Crash, Fetch, Remember, Denied, Fails, NothingToRead, Finish
<1>6. DraftsComeFromTurns'
  <2>1. \A k \in Key \ Silent : drafts'[k] > 0 => drafts[k] > 0 \/ job[k] # "none"
    <3>1. CASE \E k \in Key : Remember(w, k)
      BY <1>0, <3>1 DEF Remember, Handle, TurnsInv, TypeOK
    <3>2. CASE UNCHANGED drafts
      BY <3>2
    <3> QED
      BY <3>1, <3>2
         DEF WorkerStep, Crash, Fetch, Denied, Fails, NothingToRead, Update, Finish
  <2> QED
    BY <1>1, <1>2, <2>1 DEF TurnsInv, DraftsComeFromTurns
<1>7. \A v \in Worker : outcome'[v] # Unhandled => outcome'[v].key \in Key
  BY <1>0 DEF TypeOK, Handled
<1>8. \A v \in Worker : todo'[v] \subseteq Key
  BY <1>0 DEF TypeOK
<1> QED
  BY <1>0, <1>1, <1>2, <1>3, <1>4, <1>5, <1>6, <1>7, <1>8 DEF TurnsInv

LEMMA NextTurns == TurnsInv /\ [Next]_vars => TurnsInv'
<1> SUFFICES ASSUME TurnsInv, [Next]_vars PROVE TurnsInv'
  OBVIOUS
<1>1. CASE UNCHANGED vars
  BY <1>1 DEF vars, TurnsInv, DraftsComeFromTurns, TypeOK
<1>2. CASE Next
  BY <1>2, ClientTurns, WorkerTurns DEF Next
<1> QED
  BY <1>1, <1>2

(* The raw exchange is stored before extraction (after_saved_turn): no event and *)
(* no job of the Keeper exists without its turns, whoever crashed in between.     *)
THEOREM TurnsSafe == Spec => []DraftsComeFromTurns
<1>1. TurnsInv => DraftsComeFromTurns
  BY DEF TurnsInv
<1> QED
  BY <1>1, InitTurns, NextTurns, PTL DEF Spec

(* Both: neither a job nor an event tells of something that is not there.         *)
THEOREM TruthSafe == Spec => []JobsTellTheTruth
<1>1. CompletedIsRemembered /\ DraftsComeFromTurns => JobsTellTheTruth
  BY DEF JobsTellTheTruth
<1> QED
  BY <1>1, RememberedSafe, TurnsSafe, PTL

----------------------------------------------------------------------------
(* One worker: what it has in hand is queued, until it commits. *)

OneWorker == \A v, w \in Worker : v = w

SingleInv ==
    /\ TypeOK
    /\ \A w \in Worker : \A k \in todo[w] :
         job[k] = "queued" /\ pending[w][k] = "none"
    /\ \A w \in Worker : outcome[w] # Unhandled =>
         /\ job[outcome[w].key] = "queued"
         /\ pending[w][outcome[w].key] = "none"
         /\ outcome[w].key \notin todo[w]
    /\ \A w \in Worker, k \in Key : pending[w][k] # "none" => job[k] = "queued"

LEMMA InitSingle == Init => SingleInv
  BY InitType DEF Init, SingleInv, Nothing, Unhandled

\* Clients leave the worker alone and only add rows.
LEMMA ClientKeepsRows ==
    ASSUME TypeOK, NEW c \in Client, ClientStep(c)
    PROVE  /\ \A k \in Key : job[k] # "none" => job'[k] = job[k]
           /\ UNCHANGED <<todo, outcome, pending>>
<1>1. CASE Insert(c)
  BY <1>1, ClientFields DEF Insert, Inserted, Idle, work, TypeOK
<1>2. CASE UNCHANGED <<job, work>>
  BY <1>2 DEF work
<1> QED
  BY <1>1, <1>2 DEF ClientStep, Replay, Call, Record, SyncRemember, SyncFails, Abandon

LEMMA ClientSingle ==
    ASSUME SingleInv, NEW c \in Client, ClientStep(c)
    PROVE  SingleInv'
<1>0. TypeOK /\ TypeOK'
  BY ClientType DEF SingleInv
<1>1. /\ \A k \in Key : job[k] # "none" => job'[k] = job[k]
      /\ UNCHANGED <<todo, outcome, pending>>
  BY <1>0, ClientKeepsRows
<1>2. \A w \in Worker : outcome[w] # Unhandled => outcome[w].key \in Key
  BY <1>0, OutcomeFields
<1> QED
  BY <1>0, <1>1, <1>2 DEF SingleInv, TypeOK

\* A commit writes only into rows that were queued, and from then on the worker
\* holds no update.
LEMMA CommitKeepsFinished ==
    ASSUME SingleInv, NEW w \in Worker, NEW k \in Key
    PROVE  /\ job[k] # "queued" => Committed(w)[k] = job[k]
           /\ pending[w][k] = "none" => Committed(w)[k] = job[k]
  BY DEF SingleInv, Committed

LEMMA WorkerSingle ==
    ASSUME OneWorker, SingleInv, NEW w \in Worker, WorkerStep(w) \/ Crash(w)
    PROVE  SingleInv'
<1>0. TypeOK /\ TypeOK'
  BY WorkerType DEF SingleInv
<1>1. \A v \in Worker : v = w
  BY DEF OneWorker
<1>2. \A k \in Key : Nothing[k] = "none"
  BY DEF Nothing
<1>3. CASE Fetch(w)
  BY <1>0, <1>1, <1>2, <1>3 DEF Fetch, Queued, SingleInv, TypeOK
\* A step that hands over job k and, if it commits, commits the updates before it.
<1>4. ASSUME NEW k \in Key, NEW s, Handle(w, k, s),
             job' \in {job, Committed(w)},
             pending' = [pending EXCEPT ![w] = Nothing] \/ UNCHANGED <<job, pending>>
      PROVE  SingleInv'
  <2>1. /\ todo'[w] = todo[w] \ {k} /\ k \in todo[w]
        /\ outcome'[w].key = k
        /\ todo[w] \subseteq Key
    BY <1>0, <1>4 DEF Handle, Handled, TypeOK
  <2>2. \A l \in todo[w] : job'[l] = "queued" /\ pending'[w][l] = "none"
    <3> SUFFICES ASSUME NEW l \in todo[w]
                 PROVE  job'[l] = "queued" /\ pending'[w][l] = "none"
      OBVIOUS
    <3>1. l \in Key /\ job[l] = "queued" /\ pending[w][l] = "none"
      BY <2>1 DEF SingleInv
    <3>2. job'[l] = job[l]
      BY <1>4, <3>1, CommitKeepsFinished
    <3>3. pending'[w][l] = "none"
      BY <1>0, <1>2, <1>4, <3>1 DEF TypeOK
    <3> QED
      BY <3>1, <3>2, <3>3
  <2>3. \A l \in Key : pending'[w][l] # "none" => job'[l] = "queued"
    BY <1>0, <1>2, <1>4 DEF SingleInv, TypeOK
  <2> QED
    BY <1>0, <1>1, <2>1, <2>2, <2>3 DEF SingleInv
<1>5. ASSUME NEW k \in Key, Remember(w, k) PROVE SingleInv'
  BY <1>4, <1>5 DEF Remember
<1>6. ASSUME NEW k \in Key, Denied(w, k) PROVE SingleInv'
  BY <1>4, <1>6 DEF Denied
<1>7. ASSUME NEW k \in Key, Fails(w, k) PROVE SingleInv'
  BY <1>4, <1>7 DEF Fails
<1>8. ASSUME NEW k \in Key, NothingToRead(w, k) PROVE SingleInv'
  BY <1>4, <1>8 DEF NothingToRead
<1>9. CASE Update(w)
  <2>1. outcome[w].key \in Key
    BY <1>0, <1>9, OutcomeFields DEF Update
  <2>2. /\ outcome'[w] = Unhandled
        /\ \A l \in Key : pending'[w][l] # "none" =>
                           l = outcome[w].key \/ pending[w][l] # "none"
        /\ \A l \in Key : l # outcome[w].key => pending'[w][l] = pending[w][l]
    BY <1>0, <1>9 DEF Update, TypeOK
  <2>3. todo[w] \subseteq Key
    BY <1>0 DEF TypeOK
  <2> QED
    BY <1>0, <1>1, <1>9, <2>1, <2>2, <2>3 DEF Update, SingleInv
<1>10. CASE Finish(w)
  <2>1. pending'[w] = Nothing
    BY <1>0, <1>10 DEF Finish, TypeOK
  <2> QED
    BY <1>0, <1>1, <1>2, <1>10, <2>1 DEF Finish, SingleInv
<1>11. CASE Crash(w)
  <2>1. pending'[w] = Nothing /\ todo'[w] = {} /\ outcome'[w] = Unhandled
    BY <1>0, <1>11 DEF Crash, TypeOK
  <2> QED
    BY <1>0, <1>1, <1>2, <2>1 DEF SingleInv
<1> QED
  BY <1>3, <1>5, <1>6, <1>7, <1>8, <1>9, <1>10, <1>11 DEF WorkerStep

LEMMA NextSingle == OneWorker /\ SingleInv /\ [Next]_vars => SingleInv'
<1> SUFFICES ASSUME OneWorker, SingleInv, [Next]_vars PROVE SingleInv'
  OBVIOUS
<1>1. CASE UNCHANGED vars
  BY <1>1 DEF vars, SingleInv, TypeOK
<1>2. CASE Next
  BY <1>2, ClientSingle, WorkerSingle DEF Next
<1> QED
  BY <1>1, <1>2

\* Only queued rows and missing rows change.
LEMMA OnlyQueuedChanges ==
    ASSUME SingleInv, [Next]_vars, NEW k \in Key, job[k] \in Final
    PROVE  job'[k] = job[k]
<1>0. TypeOK /\ job[k] # "none" /\ job[k] # "queued"
  BY DEF SingleInv, Final, Remembered
<1>1. CASE UNCHANGED vars
  BY <1>1 DEF vars
<1>2. ASSUME NEW c \in Client, ClientStep(c) PROVE job'[k] = job[k]
  BY <1>0, <1>2, ClientKeepsRows
<1>3. ASSUME NEW w \in Worker, WorkerStep(w) \/ Crash(w) PROVE job'[k] = job[k]
  BY <1>0, <1>3, CommitKeepsFinished
     DEF WorkerStep, Crash, Fetch, Remember, Denied, Fails, NothingToRead, Update, Finish
<1> QED
  BY <1>1, <1>2, <1>3 DEF Next

(* With one worker process a finished job is final: no repeated call, crash or   *)
(* rollback of a batch brings it back into the queue (process_keeper_jobs updates *)
(* only rows it has read as queued; idx_keeper_jobs_idempotency).                 *)
THEOREM SingleWorkerFinal == OneWorker /\ Spec => FinishedStaysFinished
<1>1. SingleInv /\ [Next]_vars =>
        [\A k \in Key : job[k] \in Final => job'[k] = job[k]]_vars
  BY OnlyQueuedChanges
<1>2. OneWorker => (Spec => []SingleInv)
  <2> SUFFICES ASSUME OneWorker PROVE Spec => []SingleInv
    OBVIOUS
  <2>1. SingleInv /\ [Next]_vars => SingleInv'
    BY NextSingle
  <2> QED
    BY <2>1, InitSingle, PTL DEF Spec
<1> QED
  BY <1>1, <1>2, PTL DEF Spec, FinishedStaysFinished

----------------------------------------------------------------------------
(* One worker and batches of one job: nothing is rolled back with another job. *)

\* The worker has extracted the job and not committed its status.
InHand(k) ==
    \E w \in Worker :
        \/ outcome[w] # Unhandled /\ outcome[w].key = k
        \/ pending[w][k] # "none"

OneJobInv ==
    /\ SingleInv
    /\ \A w \in Worker : todo[w] # {} =>
         /\ outcome[w] = Unhandled
         /\ pending[w] = Nothing
         /\ \E k \in Key : todo[w] = {k}
    /\ \A w \in Worker : outcome[w] # Unhandled => pending[w] = Nothing
    /\ \A c \in Client : client[c].pc = "remember" => client[c].key \in Sync
    /\ \A k \in Key \ Sync :
         /\ drafts[k] <= 1 + crashes
         /\ job[k] \in {"none", "queued"} /\ ~InHand(k) => drafts[k] <= crashes

LEMMA InitOneJob == Init => OneJobInv
  BY InitSingle, BoundAssumption DEF Init, OneJobInv, Idle, Unhandled, Nothing, InHand

LEMMA ClientOneJob ==
    ASSUME OneJobInv, NEW c \in Client, ClientStep(c)
    PROVE  OneJobInv'
<1>0. TypeOK /\ SingleInv'
  BY ClientSingle DEF OneJobInv, SingleInv
<1>1. /\ \A k \in Key : job[k] # "none" => job'[k] = job[k]
      /\ UNCHANGED <<todo, outcome, pending>>
  BY <1>0, ClientKeepsRows
<1>2. UNCHANGED crashes
  BY DEF ClientStep, Replay, Call, Record, SyncRemember, SyncFails, Insert, Abandon, work
<1>3. \A k \in Key \ Sync : drafts'[k] = drafts[k]
  <2>1. CASE SyncRemember(c)
    BY <1>0, <2>1 DEF SyncRemember, OneJobInv, TypeOK
  <2>2. CASE UNCHANGED drafts
    BY <2>2
  <2> QED
    BY <2>1, <2>2 DEF ClientStep, Replay, Call, Record, SyncFails, Insert, Abandon
<1>4. \A d \in Client : client'[d].pc = "remember" => client'[d].key \in Sync
  <2>1. CASE UNCHANGED client
    BY <2>1 DEF OneJobInv
  <2>2. ASSUME NEW k \in Key, Call(c, k)
        PROVE  \A d \in Client : client'[d].pc = "remember" => client'[d].key \in Sync
    BY <1>0, <2>2 DEF Call, InCall, OneJobInv, TypeOK
  <2>3. CASE Record(c)
    BY <1>0, <2>3 DEF Record, InCall, OneJobInv, TypeOK
  <2>4. CASE SyncRemember(c)
    <3>1. PICK s \in Remembered :
             client' = [client EXCEPT ![c] = InCall("insert", client[c].key, s)]
      BY <2>4 DEF SyncRemember
    <3> QED
      BY <1>0, <3>1 DEF InCall, OneJobInv, TypeOK
  <2>5. CASE SyncFails(c)
    BY <1>0, <2>5 DEF SyncFails, InCall, OneJobInv, TypeOK
  <2>6. CASE client' = [client EXCEPT ![c] = Idle]
    BY <1>0, <2>6 DEF Idle, OneJobInv, TypeOK
  <2> QED
    BY <2>1, <2>2, <2>3, <2>4, <2>5, <2>6 DEF ClientStep, Replay, Insert, Abandon
<1>5. \A k \in Key : InHand(k)' <=> InHand(k)
  BY <1>1 DEF InHand
<1>6. \A k \in Key \ Sync :
        /\ drafts'[k] <= 1 + crashes'
        /\ job'[k] \in {"none", "queued"} /\ ~InHand(k)' => drafts'[k] <= crashes'
  BY <1>1, <1>2, <1>3, <1>5 DEF OneJobInv
<1> QED
  BY <1>0, <1>1, <1>4, <1>6 DEF OneJobInv

\* A batch of at most one job is one job.
LEMMA OneJobBatch ==
    ASSUME Limit = 1, NEW batch \in (SUBSET Key) \ {{}}, Cardinality(batch) <= Limit
    PROVE  \E k \in Key : batch = {k}
<1>1. IsFiniteSet(batch) /\ Cardinality(batch) \in Nat
  BY KeyAssumption, FS_Subset, FS_CardinalityType
<1>2. Cardinality(batch) # 0
  BY <1>1, FS_EmptySet
<1>3. Cardinality(batch) = 1
  BY <1>1, <1>2
<1>4. PICK k : batch = {k}
  BY <1>1, <1>3, FS_Singleton
<1> QED
  BY <1>4

LEMMA WorkerOneJob ==
    ASSUME OneWorker, Limit = 1, OneJobInv, NEW w \in Worker, WorkerStep(w) \/ Crash(w)
    PROVE  OneJobInv'
<1>0. /\ TypeOK /\ SingleInv /\ SingleInv' /\ TypeOK'
      /\ \A v \in Worker : v = w
  BY WorkerSingle DEF OneJobInv, SingleInv, OneWorker
<1>1. UNCHANGED client
  BY DEF WorkerStep, Crash, Fetch, Remember, Denied, Fails, NothingToRead, Update, Finish
<1>2. /\ \A k \in Key : InHand(k) <=> \/ outcome[w] # Unhandled /\ outcome[w].key = k
                                      \/ pending[w][k] # "none"
      /\ \A k \in Key : InHand(k)' <=> \/ outcome'[w] # Unhandled /\ outcome'[w].key = k
                                       \/ pending'[w][k] # "none"
  BY <1>0 DEF InHand
<1>3. \A k \in Key : Nothing[k] = "none"
  BY DEF Nothing
\* What is left to show: the shape of the worker's batch, and the bound.
<1>4. ASSUME todo'[w] # {} => /\ outcome'[w] = Unhandled
                              /\ pending'[w] = Nothing
                              /\ \E k \in Key : todo'[w] = {k},
             outcome'[w] # Unhandled => pending'[w] = Nothing,
             \A k \in Key \ Sync :
               /\ drafts'[k] <= 1 + crashes'
               /\ job'[k] \in {"none", "queued"} /\ ~InHand(k)' => drafts'[k] <= crashes'
      PROVE  OneJobInv'
  BY <1>0, <1>1, <1>4 DEF OneJobInv
<1>5. CASE Fetch(w)
  <2>1. PICK batch \in (SUBSET Key) \ {{}} :
           /\ Cardinality(batch) <= Limit
           /\ todo' = [todo EXCEPT ![w] = batch]
    BY <1>5 DEF Fetch, Queued
  <2>2. \E k \in Key : batch = {k}
    BY <2>1, OneJobBatch
  <2>3. todo'[w] = batch
    BY <1>0, <2>1 DEF TypeOK
  <2>4. \A k \in Key : InHand(k)' <=> InHand(k)
    BY <1>2, <1>5 DEF Fetch
  <2> QED
    BY <1>4, <1>5, <2>2, <2>3, <2>4 DEF Fetch, OneJobInv
\* The worker hands over its only job; the bound has room for one more draft.
<1>6. ASSUME NEW k \in Key, NEW s, Handle(w, k, s), UNCHANGED crashes,
             job' \in {job, Committed(w)},
             pending' = [pending EXCEPT ![w] = Nothing] \/ UNCHANGED pending,
             drafts' \in {drafts, [drafts EXCEPT ![k] = @ + 1]}
      PROVE  OneJobInv'
  <2>1. todo[w] = {k} /\ pending[w] = Nothing /\ outcome[w] = Unhandled
    BY <1>6 DEF Handle, OneJobInv
  <2>2. /\ todo'[w] = {} /\ pending'[w] = Nothing
        /\ outcome'[w] = Handled(k, s)
    BY <1>0, <1>6, <2>1 DEF Handle, TypeOK
  <2>3. \A l \in Key : job'[l] = job[l]
    BY <1>3, <1>6, <2>1, CommitKeepsFinished, <1>0
  <2>4. job[k] = "queued" /\ ~InHand(k)
    BY <1>0, <1>2, <1>3, <2>1 DEF SingleInv
  <2>5. \A l \in Key : l # k => (InHand(l)' <=> InHand(l))
    BY <1>2, <1>3, <2>1, <2>2 DEF Handled
  <2>6. InHand(k)'
    <3>1. outcome'[w].key = k
      BY <2>2 DEF Handled
    <3>2. outcome'[w] # Unhandled
      <4>1. Handled(k, s) # Unhandled
        BY DEF Handled, Unhandled
      <4> QED
        BY <2>2, <4>1
    <3> QED
      BY <1>2, <3>1, <3>2
  <2>7. ASSUME NEW l \in Key \ Sync
        PROVE  /\ drafts'[l] <= 1 + crashes'
               /\ job'[l] \in {"none", "queued"} /\ ~InHand(l)' => drafts'[l] <= crashes'
    <3>1. CASE l = k
      <4>1. drafts[k] <= crashes /\ drafts[k] \in Nat /\ crashes \in Nat
        BY <1>0, <2>4, <2>7, <3>1 DEF OneJobInv, TypeOK
      <4>2. drafts'[k] \in {drafts[k], drafts[k] + 1}
        BY <1>0, <1>6 DEF TypeOK
      <4> QED
        BY <1>6, <2>6, <3>1, <4>1, <4>2
    <3>2. CASE l # k
      <4>1. drafts'[l] = drafts[l]
        BY <1>0, <1>6, <3>2 DEF TypeOK
      <4> QED
        BY <1>6, <2>3, <2>5, <2>7, <3>2, <4>1 DEF OneJobInv
    <3> QED
      BY <3>1, <3>2
  <2> QED
    BY <1>4, <2>2, <2>7
<1>7. ASSUME NEW k \in Key, Remember(w, k) PROVE OneJobInv'
  BY <1>6, <1>7 DEF Remember
<1>8. ASSUME NEW k \in Key, Denied(w, k) PROVE OneJobInv'
  BY <1>6, <1>8 DEF Denied
<1>9. ASSUME NEW k \in Key, Fails(w, k) PROVE OneJobInv'
  BY <1>6, <1>9 DEF Fails
<1>10. ASSUME NEW k \in Key, NothingToRead(w, k) PROVE OneJobInv'
  BY <1>6, <1>10 DEF NothingToRead
<1>11. CASE Update(w)
  <2>1. outcome[w].key \in Key /\ outcome[w].status \in Final
    BY <1>0, <1>11, OutcomeFields DEF Update
  <2>2. todo'[w] = {} /\ outcome'[w] = Unhandled
    BY <1>0, <1>11 DEF Update, OneJobInv, TypeOK
  <2>3. pending[w] = Nothing
    BY <1>11 DEF Update, OneJobInv
  <2>4. \A k \in Key : pending'[w][k] # "none" <=> k = outcome[w].key
    BY <1>0, <1>3, <1>11, <2>1, <2>3 DEF Update, TypeOK, Final, Remembered
  <2>5. \A k \in Key : InHand(k)' <=> InHand(k)
    BY <1>2, <1>3, <1>11, <2>2, <2>3, <2>4 DEF Update
  <2> QED
    BY <1>4, <1>11, <2>2, <2>5 DEF Update, OneJobInv
<1>12. CASE Finish(w)
  <2>1. todo'[w] = {} /\ outcome'[w] = Unhandled /\ outcome[w] = Unhandled
    BY <1>0, <1>12 DEF Finish, TypeOK
  <2>2. ASSUME NEW k \in Key, job'[k] \in {"none", "queued"}
        PROVE  job[k] = job'[k] /\ ~InHand(k)
    <3>1. pending[w][k] \in Final \cup {"none"}
      BY <1>0 DEF TypeOK
    <3>2. pending[w][k] = "none" /\ job'[k] = job[k]
      BY <1>12, <2>2, <3>1 DEF Finish, Committed, Final, Remembered
    <3> QED
      BY <1>2, <2>1, <3>2
  <2>3. UNCHANGED <<drafts, crashes>>
    BY <1>12 DEF Finish
  <2> QED
    BY <1>4, <2>1, <2>2, <2>3 DEF OneJobInv
<1>13. CASE Crash(w)
  <2>1. todo'[w] = {} /\ outcome'[w] = Unhandled
    BY <1>0, <1>13 DEF Crash, TypeOK
  <2>2. crashes' = 1 + crashes /\ crashes \in Nat /\ UNCHANGED drafts
    BY <1>0, <1>13 DEF Crash, TypeOK
  <2>3. \A k \in Key \ Sync : drafts[k] <= 1 + crashes /\ drafts[k] \in Nat
    BY <1>0 DEF OneJobInv, TypeOK
  <2> QED
    BY <1>4, <2>1, <2>2, <2>3
<1> QED
  BY <1>5, <1>7, <1>8, <1>9, <1>10, <1>11, <1>12, <1>13 DEF WorkerStep

(* With one worker that takes one job at a time, an exchange is extracted again  *)
(* only for a crash between remember's commit and the commit of the job's status, *)
(* whatever clients repeat (process_keeper_jobs with limit=1).                    *)
THEOREM SingleJobDuplicates == OneWorker /\ Limit = 1 /\ Spec => []DuplicatesAreCrashes
<1>1. OneJobInv => DuplicatesAreCrashes
  BY DEF OneJobInv, DuplicatesAreCrashes
<1>2. OneWorker /\ Limit = 1 => (Spec => []OneJobInv)
  <2> SUFFICES ASSUME OneWorker, Limit = 1 PROVE Spec => []OneJobInv
    OBVIOUS
  <2>1. OneJobInv /\ [Next]_vars => OneJobInv'
    <3> SUFFICES ASSUME OneJobInv, [Next]_vars PROVE OneJobInv'
      OBVIOUS
    <3>1. CASE UNCHANGED vars
      <4>1. SingleInv'
        BY <3>1, NextSingle DEF OneJobInv
      <4> QED
        BY <3>1, <4>1 DEF vars, OneJobInv, InHand
    <3>2. CASE Next
      BY <3>2, ClientOneJob, WorkerOneJob DEF Next
    <3> QED
      BY <3>1, <3>2
  <2> QED
    BY <2>1, InitOneJob, PTL DEF Spec
<1> QED
  BY <1>1, <1>2, PTL
============================================================================
