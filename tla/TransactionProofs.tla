------------------------- MODULE TransactionProofs -------------------------
(***************************************************************************)
(* Proofs about three components that share no state and whose operations  *)
(* span several transactions: the set-up of a database file                *)
(* (SchemaMigration), the commands a draft of the graph carries            *)
(* (GraphCommands) and the turns of an agent (AgentTurns).                 *)
(***************************************************************************)
EXTENDS SchemaMigration, GraphCommands, AgentTurns, SequenceTheorems, FiniteSetTheorems, TLAPS

----------------------------------------------------------------------------
(* Schema set-up: any tables, columns, files and openers.                 *)

\* The connections that have run the script, and those that have run all of init_db.
Past == {"look", "alter", "open", "reading", "answered"}
Done == {"open", "reading", "answered"}
Complete == tables = Table /\ SetOf(Additions) \subseteq columns

\* What a connection has come to know of the file still holds of it.
KnowsOK(o) ==
    LET r == opener[o] IN
    /\ r.pc = "script" => /\ r.at \in 1 .. Len(Tables) + 1
                          /\ \A i \in DOMAIN Tables : i < r.at => Tables[i] \in tables
    /\ r.pc \in Past => tables = Table /\ Indexed \subseteq columns
    /\ r.pc \in {"look", "alter"} =>
         /\ r.at \in 1 .. Len(Additions) + 1
         /\ \A i \in DOMAIN Additions : i < r.at => Additions[i] \in columns
    /\ r.pc = "alter" => /\ r.at \in DOMAIN Additions
                         /\ Additions[r.at] \in columns => r.raced = TRUE
    /\ r.pc \in Done => SetOf(Additions) \subseteq columns /\ version = SchemaVersion
    /\ r.pc \in {"reading", "answered"} => r.read = SchemaVersion
    /\ r.pc = "reading" =>
         /\ r.at \in 1 .. Len(Tables) + 1
         /\ r.lacks = {c \in Required \ columns : \E i \in DOMAIN Tables :
                                                    i < r.at /\ Tables[i] = TableOf[c]}
    /\ r.pc = "answered" => r.lacks = Required \ columns
    /\ r.pc = "raised" => r.raced = TRUE \/ Outdated

FileInv == SchemaTypeOK /\ \A o \in Opener : KnowsOK(o)

LEMMA ListsAre ==
    /\ DOMAIN Tables = 1 .. Len(Tables) /\ Len(Tables) \in Nat
    /\ DOMAIN Additions = 1 .. Len(Additions) /\ Len(Additions) \in Nat
    /\ \A i \in DOMAIN Tables : Tables[i] \in Table
    /\ \A i \in DOMAIN Additions : Additions[i] \in Column
  BY SchemaAssumption DEF Table, SetOf

LEMMA NotOpenRow ==
    /\ NotOpen \in OpenerRow /\ NotOpen.pc = "closed" /\ NotOpen.lacks = {}
    /\ NotOpen.raced = FALSE
  BY ListsAre DEF NotOpen, OpenerRow, SchemaVersion

\* The file only grows, and not any more once it is complete; an outdated one stays so.
Grows ==
    /\ tables \subseteq tables' /\ columns \subseteq columns'
    /\ version' \in {version, SchemaVersion}
    /\ Complete => columns' = columns
    /\ Outdated => Outdated'

\* What a step of another connection leaves of r.
StaysOpen(o) ==
    /\ opener'[o].pc = opener[o].pc /\ opener'[o].at = opener[o].at
    /\ opener'[o].lacks = opener[o].lacks /\ opener'[o].read = opener[o].read
    /\ opener[o].raced = TRUE => opener'[o].raced = TRUE
    /\ opener[o].pc = "alter" /\ Additions[opener[o].at] \in columns' =>
         Additions[opener[o].at] \in columns \/ opener'[o].raced = TRUE

LEMMA OtherKnows ==
    ASSUME FileInv, SchemaTypeOK', NEW o \in Opener, Grows, StaysOpen(o)
    PROVE  KnowsOK(o)'
<1>1. KnowsOK(o) /\ tables' \subseteq Table
  BY DEF FileInv, SchemaTypeOK
<1>2. opener[o].pc \in Done => columns' = columns
  BY <1>1 DEF KnowsOK, Grows, Complete, Done, Past
<1>3. (opener[o].pc = "script" => /\ opener[o].at \in 1 .. Len(Tables) + 1
                                  /\ \A i \in DOMAIN Tables : i < opener[o].at => Tables[i] \in tables')
  BY <1>1 DEF KnowsOK, Grows
<1>4. opener[o].pc \in Past => tables' = Table /\ Indexed \subseteq columns'
  BY <1>1 DEF KnowsOK, Grows
<1>5. opener[o].pc \in {"look", "alter"} =>
         /\ opener[o].at \in 1 .. Len(Additions) + 1
         /\ \A i \in DOMAIN Additions : i < opener[o].at => Additions[i] \in columns'
  BY <1>1 DEF KnowsOK, Grows
<1>6. opener[o].pc = "alter" => /\ opener[o].at \in DOMAIN Additions
                                /\ Additions[opener[o].at] \in columns' => opener'[o].raced = TRUE
  BY <1>1 DEF KnowsOK, StaysOpen
<1>7. opener[o].pc \in Done => SetOf(Additions) \subseteq columns' /\ version' = SchemaVersion
  BY <1>1 DEF KnowsOK, Grows
<1>8. opener[o].pc = "raised" => opener'[o].raced = TRUE \/ Outdated'
  BY <1>1 DEF KnowsOK, Grows, StaysOpen
<1>9. opener[o].pc \in {"reading", "answered"} => opener[o].read = SchemaVersion
  BY <1>1 DEF KnowsOK
<1>10. opener[o].pc = "reading" =>
         /\ opener[o].at \in 1 .. Len(Tables) + 1
         /\ opener[o].lacks = {c \in Required \ columns' : \E i \in DOMAIN Tables :
                                                    i < opener[o].at /\ Tables[i] = TableOf[c]}
  BY <1>1, <1>2 DEF KnowsOK, Done
<1>11. opener[o].pc = "answered" => opener[o].lacks = Required \ columns'
  BY <1>1, <1>2 DEF KnowsOK, Done
<1> QED
  BY <1>3, <1>4, <1>5, <1>6, <1>7, <1>8, <1>9, <1>10, <1>11 DEF KnowsOK, StaysOpen

\* A step of connection o that leaves the others' rows alone and adds no column.
LEMMA FileStepInv ==
    ASSUME FileInv, SchemaTypeOK', NEW o \in Opener, UNCHANGED <<tables, columns>>,
           version' \in {version, SchemaVersion},
           \A p \in Opener : p # o => opener'[p] = opener[p], KnowsOK(o)'
    PROVE  FileInv'
<1>1. Grows
  BY DEF Grows, Outdated
<1>2. \A p \in Opener : p # o => StaysOpen(p)
  BY DEF StaysOpen
<1>3. \A p \in Opener : p # o => KnowsOK(p)'
  BY <1>1, <1>2, OtherKnows
<1> QED
  BY <1>3 DEF FileInv

LEMMA GoesFacts ==
    ASSUME FileInv, NEW o \in Opener,
           NEW pc \in {"script", "look", "alter", "raised", "open", "answered"},
           NEW at \in 0 .. Len(Tables) + Len(Additions) + 1, Goes(o, pc, at)
    PROVE  /\ opener' \in [Opener -> OpenerRow]
           /\ \A p \in Opener : p # o => opener'[p] = opener[p]
           /\ opener'[o].pc = pc /\ opener'[o].at = at /\ opener'[o].lacks = opener[o].lacks
           /\ opener'[o].read = opener[o].read /\ opener'[o].raced = opener[o].raced
<1>1. opener \in [Opener -> OpenerRow] /\ opener[o] \in OpenerRow
  BY DEF FileInv, SchemaTypeOK
<1>2. opener' = [opener EXCEPT ![o] = [opener[o] EXCEPT !.pc = pc, !.at = at]]
  BY <1>1 DEF Goes
<1> DEFINE new == [opener[o] EXCEPT !.pc = pc, !.at = at]
<1>3. /\ new \in OpenerRow /\ new.pc = pc /\ new.at = at /\ new.lacks = opener[o].lacks
      /\ new.read = opener[o].read /\ new.raced = opener[o].raced
  BY <1>1 DEF OpenerRow
<1> HIDE DEF new
<1>4. opener' = [opener EXCEPT ![o] = new]
  BY <1>2 DEF new
<1> QED
  BY <1>1, <1>3, <1>4

----------------------------------------------------------------------------
(* The steps. *)

LEMMA OpenFileInv ==
    ASSUME FileInv, NEW o \in Opener, OpenFile(o)
    PROVE  FileInv'
<1>1. Goes(o, "script", 1) /\ UNCHANGED <<tables, columns, version>> /\ SchemaTypeOK
  BY DEF OpenFile, FileInv
<1>2. 1 \in 0 .. Len(Tables) + Len(Additions) + 1 /\ 1 \in 1 .. Len(Tables) + 1
  BY ListsAre
<1>3. /\ opener' \in [Opener -> OpenerRow]
      /\ \A p \in Opener : p # o => opener'[p] = opener[p]
      /\ opener'[o].pc = "script" /\ opener'[o].at = 1
  BY <1>1, <1>2, GoesFacts
<1>4. SchemaTypeOK'
  BY <1>1, <1>3 DEF SchemaTypeOK
<1>5. KnowsOK(o)'
  BY <1>2, <1>3, ListsAre DEF KnowsOK, Past, Done
<1> QED
  BY <1>1, <1>3, <1>4, <1>5, FileStepInv

LEMMA CreateTableInv ==
    ASSUME FileInv, NEW o \in Opener, CreateTable(o)
    PROVE  FileInv'
<1>1. PICK k \in DOMAIN Tables : k = opener[o].at
  BY DEF CreateTable
<1> DEFINE t == Tables[k]
<1>2. /\ opener[o].pc = "script" /\ tables' = tables \cup {t}
      /\ columns' = columns \cup IF t \in tables THEN {} ELSE {c \in Column : TableOf[c] = t}
      /\ Goes(o, "script", k + 1) /\ version' = version
  BY <1>1 DEF CreateTable
<1>3. t \in Table /\ SchemaTypeOK /\ KnowsOK(o)
  BY <1>1, ListsAre DEF FileInv
<1>4. k + 1 \in 0 .. Len(Tables) + Len(Additions) + 1 /\ k + 1 \in 1 .. Len(Tables) + 1
  BY <1>1, ListsAre
<1>5. /\ opener' \in [Opener -> OpenerRow]
      /\ \A p \in Opener : p # o => opener'[p] = opener[p]
      /\ opener'[o].pc = "script" /\ opener'[o].at = k + 1
  BY <1>2, <1>4, GoesFacts
<1> HIDE DEF t
<1>6. SchemaTypeOK'
  BY <1>2, <1>3, <1>5 DEF SchemaTypeOK
<1>7. tables = Table => columns' = columns
  BY <1>2, <1>3
<1>8. Outdated => Outdated'
  BY <1>2, <1>3 DEF Outdated, SchemaTypeOK
<1>9. Grows
  BY <1>2, <1>7, <1>8 DEF Grows, Complete
<1>10. \A p \in Opener : p # o => StaysOpen(p)
  <2> SUFFICES ASSUME NEW p \in Opener, p # o PROVE StaysOpen(p)
    OBVIOUS
  <2>1. opener[p].pc = "alter" => tables = Table
    BY DEF FileInv, KnowsOK, Past
  <2> QED
    BY <1>5, <1>7, <2>1 DEF StaysOpen
<1>11. \A p \in Opener : p # o => KnowsOK(p)'
  BY <1>6, <1>9, <1>10, OtherKnows
<1>12. \A i \in DOMAIN Tables : i < k + 1 => Tables[i] \in tables'
  <2>1. \A i \in DOMAIN Tables : i < k => Tables[i] \in tables
    BY <1>1, <1>2, <1>3 DEF KnowsOK
  <2>2. \A i \in DOMAIN Tables : i < k + 1 => i < k \/ i = k
    BY <1>1, ListsAre
  <2> QED
    BY <1>2, <2>1, <2>2 DEF t
<1>13. KnowsOK(o)'
  BY <1>4, <1>5, <1>12 DEF KnowsOK, Past, Done
<1> QED
  BY <1>6, <1>11, <1>13 DEF FileInv

LEMMA CreateIndexesInv ==
    ASSUME FileInv, NEW o \in Opener, CreateIndexes(o)
    PROVE  FileInv'
<1>1. /\ opener[o].pc = "script" /\ opener[o].at = Len(Tables) + 1
      /\ UNCHANGED <<tables, columns, version>>
      /\ SchemaTypeOK /\ KnowsOK(o)
  BY DEF CreateIndexes, FileInv
<1>2. tables = Table
  <2>1. \A i \in DOMAIN Tables : Tables[i] \in tables
    BY <1>1, ListsAre DEF KnowsOK
  <2> QED
    BY <1>1, <2>1 DEF Table, SetOf, SchemaTypeOK
<1>3. CASE Indexed \subseteq columns
  <2>1. Goes(o, "look", 1)
    BY <1>3 DEF CreateIndexes
  <2>2. 1 \in 0 .. Len(Tables) + Len(Additions) + 1 /\ 1 \in 1 .. Len(Additions) + 1
    BY ListsAre
  <2>3. /\ opener' \in [Opener -> OpenerRow]
        /\ \A p \in Opener : p # o => opener'[p] = opener[p]
        /\ opener'[o].pc = "look" /\ opener'[o].at = 1
    BY <2>1, <2>2, GoesFacts
  <2>4. SchemaTypeOK'
    BY <1>1, <2>3 DEF SchemaTypeOK
  <2>5. KnowsOK(o)'
    BY <1>1, <1>2, <1>3, <2>2, <2>3, ListsAre DEF KnowsOK, Done
  <2> QED
    BY <1>1, <2>3, <2>4, <2>5, FileStepInv
<1>4. CASE ~(Indexed \subseteq columns)
  <2>1. Goes(o, "raised", 0) /\ 0 \in 0 .. Len(Tables) + Len(Additions) + 1
    BY <1>4, ListsAre DEF CreateIndexes, Raises
  <2>2. /\ opener' \in [Opener -> OpenerRow]
        /\ \A p \in Opener : p # o => opener'[p] = opener[p]
        /\ opener'[o].pc = "raised"
    BY <2>1, GoesFacts
  <2>3. SchemaTypeOK'
    BY <1>1, <2>2 DEF SchemaTypeOK
  <2>4. Outdated'
    BY <1>1, <1>2, <1>4, SchemaAssumption DEF Outdated
  <2>5. KnowsOK(o)'
    BY <2>2, <2>4 DEF KnowsOK, Past, Done
  <2> QED
    BY <1>1, <2>2, <2>3, <2>5, FileStepInv
<1> QED
  BY <1>3, <1>4

LEMMA LookForColumnInv ==
    ASSUME FileInv, NEW o \in Opener, LookForColumn(o)
    PROVE  FileInv'
<1>1. PICK k \in DOMAIN Additions : k = opener[o].at
  BY DEF LookForColumn
<1>2. /\ opener[o].pc = "look" /\ UNCHANGED <<tables, columns, version>>
      /\ SchemaTypeOK /\ KnowsOK(o)
  BY DEF LookForColumn, FileInv
<1>3. /\ tables = Table /\ Indexed \subseteq columns
      /\ \A i \in DOMAIN Additions : i < k => Additions[i] \in columns
  BY <1>1, <1>2 DEF KnowsOK, Past
<1>4. /\ k \in 0 .. Len(Tables) + Len(Additions) + 1 /\ k + 1 \in 0 .. Len(Tables) + Len(Additions) + 1
      /\ k \in 1 .. Len(Additions) + 1 /\ k + 1 \in 1 .. Len(Additions) + 1
  BY <1>1, ListsAre
<1>5. CASE Additions[k] \in columns
  <2>1. Goes(o, "look", k + 1)
    BY <1>1, <1>5 DEF LookForColumn
  <2>2. /\ opener' \in [Opener -> OpenerRow]
        /\ \A p \in Opener : p # o => opener'[p] = opener[p]
        /\ opener'[o].pc = "look" /\ opener'[o].at = k + 1
    BY <1>4, <2>1, GoesFacts
  <2>3. SchemaTypeOK'
    BY <1>2, <2>2 DEF SchemaTypeOK
  <2>4. \A i \in DOMAIN Additions : i < k + 1 => Additions[i] \in columns
    <3>1. \A i \in DOMAIN Additions : i < k + 1 => i < k \/ i = k
      BY <1>1, ListsAre
    <3> QED
      BY <1>3, <1>5, <3>1
  <2>5. KnowsOK(o)'
    BY <1>2, <1>3, <1>4, <2>2, <2>4 DEF KnowsOK, Done
  <2> QED
    BY <1>2, <2>2, <2>3, <2>5, FileStepInv
<1>6. CASE Additions[k] \notin columns
  <2>1. Goes(o, "alter", k)
    BY <1>1, <1>6 DEF LookForColumn
  <2>2. /\ opener' \in [Opener -> OpenerRow]
        /\ \A p \in Opener : p # o => opener'[p] = opener[p]
        /\ opener'[o].pc = "alter" /\ opener'[o].at = k
    BY <1>4, <2>1, GoesFacts
  <2>3. SchemaTypeOK'
    BY <1>2, <2>2 DEF SchemaTypeOK
  <2>4. KnowsOK(o)'
    BY <1>1, <1>2, <1>3, <1>4, <1>6, <2>2 DEF KnowsOK, Done
  <2> QED
    BY <1>2, <2>2, <2>3, <2>4, FileStepInv
<1> QED
  BY <1>5, <1>6

LEMMA AddColumnInv ==
    ASSUME FileInv, NEW o \in Opener, AddColumn(o)
    PROVE  FileInv'
<1>1. SchemaTypeOK /\ KnowsOK(o) /\ opener[o].pc = "alter" /\ opener[o] \in OpenerRow
  BY DEF AddColumn, FileInv, SchemaTypeOK
<1>2. PICK k \in DOMAIN Additions : k = opener[o].at
  BY <1>1 DEF KnowsOK
<1>3. PICK c \in Column : c = Additions[k]
  BY ListsAre
<1>4. /\ columns' = columns \cup {c} /\ UNCHANGED <<tables, version>>
      /\ opener' = [p \in Opener |->
           IF p = o
           THEN IF c \in columns THEN [NotOpen EXCEPT !.pc = "raised", !.raced = opener[o].raced]
                ELSE [opener[o] EXCEPT !.pc = "look", !.at = @ + 1]
           ELSE IF opener[p].pc = "alter" /\ Additions[opener[p].at] = c
           THEN [opener[p] EXCEPT !.raced = TRUE] ELSE opener[p]]
  BY <1>2, <1>3 DEF AddColumn
<1>5. /\ tables = Table /\ Indexed \subseteq columns
      /\ \A i \in DOMAIN Additions : i < k => Additions[i] \in columns
      /\ c \in columns => opener[o].raced = TRUE
  BY <1>1, <1>2, <1>3 DEF KnowsOK, Past
<1>6. k + 1 \in 1 .. Len(Additions) + 1 /\ k + 1 \in 0 .. Len(Tables) + Len(Additions) + 1
  BY <1>2, ListsAre
<1>7. ASSUME NEW p \in Opener, p # o
      PROVE  StaysOpen(p) /\ opener'[p] \in OpenerRow
  <2>1. opener[p] \in OpenerRow
    BY <1>1 DEF SchemaTypeOK
  <2>2. CASE opener[p].pc = "alter" /\ Additions[opener[p].at] = c
    <3>1. opener'[p] = [opener[p] EXCEPT !.raced = TRUE]
      BY <1>4, <1>7, <2>2
    <3> QED
      BY <2>1, <3>1 DEF StaysOpen, OpenerRow
  <2>3. CASE ~(opener[p].pc = "alter" /\ Additions[opener[p].at] = c)
    <3>1. opener'[p] = opener[p]
      BY <1>4, <1>7, <2>3
    <3> QED
      BY <1>4, <2>1, <2>3, <3>1 DEF StaysOpen
  <2> QED
    BY <2>2, <2>3
<1>8. c \in SetOf(Additions)
  BY <1>3 DEF SetOf
<1>9. Grows
  BY <1>4, <1>5, <1>8 DEF Grows, Complete, Outdated
<1>10. opener'[o] \in OpenerRow /\ KnowsOK(o)'
  <2>1. CASE c \in columns
    <3>1. opener'[o] = [NotOpen EXCEPT !.pc = "raised", !.raced = opener[o].raced]
      BY <1>4, <2>1
    <3>2. opener'[o].pc = "raised" /\ opener'[o].raced = TRUE /\ opener'[o] \in OpenerRow
      BY <1>5, <2>1, <3>1, NotOpenRow DEF OpenerRow
    <3> QED
      BY <3>2 DEF KnowsOK, Past, Done
  <2>2. CASE c \notin columns
    <3>1. opener'[o] = [opener[o] EXCEPT !.pc = "look", !.at = k + 1]
      BY <1>2, <1>4, <2>2
    <3>2. opener'[o].pc = "look" /\ opener'[o].at = k + 1 /\ opener'[o] \in OpenerRow
      BY <1>1, <1>6, <3>1 DEF OpenerRow
    <3>3. \A i \in DOMAIN Additions : i < k + 1 => Additions[i] \in columns'
      <4>1. \A i \in DOMAIN Additions : i < k + 1 => i < k \/ i = k
        BY <1>2, ListsAre
      <4> QED
        BY <1>3, <1>4, <1>5, <4>1
    <3>4. tables' = Table /\ Indexed \subseteq columns'
      BY <1>4, <1>5
    <3> QED
      BY <1>6, <3>2, <3>3, <3>4 DEF KnowsOK, Done
  <2> QED
    BY <2>1, <2>2
<1>11. SchemaTypeOK'
  <2>1. opener' \in [Opener -> OpenerRow]
    BY <1>4, <1>7, <1>10
  <2>2. TableOf[c] \in Table
    BY SchemaAssumption
  <2> QED
    BY <1>1, <1>4, <1>5, <2>1, <2>2 DEF SchemaTypeOK
<1> QED
  BY <1>7, <1>9, <1>10, <1>11, OtherKnows DEF FileInv

LEMMA StampInv ==
    ASSUME FileInv, NEW o \in Opener, Stamp(o)
    PROVE  FileInv'
<1>1. /\ opener[o].pc = "look" /\ opener[o].at = Len(Additions) + 1
      /\ version' = SchemaVersion /\ Goes(o, "open", 0) /\ UNCHANGED <<tables, columns>>
      /\ SchemaTypeOK /\ KnowsOK(o)
  BY DEF Stamp, FileInv
<1>2. tables = Table /\ Indexed \subseteq columns
  BY <1>1 DEF KnowsOK, Past
<1>3. SetOf(Additions) \subseteq columns
  BY <1>1, ListsAre DEF KnowsOK, SetOf
<1>4. 0 \in 0 .. Len(Tables) + Len(Additions) + 1
  BY ListsAre
<1>5. /\ opener' \in [Opener -> OpenerRow]
      /\ \A p \in Opener : p # o => opener'[p] = opener[p]
      /\ opener'[o].pc = "open"
  BY <1>1, <1>4, GoesFacts
<1>6. SchemaTypeOK'
  BY <1>1, <1>5 DEF SchemaTypeOK, SchemaVersion
<1>7. KnowsOK(o)'
  BY <1>1, <1>2, <1>3, <1>5 DEF KnowsOK
<1> QED
  BY <1>1, <1>5, <1>6, <1>7, FileStepInv

LEMMA ReadVersionInv ==
    ASSUME FileInv, NEW o \in Opener, ReadVersion(o)
    PROVE  FileInv'
<1> DEFINE new == [NotOpen EXCEPT !.pc = "reading", !.at = 1, !.read = version,
                                  !.raced = opener[o].raced]
<1>1. /\ opener[o].pc = "open" /\ opener' = [opener EXCEPT ![o] = new]
      /\ UNCHANGED <<tables, columns, version>>
      /\ SchemaTypeOK /\ KnowsOK(o) /\ opener[o] \in OpenerRow
  BY DEF ReadVersion, FileInv, SchemaTypeOK
<1>2. /\ new.pc = "reading" /\ new.at = 1 /\ new.read = version /\ new.lacks = {}
      /\ new \in OpenerRow
  <2>1. 1 \in 0 .. Len(Tables) + Len(Additions) + 1
    BY ListsAre
  <2> QED
    BY <1>1, <2>1, NotOpenRow DEF OpenerRow, SchemaTypeOK
<1> HIDE DEF new
<1>3. /\ tables = Table /\ Indexed \subseteq columns /\ SetOf(Additions) \subseteq columns
      /\ version = SchemaVersion
  BY <1>1 DEF KnowsOK, Past, Done
<1>4. /\ opener' \in [Opener -> OpenerRow] /\ opener'[o] = new
      /\ \A p \in Opener : p # o => opener'[p] = opener[p]
  BY <1>1, <1>2 DEF SchemaTypeOK
<1>5. SchemaTypeOK'
  BY <1>1, <1>4 DEF SchemaTypeOK
<1>6. 1 \in 1 .. Len(Tables) + 1 /\ ~(\E i \in DOMAIN Tables : i < 1)
  BY ListsAre
<1>7. KnowsOK(o)'
  BY <1>1, <1>2, <1>3, <1>4, <1>6 DEF KnowsOK
<1> QED
  BY <1>1, <1>4, <1>5, <1>7, FileStepInv

LEMMA ReadTableInv ==
    ASSUME FileInv, NEW o \in Opener, ReadTable(o)
    PROVE  FileInv'
<1>1. PICK k \in DOMAIN Tables : k = opener[o].at
  BY DEF ReadTable
<1> DEFINE more == {c \in Required \ columns : TableOf[c] = Tables[k]}
           new == [opener[o] EXCEPT !.at = k + 1, !.lacks = opener[o].lacks \cup more]
<1>2. /\ opener[o].pc = "reading" /\ UNCHANGED <<tables, columns, version>>
      /\ SchemaTypeOK /\ KnowsOK(o) /\ opener[o] \in OpenerRow
      /\ opener' = [opener EXCEPT ![o].at = @ + 1, ![o].lacks = @ \cup more]
  BY <1>1 DEF ReadTable, FileInv, SchemaTypeOK
<1>3. opener' = [opener EXCEPT ![o] = new]
  BY <1>1, <1>2 DEF SchemaTypeOK
<1>4. /\ tables = Table /\ Indexed \subseteq columns /\ SetOf(Additions) \subseteq columns
      /\ version = SchemaVersion /\ opener[o].read = SchemaVersion
      /\ opener[o].lacks = {c \in Required \ columns : \E i \in DOMAIN Tables :
                                                         i < k /\ Tables[i] = TableOf[c]}
  BY <1>1, <1>2 DEF KnowsOK, Past, Done
<1>5. k + 1 \in 0 .. Len(Tables) + Len(Additions) + 1 /\ k + 1 \in 1 .. Len(Tables) + 1
  BY <1>1, ListsAre
<1>6. more \subseteq Column
  BY SchemaAssumption
<1>7. opener[o].lacks \cup more =
        {c \in Required \ columns : \E i \in DOMAIN Tables : i < k + 1 /\ Tables[i] = TableOf[c]}
  <2>1. \A i \in DOMAIN Tables : i < k + 1 <=> i < k \/ i = k
    BY <1>1, ListsAre
  <2> QED
    BY <1>4, <2>1
<1> HIDE DEF more
<1>8. /\ new.pc = "reading" /\ new.at = k + 1 /\ new.read = opener[o].read
      /\ new.lacks = opener[o].lacks \cup more /\ new \in OpenerRow
  BY <1>2, <1>5, <1>6 DEF OpenerRow
<1> HIDE DEF new
<1>9. /\ opener' \in [Opener -> OpenerRow] /\ opener'[o] = new
      /\ \A p \in Opener : p # o => opener'[p] = opener[p]
  BY <1>2, <1>3, <1>8 DEF SchemaTypeOK
<1>10. SchemaTypeOK'
  BY <1>2, <1>9 DEF SchemaTypeOK
<1>11. /\ opener'[o].pc = "reading" /\ opener'[o].at = k + 1
       /\ opener'[o].read = SchemaVersion
  BY <1>4, <1>8, <1>9
<1>12. opener'[o].lacks =
         {c \in Required \ columns' : \E i \in DOMAIN Tables :
                                     i < opener'[o].at /\ Tables[i] = TableOf[c]}
  BY <1>2, <1>7, <1>8, <1>9, <1>11
<1>13. KnowsOK(o)'
  BY <1>2, <1>4, <1>5, <1>11, <1>12 DEF KnowsOK
<1> QED
  BY <1>2, <1>9, <1>10, <1>13, FileStepInv

LEMMA AnswerStatusInv ==
    ASSUME FileInv, NEW o \in Opener, AnswerStatus(o)
    PROVE  FileInv'
<1>1. /\ opener[o].pc = "reading" /\ opener[o].at = Len(Tables) + 1 /\ Goes(o, "answered", 0)
      /\ UNCHANGED <<tables, columns, version>> /\ SchemaTypeOK /\ KnowsOK(o)
  BY DEF AnswerStatus, FileInv
<1>2. /\ tables = Table /\ Indexed \subseteq columns /\ SetOf(Additions) \subseteq columns
      /\ version = SchemaVersion /\ opener[o].read = SchemaVersion
      /\ opener[o].lacks = {c \in Required \ columns : \E i \in DOMAIN Tables :
                                          i < Len(Tables) + 1 /\ Tables[i] = TableOf[c]}
  BY <1>1 DEF KnowsOK, Past, Done
<1>3. \A c \in Required : \E i \in DOMAIN Tables : i < Len(Tables) + 1 /\ Tables[i] = TableOf[c]
  <2> SUFFICES ASSUME NEW c \in Required
               PROVE  \E i \in DOMAIN Tables : i < Len(Tables) + 1 /\ Tables[i] = TableOf[c]
    OBVIOUS
  <2>1. TableOf[c] \in Table
    BY SchemaAssumption
  <2>2. PICK i \in DOMAIN Tables : Tables[i] = TableOf[c]
    BY <2>1 DEF Table, SetOf
  <2>3. i < Len(Tables) + 1
    BY ListsAre
  <2> QED
    BY <2>2, <2>3
<1>4. opener[o].lacks = Required \ columns
  BY <1>2, <1>3
<1>5. 0 \in 0 .. Len(Tables) + Len(Additions) + 1
  BY ListsAre
<1>6. /\ opener' \in [Opener -> OpenerRow]
      /\ \A p \in Opener : p # o => opener'[p] = opener[p]
      /\ opener'[o].pc = "answered" /\ opener'[o].lacks = opener[o].lacks
      /\ opener'[o].read = opener[o].read
  BY <1>1, <1>5, GoesFacts
<1>7. SchemaTypeOK'
  BY <1>1, <1>6 DEF SchemaTypeOK
<1>8. KnowsOK(o)'
  BY <1>1, <1>2, <1>4, <1>6 DEF KnowsOK
<1> QED
  BY <1>1, <1>6, <1>7, <1>8, FileStepInv

LEMMA CloseFileInv ==
    ASSUME FileInv, NEW o \in Opener, CloseFile(o)
    PROVE  FileInv'
<1>1. /\ opener' = [opener EXCEPT ![o] = NotOpen] /\ UNCHANGED <<tables, columns, version>>
      /\ SchemaTypeOK
  BY DEF CloseFile, FileInv
<1>2. NotOpen \in OpenerRow /\ NotOpen.pc = "closed"
  BY NotOpenRow
<1>3. /\ opener' \in [Opener -> OpenerRow] /\ opener'[o].pc = "closed"
      /\ \A p \in Opener : p # o => opener'[p] = opener[p]
  BY <1>1, <1>2 DEF SchemaTypeOK
<1>4. SchemaTypeOK'
  BY <1>1, <1>3 DEF SchemaTypeOK
<1>5. KnowsOK(o)'
  BY <1>3 DEF KnowsOK, Past, Done
<1> QED
  BY <1>1, <1>3, <1>4, <1>5, FileStepInv

----------------------------------------------------------------------------
(* The theorems. *)

LEMMA FileInitInv == SchemaInit => FileInv
<1> SUFFICES ASSUME SchemaInit PROVE FileInv
  OBVIOUS
<1>1. PICK old \in OldSchema :
        /\ tables = old.tables /\ columns = old.columns
        /\ version \in IF old.tables = {} THEN {0} ELSE 0 .. SchemaVersion
        /\ opener = [o \in Opener |-> NotOpen]
  BY DEF SchemaInit
<1>2. NotOpen \in OpenerRow /\ NotOpen.pc = "closed"
  BY NotOpenRow
<1>3. version \in 0 .. SchemaVersion
  BY <1>1 DEF SchemaVersion
<1>4. SchemaTypeOK
  BY <1>1, <1>2, <1>3, SchemaAssumption DEF SchemaTypeOK
<1>5. \A o \in Opener : KnowsOK(o)
  BY <1>1, <1>2 DEF KnowsOK, Past, Done
<1> QED
  BY <1>4, <1>5 DEF FileInv

LEMMA FileNextInv == FileInv /\ [SchemaNext]_schemaVars => FileInv'
<1> SUFFICES ASSUME FileInv, [SchemaNext]_schemaVars PROVE FileInv'
  OBVIOUS
<1>1. CASE SchemaNext
  BY <1>1, OpenFileInv, CreateTableInv, CreateIndexesInv, LookForColumnInv, AddColumnInv, StampInv,
     ReadVersionInv, ReadTableInv, AnswerStatusInv, CloseFileInv DEF SchemaNext
<1>2. CASE UNCHANGED schemaVars
  BY <1>2 DEF schemaVars, FileInv, SchemaTypeOK, KnowsOK, Outdated
<1> QED
  BY <1>1, <1>2

LEMMA FileInvHolds == SchemaSpec => []FileInv
<1> QED
  BY FileInitInv, FileNextInv, PTL DEF SchemaSpec

\* The file and its connections are as SchemaTypeOK says.
THEOREM SchemaTypeCorrect == SchemaSpec => []SchemaTypeOK
<1>1. FileInv => SchemaTypeOK
  BY DEF FileInv
<1> QED
  BY <1>1, FileInvHolds, PTL

\* Whatever file is opened and however connections overlap or die: what a connection that
\* passed init_db finds is the whole schema, init_db fails only for the two reasons, and
\* migration_status tells the truth.
THEOREM MigrationSafe == SchemaSpec => []MigrationIsWhole
<1>1. FileInv => MigrationIsWhole
  <2> SUFFICES ASSUME FileInv, NEW o \in Opener
               PROVE  LET r == opener[o] IN
                      /\ r.pc \in {"open", "reading", "answered"} =>
                           /\ tables = Table /\ SetOf(Additions) \subseteq columns
                           /\ version = SchemaVersion /\ ~Outdated
                      /\ r.pc = "raised" => r.raced \/ Outdated
                      /\ r.pc = "answered" => (Compatible(r) <=> Required \subseteq columns)
    BY DEF MigrationIsWhole
  <2>1. KnowsOK(o)
    BY DEF FileInv
  <2>2. opener[o].pc \in Done => /\ tables = Table /\ SetOf(Additions) \subseteq columns
                                 /\ version = SchemaVersion /\ ~Outdated
    BY <2>1 DEF KnowsOK, Past, Done, Outdated
  <2>3. opener[o].pc = "raised" => opener[o].raced \/ Outdated
    BY <2>1 DEF KnowsOK
  <2>4. opener[o].pc = "answered" => (Compatible(opener[o]) <=> Required \subseteq columns)
    <3>1. opener[o].pc = "answered" => opener[o].read = 1 /\ opener[o].lacks = Required \ columns
      BY <2>1 DEF KnowsOK, SchemaVersion
    <3> QED
      BY <3>1 DEF Compatible, SchemaVersion
  <2> QED
    BY <2>2, <2>3, <2>4 DEF Done
<1> QED
  BY <1>1, FileInvHolds, PTL

----------------------------------------------------------------------------
(* Graph commands: any drafts, labels and scopes.                         *)

\* A command as normalisation leaves it.
Sane(c) ==
    /\ c \in Update /\ c.op # "other"
    /\ c.op \in {"node", "edge"} => c.label \in Label
    /\ c.op = "edge" => c.to \in Label

\* The memories it names, if it names any, are there.
Known(c) == \A m \in {c.mem, c.other} \cap Draft : memory[m] # "none"

GraphRows ==
    /\ draft \in [Draft -> DraftRow]
    /\ memory \in [Draft -> {"none", "active", "inactive"}]
    /\ gnode \in [GNode -> {"none", "active", "inactive"}]
    /\ gedge \in [GEdge -> {"none", "active", "inactive"}]
    /\ journal \in [Draft -> SUBSET {"proposed", "quarantined", "applied"}]
    /\ group = [s \in Space |-> group[s]]
    /\ strayed \in BOOLEAN

CommandsOK(d) == \A c \in Commands(d) : Sane(c) /\ Known(c)

\* What candidate d left, if it is approved, and else nothing.
Left(d, S) == IF draft[d].status = "approved" THEN S ELSE {}
DoneOK(d) ==
    /\ {n \in GNode : <<n, d>> \in nodeProof} = Left(d, NodesOf(Commands(d)))
    /\ {e \in GEdge : <<e, d>> \in edgeProof} = Left(d, EdgesOf(Commands(d)))

\* The conflicts of the approved candidates.
Recorded ==
    UNION {ClashesOf(d, Commands(d)) : d \in {b \in Draft : draft[b].status = "approved"}}

JournalOK(d) ==
    /\ "applied" \in journal[d] <=> draft[d].status = "approved"
    /\ "quarantined" \in journal[d] => draft[d].status \in {"quarantined", "rejected"}

CommandInv ==
    /\ GraphRows
    /\ \A d \in Draft : CommandsOK(d) /\ DoneOK(d) /\ JournalOK(d)
    /\ clashes = Recorded
    /\ GraphRestsOnMemories

----------------------------------------------------------------------------
(* The operators. *)

\* What an accepted list is normalised to: well-formed commands that name what the updates
\* of the list name.
LEMMA NormalizedFacts ==
    ASSUME NEW list \in Seq(Update), Accepted(list)
    PROVE  /\ Normalized(list) \in Seq(Update)
           /\ \A i \in DOMAIN Normalized(list) :
                /\ Sane(Normalized(list)[i]) /\ i \in DOMAIN list
                /\ Normalized(list)[i].mem = list[i].mem
                /\ Normalized(list)[i].other = list[i].other
<1> DEFINE m == IF Len(list) < MaxCommands THEN Len(list) ELSE MaxCommands
           t == SubSeq(list, 1, m)
           norm(i) == [t[i] EXCEPT !.op = CommandType(t[i])]
<1>1. /\ Len(list) \in Nat /\ DOMAIN list = 1 .. Len(list)
      /\ \A i \in DOMAIN list : list[i] \in Update
  OBVIOUS
<1>2. m \in Nat /\ m <= Len(list)
  BY <1>1, MaxAssumption
<1>3. 1 \in Int /\ m \in Int /\ \A i \in 1 .. m : list[i] \in Update
  BY <1>1, <1>2
<1> HIDE DEF m
<1>4. /\ t \in Seq(Update) /\ Len(t) = IF 1 <= m THEN m - 1 + 1 ELSE 0
      /\ \A i \in 1 .. m - 1 + 1 : t[i] = list[1 + i - 1]
  BY <1>3, SubSeqProperties
<1>5. DOMAIN t = 1 .. m /\ \A i \in 1 .. m : t[i] = list[i] /\ i \in DOMAIN list
  <2>1. Len(t) = m /\ m - 1 + 1 = m
    BY <1>2, <1>4
  <2>2. DOMAIN t = 1 .. Len(t)
    BY <1>4
  <2>3. \A i \in 1 .. m : t[i] = list[1 + i - 1] /\ 1 + i - 1 = i
    BY <1>4, <2>1
  <2>4. \A i \in 1 .. m : i \in 1 .. Len(list)
    BY <1>1, <1>2
  <2> QED
    BY <1>1, <2>1, <2>2, <2>3, <2>4
<1>6. Taken(list) = t
  BY DEF Taken, m
<1> HIDE DEF t
<1>7. \A i \in 1 .. m : t[i] \in Update /\ WellFormed(t[i])
  BY <1>3, <1>5, <1>6 DEF Accepted
<1>8. \A u \in Update : WellFormed(u) => /\ [u EXCEPT !.op = CommandType(u)] \in Update
                                         /\ Sane([u EXCEPT !.op = CommandType(u)])
                                         /\ [u EXCEPT !.op = CommandType(u)].mem = u.mem
                                         /\ [u EXCEPT !.op = CommandType(u)].other = u.other
  <2> SUFFICES ASSUME NEW u \in Update, WellFormed(u), NEW op, op = CommandType(u)
               PROVE  /\ [u EXCEPT !.op = op] \in Update /\ Sane([u EXCEPT !.op = op])
                      /\ [u EXCEPT !.op = op].mem = u.mem /\ [u EXCEPT !.op = op].other = u.other
    OBVIOUS
  <2>1. op \in {"node", "edge", "conflict"}
    BY DEF CommandType, Update
  <2>2. /\ op \in {"node", "edge"} => u.label \in Label
        /\ op = "edge" => u.to \in Label
    BY DEF WellFormed, Update
  <2> QED
    BY <2>1, <2>2 DEF Update, Sane
<1>9. Normalized(list) = [i \in 1 .. m |-> norm(i)]
  BY <1>5, <1>6 DEF Normalized
<1>10. \A i \in 1 .. m : /\ norm(i) \in Update /\ Sane(norm(i))
                         /\ norm(i).mem = list[i].mem /\ norm(i).other = list[i].other
  BY <1>5, <1>7, <1>8
<1> HIDE DEF norm
<1>11. Normalized(list) \in [1 .. m -> Update] /\ DOMAIN Normalized(list) = 1 .. m
  BY <1>9, <1>10
<1>12. Normalized(list) \in Seq(Update)
  BY <1>2, <1>11, SeqDef
<1> QED
  BY <1>5, <1>9, <1>10, <1>11, <1>12

\* What well-formed commands write to.
LEMMA WrittenFacts ==
    ASSUME NEW C, \A c \in C : Sane(c), NEW d \in Draft
    PROVE  /\ NodesOf(C) \subseteq GNode /\ EdgesOf(C) \subseteq GEdge
           /\ Sound(d, C) => \A pair \in ClashesOf(d, C) : \A m \in {pair[1], pair[2]} :
                               m \in Draft /\ (m = d \/ \E c \in C : m \in {c.mem, c.other})
<1>1. \A c \in C : c.scope \in Space /\ EndsOf(c) \subseteq Label
  BY DEF Sane, Update, EndsOf
<1>2. Home \in Space
  BY DEF Space
<1>3. \A c \in C : {c.scope, Home} \X EndsOf(c) \subseteq GNode
  BY <1>1, <1>2 DEF GNode
<1>4. NodesOf(C) \subseteq GNode
  BY <1>3 DEF NodesOf
<1>5. EdgesOf(C) \subseteq GEdge
  <2> SUFFICES ASSUME NEW c \in C, c.op = "edge"
               PROVE  <<<<c.scope, c.label>>, <<c.scope, c.to>>>> \in GEdge
    BY DEF EdgesOf
  <2>1. c.scope \in Space /\ c.label \in Label /\ c.to \in Label
    BY DEF Sane, Update
  <2> QED
    BY <2>1 DEF GEdge, GNode
<1>6. ASSUME Sound(d, C), NEW pair \in ClashesOf(d, C), NEW m \in {pair[1], pair[2]}
      PROVE  m \in Draft /\ (m = d \/ \E c \in C : m \in {c.mem, c.other})
  <2>1. PICK c \in C : /\ c.op = "conflict" /\ c.other # Nothing
                       /\ pair = <<IF c.mem = Nothing THEN d ELSE c.mem, c.other>>
    BY DEF ClashesOf
  <2>2. m # Missing
    BY <1>6 DEF Sound
  <2>3. c.mem \in Draft \cup {Nothing, Missing} /\ c.other \in Draft \cup {Nothing, Missing}
    BY DEF Sane, Update
  <2>4. m = c.other \/ (m = d /\ c.mem = Nothing) \/ (m = c.mem /\ c.mem # Nothing)
    BY <2>1
  <2> QED
    BY <2>1, <2>2, <2>3, <2>4
<1> QED
  BY <1>4, <1>5, <1>6

\* A scope whose nodes stay as they are, and that is not the memories', has its count.
LEMMA CountStays ==
    ASSUME NEW old, NEW new, NEW mems1, NEW mems2, NEW s, s # Home,
           \A n \in GNode : n[1] = s => new[n] = old[n]
    PROVE  Count(new, mems2, s) = Count(old, mems1, s)
<1>1. Shown(new, s) = Shown(old, s)
  BY DEF Shown
<1> QED
  BY <1>1 DEF Count

----------------------------------------------------------------------------
(* The steps. *)

\* A candidate that is not approved, and what it holds now: the graph is left alone.
LEMMA DraftInv ==
    ASSUME CommandInv, NEW d \in Draft, NEW row \in DraftRow, NEW notes,
           draft' = [draft EXCEPT ![d] = row],
           journal' = [journal EXCEPT ![d] = notes],
           draft[d].status # "approved", row.status \in {"pending", "quarantined", "rejected"},
           \A i \in DOMAIN row.commands : Sane(row.commands[i]) /\ Known(row.commands[i]),
           notes \in SUBSET {"proposed", "quarantined"},
           "quarantined" \in notes => row.status \in {"quarantined", "rejected"},
           UNCHANGED <<memory, gnode, gedge, nodeProof, edgeProof, clashes, group, strayed>>
    PROVE  CommandInv'
<1> USE DEF CommandInv
<1>1. /\ draft'[d] = row /\ journal'[d] = notes
      /\ \A e \in Draft : e # d => draft'[e] = draft[e] /\ journal'[e] = journal[e]
  BY DEF GraphRows
<1>2. GraphRows'
  BY DEF GraphRows
<1>3. GraphRestsOnMemories'
  BY DEF GraphRestsOnMemories, Backed, Count, Shown
<1>8. \A e \in Draft : e # d => Commands(e)' = Commands(e)
  BY <1>1 DEF Commands
<1>9. Recorded' = Recorded
  <2>1. {b \in Draft : draft'[b].status = "approved"} = {b \in Draft : draft[b].status = "approved"}
    BY <1>1
  <2>2. \A b \in Draft : draft[b].status = "approved" => Commands(b)' = Commands(b)
    BY <1>8
  <2>3. \A b \in Draft : draft[b].status = "approved"
                           => ClashesOf(b, Commands(b)') = ClashesOf(b, Commands(b))
    BY <2>2
  <2> QED
    BY <2>1, <2>3 DEF Recorded, ClashesOf
<1>4. ASSUME NEW e \in Draft, e # d PROVE CommandsOK(e)' /\ DoneOK(e)' /\ JournalOK(e)'
  <2>1. Commands(e)' = Commands(e)
    BY <1>4, <1>8
  <2>2. CommandsOK(e)'
    BY <2>1 DEF CommandsOK, Known
  <2>3. DoneOK(e)'
    BY <1>1, <1>4, <2>1 DEF DoneOK, Left
  <2>4. JournalOK(e)'
    BY <1>1, <1>4 DEF JournalOK
  <2> QED
    BY <2>2, <2>3, <2>4
<1>5. CommandsOK(d)'
  BY <1>1 DEF CommandsOK, Commands, Known
<1>6. DoneOK(d)'
  BY <1>1 DEF DoneOK, Left
<1>7. JournalOK(d)'
  BY <1>1 DEF JournalOK
<1> QED
  BY <1>2, <1>3, <1>4, <1>5, <1>6, <1>7, <1>9

LEMMA ActivateInv ==
    ASSUME CommandInv, NEW d \in Draft, NEW cs \in Seq(Update),
           \A i \in DOMAIN cs : Sane(cs[i]) /\ Known(cs[i]),
           Activate(d, cs), draft[d].status \in {"none", "pending"}
    PROVE  CommandInv'
<1> USE DEF CommandInv
<1>1. PICK C : C = {cs[i] : i \in DOMAIN cs}
  OBVIOUS
<1>2. \A c \in C : Sane(c) /\ Known(c)
  BY <1>1
<1> DEFINE nodes == [n \in GNode |-> IF n \in NodesOf(C) /\ gnode[n] = "none"
                                     THEN "active" ELSE gnode[n]]
           mems == [memory EXCEPT ![d] = "active"]
           row == [status |-> "approved", commands |-> cs]
<1>3. /\ Sound(d, C)
      /\ draft' = [draft EXCEPT ![d] = row]
      /\ memory' = mems /\ gnode' = nodes
      /\ gedge' = [e \in GEdge |-> IF e \in EdgesOf(C) THEN "active" ELSE gedge[e]]
      /\ nodeProof' = nodeProof \cup (NodesOf(C) \X {d})
      /\ edgeProof' = edgeProof \cup (EdgesOf(C) \X {d})
      /\ clashes' = clashes \cup ClashesOf(d, C)
      /\ journal' = [journal EXCEPT ![d] = @ \cup {"applied"}]
      /\ group' = [group EXCEPT ![Home] = Count(nodes, mems, Home)]
      /\ strayed' = (strayed \/ \E n \in NodesOf(C) : n[1] = Abroad)
  BY <1>1 DEF Activate
<1>4. /\ NodesOf(C) \subseteq GNode /\ EdgesOf(C) \subseteq GEdge
      /\ \A pair \in ClashesOf(d, C) : \A m \in {pair[1], pair[2]} :
           m \in Draft /\ (m = d \/ \E c \in C : m \in {c.mem, c.other})
  BY <1>2, <1>3, WrittenFacts
<1>5. /\ row \in DraftRow /\ row.status = "approved" /\ row.commands = cs
  BY DEF DraftRow
<1> HIDE DEF row
<1>6. /\ draft'[d] = row /\ memory'[d] = "active" /\ journal'[d] = journal[d] \cup {"applied"}
      /\ \A e \in Draft : e # d => draft'[e] = draft[e] /\ memory'[e] = memory[e]
                                   /\ journal'[e] = journal[e]
  BY <1>3 DEF GraphRows
<1>7. Commands(d)' = C
  BY <1>1, <1>5, <1>6 DEF Commands
<1>8. \A n \in GNode : gnode'[n] = IF n \in NodesOf(C) /\ gnode[n] = "none"
                                   THEN "active" ELSE gnode[n]
  BY <1>3
<1>9. \A e \in Draft : memory[e] # "none" => memory'[e] # "none"
  BY <1>6
<1>10. GraphRows'
  <2>1. draft' \in [Draft -> DraftRow]
    BY <1>3, <1>5 DEF GraphRows
  <2>2. /\ memory' \in [Draft -> {"none", "active", "inactive"}]
        /\ gnode' \in [GNode -> {"none", "active", "inactive"}]
        /\ gedge' \in [GEdge -> {"none", "active", "inactive"}]
    BY <1>3 DEF GraphRows
  <2>3. journal' \in [Draft -> SUBSET {"proposed", "quarantined", "applied"}]
    BY <1>3 DEF GraphRows
  <2>4. group' = [s \in Space |-> group'[s]] /\ strayed' \in BOOLEAN
    BY <1>3 DEF GraphRows
  <2> QED
    BY <2>1, <2>2, <2>3, <2>4 DEF GraphRows
<1>11. ASSUME NEW e \in Draft, e # d PROVE CommandsOK(e)' /\ DoneOK(e)' /\ JournalOK(e)'
  <2>1. Commands(e)' = Commands(e)
    BY <1>6, <1>11 DEF Commands
  <2>2. CommandsOK(e)'
    BY <1>9, <2>1 DEF CommandsOK, Known
  <2>3. DoneOK(e)'
    <3>1. {n \in GNode : <<n, e>> \in nodeProof'} = {n \in GNode : <<n, e>> \in nodeProof}
      BY <1>3, <1>11
    <3>2. {x \in GEdge : <<x, e>> \in edgeProof'} = {x \in GEdge : <<x, e>> \in edgeProof}
      BY <1>3, <1>11
    <3> QED
      BY <1>6, <1>11, <2>1, <3>1, <3>2 DEF DoneOK, Left
  <2>4. JournalOK(e)'
    BY <1>6, <1>11 DEF JournalOK
  <2> QED
    BY <2>2, <2>3, <2>4
<1>12. CommandsOK(d)'
  BY <1>2, <1>7, <1>9 DEF CommandsOK, Known
<1>13. DoneOK(d)'
  <2>1. /\ {n \in GNode : <<n, d>> \in nodeProof} = {}
        /\ {x \in GEdge : <<x, d>> \in edgeProof} = {}
    BY DEF DoneOK, Left
  <2>2. {n \in GNode : <<n, d>> \in nodeProof'} = NodesOf(C)
    BY <1>3, <1>4, <2>1
  <2>3. {x \in GEdge : <<x, d>> \in edgeProof'} = EdgesOf(C)
    BY <1>3, <1>4, <2>1
  <2> QED
    BY <1>5, <1>6, <1>7, <2>2, <2>3 DEF DoneOK, Left
<1>14. JournalOK(d)'
  BY <1>5, <1>6 DEF JournalOK
<1>15. ASSUME NEW n \in GNode, gnode'[n] = "active" PROVE Backed(n, nodeProof, memory)'
  <2>1. CASE n \in NodesOf(C)
    BY <1>3, <1>6, <2>1 DEF Backed
  <2>2. CASE n \notin NodesOf(C)
    <3>1. PICK e \in Draft : <<n, e>> \in nodeProof /\ memory[e] = "active"
      BY <1>8, <1>15, <2>2 DEF GraphRestsOnMemories, Backed
    <3> QED
      BY <1>3, <1>6, <3>1 DEF Backed
  <2> QED
    BY <2>1, <2>2
<1>16. ASSUME NEW x \in GEdge, gedge'[x] = "active" PROVE Backed(x, edgeProof, memory)'
  <2>1. CASE x \in EdgesOf(C)
    BY <1>3, <1>6, <2>1 DEF Backed
  <2>2. CASE x \notin EdgesOf(C)
    <3>1. PICK e \in Draft : <<x, e>> \in edgeProof /\ memory[e] = "active"
      BY <1>3, <1>16, <2>2 DEF GraphRestsOnMemories, Backed
    <3> QED
      BY <1>3, <1>6, <3>1 DEF Backed
  <2> QED
    BY <2>1, <2>2
<1>17. ASSUME NEW pair \in clashes', NEW m \in {pair[1], pair[2]}
       PROVE  m \in Draft /\ memory'[m] # "none"
  <2>1. CASE pair \in clashes
    BY <1>9, <2>1 DEF GraphRestsOnMemories
  <2>2. CASE pair \in ClashesOf(d, C)
    <3>1. m \in Draft /\ (m = d \/ \E c \in C : m \in {c.mem, c.other})
      BY <1>4, <2>2
    <3>2. m # d => memory[m] # "none"
      BY <1>2, <3>1 DEF Known
    <3> QED
      BY <1>6, <1>9, <3>1, <3>2
  <2> QED
    BY <1>3, <1>17, <2>1, <2>2
<1>20. clashes' = Recorded'
  <2> DEFINE old == {b \in Draft : draft[b].status = "approved"}
  <2>1. {b \in Draft : draft'[b].status = "approved"} = old \cup {d} /\ d \notin old
    BY <1>5, <1>6
  <2> DEFINE now(b) == ClashesOf(b, Commands(b))
  <2>2. \A b \in old : now(b)' = now(b)
    BY <1>6, <2>1 DEF Commands, ClashesOf
  <2>5. now(d)' = ClashesOf(d, C)
    BY <1>7 DEF ClashesOf
  <2>4. Recorded' = UNION {now(b)' : b \in old \cup {d}}
    BY <2>1 DEF Recorded
  <2>6. Recorded = UNION {now(b) : b \in old}
    BY DEF Recorded
  <2>3. Recorded' = Recorded \cup ClashesOf(d, C)
    <3> HIDE DEF now, old
    <3> QED
      BY <2>2, <2>4, <2>5, <2>6
  <2>7. clashes = Recorded
    BY DEF CommandInv
  <2> QED
    BY <1>3, <2>3, <2>7
<1>18. ASSUME NEW s \in Space, s = Home \/ ~strayed'
       PROVE  group'[s] = Count(gnode, memory, s)'
  <2>1. CASE s = Home
    <3>1. group'[Home] = Count(nodes, mems, Home)
      BY <1>3, <1>18, <2>1 DEF GraphRows
    <3> QED
      BY <1>3, <2>1, <3>1 DEF Count, Shown
  <2>2. CASE s # Home
    <3>1. s = Abroad /\ ~strayed /\ \A n \in NodesOf(C) : n[1] # Abroad
      BY <1>3, <1>18, <2>2 DEF Space
    <3>2. group'[s] = group[s]
      BY <1>3, <2>2 DEF GraphRows
    <3>3. group[s] = Count(gnode, memory, s)
      BY <3>1 DEF GraphRestsOnMemories
    <3>4. \A n \in GNode : n[1] = s => gnode'[n] = gnode[n]
      BY <1>8, <3>1
    <3>5. Count(gnode', memory', s) = Count(gnode, memory, s)
      BY <2>2, <3>4, CountStays
    <3> QED
      BY <3>2, <3>3, <3>5
  <2> QED
    BY <2>1, <2>2
<1>19. GraphRestsOnMemories'
  BY <1>15, <1>16, <1>17, <1>18 DEF GraphRestsOnMemories
<1> QED
  BY <1>10, <1>11, <1>12, <1>13, <1>14, <1>19, <1>20

LEMMA ProposeInv ==
    ASSUME CommandInv, NEW d \in Draft, NEW list \in Proposed,
           NEW status \in {"pending", "quarantined", "approved"}, Propose(d, list, status)
    PROVE  CommandInv'
<1>1. list \in Seq(Update) /\ Accepted(list) /\ draft[d] = NoDraft
  BY ProposedAssumption DEF Propose
<1>2. PICK cs : cs = Normalized(list)
  OBVIOUS
<1>3. cs \in Seq(Update)
  BY <1>1, <1>2, NormalizedFacts
<1>4. \A i \in DOMAIN cs : Sane(cs[i]) /\ Known(cs[i])
  <2>1. \A i \in DOMAIN cs : /\ Sane(cs[i]) /\ i \in DOMAIN list
                             /\ cs[i].mem = list[i].mem /\ cs[i].other = list[i].other
    BY <1>1, <1>2, NormalizedFacts
  <2>2. \A i \in DOMAIN list :
          \A m \in {list[i].mem, list[i].other} \cap Draft : memory[m] # "none"
    BY DEF Propose
  <2> QED
    BY <2>1, <2>2 DEF Known
<1>5. draft[d].status = "none"
  BY <1>1 DEF NoDraft
<1>6. CASE status = "approved" /\ Activate(d, cs)
  BY <1>3, <1>4, <1>5, <1>6, ActivateInv
<1>7. CASE /\ status # "approved"
           /\ draft' = [draft EXCEPT ![d] = [status |-> status, commands |-> cs]]
           /\ journal' = [journal EXCEPT ![d] = {IF status = "pending" THEN "proposed" ELSE status}]
           /\ UNCHANGED <<memory, gnode, gedge, nodeProof, edgeProof, clashes, group, strayed>>
  <2>1. PICK row \in DraftRow : row = [status |-> status, commands |-> cs]
    BY <1>3 DEF DraftRow
  <2>2. PICK notes : notes = {IF status = "pending" THEN "proposed" ELSE status}
    OBVIOUS
  <2>3. /\ row.status = status /\ row.commands = cs /\ status \in {"pending", "quarantined"}
        /\ notes \in SUBSET {"proposed", "quarantined"}
        /\ "quarantined" \in notes => status = "quarantined"
    BY <1>7, <2>1, <2>2
  <2>4. draft' = [draft EXCEPT ![d] = row] /\ journal' = [journal EXCEPT ![d] = notes]
    BY <1>7, <2>1, <2>2
  <2>5. \A i \in DOMAIN row.commands : Sane(row.commands[i]) /\ Known(row.commands[i])
    BY <1>4, <2>3
  <2>6. /\ draft[d].status # "approved" /\ row.status \in {"pending", "quarantined", "rejected"}
        /\ "quarantined" \in notes => row.status \in {"quarantined", "rejected"}
    BY <1>5, <2>3
  <2>7. /\ notes \in SUBSET {"proposed", "quarantined"}
        /\ UNCHANGED <<memory, gnode, gedge, nodeProof, edgeProof, clashes, group, strayed>>
    BY <1>7, <2>3
  <2> QED
    BY <2>4, <2>5, <2>6, <2>7, DraftInv
<1> QED
  BY <1>2, <1>6, <1>7 DEF Propose

LEMMA StoredCommands ==
    ASSUME CommandInv, NEW d \in Draft
    PROVE  /\ draft[d] \in DraftRow /\ draft[d].commands \in Seq(Update)
           /\ \A i \in DOMAIN draft[d].commands :
                Sane(draft[d].commands[i]) /\ Known(draft[d].commands[i])
<1>1. draft[d] \in DraftRow /\ CommandsOK(d)
  BY DEF CommandInv, GraphRows
<1> QED
  BY <1>1 DEF DraftRow, CommandsOK, Commands

LEMMA ApproveInv ==
    ASSUME CommandInv, NEW d \in Draft, Approve(d)
    PROVE  CommandInv'
<1>1. draft[d].status = "pending" /\ Activate(d, draft[d].commands)
  BY DEF Approve
<1>2. PICK cs \in Seq(Update) : cs = draft[d].commands
  BY StoredCommands
<1>3. \A i \in DOMAIN cs : Sane(cs[i]) /\ Known(cs[i])
  BY <1>2, StoredCommands
<1>4. Activate(d, cs)
  BY <1>1, <1>2
<1> QED
  BY <1>1, <1>3, <1>4, ActivateInv

LEMMA RejectInv ==
    ASSUME CommandInv, NEW d \in Draft, Reject(d)
    PROVE  CommandInv'
<1>1. /\ draft[d].status \in {"pending", "quarantined"}
      /\ draft' = [draft EXCEPT ![d] = [draft[d] EXCEPT !.status = "rejected"]]
      /\ UNCHANGED <<memory, gnode, gedge, nodeProof, edgeProof, clashes, journal, group, strayed>>
  BY DEF Reject
<1>2. draft[d] \in DraftRow /\ GraphRows /\ JournalOK(d)
  BY StoredCommands DEF CommandInv
<1>3. PICK row \in DraftRow : row = [draft[d] EXCEPT !.status = "rejected"]
  BY <1>2 DEF DraftRow
<1>4. row.status = "rejected" /\ row.commands = draft[d].commands
  BY <1>2, <1>3 DEF DraftRow
<1>5. PICK notes : notes = journal[d]
  OBVIOUS
<1>6. notes \in SUBSET {"proposed", "quarantined"}
  BY <1>1, <1>2, <1>5 DEF GraphRows, JournalOK
<1>7. draft' = [draft EXCEPT ![d] = row] /\ journal' = [journal EXCEPT ![d] = notes]
  BY <1>1, <1>2, <1>3, <1>5 DEF GraphRows
<1>8. \A i \in DOMAIN row.commands : Sane(row.commands[i]) /\ Known(row.commands[i])
  BY <1>4, StoredCommands
<1> QED
  BY <1>1, <1>4, <1>6, <1>7, <1>8, DraftInv

LEMMA RetireInv ==
    ASSUME CommandInv, NEW d \in Draft, Retire(d)
    PROVE  CommandInv'
<1> USE DEF CommandInv
<1> DEFINE mems == [memory EXCEPT ![d] = "inactive"]
           nodes == [n \in GNode |-> IF <<n, d>> \in nodeProof /\ ~Backed(n, nodeProof, mems)
                                     THEN "inactive" ELSE gnode[n]]
           scopes == {Home} \cup {n[1] : n \in {k \in GNode : <<k, d>> \in nodeProof}}
<1>1. /\ memory[d] = "active" /\ memory' = mems /\ gnode' = nodes
      /\ gedge' = [e \in GEdge |-> IF <<e, d>> \notin edgeProof THEN gedge[e]
                                   ELSE IF Backed(e, edgeProof, mems) THEN "active" ELSE "inactive"]
      /\ group' = [s \in Space |-> IF s \in scopes THEN Count(nodes, mems, s) ELSE group[s]]
      /\ strayed' = (strayed /\ Abroad \notin scopes)
      /\ UNCHANGED <<draft, nodeProof, edgeProof, clashes, journal>>
  BY DEF Retire
<1>2. /\ memory'[d] = "inactive"
      /\ \A e \in Draft : e # d => memory'[e] = memory[e]
  BY <1>1 DEF GraphRows
<1>3. \A n \in GNode : gnode'[n] = IF <<n, d>> \in nodeProof /\ ~Backed(n, nodeProof, memory')
                                   THEN "inactive" ELSE gnode[n]
  BY <1>1
<1>4. \A e \in GEdge : gedge'[e] = IF <<e, d>> \notin edgeProof THEN gedge[e]
                          ELSE IF Backed(e, edgeProof, memory') THEN "active" ELSE "inactive"
  BY <1>1
<1>5. \A e \in Draft : memory[e] # "none" => memory'[e] # "none"
  BY <1>2
<1>6. GraphRows'
  <2>1. /\ memory' \in [Draft -> {"none", "active", "inactive"}]
        /\ gnode' \in [GNode -> {"none", "active", "inactive"}]
    BY <1>1 DEF GraphRows
  <2>2. gedge' \in [GEdge -> {"none", "active", "inactive"}]
    BY <1>1 DEF GraphRows
  <2>3. group' = [s \in Space |-> group'[s]] /\ strayed' \in BOOLEAN
    BY <1>1 DEF GraphRows
  <2> QED
    BY <1>1, <2>1, <2>2, <2>3 DEF GraphRows
<1>7. ASSUME NEW e \in Draft PROVE CommandsOK(e)' /\ DoneOK(e)' /\ JournalOK(e)'
  <2>1. Commands(e)' = Commands(e)
    BY <1>1 DEF Commands
  <2>2. CommandsOK(e)'
    BY <1>5, <2>1 DEF CommandsOK, Known
  <2>3. DoneOK(e)'
    BY <1>1, <2>1 DEF DoneOK, Left
  <2>4. JournalOK(e)'
    BY <1>1 DEF JournalOK
  <2> QED
    BY <2>2, <2>3, <2>4
<1>8. ASSUME NEW n \in GNode, gnode'[n] = "active" PROVE Backed(n, nodeProof, memory)'
  <2>1. CASE <<n, d>> \in nodeProof
    <3>1. Backed(n, nodeProof, memory')
      BY <1>3, <1>8, <2>1
    <3> QED
      BY <1>1, <3>1 DEF Backed
  <2>2. CASE <<n, d>> \notin nodeProof
    <3>1. PICK e \in Draft : <<n, e>> \in nodeProof /\ memory[e] = "active"
      BY <1>3, <1>8, <2>2 DEF GraphRestsOnMemories, Backed
    <3> QED
      BY <1>1, <1>2, <2>2, <3>1 DEF Backed
  <2> QED
    BY <2>1, <2>2
<1>9. ASSUME NEW x \in GEdge, gedge'[x] = "active" PROVE Backed(x, edgeProof, memory)'
  <2>1. CASE <<x, d>> \in edgeProof
    <3>1. Backed(x, edgeProof, memory')
      BY <1>4, <1>9, <2>1
    <3> QED
      BY <1>1, <3>1 DEF Backed
  <2>2. CASE <<x, d>> \notin edgeProof
    <3>1. PICK e \in Draft : <<x, e>> \in edgeProof /\ memory[e] = "active"
      BY <1>4, <1>9, <2>2 DEF GraphRestsOnMemories, Backed
    <3> QED
      BY <1>1, <1>2, <2>2, <3>1 DEF Backed
  <2> QED
    BY <2>1, <2>2
<1>10. \A pair \in clashes' : \A m \in {pair[1], pair[2]} : m \in Draft /\ memory'[m] # "none"
  BY <1>1, <1>5 DEF GraphRestsOnMemories
<1>13. clashes' = Recorded'
  BY <1>1 DEF Recorded, ClashesOf, Commands
<1>11. ASSUME NEW s \in Space, s = Home \/ ~strayed'
       PROVE  group'[s] = Count(gnode, memory, s)'
  <2>1. CASE s \in scopes
    <3>1. group'[s] = Count(nodes, mems, s)
      BY <1>1, <2>1
    <3> QED
      BY <1>1, <3>1 DEF Count, Shown
  <2>2. CASE s \notin scopes
    <3>1. s = Abroad /\ s # Home /\ ~strayed
      BY <1>1, <1>11, <2>2 DEF Space
    <3>2. \A n \in GNode : n[1] = s => <<n, d>> \notin nodeProof
      BY <2>2
    <3>3. group'[s] = group[s] /\ group[s] = Count(gnode, memory, s)
      BY <1>1, <2>2, <3>1 DEF GraphRestsOnMemories
    <3>4. \A n \in GNode : n[1] = s => gnode'[n] = gnode[n]
      BY <1>3, <3>2
    <3>5. Count(gnode', memory', s) = Count(gnode, memory, s)
      BY <3>1, <3>4, CountStays
    <3> QED
      BY <3>3, <3>5
  <2> QED
    BY <2>1, <2>2
<1>12. GraphRestsOnMemories'
  BY <1>8, <1>9, <1>10, <1>11 DEF GraphRestsOnMemories
<1> QED
  BY <1>6, <1>7, <1>12, <1>13

----------------------------------------------------------------------------
(* The theorem. *)

LEMMA CommandInitInv == GraphInit => CommandInv
<1> SUFFICES ASSUME GraphInit PROVE CommandInv
  OBVIOUS
<1>1. NoDraft \in DraftRow /\ NoDraft.status = "none" /\ NoDraft.commands = <<>>
  BY DEF NoDraft, DraftRow
<1>2. GraphRows
  BY <1>1 DEF GraphInit, GraphRows
<1>3. \A d \in Draft : Commands(d) = {} /\ draft[d].status = "none"
  BY <1>1 DEF GraphInit, Commands
<1>4. \A d \in Draft : CommandsOK(d) /\ DoneOK(d) /\ JournalOK(d)
  BY <1>3 DEF GraphInit, CommandsOK, DoneOK, JournalOK, Left
<1>5. \A s \in Space : Count(gnode, memory, s) = 0
  <2> SUFFICES ASSUME NEW s \in Space PROVE Count(gnode, memory, s) = 0
    OBVIOUS
  <2>1. Shown(gnode, s) = {} /\ {d \in Draft : memory[d] = "active"} = {}
    BY DEF GraphInit, Shown
  <2> QED
    BY <2>1, FS_EmptySet DEF Count
<1>6. GraphRestsOnMemories
  BY <1>5 DEF GraphInit, GraphRestsOnMemories
<1>7. clashes = Recorded
  BY <1>3 DEF GraphInit, Recorded
<1> QED
  BY <1>2, <1>4, <1>6, <1>7 DEF CommandInv

LEMMA CommandNextInv == CommandInv /\ [GraphNext]_graphVars => CommandInv'
<1> SUFFICES ASSUME CommandInv, [GraphNext]_graphVars PROVE CommandInv'
  OBVIOUS
<1>1. CASE GraphNext
  BY <1>1, ProposeInv, ApproveInv, RejectInv, RetireInv DEF GraphNext
<1>2. CASE UNCHANGED graphVars
  <2>1. GraphRows' /\ \A d \in Draft : JournalOK(d)'
    BY <1>2 DEF graphVars, CommandInv, GraphRows, JournalOK
  <2>2. \A d \in Draft : Commands(d)' = Commands(d)
    BY <1>2 DEF graphVars, Commands
  <2>3. \A d \in Draft : CommandsOK(d)'
    BY <1>2, <2>2 DEF graphVars, CommandInv, CommandsOK, Known
  <2>4. \A d \in Draft : DoneOK(d)'
    BY <1>2, <2>2 DEF graphVars, CommandInv, DoneOK, Left
  <2>5. GraphRestsOnMemories'
    BY <1>2 DEF graphVars, CommandInv, GraphRestsOnMemories, Backed, Count, Shown
  <2>6. clashes' = Recorded'
    BY <1>2 DEF graphVars, CommandInv, Recorded, ClashesOf, Commands
  <2> QED
    BY <2>1, <2>3, <2>4, <2>5, <2>6 DEF CommandInv
<1> QED
  BY <1>1, <1>2

LEMMA CommandInvHolds == GraphSpec => []CommandInv
<1> QED
  BY CommandInitInv, CommandNextInv, PTL DEF GraphSpec

\* What the evidence, the conflicts and the counts may say.
ProofTypes ==
    /\ nodeProof \subseteq GNode \X Draft /\ edgeProof \subseteq GEdge \X Draft
    /\ clashes \subseteq (Draft \cup {Missing}) \X (Draft \cup {Missing})
    /\ group \in [Space -> 0 .. Cardinality(Label) + Cardinality(Draft)]

LEMMA CountType ==
    ASSUME NEW nodes, NEW mems, NEW s \in Space
    PROVE  Count(nodes, mems, s) \in 0 .. Cardinality(Label) + Cardinality(Draft)
<1> DEFINE S == Shown(nodes, s)
           M == {d \in Draft : mems[d] = "active"}
<1>1. Cardinality(Label) \in Nat /\ Cardinality(Draft) \in Nat
  BY FiniteAssumption, FS_CardinalityType
<1>2. IsFiniteSet(S) /\ Cardinality(S) \in Nat /\ Cardinality(S) <= Cardinality(Label)
  <2> DEFINE f == [n \in S |-> n[2]]
  <2>1. \A n \in S : n = <<s, n[2]>> /\ n[2] \in Label
    BY DEF Shown, GNode
  <2>2. f \in Injection(S, Label)
    BY <2>1 DEF Injection, IsInjective
  <2> HIDE DEF S, f
  <2> QED
    BY <2>2, FiniteAssumption, FS_Injection, FS_CardinalityType
<1>3. Cardinality(M) \in Nat /\ Cardinality(M) <= Cardinality(Draft)
  <2>1. M \in SUBSET Draft
    OBVIOUS
  <2> HIDE DEF M
  <2> QED
    BY <2>1, FiniteAssumption, FS_Subset, FS_CardinalityType
<1>4. Count(nodes, mems, s) = Cardinality(S) + IF s = Home THEN Cardinality(M) ELSE 0
  BY DEF Count
<1> HIDE DEF S, M
<1> QED
  BY <1>1, <1>2, <1>3, <1>4

LEMMA ActivateTypes ==
    ASSUME ProofTypes, NEW d \in Draft, NEW cs, \A i \in DOMAIN cs : Sane(cs[i]), Activate(d, cs)
    PROVE  ProofTypes'
<1> DEFINE C == {cs[i] : i \in DOMAIN cs}
<1>1. \A c \in C : Sane(c)
  OBVIOUS
<1>2. Sound(d, C)
  BY DEF Activate
<1>3. /\ nodeProof' = nodeProof \cup (NodesOf(C) \X {d})
      /\ edgeProof' = edgeProof \cup (EdgesOf(C) \X {d})
      /\ clashes' = clashes \cup ClashesOf(d, C)
  BY DEF Activate
<1>4. PICK n \in 0 .. Cardinality(Label) + Cardinality(Draft) : group' = [group EXCEPT ![Home] = n]
  BY CountType DEF Activate, Space
<1> HIDE DEF C
<1>5. NodesOf(C) \subseteq GNode /\ EdgesOf(C) \subseteq GEdge
  BY <1>1, WrittenFacts
<1>6. \A pair \in ClashesOf(d, C) : pair[1] \in Draft /\ pair[2] \in Draft
  BY <1>1, <1>2, WrittenFacts
<1>7. \A pair \in ClashesOf(d, C) : pair = <<pair[1], pair[2]>>
  BY DEF ClashesOf
<1>8. clashes' \subseteq (Draft \cup {Missing}) \X (Draft \cup {Missing})
  BY <1>3, <1>6, <1>7 DEF ProofTypes
<1> QED
  BY <1>3, <1>4, <1>5, <1>8 DEF ProofTypes

LEMMA ProofTypesStep ==
    ASSUME CommandInv, ProofTypes, [GraphNext]_graphVars
    PROVE  ProofTypes'
<1>1. ASSUME NEW d \in Draft, NEW list \in Proposed,
             NEW status \in {"pending", "quarantined", "approved"}, Propose(d, list, status)
      PROVE  ProofTypes'
  <2>1. CASE status = "approved"
    <3>1. list \in Seq(Update) /\ Accepted(list)
      BY <1>1, ProposedAssumption DEF Propose
    <3>2. \A i \in DOMAIN Normalized(list) : Sane(Normalized(list)[i])
      BY <3>1, NormalizedFacts
    <3>3. Activate(d, Normalized(list))
      BY <1>1, <2>1 DEF Propose
    <3> QED
      BY <3>2, <3>3, ActivateTypes
  <2>2. CASE status # "approved"
    BY <1>1, <2>2 DEF Propose, ProofTypes
  <2> QED
    BY <2>1, <2>2
<1>2. ASSUME NEW d \in Draft, Approve(d)
      PROVE  ProofTypes'
  <2>1. \A i \in DOMAIN draft[d].commands : Sane(draft[d].commands[i])
    BY DEF CommandInv, CommandsOK, Commands
  <2> QED
    BY <1>2, <2>1, ActivateTypes DEF Approve
<1>3. ASSUME NEW d \in Draft, Reject(d)
      PROVE  ProofTypes'
  BY <1>3 DEF Reject, ProofTypes
<1>4. ASSUME NEW d \in Draft, Retire(d)
      PROVE  ProofTypes'
  <2>1. UNCHANGED <<nodeProof, edgeProof, clashes>>
    BY <1>4 DEF Retire
  <2> DEFINE mems == [memory EXCEPT ![d] = "inactive"]
             mine(n) == <<n, d>> \in nodeProof
             nodes == [n \in GNode |-> IF mine(n) /\ ~Backed(n, nodeProof, mems)
                                       THEN "inactive" ELSE gnode[n]]
             scopes == {Home} \cup {n[1] : n \in {k \in GNode : mine(k)}}
  <2>2. group' = [s \in Space |-> IF s \in scopes THEN Count(nodes, mems, s) ELSE group[s]]
    BY <1>4 DEF Retire
  <2> HIDE DEF mems, nodes, scopes
  <2> QED
    BY <2>1, <2>2, CountType DEF ProofTypes
<1>5. CASE UNCHANGED graphVars
  BY <1>5 DEF graphVars, ProofTypes
<1> QED
  BY <1>1, <1>2, <1>3, <1>4, <1>5 DEF GraphNext

\* The drafts, their memories and the graph are as GraphTypeOK says.
THEOREM GraphTypeCorrect == GraphSpec => []GraphTypeOK
<1>1. CommandInv /\ ProofTypes => GraphTypeOK
  BY DEF CommandInv, GraphRows, ProofTypes, GraphTypeOK
<1>2. GraphInit => ProofTypes
  <2>1. 0 \in 0 .. Cardinality(Label) + Cardinality(Draft)
    BY FiniteAssumption, FS_CardinalityType
  <2> QED
    BY <2>1 DEF GraphInit, ProofTypes
<1> QED
  BY <1>1, <1>2, ProofTypesStep, CommandInvHolds, PTL DEF GraphSpec

\* Whatever lists are proposed, and in whatever order candidates are approved, refused and
\* retired: commands are carried out all together and only with their memory, and what they
\* leave in the graph rests on active memories.
THEOREM CommandsSafe == GraphSpec => []CommandsFollowTheirMemory
<1>1. CommandInv => CommandsFollowTheirMemory
  <2> SUFFICES ASSUME CommandInv PROVE AllOrNothing
    BY DEF CommandsFollowTheirMemory, CommandInv
  <2>1. \A d \in Draft : DoneOK(d) /\ JournalOK(d)
    BY DEF CommandInv
  <2>2. clashes = UNION {ClashesOf(d, Commands(d)) : d \in {b \in Draft : draft[b].status = "approved"}}
    BY DEF CommandInv, Recorded
  <2>3. ASSUME NEW d \in Draft
        PROVE  LET C == Commands(d)
                   done == {n \in GNode : <<n, d>> \in nodeProof}
                             \cup {e \in GEdge : <<e, d>> \in edgeProof}
               IN  /\ done = IF draft[d].status = "approved" THEN NodesOf(C) \cup EdgesOf(C) ELSE {}
                   /\ "applied" \in journal[d] <=> draft[d].status = "approved"
                   /\ "quarantined" \in journal[d] => draft[d].status \in {"quarantined", "rejected"}
    BY <2>1, <2>3 DEF DoneOK, JournalOK, Left
  <2> QED
    BY <2>2, <2>3 DEF AllOrNothing
<1> QED
  BY <1>1, CommandInvHolds, PTL

----------------------------------------------------------------------------
(* Agent turns: any hosts, exchanges and bounds.                          *)

Serving ==
    {"routed", "check", "user", "assistant", "extract", "extracting", "job", "trace"}
Early == {"routed", "check", "user", "assistant"}
Both == {"user", "assistant"}
Whole(e) == \E i \in DOMAIN works : works[i].of = e /\ works[i].state = "whole"

\* A host that serves a turn has one of its own, which is running; and what it has done of
\* it so far is in the tables.
ServesOK(h) ==
    LET t == Turn(h) IN
    /\ session[h].turn \in DOMAIN turnLog
    /\ t.status = "running" /\ t.traced = FALSE
    /\ session[h].pc \in Early => session[h].status = "none"
    /\ session[h].pc = "assistant" => "user" \in kept[t.of]
    /\ session[h].pc \in {"extract", "extracting", "job", "trace"} => kept[t.of] = Both
    /\ session[h].pc = "job" => /\ t.of \in Queued \/ session[h].status # "none"
                                /\ session[h].status = "completed" => Whole(t.of)
    /\ session[h].pc = "trace" => keeperJob[t.of] # "none" /\ t.shadow = TRUE

\* A host in the middle of a write has the lock, and an open row of its own.
WritesOK(h) ==
    LET w == works[session[h].work] IN
    /\ locker = h /\ session[h].work \in DOMAIN works
    /\ w.by = h /\ w.state = "open" /\ w.answer = "none"
    /\ w.of = IF session[h].pc = "writing" THEN "call" ELSE Turn(h).of

HostOK(h) ==
    /\ session[h].pc \in Serving => ServesOK(h)
    /\ session[h].pc \notin Serving => session[h].turn = 0
    /\ session[h].pc \in {"extracting", "writing"} => WritesOK(h)
    /\ locker = h => session[h].pc \in {"extracting", "writing"}
                       \/ (session[h].pc = "idle" /\ session[h].raised)

\* What is open is its host's, which is in the middle of it, or was and got an exception.
WorkOK(i) ==
    LET w == works[i] IN
    /\ w.state = "open" => /\ locker = w.by
                           /\ \/ w.answer = "raised" /\ w.of = "call"
                              \/ /\ w.answer = "none" /\ session[w.by].work = i
                                 /\ session[w.by].pc \in {"extracting", "writing"}
    /\ w.of \in Exchange => w.state # "part" /\ kept[w.of] = Both
    /\ w.answer = "done" <=> w.state = "whole"
    /\ w.state = "part" => w.answer = "raised"

JobOK(e) ==
    /\ keeperJob[e] # "none" => kept[e] = Both
    /\ keeperJob[e] = "completed" => Whole(e)

TurnOK(i) ==
    turnLog[i].status = "completed" =>
      /\ kept[turnLog[i].of] = Both /\ keeperJob[turnLog[i].of] # "none"
      /\ turnLog[i].traced = turnLog[i].shadow

Apart ==
    \A g, h \in Host : g # h /\ {session[g].pc, session[h].pc} \subseteq Serving
                         => session[g].turn # session[h].turn

TurnInv ==
    /\ TurnTypeOK
    /\ \A h \in Host : HostOK(h)
    /\ \A i \in DOMAIN works : WorkOK(i)
    /\ \A e \in Exchange : JobOK(e)
    /\ \A i \in DOMAIN turnLog : TurnOK(i)
    /\ Apart

----------------------------------------------------------------------------
(* Types. *)

\* The fields of a turn and of an operation.
LEMMA TurnFields ==
    ASSUME TurnTypeOK
    PROVE  /\ \A i \in DOMAIN turnLog : turnLog[i] \in TurnRow /\ turnLog[i].of \in Exchange
           /\ \A i \in DOMAIN works : works[i] \in WorkRow /\ works[i].by \in Host
<1>1. \A i \in DOMAIN turnLog : turnLog[i] \in TurnRow
  BY DEF TurnTypeOK
<1>2. \A i \in DOMAIN works : works[i] \in WorkRow
  BY DEF TurnTypeOK
<1> QED
  BY <1>1, <1>2 DEF TurnRow, WorkRow

LEMMA CommitsType ==
    ASSUME TurnTypeOK, NEW h \in Host, NEW W, Commits(h, W)
    PROVE  locker' \in Host \cup {NoHost} /\ works' \in Seq(WorkRow) /\ DOMAIN works' = DOMAIN works
<1>1. \A i \in DOMAIN works : works[i] \in WorkRow
  BY DEF TurnTypeOK
<1>2. \A i \in DOMAIN works : works'[i] \in WorkRow
  BY <1>1 DEF Commits, WorkRow
<1>3. DOMAIN works = 1 .. Len(works) /\ Len(works) \in Nat
  BY DEF TurnTypeOK
<1>4. works' = [i \in 1 .. Len(works) |-> works'[i]] /\ DOMAIN works' = 1 .. Len(works)
  BY <1>3 DEF Commits
<1>5. works' \in [1 .. Len(works) -> WorkRow]
  BY <1>2, <1>3, <1>4
<1>6. works' \in Seq(WorkRow)
  BY <1>3, <1>5, SeqDef
<1> QED
  BY <1>3, <1>4, <1>6 DEF Commits

LEMMA RollsBackType ==
    ASSUME TurnTypeOK, NEW h \in Host, RollsBack(h)
    PROVE  locker' \in Host \cup {NoHost} /\ works' \in Seq(WorkRow) /\ DOMAIN works' = DOMAIN works
<1>1. \A i \in DOMAIN works : works[i] \in WorkRow
  BY DEF TurnTypeOK
<1>2. \A i \in DOMAIN works : works'[i] \in WorkRow
  BY <1>1 DEF RollsBack, WorkRow
<1>3. DOMAIN works = 1 .. Len(works) /\ Len(works) \in Nat
  BY DEF TurnTypeOK
<1>4. works' = [i \in 1 .. Len(works) |-> works'[i]] /\ DOMAIN works' = 1 .. Len(works)
  BY <1>3 DEF RollsBack
<1>5. works' \in [1 .. Len(works) -> WorkRow]
  BY <1>2, <1>3, <1>4
<1>6. works' \in Seq(WorkRow)
  BY <1>3, <1>5, SeqDef
<1> QED
  BY <1>3, <1>4, <1>6 DEF RollsBack, TurnTypeOK

LEMMA EndsTurnType ==
    ASSUME TurnTypeOK, NEW h \in Host, NEW status \in {"completed", "raised"}, EndsTurn(h, status)
    PROVE  session' \in [Host -> SessionRow] /\ turnLog' \in Seq(TurnRow)
<1>1. session' \in [Host -> SessionRow]
  <2>1. AtRest \in SessionRow /\ (status = "raised") \in BOOLEAN
    BY TurnBounds DEF SessionRow, AtRest
  <2>2. [AtRest EXCEPT !.raised = (status = "raised")] \in SessionRow
    BY <2>1 DEF SessionRow
  <2> QED
    BY <2>2 DEF EndsTurn, TurnTypeOK
<1>2. \A i \in DOMAIN turnLog : turnLog[i] \in TurnRow
  BY DEF TurnTypeOK
<1>3. \A i \in DOMAIN turnLog' : turnLog'[i] \in TurnRow
  BY <1>2 DEF EndsTurn, TurnRow
<1>4. DOMAIN turnLog' = 1 .. Len(turnLog) /\ Len(turnLog) \in Nat
  BY DEF EndsTurn, TurnTypeOK
<1>5. turnLog' = [i \in 1 .. Len(turnLog) |-> turnLog'[i]]
  BY <1>4 DEF EndsTurn
<1>6. turnLog' \in [1 .. Len(turnLog) -> TurnRow]
  BY <1>3, <1>4, <1>5
<1>7. turnLog' \in Seq(TurnRow)
  BY <1>4, <1>6, SeqDef
<1> QED
  BY <1>1, <1>7

----------------------------------------------------------------------------
(* What a step of one host leaves alone. *)

Others(h) ==
    /\ \A g \in Host : g # h => session'[g] = session[g]
    /\ DOMAIN turnLog \subseteq DOMAIN turnLog' /\ DOMAIN works \subseteq DOMAIN works'
    /\ \A i \in DOMAIN turnLog : i # session[h].turn => turnLog'[i] = turnLog[i]
    /\ \A i \in DOMAIN works : works[i].by # h \/ works[i].state = "whole" => works'[i] = works[i]
    /\ \A e \in Exchange : /\ kept[e] \subseteq kept'[e]
                           /\ keeperJob[e] # "none" => keeperJob'[e] = keeperJob[e]
    /\ locker' # locker => {locker, locker'} \subseteq {NoHost, h}

LEMMA WholeStays ==
    ASSUME NEW h \in Host, Others(h), NEW e, Whole(e)
    PROVE  Whole(e)'
  BY DEF Others, Whole

LEMMA KeptStays ==
    ASSUME TurnTypeOK', NEW h \in Host, Others(h), NEW e \in Exchange, kept[e] = Both
    PROVE  kept'[e] = Both
  BY DEF Others, Both, TurnTypeOK

LEMMA OtherHosts ==
    ASSUME TurnInv, TurnTypeOK', NEW h \in Host, Others(h), NEW g \in Host, g # h
    PROVE  HostOK(g)'
<1> USE DEF TurnInv
<1>1. HostOK(g) /\ HostOK(h) /\ session'[g] = session[g]
  BY DEF Others
<1>2. session[g].pc \in Serving => session[g].turn # session[h].turn
  BY <1>1 DEF Apart, HostOK, ServesOK, TurnTypeOK
<1>3. ASSUME session[g].pc \in Serving PROVE ServesOK(g)'
  <2>1. ServesOK(g)
    BY <1>1, <1>3 DEF HostOK
  <2>2. Turn(g)' = Turn(g) /\ session[g].turn \in DOMAIN turnLog'
    <3>1. session[g].turn \in DOMAIN turnLog /\ session[g].turn # session[h].turn
      BY <2>1, <1>2, <1>3 DEF ServesOK
    <3> QED
      BY <3>1, <1>1 DEF Others, Turn
  <2>3. Turn(g).of \in Exchange
    BY <2>1, TurnFields DEF ServesOK, Turn
  <2>4. kept[Turn(g).of] = Both => kept'[Turn(g).of] = Both
    BY <2>3, KeptStays
  <2>5. "user" \in kept[Turn(g).of] => "user" \in kept'[Turn(g).of]
    BY <2>3 DEF Others
  <2>6. keeperJob[Turn(g).of] # "none" => keeperJob'[Turn(g).of] # "none"
    BY <2>3 DEF Others
  <2>7. Whole(Turn(g).of) => Whole(Turn(g).of)'
    BY <2>2, WholeStays, <2>3
  <2> QED
    BY <1>1, <2>1, <2>2, <2>4, <2>5, <2>6, <2>7 DEF ServesOK
<1>4. ASSUME session[g].pc \in {"extracting", "writing"} PROVE WritesOK(g)'
  <2>1. WritesOK(g)
    BY <1>1, <1>4 DEF HostOK
  <2>2. locker' = g
    BY <2>1, HostAssumption DEF WritesOK, Others
  <2>3. works'[session[g].work] = works[session[g].work] /\ session[g].work \in DOMAIN works'
    BY <2>1 DEF WritesOK, Others
  <2>4. session[g].pc = "extracting" => Turn(g)' = Turn(g)
    BY <1>1, <1>2 DEF HostOK, ServesOK, Others, Turn, Serving
  <2>5. session[g].pc = "writing" \/ session[g].pc = "extracting"
    BY <1>4
  <2> QED
    BY <1>1, <2>1, <2>2, <2>3, <2>4, <2>5 DEF WritesOK
<1>5. locker' = g => locker = g
  BY HostAssumption DEF Others
<1> QED
  BY <1>1, <1>3, <1>4, <1>5 DEF HostOK

LEMMA OtherWorks ==
    ASSUME TurnInv, TurnTypeOK', NEW h \in Host, Others(h), NEW i \in DOMAIN works, works[i].by # h
    PROVE  WorkOK(i)'
<1>1. WorkOK(i) /\ works[i] \in WorkRow
  BY DEF TurnInv, TurnTypeOK
<1>2. works'[i] = works[i] /\ session'[works[i].by] = session[works[i].by]
  BY <1>1 DEF Others, WorkRow
<1>3. locker = works[i].by => locker' = works[i].by
  BY <1>1, HostAssumption DEF Others, WorkRow
<1>4. \A e \in Exchange : kept[e] = Both => kept'[e] = Both
  BY KeptStays
<1> QED
  BY <1>1, <1>2, <1>3, <1>4 DEF WorkOK

LEMMA OtherJobs ==
    ASSUME TurnInv, TurnTypeOK', NEW h \in Host, Others(h), NEW e \in Exchange,
           keeperJob'[e] = keeperJob[e]
    PROVE  JobOK(e)'
<1>1. JobOK(e)
  BY DEF TurnInv
<1>2. kept[e] = Both => kept'[e] = Both
  BY KeptStays
<1>3. Whole(e) => Whole(e)'
  BY WholeStays
<1> QED
  BY <1>1, <1>2, <1>3 DEF JobOK

LEMMA OtherTurns ==
    ASSUME TurnInv, TurnTypeOK', NEW h \in Host, Others(h), NEW i \in DOMAIN turnLog,
           turnLog'[i] = turnLog[i]
    PROVE  TurnOK(i)'
<1>1. TurnOK(i) /\ turnLog[i].of \in Exchange
  BY TurnFields DEF TurnInv
<1>2. kept[turnLog[i].of] = Both => kept'[turnLog[i].of] = Both
  BY <1>1, KeptStays
<1>3. keeperJob[turnLog[i].of] # "none" => keeperJob'[turnLog[i].of] # "none"
  BY <1>1 DEF Others
<1> QED
  BY <1>1, <1>2, <1>3 DEF TurnOK

\* What has to be shown of a step of host h.
LEMMA TurnStepInv ==
    ASSUME TurnInv, TurnTypeOK', NEW h \in Host, Others(h), HostOK(h)',
           \A i \in DOMAIN works' : (i \in DOMAIN works /\ works[i].by # h) \/ WorkOK(i)',
           \A e \in Exchange : keeperJob'[e] = keeperJob[e] \/ JobOK(e)',
           \A i \in DOMAIN turnLog' : (i \in DOMAIN turnLog /\ turnLog'[i] = turnLog[i]) \/ TurnOK(i)',
           \/ session'[h].pc \notin Serving
           \/ session'[h].turn \notin DOMAIN turnLog
           \/ session[h].pc \in Serving /\ session'[h].turn = session[h].turn
    PROVE  TurnInv'
<1>1. \A g \in Host : HostOK(g)'
  BY OtherHosts
<1>2. \A i \in DOMAIN works' : WorkOK(i)'
  BY OtherWorks
<1>3. \A e \in Exchange : JobOK(e)'
  BY OtherJobs
<1>4. \A i \in DOMAIN turnLog' : TurnOK(i)'
  BY OtherTurns
<1>5. ASSUME NEW g \in Host, g # h, {session'[g].pc, session'[h].pc} \subseteq Serving
      PROVE  session'[g].turn # session'[h].turn
  <2>1. session'[g] = session[g]
    BY <1>5 DEF Others
  <2>2. session[g].turn \in DOMAIN turnLog
    BY <1>5, <2>1 DEF TurnInv, HostOK, ServesOK
  <2> QED
    BY <1>5, <2>1, <2>2 DEF TurnInv, Apart
<1>6. Apart'
  <2> SUFFICES ASSUME NEW f \in Host, NEW g \in Host, f # g,
                      {session'[f].pc, session'[g].pc} \subseteq Serving
               PROVE  session'[f].turn # session'[g].turn
    BY DEF Apart
  <2>1. CASE f = h
    BY <2>1, <1>5
  <2>2. CASE g = h
    BY <2>2, <1>5
  <2>3. CASE f # h /\ g # h
    BY <2>3 DEF Others, TurnInv, Apart
  <2> QED
    BY <2>1, <2>2, <2>3
<1> QED
  BY <1>1, <1>2, <1>3, <1>4, <1>6 DEF TurnInv

----------------------------------------------------------------------------
(* What a commit and a rollback make of the operations of their host. *)

LEMMA CommitOthers ==
    ASSUME TurnInv, NEW h \in Host, NEW W, Commits(h, W), CanWrite(h),
           \A i \in W \cap DOMAIN works : works[i].by = h /\ works[i].state = "open"
    PROVE  /\ DOMAIN works \subseteq DOMAIN works'
           /\ \A i \in DOMAIN works :
                works[i].by # h \/ works[i].state = "whole" => works'[i] = works[i]
           /\ {locker, locker'} \subseteq {NoHost, h} /\ locker' # h
  BY HostAssumption DEF Commits, CanWrite

LEMMA CommitWorks ==
    ASSUME TurnInv, TurnTypeOK', NEW h \in Host, Others(h), NEW W, Commits(h, W),
           W = IF session[h].pc \in {"extracting", "writing"} THEN {session[h].work} ELSE {}
    PROVE  \A i \in DOMAIN works' : (i \in DOMAIN works /\ works[i].by # h) \/ WorkOK(i)'
<1> SUFFICES ASSUME NEW i \in DOMAIN works, works[i].by = h
             PROVE  WorkOK(i)'
  BY DEF Commits
<1>1. WorkOK(i) /\ works[i] \in WorkRow
  BY TurnFields DEF TurnInv
<1>2. \A e \in Exchange : kept[e] = Both => kept'[e] = Both
  BY KeptStays
<1>3. CASE i \in W
  <2>1. works'[i] = [works[i] EXCEPT !.state = "whole", !.answer = "done"]
    BY <1>3 DEF Commits
  <2> QED
    BY <1>1, <1>2, <2>1 DEF WorkOK, WorkRow
<1>4. CASE i \notin W /\ works[i].state = "open"
  <2>1. works'[i] = [works[i] EXCEPT !.state = "part"]
    BY <1>4 DEF Commits
  <2>2. works[i].answer = "raised" /\ works[i].of = "call"
    BY <1>1, <1>4 DEF WorkOK
  <2> QED
    BY <1>1, <2>1, <2>2, HostAssumption DEF WorkOK, WorkRow
<1>5. CASE i \notin W /\ works[i].state # "open"
  <2>1. works'[i] = works[i]
    BY <1>5 DEF Commits
  <2> QED
    BY <1>1, <1>2, <1>5, <2>1 DEF WorkOK
<1> QED
  BY <1>3, <1>4, <1>5

LEMMA RollBackOthers ==
    ASSUME TurnInv, NEW h \in Host, RollsBack(h)
    PROVE  /\ DOMAIN works \subseteq DOMAIN works'
           /\ \A i \in DOMAIN works :
                works[i].by # h \/ works[i].state = "whole" => works'[i] = works[i]
           /\ locker' # locker => {locker, locker'} \subseteq {NoHost, h}
           /\ locker' # h
  BY HostAssumption DEF RollsBack

LEMMA RollBackWorks ==
    ASSUME TurnInv, TurnTypeOK', NEW h \in Host, Others(h), RollsBack(h)
    PROVE  \A i \in DOMAIN works' : (i \in DOMAIN works /\ works[i].by # h) \/ WorkOK(i)'
<1> SUFFICES ASSUME NEW i \in DOMAIN works, works[i].by = h
             PROVE  WorkOK(i)'
  BY DEF RollsBack
<1>1. WorkOK(i) /\ works[i] \in WorkRow
  BY TurnFields DEF TurnInv
<1>2. \A e \in Exchange : kept[e] = Both => kept'[e] = Both
  BY KeptStays
<1>3. CASE works[i].state = "open"
  <2>1. works'[i] = [works[i] EXCEPT !.state = "gone"]
    BY <1>3 DEF RollsBack
  <2> QED
    BY <1>1, <1>2, <1>3, <2>1 DEF WorkOK, WorkRow
<1>4. CASE works[i].state # "open"
  <2>1. works'[i] = works[i]
    BY <1>4 DEF RollsBack
  <2> QED
    BY <1>1, <1>2, <1>4, <2>1 DEF WorkOK
<1> QED
  BY <1>3, <1>4

----------------------------------------------------------------------------
(* The steps. *)

LEMMA RouteInv ==
    ASSUME TurnInv, NEW h \in Host, NEW e \in Exchange, NEW shadow \in BOOLEAN, Route(h, e, shadow)
    PROVE  TurnInv'
<1> DEFINE row == [of |-> e, shadow |-> shadow, traced |-> FALSE, status |-> "running"]
           pc == IF shadow THEN "check" ELSE "routed"
<1>0. TurnTypeOK /\ turnLog \in Seq(TurnRow) /\ Len(turnLog) \in Nat /\ row \in TurnRow
  BY DEF TurnInv, TurnTypeOK, TurnRow
<1>1. /\ turnLog' = Append(turnLog, row) /\ Commits(h, {}) /\ UNCHANGED <<kept, keeperJob>>
      /\ session' = [session EXCEPT ![h] = [AtRest EXCEPT !.pc = pc, !.turn = Len(turnLog) + 1]]
      /\ session[h].pc = "idle" /\ CanWrite(h) /\ Len(turnLog) < MaxTurn
  BY DEF Route, At
<1> HIDE DEF row
<1>2. /\ turnLog' \in Seq(TurnRow) /\ Len(turnLog') = Len(turnLog) + 1
      /\ turnLog'[Len(turnLog) + 1] = row
      /\ \A i \in DOMAIN turnLog : turnLog'[i] = turnLog[i]
  BY <1>0, <1>1, AppendProperties
<1>3. DOMAIN turnLog = 1 .. Len(turnLog) /\ DOMAIN turnLog' = 1 .. (Len(turnLog) + 1)
  BY <1>0, <1>2
<1>4. session'[h] = [AtRest EXCEPT !.pc = pc, !.turn = Len(turnLog) + 1]
  BY <1>0, <1>1 DEF TurnTypeOK
<1>5. session'[h] \in SessionRow
  <2>1. pc \in {"check", "routed"}
    OBVIOUS
  <2>2. AtRest \in SessionRow /\ Len(turnLog) + 1 \in 0 .. MaxTurn
    BY <1>0, <1>1, TurnBounds DEF SessionRow, AtRest
  <2> HIDE DEF pc
  <2> QED
    BY <1>4, <2>1, <2>2 DEF SessionRow
<1>6. TurnTypeOK'
  <2>1. session' \in [Host -> SessionRow]
    BY <1>0, <1>1, <1>4, <1>5 DEF TurnTypeOK
  <2>2. locker' \in Host \cup {NoHost} /\ works' \in Seq(WorkRow)
    BY <1>0, <1>1, CommitsType
  <2> QED
    BY <1>0, <1>1, <1>2, <2>1, <2>2 DEF TurnTypeOK
<1>7. /\ DOMAIN works \subseteq DOMAIN works'
      /\ \A i \in DOMAIN works :
           works[i].by # h \/ works[i].state = "whole" => works'[i] = works[i]
      /\ {locker, locker'} \subseteq {NoHost, h} /\ locker' # h
  BY <1>1, CommitOthers
<1>8. Others(h)
  BY <1>0, <1>1, <1>2, <1>3, <1>7 DEF Others, TurnTypeOK
<1>9. HostOK(h)'
  <2>1. session'[h].pc = pc /\ session'[h].turn = Len(turnLog) + 1 /\ pc \in {"check", "routed"}
    BY <1>4 DEF AtRest
  <2>2. Turn(h)' = row /\ session'[h].turn \in DOMAIN turnLog'
    BY <1>0, <1>2, <1>3, <2>1 DEF Turn
  <2>3. ServesOK(h)'
    BY <1>4, <2>1, <2>2 DEF ServesOK, row, AtRest
  <2> QED
    BY <2>1, <2>3, <1>7 DEF HostOK, Serving
<1>10. \A i \in DOMAIN works' : (i \in DOMAIN works /\ works[i].by # h) \/ WorkOK(i)'
  BY <1>1, <1>6, <1>8, CommitWorks
<1>11. \A i \in DOMAIN turnLog' : (i \in DOMAIN turnLog /\ turnLog'[i] = turnLog[i]) \/ TurnOK(i)'
  BY <1>0, <1>2, <1>3 DEF TurnOK, row
<1>12. session'[h].turn \notin DOMAIN turnLog
  BY <1>0, <1>3, <1>4 DEF AtRest
<1> QED
  BY <1>1, <1>6, <1>8, <1>9, <1>10, <1>11, <1>12, TurnStepInv

\* A step that moves its host on within its turn.
LEMMA MoveInv ==
    ASSUME TurnInv, TurnTypeOK', NEW h \in Host, NEW pc \in Serving \ {"extracting"},
           session[h].pc \in Serving, Others(h),
           session'[h].pc = pc, session'[h].turn = session[h].turn,
           UNCHANGED turnLog, locker' # h,
           pc \in Early => session'[h].status = "none",
           pc = "assistant" => "user" \in kept'[Turn(h).of],
           pc \in {"extract", "job", "trace"} => kept'[Turn(h).of] = Both,
           pc = "job" => /\ Turn(h).of \in Queued \/ session'[h].status # "none"
                         /\ session'[h].status = "completed" => Whole(Turn(h).of)',
           pc = "trace" => keeperJob'[Turn(h).of] # "none" /\ Turn(h).shadow = TRUE,
           \A i \in DOMAIN works' : (i \in DOMAIN works /\ works[i].by # h) \/ WorkOK(i)',
           \A e \in Exchange : keeperJob'[e] = keeperJob[e] \/ JobOK(e)'
    PROVE  TurnInv'
<1>1. ServesOK(h)
  BY DEF TurnInv, HostOK
<1>2. Turn(h)' = Turn(h)
  BY DEF Turn
<1>3. ServesOK(h)'
  BY <1>1, <1>2 DEF ServesOK, Serving
<1>4. HostOK(h)'
  BY <1>3 DEF HostOK, Serving
<1>5. \A i \in DOMAIN turnLog' : i \in DOMAIN turnLog /\ turnLog'[i] = turnLog[i]
  OBVIOUS
<1> QED
  BY <1>4, <1>5, TurnStepInv

\* A step that ends the turn of its host.
LEMMA EndInv ==
    ASSUME TurnInv, TurnTypeOK', NEW h \in Host, NEW k, k = session[h].turn,
           NEW status \in {"completed", "raised"},
           session[h].pc \in Serving, Others(h),
           session'[h] = [AtRest EXCEPT !.raised = (status = "raised")],
           DOMAIN turnLog' = DOMAIN turnLog,
           turnLog'[k].status = status,
           status = "completed" => TurnOK(k)',
           locker' = h => session'[h].raised,
           \A i \in DOMAIN works' : (i \in DOMAIN works /\ works[i].by # h) \/ WorkOK(i)',
           \A e \in Exchange : keeperJob'[e] = keeperJob[e] \/ JobOK(e)'
    PROVE  TurnInv'
<1>1. session'[h].pc = "idle" /\ session'[h].turn = 0
  BY DEF AtRest
<1>2. HostOK(h)'
  BY <1>1 DEF HostOK, Serving
<1>3. TurnOK(k)'
  BY DEF TurnOK
<1>4. \A i \in DOMAIN turnLog' : (i \in DOMAIN turnLog /\ turnLog'[i] = turnLog[i]) \/ TurnOK(i)'
  BY <1>3 DEF Others
<1>5. session'[h].pc \notin Serving
  BY <1>1 DEF Serving
<1> QED
  BY <1>2, <1>4, <1>5, TurnStepInv

\* What the tables keep when no row is written.
LEMMA SameTables ==
    ASSUME TurnInv, TurnTypeOK', NEW h \in Host, UNCHANGED <<works, kept, keeperJob>>,
           Others(h), session[h].pc \notin {"extracting", "writing"}, locker' = locker
    PROVE  /\ \A i \in DOMAIN works' : (i \in DOMAIN works /\ works[i].by # h) \/ WorkOK(i)'
           /\ \A e \in Exchange : keeperJob'[e] = keeperJob[e] \/ JobOK(e)'
  BY DEF TurnInv, WorkOK

\* A host in the middle of a turn has the fields of its turn, and, but for the extraction,
\* no lock.
LEMMA ServingFacts ==
    ASSUME TurnInv, NEW h \in Host, session[h].pc \in Serving
    PROVE  /\ TurnTypeOK /\ ServesOK(h) /\ Turn(h) \in TurnRow /\ Turn(h).of \in Exchange
           /\ session[h].turn \in DOMAIN turnLog
           /\ session[h] \in SessionRow
           /\ session[h].pc # "extracting" => locker # h
<1>1. ServesOK(h) /\ HostOK(h) /\ TurnTypeOK
  BY DEF TurnInv, HostOK
<1>2. session[h].turn \in DOMAIN turnLog
  BY <1>1 DEF ServesOK
<1> QED
  BY <1>1, <1>2, TurnFields DEF HostOK, Turn, Serving, TurnTypeOK

LEMMA EarlyStatus ==
    ASSUME TurnInv, NEW h \in Host, session[h].pc \in Early
    PROVE  session[h].status = "none"
  BY DEF TurnInv, HostOK, ServesOK, Early, Serving

LEMMA EndsTurnFacts ==
    ASSUME TurnInv, NEW h \in Host, session[h].pc \in Serving, NEW status \in {"completed", "raised"},
           EndsTurn(h, status)
    PROVE  /\ \A g \in Host : g # h => session'[g] = session[g]
           /\ session'[h] = [AtRest EXCEPT !.raised = (status = "raised")]
           /\ DOMAIN turnLog' = DOMAIN turnLog
           /\ turnLog'[session[h].turn] = [Turn(h) EXCEPT !.status = status]
           /\ turnLog'[session[h].turn].status = status
           /\ \A i \in DOMAIN turnLog : i # session[h].turn => turnLog'[i] = turnLog[i]
<1>1. TurnTypeOK /\ Turn(h) \in TurnRow /\ session[h].turn \in DOMAIN turnLog
  BY ServingFacts
<1>2. /\ DOMAIN turnLog' = DOMAIN turnLog
      /\ turnLog'[session[h].turn] = [Turn(h) EXCEPT !.status = status]
      /\ \A i \in DOMAIN turnLog : i # session[h].turn => turnLog'[i] = turnLog[i]
  BY <1>1 DEF EndsTurn, Turn
<1>3. turnLog'[session[h].turn].status = status
  BY <1>1, <1>2 DEF TurnRow
<1> QED
  BY <1>1, <1>2, <1>3 DEF EndsTurn, TurnTypeOK

LEMMA MovesToFacts ==
    ASSUME TurnInv, NEW h \in Host, NEW pc \in Serving, MovesTo(h, pc)
    PROVE  /\ \A g \in Host : g # h => session'[g] = session[g]
           /\ session'[h].pc = pc /\ session'[h].turn = session[h].turn
           /\ session'[h].status = session[h].status
           /\ session' \in [Host -> SessionRow]
<1>1. session \in [Host -> SessionRow] /\ session[h] \in SessionRow
  BY DEF TurnInv, TurnTypeOK
<1>2. session' = [session EXCEPT ![h] = [session[h] EXCEPT !.pc = pc]]
  BY DEF MovesTo
<1>3. /\ [session[h] EXCEPT !.pc = pc] \in SessionRow
      /\ [session[h] EXCEPT !.pc = pc].pc = pc
      /\ [session[h] EXCEPT !.pc = pc].turn = session[h].turn
      /\ [session[h] EXCEPT !.pc = pc].status = session[h].status
  BY <1>1 DEF SessionRow, Serving
<1> QED
  BY <1>1, <1>2, <1>3

LEMMA AskInv ==
    ASSUME TurnInv, NEW h \in Host, NEW answers \in BOOLEAN, Ask(h, answers)
    PROVE  TurnInv'
<1>1. session[h].pc = "routed" /\ UNCHANGED <<locker, works, kept, keeperJob>>
  BY DEF Ask, At
<1>2. session[h].pc \in Serving /\ session[h].pc \notin {"extracting", "writing"}
  BY <1>1 DEF Serving
<1>3. TurnTypeOK /\ locker' # h
  BY <1>1, <1>2, ServingFacts
<1>4. CASE MovesTo(h, "check") /\ UNCHANGED turnLog
  <2>1. "check" \in Serving \ {"extracting"}
    BY DEF Serving
  <2>2. /\ \A g \in Host : g # h => session'[g] = session[g]
        /\ session'[h].pc = "check" /\ session'[h].turn = session[h].turn
        /\ session'[h].status = session[h].status
        /\ session' \in [Host -> SessionRow]
    BY <1>4, <2>1, MovesToFacts
  <2>3. TurnTypeOK' /\ Others(h)
    BY <1>1, <1>3, <1>4, <2>2 DEF TurnTypeOK, Others
  <2> QED
    BY <1>1, <1>2, <1>3, <1>4, <2>1, <2>2, <2>3, EarlyStatus, SameTables, MoveInv DEF Early
<1>5. CASE EndsTurn(h, "raised")
  <2>1. /\ \A g \in Host : g # h => session'[g] = session[g]
        /\ session'[h] = [AtRest EXCEPT !.raised = TRUE]
        /\ DOMAIN turnLog' = DOMAIN turnLog
        /\ turnLog'[session[h].turn].status = "raised"
        /\ \A i \in DOMAIN turnLog : i # session[h].turn => turnLog'[i] = turnLog[i]
    BY <1>2, <1>5, EndsTurnFacts
  <2>2. session' \in [Host -> SessionRow] /\ turnLog' \in Seq(TurnRow)
    BY <1>3, <1>5, EndsTurnType
  <2>3. TurnTypeOK' /\ Others(h)
    BY <1>1, <1>3, <2>1, <2>2 DEF TurnTypeOK, Others
  <2>4. /\ \A i \in DOMAIN works' : (i \in DOMAIN works /\ works[i].by # h) \/ WorkOK(i)'
        /\ \A e \in Exchange : keeperJob'[e] = keeperJob[e] \/ JobOK(e)'
    BY <1>1, <1>2, <2>3, SameTables
  <2> QED
    BY <1>2, <1>3, <2>1, <2>3, <2>4, EndInv
<1> QED
  BY <1>4, <1>5 DEF Ask

\* What an answered turn leaves.
LEMMA CompletedOK ==
    ASSUME TurnInv, TurnTypeOK', NEW h \in Host, NEW k, k = session[h].turn, session[h].pc \in Serving,
           turnLog'[k] = [Turn(h) EXCEPT !.status = "completed"], Turn(h).shadow = FALSE,
           kept'[Turn(h).of] = Both, keeperJob'[Turn(h).of] # "none"
    PROVE  TurnOK(k)'
<1>1. ServesOK(h) /\ Turn(h) \in TurnRow
  BY ServingFacts
<1>2. turnLog'[k].of = Turn(h).of /\ turnLog'[k].traced = FALSE /\ turnLog'[k].shadow = FALSE
  BY <1>1 DEF ServesOK, TurnRow
<1> QED
  BY <1>2 DEF TurnOK

\* The end of a turn, or the step before its trace.
LEMMA ConcludesInv ==
    ASSUME TurnInv, NEW h \in Host, session[h].pc \in {"check", "job"}, Concludes(h),
           DOMAIN works \subseteq DOMAIN works',
           \A i \in DOMAIN works :
             works[i].by # h \/ works[i].state = "whole" => works'[i] = works[i],
           UNCHANGED kept, keeperJob' \in [Exchange -> {"none", "queued", "completed", "failed"}],
           \A e \in Exchange : keeperJob[e] # "none" => keeperJob'[e] = keeperJob[e],
           locker' # locker => {locker, locker'} \subseteq {NoHost, h},
           locker' # h, locker' \in Host \cup {NoHost}, works' \in Seq(WorkRow),
           kept[Turn(h).of] = Both, keeperJob'[Turn(h).of] # "none",
           TurnTypeOK' /\ Others(h) =>
             /\ \A i \in DOMAIN works' : (i \in DOMAIN works /\ works[i].by # h) \/ WorkOK(i)'
             /\ \A e \in Exchange : keeperJob'[e] = keeperJob[e] \/ JobOK(e)'
    PROVE  TurnInv'
<1>1. session[h].pc \in Serving
  BY DEF Serving
<1>2. TurnTypeOK /\ Turn(h) \in TurnRow /\ Turn(h).of \in Exchange
  BY <1>1, ServingFacts
<1>3. CASE Turn(h).shadow
  <2>1. MovesTo(h, "trace") /\ UNCHANGED turnLog
    BY <1>3 DEF Concludes
  <2>2. "trace" \in Serving \ {"extracting"}
    BY DEF Serving
  <2>3. /\ \A g \in Host : g # h => session'[g] = session[g]
        /\ session'[h].pc = "trace" /\ session'[h].turn = session[h].turn
        /\ session' \in [Host -> SessionRow]
    BY <2>1, <2>2, MovesToFacts
  <2>4. TurnTypeOK'
    BY <1>2, <2>1, <2>3 DEF TurnTypeOK
  <2>5. Others(h)
    BY <2>1, <2>3 DEF Others
  <2>6. Turn(h).shadow = TRUE
    BY <1>2, <1>3 DEF TurnRow
  <2> QED
    BY <1>1, <2>1, <2>2, <2>3, <2>4, <2>5, <2>6, MoveInv DEF Early
<1>4. CASE ~Turn(h).shadow
  <2>1. EndsTurn(h, "completed")
    BY <1>4 DEF Concludes
  <2> DEFINE k == session[h].turn
  <2>2. /\ \A g \in Host : g # h => session'[g] = session[g]
        /\ session'[h] = [AtRest EXCEPT !.raised = ("completed" = "raised")]
        /\ DOMAIN turnLog' = DOMAIN turnLog
        /\ turnLog'[k] = [Turn(h) EXCEPT !.status = "completed"]
        /\ turnLog'[k].status = "completed"
        /\ \A i \in DOMAIN turnLog : i # k => turnLog'[i] = turnLog[i]
    BY <1>1, <2>1, EndsTurnFacts
  <2>3. session' \in [Host -> SessionRow] /\ turnLog' \in Seq(TurnRow)
    BY <1>2, <2>1, EndsTurnType
  <2>4. TurnTypeOK'
    BY <1>2, <2>3 DEF TurnTypeOK
  <2>5. Others(h)
    BY <2>2 DEF Others
  <2>6. Turn(h).shadow = FALSE
    BY <1>2, <1>4 DEF TurnRow
  <2>7. PICK c : c = session[h].turn
    OBVIOUS
  <2>8. TurnOK(c)'
    BY <1>1, <2>2, <2>4, <2>6, <2>7, CompletedOK
  <2>9. turnLog'[c].status = "completed"
    BY <2>2, <2>7
  <2> HIDE DEF k
  <2> QED
    BY <1>1, <2>2, <2>4, <2>5, <2>7, <2>8, <2>9, EndInv
<1> QED
  BY <1>3, <1>4

LEMMA CheckKeyInv ==
    ASSUME TurnInv, NEW h \in Host, CheckKey(h)
    PROVE  TurnInv'
<1>1. session[h].pc = "check" /\ UNCHANGED <<locker, works, kept, keeperJob>>
  BY DEF CheckKey, At
<1>2. session[h].pc \in Serving /\ session[h].pc \notin {"extracting", "writing"}
  BY <1>1 DEF Serving
<1>3. TurnTypeOK /\ Turn(h).of \in Exchange /\ locker' # h
  BY <1>1, <1>2, ServingFacts
<1>4. CASE keeperJob[Turn(h).of] # "none"
  <2>1. Concludes(h)
    BY <1>4 DEF CheckKey
  <2>2. kept[Turn(h).of] = Both
    BY <1>3, <1>4 DEF TurnInv, JobOK
  <2>3. TurnTypeOK' /\ Others(h) =>
          /\ \A i \in DOMAIN works' : (i \in DOMAIN works /\ works[i].by # h) \/ WorkOK(i)'
          /\ \A e \in Exchange : keeperJob'[e] = keeperJob[e] \/ JobOK(e)'
    BY <1>1, <1>2, SameTables
  <2>4. /\ keeperJob' \in [Exchange -> {"none", "queued", "completed", "failed"}]
        /\ locker' \in Host \cup {NoHost} /\ works' \in Seq(WorkRow)
    BY <1>1, <1>3 DEF TurnTypeOK
  <2> QED
    BY <1>1, <1>3, <1>4, <2>1, <2>2, <2>3, <2>4, ConcludesInv
<1>5. CASE keeperJob[Turn(h).of] = "none"
  <2>1. MovesTo(h, "user") /\ UNCHANGED turnLog
    BY <1>5 DEF CheckKey
  <2>2. "user" \in Serving \ {"extracting"}
    BY DEF Serving
  <2>3. /\ \A g \in Host : g # h => session'[g] = session[g]
        /\ session'[h].pc = "user" /\ session'[h].turn = session[h].turn
        /\ session'[h].status = session[h].status
        /\ session' \in [Host -> SessionRow]
    BY <2>1, <2>2, MovesToFacts
  <2>4. TurnTypeOK' /\ Others(h)
    BY <1>1, <1>3, <2>1, <2>3 DEF TurnTypeOK, Others
  <2> QED
    BY <1>1, <1>2, <1>3, <2>1, <2>2, <2>3, <2>4, EarlyStatus, SameTables, MoveInv DEF Early
<1> QED
  BY <1>4, <1>5

LEMMA SaveTextInv ==
    ASSUME TurnInv, NEW h \in Host, NEW who \in {"user", "assistant"}, SaveText(h, who)
    PROVE  TurnInv'
<1> DEFINE next == IF who = "user" THEN "assistant"
                   ELSE IF Turn(h).of \in Queued THEN "job" ELSE "extract"
<1>1. /\ session[h].pc = who /\ CanWrite(h) /\ UNCHANGED <<turnLog, keeperJob>>
      /\ kept' = [kept EXCEPT ![Turn(h).of] = @ \cup {who}]
      /\ MovesTo(h, next) /\ Commits(h, {})
  BY DEF SaveText, At
<1>2. session[h].pc \in Serving /\ session[h].pc \notin {"extracting", "writing"}
  BY <1>1 DEF Serving
<1>3. TurnTypeOK /\ Turn(h).of \in Exchange /\ ServesOK(h)
  BY <1>2, ServingFacts
<1>4. next \in Serving \ {"extracting"}
  BY DEF Serving
<1>5. /\ \A g \in Host : g # h => session'[g] = session[g]
      /\ session'[h].pc = next /\ session'[h].turn = session[h].turn
      /\ session'[h].status = session[h].status
      /\ session' \in [Host -> SessionRow]
  BY <1>1, <1>4, MovesToFacts
<1>6. kept'[Turn(h).of] = kept[Turn(h).of] \cup {who}
      /\ kept' \in [Exchange -> SUBSET {"user", "assistant"}]
  BY <1>1, <1>3 DEF TurnTypeOK
<1>7. locker' \in Host \cup {NoHost} /\ works' \in Seq(WorkRow)
  BY <1>1, <1>3, CommitsType
<1>8. TurnTypeOK'
  BY <1>1, <1>3, <1>5, <1>6, <1>7 DEF TurnTypeOK
<1>9. /\ DOMAIN works \subseteq DOMAIN works'
      /\ \A i \in DOMAIN works :
           works[i].by # h \/ works[i].state = "whole" => works'[i] = works[i]
      /\ {locker, locker'} \subseteq {NoHost, h} /\ locker' # h
  BY <1>1, CommitOthers
<1>10. \A e \in Exchange : kept[e] \subseteq kept'[e]
  BY <1>1, <1>3 DEF TurnTypeOK
<1>11. Others(h)
  BY <1>1, <1>5, <1>9, <1>10 DEF Others
<1>12. \A i \in DOMAIN works' : (i \in DOMAIN works /\ works[i].by # h) \/ WorkOK(i)'
  BY <1>1, <1>2, <1>8, <1>11, CommitWorks
<1>13. next = "assistant" => "user" \in kept'[Turn(h).of]
  BY <1>6
<1>14. next # "assistant" => kept'[Turn(h).of] = Both
  BY <1>1, <1>3, <1>6 DEF ServesOK, Both, TurnTypeOK
<1>15. next = "job" => Turn(h).of \in Queued
  OBVIOUS
<1>16. session'[h].status = "none"
  BY <1>1, <1>5, EarlyStatus DEF Early
<1>17. PICK pc \in Serving \ {"extracting"} : pc = next
  BY <1>4
<1> HIDE DEF next
<1>18. pc \in {"assistant", "extract", "job"} /\ pc # "trace"
  BY <1>17 DEF next
<1>19. /\ session'[h].pc = pc /\ session'[h].turn = session[h].turn
       /\ pc = "assistant" => "user" \in kept'[Turn(h).of]
       /\ pc \in {"extract", "job", "trace"} => kept'[Turn(h).of] = Both
       /\ pc = "job" => Turn(h).of \in Queued /\ session'[h].status # "completed"
  BY <1>5, <1>13, <1>14, <1>15, <1>16, <1>17
<1>20. \A e \in Exchange : keeperJob'[e] = keeperJob[e]
  BY <1>1
<1> QED
  BY <1>1, <1>2, <1>8, <1>9, <1>11, <1>12, <1>16, <1>18, <1>19, <1>20, MoveInv

\* The host has written, and holds the lock.
LEMMA TakesLock ==
    ASSUME TurnInv, NEW h \in Host, CanWrite(h), NEW row \in WorkRow, row.by = h, row.state = "open",
           works' = Append(works, row), locker' = h
    PROVE  /\ works' \in Seq(WorkRow) /\ DOMAIN works' = 1 .. (Len(works) + 1)
           /\ DOMAIN works = 1 .. Len(works) /\ Len(works) \in Nat
           /\ works'[Len(works) + 1] = row
           /\ \A i \in DOMAIN works : works'[i] = works[i]
           /\ {locker, locker'} \subseteq {NoHost, h}
<1>1. works \in Seq(WorkRow)
  BY DEF TurnInv, TurnTypeOK
<1>2. /\ works' \in Seq(WorkRow) /\ Len(works') = Len(works) + 1
      /\ works'[Len(works) + 1] = row
      /\ \A i \in DOMAIN works : works'[i] = works[i]
  BY <1>1, AppendProperties
<1> QED
  BY <1>1, <1>2 DEF CanWrite

\* A host that is not in the middle of a write has open rows only of a call that raised, and
\* keeps them open when it takes the lock again.
LEMMA OpenStays ==
    ASSUME TurnInv, NEW h \in Host, session[h].pc \notin {"extracting", "writing"}, locker' = h,
           UNCHANGED kept, NEW i \in DOMAIN works, works'[i] = works[i], works[i].by = h
    PROVE  WorkOK(i)'
  BY DEF TurnInv, WorkOK

LEMMA ExtractInv ==
    ASSUME TurnInv, NEW h \in Host, Extract(h)
    PROVE  TurnInv'
<1> DEFINE row == [by |-> h, of |-> Turn(h).of, state |-> "open", answer |-> "none"]
<1>1. /\ session[h].pc = "extract" /\ CanWrite(h) /\ Len(works) < MaxWork
      /\ works' = Append(works, row) /\ locker' = h /\ UNCHANGED <<turnLog, kept, keeperJob>>
      /\ session' = [session EXCEPT ![h].pc = "extracting", ![h].work = Len(works) + 1]
  BY DEF Extract, At
<1>2. session[h].pc \in Serving /\ session[h].pc \notin {"extracting", "writing"}
  BY <1>1 DEF Serving
<1>3. TurnTypeOK /\ Turn(h).of \in Exchange /\ ServesOK(h) /\ session[h] \in SessionRow
  BY <1>2, ServingFacts
<1>4. row \in WorkRow /\ row.by = h /\ row.state = "open"
  BY <1>3 DEF WorkRow
<1>5. /\ row.of = Turn(h).of /\ row.answer = "none"
      /\ kept[Turn(h).of] = Both
  BY <1>1, <1>3 DEF ServesOK
<1>6. PICK r \in WorkRow : r = row
  BY <1>4
<1> HIDE DEF row
<1>7. /\ works' \in Seq(WorkRow) /\ DOMAIN works' = 1 .. (Len(works) + 1)
      /\ DOMAIN works = 1 .. Len(works) /\ Len(works) \in Nat
      /\ works'[Len(works) + 1] = r
      /\ \A i \in DOMAIN works : works'[i] = works[i]
      /\ {locker, locker'} \subseteq {NoHost, h}
  BY <1>1, <1>4, <1>6, TakesLock
<1>8. /\ \A g \in Host : g # h => session'[g] = session[g]
      /\ session'[h] = [session[h] EXCEPT !.pc = "extracting", !.work = Len(works) + 1]
  BY <1>1, <1>3 DEF TurnTypeOK
<1>9. session'[h] \in SessionRow
  <2>1. Len(works) + 1 \in 0 .. MaxWork
    BY <1>1, <1>7, TurnBounds
  <2> QED
    BY <1>3, <1>8, <2>1 DEF SessionRow
<1>10. TurnTypeOK'
  <2>1. session' \in [Host -> SessionRow]
    BY <1>1, <1>3, <1>8, <1>9 DEF TurnTypeOK
  <2> QED
    BY <1>1, <1>3, <1>7, <2>1 DEF TurnTypeOK
<1>11. Others(h)
  <2>1. locker' = h /\ UNCHANGED <<turnLog, kept, keeperJob>>
    BY <1>1
  <2>2. DOMAIN works \subseteq DOMAIN works' /\ \A i \in DOMAIN works : works'[i] = works[i]
    BY <1>7
  <2>3. \A g \in Host : g # h => session'[g] = session[g]
    BY <1>8
  <2>4. locker' # locker => {locker, locker'} \subseteq {NoHost, h}
    BY <1>7
  <2> QED
    BY <2>1, <2>2, <2>3, <2>4 DEF Others
<1>12. /\ session'[h].pc = "extracting" /\ session'[h].work = Len(works) + 1
       /\ session'[h].turn = session[h].turn
  BY <1>3, <1>8 DEF SessionRow
<1>13. Turn(h)' = Turn(h)
  BY <1>1, <1>12 DEF Turn
<1>14. HostOK(h)'
  <2>1. ServesOK(h)'
    BY <1>1, <1>3, <1>12, <1>13 DEF ServesOK, Early
  <2>2. WritesOK(h)'
    BY <1>1, <1>4, <1>5, <1>6, <1>7, <1>12, <1>13 DEF WritesOK
  <2> QED
    BY <1>12, <2>1, <2>2 DEF HostOK, Serving
<1>15. ASSUME NEW i \in DOMAIN works' PROVE (i \in DOMAIN works /\ works[i].by # h) \/ WorkOK(i)'
  <2>1. CASE i \in DOMAIN works /\ works[i].by = h
    BY <1>1, <1>2, <1>7, <2>1, OpenStays
  <2>2. CASE i = Len(works) + 1
    BY <1>1, <1>4, <1>5, <1>6, <1>7, <1>12, <2>2 DEF WorkOK
  <2> QED
    BY <1>7, <2>1, <2>2
<1>16. /\ \A e \in Exchange : keeperJob'[e] = keeperJob[e]
       /\ \A i \in DOMAIN turnLog' : i \in DOMAIN turnLog /\ turnLog'[i] = turnLog[i]
  BY <1>1
<1> QED
  BY <1>2, <1>10, <1>11, <1>12, <1>14, <1>15, <1>16, TurnStepInv

\* What the host is told of its extraction.
LEMMA OutcomeInv ==
    ASSUME TurnInv, TurnTypeOK', NEW h \in Host, session[h].pc \in {"extract", "extracting"},
           NEW status \in {"completed", "failed"}, Others(h),
           session'[h].pc = "job", session'[h].turn = session[h].turn,
           session'[h].status = status, UNCHANGED <<turnLog, kept, keeperJob>>, locker' # h,
           status = "completed" => Whole(Turn(h).of)',
           \A i \in DOMAIN works' : (i \in DOMAIN works /\ works[i].by # h) \/ WorkOK(i)'
    PROVE  TurnInv'
<1>1. session[h].pc \in Serving /\ "job" \in Serving \ {"extracting"}
  BY DEF Serving
<1>2. ServesOK(h)
  BY <1>1, ServingFacts
<1>3. kept'[Turn(h).of] = Both
  BY <1>2 DEF ServesOK
<1>4. /\ session'[h].status # "none"
      /\ session'[h].status = "completed" => Whole(Turn(h).of)'
  OBVIOUS
<1>5. \A e \in Exchange : keeperJob'[e] = keeperJob[e]
  OBVIOUS
<1>6. "job" \notin Early
  BY DEF Early
<1> QED
  BY <1>1, <1>3, <1>4, <1>5, <1>6, MoveInv

LEMMA ExtractedInv ==
    ASSUME TurnInv, NEW h \in Host, Extracted(h)
    PROVE  TurnInv'
<1>1. /\ session[h].pc = "extracting" /\ Commits(h, {session[h].work})
      /\ session' = [session EXCEPT ![h].pc = "job", ![h].status = "completed"]
      /\ UNCHANGED <<turnLog, kept, keeperJob>>
  BY DEF Extracted, At
<1>2. session[h].pc \in Serving
  BY <1>1 DEF Serving
<1>3. TurnTypeOK /\ session[h] \in SessionRow
  BY <1>2, ServingFacts
<1>4. WritesOK(h)
  BY <1>1 DEF TurnInv, HostOK
<1>5. PICK w : w = session[h].work
  OBVIOUS
<1>6. /\ w \in DOMAIN works /\ works[w].by = h /\ works[w].state = "open"
      /\ works[w].of = Turn(h).of /\ locker = h /\ works[w] \in WorkRow
  BY <1>1, <1>3, <1>4, <1>5, TurnFields DEF WritesOK
<1>7. locker' \in Host \cup {NoHost} /\ works' \in Seq(WorkRow) /\ DOMAIN works' = DOMAIN works
  BY <1>1, <1>3, CommitsType
<1>8. /\ \A g \in Host : g # h => session'[g] = session[g]
      /\ session'[h] = [session[h] EXCEPT !.pc = "job", !.status = "completed"]
  BY <1>1, <1>3 DEF TurnTypeOK
<1>9. /\ session'[h].pc = "job" /\ session'[h].turn = session[h].turn
      /\ session'[h].status = "completed" /\ session'[h] \in SessionRow
  BY <1>3, <1>8 DEF SessionRow
<1>10. TurnTypeOK'
  BY <1>1, <1>3, <1>7, <1>8, <1>9 DEF TurnTypeOK
<1>11. Commits(h, {w}) /\ CanWrite(h)
  BY <1>1, <1>5, <1>6 DEF CanWrite
<1>12. /\ DOMAIN works \subseteq DOMAIN works'
       /\ \A i \in DOMAIN works :
            works[i].by # h \/ works[i].state = "whole" => works'[i] = works[i]
       /\ {locker, locker'} \subseteq {NoHost, h} /\ locker' # h
  BY <1>6, <1>11, CommitOthers
<1>13. Others(h)
  BY <1>1, <1>8, <1>12 DEF Others
<1>14. \A i \in DOMAIN works' : (i \in DOMAIN works /\ works[i].by # h) \/ WorkOK(i)'
  BY <1>1, <1>5, <1>10, <1>11, <1>13, CommitWorks
<1>15. Whole(Turn(h).of)'
  <2>1. works'[w] = [works[w] EXCEPT !.state = "whole", !.answer = "done"]
    BY <1>6, <1>11 DEF Commits
  <2>2. works'[w].state = "whole" /\ works'[w].of = Turn(h).of
    BY <1>6, <2>1 DEF WorkRow
  <2>3. Turn(h)' = Turn(h)
    BY <1>1, <1>9 DEF Turn
  <2> QED
    BY <1>6, <1>7, <2>2, <2>3 DEF Whole
<1> QED
  BY <1>1, <1>9, <1>10, <1>12, <1>13, <1>14, <1>15, OutcomeInv

LEMMA KeeperFailsInv ==
    ASSUME TurnInv, NEW h \in Host, KeeperFails(h)
    PROVE  TurnInv'
<1>1. /\ session[h].pc \in {"extract", "extracting"} /\ RollsBack(h)
      /\ session' = [session EXCEPT ![h].pc = "job", ![h].status = "failed"]
      /\ UNCHANGED <<turnLog, kept, keeperJob>>
  BY DEF KeeperFails, At
<1>2. session[h].pc \in Serving
  BY <1>1 DEF Serving
<1>3. TurnTypeOK /\ session[h] \in SessionRow
  BY <1>2, ServingFacts
<1>4. locker' \in Host \cup {NoHost} /\ works' \in Seq(WorkRow) /\ DOMAIN works' = DOMAIN works
  BY <1>1, <1>3, RollsBackType
<1>5. /\ \A g \in Host : g # h => session'[g] = session[g]
      /\ session'[h] = [session[h] EXCEPT !.pc = "job", !.status = "failed"]
  BY <1>1, <1>3 DEF TurnTypeOK
<1>6. /\ session'[h].pc = "job" /\ session'[h].turn = session[h].turn
      /\ session'[h].status = "failed" /\ session'[h] \in SessionRow
  BY <1>3, <1>5 DEF SessionRow
<1>7. TurnTypeOK'
  BY <1>1, <1>3, <1>4, <1>5, <1>6 DEF TurnTypeOK
<1>8. /\ DOMAIN works \subseteq DOMAIN works'
      /\ \A i \in DOMAIN works :
           works[i].by # h \/ works[i].state = "whole" => works'[i] = works[i]
      /\ locker' # locker => {locker, locker'} \subseteq {NoHost, h}
      /\ locker' # h
  BY <1>1, RollBackOthers
<1>9. Others(h)
  BY <1>1, <1>5, <1>8 DEF Others
<1>10. \A i \in DOMAIN works' : (i \in DOMAIN works /\ works[i].by # h) \/ WorkOK(i)'
  BY <1>1, <1>7, <1>9, RollBackWorks
<1> QED
  BY <1>1, <1>6, <1>7, <1>8, <1>9, <1>10, OutcomeInv

LEMMA RecordJobInv ==
    ASSUME TurnInv, NEW h \in Host, RecordJob(h)
    PROVE  TurnInv'
<1>1. session[h].pc = "job" /\ CanWrite(h) /\ UNCHANGED kept
  BY DEF RecordJob, At
<1>2. session[h].pc \in Serving /\ session[h].pc \notin {"extracting", "writing"}
  BY <1>1 DEF Serving
<1>3. TurnTypeOK /\ Turn(h).of \in Exchange /\ ServesOK(h) /\ session[h] \in SessionRow
  BY <1>2, ServingFacts
<1>4. /\ kept[Turn(h).of] = Both
      /\ Turn(h).of \in Queued \/ session[h].status # "none"
      /\ session[h].status = "completed" => Whole(Turn(h).of)
  BY <1>1, <1>3 DEF ServesOK
<1>5. PICK e \in Exchange : e = Turn(h).of
  BY <1>3
<1>6. CASE keeperJob[e] = "none"
  <2> DEFINE new == IF e \in Queued THEN "queued" ELSE session[h].status
  <2>1. /\ keeperJob' = [keeperJob EXCEPT ![e] = new]
        /\ Concludes(h) /\ Commits(h, {})
    BY <1>5, <1>6 DEF RecordJob
  <2>2. new \in {"queued", "completed", "failed"} /\ (new = "completed" => Whole(e))
    BY <1>3, <1>4, <1>5 DEF SessionRow
  <2> HIDE DEF new
  <2>3. /\ keeperJob' \in [Exchange -> {"none", "queued", "completed", "failed"}]
        /\ keeperJob'[e] = new
        /\ \A f \in Exchange : f # e => keeperJob'[f] = keeperJob[f]
    BY <1>3, <2>1, <2>2 DEF TurnTypeOK
  <2>4. \A f \in Exchange : keeperJob[f] # "none" => keeperJob'[f] = keeperJob[f]
    BY <1>6, <2>3
  <2>5. locker' \in Host \cup {NoHost} /\ works' \in Seq(WorkRow)
    BY <1>3, <2>1, CommitsType
  <2>6. /\ DOMAIN works \subseteq DOMAIN works'
        /\ \A i \in DOMAIN works :
             works[i].by # h \/ works[i].state = "whole" => works'[i] = works[i]
        /\ {locker, locker'} \subseteq {NoHost, h} /\ locker' # h
    BY <1>1, <2>1, CommitOthers
  <2>7. ASSUME TurnTypeOK', Others(h)
        PROVE  /\ \A i \in DOMAIN works' : (i \in DOMAIN works /\ works[i].by # h) \/ WorkOK(i)'
               /\ \A f \in Exchange : keeperJob'[f] = keeperJob[f] \/ JobOK(f)'
    <3>1. \A i \in DOMAIN works' : (i \in DOMAIN works /\ works[i].by # h) \/ WorkOK(i)'
      BY <1>2, <2>1, <2>7, CommitWorks
    <3>2. Whole(e) => Whole(e)'
      BY <2>7, WholeStays
    <3>3. JobOK(e)'
      BY <1>1, <1>4, <1>5, <2>2, <2>3, <3>2 DEF JobOK
    <3> QED
      BY <2>3, <3>1, <3>3
  <2>8. keeperJob'[Turn(h).of] # "none"
    BY <1>5, <2>2, <2>3
  <2> QED
    BY <1>1, <1>4, <2>1, <2>3, <2>4, <2>5, <2>6, <2>7, <2>8, ConcludesInv
<1>7. CASE keeperJob[e] # "none"
  <2>1. EndsTurn(h, "raised") /\ locker' = h /\ UNCHANGED <<works, keeperJob>>
    BY <1>5, <1>7 DEF RecordJob
  <2>2. /\ \A g \in Host : g # h => session'[g] = session[g]
        /\ session'[h] = [AtRest EXCEPT !.raised = TRUE]
        /\ DOMAIN turnLog' = DOMAIN turnLog
        /\ turnLog'[session[h].turn].status = "raised"
        /\ \A i \in DOMAIN turnLog : i # session[h].turn => turnLog'[i] = turnLog[i]
    BY <1>2, <2>1, EndsTurnFacts
  <2>3. session' \in [Host -> SessionRow] /\ turnLog' \in Seq(TurnRow)
    BY <1>3, <2>1, EndsTurnType
  <2>4. TurnTypeOK'
    BY <1>1, <1>3, <2>1, <2>3 DEF TurnTypeOK
  <2>5. Others(h)
    BY <1>1, <2>1, <2>2 DEF Others, CanWrite
  <2>6. \A i \in DOMAIN works' : (i \in DOMAIN works /\ works[i].by # h) \/ WorkOK(i)'
    BY <1>1, <1>2, <2>1, OpenStays
  <2>7. \A f \in Exchange : keeperJob'[f] = keeperJob[f]
    BY <2>1
  <2>8. session'[h].raised
    BY <2>2 DEF AtRest
  <2> QED
    BY <1>2, <2>2, <2>4, <2>5, <2>6, <2>7, <2>8, EndInv
<1> QED
  BY <1>6, <1>7

LEMMA TraceInv ==
    ASSUME TurnInv, NEW h \in Host, Trace(h)
    PROVE  TurnInv'
<1>1. /\ session[h].pc = "trace" /\ CanWrite(h) /\ Commits(h, {})
      /\ turnLog' = [turnLog EXCEPT ![session[h].turn].traced = TRUE,
                                    ![session[h].turn].status = "completed"]
      /\ session' = [session EXCEPT ![h] = AtRest]
      /\ UNCHANGED <<kept, keeperJob>>
  BY DEF Trace, At
<1>2. session[h].pc \in Serving /\ session[h].pc \notin {"extracting", "writing"}
  BY <1>1 DEF Serving
<1>3. /\ TurnTypeOK /\ Turn(h).of \in Exchange /\ ServesOK(h) /\ Turn(h) \in TurnRow
      /\ session[h].turn \in DOMAIN turnLog
  BY <1>2, ServingFacts
<1>4. kept[Turn(h).of] = Both /\ keeperJob[Turn(h).of] # "none" /\ Turn(h).shadow = TRUE
  BY <1>1, <1>3 DEF ServesOK
<1>5. PICK k : k = session[h].turn
  OBVIOUS
<1>6. /\ DOMAIN turnLog' = DOMAIN turnLog
      /\ turnLog'[k] = [turnLog[k] EXCEPT !.traced = TRUE, !.status = "completed"]
      /\ \A i \in DOMAIN turnLog : i # k => turnLog'[i] = turnLog[i]
  BY <1>1, <1>3, <1>5 DEF TurnTypeOK
<1>7. /\ turnLog'[k].of = Turn(h).of /\ turnLog'[k].shadow = TRUE /\ turnLog'[k].traced = TRUE
      /\ turnLog'[k].status = "completed" /\ turnLog'[k] \in TurnRow
  BY <1>3, <1>4, <1>5, <1>6 DEF TurnRow, Turn
<1>8. turnLog' \in Seq(TurnRow)
  <2>1. \A i \in DOMAIN turnLog : turnLog[i] \in TurnRow
    BY <1>3 DEF TurnTypeOK
  <2>2. \A i \in DOMAIN turnLog : turnLog'[i] \in TurnRow
    BY <1>6, <1>7, <2>1
  <2>3. DOMAIN turnLog = 1 .. Len(turnLog) /\ Len(turnLog) \in Nat
    BY <1>3 DEF TurnTypeOK
  <2>4. turnLog' = [i \in 1 .. Len(turnLog) |-> turnLog'[i]]
    BY <1>1, <1>3, <2>3 DEF TurnTypeOK
  <2>5. turnLog' \in [1 .. Len(turnLog) -> TurnRow]
    BY <2>2, <2>3, <2>4
  <2> QED
    BY <2>3, <2>5, SeqDef
<1>9. locker' \in Host \cup {NoHost} /\ works' \in Seq(WorkRow)
  BY <1>1, <1>3, CommitsType
<1>10. /\ \A g \in Host : g # h => session'[g] = session[g]
       /\ session'[h] = AtRest /\ session' \in [Host -> SessionRow]
  <2>1. AtRest \in SessionRow
    BY TurnBounds DEF SessionRow, AtRest
  <2> QED
    BY <1>1, <1>3, <2>1 DEF TurnTypeOK
<1>11. TurnTypeOK'
  BY <1>1, <1>3, <1>8, <1>9, <1>10 DEF TurnTypeOK
<1>12. /\ DOMAIN works \subseteq DOMAIN works'
       /\ \A i \in DOMAIN works :
            works[i].by # h \/ works[i].state = "whole" => works'[i] = works[i]
       /\ {locker, locker'} \subseteq {NoHost, h} /\ locker' # h
  BY <1>1, CommitOthers
<1>13. Others(h)
  BY <1>1, <1>5, <1>6, <1>10, <1>12 DEF Others
<1>14. \A i \in DOMAIN works' : (i \in DOMAIN works /\ works[i].by # h) \/ WorkOK(i)'
  BY <1>1, <1>2, <1>11, <1>13, CommitWorks
<1>15. TurnOK(k)'
  BY <1>1, <1>4, <1>7 DEF TurnOK
<1>16. AtRest = [AtRest EXCEPT !.raised = ("completed" = "raised")]
  <2>1. AtRest = [AtRest EXCEPT !.raised = FALSE]
    <3>1. AtRest \in SessionRow /\ AtRest.raised = FALSE
      BY TurnBounds DEF AtRest, SessionRow
    <3>2. \A r \in SessionRow : r.raised = FALSE => r = [r EXCEPT !.raised = FALSE]
      BY DEF SessionRow
    <3> QED
      BY <3>1, <3>2
  <2>2. ("completed" = "raised") = FALSE
    OBVIOUS
  <2> QED
    BY <2>1, <2>2, Zenon
<1>17. session'[h] = [AtRest EXCEPT !.raised = ("completed" = "raised")]
  BY <1>10, <1>16
<1>18. \A e \in Exchange : keeperJob'[e] = keeperJob[e]
  BY <1>1
<1> QED
  BY <1>2, <1>5, <1>6, <1>7, <1>11, <1>12, <1>13, <1>14, <1>15, <1>17, <1>18, EndInv

LEMMA LockedInv ==
    ASSUME TurnInv, NEW h \in Host, Locked(h)
    PROVE  TurnInv'
<1>1. /\ session[h].pc \in {"user", "assistant", "job", "trace"} /\ EndsTurn(h, "raised")
      /\ UNCHANGED <<locker, works, kept, keeperJob>>
  BY DEF Locked
<1>2. session[h].pc \in Serving /\ session[h].pc \notin {"extracting", "writing"}
  BY <1>1 DEF Serving
<1>3. TurnTypeOK /\ locker' # h
  BY <1>1, <1>2, ServingFacts
<1>4. /\ \A g \in Host : g # h => session'[g] = session[g]
      /\ session'[h] = [AtRest EXCEPT !.raised = TRUE]
      /\ DOMAIN turnLog' = DOMAIN turnLog
      /\ turnLog'[session[h].turn].status = "raised"
      /\ \A i \in DOMAIN turnLog : i # session[h].turn => turnLog'[i] = turnLog[i]
  BY <1>1, <1>2, EndsTurnFacts
<1>5. session' \in [Host -> SessionRow] /\ turnLog' \in Seq(TurnRow)
  BY <1>1, <1>3, EndsTurnType
<1>6. TurnTypeOK' /\ Others(h)
  BY <1>1, <1>3, <1>4, <1>5 DEF TurnTypeOK, Others
<1>7. /\ \A i \in DOMAIN works' : (i \in DOMAIN works /\ works[i].by # h) \/ WorkOK(i)'
      /\ \A e \in Exchange : keeperJob'[e] = keeperJob[e] \/ JobOK(e)'
  BY <1>1, <1>2, <1>6, SameTables
<1> QED
  BY <1>2, <1>3, <1>4, <1>6, <1>7, EndInv

----------------------------------------------------------------------------
(* The steps outside of turns. *)

\* A step of a host that serves no turn, before or after.
LEMMA RestInv ==
    ASSUME TurnInv, TurnTypeOK', NEW h \in Host, Others(h), UNCHANGED <<turnLog, keeperJob>>,
           session'[h].pc \notin Serving, HostOK(h)',
           \A i \in DOMAIN works' : (i \in DOMAIN works /\ works[i].by # h) \/ WorkOK(i)'
    PROVE  TurnInv'
<1>1. /\ \A i \in DOMAIN turnLog' : i \in DOMAIN turnLog /\ turnLog'[i] = turnLog[i]
      /\ \A e \in Exchange : keeperJob'[e] = keeperJob[e]
  OBVIOUS
<1> QED
  BY <1>1, TurnStepInv

LEMMA StartWorkInv ==
    ASSUME TurnInv, NEW h \in Host, StartWork(h)
    PROVE  TurnInv'
<1> DEFINE row == [by |-> h, of |-> "call", state |-> "open", answer |-> "none"]
<1>1. /\ session[h].pc = "idle" /\ CanWrite(h) /\ Len(works) < MaxWork
      /\ works' = Append(works, row) /\ locker' = h /\ UNCHANGED <<turnLog, kept, keeperJob>>
      /\ session' = [session EXCEPT ![h] = [AtRest EXCEPT !.pc = "writing", !.work = Len(works) + 1]]
  BY DEF StartWork, At
<1>2. TurnTypeOK
  BY DEF TurnInv
<1>3. /\ row \in WorkRow /\ row.by = h /\ row.state = "open"
      /\ row.of = "call" /\ row.answer = "none"
  BY DEF WorkRow
<1>4. PICK r \in WorkRow : r = row
  BY <1>3
<1> HIDE DEF row
<1>5. /\ works' \in Seq(WorkRow) /\ DOMAIN works' = 1 .. (Len(works) + 1)
      /\ DOMAIN works = 1 .. Len(works) /\ Len(works) \in Nat
      /\ works'[Len(works) + 1] = r
      /\ \A i \in DOMAIN works : works'[i] = works[i]
      /\ {locker, locker'} \subseteq {NoHost, h}
  BY <1>1, <1>3, <1>4, TakesLock
<1>6. /\ \A g \in Host : g # h => session'[g] = session[g]
      /\ session'[h] = [AtRest EXCEPT !.pc = "writing", !.work = Len(works) + 1]
  BY <1>1, <1>2 DEF TurnTypeOK
<1>7. session'[h] \in SessionRow
  <2>1. Len(works) + 1 \in 0 .. MaxWork
    BY <1>1, <1>5, TurnBounds
  <2>2. AtRest \in SessionRow
    BY TurnBounds DEF SessionRow, AtRest
  <2> QED
    BY <1>6, <2>1, <2>2 DEF SessionRow
<1>8. TurnTypeOK'
  <2>1. session' \in [Host -> SessionRow]
    BY <1>1, <1>2, <1>6, <1>7 DEF TurnTypeOK
  <2> QED
    BY <1>1, <1>2, <1>5, <2>1 DEF TurnTypeOK
<1>9. Others(h)
  <2>1. locker' = h /\ UNCHANGED <<turnLog, kept, keeperJob>>
    BY <1>1
  <2>2. DOMAIN works \subseteq DOMAIN works' /\ \A i \in DOMAIN works : works'[i] = works[i]
    BY <1>5
  <2>3. \A g \in Host : g # h => session'[g] = session[g]
    BY <1>6
  <2>4. locker' # locker => {locker, locker'} \subseteq {NoHost, h}
    BY <1>5
  <2> QED
    BY <2>1, <2>2, <2>3, <2>4 DEF Others
<1>10. /\ session'[h].pc = "writing" /\ session'[h].work = Len(works) + 1 /\ session'[h].turn = 0
  BY <1>6 DEF AtRest
<1>11. WritesOK(h)'
  BY <1>1, <1>3, <1>4, <1>5, <1>10 DEF WritesOK
<1>12. HostOK(h)' /\ session'[h].pc \notin Serving
  BY <1>10, <1>11 DEF HostOK, Serving
<1>13. ASSUME NEW i \in DOMAIN works' PROVE (i \in DOMAIN works /\ works[i].by # h) \/ WorkOK(i)'
  <2>1. CASE i \in DOMAIN works /\ works[i].by = h
    BY <1>1, <1>5, <2>1, OpenStays
  <2>2. CASE i = Len(works) + 1
    BY <1>1, <1>3, <1>4, <1>5, <1>10, <2>2, HostAssumption DEF WorkOK
  <2> QED
    BY <1>5, <2>1, <2>2
<1> QED
  BY <1>1, <1>8, <1>9, <1>12, <1>13, RestInv

LEMMA FinishWorkInv ==
    ASSUME TurnInv, NEW h \in Host, FinishWork(h)
    PROVE  TurnInv'
<1>1. /\ session[h].pc = "writing" /\ Commits(h, {session[h].work})
      /\ session' = [session EXCEPT ![h] = AtRest]
      /\ UNCHANGED <<turnLog, kept, keeperJob>>
  BY DEF FinishWork, At
<1>2. TurnTypeOK /\ WritesOK(h)
  BY <1>1 DEF TurnInv, HostOK
<1>3. PICK w : w = session[h].work
  OBVIOUS
<1>4. w \in DOMAIN works /\ works[w].by = h /\ works[w].state = "open" /\ locker = h
  BY <1>2, <1>3 DEF WritesOK
<1>5. locker' \in Host \cup {NoHost} /\ works' \in Seq(WorkRow)
  BY <1>1, <1>2, CommitsType
<1>6. /\ \A g \in Host : g # h => session'[g] = session[g]
      /\ session'[h] = AtRest /\ session' \in [Host -> SessionRow]
  <2>1. AtRest \in SessionRow
    BY TurnBounds DEF SessionRow, AtRest
  <2> QED
    BY <1>1, <1>2, <2>1 DEF TurnTypeOK
<1>7. TurnTypeOK'
  BY <1>1, <1>2, <1>5, <1>6 DEF TurnTypeOK
<1>8. Commits(h, {w}) /\ CanWrite(h)
  BY <1>1, <1>3, <1>4 DEF CanWrite
<1>9. /\ DOMAIN works \subseteq DOMAIN works'
      /\ \A i \in DOMAIN works :
           works[i].by # h \/ works[i].state = "whole" => works'[i] = works[i]
      /\ {locker, locker'} \subseteq {NoHost, h} /\ locker' # h
  BY <1>4, <1>8, CommitOthers
<1>10. Others(h)
  BY <1>1, <1>6, <1>9 DEF Others
<1>11. \A i \in DOMAIN works' : (i \in DOMAIN works /\ works[i].by # h) \/ WorkOK(i)'
  BY <1>1, <1>3, <1>7, <1>8, <1>10, CommitWorks
<1>12. HostOK(h)' /\ session'[h].pc \notin Serving
  BY <1>6, <1>9 DEF HostOK, Serving, AtRest
<1> QED
  BY <1>1, <1>7, <1>10, <1>11, <1>12, RestInv

LEMMA FailWorkInv ==
    ASSUME TurnInv, NEW h \in Host, FailWork(h)
    PROVE  TurnInv'
<1>1. /\ session[h].pc = "writing"
      /\ session' = [session EXCEPT ![h] = [AtRest EXCEPT !.raised = TRUE]]
      /\ works' = [works EXCEPT ![session[h].work].answer = "raised"]
      /\ UNCHANGED <<locker, turnLog, kept, keeperJob>>
  BY DEF FailWork, At
<1>2. TurnTypeOK /\ WritesOK(h)
  BY <1>1 DEF TurnInv, HostOK
<1>3. PICK w : w = session[h].work
  OBVIOUS
<1>4. /\ w \in DOMAIN works /\ works[w].by = h /\ works[w].state = "open" /\ locker = h
      /\ works[w].of = "call" /\ works[w] \in WorkRow
  BY <1>1, <1>2, <1>3, TurnFields DEF WritesOK
<1>5. /\ \A g \in Host : g # h => session'[g] = session[g]
      /\ session'[h] = [AtRest EXCEPT !.raised = TRUE] /\ session' \in [Host -> SessionRow]
  <2>1. AtRest \in SessionRow
    BY TurnBounds DEF SessionRow, AtRest
  <2>2. [AtRest EXCEPT !.raised = TRUE] \in SessionRow
    BY <2>1 DEF SessionRow
  <2> QED
    BY <1>1, <1>2, <2>2 DEF TurnTypeOK
<1>6. /\ DOMAIN works' = DOMAIN works
      /\ works'[w] = [works[w] EXCEPT !.answer = "raised"]
      /\ \A i \in DOMAIN works : i # w => works'[i] = works[i]
  BY <1>1, <1>3, <1>4
<1>7. /\ works'[w].by = h /\ works'[w].state = "open" /\ works'[w].answer = "raised"
      /\ works'[w].of = "call" /\ works'[w] \in WorkRow
  BY <1>4, <1>6 DEF WorkRow
<1>8. works' \in Seq(WorkRow)
  <2>1. \A i \in DOMAIN works : works[i] \in WorkRow
    BY <1>2 DEF TurnTypeOK
  <2>2. \A i \in DOMAIN works : works'[i] \in WorkRow
    BY <1>6, <1>7, <2>1
  <2>3. DOMAIN works = 1 .. Len(works) /\ Len(works) \in Nat
    BY <1>2 DEF TurnTypeOK
  <2>4. works' = [i \in 1 .. Len(works) |-> works'[i]]
    BY <1>1, <1>2, <2>3 DEF TurnTypeOK
  <2>5. works' \in [1 .. Len(works) -> WorkRow]
    BY <2>2, <2>3, <2>4
  <2> QED
    BY <2>3, <2>5, SeqDef
<1>9. TurnTypeOK'
  BY <1>1, <1>2, <1>5, <1>8 DEF TurnTypeOK
<1>10. Others(h)
  <2>1. UNCHANGED <<locker, turnLog, kept, keeperJob>>
    BY <1>1
  <2>2. \A i \in DOMAIN works : works[i].by # h \/ works[i].state = "whole" => works'[i] = works[i]
    BY <1>4, <1>6
  <2> QED
    BY <1>5, <1>6, <2>1, <2>2 DEF Others
<1>11. ASSUME NEW i \in DOMAIN works, works[i].by = h PROVE WorkOK(i)'
  <2>1. CASE i = w
    BY <1>1, <1>4, <1>7, <2>1, HostAssumption DEF WorkOK
  <2>2. CASE i # w
    <3>1. WorkOK(i) /\ works'[i] = works[i]
      BY <1>6, <2>2 DEF TurnInv
    <3>2. works[i].state = "open" => works[i].answer = "raised" /\ works[i].of = "call"
      BY <1>3, <1>11, <2>2, <3>1 DEF WorkOK
    <3> QED
      BY <1>1, <3>1, <3>2 DEF WorkOK
  <2> QED
    BY <2>1, <2>2
<1>12. HostOK(h)' /\ session'[h].pc \notin Serving
  BY <1>5 DEF HostOK, Serving, AtRest
<1>13. \A i \in DOMAIN works' : (i \in DOMAIN works /\ works[i].by # h) \/ WorkOK(i)'
  BY <1>6, <1>11
<1> QED
  BY <1>1, <1>9, <1>10, <1>12, <1>13, RestInv

LEMMA CloseHostInv ==
    ASSUME TurnInv, NEW h \in Host, CloseHost(h)
    PROVE  TurnInv'
<1>1. /\ session' = [session EXCEPT ![h] = AtRest]
      /\ turnLog' = [i \in DOMAIN turnLog |->
           IF i = session[h].turn THEN [turnLog[i] EXCEPT !.status = "raised"] ELSE turnLog[i]]
      /\ RollsBack(h) /\ UNCHANGED <<kept, keeperJob>>
  BY DEF CloseHost
<1>2. TurnTypeOK
  BY DEF TurnInv
<1>3. \A i \in DOMAIN turnLog : turnLog[i] \in TurnRow
  BY <1>2 DEF TurnTypeOK
<1>4. /\ DOMAIN turnLog' = DOMAIN turnLog
      /\ \A i \in DOMAIN turnLog : i # session[h].turn => turnLog'[i] = turnLog[i]
      /\ \A i \in DOMAIN turnLog : i = session[h].turn => turnLog'[i].status = "raised"
      /\ \A i \in DOMAIN turnLog : turnLog'[i] \in TurnRow
  BY <1>1, <1>3 DEF TurnRow
<1>5. turnLog' \in Seq(TurnRow)
  <2>1. DOMAIN turnLog = 1 .. Len(turnLog) /\ Len(turnLog) \in Nat
    BY <1>2 DEF TurnTypeOK
  <2>2. turnLog' = [i \in 1 .. Len(turnLog) |-> turnLog'[i]]
    BY <1>1, <2>1
  <2>3. turnLog' \in [1 .. Len(turnLog) -> TurnRow]
    BY <1>4, <2>1, <2>2
  <2> QED
    BY <2>1, <2>3, SeqDef
<1>6. locker' \in Host \cup {NoHost} /\ works' \in Seq(WorkRow)
  BY <1>1, <1>2, RollsBackType
<1>7. /\ \A g \in Host : g # h => session'[g] = session[g]
      /\ session'[h] = AtRest /\ session' \in [Host -> SessionRow]
  <2>1. AtRest \in SessionRow
    BY TurnBounds DEF SessionRow, AtRest
  <2> QED
    BY <1>1, <1>2, <2>1 DEF TurnTypeOK
<1>8. TurnTypeOK'
  BY <1>1, <1>2, <1>5, <1>6, <1>7 DEF TurnTypeOK
<1>9. /\ DOMAIN works \subseteq DOMAIN works'
      /\ \A i \in DOMAIN works :
           works[i].by # h \/ works[i].state = "whole" => works'[i] = works[i]
      /\ locker' # locker => {locker, locker'} \subseteq {NoHost, h}
      /\ locker' # h
  BY <1>1, RollBackOthers
<1>10. Others(h)
  BY <1>1, <1>4, <1>7, <1>9 DEF Others
<1>11. \A i \in DOMAIN works' : (i \in DOMAIN works /\ works[i].by # h) \/ WorkOK(i)'
  BY <1>1, <1>8, <1>10, RollBackWorks
<1>12. HostOK(h)' /\ session'[h].pc \notin Serving
  BY <1>7, <1>9 DEF HostOK, Serving, AtRest
<1>13. \A i \in DOMAIN turnLog' : (i \in DOMAIN turnLog /\ turnLog'[i] = turnLog[i]) \/ TurnOK(i)'
  BY <1>4 DEF TurnOK
<1>14. \A e \in Exchange : keeperJob'[e] = keeperJob[e]
  BY <1>1
<1> QED
  BY <1>8, <1>10, <1>11, <1>12, <1>13, <1>14, TurnStepInv

----------------------------------------------------------------------------
(* The theorems. *)

LEMMA TurnInitInv == TurnInit => TurnInv
<1> SUFFICES ASSUME TurnInit PROVE TurnInv
  OBVIOUS
<1>1. AtRest \in SessionRow
  BY TurnBounds DEF SessionRow, AtRest
<1>2. TurnTypeOK
  BY <1>1 DEF TurnInit, TurnTypeOK
<1>3. \A h \in Host : session[h].pc = "idle" /\ session[h].turn = 0
  BY DEF TurnInit, AtRest
<1>4. \A h \in Host : HostOK(h)
  BY <1>3, HostAssumption DEF TurnInit, HostOK, Serving
<1>5. Apart
  BY <1>3 DEF Apart, Serving
<1>6. DOMAIN works = {} /\ DOMAIN turnLog = {}
  BY DEF TurnInit
<1>7. \A e \in Exchange : JobOK(e)
  BY DEF TurnInit, JobOK
<1> QED
  BY <1>2, <1>4, <1>5, <1>6, <1>7 DEF TurnInv

LEMMA TurnNextInv == TurnInv /\ [TurnNext]_turnVars => TurnInv'
<1> SUFFICES ASSUME TurnInv, [TurnNext]_turnVars PROVE TurnInv'
  OBVIOUS
<1>1. CASE TurnNext
  <2> PICK h \in Host :
      \/ \E e \in Exchange, shadow \in BOOLEAN : Route(h, e, shadow)
      \/ \E answers \in BOOLEAN : Ask(h, answers)
      \/ CheckKey(h)
      \/ \E who \in {"user", "assistant"} : SaveText(h, who)
      \/ Extract(h) \/ Extracted(h) \/ KeeperFails(h)
      \/ RecordJob(h) \/ Trace(h) \/ Locked(h)
      \/ StartWork(h) \/ FinishWork(h) \/ FailWork(h) \/ CloseHost(h)
    BY <1>1 DEF TurnNext
  <2> QED
    BY RouteInv, AskInv, CheckKeyInv, SaveTextInv, ExtractInv, ExtractedInv, KeeperFailsInv,
       RecordJobInv, TraceInv, LockedInv, StartWorkInv, FinishWorkInv, FailWorkInv, CloseHostInv
<1>2. CASE UNCHANGED turnVars
  BY <1>2 DEF turnVars, TurnInv, TurnTypeOK, HostOK, ServesOK, WritesOK, WorkOK, JobOK, TurnOK, Apart,
              Turn, Whole
<1> QED
  BY <1>1, <1>2

LEMMA TurnInvHolds == TurnSpec => []TurnInv
<1> QED
  BY TurnInitInv, TurnNextInv, PTL DEF TurnSpec

\* The tables of turns, operations and jobs, and the sessions over them, stay of their types:
\* a session points into the tables, and no column gets a value outside of its CHECK.
THEOREM TurnTypeCorrect == TurnSpec => []TurnTypeOK
<1>1. TurnInv => TurnTypeOK
  BY DEF TurnInv
<1> QED
  BY <1>1, TurnInvHolds, PTL

\* Whatever fails in run_agent_turn, shadow_turn or an operation of a host, and however hosts
\* interleave: what was answered is in the tables as a whole, what is extracted of an exchange
\* is there as a whole or not at all, and a job is "completed" only when it was extracted.
THEOREM TurnsSafe == TurnSpec => []TurnsAreWhole
<1>1. TurnInv => TurnsAreWhole
  <2> SUFFICES ASSUME TurnInv PROVE TurnsAreWhole
    OBVIOUS
  <2>1. \A i \in DOMAIN turnLog : TurnOK(i)
    BY DEF TurnInv
  <2>2. \A i \in DOMAIN works : WorkOK(i)
    BY DEF TurnInv
  <2>3. \A e \in Exchange : JobOK(e)
    BY DEF TurnInv
  <2>4. \A h \in Host : locker = h /\ At(h, "idle") => session[h].raised
    BY DEF TurnInv, HostOK, At
  <2> QED
    BY <2>1, <2>2, <2>3, <2>4 DEF TurnsAreWhole, TurnOK, WorkOK, JobOK, Both, Whole
<1> QED
  BY <1>1, TurnInvHolds, PTL
============================================================================
