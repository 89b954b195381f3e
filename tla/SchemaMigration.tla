--------------------------- MODULE SchemaMigration ---------------------------
(***************************************************************************)
(* How a database gets its schema (init_db and _ensure_column in           *)
(* store.py), which every request, tool call, worker turn and command      *)
(* runs before anything else, and what migration_status says of it.        *)
(*                                                                         *)
(* Until its last transaction every statement of init_db commits by        *)
(* itself, so each is a step, and so is each unlocked look at a table.     *)
(* Tables without columns of interest are left out, and what an index      *)
(* holds.                                                                  *)
(***************************************************************************)
EXTENDS Naturals, Sequences, FiniteSets

CONSTANTS
    Opener,         \* connections that run init_db
    Tables,         \* the tables, in the order schema.sql creates them
    Column,         \* their columns
    TableOf,        \* the table of each column
    Additions,      \* the columns init_db adds to a table that lacks them, in its order
    Indexed,        \* the columns of the indexes that schema.sql creates
    Required,       \* the columns migration_status asks for
    OldSchema       \* what a file may hold when it is opened: its tables and columns

SetOf(seq) == {seq[i] : i \in DOMAIN seq}
Table == SetOf(Tables)

ASSUME SchemaAssumption ==
    /\ Tables \in Seq(Table) /\ TableOf \in [Column -> Table]
    /\ Additions \in Seq(Column) /\ Indexed \subseteq Column /\ Required \subseteq Column
    /\ \A old \in OldSchema :
         /\ old.tables \subseteq Table
         /\ \A c \in old.columns : c \in Column /\ TableOf[c] \in old.tables

\* SCHEMA_VERSION; a file that no kernel opened is of version 0.
SchemaVersion == 1

VARIABLES
    tables, columns,    \* the tables of the file, and their columns
    version,            \* its user_version
    opener              \* each connection: where it is, and what it read

schemaVars == <<tables, columns, version, opener>>

NotOpen == [pc |-> "closed", at |-> 0, lacks |-> {}, read |-> 0, raced |-> FALSE]

OpenerRow ==
    [pc : {"closed", "script", "look", "alter", "raised", "open", "reading", "answered"},
     at : 0 .. Len(Tables) + Len(Additions) + 1, lacks : SUBSET Column,
     read : 0 .. SchemaVersion, raced : BOOLEAN]

SchemaTypeOK ==
    /\ tables \subseteq Table /\ columns \subseteq {c \in Column : TableOf[c] \in tables}
    /\ version \in 0 .. SchemaVersion
    /\ opener \in [Opener -> OpenerRow]

\* SCHEMA_VERSION was not raised for the columns, so an old file may say either version.
SchemaInit ==
    \E old \in OldSchema :
      /\ tables = old.tables /\ columns = old.columns
      /\ version \in IF old.tables = {} THEN {0} ELSE 0 .. SchemaVersion
      /\ opener = [o \in Opener |-> NotOpen]

Goes(o, pc, at) == opener' = [opener EXCEPT ![o].pc = pc, ![o].at = at]
Raises(o) == Goes(o, "raised", 0)

\* MemoryStore(path), init_db()
OpenFile(o) ==
    /\ opener[o].pc = "closed"
    /\ Goes(o, "script", 1)
    /\ UNCHANGED <<tables, columns, version>>

\* CREATE TABLE IF NOT EXISTS: a table that is there keeps its columns.
CreateTable(o) ==
    LET t == Tables[opener[o].at] IN
    /\ opener[o].pc = "script" /\ opener[o].at \in DOMAIN Tables
    /\ tables' = tables \cup {t}
    /\ columns' = columns \cup IF t \in tables THEN {} ELSE {c \in Column : TableOf[c] = t}
    /\ Goes(o, "script", opener[o].at + 1)
    /\ UNCHANGED version

\* CREATE INDEX IF NOT EXISTS, at the end of the script: before any column is added.
CreateIndexes(o) ==
    /\ opener[o].pc = "script" /\ opener[o].at = Len(Tables) + 1
    /\ IF Indexed \subseteq columns THEN Goes(o, "look", 1) ELSE Raises(o)
    /\ UNCHANGED <<tables, columns, version>>

\* _ensure_column: PRAGMA table_info
LookForColumn(o) ==
    /\ opener[o].pc = "look" /\ opener[o].at \in DOMAIN Additions
    /\ IF Additions[opener[o].at] \in columns THEN Goes(o, "look", opener[o].at + 1)
       ELSE Goes(o, "alter", opener[o].at)
    /\ UNCHANGED <<tables, columns, version>>

\* ALTER TABLE ADD COLUMN raises on a column that another connection added in between.
AddColumn(o) ==
    LET c == Additions[opener[o].at] IN
    /\ opener[o].pc = "alter"
    /\ columns' = columns \cup {c}
    /\ opener' = [p \in Opener |->
         IF p = o
         THEN IF c \in columns THEN [NotOpen EXCEPT !.pc = "raised", !.raced = opener[o].raced]
              ELSE [opener[o] EXCEPT !.pc = "look", !.at = @ + 1]
         ELSE IF opener[p].pc = "alter" /\ Additions[opener[p].at] = c
         THEN [opener[p] EXCEPT !.raced = TRUE] ELSE opener[p]]
    /\ UNCHANGED <<tables, version>>

\* The audit row of init and the version, in one transaction.
Stamp(o) ==
    /\ opener[o].pc = "look" /\ opener[o].at = Len(Additions) + 1
    /\ version' = SchemaVersion
    /\ Goes(o, "open", 0)
    /\ UNCHANGED <<tables, columns>>

\* migration_status reads the version, and then each table by itself.
ReadVersion(o) ==
    /\ opener[o].pc = "open"
    /\ opener' = [opener EXCEPT ![o] = [NotOpen EXCEPT !.pc = "reading", !.at = 1,
                                          !.read = version, !.raced = opener[o].raced]]
    /\ UNCHANGED <<tables, columns, version>>

ReadTable(o) ==
    LET t == Tables[opener[o].at] IN
    /\ opener[o].pc = "reading" /\ opener[o].at \in DOMAIN Tables
    /\ opener' = [opener EXCEPT ![o].at = @ + 1,
                                ![o].lacks = @ \cup {c \in Required \ columns : TableOf[c] = t}]
    /\ UNCHANGED <<tables, columns, version>>

AnswerStatus(o) ==
    /\ opener[o].pc = "reading" /\ opener[o].at = Len(Tables) + 1
    /\ Goes(o, "answered", 0)
    /\ UNCHANGED <<tables, columns, version>>

\* Mutant: the version is taken for the whole schema.
Compatible_ByVersion(r) == r.read >= SchemaVersion

Compatible(r) == r.read >= SchemaVersion /\ r.lacks = {}

\* A process dies, or closes its connection whatever came of it: it may open the file again.
CloseFile(o) ==
    /\ opener[o].pc # "closed"
    /\ opener' = [opener EXCEPT ![o] = NotOpen]
    /\ UNCHANGED <<tables, columns, version>>

SchemaNext ==
    \E o \in Opener :
      \/ OpenFile(o) \/ CreateTable(o) \/ CreateIndexes(o)
      \/ LookForColumn(o) \/ AddColumn(o) \/ Stamp(o)
      \/ ReadVersion(o) \/ ReadTable(o) \/ AnswerStatus(o) \/ CloseFile(o)

SchemaSpec == SchemaInit /\ [][SchemaNext]_schemaVars

----------------------------------------------------------------------------
(* Properties. *)

\* A file from before an indexed column: the script raises before the column is added, so
\* the file is never opened.
Outdated == \E c \in Indexed \ columns : TableOf[c] \in tables

\* From any old file, in any interleaving and after any number of deaths: a connection that
\* is open found or made every table and column init_db knows of; init_db raises only if
\* another connection added the column it was about to add, or if the file is outdated; and
\* a status says "compatible" of exactly the files that have all that is asked for.
MigrationIsWhole ==
    \A o \in Opener :
      LET r == opener[o] IN
      /\ r.pc \in {"open", "reading", "answered"} =>
           /\ tables = Table /\ SetOf(Additions) \subseteq columns
           /\ version = SchemaVersion /\ ~Outdated
      /\ r.pc = "raised" => r.raced \/ Outdated
      /\ r.pc = "answered" => (Compatible(r) <=> Required \subseteq columns)
=============================================================================
