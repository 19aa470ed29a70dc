------------------------------ MODULE Migration ------------------------------
(***************************************************************************)
(* What make_engine() of profiler_service/db.py does to the database at    *)
(* every start of the service: migrate() with the Alembic revisions of     *)
(* profiler_service/migrations/versions, on a database in any state an     *)
(* earlier deployment, or an earlier start that was killed, left it in.    *)
(*                                                                         *)
(* PostgreSQL takes a whole stage in one transaction.  On SQLite the       *)
(* driver opens a transaction only when the first row is written: DDL      *)
(* before that commits statement by statement.                             *)
(*                                                                         *)
(* Tables, columns, indexes and the Default row are told apart; types and  *)
(* constraints of columns are not (add_missing_columns leaves NOT NULL     *)
(* out, the revisions do not).                                             *)
(***************************************************************************)
EXTENDS Integers, Sequences, SequencesExt

VARIABLES backend,   \* "sqlite" or "postgres"
          legacy,    \* history: a file of before Alembic was found
          db,        \* what is committed: the schema's objects, and the revision
          seen,      \* what the connection sees, db and its own transaction
          stage,     \* what the start is at
          script     \* the statements left of that stage

migrationVars == <<backend, legacy, db, seen, stage, script>>

\* alembic_version is missing, or it is there and holds no row.
NoVersion == -1
Unstamped == 0

\* A statement adds objects (a table with its columns, a column, an index, a
\* row) and may set the revision; -1 leaves it.
Adding(objects) == [row |-> FALSE, adds |-> objects, to |-> -1]
CreateTable(table, columns) == Adding({<<table, c>> : c \in columns \cup {"table"}})
AddColumn(table, column) == Adding({<<table, column>>})

\* Indexes, named for their column.
IndexNames == [lab |-> "ix lab", service |-> "ix service", run |-> "ix run", email |-> "ix email",
               user |-> "ix user", project |-> "ix project"]
CreateIndex(table, column) == Adding({<<table, IndexNames[column]>>})

DefaultProject == [row |-> TRUE, adds |-> {<<"projects", "default row">>}, to |-> -1]
VersionTable == [row |-> FALSE, adds |-> {}, to |-> Unstamped]
Stamped(r) == [row |-> TRUE, adds |-> {}, to |-> r]

Baseline ==
  << CreateTable("experiments", {}),
     CreateTable("runs", {"lab"}), CreateIndex("runs", "lab"), CreateIndex("runs", "service"),
     CreateTable("op_stats", {}), CreateIndex("op_stats", "run"),
     CreateTable("samples", {}), CreateIndex("samples", "run"),
     CreateTable("spans", {}), CreateIndex("spans", "run"),
     CreateTable("trial_results", {}), CreateIndex("trial_results", "lab") >>
UsersAndTokens ==
  << CreateTable("users", {}), CreateIndex("users", "email"),
     CreateTable("api_tokens", {}), CreateIndex("api_tokens", "user"),
     CreateTable("auth_sessions", {}), CreateIndex("auth_sessions", "user") >>
ProjectsAndTeams ==
  << CreateTable("projects", {}), DefaultProject, CreateTable("teams", {}),
     CreateTable("project_grants", {}), CreateTable("team_members", {}),
     AddColumn("api_tokens", "project"),
     AddColumn("experiments", "project"), CreateIndex("experiments", "project"),
     AddColumn("runs", "project"), CreateIndex("runs", "project") >>
ProjectRetention == << AddColumn("projects", "days"), AddColumn("projects", "last purge") >>
ShareLinks == << CreateTable("share_links", {}), CreateIndex("share_links", "project") >>

Revisions == <<Baseline, UsersAndTokens, ProjectsAndTeams, ProjectRetention, ShareLinks>>
HeadRevision == Len(Revisions)

ObjectsOf(r) == UNION {s.adds : s \in ToSet(Revisions[r])}
Schema == UNION {ObjectsOf(r) : r \in 1..HeadRevision}
UpTo(r) == UNION {ObjectsOf(k) : k \in 1..r}
Tables == {o[1] : o \in Schema}
Indexes == {o \in Schema : o[2] \in Range(IndexNames)}
Columns == {o \in Schema \ Indexes : o[2] \notin {"table", "default row"}}

-----------------------------------------------------------------------------
(* What a start may find: nothing, a file of before Alembic with some of    *)
(* the tables and the indexes on their columns, or none of the indexes (the *)
(* file of tests/test_lab_runner.py), a database some release brought to    *)
(* its revision.                                                            *)
OldObjects(tables) == {o \in UpTo(1) : o[1] \in tables} \ {<<"runs", "lab">>, <<"runs", "ix lab">>}
OldFiles ==
  {OldObjects({"runs", "spans", "samples"}), OldObjects({"runs", "spans", "samples"}) \ Indexes,
   OldObjects(Tables)}

Found ==
  {[on |-> b, db |-> [objs |-> UpTo(r), version |-> IF r = 0 THEN NoVersion ELSE r]] :
     b \in {"sqlite", "postgres"}, r \in 0..HeadRevision}
  \cup {[on |-> "sqlite", db |-> [objs |-> old, version |-> NoVersion]] : old \in OldFiles}

MigrationInit ==
  /\ \E f \in Found : backend = f.on /\ db = f.db
  /\ legacy = (db.objs # {} /\ db.version = NoVersion)
  /\ seen = db /\ stage = "down" /\ script = <<>>

-----------------------------------------------------------------------------
(* The scripts of the stages, read from the database when the stage begins *)

InSomeOrder(S, Statement(_)) == FoldSet(LAMBDA o, q : Append(q, Statement(o)), <<>>, S)

\* create_all: each table that is missing, with all its columns, and then its
\* indexes; add_missing_columns: columns, and no index.
MissingTable(t) ==
  <<Adding({o \in Columns \cup {<<t, "table">>} : o[1] = t})>>
  \o InSomeOrder({o \in Indexes : o[1] = t}, LAMBDA o : Adding({o}))
MissingTables ==
  FlattenSeq(InSomeOrder({t \in Tables : <<t, "table">> \notin seen.objs}, MissingTable))
MissingColumns == InSomeOrder(Columns \ seen.objs, LAMBDA o : Adding({o}))
MissingDefault == IF DefaultProject.adds \subseteq seen.objs THEN <<>> ELSE <<DefaultProject>>

EnsureVersionTable == IF seen.version = NoVersion THEN <<VersionTable>> ELSE <<>>

Stamp == EnsureVersionTable \o <<Stamped(HeadRevision)>>

Upgrade ==
  EnsureVersionTable
  \o FlattenSeq([k \in 1..HeadRevision |->
       IF k <= seen.version THEN <<>> ELSE Append(Revisions[k], Stamped(k))])

-----------------------------------------------------------------------------
(* A start of the service *)

Begin(next, statements) ==
  stage' = next /\ script' = statements /\ UNCHANGED <<backend, legacy, db, seen>>

\* migrate() looks at the tables: a file of before Alembic is completed first.
Look ==
  /\ stage = "down"
  /\ IF <<"runs", "table">> \in seen.objs /\ seen.version = NoVersion
     THEN Begin("tables", MissingTables)
     ELSE Begin("upgrade", Upgrade)

Execute ==
  /\ script # <<>>
  /\ LET s == Head(script)
     IN /\ s.adds \cap seen.objs = {}
        /\ seen' = [objs |-> seen.objs \cup s.adds,
                    version |-> IF s.to = -1 THEN seen.version ELSE s.to]
        /\ db' = IF backend = "sqlite" /\ ~s.row /\ seen = db THEN seen' ELSE db
  /\ script' = Tail(script)
  /\ UNCHANGED <<backend, legacy, stage>>

\* "table already exists": migrate() raises and the service does not start.
Refused ==
  /\ script # <<>> /\ Head(script).adds \cap seen.objs # {}
  /\ stage' = "refused" /\ seen' = db /\ script' = <<>>
  /\ UNCHANGED <<backend, legacy, db>>

\* The stage's transaction commits.
Commit ==
  /\ stage \in {"tables", "columns", "default", "stamp", "upgrade"} /\ script = <<>> /\ seen # db
  /\ db' = seen
  /\ UNCHANGED <<backend, legacy, seen, stage, script>>

NextStage ==
  /\ script = <<>> /\ seen = db
  /\ \/ stage = "tables"  /\ Begin("columns", MissingColumns)
     \/ stage = "columns" /\ Begin("default", MissingDefault)
     \/ stage = "default" /\ Begin("stamp", Stamp)
     \/ stage = "stamp"   /\ Begin("upgrade", Upgrade)
     \/ stage = "upgrade" /\ Begin("up", <<>>)

\* The process ends at any moment, and is started again.
ProcessEnds ==
  /\ stage # "down"
  /\ stage' = "down" /\ seen' = db /\ script' = <<>>
  /\ UNCHANGED <<backend, legacy, db>>

MigrationNext == Look \/ Execute \/ Refused \/ Commit \/ NextStage \/ ProcessEnds

MigrationSpec == MigrationInit /\ [][MigrationNext]_migrationVars

-----------------------------------------------------------------------------
(* Properties *)

MigrationTypeOK ==
  /\ backend \in {"sqlite", "postgres"}
  /\ \A d \in {db, seen} : d.objs \subseteq Schema /\ d.version \in NoVersion..HeadRevision
  /\ db.objs \subseteq seen.objs
  /\ stage \in {"down", "tables", "columns", "default", "stamp", "upgrade", "up", "refused"}

\* What a database must have of a part of the schema: all of it, but for a
\* file of before Alembic the indexes, which nothing adds to its tables.
Owed(objects) == IF legacy THEN objects \ Indexes ELSE objects

\* The service never serves with a schema that lacks a table, a column, the
\* Default row or, where Alembic made the tables, an index, wherever earlier
\* starts were killed ("keep in step with them", profiler_service/db.py:57).
ServedComplete == stage = "up" => Owed(Schema) \subseteq db.objs /\ db.version = HeadRevision

\* The revision on record never claims more than the schema has, and what the
\* schema has beyond it belongs to the revision that comes next.
RevisionTruthful ==
  db.version > 0 =>
    /\ Owed(UpTo(db.version)) \subseteq db.objs
    /\ db.version < HeadRevision => db.objs \subseteq UpTo(db.version + 1)

\* A start is refused only on SQLite, and only where an earlier one was killed
\* in the first revision it had to apply, or between alembic_version and its row.
RefusedOnlyWhereCut ==
  stage = "refused" =>
    /\ backend = "sqlite"
    /\ db.version > 0 => db.objs # UpTo(db.version)
    /\ db.version # NoVersion /\ db.objs # {}

\* "the Service upgrades the database to the newest revision when it starts"
\* (README.md:61): no start is refused.
EveryStartSucceeds == stage # "refused"

\* Not so: a file of before Alembic is given "the full current schema"
\* (profiler_service/db.py:42).  The indexes of the tables and columns it
\* had, and of the tables whose creation was cut short, stay missing.
FullSchema == stage = "up" => db.objs = Schema
=============================================================================
