----------------------------- MODULE Migrations -----------------------------
(***************************************************************************)
(* `alembic upgrade` and `alembic downgrade` over the revisions of Schema, *)
(* as apps/api/migrations/env.py runs them: one transaction for the whole  *)
(* command, one statement after the other, and the ORM models used against *)
(* the schema that results.                                                *)
(***************************************************************************)
EXTENDS Models

VARIABLES
  base,       \* what is committed: the revision in alembic_version and the schema
  work,       \* the same inside the command's transaction
  command     \* what alembic is at: its state, the target, the next statement

migrationVars == <<base, work, command>>

NoCommand == [state |-> "none", target |-> 0, at |-> 0]
Running   == command.state = "running"

(* The statements of the revision at hand, and the revision they lead to. *)
Upwards    == work.revision < command.target
Statements == IF Upwards THEN upgrade[work.revision + 1] ELSE downgrade[work.revision]
Reached    == IF Upwards THEN work.revision + 1 ELSE work.revision - 1

MigrationInit ==
  /\ base = [revision |-> 0, schema |-> EmptySchema]
  /\ work = base
  /\ command = NoCommand

(* env.py: connect and begin the transaction. *)
RunMigrations(r) ==
  /\ command = NoCommand
  /\ r # base.revision
  /\ work' = base
  /\ command' = [state |-> "running", target |-> r, at |-> 1]
  /\ UNCHANGED base

Execute ==
  /\ Running
  /\ work.revision # command.target
  /\ command.at <= Len(Statements)
  /\ LET s == Statements[command.at] IN
       IF Applies(work.schema, s)
         THEN /\ work' = [work EXCEPT !.schema = Apply(@, s)]
              /\ command' = [command EXCEPT !.at = @ + 1]
         ELSE work' = base /\ command' = [command EXCEPT !.state = "failed"]    \* the error rolls all of it back
  /\ UNCHANGED base

(* The revision is done: Alembic updates alembic_version. *)
Stamp ==
  /\ Running
  /\ work.revision # command.target
  /\ command.at > Len(Statements)
  /\ work' = [work EXCEPT !.revision = Reached]
  /\ command' = [command EXCEPT !.at = 1]
  /\ UNCHANGED base

CommitMigration ==
  /\ Running
  /\ work.revision = command.target
  /\ base' = work
  /\ command' = NoCommand
  /\ UNCHANGED work

(* The process is killed, or loses the database. *)
CrashMigration ==
  /\ Running
  /\ work' = base
  /\ command' = NoCommand
  /\ UNCHANGED base

MigrationNext ==
  \/ \E r \in 0..HeadRevision : RunMigrations(r)
  \/ Execute \/ Stamp \/ CommitMigration \/ CrashMigration

MigrationSpec == MigrationInit /\ [][MigrationNext]_migrationVars

-----------------------------------------------------------------------------
MigrationTypeOK ==
  /\ base.revision \in 0..HeadRevision /\ work.revision \in 0..HeadRevision
  /\ DOMAIN base.schema.tables \subseteq DOMAIN metadata
  /\ command \in [state : {"none", "running", "failed"}, target : 0..HeadRevision, at : 0..20]

(* No order of upgrades, downgrades and crashes makes a statement fail, a  *)
(* downgrade takes back all of its upgrade and nothing else, and so the    *)
(* revision on record always says which schema there is (db/base.py:       *)
(* "migrations *reversible*").                                             *)
RevisionTellsSchema ==
  /\ command.state # "failed"
  /\ base.schema = SchemaAt[base.revision]

(* A table with a tenant_id lets its rows be seen by one tenant only,      *)
(* references are to tables that are there, and a column that a delete     *)
(* sets to NULL takes NULL.                                                *)
Sound(db) ==
  \A n \in Tables(db) : LET t == db.tables[n] IN
    /\ "tenant_id" \in Columns(t) => /\ t.rls = {"enabled", "forced", "policy"}
                                     /\ t.fks["tenant_id"] = <<"tenants", "CASCADE">>
    /\ References(db, n) \subseteq Tables(db)
    /\ \A c \in DOMAIN t.fks : t.fks[c][2] = "SET NULL" => c \in t.free

(* A model can live on a table: of the columns that the table has (which   *)
(* of the model's it lacks is for NoDrift) every INSERT gives what the     *)
(* table needs, no column is there that the model does not know, NULL goes *)
(* only where it may, a key is of the same kind on both sides, and what    *)
(* the model believes unique is.                                           *)
LivesOn(m, t) ==
  /\ t.needed \subseteq m.needed
  /\ Columns(t) \subseteq Columns(m)
  /\ m.free \subseteq t.free
  /\ m.filled \cap Columns(t) \subseteq t.filled
  /\ m.fks = t.fks
  /\ m.uniques \subseteq t.uniques

(* At every revision the tables are sound, and at head every model lives   *)
(* on its own.                                                             *)
HeadServesModels ==
  /\ Sound(base.schema)
  /\ base.revision = HeadRevision =>
       /\ Tables(base.schema) = DOMAIN metadata
       /\ \A n \in DOMAIN metadata : LivesOn(metadata[n], base.schema.tables[n])

(* The schema is that of its revision, and at head that of the models.     *)
SchemaKept == RevisionTellsSchema /\ HeadServesModels

(* "the build fails" on "a drift between ORM metadata and the head revision" *)
(* (docs/dev/migrations.md): every label that a model can store passes the   *)
(* check of its column, every column that a model reads is there, and a      *)
(* table has the unique sets its model has, and no others.                   *)
LabelsPass ==
  \A n \in DOMAIN metadata : \A c \in DOMAIN metadata[n].labels :
    metadata[n].labels[c] \subseteq base.schema.tables[n].checks[c]

ColumnsExist ==
  \A n \in DOMAIN metadata : Columns(metadata[n]) \subseteq Columns(base.schema.tables[n])

UniquesAgree == \A n \in DOMAIN metadata : metadata[n].uniques = base.schema.tables[n].uniques

NoDrift == base.revision = HeadRevision => LabelsPass /\ ColumnsExist /\ UniquesAgree
=============================================================================
