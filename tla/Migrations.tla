----------------------------- MODULE Migrations -----------------------------
(***************************************************************************)
(* `alembic upgrade head`: the revisions, and runs of it that are started  *)
(* side by side and may die half way.                                      *)
(*                                                                         *)
(* PostgreSQL is external: DDL is part of a transaction; of two            *)
(* transactions that create one object the second waits for the first, and *)
(* fails when that has committed.                                          *)
(***************************************************************************)
EXTENDS Sequences

CONSTANT Migrators   \* who runs the migrations

VARIABLES
  objects,    \* the tables and the added columns that are committed
  version,    \* the row of alembic_version
  migration   \* each migrator's run: what is left to do, what it has made

schemaVars == <<objects, version, migration>>

Base    == "base"
Initial == "83f4c5c96a60"
Newest  == "597e81696da4"
Versions == {Base, Initial, Newest}

Tables  == {"users", "api_keys", "webhook_endpoints", "webhook_delivery_logs"}
Columns == {"users.full_name"}

\* Slip: the logs are created before the endpoints they refer to.
CreatesUnordered(revision) ==
  IF revision = Initial
    THEN <<"users", "api_keys", "webhook_delivery_logs", "webhook_endpoints">>
    ELSE <<"users.full_name">>

\* What upgrade() of a revision creates, in order.
Creates(revision) ==
  IF revision = Initial
    THEN <<"users", "api_keys", "webhook_endpoints", "webhook_delivery_logs">>
    ELSE <<"users.full_name">>

\* What a foreign key, or an ALTER TABLE, refers to.
Needs(object) ==
  CASE object = "users"                 -> {}
    [] object = "webhook_delivery_logs" -> {"webhook_endpoints"}
    [] OTHER                            -> {"users"}

ObjectsAt(v) == CASE v = Base    -> {}
                  [] v = Initial -> Tables
                  [] v = Newest  -> Tables \cup Columns

\* Slip: what the database has is not looked at.
PlanFromBase(v) == Creates(Initial) \o Creates(Newest)

\* The statements from a version to the head, by down_revision.
Plan(v) == CASE v = Base    -> Creates(Initial) \o Creates(Newest)
             [] v = Initial -> Creates(Newest)
             [] v = Newest  -> <<>>

NoRun == [pc |-> "idle", plan |-> <<>>, made |-> {}]

MigrationsInit ==
  /\ version \in {Base, Initial}
  /\ objects = ObjectsAt(version)
  /\ migration = [m \in Migrators |-> NoRun]

\* run_migrations_online: connect, read the version, begin the transaction.
BeginMigration(m) ==
  /\ migration[m].pc = "idle"
  /\ migration' = [migration EXCEPT ![m] =
                     [pc |-> "running", plan |-> Plan(version), made |-> {}]]
  /\ UNCHANGED <<objects, version>>

Running(m) == migration[m].pc = "running"

Possible(m, object) ==
  object \notin objects /\ Needs(object) \subseteq objects \cup migration[m].made

\* Slip: every statement is a transaction of its own.
StatementCommits(m) ==
  /\ Running(m) /\ migration[m].plan # <<>>
  /\ LET object == Head(migration[m].plan) IN
       IF Possible(m, object)
         THEN /\ migration' = [migration EXCEPT ![m].plan = Tail(@)]
              /\ objects' = objects \cup {object}
         ELSE /\ migration' = [migration EXCEPT ![m] = [NoRun EXCEPT !.pc = "failed"]]
              /\ UNCHANGED objects
  /\ UNCHANGED version

\* What a statement makes of its run: one that fails rolls it back.
RunAfter(m, object) ==
  IF Possible(m, object)
    THEN [migration[m] EXCEPT !.plan = Tail(@), !.made = @ \cup {object}]
    ELSE [NoRun EXCEPT !.pc = "failed"]

\* The next statement, which waits while another transaction has made the same and
\* has not ended.
Statement(m) ==
  /\ Running(m) /\ migration[m].plan # <<>>
  /\ LET object == Head(migration[m].plan) IN
       /\ \A n \in Migrators : n # m => object \notin migration[n].made
       /\ migration' = [migration EXCEPT ![m] = RunAfter(m, object)]
  /\ UNCHANGED <<objects, version>>

\* The transaction of all revisions ends, with the version.
CommitMigration(m) ==
  /\ Running(m) /\ migration[m].plan = <<>>
  /\ objects' = objects \cup migration[m].made
  /\ version' = Newest
  /\ migration' = [migration EXCEPT ![m] = [NoRun EXCEPT !.pc = "done"]]

MigrationStep(m) == Statement(m) \/ CommitMigration(m)

MigrationsType ==
  /\ version \in Versions /\ objects \subseteq Tables \cup Columns
  /\ \A m \in Migrators :
       /\ migration[m].pc \in {"idle", "running", "failed", "done"}
       /\ migration[m].made \subseteq Tables \cup Columns
       /\ migration[m].plan \in Seq(Tables \cup Columns)
=============================================================================
