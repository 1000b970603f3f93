------------------------------ MODULE Service -------------------------------
(***************************************************************************)
(* The containers: the API migrates the database and serves, is started    *)
(* again whenever it stops, and loses its requests with the process; the   *)
(* database comes and goes under both.                                     *)
(***************************************************************************)
EXTENDS Migrations, Connections

CONSTANTS
  Api,         \* the migrator that is the start of the API container
  MaxFaults    \* bound: deaths of the process and outages of the database

ASSUME ServiceAssumption == Api \in Migrators /\ MaxFaults \in Nat

VARIABLES
  api,      \* the API container
  faults    \* what has gone wrong so far

vars == <<schemaVars, poolVars, api, faults>>

Init ==
  /\ MigrationsInit /\ ConnectionsInit
  /\ api = "down"
  /\ faults = 0

\* A run of `alembic upgrade head` by hand or by CI.
Migrate(m) ==
  /\ m # Api /\ db = "up"
  /\ BeginMigration(m)
  /\ UNCHANGED <<poolVars, api, faults>>

\* restart: unless-stopped.  A start without the database ends in itself.
StartApi ==
  /\ api = "down" /\ db = "up"
  /\ api' = "migrating"
  /\ BeginMigration(Api)
  /\ UNCHANGED <<poolVars, faults>>

\* Slip: `alembic upgrade head ; uvicorn`.
ServeAnyway ==
  /\ api = "migrating" /\ migration[Api].pc \in {"done", "failed"}
  /\ api' = "serving"
  /\ migration' = [migration EXCEPT ![Api] = NoRun]
  /\ UNCHANGED <<objects, version, poolVars, faults>>

\* `alembic upgrade head && uvicorn`
Serve ==
  /\ api = "migrating" /\ migration[Api].pc = "done"
  /\ api' = "serving"
  /\ migration' = [migration EXCEPT ![Api] = NoRun]
  /\ UNCHANGED <<objects, version, poolVars, faults>>

MigrationFailed ==
  /\ api = "migrating" /\ migration[Api].pc = "failed"
  /\ api' = "down"
  /\ migration' = [migration EXCEPT ![Api] = NoRun]
  /\ UNCHANGED <<objects, version, poolVars, faults>>

MigrationSteps(m) ==
  MigrationStep(m) /\ UNCHANGED <<poolVars, api, faults>>

Fault == faults < MaxFaults /\ faults' = faults + 1

ApiDies ==
  /\ Fault /\ api # "down"
  /\ api' = "down"
  /\ migration' = [migration EXCEPT ![Api] = NoRun]
  /\ RequestsDropped
  /\ UNCHANGED <<objects, version>>

\* The transactions of the migrations are rolled back.
DatabaseFails ==
  /\ Fault
  /\ DatabaseStops
  /\ migration' = [m \in Migrators |->
       IF Running(m) THEN [NoRun EXCEPT !.pc = "failed"] ELSE migration[m]]
  /\ UNCHANGED <<objects, version, api>>

DatabaseReturns == DatabaseStarts /\ UNCHANGED <<schemaVars, api, faults>>

Handle(r) ==
  /\ api = "serving"
  /\ RequestProgress(r)
  /\ UNCHANGED <<schemaVars, api, faults>>

Next ==
  \/ StartApi \/ Serve \/ MigrationFailed \/ ApiDies \/ DatabaseFails \/ DatabaseReturns
  \/ \E m \in Migrators : Migrate(m) \/ MigrationSteps(m)
  \/ \E r \in Requests : \/ Handle(r)
                         \/ /\ api = "serving" /\ (Send(r) \/ PoolTimeout(r))
                            /\ UNCHANGED <<schemaVars, api, faults>>

Spec == Init /\ [][Next]_vars

\* The containers are started again, a run of the migrations that has begun goes on,
\* and so does a request.  Nothing has to time out.
Fairness ==
  /\ WF_vars(StartApi) /\ WF_vars(Serve) /\ WF_vars(MigrationFailed)
  /\ WF_vars(DatabaseReturns)
  /\ \A m \in Migrators : WF_vars(MigrationSteps(m))
  /\ \A r \in Requests : WF_vars(Handle(r))

FairSpec == Spec /\ Fairness

----------------------------------------------------------------------------
(* Properties *)

\* Every variable has its type.
TypeOK ==
  /\ MigrationsType /\ ConnectionsType
  /\ api \in {"down", "migrating", "serving"} /\ faults \in 0..MaxFaults

\* Whoever migrates and whatever dies on the way, the database has exactly the
\* objects of the version it says it has.
SchemaIsARevision == objects = ObjectsAt(version)

\* No request meets a database that is not at the head.
ServesOnlyAtHead ==
  /\ api = "serving" => version = Newest
  /\ \A r \in Requests : Active(r) => version = Newest

\* When faults come to an end the API serves, and goes on serving.
EventuallyServes == <>[](api = "serving")

\* No request waits for ever for what another one holds: each is answered, without
\* the help of a time-out, or lost with its process.
EveryRequestAnswered == \A r \in Requests : Active(r) ~> Ended(r)
=============================================================================
