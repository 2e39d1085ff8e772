-------------------------- MODULE CatalogMigration --------------------------
(***************************************************************************)
(* The catalog schema over the releases: `aqueduct init` installs the      *)
(* current one in a single batch, and the commands that change a database  *)
(* first bring an older one up to date, a batch per version.               *)
(* Several commands may do so at the same time: nobody takes a lock, the   *)
(* version is read once, and each batch is a transaction of its own.       *)
(***************************************************************************)
EXTENDS Integers, FiniteSets

CONSTANTS Command,    \* the commands that may be started
          Installed   \* the versions the catalog may be at: 0 is no catalog

CATALOG_SCHEMA_VERSION == 9

ASSUME InstalledAssumption == Installed \subseteq 0 .. CATALOG_SCHEMA_VERSION

VARIABLES version,      \* the row catalog_schema_version, 0 without a schema
          objects,      \* the tables, columns, indexes and views that exist
          statusCheck,  \* the statuses aqueduct.migrations admits
          statuses,     \* those its rows have
          cmd           \* the commands

vars == <<version, objects, statusCheck, statuses, cmd>>

-----------------------------------------------------------------------------
(* catalog.rs: what each batch adds, which objects its statements need, and *)
(* the status check it puts in place ({}: it leaves the check alone).      *)

WithRecoverable ==
  {"running", "committed", "failed", "rolled_back", "recoverable_failure"}

WithInterrupted == WithRecoverable \cup {"interrupted"}

InitV1 == [adds |-> {"dag_versions", "migrations", "locks", "cluster_profile"},
           needs |-> {}, check |-> WithRecoverable]

MigrateV1ToV2 == [adds  |-> {"ddl_log", "consumer_views", "blue_green_deployments"},
                  needs |-> {"dag_versions"}, check |-> {}]

MigrateV2ToV3 == [adds  |-> {"stream_table_ownership"},
                  needs |-> {"migrations"}, check |-> WithRecoverable]

MigrateV3ToV4 == [adds  |-> {"indexes"},
                  needs |-> {"dag_versions", "migrations", "locks"}, check |-> {}]

MigrateV4ToV5 == [adds  |-> {"migration_steps"},
                  needs |-> {"migrations"}, check |-> {}]

MigrateV5ToV6 == [adds  |-> {"scheduler_state"}, needs |-> {}, check |-> {}]

MigrateV6ToV7 == [adds  |-> {"ddl_log.migration_id", "deployments.rolled_back_at"},
                  needs |-> {"ddl_log", "blue_green_deployments", "migrations"},
                  check |-> {}]

(* Mutated: the check is put in place as batch 3 has it.                   *)
MigrateV7ToV8Narrow == [adds  |-> {"migration_history"},
                        needs |-> {"migrations", "dag_versions", "migration_steps"},
                        check |-> WithRecoverable]

MigrateV7ToV8 == [adds  |-> {"migration_history"},
                  needs |-> {"migrations", "dag_versions", "migration_steps"},
                  check |-> WithInterrupted]

MigrateV8ToV9 == [adds  |-> {"ddl_log.status"},
                  needs |-> {"ddl_log", "ddl_log.migration_id"}, check |-> {}]

Batch(k) ==
  CASE k = 1 -> InitV1        [] k = 2 -> MigrateV1ToV2 [] k = 3 -> MigrateV2ToV3
    [] k = 4 -> MigrateV3ToV4 [] k = 5 -> MigrateV4ToV5 [] k = 6 -> MigrateV5ToV6
    [] k = 7 -> MigrateV6ToV7 [] k = 8 -> MigrateV7ToV8 [] k = 9 -> MigrateV8ToV9

(* What a release at version v leaves behind, its batches run in order.    *)
InstalledObjects(v) == UNION {Batch(k).adds : k \in 1 .. v}

(* The tables, columns and the view of CATALOG_INIT_V5_SQL.  The table for *)
(* the mock scheduler is not among them.                                   *)
InitObjects ==
  {"dag_versions", "migrations", "locks", "cluster_profile", "ddl_log",
   "consumer_views", "blue_green_deployments", "stream_table_ownership",
   "indexes", "migration_steps", "ddl_log.migration_id",
   "deployments.rolled_back_at", "migration_history", "ddl_log.status"}

-----------------------------------------------------------------------------
At(c, pc) == cmd[c].pc = pc

Go(c, pc) == cmd' = [cmd EXCEPT ![c].pc = pc]

(* Between the read of the version and the last batch.                     *)
Upgrading(c) == At(c, "read") \/ At(c, "batch")

Idle == [pc |-> "idle", next |-> 1, alone |-> TRUE]

Init ==
  \E v \in Installed :
    /\ version = v
    /\ objects = InstalledObjects(v)
    /\ statusCheck = CASE v = 0 -> {} [] v \in 1 .. 7 -> WithRecoverable
                       [] OTHER -> WithInterrupted
    /\ statuses \in SUBSET (statusCheck \cap {"recoverable_failure", "interrupted"})
    /\ cmd = [c \in Command |-> Idle]

-----------------------------------------------------------------------------
(* init.rs: CATALOG_INIT_V5_SQL in one batch.  Tables that exist are kept  *)
(* as they are, so on a catalog of versions 2 to 8 the index on the new    *)
(* columns of ddl_log fails and with it everything; on version 1 the batch *)
(* adds the tables and keeps the version, ON CONFLICT DO NOTHING.          *)

InitFails == "ddl_log" \in objects /\ ~ ({"ddl_log.migration_id", "ddl_log.status"} \subseteq objects)

VersionAfterInit == IF version = 0 THEN CATALOG_SCHEMA_VERSION ELSE version

KeptColumns ==
  IF "blue_green_deployments" \in objects /\ "deployments.rolled_back_at" \notin objects
  THEN {"deployments.rolled_back_at"} ELSE {}

InstallCatalog(c) ==
  /\ At(c, "idle")
  /\ Go(c, "ended")
  /\ IF InitFails
     THEN UNCHANGED <<version, objects, statusCheck>>
     ELSE /\ version' = VersionAfterInit
          /\ objects' = objects \cup (InitObjects \ KeptColumns)
          /\ statusCheck' = IF "migrations" \in objects THEN statusCheck
                            ELSE WithInterrupted
  /\ UNCHANGED statuses

-----------------------------------------------------------------------------
(* ensure_catalog_current.                                                 *)

(* CATALOG_EXISTS_SQL: without the schema there is nothing to upgrade.     *)
FindSchema(c) ==
  /\ At(c, "idle")
  /\ Go(c, IF version = 0 THEN "ended" ELSE "read")
  /\ UNCHANGED <<version, objects, statusCheck, statuses>>

(* CATALOG_VERSION_SQL.  From here on every upgrade that overlaps with     *)
(* this one is no longer alone (a history variable).                       *)
ReadVersion(c) ==
  /\ At(c, "read")
  /\ cmd' = [d \in Command |->
       IF d = c
       THEN [pc    |-> IF version < CATALOG_SCHEMA_VERSION THEN "batch" ELSE "work",
             next  |-> version + 1,
             alone |-> \A e \in Command \ {c} : ~At(e, "batch")]
       ELSE IF At(d, "batch") THEN [cmd[d] EXCEPT !.alone = FALSE] ELSE cmd[d]]
  /\ UNCHANGED <<version, objects, statusCheck, statuses>>

(* The statements of the next batch can be executed on what is there.      *)
BatchApplies(batch) ==
  /\ batch.needs \subseteq objects
  /\ batch.check # {} => statuses \subseteq batch.check

(* Mutated: the ladder of ensure_catalog_current lacks the rung to 3.      *)
NextAfterSkipping(k) == IF k = 2 THEN 4 ELSE k + 1

NextAfter(k) == k + 1

(* Mutated: the last statement of batch 4 writes 5.                        *)
RecordedVersionAhead(k) == IF k = 4 THEN 5 ELSE k

RecordedVersion(k) == k

RunBatch(c) ==
  LET k == cmd[c].next IN
  /\ At(c, "batch")
  /\ BatchApplies(Batch(k))
  /\ objects' = objects \cup Batch(k).adds
  /\ statusCheck' = IF Batch(k).check = {} THEN statusCheck ELSE Batch(k).check
  /\ version' = RecordedVersion(k)
  /\ cmd' = [cmd EXCEPT
       ![c].next = NextAfter(k),
       ![c].pc = IF NextAfter(k) > CATALOG_SCHEMA_VERSION THEN "work" ELSE @]
  /\ UNCHANGED statuses

(* A batch is refused, or fails for any other reason, and is rolled back   *)
(* whole; or the command dies between two batches.                         *)
Stop(c) ==
  /\ Upgrading(c)
  /\ Go(c, "stopped")
  /\ UNCHANGED <<version, objects, statusCheck, statuses>>

-----------------------------------------------------------------------------
(* The command proper.  It may mark a migration of its own as interrupted, *)
(* MARK_MIGRATION_INTERRUPTED_SQL, whose error is ignored.                 *)
Work(c) ==
  /\ At(c, "work")
  /\ Go(c, "ended")
  /\ statuses' \in {statuses, statuses \cup ({"interrupted"} \cap statusCheck)}
  /\ UNCHANGED <<version, objects, statusCheck>>

Next ==
  \E c \in Command :
    \/ InstallCatalog(c)
    \/ FindSchema(c)
    \/ ReadVersion(c)
    \/ RunBatch(c)
    \/ Stop(c)
    \/ Work(c)

Spec == Init /\ [][Next]_vars

-----------------------------------------------------------------------------
(* The version is one of a release's, and the objects are those of some    *)
(* release, whichever batches of whichever commands were interleaved.      *)
TypeOK ==
  /\ version \in 0 .. CATALOG_SCHEMA_VERSION
  /\ objects \subseteq InstalledObjects(CATALOG_SCHEMA_VERSION)
  /\ statusCheck \in {{}, WithRecoverable, WithInterrupted}
  /\ statuses \subseteq {"recoverable_failure", "interrupted"}
  /\ cmd \in [Command -> [pc : {"idle", "read", "batch", "work", "ended", "stopped"},
                          next : 1 .. CATALOG_SCHEMA_VERSION + 1, alone : BOOLEAN]]

(* The objects the commands rely on at version v: all but the table of the *)
(* mock scheduler, which only the tests use.                               *)
Provides(v) == UNION {Batch(k).adds : k \in (1 .. v) \ {6}}

(* The version row never promises more than the schema holds, whoever      *)
(* upgrades beside whom and wherever one of them dies: a later command     *)
(* relies on the row and skips the batches up to it.                       *)
VersionMeansObjects == Provides(version) \subseteq objects

(* "Every command that opens a database connection should call this before *)
(* doing anything else" (catalog.rs:781): a command at work finds every    *)
(* table and column of the current release.                                *)
WorksOnCurrentCatalog ==
  \A c \in Command : At(c, "work") => Provides(CATALOG_SCHEMA_VERSION) \subseteq objects

(* No upgrade is under way, and none died beside another one: its batch 3  *)
(* may have narrowed the check, or set the version back, behind the        *)
(* other's batch 8.                                                        *)
Settled ==
  \A c \in Command : ~Upgrading(c) /\ (At(c, "stopped") => cmd[c].alone)

(* The check of batch 3 does not outlive an upgrade: once the row says 9   *)
(* migrations can be marked as interrupted.                                *)
CurrentAdmitsInterrupted ==
  Settled /\ version = CATALOG_SCHEMA_VERSION => "interrupted" \in statusCheck

(* A crash between two batches never wedges the catalog: the next command  *)
(* starts at the version row, and its first batch can be executed on the   *)
(* objects and the rows that are there.                                    *)
LadderContinues ==
  Settled /\ version \in 1 .. CATALOG_SCHEMA_VERSION - 1 => BatchApplies(Batch(version + 1))

=============================================================================
