------------------------------ MODULE Executor ------------------------------
(***************************************************************************)
(* PlanExecutor::execute and the `aqueduct apply` around it, for the runs  *)
(* of one project: the lock row and its heartbeat, the migration row and   *)
(* its checkpoint, the compensation log, --resume, --force-retry,          *)
(* --force-skip, `aqueduct unlock --force`, crashes and failing SQL.       *)
(*                                                                         *)
(* A Run is one invocation of the CLI: it starts at most once, and the     *)
(* holder string it writes into the lock row is its own.  Every action is  *)
(* one SQL statement (each commits by itself) or one local decision;       *)
(* other runs, heartbeats and faults interleave between any two of them.   *)
(***************************************************************************)
EXTENDS PlanPromises, FiniteSets

CONSTANTS Run,            \* the invocations of the CLI
          NoRun,          \* nobody
          PlanFor(_, _),  \* the plan for (desired DAG, live DAG)
          Desired,        \* the DAGs the migration files may describe
          InitialTables,  \* the stream tables before the first run
          InitialPolicies,\* those of them that carry RLS policies
          Invocation,     \* the command lines a run may be started with
          Faults,         \* what may go wrong, see FaultKind
          MaxActive       \* bound: runs alive at the same time

(* "crash": a run dies between two statements.  "sql": a statement whose   *)
(* error the code propagates fails.  "bestEffort": one whose error it      *)
(* ignores fails.  "failover": the primary check after a step fails while  *)
(* the connection still writes (Patroni, a timeout of the check).  "lag":  *)
(* heartbeats stall longer than the TTL.  "noHeartbeat": the heartbeat     *)
(* task cannot connect and returns.  "unlock": `aqueduct unlock --force`.  *)
FaultKind == {"crash", "sql", "bestEffort", "failover", "lag", "noHeartbeat",
              "unlock"}

Invocations == [resume : BOOLEAN, planFile : BOOLEAN,
                forceRetry : Nat \cup {None}, forceSkip : Nat \cup {None}]

ASSUME ExecutorAssumption ==
  /\ NoRun \notin Run
  /\ Desired \subseteq DagState
  /\ InitialTables \in DagState
  /\ InitialPolicies \subseteq Table
  /\ Invocation \subseteq Invocations
  /\ Faults \subseteq FaultKind

ASSUME PlanAssumption ==
  \A desired \in Desired, live \in DagState : WellFormed(PlanFor(desired, live))

ASSUME SwitchAssumption ==
  \A desired \in Desired, live \in DagState : SwitchesApart(PlanFor(desired, live))

(* No option counts no step, and "does not exist" is not a spec.           *)
ASSUME NothingAssumption == None \notin Nat /\ Absent \notin TableSpec

-----------------------------------------------------------------------------
VARIABLES
  run,        \* per run: where it is and its local variables
  lock,       \* the row of aqueduct.locks
  migrations, \* aqueduct.migrations, by id
  ddlLog,     \* the compensation rows of aqueduct.ddl_log, by id
  tables,     \* pgtrickle.pgt_stream_tables
  owned,      \* aqueduct.stream_table_ownership of this project
  policies,   \* tables that carry RLS policies
  paused,     \* pgtrickle.paused_nodes
  versions,   \* aqueduct.dag_versions
  unlocking,  \* the holder `aqueduct unlock` has shown the operator
  evicted     \* history: runs that lost the lease while they relied on it

catalog == <<migrations, ddlLog, versions>>
pgtrickle == <<tables, policies, paused>>
vars == <<run, lock, catalog, pgtrickle, owned, unlocking, evicted>>

PC == {"idle", "find", "pending", "compensate", "mark", "start", "head",
       "exec", "pause", "ddl", "complete", "own", "progress", "check",
       "release", "unpause", "finish", "ended"}

Outcome == {"none", "ok", "failed", "interrupted", "nochange", "error", "crashed"}

RunState == [pc : PC, args : Invocations, desired : DagState, plan : Seq(Step),
             step : Nat, migration : Nat, resumeFrom : Nat, pending : SUBSET Nat,
             locked : BOOLEAN, schedulerPaused : BOOLEAN, heartbeat : BOOLEAN,
             lockLost : BOOLEAN, policyCache : SUBSET Table, outcome : Outcome]

MigrationRow == [status : {"running", "committed", "recoverable_failure",
                           "interrupted"},
                 progress : Nat, plan : Seq(Step)]

DdlRow == [migration : Nat, table : Table,
           op : {"CREATE_STREAM_TABLE", "DROP_STREAM_TABLE",
                 "RECREATE_POLICY_FAILED"},
           status : {"running", "completed", "compensated"}]

NoLock == [holder |-> NoRun, expired |-> FALSE]

TypeOK ==
  /\ run \in [Run -> RunState]
  /\ lock \in [holder : Run \cup {NoRun}, expired : BOOLEAN]
  /\ migrations \in Seq(MigrationRow)
  /\ ddlLog \in Seq(DdlRow)
  /\ tables \in DagState
  /\ owned \subseteq Table
  /\ policies \subseteq Table
  /\ paused \subseteq Table
  /\ versions \in Seq(DagState)
  /\ unlocking \in Run \cup {NoRun}
  /\ evicted \subseteq Run

IdleRun ==
  [pc |-> "idle",
   args |-> [resume |-> FALSE, planFile |-> FALSE,
             forceRetry |-> None, forceSkip |-> None],
   desired |-> EmptyDag, plan |-> <<>>, step |-> 0, migration |-> 0,
   resumeFrom |-> 0, pending |-> {}, locked |-> FALSE,
   schedulerPaused |-> FALSE, heartbeat |-> FALSE, lockLost |-> FALSE,
   policyCache |-> {}, outcome |-> "none"]

(* The process is gone, and with it everything it held in memory.          *)
Exited(outcome) == [IdleRun EXCEPT !.pc = "ended", !.outcome = outcome]

Init ==
  /\ run = [r \in Run |-> IdleRun]
  /\ lock = NoLock
  /\ migrations = <<>>
  /\ ddlLog = <<>>
  /\ tables = InitialTables
  /\ owned = Existing(InitialTables)
  /\ policies = InitialPolicies
  /\ paused = {}
  /\ versions = <<InitialTables>>
  /\ unlocking = NoRun
  /\ evicted = {}

-----------------------------------------------------------------------------
(* The SQL of catalog.rs that several actions read or write.               *)

(* Each definition below that a plausible slip would break is preceded by  *)
(* its mutated form, which only the mutants of PROJECT.json put in place.  *)

(* Mutated: ON CONFLICT DO UPDATE without its WHERE; with DO NOTHING.      *)
LockAvailableAlways == TRUE
LockAvailableWhenFree == lock.holder = NoRun

(* ACQUIRE_LOCK_SQL takes a free row, or one whose TTL has passed.         *)
LockAvailable == lock.holder = NoRun \/ lock.expired

(* Mutated: DELETE without the holder; a release that never happens.       *)
LockDeleted(r) == NoLock
LockKept(r) == lock

(* RELEASE_LOCK_SQL deletes the row of this holder only.                   *)
LockWithout(r) == IF lock.holder = r THEN NoLock ELSE lock

(* History: whoever relied on the row that is being taken away.            *)
Evict == evicted \cup {r \in Run : r = lock.holder /\ run[r].locked}

(* ORDER BY ... DESC LIMIT 1: at most one element, none of an empty set.   *)
Latest(ids) == {i \in ids : \A j \in ids : j <= i}

(* GET_RUNNING_OR_RECOVERABLE_MIGRATION_SQL.                               *)
Resumable == {"running", "recoverable_failure"}

LatestUnfinished ==
  Latest({m \in DOMAIN migrations : migrations[m].status \in Resumable})

(* Mutated: off by one.                                                    *)
ResumePointPlusOne(m) == migrations[m].progress + 2

(* find_resume_step resumes after the step the checkpoint names; an empty  *)
(* progress object counts as 0.                                            *)
ResumePoint(m) == migrations[m].progress + 1

(* GET_PENDING_COMPENSATING_STEPS_SQL.                                     *)
PendingSteps(m) ==
  {i \in DOMAIN ddlLog : ddlLog[i].migration = m /\ ddlLog[i].status = "running"}

(* Mutated: the completion is never recorded.                              *)
NeverCompletedLog(m, t) == ddlLog

(* COMPLETE_COMPENSATING_STEP_SQL: every running row of this table.        *)
CompletedLog(m, t) ==
  [i \in DOMAIN ddlLog |->
     IF i \in PendingSteps(m) /\ ddlLog[i].table = t
     THEN [ddlLog[i] EXCEPT !.status = "completed"] ELSE ddlLog[i]]

(* read_live_state: the registry joined with this project's ownership.     *)
LiveTables == [t \in Table |-> IF t \in owned THEN tables[t] ELSE Absent]

-----------------------------------------------------------------------------
(* Control.                                                                *)

At(r, pc) == run[r].pc = pc

Goto(r, pc) == run' = [run EXCEPT ![r].pc = pc]

(* The error leaves the step loop for the release of the lock.             *)
Fail(r, outcome) ==
  run' = [run EXCEPT ![r].pc = "release", ![r].outcome = outcome]

CurrentStep(r) == run[r].plan[run[r].step + 1]

AtStep(r, pc, op) ==
  /\ run[r].pc = pc
  /\ run[r].step < Len(run[r].plan)
  /\ CurrentStep(r).op = op

Alive == {r \in Run : run[r].pc \notin {"idle", "ended"}}

BestEffortFails == "bestEffort" \in Faults

-----------------------------------------------------------------------------
(* apply.rs: read the live state, plan, maybe prompt.  Nothing here holds  *)
(* the lock, so the plan may be stale when the lock is taken.  With --plan *)
(* the plan was computed from the tables the first run found.              *)
Begin(r) ==
  /\ At(r, "idle")
  /\ Cardinality(Alive) < MaxActive
  /\ \E args \in Invocation, desired \in Desired :
       LET plan == PlanFor(desired, IF args.planFile THEN InitialTables ELSE LiveTables)
       IN run' = [run EXCEPT ![r] =
            IF NoChanges(plan) THEN Exited("nochange")
            ELSE [IdleRun EXCEPT !.args = args, !.desired = desired, !.plan = plan,
                                 !.pc = IF args.resume THEN "find" ELSE "start"]]
  /\ UNCHANGED <<lock, catalog, pgtrickle, owned, unlocking, evicted>>

(* find_resume_step, first query: the migration to resume and where.       *)
FindResumeStep(r) ==
  /\ At(r, "find")
  /\ \/ LatestUnfinished = {} /\ Goto(r, "start")
     \/ \E m \in LatestUnfinished :
          run' = [run EXCEPT ![r].pc = "pending", ![r].migration = m,
                             ![r].resumeFrom = ResumePoint(m)]
  /\ UNCHANGED <<lock, catalog, pgtrickle, owned, unlocking, evicted>>

(* Second query: the DDL of that migration that never reported completion. *)
FindPendingSteps(r) ==
  /\ At(r, "pending")
  /\ run' = [run EXCEPT ![r].pc = "compensate",
                         ![r].pending = PendingSteps(run[r].migration)]
  /\ UNCHANGED <<lock, catalog, pgtrickle, owned, unlocking, evicted>>

(* The compensating SQL of the newest pending row.  That of a create drops *)
(* the table; that of the others is an SQL comment.  No lock is held.      *)
Compensate(r) ==
  /\ At(r, "compensate")
  /\ \E i \in Latest(run[r].pending) :
       \/ /\ ddlLog[i].op = "CREATE_STREAM_TABLE"
          /\ tables' = DropTable(tables, ddlLog[i].table)
          /\ policies' = policies \ {ddlLog[i].table}
       \/ /\ ddlLog[i].op # "CREATE_STREAM_TABLE" \/ BestEffortFails
          /\ UNCHANGED <<tables, policies>>
  /\ Goto(r, "mark")
  /\ UNCHANGED <<lock, catalog, paused, owned, unlocking, evicted>>

MarkCompensated(r) ==
  /\ At(r, "mark")
  /\ \E i \in Latest(run[r].pending) :
       /\ \/ ddlLog' = [ddlLog EXCEPT ![i].status = "compensated"]
          \/ BestEffortFails /\ UNCHANGED ddlLog
       /\ run' = [run EXCEPT ![r].pc = "compensate", ![r].pending = @ \ {i}]
  /\ UNCHANGED <<lock, migrations, versions, pgtrickle, owned, unlocking, evicted>>

AllCompensated(r) ==
  /\ At(r, "compensate")
  /\ run[r].pending = {}
  /\ Goto(r, "start")
  /\ UNCHANGED <<lock, catalog, pgtrickle, owned, unlocking, evicted>>

NewMigration(r) ==
  Append(migrations, [status |-> "running", progress |-> 0, plan |-> run[r].plan])

(* execute: reuse the newest unfinished row (queried again) when resuming, *)
(* else insert one; then spawn the heartbeat and enter the step loop.      *)
Reused(r) ==
  IF run[r].args.resume /\ run[r].resumeFrom > 0 THEN LatestUnfinished ELSE {}

EnterLoop(r, m) ==
  \E beats \in {TRUE} \cup (IF "noHeartbeat" \in Faults THEN {FALSE} ELSE {}) :
    run' = [run EXCEPT ![r].pc = "head", ![r].migration = m, ![r].heartbeat = beats]

StartMigration(r) ==
  /\ At(r, "start")
  /\ \/ \E m \in Reused(r) : EnterLoop(r, m) /\ UNCHANGED migrations
     \/ /\ Reused(r) = {}
        /\ EnterLoop(r, Len(migrations) + 1)
        /\ migrations' = NewMigration(r)
  /\ UNCHANGED <<lock, ddlLog, versions, pgtrickle, owned, unlocking, evicted>>

(* A query before the step loop fails: execute returns at once.            *)
StartupFails(r) ==
  /\ "sql" \in Faults
  /\ run[r].pc \in {"find", "pending", "start"}
  /\ run' = [run EXCEPT ![r] = Exited("error")]
  /\ UNCHANGED <<lock, catalog, pgtrickle, owned, unlocking, evicted>>

-----------------------------------------------------------------------------
(* run_steps: the head of the loop.                                        *)

(* LockDag is executed on every run; --force-retry executes its step even  *)
(* below the resume point.                                                 *)
AlreadyDone(r) ==
  /\ CurrentStep(r).op # "LockDag"
  /\ run[r].args.forceRetry # run[r].step
  /\ run[r].step < run[r].resumeFrom

Skips(r) == run[r].args.forceSkip = run[r].step \/ AlreadyDone(r)

(* Mutated: `continue` without the increment.                              *)
SkippedStepStays(r) == IF Skips(r) THEN run[r].step ELSE run[r].step + 1

StepAfter(r) == run[r].step + 1

NextStep(r) ==
  /\ At(r, "head")
  /\ IF run[r].step = Len(run[r].plan)
     THEN Fail(r, "ok")
     ELSE IF Skips(r) THEN run' = [run EXCEPT ![r].step = StepAfter(r)]
     ELSE IF run[r].lockLost THEN Fail(r, "failed")
     ELSE Goto(r, "exec")
  /\ UNCHANGED <<lock, catalog, pgtrickle, owned, unlocking, evicted>>

(* A statement whose error is propagated by the step fails.                *)
StepFails(r) ==
  /\ "sql" \in Faults
  /\ \/ run[r].pc \in {"pause", "ddl", "progress"}
     \/ \E op \in {"LockDag", "RunHook", "ValidateQuery", "WaitForRefresh",
                    "AlterStreamTable", "RecordSnapshot"} : AtStep(r, "exec", op)
  /\ Fail(r, "failed")
  /\ UNCHANGED <<lock, catalog, pgtrickle, owned, unlocking, evicted>>

(* Mutated: nobody looks at whether the upsert returned a row.             *)
ContentionIgnored(r) == Goto(r, "progress")

ReportContention(r) == Fail(r, "failed")

(* LockDag: take the lock, or report contention; then pause the scheduler. *)
AcquireLock(r) ==
  /\ AtStep(r, "exec", "LockDag")
  /\ IF LockAvailable
     THEN /\ lock' = [holder |-> r, expired |-> FALSE]
          /\ evicted' = Evict \ {r}
          /\ run' = [run EXCEPT
                ![r].locked = TRUE,
                ![r].pc = IF AffectedNodes(run[r].plan) = {} THEN "progress"
                          ELSE "pause"]
     ELSE /\ ReportContention(r)
          /\ UNCHANGED <<lock, evicted>>
  /\ UNCHANGED <<catalog, pgtrickle, owned, unlocking>>

PauseScheduler(r) ==
  /\ At(r, "pause")
  /\ paused' = paused \cup AffectedNodes(run[r].plan)
  /\ run' = [run EXCEPT ![r].pc = "progress", ![r].schedulerPaused = TRUE]
  /\ UNCHANGED <<lock, catalog, tables, policies, owned, unlocking, evicted>>

(* WaitForRefresh polls until the table is idle, RunHook executes the       *)
(* user's statement; the deadline and an error are among StepFails.         *)
WaitsAndHooks == {"WaitForRefresh", "RunHook"}

(* The steps that leave the modelled state alone.                          *)
PassiveStep(r) ==
  /\ \E op \in WaitsAndHooks \cup {"ValidateQuery", "Backfill", "DetachOutbox",
                                   "ManageWalSlot"} : AtStep(r, "exec", op)
  /\ Goto(r, "progress")
  /\ UNCHANGED <<lock, catalog, pgtrickle, owned, unlocking, evicted>>

(* CreateStreamTable and DropStreamTable: log how to undo it, do it, mark  *)
(* the log row, record who owns the table.                                 *)
LogRow(r, op) ==
  [migration |-> run[r].migration, table |-> CurrentStep(r).table, op |-> op,
   status |-> "running"]

Logged(r, op) ==
  \/ ddlLog' = Append(ddlLog, LogRow(r, op))
  \/ BestEffortFails /\ UNCHANGED ddlLog

LogCreate(r) ==
  /\ AtStep(r, "exec", "CreateStreamTable")
  /\ Logged(r, "CREATE_STREAM_TABLE")
  /\ Goto(r, "ddl")
  /\ UNCHANGED <<lock, migrations, versions, pgtrickle, owned, unlocking, evicted>>

(* The drop first reads the table's policies into the run's own memory.    *)
LogDrop(r) ==
  /\ AtStep(r, "exec", "DropStreamTable")
  /\ Logged(r, "DROP_STREAM_TABLE")
  /\ run' = [run EXCEPT ![r].pc = "ddl",
        ![r].policyCache = @ \cup ({CurrentStep(r).table} \cap policies)]
  /\ UNCHANGED <<lock, migrations, versions, pgtrickle, owned, unlocking, evicted>>

CreateStreamTable(r) ==
  /\ AtStep(r, "ddl", "CreateStreamTable")
  /\ tables' = CreateTable(tables, CurrentStep(r).table, CurrentStep(r).args)
  /\ Goto(r, "complete")
  /\ UNCHANGED <<lock, catalog, policies, paused, owned, unlocking, evicted>>

DropStreamTable(r) ==
  /\ AtStep(r, "ddl", "DropStreamTable")
  /\ tables' = DropTable(tables, CurrentStep(r).table)
  /\ policies' = policies \ {CurrentStep(r).table}
  /\ Goto(r, "complete")
  /\ UNCHANGED <<lock, catalog, paused, owned, unlocking, evicted>>

CompleteLog(r) ==
  /\ At(r, "complete")
  /\ \/ ddlLog' = CompletedLog(run[r].migration, CurrentStep(r).table)
     \/ BestEffortFails /\ UNCHANGED ddlLog
  /\ Goto(r, "own")
  /\ UNCHANGED <<lock, migrations, versions, pgtrickle, owned, unlocking, evicted>>

RecordOwnership(r) ==
  /\ At(r, "own")
  /\ \/ /\ CurrentStep(r).op = "CreateStreamTable"
        /\ owned' = owned \cup {CurrentStep(r).table}
     \/ /\ CurrentStep(r).op = "DropStreamTable"
        /\ owned' = owned \ {CurrentStep(r).table}
     \/ BestEffortFails /\ UNCHANGED owned
  /\ Goto(r, "progress")
  /\ UNCHANGED <<lock, catalog, pgtrickle, unlocking, evicted>>

(* PauseImmediate and ResumeImmediate: alter_stream_table with the other    *)
(* mode and nothing else, its error is ignored.                            *)
SwitchesMode(r) ==
  \E op \in {"PauseImmediate", "ResumeImmediate"} : AtStep(r, "exec", op)

AlterStreamTable(r) ==
  /\ AtStep(r, "exec", "AlterStreamTable") \/ SwitchesMode(r)
  /\ \/ tables' = AlterTable(tables, CurrentStep(r).table, CurrentStep(r).args)
     \/ BestEffortFails /\ SwitchesMode(r) /\ UNCHANGED tables
  /\ Goto(r, "progress")
  /\ UNCHANGED <<lock, catalog, policies, paused, owned, unlocking, evicted>>

(* RecreatePolicy restores what this run's drop read; after a restart the  *)
(* cache is empty and the step does nothing.  A policy that cannot be      *)
(* created is logged among the DDL to compensate, and the run goes on.     *)
RecreatePolicy(r) ==
  /\ AtStep(r, "exec", "RecreatePolicy")
  /\ LET t == CurrentStep(r).table IN
     \/ t \notin run[r].policyCache /\ UNCHANGED <<policies, ddlLog>>
     \/ /\ t \in run[r].policyCache /\ tables[t] # Absent /\ t \notin policies
        /\ policies' = policies \cup {t}
        /\ UNCHANGED ddlLog
     \/ /\ t \in run[r].policyCache
        /\ tables[t] = Absent \/ t \in policies \/ BestEffortFails
        /\ Logged(r, "RECREATE_POLICY_FAILED")
        /\ UNCHANGED policies
  /\ Goto(r, "progress")
  /\ UNCHANGED <<lock, migrations, versions, tables, paused, owned, unlocking, evicted>>

RecordSnapshot(r) ==
  /\ AtStep(r, "exec", "RecordSnapshot")
  /\ versions' = Append(versions, run[r].desired)
  /\ Goto(r, "progress")
  /\ UNCHANGED <<lock, migrations, ddlLog, pgtrickle, owned, unlocking, evicted>>

Released(r) == lock' = LockWithout(r) \/ (BestEffortFails /\ UNCHANGED lock)

UnlockDag(r) ==
  /\ AtStep(r, "exec", "UnlockDag")
  /\ IF run[r].locked THEN Released(r) ELSE UNCHANGED lock
  /\ run' = [run EXCEPT ![r].locked = FALSE, ![r].pc = "progress"]
  /\ UNCHANGED <<catalog, pgtrickle, owned, unlocking, evicted>>

(* Mutated: the checkpoint names the next step, not the completed one.     *)
CheckpointedNextStep(r) == run[r].step + 1

(* The checkpoint: fatal when it fails, and always the current index, even *)
(* for the LockDag that a resumed run executes again.                      *)
CheckpointedStep(r) == run[r].step

SaveProgress(r) ==
  /\ At(r, "progress")
  /\ migrations' = [migrations EXCEPT
                      ![run[r].migration].progress = CheckpointedStep(r)]
  /\ Goto(r, "check")
  /\ UNCHANGED <<lock, ddlLog, versions, pgtrickle, owned, unlocking, evicted>>

(* check_still_primary and check_patroni_primary: a server that was demoted, *)
(* or an endpoint that does not answer, is noticed after any step.         *)
Demoted == "failover" \in Faults

(* After each step: has the heartbeat lost the lock; is this the primary?  *)
CheckAfterStep(r) ==
  /\ At(r, "check")
  /\ \/ run[r].lockLost /\ Fail(r, "failed")
     \/ ~run[r].lockLost /\ Demoted /\ Fail(r, "interrupted")
     \/ /\ ~run[r].lockLost
        /\ run' = [run EXCEPT ![r].pc = "head", ![r].step = StepAfter(r)]
  /\ UNCHANGED <<lock, catalog, pgtrickle, owned, unlocking, evicted>>

-----------------------------------------------------------------------------
(* The way out, after success and after an error alike: release the lock,  *)
(* resume the scheduler, stop the heartbeat, write the outcome.            *)
ReleaseLock(r) ==
  /\ At(r, "release")
  /\ IF run[r].locked THEN Released(r) ELSE UNCHANGED lock
  /\ run' = [run EXCEPT ![r].locked = FALSE, ![r].pc = "unpause"]
  /\ UNCHANGED <<catalog, pgtrickle, owned, unlocking, evicted>>

(* Mutated: the scheduler is resumed on the success path only.             *)
ResumedNodesOnSuccess(r) ==
  IF run[r].schedulerPaused /\ run[r].outcome = "ok"
  THEN AffectedNodes(run[r].plan) ELSE {}

ResumedNodes(r) ==
  IF run[r].schedulerPaused THEN AffectedNodes(run[r].plan) ELSE {}

ResumeScheduler(r) ==
  /\ At(r, "unpause")
  /\ \/ paused' = paused \ ResumedNodes(r)
     \/ BestEffortFails /\ UNCHANGED paused
  /\ run' = [run EXCEPT ![r].pc = "finish", ![r].schedulerPaused = FALSE,
                         ![r].heartbeat = FALSE]
  /\ UNCHANGED <<lock, catalog, tables, policies, owned, unlocking, evicted>>

(* Mutated: a status the catalog does not know.                            *)
FinishedRowUnknown(row, outcome) == [row EXCEPT !.status = outcome]

(* Only a committed migration loses its progress.                          *)
FinishedRow(row, outcome) ==
  CASE outcome = "ok"          -> [row EXCEPT !.status = "committed", !.progress = 0]
    [] outcome = "failed"      -> [row EXCEPT !.status = "recoverable_failure"]
    [] outcome = "interrupted" -> [row EXCEPT !.status = "interrupted"]

FinishMigration(r) ==
  /\ At(r, "finish")
  /\ \/ migrations' = [migrations EXCEPT
            ![run[r].migration] = FinishedRow(@, run[r].outcome)]
     \/ BestEffortFails /\ UNCHANGED migrations
  /\ run' = [run EXCEPT ![r] = Exited(@.outcome)]
  /\ UNCHANGED <<lock, ddlLog, versions, pgtrickle, owned, unlocking, evicted>>

-----------------------------------------------------------------------------
(* What happens around the statements of a run.                            *)

(* run_heartbeat: HEARTBEAT_LOCK_SQL renews the row of this holder, lapsed *)
(* or not; when there is none it signals the loss and stops.               *)
Heartbeat(r) ==
  /\ run[r].heartbeat
  /\ IF lock.holder = r
     THEN /\ lock' = [lock EXCEPT !.expired = FALSE]
          /\ UNCHANGED run
     ELSE /\ run' = [run EXCEPT ![r].lockLost = TRUE, ![r].heartbeat = FALSE]
          /\ UNCHANGED lock
  /\ UNCHANGED <<catalog, pgtrickle, owned, unlocking, evicted>>

(* The TTL passes without a renewal: nobody renews, or the renewals stall. *)
LockExpires ==
  /\ lock.holder # NoRun
  /\ ~lock.expired
  /\ run[lock.holder].heartbeat => "lag" \in Faults
  /\ lock' = [lock EXCEPT !.expired = TRUE]
  /\ UNCHANGED <<run, catalog, pgtrickle, owned, unlocking, evicted>>

(* `aqueduct unlock`: show the holder, then delete the row of the project, *)
(* whoever holds it by then.                                               *)
ShowLock ==
  /\ "unlock" \in Faults
  /\ unlocking = NoRun /\ lock.holder # NoRun
  /\ unlocking' = lock.holder
  /\ UNCHANGED <<run, lock, catalog, pgtrickle, owned, evicted>>

ForceUnlock ==
  /\ unlocking # NoRun
  /\ lock' = NoLock
  /\ evicted' = Evict
  /\ unlocking' = NoRun
  /\ UNCHANGED <<run, catalog, pgtrickle, owned>>

(* The process dies, or its connection does: the rows stay as they are.    *)
Crash(r) ==
  /\ "crash" \in Faults
  /\ r \in Alive
  /\ run' = [run EXCEPT ![r] = Exited("crashed")]
  /\ UNCHANGED <<lock, catalog, pgtrickle, owned, unlocking, evicted>>

-----------------------------------------------------------------------------
Resume(r) ==
  \/ FindResumeStep(r) \/ FindPendingSteps(r) \/ Compensate(r)
  \/ MarkCompensated(r) \/ AllCompensated(r)

StepBody(r) ==
  \/ AcquireLock(r) \/ PauseScheduler(r) \/ PassiveStep(r)
  \/ LogCreate(r) \/ CreateStreamTable(r) \/ LogDrop(r) \/ DropStreamTable(r)
  \/ CompleteLog(r) \/ RecordOwnership(r) \/ AlterStreamTable(r)
  \/ RecreatePolicy(r) \/ RecordSnapshot(r) \/ UnlockDag(r)

Cleanup(r) == ReleaseLock(r) \/ ResumeScheduler(r) \/ FinishMigration(r)

(* What an alive run does by itself, faults apart.                         *)
Advance(r) ==
  \/ Resume(r) \/ StartMigration(r) \/ NextStep(r) \/ StepBody(r)
  \/ SaveProgress(r) \/ CheckAfterStep(r) \/ Cleanup(r)

Next ==
  \/ \E r \in Run : \/ Begin(r) \/ Advance(r) \/ Heartbeat(r)
                    \/ StartupFails(r) \/ StepFails(r) \/ Crash(r)
  \/ LockExpires \/ ShowLock \/ ForceUnlock

Spec == Init /\ [][Next]_vars

(* The tokio runtime keeps polling an alive run, and time passes.          *)
Fairness == WF_vars(LockExpires) /\ \A r \in Run : WF_vars(Advance(r))

FairSpec == Spec /\ Fairness

=============================================================================
