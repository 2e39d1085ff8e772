# Verification of pg-aqueduct

pg-aqueduct migrates the *stream tables* of a PostgreSQL database (tables that
the extension pg_trickle keeps up to date from a query). A user edits migration
files; `aqueduct apply` reads what the database holds, plans the difference and
executes the plan one SQL statement at a time, with a lock row, a checkpoint and
a compensation log in a catalog schema `aqueduct`, so that an interrupted apply
can be resumed with `--resume`.

This directory holds TLA+ modules of that program, TLC configurations that check
them on small instances, and TLAPS proofs about them. `PROJECT.json` lists the
runs, the mutated definitions that show each property can fail, the source lines
every definition stands for, the disagreements found, and the hazards.

    tlc -workers 2 -config serial_resume.cfg MCExecutor    # one run
    tlapm ExecutorProofs.tla                                # one module of proofs

Paths below are relative to `src/`; `executor.rs`, `catalog.rs`, `plan.rs` and
so on are in `crates/aqueduct-core/src`.

## 1. Inventory

### The parts, their state and what makes them correct

| component | source | state it keeps | operations | correct when |
|---|---|---|---|---|
| plan executor | executor.rs | in memory: position in the plan, `locked`, `scheduler_paused`, `resume_from`, the policy cache, the heartbeat's lock-lost flag | execute a plan, resume one, compensate, clean up | only the lock's owner changes tables; a checkpoint never runs ahead of the tables; a resumed plan ends where an undisturbed one would; nothing is left locked or paused |
| catalog | catalog.rs | the tables `locks`, `migrations`, `ddl_log`, `dag_versions`, `stream_table_ownership`, `consumer_views`, `blue_green_deployments`, `catalog_schema_version` | the SQL texts | a lock row has one owner; a status is one that `--resume` understands; versions belong to a project |
| lock lease | catalog.rs:690-745, executor.rs:1686-1789 | one row per project, its TTL; a heartbeat task | acquire, renew, release, expire, `aqueduct unlock` | exclusion unless evicted; available again after the TTL |
| apply, unlock | commands/apply.rs, unlock.rs | none | read, plan, check the window, prompt, execute; delete a lock row | an apply without changes does nothing; rebuilds begin in the maintenance window; unlock deletes the row it showed |
| planner | plan.rs | none (a function) | deltas to steps, diamond promotion, cascades of sources, consumer views, order | the plan brings the desired tables, in an executable order, and planning again settles; readers are rebuilt over the sources they read |
| diff, classifier | diff.rs, classifier.rs | none | compare specs; free / in place / rebuild | never less disruptive than the change requires |
| DAG | dag.rs | specs and dependencies | topological order, inference of dependencies | dependencies first, cycles rejected |
| live state | live_state.rs | none | read the registry joined with the ownership | sees exactly this project's tables |
| pg_trickle | external; crates/aqueduct-testkit mocks it | `pgt_stream_tables`, `paused_nodes` | create, alter, drop, pause, resume | (environment) |
| HA detection | ha.rs | none | `check_still_primary` | a failover is noticed before the next step |
| rollback, promote | commands/rollback.rs, promote.rs | none | plan against a recorded version or another environment | the target is a version of the project, brought back exactly; no rows are lost without a flag |
| destroy | destroy.rs | none | drop a project's tables and rows | complete, and limited to the project; does not race an apply |
| previews | preview.rs | a schema per branch, or a branch or cluster of the backend | create, list, drop | a preview reads and writes its own schema only, and is that of the files |
| blue/green | executor.rs:984-1222, plan.rs:1186-1338 | a deployment row, views | converge, swap, retire | a run that ends well has switched all its views, and to converged tables; the row says so; a resumed deployment is finished |
| sources, consumer views | diff.rs:299-360, plan.rs:667-729 and 1093-1156, executor.rs:1224-1316 | base tables, views, `consumer_views` | execute changed DDL, rebuild the readers; replace and drop views | readers match their sources, views and rows match the files |
| catalog upgrades, init | catalog.rs:788-876, init.rs | `catalog_schema_version` | install; eight upgrade batches | the version promises no more than is there, also when commands upgrade side by side |
| secrets; ingest, import; parser, fmt, lint, validate; config; cost, renderer, diagnostics; read-only commands | see PROJECT.json | none, or files | text in, text out; reports | unit-testable |

### How they interact

`apply` reads the live state, computes the plan, perhaps asks the operator, and
only then calls `PlanExecutor::execute`. With `--resume` the executor first looks
for the newest unfinished migration, computes from its checkpoint the step to go
on from, and undoes DDL that was logged but not completed; all of it without the
lock. It then inserts (or reuses) the migration row, spawns the heartbeat and
walks the steps. `LockDag` takes the lock and pauses the scheduler; `UnlockDag`
gives the lock back. Whatever happens, the way out releases the lock if it is
still held, resumes the scheduler if it was paused, stops the heartbeat and
writes the migration's status. Every statement commits by itself: there is no
transaction around a step. Other runs, their heartbeats and `aqueduct unlock`
share the catalog and interleave anywhere. The only message between tasks is the
heartbeat's watch channel, which the run reads before and after a step.

apply, promote, rollback and destroy first bring the catalog up to date
(`ensure_catalog_current`), without a lock. `promote` and `rollback` end in the same
executor with another target: the files of another environment, the spec of a
recorded version. `destroy` executes statements of its own and takes no lock.
Projects share one database, the sequence of version numbers, and the names of the
tables; what belongs to whom is a row of `stream_table_ownership`. Previews touch the catalog
not at all: they share production's relations and, by their sanitised names, schemas.

### What is hard about it

* A run may die between any two statements, and the statements of one step (log
  the DDL, do it, complete the log, record the ownership, checkpoint) leave
  states in between that the next run must understand.
* The lock is a lease. A run whose heartbeat stalls, or whose row an operator
  deleted, goes on until the next look at the flag.
* Statements outside the lock: the whole resume preamble, the plan itself, and
  the scheduler's resume after the release.
* The plan of a resumed run need not be the plan that was interrupted.
* The clean-up ignores errors, so each of its effects may be missing.
* The planner is deterministic except for one iteration over a HashMap, and its
  output is the executor's input: planning after an apply must converge.
* "Live" is not always the database: sources are compared with the last recorded
  version, views with a registry whose rows are written best effort.
* Commands upgrade the catalog side by side, each from the version it has read.
* Names are shared: between projects, between schemas, between branches.

`PROJECT.json` lists the hazards one by one at their lines.

## 2. The modules

| module | what it is |
|---|---|
| `PlanTypes` | specs, DAG states, plan steps, the effect of pg_trickle's functions on the registry |
| `Planner` | diff, classification, topological order, diamond promotion and `build_plan_with_options` (default strategy), as operators |
| `PlanPromises` | what those who execute a plan expect of it; the planner's keeping it is proved in `ReplanProofs` |
| `Replan`, `MCReplan` | a project over time: files are edited, applies succeed, files with a cycle are refused; planner properties |
| `LeaseLock` | the abstract lease: what the lock row promises |
| `Executor` | the executor, the lock row, the heartbeat, the resume, the clean-up, crashes and failing SQL |
| `ExecutorProps` | its properties, the refinement to `LeaseLock`, the inductive invariant |
| `MCExecutor` | instances for TLC; takes `BuildPlan` of `Planner` as the executor's plans |
| `BlueGreen`, `MCBlueGreen` | the plan of `--strategy blue-green`, its steps in the executor, the views, the deployment row |
| `CatalogMigration`, `MCCatalog` | commands that install or upgrade the catalog side by side |
| `Cascades`, `MCCascades` | one project's base tables, stream tables and consumer views, from apply to apply, for any planner; `MCCascades` instantiates it with `Planner` |
| `Commands`, `MCCommands` | apply, promote, rollback and destroy of several sessions and projects in one database, for any planner; `MCCommands` instantiates it with `Planner` |
| `Previews`, `MCPreviews` | the preview schemas of branches, native backend |
| `ExecutorProofs`, `CheckpointProofs` | the proofs about the executor: types, the lease, exclusion and the pause; the checkpoint and convergence |
| `BlueGreenProofs`, `CascadeProofs`, `CatalogProofs`, `CommandProofs`, `PreviewProofs`, `ReplanProofs` | the proofs about the modules of these names |

`Replan`, `MCExecutor`, `MCCascades` and `MCCommands` compose the planner with an executor:
in full detail (statement by statement, with lock, resume and log) in `MCExecutor`, step by
step where the property is about what a sequence of commands adds up to. `Executor`,
`Cascades` and `Commands` take the planner as a parameter, `PlanFor`, and state as
assumptions what they need of its plans (`PlanAssumption`, `SwitchAssumption`,
`PlannerAssumption`), in the terms of `PlanPromises`: their proofs then hold for any planner
that does this, `ReplanProofs` proves that the translation of plan.rs does (17 in section 4),
and TLC evaluates the assumptions on the states of each run.

### Planner and Replan and the code

`Planner` is a translation of pure functions and keeps their names. A DAG maps every table to
its spec or to `Absent`; the orders of lists in the code are constants (`FileOrder`,
`NameOrder`), the order of the HashMap an argument.

| definitions | code |
|---|---|
| `DeltaKind`, `ClassifyChange`, `ClassifyDelta`, `ClassifyQueryChange` | diff.rs:243-394, classifier.rs:50-222 |
| `Upstream`, `Visit`, `TopologicalSort`, `Sortable` | dag.rs:380-432: the queue of Kahn's algorithm, a round at a time, and the count that detects a cycle |
| `OrderDeltas` | plan.rs:1340-1361 |
| `DiamondGroup`, `PromoteGroup`, `Promoted` | plan.rs:394-469 |
| `CreateSteps`, `DropSteps`, `RebuildSteps`, `MetadataArgs`, `QueryArgs`, `StepsFor`, `BuildPlan` | plan.rs:731-1083, the steps of one delta, and 1087-1181 |
| `Edit`, `Apply`, `Ran`, `After` | apply.rs:126-187 (at 137 a cycle ends the command), executor.rs:677-694 with every step succeeding |

A degree that reaches zero is, in the model, `Upstream(dag, t) \subseteq` the sorted tables:
the code counts an edge down when its source is sorted, each once. Recursion is written as
recursive functions over numbers, so that the planner can be reasoned about.

### Executor and the code

`run[r]` is one invocation of the CLI; its fields are the locals of `execute` and
`run_steps` (`step` is `step_idx`, `migration` is `migration_id`, `resumeFrom`,
`locked`, `schedulerPaused`, `policyCache`; `lockLost` is the watch channel). `lock`
is the row of `aqueduct.locks` with its TTL reduced to one bit, `expired`.
`migrations`, `ddlLog` and `versions` are the tables of these names, indexed by
their serial ids; `tables`, `policies` and `paused` belong to pg_trickle and
PostgreSQL, `owned` is the ownership table. `unlocking` is the holder that
`aqueduct unlock` has shown, and `evicted` is a history variable.

An action is one SQL statement or one local decision:

| actions | code |
|---|---|
| `Begin` | apply.rs:126-187 read, plan; exit without changes |
| `FindResumeStep`, `FindPendingSteps`, `Compensate`, `MarkCompensated`, `AllCompensated` | `find_resume_step`, executor.rs:519-597 |
| `StartMigration` | executor.rs:396-435, insert or reuse the migration row, spawn the heartbeat |
| `NextStep` | the head of the loop, executor.rs:677-700: end, force-skip, resume-skip, lock lost |
| `AcquireLock`, `PauseScheduler` | the arm of LockDag, with `acquire_lock` |
| `LogCreate`/`LogDrop`, `CreateStreamTable`/`DropStreamTable`, `CompleteLog`, `RecordOwnership` | the arms of the two DDL steps, a statement at a time |
| `AlterStreamTable`, `RecreatePolicy`, `RecordSnapshot`, `UnlockDag`, `PassiveStep` | the other arms |
| `SaveProgress`, `CheckAfterStep` | checkpoint, lock-lost check, primary check, executor.rs:1605-1630 |
| `ReleaseLock`, `ResumeScheduler`, `FinishMigration` | the way out, executor.rs:1634-1671 and 440-516 |
| `Heartbeat`, `LockExpires` | `run_heartbeat`; the TTL passing |
| `WaitsAndHooks`, `SwitchesMode`, `Demoted` | (operators) the waits and hooks among the passive steps, the switch of an IMMEDIATE table's mode, `check_still_primary` in ha.rs: with "failover" among the faults the node turns out to be demoted |
| `ShowLock`, `ForceUnlock` | unlock.rs |
| `StartupFails`, `StepFails`, `Crash` | errors that are propagated; the process dying |

Statements whose error the code ignores fail only where `"bestEffort"` is among
the `Faults` of an instance; those whose error it propagates where `"sql"` is.

What the model assumes: pg_trickle is installed with the capabilities
`probe_pgtrickle_capabilities` looks for, `pause_scheduler` among them; each run
writes its own holder string; one project; a `--plan` file was computed from
`InitialTables`; a create succeeds even when a table it reads is missing (so more
can happen than in the program). A run that stops at the prompt, in a closed
maintenance window or as a dry run never begins.

### BlueGreen and the code

The executor above leaves out the steps of a blue/green plan; `BlueGreen` has
these, in an executor without lock and scheduler: one run is alive at a time
(the lock is proved elsewhere, and the tables of such a plan are not among the
nodes that LockDag pauses, executor.rs:645-659), and runs follow each other,
crash, fail and are resumed.

`run` holds the locals of `run_steps`, `run.deployment` being
`active_bg_deployment_id` and `run.outcome` what they return; `migrations` and `deployments` are the tables of the
catalog; `green[v]` is the schema `<project>__v<v>`; `public[t]` is what the name
`public.<t>` stands for: nothing, the stream table, or a view of a green
schema. `swap` is the open transaction of SwapConsumerViews: what it has replaced
and whether a failed statement has aborted it. `lostSwaps` is a history variable:
the migrations whose COMMIT rolled back without saying so.

| actions | code |
|---|---|
| `Apply`, `ResumeApply` | apply.rs:126-187, executor.rs:394-444 and 523-594 |
| `Changed`, `Opening`, `Closing`, `OpAt` | `build_blue_green_plan`, plan.rs:1186-1338 |
| `StartBlueGreenDeployment`, `CreateStreamTableInGreen`, `WaitForConvergence`, `ConvergenceTimesOut`, `RetireBlueSchema` | the arms of these names, executor.rs:984-1222 |
| `BeginSwap`, `ReplaceView`, `NameIsTaken`, `MarkSwapped`, `CommitSwap` | SwapConsumerViews a statement at a time, executor.rs:1116-1191 |
| `SaveProgress` | the checkpoint and the check of the primary after every step, executor.rs:1609-1631; the checks of the lock are in `Executor` |
| `FinishMigration`, `OutcomeOf` | `committed`, `recoverable_failure`, or `interrupted` for a run whose primary was demoted, executor.rs:446-521; each write is best effort |
| `StatementFails`, `Crash` | as in `Executor` |
| `TableConverges` | pg_trickle: `refresh_status` is no longer `running` |

Assumed: pg_trickle has `refresh_status` (otherwise the wait is skipped,
executor.rs:1056); a resumed run is given the plan file of the run it resumes;
the view's columns stay compatible with those of the view it replaces;
queries are not empty; no managed consumers and no hooks.

### CatalogMigration and the code

`version` is the row of `catalog_schema_version`, `objects` the tables, columns,
indexes and the view that exist, `statusCheck` the CHECK constraint on
`migrations.status`, `statuses` what its rows hold. A batch (`InitV1`, `MigrateV1ToV2` ...
`MigrateV8ToV9`) is what it adds, what its statements need to be there, and the check it
puts in place; each is a batch of SQL that PostgreSQL executes as a whole.

| actions | code |
|---|---|
| `InstallCatalog` | init.rs with `CATALOG_INIT_V5_SQL`, on no catalog or on one of any release |
| `FindSchema`, `ReadVersion`, `RunBatch` | `ensure_catalog_current`, catalog.rs:788-876 |
| `Stop` | a batch fails, or the command dies between two batches |
| `Work` | the command proper; it may mark a migration as interrupted |

The upgrading commands are apply, promote, rollback and destroy (`connect_and_migrate`,
commands/mod.rs:160). unlock, import, diff and a dry run connect without it.

### Cascades and the code

One run at a time plans and executes its steps one by one; any step may fail. `base` is
what the base tables are, `recorded` what the last recorded version says they are (the
planner's "live"), `views` what PostgreSQL has and `registry` the table `consumer_views`. The
plan (`FullPlan`) is a set of steps that carry their places: the lock, then each changed
source with its cascade, then what `PlanFor` gives for the other tables, the views, the
snapshot and the unlock; of two steps the one whose place comes first (`Precedes`) is
executed first, and the step to execute is the one that is `Due`. Kept are the steps that
change something here; a step in between, a validation or a backfill, can only fail, and
then the run ends as it does when the next one fails. The switch of an IMMEDIATE table's
mode around its rebuild is in `Executor`.

| definitions | code |
|---|---|
| `SourceChanged`, `Impacted`, `ConsumerChanged`, `ConsumerDropped` | diff.rs:299-464 |
| `SourceSteps`, `CascadeRebuild`, `LiveElsewhere`, `ConsumerSteps`, `FullPlan` | plan.rs:636-766, 1087-1181 |
| `AlterBaseTable`, `ReplaceView`, `DropView`, `Register` | executor.rs:754-757, 1224-1316 |
| `TableStep`, `RecordSnapshot`, `LockOrUnlock`, `StepFails` | the steps as in `Executor`, each as one action |
| `Refused` | PostgreSQL: a create over a relation that does not exist, a drop under a view |

`over`, `lost`, `strays` and `torn` are history variables: over which DDL a table was created; the
views of which a registry statement went missing; `strays`, the views of which the last step
on them left a row under another name than the step's; the sources a failed run had changed
before the files were edited again.

### Commands and the code

A command is a record with the steps it has left (`todo`): `PlanFiles`, `PlanRollback` and
`PlanDestroy` read the database and decide, `Begin` is the start of the executor
(maintenance window, migration row), `LockDag`, `TableStep`, `RecordSnapshot` and
`UnlockDag` execute, `Fail` and `Crash` end it. What a step does to the tables is the
`Effect` of `PlanTypes`, which `Replan` uses as well. The statements of destroy (destroy.rs:171-330) are
actions of their own, and ignore their errors. `live`, `owner`, `versions`, `migrations` and
`lock` are shared by all projects; `LiveOf(p)` is what `read_live_state` finds. `Targets`,
`RollbackAllowed` are rollback.rs, `InWindow` config.rs:107-199, `PlanAgainstLive`
promote.rs. `undisturbed` is a history variable: nobody has changed anything this command is
about since it read the database. The lock here has no TTL; a row whose run has died is
free, which is what `LeaseRecovers` of the detailed executor says becomes of it.

### Previews and the code

A relation is a pair of schema and name. A query is what its FROM and JOIN clauses name
(`from`), what CTEs and subqueries elsewhere name (`nested`), and what
`@aqueduct:depends_on` declares. `Inferred` and `DependsOn` are dag.rs:286-376,
`CollectSubgraph` preview.rs:98-147, `Rewrite` preview.rs:336-420. The statements a
`create_preview_native` has left are a set (`Statements`) with the order the code executes
them in (`Precedes`): the schema, the sources in any order, the tables as the files are
loaded; `At(s, x)` holds of the one that is due. `DropSchema`, `CreateSchema`,
`CreateRelation` and `Fail` execute it, `Cleanup` is the drop. The database is the set of
preview schemas and the set of their tables; what a table was made for, from which files and
reading what is kept with it, as data that only the properties read.

## 3. The runs

All numbers are of TLC with two workers.

### Runs that pass

**serial_resume** (1.1 million states). Three runs, one alive at a time, each fresh or
resumed, all with the same plan file: an IMMEDIATE table with policies is rebuilt
and another altered in place, with a pre-hook: the plan has every kind of step of
a rebuild. A run may die or fail at any statement. Shows that the
checkpoint of a resumable migration is never ahead of the tables
(`CheckpointIsDone`), DDL happens with the scheduler paused, and a migration that
ends committed, as well as a recorded version, matches the live tables, whatever
preceded. Three runs allow a crash, a crash of the
resumed run and a completion; a run passes nothing to the next but the catalog.

**contended_applies** (2.3 million states). Two fresh applies of one project
create a table, with crashes, stalled heartbeats, an operator's `unlock --force`
and ignored errors. A run acts without the row only if one of these evicted it
(`LeaseProtectsDdl`), no run touches tables under the owner of the lock
(`TablesChangeUnderLease`), and the row refines `LeaseLock` (`ImplementsLease`): it passes to
another run only when free or past its TTL, and nobody frees another's row.
Two runs are enough for every race on one row: it distinguishes its owner from the others.

**every_run_ends** (339 000 states). Two runs, fresh or with `--resume
--force-retry 2 --force-skip 3`, crashes, failovers, fairness. `RunTerminates`: every apply
ends; `LeaseRecovers`: the row of a dead run becomes available;
`ReleasedUnlessCrashed`, `NoPauseLeak`: runs that end in order, the loser of a contention
and one that meets a demoted primary included, leave neither a lock row nor a paused table.

**replan** (32 940 states: 61 desired DAGs, each with 540 reachable registries). Every edit
of three dependent tables (a root, one that reads it, one that reads both) with changes of
query, columns, schedule, refresh mode and CDC mode, in an order of files opposite to that
of the dependencies; one DAG has a cycle. Cycles are refused and nothing else
(`RefusesCycles`), tables are created on existing tables only, one apply brings the desired
queries, three reach a fixed point, diamonds are promoted. Three tables are the smallest
diamond and the smallest cycle with a way in; four tables and overlapping diamonds are
left to the proofs (16 and 17 in section 4), which cover every number of tables.

**blue_green** (1.6 million states). Three runs over three edits of the files: one new table,
that table changed with a new reader of it, that table together with one that exists. Up to
two faults among a crash, a failover, a failing statement, and a best-effort statement that
fails silently; and the wait for pg_trickle may last too long. `SwapsConverged`,
`RowFollowsViews`, `SuccessIsSwitched`, `DeploymentEnds`. Three runs allow a deployment to
be abandoned or resumed and overtaken, and two runs to share one green schema (a failed run
leaves the version to the next); two faults break a run and its resumption, or the run
between them. `SwapsConverged` excepts one case, which needs all three runs and both faults
(`Overlooked`, see "Met on the way"): without the exception TLC finds it in this run.

**catalog_upgrades** (17 800 states). Three commands, each an `init` or one that upgrades,
meet a catalog of any release from none to the current one, interleave batch by batch and
die anywhere. `VersionMeansObjects`: the version row promises nothing that is missing.
`WorksOnCurrentCatalog`: who is through with the upgrade works on all of the current
release. `CurrentAdmitsInterrupted`, `LadderContinues`: once no upgrade is under way the
status check is the current one, and an interrupted upgrade can be continued; both except an
upgrade that died beside another one (below). Three commands: two that race and one that
finds what they left.

**cascades** (2.8 million states). The files are edited between applies, in any order: two
sources, two tables that read one source each, one of them reading the other; or a view that
changes its body, its schema or its file, goes, or is exposed by two files. One of these has
the name of its view; the other has not, like `c24_orders_view.sql` of cookbook 24, which
exposes `api.orders`. Any statement may fail, a registry statement silently. After a
successful apply the readers of every source were created over its current DDL
(`ReadersFollowSources`), every exposed view is as a file has it (`ViewsFollowFiles`), and no
row with the name of its view outlives it (`NoOrphanRows`). Of other rows the second and the
third are false ("Met on the way"): without `strays`, and for rows of any name, TLC finds so
in this run. Two sources make a plan with two cascades; nothing is bounded but the files.

**commands** (2.7 million states). Four commands of two sessions, interleaved statement by
statement, for two projects that share a table name: applies, promotions, rollbacks to any
version with any flag, and destroys, with an error or a crash and the clock.
`ReachesTarget`: a rollback brings back what its version recorded, an apply what its files
say. `HistoryIsOwn`: no chain of commands records for one project a state of another.
`UnflaggedRollbackKeepsRows`, `RebuildsBeginInWindow` (a window across midnight with an
offset), `DestroyIsComplete`, `DestroyIsScoped`. Four commands are an apply, another, a
rollback to the first, and one that interferes.

**previews** (432 000 states). Two sessions create, rebuild and drop previews of two
branches whose names are sanitised to one schema, with edits of the files in between, of the
whole DAG or the subgraph of a table. `RecreatedIsCurrent`, `PreviewsReadPreviews`,
`FailuresAreExplained`, `SubgraphIsTransitive`. The DAGs hold a chain, a diamond, a file
order against the dependencies, a query over a CTE, a table that production does not have
yet, and an unqualified name that production has as well.

### Runs that find a disagreement

Each checks one property that a comment or a document of the repository states,
and TLC finds a behaviour of the code that violates it. The texts are quoted in
`PROJECT.json`.

| run | what happens |
|---|---|
| resume_replanned | `--resume` without `--plan` plans again, and the step index of the old plan is applied to the new, shorter one: the migration is committed and a table is missing |
| resume_beside_apply | `--resume` compensates before it takes the lock: it drops the table a live apply has just created |
| destroy_beside_apply | destroy never takes the lock: it drops a table the apply that holds it has just created |

### Met on the way

What follows has no run of its own; most of it shows in the models as the case a property
has to except, some (marked *) in the source only.

Executor, lease, resume:

* The lock is released before the scheduler is resumed (executor.rs:1635), so a run may undo its
  successor's pause. `PausedDuringDdl` holds of runs one after another only.
* A migration marked `interrupted`, after a failover, is not among those `--resume` selects
  (catalog.rs:748), though docs/ha-operations.md:196 sends the operator there; worse, an older
  unfinished one is found instead, whose checkpoint covers steps that the interrupted one has
  undone since. With "failover" among its faults `serial_resume` violates `CheckpointIsDone`,
  `CommittedIsLive` (a table stays in its paused refresh mode) and `SnapshotIsLive` this way.
* With statements whose errors are ignored `CheckpointIsDone` is false too: a status that was
  not written makes `--resume` take a migration that is done for one that is not.
* The policies read before a drop live in the memory of the run (executor.rs:673): after a crash
  the rebuilt table has none.*
* A resumed run executes LockDag again and its checkpoint then writes 0 over the
  old progress (catalog.rs:685-687, executor.rs:1611): a second crash before the
  next checkpoint starts from step 1. Repeating steps is harmless for the steps
  modelled, as `serial_resume` shows.
* The heartbeat reports a lost lock also after the run's own UnlockDag, and
  before LockDag when that takes longer than one interval (executor.rs:1766): the
  run then fails though nothing was lost.
* `FINISH_MIGRATION_SQL` is best effort (executor.rs:450-475): a migration that
  did everything may stay `running` and be resumed.

Planner, sources, views:

* tutorial-30min.md:451 calls the plan deterministic; diamonds are promoted in
  the order of a HashMap (plan.rs:403-430).
* README.md:47 counts a schedule change as free; in a diamond with a rebuild it is
  rebuilt with it (plan.rs:394-430, `DiamondsArePromoted`).
* A cascade rebuilds the tables that name the source, in the order of the files
  (plan.rs:698), not in topological order as ROADMAP.md:985-988 has it, and not the tables
  that read those (ROADMAP.md:611-612 says "directly or transitively";
  docs/tutorial-30min.md:422-435 shows it for stream tables). In `Cascades` such a plan is
  `Refused` where PostgreSQL would refuse it.
* A source whose file is edited after a failed run had changed it is compared with the
  recorded version, not the database: put back to what was recorded, it is "unchanged" while
  the base table is not (`torn`).
* A consumer's name is the stem of its file, `expose_as` is free (parser.rs:150-158), but the
  step that drops a view deletes the row of the view's own name (plan.rs:1133,
  executor.rs:1247). The row of cookbook 24's file therefore stays when its view is dropped,
  against the comment CORR-7 (executor.rs:1242), ROADMAP.md:2327-2329 and
  docs/cookbook/25-drop-consumer-view.md:13, "drops the view and removes the entry from
  `aqueduct.consumer_views`". The next plan drops the view again; and when a file exposes it
  again as it was, the diff takes it for unchanged and it is never created. `NoOrphanRows` is
  about rows with the name of their view only, and `ViewsFollowFiles` excepts the views with a
  row left under another name (`strays`).
* Where files do have the names of their views, `strays` stays empty (`NamedViewsLeaveNone`).
  But two schemas may share a name: a file that moves its view from one to the other writes
  its row, and the drop of the old view deletes it, so the next plan creates the view anew.
* A table under a consumer view cannot be dropped: its rebuild fails, its destroy fails
  silently.

Blue/green deployments:

* The update of the deployment row inside the swap transaction ignores its error
  (executor.rs:1171). PostgreSQL has aborted the transaction by then, COMMIT is a
  ROLLBACK without an error, and the run goes on, retires and commits: nothing
  was switched. `SuccessIsSwitched` and `RowFollowsViews` except exactly these
  (`lostSwaps`).
* The first deployment of a changed table in `public`, the default schema, fails at the
  swap: the view to create has the name of the table (executor.rs:1155, `NameIsTaken`).
* A resumed run does not know the id of the row, which stays `active` for ever
  (executor.rs:669; integration.rs:5745-5764 asserts `retired` for an undisturbed run).
* Crash between swap and RecordSnapshot, then an apply of edited files: the next
  version is planned with the same number, so its tables are made in the schema
  the views already read, against tutorial-30min.md:560-563.
* A migration marked `interrupted` is passed over by `--resume` here too (catalog.rs:748): one
  run dies past its wait; the next, of edited files, redefines a table in the same green
  schema and meets a demoted primary before it has waited; `--resume`, which
  docs/ha-operations.md:196 prescribes then, takes the first one's migration and switches the
  views to a table that has not converged, though the swap "does not expose an unfinished
  result" (GLOSSARY.md:275). `SwapsConverged` excepts exactly this (`Overlooked`).
* An abandoned deployment stays the newest unfinished migration after newer ones
  have been committed; `--resume` with its plan file switches the views back.
* Green tables are never registered as owned: a second apply deploys the same
  edit again, and undoing the edit finds "no changes" while the views stay on green.
* A green table's query reads the tables upstream by their old names: the first
  deployment of a chain fails at the create of the second table.
* The view names are `public.<table>`, so a consumer's own `expose_as` view is not
  switched. Nothing drops the blue side (tutorial-30min.md:564-565 says it is
  torn down): `retain_secs` is always 3600, and nothing comes back after it.

Catalog:

* A command that has read an old version and stalls sets the row back (version 9 to 2, say)
  behind one that has gone to the end. If it dies there and an `interrupted` migration has
  been recorded, batch 3, which narrows the status check, is refused, and with it every
  later command: `CurrentAdmitsInterrupted` and `LadderContinues` except this (`Settled`).
* `init` on a catalog of versions 2 to 8 fails: its batch creates an index on columns the
  older `ddl_log` lacks (`InitFails`).

Rollback, promote, destroy, ownership:

* The default target of a rollback is the current version minus one (rollback.rs:103;
  docs/tutorial-30min.md:502), which may be another project's; the command then ends with an
  error. `PlanRollback` takes any version of the project.
* Whether a rollback is lossless is measured by the age of the current version, whatever
  that changed, not of the rebuild it undoes (README.md:113). Drops count as Safe:
  `UnflaggedRollbackKeepsRows` is about the tables the target keeps.
* rollback.rs:116 and 176 name the schema `aqueduct` whatever the configuration says.*
* Creating a table takes its ownership from whichever project had it, dropping one
  deregisters it for all (catalog.rs:757; GLOSSARY.md:295 has one owner): the other project
  creates it again, or leaves it alone when destroyed.
* A plan made before another command's commit is executed all the same: `ReachesTarget`
  excuses it (`undisturbed`).
* destroy takes a failed drop for done (destroy.rs:171-214) and then deletes the ownership:
  the table stays, reported as dropped and unknown to the catalog. Its order is by name, not
  by dependency (ROADMAP.md:996), as the live state has no dependencies; `--force-unowned`
  has no effect.
* `aqueduct import` registers no ownership, so the next plan creates every imported table
  again, although import.rs:74 calls it a no-op and executor.rs:1981 and
  ROADMAP.md:2226-2231 expect an empty plan; its baseline also records the tables of all
  projects.*

Previews:

* Tables are created in the order of the files, and `--table` leaves out what else a reader
  of the anchor reads: either makes the create fail half-way (docs/api-reference.md:369).
  So does a source, or a table named in a CTE, that is new on the branch: it is read from
  production, which does not have it yet. `FailuresAreExplained` names exactly these.
* A retry without `--recreate`, or another branch of the same sanitised name, keeps the
  tables that are there.
* What a CTE or a subquery outside FROM names is read from production, and is no dependency
  either (dag.rs:289): a subgraph leaves it out unless `@aqueduct:depends_on` declares it. A
  source and a table, or two tables of two schemas, that share a name share one relation of
  the preview.

### Bounds

`Executor`: named constants only, `Run` (how many invocations), `MaxActive` (alive at once),
`Desired`, `InitialTables`, `Invocation` and `Faults`. There is no bound on the length of
the tables of the catalog or on retries: a run ends, so the number of runs bounds them.
`LockExpires`, heartbeats and unlocks may repeat freely. `BlueGreen`: `MaxRuns`,
`MaxFaults`, `MaxVersion` (the newest version a run may start from) and `OtherVersions` (how
many versions another project draws from the common sequence in between; one, so that
planned and recorded version differ). `CatalogMigration`: the set `Command`. `Cascades`: the
set `Desired`; edits, runs and faults are unbounded. `Commands`: `MaxCommands` (4),
`MaxFaults` (1) and `Day` (2 hours, the smallest with a window that spans midnight and an
hour outside it). `Previews`: `MaxRuns` (3: commands and edits together). Runs, commands and
sessions are interchangeable, hence `SYMMETRY` where only safety is checked. Deadlock is
checked in `replan` only: elsewhere the system stops when every invocation has ended, as it
should.

### Fairness

`WF_vars(Advance(r))` for every run: tokio polls a future that is ready, and each statement
returns or fails (the code has no wait that could last for ever except on the server;
`WaitForRefresh` has a deadline, executor.rs:1515-1537). `WF_vars(LockExpires)`: time
passes; the action is disabled while the owner's heartbeat works. Heartbeats, faults,
`Begin` and the operator are never forced to act. No strong fairness is needed. `BlueGreen`
has `WF_vars(Advance)` for its one run and nothing for `TableConverges`: pg_trickle may
stall for ever, and the deadline of the wait must end the run. The other modules state
safety only: every step of their commands may fail or be the last, and nothing in the code
waits.

### Mutated definitions

A definition preceded by one marked "Mutated" stands beside its own deliberately
wrong form. No configuration uses the wrong form; `PROJECT.json` names which
property catches it when it replaces the right one.

## 4. What is proved

For any set of runs, tables, plans, faults and command lines that satisfy
`ExecutorAssumption` (sets have their types) and `PlanAssumption` (a plan starts
with its only LockDag and ends with its only UnlockDag, table steps name tables;
`PlansAreWellFormed` below proves it of `build_plan_with_options`. TLC evaluates it for the
planner in every run of `MCExecutor`).

1. **`TypeCorrect`**: `Spec => []TypeOK`. Types alone are not inductive: the step
   index selects from the plan, so `TypeInv` adds that plans are well formed
   (`PlansWellFormed`), that the index fits the program counter (`StepMatchesPc`)
   and that the way out has an outcome (`OutcomeMatchesPc`).
2. **`LeaseInvariant`**: `Spec => []LeaseInv`. On top of `TypeInv`:
   `LockedMatchesPc` (the flag `locked` is set exactly between LockDag and UnlockDag,
   unless the user skips step 0), `LockedOwns` (who is locked and not evicted owns
   the row), `UndisturbedKeepsLock` (with no disturbance among the faults a working
   heartbeat keeps the row from expiring, so eviction cannot happen while it
   matters), `NobodysLockIsFresh` and `OwnerIsLockedOrCrashed`. Each is needed:
   without the first, `Protected` says nothing about `locked`; without the heartbeat
   part, expiry could evict a run in the middle of a step.
3. **`LeaseProtects`**, **`ReleasedOnEveryExit`**: the two safety properties,
   consequences of `LeaseInv`.
4. **`ExecutorIsLease`**: `Spec => ImplementsLease`, step by step: quiet steps
   stutter, `AcquireLock` is `Acquire`, the two releases and a crash are `GiveUp`, the
   heartbeat is `Renew` or a stutter, `LockExpires` is `Lapse`, `ForceUnlock` is `Revoke`.
5. **`BelieversOwn`**, **`LeaseIsExclusive`**: exclusion in the abstract lease, and with 4
   what the lock row gives the runs: of two that believe in it, one has been evicted.
6. **`FreshApplies`**: `FreshOnly /\ Spec => TablesChangeUnderLease`. When nobody
   resumes or skips LockDag, the stream tables change under the lock's owner by its
   own doing only. `ArgsMatchPc` says that only `--resume` leads to the
   compensation; every other action that changes tables is `Protected`. The run
   `resume_beside_apply` shows that the hypothesis cannot be dropped.

7. **`DeploymentTypes`**, **`SuccessMeansSwitched`**: for any tables,
   edits, number of runs and faults, under `BlueGreenAssumption` (types) and
   `ChangedAssumption` (the tables to build are a sequence of tables that the files have:
   `SelectSeq` is recursive, so TLC evaluates it). The inductive `DeploymentInv` says that a plan is
   well formed, the step index fits the program counter, the open transaction
   belongs to the run at the swap, and that a checkpoint past the swap means
   `Switched` or `lostSwaps`, for every unfinished migration and for the run in
   progress. It is preserved because only a commit of the swap changes the
   views, a run works for the newest unfinished migration, and a newer migration
   has a version at least as new. That a commit switches all views of the plan, and not
   those replaced so far only, is `CommitSwitchesPlan`: the program counter is at the commit
   only when the last one has been replaced (`AllReplaced`).

   **`SwapsAreConverged`**, **`RowsFollowViews`**, on top of it. The wait of a run that swaps
   may be long past, in a run that died, and a newer run may have redefined a table of
   the same green schema since, for versions are only counted up when one is recorded. So
   "past the wait, all tables have converged" is not inductive for a checkpoint.
   `WaitInv` says instead: a table that a checkpoint says has converged has, or a newer
   migration that is not committed is about to build it (`Rebuilding`), whose own checkpoint
   is short of its wait. `--resume` takes the newest that it sees, and that one is over only
   past its wait; but it does not see an `interrupted` one, and what is left then is the
   exception of the property, `Overlooked`. It
   also needs that a created table stays (`BuiltAt`: the poll counts running tables, and a
   missing one is not running) and that no run past LockDag is below its resume
   point (`AtResumePoint`). `RunKnowsRow` says that a run which knows the id of its
   deployment has skipped nothing, so that the id is of the schema it builds.

8. **`CatalogTypes`**, **`VersionIsHonest`**, **`CommandsWorkOnCurrent`**: for any set of
   commands and any version they find, under `InstalledAssumption` (versions are versions).
   `VersionMeansObjects` is not inductive: a command that read an old version writes its row
   from what it did itself. `CatalogInv` adds that a command in the ladder has everything
   below its next batch, whatever the row says meanwhile, and a command at work everything.
   It is preserved because objects are only ever added, and a batch writes its own number.
   The lemmas about what the nine batches and `init` add are proved batch by batch.

9. **`CurrentAdmits`**, **`LadderAlwaysContinues`**: what batch 3 and batch 8 leave of the
   status check. `LadderInv` says of a command that upgrades alone that the version is one
   less than its next batch and that nobody else is at a batch; while all who are at a batch
   are alone, the check is the one of that version; and while some are not, a check without
   `interrupted` is still ahead of a command that will put it back. `Overtaken` (a command
   that died beside another) is what both properties except, and what makes them false.

10. **`NothingStaysPaused`**, **`SchedulerIsPaused`**: `PausesAreOwed` says that a paused table
    is one of the plan of a run that has crashed or whose flag `scheduler_paused` is set;
    every way out passes `ResumeScheduler`, which follows that flag. `PausedWhileAlone` (a
    run past its LockDag finds paused what it paused) is preserved only if no other run
    resumes the scheduler meanwhile, hence `MaxActive = 1` in the second theorem; with two
    runs it is false, see "Met on the way".

11. **`CheckpointNeverAhead`**: for any plan of the planner, any number of runs of one plan
    file one after the other, fresh or resumed, with crashes, errors of statements, lapsed
    and revoked locks: what the checkpoint of the migration that `--resume` picks says is
    done is in the database. The property speaks of a moment only; the inductive
    `CheckpointInv` follows a run from one checkpoint to the next:
    * `RowsOfThePlan`: every migration row holds the plan of the file;
    * `UndoneIsAhead`: a create that the log says is running, so that a resume will undo it,
      is of a step the checkpoint does not cover;
    * `OnCourse`, of a run alive: it works for the newest unfinished migration
      (`KnowsMigration`); what it will skip, the checkpoint covers (`StaysAhead`); what it
      has found to compensate is still to be compensated (`KnowsPending`); and the steps
      behind it are in effect (`DoneSoFar`), except where a later step of the plan changes
      the same table again.

    The last part is where the plan's shape counts: a drop that comes before the create of
    its table is no longer in effect after the resume repeats it, and a switch of the refresh
    mode must not touch what an alter sets (`SwitchAssumption`). The hypotheses are what the
    property needs: with two plans (`resume_replanned`), two runs at once
    (`resume_beside_apply`), a failover, or a final status that is
    not written ("bestEffort"), TLC finds it violated.

12. **`CommittedConverges`**, **`SnapshotConverges`**: under the hypotheses of 11, what a run
    commits is live: when its migration ends committed, the owned tables are the desired DAG,
    and a version is recorded when that is already so. It does not follow from
    `CheckpointNeverAhead`: a step in effect says the query is the planned one, or that an
    alter changes nothing any more, not that the table is the desired one. `ConvergenceInv`
    says it of the whole spec:
    * `CreatedAsPlanned`, `CreatedIsOwned`: a table to be created is as planned, and owned,
      once somebody relies on its create: a run with the create behind it, or the checkpoint
      that the next `--resume` reads. A run that executes the drop and the create again takes
      the claim back at that moment, and no checkpoint may rely on it meanwhile: that is
      where `UndoneIsAhead` and `StaysAhead` of 11 come in;
    * `OldOrAltered`: a table that is neither created nor dropped is as the first run found
      it or altered, and stays owned.

    With the steps in effect (11) this fixes every table at the end of the loop. The proofs
    assume of the plan `PlanArrives`: executed once and undisturbed, it brings the desired
    tables, each of them left alone, altered once, dropped, or created (after a drop,
    with its refresh mode switched around it), and all of them before it records them. That is
    the planner's business and not always true of it: an apply may leave fields behind, see
    `AppliesSettle` and `PlansArrive` in 17; the
    theorem says that crashes, retries and lost locks add nothing to it. TLC evaluates the
    hypothesis for the plans of every `MCExecutor` run (`InstanceArrives`), and checks both
    properties in `serial_resume`.

13. **`RunsReachTheirTarget`**, **`VersionsStayOwn`**, **`SafeRollbackDropsNoRows`**,
    **`DestroyLeavesNothing`**, **`DestroyLeavesOthers`**, **`WindowIsKept`** (and
    **`CommandsAreTyped`**): for any number of sessions, projects, tables and commands, any
    window and length of the day, and any planner that satisfies `PlannerAssumption`: of
    each table its plan either says nothing and the table is as desired, or creates, alters
    or drops it once, or drops and creates it. `CommandInv` says of every command under way
    that what is left of it has the right form (`Shaped`: a plan for a DAG of the command's
    own project that ends with its UnlockDag, or a rest of destroy's statements in their
    order); that the versions it remembers are its project's or were deleted (`Remembers`);
    that an unflagged rollback has no drop left of a table its target has (`KeepsRows`); that
    of an undisturbed plan what is left still fits the tables, table by table (`OnCourse`);
    and that what an undisturbed destroy has deleted is gone (`Cleared`). `OnCourse` is the
    core: a step takes one element off the plan and moves one table towards its target, and
    a step of another command either leaves this project's tables alone or ends
    `undisturbed`. `WindowIsKept` needs arithmetic only: the two ways of saying "between
    start and end, across midnight" agree for every offset.

14. **`ReadsStayInside`**, **`RecreatedIsOfFiles`**, **`FailuresHaveReasons`**,
    **`SubgraphsAreTransitive`**: for any
    branches and any sanitising of their names, any files and any number of sessions.
    `PreviewInv` says of every preview table which relation of which files it was made for
    and what it therefore reads (`TablesKnown`); of every create in which order its
    statements leave the set (`InOrder`); and, as long as no other session has touched its
    schema, that it finds there what it created (`FindsItsOwn`) and, if it dropped the
    schema first, nothing else (`FindsNothingElse`). A step of one session reaches another
    only by disturbing it or not at all (`OthersKeepInv`), which is why the invariant can
    speak of one run at a time. When a due statement is refused, everything that precedes it
    is there, so what is missing was left out, comes later or is not in production
    (`RefusalExplained`). Assumed is only what `Production` means: relations outside the
    preview schemas, and that the files of a branch are a list. That two relations of one name share a table of the preview is an
    exception `RecreatedIsCurrent` states (`ToldApart`).

    What the search for a subgraph finds is proved by induction over its rounds: the trails
    of at most n + 1 tables satisfy the equation of the recursive function, so it exists, and
    it is these trails (`SearchFindsTrails`); a trail with more tables than there are passes
    one twice and can be cut (`TrailShortens`), so as many rounds as tables are enough. The
    library's induction theorems take an operator, which the provers cannot instantiate;
    `Induction` is stated for a set instead and follows from the well-foundedness of `<`.

15. **`ReadersAreOverFiles`** (on `CascadeTypesHold`, the types): for any sources and tables,
    any edits between applies, any statements that fail, and any planner that satisfies the
    `PlannerAssumption` of `Cascades`: a table that is as its file says has no step; another
    is created, altered, dropped, or dropped and created, and then has the query of its
    file; a query is altered in place only over the same FROM (and queries of one shape read
    the same sources, `DesiredAssumption`). An apply without changes
    reports success too, and looks at the recorded version only. `ReaderInv` therefore says
    of every state, whatever failed before, that a source is as recorded or already as its
    file has it (`SourcesKnown`), and that the readers of one that is as recorded were
    created over it as it is (`ReadersKnown`); both except `torn`. Within a run it says
    that what is left leads to the files: a changed source is altered or will be
    (`SourcesWillFollow`); what is left for a table ends with the query of its file, and no
    drop is without a create after it (`TablesWillFollow`); and a reader of a changed source
    was created over its new DDL, with no alter of the source to come, or has a create to
    come after every such alter (`ReadersWillFollow`). That is where the order of the plan
    counts: two cascades may rebuild the same table.

    **`ViewsAreOfFiles`**, **`RowsGoWithViews`**, for files and views of any names: a view is
    as each of its rows has it, or it is one of the exceptions (`RowsMatchViews`); of an
    exposed view one is left to be replaced, or it is as a file has it (`FilesWillBeViews`);
    a row with the name of its view that no file exposes has its drop to come
    (`OrphansWillGo`). The diff compares a file with the first row of its view only
    (`FirstRowIsARow`: there is a first, by the well-foundedness of `<`); that all rows of a
    view are right, or it is an exception, is therefore what the second part needs from the
    first. `StepOnAView` says what a step leaves of the rows of its own view and of the
    others. `NamedViewsLeaveNone` says when the exception `strays` is void.

16. **`DiamondsMoveTogether`**: whatever the tables, the queries, the DAGs (with cycles or
    without) and the order in which the HashMap yields the diamonds, overlapping ones
    included, which the three tables of the run do not have. A promotion lowers no class
    (`PromotionLifts`), so by induction over the diamonds what one of them has lifted
    together stays at least as high (`PromotionReaches`). That the recursive functions
    of the planner exist is `Recursion` and `RecursionTo`. Assumed: the files are a list of
    the tables (`OrderAssumption`), so there are finitely many.

17. The rest of the planner, with the same generality, and for any tables the database may
    hold, not only those that earlier applies left.

    **`CyclesAreRefused`**: the loop invariant of Kahn's algorithm is `KahnInv`. What is
    sorted and what is queued are different tables of the files, each once; every sorted or
    queued table has all it reads sorted before it; and a table that has all it reads
    sorted is sorted or queued. When the queue runs empty, the tables that are left all read
    another one that is left (`SortFinishes`), so the count of the sorted tables tells a
    cycle, and only a cycle, from a DAG (`SortableIsAcyclic`). That as many rounds as tables
    are enough is counting (`ListsCount`). `Keep`, the selection from a list which the
    planner uses throughout, is characterised by the places it keeps (`KeptPlaces`).

    **`AppliesBringQueries`**: a plan is the bookkeeping around the *pieces* of the changed
    tables, one after another in the order of the deltas (`BuiltInPieces`, `PlanIs`). A
    piece is one of a few sequences of steps (`PieceIs`), all on its own table
    (`PieceSteps`), so it leaves the others alone (`RanAside`) and its own table as
    `Outcome` says: the spec of the file; with the mode set back to IMMEDIATE after a
    rebuild; or the old one with the fields or the query that the alter sent (`AfterPiece`).
    By induction over the pieces every changed table ends with its outcome (`UpToReaches`,
    `PlanReaches`), and an outcome has the query of the file (`OutcomeIs`).

    **`CreatesFollowReads`**: the plan is cut at the piece of the create (`PlanSplits`).
    What the table reads comes before it in Kahn's order, so its piece is done or it has
    none, and it exists; what comes later has touched nothing yet (`ReadsReached`,
    `CreatedAfterReads`); drops come last of all.

    **`AppliesSettle`**: after the first apply every query is the one of the files
    (`SecondReaches`), so the second plan changes metadata only and leaves a table as its
    file has it but for an IMMEDIATE mode set back, or a CDC mode (`Nearly`,
    `SecondLeaves`). Such a difference is classified as free (`NearlyIsFree`), and where
    everything is free no diamond is lifted, so the third plan rebuilds nothing and sends
    what is left (`ThirdSettles`). That is why it takes three applies, not one.

    **`TypeCorrect`**: from the types of the pieces' arguments and `EffectIsDag`.

    **`PlansAreWellFormed`**, **`PlansFit`**: `PlanAssumption` and `SwitchAssumption` of
    `Executor`, and `PlannerAssumption` of `Commands` and of `Cascades`, hold of every plan
    for all files and tables, the latter when the files have no cycle (otherwise there is no
    plan). `FitsTable` is about the places of a table's steps in the plan without the steps
    that change nothing; it is proved piece by piece (`PieceFits`), carried to the plan
    (`PlanFits`), and from there to what `OnlyOf` selects by the order-preserving map
    between the places (`OnlyFits`). So for files without a cycle
    the theorems of 1 to 6, 10, 11, 13 and 15 hold of the planner of this repository
    without a hypothesis about it.

    **`PlansArrive`**: and those of 12 hold of it when one undisturbed execution of the plan
    leaves exactly the tables of the files. That is a condition on the final tables only;
    `PlanArrives` is about the steps. It follows piece by piece (`PieceBrings`), and in the
    plan a table is touched by its own piece only (`PlanBrings`).

Only model-checked:

* liveness (`RunTerminates`, `LeaseRecovers`, `DeploymentEnds`): the prover handles neither
  fairness nor ENABLED;
* that an undisturbed execution of the plan files of the executor's runs leaves the tables of
  the files, the hypothesis of `PlansArrive` (it is true of some plans only), and
  `ChangedAssumption` of `BlueGreen`, whose `SelectSeq` is recursive;
* the three properties of the runs that find a disagreement: they are false.

## 5. Not modelled

* Refusals before anything has changed: a FULL refresh without `--allow-full-refresh`,
  promote's check of its source environment; in `Commands` they are `Decline`. And the
  override of the maintenance window, `--ignore-maintenance-window`.
* Of blue/green: dropping a schema with retention 0 (no plan contains it), the
  rollback of a deployment (catalog.rs:917-922, no command executes it).
* Of destroy: the rows of consumer views and deployments.
* Of previews: the CloudNativePG and Neon backends, which call external services; the
  textual rewriting of queries that do not parse.
* Of HA: how the backend is detected (configuration); the check itself is a nondeterministic
  answer.
* Of rollback: versions without a recorded spec, for which the files are read.
* PostgreSQL's refusal of changed columns in CREATE OR REPLACE VIEW, except as a statement
  that fails.
* `migration_steps` and the history view: for observation only, no decision reads them.
* The contents of queries: the planner sees a shape, a SELECT list and a rest;
  the dependencies of a query are part of it.
* Two schemas within the executor, planner and commands: tables have one name there.
* Import's baseline version (executor.rs:1916-2043, best effort): what follows from it is
  described above.
* Ingest, secrets, parser, formatter, linter, validator, cost, renderer, reports:
  text or I/O without shared state.

`TypeOK` of `CatalogMigration`, `Replan`, `Cascades`, `Commands` and `Previews` says what
their variables hold; it is proved of each, and the runs spend their time on the other
properties.

## 6. Plan

Done: the core (executor, lease, planner of stream tables), `BlueGreen`,
`CatalogMigration`, `Cascades`, `Commands`, `Previews`; the proofs of section 4.

Left:

1. `Changed` of `BlueGreen` without `SelectSeq`, with `Keep`, so that `ChangedAssumption`
   becomes a lemma.
2. A fourth table for overlapping diamonds, when the planner's states allow it; schema and
   name apart in the executor.
