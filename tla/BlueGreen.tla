----------------------------- MODULE BlueGreen -----------------------------
(***************************************************************************)
(* `aqueduct apply --strategy blue-green`: the plan, and what the executor *)
(* does with its steps.  The new tables are built in a schema of their own *)
(* ("green"); when they have converged, one transaction makes the views    *)
(* public.<table> read them; a row of aqueduct.blue_green_deployments      *)
(* follows the deployment through active, swapped, retired.                *)
(*                                                                         *)
(* The lock and the heartbeat are the subject of Executor, so here at most *)
(* one run is alive; runs follow each other, crash, fail and are resumed,  *)
(* and pg_trickle fills green tables meanwhile.  A schema is named by the  *)
(* version it is built for.  --resume is given the plan file of the run    *)
(* it resumes (see Executor for what a plan computed anew does).           *)
(***************************************************************************)
EXTENDS Naturals, Sequences

CONSTANTS Table,       \* the stream tables, by name
          Order,       \* the same in topological order
          Reads,       \* per table, the stream tables its query reads
          Rev,         \* revisions of a table's definition
          Absent,      \* the "revision" of a table that does not exist
          Base,        \* the registered stream tables before any deployment
          InPublic,    \* the tables whose own schema is `public`
          Desired,     \* the DAGs the migration files may describe
          Faults,      \* "crash", "sql", "bestEffort", "failover" as in
                       \* Executor; "slow": the wait for pg_trickle may last
                       \* longer than max_wait_secs
          OtherVersions, \* how many versions other projects record meanwhile
          MaxRuns,     \* bound: runs started
          MaxFaults,   \* bound: faults
          MaxVersion   \* bound: the latest version a run may start from

Dag == [Table -> Rev \cup {Absent}]

ASSUME BlueGreenAssumption ==
  /\ Absent \notin Rev
  /\ Order \in Seq(Table)
  /\ Reads \in [Table -> SUBSET Table]
  /\ MaxFaults \in Nat
  /\ Base \in Dag /\ Desired \subseteq Dag
  /\ InPublic \subseteq Table
  /\ Faults \subseteq {"crash", "sql", "bestEffort", "failover", "slow"}
  /\ OtherVersions \subseteq Nat
  /\ MaxRuns \in Nat /\ MaxVersion \in Nat \ {0}

(* What the name public.<table> stands for: nothing, the stream table      *)
(* itself, or, from 2 on, a view of the green table of that version.       *)
NoRelation == 0
StreamTable == 1

VARIABLES
  run,         \* the run, and the local variables of run_steps
  started,     \* how many runs there have been
  faults,      \* how many faults there have been
  migrations,  \* aqueduct.migrations, by id
  public,      \* what public.<table> stands for, as others see it
  swap,        \* the transaction of SwapConsumerViews
  green,       \* the tables of each green schema
  deployments, \* aqueduct.blue_green_deployments, by id
  latest,      \* the newest version of this project in dag_versions
  lostSwaps    \* history: migrations whose COMMIT rolled back

vars == <<run, started, faults, migrations, public, swap, green, deployments, latest, lostSwaps>>

Version == 2..(MaxVersion + 1)

PC == {"idle", "exec", "swap", "commit", "progress", "finish"}

Op == {"LockDag", "StartBlueGreenDeployment", "CreateGreenSchema",
       "ValidateQuery", "CreateStreamTableInGreen", "WaitForConvergence",
       "SwapConsumerViews", "RetireBlueSchema", "RecordSnapshot", "UnlockDag"}

Plan == [from : Nat, green : Version, desired : Dag, tables : Seq(Table)]

NoPlan == [from |-> 0, green |-> 2, desired |-> Base, tables |-> <<>>]

Outcome == {"none", "ok", "failed", "interrupted"}

RunState == [pc : PC, plan : Plan, step : Nat, migration : Nat,
             resumeFrom : Nat, deployment : Nat, outcome : Outcome]

MigrationRow == [status : {"running", "committed", "recoverable_failure",
                           "interrupted"},
                 progress : Nat, plan : Plan]

DeploymentRow == [green : Version, status : {"active", "swapped", "retired"}]

NotBuilt == [rev |-> Absent, converged |-> FALSE]
GreenTable == [rev : Rev \cup {Absent}, converged : BOOLEAN]

NoSwap == [replaced |-> 0, marked |-> FALSE, aborted |-> FALSE]

IdleRun == [pc |-> "idle", plan |-> NoPlan, step |-> 0, migration |-> 0,
            resumeFrom |-> 0, deployment |-> 0, outcome |-> "none"]

TypeOK ==
  /\ run \in RunState
  /\ started \in Nat /\ faults \in Nat
  /\ migrations \in Seq(MigrationRow)
  /\ public \in [Table -> Nat]
  /\ swap \in [replaced : Nat, marked : BOOLEAN, aborted : BOOLEAN]
  /\ green \in [Version -> [Table -> GreenTable]]
  /\ deployments \in Seq(DeploymentRow)
  /\ latest \in Nat \ {0}
  /\ lostSwaps \subseteq Nat

Init ==
  /\ run = IdleRun
  /\ started = 0
  /\ faults = 0
  /\ migrations = <<>>
  /\ public = [t \in Table |-> IF t \in InPublic /\ Base[t] # Absent
                               THEN StreamTable ELSE NoRelation]
  /\ swap = NoSwap
  /\ green = [v \in Version |-> [t \in Table |-> NotBuilt]]
  /\ deployments = <<>>
  /\ latest = 1
  /\ lostSwaps = {}

-----------------------------------------------------------------------------
(* build_blue_green_plan.                                                  *)

(* The tables to build: changed, and still in the files.  Green tables are *)
(* never registered as owned, so read_live_state goes on finding Base.     *)
Changed(desired) ==
  SelectSeq(Order, LAMBDA t : desired[t] \notin {Absent, Base[t]})

(* A selection from a sequence of tables is one, and of what it selects by. *)
(* SelectSeq is recursive: TLC evaluates this.                             *)
ASSUME ChangedAssumption ==
  \A desired \in Desired :
    /\ Changed(desired) \in Seq(Table)
    /\ \A i \in DOMAIN Changed(desired) : desired[Changed(desired)[i]] # Absent

TablesOf(plan) == {plan.tables[i] : i \in DOMAIN plan.tables}

Opening == <<"LockDag", "StartBlueGreenDeployment", "CreateGreenSchema">>

(* Mutated: the deployment is closed before the views are switched.        *)
RetiresFirst ==
  <<"WaitForConvergence", "RetireBlueSchema", "SwapConsumerViews",
    "RecordSnapshot", "UnlockDag">>

Closing ==
  <<"WaitForConvergence", "SwapConsumerViews", "RetireBlueSchema",
    "RecordSnapshot", "UnlockDag">>

(* Where the steps of the tables end, and how many steps there are.        *)
LastTableStep(plan) == 3 + 2 * Len(plan.tables)
StepCount(plan) == LastTableStep(plan) + 5

OpAt(plan, i) ==
  CASE i <= 3 -> Opening[i]
    [] 3 < i /\ i <= LastTableStep(plan) ->
         IF i % 2 = 0 THEN "ValidateQuery" ELSE "CreateStreamTableInGreen"
    [] LastTableStep(plan) < i -> Closing[i - LastTableStep(plan)]

(* The table of the two steps ValidateQuery, CreateStreamTableInGreen.     *)
TableAt(plan, i) == plan.tables[(i - 2) \div 2]

-----------------------------------------------------------------------------
(* apply.rs: plan, open a migration row, enter the step loop.              *)
Entered(plan, m, resumeFrom) ==
  [IdleRun EXCEPT !.pc = "exec", !.plan = plan, !.migration = m,
                  !.resumeFrom = resumeFrom]

Startable == run.pc = "idle" /\ started < MaxRuns

Apply ==
  /\ Startable
  /\ latest < MaxVersion
  /\ \E desired \in Desired :
       LET plan == [from |-> latest, green |-> latest + 1, desired |-> desired,
                    tables |-> Changed(desired)]
       IN /\ plan.tables # <<>>
          /\ migrations' = Append(migrations,
                [status |-> "running", progress |-> 0, plan |-> plan])
          /\ run' = Entered(plan, Len(migrations) + 1, 0)
  /\ started' = started + 1
  /\ UNCHANGED <<faults, public, swap, green, deployments, latest, lostSwaps>>

(* GET_RUNNING_OR_RECOVERABLE_MIGRATION_SQL: the newest one, however old.  *)
(* It does not select `interrupted`.                                       *)
Unfinished ==
  {m \in DOMAIN migrations : migrations[m].status \in {"running", "recoverable_failure"}}

(* Mutated: off by one.                                                    *)
SkipOneMore(m) == migrations[m].progress + 2

ResumePoint(m) == migrations[m].progress + 1

(* --resume that finds no row opens a new one, as Apply does.              *)
ResumeApply ==
  /\ Startable
  /\ \E m \in Unfinished :
       /\ \A n \in Unfinished : n <= m
       /\ run' = Entered(migrations[m].plan, m, ResumePoint(m))
  /\ started' = started + 1
  /\ UNCHANGED <<faults, migrations, public, swap, green, deployments, latest, lostSwaps>>

-----------------------------------------------------------------------------
(* run_steps.                                                              *)
CurrentOp == OpAt(run.plan, run.step + 1)

CurrentTable == TableAt(run.plan, run.step + 1)

AtStep(op) == run.pc = "exec" /\ CurrentOp = op

Goto(pc) == run' = [run EXCEPT !.pc = pc]

StepDone == Goto("progress")

Ends(outcome) == run' = [run EXCEPT !.pc = "finish", !.outcome = outcome]

(* An error leaves the loop; the ROLLBACK, or the end of the session,      *)
(* undoes an open transaction.                                             *)
Fails ==
  /\ Ends("failed")
  /\ swap' = NoSwap
  /\ UNCHANGED <<started, migrations, public, green, deployments, latest, lostSwaps>>

Fault(kind) == kind \in Faults /\ faults < MaxFaults /\ faults' = faults + 1

(* A statement runs, or is lost by a fault whose error the code ignores.   *)
Works == UNCHANGED faults
IsLost == Fault("bestEffort")

(* Steps that leave the modelled state alone.  The tables of a blue/green  *)
(* plan are not among the affected nodes, so LockDag pauses nothing.       *)
PassiveStep ==
  /\ \E op \in {"LockDag", "CreateGreenSchema", "ValidateQuery", "UnlockDag"} :
       AtStep(op)
  /\ StepDone
  /\ UNCHANGED <<started, faults, migrations, public, swap, green, deployments, latest, lostSwaps>>

(* The id of the row is kept in a local variable only: a resumed run,      *)
(* which skips this step, does not know it.                                *)
StartBlueGreenDeployment ==
  /\ AtStep("StartBlueGreenDeployment")
  /\ deployments' = Append(deployments,
                           [green |-> run.plan.green, status |-> "active"])
  /\ run' = [run EXCEPT !.pc = "progress", !.deployment = Len(deployments) + 1]
  /\ UNCHANGED <<started, faults, migrations, public, swap, green, latest, lostSwaps>>

(* The query goes to pg_trickle as the file has it, so it reads the tables *)
(* upstream by the names they have outside the green schema.               *)
Exists(t) == IF t \in InPublic THEN public[t] # NoRelation ELSE Base[t] # Absent

(* create_stream_table is an upsert; a new definition is filled anew.      *)
Created(table, rev) ==
  IF table.rev = rev THEN table ELSE [rev |-> rev, converged |-> FALSE]

CreateStreamTableInGreen ==
  /\ AtStep("CreateStreamTableInGreen")
  /\ \A u \in Reads[CurrentTable] : Exists(u)
  /\ green' = [green EXCEPT ![run.plan.green][CurrentTable] =
                 Created(@, run.plan.desired[CurrentTable])]
  /\ StepDone
  /\ UNCHANGED <<started, faults, migrations, public, swap, deployments, latest, lostSwaps>>

CreateInGreenFails ==
  /\ AtStep("CreateStreamTableInGreen")
  /\ \E u \in Reads[CurrentTable] : ~Exists(u)
  /\ Fails
  /\ UNCHANGED faults

(* pg_trickle: a green table has been filled.                              *)
TableConverges ==
  /\ \E v \in Version, t \in Table :
       /\ green[v][t].rev # Absent /\ ~green[v][t].converged
       /\ green' = [green EXCEPT ![v][t].converged = TRUE]
  /\ UNCHANGED <<run, started, faults, migrations, public, swap, deployments, latest, lostSwaps>>

(* The rows of the poll that are still "running".                          *)
StillRunning ==
  {t \in TablesOf(run.plan) : LET table == green[run.plan.green][t]
                              IN table.rev # Absent /\ ~table.converged}

(* Mutated: the poll is content when one table is done.                    *)
SomeConverged == StillRunning # TablesOf(run.plan)

AllConverged == StillRunning = {}

(* Mutated: no deadline.                                                   *)
DeadlineNever == FALSE

(* max_wait_secs may pass at any poll that finds a running table, or whose  *)
(* query or setup fails, which counts as one.                              *)
DeadlinePasses == "slow" \in Faults

WaitForConvergence ==
  /\ AtStep("WaitForConvergence")
  /\ AllConverged
  /\ StepDone
  /\ UNCHANGED <<started, faults, migrations, public, swap, green, deployments, latest, lostSwaps>>

ConvergenceTimesOut ==
  /\ AtStep("WaitForConvergence")
  /\ DeadlinePasses
  /\ Fails
  /\ UNCHANGED faults

-----------------------------------------------------------------------------
(* SwapConsumerViews: BEGIN, one CREATE OR REPLACE VIEW per table, the row *)
(* of the deployment, COMMIT.                                              *)
BeginSwap ==
  /\ AtStep("SwapConsumerViews")
  /\ Goto("swap")
  /\ UNCHANGED <<started, faults, migrations, public, swap, green, deployments, latest, lostSwaps>>

(* Which of them have been replaced.  Others see it when the transaction   *)
(* commits.                                                                *)
Replaced == {run.plan.tables[i] : i \in 1 .. swap.replaced}

NextView == run.plan.tables[swap.replaced + 1]

ReplaceView ==
  /\ run.pc = "swap"
  /\ swap.replaced < Len(run.plan.tables)
  /\ public[NextView] # StreamTable
  /\ swap' = [swap EXCEPT !.replaced = @ + 1]
  /\ UNCHANGED <<run, started, faults, migrations, public, green, deployments, latest, lostSwaps>>

(* CREATE OR REPLACE VIEW refuses a name that is a table's.                *)
NameIsTaken ==
  /\ run.pc = "swap"
  /\ swap.replaced < Len(run.plan.tables)
  /\ public[NextView] = StreamTable
  /\ Fails
  /\ UNCHANGED faults

(* SWAP_BLUE_GREEN_SQL, for the run that knows the row.  Its error is      *)
(* ignored, but it aborts the transaction.                                 *)
MarkSwapped ==
  /\ run.pc = "swap"
  /\ swap.replaced = Len(run.plan.tables)
  /\ \/ run.deployment = 0 /\ Works /\ UNCHANGED swap
     \/ run.deployment # 0 /\ Works /\ swap' = [swap EXCEPT !.marked = TRUE]
     \/ run.deployment # 0 /\ IsLost /\ swap' = [swap EXCEPT !.aborted = TRUE]
  /\ Goto("commit")
  /\ UNCHANGED <<started, migrations, public, green, deployments, latest, lostSwaps>>

(* COMMIT of an aborted transaction is a ROLLBACK that reports no error.   *)
CommitSwap ==
  /\ run.pc = "commit"
  /\ \/ /\ swap.aborted
        /\ lostSwaps' = lostSwaps \cup {run.migration}
        /\ UNCHANGED <<public, deployments>>
     \/ /\ ~swap.aborted
        /\ public' = [t \in Table |-> IF t \in Replaced
                                      THEN run.plan.green ELSE public[t]]
        /\ deployments' = IF swap.marked
                          THEN [deployments EXCEPT ![run.deployment].status = "swapped"]
                          ELSE deployments
        /\ UNCHANGED lostSwaps
  /\ swap' = NoSwap
  /\ StepDone
  /\ UNCHANGED <<started, faults, migrations, green, latest>>

(* retain_secs is 3600: nothing is dropped, only the row is closed.        *)
RetireBlueSchema ==
  /\ AtStep("RetireBlueSchema")
  /\ \/ run.deployment = 0 /\ Works /\ UNCHANGED deployments
     \/ run.deployment # 0 /\ IsLost /\ UNCHANGED deployments
     \/ /\ run.deployment # 0 /\ Works
        /\ deployments' = [deployments EXCEPT ![run.deployment].status = "retired"]
  /\ StepDone
  /\ UNCHANGED <<started, migrations, public, swap, green, latest, lostSwaps>>

(* The version recorded is the next of a sequence that other projects draw *)
(* from as well, not the one planned.                                      *)
RecordSnapshot ==
  /\ AtStep("RecordSnapshot")
  /\ \E drawn \in OtherVersions : latest' = latest + drawn + 1
  /\ StepDone
  /\ UNCHANGED <<started, faults, migrations, public, swap, green, deployments, lostSwaps>>

-----------------------------------------------------------------------------
(* The next step of the loop: nothing but LockDag, the first step, is      *)
(* executed again below the resume point.                                  *)
NextStep == IF run.step + 1 < run.resumeFrom THEN run.resumeFrom ELSE run.step + 1

(* The checkpoint; then the primary is checked, as after every step.       *)
SaveProgress ==
  /\ run.pc = "progress"
  /\ migrations' = [migrations EXCEPT ![run.migration].progress = run.step]
  /\ \/ Fault("failover") /\ Ends("interrupted")
     \/ /\ Works /\ NextStep < StepCount(run.plan)
        /\ run' = [run EXCEPT !.pc = "exec", !.step = NextStep]
     \/ /\ Works /\ NextStep >= StepCount(run.plan)
        /\ Ends("ok")
  /\ UNCHANGED <<started, public, swap, green, deployments, latest, lostSwaps>>

(* Mutated: a status the catalog does not know.                            *)
OutcomeUnknown == IF run.outcome = "ok" THEN "done" ELSE "recoverable_failure"

OutcomeOf == CASE run.outcome = "ok"          -> "committed"
               [] run.outcome = "interrupted" -> "interrupted"
               [] OTHER                       -> "recoverable_failure"

FinishMigration ==
  /\ run.pc = "finish"
  /\ \/ Works /\ migrations' = [migrations EXCEPT ![run.migration].status = OutcomeOf]
     \/ IsLost /\ UNCHANGED migrations
  /\ run' = IdleRun
  /\ UNCHANGED <<started, public, swap, green, deployments, latest, lostSwaps>>

(* A statement whose error the code propagates fails.                      *)
StatementFails ==
  /\ Fault("sql")
  /\ \/ run.pc = "progress"
     \/ run.pc = "swap" /\ swap.replaced < Len(run.plan.tables)
     \/ \E op \in Op \ {"WaitForConvergence", "RetireBlueSchema", "UnlockDag"} : AtStep(op)
  /\ Fails

(* The process or its connection dies; the server rolls back.              *)
Crash ==
  /\ Fault("crash")
  /\ run.pc # "idle"
  /\ run' = IdleRun
  /\ swap' = NoSwap
  /\ UNCHANGED <<started, migrations, public, green, deployments, latest, lostSwaps>>

-----------------------------------------------------------------------------
SwapBody == BeginSwap \/ ReplaceView \/ NameIsTaken \/ MarkSwapped \/ CommitSwap

Advance ==
  \/ PassiveStep \/ StartBlueGreenDeployment
  \/ CreateStreamTableInGreen \/ CreateInGreenFails
  \/ WaitForConvergence \/ ConvergenceTimesOut \/ SwapBody
  \/ RetireBlueSchema \/ RecordSnapshot \/ SaveProgress \/ FinishMigration

Next ==
  \/ Apply \/ ResumeApply \/ Advance \/ TableConverges
  \/ StatementFails \/ Crash

Spec == Init /\ [][Next]_vars

(* The runtime keeps polling the run.  Nothing is assumed of pg_trickle.   *)
FairSpec == Spec /\ WF_vars(Advance)

-----------------------------------------------------------------------------
(* Properties.                                                             *)

(* A migration that has ended `interrupted` since and whose run created    *)
(* tables in the same green schema, t perhaps among them, which --resume   *)
(* passes over.                                                            *)
Overlooked(m, t) ==
  \E n \in DOMAIN migrations :
    /\ n > m
    /\ migrations[n].status = "interrupted"
    /\ migrations[n].plan.green = migrations[m].plan.green
    /\ t \in TablesOf(migrations[n].plan)
    /\ migrations[n].progress < LastTableStep(migrations[n].plan)

(* A view is switched to a table only when that table has converged (the   *)
(* swap "does not expose an unfinished result", GLOSSARY.md:275), also by  *)
(* a run resumed after its wait, and also when another run has used the    *)
(* same green schema meanwhile, with ONE exception in which the code does  *)
(* expose one: a run dies past its wait, the next one redefines a green    *)
(* table and loses its primary before it has waited for it, and --resume,  *)
(* which docs/ha-operations.md:196 prescribes then, takes the older of the *)
(* two migrations, for catalog.rs:748 does not select the interrupted one, *)
(* and switches without waiting.                                           *)
SwapsConverged ==
  [][\A t \in Table :
       public'[t] # public[t] =>
         green[public'[t]][t].converged \/ Overlooked(run.migration, t)]_vars

(* The deployment row says `swapped` from the very step in which the views *)
(* read its green schema (executor.rs:1163-1167), and it is not retired by *)
(* a run that has not switched them, unless their switch was lost.         *)
RowFollowsViews ==
  [][\A i \in DOMAIN deployments :
       deployments'[i] # deployments[i] =>
         \/ deployments'[i].status = "swapped"
            /\ \A t \in TablesOf(run.plan) : public'[t] = deployments[i].green
         \/ deployments[i].status = "swapped"
         \/ run.migration \in lostSwaps]_vars

(* A run that ends well has switched its views, itself or the run it       *)
(* resumes, and only a later version has replaced them; the exception is a *)
(* COMMIT that silently rolled back.                                       *)
Switched(plan) == \A t \in TablesOf(plan) : public[t] >= plan.green

SuccessIsSwitched ==
  run.pc = "finish" /\ run.outcome = "ok" => Switched(run.plan) \/ run.migration \in lostSwaps

(* A deployment ends whatever pg_trickle does: the wait has a deadline.    *)
DeploymentEnds == (run.pc # "idle") ~> (run.pc = "idle")

=============================================================================
