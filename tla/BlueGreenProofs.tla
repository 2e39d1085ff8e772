-------------------------- MODULE BlueGreenProofs --------------------------
(***************************************************************************)
(* What holds of blue/green deployments for any tables, any number of runs *)
(* and of faults: types, that a run that ends well has switched, that      *)
(* consumers are switched to converged tables only, and that the row of    *)
(* the deployment follows the views.                                       *)
(***************************************************************************)
EXTENDS BlueGreen, TLAPS

(* The sorts of the rows and of the locals, spelt out for the provers.     *)
LEMMA RunFields ==
  ASSUME TypeOK
  PROVE  /\ run.pc \in PC /\ run.plan \in Plan /\ run.step \in Nat
         /\ run.migration \in Nat /\ run.resumeFrom \in Nat
         /\ run.deployment \in Nat /\ run.outcome \in Outcome
         /\ run.plan.green \in Version /\ run.plan.tables \in Seq(Table)
         /\ run.plan.desired \in Dag /\ run.plan.from \in Nat
  BY DEF TypeOK, RunState, Plan

(* A plan has three opening steps, two per table and five closing ones.    *)
LEMMA StepCounts ==
  ASSUME NEW plan \in Plan
  PROVE  /\ Len(plan.tables) \in Nat
         /\ LastTableStep(plan) \in Nat /\ LastTableStep(plan) >= 3
         /\ StepCount(plan) = LastTableStep(plan) + 5
  BY DEF Plan, LastTableStep, StepCount

(* SwapConsumerViews is the second step after those of the tables.         *)
SwapAt(plan) == LastTableStep(plan) + 1

(* The operations that open and close a plan, one by one.                  *)
LEMMA OpeningAndClosing ==
  /\ Opening[1] = "LockDag" /\ Opening[2] = "StartBlueGreenDeployment"
  /\ Opening[3] = "CreateGreenSchema"
  /\ Closing[1] = "WaitForConvergence" /\ Closing[2] = "SwapConsumerViews"
  /\ Closing[3] = "RetireBlueSchema" /\ Closing[4] = "RecordSnapshot"
  /\ Closing[5] = "UnlockDag"
  BY DEF Opening, Closing

(* A step is the swap exactly when its index says so; a step is about a    *)
(* table exactly between the opening and the closing.                      *)
LEMMA OpIsPlaced ==
  ASSUME NEW plan \in Plan, NEW step \in 0..(StepCount(plan) - 1)
  PROVE  /\ OpAt(plan, step + 1) = "SwapConsumerViews" <=> step = SwapAt(plan)
         /\ OpAt(plan, step + 1) = "CreateStreamTableInGreen" =>
              3 < step + 1 /\ step + 1 <= LastTableStep(plan)
<1> DEFINE i == step + 1
           last == LastTableStep(plan)
<1>1. /\ i \in Nat /\ 1 <= i /\ i <= last + 5
      /\ last \in Nat /\ last >= 3 /\ SwapAt(plan) = last + 1
  BY StepCounts DEF SwapAt
<1>2. CASE i <= 3
  <2>1. OpAt(plan, i) = Opening[i]
    BY <1>1, <1>2 DEF OpAt
  <2>2. i = 1 \/ i = 2 \/ i = 3
    BY <1>1, <1>2
  <2> QED
    BY <1>1, <1>2, <2>1, <2>2, OpeningAndClosing
<1>3. CASE 3 < i /\ i <= last
  <2>1. OpAt(plan, i) \in {"ValidateQuery", "CreateStreamTableInGreen"}
    BY <1>1, <1>3 DEF OpAt
  <2> QED
    BY <1>1, <1>3, <2>1
<1>4. CASE last < i
  <2>1. OpAt(plan, i) = Closing[i - last]
    BY <1>1, <1>4 DEF OpAt
  <2>2. \/ i - last = 1 \/ i - last = 2 \/ i - last = 3
        \/ i - last = 4 \/ i - last = 5
    BY <1>1, <1>4
  <2> QED
    BY <1>1, <1>4, <2>1, <2>2, OpeningAndClosing
<1> QED
  BY <1>1, <1>2, <1>3, <1>4

(* The step of a table names a table of the plan.                          *)
LEMMA StepHasTable ==
  ASSUME NEW plan \in Plan, NEW i \in Nat, 3 < i, i <= LastTableStep(plan)
  PROVE  TableAt(plan, i) \in Table
<1>1. (i - 2) \div 2 \in 1..Len(plan.tables)
  <2>1. i - 2 >= 2 /\ i - 2 < 2 * Len(plan.tables) + 2
    BY StepCounts DEF LastTableStep
  <2> QED
    BY <2>1, StepCounts
<1> QED
  BY <1>1 DEF TableAt, Plan


-----------------------------------------------------------------------------
(* A live run is at a step of its plan, which is the plan of the migration *)
(* it works for; the statements of the transaction belong to the swap.     *)
AtPlannedStep ==
  run.pc # "idle" =>
    /\ run.step < StepCount(run.plan)
    /\ run.migration \in DOMAIN migrations
    /\ run.plan = migrations[run.migration].plan
    /\ run.pc \in {"swap", "commit"} => run.step = SwapAt(run.plan)

(* The catalog before the first deployment is well typed.                  *)
LEMMA InitTypes == Init => TypeOK /\ AtPlannedStep
<1> SUFFICES ASSUME Init PROVE TypeOK /\ AtPlannedStep
  OBVIOUS
<1>1. 2 \in Version
  BY BlueGreenAssumption DEF Version
<1>2. NoPlan \in Plan
  BY <1>1, BlueGreenAssumption DEF NoPlan, Plan
<1>3. IdleRun \in RunState
  BY <1>2 DEF IdleRun, RunState, Outcome, PC
<1>4. NotBuilt \in GreenTable
  BY DEF NotBuilt, GreenTable
<1>5. NoSwap \in [replaced : Nat, marked : BOOLEAN, aborted : BOOLEAN]
  BY DEF NoSwap
<1>6. public \in [Table -> Nat]
  BY DEF Init, StreamTable, NoRelation
<1>7. green \in [Version -> [Table -> GreenTable]]
  BY <1>4 DEF Init
<1>8. TypeOK
  BY <1>3, <1>5, <1>6, <1>7 DEF Init, TypeOK
<1>9. AtPlannedStep
  BY DEF Init, IdleRun, AtPlannedStep
<1> QED
  BY <1>8, <1>9

(* What most actions do to the run: move to another pc of the same step.   *)
LEMMA MovedRun ==
  ASSUME TypeOK, NEW pc \in PC, Goto(pc)
  PROVE  /\ run' \in RunState
         /\ run'.pc = pc /\ run'.plan = run.plan /\ run'.step = run.step
         /\ run'.migration = run.migration /\ run'.resumeFrom = run.resumeFrom
         /\ run'.outcome = run.outcome
  BY DEF TypeOK, RunState, Goto

(* A run that fails keeps its plan, its step and its migration, and rolls  *)
(* back.                                                                   *)
LEMMA FailedRun ==
  ASSUME TypeOK, Fails
  PROVE  /\ run' \in RunState /\ swap' \in [replaced : Nat, marked : BOOLEAN, aborted : BOOLEAN]
         /\ run'.pc = "finish" /\ run'.plan = run.plan /\ run'.step = run.step
         /\ run'.migration = run.migration /\ run'.outcome # "ok"
  BY DEF TypeOK, RunState, Fails, Ends, Outcome, PC, NoSwap

(* A run enters the loop at the first step, with its resume point.         *)
LEMMA EnteredRun ==
  ASSUME NEW plan \in Plan, NEW m \in Nat, NEW from \in Nat,
         run' = Entered(plan, m, from)
  PROVE  /\ run' \in RunState
         /\ run'.pc = "exec" /\ run'.plan = plan /\ run'.step = 0
         /\ run'.migration = m /\ run'.resumeFrom = from /\ run'.outcome # "ok"
  BY DEF Entered, IdleRun, RunState, Outcome, PC

(* The rows of the migrations as a function on their ids.                  *)
LEMMA MigrationRows ==
  ASSUME TypeOK
  PROVE  /\ Len(migrations) \in Nat /\ DOMAIN migrations = 1..Len(migrations)
         /\ \A m \in DOMAIN migrations :
              /\ migrations[m] \in MigrationRow
              /\ migrations[m].plan \in Plan /\ migrations[m].progress \in Nat
              /\ migrations[m].status \in {"running", "committed", "recoverable_failure",
                                          "interrupted"}
<1>1. migrations \in Seq(MigrationRow)
  BY DEF TypeOK
<1>2. /\ Len(migrations) \in Nat /\ DOMAIN migrations = 1..Len(migrations)
      /\ \A m \in DOMAIN migrations : migrations[m] \in MigrationRow
  BY <1>1
<1> QED
  BY <1>2 DEF MigrationRow

(* A migration row is rewritten in place: its plan stays.                  *)
LEMMA RewrittenMigration ==
  ASSUME TypeOK, NEW m \in DOMAIN migrations, NEW row \in MigrationRow,
         row.plan = migrations[m].plan, migrations' = [migrations EXCEPT ![m] = row]
  PROVE  /\ migrations' \in Seq(MigrationRow)
         /\ DOMAIN migrations' = DOMAIN migrations
         /\ \A n \in DOMAIN migrations :
              /\ migrations'[n] = IF n = m THEN row ELSE migrations[n]
              /\ migrations'[n].plan = migrations[n].plan
<1>1. migrations \in Seq(MigrationRow)
  BY DEF TypeOK
<1>2. /\ DOMAIN migrations' = DOMAIN migrations
      /\ \A n \in DOMAIN migrations :
           migrations'[n] = IF n = m THEN row ELSE migrations[n]
  BY <1>1
<1>3. migrations' \in Seq(MigrationRow)
  BY <1>1
<1> QED
  BY <1>2, <1>3

(* INSERT of a migration row: the older rows keep their ids.               *)
LEMMA AppendedMigration ==
  ASSUME TypeOK, NEW row \in MigrationRow, migrations' = Append(migrations, row)
  PROVE  /\ migrations' \in Seq(MigrationRow)
         /\ DOMAIN migrations' = 1..(Len(migrations) + 1)
         /\ migrations'[Len(migrations) + 1] = row
         /\ \A n \in DOMAIN migrations : migrations'[n] = migrations[n]
  BY DEF TypeOK

-----------------------------------------------------------------------------
(* Why a run that ends well has switched.  The checkpoint of an unfinished *)
(* migration never claims a switch that did not happen or was undone: the  *)
(* only step that changes views is a swap, the run that swaps works for    *)
(* the newest unfinished migration, and newer plans have greener schemas.  *)
GreensGrow ==
  /\ \A m, n \in DOMAIN migrations :
       m <= n => migrations[m].plan.green <= migrations[n].plan.green
  /\ \A m \in DOMAIN migrations : migrations[m].plan.green <= latest + 1

WorksForNewest ==
  run.pc # "idle" =>
    run.migration \in Unfinished /\ \A n \in Unfinished : n <= run.migration

Served(m) == Switched(migrations[m].plan) \/ m \in lostSwaps

CheckpointsHold ==
  \A m \in Unfinished :
    migrations[m].progress >= SwapAt(migrations[m].plan) => Served(m)

HasSwapped ==
  \/ run.step > SwapAt(run.plan)
  \/ run.resumeFrom > SwapAt(run.plan)
  \/ run.step = SwapAt(run.plan) /\ run.pc = "progress"
  \/ run.pc = "finish" /\ run.outcome = "ok"

RunHolds == run.pc # "idle" /\ HasSwapped => Served(run.migration)

DeploymentInv ==
  TypeOK /\ AtPlannedStep /\ GreensGrow /\ WorksForNewest /\ CheckpointsHold /\ RunHolds

(* Before the first deployment there is nothing a checkpoint could claim.  *)
LEMMA InitInv == Init => DeploymentInv
<1> SUFFICES ASSUME Init PROVE DeploymentInv
  OBVIOUS
<1>1. TypeOK /\ AtPlannedStep
  BY InitTypes
<1>2. DOMAIN migrations = {} /\ run.pc = "idle"
  BY DEF Init, IdleRun
<1> QED
  BY <1>1, <1>2 DEF DeploymentInv, GreensGrow, WorksForNewest, CheckpointsHold,
                    RunHolds, Unfinished

(* What stays true of the rows when neither they nor the views change.     *)
LEMMA RowsKept ==
  ASSUME DeploymentInv, latest' \in Nat, latest' >= latest,
         UNCHANGED <<migrations, public, lostSwaps>>
  PROVE  /\ GreensGrow' /\ CheckpointsHold' /\ Unfinished' = Unfinished
         /\ \A m : Served(m)' <=> Served(m)
<1>1. Unfinished' = Unfinished
  BY DEF Unfinished
<1>2. \A m : Served(m)' <=> Served(m)
  BY DEF Served, Switched
<1>3. CheckpointsHold'
  BY <1>1, <1>2 DEF DeploymentInv, CheckpointsHold
<1>4. \A m \in DOMAIN migrations : migrations[m].plan.green \in Nat
  BY MigrationRows DEF DeploymentInv, Plan, Version
<1>5. latest \in Nat
  BY DEF DeploymentInv, TypeOK
<1>6. \A m \in DOMAIN migrations : migrations[m].plan.green <= latest' + 1
  BY <1>4, <1>5 DEF DeploymentInv, GreensGrow
<1>7. GreensGrow'
  BY <1>6 DEF DeploymentInv, GreensGrow
<1> QED
  BY <1>1, <1>2, <1>3, <1>7

(* A statement of the run that changes neither rows nor views.             *)
LEMMA RunKept ==
  ASSUME DeploymentInv, TypeOK', run.pc # "idle", run'.pc # "idle",
         latest' >= latest, UNCHANGED <<migrations, public, lostSwaps>>,
         run'.plan = run.plan, run'.step = run.step,
         run'.migration = run.migration,
         run'.pc \in {"swap", "commit"} => run.step = SwapAt(run.plan),
         HasSwapped' => HasSwapped
  PROVE  DeploymentInv'
<1>1. latest' \in Nat
  BY DEF TypeOK
<1>2. /\ GreensGrow' /\ CheckpointsHold' /\ Unfinished' = Unfinished
      /\ \A m : Served(m)' <=> Served(m)
  BY <1>1, RowsKept
<1>3. AtPlannedStep'
  BY DEF DeploymentInv, AtPlannedStep
<1>4. WorksForNewest'
  BY <1>2 DEF DeploymentInv, WorksForNewest
<1>5. RunHolds'
  <2>1. HasSwapped' => Served(run.migration)
    BY DEF DeploymentInv, RunHolds
  <2> QED
    BY <2>1 DEF RunHolds, Served, Switched
<1> QED
  BY <1>2, <1>3, <1>4, <1>5 DEF DeploymentInv

(* The run is over; the rows and the views stay.                           *)
LEMMA RunGone ==
  ASSUME DeploymentInv, TypeOK', run'.pc = "idle", latest' = latest,
         UNCHANGED <<migrations, public, lostSwaps>>
  PROVE  DeploymentInv'
<1>1. latest' \in Nat /\ latest' >= latest
  BY DEF DeploymentInv, TypeOK
<1>2. GreensGrow' /\ CheckpointsHold'
  BY <1>1, RowsKept
<1> QED
  BY <1>2 DEF DeploymentInv, AtPlannedStep, WorksForNewest, RunHolds

(* Of all steps only SwapConsumerViews is at the index of the swap.        *)
LEMMA NotTheSwap ==
  ASSUME DeploymentInv, NEW op, AtStep(op), op # "SwapConsumerViews"
  PROVE  run.step # SwapAt(run.plan) /\ run.pc = "exec"
<1>1. run.pc = "exec" /\ OpAt(run.plan, run.step + 1) = op
  BY DEF AtStep, CurrentOp
<1>2. run.plan \in Plan /\ run.step \in 0..(StepCount(run.plan) - 1)
  <2>1. run.plan \in Plan /\ run.step \in Nat
    BY RunFields DEF DeploymentInv
  <2>2. run.step < StepCount(run.plan) /\ StepCount(run.plan) \in Nat
    BY <1>1, <2>1, StepCounts DEF DeploymentInv, AtPlannedStep
  <2> QED
    BY <2>1, <2>2
<1> QED
  BY <1>1, <1>2, OpIsPlaced

(* A step other than the swap is done, or the run fails.                   *)
LEMMA StepDoneInv ==
  ASSUME DeploymentInv, TypeOK', NEW op, AtStep(op), op # "SwapConsumerViews",
         latest' >= latest, UNCHANGED <<migrations, public, lostSwaps>>,
         run'.pc = "progress", run'.plan = run.plan, run'.step = run.step,
         run'.migration = run.migration, run'.resumeFrom = run.resumeFrom
  PROVE  DeploymentInv'
<1>1. run.step # SwapAt(run.plan) /\ run.pc = "exec"
  BY NotTheSwap
<1>2. HasSwapped' => HasSwapped
  BY <1>1 DEF HasSwapped
<1> QED
  BY <1>1, <1>2, RunKept

(* A run that fails claims nothing and leaves views and catalog alone.     *)
LEMMA FailsInv ==
  ASSUME DeploymentInv, run.pc \notin {"idle", "finish"}, Fails, faults' \in Nat
  PROVE  DeploymentInv'
<1> USE DEF DeploymentInv
<1>1. /\ run' \in RunState
      /\ swap' \in [replaced : Nat, marked : BOOLEAN, aborted : BOOLEAN]
      /\ run'.pc = "finish" /\ run'.plan = run.plan /\ run'.step = run.step
      /\ run'.migration = run.migration /\ run'.outcome # "ok"
      /\ run'.resumeFrom = run.resumeFrom
  BY FailedRun DEF Fails, Ends, TypeOK, RunState
<1>2. UNCHANGED <<started, migrations, public, green, deployments, latest, lostSwaps>>
  BY DEF Fails
<1>3. TypeOK'
  BY <1>1, <1>2 DEF TypeOK
<1>4. HasSwapped' => HasSwapped
  BY <1>1 DEF HasSwapped
<1>5. latest' >= latest
  BY <1>2 DEF TypeOK
<1> HIDE DEF DeploymentInv
<1> QED
  BY <1>1, <1>2, <1>3, <1>4, <1>5, RunKept

-----------------------------------------------------------------------------
(* The actions, one by one.                                                *)

LEMMA ApplyInv == ASSUME DeploymentInv, Apply PROVE DeploymentInv'
<1> USE DEF DeploymentInv
<1>1. PICK desired \in Desired :
        LET plan == [from |-> latest, green |-> latest + 1, desired |-> desired,
                     tables |-> Changed(desired)]
        IN /\ migrations' = Append(migrations,
                [status |-> "running", progress |-> 0, plan |-> plan])
           /\ run' = Entered(plan, Len(migrations) + 1, 0)
  BY DEF Apply
<1> DEFINE plan == [from |-> latest, green |-> latest + 1, desired |-> desired,
                    tables |-> Changed(desired)]
           new == Len(migrations) + 1
           row == [status |-> "running", progress |-> 0, plan |-> plan]
<1>2. /\ UNCHANGED <<faults, public, swap, green, deployments, latest, lostSwaps>>
      /\ started' = started + 1 /\ latest < MaxVersion /\ latest \in Nat
  BY DEF Apply, TypeOK
<1>3. latest >= 1
  BY <1>2 DEF TypeOK
<1>4. plan \in Plan
  <2>1. latest + 1 \in Version
    BY <1>2, <1>3, BlueGreenAssumption DEF Version
  <2>2. desired \in Dag
    BY BlueGreenAssumption
  <2> QED
    BY <1>2, <2>1, <2>2, ChangedAssumption DEF Plan
<1>5. row \in MigrationRow
  BY <1>4 DEF MigrationRow
<1> HIDE DEF row
<1>6. migrations' = Append(migrations, row) /\ run' = Entered(plan, new, 0)
  BY <1>1 DEF row
<1>7. /\ migrations' \in Seq(MigrationRow) /\ DOMAIN migrations' = 1..new
      /\ migrations'[new] = row /\ new \in Nat
      /\ DOMAIN migrations = 1..Len(migrations) /\ Len(migrations) \in Nat
      /\ \A n \in DOMAIN migrations : migrations'[n] = migrations[n]
  BY <1>5, <1>6, AppendedMigration, MigrationRows
<1>8. /\ run' \in RunState /\ run'.pc = "exec" /\ run'.plan = plan
      /\ run'.step = 0 /\ run'.migration = new /\ run'.resumeFrom = 0
      /\ run'.outcome # "ok"
  BY <1>4, <1>6, <1>7, EnteredRun
<1>9. row.status = "running" /\ row.progress = 0 /\ row.plan = plan
  BY DEF row
<1>10. plan.green = latest + 1
  OBVIOUS
<1> HIDE DEF plan
<1>11. LastTableStep(plan) \in Nat /\ StepCount(plan) = LastTableStep(plan) + 5
  BY <1>4, StepCounts
<1>12. TypeOK'
  BY <1>2, <1>7, <1>8 DEF TypeOK
<1>13. AtPlannedStep'
  BY <1>7, <1>8, <1>9, <1>11 DEF AtPlannedStep
<1>14. GreensGrow'
  <2>1. \A n \in DOMAIN migrations : migrations'[n].plan.green <= latest + 1
    BY <1>7 DEF GreensGrow
  <2>2. migrations'[new].plan.green = latest + 1
    BY <1>7, <1>9, <1>10
  <2>3. \A m, n \in DOMAIN migrations' :
          m <= n => migrations'[m].plan.green <= migrations'[n].plan.green
    <3> SUFFICES ASSUME NEW m \in 1..new, NEW n \in 1..new, m <= n
                 PROVE  migrations'[m].plan.green <= migrations'[n].plan.green
      BY <1>7
    <3>1. CASE n \in DOMAIN migrations
      <4>1. m \in DOMAIN migrations
        BY <1>7, <3>1
      <4> QED
        BY <1>7, <3>1, <4>1 DEF GreensGrow
    <3>2. CASE n = new /\ m \in DOMAIN migrations
      BY <2>1, <2>2, <3>2
    <3>3. CASE n = new /\ m = new
      BY <1>2, <2>2, <3>3
    <3> QED
      BY <1>7, <3>1, <3>2, <3>3
  <2>4. \A m \in DOMAIN migrations' : migrations'[m].plan.green <= latest' + 1
    <3> SUFFICES ASSUME NEW m \in 1..new PROVE migrations'[m].plan.green <= latest + 1
      BY <1>2, <1>7
    <3> QED
      BY <1>2, <1>7, <2>1, <2>2
  <2> QED
    BY <2>3, <2>4 DEF GreensGrow
<1>15. Unfinished' = Unfinished \cup {new}
  BY <1>7, <1>9 DEF Unfinished
<1>16. WorksForNewest'
  BY <1>7, <1>8, <1>15 DEF WorksForNewest, Unfinished
<1>17. CheckpointsHold'
  <2> SUFFICES ASSUME NEW m \in Unfinished',
                      (migrations[m].progress >= SwapAt(migrations[m].plan))'
               PROVE  Served(m)'
    BY DEF CheckpointsHold
  <2>1. CASE m = new
    BY <1>4, <1>7, <1>9, <2>1, StepCounts DEF SwapAt, LastTableStep
  <2>2. CASE m \in Unfinished
    <3>1. migrations'[m] = migrations[m]
      BY <1>7, <2>2 DEF Unfinished
    <3>2. Switched(migrations[m].plan) \/ m \in lostSwaps
      BY <2>2, <3>1 DEF CheckpointsHold, Served, SwapAt, LastTableStep
    <3> QED
      BY <1>2, <3>1, <3>2 DEF Served, Switched
  <2> QED
    BY <1>15, <2>1, <2>2
<1>18. RunHolds'
  BY <1>8, <1>11 DEF RunHolds, HasSwapped, SwapAt
<1> QED
  BY <1>12, <1>13, <1>14, <1>16, <1>17, <1>18

(* A resumed run starts past the swap only if its checkpoint is, and the   *)
(* checkpoint of an unfinished migration holds.                            *)
LEMMA ResumeApplyInv == ASSUME DeploymentInv, ResumeApply PROVE DeploymentInv'
<1> USE DEF DeploymentInv
<1>1. PICK m \in Unfinished :
        /\ \A n \in Unfinished : n <= m
        /\ run' = Entered(migrations[m].plan, m, ResumePoint(m))
  BY DEF ResumeApply
<1>2. /\ UNCHANGED <<faults, migrations, public, swap, green, deployments, latest, lostSwaps>>
      /\ started' = started + 1 /\ latest \in Nat
  BY DEF ResumeApply, TypeOK
<1>3. /\ m \in DOMAIN migrations /\ m \in Nat
      /\ migrations[m].plan \in Plan /\ migrations[m].progress \in Nat
  BY MigrationRows DEF Unfinished
<1>4. /\ run' \in RunState /\ run'.pc = "exec" /\ run'.plan = migrations[m].plan
      /\ run'.step = 0 /\ run'.migration = m /\ run'.outcome # "ok"
      /\ run'.resumeFrom = migrations[m].progress + 1
  <2>1. ResumePoint(m) = migrations[m].progress + 1 /\ ResumePoint(m) \in Nat
    BY <1>3 DEF ResumePoint
  <2> QED
    BY <1>1, <1>3, <2>1, EnteredRun
<1>5. /\ LastTableStep(migrations[m].plan) \in Nat
      /\ StepCount(migrations[m].plan) = LastTableStep(migrations[m].plan) + 5
  BY <1>3, StepCounts
<1>6. TypeOK'
  BY <1>2, <1>4 DEF TypeOK
<1>7. AtPlannedStep'
  BY <1>2, <1>3, <1>4, <1>5 DEF AtPlannedStep
<1>8. GreensGrow' /\ CheckpointsHold' /\ Unfinished' = Unfinished
  BY <1>2, RowsKept
<1>9. WorksForNewest'
  BY <1>1, <1>4, <1>8 DEF WorksForNewest
<1>10. RunHolds'
  <2>1. HasSwapped' => migrations[m].progress >= SwapAt(migrations[m].plan)
    BY <1>3, <1>4, <1>5 DEF HasSwapped, SwapAt
  <2>2. HasSwapped' => Served(m)
    BY <2>1, <1>1 DEF CheckpointsHold
  <2> QED
    BY <1>2, <1>4, <2>2 DEF RunHolds, Served, Switched
<1> QED
  BY <1>6, <1>7, <1>8, <1>9, <1>10

(* Steps that only move on.                                                *)
LEMMA QuietInv ==
  ASSUME DeploymentInv, NEW op, AtStep(op), op # "SwapConsumerViews", StepDone,
         UNCHANGED <<started, faults, migrations, public, swap, green, deployments,
                     lostSwaps>>,
         latest' \in Nat, latest' >= latest
  PROVE  DeploymentInv'
<1>1. TypeOK
  BY DEF DeploymentInv
<1>2. /\ run' \in RunState /\ run'.pc = "progress" /\ run'.plan = run.plan
      /\ run'.step = run.step /\ run'.migration = run.migration
      /\ run'.resumeFrom = run.resumeFrom
  BY <1>1, MovedRun DEF StepDone, PC
<1>3. TypeOK'
  BY <1>1, <1>2 DEF TypeOK
<1> QED
  BY <1>2, <1>3, StepDoneInv

(* Steps that change nothing modelled.                                     *)
LEMMA PassiveStepInv == ASSUME DeploymentInv, PassiveStep PROVE DeploymentInv'
<1>1. PICK op \in {"LockDag", "CreateGreenSchema", "ValidateQuery", "UnlockDag"} :
        AtStep(op)
  BY DEF PassiveStep
<1>2. latest' \in Nat /\ latest' >= latest
  BY DEF PassiveStep, DeploymentInv, TypeOK
<1> QED
  BY <1>1, <1>2, QuietInv DEF PassiveStep

(* The wait that ends well.                                                *)
LEMMA WaitForConvergenceInv ==
  ASSUME DeploymentInv, WaitForConvergence PROVE DeploymentInv'
<1>1. latest' \in Nat /\ latest' >= latest
  BY DEF WaitForConvergence, DeploymentInv, TypeOK
<1> QED
  BY <1>1, QuietInv DEF WaitForConvergence

(* A recorded version is newer, so later plans get newer green schemas.    *)
LEMMA RecordSnapshotInv == ASSUME DeploymentInv, RecordSnapshot PROVE DeploymentInv'
<1>1. latest' \in Nat /\ latest' >= latest
  BY BlueGreenAssumption DEF RecordSnapshot, DeploymentInv, TypeOK
<1> QED
  BY <1>1, QuietInv DEF RecordSnapshot

(* A row of aqueduct.blue_green_deployments is rewritten in place.         *)
LEMMA RewrittenDeployment ==
  ASSUME TypeOK, NEW i \in Nat, NEW status \in {"active", "swapped", "retired"},
         deployments' = [deployments EXCEPT ![i].status = status]
  PROVE  deployments' \in Seq(DeploymentRow)
<1>1. deployments \in Seq(DeploymentRow)
  BY DEF TypeOK
<1>2. \A row \in DeploymentRow : [row EXCEPT !.status = status] \in DeploymentRow
  BY DEF DeploymentRow
<1>3. CASE i \in DOMAIN deployments
  <2>1. deployments[i] \in DeploymentRow
    BY <1>1, <1>3
  <2> DEFINE new == [deployments[i] EXCEPT !.status = status]
  <2>2. new \in DeploymentRow /\ deployments' = [deployments EXCEPT ![i] = new]
    BY <1>2, <2>1
  <2> HIDE DEF new
  <2> QED
    BY <1>1, <1>3, <2>2
<1>4. CASE i \notin DOMAIN deployments
  <2> DEFINE n == Len(deployments)
  <2>1. n \in Nat /\ deployments \in [1..n -> DeploymentRow] /\ DOMAIN deployments = 1..n
    BY <1>1
  <2>2. deployments' \in [1..n -> DeploymentRow]
    BY <1>4, <2>1
  <2> QED
    BY <2>1, <2>2
<1> QED
  BY <1>3, <1>4

(* The row of a deployment is inserted.                                    *)
LEMMA StartInv ==
  ASSUME DeploymentInv, StartBlueGreenDeployment PROVE DeploymentInv'
<1>1. TypeOK
  BY DEF DeploymentInv
<1>2. /\ AtStep("StartBlueGreenDeployment")
      /\ UNCHANGED <<started, faults, migrations, public, swap, green, latest, lostSwaps>>
  BY DEF StartBlueGreenDeployment
<1>3. deployments' \in Seq(DeploymentRow)
  <2>1. [green |-> run.plan.green, status |-> "active"] \in DeploymentRow
    BY <1>1, RunFields DEF DeploymentRow
  <2> QED
    BY <1>1, <2>1 DEF StartBlueGreenDeployment, TypeOK
<1>4. /\ run' \in RunState /\ run'.pc = "progress" /\ run'.plan = run.plan
      /\ run'.step = run.step /\ run'.migration = run.migration
      /\ run'.resumeFrom = run.resumeFrom
  <2>1. Len(deployments) + 1 \in Nat
    BY <1>1 DEF TypeOK
  <2> QED
    BY <1>1, <2>1 DEF StartBlueGreenDeployment, TypeOK, RunState, PC
<1>5. TypeOK'
  BY <1>1, <1>2, <1>3, <1>4 DEF TypeOK
<1>6. latest' >= latest
  BY <1>1, <1>2 DEF TypeOK
<1> QED
  BY <1>2, <1>4, <1>5, <1>6, StepDoneInv

(* The row of a deployment is retired, or its update lost.                 *)
LEMMA RetireInv == ASSUME DeploymentInv, RetireBlueSchema PROVE DeploymentInv'
<1>1. TypeOK
  BY DEF DeploymentInv
<1>2. /\ AtStep("RetireBlueSchema") /\ StepDone
      /\ UNCHANGED <<started, migrations, public, swap, green, latest, lostSwaps>>
  BY DEF RetireBlueSchema
<1>3. faults' \in Nat
  BY <1>1 DEF RetireBlueSchema, Works, IsLost, Fault, TypeOK
<1>4. deployments' \in Seq(DeploymentRow)
  <2>1. CASE UNCHANGED deployments
    BY <1>1, <2>1 DEF TypeOK
  <2>2. CASE deployments' = [deployments EXCEPT ![run.deployment].status = "retired"]
    BY <1>1, <2>2, RunFields, RewrittenDeployment
  <2> QED
    BY <2>1, <2>2 DEF RetireBlueSchema
<1>5. /\ run' \in RunState /\ run'.pc = "progress" /\ run'.plan = run.plan
      /\ run'.step = run.step /\ run'.migration = run.migration
      /\ run'.resumeFrom = run.resumeFrom
  BY <1>1, <1>2, MovedRun DEF StepDone, PC
<1>6. TypeOK'
  BY <1>1, <1>2, <1>3, <1>4, <1>5 DEF TypeOK
<1>7. latest' >= latest
  BY <1>1, <1>2 DEF TypeOK
<1> QED
  BY <1>2, <1>5, <1>6, <1>7, StepDoneInv

(* A table is created in, or redefined within, the green schema.           *)
LEMMA CreateInv ==
  ASSUME DeploymentInv, CreateStreamTableInGreen PROVE DeploymentInv'
<1>1. TypeOK
  BY DEF DeploymentInv
<1>2. /\ AtStep("CreateStreamTableInGreen") /\ StepDone
      /\ UNCHANGED <<started, faults, migrations, public, swap, deployments, latest,
                     lostSwaps>>
      /\ green' = [green EXCEPT ![run.plan.green][CurrentTable] =
                     Created(@, run.plan.desired[CurrentTable])]
  BY DEF CreateStreamTableInGreen
<1> DEFINE v == run.plan.green
           t == CurrentTable
<1>3. v \in Version /\ run.plan \in Plan /\ run.step \in Nat /\ run.plan.desired \in Dag
  BY <1>1, RunFields
<1>4. t \in Table
  <2>1. run.pc = "exec" /\ OpAt(run.plan, run.step + 1) = "CreateStreamTableInGreen"
    BY <1>2 DEF AtStep, CurrentOp
  <2>2. run.step \in 0..(StepCount(run.plan) - 1)
    BY <1>3, <2>1, StepCounts DEF DeploymentInv, AtPlannedStep
  <2>3. 3 < run.step + 1 /\ run.step + 1 <= LastTableStep(run.plan)
    BY <1>3, <2>1, <2>2, OpIsPlaced
  <2> QED
    BY <1>3, <2>3, StepHasTable DEF CurrentTable
<1> HIDE DEF v, t
<1>5. green \in [Version -> [Table -> GreenTable]]
  BY <1>1 DEF TypeOK
<1> DEFINE made == Created(green[v][t], run.plan.desired[t])
<1>6. made \in GreenTable
  <2>1. green[v][t] \in GreenTable /\ run.plan.desired[t] \in Rev \cup {Absent}
    BY <1>3, <1>4, <1>5 DEF Dag
  <2> QED
    BY <2>1 DEF Created, GreenTable
<1>7. green' = [green EXCEPT ![v] = [green[v] EXCEPT ![t] = made]]
  BY <1>2 DEF v, t
<1> HIDE DEF made
<1>8. green' \in [Version -> [Table -> GreenTable]]
  <2>1. [green[v] EXCEPT ![t] = made] \in [Table -> GreenTable]
    BY <1>3, <1>4, <1>5, <1>6
  <2> QED
    BY <1>3, <1>5, <1>7, <2>1
<1>9. /\ run' \in RunState /\ run'.pc = "progress" /\ run'.plan = run.plan
      /\ run'.step = run.step /\ run'.migration = run.migration
      /\ run'.resumeFrom = run.resumeFrom
  BY <1>1, <1>2, MovedRun DEF StepDone, PC
<1>10. TypeOK'
  BY <1>1, <1>2, <1>8, <1>9 DEF TypeOK
<1>11. latest' >= latest
  BY <1>1, <1>2 DEF TypeOK
<1> QED
  BY <1>2, <1>9, <1>10, <1>11, StepDoneInv

(* The create fails because a table upstream does not exist.               *)
LEMMA CreateFailsInv == ASSUME DeploymentInv, CreateInGreenFails PROVE DeploymentInv'
<1>1. run.pc = "exec" /\ Fails /\ faults' \in Nat
  BY DEF CreateInGreenFails, AtStep, DeploymentInv, TypeOK
<1> QED
  BY <1>1, FailsInv

(* The wait gives up.                                                      *)
LEMMA TimesOutInv == ASSUME DeploymentInv, ConvergenceTimesOut PROVE DeploymentInv'
<1>1. run.pc = "exec" /\ Fails /\ faults' \in Nat
  BY DEF ConvergenceTimesOut, AtStep, DeploymentInv, TypeOK
<1> QED
  BY <1>1, FailsInv

(* The swap meets a table of the view's name and rolls back.               *)
LEMMA NameIsTakenInv == ASSUME DeploymentInv, NameIsTaken PROVE DeploymentInv'
<1>1. run.pc = "swap" /\ Fails /\ faults' \in Nat
  BY DEF NameIsTaken, DeploymentInv, TypeOK
<1> QED
  BY <1>1, FailsInv

(* A statement whose error is propagated fails.                            *)
LEMMA StatementFailsInv == ASSUME DeploymentInv, StatementFails PROVE DeploymentInv'
<1>1. run.pc \in {"progress", "swap", "exec"}
  BY DEF StatementFails, AtStep
<1>2. Fails /\ faults' \in Nat
  BY DEF StatementFails, Fault, DeploymentInv, TypeOK
<1> QED
  BY <1>1, <1>2, FailsInv

(* A crash ends the run; nothing it had not committed is claimed.          *)
LEMMA CrashInv == ASSUME DeploymentInv, Crash PROVE DeploymentInv'
<1>1. TypeOK
  BY DEF DeploymentInv
<1>2. /\ faults' \in Nat /\ run' = IdleRun /\ swap' = NoSwap
      /\ UNCHANGED <<started, migrations, public, green, deployments, latest, lostSwaps>>
  BY <1>1 DEF Crash, Fault, TypeOK
<1>3. IdleRun \in RunState /\ IdleRun.pc = "idle"
  <2>1. 2 \in Version
    BY BlueGreenAssumption DEF Version
  <2>2. NoPlan \in Plan
    BY <2>1, BlueGreenAssumption DEF NoPlan, Plan
  <2> QED
    BY <2>2 DEF IdleRun, RunState, Outcome, PC
<1>4. NoSwap \in [replaced : Nat, marked : BOOLEAN, aborted : BOOLEAN]
  BY DEF NoSwap
<1>5. TypeOK'
  BY <1>1, <1>2, <1>3, <1>4 DEF TypeOK
<1> QED
  BY <1>2, <1>3, <1>5, RunGone

(* A table converges, the transaction proceeds: the run is where it was.   *)
LEMMA AsideInv ==
  ASSUME DeploymentInv, TypeOK',
         UNCHANGED <<run, migrations, public, latest, lostSwaps>>
  PROVE  DeploymentInv'
<1>1. latest' \in Nat /\ latest' >= latest
  BY DEF DeploymentInv, TypeOK
<1>2. CASE run.pc = "idle"
  BY <1>2, RunGone
<1>3. CASE run.pc # "idle"
  <2>1. run.pc \in {"swap", "commit"} => run.step = SwapAt(run.plan)
    BY <1>3 DEF DeploymentInv, AtPlannedStep
  <2>2. HasSwapped' => HasSwapped
    BY DEF HasSwapped
  <2> QED
    BY <1>1, <1>3, <2>1, <2>2, RunKept
<1> QED
  BY <1>2, <1>3

(* pg_trickle fills a green table.                                         *)
LEMMA ConvergesInv == ASSUME DeploymentInv, TableConverges PROVE DeploymentInv'
<1>1. TypeOK
  BY DEF DeploymentInv
<1>2. PICK v \in Version, t \in Table :
        green' = [green EXCEPT ![v][t].converged = TRUE]
  BY DEF TableConverges
<1>3. green \in [Version -> [Table -> GreenTable]]
  BY <1>1 DEF TypeOK
<1> DEFINE new == [green[v][t] EXCEPT !.converged = TRUE]
<1>4. new \in GreenTable
  <2>1. green[v][t] \in GreenTable
    BY <1>3
  <2> QED
    BY <2>1 DEF GreenTable
<1>5. green' = [green EXCEPT ![v] = [green[v] EXCEPT ![t] = new]]
  BY <1>2
<1> HIDE DEF new
<1>6. green' \in [Version -> [Table -> GreenTable]]
  <2>1. [green[v] EXCEPT ![t] = new] \in [Table -> GreenTable]
    BY <1>3, <1>4
  <2> QED
    BY <1>3, <1>5, <2>1
<1>7. UNCHANGED <<run, started, faults, migrations, public, swap, deployments, latest,
                  lostSwaps>>
  BY DEF TableConverges
<1>8. TypeOK'
  BY <1>1, <1>6, <1>7 DEF TypeOK
<1> QED
  BY <1>7, <1>8, AsideInv

(* The swap transaction begins.                                            *)
LEMMA BeginSwapInv == ASSUME DeploymentInv, BeginSwap PROVE DeploymentInv'
<1>1. TypeOK
  BY DEF DeploymentInv
<1>2. /\ AtStep("SwapConsumerViews") /\ Goto("swap")
      /\ UNCHANGED <<started, faults, migrations, public, swap, green, deployments,
                     latest, lostSwaps>>
  BY DEF BeginSwap
<1>3. run.pc = "exec" /\ run.step = SwapAt(run.plan)
  <2>1. run.pc = "exec" /\ OpAt(run.plan, run.step + 1) = "SwapConsumerViews"
    BY <1>2 DEF AtStep, CurrentOp
  <2>2. run.plan \in Plan /\ run.step \in Nat
    BY <1>1, RunFields
  <2>3. run.step \in 0..(StepCount(run.plan) - 1)
    BY <2>1, <2>2, StepCounts DEF DeploymentInv, AtPlannedStep
  <2> QED
    BY <2>1, <2>2, <2>3, OpIsPlaced
<1>4. /\ run' \in RunState /\ run'.pc = "swap" /\ run'.plan = run.plan
      /\ run'.step = run.step /\ run'.migration = run.migration
      /\ run'.resumeFrom = run.resumeFrom
  BY <1>1, <1>2, MovedRun DEF PC
<1>5. TypeOK'
  BY <1>1, <1>2, <1>4 DEF TypeOK
<1>6. HasSwapped' => HasSwapped
  BY <1>4 DEF HasSwapped
<1>7. latest' >= latest
  BY <1>1, <1>2 DEF TypeOK
<1> QED
  BY <1>2, <1>3, <1>4, <1>5, <1>6, <1>7, RunKept

(* A view is replaced inside the transaction, which nobody sees.           *)
LEMMA ReplaceViewInv == ASSUME DeploymentInv, ReplaceView PROVE DeploymentInv'
<1>1. TypeOK
  BY DEF DeploymentInv
<1>2. UNCHANGED <<run, started, faults, migrations, public, green, deployments, latest,
                  lostSwaps>>
  BY DEF ReplaceView
<1>3. swap' \in [replaced : Nat, marked : BOOLEAN, aborted : BOOLEAN]
  <2>1. swap \in [replaced : Nat, marked : BOOLEAN, aborted : BOOLEAN]
    BY <1>1 DEF TypeOK
  <2>2. swap' = [swap EXCEPT !.replaced = swap.replaced + 1] /\ swap.replaced + 1 \in Nat
    BY <2>1 DEF ReplaceView
  <2> QED
    BY <2>1, <2>2
<1>4. TypeOK'
  BY <1>1, <1>2, <1>3 DEF TypeOK
<1> QED
  BY <1>2, <1>4, AsideInv

(* The row is marked inside the transaction, or the transaction aborted.   *)
LEMMA MarkSwappedInv == ASSUME DeploymentInv, MarkSwapped PROVE DeploymentInv'
<1>1. TypeOK
  BY DEF DeploymentInv
<1>2. /\ run.pc = "swap" /\ Goto("commit") /\ faults' \in Nat
      /\ UNCHANGED <<started, migrations, public, green, deployments, latest, lostSwaps>>
  BY <1>1 DEF MarkSwapped, Works, IsLost, Fault, TypeOK
<1>3. swap' \in [replaced : Nat, marked : BOOLEAN, aborted : BOOLEAN]
  BY <1>1 DEF MarkSwapped, TypeOK
<1>4. /\ run' \in RunState /\ run'.pc = "commit" /\ run'.plan = run.plan
      /\ run'.step = run.step /\ run'.migration = run.migration
      /\ run'.resumeFrom = run.resumeFrom
  BY <1>1, <1>2, MovedRun DEF PC
<1>5. TypeOK'
  BY <1>1, <1>2, <1>3, <1>4 DEF TypeOK
<1>6. run.step = SwapAt(run.plan)
  BY <1>2 DEF DeploymentInv, AtPlannedStep
<1>7. HasSwapped' => HasSwapped
  BY <1>4 DEF HasSwapped
<1>8. latest' >= latest
  BY <1>1, <1>2 DEF TypeOK
<1> QED
  BY <1>2, <1>4, <1>5, <1>6, <1>7, <1>8, RunKept

(* The commit comes when every view of the plan has been replaced.          *)
AllReplaced == run.pc = "commit" => swap.replaced = Len(run.plan.tables)

LEMMA ReplacesAll ==
  ASSUME AllReplaced, TypeOK, [Next]_vars PROVE AllReplaced'
<1> SUFFICES ASSUME run'.pc = "commit" PROVE AllReplaced'
  BY DEF AllReplaced
<1>1. CASE UNCHANGED <<run, swap>>
  BY <1>1 DEF AllReplaced
<1>2. CASE MarkSwapped
  <2>1. swap.replaced = Len(run.plan.tables)
    BY <1>2 DEF MarkSwapped
  <2>2. run'.plan = run.plan
    BY <1>2, MovedRun DEF MarkSwapped, PC
  <2>3. swap'.replaced = swap.replaced
    BY <1>2 DEF MarkSwapped, TypeOK
  <2> QED
    BY <2>1, <2>2, <2>3 DEF AllReplaced
<1>3. CASE ReplaceView
  BY <1>3 DEF ReplaceView
<1>4. \/ UNCHANGED <<run, swap>> \/ MarkSwapped \/ ReplaceView
  <2>1. CASE Apply \/ ResumeApply \/ FinishMigration \/ Crash
    <3>1. IdleRun.pc = "idle" /\ \A plan, m, from : Entered(plan, m, from).pc = "exec"
      BY DEF Entered, IdleRun
    <3>2. run' = IdleRun \/ \E plan, m, from : run' = Entered(plan, m, from)
      BY <2>1 DEF Apply, ResumeApply, FinishMigration, Crash
    <3> QED
      BY <3>1, <3>2
  <2>2. CASE SaveProgress
    BY <2>2 DEF SaveProgress, Ends, TypeOK, RunState
  <2>3. CASE \/ CreateInGreenFails \/ ConvergenceTimesOut \/ NameIsTaken
             \/ StatementFails
    BY <2>3, FailedRun DEF CreateInGreenFails, ConvergenceTimesOut, NameIsTaken,
       StatementFails
  <2>4. CASE StartBlueGreenDeployment
    BY <2>4 DEF StartBlueGreenDeployment, TypeOK, RunState
  <2>5. CASE \/ PassiveStep \/ CreateStreamTableInGreen \/ WaitForConvergence
             \/ BeginSwap \/ CommitSwap \/ RetireBlueSchema \/ RecordSnapshot
    BY <2>5, MovedRun DEF PassiveStep, CreateStreamTableInGreen, WaitForConvergence,
       BeginSwap, CommitSwap, RetireBlueSchema, RecordSnapshot, StepDone, PC
  <2> QED
    BY <2>1, <2>2, <2>3, <2>4, <2>5
       DEF Next, Advance, SwapBody, vars, TableConverges
<1> QED
  BY <1>1, <1>2, <1>3, <1>4

(* So a COMMIT switches all views of its plan, or it was a ROLLBACK.       *)
LEMMA CommitSwitchesPlan ==
  ASSUME TypeOK, AllReplaced, CommitSwap
  PROVE  \/ /\ swap.aborted
            /\ lostSwaps' = lostSwaps \cup {run.migration}
            /\ UNCHANGED <<public, deployments>>
         \/ /\ ~swap.aborted
            /\ public' = [t \in Table |-> IF t \in TablesOf(run.plan)
                                          THEN run.plan.green ELSE public[t]]
            /\ deployments' = IF swap.marked
                  THEN [deployments EXCEPT ![run.deployment].status = "swapped"]
                  ELSE deployments
            /\ UNCHANGED lostSwaps
<1>1. swap.replaced = Len(run.plan.tables)
  BY DEF AllReplaced, CommitSwap
<1>2. DOMAIN run.plan.tables = 1..Len(run.plan.tables)
  BY RunFields
<1>3. Replaced = TablesOf(run.plan)
  BY <1>1, <1>2 DEF Replaced, TablesOf
<1> QED
  BY <1>3 DEF CommitSwap

(* The commit: the views of the plan move to its schema, those of others   *)
(* stay.  Any other unfinished migration is older, so its schema is no     *)
(* greener, and what it had switched stays switched to as much.            *)
LEMMA CommitSwapInv ==
  ASSUME DeploymentInv, AllReplaced, CommitSwap PROVE DeploymentInv'
<1> USE DEF DeploymentInv
<1>1. /\ run.pc = "commit" /\ swap' = NoSwap
      /\ UNCHANGED <<started, faults, migrations, green, latest>>
      /\ run.step = SwapAt(run.plan)
      /\ run.migration \in DOMAIN migrations /\ run.migration \in Unfinished
      /\ run.plan = migrations[run.migration].plan
  BY DEF CommitSwap, AtPlannedStep, WorksForNewest
<1>2. /\ run' \in RunState /\ run'.pc = "progress" /\ run'.plan = run.plan
      /\ run'.step = run.step /\ run'.migration = run.migration
      /\ run'.resumeFrom = run.resumeFrom
  BY MovedRun DEF CommitSwap, StepDone, PC
<1>3. run.plan \in Plan /\ run.plan.green \in Nat /\ run.deployment \in Nat
      /\ run.migration \in Nat
  BY RunFields DEF Version
<1>4. \A m \in DOMAIN migrations : migrations[m].plan.green \in Nat
  BY MigrationRows DEF Plan, Version
<1>5. public' \in [Table -> Nat]
  BY <1>3, CommitSwitchesPlan DEF TypeOK
<1>6. deployments' \in Seq(DeploymentRow)
  <2>1. CASE UNCHANGED deployments
    BY <2>1 DEF TypeOK
  <2>2. CASE deployments' = [deployments EXCEPT ![run.deployment].status = "swapped"]
    BY <1>3, <2>2, RewrittenDeployment
  <2> QED
    BY <2>1, <2>2, CommitSwitchesPlan
<1>7. lostSwaps' \in SUBSET Nat /\ lostSwaps \subseteq lostSwaps'
      /\ lostSwaps' \subseteq lostSwaps \cup {run.migration}
  BY <1>3, CommitSwitchesPlan DEF TypeOK
<1>8. NoSwap \in [replaced : Nat, marked : BOOLEAN, aborted : BOOLEAN]
  BY DEF NoSwap
<1>9. TypeOK'
  BY <1>1, <1>2, <1>5, <1>6, <1>7, <1>8 DEF TypeOK
<1>10. Unfinished' = Unfinished
  BY <1>1 DEF Unfinished
<1>11. \A m \in Unfinished :
         m \in DOMAIN migrations /\ migrations[m].plan.green <= run.plan.green
  BY <1>1, <1>10 DEF Unfinished, WorksForNewest, GreensGrow
<1>12. \A t \in Table :
         public'[t] = public[t] \/ (public'[t] = run.plan.green /\ t \in TablesOf(run.plan))
  BY CommitSwitchesPlan
<1>13. ASSUME NEW m \in Unfinished, Served(m) PROVE Served(m)'
  <2>1. CASE m \in lostSwaps
    BY <1>7, <2>1 DEF Served
  <2>2. CASE Switched(migrations[m].plan)
    <3>1. \A t \in TablesOf(migrations[m].plan) : t \in Table
      BY <1>11, MigrationRows DEF TablesOf, Plan
    <3>2. \A t \in TablesOf(migrations[m].plan) : public'[t] >= migrations[m].plan.green
      BY <1>4, <1>11, <1>12, <2>2, <3>1 DEF Switched
    <3> QED
      BY <1>1, <3>2 DEF Served, Switched, TablesOf
  <2> QED
    BY <1>13, <2>1, <2>2 DEF Served
<1>14. Switched(run.plan)' \/ run.migration \in lostSwaps'
  <2>1. CASE lostSwaps' = lostSwaps \cup {run.migration}
    BY <2>1
  <2>2. CASE public' = [t \in Table |-> IF t \in TablesOf(run.plan)
                                        THEN run.plan.green ELSE public[t]]
    <3>1. \A t \in TablesOf(run.plan) : t \in Table
      BY <1>3 DEF TablesOf, Plan
    <3>2. \A t \in TablesOf(run.plan) : public'[t] >= run.plan.green
      BY <1>3, <2>2, <3>1
    <3> QED
      BY <1>2, <3>2 DEF Switched, TablesOf
  <2> QED
    BY <2>1, <2>2, CommitSwitchesPlan
<1>15. AtPlannedStep'
  BY <1>1, <1>2 DEF AtPlannedStep
<1>16. GreensGrow'
  BY <1>1 DEF GreensGrow
<1>17. WorksForNewest'
  BY <1>1, <1>2, <1>10 DEF WorksForNewest
<1>18. CheckpointsHold'
  <2> SUFFICES ASSUME NEW m \in Unfinished',
                      (migrations[m].progress >= SwapAt(migrations[m].plan))'
               PROVE  Served(m)'
    BY DEF CheckpointsHold
  <2>1. Served(m)
    BY <1>1, <1>10 DEF CheckpointsHold, SwapAt, LastTableStep
  <2> QED
    BY <1>10, <1>13, <2>1
<1>19. RunHolds'
  BY <1>1, <1>2, <1>14 DEF RunHolds, Served, Switched, TablesOf
<1> QED
  BY <1>9, <1>15, <1>16, <1>17, <1>18, <1>19

(* A migration row is rewritten while its run goes on or ends: greens and  *)
(* what is served do not depend on progress and status.                    *)
LEMMA RowRewritten ==
  ASSUME DeploymentInv, NEW m \in DOMAIN migrations, NEW row \in MigrationRow,
         row.plan = migrations[m].plan, migrations' = [migrations EXCEPT ![m] = row],
         UNCHANGED <<public, latest, lostSwaps>>
  PROVE  /\ GreensGrow'
         /\ \A n \in DOMAIN migrations : Served(n)' <=> Served(n)
         /\ DOMAIN migrations' = DOMAIN migrations
         /\ \A n \in DOMAIN migrations :
              /\ migrations'[n] = IF n = m THEN row ELSE migrations[n]
              /\ migrations'[n].plan = migrations[n].plan
<1>1. /\ DOMAIN migrations' = DOMAIN migrations
      /\ \A n \in DOMAIN migrations :
           /\ migrations'[n] = IF n = m THEN row ELSE migrations[n]
           /\ migrations'[n].plan = migrations[n].plan
  BY RewrittenMigration DEF DeploymentInv
<1>2. GreensGrow'
  BY <1>1 DEF DeploymentInv, GreensGrow
<1>3. ASSUME NEW n \in DOMAIN migrations PROVE Served(n)' <=> Served(n)
  BY <1>1 DEF Served, Switched, TablesOf
<1> QED
  BY <1>1, <1>2, <1>3

(* The checkpoint is as true as the run's own position.                    *)
LEMMA SaveProgressInv == ASSUME DeploymentInv, SaveProgress PROVE DeploymentInv'
<1> USE DEF DeploymentInv
<1> DEFINE m == run.migration
           swapAt == SwapAt(run.plan)
           row == [migrations[m] EXCEPT !.progress = run.step]
<1>1. /\ run.pc = "progress"
      /\ UNCHANGED <<started, public, swap, green, deployments, latest, lostSwaps>>
      /\ m \in DOMAIN migrations /\ run.plan = migrations[m].plan
      /\ m \in Unfinished /\ run.step < StepCount(run.plan) /\ faults' \in Nat
  BY DEF SaveProgress, AtPlannedStep, WorksForNewest, Works, Fault, TypeOK
<1>2. /\ run.plan \in Plan /\ run.step \in Nat /\ run.resumeFrom \in Nat
      /\ swapAt \in Nat /\ StepCount(run.plan) = swapAt + 4
  BY RunFields, StepCounts DEF SwapAt
<1>3. /\ row \in MigrationRow /\ row.plan = migrations[m].plan
      /\ row.progress = run.step /\ row.status = migrations[m].status
  BY <1>1, <1>2, MigrationRows DEF MigrationRow
<1>4. migrations' = [migrations EXCEPT ![m] = row]
  BY DEF SaveProgress
<1>5. /\ \/ /\ NextStep < StepCount(run.plan)
            /\ run' = [run EXCEPT !.pc = "exec", !.step = NextStep]
         \/ /\ NextStep >= StepCount(run.plan)
            /\ run' = [run EXCEPT !.pc = "finish", !.outcome = "ok"]
         \/ run' = [run EXCEPT !.pc = "finish", !.outcome = "interrupted"]
      /\ NextStep \in Nat
      /\ NextStep > swapAt => run.step >= swapAt \/ run.resumeFrom > swapAt
  BY <1>2 DEF SaveProgress, Ends, NextStep
<1> HIDE DEF row, swapAt
<1>6. /\ run' \in RunState /\ run'.plan = run.plan /\ run'.migration = m
      /\ run'.resumeFrom = run.resumeFrom /\ run'.pc \in {"exec", "finish"}
      /\ run'.step = run.step \/ run'.step = NextStep
      /\ run'.step < StepCount(run.plan)
      /\ run'.pc = "finish" /\ run'.outcome = "ok" => NextStep >= StepCount(run.plan)
      /\ run'.pc = "finish" => run'.step = run.step
  <2>1. CASE /\ NextStep < StepCount(run.plan)
             /\ run' = [run EXCEPT !.pc = "exec", !.step = NextStep]
    BY <1>5, <2>1 DEF TypeOK, RunState, Outcome, PC
  <2>2. CASE /\ NextStep >= StepCount(run.plan)
             /\ run' = [run EXCEPT !.pc = "finish", !.outcome = "ok"]
    BY <1>1, <2>2 DEF TypeOK, RunState, Outcome, PC
  <2>3. CASE run' = [run EXCEPT !.pc = "finish", !.outcome = "interrupted"]
    BY <1>1, <2>3 DEF TypeOK, RunState, Outcome, PC
  <2> QED
    BY <1>5, <2>1, <2>2, <2>3
<1>7. migrations' \in Seq(MigrationRow)
  BY <1>1, <1>3, <1>4, RewrittenMigration
<1>8. TypeOK'
  BY <1>1, <1>6, <1>7 DEF TypeOK
<1>9. /\ GreensGrow' /\ \A n \in DOMAIN migrations : Served(n)' <=> Served(n)
      /\ DOMAIN migrations' = DOMAIN migrations
      /\ \A n \in DOMAIN migrations :
           /\ migrations'[n] = IF n = m THEN row ELSE migrations[n]
           /\ migrations'[n].plan = migrations[n].plan
  BY <1>1, <1>3, <1>4, RowRewritten
<1>10. AtPlannedStep'
  BY <1>1, <1>6, <1>9 DEF AtPlannedStep
<1>11. Unfinished' = Unfinished
  BY <1>1, <1>3, <1>9 DEF Unfinished
<1>12. WorksForNewest'
  BY <1>1, <1>6, <1>11 DEF WorksForNewest
<1>13. run.step >= swapAt \/ run.resumeFrom > swapAt => Served(m)
  BY <1>1, <1>2 DEF RunHolds, HasSwapped, swapAt
<1>14. CheckpointsHold'
  <2> SUFFICES ASSUME NEW n \in Unfinished',
                      (migrations[n].progress >= SwapAt(migrations[n].plan))'
               PROVE  Served(n)'
    BY DEF CheckpointsHold
  <2>1. n \in Unfinished /\ n \in DOMAIN migrations
    BY <1>11 DEF Unfinished
  <2>2. migrations'[n].progress >= SwapAt(migrations[n].plan)
    BY <1>9, <2>1 DEF SwapAt, LastTableStep
  <2>3. CASE n = m
    BY <1>1, <1>3, <1>9, <1>13, <2>1, <2>2, <2>3 DEF swapAt
  <2>4. CASE n # m
    BY <1>9, <2>1, <2>2, <2>4 DEF CheckpointsHold
  <2> QED
    BY <2>3, <2>4
<1>15. RunHolds'
  <2>1. HasSwapped' => run.step >= swapAt \/ run.resumeFrom > swapAt
    BY <1>2, <1>5, <1>6 DEF HasSwapped, SwapAt, LastTableStep, swapAt
  <2>2. HasSwapped' => Served(m)
    BY <1>13, <2>1
  <2> QED
    BY <1>1, <1>6, <1>9, <2>2 DEF RunHolds, Served, Switched, TablesOf
<1> QED
  BY <1>8, <1>9, <1>10, <1>12, <1>14, <1>15

(* The migration gets its outcome: a committed one is not resumed, a       *)
(* recoverable one keeps its checkpoint.                                   *)
LEMMA FinishMigrationInv == ASSUME DeploymentInv, FinishMigration PROVE DeploymentInv'
<1> USE DEF DeploymentInv
<1> DEFINE m == run.migration
<1>1. /\ run.pc = "finish" /\ run' = IdleRun /\ faults' \in Nat
      /\ UNCHANGED <<started, public, swap, green, deployments, latest, lostSwaps>>
      /\ m \in DOMAIN migrations
  BY DEF FinishMigration, AtPlannedStep, Works, IsLost, Fault, TypeOK
<1>2. IdleRun \in RunState /\ IdleRun.pc = "idle"
  <2>1. 2 \in Version
    BY BlueGreenAssumption DEF Version
  <2>2. NoPlan \in Plan
    BY <2>1, BlueGreenAssumption DEF NoPlan, Plan
  <2> QED
    BY <2>2 DEF IdleRun, RunState, Outcome, PC
<1>3. CASE UNCHANGED migrations
  <2>1. TypeOK'
    BY <1>1, <1>2, <1>3 DEF TypeOK
  <2> QED
    BY <1>1, <1>2, <1>3, <2>1, RunGone
<1>4. CASE migrations' = [migrations EXCEPT ![m].status = OutcomeOf]
  <2> DEFINE row == [migrations[m] EXCEPT !.status = OutcomeOf]
  <2>1. /\ row \in MigrationRow /\ row.plan = migrations[m].plan
        /\ row.progress = migrations[m].progress
        /\ row.status \in {"running", "recoverable_failure"} => run.outcome # "ok"
    BY <1>1, MigrationRows DEF MigrationRow, OutcomeOf
  <2>2. migrations' = [migrations EXCEPT ![m] = row]
    BY <1>4
  <2> HIDE DEF row
  <2>3. migrations' \in Seq(MigrationRow)
    BY <1>1, <2>1, <2>2, RewrittenMigration
  <2>4. TypeOK'
    BY <1>1, <1>2, <2>3 DEF TypeOK
  <2>5. /\ GreensGrow' /\ \A n \in DOMAIN migrations : Served(n)' <=> Served(n)
        /\ DOMAIN migrations' = DOMAIN migrations
        /\ \A n \in DOMAIN migrations :
             /\ migrations'[n] = IF n = m THEN row ELSE migrations[n]
             /\ migrations'[n].plan = migrations[n].plan
    BY <1>1, <2>1, <2>2, RowRewritten
  <2>6. CheckpointsHold'
    <3> SUFFICES ASSUME NEW n \in Unfinished',
                        (migrations[n].progress >= SwapAt(migrations[n].plan))'
                 PROVE  Served(n)'
      BY DEF CheckpointsHold
    <3>1. n \in DOMAIN migrations
      BY <2>5 DEF Unfinished
    <3>2. n \in Unfinished
      BY <1>1, <2>5, <3>1 DEF Unfinished, WorksForNewest
    <3>3. migrations[n].progress >= SwapAt(migrations[n].plan)
      BY <2>1, <2>5, <3>1 DEF SwapAt, LastTableStep
    <3> QED
      BY <2>5, <3>1, <3>2, <3>3 DEF CheckpointsHold
  <2>7. AtPlannedStep' /\ WorksForNewest' /\ RunHolds'
    BY <1>1, <1>2 DEF AtPlannedStep, WorksForNewest, RunHolds
  <2> QED
    BY <2>4, <2>5, <2>6, <2>7
<1> QED
  BY <1>3, <1>4 DEF FinishMigration

-----------------------------------------------------------------------------
(* Every step of the system preserves the invariant.                       *)
LEMMA StepInv == DeploymentInv /\ AllReplaced /\ [Next]_vars => DeploymentInv' /\ AllReplaced'
<1> SUFFICES ASSUME DeploymentInv, AllReplaced, [Next]_vars PROVE DeploymentInv'
  BY ReplacesAll DEF DeploymentInv
<1>1. CASE UNCHANGED vars
  <2>1. TypeOK'
    BY <1>1 DEF DeploymentInv, TypeOK, vars
  <2> QED
    BY <1>1, <2>1, AsideInv DEF vars
<1>2. CASE Apply \/ ResumeApply \/ TableConverges \/ StatementFails \/ Crash
  BY <1>2, ApplyInv, ResumeApplyInv, ConvergesInv, StatementFailsInv, CrashInv
<1>3. CASE SwapBody
  BY <1>3, BeginSwapInv, ReplaceViewInv, NameIsTakenInv, MarkSwappedInv, CommitSwapInv
     DEF SwapBody
<1>4. CASE \/ PassiveStep \/ StartBlueGreenDeployment \/ CreateStreamTableInGreen
           \/ CreateInGreenFails \/ WaitForConvergence \/ ConvergenceTimesOut
           \/ RetireBlueSchema \/ RecordSnapshot \/ SaveProgress \/ FinishMigration
  BY <1>4, PassiveStepInv, StartInv, CreateInv, CreateFailsInv, WaitForConvergenceInv,
     TimesOutInv, RetireInv, RecordSnapshotInv, SaveProgressInv, FinishMigrationInv
<1> QED
  BY <1>1, <1>2, <1>3, <1>4 DEF Next, Advance

(* In every reachable state, whatever is checkpointed or reported as past  *)
(* the swap has switched its views, or its COMMIT was lost                 *)
(* (SwapConsumerViews and find_resume_step).                               *)
THEOREM DeploymentInvariant == Spec => []DeploymentInv
<1>1. Init => AllReplaced
  BY DEF Init, IdleRun, AllReplaced
<1> QED
  BY <1>1, InitInv, StepInv, PTL DEF Spec

(* The state of a deployment keeps its shape, for any tables and bounds.   *)
THEOREM DeploymentTypes == Spec => []TypeOK
<1>1. DeploymentInv => TypeOK
  BY DEF DeploymentInv
<1> QED
  BY <1>1, DeploymentInvariant, PTL

(* A run that ends well has switched its views, however often it crashed   *)
(* and was resumed and whatever other runs did between, unless its COMMIT  *)
(* silently rolled back.                                                   *)
THEOREM SuccessMeansSwitched == Spec => []SuccessIsSwitched
<1>1. DeploymentInv => SuccessIsSwitched
  BY DEF DeploymentInv, RunHolds, HasSwapped, AtPlannedStep, Served, SuccessIsSwitched
<1> QED
  BY <1>1, DeploymentInvariant, PTL

-----------------------------------------------------------------------------
(* Why a view is only ever switched to a table that has converged: the     *)
(* wait may be long past, in a run that died, and other runs may have      *)
(* redefined tables of the same green schema since.                        *)

(* The steps of a plan, counted from 0: the wait, and the create of its    *)
(* i-th table.                                                             *)
WaitAt(plan) == LastTableStep(plan)
CreateAt(i) == 2 * i + 2

(* The run has the step behind it, or skips it.                            *)
Past(step) ==
  \/ run.step > step
  \/ run.resumeFrom > step
  \/ run.step = step /\ run.pc = "progress"
  \/ run.pc = "finish" /\ run.outcome = "ok"

PlansBuild ==
  \A m \in DOMAIN migrations : \A i \in DOMAIN migrations[m].plan.tables :
    migrations[m].plan.desired[migrations[m].plan.tables[i]] # Absent

(* Behind LockDag the run is not below its resume point, and its           *)
(* checkpoint is not ahead of it.                                          *)
AtResumePoint ==
  run.pc # "idle" /\ run.step > 0 =>
    /\ run.step >= run.resumeFrom
    /\ migrations[run.migration].progress <= run.step

(* What is created stays: a poll that finds no table running then means    *)
(* that all of them have converged, not that they are missing.             *)
BuiltAt(plan, i) == green[plan.green][plan.tables[i]].rev # Absent

CheckpointsBuilt ==
  \A m \in Unfinished : \A i \in DOMAIN migrations[m].plan.tables :
    migrations[m].progress >= CreateAt(i) => BuiltAt(migrations[m].plan, i)

RunBuilt ==
  run.pc # "idle" =>
    \A i \in DOMAIN run.plan.tables : Past(CreateAt(i)) => BuiltAt(run.plan, i)

(* A table that a checkpoint says has converged may be filled anew, by a   *)
(* newer migration that has still to wait for it: --resume picks that one  *)
(* first, and it is over only when its wait is.  If that one was           *)
(* interrupted, --resume passes over it, and the table is still its excuse.*)
Converged(plan, t) == green[plan.green][t].converged

Rebuilding(m, t) ==
  \E n \in DOMAIN migrations :
    /\ n > m /\ migrations[n].status # "committed"
    /\ migrations[n].plan.green = migrations[m].plan.green
    /\ t \in TablesOf(migrations[n].plan)
    /\ migrations[n].progress < WaitAt(migrations[n].plan)

CheckpointsWaited ==
  \A m \in Unfinished : \A t \in TablesOf(migrations[m].plan) :
    migrations[m].progress >= WaitAt(migrations[m].plan) =>
      Converged(migrations[m].plan, t) \/ Rebuilding(m, t)

RunWaited ==
  run.pc # "idle" /\ Past(WaitAt(run.plan)) =>
    \A t \in TablesOf(run.plan) :
      Converged(run.plan, t) \/ Rebuilding(run.migration, t)

WaitInv ==
  /\ DeploymentInv /\ AllReplaced /\ PlansBuild /\ AtResumePoint
  /\ CheckpointsBuilt /\ RunBuilt /\ CheckpointsWaited /\ RunWaited

(* A run that knows the row of its deployment has skipped no step, and     *)
(* past the swap the row says so, unless the COMMIT was lost.              *)
RunKnowsRow ==
  run.pc # "idle" /\ run.deployment # 0 =>
    /\ run.deployment \in DOMAIN deployments
    /\ deployments[run.deployment].green = run.plan.green
    /\ run.resumeFrom <= 1
    /\ run.pc = "commit" => swap.marked \/ swap.aborted
    /\ HasSwapped => \/ deployments[run.deployment].status \in {"swapped", "retired"}
                     \/ run.migration \in lostSwaps

-----------------------------------------------------------------------------
(* Where the create of a table is, and which table a create is about.      *)
LEMMA TableSteps ==
  ASSUME NEW plan \in Plan, NEW i \in DOMAIN plan.tables
  PROVE  /\ i \in Nat /\ plan.tables[i] \in Table /\ plan.tables[i] \in TablesOf(plan)
         /\ CreateAt(i) \in Nat /\ CreateAt(i) >= 4 /\ CreateAt(i) < WaitAt(plan)
         /\ OpAt(plan, CreateAt(i) + 1) = "CreateStreamTableInGreen"
<1>1. /\ plan.tables \in Seq(Table) /\ Len(plan.tables) \in Nat
      /\ DOMAIN plan.tables = 1..Len(plan.tables)
  BY DEF Plan
<1>2. i \in 1..Len(plan.tables)
  BY <1>1
<1>3. /\ CreateAt(i) \in Nat /\ CreateAt(i) >= 4 /\ CreateAt(i) < WaitAt(plan)
  BY <1>1, <1>2 DEF CreateAt, WaitAt, LastTableStep
<1>4. OpAt(plan, CreateAt(i) + 1) = "CreateStreamTableInGreen"
  <2>1. /\ ~(CreateAt(i) + 1 <= 3) /\ 3 < CreateAt(i) + 1
        /\ CreateAt(i) + 1 <= LastTableStep(plan)
        /\ ~(LastTableStep(plan) < CreateAt(i) + 1)
    BY <1>1, <1>2 DEF CreateAt, LastTableStep
  <2>2. (CreateAt(i) + 1) % 2 # 0
    BY <1>2 DEF CreateAt
  <2>3. OpAt(plan, CreateAt(i) + 1) =
          IF (CreateAt(i) + 1) % 2 = 0 THEN "ValidateQuery" ELSE "CreateStreamTableInGreen"
    BY <2>1 DEF OpAt
  <2> QED
    BY <2>2, <2>3
<1> QED
  BY <1>1, <1>2, <1>3, <1>4 DEF TablesOf

LEMMA WaitStep ==
  ASSUME NEW plan \in Plan
  PROVE  /\ WaitAt(plan) \in Nat /\ WaitAt(plan) >= 3
         /\ StepCount(plan) = WaitAt(plan) + 5 /\ SwapAt(plan) = WaitAt(plan) + 1
         /\ OpAt(plan, WaitAt(plan) + 1) = "WaitForConvergence"
<1>1. LastTableStep(plan) \in Nat /\ LastTableStep(plan) >= 3
  BY StepCounts
<1>2. OpAt(plan, LastTableStep(plan) + 1) = Closing[1]
  <2>1. /\ ~(LastTableStep(plan) + 1 <= 3)
        /\ ~(3 < LastTableStep(plan) + 1 /\ LastTableStep(plan) + 1 <= LastTableStep(plan))
        /\ LastTableStep(plan) < LastTableStep(plan) + 1
        /\ (LastTableStep(plan) + 1) - LastTableStep(plan) = 1
    BY <1>1
  <2> QED
    BY <2>1 DEF OpAt
<1> QED
  BY <1>1, <1>2, StepCounts, OpeningAndClosing DEF WaitAt, SwapAt

LEMMA CreatesTable ==
  ASSUME NEW plan \in Plan, NEW step \in 0..(StepCount(plan) - 1),
         OpAt(plan, step + 1) = "CreateStreamTableInGreen"
  PROVE  \E i \in DOMAIN plan.tables :
           step = CreateAt(i) /\ TableAt(plan, step + 1) = plan.tables[i]
<1>1. 3 < step + 1 /\ step + 1 <= LastTableStep(plan)
  BY OpIsPlaced
<1>2. /\ step \in Nat /\ Len(plan.tables) \in Nat
      /\ DOMAIN plan.tables = 1..Len(plan.tables)
  BY <1>1, StepCounts DEF Plan
<1>3. (step + 1) % 2 # 0
  <2>1. ~(step + 1 <= 3) /\ ~(LastTableStep(plan) < step + 1)
    BY <1>1, <1>2, StepCounts
  <2>2. OpAt(plan, step + 1) =
          IF (step + 1) % 2 = 0 THEN "ValidateQuery" ELSE "CreateStreamTableInGreen"
    BY <1>1, <2>1 DEF OpAt
  <2> QED
    BY <2>2
<1>4. PICK i \in Nat : step = 2 * i + 2 /\ i = (step - 1) \div 2 /\ i >= 1
  <2> WITNESS (step - 1) \div 2 \in Nat
  <2> QED
    BY <1>1, <1>2, <1>3
<1>5. i <= Len(plan.tables)
  BY <1>1, <1>2, <1>4 DEF LastTableStep
<1>6. (step + 1) - 2 = step - 1
  BY <1>2
<1> QED
  BY <1>2, <1>4, <1>5, <1>6 DEF CreateAt, TableAt

-----------------------------------------------------------------------------
(* A green table is not dropped, and what has been filled stays so.        *)
GreenKept ==
  \A v \in Version, t \in Table :
    /\ green[v][t].rev # Absent => green'[v][t].rev # Absent
    /\ green[v][t].converged => green'[v][t].converged

(* The checkpoints depend on nothing else.                                 *)
LEMMA CheckpointsKept ==
  ASSUME WaitInv, GreenKept, UNCHANGED migrations
  PROVE  /\ Unfinished' = Unfinished
         /\ PlansBuild' /\ CheckpointsBuilt' /\ CheckpointsWaited'
<1>1. Unfinished' = Unfinished
  BY DEF Unfinished
<1>2. \A m \in DOMAIN migrations : migrations[m].plan \in Plan
  BY MigrationRows DEF WaitInv, DeploymentInv
<1>3. PlansBuild'
  BY DEF WaitInv, PlansBuild
<1>4. CheckpointsBuilt'
  <2> SUFFICES ASSUME NEW m \in Unfinished, NEW i \in DOMAIN migrations[m].plan.tables,
                      migrations[m].progress >= CreateAt(i)
               PROVE  BuiltAt(migrations[m].plan, i)'
    BY <1>1 DEF CheckpointsBuilt
  <2>1. BuiltAt(migrations[m].plan, i)
    BY DEF WaitInv, CheckpointsBuilt
  <2>2. migrations[m].plan.green \in Version /\ migrations[m].plan.tables[i] \in Table
    BY <1>2, TableSteps DEF Unfinished, Plan
  <2> QED
    BY <2>1, <2>2 DEF BuiltAt, GreenKept
<1>5. CheckpointsWaited'
  <2> SUFFICES ASSUME NEW m \in Unfinished, NEW t \in TablesOf(migrations[m].plan),
                      migrations[m].progress >= WaitAt(migrations[m].plan)
               PROVE  Converged(migrations[m].plan, t)' \/ Rebuilding(m, t)'
    BY <1>1 DEF CheckpointsWaited, WaitAt, LastTableStep, TablesOf
  <2>1. Converged(migrations[m].plan, t) \/ Rebuilding(m, t)
    BY DEF WaitInv, CheckpointsWaited
  <2>2. migrations[m].plan.green \in Version /\ t \in Table
    BY <1>2 DEF Unfinished, Plan, TablesOf
  <2>3. Rebuilding(m, t) => Rebuilding(m, t)'
    BY <1>1 DEF Rebuilding, TablesOf, WaitAt, LastTableStep
  <2>4. Converged(migrations[m].plan, t) => Converged(migrations[m].plan, t)'
    BY <2>2 DEF Converged, GreenKept
  <2> QED
    BY <2>1, <2>3, <2>4
<1> QED
  BY <1>1, <1>3, <1>4, <1>5

(* A run that stays at its step, or has just done it.                      *)
LEMMA RunStays ==
  ASSUME WaitInv, DeploymentInv' /\ AllReplaced', GreenKept, UNCHANGED migrations, run.pc # "idle",
         run'.plan = run.plan, run'.step = run.step, run'.migration = run.migration,
         run'.resumeFrom = run.resumeFrom,
         \A i \in DOMAIN run.plan.tables :
           Past(CreateAt(i))' => Past(CreateAt(i)) \/ BuiltAt(run.plan, i)',
         Past(WaitAt(run.plan))' =>
           \/ Past(WaitAt(run.plan))
           \/ \A t \in TablesOf(run.plan) : Converged(run.plan, t)'
  PROVE  WaitInv'
<1>1. PlansBuild' /\ CheckpointsBuilt' /\ CheckpointsWaited'
  BY CheckpointsKept
<1>2. run.plan \in Plan /\ run.plan.green \in Version
  BY RunFields DEF WaitInv, DeploymentInv
<1>3. AtResumePoint'
  BY DEF WaitInv, AtResumePoint
<1>4. RunBuilt'
  <2> SUFFICES ASSUME NEW i \in DOMAIN run.plan.tables, Past(CreateAt(i))'
               PROVE  BuiltAt(run.plan, i)'
    BY DEF RunBuilt
  <2>1. CASE Past(CreateAt(i))
    <3>1. BuiltAt(run.plan, i) /\ run.plan.tables[i] \in Table
      BY <1>2, <2>1, TableSteps DEF WaitInv, RunBuilt
    <3> QED
      BY <1>2, <3>1 DEF BuiltAt, GreenKept
  <2> QED
    BY <2>1
<1>5. RunWaited'
  <2> SUFFICES ASSUME NEW t \in TablesOf(run.plan), Past(WaitAt(run.plan))'
               PROVE  Converged(run.plan, t)' \/ Rebuilding(run.migration, t)'
    BY DEF RunWaited, WaitAt, LastTableStep, TablesOf
  <2>1. CASE Past(WaitAt(run.plan))
    <3>1. /\ t \in Table
          /\ Converged(run.plan, t) \/ Rebuilding(run.migration, t)
      BY <1>2, <2>1 DEF WaitInv, RunWaited, TablesOf, Plan
    <3>2. Converged(run.plan, t) => Converged(run.plan, t)'
      BY <1>2, <3>1 DEF Converged, GreenKept
    <3>3. Rebuilding(run.migration, t) => Rebuilding(run.migration, t)'
      BY DEF Rebuilding, TablesOf, WaitAt, LastTableStep
    <3> QED
      BY <3>1, <3>2, <3>3
  <2> QED
    BY <2>1
<1> QED
  BY <1>1, <1>3, <1>4, <1>5 DEF WaitInv

(* No run.                                                                 *)
LEMMA NoRun ==
  ASSUME WaitInv, DeploymentInv' /\ AllReplaced', UNCHANGED <<migrations, green>>, run'.pc = "idle"
  PROVE  WaitInv'
<1>1. GreenKept
  BY DEF GreenKept
<1> QED
  BY <1>1, CheckpointsKept DEF WaitInv, AtResumePoint, RunBuilt, RunWaited

(* A step that is neither a create nor the wait is done, or its run fails. *)
LEMMA OtherStep ==
  ASSUME WaitInv, DeploymentInv' /\ AllReplaced', UNCHANGED <<migrations, green>>, run.pc # "idle",
         run'.plan = run.plan, run'.step = run.step, run'.migration = run.migration,
         run'.resumeFrom = run.resumeFrom,
         run'.pc = "finish" => run'.outcome # "ok",
         run'.pc = "progress" =>
           CurrentOp \notin {"CreateStreamTableInGreen", "WaitForConvergence"}
  PROVE  WaitInv'
<1>1. GreenKept
  BY DEF GreenKept
<1>2. run.plan \in Plan
  BY RunFields DEF WaitInv, DeploymentInv
<1>3. ASSUME NEW i \in DOMAIN run.plan.tables, Past(CreateAt(i))'
      PROVE  Past(CreateAt(i))
  BY <1>2, <1>3, TableSteps DEF Past, CurrentOp
<1>4. ASSUME Past(WaitAt(run.plan))' PROVE Past(WaitAt(run.plan))
  BY <1>2, <1>4, WaitStep DEF Past, CurrentOp, WaitAt, LastTableStep
<1> QED
  BY <1>1, <1>3, <1>4, RunStays

(* Neither the rows nor the run change.                                    *)
LEMMA RunUntouched ==
  ASSUME WaitInv, DeploymentInv' /\ AllReplaced', GreenKept, UNCHANGED <<migrations, run>>
  PROVE  WaitInv'
<1>1. CASE run.pc # "idle"
  <2>1. ASSUME NEW s PROVE Past(s)' <=> Past(s)
    BY DEF Past
  <2>2. WaitAt(run.plan)' = WaitAt(run.plan)
    BY DEF WaitAt, LastTableStep
  <2>3. Past(WaitAt(run.plan))' => Past(WaitAt(run.plan))
    BY <2>1, <2>2 DEF Past
  <2> QED
    BY <1>1, <2>1, <2>3, RunStays
<1>2. CASE run.pc = "idle"
  BY <1>2, CheckpointsKept DEF WaitInv, AtResumePoint, RunBuilt, RunWaited
<1> QED
  BY <1>1, <1>2

-----------------------------------------------------------------------------
(* The actions.                                                            *)

(* The run fails, or does a step that concerns no table.                   *)
LEMMA FailsWaits ==
  ASSUME WaitInv, DeploymentInv' /\ AllReplaced', Fails, run.pc # "idle"
  PROVE  WaitInv'
<1>1. /\ run'.pc = "finish" /\ run'.plan = run.plan /\ run'.step = run.step
      /\ run'.migration = run.migration /\ run'.outcome # "ok"
  BY FailedRun DEF WaitInv, DeploymentInv
<1>2. run'.resumeFrom = run.resumeFrom /\ UNCHANGED <<migrations, green>>
  BY DEF Fails, Ends, WaitInv, DeploymentInv, TypeOK, RunState
<1> QED
  BY <1>1, <1>2, OtherStep

LEMMA StepDoneWaits ==
  ASSUME WaitInv, DeploymentInv' /\ AllReplaced', NEW op, AtStep(op), StepDone,
         op \notin {"CreateStreamTableInGreen", "WaitForConvergence"},
         UNCHANGED <<migrations, green>>
  PROVE  WaitInv'
<1>1. /\ run'.plan = run.plan /\ run'.step = run.step /\ run'.pc = "progress"
      /\ run'.migration = run.migration /\ run'.resumeFrom = run.resumeFrom
  BY MovedRun DEF WaitInv, DeploymentInv, StepDone, PC
<1> QED
  BY <1>1, OtherStep DEF AtStep

LEMMA StartWaits ==
  ASSUME WaitInv, DeploymentInv' /\ AllReplaced', StartBlueGreenDeployment
  PROVE  WaitInv'
<1>1. /\ run'.plan = run.plan /\ run'.step = run.step /\ run'.pc = "progress"
      /\ run'.migration = run.migration /\ run'.resumeFrom = run.resumeFrom
  BY DEF StartBlueGreenDeployment, WaitInv, DeploymentInv, TypeOK, RunState
<1> QED
  BY <1>1, OtherStep DEF StartBlueGreenDeployment, AtStep

LEMMA SwapWaits ==
  ASSUME WaitInv, DeploymentInv' /\ AllReplaced', BeginSwap \/ MarkSwapped
  PROVE  WaitInv'
<1>1. PICK pc \in {"swap", "commit"} : Goto(pc) /\ UNCHANGED <<migrations, green>>
  BY DEF BeginSwap, MarkSwapped
<1>2. /\ run'.plan = run.plan /\ run'.step = run.step /\ run'.pc = pc
      /\ run'.migration = run.migration /\ run'.resumeFrom = run.resumeFrom
  BY <1>1, MovedRun DEF WaitInv, DeploymentInv, PC
<1>3. run.pc # "idle"
  BY DEF BeginSwap, MarkSwapped, AtStep
<1> QED
  BY <1>1, <1>2, <1>3, OtherStep

LEMMA CommitWaits ==
  ASSUME WaitInv, DeploymentInv' /\ AllReplaced', CommitSwap
  PROVE  WaitInv'
<1>1. /\ run'.plan = run.plan /\ run'.step = run.step /\ run'.pc = "progress"
      /\ run'.migration = run.migration /\ run'.resumeFrom = run.resumeFrom
  BY MovedRun DEF WaitInv, DeploymentInv, CommitSwap, StepDone, PC
<1>2. run.pc = "commit" /\ UNCHANGED <<migrations, green>>
  BY DEF CommitSwap
<1>3. CurrentOp = "SwapConsumerViews"
  <2>1. run.step = SwapAt(run.plan) /\ run.step < StepCount(run.plan)
    BY <1>2 DEF WaitInv, DeploymentInv, AtPlannedStep
  <2>2. run.plan \in Plan /\ run.step \in Nat
    BY RunFields DEF WaitInv, DeploymentInv
  <2> QED
    BY <2>1, <2>2, OpIsPlaced, StepCounts DEF CurrentOp
<1> QED
  BY <1>1, <1>2, <1>3, OtherStep

(* The wait: all that is created has converged, and all is created.        *)
LEMMA WaitWaits ==
  ASSUME WaitInv, DeploymentInv' /\ AllReplaced', WaitForConvergence
  PROVE  WaitInv'
<1>1. /\ run'.plan = run.plan /\ run'.step = run.step /\ run'.pc = "progress"
      /\ run'.migration = run.migration /\ run'.resumeFrom = run.resumeFrom
  BY MovedRun DEF WaitInv, DeploymentInv, WaitForConvergence, StepDone, PC
<1>2. /\ run.pc = "exec" /\ CurrentOp = "WaitForConvergence" /\ StillRunning = {}
      /\ UNCHANGED <<migrations, green>> /\ GreenKept
  BY DEF WaitForConvergence, AtStep, AllConverged, GreenKept
<1>3. run.plan \in Plan /\ run.step \in Nat /\ run.resumeFrom \in Nat
  BY RunFields DEF WaitInv, DeploymentInv
<1>4. ASSUME NEW i \in DOMAIN run.plan.tables, Past(CreateAt(i))'
      PROVE  Past(CreateAt(i))
  BY <1>1, <1>2, <1>3, <1>4, TableSteps DEF Past, CurrentOp
<1>5. ASSUME Past(WaitAt(run.plan))', NEW t \in TablesOf(run.plan), ~Past(WaitAt(run.plan))
      PROVE  Converged(run.plan, t)'
  <2>1. run.step = WaitAt(run.plan)
    BY <1>1, <1>3, <1>5, WaitStep DEF Past, WaitAt, LastTableStep
  <2>2. PICK i \in DOMAIN run.plan.tables : t = run.plan.tables[i]
    BY DEF TablesOf
  <2>3. Past(CreateAt(i))
    BY <1>3, <2>1, TableSteps DEF Past
  <2>4. green[run.plan.green][t].rev # Absent
    BY <1>2, <2>2, <2>3 DEF WaitInv, RunBuilt, BuiltAt
  <2>5. green[run.plan.green][t].converged
    BY <1>2, <2>4 DEF StillRunning
  <2> QED
    BY <1>1, <1>2, <2>5 DEF Converged
<1> QED
  BY <1>1, <1>2, <1>4, <1>5, RunStays

LEMMA ConvergesWaits ==
  ASSUME WaitInv, DeploymentInv' /\ AllReplaced', TableConverges
  PROVE  WaitInv'
<1>1. PICK v \in Version, t \in Table :
        green' = [green EXCEPT ![v][t].converged = TRUE]
  BY DEF TableConverges
<1>2. green \in [Version -> [Table -> GreenTable]]
  BY DEF WaitInv, DeploymentInv, TypeOK
<1>3. PICK new : new = [green[v][t] EXCEPT !.converged = TRUE]
  OBVIOUS
<1>4. green' = [green EXCEPT ![v] = [green[v] EXCEPT ![t] = new]]
  BY <1>1, <1>3
<1>5. new.rev = green[v][t].rev /\ new.converged
  BY <1>2, <1>3 DEF GreenTable
<1>6. \A w \in Version, u \in Table :
        green'[w][u] = IF w = v /\ u = t THEN new ELSE green[w][u]
  BY <1>2, <1>4
<1>7. GreenKept
  BY <1>5, <1>6 DEF GreenKept
<1> QED
  BY <1>7, RunUntouched DEF TableConverges

(* The one step that takes convergence away: its run is short of the wait, *)
(* so that the checkpoint of an older migration has its excuse.            *)
LEMMA CreateWaits ==
  ASSUME WaitInv, DeploymentInv' /\ AllReplaced', CreateStreamTableInGreen
  PROVE  WaitInv'
<1>1. /\ run'.plan = run.plan /\ run'.step = run.step /\ run'.pc = "progress"
      /\ run'.migration = run.migration /\ run'.resumeFrom = run.resumeFrom
  BY MovedRun DEF WaitInv, DeploymentInv, CreateStreamTableInGreen, StepDone, PC
<1>2. /\ run.pc = "exec" /\ CurrentOp = "CreateStreamTableInGreen"
      /\ UNCHANGED migrations
      /\ green' = [green EXCEPT ![run.plan.green][CurrentTable] =
                     Created(@, run.plan.desired[CurrentTable])]
  BY DEF CreateStreamTableInGreen, AtStep
<1>3. /\ run.plan \in Plan /\ run.step \in Nat /\ run.resumeFrom \in Nat
      /\ run.plan.green \in Version
  BY RunFields DEF WaitInv, DeploymentInv
<1>4. /\ run.step < StepCount(run.plan) /\ run.migration \in DOMAIN migrations
      /\ run.plan = migrations[run.migration].plan
      /\ run.migration \in Unfinished /\ \A n \in Unfinished : n <= run.migration
  BY <1>2 DEF WaitInv, DeploymentInv, AtPlannedStep, WorksForNewest
<1>5. PICK i \in DOMAIN run.plan.tables :
        run.step = CreateAt(i) /\ CurrentTable = run.plan.tables[i]
  <2>1. run.step \in 0..(StepCount(run.plan) - 1)
    BY <1>3, <1>4, StepCounts
  <2> QED
    BY <1>2, <1>3, <2>1, CreatesTable DEF CurrentOp, CurrentTable
<1>6. /\ CurrentTable \in Table /\ CurrentTable \in TablesOf(run.plan)
      /\ run.step > 0 /\ run.step < WaitAt(run.plan) /\ WaitAt(run.plan) \in Nat
  BY <1>3, <1>5, TableSteps, WaitStep
<1>7. /\ run.step >= run.resumeFrom
      /\ migrations[run.migration].progress < WaitAt(run.plan)
  <2>1. migrations[run.migration].progress \in Nat
    BY <1>4, MigrationRows DEF WaitInv, DeploymentInv
  <2> QED
    BY <1>2, <1>3, <1>6, <2>1 DEF WaitInv, AtResumePoint
<1>8. PICK made : made = Created(green[run.plan.green][CurrentTable],
                                 run.plan.desired[CurrentTable])
  OBVIOUS
<1>9. made.rev # Absent
  <2>1. run.plan.desired[CurrentTable] # Absent
    BY <1>4, <1>5 DEF WaitInv, PlansBuild
  <2> QED
    BY <1>8, <2>1 DEF Created
<1>10. \A v \in Version, t \in Table :
         green'[v][t] = IF v = run.plan.green /\ t = CurrentTable THEN made
                        ELSE green[v][t]
  <2>1. green \in [Version -> [Table -> GreenTable]]
    BY DEF WaitInv, DeploymentInv, TypeOK
  <2>2. green' = [green EXCEPT ![run.plan.green] =
                    [green[run.plan.green] EXCEPT ![CurrentTable] = made]]
    BY <1>2, <1>8
  <2> QED
    BY <1>3, <1>6, <2>1, <2>2
<1>11. Unfinished' = Unfinished
  BY <1>2 DEF Unfinished
<1>12. PlansBuild' /\ AtResumePoint'
  BY <1>1, <1>2 DEF WaitInv, PlansBuild, AtResumePoint
<1>13. \A m \in Unfinished : /\ m \in DOMAIN migrations /\ migrations[m].plan \in Plan
                             /\ migrations[m].plan.green \in Version
  BY MigrationRows DEF WaitInv, DeploymentInv, Unfinished, Plan
<1>14. CheckpointsBuilt'
  <2> SUFFICES ASSUME NEW m \in Unfinished, NEW k \in DOMAIN migrations[m].plan.tables,
                      migrations[m].progress >= CreateAt(k)
               PROVE  BuiltAt(migrations[m].plan, k)'
    BY <1>2, <1>11 DEF CheckpointsBuilt
  <2>1. BuiltAt(migrations[m].plan, k)
    BY DEF WaitInv, CheckpointsBuilt
  <2>2. migrations[m].plan.tables[k] \in Table
    BY <1>13, TableSteps
  <2>3. green'[migrations[m].plan.green][migrations[m].plan.tables[k]].rev # Absent
    BY <1>9, <1>10, <1>13, <2>1, <2>2 DEF BuiltAt
  <2> QED
    BY <1>2, <2>3 DEF BuiltAt
<1>15. RunBuilt'
  <2> SUFFICES ASSUME NEW k \in DOMAIN run.plan.tables, Past(CreateAt(k))'
               PROVE  BuiltAt(run.plan, k)'
    BY <1>1 DEF RunBuilt
  <2>1. k \in Nat /\ run.plan.tables[k] \in Table
    BY <1>3, TableSteps
  <2>2. CASE Past(CreateAt(k))
    BY <1>1, <1>2, <1>3, <1>9, <1>10, <2>1, <2>2 DEF WaitInv, RunBuilt, BuiltAt
  <2>3. CASE k = i
    BY <1>1, <1>3, <1>5, <1>9, <1>10, <2>1, <2>3 DEF BuiltAt
  <2>4. Past(CreateAt(k)) \/ run.step = CreateAt(k)
    BY <1>1 DEF Past
  <2>5. run.step = CreateAt(k) => k = i
    BY <1>3, <1>5, <2>1, TableSteps DEF CreateAt
  <2> QED
    BY <2>2, <2>3, <2>4, <2>5
<1>16. CheckpointsWaited'
  <2> SUFFICES ASSUME NEW m \in Unfinished, NEW t \in TablesOf(migrations[m].plan),
                      migrations[m].progress >= WaitAt(migrations[m].plan)
               PROVE  Converged(migrations[m].plan, t)' \/ Rebuilding(m, t)'
    BY <1>2, <1>11 DEF CheckpointsWaited, WaitAt, LastTableStep, TablesOf
  <2>1. m # run.migration /\ m \in Nat /\ run.migration \in Nat
    <3>1. migrations[m].progress \in Nat /\ migrations[run.migration].progress \in Nat
          /\ m \in Nat /\ run.migration \in Nat
      BY <1>4, <1>13, MigrationRows DEF WaitInv, DeploymentInv
    <3> QED
      BY <1>4, <1>6, <1>7, <3>1
  <2>2. CASE migrations[m].plan.green = run.plan.green /\ t = CurrentTable
    <3>1. run.migration > m
      BY <1>4, <2>1
    <3>2. Rebuilding(m, t)
      BY <1>4, <1>6, <1>7, <2>2, <3>1 DEF Rebuilding, Unfinished
    <3> QED
      BY <1>2, <1>11, <3>2 DEF Rebuilding, TablesOf, WaitAt, LastTableStep
  <2>3. CASE ~(migrations[m].plan.green = run.plan.green /\ t = CurrentTable)
    <3>1. Converged(migrations[m].plan, t) \/ Rebuilding(m, t)
      BY DEF WaitInv, CheckpointsWaited
    <3>2. Rebuilding(m, t) => Rebuilding(m, t)'
      BY <1>2, <1>11 DEF Rebuilding, TablesOf, WaitAt, LastTableStep
    <3>3. t \in Table
      BY <1>13 DEF TablesOf, Plan
    <3>4. Converged(migrations[m].plan, t) => Converged(migrations[m].plan, t)'
      BY <1>2, <1>10, <1>13, <2>3, <3>3 DEF Converged
    <3> QED
      BY <3>1, <3>2, <3>4
  <2> QED
    BY <2>2, <2>3
<1>17. RunWaited'
  <2>1. ~Past(WaitAt(run.plan))'
    BY <1>1, <1>3, <1>6, <1>7 DEF Past, WaitAt, LastTableStep
  <2> QED
    BY <1>1, <2>1 DEF RunWaited, Past, WaitAt, LastTableStep
<1> QED
  BY <1>12, <1>14, <1>15, <1>16, <1>17 DEF WaitInv

LEMMA ApplyWaits ==
  ASSUME WaitInv, DeploymentInv' /\ AllReplaced', Apply
  PROVE  WaitInv'
<1>1. PICK desired \in Desired :
        LET plan == [from |-> latest, green |-> latest + 1, desired |-> desired,
                     tables |-> Changed(desired)]
        IN /\ migrations' = Append(migrations,
                [status |-> "running", progress |-> 0, plan |-> plan])
           /\ run' = Entered(plan, Len(migrations) + 1, 0)
  BY DEF Apply
<1>2. PICK plan : plan = [from |-> latest, green |-> latest + 1, desired |-> desired,
                          tables |-> Changed(desired)]
  OBVIOUS
<1>3. PICK row : row = [status |-> "running", progress |-> 0, plan |-> plan]
  OBVIOUS
<1>4. PICK new : new = Len(migrations) + 1
  OBVIOUS
<1>5. migrations' = Append(migrations, row) /\ run' = Entered(plan, new, 0)
  BY <1>1, <1>2, <1>3, <1>4
<1>6. \A i \in DOMAIN plan.tables : plan.desired[plan.tables[i]] # Absent
  BY <1>2, ChangedAssumption
<1>7. row.status = "running" /\ row.progress = 0 /\ row.plan = plan
  BY <1>3
<1>8. /\ new \in Nat /\ new = Len(migrations) + 1
      /\ DOMAIN migrations = 1..Len(migrations) /\ Len(migrations) \in Nat
      /\ DOMAIN migrations' = 1..new /\ migrations'[new] = row
      /\ \A n \in DOMAIN migrations : migrations'[n] = migrations[n]
      /\ migrations \in Seq(MigrationRow)
  BY <1>4, <1>5, MigrationRows DEF WaitInv, DeploymentInv, TypeOK
<1>9. plan \in Plan
  <2>1. row \in MigrationRow
    <3>1. migrations' \in Seq(MigrationRow)
      BY DEF DeploymentInv, TypeOK
    <3> QED
      BY <1>8, <3>1
  <2> QED
    BY <1>7, <2>1 DEF MigrationRow
<1>10. /\ run'.pc = "exec" /\ run'.plan = plan /\ run'.step = 0 /\ run'.resumeFrom = 0
  BY <1>5 DEF Entered, IdleRun
<1>11. green' = green
  BY DEF Apply
<1>12. Unfinished' = Unfinished \cup {new}
  BY <1>7, <1>8 DEF Unfinished
<1>13. PlansBuild'
  <2>1. \A m \in DOMAIN migrations' : m \in DOMAIN migrations \/ m = new
    BY <1>8
  <2> QED
    BY <1>6, <1>7, <1>8, <2>1 DEF WaitInv, PlansBuild
<1>14. \A m \in Unfinished : m \in DOMAIN migrations /\ migrations'[m] = migrations[m]
  BY <1>8 DEF Unfinished
<1>15. CheckpointsBuilt'
  <2> SUFFICES ASSUME NEW m \in Unfinished',
                      NEW i \in (DOMAIN migrations[m].plan.tables)',
                      (migrations[m].progress >= CreateAt(i))'
               PROVE  BuiltAt(migrations[m].plan, i)'
    BY DEF CheckpointsBuilt
  <2>1. CASE m \in Unfinished
    BY <1>11, <1>14, <2>1 DEF WaitInv, CheckpointsBuilt, BuiltAt
  <2>2. CASE m = new
    BY <1>7, <1>8, <1>9, <2>2, TableSteps
  <2> QED
    BY <1>12, <2>1, <2>2
<1>16. CheckpointsWaited'
  <2> SUFFICES ASSUME NEW m \in Unfinished', NEW t \in TablesOf(migrations[m].plan)',
                      (migrations[m].progress >= WaitAt(migrations[m].plan))'
               PROVE  Converged(migrations[m].plan, t)' \/ Rebuilding(m, t)'
    BY DEF CheckpointsWaited
  <2>1. CASE m \in Unfinished
    <3>1. Converged(migrations[m].plan, t) \/ Rebuilding(m, t)
      BY <1>14, <2>1 DEF WaitInv, CheckpointsWaited, TablesOf, WaitAt, LastTableStep
    <3>2. Rebuilding(m, t) => Rebuilding(m, t)'
      <4>1. DOMAIN migrations \subseteq DOMAIN migrations'
        BY <1>8
      <4> QED
        BY <1>8, <1>14, <2>1, <4>1 DEF Rebuilding, TablesOf, WaitAt, LastTableStep
    <3> QED
      BY <1>11, <1>14, <2>1, <3>1, <3>2 DEF Converged
  <2>2. CASE m = new
    BY <1>7, <1>8, <1>9, <2>2, WaitStep DEF WaitAt, LastTableStep
  <2> QED
    BY <1>12, <2>1, <2>2
<1>17. RunBuilt' /\ RunWaited'
  <2>1. ASSUME NEW i \in DOMAIN plan.tables PROVE ~Past(CreateAt(i))'
    <3>1. CreateAt(i) \in Nat /\ CreateAt(i) # 0
      BY <1>9, TableSteps
    <3> QED
      BY <1>10, <3>1 DEF Past
  <2>2. ~Past(WaitAt(run.plan))'
    <3>1. WaitAt(plan) \in Nat /\ WaitAt(plan) # 0
      BY <1>9, WaitStep
    <3> QED
      BY <1>10, <3>1 DEF Past, WaitAt, LastTableStep
  <2> QED
    BY <1>10, <2>1, <2>2 DEF RunBuilt, RunWaited, Past, WaitAt, LastTableStep
<1>18. AtResumePoint'
  BY <1>10 DEF AtResumePoint
<1> QED
  BY <1>13, <1>15, <1>16, <1>17, <1>18 DEF WaitInv

(* What its checkpoint claims, the run that takes it up claims.            *)
LEMMA ResumeWaits ==
  ASSUME WaitInv, DeploymentInv' /\ AllReplaced', ResumeApply
  PROVE  WaitInv'
<1>1. PICK m \in Unfinished :
        /\ \A n \in Unfinished : n <= m
        /\ run' = Entered(migrations[m].plan, m, ResumePoint(m))
  BY DEF ResumeApply
<1>2. UNCHANGED <<migrations, green>> /\ GreenKept
  BY DEF ResumeApply, GreenKept
<1>3. /\ m \in DOMAIN migrations /\ m \in Nat /\ migrations[m].plan \in Plan
      /\ migrations[m].progress \in Nat
  BY MigrationRows DEF WaitInv, DeploymentInv, Unfinished
<1>4. /\ run'.plan = migrations[m].plan /\ run'.pc = "exec" /\ run'.step = 0
      /\ run'.resumeFrom = migrations[m].progress + 1
  BY <1>1 DEF Entered, IdleRun, ResumePoint
<1>5. PlansBuild' /\ CheckpointsBuilt' /\ CheckpointsWaited' /\ AtResumePoint'
  BY <1>2, <1>4, CheckpointsKept DEF AtResumePoint
<1>6. RunBuilt'
  <2> SUFFICES ASSUME NEW i \in DOMAIN migrations[m].plan.tables, Past(CreateAt(i))'
               PROVE  BuiltAt(run.plan, i)'
    BY <1>4 DEF RunBuilt
  <2>1. CreateAt(i) \in Nat /\ CreateAt(i) >= 4
    BY <1>3, TableSteps
  <2>2. migrations[m].progress >= CreateAt(i)
    BY <1>3, <1>4, <2>1 DEF Past
  <2> QED
    BY <1>2, <1>4, <2>2 DEF WaitInv, CheckpointsBuilt, BuiltAt
<1>7. RunWaited'
  <2> SUFFICES ASSUME NEW t \in TablesOf(migrations[m].plan), Past(WaitAt(run.plan))'
               PROVE  Converged(run.plan, t)' \/ Rebuilding(run.migration, t)'
    BY <1>4 DEF RunWaited, TablesOf
  <2>1. WaitAt(migrations[m].plan) \in Nat /\ WaitAt(migrations[m].plan) >= 3
    BY <1>3, WaitStep
  <2>2. migrations[m].progress >= WaitAt(migrations[m].plan)
    BY <1>3, <1>4, <2>1 DEF Past, WaitAt, LastTableStep
  <2>3. Converged(migrations[m].plan, t) \/ Rebuilding(m, t)
    BY <2>2 DEF WaitInv, CheckpointsWaited
  <2>4. run'.migration = m
    BY <1>1 DEF Entered, IdleRun
  <2>5. Rebuilding(m, t) => Rebuilding(m, t)'
    BY <1>2 DEF Rebuilding, TablesOf, WaitAt, LastTableStep
  <2> QED
    BY <1>2, <1>4, <2>3, <2>4, <2>5 DEF Converged
<1> QED
  BY <1>5, <1>6, <1>7 DEF WaitInv

(* The checkpoint follows the run, and takes the excuse of older ones away *)
(* only when their tables have converged again.                            *)
LEMMA SaveWaits ==
  ASSUME WaitInv, DeploymentInv' /\ AllReplaced', SaveProgress
  PROVE  WaitInv'
<1>1. PICK m : m = run.migration
  OBVIOUS
<1>2. PICK row : row = [migrations[m] EXCEPT !.progress = run.step]
  OBVIOUS
<1>3. /\ run.pc = "progress" /\ green' = green
      /\ m \in DOMAIN migrations /\ run.plan = migrations[m].plan /\ m \in Unfinished
      /\ run.step < StepCount(run.plan)
  BY <1>1 DEF SaveProgress, WaitInv, DeploymentInv, AtPlannedStep, WorksForNewest
<1>4. run.plan \in Plan /\ run.step \in Nat /\ run.resumeFrom \in Nat
  BY RunFields DEF WaitInv, DeploymentInv
<1>5. /\ row \in MigrationRow /\ row.plan = run.plan
      /\ row.progress = run.step /\ row.status = migrations[m].status
  BY <1>2, <1>3, <1>4, MigrationRows DEF WaitInv, DeploymentInv, MigrationRow
<1>6. migrations' = [migrations EXCEPT ![m] = row]
  BY <1>1, <1>2 DEF SaveProgress
<1>7. /\ DOMAIN migrations' = DOMAIN migrations
      /\ \A n \in DOMAIN migrations :
           /\ migrations'[n] = IF n = m THEN row ELSE migrations[n]
           /\ migrations'[n].plan = migrations[n].plan
  BY <1>3, <1>5, <1>6, RewrittenMigration DEF WaitInv, DeploymentInv
<1>8. Unfinished' = Unfinished
  BY <1>3, <1>5, <1>7 DEF Unfinished
<1>9. /\ run'.plan = run.plan /\ run'.migration = m /\ run'.resumeFrom = run.resumeFrom
      /\ \/ /\ run'.pc = "exec" /\ run'.step = NextStep /\ run'.outcome = run.outcome
         \/ /\ run'.pc = "finish" /\ run'.step = run.step
            /\ NextStep >= StepCount(run.plan) \/ run'.outcome = "interrupted"
  <2>1. NextStep \in Nat /\ StepCount(run.plan) \in Nat
    BY <1>4, StepCounts DEF NextStep
  <2> QED
    BY <1>1, <2>1 DEF SaveProgress, Ends, WaitInv, DeploymentInv, TypeOK, RunState
<1>10. PlansBuild'
  BY <1>7 DEF WaitInv, PlansBuild
<1>11. AtResumePoint'
  <2>1. migrations'[m].progress = run.step
    BY <1>3, <1>5, <1>7
  <2>2. NextStep >= run.resumeFrom /\ NextStep >= run.step /\ NextStep \in Nat
    BY <1>4 DEF NextStep
  <2> QED
    BY <1>3, <1>4, <1>9, <2>1, <2>2 DEF WaitInv, AtResumePoint
<1>12. ASSUME NEW s \in Nat, s < StepCount(run.plan) - 1, Past(s)'
       PROVE  Past(s)
  <2>1. StepCount(run.plan) \in Nat
    BY <1>4, StepCounts
  <2>2. NextStep > s => Past(s)
    BY <1>3, <1>4, <1>12 DEF Past, NextStep
  <2>3. run'.step > s \/ (run'.pc = "finish" /\ run'.outcome = "ok") =>
          NextStep > s \/ run.step > s
    BY <1>4, <1>9, <1>12, <2>1 DEF NextStep
  <2> QED
    BY <1>9, <1>12, <2>2, <2>3 DEF Past
<1>13. \A i \in DOMAIN run.plan.tables :
         CreateAt(i) \in Nat /\ CreateAt(i) < StepCount(run.plan) - 1
  BY <1>4, TableSteps, WaitStep
<1>14. WaitAt(run.plan) \in Nat /\ WaitAt(run.plan) < StepCount(run.plan) - 1
  BY <1>4, WaitStep
<1>15. \A n \in Unfinished : n \in DOMAIN migrations
  BY DEF Unfinished
<1>16. CheckpointsBuilt'
  <2> SUFFICES ASSUME NEW n \in Unfinished,
                      NEW i \in (DOMAIN migrations[n].plan.tables)',
                      (migrations[n].progress >= CreateAt(i))'
               PROVE  BuiltAt(migrations[n].plan, i)'
    BY <1>8 DEF CheckpointsBuilt
  <2>1. i \in DOMAIN migrations[n].plan.tables /\ migrations'[n].progress >= CreateAt(i)
    BY <1>7, <1>15
  <2>2. CASE n = m
    <3>1. i \in DOMAIN run.plan.tables /\ run.step >= CreateAt(i)
      BY <1>3, <1>5, <1>7, <2>1, <2>2
    <3>2. Past(CreateAt(i))
      BY <1>3, <1>4, <1>13, <3>1 DEF Past
    <3> QED
      BY <1>3, <1>7, <2>2, <3>1, <3>2 DEF WaitInv, RunBuilt, BuiltAt
  <2>3. CASE n # m
    BY <1>3, <1>7, <1>15, <2>1, <2>3 DEF WaitInv, CheckpointsBuilt, BuiltAt
  <2> QED
    BY <2>2, <2>3
<1>17. ASSUME run.step >= WaitAt(run.plan), NEW t \in TablesOf(run.plan)
       PROVE  green[run.plan.green][t].converged \/ Rebuilding(m, t)
  <2>1. Past(WaitAt(run.plan))
    BY <1>3, <1>4, <1>14, <1>17 DEF Past
  <2> QED
    BY <1>1, <1>3, <1>17, <2>1 DEF WaitInv, RunWaited, Converged
<1>21. ASSUME NEW n \in DOMAIN migrations, NEW t, m >= n, Rebuilding(m, t),
              migrations[m].plan.green = migrations[n].plan.green
       PROVE  Rebuilding(n, t)'
  <2>1. PICK k \in DOMAIN migrations :
          /\ k > m /\ migrations[k].status # "committed"
          /\ migrations[k].plan.green = migrations[m].plan.green
          /\ t \in TablesOf(migrations[k].plan)
          /\ migrations[k].progress < WaitAt(migrations[k].plan)
    BY <1>21 DEF Rebuilding
  <2>2. k \in Nat /\ m \in Nat /\ n \in Nat
    BY <1>3, MigrationRows DEF WaitInv, DeploymentInv
  <2>3. k > n /\ migrations'[k] = migrations[k]
    BY <1>7, <1>21, <2>1, <2>2
  <2> QED
    BY <1>7, <1>21, <2>1, <2>3 DEF Rebuilding, TablesOf, WaitAt, LastTableStep
<1>18. CheckpointsWaited'
  <2> SUFFICES ASSUME NEW n \in Unfinished, NEW t \in TablesOf(migrations[n].plan)',
                      (migrations[n].progress >= WaitAt(migrations[n].plan))'
               PROVE  Converged(migrations[n].plan, t)' \/ Rebuilding(n, t)'
    BY <1>8 DEF CheckpointsWaited
  <2>1. /\ t \in TablesOf(migrations[n].plan)
        /\ migrations'[n].progress >= WaitAt(migrations[n].plan)
    BY <1>7, <1>15 DEF TablesOf, WaitAt, LastTableStep
  <2>2. CASE n = m
    <3>1. run.step >= WaitAt(run.plan) /\ t \in TablesOf(run.plan)
      BY <1>3, <1>5, <1>7, <2>1, <2>2
    <3>2. CASE green[run.plan.green][t].converged
      BY <1>3, <1>7, <2>2, <3>2 DEF Converged
    <3>3. CASE Rebuilding(m, t)
      <4>1. m \in Nat
        BY <1>3, MigrationRows DEF WaitInv, DeploymentInv
      <4> QED
        BY <1>3, <1>21, <2>2, <3>3, <4>1
    <3> QED
      BY <1>17, <3>1, <3>2, <3>3
  <2>3. CASE n # m
    <3>1. Converged(migrations[n].plan, t) \/ Rebuilding(n, t)
      BY <1>7, <1>15, <2>1, <2>3 DEF WaitInv, CheckpointsWaited
    <3>2. Converged(migrations[n].plan, t) => Converged(migrations[n].plan, t)'
      BY <1>3, <1>7, <1>15 DEF Converged
    <3>3. ASSUME NEW k \in DOMAIN migrations, k > n,
                 migrations[k].status # "committed",
                 migrations[k].plan.green = migrations[n].plan.green,
                 t \in TablesOf(migrations[k].plan),
                 migrations[k].progress < WaitAt(migrations[k].plan)
          PROVE  Converged(migrations[n].plan, t)' \/ Rebuilding(n, t)'
      <4>1. /\ migrations'[k].plan = migrations[k].plan
            /\ migrations'[n].plan = migrations[n].plan
        BY <1>7, <1>15
      <4>2. CASE migrations'[k].progress < WaitAt(migrations[k].plan)
        <5>1. migrations'[k].status = migrations[k].status
          BY <1>5, <1>7
        <5> QED
          BY <1>7, <3>3, <4>1, <4>2, <5>1 DEF Rebuilding, TablesOf, WaitAt, LastTableStep
      <4>3. CASE ~(migrations'[k].progress < WaitAt(migrations[k].plan))
        <5>1. k = m
          BY <1>7, <1>15, <3>3, <4>3
        <5>2. run.step >= WaitAt(run.plan)
          BY <1>3, <1>4, <1>5, <1>7, <1>14, <4>3, <5>1
        <5>3. CASE green[run.plan.green][t].converged
          BY <1>3, <3>3, <4>1, <5>1, <5>3 DEF Converged
        <5>4. CASE Rebuilding(m, t)
          <6>1. m \in Nat /\ n \in Nat
            BY <1>3, <1>15, MigrationRows DEF WaitInv, DeploymentInv
          <6> QED
            BY <1>15, <1>21, <3>3, <5>1, <5>4, <6>1
        <5> QED
          BY <1>3, <1>17, <3>3, <5>1, <5>2, <5>3, <5>4
      <4> QED
        BY <4>2, <4>3
    <3> QED
      BY <3>1, <3>2, <3>3 DEF Rebuilding
  <2> QED
    BY <2>2, <2>3
<1>19. RunBuilt'
  <2> SUFFICES ASSUME NEW i \in DOMAIN run.plan.tables, Past(CreateAt(i))'
               PROVE  BuiltAt(run.plan, i)'
    BY <1>9 DEF RunBuilt
  <2>1. Past(CreateAt(i))
    BY <1>12, <1>13
  <2> QED
    BY <1>3, <1>9, <2>1 DEF WaitInv, RunBuilt, BuiltAt
<1>20. RunWaited'
  <2> SUFFICES ASSUME NEW t \in TablesOf(run.plan), Past(WaitAt(run.plan))'
               PROVE  Converged(run.plan, t)' \/ Rebuilding(run.migration, t)'
    BY <1>9 DEF RunWaited, TablesOf
  <2>1. PICK w : w = WaitAt(run.plan)
    OBVIOUS
  <2>2. Past(w)'
    BY <1>9, <2>1 DEF Past, WaitAt, LastTableStep
  <2>3. Past(w)
    BY <1>12, <1>14, <2>1, <2>2
  <2>4. CASE Converged(run.plan, t)
    BY <1>3, <1>9, <2>4 DEF Converged
  <2>5. CASE Rebuilding(m, t)
    <3>1. m \in Nat
      BY <1>3, MigrationRows DEF WaitInv, DeploymentInv
    <3> QED
      BY <1>3, <1>9, <1>21, <2>5, <3>1
  <2> QED
    BY <1>1, <1>3, <2>1, <2>3, <2>4, <2>5 DEF WaitInv, RunWaited
<1> QED
  BY <1>10, <1>11, <1>16, <1>18, <1>19, <1>20 DEF WaitInv

(* A migration is committed by a run that is past its wait.                *)
LEMMA FinishWaits ==
  ASSUME WaitInv, DeploymentInv' /\ AllReplaced', FinishMigration
  PROVE  WaitInv'
<1>1. PICK m : m = run.migration
  OBVIOUS
<1>2. /\ run.pc = "finish" /\ run'.pc = "idle" /\ green' = green
      /\ m \in DOMAIN migrations /\ run.plan = migrations[m].plan /\ m \in Unfinished
  BY <1>1 DEF FinishMigration, IdleRun, WaitInv, DeploymentInv, AtPlannedStep, WorksForNewest
<1>3. CASE UNCHANGED migrations
  BY <1>2, <1>3, NoRun
<1>4. CASE migrations' = [migrations EXCEPT ![m].status = OutcomeOf]
  <2>1. PICK row : row = [migrations[m] EXCEPT !.status = OutcomeOf]
    OBVIOUS
  <2>2. /\ row \in MigrationRow /\ row.plan = migrations[m].plan
        /\ row.progress = migrations[m].progress
        /\ row.status = OutcomeOf
    BY <1>2, <2>1, MigrationRows DEF WaitInv, DeploymentInv, MigrationRow, OutcomeOf
  <2>3. /\ DOMAIN migrations' = DOMAIN migrations
        /\ \A n \in DOMAIN migrations :
             /\ migrations'[n] = IF n = m THEN row ELSE migrations[n]
             /\ migrations'[n].plan = migrations[n].plan
    BY <1>2, <1>4, <2>1, <2>2, RewrittenMigration DEF WaitInv, DeploymentInv
  <2>4. \A n \in DOMAIN migrations : migrations'[n].progress = migrations[n].progress
    BY <2>2, <2>3
  <2>5. \A n \in Unfinished' : n \in Unfinished /\ n \in DOMAIN migrations
    BY <1>2, <2>3 DEF Unfinished
  <2>6. \A k \in DOMAIN migrations :
          migrations[k].status # "committed" =>
            migrations'[k].status # "committed" \/ (k = m /\ run.outcome = "ok")
    BY <1>2, <2>2, <2>3, RunFields DEF WaitInv, DeploymentInv, Outcome, OutcomeOf
  <2>7. PlansBuild'
    BY <2>3 DEF WaitInv, PlansBuild
  <2>8. CheckpointsBuilt'
    <3> SUFFICES ASSUME NEW n \in Unfinished',
                        NEW i \in (DOMAIN migrations[n].plan.tables)',
                        (migrations[n].progress >= CreateAt(i))'
                 PROVE  BuiltAt(migrations[n].plan, i)'
      BY DEF CheckpointsBuilt
    <3> QED
      BY <1>2, <2>3, <2>4, <2>5 DEF WaitInv, CheckpointsBuilt, BuiltAt
  <2>9. CheckpointsWaited'
    <3> SUFFICES ASSUME NEW n \in Unfinished', NEW t \in TablesOf(migrations[n].plan)',
                        (migrations[n].progress >= WaitAt(migrations[n].plan))'
                 PROVE  Converged(migrations[n].plan, t)' \/ Rebuilding(n, t)'
      BY DEF CheckpointsWaited
    <3>1. /\ n \in Unfinished /\ migrations'[n].plan = migrations[n].plan
          /\ t \in TablesOf(migrations[n].plan)
          /\ migrations[n].progress >= WaitAt(migrations[n].plan)
      BY <2>3, <2>4, <2>5 DEF TablesOf, WaitAt, LastTableStep
    <3>2. Converged(migrations[n].plan, t) \/ Rebuilding(n, t)
      BY <3>1 DEF WaitInv, CheckpointsWaited
    <3>3. Converged(migrations[n].plan, t) => Converged(migrations[n].plan, t)'
      BY <1>2, <3>1 DEF Converged
    <3>4. ASSUME NEW k \in DOMAIN migrations, k > n,
                 migrations[k].status # "committed",
                 migrations[k].plan.green = migrations[n].plan.green,
                 t \in TablesOf(migrations[k].plan),
                 migrations[k].progress < WaitAt(migrations[k].plan)
          PROVE  Converged(migrations[n].plan, t)' \/ Rebuilding(n, t)'
      <4>1. /\ k \in DOMAIN migrations /\ migrations'[k].plan = migrations[k].plan
            /\ migrations'[k].progress = migrations[k].progress
        BY <2>3, <2>4 DEF Unfinished
      <4>2. CASE migrations'[k].status # "committed"
        BY <2>3, <3>1, <3>4, <4>1, <4>2 DEF Rebuilding, TablesOf, WaitAt, LastTableStep
      <4>3. CASE k = m /\ run.outcome = "ok"
        <5>1. Past(WaitAt(run.plan))
          BY <1>2, <4>3 DEF Past
        <5>2. Converged(run.plan, t) \/ Rebuilding(m, t)
          BY <1>1, <1>2, <3>4, <4>3, <5>1 DEF WaitInv, RunWaited
        <5>3. CASE Converged(run.plan, t)
          BY <1>2, <3>1, <3>4, <4>3, <5>3 DEF Converged
        <5>4. CASE Rebuilding(m, t)
          <6>1. PICK l \in DOMAIN migrations :
                  /\ l > m /\ migrations[l].status # "committed"
                  /\ migrations[l].plan.green = migrations[m].plan.green
                  /\ t \in TablesOf(migrations[l].plan)
                  /\ migrations[l].progress < WaitAt(migrations[l].plan)
            BY <5>4 DEF Rebuilding
          <6>2. l \in Nat /\ m \in Nat /\ n \in Nat
            BY <1>2, <2>5, MigrationRows DEF WaitInv, DeploymentInv
          <6>3. l > n /\ migrations'[l] = migrations[l]
            BY <2>3, <3>4, <4>3, <6>1, <6>2
          <6> QED
            BY <2>3, <3>1, <3>4, <4>3, <6>1, <6>3
               DEF Rebuilding, TablesOf, WaitAt, LastTableStep
        <5> QED
          BY <5>2, <5>3, <5>4
      <4> QED
        BY <2>6, <3>4, <4>2, <4>3
    <3> QED
      BY <3>2, <3>3, <3>4 DEF Rebuilding
  <2> QED
    BY <1>2, <2>7, <2>8, <2>9 DEF WaitInv, AtResumePoint, RunBuilt, RunWaited
<1> QED
  BY <1>1, <1>3, <1>4 DEF FinishMigration

LEMMA WaitInit == Init => WaitInv
<1> SUFFICES ASSUME Init PROVE WaitInv
  OBVIOUS
<1>1. DOMAIN migrations = {} /\ run.pc = "idle"
  BY DEF Init, IdleRun
<1> QED
  BY <1>1, InitInv DEF WaitInv, PlansBuild, AtResumePoint, CheckpointsBuilt, RunBuilt,
     CheckpointsWaited, RunWaited, Unfinished, AllReplaced

LEMMA WaitStepInv == WaitInv /\ [Next]_vars => WaitInv'
<1> SUFFICES ASSUME WaitInv, [Next]_vars PROVE WaitInv'
  OBVIOUS
<1>1. DeploymentInv' /\ AllReplaced'
  BY StepInv DEF WaitInv
<1>2. CASE UNCHANGED vars \/ ReplaceView
  <2>1. UNCHANGED <<run, migrations, green>>
    BY <1>2 DEF vars, ReplaceView
  <2> QED
    BY <1>1, <2>1, RunUntouched DEF GreenKept
<1>3. CASE \/ CreateInGreenFails \/ ConvergenceTimesOut \/ NameIsTaken \/ StatementFails
  <2>1. Fails /\ run.pc # "idle"
    BY <1>3 DEF CreateInGreenFails, ConvergenceTimesOut, NameIsTaken, StatementFails, AtStep
  <2> QED
    BY <1>1, <2>1, FailsWaits
<1>4. CASE PassiveStep \/ RetireBlueSchema \/ RecordSnapshot
  <2>1. PICK op \in Op \ {"CreateStreamTableInGreen", "WaitForConvergence"} : AtStep(op)
    BY <1>4 DEF PassiveStep, RetireBlueSchema, RecordSnapshot, Op
  <2>2. StepDone /\ UNCHANGED <<migrations, green>>
    BY <1>4 DEF PassiveStep, RetireBlueSchema, RecordSnapshot
  <2> QED
    BY <1>1, <2>1, <2>2, StepDoneWaits
<1>5. CASE Crash
  BY <1>1, <1>5, NoRun DEF Crash, IdleRun
<1>6. CASE Apply \/ ResumeApply \/ TableConverges
  BY <1>1, <1>6, ApplyWaits, ResumeWaits, ConvergesWaits
<1>7. CASE BeginSwap \/ MarkSwapped \/ CommitSwap
  BY <1>1, <1>7, SwapWaits, CommitWaits
<1>8. CASE \/ StartBlueGreenDeployment \/ CreateStreamTableInGreen \/ WaitForConvergence
           \/ SaveProgress \/ FinishMigration
  BY <1>1, <1>8, StartWaits, CreateWaits, WaitWaits, SaveWaits, FinishWaits
<1> QED
  BY <1>2, <1>3, <1>4, <1>5, <1>6, <1>7, <1>8 DEF Next, Advance, SwapBody

(* Views change by a commit only.                                          *)
LEMMA OnlyCommitSwitches ==
  ASSUME [Next]_vars PROVE UNCHANGED public \/ CommitSwap
BY DEF Next, vars, Advance, SwapBody, Apply, ResumeApply, TableConverges,
   StatementFails, Crash, PassiveStep, StartBlueGreenDeployment,
   CreateStreamTableInGreen, CreateInGreenFails, WaitForConvergence,
   ConvergenceTimesOut, RetireBlueSchema, RecordSnapshot, SaveProgress,
   FinishMigration, BeginSwap, ReplaceView, NameIsTaken,
   MarkSwapped, Fails

(* Consumers are not switched to a table that is still being filled, for   *)
(* any tables, edits, runs, crashes, errors, failovers and timeouts        *)
(* (WaitForConvergence before SwapConsumerViews, executor.rs), unless a    *)
(* later migration of the same green schema was interrupted before it had  *)
(* waited for the table and --resume has passed over it (catalog.rs:748).  *)
THEOREM SwapsAreConverged == Spec => SwapsConverged
<1>1. ASSUME WaitInv, [Next]_vars
      PROVE  [\A t \in Table :
                public'[t] # public[t] =>
                  green[public'[t]][t].converged \/ Overlooked(run.migration, t)]_vars
  <2> SUFFICES ASSUME CommitSwap, NEW t \in Table, public'[t] # public[t]
               PROVE  green[public'[t]][t].converged \/ Overlooked(run.migration, t)
    BY <1>1, OnlyCommitSwitches
  <2>1. public'[t] = run.plan.green /\ t \in TablesOf(run.plan)
    BY <1>1, CommitSwitchesPlan DEF WaitInv, DeploymentInv
  <2>2. Past(WaitAt(run.plan))
    <3>1. run.pc = "commit" /\ run.step = SwapAt(run.plan)
      BY <1>1 DEF CommitSwap, WaitInv, DeploymentInv, AtPlannedStep
    <3> QED
      BY <1>1, <3>1, WaitStep, RunFields DEF Past, WaitInv, DeploymentInv
  <2>3. Converged(run.plan, t) \/ Rebuilding(run.migration, t)
    BY <1>1, <2>1, <2>2 DEF CommitSwap, WaitInv, RunWaited
  <2>4. Rebuilding(run.migration, t) => Overlooked(run.migration, t)
    <3> SUFFICES ASSUME NEW n \in DOMAIN migrations, n > run.migration,
                        migrations[n].status # "committed",
                        migrations[n].plan.green = migrations[run.migration].plan.green,
                        t \in TablesOf(migrations[n].plan),
                        migrations[n].progress < WaitAt(migrations[n].plan)
                 PROVE  Overlooked(run.migration, t)
      BY DEF Rebuilding
    <3>1. n \notin Unfinished
      <4>1. \A k \in Unfinished : k <= run.migration
        BY <1>1 DEF WaitInv, DeploymentInv, WorksForNewest, CommitSwap
      <4>2. n \in Nat /\ run.migration \in Nat
        BY <1>1, MigrationRows, RunFields DEF WaitInv, DeploymentInv
      <4> QED
        BY <4>1, <4>2
    <3>2. migrations[n].status = "interrupted"
      BY <1>1, <3>1, MigrationRows DEF WaitInv, DeploymentInv, Unfinished
    <3> QED
      BY <3>2 DEF Overlooked, WaitAt
  <2> QED
    BY <2>1, <2>3, <2>4 DEF Converged
<1> QED
  BY <1>1, WaitInit, WaitStepInv, PTL DEF Spec, SwapsConverged

-----------------------------------------------------------------------------
(* The row of a deployment.                                                *)
RowInv == DeploymentInv /\ RunKnowsRow

(* A run that stays at its step and does not touch the row.                *)
LEMMA RowStays ==
  ASSUME RowInv, DeploymentInv', run.pc # "idle",
         run'.plan = run.plan, run'.migration = run.migration,
         run'.resumeFrom = run.resumeFrom, run'.deployment = run.deployment,
         run'.pc # "commit", lostSwaps \subseteq lostSwaps',
         UNCHANGED deployments,
         HasSwapped' => HasSwapped
  PROVE  RowInv'
BY DEF RowInv, RunKnowsRow

LEMMA RowStaysAtStep ==
  ASSUME RowInv, DeploymentInv', NEW op, AtStep(op), op # "SwapConsumerViews", StepDone,
         UNCHANGED <<deployments, lostSwaps>>
  PROVE  RowInv'
<1>1. /\ run'.plan = run.plan /\ run'.step = run.step /\ run'.pc = "progress"
      /\ run'.migration = run.migration /\ run'.resumeFrom = run.resumeFrom
      /\ run'.deployment = run.deployment
  BY DEF RowInv, DeploymentInv, StepDone, Goto, TypeOK, RunState
<1>2. run.step # SwapAt(run.plan) /\ run.pc = "exec"
  BY NotTheSwap DEF RowInv
<1>3. HasSwapped' => HasSwapped
  BY <1>1, <1>2 DEF HasSwapped, SwapAt, LastTableStep
<1> QED
  BY <1>1, <1>2, <1>3, RowStays

LEMMA RowFails ==
  ASSUME RowInv, DeploymentInv', Fails, run.pc # "idle"
  PROVE  RowInv'
<1>1. /\ run'.plan = run.plan /\ run'.step = run.step /\ run'.pc = "finish"
      /\ run'.migration = run.migration /\ run'.resumeFrom = run.resumeFrom
      /\ run'.deployment = run.deployment /\ run'.outcome # "ok"
  BY DEF RowInv, DeploymentInv, Fails, Ends, TypeOK, RunState
<1>2. HasSwapped' => HasSwapped
  BY <1>1 DEF HasSwapped, SwapAt, LastTableStep
<1> QED
  BY <1>1, <1>2, RowStays DEF Fails

LEMMA RowUntouched ==
  ASSUME RowInv, DeploymentInv', UNCHANGED <<run, deployments, lostSwaps>>,
         run.pc = "commit" => UNCHANGED swap
  PROVE  RowInv'
BY DEF RowInv, RunKnowsRow, HasSwapped, SwapAt, LastTableStep

(* Where the two steps on the row are.                                     *)
LEMMA RowSteps ==
  ASSUME NEW plan \in Plan, NEW step \in 0..(StepCount(plan) - 1),
         OpAt(plan, step + 1) \in {"StartBlueGreenDeployment", "RetireBlueSchema"}
  PROVE  IF OpAt(plan, step + 1) = "RetireBlueSchema" THEN step = SwapAt(plan) + 1
         ELSE step = 1
<1> DEFINE i == step + 1
           last == LastTableStep(plan)
<1>1. i \in Nat /\ 1 <= i /\ i <= last + 5 /\ last \in Nat /\ last >= 3
      /\ SwapAt(plan) = last + 1
  BY StepCounts DEF SwapAt
<1>2. CASE i <= 3
  <2>1. OpAt(plan, i) = Opening[i] /\ (i = 1 \/ i = 2 \/ i = 3)
    BY <1>1, <1>2 DEF OpAt
  <2> QED
    BY <1>1, <2>1, OpeningAndClosing
<1>3. CASE 3 < i /\ i <= last
  <2>1. OpAt(plan, i) \in {"ValidateQuery", "CreateStreamTableInGreen"}
    BY <1>1, <1>3 DEF OpAt
  <2> QED
    BY <2>1
<1>4. CASE last < i
  <2>1. OpAt(plan, i) = Closing[i - last]
    BY <1>1, <1>4 DEF OpAt
  <2>2. \/ i - last = 1 \/ i - last = 2 \/ i - last = 3
        \/ i - last = 4 \/ i - last = 5
    BY <1>1, <1>4
  <2> QED
    BY <1>1, <2>1, <2>2, OpeningAndClosing
<1> QED
  BY <1>1, <1>2, <1>3, <1>4

LEMMA RetireAfterSwap ==
  ASSUME DeploymentInv, run.pc = "exec", CurrentOp = "RetireBlueSchema"
  PROVE  run.step > SwapAt(run.plan)
<1>1. run.plan \in Plan /\ run.step \in Nat /\ run.step < StepCount(run.plan)
  BY RunFields DEF DeploymentInv, AtPlannedStep
<1>2. run.step \in 0..(StepCount(run.plan) - 1)
  BY <1>1, StepCounts
<1>3. run.step = SwapAt(run.plan) + 1
  BY <1>1, <1>2, RowSteps DEF CurrentOp
<1>4. SwapAt(run.plan) \in Nat
  BY <1>1, StepCounts DEF SwapAt
<1> QED
  BY <1>3, <1>4

(* The run that inserts the row has skipped nothing.                       *)
LEMMA RowStarts ==
  ASSUME RowInv, DeploymentInv', WaitInv, StartBlueGreenDeployment
  PROVE  RowInv'
<1>1. /\ run'.plan = run.plan /\ run'.step = run.step /\ run'.pc = "progress"
      /\ run'.migration = run.migration /\ run'.resumeFrom = run.resumeFrom
      /\ run'.deployment = Len(deployments) + 1
  BY DEF StartBlueGreenDeployment, RowInv, DeploymentInv, TypeOK, RunState
<1>2. /\ deployments' = Append(deployments, [green |-> run.plan.green, status |-> "active"])
      /\ deployments \in Seq(DeploymentRow)
  BY DEF StartBlueGreenDeployment, RowInv, DeploymentInv, TypeOK
<1>3. /\ Len(deployments) + 1 \in DOMAIN deployments'
      /\ deployments'[Len(deployments) + 1] = [green |-> run.plan.green, status |-> "active"]
  BY <1>2
<1>4. run.step = 1
  <2>1. run.pc = "exec" /\ OpAt(run.plan, run.step + 1) = "StartBlueGreenDeployment"
    BY DEF StartBlueGreenDeployment, AtStep, CurrentOp
  <2>2. run.plan \in Plan /\ run.step \in Nat /\ run.step < StepCount(run.plan)
    BY <2>1, RunFields DEF RowInv, DeploymentInv, AtPlannedStep
  <2>3. run.step \in 0..(StepCount(run.plan) - 1)
    BY <2>2, StepCounts
  <2> QED
    BY <2>1, <2>2, <2>3, RowSteps
<1>5. run.resumeFrom <= 1
  BY <1>4 DEF WaitInv, AtResumePoint, StartBlueGreenDeployment, AtStep
<1>6. ~HasSwapped'
  <2>1. SwapAt(run.plan) \in Nat /\ SwapAt(run.plan) >= 4 /\ run.resumeFrom \in Nat
    BY RunFields, WaitStep DEF RowInv, DeploymentInv
  <2> QED
    BY <1>1, <1>4, <1>5, <2>1 DEF HasSwapped, SwapAt, LastTableStep
<1> QED
  BY <1>1, <1>3, <1>5, <1>6 DEF RowInv, RunKnowsRow

LEMMA RowBegins ==
  ASSUME RowInv, DeploymentInv', BeginSwap
  PROVE  RowInv'
<1>1. /\ run'.plan = run.plan /\ run'.step = run.step /\ run'.pc = "swap"
      /\ run'.migration = run.migration /\ run'.resumeFrom = run.resumeFrom
      /\ run'.deployment = run.deployment
  BY DEF BeginSwap, Goto, RowInv, DeploymentInv, TypeOK, RunState
<1>2. HasSwapped' => HasSwapped
  BY <1>1 DEF HasSwapped, SwapAt, LastTableStep
<1> QED
  BY <1>1, <1>2, RowStays DEF BeginSwap, AtStep

(* A run that knows the row marks it, or its transaction is aborted.       *)
LEMMA RowMarks ==
  ASSUME RowInv, DeploymentInv', MarkSwapped
  PROVE  RowInv'
<1>1. /\ run'.plan = run.plan /\ run'.step = run.step /\ run'.pc = "commit"
      /\ run'.migration = run.migration /\ run'.resumeFrom = run.resumeFrom
      /\ run'.deployment = run.deployment
  BY DEF MarkSwapped, Goto, RowInv, DeploymentInv, TypeOK, RunState
<1>2. HasSwapped' => HasSwapped
  BY <1>1 DEF HasSwapped, SwapAt, LastTableStep
<1>3. /\ run.pc = "swap" /\ UNCHANGED <<deployments, lostSwaps>>
      /\ run.deployment # 0 => swap'.marked \/ swap'.aborted
  <2>1. swap \in [replaced : Nat, marked : BOOLEAN, aborted : BOOLEAN]
    BY DEF RowInv, DeploymentInv, TypeOK
  <2> QED
    BY <2>1 DEF MarkSwapped
<1> QED
  BY <1>1, <1>2, <1>3 DEF RowInv, RunKnowsRow

(* A status is rewritten: the schema of the row stays.                     *)
LEMMA RewrittenRow ==
  ASSUME TypeOK, NEW i \in DOMAIN deployments, NEW status \in {"active", "swapped", "retired"},
         deployments' = [deployments EXCEPT ![i].status = status]
  PROVE  /\ DOMAIN deployments' = DOMAIN deployments
         /\ deployments'[i].status = status
         /\ deployments'[i].green = deployments[i].green
         /\ \A k \in DOMAIN deployments : k # i => deployments'[k] = deployments[k]
<1>1. PICK new : new = [deployments[i] EXCEPT !.status = status]
  OBVIOUS
<1>2. deployments \in Seq(DeploymentRow) /\ deployments[i] \in DeploymentRow
  BY DEF TypeOK
<1>3. new.status = status /\ new.green = deployments[i].green
  BY <1>1, <1>2 DEF DeploymentRow
<1>4. deployments' = [deployments EXCEPT ![i] = new]
  BY <1>1
<1> QED
  BY <1>2, <1>3, <1>4

LEMMA RowCommits ==
  ASSUME RowInv, AllReplaced, DeploymentInv', CommitSwap
  PROVE  RowInv'
<1>1. /\ run'.plan = run.plan /\ run'.step = run.step /\ run'.pc = "progress"
      /\ run'.migration = run.migration /\ run'.resumeFrom = run.resumeFrom
      /\ run'.deployment = run.deployment /\ run.pc = "commit"
  BY DEF CommitSwap, StepDone, Goto, RowInv, DeploymentInv, TypeOK, RunState
<1> SUFFICES ASSUME run.deployment # 0
             PROVE  RunKnowsRow'
  BY <1>1 DEF RowInv, RunKnowsRow
<1>2. /\ run.deployment \in DOMAIN deployments
      /\ deployments[run.deployment].green = run.plan.green
      /\ run.resumeFrom <= 1 /\ (swap.marked \/ swap.aborted)
  BY <1>1 DEF RowInv, RunKnowsRow
<1>3. CASE swap.aborted
  <2>1. run.migration \in lostSwaps' /\ deployments' = deployments
    BY <1>3 DEF CommitSwap
  <2> QED
    BY <1>1, <1>2, <2>1 DEF RunKnowsRow
<1>4. CASE ~swap.aborted
  <2>1. deployments' = [deployments EXCEPT ![run.deployment].status = "swapped"]
    BY <1>2, <1>4 DEF CommitSwap
  <2>2. /\ DOMAIN deployments' = DOMAIN deployments
        /\ deployments'[run.deployment].status = "swapped"
        /\ deployments'[run.deployment].green = run.plan.green
    BY <1>2, <2>1, RewrittenRow DEF RowInv, DeploymentInv
  <2> QED
    BY <1>1, <1>2, <2>2 DEF RunKnowsRow
<1> QED
  BY <1>3, <1>4

LEMMA RowRetires ==
  ASSUME RowInv, DeploymentInv', RetireBlueSchema
  PROVE  RowInv'
<1>1. CASE UNCHANGED deployments
  BY <1>1, RowStaysAtStep DEF RetireBlueSchema
<1>2. CASE deployments' = [deployments EXCEPT ![run.deployment].status = "retired"]
           /\ run.deployment # 0
  <2>1. /\ run'.plan = run.plan /\ run'.step = run.step /\ run'.pc = "progress"
        /\ run'.migration = run.migration /\ run'.resumeFrom = run.resumeFrom
        /\ run'.deployment = run.deployment /\ run.pc = "exec"
    BY DEF RetireBlueSchema, AtStep, StepDone, Goto, RowInv, DeploymentInv, TypeOK, RunState
  <2>2. /\ run.deployment \in DOMAIN deployments
        /\ deployments[run.deployment].green = run.plan.green
        /\ run.resumeFrom <= 1
    BY <1>2, <2>1 DEF RowInv, RunKnowsRow
  <2>3. /\ DOMAIN deployments' = DOMAIN deployments
        /\ deployments'[run.deployment].status = "retired"
        /\ deployments'[run.deployment].green = run.plan.green
    BY <1>2, <2>2, RewrittenRow DEF RowInv, DeploymentInv
  <2> QED
    BY <2>1, <2>2, <2>3 DEF RowInv, RunKnowsRow
<1> QED
  BY <1>1, <1>2 DEF RetireBlueSchema

LEMMA RowSaves ==
  ASSUME RowInv, DeploymentInv', SaveProgress
  PROVE  RowInv'
<1>1. /\ run.plan \in Plan /\ run.step \in Nat /\ run.resumeFrom \in Nat
      /\ StepCount(run.plan) = SwapAt(run.plan) + 4 /\ SwapAt(run.plan) \in Nat
  BY RunFields, WaitStep DEF RowInv, DeploymentInv
<1>2. /\ run'.plan = run.plan /\ run'.migration = run.migration
      /\ run'.resumeFrom = run.resumeFrom /\ run'.deployment = run.deployment
      /\ \/ /\ run'.pc = "exec" /\ run'.step = NextStep
         \/ /\ run'.pc = "finish" /\ run'.step = run.step
            /\ NextStep >= StepCount(run.plan) \/ run'.outcome = "interrupted"
      /\ NextStep \in Nat
  <2>1. NextStep \in Nat
    BY <1>1 DEF NextStep
  <2> QED
    BY <1>1, <2>1 DEF SaveProgress, Ends, RowInv, DeploymentInv, TypeOK, RunState
<1>3. run.pc = "progress" /\ UNCHANGED <<deployments, lostSwaps>>
  BY DEF SaveProgress
<1>4. NextStep > SwapAt(run.plan) => HasSwapped
  BY <1>1, <1>3 DEF HasSwapped, NextStep
<1>5. HasSwapped' => HasSwapped
  <2>1. SwapAt(run.plan)' = SwapAt(run.plan)
    BY <1>2 DEF SwapAt, LastTableStep
  <2> QED
    BY <1>1, <1>2, <1>3, <1>4, <2>1 DEF HasSwapped
<1> QED
  BY <1>2, <1>3, <1>5, RowStays

LEMMA RowStepInv == RowInv /\ WaitInv /\ [Next]_vars => RowInv'
<1> SUFFICES ASSUME RowInv, WaitInv, [Next]_vars PROVE RowInv'
  OBVIOUS
<1>1. DeploymentInv'
  BY StepInv DEF WaitInv
<1>2. CASE UNCHANGED vars \/ ReplaceView \/ TableConverges
  <2>1. UNCHANGED <<run, deployments, lostSwaps>> /\ (run.pc = "commit" => UNCHANGED swap)
    BY <1>2 DEF vars, ReplaceView, TableConverges
  <2> QED
    BY <1>1, <2>1, RowUntouched
<1>3. CASE \/ CreateInGreenFails \/ ConvergenceTimesOut \/ NameIsTaken \/ StatementFails
  <2>1. Fails /\ run.pc # "idle"
    BY <1>3 DEF CreateInGreenFails, ConvergenceTimesOut, NameIsTaken, StatementFails, AtStep
  <2> QED
    BY <1>1, <2>1, RowFails
<1>4. CASE PassiveStep \/ CreateStreamTableInGreen \/ WaitForConvergence \/ RecordSnapshot
  <2>1. PICK op \in Op \ {"SwapConsumerViews"} : AtStep(op)
    BY <1>4 DEF PassiveStep, CreateStreamTableInGreen, WaitForConvergence, RecordSnapshot, Op
  <2>2. StepDone /\ UNCHANGED <<deployments, lostSwaps>>
    BY <1>4 DEF PassiveStep, CreateStreamTableInGreen, WaitForConvergence, RecordSnapshot
  <2> QED
    BY <1>1, <2>1, <2>2, RowStaysAtStep
<1>5. CASE Apply \/ ResumeApply \/ FinishMigration \/ Crash
  <2>1. IdleRun.deployment = 0
    BY DEF IdleRun
  <2>2. \A plan, m, from : Entered(plan, m, from).deployment = 0
    BY DEF Entered, IdleRun
  <2>3. run' = IdleRun \/ \E plan, m, from : run' = Entered(plan, m, from)
    BY <1>5 DEF Apply, ResumeApply, FinishMigration, Crash
  <2>4. run'.deployment = 0
    BY <2>1, <2>2, <2>3
  <2> QED
    BY <1>1, <2>4 DEF RowInv, RunKnowsRow
<1>6. CASE BeginSwap \/ MarkSwapped \/ CommitSwap
  BY <1>1, <1>6, RowBegins, RowMarks, RowCommits DEF WaitInv
<1>7. CASE StartBlueGreenDeployment \/ RetireBlueSchema \/ SaveProgress
  BY <1>1, <1>7, RowStarts, RowRetires, RowSaves
<1> QED
  BY <1>2, <1>3, <1>4, <1>5, <1>6, <1>7 DEF Next, Advance, SwapBody

LEMMA RowInit == Init => RowInv
BY InitInv DEF Init, IdleRun, RowInv, RunKnowsRow

(* Who changes an existing row.                                            *)
LEMMA RowsChange ==
  ASSUME [Next]_vars, NEW i \in DOMAIN deployments, TypeOK, deployments'[i] # deployments[i]
  PROVE  CommitSwap \/ RetireBlueSchema
<1>1. CASE StartBlueGreenDeployment
  BY <1>1 DEF StartBlueGreenDeployment, TypeOK
<1>2. \/ UNCHANGED deployments \/ CommitSwap \/ RetireBlueSchema
      \/ StartBlueGreenDeployment
  BY DEF Next, vars, Advance, SwapBody, Apply, ResumeApply, TableConverges,
     StatementFails, Crash, PassiveStep, CreateStreamTableInGreen, CreateInGreenFails,
     WaitForConvergence, ConvergenceTimesOut, RecordSnapshot, SaveProgress,
     FinishMigration, BeginSwap, ReplaceView, NameIsTaken, MarkSwapped, Fails
<1> QED
  BY <1>1, <1>2

(* The row of a deployment says "swapped" from the step in which its views *)
(* are, and is retired only after that, unless the COMMIT was lost.        *)
THEOREM RowsFollowViews == Spec => RowFollowsViews
<1> DEFINE Follows ==
      \A i \in DOMAIN deployments :
        deployments'[i] # deployments[i] =>
          \/ deployments'[i].status = "swapped"
             /\ \A t \in TablesOf(run.plan) : public'[t] = deployments[i].green
          \/ deployments[i].status = "swapped"
          \/ run.migration \in lostSwaps
<1>1. ASSUME RowInv, AllReplaced, [Next]_vars PROVE [Follows]_vars
  <2> SUFFICES ASSUME NEW i \in DOMAIN deployments, deployments'[i] # deployments[i]
               PROVE  \/ deployments'[i].status = "swapped"
                         /\ \A t \in TablesOf(run.plan) : public'[t] = deployments[i].green
                      \/ deployments[i].status = "swapped"
                      \/ run.migration \in lostSwaps
    OBVIOUS
  <2>1. TypeOK /\ (CommitSwap \/ RetireBlueSchema)
    BY <1>1, RowsChange DEF RowInv, DeploymentInv
  <2>2. CASE CommitSwap
    <3>1. /\ deployments' = [deployments EXCEPT ![run.deployment].status = "swapped"]
          /\ public' = [t \in Table |-> IF t \in TablesOf(run.plan)
                                        THEN run.plan.green ELSE public[t]]
          /\ run.pc = "commit"
      <4>1. run.pc = "commit" /\ deployments' # deployments
        BY <2>2 DEF CommitSwap
      <4> QED
        BY <1>1, <2>1, <2>2, <4>1, CommitSwitchesPlan
    <3>2. i = run.deployment /\ run.deployment # 0
      <4>1. i = run.deployment
        BY <3>1
      <4>2. i # 0
        BY <2>1 DEF TypeOK
      <4> QED
        BY <4>1, <4>2
    <3>3. deployments[i].green = run.plan.green
      BY <1>1, <3>1, <3>2 DEF RowInv, RunKnowsRow
    <3>4. deployments'[i].status = "swapped"
      BY <2>1, <3>1, <3>2, RewrittenRow
    <3>5. \A t \in TablesOf(run.plan) : t \in Table
      BY <2>1, RunFields DEF TablesOf, Plan
    <3> QED
      BY <3>1, <3>3, <3>4, <3>5
  <2>3. CASE RetireBlueSchema
    <3>1. /\ run.deployment # 0
          /\ deployments' = [deployments EXCEPT ![run.deployment].status = "retired"]
          /\ run.pc = "exec" /\ CurrentOp = "RetireBlueSchema"
      BY <2>3 DEF RetireBlueSchema, AtStep
    <3>2. i = run.deployment
      BY <3>1
    <3>3. run.step > SwapAt(run.plan)
      BY <1>1, <2>1, <3>1, RetireAfterSwap DEF RowInv
    <3>4. \/ deployments[i].status \in {"swapped", "retired"}
          \/ run.migration \in lostSwaps
      BY <1>1, <3>1, <3>2, <3>3 DEF RowInv, RunKnowsRow, HasSwapped
    <3>5. deployments[i].status # "retired"
      <4>1. deployments[i] \in DeploymentRow
        BY <2>1 DEF TypeOK
      <4>2. deployments[i].status = "retired" =>
              [deployments[i] EXCEPT !.status = "retired"] = deployments[i]
        BY <4>1 DEF DeploymentRow
      <4> QED
        BY <3>1, <3>2, <4>2
    <3> QED
      BY <3>4, <3>5
  <2> QED
    BY <2>1, <2>2, <2>3
<1>2. RowInv /\ WaitInv /\ [Next]_vars => RowInv' /\ WaitInv'
  BY RowStepInv, WaitStepInv
<1>4. WaitInv => AllReplaced
  BY DEF WaitInv
<1>3. Init => RowInv /\ WaitInv
  BY RowInit, WaitInit
<1> QED
  BY <1>1, <1>2, <1>3, <1>4, PTL DEF Spec, RowFollowsViews

=============================================================================
