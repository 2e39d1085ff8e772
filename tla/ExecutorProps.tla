--------------------------- MODULE ExecutorProps ---------------------------
(***************************************************************************)
(* What an apply promises: exclusion while it changes stream tables, a     *)
(* checkpoint that never runs ahead of the database, convergence of a      *)
(* crashed and resumed apply, and nothing left locked or paused behind it. *)
(***************************************************************************)
EXTENDS Executor

(* The faults by which a live run may lose its lease to someone else.      *)
Disturbed == Faults \cap {"lag", "noHeartbeat", "unlock"} # {}

(* An eviction excuses a run only where evictions can happen: a run whose  *)
(* heartbeat works and whom no operator unlocks has no excuse.             *)
Excused(r) == r \in evicted /\ Disturbed

LockSkipped(r) == run[r].args.forceSkip = 0

(* The next statement of the run is one that LockDag is there to protect.  *)
Protected(r) ==
  \/ run[r].pc = "ddl"
  \/ \E op \in {"AlterStreamTable", "PauseImmediate", "ResumeImmediate",
                 "RecreatePolicy", "RecordSnapshot", "RunHook"} :
       AtStep(r, "exec", op)

-----------------------------------------------------------------------------
(* Exclusion (catalog.rs:371 "Serialises concurrent apply runs per         *)
(* project"): a run about to change a stream table, run a hook or record a *)
(* version owns the lock row, fresh or resumed, whatever the others do,    *)
(* unless it was evicted and has not noticed yet.                          *)
LeaseProtectsDdl ==
  \A r \in Run : Protected(r) /\ ~LockSkipped(r) =>
    lock.holder = r \/ Excused(r)

(* While a run relies on the lock, the stream tables change by its own     *)
(* doing only, or by that of a run evicted with a statement in flight.  A  *)
(* run whose heartbeat reported a loss will abort and relies on nothing.   *)
TablesChangeUnderLease ==
  [][tables' # tables =>
       \A r, s \in Run :
         /\ run[r].locked /\ ~run[r].lockLost /\ ~Excused(r)
         /\ run'[s] # run[s] /\ s # r
         => Excused(s)]_vars

(* The lock row with the executor around it is a lease.                    *)
Lease == INSTANCE LeaseLock
  WITH Client <- Run, NoClient <- NoRun,
       owner <- lock.holder, lapsed <- lock.expired,
       believers <- {r \in Run : run[r].locked}

(* Refinement: acquire, heartbeat, release, expiry, `aqueduct unlock` and  *)
(* crashes only do what the abstract lease allows; above all the row never *)
(* passes to another run before its TTL, and no run frees another's row.   *)
ImplementsLease == Lease!Spec

(* A run that ended without crashing does not leave the project locked:    *)
(* executor.rs S-05, "release the lock on ANY exit path".  A release that  *)
(* fails is ignored by the code, hence "bestEffort".                       *)
ReleasedUnlessCrashed ==
  "bestEffort" \notin Faults =>
    \A r \in Run : At(r, "ended") /\ run[r].outcome # "crashed" => lock.holder # r

(* Nor does it leave the scheduler paused: once every run is over and none *)
(* crashed, pg_trickle refreshes every table again, in whatever order the  *)
(* runs paused and resumed the tables they share.                          *)
NoPauseLeak ==
  /\ "bestEffort" \notin Faults
  /\ \A r \in Run : run[r].pc \in {"idle", "ended"} /\ run[r].outcome # "crashed"
  => paused = {}

(* executor.rs S-03, S-14: no refresh can race the DDL, the scheduler is   *)
(* paused for a table from before the first DDL on it until after the last.*)
PausedDuringDdl ==
  \A r \in Run : run[r].pc = "ddl" /\ ~LockSkipped(r) =>
    CurrentStep(r).table \in paused

-----------------------------------------------------------------------------
(* The step's effect is in the database: executing it again right away     *)
(* would change no table.                                                  *)
InEffect(step) ==
  CASE step.op = "CreateStreamTable" ->
         tables[step.table] # Absent /\ tables[step.table].query = step.args.query
    [] step.op = "DropStreamTable"   -> tables[step.table] = Absent
    [] step.op = "AlterStreamTable"  -> AlterTable(tables, step.table, step.args) = tables
    [] OTHER -> TRUE

LastOnItsTable(plan, i) ==
  \A j \in DOMAIN plan :
    j > i /\ plan[j].op \in {"CreateStreamTable", "AlterStreamTable",
                              "DropStreamTable"}
    => plan[j].table # plan[i].table

(* The checkpoint that --resume would trust never runs ahead of the        *)
(* database: whatever it says is done, and no later step touches again, is *)
(* in effect, through crashes, failed statements, compensation of          *)
(* half-done DDL and repeated resumes.                                     *)
CheckpointIsDone ==
  \A m \in LatestUnfinished :
    LET row == migrations[m] IN
    \A i \in DOMAIN row.plan :
      /\ i <= row.progress + 1
      /\ LastOnItsTable(row.plan, i)
      => InEffect(row.plan[i])

(* Convergence (ESSENCE.md:64 "can pick up after any crash"): a migration  *)
(* that ends committed has brought this project's tables to the desired    *)
(* DAG, however often it crashed and was resumed on the way.               *)
CommittedIsLive ==
  [][\A r \in Run :
       At(r, "finish") /\ run'[r].pc = "ended" /\ run'[r].outcome = "ok"
       => LiveTables = run[r].desired]_vars

(* A version that rollback may later restore is recorded only when it is   *)
(* what the database holds.                                                *)
SnapshotIsLive ==
  [][versions' # versions => LiveTables = versions'[Len(versions')]]_vars

-----------------------------------------------------------------------------
(* Every run that starts ends, whatever fails and whoever it contends with.*)
RunTerminates == \A r \in Run : r \in Alive ~> At(r, "ended")

(* The lock of a run that died is available to the next one after its TTL: *)
(* nobody has to delete it by hand.                                        *)
LeaseRecovers ==
  \A r \in Run : (lock.holder = r /\ At(r, "ended")) ~> LockAvailable

-----------------------------------------------------------------------------
(* The inductive invariant behind the exclusion theorems, part by part.    *)

Loop == {"head", "exec", "pause", "ddl", "complete", "own", "progress", "check"}

WayOut == {"release", "unpause", "finish"}

(* Every run in the loop executes a well-formed plan.                      *)
PlansWellFormed ==
  \A r \in Run : run[r].pc \notin {"idle", "ended"} => WellFormed(run[r].plan)

(* The step index stays within the plan, and inside a step it names the    *)
(* step that the program counter belongs to.                               *)
InStep == {"exec", "pause", "ddl", "complete", "own", "progress", "check"}

InDdl == {"ddl", "complete", "own"}

BeforeLoop == {"find", "pending", "compensate", "mark", "start"}

StepMatchesPc ==
  \A r \in Run :
    /\ run[r].step <= Len(run[r].plan)
    /\ run[r].pc \in InStep => run[r].step < Len(run[r].plan)
    /\ run[r].pc \in BeforeLoop => run[r].step = 0
    /\ run[r].pc = "pause" => CurrentStep(r).op = "LockDag"
    /\ run[r].pc \in InDdl =>
         CurrentStep(r).op \in {"CreateStreamTable", "DropStreamTable"}

OutcomeMatchesPc ==
  \A r \in Run :
    /\ run[r].pc \in WayOut => run[r].outcome \in {"ok", "failed", "interrupted"}
    /\ run[r].outcome = "crashed" => run[r].pc = "ended"

(* LockDag has been executed and UnlockDag has not.                        *)
BetweenLockAndUnlock(r) ==
  /\ run[r].pc \in Loop
  /\ run[r].step > 0 \/ run[r].pc \notin {"head", "exec"}
  /\ \/ run[r].step + 1 < Len(run[r].plan)
     \/ run[r].step + 1 = Len(run[r].plan) /\ run[r].pc \in {"head", "exec"}

(* The flag `locked` of run_steps says what it should.                     *)
LockedMatchesPc ==
  \A r \in Run :
    /\ BetweenLockAndUnlock(r) /\ ~LockSkipped(r) => run[r].locked
    /\ run[r].locked =>
         /\ run[r].pc \in Loop \cup {"release"}
         /\ run[r].step = 0 => run[r].pc \notin {"head", "exec"}

(* Who relies on the lock and was not evicted owns the row.                *)
LockedOwns ==
  \A r \in Run : run[r].locked /\ r \notin evicted => lock.holder = r

(* Without disturbance a live heartbeat keeps the row alive, and a run     *)
(* past its LockDag has not seen it gone.                                  *)
UndisturbedKeepsLock ==
  ~Disturbed =>
    /\ unlocking = NoRun
    /\ \A r \in Run :
         /\ run[r].pc \in Loop /\ ~run[r].lockLost => run[r].heartbeat
         /\ run[r].locked /\ ~run[r].lockLost =>
              run[r].heartbeat /\ lock.holder = r /\ ~lock.expired
         /\ run[r].locked /\ run[r].step > 0 => ~run[r].lockLost

NobodysLockIsFresh == lock.holder = NoRun => ~lock.expired

OwnerIsLockedOrCrashed ==
  "bestEffort" \notin Faults =>
    \A r \in Run : lock.holder = r => run[r].locked \/ run[r].outcome = "crashed"

LeaseInv ==
  /\ TypeOK
  /\ PlansWellFormed
  /\ StepMatchesPc
  /\ OutcomeMatchesPc
  /\ LockedMatchesPc
  /\ LockedOwns
  /\ UndisturbedKeepsLock
  /\ NobodysLockIsFresh
  /\ OwnerIsLockedOrCrashed

-----------------------------------------------------------------------------
(* The inductive invariant behind the theorems about the scheduler.        *)

(* A run that has asked pg_trickle to pause is on its way to the resume,   *)
(* and every table that is paused is owed one by some run, or was left     *)
(* paused by a run that died.                                              *)
PausesAreOwed ==
  /\ \A r \in Run : run[r].schedulerPaused =>
       run[r].pc \in Loop \cup {"release", "unpause"}
  /\ "bestEffort" \notin Faults =>
       \A t \in paused : \E r \in Run :
         \/ run[r].outcome = "crashed"
         \/ run[r].schedulerPaused /\ t \in AffectedNodes(run[r].plan)

(* The run has executed its LockDag and is still in the step loop.         *)
PastLockDag(r) ==
  /\ run[r].pc \in Loop
  /\ run[r].step > 0 \/ run[r].pc \notin {"head", "exec", "pause"}

OneAtATime == \A r, s \in Alive : r = s

(* Alone, a run past its LockDag finds paused what it paused.              *)
PausedWhileAlone ==
  \A r \in Run :
    PastLockDag(r) /\ ~LockSkipped(r) => AffectedNodes(run[r].plan) \subseteq paused

-----------------------------------------------------------------------------
(* The inductive invariant behind CheckpointIsDone, for the runs of one    *)
(* plan file, one at a time.                                               *)

OnePlan ==
  /\ Desired # {}
  /\ \A args \in Invocation :
       args.planFile /\ args.forceRetry = None /\ args.forceSkip = None
  /\ \A d, e \in Desired : PlanFor(d, InitialTables) = PlanFor(e, InitialTables)

ThePlan == PlanFor(CHOOSE d \in Desired : TRUE, InitialTables)

RowsOfThePlan == \A m \in DOMAIN migrations : migrations[m].plan = ThePlan

(* A create that is to be undone is one of a step that the checkpoint of   *)
(* its migration does not cover.                                           *)
CreateRunning(l) ==
  ddlLog[l].op = "CREATE_STREAM_TABLE" /\ ddlLog[l].status = "running"

AheadOf(m, t) ==
  \E i \in DOMAIN ThePlan :
    /\ i > migrations[m].progress + 1
    /\ ThePlan[i].op = "CreateStreamTable" /\ ThePlan[i].table = t

UndoneIsAhead ==
  \A l \in DOMAIN ddlLog : CreateRunning(l) =>
    /\ ddlLog[l].migration \in DOMAIN migrations
    /\ AheadOf(ddlLog[l].migration, ddlLog[l].table)

(* A live run works on the newest unfinished migration, and found its      *)
(* resume point there.                                                     *)
KnowsMigration(r) ==
  /\ run[r].pc = "find" \/ ~run[r].args.resume => run[r].resumeFrom = 0
  /\ run[r].pc \in {"pending", "compensate", "mark"} => run[r].resumeFrom > 0
  /\ run[r].pc \in Loop \cup WayOut \/ run[r].resumeFrom > 0 =>
       LatestUnfinished = {run[r].migration}
  /\ run[r].pc \in BeforeLoop /\ run[r].resumeFrom > 0 =>
       run[r].resumeFrom = ResumePoint(run[r].migration)

(* It executes no step below the resume point, and the checkpoint follows. *)
StaysAhead(r) ==
  /\ run[r].pc \in InStep /\ run[r].step > 0 => run[r].step >= run[r].resumeFrom
  /\ run[r].pc \in Loop =>
       LET progress == migrations[run[r].migration].progress IN
       \/ progress = 0
       \/ progress < run[r].resumeFrom
       \/ progress < run[r].step
       \/ progress = run[r].step /\ run[r].pc = "check"

(* What it has to compensate is what the log says, and once in the loop    *)
(* only the create it executes is undone.                                  *)
KnowsPending(r) ==
  /\ run[r].pc \in {"compensate", "mark"} =>
       run[r].pending = PendingSteps(run[r].migration)
  /\ run[r].pc \in Loop \/ (run[r].pc = "start" /\ run[r].resumeFrom > 0) =>
       \A l \in DOMAIN ddlLog :
         CreateRunning(l) /\ ddlLog[l].migration = run[r].migration =>
           /\ run[r].pc \in {"ddl", "complete"}
           /\ ddlLog[l].table = CurrentStep(r).table

(* The steps a run in the loop has behind it, itself or by the run it      *)
(* resumes, are in effect; all of them once it is through.                 *)
Behind(r, i) ==
  \/ i <= run[r].resumeFrom
  \/ i <= run[r].step
  \/ i = run[r].step + 1 /\ run[r].pc \in {"complete", "own", "progress", "check"}

DoneSoFar(r) ==
  \A i \in DOMAIN ThePlan :
    /\ LastOnItsTable(ThePlan, i)
    /\ \/ run[r].pc \in Loop /\ Behind(r, i)
       \/ run[r].pc \in WayOut /\ run[r].outcome = "ok"
    => InEffect(ThePlan[i])

OnCourse(r) ==
  /\ run[r].plan = ThePlan /\ run[r].outcome # "interrupted"
  /\ KnowsMigration(r)
  /\ StaysAhead(r)
  /\ KnowsPending(r)
  /\ DoneSoFar(r)

CheckpointInv ==
  /\ RowsOfThePlan
  /\ UndoneIsAhead
  /\ \A r \in Alive : OnCourse(r)
  /\ CheckpointIsDone

-----------------------------------------------------------------------------
(* The inductive invariant behind CommittedIsLive and SnapshotIsLive, on   *)
(* top of CheckpointInv.                                                   *)

(* Of the plan for the tables of the first run (Arrives is a promise that  *)
(* the planner keeps for some files only, see PlanPromises).               *)
PlanArrives == \A desired \in Desired : Arrives(ThePlan, desired, InitialTables)

(* The creates that somebody relies on: a run that has them behind it, or  *)
(* the checkpoint that the next --resume will read; and those of which it  *)
(* relies on the ownership as well.                                        *)
CoveredByCheckpoint(i) ==
  \E m \in LatestUnfinished : i <= migrations[m].progress + 1

Through(r) == run[r].pc \in WayOut /\ run[r].outcome = "ok"

Claimed(i) ==
  \/ \E r \in Alive : Through(r) \/ (run[r].pc \in Loop /\ Behind(r, i))
  \/ CoveredByCheckpoint(i)

Registered(r, i) ==
  \/ i <= run[r].resumeFrom
  \/ i <= run[r].step
  \/ i = run[r].step + 1 /\ run[r].pc \in {"progress", "check"}

ClaimedOwned(i) ==
  \/ \E r \in Alive : Through(r) \/ (run[r].pc \in Loop /\ Registered(r, i))
  \/ CoveredByCheckpoint(i)

CreatesOfPlan == {i \in DOMAIN ThePlan : ThePlan[i].op = "CreateStreamTable"}

CreatedAsPlanned ==
  \A i \in CreatesOfPlan : Claimed(i) => tables[ThePlan[i].table] = ThePlan[i].args

CreatedIsOwned == \A i \in CreatesOfPlan : ClaimedOwned(i) => ThePlan[i].table \in owned

(* A table that is neither created nor dropped is as the first run found   *)
(* it, or altered.                                                         *)
Stays(t) ==
  \A i \in TouchesOf(ThePlan, t) :
    ThePlan[i].op \notin {"CreateStreamTable", "DropStreamTable"}

OldOrAltered ==
  \A t \in Table : Stays(t) =>
    /\ \/ tables[t] = InitialTables[t]
       \/ \E i \in TouchesOf(ThePlan, t) :
            tables[t] = Coalesce(InitialTables[t], ThePlan[i].args)
    /\ InitialTables[t] # Absent => t \in owned

ConvergenceInv ==
  /\ \A r \in Alive : run[r].desired \in Desired
  /\ CreatedAsPlanned
  /\ CreatedIsOwned
  /\ OldOrAltered

=============================================================================
