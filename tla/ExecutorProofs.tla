--------------------------- MODULE ExecutorProofs ---------------------------
(***************************************************************************)
(* Proofs about the executor, for any planner, any set of runs and any     *)
(* combination of faults: its types; that the lock row protects the DDL,   *)
(* that no way out but a crash leaves it behind, and that the executor's   *)
(* use of it is a lease; then exclusion over the stream tables themselves. *)
(* Against other runs it holds as long as none is started with --resume:   *)
(* find_resume_step runs its compensating SQL before LockDag (the run      *)
(* resume_beside_apply shows what follows).  Against the scheduler of      *)
(* pg_trickle it holds as long as one run is alive at a time, and it       *)
(* always ends with the last run.                                          *)
(***************************************************************************)
EXTENDS ExecutorProps, SequenceTheorems, FiniteSetTheorems, TLAPS

TypeInv == TypeOK /\ PlansWellFormed /\ StepMatchesPc /\ OutcomeMatchesPc

(* The sets of program counters are only names for enumerations.           *)
USE DEF PC, BeforeLoop, InStep, InDdl, WayOut

-----------------------------------------------------------------------------
(* The data the actions compute.                                           *)

(* An UPDATE of one row keeps a table of rows typed.                       *)
LEMMA RowUpdated ==
  ASSUME NEW S, NEW seq \in Seq(S), NEW i, NEW x, i \in DOMAIN seq => x \in S
  PROVE  [seq EXCEPT ![i] = x] \in Seq(S)
<1>1. CASE i \in DOMAIN seq
  BY <1>1, ExceptSeq, LenProperties
<1>2. CASE i \notin DOMAIN seq
  <2>1. [seq EXCEPT ![i] = x] = seq
    BY <1>2, LenProperties
  <2> QED
    BY <2>1
<1> QED
  BY <1>1, <1>2

(* An UPDATE with a WHERE keeps a table of rows typed.                     *)
LEMMA RowsUpdated ==
  ASSUME NEW S, NEW seq \in Seq(S), NEW new,
         new = [i \in DOMAIN seq |-> new[i]], \A i \in DOMAIN seq : new[i] \in S
  PROVE  new \in Seq(S)
<1>1. new \in [1..Len(seq) -> S] /\ Len(seq) \in Nat
  BY LenProperties
<1> QED
  BY <1>1, SeqDef

(* alter_stream_table keeps the registry a registry.                       *)
LEMMA AlterKeepsRegistry ==
  ASSUME NEW dag \in DagState, NEW t \in Table, NEW args \in AlterArgs
  PROVE  AlterTable(dag, t, args) \in DagState
<1>1. ASSUME dag[t] # Absent  PROVE Coalesce(dag[t], args) \in TableSpec
  <2>1. dag[t] \in TableSpec
    BY <1>1 DEF DagState
  <2> QED
    BY <2>1 DEF TableSpec, AlterArgs, Coalesce, OrElse
<1> QED
  BY <1>1 DEF DagState, AlterTable

(* read_live_state returns a DAG.                                          *)
LEMMA LiveTablesTyped ==
  ASSUME TypeOK PROVE LiveTables \in DagState
BY DEF TypeOK, LiveTables, DagState


(* The newest unfinished migration has an id and a resume point.           *)
LEMMA UnfinishedTyped ==
  ASSUME TypeOK, NEW m \in LatestUnfinished
  PROVE  m \in Nat /\ ResumePoint(m) \in Nat
<1>1. m \in DOMAIN migrations
  BY DEF LatestUnfinished, Latest
<1>2. m \in 1..Len(migrations) /\ Len(migrations) \in Nat
  BY <1>1, LenProperties DEF TypeOK
<1>3. migrations[m] \in MigrationRow
  BY <1>2, ElementOfSeq DEF TypeOK
<1> QED
  BY <1>2, <1>3 DEF ResumePoint, MigrationRow

(* What a run's current step gives the statement that executes it.         *)
LEMMA StepTyped ==
  ASSUME TypeInv, NEW r \in Run, r \in Alive, run[r].step < Len(run[r].plan)
  PROVE  /\ CurrentStep(r) \in Step
         /\ CurrentStep(r).args \in AlterArgs
         /\ CurrentStep(r).op \in TableOps => CurrentStep(r).table \in Table
         /\ CurrentStep(r).op = "CreateStreamTable" => CurrentStep(r).args \in TableSpec
<1>1. /\ run[r].plan \in Seq(Step)
      /\ run[r].step \in Nat
      /\ WellFormed(run[r].plan)
  BY DEF TypeInv, TypeOK, RunState, PlansWellFormed, Alive
<1>2. /\ Len(run[r].plan) \in Nat
      /\ DOMAIN run[r].plan = 1..Len(run[r].plan)
      /\ run[r].step + 1 \in 1..Len(run[r].plan)
  BY <1>1, LenProperties
<1>3. CurrentStep(r) \in Step
  BY <1>1, <1>2, ElementOfSeq DEF CurrentStep
<1>4. CurrentStep(r).args \in AlterArgs
  BY <1>3 DEF Step
<1> QED
  BY <1>1, <1>2, <1>3, <1>4 DEF WellFormed, CurrentStep

(* The catalog and the runs are well typed before the first apply.         *)
THEOREM InitTypeInv == Init => TypeInv
<1> SUFFICES ASSUME Init PROVE TypeInv
  OBVIOUS
<1> USE ExecutorAssumption DEF Init
<1>1. IdleRun \in RunState
  BY EmptySeq DEF IdleRun, RunState, Outcome, Invocations, DagState, EmptyDag
<1>2. lock \in [holder : Run \cup {NoRun}, expired : BOOLEAN]
  BY DEF NoLock
<1>3. migrations \in Seq(MigrationRow) /\ ddlLog \in Seq(DdlRow)
  BY EmptySeq
<1>4. versions \in Seq(DagState)
  OBVIOUS
<1>5. owned \subseteq Table
  BY DEF Existing
<1>6. TypeOK
  BY <1>1, <1>2, <1>3, <1>4, <1>5 DEF TypeOK
<1>7. PlansWellFormed /\ StepMatchesPc /\ OutcomeMatchesPc
  BY EmptySeq DEF PlansWellFormed, StepMatchesPc, OutcomeMatchesPc, IdleRun
<1> QED
  BY <1>6, <1>7 DEF TypeInv

-----------------------------------------------------------------------------
(* Every action keeps the records of the runs typed.                       *)

RunsTyped ==
  run \in [Run -> RunState] /\ PlansWellFormed /\ StepMatchesPc /\ OutcomeMatchesPc

(* What has to be checked of the record an action stores for its run.      *)
GoodRecord(new) ==
  /\ new \in RunState
  /\ new.pc \notin {"idle", "ended"} => WellFormed(new.plan)
  /\ new.step <= Len(new.plan)
  /\ new.pc \in InStep => new.step < Len(new.plan)
  /\ new.pc \in BeforeLoop => new.step = 0
  /\ new.pc = "pause" => new.plan[new.step + 1].op = "LockDag"
  /\ new.pc \in InDdl =>
       new.plan[new.step + 1].op \in {"CreateStreamTable", "DropStreamTable"}
  /\ new.pc \in WayOut => new.outcome \in {"ok", "failed", "interrupted"}
  /\ new.outcome = "crashed" => new.pc = "ended"

(* Storing one good record keeps the runs typed.                           *)
LEMMA StoredTyped ==
  ASSUME TypeInv, NEW r \in Run, NEW new, GoodRecord(new),
         run' = [run EXCEPT ![r] = new]
  PROVE  RunsTyped'
BY DEF TypeInv, TypeOK, RunsTyped, PlansWellFormed, StepMatchesPc, OutcomeMatchesPc,
       GoodRecord, CurrentStep

(* Every run of a typed state is a good record.                            *)
LEMMA RecordsAreGood ==
  ASSUME TypeInv, NEW r \in Run
  PROVE  GoodRecord(run[r]) /\ run[r] \in RunState
BY DEF TypeInv, TypeOK, PlansWellFormed, StepMatchesPc, OutcomeMatchesPc, GoodRecord,
       CurrentStep

(* The run goes on, without leaving the loop.                              *)
LEMMA GotoTyped ==
  ASSUME TypeInv, NEW r \in Alive, NEW pc \in PC \ (WayOut \cup {"idle", "ended"}),
         Goto(r, pc),
         pc \in BeforeLoop => run[r].step = 0,
         pc \in InStep => run[r].step < Len(run[r].plan),
         pc = "pause" => CurrentStep(r).op = "LockDag",
         pc \in InDdl => CurrentStep(r).op \in {"CreateStreamTable", "DropStreamTable"}
  PROVE  RunsTyped'
<1> r \in Run
  BY DEF Alive
<1> DEFINE new == [run[r] EXCEPT !.pc = pc]
<1>1. run' = [run EXCEPT ![r] = new]
  BY DEF Goto
<1>2. GoodRecord(new)
  <2>1. run[r] \in RunState /\ GoodRecord(run[r])
    BY RecordsAreGood
  <2>2. new \in RunState
    BY <2>1 DEF RunState
  <2>3. /\ new.pc = pc /\ new.step = run[r].step /\ new.plan = run[r].plan
        /\ new.outcome = run[r].outcome
    BY <2>1 DEF RunState
  <2> HIDE DEF new
  <2> QED
    BY <2>1, <2>2, <2>3 DEF GoodRecord, Alive, CurrentStep
<1> HIDE DEF new
<1> QED
  BY <1>1, <1>2, StoredTyped

(* The run leaves the loop.                                                *)
LEMMA FailTyped ==
  ASSUME TypeInv, NEW r \in Alive, NEW outcome \in {"ok", "failed", "interrupted"},
         Fail(r, outcome)
  PROVE  RunsTyped'
<1> r \in Run
  BY DEF Alive
<1> DEFINE new == [run[r] EXCEPT !.pc = "release", !.outcome = outcome]
<1>1. run' = [run EXCEPT ![r] = new]
  BY DEF Fail
<1>2. GoodRecord(new)
  <2>1. run[r] \in RunState /\ GoodRecord(run[r])
    BY RecordsAreGood
  <2>2. new \in RunState
    BY <2>1 DEF RunState, Outcome
  <2>3. /\ new.pc = "release" /\ new.step = run[r].step
        /\ new.plan = run[r].plan /\ new.outcome = outcome
    BY <2>1 DEF RunState
  <2> HIDE DEF new
  <2> QED
    BY <2>1, <2>2, <2>3 DEF GoodRecord, Outcome, Alive
<1> HIDE DEF new
<1> QED
  BY <1>1, <1>2, StoredTyped

(* A run that ends is well typed.                                          *)
LEMMA ExitTyped ==
  ASSUME TypeInv, NEW r \in Run, NEW outcome \in Outcome,
         run' = [run EXCEPT ![r] = Exited(outcome)]
  PROVE  RunsTyped'
<1>1. Exited(outcome) \in RunState
  BY EmptySeq DEF Exited, IdleRun, RunState, Outcome, Invocations, DagState, EmptyDag
<1>2. Exited(outcome).pc = "ended" /\ Exited(outcome).step = 0
      /\ Len(Exited(outcome).plan) = 0
  BY EmptySeq DEF Exited, IdleRun
<1>3. GoodRecord(Exited(outcome))
  BY <1>1, <1>2 DEF GoodRecord
<1> QED
  BY <1>3, StoredTyped

(* A run that begins holds a well-formed plan, or has ended.               *)
LEMMA BeginTyped ==
  ASSUME TypeInv, NEW r \in Run, Begin(r) PROVE RunsTyped'
<1>1. PICK args \in Invocation, desired \in Desired :
        LET plan == PlanFor(desired, IF args.planFile THEN InitialTables ELSE LiveTables)
        IN run' = [run EXCEPT ![r] =
             IF NoChanges(plan) THEN Exited("nochange")
             ELSE [IdleRun EXCEPT !.args = args, !.desired = desired, !.plan = plan,
                                  !.pc = IF args.resume THEN "find" ELSE "start"]]
  BY DEF Begin
<1> DEFINE plan == PlanFor(desired, IF args.planFile THEN InitialTables ELSE LiveTables)
           new == [IdleRun EXCEPT !.args = args, !.desired = desired, !.plan = plan,
                                  !.pc = IF args.resume THEN "find" ELSE "start"]
<1>2. args \in Invocations /\ desired \in DagState
  BY ExecutorAssumption
<1>3. WellFormed(plan) /\ plan \in Seq(Step) /\ Len(plan) >= 0
  BY PlanAssumption, ExecutorAssumption, LiveTablesTyped DEF WellFormed, TypeInv
<1>4. GoodRecord(new)
  <2> HIDE DEF plan
  <2> QED
    BY <1>2, <1>3 DEF GoodRecord, IdleRun, RunState, Outcome
<1>5. CASE NoChanges(plan)
  BY <1>1, <1>5, ExitTyped DEF Outcome
<1>6. CASE ~NoChanges(plan)
  <2>1. run' = [run EXCEPT ![r] = new]
    BY <1>1, <1>6
  <2> HIDE DEF new
  <2> QED
    BY <2>1, <1>4, StoredTyped
<1> QED
  BY <1>5, <1>6

(* The preamble of --resume keeps the runs typed.                          *)
LEMMA ResumeTyped ==
  ASSUME TypeInv, NEW r \in Run, Resume(r) PROVE RunsTyped'
<1> r \in Alive /\ run[r].step = 0
  BY DEF Resume, FindResumeStep, FindPendingSteps, Compensate, MarkCompensated,
         AllCompensated, At, Alive, TypeInv, StepMatchesPc
<1>1. CASE FindResumeStep(r)
  <2>1. CASE Goto(r, "start")
    BY <2>1, GotoTyped
  <2>2. CASE ~Goto(r, "start")
    <3>1. PICK m \in LatestUnfinished :
            run' = [run EXCEPT ![r] = [run[r] EXCEPT !.pc = "pending", !.migration = m,
                                         !.resumeFrom = ResumePoint(m)]]
      BY <1>1, <2>2 DEF FindResumeStep
    <3>2. m \in Nat /\ ResumePoint(m) \in Nat
      BY <3>1, UnfinishedTyped DEF TypeInv
    <3> DEFINE new == [run[r] EXCEPT !.pc = "pending", !.migration = m,
                                     !.resumeFrom = ResumePoint(m)]
    <3>3. run' = [run EXCEPT ![r] = new] /\ GoodRecord(new)
      <4>1. run[r] \in RunState /\ GoodRecord(run[r])
        BY RecordsAreGood
      <4>2. new \in RunState
        BY <3>1, <3>2, <4>1 DEF RunState
      <4>3. /\ new.pc = "pending" /\ new.step = run[r].step
            /\ new.plan = run[r].plan /\ new.outcome = run[r].outcome
        BY <4>1 DEF RunState
      <4>4. run' = [run EXCEPT ![r] = new]
        BY <3>1, <3>2
      <4> HIDE DEF new
      <4> QED
        BY <3>1, <3>2, <4>1, <4>2, <4>3, <4>4 DEF GoodRecord, Alive
    <3> HIDE DEF new
    <3> QED
      BY <3>3, StoredTyped
  <2> QED
    BY <2>1, <2>2
<1>2. CASE FindPendingSteps(r)
  <2> DEFINE found == PendingSteps(run[r].migration)
             new   == [run[r] EXCEPT !.pc = "compensate", !.pending = found]
  <2>1. run' = [run EXCEPT ![r] = new]
    BY <1>2 DEF FindPendingSteps
  <2>2. found \subseteq Nat
    BY LenProperties DEF TypeInv, TypeOK, PendingSteps
  <2>3. GoodRecord(new)
    <3> HIDE DEF found
    <3>1. run[r] \in RunState /\ GoodRecord(run[r])
      BY RecordsAreGood
    <3>2. new \in RunState
      BY <2>2, <3>1 DEF RunState
    <3>3. /\ new.pc = "compensate" /\ new.step = run[r].step
          /\ new.plan = run[r].plan /\ new.outcome = run[r].outcome
      BY <3>1 DEF RunState
    <3> HIDE DEF new
    <3> QED
      BY <3>1, <3>2, <3>3 DEF GoodRecord, Alive
  <2> HIDE DEF new
  <2> QED
    BY <2>1, <2>3, StoredTyped
<1>3. CASE Compensate(r)
  BY <1>3, GotoTyped DEF Compensate
<1>4. CASE MarkCompensated(r)
  <2>1. PICK i : run' = [run EXCEPT ![r] = [run[r] EXCEPT !.pc = "compensate",
                                                    !.pending = @ \ {i}]]
    BY <1>4 DEF MarkCompensated
  <2> DEFINE new == [run[r] EXCEPT !.pc = "compensate", !.pending = @ \ {i}]
  <2>2. run' = [run EXCEPT ![r] = new] /\ GoodRecord(new)
    <3>1. run[r] \in RunState /\ GoodRecord(run[r])
      BY RecordsAreGood
    <3>2. new \in RunState
      BY <2>1, <3>1 DEF RunState
    <3>3. /\ new.pc = "compensate" /\ new.step = run[r].step
          /\ new.plan = run[r].plan /\ new.outcome = run[r].outcome
      BY <3>1 DEF RunState
    <3>4. run' = [run EXCEPT ![r] = new]
      BY <2>1
    <3> HIDE DEF new
    <3> QED
      BY <2>1, <3>1, <3>2, <3>3, <3>4 DEF GoodRecord, Alive
  <2> HIDE DEF new
  <2> QED
    BY <2>2, StoredTyped
<1>5. CASE AllCompensated(r)
  BY <1>5, GotoTyped DEF AllCompensated
<1> QED
  BY <1>1, <1>2, <1>3, <1>4, <1>5 DEF Resume

(* Starting or reusing a migration keeps the runs typed.                   *)
LEMMA StartTyped ==
  ASSUME TypeInv, NEW r \in Run, StartMigration(r) PROVE RunsTyped'
<1>1. PICK m \in Nat : EnterLoop(r, m)
  <2>1. Reused(r) \subseteq LatestUnfinished /\ Len(migrations) + 1 \in Nat
    BY LenProperties DEF Reused, TypeInv, TypeOK
  <2> QED
    BY <2>1, UnfinishedTyped DEF StartMigration, TypeInv
<1>2. PICK beats \in BOOLEAN :
        run' = [run EXCEPT ![r] = [run[r] EXCEPT !.pc = "head", !.migration = m,
                                                 !.heartbeat = beats]]
  BY <1>1 DEF EnterLoop
<1> DEFINE new == [run[r] EXCEPT !.pc = "head", !.migration = m, !.heartbeat = beats]
<1>3. run' = [run EXCEPT ![r] = new] /\ GoodRecord(new)
  <2>1. run[r] \in RunState /\ GoodRecord(run[r])
    BY RecordsAreGood
  <2>2. new \in RunState
    BY <1>2, <2>1 DEF RunState
  <2>3. /\ new.pc = "head" /\ new.step = run[r].step
        /\ new.plan = run[r].plan /\ new.outcome = run[r].outcome
    BY <2>1 DEF RunState
  <2>4. run' = [run EXCEPT ![r] = new]
    BY <1>2
  <2> HIDE DEF new
  <2> QED
    BY <1>2, <2>1, <2>2, <2>3, <2>4 DEF GoodRecord, StartMigration, At
<1> HIDE DEF new
<1> QED
  BY <1>3, StoredTyped

(* The arms of run_steps keep the runs typed.                              *)
LEMMA StepTypedRuns ==
  ASSUME TypeInv, NEW r \in Run, StepBody(r) PROVE RunsTyped'
<1>1. r \in Alive /\ run[r].step < Len(run[r].plan)
  BY DEF StepBody, AcquireLock, PauseScheduler, PassiveStep, WaitsAndHooks, LogCreate,
         CreateStreamTable, LogDrop, DropStreamTable, CompleteLog, RecordOwnership,
         AlterStreamTable, SwitchesMode, RecreatePolicy, RecordSnapshot, UnlockDag, At, AtStep, Alive,
         TypeInv, StepMatchesPc
<1>2. CASE AcquireLock(r)
  <2>1. CASE LockAvailable
    <3>1. PICK pc \in {"progress", "pause"} :
            run' = [run EXCEPT ![r] = [run[r] EXCEPT !.locked = TRUE, !.pc = pc]]
      BY <1>2, <2>1 DEF AcquireLock, ReportContention
    <3>2. CurrentStep(r).op = "LockDag"
      BY <1>2 DEF AcquireLock, ReportContention, AtStep
    <3> DEFINE new == [run[r] EXCEPT !.locked = TRUE, !.pc = pc]
    <3>3. run' = [run EXCEPT ![r] = new] /\ GoodRecord(new)
      <4>1. run[r] \in RunState /\ GoodRecord(run[r])
        BY RecordsAreGood
      <4>2. new \in RunState
        BY <1>1, <3>1, <3>2, <4>1 DEF RunState
      <4>3. /\ new.pc = pc /\ new.step = run[r].step
            /\ new.plan = run[r].plan /\ new.outcome = run[r].outcome
        BY <4>1 DEF RunState
      <4>4. run' = [run EXCEPT ![r] = new]
        BY <1>1, <3>1, <3>2
      <4> HIDE DEF new
      <4> QED
        BY <1>1, <3>1, <3>2, <4>1, <4>2, <4>3, <4>4 DEF GoodRecord, Alive, CurrentStep
    <3> HIDE DEF new
    <3> QED
      BY <3>3, StoredTyped
  <2>2. CASE ~LockAvailable
    BY <1>1, <1>2, <2>2, FailTyped DEF AcquireLock, ReportContention
  <2> QED
    BY <2>1, <2>2
<1>3. CASE PauseScheduler(r)
  <2> DEFINE new == [run[r] EXCEPT !.pc = "progress", !.schedulerPaused = TRUE]
  <2>1. run' = [run EXCEPT ![r] = new]
    BY <1>3 DEF PauseScheduler
  <2>2. GoodRecord(new)
    <3>1. run[r] \in RunState /\ GoodRecord(run[r])
      BY RecordsAreGood
    <3>2. new \in RunState
      BY <1>1, <3>1 DEF RunState
    <3>3. /\ new.pc = "progress" /\ new.step = run[r].step
          /\ new.plan = run[r].plan /\ new.outcome = run[r].outcome
      BY <3>1 DEF RunState
    <3> HIDE DEF new
    <3> QED
      BY <1>1, <3>1, <3>2, <3>3 DEF GoodRecord, Alive
  <2> HIDE DEF new
  <2> QED
    BY <2>1, <2>2, StoredTyped
<1>4. CASE LogDrop(r)
  <2> DEFINE cache == run[r].policyCache \cup ({CurrentStep(r).table} \cap policies)
             new   == [run[r] EXCEPT !.pc = "ddl", !.policyCache = cache]
  <2>1. run' = [run EXCEPT ![r] = new]
    BY <1>4 DEF LogDrop
  <2>2. cache \subseteq Table
    BY RecordsAreGood DEF RunState, TypeInv, TypeOK
  <2>3. CurrentStep(r).op = "DropStreamTable"
    BY <1>4 DEF LogDrop, AtStep
  <2>4. GoodRecord(new)
    <3> HIDE DEF cache
    <3>1. run[r] \in RunState /\ GoodRecord(run[r])
      BY RecordsAreGood
    <3>2. new \in RunState
      BY <2>2, <3>1 DEF RunState
    <3>3. /\ new.pc = "ddl" /\ new.step = run[r].step
          /\ new.plan = run[r].plan /\ new.outcome = run[r].outcome
      BY <3>1 DEF RunState
    <3> HIDE DEF new
    <3> QED
      BY <1>1, <2>3, <3>1, <3>2, <3>3 DEF GoodRecord, Alive, CurrentStep
  <2> HIDE DEF new
  <2> QED
    BY <2>1, <2>4, StoredTyped
<1>5. CASE UnlockDag(r)
  <2> DEFINE new == [run[r] EXCEPT !.locked = FALSE, !.pc = "progress"]
  <2>1. run' = [run EXCEPT ![r] = new]
    BY <1>5 DEF UnlockDag
  <2>2. GoodRecord(new)
    <3>1. run[r] \in RunState /\ GoodRecord(run[r])
      BY RecordsAreGood
    <3>2. new \in RunState
      BY <1>1, <3>1 DEF RunState
    <3>3. /\ new.pc = "progress" /\ new.step = run[r].step
          /\ new.plan = run[r].plan /\ new.outcome = run[r].outcome
      BY <3>1 DEF RunState
    <3> HIDE DEF new
    <3> QED
      BY <1>1, <3>1, <3>2, <3>3 DEF GoodRecord, Alive
  <2> HIDE DEF new
  <2> QED
    BY <2>1, <2>2, StoredTyped
<1>6. CASE \/ LogCreate(r) \/ CreateStreamTable(r) \/ DropStreamTable(r)
           \/ CompleteLog(r) \/ RecordOwnership(r) \/ AlterStreamTable(r)
           \/ RecreatePolicy(r) \/ RecordSnapshot(r) \/ PassiveStep(r)
  <2>1. \E pc \in {"ddl", "complete", "own", "progress"} :
          /\ Goto(r, pc)
          /\ pc # "progress" =>
               CurrentStep(r).op \in {"CreateStreamTable", "DropStreamTable"}
    BY <1>6 DEF LogCreate, CreateStreamTable, DropStreamTable, CompleteLog,
                RecordOwnership, AlterStreamTable, SwitchesMode, RecreatePolicy, RecordSnapshot,
                PassiveStep, WaitsAndHooks, At, AtStep, TypeInv, StepMatchesPc
  <2> QED
    BY <1>1, <2>1, GotoTyped
<1> QED
  BY <1>2, <1>3, <1>4, <1>5, <1>6 DEF StepBody

(* The head and the tail of the loop, errors and crashes keep the runs     *)
(* typed.                                                                  *)
LEMMA LoopTyped ==
  ASSUME TypeInv, NEW r \in Run,
         \/ NextStep(r) \/ SaveProgress(r) \/ CheckAfterStep(r) \/ StepFails(r)
         \/ StartupFails(r) \/ Heartbeat(r) \/ Crash(r)
  PROVE  RunsTyped'
<1>1. CASE NextStep(r)
  <2>1. r \in Alive
    BY <1>1 DEF NextStep, At, Alive
  <2>6. run[r].step \in Nat /\ Len(run[r].plan) \in Nat
    BY RecordsAreGood, LenProperties DEF RunState
  <2>2. CASE \E outcome \in {"ok", "failed"} : Fail(r, outcome)
    BY <2>1, <2>2, FailTyped
  <2>3. CASE Goto(r, "exec") /\ run[r].step # Len(run[r].plan)
    <3>1. run[r].step < Len(run[r].plan)
      BY <2>3, <2>6 DEF TypeInv, StepMatchesPc
    <3> QED
      BY <2>1, <2>3, <3>1, GotoTyped
  <2>4. CASE run' = [run EXCEPT ![r].step = StepAfter(r)] /\ run[r].step # Len(run[r].plan)
    <3> DEFINE new == [run[r] EXCEPT !.step = @ + 1]
    <3>1. run' = [run EXCEPT ![r] = new]
      BY <2>4 DEF StepAfter
    <3>2. run[r].step + 1 \in Nat /\ run[r].step + 1 <= Len(run[r].plan)
      BY <2>4, <2>6 DEF TypeInv, StepMatchesPc
    <3>3. GoodRecord(new)
      <4>1. run[r] \in RunState /\ GoodRecord(run[r])
        BY RecordsAreGood
      <4>2. new \in RunState
        BY <1>1, <3>2, <4>1 DEF RunState
      <4>3. /\ new.pc = run[r].pc /\ new.step = run[r].step + 1
            /\ new.plan = run[r].plan /\ new.outcome = run[r].outcome
        BY <4>1 DEF RunState
      <4> HIDE DEF new
      <4> QED
        BY <1>1, <3>2, <4>1, <4>2, <4>3 DEF GoodRecord, NextStep, At
    <3> HIDE DEF new
    <3> QED
      BY <3>1, <3>3, StoredTyped
  <2> QED
    BY <1>1, <2>2, <2>3, <2>4 DEF NextStep
<1>2. CASE SaveProgress(r)
  BY <1>2, GotoTyped DEF SaveProgress, At, Alive, TypeInv, StepMatchesPc
<1>3. CASE CheckAfterStep(r)
  <2>1. r \in Alive
    BY <1>3 DEF CheckAfterStep, At, Alive
  <2>2. CASE \E outcome \in {"failed", "interrupted"} : Fail(r, outcome)
    BY <2>1, <2>2, FailTyped
  <2>3. CASE run' = [run EXCEPT ![r].pc = "head", ![r].step = StepAfter(r)]
    <3>1. StepAfter(r) \in Nat /\ StepAfter(r) <= Len(run[r].plan)
      BY <1>3, RecordsAreGood, LenProperties
      DEF CheckAfterStep, At, StepAfter, RunState, TypeInv, StepMatchesPc
    <3>2. PICK step \in Nat : step = StepAfter(r)
      BY <3>1
    <3> DEFINE new == [run[r] EXCEPT !.pc = "head", !.step = step]
    <3>3. run' = [run EXCEPT ![r] = new]
      BY <2>3, <3>2
    <3>4. run[r] \in RunState /\ GoodRecord(run[r])
      BY RecordsAreGood
    <3>5. new \in RunState
      BY <3>4 DEF RunState
    <3>6. /\ new.pc = "head" /\ new.step = step
          /\ new.plan = run[r].plan /\ new.outcome = run[r].outcome
      BY <3>4 DEF RunState
    <3> HIDE DEF new
    <3>7. GoodRecord(new)
      BY <2>1, <3>1, <3>2, <3>4, <3>5, <3>6 DEF GoodRecord, Alive
    <3> QED
      BY <3>3, <3>7, StoredTyped
  <2> QED
    BY <1>3, <2>2, <2>3 DEF CheckAfterStep
<1>4. CASE StepFails(r)
  BY <1>4, FailTyped DEF StepFails, AtStep, Alive
<1>5. CASE StartupFails(r) \/ Crash(r)
  BY <1>5, ExitTyped DEF StartupFails, Crash, Outcome
<1>6. CASE Heartbeat(r)
  <2>1. CASE run' = run
    BY <2>1 DEF TypeInv, TypeOK, RunsTyped, PlansWellFormed, StepMatchesPc,
        OutcomeMatchesPc, CurrentStep
  <2>2. CASE run' = [run EXCEPT ![r].lockLost = TRUE, ![r].heartbeat = FALSE]
    <3> DEFINE new == [run[r] EXCEPT !.lockLost = TRUE, !.heartbeat = FALSE]
    <3>1. run' = [run EXCEPT ![r] = new]
      BY <2>2
    <3>2. GoodRecord(new)
      <4>1. run[r] \in RunState /\ GoodRecord(run[r])
        BY RecordsAreGood
      <4>2. new \in RunState
        BY <4>1 DEF RunState
      <4>3. /\ new.pc = run[r].pc /\ new.step = run[r].step
            /\ new.plan = run[r].plan /\ new.outcome = run[r].outcome
        BY <4>1 DEF RunState
      <4> HIDE DEF new
      <4> QED
        BY <4>1, <4>2, <4>3 DEF GoodRecord
    <3> HIDE DEF new
    <3> QED
      BY <3>1, <3>2, StoredTyped
  <2> QED
    BY <1>6, <2>1, <2>2 DEF Heartbeat
<1> QED
  BY <1>1, <1>2, <1>3, <1>4, <1>5, <1>6

(* The way out keeps the runs typed.                                       *)
LEMMA CleanupTyped ==
  ASSUME TypeInv, NEW r \in Run, Cleanup(r) PROVE RunsTyped'
<1>1. CASE ReleaseLock(r)
  <2> DEFINE new == [run[r] EXCEPT !.locked = FALSE, !.pc = "unpause"]
  <2>1. run' = [run EXCEPT ![r] = new]
    BY <1>1 DEF ReleaseLock
  <2>2. GoodRecord(new)
    <3>1. run[r] \in RunState /\ GoodRecord(run[r])
      BY RecordsAreGood
    <3>2. new \in RunState
      BY <1>1, <3>1 DEF RunState
    <3>3. /\ new.pc = "unpause" /\ new.step = run[r].step
          /\ new.plan = run[r].plan /\ new.outcome = run[r].outcome
      BY <3>1 DEF RunState
    <3> HIDE DEF new
    <3> QED
      BY <1>1, <3>1, <3>2, <3>3 DEF GoodRecord, ReleaseLock, At
  <2> HIDE DEF new
  <2> QED
    BY <2>1, <2>2, StoredTyped
<1>2. CASE ResumeScheduler(r)
  <2> DEFINE new == [run[r] EXCEPT !.pc = "finish", !.schedulerPaused = FALSE,
                                   !.heartbeat = FALSE]
  <2>1. run' = [run EXCEPT ![r] = new]
    BY <1>2 DEF ResumeScheduler
  <2>2. GoodRecord(new)
    <3>1. run[r] \in RunState /\ GoodRecord(run[r])
      BY RecordsAreGood
    <3>2. new \in RunState
      BY <1>2, <3>1 DEF RunState
    <3>3. /\ new.pc = "finish" /\ new.step = run[r].step
          /\ new.plan = run[r].plan /\ new.outcome = run[r].outcome
      BY <3>1 DEF RunState
    <3> HIDE DEF new
    <3> QED
      BY <1>2, <3>1, <3>2, <3>3 DEF GoodRecord, ResumeScheduler, At
  <2> HIDE DEF new
  <2> QED
    BY <2>1, <2>2, StoredTyped
<1>3. CASE FinishMigration(r)
  <2>1. run' = [run EXCEPT ![r] = Exited(run[r].outcome)]
    BY <1>3 DEF FinishMigration
  <2>2. run[r].outcome \in Outcome
    BY RecordsAreGood DEF RunState
  <2> QED
    BY <2>1, <2>2, ExitTyped
<1> QED
  BY <1>1, <1>2, <1>3 DEF Cleanup

-----------------------------------------------------------------------------
(* Every action keeps the tables of the database typed.                    *)

DatabaseTyped ==
  /\ lock \in [holder : Run \cup {NoRun}, expired : BOOLEAN]
  /\ migrations \in Seq(MigrationRow)
  /\ ddlLog \in Seq(DdlRow)
  /\ tables \in DagState
  /\ owned \subseteq Table
  /\ policies \subseteq Table
  /\ paused \subseteq Table
  /\ versions \in Seq(DagState)
  /\ unlocking \in Run \cup {NoRun}
  /\ evicted \subseteq Run

(* The affected nodes of a well-formed plan are tables.                    *)
LEMMA AffectedTyped ==
  ASSUME NEW plan, WellFormed(plan) PROVE AffectedNodes(plan) \subseteq Table
BY DEF WellFormed, AffectedNodes, TableOps

(* The statements about the lock row keep the database typed.              *)
LEMMA LockTyped ==
  ASSUME TypeInv, NEW r \in Run,
         \/ AcquireLock(r) \/ UnlockDag(r) \/ ReleaseLock(r) \/ Heartbeat(r)
         \/ LockExpires \/ ShowLock \/ ForceUnlock
  PROVE  DatabaseTyped'
<1>1. UNCHANGED <<catalog, pgtrickle, owned>>
  BY DEF AcquireLock, ReportContention, UnlockDag, ReleaseLock, Heartbeat, LockExpires, ShowLock,
         ForceUnlock
<1>2. lock' \in [holder : Run \cup {NoRun}, expired : BOOLEAN]
  <2>1. \/ lock' \in {lock, NoLock, [holder |-> r, expired |-> FALSE]}
        \/ lock' = [lock EXCEPT !.expired = FALSE]
        \/ lock' = [lock EXCEPT !.expired = TRUE]
    BY DEF AcquireLock, ReportContention, UnlockDag, ReleaseLock, Heartbeat, LockExpires, ShowLock,
           ForceUnlock, Released, LockWithout
  <2>2. [lock EXCEPT !.expired = FALSE] \in [holder : Run \cup {NoRun}, expired : BOOLEAN]
    BY DEF TypeInv, TypeOK
  <2>3. [lock EXCEPT !.expired = TRUE] \in [holder : Run \cup {NoRun}, expired : BOOLEAN]
    BY DEF TypeInv, TypeOK
  <2>4. {lock, NoLock, [holder |-> r, expired |-> FALSE]}
          \subseteq [holder : Run \cup {NoRun}, expired : BOOLEAN]
    BY DEF TypeInv, TypeOK, NoLock
  <2> HIDE DEF NoLock
  <2> QED
    BY <2>1, <2>2, <2>3, <2>4
<1>3. unlocking' \in Run \cup {NoRun} /\ evicted' \subseteq Run
  BY DEF AcquireLock, ReportContention, UnlockDag, ReleaseLock, Heartbeat, LockExpires, ShowLock,
         ForceUnlock, TypeInv, TypeOK, Evict
<1> QED
  BY <1>1, <1>2, <1>3 DEF DatabaseTyped, TypeInv, TypeOK, catalog, pgtrickle

(* DDL and its compensation keep the database typed.                       *)
LEMMA TablesTyped ==
  ASSUME TypeInv, NEW r \in Run,
         \/ Compensate(r) \/ CreateStreamTable(r) \/ DropStreamTable(r)
         \/ AlterStreamTable(r)
  PROVE  DatabaseTyped'
<1>1. UNCHANGED <<lock, catalog, paused, owned, unlocking, evicted>>
  BY DEF Compensate, CreateStreamTable, DropStreamTable, AlterStreamTable, SwitchesMode
<1>2. policies' \subseteq Table
  BY DEF Compensate, CreateStreamTable, DropStreamTable, AlterStreamTable, SwitchesMode,
         TypeInv, TypeOK
<1>3. ASSUME ~Compensate(r)
      PROVE  /\ r \in Alive /\ run[r].step < Len(run[r].plan)
             /\ CurrentStep(r).op \in TableOps
  BY <1>3 DEF CreateStreamTable, DropStreamTable, AlterStreamTable, SwitchesMode, AtStep, Alive, TableOps
<1>4. tables' \in DagState
  <2>1. CASE Compensate(r)
    BY <2>1 DEF Compensate, DropTable, DagState, TypeInv, TypeOK
  <2>2. CASE CreateStreamTable(r)
    BY <2>2, <1>3, StepTyped DEF CreateStreamTable, AtStep, Compensate, At,
                                 CreateTable, DagState, TypeInv, TypeOK
  <2>3. CASE DropStreamTable(r)
    BY <2>3, <1>3, StepTyped DEF DropStreamTable, AtStep, Compensate, At, DropTable,
                                 DagState, TypeInv, TypeOK
  <2>4. CASE AlterStreamTable(r)
    <3>1. ~Compensate(r)
      BY <2>4 DEF AlterStreamTable, SwitchesMode, AtStep, Compensate, At
    <3>2. CurrentStep(r).table \in Table /\ CurrentStep(r).args \in AlterArgs
      BY <3>1, <1>3, StepTyped
    <3>3. AlterTable(tables, CurrentStep(r).table, CurrentStep(r).args) \in DagState
      BY <3>2, AlterKeepsRegistry DEF TypeInv, TypeOK
    <3> QED
      BY <2>4, <3>3 DEF AlterStreamTable, SwitchesMode, TypeInv, TypeOK
  <2> QED
    BY <2>1, <2>2, <2>3, <2>4
<1> QED
  BY <1>1, <1>2, <1>4 DEF DatabaseTyped, TypeInv, TypeOK, catalog

(* The statements about ddl_log and policies keep the database typed.      *)
LEMMA DdlLogTyped ==
  ASSUME TypeInv, NEW r \in Run,
         \/ MarkCompensated(r) \/ LogCreate(r) \/ LogDrop(r) \/ CompleteLog(r)
         \/ RecreatePolicy(r)
  PROVE  DatabaseTyped'
<1>1. UNCHANGED <<lock, migrations, versions, tables, paused, owned, unlocking, evicted>>
  BY DEF MarkCompensated, LogCreate, LogDrop, CompleteLog, RecreatePolicy, pgtrickle
<1>2. ddlLog \in Seq(DdlRow) /\ \A i \in DOMAIN ddlLog : ddlLog[i] \in DdlRow
  BY LenProperties, ElementOfSeq DEF TypeInv, TypeOK
<1>3. CASE MarkCompensated(r)
  <2>1. \A i : [ddlLog EXCEPT ![i].status = "compensated"] \in Seq(DdlRow)
    <3> TAKE i
    <3>1. i \in DOMAIN ddlLog => [ddlLog[i] EXCEPT !.status = "compensated"] \in DdlRow
      BY <1>2 DEF DdlRow
    <3> QED
      BY <1>2, <3>1, RowUpdated
  <2>2. /\ UNCHANGED policies
        /\ \/ UNCHANGED ddlLog
           \/ \E i : ddlLog' = [ddlLog EXCEPT ![i].status = "compensated"]
    BY <1>3 DEF MarkCompensated, pgtrickle
  <2>3. ddlLog' \in Seq(DdlRow)
    BY <1>2, <2>1, <2>2
  <2> QED
    BY <1>1, <2>2, <2>3 DEF DatabaseTyped, TypeInv, TypeOK
<1>4. CASE LogCreate(r) \/ LogDrop(r) \/ RecreatePolicy(r)
  <2>1. /\ r \in Alive /\ run[r].step < Len(run[r].plan)
        /\ CurrentStep(r).op \in TableOps
    BY <1>4 DEF LogCreate, LogDrop, RecreatePolicy, AtStep, Alive, TableOps
  <2>2. CurrentStep(r).table \in Table
    BY <2>1, StepTyped
  <2>3. \A op \in {"CREATE_STREAM_TABLE", "DROP_STREAM_TABLE",
                    "RECREATE_POLICY_FAILED"} :
          Append(ddlLog, LogRow(r, op)) \in Seq(DdlRow)
    BY <1>2, <2>2, RecordsAreGood DEF LogRow, DdlRow, RunState
  <2>4. ddlLog' \in Seq(DdlRow)
    BY <1>2, <1>4, <2>3 DEF LogCreate, LogDrop, RecreatePolicy, Logged
  <2>5. policies' \subseteq Table
    BY <1>4, <2>2 DEF LogCreate, LogDrop, RecreatePolicy, pgtrickle, TypeInv, TypeOK
  <2> QED
    BY <1>1, <2>4, <2>5 DEF DatabaseTyped, TypeInv, TypeOK
<1>5. CASE CompleteLog(r)
  <2> DEFINE new == CompletedLog(run[r].migration, CurrentStep(r).table)
  <2>1. \A i \in DOMAIN ddlLog : new[i] \in DdlRow
    BY <1>2 DEF CompletedLog, DdlRow
  <2>2. new = [i \in DOMAIN ddlLog |-> new[i]]
    BY DEF CompletedLog
  <2>3. new \in Seq(DdlRow)
    <3> HIDE DEF new
    <3> QED
      BY <1>2, <2>1, <2>2, RowsUpdated
  <2> QED
    BY <1>1, <1>2, <1>5, <2>3 DEF CompleteLog, DatabaseTyped, TypeInv, TypeOK, pgtrickle
<1> QED
  BY <1>3, <1>4, <1>5

(* The statements about aqueduct.migrations keep the database typed.       *)
LEMMA MigrationsTyped ==
  ASSUME TypeInv, NEW r \in Run,
         StartMigration(r) \/ SaveProgress(r) \/ FinishMigration(r)
  PROVE  DatabaseTyped'
<1>1. UNCHANGED <<lock, ddlLog, versions, pgtrickle, owned, unlocking, evicted>>
  BY DEF StartMigration, SaveProgress, FinishMigration
<1>2. \A m \in DOMAIN migrations : migrations[m] \in MigrationRow
  BY LenProperties, ElementOfSeq DEF TypeInv, TypeOK
<1>3. migrations' \in Seq(MigrationRow)
  <2>1. CASE StartMigration(r)
    <3>1. NewMigration(r) \in Seq(MigrationRow)
      BY RecordsAreGood DEF NewMigration, MigrationRow, RunState, TypeInv, TypeOK
    <3> QED
      BY <2>1, <3>1 DEF StartMigration, TypeInv, TypeOK
  <2>2. CASE SaveProgress(r)
    <3> DEFINE m   == run[r].migration
               row == [migrations[m] EXCEPT !.progress = CheckpointedStep(r)]
    <3>1. m \in DOMAIN migrations => row \in MigrationRow
      BY <1>2, RecordsAreGood DEF CheckpointedStep, MigrationRow, RunState
    <3>2. migrations' = [migrations EXCEPT ![m] = row]
      BY <2>2 DEF SaveProgress
    <3> QED
      BY <3>1, <3>2, RowUpdated DEF TypeInv, TypeOK
  <2>3. CASE FinishMigration(r)
    <3> DEFINE m   == run[r].migration
               row == FinishedRow(migrations[m], run[r].outcome)
    <3>1. run[r].outcome \in {"ok", "failed", "interrupted"}
      BY <2>3, RecordsAreGood DEF FinishMigration, At, GoodRecord
    <3>2. m \in DOMAIN migrations => row \in MigrationRow
      BY <1>2, <3>1 DEF FinishedRow, MigrationRow
    <3>3. \/ UNCHANGED migrations
          \/ migrations' = [migrations EXCEPT ![m] = row]
      BY <2>3 DEF FinishMigration
    <3>4. migrations \in Seq(MigrationRow)
      BY DEF TypeInv, TypeOK
    <3> HIDE DEF m, row
    <3>5. [migrations EXCEPT ![m] = row] \in Seq(MigrationRow)
      BY <3>2, <3>4, RowUpdated
    <3> QED
      BY <3>3, <3>4, <3>5
  <2> QED
    BY <2>1, <2>2, <2>3
<1> QED
  BY <1>1, <1>3 DEF DatabaseTyped, TypeInv, TypeOK, pgtrickle

(* Pausing, ownership and snapshots keep the database typed.               *)
LEMMA OthersTyped ==
  ASSUME TypeInv, NEW r \in Run,
         \/ PauseScheduler(r) \/ ResumeScheduler(r) \/ RecordOwnership(r)
         \/ RecordSnapshot(r)
  PROVE  DatabaseTyped'
<1>1. UNCHANGED <<lock, migrations, ddlLog, tables, policies, unlocking, evicted>>
  BY DEF PauseScheduler, ResumeScheduler, RecordOwnership, RecordSnapshot, catalog,
         pgtrickle
<1>2. r \in Alive /\ AffectedNodes(run[r].plan) \subseteq Table
  BY AffectedTyped
  DEF PauseScheduler, ResumeScheduler, RecordOwnership, RecordSnapshot, At, AtStep,
      Alive, TypeInv, PlansWellFormed
<1>3. paused' \subseteq Table
  BY <1>2 DEF PauseScheduler, ResumeScheduler, RecordOwnership, RecordSnapshot,
              pgtrickle, TypeInv, TypeOK
<1>4. owned' \subseteq Table
  <2>1. CASE RecordOwnership(r)
    <3>1. CurrentStep(r).op = "CreateStreamTable" => CurrentStep(r).table \in Table
      BY <2>1, <1>2, StepTyped
      DEF RecordOwnership, At, TableOps, TypeInv, StepMatchesPc
    <3> QED
      BY <2>1, <3>1 DEF RecordOwnership, TypeInv, TypeOK
  <2>2. CASE ~RecordOwnership(r)
    BY <2>2 DEF PauseScheduler, ResumeScheduler, RecordSnapshot, TypeInv, TypeOK
  <2> QED
    BY <2>1, <2>2
<1>5. versions' \in Seq(DagState)
  <2>1. run[r].desired \in DagState
    BY RecordsAreGood DEF RunState
  <2>2. Append(versions, run[r].desired) \in Seq(DagState)
    BY <2>1 DEF TypeInv, TypeOK
  <2> QED
    BY <2>2 DEF PauseScheduler, ResumeScheduler, RecordOwnership, RecordSnapshot,
                catalog, TypeInv, TypeOK
<1> QED
  BY <1>1, <1>3, <1>4, <1>5 DEF DatabaseTyped, TypeInv, TypeOK

(* Local decisions of a run leave the database alone.                      *)
LEMMA ControlTyped ==
  ASSUME TypeInv, NEW r \in Run,
         \/ Begin(r) \/ FindResumeStep(r) \/ FindPendingSteps(r) \/ AllCompensated(r)
         \/ StartupFails(r) \/ NextStep(r) \/ StepFails(r) \/ PassiveStep(r)
         \/ CheckAfterStep(r) \/ Crash(r)
  PROVE  DatabaseTyped'
<1>1. UNCHANGED <<lock, catalog, pgtrickle, owned, unlocking, evicted>>
  BY DEF Begin, FindResumeStep, FindPendingSteps, AllCompensated, StartupFails,
         NextStep, StepFails, PassiveStep, WaitsAndHooks, CheckAfterStep, Crash
<1> QED
  BY <1>1 DEF DatabaseTyped, TypeInv, TypeOK, catalog, pgtrickle

(* Every step preserves the type invariant.                                *)
THEOREM TypeInvStep == TypeInv /\ [Next]_vars => TypeInv'
<1> SUFFICES ASSUME TypeInv, [Next]_vars PROVE TypeInv'
  OBVIOUS
<1>1. RunsTyped' /\ DatabaseTyped' => TypeInv'
  BY DEF RunsTyped, DatabaseTyped, TypeInv, TypeOK
<1>2. CASE UNCHANGED vars
  BY <1>2 DEF vars, catalog, pgtrickle, TypeInv, TypeOK, PlansWellFormed,
              StepMatchesPc, OutcomeMatchesPc, CurrentStep
<1>3. ASSUME NEW r \in Run, Begin(r) PROVE TypeInv'
  BY <1>1, <1>3, BeginTyped, ControlTyped
<1>4. ASSUME NEW r \in Run, Resume(r) PROVE TypeInv'
  BY <1>1, <1>4, ResumeTyped, ControlTyped, TablesTyped, DdlLogTyped DEF Resume
<1>5. ASSUME NEW r \in Run, StartMigration(r) PROVE TypeInv'
  BY <1>1, <1>5, StartTyped, MigrationsTyped
<1>6. ASSUME NEW r \in Run, StepBody(r) PROVE TypeInv'
  BY <1>1, <1>6, StepTypedRuns, LockTyped, TablesTyped, DdlLogTyped, OthersTyped,
     ControlTyped DEF StepBody
<1>7. ASSUME NEW r \in Run,
             \/ NextStep(r) \/ SaveProgress(r) \/ CheckAfterStep(r) \/ StepFails(r)
             \/ StartupFails(r) \/ Heartbeat(r) \/ Crash(r)
      PROVE  TypeInv'
  BY <1>1, <1>7, LoopTyped, ControlTyped, LockTyped, MigrationsTyped
<1>8. ASSUME NEW r \in Run, Cleanup(r) PROVE TypeInv'
  BY <1>1, <1>8, CleanupTyped, LockTyped, OthersTyped, MigrationsTyped DEF Cleanup
<1>9. CASE LockExpires \/ ShowLock \/ ForceUnlock
  <2>1. UNCHANGED run
    BY <1>9 DEF LockExpires, ShowLock, ForceUnlock
  <2>2. \E r \in Run : TRUE
    BY <1>9 DEF LockExpires, ShowLock, ForceUnlock, TypeInv, TypeOK
  <2>3. DatabaseTyped'
    BY <1>9, <2>2, LockTyped
  <2> QED
    BY <1>1, <2>1, <2>3 
    DEF RunsTyped, TypeInv, TypeOK, PlansWellFormed, StepMatchesPc, OutcomeMatchesPc,
        CurrentStep
<1> QED
  BY <1>2, <1>3, <1>4, <1>5, <1>6, <1>7, <1>8, <1>9 DEF Next, Advance

(* Type correctness, for every planner that yields well-formed plans: rows *)
(* of migrations and ddl_log, the registry and the local state of every    *)
(* run keep their shape through every interleaving and every fault.        *)
THEOREM TypeCorrect == Spec => []TypeOK
<1>1. TypeInv => TypeOK
  BY DEF TypeInv
<1> QED
  BY InitTypeInv, TypeInvStep, <1>1, PTL DEF Spec

-----------------------------------------------------------------------------
(* The lock, from here on with the counters of the whole loop.             *)
USE DEF Loop

(* LockDag is the first step of a plan and UnlockDag the last.             *)
LEMMA PlanShape ==
  ASSUME TypeInv, NEW r \in Alive
  PROVE  /\ r \in Run
         /\ run[r].step \in Nat
         /\ Len(run[r].plan) \in Nat
         /\ Len(run[r].plan) >= 2
         /\ run[r].step <= Len(run[r].plan)
         /\ run[r].step < Len(run[r].plan) =>
              /\ CurrentStep(r).op = "LockDag" <=> run[r].step = 0
              /\ CurrentStep(r).op = "UnlockDag" <=> run[r].step + 1 = Len(run[r].plan)
<1>1. r \in Run /\ WellFormed(run[r].plan) /\ run[r].plan \in Seq(Step)
      /\ run[r].step \in Nat /\ run[r].step <= Len(run[r].plan)
  BY DEF Alive, TypeInv, TypeOK, PlansWellFormed, StepMatchesPc, RunState
<1>2. Len(run[r].plan) \in Nat /\ DOMAIN run[r].plan = 1..Len(run[r].plan)
  BY <1>1, LenProperties
<1> QED
  BY <1>1, <1>2 DEF WellFormed, CurrentStep

(* The runs are a function to records with a flag, spelt out for the       *)
(* provers.                                                                *)
LEMMA RunsAreFunctions ==
  ASSUME TypeInv
  PROVE  /\ DOMAIN run = Run
         /\ \A r \in Run : run[r] \in RunState
         /\ \A r \in Run : run[r].locked \in BOOLEAN
BY DEF TypeInv, TypeOK, RunState

-----------------------------------------------------------------------------
(* The flag `locked` of run_steps.                                         *)

FlagGood(new) ==
  /\ /\ new.pc \in Loop
     /\ new.step > 0 \/ new.pc \notin {"head", "exec"}
     /\ \/ new.step + 1 < Len(new.plan)
        \/ new.step + 1 = Len(new.plan) /\ new.pc \in {"head", "exec"}
     /\ new.args.forceSkip # 0
     => new.locked
  /\ new.locked => /\ new.pc \in Loop \cup {"release"}
                   /\ new.step = 0 => new.pc \notin {"head", "exec"}

(* Storing a record whose flag fits its pc keeps LockedMatchesPc.          *)
LEMMA FlagStored ==
  ASSUME TypeInv, LockedMatchesPc, NEW r \in Run, NEW new, FlagGood(new),
         run' = [run EXCEPT ![r] = new]
  PROVE  LockedMatchesPc'
BY RunsAreFunctions DEF LockedMatchesPc, BetweenLockAndUnlock, LockSkipped, FlagGood

(* The flag of every run fits its pc.                                      *)
LEMMA FlagOf ==
  ASSUME TypeInv, LockedMatchesPc, NEW r \in Run PROVE FlagGood(run[r])
BY DEF LockedMatchesPc, BetweenLockAndUnlock, LockSkipped, FlagGood

(* The first query of --resume is made without the lock.                   *)
LEMMA FlagFindResumeStep ==
  ASSUME TypeInv, LockedMatchesPc, NEW r \in Run, FindResumeStep(r)
  PROVE  LockedMatchesPc'
<1>1. ~run[r].locked
  BY DEF FindResumeStep, At, LockedMatchesPc
<1>2. \/ run' = [run EXCEPT ![r] = [run[r] EXCEPT !.pc = "start"]]
      \/ \E m : run' = [run EXCEPT ![r] = [run[r] EXCEPT
                   !.pc = "pending", !.migration = m, !.resumeFrom = ResumePoint(m)]]
  BY DEF FindResumeStep, Goto
<1>3. \A m, from : FlagGood([run[r] EXCEPT !.pc = "pending", !.migration = m,
                                           !.resumeFrom = from])
  BY <1>1, RunsAreFunctions DEF FlagGood, RunState
<1>4. FlagGood([run[r] EXCEPT !.pc = "start"])
  BY <1>1, RunsAreFunctions DEF FlagGood, RunState
<1> QED
  BY <1>2, <1>3, <1>4, FlagStored

(* The loop is entered without the lock.                                   *)
LEMMA FlagStartMigration ==
  ASSUME TypeInv, LockedMatchesPc, NEW r \in Run, StartMigration(r)
  PROVE  LockedMatchesPc'
<1>1. run[r].pc = "start"
  BY DEF StartMigration, At
<1>2. ~run[r].locked
  BY <1>1 DEF LockedMatchesPc
<1>3. run[r].step = 0
  BY <1>1 DEF TypeInv, StepMatchesPc
<1>4. PICK m : EnterLoop(r, m)
  BY DEF StartMigration
<1>5. PICK beats \in BOOLEAN :
        run' = [run EXCEPT ![r] = [run[r] EXCEPT !.pc = "head", !.migration = m,
                                                 !.heartbeat = beats]]
  BY <1>4 DEF EnterLoop
<1>6. FlagGood([run[r] EXCEPT !.pc = "head", !.migration = m, !.heartbeat = beats])
  BY <1>2, <1>3, RunsAreFunctions DEF FlagGood, RunState
<1> QED
  BY <1>5, <1>6, FlagStored

(* The run leaves the loop and keeps its flag.                             *)
LEMMA FlagFail ==
  ASSUME TypeInv, LockedMatchesPc, NEW r \in Run, NEW outcome, Fail(r, outcome)
  PROVE  LockedMatchesPc'
<1>1. run' = [run EXCEPT ![r] = [run[r] EXCEPT !.pc = "release", !.outcome = outcome]]
  BY DEF Fail
<1>2. FlagGood([run[r] EXCEPT !.pc = "release", !.outcome = outcome])
  BY RunsAreFunctions DEF FlagGood, RunState
<1> QED
  BY <1>1, <1>2, FlagStored

(* LockDag is the first step, so the flag is set past step 0.              *)
LEMMA FlagAcquireLock ==
  ASSUME TypeInv, LockedMatchesPc, NEW r \in Run, AcquireLock(r)
  PROVE  LockedMatchesPc'
<1>1. run[r].step = 0 /\ Len(run[r].plan) >= 2 /\ Len(run[r].plan) \in Nat
  BY PlanShape DEF AcquireLock, ReportContention, AtStep, Alive
<1>2. CASE LockAvailable
  <2>1. PICK pc \in {"progress", "pause"} :
          run' = [run EXCEPT ![r] = [run[r] EXCEPT !.locked = TRUE, !.pc = pc]]
    BY <1>2 DEF AcquireLock, ReportContention
  <2>2. FlagGood([run[r] EXCEPT !.locked = TRUE, !.pc = pc])
    BY <1>1, RunsAreFunctions DEF FlagGood, RunState
  <2> QED
    BY <2>1, <2>2, FlagStored
<1>3. CASE ~LockAvailable
  BY <1>3, FlagFail DEF AcquireLock, ReportContention
<1> QED
  BY <1>2, <1>3

(* The head of the loop moves between steps on the same side of UnlockDag. *)
LEMMA FlagNextStep ==
  ASSUME TypeInv, LockedMatchesPc, NEW r \in Run, NextStep(r)
  PROVE  LockedMatchesPc'
<1>1. CASE Fail(r, "ok") \/ Fail(r, "failed")
  BY <1>1, FlagFail
<1>2. CASE Goto(r, "exec")
  BY <1>2, RunsAreFunctions
  DEF NextStep, At, Goto, LockedMatchesPc, BetweenLockAndUnlock, LockSkipped
<1>3. CASE /\ run' = [run EXCEPT ![r].step = StepAfter(r)]
           /\ run[r].step # Len(run[r].plan) /\ Skips(r)
  <2>1. run' = [run EXCEPT ![r] = [run[r] EXCEPT !.step = @ + 1]]
    BY <1>3 DEF StepAfter
  <2>2. /\ run[r].pc = "head" /\ run[r].step \in Nat /\ Len(run[r].plan) \in Nat
        /\ run[r].step < Len(run[r].plan)
        /\ run[r].step = 0 => run[r].args.forceSkip = 0
    BY <1>3, PlanShape DEF NextStep, At, Alive, Skips, AlreadyDone
  <2>3. FlagGood([run[r] EXCEPT !.step = @ + 1])
    BY <2>2, FlagOf, RunsAreFunctions DEF FlagGood, RunState
  <2> QED
    BY <2>1, <2>3, FlagStored
<1> QED
  BY <1>1, <1>2, <1>3 DEF NextStep

(* The checks after a step keep the flag.                                  *)
LEMMA FlagCheckAfterStep ==
  ASSUME TypeInv, LockedMatchesPc, NEW r \in Run, CheckAfterStep(r)
  PROVE  LockedMatchesPc'
<1>1. CASE Fail(r, "failed") \/ Fail(r, "interrupted")
  BY <1>1, FlagFail
<1>2. CASE run' = [run EXCEPT ![r].pc = "head", ![r].step = StepAfter(r)]
  <2>1. run' = [run EXCEPT ![r] = [run[r] EXCEPT !.pc = "head", !.step = @ + 1]]
    BY <1>2 DEF StepAfter
  <2>2. run[r].pc = "check" /\ run[r].step \in Nat /\ Len(run[r].plan) \in Nat
    BY PlanShape DEF CheckAfterStep, At, Alive
  <2>3. FlagGood([run[r] EXCEPT !.pc = "head", !.step = @ + 1])
    BY <2>2, FlagOf, RunsAreFunctions DEF FlagGood, RunState
  <2> QED
    BY <2>1, <2>3, FlagStored
<1> QED
  BY <1>1, <1>2 DEF CheckAfterStep

(* The heartbeat tells the run of a lost lock and leaves its flag alone.   *)
LEMMA FlagHeartbeat ==
  ASSUME TypeInv, LockedMatchesPc, NEW r \in Run, Heartbeat(r)
  PROVE  LockedMatchesPc'
<1>1. CASE run' = run
  BY <1>1 DEF LockedMatchesPc, BetweenLockAndUnlock, LockSkipped
<1>2. CASE run' = [run EXCEPT ![r].lockLost = TRUE, ![r].heartbeat = FALSE]
  <2>1. run' = [run EXCEPT ![r] = [run[r] EXCEPT !.lockLost = TRUE, !.heartbeat = FALSE]]
    BY <1>2
  <2>2. FlagGood([run[r] EXCEPT !.lockLost = TRUE, !.heartbeat = FALSE])
    BY FlagOf, RunsAreFunctions DEF FlagGood, RunState
  <2> QED
    BY <2>1, <2>2, FlagStored
<1> QED
  BY <1>1, <1>2 DEF Heartbeat

(* One step per action.                                                    *)
LEMMA LockedMatchesPcStep ==
  ASSUME TypeInv, LockedMatchesPc PROVE [Next]_vars => LockedMatchesPc'
<1> USE PlanShape, RunsAreFunctions
    DEF At, AtStep, Goto, Alive, LockedMatchesPc, BetweenLockAndUnlock, LockSkipped
<1>1. ASSUME NEW r \in Run, Begin(r) PROVE LockedMatchesPc'
  BY <1>1 DEF Begin, Exited, IdleRun
<1>2. ASSUME NEW r \in Run, FindPendingSteps(r) PROVE LockedMatchesPc'
  BY <1>2 DEF FindPendingSteps
<1>3. ASSUME NEW r \in Run, Compensate(r) PROVE LockedMatchesPc'
  BY <1>3 DEF Compensate
<1>4. ASSUME NEW r \in Run, MarkCompensated(r) PROVE LockedMatchesPc'
  BY <1>4 DEF MarkCompensated
<1>5. ASSUME NEW r \in Run, AllCompensated(r) PROVE LockedMatchesPc'
  BY <1>5 DEF AllCompensated
<1>6. ASSUME NEW r \in Run, StartupFails(r) PROVE LockedMatchesPc'
  BY <1>6 DEF StartupFails, Exited, IdleRun
<1>7. ASSUME NEW r \in Run, Crash(r) PROVE LockedMatchesPc'
  BY <1>7 DEF Crash, Exited, IdleRun
<1>8. ASSUME NEW r \in Run, PauseScheduler(r) PROVE LockedMatchesPc'
  BY <1>8 DEF PauseScheduler, TypeInv, StepMatchesPc
<1>9. ASSUME NEW r \in Run, PassiveStep(r) PROVE LockedMatchesPc'
  BY <1>9 DEF PassiveStep, WaitsAndHooks
<1>10. ASSUME NEW r \in Run, LogCreate(r) PROVE LockedMatchesPc'
  BY <1>10 DEF LogCreate
<1>11. ASSUME NEW r \in Run, CreateStreamTable(r) PROVE LockedMatchesPc'
  BY <1>11 DEF CreateStreamTable
<1>12. ASSUME NEW r \in Run, LogDrop(r) PROVE LockedMatchesPc'
  BY <1>12 DEF LogDrop
<1>13. ASSUME NEW r \in Run, DropStreamTable(r) PROVE LockedMatchesPc'
  BY <1>13 DEF DropStreamTable
<1>14. ASSUME NEW r \in Run, CompleteLog(r) PROVE LockedMatchesPc'
  BY <1>14 DEF CompleteLog, TypeInv, StepMatchesPc
<1>15. ASSUME NEW r \in Run, RecordOwnership(r) PROVE LockedMatchesPc'
  BY <1>15 DEF RecordOwnership, TypeInv, StepMatchesPc
<1>16. ASSUME NEW r \in Run, AlterStreamTable(r) PROVE LockedMatchesPc'
  BY <1>16 DEF AlterStreamTable, SwitchesMode
<1>17. ASSUME NEW r \in Run, RecreatePolicy(r) PROVE LockedMatchesPc'
  BY <1>17 DEF RecreatePolicy
<1>18. ASSUME NEW r \in Run, RecordSnapshot(r) PROVE LockedMatchesPc'
  BY <1>18 DEF RecordSnapshot
<1>19. ASSUME NEW r \in Run, UnlockDag(r) PROVE LockedMatchesPc'
  BY <1>19 DEF UnlockDag
<1>20. ASSUME NEW r \in Run, SaveProgress(r) PROVE LockedMatchesPc'
  BY <1>20 DEF SaveProgress
<1>21. ASSUME NEW r \in Run, StepFails(r) PROVE LockedMatchesPc'
  BY <1>21 DEF StepFails, Fail
<1>22. ASSUME NEW r \in Run, ReleaseLock(r) PROVE LockedMatchesPc'
  BY <1>22 DEF ReleaseLock
<1>23. ASSUME NEW r \in Run, ResumeScheduler(r) PROVE LockedMatchesPc'
  BY <1>23 DEF ResumeScheduler
<1>24. ASSUME NEW r \in Run, FinishMigration(r) PROVE LockedMatchesPc'
  BY <1>24 DEF FinishMigration, Exited, IdleRun
<1>25. ASSUME UNCHANGED run PROVE LockedMatchesPc'
  BY <1>25
<1> QED
  BY <1>1, <1>2, <1>3, <1>4, <1>5, <1>6, <1>7, <1>8, <1>9, <1>10, <1>11,
     <1>12, <1>13, <1>14, <1>15, <1>16, <1>17, <1>18, <1>19, <1>20, <1>21,
     <1>22, <1>23, <1>24, <1>25, FlagFindResumeStep, FlagStartMigration,
     FlagAcquireLock, FlagNextStep, FlagCheckAfterStep, FlagHeartbeat
  DEF Next, Resume, StepBody, Cleanup, Advance, LockExpires, ShowLock, ForceUnlock, vars

-----------------------------------------------------------------------------
(* Ownership of the row.  Most actions leave the row alone and are quiet:  *)
(* the run neither starts nor stops relying on the lock behind its back.   *)

Quiet(old, new) ==
  /\ new.locked => old.locked /\ new.lockLost = old.lockLost
                   /\ new.heartbeat = old.heartbeat
  /\ new.locked /\ new.step > 0 => old.step > 0 \/ ~old.lockLost
  /\ new.pc \in Loop /\ ~new.lockLost =>
       \/ new.heartbeat \/ Disturbed
       \/ old.pc \in Loop /\ ~old.lockLost /\ new.heartbeat = old.heartbeat
  /\ old.locked => new.locked \/ new.outcome = "crashed"
  /\ old.outcome # "crashed"

QuietStep(r) ==
  /\ \A s \in Run : s # r => run'[s] = run[s]
  /\ Quiet(run[r], run'[r])
  /\ UNCHANGED <<lock, evicted, unlocking>>

(* A record that changes quietly, with the row alone, is a quiet step.     *)
LEMMA QuietStored ==
  ASSUME TypeInv, NEW r \in Run, NEW new, run' = [run EXCEPT ![r] = new],
         Quiet(run[r], new), UNCHANGED <<lock, evicted, unlocking>>
  PROVE  QuietStep(r)
BY RunsAreFunctions DEF QuietStep

(* A run that is alive has not crashed.                                    *)
LEMMA NotCrashed ==
  ASSUME TypeInv, NEW r \in Alive PROVE r \in Run /\ run[r].outcome # "crashed"
BY DEF TypeInv, OutcomeMatchesPc, Alive

(* The first query of --resume is quiet.                                   *)
LEMMA QuietFindResumeStep ==
  ASSUME TypeInv, LockedMatchesPc, NEW r \in Run, FindResumeStep(r)
  PROVE  QuietStep(r)
<1>1. run[r].pc = "find" /\ ~run[r].locked /\ run[r].outcome # "crashed"
  BY NotCrashed DEF FindResumeStep, At, LockedMatchesPc, Alive
<1>2. UNCHANGED <<lock, evicted, unlocking>>
  BY DEF FindResumeStep
<1>3. \/ run' = [run EXCEPT ![r] = [run[r] EXCEPT !.pc = "start"]]
      \/ \E m : run' = [run EXCEPT ![r] = [run[r] EXCEPT
                   !.pc = "pending", !.migration = m, !.resumeFrom = ResumePoint(m)]]
  BY DEF FindResumeStep, Goto
<1>4. \A m, from : Quiet(run[r], [run[r] EXCEPT !.pc = "pending", !.migration = m,
                                                !.resumeFrom = from])
  BY <1>1, RunsAreFunctions DEF Quiet, RunState
<1>5. Quiet(run[r], [run[r] EXCEPT !.pc = "start"])
  BY <1>1, RunsAreFunctions DEF Quiet, RunState
<1> QED
  BY <1>2, <1>3, <1>4, <1>5, QuietStored

(* Where heartbeats work, the loop is entered with one.                    *)
LEMMA QuietStartMigration ==
  ASSUME TypeInv, LockedMatchesPc, NEW r \in Run, StartMigration(r)
  PROVE  QuietStep(r)
<1>1. run[r].pc = "start"
  BY DEF StartMigration, At
<1>2. ~run[r].locked /\ run[r].outcome # "crashed"
  BY <1>1, NotCrashed DEF LockedMatchesPc, Alive
<1>3. UNCHANGED <<lock, evicted, unlocking>>
  BY DEF StartMigration
<1>4. PICK m : EnterLoop(r, m)
  BY DEF StartMigration
<1>5. PICK beats \in {TRUE} \cup (IF "noHeartbeat" \in Faults THEN {FALSE} ELSE {}) :
        run' = [run EXCEPT ![r] = [run[r] EXCEPT !.pc = "head", !.migration = m,
                                                 !.heartbeat = beats]]
  BY <1>4 DEF EnterLoop
<1>6. beats = TRUE \/ Disturbed
  BY <1>5 DEF Disturbed
<1>7. Quiet(run[r], [run[r] EXCEPT !.pc = "head", !.migration = m, !.heartbeat = beats])
  BY <1>2, <1>6, RunsAreFunctions DEF Quiet, RunState
<1> QED
  BY <1>3, <1>5, <1>7, QuietStored

(* An error leaves the row and the flag to the clean-up.                   *)
LEMMA QuietFail ==
  ASSUME TypeInv, NEW r \in Alive, NEW outcome, Fail(r, outcome),
         UNCHANGED <<lock, evicted, unlocking>>
  PROVE  QuietStep(r)
<1>1. r \in Run /\ run[r].outcome # "crashed"
  BY NotCrashed
<1>2. run' = [run EXCEPT ![r] = [run[r] EXCEPT !.pc = "release", !.outcome = outcome]]
  BY DEF Fail
<1>3. Quiet(run[r], [run[r] EXCEPT !.pc = "release", !.outcome = outcome])
  BY <1>1, RunsAreFunctions DEF Quiet, RunState
<1> QED
  BY <1>1, <1>2, <1>3, QuietStored

(* The head of the loop is quiet.                                          *)
LEMMA QuietNextStep ==
  ASSUME TypeInv, LockedMatchesPc, NEW r \in Run, NextStep(r)
  PROVE  QuietStep(r)
<1>1. r \in Alive /\ run[r].pc = "head" /\ UNCHANGED <<lock, evicted, unlocking>>
  BY DEF NextStep, At, Alive
<1>2. run[r].outcome # "crashed" /\ run[r].step \in Nat
      /\ (run[r].locked => run[r].step > 0)
  BY <1>1, NotCrashed, PlanShape DEF LockedMatchesPc
<1>3. CASE Fail(r, "ok") \/ Fail(r, "failed")
  BY <1>1, <1>3, QuietFail
<1>4. CASE run' = [run EXCEPT ![r].pc = "exec"]
  <2>1. Quiet(run[r], [run[r] EXCEPT !.pc = "exec"])
    BY <1>1, <1>2, RunsAreFunctions DEF Quiet, RunState
  <2> QED
    BY <1>1, <1>4, <2>1, QuietStored
<1>5. CASE run' = [run EXCEPT ![r].step = StepAfter(r)]
  <2>1. Quiet(run[r], [run[r] EXCEPT !.step = @ + 1])
    BY <1>1, <1>2, RunsAreFunctions DEF Quiet, RunState
  <2> QED
    BY <1>1, <1>5, <2>1, QuietStored DEF StepAfter
<1> QED
  BY <1>3, <1>4, <1>5 DEF NextStep, Goto

(* A run only goes on to its second step while the lock is not lost.       *)
LEMMA QuietCheckAfterStep ==
  ASSUME TypeInv, LockedMatchesPc, NEW r \in Run, CheckAfterStep(r)
  PROVE  QuietStep(r)
<1>1. r \in Alive /\ run[r].pc = "check" /\ UNCHANGED <<lock, evicted, unlocking>>
  BY DEF CheckAfterStep, At, Alive
<1>2. CASE Fail(r, "failed") \/ Fail(r, "interrupted")
  BY <1>1, <1>2, QuietFail
<1>3. CASE /\ ~run[r].lockLost
           /\ run' = [run EXCEPT ![r].pc = "head", ![r].step = StepAfter(r)]
  <2>1. run' = [run EXCEPT ![r] = [run[r] EXCEPT !.pc = "head", !.step = @ + 1]]
    BY <1>3 DEF StepAfter
  <2>2. Quiet(run[r], [run[r] EXCEPT !.pc = "head", !.step = @ + 1])
    BY <1>1, <1>3, NotCrashed, RunsAreFunctions DEF Quiet, RunState
  <2> QED
    BY <1>1, <2>1, <2>2, QuietStored
<1> QED
  BY <1>2, <1>3 DEF CheckAfterStep

(* Resuming the scheduler is quiet.                                        *)
LEMMA QuietResumeScheduler ==
  ASSUME TypeInv, LockedMatchesPc, NEW r \in Run, ResumeScheduler(r)
  PROVE  QuietStep(r)
<1>1. run[r].pc = "unpause" /\ UNCHANGED <<lock, evicted, unlocking>>
  BY DEF ResumeScheduler, At
<1>2. ~run[r].locked /\ run[r].outcome # "crashed"
  BY <1>1, NotCrashed DEF LockedMatchesPc, Alive
<1>3. run' = [run EXCEPT ![r] = [run[r] EXCEPT
                !.pc = "finish", !.schedulerPaused = FALSE, !.heartbeat = FALSE]]
  BY DEF ResumeScheduler
<1>4. Quiet(run[r], [run[r] EXCEPT !.pc = "finish", !.schedulerPaused = FALSE,
                                   !.heartbeat = FALSE])
  BY <1>2, RunsAreFunctions DEF Quiet, RunState
<1> QED
  BY <1>1, <1>3, <1>4, QuietStored

QuietAction(r) ==
  \/ Begin(r) \/ Resume(r) \/ StartMigration(r) \/ StartupFails(r) \/ NextStep(r)
  \/ StepFails(r) \/ PauseScheduler(r) \/ PassiveStep(r) \/ LogCreate(r)
  \/ CreateStreamTable(r) \/ LogDrop(r) \/ DropStreamTable(r) \/ CompleteLog(r)
  \/ RecordOwnership(r) \/ AlterStreamTable(r) \/ RecreatePolicy(r)
  \/ RecordSnapshot(r) \/ SaveProgress(r) \/ CheckAfterStep(r) \/ ResumeScheduler(r)
  \/ FinishMigration(r) \/ Crash(r)

(* One step per action.                                                    *)
LEMMA QuietActions ==
  ASSUME TypeInv, LockedMatchesPc, NEW r \in Run PROVE QuietAction(r) => QuietStep(r)
<1> USE RunsAreFunctions
    DEF QuietStep, Quiet, Goto, At, AtStep, Alive, LockedMatchesPc,
        BetweenLockAndUnlock, LockSkipped, OutcomeMatchesPc, TypeInv
<1>1. ASSUME Begin(r) PROVE QuietStep(r)
  BY <1>1 DEF Begin, IdleRun, Exited
<1>2. ASSUME FindPendingSteps(r) PROVE QuietStep(r)
  BY <1>2 DEF FindPendingSteps
<1>3. ASSUME Compensate(r) PROVE QuietStep(r)
  BY <1>3 DEF Compensate
<1>4. ASSUME MarkCompensated(r) PROVE QuietStep(r)
  BY <1>4 DEF MarkCompensated
<1>5. ASSUME AllCompensated(r) PROVE QuietStep(r)
  BY <1>5 DEF AllCompensated
<1>6. ASSUME StartupFails(r) PROVE QuietStep(r)
  BY <1>6 DEF StartupFails, Exited, IdleRun
<1>7. ASSUME StepFails(r) PROVE QuietStep(r)
  BY <1>7 DEF StepFails, Fail
<1>8. ASSUME PauseScheduler(r) PROVE QuietStep(r)
  BY <1>8 DEF PauseScheduler
<1>9. ASSUME PassiveStep(r) PROVE QuietStep(r)
  BY <1>9 DEF PassiveStep, WaitsAndHooks
<1>10. ASSUME LogCreate(r) PROVE QuietStep(r)
  BY <1>10 DEF LogCreate
<1>11. ASSUME CreateStreamTable(r) PROVE QuietStep(r)
  BY <1>11 DEF CreateStreamTable
<1>12. ASSUME LogDrop(r) PROVE QuietStep(r)
  BY <1>12 DEF LogDrop
<1>13. ASSUME DropStreamTable(r) PROVE QuietStep(r)
  BY <1>13 DEF DropStreamTable
<1>14. ASSUME CompleteLog(r) PROVE QuietStep(r)
  BY <1>14 DEF CompleteLog
<1>15. ASSUME RecordOwnership(r) PROVE QuietStep(r)
  BY <1>15 DEF RecordOwnership
<1>16. ASSUME AlterStreamTable(r) PROVE QuietStep(r)
  BY <1>16 DEF AlterStreamTable, SwitchesMode
<1>17. ASSUME RecreatePolicy(r) PROVE QuietStep(r)
  BY <1>17 DEF RecreatePolicy
<1>18. ASSUME RecordSnapshot(r) PROVE QuietStep(r)
  BY <1>18 DEF RecordSnapshot
<1>19. ASSUME SaveProgress(r) PROVE QuietStep(r)
  BY <1>19 DEF SaveProgress
<1>20. ASSUME FinishMigration(r) PROVE QuietStep(r)
  BY <1>20 DEF FinishMigration, Exited, IdleRun
<1>21. ASSUME Crash(r) PROVE QuietStep(r)
  BY <1>21 DEF Crash, Exited, IdleRun
<1> HIDE DEF QuietStep
<1> QED
  BY <1>1, <1>2, <1>3, <1>4, <1>5, <1>6, <1>7, <1>8, <1>9, <1>10, <1>11,
     <1>12, <1>13, <1>14, <1>15, <1>16, <1>17, <1>18, <1>19, <1>20, <1>21,
     QuietFindResumeStep, QuietStartMigration, QuietNextStep,
     QuietCheckAfterStep, QuietResumeScheduler
  DEF QuietAction, Resume

-----------------------------------------------------------------------------
(* The inductive invariant.                                                *)

OwnershipInv ==
  LockedOwns /\ UndisturbedKeepsLock /\ NobodysLockIsFresh /\ OwnerIsLockedOrCrashed

(* A quiet step keeps the ownership.                                       *)
LEMMA QuietKeeps ==
  ASSUME TypeInv, LockedMatchesPc, OwnershipInv, NEW r \in Run, QuietStep(r)
  PROVE  OwnershipInv'
<1>1. \A s \in Run : s # r => run'[s] = run[s]
  BY DEF QuietStep
<1>2. Quiet(run[r], run'[r]) /\ UNCHANGED <<lock, evicted, unlocking>>
  BY DEF QuietStep
<1>3. LockedOwns'
  BY <1>1, <1>2 DEF Quiet, OwnershipInv, LockedOwns
<1>4. UndisturbedKeepsLock'
  BY <1>1, <1>2 DEF Quiet, OwnershipInv, UndisturbedKeepsLock, Disturbed
<1>5. NobodysLockIsFresh'
  BY <1>2 DEF OwnershipInv, NobodysLockIsFresh
<1>6. OwnerIsLockedOrCrashed'
  BY <1>1, <1>2 DEF Quiet, OwnershipInv, OwnerIsLockedOrCrashed
<1> QED
  BY <1>3, <1>4, <1>5, <1>6 DEF OwnershipInv

(* Taking the lock keeps the ownership: the row was free or past its TTL.  *)
LEMMA AcquireKeeps ==
  ASSUME TypeInv, LockedMatchesPc, OwnershipInv, NEW r \in Run, AcquireLock(r)
  PROVE  OwnershipInv'
<1>1. r \in Alive /\ run[r].step = 0 /\ run[r].pc = "exec"
  BY PlanShape DEF AcquireLock, ReportContention, AtStep, Alive
<1>2. CASE ~LockAvailable
  BY <1>1, <1>2, QuietFail, QuietKeeps DEF AcquireLock, ReportContention
<1>3. CASE LockAvailable
  <2>1. /\ lock' = [holder |-> r, expired |-> FALSE]
        /\ evicted' = Evict \ {r}
        /\ UNCHANGED unlocking
    BY <1>3 DEF AcquireLock, ReportContention
  <2>2. PICK pc \in {"progress", "pause"} :
          run' = [run EXCEPT ![r] = [run[r] EXCEPT !.locked = TRUE, !.pc = pc]]
    BY <1>3 DEF AcquireLock, ReportContention
  <2>3. \A s \in Run : s # r => run'[s] = run[s]
    BY <2>2, RunsAreFunctions
  <2>4. /\ run'[r].locked /\ run'[r].pc = pc /\ run'[r].step = 0
        /\ run'[r].lockLost = run[r].lockLost /\ run'[r].heartbeat = run[r].heartbeat
    BY <1>1, <2>2, RunsAreFunctions DEF RunState
  <2>5. LockedOwns'
    BY <2>1, <2>3, <2>4 DEF OwnershipInv, LockedOwns, Evict
  <2>6. UndisturbedKeepsLock'
    <3>1. ASSUME ~Disturbed, NEW s \in Run, s # r, run[s].locked
          PROVE  run[s].lockLost
      BY <1>3, <3>1, ExecutorAssumption
      DEF LockAvailable, OwnershipInv, UndisturbedKeepsLock
    <3> QED
      BY <1>1, <2>1, <2>3, <2>4, <3>1 DEF OwnershipInv, UndisturbedKeepsLock, Disturbed
  <2>7. NobodysLockIsFresh' /\ OwnerIsLockedOrCrashed'
    BY <2>1, <2>4, ExecutorAssumption DEF NobodysLockIsFresh, OwnerIsLockedOrCrashed
  <2> QED
    BY <2>5, <2>6, <2>7 DEF OwnershipInv
<1> QED
  BY <1>2, <1>3

(* UnlockDag and the release keep the ownership: a run deletes its own     *)
(* row.                                                                    *)
LEMMA ReleaseKeeps ==
  ASSUME TypeInv, LockedMatchesPc, OwnershipInv, NEW r \in Run,
         UnlockDag(r) \/ ReleaseLock(r)
  PROVE  OwnershipInv'
<1>1. PICK pc \in {"progress", "unpause"} :
        /\ run' = [run EXCEPT ![r] = [run[r] EXCEPT !.locked = FALSE, !.pc = pc]]
        /\ pc = "progress" => run[r].pc = "exec"
  BY DEF UnlockDag, ReleaseLock, AtStep
<1>2. UNCHANGED <<unlocking, evicted>> /\ r \in Alive
  BY DEF UnlockDag, ReleaseLock, At, AtStep, Alive
<1>3. IF run[r].locked THEN Released(r) ELSE UNCHANGED lock
  BY DEF UnlockDag, ReleaseLock
<1>4. \A s \in Run : s # r => run'[s] = run[s]
  BY <1>1, RunsAreFunctions
<1>5. /\ ~run'[r].locked /\ run'[r].pc = pc
      /\ run'[r].lockLost = run[r].lockLost /\ run'[r].heartbeat = run[r].heartbeat
  BY <1>1, RunsAreFunctions DEF RunState
<1>6. lock' = lock \/ (lock.holder = r /\ lock' = NoLock)
  <2>1. CASE run[r].locked
    <3>1. CASE lock.holder = r
      BY <1>3, <2>1, <3>1 DEF Released, LockWithout
    <3>2. CASE lock.holder # r
      BY <1>3, <2>1, <3>2 DEF Released, LockWithout
    <3> QED
      BY <3>1, <3>2
  <2>2. CASE ~run[r].locked
    BY <1>3, <2>2
  <2> QED
    BY <2>1, <2>2
<1>7. LockedOwns'
  BY <1>2, <1>4, <1>5, <1>6 DEF OwnershipInv, LockedOwns
<1>8. UndisturbedKeepsLock'
  BY <1>1, <1>2, <1>4, <1>5, <1>6 DEF OwnershipInv, UndisturbedKeepsLock, Disturbed
<1>9. NobodysLockIsFresh'
  BY <1>6 DEF OwnershipInv, NobodysLockIsFresh, NoLock
<1>10. OwnerIsLockedOrCrashed'
  <2>1. ASSUME "bestEffort" \notin Faults PROVE lock'.holder # r
    <3>1. CASE run[r].locked
      BY <1>3, <2>1, <3>1, ExecutorAssumption
      DEF Released, LockWithout, NoLock, BestEffortFails
    <3>2. CASE ~run[r].locked
      BY <1>2, <1>3, <2>1, <3>2, NotCrashed DEF OwnershipInv, OwnerIsLockedOrCrashed
    <3> QED
      BY <3>1, <3>2
  <2> QED
    BY <1>4, <1>6, <2>1, ExecutorAssumption
    DEF OwnershipInv, OwnerIsLockedOrCrashed, NoLock
<1> QED
  BY <1>7, <1>8, <1>9, <1>10 DEF OwnershipInv

(* The heartbeat renews its own row only.                                  *)
LEMMA HeartbeatKeeps ==
  ASSUME TypeInv, LockedMatchesPc, OwnershipInv, NEW r \in Run, Heartbeat(r)
  PROVE  OwnershipInv'
<1>1. UNCHANGED <<unlocking, evicted>> /\ run[r].heartbeat
  BY DEF Heartbeat
<1>2. CASE lock.holder = r
  <2>1. lock' = [lock EXCEPT !.expired = FALSE] /\ UNCHANGED run
    BY <1>2 DEF Heartbeat
  <2>2. lock'.holder = lock.holder /\ ~lock'.expired
    BY <2>1 DEF TypeInv, TypeOK
  <2> QED
    BY <1>1, <2>1, <2>2 DEF OwnershipInv, LockedOwns, UndisturbedKeepsLock,
                            NobodysLockIsFresh, OwnerIsLockedOrCrashed, Disturbed
<1>3. CASE lock.holder # r
  <2>1. /\ run' = [run EXCEPT ![r] = [run[r] EXCEPT !.lockLost = TRUE,
                                                    !.heartbeat = FALSE]]
        /\ UNCHANGED lock
    BY <1>3 DEF Heartbeat
  <2>2. \A s \in Run : s # r => run'[s] = run[s]
    BY <2>1, RunsAreFunctions
  <2>3. /\ run'[r].lockLost /\ run'[r].locked = run[r].locked
        /\ run'[r].step = run[r].step /\ run'[r].outcome = run[r].outcome
    BY <2>1, RunsAreFunctions DEF RunState
  <2>4. UndisturbedKeepsLock'
    BY <1>1, <1>3, <2>1, <2>2, <2>3 DEF OwnershipInv, UndisturbedKeepsLock, Disturbed
  <2>5. LockedOwns' /\ NobodysLockIsFresh' /\ OwnerIsLockedOrCrashed'
    BY <1>1, <2>1, <2>2, <2>3
    DEF OwnershipInv, LockedOwns, NobodysLockIsFresh, OwnerIsLockedOrCrashed
  <2> QED
    BY <2>4, <2>5 DEF OwnershipInv
<1> QED
  BY <1>2, <1>3

(* Expiry and the operator's unlock evict, and the history records it.     *)
LEMMA OthersKeep ==
  ASSUME TypeInv, LockedMatchesPc, OwnershipInv, LockExpires \/ ShowLock \/ ForceUnlock
  PROVE  OwnershipInv'
<1>1. CASE LockExpires
  <2>1. lock.holder \in Run /\ (run[lock.holder].heartbeat => "lag" \in Faults)
    BY <1>1 DEF LockExpires, TypeInv, TypeOK
  <2>2. lock'.holder = lock.holder /\ UNCHANGED <<run, unlocking, evicted>>
    BY <1>1 DEF LockExpires, TypeInv, TypeOK
  <2>3. UndisturbedKeepsLock'
    BY <2>1, <2>2 DEF OwnershipInv, UndisturbedKeepsLock, Disturbed
  <2> QED
    BY <2>1, <2>2, <2>3, ExecutorAssumption
    DEF OwnershipInv, LockedOwns, NobodysLockIsFresh, OwnerIsLockedOrCrashed
<1>2. CASE ShowLock
  BY <1>2 DEF ShowLock, OwnershipInv, LockedOwns, UndisturbedKeepsLock, Disturbed,
              NobodysLockIsFresh, OwnerIsLockedOrCrashed
<1>3. CASE ForceUnlock
  <2>1. lock' = NoLock /\ evicted' = Evict /\ UNCHANGED run /\ unlocking # NoRun
    BY <1>3 DEF ForceUnlock
  <2>2. LockedOwns'
    BY <2>1 DEF OwnershipInv, LockedOwns, Evict
  <2>3. Disturbed
    BY <2>1 DEF OwnershipInv, UndisturbedKeepsLock
  <2>4. UndisturbedKeepsLock' /\ NobodysLockIsFresh' /\ OwnerIsLockedOrCrashed'
    BY <2>1, <2>3, ExecutorAssumption
    DEF UndisturbedKeepsLock, NobodysLockIsFresh, OwnerIsLockedOrCrashed, NoLock, Disturbed
  <2> QED
    BY <2>2, <2>4 DEF OwnershipInv
<1> QED
  BY <1>1, <1>2, <1>3

(* The invariant in the three parts that the steps are proved for.         *)
LEMMA LeaseInvParts == LeaseInv <=> TypeInv /\ LockedMatchesPc /\ OwnershipInv
BY DEF LeaseInv, TypeInv, OwnershipInv

(* Before the first apply nobody holds the lock (the empty table           *)
(* aqueduct.locks).                                                        *)
THEOREM LeaseInvInit == Init => LeaseInv
<1> SUFFICES ASSUME Init PROVE LeaseInv
  OBVIOUS
<1>1. TypeInv
  BY InitTypeInv
<1>2. LockedMatchesPc
  BY DEF Init, IdleRun, LockedMatchesPc, BetweenLockAndUnlock
<1>3. OwnershipInv
  BY ExecutorAssumption
  DEF Init, IdleRun, NoLock, OwnershipInv, LockedOwns, UndisturbedKeepsLock,
      NobodysLockIsFresh, OwnerIsLockedOrCrashed
<1> QED
  BY <1>1, <1>2, <1>3, LeaseInvParts

(* Every statement of a run, its heartbeat and aqueduct unlock preserve    *)
(* the lease invariant.                                                    *)
THEOREM LeaseInvStep == LeaseInv /\ [Next]_vars => LeaseInv'
<1> SUFFICES ASSUME LeaseInv, [Next]_vars PROVE LeaseInv'
  OBVIOUS
<1>1. TypeInv /\ LockedMatchesPc /\ OwnershipInv
  BY LeaseInvParts
<1>2. TypeInv' /\ LockedMatchesPc'
  BY <1>1, TypeInvStep, LockedMatchesPcStep
<1>3. OwnershipInv'
  <2>1. CASE UNCHANGED vars
    BY <1>1, <2>1
    DEF vars, OwnershipInv, LockedOwns, UndisturbedKeepsLock, NobodysLockIsFresh,
        OwnerIsLockedOrCrashed, Disturbed
  <2>2. ASSUME NEW r \in Run, QuietAction(r) PROVE OwnershipInv'
    BY <1>1, <2>2, QuietActions, QuietKeeps
  <2>3. ASSUME NEW r \in Run, AcquireLock(r) PROVE OwnershipInv'
    BY <1>1, <2>3, AcquireKeeps
  <2>4. ASSUME NEW r \in Run, UnlockDag(r) \/ ReleaseLock(r) PROVE OwnershipInv'
    BY <1>1, <2>4, ReleaseKeeps
  <2>5. ASSUME NEW r \in Run, Heartbeat(r) PROVE OwnershipInv'
    BY <1>1, <2>5, HeartbeatKeeps
  <2>6. CASE LockExpires \/ ShowLock \/ ForceUnlock
    BY <1>1, <2>6, OthersKeep
  <2> QED
    BY <2>1, <2>2, <2>3, <2>4, <2>5, <2>6
    DEF Next, Advance, StepBody, Cleanup, QuietAction
<1> QED
  BY <1>2, <1>3 DEF LeaseInv, TypeInv, OwnershipInv

-----------------------------------------------------------------------------
(* In every reachable state the flag locked, the program counter, the row  *)
(* of aqueduct.locks and the eviction history agree.                       *)
THEOREM LeaseInvariant == Spec => []LeaseInv
BY LeaseInvInit, LeaseInvStep, PTL DEF Spec

(* A run about to execute a step that LockDag protects has the flag set.   *)
LEMMA ProtectedIsLocked ==
  ASSUME LeaseInv, NEW r \in Run, Protected(r), ~LockSkipped(r)
  PROVE  run[r].locked /\ run[r].step > 0
<1>1. TypeInv /\ LockedMatchesPc
  BY LeaseInvParts
<1>2. r \in Alive /\ run[r].pc \in {"ddl", "exec"}
  BY DEF Protected, AtStep, Alive
<1>3. run[r].step < Len(run[r].plan)
  BY <1>1, <1>2 DEF TypeInv, StepMatchesPc
<1>4. CurrentStep(r).op \notin {"LockDag", "UnlockDag"}
  BY <1>1, <1>2 DEF Protected, AtStep, TypeInv, StepMatchesPc
<1>5. run[r].step > 0 /\ run[r].step + 1 < Len(run[r].plan)
  BY <1>1, <1>2, <1>3, <1>4, PlanShape
<1>6. BetweenLockAndUnlock(r)
  BY <1>2, <1>5 DEF BetweenLockAndUnlock
<1> QED
  BY <1>1, <1>5, <1>6 DEF LockedMatchesPc

(* Who is protected owns the row.                                          *)
LEMMA LeaseHolds == LeaseInv => LeaseProtectsDdl
<1> SUFFICES ASSUME LeaseInv, NEW r \in Run, Protected(r), ~LockSkipped(r)
             PROVE  lock.holder = r \/ Excused(r)
  BY DEF LeaseProtectsDdl
<1>1. run[r].locked /\ run[r].step > 0
  BY ProtectedIsLocked
<1>2. LockedOwns /\ UndisturbedKeepsLock
  BY DEF LeaseInv
<1>3. CASE r \notin evicted
  BY <1>1, <1>2, <1>3 DEF LockedOwns
<1>4. CASE r \in evicted /\ Disturbed
  BY <1>4 DEF Excused
<1>5. CASE ~Disturbed
  BY <1>1, <1>2, <1>5 DEF UndisturbedKeepsLock
<1> QED
  BY <1>3, <1>4, <1>5

(* Exclusion for any number of runs, any plans and any faults: with every  *)
(* command line but one that skips LockDag, whoever is about to change a   *)
(* stream table, run a hook or record a version owns the lock row, unless  *)
(* a fault that can disturb the lease has evicted it.                      *)
THEOREM LeaseProtects == Spec => []LeaseProtectsDdl
BY LeaseHolds, LeaseInvariant, PTL

(* S-05 for every plan and every interleaving: success, a failing step, a  *)
(* lost lock and a failover alike leave no lock row of the run behind.     *)
THEOREM ReleasedOnEveryExit == Spec => []ReleasedUnlessCrashed
<1>1. LeaseInv => ReleasedUnlessCrashed
  BY DEF LeaseInv, ReleasedUnlessCrashed, OwnerIsLockedOrCrashed, LockedMatchesPc, At
<1> QED
  BY <1>1, LeaseInvariant, PTL

-----------------------------------------------------------------------------
(* The refinement, one lemma per abstract action.                          *)

Believers == {r \in Run : run[r].locked}

LeaseStep == [Lease!Next]_(Lease!leaseVars)

(* A quiet step is a stutter of the lease, or the end of a belief.         *)
LEMMA QuietRefines ==
  ASSUME TypeInv, NEW r \in Run, QuietStep(r) PROVE LeaseStep
<1>1. UNCHANGED <<lock, evicted>> /\ Believers' \in {Believers, Believers \ {r}}
  BY DEF QuietStep, Quiet, Believers
<1>2. CASE Believers' = Believers
  BY <1>1, <1>2 DEF LeaseStep, Lease!leaseVars, Believers
<1>3. CASE Believers' = Believers \ {r}
  <2>1. Lease!GiveUp(r)
    BY <1>1, <1>3 DEF Lease!GiveUp, Believers
  <2> QED
    BY <2>1 DEF LeaseStep, Lease!Next
<1> QED
  BY <1>1, <1>2, <1>3

(* acquire_lock is Acquire, or fails and is a stutter.                     *)
LEMMA AcquireRefines ==
  ASSUME LeaseInv, NEW r \in Run, AcquireLock(r) PROVE LeaseStep
<1>1. TypeInv /\ r \in Alive
  BY LeaseInvParts DEF AcquireLock, ReportContention, AtStep, Alive
<1>2. CASE ~LockAvailable
  BY <1>1, <1>2, QuietFail, QuietRefines DEF AcquireLock, ReportContention
<1>3. CASE LockAvailable
  <2>1. /\ lock' = [holder |-> r, expired |-> FALSE]
        /\ evicted' = Evict \ {r}
    BY <1>3 DEF AcquireLock, ReportContention
  <2>2. PICK pc \in {"progress", "pause"} :
          run' = [run EXCEPT ![r] = [run[r] EXCEPT !.locked = TRUE, !.pc = pc]]
    BY <1>3 DEF AcquireLock, ReportContention
  <2>3. Believers' = Believers \cup {r}
    BY <1>1, <2>2, RunsAreFunctions DEF Believers, RunState
  <2>4. Evict = evicted \cup ({lock.holder} \cap Believers)
    BY DEF Evict, Believers
  <2>5. Lease!Acquire(r)
    BY <1>3, <2>1, <2>3, <2>4 DEF Lease!Acquire, LockAvailable, Believers
  <2> QED
    BY <2>5 DEF LeaseStep, Lease!Next
<1> QED
  BY <1>2, <1>3

(* RELEASE_LOCK_SQL is GiveUp, or leaves the lease alone.                  *)
LEMMA ReleaseRefines ==
  ASSUME LeaseInv, NEW r \in Run, UnlockDag(r) \/ ReleaseLock(r) PROVE LeaseStep
<1>1. TypeInv
  BY LeaseInvParts
<1>2. PICK pc \in PC :
        run' = [run EXCEPT ![r] = [run[r] EXCEPT !.locked = FALSE, !.pc = pc]]
  BY DEF UnlockDag, ReleaseLock
<1>3. Believers' = Believers \ {r}
  BY <1>1, <1>2, RunsAreFunctions DEF Believers, RunState
<1>4. UNCHANGED evicted
  BY DEF UnlockDag, ReleaseLock
<1>5. lock' = lock \/ (lock.holder = r /\ lock' = NoLock)
  <2>1. (lock' = LockWithout(r)) \/ lock' = lock
    BY DEF UnlockDag, ReleaseLock, Released
  <2> QED
    BY <2>1 DEF LockWithout
<1>6. Lease!GiveUp(r)
  BY <1>3, <1>4, <1>5 DEF Lease!GiveUp, NoLock, Believers
<1> QED
  BY <1>6 DEF LeaseStep, Lease!Next

(* HEARTBEAT_LOCK_SQL is Renew, or leaves the lease alone.                 *)
LEMMA HeartbeatRefines ==
  ASSUME LeaseInv, NEW r \in Run, Heartbeat(r) PROVE LeaseStep
<1>1. TypeInv /\ UNCHANGED evicted
  BY LeaseInvParts DEF Heartbeat
<1>2. CASE lock.holder = r
  <2>1. lock' = [lock EXCEPT !.expired = FALSE] /\ UNCHANGED run
    BY <1>2 DEF Heartbeat
  <2>2. Lease!Renew(r)
    BY <1>1, <1>2, <2>1 DEF Lease!Renew, TypeInv, TypeOK
  <2> QED
    BY <2>2 DEF LeaseStep, Lease!Next
<1>3. CASE lock.holder # r
  <2>1. /\ run' = [run EXCEPT ![r] = [run[r] EXCEPT !.lockLost = TRUE,
                                                    !.heartbeat = FALSE]]
        /\ UNCHANGED lock
    BY <1>3 DEF Heartbeat
  <2>2. Believers' = Believers
    BY <1>1, <2>1, RunsAreFunctions DEF Believers, RunState
  <2> QED
    BY <1>1, <2>1, <2>2 DEF LeaseStep, Lease!leaseVars, Believers
<1> QED
  BY <1>2, <1>3

(* The operator may delete a row that is already gone: a stutter, since    *)
(* the absent row is never an expired one.                                 *)
LEMMA OthersRefine ==
  ASSUME LeaseInv, LockExpires \/ ShowLock \/ ForceUnlock PROVE LeaseStep
<1>1. TypeInv /\ NobodysLockIsFresh
  BY DEF LeaseInv, TypeInv
<1>2. CASE LockExpires
  <2>1. Lease!Lapse
    BY <1>1, <1>2 DEF LockExpires, Lease!Lapse, TypeInv, TypeOK
  <2> QED
    BY <2>1 DEF LeaseStep, Lease!Next
<1>3. CASE ShowLock
  BY <1>3 DEF ShowLock, LeaseStep, Lease!leaseVars
<1>4. CASE ForceUnlock
  <2>1. lock' = NoLock /\ evicted' = Evict /\ UNCHANGED run
    BY <1>4 DEF ForceUnlock
  <2>2. Evict = evicted \cup ({lock.holder} \cap Believers)
    BY DEF Evict, Believers
  <2>3. CASE lock.holder # NoRun
    <3>1. Lease!Revoke
      BY <2>1, <2>2, <2>3 DEF Lease!Revoke, NoLock, Believers
    <3> QED
      BY <3>1 DEF LeaseStep, Lease!Next
  <2>4. CASE lock.holder = NoRun
    <3>1. Evict = evicted
      BY <2>4, ExecutorAssumption DEF Evict
    <3>2. lock.expired = FALSE
      BY <1>1, <2>4 DEF NobodysLockIsFresh, TypeInv, TypeOK
    <3> QED
      BY <2>1, <2>4, <3>1, <3>2 DEF NoLock, LeaseStep, Lease!leaseVars
  <2> QED
    BY <2>3, <2>4
<1> QED
  BY <1>2, <1>3, <1>4

(* Every step of the executor is a step of the lease or leaves it alone.   *)
THEOREM LeaseRefined == LeaseInv /\ [Next]_vars => LeaseStep
<1> SUFFICES ASSUME LeaseInv, [Next]_vars PROVE LeaseStep
  OBVIOUS
<1>1. TypeInv /\ LockedMatchesPc
  BY LeaseInvParts
<1>2. CASE UNCHANGED vars
  BY <1>2 DEF vars, LeaseStep, Lease!leaseVars
<1>3. ASSUME NEW r \in Run, QuietAction(r) PROVE LeaseStep
  BY <1>1, <1>3, QuietActions, QuietRefines
<1>4. ASSUME NEW r \in Run, AcquireLock(r) PROVE LeaseStep
  BY <1>4, AcquireRefines
<1>5. ASSUME NEW r \in Run, UnlockDag(r) \/ ReleaseLock(r) PROVE LeaseStep
  BY <1>5, ReleaseRefines
<1>6. ASSUME NEW r \in Run, Heartbeat(r) PROVE LeaseStep
  BY <1>6, HeartbeatRefines
<1>7. CASE LockExpires \/ ShowLock \/ ForceUnlock
  BY <1>7, OthersRefine
<1> QED
  BY <1>2, <1>3, <1>4, <1>5, <1>6, <1>7
  DEF Next, Advance, StepBody, Cleanup, QuietAction

(* The executor implements the lease of LeaseLock: for every plan, any     *)
(* number of runs and every fault, the row passes to another run only when *)
(* it is free or past its TTL, and no run frees another's.                 *)
THEOREM ExecutorIsLease == Spec => ImplementsLease
<1>1. Init => Lease!Init
  BY DEF Init, IdleRun, NoLock, Lease!Init
<1> QED
  BY <1>1, LeaseInvariant, LeaseRefined, PTL
  DEF Spec, ImplementsLease, Lease!Spec, LeaseStep

-----------------------------------------------------------------------------
(* What the lease guarantees, whoever implements it.                       *)

(* Every step of the lease keeps its row with its believers.               *)
LEMMA BelieverOwnsStep == Lease!BelieverOwns /\ LeaseStep => Lease!BelieverOwns'
<1> SUFFICES ASSUME Lease!BelieverOwns, LeaseStep PROVE Lease!BelieverOwns'
  OBVIOUS
<1> USE DEF Lease!BelieverOwns
<1>1. CASE UNCHANGED Lease!leaseVars
  BY <1>1 DEF Lease!leaseVars
<1>2. ASSUME NEW c \in Run, Lease!Acquire(c) PROVE Lease!BelieverOwns'
  BY <1>2 DEF Lease!Acquire
<1>3. ASSUME NEW c \in Run, Lease!Renew(c) PROVE Lease!BelieverOwns'
  BY <1>3 DEF Lease!Renew
<1>4. ASSUME NEW c \in Run, Lease!GiveUp(c) PROVE Lease!BelieverOwns'
  BY <1>4 DEF Lease!GiveUp
<1>5. ASSUME Lease!Lapse PROVE Lease!BelieverOwns'
  BY <1>5 DEF Lease!Lapse
<1>6. ASSUME Lease!Revoke PROVE Lease!BelieverOwns'
  BY <1>6 DEF Lease!Revoke
<1> QED
  BY <1>1, <1>2, <1>3, <1>4, <1>5, <1>6 DEF LeaseStep, Lease!Next

(* A client of the lease that still believes in it and was not evicted     *)
(* owns the row: the invariant is inductive by itself.                     *)
THEOREM BelieversOwn == Lease!Spec => []Lease!BelieverOwns
<1>1. Lease!Init => Lease!BelieverOwns
  BY DEF Lease!Init, Lease!BelieverOwns
<1> QED
  BY <1>1, BelieverOwnsStep, PTL DEF Lease!Spec, LeaseStep

(* Of two runs that both believe in their lease, at least one has been     *)
(* evicted: without a lapsed TTL or an operator, at most one believes.     *)
THEOREM LeaseIsExclusive == Spec => []Lease!MutualExclusion
<1>1. Lease!BelieverOwns => Lease!MutualExclusion
  BY DEF Lease!BelieverOwns, Lease!MutualExclusion
<1>2. Spec => Lease!Spec
  BY ExecutorIsLease DEF ImplementsLease
<1> QED
  BY <1>1, <1>2, BelieversOwn, PTL

-----------------------------------------------------------------------------
(* Exclusion over the stream tables.                                       *)

(* No command line resumes, and none skips LockDag.                        *)
FreshOnly == \A args \in Invocation : ~args.resume /\ args.forceSkip # 0

Resuming == {"find", "pending", "compensate", "mark"}

(* A live run was started with a command line of Invocation, and only      *)
(* --resume leads to the compensation.                                     *)
ArgsMatchPc ==
  \A r \in Run :
    /\ run[r].pc \notin {"idle", "ended"} => run[r].args \in Invocation
    /\ run[r].pc \in Resuming => run[r].args.resume

-----------------------------------------------------------------------------
(* The run keeps its command line and does not start to compensate, or it  *)
(* ends.                                                                   *)
ArgsStay(old, new) ==
  \/ /\ new.args = old.args
     /\ new.pc \notin {"idle", "ended"} => old.pc \notin {"idle", "ended"}
     /\ new.pc \in Resuming => old.pc \in Resuming
  \/ new.pc = "ended"

(* A run that keeps its arguments and does not start to compensate keeps   *)
(* ArgsMatchPc.                                                            *)
LEMMA ArgsStored ==
  ASSUME TypeInv, ArgsMatchPc, NEW r \in Run, NEW new, ArgsStay(run[r], new),
         run' = [run EXCEPT ![r] = new]
  PROVE  ArgsMatchPc'
<1>1. \A s \in Run : run'[s] = IF s = r THEN new ELSE run[s]
  BY RunsAreFunctions
<1> QED
  BY <1>1 DEF ArgsMatchPc, ArgsStay, Resuming

(* A run that exits is past the point where its arguments matter.          *)
LEMMA ExitArgs ==
  ASSUME TypeInv, ArgsMatchPc, NEW r \in Run, NEW outcome,
         run' = [run EXCEPT ![r] = Exited(outcome)]
  PROVE  ArgsMatchPc'
<1>1. Exited(outcome).pc = "ended"
  BY DEF Exited, IdleRun
<1>2. ArgsStay(run[r], Exited(outcome))
  BY <1>1 DEF ArgsStay
<1> QED
  BY <1>2, ArgsStored

(* A run that fails goes to the clean-up, where its arguments do not       *)
(* matter.                                                                 *)
LEMMA FailArgs ==
  ASSUME TypeInv, ArgsMatchPc, NEW r \in Alive, NEW outcome, Fail(r, outcome)
  PROVE  ArgsMatchPc'
<1>1. r \in Run /\ run[r].pc \notin {"idle", "ended"}
  BY DEF Alive
<1>2. run' = [run EXCEPT ![r] = [run[r] EXCEPT !.pc = "release", !.outcome = outcome]]
  BY DEF Fail
<1>3. ArgsStay(run[r], [run[r] EXCEPT !.pc = "release", !.outcome = outcome])
  BY <1>1, RunsAreFunctions DEF ArgsStay, RunState, Resuming
<1> QED
  BY <1>1, <1>2, <1>3, ArgsStored

(* The command line of a run comes from Invocation.                        *)
LEMMA BeginArgs ==
  ASSUME TypeInv, ArgsMatchPc, NEW r \in Run, Begin(r) PROVE ArgsMatchPc'
<1>1. PICK args \in Invocation, desired \in Desired :
        LET plan == PlanFor(desired, IF args.planFile THEN InitialTables ELSE LiveTables)
        IN run' = [run EXCEPT ![r] =
             IF NoChanges(plan) THEN Exited("nochange")
             ELSE [IdleRun EXCEPT !.args = args, !.desired = desired, !.plan = plan,
                                  !.pc = IF args.resume THEN "find" ELSE "start"]]
  BY DEF Begin
<1> DEFINE plan == PlanFor(desired, IF args.planFile THEN InitialTables ELSE LiveTables)
           new == [IdleRun EXCEPT !.args = args, !.desired = desired, !.plan = plan,
                                  !.pc = IF args.resume THEN "find" ELSE "start"]
<1>2. CASE NoChanges(plan)
  BY <1>1, <1>2, ExitArgs
<1>3. CASE ~NoChanges(plan)
  <2>1. run' = [run EXCEPT ![r] = new]
    BY <1>1, <1>3
  <2>2. new.args = args /\ new.pc = IF args.resume THEN "find" ELSE "start"
    BY DEF IdleRun
  <2> HIDE DEF new
  <2>3. \A s \in Run : run'[s] = IF s = r THEN new ELSE run[s]
    BY <2>1, RunsAreFunctions
  <2> QED
    BY <2>2, <2>3 DEF ArgsMatchPc, Resuming
<1> QED
  BY <1>2, <1>3

(* The first query of --resume leads only a run with --resume to           *)
(* compensate.                                                             *)
LEMMA FindArgs ==
  ASSUME TypeInv, ArgsMatchPc, NEW r \in Run, FindResumeStep(r) PROVE ArgsMatchPc'
<1>1. run[r].pc = "find"
  BY DEF FindResumeStep, At
<1>2. \/ run' = [run EXCEPT ![r] = [run[r] EXCEPT !.pc = "start"]]
      \/ \E m : run' = [run EXCEPT ![r] = [run[r] EXCEPT
                   !.pc = "pending", !.migration = m, !.resumeFrom = ResumePoint(m)]]
  BY DEF FindResumeStep, Goto
<1>3. \A m, from : ArgsStay(run[r], [run[r] EXCEPT !.pc = "pending", !.migration = m,
                                                   !.resumeFrom = from])
  BY <1>1, RunsAreFunctions DEF ArgsStay, RunState, Resuming
<1>4. ArgsStay(run[r], [run[r] EXCEPT !.pc = "start"])
  BY <1>1, RunsAreFunctions DEF ArgsStay, RunState, Resuming
<1> QED
  BY <1>2, <1>3, <1>4, ArgsStored

(* Entering the loop sets the resume point and nothing of the arguments.   *)
LEMMA StartArgs ==
  ASSUME TypeInv, ArgsMatchPc, NEW r \in Run, StartMigration(r) PROVE ArgsMatchPc'
<1>1. run[r].pc = "start"
  BY DEF StartMigration, At
<1>2. PICK m : EnterLoop(r, m)
  BY DEF StartMigration
<1>3. PICK beats \in BOOLEAN :
        run' = [run EXCEPT ![r] = [run[r] EXCEPT !.pc = "head", !.migration = m,
                                                 !.heartbeat = beats]]
  BY <1>2 DEF EnterLoop
<1>4. ArgsStay(run[r], [run[r] EXCEPT !.pc = "head", !.migration = m, !.heartbeat = beats])
  BY <1>1, RunsAreFunctions DEF ArgsStay, RunState, Resuming
<1> QED
  BY <1>3, <1>4, ArgsStored

(* The actions of a run that keep it alive, its command line and its way.  *)
LEMMA StepArgs ==
  ASSUME TypeInv, ArgsMatchPc, NEW r \in Run
  PROVE  /\ NextStep(r) => ArgsMatchPc'
         /\ StepBody(r) => ArgsMatchPc'
<1> USE RunsAreFunctions DEF ArgsMatchPc, Goto, At, AtStep, Resuming
<1>1. ASSUME NextStep(r) PROVE ArgsMatchPc'
  <2>1. CASE Fail(r, "ok") \/ Fail(r, "failed")
    BY <1>1, <2>1, FailArgs DEF NextStep, Alive
  <2>2. CASE run' = [run EXCEPT ![r].pc = "exec"]
    BY <1>1, <2>2 DEF NextStep
  <2>3. CASE run' = [run EXCEPT ![r].step = StepAfter(r)]
    BY <1>1, <2>3 DEF NextStep
  <2> HIDE DEF ArgsMatchPc
  <2> QED
    BY <1>1, <2>1, <2>2, <2>3 DEF NextStep
<1>2. ASSUME AcquireLock(r) PROVE ArgsMatchPc'
  <2>1. CASE LockAvailable
    <3>1. PICK pc \in {"progress", "pause"} :
            run' = [run EXCEPT ![r] = [run[r] EXCEPT !.locked = TRUE, !.pc = pc]]
      BY <1>2, <2>1 DEF AcquireLock, ReportContention
    <3>2. ArgsStay(run[r], [run[r] EXCEPT !.locked = TRUE, !.pc = pc])
      BY <1>2 DEF AcquireLock, ReportContention, ArgsStay, RunState
    <3> QED
      BY <3>1, <3>2, ArgsStored
  <2>2. CASE ~LockAvailable
    BY <1>2, <2>2, FailArgs DEF AcquireLock, ReportContention, Alive
  <2> QED
    BY <2>1, <2>2
<1>3. ASSUME PauseScheduler(r) PROVE ArgsMatchPc'
  BY <1>3 DEF PauseScheduler
<1>4. ASSUME PassiveStep(r) PROVE ArgsMatchPc'
  BY <1>4 DEF PassiveStep, WaitsAndHooks
<1>5. ASSUME LogCreate(r) PROVE ArgsMatchPc'
  BY <1>5 DEF LogCreate
<1>6. ASSUME LogDrop(r) PROVE ArgsMatchPc'
  BY <1>6 DEF LogDrop
<1>7. ASSUME CompleteLog(r) PROVE ArgsMatchPc'
  BY <1>7 DEF CompleteLog
<1>8. ASSUME CreateStreamTable(r) PROVE ArgsMatchPc'
  BY <1>8 DEF CreateStreamTable
<1>9. ASSUME DropStreamTable(r) PROVE ArgsMatchPc'
  BY <1>9 DEF DropStreamTable
<1>10. ASSUME AlterStreamTable(r) PROVE ArgsMatchPc'
  BY <1>10 DEF AlterStreamTable, SwitchesMode
<1>11. ASSUME RecordOwnership(r) PROVE ArgsMatchPc'
  BY <1>11 DEF RecordOwnership
<1>12. ASSUME RecreatePolicy(r) PROVE ArgsMatchPc'
  BY <1>12 DEF RecreatePolicy
<1>13. ASSUME RecordSnapshot(r) PROVE ArgsMatchPc'
  BY <1>13 DEF RecordSnapshot
<1>14. ASSUME UnlockDag(r) PROVE ArgsMatchPc'
  BY <1>14 DEF UnlockDag
<1> HIDE DEF ArgsMatchPc
<1> QED
  BY <1>1, <1>2, <1>3, <1>4, <1>5, <1>6, <1>7, <1>8, <1>9, <1>10, <1>11, <1>12,
     <1>13, <1>14 DEF StepBody

(* The remaining actions of a run keep its arguments.                      *)
LEMMA OtherArgs ==
  ASSUME TypeInv, ArgsMatchPc, NEW r \in Run
  PROVE  /\ Resume(r) => ArgsMatchPc'
         /\ SaveProgress(r) => ArgsMatchPc'
         /\ CheckAfterStep(r) => ArgsMatchPc'
         /\ Cleanup(r) => ArgsMatchPc'
         /\ Heartbeat(r) => ArgsMatchPc'
         /\ StepFails(r) => ArgsMatchPc'
         /\ StartupFails(r) => ArgsMatchPc'
         /\ Crash(r) => ArgsMatchPc'
<1> USE RunsAreFunctions DEF ArgsMatchPc, Goto, At, AtStep, Resuming
<1>1. ASSUME FindPendingSteps(r) PROVE ArgsMatchPc'
  BY <1>1 DEF FindPendingSteps
<1>2. ASSUME Compensate(r) PROVE ArgsMatchPc'
  BY <1>2 DEF Compensate
<1>3. ASSUME MarkCompensated(r) PROVE ArgsMatchPc'
  BY <1>3 DEF MarkCompensated
<1>4. ASSUME AllCompensated(r) PROVE ArgsMatchPc'
  BY <1>4 DEF AllCompensated
<1>5. ASSUME SaveProgress(r) PROVE ArgsMatchPc'
  BY <1>5 DEF SaveProgress
<1>6. ASSUME CheckAfterStep(r) PROVE ArgsMatchPc'
  <2>1. CASE Fail(r, "failed") \/ Fail(r, "interrupted")
    BY <1>6, <2>1, FailArgs DEF CheckAfterStep, Alive
  <2>2. CASE run' = [run EXCEPT ![r].pc = "head", ![r].step = StepAfter(r)]
    BY <1>6, <2>2 DEF CheckAfterStep
  <2> QED
    BY <1>6, <2>1, <2>2 DEF CheckAfterStep
<1>7. ASSUME ReleaseLock(r) PROVE ArgsMatchPc'
  BY <1>7 DEF ReleaseLock
<1>8. ASSUME ResumeScheduler(r) PROVE ArgsMatchPc'
  BY <1>8 DEF ResumeScheduler
<1>9. ASSUME FinishMigration(r) PROVE ArgsMatchPc'
  BY <1>9, ExitArgs DEF FinishMigration
<1>10. ASSUME Heartbeat(r) PROVE ArgsMatchPc'
  <2>1. CASE lock.holder = r
    BY <1>10, <2>1 DEF Heartbeat
  <2>2. CASE lock.holder # r
    <3>1. run' = [run EXCEPT ![r] = [run[r] EXCEPT !.lockLost = TRUE,
                                                   !.heartbeat = FALSE]]
      BY <1>10, <2>2 DEF Heartbeat
    <3>2. ArgsStay(run[r], [run[r] EXCEPT !.lockLost = TRUE, !.heartbeat = FALSE])
      BY DEF ArgsStay, RunState
    <3> QED
      BY <3>1, <3>2, ArgsStored
  <2> QED
    BY <2>1, <2>2
<1>11. ASSUME StepFails(r) PROVE ArgsMatchPc'
  BY <1>11, FailArgs DEF StepFails, Alive
<1>12. ASSUME StartupFails(r) PROVE ArgsMatchPc'
  BY <1>12, ExitArgs DEF StartupFails
<1>13. ASSUME Crash(r) PROVE ArgsMatchPc'
  BY <1>13, ExitArgs DEF Crash
<1> HIDE DEF ArgsMatchPc
<1> QED
  BY <1>1, <1>2, <1>3, <1>4, <1>5, <1>6, <1>7, <1>8, <1>9, <1>10, <1>11, <1>12,
     <1>13, FindArgs DEF Resume, Cleanup

(* Every step preserves ArgsMatchPc.                                       *)
LEMMA ArgsStep == TypeInv /\ ArgsMatchPc /\ [Next]_vars => ArgsMatchPc'
<1> SUFFICES ASSUME TypeInv, ArgsMatchPc, [Next]_vars PROVE ArgsMatchPc'
  OBVIOUS
<1>1. CASE UNCHANGED run
  BY <1>1 DEF ArgsMatchPc
<1>2. ASSUME NEW r \in Run, Begin(r) PROVE ArgsMatchPc'
  BY <1>2, BeginArgs
<1>3. ASSUME NEW r \in Run, Advance(r) PROVE ArgsMatchPc'
  BY <1>3, StartArgs, StepArgs, OtherArgs DEF Advance
<1>4. ASSUME NEW r \in Run, Heartbeat(r) \/ StepFails(r) \/ StartupFails(r) \/ Crash(r)
      PROVE  ArgsMatchPc'
  BY <1>4, OtherArgs
<1> QED
  BY <1>1, <1>2, <1>3, <1>4 DEF Next, LockExpires, ShowLock, ForceUnlock, vars

-----------------------------------------------------------------------------
(* The actor is about to change a table under protection, and changes the  *)
(* state of no other run.                                                  *)
LEMMA TablesChangeProtected ==
  ASSUME LeaseInv, ArgsMatchPc, FreshOnly, NEW r \in Run, Advance(r),
         tables' # tables
  PROVE  Protected(r) /\ ~LockSkipped(r) /\ \A s \in Run : s # r => run'[s] = run[s]
<1>1. TypeInv
  BY LeaseInvParts
<1>2. ~Compensate(r)
  BY DEF Compensate, At, ArgsMatchPc, Resuming, FreshOnly
<1>3. ASSUME CreateStreamTable(r)
      PROVE  Protected(r) /\ run' = [run EXCEPT ![r].pc = "complete"]
  BY <1>3 DEF CreateStreamTable, AtStep, Protected, Goto
<1>4. ASSUME DropStreamTable(r)
      PROVE  Protected(r) /\ run' = [run EXCEPT ![r].pc = "complete"]
  BY <1>4 DEF DropStreamTable, AtStep, Protected, Goto
<1>5. ASSUME AlterStreamTable(r)
      PROVE  Protected(r) /\ run' = [run EXCEPT ![r].pc = "progress"]
  BY <1>5 DEF AlterStreamTable, SwitchesMode, AtStep, Protected, Goto
<1>6. CreateStreamTable(r) \/ DropStreamTable(r) \/ AlterStreamTable(r)
  <2>1. ~FindResumeStep(r) /\ ~FindPendingSteps(r) /\ ~MarkCompensated(r)
        /\ ~AllCompensated(r) /\ ~StartMigration(r) /\ ~NextStep(r)
    BY DEF FindResumeStep, FindPendingSteps, MarkCompensated, AllCompensated,
           StartMigration, NextStep, pgtrickle
  <2>2. ~AcquireLock(r) /\ ~PauseScheduler(r) /\ ~PassiveStep(r) /\ ~LogCreate(r)
        /\ ~LogDrop(r) /\ ~CompleteLog(r) /\ ~RecordOwnership(r)
    BY DEF AcquireLock, ReportContention, PauseScheduler, PassiveStep, WaitsAndHooks, LogCreate, LogDrop,
           CompleteLog, RecordOwnership, pgtrickle
  <2>3. ~RecreatePolicy(r) /\ ~RecordSnapshot(r) /\ ~UnlockDag(r)
        /\ ~SaveProgress(r) /\ ~CheckAfterStep(r) /\ ~Cleanup(r)
    BY DEF RecreatePolicy, RecordSnapshot, UnlockDag, SaveProgress,
           CheckAfterStep, Cleanup, ReleaseLock, ResumeScheduler,
           FinishMigration, pgtrickle
  <2> QED
    BY <1>2, <2>1, <2>2, <2>3 DEF Advance, Resume, StepBody
<1>7. Protected(r) /\ \E pc : run' = [run EXCEPT ![r].pc = pc]
  BY <1>3, <1>4, <1>5, <1>6
<1>8. ~LockSkipped(r)
  <2>1. run[r].pc \notin {"idle", "ended"}
    BY <1>7 DEF Protected, AtStep
  <2> QED
    BY <2>1 DEF ArgsMatchPc, FreshOnly, LockSkipped
<1> QED
  BY <1>1, <1>7, <1>8, RunsAreFunctions

(* Whoever relies on the lock and has no excuse owns the row.              *)
LEMMA ReliesOwns ==
  ASSUME LeaseInv, NEW r \in Run, run[r].locked, ~run[r].lockLost, ~Excused(r)
  PROVE  lock.holder = r
<1>1. LockedOwns /\ UndisturbedKeepsLock
  BY DEF LeaseInv
<1>2. CASE r \notin evicted
  BY <1>1, <1>2 DEF LockedOwns
<1>3. CASE ~Disturbed
  BY <1>1, <1>3 DEF UndisturbedKeepsLock
<1> QED
  BY <1>2, <1>3 DEF Excused

(* A run's tables are its own while it relies on the lock.                 *)
TablesOwned ==
  tables' # tables =>
    \A r, s \in Run :
      /\ run[r].locked /\ ~run[r].lockLost /\ ~Excused(r)
      /\ run'[s] # run[s] /\ s # r
      => Excused(s)

(* With fresh runs only, nobody but an evicted run changes tables while    *)
(* another run owns the lock.                                              *)
LEMMA TablesOwnedStep ==
  ASSUME LeaseInv, ArgsMatchPc, FreshOnly, [Next]_vars PROVE TablesOwned
<1> SUFFICES ASSUME tables' # tables, NEW r \in Run, NEW s \in Run,
                    run[r].locked, ~run[r].lockLost, ~Excused(r),
                    run'[s] # run[s], s # r
             PROVE  Excused(s)
  BY DEF TablesOwned
<1>1. PICK t \in Run : Advance(t)
  <2>1. Next
    BY DEF vars, pgtrickle
  <2>2. ~LockExpires /\ ~ShowLock /\ ~ForceUnlock
    BY DEF LockExpires, ShowLock, ForceUnlock, pgtrickle
  <2>3. \A t \in Run : ~Begin(t) /\ ~Heartbeat(t) /\ ~StartupFails(t)
                       /\ ~StepFails(t) /\ ~Crash(t)
    BY DEF Begin, Heartbeat, StartupFails, StepFails, Crash, pgtrickle
  <2> QED
    BY <2>1, <2>2, <2>3 DEF Next
<1>2. Protected(t) /\ ~LockSkipped(t) /\ s = t
  BY <1>1, TablesChangeProtected
<1>3. lock.holder = s \/ Excused(s)
  BY <1>2, LeaseHolds DEF LeaseProtectsDdl
<1>4. lock.holder = r
  BY ReliesOwns
<1> QED
  BY <1>3, <1>4

(* catalog.rs:371, "serialises concurrent apply runs per project", for     *)
(* every plan, any number of runs and every fault: as long as nobody       *)
(* resumes or skips LockDag, the tables a run holds the lock for are       *)
(* changed by nobody else, bar a run evicted with a statement in flight.   *)
THEOREM FreshApplies == FreshOnly /\ Spec => TablesChangeUnderLease
<1>1. Init => ArgsMatchPc
  BY DEF Init, IdleRun, ArgsMatchPc, Resuming
<1>2. LeaseInv => TypeInv
  BY LeaseInvParts
<1>3. ASSUME FreshOnly PROVE Spec => TablesChangeUnderLease
  <2>1. LeaseInv /\ ArgsMatchPc /\ [Next]_vars => [TablesOwned]_vars
    BY <1>3, TablesOwnedStep
  <2>2. [TablesOwned]_vars <=> [tables' # tables =>
            \A r, s \in Run :
              /\ run[r].locked /\ ~run[r].lockLost /\ ~Excused(r)
              /\ run'[s] # run[s] /\ s # r
              => Excused(s)]_vars
    BY DEF TablesOwned
  <2> QED
    BY <1>1, <1>2, <2>1, <2>2, ArgsStep, LeaseInvariant, PTL
    DEF Spec, TablesChangeUnderLease
<1> QED
  BY <1>3

-----------------------------------------------------------------------------
(* Exclusion against the scheduler of pg_trickle.                          *)


PauseInv == TypeInv /\ PausesAreOwed

(* What a live run's own statement may do to its record while the set of   *)
(* paused tables stays as it is.                                           *)
KeepsPause(old, new) ==
  /\ new.plan = old.plan
  /\ new.args = old.args
  /\ new.schedulerPaused = old.schedulerPaused
  /\ old.pc \notin {"idle", "ended"}
  /\ new.schedulerPaused => new.pc \in Loop \cup {"release", "unpause"}
  /\ /\ new.pc \in Loop /\ new.args.forceSkip # 0
     /\ new.step > 0 \/ new.pc \notin {"head", "exec", "pause"}
     => /\ old.pc \in Loop
        /\ old.step > 0 \/ old.pc \notin {"head", "exec", "pause"}

PauseKept(r) ==
  /\ paused' = paused
  /\ \E new : run' = [run EXCEPT ![r] = new] /\ KeepsPause(run[r], new)

(* What was paused stays owed while a live run goes on.                    *)
LEMMA OwedKept ==
  ASSUME PauseInv, NEW r \in Run, PauseKept(r) PROVE PausesAreOwed'
<1>1. PICK new : run' = [run EXCEPT ![r] = new] /\ KeepsPause(run[r], new)
  BY DEF PauseKept
<1>2. run' = [s \in Run |-> IF s = r THEN new ELSE run[s]] /\ paused' = paused
  BY <1>1, RunsAreFunctions DEF PauseInv, PauseKept
<1>3. run[r].outcome # "crashed"
  BY <1>1 DEF PauseInv, TypeInv, OutcomeMatchesPc, KeepsPause
<1> QED
  BY <1>1, <1>2, <1>3 DEF PauseInv, PausesAreOwed, KeepsPause

(* So it does when a run begins, ends without having paused, or dies.      *)
LEMMA OwedStored ==
  ASSUME PauseInv, NEW r \in Run, NEW new, paused' = paused,
         run' = [run EXCEPT ![r] = new], ~new.schedulerPaused,
         \/ ~run[r].schedulerPaused /\ run[r].outcome # "crashed"
         \/ new.outcome = "crashed"
  PROVE  PausesAreOwed'
<1>1. run' = [s \in Run |-> IF s = r THEN new ELSE run[s]]
  BY RunsAreFunctions DEF PauseInv
<1> QED
  BY <1>1 DEF PauseInv, PausesAreOwed

(* A run that only moves its program counter, inside the loop or out of it.*)
LEMMA MovedKeeps ==
  ASSUME PauseInv, NEW r \in Run, paused' = paused, NEW new,
         run' = [run EXCEPT ![r] = new],
         new.plan = run[r].plan, new.args = run[r].args,
         new.schedulerPaused = run[r].schedulerPaused, new.step = run[r].step,
         \/ run[r].pc \in InStep \ {"pause"} /\ new.pc \in InStep \ {"exec", "pause"}
              /\ (run[r].pc = "exec" => run[r].step > 0)
         \/ run[r].pc \in Loop \cup {"release"} /\ new.pc \in {"release", "unpause"}
         \/ run[r].pc \in BeforeLoop /\ new.pc \in BeforeLoop \cup {"head"}
  PROVE  PauseKept(r)
<1>1. run[r].pc \in BeforeLoop => run[r].step = 0 /\ ~run[r].schedulerPaused
  BY DEF PauseInv, TypeInv, StepMatchesPc, PausesAreOwed, Loop
<1>2. KeepsPause(run[r], new)
  BY <1>1 DEF KeepsPause, Loop
<1> QED
  BY <1>2 DEF PauseKept

(* The preamble of --resume and the start of the migration.                *)
LEMMA ResumeKeepsPause ==
  ASSUME PauseInv, NEW r \in Run, Resume(r) \/ StartMigration(r) PROVE PauseKept(r)
<1>1. paused' = paused
  BY DEF Resume, FindResumeStep, FindPendingSteps, Compensate, MarkCompensated,
         AllCompensated, StartMigration, pgtrickle
<1>2. run[r].pc \in BeforeLoop
  BY DEF Resume, FindResumeStep, FindPendingSteps, Compensate, MarkCompensated,
         AllCompensated, StartMigration, At
<1>3. CASE FindResumeStep(r)
  <2>1. \/ run' = [run EXCEPT ![r] = [run[r] EXCEPT !.pc = "start"]]
        \/ \E m : run' = [run EXCEPT ![r] = [run[r] EXCEPT
                     !.pc = "pending", !.migration = m, !.resumeFrom = ResumePoint(m)]]
    BY <1>3 DEF FindResumeStep, Goto
  <2>2. PICK new : /\ run' = [run EXCEPT ![r] = new]
                   /\ \/ new = [run[r] EXCEPT !.pc = "start"]
                      \/ \E m : new = [run[r] EXCEPT !.pc = "pending", !.migration = m,
                                                     !.resumeFrom = ResumePoint(m)]
    BY <2>1
  <2>3. /\ new.plan = run[r].plan /\ new.args = run[r].args
        /\ new.schedulerPaused = run[r].schedulerPaused /\ new.step = run[r].step
        /\ new.pc \in BeforeLoop
    BY <2>2, RunsAreFunctions DEF PauseInv, RunState
  <2> QED
    BY <1>1, <1>2, <2>2, <2>3, MovedKeeps
<1>4. CASE FindPendingSteps(r)
  <2> DEFINE new == [run[r] EXCEPT !.pc = "compensate",
                                   !.pending = PendingSteps(run[r].migration)]
  <2>1. run' = [run EXCEPT ![r] = new]
    BY <1>4 DEF FindPendingSteps
  <2>2. /\ new.plan = run[r].plan /\ new.args = run[r].args
        /\ new.schedulerPaused = run[r].schedulerPaused /\ new.step = run[r].step
        /\ new.pc \in BeforeLoop
    BY RunsAreFunctions DEF PauseInv, RunState
  <2> HIDE DEF new
  <2> QED
    BY <1>1, <1>2, <2>1, <2>2, MovedKeeps
<1>5. CASE Compensate(r) \/ MarkCompensated(r) \/ AllCompensated(r)
  <2>1. \/ \E pc \in {"mark", "start"} :
             run' = [run EXCEPT ![r] = [run[r] EXCEPT !.pc = pc]]
        \/ \E i : run' = [run EXCEPT ![r] = [run[r] EXCEPT !.pc = "compensate",
                                                         !.pending = @ \ {i}]]
    BY <1>5 DEF Compensate, MarkCompensated, AllCompensated, Goto
  <2>2. PICK new : /\ run' = [run EXCEPT ![r] = new]
                   /\ \/ \E pc \in {"mark", "start"} : new = [run[r] EXCEPT !.pc = pc]
                      \/ \E i : new = [run[r] EXCEPT !.pc = "compensate",
                                                     !.pending = @ \ {i}]
    BY <2>1
  <2>3. /\ new.plan = run[r].plan /\ new.args = run[r].args
        /\ new.schedulerPaused = run[r].schedulerPaused /\ new.step = run[r].step
        /\ new.pc \in BeforeLoop
    BY <2>2, RunsAreFunctions DEF PauseInv, RunState
  <2> QED
    BY <1>1, <1>2, <2>2, <2>3, MovedKeeps
<1>6. CASE StartMigration(r)
  <2>1. PICK m : EnterLoop(r, m)
    BY <1>6 DEF StartMigration
  <2>2. PICK beats \in BOOLEAN :
          run' = [run EXCEPT ![r] = [run[r] EXCEPT !.pc = "head", !.migration = m,
                                                   !.heartbeat = beats]]
    BY <2>1 DEF EnterLoop
  <2> DEFINE new == [run[r] EXCEPT !.pc = "head", !.migration = m, !.heartbeat = beats]
  <2>3. /\ new.plan = run[r].plan /\ new.args = run[r].args
        /\ new.schedulerPaused = run[r].schedulerPaused /\ new.step = run[r].step
        /\ new.pc \in BeforeLoop \cup {"head"}
    BY RunsAreFunctions DEF PauseInv, RunState
  <2>4. run' = [run EXCEPT ![r] = new]
    BY <2>2
  <2> HIDE DEF new
  <2> QED
    BY <1>1, <1>2, <2>3, <2>4, MovedKeeps
<1> QED
  BY <1>3, <1>4, <1>5, <1>6 DEF Resume

(* An error, or the end of the plan, leads to the way out.                 *)
LEMMA FailKeepsPause ==
  ASSUME PauseInv, NEW r \in Run, NEW outcome, Fail(r, outcome), run[r].pc \in Loop,
         paused' = paused
  PROVE  PauseKept(r)
<1> DEFINE new == [run[r] EXCEPT !.pc = "release", !.outcome = outcome]
<1>1. run' = [run EXCEPT ![r] = new]
  BY DEF Fail
<1>2. /\ new.plan = run[r].plan /\ new.args = run[r].args
      /\ new.schedulerPaused = run[r].schedulerPaused /\ new.step = run[r].step
      /\ new.pc = "release"
  BY RunsAreFunctions DEF PauseInv, RunState
<1> HIDE DEF new
<1> QED
  BY <1>1, <1>2, MovedKeeps

(* The arms of run_steps other than LockDag.                               *)
LEMMA ArmsKeepPause ==
  ASSUME PauseInv, NEW r \in Run,
         \/ PassiveStep(r) \/ LogCreate(r) \/ CreateStreamTable(r) \/ LogDrop(r)
         \/ DropStreamTable(r) \/ CompleteLog(r) \/ RecordOwnership(r)
         \/ AlterStreamTable(r) \/ RecreatePolicy(r) \/ RecordSnapshot(r)
         \/ UnlockDag(r) \/ SaveProgress(r)
  PROVE  PauseKept(r)
<1>1. /\ paused' = paused
      /\ run[r].pc \in InStep \ {"pause"}
      /\ run[r].pc = "exec" => /\ run[r].step < Len(run[r].plan)
                               /\ CurrentStep(r).op # "LockDag"
  BY DEF PassiveStep, WaitsAndHooks, LogCreate, CreateStreamTable, LogDrop,
         DropStreamTable, CompleteLog, RecordOwnership, AlterStreamTable, SwitchesMode,
         RecreatePolicy, RecordSnapshot, UnlockDag, SaveProgress, At, AtStep, pgtrickle
<1>2. run[r].pc = "exec" => run[r].step > 0
  BY <1>1, PlanShape DEF PauseInv, Alive
<1>3. PICK new :
        /\ run' = [run EXCEPT ![r] = new]
        /\ \/ \E pc \in InStep \ {"exec", "pause"} : new = [run[r] EXCEPT !.pc = pc]
           \/ \E cache : new = [run[r] EXCEPT !.pc = "ddl", !.policyCache = cache]
           \/ new = [run[r] EXCEPT !.locked = FALSE, !.pc = "progress"]
  <2>1. CASE LogDrop(r)
    BY <2>1 DEF LogDrop
  <2>2. CASE UnlockDag(r)
    BY <2>2 DEF UnlockDag
  <2>3. CASE ~LogDrop(r) /\ ~UnlockDag(r)
    <3>1. \E pc \in InStep \ {"exec", "pause"} : Goto(r, pc)
      BY <2>3 DEF PassiveStep, LogCreate, CreateStreamTable,
           DropStreamTable, CompleteLog, RecordOwnership, AlterStreamTable,
           RecreatePolicy, RecordSnapshot, SaveProgress
    <3> QED
      BY <3>1 DEF Goto
  <2> QED
    BY <2>1, <2>2, <2>3
<1>4. /\ new.plan = run[r].plan /\ new.args = run[r].args
      /\ new.schedulerPaused = run[r].schedulerPaused /\ new.step = run[r].step
      /\ new.pc \in InStep \ {"exec", "pause"}
  BY <1>3, RunsAreFunctions DEF PauseInv, RunState
<1> QED
  BY <1>1, <1>2, <1>3, <1>4, MovedKeeps

(* The head and the tail of the loop, a failing statement, the release.    *)
LEMMA LoopKeepsPause ==
  ASSUME PauseInv, NEW r \in Run,
         NextStep(r) \/ CheckAfterStep(r) \/ StepFails(r) \/ ReleaseLock(r)
  PROVE  PauseKept(r)
<1>1. paused' = paused
  BY DEF NextStep, CheckAfterStep, StepFails, ReleaseLock, pgtrickle
<1>2. run[r].pc \in Loop \cup {"release"} /\ (run[r].pc \in Loop \/ ReleaseLock(r))
  BY DEF NextStep, CheckAfterStep, StepFails, ReleaseLock, At, AtStep, Loop
<1>3. run[r].step \in Nat
  BY RunsAreFunctions DEF PauseInv, RunState
<1>4. CASE \E outcome : Fail(r, outcome) /\ run[r].pc \in Loop
  BY <1>1, <1>4, FailKeepsPause
<1>5. CASE NextStep(r) /\ Goto(r, "exec")
  <2> DEFINE new == [run[r] EXCEPT !.pc = "exec"]
  <2>1. run' = [run EXCEPT ![r] = new]
    BY <1>5 DEF Goto
  <2>2. KeepsPause(run[r], new)
    BY <1>5, RunsAreFunctions DEF PauseInv, RunState, KeepsPause, NextStep, At, Loop
  <2> QED
    BY <1>1, <2>1, <2>2 DEF PauseKept
<1>6. CASE NextStep(r) /\ run[r].step # Len(run[r].plan) /\ Skips(r)
  <2> DEFINE new == [run[r] EXCEPT !.step = @ + 1]
  <2>1. run' = [run EXCEPT ![r] = new]
    BY <1>6 DEF NextStep, StepAfter
  <2>2. run[r].pc = "head"
    BY <1>6 DEF NextStep, At
  <2>3. run[r].step = 0 => run[r].args.forceSkip = 0
    <3>1. run[r].step = 0 => CurrentStep(r).op = "LockDag"
      BY <2>2, PlanShape DEF PauseInv, Alive
    <3> QED
      BY <1>6, <3>1 DEF Skips, AlreadyDone
  <2>4. /\ new.plan = run[r].plan /\ new.args = run[r].args
        /\ new.schedulerPaused = run[r].schedulerPaused
        /\ new.pc = "head"
    BY <2>2, RunsAreFunctions DEF PauseInv, RunState
  <2>5. KeepsPause(run[r], new)
    <3> HIDE DEF new
    <3> QED
      BY <1>3, <2>2, <2>3, <2>4 DEF KeepsPause, Loop
  <2> QED
    BY <1>1, <2>1, <2>5 DEF PauseKept
<1>7. CASE CheckAfterStep(r) /\ ~ \E outcome : Fail(r, outcome)
  <2> DEFINE new == [run[r] EXCEPT !.pc = "head", !.step = run[r].step + 1]
  <2>1. run' = [run EXCEPT ![r] = new] /\ run[r].pc = "check"
    BY <1>7 DEF CheckAfterStep, StepAfter, At
  <2>2. /\ new.plan = run[r].plan /\ new.args = run[r].args
        /\ new.schedulerPaused = run[r].schedulerPaused
        /\ new.pc = "head"
    BY RunsAreFunctions DEF PauseInv, RunState
  <2>3. KeepsPause(run[r], new)
    <3> HIDE DEF new
    <3> QED
      BY <2>1, <2>2 DEF KeepsPause, Loop
  <2> QED
    BY <1>1, <2>1, <2>3 DEF PauseKept
<1>8. CASE ReleaseLock(r)
  <2> DEFINE new == [run[r] EXCEPT !.locked = FALSE, !.pc = "unpause"]
  <2>1. run' = [run EXCEPT ![r] = new]
    BY <1>8 DEF ReleaseLock
  <2>2. /\ new.plan = run[r].plan /\ new.args = run[r].args
        /\ new.schedulerPaused = run[r].schedulerPaused /\ new.step = run[r].step
        /\ new.pc = "unpause"
    BY RunsAreFunctions DEF PauseInv, RunState
  <2> HIDE DEF new
  <2> QED
    BY <1>1, <1>2, <2>1, <2>2, MovedKeeps
<1>9. NextStep(r) => \/ \E outcome : Fail(r, outcome) /\ run[r].pc \in Loop
                     \/ Goto(r, "exec")
                     \/ run[r].step # Len(run[r].plan) /\ Skips(r)
  BY DEF NextStep, At, Loop
<1>10. StepFails(r) => \E outcome : Fail(r, outcome) /\ run[r].pc \in Loop
  BY DEF StepFails, AtStep, Loop
<1>11. CheckAfterStep(r) => run[r].pc \in Loop
  BY DEF CheckAfterStep, At, Loop
<1> QED
  BY <1>4, <1>5, <1>6, <1>7, <1>8, <1>9, <1>10, <1>11

(* LockDag: lost, or taken with something to pause, it has not paused yet; *)
(* with nothing to pause there is nothing to find paused.                  *)
LEMMA AcquirePause ==
  ASSUME PauseInv, NEW r \in Run, AcquireLock(r)
  PROVE  PausesAreOwed' /\ (PauseKept(r) \/
           /\ paused' = paused
           /\ \E new : /\ run' = [run EXCEPT ![r] = new]
                       /\ AffectedNodes(new.plan) = {})
<1>1. paused' = paused /\ run[r].pc = "exec"
  BY DEF AcquireLock, AtStep, pgtrickle
<1>2. CASE ~LockAvailable
  BY <1>1, <1>2, FailKeepsPause, OwedKept DEF AcquireLock, ReportContention, Loop
<1>3. CASE LockAvailable
  <2>1. PICK pc : pc = IF AffectedNodes(run[r].plan) = {} THEN "progress" ELSE "pause"
    OBVIOUS
  <2> DEFINE new == [run[r] EXCEPT !.locked = TRUE, !.pc = pc]
  <2>2. run' = [run EXCEPT ![r] = new]
    BY <1>3, <2>1 DEF AcquireLock
  <2>3. /\ new.plan = run[r].plan /\ new.args = run[r].args
        /\ new.schedulerPaused = run[r].schedulerPaused /\ new.step = run[r].step
        /\ new.pc = pc /\ new.outcome = run[r].outcome
    BY RunsAreFunctions DEF PauseInv, RunState
  <2>4. run[r].step = 0
    BY PlanShape DEF PauseInv, AcquireLock, AtStep, Alive
  <2> HIDE DEF new
  <2>5. CASE pc = "pause"
    <3>1. KeepsPause(run[r], new)
      BY <1>1, <2>3, <2>4, <2>5 DEF KeepsPause, Loop
    <3> QED
      BY <1>1, <2>2, <3>1, OwedKept DEF PauseKept
  <2>6. CASE pc # "pause"
    <3>1. AffectedNodes(new.plan) = {} /\ pc = "progress"
      BY <2>1, <2>3, <2>6
    <3>2. run' = [s \in Run |-> IF s = r THEN new ELSE run[s]]
      BY <2>2, RunsAreFunctions DEF PauseInv
    <3>3. PausesAreOwed'
      BY <1>1, <2>3, <3>1, <3>2 DEF PauseInv, PausesAreOwed, Loop
    <3> QED
      BY <1>1, <2>2, <3>1, <3>3
  <2> QED
    BY <2>5, <2>6
<1> QED
  BY <1>2, <1>3

(* A run begins, ends or dies.                                             *)
LEMMA OwedAtEnds ==
  ASSUME PauseInv, NEW r \in Run,
         Begin(r) \/ StartupFails(r) \/ FinishMigration(r) \/ Crash(r)
  PROVE  PausesAreOwed'
<1>1. paused' = paused
  BY DEF Begin, StartupFails, FinishMigration, Crash, pgtrickle
<1>2. \A outcome : /\ ~Exited(outcome).schedulerPaused
                   /\ Exited(outcome).outcome = outcome
  BY DEF Exited, IdleRun
<1>3. CASE Crash(r)
  BY <1>1, <1>2, <1>3, OwedStored DEF Crash
<1>4. CASE ~Crash(r)
  <2>1. ~run[r].schedulerPaused /\ run[r].outcome # "crashed"
    BY <1>4 DEF Begin, StartupFails, FinishMigration, At, PauseInv, TypeInv,
                OutcomeMatchesPc, PausesAreOwed, Loop
  <2>2. \E new : run' = [run EXCEPT ![r] = new] /\ ~new.schedulerPaused
    <3>1. CASE Begin(r)
      <4>1. PICK args, desired, plan :
              run' = [run EXCEPT ![r] =
                IF NoChanges(plan) THEN Exited("nochange")
                ELSE [IdleRun EXCEPT !.args = args, !.desired = desired, !.plan = plan,
                                     !.pc = IF args.resume THEN "find" ELSE "start"]]
        BY <3>1 DEF Begin
      <4>2. PICK new : new = IF NoChanges(plan) THEN Exited("nochange")
              ELSE [IdleRun EXCEPT !.args = args, !.desired = desired, !.plan = plan,
                                   !.pc = IF args.resume THEN "find" ELSE "start"]
        OBVIOUS
      <4>3. ~new.schedulerPaused
        BY <4>2, <1>2 DEF IdleRun
      <4> QED
        BY <4>1, <4>2, <4>3
    <3>2. CASE StartupFails(r) \/ FinishMigration(r)
      BY <3>2, <1>2 DEF StartupFails, FinishMigration
    <3> QED
      BY <3>1, <3>2, <1>4
  <2> QED
    BY <1>1, <2>1, <2>2, OwedStored
<1> QED
  BY <1>3, <1>4

(* The run takes over the tables it pauses, and gives all of them back.    *)
LEMMA OwedPauses ==
  ASSUME PauseInv, NEW r \in Run, PauseScheduler(r) \/ ResumeScheduler(r)
  PROVE  PausesAreOwed'
<1>1. run[r].outcome # "crashed"
  BY DEF PauseScheduler, ResumeScheduler, At, PauseInv, TypeInv, OutcomeMatchesPc
<1>2. CASE PauseScheduler(r)
  <2> DEFINE new == [run[r] EXCEPT !.pc = "progress", !.schedulerPaused = TRUE]
  <2>1. run' = [s \in Run |-> IF s = r THEN new ELSE run[s]]
    BY <1>2, RunsAreFunctions DEF PauseInv, PauseScheduler
  <2>2. new.plan = run[r].plan /\ new.schedulerPaused /\ new.pc = "progress"
    BY RunsAreFunctions DEF PauseInv, RunState
  <2>3. paused' = paused \cup AffectedNodes(run[r].plan)
    BY <1>2 DEF PauseScheduler
  <2> HIDE DEF new
  <2> QED
    BY <1>1, <2>1, <2>2, <2>3 DEF PauseInv, PausesAreOwed, Loop
<1>3. CASE ResumeScheduler(r)
  <2> DEFINE new == [run[r] EXCEPT !.pc = "finish", !.schedulerPaused = FALSE,
                                   !.heartbeat = FALSE]
  <2>1. run' = [s \in Run |-> IF s = r THEN new ELSE run[s]]
    BY <1>3, RunsAreFunctions DEF PauseInv, ResumeScheduler
  <2>2. ~new.schedulerPaused
    BY RunsAreFunctions DEF PauseInv, RunState
  <2>3. \/ paused' = paused \ ResumedNodes(r)
        \/ "bestEffort" \in Faults
    BY <1>3 DEF ResumeScheduler, BestEffortFails
  <2>4. \A t \in paused' : "bestEffort" \notin Faults /\ run[r].schedulerPaused
                            => t \in paused /\ t \notin AffectedNodes(run[r].plan)
    BY <2>3 DEF ResumedNodes
  <2>5. "bestEffort" \notin Faults => paused' \subseteq paused
    BY <2>3
  <2> HIDE DEF new
  <2> QED
    BY <1>1, <2>1, <2>2, <2>4, <2>5 DEF PauseInv, PausesAreOwed
<1> QED
  BY <1>2, <1>3

(* The heartbeat task and the lock row have no part in it.                 *)
LEMMA OthersKeepPause ==
  ASSUME PauseInv,
         \/ \E r \in Run : Heartbeat(r)
         \/ LockExpires \/ ShowLock \/ ForceUnlock
         \/ UNCHANGED vars
  PROVE  /\ paused' = paused
         /\ DOMAIN run' = Run
         /\ \A r \in Run :
              /\ run'[r].pc = run[r].pc /\ run'[r].plan = run[r].plan
              /\ run'[r].args = run[r].args /\ run'[r].step = run[r].step
              /\ run'[r].schedulerPaused = run[r].schedulerPaused
              /\ run'[r].outcome = run[r].outcome
<1>1. paused' = paused
  BY DEF Heartbeat, LockExpires, ShowLock, ForceUnlock, vars, pgtrickle
<1>2. CASE run' = run
  BY <1>1, <1>2, RunsAreFunctions DEF PauseInv
<1>3. ASSUME NEW s \in Run, Heartbeat(s), run' # run
      PROVE  run' = [run EXCEPT ![s] = [run[s] EXCEPT !.lockLost = TRUE,
                                                      !.heartbeat = FALSE]]
  BY <1>3 DEF Heartbeat
<1>4. CASE run' # run
  <2>1. PICK s \in Run : Heartbeat(s)
    BY <1>4 DEF LockExpires, ShowLock, ForceUnlock, vars
  <2>2. run' = [run EXCEPT ![s] = [run[s] EXCEPT !.lockLost = TRUE,
                                                 !.heartbeat = FALSE]]
    BY <1>3, <1>4, <2>1
  <2> QED
    BY <1>1, <2>2, RunsAreFunctions DEF PauseInv, RunState
<1> QED
  BY <1>2, <1>4

(* Which actions the rest of Next is made of.                              *)
LEMMA PauseActions ==
  ASSUME PauseInv, [Next]_vars
  PROVE  \/ \E r \in Run :
              \/ PauseKept(r) \/ AcquireLock(r) \/ PauseScheduler(r)
              \/ ResumeScheduler(r) \/ FinishMigration(r)
              \/ Begin(r) \/ StartupFails(r) \/ Crash(r)
         \/ \E r \in Run : Heartbeat(r)
         \/ LockExpires \/ ShowLock \/ ForceUnlock
         \/ UNCHANGED vars
<1>1. ASSUME NEW r \in Run, Advance(r)
      PROVE  \/ PauseKept(r) \/ AcquireLock(r) \/ PauseScheduler(r)
             \/ ResumeScheduler(r) \/ FinishMigration(r)
  BY <1>1, ResumeKeepsPause, ArmsKeepPause, LoopKeepsPause DEF Advance, StepBody, Cleanup
<1>2. ASSUME NEW r \in Run, StepFails(r) PROVE PauseKept(r)
  BY <1>2, LoopKeepsPause
<1> QED
  BY <1>1, <1>2 DEF Next

LEMMA PausesAreOwedStep == PauseInv /\ [Next]_vars => PausesAreOwed'
<1> SUFFICES ASSUME PauseInv, [Next]_vars PROVE PausesAreOwed'
  OBVIOUS
<1>1. ASSUME \/ \E r \in Run : Heartbeat(r)
             \/ LockExpires \/ ShowLock \/ ForceUnlock
             \/ UNCHANGED vars
      PROVE  PausesAreOwed'
  BY <1>1, OthersKeepPause DEF PauseInv, PausesAreOwed
<1> QED
  BY <1>1, PauseActions, OwedKept, AcquirePause, OwedPauses, OwedAtEnds

THEOREM PauseInvariant == Spec => []PauseInv
<1>1. Init => PausesAreOwed
  BY DEF Init, IdleRun, PausesAreOwed
<1> QED
  BY <1>1, InitTypeInv, TypeInvStep, PausesAreOwedStep, PTL DEF Spec, PauseInv

(* executor.rs S-14: when every run is over and none died, pg_trickle      *)
(* refreshes every table again, whatever plans ran, in whatever order they *)
(* paused and resumed the tables they share, and whichever of them failed. *)
THEOREM NothingStaysPaused == Spec => []NoPauseLeak
<1>1. PauseInv => NoPauseLeak
  BY DEF PauseInv, PausesAreOwed, NoPauseLeak, Loop
<1> QED
  BY <1>1, PauseInvariant, PTL

-----------------------------------------------------------------------------
(* With one run at a time nobody resumes what another run has paused.      *)

AloneInv == PauseInv /\ OneAtATime /\ PausedWhileAlone

(* The record of the run that acts is all that changes, it was alive, and  *)
(* past LockDag its tables are paused.                                     *)
SafeAlone(r) ==
  /\ r \in Alive
  /\ \E new : /\ run' = [run EXCEPT ![r] = new]
              /\ /\ new.pc \in Loop
                 /\ new.step > 0 \/ new.pc \notin {"head", "exec", "pause"}
                 /\ new.args.forceSkip # 0
                 => AffectedNodes(new.plan) \subseteq paused'

LEMMA SafeKeepsAlone ==
  ASSUME AloneInv, NEW r \in Run, SafeAlone(r)
  PROVE  OneAtATime' /\ PausedWhileAlone'
<1>1. PICK new :
        /\ run' = [run EXCEPT ![r] = new]
        /\ /\ new.pc \in Loop
           /\ new.step > 0 \/ new.pc \notin {"head", "exec", "pause"}
           /\ new.args.forceSkip # 0
           => AffectedNodes(new.plan) \subseteq paused'
  BY DEF SafeAlone
<1>2. run' = [s \in Run |-> IF s = r THEN new ELSE run[s]]
  BY <1>1, RunsAreFunctions DEF AloneInv, PauseInv
<1>3. \A s \in Run : s # r => run'[s] = run[s] /\ run[s].pc \in {"idle", "ended"}
  BY <1>2 DEF AloneInv, OneAtATime, SafeAlone, Alive
<1>4. OneAtATime'
  BY <1>3 DEF OneAtATime, Alive
<1>5. PausedWhileAlone'
  BY <1>1, <1>2, <1>3 DEF PausedWhileAlone, PastLockDag, LockSkipped
<1> QED
  BY <1>4, <1>5

(* What a live run does is safe.                                           *)
LEMMA AliveIsSafe ==
  ASSUME AloneInv, NEW r \in Run,
         \/ PauseKept(r) \/ AcquireLock(r) \/ PauseScheduler(r)
         \/ ResumeScheduler(r) \/ FinishMigration(r)
         \/ StartupFails(r) \/ Crash(r)
  PROVE  SafeAlone(r)
<1>1. CASE PauseKept(r)
  <2>1. PICK new : run' = [run EXCEPT ![r] = new] /\ KeepsPause(run[r], new)
    BY <1>1 DEF PauseKept
  <2>2. AffectedNodes(run[r].plan) \subseteq paused \/ ~PastLockDag(r) \/ LockSkipped(r)
    BY DEF AloneInv, PausedWhileAlone
  <2> QED
    BY <1>1, <2>1, <2>2 DEF SafeAlone, PauseKept, KeepsPause, Alive, PastLockDag,
                            LockSkipped
<1>2. CASE AcquireLock(r)
  <2>1. CASE PauseKept(r)
    BY <1>1, <2>1
  <2>2. CASE ~PauseKept(r)
    <3>1. \E new : run' = [run EXCEPT ![r] = new] /\ AffectedNodes(new.plan) = {}
      BY <1>2, <2>2, AcquirePause DEF AloneInv
    <3> QED
      BY <1>2, <3>1 DEF SafeAlone, AcquireLock, AtStep, Alive
  <2> QED
    BY <2>1, <2>2
<1>3. CASE PauseScheduler(r)
  <2> DEFINE new == [run[r] EXCEPT !.pc = "progress", !.schedulerPaused = TRUE]
  <2>1. run' = [run EXCEPT ![r] = new] /\ paused' = paused \cup AffectedNodes(run[r].plan)
    BY <1>3 DEF PauseScheduler
  <2>2. new.plan = run[r].plan
    BY RunsAreFunctions DEF AloneInv, PauseInv, RunState
  <2>3. r \in Alive
    BY <1>3 DEF PauseScheduler, At, Alive
  <2> HIDE DEF new
  <2> QED
    BY <2>1, <2>2, <2>3 DEF SafeAlone
<1>4. CASE ResumeScheduler(r)
  <2> DEFINE new == [run[r] EXCEPT !.pc = "finish", !.schedulerPaused = FALSE,
                                   !.heartbeat = FALSE]
  <2>1. run' = [run EXCEPT ![r] = new] /\ r \in Alive
    BY <1>4 DEF ResumeScheduler, At, Alive
  <2>2. new.pc = "finish"
    BY RunsAreFunctions DEF AloneInv, PauseInv, RunState
  <2> HIDE DEF new
  <2> QED
    BY <2>1, <2>2 DEF SafeAlone
<1>5. CASE FinishMigration(r) \/ StartupFails(r) \/ Crash(r)
  <2>1. \E outcome : run' = [run EXCEPT ![r] = Exited(outcome)]
    BY <1>5 DEF FinishMigration, StartupFails, Crash
  <2>2. \A outcome : Exited(outcome).pc = "ended"
    BY DEF Exited, IdleRun
  <2>3. r \in Alive
    BY <1>5 DEF FinishMigration, StartupFails, Crash, At, Alive
  <2> QED
    BY <2>1, <2>2, <2>3 DEF SafeAlone
<1> QED
  BY <1>1, <1>2, <1>3, <1>4, <1>5

(* A run begins only when nobody else is alive.                            *)
LEMMA BeginsFirst ==
  ASSUME MaxActive = 1, IsFiniteSet(Run), NEW r \in Run, Begin(r)
  PROVE  Alive = {}
<1>1. IsFiniteSet(Alive)
  BY FS_Subset DEF Alive
<1>2. Cardinality(Alive) = 0
  BY <1>1, FS_CardinalityType DEF Begin
<1> QED
  BY <1>1, <1>2, FS_EmptySet

LEMMA BeginsAlone ==
  ASSUME AloneInv, MaxActive = 1, IsFiniteSet(Run), NEW r \in Run, Begin(r)
  PROVE  OneAtATime' /\ PausedWhileAlone'
<1>1. Alive = {}
  BY BeginsFirst
<1>2. \A s \in Run : run[s].pc \in {"idle", "ended"}
  BY <1>1 DEF Alive
<1>3. PICK args, desired, plan :
        run' = [run EXCEPT ![r] =
          IF NoChanges(plan) THEN Exited("nochange")
          ELSE [IdleRun EXCEPT !.args = args, !.desired = desired, !.plan = plan,
                               !.pc = IF args.resume THEN "find" ELSE "start"]]
  BY DEF Begin
<1>4. PICK new : new = IF NoChanges(plan) THEN Exited("nochange")
        ELSE [IdleRun EXCEPT !.args = args, !.desired = desired, !.plan = plan,
                             !.pc = IF args.resume THEN "find" ELSE "start"]
  OBVIOUS
<1>5. new.pc \in {"ended", "find", "start"}
  BY <1>4 DEF Exited, IdleRun
<1>6. run' = [s \in Run |-> IF s = r THEN new ELSE run[s]]
  BY <1>3, <1>4, RunsAreFunctions DEF AloneInv, PauseInv
<1>7. \A s \in Run : s # r => run'[s].pc \in {"idle", "ended"}
  BY <1>2, <1>6
<1>8. run'[r].pc \in {"ended", "find", "start"}
  BY <1>5, <1>6
<1>9. OneAtATime'
  BY <1>7 DEF OneAtATime, Alive
<1>10. \A s \in Run : run'[s].pc \notin Loop
  BY <1>7, <1>8
<1> QED
  BY <1>9, <1>10 DEF PausedWhileAlone, PastLockDag

(* A statement of the DDL is one of a step whose table LockDag pauses.     *)
LEMMA DdlIsAffected ==
  ASSUME TypeInv, NEW r \in Run, run[r].pc = "ddl"
  PROVE  CurrentStep(r).table \in AffectedNodes(run[r].plan)
<1>1. /\ CurrentStep(r).op \in {"CreateStreamTable", "DropStreamTable"}
      /\ run[r].step < Len(run[r].plan)
  BY DEF TypeInv, StepMatchesPc
<1>2. run[r].plan \in Seq(Step) /\ run[r].step \in Nat
  BY RunsAreFunctions DEF RunState
<1>3. run[r].step + 1 \in DOMAIN run[r].plan
  BY <1>1, <1>2, LenProperties
<1> QED
  BY <1>1, <1>3 DEF AffectedNodes, CurrentStep

LEMMA AloneInvInit == Init => AloneInv
<1>1. Init => PausesAreOwed /\ OneAtATime /\ PausedWhileAlone
  BY DEF Init, IdleRun, PausesAreOwed, OneAtATime, PausedWhileAlone, PastLockDag, Alive
<1> QED
  BY <1>1, InitTypeInv DEF AloneInv, PauseInv

LEMMA AloneInvStep ==
  ASSUME MaxActive = 1, IsFiniteSet(Run)
  PROVE  AloneInv /\ [Next]_vars => AloneInv'
<1> SUFFICES ASSUME AloneInv, [Next]_vars PROVE AloneInv'
  OBVIOUS
<1>1. PauseInv'
  BY TypeInvStep, PausesAreOwedStep DEF AloneInv, PauseInv
<1>2. ASSUME \/ \E r \in Run : Heartbeat(r)
             \/ LockExpires \/ ShowLock \/ ForceUnlock
             \/ UNCHANGED vars
      PROVE  OneAtATime' /\ PausedWhileAlone'
  BY <1>2, OthersKeepPause
  DEF AloneInv, OneAtATime, PausedWhileAlone, PastLockDag, LockSkipped, Alive
<1>3. OneAtATime' /\ PausedWhileAlone'
  BY <1>2, PauseActions, AliveIsSafe, SafeKeepsAlone, BeginsAlone DEF AloneInv
<1> QED
  BY <1>1, <1>3 DEF AloneInv

(* executor.rs S-03, S-14: with one apply of the project at a time, the    *)
(* scheduler is paused for a table from before the first DDL on it until   *)
(* after the last, through resumes, forced retries and failing statements; *)
(* only --force-skip of LockDag itself gives it up.  With two at a time it *)
(* is false: the lock is released before the scheduler is resumed.         *)
THEOREM SchedulerIsPaused ==
  ASSUME MaxActive = 1, IsFiniteSet(Run)
  PROVE  Spec => []PausedDuringDdl
<1>1. AloneInv => PausedDuringDdl
  BY DdlIsAffected DEF AloneInv, PauseInv, PausedDuringDdl, PausedWhileAlone, PastLockDag
<1>2. AloneInv /\ [Next]_vars => AloneInv'
  BY AloneInvStep
<1> QED
  BY <1>1, <1>2, AloneInvInit, PTL DEF Spec

=============================================================================
