-------------------------- MODULE CheckpointProofs --------------------------
(***************************************************************************)
(* Proofs for the runs of one plan file, one at a time: fresh or resumed,  *)
(* crashing between any two statements, with statements that fail and      *)
(* locks that are lost.  The checkpoint never runs ahead of the database,  *)
(* and what a run commits is live.                                         *)
(***************************************************************************)
EXTENDS ExecutorProofs

USE DEF PC, BeforeLoop, InStep, InDdl, WayOut, Loop

CheckInv == AloneInv /\ ArgsMatchPc /\ CheckpointInv

TableWrite == {"CreateStreamTable", "AlterStreamTable", "DropStreamTable"}

-----------------------------------------------------------------------------
(* Whether a step is in effect depends on its own table only.              *)
Fits(spec, step) ==
  /\ step.op = "CreateStreamTable" => spec # Absent /\ spec.query = step.args.query
  /\ step.op = "DropStreamTable"   => spec = Absent
  /\ step.op = "AlterStreamTable"  => spec = Absent \/ Coalesce(spec, step.args) = spec

(* The alter changes nothing when the spec it yields is the one it found.  *)
LEMMA AlterFits ==
  ASSUME NEW dag \in DagState, NEW t \in Table, NEW args
  PROVE  AlterTable(dag, t, args) = dag <=>
           dag[t] = Absent \/ Coalesce(dag[t], args) = dag[t]
BY DEF AlterTable, DagState

LEMMA InEffectFits ==
  ASSUME TypeInv, NEW step, step.op \in TableWrite => step.table \in Table
  PROVE  InEffect(step) <=> Fits(tables[step.table], step)
<1>1. tables \in DagState
  BY DEF TypeInv, TypeOK
<1> QED
  BY <1>1, AlterFits DEF InEffect, Fits, TableWrite

LEMMA InEffectFitsNext ==
  ASSUME TypeInv', NEW step, step.op \in TableWrite => step.table \in Table
  PROVE  InEffect(step)' <=> Fits(tables'[step.table], step)
<1>1. tables' \in DagState
  BY DEF TypeInv, TypeOK
<1>2. step.op = "AlterStreamTable" =>
        (AlterTable(tables', step.table, step.args) = tables' <=>
           tables'[step.table] = Absent
             \/ Coalesce(tables'[step.table], step.args) = tables'[step.table])
  BY <1>1, AlterFits DEF TableWrite
<1> QED
  BY <1>2 DEF InEffect, Fits, TableWrite

(* What the three statements leave behind fits their step.                 *)
LEMMA CoalesceTwice ==
  ASSUME NEW spec, NEW args
  PROVE  Coalesce(Coalesce(spec, args), args) = Coalesce(spec, args)
BY DEF Coalesce, OrElse

(* The plan of the plan file is one of the planner's.                      *)
LEMMA ThePlanGood ==
  ASSUME OnePlan
  PROVE  /\ WellFormed(ThePlan) /\ SwitchesApart(ThePlan)
         /\ ThePlan \in Seq(Step) /\ Len(ThePlan) \in Nat /\ Len(ThePlan) >= 2
         /\ DOMAIN ThePlan = 1 .. Len(ThePlan)
         /\ \A i \in DOMAIN ThePlan : ThePlan[i].op \in TableWrite => ThePlan[i].table \in Table
         /\ \A desired \in Desired : PlanFor(desired, InitialTables) = ThePlan
<1>1. (CHOOSE d \in Desired : TRUE) \in Desired
  BY DEF OnePlan
<1>2. WellFormed(ThePlan) /\ SwitchesApart(ThePlan)
  BY <1>1, ExecutorAssumption, PlanAssumption, SwitchAssumption DEF ThePlan
<1>3. \A desired \in Desired : PlanFor(desired, InitialTables) = ThePlan
  BY <1>1 DEF OnePlan, ThePlan
<1>4. /\ ThePlan \in Seq(Step) /\ Len(ThePlan) >= 2
      /\ \A i \in DOMAIN ThePlan : ThePlan[i].op \in TableOps => ThePlan[i].table \in Table
  BY <1>2 DEF WellFormed
<1> QED
  BY <1>2, <1>3, <1>4, LenProperties DEF TableOps, TableWrite

-----------------------------------------------------------------------------
(* The newest unfinished migration.                                        *)

LEMMA LatestIsOne ==
  ASSUME NEW S, S \subseteq Nat, NEW m \in Latest(S) PROVE Latest(S) = {m}
<1>1. m \in S /\ \A j \in S : j <= m
  BY DEF Latest
<1>2. \A i \in Latest(S) : i \in S /\ m <= i /\ i <= m
  BY <1>1 DEF Latest
<1>3. \A i \in Latest(S) : i = m
  BY <1>1, <1>2
<1> QED
  BY <1>3

(* The rows of aqueduct.migrations as a sequence.                          *)
LEMMA MigrationRows ==
  ASSUME TypeInv
  PROVE  /\ Len(migrations) \in Nat /\ DOMAIN migrations = 1 .. Len(migrations)
         /\ \A m \in DOMAIN migrations :
              /\ migrations[m] \in MigrationRow
              /\ migrations[m].progress \in Nat
<1>1. migrations \in Seq(MigrationRow)
  BY DEF TypeInv, TypeOK
<1>2. Len(migrations) \in Nat /\ DOMAIN migrations = 1 .. Len(migrations)
  BY <1>1, LenProperties
<1>3. \A m \in DOMAIN migrations : migrations[m] \in MigrationRow
  BY <1>1, <1>2, ElementOfSeq
<1> QED
  BY <1>2, <1>3 DEF MigrationRow

LEMMA UnfinishedIsRow ==
  ASSUME TypeInv, NEW m \in LatestUnfinished
  PROVE  /\ LatestUnfinished = {m} /\ m \in DOMAIN migrations
         /\ migrations[m].status \in Resumable
         /\ \A n \in DOMAIN migrations : migrations[n].status \in Resumable => n <= m
<1> DEFINE S == {n \in DOMAIN migrations : migrations[n].status \in Resumable}
<1>1. S \subseteq Nat
  BY MigrationRows
<1>2. m \in Latest(S) /\ LatestUnfinished = Latest(S)
  BY DEF LatestUnfinished
<1>3. Latest(S) = {m}
  BY <1>1, <1>2, LatestIsOne
<1> QED
  BY <1>2, <1>3 DEF Latest

(* While the statuses stay as they are, so does the newest.                *)
LEMMA SameUnfinished ==
  ASSUME DOMAIN migrations' = DOMAIN migrations,
         \A m \in DOMAIN migrations :
           migrations'[m].status \in Resumable <=> migrations[m].status \in Resumable
  PROVE  LatestUnfinished' = LatestUnfinished
<1>1. {m \in DOMAIN migrations' : migrations'[m].status \in Resumable}
        = {m \in DOMAIN migrations : migrations[m].status \in Resumable}
  OBVIOUS
<1> QED
  BY <1>1 DEF LatestUnfinished, Latest

-----------------------------------------------------------------------------
(* One run acts, nobody else is alive.                                     *)

SharedInv == RowsOfThePlan /\ UndoneIsAhead /\ CheckpointIsDone

(* It is enough to look at the run that acts.                              *)
LEMMA ActsAlone ==
  ASSUME TypeInv, NEW r \in Run, NEW new, run' = [run EXCEPT ![r] = new],
         Alive \subseteq {r}, SharedInv', r \in Alive' => OnCourse(r)'
  PROVE  CheckpointInv'
<1>1. run' = [s \in Run |-> IF s = r THEN new ELSE run[s]]
  BY RunsAreFunctions
<1>2. \A s \in Alive' : s = r
  BY <1>1 DEF Alive
<1>3. \A s \in Alive' : OnCourse(s)'
  BY <1>2
<1> QED
  BY <1>3 DEF CheckpointInv, SharedInv

(* Nobody else is alive while one acts.                                    *)
LEMMA AliveAlone ==
  ASSUME CheckInv, NEW r \in Alive PROVE Alive \subseteq {r}
BY DEF CheckInv, AloneInv, OneAtATime

(* Its own record says what it is on.                                      *)
LEMMA CourseOf ==
  ASSUME CheckInv, OnePlan, NEW r \in Alive
  PROVE  /\ r \in Run /\ TypeInv /\ OnCourse(r)
         /\ run[r] \in RunState /\ run[r].plan = ThePlan
         /\ run[r].step \in Nat /\ run[r].resumeFrom \in Nat
         /\ run[r].args \in Invocation
         /\ run[r].args.forceRetry = None /\ run[r].args.forceSkip = None
         /\ RowsOfThePlan /\ UndoneIsAhead /\ CheckpointIsDone
<1>1. r \in Run /\ TypeInv /\ OnCourse(r) /\ RowsOfThePlan /\ UndoneIsAhead
      /\ CheckpointIsDone /\ run[r].args \in Invocation
  BY DEF CheckInv, AloneInv, PauseInv, CheckpointInv, ArgsMatchPc, Alive
<1>2. run[r] \in RunState
  BY <1>1, RunsAreFunctions
<1>3. run[r].step \in Nat /\ run[r].resumeFrom \in Nat
  BY <1>2 DEF RunState
<1> QED
  BY <1>1, <1>2, <1>3 DEF OnCourse, OnePlan

(* The catalog and the tables stay as they are.                            *)
LEMMA SharedKept ==
  ASSUME SharedInv, UNCHANGED <<migrations, ddlLog, tables>>
  PROVE  SharedInv' /\ LatestUnfinished' = LatestUnfinished
BY DEF SharedInv, RowsOfThePlan, UndoneIsAhead, CheckpointIsDone, CreateRunning, AheadOf,
       LatestUnfinished, Latest, InEffect

(* A statement about ddl_log that leaves no create to undo that was not    *)
(* there before.                                                           *)
NoNewUndone ==
  \A l \in DOMAIN ddlLog' : CreateRunning(l)' => l \in DOMAIN ddlLog /\ ddlLog'[l] = ddlLog[l]

LEMMA SharedLog ==
  ASSUME SharedInv, NoNewUndone, UNCHANGED <<migrations, tables>>
  PROVE  SharedInv' /\ LatestUnfinished' = LatestUnfinished
<1>1. RowsOfThePlan' /\ CheckpointIsDone' /\ LatestUnfinished' = LatestUnfinished
  BY DEF SharedInv, RowsOfThePlan, CheckpointIsDone, LatestUnfinished, Latest, InEffect
<1>2. UndoneIsAhead'
  BY DEF SharedInv, UndoneIsAhead, NoNewUndone, CreateRunning, AheadOf
<1> QED
  BY <1>1, <1>2 DEF SharedInv

(* In the loop, what the checkpoint covers is behind the run.              *)
LEMMA CheckpointInLoop ==
  ASSUME OnePlan, TypeInv', RowsOfThePlan', NEW r \in Run, run'[r].pc \in Loop,
         OnCourse(r)'
  PROVE  CheckpointIsDone'
<1>1. PICK m : m = run'[r].migration /\ LatestUnfinished' = {m}
  BY DEF OnCourse, KnowsMigration
<1>2. m \in DOMAIN migrations'
  BY <1>1 DEF LatestUnfinished, Latest
<1>3. migrations'[m].plan = ThePlan
  BY <1>2 DEF RowsOfThePlan
<1>4. run'[r].step \in Nat /\ run'[r].resumeFrom \in Nat
  BY DEF TypeInv, TypeOK, RunState
<1>5. migrations'[m].progress \in Nat
  <2>1. migrations' \in Seq(MigrationRow)
    BY DEF TypeInv, TypeOK
  <2>2. migrations'[m] \in MigrationRow
    BY <1>2, <2>1, LenProperties, ElementOfSeq
  <2> QED
    BY <2>2 DEF MigrationRow
<1>6. SUFFICES ASSUME NEW i \in DOMAIN ThePlan, i <= migrations'[m].progress + 1,
                      LastOnItsTable(ThePlan, i)
               PROVE  InEffect(ThePlan[i])'
  BY <1>1, <1>3 DEF CheckpointIsDone
<1>7. i \in Nat
  BY ThePlanGood
<1>8. CASE i = 1
  <2>1. ThePlan[i].op = "LockDag"
    BY <1>8, ThePlanGood DEF WellFormed
  <2> QED
    BY <2>1 DEF InEffect
<1>9. CASE i # 1
  <2>1. migrations'[m].progress # 0
    BY <1>6, <1>7, <1>9, <1>5, ThePlanGood
  <2>2. \/ migrations'[m].progress < run'[r].resumeFrom
        \/ migrations'[m].progress < run'[r].step
        \/ migrations'[m].progress = run'[r].step /\ run'[r].pc = "check"
    BY <1>1, <2>1 DEF OnCourse, StaysAhead
  <2>3. Behind(r, i)'
    BY <1>4, <1>5, <1>6, <1>7, <2>2 DEF Behind
  <2> QED
    BY <1>6, <2>3 DEF OnCourse, DoneSoFar
<1> QED
  BY <1>8, <1>9

(* The run keeps everything that says what it works on.                    *)
SameWork(old, new) ==
  /\ new.plan = old.plan /\ new.args = old.args
  /\ new.resumeFrom = old.resumeFrom /\ new.migration = old.migration

(* A step that leaves the tables and the rows of the migrations alone, and *)
(* ends the executed step only when it changed no table or had done so.    *)
LEMMA MoveInStep ==
  ASSUME CheckInv, TypeInv', OnePlan, NEW r \in Alive, NEW new,
         run' = [run EXCEPT ![r] = new], SameWork(run[r], new),
         new.step = run[r].step, new.outcome = run[r].outcome,
         run[r].pc \in {"exec", "pause", "own"}, new.pc \in {"pause", "ddl", "progress"},
         \/ new.pc # "progress"
         \/ run[r].pc = "own"
         \/ CurrentStep(r).op \notin TableWrite,
         NoNewUndone, UNCHANGED <<migrations, tables>>
  PROVE  CheckpointInv'
<1>1. /\ r \in Run /\ TypeInv /\ OnCourse(r) /\ run[r].plan = ThePlan
      /\ run[r].step \in Nat /\ SharedInv
  BY CourseOf DEF SharedInv
<1>2. SharedInv' /\ LatestUnfinished' = LatestUnfinished
  BY <1>1, SharedLog
<1>3. run'[r] = new
  BY <1>1, RunsAreFunctions
<1>4. run'[r].plan = ThePlan /\ run'[r].outcome # "interrupted"
  BY <1>1, <1>3 DEF SameWork, OnCourse
<1>5. KnowsMigration(r)'
  BY <1>1, <1>2, <1>3 DEF OnCourse, KnowsMigration, SameWork
<1>6. StaysAhead(r)'
  BY <1>1, <1>3 DEF OnCourse, StaysAhead, SameWork
<1>7. KnowsPending(r)'
  <2>1. \A l \in DOMAIN ddlLog : CreateRunning(l) => ddlLog[l].migration # run[r].migration
    BY <1>1 DEF OnCourse, KnowsPending
  <2>2. \A l \in DOMAIN ddlLog' : CreateRunning(l)' => ddlLog'[l].migration # run[r].migration
    BY <2>1 DEF NoNewUndone, CreateRunning
  <2> QED
    BY <1>3, <2>2 DEF KnowsPending, SameWork
<1>8. DoneSoFar(r)'
  <2>1. SUFFICES ASSUME NEW i \in DOMAIN ThePlan, LastOnItsTable(ThePlan, i), Behind(r, i)'
                 PROVE  InEffect(ThePlan[i])'
    BY <1>3 DEF DoneSoFar
  <2>2. CASE Behind(r, i)
    <3>1. InEffect(ThePlan[i])
      BY <1>1, <2>1, <2>2 DEF OnCourse, DoneSoFar
    <3> QED
      BY <3>1 DEF InEffect
  <2>3. CASE ~Behind(r, i)
    <3>1. i = run[r].step + 1 /\ new.pc = "progress"
      BY <1>3, <2>1, <2>3 DEF Behind, SameWork
    <3>2. ThePlan[i].op \notin TableWrite
      BY <1>1, <2>3, <3>1 DEF Behind, CurrentStep
    <3> QED
      BY <3>2 DEF InEffect, TableWrite
  <2> QED
    BY <2>2, <2>3
<1>9. OnCourse(r)'
  BY <1>4, <1>5, <1>6, <1>7, <1>8 DEF OnCourse
<1> QED
  BY <1>1, <1>2, <1>9, ActsAlone, AliveAlone

(* On its way out a run stays on course; it is through with all its steps  *)
(* when it reports success.                                                *)
LEMMA MoveOut ==
  ASSUME CheckInv, TypeInv', OnePlan, NEW r \in Alive, NEW new,
         run' = [run EXCEPT ![r] = new], SameWork(run[r], new),
         run[r].pc \in Loop \cup WayOut, new.pc \in WayOut, new.outcome # "interrupted",
         new.outcome = "ok" =>
           \/ run[r].pc \in WayOut /\ run[r].outcome = "ok"
           \/ run[r].pc = "head" /\ run[r].step = Len(run[r].plan),
         UNCHANGED <<migrations, ddlLog, tables>>
  PROVE  CheckpointInv'
<1>1. /\ r \in Run /\ TypeInv /\ OnCourse(r) /\ run[r].plan = ThePlan
      /\ run[r].step \in Nat /\ SharedInv
  BY CourseOf DEF SharedInv
<1>2. SharedInv' /\ LatestUnfinished' = LatestUnfinished
  BY <1>1, SharedKept
<1>3. run'[r] = new
  BY <1>1, RunsAreFunctions
<1>4. run'[r].plan = ThePlan /\ run'[r].outcome # "interrupted"
  BY <1>1, <1>3 DEF SameWork
<1>5. KnowsMigration(r)'
  BY <1>1, <1>2, <1>3 DEF OnCourse, KnowsMigration, SameWork
<1>6. StaysAhead(r)' /\ KnowsPending(r)'
  BY <1>3 DEF StaysAhead, KnowsPending
<1>7. DoneSoFar(r)'
  <2>1. SUFFICES ASSUME NEW i \in DOMAIN ThePlan, LastOnItsTable(ThePlan, i),
                        new.outcome = "ok"
                 PROVE  InEffect(ThePlan[i])'
    BY <1>3 DEF DoneSoFar
  <2>2. i \in Nat /\ i <= Len(ThePlan)
    BY ThePlanGood
  <2>3. \/ run[r].pc \in Loop /\ Behind(r, i)
        \/ run[r].pc \in WayOut /\ run[r].outcome = "ok"
    BY <1>1, <2>1, <2>2 DEF Behind
  <2>4. InEffect(ThePlan[i])
    BY <1>1, <2>1, <2>3 DEF OnCourse, DoneSoFar
  <2> QED
    BY <2>4 DEF InEffect
<1>8. OnCourse(r)'
  BY <1>4, <1>5, <1>6, <1>7 DEF OnCourse
<1> QED
  BY <1>1, <1>2, <1>8, ActsAlone, AliveAlone

(* A new log row that is not a create leaves nothing to undo.              *)
LEMMA LogsNoCreate ==
  ASSUME TypeInv, NEW r \in Run, NEW op, op # "CREATE_STREAM_TABLE", Logged(r, op)
  PROVE  NoNewUndone
<1>1. ddlLog \in Seq(DdlRow) /\ Len(ddlLog) \in Nat /\ DOMAIN ddlLog = 1 .. Len(ddlLog)
  BY LenProperties DEF TypeInv, TypeOK
<1>2. CASE UNCHANGED ddlLog
  BY <1>2 DEF NoNewUndone
<1>3. CASE ddlLog' = Append(ddlLog, LogRow(r, op))
  <2>1. PICK n : n = Len(ddlLog)
    OBVIOUS
  <2>2. /\ n \in Nat /\ DOMAIN ddlLog = 1 .. n /\ DOMAIN ddlLog' = 1 .. n + 1
        /\ ddlLog'[n + 1] = LogRow(r, op)
        /\ \A l \in 1 .. n : ddlLog'[l] = ddlLog[l]
    BY <1>1, <1>3, <2>1
  <2>3. ~CreateRunning(n + 1)'
    BY <2>2 DEF CreateRunning, LogRow
  <2>4. \A l \in DOMAIN ddlLog' : l = n + 1 \/ l \in DOMAIN ddlLog
    BY <2>2
  <2> QED
    BY <2>2, <2>3, <2>4 DEF NoNewUndone
<1> QED
  BY <1>2, <1>3 DEF Logged

(* The statements of a step that change no stream table.                   *)
LEMMA StepMoves ==
  ASSUME CheckInv, TypeInv', OnePlan, NEW r \in Run,
         \/ PauseScheduler(r) \/ PassiveStep(r) \/ LogDrop(r) \/ RecordOwnership(r)
         \/ RecreatePolicy(r) \/ RecordSnapshot(r) \/ UnlockDag(r)
  PROVE  CheckpointInv'
<1>1. /\ run[r].pc \in {"exec", "pause", "own"}
      /\ UNCHANGED <<migrations, tables>>
      /\ LogDrop(r) \/ run[r].pc = "own" \/ CurrentStep(r).op \notin TableWrite
  <2>1. PauseScheduler(r) => CurrentStep(r).op = "LockDag"
    BY DEF PauseScheduler, At, CheckInv, AloneInv, PauseInv, TypeInv, StepMatchesPc
  <2> QED
    BY <2>1 DEF PauseScheduler, PassiveStep, WaitsAndHooks, LogDrop, RecordOwnership,
       RecreatePolicy, RecordSnapshot, UnlockDag, At, AtStep, catalog, pgtrickle, TableWrite
<1>2. r \in Alive
  BY <1>1 DEF Alive
<1>3. TypeInv
  BY DEF CheckInv, AloneInv, PauseInv
<1>4. NoNewUndone
  <2>1. CASE LogDrop(r)
    BY <1>3, <2>1, LogsNoCreate DEF LogDrop
  <2>2. CASE RecreatePolicy(r)
    BY <1>3, <2>2, LogsNoCreate DEF RecreatePolicy, NoNewUndone
  <2>3. CASE ~LogDrop(r) /\ ~RecreatePolicy(r)
    <3>1. UNCHANGED ddlLog
      BY <2>3 DEF PauseScheduler, PassiveStep, RecordOwnership, RecordSnapshot, UnlockDag,
         catalog
    <3> QED
      BY <3>1 DEF NoNewUndone
  <2> QED
    BY <2>1, <2>2, <2>3
<1>5. PICK new :
        /\ run' = [run EXCEPT ![r] = new]
        /\ \/ LogDrop(r) /\ \E cache : new = [run[r] EXCEPT !.pc = "ddl", !.policyCache = cache]
           \/ new = [run[r] EXCEPT !.locked = FALSE, !.pc = "progress"]
           \/ new = [run[r] EXCEPT !.pc = "progress", !.schedulerPaused = TRUE]
           \/ new = [run[r] EXCEPT !.pc = "progress"]
  <2>1. CASE LogDrop(r)
    BY <2>1 DEF LogDrop
  <2>2. CASE PauseScheduler(r)
    BY <2>2 DEF PauseScheduler
  <2>3. CASE UnlockDag(r)
    BY <2>3 DEF UnlockDag
  <2>4. CASE PassiveStep(r) \/ RecordOwnership(r) \/ RecreatePolicy(r) \/ RecordSnapshot(r)
    BY <2>4 DEF PassiveStep, RecordOwnership, RecreatePolicy, RecordSnapshot, Goto
  <2> QED
    BY <2>1, <2>2, <2>3, <2>4
<1>6. /\ SameWork(run[r], new) /\ new.step = run[r].step /\ new.outcome = run[r].outcome
      /\ new.pc = "progress" \/ (new.pc = "ddl" /\ LogDrop(r))
  BY <1>3, <1>5, RunsAreFunctions DEF RunState, SameWork
<1>7. \/ new.pc # "progress" \/ run[r].pc = "own" \/ CurrentStep(r).op \notin TableWrite
  <2>1. CASE LogDrop(r)
    <3>1. run[r].pc = "exec" /\ CurrentStep(r).op = "DropStreamTable"
      BY <2>1 DEF LogDrop, AtStep
    <3>2. run' = [run EXCEPT ![r] = [run[r] EXCEPT !.pc = "ddl",
             !.policyCache = run[r].policyCache \cup ({CurrentStep(r).table} \cap policies)]]
      BY <2>1 DEF LogDrop
    <3>3. run'[r].pc = "ddl"
      BY <1>3, <3>2, RunsAreFunctions DEF RunState
    <3>4. run'[r] = new
      BY <1>3, <1>5, RunsAreFunctions
    <3> QED
      BY <3>3, <3>4
  <2> QED
    BY <1>1, <2>1
<1> QED
  BY <1>1, <1>2, <1>4, <1>5, <1>6, <1>7, MoveInStep

(* An error that leaves the loop, or the end of the plan.                  *)
LEMMA FailMoves ==
  ASSUME CheckInv, TypeInv', OnePlan, NEW r \in Run, NEW outcome \in {"ok", "failed"},
         Fail(r, outcome), run[r].pc \in Loop,
         outcome = "ok" => run[r].pc = "head" /\ run[r].step = Len(run[r].plan),
         UNCHANGED <<migrations, ddlLog, tables>>
  PROVE  CheckpointInv'
<1> DEFINE new == [run[r] EXCEPT !.pc = "release", !.outcome = outcome]
<1>1. run' = [run EXCEPT ![r] = new] /\ r \in Alive
  BY DEF Fail, Loop, Alive
<1>2. new.pc = "release" /\ new.outcome = outcome /\ SameWork(run[r], new)
  BY RunsAreFunctions DEF CheckInv, AloneInv, PauseInv, RunState, SameWork
<1> HIDE DEF new
<1> QED
  BY <1>1, <1>2, MoveOut

(* LockDag, taken or lost.                                                 *)
LEMMA LockMoves ==
  ASSUME CheckInv, TypeInv', OnePlan, NEW r \in Run, AcquireLock(r)
  PROVE  CheckpointInv'
<1>1. /\ run[r].pc = "exec" /\ r \in Alive /\ CurrentStep(r).op = "LockDag"
      /\ UNCHANGED <<migrations, ddlLog, tables>>
  BY DEF AcquireLock, AtStep, catalog, pgtrickle, Alive
<1>2. CASE ~LockAvailable
  BY <1>1, <1>2, FailMoves DEF AcquireLock, ReportContention
<1>3. CASE LockAvailable
  <2>1. PICK pc : pc = IF AffectedNodes(run[r].plan) = {} THEN "progress" ELSE "pause"
    OBVIOUS
  <2> DEFINE new == [run[r] EXCEPT !.locked = TRUE, !.pc = pc]
  <2>2. run' = [run EXCEPT ![r] = new]
    BY <1>3, <2>1 DEF AcquireLock
  <2>3. /\ SameWork(run[r], new) /\ new.step = run[r].step /\ new.outcome = run[r].outcome
        /\ new.pc = pc
    BY RunsAreFunctions DEF CheckInv, AloneInv, PauseInv, RunState, SameWork
  <2>4. NoNewUndone
    BY <1>1 DEF NoNewUndone
  <2> HIDE DEF new
  <2> QED
    BY <1>1, <2>1, <2>2, <2>3, <2>4, MoveInStep DEF TableWrite
<1> QED
  BY <1>2, <1>3

(* The way out.                                                            *)
LEMMA OutMoves ==
  ASSUME CheckInv, TypeInv', OnePlan, NEW r \in Run,
         ReleaseLock(r) \/ ResumeScheduler(r)
  PROVE  CheckpointInv'
<1>1. /\ run[r].pc \in {"release", "unpause"} /\ r \in Alive
      /\ UNCHANGED <<migrations, ddlLog, tables>>
  BY DEF ReleaseLock, ResumeScheduler, At, catalog, pgtrickle, Alive
<1>2. PICK new :
        /\ run' = [run EXCEPT ![r] = new]
        /\ \/ new = [run[r] EXCEPT !.locked = FALSE, !.pc = "unpause"]
           \/ new = [run[r] EXCEPT !.pc = "finish", !.schedulerPaused = FALSE,
                                   !.heartbeat = FALSE]
  BY DEF ReleaseLock, ResumeScheduler
<1>3. SameWork(run[r], new) /\ new.outcome = run[r].outcome /\ new.pc \in WayOut
  BY <1>2, RunsAreFunctions DEF CheckInv, AloneInv, PauseInv, RunState, SameWork
<1>4. run[r].outcome # "interrupted"
  BY <1>1, CourseOf DEF OnCourse
<1> QED
  BY <1>1, <1>2, <1>3, <1>4, MoveOut

(* The head of the loop: on to the next step, past a step that is behind   *)
(* the resume point, or into a step that is not.                           *)
LEMMA MoveAtHead ==
  ASSUME CheckInv, TypeInv', OnePlan, NEW r \in Alive, NEW new,
         run' = [run EXCEPT ![r] = new], SameWork(run[r], new),
         new.outcome = run[r].outcome,
         \/ /\ run[r].pc = "head" /\ new.pc = "head" /\ new.step = run[r].step + 1
            /\ run[r].step < run[r].resumeFrom
         \/ /\ run[r].pc = "head" /\ new.pc = "exec" /\ new.step = run[r].step
            /\ new.step > 0 => new.step >= run[r].resumeFrom
         \/ run[r].pc = "check" /\ new.pc = "head" /\ new.step = run[r].step + 1,
         UNCHANGED <<migrations, ddlLog, tables>>
  PROVE  CheckpointInv'
<1>1. /\ r \in Run /\ TypeInv /\ OnCourse(r) /\ run[r].plan = ThePlan
      /\ run[r].step \in Nat /\ run[r].resumeFrom \in Nat /\ SharedInv
  BY CourseOf DEF SharedInv
<1>2. SharedInv' /\ LatestUnfinished' = LatestUnfinished
  BY <1>1, SharedKept
<1>3. run'[r] = new
  BY <1>1, RunsAreFunctions
<1>4. run'[r].plan = ThePlan /\ run'[r].outcome # "interrupted"
  BY <1>1, <1>3 DEF SameWork, OnCourse
<1>5. KnowsMigration(r)'
  BY <1>1, <1>2, <1>3 DEF OnCourse, KnowsMigration, SameWork
<1>6. StaysAhead(r)'
  <2>1. migrations[run[r].migration].progress \in Nat
    <3>1. run[r].migration \in LatestUnfinished
      BY <1>1 DEF OnCourse, KnowsMigration
    <3> QED
      BY <1>1, <3>1, UnfinishedIsRow, MigrationRows
  <2>2. PICK progress \in Nat : progress = migrations[run[r].migration].progress
    BY <2>1
  <2>3. \/ progress = 0
        \/ progress < run[r].resumeFrom
        \/ progress < run[r].step
        \/ progress = run[r].step /\ run[r].pc = "check"
    BY <1>1, <2>2 DEF OnCourse, StaysAhead
  <2>4. progress = 0 \/ progress < new.resumeFrom \/ progress < new.step
    BY <1>1, <2>2, <2>3 DEF SameWork
  <2>5. migrations'[new.migration].progress = progress
    BY <2>2 DEF SameWork
  <2>6. new.pc \in InStep /\ new.step > 0 => new.step >= new.resumeFrom
    BY DEF SameWork
  <2> QED
    BY <1>3, <2>4, <2>5, <2>6 DEF StaysAhead
<1>7. KnowsPending(r)'
  BY <1>1, <1>3 DEF OnCourse, KnowsPending, SameWork, CreateRunning
<1>8. DoneSoFar(r)'
  <2>1. SUFFICES ASSUME NEW i \in DOMAIN ThePlan, LastOnItsTable(ThePlan, i), Behind(r, i)'
                 PROVE  InEffect(ThePlan[i])'
    BY <1>3 DEF DoneSoFar
  <2>2. i \in Nat
    BY ThePlanGood
  <2>3. i <= new.resumeFrom \/ i <= new.step
    BY <1>3, <2>1 DEF Behind
  <2>4. Behind(r, i)
    BY <1>1, <2>2, <2>3 DEF Behind, SameWork
  <2>5. InEffect(ThePlan[i])
    BY <1>1, <2>1, <2>4 DEF OnCourse, DoneSoFar
  <2> QED
    BY <2>5 DEF InEffect
<1>9. OnCourse(r)'
  BY <1>4, <1>5, <1>6, <1>7, <1>8 DEF OnCourse
<1> QED
  BY <1>1, <1>2, <1>9, ActsAlone, AliveAlone

LEMMA HeadMoves ==
  ASSUME CheckInv, TypeInv', OnePlan, NEW r \in Run, NextStep(r)
  PROVE  CheckpointInv'
<1>1. run[r].pc = "head" /\ r \in Alive /\ UNCHANGED <<migrations, ddlLog, tables>>
  BY DEF NextStep, At, catalog, pgtrickle, Alive
<1>2. /\ run[r].step \in Nat /\ run[r].resumeFrom \in Nat
      /\ run[r].args.forceRetry = None /\ run[r].args.forceSkip = None
  BY <1>1, CourseOf
<1>3. None # run[r].step
  BY <1>2, NothingAssumption
<1>4. CASE run[r].step = Len(run[r].plan)
  BY <1>1, <1>4, FailMoves DEF NextStep
<1>5. CASE run[r].step # Len(run[r].plan) /\ Skips(r)
  <2> DEFINE new == [run[r] EXCEPT !.step = run[r].step + 1]
  <2>1. run' = [run EXCEPT ![r] = new]
    BY <1>5 DEF NextStep, StepAfter
  <2>2. /\ SameWork(run[r], new) /\ new.outcome = run[r].outcome /\ new.pc = run[r].pc
        /\ new.step = run[r].step + 1
    BY RunsAreFunctions DEF CheckInv, AloneInv, PauseInv, RunState, SameWork
  <2>3. run[r].step < run[r].resumeFrom
    BY <1>2, <1>3, <1>5 DEF Skips, AlreadyDone
  <2> HIDE DEF new
  <2> QED
    BY <1>1, <2>1, <2>2, <2>3, MoveAtHead
<1>6. CASE /\ run[r].step # Len(run[r].plan) /\ ~Skips(r) /\ run[r].lockLost
  BY <1>1, <1>6, FailMoves DEF NextStep
<1>7. CASE /\ run[r].step # Len(run[r].plan) /\ ~Skips(r) /\ ~run[r].lockLost
  <2> DEFINE new == [run[r] EXCEPT !.pc = "exec"]
  <2>1. run' = [run EXCEPT ![r] = new]
    BY <1>7 DEF NextStep, Goto
  <2>2. /\ SameWork(run[r], new) /\ new.outcome = run[r].outcome /\ new.pc = "exec"
        /\ new.step = run[r].step
    BY RunsAreFunctions DEF CheckInv, AloneInv, PauseInv, RunState, SameWork
  <2>3. run[r].step > 0 => CurrentStep(r).op # "LockDag"
    BY <1>1, <1>7, PlanShape DEF CheckInv, AloneInv, PauseInv
  <2>4. run[r].step > 0 => run[r].step >= run[r].resumeFrom
    BY <1>2, <1>3, <1>7, <2>3 DEF Skips, AlreadyDone
  <2> HIDE DEF new
  <2> QED
    BY <1>1, <2>1, <2>2, <2>4, MoveAtHead
<1> QED
  BY <1>4, <1>5, <1>6, <1>7

(* After a step, and when a statement of it fails.                         *)
LEMMA CheckMoves ==
  ASSUME CheckInv, TypeInv', OnePlan, "failover" \notin Faults, NEW r \in Run,
         CheckAfterStep(r) \/ StepFails(r)
  PROVE  CheckpointInv'
<1>1. run[r].pc \in Loop /\ UNCHANGED <<migrations, ddlLog, tables>>
  BY DEF CheckAfterStep, StepFails, At, AtStep, catalog, pgtrickle, Loop
<1>2. CASE Fail(r, "failed")
  BY <1>1, <1>2, FailMoves
<1>3. CASE ~Fail(r, "failed")
  <2> DEFINE new == [run[r] EXCEPT !.pc = "head", !.step = run[r].step + 1]
  <2>1. run[r].pc = "check" /\ run' = [run EXCEPT ![r] = new] /\ r \in Alive
    BY <1>3 DEF CheckAfterStep, StepFails, StepAfter, At, Demoted, Alive
  <2>2. /\ SameWork(run[r], new) /\ new.outcome = run[r].outcome /\ new.pc = "head"
        /\ new.step = run[r].step + 1
    BY RunsAreFunctions DEF CheckInv, AloneInv, PauseInv, RunState, SameWork
  <2> HIDE DEF new
  <2> QED
    BY <1>1, <2>1, <2>2, MoveAtHead
<1> QED
  BY <1>2, <1>3

-----------------------------------------------------------------------------
(* The compensation log.                                                   *)

LEMMA LogRows ==
  ASSUME TypeInv
  PROVE  /\ ddlLog \in Seq(DdlRow) /\ Len(ddlLog) \in Nat
         /\ DOMAIN ddlLog = 1 .. Len(ddlLog)
BY LenProperties DEF TypeInv, TypeOK

(* A create is logged before it is executed, and the checkpoint of its     *)
(* migration is still short of it.                                         *)
LEMMA CreateLogged ==
  ASSUME CheckInv, TypeInv', OnePlan, "bestEffort" \notin Faults, NEW r \in Run,
         LogCreate(r)
  PROVE  CheckpointInv'
<1> DEFINE new == [run[r] EXCEPT !.pc = "ddl"]
<1>1. /\ run[r].pc = "exec" /\ r \in Alive /\ run[r].step < Len(run[r].plan)
      /\ CurrentStep(r).op = "CreateStreamTable"
      /\ run' = [run EXCEPT ![r] = new]
      /\ ddlLog' = Append(ddlLog, LogRow(r, "CREATE_STREAM_TABLE"))
      /\ UNCHANGED <<migrations, tables>>
  BY DEF LogCreate, Logged, BestEffortFails, AtStep, Goto, pgtrickle, Alive
<1>2. /\ TypeInv /\ OnCourse(r) /\ run[r].plan = ThePlan
      /\ run[r].step \in Nat /\ run[r].resumeFrom \in Nat /\ SharedInv
  BY <1>1, CourseOf DEF SharedInv
<1>3. /\ SameWork(run[r], new) /\ new.outcome = run[r].outcome /\ new.pc = "ddl"
      /\ new.step = run[r].step
  BY <1>2, RunsAreFunctions DEF RunState, SameWork
<1> HIDE DEF new
<1>4. run'[r] = new
  BY <1>1, <1>2, RunsAreFunctions
<1>5. PICK m : m = run[r].migration
  OBVIOUS
<1>6. PICK t : t = CurrentStep(r).table
  OBVIOUS
<1>7. PICK n : n = Len(ddlLog)
  OBVIOUS
<1>8. /\ LatestUnfinished = {m} /\ m \in DOMAIN migrations
      /\ migrations[m].progress \in Nat
  <2>1. LatestUnfinished = {m}
    BY <1>1, <1>2, <1>5 DEF OnCourse, KnowsMigration
  <2> QED
    BY <1>2, <2>1, UnfinishedIsRow, MigrationRows
<1>9. /\ DOMAIN ddlLog = 1 .. n /\ n \in Nat /\ DOMAIN ddlLog' = 1 .. n + 1
      /\ ddlLog'[n + 1].migration = m /\ ddlLog'[n + 1].table = t
      /\ \A l \in 1 .. n : ddlLog'[l] = ddlLog[l]
  BY <1>1, <1>2, <1>5, <1>6, <1>7, LogRows DEF LogRow
<1>10. \A l \in DOMAIN ddlLog' : l = n + 1 \/ l \in DOMAIN ddlLog
  BY <1>9
<1>11. AheadOf(m, t)
  <2>1. run[r].step > 0
    BY <1>1, <1>2, PlanShape
  <2>2. run[r].step >= run[r].resumeFrom
    BY <1>1, <1>2, <2>1 DEF OnCourse, StaysAhead
  <2>3. PICK progress \in Nat : progress = migrations[m].progress
    BY <1>8
  <2>4. progress = 0 \/ progress < run[r].resumeFrom \/ progress < run[r].step
    BY <1>1, <1>2, <1>5, <2>3 DEF OnCourse, StaysAhead
  <2>5. PICK i : i = run[r].step + 1
    OBVIOUS
  <2>6. i \in Nat /\ i > progress + 1
    BY <1>2, <2>1, <2>2, <2>3, <2>4, <2>5
  <2>7. i \in DOMAIN ThePlan
    BY <1>1, <1>2, <2>5, ThePlanGood
  <2>8. ThePlan[i].op = "CreateStreamTable" /\ ThePlan[i].table = t
    BY <1>1, <1>2, <1>6, <2>5 DEF CurrentStep
  <2> QED
    BY <2>3, <2>6, <2>7, <2>8 DEF AheadOf
<1>12. UndoneIsAhead'
  <2>1. SUFFICES ASSUME NEW l \in DOMAIN ddlLog', CreateRunning(l)'
                 PROVE  /\ ddlLog'[l].migration \in DOMAIN migrations
                        /\ AheadOf(ddlLog'[l].migration, ddlLog'[l].table)
    BY <1>1 DEF UndoneIsAhead, AheadOf
  <2>2. CASE l = n + 1
    BY <1>8, <1>9, <1>11, <2>2
  <2>3. CASE l # n + 1
    <3>1. l \in DOMAIN ddlLog /\ ddlLog'[l] = ddlLog[l]
      BY <1>9, <1>10, <2>3
    <3>2. CreateRunning(l)
      BY <2>1, <3>1 DEF CreateRunning
    <3> QED
      BY <1>2, <3>1, <3>2 DEF SharedInv, UndoneIsAhead
  <2> QED
    BY <2>2, <2>3
<1>13. RowsOfThePlan' /\ CheckpointIsDone' /\ LatestUnfinished' = LatestUnfinished
  BY <1>1, <1>2
  DEF SharedInv, RowsOfThePlan, CheckpointIsDone, LatestUnfinished, Latest, InEffect
<1>14. KnowsMigration(r)'
  BY <1>1, <1>2, <1>3, <1>4, <1>13 DEF OnCourse, KnowsMigration, SameWork
<1>15. StaysAhead(r)'
  BY <1>1, <1>2, <1>3, <1>4 DEF OnCourse, StaysAhead, SameWork
<1>16. KnowsPending(r)'
  <2>1. CurrentStep(r)'.table = t
    BY <1>3, <1>4, <1>6 DEF CurrentStep, SameWork
  <2>2. SUFFICES ASSUME NEW l \in DOMAIN ddlLog', CreateRunning(l)',
                        ddlLog'[l].migration = m
                 PROVE  ddlLog'[l].table = t
    BY <1>3, <1>4, <1>5, <2>1 DEF KnowsPending, SameWork
  <2>3. l = n + 1
    <3>1. SUFFICES ASSUME l \in DOMAIN ddlLog PROVE FALSE
      BY <1>10
    <3>2. ddlLog'[l] = ddlLog[l]
      BY <1>9, <3>1
    <3>3. CreateRunning(l) /\ ddlLog[l].migration = run[r].migration
      BY <1>5, <2>2, <3>2 DEF CreateRunning
    <3> QED
      BY <1>1, <1>2, <3>1, <3>3 DEF OnCourse, KnowsPending
  <2> QED
    BY <1>9, <2>3
<1>17. DoneSoFar(r)'
  <2>1. \A i \in DOMAIN ThePlan : Behind(r, i)' => Behind(r, i)
    BY <1>3, <1>4 DEF Behind, SameWork
  <2>2. \A i \in DOMAIN ThePlan :
          LastOnItsTable(ThePlan, i) /\ Behind(r, i) => InEffect(ThePlan[i])
    BY <1>1, <1>2 DEF OnCourse, DoneSoFar
  <2> QED
    BY <1>1, <1>3, <1>4, <2>1, <2>2 DEF DoneSoFar, InEffect
<1>18. OnCourse(r)'
  BY <1>2, <1>3, <1>4, <1>14, <1>15, <1>16, <1>17 DEF OnCourse, SameWork
<1> QED
  BY <1>1, <1>2, <1>12, <1>13, <1>18, ActsAlone, AliveAlone DEF SharedInv

(* Once it is recorded as complete there is nothing left to undo.          *)
LEMMA CompleteMoves ==
  ASSUME CheckInv, TypeInv', OnePlan, "bestEffort" \notin Faults, NEW r \in Run,
         CompleteLog(r)
  PROVE  CheckpointInv'
<1> DEFINE new == [run[r] EXCEPT !.pc = "own"]
<1>1. /\ run[r].pc = "complete" /\ r \in Alive
      /\ run' = [run EXCEPT ![r] = new]
      /\ ddlLog' = CompletedLog(run[r].migration, CurrentStep(r).table)
      /\ UNCHANGED <<migrations, tables>>
  BY DEF CompleteLog, BestEffortFails, At, Goto, pgtrickle, Alive
<1>2. /\ TypeInv /\ OnCourse(r) /\ run[r].plan = ThePlan
      /\ run[r].step \in Nat /\ run[r].resumeFrom \in Nat /\ SharedInv
  BY <1>1, CourseOf DEF SharedInv
<1>3. /\ SameWork(run[r], new) /\ new.outcome = run[r].outcome /\ new.pc = "own"
      /\ new.step = run[r].step
  BY <1>2, RunsAreFunctions DEF RunState, SameWork
<1> HIDE DEF new
<1>4. run'[r] = new
  BY <1>1, <1>2, RunsAreFunctions
<1>5. \A l \in DOMAIN ddlLog' : CreateRunning(l)' =>
        /\ l \in DOMAIN ddlLog /\ ddlLog'[l] = ddlLog[l]
        /\ ddlLog[l].migration # run[r].migration
  <2>1. SUFFICES ASSUME NEW l \in DOMAIN ddlLog', CreateRunning(l)'
                 PROVE  /\ l \in DOMAIN ddlLog /\ ddlLog'[l] = ddlLog[l]
                        /\ ddlLog[l].migration # run[r].migration
    OBVIOUS
  <2>2. l \in DOMAIN ddlLog
    BY <1>1 DEF CompletedLog
  <2>3. ddlLog[l] \in DdlRow
    BY <1>2, <2>2, LogRows, ElementOfSeq
  <2>4. ~(l \in PendingSteps(run[r].migration) /\ ddlLog[l].table = CurrentStep(r).table)
    <3>1. SUFFICES ASSUME l \in PendingSteps(run[r].migration),
                          ddlLog[l].table = CurrentStep(r).table
                   PROVE  FALSE
      OBVIOUS
    <3>2. ddlLog'[l] = [ddlLog[l] EXCEPT !.status = "completed"]
      BY <1>1, <2>2, <3>1 DEF CompletedLog
    <3>3. ddlLog'[l].status = "completed"
      BY <2>3, <3>2 DEF DdlRow
    <3> QED
      BY <2>1, <3>3 DEF CreateRunning
  <2>5. ddlLog'[l] = ddlLog[l]
    BY <1>1, <2>2, <2>4 DEF CompletedLog
  <2>6. CreateRunning(l)
    BY <2>1, <2>5 DEF CreateRunning
  <2>7. ASSUME ddlLog[l].migration = run[r].migration PROVE FALSE
    <3>1. ddlLog[l].table = CurrentStep(r).table
      BY <1>1, <1>2, <2>2, <2>6, <2>7 DEF OnCourse, KnowsPending
    <3> QED
      BY <2>2, <2>4, <2>6, <2>7, <3>1 DEF PendingSteps, CreateRunning
  <2> QED
    BY <2>2, <2>5, <2>7
<1>6. SharedInv' /\ LatestUnfinished' = LatestUnfinished
  BY <1>1, <1>2, <1>5, SharedLog DEF NoNewUndone
<1>7. KnowsMigration(r)'
  BY <1>1, <1>2, <1>3, <1>4, <1>6 DEF OnCourse, KnowsMigration, SameWork
<1>8. StaysAhead(r)'
  BY <1>1, <1>2, <1>3, <1>4 DEF OnCourse, StaysAhead, SameWork
<1>9. KnowsPending(r)'
  BY <1>3, <1>4, <1>5 DEF KnowsPending, SameWork
<1>10. DoneSoFar(r)'
  <2>1. \A i \in DOMAIN ThePlan : Behind(r, i)' => Behind(r, i)
    BY <1>1, <1>3, <1>4 DEF Behind, SameWork
  <2>2. \A i \in DOMAIN ThePlan :
          LastOnItsTable(ThePlan, i) /\ Behind(r, i) => InEffect(ThePlan[i])
    BY <1>1, <1>2 DEF OnCourse, DoneSoFar
  <2> QED
    BY <1>1, <1>3, <1>4, <2>1, <2>2 DEF DoneSoFar, InEffect
<1>11. OnCourse(r)'
  BY <1>2, <1>3, <1>4, <1>7, <1>8, <1>9, <1>10 DEF OnCourse, SameWork
<1> QED
  BY <1>1, <1>2, <1>6, <1>11, ActsAlone, AliveAlone

-----------------------------------------------------------------------------
(* Before the loop: find_resume_step and the compensation.                 *)

LEMMA CourseBefore ==
  ASSUME NEW r \in Run, run'[r].plan = ThePlan, run'[r].outcome # "interrupted",
         run'[r].pc \in BeforeLoop, KnowsMigration(r)', KnowsPending(r)'
  PROVE  OnCourse(r)'
<1>1. StaysAhead(r)' /\ DoneSoFar(r)'
  BY DEF StaysAhead, DoneSoFar
<1> QED
  BY <1>1 DEF OnCourse

LEMMA FindMoves ==
  ASSUME CheckInv, TypeInv', OnePlan, NEW r \in Run,
         FindResumeStep(r) \/ FindPendingSteps(r) \/ AllCompensated(r)
  PROVE  CheckpointInv'
<1>1. /\ run[r].pc \in {"find", "pending", "compensate"} /\ r \in Alive
      /\ UNCHANGED <<migrations, ddlLog, tables>>
  BY DEF FindResumeStep, FindPendingSteps, AllCompensated, At, catalog, pgtrickle, Alive
<1>2. /\ TypeInv /\ OnCourse(r) /\ run[r].plan = ThePlan
      /\ run[r].step \in Nat /\ run[r].resumeFrom \in Nat /\ SharedInv
      /\ run[r].args.resume
  BY <1>1, CourseOf DEF SharedInv, CheckInv, ArgsMatchPc, Resuming
<1>3. SharedInv' /\ LatestUnfinished' = LatestUnfinished
  BY <1>1, <1>2, SharedKept
<1>4. CASE FindResumeStep(r) /\ LatestUnfinished # {}
  <2>1. PICK m \in LatestUnfinished :
          run' = [run EXCEPT ![r].pc = "pending", ![r].migration = m,
                             ![r].resumeFrom = ResumePoint(m)]
    <3>1. LatestUnfinished # {}
      BY <1>4
    <3> QED
      BY <1>4, <3>1 DEF FindResumeStep
  <2>2. LatestUnfinished = {m} /\ ResumePoint(m) \in Nat /\ ResumePoint(m) > 0
    BY <1>2, UnfinishedIsRow, MigrationRows DEF ResumePoint
  <2>3. ResumePoint(m)' = ResumePoint(m)
    BY <1>1 DEF ResumePoint
  <2>4. PICK from \in Nat : from = ResumePoint(m)
    BY <2>2
  <2> DEFINE new == [run[r] EXCEPT !.pc = "pending", !.migration = m, !.resumeFrom = from]
  <2>5. run' = [run EXCEPT ![r] = new]
    BY <2>1, <2>4
  <2>6. /\ new.pc = "pending" /\ new.migration = m /\ new.resumeFrom = from
        /\ new.plan = run[r].plan /\ new.args = run[r].args
        /\ new.outcome = run[r].outcome
    BY <1>2, RunsAreFunctions DEF RunState
  <2> HIDE DEF new
  <2>7. run'[r] = new
    BY <1>2, <2>5, RunsAreFunctions
  <2>8. KnowsMigration(r)' /\ KnowsPending(r)'
    BY <1>2, <1>3, <2>2, <2>3, <2>4, <2>6, <2>7 DEF KnowsMigration, KnowsPending
  <2>9. OnCourse(r)'
    BY <1>2, <2>6, <2>7, <2>8, CourseBefore DEF OnCourse
  <2> QED
    BY <1>1, <1>2, <1>3, <2>5, <2>9, ActsAlone, AliveAlone
<1>5. CASE FindResumeStep(r) /\ LatestUnfinished = {}
  <2> DEFINE new == [run[r] EXCEPT !.pc = "start"]
  <2>1. run' = [run EXCEPT ![r] = new]
    BY <1>5 DEF FindResumeStep, Goto
  <2>2. /\ new.pc = "start" /\ new.resumeFrom = run[r].resumeFrom
        /\ new.plan = run[r].plan /\ new.args = run[r].args
        /\ new.outcome = run[r].outcome
    BY <1>2, RunsAreFunctions DEF RunState
  <2> HIDE DEF new
  <2>3. run'[r] = new
    BY <1>2, <2>1, RunsAreFunctions
  <2>4. run[r].resumeFrom = 0
    BY <1>2, <1>5 DEF OnCourse, KnowsMigration, FindResumeStep, At
  <2>5. KnowsMigration(r)' /\ KnowsPending(r)'
    BY <2>2, <2>3, <2>4 DEF KnowsMigration, KnowsPending
  <2>6. OnCourse(r)'
    BY <1>2, <2>2, <2>3, <2>5, CourseBefore DEF OnCourse
  <2> QED
    BY <1>1, <1>2, <1>3, <2>1, <2>6, ActsAlone, AliveAlone
<1>6. CASE FindPendingSteps(r)
  <2>1. PICK pending : pending = PendingSteps(run[r].migration)
    OBVIOUS
  <2> DEFINE new == [run[r] EXCEPT !.pc = "compensate", !.pending = pending]
  <2>2. run' = [run EXCEPT ![r] = new] /\ run[r].pc = "pending"
    BY <1>6, <2>1 DEF FindPendingSteps, At
  <2>3. /\ new.pc = "compensate" /\ new.resumeFrom = run[r].resumeFrom
        /\ new.plan = run[r].plan /\ new.args = run[r].args
        /\ new.migration = run[r].migration /\ new.pending = pending
        /\ new.outcome = run[r].outcome
    BY <1>2, RunsAreFunctions DEF RunState
  <2> HIDE DEF new
  <2>4. run'[r] = new
    BY <1>2, <2>2, RunsAreFunctions
  <2>5. KnowsMigration(r)'
    BY <1>1, <1>2, <1>3, <2>2, <2>3, <2>4 DEF OnCourse, KnowsMigration, ResumePoint
  <2>6. PICK m : m = run[r].migration
    OBVIOUS
  <2>7. KnowsPending(r)'
    <3>1. run'[r].migration = m /\ run'[r].pending = pending /\ run'[r].pc = "compensate"
      BY <2>3, <2>4, <2>6
    <3>2. PendingSteps(run[r].migration)' = {i \in DOMAIN ddlLog :
            ddlLog[i].migration = m /\ ddlLog[i].status = "running"}
      BY <1>1, <3>1 DEF PendingSteps
    <3>3. pending = {i \in DOMAIN ddlLog :
            ddlLog[i].migration = m /\ ddlLog[i].status = "running"}
      BY <2>1, <2>6 DEF PendingSteps
    <3> QED
      BY <3>1, <3>2, <3>3 DEF KnowsPending
  <2>8. OnCourse(r)'
    BY <1>2, <2>3, <2>4, <2>5, <2>7, CourseBefore DEF OnCourse
  <2> QED
    BY <1>1, <1>2, <1>3, <2>2, <2>8, ActsAlone, AliveAlone
<1>7. CASE AllCompensated(r)
  <2> DEFINE new == [run[r] EXCEPT !.pc = "start"]
  <2>1. run' = [run EXCEPT ![r] = new] /\ run[r].pc = "compensate" /\ run[r].pending = {}
    BY <1>7 DEF AllCompensated, Goto, At
  <2>2. /\ new.pc = "start" /\ new.resumeFrom = run[r].resumeFrom
        /\ new.plan = run[r].plan /\ new.args = run[r].args
        /\ new.migration = run[r].migration /\ new.outcome = run[r].outcome
    BY <1>2, RunsAreFunctions DEF RunState
  <2> HIDE DEF new
  <2>3. run'[r] = new
    BY <1>2, <2>1, RunsAreFunctions
  <2>4. KnowsMigration(r)'
    BY <1>1, <1>2, <1>3, <2>1, <2>2, <2>3 DEF OnCourse, KnowsMigration, ResumePoint
  <2>5. \A l \in DOMAIN ddlLog : CreateRunning(l) => ddlLog[l].migration # run[r].migration
    BY <1>2, <2>1 DEF OnCourse, KnowsPending, PendingSteps, CreateRunning
  <2>6. KnowsPending(r)'
    BY <1>1, <2>2, <2>3, <2>5 DEF KnowsPending, CreateRunning
  <2>7. OnCourse(r)'
    BY <1>2, <2>2, <2>3, <2>4, <2>6, CourseBefore DEF OnCourse
  <2> QED
    BY <1>1, <1>2, <1>3, <2>1, <2>7, ActsAlone, AliveAlone
<1> QED
  BY <1>4, <1>5, <1>6, <1>7

(* A drop that undoes a create takes nothing back that the checkpoint      *)
(* covers: the table is one that a step ahead of the checkpoint creates.   *)
LEMMA UndoneKeepsCheckpoint ==
  ASSUME TypeInv, TypeInv', OnePlan, SharedInv, NEW m, LatestUnfinished = {m},
         NEW t, AheadOf(m, t),
         \A u \in Table : u # t => tables'[u] = tables[u], UNCHANGED migrations
  PROVE  CheckpointIsDone'
<1>1. m \in LatestUnfinished
  OBVIOUS
<1>2. m \in DOMAIN migrations /\ migrations[m].progress \in Nat
  BY <1>1, UnfinishedIsRow, MigrationRows
<1>3. migrations[m].plan = ThePlan
  BY <1>2 DEF SharedInv, RowsOfThePlan
<1>4. LatestUnfinished' = {m}
  BY DEF LatestUnfinished, Latest
<1>5. SUFFICES ASSUME NEW i \in DOMAIN ThePlan, i <= migrations[m].progress + 1,
                      LastOnItsTable(ThePlan, i)
               PROVE  InEffect(ThePlan[i])'
  BY <1>3, <1>4 DEF CheckpointIsDone
<1>6. InEffect(ThePlan[i])
  BY <1>1, <1>3, <1>5 DEF SharedInv, CheckpointIsDone
<1>7. CASE ThePlan[i].op \notin TableWrite
  BY <1>7 DEF InEffect, TableWrite
<1>8. CASE ThePlan[i].op \in TableWrite
  <2>1. PICK j \in DOMAIN ThePlan :
          /\ j > migrations[m].progress + 1
          /\ ThePlan[j].op = "CreateStreamTable" /\ ThePlan[j].table = t
    BY DEF AheadOf
  <2>2. j > i
    BY <1>2, <1>5, <2>1, ThePlanGood
  <2>3. ThePlan[i].table # t
    BY <1>5, <2>1, <2>2 DEF LastOnItsTable
  <2>4. ThePlan[i].table \in Table
    BY <1>5, <1>8, ThePlanGood
  <2>5. PICK step : step = ThePlan[i]
    OBVIOUS
  <2>6. step.op \in TableWrite => step.table \in Table
    BY <2>4, <2>5
  <2>7. Fits(tables[step.table], step)
    BY <1>6, <2>5, <2>6, InEffectFits
  <2>8. Fits(tables'[step.table], step)
    BY <2>3, <2>4, <2>5, <2>7
  <2>9. InEffect(step)'
    BY <2>6, <2>8, InEffectFitsNext
  <2> QED
    BY <2>5, <2>9 DEF InEffect
<1> QED
  BY <1>7, <1>8

LEMMA CompensateMoves ==
  ASSUME CheckInv, TypeInv', OnePlan, "bestEffort" \notin Faults, NEW r \in Run,
         Compensate(r)
  PROVE  CheckpointInv'
<1> DEFINE new == [run[r] EXCEPT !.pc = "mark"]
<1>1. /\ run[r].pc = "compensate" /\ r \in Alive
      /\ run' = [run EXCEPT ![r] = new]
      /\ UNCHANGED <<migrations, ddlLog>>
  BY DEF Compensate, At, Goto, catalog, Alive
<1>2. /\ TypeInv /\ OnCourse(r) /\ run[r].plan = ThePlan
      /\ run[r].step \in Nat /\ run[r].resumeFrom \in Nat /\ SharedInv
  BY <1>1, CourseOf DEF SharedInv
<1>3. /\ new.pc = "mark" /\ new.resumeFrom = run[r].resumeFrom
      /\ new.plan = run[r].plan /\ new.args = run[r].args
      /\ new.migration = run[r].migration /\ new.pending = run[r].pending
      /\ new.outcome = run[r].outcome
  BY <1>2, RunsAreFunctions DEF RunState
<1> HIDE DEF new
<1>4. run'[r] = new
  BY <1>1, <1>2, RunsAreFunctions
<1>5. PICK m : m = run[r].migration
  OBVIOUS
<1>6. LatestUnfinished = {m} /\ run[r].pending = PendingSteps(m)
  BY <1>1, <1>2, <1>5 DEF OnCourse, KnowsMigration, KnowsPending
<1>7. LatestUnfinished' = LatestUnfinished
  BY <1>1 DEF LatestUnfinished, Latest
<1>8. CheckpointIsDone'
  <2>1. PICK l \in Latest(run[r].pending) :
          \/ /\ ddlLog[l].op = "CREATE_STREAM_TABLE"
             /\ tables' = DropTable(tables, ddlLog[l].table)
          \/ UNCHANGED tables
    BY DEF Compensate
  <2>2. CASE UNCHANGED tables
    BY <1>1, <1>2, <2>2, SharedKept DEF SharedInv
  <2>3. CASE /\ ddlLog[l].op = "CREATE_STREAM_TABLE"
             /\ tables' = DropTable(tables, ddlLog[l].table)
    <3>1. l \in PendingSteps(m)
      BY <1>6, <2>1 DEF Latest
    <3>2. l \in DOMAIN ddlLog /\ CreateRunning(l) /\ ddlLog[l].migration = m
      BY <2>3, <3>1 DEF PendingSteps, CreateRunning
    <3>3. AheadOf(m, ddlLog[l].table)
      BY <1>2, <3>2 DEF SharedInv, UndoneIsAhead
    <3>4. PICK t : t = ddlLog[l].table
      OBVIOUS
    <3>5. \A u \in Table : u # t => tables'[u] = tables[u]
      BY <1>2, <2>3, <3>4 DEF DropTable, TypeInv, TypeOK, DagState
    <3> QED
      BY <1>1, <1>2, <1>6, <3>3, <3>4, <3>5, UndoneKeepsCheckpoint
  <2> QED
    BY <2>1, <2>2, <2>3
<1>9. SharedInv'
  BY <1>1, <1>2, <1>8
  DEF SharedInv, RowsOfThePlan, UndoneIsAhead, CreateRunning, AheadOf
<1>10. KnowsMigration(r)'
  BY <1>1, <1>2, <1>3, <1>4, <1>7 DEF OnCourse, KnowsMigration, ResumePoint
<1>11. KnowsPending(r)'
  BY <1>1, <1>2, <1>3, <1>4 DEF OnCourse, KnowsPending, PendingSteps
<1>12. OnCourse(r)'
  BY <1>2, <1>3, <1>4, <1>10, <1>11, CourseBefore DEF OnCourse
<1> QED
  BY <1>1, <1>2, <1>9, <1>12, ActsAlone, AliveAlone

LEMMA MarkMoves ==
  ASSUME CheckInv, TypeInv', OnePlan, "bestEffort" \notin Faults, NEW r \in Run,
         MarkCompensated(r)
  PROVE  CheckpointInv'
<1>1. /\ run[r].pc = "mark" /\ r \in Alive
      /\ UNCHANGED <<migrations, tables>>
  BY DEF MarkCompensated, At, pgtrickle, Alive
<1>2. /\ TypeInv /\ OnCourse(r) /\ run[r].plan = ThePlan
      /\ run[r].step \in Nat /\ run[r].resumeFrom \in Nat /\ SharedInv
  BY <1>1, CourseOf DEF SharedInv
<1>3. PICK l \in Latest(run[r].pending) :
        /\ ddlLog' = [ddlLog EXCEPT ![l].status = "compensated"]
        /\ run' = [run EXCEPT ![r].pc = "compensate", ![r].pending = @ \ {l}]
  BY DEF MarkCompensated, BestEffortFails
<1>4. PICK pending : pending = run[r].pending \ {l}
  OBVIOUS
<1> DEFINE new == [run[r] EXCEPT !.pc = "compensate", !.pending = pending]
<1>5. run' = [run EXCEPT ![r] = new]
  BY <1>3, <1>4
<1>6. /\ new.pc = "compensate" /\ new.resumeFrom = run[r].resumeFrom
      /\ new.plan = run[r].plan /\ new.args = run[r].args
      /\ new.migration = run[r].migration /\ new.pending = pending
      /\ new.outcome = run[r].outcome
  BY <1>2, RunsAreFunctions DEF RunState
<1> HIDE DEF new
<1>7. run'[r] = new
  BY <1>2, <1>5, RunsAreFunctions
<1>8. PICK m : m = run[r].migration
  OBVIOUS
<1>9. run[r].pending = PendingSteps(m)
  BY <1>1, <1>2, <1>8 DEF OnCourse, KnowsPending
<1>10. l \in DOMAIN ddlLog /\ l \in pending \cup {l} /\ ddlLog[l] \in DdlRow
  BY <1>2, <1>3, <1>9, LogRows, ElementOfSeq DEF Latest, PendingSteps
<1>11. /\ DOMAIN ddlLog' = DOMAIN ddlLog
       /\ ddlLog'[l].status = "compensated"
       /\ \A k \in DOMAIN ddlLog : k # l => ddlLog'[k] = ddlLog[k]
  BY <1>3, <1>10 DEF DdlRow
<1>12. NoNewUndone
  BY <1>11 DEF NoNewUndone, CreateRunning
<1>13. SharedInv' /\ LatestUnfinished' = LatestUnfinished
  BY <1>1, <1>2, <1>12, SharedLog
<1>14. KnowsMigration(r)'
  BY <1>1, <1>2, <1>6, <1>7, <1>13 DEF OnCourse, KnowsMigration, ResumePoint
<1>15. KnowsPending(r)'
  <2>1. run'[r].migration = m /\ run'[r].pending = pending /\ run'[r].pc = "compensate"
    BY <1>6, <1>7, <1>8
  <2>2. PendingSteps(run[r].migration)' = {k \in DOMAIN ddlLog' :
          ddlLog'[k].migration = m /\ ddlLog'[k].status = "running"}
    BY <2>1 DEF PendingSteps
  <2>3. {k \in DOMAIN ddlLog' : ddlLog'[k].migration = m /\ ddlLog'[k].status = "running"}
          = PendingSteps(m) \ {l}
    BY <1>11 DEF PendingSteps
  <2> QED
    BY <1>4, <1>9, <2>1, <2>2, <2>3 DEF KnowsPending
<1>16. OnCourse(r)'
  BY <1>2, <1>6, <1>7, <1>14, <1>15, CourseBefore DEF OnCourse
<1> QED
  BY <1>1, <1>2, <1>5, <1>13, <1>16, ActsAlone, AliveAlone

-----------------------------------------------------------------------------
(* The statements that change a stream table.                              *)

LEMMA MoveTables ==
  ASSUME CheckInv, TypeInv', OnePlan, NEW r \in Alive, NEW new,
         run' = [run EXCEPT ![r] = new], SameWork(run[r], new),
         new.step = run[r].step, new.outcome = run[r].outcome,
         \/ run[r].pc = "exec" /\ new.pc = "progress"
         \/ run[r].pc = "ddl" /\ new.pc = "complete",
         run[r].step < Len(run[r].plan), CurrentStep(r).op # "LockDag",
         NEW t \in Table, CurrentStep(r).table = t,
         \A u \in Table : u # t => tables'[u] = tables[u],
         CurrentStep(r).op \in TableWrite => Fits(tables'[t], CurrentStep(r)),
         CurrentStep(r).op \notin TableWrite =>
           \A i \in DOMAIN ThePlan :
             /\ ThePlan[i].op \in TableWrite /\ ThePlan[i].table = t
             /\ Fits(tables[t], ThePlan[i])
             => Fits(tables'[t], ThePlan[i]),
         UNCHANGED <<migrations, ddlLog>>
  PROVE  CheckpointInv'
<1>1. /\ r \in Run /\ TypeInv /\ OnCourse(r) /\ run[r].plan = ThePlan
      /\ run[r].step \in Nat /\ run[r].resumeFrom \in Nat /\ SharedInv
  BY CourseOf DEF SharedInv
<1>2. LatestUnfinished' = LatestUnfinished
  BY DEF LatestUnfinished, Latest
<1>3. run'[r] = new
  BY <1>1, RunsAreFunctions
<1>4. run'[r].plan = ThePlan /\ run'[r].outcome # "interrupted"
  BY <1>1, <1>3 DEF SameWork, OnCourse
<1>5. KnowsMigration(r)'
  BY <1>1, <1>2, <1>3 DEF OnCourse, KnowsMigration, SameWork
<1>6. StaysAhead(r)'
  BY <1>1, <1>3 DEF OnCourse, StaysAhead, SameWork
<1>7. KnowsPending(r)'
  <2>1. CurrentStep(r)' = CurrentStep(r)
    BY <1>3 DEF CurrentStep, SameWork
  <2> QED
    BY <1>1, <1>3, <2>1 DEF OnCourse, KnowsPending, SameWork, CreateRunning
<1>8. PICK c : c = run[r].step + 1
  OBVIOUS
<1>9. /\ c \in DOMAIN ThePlan /\ c \in Nat /\ CurrentStep(r) = ThePlan[c]
      /\ run[r].resumeFrom < c
  <2>1. run[r].step > 0
    BY <1>1, PlanShape
  <2>2. run[r].step >= run[r].resumeFrom
    BY <1>1, <2>1 DEF OnCourse, StaysAhead
  <2> QED
    BY <1>1, <1>8, <2>2, ThePlanGood DEF CurrentStep
<1>10. DoneSoFar(r)'
  <2>1. SUFFICES ASSUME NEW i \in DOMAIN ThePlan, LastOnItsTable(ThePlan, i), Behind(r, i)'
                 PROVE  InEffect(ThePlan[i])'
    BY <1>3 DEF DoneSoFar
  <2>2. i \in Nat
    BY ThePlanGood
  <2>3. i = c \/ i < c
    BY <1>1, <1>3, <1>8, <1>9, <2>1, <2>2 DEF Behind, SameWork
  <2>4. CASE ThePlan[i].op \notin TableWrite
    BY <2>4 DEF InEffect, TableWrite
  <2>5. CASE ThePlan[i].op \in TableWrite
    <3>1. PICK step : step = ThePlan[i]
      OBVIOUS
    <3>2. step.op \in TableWrite /\ step.table \in Table
      BY <2>1, <2>5, <3>1, ThePlanGood
    <3>3. i < c => Fits(tables[step.table], step)
      <4>1. i < c => Behind(r, i)
        BY <1>1, <1>8, <2>2 DEF Behind
      <4>2. i < c => InEffect(step)
        BY <1>1, <2>1, <3>1, <4>1 DEF OnCourse, DoneSoFar
      <4> QED
        BY <1>1, <3>2, <4>2, InEffectFits
    <3>4. i < c /\ CurrentStep(r).op \in TableWrite => step.table # t
      BY <1>9, <2>1, <2>2, <3>1 DEF LastOnItsTable, TableWrite
    <3>5. Fits(tables'[step.table], step)
      BY <1>9, <2>1, <2>3, <3>1, <3>2, <3>3, <3>4
    <3>6. InEffect(step)'
      BY <3>2, <3>5, InEffectFitsNext
    <3> QED
      BY <3>1, <3>6 DEF InEffect
  <2> QED
    BY <2>4, <2>5
<1>11. OnCourse(r)'
  BY <1>4, <1>5, <1>6, <1>7, <1>10 DEF OnCourse
<1>12. RowsOfThePlan' /\ UndoneIsAhead'
  BY <1>1 DEF SharedInv, RowsOfThePlan, UndoneIsAhead, CreateRunning, AheadOf
<1>13. CheckpointIsDone'
  BY <1>1, <1>3, <1>11, <1>12, CheckpointInLoop DEF Loop
<1> QED
  BY <1>1, <1>11, <1>12, <1>13, ActsAlone, AliveAlone DEF SharedInv

LEMMA CreateMoves ==
  ASSUME CheckInv, TypeInv', OnePlan, NEW r \in Run,
         CreateStreamTable(r) \/ DropStreamTable(r)
  PROVE  CheckpointInv'
<1> DEFINE new == [run[r] EXCEPT !.pc = "complete"]
<1>1. /\ run[r].pc = "ddl" /\ r \in Alive /\ run[r].step < Len(run[r].plan)
      /\ CurrentStep(r).op \in {"CreateStreamTable", "DropStreamTable"}
      /\ run' = [run EXCEPT ![r] = new]
      /\ UNCHANGED <<migrations, ddlLog>>
  BY DEF CreateStreamTable, DropStreamTable, AtStep, Goto, catalog, Alive
<1>2. TypeInv
  BY DEF CheckInv, AloneInv, PauseInv
<1>3. /\ SameWork(run[r], new) /\ new.outcome = run[r].outcome /\ new.pc = "complete"
      /\ new.step = run[r].step
  BY <1>2, RunsAreFunctions DEF RunState, SameWork
<1> HIDE DEF new
<1>4. PICK t : t = CurrentStep(r).table
  OBVIOUS
<1>5. t \in Table /\ (CurrentStep(r).op = "CreateStreamTable" => CurrentStep(r).args \in TableSpec)
  BY <1>1, <1>2, <1>4, StepTyped DEF TableOps
<1>6. /\ \A u \in Table : u # t => tables'[u] = tables[u]
      /\ CurrentStep(r).op = "CreateStreamTable" => tables'[t] = CurrentStep(r).args
      /\ CurrentStep(r).op = "DropStreamTable" => tables'[t] = Absent
  <2>1. \/ /\ CurrentStep(r).op = "CreateStreamTable"
           /\ tables' = CreateTable(tables, CurrentStep(r).table, CurrentStep(r).args)
        \/ /\ CurrentStep(r).op = "DropStreamTable"
           /\ tables' = DropTable(tables, CurrentStep(r).table)
    BY DEF CreateStreamTable, DropStreamTable, AtStep
  <2> QED
    BY <1>2, <1>4, <1>5, <2>1 DEF CreateTable, DropTable, TypeInv, TypeOK, DagState
<1>7. Fits(tables'[t], CurrentStep(r)) /\ CurrentStep(r).op \in TableWrite
  BY <1>1, <1>5, <1>6, NothingAssumption DEF Fits, TableWrite
<1> QED
  BY <1>1, <1>3, <1>4, <1>5, <1>6, <1>7, MoveTables

(* Switching a table to another mode leaves in effect what the create or   *)
(* the drop of the table did.                                              *)
LEMMA SwitchKeepsFit ==
  ASSUME NEW spec, NEW step, NEW args, args.query = None,
         step.op # "AlterStreamTable", spec # Absent, Fits(spec, step),
         Coalesce(spec, args) # Absent
  PROVE  Fits(Coalesce(spec, args), step)
BY DEF Fits, Coalesce, OrElse

LEMMA AlterMoves ==
  ASSUME CheckInv, TypeInv', OnePlan, "bestEffort" \notin Faults, NEW r \in Run,
         AlterStreamTable(r)
  PROVE  CheckpointInv'
<1> DEFINE new == [run[r] EXCEPT !.pc = "progress"]
<1>1. /\ run[r].pc = "exec" /\ r \in Alive /\ run[r].step < Len(run[r].plan)
      /\ CurrentStep(r).op \in {"AlterStreamTable", "PauseImmediate", "ResumeImmediate"}
      /\ run' = [run EXCEPT ![r] = new]
      /\ tables' = AlterTable(tables, CurrentStep(r).table, CurrentStep(r).args)
      /\ UNCHANGED <<migrations, ddlLog>>
  BY DEF AlterStreamTable, SwitchesMode, BestEffortFails, AtStep, Goto, catalog, Alive
<1>2. /\ TypeInv /\ run[r].plan = ThePlan /\ run[r].step \in Nat
  BY <1>1, CourseOf
<1>3. /\ SameWork(run[r], new) /\ new.outcome = run[r].outcome /\ new.pc = "progress"
      /\ new.step = run[r].step
  BY <1>2, RunsAreFunctions DEF RunState, SameWork
<1> HIDE DEF new
<1>4. PICK t : t = CurrentStep(r).table
  OBVIOUS
<1>5. PICK args : args = CurrentStep(r).args
  OBVIOUS
<1>6. PICK c : c = run[r].step + 1
  OBVIOUS
<1>7. /\ t \in Table /\ c \in DOMAIN ThePlan /\ CurrentStep(r) = ThePlan[c]
  BY <1>1, <1>2, <1>4, <1>6, StepTyped, ThePlanGood DEF TableOps, CurrentStep
<1>8. /\ \A u \in Table : u # t => tables'[u] = tables[u]
      /\ tables[t] = Absent => tables'[t] = Absent
      /\ tables[t] # Absent => tables'[t] = Coalesce(tables[t], args)
      /\ tables[t] # Absent => tables'[t] # Absent
  <2>1. /\ \A u \in Table : u # t => tables'[u] = tables[u]
        /\ tables[t] = Absent => tables'[t] = Absent
        /\ tables[t] # Absent => tables'[t] = Coalesce(tables[t], args)
    BY <1>1, <1>2, <1>4, <1>5, <1>7 DEF AlterTable, TypeInv, TypeOK, DagState
  <2>2. ASSUME tables[t] # Absent PROVE tables'[t] # Absent
    <3>1. tables[t] \in TableSpec
      BY <1>2, <1>7, <2>2 DEF TypeInv, TypeOK, DagState
    <3>2. args \in AlterArgs
      BY <1>1, <1>2, <1>5, StepTyped
    <3>3. Coalesce(tables[t], args) \in TableSpec
      BY <3>1, <3>2 DEF TableSpec, AlterArgs, Coalesce, OrElse
    <3> QED
      BY <2>1, <2>2, <3>3, NothingAssumption
  <2> QED
    BY <2>1, <2>2
<1>9. CASE CurrentStep(r).op = "AlterStreamTable"
  <2>1. Fits(tables'[t], CurrentStep(r)) /\ CurrentStep(r).op \in TableWrite
    BY <1>5, <1>8, <1>9, CoalesceTwice DEF Fits, TableWrite
  <2> QED
    BY <1>1, <1>3, <1>4, <1>7, <1>8, <1>9, <2>1, MoveTables
<1>10. CASE CurrentStep(r).op # "AlterStreamTable"
  <2>1. /\ args.query = None
        /\ \A i \in DOMAIN ThePlan :
             ThePlan[i].op = "AlterStreamTable" => ThePlan[i].table # t
    BY <1>1, <1>4, <1>5, <1>7, <1>10, ThePlanGood DEF SwitchesApart
  <2>2. ASSUME NEW i \in DOMAIN ThePlan, ThePlan[i].table = t, Fits(tables[t], ThePlan[i])
        PROVE  Fits(tables'[t], ThePlan[i])
    <3>1. ThePlan[i].op # "AlterStreamTable"
      BY <2>1, <2>2
    <3> QED
      BY <1>8, <2>1, <2>2, <3>1, SwitchKeepsFit
  <2>3. CurrentStep(r).op \notin TableWrite /\ CurrentStep(r).op # "LockDag"
    BY <1>1, <1>10 DEF TableWrite
  <2> QED
    BY <1>1, <1>3, <1>4, <1>7, <1>8, <2>2, <2>3, MoveTables
<1> QED
  BY <1>9, <1>10

-----------------------------------------------------------------------------
(* The row of the migration: chosen or inserted, saved, finished.          *)

(* Nothing of it is to be undone when a run enters the loop.               *)
LEMMA EnterOnCourse ==
  ASSUME CheckInv, TypeInv', OnePlan, NEW r \in Alive, NEW new, NEW m,
         run' = [run EXCEPT ![r] = new], run[r].pc = "start", new.pc = "head",
         new.plan = run[r].plan, new.args = run[r].args, new.step = run[r].step,
         new.resumeFrom = run[r].resumeFrom, new.outcome = run[r].outcome,
         new.migration = m, LatestUnfinished' = {m}, RowsOfThePlan', UndoneIsAhead',
         \/ migrations'[m].progress = 0
         \/ migrations'[m].progress + 1 = new.resumeFrom,
         \A l \in DOMAIN ddlLog : CreateRunning(l) => ddlLog[l].migration # m,
         \A i \in DOMAIN ThePlan :
           LastOnItsTable(ThePlan, i) /\ i <= new.resumeFrom => InEffect(ThePlan[i]),
         UNCHANGED <<ddlLog, tables>>
  PROVE  CheckpointInv'
<1>1. /\ r \in Run /\ TypeInv /\ OnCourse(r) /\ run[r].plan = ThePlan
      /\ run[r].step = 0 /\ run[r].resumeFrom \in Nat
  BY CourseOf DEF TypeInv, StepMatchesPc
<1>2. run'[r] = new
  BY <1>1, RunsAreFunctions
<1>3. m \in DOMAIN migrations' /\ migrations'[m].progress \in Nat
  <2>1. m \in DOMAIN migrations'
    BY DEF LatestUnfinished, Latest
  <2>2. migrations' \in Seq(MigrationRow)
    BY DEF TypeInv, TypeOK
  <2>3. migrations'[m] \in MigrationRow
    BY <2>1, <2>2, LenProperties, ElementOfSeq
  <2> QED
    BY <2>1, <2>3 DEF MigrationRow
<1>4. run'[r].plan = ThePlan /\ run'[r].outcome # "interrupted"
  BY <1>1, <1>2 DEF OnCourse
<1>5. KnowsMigration(r)'
  BY <1>1, <1>2 DEF OnCourse, KnowsMigration
<1>6. StaysAhead(r)'
  BY <1>1, <1>2, <1>3 DEF StaysAhead
<1>7. KnowsPending(r)'
  BY <1>2 DEF KnowsPending, CreateRunning
<1>8. DoneSoFar(r)'
  <2>1. SUFFICES ASSUME NEW i \in DOMAIN ThePlan, LastOnItsTable(ThePlan, i), Behind(r, i)'
                 PROVE  InEffect(ThePlan[i])'
    BY <1>2 DEF DoneSoFar
  <2>2. i \in Nat /\ i >= 1
    BY ThePlanGood
  <2>3. i <= new.resumeFrom
    BY <1>1, <1>2, <2>1, <2>2 DEF Behind
  <2>4. InEffect(ThePlan[i])
    BY <2>1, <2>3
  <2> QED
    BY <2>4 DEF InEffect
<1>9. OnCourse(r)'
  BY <1>4, <1>5, <1>6, <1>7, <1>8 DEF OnCourse
<1>10. CheckpointIsDone'
  BY <1>1, <1>2, <1>9, CheckpointInLoop DEF Loop
<1> QED
  BY <1>1, <1>9, <1>10, ActsAlone, AliveAlone DEF SharedInv

LEMMA StartMoves ==
  ASSUME CheckInv, TypeInv', OnePlan, NEW r \in Run, StartMigration(r)
  PROVE  CheckpointInv'
<1>1. /\ run[r].pc = "start" /\ r \in Alive
      /\ UNCHANGED <<ddlLog, tables>>
  BY DEF StartMigration, At, pgtrickle, Alive
<1>2. /\ TypeInv /\ OnCourse(r) /\ run[r].plan = ThePlan
      /\ run[r].step \in Nat /\ run[r].resumeFrom \in Nat /\ SharedInv
  BY <1>1, CourseOf DEF SharedInv
<1>3. PICK m :
        /\ EnterLoop(r, m)
        /\ \/ m \in Reused(r) /\ UNCHANGED migrations
           \/ /\ Reused(r) = {} /\ m = Len(migrations) + 1
              /\ migrations' = NewMigration(r)
  BY DEF StartMigration
<1>4. PICK beats :
        run' = [run EXCEPT ![r].pc = "head", ![r].migration = m, ![r].heartbeat = beats]
  BY <1>3 DEF EnterLoop
<1> DEFINE new == [run[r] EXCEPT !.pc = "head", !.migration = m, !.heartbeat = beats]
<1>5. run' = [run EXCEPT ![r] = new]
  BY <1>4
<1>6. /\ new.pc = "head" /\ new.resumeFrom = run[r].resumeFrom
      /\ new.plan = run[r].plan /\ new.args = run[r].args /\ new.step = run[r].step
      /\ new.migration = m /\ new.outcome = run[r].outcome
  BY <1>2, RunsAreFunctions DEF RunState
<1> HIDE DEF new
<1>7. CASE m \in Reused(r) /\ UNCHANGED migrations
  <2>1. run[r].resumeFrom > 0 /\ m \in LatestUnfinished
    BY <1>7 DEF Reused
  <2>2. LatestUnfinished = {m} /\ run[r].migration = m
    BY <1>1, <1>2, <2>1 DEF OnCourse, KnowsMigration
  <2>3. SharedInv' /\ LatestUnfinished' = {m}
    BY <1>1, <1>2, <1>7, <2>2, SharedKept
  <2>4. run[r].resumeFrom = migrations[m].progress + 1
    BY <1>1, <1>2, <2>1, <2>2 DEF OnCourse, KnowsMigration, ResumePoint
  <2>5. \A l \in DOMAIN ddlLog : CreateRunning(l) => ddlLog[l].migration # m
    BY <1>1, <1>2, <2>1, <2>2 DEF OnCourse, KnowsPending
  <2>6. migrations[m].plan = ThePlan
    BY <1>2, <2>1, UnfinishedIsRow DEF SharedInv, RowsOfThePlan
  <2>7. \A i \in DOMAIN ThePlan :
          LastOnItsTable(ThePlan, i) /\ i <= new.resumeFrom => InEffect(ThePlan[i])
    BY <1>2, <1>6, <2>1, <2>4, <2>6 DEF SharedInv, CheckpointIsDone
  <2>8. /\ RowsOfThePlan' /\ UndoneIsAhead'
        /\ migrations'[m].progress + 1 = new.resumeFrom
    BY <1>6, <1>7, <2>3, <2>4 DEF SharedInv
  <2> QED
    BY <1>1, <1>5, <1>6, <2>3, <2>5, <2>7, <2>8, EnterOnCourse
<1>8. CASE Reused(r) = {} /\ m = Len(migrations) + 1 /\ migrations' = NewMigration(r)
  <2>1. run[r].resumeFrom = 0
    <3>1. SUFFICES ASSUME run[r].resumeFrom > 0 PROVE FALSE
      BY <1>2
    <3>2. LatestUnfinished = {run[r].migration} /\ run[r].args.resume
      BY <1>1, <1>2, <3>1, CourseOf DEF OnCourse, KnowsMigration
    <3> QED
      BY <1>8, <3>1, <3>2 DEF Reused
  <2>2. PICK n : n = Len(migrations)
    OBVIOUS
  <2>3. /\ n \in Nat /\ DOMAIN migrations = 1 .. n /\ DOMAIN migrations' = 1 .. n + 1
        /\ m = n + 1
        /\ migrations'[n + 1] =
             [status |-> "running", progress |-> 0, plan |-> run[r].plan]
        /\ \A k \in 1 .. n : migrations'[k] = migrations[k]
    <3>1. migrations \in Seq(MigrationRow)
      BY <1>2 DEF TypeInv, TypeOK
    <3> QED
      BY <1>2, <1>8, <2>2, <3>1, MigrationRows DEF NewMigration
  <2>4. LatestUnfinished' = {m}
    <3>1. PICK S : S = {k \in DOMAIN migrations' : migrations'[k].status \in Resumable}
      OBVIOUS
    <3>2. S \subseteq Nat /\ m \in S /\ \A k \in S : k <= m
      BY <2>3, <3>1 DEF Resumable
    <3>3. Latest(S) = {m}
      <4>1. m \in Latest(S)
        BY <3>2 DEF Latest
      <4> QED
        BY <3>2, <4>1, LatestIsOne
    <3> QED
      BY <3>1, <3>3 DEF LatestUnfinished, Latest
  <2>5. RowsOfThePlan'
    BY <1>2, <2>3 DEF SharedInv, RowsOfThePlan
  <2>6. \A l \in DOMAIN ddlLog : CreateRunning(l) =>
          /\ ddlLog[l].migration \in 1 .. n
          /\ AheadOf(ddlLog[l].migration, ddlLog[l].table)
    BY <1>2, <2>3 DEF SharedInv, UndoneIsAhead
  <2>7. UndoneIsAhead'
    BY <1>1, <2>3, <2>6 DEF UndoneIsAhead, CreateRunning, AheadOf
  <2>8. \A l \in DOMAIN ddlLog : CreateRunning(l) => ddlLog[l].migration # m
    BY <2>3, <2>6
  <2>9. \A i \in DOMAIN ThePlan : ~(i <= new.resumeFrom)
    BY <1>6, <2>1, ThePlanGood
  <2>10. migrations'[m].progress = 0
    BY <2>3
  <2> QED
    BY <1>1, <1>5, <1>6, <2>4, <2>5, <2>7, <2>8, <2>9, <2>10, EnterOnCourse
<1> QED
  BY <1>3, <1>7, <1>8

(* The checkpoint names the step the run has just put into effect.         *)
LEMMA SaveMoves ==
  ASSUME CheckInv, TypeInv', OnePlan, NEW r \in Run, SaveProgress(r)
  PROVE  CheckpointInv'
<1> DEFINE new == [run[r] EXCEPT !.pc = "check"]
<1>1. /\ run[r].pc = "progress" /\ r \in Alive
      /\ run' = [run EXCEPT ![r] = new]
      /\ migrations' = [migrations EXCEPT ![run[r].migration].progress = run[r].step]
      /\ UNCHANGED <<ddlLog, tables>>
  BY DEF SaveProgress, CheckpointedStep, At, Goto, pgtrickle, Alive
<1>2. /\ TypeInv /\ OnCourse(r) /\ run[r].plan = ThePlan
      /\ run[r].step \in Nat /\ run[r].resumeFrom \in Nat /\ SharedInv
  BY <1>1, CourseOf DEF SharedInv
<1>3. /\ SameWork(run[r], new) /\ new.outcome = run[r].outcome /\ new.pc = "check"
      /\ new.step = run[r].step
  BY <1>2, RunsAreFunctions DEF RunState, SameWork
<1> HIDE DEF new
<1>4. run'[r] = new
  BY <1>1, <1>2, RunsAreFunctions
<1>5. PICK m : m = run[r].migration
  OBVIOUS
<1>6. LatestUnfinished = {m} /\ m \in DOMAIN migrations
  <2>1. LatestUnfinished = {m}
    BY <1>1, <1>2, <1>5 DEF OnCourse, KnowsMigration
  <2> QED
    BY <1>2, <2>1, UnfinishedIsRow
<1>7. /\ DOMAIN migrations' = DOMAIN migrations
      /\ \A k \in DOMAIN migrations :
           /\ migrations'[k].status = migrations[k].status
           /\ migrations'[k].plan = migrations[k].plan
           /\ k # m => migrations'[k] = migrations[k]
      /\ migrations'[m].progress = run[r].step
  <2>1. \A k \in DOMAIN migrations : migrations[k] \in MigrationRow
    BY <1>2, MigrationRows
  <2>2. PICK row : row = [migrations[m] EXCEPT !.progress = run[r].step]
    OBVIOUS
  <2>3. /\ row.status = migrations[m].status /\ row.plan = migrations[m].plan
        /\ row.progress = run[r].step
    BY <1>6, <2>1, <2>2 DEF MigrationRow
  <2>4. migrations' = [migrations EXCEPT ![m] = row]
    BY <1>1, <1>5, <2>2
  <2> QED
    BY <1>2, <1>6, <2>3, <2>4, MigrationRows
<1>8. LatestUnfinished' = LatestUnfinished
  BY <1>7, SameUnfinished
<1>9. RowsOfThePlan'
  BY <1>2, <1>7 DEF SharedInv, RowsOfThePlan
<1>10. \A l \in DOMAIN ddlLog : CreateRunning(l) => ddlLog[l].migration # m
  BY <1>1, <1>2, <1>5 DEF OnCourse, KnowsPending
<1>11. UndoneIsAhead'
  <2>1. \A l \in DOMAIN ddlLog : CreateRunning(l) =>
          /\ ddlLog[l].migration \in DOMAIN migrations
          /\ migrations'[ddlLog[l].migration] = migrations[ddlLog[l].migration]
          /\ AheadOf(ddlLog[l].migration, ddlLog[l].table)
    BY <1>2, <1>7, <1>10 DEF SharedInv, UndoneIsAhead
  <2>2. \A l \in DOMAIN ddlLog' : CreateRunning(l)' <=> CreateRunning(l)
    BY <1>1 DEF CreateRunning
  <2> QED
    BY <1>1, <1>7, <2>1, <2>2 DEF UndoneIsAhead, AheadOf
<1>12. KnowsMigration(r)'
  BY <1>1, <1>2, <1>3, <1>4, <1>8 DEF OnCourse, KnowsMigration, SameWork
<1>13. StaysAhead(r)'
  <2>1. new.step > 0 => new.step >= new.resumeFrom
    BY <1>1, <1>2, <1>3 DEF OnCourse, StaysAhead, SameWork
  <2>2. migrations'[new.migration].progress = new.step
    BY <1>3, <1>5, <1>7 DEF SameWork
  <2> QED
    BY <1>3, <1>4, <2>1, <2>2 DEF StaysAhead
<1>14. KnowsPending(r)'
  BY <1>1, <1>3, <1>4, <1>5, <1>10 DEF KnowsPending, SameWork, CreateRunning
<1>15. DoneSoFar(r)'
  <2>1. \A i \in DOMAIN ThePlan : Behind(r, i)' => Behind(r, i)
    BY <1>1, <1>3, <1>4 DEF Behind, SameWork
  <2>2. \A i \in DOMAIN ThePlan :
          LastOnItsTable(ThePlan, i) /\ Behind(r, i) => InEffect(ThePlan[i])
    BY <1>1, <1>2 DEF OnCourse, DoneSoFar
  <2> QED
    BY <1>1, <1>3, <1>4, <2>1, <2>2 DEF DoneSoFar, InEffect
<1>16. OnCourse(r)'
  BY <1>2, <1>3, <1>4, <1>12, <1>13, <1>14, <1>15 DEF OnCourse, SameWork
<1>17. CheckpointIsDone'
  BY <1>1, <1>3, <1>4, <1>9, <1>16, CheckpointInLoop DEF Loop
<1> QED
  BY <1>1, <1>2, <1>9, <1>11, <1>16, <1>17, ActsAlone, AliveAlone DEF SharedInv

(* The end of a run: what it committed needs no checkpoint any more, what  *)
(* failed keeps its own.                                                   *)
LEMMA FinishMoves ==
  ASSUME CheckInv, TypeInv', OnePlan, "bestEffort" \notin Faults, NEW r \in Run,
         FinishMigration(r)
  PROVE  CheckpointInv'
<1>1. /\ run[r].pc = "finish" /\ r \in Alive
      /\ migrations' = [migrations EXCEPT
            ![run[r].migration] = FinishedRow(@, run[r].outcome)]
      /\ run' = [run EXCEPT ![r] = Exited(run[r].outcome)]
      /\ UNCHANGED <<ddlLog, tables>>
  BY DEF FinishMigration, BestEffortFails, At, pgtrickle, Alive
<1>2. /\ TypeInv /\ OnCourse(r) /\ SharedInv /\ run[r].outcome \in {"ok", "failed"}
  BY <1>1, CourseOf DEF SharedInv, OnCourse, TypeInv, OutcomeMatchesPc
<1>3. PICK m : m = run[r].migration
  OBVIOUS
<1>4. PICK row : row = FinishedRow(migrations[m], run[r].outcome)
  OBVIOUS
<1>5. LatestUnfinished = {m} /\ m \in DOMAIN migrations
      /\ migrations[m].status \in Resumable /\ migrations[m] \in MigrationRow
  <2>1. LatestUnfinished = {m}
    BY <1>1, <1>2, <1>3 DEF OnCourse, KnowsMigration
  <2> QED
    BY <1>2, <2>1, UnfinishedIsRow, MigrationRows
<1>6. /\ row.plan = migrations[m].plan
      /\ row.progress \in {0, migrations[m].progress}
      /\ run[r].outcome = "failed" =>
           row.status \in Resumable /\ row.progress = migrations[m].progress
  BY <1>2, <1>4, <1>5 DEF FinishedRow, MigrationRow, Resumable
<1>7. /\ DOMAIN migrations' = DOMAIN migrations /\ migrations'[m] = row
      /\ \A k \in DOMAIN migrations : k # m => migrations'[k] = migrations[k]
  <2>1. migrations' = [migrations EXCEPT ![m] = row]
    BY <1>1, <1>3, <1>4
  <2> QED
    BY <1>2, <1>5, <2>1, MigrationRows
<1>8. RowsOfThePlan'
  BY <1>2, <1>5, <1>6, <1>7 DEF SharedInv, RowsOfThePlan
<1>9. UndoneIsAhead'
  <2>1. \A k \in DOMAIN migrations : /\ migrations[k].progress \in Nat
                                     /\ migrations'[k].progress \in Nat
                                     /\ migrations'[k].progress <= migrations[k].progress
    BY <1>2, <1>6, <1>7, MigrationRows
  <2>2. SUFFICES ASSUME NEW l \in DOMAIN ddlLog, CreateRunning(l)
                 PROVE  /\ ddlLog[l].migration \in DOMAIN migrations
                        /\ \E i \in DOMAIN ThePlan :
                             /\ i > migrations'[ddlLog[l].migration].progress + 1
                             /\ ThePlan[i].op = "CreateStreamTable"
                             /\ ThePlan[i].table = ddlLog[l].table
    BY <1>1, <1>7 DEF UndoneIsAhead, CreateRunning, AheadOf
  <2>3. PICK k : k = ddlLog[l].migration
    OBVIOUS
  <2>4. k \in DOMAIN migrations /\ AheadOf(k, ddlLog[l].table)
    BY <1>2, <2>2, <2>3 DEF SharedInv, UndoneIsAhead
  <2>5. PICK i \in DOMAIN ThePlan :
          /\ i > migrations[k].progress + 1
          /\ ThePlan[i].op = "CreateStreamTable" /\ ThePlan[i].table = ddlLog[l].table
    BY <2>4 DEF AheadOf
  <2>6. i > migrations'[k].progress + 1
    BY <2>1, <2>4, <2>5, ThePlanGood
  <2> QED
    BY <2>3, <2>4, <2>5, <2>6
<1>10. CheckpointIsDone'
  <2>1. CASE run[r].outcome = "ok"
    <3>1. \A i \in DOMAIN ThePlan : LastOnItsTable(ThePlan, i) => InEffect(ThePlan[i])
      BY <1>1, <1>2, <2>1 DEF OnCourse, DoneSoFar
    <3>2. \A n \in LatestUnfinished' : migrations'[n].plan = ThePlan
      BY <1>8 DEF RowsOfThePlan, LatestUnfinished, Latest
    <3> QED
      BY <1>1, <3>1, <3>2 DEF CheckpointIsDone, InEffect
  <2>2. CASE run[r].outcome = "failed"
    <3>1. LatestUnfinished' = {m}
      BY <1>5, <1>6, <1>7, <2>2, SameUnfinished
    <3>2. /\ migrations[m].plan = ThePlan /\ migrations'[m].plan = ThePlan
          /\ migrations'[m].progress = migrations[m].progress
      BY <1>2, <1>5, <1>6, <1>7, <2>2 DEF SharedInv, RowsOfThePlan
    <3>3. \A i \in DOMAIN ThePlan :
            i <= migrations'[m].progress + 1 /\ LastOnItsTable(ThePlan, i)
              => InEffect(ThePlan[i])
      BY <1>2, <1>5, <3>2 DEF SharedInv, CheckpointIsDone
    <3>4. SUFFICES ASSUME NEW i \in DOMAIN ThePlan,
                          i <= migrations'[m].progress + 1, LastOnItsTable(ThePlan, i)
                   PROVE  InEffect(ThePlan[i])'
      BY <3>1, <3>2 DEF CheckpointIsDone
    <3> QED
      BY <1>1, <3>3, <3>4 DEF InEffect
  <2> QED
    BY <1>2, <2>1, <2>2
<1>11. r \notin Alive'
  <2>1. run'[r] = Exited(run[r].outcome)
    BY <1>1, <1>2, RunsAreFunctions
  <2> QED
    BY <2>1 DEF Alive, Exited, IdleRun
<1>12. PICK new : new = Exited(run[r].outcome)
  OBVIOUS
<1> QED
  BY <1>1, <1>2, <1>8, <1>9, <1>10, <1>11, <1>12, ActsAlone, AliveAlone DEF SharedInv

-----------------------------------------------------------------------------
(* The first statement of a run, and what ends it early.                   *)

LEMMA BeginMoves ==
  ASSUME CheckInv, TypeInv', OnePlan, MaxActive = 1, IsFiniteSet(Run), NEW r \in Run,
         Begin(r)
  PROVE  CheckpointInv'
<1>1. Alive = {}
  BY BeginsFirst
<1>2. TypeInv /\ SharedInv /\ UNCHANGED <<migrations, ddlLog, tables>>
  BY DEF CheckInv, AloneInv, PauseInv, CheckpointInv, SharedInv, Begin, catalog, pgtrickle
<1>3. SharedInv'
  BY <1>2, SharedKept
<1>4. PICK args, desired, plan :
        /\ args \in Invocation /\ desired \in Desired
        /\ plan = PlanFor(desired, IF args.planFile THEN InitialTables ELSE LiveTables)
        /\ run' = [run EXCEPT ![r] =
             IF NoChanges(plan) THEN Exited("nochange")
             ELSE [IdleRun EXCEPT !.args = args, !.desired = desired, !.plan = plan,
                                  !.pc = IF args.resume THEN "find" ELSE "start"]]
  BY DEF Begin
<1>5. plan = ThePlan
  BY <1>4, ThePlanGood DEF OnePlan
<1>6. PICK new : new = IF NoChanges(plan) THEN Exited("nochange")
        ELSE [IdleRun EXCEPT !.args = args, !.desired = desired, !.plan = plan,
                             !.pc = IF args.resume THEN "find" ELSE "start"]
  OBVIOUS
<1>7. \/ new.pc = "ended"
      \/ /\ new.pc \in {"find", "start"} /\ new.plan = plan /\ new.outcome = "none"
         /\ new.resumeFrom = 0
  BY <1>6 DEF Exited, IdleRun
<1>8. run' = [run EXCEPT ![r] = new]
  BY <1>4, <1>6
<1>9. run'[r] = new
  BY <1>2, <1>8, RunsAreFunctions
<1>10. ASSUME r \in Alive' PROVE OnCourse(r)'
  <2>1. /\ new.pc \in {"find", "start"} /\ new.plan = ThePlan /\ new.outcome = "none"
        /\ new.resumeFrom = 0
    BY <1>5, <1>7, <1>9, <1>10 DEF Alive
  <2>2. KnowsMigration(r)' /\ KnowsPending(r)'
    BY <1>9, <2>1 DEF KnowsMigration, KnowsPending
  <2> QED
    BY <1>9, <2>1, <2>2, CourseBefore
<1> QED
  BY <1>1, <1>2, <1>3, <1>8, <1>10, ActsAlone

LEMMA EndMoves ==
  ASSUME CheckInv, TypeInv', OnePlan, NEW r \in Run, StartupFails(r) \/ Crash(r)
  PROVE  CheckpointInv'
<1>1. r \in Alive /\ UNCHANGED <<migrations, ddlLog, tables>>
  BY DEF StartupFails, Crash, catalog, pgtrickle, Alive
<1>2. TypeInv /\ SharedInv
  BY <1>1, CourseOf DEF SharedInv
<1>3. PICK new : run' = [run EXCEPT ![r] = new] /\ new.pc = "ended"
  <2>1. Exited("error").pc = "ended" /\ Exited("crashed").pc = "ended"
    BY DEF Exited, IdleRun
  <2> QED
    BY <2>1 DEF StartupFails, Crash
<1>4. r \notin Alive'
  BY <1>2, <1>3, RunsAreFunctions DEF Alive
<1> QED
  BY <1>1, <1>2, <1>3, <1>4, SharedKept, ActsAlone, AliveAlone

(* Heartbeats and the lock row are no part of it.                          *)
LEMMA OthersMove ==
  ASSUME CheckInv, TypeInv',
         \/ \E r \in Run : Heartbeat(r)
         \/ LockExpires \/ ShowLock \/ ForceUnlock
         \/ UNCHANGED vars
  PROVE  CheckpointInv'
<1>1. TypeInv /\ SharedInv /\ \A s \in Alive : OnCourse(s)
  BY DEF CheckInv, AloneInv, PauseInv, CheckpointInv, SharedInv
<1>2. UNCHANGED <<migrations, ddlLog, tables>>
  BY DEF Heartbeat, LockExpires, ShowLock, ForceUnlock, vars, catalog, pgtrickle
<1>3. \A s \in Run :
        /\ SameWork(run[s], run'[s]) /\ run'[s].step = run[s].step
        /\ run'[s].outcome = run[s].outcome /\ run'[s].pc = run[s].pc
        /\ run'[s].pending = run[s].pending
  <2>1. CASE UNCHANGED run
    BY <2>1 DEF SameWork
  <2>2. CASE \E r \in Run : Heartbeat(r) /\ run' # run
    <3>1. PICK r \in Run :
            run' = [run EXCEPT ![r].lockLost = TRUE, ![r].heartbeat = FALSE]
      BY <2>2 DEF Heartbeat
    <3> DEFINE new == [run[r] EXCEPT !.lockLost = TRUE, !.heartbeat = FALSE]
    <3>2. run' = [run EXCEPT ![r] = new]
      BY <3>1
    <3>3. /\ SameWork(run[r], new) /\ new.step = run[r].step
          /\ new.outcome = run[r].outcome /\ new.pc = run[r].pc
          /\ new.pending = run[r].pending
      BY <1>1, RunsAreFunctions DEF RunState, SameWork
    <3> HIDE DEF new
    <3>4. run' = [s \in Run |-> IF s = r THEN new ELSE run[s]]
      BY <1>1, <3>2, RunsAreFunctions
    <3> QED
      BY <3>3, <3>4 DEF SameWork
  <2>3. (\E r \in Run : Heartbeat(r) /\ run' # run) \/ UNCHANGED run
    BY DEF LockExpires, ShowLock, ForceUnlock, vars
  <2> QED
    BY <2>1, <2>2, <2>3
<1>4. SharedInv' /\ LatestUnfinished' = LatestUnfinished
  BY <1>1, <1>2, SharedKept
<1>5. ASSUME NEW s \in Alive' PROVE OnCourse(s)'
  <2>1. s \in Run /\ s \in Alive /\ OnCourse(s)
    BY <1>1, <1>3 DEF Alive
  <2>2. KnowsMigration(s)' /\ StaysAhead(s)'
    BY <1>2, <1>3, <1>4, <2>1
    DEF OnCourse, KnowsMigration, StaysAhead, SameWork, ResumePoint
  <2>3. KnowsPending(s)'
    BY <1>2, <1>3, <2>1
    DEF OnCourse, KnowsPending, PendingSteps, CreateRunning, CurrentStep, SameWork
  <2>4. DoneSoFar(s)'
    BY <1>2, <1>3, <2>1 DEF OnCourse, DoneSoFar, Behind, InEffect, SameWork
  <2> QED
    BY <1>3, <2>1, <2>2, <2>3, <2>4 DEF OnCourse, SameWork
<1> QED
  BY <1>4, <1>5 DEF CheckpointInv, SharedInv

-----------------------------------------------------------------------------
LEMMA CheckInvInit == Init => CheckInv
<1> SUFFICES ASSUME Init PROVE CheckInv
  OBVIOUS
<1>1. ArgsMatchPc
  BY DEF Init, IdleRun, ArgsMatchPc, Resuming
<1>2. DOMAIN migrations = {} /\ DOMAIN ddlLog = {}
  BY DEF Init
<1>3. Alive = {}
  BY DEF Init, IdleRun, Alive
<1>4. LatestUnfinished = {}
  BY <1>2 DEF LatestUnfinished, Latest
<1>5. CheckpointInv
  BY <1>2, <1>3, <1>4 DEF CheckpointInv, RowsOfThePlan, UndoneIsAhead, CheckpointIsDone
<1> QED
  BY <1>1, <1>5, AloneInvInit DEF CheckInv

LEMMA CheckInvStep ==
  ASSUME MaxActive = 1, IsFiniteSet(Run), OnePlan,
         "bestEffort" \notin Faults, "failover" \notin Faults
  PROVE  CheckInv /\ [Next]_vars => CheckInv'
<1> SUFFICES ASSUME CheckInv, [Next]_vars PROVE CheckInv'
  OBVIOUS
<1>1. AloneInv' /\ ArgsMatchPc'
  BY AloneInvStep, ArgsStep DEF CheckInv, AloneInv, PauseInv
<1>2. TypeInv'
  BY <1>1 DEF AloneInv, PauseInv
<1>3. ASSUME NEW r \in Run, Begin(r) PROVE CheckpointInv'
  BY <1>2, <1>3, BeginMoves
<1>4. ASSUME NEW r \in Run, Resume(r) \/ StartMigration(r) PROVE CheckpointInv'
  BY <1>2, <1>4, FindMoves, CompensateMoves, MarkMoves, StartMoves DEF Resume
<1>5. ASSUME NEW r \in Run, NextStep(r) \/ CheckAfterStep(r) \/ StepFails(r)
      PROVE  CheckpointInv'
  BY <1>2, <1>5, HeadMoves, CheckMoves
<1>6. ASSUME NEW r \in Run, StepBody(r) PROVE CheckpointInv'
  BY <1>2, <1>6, LockMoves, StepMoves, CreateLogged, CreateMoves, CompleteMoves, AlterMoves
  DEF StepBody
<1>7. ASSUME NEW r \in Run, SaveProgress(r) PROVE CheckpointInv'
  BY <1>2, <1>7, SaveMoves
<1>8. ASSUME NEW r \in Run, Cleanup(r) PROVE CheckpointInv'
  BY <1>2, <1>8, OutMoves, FinishMoves DEF Cleanup
<1>9. ASSUME NEW r \in Run, StartupFails(r) \/ Crash(r) PROVE CheckpointInv'
  BY <1>2, <1>9, EndMoves
<1>10. ASSUME \/ \E r \in Run : Heartbeat(r)
              \/ LockExpires \/ ShowLock \/ ForceUnlock
              \/ UNCHANGED vars
       PROVE  CheckpointInv'
  BY <1>2, <1>10, OthersMove
<1>11. CheckpointInv'
  BY <1>3, <1>4, <1>5, <1>6, <1>7, <1>8, <1>9, <1>10 DEF Next, Advance
<1> QED
  BY <1>1, <1>11 DEF CheckInv

(* executor.rs, find_resume_step: what the checkpoint of the migration     *)
(* that --resume picks says is done is in the database, for any plan the   *)
(* planner makes, any number of runs one after the other, a crash or a     *)
(* failing statement anywhere, and locks that lapse or are taken away.     *)
(* With failovers it is false, as README.md describes.                     *)
THEOREM CheckpointNeverAhead ==
  ASSUME MaxActive = 1, IsFiniteSet(Run), OnePlan,
         "bestEffort" \notin Faults, "failover" \notin Faults
  PROVE  Spec => []CheckpointIsDone
<1>1. CheckInv => CheckpointIsDone
  BY DEF CheckInv, CheckpointInv
<1>2. CheckInv /\ [Next]_vars => CheckInv'
  BY CheckInvStep
<1> QED
  BY <1>1, <1>2, CheckInvInit, PTL DEF Spec

-----------------------------------------------------------------------------
(* What a run commits is live: for the runs of one plan file, one at a     *)
(* time, fresh or resumed, with crashes, statements that fail and locks    *)
(* that are lost, a version that becomes current describes the tables as   *)
(* they are, and every table it describes is owned.  It is assumed that    *)
(* the plan would get there if nothing disturbed it (PlanArrives): that is *)
(* the planner's business.                                                 *)

(* What a plan that arrives does to one table.                             *)

(* A create is the only one of its table; before it the table is dropped   *)
(* or its mode switched, after it the mode is switched back.               *)
LEMMA CreateOnItsTable ==
  ASSUME OnePlan, PlanArrives, NEW i \in CreatesOfPlan
  PROVE  /\ i \in DOMAIN ThePlan /\ i \in Nat /\ i > 1
         /\ ThePlan[i].op = "CreateStreamTable" /\ ThePlan[i].table \in Table
         /\ \A j \in DOMAIN ThePlan :
              ThePlan[j].op \in Touching /\ ThePlan[j].table = ThePlan[i].table =>
                \/ j = i
                \/ j < i /\ ThePlan[j].op \in {"DropStreamTable", "PauseImmediate"}
                \/ /\ j > i /\ ThePlan[j].op = "ResumeImmediate"
                   /\ Coalesce(ThePlan[i].args, ThePlan[j].args) = ThePlan[i].args
<1>1. i \in DOMAIN ThePlan /\ ThePlan[i].op = "CreateStreamTable"
  BY DEF CreatesOfPlan
<1>2. i \in Nat /\ ThePlan[i].table \in Table /\ i > 1
  BY <1>1, ThePlanGood DEF TableWrite, WellFormed
<1>3. PICK t : t = ThePlan[i].table
  OBVIOUS
<1>4. PICK d \in Desired : Arrives(ThePlan, d, InitialTables)
  BY DEF OnePlan, PlanArrives
<1>5. i \in TouchesOf(ThePlan, t)
  BY <1>1, <1>3 DEF TouchesOf, Touching
<1>6. Builds(ThePlan, d, t)
  <2>1. ~Keeps(ThePlan, d, InitialTables, t)
    BY <1>5 DEF Keeps
  <2>2. ~AltersTo(ThePlan, d, InitialTables, t)
    BY <1>1, <1>5 DEF AltersTo
  <2>3. ~DropsOnly(ThePlan, d, t)
    BY <1>1, <1>5 DEF DropsOnly
  <2> QED
    BY <1>2, <1>3, <1>4, <2>1, <2>2, <2>3 DEF Arrives
<1>7. PICK k \in TouchesOf(ThePlan, t) :
        /\ ThePlan[k].op = "CreateStreamTable" /\ ThePlan[k].args = d[t]
        /\ \A j \in TouchesOf(ThePlan, t) \ {k} :
             \/ j < k /\ ThePlan[j].op \in {"DropStreamTable", "PauseImmediate"}
             \/ /\ j > k /\ ThePlan[j].op = "ResumeImmediate"
                /\ Coalesce(d[t], ThePlan[j].args) = d[t]
  BY <1>6 DEF Builds
<1>8. k = i
  BY <1>1, <1>5, <1>7
<1> QED
  BY <1>1, <1>2, <1>3, <1>7, <1>8 DEF TouchesOf

(* An alter is the only step on its table.                                 *)
LEMMA AlterOnItsTable ==
  ASSUME OnePlan, PlanArrives, NEW j \in DOMAIN ThePlan,
         ThePlan[j].op = "AlterStreamTable"
  PROVE  /\ TouchesOf(ThePlan, ThePlan[j].table) = {j}
         /\ InitialTables[ThePlan[j].table] # Absent
<1>1. ThePlan[j].table \in Table
  BY ThePlanGood DEF TableWrite
<1>2. PICK t \in Table : t = ThePlan[j].table
  BY <1>1
<1>3. PICK d \in Desired : Arrives(ThePlan, d, InitialTables)
  BY DEF OnePlan, PlanArrives
<1>4. j \in TouchesOf(ThePlan, t)
  BY <1>2 DEF TouchesOf, Touching
<1>5. AltersTo(ThePlan, d, InitialTables, t)
  <2>1. ~Keeps(ThePlan, d, InitialTables, t)
    BY <1>4 DEF Keeps
  <2>2. ~DropsOnly(ThePlan, d, t)
    BY <1>4 DEF DropsOnly
  <2>3. ~Builds(ThePlan, d, t)
    BY <1>4 DEF Builds
  <2> QED
    BY <1>3, <2>1, <2>2, <2>3 DEF Arrives
<1> QED
  BY <1>2, <1>4, <1>5 DEF AltersTo

(* A mode is switched around a create only.                                *)
LEMMA SwitchOnItsTable ==
  ASSUME OnePlan, PlanArrives, NEW j \in DOMAIN ThePlan, ThePlan[j].table \in Table,
         ThePlan[j].op \in {"PauseImmediate", "ResumeImmediate"}
  PROVE  \E i \in CreatesOfPlan : ThePlan[i].table = ThePlan[j].table
<1>1. PICK t \in Table : t = ThePlan[j].table
  OBVIOUS
<1>2. PICK d \in Desired : Arrives(ThePlan, d, InitialTables)
  BY DEF OnePlan, PlanArrives
<1>3. j \in TouchesOf(ThePlan, t)
  BY <1>1 DEF TouchesOf, Touching
<1>4. Builds(ThePlan, d, t)
  <2>1. ~Keeps(ThePlan, d, InitialTables, t)
    BY <1>3 DEF Keeps
  <2>2. ~DropsOnly(ThePlan, d, t)
    BY <1>3 DEF DropsOnly
  <2>3. ~AltersTo(ThePlan, d, InitialTables, t)
    BY <1>3 DEF AltersTo
  <2> QED
    BY <1>2, <2>1, <2>2, <2>3 DEF Arrives
<1>5. PICK i \in TouchesOf(ThePlan, t) : ThePlan[i].op = "CreateStreamTable"
  BY <1>4 DEF Builds
<1> QED
  BY <1>1, <1>5 DEF CreatesOfPlan, TouchesOf

-----------------------------------------------------------------------------
(* What a run has behind it, read off its record.                          *)
Carries(s, i) ==
  \/ s.pc \in WayOut /\ s.outcome = "ok"
  \/ /\ s.pc \in Loop
     /\ \/ i <= s.resumeFrom
        \/ i <= s.step
        \/ i = s.step + 1 /\ s.pc \in {"complete", "own", "progress", "check"}

CarriesOwned(s, i) ==
  \/ s.pc \in WayOut /\ s.outcome = "ok"
  \/ /\ s.pc \in Loop
     /\ \/ i <= s.resumeFrom
        \/ i <= s.step
        \/ i = s.step + 1 /\ s.pc \in {"progress", "check"}

LEMMA ClaimsOfRuns ==
  ASSUME NEW i
  PROVE  /\ Claimed(i) <=> CoveredByCheckpoint(i) \/ \E r \in Alive : Carries(run[r], i)
         /\ ClaimedOwned(i) <=>
              CoveredByCheckpoint(i) \/ \E r \in Alive : CarriesOwned(run[r], i)
BY DEF Claimed, ClaimedOwned, Carries, CarriesOwned, Through, Behind, Registered

LEMMA ClaimsOfRunsNext ==
  ASSUME NEW i
  PROVE  /\ Claimed(i)' <=> CoveredByCheckpoint(i)' \/ \E r \in Alive' : Carries(run'[r], i)
         /\ ClaimedOwned(i)' <=>
              CoveredByCheckpoint(i)' \/ \E r \in Alive' : CarriesOwned(run'[r], i)
BY DEF Claimed, ClaimedOwned, Carries, CarriesOwned, Through, Behind, Registered

(* Nobody comes to rely on the create i in this step.                      *)
NoNewClaim(i) ==
  /\ Claimed(i)' => Claimed(i)
  /\ ClaimedOwned(i)' => ClaimedOwned(i)

LEMMA OwnedIsClaimed ==
  ASSUME NEW i, ClaimedOwned(i) PROVE Claimed(i)
BY DEF ClaimedOwned, Claimed, Registered, Behind

(* It is enough to look at the run that acts.                              *)
LEMMA ClaimsByRun ==
  ASSUME TypeInv, NEW r \in Run, NEW new, run' = [run EXCEPT ![r] = new],
         Alive \subseteq {r}, NEW i,
         new.pc \notin {"idle", "ended"} /\ Carries(new, i) => Claimed(i),
         new.pc \notin {"idle", "ended"} /\ CarriesOwned(new, i) => ClaimedOwned(i),
         CoveredByCheckpoint(i)' => CoveredByCheckpoint(i)
  PROVE  NoNewClaim(i)
<1>1. run' = [s \in Run |-> IF s = r THEN new ELSE run[s]]
  BY RunsAreFunctions
<1>2. \A s \in Alive' : s = r
  BY <1>1 DEF Alive
<1>3. run'[r] = new
  BY <1>1
<1>4. r \in Alive' => new.pc \notin {"idle", "ended"}
  BY <1>3 DEF Alive
<1> QED
  BY <1>2, <1>3, <1>4, ClaimsOfRuns, ClaimsOfRunsNext DEF NoNewClaim

(* Where nobody comes to rely on a create and nothing changes in the       *)
(* database, the invariant is kept.                                        *)
LEMMA ConvergenceKept ==
  ASSUME ConvergenceInv, \A i \in CreatesOfPlan : NoNewClaim(i), UNCHANGED <<tables, owned>>,
         \A s \in Alive' : run'[s].desired \in Desired
  PROVE  ConvergenceInv'
<1>1. CreatedAsPlanned' /\ CreatedIsOwned'
  BY DEF ConvergenceInv, CreatedAsPlanned, CreatedIsOwned, NoNewClaim
<1>2. OldOrAltered'
  BY DEF ConvergenceInv, OldOrAltered, Stays
<1> QED
  BY <1>1, <1>2 DEF ConvergenceInv

(* What the next --resume would read is behind the run that acts.          *)
LEMMA CoveredIsBehind ==
  ASSUME CheckInv, OnePlan, NEW r \in Alive, run[r].pc \in Loop,
         NEW i \in Nat, i > 1, CoveredByCheckpoint(i)
  PROVE  \/ i <= run[r].resumeFrom
         \/ i <= run[r].step
         \/ i = run[r].step + 1 /\ run[r].pc = "check"
<1>1. /\ TypeInv /\ OnCourse(r) /\ run[r].step \in Nat /\ run[r].resumeFrom \in Nat
  BY CourseOf
<1>2. PICK m : m = run[r].migration
  OBVIOUS
<1>3. LatestUnfinished = {m}
  BY <1>1, <1>2 DEF OnCourse, KnowsMigration
<1>4. migrations[m].progress \in Nat
  BY <1>1, <1>3, UnfinishedIsRow, MigrationRows
<1>5. PICK progress \in Nat : progress = migrations[m].progress
  BY <1>4
<1>6. i <= progress + 1
  BY <1>3, <1>5 DEF CoveredByCheckpoint
<1>7. \/ progress = 0
      \/ progress < run[r].resumeFrom
      \/ progress < run[r].step
      \/ progress = run[r].step /\ run[r].pc = "check"
  BY <1>1, <1>2, <1>5 DEF OnCourse, StaysAhead
<1> QED
  BY <1>1, <1>6, <1>7

(* Nobody relies on a step that the acting run has yet to execute.         *)
LEMMA AheadIsUnclaimed ==
  ASSUME CheckInv, OnePlan, NEW r \in Alive, run[r].pc \in InStep, run[r].step > 0,
         NEW i \in Nat, i > run[r].step + 1
  PROVE  ~Claimed(i)
<1>1. /\ TypeInv /\ OnCourse(r) /\ run[r].step \in Nat /\ run[r].resumeFrom \in Nat
  BY CourseOf
<1>2. run[r].resumeFrom <= run[r].step
  BY <1>1 DEF OnCourse, StaysAhead
<1>3. ~CoveredByCheckpoint(i)
  BY <1>1, <1>2, CoveredIsBehind
<1>4. ~Carries(run[r], i)
  BY <1>1, <1>2 DEF Carries
<1>5. \A s \in Alive : s = r
  BY AliveAlone
<1> QED
  BY <1>3, <1>4, <1>5, ClaimsOfRuns

-----------------------------------------------------------------------------
(* How the steps of a run add to what it has behind it.                    *)

Advances(old, new) ==
  \/ new.pc \notin Loop \cup WayOut
  \/ new.pc \in WayOut /\ new.outcome # "ok"
  \/ new.pc \in WayOut /\ old.pc \in WayOut /\ new.outcome = old.outcome
  \/ new.pc \in WayOut /\ old.pc = "head" /\ old.step = Len(ThePlan)
  \/ /\ new.resumeFrom = old.resumeFrom /\ old.pc \in Loop
     /\ \/ /\ new.pc = "head" /\ new.step = old.step + 1
           /\ old.pc = "check" \/ old.step < old.resumeFrom
        \/ /\ new.step = old.step
           /\ \/ new.pc \in {"head", "exec", "pause", "ddl"}
              \/ new.pc \in {"complete", "own"} /\ old.pc \in {"complete", "own"}
              \/ new.pc \in {"progress", "check"} /\ old.pc \in {"progress", "check"}

(* The statements after which the run relies on the step it is in.         *)
Works(old, new) ==
  /\ new.resumeFrom = old.resumeFrom /\ new.step = old.step
  /\ \/ old.pc \in {"exec", "pause", "own"} /\ new.pc = "progress"
     \/ old.pc = "ddl" /\ new.pc = "complete"

LEMMA AdvanceClaims ==
  ASSUME CheckInv, OnePlan, NEW r \in Alive, NEW new, run' = [run EXCEPT ![r] = new],
         UNCHANGED migrations, NEW i \in CreatesOfPlan,
         \/ Advances(run[r], new)
         \/ Works(run[r], new) /\ i # run[r].step + 1
  PROVE  NoNewClaim(i)
<1>1. /\ r \in Run /\ TypeInv /\ run[r].step \in Nat /\ run[r].resumeFrom \in Nat
      /\ Alive \subseteq {r}
  BY CourseOf, AliveAlone
<1>2. i \in Nat /\ i <= Len(ThePlan) /\ Len(ThePlan) \in Nat
  BY ThePlanGood DEF CreatesOfPlan
<1>3. new.pc \notin {"idle", "ended"} /\ Carries(new, i) => Carries(run[r], i)
  BY <1>1, <1>2 DEF Advances, Works, Carries
<1>4. new.pc \notin {"idle", "ended"} /\ CarriesOwned(new, i) => CarriesOwned(run[r], i)
  BY <1>1, <1>2 DEF Advances, Works, CarriesOwned
<1>5. CoveredByCheckpoint(i)' => CoveredByCheckpoint(i)
  BY DEF CoveredByCheckpoint, LatestUnfinished, Latest
<1> QED
  BY <1>1, <1>3, <1>4, <1>5, ClaimsByRun, ClaimsOfRuns

LEMMA DesiredByRun ==
  ASSUME CheckInv, ConvergenceInv, NEW r \in Alive, NEW new, run' = [run EXCEPT ![r] = new],
         new.desired = run[r].desired
  PROVE  \A s \in Alive' : run'[s].desired \in Desired
<1>1. r \in Run /\ TypeInv
  BY DEF CheckInv, AloneInv, PauseInv, Alive
<1>2. run' = [s \in Run |-> IF s = r THEN new ELSE run[s]]
  BY <1>1, RunsAreFunctions
<1>3. \A s \in Alive' : s \in Run /\ (s = r \/ s \in Alive)
  BY <1>2 DEF Alive
<1>4. \A s \in Alive : run[s].desired \in Desired
  BY DEF ConvergenceInv
<1> QED
  BY <1>2, <1>3, <1>4

(* A step that leaves the tables, their owners and the migrations alone.   *)
LEMMA MoveConverges ==
  ASSUME CheckInv, OnePlan, ConvergenceInv, NEW r \in Alive, NEW new,
         run' = [run EXCEPT ![r] = new], new.desired = run[r].desired,
         \/ Advances(run[r], new)
         \/ Works(run[r], new) /\ CurrentStep(r).op # "CreateStreamTable",
         UNCHANGED <<migrations, tables, owned>>
  PROVE  ConvergenceInv'
<1>1. run[r].plan = ThePlan
  BY CourseOf
<1>2. \A i \in CreatesOfPlan : i = run[r].step + 1 => CurrentStep(r).op = "CreateStreamTable"
  BY <1>1 DEF CreatesOfPlan, CurrentStep
<1>3. \A i \in CreatesOfPlan : NoNewClaim(i)
  BY <1>2, AdvanceClaims
<1> QED
  BY <1>3, DesiredByRun, ConvergenceKept

(* Before the loop nothing of the plan is executed.                        *)
LEMMA FindConverges ==
  ASSUME CheckInv, OnePlan, ConvergenceInv, NEW r \in Run,
         \/ FindResumeStep(r) \/ FindPendingSteps(r) \/ AllCompensated(r)
         \/ MarkCompensated(r)
  PROVE  ConvergenceInv'
<1>1. /\ run[r].pc \in {"find", "pending", "compensate", "mark"} /\ r \in Alive
      /\ UNCHANGED <<migrations, tables, owned>>
  BY DEF FindResumeStep, FindPendingSteps, AllCompensated, MarkCompensated, At, catalog,
     pgtrickle, Alive
<1>2. TypeInv
  BY DEF CheckInv, AloneInv, PauseInv
<1>3. PICK new :
        /\ run' = [run EXCEPT ![r] = new]
        /\ \/ new = [run[r] EXCEPT !.pc = "start"]
           \/ \E m, from : new = [run[r] EXCEPT !.pc = "pending", !.migration = m,
                                                !.resumeFrom = from]
           \/ \E pending : new = [run[r] EXCEPT !.pc = "compensate", !.pending = pending]
  <2>1. CASE FindResumeStep(r)
    <3>1. CASE Goto(r, "start")
      BY <3>1 DEF Goto
    <3>2. CASE ~Goto(r, "start")
      <4>1. PICK m : run' = [run EXCEPT ![r].pc = "pending", ![r].migration = m,
                                        ![r].resumeFrom = ResumePoint(m)]
        BY <2>1, <3>2 DEF FindResumeStep
      <4>2. run' = [run EXCEPT ![r] = [run[r] EXCEPT !.pc = "pending",
                                   !.migration = m, !.resumeFrom = ResumePoint(m)]]
        BY <4>1
      <4> QED
        BY <4>2
    <3> QED
      BY <3>1, <3>2
  <2>2. CASE FindPendingSteps(r)
    BY <2>2 DEF FindPendingSteps
  <2>3. CASE AllCompensated(r)
    BY <2>3 DEF AllCompensated, Goto
  <2>4. CASE MarkCompensated(r)
    <3>1. PICK l : run' = [run EXCEPT ![r].pc = "compensate",
                                      ![r].pending = run[r].pending \ {l}]
      BY <2>4 DEF MarkCompensated
    <3>2. run' = [run EXCEPT ![r] = [run[r] EXCEPT !.pc = "compensate",
                                              !.pending = run[r].pending \ {l}]]
      BY <3>1
    <3> QED
      BY <3>2
  <2> QED
    BY <2>1, <2>2, <2>3, <2>4
<1>4. new.pc \in {"start", "pending", "compensate"} /\ new.desired = run[r].desired
  BY <1>2, <1>3, RunsAreFunctions DEF RunState
<1> QED
  BY <1>1, <1>3, <1>4, MoveConverges DEF Advances

(* An error that leaves the loop, or the end of the plan.                  *)
LEMMA FailConverges ==
  ASSUME CheckInv, OnePlan, ConvergenceInv, NEW r \in Alive, NEW outcome, Fail(r, outcome),
         outcome = "ok" => run[r].pc = "head" /\ run[r].step = Len(run[r].plan),
         UNCHANGED <<migrations, tables, owned>>
  PROVE  ConvergenceInv'
<1> DEFINE new == [run[r] EXCEPT !.pc = "release", !.outcome = outcome]
<1>1. run' = [run EXCEPT ![r] = new]
  BY DEF Fail
<1>2. /\ new.pc = "release" /\ new.outcome = outcome /\ new.desired = run[r].desired
      /\ run[r].plan = ThePlan
  BY CourseOf DEF RunState
<1> HIDE DEF new
<1> QED
  BY <1>1, <1>2, MoveConverges DEF Advances

(* The head of the loop, the check after a step, a statement that fails.   *)
LEMMA HeadConverges ==
  ASSUME CheckInv, OnePlan, ConvergenceInv, NEW r \in Run,
         NextStep(r) \/ CheckAfterStep(r) \/ StepFails(r)
  PROVE  ConvergenceInv'
<1>1. /\ run[r].pc \in Loop /\ r \in Alive
      /\ UNCHANGED <<migrations, tables, owned>>
  BY DEF NextStep, CheckAfterStep, StepFails, At, AtStep, catalog, pgtrickle, Alive
<1>2. /\ run[r] \in RunState /\ run[r].step \in Nat
      /\ run[r].args.forceRetry = None /\ run[r].args.forceSkip = None
  BY <1>1, CourseOf
<1>3. None # run[r].step
  BY <1>2, NothingAssumption
<1>4. CASE \E outcome : /\ Fail(r, outcome)
                        /\ outcome = "ok" =>
                             run[r].pc = "head" /\ run[r].step = Len(run[r].plan)
  BY <1>1, <1>4, FailConverges
<1>5. CASE Goto(r, "exec")
  <2> DEFINE new == [run[r] EXCEPT !.pc = "exec"]
  <2>1. run' = [run EXCEPT ![r] = new]
    BY <1>5 DEF Goto
  <2>2. /\ new.pc = "exec" /\ new.step = run[r].step
        /\ new.resumeFrom = run[r].resumeFrom /\ new.desired = run[r].desired
    BY <1>2 DEF RunState
  <2> HIDE DEF new
  <2> QED
    BY <1>1, <2>1, <2>2, MoveConverges DEF Advances
<1>6. CASE /\ run' = [run EXCEPT ![r].pc = "head", ![r].step = run[r].step + 1]
           /\ run[r].pc = "check" \/ run[r].step < run[r].resumeFrom
  <2> DEFINE new == [run[r] EXCEPT !.pc = "head", !.step = run[r].step + 1]
  <2>1. run' = [run EXCEPT ![r] = new]
    BY <1>6
  <2>2. /\ new.pc = "head" /\ new.step = run[r].step + 1
        /\ new.resumeFrom = run[r].resumeFrom /\ new.desired = run[r].desired
    BY <1>2 DEF RunState
  <2> HIDE DEF new
  <2> QED
    BY <1>1, <1>6, <2>1, <2>2, MoveConverges DEF Advances
<1>7. CASE NextStep(r)
  <2>1. run[r].pc = "head"
    BY <1>7 DEF NextStep, At
  <2>2. CASE run[r].step # Len(run[r].plan) /\ Skips(r)
    <3>1. run[r].step < run[r].resumeFrom
      BY <1>3, <1>2, <2>2 DEF Skips, AlreadyDone
    <3>2. run' = [run EXCEPT ![r].step = run[r].step + 1]
      BY <1>7, <2>2 DEF NextStep, StepAfter
    <3>3. [run[r] EXCEPT !.step = run[r].step + 1]
            = [run[r] EXCEPT !.pc = "head", !.step = run[r].step + 1]
      BY <1>2, <2>1 DEF RunState
    <3>4. run' = [run EXCEPT ![r] = [run[r] EXCEPT !.step = run[r].step + 1]]
      BY <3>2
    <3>5. run' = [run EXCEPT ![r] = [run[r] EXCEPT !.pc = "head", !.step = run[r].step + 1]]
      BY <3>3, <3>4
    <3> QED
      BY <1>6, <3>1, <3>5
  <2>3. CASE run[r].step = Len(run[r].plan) \/ ~Skips(r)
    BY <1>4, <1>5, <1>7, <2>1, <2>3 DEF NextStep
  <2> QED
    BY <2>2, <2>3
<1>8. CASE CheckAfterStep(r)
  <2>1. run[r].pc = "check"
    BY <1>8 DEF CheckAfterStep, At
  <2> QED
    BY <1>4, <1>6, <1>8, <2>1 DEF CheckAfterStep, StepAfter
<1>9. CASE StepFails(r)
  BY <1>4, <1>9 DEF StepFails
<1> QED
  BY <1>7, <1>8, <1>9

(* The statements of a step that change no stream table and no owner.      *)
LEMMA StepConverges ==
  ASSUME CheckInv, OnePlan, ConvergenceInv, "bestEffort" \notin Faults, NEW r \in Run,
         \/ AcquireLock(r) \/ PauseScheduler(r) \/ PassiveStep(r) \/ LogCreate(r)
         \/ LogDrop(r) \/ CompleteLog(r) \/ RecreatePolicy(r) \/ RecordSnapshot(r)
         \/ UnlockDag(r)
  PROVE  ConvergenceInv'
<1>1. /\ run[r].pc \in {"exec", "pause", "complete"} /\ r \in Alive
      /\ UNCHANGED <<migrations, tables, owned>>
  BY DEF AcquireLock, PauseScheduler, PassiveStep, LogCreate, LogDrop, CompleteLog,
     RecreatePolicy, RecordSnapshot, UnlockDag, At, AtStep, catalog, pgtrickle, Alive
<1>2. TypeInv /\ run[r] \in RunState
  BY <1>1, CourseOf
<1>3. CASE LogDrop(r)
  <2>1. PICK cache : cache = run[r].policyCache \cup ({CurrentStep(r).table} \cap policies)
    OBVIOUS
  <2> DEFINE new == [run[r] EXCEPT !.pc = "ddl", !.policyCache = cache]
  <2>2. run' = [run EXCEPT ![r] = new]
    BY <1>3, <2>1 DEF LogDrop
  <2>3. /\ new.pc = "ddl" /\ new.step = run[r].step
        /\ new.resumeFrom = run[r].resumeFrom /\ new.desired = run[r].desired
    BY <1>2 DEF RunState
  <2> HIDE DEF new
  <2> QED
    BY <1>1, <2>2, <2>3, MoveConverges DEF Advances
<1>4. CASE LogCreate(r) \/ CompleteLog(r)
  <2>1. PICK pc \in {"ddl", "own"} :
          /\ pc = "own" => run[r].pc = "complete"
          /\ Goto(r, pc)
    BY <1>4 DEF LogCreate, CompleteLog, At
  <2> DEFINE new == [run[r] EXCEPT !.pc = pc]
  <2>2. run' = [run EXCEPT ![r] = new]
    BY <2>1 DEF Goto
  <2>3. /\ new.pc = pc /\ new.step = run[r].step
        /\ new.resumeFrom = run[r].resumeFrom /\ new.desired = run[r].desired
    BY <1>2 DEF RunState
  <2> HIDE DEF new
  <2> QED
    BY <1>1, <2>1, <2>2, <2>3, MoveConverges DEF Advances
<1>5. CASE \/ AcquireLock(r) \/ PauseScheduler(r) \/ PassiveStep(r)
           \/ RecreatePolicy(r) \/ RecordSnapshot(r) \/ UnlockDag(r)
  <2>1. CurrentStep(r).op # "CreateStreamTable" /\ run[r].pc \in {"exec", "pause"}
    <3>1. PauseScheduler(r) => CurrentStep(r).op = "LockDag"
      BY <1>2 DEF PauseScheduler, At, TypeInv, StepMatchesPc
    <3> QED
      BY <1>5, <3>1 DEF AcquireLock, PauseScheduler, PassiveStep, WaitsAndHooks,
         RecreatePolicy, RecordSnapshot, UnlockDag, At, AtStep
  <2>2. CASE Fail(r, "failed")
    BY <1>1, <2>2, FailConverges
  <2>3. PICK pc \in {"pause", "progress"}, locked \in BOOLEAN, asked \in BOOLEAN :
          \/ Fail(r, "failed")
          \/ run' = [run EXCEPT ![r] = [run[r] EXCEPT !.pc = pc, !.locked = locked,
                                                     !.schedulerPaused = asked]]
    <3>1. CASE AcquireLock(r)
      <4>1. PICK pc \in {"pause", "progress"} :
              Fail(r, "failed") \/ run' = [run EXCEPT ![r].locked = TRUE, ![r].pc = pc]
        BY <3>1 DEF AcquireLock, ReportContention
      <4>2. [run[r] EXCEPT !.locked = TRUE, !.pc = pc]
              = [run[r] EXCEPT !.pc = pc, !.locked = TRUE,
                               !.schedulerPaused = run[r].schedulerPaused]
        BY <1>2 DEF RunState
      <4>3. run[r].schedulerPaused \in BOOLEAN
        BY <1>2 DEF RunState
      <4>4. \/ Fail(r, "failed")
            \/ run' = [run EXCEPT ![r] = [run[r] EXCEPT !.locked = TRUE, !.pc = pc]]
        BY <4>1
      <4> QED
        BY <4>2, <4>3, <4>4
    <3>2. CASE PauseScheduler(r)
      <4>1. run' = [run EXCEPT ![r] = [run[r] EXCEPT !.pc = "progress",
                                                     !.schedulerPaused = TRUE]]
        BY <3>2 DEF PauseScheduler
      <4>2. /\ [run[r] EXCEPT !.pc = "progress", !.schedulerPaused = TRUE]
                 = [run[r] EXCEPT !.pc = "progress", !.locked = run[r].locked,
                                  !.schedulerPaused = TRUE]
            /\ run[r].locked \in BOOLEAN
        BY <1>2 DEF RunState
      <4> QED
        BY <4>1, <4>2
    <3>3. CASE UnlockDag(r)
      <4>1. run' = [run EXCEPT ![r] = [run[r] EXCEPT !.locked = FALSE,
                                                     !.pc = "progress"]]
        BY <3>3 DEF UnlockDag
      <4>2. /\ [run[r] EXCEPT !.locked = FALSE, !.pc = "progress"]
                 = [run[r] EXCEPT !.pc = "progress", !.locked = FALSE,
                                  !.schedulerPaused = run[r].schedulerPaused]
            /\ run[r].schedulerPaused \in BOOLEAN
        BY <1>2 DEF RunState
      <4> QED
        BY <4>1, <4>2
    <3>4. CASE PassiveStep(r) \/ RecreatePolicy(r) \/ RecordSnapshot(r)
      <4>1. run' = [run EXCEPT ![r] = [run[r] EXCEPT !.pc = "progress"]]
        BY <3>4 DEF PassiveStep, RecreatePolicy, RecordSnapshot, Goto
      <4>2. /\ [run[r] EXCEPT !.pc = "progress"]
                 = [run[r] EXCEPT !.pc = "progress", !.locked = run[r].locked,
                                  !.schedulerPaused = run[r].schedulerPaused]
            /\ run[r].schedulerPaused \in BOOLEAN /\ run[r].locked \in BOOLEAN
        BY <1>2 DEF RunState
      <4> QED
        BY <4>1, <4>2
    <3> QED
      BY <1>5, <3>1, <3>2, <3>3, <3>4
  <2> DEFINE new == [run[r] EXCEPT !.pc = pc, !.locked = locked, !.schedulerPaused = asked]
  <2>4. /\ new.pc = pc /\ new.step = run[r].step
        /\ new.resumeFrom = run[r].resumeFrom /\ new.desired = run[r].desired
    BY <1>2 DEF RunState
  <2>5. Fail(r, "failed") \/ run' = [run EXCEPT ![r] = new]
    BY <2>3
  <2> HIDE DEF new
  <2>6. CASE run' = [run EXCEPT ![r] = new]
    BY <1>1, <2>1, <2>4, <2>6, MoveConverges DEF Advances, Works
  <2> QED
    BY <2>2, <2>5, <2>6
<1> QED
  BY <1>3, <1>4, <1>5

(* The way out.                                                            *)
LEMMA OutConverges ==
  ASSUME CheckInv, OnePlan, ConvergenceInv, NEW r \in Run,
         ReleaseLock(r) \/ ResumeScheduler(r)
  PROVE  ConvergenceInv'
<1>1. /\ run[r].pc \in {"release", "unpause"} /\ r \in Alive
      /\ UNCHANGED <<migrations, tables, owned>>
  BY DEF ReleaseLock, ResumeScheduler, At, catalog, pgtrickle, Alive
<1>2. PICK new :
        /\ run' = [run EXCEPT ![r] = new]
        /\ \/ new = [run[r] EXCEPT !.locked = FALSE, !.pc = "unpause"]
           \/ new = [run[r] EXCEPT !.pc = "finish", !.schedulerPaused = FALSE,
                                   !.heartbeat = FALSE]
  <2>1. CASE ReleaseLock(r)
    BY <2>1 DEF ReleaseLock
  <2>2. CASE ResumeScheduler(r)
    BY <2>2 DEF ResumeScheduler
  <2> QED
    BY <2>1, <2>2
<1>3. /\ new.pc \in {"unpause", "finish"} /\ new.outcome = run[r].outcome
      /\ new.desired = run[r].desired
  BY <1>1, <1>2, CourseOf DEF RunState
<1> QED
  BY <1>1, <1>2, <1>3, MoveConverges DEF Advances

(* What ends a run before its migration is finished.                       *)
LEMMA EndConverges ==
  ASSUME CheckInv, OnePlan, ConvergenceInv, NEW r \in Run, StartupFails(r) \/ Crash(r)
  PROVE  ConvergenceInv'
<1>1. r \in Alive /\ UNCHANGED <<migrations, tables, owned>>
  BY DEF StartupFails, Crash, catalog, pgtrickle, Alive
<1>2. TypeInv /\ Alive \subseteq {r}
  BY <1>1, CourseOf, AliveAlone
<1>3. PICK new : run' = [run EXCEPT ![r] = new] /\ new.pc = "ended"
  <2>1. Exited("error").pc = "ended" /\ Exited("crashed").pc = "ended"
    BY DEF Exited, IdleRun
  <2> QED
    BY <2>1 DEF StartupFails, Crash
<1>4. \A i \in CreatesOfPlan : NoNewClaim(i)
  BY <1>1, <1>3, AdvanceClaims DEF Advances
<1>5. Alive' = {}
  <2>1. run' = [s \in Run |-> IF s = r THEN new ELSE run[s]]
    BY <1>2, <1>3, RunsAreFunctions
  <2> QED
    BY <1>2, <1>3, <2>1 DEF Alive
<1> QED
  BY <1>1, <1>4, <1>5, ConvergenceKept

LEMMA BeginConverges ==
  ASSUME CheckInv, OnePlan, ConvergenceInv, MaxActive = 1, IsFiniteSet(Run), NEW r \in Run,
         Begin(r)
  PROVE  ConvergenceInv'
<1>1. Alive = {} /\ TypeInv /\ UNCHANGED <<migrations, tables, owned>>
  BY BeginsFirst DEF CheckInv, AloneInv, PauseInv, Begin, catalog, pgtrickle
<1>2. PICK args, desired, plan :
        /\ desired \in Desired
        /\ run' = [run EXCEPT ![r] =
             IF NoChanges(plan) THEN Exited("nochange")
             ELSE [IdleRun EXCEPT !.args = args, !.desired = desired, !.plan = plan,
                                  !.pc = IF args.resume THEN "find" ELSE "start"]]
  BY DEF Begin
<1>3. PICK new : new = IF NoChanges(plan) THEN Exited("nochange")
        ELSE [IdleRun EXCEPT !.args = args, !.desired = desired, !.plan = plan,
                             !.pc = IF args.resume THEN "find" ELSE "start"]
  OBVIOUS
<1>4. \/ new.pc = "ended"
      \/ new.pc \in {"find", "start"} /\ new.desired = desired
  BY <1>3 DEF Exited, IdleRun
<1>5. run' = [s \in Run |-> IF s = r THEN new ELSE run[s]] /\ run' = [run EXCEPT ![r] = new]
  BY <1>1, <1>2, <1>3, RunsAreFunctions
<1>6. \A s \in Alive' : s = r /\ run'[s] = new
  BY <1>1, <1>5 DEF Alive
<1>7. \A i \in CreatesOfPlan : NoNewClaim(i)
  <2>1. SUFFICES ASSUME NEW i \in CreatesOfPlan PROVE NoNewClaim(i)
    OBVIOUS
  <2>2. ~Carries(new, i) /\ ~CarriesOwned(new, i)
    BY <1>4 DEF Carries, CarriesOwned
  <2>3. CoveredByCheckpoint(i)' => CoveredByCheckpoint(i)
    BY <1>1 DEF CoveredByCheckpoint, LatestUnfinished, Latest
  <2> QED
    BY <1>1, <1>5, <2>2, <2>3, ClaimsByRun
<1>8. \A s \in Alive' : run'[s].desired \in Desired
  <2>1. SUFFICES ASSUME NEW s \in Alive' PROVE run'[s].desired \in Desired
    OBVIOUS
  <2>2. run'[s] = new /\ new.pc # "ended"
    BY <1>6, <2>1 DEF Alive
  <2> QED
    BY <1>2, <1>4, <2>2
<1> QED
  BY <1>1, <1>7, <1>8, ConvergenceKept

(* A run that enters the loop relies on what the checkpoint it found says. *)
LEMMA StartConverges ==
  ASSUME CheckInv, CheckInv', OnePlan, PlanArrives, ConvergenceInv, NEW r \in Run,
         StartMigration(r)
  PROVE  ConvergenceInv'
<1>1. /\ run[r].pc = "start" /\ r \in Alive
      /\ UNCHANGED <<tables, owned>>
  BY DEF StartMigration, At, pgtrickle, Alive
<1>2. /\ TypeInv /\ OnCourse(r) /\ run[r] \in RunState /\ Alive \subseteq {r}
      /\ run[r].step = 0 /\ run[r].resumeFrom \in Nat
  BY <1>1, CourseOf, AliveAlone DEF TypeInv, StepMatchesPc
<1>3. PICK m :
        /\ EnterLoop(r, m)
        /\ \/ m \in Reused(r) /\ UNCHANGED migrations
           \/ /\ Reused(r) = {} /\ m = Len(migrations) + 1
              /\ migrations' = NewMigration(r)
  BY DEF StartMigration
<1>4. PICK beats :
        run' = [run EXCEPT ![r].pc = "head", ![r].migration = m, ![r].heartbeat = beats]
  BY <1>3 DEF EnterLoop
<1> DEFINE new == [run[r] EXCEPT !.pc = "head", !.migration = m, !.heartbeat = beats]
<1>5. run' = [run EXCEPT ![r] = new]
  BY <1>4
<1>6. /\ new.pc = "head" /\ new.resumeFrom = run[r].resumeFrom
      /\ new.step = 0 /\ new.migration = m /\ new.desired = run[r].desired
  BY <1>2 DEF RunState
<1> HIDE DEF new
<1>7. run'[r] = new /\ r \in Alive'
  BY <1>2, <1>5, <1>6, RunsAreFunctions DEF Alive
<1>8. LatestUnfinished' = {m}
  BY <1>6, <1>7 DEF CheckInv, CheckpointInv, OnCourse, KnowsMigration
<1>9. ASSUME NEW i \in CreatesOfPlan PROVE NoNewClaim(i)
  <2>1. i \in Nat /\ i > 1
    BY CreateOnItsTable
  <2>2. i <= run[r].resumeFrom => CoveredByCheckpoint(i)
    <3>1. SUFFICES ASSUME i <= run[r].resumeFrom PROVE CoveredByCheckpoint(i)
      OBVIOUS
    <3>2. run[r].resumeFrom > 0
      BY <1>2, <2>1, <3>1
    <3> QED
      BY <1>1, <1>2, <3>1, <3>2
      DEF OnCourse, KnowsMigration, ResumePoint, CoveredByCheckpoint
  <2>3. Carries(new, i) \/ CarriesOwned(new, i) => CoveredByCheckpoint(i)
    BY <1>6, <2>1, <2>2 DEF Carries, CarriesOwned
  <2>4. CoveredByCheckpoint(i)' => CoveredByCheckpoint(i)
    <3>1. CASE UNCHANGED migrations
      BY <3>1 DEF CoveredByCheckpoint, LatestUnfinished, Latest
    <3>2. CASE m = Len(migrations) + 1 /\ migrations' = NewMigration(r)
      <4>1. migrations'[m].progress = 0
        <5>1. migrations \in Seq(MigrationRow)
          BY <1>2 DEF TypeInv, TypeOK
        <5>2. migrations'[m] = [status |-> "running", progress |-> 0, plan |-> run[r].plan]
          BY <1>2, <3>2, <5>1, MigrationRows DEF NewMigration
        <5> QED
          BY <5>2
      <4> QED
        BY <1>8, <2>1, <4>1 DEF CoveredByCheckpoint
    <3> QED
      BY <1>3, <3>1, <3>2
  <2> QED
    BY <1>2, <1>5, <2>3, <2>4, ClaimsByRun, ClaimsOfRuns
<1> QED
  BY <1>1, <1>5, <1>6, <1>9, DesiredByRun, ConvergenceKept

(* The checkpoint covers the step the run relies on already.               *)
LEMMA SaveConverges ==
  ASSUME CheckInv, CheckInv', OnePlan, PlanArrives, ConvergenceInv, NEW r \in Run,
         SaveProgress(r)
  PROVE  ConvergenceInv'
<1> DEFINE new == [run[r] EXCEPT !.pc = "check"]
<1>1. /\ run[r].pc = "progress" /\ r \in Alive
      /\ run' = [run EXCEPT ![r] = new]
      /\ migrations' = [migrations EXCEPT ![run[r].migration].progress = run[r].step]
      /\ UNCHANGED <<tables, owned>>
  BY DEF SaveProgress, CheckpointedStep, At, Goto, pgtrickle, Alive
<1>2. /\ TypeInv /\ OnCourse(r) /\ run[r] \in RunState /\ Alive \subseteq {r}
      /\ run[r].step \in Nat /\ run[r].resumeFrom \in Nat
  BY <1>1, CourseOf, AliveAlone
<1>3. /\ new.pc = "check" /\ new.step = run[r].step /\ new.migration = run[r].migration
      /\ new.resumeFrom = run[r].resumeFrom /\ new.desired = run[r].desired
  BY <1>2 DEF RunState
<1> HIDE DEF new
<1>4. PICK m : m = run[r].migration
  OBVIOUS
<1>5. run'[r] = new /\ r \in Alive'
  BY <1>1, <1>2, <1>3, RunsAreFunctions DEF Alive
<1>6. LatestUnfinished = {m} /\ LatestUnfinished' = {m}
  BY <1>1, <1>2, <1>3, <1>4, <1>5 DEF CheckInv, CheckpointInv, OnCourse, KnowsMigration
<1>7. migrations'[m].progress = run[r].step
  <2>1. m \in DOMAIN migrations /\ migrations[m] \in MigrationRow
    BY <1>2, <1>6, UnfinishedIsRow, MigrationRows
  <2>2. PICK row : row = [migrations[m] EXCEPT !.progress = run[r].step]
    OBVIOUS
  <2>3. row.progress = run[r].step
    BY <2>1, <2>2 DEF MigrationRow
  <2>4. migrations' = [migrations EXCEPT ![m] = row]
    BY <1>1, <1>4, <2>2
  <2> QED
    BY <2>1, <2>3, <2>4
<1>8. ASSUME NEW i \in CreatesOfPlan PROVE NoNewClaim(i)
  <2>1. i \in Nat
    BY CreateOnItsTable
  <2>2. Carries(new, i) => Carries(run[r], i)
    BY <1>1, <1>3 DEF Carries
  <2>3. CarriesOwned(new, i) => CarriesOwned(run[r], i)
    BY <1>1, <1>3 DEF CarriesOwned
  <2>4. CoveredByCheckpoint(i)' => Carries(run[r], i) /\ CarriesOwned(run[r], i)
    <3>1. CoveredByCheckpoint(i)' => i <= run[r].step + 1
      BY <1>6, <1>7 DEF CoveredByCheckpoint
    <3> QED
      BY <1>1, <1>2, <2>1, <3>1 DEF Carries, CarriesOwned
  <2>5. /\ Claimed(i)' => Claimed(i)
        /\ ClaimedOwned(i)' => ClaimedOwned(i)
    <3>1. \A s \in Alive' : s = r
      <4>1. run' = [s \in Run |-> IF s = r THEN new ELSE run[s]]
        BY <1>1, <1>2, RunsAreFunctions
      <4> QED
        BY <1>2, <4>1 DEF Alive
    <3> QED
      BY <1>1, <1>5, <2>2, <2>3, <2>4, <3>1, ClaimsOfRuns, ClaimsOfRunsNext
  <2> QED
    BY <2>5 DEF NoNewClaim
<1> QED
  BY <1>1, <1>3, <1>8, DesiredByRun, ConvergenceKept

(* A run that is through relies on every step already, and one that failed *)
(* leaves its checkpoint as it is.                                         *)
LEMMA FinishConverges ==
  ASSUME CheckInv, OnePlan, ConvergenceInv, "bestEffort" \notin Faults, NEW r \in Run,
         FinishMigration(r)
  PROVE  ConvergenceInv'
<1>1. /\ run[r].pc = "finish" /\ r \in Alive
      /\ migrations' = [migrations EXCEPT
            ![run[r].migration] = FinishedRow(@, run[r].outcome)]
      /\ run' = [run EXCEPT ![r] = Exited(run[r].outcome)]
      /\ UNCHANGED <<tables, owned>>
  BY DEF FinishMigration, BestEffortFails, At, pgtrickle, Alive
<1>2. /\ TypeInv /\ OnCourse(r) /\ run[r].outcome \in {"ok", "failed"}
      /\ Alive \subseteq {r}
  BY <1>1, CourseOf, AliveAlone DEF OnCourse, TypeInv, OutcomeMatchesPc
<1>3. PICK new : new = Exited(run[r].outcome)
  OBVIOUS
<1>4. run' = [run EXCEPT ![r] = new] /\ new.pc = "ended"
  BY <1>1, <1>3 DEF Exited, IdleRun
<1>5. Alive' = {}
  <2>1. run' = [s \in Run |-> IF s = r THEN new ELSE run[s]]
    BY <1>2, <1>4, RunsAreFunctions
  <2> QED
    BY <1>2, <1>4, <2>1 DEF Alive
<1>6. ASSUME NEW i PROVE NoNewClaim(i)
  <2>1. CASE run[r].outcome = "ok"
    BY <1>1, <2>1 DEF NoNewClaim, Claimed, ClaimedOwned, Through
  <2>2. CASE run[r].outcome = "failed"
    <3>1. PICK m : m = run[r].migration
      OBVIOUS
    <3>2. LatestUnfinished = {m}
      BY <1>1, <1>2, <3>1 DEF OnCourse, KnowsMigration
    <3>3. /\ m \in DOMAIN migrations /\ migrations[m] \in MigrationRow
          /\ migrations[m].status \in Resumable
      BY <1>2, <3>2, UnfinishedIsRow, MigrationRows
    <3>4. PICK row : row = [migrations[m] EXCEPT !.status = "recoverable_failure"]
      OBVIOUS
    <3>5. row.status \in Resumable /\ row.progress = migrations[m].progress
      BY <3>3, <3>4 DEF MigrationRow, Resumable
    <3>6. migrations' = [migrations EXCEPT ![m] = row]
      BY <1>1, <2>2, <3>1, <3>4 DEF FinishedRow
    <3>7. /\ DOMAIN migrations' = DOMAIN migrations
          /\ \A k \in DOMAIN migrations :
               /\ migrations'[k].status \in Resumable <=> migrations[k].status \in Resumable
               /\ migrations'[k].progress = migrations[k].progress
      BY <1>2, <3>3, <3>5, <3>6, MigrationRows
    <3>8. LatestUnfinished' = LatestUnfinished
      BY <3>7, SameUnfinished
    <3>9. CoveredByCheckpoint(i)' => CoveredByCheckpoint(i)
      BY <3>2, <3>3, <3>7, <3>8 DEF CoveredByCheckpoint
    <3> QED
      BY <1>2, <1>4, <3>9, ClaimsByRun
  <2> QED
    BY <1>2, <2>1, <2>2
<1> QED
  BY <1>1, <1>5, <1>6, ConvergenceKept

(* Heartbeats and the lock row are no part of it.                          *)
LEMMA OthersConverge ==
  ASSUME CheckInv, ConvergenceInv,
         \/ \E r \in Run : Heartbeat(r)
         \/ LockExpires \/ ShowLock \/ ForceUnlock
         \/ UNCHANGED vars
  PROVE  ConvergenceInv'
<1>1. TypeInv
  BY DEF CheckInv, AloneInv, PauseInv
<1>2. UNCHANGED <<migrations, tables, owned>>
  BY DEF Heartbeat, LockExpires, ShowLock, ForceUnlock, vars, catalog, pgtrickle
<1>3. \A s \in Run :
        /\ run'[s].step = run[s].step /\ run'[s].resumeFrom = run[s].resumeFrom
        /\ run'[s].outcome = run[s].outcome /\ run'[s].pc = run[s].pc
        /\ run'[s].desired = run[s].desired
  <2>1. CASE UNCHANGED run
    BY <2>1
  <2>2. CASE \E r \in Run : Heartbeat(r) /\ run' # run
    <3>1. PICK r \in Run :
            run' = [run EXCEPT ![r].lockLost = TRUE, ![r].heartbeat = FALSE]
      BY <2>2 DEF Heartbeat
    <3> DEFINE new == [run[r] EXCEPT !.lockLost = TRUE, !.heartbeat = FALSE]
    <3>2. run' = [run EXCEPT ![r] = new]
      BY <3>1
    <3>3. /\ new.step = run[r].step /\ new.resumeFrom = run[r].resumeFrom
          /\ new.outcome = run[r].outcome /\ new.pc = run[r].pc
          /\ new.desired = run[r].desired
      BY <1>1, RunsAreFunctions DEF RunState
    <3> HIDE DEF new
    <3>4. run' = [s \in Run |-> IF s = r THEN new ELSE run[s]]
      BY <1>1, <3>2, RunsAreFunctions
    <3> QED
      BY <3>3, <3>4
  <2>3. (\E r \in Run : Heartbeat(r) /\ run' # run) \/ UNCHANGED run
    BY DEF LockExpires, ShowLock, ForceUnlock, vars
  <2> QED
    BY <2>1, <2>2, <2>3
<1>4. \A s \in Alive' : s \in Alive /\ s \in Run
  BY <1>3 DEF Alive
<1>5. ASSUME NEW i PROVE NoNewClaim(i)
  <2>1. \A s \in Run :
          /\ Carries(run'[s], i) => Carries(run[s], i)
          /\ CarriesOwned(run'[s], i) => CarriesOwned(run[s], i)
    BY <1>3 DEF Carries, CarriesOwned
  <2>2. CoveredByCheckpoint(i)' => CoveredByCheckpoint(i)
    BY <1>2 DEF CoveredByCheckpoint, LatestUnfinished, Latest
  <2> QED
    BY <1>4, <2>1, <2>2, ClaimsOfRuns, ClaimsOfRunsNext DEF NoNewClaim
<1>6. \A s \in Alive' : run'[s].desired \in Desired
  BY <1>3, <1>4 DEF ConvergenceInv
<1> QED
  BY <1>2, <1>5, <1>6, ConvergenceKept

-----------------------------------------------------------------------------
(* The statements that change a stream table or its owner.                 *)

(* It is enough to look at the table of the step.                          *)
LEMMA ConvergenceOnTable ==
  ASSUME OnePlan, PlanArrives, ConvergenceInv,
         \A s \in Alive' : run'[s].desired \in Desired,
         NEW u \in Table,
         \A t \in Table : t # u => tables'[t] = tables[t] /\ (t \in owned' <=> t \in owned),
         \A i \in CreatesOfPlan : ThePlan[i].table # u => NoNewClaim(i),
         \A i \in CreatesOfPlan : ThePlan[i].table = u =>
           /\ Claimed(i)' => tables'[u] = ThePlan[i].args
           /\ ClaimedOwned(i)' => u \in owned',
         Stays(u) =>
           /\ \/ tables'[u] = tables[u]
              \/ \E j \in TouchesOf(ThePlan, u) :
                   tables'[u] = Coalesce(InitialTables[u], ThePlan[j].args)
           /\ u \in owned => u \in owned'
  PROVE  ConvergenceInv'
<1>1. ASSUME NEW i \in CreatesOfPlan
      PROVE  /\ Claimed(i)' => tables'[ThePlan[i].table] = ThePlan[i].args
             /\ ClaimedOwned(i)' => ThePlan[i].table \in owned'
  <2>1. ThePlan[i].table \in Table
    BY CreateOnItsTable
  <2>2. CASE ThePlan[i].table = u
    BY <2>2
  <2>3. CASE ThePlan[i].table # u
    BY <2>1, <2>3 DEF NoNewClaim, ConvergenceInv, CreatedAsPlanned, CreatedIsOwned
  <2> QED
    BY <2>2, <2>3
<1>2. CreatedAsPlanned' /\ CreatedIsOwned'
  BY <1>1 DEF CreatedAsPlanned, CreatedIsOwned
<1>3. ASSUME NEW t \in Table, Stays(t)
      PROVE  /\ \/ tables'[t] = InitialTables[t]
                \/ \E j \in TouchesOf(ThePlan, t) :
                     tables'[t] = Coalesce(InitialTables[t], ThePlan[j].args)
             /\ InitialTables[t] # Absent => t \in owned'
  <2>1. /\ \/ tables[t] = InitialTables[t]
           \/ \E j \in TouchesOf(ThePlan, t) :
                tables[t] = Coalesce(InitialTables[t], ThePlan[j].args)
        /\ InitialTables[t] # Absent => t \in owned
    BY <1>3 DEF ConvergenceInv, OldOrAltered
  <2>2. CASE t = u
    BY <1>3, <2>1, <2>2
  <2>3. CASE t # u
    BY <2>1, <2>3
  <2> QED
    BY <2>2, <2>3
<1>4. OldOrAltered'
  BY <1>3 DEF OldOrAltered, Stays
<1> QED
  BY <1>2, <1>4 DEF ConvergenceInv

(* The step the acting run is in, as a step of the plan.                   *)
LEMMA CurrentOfPlan ==
  ASSUME CheckInv, OnePlan, NEW r \in Alive, run[r].step < Len(run[r].plan),
         CurrentStep(r).op \in Touching
  PROVE  \E c \in DOMAIN ThePlan :
           /\ c = run[r].step + 1 /\ c \in Nat /\ CurrentStep(r) = ThePlan[c]
           /\ ThePlan[c].table \in Table
           /\ run[r].step > 0
<1>1. TypeInv /\ run[r].plan = ThePlan /\ run[r].step \in Nat /\ r \in Run
  BY CourseOf
<1>2. PICK c : c = run[r].step + 1
  OBVIOUS
<1>3. c \in DOMAIN ThePlan /\ c \in Nat /\ CurrentStep(r) = ThePlan[c]
  BY <1>1, <1>2, ThePlanGood DEF CurrentStep
<1>4. CurrentStep(r).table \in Table
  BY <1>1, StepTyped DEF TableOps, Touching
<1>5. run[r].step > 0
  BY <1>1, PlanShape DEF Touching
<1> QED
  BY <1>2, <1>3, <1>4, <1>5

(* A create brings the table that is claimed from now on.                  *)
LEMMA CreateConverges ==
  ASSUME CheckInv, OnePlan, PlanArrives, ConvergenceInv, NEW r \in Run,
         CreateStreamTable(r)
  PROVE  ConvergenceInv'
<1> DEFINE new == [run[r] EXCEPT !.pc = "complete"]
<1>1. /\ run[r].pc = "ddl" /\ r \in Alive /\ run[r].step < Len(run[r].plan)
      /\ CurrentStep(r).op = "CreateStreamTable"
      /\ run' = [run EXCEPT ![r] = new]
      /\ tables' = CreateTable(tables, CurrentStep(r).table, CurrentStep(r).args)
      /\ UNCHANGED <<migrations, owned>>
  BY DEF CreateStreamTable, AtStep, Goto, catalog, Alive
<1>2. TypeInv /\ run[r] \in RunState
  BY <1>1, CourseOf
<1>3. /\ new.pc = "complete" /\ new.step = run[r].step
      /\ new.resumeFrom = run[r].resumeFrom /\ new.desired = run[r].desired
  BY <1>2 DEF RunState
<1> HIDE DEF new
<1>4. PICK c \in DOMAIN ThePlan :
        /\ c = run[r].step + 1 /\ CurrentStep(r) = ThePlan[c]
        /\ ThePlan[c].table \in Table
  BY <1>1, CurrentOfPlan DEF Touching
<1>5. PICK u \in Table : u = ThePlan[c].table
  BY <1>4
<1>6. /\ tables'[u] = ThePlan[c].args
      /\ \A t \in Table : t # u => tables'[t] = tables[t]
  BY <1>1, <1>2, <1>4, <1>5 DEF CreateTable, TypeInv, TypeOK, DagState
<1>7. c \in CreatesOfPlan
  BY <1>1, <1>4 DEF CreatesOfPlan
<1>8. ~Stays(u)
  BY <1>5, <1>7 DEF Stays, TouchesOf, CreatesOfPlan, Touching
<1>9. \A i \in CreatesOfPlan : ThePlan[i].table = u => i = c
  <2>1. \A i \in CreatesOfPlan : /\ i \in DOMAIN ThePlan
                           /\ ThePlan[i].op = "CreateStreamTable"
    BY DEF CreatesOfPlan
  <2> QED
    BY <1>5, <1>7, <2>1, CreateOnItsTable DEF Touching
<1>10. \A i \in CreatesOfPlan : i # c => NoNewClaim(i)
  BY <1>1, <1>3, <1>4, AdvanceClaims DEF Works
<1>11. ClaimedOwned(c)' => u \in owned'
  <2>1. CarriesOwned(new, c) => CarriesOwned(run[r], c)
    BY <1>1, <1>3 DEF CarriesOwned
  <2>2. CoveredByCheckpoint(c)' => CoveredByCheckpoint(c)
    BY <1>1 DEF CoveredByCheckpoint, LatestUnfinished, Latest
  <2>3. \A s \in Alive' : s = r
    <3>1. run' = [s \in Run |-> IF s = r THEN new ELSE run[s]]
      BY <1>1, <1>2, RunsAreFunctions
    <3> QED
      BY <1>1, <3>1, AliveAlone DEF Alive
  <2>4. run'[r] = new
    BY <1>1, <1>2, RunsAreFunctions
  <2>5. ClaimedOwned(c)' => ClaimedOwned(c)
    BY <1>1, <2>1, <2>2, <2>3, <2>4, ClaimsOfRuns, ClaimsOfRunsNext
  <2> QED
    BY <1>1, <1>5, <1>7, <2>5 DEF ConvergenceInv, CreatedIsOwned
<1> QED
  BY <1>1, <1>3, <1>5, <1>6, <1>8, <1>9, <1>10, <1>11, DesiredByRun, ConvergenceOnTable

(* A drop comes before the create of its table, which nobody relies on yet *)
(* when the drop is executed.                                              *)
LEMMA CreateIsAhead ==
  ASSUME CheckInv, OnePlan, PlanArrives, NEW r \in Alive, run[r].pc \in InStep,
         run[r].step > 0, NEW c \in DOMAIN ThePlan, c = run[r].step + 1,
         ThePlan[c].op \in {"DropStreamTable", "PauseImmediate"},
         NEW i \in CreatesOfPlan, ThePlan[i].table = ThePlan[c].table
  PROVE  ~Claimed(i) /\ i # c
<1>1. i \in Nat /\ c < i
  BY CreateOnItsTable DEF Touching
<1> QED
  BY <1>1, AheadIsUnclaimed

LEMMA DropConverges ==
  ASSUME CheckInv, OnePlan, PlanArrives, ConvergenceInv, NEW r \in Run,
         DropStreamTable(r)
  PROVE  ConvergenceInv'
<1> DEFINE new == [run[r] EXCEPT !.pc = "complete"]
<1>1. /\ run[r].pc = "ddl" /\ r \in Alive /\ run[r].step < Len(run[r].plan)
      /\ CurrentStep(r).op = "DropStreamTable"
      /\ run' = [run EXCEPT ![r] = new]
      /\ tables' = DropTable(tables, CurrentStep(r).table)
      /\ UNCHANGED <<migrations, owned>>
  BY DEF DropStreamTable, AtStep, Goto, catalog, Alive
<1>2. TypeInv /\ run[r] \in RunState
  BY <1>1, CourseOf
<1>3. /\ new.pc = "complete" /\ new.step = run[r].step
      /\ new.resumeFrom = run[r].resumeFrom /\ new.desired = run[r].desired
  BY <1>2 DEF RunState
<1> HIDE DEF new
<1>4. PICK c \in DOMAIN ThePlan :
        /\ c = run[r].step + 1 /\ CurrentStep(r) = ThePlan[c]
        /\ ThePlan[c].table \in Table /\ run[r].step > 0
  BY <1>1, CurrentOfPlan DEF Touching
<1>5. PICK u \in Table : u = ThePlan[c].table
  BY <1>4
<1>6. \A t \in Table : t # u => tables'[t] = tables[t]
  BY <1>1, <1>2, <1>4, <1>5 DEF DropTable, TypeInv, TypeOK, DagState
<1>7. ~Stays(u)
  BY <1>1, <1>4, <1>5 DEF Stays, TouchesOf, Touching
<1>8. \A i \in CreatesOfPlan : NoNewClaim(i)
  BY <1>1, <1>3, <1>4, AdvanceClaims DEF Works, CreatesOfPlan
<1>9. \A i \in CreatesOfPlan : ThePlan[i].table = u => ~Claimed(i)
  BY <1>1, <1>4, <1>5, CreateIsAhead
<1>10. \A i \in CreatesOfPlan : ThePlan[i].table = u => ~Claimed(i)' /\ ~ClaimedOwned(i)'
  BY <1>8, <1>9, OwnedIsClaimed DEF NoNewClaim
<1> QED
  BY <1>1, <1>3, <1>5, <1>6, <1>7, <1>8, <1>10, DesiredByRun, ConvergenceOnTable

(* An alter brings its table where the plan means it to be, and a switch   *)
(* of the mode comes before the create, or changes nothing of what it made.*)
LEMMA AlterConverges ==
  ASSUME CheckInv, OnePlan, PlanArrives, ConvergenceInv, "bestEffort" \notin Faults,
         NEW r \in Run, AlterStreamTable(r)
  PROVE  ConvergenceInv'
<1> DEFINE new == [run[r] EXCEPT !.pc = "progress"]
<1>1. /\ run[r].pc = "exec" /\ r \in Alive /\ run[r].step < Len(run[r].plan)
      /\ CurrentStep(r).op \in {"AlterStreamTable", "PauseImmediate", "ResumeImmediate"}
      /\ run' = [run EXCEPT ![r] = new]
      /\ tables' = AlterTable(tables, CurrentStep(r).table, CurrentStep(r).args)
      /\ UNCHANGED <<migrations, owned>>
  BY DEF AlterStreamTable, SwitchesMode, BestEffortFails, AtStep, Goto, catalog, Alive
<1>2. TypeInv /\ run[r] \in RunState
  BY <1>1, CourseOf
<1>3. /\ new.pc = "progress" /\ new.step = run[r].step
      /\ new.resumeFrom = run[r].resumeFrom /\ new.desired = run[r].desired
  BY <1>2 DEF RunState
<1> HIDE DEF new
<1>4. PICK c \in DOMAIN ThePlan :
        /\ c = run[r].step + 1 /\ CurrentStep(r) = ThePlan[c] /\ c \in Nat
        /\ ThePlan[c].table \in Table /\ run[r].step > 0
  BY <1>1, CurrentOfPlan DEF Touching
<1>5. PICK u \in Table : u = ThePlan[c].table
  BY <1>4
<1>6. PICK args : args = ThePlan[c].args
  OBVIOUS
<1>7. /\ \A t \in Table : t # u => tables'[t] = tables[t]
      /\ tables'[u] = tables[u] \/ tables'[u] = Coalesce(tables[u], args)
  BY <1>1, <1>2, <1>4, <1>5, <1>6 DEF AlterTable, TypeInv, TypeOK, DagState
<1>8. \A i \in CreatesOfPlan : NoNewClaim(i)
  BY <1>1, <1>3, <1>4, AdvanceClaims DEF Works, CreatesOfPlan
<1>9. CASE ThePlan[c].op = "AlterStreamTable"
  <2>1. TouchesOf(ThePlan, u) = {c}
    BY <1>5, <1>9, AlterOnItsTable
  <2>2. \A i \in CreatesOfPlan : ThePlan[i].table # u
    BY <1>9, <2>1 DEF TouchesOf, CreatesOfPlan, Touching
  <2>3. ASSUME Stays(u)
        PROVE  \/ tables'[u] = tables[u]
               \/ \E j \in TouchesOf(ThePlan, u) :
                    tables'[u] = Coalesce(InitialTables[u], ThePlan[j].args)
    <3>1. \/ tables[u] = InitialTables[u]
          \/ tables[u] = Coalesce(InitialTables[u], args)
      BY <1>6, <2>1, <2>3 DEF ConvergenceInv, OldOrAltered
    <3>2. Coalesce(Coalesce(InitialTables[u], args), args) = Coalesce(InitialTables[u], args)
      BY CoalesceTwice
    <3> QED
      BY <1>6, <1>7, <2>1, <3>1, <3>2
  <2> QED
    BY <1>1, <1>3, <1>7, <1>8, <2>2, <2>3, DesiredByRun, ConvergenceOnTable
<1>10. CASE ThePlan[c].op # "AlterStreamTable"
  <2>1. PICK i \in CreatesOfPlan : ThePlan[i].table = u
    BY <1>1, <1>4, <1>5, <1>10, SwitchOnItsTable
  <2>2. /\ i \in Nat /\ i \in DOMAIN ThePlan /\ ThePlan[i].op = "CreateStreamTable"
        /\ \/ c < i /\ ThePlan[c].op = "PauseImmediate"
           \/ Coalesce(ThePlan[i].args, args) = ThePlan[i].args
    BY <1>1, <1>4, <1>5, <1>6, <1>10, <2>1, CreateOnItsTable DEF Touching
  <2>3. \A k \in CreatesOfPlan : ThePlan[k].table = u => k = i
    BY <2>1, <2>2, CreateOnItsTable DEF CreatesOfPlan, Touching
  <2>4. ~Stays(u)
    BY <2>1, <2>2 DEF Stays, TouchesOf, Touching
  <2>5. Claimed(i)' => tables'[u] = ThePlan[i].args
    <3>1. CASE c < i /\ ThePlan[c].op = "PauseImmediate"
      BY <1>1, <1>4, <1>5, <1>8, <2>1, <3>1, CreateIsAhead DEF NoNewClaim
    <3>2. CASE Coalesce(ThePlan[i].args, args) = ThePlan[i].args
      BY <1>7, <1>8, <2>1, <3>2 DEF NoNewClaim, ConvergenceInv, CreatedAsPlanned
    <3> QED
      BY <2>2, <3>1, <3>2
  <2>6. ClaimedOwned(i)' => u \in owned'
    BY <1>1, <1>8, <2>1 DEF NoNewClaim, ConvergenceInv, CreatedIsOwned
  <2> QED
    BY <1>1, <1>3, <1>7, <1>8, <2>3, <2>4, <2>5, <2>6, DesiredByRun, ConvergenceOnTable
<1> QED
  BY <1>9, <1>10

(* The owner is recorded before anybody relies on it.                      *)
LEMMA OwnConverges ==
  ASSUME CheckInv, OnePlan, PlanArrives, ConvergenceInv, "bestEffort" \notin Faults,
         NEW r \in Run, RecordOwnership(r)
  PROVE  ConvergenceInv'
<1> DEFINE new == [run[r] EXCEPT !.pc = "progress"]
<1>1. /\ run[r].pc = "own" /\ r \in Alive
      /\ run' = [run EXCEPT ![r] = new]
      /\ UNCHANGED <<migrations, tables>>
  BY DEF RecordOwnership, At, Goto, catalog, pgtrickle, Alive
<1>2. /\ TypeInv /\ run[r] \in RunState /\ run[r].step < Len(run[r].plan)
      /\ CurrentStep(r).op \in {"CreateStreamTable", "DropStreamTable"}
  BY <1>1, CourseOf DEF TypeInv, StepMatchesPc
<1>3. /\ new.pc = "progress" /\ new.step = run[r].step
      /\ new.resumeFrom = run[r].resumeFrom /\ new.desired = run[r].desired
  BY <1>2 DEF RunState
<1> HIDE DEF new
<1>4. PICK c \in DOMAIN ThePlan :
        /\ c = run[r].step + 1 /\ CurrentStep(r) = ThePlan[c] /\ c \in Nat
        /\ ThePlan[c].table \in Table /\ run[r].step > 0
  BY <1>1, <1>2, CurrentOfPlan DEF Touching
<1>5. PICK u \in Table : u = ThePlan[c].table
  BY <1>4
<1>6. ~Stays(u)
  BY <1>2, <1>4, <1>5 DEF Stays, TouchesOf, Touching
<1>7. CASE CurrentStep(r).op = "CreateStreamTable"
  <2>1. owned' = owned \cup {u}
    BY <1>4, <1>5, <1>7 DEF RecordOwnership, BestEffortFails
  <2>2. c \in CreatesOfPlan
    BY <1>4, <1>7 DEF CreatesOfPlan
  <2>3. \A i \in CreatesOfPlan : ThePlan[i].table = u => i = c
    <3>1. \A i \in CreatesOfPlan : /\ i \in DOMAIN ThePlan
                             /\ ThePlan[i].op = "CreateStreamTable"
      BY DEF CreatesOfPlan
    <3> QED
      BY <1>5, <2>2, <3>1, CreateOnItsTable DEF Touching
  <2>4. \A i \in CreatesOfPlan : i # c => NoNewClaim(i)
    BY <1>1, <1>3, <1>4, AdvanceClaims DEF Works
  <2>5. Claimed(c)' => tables'[u] = ThePlan[c].args
    <3>1. Carries(run[r], c)
      BY <1>1, <1>4 DEF Carries
    <3>2. Claimed(c)
      BY <1>1, <3>1, ClaimsOfRuns
    <3> QED
      BY <1>1, <1>5, <2>2, <3>2 DEF ConvergenceInv, CreatedAsPlanned
  <2> QED
    BY <1>1, <1>3, <1>5, <1>6, <2>1, <2>3, <2>4, <2>5, DesiredByRun, ConvergenceOnTable
<1>8. CASE CurrentStep(r).op = "DropStreamTable"
  <2>1. owned' = owned \ {u}
    BY <1>4, <1>5, <1>8 DEF RecordOwnership, BestEffortFails
  <2>2. \A i \in CreatesOfPlan : NoNewClaim(i)
    BY <1>1, <1>3, <1>4, <1>8, AdvanceClaims DEF Works, CreatesOfPlan
  <2>3. \A i \in CreatesOfPlan : ThePlan[i].table = u => ~Claimed(i)
    BY <1>1, <1>4, <1>5, <1>8, CreateIsAhead
  <2>4. \A i \in CreatesOfPlan : ThePlan[i].table = u => ~Claimed(i)' /\ ~ClaimedOwned(i)'
    BY <2>2, <2>3, OwnedIsClaimed DEF NoNewClaim
  <2> QED
    BY <1>1, <1>3, <1>5, <1>6, <2>1, <2>2, <2>4, DesiredByRun, ConvergenceOnTable
<1> QED
  BY <1>2, <1>7, <1>8

(* The compensation drops a table whose create nobody relies on.           *)
LEMMA CompensateConverges ==
  ASSUME CheckInv, OnePlan, PlanArrives, ConvergenceInv, "bestEffort" \notin Faults,
         NEW r \in Run, Compensate(r)
  PROVE  ConvergenceInv'
<1> DEFINE new == [run[r] EXCEPT !.pc = "mark"]
<1>1. /\ run[r].pc = "compensate" /\ r \in Alive
      /\ run' = [run EXCEPT ![r] = new]
      /\ UNCHANGED <<migrations, ddlLog, owned>>
  BY DEF Compensate, At, Goto, catalog, Alive
<1>2. /\ TypeInv /\ OnCourse(r) /\ run[r] \in RunState /\ UndoneIsAhead
  BY <1>1, CourseOf
<1>3. new.pc = "mark" /\ new.desired = run[r].desired
  BY <1>2 DEF RunState
<1> HIDE DEF new
<1>4. PICK m : m = run[r].migration
  OBVIOUS
<1>5. LatestUnfinished = {m} /\ run[r].pending = PendingSteps(m)
      /\ migrations[m].progress \in Nat
  <2>1. LatestUnfinished = {m} /\ run[r].pending = PendingSteps(m)
    BY <1>1, <1>2, <1>4 DEF OnCourse, KnowsMigration, KnowsPending
  <2> QED
    BY <1>2, <2>1, UnfinishedIsRow, MigrationRows
<1>6. \A i \in CreatesOfPlan : NoNewClaim(i)
  BY <1>1, <1>3, AdvanceClaims DEF Advances
<1>7. PICK l \in Latest(run[r].pending) :
        \/ /\ ddlLog[l].op = "CREATE_STREAM_TABLE"
           /\ tables' = DropTable(tables, ddlLog[l].table)
        \/ UNCHANGED tables
  BY DEF Compensate
<1>8. CASE UNCHANGED tables
  BY <1>1, <1>3, <1>6, <1>8, DesiredByRun, ConvergenceKept
<1>9. CASE /\ ddlLog[l].op = "CREATE_STREAM_TABLE"
           /\ tables' = DropTable(tables, ddlLog[l].table)
  <2>1. l \in DOMAIN ddlLog /\ CreateRunning(l) /\ ddlLog[l].migration = m
    BY <1>5, <1>7, <1>9 DEF Latest, PendingSteps, CreateRunning
  <2>2. AheadOf(m, ddlLog[l].table)
    BY <1>2, <2>1 DEF UndoneIsAhead
  <2>3. PICK k \in DOMAIN ThePlan :
          /\ k > migrations[m].progress + 1
          /\ ThePlan[k].op = "CreateStreamTable" /\ ThePlan[k].table = ddlLog[l].table
    BY <2>2 DEF AheadOf
  <2>4. k \in CreatesOfPlan /\ ThePlan[k].table \in Table
    BY <2>3, CreateOnItsTable DEF CreatesOfPlan
  <2>5. PICK u \in Table : u = ThePlan[k].table
    BY <2>4
  <2>6. \A t \in Table : t # u => tables'[t] = tables[t]
    BY <1>2, <1>9, <2>3, <2>5 DEF DropTable, TypeInv, TypeOK, DagState
  <2>7. ~Stays(u)
    BY <2>3, <2>5 DEF Stays, TouchesOf, Touching
  <2>8. \A i \in CreatesOfPlan : ThePlan[i].table = u => i = k
    <3>1. \A i \in CreatesOfPlan : /\ i \in DOMAIN ThePlan
                             /\ ThePlan[i].op = "CreateStreamTable"
      BY DEF CreatesOfPlan
    <3> QED
      BY <2>4, <2>5, <3>1, CreateOnItsTable DEF Touching
  <2>9. ~Claimed(k)
    <3>1. k \in Nat
      BY <2>4, CreateOnItsTable
    <3>2. ~CoveredByCheckpoint(k)
      BY <1>5, <2>3, <3>1 DEF CoveredByCheckpoint
    <3>3. \A s \in Alive : s = r
      BY <1>1, AliveAlone
    <3>4. ~Carries(run[r], k)
      BY <1>1 DEF Carries
    <3> QED
      BY <3>2, <3>3, <3>4, ClaimsOfRuns
  <2>10. ~Claimed(k)' /\ ~ClaimedOwned(k)'
    BY <1>6, <2>4, <2>9, OwnedIsClaimed DEF NoNewClaim
  <2> QED
    BY <1>1, <1>3, <1>6, <2>5, <2>6, <2>7, <2>8, <2>10, DesiredByRun, ConvergenceOnTable
<1> QED
  BY <1>7, <1>8, <1>9

-----------------------------------------------------------------------------
LEMMA ConvergenceInit == Init => ConvergenceInv
<1> SUFFICES ASSUME Init PROVE ConvergenceInv
  OBVIOUS
<1>1. Alive = {}
  BY DEF Init, IdleRun, Alive
<1>2. LatestUnfinished = {}
  BY DEF Init, LatestUnfinished, Latest
<1>3. \A i : ~Claimed(i) /\ ~ClaimedOwned(i)
  BY <1>1, <1>2 DEF Claimed, ClaimedOwned, CoveredByCheckpoint
<1>4. CreatedAsPlanned /\ CreatedIsOwned
  BY <1>3 DEF CreatedAsPlanned, CreatedIsOwned
<1>5. OldOrAltered
  BY DEF Init, OldOrAltered, Existing
<1> QED
  BY <1>1, <1>4, <1>5 DEF ConvergenceInv

LEMMA ConvergenceStep ==
  ASSUME MaxActive = 1, IsFiniteSet(Run), OnePlan, PlanArrives,
         "bestEffort" \notin Faults
  PROVE  CheckInv /\ CheckInv' /\ ConvergenceInv /\ [Next]_vars => ConvergenceInv'
<1> SUFFICES ASSUME CheckInv, CheckInv', ConvergenceInv, [Next]_vars PROVE ConvergenceInv'
  OBVIOUS
<1>1. ASSUME NEW r \in Run, Begin(r) PROVE ConvergenceInv'
  BY <1>1, BeginConverges
<1>2. ASSUME NEW r \in Run, Resume(r) \/ StartMigration(r) PROVE ConvergenceInv'
  BY <1>2, FindConverges, CompensateConverges, StartConverges DEF Resume
<1>3. ASSUME NEW r \in Run, NextStep(r) \/ CheckAfterStep(r) \/ StepFails(r)
      PROVE  ConvergenceInv'
  BY <1>3, HeadConverges
<1>4. ASSUME NEW r \in Run, StepBody(r) PROVE ConvergenceInv'
  BY <1>4, StepConverges, CreateConverges, DropConverges, OwnConverges, AlterConverges
  DEF StepBody
<1>5. ASSUME NEW r \in Run, SaveProgress(r) \/ Cleanup(r) PROVE ConvergenceInv'
  BY <1>5, SaveConverges, OutConverges, FinishConverges DEF Cleanup
<1>6. ASSUME NEW r \in Run, StartupFails(r) \/ Crash(r) PROVE ConvergenceInv'
  BY <1>6, EndConverges
<1>7. ASSUME \/ \E r \in Run : Heartbeat(r)
             \/ LockExpires \/ ShowLock \/ ForceUnlock
             \/ UNCHANGED vars
      PROVE  ConvergenceInv'
  BY <1>7, OthersConverge
<1> QED
  BY <1>1, <1>2, <1>3, <1>4, <1>5, <1>6, <1>7 DEF Next, Advance

-----------------------------------------------------------------------------
(* Where every step that touches a table is done, the project's tables are *)
(* the desired ones.                                                       *)
LEMMA DoneIsDesired ==
  ASSUME TypeInv, OnePlan, PlanArrives, ConvergenceInv, NEW desired \in Desired,
         \A i \in DOMAIN ThePlan :
           ThePlan[i].op \in Touching /\ LastOnItsTable(ThePlan, i) => InEffect(ThePlan[i]),
         \A i \in CreatesOfPlan : Claimed(i) /\ ClaimedOwned(i)
  PROVE  LiveTables = desired
<1>1. desired \in DagState
  BY ExecutorAssumption
<1>2. SUFFICES ASSUME NEW t \in Table
               PROVE  (IF t \in owned THEN tables[t] ELSE Absent) = desired[t]
  BY <1>1 DEF LiveTables, DagState
<1>3. Arrives(ThePlan, desired, InitialTables)
  BY DEF PlanArrives
<1>4. \A i \in TouchesOf(ThePlan, t) :
        TouchesOf(ThePlan, t) = {i} => LastOnItsTable(ThePlan, i)
  <2>1. SUFFICES ASSUME NEW i \in TouchesOf(ThePlan, t), TouchesOf(ThePlan, t) = {i},
                        NEW j \in DOMAIN ThePlan, j > i, ThePlan[j].op \in TableWrite,
                        ThePlan[j].table = ThePlan[i].table
                 PROVE  FALSE
    BY DEF LastOnItsTable, TableWrite
  <2>2. i \in Nat /\ ThePlan[i].table = t
    BY <2>1, ThePlanGood DEF TouchesOf
  <2>3. j \in TouchesOf(ThePlan, t)
    BY <2>1, <2>2 DEF TouchesOf, Touching, TableWrite
  <2> QED
    BY <2>1, <2>2, <2>3
<1>5. CASE Keeps(ThePlan, desired, InitialTables, t)
  BY <1>5 DEF Keeps, ConvergenceInv, OldOrAltered, Stays
<1>6. CASE AltersTo(ThePlan, desired, InitialTables, t)
  <2>1. PICK i \in TouchesOf(ThePlan, t) :
          /\ TouchesOf(ThePlan, t) = {i} /\ ThePlan[i].op = "AlterStreamTable"
          /\ InitialTables[t] # Absent
          /\ Coalesce(InitialTables[t], ThePlan[i].args) = desired[t]
    BY <1>6 DEF AltersTo
  <2>2. i \in DOMAIN ThePlan /\ ThePlan[i].table = t /\ ThePlan[i].op \in TableWrite
    BY <2>1 DEF TouchesOf, TableWrite
  <2>3. PICK step : step = ThePlan[i]
    OBVIOUS
  <2>4. InEffect(step)
    BY <1>4, <2>1, <2>2, <2>3 DEF TableWrite, Touching
  <2>5. Fits(tables[t], step)
    BY <2>2, <2>3, <2>4, InEffectFits
  <2>6. tables[t] = Absent \/ Coalesce(tables[t], step.args) = tables[t]
    BY <2>1, <2>3, <2>5 DEF Fits
  <2>7. Stays(t)
    BY <2>1 DEF Stays
  <2>8. /\ t \in owned
        /\ tables[t] = InitialTables[t] \/ tables[t] = Coalesce(InitialTables[t], step.args)
    BY <2>1, <2>3, <2>7 DEF ConvergenceInv, OldOrAltered
  <2> QED
    BY <2>1, <2>3, <2>6, <2>8
<1>7. CASE DropsOnly(ThePlan, desired, t)
  <2>1. PICK i \in TouchesOf(ThePlan, t) :
          /\ TouchesOf(ThePlan, t) = {i} /\ ThePlan[i].op = "DropStreamTable"
          /\ desired[t] = Absent
    BY <1>7 DEF DropsOnly
  <2>2. i \in DOMAIN ThePlan /\ ThePlan[i].table = t
    BY <2>1 DEF TouchesOf
  <2>3. InEffect(ThePlan[i])
    BY <1>4, <2>1, <2>2 DEF Touching
  <2>4. tables[t] = Absent
    BY <2>1, <2>2, <2>3 DEF InEffect
  <2> QED
    BY <2>1, <2>4
<1>8. CASE Builds(ThePlan, desired, t)
  <2>1. PICK i \in TouchesOf(ThePlan, t) :
          ThePlan[i].op = "CreateStreamTable" /\ ThePlan[i].args = desired[t]
    BY <1>8 DEF Builds
  <2>2. i \in CreatesOfPlan /\ ThePlan[i].table = t
    BY <2>1 DEF TouchesOf, CreatesOfPlan
  <2>3. tables[t] = desired[t] /\ t \in owned
    BY <2>1, <2>2 DEF ConvergenceInv, CreatedAsPlanned, CreatedIsOwned
  <2> QED
    BY <2>3
<1> QED
  BY <1>3, <1>5, <1>6, <1>7, <1>8 DEF Arrives

(* A run that is through has everything behind it,                         *)
LEMMA ThroughIsDesired ==
  ASSUME CheckInv, OnePlan, PlanArrives, ConvergenceInv, NEW r \in Alive, Through(r)
  PROVE  LiveTables = run[r].desired
<1>1. TypeInv /\ OnCourse(r) /\ run[r].desired \in Desired
  BY CourseOf DEF ConvergenceInv
<1>2. \A i \in DOMAIN ThePlan : LastOnItsTable(ThePlan, i) => InEffect(ThePlan[i])
  BY <1>1 DEF OnCourse, DoneSoFar, Through
<1>3. \A i \in CreatesOfPlan : Claimed(i) /\ ClaimedOwned(i)
  BY DEF Claimed, ClaimedOwned
<1> QED
  BY <1>1, <1>2, <1>3, DoneIsDesired

(* and so has a run that is about to record the version.                   *)
LEMMA RecordsDesired ==
  ASSUME CheckInv, OnePlan, PlanArrives, ConvergenceInv, NEW r \in Run,
         RecordSnapshot(r)
  PROVE  LiveTables = run[r].desired
<1>1. /\ run[r].pc = "exec" /\ r \in Alive /\ run[r].step < Len(run[r].plan)
      /\ CurrentStep(r).op = "RecordSnapshot"
  BY DEF RecordSnapshot, AtStep, Alive
<1>2. /\ TypeInv /\ OnCourse(r) /\ run[r].desired \in Desired /\ run[r].plan = ThePlan
      /\ run[r].step \in Nat
  BY <1>1, CourseOf DEF ConvergenceInv
<1>3. PICK c : c = run[r].step + 1
  OBVIOUS
<1>4. c \in DOMAIN ThePlan /\ c \in Nat /\ ThePlan[c].op = "RecordSnapshot"
  BY <1>1, <1>2, <1>3, ThePlanGood DEF CurrentStep
<1>5. ASSUME NEW i \in DOMAIN ThePlan, ThePlan[i].op \in Touching
      PROVE  i <= run[r].step
  <2>1. i < c
    BY <1>2, <1>4, <1>5 DEF PlanArrives, Arrives
  <2> QED
    BY <1>2, <1>3, <1>5, <2>1, ThePlanGood
<1>6. \A i \in DOMAIN ThePlan :
        ThePlan[i].op \in Touching /\ LastOnItsTable(ThePlan, i) => InEffect(ThePlan[i])
  BY <1>1, <1>2, <1>5 DEF OnCourse, DoneSoFar, Behind
<1>7. \A i \in CreatesOfPlan : Claimed(i) /\ ClaimedOwned(i)
  BY <1>1, <1>5 DEF CreatesOfPlan, Touching, Claimed, ClaimedOwned, Behind, Registered
<1> QED
  BY <1>2, <1>6, <1>7, DoneIsDesired

(* Only its last statement ends a run that is about to finish, or a crash. *)
LEMMA OthersLeaveFinishing ==
  ASSUME TypeInv, NEW r \in Run, run[r].pc = "finish", NEW s \in Run,
         Begin(s) \/ Advance(s) \/ Heartbeat(s) \/ StartupFails(s) \/ StepFails(s)
           \/ Crash(s),
         run'[r].pc = "ended"
  PROVE  s = r /\ (FinishMigration(r) \/ Crash(r))
<1>1. run \in [Run -> RunState] /\ DOMAIN run = Run
  BY DEF TypeInv, TypeOK
<1>2. CASE Resume(s) \/ StartMigration(s)
  BY <1>1, <1>2 DEF Resume, FindResumeStep, FindPendingSteps, Compensate, MarkCompensated,
     AllCompensated, StartMigration, EnterLoop, Goto, At
<1>3. CASE NextStep(s) \/ CheckAfterStep(s) \/ StepFails(s) \/ SaveProgress(s)
  BY <1>1, <1>3 DEF NextStep, CheckAfterStep, StepFails, SaveProgress, Fail, Goto, At, AtStep
<1>4. CASE \/ AcquireLock(s) \/ PauseScheduler(s) \/ PassiveStep(s) \/ LogCreate(s)
           \/ LogDrop(s) \/ CreateStreamTable(s) \/ DropStreamTable(s)
  BY <1>1, <1>4 DEF AcquireLock, ReportContention, PauseScheduler, PassiveStep, LogCreate,
     LogDrop, CreateStreamTable, DropStreamTable, Fail, Goto, At, AtStep
<1>5. CASE \/ CompleteLog(s) \/ RecordOwnership(s) \/ AlterStreamTable(s)
           \/ RecreatePolicy(s) \/ RecordSnapshot(s) \/ UnlockDag(s)
  BY <1>1, <1>5 DEF CompleteLog, RecordOwnership, AlterStreamTable, SwitchesMode,
     RecreatePolicy, RecordSnapshot, UnlockDag, Goto, At, AtStep
<1>6. CASE Cleanup(s)
  BY <1>1, <1>6 DEF Cleanup, ReleaseLock, ResumeScheduler, FinishMigration, At
<1>7. CASE Begin(s) \/ StartupFails(s) \/ Crash(s)
  BY <1>1, <1>7 DEF Begin, StartupFails, Crash, At
<1>8. CASE Heartbeat(s)
  <2>1. CASE UNCHANGED run
    BY <2>1
  <2>2. CASE run' = [run EXCEPT ![s].lockLost = TRUE, ![s].heartbeat = FALSE]
    <3>1. r # s => run'[r] = run[r]
      BY <1>1, <2>2
    <3>2. run'[s].pc = run[s].pc
      <4>1. PICK new : new = [run[s] EXCEPT !.lockLost = TRUE, !.heartbeat = FALSE]
        OBVIOUS
      <4>2. run'[s] = new
        BY <1>1, <2>2, <4>1
      <4>3. new.pc = run[s].pc
        BY <4>1, RunsAreFunctions DEF RunState
      <4> QED
        BY <4>2, <4>3
    <3> QED
      BY <3>1, <3>2
  <2> QED
    BY <1>8, <2>1, <2>2 DEF Heartbeat
<1> QED
  BY <1>2, <1>3, <1>4, <1>5, <1>6, <1>7, <1>8 DEF Advance, StepBody

LEMMA FinishesOk ==
  ASSUME TypeInv, [Next]_vars, NEW r \in Run, run[r].pc = "finish",
         run'[r].pc = "ended", run'[r].outcome = "ok"
  PROVE  run[r].outcome = "ok"
<1>1. run' # run
  OBVIOUS
<1>2. PICK s \in Run : Begin(s) \/ Advance(s) \/ Heartbeat(s) \/ StartupFails(s)
                         \/ StepFails(s) \/ Crash(s)
  BY <1>1 DEF Next, vars, LockExpires, ShowLock, ForceUnlock
<1>3. FinishMigration(r) \/ Crash(r)
  BY <1>2, OthersLeaveFinishing
<1>4. PICK outcome : /\ run' = [run EXCEPT ![r] = Exited(outcome)]
                     /\ outcome \in {"crashed", run[r].outcome}
  BY <1>3 DEF FinishMigration, Crash
<1>5. run'[r] = Exited(outcome)
  BY <1>4, RunsAreFunctions
<1>6. run'[r].outcome = outcome
  BY <1>5 DEF Exited, IdleRun
<1> QED
  BY <1>4, <1>6

(* Nothing but RecordSnapshot writes a version.                            *)
LEMMA VersionIsRecorded ==
  ASSUME [Next]_vars, versions' # versions
  PROVE  \E r \in Run : RecordSnapshot(r)
<1>1. PICK s \in Run : Begin(s) \/ Advance(s) \/ Heartbeat(s) \/ StartupFails(s)
                         \/ StepFails(s) \/ Crash(s)
  BY DEF Next, vars, catalog, LockExpires, ShowLock, ForceUnlock
<1>2. ~(Begin(s) \/ Heartbeat(s) \/ StartupFails(s) \/ StepFails(s) \/ Crash(s))
  BY DEF Begin, Heartbeat, StartupFails, StepFails, Crash, catalog
<1>3. ~(Resume(s) \/ StartMigration(s) \/ NextStep(s) \/ SaveProgress(s)
          \/ CheckAfterStep(s) \/ Cleanup(s))
  BY DEF Resume, FindResumeStep, FindPendingSteps, Compensate, MarkCompensated,
     AllCompensated, StartMigration, NextStep, SaveProgress, CheckAfterStep, Cleanup,
     ReleaseLock, ResumeScheduler, FinishMigration, catalog
<1>4. StepBody(s) => RecordSnapshot(s)
  BY DEF StepBody, AcquireLock, PauseScheduler, PassiveStep, LogCreate, CreateStreamTable,
     LogDrop, DropStreamTable, CompleteLog, RecordOwnership, AlterStreamTable,
     RecreatePolicy, UnlockDag, catalog
<1> QED
  BY <1>1, <1>2, <1>3, <1>4 DEF Advance

(* ESSENCE.md, "can pick up after any crash": a migration that ends        *)
(* committed has brought the project's tables to the desired DAG, for any  *)
(* plan that would have done so had it been executed once without a fault, *)
(* however many runs crashed or failed on the way, at whatever statement.  *)
THEOREM CommittedConverges ==
  ASSUME MaxActive = 1, IsFiniteSet(Run), OnePlan, PlanArrives,
         "bestEffort" \notin Faults, "failover" \notin Faults
  PROVE  Spec => CommittedIsLive
<1>1. ASSUME CheckInv, ConvergenceInv, [Next]_vars
      PROVE  [\A r \in Run :
                At(r, "finish") /\ run'[r].pc = "ended" /\ run'[r].outcome = "ok"
                => LiveTables = run[r].desired]_vars
  <2>1. SUFFICES ASSUME NEW r \in Run, At(r, "finish"),
                        run'[r].pc = "ended", run'[r].outcome = "ok"
                 PROVE  LiveTables = run[r].desired
    OBVIOUS
  <2>2. r \in Alive /\ TypeInv
    BY <1>1, <2>1 DEF At, Alive, CheckInv, AloneInv, PauseInv
  <2>3. run[r].outcome = "ok"
    BY <1>1, <2>1, <2>2, FinishesOk DEF At
  <2> QED
    BY <1>1, <2>1, <2>2, <2>3, ThroughIsDesired DEF Through, At
<1>2. CheckInv /\ [Next]_vars => CheckInv'
  BY CheckInvStep
<1>3. CheckInv /\ CheckInv' /\ ConvergenceInv /\ [Next]_vars => ConvergenceInv'
  BY ConvergenceStep
<1> QED
  BY <1>1, <1>2, <1>3, CheckInvInit, ConvergenceInit, PTL DEF Spec, CommittedIsLive

(* A version that rollback may restore is what the database holds when it  *)
(* is recorded, under the same conditions.                                 *)
THEOREM SnapshotConverges ==
  ASSUME MaxActive = 1, IsFiniteSet(Run), OnePlan, PlanArrives,
         "bestEffort" \notin Faults, "failover" \notin Faults
  PROVE  Spec => SnapshotIsLive
<1>1. ASSUME CheckInv, ConvergenceInv, [Next]_vars
      PROVE  [versions' # versions => LiveTables = versions'[Len(versions')]]_vars
  <2>1. SUFFICES ASSUME versions' # versions
                 PROVE  LiveTables = versions'[Len(versions')]
    OBVIOUS
  <2>2. PICK r \in Run : RecordSnapshot(r)
    BY <1>1, <2>1, VersionIsRecorded
  <2>3. versions' = Append(versions, run[r].desired) /\ versions \in Seq(DagState)
    BY <1>1, <2>2 DEF RecordSnapshot, CheckInv, AloneInv, PauseInv, TypeInv, TypeOK
  <2>4. versions'[Len(versions')] = run[r].desired
    BY <2>3
  <2> QED
    BY <1>1, <2>2, <2>4, RecordsDesired
<1>2. CheckInv /\ [Next]_vars => CheckInv'
  BY CheckInvStep
<1>3. CheckInv /\ CheckInv' /\ ConvergenceInv /\ [Next]_vars => ConvergenceInv'
  BY ConvergenceStep
<1> QED
  BY <1>1, <1>2, <1>3, CheckInvInit, ConvergenceInit, PTL DEF Spec, SnapshotIsLive

=============================================================================
