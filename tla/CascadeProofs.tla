---------------------------- MODULE CascadeProofs ----------------------------
(***************************************************************************)
(* Proofs about Cascades, for any planner that keeps PlannerAssumption, any *)
(* sources, tables and views, any edits and any statements that fail.      *)
(***************************************************************************)
EXTENDS Cascades, WellFoundedInduction, TLAPS

AllOps == {"LockDag", "RecordSnapshot", "UnlockDag", "AlterBaseTable",
           "ReplaceView", "DropView"} \cup TableChanges

(* Functions have their domains, steps what the executor takes from them.  *)
StepTypes ==
  \A x \in todo :
    /\ x.op \in AllOps
    /\ x.op \in TableChanges => x.table \in Table /\ x.args \in AlterArgs
    /\ x.op = "CreateStreamTable" => x.args \in TableSpec
    /\ x.op = "AlterBaseTable" => x.source \in Source
    /\ x.op = "ReplaceView" =>
         x.name \in Consumer /\ x.spec = files.consumers[x.name] /\ x.spec # Absent
    /\ x.op = "DropView" =>
         x.view \in View /\ x.view \notin Exposed /\ x.name = ShortName[x.view]

TypeInv ==
  /\ TypeOK
  /\ files \in Desired
  /\ base = [s \in Source |-> base[s]]
  /\ recorded = [s \in Source |-> recorded[s]]
  /\ views = [v \in View |-> views[v]]
  /\ registry = [n \in Consumer |-> registry[n]]
  /\ over = [t \in Table |-> over[t]]
  /\ \A n \in Consumer : registry[n] # Absent => registry[n].expose \in View
  /\ StepTypes

-----------------------------------------------------------------------------
(* The steps of a plan by their kinds.                                     *)

LEMMA LiveElsewhereTypes == TypeInv => LiveElsewhere \in DagState
  BY DesiredAssumption DEF TypeInv, TypeOK, LiveElsewhere, DagState

LEMMA PlannedTables ==
  ASSUME TypeInv
  PROVE  /\ TablePlan \in Seq(TableChange)
         /\ \A t \in Table : FitsTable(TablePlan, files.tables, LiveElsewhere, t)
BY LiveElsewhereTypes, PlannerAssumption DEF TypeInv, TablePlan

LEMMA PlacedFields ==
  ASSUME NEW place, NEW step
  PROVE  /\ Placed(place, step).at = place /\ Placed(place, step).op = step.op
         /\ Placed(place, step).table = step.table /\ Placed(place, step).args = step.args
BY DEF Placed

LEMMA TableStepTypes ==
  ASSUME TypeInv, NEW x \in TableSteps
  PROVE  /\ x.op \in TableChanges /\ x.table \in Table
         /\ \E i \in DOMAIN TablePlan : x = Placed(<<3, i, 0, 0, 0>>, TablePlan[i])
<1>1. PICK i \in DOMAIN TablePlan : x = Placed(<<3, i, 0, 0, 0>>, TablePlan[i])
  BY DEF TableSteps
<1>2. TablePlan[i] \in TableChange
  BY PlannedTables
<1> QED
  BY <1>1, <1>2, PlacedFields DEF TableChange

LEMMA CascadeTypes ==
  ASSUME TypeInv, NEW s \in ChangedSources, NEW t \in Impacted(s), NEW x \in CascadeRebuild(s, t)
  PROVE  /\ t \in Table /\ files.tables[t] \in TableSpec
         /\ x.table = t
         /\ \/ /\ x.op = "DropStreamTable" /\ x.args = NoArgs
               /\ x.at = <<2, Place[s], 1, Place[t], 1>>
            \/ /\ x.op = "CreateStreamTable" /\ x.args = files.tables[t]
               /\ x.at = <<2, Place[s], 1, Place[t], 2>>
<1>1. t \in Table /\ files.tables[t] # Absent /\ files.tables \in DagState
  BY DesiredAssumption DEF Impacted, Existing, TypeInv
<1>2. files.tables[t] \in TableSpec
  BY <1>1 DEF DagState
<1>3. \/ x = Placed(<<2, Place[s], 1, Place[t], 1>>, DoOn("DropStreamTable", t))
      \/ x = Placed(<<2, Place[s], 1, Place[t], 2>>,
                    DoWith("CreateStreamTable", t, files.tables[t]))
  BY DEF CascadeRebuild
<1> QED
  BY <1>1, <1>2, <1>3, PlacedFields DEF DoOn, DoWith

LEMMA PlanKinds ==
  ASSUME TypeInv, NEW x \in FullPlan
  PROVE  \/ x.op = "LockDag" /\ x = Placed(<<1, 0, 0, 0, 0>>, Do("LockDag"))
         \/ x.op = "RecordSnapshot" /\ x = Placed(<<6, 0, 0, 0, 0>>, Do("RecordSnapshot"))
         \/ x.op = "UnlockDag" /\ x = Placed(<<7, 0, 0, 0, 0>>, Do("UnlockDag"))
         \/ /\ x.op = "AlterBaseTable"
            /\ \E s \in ChangedSources : x = AlterStep(<<2, Place[s], 0, 0, 0>>, s)
         \/ /\ x.op \in TableChanges
            /\ \/ \E s \in ChangedSources : \E t \in Impacted(s) : x \in CascadeRebuild(s, t)
               \/ x \in TableSteps
         \/ /\ x.op = "ReplaceView"
            /\ \E n \in Consumer : ConsumerChanged(n) /\ x = ReplaceViewStep(n)
         \/ /\ x.op = "DropView"
            /\ \E n \in Consumer : ConsumerDropped(n) /\ x = DropViewStep(n)
<1>1. CASE x \in Bookkeeping
  BY <1>1, PlacedFields DEF Bookkeeping, Do
<1>2. ASSUME NEW s \in ChangedSources, x = AlterStep(<<2, Place[s], 0, 0, 0>>, s)
      PROVE  x.op = "AlterBaseTable"
  BY <1>2 DEF AlterStep
<1>3. ASSUME NEW s \in ChangedSources, NEW t \in Impacted(s), x \in CascadeRebuild(s, t)
      PROVE  x.op \in TableChanges
  BY <1>3, CascadeTypes DEF TableChanges
<1>4. ASSUME x \in TableSteps PROVE x.op \in TableChanges
  BY <1>4, TableStepTypes
<1>5. ASSUME NEW n \in Consumer, x = ReplaceViewStep(n) PROVE x.op = "ReplaceView"
  BY <1>5 DEF ReplaceViewStep
<1>6. ASSUME NEW n \in Consumer, x = DropViewStep(n) PROVE x.op = "DropView"
  BY <1>6 DEF DropViewStep
<1>7. CASE \E s \in ChangedSources : x \in SourceSteps(s)
  BY <1>2, <1>3, <1>7 DEF SourceSteps
<1>8. CASE x \in ConsumerSteps
  BY <1>5, <1>6, <1>8 DEF ConsumerSteps
<1> QED
  BY <1>1, <1>4, <1>7, <1>8 DEF FullPlan, Changing

LEMMA PlanTyped ==
  ASSUME TypeInv, NEW x \in FullPlan
  PROVE  /\ x.op \in AllOps
         /\ x.op \in TableChanges => x.table \in Table /\ x.args \in AlterArgs
         /\ x.op = "CreateStreamTable" => x.args \in TableSpec
         /\ x.op = "AlterBaseTable" => x.source \in Source
         /\ x.op = "ReplaceView" =>
              x.name \in Consumer /\ x.spec = files.consumers[x.name] /\ x.spec # Absent
         /\ x.op = "DropView" =>
              x.view \in View /\ x.view \notin Exposed /\ x.name = ShortName[x.view]
<1>1. x.op \in AllOps
  BY PlanKinds DEF AllOps
<1>2. TableSpec \subseteq AlterArgs /\ NoArgs \in AlterArgs
  BY DEF TableSpec, AlterArgs, NoArgs, RefreshMode
<1>3. ASSUME x \in TableSteps
      PROVE  /\ x.table \in Table /\ x.args \in AlterArgs
             /\ x.op = "CreateStreamTable" => x.args \in TableSpec
  <2>1. PICK i \in DOMAIN TablePlan : x = Placed(<<3, i, 0, 0, 0>>, TablePlan[i])
    BY <1>3 DEF TableSteps
  <2>2. TablePlan[i] \in TableChange
    BY PlannedTables
  <2>3. x.table \in Table /\ x.args \in AlterArgs /\ x.op = TablePlan[i].op
        /\ x.table = TablePlan[i].table /\ x.args = TablePlan[i].args
    BY <2>1, <2>2, PlacedFields DEF TableChange, Step
  <2>4. x.op = "CreateStreamTable" => x.args \in TableSpec
    <3> SUFFICES ASSUME x.op = "CreateStreamTable" PROVE x.args \in TableSpec
      OBVIOUS
    <3>1. FitsTable(TablePlan, files.tables, LiveElsewhere, x.table)
      BY <2>3, PlannedTables
    <3>2. files.tables[x.table] # Absent /\ x.args = files.tables[x.table]
      BY <2>3, <3>1 DEF FitsTable, Creates, Alters
    <3>3. files.tables \in DagState
      BY DesiredAssumption DEF TypeInv
    <3> QED
      BY <2>3, <3>2, <3>3 DEF DagState
  <2> QED
    BY <2>3, <2>4
<1>4. ASSUME NEW s \in ChangedSources, NEW t \in Impacted(s), x \in CascadeRebuild(s, t)
      PROVE  /\ x.table \in Table /\ x.args \in AlterArgs
             /\ x.op = "CreateStreamTable" => x.args \in TableSpec
  BY <1>2, <1>4, CascadeTypes
<1>5. x.op \in TableChanges =>
        /\ x.table \in Table /\ x.args \in AlterArgs
        /\ x.op = "CreateStreamTable" => x.args \in TableSpec
  BY <1>3, <1>4, PlanKinds DEF TableChanges
<1>6. x.op = "AlterBaseTable" => x.source \in Source
  BY PlanKinds DEF AlterStep, ChangedSources, TableChanges
<1>7. x.op = "ReplaceView" =>
        x.name \in Consumer /\ x.spec = files.consumers[x.name] /\ x.spec # Absent
  BY PlanKinds DEF ReplaceViewStep, ConsumerChanged, TableChanges
<1>8. x.op = "DropView" =>
        x.view \in View /\ x.view \notin Exposed /\ x.name = ShortName[x.view]
  BY PlanKinds DEF DropViewStep, ConsumerDropped, TableChanges, TypeInv
<1>9. "CreateStreamTable" \in TableChanges
  BY DEF TableChanges
<1> QED
  BY <1>1, <1>5, <1>6, <1>7, <1>8, <1>9

-----------------------------------------------------------------------------
(* Types are kept.                                                         *)

LEMMA ReplacedView ==
  ASSUME TypeInv, NEW x \in todo, ReplaceView(x)
  PROVE  /\ x.name \in Consumer /\ x.spec = files.consumers[x.name] /\ x.spec # Absent
         /\ x.spec.expose \in View
         /\ views' = [views EXCEPT ![x.spec.expose] =
                        [source |-> x.spec.source, body |-> x.spec.body]]
         /\ \/ /\ registry' = [registry EXCEPT ![x.name] = x.spec]
               /\ lost' = lost
            \/ registry' = registry /\ lost' = lost \cup {x.spec.expose}
         /\ strays' = IF RowsOf(x.spec.expose) \subseteq {x.name}
                      THEN strays \ {x.spec.expose} ELSE strays \cup {x.spec.expose}
BY DesiredAssumption DEF TypeInv, StepTypes, ReplaceView, Register

LEMMA CoalesceTypes ==
  ASSUME NEW old \in TableSpec, NEW args \in AlterArgs
  PROVE  Coalesce(old, args) \in TableSpec
<1>1. /\ old.query \in Query /\ args.query \in Query \cup {None}
      /\ old.schedule \in Schedule /\ args.schedule \in Schedule \cup {None}
      /\ old.refresh \in RefreshMode /\ args.refresh \in RefreshMode \cup {None}
      /\ old.cdc \in CdcMode \cup {None} /\ args.cdc \in CdcMode \cup {None}
  BY DEF TableSpec, AlterArgs
<1>2. /\ OrElse(args.query, old.query) \in Query
      /\ OrElse(args.schedule, old.schedule) \in Schedule
      /\ OrElse(args.refresh, old.refresh) \in RefreshMode
      /\ OrElse(args.cdc, old.cdc) \in CdcMode \cup {None}
  BY <1>1 DEF OrElse
<1> QED
  BY <1>2 DEF Coalesce, TableSpec

LEMMA TableStepEffect ==
  ASSUME TypeInv, NEW x \in todo, x.op \in TableChanges
  PROVE  /\ x.table \in Table
         /\ Effect(live, x) \in DagState
         /\ \A t \in Table \ {x.table} : Effect(live, x)[t] = live[t]
<1>1. /\ x.table \in Table /\ x.args \in AlterArgs
      /\ x.op = "CreateStreamTable" => x.args \in TableSpec
  BY DEF TypeInv, StepTypes
<1>2. live \in [Table -> TableSpec \cup {Absent}]
  BY DEF TypeInv, TypeOK, DagState
<1>3. live[x.table] # Absent => Coalesce(live[x.table], x.args) \in TableSpec
  BY <1>1, <1>2, CoalesceTypes
<1>4. CASE x.op = "CreateStreamTable"
  BY <1>1, <1>2, <1>4 DEF Effect, CreateTable, DagState
<1>5. CASE x.op = "DropStreamTable"
  BY <1>1, <1>2, <1>5 DEF Effect, DropTable, DagState
<1>6. CASE x.op = "AlterStreamTable"
  BY <1>1, <1>2, <1>3, <1>6 DEF Effect, AlterTable, DagState
<1> QED
  BY <1>1, <1>4, <1>5, <1>6 DEF TableChanges

(* Every action keeps the types.                                           *)
LEMMA TypesKept == TypeInv /\ [Next]_vars => TypeInv'
<1> SUFFICES ASSUME TypeInv, [Next]_vars PROVE TypeInv'
  OBVIOUS
<1>1. CASE UNCHANGED vars
  BY <1>1 DEF vars, database, TypeInv, TypeOK, Idle, StepTypes, Exposed
<1>2. CASE Edit
  BY <1>2 DEF Edit, database, TypeInv, TypeOK, Idle, StepTypes
<1>3. CASE BeginApply
  <2>1. StepTypes'
    <3>1. ASSUME NEW x \in todo' PROVE x \in FullPlan
      BY <1>3, <3>1 DEF BeginApply
    <3> QED
      BY <1>3, <3>1, PlanTyped DEF StepTypes, BeginApply, Exposed
  <2>2. FullPlan # {}
    BY DEF FullPlan, Bookkeeping
  <2> QED
    BY <1>3, <2>1, <2>2 DEF BeginApply, database, TypeInv, TypeOK, Idle
<1>4. ASSUME NEW x \in todo, AlterBaseTable(x) PROVE TypeInv'
  <2>1. StepTypes' /\ (Idle <=> outcome # "running")' /\ outcome' \in {"ok", "running"}
    BY <1>4 DEF AlterBaseTable, Proceed, Idle, TypeInv, StepTypes, Exposed
  <2>2. base' = [s \in Source |-> base'[s]] /\ torn' \subseteq Source
    BY <1>4 DEF AlterBaseTable, TypeInv, TypeOK
  <2> QED
    BY <1>4, <2>1, <2>2 DEF AlterBaseTable, TypeInv, TypeOK
<1>5. ASSUME NEW x \in todo, TableStep(x) PROVE TypeInv'
  <2>2. Effect(live, x) \in DagState
    BY <1>5, TableStepEffect DEF TableStep
  <2>3. over' = [t \in Table |-> over'[t]]
    BY <1>5 DEF TableStep, TypeInv
  <2> QED
    BY <1>5, <2>2, <2>3 DEF TableStep, Proceed, TypeInv, TypeOK, Idle, StepTypes, Exposed
<1>6. ASSUME NEW x \in todo, ReplaceView(x) PROVE TypeInv'
  <2>1. /\ x.name \in Consumer /\ x.spec.expose \in View
        /\ views' = [views EXCEPT ![x.spec.expose] =
                       [source |-> x.spec.source, body |-> x.spec.body]]
        /\ \/ /\ registry' = [registry EXCEPT ![x.name] = x.spec]
              /\ lost' = lost
           \/ registry' = registry /\ lost' = lost \cup {x.spec.expose}
        /\ strays' \in {strays \ {x.spec.expose}, strays \cup {x.spec.expose}}
    BY <1>6, ReplacedView
  <2>2. StepTypes' /\ (Idle <=> outcome # "running")' /\ outcome' \in {"ok", "running"}
    BY <1>6 DEF ReplaceView, Proceed, Idle, TypeInv, StepTypes, Exposed
  <2>3. /\ views = [v \in View |-> views[v]] /\ registry = [n \in Consumer |-> registry[n]]
        /\ lost \subseteq View /\ strays \subseteq View
        /\ \A n \in Consumer : registry[n] # Absent => registry[n].expose \in View
    BY DEF TypeInv, TypeOK
  <2>4. views' = [v \in View |-> views'[v]]
    BY <2>1, <2>3
  <2>5. registry' = [n \in Consumer |-> registry'[n]]
    BY <2>1, <2>3
  <2>6. lost' \subseteq View /\ strays' \subseteq View
    BY <2>1, <2>3
  <2>7. \A n \in Consumer : registry'[n] # Absent => registry'[n].expose \in View
    BY <2>1, <2>3
  <2> QED
    BY <1>6, <2>2, <2>4, <2>5, <2>6, <2>7 DEF ReplaceView, TypeInv, TypeOK
<1>7. ASSUME NEW x \in todo, DropView(x) PROVE TypeInv'
  <2> USE <1>7 DEF DropView
  <2>1. StepTypes' /\ (Idle <=> outcome # "running")' /\ outcome' \in {"ok", "running"}
    BY DEF Proceed, Idle, TypeInv, StepTypes, Exposed
  <2>2. views' = [v \in View |-> views'[v]] /\ registry' = [n \in Consumer |-> registry'[n]]
        /\ lost' \subseteq View /\ strays' \subseteq View
    BY DEF TypeInv, TypeOK, StepTypes, Register
  <2>3. \A n \in Consumer : registry'[n] # Absent => registry'[n].expose \in View
    BY DEF TypeInv, Register
  <2> QED
    BY <2>1, <2>2, <2>3 DEF TypeInv, TypeOK
<1>8. ASSUME NEW x \in todo, RecordSnapshot(x) PROVE TypeInv'
  <2>1. recorded' = [s \in Source |-> recorded'[s]]
    BY <1>8, DesiredAssumption DEF RecordSnapshot, TypeInv
  <2> QED
    BY <1>8, <2>1 DEF RecordSnapshot, Proceed, TypeInv, TypeOK, Idle, StepTypes, Exposed
<1>9. ASSUME NEW x \in todo, LockOrUnlock(x) PROVE TypeInv'
  BY <1>9 DEF LockOrUnlock, database, Proceed, TypeInv, TypeOK, Idle, StepTypes, Exposed
<1>10. ASSUME NEW x \in todo, StepFails(x) PROVE TypeInv'
  BY <1>10 DEF StepFails, database, TypeInv, TypeOK, Idle, StepTypes
<1> QED
  BY <1>1, <1>2, <1>3, <1>4, <1>5, <1>6, <1>7, <1>8, <1>9, <1>10 DEF Next

LEMMA TypesHoldInitially == Init => TypeInv
BY DEF Init, Untouched, EmptyDag, DagState, TypeInv, TypeOK, Idle, StepTypes

(* In every reachable state the variables hold what TypeOK says, and every *)
(* step of a plan what the executor reads from it.                         *)
THEOREM CascadeTypesHold == Spec => []TypeInv
BY TypesHoldInitially, TypesKept, PTL DEF Spec

-----------------------------------------------------------------------------
(* Views and their rows.                                                   *)

Present(c) == views[c.expose] = [source |-> c.source, body |-> c.body]

(* A view is as its rows have it, or its case is one of the exceptions.    *)
RowsMatchViews ==
  \A n \in Consumer :
    registry[n] # Absent => Present(registry[n]) \/ registry[n].expose \in lost \cup strays

(* A file that exposes v, and one whose view the plan replaces.            *)
Exposes(n, v) == files.consumers[n] # Absent /\ files.consumers[n].expose = v

Replaces(x, v) == x.op = "ReplaceView" /\ x.spec.expose = v

(* What a file exposes is there or will be replaced.                       *)
FilesWillBeViews ==
  outcome \in {"running", "ok"} =>
    \A v \in Exposed \ (lost \cup strays) :
      \/ \E x \in todo : Replaces(x, v)
      \/ \E n \in Consumer : Exposes(n, v) /\ Present(files.consumers[n])

(* A row nobody exposes any more will be deleted with its view, if it has  *)
(* the view's name.                                                        *)
OrphansWillGo ==
  outcome \in {"running", "ok"} =>
    \A n \in Consumer :
      registry[n] # Absent /\ ShortName[registry[n].expose] = n =>
        \/ registry[n].expose \in Exposed \cup lost
        \/ \E x \in todo : x.op = "DropView" /\ x.view = registry[n].expose

ViewInv == RowsMatchViews /\ FilesWillBeViews /\ OrphansWillGo

(* The row a file is compared with is one of its view.                     *)
LEMMA FirstRowIsARow ==
  ASSUME NEW v, RowsOf(v) # {}
  PROVE  \E n \in RowsOf(v) : FirstRow(v) = registry[n]
<1> DEFINE Places == {Place[n] : n \in RowsOf(v)}
           Before == {p \in Nat \X Nat : p[1] < p[2]}
<1>1. IsWellFoundedOn(Before, Nat)
  BY NatLessThanWellFounded, IsWellFoundedOnSubrelation DEF OpToRel
<1>2. Places \subseteq Nat /\ Places # {}
  BY PlaceAssumption DEF RowsOf
<1>3. PICK i \in Places : \A j \in Places : <<j, i>> \notin Before
  <2> HIDE DEF Places, Before
  <2> QED
    BY <1>1, <1>2, WFMin
<1>4. \A j \in Places : i <= j
  <2>1. ASSUME NEW j \in Places, j < i PROVE <<j, i>> \in Before
    BY <1>2, <2>1
  <2> HIDE DEF Places, Before
  <2>2. \A j \in Places : ~(j < i)
    BY <1>3, <2>1
  <2> QED
    BY <1>2, <1>3, <2>2
<1>5. PICK n \in RowsOf(v) : i = Place[n]
  OBVIOUS
<1>6. \A m \in RowsOf(v) : Place[n] <= Place[m]
  BY <1>4, <1>5
<1>7. (CHOOSE k \in RowsOf(v) : \A m \in RowsOf(v) : Place[k] <= Place[m]) \in RowsOf(v)
  BY <1>6
<1> QED
  BY <1>7 DEF FirstRow

LEMMA PlanCoversViews ==
  ASSUME TypeInv, RowsMatchViews
  PROVE  /\ \A v \in Exposed \ (lost \cup strays) :
              \/ \E x \in Changing : Replaces(x, v)
              \/ \E n \in Consumer : Exposes(n, v) /\ Present(files.consumers[n])
         /\ \A n \in Consumer :
              registry[n] # Absent =>
                \/ registry[n].expose \in Exposed
                \/ \E x \in Changing : x.op = "DropView" /\ x.view = registry[n].expose
<1>1. ASSUME NEW v \in Exposed \ (lost \cup strays)
      PROVE  \/ \E x \in Changing : Replaces(x, v)
             \/ \E n \in Consumer : Exposes(n, v) /\ Present(files.consumers[n])
  <2>1. PICK n \in Consumer : Exposes(n, v)
    BY DEF Exposed, Exposes
  <2>2. CASE ConsumerChanged(n)
    <3>1. ReplaceViewStep(n) \in Changing
      BY <2>2 DEF Changing, ConsumerSteps
    <3>2. Replaces(ReplaceViewStep(n), v)
      BY <2>1 DEF ReplaceViewStep, Replaces, Exposes
    <3> QED
      BY <3>1, <3>2
  <2>3. CASE ~ConsumerChanged(n)
    <3>1. RowsOf(v) # {} /\ FirstRow(v) = files.consumers[n]
      BY <2>1, <2>3 DEF ConsumerChanged, Exposes
    <3>2. PICK m \in RowsOf(v) : registry[m] = files.consumers[n]
      BY <3>1, FirstRowIsARow
    <3>3. m \in Consumer /\ registry[m] # Absent /\ registry[m].expose = v
      BY <3>2 DEF RowsOf
    <3>4. Present(files.consumers[n])
      BY <3>2, <3>3 DEF RowsMatchViews
    <3> QED
      BY <2>1, <3>4
  <2> QED
    BY <2>2, <2>3
<1>2. ASSUME NEW n \in Consumer, registry[n] # Absent
      PROVE  \/ registry[n].expose \in Exposed
             \/ \E x \in Changing : x.op = "DropView" /\ x.view = registry[n].expose
  <2>1. CASE ConsumerDropped(n)
    <3>1. DropViewStep(n) \in Changing
      BY <2>1 DEF Changing, ConsumerSteps
    <3>2. DropViewStep(n).op = "DropView" /\ DropViewStep(n).view = registry[n].expose
      BY DEF DropViewStep
    <3> QED
      BY <3>1, <3>2
  <2> QED
    BY <1>2, <2>1 DEF ConsumerDropped
<1> QED
  BY <1>1, <1>2

(* What the other steps leave alone.                                       *)
LEMMA ViewsLeftAlone ==
  ASSUME ViewInv, NEW x \in todo, x.op \notin {"ReplaceView", "DropView"},
         outcome = "running", Proceed(x),
         UNCHANGED <<files, views, registry, lost, strays>>
  PROVE  ViewInv'
<1>1. RowsMatchViews'
  BY DEF ViewInv, RowsMatchViews, Present
<1>2. FilesWillBeViews'
  BY DEF ViewInv, FilesWillBeViews, Present, Proceed, Exposed, Exposes, Replaces
<1>3. OrphansWillGo'
  BY DEF ViewInv, OrphansWillGo, Exposed, Proceed
<1> QED
  BY <1>1, <1>2, <1>3 DEF ViewInv

(* A step on a view: it leaves the others as they are, and of its own the  *)
(* rows of its name, or else the view is one of the exceptions.            *)
LEMMA StepOnAView ==
  ASSUME TypeInv, ViewInv, NEW v \in View, NEW k, NEW view, NEW rows,
         views' = [views EXCEPT ![v] = view],
         Register(k, v, rows),
         rows = [n \in Consumer |-> rows[n]],
         \A n \in Consumer : rows[n] \in {registry[n], Absent} \/ n = k
  PROVE  /\ \A c : c.expose # v => (Present(c)' <=> Present(c))
         /\ lost \subseteq lost' /\ lost' \subseteq lost \cup {v}
         /\ strays' \ {v} = strays \ {v}
         /\ \A n \in Consumer :
              registry'[n] # Absent /\ registry'[n].expose # v =>
                registry'[n] = registry[n] \/ (n = k /\ registry'[n] = rows[n])
         /\ \A n \in Consumer :
              registry'[n] # Absent /\ registry'[n].expose = v =>
                v \in lost' \cup strays' \/ (n = k /\ registry'[n] = rows[n])
<1>1. \A c : c.expose # v => (Present(c)' <=> Present(c))
  BY DEF Present, TypeInv
<1>2. lost \subseteq lost' /\ lost' \subseteq lost \cup {v} /\ strays' \ {v} = strays \ {v}
  BY DEF Register
<1>3. registry' = rows \/ registry' = registry
  BY DEF Register
<1>4. ASSUME NEW n \in Consumer, registry'[n] # Absent, registry'[n].expose = v
      PROVE  v \in lost' \cup strays' \/ (n = k /\ registry'[n] = rows[n])
  <2>1. CASE registry' # rows
    BY <2>1 DEF Register
  <2>2. CASE registry' = rows /\ n = k
    BY <2>2
  <2>3. CASE registry' = rows /\ n # k
    <3>1. registry[n] = registry'[n]
      BY <1>4, <2>3
    <3>2. n \in RowsOf(v)
      BY <1>4, <3>1 DEF RowsOf
    <3> QED
      BY <2>3, <3>2 DEF Register
  <2> QED
    BY <2>1, <2>2, <2>3
<1>5. ASSUME NEW n \in Consumer, registry'[n] # Absent
      PROVE  registry'[n] = registry[n] \/ (n = k /\ registry'[n] = rows[n])
  BY <1>3, <1>5
<1> QED
  BY <1>1, <1>2, <1>4, <1>5

(* Every action keeps the invariant of the views.                          *)
LEMMA ViewInvKept ==
  ASSUME TypeInv, ViewInv, [Next]_vars
  PROVE  ViewInv'
<1> USE DEF ViewInv
<1>1. CASE UNCHANGED vars
  BY <1>1 DEF vars, database, RowsMatchViews, FilesWillBeViews, OrphansWillGo, Present,
              Exposed, Exposes, Replaces
<1>2. CASE Edit
  BY <1>2 DEF Edit, database, RowsMatchViews, FilesWillBeViews, OrphansWillGo, Present
<1>3. CASE BeginApply
  <2>1. Changing \subseteq todo'
    BY <1>3 DEF BeginApply, FullPlan
  <2>2. FilesWillBeViews'
    BY <1>3, <2>1, PlanCoversViews
       DEF BeginApply, database, FilesWillBeViews, Present, Exposed, Exposes, Replaces
  <2>3. OrphansWillGo'
    BY <1>3, <2>1, PlanCoversViews DEF BeginApply, database, OrphansWillGo, Exposed
  <2> QED
    BY <1>3, <2>2, <2>3 DEF BeginApply, database, RowsMatchViews, Present
<1>4. ASSUME NEW x \in todo PROVE outcome = "running"
  BY <1>4 DEF TypeInv, TypeOK, Idle
<1>5. ASSUME NEW x \in todo, AlterBaseTable(x) PROVE ViewInv'
  BY <1>4, <1>5, ViewsLeftAlone DEF AlterBaseTable
<1>6. ASSUME NEW x \in todo, TableStep(x) PROVE ViewInv'
  BY <1>4, <1>6, ViewsLeftAlone DEF TableStep, TableChanges
<1>7. ASSUME NEW x \in todo, RecordSnapshot(x) PROVE ViewInv'
  BY <1>4, <1>7, ViewsLeftAlone DEF RecordSnapshot
<1>8. ASSUME NEW x \in todo, LockOrUnlock(x) PROVE ViewInv'
  BY <1>4, <1>8, ViewsLeftAlone DEF LockOrUnlock, database
<1>9. ASSUME NEW x \in todo, StepFails(x) PROVE ViewInv'
  BY <1>9 DEF StepFails, database, RowsMatchViews, FilesWillBeViews, OrphansWillGo, Present
<1>10. ASSUME NEW x \in todo, ReplaceView(x) PROVE ViewInv'
  <2> DEFINE n == x.name
             v == x.spec.expose
             rows == [registry EXCEPT ![n] = x.spec]
  <2>1. /\ n \in Consumer /\ x.spec = files.consumers[n] /\ x.spec # Absent
        /\ v \in View /\ v \in Exposed
        /\ views' = [views EXCEPT ![v] = [source |-> x.spec.source, body |-> x.spec.body]]
        /\ Register(n, v, rows)
        /\ files' = files /\ Exposed' = Exposed /\ x.op = "ReplaceView"
        /\ todo' = todo \ {x} /\ outcome = "running"
    BY <1>4, <1>10, ReplacedView DEF ReplaceView, Proceed, Exposed
  <2>2. /\ rows = [m \in Consumer |-> rows[m]] /\ rows[n] = x.spec
        /\ \A m \in Consumer : rows[m] \in {registry[m], Absent} \/ m = n
    BY <2>1 DEF TypeInv
  <2>3. /\ \A c : c.expose # v => (Present(c)' <=> Present(c))
        /\ lost \subseteq lost' /\ lost' \subseteq lost \cup {v}
        /\ strays' \ {v} = strays \ {v}
        /\ \A m \in Consumer :
             registry'[m] # Absent /\ registry'[m].expose # v =>
               registry'[m] = registry[m] \/ (m = n /\ registry'[m] = x.spec)
        /\ \A m \in Consumer :
             registry'[m] # Absent /\ registry'[m].expose = v =>
               v \in lost' \cup strays' \/ (m = n /\ registry'[m] = x.spec)
    <3> DEFINE view == [source |-> x.spec.source, body |-> x.spec.body]
    <3>1. views' = [views EXCEPT ![v] = view]
      BY <2>1
    <3> HIDE DEF n, v, rows, view
    <3>2. /\ \A c : c.expose # v => (Present(c)' <=> Present(c))
          /\ lost \subseteq lost' /\ lost' \subseteq lost \cup {v}
          /\ strays' \ {v} = strays \ {v}
          /\ \A m \in Consumer :
               registry'[m] # Absent /\ registry'[m].expose # v =>
                 registry'[m] = registry[m] \/ (m = n /\ registry'[m] = rows[m])
          /\ \A m \in Consumer :
               registry'[m] # Absent /\ registry'[m].expose = v =>
                 v \in lost' \cup strays' \/ (m = n /\ registry'[m] = rows[m])
      BY <2>1, <2>2, <3>1, StepOnAView DEF Present, Register, RowsOf
    <3> QED
      BY <2>2, <3>2
  <2>4. Present(x.spec)'
    BY <2>1 DEF Present, TypeInv
  <2>5. RowsMatchViews'
    <3>1. ASSUME NEW m \in Consumer, registry'[m] # Absent
          PROVE  Present(registry[m])' \/ registry'[m].expose \in (lost \cup strays)'
      <4>1. CASE registry'[m].expose = v
        BY <2>3, <2>4, <3>1, <4>1
      <4>2. CASE registry'[m].expose # v
        <5>1. registry'[m] = registry[m]
          BY <2>3, <3>1, <4>2
        <5> QED
          BY <2>3, <3>1, <4>2, <5>1 DEF RowsMatchViews
      <4> QED
        BY <4>1, <4>2
    <3> QED
      BY <3>1 DEF RowsMatchViews
  <2>6. FilesWillBeViews'
    <3>1. ASSUME NEW w \in Exposed, w \notin lost' \cup strays'
          PROVE  \/ \E y \in todo' : Replaces(y, w)
                 \/ \E m \in Consumer : Exposes(m, w) /\ Present(files.consumers[m])'
      <4>1. CASE w = v
        BY <2>1, <2>4, <4>1 DEF Exposes
      <4>2. CASE w # v
        <5>1. w \notin lost \cup strays
          BY <2>3, <3>1, <4>2
        <5>2. CASE \E y \in todo : Replaces(y, w)
          BY <2>1, <4>2, <5>2 DEF Replaces
        <5>3. CASE \E m \in Consumer : Exposes(m, w) /\ Present(files.consumers[m])
          BY <2>1, <2>3, <4>2, <5>3 DEF Exposes
        <5> QED
          BY <2>1, <3>1, <5>1, <5>2, <5>3 DEF FilesWillBeViews
      <4> QED
        BY <4>1, <4>2
    <3> QED
      BY <2>1, <3>1 DEF FilesWillBeViews, Exposes, Replaces
  <2>7. OrphansWillGo'
    <3>1. ASSUME NEW m \in Consumer, registry'[m] # Absent, ShortName[registry'[m].expose] = m
          PROVE  \/ registry'[m].expose \in Exposed \cup lost'
                 \/ \E y \in todo' : y.op = "DropView" /\ y.view = registry'[m].expose
      <4>1. CASE registry'[m].expose = v
        BY <2>1, <4>1
      <4>2. CASE registry'[m].expose # v
        <5>1. registry'[m] = registry[m]
          BY <2>3, <3>1, <4>2
        <5> QED
          BY <2>1, <2>3, <3>1, <5>1 DEF OrphansWillGo
      <4> QED
        BY <4>1, <4>2
    <3> QED
      BY <2>1, <3>1 DEF OrphansWillGo
  <2> QED
    BY <2>5, <2>6, <2>7
<1>11. ASSUME NEW x \in todo, DropView(x) PROVE ViewInv'
  <2> DEFINE n == x.name
             v == x.view
             rows == [m \in Consumer |-> IF m = n THEN Absent ELSE registry[m]]
  <2>1. /\ v \in View /\ v \notin Exposed /\ n = ShortName[v]
        /\ views' = [views EXCEPT ![v] = Absent]
        /\ Register(n, v, rows)
        /\ files' = files /\ Exposed' = Exposed /\ x.op = "DropView"
        /\ todo' = todo \ {x} /\ outcome = "running"
    BY <1>4, <1>11 DEF DropView, Proceed, TypeInv, StepTypes, Exposed
  <2>2. /\ rows = [m \in Consumer |-> rows[m]]
        /\ \A m \in Consumer : rows[m] \in {registry[m], Absent} \/ m = n
        /\ \A m \in Consumer : m = n => rows[m] = Absent
    OBVIOUS
  <2>3. /\ \A c : c.expose # v => (Present(c)' <=> Present(c))
        /\ lost \subseteq lost' /\ lost' \subseteq lost \cup {v}
        /\ strays' \ {v} = strays \ {v}
        /\ \A m \in Consumer :
             registry'[m] # Absent /\ registry'[m].expose # v => registry'[m] = registry[m]
        /\ \A m \in Consumer :
             registry'[m] # Absent /\ registry'[m].expose = v => v \in lost' \cup strays'
    <3> HIDE DEF n, v, rows
    <3>1. /\ \A c : c.expose # v => (Present(c)' <=> Present(c))
          /\ lost \subseteq lost' /\ lost' \subseteq lost \cup {v}
          /\ strays' \ {v} = strays \ {v}
          /\ \A m \in Consumer :
               registry'[m] # Absent /\ registry'[m].expose # v =>
                 registry'[m] = registry[m] \/ (m = n /\ registry'[m] = rows[m])
          /\ \A m \in Consumer :
               registry'[m] # Absent /\ registry'[m].expose = v =>
                 v \in lost' \cup strays' \/ (m = n /\ registry'[m] = rows[m])
      BY <2>1, <2>2, StepOnAView DEF Present, Register, RowsOf
    <3> QED
      BY <2>2, <3>1
  <2>4. ASSUME NEW m \in Consumer, registry'[m] # Absent, ShortName[registry'[m].expose] = m,
               registry'[m].expose = v
        PROVE  v \in lost'
    BY <2>1, <2>4 DEF Register
  <2>5. RowsMatchViews'
    <3>1. ASSUME NEW m \in Consumer, registry'[m] # Absent
          PROVE  Present(registry[m])' \/ registry'[m].expose \in (lost \cup strays)'
      <4>1. CASE registry'[m].expose = v
        BY <2>3, <3>1, <4>1
      <4>2. CASE registry'[m].expose # v
        <5>1. registry'[m] = registry[m]
          BY <2>3, <3>1, <4>2
        <5> QED
          BY <2>3, <3>1, <4>2, <5>1 DEF RowsMatchViews
      <4> QED
        BY <4>1, <4>2
    <3> QED
      BY <3>1 DEF RowsMatchViews
  <2>6. FilesWillBeViews'
    <3>1. ASSUME NEW w \in Exposed, w \notin lost' \cup strays'
          PROVE  \/ \E y \in todo' : Replaces(y, w)
                 \/ \E m \in Consumer : Exposes(m, w) /\ Present(files.consumers[m])'
      <4>1. w # v /\ w \notin lost \cup strays
        BY <2>1, <2>3, <3>1
      <4>2. CASE \E y \in todo : Replaces(y, w)
        BY <2>1, <4>2 DEF Replaces
      <4>3. CASE \E m \in Consumer : Exposes(m, w) /\ Present(files.consumers[m])
        BY <2>1, <2>3, <4>1, <4>3 DEF Exposes
      <4> QED
        BY <2>1, <3>1, <4>1, <4>2, <4>3 DEF FilesWillBeViews
    <3> QED
      BY <2>1, <3>1 DEF FilesWillBeViews, Exposes, Replaces
  <2>7. OrphansWillGo'
    <3>1. ASSUME NEW m \in Consumer, registry'[m] # Absent, ShortName[registry'[m].expose] = m
          PROVE  \/ registry'[m].expose \in Exposed \cup lost'
                 \/ \E y \in todo' : y.op = "DropView" /\ y.view = registry'[m].expose
      <4>1. CASE registry'[m].expose = v
        BY <2>4, <3>1, <4>1
      <4>2. CASE registry'[m].expose # v
        <5>1. registry'[m] = registry[m]
          BY <2>3, <3>1, <4>2
        <5> QED
          BY <2>1, <2>3, <3>1, <4>2, <5>1 DEF OrphansWillGo
      <4> QED
        BY <4>1, <4>2
    <3> QED
      BY <2>1, <3>1 DEF OrphansWillGo
  <2> QED
    BY <2>5, <2>6, <2>7
<1> QED
  BY <1>1, <1>2, <1>3, <1>5, <1>6, <1>7, <1>8, <1>9, <1>10, <1>11 DEF Next

LEMMA ViewInvHolds == Spec => []ViewInv
<1>1. Init => ViewInv
  BY DEF Init, ViewInv, RowsMatchViews, FilesWillBeViews, OrphansWillGo
<1>2. TypeInv /\ ViewInv /\ [Next]_vars => ViewInv'
  BY ViewInvKept
<1> QED
  BY <1>1, <1>2, CascadeTypesHold, PTL DEF Spec

(* Whatever the files are called, after a successful apply every view they *)
(* expose is as a file has it, whatever was edited, dropped and recreated  *)
(* before, except those with a row left under another name, or with a row  *)
(* a failing statement left behind.                                        *)
THEOREM ViewsAreOfFiles == Spec => []ViewsFollowFiles
<1>1. TypeInv /\ ViewInv => ViewsFollowFiles
  <2> SUFFICES ASSUME TypeInv, ViewInv, outcome = "ok", NEW v \in Exposed \ (lost \cup strays)
               PROVE  \E n \in Consumer :
                        LET c == files.consumers[n] IN
                        /\ c # Absent /\ c.expose = v
                        /\ views[v] = [source |-> c.source, body |-> c.body]
    BY DEF ViewsFollowFiles
  <2>1. todo = {}
    BY DEF TypeInv, TypeOK, Idle
  <2>2. PICK n \in Consumer : Exposes(n, v) /\ Present(files.consumers[n])
    BY <2>1 DEF ViewInv, FilesWillBeViews
  <2> QED
    BY <2>2 DEF Exposes, Present
<1> QED
  BY <1>1, CascadeTypesHold, ViewInvHolds, PTL

(* CORR-7: whatever the files are called, after a successful apply no row  *)
(* with the name of its view is left of a view that no file exposes,       *)
(* except those whose deletion failed.                                     *)
THEOREM RowsGoWithViews == Spec => []NoOrphanRows
<1>1. TypeInv /\ ViewInv => NoOrphanRows
  BY DEF TypeInv, TypeOK, Idle, ViewInv, OrphansWillGo, NoOrphanRows
<1> QED
  BY <1>1, CascadeTypesHold, ViewInvHolds, PTL

(* The first exception is that of the file names alone: where every file   *)
(* has the name of the view it exposes, in whatever schema, no row is ever *)
(* left under another name.                                                *)
NamedAfterViews ==
  \A desired \in Desired, n \in Consumer :
    desired.consumers[n] # Absent => ShortName[desired.consumers[n].expose] = n

RowsNamedAfterViews ==
  \A n \in Consumer : registry[n] # Absent => ShortName[registry[n].expose] = n

NoneLeft == RowsNamedAfterViews /\ strays = {}

LEMMA NoneLeftKept ==
  ASSUME NamedAfterViews, TypeInv, NoneLeft, [Next]_vars
  PROVE  NoneLeft'
<1> USE DEF NoneLeft
<1>1. ASSUME UNCHANGED <<registry, strays>> PROVE NoneLeft'
  BY <1>1 DEF RowsNamedAfterViews
<1>2. ASSUME NEW x \in todo, ReplaceView(x) PROVE NoneLeft'
  <2>1. /\ x.name \in Consumer /\ x.spec = files.consumers[x.name] /\ x.spec # Absent
        /\ \/ registry' = [registry EXCEPT ![x.name] = x.spec]
           \/ registry' = registry
        /\ strays' = IF RowsOf(x.spec.expose) \subseteq {x.name}
                     THEN strays \ {x.spec.expose} ELSE strays \cup {x.spec.expose}
    BY <1>2, ReplacedView
  <2>2. ShortName[x.spec.expose] = x.name
    BY <2>1 DEF NamedAfterViews, TypeInv
  <2>3. RowsOf(x.spec.expose) \subseteq {x.name}
    BY <2>2 DEF RowsOf, RowsNamedAfterViews
  <2>4. RowsNamedAfterViews'
    BY <2>1, <2>2 DEF RowsNamedAfterViews, TypeInv
  <2> QED
    BY <2>1, <2>3, <2>4
<1>3. ASSUME NEW x \in todo, DropView(x) PROVE NoneLeft'
  <2>1. x.name = ShortName[x.view]
    BY <1>3 DEF DropView, TypeInv, StepTypes
  <2>2. RowsOf(x.view) \subseteq {x.name}
    BY <2>1 DEF RowsOf, RowsNamedAfterViews
  <2> QED
    BY <1>3, <2>2 DEF DropView, Register, RowsNamedAfterViews
<1> QED
  BY <1>1, <1>2, <1>3
     DEF Next, vars, database, Edit, BeginApply, AlterBaseTable, TableStep, RecordSnapshot,
         LockOrUnlock, StepFails

LEMMA NamedViewsLeaveNone == NamedAfterViews => (Spec => [](strays = {}))
<1> SUFFICES ASSUME NamedAfterViews PROVE Spec => [](strays = {})
  OBVIOUS
<1>1. Init => NoneLeft
  BY DEF Init, NoneLeft, RowsNamedAfterViews
<1>2. TypeInv /\ NoneLeft /\ [Next]_vars => NoneLeft'
  BY NoneLeftKept
<1>3. NoneLeft => strays = {}
  BY DEF NoneLeft
<1> QED
  BY <1>1, <1>2, <1>3, CascadeTypesHold, PTL DEF Spec

-----------------------------------------------------------------------------
(* Base tables and their readers.  The phases of a run: until the snapshot *)
(* it works towards the files; after it the files are reached.             *)

ToSnapshot == \E x \in todo : x.op = "RecordSnapshot"

StepsOn(t) == {x \in todo : x.op \in TableChanges /\ x.table = t}

AltersOf(s) == {x \in todo : x.op = "AlterBaseTable" /\ x.source = s}

CreatesOf(t) == {x \in todo : x.op = "CreateStreamTable" /\ x.table = t}

(* A source is as its version was recorded, or already as its file has it. *)
SourcesKnown ==
  \A s \in Source \ torn :
    \/ base[s] = recorded[s]
    \/ base[s] = files.sources[s]
    \/ files.sources[s] = Absent /\ recorded[s] = Absent

(* Where it is as recorded, its readers were created over it as it is.     *)
ReadersKnown ==
  \A s \in Source \ torn, t \in Table :
    live[t] # Absent /\ s \in SourcesRead[live[t].query] /\ recorded[s] = base[s]
      => over[t][s] = base[s]

(* No table was created over the DDL of a source that had none yet.        *)
NothingBefore == \A s \in Source, t \in Table : base[s] = Absent => over[t][s] = Absent

(* The place of a step among those of the plan.                            *)
StepPlaces ==
  \A x \in todo :
    /\ x.op = "RecordSnapshot" => x = Placed(<<6, 0, 0, 0, 0>>, Do("RecordSnapshot"))
    /\ x.op \notin {"RecordSnapshot", "UnlockDag"} => x.at[1] \in 1 .. 5

(* A source is altered only where it changed, and will be if it is not as  *)
(* its file has it.                                                        *)
SourcesWillFollow ==
  /\ \A s \in Source : AltersOf(s) # {} => s \in ChangedSources
  /\ \A s \in ChangedSources : AltersOf(s) # {} \/ base[s] = files.sources[s]

(* What is planned for a table leads to the query of its file.             *)
StepFits(x, t) ==
  \/ Creates(x, files.tables, t)
  \/ /\ x.op = "DropStreamTable"
     /\ files.tables[t] = Absent \/ \E y \in CreatesOf(t) : Precedes(x, y)
  \/ Alters(x, files.tables, live, t) /\ StepsOn(t) = {x}

TablesWillFollow ==
  \A t \in Table :
    /\ \A x \in StepsOn(t) : StepFits(x, t)
    /\ \/ SameQuery(files.tables, live, t)
       \/ CreatesOf(t) # {}
       \/ StepsOn(t) # {} /\ files.tables[t] = Absent
       \/ \E x \in StepsOn(t) : Alters(x, files.tables, live, t)

(* A table that reads a changed source is over its new DDL for good, or    *)
(* will be created once that is executed.                                  *)
ReadersWillFollow ==
  \A s \in ChangedSources : \A t \in Impacted(s) :
    \/ AltersOf(s) = {} /\ over[t][s] = files.sources[s]
    \/ \E y \in CreatesOf(t) : \A x \in AltersOf(s) : Precedes(x, y)

OnTheWay == SourcesWillFollow /\ TablesWillFollow /\ ReadersWillFollow

(* The version of the files is recorded, and the tables have their queries. *)
Arrived ==
  /\ \A x \in todo : x.op = "UnlockDag"
  /\ \A s \in Source : recorded[s] = files.sources[s] \/ files.sources[s] = Absent
  /\ \A t \in Table : SameQuery(files.tables, live, t)

ReaderInv ==
  /\ SourcesKnown /\ ReadersKnown /\ NothingBefore /\ StepPlaces
  /\ outcome = "running" /\ ToSnapshot => OnTheWay
  /\ outcome = "running" /\ ~ToSnapshot => Arrived
  /\ outcome = "ok" => Arrived

(* Places.                                                                 *)
LEMMA EarlierByFirst ==
  ASSUME NEW x, NEW y, x.at[1] < y.at[1] PROVE Precedes(x, y)
<1>1. 1 \in 1 .. 5 /\ \A j \in 1 .. 1 - 1 : x.at[j] = y.at[j]
  OBVIOUS
<1> QED
  BY <1>1 DEF Precedes

LEMMA EarlierBySecond ==
  ASSUME NEW x, NEW y, x.at[1] = y.at[1], x.at[2] < y.at[2] PROVE Precedes(x, y)
<1>1. 2 \in 1 .. 5 /\ \A j \in 1 .. 2 - 1 : x.at[j] = y.at[j]
  OBVIOUS
<1> QED
  BY <1>1 DEF Precedes

LEMMA AlterBeforeCreate ==
  ASSUME NEW p, NEW q, NEW x, NEW y, x.at = <<2, p, 0, 0, 0>>, y.at = <<2, p, 1, q, 2>>
  PROVE  Precedes(x, y)
<1>1. 3 \in 1 .. 5 /\ x.at[3] < y.at[3] /\ \A j \in 1 .. 3 - 1 : x.at[j] = y.at[j]
  OBVIOUS
<1> QED
  BY <1>1 DEF Precedes

LEMMA DropBeforeCreate ==
  ASSUME NEW p, NEW q, NEW x, NEW y, x.at = <<2, p, 1, q, 1>>, y.at = <<2, p, 1, q, 2>>
  PROVE  Precedes(x, y)
<1>1. 5 \in 1 .. 5 /\ x.at[5] < y.at[5] /\ \A j \in 1 .. 5 - 1 : x.at[j] = y.at[j]
  OBVIOUS
<1> QED
  BY <1>1 DEF Precedes

(* A cascade: both steps of every table it is about.                       *)
LEMMA CascadePair ==
  ASSUME TypeInv, NEW s \in ChangedSources, NEW t \in Impacted(s)
  PROVE  \E c \in FullPlan :
           /\ c.op = "CreateStreamTable" /\ c.table = t /\ c.args = files.tables[t]
           /\ c.at = <<2, Place[s], 1, Place[t], 2>>
<1> DEFINE c == Placed(<<2, Place[s], 1, Place[t], 2>>,
                       DoWith("CreateStreamTable", t, files.tables[t]))
<1>1. c \in SourceSteps(s)
  BY DEF CascadeRebuild, SourceSteps
<1>2. c \in FullPlan
  BY <1>1 DEF FullPlan, Changing
<1>3. /\ c.op = "CreateStreamTable" /\ c.table = t /\ c.args = files.tables[t]
      /\ c.at = <<2, Place[s], 1, Place[t], 2>>
  BY DEF Placed, DoWith
<1> QED
  BY <1>2, <1>3

(* The steps of the plan for one table.                                    *)
LEMMA StepsOfPlan ==
  ASSUME TypeInv, NEW x \in FullPlan, x.op \in TableChanges
  PROVE  \/ \E s \in ChangedSources :
              x.table \in Impacted(s) /\ x \in CascadeRebuild(s, x.table)
         \/ /\ x.table \notin Cascaded
            /\ \E i \in DOMAIN TablePlan :
                 /\ x = Placed(<<3, i, 0, 0, 0>>, TablePlan[i])
                 /\ x.op = TablePlan[i].op /\ x.table = TablePlan[i].table
                 /\ x.args = TablePlan[i].args
<1>1. CASE \E s \in ChangedSources : \E t \in Impacted(s) : x \in CascadeRebuild(s, t)
  BY <1>1, CascadeTypes
<1>2. CASE x \in TableSteps
  <2>1. PICK i \in DOMAIN TablePlan : x = Placed(<<3, i, 0, 0, 0>>, TablePlan[i])
    BY <1>2 DEF TableSteps
  <2>2. x.op = TablePlan[i].op /\ x.table = TablePlan[i].table /\ x.args = TablePlan[i].args
    BY <2>1, PlacedFields
  <2>3. x.table \in Table
    BY <1>2, TableStepTypes
  <2>4. FitsTable(TablePlan, files.tables, LiveElsewhere, x.table)
    BY <2>3, PlannedTables
  <2>5. files.tables[x.table] # LiveElsewhere[x.table]
    BY <2>2, <2>4 DEF FitsTable
  <2>6. x.table \notin Cascaded
    BY <2>3, <2>5 DEF LiveElsewhere
  <2> QED
    BY <2>1, <2>2, <2>6
<1> QED
  BY <1>1, <1>2, PlanKinds DEF TableChanges

LEMMA PlanPlaces ==
  ASSUME TypeInv, NEW x \in FullPlan
  PROVE  /\ x.op = "RecordSnapshot" => x = Placed(<<6, 0, 0, 0, 0>>, Do("RecordSnapshot"))
         /\ x.op \notin {"RecordSnapshot", "UnlockDag"} => x.at[1] \in 1 .. 5
<1>1. CASE x.op = "AlterBaseTable"
  BY <1>1, PlanKinds DEF AlterStep, TableChanges
<1>2. CASE x.op \in TableChanges
  <2>1. x.op \notin {"RecordSnapshot", "UnlockDag"}
    BY <1>2 DEF TableChanges
  <2>2. CASE \E s \in ChangedSources :
               x.table \in Impacted(s) /\ x \in CascadeRebuild(s, x.table)
    BY <2>1, <2>2, CascadeTypes
  <2>3. CASE \E i \in DOMAIN TablePlan : x = Placed(<<3, i, 0, 0, 0>>, TablePlan[i])
    BY <2>1, <2>3, PlacedFields
  <2> QED
    BY <1>2, <2>2, <2>3, StepsOfPlan
<1>3. CASE x.op \notin TableChanges \cup {"AlterBaseTable"}
  BY <1>3, PlanKinds, PlacedFields DEF ReplaceViewStep, DropViewStep
<1> QED
  BY <1>1, <1>2, <1>3

(* A plan leads to the files.                                              *)
LEMMA PlanLeadsToFiles ==
  ASSUME TypeInv, BeginApply, Changing # {}
  PROVE  OnTheWay' /\ StepPlaces' /\ ToSnapshot' /\ outcome' = "running"
<1>1. /\ todo' = FullPlan /\ outcome' = "running"
      /\ UNCHANGED <<files, live, base, recorded, over, torn>>
  BY DEF BeginApply, database
<1>2. /\ ChangedSources' = ChangedSources
      /\ \A s \in Source : Impacted(s)' = Impacted(s)
  BY <1>1 DEF ChangedSources, SourceChanged, Impacted, Existing
<1>3. ChangedSources \subseteq Source
  BY DEF ChangedSources
<1>4. StepPlaces'
  BY <1>1, PlanPlaces DEF StepPlaces
<1>5. ToSnapshot'
  <2>1. Placed(<<6, 0, 0, 0, 0>>, Do("RecordSnapshot")) \in FullPlan
    BY DEF FullPlan, Bookkeeping
  <2>2. Placed(<<6, 0, 0, 0, 0>>, Do("RecordSnapshot")).op = "RecordSnapshot"
    BY DEF Placed, Do
  <2> QED
    BY <1>1, <2>1, <2>2 DEF ToSnapshot
<1>6. SourcesWillFollow'
  <2>1. ASSUME NEW s \in Source, NEW x \in AltersOf(s)' PROVE s \in ChangedSources
    <3>1. x \in FullPlan /\ x.op = "AlterBaseTable" /\ x.source = s
      BY <1>1, <2>1 DEF AltersOf
    <3>2. PICK r \in ChangedSources : x = AlterStep(<<2, Place[r], 0, 0, 0>>, r)
      BY <3>1, PlanKinds DEF TableChanges
    <3> QED
      BY <3>1, <3>2 DEF AlterStep
  <2>2. ASSUME NEW s \in ChangedSources PROVE AltersOf(s)' # {}
    <3> DEFINE x == AlterStep(<<2, Place[s], 0, 0, 0>>, s)
    <3>1. x \in SourceSteps(s)
      BY DEF SourceSteps
    <3>2. x \in FullPlan
      BY <3>1 DEF FullPlan, Changing
    <3>3. x.op = "AlterBaseTable" /\ x.source = s
      BY DEF AlterStep
    <3> QED
      BY <1>1, <3>2, <3>3 DEF AltersOf
  <2> QED
    BY <1>2, <2>1, <2>2 DEF SourcesWillFollow
<1>7. ReadersWillFollow'
  <2>1. ASSUME NEW s \in ChangedSources, NEW t \in Impacted(s)
        PROVE  \E y \in CreatesOf(t)' : \A x \in AltersOf(s)' : Precedes(x, y)
    <3>1. PICK y \in FullPlan :
            /\ y.op = "CreateStreamTable" /\ y.table = t
            /\ y.at = <<2, Place[s], 1, Place[t], 2>>
      BY <2>1, CascadePair
    <3>2. ASSUME NEW x \in AltersOf(s)' PROVE Precedes(x, y)
      <4>1. x \in FullPlan /\ x.op = "AlterBaseTable" /\ x.source = s
        BY <1>1, <3>2 DEF AltersOf
      <4>2. PICK r \in ChangedSources : x = AlterStep(<<2, Place[r], 0, 0, 0>>, r)
        BY <4>1, PlanKinds DEF TableChanges
      <4>3. x.at = <<2, Place[s], 0, 0, 0>>
        BY <4>1, <4>2 DEF AlterStep
      <4> QED
        BY <3>1, <4>3, AlterBeforeCreate
    <3> QED
      BY <1>1, <3>1, <3>2 DEF CreatesOf
  <2> QED
    BY <1>2, <1>3, <2>1 DEF ReadersWillFollow
<1>8. TablesWillFollow'
  <2> SUFFICES ASSUME NEW t \in Table
               PROVE  /\ \A x \in StepsOn(t)' : StepFits(x, t)'
                      /\ \/ SameQuery(files.tables, live, t)
                         \/ CreatesOf(t)' # {}
                         \/ StepsOn(t)' # {} /\ files.tables[t] = Absent
                         \/ \E x \in StepsOn(t)' : Alters(x, files.tables, live, t)
    BY <1>1 DEF TablesWillFollow
  <2>1. StepsOn(t)' = {x \in FullPlan : x.op \in TableChanges /\ x.table = t}
    BY <1>1 DEF StepsOn
  <2>2. CreatesOf(t)' = {x \in FullPlan : x.op = "CreateStreamTable" /\ x.table = t}
    BY <1>1 DEF CreatesOf
  <2>3. ASSUME NEW x
        PROVE  /\ Creates(x, files.tables, t) => StepFits(x, t)'
               /\ x.op = "DropStreamTable"
                    /\ (files.tables[t] = Absent \/ \E y \in CreatesOf(t)' : Precedes(x, y))
                  => StepFits(x, t)'
               /\ Alters(x, files.tables, live, t) /\ StepsOn(t)' = {x} => StepFits(x, t)'
    BY <1>1 DEF StepFits, Creates, Alters
  <2>4. CASE t \in Cascaded
    <3>1. PICK s \in ChangedSources : t \in Impacted(s)
      BY <2>4 DEF Cascaded
    <3>2. CreatesOf(t)' # {}
      BY <2>2, <3>1, CascadePair
    <3>3. ASSUME NEW x \in StepsOn(t)' PROVE StepFits(x, t)'
      <4>1. x \in FullPlan /\ x.op \in TableChanges /\ x.table = t
        BY <2>1, <3>3
      <4>2. PICK r \in ChangedSources : t \in Impacted(r) /\ x \in CascadeRebuild(r, t)
        BY <2>4, <4>1, StepsOfPlan
      <4>3. files.tables[t] # Absent
        BY <4>2 DEF Impacted, Existing
      <4>4. CASE x.op = "CreateStreamTable" /\ x.args = files.tables[t]
        BY <2>3, <4>3, <4>4 DEF Creates
      <4>5. CASE x.op = "DropStreamTable" /\ x.at = <<2, Place[r], 1, Place[t], 1>>
        <5>1. PICK y \in FullPlan :
                /\ y.op = "CreateStreamTable" /\ y.table = t
                /\ y.at = <<2, Place[r], 1, Place[t], 2>>
          BY <4>2, CascadePair
        <5>2. Precedes(x, y) /\ y \in CreatesOf(t)'
          BY <2>2, <4>5, <5>1, DropBeforeCreate
        <5> QED
          BY <2>3, <4>5, <5>2
      <4> QED
        BY <4>2, <4>4, <4>5, CascadeTypes
    <3> QED
      BY <3>2, <3>3
  <2>5. CASE t \notin Cascaded
    <3>1. LiveElsewhere[t] = live[t]
      BY <2>5 DEF LiveElsewhere
    <3>2. FitsTable(TablePlan, files.tables, LiveElsewhere, t)
      BY PlannedTables
    <3> DEFINE I == {i \in DOMAIN TablePlan : TablePlan[i].table = t}
               At(i) == Placed(<<3, i, 0, 0, 0>>, TablePlan[i])
    <3>3. ASSUME NEW i \in I
          PROVE  /\ At(i) \in StepsOn(t)'
                 /\ At(i).op = TablePlan[i].op /\ At(i).table = t
                 /\ At(i).args = TablePlan[i].args /\ At(i).at = <<3, i, 0, 0, 0>>
      <4>1. At(i) \in FullPlan
        BY DEF FullPlan, Changing, TableSteps
      <4>2. TablePlan[i].op \in TableChanges
        BY PlannedTables DEF TableChange
      <4> QED
        BY <2>1, <4>1, <4>2, PlacedFields
    <3>4. ASSUME NEW x \in StepsOn(t)' PROVE \E i \in I : x = At(i)
      <4>1. x \in FullPlan /\ x.op \in TableChanges /\ x.table = t
        BY <2>1, <3>4
      <4>2. ~ \E s \in ChangedSources : t \in Impacted(s)
        BY <2>5 DEF Cascaded
      <4> QED
        BY <4>1, <4>2, StepsOfPlan
    <3>5. DOMAIN TablePlan \subseteq Nat
      BY PlannedTables
    <3> HIDE DEF At
    <3>6. CASE I = {} /\ SameQuery(files.tables, LiveElsewhere, t)
      <4>1. SameQuery(files.tables, live, t)
        BY <3>1, <3>6 DEF SameQuery
      <4> QED
        BY <3>4, <3>6, <4>1
    <3>7. ASSUME NEW i \in I, I = {i},
                 \/ Creates(TablePlan[i], files.tables, t)
                 \/ Alters(TablePlan[i], files.tables, LiveElsewhere, t)
                 \/ TablePlan[i].op = "DropStreamTable" /\ files.tables[t] = Absent
          PROVE  /\ \A x \in StepsOn(t)' : StepFits(x, t)'
                 /\ \/ CreatesOf(t)' # {}
                    \/ StepsOn(t)' # {} /\ files.tables[t] = Absent
                    \/ \E x \in StepsOn(t)' : Alters(x, files.tables, live, t)
      <4>1. StepsOn(t)' = {At(i)}
        BY <3>3, <3>4, <3>7
      <4>2. CASE Creates(TablePlan[i], files.tables, t)
        <5>1. Creates(At(i), files.tables, t) /\ At(i) \in CreatesOf(t)'
          BY <2>1, <2>2, <3>3, <4>2 DEF Creates
        <5> QED
          BY <2>3, <4>1, <5>1
      <4>3. CASE Alters(TablePlan[i], files.tables, LiveElsewhere, t)
        <5>1. Alters(At(i), files.tables, live, t)
          BY <3>1, <3>3, <4>3 DEF Alters
        <5> QED
          BY <2>3, <4>1, <5>1
      <4>4. CASE TablePlan[i].op = "DropStreamTable" /\ files.tables[t] = Absent
        BY <2>3, <3>3, <4>1, <4>4
      <4> QED
        BY <3>7, <4>2, <4>3, <4>4
    <3>8. ASSUME NEW i \in I, NEW j \in I, i < j, I = {i, j},
                 TablePlan[i].op = "DropStreamTable", Creates(TablePlan[j], files.tables, t)
          PROVE  CreatesOf(t)' # {} /\ \A x \in StepsOn(t)' : StepFits(x, t)'
      <4>1. StepsOn(t)' = {At(i), At(j)}
        BY <3>3, <3>4, <3>8
      <4>2. Creates(At(j), files.tables, t) /\ At(j) \in CreatesOf(t)'
        BY <2>1, <2>2, <3>3, <3>8 DEF Creates
      <4>3. Precedes(At(i), At(j))
        BY <3>3, <3>5, <3>8, EarlierBySecond
      <4>4. At(i).op = "DropStreamTable"
        BY <3>3, <3>8
      <4> QED
        BY <2>3, <4>1, <4>2, <4>3, <4>4
    <3> QED
      BY <3>2, <3>6, <3>7, <3>8 DEF FitsTable
  <2> QED
    BY <2>4, <2>5
<1> QED
  BY <1>1, <1>4, <1>5, <1>6, <1>7, <1>8 DEF OnTheWay

(* Without changes the files are reached already.                          *)
LEMMA NothingToChange ==
  ASSUME TypeInv, Changing = {}
  PROVE  /\ \A s \in Source : recorded[s] = files.sources[s] \/ files.sources[s] = Absent
         /\ \A t \in Table : SameQuery(files.tables, live, t)
<1>1. ChangedSources = {}
  BY DEF Changing, SourceSteps
<1>2. \A s \in Source : recorded[s] = files.sources[s] \/ files.sources[s] = Absent
  BY <1>1 DEF ChangedSources, SourceChanged
<1>3. TableSteps = {}
  BY DEF Changing
<1>4. DOMAIN TablePlan = {}
  BY <1>3 DEF TableSteps
<1>5. ASSUME NEW t \in Table PROVE SameQuery(files.tables, live, t)
  <2>1. SameQuery(files.tables, LiveElsewhere, t)
    BY <1>4, PlannedTables DEF FitsTable
  <2>2. LiveElsewhere[t] = live[t]
    BY <1>1 DEF LiveElsewhere, Cascaded
  <2> QED
    BY <2>1, <2>2 DEF SameQuery
<1> QED
  BY <1>2, <1>5

(* Nothing else is left when the snapshot is due but to release the lock.  *)
LEMMA SnapshotIsLast ==
  ASSUME StepPlaces, NEW x \in todo, x.op = "RecordSnapshot", Due(x),
         NEW y \in todo, y # x
  PROVE  y.op = "UnlockDag"
<1>1. x.at[1] = 6
  BY PlacedFields DEF StepPlaces
<1>2. ~Precedes(y, x)
  BY DEF Due
<1>3. ASSUME y.op \notin {"RecordSnapshot", "UnlockDag"} PROVE FALSE
  <2>1. y.at[1] \in 1 .. 5
    BY <1>3 DEF StepPlaces
  <2> QED
    BY <1>1, <1>2, <2>1, EarlierByFirst
<1> QED
  BY <1>3 DEF StepPlaces

(* Steps on views and the lock change nothing here.                        *)
LEMMA ReadersLeftAlone ==
  ASSUME TypeInv, ReaderInv, NEW x \in todo, Proceed(x),
         x.op \notin TableChanges \cup {"AlterBaseTable", "RecordSnapshot"},
         UNCHANGED <<files, live, base, recorded, over, torn>>
  PROVE  ReaderInv'
<1>1. /\ outcome = "running" /\ todo' = todo \ {x}
      /\ outcome' = IF todo' = {} THEN "ok" ELSE "running"
  BY DEF Proceed, TypeInv, TypeOK, Idle
<1>2. /\ SourcesKnown' /\ ReadersKnown' /\ NothingBefore' /\ StepPlaces'
  BY <1>1 DEF ReaderInv, SourcesKnown, ReadersKnown, NothingBefore, StepPlaces
<1>3. ToSnapshot' <=> ToSnapshot
  BY <1>1 DEF ToSnapshot
<1>4. CASE ToSnapshot
  <2>1. outcome' = "running"
    BY <1>1, <1>3, <1>4 DEF ToSnapshot
  <2>2. /\ \A s : AltersOf(s)' = AltersOf(s)
        /\ \A t : StepsOn(t)' = StepsOn(t) /\ CreatesOf(t)' = CreatesOf(t)
    BY <1>1 DEF AltersOf, StepsOn, CreatesOf, TableChanges
  <2>3. ChangedSources' = ChangedSources /\ \A s : Impacted(s)' = Impacted(s)
    BY DEF ChangedSources, SourceChanged, Impacted, Existing
  <2>4. OnTheWay
    BY <1>1, <1>4 DEF ReaderInv
  <2>5. SourcesWillFollow'
    BY <2>2, <2>3, <2>4 DEF OnTheWay, SourcesWillFollow
  <2>6. TablesWillFollow'
    BY <2>2, <2>4 DEF OnTheWay, TablesWillFollow, StepFits, Creates, Alters, SameQuery
  <2>7. ReadersWillFollow'
    BY <2>2, <2>3, <2>4 DEF OnTheWay, ReadersWillFollow
  <2> QED
    BY <1>2, <1>3, <1>4, <2>1, <2>5, <2>6, <2>7 DEF ReaderInv, OnTheWay
<1>5. CASE ~ToSnapshot
  BY <1>1, <1>2, <1>3, <1>5 DEF ReaderInv, Arrived, SameQuery
<1> QED
  BY <1>4, <1>5

(* While steps of tables and sources are left, the snapshot is too.        *)
LEMMA StillOnTheWay ==
  ASSUME TypeInv, ReaderInv, NEW x \in todo,
         x.op \in TableChanges \cup {"AlterBaseTable"}, Proceed(x)
  PROVE  /\ ToSnapshot /\ ToSnapshot' /\ OnTheWay
         /\ outcome = "running" /\ outcome' = "running"
         /\ todo' = todo \ {x}
<1>1. outcome = "running"
  BY DEF TypeInv, TypeOK, Idle
<1>2. ToSnapshot
  BY <1>1 DEF ReaderInv, Arrived, TableChanges
<1>3. ToSnapshot' /\ outcome' = "running"
  BY <1>2 DEF ToSnapshot, Proceed, TableChanges
<1> QED
  BY <1>1, <1>2, <1>3 DEF ReaderInv, Proceed

LEMMA AlterKeepsReaders ==
  ASSUME TypeInv, ReaderInv, NEW x \in todo, AlterBaseTable(x)
  PROVE  ReaderInv'
<1> DEFINE r == x.source
<1>1. /\ ToSnapshot /\ ToSnapshot' /\ OnTheWay /\ outcome' = "running"
      /\ todo' = todo \ {x}
  BY StillOnTheWay DEF AlterBaseTable
<1>2. /\ r \in Source /\ r \in ChangedSources /\ x \in AltersOf(r)
      /\ x.op = "AlterBaseTable"
  BY <1>1 DEF AlterBaseTable, TypeInv, StepTypes, OnTheWay, SourcesWillFollow, AltersOf
<1>3. /\ files.sources[r] # Absent /\ files.sources[r] # recorded[r]
  BY <1>2 DEF ChangedSources, SourceChanged
<1>4. /\ base'[r] = files.sources[r]
      /\ \A s \in Source \ {r} : base'[s] = base[s]
      /\ torn' = torn \ {r}
      /\ UNCHANGED <<files, live, recorded, over>>
  BY <1>2 DEF AlterBaseTable, TypeInv
<1>5. ChangedSources' = ChangedSources /\ \A s : Impacted(s)' = Impacted(s)
  BY <1>4 DEF ChangedSources, SourceChanged, Impacted, Existing
<1>6. /\ \A s : AltersOf(s)' = AltersOf(s) \ {x}
      /\ \A s : s # r => AltersOf(s)' = AltersOf(s)
      /\ \A t : StepsOn(t)' = StepsOn(t) /\ CreatesOf(t)' = CreatesOf(t)
  BY <1>1, <1>2 DEF AltersOf, StepsOn, CreatesOf, TableChanges
<1>7. SourcesKnown'
  BY <1>4 DEF ReaderInv, SourcesKnown
<1>8. ReadersKnown'
  BY <1>3, <1>4 DEF ReaderInv, ReadersKnown
<1>9. NothingBefore'
  BY <1>3, <1>4 DEF ReaderInv, NothingBefore
<1>10. StepPlaces'
  BY <1>1 DEF ReaderInv, StepPlaces
<1>11. SourcesWillFollow'
  <2>1. \A s \in Source : AltersOf(s)' # {} => s \in ChangedSources
    BY <1>1, <1>6 DEF OnTheWay, SourcesWillFollow
  <2>2. \A s \in ChangedSources : AltersOf(s)' # {} \/ base'[s] = files.sources[s]
    BY <1>1, <1>4, <1>6 DEF OnTheWay, SourcesWillFollow, ChangedSources
  <2> QED
    BY <1>4, <1>5, <2>1, <2>2 DEF SourcesWillFollow
<1>12. TablesWillFollow'
  BY <1>1, <1>4, <1>6 DEF OnTheWay, TablesWillFollow, StepFits, Creates, Alters, SameQuery
<1>13. ReadersWillFollow'
  <2>1. ASSUME NEW s \in ChangedSources, NEW t \in Impacted(s)
        PROVE  \/ AltersOf(s)' = {} /\ over[t][s] = files.sources[s]
               \/ \E y \in CreatesOf(t) : \A z \in AltersOf(s)' : Precedes(z, y)
    BY <1>1, <1>6 DEF OnTheWay, ReadersWillFollow
  <2> QED
    BY <1>4, <1>5, <1>6, <2>1 DEF ReadersWillFollow
<1> QED
  BY <1>1, <1>7, <1>8, <1>9, <1>10, <1>11, <1>12, <1>13 DEF ReaderInv, OnTheWay

(* A step of a table, for that table.                                      *)
LEMMA StepOnItsTable ==
  ASSUME TypeInv, ReaderInv, NEW x \in todo, TableStep(x), NEW t, t = x.table
  PROVE  /\ t \in Table /\ StepFits(x, t) /\ x \in StepsOn(t) /\ x.op \in TableChanges
         /\ \A u \in Table \ {t} : live'[u] = live[u] /\ over'[u] = over[u]
         /\ x.op = "CreateStreamTable" =>
              live'[t] = x.args /\ over'[t] = base
         /\ x.op = "DropStreamTable" =>
              live'[t] = Absent /\ over'[t] = Untouched
         /\ x.op = "AlterStreamTable" =>
              /\ Alters(x, files.tables, live, t) /\ StepsOn(t) = {x}
              /\ live'[t] # Absent /\ live'[t].query = files.tables[t].query
              /\ SourcesRead[live[t].query] = SourcesRead[live'[t].query]
              /\ over' = over
<1>1. x.op \in TableChanges /\ t \in Table /\ OnTheWay /\ live \in DagState
  BY StillOnTheWay DEF TableStep, TypeInv, TypeOK, StepTypes
<1>2. x \in StepsOn(t) /\ StepFits(x, t)
  BY <1>1 DEF StepsOn, OnTheWay, TablesWillFollow
<1>3. /\ live' = Effect(live, x)
      /\ over' = CASE x.op = "CreateStreamTable" -> [over EXCEPT ![t] = base]
                   [] x.op = "DropStreamTable"   -> [over EXCEPT ![t] = Untouched]
                   [] OTHER -> over
      /\ over = [u \in Table |-> over[u]]
  BY DEF TableStep, TypeInv
<1>4. CASE x.op = "CreateStreamTable"
  BY <1>1, <1>2, <1>3, <1>4 DEF Effect, CreateTable, DagState
<1>5. CASE x.op = "DropStreamTable"
  BY <1>1, <1>2, <1>3, <1>5 DEF Effect, DropTable, DagState
<1>6. CASE x.op = "AlterStreamTable"
  <2>1. Alters(x, files.tables, live, t) /\ StepsOn(t) = {x}
    BY <1>2, <1>6 DEF StepFits, Creates
  <2>2. live[t] \in TableSpec /\ x.args \in AlterArgs
    BY <1>1, <2>1 DEF Alters, DagState, TypeInv, StepTypes
  <2>3. Coalesce(live[t], x.args) \in TableSpec
    BY <2>2, CoalesceTypes
  <2>4. live'[t] = Coalesce(live[t], x.args)
    BY <1>1, <1>3, <1>6, <2>1 DEF Effect, AlterTable, Alters, DagState
  <2>5. live'[t].query = files.tables[t].query
    BY <2>1, <2>4 DEF Coalesce, Alters
  <2>6. live'[t] # Absent
    BY <2>3, <2>4, DesiredAssumption
  <2>7. over' = over /\ \A u \in Table \ {t} : live'[u] = live[u]
    BY <1>1, <1>3, <1>6, TableStepEffect
  <2>8. SourcesRead[live[t].query] = SourcesRead[live'[t].query]
    <3>1. live[t].query \in Query /\ live'[t].query \in Query
      BY <2>2, <2>3, <2>4 DEF TableSpec
    <3> QED
      BY <2>1, <2>5, <3>1, DesiredAssumption DEF Alters
  <2> QED
    BY <1>1, <1>2, <1>6, <2>1, <2>5, <2>6, <2>7, <2>8
<1> QED
  BY <1>1, <1>4, <1>5, <1>6 DEF TableChanges

LEMMA TableStepKeepsReaders ==
  ASSUME TypeInv, ReaderInv, NEW x \in todo, TableStep(x)
  PROVE  ReaderInv'
<1> DEFINE t == x.table
<1>1. /\ ToSnapshot /\ ToSnapshot' /\ OnTheWay
      /\ outcome = "running" /\ outcome' = "running"
      /\ todo' = todo \ {x}
  BY StillOnTheWay DEF TableStep
<1>2. /\ t \in Table /\ StepFits(x, t) /\ x \in StepsOn(t) /\ x.op \in TableChanges
      /\ \A u \in Table \ {t} : live'[u] = live[u] /\ over'[u] = over[u]
      /\ x.op = "CreateStreamTable" =>
           live'[t] = x.args /\ over'[t] = base
      /\ x.op = "DropStreamTable" =>
           live'[t] = Absent /\ over'[t] = Untouched
      /\ x.op = "AlterStreamTable" =>
           /\ Alters(x, files.tables, live, t) /\ StepsOn(t) = {x}
           /\ live'[t] # Absent /\ live'[t].query = files.tables[t].query
           /\ SourcesRead[live[t].query] = SourcesRead[live'[t].query]
           /\ over' = over
  BY StepOnItsTable
<1>3. UNCHANGED <<files, base, recorded, torn>> /\ Due(x)
  BY DEF TableStep
<1>4. /\ x.op = "CreateStreamTable" => Creates(x, files.tables, t)
      /\ x.op = "DropStreamTable" => files.tables[t] = Absent \/ CreatesOf(t) # {}
  BY <1>2 DEF StepFits, Creates, Alters
<1>5. ChangedSources' = ChangedSources /\ \A s : Impacted(s)' = Impacted(s)
  BY <1>3 DEF ChangedSources, SourceChanged, Impacted, Existing
<1>6. /\ \A s : AltersOf(s)' = AltersOf(s)
      /\ \A u : StepsOn(u)' = StepsOn(u) \ {x} /\ CreatesOf(u)' = CreatesOf(u) \ {x}
      /\ \A u : u # t => StepsOn(u)' = StepsOn(u) /\ CreatesOf(u)' = CreatesOf(u)
      /\ x.op # "CreateStreamTable" => CreatesOf(t)' = CreatesOf(t)
  BY <1>1, <1>2 DEF AltersOf, StepsOn, CreatesOf, TableChanges
<1>7. SourcesKnown' /\ StepPlaces'
  BY <1>1, <1>3 DEF ReaderInv, SourcesKnown, StepPlaces
<1>8. NothingBefore'
  <2>1. ASSUME NEW s \in Source, NEW u \in Table, base[s] = Absent PROVE over'[u][s] = Absent
    <3>1. over[u][s] = Absent /\ Untouched[s] = Absent
      BY <2>1 DEF ReaderInv, NothingBefore, Untouched
    <3> QED
      BY <1>2, <2>1, <3>1 DEF TableChanges
  <2> QED
    BY <1>3, <2>1 DEF NothingBefore
<1>9. ReadersKnown'
  <2>1. ASSUME NEW s \in Source \ torn, NEW u \in Table,
               live'[u] # Absent, s \in SourcesRead[live'[u].query], recorded[s] = base[s]
        PROVE  over'[u][s] = base[s]
    <3>1. CASE u # t
      BY <1>2, <2>1, <3>1 DEF ReaderInv, ReadersKnown
    <3>2. CASE u = t /\ x.op = "CreateStreamTable"
      BY <1>2, <3>2
    <3>3. CASE u = t /\ x.op = "AlterStreamTable"
      <4>1. live[t] # Absent /\ SourcesRead[live[t].query] = SourcesRead[live'[t].query]
        BY <1>2, <3>3 DEF Alters
      <4> QED
        BY <1>2, <2>1, <3>3, <4>1 DEF ReaderInv, ReadersKnown
    <3> QED
      BY <1>2, <2>1, <3>1, <3>2, <3>3 DEF TableChanges
  <2> QED
    BY <1>3, <2>1 DEF ReadersKnown
<1>10. SourcesWillFollow'
  BY <1>1, <1>3, <1>5, <1>6 DEF OnTheWay, SourcesWillFollow
<1>11. TablesWillFollow'
  <2>1. ASSUME NEW u \in Table
        PROVE  /\ \A z \in StepsOn(u)' : StepFits(z, u)'
               /\ \/ SameQuery(files.tables, live', u)
                  \/ CreatesOf(u)' # {}
                  \/ StepsOn(u)' # {} /\ files.tables[u] = Absent
                  \/ \E z \in StepsOn(u)' : Alters(z, files.tables, live', u)
    <3>1. CASE u # t
      <4>1. live'[u] = live[u] /\ StepsOn(u)' = StepsOn(u) /\ CreatesOf(u)' = CreatesOf(u)
        BY <1>2, <1>6, <3>1
      <4> QED
        BY <1>1, <1>3, <4>1 DEF OnTheWay, TablesWillFollow, StepFits, Creates, Alters, SameQuery
    <3>2. CASE u = t
      <4>1. ASSUME NEW z \in StepsOn(t)' PROVE StepFits(z, t)'
        <5>1. z \in StepsOn(t) /\ z # x /\ StepFits(z, t) /\ z \in todo
          BY <1>1, <1>2, <1>6, <4>1 DEF OnTheWay, TablesWillFollow, StepsOn
        <5>2. CASE Creates(z, files.tables, t)
          BY <1>3, <5>2 DEF StepFits, Creates
        <5>3. CASE z.op = "DropStreamTable" /\ files.tables[t] = Absent
          BY <1>3, <5>3 DEF StepFits
        <5>4. ASSUME NEW y \in CreatesOf(t), z.op = "DropStreamTable", Precedes(z, y)
              PROVE  StepFits(z, t)'
          <6>1. y # x
            BY <1>3, <5>1, <5>4 DEF Due
          <6>2. y \in CreatesOf(t)'
            BY <1>6, <6>1
          <6> QED
            BY <5>4, <6>2 DEF StepFits
        <5> QED
          BY <1>2, <5>1, <5>2, <5>3, <5>4 DEF StepFits
      <4>2. CASE x.op = "CreateStreamTable"
        BY <1>2, <1>4, <4>1, <4>2, <3>2 DEF Creates, SameQuery
      <4>3. CASE x.op = "DropStreamTable"
        BY <1>2, <1>4, <1>6, <4>1, <4>3, <3>2 DEF SameQuery
      <4>4. CASE x.op = "AlterStreamTable"
        BY <1>2, <4>1, <4>4, <3>2 DEF SameQuery, Alters
      <4> QED
        BY <1>2, <4>2, <4>3, <4>4 DEF TableChanges
    <3> QED
      BY <3>1, <3>2
  <2> QED
    BY <1>3, <2>1 DEF TablesWillFollow
<1>12. ReadersWillFollow'
  <2>1. ASSUME NEW s \in ChangedSources, NEW u \in Impacted(s)
        PROVE  \/ AltersOf(s) = {} /\ over'[u][s] = files.sources[s]
               \/ \E y \in CreatesOf(u)' : \A z \in AltersOf(s) : Precedes(z, y)
    <3>1. u \in Table /\ s \in Source /\ files.tables[u] # Absent
      BY <2>1 DEF Impacted, Existing, ChangedSources
    <3>2. \/ AltersOf(s) = {} /\ over[u][s] = files.sources[s]
          \/ \E y \in CreatesOf(u) : \A z \in AltersOf(s) : Precedes(z, y)
      BY <1>1 DEF OnTheWay, ReadersWillFollow
    <3>3. CASE u # t
      BY <1>2, <1>6, <3>1, <3>2, <3>3
    <3>4. CASE u = t /\ x.op = "CreateStreamTable"
      <4>1. CASE AltersOf(s) = {}
        <5>1. base[s] = files.sources[s]
          BY <1>1, <4>1 DEF OnTheWay, SourcesWillFollow
        <5> QED
          BY <1>2, <3>4, <4>1, <5>1
      <4>2. ASSUME NEW y \in CreatesOf(t), \A z \in AltersOf(s) : Precedes(z, y),
                   NEW z \in AltersOf(s)
            PROVE  y \in CreatesOf(t)'
        <5>1. z \in todo
          BY DEF AltersOf
        <5>2. y # x
          BY <1>3, <4>2, <5>1 DEF Due
        <5> QED
          BY <1>6, <5>2
      <4> QED
        BY <3>2, <3>4, <4>1, <4>2
    <3>5. CASE u = t /\ x.op = "DropStreamTable"
      <4>1. CreatesOf(t)' # {}
        BY <1>4, <1>6, <3>1, <3>5
      <4> QED
        BY <1>6, <3>2, <3>5, <4>1
    <3>6. CASE u = t /\ x.op = "AlterStreamTable"
      BY <1>2, <1>6, <3>2, <3>6
    <3> QED
      BY <1>2, <3>3, <3>4, <3>5, <3>6 DEF TableChanges
  <2> QED
    BY <1>3, <1>5, <1>6, <2>1 DEF ReadersWillFollow
<1> QED
  BY <1>1, <1>7, <1>8, <1>9, <1>10, <1>11, <1>12 DEF ReaderInv, OnTheWay

LEMMA SnapshotKeepsReaders ==
  ASSUME TypeInv, ReaderInv, NEW x \in todo, RecordSnapshot(x)
  PROVE  ReaderInv'
<1>1. /\ outcome = "running" /\ ToSnapshot /\ OnTheWay
      /\ todo' = todo \ {x} /\ outcome' \in {"ok", "running"}
      /\ UNCHANGED <<files, live, base, over, torn>>
      /\ recorded' = files.sources
  BY DEF RecordSnapshot, Proceed, TypeInv, TypeOK, Idle, ToSnapshot, ReaderInv
<1>2. \A y \in todo' : y.op = "UnlockDag"
  BY <1>1, SnapshotIsLast DEF RecordSnapshot, ReaderInv
<1>3. \A t : StepsOn(t) = {} /\ CreatesOf(t) = {}
  BY <1>1, <1>2 DEF StepsOn, CreatesOf, RecordSnapshot, TableChanges
<1>4. \A s : AltersOf(s) = {}
  BY <1>1, <1>2 DEF AltersOf, RecordSnapshot
<1>5. \A t \in Table : SameQuery(files.tables, live, t)
  BY <1>1, <1>3 DEF OnTheWay, TablesWillFollow
<1>6. ASSUME NEW s \in Source \ torn, files.sources[s] # Absent
      PROVE  base[s] = files.sources[s]
  <2>1. CASE s \in ChangedSources
    BY <1>1, <1>4, <2>1 DEF OnTheWay, SourcesWillFollow
  <2>2. CASE s \notin ChangedSources
    BY <1>6, <2>2 DEF ChangedSources, SourceChanged, ReaderInv, SourcesKnown
  <2> QED
    BY <2>1, <2>2
<1>7. SourcesKnown'
  BY <1>1, <1>6 DEF SourcesKnown
<1>8. ASSUME NEW s \in Source \ torn, NEW t \in Table,
             live[t] # Absent, s \in SourcesRead[live[t].query], files.sources[s] = base[s]
      PROVE  over[t][s] = base[s]
  <2>1. CASE base[s] = Absent
    BY <1>8, <2>1 DEF ReaderInv, NothingBefore
  <2>2. CASE s \in ChangedSources
    <3>1. files.tables[t] # Absent /\ files.tables[t].query = live[t].query
      BY <1>5, <1>8 DEF SameQuery
    <3>2. t \in Impacted(s)
      BY <1>8, <3>1 DEF Impacted, Existing
    <3> QED
      BY <1>1, <1>3, <1>8, <2>2, <3>2 DEF OnTheWay, ReadersWillFollow
  <2>3. CASE base[s] # Absent /\ s \notin ChangedSources
    <3>1. recorded[s] = base[s]
      BY <1>8, <2>3 DEF ChangedSources, SourceChanged
    <3> QED
      BY <1>8, <3>1 DEF ReaderInv, ReadersKnown
  <2> QED
    BY <2>1, <2>2, <2>3
<1>9. ReadersKnown'
  BY <1>1, <1>8 DEF ReadersKnown
<1>10. NothingBefore' /\ StepPlaces'
  BY <1>1 DEF ReaderInv, NothingBefore, StepPlaces
<1>11. Arrived' /\ ~ToSnapshot'
  BY <1>1, <1>2, <1>5 DEF Arrived, ToSnapshot, SameQuery
<1> QED
  BY <1>7, <1>9, <1>10, <1>11 DEF ReaderInv, Arrived

(* Every action keeps the invariant of the readers.                        *)
LEMMA ReaderInvKept ==
  ASSUME TypeInv, ReaderInv, [Next]_vars
  PROVE  ReaderInv'
<1>1. CASE UNCHANGED vars
  <2>1. UNCHANGED <<files, live, base, recorded, over, torn, todo, outcome>>
    BY <1>1 DEF vars, database
  <2>2. /\ SourcesKnown' /\ ReadersKnown' /\ NothingBefore' /\ StepPlaces'
        /\ (ToSnapshot' <=> ToSnapshot) /\ (Arrived => Arrived')
    BY <2>1 DEF ReaderInv, SourcesKnown, ReadersKnown, NothingBefore, StepPlaces, ToSnapshot,
       Arrived, SameQuery
  <2>3. /\ \A s : AltersOf(s)' = AltersOf(s) /\ Impacted(s)' = Impacted(s)
        /\ \A t : StepsOn(t)' = StepsOn(t) /\ CreatesOf(t)' = CreatesOf(t)
        /\ ChangedSources' = ChangedSources
    BY <2>1 DEF AltersOf, StepsOn, CreatesOf, ChangedSources, SourceChanged, Impacted, Existing
  <2>4. SourcesWillFollow => SourcesWillFollow'
    BY <2>1, <2>3 DEF SourcesWillFollow
  <2>5. TablesWillFollow => TablesWillFollow'
    BY <2>1, <2>3 DEF TablesWillFollow, StepFits, Creates, Alters, SameQuery
  <2>6. ReadersWillFollow => ReadersWillFollow'
    BY <2>1, <2>3 DEF ReadersWillFollow
  <2> QED
    BY <2>1, <2>2, <2>4, <2>5, <2>6 DEF ReaderInv, OnTheWay
<1>2. CASE Edit
  <2>1. /\ todo = {} /\ todo' = {} /\ outcome' = "edited"
        /\ UNCHANGED <<live, base, recorded, over>>
        /\ torn' = torn \cup {s \in Source : recorded[s] # base[s]}
    BY <1>2 DEF Edit, Idle, database
  <2>2. SourcesKnown' /\ ReadersKnown' /\ NothingBefore' /\ StepPlaces'
    BY <2>1 DEF ReaderInv, SourcesKnown, ReadersKnown, NothingBefore, StepPlaces
  <2> QED
    BY <2>1, <2>2 DEF ReaderInv
<1>3. CASE BeginApply
  <2>1. UNCHANGED <<files, live, base, recorded, over, torn>>
    BY <1>3 DEF BeginApply, database
  <2>2. SourcesKnown' /\ ReadersKnown' /\ NothingBefore'
    BY <2>1 DEF ReaderInv, SourcesKnown, ReadersKnown, NothingBefore
  <2>3. CASE Changing = {}
    <3>1. todo' = {} /\ outcome' = "ok"
      BY <1>3, <2>3 DEF BeginApply
    <3>2. Arrived' /\ StepPlaces'
      BY <2>1, <2>3, <3>1, NothingToChange DEF Arrived, StepPlaces, SameQuery
    <3> QED
      BY <2>2, <3>1, <3>2 DEF ReaderInv
  <2>4. CASE Changing # {}
    BY <1>3, <2>2, <2>4, PlanLeadsToFiles DEF ReaderInv
  <2> QED
    BY <2>3, <2>4
<1>4. ASSUME NEW x \in todo, ReplaceView(x) PROVE ReaderInv'
  BY <1>4, ReadersLeftAlone DEF ReplaceView, TableChanges
<1>5. ASSUME NEW x \in todo, DropView(x) PROVE ReaderInv'
  BY <1>5, ReadersLeftAlone DEF DropView, TableChanges
<1>6. ASSUME NEW x \in todo, LockOrUnlock(x) PROVE ReaderInv'
  BY <1>6, ReadersLeftAlone DEF LockOrUnlock, TableChanges, database
<1>7. ASSUME NEW x \in todo, StepFails(x) PROVE ReaderInv'
  <2>1. /\ todo' = {} /\ outcome' = "failed"
        /\ UNCHANGED <<files, live, base, recorded, over, torn>>
    BY <1>7 DEF StepFails, database
  <2> QED
    BY <2>1 DEF ReaderInv, SourcesKnown, ReadersKnown, NothingBefore, StepPlaces
<1> QED
  BY <1>1, <1>2, <1>3, <1>4, <1>5, <1>6, <1>7, AlterKeepsReaders, TableStepKeepsReaders,
     SnapshotKeepsReaders DEF Next

LEMMA ReaderInvHolds == Spec => []ReaderInv
<1>1. Init => ReaderInv
  BY DEF Init, Untouched, EmptyDag, ReaderInv, SourcesKnown, ReadersKnown, NothingBefore,
     StepPlaces
<1>2. TypeInv /\ ReaderInv /\ [Next]_vars => ReaderInv'
  BY ReaderInvKept
<1> QED
  BY <1>1, <1>2, CascadeTypesHold, PTL DEF Spec

(* After a successful apply every owned source is as its file has it, and  *)
(* every table that reads it was created over that DDL: for any number of  *)
(* sources and tables, whatever failed before, for any planner that keeps  *)
(* its assumption.                                                         *)
THEOREM ReadersAreOverFiles == Spec => []ReadersFollowSources
<1>1. ASSUME TypeInv, ReaderInv, outcome = "ok", NEW s \in Source \ torn,
             files.sources[s] # Absent
      PROVE  /\ base[s] = files.sources[s]
             /\ \A t \in Existing(files.tables) :
                  s \in SourcesRead[files.tables[t].query] => over[t][s] = base[s]
  <2>1. recorded[s] = files.sources[s] /\ \A t \in Table : SameQuery(files.tables, live, t)
    BY <1>1 DEF ReaderInv, Arrived
  <2>2. base[s] = files.sources[s]
    BY <1>1, <2>1 DEF ReaderInv, SourcesKnown
  <2>3. ASSUME NEW t \in Existing(files.tables), s \in SourcesRead[files.tables[t].query]
        PROVE  over[t][s] = base[s]
    <3>1. t \in Table /\ live[t] # Absent /\ live[t].query = files.tables[t].query
      BY <2>1, <2>3 DEF Existing, SameQuery
    <3> QED
      BY <1>1, <2>1, <2>2, <2>3, <3>1 DEF ReaderInv, ReadersKnown
  <2> QED
    BY <2>2, <2>3
<1>2. TypeInv /\ ReaderInv => ReadersFollowSources
  BY <1>1 DEF ReadersFollowSources
<1> QED
  BY <1>2, CascadeTypesHold, ReaderInvHolds, PTL

=============================================================================
