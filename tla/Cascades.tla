------------------------------ MODULE Cascades ------------------------------
(***************************************************************************)
(* What surrounds the stream tables of a project: the owned base tables    *)
(* they read, whose changed DDL cascades to the tables that name them, and *)
(* the consumer views that expose them.  One run after another plans       *)
(* against what it finds and executes its plan, and may fail at any step.  *)
(* Of the steps those are kept that change something here; one that fails  *)
(* in between ends the run as the failure of the next does, and the switch *)
(* of an IMMEDIATE table's mode around a rebuild is in Executor.           *)
(***************************************************************************)
EXTENDS PlanPromises

CONSTANTS
  PlanFor(_, _),  \* for the desired and the live tables, the steps that
                  \* change a table
  Source,
  Consumer,       \* the names of the consumer files
  Place,          \* of sources, tables and consumers in the order they are
                  \* loaded or listed
  SourcesRead,    \* [Query -> the sources its FROM and JOIN clauses name]
  View,           \* the qualified names views are exposed as
  ShortName,      \* [View -> the name without its schema]
  Desired,        \* what the migration files may describe
  Faults          \* which of "sql" and "registry" may go wrong

Untouched == [s \in Source |-> Absent]

ASSUME DesiredAssumption ==
  /\ SourcesRead \in [Query -> SUBSET Source]
  /\ \A q, r \in Query : q.shape = r.shape => SourcesRead[q] = SourcesRead[r]
  /\ Absent \notin TableSpec /\ None \notin Table /\ None \notin Query
  /\ \A desired \in Desired :
       /\ desired.tables \in DagState
       /\ desired.sources = [s \in Source |-> desired.sources[s]]
       /\ \A n \in Consumer :
            desired.consumers[n] # Absent => desired.consumers[n].expose \in View

ASSUME PlaceAssumption == Place \in [Source \cup Table \cup Consumer -> Nat]

ASSUME PlannerAssumption ==
  \A desired \in Desired, live \in DagState :
    LET plan == PlanFor(desired.tables, live) IN
    /\ plan \in Seq(TableChange)
    /\ \A t \in Table : FitsTable(plan, desired.tables, live, t)

-----------------------------------------------------------------------------
VARIABLES
  files,     \* [tables, sources, consumers]: the desired state
  live,      \* the stream tables
  base,      \* [Source -> the DDL last executed for it]
  views,     \* [View -> the source and the body it was created with]
  registry,  \* aqueduct.consumer_views: [name -> what it exposes, of what]
  recorded,  \* the sources of the last recorded version
  todo,      \* the steps the run has left, each with its place
  outcome,   \* of the last run: "ok", "failed"; "running", "edited"
  over,      \* history: [Table -> the DDL of the sources it was created over]
  lost,      \* history: the views of which a registry statement went missing
  strays,    \* history: the views of which the last step on them left a row
             \* under a name that was not the step's
  torn       \* history: the sources changed by a failed run and then edited

database == <<live, base, views, registry, recorded, over, lost, strays>>
vars     == <<files, database, todo, outcome, torn>>

Idle == todo = {}

-----------------------------------------------------------------------------
(* diff.rs: sources.  The "live" DDL of a source is that of the version    *)
(* recorded last; a source the files no longer name is left alone.         *)

SourceChanged(s) == files.sources[s] \notin {Absent, recorded[s]}

ChangedSources == {s \in Source : SourceChanged(s)}

(* The tables whose query names the source.                                *)
Impacted(s) ==
  {t \in Existing(files.tables) : s \in SourcesRead[files.tables[t].query]}

Cascaded == UNION {Impacted(s) : s \in ChangedSources}

(* diff.rs: consumers.  A file is matched with the first row, in the order *)
(* of the names, that exposes the same view.                               *)

RowsOf(v) == {n \in Consumer : registry[n] # Absent /\ registry[n].expose = v}

FirstRow(v) ==
  registry[CHOOSE n \in RowsOf(v) : \A m \in RowsOf(v) : Place[n] <= Place[m]]

(* Mutated: only the source is compared, not the body.                     *)
ConsumerChangedSource(n) ==
  /\ files.consumers[n] # Absent
  /\ \/ RowsOf(files.consumers[n].expose) = {}
     \/ FirstRow(files.consumers[n].expose).source # files.consumers[n].source

ConsumerChanged(n) ==
  /\ files.consumers[n] # Absent
  /\ \/ RowsOf(files.consumers[n].expose) = {}
     \/ FirstRow(files.consumers[n].expose) # files.consumers[n]

Exposed == {files.consumers[n].expose : n \in {m \in Consumer : files.consumers[m] # Absent}}

ConsumerDropped(n) == registry[n] # Absent /\ registry[n].expose \notin Exposed

-----------------------------------------------------------------------------
(* plan.rs: the plan, a set of steps with their places.  First comes the   *)
(* lock, then each changed source with its cascade, the other tables, the  *)
(* views, the snapshot.                                                    *)

Placed(place, step) ==
  [at |-> place, op |-> step.op, table |-> step.table, args |-> step.args]

(* Among the steps of one source: its own DDL, then table after table.     *)
CascadeRebuild(s, t) ==
  {Placed(<<2, Place[s], 1, Place[t], 1>>, DoOn("DropStreamTable", t)),
   Placed(<<2, Place[s], 1, Place[t], 2>>,
          DoWith("CreateStreamTable", t, files.tables[t]))}

AlterStep(place, s) == [at |-> place, op |-> "AlterBaseTable", source |-> s]

(* Mutated: the DDL after the tables that read the source.                 *)
SourceStepsLate(s) ==
  {AlterStep(<<2, Place[s], 2, 0, 0>>, s)}
  \cup UNION {CascadeRebuild(s, t) : t \in Impacted(s)}

SourceSteps(s) ==
  {AlterStep(<<2, Place[s], 0, 0, 0>>, s)}
  \cup UNION {CascadeRebuild(s, t) : t \in Impacted(s)}

(* The tables of a cascade are planned there and nowhere else: to the rest *)
(* of the planner they look unchanged.                                     *)
LiveElsewhere ==
  [t \in Table |-> IF t \in Cascaded THEN files.tables[t] ELSE live[t]]

TablePlan == PlanFor(files.tables, LiveElsewhere)

TableSteps == {Placed(<<3, i, 0, 0, 0>>, TablePlan[i]) : i \in DOMAIN TablePlan}

ReplaceViewStep(n) ==
  [at |-> <<4, Place[n], 0, 0, 0>>, op |-> "ReplaceView", name |-> n,
   spec |-> files.consumers[n]]

(* There is no spec for a view the files no longer have: the placeholder   *)
(* is named after the view, not after the row.  Mutated: no row is deleted *)
(* with the view (CORR-7).                                                 *)
DropViewStepOnly(n) ==
  [at |-> <<5, Place[n], 0, 0, 0>>, op |-> "DropView", name |-> Absent,
   view |-> registry[n].expose]

DropViewStep(n) ==
  [at |-> <<5, Place[n], 0, 0, 0>>, op |-> "DropView",
   name |-> ShortName[registry[n].expose], view |-> registry[n].expose]

ConsumerSteps ==
  {ReplaceViewStep(n) : n \in {m \in Consumer : ConsumerChanged(m)}}
  \cup {DropViewStep(n) : n \in {m \in Consumer : ConsumerDropped(m)}}

Bookkeeping ==
  {Placed(<<1, 0, 0, 0, 0>>, Do("LockDag")),
   Placed(<<6, 0, 0, 0, 0>>, Do("RecordSnapshot")),
   Placed(<<7, 0, 0, 0, 0>>, Do("UnlockDag"))}

Changing ==
  (UNION {SourceSteps(s) : s \in ChangedSources}) \cup TableSteps \cup ConsumerSteps

FullPlan == Changing \cup Bookkeeping

Precedes(x, y) ==
  \E i \in 1 .. 5 : x.at[i] < y.at[i] /\ \A j \in 1 .. i - 1 : x.at[j] = y.at[j]

-----------------------------------------------------------------------------
Init ==
  /\ files \in Desired
  /\ live = EmptyDag
  /\ base = Untouched
  /\ views = [v \in View |-> Absent]
  /\ registry = [n \in Consumer |-> Absent]
  /\ recorded = Untouched
  /\ todo = {}
  /\ outcome = "edited"
  /\ over = [t \in Table |-> Untouched]
  /\ lost = {}
  /\ strays = {}
  /\ torn = {}

Edit ==
  /\ Idle
  /\ files' \in Desired \ {files}
  /\ outcome' = "edited"
  /\ torn' = torn \cup {s \in Source : recorded[s] # base[s]}
  /\ UNCHANGED <<database, todo>>

(* A run without changes ends before it reaches the executor.              *)
BeginApply ==
  /\ Idle
  /\ todo' = IF Changing = {} THEN {} ELSE FullPlan
  /\ outcome' = IF Changing = {} THEN "ok" ELSE "running"
  /\ UNCHANGED <<files, database, torn>>

-----------------------------------------------------------------------------
(* executor.rs: the steps.                                                 *)
Due(x) == \A y \in todo : ~Precedes(y, x)

Proceed(x) ==
  /\ todo' = todo \ {x}
  /\ outcome' = IF todo' = {} THEN "ok" ELSE "running"

AlterBaseTable(x) ==
  /\ x.op = "AlterBaseTable" /\ Due(x)
  /\ base' = [base EXCEPT ![x.source] = files.sources[x.source]]
  /\ torn' = torn \ {x.source}
  /\ Proceed(x)
  /\ UNCHANGED <<files, live, views, registry, recorded, over, lost, strays>>

(* PostgreSQL: a query runs over tables that exist, and no table is        *)
(* dropped from under a view (neither pg_trickle's function nor the        *)
(* executor's own DROP TABLE says CASCADE).                                *)
Exists(query) ==
  /\ query.reads \subseteq Existing(live)
  /\ \A s \in SourcesRead[query] : files.sources[s] # Absent => base[s] # Absent

Viewed(t) == \E v \in View : views[v] # Absent /\ views[v].source = t

Refused(x) ==
  \/ x.op = "CreateStreamTable" /\ ~Exists(x.args.query)
  \/ x.op = "DropStreamTable" /\ Viewed(x.table)
  \/ x.op = "ReplaceView" /\ live[x.spec.source] = Absent

TableStep(x) ==
  /\ x.op \in TableChanges /\ Due(x)
  /\ ~Refused(x)
  /\ live' = Effect(live, x)
  /\ over' = CASE x.op = "CreateStreamTable" -> [over EXCEPT ![x.table] = base]
               [] x.op = "DropStreamTable"   -> [over EXCEPT ![x.table] = Untouched]
               [] OTHER -> over
  /\ Proceed(x)
  /\ UNCHANGED <<files, base, views, registry, recorded, lost, strays, torn>>

(* The statement on aqueduct.consumer_views, for the row of the step's     *)
(* name: its error is ignored, or the run dies before it.                  *)
Register(name, view, rows) ==
  /\ strays' = IF RowsOf(view) \subseteq {name} THEN strays \ {view} ELSE strays \cup {view}
  /\ \/ registry' = rows /\ lost' = lost
     \/ "registry" \in Faults /\ registry' = registry /\ lost' = lost \cup {view}

ReplaceView(x) ==
  /\ x.op = "ReplaceView" /\ Due(x)
  /\ ~Refused(x)
  /\ views' = [views EXCEPT ![x.spec.expose] =
                 [source |-> x.spec.source, body |-> x.spec.body]]
  /\ Register(x.name, x.spec.expose, [registry EXCEPT ![x.name] = x.spec])
  /\ Proceed(x)
  /\ UNCHANGED <<files, live, base, recorded, over, torn>>

DropView(x) ==
  /\ x.op = "DropView" /\ Due(x)
  /\ views' = [views EXCEPT ![x.view] = Absent]
  /\ Register(x.name, x.view,
       [n \in Consumer |-> IF n = x.name THEN Absent ELSE registry[n]])
  /\ Proceed(x)
  /\ UNCHANGED <<files, live, base, recorded, over, torn>>

RecordSnapshot(x) ==
  /\ x.op = "RecordSnapshot" /\ Due(x)
  /\ recorded' = files.sources
  /\ Proceed(x)
  /\ UNCHANGED <<files, live, base, views, registry, over, lost, strays, torn>>

LockOrUnlock(x) ==
  /\ x.op \in {"LockDag", "UnlockDag"} /\ Due(x)
  /\ Proceed(x)
  /\ UNCHANGED <<files, database, torn>>

StepFails(x) ==
  /\ Due(x)
  /\ Refused(x) \/ "sql" \in Faults
  /\ todo' = {}
  /\ outcome' = "failed"
  /\ UNCHANGED <<files, database, torn>>

Next ==
  \/ Edit
  \/ BeginApply
  \/ \E x \in todo :
       \/ AlterBaseTable(x) \/ TableStep(x) \/ ReplaceView(x) \/ DropView(x)
       \/ RecordSnapshot(x) \/ LockOrUnlock(x) \/ StepFails(x)

Spec == Init /\ [][Next]_vars

-----------------------------------------------------------------------------
(* A run is under way exactly as long as it has steps left.                *)
TypeOK ==
  /\ live \in DagState
  /\ lost \subseteq View /\ strays \subseteq View
  /\ torn \subseteq Source
  /\ outcome \in {"ok", "failed", "running", "edited"}
  /\ Idle <=> outcome # "running"

(* After an apply that reports success every owned source has the DDL of   *)
(* its file, and every table that names a source was created over that     *)
(* DDL, however many sources changed and however many runs failed before.  *)
(* Excused is a source whose file was edited after a failed run had        *)
(* changed it: it is compared with the recorded version, not the database. *)
ReadersFollowSources ==
  outcome = "ok" =>
    \A s \in Source \ torn :
      files.sources[s] # Absent =>
        /\ base[s] = files.sources[s]
        /\ \A t \in Existing(files.tables) :
             s \in SourcesRead[files.tables[t].query] => over[t][s] = base[s]

(* After such an apply every view the files expose is there as a file has  *)
(* it, and no step of the same plan has dropped it again.  It is not so    *)
(* for a view with a row under another name than that of the last step on  *)
(* it.  A file is named by its stem and may expose any view; the step that *)
(* drops a view deletes the row of the view's name (plan.rs:1133,          *)
(* executor.rs:1247).  The row of a file like that of cookbook 24, which   *)
(* exposes api.orders from c24_orders_view.sql, outlives its view, and a   *)
(* file that exposes the view again as it was looks unchanged: the view is *)
(* never created.  Nor for one whose row a failing statement left behind.  *)
ViewsFollowFiles ==
  outcome = "ok" =>
    \A v \in Exposed \ (lost \cup strays) :
      \E n \in Consumer :
        LET c == files.consumers[n] IN
        c # Absent /\ c.expose = v /\ views[v] = [source |-> c.source, body |-> c.body]

(* CORR-7 (executor.rs:1242): the row of a view that is dropped goes with  *)
(* it, so that the next diff does not find the view again.  This is so for *)
(* a row with the short name of its view only.  For the file of cookbook   *)
(* 24 it is not, against docs/cookbook/25-drop-consumer-view.md:13 ("drops *)
(* the view and removes the entry from aqueduct.consumer_views"): the row  *)
(* stays, and every later apply plans to drop the view once more.          *)
NoOrphanRows ==
  outcome = "ok" =>
    \A n \in Consumer :
      registry[n] # Absent /\ ShortName[registry[n].expose] = n =>
        registry[n].expose \in Exposed \cup lost

=============================================================================
