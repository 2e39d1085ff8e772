------------------------------ MODULE Planner ------------------------------
(***************************************************************************)
(* compute_diff, classify_delta, topological_sort, the diamond promotion   *)
(* and the default strategy of build_plan_with_options, as functions of    *)
(* the desired DAG and of the DAG read from the database.                  *)
(*                                                                         *)
(* A query is abstracted to what the classifier can tell apart: its        *)
(* FROM/WHERE/GROUP BY/HAVING part (shape), its SELECT list (a sequence of *)
(* columns, each an expression under an alias) and whatever else the text  *)
(* holds (rest: ORDER BY, LIMIT, DISTINCT, ...), with the stream tables it *)
(* reads.                                                                  *)
(***************************************************************************)
EXTENDS PlanTypes, FiniteSets, SequencesExt

CONSTANTS FileOrder,   \* the stream tables in the order the files are loaded
          NameOrder,   \* and in the order of their names, as the catalog lists them
          Hooks        \* the hooks of aqueduct.toml: a subset of {"pre", "post"}

ListsTables(seq) ==
  /\ seq \in Seq(Table)
  /\ {seq[i] : i \in DOMAIN seq} = Table
  /\ \A i, j \in DOMAIN seq : seq[i] = seq[j] => i = j

ASSUME OrderAssumption == ListsTables(FileOrder) /\ ListsTables(NameOrder)

ASSUME QueryAssumption ==
  \A q \in Query : DOMAIN q = {"shape", "columns", "rest", "reads"}

(* NULL is no value of a field, and "does not exist" is not a spec.        *)
ASSUME NullAssumption ==
  /\ None \notin Table /\ None \notin Query /\ None \notin Schedule
  /\ None \notin RefreshMode /\ None \notin CdcMode
  /\ Absent \notin TableSpec

DependsOn(dag, t) == IF dag[t] = Absent THEN {} ELSE dag[t].query.reads

(* The members of seq that are in P, in their order.                       *)
Keep(seq, P) ==
  LET kept[n \in 0 .. Len(seq)] ==
        CASE n = 0 -> <<>>
          [] n > 0 /\ seq[n] \in P -> Append(kept[n - 1], seq[n])
          [] OTHER -> kept[n - 1]
  IN kept[Len(seq)]

-----------------------------------------------------------------------------
(* diff.rs: the change of one table.                                       *)

ChangedMetadata(d, a) == {f \in {"schedule", "refresh", "cdc"} : d[f] # a[f]}

(* Mutated: a changed schedule is not noticed.                             *)
ClassifyChangeIgnoringSchedule(d, a) ==
  IF d.query # a.query THEN "AlterQuery"
  ELSE IF ChangedMetadata(d, a) \subseteq {"schedule"} THEN "Unchanged"
  ELSE "AlterMetadata"

ClassifyChange(d, a) ==
  IF d.query # a.query THEN "AlterQuery"
  ELSE CASE ChangedMetadata(d, a) = {}           -> "Unchanged"
         [] ChangedMetadata(d, a) = {"schedule"} -> "AlterSchedule"
         [] ChangedMetadata(d, a) = {"refresh"}  -> "AlterRefreshMode"
         [] ChangedMetadata(d, a) = {"cdc"}      -> "AlterCdcMode"
         [] OTHER                                -> "AlterMetadata"

DeltaKind(desired, live, t) ==
  CASE desired[t] = Absent /\ live[t] = Absent -> "Unchanged"
    [] desired[t] # Absent /\ live[t] = Absent -> "Create"
    [] desired[t] = Absent /\ live[t] # Absent -> "Drop"
    [] OTHER -> ClassifyChange(desired[t], live[t])

-----------------------------------------------------------------------------
(* classifier.rs: how disruptive the change is.                            *)

SelectListDelta(d, a) ==
  LET exprs(q) == [i \in DOMAIN q.columns |-> q.columns[i].expr] IN
  CASE d.columns = a.columns -> "Unchanged"
    [] Len(d.columns) > Len(a.columns) /\ IsPrefix(a.columns, d.columns) -> "Addition"
    [] Len(d.columns) < Len(a.columns) /\ IsPrefix(d.columns, a.columns) -> "Removal"
    [] Len(d.columns) = Len(a.columns) /\ exprs(d) = exprs(a) -> "Rename"
    [] OTHER -> "Rebuild"

ClassifyQueryChange(d, a) ==
  IF d.shape # a.shape THEN "Rebuild"
  ELSE CASE SelectListDelta(d, a) \in {"Addition", "Removal"} -> "InPlace"
         [] SelectListDelta(d, a) = "Unchanged" -> "Free"
         [] OTHER -> "Rebuild"

ClassifyDelta(desired, live, t) ==
  LET kind == DeltaKind(desired, live, t)
      fullToDifferential == /\ live[t].refresh = "FULL"
                            /\ desired[t].refresh = "DIFFERENTIAL"
  IN CASE kind \in {"Create", "Drop"} -> "Rebuild"
       [] kind \in {"Unchanged", "AlterSchedule", "AlterCdcMode"} -> "Free"
       [] kind \in {"AlterRefreshMode", "AlterMetadata"} ->
            IF fullToDifferential THEN "Rebuild" ELSE "Free"
       [] kind = "AlterQuery" ->
            ClassifyQueryChange(desired[t].query, live[t].query)

-----------------------------------------------------------------------------
(* dag.rs: Kahn's algorithm.  Each round takes the head of the queue and   *)
(* appends the tables it was the last missing dependency of.               *)

Upstream(dag, t) == DependsOn(dag, t) \cap Existing(dag)

(* Mutated: a table is queued with the first of its dependencies.          *)
VisitEarly(dag, state) ==
  IF state.queue = <<>> THEN state
  ELSE [sorted |-> Append(state.sorted, Head(state.queue)),
        queue  |-> Tail(state.queue) \o
                     Keep(FileOrder, {t \in Existing(dag) :
                                        Head(state.queue) \in Upstream(dag, t)})]

Visit(dag, state) ==
  IF state.queue = <<>> THEN state
  ELSE LET sorted == Append(state.sorted, Head(state.queue))
           ready  == {t \in Existing(dag) :
                        /\ Head(state.queue) \in Upstream(dag, t)
                        /\ Upstream(dag, t) \subseteq ToSet(sorted)}
       IN [sorted |-> sorted, queue |-> Tail(state.queue) \o Keep(FileOrder, ready)]

TopologicalSort(dag) ==
  LET tables == Keep(FileOrder, Existing(dag))
      roots  == {t \in Existing(dag) : Upstream(dag, t) = {}}
      visited[n \in 0 .. Len(tables)] ==
        IF n = 0 THEN [sorted |-> <<>>, queue |-> Keep(FileOrder, roots)]
        ELSE Visit(dag, visited[n - 1])
  IN visited[Len(tables)].sorted

(* Otherwise topological_sort returns Err: tables on a cycle are missing.  *)
Sortable(dag) == Len(TopologicalSort(dag)) = Len(Keep(FileOrder, Existing(dag)))

(* plan.rs, order_deltas: the desired tables in topological order, then    *)
(* the tables to drop in the order the diff found them, which is that of   *)
(* the catalog.  Mutated: the desired tables in the order of their files.  *)
UnsortedDeltas(desired, live) ==
  Keep(FileOrder, Existing(desired))
  \o Keep(NameOrder, Existing(live) \ Existing(desired))

OrderDeltas(desired, live) ==
  TopologicalSort(desired) \o Keep(NameOrder, Existing(live) \ Existing(desired))

-----------------------------------------------------------------------------
(* plan.rs, apply_diamond_consistency_promotion.  The code visits the      *)
(* convergence nodes in the order of a HashMap, so the order is an         *)
(* argument here: any permutation of ConvergenceNodes.                     *)

ClassRank(class) ==
  CASE class = "Free" -> 0 [] class = "InPlace" -> 1
    [] class = "Rebuild" -> 2 [] class = "BlueGreen" -> 3

Changed(desired, live) ==
  {t \in Table : DeltaKind(desired, live, t) # "Unchanged"}

ChangedParents(desired, live, t) ==
  DependsOn(desired, t) \cap Changed(desired, live)

ConvergenceNodes(desired, live) ==
  {t \in Changed(desired, live) :
     Cardinality(ChangedParents(desired, live, t)) >= 2}

(* The node and its ancestors, walking changed tables only.                *)
DiamondGroup(desired, live, node) ==
  LET grow[n \in Nat] ==
        IF n = 0 THEN {node}
        ELSE grow[n - 1] \cup
             UNION {ChangedParents(desired, live, t) : t \in grow[n - 1]}
  IN grow[Cardinality(Table)]

HighestClass(classes, group) ==
  CHOOSE c \in {classes[t] : t \in group} :
    \A t \in group : ClassRank(classes[t]) <= ClassRank(c)

(* Mutated: only the free changes of the group are promoted.               *)
PromoteFreeOnly(classes, group) ==
  [t \in DOMAIN classes |->
     IF t \in group /\ classes[t] = "Free" THEN HighestClass(classes, group)
     ELSE classes[t]]

PromoteGroup(classes, group) ==
  [t \in DOMAIN classes |->
     IF t \in group THEN HighestClass(classes, group) ELSE classes[t]]

Promoted(desired, live, order) ==
  LET after[n \in 0 .. Len(order)] ==
        IF n = 0
        THEN [t \in Changed(desired, live) |-> ClassifyDelta(desired, live, t)]
        ELSE PromoteGroup(after[n - 1], DiamondGroup(desired, live, order[n]))
  IN after[Len(order)]

-----------------------------------------------------------------------------
(* plan.rs, build_plan_with_options: the steps of one table, then the plan.*)

When(condition, steps) == IF condition THEN steps ELSE <<>>

(* A rebuild of t to spec.  validateFirst: the query change validates      *)
(* before anything else, the metadata change just before the drop.         *)
RebuildSteps(t, spec, old, validateFirst) ==
  LET immediate == old.refresh = "IMMEDIATE"
      validate  == <<DoOn("ValidateQuery", t)>>
  IN When(validateFirst, validate)
     \o When(immediate, <<DoWith("PauseImmediate", t,
                            [NoArgs EXCEPT !.refresh = "DIFFERENTIAL"])>>)
     \o <<DoOn("WaitForRefresh", t)>>
     \o When(~validateFirst, validate)
     \o <<DoOn("DropStreamTable", t), DoWith("CreateStreamTable", t, spec),
          DoOn("RecreatePolicy", t), DoOn("Backfill", t)>>
     \o When(immediate, <<DoWith("ResumeImmediate", t,
                            [NoArgs EXCEPT !.refresh = "IMMEDIATE"])>>)

CreateSteps(t, spec) ==
  <<DoOn("ValidateQuery", t), DoWith("CreateStreamTable", t, spec),
    DoOn("Backfill", t)>>

DropSteps(t, old) ==
  <<DoOn("WaitForRefresh", t)>>
  \o When(old.cdc = "outbox", <<DoOn("DetachOutbox", t)>>)
  \o When(old.cdc = "wal", <<DoOn("ManageWalSlot", t)>>)
  \o <<DoOn("DropStreamTable", t)>>

(* The metadata fields an AlterStreamTable sets: those that differ.  A cdc *)
(* mode the files no longer name is None, so it is not sent.               *)
MetadataArgs(spec, old) ==
  [f \in DOMAIN NoArgs |->
     IF f \in ChangedMetadata(spec, old) THEN spec[f] ELSE None]

(* Mutated: the alter of a query change that forgets the query.            *)
NoQueryArgs(spec) == [NoArgs EXCEPT !.schedule = spec.schedule]

QueryArgs(spec) == [NoArgs EXCEPT !.query = spec.query]

StepsFor(desired, live, t, class) ==
  LET kind == DeltaKind(desired, live, t) IN
  CASE kind = "Unchanged" -> <<>>
    [] kind = "Create" -> CreateSteps(t, desired[t])
    [] kind = "Drop"   -> DropSteps(t, live[t])
    [] kind \notin {"Unchanged", "Create", "Drop", "AlterQuery"} ->
         IF class = "Rebuild"
         THEN RebuildSteps(t, desired[t], live[t], FALSE)
         ELSE <<DoWith("AlterStreamTable", t, MetadataArgs(desired[t], live[t]))>>
    [] kind = "AlterQuery" ->
         IF class = "InPlace"
         THEN <<DoOn("ValidateQuery", t),
                DoWith("AlterStreamTable", t, QueryArgs(desired[t])),
                DoOn("Backfill", t)>>
         ELSE RebuildSteps(t, desired[t], live[t], TRUE)

(* Every plan takes the lock first and releases it last.                   *)
UnderLock(steps) ==
  <<Do("LockDag")>> \o steps \o <<Do("RecordSnapshot"), Do("UnlockDag")>>

BuildPlanInOrder(desired, live, order) ==
  LET classes == Promoted(desired, live, order)
      tables  == Keep(OrderDeltas(desired, live), Changed(desired, live))
      upTo[n \in 0 .. Len(tables)] ==
        IF n = 0 THEN <<>>
        ELSE upTo[n - 1] \o StepsFor(desired, live, tables[n], classes[tables[n]])
  IN UnderLock(When("pre" \in Hooks, <<Do("RunHook")>>)
               \o upTo[Len(tables)]
               \o When("post" \in Hooks, <<Do("RunHook")>>))

(* The plan for one order of the HashMap.                                  *)
BuildPlan(desired, live) ==
  BuildPlanInOrder(desired, live, SetToSeq(ConvergenceNodes(desired, live)))

(* The steps of a plan that are of some kinds.                             *)
OnlyOf(plan, ops) == Keep(plan, {step \in ToSet(plan) : step.op \in ops})

=============================================================================
