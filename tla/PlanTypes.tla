----------------------------- MODULE PlanTypes -----------------------------
(***************************************************************************)
(* The vocabulary shared by the planner and the executor: stream-table     *)
(* specs, DAG states, plan steps, and what the pg_trickle functions do to  *)
(* the registry of stream tables.  Names, SQL text and time are model      *)
(* values: the planner and the executor only compare them.                 *)
(***************************************************************************)
EXTENDS Naturals, Sequences

CONSTANTS Table,      \* qualified names of stream tables
          Query,      \* normalised query texts
          Schedule,   \* schedules
          CdcMode,    \* CDC modes: "wal", "outbox", ...
          None,       \* SQL NULL, Rust None
          Absent      \* the "spec" of a table that does not exist

RefreshMode == {"FULL", "DIFFERENTIAL", "IMMEDIATE"}

(* A complete spec, and the arguments of alter_stream_table, where a NULL  *)
(* field means "leave it as it is".  Every spec is also a legal argument.  *)
TableSpec == [query : Query, schedule : Schedule, refresh : RefreshMode,
              cdc : CdcMode \cup {None}]

AlterArgs == [query : Query \cup {None}, schedule : Schedule \cup {None},
              refresh : RefreshMode \cup {None}, cdc : CdcMode \cup {None}]

NoArgs == [query |-> None, schedule |-> None, refresh |-> None, cdc |-> None]

(* A DAG state: which stream tables exist, each with its spec.             *)
DagState == [Table -> TableSpec \cup {Absent}]

EmptyDag == [t \in Table |-> Absent]

Existing(dag) == {t \in Table : dag[t] # Absent}

-----------------------------------------------------------------------------
(* The plan steps of the default strategy.  A step carries the table it is *)
(* about (None for the bookkeeping steps) and its arguments: the spec of a *)
(* create, the non-NULL fields of an alter.                                *)
Op == {"LockDag", "RunHook", "ValidateQuery", "WaitForRefresh",
       "CreateStreamTable", "AlterStreamTable", "DropStreamTable",
       "RecreatePolicy", "Backfill", "DetachOutbox", "ManageWalSlot",
       "PauseImmediate", "ResumeImmediate", "RecordSnapshot", "UnlockDag"}

Step == [op : Op, table : Table \cup {None}, args : AlterArgs]

Do(op)             == [op |-> op, table |-> None, args |-> NoArgs]
DoOn(op, t)        == [op |-> op, table |-> t, args |-> NoArgs]
DoWith(op, t, args) == [op |-> op, table |-> t, args |-> args]

(* Plan.summary.is_empty(): no counter was raised, so no step does work.   *)
NoChanges(plan) ==
  \A i \in DOMAIN plan :
    plan[i].op \in {"LockDag", "RunHook", "RecordSnapshot", "UnlockDag"}

(* Mutated: only the tables that are altered in place.                     *)
AffectedNodesAltered(plan) ==
  {plan[i].table : i \in {j \in DOMAIN plan : plan[j].op = "AlterStreamTable"}}

(* The steps whose tables LockDag asks pg_trickle to pause.                *)
AffectedNodes(plan) ==
  {plan[i].table : i \in {j \in DOMAIN plan :
     plan[j].op \in {"AlterStreamTable", "DropStreamTable", "Backfill",
                     "CreateStreamTable"}}}

-----------------------------------------------------------------------------
(* pg_trickle, as the test kit's mock defines it: create is an upsert, drop *)
(* is IF EXISTS, alter COALESCEs each argument and silently updates no row *)
(* when the table is not there.                                            *)
OrElse(arg, old) == IF arg = None THEN old ELSE arg

Coalesce(old, args) ==
  [query    |-> OrElse(args.query, old.query),
   schedule |-> OrElse(args.schedule, old.schedule),
   refresh  |-> OrElse(args.refresh, old.refresh),
   cdc      |-> OrElse(args.cdc, old.cdc)]

CreateTable(dag, t, spec) == [dag EXCEPT ![t] = spec]

DropTable(dag, t) == [dag EXCEPT ![t] = Absent]

AlterTable(dag, t, args) ==
  IF dag[t] = Absent THEN dag ELSE [dag EXCEPT ![t] = Coalesce(@, args)]

(* What the executor's step does to the stream tables.                     *)
Effect(dag, step) ==
  CASE step.op = "CreateStreamTable" -> CreateTable(dag, step.table, step.args)
    [] step.op = "DropStreamTable"   -> DropTable(dag, step.table)
    [] step.op \in {"AlterStreamTable", "PauseImmediate", "ResumeImmediate"} ->
         AlterTable(dag, step.table, step.args)
    [] OTHER -> dag

=============================================================================
