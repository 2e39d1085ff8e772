------------------------------ MODULE Previews ------------------------------
(***************************************************************************)
(* aqueduct preview, native backend: a scratch schema per branch, built    *)
(* from the branch's files one statement after another, rebuilt and        *)
(* dropped by whoever names the branch.  A relation is a qualified name;   *)
(* of a preview table is known what it was created for, from which files   *)
(* and reading which relations.                                            *)
(***************************************************************************)
EXTENDS Naturals, Sequences

CONSTANTS
  Branch,
  SchemaOf,    \* [Branch -> the schema its name is sanitised to]
  Production,  \* the relations outside the preview schemas
  Files,       \* what a branch may hold: [sources, order, query], where order
               \* lists the stream tables as loaded and a query is
               \* [from, nested, declared]
  Session,
  Absent,
  MaxRuns      \* bound: the commands given

VARIABLES
  files,   \* [Branch -> its migration files]
  schemas, \* the preview schemas that exist
  tables,  \* their tables
  run,     \* [Session -> the create it executes, or Absent]
  runs     \* how many commands were given

vars == <<files, schemas, tables, run, runs>>

Schema == {SchemaOf[b] : b \in Branch}

Tables(dag)  == {dag.order[i] : i \in DOMAIN dag.order}
Managed(dag) == dag.sources \cup Tables(dag)

Relation == Production \cup UNION {Managed(dag) : dag \in Files}

ASSUME ProductionAssumption == \A r \in Production : r.schema \notin Schema

(* The stream tables of the files are a list.                              *)
ASSUME FilesAssumption == \A dag \in Files : dag.order \in Seq(Relation)

-----------------------------------------------------------------------------
(* preview.rs, collect_subgraph: breadth first to the readers of the       *)
(* anchor, then from the anchor to what it reads.                          *)

(* What the SQL of a table tells of its dependencies: the names in FROM    *)
(* and JOIN, derived tables included, but those of CTEs and of subqueries   *)
(* in other places (nested) are not found.                                  *)
Inferred(dag, t) == dag.query[t].from

(* With those that @aqueduct:depends_on declares.                          *)
DependsOn(dag, t) == (Inferred(dag, t) \cup dag.query[t].declared) \cap Tables(dag)

Readers(dag, t) == {r \in Tables(dag) : t \in DependsOn(dag, r)}

(* What a search finds that goes from a table t on to next[t].             *)
Reached(dag, next, start) ==
  LET found[n \in Nat] ==
        IF n = 0 THEN {start}
        ELSE found[n - 1] \cup UNION {next[t] : t \in found[n - 1]}
  IN found[Len(dag.order)]

Descendants(dag, anchor) ==
  Reached(dag, [t \in Tables(dag) |-> Readers(dag, t)], anchor)

Ancestors(dag, anchor) ==
  Reached(dag, [t \in Tables(dag) |-> DependsOn(dag, t)], anchor)

(* Mutated: only the readers of the anchor itself.                         *)
CollectSubgraphNear(dag, anchor) ==
  {anchor} \cup Readers(dag, anchor) \cup Ancestors(dag, anchor)

CollectSubgraph(dag, anchor) == Descendants(dag, anchor) \cup Ancestors(dag, anchor)

-----------------------------------------------------------------------------
(* rewrite_query_for_preview_ast: a table named in FROM or JOIN, derived   *)
(* tables included, is looked up by its qualified name and by its name     *)
(* under `public`, which is what a name without a schema is taken for.     *)
(* CTEs and subqueries in other places are left as they are.               *)

(* Mutated: only by the qualified name.                                    *)
RewriteQualified(dag, schema, r) ==
  IF r \in Managed(dag) THEN [schema |-> schema, name |-> r.name] ELSE r

Rewrite(dag, schema, r) ==
  IF \/ r \in Managed(dag)
     \/ r.schema = "public" /\ \E m \in Managed(dag) : m.name = r.name
  THEN [schema |-> schema, name |-> r.name]
  ELSE r

Rewritten(dag, schema, t) ==
  {Rewrite(dag, schema, r) : r \in dag.query[t].from} \cup dag.query[t].nested

Has(schema, name) == \E t \in tables : t.schema = schema /\ t.name = name

Exists(r) == IF r.schema \in Schema THEN Has(r.schema, r.name) ELSE r \in Production

-----------------------------------------------------------------------------
(* The statements of create_preview_native: the sources, whatever the      *)
(* anchor, in any order, then the tables in the order of the files.        *)

DropFirst    == [op |-> "DropSchema"]
SchemaItself == [op |-> "CreateSchema"]

Creating == [op : {"Sample", "CreateTable"}, of : Relation]

(* Mutated: --recreate drops nothing.                                      *)
StatementsKeeping(dag, recreate, chosen) ==
  {SchemaItself} \cup [op : {"Sample"}, of : dag.sources]
  \cup [op : {"CreateTable"}, of : chosen]

Statements(dag, recreate, chosen) ==
  (IF recreate THEN {DropFirst} ELSE {}) \cup {SchemaItself}
  \cup [op : {"Sample"}, of : dag.sources] \cup [op : {"CreateTable"}, of : chosen]

LoadedBefore(dag, t, u) ==
  \E i, j \in DOMAIN dag.order : i < j /\ dag.order[i] = t /\ dag.order[j] = u

(* Mutated: the stream tables before the sources.                          *)
PrecedesTablesFirst(dag, x, y) ==
  \/ x.op = "DropSchema" /\ y.op # "DropSchema"
  \/ x.op = "CreateSchema" /\ y.op \in {"Sample", "CreateTable"}
  \/ x.op = "CreateTable" /\ y.op = "Sample"
  \/ x.op = "CreateTable" /\ y.op = "CreateTable" /\ LoadedBefore(dag, x.of, y.of)

Precedes(dag, x, y) ==
  \/ x.op = "DropSchema" /\ y.op # "DropSchema"
  \/ x.op = "CreateSchema" /\ y.op \in {"Sample", "CreateTable"}
  \/ x.op = "Sample" /\ y.op = "CreateTable"
  \/ x.op = "CreateTable" /\ y.op = "CreateTable" /\ LoadedBefore(dag, x.of, y.of)

Give == runs < MaxRuns /\ runs' = runs + 1

(* Another session that works on the schema disturbs the run.              *)
Disturb(s, schema) ==
  [u \in Session |->
     IF u # s /\ run[u] # Absent /\ run[u].schema = schema
     THEN [run[u] EXCEPT !.undisturbed = FALSE] ELSE run[u]]

(* No anchor: the whole DAG.  Otherwise the tables of the subgraph.  The   *)
(* files are read once.                                                    *)
Choices(dag) ==
  {Tables(dag)} \cup {Tables(dag) \cap CollectSubgraph(dag, t) : t \in Tables(dag)}

BeginCreate(s) ==
  /\ run[s] = Absent
  /\ Give
  /\ \E b \in Branch, recreate \in BOOLEAN :
       \E chosen \in Choices(files[b]) :
         run' = [run EXCEPT ![s] =
           [schema |-> SchemaOf[b], dag |-> files[b], chosen |-> chosen,
            todo |-> Statements(files[b], recreate, chosen), failed |-> Absent,
            fresh |-> recreate, undisturbed |-> TRUE]]
  /\ UNCHANGED <<files, schemas, tables>>

(* The statement the run is about to execute.                              *)
At(s, x) ==
  /\ run[s] # Absent /\ run[s].failed = Absent
  /\ x \in run[s].todo
  /\ \A y \in run[s].todo : ~Precedes(run[s].dag, y, x)

Proceed(s, x) == run' = [Disturb(s, run[s].schema) EXCEPT ![s].todo = @ \ {x}]

Without(schema) == {t \in tables : t.schema # schema}

DropSchema(s) ==
  /\ At(s, DropFirst)
  /\ schemas' = schemas \ {run[s].schema}
  /\ tables' = Without(run[s].schema)
  /\ Proceed(s, DropFirst)
  /\ UNCHANGED <<files, runs>>

CreateSchema(s) ==
  /\ At(s, SchemaItself)
  /\ schemas' = schemas \cup {run[s].schema}
  /\ Proceed(s, SchemaItself)
  /\ UNCHANGED <<files, tables, runs>>

(* CREATE TABLE IF NOT EXISTS ... AS: the query is analysed all the same.  *)
Inputs(s, x) ==
  IF x.op = "Sample" THEN {x.of} ELSE Rewritten(run[s].dag, run[s].schema, x.of)

Refused(s, x) ==
  run[s].schema \notin schemas \/ \E r \in Inputs(s, x) : ~Exists(r)

Made(s, x) == [schema |-> run[s].schema, name |-> x.of.name, of |-> x.of,
               reads |-> Inputs(s, x), dag |-> run[s].dag]

CreateRelation(s) ==
  \E x \in Creating :
    /\ At(s, x)
    /\ ~Refused(s, x)
    /\ tables' = tables \cup (IF Has(run[s].schema, x.of.name) THEN {} ELSE {Made(s, x)})
    /\ Proceed(s, x)
    /\ UNCHANGED <<files, schemas, runs>>

(* An error ends the command; what was created stays.                      *)
Fail(s) ==
  \E x \in Creating :
    /\ At(s, x)
    /\ Refused(s, x)
    /\ run' = [run EXCEPT ![s].failed = x]
    /\ UNCHANGED <<files, schemas, tables, runs>>

(* The command is through, or dies anywhere.                               *)
End(s) ==
  /\ run[s] # Absent
  /\ run' = [run EXCEPT ![s] = Absent]
  /\ UNCHANGED <<files, schemas, tables, runs>>

Cleanup(s) ==
  /\ run[s] = Absent
  /\ Give
  /\ \E p \in Schema :
       /\ schemas' = schemas \ {p}
       /\ tables' = Without(p)
       /\ run' = Disturb(s, p)
  /\ UNCHANGED files

Edit ==
  /\ Give
  /\ \E b \in Branch, dag \in Files : files' = [files EXCEPT ![b] = dag]
  /\ UNCHANGED <<schemas, tables, run>>

Init ==
  /\ files \in [Branch -> Files]
  /\ schemas = {}
  /\ tables = {}
  /\ run = [s \in Session |-> Absent]
  /\ runs = 0

Next ==
  \/ Edit
  \/ \E s \in Session :
       \/ BeginCreate(s) \/ DropSchema(s) \/ CreateSchema(s) \/ CreateRelation(s)
       \/ Fail(s) \/ End(s) \/ Cleanup(s)

Spec == Init /\ [][Next]_vars

-----------------------------------------------------------------------------
Create == [schema : Schema, dag : Files, chosen : SUBSET Relation,
           todo : SUBSET ({DropFirst, SchemaItself} \cup Creating),
           failed : Creating \cup {Absent}, fresh : BOOLEAN, undisturbed : BOOLEAN]

(* A create works on one schema and one reading of the files.              *)
TypeOK ==
  /\ files \in [Branch -> Files]
  /\ schemas \subseteq Schema
  /\ run \in [Session -> Create \cup {Absent}]

Succeeded(s) == run[s] # Absent /\ run[s].failed = Absent /\ run[s].todo = {}

(* No two relations of two schemas have a name in common: of those that do, *)
(* the preview holds the first, CREATE TABLE IF NOT EXISTS skips the other. *)
ToldApart(dag) == \A m, n \in Managed(dag) : m.name = n.name => m = n

(* preview.rs:54, --recreate: a preview rebuilt from scratch, with no other *)
(* session in its schema, is exactly the preview of the files: every source *)
(* and every chosen table, created from the files as the run read them, and *)
(* nothing of what the schema held before.                                  *)
RecreatedIsCurrent ==
  \A s \in Session :
    Succeeded(s) /\ run[s].fresh /\ run[s].undisturbed /\ ToldApart(run[s].dag) =>
      LET held == {t \in tables : t.schema = run[s].schema} IN
      /\ {t.of : t \in held} = run[s].dag.sources \cup run[s].chosen
      /\ \A t \in held : t.dag = run[s].dag

(* SEC-03 (preview.rs:163): what the FROM clauses of a preview table name   *)
(* is read from the preview, however it was written: where a table of the   *)
(* same files stands beside it in the preview, it does not read the one of  *)
(* that name in `public`, nor the one it was made for.                      *)
PreviewsReadPreviews ==
  \A t, beside \in tables :
    /\ t.schema = beside.schema /\ t.dag = beside.dag
    /\ t.of \in Tables(t.dag) \ t.dag.sources
    => \A r \in t.reads \ t.dag.query[t.of].nested :
         r.schema = t.schema \/ r \notin {beside.of, [schema |-> "public", name |-> beside.name]}

(* The stream tables the FROM clauses of a query name.                      *)
Named(dag, t) ==
  {u \in Tables(dag) : \E r \in dag.query[t].from :
     u = r \/ (r.schema = "public" /\ u.name = r.name)}

(* What a preview table reads outside its preview.                          *)
LeftAlone(dag, schema, t) ==
  dag.query[t].nested \cup {r \in dag.query[t].from : Rewrite(dag, schema, r) = r}

(* A create in a schema of its own fails for no other reasons than these:   *)
(* a table is loaded before one it reads, a reader of the anchor also reads *)
(* a table that --table leaves out, or what is to be read from production,  *)
(* a source or what a query reads there, is not yet in it.                  *)
FailuresAreExplained ==
  \A s \in Session :
    run[s] # Absent =>
      (run[s].failed # Absent /\ run[s].undisturbed =>
         LET dag == run[s].dag
             x   == run[s].failed
         IN IF x.op = "Sample" THEN x.of \notin Production
            ELSE \/ \E u \in Named(dag, x.of) :
                      u \notin run[s].chosen \/ ~LoadedBefore(dag, u, x.of)
                 \/ ~(LeftAlone(dag, run[s].schema, x.of) \subseteq Production))

(* preview.rs:99: the subgraph is the anchor with all it reads and all that *)
(* read it, directly or not, by any path of the DAG (checked of the files   *)
(* the branches start with, which are all there may be).                    *)
SubgraphIsTransitive ==
  runs = 0 => \A b \in Branch : \A anchor, t \in Tables(files[b]) :
    LET dag == files[b]
        Path(x, y) ==
          \E path \in UNION {[1 .. n -> Tables(dag)] : n \in 1 .. Len(dag.order)} :
            /\ path[1] = x /\ path[Len(path)] = y
            /\ \A i \in 1 .. Len(path) - 1 : path[i + 1] \in DependsOn(dag, path[i])
    IN t \in CollectSubgraph(dag, anchor) <=> Path(t, anchor) \/ Path(anchor, t)

=============================================================================
