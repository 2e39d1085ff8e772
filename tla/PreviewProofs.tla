---------------------------- MODULE PreviewProofs ----------------------------
(***************************************************************************)
(* Proofs about the preview schemas, for any branches, any sanitising of   *)
(* their names, any files and any number of sessions.  What the search    *)
(* for a subgraph finds is the last theorem; those before it only use that *)
(* it is cut down to the stream tables of the files.                       *)
(***************************************************************************)
EXTENDS Previews, FiniteSetTheorems, WellFoundedInduction, TLAPS

(* What is created for a run: everything but the schema itself.            *)
Relations(s) == Statements(run[s].dag, run[s].fresh, run[s].chosen) \cap Creating

(* A preview table was created for a relation of the files it comes from.  *)
TablesKnown ==
  \A t \in tables :
    /\ t.dag \in Files /\ t.of \in Managed(t.dag) /\ t.name = t.of.name
    /\ t.of \in Tables(t.dag) \ t.dag.sources => t.reads = Rewritten(t.dag, t.schema, t.of)

(* The statements are executed in their order as far as it matters here.   *)
InOrder(s) ==
  /\ run[s].chosen \subseteq Tables(run[s].dag)
  /\ run[s].todo \subseteq Statements(run[s].dag, run[s].fresh, run[s].chosen)
  /\ DropFirst \in run[s].todo => SchemaItself \in run[s].todo
  /\ SchemaItself \in run[s].todo => Relations(s) \subseteq run[s].todo

(* Nobody else being at work in its schema, a run finds what it created.   *)
FindsItsOwn(s) ==
  run[s].undisturbed /\ SchemaItself \notin run[s].todo =>
    /\ run[s].schema \in schemas
    /\ \A z \in Relations(s) \ run[s].todo : Has(run[s].schema, z.of.name)

(* And, having dropped the schema first, nothing else.                     *)
FindsNothingElse(s) ==
  run[s].undisturbed /\ run[s].fresh /\ DropFirst \notin run[s].todo =>
    \A t \in tables : t.schema = run[s].schema =>
      /\ t.dag = run[s].dag
      /\ \E z \in Relations(s) \ run[s].todo : z.of = t.of

RunInv(s) == InOrder(s) /\ FindsItsOwn(s) /\ FindsNothingElse(s)

PreviewInv ==
  /\ TypeOK
  /\ TablesKnown
  /\ \A s \in Session : run[s] # Absent => RunInv(s)

-----------------------------------------------------------------------------
(* The statements by their kinds.                                          *)
LEMMA Kinds ==
  /\ DropFirst.op = "DropSchema" /\ SchemaItself.op = "CreateSchema"
  /\ DropFirst # SchemaItself
  /\ DropFirst \notin Creating /\ SchemaItself \notin Creating
  /\ \A z \in Creating : /\ z.op \in {"Sample", "CreateTable"} /\ z.of \in Relation
                         /\ z # DropFirst /\ z # SchemaItself
<1>1. DropFirst.op = "DropSchema" /\ SchemaItself.op = "CreateSchema"
  BY DEF DropFirst, SchemaItself
<1>2. \A z \in Creating : z.op \in {"Sample", "CreateTable"} /\ z.of \in Relation
  BY DEF Creating
<1> QED
  BY <1>1, <1>2

LEMMA RelationsOf ==
  ASSUME NEW dag \in Files, NEW recreate \in BOOLEAN, NEW chosen \in SUBSET Tables(dag)
  PROVE  /\ \A w \in dag.sources :
              [op |-> "Sample", of |-> w] \in Statements(dag, recreate, chosen) \cap Creating
         /\ \A w \in chosen :
              [op |-> "CreateTable", of |-> w] \in Statements(dag, recreate, chosen) \cap Creating
         /\ \A z \in Statements(dag, recreate, chosen) \cap Creating :
              \/ z.op = "Sample" /\ z.of \in dag.sources
              \/ z.op = "CreateTable" /\ z.of \in chosen
         /\ Statements(dag, recreate, chosen) \subseteq {DropFirst, SchemaItself} \cup Creating
         /\ SchemaItself \in Statements(dag, recreate, chosen)
         /\ DropFirst \in Statements(dag, recreate, chosen) <=> recreate
<1>1. Managed(dag) \subseteq Relation /\ dag.sources \subseteq Managed(dag)
      /\ chosen \subseteq Managed(dag)
  BY DEF Relation, Managed
<1>2. \A w \in dag.sources : [op |-> "Sample", of |-> w] \in Creating
  BY <1>1 DEF Creating
<1>3. \A w \in chosen : [op |-> "CreateTable", of |-> w] \in Creating
  BY <1>1 DEF Creating
<1>4. [op : {"Sample"}, of : dag.sources] \cup [op : {"CreateTable"}, of : chosen]
        \subseteq Creating
  BY <1>1 DEF Creating
<1>5. \A z \in [op : {"Sample"}, of : dag.sources] : z.op = "Sample" /\ z.of \in dag.sources
  OBVIOUS
<1>6. \A z \in [op : {"CreateTable"}, of : chosen] : z.op = "CreateTable" /\ z.of \in chosen
  OBVIOUS
<1> QED
  BY <1>2, <1>3, <1>4, <1>5, <1>6, Kinds DEF Statements

LEMMA RelationsOfRun ==
  ASSUME NEW s \in Session, run[s] \in Create, InOrder(s)
  PROVE  /\ \A w \in run[s].dag.sources : [op |-> "Sample", of |-> w] \in Relations(s)
         /\ \A w \in run[s].chosen : [op |-> "CreateTable", of |-> w] \in Relations(s)
         /\ \A z \in Relations(s) :
              \/ z.op = "Sample" /\ z.of \in run[s].dag.sources
              \/ z.op = "CreateTable" /\ z.of \in run[s].chosen
<1>1. run[s].dag \in Files /\ run[s].fresh \in BOOLEAN
      /\ run[s].chosen \in SUBSET Tables(run[s].dag)
  BY DEF Create, InOrder
<1> QED
  BY <1>1, RelationsOf DEF Relations

(* What is taken for a stream table of a choice is one of the files.       *)
LEMMA ChoicesAreTables ==
  ASSUME NEW dag, NEW chosen \in Choices(dag)
  PROVE  chosen \subseteq Tables(dag)
BY DEF Choices

(* The order of the statements a run executes next.                        *)
LEMMA DueInOrder ==
  ASSUME NEW s \in Session, NEW x \in Creating, At(s, x)
  PROVE  DropFirst \notin run[s].todo /\ SchemaItself \notin run[s].todo
<1>1. x.op \in {"Sample", "CreateTable"}
  BY Kinds
<1>2. Precedes(run[s].dag, DropFirst, x) /\ Precedes(run[s].dag, SchemaItself, x)
  BY <1>1, Kinds DEF Precedes
<1> QED
  BY <1>2 DEF At

-----------------------------------------------------------------------------
(* What a step does to the runs it is not a step of.                       *)

(* A step of one session changes no other but by disturbing it.            *)
Elsewhere(s, schema) ==
  \A u \in Session \ {s} :
    /\ run[u] = Absent => run'[u] = Absent
    /\ run[u] # Absent =>
         /\ run'[u] # Absent =>
              /\ \A f \in {"schema", "dag", "chosen", "todo", "failed", "fresh"} :
                   run'[u][f] = run[u][f]
              /\ run[u].schema # schema => run'[u].undisturbed = run[u].undisturbed
              /\ run[u].schema = schema => ~run'[u].undisturbed

(* Nor any other schema.                                                   *)
OnlyIn(schema) ==
  /\ \A p \in schemas : p # schema => p \in schemas'
  /\ {t \in tables : t.schema # schema} = {t \in tables' : t.schema # schema}

LEMMA RecordFields ==
  ASSUME NEW r \in Create
  PROVE  /\ \A f \in {"schema", "dag", "chosen", "todo", "failed", "fresh"} :
              [r EXCEPT !.undisturbed = FALSE][f] = r[f]
         /\ ~[r EXCEPT !.undisturbed = FALSE].undisturbed
         /\ [r EXCEPT !.undisturbed = FALSE] \in Create
BY DEF Create

LEMMA OthersKeepInv ==
  ASSUME NEW s \in Session, NEW schema, PreviewInv, Elsewhere(s, schema), OnlyIn(schema),
         NEW u \in Session \ {s}, run'[u] # Absent
  PROVE  RunInv(u)'
<1>1. run[u] # Absent /\ RunInv(u)
  BY DEF Elsewhere, PreviewInv
<1>2. /\ run'[u].schema = run[u].schema /\ run'[u].dag = run[u].dag
      /\ run'[u].chosen = run[u].chosen /\ run'[u].todo = run[u].todo
      /\ run'[u].fresh = run[u].fresh
  BY <1>1 DEF Elsewhere
<1>3. Relations(u)' = Relations(u)
  BY <1>2 DEF Relations, Statements
<1>4. InOrder(u)'
  BY <1>1, <1>2, <1>3 DEF RunInv, InOrder, Statements
<1>5. CASE run[u].schema = schema
  <2>1. ~run'[u].undisturbed
    BY <1>1, <1>5 DEF Elsewhere
  <2> QED
    BY <1>4, <2>1 DEF RunInv, FindsItsOwn, FindsNothingElse
<1>6. CASE run[u].schema # schema
  <2>1. run'[u].undisturbed = run[u].undisturbed
    BY <1>1, <1>6 DEF Elsewhere
  <2>2. run[u].schema \in schemas => run[u].schema \in schemas'
    BY <1>6 DEF OnlyIn
  <2>3. \A t : t \in tables /\ t.schema = run[u].schema
               <=> t \in tables' /\ t.schema = run[u].schema
    BY <1>6 DEF OnlyIn
  <2>4. \A name : Has(run[u].schema, name) => Has(run[u].schema, name)'
    BY <1>2, <2>3 DEF Has
  <2>5. FindsItsOwn(u)'
    BY <1>1, <1>2, <1>3, <2>1, <2>2, <2>4 DEF RunInv, FindsItsOwn
  <2>6. FindsNothingElse(u)'
    BY <1>1, <1>2, <1>3, <2>1, <2>3 DEF RunInv, FindsNothingElse
  <2> QED
    BY <1>4, <2>5, <2>6 DEF RunInv
<1> QED
  BY <1>5, <1>6

(* Disturbing the others keeps the type, and is nothing to the session.    *)
LEMMA DisturbTypes ==
  ASSUME TypeOK, NEW s \in Session, NEW schema
  PROVE  /\ Disturb(s, schema) \in [Session -> Create \cup {Absent}]
         /\ Disturb(s, schema)[s] = run[s]
         /\ \A u \in Session \ {s} :
              /\ run[u] = Absent => Disturb(s, schema)[u] = Absent
              /\ run[u] # Absent =>
                   /\ \A f \in {"schema", "dag", "chosen", "todo", "failed", "fresh"} :
                        Disturb(s, schema)[u][f] = run[u][f]
                   /\ run[u].schema # schema =>
                        Disturb(s, schema)[u].undisturbed = run[u].undisturbed
                   /\ run[u].schema = schema => ~Disturb(s, schema)[u].undisturbed
<1>1. run \in [Session -> Create \cup {Absent}]
  BY DEF TypeOK
<1>2. \A u \in Session : run[u] # Absent => run[u] \in Create
  BY <1>1
<1> QED
  BY <1>1, <1>2, RecordFields DEF Disturb

LEMMA ProceedElsewhere ==
  ASSUME TypeOK, NEW s \in Session, run[s] # Absent, NEW x, Proceed(s, x)
  PROVE  /\ Elsewhere(s, run[s].schema)
         /\ run' \in [Session -> Create \cup {Absent}]
         /\ run'[s] = [run[s] EXCEPT !.todo = @ \ {x}]
<1>1. run[s] \in Create
  BY DEF TypeOK
<1>2. [run[s] EXCEPT !.todo = @ \ {x}] \in Create
  BY <1>1 DEF Create
<1>3. run' = [Disturb(s, run[s].schema) EXCEPT ![s] = [run[s] EXCEPT !.todo = @ \ {x}]]
  BY DisturbTypes DEF Proceed
<1>4. \A u \in Session \ {s} : run'[u] = Disturb(s, run[s].schema)[u]
  BY <1>3, DisturbTypes
<1> QED
  BY <1>2, <1>3, <1>4, DisturbTypes DEF Elsewhere

-----------------------------------------------------------------------------
(* One lemma per action.                                                   *)

LEMMA BeginInv ==
  ASSUME PreviewInv, NEW s \in Session, BeginCreate(s)
  PROVE  PreviewInv'
<1>1. PICK b \in Branch, recreate \in BOOLEAN : \E chosen \in Choices(files[b]) :
        run' = [run EXCEPT ![s] =
           [schema |-> SchemaOf[b], dag |-> files[b], chosen |-> chosen,
            todo |-> Statements(files[b], recreate, chosen), failed |-> Absent,
            fresh |-> recreate, undisturbed |-> TRUE]]
  BY DEF BeginCreate
<1>choice. PICK chosen \in Choices(files[b]) :
        run' = [run EXCEPT ![s] =
           [schema |-> SchemaOf[b], dag |-> files[b], chosen |-> chosen,
            todo |-> Statements(files[b], recreate, chosen), failed |-> Absent,
            fresh |-> recreate, undisturbed |-> TRUE]]
  BY <1>1
<1> DEFINE new == [schema |-> SchemaOf[b], dag |-> files[b], chosen |-> chosen,
                   todo |-> Statements(files[b], recreate, chosen), failed |-> Absent,
                   fresh |-> recreate, undisturbed |-> TRUE]
<1>2. files[b] \in Files /\ chosen \subseteq Tables(files[b]) /\ TypeOK
  BY ChoicesAreTables DEF PreviewInv, TypeOK
<1>3. /\ chosen \subseteq Relation
      /\ Statements(files[b], recreate, chosen) \subseteq {DropFirst, SchemaItself} \cup Creating
      /\ SchemaItself \in Statements(files[b], recreate, chosen)
      /\ DropFirst \in Statements(files[b], recreate, chosen) <=> recreate
  <2>1. chosen \subseteq Relation
    BY <1>2 DEF Relation, Managed
  <2> QED
    BY <1>2, <2>1, RelationsOf
<1>4. new \in Create
  BY <1>2, <1>3 DEF Create, Schema
<1>5. run' \in [Session -> Create \cup {Absent}] /\ run'[s] = new
      /\ \A u \in Session \ {s} : run'[u] = run[u]
  BY <1>choice, <1>2, <1>4 DEF TypeOK
<1>6. UNCHANGED <<files, schemas, tables>>
  BY DEF BeginCreate
<1>7. TypeOK'
  BY <1>2, <1>5, <1>6 DEF TypeOK
<1>8. TablesKnown'
  BY <1>6 DEF PreviewInv, TablesKnown
<1>9. RunInv(s)'
  <2>1. run'[s].todo = Statements(files[b], recreate, chosen) /\ run'[s].fresh = recreate
        /\ run'[s].dag = files[b] /\ run'[s].chosen = chosen
    BY <1>5
  <2>2. InOrder(s)'
    BY <1>2, <1>3, <2>1 DEF InOrder, Relations, Statements
  <2>3. FindsItsOwn(s)'
    BY <1>3, <2>1 DEF FindsItsOwn
  <2>4. FindsNothingElse(s)'
    BY <1>3, <2>1 DEF FindsNothingElse
  <2> QED
    BY <2>2, <2>3, <2>4 DEF RunInv
<1>10. \A u \in Session \ {s} : run'[u] # Absent => RunInv(u)'
  <2> SUFFICES ASSUME NEW u \in Session \ {s}, run'[u] # Absent PROVE RunInv(u)'
    OBVIOUS
  <2>1. run'[u] = run[u] /\ RunInv(u)
    BY <1>5 DEF PreviewInv
  <2> QED
    BY <1>6, <2>1 DEF RunInv, InOrder, FindsItsOwn, FindsNothingElse, Relations, Statements, Has
<1> QED
  BY <1>7, <1>8, <1>9, <1>10 DEF PreviewInv

(* What the statements of a run have in common.                            *)
LEMMA ProceedTypes ==
  ASSUME PreviewInv, NEW s \in Session, NEW x, At(s, x), Proceed(s, x)
  PROVE  /\ run[s] \in Create /\ RunInv(s)
         /\ run' \in [Session -> Create \cup {Absent}]
         /\ Elsewhere(s, run[s].schema)
         /\ run'[s].todo = run[s].todo \ {x}
         /\ \A f \in {"schema", "dag", "chosen", "failed", "fresh", "undisturbed"} :
              run'[s][f] = run[s][f]
         /\ Relations(s)' = Relations(s)
         /\ Statements(run[s].dag, run[s].fresh, run[s].chosen)' =
              Statements(run[s].dag, run[s].fresh, run[s].chosen)
<1>1. run[s] # Absent /\ TypeOK
  BY DEF At, PreviewInv
<1>2. run[s] \in Create /\ RunInv(s)
  BY <1>1 DEF PreviewInv, TypeOK
<1>3. /\ run' \in [Session -> Create \cup {Absent}]
      /\ Elsewhere(s, run[s].schema)
      /\ run'[s] = [run[s] EXCEPT !.todo = @ \ {x}]
  BY <1>1, ProceedElsewhere
<1>4. /\ run'[s].todo = run[s].todo \ {x}
      /\ \A f \in {"schema", "dag", "chosen", "failed", "fresh", "undisturbed"} :
           run'[s][f] = run[s][f]
  BY <1>2, <1>3 DEF Create
<1>5. run'[s].dag = run[s].dag /\ run'[s].fresh = run[s].fresh
      /\ run'[s].chosen = run[s].chosen
  BY <1>4
<1> QED
  BY <1>2, <1>3, <1>4, <1>5 DEF Relations, Statements

LEMMA DropInv ==
  ASSUME PreviewInv, NEW s \in Session, DropSchema(s)
  PROVE  PreviewInv'
<1>1. At(s, DropFirst) /\ Proceed(s, DropFirst) /\ DropFirst \in run[s].todo
      /\ files' = files /\ schemas' = schemas \ {run[s].schema}
      /\ tables' = Without(run[s].schema)
  BY DEF DropSchema, At
<1>2. /\ run[s] \in Create /\ RunInv(s)
      /\ run' \in [Session -> Create \cup {Absent}]
      /\ Elsewhere(s, run[s].schema)
      /\ run'[s].todo = run[s].todo \ {DropFirst}
      /\ \A f \in {"schema", "dag", "chosen", "failed", "fresh", "undisturbed"} :
           run'[s][f] = run[s][f]
      /\ Relations(s)' = Relations(s)
      /\ Statements(run[s].dag, run[s].fresh, run[s].chosen)' =
           Statements(run[s].dag, run[s].fresh, run[s].chosen)
  BY <1>1, ProceedTypes
<1>3. TypeOK'
  BY <1>1, <1>2 DEF PreviewInv, TypeOK
<1>4. TablesKnown'
  BY <1>1 DEF PreviewInv, TablesKnown, Without
<1>5. OnlyIn(run[s].schema)
  BY <1>1 DEF OnlyIn, Without
<1>6. \A u \in Session \ {s} : run'[u] # Absent => RunInv(u)'
  BY <1>2, <1>5, OthersKeepInv
<1>7. RunInv(s)'
  <2>1. SchemaItself \in run'[s].todo /\ Relations(s) \subseteq run'[s].todo
    BY <1>1, <1>2, Kinds DEF RunInv, InOrder, Relations
  <2>2. InOrder(s)'
    BY <1>2, <2>1 DEF RunInv, InOrder
  <2>3. FindsItsOwn(s)'
    BY <2>1 DEF FindsItsOwn
  <2>4. FindsNothingElse(s)'
    <3>1. \A t \in tables' : t.schema # run'[s].schema
      BY <1>1, <1>2 DEF Without
    <3> QED
      BY <3>1 DEF FindsNothingElse
  <2> QED
    BY <2>2, <2>3, <2>4 DEF RunInv
<1> QED
  BY <1>3, <1>4, <1>6, <1>7 DEF PreviewInv

LEMMA SchemaInv ==
  ASSUME PreviewInv, NEW s \in Session, CreateSchema(s)
  PROVE  PreviewInv'
<1>1. At(s, SchemaItself) /\ Proceed(s, SchemaItself) /\ SchemaItself \in run[s].todo
      /\ files' = files /\ schemas' = schemas \cup {run[s].schema} /\ tables' = tables
  BY DEF CreateSchema, At
<1>2. /\ run[s] \in Create /\ RunInv(s)
      /\ run' \in [Session -> Create \cup {Absent}]
      /\ Elsewhere(s, run[s].schema)
      /\ run'[s].todo = run[s].todo \ {SchemaItself}
      /\ \A f \in {"schema", "dag", "chosen", "failed", "fresh", "undisturbed"} :
           run'[s][f] = run[s][f]
      /\ Relations(s)' = Relations(s)
      /\ Statements(run[s].dag, run[s].fresh, run[s].chosen)' =
           Statements(run[s].dag, run[s].fresh, run[s].chosen)
  BY <1>1, ProceedTypes
<1>3. TypeOK'
  BY <1>1, <1>2 DEF PreviewInv, TypeOK, Create
<1>4. TablesKnown'
  BY <1>1 DEF PreviewInv, TablesKnown
<1>5. OnlyIn(run[s].schema)
  BY <1>1 DEF OnlyIn
<1>6. \A u \in Session \ {s} : run'[u] # Absent => RunInv(u)'
  BY <1>2, <1>5, OthersKeepInv
<1>7. RunInv(s)'
  <2>1. Relations(s) \subseteq run'[s].todo /\ SchemaItself \notin run'[s].todo
    BY <1>1, <1>2, Kinds DEF RunInv, InOrder, Relations
  <2>2. DropFirst \notin run[s].todo
    <3>1. Precedes(run[s].dag, DropFirst, SchemaItself)
      BY Kinds DEF Precedes
    <3> QED
      BY <1>1, <3>1 DEF At
  <2>3. InOrder(s)'
    BY <1>2, <2>1, <2>2 DEF RunInv, InOrder
  <2>4. FindsItsOwn(s)'
    BY <1>1, <1>2, <2>1 DEF FindsItsOwn
  <2>5. FindsNothingElse(s)'
    <3>1. run'[s].schema = run[s].schema /\ run'[s].dag = run[s].dag
          /\ run'[s].undisturbed = run[s].undisturbed /\ run'[s].fresh = run[s].fresh
      BY <1>2
    <3> QED
      BY <1>1, <1>2, <2>2, <3>1 DEF RunInv, FindsNothingElse
  <2> QED
    BY <2>3, <2>4, <2>5 DEF RunInv
<1> QED
  BY <1>3, <1>4, <1>6, <1>7 DEF PreviewInv

LEMMA CreateInv ==
  ASSUME PreviewInv, NEW s \in Session, CreateRelation(s)
  PROVE  PreviewInv'
<1>1. PICK x \in Creating :
        /\ At(s, x) /\ ~Refused(s, x) /\ Proceed(s, x) /\ UNCHANGED <<files, schemas, runs>>
        /\ tables' = tables \cup (IF Has(run[s].schema, x.of.name) THEN {} ELSE {Made(s, x)})
  BY DEF CreateRelation
<1>2. /\ run[s] \in Create /\ RunInv(s)
      /\ run' \in [Session -> Create \cup {Absent}]
      /\ Elsewhere(s, run[s].schema)
      /\ run'[s].todo = run[s].todo \ {x}
      /\ \A f \in {"schema", "dag", "chosen", "failed", "fresh", "undisturbed"} :
           run'[s][f] = run[s][f]
      /\ Relations(s)' = Relations(s)
      /\ Statements(run[s].dag, run[s].fresh, run[s].chosen)' =
           Statements(run[s].dag, run[s].fresh, run[s].chosen)
  BY <1>1, ProceedTypes
<1>3. /\ x \in Relations(s) /\ x \in run[s].todo
      /\ DropFirst \notin run[s].todo /\ SchemaItself \notin run[s].todo
  BY <1>1, <1>2, DueInOrder DEF At, RunInv, InOrder, Relations
<1>4. /\ run[s].dag \in Files
      /\ \/ x.op = "Sample" /\ x.of \in run[s].dag.sources
         \/ x.op = "CreateTable" /\ x.of \in run[s].chosen
      /\ x.of \in Managed(run[s].dag)
  BY <1>2, <1>3, RelationsOfRun DEF Create, RunInv, InOrder, Managed
<1>5. /\ Made(s, x).schema = run[s].schema /\ Made(s, x).name = x.of.name
      /\ Made(s, x).of = x.of /\ Made(s, x).reads = Inputs(s, x)
      /\ Made(s, x).dag = run[s].dag
  BY DEF Made
<1>6. \A t \in tables' : t \in tables \/ t = Made(s, x)
  BY <1>1
<1>7. TypeOK'
  BY <1>1, <1>2 DEF PreviewInv, TypeOK
<1>8. TablesKnown'
  <2> SUFFICES ASSUME NEW t \in tables', t \notin tables
               PROVE  /\ t.dag \in Files /\ t.of \in Managed(t.dag) /\ t.name = t.of.name
                      /\ t.of \in Tables(t.dag) \ t.dag.sources =>
                           t.reads = Rewritten(t.dag, t.schema, t.of)
    BY DEF PreviewInv, TablesKnown
  <2>1. t = Made(s, x)
    BY <1>6
  <2>2. x.of \notin run[s].dag.sources => Inputs(s, x) = Rewritten(run[s].dag, run[s].schema, x.of)
    BY <1>4 DEF Inputs
  <2> QED
    BY <1>4, <1>5, <2>1, <2>2
<1>9. OnlyIn(run[s].schema)
  BY <1>1, <1>5 DEF OnlyIn
<1>10. \A u \in Session \ {s} : run'[u] # Absent => RunInv(u)'
  BY <1>2, <1>9, OthersKeepInv
<1>11. RunInv(s)'
  <2>1. run'[s].schema = run[s].schema /\ run'[s].dag = run[s].dag
        /\ run'[s].undisturbed = run[s].undisturbed /\ run'[s].fresh = run[s].fresh
        /\ run'[s].chosen = run[s].chosen
    BY <1>2
  <2>2. InOrder(s)'
    BY <1>2, <1>3, <2>1 DEF RunInv, InOrder
  <2>3. \A name : Has(run[s].schema, name) => Has(run[s].schema, name)'
    BY <1>1, <2>1 DEF Has
  <2>4. Has(run[s].schema, x.of.name)'
    BY <1>1, <1>5, <2>1, <2>3 DEF Has
  <2>5. FindsItsOwn(s)'
    <3> SUFFICES ASSUME run[s].undisturbed
                 PROVE  /\ run[s].schema \in schemas'
                        /\ \A z \in Relations(s) \ run'[s].todo : Has(run[s].schema, z.of.name)'
      BY <1>2, <2>1 DEF FindsItsOwn
    <3>1. run[s].schema \in schemas
          /\ \A z \in Relations(s) \ run[s].todo : Has(run[s].schema, z.of.name)
      BY <1>2, <1>3 DEF RunInv, FindsItsOwn
    <3>2. \A z \in Relations(s) \ run'[s].todo : z \in Relations(s) \ run[s].todo \/ z = x
      BY <1>2
    <3> QED
      BY <1>1, <2>3, <2>4, <3>1, <3>2
  <2>6. FindsNothingElse(s)'
    <3> SUFFICES ASSUME run[s].undisturbed, run[s].fresh,
                        NEW t \in tables', t.schema = run[s].schema
                 PROVE  t.dag = run[s].dag /\ \E z \in Relations(s) \ run'[s].todo : z.of = t.of
      BY <1>2, <2>1 DEF FindsNothingElse
    <3>1. CASE t \in tables
      BY <1>2, <1>3, <3>1 DEF RunInv, FindsNothingElse
    <3>2. CASE t = Made(s, x)
      <4>1. x \in Relations(s) \ run'[s].todo
        BY <1>2, <1>3
      <4> QED
        BY <1>5, <3>2, <4>1
    <3> QED
      BY <1>6, <3>1, <3>2
  <2> QED
    BY <2>2, <2>5, <2>6 DEF RunInv
<1> QED
  BY <1>7, <1>8, <1>10, <1>11 DEF PreviewInv

LEMMA FailInv ==
  ASSUME PreviewInv, NEW s \in Session, Fail(s)
  PROVE  PreviewInv'
<1>1. PICK x \in Creating : At(s, x) /\ run' = [run EXCEPT ![s].failed = x]
                           /\ UNCHANGED <<files, schemas, tables, runs>>
  BY DEF Fail
<1>2. run[s] \in Create /\ RunInv(s) /\ run \in [Session -> Create \cup {Absent}]
  BY <1>1 DEF At, PreviewInv, TypeOK
<1>3. /\ run' \in [Session -> Create \cup {Absent}]
      /\ \A f \in {"schema", "dag", "chosen", "todo", "fresh", "undisturbed"} :
           run'[s][f] = run[s][f]
      /\ \A u \in Session \ {s} : run'[u] = run[u]
  BY <1>1, <1>2 DEF Create
<1>4. \A u \in Session : run'[u] # Absent => RunInv(u)'
  <2> SUFFICES ASSUME NEW u \in Session, run'[u] # Absent PROVE RunInv(u)'
    OBVIOUS
  <2>1. RunInv(u)
    BY <1>2, <1>3 DEF PreviewInv
  <2>2. /\ run'[u].schema = run[u].schema /\ run'[u].dag = run[u].dag
        /\ run'[u].chosen = run[u].chosen /\ run'[u].todo = run[u].todo
        /\ run'[u].fresh = run[u].fresh /\ run'[u].undisturbed = run[u].undisturbed
    BY <1>3
  <2> QED
    BY <1>1, <2>1, <2>2
      DEF RunInv, InOrder, FindsItsOwn, FindsNothingElse, Relations, Statements, Has
<1> QED
  BY <1>1, <1>3, <1>4 DEF PreviewInv, TypeOK, TablesKnown

LEMMA EndInv ==
  ASSUME PreviewInv, NEW s \in Session, End(s)
  PROVE  PreviewInv'
<1>1. run' = [run EXCEPT ![s] = Absent] /\ UNCHANGED <<files, schemas, tables, runs>>
  BY DEF End
<1>2. run' \in [Session -> Create \cup {Absent}]
      /\ \A u \in Session : run'[u] # Absent => run'[u] = run[u]
  BY <1>1 DEF PreviewInv, TypeOK
<1>3. \A u \in Session : run'[u] # Absent => RunInv(u)'
  <2> SUFFICES ASSUME NEW u \in Session, run'[u] # Absent PROVE RunInv(u)'
    OBVIOUS
  <2>1. run'[u] = run[u] /\ RunInv(u)
    BY <1>2 DEF PreviewInv
  <2> QED
    BY <1>1, <2>1
      DEF RunInv, InOrder, FindsItsOwn, FindsNothingElse, Relations, Statements, Has
<1> QED
  BY <1>1, <1>2, <1>3 DEF PreviewInv, TypeOK, TablesKnown

LEMMA CleanupInv ==
  ASSUME PreviewInv, NEW s \in Session, Cleanup(s)
  PROVE  PreviewInv'
<1>1. PICK p \in Schema : schemas' = schemas \ {p} /\ tables' = Without(p)
                         /\ run' = Disturb(s, p)
  BY DEF Cleanup
<1>2. files' = files /\ run[s] = Absent /\ TypeOK
  BY DEF Cleanup, PreviewInv
<1>3. run' \in [Session -> Create \cup {Absent}] /\ run'[s] = Absent /\ Elsewhere(s, p)
  BY <1>1, <1>2, DisturbTypes DEF Elsewhere
<1>4. OnlyIn(p)
  BY <1>1 DEF OnlyIn, Without
<1>5. \A u \in Session : run'[u] # Absent => RunInv(u)'
  BY <1>3, <1>4, OthersKeepInv
<1>6. TypeOK' /\ TablesKnown'
  BY <1>1, <1>2, <1>3 DEF PreviewInv, TypeOK, TablesKnown, Without
<1> QED
  BY <1>5, <1>6 DEF PreviewInv

LEMMA SameInv ==
  ASSUME PreviewInv, UNCHANGED <<schemas, tables, run>>, files' \in [Branch -> Files]
  PROVE  PreviewInv'
BY DEF PreviewInv, TypeOK, TablesKnown, RunInv, InOrder, FindsItsOwn, FindsNothingElse,
       Relations, Statements, Has

LEMMA NextInv == PreviewInv /\ [Next]_vars => PreviewInv'
<1> SUFFICES ASSUME PreviewInv, [Next]_vars PROVE PreviewInv'
  OBVIOUS
<1>1. CASE UNCHANGED vars
  BY <1>1, SameInv DEF vars, PreviewInv, TypeOK
<1>2. CASE Edit
  BY <1>2, SameInv DEF Edit, PreviewInv, TypeOK
<1>3. ASSUME NEW s \in Session,
             \/ BeginCreate(s) \/ DropSchema(s) \/ CreateSchema(s) \/ CreateRelation(s)
             \/ Fail(s) \/ End(s) \/ Cleanup(s)
      PROVE  PreviewInv'
  BY <1>3, BeginInv, DropInv, SchemaInv, CreateInv, FailInv, EndInv, CleanupInv
<1> QED
  BY <1>1, <1>2, <1>3 DEF Next

LEMMA PreviewInvariant == Spec => []PreviewInv
<1>1. Init => PreviewInv
  BY DEF Init, PreviewInv, TypeOK, TablesKnown
<1> QED
  BY <1>1, NextInv, PTL DEF Spec

-----------------------------------------------------------------------------
(* The variables of a preview are well typed.                              *)
THEOREM PreviewTypes == Spec => []TypeOK
<1>1. PreviewInv => TypeOK
  BY DEF PreviewInv
<1> QED
  BY <1>1, PreviewInvariant, PTL

(* SEC-03: whatever the files say and whoever shares the schema, a preview *)
(* table reads no table of production that the preview of the same files   *)
(* holds as well, but for what CTEs and nested subqueries name.            *)
THEOREM ReadsStayInside == Spec => []PreviewsReadPreviews
<1>1. PreviewInv => PreviewsReadPreviews
  <2> SUFFICES ASSUME PreviewInv, NEW t \in tables, NEW beside \in tables,
                      t.schema = beside.schema, t.dag = beside.dag,
                      t.of \in Tables(t.dag) \ t.dag.sources,
                      NEW r \in t.reads \ t.dag.query[t.of].nested,
                      r.schema # t.schema
               PROVE  r # beside.of /\ r # [schema |-> "public", name |-> beside.name]
    BY DEF PreviewsReadPreviews
  <2>1. PICK from \in t.dag.query[t.of].from : r = Rewrite(t.dag, t.schema, from)
    BY DEF PreviewInv, TablesKnown, Rewritten
  <2>2. /\ r = from /\ from \notin Managed(t.dag)
        /\ ~(from.schema = "public" /\ \E m \in Managed(t.dag) : m.name = from.name)
    BY <2>1 DEF Rewrite
  <2>3. beside.of \in Managed(t.dag) /\ beside.name = beside.of.name
    BY DEF PreviewInv, TablesKnown
  <2> QED
    BY <2>2, <2>3
<1> QED
  BY <1>1, PreviewInvariant, PTL

(* --recreate: in a schema nobody else works on, the preview is exactly    *)
(* that of the files the run has read.                                     *)
THEOREM RecreatedIsOfFiles == Spec => []RecreatedIsCurrent
<1>1. PreviewInv => RecreatedIsCurrent
  <2> SUFFICES ASSUME PreviewInv, NEW s \in Session, Succeeded(s),
                      run[s].fresh, run[s].undisturbed, ToldApart(run[s].dag)
               PROVE  LET held == {t \in tables : t.schema = run[s].schema} IN
                      /\ {t.of : t \in held} = run[s].dag.sources \cup run[s].chosen
                      /\ \A t \in held : t.dag = run[s].dag
    BY DEF RecreatedIsCurrent
  <2> DEFINE held == {t \in tables : t.schema = run[s].schema}
  <2>1. run[s] \in Create /\ RunInv(s) /\ run[s].todo = {}
    BY DEF Succeeded, PreviewInv, TypeOK
  <2>2. run[s].dag \in Files /\ run[s].fresh \in BOOLEAN
        /\ run[s].chosen \subseteq Tables(run[s].dag)
    BY <2>1 DEF Create, RunInv, InOrder
  <2>3. \A t \in held : t.dag = run[s].dag /\ \E z \in Relations(s) : z.of = t.of
    BY <2>1 DEF RunInv, FindsNothingElse
  <2>4. \A t \in held : t.of \in run[s].dag.sources \cup run[s].chosen
    BY <2>1, <2>3, RelationsOfRun DEF RunInv
  <2>5. \A w \in run[s].dag.sources \cup run[s].chosen : \E t \in held : t.of = w
    <3> SUFFICES ASSUME NEW w \in run[s].dag.sources \cup run[s].chosen
                 PROVE  \E t \in held : t.of = w
      OBVIOUS
    <3>1. PICK z \in Relations(s) : z.of = w
      <4>1. CASE w \in run[s].dag.sources
        BY <2>1, <4>1, RelationsOfRun DEF RunInv
      <4>2. CASE w \in run[s].chosen
        BY <2>1, <4>2, RelationsOfRun DEF RunInv
      <4> QED
        BY <4>1, <4>2
    <3>2. Has(run[s].schema, w.name)
      BY <2>1, <3>1 DEF RunInv, FindsItsOwn
    <3>3. PICK t \in held : t.name = w.name
      BY <3>2 DEF Has
    <3>4. t.of \in Managed(run[s].dag) /\ t.of.name = w.name
      BY <2>3, <3>3 DEF PreviewInv, TablesKnown
    <3>5. w \in Managed(run[s].dag)
      BY <2>2 DEF Managed
    <3> QED
      BY <3>3, <3>4, <3>5 DEF ToldApart
  <2> QED
    BY <2>3, <2>4, <2>5
<1> QED
  BY <1>1, PreviewInvariant, PTL

-----------------------------------------------------------------------------
(* A create that is refused although it has the schema to itself.          *)
LEMMA RefusalExplained ==
  ASSUME PreviewInv, NEW s \in Session, NEW x \in Creating, At(s, x), Refused(s, x),
         run[s].undisturbed
  PROVE  IF x.op = "Sample" THEN x.of \notin Production
         ELSE \/ \E u \in Named(run[s].dag, x.of) :
                   u \notin run[s].chosen \/ ~LoadedBefore(run[s].dag, u, x.of)
              \/ ~(LeftAlone(run[s].dag, run[s].schema, x.of) \subseteq Production)
<1> DEFINE dag == run[s].dag
           schema == run[s].schema
<1>1. run[s] \in Create /\ RunInv(s) /\ x \in run[s].todo
      /\ \A y \in run[s].todo : ~Precedes(dag, y, x)
  BY DEF At, PreviewInv, TypeOK
<1>2. schema \in schemas /\ \A z \in Relations(s) \ run[s].todo : Has(schema, z.of.name)
  BY <1>1, DueInOrder DEF RunInv, FindsItsOwn
<1>3. PICK r \in Inputs(s, x) : ~Exists(r)
  BY <1>2 DEF Refused
<1>4. r \notin Production
  BY <1>3, ProductionAssumption DEF Exists
<1>5. CASE x.op = "Sample"
  BY <1>3, <1>4, <1>5 DEF Inputs
<1>6. CASE x.op # "Sample"
  <2>1. r \in Rewritten(dag, schema, x.of) /\ x.op = "CreateTable"
    BY <1>3, <1>6, Kinds DEF Inputs
  <2>2. CASE r \in LeftAlone(dag, schema, x.of)
    BY <1>4, <1>6, <2>2
  <2>3. CASE r \notin LeftAlone(dag, schema, x.of)
    <3>1. PICK from \in dag.query[x.of].from : r = Rewrite(dag, schema, from) /\ r # from
      BY <2>1, <2>3 DEF Rewritten, LeftAlone
    <3>2. r = [schema |-> schema, name |-> from.name]
      BY <3>1 DEF Rewrite
    <3>3. PICK m \in Managed(dag) :
            m = from \/ (from.schema = "public" /\ m.name = from.name)
      BY <3>1 DEF Rewrite
    <3>4. ~Has(schema, m.name)
      <4>1. schema \in Schema
        BY <1>1 DEF Create
      <4> QED
        BY <1>3, <3>2, <3>3, <4>1 DEF Exists
    <3>5. m \notin dag.sources
      <4> SUFFICES ASSUME m \in dag.sources PROVE FALSE
        OBVIOUS
      <4> DEFINE z == [op |-> "Sample", of |-> m]
      <4>1. z \in Relations(s)
        BY <1>1, RelationsOfRun DEF RunInv
      <4>2. Precedes(dag, z, x)
        BY <2>1 DEF Precedes
      <4>3. z \notin run[s].todo
        BY <1>1, <4>2
      <4> QED
        BY <1>2, <3>4, <4>1, <4>3
    <3>6. m \in Named(dag, x.of)
      BY <3>3, <3>5 DEF Managed, Named
    <3>7. m \notin run[s].chosen \/ ~LoadedBefore(dag, m, x.of)
      <4> SUFFICES ASSUME m \in run[s].chosen, LoadedBefore(dag, m, x.of) PROVE FALSE
        OBVIOUS
      <4> DEFINE z == [op |-> "CreateTable", of |-> m]
      <4>1. z \in Relations(s)
        BY <1>1, RelationsOfRun DEF RunInv
      <4>2. Precedes(dag, z, x)
        BY <2>1 DEF Precedes
      <4>3. z \notin run[s].todo
        BY <1>1, <4>2
      <4> QED
        BY <1>2, <3>4, <4>1, <4>3
    <3> QED
      BY <1>6, <3>6, <3>7
  <2> QED
    BY <2>2, <2>3
<1> QED
  BY <1>5, <1>6

(* What is said of a failed run is said of what the run alone knows.       *)
Explained(r) ==
  r # Absent => (r.failed # Absent /\ r.undisturbed =>
    IF r.failed.op = "Sample" THEN r.failed.of \notin Production
    ELSE \/ \E u \in Named(r.dag, r.failed.of) :
              u \notin r.chosen \/ ~LoadedBefore(r.dag, u, r.failed.of)
         \/ ~(LeftAlone(r.dag, r.schema, r.failed.of) \subseteq Production))

LEMMA FailuresByRun == FailuresAreExplained <=> \A s \in Session : Explained(run[s])
BY DEF FailuresAreExplained, Explained

LEMMA ExplainedElsewhere ==
  ASSUME NEW s \in Session, NEW schema, Elsewhere(s, schema), FailuresAreExplained,
         NEW u \in Session \ {s}
  PROVE  Explained(run'[u])
<1> SUFFICES ASSUME run'[u] # Absent, run'[u].failed # Absent, run'[u].undisturbed
             PROVE  Explained(run'[u])
  BY DEF Explained
<1>1. run[u] # Absent
  BY DEF Elsewhere
<1>2. run[u].schema # schema /\ run[u].undisturbed
  BY <1>1 DEF Elsewhere
<1>3. /\ run'[u].failed = run[u].failed /\ run'[u].dag = run[u].dag
      /\ run'[u].chosen = run[u].chosen /\ run'[u].schema = run[u].schema
  BY <1>1 DEF Elsewhere
<1>4. Explained(run[u])
  BY FailuresByRun
<1> QED
  BY <1>1, <1>2, <1>3, <1>4 DEF Explained

LEMMA ExplainedStep ==
  ASSUME PreviewInv, FailuresAreExplained, [Next]_vars
  PROVE  FailuresAreExplained'
<1> SUFFICES ASSUME NEW u \in Session PROVE Explained(run'[u])
  BY DEF FailuresAreExplained, Explained
<1>1. Explained(run[u]) /\ run \in [Session -> Create \cup {Absent}] /\ TypeOK
  BY FailuresByRun DEF PreviewInv, TypeOK
<1>2. CASE UNCHANGED vars \/ Edit
  BY <1>1, <1>2 DEF vars, Edit
<1>3. ASSUME NEW s \in Session, BeginCreate(s) PROVE Explained(run'[u])
  <2>1. PICK b \in Branch, recreate \in BOOLEAN : \E chosen \in Choices(files[b]) :
          run' = [run EXCEPT ![s] =
             [schema |-> SchemaOf[b], dag |-> files[b], chosen |-> chosen,
              todo |-> Statements(files[b], recreate, chosen), failed |-> Absent,
              fresh |-> recreate, undisturbed |-> TRUE]]
    BY <1>3 DEF BeginCreate
  <2>2. CASE u = s
    BY <1>1, <2>1, <2>2 DEF Explained
  <2>3. CASE u # s
    BY <1>1, <2>1, <2>3
  <2> QED
    BY <2>2, <2>3
<1>4. ASSUME NEW s \in Session, NEW x, At(s, x), Proceed(s, x) PROVE Explained(run'[u])
  <2>1. run'[s].failed = run[s].failed /\ run[s].failed = Absent
        /\ Elsewhere(s, run[s].schema)
    BY <1>4, ProceedTypes DEF At
  <2>2. CASE u = s
    BY <2>1, <2>2 DEF Explained
  <2>3. CASE u # s
    BY <2>1, <2>3, ExplainedElsewhere
  <2> QED
    BY <2>2, <2>3
<1>5. ASSUME NEW s \in Session, Fail(s) PROVE Explained(run'[u])
  <2>1. PICK x \in Creating : At(s, x) /\ Refused(s, x) /\ run' = [run EXCEPT ![s].failed = x]
    BY <1>5 DEF Fail
  <2>2. CASE u = s
    <3>1. run[s] \in Create
      BY <1>1, <2>1 DEF At
    <3>2. /\ run'[s].failed = x /\ run'[s].dag = run[s].dag
          /\ run'[s].chosen = run[s].chosen /\ run'[s].schema = run[s].schema
          /\ run'[s].undisturbed = run[s].undisturbed
      BY <1>1, <2>1, <3>1 DEF Create
    <3> QED
      BY <2>1, <2>2, <3>2, RefusalExplained DEF Explained
  <2>3. CASE u # s
    BY <1>1, <2>1, <2>3
  <2> QED
    BY <2>2, <2>3
<1>6. ASSUME NEW s \in Session, End(s) PROVE Explained(run'[u])
  <2>1. run'[u] = Absent \/ run'[u] = run[u]
    BY <1>1, <1>6 DEF End
  <2> QED
    BY <1>1, <2>1 DEF Explained
<1>7. ASSUME NEW s \in Session, Cleanup(s) PROVE Explained(run'[u])
  <2>1. PICK p \in Schema : run' = Disturb(s, p)
    BY <1>7 DEF Cleanup
  <2>2. Elsewhere(s, p) /\ run'[s] = run[s]
    BY <1>1, <2>1, DisturbTypes DEF Elsewhere
  <2>3. CASE u = s
    BY <1>1, <2>2, <2>3
  <2>4. CASE u # s
    BY <2>2, <2>4, ExplainedElsewhere
  <2> QED
    BY <2>3, <2>4
<1>8. ASSUME NEW s \in Session, DropSchema(s) \/ CreateSchema(s) \/ CreateRelation(s)
      PROVE  Explained(run'[u])
  BY <1>4, <1>8 DEF DropSchema, CreateSchema, CreateRelation
<1> QED
  BY <1>2, <1>3, <1>5, <1>6, <1>7, <1>8 DEF Next

(* A create with the schema to itself fails for the reasons that are known *)
(* and for no other, whatever the files and their order.                   *)
THEOREM FailuresHaveReasons == Spec => []FailuresAreExplained
<1>1. Init => FailuresAreExplained
  BY DEF Init, FailuresAreExplained
<1>2. PreviewInv /\ FailuresAreExplained /\ [Next]_vars => FailuresAreExplained'
  BY ExplainedStep
<1> QED
  BY <1>1, <1>2, PreviewInvariant, PTL DEF Spec

-----------------------------------------------------------------------------
(* Induction over the natural numbers, for a set instead of a predicate:   *)
(* the library's theorem takes an operator, which the provers cannot       *)
(* instantiate.                                                            *)
LEMMA Least ==
  ASSUME NEW T \in SUBSET Nat, T # {}
  PROVE  \E m \in T : \A k \in T : m <= k
<1> DEFINE R == {p \in Nat \X Nat : p[1] < p[2]}
<1>1. IsWellFoundedOn(R, Nat)
  BY NatLessThanWellFounded, IsWellFoundedOnSubrelation DEF OpToRel
<1>2. PICK m \in T : \A k \in T : <<k, m>> \notin R
  BY <1>1, WFMin
<1>3. ASSUME NEW k \in T, k < m PROVE <<k, m>> \in R
  BY <1>3
<1> HIDE DEF R
<1>4. \A k \in T : ~(k < m)
  BY <1>2, <1>3
<1> QED
  BY <1>4

LEMMA Induction ==
  ASSUME NEW P \in SUBSET Nat, 0 \in P, \A n \in P : n + 1 \in P
  PROVE  P = Nat
<1>1. ASSUME Nat \ P # {} PROVE FALSE
  <2>1. PICK m \in Nat \ P : \A k \in Nat \ P : m <= k
    BY <1>1, Least
  <2>2. m # 0 /\ m - 1 \in Nat
    BY <2>1
  <2>3. m - 1 \in P
    BY <2>1, <2>2
  <2> QED
    BY <2>1, <2>2, <2>3
<1> QED
  BY <1>1

(* x leads to y over n members of S, each next to the one before.          *)
Trail(S, next, x, y, n) ==
  \E p \in [1 .. n -> S] :
    p[1] = x /\ p[n] = y /\ \A i \in 1 .. n - 1 : p[i + 1] \in next[p[i]]

(* Trails of one member, and one member longer; and read backwards.        *)
LEMMA TrailStarts ==
  ASSUME NEW S, NEW next, NEW x \in S, NEW y
  PROVE  Trail(S, next, x, y, 1) <=> y = x
<1>1. Trail(S, next, x, y, 1) => y = x
  BY DEF Trail
<1> DEFINE p == [i \in 1 .. 1 |-> x]
<1>2. p \in [1 .. 1 -> S] /\ p[1] = x /\ \A i \in 1 .. 1 - 1 : p[i + 1] \in next[p[i]]
  OBVIOUS
<1> HIDE DEF p
<1>3. Trail(S, next, x, x, 1)
  BY <1>2 DEF Trail
<1> QED
  BY <1>1, <1>3

LEMMA TrailGrows ==
  ASSUME NEW S, NEW next \in [S -> SUBSET S], NEW x \in S, NEW y, NEW n \in Nat \ {0}
  PROVE  Trail(S, next, x, y, n + 1) <=> \E z \in S : Trail(S, next, x, z, n) /\ y \in next[z]
<1>1. ASSUME Trail(S, next, x, y, n + 1)
      PROVE  \E z \in S : Trail(S, next, x, z, n) /\ y \in next[z]
  <2>1. PICK p \in [1 .. n + 1 -> S] :
          p[1] = x /\ p[n + 1] = y /\ \A i \in 1 .. n : p[i + 1] \in next[p[i]]
    BY <1>1 DEF Trail
  <2> DEFINE q == [i \in 1 .. n |-> p[i]]
  <2>2. q \in [1 .. n -> S] /\ q[1] = x /\ q[n] = p[n]
        /\ \A i \in 1 .. n - 1 : q[i + 1] \in next[q[i]]
    BY <2>1
  <2>3. Trail(S, next, x, p[n], n)
    BY <2>2 DEF Trail
  <2> QED
    BY <2>1, <2>3
<1>2. ASSUME NEW z \in S, Trail(S, next, x, z, n), y \in next[z]
      PROVE  Trail(S, next, x, y, n + 1)
  <2>1. PICK p \in [1 .. n -> S] :
          p[1] = x /\ p[n] = z /\ \A i \in 1 .. n - 1 : p[i + 1] \in next[p[i]]
    BY <1>2 DEF Trail
  <2> DEFINE q == [i \in 1 .. n + 1 |-> IF i = n + 1 THEN y ELSE p[i]]
  <2>2. q \in [1 .. n + 1 -> S] /\ q[1] = x /\ q[n + 1] = y
    BY <1>2, <2>1
  <2>3. ASSUME NEW i \in 1 .. n PROVE q[i + 1] \in next[q[i]]
    <3>1. CASE i = n
      BY <1>2, <2>1, <3>1
    <3>2. CASE i # n
      BY <2>1, <3>2
    <3> QED
      BY <3>1, <3>2
  <2>4. (n + 1) - 1 = n
    OBVIOUS
  <2> HIDE DEF q
  <2> QED
    BY <2>2, <2>3, <2>4 DEF Trail
<1> QED
  BY <1>1, <1>2

LEMMA TrailTurns ==
  ASSUME NEW S, NEW next \in [S -> SUBSET S], NEW back \in [S -> SUBSET S],
         \A s, t \in S : s \in next[t] <=> t \in back[s],
         NEW x, NEW y, NEW n \in Nat \ {0}, Trail(S, next, x, y, n)
  PROVE  Trail(S, back, y, x, n)
<1>1. PICK p \in [1 .. n -> S] :
        p[1] = x /\ p[n] = y /\ \A i \in 1 .. n - 1 : p[i + 1] \in next[p[i]]
  BY DEF Trail
<1> DEFINE q == [i \in 1 .. n |-> p[(n + 1) - i]]
<1>2. q \in [1 .. n -> S] /\ q[1] = y /\ q[n] = x
  BY <1>1
<1>3. ASSUME NEW i \in 1 .. n - 1 PROVE q[i + 1] \in back[q[i]]
  <2>1. n - i \in 1 .. n - 1 /\ (n - i) + 1 = (n + 1) - i /\ (n + 1) - (i + 1) = n - i
    OBVIOUS
  <2>2. p[(n + 1) - i] \in next[p[n - i]]
    BY <1>1, <2>1
  <2>3. q[i + 1] = p[n - i] /\ q[i] = p[(n + 1) - i]
    BY <2>1
  <2>4. p[n - i] \in S /\ p[(n + 1) - i] \in S
    BY <1>1, <2>1
  <2> QED
    BY <2>2, <2>3, <2>4
<1> HIDE DEF q
<1> QED
  BY <1>2, <1>3 DEF Trail

(* A trail that is longer than there are members passes one twice.         *)
LEMMA TrailShortens ==
  ASSUME NEW S, IsFiniteSet(S), NEW next, NEW x, NEW y, NEW n \in Nat,
         Cardinality(S) < n, Trail(S, next, x, y, n)
  PROVE  \E m \in 1 .. n - 1 : Trail(S, next, x, y, m)
<1>1. PICK p \in [1 .. n -> S] :
        p[1] = x /\ p[n] = y /\ \A i \in 1 .. n - 1 : p[i + 1] \in next[p[i]]
  BY DEF Trail
<1>2. IsFiniteSet(1 .. n) /\ Cardinality(1 .. n) = n
  BY FS_Interval, FS_CardinalityType
<1>3. \E i, j \in 1 .. n : i # j /\ p[i] = p[j]
  BY <1>1, <1>2, FS_PigeonHole
<1>4. PICK i, j \in 1 .. n : i < j /\ p[i] = p[j]
  BY <1>3
<1> DEFINE m == n - (j - i)
           q == [k \in 1 .. m |-> IF k <= i THEN p[k] ELSE p[k + (j - i)]]
<1>5. m \in 1 .. n - 1
  BY <1>4
<1>6. q \in [1 .. m -> S] /\ q[1] = x
  BY <1>1, <1>4, <1>5
<1>7. q[m] = y
  <2>1. CASE j = n
    BY <1>1, <1>4, <2>1
  <2>2. CASE j # n
    BY <1>1, <1>4, <2>2
  <2> QED
    BY <2>1, <2>2
<1>8. ASSUME NEW k \in 1 .. m - 1 PROVE q[k + 1] \in next[q[k]]
  <2>1. CASE k < i
    BY <1>1, <1>4, <2>1
  <2>2. CASE k = i
    BY <1>1, <1>4, <2>2
  <2>3. CASE k > i
    BY <1>1, <1>4, <2>3
  <2> QED
    BY <2>1, <2>2, <2>3
<1> HIDE DEF m, q
<1> QED
  BY <1>5, <1>6, <1>7, <1>8 DEF Trail

(* What Reached computes, round by round.                                  *)
Search(next, x) ==
  CHOOSE found :
    found = [n \in Nat |-> IF n = 0 THEN {x}
                           ELSE found[n - 1] \cup (UNION {next[t] : t \in found[n - 1]})]

(* Each round finds the trails that are one member longer. That the        *)
(* recursive function exists is shown by the trails themselves, which      *)
(* satisfy its equation.                                                   *)
LEMMA SearchFindsTrails ==
  ASSUME NEW S, NEW next \in [S -> SUBSET S], NEW x \in S, NEW L \in Nat
  PROVE  Search(next, x)[L] = {y \in S : \E m \in 1 .. L + 1 : Trail(S, next, x, y, m)}
<1> DEFINE G(f) == [n \in Nat |-> IF n = 0 THEN {x}
                                   ELSE f[n - 1] \cup (UNION {next[t] : t \in f[n - 1]})]
           found == Search(next, x)
           g == [n \in Nat |-> {y \in S : \E m \in 1 .. n + 1 : Trail(S, next, x, y, m)}]
<1>1. g[0] = {x}
  BY TrailStarts
<1>2. ASSUME NEW n \in Nat \ {0}
      PROVE  g[n] = g[n - 1] \cup UNION {next[t] : t \in g[n - 1]}
  <2>1. ASSUME NEW y \in g[n], y \notin g[n - 1]
        PROVE  y \in UNION {next[t] : t \in g[n - 1]}
    <3>1. PICK m \in 1 .. n + 1 : Trail(S, next, x, y, m)
      BY <2>1
    <3>2. m = n + 1
      BY <2>1, <3>1
    <3>3. PICK z \in S : Trail(S, next, x, z, n) /\ y \in next[z]
      BY <3>1, <3>2, TrailGrows
    <3>4. z \in g[n - 1]
      BY <3>3
    <3> QED
      BY <3>3, <3>4
  <2>2. g[n - 1] \subseteq g[n]
    OBVIOUS
  <2>3. ASSUME NEW t \in g[n - 1], NEW y \in next[t] PROVE y \in g[n]
    <3>1. PICK m \in 1 .. n : t \in S /\ Trail(S, next, x, t, m)
      BY <2>3
    <3>2. Trail(S, next, x, y, m + 1)
      BY <2>3, <3>1, TrailGrows
    <3> QED
      BY <2>3, <3>1, <3>2
  <2> HIDE DEF g
  <2> QED
    BY <2>1, <2>2, <2>3
<1>3. g = G(g)
  <2>1. g = [n \in Nat |-> g[n]] /\ \A n \in Nat : n # 0 => n \in Nat \ {0}
    OBVIOUS
  <2> HIDE DEF g
  <2>2. \A n \in Nat : g[n] = G(g)[n]
    BY <1>1, <1>2
  <2> QED
    BY <2>1, <2>2
<1>4. found = G(found)
  <2> HIDE DEF g
  <2> QED
    BY <1>3 DEF Search
<1> HIDE DEF found
<1> DEFINE P == {n \in Nat : found[n] = g[n]}
<1>5. P = Nat
  <2> HIDE DEF g
  <2>1. 0 \in P
    BY <1>1, <1>4
  <2>2. ASSUME NEW n \in P PROVE n + 1 \in P
    <3>1. n + 1 \in Nat /\ n + 1 # 0 /\ (n + 1) - 1 = n
      OBVIOUS
    <3>2. found[n + 1] = found[n] \cup UNION {next[t] : t \in found[n]}
      BY <1>4, <3>1
    <3>3. g[n + 1] = g[n] \cup UNION {next[t] : t \in g[n]}
      BY <1>2, <3>1
    <3> QED
      BY <3>1, <3>2, <3>3
  <2> HIDE DEF P
  <2>3. P \in SUBSET Nat
    BY DEF P
  <2> QED
    BY <2>1, <2>2, <2>3, Induction
<1> QED
  BY <1>5 DEF found

(* A list has at most as many members as entries.                          *)
LEMMA TablesAreFew ==
  ASSUME NEW dag \in Files
  PROVE  /\ Len(dag.order) \in Nat /\ IsFiniteSet(Tables(dag))
         /\ Cardinality(Tables(dag)) <= Len(dag.order)
<1>1. dag.order \in Seq(Relation)
  BY FilesAssumption
<1> DEFINE f == [i \in 1 .. Len(dag.order) |-> dag.order[i]]
<1>2. Len(dag.order) \in Nat /\ DOMAIN dag.order = 1 .. Len(dag.order)
  BY <1>1
<1>3. f \in Surjection(1 .. Len(dag.order), Tables(dag))
  BY <1>2 DEF Surjection, Tables
<1>4. /\ IsFiniteSet(1 .. Len(dag.order))
      /\ Cardinality(1 .. Len(dag.order)) = Len(dag.order)
  BY <1>2, FS_Interval
<1>5. IsFiniteSet(Tables(dag)) /\ Cardinality(Tables(dag)) <= Len(dag.order)
  BY <1>3, <1>4, FS_Surjection
<1> QED
  BY <1>2, <1>5

(* The search ends after as many rounds as there are tables, and is right  *)
(* to: what a further round could find has a shorter trail.                *)
LEMMA ReachedByTrails ==
  ASSUME NEW dag \in Files, NEW next \in [Tables(dag) -> SUBSET Tables(dag)],
         NEW x \in Tables(dag), NEW y \in Tables(dag)
  PROVE  y \in Reached(dag, next, x) <=>
           \E n \in 1 .. Len(dag.order) : Trail(Tables(dag), next, x, y, n)
<1>1. Len(dag.order) \in Nat
  BY TablesAreFew
<1>2. Reached(dag, next, x) =
        {t \in Tables(dag) : \E n \in 1 .. Len(dag.order) + 1 : Trail(Tables(dag), next, x, t, n)}
  <2>1. Reached(dag, next, x) = Search(next, x)[Len(dag.order)]
    BY DEF Reached, Search
  <2> QED
    BY <1>1, <2>1, SearchFindsTrails
<1>3. ASSUME Trail(Tables(dag), next, x, y, Len(dag.order) + 1)
      PROVE  \E n \in 1 .. Len(dag.order) : Trail(Tables(dag), next, x, y, n)
  <2>1. IsFiniteSet(Tables(dag)) /\ Cardinality(Tables(dag)) \in Nat
        /\ Cardinality(Tables(dag)) <= Len(dag.order)
    BY TablesAreFew, FS_CardinalityType
  <2>2. Cardinality(Tables(dag)) < Len(dag.order) + 1
        /\ (Len(dag.order) + 1) - 1 = Len(dag.order) /\ Len(dag.order) + 1 \in Nat
    BY <1>1, <2>1
  <2>3. \E n \in 1 .. (Len(dag.order) + 1) - 1 : Trail(Tables(dag), next, x, y, n)
    BY <1>3, <2>1, <2>2, TrailShortens
  <2> QED
    BY <2>2, <2>3
<1>4. \A n \in 1 .. Len(dag.order) + 1 : n \in 1 .. Len(dag.order) \/ n = Len(dag.order) + 1
  BY <1>1
<1>5. \A n \in 1 .. Len(dag.order) : n \in 1 .. Len(dag.order) + 1
  BY <1>1
<1> QED
  BY <1>2, <1>3, <1>4, <1>5

(* The paths of the property are the trails over DependsOn.                *)
LEMMA PathsAreTrails ==
  ASSUME NEW dag \in Files, NEW x, NEW y
  PROVE  LET next == [t \in Tables(dag) |-> DependsOn(dag, t)]
         IN (\E path \in UNION {[1 .. n -> Tables(dag)] : n \in 1 .. Len(dag.order)} :
               /\ path[1] = x /\ path[Len(path)] = y
               /\ \A i \in 1 .. Len(path) - 1 : path[i + 1] \in DependsOn(dag, path[i]))
            <=> \E n \in 1 .. Len(dag.order) : Trail(Tables(dag), next, x, y, n)
<1> DEFINE next == [t \in Tables(dag) |-> DependsOn(dag, t)]
           N == Len(dag.order)
           T == Tables(dag)
           Goes(path) == /\ path[1] = x /\ path[Len(path)] = y
                         /\ \A i \in 1 .. Len(path) - 1 : path[i + 1] \in DependsOn(dag, path[i])
<1>1. N \in Nat
  BY TablesAreFew
<1>2. ASSUME NEW n \in 1 .. N, NEW p \in [1 .. n -> T]
      PROVE  Goes(p) <=> /\ p[1] = x /\ p[n] = y
                         /\ \A i \in 1 .. n - 1 : p[i + 1] \in next[p[i]]
  <2>1. n \in Nat
    BY <1>1
  <2>2. p \in Seq(T)
    BY <2>1, <1>2 DEF Seq
  <2>3. DOMAIN p = 1 .. n /\ DOMAIN p = 1 .. Len(p) /\ Len(p) \in Nat
    BY <1>2, <2>2
  <2>4. Len(p) = n
    BY <2>1, <2>3
  <2>5. \A i \in 1 .. n - 1 : p[i] \in T /\ next[p[i]] = DependsOn(dag, p[i])
    BY <1>2, <2>1
  <2> HIDE DEF next, T
  <2> QED
    BY <2>4, <2>5
<1>3. (\E n \in 1 .. N : Trail(T, next, x, y, n)) <=> \E n \in 1 .. N : \E p \in [1 .. n -> T] : Goes(p)
  <2> HIDE DEF next, T, N, Goes
  <2> QED
    BY <1>2 DEF Trail
<1>4. (\E p \in UNION {[1 .. n -> T] : n \in 1 .. N} : Goes(p))
        <=> \E n \in 1 .. N : \E p \in [1 .. n -> T] : Goes(p)
  <2> HIDE DEF next, T, N, Goes
  <2> QED
    OBVIOUS
<1> QED
  BY <1>3, <1>4

(* Whatever the files, the subgraph of a table is itself, all it reads and *)
(* all that read it, directly or not: as many rounds as there are tables   *)
(* are enough, and no round goes astray.                                   *)
THEOREM SubgraphsAreTransitive == Spec => []SubgraphIsTransitive
<1>1. TypeOK => SubgraphIsTransitive
  <2> SUFFICES ASSUME TypeOK, NEW b \in Branch,
                      NEW anchor \in Tables(files[b]), NEW t \in Tables(files[b])
               PROVE  LET dag == files[b]
                          Path(x, y) ==
                            \E path \in UNION {[1 .. n -> Tables(dag)] : n \in 1 .. Len(dag.order)} :
                              /\ path[1] = x /\ path[Len(path)] = y
                              /\ \A i \in 1 .. Len(path) - 1 :
                                   path[i + 1] \in DependsOn(dag, path[i])
                      IN t \in CollectSubgraph(dag, anchor) <=> Path(t, anchor) \/ Path(anchor, t)
    BY DEF SubgraphIsTransitive
  <2> DEFINE dag == files[b]
             down == [u \in Tables(dag) |-> DependsOn(dag, u)]
             up == [u \in Tables(dag) |-> Readers(dag, u)]
             Leads(next, x, y) == \E n \in 1 .. Len(dag.order) : Trail(Tables(dag), next, x, y, n)
  <2>1. dag \in Files
    BY DEF TypeOK
  <2>2. down \in [Tables(dag) -> SUBSET Tables(dag)] /\ up \in [Tables(dag) -> SUBSET Tables(dag)]
        /\ \A s, u \in Tables(dag) : s \in down[u] <=> u \in up[s]
    BY DEF DependsOn, Readers
  <2>3. t \in CollectSubgraph(dag, anchor) <=> Leads(up, anchor, t) \/ Leads(down, anchor, t)
    BY <2>1, <2>2, ReachedByTrails DEF CollectSubgraph, Descendants, Ancestors
  <2>4. Leads(up, anchor, t) <=> Leads(down, t, anchor)
    <3>1. Len(dag.order) \in Nat
      BY <2>1, TablesAreFew
    <3>2. \A n \in 1 .. Len(dag.order) : n \in Nat \ {0}
      BY <3>1
    <3> HIDE DEF down, up, dag
    <3>3. \A n \in 1 .. Len(dag.order) :
            Trail(Tables(dag), up, anchor, t, n) => Trail(Tables(dag), down, t, anchor, n)
      BY <2>2, <3>2, TrailTurns
    <3>4. \A n \in 1 .. Len(dag.order) :
            Trail(Tables(dag), down, t, anchor, n) => Trail(Tables(dag), up, anchor, t, n)
      BY <2>2, <3>2, TrailTurns
    <3> QED
      BY <3>3, <3>4
  <2> DEFINE Path(x, y) ==
               \E path \in UNION {[1 .. n -> Tables(dag)] : n \in 1 .. Len(dag.order)} :
                 /\ path[1] = x /\ path[Len(path)] = y
                 /\ \A i \in 1 .. Len(path) - 1 : path[i + 1] \in DependsOn(dag, path[i])
  <2>5. \A x, y : Path(x, y) <=> Leads(down, x, y)
    BY <2>1, PathsAreTrails
  <2>6. t \in CollectSubgraph(dag, anchor) <=> Path(t, anchor) \/ Path(anchor, t)
    <3> HIDE DEF Path, Leads, down, up, dag
    <3> QED
      BY <2>3, <2>4, <2>5
  <2> QED
    BY <2>6
<1> QED
  BY <1>1, PreviewTypes, PTL

=============================================================================
