----------------------------- MODULE MCExecutor -----------------------------
(***************************************************************************)
(* Instances of the executor for TLC: three stream tables, plans from the  *)
(* planner, and the desired DAGs and command lines the runs choose from.   *)
(***************************************************************************)
EXTENDS ExecutorProps, Planner, TLC

CONSTANTS a, b, c, r1, r2, r3

Column(e) == [expr |-> e, alias |-> e]

Text(columns, reads) ==
  [shape |-> <<"from", reads>>, columns |-> columns, rest |-> "", reads |-> reads]

QA     == Text(<<Column("x")>>, {})
QWider == Text(<<Column("x"), Column("y")>>, {})
QOther == Text(<<Column("y")>>, {})
QB     == Text(<<Column("x")>>, {a})

MCQuery == {QA, QWider, QOther, QB}
TwoOrder == <<a, b>>
OneOrder == <<a>>
AcOrder == <<a, c>>

Over(query, mode) ==
  [query |-> query, schedule |-> "1m", refresh |-> mode, cdc |-> None]

Dag(sa, sb, sc) ==
  [t \in Table |-> CASE t = a -> sa [] t = b -> sb [] t = c -> sc]

(* a is IMMEDIATE and is to be rebuilt, b to be created on top of it, and c *)
(* gets a column, in place.                                                *)
Before == Dag(Over(QA, "IMMEDIATE"), Absent, Over(QA, "FULL"))
After  == Dag(Over(QOther, "IMMEDIATE"), Over(QB, "FULL"), Over(QWider, "FULL"))

(* For the runs that interleave: a is to be created.                       *)
Alone(sa)   == [t \in Table |-> sa]
Nothing     == Alone(Absent)
JustA       == Alone(Over(QA, "FULL"))

ToAfter        == {After}
ToJustA        == {JustA}

CommandLine(resume, planFile) ==
  [resume |-> resume, planFile |-> planFile, forceRetry |-> None, forceSkip |-> None]

Fresh       == {CommandLine(FALSE, FALSE)}
ResumeFile  == {CommandLine(TRUE, TRUE)}
Replanned   == {CommandLine(TRUE, FALSE)}
AnyFile     == {CommandLine(FALSE, TRUE)} \cup ResumeFile
FreshOrResumed == Fresh \cup Replanned

(* A resumed run that executes the create (step 2) again and skips the     *)
(* backfill (step 3).                                                      *)
FreshOrForced == Fresh \cup
  {[CommandLine(TRUE, TRUE) EXCEPT !.forceRetry = 2, !.forceSkip = 3]}

RunSymmetry == Permutations(Run)

(* The plans of these instances would get to the desired DAG if nothing    *)
(* disturbed them, which CommittedConverges assumes of a plan.             *)
ASSUME InstanceArrives ==
  \A desired \in Desired : Arrives(PlanFor(desired, InitialTables), desired, InitialTables)

=============================================================================
