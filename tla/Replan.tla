------------------------------- MODULE Replan -------------------------------
(***************************************************************************)
(* A project over time, seen by the planner alone: the migration files are *)
(* edited, an apply plans against the tables it finds and every step of    *)
(* the plan succeeds.  Files that describe a cycle are refused.            *)
(***************************************************************************)
EXTENDS Planner

CONSTANT Desired   \* the DAGs the migration files may describe

ASSUME DesiredAssumption == Desired \subseteq DagState

VARIABLES desired, live

replanVars == <<desired, live>>

TypeOK == desired \in Desired /\ live \in DagState

(* The tables after each number of steps, and after them all.              *)
Ran(plan, dag) ==
  LET ran[n \in 0 .. Len(plan)] ==
        IF n = 0 THEN dag ELSE Effect(ran[n - 1], plan[n])
  IN ran

After(plan, dag) == Ran(plan, dag)[Len(plan)]

Init == desired \in Desired /\ live = EmptyDag

Edit == desired' \in Desired \ {desired} /\ UNCHANGED live

(* The plan depends on the order in which the HashMap yields its keys.     *)
Orders == SetToSeqs(ConvergenceNodes(desired, live))

Apply ==
  /\ Sortable(desired)
  /\ \E order \in Orders :
       live' = After(BuildPlanInOrder(desired, live, order), live)
  /\ UNCHANGED desired

Next == Edit \/ Apply

Spec == Init /\ [][Next]_replanVars

Plan == BuildPlan(desired, live)

-----------------------------------------------------------------------------
StepsOn(plan, ops) == {i \in DOMAIN plan : plan[i].op \in ops}

(* dag.rs:422: a plan is refused exactly when the tables of the files read *)
(* each other in a circle: some of them all read another of them.          *)
RefusesCycles ==
  Sortable(desired) <=>
    \A tables \in (SUBSET Existing(desired)) \ {{}} :
      \E t \in tables : DependsOn(desired, t) \cap tables = {}

(* Topological order (dag.rs, plan.rs:731): when a table is created, every *)
(* stream table its query reads exists, whatever was dropped, rebuilt or   *)
(* promoted on the way.                                                    *)
CreatedOnExistingTables ==
  Sortable(desired) =>
    \A i \in StepsOn(Plan, {"CreateStreamTable"}) :
      Plan[i].args.query.reads \cap Existing(desired)
        \subseteq Existing(Ran(Plan, live)[i - 1])

(* Whatever the classes of the changes, and whatever is promoted, the      *)
(* tables after an apply are the desired ones with the desired queries.    *)
ApplyBringsQueries ==
  Sortable(desired) =>
    LET result == After(Plan, live) IN
    /\ Existing(result) = Existing(desired)
    /\ \A t \in Existing(desired) : result[t].query = desired[t].query

(* Planning again converges.  An apply may leave fields behind (it drops   *)
(* the metadata of an in-place query change, and sets a rebuilt IMMEDIATE  *)
(* table back to IMMEDIATE), and the leftovers of several tables may meet  *)
(* in a diamond and be rebuilt together; a third apply leaves nothing but  *)
(* a CDC mode that the files no longer name.                               *)
SettlesInThree ==
  LET Again(dag) == After(BuildPlan(desired, dag), dag)
      settled    == Again(Again(Again(live)))
  IN Sortable(desired) =>
       \A t \in Table :
         settled[t] # desired[t] =>
           /\ t \in Existing(settled) \cap Existing(desired)
           /\ desired[t].cdc = None
           /\ [settled[t] EXCEPT !.cdc = None] = desired[t]

(* Diamonds (plan.rs:394): where two changed branches meet, the node and    *)
(* all its changed ancestors are migrated at least as disruptively as the  *)
(* most disruptive change among them.                                      *)
DiamondsArePromoted ==
  \A order \in Orders, n \in ConvergenceNodes(desired, live) :
    LET classes == Promoted(desired, live, order)
        group   == DiamondGroup(desired, live, n)
    IN \A t, u \in group :
         ClassRank(classes[t]) >= ClassRank(ClassifyDelta(desired, live, u))

=============================================================================
