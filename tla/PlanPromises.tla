---------------------------- MODULE PlanPromises ----------------------------
(***************************************************************************)
(* What a plan promises to those who execute it.  The modules that execute *)
(* plans take the planner as a parameter and assume these of it; that the  *)
(* plans of build_plan_with_options keep them is proved in ReplanProofs.   *)
(***************************************************************************)
EXTENDS PlanTypes

(* The steps that are about one stream table.                              *)
TableOps == {"CreateStreamTable", "AlterStreamTable", "DropStreamTable",
             "Backfill", "RecreatePolicy", "PauseImmediate", "ResumeImmediate"}

WellFormed(plan) ==
  /\ plan \in Seq(Step)
  /\ Len(plan) >= 2
  /\ plan[1].op = "LockDag" /\ plan[Len(plan)].op = "UnlockDag"
  /\ \A i \in 2..Len(plan) : plan[i].op # "LockDag"
  /\ \A i \in 1..(Len(plan) - 1) : plan[i].op # "UnlockDag"
  /\ \A i \in DOMAIN plan : plan[i].op \in TableOps => plan[i].table \in Table
  /\ \A i \in DOMAIN plan :
       plan[i].op = "CreateStreamTable" => plan[i].args \in TableSpec

(* PauseImmediate and ResumeImmediate come with the rebuild of their      *)
(* table, which the plan does not also alter, and set the mode only.      *)
SwitchesApart(plan) ==
  \A i \in DOMAIN plan : plan[i].op \in {"PauseImmediate", "ResumeImmediate"} =>
    /\ plan[i].args.query = None
    /\ \A j \in DOMAIN plan :
         plan[j].op = "AlterStreamTable" => plan[j].table # plan[i].table

-----------------------------------------------------------------------------
(* Of a plan without the steps that change no table and no version.        *)

TableChanges == {"CreateStreamTable", "AlterStreamTable", "DropStreamTable"}

TableChange == {step \in Step : step.op \in TableChanges /\ step.table \in Table}

ChangingOps == TableChanges \cup {"LockDag", "RecordSnapshot", "UnlockDag"}

(* A table change is about a table, and a create has the complete spec.    *)
ChangingStep ==
  {step \in Step :
     /\ step.op \in ChangingOps
     /\ step.op \in TableChanges <=> step.table \in Table
     /\ step.op = "CreateStreamTable" => step.args \in TableSpec}

UnlocksLast(plan) == \A i \in DOMAIN plan : plan[i].op = "UnlockDag" => i = Len(plan)

RecordsSnapshot(plan) == \E i \in DOMAIN plan : plan[i].op = "RecordSnapshot"

(* Each table is left alone, created, altered in place, dropped, or        *)
(* dropped and created again, and then has the query of its file.  A query *)
(* is altered in place only over the same FROM, WHERE and GROUP BY.        *)
SameQuery(desired, live, t) ==
  IF desired[t] = Absent THEN live[t] = Absent
  ELSE live[t] # Absent /\ live[t].query = desired[t].query

Creates(step, desired, t) ==
  /\ step.op = "CreateStreamTable" /\ desired[t] # Absent /\ step.args = desired[t]

Alters(step, desired, live, t) ==
  /\ step.op = "AlterStreamTable" /\ desired[t] # Absent /\ live[t] # Absent
  /\ OrElse(step.args.query, live[t].query) = desired[t].query
  /\ live[t].query.shape = desired[t].query.shape

FitsTable(plan, desired, live, t) ==
  LET steps == {i \in DOMAIN plan : plan[i].table = t} IN
  \/ steps = {} /\ SameQuery(desired, live, t)
  \/ \E i \in steps :
       /\ steps = {i} /\ desired[t] # live[t]
       /\ \/ Creates(plan[i], desired, t)
          \/ Alters(plan[i], desired, live, t)
          \/ plan[i].op = "DropStreamTable" /\ desired[t] = Absent
  \/ \E i, j \in steps :
       /\ i < j /\ steps = {i, j} /\ desired[t] # live[t]
       /\ plan[i].op = "DropStreamTable" /\ Creates(plan[j], desired, t)

-----------------------------------------------------------------------------
(* Of a plan for the tables `initial'.  What it may do with a table: leave *)
(* it, alter it or drop it, in one step, or create it, perhaps after a     *)
(* drop, and with its refresh mode switched around that.                   *)

Touching == {"CreateStreamTable", "AlterStreamTable", "DropStreamTable",
             "PauseImmediate", "ResumeImmediate"}

TouchesOf(plan, t) ==
  {i \in DOMAIN plan : plan[i].op \in Touching /\ plan[i].table = t}

Keeps(plan, desired, initial, t) ==
  TouchesOf(plan, t) = {} /\ initial[t] = desired[t]

AltersTo(plan, desired, initial, t) ==
  \E i \in TouchesOf(plan, t) :
    /\ TouchesOf(plan, t) = {i} /\ plan[i].op = "AlterStreamTable"
    /\ initial[t] # Absent
    /\ Coalesce(initial[t], plan[i].args) = desired[t]

DropsOnly(plan, desired, t) ==
  \E i \in TouchesOf(plan, t) :
    TouchesOf(plan, t) = {i} /\ plan[i].op = "DropStreamTable" /\ desired[t] = Absent

Builds(plan, desired, t) ==
  \E i \in TouchesOf(plan, t) :
    /\ plan[i].op = "CreateStreamTable" /\ plan[i].args = desired[t]
    /\ \A j \in TouchesOf(plan, t) \ {i} :
         \/ j < i /\ plan[j].op \in {"DropStreamTable", "PauseImmediate"}
         \/ /\ j > i /\ plan[j].op = "ResumeImmediate"
            /\ Coalesce(desired[t], plan[j].args) = desired[t]

(* Executed once and undisturbed, the plan brings the desired tables, and  *)
(* all of them before it records them.  Plans that leave something for the *)
(* next apply do not.                                                      *)
Arrives(plan, desired, initial) ==
  /\ \A t \in Table :
       \/ Keeps(plan, desired, initial, t) \/ AltersTo(plan, desired, initial, t)
       \/ DropsOnly(plan, desired, t) \/ Builds(plan, desired, t)
  /\ \A i, j \in DOMAIN plan :
       plan[i].op = "RecordSnapshot" /\ plan[j].op \in Touching => j < i

=============================================================================
