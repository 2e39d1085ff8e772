----------------------------- MODULE MCCommands -----------------------------
(***************************************************************************)
(* Two projects for TLC.  Project p has the table t, or t in another mode  *)
(* and with a reader u; project q has a table of its own, also named u.    *)
(* The maintenance window spans midnight.                                  *)
(***************************************************************************)
EXTENDS Commands, Planner

LOCAL INSTANCE TLC
LOCAL INSTANCE SequencesExt

CONSTANTS t, u, p, q, s1, s2

Text(column, reads) ==
  [shape |-> reads, columns |-> <<[expr |-> column, alias |-> column]>>,
   rest |-> "", reads |-> reads]

X     == Text("x", {})
OverT == Text("x", {t})

MCQuery == {X, OverT}

As(query, mode) == [query |-> query, schedule |-> "1m", refresh |-> mode, cdc |-> None]

Two(st, su) == [x \in Table |-> IF x = t THEN st ELSE su]

TwoNames == <<t, u>>

TwoProjects ==
  [x \in Project |->
     IF x = p THEN {Two(As(X, "FULL"), Absent),
                    Two(As(X, "DIFFERENTIAL"), As(OverT, "FULL"))}
     ELSE {Two(Absent, As(X, "FULL"))}]

ApplyOrPromote == [x \in Project |-> IF x = p THEN {"apply"} ELSE {"promote"}]

(* The default strategy's plan.  It has no changes exactly when none of    *)
(* these steps has.                                                        *)
ChangingSteps(desired, current) ==
  OnlyOf(BuildPlan(desired, current), ChangingOps)

(* destroy.rs: the reverse of the order topological_sort gives, which is   *)
(* that of the names, as the live state has no dependencies.               *)
LastNameFirst(tables) == Reverse(Keep(NameOrder, tables))

AcrossMidnight == <<1, 0>>

Shells == Permutations(Session)

=============================================================================
