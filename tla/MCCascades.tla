----------------------------- MODULE MCCascades -----------------------------
(***************************************************************************)
(* A small project for TLC.  The table b reads a and the source s1, the    *)
(* table a reads the source s2; the file of b is loaded first.  Two        *)
(* consumer files expose views of the schemas r and q: c1 views of its     *)
(* name, c2 a view of the name c1, as c24_orders_view.sql of cookbook 24   *)
(* exposes api.orders.                                                     *)
(***************************************************************************)
EXTENDS Cascades, Planner

CONSTANTS a, b, s1, s2, c1, c2

Text(columns, reads) ==
  [shape |-> reads, columns |-> columns, rest |-> "", reads |-> reads]

OfA      == Text(<<[expr |-> "x", alias |-> "x"]>>, {})
OfAWider == Text(<<[expr |-> "x", alias |-> "x"], [expr |-> "y", alias |-> "y"]>>, {})
OfB      == Text(<<[expr |-> "z", alias |-> "z"]>>, {a})

MCQuery == {OfA, OfAWider, OfB}

MCSourcesRead == [q \in MCQuery |-> IF q = OfB THEN {s1} ELSE {s2}]

TwoFiles     == <<b, a>>
TwoNames     == <<a, b>>

(* The file of b before that of a, s1 before s2, c1 before c2.             *)
TwoPlaces == [x \in {a, b, s1, s2, c1, c2} |-> IF x \in {b, s1, c1} THEN 1 ELSE 2]

(* The default strategy's plan.  It has no changes exactly when none of    *)
(* these steps has.                                                        *)
ChangingSteps(desired, current) ==
  OnlyOf(BuildPlan(desired, current), TableChanges)

MCView      == {"r.c1", "q.c1"}
MCShortName == [v \in MCView |-> c1]

As(query) == [query |-> query, schedule |-> "1m", refresh |-> "FULL", cdc |-> None]

OfTwo(qa, sb) == [t \in Table |-> IF t = a THEN As(qa) ELSE sb]

Tables == {OfTwo(OfA, Absent), OfTwo(OfA, As(OfB))}

Sources == {[s \in Source |-> IF s = s1 THEN d1 ELSE d2] :
              d1 \in {1, 2}, d2 \in {Absent, 1}}

Expose(v, body) == [expose |-> v, source |-> a, body |-> body]

Views(of1, of2) ==
  {[tables |-> [t \in Table |-> IF t = a THEN As(OfA) ELSE Absent],
    sources |-> Untouched,
    consumers |-> [c \in Consumer |-> IF c = c1 THEN e1 ELSE e2]] :
     e1 \in of1 \cup {Absent}, e2 \in of2 \cup {Absent}}

(* Edits of the sources and the tables.                                    *)
SourceEdits ==
  {[tables |-> t, sources |-> s, consumers |-> [c \in Consumer |-> Absent]] :
     t \in Tables, s \in Sources}

(* Views that change, move to another schema, go, or change their file;    *)
(* at times two files expose the same.                                     *)
ViewEdits ==
  Views({Expose("r.c1", 1), Expose("r.c1", 2), Expose("q.c1", 1)},
        {Expose("r.c1", 1)})

SourcesOrViews == SourceEdits \cup ViewEdits

=============================================================================
