------------------------------ MODULE MCReplan ------------------------------
(***************************************************************************)
(* Instances of the planner for TLC.  a is a root, b reads a, d reads both *)
(* of them; the files are loaded in the reverse of the order they need.    *)
(* In one version of the files b reads d as well, which closes a cycle.    *)
(***************************************************************************)
EXTENDS Replan

CONSTANTS a, b, d

Column(x) == [expr |-> x, alias |-> x]

Text(columns, rest, reads) ==
  [shape |-> <<"from", reads>>, columns |-> columns, rest |-> rest, reads |-> reads]

Grouped(query) == [query EXCEPT !.shape = <<"group by", query.reads>>]

X  == <<Column("x")>>
Y  == <<Column("y")>>
XY == <<Column("x"), Column("y")>>

RootX      == Text(X, "", {})
RootY      == Text(Y, "", {})
RootXY     == Text(XY, "", {})
OverA      == Text(X, "", {a})
OverAWider == Text(XY, "", {a})
OverAB     == Text(X, "", {a, b})
OverAD     == Text(X, "", {a, d})
OverABTop  == Text(X, "limit", {a, b})

MCQuery == {RootX, RootY, RootXY, OverA, OverAWider, OverAB, OverAD,
            OverABTop, Grouped(OverAB)}

As(query, mode, schedule, cdc) ==
  [query |-> query, schedule |-> schedule, refresh |-> mode, cdc |-> cdc]

OfA == {Absent, As(RootX, "FULL", "1m", None), As(RootXY, "FULL", "5m", None),
        As(RootY, "IMMEDIATE", "1m", None), As(RootX, "DIFFERENTIAL", "1m", "wal")}
OfB == {Absent, As(OverA, "FULL", "1m", None),
        As(OverAWider, "DIFFERENTIAL", "1m", None)}
OfD == {Absent, As(OverAB, "FULL", "1m", None), As(OverABTop, "FULL", "1m", None),
        As(OverA, "IMMEDIATE", "1m", "wal")}

Three(sa, sb, sd) == [t \in Table |-> CASE t = a -> sa [] t = b -> sb [] t = d -> sd]

ThreeTables == {Three(sa, sb, sd) : sa \in OfA, sb \in OfB, sd \in OfD}

Cyclic == Three(As(RootX, "FULL", "1m", None), As(OverAD, "FULL", "1m", None),
                As(OverAB, "FULL", "1m", None))

ThreeTablesOrCycle == ThreeTables \cup {Cyclic}

ThreeFiles  == <<d, b, a>>
ThreeNames  == <<a, b, d>>

=============================================================================
