---------------------------- MODULE MCBlueGreen ----------------------------
(* BlueGreen for TLC: two new tables, one reading the other, and a table   *)
(* that exists already.                                                    *)
EXTENDS BlueGreen

CONSTANTS totals, daily, legacy, r0, r1, r2

Tables == {totals, daily, legacy}
TopologicalOrder == <<totals, daily, legacy>>
DailyReadsTotals == [t \in Tables |-> IF t = daily THEN {totals} ELSE {}]
Revisions == {r0, r1, r2}

Files(t, d, l) ==
  [x \in Tables |-> CASE x = totals -> t [] x = daily -> d [] x = legacy -> l]

LegacyOnly == Files(Absent, Absent, r0)

(* Start one new table; change it and add its reader; change the table     *)
(* that exists along with it.                                              *)
Edits == {Files(r1, Absent, r0), Files(r2, r1, r0), Files(r1, Absent, r1)}

AllFaults == {"crash", "sql", "bestEffort", "failover", "slow"}
=============================================================================
